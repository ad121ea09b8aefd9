-------------------------------- MODULE Einj --------------------------------
(***************************************************************************)
(* src/python/einj.py: error injection through the ACPI EINJ table.  An    *)
(* inject function runs a fixed sequence of the table's actions:           *)
(*                                                                         *)
(*   GET_ERROR_TYPE, BEGIN_INJECTION_OPERATION, SET_ERROR_TYPE or          *)
(*   SET_ERROR_TYPE_WITH_ADDRESS, EXECUTE_OPERATION, CHECK_BUSY_STATUS     *)
(*   until it is clear, GET_COMMAND_STATUS, the entries of the trigger     *)
(*   table, END_OPERATION.                                                 *)
(*                                                                         *)
(* An action that the table has no entry for is reported and skipped.  An  *)
(* exception leaves the sequence where it is.  The firmware works between  *)
(* EXECUTE and the clearing of the busy bit, and its status register keeps *)
(* the status of the run before until then.                                *)
(***************************************************************************)
EXTENDS Naturals

CONSTANTS
    Optional,     \* the actions a table may lack
    MaxInjections \* calls of inject functions

VARIABLES
    einj,     \* the table: missing entries, and how two registers are described
    pc,       \* the action that is executed next, or idle
    asked,    \* the error that is injected
    how,      \* by its type alone, or with an address
    told,     \* the types in the registers of the two ways
    open,     \* BEGIN has been executed, and END not
    busy,     \* the busy bit
    result,   \* the status register
    ran,      \* the status of the firmware's run for this injection
    calls     \* inject functions called

einjVars == <<einj, pc, asked, how, told, open, busy, result, ran, calls>>

Actions == {"GET_ERROR_TYPE", "BEGIN_INJECTION_OPERATION", "SET_ERROR_TYPE",
            "SET_ERROR_TYPE_WITH_ADDRESS", "EXECUTE_OPERATION",
            "CHECK_BUSY_STATUS", "GET_COMMAND_STATUS",
            "GET_TRIGGER_ERROR_ACTION_TABLE", "END_OPERATION"}

ASSUME EinjAssumption == Optional \subseteq Actions /\ MaxInjections \in Nat

(* The functions differ in the bit they set and in two mistakes: the fatal   *)
(* processor error names a parameter it does not have, and a platform error  *)
(* is entered as a context without being one.                                *)
Works == {"memory", "processor", "pci_express"}
Broken == {"processor_uncorrectable_fatal", "platform"}

Statuses == {"SUCCESS", "UNKNOWN_FAILURE", "INVALID_ACCESS"}

NoTold == [SET_ERROR_TYPE |-> {}, SET_ERROR_TYPE_WITH_ADDRESS |-> {}]

EinjTypeOK ==
    /\ einj.missing \subseteq Actions
    /\ pc \in Actions \cup {"idle"}
    /\ asked \in Works \cup Broken \cup {"none"}
    /\ DOMAIN told = DOMAIN NoTold
    /\ \A way \in DOMAIN told : told[way] \subseteq Works
    /\ open \in BOOLEAN /\ busy \in BOOLEAN
    /\ result \in Statuses /\ ran \in Statuses \cup {"none"}
    /\ calls \in 0..MaxInjections

EinjStart(tables, called) ==
    /\ einj \in tables
    /\ pc = "idle" /\ asked = "none" /\ how = "SET_ERROR_TYPE"
    /\ told = NoTold
    /\ open = FALSE /\ busy = FALSE
    /\ result = "SUCCESS" /\ ran = "none"
    /\ calls = called

(* shifted: the busy bit is not the register's lowest; preserve: the flag of *)
(* the SET_ERROR_TYPE entry; triggers: the trigger table's registers are of  *)
(* an address space that the code knows.                                     *)
EinjTables ==
    [missing : SUBSET Optional, shifted : BOOLEAN, preserve : BOOLEAN,
     triggers : BOOLEAN]

EinjInit == EinjStart(EinjTables, 0)

(* Nothing is injected: the initial state beside a reader of tables. *)
EinjIdle ==
    EinjStart({[missing |-> Actions, shifted |-> FALSE, preserve |-> FALSE,
                triggers |-> FALSE]}, MaxInjections)

-----------------------------------------------------------------------------
(* The registers *)

Has(action) == action \notin einj.missing

(* _read_register shifts and masks, and _read_register_value does both again *)
(* before it compares: of a bit that is not the lowest nothing is left.      *)
_read_register_value(bit) == bit /\ ~einj.shifted

\* Fault: the busy status is not looked at.
BusyUnseen == FALSE

(* check_busy_status_op: without an entry the status is None. *)
CheckBusyStatus ==
    Has("CHECK_BUSY_STATUS") /\ _read_register_value(busy)

(* _write_register: the value is put on top of what the register holds, of   *)
(* which the masked bits are cleared only under the flag that is meant to    *)
(* keep the others.                                                          *)
_write_register(old, value) == IF einj.preserve THEN value ELSE old \cup value

(* _execute_action: the structure of SET_ERROR_TYPE_WITH_ADDRESS is assigned *)
(* field by field.                                                           *)
WriteType(way, value) ==
    told' = [told EXCEPT ![way] =
                IF ~Has(way) THEN @
                ELSE IF way = "SET_ERROR_TYPE" THEN _write_register(@, value)
                ELSE value]

-----------------------------------------------------------------------------
(* An inject function, one action of the table at a time *)

Goes(next) == pc' = next
Firmware == <<busy, result, ran>>
Request == <<einj, asked, how, calls>>

(* The type is asked for by a read; without an entry there is no answer to   *)
(* take the bit from, and without the bit the function returns.              *)
Inject ==
    /\ pc = "idle" /\ calls < MaxInjections
    /\ Has("GET_ERROR_TYPE")
    /\ asked' \in Works \cup Broken
    /\ how' \in IF asked' \in Works THEN DOMAIN told ELSE {"SET_ERROR_TYPE"}
    /\ calls' = calls + 1
    /\ Goes("BEGIN_INJECTION_OPERATION")
    /\ UNCHANGED <<einj, told, open, Firmware>>

InjectRefused ==
    /\ pc = "idle" /\ calls < MaxInjections
    /\ calls' = calls + 1
    /\ UNCHANGED <<einj, pc, asked, how, told, open, Firmware>>

Begin ==
    /\ pc = "BEGIN_INJECTION_OPERATION"
    /\ open' = (open \/ Has("BEGIN_INJECTION_OPERATION"))
    /\ ran' = "none"
    /\ Goes(how)
    /\ UNCHANGED <<Request, told, busy, result>>

SetType ==
    /\ pc \in DOMAIN told
    /\ asked \in Works
    /\ WriteType(how, {asked})
    /\ Goes("EXECUTE_OPERATION")
    /\ UNCHANGED <<Request, open, Firmware>>

SetRaises ==
    /\ pc \in DOMAIN told
    /\ asked \in Broken
    /\ Goes("idle")
    /\ UNCHANGED <<Request, told, open, Firmware>>

Execute ==
    /\ pc = "EXECUTE_OPERATION"
    /\ busy' = (busy \/ Has("EXECUTE_OPERATION"))
    /\ Goes("CHECK_BUSY_STATUS")
    /\ UNCHANGED <<Request, told, open, result, ran>>

CheckBusy ==
    /\ pc = "CHECK_BUSY_STATUS"
    /\ ~CheckBusyStatus
    /\ Goes("GET_COMMAND_STATUS")
    /\ UNCHANGED <<Request, told, open, Firmware>>

GetStatus ==
    /\ pc = "GET_COMMAND_STATUS"
    /\ Has("GET_COMMAND_STATUS")
    /\ Goes(IF result = "SUCCESS" THEN "GET_TRIGGER_ERROR_ACTION_TABLE"
            ELSE "idle")
    /\ UNCHANGED <<Request, told, open, Firmware>>

(* None cannot be printed as a number. *)
GetStatusRaises ==
    /\ pc = "GET_COMMAND_STATUS"
    /\ ~Has("GET_COMMAND_STATUS")
    /\ Goes("idle")
    /\ UNCHANGED <<Request, told, open, Firmware>>

CanTrigger == Has("GET_TRIGGER_ERROR_ACTION_TABLE") /\ einj.triggers

Trigger ==
    /\ pc = "GET_TRIGGER_ERROR_ACTION_TABLE"
    /\ CanTrigger
    /\ Goes("END_OPERATION")
    /\ UNCHANGED <<Request, told, open, Firmware>>

TriggerRaises ==
    /\ pc = "GET_TRIGGER_ERROR_ACTION_TABLE"
    /\ ~CanTrigger
    /\ Goes("idle")
    /\ UNCHANGED <<Request, told, open, Firmware>>

End ==
    /\ pc = "END_OPERATION"
    /\ open' = (open /\ ~Has("END_OPERATION"))
    /\ Goes("idle")
    /\ UNCHANGED <<Request, told, Firmware>>

(* The firmware has done what EXECUTE asked for. *)
FirmwareCompletes ==
    /\ busy
    /\ busy' = FALSE
    /\ result' \in Statuses
    /\ ran' = result'
    /\ UNCHANGED <<Request, pc, told, open>>

EinjStep ==
    \/ Inject \/ InjectRefused
    \/ Begin \/ SetType \/ SetRaises \/ Execute \/ CheckBusy
    \/ GetStatus \/ GetStatusRaises
    \/ Trigger \/ TriggerRaises \/ End

EinjNext == EinjStep \/ FirmwareCompletes

EinjSpec == EinjInit /\ [][EinjNext]_einjVars

-----------------------------------------------------------------------------
(* Properties *)

(* An error is triggered only after the firmware has finished the injection  *)
(* it was asked for, with success, and inside an operation that has begun:   *)
(* the status that is read is the one of this run, not what a run before     *)
(* left in the register.  A table without EXECUTE or CHECK_BUSY, and one     *)
(* whose busy bit is not the lowest, have no such protection.                *)
TriggerOnlyAfterSuccess ==
    [][Trigger /\ Has("EXECUTE_OPERATION") /\ Has("CHECK_BUSY_STATUS")
           /\ ~einj.shifted =>
        ran = "SUCCESS" /\ (Has("BEGIN_INJECTION_OPERATION") => open)]_einjVars

(* The firmware executes an injection of the error that was asked for, and   *)
(* of no other: what earlier injections wrote is gone.                       *)
TypeAsAsked ==
    pc = "CHECK_BUSY_STATUS" => told[how] \subseteq {asked}

(* Every injection comes to an end, whatever the table lacks.                *)
InjectionEnds == (pc # "idle") ~> (pc = "idle")
=============================================================================

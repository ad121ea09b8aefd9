----------------------------- MODULE Microcode -----------------------------
(***************************************************************************)
(* src/rc/mcu/mcu.c: mcu_load and mcu_status.  The files named are read    *)
(* into one buffer, which is a sequence of microcode updates; then each    *)
(* processor in turn searches the buffer for the first update that is made *)
(* for it, and loads it if it is newer than its own; then the processors   *)
(* that had the same story are counted together and shown.                 *)
(*                                                                         *)
(* The threads of a core share their microcode.  Whether a processor takes *)
(* an update that is written to it is its own affair.                      *)
(***************************************************************************)
EXTENDS Integers, SequencesExt

CONSTANTS
    CoreOf,      \* the core of each processor, in the order of the CPU list
    McuTypes,    \* signatures with platform ids
    McuFiles,    \* files of updates: sequences, in which only the last is cut
    MaxUpdates,  \* updates in the buffer
    Garbage,     \* revisions that update_info may hold at first
    RevisionBits \* the width of a revision, 32 in the code

VARIABLES
    typeOf,    \* the type of each core
    running,   \* the revision each core runs
    action,    \* load or status
    mcuPc,     \* parse, call, search, decide, report, done or idle
    buffer,    \* the updates read so far
    cpu,       \* index of the processor in the loop, 0 before it
    current,   \* where the search is in the buffer
    before,    \* proc_info.ucode_rev
    info,      \* update_info, which nothing initialises
    loaded,    \* the update that was written to the processor, or 0
    unique,    \* the rows of the report
    replaced   \* the processors whose revision has changed

mcuVars == <<typeOf, running, action, mcuPc, buffer, cpu, current, before,
             info, loaded, unique, replaced>>

Cores == {CoreOf[i] : i \in DOMAIN CoreOf}
ncpus == Len(CoreOf)
Revisions == 0..(2^RevisionBits - 1)
Core == CoreOf[cpu]

(* An update: the types it and its extended signatures are for, its total    *)
(* size by its data size, and whether the buffer ends before its data do.    *)
Updates == [fits : SUBSET McuTypes, ext : SUBSET McuTypes,
            total : {"exact", "extended", "short"}, cut : BOOLEAN,
            revision : Revisions]

ASSUME McuAssumption ==
    /\ CoreOf \in Seq(Cores) /\ McuTypes # {}
    /\ McuFiles \subseteq Seq(Updates) /\ MaxUpdates \in Nat
    /\ RevisionBits \in Nat \ {0} /\ Garbage \subseteq Revisions
    /\ 2^RevisionBits > 0 /\ 2^(RevisionBits - 1) > 0 \* true; provers know no powers

McuTypeOK ==
    /\ typeOf \in [Cores -> McuTypes] /\ running \in [Cores -> Revisions]
    /\ action \in {"load", "status"}
    /\ mcuPc \in {"parse", "call", "search", "decide", "report", "done", "idle"}
    /\ Len(buffer) <= MaxUpdates
    /\ cpu \in 0..ncpus /\ current \in 1..MaxUpdates + 1
    /\ before \in Revisions
    /\ info.valid \in BOOLEAN /\ info.revision \in Revisions
    /\ loaded \in 0..Len(buffer)
    /\ Len(unique) <= ncpus /\ replaced \in 0..ncpus

McuStart(pc, actions, revisions, garbage) ==
    /\ typeOf \in [Cores -> McuTypes]
    /\ running \in [Cores -> revisions]
    /\ action \in actions
    /\ mcuPc = pc
    /\ buffer = <<>> /\ cpu = 0 /\ current = 1
    /\ before = 0 /\ loaded = 0
    /\ info \in [valid : {FALSE}, revision : garbage]
    /\ unique = <<>> /\ replaced = 0

McuInit == McuStart("parse", {"load", "status"}, Revisions, Garbage)

(* No command is given: the initial state beside another program. *)
McuIdle ==
    /\ typeOf = [c \in Cores |-> CHOOSE t \in McuTypes : TRUE]
    /\ McuStart("idle", {"status"}, {0}, {0})

-----------------------------------------------------------------------------
(* parse_microcodes *)

Machine == <<typeOf, running, action>>
Loop == <<cpu, current, before, info, loaded, unique, replaced>>

ParseFile ==
    /\ mcuPc = "parse"
    /\ buffer # <<>> => ~Last(buffer).cut
    /\ \E updates \in McuFiles :
        /\ Len(buffer) + Len(updates) <= MaxUpdates
        /\ buffer' = buffer \o updates
    /\ UNCHANGED <<Machine, mcuPc, Loop>>

(* The files are read, or one of them cannot be, which ends the reading; the *)
(* commands go on with what was read, and only mcu_load insists on some.     *)
(* Neither does anything where smp_init finds no processor.                  *)
ParseEnds ==
    /\ mcuPc = "parse"
    /\ \/ mcuPc' = "done"
       \/ (action = "load" => buffer # <<>>) /\ mcuPc' = "call"
    /\ UNCHANGED <<Machine, buffer, Loop>>

-----------------------------------------------------------------------------
(* updateCpuCallBack and FindUpdateCallBack, on the processor in turn *)

(* The next processor is asked what it runs; valid is the only field of      *)
(* update_info that is set.                                                  *)
Call ==
    /\ mcuPc = "call" /\ cpu < ncpus
    /\ cpu' = cpu + 1
    /\ before' = running[CoreOf[cpu + 1]]
    /\ info' = [info EXCEPT !.valid = FALSE]
    /\ current' = 1 /\ loaded' = 0
    /\ mcuPc' = "search"
    /\ UNCHANGED <<Machine, buffer, unique, replaced>>

Searching == mcuPc = "search" /\ current <= Len(buffer)
Update == buffer[current]

(* The data end beyond the buffer, or beyond the size of the update. *)
SizeWrong(update) == update.cut \/ update.total = "short"

Matches(types) == typeOf[Core] \in types

Found ==
    /\ info' = [valid |-> TRUE, revision |-> Update.revision]
    /\ mcuPc' = "decide"
    /\ UNCHANGED current

SearchOn(found) ==
    IF found THEN Found
    ELSE current' = current + 1 /\ UNCHANGED <<mcuPc, info>>

Plain ==
    /\ Searching
    /\ ~SizeWrong(Update) /\ Update.total = "exact"
    /\ SearchOn(Matches(Update.fits))
    /\ UNCHANGED <<Machine, buffer, cpu, before, loaded, unique, replaced>>

(* An update with more signatures behind its data.  Two of the sums it is    *)
(* tested by are taken over the bytes of pointers, and the third over the    *)
(* wrong part of the update, so they are right or wrong by chance.           *)
Extended ==
    /\ Searching
    /\ ~SizeWrong(Update) /\ Update.total = "extended"
    /\ SearchOn(Matches(Update.fits \cup Update.ext))
    /\ UNCHANGED <<Machine, buffer, cpu, before, loaded, unique, replaced>>

(* The search ends without an update, at its end or at a broken one. *)
SearchFails ==
    /\ mcuPc = "search"
    /\ \/ current > Len(buffer)
       \/ Searching /\ (SizeWrong(Update) \/ Update.total = "extended")
    /\ mcuPc' = "decide"
    /\ UNCHANGED <<Machine, buffer, Loop>>

\* Fault: revisions are compared as they are stored.
NewerUnsigned(z, x) == z > x

(* signed long is as wide as a revision on i386. *)
Signed(revision) ==
    IF revision >= 2^(RevisionBits - 1) THEN revision - 2^RevisionBits
    ELSE revision

Newer(z, x) ==
    Signed(z) < 0 \/ (Signed(z) > 0 /\ Signed(z) > Signed(x))

Loads == info.valid /\ Newer(info.revision, before) /\ action = "load"

(* The update is written to the processor, which takes it for its core or    *)
(* does not.                                                                 *)
Load ==
    /\ mcuPc = "decide"
    /\ Loads
    /\ loaded' = current
    /\ \/ running' = [running EXCEPT ![Core] = info.revision]
       \/ UNCHANGED running
    /\ mcuPc' = "report"
    /\ UNCHANGED <<typeOf, action, buffer, cpu, current, before, info, unique,
                   replaced>>

LoadNothing ==
    /\ mcuPc = "decide"
    /\ ~Loads
    /\ mcuPc' = "report"
    /\ UNCHANGED <<Machine, buffer, Loop>>

-----------------------------------------------------------------------------
(* WriteUpdatesToCpus: the report *)

(* The validity of the update is kept in a row and not compared.             *)
RowKey(row) == <<row.type, row.before, row.update, row.after>>

Report ==
    /\ mcuPc = "report"
    /\ LET row == [type |-> typeOf[Core], before |-> before,
                   update |-> info.revision, valid |-> info.valid,
                   after |-> running[Core], count |-> 1]
           same == {j \in DOMAIN unique : RowKey(unique[j]) = RowKey(row)}
       IN  /\ unique' = IF same = {} THEN Append(unique, row)
                        ELSE [unique EXCEPT ![Min(same)].count = @ + 1]
           /\ replaced' = replaced + IF row.before # row.after THEN 1 ELSE 0
    /\ mcuPc' = "call"
    /\ UNCHANGED <<Machine, buffer, cpu, current, before, info, loaded>>

ReportEnds ==
    /\ mcuPc = "call" /\ cpu = ncpus
    /\ mcuPc' = "done"
    /\ UNCHANGED <<Machine, buffer, Loop>>

McuNext ==
    \/ ParseFile \/ ParseEnds
    \/ Call \/ Plain \/ Extended \/ SearchFails \/ Load \/ LoadNothing
    \/ Report \/ ReportEnds

-----------------------------------------------------------------------------
(* Properties *)

(* The updates for the processor in turn, and the first that stops a search, *)
(* or may do so.                                                             *)
UpdatesFor(type) == {p \in DOMAIN buffer :
    type \in buffer[p].fits
        \/ (buffer[p].total = "extended" /\ type \in buffer[p].ext)}
Stops == {p \in DOMAIN buffer : buffer[p].cut \/ buffer[p].total = "short"}
MayStop == {p \in DOMAIN buffer : buffer[p].total = "extended"}

(* The rule of the comment in updateCpuCallBack, on the bits of a revision.  *)
ByTheGuide(z, x) ==
    LET negative(r) == r >= 2^(RevisionBits - 1)
    IN  z # 0 /\ (negative(z) \/ negative(x) \/ z > x)

(* mcu_load writes the first update of the files that is made for the        *)
(* processor, if no broken one comes before it and the guide has it loaded,  *)
(* and no other; mcu_status writes none.                                     *)
LoadedRight ==
    mcuPc = "report" =>
        LET mine == UpdatesFor(typeOf[Core])
            first == Min(mine)
            sound(p) == \A q \in Stops : q > p
            due == /\ action = "load" /\ mine # {}
                   /\ sound(first) /\ ByTheGuide(buffer[first].revision, before)
        IN  /\ loaded # 0 => due /\ loaded = first
            /\ due /\ (\A q \in MayStop : q > first) => loaded = first

(* The rows of the report count every processor once, and those of them      *)
(* that show two revisions count the ones that are called replaced.          *)
ReportAddsUp ==
    LET counted(rows) == MapThenSumSet(LAMBDA j: unique[j].count, rows)
        reported == IF mcuPc \in {"search", "decide", "report"} THEN cpu - 1
                    ELSE cpu
    IN  /\ counted(DOMAIN unique) = reported
        /\ counted({j \in DOMAIN unique : unique[j].before # unique[j].after})
             = replaced

(* What is written to a processor and what is reported of it.                *)
UpdatedAsReported == LoadedRight /\ ReportAddsUp
=============================================================================

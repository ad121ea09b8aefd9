# A verification of the BIOS Implementation Test Suite

BITS boots a machine into GRUB2, with a Python interpreter linked in and a
small runtime (`rc/smp`) that wakes the other processors and runs functions on
them. Everything above the firmware runs in one thread on the boot processor
(BSP); concurrency enters through the application processors (APs), through
interrupts, and, on EFI, through callbacks that the firmware runs whenever it
likes.

## Inventory

| Component | Source | State | Operations | What makes it correct |
|---|---|---|---|---|
| Boot of the APs | `rc/smp/smp.c`, `smprc.c`, `smpasm.S` | `SMP_HOST`, the lock and counter of the low page | `smp_init`, `smp_phantom_init`; each AP: trampoline, claim, record, look-up, check-in | shared stack exclusive, processor list exact and stable, every listed processor serves |
| Remote calls | `rc/smp/smprc.c`, `smpasm.S`, `barrier.c` | control word, function, parameter and MWAIT settings of each slot | `smp_function`, `smp_set_mwait`, loop of `mp_worker` | a call is refused or run once by the named processor before it returns; no lost wakeup |
| Blocking sleep | `rc/smp/smprc.c` | timer, LVT masks, interrupt flag, a word on the stack | `smp_sleep`, `intHandler` | not early, ends, leaves nothing behind |
| `_smp` module | `rc/python/smpmodule.c` | none of its own | CPUID, MSR, port, CR, memory accessors, `smi_latency` | the status reported is that of the access |
| EFI events | `python/efi.py`, `rc/python/efimodule.c` | handler table, Python's pending calls | create, signal, close, dispatch, close all at exit | no completion lost, none delivered to a closed handler |
| Sockets | `python/_socket.py`, `select.py` | tokens, receive queue, connect status | connect, accept, recv, send, close, select | data in order, time-outs honoured, tokens released |
| EFI files, protocols | `python/efi.py` | open handles | open, read, seek, close, `locate_handles` | closed once, sizes agreed |
| POSIX emulation | `rc/python/compat.c`, `pyfsmodule.c`, `python/os.py`, `bits/pyfs.py` | descriptor table, offsets | open, read, seek, stat, close | a descriptor names one open file, offsets follow reads |
| Line editor | `python/readline.py` | line, cursor, history, kill ring, completion | one per key | cursor within the line, line within the screen; kills, yanks and completions can be undone |
| Output | `python/redirect.py`, `pager.py`, `ttypager.py`, `bits/input.py` | output stack, lines shown | redirect, page | output restored |
| Test suite | `python/testsuite.py`, `testing.py`, `test*.py` | registered tests, counters | `add_test`, `run_*`, `test` | every test counted once, verdict follows the counts |
| Microcode | `rc/mcu/mcu.c` | the updates read, the rows of the report | `mcu_load`, `mcu_status`: search, load, report | each processor gets the first update made for it, and only if it is newer |
| ACPICA glue | `rc/acpica`, `rc/python/acpimodule.c` | how far ACPICA is initialised | early_init, init, terminate, eval | no use before init, none after terminate |
| Firmware tables | `python/unpack.py`, `acpi.py`, `smbios.py`, `mptable.py`, `bits/pirtable.py`, `bits/cdata.py` | an offset in a window, a list of classes | find a table, step from record to record, choose a class, decode | a record is where the reader takes it to be, its class fits it, no field is lost unseen, the reader ends |
| Error injection | `python/einj.py` | registers of the firmware | the actions of the EINJ table in their order, the busy loop | nothing triggered before the firmware has succeeded, injections end, the error asked for and no other |
| Python in GRUB | `rc/python/python.c`, `bitsmodule.c`, `python/init.py`, `bits/__init__.py` | registered commands, disks, caches | registration, callbacks | caches agree with the machine |
| Reports and tests of registers | `python/mtrr.py`, `cpu_*.py`, ... | hardware registers | read, decode, print | decoding total and exact |
| Menus and commands | `python/grubcmds.py`, `*menu.py`, ... | generated configuration text | format | not modelled: formatting |

Interaction: Python calls `_smp`, which calls `smp_function` and `smp_sleep`;
both need `smp_init`, which asks ACPICA for the MADT. The socket layer is
built on EFI events. The console and the POSIX emulation sit between Python
and GRUB. The readers of tables look at memory the firmware wrote long before and
at nothing of each other; error injection finds its registers through one of
them. The hard parts are the races of the boot and of the hand-over, the
timer's interrupt, firmware callbacks against the polling main program,
lengths that the firmware states against lengths the code knows, and what is
left behind when one step of several fails. `PROJECT.json` lists them
as hazards, each at its line.

## The modules

### SmpBoot: waking the processors

The BSP's program is one variable, `bspPc`, and the operations of
`smp_init_with_memory` are actions: `SmpInit` (reset of the host structure and
the early returns of `do_callback`), `InitSipiCode`, `send_broadcast_init`,
`send_broadcast_sipi` (twice), `AllCheckedIn` (the waiting loop and what
follows it). Each AP has a program counter in `apPc`:

    foreign -> wfs -> spin -> idt -> check -> claim -> apicid -> prepare -> count -> unlock -> find -> worker
                                       \-> full                     \------------ lost ------------/

`spin` to `prepare` is `ApStart` and `find_logical_processors` on the stack of
the low page, `count` and `unlock` are the two stores of `drop_ap_lock`, `find`
is the second look-up in `mp_worker`. Each iteration of the look-up is a
step, because the table may be written meanwhile. `full` is a processor the
MADT did not list: it is parked with the lock held. `lost` is the endless loop
of a processor that does not find itself. INIT takes an AP back to `wfs` from
wherever it is. `smp_phantom_init(taken)` is called by a module that may have
taken the APs away with an INIT-SIPI-SIPI of its own. The firmware's MADT is a
sequence of subtables, and `process_madt` counts it as the code does, a
processor with both a local APIC and an x2APIC entry twice. The loop steps by the
`Length` of each subtable; where one states 0 it does not end (`WalkEnds`), and
`SmpInitWalks` is the smp_init that never gets beyond it.

A processor's APIC id is its name. The timing of the INIT (10 ms) and of the
SIPIs is abstracted to "has arrived".

### ControlWait and SmpCall: running a function elsewhere

`ControlWait` is `wait_for_control_asm`, instruction by instruction: compare,
MONITOR, compare, MWAIT, with an address monitor per processor that a store
to the word hits; MWAIT may also end for no reason (`WokenEarly`), to which no
fairness is given. `SmpCall` puts `smp_function` on one side and the loop of
`mp_worker` on the other; function, parameter and control word are separate
stores. A slot is named by its processor, which is what `ListedServe` of
SmpBoot establishes. `RemoteCall` says in three actions what the caller is promised;
SmpCall implements it (`CallsAreServed`), with `req` the call being served and
`phase` the progress of its history.

### SmpSleep: waiting for the timer

The steps of `smp_sleep` from the store of 1 into the word on the stack to the
restored LINT0, the one-shot timer (`Tick`), the interrupt request, the
interrupt flag, and `intHandler` with `set_control_callback`. The arithmetic
of `start_apic_timer` is that of a U32, with a modulus of the configuration's
choice. Time is counted in ticks.

### EfiEvents and EfiSocket: callbacks of the firmware

`EfiEvents` is the life of an event: `create_event`, the notification
`c_event_callback`, which only queues a pending call, the interpreter's
`_event_callback`, and `close_event`. Python is built without threads
(`rc/python/pyconfig.h:1328`), so the queue is bounded, unlocked, and served
between two instructions of the program.

`EfiSocket` builds the sockets and `select` on it. `tokens` are the tokens the
firmware holds and `outcome` is what it wrote into them; `tcp`, `sent`,
`taken` and `fin` are the connection. `call` holds the local variables of the
one operation that runs; each operation is an action that begins it and one
action per step that a callback may come between. In particular
`_read_ready` is two steps, the look at the queue (`NotReady`, `Look`) and the
start of a token (`Start`). A callback is a single step, since Python does not
nest pending calls. What a recv returns is counted in bytes numbered in the order
the peer sent them, and a listening socket's connections are numbered in the
same way. The time-outs are "never", "now" (0) and "later", for which a look at
the clock may find the time up or not.

The firmware is external: a token it takes it completes when it can, and fails
when the connection is gone; it may refuse one at once; a connection may break at any
time; `Poll` may fail.

### Readline: the line editor

One action per key, each a whole turn of the loop of `_readline`, with the
resets that come first (`EndYank`, `EndKills`, `EndCompletion`) and the entry
of `history_state` that comes last. `_readline`, `Enter`, `OperateAndGetNext` and
`Eof` begin and end a call, so that history and kill ring pass from one
prompt to the next, and `buffer_max` with the prompt's length changes between.
Loops over characters are the place where they stop (`BackOver`,
`ForwardOver`) and the part that still fits (`InsertChars`, `insert_string` with
Python's negative slices). `origin` is a history variable: the line before the
kills, the yank or the completions that go on. The completer is a constant
function.

### FirmwareTables: the readers of tables

Two ways of decoding, both in `Layout`. `unpack.Unpackable` is a window with
an offset, and each read checks the end; `smbios.py` and `mptable.py` use it.
`bits.cdata.Struct` is ctypes: a class laid over an address, which knows nothing
of the table's end; `acpi.py` and `pirtable.py` use it. What decoding depends on
is how many bytes a field takes, so a structure is its widths: `SmbiosLayouts`
has one definition for each class of `smbios.py`, a sequence of groups
`Over(n, widths)` for `if self.length > n:`; `AcpiLayouts` has the size of each
class of `acpi.py`, with the packing it declares (ctypes ignores `_pack`, which
some classes write for `_pack_`). The contents of fields appear only where a
reader branches on them.

`TableReader` is the state a reader has: the window `u` with its offset, the
records to come, the record read last, and how reading ended. Memory may hold anything,
and each loop reads a byte once, so the bytes are chosen as they are read; no
table is written out in advance. Beside `u.offset` the model keeps `due`, where the
table has its next record by a second account:

- for SMBIOS and MP tables, the lengths that firmware writes, strings included;
- for ACPI lists, the sum of the sizes of the classes, since the code walks the
  list by the stated lengths (`u`) and then lays the collected classes one
  behind the other (`due`).

Resource descriptors and the extended entries of MP tables have a single length, by
which their readers step; `due` follows it, and `InStep` says nothing of them.
`strayed` becomes true with the first record that firmware does not write (a
length other than its type has), from where on the two may differ.

| Module | Reader | Steps |
|---|---|---|
| `Smbios` | `SMBIOS()`, `SmbiosBaseStructure` | frame with its strings, fields by guard and width, failures caught inside a structure and raised out of a frame |
| `MpTable` | `MPTable()` | search order, header, base entries with the length of their type, extended entries in windows of their own |
| `AcpiTables` | APIC, `_MAT`, ASF!, PCCT, SRAT, DMAR, PMTT, MPST | `WalkRecord`, `WalkInto` and `WalkOut` for lists in lists, `WalkForever` for a length of 0, `LayoutRaises` |
| `AcpiFlat` | RSDP, RSDT, XSDT, FACP, FACS, MCFG, EINJ, BERT, ... | the class by revision, the array by the length |
| `AcpiResources` | `parse_descriptor` | the class by item and length, the copy, the step |
| `PirTable` | `PIRTable()` | search, the number of slots |

### Einj: error injection

`_error_injection_op` and what it calls, one action per action of the EINJ
table; `pc` is the action that comes next, `told` the registers with the error
type, `busy` and `result` the firmware's. `FirmwareCompletes` is the external part: it
clears busy and writes the status some time after EXECUTE, and until then the
register holds the status of the run before. The table may lack entries, may have its
busy bit anywhere in the register, and may or may not set the preserve flag
(`einj`). An exception returns to `idle` with the operation left open.

### Microcode: mcu_load and mcu_status

`parse_microcodes` fills `buffer` with the updates of the files (`ParseFile`), until
they are read or one fails (`ParseEnds`). Then, for each processor, `Call` (what it is and
runs), one step per update of `FindUpdateCallBack` (`Plain`, `Extended`, `SearchFails`),
`Load` or `LoadNothing`, and `Report`. An update is who it fits, who its extended
signatures fit, whether its sizes agree, whether the file is cut in it, and its revision. Of
an extended update the code computes two sums over the bytes of pointers, which is a
choice here: it is found, passed over, or ends the search. `info` is
`update_info`, on the stack and never initialised: a processor without an update reports
the revision of the one before. `CoreOf` says which processors are threads of one
core and so have the microcode in common; whether a core takes an update is its own
affair. Revisions have `RevisionBits` bits, and are compared as `signed long`, which on
i386 is as wide.

`UpdatedAsReported` says that what is written to a processor is the first update in the
files that is made for it, if no broken one comes before it and the rule of the BIOS
Writer's Guide (`mcu.c:623`) has it loaded, and that each processor is counted once.

`FirmwareTables` puts these side by side: one reader runs, or errors are
injected, or microcode is updated.

## Runs

| Run | Instance | Shows |
|---|---|---|
| `smp_boot` | 3 APs; MADTs that list 4, 5, 3, 0 and 6 processors, and one with a subtable of length 0, with `SMP_MAX_LOGICAL_CPU` = 5; APIC enabled or not; two boots | type, `LowStackExclusive`, `PublishedListExact`, `ListedServe`, `CpuListStable`; liveness `BootCompletes`, `ListedReachWorker` |
| `smp_boot_no_acpi` | as above, ACPI fails | violates `InitReturns` |
| `smp_call` | BSP, 2 APs, an unknown APIC id, a function besides `ap_park` and NULL, 2 parameters; MWAIT settings of one AP change | type, `NoLostWakeup`, `CalledCpuAvailable`, refinement of RemoteCall with liveness |
| `smp_sleep` | 2 clock rates, sleeps of 0, 1, 3 and just around the wrap; MWAIT or polling | type, `NoLostWakeup`, `OnlyTheTimerInterrupts`, `NothingLeftBehind`, `LongEnough`, `SleepEnds` |
| `smp_sleep_wrap` | the same | violates `SleepsAsAsked` |
| `efi_net` | a client; the peer sends 2 bytes, tokens of 2, recv of 1 or 2, all time-outs | type, `EventsExact`, `RunningExact`, `StreamInOrder`, `EofMeansAll`, `SelectedReady` |
| `efi_net_live` | a client; 1 byte | liveness `TimeoutsHold`, `DataIsRead` |
| `efi_listen` | a listener; 3 connections | `EventsExact`, `StreamInOrder`, `DataIsRead` |
| `efi_exit` | a client; 1 byte | violates `ExitAbortsAll` |
| `readline` | a letter and the blank; lines of up to 3, prompts that leave 1 or 2; 2 entries of history and kill ring, 2 lines shown in a call | type with every cursor in its line, `KillsUndone`, `YankUndone`, `LineFits`, `CompletionUndone` |
| `tables` | an SMBIOS structure of any length from 0 to 40 of each type 0 to 43, tables of 0, 1 and 42 bytes; MP tables of up to three entries; ACPI lists of up to 64 bytes; buffers of up to 58; two injections; up to two updates for three processors, of which two share a core | type, `InStep`, `DecodedExactly`, `StructuresDecoded`, `UpdatedAsReported`, `TriggerOnlyAfterSuccess`; liveness `RunsEnd` |
| `einj_type` | two injections | violates `TypeAsAsked` |

Bounds. Three APs give one in the trampoline, one queueing behind it and one
that has left it, which is every pair of roles that can meet; `MaxBoots` = 2
gives one reuse of the structure. In SmpCall calls of one BSP cannot overlap,
so a second AP is there to show that it stays out. `MaxElapsed` only stops the
clock from being watched and lies above every sleep that does not wrap. Two
bytes in tokens of two and recvs of one are the least with which a buffer is
split, fits, or is too short; a socket has at most one token of each kind, so
`NPENDINGCALLS` = 8 is never full. Sockets share nothing but the queue and the
program, so a client and a listener are looked at separately. In Readline two entries are a history of two (Ctrl-O has a line to go on with),
a ring of two (Alt-Y has something to rotate), or one of each: a long line of the
history under a short prompt, with something to yank into it. The
second boot of `smp_boot` is made with an exact MADT: `ReinitContract` names
the condition, which is discussed under the proofs. Deadlock checking is off
where the system may rest: nobody has to call `smp_init` or `smp_sleep` or to press a key, and a
boot that waits for a processor that is not there, or walks a MADT that has no end, never
ends.


In `tables`, what a structure decodes to depends on nothing but itself, so one
structure of each type and length is enough; 40 bytes (28h) reach every guard
but those of a few types' last fields. A table of 42 bytes holds the longest of them with its
strings, or several short ones. `MpBaseLengths` are no header, a header alone, and one or
two entries that fit, or are cut; 64 bytes of an ACPI list hold a socket with a
memory controller with a DIMM, which is `MaxNesting` = 2 lists deep, or a list of
several records. `MaxOvershoot` lets a record end 4 bytes beyond its list,
`MaxCount`, `MaxEntries` and `MaxRepeats` are the entries of an array.
`Optional` are the actions of the EINJ table whose absence changes the course of an
injection in a way of its own, and two injections are the least with which one can leave
something to another. Two updates are one before another, and three processors a core
whose second thread finds the work done, with that of another core between them; two bits of
revision give 0, a positive one, and two negative ones.

Some properties name exceptions, where the code is known to differ: `Misguarded` and
`Undecoded` (guards of SMBIOS classes that do not agree with the widths, such as
processor information of 24h bytes), `Short` (`Memory32BitRange` has 2-byte addresses
where the descriptor has 4; FACP revisions 2 and 6; the vendor's resource takes the whole
rest), `Misdeclared` (DMAR classes with `_pack`: RHSA, padded where 64-bit
integers are aligned to 8, and ANDD of odd length), and a busy bit that is not the lowest
of its register, which `_read_register_value` shifts twice and takes for clear.
They are stated as sets of exactly these cases, so that any other is an error.

Fairness is weak, per processor: every processor keeps executing
(`BspStep`, `ApStep(p)`, `Waiting(c)`), the timer counts and the local APIC
delivers. No caller has to call, and MWAIT is not trusted to end by itself.
In EfiSocket the program's loops and the interpreter go on, the firmware
completes what it can, and a loop that looks at the clock again and again finds
the time up in the end (strong fairness of giving up). The peer owes nothing,
and a failing `Poll` is never counted on.
A reader of tables never waits: it runs on as long as its status is `reading`,
which is written out in `Fairness` because the choice of bytes makes ENABLED
expensive. In Einj Python goes on, and the firmware completes what EXECUTE
began; in Microcode the command goes on.

## Findings

- `smprc.c:882`: when ACPI cannot be initialised the error code GRUB_ERR_IO is
  taken for a processor count, and `smp_init` never returns
  (`smp_boot_no_acpi`).
- `smprc.c:447`: sleeps are computed in 32 bits; `blocking_sleep` of a minute
  may return at once (`smp_sleep_wrap`). A product that is 0, as that of a sleep of 0
  microseconds, stops the timer, and the sleep never ends; `SleepEnds` is
  about those for which the timer was started.
- `efi.py:1838`: `close_all_events` deletes from the dictionary it iterates
  over and stops at its first event; the same holds of `event_set.close_all`.
  With two sockets that wait it is enough that one is closed; with one, that a
  callback runs during the loop. The firmware keeps tokens whose memory is
  about to be freed, and `efi.exit` never exits (`efi_exit`).
- `einj.py:180`: `_write_register` clears the bits that a value is to replace
  only when the flag is set that asks for bits to be preserved. Without it,
  SET_ERROR_TYPE adds to the types of earlier injections, and the
  firmware is asked for several errors at once (`einj_type`).

## Proofs

Each holds for every value of the constants that satisfies the named
assumptions: any number of processors and sockets, any tables of the firmware, any texts.

| Module | Theorems | Hypotheses |
|---|---|---|
| `SmpBootProofs` | `SmpBootTypeOK`; `SmpBootLowStackExclusive`, `SmpBootPublishedListExact`, `SmpBootListedServe`, `SmpBootCpuListStable` | `BootAssumption`; all but the first `ReinitContract` |
| `ControlWaitProofs`, `SmpCallProofs` | `SmpCallTypeOK`, `SmpCallNoLostWakeup`, `SmpCallCalledCpuAvailable`, `SmpCallServes` | the constants' assumptions |
| `SmpSleepProofs` | `SmpSleepTypeOK`, `SmpSleepNoLostWakeup`, `SmpSleepOnlyTheTimerInterrupts`, `SmpSleepNothingLeftBehind`, `SmpSleepLongEnough` | the last `WatchedLongEnough` |
| `EfiSocketProofs` | `EfiTypeOK`, `EfiEventsExact`, `EfiRunningExact`, `EfiStreamInOrder`, `EfiEofMeansAll`, `EfiSelectedReady` | `RoomForAll` |
| `ReadlineProofs` | `ReadlineTypeOK`, `ReadlineKillsUndone`, `ReadlineYankUndone`, `ReadlineLineFits`, `ReadlineCompletionUndone` | the constants' assumptions |
| `LayoutProofs`, `FirmwareTablesProofs` | `FirmwareTypeOK`, `FirmwareInStep`, `FirmwareDecodedExactly`, `FirmwareStructuresDecoded`; `FirmwareUpdatedAsReported`; `FirmwareTriggerOnlyAfterSuccess` | the constants' assumptions |

**Boot.** `SmpBootTypeOK` is inductive by itself. `LowStackExclusive` is not:
it holds because the holders of BLOCK are at most one (`LockHeldOnce`), which
a second boot could break, as it clears the lock word before it sends INIT. So
the invariant `BootInv` adds that between boots no AP is on the low page
(`QuietBetweenBoots`), which follows because the BSP leaves only when ASLEEP
has reached the number of APs (`WaitsForAll`) and each AP counts itself once
(`CountOnce`, by cardinality). This needs `ReinitContract`: `smp_phantom_init`
is called only on machines whose MADT lists every AP. Otherwise a surplus AP may
still queue for BLOCK when the next boot clears it, take the lock in the
window before INIT arrives, and write into the table that has just been reset.

The processor list rests on who owns which entry (`ListInv`): each entry that is
written belongs to one AP, which has not looked beyond it in either of its
look-ups and so finds it. The APs that have claimed an entry are one fewer than
`logical`, those that have counted themselves are as many as ASLEEP says; when the BSP
leaves, ASLEEP is one fewer than what was expected, and both sets are the same. So
whatever arrives late finds no entry to claim, and a published list is exact and does
not change.

**Calls.** `WaitInv` of ControlWait says what a monitor knows: a processor
between MONITOR and MWAIT, or in MWAIT, has its monitor armed, or hit. It implies
`NoLostWakeup`. `CallInv` adds who waits for what (`WaitsRight`), what the
slot holds at each point of a call (`CallSoFar`) and where the AP is when
control is on either side (`Handover`). From it follow `CalledCpuAvailable`,
that the check marked "FIXME: this should be an assert" in `smp_function` never
fails, and `SmpCallServes`, that each step is one of RemoteCall or a stutter.

**Sleep.** `SleepInv` says that the registers follow the program counter
(`RegistersFollow`), that the word is cleared once per sleep, and only by the
interrupt of its own timer, which then stands still (`OneInterrupt`), and that the
ticks that have passed and those the timer still counts are at least those asked for. The
model's clock stops at `MaxElapsed`, and `WatchedLongEnough` says that this is later than
any sleep ends.

**Sockets.** `EventInv` pairs events with what they stand for: the open events are
those of the tokens that are out and of the completions still pending, no two
for the same thing. It needs `RoomForAll`: `c_event_callback` ignores the result
of `Py_AddPendingCall`, so a full queue would lose a completion
(hazard at `efimodule.c:116`), and the running flags would stay set for ever.
`Streams` says that what was returned, what is queued and what is on its way are one
after another a run of the numbers of what was sent. At most one token reads ahead and the
queue holds at most two results, so no induction over the queue is needed. The end of the
stream is in the queue only behind all data (`EndTold`), and what select reports stays
until the program reads it, for no one else takes from the queue.

**Line editor.** The invariant is `LineInv`: types; that all lines that may be
shown fit if the history does; and that kill ring, yank and completion relate the
line to `origin`. The lemmas are about cutting a sequence and joining it again. The
places where Alt-B and Ctrl-W stop are a CHOOSE of the largest such place, which
exists by the principle of the least element.

**Tables.** `LayoutProofs` computes. `Total` is a recursive function, so that each sum
exists is shown first, by the principle of the least element (`ChainExists`); then
`TotalOf` says how it comes about, `Sum6` to `Sum14` unfold it for so many fields, and from
there the size of each ctypes class follows, for every number of entries, vendor's bytes or
nested records. The classes without `_pack_` of DMAR are padded
(`PaddedSizes`): that of ATSR ends on a multiple of 2, so it is as large as its records only
because every scope in its list has an even length.

`ReaderInv` is `InStep` with what makes it inductive. While a nested list is walked, the
account of the one around it has stopped at the beginning of its record, so `Nested` says
for each of the lists in `outer` where its record's fields end, that the list inside has
not fallen behind them, that it is to end where the outer one goes on, and that the scopes
met so far are even. When the inner list is left, `NestAdds` gives what the whole record
takes: the fields, and what was found inside, as long as the reader has come to the end it
was given. `RecordSized` is the agreement of each record with its class. The constants
bound the model only (`AcpiAssumption` and the like: sets of natural numbers, names of
tables), so tables may be of any length and nest to any depth.

`DecodedExactly` is inductive beside `ReaderInv`. `EntriesWhole` says that the division
that takes the number of entries from a table's length gives the number the length was made
for, also where it is counted from before the entries' first byte, as in MSCT;
`UnpackedAlways`, that an `unpack` body of unconditional fields takes the sum of their widths.

`StructuresDecoded` rests on the bodies of `smbios.py` as lists of groups of fields, each
with the guard that precedes it (`Stages`). `StagesRead` says which groups are read of a
structure of some length, and `Laid` and `Tight` where each group ends; a lemma for each
class (`BIOSInformationLaid` and so on) finds from them the lengths at which a field is
missed or a guard stands too early, and they are the ones `Misguarded` and `Undecoded`
list. Types 15, 40 and 42, whose formatted area holds a list of any length, have lemmas of
their own (`ShortLog`, `OpenRead`). A structure's type and length are bytes
(`SmbiosAssumption`); nothing else is assumed of them, nor of the table's version.
`LastInv` carries this from structure to structure, with the length and the end of the
last record and the version of the table, and gives with `ReaderInv`, `EinjInv` and
`McuInv` also `FirmwareTypeOK`.

**Microcode.** `McuInv` follows the search: the updates it has passed are whole and for other
processors (`Missed`), and when it ends it has found one, or stands at the end, at a broken
update, or at one with extended signatures, whose sums may be wrong by chance. Then the
update found is the least position in `UpdatesFor` and lies before every broken one
(`FoundFirst`), and the comparison of the code, on signed numbers, is
the one its comment states on the bits of a revision (`NewerByTheGuide`). This needs
`McuAssumption`: files are sequences of updates with revisions of `RevisionBits` bits. It also
states that two powers of 2 are positive, since the provers have no theory of powers; TLC
evaluates it. `McuCounts` is the report: the sums of the rows' counts, over all rows and over
those that show two revisions, are the processors reported and those replaced. The
property sums by the fold of the community modules, which is a recursive function on subsets
that takes off a chosen element; that it exists, what it returns, that any element may be
taken off first and that it depends on the numbers in the set alone are the lemmas on
`SumOver`, by the least element of the sizes of subsets.

**Error injection.** `EinjInv`: an operation stays open from
BEGIN_INJECTION_OPERATION on; while the busy bit is awaited the firmware is busy or has
written the status of this run; after that it is not busy and the status register holds
what this run gave.

What is only model-checked, and why:

- Liveness, and everything with ENABLED: `BootCompletes`, `ListedReachWorker`,
  `SleepEnds`, `TimeoutsHold`, `DataIsRead`, `RunsEnd`, the fairness part of `CallsAreServed`.

Every other property that a passing run checks is proved.

## Plan

1. Done: the modules above, and the proofs above.
2. Done: a theorem for every safety property that a passing run checks. A component that is
   modelled later gets its own, in the proof module of what it extends.
3. Left for later, each a small sequential machine with many error paths: POSIX
   emulation (descriptor table, Python file system), redirections and pager,
   the ACPICA life cycle, the `_smp` accessors, the test suite; key
   notifications, timers, IP configuration and files of EFI.

## Not modelled

- ACPICA, GRUB and CPython, which are submodules and not in the repository.
- Of the tables: files as input (a PIR from a file uses a name, `num_tables`, that does
  not exist; a trigger action table from a file calls itself with a count),
  checksums, `evaluate` and the packages of processor objects, and printing, which is
  most of the lines of `acpi.py` and `smbios.py` that are not structures.
- Of microcode: update files as text, the search through what follows a cut update (it goes
  on in the middle of the next file), and extended signatures that reach beyond the buffer.
- `decode_failure` and `decodeFailure`: the SMBIOS classes set one or the other of
  these attributes, and nothing reads them. The model has one, `failed`.
- Reports and tests of hardware registers, menus and other generated text:
  they read or format, and keep no state between two steps.

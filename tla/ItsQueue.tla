------------------------------- MODULE ItsQueue -------------------------------
(***************************************************************************)
(* The kernel's driver of the interrupt translation service                *)
(* (src/src/kernel/kernel_its.c): its command queue, the functions that    *)
(* put a command into it and wait, the preparation and the enabling, and   *)
(* the ITS that takes the commands (external).                             *)
(*                                                                         *)
(* A command is what the four words of its slot say, all in one; the       *)
(* offsets count slots of 32 bytes.  its_movall() and its_movi() clear     *)
(* 4 KB from each word of their slot on: the rest of the queue here, and   *)
(* what the linker has put behind it, which is not modelled.  No function  *)
(* takes a lock: one thread at a time calls them.                          *)
(***************************************************************************)
EXTENDS Integers

CONSTANTS
    Commands,      \* commands of any function
    MoveCommands,  \* those of its_movall() and its_movi()
    NoCommand,     \* a slot of zeros
    QUEUE_SLOTS    \* slots of the queue: 128

ASSUME CommandsAssumption == MoveCommands \subseteq Commands /\ NoCommand \notin Commands
ASSUME SlotsAssumption    == QUEUE_SLOTS \in Nat /\ QUEUE_SLOTS > 1

Slots == 0..(QUEUE_SLOTS - 1)
NextSlot(s) == IF s = QUEUE_SLOTS - 1 THEN 0 ELSE s + 1

\* A function before it clears its slot, fills it and advances cmd_offset,
\* writes GITS_CWRITER, has read its offset in GITS_CREADR.
ItsPcs == {"idle", "clear", "fill", "write", "wait"}

VARIABLES
    its_pc,
    its_command,    \* the command of the current or of the last call
    command_queue,  \* [Slots -> Commands \cup {NoCommand}]
    cmd_offset,
    cwriter,        \* GITS_CWRITER
    creadr,         \* GITS_CREADR: the offset, ...
    its_stalled,    \* ... and the bit GITS_CREADR_STALLED
    its_valid,      \* GITS_CBASER has been written
    its_enabled,    \* GITS_CTLR
    its_last        \* the command that the ITS has carried out last

device  == <<creadr, its_stalled, its_last>>
control == <<its_valid, its_enabled>>
itsVars == <<its_pc, its_command, command_queue, cmd_offset, cwriter, creadr, its_stalled,
             its_valid, its_enabled, its_last>>

ItsInit ==
    /\ its_pc = "idle"
    /\ its_command = NoCommand
    /\ command_queue = [s \in Slots |-> NoCommand]
    /\ cmd_offset = 0 /\ cwriter = 0 /\ creadr = 0 /\ its_stalled = FALSE
    /\ its_valid = FALSE /\ its_enabled = FALSE
    /\ its_last = NoCommand

-----------------------------------------------------------------------------
(* gic_its_prepare(), gic_its_enable(), gic_its_disable(), the last two up  *)
(* to their print.                                                          *)

Quiescent == creadr = cwriter

\* It resets the ITS's offsets and not cmd_offset: called again with cmd_offset
\* elsewhere it would have old commands carried out again.  The callers here
\* prepare where cmd_offset is 0.
ItsPrepare ==
    /\ its_pc = "idle"
    /\ ~its_enabled
    /\ cmd_offset = 0
    /\ its_valid' = TRUE
    /\ cwriter' = 0 /\ creadr' = 0
    /\ UNCHANGED <<its_pc, its_command, command_queue, cmd_offset, its_stalled, its_enabled,
                   its_last>>

ItsEnable ==
    /\ its_pc = "idle"
    /\ ~its_enabled
    /\ Quiescent
    /\ its_enabled' = TRUE
    /\ UNCHANGED <<its_pc, its_command, command_queue, cmd_offset, cwriter, device, its_valid>>

ItsDisable ==
    /\ its_pc = "idle"
    /\ its_enabled
    /\ Quiescent
    /\ its_enabled' = FALSE
    /\ UNCHANGED <<its_pc, its_command, command_queue, cmd_offset, cwriter, device, its_valid>>

-----------------------------------------------------------------------------
(* its_mapd() ... its_movi().                                               *)

ItsStep(from, to) == its_pc = from /\ its_pc' = to

ItsCall(c) ==
    /\ ItsStep("idle", "clear")
    /\ its_command' = c
    /\ UNCHANGED <<command_queue, cmd_offset, cwriter, device, control>>

Cleared == IF its_command \in MoveCommands THEN {s \in Slots : s >= cmd_offset}
                                           ELSE {cmd_offset}

ItsClear ==
    /\ ItsStep("clear", "fill")
    /\ command_queue' = [s \in Slots |-> IF s \in Cleared THEN NoCommand ELSE command_queue[s]]
    /\ UNCHANGED <<its_command, cmd_offset, cwriter, device, control>>

ItsFill ==
    /\ ItsStep("fill", "write")
    /\ command_queue' = [command_queue EXCEPT ![cmd_offset] = its_command]
    /\ cmd_offset' = NextSlot(cmd_offset)
    /\ UNCHANGED <<its_command, cwriter, device, control>>

ItsWriteAndReturn ==                                     \* mutant
    /\ ItsStep("write", "idle")
    /\ cwriter' = cmd_offset
    /\ UNCHANGED <<its_command, command_queue, cmd_offset, device, control>>

ItsWrite ==
    /\ ItsStep("write", "wait")
    /\ cwriter' = cmd_offset
    /\ UNCHANGED <<its_command, command_queue, cmd_offset, device, control>>

\* The register is compared as a whole: at a stalled ITS the wait has no end.
ItsWait ==
    /\ ItsStep("wait", "idle")
    /\ creadr = cmd_offset /\ ~its_stalled
    /\ UNCHANGED <<its_command, command_queue, cmd_offset, cwriter, device, control>>

\* The ITS (external) takes the next command, ...
ItsTakes ==
    /\ its_valid /\ its_enabled /\ ~its_stalled
    /\ creadr # cwriter
    /\ its_last' = command_queue[creadr]
    /\ creadr' = NextSlot(creadr)
    /\ UNCHANGED <<its_pc, its_command, command_queue, cmd_offset, cwriter, its_stalled, control>>

\* ... or finds an error in it and stalls, until GITS_CWRITER is written with
\* GITS_CWRITER_RETRY, which no function does.
ItsStalls ==
    /\ its_valid /\ its_enabled /\ ~its_stalled
    /\ creadr # cwriter
    /\ its_stalled' = TRUE
    /\ UNCHANGED <<its_pc, its_command, command_queue, cmd_offset, cwriter, creadr, its_last,
                   control>>

ItsSwitch == ItsEnable \/ ItsDisable
ItsCalls  == ItsPrepare \/ \E c \in Commands : ItsCall(c)
ItsSteps  == ItsClear \/ ItsFill \/ ItsWrite \/ ItsWait
ItsRuns   == ItsTakes \/ ItsStalls
ItsNext   == ItsSwitch \/ ItsCalls \/ ItsSteps \/ ItsRuns
ItsSpec  == ItsInit /\ [][ItsNext]_itsVars

-----------------------------------------------------------------------------
(* Properties.                                                              *)

ItsTypeOK ==
    /\ its_pc \in ItsPcs
    /\ its_command \in Commands \cup {NoCommand}
    /\ command_queue \in [Slots -> Commands \cup {NoCommand}]
    /\ cmd_offset \in Slots /\ cwriter \in Slots /\ creadr \in Slots
    /\ its_valid \in BOOLEAN /\ its_enabled \in BOOLEAN /\ its_stalled \in BOOLEAN
    /\ its_last \in Commands \cup {NoCommand}

\* Each call has its own command carried out, once, before it returns, and
\* nothing else: the slot that the ITS reads is the one that was filled for the
\* call, all around the queue, whatever its_movall() clears.
Port == INSTANCE ItsPort
            WITH Commands  <- Commands,
                 NoCommand <- NoCommand,
                 call      <- IF its_pc = "idle" THEN NoCommand ELSE its_command,
                 carried   <- its_pc = "wait" /\ creadr = cwriter,
                 last      <- its_last
CarriedOutOnce == Port!Spec

=============================================================================

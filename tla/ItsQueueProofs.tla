---------------------------- MODULE ItsQueueProofs ----------------------------
(***************************************************************************)
(* Theorems about ItsQueue, for every set of commands and every size of    *)
(* the queue: its types, and that it implements ItsPort.                   *)
(***************************************************************************)
EXTENDS ItsQueue, TLAPS

LEMMA SlotFacts ==
    /\ 0 \in Slots
    /\ \A s \in Slots : NextSlot(s) \in Slots /\ NextSlot(s) # s
BY SlotsAssumption DEF Slots, NextSlot

-----------------------------------------------------------------------------
(* Types.                                                                   *)

LEMMA ItsTypeInit == ItsInit => ItsTypeOK
BY SlotFacts DEF ItsInit, ItsTypeOK, ItsPcs

LEMMA ItsTypeStep == ItsTypeOK /\ [ItsNext]_itsVars => ItsTypeOK'
<1> SUFFICES ASSUME ItsTypeOK, [ItsNext]_itsVars PROVE ItsTypeOK'
  OBVIOUS
<1> USE SlotFacts DEF ItsTypeOK, ItsPcs, ItsStep, device, control
<1>1. CASE ItsPrepare \/ ItsEnable \/ ItsDisable
  BY <1>1 DEF ItsPrepare, ItsEnable, ItsDisable
<1>2. CASE \E c \in Commands : ItsCall(c)
  BY <1>2 DEF ItsCall
<1>3. CASE ItsClear
  <2>1. command_queue' \in [Slots -> Commands \cup {NoCommand}]
    BY <1>3 DEF ItsClear
  <2> QED
    BY <1>3, <2>1 DEF ItsClear
<1>4. CASE ItsFill
  BY <1>4 DEF ItsFill
<1>5. CASE ItsWrite \/ ItsWait
  BY <1>5 DEF ItsWrite, ItsWait
<1>6. CASE ItsTakes \/ ItsStalls
  BY <1>6 DEF ItsTakes, ItsStalls
<1>7. CASE UNCHANGED itsVars
  BY <1>7 DEF itsVars
<1> QED
  BY <1>1, <1>2, <1>3, <1>4, <1>5, <1>6, <1>7
  DEF ItsNext, ItsSwitch, ItsCalls, ItsSteps, ItsRuns

THEOREM ItsTypeCorrect == ItsSpec => []ItsTypeOK
BY ItsTypeInit, ItsTypeStep, PTL DEF ItsSpec

-----------------------------------------------------------------------------
(* Commands are carried out once.  The invariant says where the ITS's two   *)
(* offsets are relative to cmd_offset, and what the slot between them       *)
(* holds, at each point of a call.                                          *)

Outstanding == cmd_offset = NextSlot(creadr) /\ command_queue[creadr] = its_command

QueueInv ==
    /\ its_pc # "idle" => its_command \in Commands
    /\ its_pc \in {"idle", "clear", "fill"} => creadr = cmd_offset /\ cwriter = cmd_offset
    /\ its_pc = "write" => cwriter = creadr /\ Outstanding
    /\ its_pc = "wait" => cwriter = cmd_offset /\ (creadr = cmd_offset \/ Outstanding)

LEMMA QueueStep == ItsTypeOK /\ QueueInv /\ [ItsNext]_itsVars => QueueInv'
<1> SUFFICES ASSUME ItsTypeOK, QueueInv, [ItsNext]_itsVars PROVE QueueInv'
  OBVIOUS
<1> USE SlotFacts DEF ItsTypeOK, QueueInv, ItsPcs, Outstanding, ItsStep, device, control
<1>1. CASE ItsPrepare \/ ItsEnable \/ ItsDisable
  BY <1>1 DEF ItsPrepare, ItsEnable, ItsDisable
<1>2. CASE \E c \in Commands : ItsCall(c)
  BY <1>2 DEF ItsCall
<1>3. CASE ItsClear
  BY <1>3 DEF ItsClear
<1>4. CASE ItsFill
  BY <1>4 DEF ItsFill
<1>5. CASE ItsWrite \/ ItsWait
  BY <1>5 DEF ItsWrite, ItsWait
<1>6. CASE ItsTakes \/ ItsStalls
  BY <1>6 DEF ItsTakes, ItsStalls
<1>7. CASE UNCHANGED itsVars
  BY <1>7 DEF itsVars
<1> QED
  BY <1>1, <1>2, <1>3, <1>4, <1>5, <1>6, <1>7
  DEF ItsNext, ItsSwitch, ItsCalls, ItsSteps, ItsRuns

\* Every step is one of the port's, or none.
LEMMA PortStep ==
    ItsTypeOK /\ QueueInv /\ [ItsNext]_itsVars
        => [Port!Next]_<<IF its_pc = "idle" THEN NoCommand ELSE its_command,
                         its_pc = "wait" /\ creadr = cwriter, its_last>>
<1> DEFINE call    == IF its_pc = "idle" THEN NoCommand ELSE its_command
           carried == its_pc = "wait" /\ creadr = cwriter
<1> SUFFICES ASSUME ItsTypeOK, QueueInv, [ItsNext]_itsVars
             PROVE  Port!Next \/ UNCHANGED <<call, carried, its_last>>
  BY Zenon
<1> USE CommandsAssumption, SlotFacts
    DEF ItsTypeOK, QueueInv, Outstanding, ItsStep, device, control
<1>1. CASE ItsPrepare \/ ItsEnable \/ ItsDisable
  BY <1>1 DEF ItsPrepare, ItsEnable, ItsDisable
<1>2. ASSUME NEW c \in Commands, ItsCall(c) PROVE Port!Next
  <2>1. Port!Issue(c)
    BY <1>2 DEF ItsCall, Port!Issue
  <2> QED
    BY <2>1 DEF Port!Next
<1>3. CASE ItsClear \/ ItsFill
  BY <1>3 DEF ItsClear, ItsFill
<1>4. CASE ItsWrite
  BY <1>4 DEF ItsWrite
<1>5. CASE ItsWait
  <2>1. Port!Return
    BY <1>5 DEF ItsWait, Port!Return
  <2> QED
    BY <2>1 DEF Port!Next
<1>6. CASE ItsTakes
  <2>1. its_pc = "wait" /\ Outstanding /\ cwriter = cmd_offset
    BY <1>6 DEF ItsTakes, ItsPcs
  <2>2. Port!CarryOut
    BY <1>6, <2>1 DEF ItsTakes, Port!CarryOut
  <2> QED
    BY <2>2 DEF Port!Next
<1>7. CASE ItsStalls \/ UNCHANGED itsVars
  BY <1>7 DEF ItsStalls, itsVars
<1> QED
  BY <1>1, <1>2, <1>3, <1>4, <1>5, <1>6, <1>7
  DEF ItsNext, ItsSwitch, ItsCalls, ItsSteps, ItsRuns

\* The queue implements the port: each call has its own command carried out
\* once before it returns.
THEOREM QueueImplementsPort == ItsSpec => CarriedOutOnce
<1>1. ItsInit => QueueInv /\ Port!Init
  BY DEF ItsInit, QueueInv, Port!Init
<1> QED
  BY <1>1, ItsTypeCorrect, QueueStep, PortStep, PTL DEF ItsSpec, CarriedOutOnce, Port!Spec

=============================================================================

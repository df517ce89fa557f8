------------------------------- MODULE ItsPort -------------------------------
(***************************************************************************)
(* What the commands of the interrupt translation service promise their    *)
(* caller (src/include/gicv3-its.h): while a call is under way the ITS     *)
(* carries out that command, once, and no other, and the call does not     *)
(* return before.  The comment "Wait for the ITS to consume the command"   *)
(* of kernel_its.c is the implementation's side of it.                     *)
(***************************************************************************)
CONSTANTS Commands, NoCommand

VARIABLES
    call,     \* the command that is being called, or NoCommand
    carried,  \* the ITS has carried it out
    last      \* the command that the ITS carried out last

Init == call = NoCommand /\ carried = FALSE /\ last = NoCommand

Issue(c) ==
    /\ call = NoCommand
    /\ call' = c
    /\ UNCHANGED <<carried, last>>

CarryOut ==
    /\ call # NoCommand /\ ~carried
    /\ carried' = TRUE
    /\ last' = call
    /\ UNCHANGED call

Return ==
    /\ carried
    /\ call' = NoCommand
    /\ carried' = FALSE
    /\ UNCHANGED last

Next == (\E c \in Commands : Issue(c)) \/ CarryOut \/ Return

Spec == Init /\ [][Next]_<<call, carried, last>>
=============================================================================

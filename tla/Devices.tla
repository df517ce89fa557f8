------------------------------- MODULE Devices -------------------------------
(***************************************************************************)
(* The kernel with its device drivers: c_entry() on core 0 up to where it  *)
(* unmasks interrupts, with the disk driver that it registers and the      *)
(* sector it reads, and after that threads that read sectors, register     *)
(* drivers and make ITS commands, one call at a time, while interrupts     *)
(* arrive and the devices go on by themselves.                             *)
(***************************************************************************)
EXTENDS VirtioBlk, ItsQueue

regVars == <<registry, core>>
vars == <<regVars, blkVars, itsVars>>

Init == RegInit /\ BlkInit /\ ItsInit

\* Threads run once c_entry() has unmasked interrupts.
Idle ==
    /\ blk_pc = "ready" /\ reg_pc = "idle" /\ its_pc = "idle" /\ print = "no"
    /\ ~masked

CallRead     == Idle /\ (\E s \in Sectors : Read("ready", s)) /\ UNCHANGED itsVars
CallRegister == /\ Idle
                /\ \E d \in Devices : Register(d)
                /\ UNCHANGED <<core, blkVars, itsVars>>
CallIts      == Idle /\ ItsCalls /\ UNCHANGED <<regVars, blkVars>>
CallSwitch   == Idle /\ ItsSwitch /\ print' = "called" /\ UNCHANGED <<table, core, blkVars>>

\* The thread that runs, or c_entry(), unless a handler keeps the core.
Thread ==
    /\ ~spinning
    /\ \/ BlkSteps /\ UNCHANGED itsVars
       \/ RegSteps /\ UNCHANGED <<blkVars, itsVars>>
       \/ ItsSteps /\ UNCHANGED <<regVars, blkVars>>
       \/ blk_pc = "ready" /\ Unmask /\ UNCHANGED <<blkVars, itsVars>>

Interrupt(d) == Dispatch(d) /\ UNCHANGED <<blkVars, itsVars>>
DiskActs     == DiskSteps /\ UNCHANGED itsVars
ItsActs      == ItsRuns /\ UNCHANGED <<regVars, blkVars>>

Next ==
    \/ CallRead \/ CallRegister \/ CallIts \/ CallSwitch \/ Thread \/ DiskActs \/ ItsActs
    \/ \E d \in Devices : Interrupt(d)
    \/ \E d \in Devices \ {Disk} : Raise(d) /\ UNCHANGED <<blkVars, itsVars>>

\* The code that runs goes on, the core takes an interrupt that is pending and
\* not masked, and the devices answer.
Fairness ==
    /\ WF_vars(Thread) /\ WF_vars(DiskActs) /\ WF_vars(ItsActs)
    /\ \A d \in Devices : WF_vars(Interrupt(d))

Spec == Init /\ [][Next]_vars /\ Fairness

-----------------------------------------------------------------------------
(* Properties.                                                              *)

\* The types of the three parts.
TypeOK == RegTypeOK /\ BlkTypeOK /\ ItsTypeOK

\* A read returns if the device has a queue as large as the driver's, at boot
\* with interrupts masked as well; a command returns if the ITS is prepared and
\* enabled, unless the ITS stalls; and a function that prints returns, and a
\* device whose driver is registered has its interrupt handled, unless an
\* interrupt comes while the print has kernel_lock.
DevicesAnswer ==
    /\ blk_pc = "wait" /\ q_size = VIRTQ_ENTRY_NUM ~> blk_pc = "ready"
    /\ its_pc # "idle" /\ its_valid /\ its_enabled ~> its_pc = "idle" \/ its_stalled
    /\ reg_pc # "idle" \/ print # "no" ~> (reg_pc = "idle" /\ print = "no") \/ spinning
    /\ \A d \in Devices : d \in line \cap enabled /\ ~masked ~> d \notin line \/ spinning

=============================================================================

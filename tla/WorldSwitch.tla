----------------------------- MODULE WorldSwitch -----------------------------
(***************************************************************************)
(* The EL3 monitor's switch between the kernel (non-secure EL1) and SEEOS  *)
(* (secure EL1) on one core: el3_sync_lower() and el3_jump_to_kernel() of  *)
(* src/src/el3/el3_exception.c, SMC_YIELD and SMC_RESUME of                *)
(* el3_smc_handler.c, and the service loop of src/src/see/see_init.c.      *)
(* The two contexts of cpus[] belong to the core, so that one core is all  *)
(* there is to model.                                                      *)
(*                                                                         *)
(* A context is a program position and what is saved and restored with it: *)
(* x6-x30, the vector registers and the system registers.  x0-x5 are the   *)
(* variable x: they carry a call's arguments in and its results out, and   *)
(* otherwise whatever the code that runs keeps in them.                    *)
(***************************************************************************)
EXTENDS Integers, FiniteSets

CONSTANTS
    Threads,      \* kernel threads that call SEEOS on this core
    NoThread,
    ResumesCalls  \* whether the kernel answers SEEOS_PREEMPTED with SMC_RESUME

ASSUME ThreadsAssumption == NoThread \notin Threads
ASSUME ResumesCallsAssumption == ResumesCalls \in BOOLEAN

\* Contents of x0-x5: the request of a thread, the answer to one, the
\* arguments of SMC_RESUME, what SEEOS computes with.
Request(t) == <<"request", t>>
Answer(r)  == <<"answer", r[2]>>
ResumeArgs == <<"resume", NoThread>>
Scratch    == <<"scratch", NoThread>>
Requests   == {Request(t) : t \in Threads} \cup {ResumeArgs}
Answers    == {Answer(r) : r \in Requests}
Contents   == Requests \cup Answers \cup {Scratch}

\* Where SEEOS is: at its entry point, where x0-x3 are still its caller's; in
\* its start, which keeps them elsewhere; after the smc of SMC_YIELD, where it
\* stores x0-x5; in a service; before the smc of SMC_YIELD.
SeePcs == {"entry", "starting", "fetch", "serving", "answering"}

\* A thread is in its own code, or behind the smc of a call.
ThreadPcs == {"run", "call", "resume"}

\* What smc_call() returns: an answer, or that SEEOS was preempted.
NoResult        == <<"none", NoThread>>
SEEOS_PREEMPTED == <<"preempted", NoThread>>
Results         == Answers \cup {NoResult, SEEOS_PREEMPTED}

VARIABLES
    world,       \* "ns" or "s"; "lost" once SEEOS code runs as non-secure
    thread,      \* whose code the kernel runs
    at,          \* [Threads -> ThreadPcs]
    result,      \* [Threads -> Results]  what its last call returned
    x,           \* x0-x5 in the secure world
    ns_context,  \* cpus[].ns_context: the thread whose call is saved in it
                 \* (NoThread: nothing, or a point in SEEOS)
    s_context,   \* cpus[].s_context
    see_pc,      \* where SEEOS is, or was when it last ran
    res,         \* the request that SEEOS has stored
    intact       \* history: SEEOS has not been made to go on with a start or
                 \* a service in which it was preempted

vars == <<world, thread, at, result, x, ns_context, s_context, see_pc, res, intact>>
see  == <<x, see_pc, res>>

Init ==
    /\ world = "ns"
    /\ thread \in Threads
    /\ at = [t \in Threads |-> "run"]
    /\ result = [t \in Threads |-> NoResult]
    /\ x = Scratch
    /\ ns_context = NoThread
    /\ s_context = [initialized |-> FALSE, pc |-> "entry"]
    /\ see_pc = "entry"
    /\ res = ResumeArgs
    /\ intact = TRUE

-----------------------------------------------------------------------------
(* The kernel.                                                              *)

\* The scheduler switches threads, in the non-secure world only.
SwitchThread(t) ==
    /\ world = "ns"
    /\ thread' = t
    /\ UNCHANGED <<world, at, result, ns_context, s_context, see, intact>>

\* Into the secure world: at its entry point the first time, where it stopped
\* after that.  x0-x5 are the kernel's.
EnterSecure(args) ==
    /\ world' = "s"
    /\ x' = args
    /\ see_pc' = IF s_context.initialized THEN s_context.pc ELSE "entry"
    /\ intact' = (intact /\ see_pc' \in {"entry", "fetch"} /\ args # ResumeArgs)

SeeosCallKeepsContext ==                                 \* mutant
    /\ world = "ns"
    /\ at[thread] = "run"
    /\ at' = [at EXCEPT ![thread] = "call"]
    /\ ns_context' = IF s_context.initialized THEN ns_context ELSE thread
    /\ EnterSecure(Request(thread))
    /\ UNCHANGED <<thread, result, s_context, res>>

SeeosCallNoSave ==                                       \* mutant
    /\ world = "ns"
    /\ at[thread] = "run"
    /\ at' = [at EXCEPT ![thread] = "call"]
    /\ EnterSecure(Request(thread))
    /\ UNCHANGED <<thread, result, ns_context, s_context, res>>

\* smc_call() of a SEEOS function: el3_sync_lower() saves ns_context.
SeeosCall ==
    /\ world = "ns"
    /\ at[thread] = "run"
    /\ at' = [at EXCEPT ![thread] = "call"]
    /\ ns_context' = thread
    /\ EnterSecure(Request(thread))
    /\ UNCHANGED <<thread, result, s_context, res>>

\* smc_call(SMC_RESUME) after SEEOS_PREEMPTED: ns_context is not saved.
SmcResume ==
    /\ ResumesCalls
    /\ world = "ns"
    /\ at[thread] = "run"
    /\ result[thread] = SEEOS_PREEMPTED
    /\ at' = [at EXCEPT ![thread] = "resume"]
    /\ EnterSecure(ResumeArgs)
    /\ UNCHANGED <<thread, result, ns_context, s_context, res>>

-----------------------------------------------------------------------------
(* SEEOS.                                                                   *)

\* see_entry.S has left x0-x3 alone, and the C of the first call's start keeps
\* them: in registers that EL3 saves, or on the stack.  From the first of these
\* moves on a preemption is one of the start.
Entry ==
    /\ world = "s"
    /\ see_pc = "entry"
    /\ res' = x
    /\ x' = Scratch
    /\ see_pc' = "starting"
    /\ UNCHANGED <<world, thread, at, result, ns_context, s_context, intact>>

\* The start ends, and seeos_servicer() takes up the request that it kept,
\* whoever's call makes it go on after a preemption.
Start ==
    /\ world = "s"
    /\ see_pc = "starting"
    /\ see_pc' = "serving"
    /\ UNCHANGED <<world, thread, at, result, x, ns_context, s_context, res, intact>>

\* After an SMC_YIELD seeos_servicer() stores the request and starts on it.
\* From the first of the six stores on a preemption is one of the service.
Fetch ==
    /\ world = "s"
    /\ see_pc = "fetch"
    /\ res' = x
    /\ x' = Scratch
    /\ see_pc' = "serving"
    /\ UNCHANGED <<world, thread, at, result, ns_context, s_context, intact>>

\* The service's answer.  If x0-x5 are not what it had in them, the answer is
\* right or wrong, and wrong is represented by the answer to SMC_RESUME.
Serve ==
    /\ world = "s"
    /\ see_pc = "serving"
    /\ x' \in {Answer(res)} \cup (IF x = Scratch THEN {} ELSE {Answer(ResumeArgs)})
    /\ see_pc' = "answering"
    /\ UNCHANGED <<world, thread, at, result, ns_context, s_context, res, intact>>

\* Back to the code that ns_context holds, with r in x1.
LeaveSecure(r) ==
    IF ns_context \in Threads
       THEN /\ world' = "ns"
            /\ thread' = ns_context
            /\ at' = [at EXCEPT ![ns_context] = "run"]
            /\ result' = [result EXCEPT ![ns_context] = r]
       ELSE /\ world' = "lost"
            /\ UNCHANGED <<thread, at, result>>

SmcYieldAnyId ==                                         \* mutant
    /\ world = "s"
    /\ see_pc = "answering"
    /\ see_pc' = "fetch"
    /\ s_context' = [initialized |-> TRUE, pc |-> "fetch"]
    /\ LeaveSecure(x)
    /\ UNCHANGED <<x, ns_context, res, intact>>

\* smc_call(SMC_YIELD): the next call continues after this smc.
SmcYield ==
    /\ world = "s"
    /\ see_pc = "answering"
    /\ x \in Answers
    /\ see_pc' = "fetch"
    /\ s_context' = [initialized |-> TRUE, pc |-> "fetch"]
    /\ LeaveSecure(x)
    /\ UNCHANGED <<x, ns_context, res, intact>>

\* The same smc when x0 holds another function identifier: EL3 carries out a
\* SEEOS call, or an SMC_RESUME, of SEEOS.
SmcConfused ==
    /\ world = "s"
    /\ see_pc = "answering"
    /\ x \in Requests
    /\ ns_context' = IF x = ResumeArgs THEN ns_context ELSE NoThread
    /\ see_pc' = s_context.pc
    /\ UNCHANGED <<world, thread, at, result, x, s_context, res, intact>>

PreemptKeepsPc ==                                        \* mutant
    /\ world = "s"
    /\ s_context' = [s_context EXCEPT !.initialized = TRUE]
    /\ LeaveSecure(SEEOS_PREEMPTED)
    /\ UNCHANGED <<ns_context, see, intact>>

\* el3_jump_to_kernel(): a non-secure interrupt in the secure world.  x0-x5
\* are not saved.
Preempt ==
    /\ world = "s"
    /\ s_context' = [initialized |-> TRUE, pc |-> see_pc]
    /\ LeaveSecure(SEEOS_PREEMPTED)
    /\ UNCHANGED <<ns_context, see, intact>>

-----------------------------------------------------------------------------
Seeos == Entry \/ Start \/ Fetch \/ Serve \/ SmcYield \/ SmcConfused

Next == \/ \E t \in Threads : SwitchThread(t)
        \/ SeeosCall \/ SmcResume
        \/ Seeos
        \/ Preempt

Spec == Init /\ [][Next]_vars

-----------------------------------------------------------------------------
(* Properties.                                                              *)

\* Types: whatever the order of calls and preemptions, a stored request and
\* the contents of x0-x5 are among those that code puts there, and a call is
\* saved in ns_context for one of the kernel's threads.
TypeOK ==
    /\ world \in {"ns", "s", "lost"}
    /\ thread \in Threads
    /\ at \in [Threads -> ThreadPcs]
    /\ result \in [Threads -> Results]
    /\ x \in Contents
    /\ ns_context \in Threads \cup {NoThread}
    /\ s_context \in [initialized : BOOLEAN, pc : SeePcs]
    /\ see_pc \in SeePcs
    /\ res \in Contents
    /\ intact \in BOOLEAN

\* While the kernel runs, s_context holds the very point where SEEOS stopped:
\* no part of a service is skipped or run twice, however calls, answers,
\* preemptions and SMC_RESUMEs follow each other.
SecureContinues ==
    world = "ns" => see_pc = IF s_context.initialized THEN s_context.pc ELSE "entry"

\* The monitor never runs SEEOS as non-secure, as long as the kernel does not
\* make SEEOS go on with a start or a service in which it was preempted.
NeverLost == intact => world # "lost"

\* Until then each switch back to the kernel ends the call of the thread that
\* made it, and no other, with the answer to its own request or with
\* SEEOS_PREEMPTED, although ns_context is one per core and any thread may
\* call after a call that was preempted.
ReturnsToCaller ==
    [][intact /\ world = "s" /\ world' = "ns"
          => /\ at[thread] = "call"
             /\ thread' = thread
             /\ at' = [at EXCEPT ![thread] = "run"]
             /\ \E r \in {Answer(Request(thread)), SEEOS_PREEMPTED} :
                   result' = [result EXCEPT ![thread] = r]]_vars

\* "save previous context, the frame points to seeos": SEEOS goes on after a
\* preemption with the registers it had.  el3_jump_to_kernel() saves x6-x30
\* only, so that a service goes on with the caller's arguments in x0-x5.
ServiceKeepsRegisters == world = "s" /\ see_pc = "serving" => x = Scratch

=============================================================================

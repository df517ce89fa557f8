-------------------------- MODULE WorldSwitchProofs --------------------------
(***************************************************************************)
(* Theorems about WorldSwitch, for every set of threads and whether or not *)
(* the kernel uses SMC_RESUME.                                             *)
(***************************************************************************)
EXTENDS WorldSwitch, TLAPS

\* The values of Contents and Results are told apart by their first element.
LEMMA DataFacts ==
    /\ \A r \in Contents : Answer(r) \in Answers
    /\ \A t \in Threads : Request(t) \in Requests /\ Request(t) # ResumeArgs
    /\ ResumeArgs \in Requests
    /\ \A r \in Contents : r \in Answers => r \notin Requests
    /\ NoResult \in Results /\ SEEOS_PREEMPTED \in Results
<1> USE ThreadsAssumption
<1>1. \A r \in Contents : r[2] \in Threads \cup {NoThread}
  BY DEF Contents, Requests, Answers, Request, Answer, ResumeArgs, Scratch
<1>2. \A r \in Contents : Answer(r) \in Answers
  <2> SUFFICES ASSUME NEW r \in Contents PROVE Answer(r) \in Answers
    OBVIOUS
  <2>1. CASE r[2] = NoThread
    <3>1. ResumeArgs \in Requests
      BY DEF Requests
    <3>2. Answer(ResumeArgs) = Answer(r)
      BY <2>1 DEF Answer, ResumeArgs
    <3> QED
      BY <3>1, <3>2 DEF Answers
  <2>2. CASE r[2] \in Threads
    <3>1. Request(r[2]) \in Requests
      BY <2>2 DEF Requests
    <3>2. Answer(Request(r[2])) = Answer(r)
      BY DEF Answer, Request
    <3> QED
      BY <3>1, <3>2 DEF Answers
  <2> QED
    BY <1>1, <2>1, <2>2
<1>3. \A t \in Threads : Request(t) \in Requests /\ Request(t) # ResumeArgs
  BY DEF Requests, Request, ResumeArgs
<1>4. \A r \in Contents : r \in Answers => r \notin Requests
  BY DEF Answers, Answer, Requests, Request, ResumeArgs
<1> QED
  BY <1>2, <1>3, <1>4 DEF Requests, Results

-----------------------------------------------------------------------------
(* Types.                                                                   *)

LEMMA TypeInit == Init => TypeOK
BY DataFacts
DEF Init, TypeOK, ThreadPcs, SeePcs, Contents

LEMMA TypeStep == TypeOK /\ [Next]_vars => TypeOK'
<1> SUFFICES ASSUME TypeOK, [Next]_vars PROVE TypeOK'
  OBVIOUS
<1> USE DataFacts DEF TypeOK, SeePcs, ThreadPcs
<1>1. ASSUME NEW t \in Threads, SwitchThread(t) PROVE TypeOK'
  BY <1>1 DEF SwitchThread, see
<1>2. CASE SeeosCall
  <2>1. Request(thread) \in Contents
    BY DEF Contents
  <2> QED
    BY <1>2, <2>1 DEF SeeosCall, EnterSecure
<1>3. CASE SmcResume
  <2>1. ResumeArgs \in Contents
    BY DEF Contents
  <2> QED
    BY <1>3, <2>1 DEF SmcResume, EnterSecure
<1>4. CASE Entry \/ Fetch
  <2>1. Scratch \in Contents
    BY DEF Contents
  <2> QED
    BY <1>4, <2>1 DEF Entry, Fetch
<1>5. CASE Serve
  <2>1. x' \in Answers
    BY <1>5 DEF Serve, Contents
  <2>2. x' \in Contents
    BY <2>1 DEF Contents
  <2> QED
    BY <1>5, <2>2 DEF Serve
<1>6. CASE SmcYield
  <2>1. x \in Results
    BY <1>6 DEF SmcYield, Results
  <2> QED
    BY <1>6, <2>1 DEF SmcYield, LeaveSecure
<1>7. CASE SmcConfused
  BY <1>7 DEF SmcConfused
<1>8. CASE Preempt
  BY <1>8 DEF Preempt, LeaveSecure, see
<1>9. CASE Start
  BY <1>9 DEF Start
<1>10. CASE UNCHANGED vars
  BY <1>10 DEF vars
<1> QED
  BY <1>1, <1>2, <1>3, <1>4, <1>5, <1>6, <1>7, <1>8, <1>9, <1>10 DEF Next, Seeos

\* Types hold always: requests, answers and saved contexts stay what the code
\* makes of them in every order of calls and preemptions.
THEOREM TypeCorrect == Spec => []TypeOK
BY TypeInit, TypeStep, PTL DEF Spec

-----------------------------------------------------------------------------
(* SEEOS goes on where it stopped.                                          *)

LEMMA SecureContinuesStep ==
    TypeOK /\ SecureContinues /\ [Next]_vars => SecureContinues'
<1> SUFFICES ASSUME TypeOK, SecureContinues, [Next]_vars PROVE SecureContinues'
  OBVIOUS
<1> USE DEF SecureContinues, TypeOK
<1>1. ASSUME NEW t \in Threads, SwitchThread(t) PROVE SecureContinues'
  BY <1>1 DEF SwitchThread, see
<1>2. CASE SeeosCall \/ SmcResume
  BY <1>2 DEF SeeosCall, SmcResume, EnterSecure
<1>3. CASE Entry \/ Start \/ Fetch \/ Serve \/ SmcConfused
  BY <1>3 DEF Entry, Start, Fetch, Serve, SmcConfused
<1>4. CASE SmcYield
  BY <1>4 DEF SmcYield
<1>5. CASE Preempt
  BY <1>5 DEF Preempt, see
<1>6. CASE UNCHANGED vars
  BY <1>6 DEF vars
<1> QED
  BY <1>1, <1>2, <1>3, <1>4, <1>5, <1>6 DEF Next, Seeos

\* While the kernel runs, s_context is the point where SEEOS stopped.
THEOREM SecureContinuesAlways == Spec => []SecureContinues
<1>1. Init => SecureContinues
  BY DEF Init, SecureContinues
<1> QED
  BY <1>1, TypeCorrect, SecureContinuesStep, PTL DEF Spec

-----------------------------------------------------------------------------
(* Calls return to their callers.  The inductive invariant ties, as long as *)
(* no start and no service was re-entered after a preemption, the content   *)
(* of x0-x5 at each point of SEEOS and the owner of ns_context to the       *)
(* thread whose call is served.                                             *)

CallInv ==
    intact =>
       /\ world # "lost"
       /\ world = "s" =>
             /\ ns_context = thread
             /\ at[thread] = "call"
             /\ see_pc \in {"entry", "fetch"} => x = Request(thread)
             /\ see_pc \in {"starting", "serving"} => x = Scratch /\ res = Request(thread)
             /\ see_pc = "answering" => x = Answer(Request(thread))

LEMMA CallStep == TypeOK /\ CallInv /\ [Next]_vars => CallInv'
<1> SUFFICES ASSUME TypeOK, CallInv, [Next]_vars PROVE CallInv'
  OBVIOUS
<1> USE DataFacts DEF TypeOK, CallInv
<1>1. ASSUME NEW t \in Threads, SwitchThread(t) PROVE CallInv'
  BY <1>1 DEF SwitchThread, see
<1>2. CASE SeeosCall
  BY <1>2 DEF SeeosCall, EnterSecure
<1>3. CASE SmcResume
  BY <1>3 DEF SmcResume, EnterSecure
<1>4. CASE Entry \/ Start \/ Fetch
  BY <1>4 DEF Entry, Start, Fetch
<1>5. CASE Serve
  <2>1. intact => x' = Answer(Request(thread))
    BY <1>5 DEF Serve
  <2> QED
    BY <1>5, <2>1 DEF Serve
<1>6. CASE SmcYield
  BY <1>6 DEF SmcYield, LeaveSecure
<1>7. CASE SmcConfused
  <2>1. intact => x \notin Requests
    <3> SUFFICES ASSUME intact PROVE x \notin Requests
      OBVIOUS
    <3>1. x = Answer(Request(thread))
      BY <1>7 DEF SmcConfused
    <3> QED
      BY <3>1 DEF Contents
  <2> QED
    BY <1>7, <2>1 DEF SmcConfused
<1>8. CASE Preempt
  BY <1>8 DEF Preempt, LeaveSecure, see
<1>9. CASE UNCHANGED vars
  BY <1>9 DEF vars
<1> QED
  BY <1>1, <1>2, <1>3, <1>4, <1>5, <1>6, <1>7, <1>8, <1>9 DEF Next, Seeos

LEMMA CallInvAlways == Spec => []CallInv
<1>1. Init => CallInv
  BY DEF Init, CallInv
<1> QED
  BY <1>1, TypeCorrect, CallStep, PTL DEF Spec

\* The monitor does not run SEEOS as non-secure, unless the kernel makes SEEOS
\* go on with a start or a service in which it was preempted.
THEOREM NeverLostAlways == Spec => []NeverLost
<1>1. CallInv => NeverLost
  BY DEF CallInv, NeverLost
<1> QED
  BY <1>1, CallInvAlways, PTL

\* Every switch back ends the caller's call, with its own answer or with
\* SEEOS_PREEMPTED, until the kernel makes SEEOS go on with a start or a
\* service in which it was preempted.
THEOREM ReturnsToCallerAlways == Spec => ReturnsToCaller
<1> DEFINE Returned ==
      intact /\ world = "s" /\ world' = "ns"
          => /\ at[thread] = "call"
             /\ thread' = thread
             /\ at' = [at EXCEPT ![thread] = "run"]
             /\ \E r \in {Answer(Request(thread)), SEEOS_PREEMPTED} :
                   result' = [result EXCEPT ![thread] = r]
<1>1. TypeOK /\ CallInv /\ [Next]_vars => [Returned]_vars
  <2> SUFFICES ASSUME TypeOK, CallInv, Next, intact, world = "s", world' = "ns"
               PROVE  Returned
    OBVIOUS
  <2> USE DEF TypeOK, CallInv
  <2>1. SmcYield \/ Preempt
    BY DEF Next, Seeos, SwitchThread, SeeosCall, SmcResume, Entry, Start, Fetch, Serve, SmcConfused
  <2>2. CASE SmcYield
    BY <2>2 DEF SmcYield, LeaveSecure
  <2>3. CASE Preempt
    BY <2>3 DEF Preempt, LeaveSecure
  <2> QED
    BY <2>1, <2>2, <2>3
<1> QED
  BY <1>1, TypeCorrect, CallInvAlways, PTL DEF Spec, ReturnsToCaller

=============================================================================

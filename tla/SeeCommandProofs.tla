--------------------------- MODULE SeeCommandProofs ---------------------------
(***************************************************************************)
(* Theorems about SeeCommand, for every set of threads: it refines         *)
(* WorldSwitch, whose theorems hold of it therefore, and a thread never    *)
(* takes another command's response for its own.                           *)
(***************************************************************************)
EXTENDS SeeCommand, WorldSwitchProofs

-----------------------------------------------------------------------------
(* SeeCommand refines WorldSwitch.                                          *)

LEMMA StepRefines == [CmdNext]_<<vars, cmdVars>> => [Next]_vars
<1> SUFFICES ASSUME [CmdNext]_<<vars, cmdVars>> PROVE [Next]_vars
  OBVIOUS
<1>1. CASE LockBuffer \/ ReleaseBuffer \/ RetryCommand
           \/ \E kind \in Kinds : FillBuffer(kind)
  BY <1>1 DEF LockBuffer, ReleaseBuffer, RetryCommand, FillBuffer, Client
<1>2. CASE See_call \/ PlainCall
  BY <1>2 DEF See_call, PlainCall, Next
<1>3. CASE CmdUndefine \/ CmdMatch \/ CmdStore \/ CmdRespond
  BY <1>3 DEF CmdUndefine, CmdMatch, CmdStore, CmdRespond, Invoke
<1>4. CASE CmdEntry \/ CmdStart \/ CmdFetch \/ CmdServe
  BY <1>4 DEF CmdEntry, CmdStart, CmdFetch, CmdServe, Next, Seeos
<1>5. CASE (\E t \in Threads : SwitchThread(t)) \/ SmcYield \/ SmcConfused \/ Preempt
  BY <1>5 DEF Next, Seeos
<1>6. CASE UNCHANGED <<vars, cmdVars>>
  BY <1>6
<1> QED
  BY <1>1, <1>2, <1>3, <1>4, <1>5, <1>6 DEF CmdNext

\* The buffer and the steps of see_cmd_invoke() add nothing to what the monitor
\* and SEEOS do as WorldSwitch has it: whatever holds there holds here.
THEOREM CmdRefines == CmdSpec => Spec
<1>1. CmdInit => Init
  BY DEF CmdInit
<1> QED
  BY <1>1, StepRefines, PTL DEF CmdSpec, Spec

-----------------------------------------------------------------------------
(* A response is of the thread's own command.  The invariant follows the    *)
(* holder's call through see_cmd_invoke(): what the buffer and SEEOS's own  *)
(* variables hold at each point, as long as no start and no service is re-   *)
(* entered.                                                                 *)

\* Who has the buffer, and what is in it.
HolderInv ==
    /\ stage \in Stages
    /\ holder \in Threads \cup {NoThread}
    /\ stage # "free" => holder \in Threads
    /\ stage \in {"filled", "called"} => command.data = holder /\ command.kind \in Kinds

\* The buffer when the holder's command has been carried out.
Complete ==
    /\ response = Expected(command.kind)
    /\ command.kind = "good" => computed = holder

\* The buffer, and what SEEOS knows, at each point of the command.
AtPoint ==
    /\ see_pc \in {"entry", "fetch"} => response = "CMD_EMPTY"
    /\ see_pc = "starting" => cmd_pc = "undefine" /\ response = "CMD_EMPTY"
    /\ see_pc = "serving" =>
          /\ cmd_pc \in CmdPcs
          /\ cmd_pc = "undefine" => response = "CMD_EMPTY"
          /\ cmd_pc \in {"match", "store", "respond"} => response = "CMD_UNDEFINED"
          /\ cmd_pc \in {"store", "respond"} => command.kind = "good" /\ job = holder
          /\ cmd_pc = "respond" => computed = holder
          /\ cmd_pc = "done" => Complete
    /\ see_pc = "answering" => Complete

\* Only the thread whose call SEEOS serves is behind an smc; a service other
\* than the holder's command leaves the buffer alone.
Quiet ==
    /\ \A t \in Threads : at[t] # "run" => world = "s" /\ t = thread
    /\ world = "s" /\ see_pc \in {"starting", "serving"} =>
          cmd_pc = "done" \/ (stage = "called" /\ holder = thread)
    /\ stage = "filled" => response = "CMD_EMPTY"

\* What the holder finds, and what it is about to find.
Found ==
    Readable => /\ response = "CMD_SUCCESS" => command.kind = "good" /\ computed = holder
                /\ result[holder] # SEEOS_PREEMPTED => response = Expected(command.kind)
                /\ response \in {"CMD_EMPTY", "CMD_UNDEFINED", Expected(command.kind)}
Running == stage = "called" /\ at[holder] # "run" => AtPoint

CmdInv == intact => Quiet /\ Found /\ Running

LEMMA ExpectedFacts ==
    /\ \A kind \in Kinds : Expected(kind) \in {"CMD_SUCCESS", "CMD_WRONG_ARGS", "CMD_UNDEFINED"}
    /\ \A kind \in Kinds : Expected(kind) = "CMD_SUCCESS" => kind = "good"
    /\ Expected("good") = "CMD_SUCCESS"
    /\ Expected("wrong") = "CMD_WRONG_ARGS"
    /\ Expected("unknown") = "CMD_UNDEFINED"
BY DEF Kinds, Expected

LEMMA HolderStep == TypeOK /\ HolderInv /\ [CmdNext]_<<vars, cmdVars>> => HolderInv'
<1> SUFFICES ASSUME TypeOK, HolderInv, [CmdNext]_<<vars, cmdVars>> PROVE HolderInv'
  OBVIOUS
<1> USE ThreadsAssumption DEF HolderInv, Stages
<1>1. CASE LockBuffer
  BY <1>1 DEF LockBuffer, Client, buffer, TypeOK
<1>2. CASE \E kind \in Kinds : FillBuffer(kind)
  BY <1>2 DEF FillBuffer, Client, TypeOK
<1>3. CASE See_call
  BY <1>3 DEF See_call, buffer
<1>4. CASE ReleaseBuffer \/ RetryCommand
  BY <1>4 DEF ReleaseBuffer, RetryCommand, Client, buffer
<1>5. CASE CmdUndefine \/ CmdMatch \/ CmdStore \/ CmdRespond
  BY <1>5 DEF CmdUndefine, CmdMatch, CmdStore, CmdRespond, Invoke, client
<1>6. CASE CmdEntry \/ CmdFetch
  BY <1>6 DEF CmdEntry, CmdFetch, StoreRequest, client, buffer
<1>7. CASE UNCHANGED cmdVars
  BY <1>7 DEF cmdVars
<1> QED
  BY <1>1, <1>2, <1>3, <1>4, <1>5, <1>6, <1>7 DEF CmdNext, CmdStart, CmdServe, PlainCall

\* Requests tell the threads apart.
LEMMA RequestFacts == \A t, u \in Threads : Request(t) = Request(u) => t = u
BY DEF Request

LEMMA CmdStep ==
    TypeOK /\ CallInv /\ HolderInv /\ CmdInv /\ [CmdNext]_<<vars, cmdVars>> => CmdInv'
<1> SUFFICES ASSUME TypeOK, CallInv, HolderInv, CmdInv, [CmdNext]_<<vars, cmdVars>>, intact'
             PROVE  Quiet' /\ Found' /\ Running'
  BY DEF CmdInv
<1> USE DEF TypeOK, CallInv, HolderInv, Quiet, Found, Running, Readable
<1>1. CASE LockBuffer \/ ReleaseBuffer \/ RetryCommand
  BY <1>1 DEF LockBuffer, ReleaseBuffer, RetryCommand, Client, vars, buffer, invoke, CmdInv
<1>2. CASE \E kind \in Kinds : FillBuffer(kind)
  BY <1>2 DEF FillBuffer, Client, vars, invoke, CmdInv
<1>3. CASE See_call
  <2>1. intact /\ see_pc' \in {"entry", "fetch"}
    BY <1>3 DEF See_call, SeeosCall, EnterSecure
  <2>2. Quiet'
    BY <1>3, <2>1 DEF See_call, SeeosCall, EnterSecure, buffer, invoke, CmdInv
  <2>3. AtPoint'
    BY <1>3, <2>1 DEF See_call, buffer, CmdInv, AtPoint
  <2>4. Found'
    BY <1>3, <2>1 DEF See_call, SeeosCall
  <2> QED
    BY <2>2, <2>3, <2>4
<1>4. CASE PlainCall
  <2>1. SeeosCall /\ intact /\ see_pc' \in {"entry", "fetch"}
    BY <1>4 DEF PlainCall, SeeosCall, SmcResume, EnterSecure
  <2>2. Quiet' /\ Found' /\ Running'
    BY <1>4, <2>1 DEF PlainCall, SeeosCall, EnterSecure, cmdVars, CmdInv
  <2> QED
    BY <2>2
<1>5. CASE CmdEntry \/ CmdFetch
  <2>1. /\ intact /\ world = "s" /\ x = Request(thread)
        /\ see_pc \in {"entry", "fetch"} /\ see_pc' \in {"starting", "serving"}
        /\ UNCHANGED <<world, thread, at, result>>
        /\ StoreRequest
    BY <1>5 DEF CmdEntry, CmdFetch, Entry, Fetch
  <2>2. cmd_pc' = IF stage = "called" /\ holder = thread THEN "undefine" ELSE "done"
    BY <2>1, RequestFacts DEF StoreRequest
  <2>3. Quiet'
    BY <2>1, <2>2 DEF StoreRequest, client, buffer, CmdInv
  <2>4. Found'
    BY <2>1 DEF StoreRequest, client, buffer, CmdInv
  <2>5. Running'
    BY <2>1, <2>2 DEF StoreRequest, client, buffer, CmdInv, AtPoint, CmdPcs
  <2> QED
    BY <2>3, <2>4, <2>5
<1>6. CASE CmdUndefine \/ CmdMatch \/ CmdStore \/ CmdRespond
  <2>1. /\ world = "s" /\ see_pc = "serving" /\ cmd_pc # "done" /\ intact
        /\ UNCHANGED <<vars, client, command>>
    BY <1>6 DEF CmdUndefine, CmdMatch, CmdStore, CmdRespond, Invoke, vars
  <2>2. /\ stage = "called" /\ holder = thread /\ at[holder] # "run"
        /\ x = Scratch /\ AtPoint
    BY <2>1 DEF CmdInv
  <2>3. AtPoint'
    <3> USE <2>1, <2>2, ExpectedFacts DEF AtPoint, CmdPcs, Complete, Stored, vars, client, Invoke
    <3>1. CASE CmdUndefine
      BY <3>1 DEF CmdUndefine
    <3>2. CASE CmdMatch
      BY <3>2 DEF CmdMatch
    <3>3. CASE CmdStore
      BY <3>3 DEF CmdStore
    <3>4. CASE CmdRespond
      BY <3>4 DEF CmdRespond
    <3> QED
      BY <1>6, <3>1, <3>2, <3>3, <3>4
  <2> QED
    BY <2>1, <2>2, <2>3 DEF vars, client, CmdInv
<1>7. CASE CmdServe
  <2>1. Quiet' /\ Found'
    BY <1>7 DEF CmdServe, Serve, cmdVars, CmdInv
  <2>2. Running'
    BY <1>7 DEF CmdServe, Serve, cmdVars, CmdInv, AtPoint, Complete
  <2> QED
    BY <2>1, <2>2
<1>8. CASE CmdStart
  BY <1>8 DEF CmdStart, Start, cmdVars, CmdInv, AtPoint, CmdPcs
<1>9. CASE (\E t \in Threads : SwitchThread(t)) /\ UNCHANGED cmdVars
  BY <1>9 DEF SwitchThread, see, cmdVars, CmdInv, AtPoint, Complete
<1>10. CASE (SmcYield \/ Preempt) /\ UNCHANGED cmdVars
  <2>1. /\ intact /\ world = "s" /\ ns_context = thread /\ at[thread] = "call"
        /\ world' = "ns" /\ thread' = thread
        /\ at' = [at EXCEPT ![thread] = "run"]
        /\ UNCHANGED cmdVars
    BY <1>10 DEF SmcYield, Preempt, LeaveSecure
  <2>2. \/ SmcYield /\ see_pc = "answering"
        \/ Preempt /\ result' = [result EXCEPT ![thread] = SEEOS_PREEMPTED]
    BY <1>10, <2>1 DEF SmcYield, Preempt, LeaveSecure
  <2>3. \A t \in Threads : t # thread => result'[t] = result[t]
    BY <1>10, <2>1 DEF SmcYield, Preempt, LeaveSecure
  <2>4. Quiet' /\ Running'
    BY <2>1 DEF cmdVars, CmdInv
  <2>5. CASE stage = "called" /\ holder = thread
    <3>1. AtPoint /\ command.kind \in Kinds
      BY <2>1, <2>5 DEF CmdInv
    <3>2. CASE SmcYield
      <4>1. Complete
        BY <3>1, <3>2 DEF SmcYield, AtPoint
      <4>2. UNCHANGED <<stage, holder, command, response, computed>>
        BY <2>1 DEF cmdVars
      <4>3. response' = "CMD_SUCCESS" => command'.kind = "good" /\ computed' = holder'
        BY <4>1, <4>2, <3>1, ExpectedFacts DEF Complete
      <4>4. response' = Expected(command'.kind)
        BY <4>1, <4>2 DEF Complete
      <4> QED
        BY <2>4, <4>3, <4>4
    <3>3. CASE Preempt /\ result' = [result EXCEPT ![thread] = SEEOS_PREEMPTED]
      <4>1. \/ response \in {"CMD_EMPTY", "CMD_UNDEFINED"}
            \/ Complete
        BY <3>1 DEF AtPoint, CmdPcs, SeePcs
      <4>2. result'[holder] = SEEOS_PREEMPTED
        BY <2>5, <3>3
      <4>3. UNCHANGED <<stage, holder, command, response, computed>>
        BY <2>1 DEF cmdVars
      <4>4. response' = "CMD_SUCCESS" => command'.kind = "good" /\ computed' = holder'
        BY <4>1, <4>3, <3>1, ExpectedFacts DEF Complete
      <4>5. response' \in {"CMD_EMPTY", "CMD_UNDEFINED", Expected(command'.kind)}
        BY <4>1, <4>3 DEF Complete
      <4>6. result'[holder'] = SEEOS_PREEMPTED
        BY <4>2, <4>3
      <4> QED
        BY <2>4, <4>4, <4>5, <4>6
    <3> QED
      BY <2>2, <3>2, <3>3
  <2>6. CASE ~(stage = "called" /\ holder = thread)
    BY <2>1, <2>3, <2>6 DEF cmdVars, CmdInv
  <2> QED
    BY <2>4, <2>5, <2>6
<1>11. CASE SmcConfused /\ UNCHANGED cmdVars
  <2>1. x = Answer(Request(thread)) /\ x \in Requests
    BY <1>11 DEF SmcConfused
  <2>2. FALSE
    BY <2>1, DataFacts DEF Contents
  <2> QED
    BY <2>2
<1>12. CASE UNCHANGED <<vars, cmdVars>>
  BY <1>12 DEF vars, cmdVars, CmdInv, AtPoint, Complete
<1> QED
  BY <1>1, <1>2, <1>3, <1>4, <1>5, <1>6, <1>7, <1>8, <1>9, <1>10, <1>11, <1>12 DEF CmdNext

\* After see_call() a thread reads the response to its own command, or none.
THEOREM ResponseOwnAlways == CmdSpec => []ResponseOwn
<1>1. CmdInit => HolderInv /\ CmdInv
  BY DEF CmdInit, Init, HolderInv, Stages, CmdInv, Quiet, Found, Readable, Running
<1>2. CmdInv => ResponseOwn
  BY DEF CmdInv, Found, ResponseOwn, Readable
<1> QED
  BY <1>1, <1>2, CmdRefines, TypeCorrect, CallInvAlways, HolderStep, CmdStep, PTL DEF CmdSpec

-----------------------------------------------------------------------------
(* What refinement carries over: what holds of the world switch, whoever    *)
(* calls, holds while threads use the command buffer and retry.             *)

\* Types of the contexts, requests and answers.
THEOREM CmdTypeCorrect == CmdSpec => []TypeOK
BY CmdRefines, TypeCorrect, PTL

\* While the kernel runs, between two commands or in the middle of a preempted
\* one, s_context is the point where SEEOS stopped.
THEOREM CmdSecureContinues == CmdSpec => []SecureContinues
BY CmdRefines, SecureContinuesAlways, PTL

\* No order of commands, retries and preemptions runs SEEOS as non-secure,
\* until a start or a service is re-entered after a preemption.
THEOREM CmdNeverLost == CmdSpec => []NeverLost
BY CmdRefines, NeverLostAlways, PTL

\* Until then each command's call ends in the thread that made it, with its
\* own answer or with SEEOS_PREEMPTED.
THEOREM CmdReturnsToCaller == CmdSpec => ReturnsToCaller
BY CmdRefines, ReturnsToCallerAlways, PTL

=============================================================================

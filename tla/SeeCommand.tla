------------------------------ MODULE SeeCommand ------------------------------
(***************************************************************************)
(* The command buffer at SMEM_BUFFER, through which a kernel thread passes *)
(* a command to SEEOS and reads its response: see_cmd_invoke() and its     *)
(* three functions (src/src/see/see_com.c), see_call() and the layout of   *)
(* the buffer (src/include/see_cmd.h).                                     *)
(*                                                                         *)
(* It refines WorldSwitch: a SEEOS_COMMAND is one of the calls there, and  *)
(* see_cmd_invoke() one of its services, here in steps that an interrupt   *)
(* can separate.  The threads that use the buffer are external, and do     *)
(* what the buffer needs of them: they take a lock around it, and empty    *)
(* the response before they call.  The others make plain calls.            *)
(***************************************************************************)
EXTENDS WorldSwitch

\* A command that succeeds, one of wrong arguments, one that SEEOS lacks.
Kinds == {"good", "wrong", "unknown"}

\* cmd_response_t.
Responses == {"CMD_EMPTY", "CMD_WRONG_ARGS", "CMD_UNDEFINED", "CMD_SUCCESS"}

\* The response to a command that see_cmd_invoke() has carried out.
Expected(kind) == CASE kind = "good"    -> "CMD_SUCCESS"
                    [] kind = "wrong"   -> "CMD_WRONG_ARGS"
                    [] kind = "unknown" -> "CMD_UNDEFINED"

\* Where SEEOS is in see_cmd_invoke(): before the line that sets the response
\* to undefined, reads the command, stores its result, sets its response.
CmdPcs == {"undefine", "match", "store", "respond", "done"}

Stages == {"free", "locked", "filled", "called"}

VARIABLES
    holder,    \* the thread that has the lock around the buffer, or NoThread
    stage,     \* what the holder has done so far
    command,   \* [kind, data]: cmd->command and cmd->data, of which thread
    response,  \* cmd->response
    computed,  \* cmd->result: the thread whose data it was computed from
    cmd_pc,    \* where SEEOS is in see_cmd_invoke(); "done" in other services
    job        \* the data that the running command has read

buffer  == <<command, response, computed>>
client  == <<holder, stage>>
invoke  == <<cmd_pc, job>>
cmdVars == <<holder, stage, command, response, computed, cmd_pc, job>>

CmdInit ==
    /\ Init
    /\ holder = NoThread
    /\ stage = "free"
    /\ command = [kind |-> "unknown", data |-> NoThread]
    /\ response = "CMD_EMPTY"
    /\ computed = NoThread
    /\ cmd_pc = "done"
    /\ job = NoThread

-----------------------------------------------------------------------------
(* The threads that use the buffer (external).                              *)

Client(from, to) ==
    /\ world = "ns"
    /\ at[thread] = "run"
    /\ stage = from
    /\ stage' = to
    /\ UNCHANGED <<vars, invoke>>

LockBuffer ==
    /\ Client("free", "locked")
    /\ holder' = thread
    /\ UNCHANGED buffer

FillBuffer(kind) ==
    /\ holder = thread
    /\ Client("locked", "filled")
    /\ command' = [kind |-> kind, data |-> thread]
    /\ response' = "CMD_EMPTY"
    /\ UNCHANGED <<holder, computed>>

\* see_call(): it drops what the smc returns, and so SEEOS_PREEMPTED.
See_call ==
    /\ holder = thread
    /\ stage = "filled"
    /\ stage' = "called"
    /\ SeeosCall
    /\ UNCHANGED <<holder, buffer, invoke>>

\* Having read the response the thread is done with the buffer, or tries again.
ReleaseBuffer ==
    /\ holder = thread
    /\ Client("called", "free")
    /\ holder' = NoThread
    /\ UNCHANGED buffer

RetryCommand ==
    /\ holder = thread
    /\ Client("called", "locked")
    /\ UNCHANGED <<holder, buffer>>

PlainCall ==
    /\ holder # thread
    /\ SeeosCall \/ SmcResume
    /\ UNCHANGED cmdVars

-----------------------------------------------------------------------------
(* SEEOS.                                                                   *)

\* seeos_servicer() gets to its SEEOS_COMMAND case with a command only.  Which
\* case it is to take is settled when the request is stored.
StoreRequest ==
    /\ cmd_pc' = IF stage = "called" /\ x = Request(holder) THEN "undefine" ELSE "done"
    /\ UNCHANGED <<client, buffer, job>>

CmdEntry == Entry /\ StoreRequest

CmdFetch == Fetch /\ StoreRequest

CmdStart == Start /\ UNCHANGED cmdVars

Invoke(from, to) ==
    /\ world = "s"
    /\ see_pc = "serving"
    /\ cmd_pc = from
    /\ cmd_pc' = to
    /\ UNCHANGED <<vars, client, command>>

\* What a store of new leaves behind.  In a command that goes on with other
\* contents of x0-x5 than it had the store may miss the buffer.
Stored(new, old) == {new} \cup (IF x = Scratch THEN {} ELSE {old})

CmdSucceedsAtFirst ==                                    \* mutant
    /\ Invoke("undefine", "match")
    /\ response' \in Stored("CMD_SUCCESS", response)
    /\ UNCHANGED <<computed, job>>

\* cmd->response = CMD_UNDEFINED
CmdUndefine ==
    /\ Invoke("undefine", "match")
    /\ response' \in Stored("CMD_UNDEFINED", response)
    /\ UNCHANGED <<computed, job>>

\* The loop over see_cmd[] and the checks of the arguments.
CmdMatch ==
    \/ /\ command.kind = "good"
       /\ Invoke("match", "store")
       /\ job' = command.data
       /\ UNCHANGED <<response, computed>>
    \/ /\ command.kind = "wrong"
       /\ Invoke("match", "done")
       /\ response' \in Stored("CMD_WRONG_ARGS", response)
       /\ UNCHANGED <<computed, job>>
    \/ /\ command.kind = "unknown"
       /\ Invoke("match", "done")
       /\ UNCHANGED <<response, computed, job>>

\* cmd->result[...] = ...
CmdStore ==
    /\ Invoke("store", "respond")
    /\ computed' \in Stored(job, computed)
    /\ UNCHANGED <<response, job>>

\* cmd->response = CMD_SUCCESS
CmdRespond ==
    /\ Invoke("respond", "done")
    /\ response' \in Stored("CMD_SUCCESS", response)
    /\ UNCHANGED <<computed, job>>

CmdServe == cmd_pc = "done" /\ Serve /\ UNCHANGED cmdVars

-----------------------------------------------------------------------------
CmdNext ==
    \/ LockBuffer \/ See_call \/ ReleaseBuffer \/ RetryCommand \/ PlainCall
    \/ \E kind \in Kinds : FillBuffer(kind)
    \/ CmdEntry \/ CmdStart
    \/ CmdFetch \/ CmdUndefine \/ CmdMatch \/ CmdStore \/ CmdRespond \/ CmdServe
    \/ /\ (\E t \in Threads : SwitchThread(t)) \/ SmcYield \/ SmcConfused \/ Preempt
       /\ UNCHANGED cmdVars

CmdSpec == CmdInit /\ [][CmdNext]_<<vars, cmdVars>>

-----------------------------------------------------------------------------
(* Properties.                                                              *)

\* The call that the buffer was filled for has returned, and the holder can
\* read the response.
Readable == stage = "called" /\ at[holder] = "run"

\* A thread that finds CMD_SUCCESS after see_call() has the result of its own
\* command and data, whatever was in the buffer before and wherever in
\* see_cmd_invoke() an interrupt ended the call, which see_call() does not tell
\* it.  A call that was not preempted leaves the response that the command
\* deserves, and one that was leaves that response or none.
ResponseOwn ==
    intact /\ Readable =>
        /\ response = "CMD_SUCCESS" => command.kind = "good" /\ computed = holder
        /\ result[holder] # SEEOS_PREEMPTED => response = Expected(command.kind)
        /\ response \in {"CMD_EMPTY", "CMD_UNDEFINED", Expected(command.kind)}

=============================================================================

------------------------------ MODULE ToolTrace ------------------------------
(***************************************************************************)
(* The trace of the tool calls of a turn: what ToolExecutor.execute tells  *)
(* the hook of createToolTraceHook while Harness runs.  Lead and subagent  *)
(* have an executor each and share the hook, which keeps the start times   *)
(* of the running calls by the call id that the model chose.               *)
(*                                                                         *)
(* The module adds to the steps of Harness what they notify; the steps     *)
(* themselves are unchanged, whatever becomes of the notification.         *)
(***************************************************************************)
EXTENDS Harness

CONSTANT Ids   \* the call ids the model chooses from

ASSUME IdAssumption == Ids # {} /\ "none" \notin Ids

VARIABLES
  callId,     \* callId[a]: the id of the call agent a's executor is in
  startedAt,  \* startedAt[i]: whose start is kept under the id i
  nested,     \* history: the ids the subagent used in this delegation
  lost        \* a trace write was rejected that nobody awaits

trace  == <<callId, startedAt, nested, lost>>
traced == <<vars, trace>>

TraceInit ==
  /\ Init
  /\ callId = [a \in Agents |-> "none"]
  /\ startedAt = [i \in Ids |-> "none"]
  /\ nested = {}
  /\ lost = FALSE

Keep(i, who) == startedAt' = [startedAt EXCEPT ![i] = who]

(* notifyObserver handles the rejection of the promise that a notification *)
(* returns.  The one of a failed call returns none: its write may be lost. *)
MayBeLost == lost' \in {lost, TRUE}

(* execute begins.  A call of an unknown tool, with invalid input or under *)
(* an aborted signal finishes in the same step.                            *)
TraceStart(a) ==
  /\ NextCall(a)
  /\ IF node'[a] = "executing"
     THEN \E i \in Ids :
            /\ callId' = [callId EXCEPT ![a] = i]
            /\ Keep(i, IF op'[a] = "approving" THEN a ELSE "none")
            /\ nested' = IF a = "sub" THEN nested \cup {i} ELSE nested
            /\ IF op'[a] = "approving" THEN UNCHANGED lost ELSE MayBeLost
     ELSE UNCHANGED trace

(* The call certainly succeeded: only the lead's transcript tells. *)
Succeeds(a) == a = "lead" /\ node[a] = "executing" /\ line' = "succeeded"

(* Mutant of Finished: the start is read and left in its place. *)
FinishedKept(a) == UNCHANGED trace

(* finished: the start kept under the id is read, and no longer kept.      *)
Finished(a) ==
  /\ Keep(callId[a], "none")
  /\ IF Succeeds(a) THEN UNCHANGED lost ELSE MayBeLost
  /\ UNCHANGED <<callId, nested>>

(* execute returns or throws. *)
TraceEnd(a) ==
  /\ \/ Denied(a) \/ ToolSettles(a)
     \/ a = "lead" /\ (TaskUndeclared \/ DelegateFails \/ DelegationEnds)
  /\ Finished(a)

TraceDelegate == Delegate /\ nested' = {} /\ UNCHANGED <<callId, startedAt, lost>>

(* Every other step notifies nobody. *)
Untraced(a) ==
  /\ \/ ModelNode(a) \/ ToolsReturn(a) \/ Rejected(a) \/ GiveUp(a)
     \/ ModelSettles(a) \/ Approve(a)
  /\ UNCHANGED trace

TraceNext ==
  \/ \E a \in Agents : TraceStart(a) \/ TraceEnd(a) \/ Untraced(a)
  \/ TraceDelegate
  \/ Abort /\ UNCHANGED trace

TraceSpec     == TraceInit /\ [][TraceNext]_traced
FairTraceSpec == TraceSpec /\ Fairness

-----------------------------------------------------------------------------
Finishes(a) == op[a] # "idle" /\ op'[a] = "idle"

(* The duration in a tool's terminal line is that of the call itself or it *)
(* is left out, never that of another call with the same id; and it is     *)
(* left out only for a delegation inside which the id was used again.  An  *)
(* abort suspends this: a tool that was given up may finish after others.  *)
SpansAreOwn ==
  [][\A a \in Agents :
       Finishes(a) /\ ~ aborted =>
         startedAt[callId[a]] =
           IF a = "lead" /\ op[a] = "delegating" /\ callId[a] \in nested
           THEN "none" ELSE a]_traced

(* executor.ts: "Observer failures are discarded so they cannot change the *)
(* operation observed."  A rejection that nobody handles ends the process. *)
ObserversAreHarmless == ~ lost
=============================================================================

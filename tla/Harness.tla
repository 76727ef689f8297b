------------------------------ MODULE Harness ------------------------------
(***************************************************************************)
(* One turn of the harness: the model and tools nodes of compileGraph, the *)
(* ToolExecutor they call, and the task tool that runs a subagent's graph  *)
(* inside a tool call of the lead (runSubagent).                           *)
(*                                                                         *)
(* The two graphs share one step budget, one session file system and one   *)
(* AbortSignal.  A node awaits its operation in a race with the signal     *)
(* (withSignal), so a node and the operation it started are two processes: *)
(* the node may give up while the operation goes on.                       *)
(***************************************************************************)
EXTENDS Naturals, Sequences

CONSTANTS MaxSteps,    \* limits.maxSteps
          MaxCalls     \* limits.maxToolCallsPerStep

ASSUME LimitAssumption == MaxSteps \in Nat \ {0} /\ MaxCalls \in Nat \ {0}

Agents == {"lead", "sub"}

(* What a tool call of the model turns out to be.  Only the lead has the   *)
(* task tool; to a subagent it is one more unknown tool.                   *)
Kinds(a) == {"plain", "unknown", "invalid"}
            \cup IF a = "lead" THEN {"task", "undeclared"} ELSE {}

VARIABLES
  node,      \* node[a]: where the graph of agent a is
  pending,   \* pending[a]: the tool calls not executed yet
  owed,      \* owed[a]: calls of the last model result without a tool message
  op,        \* op[a]: the operation executor.execute of agent a is in
  steps,     \* budget.steps, shared
  aborted,   \* the turn's AbortSignal
  finding,   \* the subagent's finding file in the session file system
  fresh,     \* history: the finding was written by the current delegation
  line,      \* the lead's last tool line in the transcript
  started,   \* history: model requests and tool calls begun
  late       \* history: of those, begun under an aborted signal

vars == <<node, pending, owed, op, steps, aborted, finding, fresh, line,
          started, late>>
history == <<started, late>>

Nodes == {"off", "model", "completing", "tools", "executing", "done", "failed"}
Ops   == {"idle", "approving", "running", "delegating"}
Files == {"absent", "blank", "text", "oversize"}

Over(a) == node[a] \in {"off", "done", "failed"}

Init ==
  /\ node = [a \in Agents |-> IF a = "lead" THEN "model" ELSE "off"]
  /\ pending = [a \in Agents |-> <<>>]
  /\ owed = [a \in Agents |-> 0]
  /\ op = [a \in Agents |-> "idle"]
  /\ steps = 0
  /\ aborted = FALSE
  /\ finding \in {"absent", "text"}
  /\ fresh = FALSE
  /\ line = "none"
  /\ started = 0
  /\ late = 0

Move(a, n) == node' = [node EXCEPT ![a] = n]

(* Only the lead's turn is written to the session's transcript. *)
Record(a, l) == line' = IF a = "lead" THEN l ELSE line

(* Mutant of ConsumeStep: the check comes before the count. *)
ConsumeStepLate(ok) ==
  /\ ok = (steps <= MaxSteps)
  /\ steps' = steps + 1

(* consumeStep counts first and checks afterwards. *)
ConsumeStep(ok) ==
  /\ steps' = steps + 1
  /\ ok = (steps' <= MaxSteps)

-----------------------------------------------------------------------------
(* A request or call begins.  Under an aborted signal withSignal rejects   *)
(* at once: the operation has begun by then, and nobody awaits it.         *)
Begin ==
  /\ started' = started + 1
  /\ late' = IF aborted THEN late + 1 ELSE late

-----------------------------------------------------------------------------
(* The model node. *)

ModelNode(a) ==
  /\ node[a] = "model"
  /\ \E ok \in BOOLEAN :
       /\ ConsumeStep(ok)
       /\ Move(a, IF ok THEN "completing" ELSE "failed")
       /\ IF ok THEN Begin ELSE UNCHANGED history
  /\ UNCHANGED <<pending, owed, op, aborted, finding, fresh, line>>

ModelAnswers(a) ==
  /\ node[a] = "completing"
  /\ ~aborted
  /\ Move(a, "done")
  /\ UNCHANGED <<pending, owed, op, steps, aborted, finding, fresh, line, history>>

(* An empty list of tool calls ends the graph, one over the limit fails it.*)
ModelCallsTools(a) ==
  /\ node[a] = "completing"
  /\ ~aborted
  /\ \E n \in 0 .. MaxCalls + 1 : \E calls \in [1 .. n -> Kinds(a)] :
       IF n > MaxCalls
       THEN Move(a, "failed") /\ UNCHANGED <<pending, owed>>
       ELSE /\ Move(a, IF n = 0 THEN "done" ELSE "tools")
            /\ pending' = [pending EXCEPT ![a] = calls]
            /\ owed' = [owed EXCEPT ![a] = n]
  /\ UNCHANGED <<op, steps, aborted, finding, fresh, line, history>>

ModelFails(a) ==
  /\ node[a] = "completing"
  /\ Move(a, "failed")
  /\ UNCHANGED <<pending, owed, op, steps, aborted, finding, fresh, line, history>>

-----------------------------------------------------------------------------
(* The tools node and the executor. *)

ToolsReturn(a) ==
  /\ node[a] = "tools"
  /\ pending[a] = <<>>
  /\ Move(a, "model")
  /\ UNCHANGED <<pending, owed, op, steps, aborted, finding, fresh, line, history>>

(* The next call of the batch: a step, a transcript line, execute.  A call *)
(* the executor can run is first put to the approval policy.               *)
NextCall(a) ==
  /\ node[a] = "tools"
  /\ pending[a] # <<>>
  /\ \E ok \in BOOLEAN :
       /\ ConsumeStep(ok)
       /\ IF ok
          THEN /\ Move(a, "executing")
               /\ Record(a, "started")
               /\ Begin
               /\ op' = IF Head(pending[a]) \in {"unknown", "invalid"} \/ aborted
                        THEN op
                        ELSE [op EXCEPT ![a] = "approving"]
          ELSE /\ Move(a, "failed")
               /\ UNCHANGED <<line, history, op>>
  /\ UNCHANGED <<pending, owed, aborted, finding, fresh>>

(* The signal is not looked at again between approval and execution.       *)
Approve(a) ==
  /\ op[a] = "approving"
  /\ op' = [op EXCEPT ![a] = "running"]
  /\ UNCHANGED <<node, pending, owed, steps, aborted, finding, fresh, line, history>>

(* Mutant of Answered: the batch goes on, the tool message is forgotten. *)
AnsweredSilently(a, l) ==
  /\ Move(a, "tools")
  /\ pending' = [pending EXCEPT ![a] = Tail(@)]
  /\ Record(a, l)
  /\ UNCHANGED owed

(* Mutant of Threw: the failure is thrown before it is recorded. *)
ThrewUnrecorded(a) ==
  /\ Move(a, "failed")
  /\ UNCHANGED <<pending, owed, line>>

(* What the node does with an operation that settled: a result becomes a   *)
(* tool message, so does an unknown tool or invalid input; anything else   *)
(* fails the graph.  A node that gave up does not look.                    *)
Answered(a, l) ==
  /\ Move(a, "tools")
  /\ pending' = [pending EXCEPT ![a] = Tail(@)]
  /\ owed' = [owed EXCEPT ![a] = @ - 1]
  /\ Record(a, l)

Threw(a) ==
  /\ Move(a, "failed")
  /\ Record(a, "failed")
  /\ UNCHANGED <<pending, owed>>

(* Mutant of Settled: a call ended by the signal is answered as failed. *)
SettledUnaware(a, outcome) ==
  IF node[a] # "executing"
  THEN UNCHANGED <<node, pending, owed, line>>
  ELSE IF outcome = "fatal"
  THEN Threw(a)
  ELSE Answered(a, IF outcome = "ok" THEN "succeeded" ELSE "failed")

Settled(a, outcome) ==
  IF node[a] # "executing"
  THEN UNCHANGED <<node, pending, owed, line>>
  ELSE IF aborted \/ outcome = "fatal"
  THEN Threw(a)
  ELSE Answered(a, IF outcome = "ok" THEN "succeeded" ELSE "failed")

(* UNKNOWN_TOOL and TOOL_INPUT_INVALID before the tool is reached.         *)
Rejected(a) ==
  /\ node[a] = "executing"
  /\ op[a] = "idle"
  /\ Settled(a, "recoverable")
  /\ UNCHANGED <<op, steps, aborted, finding, fresh, history>>

(* The side effect budget or the approval policy says no or throws. *)
Denied(a) ==
  /\ op[a] = "approving"
  /\ op' = [op EXCEPT ![a] = "idle"]
  /\ \E outcome \in {"recoverable", "fatal"} : Settled(a, outcome)
  /\ UNCHANGED <<steps, aborted, finding, fresh, history>>

(* A tool of the agent returns or throws, whatever became of its node.  It *)
(* may have written the finding file on its way.  A result over the size   *)
(* limit is as fatal as a throw; a throw may carry a recoverable code.     *)
ToolSettles(a) ==
  /\ op[a] = "running"
  /\ Head(pending[a]) = "plain"
  /\ op' = [op EXCEPT ![a] = "idle"]
  /\ \E file \in {finding, "text", "oversize"} :
       /\ finding' = file
       /\ fresh' = (fresh \/ (a = "sub" /\ file # finding))
  /\ \E outcome \in {"ok", "recoverable", "fatal"} : Settled(a, outcome)
  /\ UNCHANGED <<steps, aborted, history>>

-----------------------------------------------------------------------------
(* The task tool. *)

(* SUBAGENT_NOT_DECLARED is not one of the recoverable codes. *)
TaskUndeclared ==
  /\ op["lead"] = "running"
  /\ Head(pending["lead"]) = "undeclared"
  /\ op' = [op EXCEPT !["lead"] = "idle"]
  /\ Settled("lead", "fatal")
  /\ UNCHANGED <<steps, aborted, finding, fresh, history>>

(* Mutant of Delegate: an earlier finding is left in its place. *)
DelegateKeepsFinding ==
  /\ op["lead"] = "running"
  /\ Head(pending["lead"]) = "task"
  /\ op' = [op EXCEPT !["lead"] = "delegating"]
  /\ fresh' = FALSE
  /\ Move("sub", "model")
  /\ pending' = [pending EXCEPT !["sub"] = <<>>]
  /\ owed' = [owed EXCEPT !["sub"] = 0]
  /\ UNCHANGED <<steps, aborted, finding, line, history>>

(* runSubagent empties the finding file, then starts the subagent's graph. *)
Delegate ==
  /\ op["lead"] = "running"
  /\ Head(pending["lead"]) = "task"
  /\ op' = [op EXCEPT !["lead"] = "delegating"]
  /\ finding' = "blank"
  /\ fresh' = FALSE
  /\ Move("sub", "model")
  /\ pending' = [pending EXCEPT !["sub"] = <<>>]
  /\ owed' = [owed EXCEPT !["sub"] = 0]
  /\ UNCHANGED <<steps, aborted, line, history>>

(* The write of the empty finding or the loading of its context fails. *)
DelegateFails ==
  /\ op["lead"] = "running"
  /\ Head(pending["lead"]) = "task"
  /\ op' = [op EXCEPT !["lead"] = "idle"]
  /\ finding' \in {finding, "blank"}
  /\ fresh' = FALSE
  /\ Settled("lead", "fatal")
  /\ UNCHANGED <<steps, aborted, history>>

(* Mutants of DelegationEnds: the subagent's graph is not awaited, or its  *)
(* failure is not noticed.                                                 *)
DelegationNotAwaited ==
  /\ op["lead"] = "delegating"
  /\ op' = [op EXCEPT !["lead"] = "idle"]
  /\ Settled("lead", IF finding = "text" THEN "ok" ELSE "fatal")
  /\ UNCHANGED <<steps, aborted, finding, fresh, history>>

DelegationEndsWell ==
  /\ op["lead"] = "delegating"
  /\ node["sub"] = "done"
  /\ op' = [op EXCEPT !["lead"] = "idle"]
  /\ Settled("lead", IF finding = "text" THEN "ok" ELSE "fatal")
  /\ UNCHANGED <<steps, aborted, finding, fresh, history>>

(* The subagent's graph has ended: a missing, blank or oversize finding is *)
(* as fatal to the lead's call as a failed graph.                          *)
DelegationEnds ==
  /\ op["lead"] = "delegating"
  /\ node["sub"] \in {"done", "failed"}
  /\ op' = [op EXCEPT !["lead"] = "idle"]
  /\ Settled("lead", IF node["sub"] = "done" /\ finding = "text"
                     THEN "ok" ELSE "fatal")
  /\ UNCHANGED <<steps, aborted, finding, fresh, history>>

-----------------------------------------------------------------------------
(* Cancellation. *)

Abort ==
  /\ ~aborted
  /\ ~Over("lead")
  /\ aborted' = TRUE
  /\ UNCHANGED <<node, pending, owed, op, steps, finding, fresh, line, history>>

(* Mutant of GiveUp: only the tools node races with the signal. *)
GiveUpTool(a) ==
  /\ aborted
  /\ node[a] = "executing"
  /\ Threw(a)
  /\ UNCHANGED <<op, steps, aborted, finding, fresh, history>>

(* withSignal: the node stops waiting, its operation goes on.              *)
GiveUp(a) ==
  /\ aborted
  /\ \/ node[a] = "executing" /\ Threw(a)
     \/ node[a] = "completing" /\ Move(a, "failed")
        /\ UNCHANGED <<pending, owed, line>>
  /\ UNCHANGED <<op, steps, aborted, finding, fresh, history>>

-----------------------------------------------------------------------------
GraphStep(a) ==
  ModelNode(a) \/ ToolsReturn(a) \/ NextCall(a) \/ Rejected(a) \/ GiveUp(a)

ModelSettles(a) == ModelAnswers(a) \/ ModelCallsTools(a) \/ ModelFails(a)

OpSettles(a) ==
  \/ Approve(a) \/ Denied(a) \/ ToolSettles(a)
  \/ a = "lead" /\ (TaskUndeclared \/ Delegate \/ DelegateFails)

Next ==
  \/ \E a \in Agents : GraphStep(a) \/ ModelSettles(a) \/ OpSettles(a)
  \/ DelegationEnds
  \/ Abort

Spec == Init /\ [][Next]_vars

(* What the harness itself guarantees: its nodes run on. *)
Fairness ==
  /\ \A a \in Agents : WF_vars(GraphStep(a))
  /\ WF_vars(DelegationEnds)

(* What it cannot guarantee: the provider answers or fails every request,  *)
(* and every tool returns.                                                 *)
OthersAreFair ==
  \A a \in Agents : WF_vars(ModelSettles(a)) /\ WF_vars(OpSettles(a))

-----------------------------------------------------------------------------
(* What each variable may hold. *)
TypeOK ==
  /\ node \in [Agents -> Nodes]
  /\ pending \in [Agents -> Seq(Kinds("lead"))]
  /\ owed \in [Agents -> 0 .. MaxCalls]
  /\ op \in [Agents -> Ops]
  /\ steps \in 0 .. MaxSteps + 1
  /\ aborted \in BOOLEAN
  /\ finding \in Files
  /\ fresh \in BOOLEAN
  /\ line \in {"none", "started", "succeeded", "failed"}
  /\ started \in Nat /\ late \in Nat

(* Lead and subagent together begin at most MaxSteps model requests and    *)
(* tool calls in a turn, and the first step over the budget is the last    *)
(* one that either of them tries, whatever is cancelled.                   *)
BudgetHolds == started <= MaxSteps /\ steps <= MaxSteps + 1

(* The provider never sees an assistant message with a tool call that has  *)
(* no tool message: every call of a batch is answered before the next      *)
(* request, also the calls the executor refused.                           *)
EveryCallAnswered ==
  \A a \in Agents : node[a] = "completing" => owed[a] = 0

(* In the transcript every started tool line is followed by its outcome    *)
(* before the turn ends, whichever way it ends.                            *)
ToolLinesClosed == line = "started" <=> node["lead"] = "executing"

(* A turn that nobody aborted leaves nothing behind once the lead's graph  *)
(* has ended: no tool and no subagent of it is active.                     *)
NothingOutlivesTurn ==
  Over("lead") /\ ~aborted => Over("sub") /\ \A a \in Agents : op[a] = "idle"

(* After an abort lead and subagent together begin one operation more at   *)
(* most, that of a node just about to: no batch goes on, no other agent    *)
(* follows.  It is the one whose rejection nobody would handle.            *)
AbortAdmitsOne == late <= 1

(* A delegation succeeds only with a finding its own subagent wrote: never *)
(* with what an earlier delegation or turn left in the file.               *)
FindingIsFresh ==
  [][op["lead"] = "delegating" /\ node["lead"] = "executing"
     /\ node'["lead"] = "tools" => fresh]_vars

(* An aborted turn ends although neither the provider nor any tool ever    *)
(* reacts to the signal.                                                   *)
AbortEndsTurn == aborted ~> Over("lead")

(* If the provider and the tools settle, the turn ends: the model cannot   *)
(* keep lead and subagent calling tools for ever.                          *)
TurnEnds == OthersAreFair => <>Over("lead")
=============================================================================

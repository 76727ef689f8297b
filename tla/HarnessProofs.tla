---------------------------- MODULE HarnessProofs ----------------------------
(***************************************************************************)
(* Proofs about Harness for every step budget and batch limit.             *)
(*                                                                         *)
(* The point is where two processes may be at the same time.  A graph is   *)
(* ahead of its own operation only after an abort, and then it has failed. *)
(* The subagent's graph runs only inside a delegation of the lead, and     *)
(* what it leaves running keeps the lead from ever starting another one.   *)
(***************************************************************************)
EXTENDS ToolTrace, SequenceTheorems, TLAPS

(* What is owed is what is pending, and between batches that is nothing. *)
CallInv ==
  \A a \in Agents :
    /\ owed[a] = Len(pending[a])
    /\ node[a] \in {"model", "completing"} => owed[a] = 0
    /\ node[a] = "executing" => pending[a] # <<>>

(* An operation has a node that awaits it, or that gave up on it. *)
OpInv ==
  \A a \in Agents :
    op[a] # "idle" => \/ node[a] = "executing"
                      \/ node[a] = "failed" /\ aborted

(* The subagent is at work inside a delegation only.  A tool it leaves     *)
(* behind may outlive the delegation, but then the lead has failed.        *)
SubInv ==
  /\ ~Over("sub") => op["lead"] = "delegating"
  /\ op["sub"] # "idle" => \/ op["lead"] = "delegating"
                           \/ op["lead"] = "idle" /\ node["lead"] = "failed"

(* When the budget is spent, nobody can take or start anything any more.   *)
SpentInv ==
  /\ started <= steps
  /\ started <= MaxSteps
  /\ steps > MaxSteps =>
       /\ Over("sub")
       /\ \/ node["lead"] = "failed" /\ op["lead"] \in {"idle", "delegating"}
          \/ /\ node["lead"] = "executing" /\ op["lead"] = "delegating"
             /\ node["sub"] = "failed"

(* During a delegation the finding is blank until its subagent writes it.  *)
FreshInv == op["lead"] = "delegating" /\ finding # "blank" => fresh

(* An agent whose next step begins a model request or a tool call. *)
MayBegin(a) == node[a] \in {"model", "tools"}

(* When one operation has begun under an aborted signal nobody is about to *)
(* begin another one, nor to delegate.                                     *)
LateInv ==
  /\ late \in {0, 1}
  /\ late = 1 =>
       /\ aborted
       /\ \A a \in Agents : ~ MayBegin(a)
       /\ op["lead"] \notin {"approving", "running"}

Inv == /\ TypeOK /\ CallInv /\ OpInv /\ SubInv /\ SpentInv
       /\ ToolLinesClosed /\ FreshInv /\ LateInv

-----------------------------------------------------------------------------
(* A batch the model asks for is a sequence of that many calls. *)
LEMMA BatchIsSeq ==
  ASSUME NEW a \in Agents, NEW n \in Nat, NEW calls \in [1 .. n -> Kinds(a)]
  PROVE  calls \in Seq(Kinds("lead")) /\ Len(calls) = n
<1>1. calls \in [1 .. n -> Kinds("lead")]
  BY DEF Agents, Kinds
<1>2. calls \in Seq(Kinds("lead"))
  BY <1>1, SeqDef
<1> QED
  BY <1>1, <1>2, LenProperties

(* ModelCallsTools with a batch of n calls. *)
Batch(a, n, calls) ==
  IF n > MaxCalls
  THEN Move(a, "failed") /\ UNCHANGED <<pending, owed>>
  ELSE /\ Move(a, IF n = 0 THEN "done" ELSE "tools")
       /\ pending' = [pending EXCEPT ![a] = calls]
       /\ owed' = [owed EXCEPT ![a] = n]

(* A batch is within the limit of its types. *)
LEMMA BatchTypes ==
  ASSUME TypeOK, NEW a \in Agents, ModelCallsTools(a)
  PROVE  /\ pending' \in [Agents -> Seq(Kinds("lead"))]
         /\ owed' \in [Agents -> 0 .. MaxCalls]
<1>1. PICK n \in 0 .. MaxCalls + 1 :
        \E calls \in [1 .. n -> Kinds(a)] : Batch(a, n, calls)
  BY DEF ModelCallsTools, Batch
<1>2. PICK calls \in [1 .. n -> Kinds(a)] : Batch(a, n, calls)
  BY <1>1
<1>3. n \in Nat
  BY LimitAssumption
<1>4. calls \in Seq(Kinds("lead"))
  BY <1>3, BatchIsSeq
<1>5. CASE n > MaxCalls
  BY <1>2, <1>5 DEF Batch, TypeOK
<1>6. CASE ~(n > MaxCalls)
  <2>1. /\ pending' = [pending EXCEPT ![a] = calls]
        /\ owed' = [owed EXCEPT ![a] = n]
    BY <1>2, <1>6 DEF Batch
  <2>2. n \in 0 .. MaxCalls
    BY <1>3, <1>6, LimitAssumption
  <2> QED
    BY <1>4, <2>1, <2>2 DEF TypeOK
<1> QED
  BY <1>5, <1>6

(* An answered call leaves a shorter batch. *)
LEMMA SettledTypes ==
  ASSUME TypeOK, CallInv, NEW a \in Agents, NEW outcome, Settled(a, outcome)
  PROVE  /\ node' \in [Agents -> Nodes]
         /\ pending' \in [Agents -> Seq(Kinds("lead"))]
         /\ owed' \in [Agents -> 0 .. MaxCalls]
         /\ line' \in {"none", "started", "succeeded", "failed"}
         /\ \A b \in Agents : owed'[b] = Len(pending'[b])
<1>1. CASE UNCHANGED <<pending, owed>>
  BY <1>1 DEF TypeOK, CallInv, Settled, Answered, Threw, Move, Record, Nodes
<1>2. CASE ~ UNCHANGED <<pending, owed>>
  <2>1. /\ node[a] = "executing"
        /\ node' = [node EXCEPT ![a] = "tools"]
        /\ pending' = [pending EXCEPT ![a] = Tail(@)]
        /\ owed' = [owed EXCEPT ![a] = @ - 1]
        /\ line' \in {line, "succeeded", "failed"}
    BY <1>2 DEF Settled, Answered, Threw, Move, Record
  <2>2. pending[a] \in Seq(Kinds("lead")) /\ pending[a] # <<>>
    BY <2>1 DEF TypeOK, CallInv
  <2>3. /\ Tail(pending[a]) \in Seq(Kinds("lead"))
        /\ Len(Tail(pending[a])) = Len(pending[a]) - 1
        /\ Len(Tail(pending[a])) \in Nat
    BY <2>2, HeadTailProperties, LenProperties
  <2>4. owed[a] = Len(pending[a]) /\ owed[a] \in 0 .. MaxCalls
    BY DEF TypeOK, CallInv
  <2>5. owed[a] - 1 \in 0 .. MaxCalls
    BY <2>3, <2>4, LimitAssumption
  <2> QED
    BY <2>1, <2>3, <2>4, <2>5 DEF TypeOK, CallInv, Nodes
<1> QED
  BY <1>1, <1>2

(* Every step keeps the types. *)
LEMMA TypeStep == ASSUME TypeOK, CallInv, SpentInv, Next PROVE TypeOK'
<1> USE LimitAssumption DEF Nodes, Ops, Files
<1>1. ASSUME NEW a \in Agents, ModelNode(a)
      PROVE  TypeOK'
  <2>1. steps < MaxSteps + 1
    BY <1>1 DEF ModelNode, SpentInv, Over, Agents, TypeOK
  <2> QED
    BY <1>1, <2>1 DEF ModelNode, ConsumeStep, Begin, Move, TypeOK, history
<1>2. ASSUME NEW a \in Agents, ModelSettles(a)
      PROVE  TypeOK'
  <2>1. CASE ModelCallsTools(a)
    BY <2>1, BatchTypes DEF ModelCallsTools, Move, TypeOK, history
  <2>2. CASE ModelAnswers(a) \/ ModelFails(a)
    BY <2>2 DEF ModelAnswers, ModelFails, Move, TypeOK, history
  <2> QED
    BY <1>2, <2>1, <2>2 DEF ModelSettles
<1>3. ASSUME NEW a \in Agents, ToolsReturn(a)
      PROVE  TypeOK'
  BY <1>3 DEF ToolsReturn, Move, TypeOK, history
<1>4. ASSUME NEW a \in Agents, NextCall(a)
      PROVE  TypeOK'
  <2>1. steps < MaxSteps + 1
    BY <1>4 DEF NextCall, SpentInv, Over, Agents, TypeOK
  <2>2. /\ steps' = steps + 1
        /\ op' \in {op, [op EXCEPT ![a] = "approving"]}
        /\ \E n \in {"executing", "failed"} : Move(a, n)
        /\ line' \in {line, "started"}
        /\ started' \in {started, started + 1}
        /\ late' \in {late, late + 1}
        /\ UNCHANGED <<pending, owed, aborted, finding, fresh>>
    BY <1>4 DEF NextCall, ConsumeStep, Begin, Record, history
  <2>3. steps' \in 0 .. MaxSteps + 1
    BY <2>1, <2>2 DEF TypeOK
  <2>4. late' \in Nat
    BY <2>2 DEF TypeOK
  <2>5. node' \in [Agents -> Nodes] /\ op' \in [Agents -> Ops]
    BY <2>2 DEF Move, TypeOK
  <2>6. /\ started' \in Nat
        /\ line' \in {"none", "started", "succeeded", "failed"}
    BY <2>2 DEF TypeOK
  <2> QED
    BY <2>2, <2>3, <2>4, <2>5, <2>6 DEF TypeOK
<1>5. ASSUME NEW a \in Agents,
             Rejected(a) \/ Denied(a) \/ ToolSettles(a)
      PROVE  TypeOK'
  <2>1. PICK outcome : Settled(a, outcome)
    BY <1>5 DEF Rejected, Denied, ToolSettles
  <2>2. /\ node' \in [Agents -> Nodes]
        /\ pending' \in [Agents -> Seq(Kinds("lead"))]
        /\ owed' \in [Agents -> 0 .. MaxCalls]
        /\ line' \in {"none", "started", "succeeded", "failed"}
    BY <2>1, SettledTypes
  <2> QED
    BY <1>5, <2>2 DEF Rejected, Denied, ToolSettles, TypeOK, history
<1>6. CASE TaskUndeclared \/ DelegateFails \/ DelegationEnds
  <2>1. PICK outcome : Settled("lead", outcome)
    BY <1>6 DEF TaskUndeclared, DelegateFails, DelegationEnds
  <2>2. /\ node' \in [Agents -> Nodes]
        /\ pending' \in [Agents -> Seq(Kinds("lead"))]
        /\ owed' \in [Agents -> 0 .. MaxCalls]
        /\ line' \in {"none", "started", "succeeded", "failed"}
    BY <2>1, SettledTypes DEF Agents
  <2> QED
    BY <1>6, <2>2
    DEF TaskUndeclared, DelegateFails, DelegationEnds, TypeOK, history
<1>7. CASE Delegate
  <2>1. <<>> \in Seq(Kinds("lead"))
    BY EmptySeq
  <2>2. pending' \in [Agents -> Seq(Kinds("lead"))]
    BY <1>7, <2>1 DEF Delegate, TypeOK
  <2>3. /\ node' \in [Agents -> Nodes] /\ op' \in [Agents -> Ops]
        /\ owed' \in [Agents -> 0 .. MaxCalls]
    <3>1. /\ node' = [node EXCEPT !["sub"] = "model"]
          /\ op' = [op EXCEPT !["lead"] = "delegating"]
          /\ owed' = [owed EXCEPT !["sub"] = 0]
      BY <1>7 DEF Delegate, Move
    <3>2. 0 \in 0 .. MaxCalls
      BY LimitAssumption
    <3> QED
      BY <3>1, <3>2 DEF TypeOK
  <2>4. finding' \in Files /\ fresh' \in BOOLEAN
        /\ UNCHANGED <<steps, aborted, line, started, late>>
    BY <1>7 DEF Delegate, history
  <2> QED
    BY <2>2, <2>3, <2>4 DEF TypeOK
<1>8. ASSUME NEW a \in Agents, Approve(a) \/ GiveUp(a)
      PROVE  TypeOK'
  BY <1>8 DEF Approve, GiveUp, Threw, Move, Record, TypeOK, history
<1>9. CASE Abort
  BY <1>9 DEF Abort, TypeOK, history
<1> QED
  BY <1>1, <1>2, <1>3, <1>4, <1>5, <1>6, <1>7, <1>8, <1>9
  DEF Next, GraphStep, OpSettles

(* Every call of a batch is pending until its answer is paid.              *)
LEMMA CallStep == ASSUME TypeOK, CallInv, Next PROVE CallInv'
<1> USE DEF TypeOK
<1>1. ASSUME NEW a \in Agents, ModelCallsTools(a)
      PROVE  CallInv'
  <2>1. PICK n \in 0 .. MaxCalls + 1 :
          \E calls \in [1 .. n -> Kinds(a)] : Batch(a, n, calls)
    BY <1>1 DEF ModelCallsTools, Batch
  <2>2. PICK calls \in [1 .. n -> Kinds(a)] : Batch(a, n, calls)
    BY <2>1
  <2>3. n \in Nat
    BY LimitAssumption
  <2>4. Len(calls) = n
    BY <2>3, BatchIsSeq
  <2> QED
    BY <2>2, <2>3, <2>4 DEF Batch, CallInv, Move
<1>2. ASSUME NEW a \in Agents,
             ModelNode(a) \/ ModelAnswers(a) \/ ModelFails(a)
      PROVE  CallInv'
  BY <1>2 DEF ModelNode, ModelAnswers, ModelFails, Move, CallInv
<1>3. ASSUME NEW a \in Agents, ToolsReturn(a)
      PROVE  CallInv'
  <2>1. Len(pending[a]) = 0
    BY <1>3, EmptySeq DEF ToolsReturn
  <2> QED
    BY <1>3, <2>1 DEF ToolsReturn, Move, CallInv
<1>4. ASSUME NEW a \in Agents, NextCall(a)
      PROVE  CallInv'
  BY <1>4 DEF NextCall, Move, CallInv
<1>5. ASSUME NEW a \in Agents, NEW outcome, Settled(a, outcome)
      PROVE  CallInv'
  <2>1. \A b \in Agents : owed'[b] = Len(pending'[b])
    BY <1>5, SettledTypes
  <2> QED
    BY <1>5, <2>1 DEF Settled, Answered, Threw, Move, CallInv
<1>6. ASSUME NEW a \in Agents,
             Rejected(a) \/ Denied(a) \/ ToolSettles(a)
      PROVE  CallInv'
  BY <1>5, <1>6 DEF Rejected, Denied, ToolSettles
<1>7. CASE TaskUndeclared \/ DelegateFails \/ DelegationEnds
  BY <1>5, <1>7 DEF TaskUndeclared, DelegateFails, DelegationEnds, Agents
<1>8. CASE Delegate
  BY <1>8, EmptySeq DEF Delegate, Move, CallInv
<1>9. ASSUME NEW a \in Agents, Approve(a) \/ GiveUp(a)
      PROVE  CallInv'
  BY <1>9 DEF Approve, GiveUp, Threw, Move, CallInv
<1>10. CASE Abort
  BY <1>10 DEF Abort, CallInv
<1> QED
  BY <1>1, <1>2, <1>3, <1>4, <1>6, <1>7, <1>8, <1>9, <1>10
  DEF Next, GraphStep, ModelSettles, OpSettles

-----------------------------------------------------------------------------
(* Where the nodes and the operations of the two agents may be together.   *)
Places == OpInv /\ SubInv /\ SpentInv /\ ToolLinesClosed /\ FreshInv

LEMMA PlacesStep == ASSUME TypeOK, Places, Next PROVE Places'
<1> USE LimitAssumption
    DEF TypeOK, Places, OpInv, SubInv, SpentInv, ToolLinesClosed, FreshInv,
        Over, Agents
<1>1. ASSUME NEW a \in Agents, ModelNode(a)
      PROVE  Places'
  <2>1. /\ node[a] = "model"
        /\ steps' = steps + 1
        /\ UNCHANGED <<op, aborted, finding, fresh, line>>
    BY <1>1 DEF ModelNode, ConsumeStep
  <2>2. \/ /\ steps + 1 <= MaxSteps
           /\ Move(a, "completing")
           /\ started' = started + 1
        \/ Move(a, "failed") /\ UNCHANGED started
    BY <1>1 DEF ModelNode, ConsumeStep, Begin, history
  <2> QED
    BY <2>1, <2>2 DEF Move
<1>2. ASSUME NEW a \in Agents, ModelSettles(a)
      PROVE  Places'
  <2>1. PICK n \in {"done", "tools", "failed"} : Move(a, n)
    BY <1>2 DEF ModelSettles, ModelAnswers, ModelCallsTools, ModelFails
  <2>2. /\ node[a] = "completing"
        /\ UNCHANGED <<op, steps, aborted, finding, fresh, line, history>>
    BY <1>2 DEF ModelSettles, ModelAnswers, ModelCallsTools, ModelFails
  <2> QED
    BY <2>1, <2>2 DEF Move, history
<1>3. ASSUME NEW a \in Agents, ToolsReturn(a)
      PROVE  Places'
  BY <1>3 DEF ToolsReturn, Move, history
<1>4. ASSUME NEW a \in Agents, NextCall(a)
      PROVE  Places'
  <2>1. /\ node[a] = "tools"
        /\ steps' = steps + 1
        /\ UNCHANGED <<aborted, finding, fresh>>
    BY <1>4 DEF NextCall, ConsumeStep
  <2>2. \/ /\ steps + 1 <= MaxSteps
           /\ Move(a, "executing")
           /\ Record(a, "started")
           /\ started' = started + 1
           /\ op' \in {op, [op EXCEPT ![a] = "approving"]}
        \/ Move(a, "failed") /\ UNCHANGED <<line, started, op>>
    BY <1>4 DEF NextCall, ConsumeStep, Begin, history
  <2> QED
    BY <2>1, <2>2 DEF Move, Record
<1>5. ASSUME NEW a \in Agents, Rejected(a)
      PROVE  Places'
  BY <1>5 DEF Rejected, Settled, Answered, Threw, Move, Record, history
<1>6. ASSUME NEW a \in Agents, Denied(a)
      PROVE  Places'
  BY <1>6 DEF Denied, Settled, Answered, Threw, Move, Record, history
<1>7. ASSUME NEW a \in Agents, ToolSettles(a)
      PROVE  Places'
  <2>1. /\ op[a] = "running" /\ op' = [op EXCEPT ![a] = "idle"]
        /\ UNCHANGED <<steps, started, aborted>>
    BY <1>7 DEF ToolSettles, history
  <2>2. fresh' = (fresh \/ (a = "sub" /\ finding' # finding))
    BY <1>7 DEF ToolSettles
  <2>3. \/ UNCHANGED <<node, line>>
        \/ \E n \in {"failed", "tools"}, l \in {"succeeded", "failed"} :
             node[a] = "executing" /\ Move(a, n) /\ Record(a, l)
    BY <1>7 DEF ToolSettles, Settled, Answered, Threw
  <2> QED
    BY <2>1, <2>2, <2>3 DEF Move, Record
<1>8. CASE TaskUndeclared \/ DelegateFails
  BY <1>8 DEF TaskUndeclared, DelegateFails, Settled, Answered, Threw, Move,
              Record, history
<1>9. CASE Delegate
  BY <1>9 DEF Delegate, Move, history
<1>10. CASE DelegationEnds
  BY <1>10 DEF DelegationEnds, Settled, Answered, Threw, Move, Record, history
<1>11. ASSUME NEW a \in Agents, Approve(a)
       PROVE  Places'
  BY <1>11 DEF Approve, history
<1>12. ASSUME NEW a \in Agents, GiveUp(a)
       PROVE  Places'
  BY <1>12 DEF GiveUp, Threw, Move, Record, history
<1>13. CASE Abort
  BY <1>13 DEF Abort, history
<1> QED
  BY <1>1, <1>2, <1>3, <1>4, <1>5, <1>6, <1>7, <1>8, <1>9, <1>10, <1>11,
     <1>12, <1>13
  DEF Next, GraphStep, OpSettles

(* Who is about to begin an operation is the only one: the lead is between *)
(* two operations when no subagent runs, and awaits its own otherwise.     *)
LEMMA OneBegins ==
  ASSUME OpInv, SubInv, NEW a \in Agents, MayBegin(a)
  PROVE  /\ \A b \in Agents : b # a => ~ MayBegin(b)
         /\ op["lead"] \notin {"approving", "running"}
BY DEF OpInv, SubInv, MayBegin, Over, Agents

(* Under an aborted signal only one operation begins. *)
LEMMA LateStep == ASSUME TypeOK, OpInv, SubInv, LateInv, Next PROVE LateInv'
<1> USE DEF TypeOK, MayBegin, Agents
<1>1. ASSUME NEW a \in Agents, ModelNode(a) \/ NextCall(a)
      PROVE  LateInv'
  <2>1. /\ MayBegin(a) /\ UNCHANGED aborted
        /\ late' \in {late, IF aborted THEN late + 1 ELSE late}
        /\ \E n \in {"completing", "executing", "failed"} : Move(a, n)
        /\ op' = op \/ (~ aborted /\ op' = [op EXCEPT ![a] = "approving"])
    BY <1>1 DEF ModelNode, NextCall, Begin, history
  <2>2. late = 0
    BY <2>1 DEF LateInv
  <2>3. /\ \A b \in Agents : b # a => ~ MayBegin(b)
        /\ op["lead"] \notin {"approving", "running"}
    BY <2>1, OneBegins
  <2>4. CASE aborted
    <3>1. /\ late' \in {0, 1} /\ aborted' /\ op' = op
      BY <2>1, <2>2, <2>4
    <3>2. \A b \in Agents : ~ MayBegin(b)'
      BY <2>1, <2>3 DEF Move
    <3> QED
      BY <2>3, <3>1, <3>2 DEF LateInv
  <2>5. CASE ~ aborted
    BY <2>1, <2>2, <2>5 DEF LateInv
  <2> QED
    BY <2>4, <2>5
<1>2. ASSUME NEW a \in Agents,
             ModelSettles(a) \/ ToolsReturn(a) \/ Rejected(a) \/ GiveUp(a)
      PROVE  LateInv'
  BY <1>2 DEF ModelSettles, ModelAnswers, ModelCallsTools, ModelFails, LateInv,
              ToolsReturn, Rejected, Settled, GiveUp, Threw, Move, history
<1>3. ASSUME NEW a \in Agents, Approve(a) \/ Denied(a) \/ ToolSettles(a)
      PROVE  LateInv'
  <2>1. /\ UNCHANGED <<aborted, late>>
        /\ \E o \in {"running", "idle"} : op' = [op EXCEPT ![a] = o]
        /\ op' = [op EXCEPT ![a] = "running"] => op[a] = "approving"
        /\ aborted => node' \in {node, [node EXCEPT ![a] = "failed"]}
    BY <1>3 DEF Approve, Denied, ToolSettles, Settled, Threw, Move, history
  <2> QED
    BY <2>1 DEF LateInv
<1>4. CASE TaskUndeclared \/ Delegate \/ DelegateFails
  <2>1. op["lead"] = "running" /\ UNCHANGED late
    BY <1>4 DEF TaskUndeclared, Delegate, DelegateFails, history
  <2>2. late = 0
    BY <2>1 DEF LateInv
  <2> QED
    BY <2>1, <2>2 DEF LateInv
<1>5. CASE DelegationEnds
  <2>1. /\ UNCHANGED <<aborted, late>> /\ op' = [op EXCEPT !["lead"] = "idle"]
        /\ aborted => node' \in {node, [node EXCEPT !["lead"] = "failed"]}
    BY <1>5 DEF DelegationEnds, Settled, Threw, Move, history
  <2> QED
    BY <2>1 DEF LateInv
<1>6. CASE Abort
  BY <1>6 DEF Abort, LateInv, history
<1> QED
  BY <1>1, <1>2, <1>3, <1>4, <1>5, <1>6 DEF Next, GraphStep, OpSettles

-----------------------------------------------------------------------------
(* A turn starts with the lead's model node and a full budget. *)
LEMMA InitInv == Init => Inv
<1> SUFFICES ASSUME Init PROVE Inv
  OBVIOUS
<1>1. TypeOK
  <2>1. <<>> \in Seq(Kinds("lead"))
    BY EmptySeq
  <2>2. pending \in [Agents -> Seq(Kinds("lead"))]
    BY <2>1 DEF Init
  <2>3. node \in [Agents -> Nodes] /\ op \in [Agents -> Ops]
    BY DEF Init, Nodes, Ops
  <2>4. steps \in 0 .. MaxSteps + 1 /\ owed \in [Agents -> 0 .. MaxCalls]
    BY LimitAssumption DEF Init
  <2>5. /\ aborted \in BOOLEAN /\ finding \in Files /\ fresh \in BOOLEAN
        /\ line \in {"none", "started", "succeeded", "failed"}
        /\ started \in Nat /\ late \in Nat
    BY DEF Init, Files
  <2> QED
    BY <2>2, <2>3, <2>4, <2>5 DEF TypeOK
<1>2. CallInv
  BY EmptySeq DEF Init, CallInv, Agents
<1>3. Places
  BY LimitAssumption
  DEF Init, Places, OpInv, SubInv, SpentInv, ToolLinesClosed, FreshInv, Over,
      Agents
<1>4. LateInv
  BY DEF Init, LateInv
<1> QED
  BY <1>1, <1>2, <1>3, <1>4 DEF Inv, Places

(* The invariant is inductive. *)
LEMMA InvStep == Inv /\ [Next]_vars => Inv'
<1> SUFFICES ASSUME Inv, [Next]_vars PROVE Inv'
  OBVIOUS
<1>1. CASE Next
  BY <1>1, TypeStep, CallStep, PlacesStep, LateStep DEF Inv, Places
<1>2. CASE UNCHANGED vars
  BY <1>2 DEF vars, Inv, TypeOK, CallInv, OpInv, SubInv, SpentInv,
              ToolLinesClosed, FreshInv, LateInv, MayBegin, Over
<1> QED
  BY <1>1, <1>2

LEMMA InvHolds == Spec => []Inv
BY InitInv, InvStep, PTL DEF Spec

(* Lead and subagent together never go beyond the step budget of the turn: *)
(* consumeStep in compile-graph.ts.                                        *)
THEOREM BudgetIsKept == Spec => []BudgetHolds
<1>1. Inv => BudgetHolds
  BY LimitAssumption DEF Inv, TypeOK, SpentInv, BudgetHolds
<1> QED
  BY <1>1, InvHolds, PTL

(* The model is never asked again while a tool call has no answer. *)
THEOREM CallsAreAnswered == Spec => []EveryCallAnswered
<1>1. Inv => EveryCallAnswered
  BY DEF Inv, CallInv, EveryCallAnswered
<1> QED
  BY <1>1, InvHolds, PTL

(* No turn ends with an open tool line in the transcript. *)
THEOREM LinesAreClosed == Spec => []ToolLinesClosed
<1>1. Inv => ToolLinesClosed
  BY DEF Inv
<1> QED
  BY <1>1, InvHolds, PTL

(* A turn nobody aborted leaves no subagent and no tool behind. *)
THEOREM NothingIsLeft == Spec => []NothingOutlivesTurn
<1>1. Inv => NothingOutlivesTurn
  BY DEF Inv, OpInv, SubInv, NothingOutlivesTurn, Over, Agents
<1> QED
  BY <1>1, InvHolds, PTL

(* An abort is followed by one more model request or tool call at most,    *)
(* the lead's or the subagent's: withSignal and the two nodes.             *)
THEOREM AbortIsLast == Spec => []AbortAdmitsOne
<1>1. Inv => AbortAdmitsOne
  BY DEF Inv, LateInv, AbortAdmitsOne
<1> QED
  BY <1>1, InvHolds, PTL

(* No delegation succeeds with the finding of an earlier one. *)
THEOREM FindingsAreFresh == Spec => FindingIsFresh
<1> DEFINE Used == op["lead"] = "delegating" /\ node["lead"] = "executing"
                    /\ node'["lead"] = "tools"
<1>1. Inv /\ [Next]_vars => [Used => fresh]_vars
  <2> SUFFICES ASSUME Inv, Next, Used PROVE fresh
    OBVIOUS
  <2> USE DEF Inv, TypeOK, SubInv, FreshInv, OpInv, Over, Agents
  <2>1. CASE DelegationEnds
    BY <2>1 DEF DelegationEnds, Settled, Answered, Threw, Move
  <2>2. ASSUME NEW a \in Agents, ModelNode(a) PROVE fresh
    BY <2>2 DEF ModelNode, Move
  <2>3. ASSUME NEW a \in Agents, ModelSettles(a) PROVE fresh
    BY <2>3 DEF ModelSettles, ModelAnswers, ModelCallsTools, ModelFails, Move
  <2>4. ASSUME NEW a \in Agents,
               ToolsReturn(a) \/ NextCall(a) \/ Approve(a) \/ GiveUp(a)
        PROVE  fresh
    BY <2>4 DEF ToolsReturn, NextCall, Approve, GiveUp, Threw, Move
  <2>5. ASSUME NEW a \in Agents, Rejected(a) \/ Denied(a) \/ ToolSettles(a)
        PROVE  fresh
    BY <2>5 DEF Rejected, Denied, ToolSettles, Settled, Answered, Threw, Move
  <2>6. CASE TaskUndeclared \/ Delegate \/ DelegateFails \/ Abort
    BY <2>6 DEF TaskUndeclared, Delegate, DelegateFails, Abort
  <2> QED
    BY <2>1, <2>2, <2>3, <2>4, <2>5, <2>6 DEF Next, GraphStep, OpSettles
<1> QED
  BY <1>1, InvHolds, PTL DEF Spec, FindingIsFresh

-----------------------------------------------------------------------------
(* The types of the harness are an invariant: in particular no batch is    *)
(* over its limit and no counter over its bound.                           *)
THEOREM HarnessTypes == Spec => []TypeOK
<1>1. Inv => TypeOK
  BY DEF Inv
<1> QED
  BY <1>1, InvHolds, PTL

-----------------------------------------------------------------------------
(* Tracing.  A step of ToolTrace is a step of Harness. *)
LEMMA TracedStep == ASSUME [TraceNext]_traced PROVE [Next]_vars
<1>1. ASSUME NEW a \in Agents, TraceStart(a) \/ TraceEnd(a) \/ Untraced(a)
      PROVE  Next
  BY <1>1 DEF TraceStart, TraceEnd, Untraced, Next, GraphStep, OpSettles
<1>2. ASSUME TraceDelegate PROVE Next
  BY <1>2 DEF TraceDelegate, Next, OpSettles, Agents
<1> QED
  BY <1>1, <1>2 DEF TraceNext, Next, traced

(* Notifying the hook changes nothing of the turn, so that every theorem   *)
(* about Spec holds of a turn that is traced.                              *)
THEOREM TracingIsPassive == TraceSpec => Spec
<1>1. TraceInit => Init
  BY DEF TraceInit
<1> QED
  BY <1>1, TracedStep, PTL DEF TraceSpec, Spec

TraceTypes ==
  /\ callId \in [Agents -> Ids \cup {"none"}]
  /\ startedAt \in [Ids -> Agents \cup {"none"}]
  /\ nested \subseteq Ids
  /\ \A a \in Agents : op[a] # "idle" => callId[a] \in Ids

(* Whose start is kept for the calls that run.  The id of a delegation may *)
(* be used again inside it, and then it is kept for that call or not at    *)
(* all.                                                                    *)
KeptInv ==
  /\ op["sub"] # "idle" =>
       /\ startedAt[callId["sub"]] = "sub"
       /\ callId["sub"] \in nested
  /\ op["lead"] \in {"approving", "running"} =>
       startedAt[callId["lead"]] = "lead"
  /\ op["lead"] = "delegating" =>
       IF callId["lead"] \in nested
       THEN \/ startedAt[callId["lead"]] = "none"
            \/ op["sub"] # "idle" /\ callId["sub"] = callId["lead"]
       ELSE startedAt[callId["lead"]] = "lead"

TraceInv == TraceTypes /\ (~ aborted => KeptInv)

LEMMA TraceInitInv == TraceInit => TraceInv
BY IdAssumption DEF TraceInit, Init, TraceInv, TraceTypes, KeptInv, Agents

(* While nobody has aborted, the subagent's tools run inside a delegation, *)
(* and an agent between two calls runs none.                               *)
LEMMA WhoRuns ==
  ASSUME Inv, ~ aborted
  PROVE  /\ op["sub"] # "idle" =>
              op["lead"] = "delegating" /\ node["sub"] = "executing"
         /\ \A a \in Agents : node[a] = "tools" => op[a] = "idle"
         /\ node["sub"] = "tools" => op["lead"] = "delegating"
BY DEF Inv, OpInv, SubInv, Over, Agents

(* A call that begins is kept under its id. *)
LEMMA StartKept ==
  ASSUME Inv, TraceInv, NEW a \in Agents, TraceStart(a)
  PROVE  TraceInv'
<1> USE DEF Inv, TypeOK, Agents, Ops
<1>1. /\ node[a] = "tools" /\ UNCHANGED aborted
      /\ op' \in {op, [op EXCEPT ![a] = "approving"]}
  BY DEF TraceStart, NextCall, history
<1>2. CASE node'[a] # "executing"
  <2>1. UNCHANGED <<trace, op>>
    BY <1>2 DEF TraceStart, NextCall, Move
  <2> QED
    BY <1>1, <2>1 DEF TraceInv, TraceTypes, KeptInv, trace
<1>3. CASE node'[a] = "executing"
  <2>1. PICK i \in Ids :
          /\ callId' = [callId EXCEPT ![a] = i]
          /\ startedAt' = [startedAt EXCEPT ![i] =
                             IF op'[a] = "approving" THEN a ELSE "none"]
          /\ nested' = IF a = "sub" THEN nested \cup {i} ELSE nested
    BY <1>3 DEF TraceStart, Keep
  <2>2. TraceTypes'
    BY <1>1, <2>1 DEF TraceInv, TraceTypes
  <2>3. ASSUME ~ aborted PROVE KeptInv'
    <3>1. op[a] = "idle" /\ op["sub"] # "idle" => op["lead"] = "delegating"
      BY <1>1, <2>3, WhoRuns
    <3>2. CASE a = "lead"
      <4>1. op["lead"] = "idle" /\ op["sub"] = "idle"
        BY <1>1, <2>3, <3>2, WhoRuns
      <4> QED
        BY <1>1, <2>1, <3>2, <4>1 DEF TraceInv, TraceTypes, KeptInv
    <3>3. CASE a = "sub"
      <4>1. op["sub"] = "idle" /\ op["lead"] = "delegating"
        BY <1>1, <2>3, <3>3, WhoRuns
      <4> QED
        BY <1>1, <2>1, <2>3, <3>3, <4>1 DEF TraceInv, TraceTypes, KeptInv
    <3> QED
      BY <3>2, <3>3
  <2> QED
    BY <1>1, <2>2, <2>3 DEF TraceInv
<1> QED
  BY <1>2, <1>3

(* The calls that may end, and how.  *)
LEMMA EndsOne ==
  ASSUME Inv, NEW a \in Agents, TraceEnd(a)
  PROVE  /\ op' = [op EXCEPT ![a] = "idle"]
         /\ op[a] # "idle"
         /\ UNCHANGED aborted
         /\ op["lead"] = "delegating" /\ a = "lead" /\ ~ aborted =>
              op["sub"] = "idle"
<1>1. CASE Denied(a) \/ ToolSettles(a)
  BY <1>1 DEF Denied, ToolSettles, history
<1>2. CASE a = "lead" /\ (TaskUndeclared \/ DelegateFails)
  BY <1>2 DEF TaskUndeclared, DelegateFails, history
<1>3. CASE a = "lead" /\ DelegationEnds
  BY <1>3 DEF DelegationEnds, history, Inv, OpInv, Agents
<1> QED
  BY <1>1, <1>2, <1>3 DEF TraceEnd

(* A call that ends takes its start with it. *)
LEMMA EndKept ==
  ASSUME Inv, TraceInv, NEW a \in Agents, TraceEnd(a)
  PROVE  TraceInv'
<1> USE DEF Inv, TypeOK, Agents
<1>1. /\ callId[a] \in Ids
      /\ startedAt' = [startedAt EXCEPT ![callId[a]] = "none"]
      /\ UNCHANGED <<callId, nested>>
  BY EndsOne DEF TraceEnd, Finished, Keep, TraceInv, TraceTypes
<1>2. TraceTypes'
  BY <1>1, EndsOne DEF TraceInv, TraceTypes
<1>3. ASSUME ~ aborted PROVE KeptInv'
  <2>1. CASE a = "lead"
    <3>1. op["sub"] = "idle"
      BY <1>3, <2>1, EndsOne, WhoRuns
    <3> QED
      BY <1>1, <2>1, <3>1, EndsOne DEF KeptInv
  <2>2. CASE a = "sub"
    <3>1. op["lead"] = "delegating"
      BY <1>3, <2>2, EndsOne, WhoRuns
    <3> QED
      BY <1>1, <1>3, <2>2, <3>1, EndsOne DEF TraceInv, TraceTypes, KeptInv
  <2> QED
    BY <2>1, <2>2
<1> QED
  BY <1>2, <1>3, EndsOne DEF TraceInv

(* The other steps notify nobody, and start and end no call. *)
LEMMA UntracedKept ==
  ASSUME Inv, TraceInv, NEW a \in Agents, Untraced(a)
  PROVE  TraceInv'
<1> USE DEF Inv, TypeOK, Agents
<1>1. UNCHANGED <<trace, aborted>>
  BY DEF Untraced, ModelNode, ToolsReturn, Rejected, GiveUp, ModelSettles,
         ModelAnswers, ModelCallsTools, ModelFails, Approve
<1>2. CASE Approve(a)
  BY <1>1, <1>2 DEF Approve, TraceInv, TraceTypes, KeptInv, trace
<1>3. CASE ~ Approve(a)
  <2>1. UNCHANGED op
    BY <1>3 DEF Untraced, ModelNode, ToolsReturn, Rejected, GiveUp,
            ModelSettles, ModelAnswers, ModelCallsTools, ModelFails
  <2> QED
    BY <1>1, <2>1 DEF TraceInv, TraceTypes, KeptInv, trace
<1> QED
  BY <1>2, <1>3

LEMMA TraceInvStep == ASSUME Inv, TraceInv, [TraceNext]_traced PROVE TraceInv'
<1> USE DEF Inv, TypeOK, Agents
<1>1. CASE TraceDelegate
  <2>1. /\ op["lead"] = "running"
        /\ op' = [op EXCEPT !["lead"] = "delegating"]
        /\ nested' = {} /\ UNCHANGED <<callId, startedAt, aborted>>
    BY <1>1 DEF TraceDelegate, Delegate
  <2>2. TraceTypes'
    BY <2>1 DEF TraceInv, TraceTypes
  <2>3. ~ aborted => KeptInv'
    BY <2>1, WhoRuns DEF TraceInv, KeptInv
  <2> QED
    BY <2>1, <2>2, <2>3 DEF TraceInv
<1>2. CASE Abort /\ UNCHANGED trace
  BY <1>2 DEF Abort, TraceInv, TraceTypes, trace
<1>3. CASE UNCHANGED traced
  BY <1>3 DEF traced, trace, vars, TraceInv, TraceTypes, KeptInv
<1> QED
  BY <1>1, <1>2, <1>3, StartKept, EndKept, UntracedKept DEF TraceNext

LEMMA TraceInvHolds == TraceSpec => [](Inv /\ TraceInv)
BY TracingIsPassive, InvHolds, TraceInitInv, TraceInvStep, PTL DEF TraceSpec

(* SpansAreOwn: a tool call's duration is its own or is left out, although *)
(* lead and subagent keep their starts in one map by ids that the model    *)
(* chooses (createToolTraceHook in jsonl-sink.ts).                         *)
THEOREM DurationsAreOwn == TraceSpec => SpansAreOwn
<1> DEFINE Own(a) ==
      startedAt[callId[a]] =
        IF a = "lead" /\ op[a] = "delegating" /\ callId[a] \in nested
        THEN "none" ELSE a
<1>1. ASSUME Inv, TraceInv, TraceNext, NEW a \in Agents, Finishes(a), ~ aborted
      PROVE  Own(a)
  <2> USE DEF Inv, TypeOK, Agents, Ops
  <2>1. TraceEnd(a)
    <3>1. ~ Untraced(a)
      BY <1>1 DEF Finishes, Untraced, ModelNode, ToolsReturn, Rejected, GiveUp,
             ModelSettles, ModelAnswers, ModelCallsTools, ModelFails, Approve
    <3>2. ~ TraceStart(a)
      BY <1>1 DEF Finishes, TraceStart, NextCall
    <3>3. ~ TraceDelegate /\ ~ Abort
      BY <1>1 DEF Finishes, TraceDelegate, Delegate, Abort
    <3>4. ASSUME NEW b \in Agents, b # a,
                 TraceStart(b) \/ TraceEnd(b) \/ Untraced(b)
          PROVE  FALSE
      <4>1. op'[a] = op[a]
        <5>1. CASE TraceStart(b)
          <6>1. op' \in {op, [op EXCEPT ![b] = "approving"]}
            BY <5>1 DEF TraceStart, NextCall
          <6> QED
            BY <1>1, <3>4, <6>1
        <5>2. CASE TraceEnd(b)
          BY <1>1, <3>4, <5>2, EndsOne
        <5>3. CASE Untraced(b)
          <6>1. op' \in {op, [op EXCEPT ![b] = "running"]}
            BY <5>3 DEF Untraced, ModelNode, ToolsReturn, Rejected, GiveUp,
               ModelSettles, ModelAnswers, ModelCallsTools, ModelFails, Approve
          <6> QED
            BY <1>1, <3>4, <6>1
        <5> QED
          BY <3>4, <5>1, <5>2, <5>3
      <4> QED
        BY <1>1, <4>1 DEF Finishes
    <3> QED
      BY <1>1, <3>1, <3>2, <3>3, <3>4 DEF TraceNext
  <2>2. KeptInv
    BY <1>1 DEF TraceInv
  <2>3. CASE a = "sub"
    BY <1>1, <2>2, <2>3 DEF Finishes, KeptInv
  <2>4. CASE a = "lead"
    BY <1>1, <2>1, <2>2, <2>4, EndsOne DEF Finishes, KeptInv
  <2> QED
    BY <2>3, <2>4
<1> HIDE DEF Own
<1>2. Inv /\ TraceInv /\ [TraceNext]_traced =>
        [\A a \in Agents : Finishes(a) /\ ~ aborted => Own(a)]_traced
  BY <1>1
<1> QED
  BY <1>2, TraceInvHolds, PTL DEF TraceSpec, SpansAreOwn, Own
=============================================================================

------------------------------ MODULE RunProofs ------------------------------
(***************************************************************************)
(* Proofs about SessionRun for any number of turns, tool lines and codes.  *)
(*                                                                         *)
(* Where runAgent is tells how the graph of the current turn ended and     *)
(* which lines the turn may have written; whatever a failing write leaves  *)
(* out, nothing else is ever put in its place.                             *)
(***************************************************************************)
EXTENDS SessionRun, SequenceTheorems, TLAPS

AllTurns == 1 .. Turns
Lines    == [turn : AllTurns, event : Events]

Before == {"load", "recordStarted", "setRunning", "invoke"}
Well   == {"recordAnswer", "recordSucceeded", "setSucceeded"}
Badly  == {"recordFailed", "setFailed"}

(* Turns to come are untouched, and the current one has no outcome yet.    *)
TurnInv ==
  /\ \A t \in AllTurns : t > turn => graph[t] = "none" /\ outcome[t] = "none"
  /\ pc # "idle" => turn > 0 /\ outcome[turn] = "none"

(* What runAgent does next depends on how the graph ended. *)
GraphInv ==
  /\ pc \in Before => graph[turn] = "none"
  /\ pc \in Well   => graph[turn] = "ok"
  /\ pc \in Badly  => graph[turn] = "failed"

(* The lines the current turn may have written when it is at step p.       *)
Written(p) ==
  CASE p \in {"load", "recordStarted"} -> {}
    [] p = "setRunning" -> {"started"}
    [] p \in {"invoke", "recordAnswer", "recordFailed"} -> {"started", "tool"}
    [] p = "recordSucceeded" -> {"started", "tool", "assistant"}
    [] OTHER -> Events

LinesInv ==
  \A i \in 1 .. Len(transcript) :
    /\ transcript[i].turn <= turn
    /\ transcript[i].turn = turn =>
         transcript[i].event \in Written(pc) \cup {"torn"}

Inv == /\ TypeOK /\ TurnInv /\ GraphInv /\ OutcomeIsGraphs /\ StatusHappened
       /\ StatusIsLastOutcome /\ LinesInv /\ TranscriptInOrder

-----------------------------------------------------------------------------
(* Nothing has happened when the session has just been accepted. *)
LEMMA InitInv == Init => Inv
<1> SUFFICES ASSUME Init PROVE Inv
  OBVIOUS
<1>1. transcript = <<>> /\ Len(transcript) = 0
  BY DEF Init
<1>2. TypeOK
  <2>1. transcript \in Seq([turn : 1 .. Turns, event : Events])
    BY <1>1, EmptySeq
  <2> QED
    BY <2>1, TurnAssumption DEF Init, TypeOK, Steps, Ends, States
<1>3. LinesInv /\ TranscriptInOrder
  BY <1>1 DEF LinesInv, TranscriptInOrder
<1>4. TurnInv /\ GraphInv /\ OutcomeIsGraphs
  BY TurnAssumption
  DEF Init, TurnInv, GraphInv, OutcomeIsGraphs, Before, Well, Badly, AllTurns
<1>5. StatusHappened /\ StatusIsLastOutcome
  BY DEF Init, StatusHappened, StatusIsLastOutcome
<1> QED
  BY <1>2, <1>3, <1>4, <1>5 DEF Inv

(* The lines are typed one by one. *)
LEMMA LineTypes ==
  ASSUME TypeOK
  PROVE  /\ transcript \in Seq(Lines)
         /\ Len(transcript) \in Nat
         /\ \A i \in 1 .. Len(transcript) : transcript[i].turn \in Nat
<1>1. transcript \in Seq(Lines)
  BY DEF TypeOK, Lines, AllTurns
<1>2. Len(transcript) \in Nat
  BY <1>1, LenProperties
<1>3. ASSUME NEW i \in 1 .. Len(transcript)
      PROVE  transcript[i].turn \in Nat
  <2>1. transcript[i] \in Lines
    BY <1>1, ElementOfSeq
  <2> QED
    BY <2>1, TurnAssumption DEF Lines, AllTurns
<1> QED
  BY <1>1, <1>2, <1>3

(* An append adds one line of the current turn, if it adds any. *)
LEMMA AppendCases ==
  ASSUME TypeOK, turn > 0, NEW e \in Events, AppendTranscript(e)
  PROVE  /\ transcript' \in Seq(Lines)
         /\ skipped' \in {skipped, skipped \cup {turn}}
         /\ \/ transcript' = transcript
            \/ /\ Len(transcript') = Len(transcript) + 1
               /\ \A i \in 1 .. Len(transcript) : transcript'[i] = transcript[i]
               /\ transcript'[Len(transcript) + 1].turn = turn
               /\ transcript'[Len(transcript) + 1].event \in {e, "torn"}
<1>1. transcript \in Seq(Lines)
  BY DEF TypeOK, Lines, AllTurns
<1>2. skipped' \in {skipped, skipped \cup {turn}}
  BY DEF AppendTranscript
<1>3. CASE transcript' = transcript
  BY <1>1, <1>2, <1>3
<1>4. CASE \E f \in {e, "torn"} :
             transcript' = Append(transcript, [turn |-> turn, event |-> f])
  <2>1. PICK f \in {e, "torn"} :
          transcript' = Append(transcript, [turn |-> turn, event |-> f])
    BY <1>4
  <2>2. [turn |-> turn, event |-> f] \in Lines
    BY TurnAssumption DEF TypeOK, Lines, AllTurns, Events
  <2>3. /\ transcript' \in Seq(Lines)
        /\ Len(transcript') = Len(transcript) + 1
        /\ \A i \in 1 .. Len(transcript) : transcript'[i] = transcript[i]
        /\ transcript'[Len(transcript) + 1] = [turn |-> turn, event |-> f]
    BY <1>1, <2>1, <2>2, AppendProperties
  <2> QED
    BY <1>2, <2>3
<1> QED
  BY <1>3, <1>4 DEF AppendTranscript

(* Every step keeps the types. *)
LEMMA TypeStep == ASSUME TypeOK, TurnInv, Next PROVE TypeOK'
<1> USE TurnAssumption DEF Steps, Ends, States, Goto, Settle
<1>1. ASSUME NEW e \in Events, turn > 0, AppendTranscript(e)
      PROVE  /\ transcript' \in Seq([turn : 1 .. Turns, event : Events])
             /\ skipped' \subseteq 1 .. Turns
  <2>1. /\ transcript' \in Seq(Lines)
        /\ skipped' \in {skipped, skipped \cup {turn}}
    BY <1>1, AppendCases
  <2>2. turn \in 1 .. Turns /\ skipped \subseteq 1 .. Turns
    BY <1>1 DEF TypeOK
  <2> QED
    BY <2>1, <2>2 DEF Lines, AllTurns
<1>2. CASE BeginTurn \/ Loaded \/ LoadFails \/ Crash
  <2>1. turn' \in 0 .. Turns /\ tools' \in 0 .. MaxTools
    BY <1>2 DEF BeginTurn, Loaded, LoadFails, Crash, TypeOK
  <2>2. /\ pc' \in Steps
        /\ outcome' \in [1 .. Turns -> {"none", "resolved", "rejected", "lost"}]
        /\ error' \in Codes \cup {NoCode}
        /\ UNCHANGED <<graph, meta, transcript, skipped>>
    BY <1>2 DEF BeginTurn, Loaded, LoadFails, Crash, TypeOK
  <2> QED
    BY <2>1, <2>2 DEF TypeOK, meta
<1>3. CASE RecordStarted \/ RecordAnswer \/ RecordSucceeded \/ RecordFailed
  <2>1. PICK e \in Events : AppendTranscript(e)
    BY <1>3 DEF RecordStarted, RecordAnswer, RecordSucceeded, RecordFailed,
                RecordSession, Events
  <2>2. /\ transcript' \in Seq([turn : 1 .. Turns, event : Events])
        /\ skipped' \subseteq 1 .. Turns
    BY <1>1, <1>3, <2>1
    DEF RecordStarted, RecordAnswer, RecordSucceeded, RecordFailed,
        RecordSession, TurnInv
  <2>3. /\ pc' \in Steps
        /\ UNCHANGED <<turn, graph, outcome, error, meta, tools>>
    BY <1>3 DEF RecordStarted, RecordAnswer, RecordSucceeded, RecordFailed,
                RecordSession
  <2> QED
    BY <2>2, <2>3 DEF TypeOK, meta
<1>4. CASE ToolLine
  <2>1. /\ transcript' \in Seq([turn : 1 .. Turns, event : Events])
        /\ skipped' \subseteq 1 .. Turns
    BY <1>1, <1>4 DEF ToolLine, TurnInv, Events
  <2>2. /\ tools' \in 0 .. MaxTools
        /\ UNCHANGED <<turn, pc, graph, outcome, error, meta>>
    BY <1>4 DEF ToolLine, TypeOK
  <2> QED
    BY <2>1, <2>2 DEF TypeOK, meta
<1>5. CASE SetRunning \/ SetSucceeded \/ SetFailed
  <2>1. /\ status' \in States
        /\ errorCode' \in Codes \cup {NoCode}
        /\ skipped' \subseteq 1 .. Turns
    <3>1. /\ turn \in 1 .. Turns /\ skipped \subseteq 1 .. Turns
          /\ status \in States /\ errorCode \in Codes \cup {NoCode}
          /\ error \in Codes \cup {NoCode}
      BY <1>5 DEF SetRunning, SetSucceeded, SetFailed, TypeOK, TurnInv
    <3>2. PICK s \in States, code \in {error, NoCode} : UpdateStatus(s, code)
      BY <1>5 DEF SetRunning, SetSucceeded, SetFailed
    <3> QED
      BY <3>1, <3>2 DEF UpdateStatus, meta
  <2>2. /\ pc' \in Steps
        /\ outcome' \in [1 .. Turns -> {"none", "resolved", "rejected", "lost"}]
        /\ UNCHANGED <<turn, graph, error, transcript, tools>>
    BY <1>5 DEF SetRunning, SetSucceeded, SetFailed, TypeOK
  <2> QED
    BY <2>1, <2>2 DEF TypeOK
<1>6. CASE GraphEnds
  BY <1>6 DEF GraphEnds, TypeOK, meta
<1> QED
  BY <1>2, <1>3, <1>4, <1>5, <1>6 DEF Next, RunAgent

-----------------------------------------------------------------------------
(* The graph's end decides the outcome. *)
Outcomes == TurnInv /\ GraphInv /\ OutcomeIsGraphs

LEMMA OutcomesStep == ASSUME TypeOK, Outcomes, Next PROVE Outcomes'
<1> USE TurnAssumption
    DEF TypeOK, Outcomes, TurnInv, GraphInv, OutcomeIsGraphs, Before, Well,
        Badly, AllTurns, Goto, Settle
<1>1. CASE BeginTurn
  BY <1>1 DEF BeginTurn
<1>2. CASE Loaded \/ LoadFails
  BY <1>2 DEF Loaded, LoadFails
<1>3. CASE RecordStarted \/ RecordAnswer \/ RecordSucceeded \/ RecordFailed
  BY <1>3 DEF RecordStarted, RecordAnswer, RecordSucceeded, RecordFailed,
              RecordSession
<1>4. CASE SetRunning \/ ToolLine
  BY <1>4 DEF SetRunning, ToolLine
<1>5. CASE GraphEnds
  BY <1>5 DEF GraphEnds
<1>6. CASE SetSucceeded
  BY <1>6 DEF SetSucceeded
<1>7. CASE SetFailed
  BY <1>7 DEF SetFailed
<1>8. CASE Crash
  BY <1>8 DEF Crash
<1> QED
  BY <1>1, <1>2, <1>3, <1>4, <1>5, <1>6, <1>7, <1>8 DEF Next, RunAgent

(* meta.json follows the graph's end. *)
Statuses == StatusHappened /\ StatusIsLastOutcome

LEMMA StatusesStep ==
  ASSUME TypeOK, Outcomes, Statuses, Next
  PROVE  Statuses'
<1> USE TurnAssumption
    DEF TypeOK, Outcomes, TurnInv, GraphInv, Statuses, StatusHappened,
        StatusIsLastOutcome, Before, Well, Badly, AllTurns, Goto, Settle, meta
<1>1. CASE BeginTurn \/ Loaded
  BY <1>1 DEF BeginTurn, Loaded
<1>2. CASE LoadFails
  BY <1>2 DEF LoadFails
<1>3. CASE RecordStarted \/ RecordAnswer \/ RecordSucceeded \/ RecordFailed
  BY <1>3 DEF RecordStarted, RecordAnswer, RecordSucceeded, RecordFailed,
              RecordSession
<1>4. CASE ToolLine
  BY <1>4 DEF ToolLine
<1>5. CASE SetRunning
  BY <1>5 DEF SetRunning, UpdateStatus
<1>6. CASE GraphEnds
  BY <1>6 DEF GraphEnds
<1>7. CASE SetSucceeded
  BY <1>7 DEF SetSucceeded, UpdateStatus
<1>8. CASE SetFailed
  BY <1>8 DEF SetFailed, UpdateStatus
<1>9. CASE Crash
  BY <1>9 DEF Crash
<1> QED
  BY <1>1, <1>2, <1>3, <1>4, <1>5, <1>6, <1>7, <1>8, <1>9 DEF Next, RunAgent

-----------------------------------------------------------------------------
Transcripts == LinesInv /\ TranscriptInOrder

(* Line e may come after line f of the same turn. *)
MayFollow(f, e) ==
  /\ \/ Rank(f) < Rank(e)
     \/ f = "tool" /\ e = "tool"
  /\ f = "assistant" => e = "succeeded"

(* The ranks are those of the turn's order. *)
LEMMA Ranks ==
  /\ Rank("started") = 1 /\ Rank("tool") = 2 /\ Rank("assistant") = 3
  /\ Rank("succeeded") = 4 /\ Rank("failed") = 4
BY DEF Rank

(* A line may follow those that its turn has written so far.               *)
LEMMA LineKeepsOrder ==
  ASSUME TypeOK, Transcripts, turn > 0, NEW e \in Events,
         NEW p \in Steps, pc' = p, turn' = turn, AppendTranscript(e),
         Written(pc) \cup {e} \subseteq Written(p),
         \A f \in Written(pc) : MayFollow(f, e)
  PROVE  Transcripts'
<1>1. CASE transcript' = transcript
  BY <1>1 DEF Transcripts, LinesInv, TranscriptInOrder
<1>2. CASE transcript' # transcript
  <2> DEFINE n == Len(transcript)
  <2>1. /\ Len(transcript') = n + 1
        /\ \A i \in 1 .. n : transcript'[i] = transcript[i]
        /\ transcript'[n + 1].turn = turn
        /\ transcript'[n + 1].event \in {e, "torn"}
    BY <1>2, AppendCases
  <2>2. n \in Nat
    BY LineTypes
  <2>3. \A i \in 1 .. n :
          /\ transcript[i].turn \in Nat
          /\ transcript[i].turn <= turn
          /\ transcript[i].turn = turn =>
               transcript[i].event \in Written(pc) \cup {"torn"}
    BY LineTypes DEF Transcripts, LinesInv
  <2>4. LinesInv'
    <3> SUFFICES ASSUME NEW i \in 1 .. n + 1
                 PROVE  /\ transcript'[i].turn <= turn
                        /\ transcript'[i].turn = turn =>
                             transcript'[i].event \in Written(p) \cup {"torn"}
      BY <2>1, Zenon DEF LinesInv
    <3>1. CASE i \in 1 .. n
      BY <2>1, <2>3, <3>1
    <3>2. CASE i = n + 1
      BY <2>1, <3>2 DEF TypeOK
    <3> QED
      BY <2>2, <3>1, <3>2
  <2>5. TranscriptInOrder'
    <3> SUFFICES ASSUME NEW i \in 1 .. n + 1, NEW j \in 1 .. n + 1, i < j,
                        transcript'[i].event # "torn",
                        transcript'[j].event # "torn"
                 PROVE  LET a == transcript'[i]
                            b == transcript'[j]
                        IN  \/ a.turn < b.turn
                            \/ /\ a.turn = b.turn
                               /\ \/ Rank(a.event) < Rank(b.event)
                                  \/ a.event = "tool" /\ b.event = "tool"
                               /\ a.event = "assistant" => b.event = "succeeded"
      BY <2>1, Zenon DEF TranscriptInOrder
    <3>1. i \in 1 .. n
      BY <2>2
    <3>2. CASE j \in 1 .. n
      BY <2>1, <3>1, <3>2 DEF Transcripts, TranscriptInOrder
    <3>3. CASE j = n + 1
      <4>1. transcript'[j].turn = turn /\ transcript'[j].event = e
        BY <2>1, <3>3
      <4>2. transcript'[i] = transcript[i]
        BY <2>1, <3>1
      <4>3. CASE transcript[i].turn < turn
        BY <4>1, <4>2, <4>3
      <4>4. CASE transcript[i].turn = turn
        <5>1. transcript[i].event \in Written(pc)
          BY <2>3, <3>1, <4>2, <4>4
        <5>2. MayFollow(transcript[i].event, e)
          BY <5>1
        <5> QED
          BY <4>1, <4>2, <4>4, <5>2 DEF MayFollow
      <4> QED
        BY <2>3, <3>1, <4>3, <4>4 DEF TypeOK
    <3> QED
      BY <2>2, <3>2, <3>3
  <2> QED
    BY <2>4, <2>5 DEF Transcripts
<1> QED
  BY <1>1, <1>2

(* Steps that write no line. *)
LEMMA NoLineKeepsOrder ==
  ASSUME Transcripts, UNCHANGED <<turn, transcript>>,
         Written(pc) \subseteq Written(pc')
  PROVE  Transcripts'
BY DEF Transcripts, LinesInv, TranscriptInOrder

(* Every step keeps the transcript in order. *)
LEMMA TranscriptsStep ==
  ASSUME TypeOK, TurnInv, Transcripts, Next
  PROVE  Transcripts'
<1> USE DEF Goto
<1>1. CASE BeginTurn
  <2>1. /\ turn' = turn + 1 /\ UNCHANGED transcript
        /\ turn \in Nat
    BY <1>1 DEF BeginTurn, TypeOK
  <2>2. \A i \in 1 .. Len(transcript) :
          transcript[i].turn <= turn /\ transcript[i].turn \in Nat
    BY LineTypes DEF Transcripts, LinesInv
  <2> QED
    BY <2>1, <2>2 DEF Transcripts, LinesInv, TranscriptInOrder
<1>2. CASE Loaded \/ LoadFails \/ SetRunning \/ GraphEnds \/ SetSucceeded
             \/ SetFailed \/ Crash
  <2>1. UNCHANGED <<turn, transcript>>
    BY <1>2 DEF Loaded, LoadFails, SetRunning, GraphEnds, SetSucceeded,
                SetFailed, Crash
  <2>2. Written(pc) \subseteq Written(pc')
    BY <1>2 DEF Loaded, LoadFails, SetRunning, GraphEnds, SetSucceeded,
                SetFailed, Crash, Written, Events
  <2> QED
    BY <2>1, <2>2, NoLineKeepsOrder
<1>3. CASE RecordStarted
  <2>1. /\ pc = "recordStarted" /\ pc' = "setRunning"
        /\ turn' = turn /\ turn > 0 /\ AppendTranscript("started")
    BY <1>3 DEF RecordStarted, RecordSession, TurnInv
  <2>2. /\ Written(pc) \cup {"started"} \subseteq Written("setRunning")
        /\ \A f \in Written(pc) : MayFollow(f, "started")
    BY <2>1, Ranks DEF Written, Events, MayFollow
  <2> QED
    BY <2>1, <2>2, LineKeepsOrder DEF Events, Steps
<1>4. CASE RecordAnswer
  <2>1. /\ pc = "recordAnswer" /\ pc' = "recordSucceeded"
        /\ turn' = turn /\ turn > 0 /\ AppendTranscript("assistant")
    BY <1>4 DEF RecordAnswer, RecordSession, TurnInv
  <2>2. /\ Written(pc) \cup {"assistant"} \subseteq Written("recordSucceeded")
        /\ \A f \in Written(pc) : MayFollow(f, "assistant")
    BY <2>1, Ranks DEF Written, Events, MayFollow
  <2> QED
    BY <2>1, <2>2, LineKeepsOrder DEF Events, Steps
<1>5. CASE RecordSucceeded
  <2>1. /\ pc = "recordSucceeded" /\ pc' = "setSucceeded"
        /\ turn' = turn /\ turn > 0 /\ AppendTranscript("succeeded")
    BY <1>5 DEF RecordSucceeded, RecordSession, TurnInv
  <2>2. /\ Written(pc) \cup {"succeeded"} \subseteq Written("setSucceeded")
        /\ \A f \in Written(pc) : MayFollow(f, "succeeded")
    BY <2>1, Ranks DEF Written, Events, MayFollow
  <2> QED
    BY <2>1, <2>2, LineKeepsOrder DEF Events, Steps
<1>6. CASE RecordFailed
  <2>1. /\ pc = "recordFailed" /\ pc' = "setFailed"
        /\ turn' = turn /\ turn > 0 /\ AppendTranscript("failed")
    BY <1>6 DEF RecordFailed, RecordSession, TurnInv
  <2>2. /\ Written(pc) \cup {"failed"} \subseteq Written("setFailed")
        /\ \A f \in Written(pc) : MayFollow(f, "failed")
    BY <2>1, Ranks DEF Written, Events, MayFollow
  <2> QED
    BY <2>1, <2>2, LineKeepsOrder DEF Events, Steps
<1>7. CASE ToolLine
  <2>1. /\ pc' = "invoke" /\ turn' = turn /\ turn > 0
        /\ AppendTranscript("tool")
    BY <1>7 DEF ToolLine, TurnInv
  <2>2. /\ Written(pc) \cup {"tool"} \subseteq Written("invoke")
        /\ \A f \in Written(pc) : MayFollow(f, "tool")
    BY <1>7 DEF ToolLine, Written, Rank, MayFollow
  <2> QED
    BY <2>1, <2>2, LineKeepsOrder DEF Events, Steps
<1> QED
  BY <1>1, <1>2, <1>3, <1>4, <1>5, <1>6, <1>7 DEF Next, RunAgent

-----------------------------------------------------------------------------
(* The invariant is inductive. *)
LEMMA InvHolds == Spec => []Inv
<1>1. Inv /\ [Next]_vars => Inv'
  <2> SUFFICES ASSUME Inv, [Next]_vars PROVE Inv'
    OBVIOUS
  <2>1. CASE Next
    BY <2>1, TypeStep, OutcomesStep, StatusesStep, TranscriptsStep
    DEF Inv, Outcomes, Statuses, Transcripts
  <2>2. CASE UNCHANGED vars
    BY <2>2 DEF vars, meta, Inv, TypeOK, TurnInv, GraphInv, OutcomeIsGraphs,
                StatusHappened, StatusIsLastOutcome, LinesInv,
                TranscriptInOrder
  <2> QED
    BY <2>1, <2>2
<1> QED
  BY InitInv, <1>1, PTL DEF Spec

(* The variables of SessionRun keep their types, for any number of turns.   *)
THEOREM RunTypes == Spec => []TypeOK
<1>1. Inv => TypeOK
  BY DEF Inv
<1> QED
  BY <1>1, InvHolds, PTL

(* No failure to write the session's record changes how runAgent settles.  *)
THEOREM OutcomesAreGraphs == Spec => []OutcomeIsGraphs
<1>1. Inv => OutcomeIsGraphs
  BY DEF Inv
<1> QED
  BY <1>1, InvHolds, PTL

(* meta.json never claims an end that no turn of the session had. *)
THEOREM StatusesHappened == Spec => []StatusHappened
<1>1. Inv => StatusHappened
  BY DEF Inv
<1> QED
  BY <1>1, InvHolds, PTL

(* Between turns, meta.json shows the last turn's end, if it was written.  *)
THEOREM StatusesAreLast == Spec => []StatusIsLastOutcome
<1>1. Inv => StatusIsLastOutcome
  BY DEF Inv
<1> QED
  BY <1>1, InvHolds, PTL

(* The transcript may have gaps but is never out of order. *)
THEOREM TranscriptsInOrder == Spec => []TranscriptInOrder
<1>1. Inv => TranscriptInOrder
  BY DEF Inv
<1> QED
  BY <1>1, InvHolds, PTL
=============================================================================

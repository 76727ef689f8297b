----------------------------- MODULE SessionRun -----------------------------
(***************************************************************************)
(* What a session's directory says of its turns: runAgent around the       *)
(* graph's invocation, and FilesystemSessionStore.updateStatus and         *)
(* appendTranscript, which it calls through updateSessionStatus,           *)
(* recordSession and the runtime's onTranscript.                           *)
(*                                                                         *)
(* The directory is for inspection: every write to it may fail, and its    *)
(* failure is swallowed, so that it does not change the turn's outcome.    *)
(* The process may die between any two writes.  The session has been       *)
(* accepted; its turns are run one after the other.                        *)
(***************************************************************************)
EXTENDS Naturals, Sequences

CONSTANTS Turns,       \* how many turns are run on the session
          MaxTools,    \* bound on the tool lines of one turn
          Codes        \* codes of the WaratahErrors a turn may fail with

ASSUME TurnAssumption == Turns \in Nat /\ MaxTools \in Nat

VARIABLES
  turn,        \* the current turn, 0 before the first
  pc,          \* what runAgent does next
  graph,       \* graph[t]: how the invocation of the graph ended in turn t
  outcome,     \* outcome[t]: how the promise of runAgent settled in turn t
  error,       \* the code of the error runAgent has caught
  status,      \* meta.json: status
  errorCode,   \* meta.json: errorCode
  transcript,  \* the lines after the acceptance, each with its turn
  tools,       \* tool lines offered to the transcript in this turn
  skipped      \* history: turns in which a write failed

vars == <<turn, pc, graph, outcome, error, status, errorCode, transcript,
          tools, skipped>>
meta == <<status, errorCode>>

Steps  == {"idle", "load", "recordStarted", "setRunning", "invoke",
           "recordAnswer", "recordSucceeded", "setSucceeded",
           "recordFailed", "setFailed"}
Ends   == {"none", "ok", "failed"}
States == {"pending", "running", "succeeded", "failed"}
Events == {"started", "tool", "assistant", "succeeded", "failed", "torn"}
NoCode == "none"

Init ==
  /\ turn = 0
  /\ pc = "idle"
  /\ graph = [t \in 1 .. Turns |-> "none"]
  /\ outcome = [t \in 1 .. Turns |-> "none"]
  /\ error = NoCode
  /\ status = "pending"
  /\ errorCode = NoCode
  /\ transcript = <<>>
  /\ tools = 0
  /\ skipped = {}

Goto(from, to) == pc = from /\ pc' = to

Settle(o) == outcome' = [outcome EXCEPT ![turn] = o]

(* A line is appended whole, or the append fails, maybe half way.          *)
AppendTranscript(event) ==
  \/ /\ transcript' = Append(transcript, [turn |-> turn, event |-> event])
     /\ UNCHANGED skipped
  \/ /\ transcript' \in {transcript,
                         Append(transcript, [turn |-> turn, event |-> "torn"])}
     /\ skipped' = skipped \cup {turn}

(* Mutant of UpdateStatus: a final status is never replaced. *)
UpdateStatusOnce(s, code) ==
  /\ status' = IF status \in {"succeeded", "failed"} THEN status ELSE s
  /\ errorCode' = IF code = NoCode THEN errorCode ELSE code
  /\ UNCHANGED skipped

(* updateStatus reads meta.json and replaces it whole, keeping an earlier  *)
(* errorCode when it is given none.                                        *)
UpdateStatus(s, code) ==
  \/ /\ status' = s
     /\ errorCode' = IF code = NoCode THEN errorCode ELSE code
     /\ UNCHANGED skipped
  \/ UNCHANGED meta /\ skipped' = skipped \cup {turn}

-----------------------------------------------------------------------------
BeginTurn ==
  /\ turn < Turns
  /\ Goto("idle", "load")
  /\ turn' = turn + 1
  /\ tools' = 0
  /\ error' = NoCode
  /\ UNCHANGED <<graph, outcome, meta, transcript, skipped>>

Loaded ==
  /\ Goto("load", "recordStarted")
  /\ UNCHANGED <<turn, graph, outcome, error, meta, transcript, tools, skipped>>

(* The session's context cannot be loaded: runAgent rejects before its     *)
(* try block, and the directory does not hear of it.                       *)
LoadFails ==
  /\ Goto("load", "idle")
  /\ Settle("rejected")
  /\ UNCHANGED <<turn, graph, error, meta, transcript, tools, skipped>>

(* Mutant of RecordSession: a failed append is not swallowed.  It rejects  *)
(* the turn, through the catch block when there is one around it.          *)
RecordOrThrow(from, event, to) ==
  /\ AppendTranscript(event)
  /\ pc = from
  /\ IF turn \in skipped'
     THEN IF from \in {"recordAnswer", "recordSucceeded"}
          THEN pc' = "recordFailed" /\ UNCHANGED outcome
          ELSE pc' = "idle" /\ Settle("rejected")
     ELSE pc' = to /\ UNCHANGED outcome
  /\ UNCHANGED <<turn, graph, error, meta, tools>>

(* recordSession: on to the next step whether or not the line was written. *)
RecordSession(from, event, to) ==
  /\ Goto(from, to)
  /\ AppendTranscript(event)
  /\ UNCHANGED <<turn, graph, outcome, error, meta, tools>>

(* Mutant of RecordAnswer: a line the transcript's type does not know. *)
RecordContent == RecordSession("recordAnswer", "content", "recordSucceeded")

RecordStarted   == RecordSession("recordStarted", "started", "setRunning")
RecordAnswer    == RecordSession("recordAnswer", "assistant", "recordSucceeded")
RecordSucceeded == RecordSession("recordSucceeded", "succeeded", "setSucceeded")
RecordFailed    == RecordSession("recordFailed", "failed", "setFailed")

SetRunning ==
  /\ Goto("setRunning", "invoke")
  /\ UpdateStatus("running", NoCode)
  /\ UNCHANGED <<turn, graph, outcome, error, transcript, tools>>

(* Mutant of ToolLine: the append is not awaited by the graph's node. *)
ToolLineLate ==
  /\ pc \in {"invoke", "recordAnswer", "recordSucceeded"}
  /\ tools < MaxTools
  /\ tools' = tools + 1
  /\ AppendTranscript("tool")
  /\ UNCHANGED <<turn, pc, graph, outcome, error, meta>>

(* recordToolTranscript, while the graph runs. *)
ToolLine ==
  /\ pc = "invoke"
  /\ tools < MaxTools
  /\ tools' = tools + 1
  /\ AppendTranscript("tool")
  /\ UNCHANGED <<turn, pc, graph, outcome, error, meta>>

(* Mutant of GraphEnds: a failed invocation looks like one without content.*)
GraphEndsUnchecked ==
  /\ Goto("invoke", "recordAnswer")
  /\ \E e \in {"ok", "failed"} : graph' = [graph EXCEPT ![turn] = e]
  /\ UNCHANGED <<turn, outcome, error, meta, transcript, tools, skipped>>

GraphEnds ==
  /\ \/ Goto("invoke", "recordAnswer")
        /\ graph' = [graph EXCEPT ![turn] = "ok"]
        /\ UNCHANGED error
     \/ Goto("invoke", "recordFailed")
        /\ graph' = [graph EXCEPT ![turn] = "failed"]
        /\ error' \in Codes \cup {NoCode}
  /\ UNCHANGED <<turn, outcome, meta, transcript, tools, skipped>>

SetSucceeded ==
  /\ Goto("setSucceeded", "idle")
  /\ UpdateStatus("succeeded", NoCode)
  /\ Settle("resolved")
  /\ UNCHANGED <<turn, graph, error, transcript, tools>>

(* Mutant of SetFailed: the catch block rethrows without the status. *)
SetFailedForgets ==
  /\ Goto("setFailed", "idle")
  /\ Settle("rejected")
  /\ UNCHANGED <<turn, graph, error, meta, transcript, tools, skipped>>

SetFailed ==
  /\ Goto("setFailed", "idle")
  /\ UpdateStatus("failed", error)
  /\ Settle("rejected")
  /\ UNCHANGED <<turn, graph, error, transcript, tools>>

(* The process dies in the middle of a turn; the directory stays as it is. *)
Crash ==
  /\ Goto(pc, "idle")
  /\ pc # "idle"
  /\ Settle("lost")
  /\ UNCHANGED <<turn, graph, error, meta, transcript, tools, skipped>>

RunAgent ==
  \/ Loaded \/ LoadFails \/ RecordStarted \/ SetRunning \/ ToolLine \/ GraphEnds
  \/ RecordAnswer \/ RecordSucceeded \/ SetSucceeded \/ RecordFailed \/ SetFailed

Next == BeginTurn \/ RunAgent \/ Crash

Spec == Init /\ [][Next]_vars

(* Every await of runAgent settles: Node for the files, and the graph      *)
(* because a turn ends (Harness, TurnEnds and AbortEndsTurn).              *)
FairSpec == Spec /\ WF_vars(RunAgent)

-----------------------------------------------------------------------------
(* What each variable may hold. *)
TypeOK ==
  /\ turn \in 0 .. Turns
  /\ pc \in Steps
  /\ graph \in [1 .. Turns -> Ends]
  /\ outcome \in [1 .. Turns -> {"none", "resolved", "rejected", "lost"}]
  /\ error \in Codes \cup {NoCode}
  /\ status \in States
  /\ errorCode \in Codes \cup {NoCode}
  /\ transcript \in Seq([turn : 1 .. Turns, event : Events])
  /\ tools \in 0 .. MaxTools
  /\ skipped \subseteq 1 .. Turns

(* run-agent.ts: inspection files must not change the session outcome.     *)
(* runAgent resolves exactly when the graph did, whichever writes failed.  *)
OutcomeIsGraphs ==
  \A t \in 1 .. Turns :
    /\ outcome[t] = "resolved" => graph[t] = "ok"
    /\ outcome[t] = "rejected" => graph[t] # "ok"

(* meta.json may lag behind, but it says nothing that was never true: a    *)
(* final status is that of a turn whose graph ended so.                    *)
StatusHappened ==
  /\ status = "succeeded" => \E t \in 1 .. Turns : graph[t] = "ok"
  /\ status = "failed" \/ errorCode # NoCode =>
       \E t \in 1 .. Turns : graph[t] = "failed"

(* Between turns, meta.json shows how the last turn ended, unless one of   *)
(* its writes failed, it never got to the graph, or the process died.      *)
StatusIsLastOutcome ==
  pc = "idle" /\ turn > 0 /\ turn \notin skipped /\ graph[turn] # "none"
      /\ outcome[turn] # "lost"
    => status = IF outcome[turn] = "resolved" THEN "succeeded" ELSE "failed"

(* Reading the transcript: turns follow each other, a turn starts, uses    *)
(* tools, and ends once, either with an answer or with a failure.  A line  *)
(* may be missing, but none is out of place.                               *)
Rank(event) == CASE event = "started"   -> 1
                 [] event = "tool"      -> 2
                 [] event = "assistant" -> 3
                 [] event = "succeeded" -> 4
                 [] event = "failed"    -> 4

TranscriptInOrder ==
  \A i, j \in 1 .. Len(transcript) :
    LET a == transcript[i]
        b == transcript[j]
    IN  i < j /\ a.event # "torn" /\ b.event # "torn" =>
          \/ a.turn < b.turn
          \/ /\ a.turn = b.turn
             /\ \/ Rank(a.event) < Rank(b.event)
                \/ a.event = "tool" /\ b.event = "tool"
             /\ a.event = "assistant" => b.event = "succeeded"

(* A session does not look busy for ever: the status of a turn that runs   *)
(* is replaced, unless one of its writes failed or the process died in it. *)
RunningIsReplaced ==
  \A t \in 1 .. Turns :
    turn = t /\ pc = "invoke" /\ status = "running" ~>
      status # "running" \/ t \in skipped \/ outcome[t] = "lost"
=============================================================================

---------------------------- MODULE SessionAccept ----------------------------
(***************************************************************************)
(* Accepting a trigger: CreateSessionService.create, the session directory *)
(* it claims on disk (FilesystemSessionStore.readMeta and create), and the *)
(* checkpointer the accept graph writes to.                                *)
(*                                                                         *)
(* A call is one invocation of create; a webhook retry is another call     *)
(* with the same delivery.  Every await in the code is a place where other *)
(* calls run, so each file-system or checkpointer operation is one action. *)
(* Any of them may fail, and the process may die between any two; what is  *)
(* on disk survives.                                                       *)
(***************************************************************************)
EXTENDS Naturals, Sequences

CONSTANTS Calls,       \* invocations of CreateSessionService.create
          Deliveries,  \* well-formed delivery ids
          UseStore,    \* TRUE when a FilesystemSessionStore is configured
          Durable      \* TRUE when the checkpointer outlives the process

ASSUME ModeAssumption == UseStore \in BOOLEAN /\ Durable \in BOOLEAN

VARIABLES
  command,     \* command[c]: the trigger call c carries
  pc,          \* pc[c]: the operation call c performs next
  result,      \* result[c]: what call c was answered
  entries,     \* entries[d]: what the session directory of d holds
  transcript,  \* transcript[d]: the lines of transcript.jsonl
  thread,      \* thread[d]: the checkpointer has a checkpoint of d
  late         \* history: calls submitted when d had been accepted already

vars == <<command, pc, result, entries, transcript, thread, late>>
disk == <<entries, transcript>>

(* "malformed" stands for any check of assertCreateSessionCommand that     *)
(* fails before the size check, "oversize" for a message over the limit.   *)
Forms    == {"valid", "malformed", "oversize"}
Commands == [delivery : Deliveries, form : Forms]

Stages == {"new", "readMeta", "getThread", "mkdir", "mkdirFiles", "writeMeta",
           "newTranscript", "appendAccepted", "appendUser", "invoke", "done"}
Results == {"none", "accepted", "duplicate", "invalid", "payloadLimit",
            "storeError", "lost"}
Entries == {"directory", "files", "meta", "transcript"}
Lines   == {"accepted", "user", "torn"}

Delivery(c) == command[c].delivery

(* A call past the atomic mkdir is the owner of its session directory. *)
Owning   == {"mkdirFiles", "writeMeta", "newTranscript", "appendAccepted",
             "appendUser", "invoke"}
Owner(c) == UseStore /\ pc[c] \in Owning
InFlight(c) == pc[c] \notin {"new", "done"}
Accepted(d) == \E c \in Calls : Delivery(c) = d /\ result[c] = "accepted"

Init ==
  /\ command \in [Calls -> Commands]
  /\ pc = [c \in Calls |-> "new"]
  /\ result = [c \in Calls |-> "none"]
  /\ entries = [d \in Deliveries |-> {}]
  /\ transcript = [d \in Deliveries |-> <<>>]
  /\ thread = [d \in Deliveries |-> FALSE]
  /\ late = {}

-----------------------------------------------------------------------------
(* Steps of one call. *)

Goto(c, from, to) ==
  /\ pc[c] = from
  /\ pc' = [pc EXCEPT ![c] = to]
  /\ UNCHANGED <<command, result, late>>

Reply(c, from, r) ==
  /\ pc[c] = from
  /\ pc' = [pc EXCEPT ![c] = "done"]
  /\ result' = [result EXCEPT ![c] = r]
  /\ UNCHANGED <<command, late>>

(* Mutant of Refusal: the reason leaks out as the error code. *)
RefusalLeaks(form) == IF form = "oversize" THEN "payloadLimit" ELSE form

(* create validates before it touches the store. *)
Refusal(form) == IF form = "oversize" THEN "payloadLimit" ELSE "invalid"

Refuse(c) ==
  /\ command[c].form # "valid"
  /\ Reply(c, "new", Refusal(command[c].form))
  /\ UNCHANGED <<entries, transcript, thread>>

Submit(c) ==
  /\ command[c].form = "valid"
  /\ pc[c] = "new"
  /\ pc' = [pc EXCEPT ![c] = IF UseStore THEN "readMeta" ELSE "getThread"]
  /\ late' = IF Accepted(Delivery(c)) THEN late \cup {c} ELSE late
  /\ UNCHANGED <<command, result, entries, transcript, thread>>

AddEntry(d, e) == entries' = [entries EXCEPT ![d] = @ \cup {e}]

(* Mutant of ReadMeta: the session directory is prepared before it is      *)
(* claimed.                                                                *)
ReadMetaMakesDirectory(c) ==
  /\ IF "meta" \in entries[Delivery(c)]
     THEN Reply(c, "readMeta", "duplicate") /\ UNCHANGED entries
     ELSE Goto(c, "readMeta", "mkdir") /\ AddEntry(Delivery(c), "directory")
  /\ UNCHANGED <<transcript, thread>>

(* A missing meta.json is a session nobody has seen. *)
ReadMeta(c) ==
  /\ IF "meta" \in entries[Delivery(c)]
     THEN Reply(c, "readMeta", "duplicate")
     ELSE Goto(c, "readMeta", "mkdir")
  /\ UNCHANGED <<entries, transcript, thread>>

(* Mutant of GetThread: the thread is ignored. *)
GetThreadIgnored(c) ==
  /\ Goto(c, "getThread", "invoke")
  /\ UNCHANGED <<entries, transcript, thread>>

(* Without a store the checkpointer's thread is the only memory. *)
GetThread(c) ==
  /\ IF thread[Delivery(c)]
     THEN Reply(c, "getThread", "duplicate")
     ELSE Goto(c, "getThread", "invoke")
  /\ UNCHANGED <<entries, transcript, thread>>

(* Mutant of Mkdir: "recursive" makes an existing directory a success. *)
MkdirRecursive(c) ==
  /\ Goto(c, "mkdir", "mkdirFiles")
  /\ AddEntry(Delivery(c), "directory")
  /\ UNCHANGED <<transcript, thread>>

(* mkdir without "recursive": it creates the directory or says EEXIST. *)
Mkdir(c) ==
  /\ IF "directory" \in entries[Delivery(c)]
     THEN Reply(c, "mkdir", "duplicate") /\ UNCHANGED entries
     ELSE Goto(c, "mkdir", "mkdirFiles") /\ AddEntry(Delivery(c), "directory")
  /\ UNCHANGED <<transcript, thread>>

MkdirFiles(c) ==
  /\ Goto(c, "mkdirFiles", "writeMeta")
  /\ AddEntry(Delivery(c), "files")
  /\ UNCHANGED <<transcript, thread>>

(* A temporary file renamed into place: meta.json is there whole or not.  *)
WriteMeta(c) ==
  /\ Goto(c, "writeMeta", "newTranscript")
  /\ AddEntry(Delivery(c), "meta")
  /\ UNCHANGED <<transcript, thread>>

(* flag "wx": fails when the file exists, see StoreFails. *)
NewTranscript(c) ==
  /\ "transcript" \notin entries[Delivery(c)]
  /\ Goto(c, "newTranscript", "appendAccepted")
  /\ AddEntry(Delivery(c), "transcript")
  /\ UNCHANGED <<transcript, thread>>

AppendLine(c, from, line, to) ==
  /\ Goto(c, from, to)
  /\ transcript' = [transcript EXCEPT ![Delivery(c)] = Append(@, line)]
  /\ UNCHANGED <<entries, thread>>

AppendAccepted(c) == AppendLine(c, "appendAccepted", "accepted", "appendUser")
AppendUser(c)     == AppendLine(c, "appendUser", "user", "invoke")

(* The accept graph has run: its checkpoint is written, the answer is yes. *)
Invoke(c) ==
  /\ Reply(c, "invoke", "accepted")
  /\ thread' = [thread EXCEPT ![Delivery(c)] = TRUE]
  /\ UNCHANGED disk

-----------------------------------------------------------------------------
(* Failures. *)

(* Mutant of StoreFails: a failed append is swallowed, as recordSession    *)
(* does for a running session.                                             *)
StoreFailsSwallowed(c) ==
  /\ InFlight(c)
  /\ IF pc[c] \in {"appendAccepted", "appendUser"}
     THEN Goto(c, pc[c], IF pc[c] = "appendUser" THEN "invoke" ELSE "appendUser")
     ELSE Reply(c, pc[c], "storeError")
  /\ UNCHANGED <<entries, transcript, thread>>

(* Mutant of StoreFails: a call that fails removes the session directory. *)
StoreFailsCleansUp(c) ==
  /\ InFlight(c)
  /\ Reply(c, pc[c], "storeError")
  /\ entries' = [entries EXCEPT ![Delivery(c)] = {}]
  /\ transcript' = [transcript EXCEPT ![Delivery(c)] = <<>>]
  /\ UNCHANGED thread

(* Any awaited operation rejects: create throws SESSION_STORE_ERROR and    *)
(* undoes nothing.  A failed append may have written part of its line, a   *)
(* failed graph invocation may have written its checkpoint.                *)
StoreFails(c) ==
  /\ InFlight(c)
  /\ Reply(c, pc[c], "storeError")
  /\ \/ UNCHANGED <<transcript, thread>>
     \/ /\ pc[c] \in {"appendAccepted", "appendUser"}
        /\ transcript' = [transcript EXCEPT ![Delivery(c)] = Append(@, "torn")]
        /\ UNCHANGED thread
     \/ /\ pc[c] = "invoke"
        /\ thread' = [thread EXCEPT ![Delivery(c)] = TRUE]
        /\ UNCHANGED transcript
  /\ UNCHANGED entries

(* The process dies: calls in flight are never answered, files stay, an    *)
(* in-memory checkpointer is emptied.                                      *)
Crash ==
  /\ \E c \in Calls : InFlight(c)
  /\ result' = [c \in Calls |-> IF InFlight(c) THEN "lost" ELSE result[c]]
  /\ pc' = [c \in Calls |-> IF InFlight(c) THEN "done" ELSE pc[c]]
  /\ thread' = [d \in Deliveries |-> Durable /\ thread[d]]
  /\ UNCHANGED <<command, entries, transcript, late>>

-----------------------------------------------------------------------------
Step(c) ==
  \/ ReadMeta(c) \/ GetThread(c) \/ Mkdir(c) \/ MkdirFiles(c) \/ WriteMeta(c)
  \/ NewTranscript(c) \/ AppendAccepted(c) \/ AppendUser(c) \/ Invoke(c)
  \/ StoreFails(c)

Next ==
  \/ \E c \in Calls : Refuse(c) \/ Submit(c) \/ Step(c)
  \/ Crash

Spec == Init /\ [][Next]_vars

(* Node settles every pending promise and runs its continuation. *)
FairSpec == Spec /\ \A c \in Calls : WF_vars(Step(c))

-----------------------------------------------------------------------------
(* What each variable may hold. *)
TypeOK ==
  /\ command \in [Calls -> Commands]
  /\ pc \in [Calls -> Stages]
  /\ result \in [Calls -> Results]
  /\ entries \in [Deliveries -> SUBSET Entries]
  /\ transcript \in [Deliveries -> Seq(Lines)]
  /\ thread \in [Deliveries -> BOOLEAN]
  /\ late \subseteq Calls

(* One delivery is accepted at most once, whatever the order of the calls, *)
(* the failures and the restarts: no trigger starts a second session.      *)
AcceptedOnce ==
  \A c1, c2 \in Calls :
    /\ result[c1] = "accepted"
    /\ result[c2] = "accepted"
    /\ Delivery(c1) = Delivery(c2)
    => c1 = c2

(* An accepted call left a session that a run can start from, and that     *)
(* survives a restart: the metadata, the transcript with the acceptance    *)
(* followed by the trigger's message and nothing else, the checkpoint.     *)
AcceptedIsComplete ==
  \A c \in Calls : result[c] = "accepted" =>
    LET d == Delivery(c)
    IN  /\ entries[d] = Entries
        /\ transcript[d] = <<"accepted", "user">>
        /\ Durable => thread[d]

(* A call is answered "duplicate" only when another call reached the disk  *)
(* or the checkpointer with the same delivery before it.                   *)
DuplicateHasRival ==
  \A c \in Calls : result[c] = "duplicate" =>
    \E r \in Calls \ {c} :
      /\ Delivery(r) = Delivery(c)
      /\ \/ Owner(r)
         \/ result[r] \in {"accepted", "storeError", "lost"}

(* docs/concepts/sessions.md on the answer "duplicate": this deliveryId    *)
(* was already accepted.  Weakened to allow the rival to be in flight.     *)
DuplicateMeansAccepted ==
  \A c \in Calls : result[c] = "duplicate" =>
    \E r \in Calls \ {c} :
      /\ Delivery(r) = Delivery(c)
      /\ result[r] = "accepted" \/ InFlight(r)

(* A retry submitted after the acceptance was answered is never accepted   *)
(* again, with or without a session store.                                 *)
LateRetryNotAccepted == \A c \in late : result[c] # "accepted"

(* Callers that race on one delivery do not wait for each other for ever:  *)
(* a duplicate is followed by the acceptance of the delivery, unless the   *)
(* store failed under some call for it or the process died.                *)
DuplicateSettles ==
  \A c \in Calls :
    result[c] = "duplicate" ~>
      \E r \in Calls :
        /\ Delivery(r) = Delivery(c)
        /\ result[r] \in {"accepted", "storeError", "lost"}

-----------------------------------------------------------------------------
(* With a store, accepting implements DeliveryContract. *)

Claimed(d) == \E c \in Calls : Owner(c) /\ Delivery(c) = d

Phase(d) ==
  IF Accepted(d) THEN "accepted"
  ELSE IF Claimed(d) THEN "claimed"
  ELSE IF "directory" \in entries[d] THEN "abandoned"
  ELSE "free"

Contract == INSTANCE DeliveryContract WITH
  phase    <- [d \in Deliveries |-> Phase(d)],
  claims   <- {p \in Calls \X Deliveries :
                 Owner(p[1]) /\ Delivery(p[1]) = p[2]},
  answer   <- result

(* The contract every caller may rely on, as the abstract specification.   *)
ContractHolds == Contract!Spec
=============================================================================

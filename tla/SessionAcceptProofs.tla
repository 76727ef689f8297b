------------------------- MODULE SessionAcceptProofs -------------------------
(***************************************************************************)
(* Proofs about SessionAccept for every set of calls and deliveries.       *)
(*                                                                         *)
(* The mkdir of a session directory is the only arbiter between calls, so  *)
(* the argument is about it: a directory has at most one holder (the call  *)
(* whose mkdir created it, while it works and after it was accepted), and  *)
(* only its holder writes to it, in a fixed order.                         *)
(***************************************************************************)
EXTENDS SessionAccept, SequenceTheorems, TLAPS

(* What the session directory holds while its owner is at a given stage.   *)
EntriesAt(s) ==
  CASE s = "mkdirFiles"    -> {"directory"}
    [] s = "writeMeta"     -> {"directory", "files"}
    [] s = "newTranscript" -> {"directory", "files", "meta"}
    [] OTHER               -> Entries

LinesAt(s) ==
  CASE s = "appendUser" -> <<"accepted">>
    [] s = "invoke"     -> <<"accepted", "user">>
    [] OTHER            -> <<>>

Holds(c) == Owner(c) \/ result[c] = "accepted"

(* A call has its answer exactly when it is done. *)
AnsweredWhenDone == \A c \in Calls : pc[c] = "done" <=> result[c] # "none"

(* The stages of the two modes do not mix. *)
ModeStages ==
  \A c \in Calls :
    /\ pc[c] = "getThread" => ~UseStore
    /\ pc[c] \in {"readMeta", "mkdir"} \cup (Owning \ {"invoke"}) => UseStore

Control == TypeOK /\ AnsweredWhenDone /\ ModeStages

(* Nothing is in a directory before its mkdir. *)
NothingBeforeMkdir ==
  \A d \in Deliveries :
    "directory" \notin entries[d] => entries[d] = {} /\ transcript[d] = <<>>

HolderHasDirectory ==
  \A c \in Calls : Holds(c) => "directory" \in entries[Delivery(c)]

OneHolder ==
  \A c, e \in Calls :
    Holds(c) /\ Holds(e) /\ Delivery(c) = Delivery(e) => c = e

OwnerProgress ==
  \A c \in Calls :
    Owner(c) => /\ entries[Delivery(c)] = EntriesAt(pc[c])
                /\ transcript[Delivery(c)] = LinesAt(pc[c])

(* What the store mode relies on. *)
DiskInv ==
  /\ NothingBeforeMkdir
  /\ HolderHasDirectory
  /\ OneHolder
  /\ OwnerProgress
  /\ AcceptedIsComplete

(* What a duplicate runs into was left there by a call that got further.   *)
Maker(r) == Owner(r) \/ result[r] \in {"accepted", "storeError", "lost"}

SeenHasMaker ==
  \A d \in Deliveries :
    entries[d] # {} \/ thread[d] =>
      \E r \in Calls : Delivery(r) = d /\ Maker(r)

-----------------------------------------------------------------------------
(* A step of call c leaves the other calls and the other deliveries alone. *)
Frame(c) ==
  /\ command' = command
  /\ \A e \in Calls \ {c} : pc'[e] = pc[e] /\ result'[e] = result[e]
  /\ \A d \in Deliveries \ {Delivery(c)} :
        /\ entries'[d] = entries[d]
        /\ transcript'[d] = transcript[d]
        /\ thread'[d] = thread[d]

CallStep(c) == Refuse(c) \/ Submit(c) \/ Step(c)

LEMMA DeliveryType ==
  ASSUME TypeOK, NEW c \in Calls
  PROVE  Delivery(c) \in Deliveries
BY DEF TypeOK, Commands, Delivery

LEMMA StepFrame ==
  ASSUME TypeOK, NEW c \in Calls, CallStep(c)
  PROVE  Frame(c)
<1>1. Delivery(c) \in Deliveries
  BY DeliveryType
<1> USE <1>1 DEF TypeOK, Frame
<1>2. CASE Refuse(c)
  BY <1>2 DEF Refuse, Reply
<1>3. CASE Submit(c)
  BY <1>3 DEF Submit
<1>4. CASE ReadMeta(c)
  BY <1>4 DEF ReadMeta, Reply, Goto
<1>5. CASE GetThread(c)
  BY <1>5 DEF GetThread, Reply, Goto
<1>6. CASE Mkdir(c)
  BY <1>6 DEF Mkdir, Reply, Goto, AddEntry
<1>7. CASE MkdirFiles(c)
  BY <1>7 DEF MkdirFiles, Goto, AddEntry
<1>8. CASE WriteMeta(c)
  BY <1>8 DEF WriteMeta, Goto, AddEntry
<1>9. CASE NewTranscript(c)
  BY <1>9 DEF NewTranscript, Goto, AddEntry
<1>10. CASE AppendAccepted(c)
  BY <1>10 DEF AppendAccepted, AppendLine, Goto
<1>11. CASE AppendUser(c)
  BY <1>11 DEF AppendUser, AppendLine, Goto
<1>12. CASE Invoke(c)
  BY <1>12 DEF Invoke, Reply, disk
<1>13. CASE StoreFails(c)
  BY <1>13 DEF StoreFails, Reply
<1> QED
  BY <1>2, <1>3, <1>4, <1>5, <1>6, <1>7, <1>8, <1>9, <1>10, <1>11, <1>12,
     <1>13 DEF CallStep, Step

(* Where a call may be before each step, and where the step takes it.      *)
LEMMA ControlKeeps ==
  ASSUME Control, ModeAssumption, NEW c \in Calls, CallStep(c)
  PROVE  Control'
<1>1. Delivery(c) \in Deliveries
  BY DeliveryType DEF Control
<1> USE <1>1 DEF Control, TypeOK, AnsweredWhenDone, ModeStages, Owning,
                 Stages, Results, ModeAssumption
<1>2. CASE Refuse(c)
  BY <1>2 DEF Refuse, Reply, Refusal
<1>3. CASE Submit(c)
  BY <1>3 DEF Submit
<1>4. CASE ReadMeta(c)
  <2>1. CASE Reply(c, "readMeta", "duplicate")
    BY <1>4, <2>1 DEF ReadMeta, Reply
  <2>2. CASE Goto(c, "readMeta", "mkdir")
    BY <1>4, <2>2 DEF ReadMeta, Goto
  <2> QED
    BY <1>4, <2>1, <2>2 DEF ReadMeta
<1>5. CASE GetThread(c)
  <2>1. CASE Reply(c, "getThread", "duplicate")
    BY <1>5, <2>1 DEF GetThread, Reply
  <2>2. CASE Goto(c, "getThread", "invoke")
    BY <1>5, <2>2 DEF GetThread, Goto
  <2> QED
    BY <1>5, <2>1, <2>2 DEF GetThread
<1>6. CASE Mkdir(c)
  <2>1. CASE Reply(c, "mkdir", "duplicate") /\ UNCHANGED entries
    BY <1>6, <2>1 DEF Mkdir, Reply
  <2>2. CASE Goto(c, "mkdir", "mkdirFiles")
             /\ AddEntry(Delivery(c), "directory")
    BY <1>6, <2>2 DEF Mkdir, Goto, AddEntry, Entries
  <2> QED
    BY <1>6, <2>1, <2>2 DEF Mkdir
<1>7. CASE MkdirFiles(c)
  BY <1>7 DEF MkdirFiles, Goto, AddEntry, Entries
<1>8. CASE WriteMeta(c)
  BY <1>8 DEF WriteMeta, Goto, AddEntry, Entries
<1>9. CASE NewTranscript(c)
  BY <1>9 DEF NewTranscript, Goto, AddEntry, Entries
<1>10. CASE AppendAccepted(c)
  BY <1>10 DEF AppendAccepted, AppendLine, Goto, Lines
<1>11. CASE AppendUser(c)
  BY <1>11 DEF AppendUser, AppendLine, Goto, Lines
<1>12. CASE Invoke(c)
  BY <1>12 DEF Invoke, Reply, disk
<1>13. CASE StoreFails(c)
  <2>1. transcript' \in [Deliveries -> Seq(Lines)]
    <3>1. CASE UNCHANGED transcript
      BY <3>1
    <3>2. CASE transcript' =
                 [transcript EXCEPT ![Delivery(c)] = Append(@, "torn")]
      BY <3>2 DEF Lines
    <3> QED
      BY <1>13, <3>1, <3>2 DEF StoreFails
  <2>2. thread' \in [Deliveries -> BOOLEAN]
    BY <1>13 DEF StoreFails
  <2> QED
    BY <1>13, <2>1, <2>2 DEF StoreFails, Reply, InFlight
<1> QED
  BY <1>2, <1>3, <1>4, <1>5, <1>6, <1>7, <1>8, <1>9, <1>10, <1>11, <1>12,
     <1>13 DEF CallStep, Step

LEMMA ControlAfterCrash ==
  ASSUME Control, Crash
  PROVE  Control'
BY DEF Control, TypeOK, AnsweredWhenDone, ModeStages, Owning, Stages,
       Results, Crash, InFlight

-----------------------------------------------------------------------------
(* The session directories: only the store mode relies on them. *)

(* A step that touches no directory, of a call that holds none after it.   *)
LEMMA QuietKeeps ==
  ASSUME DiskInv, TypeOK, NEW c \in Calls, Frame(c), UNCHANGED disk,
         Durable => \A d \in Deliveries : thread[d] => thread'[d],
         ~Holds(c)'
  PROVE  DiskInv'
<1>1. \A e \in Calls : Holds(e)' => e # c /\ Holds(e)
  BY DEF Frame, Holds, Owner
<1>2. \A e \in Calls : Delivery(e)' = Delivery(e) /\ Delivery(e) \in Deliveries
  BY DeliveryType DEF Frame, Delivery
<1>3. NothingBeforeMkdir' /\ HolderHasDirectory' /\ OneHolder'
  BY <1>1, <1>2
     DEF DiskInv, NothingBeforeMkdir, HolderHasDirectory, OneHolder, disk
<1>4. OwnerProgress'
  <2> SUFFICES ASSUME NEW e \in Calls, Owner(e)'
               PROVE  /\ entries'[Delivery(e)'] = EntriesAt(pc'[e])
                      /\ transcript'[Delivery(e)'] = LinesAt(pc'[e])
    BY DEF OwnerProgress
  <2>1. e # c
    BY <1>1 DEF Holds
  <2>2. Owner(e) /\ pc'[e] = pc[e]
    BY <2>1 DEF Frame, Owner
  <2> QED
    BY <2>2, <1>2 DEF DiskInv, OwnerProgress, disk
<1>5. AcceptedIsComplete'
  <2> SUFFICES ASSUME NEW e \in Calls, result'[e] = "accepted"
               PROVE  /\ entries'[Delivery(e)'] = Entries
                      /\ transcript'[Delivery(e)'] = <<"accepted", "user">>
                      /\ Durable => thread'[Delivery(e)']
    BY DEF AcceptedIsComplete
  <2>1. result[e] = "accepted"
    BY DEF Holds, Frame
  <2> QED
    BY <2>1, <1>2 DEF DiskInv, AcceptedIsComplete, disk
<1> QED
  BY <1>3, <1>4, <1>5 DEF DiskInv

(* The mkdir that succeeds makes its call the first holder.                *)
LEMMA ClaimKeeps ==
  ASSUME UseStore, DiskInv, TypeOK, NEW c \in Calls, Frame(c),
         "directory" \notin entries[Delivery(c)],
         entries' = [entries EXCEPT ![Delivery(c)] = @ \cup {"directory"}],
         UNCHANGED <<transcript, thread>>,
         pc'[c] = "mkdirFiles", result'[c] # "accepted"
  PROVE  DiskInv'
<1> DEFINE d == Delivery(c)
<1>1. \A e \in Calls : Delivery(e)' = Delivery(e) /\ Delivery(e) \in Deliveries
  BY DeliveryType DEF Frame, Delivery
<1>2. \A e \in Calls : Holds(e)' => e = c \/ (Holds(e) /\ Delivery(e) # d)
  BY DEF Frame, Holds, Owner, DiskInv, HolderHasDirectory
<1>3. /\ entries'[d] = {"directory"}
      /\ transcript'[d] = <<>>
      /\ \A x \in Deliveries \ {d} : entries'[x] = entries[x]
  BY <1>1 DEF DiskInv, NothingBeforeMkdir, TypeOK
<1> HIDE DEF d
<1>4. NothingBeforeMkdir'
  BY <1>1, <1>3 DEF DiskInv, NothingBeforeMkdir
<1>5. HolderHasDirectory' /\ OneHolder'
  BY <1>1, <1>2, <1>3 DEF DiskInv, HolderHasDirectory, OneHolder, d
<1>6. OwnerProgress'
  <2> SUFFICES ASSUME NEW e \in Calls, Owner(e)'
               PROVE  /\ entries'[Delivery(e)'] = EntriesAt(pc'[e])
                      /\ transcript'[Delivery(e)'] = LinesAt(pc'[e])
    BY DEF OwnerProgress
  <2>1. CASE e = c
    BY <2>1, <1>1, <1>3 DEF EntriesAt, LinesAt, d
  <2>2. CASE e # c
    <3>1. Owner(e) /\ pc'[e] = pc[e] /\ Delivery(e) # d
      BY <2>2, <1>2 DEF Frame, Owner, Holds
    <3> QED
      BY <3>1, <1>1, <1>3 DEF DiskInv, OwnerProgress
  <2> QED
    BY <2>1, <2>2
<1>7. AcceptedIsComplete'
  <2> SUFFICES ASSUME NEW e \in Calls, result'[e] = "accepted"
               PROVE  /\ entries'[Delivery(e)'] = Entries
                      /\ transcript'[Delivery(e)'] = <<"accepted", "user">>
                      /\ Durable => thread'[Delivery(e)']
    BY DEF AcceptedIsComplete
  <2>1. e # c /\ result[e] = "accepted"
    BY DEF Frame
  <2>2. Delivery(e) # d
    BY <2>1, <1>2 DEF Holds
  <2> QED
    BY <2>1, <2>2, <1>1, <1>3 DEF DiskInv, AcceptedIsComplete
<1> QED
  BY <1>4, <1>5, <1>6, <1>7 DEF DiskInv

(* A step of the owner: it goes on, is accepted, or gives up.              *)
OwnerNext(c) ==
  LET d == Delivery(c)
  IN  \/ /\ pc'[c] \in Owning
         /\ result'[c] # "accepted"
         /\ entries'[d] = EntriesAt(pc'[c])
         /\ transcript'[d] = LinesAt(pc'[c])
      \/ /\ pc'[c] \notin Owning
         /\ result'[c] = "accepted"
         /\ entries'[d] = Entries
         /\ transcript'[d] = <<"accepted", "user">>
         /\ thread'[d]
      \/ /\ pc'[c] \notin Owning
         /\ result'[c] # "accepted"
         /\ "directory" \in entries'[d]

LEMMA OwnerKeeps ==
  ASSUME DiskInv, TypeOK, NEW c \in Calls, Frame(c), Owner(c), OwnerNext(c)
  PROVE  DiskInv'
<1> DEFINE d == Delivery(c)
<1>1. \A e \in Calls : Delivery(e)' = Delivery(e) /\ Delivery(e) \in Deliveries
  BY DeliveryType DEF Frame, Delivery
<1>2. \A e \in Calls \ {c} : Holds(e)' => Holds(e) /\ Delivery(e) # d
  BY DEF Frame, Holds, Owner, DiskInv, OneHolder
<1>3. \A x \in Deliveries \ {d} : /\ entries'[x] = entries[x]
                                  /\ transcript'[x] = transcript[x]
                                  /\ thread'[x] = thread[x]
  BY DEF Frame
<1>4. "directory" \in entries'[d]
  BY DEF OwnerNext, EntriesAt, Entries
<1> HIDE DEF d
<1>5. NothingBeforeMkdir'
  BY <1>3, <1>4 DEF DiskInv, NothingBeforeMkdir
<1>6. HolderHasDirectory' /\ OneHolder'
  BY <1>1, <1>2, <1>3, <1>4 DEF DiskInv, HolderHasDirectory, OneHolder, d
<1>7. OwnerProgress'
  <2> SUFFICES ASSUME NEW e \in Calls, Owner(e)'
               PROVE  /\ entries'[Delivery(e)'] = EntriesAt(pc'[e])
                      /\ transcript'[Delivery(e)'] = LinesAt(pc'[e])
    BY DEF OwnerProgress
  <2>1. CASE e = c
    BY <2>1, <1>1 DEF OwnerNext, Owner
  <2>2. CASE e # c
    <3>1. Owner(e) /\ pc'[e] = pc[e] /\ Delivery(e) # d
      BY <2>2, <1>2 DEF Frame, Owner, Holds
    <3> QED
      BY <3>1, <1>1, <1>3 DEF DiskInv, OwnerProgress
  <2> QED
    BY <2>1, <2>2
<1>8. AcceptedIsComplete'
  <2> SUFFICES ASSUME NEW e \in Calls, result'[e] = "accepted"
               PROVE  /\ entries'[Delivery(e)'] = Entries
                      /\ transcript'[Delivery(e)'] = <<"accepted", "user">>
                      /\ Durable => thread'[Delivery(e)']
    BY DEF AcceptedIsComplete
  <2>1. CASE e = c
    BY <2>1, <1>1 DEF OwnerNext
  <2>2. CASE e # c
    <3>1. result[e] = "accepted" /\ Delivery(e) # d
      BY <2>2, <1>2 DEF Frame, Holds
    <3> QED
      BY <3>1, <1>1, <1>3 DEF DiskInv, AcceptedIsComplete
  <2> QED
    BY <2>1, <2>2
<1> QED
  BY <1>5, <1>6, <1>7, <1>8 DEF DiskInv

(* The transcript an accepted session starts with is two appends away from *)
(* the empty one.                                                          *)
LEMMA TwoLines == Append(<<"accepted">>, "user") = <<"accepted", "user">>
<1> DEFINE s == <<"accepted">>
           t == <<"accepted", "user">>
<1>1. /\ s \in Seq({"accepted", "user"}) /\ Len(s) = 1 /\ s[1] = "accepted"
      /\ t \in Seq({"accepted", "user"}) /\ Len(t) = 2
      /\ t[1] = "accepted" /\ t[2] = "user"
  OBVIOUS
<1>2. /\ Append(s, "user") \in Seq({"accepted", "user"})
      /\ Len(Append(s, "user")) = 2
      /\ Append(s, "user")[1] = "accepted"
      /\ Append(s, "user")[2] = "user"
  BY <1>1, AppendProperties
<1> HIDE DEF s, t
<1>3. Append(s, "user") = t
  BY <1>1, <1>2
<1> QED
  BY <1>3 DEF s, t

(* Every step of a call falls under one of the three lemmas above.         *)
LEMMA DiskKeeps ==
  ASSUME UseStore, DiskInv, Control, ModeAssumption,
         NEW c \in Calls, CallStep(c)
  PROVE  DiskInv'
<1> DEFINE d == Delivery(c)
<1>1. d \in Deliveries /\ TypeOK /\ Frame(c)
  BY DeliveryType, StepFrame DEF Control
<1>2. pc[c] # "done" => result[c] = "none" /\ (Holds(c) => Owner(c))
  BY DEF Control, AnsweredWhenDone, Holds
<1>3. Owner(c) => /\ entries[d] = EntriesAt(pc[c])
                  /\ transcript[d] = LinesAt(pc[c])
  BY DEF DiskInv, OwnerProgress
<1>4. pc[c] = "invoke" => Owner(c)
  BY DEF Owner, Owning
<1> USE DEF TypeOK
<1>5. CASE Refuse(c)
  <2>1. ~Holds(c)'
    BY <1>1, <1>5 DEF Refuse, Reply, Refusal, Holds, Owner, Owning
  <2> QED
    BY <1>1, <1>5, <2>1, QuietKeeps DEF Refuse, disk
<1>6. CASE Submit(c)
  <2>1. ~Holds(c)'
    BY <1>1, <1>2, <1>6 DEF Submit, Holds, Owner, Owning
  <2> QED
    BY <1>1, <1>6, <2>1, QuietKeeps DEF Submit, disk
<1>7. CASE ReadMeta(c)
  <2>1. ~Holds(c)'
    <3>1. CASE Reply(c, "readMeta", "duplicate")
      BY <1>1, <3>1 DEF Reply, Holds, Owner, Owning
    <3>2. CASE Goto(c, "readMeta", "mkdir")
      BY <1>1, <1>2, <3>2 DEF Goto, Holds, Owner, Owning
    <3> QED
      BY <1>7, <3>1, <3>2 DEF ReadMeta
  <2> QED
    BY <1>1, <1>7, <2>1, QuietKeeps DEF ReadMeta, disk
<1>8. CASE GetThread(c)
  BY <1>8 DEF GetThread, Reply, Goto, Control, ModeStages
<1>9. CASE Mkdir(c)
  <2>1. CASE "directory" \in entries[d]
    <3>1. ~Holds(c)'
      BY <1>1, <1>9, <2>1 DEF Mkdir, Reply, Holds, Owner, Owning
    <3> QED
      BY <1>1, <1>9, <2>1, <3>1, QuietKeeps DEF Mkdir, disk
  <2>2. CASE "directory" \notin entries[d]
    <3>1. pc'[c] = "mkdirFiles" /\ result'[c] # "accepted"
      BY <1>1, <1>2, <1>9, <2>2 DEF Mkdir, Goto
    <3> QED
      BY <1>1, <1>9, <2>2, <3>1, ClaimKeeps DEF Mkdir, AddEntry
  <2> QED
    BY <2>1, <2>2
<1>10. CASE MkdirFiles(c)
  <2>1. Owner(c) /\ OwnerNext(c)
    BY <1>1, <1>2, <1>3, <1>10
       DEF MkdirFiles, Goto, AddEntry, Owner, OwnerNext, Owning, EntriesAt,
           LinesAt
  <2> QED
    BY <1>1, <2>1, OwnerKeeps
<1>11. CASE WriteMeta(c)
  <2>1. Owner(c) /\ OwnerNext(c)
    BY <1>1, <1>2, <1>3, <1>11
       DEF WriteMeta, Goto, AddEntry, Owner, OwnerNext, Owning, EntriesAt,
           LinesAt
  <2> QED
    BY <1>1, <2>1, OwnerKeeps
<1>12. CASE NewTranscript(c)
  <2>1. Owner(c) /\ OwnerNext(c)
    BY <1>1, <1>2, <1>3, <1>12
       DEF NewTranscript, Goto, AddEntry, Owner, OwnerNext, Owning, EntriesAt,
           LinesAt, Entries
  <2> QED
    BY <1>1, <2>1, OwnerKeeps
<1>13. CASE AppendAccepted(c)
  <2>1. Owner(c) /\ OwnerNext(c)
    BY <1>1, <1>2, <1>3, <1>13
       DEF AppendAccepted, AppendLine, Goto, Owner, OwnerNext, Owning,
           EntriesAt, LinesAt
  <2> QED
    BY <1>1, <2>1, OwnerKeeps
<1>14. CASE AppendUser(c)
  <2>1. pc[c] = "appendUser" /\ Owner(c)
    BY <1>14 DEF AppendUser, AppendLine, Goto, Owner, Owning, Control,
                 ModeStages
  <2>2. /\ pc'[c] = "invoke"
        /\ result'[c] # "accepted"
        /\ entries'[d] = Entries
        /\ transcript'[d] = Append(transcript[d], "user")
    BY <1>1, <1>2, <1>3, <1>14, <2>1
       DEF AppendUser, AppendLine, Goto, EntriesAt
  <2>3. transcript[d] = <<"accepted">>
    BY <1>3, <2>1 DEF LinesAt
  <2>4. transcript'[d] = <<"accepted", "user">>
    BY <2>2, <2>3, TwoLines
  <2>5. OwnerNext(c)
    BY <2>2, <2>4 DEF OwnerNext, Owning, EntriesAt, LinesAt
  <2> QED
    BY <1>1, <2>1, <2>5, OwnerKeeps
<1>15. CASE Invoke(c)
  <2>1. Owner(c) /\ OwnerNext(c)
    BY <1>1, <1>3, <1>4, <1>15
       DEF Invoke, Reply, disk, OwnerNext, Owning, EntriesAt, LinesAt
  <2> QED
    BY <1>1, <2>1, OwnerKeeps
<1>16. CASE StoreFails(c)
  <2>1. pc'[c] = "done" /\ result'[c] = "storeError"
    BY <1>1, <1>16 DEF StoreFails, Reply
  <2>2. CASE Owner(c)
    <3>1. "directory" \in entries'[d]
      BY <1>16, <2>2 DEF StoreFails, DiskInv, HolderHasDirectory, Holds
    <3>2. OwnerNext(c)
      BY <2>1, <3>1 DEF OwnerNext, Owning
    <3> QED
      BY <1>1, <2>2, <3>2, OwnerKeeps
  <2>3. CASE ~Owner(c)
    <3>1. UNCHANGED disk /\ thread' = thread
      BY <1>4, <1>16, <2>3 DEF StoreFails, disk, Owner, Owning
    <3>2. ~Holds(c)'
      BY <2>1 DEF Holds, Owner, Owning
    <3> QED
      BY <1>1, <3>1, <3>2, QuietKeeps
  <2> QED
    BY <2>2, <2>3
<1> QED
  BY <1>5, <1>6, <1>7, <1>8, <1>9, <1>10, <1>11, <1>12, <1>13, <1>14, <1>15,
     <1>16 DEF CallStep, Step

LEMMA DiskAfterCrash ==
  ASSUME DiskInv, Control, Crash
  PROVE  DiskInv'
<1>1. \A e \in Calls : /\ Delivery(e)' = Delivery(e)
                       /\ Delivery(e) \in Deliveries
  BY DeliveryType DEF Crash, Delivery, Control
<1>2. \A e \in Calls : /\ ~Owner(e)'
                       /\ result'[e] = "accepted" => result[e] = "accepted"
  BY DEF Crash, InFlight, Owner, Owning
<1>3. entries' = entries /\ transcript' = transcript
  BY DEF Crash
<1>4. NothingBeforeMkdir'
  BY <1>3 DEF DiskInv, NothingBeforeMkdir
<1>5. HolderHasDirectory' /\ OneHolder'
  BY <1>1, <1>2, <1>3 DEF DiskInv, HolderHasDirectory, OneHolder, Holds
<1>6. OwnerProgress'
  BY <1>2 DEF OwnerProgress
<1>7. AcceptedIsComplete'
  BY <1>1, <1>2, <1>3 DEF DiskInv, AcceptedIsComplete, Crash
<1> QED
  BY <1>4, <1>5, <1>6, <1>7 DEF DiskInv

-----------------------------------------------------------------------------
(* Duplicates: the call that was first, and still is there. *)

RivalInv == SeenHasMaker /\ DuplicateHasRival

(* A call that is not done has an answer of its own only later, so what it *)
(* runs into is another call's.                                            *)
LEMMA RivalKeeps ==
  ASSUME RivalInv, Control, ModeAssumption, NEW c \in Calls, CallStep(c)
  PROVE  RivalInv'
<1> DEFINE d == Delivery(c)
<1>1. d \in Deliveries /\ TypeOK /\ Frame(c)
  BY DeliveryType, StepFrame DEF Control
<1>2. \A e \in Calls : /\ Delivery(e)' = Delivery(e)
                       /\ Delivery(e) \in Deliveries
  BY <1>1, DeliveryType DEF Frame, Delivery
<1>3. pc[c] # "done" => result[c] = "none"
  BY DEF Control, AnsweredWhenDone
<1>4. /\ Maker(c) => Maker(c)'
      /\ entries'[d] # {} \/ thread'[d]
           => entries[d] # {} \/ thread[d] \/ Maker(c)'
      /\ result'[c] = "duplicate"
           => \/ result[c] = "duplicate"
              \/ ~Maker(c) /\ (entries[d] # {} \/ thread[d])
  <2> USE <1>1, <1>3 DEF TypeOK, Maker, Owner, Owning
  <2>1. CASE Refuse(c)
    BY <2>1 DEF Refuse, Reply, Refusal
  <2>2. CASE Submit(c)
    BY <2>2 DEF Submit
  <2>3. CASE ReadMeta(c)
    <3>1. CASE "meta" \in entries[d]
      BY <2>3, <3>1 DEF ReadMeta, Reply
    <3>2. CASE "meta" \notin entries[d]
      BY <2>3, <3>2 DEF ReadMeta, Goto
    <3> QED
      BY <3>1, <3>2
  <2>4. CASE GetThread(c)
    <3>1. CASE thread[d]
      BY <2>4, <3>1 DEF GetThread, Reply
    <3>2. CASE ~thread[d]
      BY <2>4, <3>2 DEF GetThread, Goto, Control, ModeStages
    <3> QED
      BY <3>1, <3>2
  <2>5. CASE Mkdir(c)
    <3>1. CASE "directory" \in entries[d]
      BY <2>5, <3>1 DEF Mkdir, Reply
    <3>2. CASE "directory" \notin entries[d]
      BY <2>5, <3>2 DEF Mkdir, Goto, Control, ModeStages
    <3> QED
      BY <3>1, <3>2
  <2>6. CASE MkdirFiles(c)
    BY <2>6 DEF MkdirFiles, Goto, Control, ModeStages
  <2>7. CASE WriteMeta(c)
    BY <2>7 DEF WriteMeta, Goto, Control, ModeStages
  <2>8. CASE NewTranscript(c)
    BY <2>8 DEF NewTranscript, Goto, Control, ModeStages
  <2>9. CASE AppendAccepted(c)
    BY <2>9 DEF AppendAccepted, AppendLine, Goto, Control, ModeStages
  <2>10. CASE AppendUser(c)
    BY <2>10 DEF AppendUser, AppendLine, Goto, Control, ModeStages
  <2>11. CASE Invoke(c)
    BY <2>11 DEF Invoke, Reply, disk
  <2>12. CASE StoreFails(c)
    BY <2>12 DEF StoreFails, Reply
  <2> QED
    BY <2>1, <2>2, <2>3, <2>4, <2>5, <2>6, <2>7, <2>8, <2>9, <2>10, <2>11,
       <2>12 DEF CallStep, Step
<1>5. \A e \in Calls : Maker(e) => Maker(e)'
  BY <1>1, <1>4 DEF Frame, Maker, Owner
<1>6. SeenHasMaker'
  <2> SUFFICES ASSUME NEW x \in Deliveries, entries'[x] # {} \/ thread'[x]
               PROVE  \E r \in Calls : Delivery(r)' = x /\ Maker(r)'
    BY DEF SeenHasMaker
  <2>1. CASE entries[x] # {} \/ thread[x]
    BY <2>1, <1>2, <1>5 DEF RivalInv, SeenHasMaker
  <2>2. CASE ~(entries[x] # {} \/ thread[x])
    BY <2>2, <1>1, <1>2, <1>4 DEF Frame
  <2> QED
    BY <2>1, <2>2
<1>7. DuplicateHasRival'
  <2> SUFFICES ASSUME NEW e \in Calls, result'[e] = "duplicate"
               PROVE  \E r \in Calls \ {e} : /\ Delivery(r)' = Delivery(e)'
                                             /\ Maker(r)'
    BY DEF DuplicateHasRival, Maker
  <2>1. CASE result[e] = "duplicate"
    <3>1. PICK r \in Calls \ {e} : Delivery(r) = Delivery(e) /\ Maker(r)
      BY <2>1 DEF RivalInv, DuplicateHasRival, Maker
    <3> QED
      BY <3>1, <1>2, <1>5
  <2>2. CASE result[e] # "duplicate"
    <3>1. e = c /\ ~Maker(c) /\ (entries[d] # {} \/ thread[d])
      BY <2>2, <1>1, <1>4 DEF Frame
    <3>2. PICK r \in Calls : Delivery(r) = d /\ Maker(r)
      BY <3>1, <1>1 DEF RivalInv, SeenHasMaker
    <3> QED
      BY <3>1, <3>2, <1>2, <1>5
  <2> QED
    BY <2>1, <2>2
<1> QED
  BY <1>6, <1>7 DEF RivalInv

LEMMA RivalAfterCrash ==
  ASSUME RivalInv, Control, Crash
  PROVE  RivalInv'
<1>1. \A e \in Calls : /\ Delivery(e)' = Delivery(e)
                       /\ Delivery(e) \in Deliveries
  BY DeliveryType DEF Crash, Delivery, Control
<1>2. \A e \in Calls : Maker(e) => Maker(e)'
  BY DEF Crash, Maker, Owner, Owning, InFlight
<1>3. \A x \in Deliveries : entries'[x] = entries[x] /\ (thread'[x] => thread[x])
  BY DEF Crash
<1>4. \A e \in Calls : result'[e] = "duplicate" => result[e] = "duplicate"
  BY DEF Crash
<1>5. SeenHasMaker'
  BY <1>1, <1>2, <1>3 DEF RivalInv, SeenHasMaker
<1>6. DuplicateHasRival'
  <2> SUFFICES ASSUME NEW e \in Calls, result'[e] = "duplicate"
               PROVE  \E r \in Calls \ {e} : /\ Delivery(r)' = Delivery(e)'
                                             /\ Maker(r)'
    BY DEF DuplicateHasRival, Maker
  <2>1. PICK r \in Calls \ {e} : Delivery(r) = Delivery(e) /\ Maker(r)
    BY <1>4 DEF RivalInv, DuplicateHasRival, Maker
  <2> QED
    BY <2>1, <1>1, <1>2
<1> QED
  BY <1>5, <1>6 DEF RivalInv

-----------------------------------------------------------------------------
(* A retry is late because of an acceptance that was answered, which stays *)
(* answered; without a store, a durable thread remembers it and keeps the  *)
(* retry from the graph.                                                   *)
LateHasReason ==
  \A c \in late :
    \E e \in Calls \ {c} :
      Delivery(e) = Delivery(c) /\ result[e] = "accepted"

ThreadRemembers ==
  \A c \in Calls : result[c] = "accepted" => thread[Delivery(c)]

LateIsKept == \A c \in late : pc[c] \notin {"new", "invoke"}

LateInv ==
  /\ LateHasReason
  /\ Durable /\ ~UseStore =>
       ThreadRemembers /\ LateIsKept /\ LateRetryNotAccepted

(* What a step of c does to acceptances, threads and late calls. *)
LEMMA AcceptingStep ==
  ASSUME Control, NEW c \in Calls, CallStep(c)
  PROVE  /\ \A e \in Calls : result[e] = "accepted" => result'[e] = "accepted"
         /\ \A d \in Deliveries : thread[d] => thread'[d]
         /\ result'[c] = "accepted" =>
              \/ result[c] = "accepted"
              \/ pc[c] = "invoke" /\ thread'[Delivery(c)]
         /\ \/ late' = late
            \/ /\ late' = late \cup {c} /\ Accepted(Delivery(c))
               /\ pc'[c] \in {"readMeta", "getThread"} /\ result[c] = "none"
               /\ result' = result
         /\ pc'[c] = "invoke" /\ ~UseStore =>
              pc[c] = "getThread" /\ ~thread[Delivery(c)]
         /\ pc'[c] # "new"
<1>1. Delivery(c) \in Deliveries
  BY DeliveryType DEF Control
<1> USE <1>1 DEF Control, TypeOK, AnsweredWhenDone, ModeStages, Owning
<1>2. CASE Refuse(c)
  BY <1>2 DEF Refuse, Reply, Refusal
<1>3. CASE Submit(c)
  BY <1>3 DEF Submit
<1>4. CASE ReadMeta(c)
  BY <1>4 DEF ReadMeta, Reply, Goto
<1>5. CASE GetThread(c)
  BY <1>5 DEF GetThread, Reply, Goto
<1>6. CASE Mkdir(c)
  BY <1>6 DEF Mkdir, Reply, Goto
<1>7. CASE MkdirFiles(c)
  BY <1>7 DEF MkdirFiles, Goto
<1>8. CASE WriteMeta(c)
  BY <1>8 DEF WriteMeta, Goto
<1>9. CASE NewTranscript(c)
  BY <1>9 DEF NewTranscript, Goto
<1>10. CASE AppendAccepted(c)
  BY <1>10 DEF AppendAccepted, AppendLine, Goto
<1>11. CASE AppendUser(c)
  BY <1>11 DEF AppendUser, AppendLine, Goto
<1>12. CASE Invoke(c)
  BY <1>12 DEF Invoke, Reply
<1>13. CASE StoreFails(c)
  BY <1>13 DEF StoreFails, Reply, InFlight
<1> QED
  BY <1>2, <1>3, <1>4, <1>5, <1>6, <1>7, <1>8, <1>9, <1>10, <1>11, <1>12,
     <1>13 DEF CallStep, Step

LEMMA LateKeeps ==
  ASSUME LateInv, Control, NEW c \in Calls, CallStep(c)
  PROVE  LateInv'
<1>1. Frame(c)
  BY StepFrame DEF Control
<1>2. \A e \in Calls : /\ Delivery(e)' = Delivery(e)
                       /\ Delivery(e) \in Deliveries
  BY <1>1, DeliveryType DEF Frame, Delivery, Control
<1>3. LateHasReason'
  <2> SUFFICES ASSUME NEW e \in late'
               PROVE  \E f \in Calls \ {e} : /\ Delivery(f)' = Delivery(e)'
                                             /\ result'[f] = "accepted"
    BY DEF LateHasReason
  <2>1. CASE e \in late
    <3>1. PICK f \in Calls \ {e} : /\ Delivery(f) = Delivery(e)
                                   /\ result[f] = "accepted"
      BY <2>1 DEF LateInv, LateHasReason
    <3> QED
      BY <2>1, <3>1, <1>2, AcceptingStep DEF Control, TypeOK
  <2>2. CASE e \notin late
    <3>1. e = c /\ Accepted(Delivery(c)) /\ result[c] = "none"
      BY <2>2, AcceptingStep
    <3>2. PICK f \in Calls : /\ Delivery(f) = Delivery(c)
                             /\ result[f] = "accepted"
      BY <3>1 DEF Accepted
    <3> QED
      BY <3>1, <3>2, <1>2, AcceptingStep
  <2> QED
    BY <2>1, <2>2
<1>4. ASSUME Durable, ~UseStore
      PROVE  (ThreadRemembers /\ LateIsKept /\ LateRetryNotAccepted)'
  <2>1. ThreadRemembers /\ LateIsKept /\ LateRetryNotAccepted
    BY <1>4 DEF LateInv
  <2>2. ThreadRemembers'
    BY <2>1, <1>1, <1>2, AcceptingStep DEF ThreadRemembers, Frame
  <2>3. c \in late => thread[Delivery(c)]
    BY <2>1, <1>2 DEF LateInv, LateHasReason, ThreadRemembers
  <2>4. LateIsKept'
    BY <2>1, <2>3, <1>1, <1>4, AcceptingStep
       DEF LateIsKept, Frame, Control, TypeOK
  <2>5. LateRetryNotAccepted'
    BY <2>1, <1>1, AcceptingStep
       DEF LateRetryNotAccepted, LateIsKept, Frame, Control, TypeOK
  <2> QED
    BY <2>2, <2>4, <2>5
<1> QED
  BY <1>3, <1>4 DEF LateInv

LEMMA LateAfterCrash ==
  ASSUME LateInv, Control, Crash
  PROVE  LateInv'
<1>1. \A e \in Calls : /\ Delivery(e)' = Delivery(e)
                       /\ Delivery(e) \in Deliveries
  BY DeliveryType DEF Crash, Delivery, Control
<1>2. /\ \A e \in Calls : result'[e] = "accepted" <=> result[e] = "accepted"
      /\ \A e \in Calls : pc'[e] = pc[e] \/ pc'[e] = "done"
      /\ \A d \in Deliveries : Durable /\ thread[d] => thread'[d]
      /\ late' = late /\ late \subseteq Calls
  BY DEF Crash, Control, TypeOK, AnsweredWhenDone, InFlight
<1> QED
  BY <1>1, <1>2 DEF LateInv, LateHasReason, ThreadRemembers, LateIsKept,
                    LateRetryNotAccepted

-----------------------------------------------------------------------------
(* The theorems. *)

LEMMA UnchangedKeeps ==
  ASSUME UNCHANGED vars
  PROVE  (Control => Control') /\ (DiskInv => DiskInv')
         /\ (RivalInv => RivalInv')
BY DEF vars, Control, TypeOK, AnsweredWhenDone, ModeStages, DiskInv,
       NothingBeforeMkdir, HolderHasDirectory, OneHolder, OwnerProgress,
       AcceptedIsComplete, RivalInv, SeenHasMaker, DuplicateHasRival, Maker,
       Holds, Owner, Delivery

(* Types, and the stages each mode uses, in both modes. *)
THEOREM ControlCorrect == Spec => []Control
<1>1. Init => Control
  BY DEF Init, Control, TypeOK, AnsweredWhenDone, ModeStages, Stages, Results,
         Owning
<1>2. Control /\ [Next]_vars => Control'
  BY ModeAssumption, ControlKeeps, ControlAfterCrash, UnchangedKeeps
     DEF Next, CallStep
<1> QED
  BY <1>1, <1>2, PTL DEF Spec

(* Every variable keeps its type. *)
THEOREM TypeCorrect == Spec => []TypeOK
<1>1. Control => TypeOK
  BY DEF Control
<1> QED
  BY <1>1, ControlCorrect, PTL

(* With a session store, at most one holder per delivery at all times. *)
THEOREM DiskCorrect == ASSUME UseStore PROVE Spec => []DiskInv
<1>1. Init => DiskInv
  BY DEF Init, DiskInv, NothingBeforeMkdir, HolderHasDirectory, OneHolder,
         OwnerProgress, AcceptedIsComplete, Holds, Owner, Owning
<1>2. DiskInv /\ Control /\ [Next]_vars => DiskInv'
  BY UseStore, ModeAssumption, DiskKeeps, DiskAfterCrash, UnchangedKeeps
     DEF Next, CallStep
<1> QED
  BY <1>1, <1>2, ControlCorrect, PTL DEF Spec

(* With a session store no delivery is ever accepted twice, whatever the   *)
(* interleaving of the calls, the store's failures and the crashes.        *)
THEOREM NoSecondSession == ASSUME UseStore PROVE Spec => []AcceptedOnce
<1>1. DiskInv => AcceptedOnce
  BY DEF DiskInv, OneHolder, Holds, AcceptedOnce
<1> QED
  BY <1>1, DiskCorrect, PTL

(* With a session store an accepted call has left the whole session behind.*)
THEOREM AcceptedSessionsComplete ==
  ASSUME UseStore PROVE Spec => []AcceptedIsComplete
<1>1. DiskInv => AcceptedIsComplete
  BY DEF DiskInv
<1> QED
  BY <1>1, DiskCorrect, PTL

(* In both modes a duplicate runs into what another call left.             *)
THEOREM DuplicatesHaveRivals == Spec => []DuplicateHasRival
<1>1. Init => RivalInv
  BY DEF Init, RivalInv, SeenHasMaker, DuplicateHasRival
<1>2. RivalInv /\ Control /\ [Next]_vars => RivalInv'
  BY ModeAssumption, RivalKeeps, RivalAfterCrash, UnchangedKeeps
     DEF Next, CallStep
<1>3. RivalInv => DuplicateHasRival
  BY DEF RivalInv
<1> QED
  BY <1>1, <1>2, <1>3, ControlCorrect, PTL DEF Spec

(* When the checkpointer is durable or there is a store, a retry that was  *)
(* sent after the acceptance had been answered is never accepted again.    *)
THEOREM LateRetriesRefused ==
  ASSUME Durable \/ UseStore
  PROVE  Spec => []LateRetryNotAccepted
<1>1. Init => LateInv
  BY DEF Init, LateInv, LateHasReason, ThreadRemembers, LateIsKept,
         LateRetryNotAccepted
<1>2. LateInv /\ UNCHANGED vars => LateInv'
  BY DEF vars, LateInv, LateHasReason, ThreadRemembers, LateIsKept,
         LateRetryNotAccepted, Delivery
<1>3. LateInv /\ Control /\ [Next]_vars => LateInv'
  BY <1>2, LateKeeps, LateAfterCrash DEF Next, CallStep
<1>4. Spec => []LateInv
  BY <1>1, <1>3, ControlCorrect, PTL DEF Spec
<1>5. CASE UseStore
  <2>1. LateInv /\ Control /\ AcceptedOnce => LateRetryNotAccepted
    BY DEF LateInv, LateHasReason, AcceptedOnce, LateRetryNotAccepted,
           Control, TypeOK
  <2>2. Spec => []AcceptedOnce
    BY <1>5, NoSecondSession
  <2> QED
    BY <1>4, <2>1, <2>2, ControlCorrect, PTL
<1>6. CASE ~UseStore
  <2>1. LateInv => LateRetryNotAccepted
    BY <1>6 DEF LateInv
  <2> QED
    BY <1>4, <2>1, PTL
<1> QED
  BY <1>5, <1>6

-----------------------------------------------------------------------------
(* With a session store, SessionAccept implements DeliveryContract, for    *)
(* every set of calls and deliveries.                                      *)

(* The open claims of the contract, as the refinement mapping gives them. *)
OpenClaims == {p \in Calls \X Deliveries :
                 Owner(p[1]) /\ Delivery(p[1]) = p[2]}

(* Open claims, pair by pair, before and after a step. *)
LEMMA ClaimPairs ==
  /\ OpenClaims \subseteq Calls \X Deliveries
  /\ OpenClaims' \subseteq Calls \X Deliveries
  /\ \A c \in Calls, d \in Deliveries :
       /\ <<c, d>> \in OpenClaims <=> Owner(c) /\ Delivery(c) = d
       /\ <<c, d>> \in OpenClaims' <=> Owner(c)' /\ Delivery(c)' = d
BY DEF OpenClaims

(* What a delivery's phase depends on. *)
SameClaim(d) ==
  /\ Accepted(d)' <=> Accepted(d)
  /\ Claimed(d)' <=> Claimed(d)
  /\ "directory" \in entries'[d] <=> "directory" \in entries[d]

LEMMA SamePhase ==
  ASSUME NEW d \in Deliveries, SameClaim(d)
  PROVE  Phase(d)' = Phase(d)
<1>1. CASE Accepted(d)
  BY <1>1 DEF SameClaim, Phase
<1>2. CASE ~Accepted(d) /\ Claimed(d)
  BY <1>2 DEF SameClaim, Phase
<1>3. CASE ~Accepted(d) /\ ~Claimed(d)
  BY <1>3 DEF SameClaim, Phase
<1> QED
  BY <1>1, <1>2, <1>3

LEMMA OwnerIsClaimed ==
  ASSUME DiskInv, Control, NEW c \in Calls, Owner(c)
  PROVE  Phase(Delivery(c)) = "claimed"
<1>1. result[c] = "none"
  BY DEF Control, AnsweredWhenDone, Owner, Owning
<1>2. ~Accepted(Delivery(c))
  BY <1>1 DEF Accepted, DiskInv, OneHolder, Holds
<1>3. Claimed(Delivery(c))
  BY DEF Claimed
<1> QED
  BY <1>2, <1>3 DEF Phase

(* A step of call c leaves the phase of the other deliveries alone. *)
LEMMA OtherPhases ==
  ASSUME TypeOK, NEW c \in Calls, Frame(c),
         NEW d \in Deliveries \ {Delivery(c)}
  PROVE  Phase(d)' = Phase(d)
<1>1. \A e \in Calls : Delivery(e)' = Delivery(e)
  BY DEF Frame, Delivery
<1>2. SameClaim(d)
  BY <1>1 DEF Frame, SameClaim, Accepted, Claimed, Owner
<1> QED
  BY <1>2, SamePhase

(* A step of call c that changes neither its role nor its directory. *)
LEMMA SameRole ==
  ASSUME TypeOK, NEW c \in Calls, Frame(c),
         Owner(c)' <=> Owner(c),
         result'[c] = "accepted" <=> result[c] = "accepted",
         "directory" \in entries'[Delivery(c)]
           <=> "directory" \in entries[Delivery(c)]
  PROVE  /\ \A d \in Deliveries : Phase(d)' = Phase(d)
         /\ OpenClaims' = OpenClaims
<1>1. \A e \in Calls : Delivery(e)' = Delivery(e)
  BY DEF Frame, Delivery
<1>2. \A e \in Calls : /\ Owner(e)' <=> Owner(e)
                       /\ result'[e] = "accepted" <=> result[e] = "accepted"
  BY DEF Frame, Owner
<1>3. ASSUME NEW d \in Deliveries
      PROVE  SameClaim(d)
  BY <1>1, <1>2 DEF SameClaim, Accepted, Claimed, Frame
<1>4. \A d \in Deliveries : Phase(d)' = Phase(d)
  BY <1>3, SamePhase
<1>5. OpenClaims' = OpenClaims
  <2>1. \A e \in Calls, d \in Deliveries :
          <<e, d>> \in OpenClaims' <=> <<e, d>> \in OpenClaims
    BY <1>1, <1>2, ClaimPairs
  <2> QED
    BY <2>1, ClaimPairs
<1> QED
  BY <1>4, <1>5

-----------------------------------------------------------------------------
PhaseMap == [d \in Deliveries |-> Phase(d)]

(* The two ways a call is answered without having claimed anything, and    *)
(* the steps the contract does not see.                                    *)
LEMMA Declines ==
  ASSUME TypeOK, NEW c \in Calls, Frame(c),
         NEW a \in {"duplicate", "invalid", "payloadLimit", "storeError"},
         ~Owner(c), ~Owner(c)', result[c] = "none",
         result' = [result EXCEPT ![c] = a],
         entries' = entries,
         a = "duplicate" => Phase(Delivery(c)) # "free"
  PROVE  Contract!Next
<1>1. Delivery(c) \in Deliveries
  BY DeliveryType
<1>2. result'[c] = a
  BY DEF TypeOK
<1>3. (\A d \in Deliveries : Phase(d)' = Phase(d)) /\ OpenClaims' = OpenClaims
  BY <1>2, SameRole
<1>4. Contract!Decline(c, Delivery(c))
  BY <1>1, <1>3 DEF Contract!Decline, Contract!Answer, Contract!Claimless, OpenClaims
<1> QED
  BY <1>1, <1>4 DEF Contract!Next

LEMMA Stutters ==
  ASSUME TypeOK, NEW c \in Calls, Frame(c),
         Owner(c)' <=> Owner(c), result' = result,
         "directory" \in entries'[Delivery(c)]
           <=> "directory" \in entries[Delivery(c)]
  PROVE  UNCHANGED Contract!vars
<1>1. (\A d \in Deliveries : Phase(d)' = Phase(d)) /\ OpenClaims' = OpenClaims
  BY SameRole
<1> QED
  BY <1>1 DEF Contract!vars, OpenClaims

(* The mkdir that succeeds is the contract's Claim. *)
LEMMA Claims ==
  ASSUME Control, DiskInv, NEW c \in Calls, Frame(c),
         UseStore, Mkdir(c), "directory" \notin entries[Delivery(c)]
  PROVE  Contract!Next
<1>1. PICK x \in Deliveries : x = Delivery(c)
  BY DeliveryType DEF Control
<1>2. pc[c] = "mkdir" /\ pc'[c] = "mkdirFiles" /\ result' = result
  BY DEF Mkdir, Goto, Control, TypeOK
<1>3. ~Owner(c) /\ Owner(c)'
  BY <1>2 DEF Owner, Owning
<1>4. result[c] = "none"
  BY <1>2 DEF Control, AnsweredWhenDone
<1>5. \A e \in Calls : Delivery(e)' = Delivery(e)
  BY DEF Frame, Delivery
<1>6. \A e \in Calls : Delivery(e) = x => ~Holds(e)
  BY <1>1 DEF DiskInv, HolderHasDirectory
<1>7. Phase(x) = "free"
  BY <1>1, <1>6 DEF Phase, Holds, Accepted, Claimed
<1>8. Phase(x)' = "claimed"
  <2>1. ~Accepted(x)'
    BY <1>2, <1>5, <1>6 DEF Accepted, Holds
  <2>2. Claimed(x)'
    BY <1>1, <1>3, <1>5 DEF Claimed
  <2> QED
    BY <2>1, <2>2 DEF Phase
<1>9. PhaseMap' = [PhaseMap EXCEPT ![x] = "claimed"]
  BY <1>1, <1>8, OtherPhases DEF Control, PhaseMap
<1>10. OpenClaims' = OpenClaims \cup {<<c, x>>}
  <2>1. \A e \in Calls \ {c} : Owner(e)' <=> Owner(e)
    BY DEF Frame, Owner
  <2>2. \A e \in Calls, d \in Deliveries :
          <<e, d>> \in OpenClaims' <=> <<e, d>> \in OpenClaims \cup {<<c, x>>}
    BY <1>1, <1>3, <1>5, <2>1, ClaimPairs
  <2> QED
    BY <1>1, <2>2, ClaimPairs
<1>11. Contract!Claim(c, x)
  BY <1>2, <1>3, <1>4, <1>7, <1>9, <1>10
     DEF Contract!Claim, Contract!Claimless, PhaseMap, OpenClaims
<1> QED
  BY <1>11 DEF Contract!Next

(* The owner's last step settles the claim: accepted or abandoned.         *)
LEMMA Settles ==
  ASSUME Control, DiskInv, NEW c \in Calls, Frame(c), Owner(c), ~Owner(c)',
         NEW a \in {"accepted", "storeError"},
         result' = [result EXCEPT ![c] = a],
         entries' = entries
  PROVE  Contract!Next
<1>1. PICK x \in Deliveries : x = Delivery(c)
  BY DeliveryType DEF Control
<1>2. result[c] = "none" /\ result'[c] = a
  BY DEF Control, TypeOK, AnsweredWhenDone, Owner, Owning
<1>3. \A e \in Calls : Delivery(e)' = Delivery(e)
  BY DEF Frame, Delivery
<1>4. \A e \in Calls \ {c} : Delivery(e) = x => ~Holds(e)
  BY <1>1 DEF DiskInv, OneHolder, Holds
<1>5. Phase(x) = "claimed"
  BY <1>1, OwnerIsClaimed
<1>6. Phase(x)' = IF a = "accepted" THEN "accepted" ELSE "abandoned"
  <2>1. ~Claimed(x)'
    BY <1>3, <1>4 DEF Claimed, Holds, Frame, Owner
  <2>2. Accepted(x)' <=> a = "accepted"
    BY <1>1, <1>2, <1>3, <1>4 DEF Accepted, Holds, Frame
  <2>3. "directory" \in entries'[x]
    BY <1>1 DEF DiskInv, HolderHasDirectory, Holds
  <2>4. CASE a = "accepted"
    BY <2>2, <2>4 DEF Phase
  <2>5. CASE a = "storeError"
    BY <2>1, <2>2, <2>3, <2>5 DEF Phase
  <2> QED
    BY <2>4, <2>5
<1>7. PhaseMap' = [PhaseMap EXCEPT ![x] = Phase(x)']
  BY <1>1, OtherPhases DEF Control, PhaseMap
<1>8. OpenClaims' = OpenClaims \ {<<c, x>>}
  <2>1. \A e \in Calls \ {c} : Owner(e)' <=> Owner(e)
    BY DEF Frame, Owner
  <2>2. \A e \in Calls, d \in Deliveries :
          <<e, d>> \in OpenClaims' <=> <<e, d>> \in OpenClaims \ {<<c, x>>}
    BY <1>1, <1>3, <2>1, ClaimPairs
  <2> QED
    BY <1>1, <2>2, ClaimPairs
<1>9. CASE a = "accepted"
  <2>1. Contract!Accept(c, x)
    BY <1>1, <1>2, <1>5, <1>6, <1>7, <1>8, <1>9
       DEF Contract!Accept, Contract!Answer, PhaseMap, OpenClaims
  <2> QED
    BY <2>1 DEF Contract!Next
<1>10. CASE a = "storeError"
  <2>1. Contract!Abandon(c, x)
    BY <1>1, <1>2, <1>5, <1>6, <1>7, <1>8, <1>10
       DEF Contract!Abandon, Contract!Answer, PhaseMap, OpenClaims
  <2> QED
    BY <2>1 DEF Contract!Next
<1> QED
  BY <1>9, <1>10

(* A crash abandons every open claim at once. *)
LEMMA Dies ==
  ASSUME Control, DiskInv, Crash
  PROVE  Contract!Next
<1> DEFINE S == {c \in Calls : InFlight(c)}
<1>1. S # {} /\ S \in SUBSET {c \in Calls : result[c] = "none"}
  BY DEF Crash, InFlight, Control, AnsweredWhenDone
<1>2. (\A p \in OpenClaims : p[1] \in S) /\ OpenClaims' = {}
  BY DEF OpenClaims, Owner, Owning, InFlight, Crash
<1>3. result' = [c \in Calls |-> IF c \in S THEN "lost" ELSE result[c]]
  BY DEF Crash
<1>4. ASSUME NEW d \in Deliveries
      PROVE  Phase(d)' = IF Phase(d) = "claimed" THEN "abandoned" ELSE Phase(d)
  <2>1. \A e \in Calls : /\ Delivery(e)' = Delivery(e)
                         /\ result'[e] = "accepted" <=> result[e] = "accepted"
    BY <1>1, <1>3 DEF Crash, Delivery
  <2>2. Accepted(d)' <=> Accepted(d)
    BY <2>1 DEF Accepted
  <2>3. ~Claimed(d)'
    BY DEF Claimed, Crash, InFlight, Owner, Owning
  <2>4. Claimed(d) => "directory" \in entries[d]
    BY DEF Claimed, DiskInv, HolderHasDirectory, Holds
  <2>5. entries' = entries
    BY DEF Crash
  <2>6. CASE Accepted(d)
    BY <2>2, <2>6 DEF Phase
  <2>7. CASE ~Accepted(d) /\ Claimed(d)
    BY <2>2, <2>3, <2>4, <2>5, <2>7 DEF Phase
  <2>8. CASE ~Accepted(d) /\ ~Claimed(d)
    BY <2>2, <2>3, <2>5, <2>8 DEF Phase
  <2> QED
    BY <2>6, <2>7, <2>8
<1> HIDE DEF S
<1>5. Contract!Die
  BY <1>1, <1>2, <1>3, <1>4 DEF Contract!Die, Contract!Claimless, OpenClaims
<1> QED
  BY <1>5 DEF Contract!Next

LEMMA RefinesCallStep ==
  ASSUME UseStore, Control, ModeAssumption, DiskInv, DiskInv',
         NEW c \in Calls, CallStep(c)
  PROVE  Contract!Next \/ UNCHANGED Contract!vars
<1> DEFINE d == Delivery(c)
<1>1. d \in Deliveries /\ TypeOK /\ Frame(c)
  BY DeliveryType, StepFrame DEF Control
<1>2. pc[c] # "done" => result[c] = "none"
  BY DEF Control, AnsweredWhenDone
<1>3. Owner(c) => "directory" \in entries[d]
  BY DEF DiskInv, HolderHasDirectory, Holds
<1> USE DEF TypeOK
<1>4. CASE Refuse(c)
  <2>1. ~Owner(c) /\ ~Owner(c)'
    BY <1>1, <1>4 DEF Refuse, Reply, Owner, Owning
  <2>2. PICK a \in {"invalid", "payloadLimit"} :
          result' = [result EXCEPT ![c] = a]
    BY <1>4 DEF Refuse, Reply, Refusal
  <2>3. result[c] = "none" /\ entries' = entries
    BY <1>2, <1>4 DEF Refuse, Reply
  <2> QED
    BY <1>1, <2>1, <2>2, <2>3, Declines
<1>5. CASE Submit(c)
  <2>1. Owner(c)' <=> Owner(c)
    BY <1>1, <1>5 DEF Submit, Owner, Owning
  <2> QED
    BY <1>1, <1>5, <2>1, Stutters DEF Submit
<1>6. CASE ReadMeta(c)
  <2>1. CASE "meta" \in entries[d]
    <3>1. /\ ~Owner(c) /\ ~Owner(c)'
          /\ result[c] = "none"
          /\ result' = [result EXCEPT ![c] = "duplicate"]
          /\ entries' = entries
      BY <1>1, <1>2, <1>6, <2>1 DEF ReadMeta, Reply, Owner, Owning
    <3>2. Phase(d) # "free"
      BY <1>1, <2>1 DEF DiskInv, NothingBeforeMkdir, Phase
    <3> QED
      BY <1>1, <3>1, <3>2, Declines
  <2>2. CASE "meta" \notin entries[d]
    <3>1. (Owner(c)' <=> Owner(c)) /\ result' = result /\ entries' = entries
      BY <1>1, <1>6, <2>2 DEF ReadMeta, Goto, Owner, Owning
    <3> QED
      BY <1>1, <3>1, Stutters
  <2> QED
    BY <2>1, <2>2
<1>7. CASE GetThread(c)
  BY <1>7 DEF GetThread, Reply, Goto, Control, ModeStages
<1>8. CASE Mkdir(c)
  <2>1. CASE "directory" \in entries[d]
    <3>1. /\ ~Owner(c) /\ ~Owner(c)'
          /\ result[c] = "none"
          /\ result' = [result EXCEPT ![c] = "duplicate"]
          /\ entries' = entries
      BY <1>1, <1>2, <1>8, <2>1 DEF Mkdir, Reply, Owner, Owning
    <3>2. Phase(d) # "free"
      BY <2>1 DEF Phase
    <3> QED
      BY <1>1, <3>1, <3>2, Declines
  <2>2. CASE "directory" \notin entries[d]
    BY <1>1, <1>8, <2>2, Claims
  <2> QED
    BY <2>1, <2>2
<1>9. CASE MkdirFiles(c) \/ WriteMeta(c) \/ NewTranscript(c)
  <2>1. Owner(c) /\ Owner(c)' /\ result' = result
    BY <1>1, <1>9 DEF MkdirFiles, WriteMeta, NewTranscript, Goto, Owner, Owning
  <2>2. "directory" \in entries'[d]
    BY <1>1, <1>3, <1>9, <2>1 DEF MkdirFiles, WriteMeta, NewTranscript, AddEntry
  <2> QED
    BY <1>1, <1>3, <2>1, <2>2, Stutters
<1>10. CASE AppendAccepted(c) \/ AppendUser(c)
  <2>1. Owner(c) /\ Owner(c)' /\ result' = result /\ entries' = entries
    BY <1>1, <1>10
       DEF AppendAccepted, AppendUser, AppendLine, Goto, Owner, Owning
  <2> QED
    BY <1>1, <2>1, Stutters
<1>11. CASE Invoke(c)
  <2>1. Owner(c) /\ ~Owner(c)' /\ entries' = entries
    BY <1>1, <1>11 DEF Invoke, Reply, disk, Owner, Owning
  <2>2. result' = [result EXCEPT ![c] = "accepted"]
    BY <1>11 DEF Invoke, Reply
  <2> QED
    BY <1>1, <2>1, <2>2, Settles
<1>12. CASE StoreFails(c)
  <2>1. ~Owner(c)' /\ entries' = entries /\ result[c] = "none"
    BY <1>1, <1>2, <1>12 DEF StoreFails, InFlight, Reply, Owner, Owning
  <2>2. result' = [result EXCEPT ![c] = "storeError"]
    BY <1>12 DEF StoreFails, Reply
  <2>3. CASE Owner(c)
    BY <1>1, <2>1, <2>2, <2>3, Settles
  <2>4. CASE ~Owner(c)
    BY <1>1, <2>1, <2>2, <2>4, Declines
  <2> QED
    BY <2>3, <2>4
<1> QED
  BY <1>4, <1>5, <1>6, <1>7, <1>8, <1>9, <1>10, <1>11, <1>12
     DEF CallStep, Step

LEMMA RefinesInit ==
  ASSUME Init
  PROVE  Contract!Init
<1>1. \A c \in Calls : ~Owner(c) /\ result[c] = "none"
  BY DEF Init, Owner, Owning
<1>2. \A d \in Deliveries : Phase(d) = "free"
  BY <1>1 DEF Phase, Accepted, Claimed, Init
<1>3. OpenClaims = {}
  BY <1>1 DEF OpenClaims
<1> QED
  BY <1>2, <1>3 DEF Contract!Init, OpenClaims, Init

LEMMA StutterRefines ==
  ASSUME UNCHANGED vars
  PROVE  UNCHANGED Contract!vars
BY DEF vars, Contract!vars, Phase, Accepted, Claimed, Owner, Delivery

(* With a session store, accepting keeps the contract its callers rely on. *)
THEOREM AcceptImplementsContract == ASSUME UseStore PROVE Spec => ContractHolds
<1>1. Init => Contract!Init
  BY RefinesInit
<1>2. Control /\ DiskInv /\ DiskInv' /\ [Next]_vars
        => [Contract!Next]_(Contract!vars)
  BY UseStore, ModeAssumption, RefinesCallStep, Dies, StutterRefines
     DEF Next, CallStep
<1> QED
  BY <1>1, <1>2, ControlCorrect, DiskCorrect, PTL
     DEF Spec, ContractHolds, Contract!Spec
=============================================================================

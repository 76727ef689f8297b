---------------------------- MODULE ContentProofs ----------------------------
(***************************************************************************)
(* Proofs about ContentWalk for any projects and limits.                   *)
(*                                                                         *)
(* The limits are shared by all sources, checked at one await and used at  *)
(* a later one.  A file is read under the counts it was inspected with,    *)
(* since a load has one call at a time; only the file itself may change in *)
(* between, and its bytes are counted again.                               *)
(*                                                                         *)
(* LoadComplete: no walk loses a file that still exists.  FailureReal: no  *)
(* walk fails without cause, since nothing is counted twice.               *)
(* MemoryBounded: what the model is given of a memory file, whatever the   *)
(* file holds.                                                             *)
(***************************************************************************)
EXTENDS ContentWalk, TreeProofs

Types ==
  /\ input \in Inputs
  /\ present \subseteq Paths
  /\ size \in [Paths -> Nat]
  /\ seen \in Nat
  /\ files \in Nat /\ entries \in Nat /\ bytes \in Nat
  /\ IsFiniteSet(loaded)

(* A read under way has a place in the counts. *)
ReadHasRoom == stage = "readFile" => files < MaxFiles

Inv == Types /\ LimitsKept /\ ReadHasRoom

LEMMA Projects ==
  ASSUME NEW p \in Inputs
  PROVE  /\ p.present \subseteq DOMAIN p.real
         /\ p.size \in [DOMAIN p.real -> Nat]
         /\ p.text \in [DOMAIN p.real -> Nat]
         /\ \A q \in DOMAIN p.real : p.size[q] <= p.text[q]
         /\ p.entries \in [DOMAIN p.real -> Seq(DOMAIN p.real)]
         /\ p.real \in [DOMAIN p.real -> DOMAIN p.real]
BY ContentInputAssumption

LEMMA InitInv == Init => Inv
<1> SUFFICES ASSUME Init PROVE Inv
  OBVIOUS
<1>1. Types
  BY Projects, FS_EmptySet DEF Init, Types, Paths
<1>2. LimitsKept /\ ReadHasRoom
  BY FS_EmptySet, ContentLimitAssumption DEF Init, LimitsKept, ReadHasRoom
<1> QED
  BY <1>1, <1>2 DEF Inv

(* Most calls read nothing, and start no read. *)
LEMMA QuietStep ==
  ASSUME Inv, UNCHANGED <<input, disk, seen, counts>>,
         stage' # "readFile" \/ UNCHANGED stage
  PROVE  Inv'
BY DEF Inv, Types, LimitsKept, ReadHasRoom, disk, counts, Paths

(* What lstat reported is a size. *)
LEMMA InspectStep == ASSUME Inv, Inspect PROVE Inv'
<1>1. size[Call.path] \in Nat
  BY DEF Inspect, Inv, Types
<1>2. /\ seen' \in Nat /\ stage' # "readFile"
      /\ UNCHANGED <<input, disk, counts>>
  BY <1>1 DEF Inspect
<1> QED
  BY <1>2 DEF Inv, Types, LimitsKept, ReadHasRoom, disk, counts, Paths

(* A directory that is enumerated to its end fits in what is left. *)
LEMMA DirectoryStep == ASSUME Inv, Directory PROVE Inv'
<1>1. Cardinality(Listing) \in Nat
  <2>1. Real \in Paths /\ input.entries[Real] \in Seq(Paths)
    BY Projects DEF Directory, Meets, Inv, Types, Paths
  <2>2. Listing \subseteq 1 .. Len(input.entries[Real])
    BY <2>1 DEF Listing
  <2>3. IsFiniteSet(1 .. Len(input.entries[Real]))
    BY <2>1, FS_Interval
  <2> QED
    BY <2>2, <2>3, FS_Subset, FS_CardinalityType
<1>2. /\ entries' = entries + Cardinality(Listing)
      /\ Cardinality(Listing) <= MaxEntries - entries
      /\ stage' # "readFile"
      /\ UNCHANGED <<input, disk, seen, files, bytes, loaded>>
  BY DEF Directory, Replace
<1>3. entries' \in Nat /\ entries' <= MaxEntries
  BY <1>1, <1>2, ContentLimitAssumption DEF Inv, Types
<1> QED
  BY <1>2, <1>3 DEF Inv, Types, LimitsKept, ReadHasRoom, disk, Paths

(* Only a file inspected while the counts leave room is read. *)
LEMMA StatStep == ASSUME Inv, StatFits PROVE Inv'
BY DEF Inv, Types, LimitsKept, ReadHasRoom, StatFits, disk, counts, Paths

(* A text has as many bytes as its file or more. *)
LEMMA TextFacts ==
  ASSUME Inv, Real \in Paths
  PROVE  /\ \A text \in TextSizes : text \in Nat /\ size[Real] <= text
         /\ size = input.size => TextSizes = {input.text[Real]}
<1>1. PICK n, m : n = size[Real] /\ m = input.text[Real]
  OBVIOUS
<1>2. /\ n \in Nat /\ m \in Nat
      /\ n = input.size[Real] => n <= m
  BY <1>1, Projects DEF Inv, Types, Paths
<1>3. TextSizes = IF n = input.size[Real] THEN {m} ELSE n .. 3 * n
  BY <1>1 DEF TextSizes
<1>4. \A text \in n .. 3 * n : text \in Nat /\ n <= text
  BY <1>2
<1> QED
  BY <1>1, <1>2, <1>3, <1>4

(* What is read fits in what is left. *)
LEMMA ReadStep == ASSUME Inv, Read PROVE Inv'
<1>0. PICK text \in TextSizes : bytes' = bytes + text /\ bytes + text <= MaxTotal
  BY DEF Read
<1>1. Real \in Paths /\ text \in Nat
  <2>1. Real \in Paths
    BY DEF Read, Inv, Types
  <2> QED
    BY <1>0, <2>1, TextFacts
<1>2. /\ files' = files + 1 /\ files < MaxFiles
      /\ bytes' = bytes + text /\ bytes + text <= MaxTotal
      /\ stage' # "readFile"
      /\ UNCHANGED <<input, disk, seen, entries>>
  BY <1>0 DEF Read, At, Inv, ReadHasRoom, Replace
<1>3. PICK file : loaded' = loaded \cup {file}
  BY DEF Read
<1>4. /\ IsFiniteSet(loaded')
      /\ Cardinality(loaded') <= Cardinality(loaded) + 1
  <2>1. /\ IsFiniteSet(loaded \cup {file})
        /\ Cardinality(loaded \cup {file}) =
             IF file \in loaded THEN Cardinality(loaded)
             ELSE Cardinality(loaded) + 1
    BY FS_AddElement DEF Inv, Types
  <2>2. Cardinality(loaded) \in Nat
    BY FS_CardinalityType DEF Inv, Types
  <2> QED
    BY <1>3, <2>1, <2>2
<1>5. Types'
  BY <1>1, <1>2, <1>4 DEF Inv, Types, disk, Paths
<1>6. Cardinality(loaded) \in Nat /\ Cardinality(loaded') \in Nat
  BY <1>4, FS_CardinalityType DEF Inv, Types
<1>7. LimitsKept' /\ ReadHasRoom'
  BY <1>1, <1>2, <1>4, <1>6, ContentLimitAssumption
  DEF Inv, Types, LimitsKept, ReadHasRoom
<1> QED
  BY <1>5, <1>7 DEF Inv

LEMMA NextInv == ASSUME Inv, [Next]_vars PROVE Inv'
<1>1. CASE LoadSource
  BY <1>1, QuietStep DEF LoadSource, Absolute, Begin, Fail, Replace, counts
<1>2. CASE WalkContent
  <2>1. CASE TooDeep \/ Missing \/ PassOver \/ SkipLink
    BY <2>1, QuietStep
    DEF TooDeep, Missing, PassOver, SkipLink, Fail, Ignore, Replace, counts
  <2>2. CASE Unresolved \/ Outside \/ VisitedBefore \/ TooManyEntries
             \/ NotWanted
    BY <2>2, QuietStep
    DEF Unresolved, Outside, VisitedBefore, TooManyEntries, NotWanted, Fail,
        Ignore, Replace, counts
  <2>3. CASE StatExceeds \/ ReadFails \/ ReadExceeds \/ Fails
    BY <2>3, QuietStep
    DEF StatExceeds, ReadFails, ReadExceeds, Fails, Fail, counts
  <2> QED
    BY <1>2, <2>1, <2>2, <2>3, InspectStep, DirectoryStep, StatStep, ReadStep
    DEF WalkContent
<1>3. CASE Finish
  BY <1>3, QuietStep DEF Finish, counts
<1>4. CASE Environment
  <2>1. PICK p \in Paths : Grow(p) \/ Remove(p)
    BY <1>4 DEF Environment
  <2>2. /\ present' \subseteq Paths
        /\ size' \in [Paths -> Nat]
        /\ UNCHANGED <<input, stage, seen, counts>>
    BY <2>1 DEF Grow, Remove, Inv, Types
  <2> QED
    BY <2>2 DEF Inv, Types, LimitsKept, ReadHasRoom, counts, Paths
<1>5. CASE Ended \/ UNCHANGED vars
  BY <1>5, QuietStep DEF Ended, vars, counts
<1> QED
  BY <1>1, <1>2, <1>3, <1>4, <1>5 DEF Next

-----------------------------------------------------------------------------
(* LimitsKept is an invariant: what one load reads of a project, over all  *)
(* its sources, never exceeds the limits on files, directory entries and   *)
(* bytes, whatever other programs do to the files meanwhile.               *)
THEOREM LoadKeepsLimits == Spec => []LimitsKept
<1>1. Inv => LimitsKept
  BY DEF Inv
<1> QED
  BY InitInv, NextInv, <1>1, PTL DEF Spec

-----------------------------------------------------------------------------
CallSet ==
  [do : {"source"}, n : DOMAIN input.sources]
    \cup [do : {"visit"}, n : DOMAIN input.sources, path : Paths, depth : Nat]

Pending == Members(work)
Rest == Members(Tail(work))

VisitOf(c, n) == c.do = "visit" /\ c.n = n

(* The visits of the current source come before the other calls. *)
CallInv ==
  /\ work \in Seq(CallSet)
  /\ visited \subseteq Paths
  /\ \A i, j \in DOMAIN work :
       i <= j /\ work[j].do = "visit" => VisitOf(work[i], work[j].n)

(* What has been inspected, and is read next, is a file that the source is *)
(* meant to load.                                                          *)
ReadsFile ==
  stage = "readFile" =>
    /\ work # <<>> /\ Call.do = "visit"
    /\ input.kind[Real] = "file"

IsEntry(d, p) == \E i \in DOMAIN input.entries[d] : p = input.entries[d][i]

(* The path p is still to be visited for the source, or it has been dealt  *)
(* with: D are the directories that the walk of the source has entered.    *)
Covers(n, D, p) ==
  \/ \E c \in Pending : VisitOf(c, n) /\ c.path = p
  \/ /\ IsKind(input, p, "file", present) /\ input.real[p] \in input.sources[n].match
          => [n |-> n, path |-> input.real[p]] \in loaded
     /\ IsKind(input, p, "directory", present) => input.real[p] \in D

WalkedBy(n, D) ==
  /\ D \subseteq Paths
  /\ \A p \in Sees(input.sources[n], present) :
       p = input.sources[n].path \/ (\E d \in D : IsEntry(d, p))
         => Covers(n, D, p)

(* Nothing of the project has been passed over. *)
Whole ==
  /\ \A n \in DOMAIN input.sources :
       \/ Source(n) \in Pending
       \/ ~ input.sources[n].absolute /\ \E D : WalkedBy(n, D)
  /\ \A c \in Pending : c.do = "visit" => WalkedBy(c.n, visited)

Complete ==
  /\ pc = "loaded" => work = <<>>
  /\ pc # "failed" => Whole

-----------------------------------------------------------------------------
(* What a step does to the list of calls. *)
Drops ==
  /\ work # <<>> /\ Call.do = "visit" /\ work' = <<>> \o Tail(work)
  /\ UNCHANGED <<input, present, visited>>

Still == UNCHANGED <<input, work, visited>> /\ present' \subseteq present

Pruned == IF Options.prune THEN input.ignored ELSE {}

(* How a call returns: the path of a visit is missing, not to be followed, *)
(* or dealt with.                                                          *)
DealtWith ==
  \/ Call.path \notin present
  \/ IsLink /\ ~ Options.follow
  \/ input.kind[Real] = "directory" /\ Real \in visited
  \/ input.kind[Real] # "directory" /\ (input.kind[Real] = "file" => ~ Wanted)
  \/ /\ input.kind[Real] # "directory"
     /\ [n |-> Call.n, path |-> Real] \in loaded'

LEMMA StepKinds ==
  ASSUME [Next]_vars, ReadsFile
  PROVE  \/ Drops /\ DealtWith /\ loaded \subseteq loaded' /\ UNCHANGED pc
         \/ Begin
         \/ Directory
         \/ Still /\ UNCHANGED loaded /\ (pc = "failed" => pc' = "failed")
<1>1. CASE LoadSource
  BY <1>1 DEF LoadSource, Absolute, Fail, counts, disk, Still
<1>2. CASE WalkContent
  <2>1. CASE TooDeep \/ Missing \/ Inspect
    BY <2>1 DEF TooDeep, Missing, Inspect, Fail, counts, disk, Still
  <2>2. CASE Unresolved \/ Outside \/ TooManyEntries \/ StatExceeds \/ StatFits
               \/ ReadFails \/ ReadExceeds \/ Fails
    BY <2>2
    DEF Unresolved, Outside, TooManyEntries, StatExceeds, StatFits, ReadFails,
        ReadExceeds, Fails, Fail, counts, disk, Still
  <2>3. CASE PassOver \/ SkipLink
    BY <2>3
    DEF PassOver, SkipLink, At, Calls, Ignore, Replace, counts, disk, Drops,
        DealtWith
  <2>4. CASE VisitedBefore \/ NotWanted
    BY <2>4
    DEF VisitedBefore, NotWanted, Meets, At, Calls, Ignore, Replace, counts,
        disk, Drops, DealtWith
  <2>5. CASE Read
    BY <2>5 DEF Read, At, Calls, Replace, ReadsFile, disk, Drops, DealtWith
  <2> QED
    BY <1>2, <2>1, <2>2, <2>3, <2>4, <2>5 DEF WalkContent
<1>3. CASE Finish
  BY <1>3 DEF Finish, counts, disk, Still
<1>4. CASE Environment
  BY <1>4 DEF Environment, Grow, Remove, counts, Still
<1>5. CASE Ended \/ UNCHANGED vars
  BY <1>5 DEF Ended, vars, counts, disk, Still
<1> QED
  BY <1>1, <1>2, <1>3, <1>4, <1>5 DEF Next

LEMMA ProjectFacts ==
  ASSUME NEW p \in Inputs
  PROVE  /\ IsFiniteSet(DOMAIN p.real) /\ IsFiniteSet(p.present)
         /\ p.real \in [DOMAIN p.real -> DOMAIN p.real]
         /\ p.entries \in [DOMAIN p.real -> Seq(DOMAIN p.real)]
         /\ Len(p.sources) \in Nat /\ DOMAIN p.sources = 1 .. Len(p.sources)
         /\ \A n \in DOMAIN p.sources : p.sources[n].path \in DOMAIN p.real
BY ContentInputAssumption, FS_Subset

(* A path is an entry of one directory, once. *)
LEMMA ListedOnce ==
  ASSUME input \in Inputs
  PROVE  /\ \A q \in Paths : input.real[q] \in Paths
                             /\ input.real[input.real[q]] = input.real[q]
         /\ \A d, e \in Paths : \A p : IsEntry(d, p) /\ IsEntry(e, p) => d = e
         /\ \A d \in Paths : Once(input.entries[d])
         /\ \A n \in DOMAIN input.sources :
              input.sources[n].prune => ~ input.sources[n].follow
<1>1. \A d \in Paths : DOMAIN input.entries[d] = 1 .. Len(input.entries[d])
  BY ProjectFacts, LenProperties DEF Paths
<1>2. \A d, e \in Paths :
        \A i \in DOMAIN input.entries[d], j \in DOMAIN input.entries[e] :
          input.entries[d][i] = input.entries[e][j] => d = e /\ i = j
  BY ContentInputAssumption DEF Paths
<1>3. /\ \A q \in Paths : input.real[q] \in Paths
                          /\ input.real[input.real[q]] = input.real[q]
      /\ \A n \in DOMAIN input.sources :
           input.sources[n].prune => ~ input.sources[n].follow
  BY ContentInputAssumption DEF Paths
<1> QED
  BY <1>1, <1>2, <1>3 DEF IsEntry, Once

LEMMA InitCalls == ASSUME Init PROVE CallInv
<1>1. input \in Inputs /\ DOMAIN input.sources = 1 .. Len(input.sources)
      /\ Len(input.sources) \in Nat
  BY ProjectFacts DEF Init
<1>2. \A n \in 1 .. Len(input.sources) : Source(n) \in CallSet
  BY <1>1 DEF Source, CallSet
<1>3. /\ work \in Seq(CallSet) /\ DOMAIN work = 1 .. Len(input.sources)
      /\ \A n \in DOMAIN work : work[n] = Source(n)
  BY <1>1, <1>2, IsASeq DEF Init
<1>4. ASSUME NEW n \in DOMAIN work PROVE work[n].do # "visit"
  <2>1. work[n] = Source(n)
    BY <1>3
  <2> QED
    BY <2>1 DEF Source
<1> QED
  BY <1>3, <1>4 DEF CallInv, Init

(* The first call, and the others. *)
LEMMA FirstCall ==
  ASSUME work \in Seq(CallSet), work # <<>>
  PROVE  /\ Call = work[1] /\ Call \in CallSet /\ Call \in Pending
         /\ Rest \subseteq Pending /\ Pending = {Call} \cup Rest
         /\ Len(work) \in Nat \ {0} /\ DOMAIN work = 1 .. Len(work)
<1>1. <<>> \in Seq(CallSet)
  OBVIOUS
<1>2. /\ Call = work[1] /\ Call \in CallSet /\ Pending = {Call} \cup Rest
  BY <1>1, CallsReplaced DEF Call, Pending, Rest
<1>3. Len(work) \in Nat \ {0} /\ DOMAIN work = 1 .. Len(work)
  BY LenProperties, EmptySeq
<1> QED
  BY <1>2, <1>3

(* A walk begins with one visit. *)
LEMMA BeginCalls ==
  ASSUME CallInv, input \in Inputs, Begin
  PROVE  /\ work # <<>> /\ Call.do = "source" /\ ~ Options.absolute /\ visited' = {}
         /\ UNCHANGED <<input, present, pc, loaded>>
         /\ \E calls \in Seq(CallSet) :
              /\ work' = calls \o Tail(work)
              /\ calls = <<Visit(Call.n, Options.path, 0)>>
              /\ Len(calls) = 1 /\ Members(calls) = {Visit(Call.n, Options.path, 0)}
<1> DEFINE c == Visit(Call.n, Options.path, 0)
           calls == <<c>>
<1>1. /\ work # <<>> /\ Call.do = "source" /\ ~ Options.absolute /\ visited' = {}
      /\ UNCHANGED <<input, present, pc, loaded>> /\ work' = calls \o Tail(work)
  BY DEF Begin, Calls, Replace, disk, counts
<1>2. Call \in CallSet
  BY <1>1, FirstCall DEF CallInv
<1>3. Call.n \in DOMAIN input.sources
  BY <1>2 DEF CallSet
<1>4. Options.path \in Paths
  BY <1>3, ProjectFacts DEF Options, Paths
<1>5. c \in CallSet
  BY <1>3, <1>4 DEF CallSet, Visit
<1> HIDE DEF c
<1>6. calls \in Seq(CallSet) /\ Len(calls) = 1 /\ calls[1] = c
  BY <1>5
<1>7. Members(calls) = {c}
  BY <1>6 DEF Members
<1> QED
  BY <1>1, <1>6, <1>7 DEF c

(* The visits that a directory makes: one for each entry that exists and   *)
(* is not pruned, each one once.                                           *)
LEMMA DirectoryCalls ==
  ASSUME CallInv, input \in Inputs, present \subseteq Paths, Directory
  PROVE  /\ work # <<>> /\ Call.do = "visit" /\ Real \in Paths
         /\ input.kind[Real] = "directory" /\ visited' = visited \cup {Real}
         /\ UNCHANGED <<input, present, pc, loaded>>
         /\ \E calls \in Seq(CallSet) :
              /\ work' = calls \o Tail(work)
              /\ \A i \in 1 .. Len(calls) : VisitOf(calls[i], Call.n)
              /\ \A i \in 1 .. Len(calls) :
                   /\ calls[i].depth = Call.depth + 1
                   /\ calls[i].path \in present \ Pruned
                   /\ IsEntry(Real, calls[i].path)
              /\ \A i, j \in 1 .. Len(calls) :
                   calls[i].path = calls[j].path => i = j
              /\ \A p \in present \ Pruned : IsEntry(Real, p) =>
                   \E c \in Members(calls) : VisitOf(c, Call.n) /\ c.path = p
<1> DEFINE list == input.entries[Real]
           kept == Within(list, present \ Pruned)
           calls == Children
<1>1. /\ work # <<>> /\ Call.do = "visit" /\ Real \in Paths
      /\ input.kind[Real] = "directory" /\ visited' = visited \cup {Real}
      /\ UNCHANGED <<input, present, pc, loaded>> /\ work' = calls \o Tail(work)
  BY DEF Directory, Meets, At, Calls, Replace, disk
<1>2. /\ Call \in CallSet /\ Call.n \in DOMAIN input.sources /\ Call.depth \in Nat
  <2>1. Call \in CallSet
    BY <1>1, FirstCall DEF CallInv
  <2> QED
    BY <1>1, <2>1 DEF CallSet
<1>3. list \in Seq(Paths) /\ DOMAIN list = 1 .. Len(list)
  <2>1. list \in Seq(Paths)
    BY <1>1, ProjectFacts DEF Paths
  <2> QED
    BY <2>1, LenProperties
<1>4. /\ kept \in Seq(Paths) /\ Once(kept)
      /\ Members(kept) = Members(list) \cap (present \ Pruned)
  <2>1. Once(list)
    BY <1>1, ListedOnce
  <2> QED
    BY <1>3, <2>1, WithinMembers
<1>5. calls = [i \in 1 .. Len(kept) |-> Visit(Call.n, kept[i], Call.depth + 1)]
  <2>1. DOMAIN kept = 1 .. Len(kept)
    BY <1>4, LenProperties
  <2> QED
    BY <2>1 DEF Children, Pruned
<1> HIDE DEF kept, calls
<1>6. Len(kept) \in Nat /\ \A i \in 1 .. Len(kept) : kept[i] \in Paths
  BY <1>4, LenProperties, ElementOfSeq
<1>7. \A i \in 1 .. Len(kept) : Visit(Call.n, kept[i], Call.depth + 1) \in CallSet
  BY <1>2, <1>6 DEF CallSet, Visit
<1>8. /\ calls \in Seq(CallSet) /\ Len(calls) = Len(kept)
      /\ \A i \in 1 .. Len(kept) :
           calls[i] = Visit(Call.n, kept[i], Call.depth + 1)
  BY <1>5, <1>6, <1>7, IsASeq
<1>9. ASSUME NEW i \in 1 .. Len(calls) PROVE VisitOf(calls[i], Call.n)
  <2>1. calls[i] = Visit(Call.n, kept[i], Call.depth + 1)
    BY <1>8
  <2> QED
    BY <2>1 DEF Visit, VisitOf
<1>10. ASSUME NEW p \in present \ Pruned, IsEntry(Real, p)
       PROVE  \E c \in Members(calls) : VisitOf(c, Call.n) /\ c.path = p
  <2>1. p \in Members(kept)
    BY <1>3, <1>4, <1>10 DEF IsEntry, Members
  <2>2. PICK i \in 1 .. Len(kept) : kept[i] = p
    BY <2>1 DEF Members
  <2>3. calls[i] \in Members(calls) /\ calls[i] = Visit(Call.n, p, Call.depth + 1)
    BY <1>8, <2>2 DEF Members
  <2> QED
    BY <2>3 DEF Visit, VisitOf
<1>11. ASSUME NEW i \in 1 .. Len(calls)
       PROVE  /\ calls[i].depth = Call.depth + 1
              /\ calls[i].path \in present \ Pruned /\ IsEntry(Real, calls[i].path)
              /\ calls[i].path = kept[i]
  <2>1. calls[i] = Visit(Call.n, kept[i], Call.depth + 1)
    BY <1>8
  <2>2. calls[i].path = kept[i] /\ calls[i].depth = Call.depth + 1
    BY <2>1 DEF Visit
  <2>3. kept[i] \in Members(kept)
    BY <1>8 DEF Members
  <2> QED
    BY <1>3, <1>4, <2>2, <2>3 DEF IsEntry, Members
<1>12. \A i, j \in 1 .. Len(calls) : calls[i].path = calls[j].path => i = j
  BY <1>4, <1>8, <1>11 DEF Once
<1> QED
  BY <1>1, <1>8, <1>9, <1>10, <1>11, <1>12

-----------------------------------------------------------------------------
(* The first call is replaced by visits of its source. *)
LEMMA CallsKept ==
  ASSUME CallInv, work # <<>>, UNCHANGED input,
         NEW calls \in Seq(CallSet), work' = calls \o Tail(work),
         visited' \subseteq Paths,
         \A i \in 1 .. Len(calls) : VisitOf(calls[i], Call.n),
         Call.do = "visit" \/ Len(calls) <= 1
  PROVE  CallInv'
<1>1. PICK t : t = work'
  OBVIOUS
<1> DEFINE n == Len(calls)
           m == Len(work)
           l == Len(t)
<1> HIDE DEF n, m, l
<1>2. /\ t \in Seq(CallSet) /\ m \in Nat \ {0} /\ n \in Nat /\ l = n + m - 1
      /\ \A i \in 1 .. n : t[i] = calls[i]
      /\ \A i \in n + 1 .. l : t[i] = work[i - n + 1]
  BY <1>1, FirstReplaced DEF CallInv, n, m, l
<1>3. /\ DOMAIN t = 1 .. l /\ DOMAIN work = 1 .. m
      /\ \A i \in n + 1 .. l : i - n + 1 \in 2 .. m
  <2>1. DOMAIN t = 1 .. l /\ DOMAIN work = 1 .. m
    BY <1>2, LenProperties DEF CallInv, m, l
  <2>2. \A i \in n + 1 .. l : i - n + 1 \in 2 .. m
    BY ONLY <1>2
  <2> QED
    BY <2>1, <2>2
<1>4. Call = work[1]
  BY FirstCall DEF CallInv
<1>5. ASSUME NEW j \in 2 .. m, work[j].do = "visit"
      PROVE  VisitOf(Call, work[j].n)
  <2>1. 1 \in DOMAIN work /\ j \in DOMAIN work /\ 1 <= j
    BY <1>2, <1>3
  <2> QED
    BY <1>4, <1>5, <2>1 DEF CallInv
<1>6. ASSUME NEW i \in 1 .. l, NEW j \in 1 .. l, i <= j, t[j].do = "visit"
      PROVE  VisitOf(t[i], t[j].n)
  <2>1. CASE j \in 1 .. n
    <3>1. i \in 1 .. n
      BY <1>2, <1>6, <2>1
    <3>2. VisitOf(calls[i], Call.n) /\ VisitOf(calls[j], Call.n)
      BY <2>1, <3>1 DEF n
    <3> QED
      BY <1>2, <2>1, <3>1, <3>2 DEF VisitOf
  <2>2. CASE j \in n + 1 .. l
    <3>1. t[j] = work[j - n + 1] /\ j - n + 1 \in 2 .. m
      BY <1>2, <1>3, <2>2
    <3>2. CASE i \in 1 .. n
      <4>1. VisitOf(calls[i], Call.n)
        BY <3>2 DEF n
      <4> QED
        BY <1>2, <1>5, <1>6, <3>1, <3>2, <4>1 DEF VisitOf
    <3>3. CASE i \in n + 1 .. l
      <4>1. t[i] = work[i - n + 1] /\ i - n + 1 \in 2 .. m
        BY <1>2, <1>3, <3>3
      <4>2. i - n + 1 <= j - n + 1
        BY <1>2, <1>6
      <4>3. i - n + 1 \in DOMAIN work /\ j - n + 1 \in DOMAIN work
        BY <1>2, <1>3, <3>1, <4>1
      <4> QED
        BY <1>6, <3>1, <4>1, <4>2, <4>3 DEF CallInv
    <3> QED
      BY <1>2, <3>2, <3>3
  <2> QED
    BY <1>2, <2>1, <2>2
<1>7. work' \in Seq(CallSet)'
  <2>1. CallSet' = CallSet
    BY DEF CallSet, Paths
  <2> QED
    BY <1>1, <1>2, <2>1
<1>8. \A i, j \in DOMAIN work' :
        i <= j /\ work'[j].do = "visit" => VisitOf(work'[i], work'[j].n)
  BY <1>1, <1>3, <1>6
<1>9. visited' \subseteq Paths'
  BY DEF Paths
<1> QED
  BY <1>7, <1>8, <1>9 DEF CallInv, VisitOf

LEMMA CallStep ==
  ASSUME Inv, CallInv, ReadsFile, [Next]_vars
  PROVE  CallInv'
<1>1. input \in Inputs /\ present \subseteq Paths
  BY DEF Inv, Types
<1>2. CASE Drops
  <2>1. /\ work # <<>> /\ Call.do = "visit" /\ UNCHANGED <<input, visited>>
        /\ work' = <<>> \o Tail(work) /\ <<>> \in Seq(CallSet) /\ Len(<<>>) = 0
        /\ 1 .. 0 = {} /\ visited' \subseteq Paths
    BY <1>2 DEF Drops, CallInv
  <2> QED
    BY <2>1, CallsKept
<1>3. CASE Begin
  <2>1. work # <<>> /\ visited' = {} /\ UNCHANGED input
    BY <1>1, <1>3, BeginCalls
  <2>2. PICK calls \in Seq(CallSet) :
          /\ work' = calls \o Tail(work) /\ Len(calls) = 1
          /\ Members(calls) = {Visit(Call.n, Options.path, 0)}
    BY <1>1, <1>3, BeginCalls
  <2>3. \A i \in 1 .. Len(calls) : VisitOf(calls[i], Call.n)
    <3> SUFFICES ASSUME NEW i \in 1 .. Len(calls) PROVE VisitOf(calls[i], Call.n)
      OBVIOUS
    <3>1. calls[i] \in Members(calls)
      BY DEF Members
    <3>2. calls[i] = Visit(Call.n, Options.path, 0)
      BY <2>2, <3>1
    <3> QED
      BY <3>2 DEF Visit, VisitOf
  <2>4. Len(calls) <= 1 /\ visited' \subseteq Paths
    BY <2>1, <2>2
  <2> QED
    BY <2>1, <2>2, <2>3, <2>4, CallsKept
<1>4. CASE Directory
  <2>1. /\ work # <<>> /\ Call.do = "visit" /\ UNCHANGED input
        /\ visited' \subseteq Paths
    BY <1>1, <1>4, DirectoryCalls DEF CallInv
  <2>2. PICK calls \in Seq(CallSet) :
          /\ work' = calls \o Tail(work)
          /\ \A i \in 1 .. Len(calls) : VisitOf(calls[i], Call.n)
    BY <1>1, <1>4, DirectoryCalls
  <2> QED
    BY <2>1, <2>2, CallsKept
<1>5. CASE Still
  <2>1. CallSet' = CallSet /\ Paths' = Paths
    BY <1>5 DEF Still, CallSet, Paths
  <2> QED
    BY <1>5, <2>1 DEF Still, CallInv, VisitOf
<1> QED
  BY <1>2, <1>3, <1>4, <1>5, StepKinds

LEMMA ReadsFileStep ==
  ASSUME Inv, CallInv, ReadsFile, [Next]_vars
  PROVE  ReadsFile'
<1>1. ASSUME UNCHANGED <<input, work, stage>> PROVE ReadsFile'
  BY <1>1 DEF ReadsFile, Call, Real
<1>2. ASSUME stage' # "readFile" PROVE ReadsFile'
  BY <1>2 DEF ReadsFile
<1>3. CASE LoadSource
  BY <1>1, <1>2, <1>3 DEF LoadSource, Absolute, Begin, Fail, Replace
<1>4. CASE WalkContent
  <2>1. CASE TooDeep \/ Missing \/ PassOver \/ SkipLink \/ Inspect
    BY <1>1, <1>2, <2>1
    DEF TooDeep, Missing, PassOver, SkipLink, Inspect, Fail, Ignore, Replace
  <2>2. CASE Unresolved \/ Outside \/ VisitedBefore \/ TooManyEntries \/ Directory
    BY <1>1, <1>2, <2>2
    DEF Unresolved, Outside, VisitedBefore, TooManyEntries, Directory, Fail,
        Ignore, Replace
  <2>3. CASE NotWanted \/ StatExceeds \/ ReadFails \/ ReadExceeds \/ Read \/ Fails
    BY <1>1, <1>2, <2>3
    DEF NotWanted, StatExceeds, ReadFails, ReadExceeds, Read, Fails, Fail,
        Ignore, Replace
  <2>4. CASE StatFits
    BY <2>4 DEF StatFits, Meets, At, Calls, ReadsFile, Call, Real
  <2> QED
    BY <1>4, <2>1, <2>2, <2>3, <2>4 DEF WalkContent
<1>5. CASE Finish \/ Environment
  BY <1>1, <1>5 DEF Finish, Environment, Grow, Remove
<1>6. CASE Ended \/ UNCHANGED vars
  BY <1>1, <1>6 DEF Ended, vars
<1> QED
  BY <1>3, <1>4, <1>5, <1>6 DEF Next

-----------------------------------------------------------------------------
Visible(n) == Sees(input.sources[n], present)

(* A walk keeps covering what it has covered, when it covers the visit that *)
(* is gone and the entries of the directories that are new.                *)
LEMMA WalkedKept ==
  ASSUME input' = input, present' \subseteq present, loaded \subseteq loaded',
         NEW gone, Pending \subseteq Pending' \cup {gone},
         NEW n, NEW D, NEW E, D \subseteq E, E \subseteq Paths, WalkedBy(n, D),
         \A p \in Visible(n)' :
           VisitOf(gone, n) /\ gone.path = p => Covers(n, E, p)',
         \A p \in Visible(n)', d \in E \ D :
           IsEntry(d, p) /\ p # input.sources[n].path => Covers(n, E, p)'
  PROVE  WalkedBy(n, E)'
<1>1. \A d, p : IsEntry(d, p)' <=> IsEntry(d, p)
  BY DEF IsEntry
<1>2. Visible(n)' \subseteq Visible(n) /\ Visible(n)' \subseteq present'
  BY DEF Visible, Sees
<1>3. ASSUME NEW p \in Visible(n)', Covers(n, D, p)
      PROVE  Covers(n, E, p)'
  <2>1. CASE \E c \in Pending : VisitOf(c, n) /\ c.path = p
    <3>1. PICK c \in Pending : VisitOf(c, n) /\ c.path = p
      BY <2>1
    <3>2. CASE c = gone
      BY <3>1, <3>2
    <3>3. CASE c \in Pending'
      BY <3>1, <3>3 DEF Covers, VisitOf
    <3> QED
      BY <3>2, <3>3
  <2>2. CASE ~ \E c \in Pending : VisitOf(c, n) /\ c.path = p
    BY <1>3, <2>2 DEF Covers, IsKind
  <2> QED
    BY <2>1, <2>2
<1>4. ASSUME NEW p \in Visible(n)',
             p = input.sources[n].path \/ (\E d \in E : IsEntry(d, p))
      PROVE  Covers(n, E, p)'
  <2>1. CASE p # input.sources[n].path /\ \E d \in E \ D : IsEntry(d, p)
    BY <2>1
  <2>2. CASE p = input.sources[n].path \/ ~ \E d \in E \ D : IsEntry(d, p)
    <3>1. Covers(n, D, p)
      BY <1>2, <1>4, <2>2 DEF WalkedBy, Visible
    <3> QED
      BY <1>3, <3>1
  <2> QED
    BY <2>1, <2>2
<1>5. E \subseteq Paths'
  BY DEF Paths
<1> QED
  BY <1>1, <1>4, <1>5 DEF WalkedBy, Visible

(* A step that begins no walk. *)
LEMMA WholeKept ==
  ASSUME Whole, input' = input, present' \subseteq present, loaded \subseteq loaded',
         NEW gone, Pending \subseteq Pending' \cup {gone},
         gone.do = "visit" => gone \in Pending,
         \A c \in Pending : c.do = "source" => c \in Pending',
         \A c \in Pending' : c.do = "visit" => \E d \in Pending : VisitOf(d, c.n),
         NEW E, E = visited', visited \subseteq E, E \subseteq Paths,
         \A n : \A p \in Visible(n)' :
           VisitOf(gone, n) /\ gone.path = p => Covers(n, E, p)',
         \A c \in Pending : \A n : VisitOf(c, n) =>
           \A p \in Visible(n)', d \in E \ visited :
             IsEntry(d, p) /\ p # input.sources[n].path => Covers(n, E, p)'
  PROVE  Whole'
<1>1. ASSUME NEW n, NEW c \in Pending, VisitOf(c, n) PROVE WalkedBy(n, E)'
  <2>1. WalkedBy(n, visited)
    BY <1>1 DEF Whole, VisitOf
  <2>2. PICK D : D = visited
    OBVIOUS
  <2> QED
    BY <1>1, <2>1, <2>2, WalkedKept
<1>2. ASSUME NEW n \in DOMAIN input.sources
      PROVE  \/ Source(n) \in Pending'
             \/ ~ input.sources[n].absolute /\ \E D : WalkedBy(n, D)'
  <2>1. CASE Source(n) \in Pending
    BY <2>1 DEF Source
  <2>2. CASE Source(n) \notin Pending
    <3>1. PICK D : WalkedBy(n, D) /\ ~ input.sources[n].absolute
      BY <2>2 DEF Whole
    <3>2. CASE VisitOf(gone, n)
      <4>1. gone \in Pending
        BY <3>2 DEF VisitOf
      <4> QED
        BY <1>1, <3>1, <3>2, <4>1
    <3>3. CASE ~ VisitOf(gone, n)
      <4>1. D \subseteq Paths
        BY <3>1 DEF WalkedBy
      <4>2. WalkedBy(n, D)'
        BY <3>1, <3>3, <4>1, WalkedKept
      <4> QED
        BY <3>1, <4>2
    <3> QED
      BY <3>2, <3>3
  <2> QED
    BY <2>1, <2>2
<1>3. ASSUME NEW c \in Pending', c.do = "visit" PROVE WalkedBy(c.n, E)'
  <2>1. PICK d \in Pending : VisitOf(d, c.n)
    BY <1>3
  <2> QED
    BY <1>1, <2>1
<1> QED
  BY <1>2, <1>3 DEF Whole, Source

(* The calls after a call has been replaced. *)
LEMMA AfterReplace ==
  ASSUME work \in Seq(CallSet), work # <<>>,
         NEW calls \in Seq(CallSet), work' = calls \o Tail(work)
  PROVE  Pending = {Call} \cup Rest /\ Pending' = Members(calls) \cup Rest
<1>1. Members(calls \o Tail(work)) = Members(calls) \cup Members(Tail(work))
  BY CallsReplaced
<1>2. Pending' = Members(calls \o Tail(work))
  BY DEF Pending
<1> QED
  BY <1>1, <1>2, FirstCall DEF Rest

(* No visit follows the call of a source. *)
LEMMA NoVisitLater ==
  ASSUME CallInv, work # <<>>, Call.do # "visit"
  PROVE  \A c \in Pending : c.do # "visit"
<1> SUFFICES ASSUME NEW c \in Pending, c.do = "visit" PROVE FALSE
  OBVIOUS
<1>1. PICK j \in DOMAIN work : c = work[j]
  BY DEF Pending, Members, CallInv
<1>2. Call = work[1] /\ Len(work) \in Nat \ {0} /\ DOMAIN work = 1 .. Len(work)
  BY FirstCall DEF CallInv
<1>3. 1 \in DOMAIN work /\ 1 <= j
  BY <1>2
<1> QED
  BY <1>1, <1>2, <1>3 DEF CallInv, VisitOf

LEMMA BeginWhole ==
  ASSUME CallInv, input \in Inputs, Whole, Begin
  PROVE  Whole'
<1>1. /\ work \in Seq(CallSet) /\ work # <<>> /\ Call.do = "source"
      /\ ~ Options.absolute /\ visited' = {}
      /\ UNCHANGED <<input, present, pc, loaded>>
  BY BeginCalls DEF CallInv
<1>2. PICK n : n = Call.n
  OBVIOUS
<1>3. PICK first : first = Visit(n, Options.path, 0)
  OBVIOUS
<1>4. Pending = {Call} \cup Rest /\ Pending' = {first} \cup Rest
  <2>1. PICK calls \in Seq(CallSet) :
          /\ work' = calls \o Tail(work)
          /\ Members(calls) = {Visit(Call.n, Options.path, 0)}
    BY BeginCalls
  <2> QED
    BY <1>1, <1>2, <1>3, <2>1, AfterReplace
<1>5. VisitOf(first, n) /\ first.path = input.sources[n].path /\ first.n = n
  BY <1>2, <1>3 DEF Visit, VisitOf, Options
<1>6. Call = Source(n)
  <2>1. Call \in CallSet
    BY <1>1, FirstCall
  <2> QED
    BY <1>1, <1>2, <2>1 DEF CallSet, Source
<1>7. WalkedBy(n, {})'
  <2>1. ASSUME NEW p, p = input.sources[n].path PROVE Covers(n, {}, p)'
    BY <1>4, <1>5, <2>1 DEF Covers, VisitOf
  <2> QED
    BY <1>1, <2>1 DEF WalkedBy
<1>8. ASSUME NEW k \in DOMAIN input.sources
      PROVE  \/ Source(k) \in Pending'
             \/ ~ input.sources[k].absolute /\ \E D : WalkedBy(k, D)'
  <2>1. CASE k = n
    BY <1>1, <1>2, <1>7, <2>1 DEF Options
  <2>2. CASE k # n /\ Source(k) \in Pending
    <3>1. Source(k) # Call
      BY <1>6, <2>2 DEF Source
    <3> QED
      BY <1>4, <2>2, <3>1
  <2>3. CASE Source(k) \notin Pending
    <3>1. PICK D : WalkedBy(k, D) /\ ~ input.sources[k].absolute
      BY <1>1, <2>3 DEF Whole
    <3>2. D \subseteq Paths
      BY <3>1 DEF WalkedBy
    <3>3. ~ VisitOf(Call, k)
      BY <1>1 DEF VisitOf
    <3>4. PICK gone : gone = Call
      OBVIOUS
    <3>5. Pending \subseteq Pending' \cup {gone} /\ ~ VisitOf(gone, k)
      BY <1>4, <3>3, <3>4
    <3>6. WalkedBy(k, D)'
      BY <1>1, <3>1, <3>2, <3>5, WalkedKept
    <3> QED
      BY <3>1, <3>6
  <2> QED
    BY <2>1, <2>2, <2>3
<1>9. ASSUME NEW c \in Pending', c.do = "visit" PROVE WalkedBy(c.n, {})'
  <2>1. \A d \in Rest : d.do # "visit"
    BY <1>1, <1>4, NoVisitLater
  <2>2. c = first
    BY <1>4, <1>9, <2>1
  <2> QED
    BY <1>5, <1>7, <2>2
<1> QED
  BY <1>1, <1>8, <1>9 DEF Whole, Source

(* A visit returns, and makes no others. *)
LEMMA DroppedWhole ==
  ASSUME CallInv, Whole, Drops, DealtWith, loaded \subseteq loaded'
  PROVE  Whole'
<1>1. /\ work \in Seq(CallSet) /\ work # <<>> /\ Call.do = "visit"
      /\ work' = <<>> \o Tail(work)
      /\ UNCHANGED <<input, present, visited>>
  BY DEF Drops, CallInv
<1>2. Pending = {Call} \cup Rest /\ Pending' = Rest
  <2> DEFINE none == <<>>
  <2>1. none \in Seq(CallSet) /\ Len(none) = 0
    OBVIOUS
  <2>2. work' = none \o Tail(work)
    BY <1>1
  <2> HIDE DEF none
  <2>3. Members(none) = {}
    BY <2>1 DEF Members
  <2> QED
    BY <1>1, <2>1, <2>2, <2>3, AfterReplace
<1>3. PICK gone, E : gone = Call /\ E = visited
  OBVIOUS
<1>4. ASSUME NEW n, NEW p \in Visible(n)', VisitOf(gone, n), gone.path = p
      PROVE  Covers(n, E, p)'
  <2>1. /\ Call.n = n /\ Call.path = p /\ p \in present
        /\ p # input.real[p] => input.sources[n].follow
    BY <1>1, <1>3, <1>4 DEF VisitOf, Visible, Sees
  <2>2. /\ input.kind[input.real[p]] = "file" /\ input.real[p] \in input.sources[n].match
             => [n |-> n, path |-> input.real[p]] \in loaded'
        /\ input.kind[input.real[p]] = "directory" => input.real[p] \in E
    BY <1>3, <2>1 DEF DealtWith, IsLink, Options, Wanted, Real
  <2> QED
    BY <1>1, <2>2 DEF Covers, IsKind
<1>5. /\ Pending \subseteq Pending' \cup {gone} /\ gone \in Pending
      /\ \A c \in Pending : c.do = "source" => c \in Pending'
  BY <1>1, <1>2, <1>3
<1>6. \A c \in Pending' : c.do = "visit" => \E d \in Pending : VisitOf(d, c.n)
  BY <1>2 DEF VisitOf
<1>7. E = visited' /\ visited \subseteq E /\ E \subseteq Paths /\ E \ visited = {}
  BY <1>1, <1>3 DEF CallInv
<1> QED
  BY <1>1, <1>4, <1>5, <1>6, <1>7, WholeKept

LEMMA StillWhole ==
  ASSUME CallInv, Whole, Still, loaded' = loaded
  PROVE  Whole'
<1>1. Pending' = Pending /\ UNCHANGED <<input, visited>> /\ present' \subseteq present
  BY DEF Still, Pending
<1>2. PICK gone, E : gone = Source(1) /\ E = visited
  OBVIOUS
<1>3. gone.do = "source"
  BY <1>2 DEF Source
<1>4. \A c \in Pending' : c.do = "visit" => \E d \in Pending : VisitOf(d, c.n)
  BY <1>1 DEF VisitOf
<1>5. /\ E = visited' /\ visited \subseteq E /\ E \subseteq Paths /\ E \ visited = {}
      /\ Pending \subseteq Pending' \cup {gone} /\ loaded \subseteq loaded'
      /\ gone.do = "visit" => gone \in Pending
      /\ \A c \in Pending : c.do = "source" => c \in Pending'
  BY <1>1, <1>2, <1>3 DEF CallInv
<1>6. \A n : \A p \in Visible(n)' :
        VisitOf(gone, n) /\ gone.path = p => Covers(n, E, p)'
  BY <1>3 DEF VisitOf
<1> QED
  BY <1>1, <1>4, <1>5, <1>6, WholeKept

(* All visits are of the source of the directory, and every entry that the *)
(* source sees is visited. *)
LEMMA DirectoryWhole ==
  ASSUME CallInv, input \in Inputs, present \subseteq Paths, Whole, Directory
  PROVE  Whole'
<1>1. /\ work \in Seq(CallSet) /\ work # <<>> /\ Call.do = "visit" /\ Real \in Paths
      /\ input.kind[Real] = "directory" /\ visited' = visited \cup {Real}
      /\ UNCHANGED <<input, present, pc, loaded>>
  BY DirectoryCalls DEF CallInv
<1>2. PICK calls \in Seq(CallSet) :
        /\ work' = calls \o Tail(work)
        /\ \A i \in 1 .. Len(calls) : VisitOf(calls[i], Call.n)
        /\ \A p \in present \ Pruned : IsEntry(Real, p) =>
             \E c \in Members(calls) : VisitOf(c, Call.n) /\ c.path = p
  BY DirectoryCalls
<1>3. /\ Pending = {Call} \cup Rest /\ Pending' = Members(calls) \cup Rest
      /\ Call = work[1] /\ Call \in Pending
      /\ Len(work) \in Nat \ {0} /\ DOMAIN work = 1 .. Len(work)
  BY <1>1, <1>2, AfterReplace, FirstCall
<1>4. PICK gone, E, real, n :
        gone = Call /\ E = visited \cup {Real} /\ real = Real /\ n = Call.n
  OBVIOUS
<1>5. ASSUME NEW c \in Pending', c.do = "visit"
      PROVE  \E d \in Pending : VisitOf(d, c.n)
  <2>1. CASE c \in Rest
    BY <1>3, <1>5, <2>1 DEF VisitOf
  <2>2. CASE c \in Members(calls)
    <3>1. PICK i \in 1 .. Len(calls) : c = calls[i]
      BY <2>2 DEF Members
    <3>2. VisitOf(c, Call.n)
      BY <1>2, <3>1
    <3> QED
      BY <1>1, <1>3, <3>2 DEF VisitOf
  <2> QED
    BY <1>3, <2>1, <2>2
<1>6. ASSUME NEW c \in Pending, NEW k, VisitOf(c, k) PROVE k = n
  <2>1. PICK j \in DOMAIN work : c = work[j]
    BY <1>1 DEF Pending, Members
  <2>2. 1 \in DOMAIN work /\ 1 <= j
    BY <1>3
  <2>3. VisitOf(work[1], work[j].n)
    BY <1>6, <2>1, <2>2 DEF CallInv, VisitOf
  <2> QED
    BY <1>3, <1>4, <1>6, <2>1, <2>3 DEF VisitOf
<1>7. ASSUME NEW p \in Visible(n)', IsEntry(real, p), p # input.sources[n].path
      PROVE  Covers(n, E, p)'
  <2>1. p \in present \ Pruned
    BY <1>1, <1>4, <1>7 DEF Visible, Sees, Pruned, Options
  <2>2. PICK c \in Members(calls) : VisitOf(c, Call.n) /\ c.path = p
    BY <1>2, <1>4, <1>7, <2>1
  <2>3. c \in Pending' /\ VisitOf(c, n)
    BY <1>3, <1>4, <2>2
  <2> QED
    BY <2>2, <2>3 DEF Covers, VisitOf
<1>8. ASSUME NEW p, gone.path = p PROVE Covers(n, E, p)'
  <2>1. input' = input /\ input.kind[input.real[p]] = "directory" /\ input.real[p] \in E
    BY <1>1, <1>4, <1>8 DEF Real
  <2> QED
    BY <2>1 DEF Covers, IsKind
<1>9. /\ Pending \subseteq Pending' \cup {gone} /\ gone \in Pending
      /\ \A c \in Pending : c.do = "source" => c \in Pending'
  BY <1>1, <1>3, <1>4
<1>10. E = visited' /\ visited \subseteq E /\ E \subseteq Paths /\ E \ visited \subseteq {real}
  BY <1>1, <1>4 DEF CallInv
<1>11. \A k : \A p \in Visible(k)' :
         VisitOf(gone, k) /\ gone.path = p => Covers(k, E, p)'
  BY <1>6, <1>8, <1>9
<1>12. ASSUME NEW c \in Pending, NEW k, VisitOf(c, k),
              NEW p \in Visible(k)', NEW d \in E \ visited,
              IsEntry(d, p) /\ p # input.sources[k].path
       PROVE  Covers(k, E, p)'
  <2>1. k = n /\ d = real
    BY <1>6, <1>10, <1>12
  <2> QED
    BY <1>7, <1>12, <2>1
<1> QED
  BY <1>1, <1>5, <1>9, <1>10, <1>11, <1>12, WholeKept

-----------------------------------------------------------------------------
LEMMA InitComplete == ASSUME Init PROVE ReadsFile /\ Complete
<1>1. ReadsFile /\ pc # "loaded"
  BY DEF Init, ReadsFile
<1>2. /\ DOMAIN input.sources = 1 .. Len(input.sources) /\ Len(input.sources) \in Nat
      /\ work = [n \in 1 .. Len(input.sources) |-> Source(n)]
  BY ProjectFacts DEF Init
<1>3. \A n \in 1 .. Len(input.sources) : Source(n) \in CallSet
  BY <1>2 DEF Source, CallSet
<1>4. Len(work) = Len(input.sources)
  BY <1>2, <1>3, IsASeq
<1>5. \A n \in DOMAIN input.sources : Source(n) \in Pending
  BY <1>2, <1>4 DEF Pending, Members
<1>6. ASSUME NEW c \in Pending PROVE c.do # "visit"
  <2>1. PICK n \in 1 .. Len(input.sources) : c = Source(n)
    BY <1>2, <1>4 DEF Pending, Members
  <2> QED
    BY <2>1 DEF Source
<1> QED
  BY <1>1, <1>5, <1>6 DEF Complete, Whole

LEMMA EndsStep ==
  ASSUME pc = "loaded" => work = <<>>, [Next]_vars
  PROVE  pc' = "loaded" => work' = <<>>
<1>1. CASE LoadSource
  BY <1>1 DEF LoadSource, Absolute, Begin, Calls, Fail
<1>2. CASE WalkContent
  <2>1. CASE TooDeep \/ Missing \/ PassOver \/ SkipLink \/ Inspect
    BY <2>1
    DEF TooDeep, Missing, PassOver, SkipLink, Inspect, At, Calls, Fail, Ignore
  <2>2. CASE Unresolved \/ Outside \/ VisitedBefore \/ TooManyEntries \/ Directory
    BY <2>2
    DEF Unresolved, Outside, VisitedBefore, TooManyEntries, Directory, Meets,
        At, Calls, Fail, Ignore
  <2>3. CASE NotWanted \/ StatExceeds \/ StatFits \/ ReadFails \/ ReadExceeds
               \/ Read \/ Fails
    BY <2>3
    DEF NotWanted, StatExceeds, StatFits, ReadFails, ReadExceeds, Read, Fails,
        Meets, At, Calls, Fail, Ignore
  <2> QED
    BY <1>2, <2>1, <2>2, <2>3 DEF WalkContent
<1>3. CASE Finish
  BY <1>3 DEF Finish
<1>4. CASE Environment
  BY <1>4 DEF Environment, Grow, Remove
<1>5. CASE Ended \/ UNCHANGED vars
  BY <1>5 DEF Ended, vars
<1> QED
  BY <1>1, <1>2, <1>3, <1>4, <1>5 DEF Next

LEMMA CompleteStep ==
  ASSUME Inv, CallInv, ReadsFile, Complete, [Next]_vars
  PROVE  Complete'
<1>1. pc' = "loaded" => work' = <<>>
  BY EndsStep DEF Complete
<1>2. input \in Inputs /\ present \subseteq Paths
  BY DEF Inv, Types
<1>3. ASSUME pc' # "failed" PROVE Whole'
  <2>1. CASE Drops /\ DealtWith /\ loaded \subseteq loaded' /\ UNCHANGED pc
    BY <1>3, <2>1, DroppedWhole DEF Complete
  <2>2. CASE Begin
    BY <1>2, <1>3, <2>2, BeginCalls, BeginWhole DEF Complete
  <2>3. CASE Directory
    BY <1>2, <1>3, <2>3, DirectoryCalls, DirectoryWhole DEF Complete
  <2>4. CASE Still /\ UNCHANGED loaded /\ (pc = "failed" => pc' = "failed")
    BY <1>3, <2>4, StillWhole DEF Complete
  <2> QED
    BY <2>1, <2>2, <2>3, <2>4, StepKinds
<1> QED
  BY <1>1, <1>3 DEF Complete

(* When no call is left, what is covered has been loaded. *)
LEMMA CompleteFacts ==
  ASSUME Inv, Complete
  PROVE  LoadIsComplete
<1> SUFFICES ASSUME pc = "loaded", NEW n \in DOMAIN input.sources
             PROVE  /\ ~ input.sources[n].absolute
                    /\ \A p \in Wants(input.sources[n], present) :
                         [n |-> n, path |-> input.real[p]] \in loaded
  BY DEF LoadIsComplete
<1>1. Pending = {} /\ Whole /\ input \in Inputs /\ present \subseteq Paths
  BY DEF Complete, Inv, Types, Pending, Members
<1>2. PICK D : ~ input.sources[n].absolute /\ WalkedBy(n, D)
  BY <1>1 DEF Whole
<1>3. PICK source : source = input.sources[n]
  OBVIOUS
<1> DEFINE S == Sees(source, present)
           X == {p \in S :
                   /\ IsKind(input, p, "file", present) /\ input.real[p] \in source.match
                        => [n |-> n, path |-> input.real[p]] \in loaded
                   /\ IsKind(input, p, "directory", present) => input.real[p] \in D}
<1>4. S \subseteq present /\ IsFiniteSet(S)
  <2>1. S \subseteq present
    BY DEF Sees
  <2>2. IsFiniteSet(DOMAIN input.real)
    BY <1>1, ProjectFacts
  <2> QED
    BY <1>1, <2>1, <2>2, FS_Subset DEF Paths
<1>5. ASSUME NEW p \in S, p = source.path \/ \E d \in D : IsEntry(d, p)
      PROVE  p \in X
  BY <1>1, <1>2, <1>3, <1>5 DEF WalkedBy, Covers
<1>6. ASSUME NEW p \in Below(input, X, S) PROVE p \in X
  <2>1. PICK r \in X : IsKind(input, r, "directory", S) /\ p \in Entries(input, r, S)
    BY DEF Below
  <2>2. p \in S /\ IsEntry(input.real[r], p)
    BY <2>1 DEF Entries, IsEntry
  <2>3. input.real[r] \in D
    BY <1>4, <2>1 DEF IsKind
  <2> QED
    BY <1>5, <2>2, <2>3
<1>7. source.path \in S => source.path \in X
  BY <1>5
<1> HIDE DEF X, S
<1>8. Reached(input, source.path, S) \subseteq X
  BY <1>4, <1>6, <1>7, ReachedIsLeast
<1>9. ASSUME NEW p \in Wants(source, present)
      PROVE  [n |-> n, path |-> input.real[p]] \in loaded
  <2>1. /\ p \in Reached(input, source.path, S)
        /\ IsKind(input, p, "file", present) /\ input.real[p] \in source.match
    BY <1>9 DEF Wants, S
  <2>2. p \in X
    BY <1>8, <2>1
  <2> QED
    BY <2>1, <2>2 DEF X
<1> QED
  BY <1>2, <1>3, <1>9

(* LoadIsComplete is an invariant: a load that succeeds has read every file *)
(* of every source that still exists.  No source was skipped, and what a   *)
(* walk has not dealt with yet is always among the calls to make, for any  *)
(* links, cycles, limits and changes of the tree in between.               *)
THEOREM LoadComplete == Spec => []LoadIsComplete
<1>1. Init => CallInv /\ ReadsFile /\ Complete
  BY InitCalls, InitComplete
<1>2. Inv /\ CallInv /\ ReadsFile /\ Complete /\ [Next]_vars
        => CallInv' /\ ReadsFile' /\ Complete'
  BY CallStep, ReadsFileStep, CompleteStep
<1>3. Inv /\ Complete => LoadIsComplete
  BY CompleteFacts
<1> QED
  BY InitInv, NextInv, <1>1, <1>2, <1>3, PTL DEF Spec

-----------------------------------------------------------------------------
(* Pairs with a first part that is new. *)
LEMMA PairsAdded ==
  ASSUME NEW P, IsFiniteSet(P), NEW c, \A x \in P : x[1] # c,
         NEW T, IsFiniteSet(T), NEW Q, Q = P \cup ({c} \X T)
  PROVE  IsFiniteSet(Q) /\ Cardinality(Q) = Cardinality(P) + Cardinality(T)
<1>1. PICK U, V : U = {c} \X T /\ V = {c}
  OBVIOUS
<1>2. IsFiniteSet(V) /\ Cardinality(V) = 1 /\ U = V \X T
  BY <1>1, FS_Singleton
<1>3. IsFiniteSet(U) /\ Cardinality(U) = Cardinality(V) * Cardinality(T)
  BY <1>2, FS_Product
<1>4. P \cap U = {} /\ Q = P \cup U
  BY <1>1
<1>5. /\ Cardinality(P) \in Nat /\ Cardinality(T) \in Nat
      /\ Cardinality(P \cap U) = 0
  BY <1>4, FS_CardinalityType, FS_EmptySet
<1>6. IsFiniteSet(Q) /\ Cardinality(Q) = Cardinality(P) + Cardinality(U) - 0
  BY <1>3, <1>4, <1>5, FS_Union
<1>7. Cardinality(U) = Cardinality(T)
  BY ONLY <1>2, <1>3, <1>5
<1> QED
  BY <1>5, <1>6, <1>7

LEMMA PairsFinite ==
  ASSUME NEW F, IsFiniteSet(F), NEW m, \A f \in F : IsFiniteSet(m[f])
  PROVE  IsFiniteSet(UNION {{f} \X m[f] : f \in F})
<1> DEFINE T == {{f} \X m[f] : f \in F}
           g == [f \in F |-> {f} \X m[f]]
<1>1. g \in Surjection(F, T)
  BY DEF Surjection
<1>2. \A t \in T : IsFiniteSet(t)
  <2>1. \A f \in F : IsFiniteSet({f} \X m[f])
    BY FS_Singleton, FS_Product
  <2> QED
    BY <2>1
<1> HIDE DEF T, g
<1>3. IsFiniteSet(UNION T)
  BY <1>1, <1>2, FS_Surjection, FS_UNION
<1> QED
  BY <1>3 DEF T

(* What all sources come to is finite. *)
LEMMA AllFinite ==
  ASSUME input \in Inputs
  PROVE  /\ AllFiles \cup AllDirectories \subseteq (DOMAIN input.sources) \X Paths
         /\ IsFiniteSet(AllFiles) /\ IsFiniteSet(BytesOf(AllFiles))
         /\ IsFiniteSet(AllDirectories) /\ IsFiniteSet(EntriesOf(AllDirectories))
         /\ \A p \in Paths : input.text[input.real[p]] \in Nat
         /\ \A d : IsFiniteSet(Entries(input, d, input.present))
<1>1. /\ IsFiniteSet(Paths) /\ IsFiniteSet(input.present)
      /\ DOMAIN input.sources = 1 .. Len(input.sources) /\ Len(input.sources) \in Nat
      /\ \A p \in Paths : input.text[input.real[p]] \in Nat
  BY ProjectFacts, Projects DEF Paths
<1>2. IsFiniteSet((DOMAIN input.sources) \X Paths)
  <2>1. IsFiniteSet(DOMAIN input.sources)
    BY <1>1, FS_Interval
  <2> QED
    BY <1>1, <2>1, FS_Product
<1>3. /\ AllFiles \cup AllDirectories \subseteq (DOMAIN input.sources) \X Paths
      /\ IsFiniteSet(AllFiles) /\ IsFiniteSet(AllDirectories)
  BY <1>2, FS_Subset DEF AllFiles, AllDirectories
<1>4. \A d : IsFiniteSet(Entries(input, d, input.present))
  <2>1. \A d : Entries(input, d, input.present) \in SUBSET input.present
    BY DEF Entries
  <2> QED
    BY <1>1, <2>1, FS_Subset
<1>5. \A f \in AllFiles : IsFiniteSet(1 .. input.text[input.real[f[2]]])
  <2> SUFFICES ASSUME NEW f \in AllFiles
               PROVE  IsFiniteSet(1 .. input.text[input.real[f[2]]])
    OBVIOUS
  <2>1. PICK k : k = input.text[input.real[f[2]]]
    OBVIOUS
  <2>2. k \in Nat
    BY <1>1, <1>3, <2>1
  <2>3. IsFiniteSet(1 .. k)
    BY ONLY <2>2, FS_Interval
  <2> QED
    BY <2>1, <2>3
<1>6. IsFiniteSet(BytesOf(AllFiles))
  <2> DEFINE m == [f \in AllFiles |-> 1 .. input.text[input.real[f[2]]]]
  <2>1. \A f \in AllFiles : IsFiniteSet(m[f])
    BY <1>5
  <2>2. BytesOf(AllFiles) = UNION {{f} \X m[f] : f \in AllFiles}
    BY DEF BytesOf
  <2> HIDE DEF m
  <2> QED
    BY <1>3, <2>1, <2>2, PairsFinite
<1>7. IsFiniteSet(EntriesOf(AllDirectories))
  <2> DEFINE m == [d \in AllDirectories |-> Entries(input, d[2], input.present)]
  <2>1. \A d \in AllDirectories : IsFiniteSet(m[d])
    BY <1>4
  <2>2. EntriesOf(AllDirectories) = UNION {{d} \X m[d] : d \in AllDirectories}
    BY DEF EntriesOf
  <2> HIDE DEF m
  <2> QED
    BY <1>3, <2>1, <2>2, PairsFinite
<1> QED
  BY <1>1, <1>3, <1>4, <1>6, <1>7

(* The counts of files and bytes when one file more is read. *)
LEMMA FileAdded ==
  ASSUME input \in Inputs, NEW F, F \subseteq AllFiles,
         NEW f \in AllFiles, f \notin F, NEW G, G = F \cup {f},
         NEW more, more = input.text[input.real[f[2]]]
  PROVE  /\ G \subseteq AllFiles
         /\ Cardinality(G) = Cardinality(F) + 1
         /\ Cardinality(BytesOf(G)) = Cardinality(BytesOf(F)) + more
         /\ Cardinality(G) <= Cardinality(AllFiles)
         /\ Cardinality(BytesOf(G)) <= Cardinality(BytesOf(AllFiles))
         /\ {Cardinality(F), more, Cardinality(BytesOf(F)),
             Cardinality(AllFiles), Cardinality(BytesOf(AllFiles))} \subseteq Nat
<1> DEFINE all == AllFiles
<1>1. /\ IsFiniteSet(all) /\ IsFiniteSet(BytesOf(all)) /\ more \in Nat
      /\ F \subseteq all /\ G \subseteq all
  BY AllFinite
<1>2. BytesOf(G) = BytesOf(F) \cup ({f} \X (1 .. more))
  BY DEF BytesOf
<1>3. BytesOf(F) \subseteq BytesOf(all) /\ BytesOf(G) \subseteq BytesOf(all)
  BY <1>1 DEF BytesOf
<1>4. \A x \in BytesOf(F) : x[1] # f
  BY DEF BytesOf
<1> HIDE DEF all
<1>5. IsFiniteSet(1 .. more) /\ Cardinality(1 .. more) = more
  <2>1. more \in Nat
    BY <1>1
  <2> QED
    BY ONLY <2>1, FS_Interval
<1>6. /\ IsFiniteSet(F) /\ IsFiniteSet(G)
      /\ IsFiniteSet(BytesOf(F)) /\ IsFiniteSet(BytesOf(G))
      /\ Cardinality(G) <= Cardinality(all)
      /\ Cardinality(BytesOf(G)) <= Cardinality(BytesOf(all))
  BY <1>1, <1>3, FS_Subset
<1>7. Cardinality(G) = Cardinality(F) + 1
  BY <1>6, FS_AddElement
<1>8. Cardinality(BytesOf(G)) = Cardinality(BytesOf(F)) + more
  <2>1. PICK T, P, Q : T = 1 .. more /\ P = BytesOf(F) /\ Q = BytesOf(G)
    OBVIOUS
  <2>2. /\ IsFiniteSet(P) /\ IsFiniteSet(T) /\ Cardinality(T) = more
        /\ Q = P \cup ({f} \X T) /\ \A x \in P : x[1] # f
    BY <1>2, <1>4, <1>5, <1>6, <2>1
  <2>3. Cardinality(Q) = Cardinality(P) + Cardinality(T)
    BY ONLY <2>2, PairsAdded
  <2> QED
    BY <2>1, <2>2, <2>3
<1>9. {Cardinality(F), more, Cardinality(BytesOf(F)),
       Cardinality(all), Cardinality(BytesOf(all))} \subseteq Nat
  BY <1>1, <1>6, FS_CardinalityType
<1> QED
  BY <1>1, <1>6, <1>7, <1>8, <1>9 DEF all

(* The count of entries when one directory more is entered. *)
LEMMA DirectoryAdded ==
  ASSUME input \in Inputs, NEW D, D \subseteq AllDirectories,
         NEW d \in AllDirectories, d \notin D, NEW E, E = D \cup {d},
         NEW more, more = Cardinality(Entries(input, d[2], input.present))
  PROVE  /\ E \subseteq AllDirectories
         /\ Cardinality(EntriesOf(E)) = Cardinality(EntriesOf(D)) + more
         /\ Cardinality(EntriesOf(E)) <= Cardinality(EntriesOf(AllDirectories))
         /\ {more, Cardinality(EntriesOf(D)),
             Cardinality(EntriesOf(AllDirectories))} \subseteq Nat
<1> DEFINE T   == Entries(input, d[2], input.present)
           all == AllDirectories
<1>1. /\ IsFiniteSet(EntriesOf(all)) /\ IsFiniteSet(T)
      /\ D \subseteq all /\ E \subseteq all
  BY AllFinite
<1>2. EntriesOf(E) = EntriesOf(D) \cup ({d} \X T)
  BY DEF EntriesOf
<1>3. EntriesOf(D) \subseteq EntriesOf(all) /\ EntriesOf(E) \subseteq EntriesOf(all)
  BY <1>1 DEF EntriesOf
<1>4. \A x \in EntriesOf(D) : x[1] # d
  BY DEF EntriesOf
<1> HIDE DEF T, all
<1>5. /\ IsFiniteSet(EntriesOf(D)) /\ IsFiniteSet(EntriesOf(E))
      /\ Cardinality(EntriesOf(E)) <= Cardinality(EntriesOf(all))
  BY <1>1, <1>3, FS_Subset
<1>6. Cardinality(EntriesOf(E)) = Cardinality(EntriesOf(D)) + Cardinality(T)
  <2>1. PICK P, Q : P = EntriesOf(D) /\ Q = EntriesOf(E)
    OBVIOUS
  <2>2. /\ IsFiniteSet(P) /\ IsFiniteSet(T)
        /\ Q = P \cup ({d} \X T) /\ \A x \in P : x[1] # d
    BY <1>1, <1>2, <1>4, <1>5, <2>1
  <2>3. Cardinality(Q) = Cardinality(P) + Cardinality(T)
    BY ONLY <2>2, PairsAdded
  <2> QED
    BY <2>1, <2>3
<1>7. {Cardinality(T), Cardinality(EntriesOf(D)), Cardinality(EntriesOf(all))}
        \subseteq Nat
  BY <1>1, <1>5, FS_CardinalityType
<1> QED
  BY <1>1, <1>5, <1>6, <1>7 DEF T, all

-----------------------------------------------------------------------------
(* While nobody changes the project: F are the files read and D the        *)
(* directories entered so far, each with its source.                       *)
Untouched(n, F, D) == \A x \in F \cup D : x[1] # n

(* The directories that lead to a visit. *)
HasTrail(c, D) ==
  \E chain \in [0 .. c.depth - 1 -> Paths] :
    /\ IsChain(input.sources[c.n], chain, c.depth - 1, present)
    /\ \A i \in 0 .. c.depth - 1 : <<c.n, chain[i]>> \in D
    /\ c.path \in Open(input.sources[c.n], chain[c.depth - 1], present)

OnTrail(c, F, D) ==
  /\ <<c.n, c.path>> \notin F
  /\ \A x \in D : x[1] = c.n => x[2] \in visited
  /\ IF c.depth = 0
     THEN c.path = input.sources[c.n].path /\ Untouched(c.n, F, D)
     ELSE c.depth <= MaxDepth + 1 /\ HasTrail(c, D)

Expected(c, F, D) ==
  IF c.do = "source" THEN Untouched(c.n, F, D) ELSE OnTrail(c, F, D)

(* Every file read, and every entry of a directory, is in the counts once. *)
Account(F, D) ==
  /\ F \subseteq AllFiles /\ D \subseteq AllDirectories
  /\ files = Cardinality(F) /\ bytes = Cardinality(BytesOf(F))
  /\ entries = Cardinality(EntriesOf(D))
  /\ \A f \in F : \/ f[2] = input.sources[f[1]].path
                  \/ \E d \in D : d[1] = f[1] /\ IsEntry(d[2], f[2])
  /\ \A c \in Pending : Expected(c, F, D)

(* No source is begun twice, no path is visited twice. *)
Apart ==
  \A i, j \in DOMAIN work :
    i # j /\ work[i].n = work[j].n =>
      /\ work[i].do = "visit" /\ work[j].do = "visit"
      /\ work[i].path # work[j].path

Inspected ==
  stage # "lstat" =>
    /\ work # <<>> /\ Call.do = "visit" /\ Call.path \in present
    /\ IsLink => Options.follow
    /\ seen = size[Call.path]
    /\ stage = "readFile" => IsKind(input, Call.path, "file", present) /\ Wanted

Undisturbed ==
  changes = 0 =>
    /\ present = input.present /\ size = input.size
    /\ Inspected /\ Apart /\ FailureIsReal
    /\ \E F, D : Account(F, D)

-----------------------------------------------------------------------------
(* What a walk visits is among what it is meant to reach. *)
LEMMA Walked ==
  ASSUME input \in Inputs, present = input.present,
         NEW n \in DOMAIN input.sources, NEW p \in present,
         p # input.real[p] => input.sources[n].follow,
         \/ p = input.sources[n].path
         \/ \E d : /\ <<n, d>> \in AllDirectories
                  /\ p \in Open(input.sources[n], d, present)
  PROVE  /\ p \in Reached(input, input.sources[n].path, Visible(n))
         /\ IsKind(input, p, "directory", present)
              => <<n, input.real[p]>> \in AllDirectories
         /\ IsKind(input, p, "file", present)
              /\ input.real[p] \in input.sources[n].match => <<n, p>> \in AllFiles
<1>1. PICK source, S : source = input.sources[n] /\ S = Visible(n)
  OBVIOUS
<1> DEFINE R == Reached(input, source.path, S)
<1>2. S = Sees(source, present) /\ S \subseteq present /\ IsFiniteSet(S)
  <2>1. IsFiniteSet(present)
    BY ProjectFacts
  <2> QED
    BY <1>1, <2>1, FS_Subset DEF Visible, Sees
<1>3. p \in Paths /\ present \subseteq Paths
  BY ProjectFacts, Projects DEF Paths
<1>4. p \in S
  BY <1>1, <1>2 DEF Sees, Open
<1>5. /\ source.path \in S => source.path \in R
      /\ Below(input, R, S) \subseteq R
  BY <1>2, ReachedIsClosed
<1>6. p \in R
  <2>1. CASE p = source.path
    BY <1>4, <1>5, <2>1
  <2>2. CASE \E d : <<n, d>> \in AllDirectories /\ p \in Open(source, d, present)
    <3>1. PICK d : <<n, d>> \in AllDirectories /\ p \in Open(source, d, present)
      BY <2>2
    <3>2. d \in Directories(input, source.path, S)
      BY <1>1, <1>2, <3>1 DEF AllDirectories
    <3>3. PICK q \in R : IsKind(input, q, "directory", S) /\ d = input.real[q]
      BY <3>2 DEF Directories
    <3>4. q \in Paths
      BY <1>2, <1>3, ReachedExists
    <3>5. input.real[d] = input.real[q]
      BY <3>3, <3>4, ListedOnce
    <3>6. p \in Entries(input, q, S)
      BY <1>4, <3>1, <3>5 DEF Open, Entries
    <3> QED
      BY <1>5, <3>3, <3>6 DEF Below
  <2> QED
    BY <1>1, <2>1, <2>2
<1>7. ASSUME IsKind(input, p, "directory", present)
      PROVE  <<n, input.real[p]>> \in AllDirectories
  <2>1. input.real[p] \in Paths /\ input.real[input.real[p]] = input.real[p]
    BY <1>3, ListedOnce
  <2>2. input.real[p] \in S
    <3>1. input.real[p] \in present
      BY <1>7 DEF IsKind
    <3>2. CASE source.prune
      <4>1. input.real[p] = p
        BY <1>1, <3>2, ListedOnce
      <4> QED
        BY <1>4, <4>1
    <3>3. CASE ~ source.prune
      BY <1>2, <2>1, <3>1, <3>3 DEF Sees
    <3> QED
      BY <3>2, <3>3
  <2>3. input.real[p] \in Directories(input, source.path, S)
    BY <1>6, <1>7, <2>2 DEF Directories, IsKind
  <2> QED
    BY <1>1, <1>2, <2>1, <2>3 DEF AllDirectories
<1>8. ASSUME IsKind(input, p, "file", present), input.real[p] \in source.match
      PROVE  <<n, p>> \in AllFiles
  <2>1. p \in Wants(source, present)
    BY <1>2, <1>6, <1>8 DEF Wants
  <2> QED
    BY <1>1, <1>3, <2>1 DEF AllFiles
<1> QED
  BY <1>1, <1>6, <1>7, <1>8

LEMMA DirectoryFacts ==
  ASSUME input \in Inputs, NEW n, NEW d, <<n, d>> \in AllDirectories
  PROVE  d \in Paths /\ input.real[d] = d /\ input.kind[d] = "directory"
<1> DEFINE source == input.sources[n]
           S == Sees(source, input.present)
<1>1. d \in Paths /\ d \in Directories(input, source.path, S)
  BY DEF AllDirectories
<1>2. S \subseteq Paths /\ IsFiniteSet(S)
  <2>1. S \subseteq input.present
    BY DEF Sees
  <2> HIDE DEF S
  <2> QED
    BY <2>1, ProjectFacts, Projects, FS_Subset DEF Paths
<1> HIDE DEF S
<1>3. PICK q \in Reached(input, source.path, S) :
        d = input.real[q] /\ IsKind(input, q, "directory", S)
  BY <1>1 DEF Directories
<1>4. q \in Paths
  BY <1>2, <1>3, ReachedExists
<1> QED
  BY <1>1, <1>3, <1>4, ListedOnce DEF IsKind

LEMMA FileFacts ==
  ASSUME input \in Inputs, NEW f \in AllFiles
  PROVE  /\ f[1] \in DOMAIN input.sources /\ f[2] \in Paths /\ f = <<f[1], f[2]>>
         /\ input.kind[input.real[f[2]]] = "file"
BY DEF AllFiles, Wants, IsKind

(* The first and the last directory that lead to a visit. *)
LEMMA TrailFacts ==
  ASSUME input \in Inputs, NEW D, D \subseteq AllDirectories,
         NEW c \in CallSet, c.do = "visit", c.depth # 0, HasTrail(c, D)
  PROVE  /\ <<c.n, input.real[input.sources[c.n].path]>> \in D
         /\ \E d \in Paths : /\ <<c.n, d>> \in D /\ IsEntry(d, c.path)
                            /\ c.path \in Open(input.sources[c.n], d, present)
<1>1. c.depth \in Nat \ {0}
  BY DEF CallSet
<1>2. PICK k : k = c.depth - 1
  OBVIOUS
<1>3. k \in Nat /\ 0 \in 0 .. k /\ k \in 0 .. k
  BY <1>1, <1>2
<1>4. PICK chain \in [0 .. k -> Paths] :
        /\ IsChain(input.sources[c.n], chain, k, present)
        /\ \A i \in 0 .. k : <<c.n, chain[i]>> \in D
        /\ c.path \in Open(input.sources[c.n], chain[k], present)
  BY <1>2 DEF HasTrail
<1>5. <<c.n, chain[0]>> \in D /\ chain[0] = input.real[input.sources[c.n].path]
  BY <1>3, <1>4 DEF IsChain
<1>6. PICK d : d = chain[k]
  OBVIOUS
<1>7. <<c.n, d>> \in D /\ c.path \in Open(input.sources[c.n], d, present)
  BY <1>3, <1>4, <1>6
<1>8. d \in Paths /\ input.real[d] = d
  BY <1>7, DirectoryFacts
<1>9. IsEntry(d, c.path)
  BY <1>7, <1>8 DEF Open, Entries, IsEntry
<1> QED
  BY <1>5, <1>7, <1>8, <1>9

LEMMA RestLater ==
  ASSUME work \in Seq(CallSet), work # <<>>, NEW c \in Rest
  PROVE  \E j \in 2 .. Len(work) : c = work[j]
<1>1. /\ Tail(work) \in Seq(CallSet) /\ Len(Tail(work)) = Len(work) - 1
      /\ \A i \in 1 .. Len(Tail(work)) : Tail(work)[i] = work[i + 1]
      /\ Len(work) \in Nat \ {0}
  BY HeadTailProperties, LenProperties, EmptySeq
<1>2. PICK i \in 1 .. Len(Tail(work)) : c = Tail(work)[i]
  BY DEF Rest, Members
<1>3. i + 1 \in 2 .. Len(work) /\ c = work[i + 1]
  BY <1>1, <1>2
<1> QED
  BY <1>3

LEMMA OthersApart ==
  ASSUME CallInv, Apart, work # <<>>, NEW c \in Rest
  PROVE  /\ c \in CallSet
         /\ c.n = Call.n => /\ c.do = "visit" /\ Call.do = "visit"
                            /\ c.path # Call.path
         /\ c.do = "visit" => c.n = Call.n /\ Call.do = "visit"
<1>1. PICK j \in 2 .. Len(work) : c = work[j]
  BY RestLater DEF CallInv
<1>2. /\ Call = work[1] /\ 1 \in DOMAIN work /\ j \in DOMAIN work
      /\ 1 # j /\ 1 <= j
  BY FirstCall DEF CallInv
<1>3. c \in CallSet
  BY <1>1, <1>2, ElementOfSeq DEF CallInv
<1>4. c.do = "visit" => VisitOf(Call, c.n)
  BY <1>1, <1>2 DEF CallInv
<1>5. c.n = Call.n => /\ c.do = "visit" /\ Call.do = "visit"
                      /\ c.path # Call.path
  BY <1>1, <1>2 DEF Apart
<1> QED
  BY <1>3, <1>4, <1>5 DEF VisitOf

(* The walk of a source has one start. *)
LEMMA OthersFurther ==
  ASSUME input \in Inputs, CallInv, Apart, NEW F, NEW D, Account(F, D),
         work # <<>>, Call.do = "visit", NEW c \in Rest, c.n = Call.n
  PROVE  c.do = "visit" /\ c.depth # 0 /\ c.path # Call.path
<1>1. /\ Call \in CallSet /\ c \in CallSet /\ c.do = "visit"
      /\ c.path # Call.path /\ c \in Pending /\ Call \in Pending
  BY OthersApart, FirstCall DEF CallInv
<1>2. OnTrail(c, F, D) /\ OnTrail(Call, F, D) /\ D \subseteq AllDirectories
  BY <1>1 DEF Account, Expected
<1>3. ASSUME c.depth = 0 PROVE FALSE
  <2>1. c.path = input.sources[c.n].path /\ Untouched(c.n, F, D)
    BY <1>2, <1>3 DEF OnTrail
  <2>2. Call.depth # 0
    BY <1>1, <1>2, <2>1 DEF OnTrail
  <2>3. HasTrail(Call, D)
    BY <1>2, <2>2 DEF OnTrail
  <2>4. <<c.n, input.real[input.sources[c.n].path]>> \in D
    BY <1>1, <1>2, <2>2, <2>3, TrailFacts
  <2> QED
    BY <2>1, <2>4 DEF Untouched
<1> QED
  BY <1>1, <1>3

(* The calls stay apart when the first one is replaced by visits of other  *)
(* paths of its source.                                                    *)
LEMMA ApartKept ==
  ASSUME CallInv, Apart, work # <<>>,
         NEW calls \in Seq(CallSet), work' = calls \o Tail(work),
         \A i, j \in 1 .. Len(calls) :
           /\ VisitOf(calls[i], Call.n)
           /\ calls[i].path = calls[j].path => i = j,
         \A c \in Rest, i \in 1 .. Len(calls) :
           c.n = Call.n => c.do = "visit" /\ calls[i].path # c.path
  PROVE  Apart'
<1>1. PICK t : t = work'
  OBVIOUS
<1> DEFINE n == Len(calls)
           m == Len(work)
           l == Len(t)
<1> HIDE DEF n, m, l
<1>2. /\ t \in Seq(CallSet) /\ m \in Nat \ {0} /\ n \in Nat /\ l = n + m - 1
      /\ \A i \in 1 .. n : t[i] = calls[i]
      /\ \A i \in n + 1 .. l : t[i] = work[i - n + 1]
  BY <1>1, FirstReplaced DEF CallInv, n, m, l
<1>3. DOMAIN t = 1 .. l /\ DOMAIN work = 1 .. m
  BY <1>2, LenProperties DEF CallInv, m, l
<1>4. \A i \in n + 1 .. l : i - n + 1 \in 2 .. m /\ i - n + 1 \in 1 .. m
  BY ONLY <1>2
<1>5. \A j \in 2 .. m : work[j] \in Rest
  <2> SUFFICES ASSUME NEW j \in 2 .. m PROVE work[j] \in Rest
    OBVIOUS
  <2>1. PICK u : u = Tail(work)
    OBVIOUS
  <2>2. Len(u) = m - 1 /\ \A i \in 1 .. m - 1 : u[i] = work[i + 1]
    BY <2>1, HeadTailProperties DEF CallInv, m
  <2>3. j - 1 \in 1 .. m - 1 /\ (j - 1) + 1 = j
    BY ONLY <1>2, j \in 2 .. m
  <2>4. u[j - 1] = work[j] /\ u[j - 1] \in Members(u)
    BY <2>2, <2>3 DEF Members
  <2> QED
    BY <2>1, <2>4 DEF Rest
<1>6. ASSUME NEW i \in 1 .. l, NEW j \in 1 .. l, i # j, t[i].n = t[j].n
      PROVE  t[i].do = "visit" /\ t[j].do = "visit" /\ t[i].path # t[j].path
  <2>1. (i \in 1 .. n \/ i \in n + 1 .. l) /\ (j \in 1 .. n \/ j \in n + 1 .. l)
    BY ONLY <1>2, i \in 1 .. l, j \in 1 .. l
  <2>2. CASE i \in 1 .. n /\ j \in 1 .. n
    <3>1. /\ VisitOf(calls[i], Call.n) /\ VisitOf(calls[j], Call.n)
          /\ calls[i].path # calls[j].path
      BY <1>6, <2>2 DEF n
    <3> QED
      BY <1>2, <2>2, <3>1 DEF VisitOf
  <2>3. CASE i \in 1 .. n /\ j \in n + 1 .. l
    <3>1. t[j] \in Rest /\ VisitOf(t[i], Call.n) /\ t[i] = calls[i]
      BY <1>2, <1>4, <1>5, <2>3 DEF n
    <3>2. t[j].n = Call.n /\ t[i].do = "visit"
      BY <1>6, <3>1 DEF VisitOf
    <3> QED
      BY <2>3, <3>1, <3>2 DEF n
  <2>4. CASE i \in n + 1 .. l /\ j \in 1 .. n
    <3>1. t[i] \in Rest /\ VisitOf(t[j], Call.n) /\ t[j] = calls[j]
      BY <1>2, <1>4, <1>5, <2>4 DEF n
    <3>2. t[i].n = Call.n /\ t[j].do = "visit"
      BY <1>6, <3>1 DEF VisitOf
    <3> QED
      BY <2>4, <3>1, <3>2 DEF n
  <2>5. CASE i \in n + 1 .. l /\ j \in n + 1 .. l
    <3>1. i - n + 1 # j - n + 1
      BY ONLY <1>2, <1>6, <2>5
    <3>2. i - n + 1 \in DOMAIN work /\ j - n + 1 \in DOMAIN work
      BY <1>3, <1>4, <2>5
    <3>3. t[i] = work[i - n + 1] /\ t[j] = work[j - n + 1]
      BY <1>2, <2>5
    <3> QED
      BY <1>6, <3>1, <3>2, <3>3 DEF Apart
  <2> QED
    BY <2>1, <2>2, <2>3, <2>4, <2>5
<1>7. DOMAIN work' = 1 .. l
  BY <1>1, <1>3
<1>8. \A i, j \in 1 .. l :
        i # j /\ t[i].n = t[j].n =>
          t[i].do = "visit" /\ t[j].do = "visit" /\ t[i].path # t[j].path
  BY <1>6
<1>9. \A i, j \in 1 .. l :
        i # j /\ work'[i].n = work'[j].n =>
          /\ work'[i].do = "visit" /\ work'[j].do = "visit"
          /\ work'[i].path # work'[j].path
  BY ONLY <1>1, <1>8
<1> QED
  BY ONLY <1>7, <1>9 DEF Apart

-----------------------------------------------------------------------------
(* What fails a load that nobody disturbs. *)
Cause ==
  \/ ~ input.rooted \/ TooMuch
  \/ \E n \in DOMAIN input.sources : SourceIsFlawed(input.sources[n])

(* The visit under way is of something that its source is meant to reach,  *)
(* and that is not in the counts yet.                                      *)
LEMMA Here ==
  ASSUME Inv, CallInv, present = input.present, NEW F, NEW D, Account(F, D),
         work # <<>>, Call.do = "visit"
  PROVE  /\ OnTrail(Call, F, D) /\ D \subseteq AllDirectories /\ F \subseteq AllFiles
         /\ Call \in CallSet /\ Call.n \in DOMAIN input.sources
         /\ Call.path \in Paths /\ Call.depth \in Nat
         /\ Call.path \in present /\ (IsLink => Options.follow) =>
              /\ Call.path \in Reached(input, Options.path, Visible(Call.n))
              /\ IsKind(input, Call.path, "directory", present) =>
                   /\ <<Call.n, Real>> \in AllDirectories
                   /\ Real \notin visited => <<Call.n, Real>> \notin D
              /\ IsKind(input, Call.path, "file", present) /\ Wanted =>
                   <<Call.n, Call.path>> \in AllFiles \ F
<1>1. Call \in CallSet /\ Call \in Pending
  BY FirstCall DEF CallInv
<1>2. /\ Call.n \in DOMAIN input.sources /\ Call.path \in Paths /\ Call.depth \in Nat
  BY <1>1 DEF CallSet
<1>3. OnTrail(Call, F, D) /\ D \subseteq AllDirectories /\ F \subseteq AllFiles
  BY <1>1 DEF Account, Expected
<1>4. \/ Call.path = Options.path
      \/ \E d : /\ <<Call.n, d>> \in AllDirectories
               /\ Call.path \in Open(Options, d, present)
  <2>1. CASE Call.depth = 0
    BY <1>3, <2>1 DEF OnTrail, Options
  <2>2. CASE Call.depth # 0
    <3>1. HasTrail(Call, D) /\ input \in Inputs
      BY <1>3, <2>2 DEF OnTrail, Inv, Types
    <3>2. \E d \in Paths : /\ <<Call.n, d>> \in D
                         /\ Call.path \in Open(Options, d, present)
      BY <1>1, <1>3, <2>2, <3>1, TrailFacts DEF Options
    <3> QED
      BY <1>3, <3>2
  <2> QED
    BY <2>1, <2>2
<1>5. ASSUME Call.path \in present, IsLink => Options.follow
      PROVE  /\ Call.path \in Reached(input, Options.path, Visible(Call.n))
             /\ IsKind(input, Call.path, "directory", present) =>
                   <<Call.n, Real>> \in AllDirectories
             /\ IsKind(input, Call.path, "file", present) /\ Wanted =>
                   <<Call.n, Call.path>> \in AllFiles
  <2>1. PICK n, p : n = Call.n /\ p = Call.path
    OBVIOUS
  <2>2. /\ input \in Inputs /\ n \in DOMAIN input.sources /\ p \in present
        /\ p # input.real[p] => input.sources[n].follow
    BY <1>2, <1>5, <2>1 DEF Inv, Types, IsLink, Options, Real
  <2>3. \/ p = input.sources[n].path
        \/ \E d : /\ <<n, d>> \in AllDirectories
                 /\ p \in Open(input.sources[n], d, present)
    BY <1>4, <2>1 DEF Options
  <2>4. /\ p \in Reached(input, input.sources[n].path, Visible(n))
        /\ IsKind(input, p, "directory", present)
             => <<n, input.real[p]>> \in AllDirectories
        /\ IsKind(input, p, "file", present)
             /\ input.real[p] \in input.sources[n].match => <<n, p>> \in AllFiles
    BY <2>2, <2>3, Walked
  <2> QED
    BY <2>1, <2>4 DEF Options, Real, Wanted
<1>6. /\ <<Call.n, Call.path>> \notin F
      /\ Real \notin visited => <<Call.n, Real>> \notin D
  BY <1>3 DEF OnTrail
<1> QED
  BY <1>1, <1>2, <1>3, <1>5, <1>6

(* A listing has each entry once. *)
LEMMA ListingCount ==
  ASSUME input \in Inputs, present = input.present, Call.path \in Paths
  PROVE  Cardinality(Listing) = Cardinality(Entries(input, Real, input.present))
<1> DEFINE list == input.entries[Real]
           T == Entries(input, Real, input.present)
           g == [i \in Listing |-> list[i]]
<1>1. Real \in Paths /\ input.real[Real] = Real /\ Once(list)
  BY ListedOnce DEF Real
<1>2. list \in Seq(Paths)
  BY <1>1, ProjectFacts DEF Paths
<1>3. DOMAIN list = 1 .. Len(list) /\ Len(list) \in Nat
  BY <1>2, LenProperties
<1>4. IsFiniteSet(Listing)
  <2>1. Listing \subseteq 1 .. Len(list) /\ IsFiniteSet(1 .. Len(list))
    BY <1>3, FS_Interval DEF Listing
  <2> QED
    BY <2>1, FS_Subset
<1>5. Listing = {i \in 1 .. Len(list) : list[i] \in present}
  BY <1>3 DEF Listing
<1>6. T = {list[i] : i \in 1 .. Len(list)} \cap present
  BY <1>1, <1>3 DEF Entries
<1> HIDE DEF list, T
<1>7. g \in Surjection(Listing, T)
  BY <1>5, <1>6 DEF Surjection
<1>8. g \in Injection(Listing, T)
  <2>1. \A i, j \in Listing : g[i] = g[j] => i = j
    BY <1>1, <1>5 DEF Once
  <2>2. g \in [Listing -> T]
    BY <1>7 DEF Surjection
  <2> HIDE DEF g
  <2> QED
    BY <2>1, <2>2 DEF Injection, IsInjective
<1> HIDE DEF g
<1>9. Cardinality(T) = Cardinality(Listing)
  BY <1>4, <1>7, <1>8, FS_Surjection
<1> QED
  BY <1>9 DEF T

(* A walk that is too deep has come through a chain of directories. *)
LEMMA DeepIsFlaw ==
  ASSUME Inv, CallInv, present = input.present, NEW F, NEW D, Account(F, D), TooDeep
  PROVE  Cause
<1>1. /\ work # <<>> /\ Call.do = "visit" /\ Call.depth > MaxDepth
      /\ MaxDepth \in Nat
  BY ContentLimitAssumption DEF TooDeep, Calls
<1>2. /\ OnTrail(Call, F, D) /\ D \subseteq AllDirectories
      /\ Call.n \in DOMAIN input.sources /\ Call.depth \in Nat
  BY <1>1, Here
<1>3. HasTrail(Call, D) /\ Call.depth - 1 = MaxDepth
  BY <1>1, <1>2 DEF OnTrail
<1>4. PICK source, S : source = Options /\ S = present
  OBVIOUS
<1>5. PICK chain \in [0 .. MaxDepth -> Paths] :
        /\ IsChain(source, chain, MaxDepth, S)
        /\ \A i \in 0 .. MaxDepth : <<Call.n, chain[i]>> \in D
        /\ Call.path \in Open(source, chain[MaxDepth], S)
  BY <1>3, <1>4 DEF HasTrail, Options
<1>6. ASSUME NEW i \in 0 .. MaxDepth
      PROVE  chain[i] \in Directories(input, source.path, Sees(source, S))
  <2>1. <<Call.n, chain[i]>> \in AllDirectories
    BY <1>2, <1>5
  <2> QED
    BY <1>4, <2>1 DEF AllDirectories, Options
<1>7. chain \in [0 .. MaxDepth -> Directories(input, source.path, Sees(source, S))]
  BY <1>5, <1>6
<1>8. IsDeep(source, S)
  BY <1>5, <1>7 DEF IsDeep
<1> QED
  BY <1>2, <1>4, <1>8 DEF Cause, SourceIsFlawed, Options

LEMMA MissingIsFlaw ==
  ASSUME Inv, CallInv, present = input.present, NEW F, NEW D, Account(F, D), Missing
  PROVE  Cause
<1>1. /\ work # <<>> /\ Call.do = "visit" /\ Call.path \notin present
      /\ ~ Options.optional /\ input \in Inputs
  BY DEF Missing, At, Calls, Inv, Types
<1>2. /\ OnTrail(Call, F, D) /\ D \subseteq AllDirectories
      /\ Call.n \in DOMAIN input.sources /\ Call \in CallSet
  BY <1>1, Here
<1>3. Call.depth = 0
  <2> SUFFICES ASSUME Call.depth # 0 PROVE FALSE
    OBVIOUS
  <2>1. HasTrail(Call, D)
    BY <1>2 DEF OnTrail
  <2>2. \E d \in Paths : Call.path \in Open(Options, d, present)
    BY <1>1, <1>2, <2>1, TrailFacts DEF Options
  <2> QED
    BY <1>1, <2>2 DEF Open, Entries
<1>4. Call.path = Options.path
  BY <1>2, <1>3 DEF OnTrail, Options
<1> QED
  BY <1>1, <1>2, <1>4 DEF Cause, SourceIsFlawed, Options

LEMMA PlaceIsFlaw ==
  ASSUME Inv, CallInv, present = input.present, NEW F, NEW D, Account(F, D),
         Inspected, Unresolved \/ Outside
  PROVE  Cause
<1>1. /\ work # <<>> /\ Call.do = "visit" /\ Call.path \in present
      /\ IsLink => Options.follow
  BY DEF Unresolved, Outside, At, Calls, Inspected
<1>2. /\ Call.path \in Reached(input, Options.path, Visible(Call.n))
      /\ Call.n \in DOMAIN input.sources
  BY <1>1, Here
<1>3. Real \notin present \cap Options.inside
  BY <1>1 DEF Unresolved, Outside
<1> QED
  BY <1>2, <1>3 DEF Cause, SourceIsFlawed, Options, Real, Visible

(* One entry, file or byte too many is one more than everything comes to. *)
LEMMA EntriesAreTooMany ==
  ASSUME Inv, CallInv, present = input.present, NEW F, NEW D, Account(F, D),
         Inspected, TooManyEntries
  PROVE  Cause
<1>1. /\ work # <<>> /\ Call.do = "visit" /\ Call.path \in present
      /\ IsLink => Options.follow
      /\ IsKind(input, Call.path, "directory", present) /\ Real \notin visited
      /\ Cardinality(Listing) > MaxEntries - entries /\ input \in Inputs
  BY DEF TooManyEntries, Meets, At, Calls, Inspected, IsKind, Real, Inv, Types
<1>2. PICK d : d = <<Call.n, Real>>
  OBVIOUS
<1>3. /\ d \in AllDirectories /\ d \notin D /\ D \subseteq AllDirectories
      /\ Call.path \in Paths
  BY <1>1, <1>2, Here
<1>4. Cardinality(Listing) = Cardinality(Entries(input, d[2], input.present))
  BY <1>1, <1>2, <1>3, ListingCount
<1>5. PICK E, more, all :
        /\ E = D \cup {d} /\ all = Cardinality(EntriesOf(AllDirectories))
        /\ more = Cardinality(Entries(input, d[2], input.present))
  OBVIOUS
<1>6. entries + more <= all /\ {more, entries, all} \subseteq Nat
  BY <1>1, <1>3, <1>5, DirectoryAdded DEF Account
<1>7. all > MaxEntries
  BY <1>1, <1>4, <1>5, <1>6, ContentLimitAssumption
<1> QED
  BY <1>5, <1>7 DEF Cause, TooMuch

LEMMA FileIsTooMuch ==
  ASSUME Inv, CallInv, present = input.present, size = input.size,
         NEW F, NEW D, Account(F, D), Inspected,
         work # <<>>, Call.do = "visit", stage # "lstat",
         IsKind(input, Call.path, "file", present), Wanted,
         NEW text, text <= input.text[Real],
         \/ text > MaxFileBytes
         \/ files >= MaxFiles
         \/ bytes + text > MaxTotal,
         text \in Nat
  PROVE  Cause
<1>1. /\ Call.path \in present /\ (IsLink => Options.follow) /\ input \in Inputs
  BY DEF Inspected, Inv, Types
<1>2. PICK f : f = <<Call.n, Call.path>>
  OBVIOUS
<1>3. /\ f \in AllFiles /\ f \notin F /\ F \subseteq AllFiles
      /\ Call.n \in DOMAIN input.sources
  BY <1>1, <1>2, Here
<1>0. PICK G, more, n, all :
        /\ G = F \cup {f} /\ more = input.text[input.real[f[2]]]
        /\ n = Cardinality(AllFiles) /\ all = Cardinality(BytesOf(AllFiles))
  OBVIOUS
<1>4. /\ files + 1 <= n /\ bytes + more <= all
      /\ {more, files, bytes, n, all} \subseteq Nat
  <2>1. files = Cardinality(F) /\ bytes = Cardinality(BytesOf(F))
    BY DEF Account
  <2>2. /\ Cardinality(G) = Cardinality(F) + 1
        /\ Cardinality(BytesOf(G)) = Cardinality(BytesOf(F)) + more
        /\ Cardinality(G) <= Cardinality(AllFiles)
        /\ Cardinality(BytesOf(G)) <= Cardinality(BytesOf(AllFiles))
        /\ {Cardinality(F), more, Cardinality(BytesOf(F)),
            Cardinality(AllFiles), Cardinality(BytesOf(AllFiles))} \subseteq Nat
    <3>1. input \in Inputs /\ f \in AllFiles /\ f \notin F /\ F \subseteq AllFiles
      BY <1>1, <1>3
    <3> QED
      BY ONLY <1>0, <3>1, FileAdded
  <2> QED
    BY ONLY <1>0, <2>1, <2>2
<1>5. text <= more
  BY <1>0, <1>2 DEF Real
<1>6. more > MaxFileBytes \/ n > MaxFiles \/ all > MaxTotal
  BY <1>4, <1>5, ContentLimitAssumption
<1>7. CASE more > MaxFileBytes
  <2>1. Call.path \in Wants(Options, input.present)
    BY <1>2, <1>3 DEF AllFiles, Options
  <2>2. input.text[input.real[Call.path]] > MaxFileBytes
    BY <1>0, <1>2, <1>7
  <2> QED
    BY <1>3, <2>1, <2>2 DEF Cause, SourceIsFlawed, Options
<1>8. CASE n > MaxFiles \/ all > MaxTotal
  BY <1>0, <1>8 DEF Cause, TooMuch
<1> QED
  BY <1>6, <1>7, <1>8

LEMMA FailsForCause ==
  ASSUME Inv, CallInv, present = input.present, size = input.size,
         NEW F, NEW D, Account(F, D), Inspected,
         \/ Absolute \/ TooDeep \/ Missing \/ Unresolved \/ Outside
         \/ TooManyEntries \/ StatExceeds \/ ReadFails \/ ReadExceeds
  PROVE  Cause
<1>1. CASE Absolute
  <2>1. work # <<>> /\ Options.absolute
    BY <1>1 DEF Absolute, Calls
  <2>2. Call \in CallSet
    BY <2>1, FirstCall DEF CallInv
  <2>3. Call.n \in DOMAIN input.sources
    BY <2>2 DEF CallSet
  <2> QED
    BY <2>1, <2>3 DEF Cause, SourceIsFlawed, Options
<1>2. CASE StatExceeds
  <2>1. /\ work # <<>> /\ Call.do = "visit" /\ stage # "lstat"
        /\ IsKind(input, Call.path, "file", present) /\ Wanted
        /\ \/ StatSize > MaxFileBytes \/ files >= MaxFiles
           \/ bytes + StatSize > MaxTotal
    BY <1>2 DEF StatExceeds, Meets, At, Calls, IsKind, Real
  <2>2. StatSize = size[Real]
    BY <2>1 DEF StatSize, IsLink, Inspected
  <2>3. size[Real] \in Nat /\ size[Real] <= input.text[Real]
    <3>1. Real \in Paths
      BY <2>1 DEF IsKind, Real, Inv, Types
    <3> QED
      BY <3>1, Projects DEF Inv, Types, Paths
  <2> QED
    BY <2>1, <2>2, <2>3, FileIsTooMuch
<1>3. CASE ReadExceeds
  <2>1. /\ work # <<>> /\ Call.do = "visit" /\ stage # "lstat"
        /\ IsKind(input, Call.path, "file", present) /\ Wanted
        /\ Real \in Paths
        /\ \E text \in TextSizes : text > MaxFileBytes \/ bytes + text > MaxTotal
    BY <1>3 DEF ReadExceeds, At, Calls, Inspected, Inv, Types
  <2>2. PICK text : /\ text = input.text[Real] /\ text \in Nat
                    /\ text > MaxFileBytes \/ bytes + text > MaxTotal
    BY <2>1, TextFacts
  <2>3. text <= input.text[Real]
    BY <2>2
  <2> QED
    BY <2>1, <2>2, <2>3, FileIsTooMuch
<1>4. ~ ReadFails
  BY DEF ReadFails, At, Inspected, IsKind, Real
<1> QED
  BY <1>1, <1>2, <1>3, <1>4, DeepIsFlaw, MissingIsFlaw, PlaceIsFlaw,
     EntriesAreTooMany

-----------------------------------------------------------------------------
LEMMA SameProject ==
  ASSUME input' = input, NEW F
  PROVE  /\ AllFiles' = AllFiles /\ AllDirectories' = AllDirectories
         /\ BytesOf(F)' = BytesOf(F) /\ EntriesOf(F)' = EntriesOf(F)
         /\ \A d, p : IsEntry(d, p)' <=> IsEntry(d, p)
<1>1. AllFiles' = AllFiles
  BY DEF AllFiles, Wants, Sees, Paths
<1>2. AllDirectories' = AllDirectories
  BY DEF AllDirectories, Sees, Paths
<1>3. BytesOf(F)' = BytesOf(F) /\ EntriesOf(F)' = EntriesOf(F)
  BY DEF BytesOf, EntriesOf
<1>4. \A d, p : IsEntry(d, p)' <=> IsEntry(d, p)
  BY DEF IsEntry
<1> QED
  BY <1>1, <1>2, <1>3, <1>4

LEMMA TrailKept ==
  ASSUME input' = input, present' = present,
         NEW c, NEW D, HasTrail(c, D), NEW E, D \subseteq E
  PROVE  HasTrail(c, E)'
<1>1. \A chain, k : IsChain(input.sources[c.n], chain, k, present)'
                     <=> IsChain(input.sources[c.n], chain, k, present)
  BY DEF IsChain, Open
<1>2. \A d : Open(input.sources[c.n], d, present)' = Open(input.sources[c.n], d, present)
  BY DEF Open
<1> QED
  BY <1>1, <1>2 DEF HasTrail, Paths

(* What was expected of a call is still true of it when more is counted,   *)
(* of it or of other sources.                                              *)
LEMMA ExpectedKept ==
  ASSUME input' = input, present' = present,
         NEW F, NEW D, NEW G, NEW E, D \subseteq E,
         NEW c, Expected(c, F, D),
         c.do = "source" => Untouched(c.n, G, E),
         c.do # "source" =>
           /\ <<c.n, c.path>> \notin G
           /\ \A x \in E : x[1] = c.n => x[2] \in visited'
           /\ c.depth = 0 => Untouched(c.n, G, E)
  PROVE  Expected(c, G, E)'
<1>1. HasTrail(c, D) => HasTrail(c, E)'
  BY TrailKept
<1> QED
  BY <1>1 DEF Expected, OnTrail, Untouched

(* A call returns that neither entered a directory nor read a file. *)
LEMMA AccountKept ==
  ASSUME CallInv, Apart, NEW F, NEW D, Account(F, D),
         work # <<>>, work' = <<>> \o Tail(work),
         UNCHANGED <<input, present, visited, files, bytes, entries>>
  PROVE  Apart' /\ Account(F, D)'
<1> DEFINE none == <<>>
<1>1. none \in Seq(CallSet) /\ Len(none) = 0 /\ work' = none \o Tail(work)
  OBVIOUS
<1> HIDE DEF none
<1>2. 1 .. 0 = {}
  OBVIOUS
<1>3. Apart'
  BY <1>1, <1>2, ApartKept
<1>4. Pending' \subseteq Pending
  <2>1. Members(none) = {}
    BY <1>1, <1>2 DEF Members
  <2> QED
    BY <1>1, <2>1, AfterReplace DEF CallInv
<1>5. ASSUME NEW c \in Pending' PROVE Expected(c, F, D)'
  <2>1. Expected(c, F, D)
    BY <1>4 DEF Account
  <2> QED
    BY <2>1, ExpectedKept DEF Expected, OnTrail
<1> QED
  BY <1>3, <1>5, SameProject DEF Account

LEMMA BeginAccount ==
  ASSUME Inv, CallInv, Apart, NEW F, NEW D, Account(F, D), Begin
  PROVE  Apart' /\ Account(F, D)'
<1>1. /\ work \in Seq(CallSet) /\ work # <<>> /\ Call.do = "source"
      /\ visited' = {} /\ input \in Inputs
      /\ UNCHANGED <<input, present, files, bytes, entries>>
  BY DEF CallInv, Begin, Calls, Inv, Types, disk, counts
<1>0. PICK first : first = Visit(Call.n, Options.path, 0)
  OBVIOUS
<1>2. PICK calls \in Seq(CallSet) : /\ work' = calls \o Tail(work) /\ Len(calls) = 1
                                   /\ Members(calls) = {first}
  BY <1>0, <1>1, BeginCalls
<1>3. /\ VisitOf(first, Call.n) /\ first.path = Options.path /\ first.depth = 0
  BY <1>0 DEF Visit, VisitOf
<1>4. \A c \in Rest : c.n # Call.n /\ c.do = "source" /\ c \in Pending
  <2> SUFFICES ASSUME NEW c \in Rest
               PROVE  c.n # Call.n /\ c.do = "source" /\ c \in Pending
    OBVIOUS
  <2>1. c \in CallSet /\ c.n # Call.n /\ c.do # "visit"
    BY <1>1, OthersApart
  <2> QED
    BY <1>1, <2>1, FirstCall DEF CallSet
<1>5. Apart'
  <2>1. \A i \in 1 .. Len(calls) : calls[i] = first /\ i = 1
    BY <1>2 DEF Members
  <2> QED
    BY <1>1, <1>2, <1>3, <1>4, <2>1, ApartKept
<1>6. Pending' = {first} \cup Rest /\ Call \in Pending
  BY <1>1, <1>2, AfterReplace
<1>7. Untouched(first.n, F, D) /\ first.n = Call.n
  BY <1>1, <1>3, <1>6 DEF Account, Expected, VisitOf
<1>8. Expected(first, F, D)'
  <2>1. \A x \in F \cup D : x[1] # first.n
    BY <1>7 DEF Untouched
  <2>2. <<first.n, first.path>> \notin F
    BY <2>1
  <2> QED
    BY <1>1, <1>3, <1>7, <2>1, <2>2 DEF Expected, OnTrail, Untouched, VisitOf, Options
<1>9. ASSUME NEW c \in Rest PROVE Expected(c, F, D)'
  <2>1. Expected(c, F, D) /\ c.do = "source"
    BY <1>4 DEF Account
  <2> QED
    BY <2>1 DEF Expected, Untouched
<1> QED
  BY <1>1, <1>5, <1>6, <1>8, <1>9, SameProject DEF Account

(* A file is read. *)
LEMMA ReadAccount ==
  ASSUME Inv, CallInv, Apart, present = input.present, size = input.size,
         NEW F, NEW D, Account(F, D), Inspected, Read
  PROVE  Apart' /\ \E G : Account(G, D)'
<1>1. /\ work \in Seq(CallSet) /\ work # <<>> /\ Call.do = "visit"
      /\ work' = <<>> \o Tail(work) /\ stage = "readFile" /\ input \in Inputs
      /\ files' = files + 1 /\ bytes' = bytes + input.text[Real]
      /\ UNCHANGED <<input, present, visited, entries>>
  <2>1. Real \in Paths /\ TextSizes = {input.text[Real]}
    BY TextFacts DEF Read, Inv, Types
  <2> QED
    BY <2>1 DEF CallInv, Read, At, Calls, Replace, Inv, Types, disk
<1>2. PICK n, path, f, G :
        n = Call.n /\ path = Call.path /\ f = <<n, path>> /\ G = F \cup {f}
  OBVIOUS
<1>3. /\ f \in AllFiles \ F /\ OnTrail(Call, F, D) /\ F \subseteq AllFiles
      /\ D \subseteq AllDirectories /\ Call \in CallSet
  BY <1>1, <1>2, Here DEF Inspected
<1>4. /\ G \subseteq AllFiles /\ files' = Cardinality(G)
      /\ bytes' = Cardinality(BytesOf(G))
  <2>1. PICK more : more = input.text[input.real[f[2]]]
    OBVIOUS
  <2>2. input.text[Real] = more
    BY <1>2, <2>1 DEF Real
  <2>3. /\ input \in Inputs /\ f \in AllFiles /\ f \notin F /\ F \subseteq AllFiles
        /\ G = F \cup {f}
    BY <1>1, <1>2, <1>3
  <2>4. /\ G \subseteq AllFiles /\ Cardinality(G) = Cardinality(F) + 1
        /\ Cardinality(BytesOf(G)) = Cardinality(BytesOf(F)) + more
    BY ONLY <2>1, <2>3, FileAdded
  <2>5. files = Cardinality(F) /\ bytes = Cardinality(BytesOf(F))
    BY DEF Account
  <2> QED
    BY ONLY <1>1, <2>2, <2>4, <2>5
<1>5. path = input.sources[n].path \/ \E d \in D : d[1] = n /\ IsEntry(d[2], path)
  <2>1. CASE Call.depth = 0
    BY <1>2, <1>3, <2>1 DEF OnTrail
  <2>2. CASE Call.depth # 0
    <3>1. HasTrail(Call, D)
      BY <1>3, <2>2 DEF OnTrail
    <3>2. \E d \in Paths : <<n, d>> \in D /\ IsEntry(d, path)
      BY <1>1, <1>2, <1>3, <2>2, <3>1, TrailFacts
    <3> QED
      BY <3>2
  <2> QED
    BY <2>1, <2>2
<1> DEFINE none == <<>>
<1>6. none \in Seq(CallSet) /\ Len(none) = 0 /\ work' = none \o Tail(work)
  BY <1>1
<1> HIDE DEF none
<1>7. Apart' /\ Pending' = Rest
  <2>1. 1 .. 0 = {}
    OBVIOUS
  <2>2. Apart'
    BY <1>1, <1>6, <2>1, ApartKept
  <2> QED
    BY <1>1, <1>6, <2>1, <2>2, AfterReplace DEF Members
<1>8. ASSUME NEW c \in Rest PROVE Expected(c, G, D)'
  <2>1. Expected(c, F, D) /\ c \in CallSet
    BY <1>1, FirstCall, OthersApart DEF Account
  <2>2. CASE c.n = n
    <3>1. c.do = "visit" /\ c.depth # 0 /\ c.path # path
      BY <1>1, <1>2, <2>2, OthersFurther
    <3>2. <<c.n, c.path>> \notin G
      BY <1>2, <2>1, <3>1 DEF Expected, OnTrail
    <3>3. \A x \in D : x[1] = c.n => x[2] \in visited'
      BY <1>1, <2>1, <3>1 DEF Expected, OnTrail
    <3> QED
      BY <1>1, <2>1, <3>1, <3>2, <3>3, ExpectedKept
  <2>3. CASE c.n # n
    <3>1. c.do = "source"
      BY <1>1, <1>2, <2>1, <2>3, OthersApart DEF CallSet
    <3>2. Untouched(c.n, G, D)
      BY <1>2, <2>1, <2>3, <3>1 DEF Expected, Untouched
    <3> QED
      BY <1>1, <2>1, <3>1, <3>2, ExpectedKept
  <2> QED
    BY <2>2, <2>3
<1>9. \A g \in G : \/ g[2] = input.sources[g[1]].path
                  \/ \E d \in D : d[1] = g[1] /\ IsEntry(d[2], g[2])
  BY <1>2, <1>5 DEF Account
<1>10. entries' = Cardinality(EntriesOf(D))
  BY <1>1 DEF Account
<1>11. Account(G, D)'
  BY <1>1, <1>3, <1>4, <1>7, <1>8, <1>9, <1>10, SameProject DEF Account
<1> QED
  BY <1>7, <1>11

-----------------------------------------------------------------------------
(* The trail of an entry is that of the directory, and the directory.      *)
LEMMA TrailExtended ==
  ASSUME input \in Inputs, NEW c \in CallSet, c.do = "visit",
         NEW F, NEW D, D \subseteq AllDirectories, OnTrail(c, F, D),
         NEW real, real = input.real[c.path], real \notin visited,
         NEW E, E = D \cup {<<c.n, real>>},
         NEW b, b.n = c.n, b.depth = c.depth + 1,
         b.path \in Open(input.sources[c.n], real, present)
  PROVE  HasTrail(b, E)
<1>1. c.depth \in Nat /\ real \in Paths
  BY ListedOnce DEF CallSet
<1>2. PICK k, source : k = c.depth /\ source = input.sources[c.n]
  OBVIOUS
<1> SUFFICES \E chain \in [0 .. k -> Paths] :
               /\ IsChain(source, chain, k, present)
               /\ \A i \in 0 .. k : <<c.n, chain[i]>> \in E
               /\ b.path \in Open(source, chain[k], present)
  BY <1>1, <1>2 DEF HasTrail
<1>3. CASE k = 0
  <2>1. PICK chain : chain = [i \in 0 .. 0 |-> real]
    OBVIOUS
  <2>2. chain \in [0 .. k -> Paths] /\ chain[0] = real /\ 1 .. 0 = {}
    BY <1>1, <1>3, <2>1
  <2>3. real = input.real[source.path]
    BY <1>2, <1>3 DEF OnTrail
  <2>4. IsChain(source, chain, k, present)
    BY <1>3, <2>2, <2>3 DEF IsChain
  <2>5. \A i \in 0 .. k : i = 0
    BY <1>3
  <2> QED
    BY <1>2, <1>3, <2>2, <2>4, <2>5
<1>4. CASE k # 0
  <2>1. HasTrail(c, D) /\ k \in Nat \ {0}
    BY <1>1, <1>2, <1>4 DEF OnTrail
  <2>2. PICK old \in [0 .. k - 1 -> Paths] :
          /\ IsChain(source, old, k - 1, present)
          /\ \A i \in 0 .. k - 1 : <<c.n, old[i]>> \in D
          /\ c.path \in Open(source, old[k - 1], present)
    BY <1>2, <2>1 DEF HasTrail
  <2>3. PICK chain : chain = [i \in 0 .. k |-> IF i = k THEN real ELSE old[i]]
    OBVIOUS
  <2>4. /\ chain \in [0 .. k -> Paths] /\ chain[k] = real
        /\ \A i \in 0 .. k - 1 : chain[i] = old[i]
    BY <1>1, <2>1, <2>2, <2>3
  <2>5. \A i \in 0 .. k - 1 : old[i] # real
    <3>1. \A x \in D : x[1] = c.n => x[2] \in visited
      BY DEF OnTrail
    <3> QED
      BY <2>2, <3>1
  <2>6. ASSUME NEW i \in 1 .. k
        PROVE  /\ chain[i] \in {input.real[p] : p \in Open(source, chain[i - 1], present)}
               /\ \A j \in 0 .. i - 1 : chain[j] # chain[i]
    <3>1. CASE i = k
      <4>1. chain[i - 1] = old[k - 1] /\ chain[i] = real
        BY <2>1, <2>4, <3>1
      <4>2. \A j \in 0 .. i - 1 : chain[j] # chain[i]
        BY <2>4, <2>5, <3>1
      <4> QED
        BY <2>2, <4>1, <4>2
    <3>2. CASE i # k
      <4>1. i \in 1 .. k - 1 /\ i \in 0 .. k - 1 /\ i - 1 \in 0 .. k - 1
            /\ \A j \in 0 .. i - 1 : j \in 0 .. k - 1
        BY ONLY <2>1, <3>2, i \in 1 .. k
      <4>2. /\ old[i] \in {input.real[p] : p \in Open(source, old[i - 1], present)}
            /\ \A j \in 0 .. i - 1 : old[j] # old[i]
        BY <2>2, <4>1 DEF IsChain
      <4> QED
        BY <2>4, <4>1, <4>2
    <3> QED
      BY <3>1, <3>2
  <2>7. IsChain(source, chain, k, present)
    <3>1. chain[0] = old[0] /\ old[0] = input.real[source.path]
      BY <2>1, <2>2, <2>4 DEF IsChain
    <3> QED
      BY <2>6, <3>1 DEF IsChain
  <2>8. ASSUME NEW i \in 0 .. k PROVE <<c.n, chain[i]>> \in E
    <3>1. i = k \/ i \in 0 .. k - 1
      BY ONLY <2>1, i \in 0 .. k
    <3> QED
      BY <2>2, <2>4, <3>1
  <2> QED
    BY <1>2, <2>4, <2>7, <2>8
<1> QED
  BY <1>3, <1>4

(* A directory is entered. *)
LEMMA DirectoryAccount ==
  ASSUME Inv, CallInv, Apart, present = input.present,
         NEW F, NEW D, Account(F, D), Inspected, Directory
  PROVE  Apart' /\ \E E : Account(F, E)'
<1>1. /\ work \in Seq(CallSet) /\ work # <<>> /\ Call.do = "visit"
      /\ Call.path \in present /\ (IsLink => Options.follow) /\ Call.depth <= MaxDepth
      /\ IsKind(input, Call.path, "directory", present) /\ Real \notin visited
      /\ visited' = visited \cup {Real} /\ input \in Inputs
      /\ entries' = entries + Cardinality(Listing)
      /\ UNCHANGED <<input, present, files, bytes>>
  BY DEF CallInv, Directory, Meets, At, Calls, Inspected, IsKind, Real, Inv,
         Types, disk
<1>2. PICK n, real, d, E : n = Call.n /\ real = Real /\ d = <<n, real>> /\ E = D \cup {d}
  OBVIOUS
<1>3. /\ d \in AllDirectories \ D /\ OnTrail(Call, F, D) /\ F \subseteq AllFiles
      /\ D \subseteq AllDirectories /\ Call \in CallSet /\ Call.path \in Paths
      /\ Call.depth \in Nat
  BY <1>1, <1>2, Here
<1>4. E \subseteq AllDirectories /\ entries' = Cardinality(EntriesOf(E))
  <2>1. Cardinality(Listing) = Cardinality(Entries(input, d[2], input.present))
    BY <1>1, <1>2, <1>3, ListingCount
  <2> QED
    BY <1>1, <1>2, <1>3, <2>1, DirectoryAdded DEF Account
<1>5. PICK calls \in Seq(CallSet) :
        /\ work' = calls \o Tail(work)
        /\ \A i \in 1 .. Len(calls) : VisitOf(calls[i], n)
        /\ \A i \in 1 .. Len(calls) :
             /\ calls[i].depth = Call.depth + 1
             /\ calls[i].path \in present \ Pruned
             /\ IsEntry(real, calls[i].path)
        /\ \A i, j \in 1 .. Len(calls) : calls[i].path = calls[j].path => i = j
  BY <1>1, <1>2, DirectoryCalls DEF Inv, Types
<1>6. real \in Paths /\ input.real[real] = real /\ input.kind[real] = "directory"
  BY <1>1, <1>2, <1>3, DirectoryFacts
(* A directory of the source has been entered, or the walk has just begun. *)
<1>7. \A e : <<n, e>> \in D => e \in visited /\ e # real /\ e \in Paths
  BY <1>1, <1>2, <1>3, DirectoryFacts DEF OnTrail
<1>8. input.kind[input.real[input.sources[n].path]] = "directory"
  <2>1. CASE Call.depth = 0
    BY <1>1, <1>2, <1>3, <2>1 DEF OnTrail, IsKind
  <2>2. CASE Call.depth # 0
    <3>1. HasTrail(Call, D)
      BY <1>3, <2>2 DEF OnTrail
    <3>2. <<n, input.real[input.sources[n].path]>> \in D
      BY <1>1, <1>2, <1>3, <2>2, <3>1, TrailFacts
    <3>3. <<n, input.real[input.sources[n].path]>> \in AllDirectories
      BY <1>3, <3>2
    <3>4. input.real[input.sources[n].path] \in Paths
      BY <1>1, <3>3, DirectoryFacts
    <3> QED
      BY <1>1, <3>3, DirectoryFacts
  <2> QED
    BY <2>1, <2>2
<1>9. ASSUME NEW c \in Rest, c.n = n
      PROVE  /\ c.do = "visit" /\ c.depth # 0 /\ OnTrail(c, F, D)
             /\ \A p : IsEntry(real, p) => c.path # p
  <2>1. /\ c.do = "visit" /\ c.depth # 0 /\ c \in Pending /\ c \in CallSet
    BY <1>1, <1>2, <1>9, OthersFurther, OthersApart, FirstCall
  <2>2. OnTrail(c, F, D)
    BY <2>1 DEF Account, Expected
  <2>3. HasTrail(c, D)
    BY <2>1, <2>2 DEF OnTrail
  <2>4. PICK e \in Paths : <<n, e>> \in D /\ IsEntry(e, c.path)
    BY <1>1, <1>3, <1>9, <2>1, <2>3, TrailFacts
  <2>5. ~ IsEntry(real, c.path)
    BY <1>1, <1>6, <1>7, <2>4, ListedOnce
  <2> QED
    BY <2>1, <2>2, <2>5
<1>10. \A i \in 1 .. Len(calls) : calls[i] \in Members(calls)
  BY DEF Members
<1>11. Apart'
  <2>1. \A c \in Rest, i \in 1 .. Len(calls) :
          c.n = Call.n => c.do = "visit" /\ calls[i].path # c.path
    BY <1>2, <1>5, <1>9
  <2>2. \A i, j \in 1 .. Len(calls) :
          VisitOf(calls[i], Call.n) /\ (calls[i].path = calls[j].path => i = j)
    BY <1>2, <1>5
  <2> QED
    BY <1>1, <1>5, <2>1, <2>2, ApartKept
<1>12. Pending' = Members(calls) \cup Rest
  BY <1>1, <1>5, AfterReplace
<1>13. \A x \in E : x[1] = n => x[2] \in visited'
  BY <1>1, <1>2, <1>3 DEF OnTrail
<1>14. ASSUME NEW b \in Members(calls) PROVE Expected(b, F, E)'
  <2>1. /\ VisitOf(b, n) /\ b.depth = Call.depth + 1
        /\ b.path \in present \ Pruned /\ IsEntry(real, b.path)
    BY <1>5 DEF Members
  <2>2. b.path \in Open(Options, real, present)
    BY <1>6, <2>1 DEF Open, Entries, IsEntry, Pruned
  <2>3. HasTrail(b, E)
    <3>1. PICK c : c = Call
      OBVIOUS
    <3>2. /\ c \in CallSet /\ c.do = "visit" /\ OnTrail(c, F, D) /\ c.n = n
          /\ real = input.real[c.path] /\ real \notin visited
          /\ E = D \cup {<<c.n, real>>} /\ b.n = c.n /\ b.depth = c.depth + 1
          /\ b.path \in Open(input.sources[c.n], real, present)
      BY <1>1, <1>2, <1>3, <2>1, <2>2, <3>1 DEF VisitOf, Real, Options
    <3> QED
      BY <1>1, <1>3, <3>2, TrailExtended
  <2>4. <<n, b.path>> \notin F
    <3> SUFFICES ASSUME <<n, b.path>> \in F PROVE FALSE
      OBVIOUS
    <3>1. b.path # input.sources[n].path
      BY <1>1, <1>3, <1>8, FileFacts
    <3>2. PICK x \in D : x[1] = n /\ IsEntry(x[2], b.path)
      BY <3>1 DEF Account
    <3>3. x = <<n, x[2]>>
      BY <1>3, <3>2 DEF AllDirectories
    <3>4. x[2] \in Paths /\ x[2] # real
      BY <1>7, <3>3
    <3> QED
      BY <1>1, <1>6, <2>1, <3>2, <3>4, ListedOnce
  <2>5. b.depth <= MaxDepth + 1 /\ b.depth # 0
    BY <1>1, <1>3, <2>1, ContentLimitAssumption
  <2>6. HasTrail(b, E)'
    BY <1>1, <2>3, TrailKept
  <2> QED
    BY <1>13, <2>1, <2>4, <2>5, <2>6 DEF Expected, OnTrail, VisitOf
<1>15. ASSUME NEW c \in Rest PROVE Expected(c, F, E)'
  <2>1. Expected(c, F, D) /\ c \in CallSet
    BY <1>1, FirstCall, OthersApart DEF Account
  <2>2. CASE c.n = n
    BY <1>1, <1>2, <1>9, <1>13, <2>1, <2>2, ExpectedKept DEF OnTrail
  <2>3. CASE c.n # n
    <3>1. c.do = "source"
      BY <1>1, <1>2, <2>1, <2>3, OthersApart DEF CallSet
    <3>2. Untouched(c.n, F, E)
      BY <1>2, <2>1, <2>3, <3>1 DEF Expected, Untouched
    <3> QED
      BY <1>1, <1>2, <2>1, <3>1, <3>2, ExpectedKept
  <2> QED
    BY <2>2, <2>3
<1>16. /\ F \subseteq AllFiles /\ files' = Cardinality(F) /\ bytes' = Cardinality(BytesOf(F))
       /\ \A f \in F : \/ f[2] = input.sources[f[1]].path
                       \/ \E e \in E : e[1] = f[1] /\ IsEntry(e[2], f[2])
  BY <1>1, <1>2 DEF Account
<1>17. Account(F, E)'
  BY <1>1, <1>4, <1>12, <1>14, <1>15, <1>16, SameProject DEF Account
<1> QED
  BY <1>11, <1>17

-----------------------------------------------------------------------------
LEMMA InitUndisturbed == ASSUME Init PROVE changes \in Nat /\ Undisturbed
<1>1. /\ input \in Inputs /\ present = input.present /\ size = input.size
      /\ stage = "lstat" /\ files = 0 /\ bytes = 0 /\ entries = 0 /\ changes = 0
      /\ pc = IF input.rooted THEN "loading" ELSE "failed"
      /\ work = [n \in DOMAIN input.sources |-> Source(n)]
  BY DEF Init
<1>2. Apart
  BY <1>1 DEF Apart, Source
<1>3. FailureIsReal
  BY <1>1 DEF FailureIsReal
<1>4. BytesOf({}) = {} /\ EntriesOf({}) = {}
  BY DEF BytesOf, EntriesOf
<1>5. ASSUME NEW c \in Pending PROVE Expected(c, {}, {})
  <2>1. PICK i \in 1 .. Len(work) : c = work[i]
    BY DEF Pending, Members
  <2>2. i \in DOMAIN input.sources
    <3>1. work \in Seq(CallSet)
      BY InitCalls DEF CallInv
    <3> QED
      BY <1>1, <3>1, LenProperties
  <2>3. c = Source(i)
    BY <1>1, <2>1, <2>2
  <2> QED
    BY <2>3 DEF Source, Expected, Untouched
<1>6. Account({}, {})
  BY <1>1, <1>4, <1>5, FS_EmptySet DEF Account
<1> QED
  BY <1>1, <1>2, <1>3, <1>6 DEF Undisturbed, Inspected

(* The steps of a load that nobody disturbs. *)
LEMMA CalmSteps ==
  ASSUME [Next]_vars, changes \in Nat, changes' = 0
  PROVE  /\ changes = 0 /\ UNCHANGED <<input, disk>>
         /\ \/ /\ \/ Absolute \/ TooDeep \/ Missing \/ Unresolved \/ Outside
                  \/ TooManyEntries \/ StatExceeds \/ ReadFails \/ ReadExceeds
               /\ Fail
            \/ (PassOver \/ SkipLink \/ VisitedBefore \/ NotWanted) /\ Ignore
            \/ Begin \/ Directory \/ Read \/ Inspect \/ StatFits
            \/ /\ UNCHANGED <<work, stage, seen, visited, counts>>
               /\ pc' = "failed" => pc = "failed"
<1>1. CASE LoadSource
  BY <1>1 DEF LoadSource, Absolute, Begin, Fail
<1>2. CASE WalkContent
  <2>1. CASE TooDeep \/ Missing \/ Unresolved \/ Outside
    BY <2>1 DEF TooDeep, Missing, Unresolved, Outside, Fail
  <2>2. CASE TooManyEntries \/ StatExceeds \/ ReadFails \/ ReadExceeds
    BY <2>2 DEF TooManyEntries, StatExceeds, ReadFails, ReadExceeds, Fail
  <2>3. CASE PassOver \/ SkipLink \/ VisitedBefore \/ NotWanted
    BY <2>3 DEF PassOver, SkipLink, VisitedBefore, NotWanted, Ignore
  <2>4. CASE Directory \/ Read
    BY <2>4 DEF Directory, Read
  <2>5. CASE Inspect \/ StatFits
    BY <2>5 DEF Inspect, StatFits
  <2>6. ~ Fails
    BY DEF Fails
  <2> QED
    BY <1>2, <2>1, <2>2, <2>3, <2>4, <2>5, <2>6 DEF WalkContent
<1>3. CASE Finish
  BY <1>3 DEF Finish
<1>4. ~ Environment
  BY DEF Environment, Grow, Remove
<1>5. CASE Ended \/ UNCHANGED vars
  BY <1>5 DEF Ended, vars
<1> QED
  BY <1>1, <1>2, <1>3, <1>4, <1>5 DEF Next

LEMMA UndisturbedStep ==
  ASSUME Inv, CallInv, changes \in Nat, Undisturbed, [Next]_vars
  PROVE  changes' \in Nat /\ Undisturbed'
<1>1. changes' \in Nat
  <2>1. changes' = changes \/ changes' = changes + 1
    BY DEF Next, LoadSource, WalkContent, Environment, Ended, vars, Absolute,
           Begin, TooDeep, Missing, PassOver, SkipLink, Inspect, Unresolved,
           Outside, VisitedBefore, TooManyEntries, Directory, NotWanted,
           StatExceeds, StatFits, ReadFails, ReadExceeds, Read, Fails, Finish,
           Grow, Remove, Fail, Ignore
  <2> QED
    BY <2>1
<1> SUFFICES ASSUME changes' = 0
             PROVE  /\ (present = input.present)' /\ (size = input.size)'
                    /\ Inspected' /\ Apart' /\ FailureIsReal'
                    /\ \E F, D : Account(F, D)'
  BY <1>1 DEF Undisturbed
<1>2. /\ changes = 0 /\ UNCHANGED <<input, present, size>>
      /\ present = input.present /\ size = input.size
      /\ Inspected /\ Apart /\ FailureIsReal
  BY CalmSteps DEF Undisturbed, disk
<1>3. PICK F, D : Account(F, D)
  BY <1>2 DEF Undisturbed
<1>4. Cause' <=> Cause
  BY <1>2 DEF Cause, TooMuch, SourceIsFlawed, AllFiles, AllDirectories, BytesOf,
              EntriesOf, Wants, Sees, IsDeep, IsChain, Open, Paths
<1>5. ASSUME pc' = "failed" => pc = "failed" \/ Cause PROVE FailureIsReal'
  BY <1>2, <1>4, <1>5 DEF FailureIsReal, Cause
<1>6. ASSUME UNCHANGED <<work, visited, files, bytes, entries>>
      PROVE  Apart' /\ Account(F, D)'
  <2>1. Pending' = Pending
    BY <1>6 DEF Pending
  <2>2. ASSUME NEW c \in Pending PROVE Expected(c, F, D)'
    BY <1>2, <1>3, <1>6, ExpectedKept DEF Account, Expected, OnTrail
  <2>3. Apart'
    BY <1>2, <1>6 DEF Apart
  <2> QED
    BY <1>2, <1>3, <1>6, <2>1, <2>2, <2>3, SameProject DEF Account
<1>7. ASSUME UNCHANGED <<work, stage, seen>> PROVE Inspected'
  BY <1>2, <1>7 DEF Inspected, Call, IsLink, Options, Real, Wanted
<1>8. CASE Fail /\ Cause
  BY <1>2, <1>3, <1>5, <1>6, <1>7, <1>8 DEF Fail, counts
<1>9. CASE Ignore /\ Calls("visit")
  <2>1. /\ work # <<>> /\ work' = <<>> \o Tail(work) /\ stage' = "lstat"
        /\ UNCHANGED <<visited, files, bytes, entries, pc>>
    BY <1>9 DEF Ignore, Calls, Replace, counts
  <2> QED
    BY <1>2, <1>3, <1>5, <2>1, AccountKept DEF Inspected
<1>10. CASE Begin
  <2>1. stage' = "lstat" /\ pc' = pc
    BY <1>10 DEF Begin, Replace
  <2> QED
    BY <1>2, <1>3, <1>5, <1>10, <2>1, BeginAccount DEF Inspected
<1>11. CASE Directory
  <2>1. stage' = "lstat" /\ pc' = pc
    BY <1>11 DEF Directory, Replace
  <2> QED
    BY <1>2, <1>3, <1>5, <1>11, <2>1, DirectoryAccount DEF Inspected
<1>12. CASE Read
  <2>1. stage' = "lstat" /\ pc' = pc
    BY <1>12 DEF Read, Replace
  <2> QED
    BY <1>2, <1>3, <1>5, <1>12, <2>1, ReadAccount DEF Inspected
<1>13. CASE Inspect
  <2>1. /\ UNCHANGED <<work, visited, files, bytes, entries, pc>>
        /\ work # <<>> /\ Call.do = "visit" /\ Call.path \in present
        /\ (IsLink => Options.follow) /\ seen' = size[Call.path] /\ stage' = "realpath"
    BY <1>13 DEF Inspect, At, Calls, counts
  <2>2. Inspected'
    BY <1>2, <2>1 DEF Inspected, Call, IsLink, Options, Real
  <2> QED
    BY <1>2, <1>3, <1>5, <1>6, <2>1, <2>2
<1>14. CASE StatFits
  <2>1. /\ UNCHANGED <<work, seen, visited, files, bytes, entries, pc>>
        /\ stage = "realpath" /\ Wanted /\ IsKind(input, Call.path, "file", present)
    BY <1>14 DEF StatFits, Meets, At, counts, IsKind, Real
  <2>2. Inspected'
    BY <1>2, <2>1 DEF Inspected, Call, IsLink, Options, Real, Wanted, IsKind
  <2> QED
    BY <1>2, <1>3, <1>5, <1>6, <2>1, <2>2
<1>15. CASE /\ UNCHANGED <<work, stage, seen, visited, counts>>
            /\ pc' = "failed" => pc = "failed"
  BY <1>2, <1>3, <1>5, <1>6, <1>7, <1>15 DEF counts
<1>16. CASE /\ \/ Absolute \/ TooDeep \/ Missing \/ Unresolved \/ Outside
               \/ TooManyEntries \/ StatExceeds \/ ReadFails \/ ReadExceeds
            /\ Fail
  BY <1>2, <1>3, <1>8, <1>16, FailsForCause
<1>17. CASE (PassOver \/ SkipLink \/ VisitedBefore \/ NotWanted) /\ Ignore
  BY <1>9, <1>17 DEF PassOver, SkipLink, VisitedBefore, NotWanted, Meets, At
<1> QED
  BY <1>10, <1>11, <1>12, <1>13, <1>14, <1>15, <1>16, <1>17, CalmSteps

(* FailureIsReal is an invariant: a load of a project that nobody changes  *)
(* fails only when a source is flawed or all sources together exceed a     *)
(* limit, for any links, cycles, shared directories and order of sources.  *)
(* What has been read and entered is counted once, and the directories on  *)
(* the way to a visit are different ones.                                  *)
THEOREM FailureReal == Spec => []FailureIsReal
<1> DEFINE I == Inv /\ CallInv /\ ReadsFile /\ changes \in Nat /\ Undisturbed
<1>1. Init => I
  BY InitInv, InitCalls, InitComplete, InitUndisturbed
<1>2. I /\ [Next]_vars => I'
  BY NextInv, CallStep, ReadsFileStep, UndisturbedStep
<1>3. I => FailureIsReal
  BY DEF Undisturbed, FailureIsReal
<1> QED
  BY <1>1, <1>2, <1>3, PTL DEF Spec

-----------------------------------------------------------------------------
(* The memory budget.  The recursive functions of MemoryBudget are seen    *)
(* through the sequence of their values: ByteLength, Join and SplitLines   *)
(* take the last one, and facts go along it one step at a time.            *)
(*                                                                         *)
(* What the lines of a text are made of, and a text given to the model.    *)
Letters == {"narrow", "wide"}
Marked  == Characters \cup {"marker"}

(* Only the marker is wider than two bytes. *)
LEMMA Widths == \A c \in Marked : Width(c) \in Nat /\ (c # "marker" => Width(c) <= 2)
                  /\ Width("lf") = 1 /\ Width("marker") = MarkerBytes
BY MemoryAssumption DEF Width, Marked, Characters

(* The sums that ByteLength takes. *)
IsSum(e, s) ==
  e = [i \in 0 .. Len(s) |-> IF i = 0 THEN 0 ELSE e[i - 1] + Width(s[i])]

LEMMA ByteLengthSum ==
  ASSUME NEW s \in Seq(Marked)
  PROVE  \E e : /\ e[0] = 0 /\ ByteLength(s) = e[Len(s)]
                /\ \A i \in 0 .. Len(s) : e[i] \in Nat
                /\ \A i \in 1 .. Len(s) : e[i] = e[i - 1] + Width(s[i])
<1> DEFINE n == Len(s)
           Then(i, sum) == IF i \in 1 .. n THEN sum + Width(s[i]) ELSE sum
           G == [x \in Nat \X Nat |-> Then(x[1], x[2])]
<1>1. n \in Nat /\ \A i \in 1 .. n : Width(s[i]) \in Nat
  BY LenProperties, ElementOfSeq, Widths
<1>2. G \in [Nat \X Nat -> Nat]
  <2> HIDE DEF n
  <2> QED
    BY <1>1
<1>3. PICK d : Iterates(d, n, Nat, 0, G)
  <2> HIDE DEF G, n
  <2> QED
    BY <1>1, <1>2, Recursion
<1>4. ASSUME NEW i \in 1 .. n PROVE d[i] = d[i - 1] + Width(s[i])
  <2>1. i - 1 \in 0 .. n /\ i \in Nat
    BY <1>1
  <2>2. d[i - 1] \in Nat
    BY <1>3, <2>1 DEF Iterates
  <2>3. G[<<i, d[i - 1]>>] = Then(i, d[i - 1])
    BY <2>1, <2>2
  <2> QED
    BY <1>3, <2>3 DEF Iterates
<1>5. IsSum(d, s)
  <2>1. ASSUME NEW i \in 0 .. n
        PROVE  d[i] = IF i = 0 THEN 0 ELSE d[i - 1] + Width(s[i])
    <3>1. CASE i = 0
      BY <1>3, <3>1 DEF Iterates
    <3>2. CASE i \in 1 .. n
      <4>1. i # 0
        BY <3>2
      <4> QED
        BY <1>4, <3>2, <4>1
    <3> QED
      BY <1>1, <3>1, <3>2
  <2>2. d = [i \in 0 .. n |-> d[i]]
    BY <1>3 DEF Iterates
  <2> HIDE DEF n
  <2>3. d = [i \in 0 .. n |-> IF i = 0 THEN 0 ELSE d[i - 1] + Width(s[i])]
    BY <2>1, <2>2
  <2> QED
    BY <2>3 DEF IsSum, n
<1>6. PICK e : IsSum(e, s) /\ ByteLength(s) = e[n]
  BY <1>5, Zenon DEF IsSum, ByteLength
<1>7. ASSUME NEW i \in 0 .. n
      PROVE  e[i] = IF i = 0 THEN 0 ELSE e[i - 1] + Width(s[i])
  BY <1>6, <1>7 DEF IsSum
<1> HIDE DEF n, Then, G
<1>8. e[0] = 0
  BY <1>1, <1>7
<1>9. ASSUME NEW i \in 1 .. n PROVE e[i] = e[i - 1] + Width(s[i])
  <2>1. i \in 0 .. n /\ i # 0
    BY <1>1
  <2> QED
    BY <1>7, <2>1
<1> DEFINE T == {i \in Nat : i <= n => e[i] \in Nat}
<1>10. 0 \in T
  BY <1>8
<1>11. ASSUME NEW k \in T PROVE k + 1 \in T
  <2> SUFFICES ASSUME k + 1 <= n PROVE e[k + 1] \in Nat
    OBVIOUS
  <2>1. k + 1 \in 1 .. n /\ (k + 1) - 1 = k /\ k <= n
    BY <1>1
  <2>2. e[k + 1] = e[k] + Width(s[k + 1])
    BY <1>9, <2>1
  <2> QED
    BY <1>1, <2>1, <2>2
<1>12. T = Nat
  <2> HIDE DEF T
  <2>1. T \in SUBSET Nat
    BY DEF T
  <2> QED
    BY <1>10, <1>11, <2>1, SetInduction
<1>13. \A i \in 0 .. n : e[i] \in Nat
  BY <1>1, <1>12
<1> QED
  BY <1>6, <1>8, <1>9, <1>13 DEF n

(* Of the empty text, and of a text with one character more. *)
LEMMA ByteLengthAppend ==
  /\ ByteLength(<<>>) = 0
  /\ \A s \in Seq(Marked) : ByteLength(s) \in Nat
  /\ \A s \in Seq(Marked), c \in Marked :
       ByteLength(Append(s, c)) = ByteLength(s) + Width(c)
<1>1. ByteLength(<<>>) = 0
  <2>1. <<>> \in Seq(Marked) /\ Len(<<>>) = 0
    OBVIOUS
  <2> QED
    BY <2>1, ByteLengthSum
<1>2. ASSUME NEW s \in Seq(Marked) PROVE ByteLength(s) \in Nat
  <2>1. Len(s) \in 0 .. Len(s)
    BY LenProperties
  <2> QED
    BY <2>1, ByteLengthSum
<1>3. ASSUME NEW s \in Seq(Marked), NEW c \in Marked
      PROVE  ByteLength(Append(s, c)) = ByteLength(s) + Width(c)
  <2>1. PICK t, n : t = Append(s, c) /\ n = Len(s)
    OBVIOUS
  <2>2. /\ t \in Seq(Marked) /\ Len(t) = n + 1 /\ n \in Nat
        /\ \A i \in 1 .. n : t[i] = s[i]
        /\ t[n + 1] = c
    BY <2>1, AppendProperties, LenProperties
  <2>3. PICK e : /\ e[0] = 0 /\ ByteLength(s) = e[n]
                 /\ \A i \in 0 .. n : e[i] \in Nat
                 /\ \A i \in 1 .. n : e[i] = e[i - 1] + Width(s[i])
    BY <2>1, ByteLengthSum
  <2>4. PICK d : /\ d[0] = 0 /\ ByteLength(t) = d[n + 1]
                 /\ \A i \in 1 .. n + 1 : d[i] = d[i - 1] + Width(t[i])
    <3>1. PICK d : /\ d[0] = 0 /\ ByteLength(t) = d[Len(t)]
                   /\ \A i \in 1 .. Len(t) : d[i] = d[i - 1] + Width(t[i])
      BY <2>2, ByteLengthSum, Zenon
    <3> QED
      BY <2>2, <3>1, Zenon
  <2> DEFINE T == {i \in Nat : i <= n => d[i] = e[i]}
  <2>5. 0 \in T
    BY <2>3, <2>4
  <2>6. ASSUME NEW k \in T PROVE k + 1 \in T
    <3> SUFFICES ASSUME k + 1 <= n PROVE d[k + 1] = e[k + 1]
      OBVIOUS
    <3>1. k + 1 \in 1 .. n /\ k + 1 \in 1 .. n + 1 /\ (k + 1) - 1 = k /\ k <= n
      BY <2>2
    <3>2. d[k + 1] = d[k] + Width(t[k + 1]) /\ e[k + 1] = e[k] + Width(s[k + 1])
      BY <2>3, <2>4, <3>1
    <3> QED
      BY <2>2, <3>1, <3>2
  <2>7. T = Nat
    <3> HIDE DEF T
    <3>1. T \in SUBSET Nat
      BY DEF T
    <3> QED
      BY <2>5, <2>6, <3>1, SetInduction
  <2>8. d[n] = e[n]
    BY <2>2, <2>7
  <2>9. d[n + 1] = d[n] + Width(c)
    <3>1. n + 1 \in 1 .. n + 1 /\ (n + 1) - 1 = n
      BY <2>2
    <3> QED
      BY <2>2, <2>4, <3>1
  <2> QED
    BY <2>1, <2>3, <2>4, <2>8, <2>9
<1> QED
  BY <1>1, <1>2, <1>3
-----------------------------------------------------------------------------
(* The beginnings of a text. *)
LEMMA Beginnings ==
  ASSUME NEW C, NEW s \in Seq(C), NEW n \in 0 .. Len(s)
  PROVE  /\ SubSeq(s, 1, n) \in Seq(C) /\ Len(SubSeq(s, 1, n)) = n
         /\ \A i \in 1 .. n : SubSeq(s, 1, n)[i] = s[i]
<1>1. Len(s) \in Nat /\ \A i \in 1 .. Len(s) : s[i] \in C
  BY LenProperties, ElementOfSeq
<1>2. SubSeq(s, 1, n) = [i \in 1 .. n |-> s[i]]
  <2>1. SubSeq(s, 1, n) = [i \in 1 .. (1 + n - 1) |-> s[i + 1 - 1]]
    BY <1>1, SubSeqProperties
  <2> QED
    BY <1>1, <2>1
<1>3. [i \in 1 .. n |-> s[i]] \in Seq(C) /\ Len([i \in 1 .. n |-> s[i]]) = n
  <2>1. n \in Nat /\ \A i \in 1 .. n : s[i] \in C
    BY <1>1
  <2> QED
    BY <2>1, IsASeq
<1> QED
  BY <1>2, <1>3

LEMMA BeginningNext ==
  ASSUME NEW C, NEW s \in Seq(C), NEW n \in 0 .. Len(s), n + 1 <= Len(s)
  PROVE  /\ s[n + 1] \in C
         /\ SubSeq(s, 1, n + 1) = Append(SubSeq(s, 1, n), s[n + 1])
<1>1. Len(s) \in Nat /\ n \in Nat /\ n + 1 \in 1 .. Len(s) /\ n + 1 \in 0 .. Len(s)
  BY LenProperties
<1>2. s[n + 1] \in C
  BY <1>1, ElementOfSeq
<1>3. PICK a, b, c : a = SubSeq(s, 1, n) /\ b = SubSeq(s, 1, n + 1) /\ c = s[n + 1]
  OBVIOUS
<1>4. /\ a \in Seq(C) /\ Len(a) = n /\ \A i \in 1 .. n : a[i] = s[i]
      /\ b \in Seq(C) /\ Len(b) = n + 1 /\ \A i \in 1 .. n + 1 : b[i] = s[i]
  BY <1>1, <1>3, Beginnings
<1>5. PICK d : d = Append(a, c)
  OBVIOUS
<1>6. /\ d \in Seq(C) /\ Len(d) = n + 1 /\ \A i \in 1 .. n : d[i] = a[i]
      /\ d[n + 1] = c
  BY <1>2, <1>3, <1>4, <1>5, AppendProperties
<1>7. \A i \in 1 .. n + 1 : b[i] = d[i]
  <2> SUFFICES ASSUME NEW i \in 1 .. n + 1 PROVE b[i] = d[i]
    OBVIOUS
  <2>1. i \in 1 .. n \/ i = n + 1
    BY <1>1
  <2> QED
    BY <1>3, <1>4, <1>6, <2>1
<1>8. b = d
  BY <1>4, <1>6, <1>7, SeqEqual
<1> QED
  BY <1>2, <1>3, <1>5, <1>8

LEMMA WholeText ==
  ASSUME NEW C, NEW s \in Seq(C)
  PROVE  SubSeq(s, 1, Len(s)) = s /\ SubSeq(s, 1, 0) = <<>>
<1>1. Len(s) \in Nat /\ Len(s) \in 0 .. Len(s) /\ 0 \in 0 .. Len(s)
  BY LenProperties
<1>2. PICK a, b : a = SubSeq(s, 1, Len(s)) /\ b = SubSeq(s, 1, 0)
  OBVIOUS
<1>3. /\ a \in Seq(C) /\ Len(a) = Len(s) /\ \A i \in 1 .. Len(s) : a[i] = s[i]
      /\ b \in Seq(C) /\ Len(b) = 0
  BY <1>1, <1>2, Beginnings
<1> QED
  BY <1>2, <1>3, SeqEqual, EmptySeq

(* The greatest and the least of finitely many numbers. *)
LEMMA Extremes ==
  ASSUME NEW n \in Nat, NEW T \in SUBSET (0 .. n), T # {}
  PROVE  /\ Max(T) \in T /\ \A m \in T : m <= Max(T)
         /\ Min(T) \in T /\ \A m \in T : Min(T) <= m
<1>1. \E m \in T : \A k \in T : m <= k
  <2>1. T \in SUBSET Nat
    OBVIOUS
  <2> QED
    BY <2>1, LeastNumber
<1>2. PICK U : U = {k \in Nat : \A m \in T : m <= k}
  OBVIOUS
<1>3. PICK k \in U : \A j \in U : k <= j
  <2>1. n \in U /\ U \in SUBSET Nat
    BY <1>2
  <2> QED
    BY <2>1, LeastNumber
<1>4. k \in T
  <2>1. SUFFICES ASSUME k \notin T PROVE FALSE
    OBVIOUS
  <2>2. \A m \in T : m <= k /\ m # k /\ m \in Nat
    BY <1>2, <2>1
  <2>3. k # 0 /\ k \in Nat
    <3>1. PICK m \in T : TRUE
      OBVIOUS
    <3> QED
      BY <1>2, <2>2, <3>1
  <2>4. k - 1 \in Nat /\ \A m \in T : m <= k - 1
    BY <2>2, <2>3
  <2>5. k - 1 \in U
    BY <1>2, <2>4
  <2> QED
    BY <1>3, <2>3, <2>5
<1>5. \E m \in T : \A j \in T : m >= j
  <2>1. \A j \in T : j <= k /\ j \in Nat /\ k \in Nat
    BY <1>2
  <2> QED
    BY <1>4, <2>1
<1>6. Min(T) \in T /\ \A m \in T : Min(T) <= m
  BY <1>1 DEF Min
<1>7. Max(T) \in T /\ \A m \in T : Max(T) >= m
  BY <1>5 DEF Max
<1> QED
  BY <1>6, <1>7

(* As many characters as fit, of at most two bytes each. *)
LEMMA Truncated ==
  ASSUME NEW s \in Seq(Characters), NEW max \in Nat
  PROVE  \E n \in 0 .. Len(s) :
           /\ TruncateUtf8(s, max) = SubSeq(s, 1, n)
           /\ ByteLength(SubSeq(s, 1, n)) <= max
           /\ n = Len(s) \/ ByteLength(SubSeq(s, 1, n)) >= max - 1
<1> DEFINE Bytes(n) == ByteLength(SubSeq(s, 1, n))
           T == {n \in 0 .. Len(s) : Bytes(n) <= max}
<1>1. s \in Seq(Marked) /\ Len(s) \in Nat
  BY LenProperties DEF Marked
<1>2. Bytes(0) = 0 /\ 0 \in T
  <2>1. SubSeq(s, 1, 0) = <<>> /\ 0 \in 0 .. Len(s)
    BY <1>1, WholeText
  <2>2. Bytes(0) = 0
    BY <2>1, ByteLengthAppend
  <2> HIDE DEF Bytes
  <2> QED
    BY <2>1, <2>2
<1>3. PICK n : n = Max(T)
  OBVIOUS
<1>4. n \in T /\ \A m \in T : m <= n
  <2>1. T \in SUBSET (0 .. Len(s)) /\ T # {}
    BY <1>2
  <2> HIDE DEF T
  <2> QED
    BY <1>1, <1>3, <2>1, Extremes
<1>5. ASSUME n # Len(s) PROVE Bytes(n) >= max - 1
  <2>1. n \in 0 .. Len(s) /\ n + 1 <= Len(s) /\ n + 1 \in 0 .. Len(s) /\ ~ (n + 1 <= n)
    BY <1>1, <1>4, <1>5
  <2>2. /\ s[n + 1] \in Characters
        /\ SubSeq(s, 1, n + 1) = Append(SubSeq(s, 1, n), s[n + 1])
    BY <2>1, BeginningNext
  <2>3. SubSeq(s, 1, n) \in Seq(Marked)
    BY <1>1, <2>1, Beginnings
  <2>4. s[n + 1] \in Marked /\ s[n + 1] # "marker"
    BY <2>2 DEF Marked, Characters
  <2>5. Bytes(n + 1) = Bytes(n) + Width(s[n + 1]) /\ Bytes(n) \in Nat
    BY <2>2, <2>3, <2>4, ByteLengthAppend
  <2>6. Width(s[n + 1]) \in Nat /\ Width(s[n + 1]) <= 2
    BY <2>4, Widths
  <2>7. ~ (Bytes(n + 1) <= max)
    BY <1>4, <2>1
  <2> HIDE DEF Bytes
  <2> QED
    BY <2>5, <2>6, <2>7
<1>6. TruncateUtf8(s, max) = SubSeq(s, 1, n)
  BY <1>3 DEF TruncateUtf8
<1> QED
  BY <1>4, <1>5, <1>6

-----------------------------------------------------------------------------
(* The line breaks of a text. *)
BreaksOf(t) == {i \in 1 .. Len(t) : t[i] = "lf"}
Breaks(t)   == Cardinality(BreaksOf(t))

LEMMA BreaksType ==
  ASSUME NEW C, NEW t \in Seq(C)
  PROVE  /\ IsFiniteSet(BreaksOf(t)) /\ Breaks(t) \in Nat
<1>1. IsFiniteSet(1 .. Len(t))
  BY LenProperties, FS_Interval
<1>2. IsFiniteSet(BreaksOf(t))
  BY <1>1, FS_Subset DEF BreaksOf
<1> QED
  BY <1>2, FS_CardinalityType DEF Breaks

LEMMA BreaksAppend ==
  ASSUME NEW C, NEW t \in Seq(C), NEW c \in C
  PROVE  Breaks(Append(t, c)) = Breaks(t) + (IF c = "lf" THEN 1 ELSE 0)
<1>1. PICK u, n : u = Append(t, c) /\ n = Len(t)
  OBVIOUS
<1>2. /\ Len(u) = n + 1 /\ n \in Nat
      /\ \A i \in 1 .. n : u[i] = t[i]
      /\ u[n + 1] = c
  BY <1>1, AppendProperties, LenProperties
<1>3. n + 1 \notin BreaksOf(t) /\ IsFiniteSet(BreaksOf(t)) /\ Breaks(t) \in Nat
  <2>1. n + 1 \notin BreaksOf(t)
    BY <1>1, <1>2 DEF BreaksOf
  <2> QED
    BY <2>1, BreaksType
<1>4. 1 .. n + 1 = 1 .. n \cup {n + 1}
  BY <1>2
<1>5. CASE c = "lf"
  <2>1. BreaksOf(u) = BreaksOf(t) \cup {n + 1}
    BY <1>1, <1>2, <1>4, <1>5 DEF BreaksOf
  <2>2. Cardinality(BreaksOf(t) \cup {n + 1}) = Cardinality(BreaksOf(t)) + 1
    BY <1>3, FS_AddElement
  <2> QED
    BY <1>1, <1>5, <2>1, <2>2 DEF Breaks
<1>6. CASE c # "lf"
  <2>1. BreaksOf(u) = BreaksOf(t)
    BY <1>1, <1>2, <1>4, <1>6 DEF BreaksOf
  <2> QED
    BY <1>1, <1>3, <1>6, <2>1 DEF Breaks
<1> QED
  BY <1>5, <1>6

LEMMA BreaksBeginning ==
  ASSUME NEW C, NEW t \in Seq(C), NEW n \in 0 .. Len(t)
  PROVE  Breaks(SubSeq(t, 1, n)) <= Breaks(t)
<1>1. BreaksOf(SubSeq(t, 1, n)) \subseteq BreaksOf(t)
  <2>1. Len(t) \in Nat /\ \A i \in 1 .. n : i \in 1 .. Len(t)
    BY LenProperties
  <2> QED
    BY <2>1, Beginnings DEF BreaksOf
<1> QED
  BY <1>1, BreaksType, FS_Subset DEF Breaks

(* A text, a line break and a line without one. *)
LEMMA BreaksJoined ==
  ASSUME NEW C, "lf" \in C, Letters \subseteq C, NEW a \in Seq(C), NEW b \in Seq(Letters)
  PROVE  /\ a \o <<"lf">> \o b \in Seq(C)
         /\ Breaks(a \o <<"lf">> \o b) = Breaks(a) + 1
         /\ Len(a \o <<"lf">> \o b) = Len(a) + 1 + Len(b)
         /\ Len(a) \in Nat /\ Len(b) \in Nat
         /\ SubSeq(a \o <<"lf">> \o b, 1, Len(a)) = a
<1>1. PICK u, k, m, l : u = a \o <<"lf">> \o b /\ k = Len(a) /\ m = Len(b) /\ l = <<"lf">>
  OBVIOUS
<1>2. /\ k \in Nat /\ m \in Nat /\ b \in Seq(C)
      /\ \A i \in 1 .. k : a[i] \in C
      /\ \A i \in 1 .. m : b[i] \in Letters
  BY <1>1, LenProperties, ElementOfSeq
<1>3. l \in Seq(C) /\ Len(l) = 1 /\ l[1] = "lf"
  BY <1>1
<1>4. PICK v : v = a \o l
  OBVIOUS
<1>5. /\ v \in Seq(C) /\ Len(v) = k + 1
      /\ \A i \in 1 .. k + 1 : v[i] = IF i <= k THEN a[i] ELSE l[i - k]
  BY <1>1, <1>3, <1>4, ConcatProperties
<1>6. /\ u \in Seq(C) /\ Len(u) = k + 1 + m
      /\ \A i \in 1 .. k + 1 + m : u[i] = IF i <= k + 1 THEN v[i] ELSE b[i - (k + 1)]
  <2>1. u = v \o b
    BY <1>1, <1>4
  <2> QED
    BY <1>1, <1>2, <1>5, <2>1, ConcatProperties
<1>7. \A i \in 1 .. k : u[i] = a[i]
  <2> SUFFICES ASSUME NEW i \in 1 .. k PROVE u[i] = a[i]
    OBVIOUS
  <2>1. i \in 1 .. k + 1 /\ i \in 1 .. k + 1 + m /\ i <= k /\ i <= k + 1
    BY <1>2
  <2> QED
    BY <1>5, <1>6, <2>1
<1>8. u[k + 1] = "lf"
  <2>1. k + 1 \in 1 .. k + 1 /\ k + 1 \in 1 .. k + 1 + m /\ ~ (k + 1 <= k) /\ (k + 1) - k = 1
    BY <1>2
  <2> QED
    BY <1>3, <1>5, <1>6, <2>1
<1>9. \A i \in k + 2 .. k + 1 + m : u[i] # "lf"
  <2> SUFFICES ASSUME NEW i \in k + 2 .. k + 1 + m PROVE u[i] # "lf"
    OBVIOUS
  <2>1. i \in 1 .. k + 1 + m /\ ~ (i <= k + 1) /\ i - (k + 1) \in 1 .. m
    BY <1>2
  <2>2. u[i] = b[i - (k + 1)] /\ b[i - (k + 1)] \in Letters
    BY <1>2, <1>6, <2>1
  <2> QED
    BY <2>2 DEF Letters
<1>10. BreaksOf(u) = BreaksOf(a) \cup {k + 1}
  <2>1. 1 .. k + 1 + m = (1 .. k) \cup {k + 1} \cup (k + 2 .. k + 1 + m)
    BY <1>2
  <2> QED
    BY <1>1, <1>6, <1>7, <1>8, <1>9, <2>1 DEF BreaksOf
<1>11. k + 1 \notin BreaksOf(a) /\ IsFiniteSet(BreaksOf(a))
  <2>1. k + 1 \notin BreaksOf(a)
    BY <1>1, <1>2 DEF BreaksOf
  <2> QED
    BY <2>1, BreaksType
<1>12. Breaks(u) = Breaks(a) + 1
  BY <1>10, <1>11, FS_AddElement DEF Breaks
<1>13. SubSeq(u, 1, k) = a
  <2>1. k \in 0 .. Len(u)
    BY <1>2, <1>6
  <2>2. PICK w : w = SubSeq(u, 1, k)
    OBVIOUS
  <2>3. w \in Seq(C) /\ Len(w) = k /\ \A i \in 1 .. k : w[i] = u[i]
    BY <1>6, <2>1, <2>2, Beginnings
  <2> QED
    BY <1>1, <1>7, <2>2, <2>3, SeqEqual
<1> QED
  BY <1>1, <1>2, <1>6, <1>12, <1>13

-----------------------------------------------------------------------------
(* A text begins with another one. *)
Begins(p, t) == \E n \in 0 .. Len(t) : p = SubSeq(t, 1, n)

LEMMA BeginsFacts ==
  ASSUME NEW C
  PROVE  /\ \A t \in Seq(C) : Begins(t, t) /\ Begins(<<>>, t)
         /\ \A r, p, t : t \in Seq(C) /\ Begins(p, t) /\ Begins(r, p) => Begins(r, t)
<1>1. ASSUME NEW t \in Seq(C) PROVE Begins(t, t) /\ Begins(<<>>, t)
  <2>1. Len(t) \in 0 .. Len(t) /\ 0 \in 0 .. Len(t)
    BY LenProperties
  <2> QED
    BY <2>1, WholeText DEF Begins
<1>2. ASSUME NEW r, NEW p, NEW t \in Seq(C), Begins(p, t), Begins(r, p)
      PROVE  Begins(r, t)
  <2>1. PICK n \in 0 .. Len(t) : p = SubSeq(t, 1, n)
    BY <1>2 DEF Begins
  <2>2. p \in Seq(C) /\ Len(p) = n /\ \A i \in 1 .. n : p[i] = t[i]
    BY <2>1, Beginnings
  <2>3. PICK m \in 0 .. n : r = SubSeq(p, 1, m)
    BY <1>2, <2>2 DEF Begins
  <2>4. r \in Seq(C) /\ Len(r) = m /\ \A i \in 1 .. m : r[i] = p[i]
    BY <2>2, <2>3, Beginnings
  <2>5. m \in 0 .. Len(t) /\ n \in Nat /\ m \in Nat /\ m <= n
    <3>1. Len(t) \in Nat
      BY LenProperties
    <3> QED
      BY <3>1
  <2>6. PICK q : q = SubSeq(t, 1, m)
    OBVIOUS
  <2>7. q \in Seq(C) /\ Len(q) = m /\ \A i \in 1 .. m : q[i] = t[i]
    BY <2>5, <2>6, Beginnings
  <2>8. \A i \in 1 .. m : r[i] = q[i]
    <3> SUFFICES ASSUME NEW i \in 1 .. m PROVE r[i] = q[i]
      OBVIOUS
    <3>1. i \in 1 .. n
      BY <2>5
    <3> QED
      BY <2>2, <2>4, <2>7, <3>1
  <2>9. r = q
    BY <2>4, <2>7, <2>8, SeqEqual
  <2> QED
    BY <2>5, <2>6, <2>9 DEF Begins
<1> QED
  BY <1>1, <1>2

-----------------------------------------------------------------------------
(* The texts that Join makes, line by line. *)
Broken == Letters \cup {"lf"}

IsText(e, lines) ==
  e = [i \in 0 .. Len(lines) |->
         IF i = 0 THEN <<>>
         ELSE IF i = 1 THEN lines[1]
         ELSE e[i - 1] \o <<"lf">> \o lines[i]]

LEMMA JoinText ==
  ASSUME NEW lines \in Seq(Seq(Letters))
  PROVE  \E e : /\ e[0] = <<>> /\ Join(lines) = e[Len(lines)]
                /\ \A i \in 0 .. Len(lines) : e[i] \in Seq(Broken)
                /\ \A i \in 1 .. Len(lines) :
                     e[i] = IF i = 1 THEN lines[1]
                            ELSE e[i - 1] \o <<"lf">> \o lines[i]
<1> DEFINE n == Len(lines)
           V == Seq(Broken)
           Then(i, text) == IF i \in 1 .. n
                            THEN IF i = 1 THEN lines[1]
                                 ELSE text \o <<"lf">> \o lines[i]
                            ELSE text
           G == [x \in Nat \X V |-> Then(x[1], x[2])]
<1>1. n \in Nat /\ \A i \in 1 .. n : lines[i] \in Seq(Letters)
  BY LenProperties, ElementOfSeq
<1>2. /\ \A b \in Seq(Letters) : b \in V
      /\ \A a \in V, b \in Seq(Letters) : a \o <<"lf">> \o b \in V
      /\ <<>> \in V
  <2>1. "lf" \in Broken /\ Letters \subseteq Broken
    BY DEF Broken
  <2>2. \A a \in V, b \in Seq(Letters) : a \o <<"lf">> \o b \in V
    BY <2>1, BreaksJoined
  <2> QED
    BY <2>1, <2>2
<1> HIDE DEF V
<1>3. ASSUME NEW i \in Nat, NEW text \in V PROVE Then(i, text) \in V
  <2> HIDE DEF n
  <2> QED
    BY <1>1, <1>2
<1>4. G \in [Nat \X V -> V]
  <2> HIDE DEF Then
  <2> QED
    BY <1>3
<1>5. PICK d : Iterates(d, n, V, <<>>, G)
  <2> HIDE DEF G, n
  <2> QED
    BY <1>1, <1>2, <1>4, Recursion
<1>6. ASSUME NEW i \in 1 .. n
      PROVE  d[i] = IF i = 1 THEN lines[1] ELSE d[i - 1] \o <<"lf">> \o lines[i]
  <2>1. i - 1 \in 0 .. n /\ i \in Nat
    BY <1>1
  <2>2. d[i - 1] \in V
    <3> HIDE DEF n, G, Then
    <3> QED
      BY <1>5, <2>1, Zenon DEF Iterates
  <2>3. G[<<i, d[i - 1]>>] = Then(i, d[i - 1])
    <3> HIDE DEF Then
    <3> QED
      BY <2>1, <2>2
  <2>4. d[i] = Then(i, d[i - 1])
    BY <1>5, <2>3 DEF Iterates
  <2> QED
    BY <2>4
<1>7. IsText(d, lines)
  <2>1. ASSUME NEW i \in 0 .. n
        PROVE  d[i] = IF i = 0 THEN <<>>
                      ELSE IF i = 1 THEN lines[1]
                      ELSE d[i - 1] \o <<"lf">> \o lines[i]
    <3>1. CASE i = 0
      BY <1>5, <3>1 DEF Iterates
    <3>2. CASE i \in 1 .. n
      <4>1. i # 0
        BY <3>2
      <4> QED
        BY <1>6, <3>2, <4>1
    <3> QED
      BY <1>1, <3>1, <3>2
  <2>2. d = [i \in 0 .. n |-> d[i]]
    BY <1>5 DEF Iterates
  <2> HIDE DEF n
  <2>3. d = [i \in 0 .. n |-> IF i = 0 THEN <<>>
                              ELSE IF i = 1 THEN lines[1]
                              ELSE d[i - 1] \o <<"lf">> \o lines[i]]
    BY <2>1, <2>2
  <2> QED
    BY <2>3 DEF IsText, n
<1>8. PICK e : IsText(e, lines) /\ Join(lines) = e[n]
  BY <1>7, Zenon DEF IsText, Join
<1>9. ASSUME NEW i \in 0 .. n
      PROVE  e[i] = IF i = 0 THEN <<>>
                    ELSE IF i = 1 THEN lines[1]
                    ELSE e[i - 1] \o <<"lf">> \o lines[i]
  BY <1>8, <1>9 DEF IsText
<1> HIDE DEF n, Then, G
<1>10. e[0] = <<>>
  BY <1>1, <1>9
<1>11. ASSUME NEW i \in 1 .. n
       PROVE  e[i] = IF i = 1 THEN lines[1] ELSE e[i - 1] \o <<"lf">> \o lines[i]
  <2>1. i \in 0 .. n /\ i # 0
    BY <1>1
  <2> QED
    BY <1>9, <2>1
<1> DEFINE T == {i \in Nat : i <= n => e[i] \in V}
<1>12. 0 \in T
  BY <1>2, <1>10
<1>13. ASSUME NEW k \in T PROVE k + 1 \in T
  <2> SUFFICES ASSUME k + 1 <= n PROVE e[k + 1] \in V
    OBVIOUS
  <2>1. k + 1 \in 1 .. n /\ (k + 1) - 1 = k /\ k <= n /\ 1 \in 1 .. n
    BY <1>1
  <2>2. e[k + 1] = IF k + 1 = 1 THEN lines[1] ELSE e[k] \o <<"lf">> \o lines[k + 1]
    BY <1>11, <2>1
  <2>3. e[k] \in V /\ lines[1] \in Seq(Letters) /\ lines[k + 1] \in Seq(Letters)
    BY <1>1, <2>1
  <2> QED
    BY <1>2, <2>2, <2>3
<1>14. T = Nat
  <2> HIDE DEF T
  <2>1. T \in SUBSET Nat
    BY DEF T
  <2> QED
    BY <1>12, <1>13, <2>1, SetInduction
<1>15. \A i \in 0 .. n : e[i] \in V
  BY <1>1, <1>14
<1> QED
  BY <1>8, <1>10, <1>11, <1>15 DEF n, V

(* The first lines joined are what all lines joined begin with, and have a *)
(* line break between any two.                                             *)
LEMMA JoinFirst ==
  ASSUME NEW lines \in Seq(Seq(Letters)), NEW k \in 0 .. Len(lines)
  PROVE  /\ Join(lines) \in Seq(Broken) /\ Join(SubSeq(lines, 1, k)) \in Seq(Broken)
         /\ Begins(Join(SubSeq(lines, 1, k)), Join(lines))
         /\ k > 0 => Breaks(Join(SubSeq(lines, 1, k))) = k - 1
<1>1. PICK n, first : n = Len(lines) /\ first = SubSeq(lines, 1, k)
  OBVIOUS
<1>2. /\ n \in Nat /\ k \in Nat /\ k <= n
      /\ \A i \in 1 .. n : lines[i] \in Seq(Letters)
      /\ first \in Seq(Seq(Letters)) /\ Len(first) = k
      /\ \A i \in 1 .. k : first[i] = lines[i]
  <2>1. n \in Nat /\ \A i \in 1 .. n : lines[i] \in Seq(Letters)
    BY <1>1, LenProperties, ElementOfSeq
  <2> QED
    BY <1>1, <2>1, Beginnings
<1>3. PICK e : /\ e[0] = <<>> /\ Join(lines) = e[n]
               /\ \A i \in 0 .. n : e[i] \in Seq(Broken)
               /\ \A i \in 1 .. n :
                    e[i] = IF i = 1 THEN lines[1] ELSE e[i - 1] \o <<"lf">> \o lines[i]
  BY <1>1, JoinText
<1>4. PICK d : /\ d[0] = <<>> /\ Join(first) = d[k]
               /\ \A i \in 0 .. k : d[i] \in Seq(Broken)
               /\ \A i \in 1 .. k :
                    d[i] = IF i = 1 THEN first[1] ELSE d[i - 1] \o <<"lf">> \o first[i]
  <2>1. PICK d : /\ d[0] = <<>> /\ Join(first) = d[Len(first)]
                 /\ \A i \in 0 .. Len(first) : d[i] \in Seq(Broken)
                 /\ \A i \in 1 .. Len(first) :
                      d[i] = IF i = 1 THEN first[1]
                             ELSE d[i - 1] \o <<"lf">> \o first[i]
    BY <1>2, JoinText
  <2>2. Len(first) = k
    BY <1>2
  <2> QED
    BY <2>1, <2>2
<1>5. d[k] = e[k]
  <2> DEFINE T == {i \in Nat : i <= k => d[i] = e[i]}
  <2>1. 0 \in T
    BY <1>3, <1>4
  <2>2. ASSUME NEW i \in T PROVE i + 1 \in T
    <3> SUFFICES ASSUME i + 1 <= k PROVE d[i + 1] = e[i + 1]
      OBVIOUS
    <3>1. /\ i + 1 \in 1 .. k /\ i + 1 \in 1 .. n /\ (i + 1) - 1 = i /\ i <= k
          /\ 1 \in 1 .. k
      BY <1>2
    <3>2. /\ d[i + 1] = IF i + 1 = 1 THEN first[1] ELSE d[i] \o <<"lf">> \o first[i + 1]
          /\ e[i + 1] = IF i + 1 = 1 THEN lines[1] ELSE e[i] \o <<"lf">> \o lines[i + 1]
      BY <1>3, <1>4, <3>1
    <3>3. d[i] = e[i] /\ first[1] = lines[1] /\ first[i + 1] = lines[i + 1]
      BY <1>2, <3>1
    <3> QED
      BY <3>2, <3>3
  <2>3. T = Nat
    <3> HIDE DEF T
    <3>1. T \in SUBSET Nat
      BY DEF T
    <3> QED
      BY <2>1, <2>2, <3>1, SetInduction
  <2> QED
    BY <1>2, <2>3
<1>6. ASSUME NEW i \in 1 .. n, i > 1
      PROVE  /\ Begins(e[i - 1], e[i])
             /\ Breaks(e[i]) = Breaks(e[i - 1]) + 1
  <2>1. PICK a, b, t : a = e[i - 1] /\ b = lines[i] /\ t = e[i]
    OBVIOUS
  <2>2. a \in Seq(Broken) /\ b \in Seq(Letters)
    BY <1>2, <1>3, <1>6, <2>1
  <2>3. t = a \o <<"lf">> \o b
    <3>1. i # 1
      BY <1>6
    <3>2. e[i] = e[i - 1] \o <<"lf">> \o lines[i]
      BY <1>3, <3>1
    <3> QED
      BY <2>1, <3>2
  <2>4. /\ Breaks(t) = Breaks(a) + 1 /\ Len(t) = Len(a) + 1 + Len(b)
        /\ Len(a) \in Nat /\ Len(b) \in Nat /\ SubSeq(t, 1, Len(a)) = a
    BY <2>2, <2>3, BreaksJoined DEF Broken
  <2>5. Len(a) \in 0 .. Len(t)
    BY <2>4
  <2> QED
    BY <2>1, <2>4, <2>5 DEF Begins
<1>7. Begins(e[k], e[n])
  <2>1. CASE k = 0
    BY <1>2, <1>3, <2>1, BeginsFacts
  <2>2. CASE k > 0
    <3> DEFINE T == {i \in Nat : k <= i /\ i <= n => Begins(e[k], e[i])}
    <3>1. 0 \in T
      BY <1>2, <2>2
    <3>2. ASSUME NEW i \in T PROVE i + 1 \in T
      <4> SUFFICES ASSUME k <= i + 1, i + 1 <= n PROVE Begins(e[k], e[i + 1])
        OBVIOUS
      <4>1. e[i + 1] \in Seq(Broken)
        BY <1>2, <1>3
      <4>2. CASE k = i + 1
        BY <4>1, <4>2, BeginsFacts
      <4>3. CASE k <= i
        <5>1. i + 1 \in 1 .. n /\ i + 1 > 1 /\ (i + 1) - 1 = i /\ i <= n
          BY <1>2, <2>2, <4>3
        <5>2. Begins(e[i], e[i + 1])
          BY <1>6, <5>1
        <5>3. Begins(e[k], e[i])
          BY <4>3, <5>1
        <5> QED
          BY <4>1, <5>2, <5>3, BeginsFacts
      <4> QED
        BY <1>2, <4>2, <4>3
    <3>3. T = Nat
      <4> HIDE DEF T
      <4>1. T \in SUBSET Nat
        BY DEF T
      <4> QED
        BY <3>1, <3>2, <4>1, SetInduction
    <3> QED
      BY <1>2, <3>3
  <2> QED
    BY <1>2, <2>1, <2>2
<1>8. k > 0 => Breaks(e[k]) = k - 1
  <2> DEFINE T == {i \in Nat : 0 < i /\ i <= n => Breaks(e[i]) = i - 1}
  <2>1. 0 \in T
    OBVIOUS
  <2>2. ASSUME NEW i \in T PROVE i + 1 \in T
    <3> SUFFICES ASSUME i + 1 <= n PROVE Breaks(e[i + 1]) = (i + 1) - 1
      OBVIOUS
    <3>1. CASE i = 0
      <4>1. e[1] = lines[1] /\ lines[1] \in Seq(Letters)
        BY <1>2, <1>3, <3>1
      <4>2. \A j \in 1 .. Len(e[1]) : e[1][j] # "lf"
        BY <4>1, ElementOfSeq DEF Letters
      <4>3. BreaksOf(e[1]) = {}
        BY <4>2 DEF BreaksOf
      <4>4. Breaks(e[1]) = 0
        BY <4>3, FS_EmptySet DEF Breaks
      <4> QED
        BY <3>1, <4>4
    <3>2. CASE i > 0
      <4>1. i + 1 \in 1 .. n /\ i + 1 > 1 /\ (i + 1) - 1 = i /\ i <= n
        BY <1>2, <3>2
      <4>2. Breaks(e[i + 1]) = Breaks(e[i]) + 1 /\ Breaks(e[i]) = i - 1
        BY <1>6, <3>2, <4>1
      <4> QED
        BY <4>2
    <3> QED
      BY <3>1, <3>2
  <2>3. T = Nat
    <3> HIDE DEF T
    <3>1. T \in SUBSET Nat
      BY DEF T
    <3> QED
      BY <2>1, <2>2, <3>1, SetInduction
  <2> QED
    BY <1>2, <2>3
<1>9. e[n] \in Seq(Broken) /\ e[k] \in Seq(Broken)
  BY <1>2, <1>3
<1> QED
  BY <1>1, <1>3, <1>4, <1>5, <1>7, <1>8, <1>9

-----------------------------------------------------------------------------
(* What a character more does to the lines of a text. *)
LEMMA ExtendFacts ==
  ASSUME NEW s \in Seq(Characters), NEW i \in 1 .. Len(s),
         NEW lines \in Seq(Seq(Letters)), lines # <<>>
  PROVE  LET more == Extend(lines, s, i)
         IN  /\ more \in Seq(Seq(Letters)) /\ more # <<>>
             /\ Len(more) = Len(lines) + (IF i \in SeparatorEnds(s) THEN 1 ELSE 0)
             /\ i \in SeparatorEnds(s) => more[Len(more)] = <<>>
             /\ s[i] \notin {"lf", "cr"} => more[Len(more)] # <<>>
<1>1. PICK n, more : n = Len(lines) /\ more = Extend(lines, s, i)
  OBVIOUS
<1>2. /\ n \in Nat \ {0} /\ s[i] \in Characters
      /\ \A j \in 1 .. n : lines[j] \in Seq(Letters)
  BY <1>1, LenProperties, EmptySeq, ElementOfSeq
<1>3. i \in SeparatorEnds(s) => s[i] \in {"lf", "cr"}
  BY DEF SeparatorEnds
<1>4. CASE s[i] \notin {"lf", "cr"}
  <2>1. PICK line : line = Append(lines[n], s[i])
    OBVIOUS
  <2>2. line \in Seq(Letters) /\ line # <<>>
    <3>1. s[i] \in Letters /\ lines[n] \in Seq(Letters)
      BY <1>2, <1>4 DEF Letters, Characters
    <3> QED
      BY <2>1, <3>1, AppendProperties
  <2>3. more = [j \in 1 .. n |-> IF j = n THEN line ELSE lines[j]]
    <3>1. more = [lines EXCEPT ![n] = line]
      BY <1>1, <1>4, <2>1 DEF Extend
    <3>2. DOMAIN lines = 1 .. n
      BY <1>1, LenProperties
    <3>3. lines = [j \in 1 .. n |-> lines[j]]
      BY <1>1, LenProperties
    <3> QED
      BY <1>2, <3>1, <3>2, <3>3
  <2>4. more \in Seq(Seq(Letters)) /\ Len(more) = n /\ more[n] = line
    <3>1. \A j \in 1 .. n : (IF j = n THEN line ELSE lines[j]) \in Seq(Letters)
      BY <1>2, <2>2
    <3>2. /\ [j \in 1 .. n |-> IF j = n THEN line ELSE lines[j]] \in Seq(Seq(Letters))
          /\ Len([j \in 1 .. n |-> IF j = n THEN line ELSE lines[j]]) = n
      BY <1>2, <3>1, IsASeq
    <3> QED
      BY <1>2, <2>3, <3>2
  <2>5. more # <<>>
    BY <1>2, <2>4
  <2> QED
    BY <1>1, <1>2, <1>3, <1>4, <2>2, <2>4, <2>5
<1>5. CASE i \in SeparatorEnds(s)
  <2>1. more = Append(lines, <<>>) /\ <<>> \in Seq(Letters)
    BY <1>1, <1>3, <1>5 DEF Extend
  <2>2. /\ more \in Seq(Seq(Letters)) /\ more # <<>> /\ Len(more) = n + 1
        /\ more[n + 1] = <<>>
    BY <1>1, <2>1, AppendProperties
  <2> QED
    BY <1>1, <1>3, <1>5, <2>2
<1>6. CASE s[i] \in {"lf", "cr"} /\ i \notin SeparatorEnds(s)
  <2>1. more = lines
    BY <1>1, <1>6 DEF Extend
  <2> QED
    BY <1>1, <1>2, <1>6, <2>1
<1> QED
  BY <1>3, <1>4, <1>5, <1>6

IsSplit(e, s) ==
  e = [i \in 0 .. Len(s) |->
         IF i = 0 THEN << <<>> >> ELSE Extend(e[i - 1], s, i)]

LEMMA SplitText ==
  ASSUME NEW s \in Seq(Characters)
  PROVE  \E e : /\ e[0] = << <<>> >>
                /\ \A i \in 0 .. Len(s) : e[i] \in Seq(Seq(Letters)) /\ e[i] # <<>>
                /\ \A i \in 1 .. Len(s) : e[i] = Extend(e[i - 1], s, i)
                /\ LET lines == e[Len(s)]
                   IN  SplitLines(s) = IF lines[Len(lines)] = <<>>
                                       THEN SubSeq(lines, 1, Len(lines) - 1)
                                       ELSE lines
<1> DEFINE n == Len(s)
           V == {lines \in Seq(Seq(Letters)) : lines # <<>>}
           Then(i, lines) == IF i \in 1 .. n THEN Extend(lines, s, i) ELSE lines
           G == [x \in Nat \X V |-> Then(x[1], x[2])]
           start == << <<>> >>
<1>1. n \in Nat
  BY LenProperties
<1>2. start \in V
  OBVIOUS
<1>3. ASSUME NEW i \in Nat, NEW lines \in V PROVE Then(i, lines) \in V
  BY <1>3, ExtendFacts
<1> HIDE DEF V, start
<1>4. G \in [Nat \X V -> V]
  <2> HIDE DEF Then
  <2> QED
    BY <1>3
<1>5. PICK d : Iterates(d, n, V, start, G)
  <2> HIDE DEF G, n
  <2> QED
    BY <1>1, <1>2, <1>4, Recursion
<1>6. ASSUME NEW i \in 1 .. n PROVE d[i] = Extend(d[i - 1], s, i)
  <2>1. i - 1 \in 0 .. n /\ i \in Nat
    BY <1>1
  <2>2. d[i - 1] \in V
    BY <1>5, <2>1 DEF Iterates
  <2>3. G[<<i, d[i - 1]>>] = Then(i, d[i - 1])
    <3> HIDE DEF Then
    <3> QED
      BY <2>1, <2>2
  <2>4. d[i] = Then(i, d[i - 1])
    BY <1>5, <2>3 DEF Iterates
  <2> QED
    BY <2>4
<1>7. IsSplit(d, s)
  <2>1. ASSUME NEW i \in 0 .. n
        PROVE  d[i] = IF i = 0 THEN << <<>> >> ELSE Extend(d[i - 1], s, i)
    <3>1. CASE i = 0
      BY <1>5, <3>1 DEF Iterates, start
    <3>2. CASE i \in 1 .. n
      <4>1. i # 0
        BY <3>2
      <4> QED
        BY <1>6, <3>2, <4>1
    <3> QED
      BY <1>1, <3>1, <3>2
  <2>2. d = [i \in 0 .. n |-> d[i]]
    BY <1>5 DEF Iterates
  <2> HIDE DEF n
  <2>3. d = [i \in 0 .. n |-> IF i = 0 THEN << <<>> >> ELSE Extend(d[i - 1], s, i)]
    BY <2>1, <2>2
  <2> QED
    BY <2>3 DEF IsSplit, n
<1>8. PICK e : /\ IsSplit(e, s)
               /\ SplitLines(s) = IF e[n][Len(e[n])] = <<>>
                                  THEN SubSeq(e[n], 1, Len(e[n]) - 1)
                                  ELSE e[n]
  BY <1>7, Zenon DEF IsSplit, SplitLines
<1>9. ASSUME NEW i \in 0 .. n
      PROVE  e[i] = IF i = 0 THEN << <<>> >> ELSE Extend(e[i - 1], s, i)
  BY <1>8, <1>9 DEF IsSplit
<1> HIDE DEF n, Then, G
<1>10. e[0] = << <<>> >>
  <2>1. 0 \in 0 .. n
    BY <1>1
  <2> QED
    BY <1>9, <2>1, Zenon
<1>11. ASSUME NEW i \in 1 .. n PROVE e[i] = Extend(e[i - 1], s, i)
  <2>1. i \in 0 .. n /\ i # 0
    BY <1>1
  <2> QED
    BY <1>9, <2>1
<1> DEFINE T == {i \in Nat : i <= n => e[i] \in V}
<1>12. 0 \in T
  BY <1>2, <1>10 DEF start
<1>13. ASSUME NEW k \in T PROVE k + 1 \in T
  <2> SUFFICES ASSUME k + 1 <= n PROVE e[k + 1] \in V
    OBVIOUS
  <2>1. k + 1 \in 1 .. n /\ (k + 1) - 1 = k /\ k <= n
    BY <1>1
  <2>2. e[k + 1] = Extend(e[k], s, k + 1) /\ e[k] \in V
    BY <1>11, <2>1
  <2> QED
    BY <2>1, <2>2, ExtendFacts DEF V, n
<1>14. T = Nat
  <2> HIDE DEF T
  <2>1. T \in SUBSET Nat
    BY DEF T
  <2> QED
    BY <1>12, <1>13, <2>1, SetInduction
<1>15. \A i \in 0 .. n : e[i] \in V
  BY <1>1, <1>14
<1> QED
  BY <1>8, <1>10, <1>11, <1>15 DEF n, V

(* There are as many lines as CountLines says. *)
LEMMA SplitCount ==
  ASSUME NEW s \in Seq(Characters)
  PROVE  /\ SplitLines(s) \in Seq(Seq(Letters))
         /\ Len(SplitLines(s)) = CountLines(s) /\ CountLines(s) \in Nat
<1>1. PICK n : n = Len(s)
  OBVIOUS
<1>2. n \in Nat /\ DOMAIN s = 1 .. n /\ \A i \in 1 .. n : s[i] \in Characters
  BY <1>1, LenProperties, ElementOfSeq
<1>3. PICK e : /\ e[0] = << <<>> >>
               /\ \A i \in 0 .. n : e[i] \in Seq(Seq(Letters)) /\ e[i] # <<>>
               /\ \A i \in 1 .. n : e[i] = Extend(e[i - 1], s, i)
               /\ SplitLines(s) = IF e[n][Len(e[n])] = <<>>
                                  THEN SubSeq(e[n], 1, Len(e[n]) - 1)
                                  ELSE e[n]
  BY <1>1, SplitText
<1> DEFINE Ends(k) == {i \in SeparatorEnds(s) : i <= k}
<1>4. /\ Ends(0) = {} /\ Ends(n) = SeparatorEnds(s)
      /\ \A k \in Nat : IsFiniteSet(Ends(k)) /\ Cardinality(Ends(k)) \in Nat
  <2>1. SeparatorEnds(s) \subseteq 1 .. n /\ IsFiniteSet(1 .. n)
    BY <1>2, FS_Interval DEF SeparatorEnds
  <2>2. \A k : Ends(k) \subseteq 1 .. n
    BY <2>1
  <2>3. \A k \in Nat : IsFiniteSet(Ends(k)) /\ Cardinality(Ends(k)) \in Nat
    BY <2>1, <2>2, FS_Subset, FS_CardinalityType
  <2> QED
    BY <1>2, <2>1, <2>3
<1>5. \A k \in Nat : k <= n => Len(e[k]) = Cardinality(Ends(k)) + 1
  <2> DEFINE T == {k \in Nat : k <= n => Len(e[k]) = Cardinality(Ends(k)) + 1}
  <2>1. 0 \in T
    <3>1. Len(e[0]) = 1
      BY <1>3
    <3>2. Cardinality(Ends(0)) = 0
      BY <1>4, FS_EmptySet
    <3>3. Len(e[0]) = Cardinality(Ends(0)) + 1
      BY <3>1, <3>2
    <3> HIDE DEF Ends
    <3> QED
      BY <3>3
  <2>2. ASSUME NEW k \in T PROVE k + 1 \in T
    <3> SUFFICES ASSUME k + 1 <= n
                 PROVE  Len(e[k + 1]) = Cardinality(Ends(k + 1)) + 1
      OBVIOUS
    <3>1. k + 1 \in 1 .. n /\ k \in 0 .. n /\ (k + 1) - 1 = k /\ k <= n
      BY <1>2
    <3>2. Len(e[k]) = Cardinality(Ends(k)) + 1
      BY <3>1
    <3>3. Len(e[k + 1]) = Len(e[k]) + (IF k + 1 \in SeparatorEnds(s) THEN 1 ELSE 0)
      <4>1. e[k + 1] = Extend(e[k], s, k + 1) /\ e[k] \in Seq(Seq(Letters)) /\ e[k] # <<>>
        BY <1>3, <3>1
      <4>2. PICK before, after, j :
              before = e[k] /\ after = e[k + 1] /\ j = k + 1
        OBVIOUS
      <4>3. /\ j \in 1 .. Len(s) /\ after = Extend(before, s, j)
            /\ before \in Seq(Seq(Letters)) /\ before # <<>>
        BY <1>1, <3>1, <4>1, <4>2
      <4>4. Len(after) = Len(before) + (IF j \in SeparatorEnds(s) THEN 1 ELSE 0)
        BY <4>3, ExtendFacts
      <4> HIDE DEF Ends, T
      <4> QED
        BY <4>2, <4>4
    <3>4. /\ k + 1 \in SeparatorEnds(s) => Ends(k + 1) = Ends(k) \cup {k + 1}
          /\ k + 1 \notin SeparatorEnds(s) => Ends(k + 1) = Ends(k)
          /\ k + 1 \notin Ends(k)
      <4>1. \A i \in SeparatorEnds(s) : i \in Nat
        BY <1>2 DEF SeparatorEnds
      <4>2. \A i \in SeparatorEnds(s) : i <= k + 1 <=> i <= k \/ i = k + 1
        BY <4>1
      <4> QED
        BY <4>2
    <3>5. IsFiniteSet(Ends(k)) /\ Cardinality(Ends(k)) \in Nat
      BY <1>4
    <3>6. Cardinality(Ends(k) \cup {k + 1}) = Cardinality(Ends(k)) + 1
      <4> HIDE DEF Ends
      <4> QED
        BY <3>4, <3>5, FS_AddElement
    <3> HIDE DEF Ends
    <3>7. CASE k + 1 \in SeparatorEnds(s)
      BY <3>2, <3>3, <3>4, <3>5, <3>6, <3>7
    <3>8. CASE k + 1 \notin SeparatorEnds(s)
      BY <3>2, <3>3, <3>4, <3>5, <3>8
    <3> QED
      BY <3>7, <3>8
  <2>3. T = Nat
    <3> HIDE DEF T
    <3>1. T \in SUBSET Nat
      BY DEF T
    <3> QED
      BY <2>1, <2>2, <3>1, SetInduction
  <2> QED
    BY <2>3
<1>6. PICK lines, ends : lines = e[n] /\ ends = Cardinality(SeparatorEnds(s))
  OBVIOUS
<1>7. /\ lines \in Seq(Seq(Letters)) /\ Len(lines) = ends + 1 /\ ends \in Nat
      /\ SplitLines(s) = IF lines[Len(lines)] = <<>>
                         THEN SubSeq(lines, 1, Len(lines) - 1) ELSE lines
  <2>1. n \in 0 .. n
    BY <1>2
  <2>2. lines \in Seq(Seq(Letters))
    BY <1>3, <1>6, <2>1
  <2>3. Cardinality(Ends(n)) = ends /\ ends \in Nat
    <3> HIDE DEF Ends
    <3> QED
      BY <1>2, <1>4, <1>6
  <2>4. Len(e[n]) = Cardinality(Ends(n)) + 1
    <3>1. n <= n
      BY <1>2
    <3> HIDE DEF Ends
    <3> QED
      BY <1>2, <1>5, <3>1
  <2> HIDE DEF Ends
  <2>5. Len(lines) = ends + 1
    BY <1>6, <2>3, <2>4
  <2>6. SplitLines(s) = IF lines[Len(lines)] = <<>>
                        THEN SubSeq(lines, 1, Len(lines) - 1) ELSE lines
    BY <1>3, <1>6
  <2> QED
    BY <2>2, <2>3, <2>5, <2>6
<1>8. CASE lines[Len(lines)] = <<>>
  <2>1. SplitLines(s) = SubSeq(lines, 1, ends)
    BY <1>7, <1>8
  <2>2. ends \in 0 .. Len(lines)
    BY <1>7
  <2>3. SplitLines(s) \in Seq(Seq(Letters)) /\ Len(SplitLines(s)) = ends
    BY <1>7, <2>1, <2>2, Beginnings
  <2>4. CASE n = 0
    <3>1. s = <<>>
      BY <1>1, <2>4, EmptySeq
    <3>2. SeparatorEnds(s) = {}
      BY <1>2, <2>4 DEF SeparatorEnds
    <3>3. ends = 0
      BY <1>6, <3>2, FS_EmptySet
    <3> QED
      BY <2>3, <3>1, <3>3 DEF CountLines
  <2>5. CASE n > 0
    <3>1. n \in 1 .. n
      BY <1>2, <2>5
    <3>2. s[n] \in {"lf", "cr"}
      <4>1. e[n] = Extend(e[n - 1], s, n) /\ n - 1 \in 0 .. n
        BY <1>2, <1>3, <3>1
      <4>2. e[n - 1] \in Seq(Seq(Letters)) /\ e[n - 1] # <<>>
        BY <1>3, <4>1
      <4> QED
        BY <1>1, <1>6, <1>8, <3>1, <4>1, <4>2, ExtendFacts
    <3>3. n \in SeparatorEnds(s)
      BY <1>1, <1>2, <3>1, <3>2 DEF SeparatorEnds
    <3>4. s # <<>>
      BY <1>1, <2>5
    <3> QED
      BY <1>1, <1>6, <1>7, <2>3, <3>3, <3>4 DEF CountLines
  <2> QED
    BY <1>2, <2>4, <2>5
<1>9. CASE lines[Len(lines)] # <<>>
  <2>1. SplitLines(s) = lines
    BY <1>7, <1>9
  <2>2. n # 0
    BY <1>3, <1>6, <1>9
  <2>3. n \in 1 .. n /\ s # <<>>
    BY <1>1, <1>2, <2>2
  <2>4. n \notin SeparatorEnds(s)
    <3>1. e[n] = Extend(e[n - 1], s, n) /\ n - 1 \in 0 .. n
      BY <1>2, <1>3, <2>3
    <3>2. e[n - 1] \in Seq(Seq(Letters)) /\ e[n - 1] # <<>>
      BY <1>3, <3>1
    <3> QED
      BY <1>1, <1>6, <1>9, <2>3, <3>1, <3>2, ExtendFacts
  <2> QED
    BY <1>1, <1>6, <1>7, <2>1, <2>3, <2>4 DEF CountLines
<1> QED
  BY <1>8, <1>9

-----------------------------------------------------------------------------
(* The lines of a content that ends with the marker. *)
LEMMA MarkedLines ==
  ASSUME NEW g \in Seq(Broken \cup {"marker"}), g # <<>>, g[Len(g)] = "marker"
  PROVE  CountLines(g) = Breaks(g) + 1
<1>1. PICK n : n = Len(g)
  OBVIOUS
<1>2. n \in Nat \ {0} /\ DOMAIN g = 1 .. n
      /\ \A i \in 1 .. n : g[i] \in Broken \cup {"marker"}
  BY <1>1, LenProperties, EmptySeq, ElementOfSeq
<1>3. SeparatorEnds(g) = BreaksOf(g)
  <2>1. \A i \in 1 .. n : g[i] # "cr"
    BY <1>2 DEF Broken, Letters
  <2> QED
    BY <1>1, <1>2, <2>1 DEF SeparatorEnds, BreaksOf
<1>4. n \notin BreaksOf(g)
  BY <1>1 DEF BreaksOf
<1> QED
  BY <1>1, <1>3, <1>4 DEF CountLines, Breaks

(* A cut content: what it keeps, a line break and the marker. *)
LEMMA CutContent ==
  ASSUME NEW p \in Seq(Broken)
  PROVE  LET g == Append(Append(p, "lf"), "marker")
         IN  /\ g = p \o <<"lf">> \o <<"marker">>
             /\ g[Len(g)] = "marker" /\ SubSeq(g, 1, Len(g) - 2) = p
             /\ CountLines(g) = Breaks(p) + 2 /\ Breaks(p) \in Nat
             /\ ByteLength(g) = ByteLength(p) + 1 + MarkerBytes
             /\ ByteLength(p) \in Nat
<1> DEFINE C == Broken \cup {"marker"}
<1>1. PICK n, q, g : n = Len(p) /\ q = Append(p, "lf") /\ g = Append(q, "marker")
  OBVIOUS
<1>2. p \in Seq(C) /\ p \in Seq(Marked)
  <2>1. Broken \subseteq C /\ Broken \subseteq Marked
    BY DEF Broken, Letters, Marked, Characters
  <2> QED
    BY <2>1, ElementOfSeq, LenProperties
<1>3. n \in Nat /\ "lf" \in C /\ "marker" \in C /\ "lf" \in Marked /\ "marker" \in Marked
  BY <1>1, LenProperties DEF Broken, Marked, Characters
<1> HIDE DEF C
<1>4. /\ q \in Seq(C) /\ Len(q) = n + 1 /\ q[n + 1] = "lf"
      /\ \A i \in 1 .. n : q[i] = p[i]
  BY <1>1, <1>2, <1>3, AppendProperties
<1>5. /\ g \in Seq(C) /\ Len(g) = n + 2 /\ g[n + 2] = "marker" /\ g[n + 1] = "lf"
      /\ \A i \in 1 .. n : g[i] = p[i]
  <2>1. /\ g \in Seq(C) /\ Len(g) = (n + 1) + 1 /\ g[(n + 1) + 1] = "marker"
        /\ \A i \in 1 .. n + 1 : g[i] = q[i]
    BY <1>1, <1>3, <1>4, AppendProperties
  <2> QED
    BY <1>3, <1>4, <2>1
<1>6. g = p \o <<"lf">> \o <<"marker">>
  <2>1. q = p \o <<"lf">>
    BY <1>1, <1>2, <1>3
  <2>2. g = q \o <<"marker">>
    BY <1>1, <1>3, <1>4
  <2> QED
    BY <2>1, <2>2
<1>7. SubSeq(g, 1, Len(g) - 2) = p
  <2>1. Len(g) - 2 = n /\ n \in 0 .. Len(g)
    BY <1>3, <1>5
  <2>2. PICK b : b = SubSeq(g, 1, n)
    OBVIOUS
  <2>3. b \in Seq(C) /\ Len(b) = n /\ \A i \in 1 .. n : b[i] = p[i]
    BY <1>5, <2>1, <2>2, Beginnings
  <2> QED
    BY <1>1, <1>2, <2>1, <2>2, <2>3, SeqEqual
<1>8. CountLines(g) = Breaks(p) + 2 /\ Breaks(p) \in Nat
  <2>1. Breaks(q) = Breaks(p) + 1 /\ Breaks(g) = Breaks(q) + 0
    BY <1>1, <1>2, <1>3, <1>4, BreaksAppend
  <2>2. Breaks(p) \in Nat
    BY <1>2, BreaksType
  <2>3. g # <<>> /\ g[Len(g)] = "marker"
    BY <1>3, <1>5
  <2>4. CountLines(g) = Breaks(g) + 1
    BY <1>5, <2>3, MarkedLines DEF C
  <2> QED
    BY <2>1, <2>2, <2>4
<1>9. /\ ByteLength(g) = ByteLength(p) + 1 + MarkerBytes
      /\ ByteLength(p) \in Nat
  <2>1. q \in Seq(Marked)
    BY <1>1, <1>2, <1>3, AppendProperties
  <2>2. ByteLength(q) = ByteLength(p) + 1 /\ ByteLength(g) = ByteLength(q) + MarkerBytes
    BY <1>1, <1>2, <1>3, <2>1, ByteLengthAppend, Widths
  <2>3. ByteLength(p) \in Nat
    BY <1>2, ByteLengthAppend
  <2> QED
    BY <2>2, <2>3
<1> QED
  BY <1>1, <1>5, <1>6, <1>7, <1>8, <1>9

(* The same of the marker alone. *)
LEMMA BareMarker ==
  LET g == <<>> \o <<>> \o <<"marker">>
  IN  /\ g[Len(g)] = "marker" /\ SubSeq(g, 1, Len(g) - 2) = <<>>
      /\ CountLines(g) = 1 /\ ByteLength(g) = MarkerBytes
<1> DEFINE C == Broken \cup {"marker"}
<1>1. PICK g : g = <<"marker">>
  OBVIOUS
<1>2. g = <<>> \o <<>> \o <<"marker">> /\ g = Append(<<>>, "marker")
  BY <1>1
<1>3. g \in Seq(C) /\ Len(g) = 1 /\ g[1] = "marker" /\ g # <<>>
  BY <1>1
<1>4. CountLines(g) = Breaks(g) + 1
  BY <1>3, MarkedLines
<1>5. Breaks(g) = 0
  <2>1. BreaksOf(g) = {}
    BY <1>3 DEF BreaksOf
  <2> QED
    BY <2>1, FS_EmptySet DEF Breaks
<1>6. ByteLength(g) = MarkerBytes
  <2>1. <<>> \in Seq(Marked) /\ "marker" \in Marked /\ MarkerBytes \in Nat
    BY MemoryAssumption DEF Marked
  <2>2. /\ ByteLength(<<>>) = 0
        /\ ByteLength(Append(<<>>, "marker")) = ByteLength(<<>>) + Width("marker")
    BY <2>1, ByteLengthAppend, Zenon
  <2>3. Width("marker") = MarkerBytes
    BY <2>1, Widths, Zenon
  <2>4. ByteLength(g) = 0 + MarkerBytes
    BY <1>2, <2>2, <2>3, Zenon
  <2> QED
    BY <2>1, <2>4
<1>7. SubSeq(g, 1, Len(g) - 2) = <<>>
  <2>1. Len(g) - 2 = 0 - 1
    BY <1>3
  <2> QED
    BY <1>3, <2>1
<1> QED
  BY <1>2, <1>3, <1>4, <1>5, <1>6, <1>7

(* What the budget keeps of the lines. *)
LEMMA KeptLines ==
  ASSUME NEW s \in Seq(Characters)
  PROVE  \E m \in 0 .. CountLines(s) :
           LET text  == Join(Kept(s))
               whole == Join(SplitLines(s))
           IN  /\ m <= MaxMemoryLines - 1
               /\ m = MaxMemoryLines - 1 \/ text = whole
               /\ text \in Seq(Broken) /\ whole \in Seq(Broken) /\ Begins(text, whole)
               /\ IF m = 0 THEN text = <<>> ELSE Breaks(text) = m - 1
<1>1. PICK lines, count, m :
        /\ lines = SplitLines(s) /\ count = CountLines(s)
        /\ m = Min({MaxMemoryLines - 1, count})
  OBVIOUS
<1>2. lines \in Seq(Seq(Letters)) /\ Len(lines) = count /\ count \in Nat
  BY <1>1, SplitCount
<1>3. m \in 0 .. count /\ m <= MaxMemoryLines - 1 /\ (m = MaxMemoryLines - 1 \/ m = count)
  <2> DEFINE T == {MaxMemoryLines - 1, count}
  <2>1. /\ MaxMemoryLines - 1 + count \in Nat
        /\ T \in SUBSET (0 .. MaxMemoryLines - 1 + count) /\ T # {}
    BY <1>2, MemoryAssumption
  <2> HIDE DEF T
  <2>2. Min(T) \in T /\ \A x \in T : Min(T) <= x
    BY <2>1, Extremes
  <2>3. m \in T /\ \A x \in T : m <= x
    BY <1>1, <2>2 DEF T
  <2> QED
    BY <1>2, <2>3, MemoryAssumption DEF T
<1>4. PICK first, text, whole :
        first = SubSeq(lines, 1, m) /\ text = Join(first) /\ whole = Join(lines)
  OBVIOUS
<1>5. text = Join(Kept(s)) /\ whole = Join(SplitLines(s))
  BY <1>1, <1>4 DEF Kept
<1>6. /\ text \in Seq(Broken) /\ whole \in Seq(Broken) /\ Begins(text, whole)
      /\ m > 0 => Breaks(text) = m - 1
  BY <1>2, <1>3, <1>4, JoinFirst
<1>7. m = count => text = whole
  BY <1>2, <1>4, WholeText
<1>8. m = 0 => text = <<>>
  <2> SUFFICES ASSUME m = 0 PROVE text = <<>>
    OBVIOUS
  <2>1. first = <<>> /\ first \in Seq(Seq(Letters)) /\ Len(first) = 0
    BY <1>2, <1>4, WholeText
  <2>2. PICK e : e[0] = <<>> /\ Join(first) = e[Len(first)]
    BY <2>1, JoinText
  <2> QED
    BY <1>4, <2>1, <2>2
<1> QED
  BY <1>1, <1>3, <1>5, <1>6, <1>7, <1>8

(* Both limits, and what may be cut. *)
LEMMA BudgetKept ==
  ASSUME NEW s \in Seq(Characters)
  PROVE  IsBounded(s)
<1>1. CASE CountLines(s) <= MaxMemoryLines /\ ByteLength(s) <= MaxMemoryBytes
  <2>1. ApplyMemoryBudget(s) = [content |-> s, truncated |-> FALSE]
    BY <1>1 DEF ApplyMemoryBudget
  <2> QED
    BY <1>1, <2>1 DEF IsBounded
<1>2. CASE ~ (CountLines(s) <= MaxMemoryLines /\ ByteLength(s) <= MaxMemoryBytes)
  <2>1. PICK text, whole, break, max :
          /\ text = Join(Kept(s)) /\ whole = Join(SplitLines(s))
          /\ break = IF text = <<>> THEN 0 ELSE 1
          /\ max = MaxMemoryBytes - break - MarkerBytes
    OBVIOUS
  <2>2. PICK m \in 0 .. CountLines(s) :
          /\ m <= MaxMemoryLines - 1
          /\ m = MaxMemoryLines - 1 \/ text = whole
          /\ text \in Seq(Broken) /\ whole \in Seq(Broken) /\ Begins(text, whole)
          /\ IF m = 0 THEN text = <<>> ELSE Breaks(text) = m - 1
    BY <2>1, KeptLines
  <2>3. /\ MaxMemoryLines \in Nat \ {0} /\ MarkerBytes \in Nat /\ MaxMemoryBytes \in Nat
        /\ MaxMemoryBytes > MarkerBytes + 2 /\ max \in Nat /\ m \in Nat
    BY <2>1, MemoryAssumption, SplitCount
  <2>4. text \in Seq(Characters)
    <3>1. Broken \subseteq Characters
      BY DEF Broken, Letters, Characters
    <3> QED
      BY <2>2, <3>1, ElementOfSeq, LenProperties
  <2>5. PICK n \in 0 .. Len(text) :
          /\ TruncateUtf8(text, max) = SubSeq(text, 1, n)
          /\ ByteLength(SubSeq(text, 1, n)) <= max
          /\ n = Len(text) \/ ByteLength(SubSeq(text, 1, n)) >= max - 1
    BY <2>3, <2>4, Truncated
  <2>6. PICK p, g : /\ p = TruncateUtf8(text, max)
                    /\ g = p \o (IF p = <<>> THEN <<>> ELSE <<"lf">>) \o <<"marker">>
    OBVIOUS
  <2>7. ApplyMemoryBudget(s) = [content |-> g, truncated |-> TRUE]
    BY <1>2, <2>1, <2>6 DEF ApplyMemoryBudget
  <2>8. /\ p \in Seq(Broken) /\ Len(p) = n /\ Breaks(p) <= Breaks(text)
        /\ Breaks(p) \in Nat /\ Breaks(text) \in Nat
        /\ n = Len(text) => p = text
        /\ Begins(p, whole)
    <3>1. p = SubSeq(text, 1, n)
      BY <2>5, <2>6
    <3>2. p \in Seq(Broken) /\ Len(p) = n
      BY <2>2, <2>5, <3>1, Beginnings
    <3>3. Breaks(p) <= Breaks(text) /\ Breaks(p) \in Nat /\ Breaks(text) \in Nat
      BY <2>2, <2>5, <3>1, <3>2, BreaksBeginning, BreaksType
    <3>4. n = Len(text) => p = text
      BY <2>2, <3>1, WholeText
    <3>5. Begins(p, text)
      BY <2>5, <3>1 DEF Begins
    <3>6. Begins(p, whole)
      BY <2>2, <3>5, BeginsFacts
    <3> QED
      BY <3>2, <3>3, <3>4, <3>6
  <2>9. ByteLength(p) <= max /\ (n = Len(text) \/ ByteLength(p) >= max - 1)
    BY <2>5, <2>6
  <2>10. /\ CountLines(g) <= MaxMemoryLines
         /\ ByteLength(g) <= MaxMemoryBytes
         /\ g[Len(g)] = "marker"
         /\ SubSeq(g, 1, Len(g) - 2) = p
         /\ \/ p = whole
            \/ CountLines(g) >= MaxMemoryLines - 1
            \/ ByteLength(g) >= MaxMemoryBytes - 1
    <3>1. CASE p = <<>>
      <4>1. g = <<>> \o <<>> \o <<"marker">>
        BY <2>6, <3>1
      <4>2. /\ g[Len(g)] = "marker" /\ SubSeq(g, 1, Len(g) - 2) = p
            /\ CountLines(g) = 1 /\ ByteLength(g) = MarkerBytes
        BY <3>1, <4>1, BareMarker
      <4>3. n = Len(text)
        <5> SUFFICES ASSUME n # Len(text) PROVE FALSE
          OBVIOUS
        <5>1. text # <<>>
          BY <2>5
        <5>2. ByteLength(p) = 0 /\ ByteLength(p) >= max - 1
          BY <2>9, <3>1, ByteLengthAppend
        <5> QED
          BY <2>1, <2>3, <5>1, <5>2
      <4>4. text = <<>> /\ Breaks(text) = 0
        <5>1. text = <<>>
          BY <2>8, <3>1, <4>3
        <5>2. BreaksOf(<<>>) = {}
          BY DEF BreaksOf
        <5> QED
          BY <5>1, <5>2, FS_EmptySet DEF Breaks
      <4>5. m <= 1
        BY <2>2, <2>3, <4>4
      <4>6. p = whole \/ CountLines(g) >= MaxMemoryLines - 1
        BY <2>2, <2>3, <3>1, <4>2, <4>4, <4>5
      <4> QED
        BY <2>3, <4>2, <4>6
    <3>2. CASE p # <<>>
      <4>1. g = p \o <<"lf">> \o <<"marker">>
        BY <2>6, <3>2
      <4>2. /\ g[Len(g)] = "marker" /\ SubSeq(g, 1, Len(g) - 2) = p
            /\ CountLines(g) = Breaks(p) + 2
            /\ ByteLength(g) = ByteLength(p) + 1 + MarkerBytes /\ ByteLength(p) \in Nat
        BY <2>8, <4>1, CutContent
      <4>3. text # <<>>
        <5>1. n # 0
          BY <2>8, <3>2, EmptySeq
        <5> QED
          BY <2>5, <5>1
      <4>4. max = MaxMemoryBytes - 1 - MarkerBytes
        BY <2>1, <4>3
      <4>5. Breaks(text) = m - 1
        BY <2>2, <4>3
      <4>6. CountLines(g) <= MaxMemoryLines
        BY <2>2, <2>3, <2>8, <4>2, <4>5
      <4>7. ByteLength(g) <= MaxMemoryBytes
        BY <2>3, <2>9, <4>2, <4>4
      <4>8. CASE n = Len(text)
        <5>1. p = text
          BY <2>8, <4>8
        <5>2. p = whole \/ CountLines(g) >= MaxMemoryLines - 1
          BY <2>2, <2>3, <4>2, <4>5, <5>1
        <5> QED
          BY <4>2, <4>6, <4>7, <5>2
      <4>9. CASE n # Len(text)
        <5>1. ByteLength(g) >= MaxMemoryBytes - 1
          BY <2>3, <2>9, <4>2, <4>4, <4>9
        <5> QED
          BY <4>2, <4>6, <4>7, <5>1
      <4> QED
        BY <4>8, <4>9
    <3> QED
      BY <3>1, <3>2
  <2>11. \E k \in 0 .. Len(whole) : p = SubSeq(whole, 1, k)
    BY <2>8 DEF Begins
  <2> QED
    BY <2>1, <2>7, <2>10, <2>11 DEF IsBounded
<1> QED
  BY <1>1, <1>2

(* MemoryIsBounded is an invariant: whatever a memory file holds, what of  *)
(* it reaches the model keeps both limits with the marker counted, and     *)
(* what was cut is a beginning of the file's lines that one of the limits  *)
(* ended.                                                                  *)
THEOREM MemoryBounded == Spec => []MemoryIsBounded
<1>1. Inv => MemoryIsBounded
  <2> SUFFICES ASSUME Inv, NEW f \in loaded, input.sources[f.n].memory,
                      NEW s \in input.contents
               PROVE  IsBounded(s)
    BY DEF MemoryIsBounded
  <2>1. input.contents \subseteq Seq(Characters)
    BY ContentInputAssumption DEF Inv, Types
  <2> QED
    BY <2>1, BudgetKept
<1> QED
  BY InitInv, NextInv, <1>1, PTL DEF Spec
=============================================================================

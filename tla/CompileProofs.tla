---------------------------- MODULE CompileProofs ----------------------------
(***************************************************************************)
(* Proofs about Compile for any projects and limits.                       *)
(*                                                                         *)
(* A file is inspected under one set of counts and read under the same:    *)
(* between the two only the file changes, and its bytes are counted again. *)
(*                                                                         *)
(* What is left of the compilation is a list of calls.  What was reported  *)
(* had its reason (RecursionReal, TooDeepReal), and nothing is missing     *)
(* from a manifest (ManifestComplete).                                     *)
(***************************************************************************)
EXTENDS Compile, TreeProofs

Types ==
  /\ input \in Inputs
  /\ present \subseteq Paths
  /\ size \in [Paths -> Nat]
  /\ reading \in BOOLEAN
  /\ fileCount \in Nat /\ totalBytes \in Nat
  /\ IsFiniteSet(found)

(* A read under way has a place in the counts. *)
ReadHasRoom == reading => fileCount < MaxFiles /\ ~ exhausted

Inv == Types /\ BoundsKept /\ ReadHasRoom

(* A project gives every path its size. *)
LEMMA Sizes ==
  ASSUME NEW p \in Inputs
  PROVE  p.present \subseteq DOMAIN p.real /\ p.size \in [DOMAIN p.real -> Nat]
BY InputAssumption

LEMMA InitInv == Init => Inv
<1> SUFFICES ASSUME Init PROVE Inv
  OBVIOUS
<1>1. Types
  BY Sizes, FS_EmptySet DEF Init, Types, Paths
<1>2. BoundsKept /\ ReadHasRoom
  BY FS_EmptySet, LimitAssumption DEF Init, BoundsKept, ReadHasRoom
<1> QED
  BY <1>1, <1>2 DEF Inv

(* Most calls read nothing, and start no read. *)
LEMMA QuietStep ==
  ASSUME Inv, UNCHANGED <<input, disk, fileCount, totalBytes, found>>,
         \/ reading' = FALSE
         \/ UNCHANGED <<reading, exhausted>>
  PROVE  Inv'
<1>1. Paths' = Paths
  BY DEF Paths
<1>2. reading' \in BOOLEAN
  BY DEF Inv, Types
<1>3. input' \in Inputs /\ present' \subseteq Paths /\ size' \in [Paths -> Nat]
  BY DEF Inv, Types, disk
<1>4. fileCount' \in Nat /\ totalBytes' \in Nat /\ IsFiniteSet(found')
  BY DEF Inv, Types
<1>5. BoundsKept' /\ ReadHasRoom'
  BY DEF Inv, BoundsKept, ReadHasRoom
<1> QED
  BY <1>1, <1>2, <1>3, <1>4, <1>5 DEF Inv, Types

(* A file that is read fits in what the limits leave. *)
LEMMA CountStep == ASSUME Inv, ReadCounts PROVE Inv'
<1>1. /\ Real \in Paths
      /\ size[Real] \in Nat
  BY DEF Inv, Types, ReadCounts
<1>2. /\ fileCount' = fileCount + 1 /\ fileCount < MaxFiles
      /\ totalBytes' = totalBytes + size[Real]
      /\ totalBytes + size[Real] <= MaxTotal
      /\ reading' = FALSE
      /\ UNCHANGED <<input, present, size>>
  BY DEF Inv, ReadHasRoom, ReadCounts, Reads, outer, disk
<1>3. PICK file : found' = found \cup {file}
  BY DEF ReadCounts
<1>4. /\ IsFiniteSet(found')
      /\ Cardinality(found') <= Cardinality(found) + 1
  <2>1. /\ IsFiniteSet(found \cup {file})
        /\ Cardinality(found \cup {file}) =
             IF file \in found THEN Cardinality(found) ELSE Cardinality(found) + 1
    BY FS_AddElement DEF Inv, Types
  <2>2. Cardinality(found) \in Nat
    BY FS_CardinalityType DEF Inv, Types
  <2> QED
    BY <1>3, <2>1, <2>2
<1>5. Types'
  <2>1. Paths' = Paths
    BY <1>2 DEF Paths
  <2>2. fileCount' \in Nat /\ totalBytes' \in Nat
    BY <1>1, <1>2 DEF Inv, Types
  <2> QED
    BY <1>2, <1>4, <2>1, <2>2 DEF Inv, Types
<1>6. Cardinality(found) \in Nat /\ Cardinality(found') \in Nat
  BY <1>4, FS_CardinalityType DEF Inv, Types
<1>7. BoundsKept' /\ ReadHasRoom'
  BY <1>1, <1>2, <1>4, <1>6, LimitAssumption
  DEF Inv, Types, BoundsKept, ReadHasRoom
<1> QED
  BY <1>5, <1>7 DEF Inv

(* Only a file inspected while the counts leave room is read. *)
LEMMA StatStep == ASSUME Inv, StatFits PROVE Inv'
<1>1. fileCount < MaxFiles /\ ~ exhausted
  BY DEF StatFits, Meets, Walks, Calls, Skips
<1> QED
  BY <1>1 DEF Inv, Types, BoundsKept, ReadHasRoom, StatFits, outer, disk,
              counts, Paths

LEMMA NextInv == ASSUME Inv, [Next]_vars PROVE Inv'
<1>1. CASE DiscoverDefinition
  BY <1>1, QuietStep
  DEF DiscoverDefinition, TooNested, Recursive, Enter, Return, Refuse, outer,
      counts
<1>2. CASE DiscoverSources
  BY <1>2, QuietStep
  DEF DiscoverSources, Escapes, BeginWalk, Skip, Refuse, Ignore, outer, counts
<1>3. CASE WalkSource
  <2>1. CASE TooDeep \/ Missing \/ PassOver \/ Unresolved \/ Outside
    BY <2>1, QuietStep
    DEF TooDeep, Missing, PassOver, Unresolved, Outside, Refuse, Ignore,
        outer, counts
  <2>2. CASE Directory \/ VisitedBefore \/ NotRegular
    BY <2>2, QuietStep
    DEF Directory, VisitedBefore, NotRegular, Refuse, Ignore, outer, counts
  <2>3. CASE StatTooLarge \/ StatExhausts \/ ReadFails \/ ReadTooLarge
               \/ ReadExhausts \/ Fails
    BY <2>3, QuietStep
    DEF StatTooLarge, StatExhausts, ReadFails, ReadTooLarge, ReadExhausts,
        Fails, Refuse, Exhaust, outer, counts
  <2>4. CASE StatFits
    BY <2>4, StatStep
  <2>5. CASE ReadCounts
    BY <2>5, CountStep
  <2> QED
    BY <1>3, <2>1, <2>2, <2>3, <2>4, <2>5 DEF WalkSource
<1>4. CASE Discovered \/ WriteManifest
  BY <1>4, QuietStep DEF Discovered, WriteManifest, walk, counts
<1>5. CASE Environment
  <2>1. PICK p \in Paths : Grow(p) \/ Remove(p)
    BY <1>5 DEF Environment
  <2>2. /\ present' \subseteq Paths
        /\ size' \in [Paths -> Nat]
        /\ UNCHANGED <<input, reading, exhausted, fileCount, totalBytes, found>>
    BY <2>1 DEF Grow, Remove, Inv, Types, walk, counts
  <2> QED
    BY <2>2 DEF Inv, Types, BoundsKept, ReadHasRoom, Paths
<1>6. CASE Stopped \/ UNCHANGED vars
  BY <1>6, QuietStep DEF Stopped, vars, outer, counts
<1> QED
  BY <1>1, <1>2, <1>3, <1>4, <1>5, <1>6 DEF Next

LEMMA InvHolds == Spec => []Inv
BY InitInv, NextInv, PTL DEF Spec

-----------------------------------------------------------------------------
(* The limits hold for what is read, whatever lstat had said of it. *)
THEOREM BoundsAreKept == Spec => []BoundsKept
<1>1. Inv => BoundsKept
  BY DEF Inv
<1> QED
  BY <1>1, InvHolds, PTL

(* Nothing is read any more once the bounds are exhausted. *)
THEOREM NothingAfterBounds == Spec => StopsAtBounds
<1>1. ASSUME Inv, [Next]_vars, exhausted
      PROVE  exhausted' /\ UNCHANGED <<fileCount, totalBytes, found>>
  <2> USE <1>1 DEF outer, counts, walk
  <2>1. CASE DiscoverDefinition \/ DiscoverSources
    BY <2>1
    DEF DiscoverDefinition, TooNested, Recursive, Enter, Return, Refuse,
        DiscoverSources, Escapes, BeginWalk, Skip, Ignore
  <2>2. ~ reading
    BY DEF Inv, ReadHasRoom
  <2>3. CASE WalkSource
    <3>1. ~ ReadCounts
      BY <2>2 DEF ReadCounts, Reads
    <3>2. CASE TooDeep \/ Missing \/ PassOver \/ Unresolved \/ Outside
                 \/ Directory \/ VisitedBefore \/ NotRegular \/ StatTooLarge
      BY <3>2
      DEF TooDeep, Missing, PassOver, Unresolved, Outside, Directory,
          VisitedBefore, NotRegular, StatTooLarge, Refuse, Ignore
    <3>3. CASE StatExhausts \/ StatFits \/ ReadFails \/ ReadTooLarge
                 \/ ReadExhausts \/ Fails
      BY <3>3
      DEF StatExhausts, StatFits, ReadFails, ReadTooLarge, ReadExhausts,
          Fails, Refuse, Exhaust
    <3> QED
      BY <2>3, <3>1, <3>2, <3>3 DEF WalkSource
  <2>4. CASE Discovered \/ WriteManifest \/ Environment
    BY <2>4 DEF Discovered, WriteManifest, Environment, Grow, Remove
  <2>5. CASE Stopped \/ UNCHANGED vars
    BY <2>5 DEF Stopped, vars
  <2> QED
    BY <2>1, <2>3, <2>4, <2>5 DEF Next
<1>2. Inv /\ [Next]_vars =>
        [exhausted => exhausted' /\ UNCHANGED <<fileCount, totalBytes, found>>]_vars
  BY <1>1
<1> QED
  BY <1>2, InvHolds, PTL DEF Spec, StopsAtBounds

-----------------------------------------------------------------------------
(* The calls still to make. *)
AgentPlaces == Seq(DOMAIN input.children) \ {<<>>}

(* The calls discovery can have to make. *)
CallSet ==
  [do : {"definition", "leave"}, place : AgentPlaces]
    \cup [do : {"source"}, place : AgentPlaces, n : Nat]
    \cup [do : {"visit"}, place : AgentPlaces, n : Nat, path : Paths,
          depth : 0 .. MaxDepth + 1]

Pending == {work[j] : j \in DOMAIN work}

(* The lead, or a child of an agent that was entered. *)
IsNext(place) ==
  \/ place = <<input.lead>>
  \/ \E parent \in entered : \E i \in DOMAIN input.children[Agent(parent)] :
       place = Append(parent, input.children[Agent(parent)][i])

OfEntered(c) == c.do \in {"leave", "source", "visit"} => c.place \in entered
OfSource(c) == c.do \in {"source", "visit"} => c.n \in DOMAIN input.requests[c.place]

Owned(c) ==
  /\ c.do = "definition" => IsNext(c.place)
  /\ OfEntered(c) /\ OfSource(c)

CallInv ==
  /\ work \in Seq(CallSet)
  /\ entered \subseteq DOMAIN input.requests
  /\ \A c \in Pending : Owned(c)

(* Visits come before all other calls and belong to the walk of one source.*)
SameSource(c, d) == c.do = "visit" /\ c.place = d.place /\ c.n = d.n
VisitsFirst ==
  \A i, j \in DOMAIN work : i <= j /\ work[j].do = "visit" => SameSource(work[i], work[j])

(* The agents that a call at j has above it: those to be left after it.    *)
Above(s, j) ==
  {Agent(s[k].place) : k \in {m \in j + 1 .. Len(s) : s[m].do = "leave"}}
Ancestors(place) == {place[i] : i \in 1 .. Len(place) - 1}
Distinct(place, n) == \A i, j \in 1 .. n : place[i] = place[j] => i = j
(* A call to enter or to leave a place is made below that place only. *)
Placed(c, above) ==
  /\ c.do \in {"definition", "leave"} =>
       above = Ancestors(c.place) /\ Distinct(c.place, Len(c.place) - 1)
  /\ c.do = "leave" => Distinct(c.place, Len(c.place))

(* active is what is still to be left, and every call has exactly its      *)
(* ancestors above it.                                                     *)
AncestorInv ==
  /\ active = Above(work, 0)
  /\ \A j \in DOMAIN work : Placed(work[j], Above(work, j))

Rest == {work[j] : j \in 2 .. Len(work)}

(* What a step does to the list of calls. *)
Drops ==
  /\ work # <<>> /\ Replace(<<>>)
  /\ UNCHANGED <<input, present, visited, entered>>

Still == UNCHANGED <<input, work, visited, entered, active>> /\ present' \subseteq present

LEMMA StepKinds ==
  ASSUME [Next]_vars
  PROVE  \/ Drops /\ Call.do # "leave" /\ UNCHANGED active
         \/ Return \/ Enter \/ BeginWalk \/ Directory \/ Still
<1>1. CASE DiscoverDefinition
  BY <1>1
  DEF DiscoverDefinition, TooNested, Recursive, Refuse, outer, disk, Drops, Calls
<1>2. CASE DiscoverSources
  BY <1>2
  DEF DiscoverSources, Escapes, Skip, Refuse, Ignore, outer, disk, Drops, Calls
<1>3. CASE WalkSource
  <2>1. CASE TooDeep \/ Missing \/ PassOver \/ Unresolved \/ Outside
    BY <2>1
    DEF TooDeep, Missing, PassOver, Unresolved, Outside, Walks, Refuse, Ignore,
        outer, disk, Drops, Calls
  <2>2. CASE VisitedBefore \/ NotRegular \/ StatTooLarge \/ StatExhausts
    BY <2>2
    DEF VisitedBefore, NotRegular, StatTooLarge, StatExhausts, Meets, Walks,
        Refuse, Ignore, Exhaust, outer, disk, Drops, Calls
  <2>3. CASE StatFits
    BY <2>3 DEF StatFits, outer, disk, Still
  <2>4. CASE ReadFails \/ ReadTooLarge \/ ReadExhausts \/ ReadCounts \/ Fails
    BY <2>4
    DEF ReadFails, ReadTooLarge, ReadExhausts, ReadCounts, Fails, Reads, Walks,
        Refuse, Exhaust, outer, disk, Drops, Calls
  <2> QED
    BY <1>3, <2>1, <2>2, <2>3, <2>4 DEF WalkSource
<1>4. CASE Discovered \/ WriteManifest \/ Environment
  BY <1>4
  DEF Discovered, WriteManifest, Environment, Grow, Remove, disk, walk, Still
<1>5. CASE Stopped \/ UNCHANGED vars
  BY <1>5 DEF Stopped, vars, outer, disk, Still
<1> QED
  BY <1>1, <1>2, <1>3, <1>4, <1>5 DEF Next

(* The first call, and the others. *)
LEMMA FirstCall ==
  ASSUME work \in Seq(CallSet), work # <<>>
  PROVE  /\ Call = work[1] /\ Call \in CallSet
         /\ Pending = {Call} \cup Rest
         /\ Len(work) \in Nat \ {0} /\ DOMAIN work = 1 .. Len(work)
<1>1. /\ Len(work) \in Nat \ {0} /\ DOMAIN work = 1 .. Len(work)
      /\ \A j \in 1 .. Len(work) : work[j] \in CallSet
  BY LenProperties, EmptySeq, ElementOfSeq
<1>2. Call = work[1]
  BY DEF Call
<1>3. 1 .. Len(work) = {1} \cup 2 .. Len(work)
  BY <1>1
<1> QED
  BY <1>1, <1>2, <1>3 DEF Pending, Rest

(* The calls after a call has been replaced. *)
LEMMA AfterReplace ==
  ASSUME work \in Seq(CallSet), work # <<>>, input' = input,
         NEW calls \in Seq(CallSet), Replace(calls)
  PROVE  /\ work' \in Seq(CallSet)'
         /\ Pending' = Members(calls) \cup Rest
         /\ Pending = {Call} \cup Rest
         /\ Len(work) \in Nat \ {0} /\ DOMAIN work = 1 .. Len(work)
         /\ Len(calls) \in Nat /\ DOMAIN work' = 1 .. Len(work')
         /\ Len(work') = Len(calls) + Len(work) - 1
         /\ \A i \in 1 .. Len(calls) : work'[i] = calls[i]
         /\ \A i \in Len(calls) + 1 .. Len(work') :
              work'[i] = work[i - Len(calls) + 1]
<1>1. work' = calls \o Tail(work)
  BY DEF Replace
<1>2. /\ work' \in Seq(CallSet)
      /\ Len(work) \in Nat \ {0} /\ Len(calls) \in Nat
      /\ Len(work') = Len(calls) + Len(work) - 1
      /\ \A i \in 1 .. Len(calls) : work'[i] = calls[i]
      /\ \A i \in Len(calls) + 1 .. Len(work') :
           work'[i] = work[i - Len(calls) + 1]
  BY <1>1, FirstReplaced
<1>3. DOMAIN work' = 1 .. Len(work')
  BY <1>2, LenProperties
<1>4. CallSet' = CallSet
  BY DEF CallSet, AgentPlaces, Paths
<1>5. Pending' = Members(calls) \cup Rest
  <2>1. ASSUME NEW c \in Pending'
        PROVE  c \in Members(calls) \cup Rest
    <3>1. PICK j \in 1 .. Len(work') : c = work'[j]
      BY <1>3 DEF Pending
    <3>2. CASE j <= Len(calls)
      BY <1>2, <3>1, <3>2 DEF Members
    <3>3. CASE j > Len(calls)
      <4>1. j - Len(calls) + 1 \in 2 .. Len(work)
        BY <1>2, <3>3
      <4>2. c = work[j - Len(calls) + 1]
        BY <1>2, <3>1, <3>3
      <4> QED
        BY <4>1, <4>2 DEF Rest
    <3> QED
      BY <1>2, <3>2, <3>3
  <2>2. ASSUME NEW i \in 1 .. Len(calls) PROVE calls[i] \in Pending'
    <3>1. i \in DOMAIN work' /\ calls[i] = work'[i]
      BY <1>2, <1>3
    <3> QED
      BY <3>1 DEF Pending
  <2>3. ASSUME NEW c \in Rest PROVE c \in Pending'
    <3>1. PICK j \in 2 .. Len(work) : c = work[j]
      BY DEF Rest
    <3>2. PICK k \in Len(calls) + 1 .. Len(work') : k - Len(calls) + 1 = j
      <4>1. /\ j + Len(calls) - 1 \in Len(calls) + 1 .. Len(work')
            /\ (j + Len(calls) - 1) - Len(calls) + 1 = j
        BY <1>2
      <4> QED
        BY <4>1
    <3>3. work'[k] = work[k - Len(calls) + 1]
      BY <1>2
    <3>4. k \in 1 .. Len(work')
      BY <1>2
    <3> QED
      BY <1>3, <3>1, <3>2, <3>3, <3>4 DEF Pending
  <2> QED
    BY <2>1, <2>2, <2>3 DEF Members
<1> QED
  BY <1>2, <1>3, <1>4, <1>5, FirstCall

-----------------------------------------------------------------------------
(* What is known of a place. *)
LEMMA PlaceFacts ==
  ASSUME input \in Inputs, NEW place \in DOMAIN input.requests
  PROVE  /\ place \in AgentPlaces
         /\ Len(place) \in Nat \ {0} /\ DOMAIN place = 1 .. Len(place)
         /\ Agent(place) \in DOMAIN input.children
         /\ input.children[Agent(place)] \in Seq(DOMAIN input.children)
         /\ Len(input.requests[place]) \in Nat
         /\ DOMAIN input.requests[place] = 1 .. Len(input.requests[place])
         /\ input.flaws[place] \subseteq Flaws
<1>1. /\ place \in Seq(DOMAIN input.children) /\ place # <<>>
      /\ Len(input.requests[place]) \in Nat
      /\ DOMAIN input.requests[place] = 1 .. Len(input.requests[place])
      /\ input.flaws[place] \subseteq Flaws
      /\ input.children \in [DOMAIN input.children -> Seq(DOMAIN input.children)]
  BY InputAssumption
<1>2. Len(place) \in Nat \ {0} /\ DOMAIN place = 1 .. Len(place)
  BY <1>1, LenProperties, EmptySeq
<1>3. Agent(place) \in DOMAIN input.children
  BY <1>1, <1>2, ElementOfSeq DEF Agent
<1> QED
  BY <1>1, <1>2, <1>3 DEF AgentPlaces

(* An agent that is not below itself has a place, and it has sources. *)
LEMMA PlaceOfNext ==
  ASSUME input \in Inputs, entered \subseteq DOMAIN input.requests,
         NEW place \in AgentPlaces, IsNext(place), Len(place) - 1 <= MaxDepth,
         Agent(place) \notin Ancestors(place)
  PROVE  place \in DOMAIN input.requests
<1>1. CASE place = <<input.lead>>
  BY <1>1, InputAssumption
<1>2. CASE \E parent \in entered : \E i \in DOMAIN input.children[Agent(parent)] :
             place = Append(parent, input.children[Agent(parent)][i])
  <2>0. PICK parent \in DOMAIN input.requests :
          \E i \in DOMAIN input.children[Agent(parent)] :
            place = Append(parent, input.children[Agent(parent)][i])
    BY <1>2
  <2>1. PICK i \in DOMAIN input.children[Agent(parent)] :
          place = Append(parent, input.children[Agent(parent)][i])
    BY <2>0
  <2> DEFINE child == input.children[Agent(parent)][i]
  <2>2. /\ parent \in Seq(DOMAIN input.children)
        /\ Len(parent) \in Nat /\ DOMAIN parent = 1 .. Len(parent)
        /\ input.children[Agent(parent)] \in Seq(DOMAIN input.children)
    BY PlaceFacts DEF AgentPlaces
  <2>3. child \in DOMAIN input.children
    BY <2>2
  <2>4. /\ Len(place) = Len(parent) + 1
        /\ \A j \in 1 .. Len(parent) : place[j] = parent[j]
        /\ place[Len(parent) + 1] = child
    BY <2>1, <2>2, <2>3, AppendProperties
  <2>5. ~ \E j \in DOMAIN parent : child = parent[j]
    <3>1. Agent(place) = child
      BY <2>4 DEF Agent
    <3>2. \A j \in DOMAIN parent : parent[j] \in Ancestors(place)
      BY <2>2, <2>4 DEF Ancestors
    <3> QED
      BY <3>1, <3>2
  <2>6. ~ Len(parent) > MaxDepth
    BY <2>2, <2>4, LimitAssumption
  <2> QED
    BY <2>1, <2>5, <2>6, InputAssumption DEF Agent
<1> QED
  BY <1>1, <1>2 DEF IsNext

(* The calls that Enter makes, in their order. *)
SourceCalls(place) == [n \in DOMAIN input.requests[place] |-> Source(place, n)]
ChildCalls(place) ==
  LET children == input.children[Agent(place)]
  IN  [i \in DOMAIN children |-> Definition(Append(place, children[i]))]
EnterCalls(place) == SourceCalls(place) \o ChildCalls(place) \o <<Leave(place)>>

MadeByEnter(calls, place, m, children) ==
  /\ m \in Nat /\ Len(children) \in Nat
  /\ DOMAIN children = 1 .. Len(children)
  /\ calls \in Seq(CallSet)
  /\ Len(calls) = m + Len(children) + 1
  /\ \A i \in 1 .. m : calls[i] = Source(place, i)
  /\ \A i \in m + 1 .. m + Len(children) :
       calls[i] = Definition(Append(place, children[i - m]))
  /\ calls[m + Len(children) + 1] = Leave(place)

LEMMA CallsOfEnter ==
  ASSUME input \in Inputs, NEW place \in DOMAIN input.requests
  PROVE  MadeByEnter(EnterCalls(place), place, Len(input.requests[place]),
                     input.children[Agent(place)])
<1> SUFFICES ASSUME NEW m, m = Len(input.requests[place]),
                    NEW children, children = input.children[Agent(place)]
             PROVE  MadeByEnter(EnterCalls(place), place, m, children)
  OBVIOUS
<1>1. /\ place \in AgentPlaces /\ place \in Seq(DOMAIN input.children)
      /\ m \in Nat /\ DOMAIN input.requests[place] = 1 .. m
      /\ children \in Seq(DOMAIN input.children)
  BY PlaceFacts DEF AgentPlaces
<1>2. Len(children) \in Nat /\ DOMAIN children = 1 .. Len(children)
  BY <1>1, LenProperties
<1>3. /\ SourceCalls(place) \in Seq(CallSet) /\ Len(SourceCalls(place)) = m
      /\ \A i \in 1 .. m : SourceCalls(place)[i] = Source(place, i)
  <2>1. \A i \in 1 .. m : Source(place, i) \in CallSet
    BY <1>1 DEF Source, CallSet
  <2> QED
    BY <1>1, <2>1, IsASeq DEF SourceCalls
<1>4. /\ ChildCalls(place) \in Seq(CallSet) /\ Len(ChildCalls(place)) = Len(children)
      /\ \A i \in 1 .. Len(children) :
           ChildCalls(place)[i] = Definition(Append(place, children[i]))
  <2>1. \A i \in 1 .. Len(children) : children[i] \in DOMAIN input.children
    BY <1>1, <1>2, ElementOfSeq
  <2>2. ASSUME NEW i \in 1 .. Len(children)
        PROVE  Append(place, children[i]) \in AgentPlaces
    <3>1. place \in Seq(DOMAIN input.children) /\ children[i] \in DOMAIN input.children
      BY <1>1, <2>1
    <3>2. /\ Append(place, children[i]) \in Seq(DOMAIN input.children)
          /\ Append(place, children[i]) # <<>>
      BY ONLY <3>1, OneMore, Zenon
    <3> QED
      BY <3>2, Zenon DEF AgentPlaces
  <2>3. \A i \in 1 .. Len(children) : Definition(Append(place, children[i])) \in CallSet
    BY <2>2 DEF Definition, CallSet
  <2> QED
    BY <1>2, <2>3, IsASeq DEF ChildCalls
<1>5. /\ EnterCalls(place) \in Seq(CallSet)
      /\ Len(EnterCalls(place)) = m + Len(children) + 1
      /\ \A i \in 1 .. m : EnterCalls(place)[i] = SourceCalls(place)[i]
      /\ \A i \in m + 1 .. m + Len(children) :
           EnterCalls(place)[i] = ChildCalls(place)[i - m]
      /\ EnterCalls(place)[m + Len(children) + 1] = Leave(place)
  <2>1. Leave(place) \in CallSet
    BY <1>1 DEF Leave, CallSet
  <2>2. EnterCalls(place) = SourceCalls(place) \o ChildCalls(place) \o <<Leave(place)>>
    BY DEF EnterCalls
  <2> DEFINE t == EnterCalls(place)
             a == SourceCalls(place)
             b == ChildCalls(place)
  <2> HIDE DEF t, a, b
  <2>3. a \in Seq(CallSet) /\ b \in Seq(CallSet) /\ t = a \o b \o <<Leave(place)>>
    BY <1>3, <1>4, <2>2 DEF t, a, b
  <2>4. /\ t \in Seq(CallSet)
        /\ Len(t) = Len(a) + Len(b) + 1
        /\ \A i \in 1 .. Len(a) : t[i] = a[i]
        /\ \A i \in Len(a) + 1 .. Len(a) + Len(b) : t[i] = b[i - Len(a)]
        /\ t[Len(a) + Len(b) + 1] = Leave(place)
    BY ONLY <2>1, <2>3, ListsJoined
  <2>5. Len(a) = m /\ Len(b) = Len(children)
    BY <1>3, <1>4 DEF a, b
  <2> QED
    BY <2>4, <2>5 DEF t, a, b
<1>6. ASSUME NEW i \in m + 1 .. m + Len(children)
      PROVE  EnterCalls(place)[i] = Definition(Append(place, children[i - m]))
  <2>1. m \in Nat /\ Len(children) \in Nat
    BY <1>1, <1>2
  <2>2. i - m \in 1 .. Len(children)
    BY ONLY <2>1, i \in m + 1 .. m + Len(children)
  <2> QED
    BY <1>4, <1>5, <2>2
<1> QED
  BY <1>1, <1>2, <1>3, <1>5, <1>6 DEF MadeByEnter

(* The visits that Directory makes: one for each entry that exists. *)
DirectoryCalls ==
  LET entries == Within(input.entries[Real], present)
  IN  [i \in DOMAIN entries |->
         Visit(Call.place, Call.n, entries[i], Call.depth + 1)]

LEMMA VisitTypes ==
  ASSUME NEW c \in CallSet, c.do = "visit"
  PROVE  /\ c.place \in AgentPlaces /\ c.n \in Nat
         /\ c.path \in Paths /\ c.depth \in 0 .. MaxDepth + 1
         /\ c = Visit(c.place, c.n, c.path, c.depth)
BY DEF CallSet, Visit

LEMMA CallsOfDirectory ==
  ASSUME input \in Inputs, Call \in CallSet, Call.do = "visit",
         Call.depth <= MaxDepth, Real \in Paths
  PROVE  /\ DirectoryCalls \in Seq(CallSet)
         /\ \A i \in 1 .. Len(DirectoryCalls) :
              \E p \in Entries(input, Call.path, present) :
                DirectoryCalls[i] = Visit(Call.place, Call.n, p, Call.depth + 1)
         /\ \A p \in Entries(input, Call.path, present) :
              \E i \in 1 .. Len(DirectoryCalls) :
                DirectoryCalls[i] = Visit(Call.place, Call.n, p, Call.depth + 1)
<1> DEFINE list == input.entries[Real]
           kept == Within(list, present)
<1>1. list \in Seq(Paths)
  BY InputAssumption DEF Paths
<1>2. kept \in Seq(Paths) /\ Members(kept) = Members(list) \cap present
  BY <1>1, WithinMembers
<1>3. DOMAIN list = 1 .. Len(list) /\ Len(kept) \in Nat /\ DOMAIN kept = 1 .. Len(kept)
  BY <1>1, <1>2, LenProperties
<1>4. Entries(input, Call.path, present) = Members(kept)
  BY <1>2, <1>3 DEF Entries, Members, Real
<1>5. Call.depth + 1 \in 0 .. MaxDepth + 1
  <2>1. Call.depth \in 0 .. MaxDepth + 1
    BY VisitTypes
  <2> QED
    BY <2>1, LimitAssumption
<1>6. ASSUME NEW i \in 1 .. Len(kept)
      PROVE  Visit(Call.place, Call.n, kept[i], Call.depth + 1) \in CallSet
  <2>1. kept[i] \in Paths
    BY <1>2, ElementOfSeq
  <2> QED
    BY <1>5, <2>1, VisitTypes DEF Visit, CallSet
<1>7. DirectoryCalls =
        [i \in 1 .. Len(kept) |-> Visit(Call.place, Call.n, kept[i], Call.depth + 1)]
  BY <1>3 DEF DirectoryCalls
<1> HIDE DEF kept
<1>8. /\ DirectoryCalls \in Seq(CallSet)
      /\ Len(DirectoryCalls) = Len(kept)
      /\ \A i \in 1 .. Len(kept) :
           DirectoryCalls[i] = Visit(Call.place, Call.n, kept[i], Call.depth + 1)
  BY <1>3, <1>6, <1>7, IsASeq
<1> QED
  BY <1>4, <1>8 DEF Members

-----------------------------------------------------------------------------
LEMMA InitCalls == ASSUME Init PROVE CallInv /\ VisitsFirst /\ AncestorInv
<1>1. input \in Inputs /\ input.lead \in DOMAIN input.children
  BY InputAssumption DEF Init
<1>2. <<input.lead>> \in AgentPlaces
  BY <1>1 DEF AgentPlaces
<1>3. Definition(<<input.lead>>) \in CallSet
  BY <1>2 DEF CallSet, Definition
<1>4. entered = {} /\ active = {}
  BY DEF Init
<1>5. CASE work = <<>>
  <2>1. Pending = {} /\ Len(work) = 0 /\ DOMAIN work = {} /\ work \in Seq(CallSet)
    BY <1>5 DEF Pending
  <2> QED
    BY <1>4, <2>1 DEF CallInv, VisitsFirst, AncestorInv, Above
<1>6. CASE work = <<Definition(<<input.lead>>)>>
  <2>1. /\ work \in Seq(CallSet) /\ Len(work) = 1 /\ DOMAIN work = {1}
        /\ work[1] = Definition(<<input.lead>>)
    BY <1>3, <1>6
  <2>2. Pending = {Definition(<<input.lead>>)}
    BY <2>1 DEF Pending
  <2>3. CallInv
    BY <1>4, <2>1, <2>2 DEF CallInv, Owned, IsNext, OfEntered, OfSource, Definition
  <2>4. VisitsFirst
    BY <2>1 DEF VisitsFirst, Definition
  <2>5. Above(work, 0) = {} /\ Above(work, 1) = {}
    BY <2>1 DEF Above, Definition
  <2>6. Len(<<input.lead>>) = 1
    OBVIOUS
  <2>7. Ancestors(<<input.lead>>) = {} /\ Distinct(<<input.lead>>, Len(<<input.lead>>) - 1)
    BY <2>6 DEF Ancestors, Distinct
  <2>8. work[1].do = "definition" /\ work[1].place = <<input.lead>>
    BY <2>1 DEF Definition
  <2>9. AncestorInv
    BY <1>4, <2>1, <2>5, <2>7, <2>8 DEF AncestorInv, Placed
  <2> QED
    BY <2>3, <2>4, <2>9
<1> QED
  BY <1>5, <1>6 DEF Init

(* A call returns and makes no others. *)
LEMMA AfterDrop ==
  ASSUME work \in Seq(CallSet), Drops
  PROVE  /\ work' \in Seq(CallSet)' /\ Pending' = Rest
         /\ Pending = {Call} \cup Rest
         /\ Len(work) \in Nat \ {0} /\ DOMAIN work = 1 .. Len(work)
         /\ Len(work') = Len(work) - 1 /\ DOMAIN work' = 1 .. Len(work')
         /\ \A i \in 1 .. Len(work') : work'[i] = work[i + 1]
<1> DEFINE calls == <<>>
<1>1. calls \in Seq(CallSet) /\ Len(calls) = 0
  OBVIOUS
<1>2. work # <<>> /\ input' = input /\ Replace(calls)
  BY DEF Drops
<1> HIDE DEF calls
<1>3. /\ work' \in Seq(CallSet)'
      /\ Pending' = Members(calls) \cup Rest
      /\ Pending = {Call} \cup Rest
      /\ Len(work) \in Nat \ {0} /\ DOMAIN work = 1 .. Len(work)
      /\ Len(work') = Len(calls) + Len(work) - 1 /\ DOMAIN work' = 1 .. Len(work')
      /\ \A i \in Len(calls) + 1 .. Len(work') :
           work'[i] = work[i - Len(calls) + 1]
  BY <1>1, <1>2, AfterReplace
<1>4. Len(work') = Len(work) - 1 /\ Members(calls) = {}
  BY <1>1, <1>3 DEF Members
<1>5. ASSUME NEW i \in 1 .. Len(work') PROVE work'[i] = work[i + 1]
  <2>1. i \in Len(calls) + 1 .. Len(work') /\ i - Len(calls) + 1 = i + 1
    BY <1>1
  <2> QED
    BY <1>3, <2>1
<1> QED
  BY <1>1, <1>3, <1>4, <1>5

(* The agents that are being entered, before and after the first call. *)
LEMMA FirstAbove ==
  ASSUME work \in Seq(CallSet), work # <<>>
  PROVE  /\ Call.do = "leave" =>
              Above(work, 0) = {Agent(Call.place)} \cup Above(work, 1)
         /\ Call.do # "leave" => Above(work, 0) = Above(work, 1)
<1>1. Call = work[1] /\ Len(work) \in Nat \ {0}
  BY FirstCall
<1>2. 0 + 1 .. Len(work) = {1} \cup 1 + 1 .. Len(work)
  BY <1>1
<1> QED
  BY <1>1, <1>2 DEF Above

(* The calls made by a call keep to the agents entered. *)
LEMMA CallsKept ==
  ASSUME CallInv, work # <<>>, input' = input,
         NEW calls \in Seq(CallSet), Replace(calls),
         entered \subseteq entered', entered' \subseteq DOMAIN input.requests,
         \A c \in Members(calls) : Owned(c)'
  PROVE  CallInv'
<1>1. /\ work' \in Seq(CallSet)'
      /\ Pending' = Members(calls) \cup Rest /\ Rest \subseteq Pending
  BY AfterReplace DEF CallInv
<1>2. ASSUME NEW c \in Rest PROVE Owned(c)'
  <2>1. Owned(c)
    BY <1>1 DEF CallInv
  <2> QED
    BY <2>1 DEF Owned, IsNext, OfEntered, OfSource
<1> QED
  BY <1>1, <1>2 DEF CallInv

(* The agent of a definition that is entered is none of its ancestors. *)
LEMMA EnterPlace ==
  ASSUME input \in Inputs, CallInv, AncestorInv, Enter
  PROVE  /\ work # <<>> /\ Call.do = "definition" /\ Replace(EnterCalls(Call.place))
         /\ Call.place \in DOMAIN input.requests
         /\ Agent(Call.place) \notin Ancestors(Call.place)
         /\ active = Ancestors(Call.place) /\ active = Above(work, 1)
         /\ Distinct(Call.place, Len(Call.place) - 1)
         /\ active' = active \cup {Agent(Call.place)}
         /\ entered' = entered \cup {Call.place} /\ UNCHANGED <<input, present, visited>>
<1>1. /\ work # <<>> /\ Call.do = "definition" /\ Len(Call.place) - 1 <= MaxDepth
      /\ Agent(Call.place) \notin active /\ Replace(EnterCalls(Call.place))
      /\ active' = active \cup {Agent(Call.place)}
      /\ entered' = entered \cup {Call.place} /\ UNCHANGED <<input, present, visited>>
  BY DEF Enter, Calls, Nesting, EnterCalls, SourceCalls, ChildCalls, disk
<1>2. Call = work[1] /\ Call \in CallSet /\ Call \in Pending /\ 1 \in DOMAIN work
  BY <1>1, FirstCall DEF CallInv
<1>3. Call.place \in AgentPlaces /\ IsNext(Call.place)
  BY <1>1, <1>2 DEF CallInv, Owned, CallSet
<1>4. active = Above(work, 1)
  BY <1>1, FirstAbove DEF AncestorInv, CallInv
<1>5. Above(work, 1) = Ancestors(Call.place) /\ Distinct(Call.place, Len(Call.place) - 1)
  BY <1>1, <1>2 DEF AncestorInv, Placed
<1>6. Call.place \in DOMAIN input.requests
  BY <1>1, <1>3, <1>4, <1>5, PlaceOfNext DEF CallInv
<1> QED
  BY <1>1, <1>4, <1>5, <1>6

(* The calls of Enter. *)
LEMMA EnterOwned ==
  ASSUME input \in Inputs, CallInv, AncestorInv, Enter,
         NEW c \in Members(EnterCalls(Call.place))
  PROVE  Owned(c)'
<1>1. PICK place : place = Call.place
  OBVIOUS
<1>2. /\ place \in DOMAIN input.requests
      /\ entered' = entered \cup {place} /\ UNCHANGED input
  BY <1>1, EnterPlace
<1>3. PICK calls, m, children :
        /\ MadeByEnter(calls, place, m, children)
        /\ calls = EnterCalls(place) /\ m = Len(input.requests[place])
        /\ children = input.children[Agent(place)]
  BY <1>2, CallsOfEnter
<1>4. /\ m \in Nat /\ Len(children) \in Nat
      /\ DOMAIN children = 1 .. Len(children)
      /\ Len(calls) = m + Len(children) + 1
      /\ \A i \in 1 .. m : calls[i] = Source(place, i)
      /\ \A i \in m + 1 .. m + Len(children) :
           calls[i] = Definition(Append(place, children[i - m]))
      /\ calls[m + Len(children) + 1] = Leave(place)
  BY <1>3 DEF MadeByEnter
<1>5. DOMAIN input.requests[place] = 1 .. m
  BY <1>2, <1>3, PlaceFacts
<1>6. PICK i \in 1 .. m + Len(children) + 1 : c = calls[i]
  BY <1>1, <1>3, <1>4 DEF Members
<1>7. place \in entered'
  BY <1>2
<1>8. CASE i \in 1 .. m
  <2>1. c.do = "source" /\ c.place = place /\ c.n \in 1 .. m
    <3>1. c = Source(place, i)
      BY <1>4, <1>6, <1>8
    <3> QED
      BY <1>8, <3>1 DEF Source
  <2> QED
    BY <1>2, <1>5, <1>7, <2>1 DEF Owned, OfEntered, OfSource
<1>9. CASE i \in m + 1 .. m + Len(children)
  <2>1. i - m \in DOMAIN children
    <3>1. m \in Nat /\ Len(children) \in Nat
      BY <1>4
    <3>2. i - m \in 1 .. Len(children)
      BY ONLY <1>9, <3>1
    <3> QED
      BY <1>4, <3>2
  <2>2. c.do = "definition" /\ c.place = Append(place, children[i - m])
    <3>1. c = Definition(Append(place, children[i - m]))
      BY <1>4, <1>6, <1>9
    <3> QED
      BY <3>1 DEF Definition
  <2>3. IsNext(c.place)'
    BY <1>2, <1>3, <1>7, <2>1, <2>2 DEF IsNext, Agent
  <2> QED
    BY <2>2, <2>3 DEF Owned, OfEntered, OfSource
<1>10. CASE i = m + Len(children) + 1
  <2>1. c.do = "leave" /\ c.place = place
    <3>1. c = Leave(place)
      BY <1>4, <1>6, <1>10
    <3> QED
      BY <3>1 DEF Leave
  <2> QED
    BY <1>7, <2>1 DEF Owned, OfEntered, OfSource
<1>11. m \in Nat /\ Len(children) \in Nat
  BY <1>4
<1>12. i \in 1 .. m \/ i \in m + 1 .. m + Len(children) \/ i = m + Len(children) + 1
  BY ONLY <1>11, i \in 1 .. m + Len(children) + 1
<1> QED
  BY <1>8, <1>9, <1>10, <1>12

(* The one visit that a walk begins with. *)
LEMMA BeginCalls ==
  ASSUME input \in Inputs, CallInv, BeginWalk
  PROVE  /\ work # <<>> /\ Call.do = "source" /\ Request.path \in Paths
         /\ visited' = {} /\ UNCHANGED <<input, present, entered, active>>
         /\ \E calls \in Seq(CallSet) :
              /\ Replace(calls) /\ Len(calls) = 1
              /\ calls[1] = Visit(Call.place, Call.n, Request.path, 0)
              /\ Members(calls) = {Visit(Call.place, Call.n, Request.path, 0)}
<1> DEFINE c == Visit(Call.place, Call.n, Request.path, 0)
           calls == <<c>>
<1>1. /\ work # <<>> /\ Call.do = "source" /\ Request.path \in Paths
      /\ visited' = {} /\ Replace(calls) /\ UNCHANGED <<input, present, entered, active>>
  BY DEF BeginWalk, Calls, outer, disk
<1>2. Call \in CallSet
  BY <1>1, FirstCall DEF CallInv
<1>3. 0 \in 0 .. MaxDepth + 1
  BY LimitAssumption
<1>4. c \in CallSet
  BY <1>1, <1>2, <1>3 DEF CallSet, Visit
<1> HIDE DEF c
<1>5. calls \in Seq(CallSet) /\ Len(calls) = 1 /\ calls[1] = c
  BY <1>4
<1>6. Members(calls) = {c}
  BY <1>5 DEF Members
<1> QED
  BY <1>1, <1>5, <1>6 DEF c

LEMMA CallStep ==
  ASSUME input \in Inputs, present \subseteq Paths, CallInv, AncestorInv,
         [Next]_vars
  PROVE  CallInv'
<1>1. CASE Drops
  <2>1. work' \in Seq(CallSet)' /\ Pending' \subseteq Pending
    BY <1>1, AfterDrop DEF CallInv
  <2> QED
    BY <1>1, <2>1 DEF Drops, CallInv, Owned, IsNext, OfEntered, OfSource
<1>2. CASE Still
  <2>1. CallSet' = CallSet /\ Pending' = Pending
    BY <1>2 DEF Still, CallSet, AgentPlaces, Paths, Pending
  <2> QED
    BY <1>2, <2>1 DEF Still, CallInv, Owned, IsNext, OfEntered, OfSource
<1>3. CASE Enter
  <2>1. /\ work # <<>> /\ Replace(EnterCalls(Call.place)) /\ input' = input
        /\ Call.place \in DOMAIN input.requests
        /\ entered' = entered \cup {Call.place}
    BY <1>3, EnterPlace
  <2>2. EnterCalls(Call.place) \in Seq(CallSet)
    BY <2>1, CallsOfEnter DEF MadeByEnter
  <2>3. entered' \subseteq DOMAIN input.requests
    BY <2>1 DEF CallInv
  <2> QED
    BY <1>3, <2>1, <2>2, <2>3, EnterOwned, CallsKept
<1>4. CASE BeginWalk
  <2>1. /\ work # <<>> /\ Call.do = "source" /\ UNCHANGED <<input, entered>>
    BY <1>4, BeginCalls
  <2>2. PICK calls \in Seq(CallSet) :
          /\ Replace(calls)
          /\ Members(calls) = {Visit(Call.place, Call.n, Request.path, 0)}
    BY <1>4, BeginCalls
  <2>3. Owned(Call)
    BY <2>1, FirstCall DEF CallInv
  <2>4. ASSUME NEW c \in Members(calls) PROVE Owned(c)'
    <3>1. c.do = "visit" /\ c.place = Call.place /\ c.n = Call.n
      BY <2>2 DEF Visit
    <3> QED
      BY <2>1, <2>3, <3>1 DEF Owned, OfEntered, OfSource
  <2> QED
    BY <2>1, <2>2, <2>4, CallsKept DEF CallInv
<1>5. CASE Directory
  <2>1. /\ work # <<>> /\ Call.do = "visit" /\ Call.depth <= MaxDepth
        /\ Real \in present /\ Replace(DirectoryCalls) /\ UNCHANGED <<input, entered>>
    BY <1>5 DEF Directory, DirectoryCalls, Meets, Walks, Calls, outer
  <2>2. Call \in CallSet /\ Owned(Call)
    BY <2>1, FirstCall DEF CallInv
  <2>3. /\ DirectoryCalls \in Seq(CallSet)
        /\ \A i \in 1 .. Len(DirectoryCalls) :
             \E p : DirectoryCalls[i] = Visit(Call.place, Call.n, p, Call.depth + 1)
    BY <2>1, <2>2, CallsOfDirectory
  <2>4. ASSUME NEW c \in Members(DirectoryCalls) PROVE Owned(c)'
    <3>1. PICK p : c = Visit(Call.place, Call.n, p, Call.depth + 1)
      BY <2>3 DEF Members
    <3>2. c.do = "visit" /\ c.place = Call.place /\ c.n = Call.n
      BY <3>1 DEF Visit
    <3> QED
      BY <2>1, <2>2, <3>2 DEF Owned, OfEntered, OfSource
  <2> QED
    BY <2>1, <2>3, <2>4, CallsKept DEF CallInv
<1> QED
  BY <1>1, <1>2, <1>3, <1>4, <1>5, StepKinds DEF Return, Drops, Calls, outer, disk

-----------------------------------------------------------------------------
LEMMA VisitsKept ==
  ASSUME work \in Seq(CallSet), work # <<>>, input' = input, VisitsFirst,
         NEW calls \in Seq(CallSet), Replace(calls),
         \A i, j \in 1 .. Len(calls) :
           i <= j /\ calls[j].do = "visit" => SameSource(calls[i], calls[j]),
         \A i \in 1 .. Len(calls), j \in 2 .. Len(work) :
           work[j].do = "visit" => SameSource(calls[i], work[j])
  PROVE  VisitsFirst'
<1>1. /\ Len(work) \in Nat \ {0} /\ DOMAIN work = 1 .. Len(work)
      /\ Len(calls) \in Nat /\ DOMAIN work' = 1 .. Len(work')
      /\ Len(work') = Len(calls) + Len(work) - 1
      /\ \A i \in 1 .. Len(calls) : work'[i] = calls[i]
      /\ \A i \in Len(calls) + 1 .. Len(work') :
           work'[i] = work[i - Len(calls) + 1]
  BY AfterReplace
<1> DEFINE n == Len(calls)
           m == Len(work)
           l == Len(work')
           t == work'
<1> HIDE DEF n, m, l, t
<1>2. /\ n \in Nat /\ m \in Nat \ {0} /\ l = n + m - 1
      /\ \A i \in 1 .. n : t[i] = calls[i]
      /\ \A i \in n + 1 .. l : t[i] = work[i - n + 1]
  BY <1>1 DEF n, m, l, t
<1>3. \A i \in n + 1 .. l : i - n + 1 \in 2 .. m
  BY ONLY <1>2
<1>4. ASSUME NEW i \in 1 .. l, NEW j \in 1 .. l, i <= j, t[j].do = "visit"
      PROVE  SameSource(t[i], t[j])
  <2>1. CASE j \in 1 .. n
    <3>1. i \in 1 .. n
      BY <1>2, <1>4, <2>1
    <3> QED
      BY <1>2, <1>4, <2>1, <3>1 DEF n
  <2>2. CASE j \in n + 1 .. l
    <3>1. t[j] = work[j - n + 1] /\ j - n + 1 \in 2 .. m
      BY <1>2, <1>3, <2>2
    <3>2. CASE i \in 1 .. n
      BY <1>2, <1>4, <3>1, <3>2 DEF n, m
    <3>3. CASE i \in n + 1 .. l
      <4>1. t[i] = work[i - n + 1] /\ i - n + 1 \in 2 .. m
        BY <1>2, <1>3, <3>3
      <4>2. i - n + 1 <= j - n + 1
        BY <1>2, <1>4
      <4>3. i - n + 1 \in DOMAIN work /\ j - n + 1 \in DOMAIN work
        BY <1>1, <3>1, <4>1 DEF m
      <4> QED
        BY <1>4, <3>1, <4>1, <4>2, <4>3 DEF VisitsFirst
    <3> QED
      BY <1>2, <3>2, <3>3
  <2> QED
    BY <1>2, <2>1, <2>2
<1> QED
  BY <1>1, <1>4 DEF VisitsFirst, SameSource, l, t

(* Only visits come before a visit. *)
LEMMA NoVisitLater ==
  ASSUME work \in Seq(CallSet), work # <<>>, VisitsFirst, Call.do # "visit",
         NEW j \in 2 .. Len(work)
  PROVE  work[j].do # "visit"
BY FirstCall DEF VisitsFirst, SameSource

(* Entering an agent visits nothing yet. *)
LEMMA NoVisits ==
  ASSUME NEW calls, NEW place, NEW m, NEW children,
         MadeByEnter(calls, place, m, children)
  PROVE  \A c \in Members(calls) : c.do # "visit"
<1>1. /\ m \in Nat /\ Len(children) \in Nat
      /\ Len(calls) = m + Len(children) + 1
      /\ \A k \in 1 .. m : calls[k] = Source(place, k)
      /\ \A k \in m + 1 .. m + Len(children) :
           calls[k] = Definition(Append(place, children[k - m]))
      /\ calls[m + Len(children) + 1] = Leave(place)
  BY DEF MadeByEnter
<1>2. \A p, k : /\ Source(p, k).do # "visit" /\ Definition(p).do # "visit"
               /\ Leave(p).do # "visit"
  BY DEF Source, Definition, Leave
<1>3. ASSUME NEW i \in 1 .. Len(calls) PROVE calls[i].do # "visit"
  <2>1. i \in 1 .. m \/ i \in m + 1 .. m + Len(children) \/ i = m + Len(children) + 1
    BY <1>1
  <2> QED
    BY <1>1, <1>2, <2>1
<1> QED
  BY <1>3 DEF Members

LEMMA VisitsStep ==
  ASSUME input \in Inputs, present \subseteq Paths, CallInv, AncestorInv,
         VisitsFirst, [Next]_vars
  PROVE  VisitsFirst'
<1>1. CASE Drops
  <2>1. work # <<>> /\ input' = input /\ Replace(<<>>) /\ <<>> \in Seq(CallSet)
    BY <1>1 DEF Drops
  <2>2. Len(<<>>) = 0 /\ 1 .. 0 = {}
    OBVIOUS
  <2> QED
    BY <2>1, <2>2, VisitsKept DEF CallInv
<1>2. CASE Still
  BY <1>2 DEF Still, VisitsFirst, SameSource
<1>3. CASE Enter
  <2>1. PICK place : place = Call.place
    OBVIOUS
  <2>2. /\ place \in DOMAIN input.requests /\ work # <<>> /\ Call.do = "definition"
        /\ Replace(EnterCalls(place)) /\ UNCHANGED input
    BY <1>3, <2>1, EnterPlace
  <2>3. PICK calls, m, children : MadeByEnter(calls, place, m, children) /\ calls = EnterCalls(place)
    BY <2>2, CallsOfEnter
  <2>4. \A i \in 1 .. Len(calls) : calls[i].do # "visit"
    BY <2>3, NoVisits DEF Members
  <2>5. \A j \in 2 .. Len(work) : work[j].do # "visit"
    BY <2>2, NoVisitLater DEF CallInv
  <2>6. calls \in Seq(CallSet)
    BY <2>3 DEF MadeByEnter
  <2> QED
    BY <2>2, <2>3, <2>4, <2>5, <2>6, VisitsKept DEF CallInv
<1>4. CASE BeginWalk
  <2>1. work # <<>> /\ Call.do = "source" /\ UNCHANGED input
    BY <1>4, BeginCalls
  <2>2. PICK calls \in Seq(CallSet) :
          /\ Replace(calls) /\ Len(calls) = 1
          /\ calls[1] = Visit(Call.place, Call.n, Request.path, 0)
    BY <1>4, BeginCalls
  <2>3. \A j \in 2 .. Len(work) : work[j].do # "visit"
    BY <2>1, NoVisitLater DEF CallInv
  <2>4. \A i \in 1 .. Len(calls) : i = 1
    BY <2>2
  <2>5. SameSource(calls[1], calls[1])
    BY <2>2 DEF SameSource, Visit
  <2> QED
    BY <2>1, <2>2, <2>3, <2>4, <2>5, VisitsKept DEF CallInv
<1>5. CASE Directory
  <2>1. /\ work # <<>> /\ Call.do = "visit" /\ Call.depth <= MaxDepth
        /\ Real \in present /\ Replace(DirectoryCalls) /\ UNCHANGED input
    BY <1>5 DEF Directory, DirectoryCalls, Meets, Walks, Calls, outer
  <2>2. /\ Call \in CallSet /\ Call = work[1]
        /\ Len(work) \in Nat \ {0} /\ DOMAIN work = 1 .. Len(work)
    BY <2>1, FirstCall DEF CallInv
  <2>3. PICK calls \in Seq(CallSet) :
          /\ calls = DirectoryCalls
          /\ \A i \in 1 .. Len(calls) :
               \E p : calls[i] = Visit(Call.place, Call.n, p, Call.depth + 1)
    BY <2>1, <2>2, CallsOfDirectory
  <2>4. ASSUME NEW i \in 1 .. Len(calls) PROVE SameSource(calls[i], Call)
    <3>1. PICK p : calls[i] = Visit(Call.place, Call.n, p, Call.depth + 1)
      BY <2>3
    <3> QED
      BY <3>1 DEF Visit, SameSource
  <2>5. ASSUME NEW j \in 2 .. Len(work), work[j].do = "visit"
        PROVE  SameSource(Call, work[j])
    <3>1. 1 \in DOMAIN work /\ j \in DOMAIN work /\ 1 <= j
      BY <2>2
    <3> QED
      BY <2>2, <2>5, <3>1 DEF VisitsFirst
  <2>6. \A i, j \in 1 .. Len(calls) : SameSource(calls[i], calls[j])
    BY <2>4 DEF SameSource
  <2>7. \A i \in 1 .. Len(calls), j \in 2 .. Len(work) :
          work[j].do = "visit" => SameSource(calls[i], work[j])
    BY <2>4, <2>5 DEF SameSource
  <2> QED
    BY <2>1, <2>3, <2>6, <2>7, VisitsKept DEF CallInv
<1> QED
  BY <1>1, <1>2, <1>3, <1>4, <1>5, StepKinds DEF Return, Drops, Calls, outer, disk

-----------------------------------------------------------------------------
(* Above, after a call has been replaced. *)
LEMMA AboveAfter ==
  ASSUME work \in Seq(CallSet), work # <<>>, input' = input,
         NEW calls \in Seq(CallSet), Replace(calls)
  PROVE  /\ \A j \in 1 .. Len(work) :
              Above(work', Len(calls) + j - 1) = Above(work, j)
         /\ \A i \in 0 .. Len(calls) :
              Above(work', i) = Above(calls, i) \cup Above(work, 1)
<1>1. PICK t : t = work'
  OBVIOUS
<1>2. PICK s : s = work
  OBVIOUS
<1>3. /\ Len(s) \in Nat \ {0} /\ Len(calls) \in Nat
      /\ Len(t) = Len(calls) + Len(s) - 1
      /\ \A i \in 1 .. Len(calls) : t[i] = calls[i]
      /\ \A i \in Len(calls) + 1 .. Len(t) : t[i] = s[i - Len(calls) + 1]
  BY <1>1, <1>2, AfterReplace
<1> DEFINE c == Len(calls)
           n == Len(s)
           l == Len(t)
<1> HIDE DEF c, n, l
<1>4. /\ n \in Nat \ {0} /\ c \in Nat /\ l = c + n - 1
      /\ \A i \in 1 .. c : t[i] = calls[i]
      /\ \A i \in c + 1 .. l : t[i] = s[i - c + 1]
  BY <1>3 DEF c, n, l
<1> DEFINE Leaves(u, from, to) ==
             {Agent(u[k].place) : k \in {m \in from .. to : u[m].do = "leave"}}
<1>5. \A j : Above(s, j) = Leaves(s, j + 1, n) /\ Above(calls, j) = Leaves(calls, j + 1, c)
            /\ Above(t, j) = Leaves(t, j + 1, l)
  BY DEF Above, c, n, l
<1>6. ASSUME NEW j \in 1 .. n
      PROVE  Leaves(t, c + j, l) = Leaves(s, j + 1, n)
  <2>1. ASSUME NEW k \in c + j .. l, t[k].do = "leave"
        PROVE  \E m \in j + 1 .. n : s[m].do = "leave" /\ s[m] = t[k]
    <3>1. k - c + 1 \in j + 1 .. n /\ k \in c + 1 .. l
      BY ONLY <1>4, j \in 1 .. n, k \in c + j .. l
    <3> QED
      BY <1>4, <2>1, <3>1
  <2>2. ASSUME NEW m \in j + 1 .. n, s[m].do = "leave"
        PROVE  \E k \in c + j .. l : t[k].do = "leave" /\ s[m] = t[k]
    <3>1. /\ m + c - 1 \in c + j .. l /\ m + c - 1 \in c + 1 .. l
          /\ (m + c - 1) - c + 1 = m
      BY ONLY <1>4, j \in 1 .. n, m \in j + 1 .. n
    <3>2. t[m + c - 1] = s[m]
      BY <1>4, <3>1
    <3> QED
      BY <2>2, <3>1, <3>2
  <2>3. ASSUME NEW a \in Leaves(t, c + j, l) PROVE a \in Leaves(s, j + 1, n)
    <3>1. PICK k \in c + j .. l : t[k].do = "leave" /\ a = Agent(t[k].place)
      OBVIOUS
    <3> QED
      BY <2>1, <3>1
  <2>4. ASSUME NEW a \in Leaves(s, j + 1, n) PROVE a \in Leaves(t, c + j, l)
    <3>1. PICK m \in j + 1 .. n : s[m].do = "leave" /\ a = Agent(s[m].place)
      OBVIOUS
    <3> QED
      BY <2>2, <3>1
  <2> QED
    BY <2>3, <2>4
<1>7. ASSUME NEW i \in 0 .. c
      PROVE  Leaves(t, i + 1, l) = Leaves(calls, i + 1, c) \cup Leaves(t, c + 1, l)
  <2>1. i + 1 .. l = i + 1 .. c \cup c + 1 .. l
    BY <1>4
  <2>2. \A k \in i + 1 .. c : t[k] = calls[k]
    BY <1>4
  <2> QED
    BY <2>1, <2>2
<1>8. ASSUME NEW j \in 1 .. n PROVE Above(t, c + j - 1) = Above(s, j)
  <2>1. (c + j - 1) + 1 = c + j
    BY <1>4
  <2> QED
    BY <1>5, <1>6, <2>1
<1>9. ASSUME NEW i \in 0 .. c PROVE Above(t, i) = Above(calls, i) \cup Above(s, 1)
  <2>1. 1 \in 1 .. n
    BY <1>4
  <2>2. Leaves(t, c + 1, l) = Leaves(s, 1 + 1, n)
    BY <1>6, <2>1
  <2> HIDE DEF Leaves
  <2>3. Above(t, i) = Leaves(t, i + 1, l) /\ Above(calls, i) = Leaves(calls, i + 1, c)
        /\ Above(s, 1) = Leaves(s, 1 + 1, n)
    BY <1>5, Zenon
  <2> QED
    BY <1>7, <2>2, <2>3
<1> QED
  BY <1>1, <1>2, <1>8, <1>9 DEF c, n

LEMMA AncestorsKept ==
  ASSUME work \in Seq(CallSet), work # <<>>, input' = input, AncestorInv,
         NEW calls \in Seq(CallSet), Replace(calls),
         active' = Above(calls, 0) \cup Above(work, 1),
         \A i \in 1 .. Len(calls) : Placed(calls[i], Above(calls, i) \cup Above(work, 1))
  PROVE  AncestorInv'
<1>1. PICK t : t = work'
  OBVIOUS
<1>2. /\ Len(work) \in Nat \ {0} /\ DOMAIN work = 1 .. Len(work)
      /\ Len(calls) \in Nat /\ DOMAIN t = 1 .. Len(t)
      /\ Len(t) = Len(calls) + Len(work) - 1
      /\ \A i \in 1 .. Len(calls) : t[i] = calls[i]
      /\ \A i \in Len(calls) + 1 .. Len(t) : t[i] = work[i - Len(calls) + 1]
  BY <1>1, AfterReplace
<1>3. /\ \A j \in 1 .. Len(work) : Above(t, Len(calls) + j - 1) = Above(work, j)
      /\ \A i \in 0 .. Len(calls) : Above(t, i) = Above(calls, i) \cup Above(work, 1)
  BY <1>1, AboveAfter
<1>4. active' = Above(t, 0)
  BY <1>2, <1>3
<1>5. ASSUME NEW i \in 1 .. Len(t) PROVE Placed(t[i], Above(t, i))
  <2>1. CASE i \in 1 .. Len(calls)
    <3>1. i \in 0 .. Len(calls)
      BY <2>1
    <3>2. t[i] = calls[i] /\ Above(t, i) = Above(calls, i) \cup Above(work, 1)
      BY <1>2, <1>3, <2>1, <3>1
    <3> QED
      BY <2>1, <3>2
  <2>2. CASE i \in Len(calls) + 1 .. Len(t)
    <3>0. i - Len(calls) + 1 \in 1 .. Len(work)
      <4>1. PICK c, n, l : c = Len(calls) /\ n = Len(work) /\ l = Len(t)
        OBVIOUS
      <4>2. c \in Nat /\ n \in Nat /\ l = c + n - 1 /\ i \in c + 1 .. l
        BY ONLY <1>2, <2>2, <4>1
      <4>3. i - c + 1 \in 1 .. n
        BY ONLY <4>2
      <4> QED
        BY <4>1, <4>3
    <3>1. PICK j \in 1 .. Len(work) : j = i - Len(calls) + 1
      BY <3>0
    <3>2. Len(calls) + j - 1 = i
      BY <1>2, <3>1
    <3>3. t[i] = work[j] /\ Above(t, i) = Above(work, j)
      BY <1>2, <1>3, <2>2, <3>1, <3>2
    <3> QED
      BY <1>2, <3>3 DEF AncestorInv
  <2> QED
    BY <1>2, <2>1, <2>2
<1> QED
  BY <1>1, <1>2, <1>4, <1>5 DEF AncestorInv, Placed

(* Lists of calls that enter and leave nothing. *)
LEMMA NothingAbove ==
  ASSUME NEW calls, \A i \in 1 .. Len(calls) : calls[i].do \notin {"definition", "leave"},
         NEW above
  PROVE  /\ \A i \in 0 .. Len(calls) : Above(calls, i) = {}
         /\ \A i \in 1 .. Len(calls) : Placed(calls[i], above)
<1>1. ASSUME NEW i \in 0 .. Len(calls), NEW k \in i + 1 .. Len(calls)
      PROVE  calls[k].do # "leave"
  <2>1. k \in 1 .. Len(calls)
    OBVIOUS
  <2> QED
    BY <2>1
<1> QED
  BY <1>1 DEF Above, Placed

(* An agent none of whose ancestors it is extends their path. *)
LEMMA PlaceExtended ==
  ASSUME NEW A, NEW place \in Seq(A), place # <<>>, NEW child \in A,
         Distinct(place, Len(place) - 1), Agent(place) \notin Ancestors(place)
  PROVE  /\ Distinct(place, Len(place))
         /\ Len(Append(place, child)) - 1 = Len(place)
         /\ Distinct(Append(place, child), Len(place))
         /\ Ancestors(Append(place, child)) = Ancestors(place) \cup {Agent(place)}
<1>1. Len(place) \in Nat \ {0}
  BY LenProperties, EmptySeq
<1>2. /\ Len(Append(place, child)) = Len(place) + 1
      /\ \A i \in 1 .. Len(place) : Append(place, child)[i] = place[i]
  BY AppendProperties
<1>3. Distinct(place, Len(place))
  BY <1>1 DEF Distinct, Agent, Ancestors
<1>4. 1 .. Len(place) = 1 .. Len(place) - 1 \cup {Len(place)}
  BY <1>1
<1>5. Ancestors(place) \cup {Agent(place)} = {place[i] : i \in 1 .. Len(place)}
  BY <1>4 DEF Ancestors, Agent
<1>6. Len(Append(place, child)) - 1 = Len(place)
  BY <1>1, <1>2
<1>7. Ancestors(Append(place, child)) = {place[i] : i \in 1 .. Len(place)}
  BY <1>2, <1>6 DEF Ancestors
<1>8. Distinct(Append(place, child), Len(place))
  BY <1>2, <1>3 DEF Distinct
<1> QED
  BY <1>3, <1>5, <1>6, <1>7, <1>8

LEMMA EnterAncestors ==
  ASSUME input \in Inputs, CallInv, AncestorInv, Enter
  PROVE  AncestorInv'
<1>1. PICK place : place = Call.place
  OBVIOUS
<1>2. /\ work # <<>> /\ Replace(EnterCalls(place)) /\ place \in DOMAIN input.requests
      /\ Agent(place) \notin Ancestors(place) /\ active = Ancestors(place)
      /\ active = Above(work, 1) /\ Distinct(place, Len(place) - 1)
      /\ active' = active \cup {Agent(place)} /\ input' = input
  BY <1>1, EnterPlace
<1>3. PICK calls, m, children :
        /\ MadeByEnter(calls, place, m, children)
        /\ calls = EnterCalls(place) /\ children = input.children[Agent(place)]
  BY <1>2, CallsOfEnter
<1>4. /\ place \in Seq(DOMAIN input.children) /\ place # <<>>
      /\ children \in Seq(DOMAIN input.children)
  BY <1>2, <1>3, PlaceFacts DEF AgentPlaces
<1> DEFINE n == Len(children)
           l == m + n + 1
<1>5. /\ m \in Nat /\ n \in Nat /\ DOMAIN children = 1 .. n
      /\ calls \in Seq(CallSet) /\ Len(calls) = l
      /\ \A i \in 1 .. m : calls[i] = Source(place, i)
      /\ \A i \in m + 1 .. m + n :
           calls[i] = Definition(Append(place, children[i - m]))
      /\ calls[l] = Leave(place)
  BY <1>3 DEF MadeByEnter
<1> HIDE DEF n
<1>6. \A i \in 1 .. l : i \in 1 .. m \/ i \in m + 1 .. m + n \/ i = l
  BY ONLY <1>5
<1>7. \A p, k : /\ Source(p, k).do = "source"
               /\ Definition(p).do = "definition" /\ Definition(p).place = p
               /\ Leave(p).do = "leave" /\ Leave(p).place = p
  BY DEF Source, Definition, Leave
<1>8. ASSUME NEW i \in 0 .. l - 1 PROVE Above(calls, i) = {Agent(place)}
  <2>1. l \in i + 1 .. l
    BY ONLY <1>5, i \in 0 .. l - 1
  <2>2. \A k \in i + 1 .. l : k \in 1 .. l
    BY ONLY <1>5, i \in 0 .. l - 1
  <2>3. \A k \in i + 1 .. l : calls[k].do = "leave" => k = l
    BY <1>5, <1>6, <1>7, <2>2
  <2>4. calls[l].do = "leave" /\ calls[l].place = place
    BY <1>5, <1>7
  <2> HIDE DEF l
  <2>5. {k \in i + 1 .. l : calls[k].do = "leave"} = {l}
    BY <2>1, <2>3, <2>4
  <2>6. Len(calls) = l
    BY <1>5 DEF l
  <2> QED
    BY <2>4, <2>5, <2>6 DEF Above
<1>9. Above(calls, l) = {}
  <2>1. l + 1 .. l = {}
    BY ONLY <1>5
  <2> QED
    BY <1>5, <2>1 DEF Above
<1>10. ASSUME NEW i \in 1 .. l
       PROVE  Placed(calls[i], Above(calls, i) \cup Above(work, 1))
  <2>1. CASE i \in 1 .. m
    <3>1. calls[i].do = "source"
      BY <1>5, <1>7, <2>1
    <3> QED
      BY <3>1 DEF Placed
  <2>2. CASE i \in m + 1 .. m + n
    <3>1. i - m \in 1 .. n /\ i \in 0 .. l - 1
      BY ONLY <1>5, <2>2
    <3>2. children[i - m] \in DOMAIN input.children
      BY <1>4, <3>1, ElementOfSeq DEF n
    <3>3. PICK next : next = Append(place, children[i - m])
      OBVIOUS
    <3>4. /\ Len(next) - 1 = Len(place) /\ Distinct(next, Len(place))
          /\ Ancestors(next) = Ancestors(place) \cup {Agent(place)}
      BY <1>2, <1>4, <3>2, <3>3, PlaceExtended
    <3>5. calls[i].do = "definition" /\ calls[i].place = next
      BY <1>5, <1>7, <2>2, <3>3
    <3>6. Above(calls, i) \cup Above(work, 1) = Ancestors(next)
      BY <1>2, <1>8, <3>1, <3>4
    <3> QED
      BY <3>4, <3>5, <3>6 DEF Placed
  <2>3. CASE i = l
    <3>1. PICK child : child \in DOMAIN input.children
      BY <1>2, PlaceFacts
    <3>2. Distinct(place, Len(place))
      BY <1>2, <1>4, <3>1, PlaceExtended
    <3>3. calls[i].do = "leave" /\ calls[i].place = place
      BY <1>5, <1>7, <2>3
    <3>4. Above(calls, i) \cup Above(work, 1) = Ancestors(place)
      BY <1>2, <1>9, <2>3
    <3> QED
      BY <1>2, <3>2, <3>3, <3>4 DEF Placed
  <2> QED
    BY <1>6, <2>1, <2>2, <2>3
<1>11. active' = Above(calls, 0) \cup Above(work, 1)
  <2>1. 0 \in 0 .. l - 1
    BY ONLY <1>5
  <2> QED
    BY <1>2, <1>8, <2>1
<1> QED
  BY <1>2, <1>3, <1>5, <1>10, <1>11, AncestorsKept DEF CallInv

LEMMA AncestorStep ==
  ASSUME input \in Inputs, present \subseteq Paths, CallInv, AncestorInv,
         [Next]_vars
  PROVE  AncestorInv'
<1> USE DEF CallInv
<1>1. CASE Drops /\ Call.do # "leave" /\ UNCHANGED active
  <2>1. work # <<>> /\ input' = input /\ Replace(<<>>) /\ <<>> \in Seq(CallSet)
    BY <1>1 DEF Drops
  <2>2. Len(<<>>) = 0 /\ 1 .. 0 = {} /\ Above(<<>>, 0) = {}
    BY DEF Above
  <2>3. active' = Above(work, 1)
    BY <1>1, <2>1, FirstAbove DEF AncestorInv
  <2> QED
    BY <2>1, <2>2, <2>3, AncestorsKept
<1>2. CASE Still
  BY <1>2 DEF Still, AncestorInv
<1>3. CASE Return
  <2>1. /\ work # <<>> /\ input' = input /\ Replace(<<>>) /\ <<>> \in Seq(CallSet)
        /\ Call.do = "leave" /\ active' = active \ {Agent(Call.place)}
    BY <1>3 DEF Return, Calls
  <2>2. Len(<<>>) = 0 /\ 1 .. 0 = {} /\ Above(<<>>, 0) = {}
    BY DEF Above
  <2>3. Call = work[1] /\ 1 \in DOMAIN work /\ Call \in CallSet
    BY <2>1, FirstCall
  <2>4. active = {Agent(Call.place)} \cup Above(work, 1)
    BY <2>1, FirstAbove DEF AncestorInv
  <2>5. Above(work, 1) = Ancestors(Call.place) /\ Distinct(Call.place, Len(Call.place))
    BY <2>1, <2>3 DEF AncestorInv, Placed
  <2>6. Agent(Call.place) \notin Ancestors(Call.place)
    <3>1. Call.place \in AgentPlaces
      BY <2>1, <2>3 DEF CallSet
    <3>2. PICK place : place = Call.place
      OBVIOUS
    <3>3. Len(place) \in Nat \ {0}
      BY <3>1, <3>2, LenProperties, EmptySeq DEF AgentPlaces
    <3>4. Distinct(place, Len(place))
      BY <2>5, <3>2
    <3>5. Agent(place) \notin Ancestors(place)
      BY <3>3, <3>4 DEF Agent, Ancestors, Distinct
    <3> QED
      BY <3>2, <3>5
  <2>7. active' = Above(work, 1)
    BY <2>1, <2>4, <2>5, <2>6
  <2> QED
    BY <2>1, <2>2, <2>7, AncestorsKept
<1>4. CASE BeginWalk
  <2>1. work # <<>> /\ Call.do = "source" /\ UNCHANGED <<input, active>>
    BY <1>4, BeginCalls
  <2>2. PICK calls \in Seq(CallSet) :
          /\ Replace(calls) /\ Len(calls) = 1
          /\ calls[1] = Visit(Call.place, Call.n, Request.path, 0)
    BY <1>4, BeginCalls
  <2>3. active' = Above(work, 1)
    BY <2>1, FirstAbove DEF AncestorInv
  <2>4. \A i \in 1 .. Len(calls) : calls[i].do \notin {"definition", "leave"}
    BY <2>2 DEF Visit
  <2>5. 0 \in 0 .. Len(calls)
    BY <2>2
  <2> QED
    BY <2>1, <2>2, <2>3, <2>4, <2>5, NothingAbove, AncestorsKept
<1>5. CASE Directory
  <2>1. /\ work # <<>> /\ Call.do = "visit" /\ Call.depth <= MaxDepth
        /\ Real \in present /\ Replace(DirectoryCalls) /\ UNCHANGED <<input, active>>
    BY <1>5 DEF Directory, DirectoryCalls, Meets, Walks, Calls, outer
  <2>2. Call \in CallSet
    BY <2>1, FirstCall
  <2>3. PICK calls \in Seq(CallSet) :
          /\ calls = DirectoryCalls
          /\ \A i \in 1 .. Len(calls) :
               \E p : calls[i] = Visit(Call.place, Call.n, p, Call.depth + 1)
    BY <2>1, <2>2, CallsOfDirectory
  <2>4. ASSUME NEW i \in 1 .. Len(calls)
        PROVE  calls[i].do \notin {"definition", "leave"}
    <3>1. PICK p : calls[i] = Visit(Call.place, Call.n, p, Call.depth + 1)
      BY <2>3
    <3> QED
      BY <3>1 DEF Visit
  <2>5. active' = Above(work, 1)
    BY <2>1, FirstAbove DEF AncestorInv
  <2>6. 0 \in 0 .. Len(calls)
    BY LenProperties
  <2> QED
    BY <2>1, <2>3, <2>4, <2>5, <2>6, NothingAbove, AncestorsKept
<1>6. CASE Enter
  BY <1>6, EnterAncestors
<1> QED
  BY <1>1, <1>2, <1>3, <1>4, <1>5, <1>6, StepKinds
-----------------------------------------------------------------------------
Walking == Inv /\ CallInv /\ VisitsFirst /\ AncestorInv

LEMMA WalkingInit == Init => Walking
BY InitInv, InitCalls DEF Walking

LEMMA WalkingStep == ASSUME Walking, [Next]_vars PROVE Walking'
BY NextInv, CallStep, VisitsStep, AncestorStep DEF Walking, Inv, Types

LEMMA WalkingHolds == Spec => []Walking
BY WalkingInit, WalkingStep, PTL DEF Spec

(* The calls that report a recursion or a walk that is too deep. *)
LEMMA NewDiagnostics ==
  ASSUME Walking, [Next]_vars, NEW d \in diagnostics', d \notin diagnostics
  PROVE  /\ d.what = "recursive" => Recursive /\ d.call = Call
         /\ d.what = "tooDeep" => TooDeep /\ d.call = Call
<1>1. CASE DiscoverDefinition
  <2>1. CASE TooNested \/ Recursive
    BY <2>1 DEF TooNested, Recursive, Refuse, Report
  <2>2. CASE Enter
    <3>1. Call.place \in DOMAIN input.requests /\ input \in Inputs
      BY <2>2, EnterPlace DEF Walking, Inv, Types
    <3>2. input.flaws[Call.place] \subseteq Flaws
      BY <3>1, PlaceFacts
    <3>3. d.what \in Flaws
      BY <2>2, <3>2 DEF Enter
    <3> QED
      BY <3>3 DEF Flaws
  <2>3. CASE Return
    BY <2>3 DEF Return
  <2> QED
    BY <1>1, <2>1, <2>2, <2>3 DEF DiscoverDefinition
<1>2. CASE DiscoverSources
  BY <1>2
  DEF DiscoverSources, Escapes, BeginWalk, Skip, Refuse, Report, Ignore
<1>3. CASE WalkSource
  <2>1. CASE TooDeep \/ Missing \/ PassOver \/ Unresolved \/ Outside
    BY <2>1
    DEF TooDeep, Missing, PassOver, Unresolved, Outside, Refuse, Report, Ignore
  <2>2. CASE Directory \/ VisitedBefore \/ NotRegular \/ StatTooLarge
               \/ StatExhausts \/ StatFits
    BY <2>2
    DEF Directory, VisitedBefore, NotRegular, StatTooLarge, StatExhausts,
        StatFits, Refuse, Report, Ignore, Exhaust
  <2>3. CASE ReadFails \/ ReadTooLarge \/ ReadExhausts \/ ReadCounts \/ Fails
    BY <2>3
    DEF ReadFails, ReadTooLarge, ReadExhausts, ReadCounts, Fails, Refuse,
        Report, Exhaust
  <2> QED
    BY <1>3, <2>1, <2>2, <2>3 DEF WalkSource
<1>4. CASE Discovered \/ WriteManifest \/ Environment
  BY <1>4 DEF Discovered, WriteManifest, Environment, Grow, Remove, walk
<1>5. CASE Stopped \/ UNCHANGED vars
  BY <1>5 DEF Stopped, vars
<1> QED
  BY <1>1, <1>2, <1>3, <1>4, <1>5 DEF Next

LEMMA RecursionStep ==
  ASSUME Walking, RecursionIsReal, [Next]_vars
  PROVE  RecursionIsReal'
<1>1. input \in Inputs
  BY DEF Walking, Inv, Types
<1>2. ASSUME NEW d \in diagnostics', d.what = "recursive"
      PROVE  \E i \in 1 .. Len(d.call.place) - 1 :
               d.call.place[i] = d.call.place[Len(d.call.place)]
  <2>1. CASE d \in diagnostics
    BY <1>2, <2>1 DEF RecursionIsReal, Agent
  <2>2. CASE d \notin diagnostics
    <3>1. Recursive /\ d.call = Call
      BY <1>2, <2>2, NewDiagnostics
    <3>2. work # <<>> /\ Call.do = "definition" /\ Agent(Call.place) \in active
      BY <3>1 DEF Recursive, Calls
    <3>3. Call = work[1] /\ 1 \in DOMAIN work
      BY <3>2, FirstCall DEF Walking, CallInv
    <3>4. active = Above(work, 1)
      BY <3>2, FirstAbove DEF Walking, CallInv, AncestorInv
    <3>5. Above(work, 1) = Ancestors(Call.place)
      BY <3>2, <3>3 DEF Walking, AncestorInv, Placed
    <3> QED
      BY <3>1, <3>2, <3>4, <3>5 DEF Ancestors, Agent
  <2> QED
    BY <2>1, <2>2
<1>3. ASSUME NEW place \in entered'
      PROVE  \A i, j \in DOMAIN place : place[i] = place[j] => i = j
  <2>1. CASE place \in entered
    BY <2>1 DEF RecursionIsReal
  <2>2. CASE place \notin entered
    <3>1. Enter
      BY <2>2, StepKinds DEF Drops, Return, BeginWalk, Directory, Still, outer
    <3>2. place = Call.place /\ place \in DOMAIN input.requests
      BY <1>1, <2>2, <3>1, EnterPlace DEF Walking
    <3>3. /\ place \in Seq(DOMAIN input.children) /\ place # <<>>
          /\ Agent(place) \in DOMAIN input.children /\ DOMAIN place = 1 .. Len(place)
      BY <1>1, <3>2, PlaceFacts DEF AgentPlaces
    <3>4. Distinct(place, Len(place) - 1) /\ Agent(place) \notin Ancestors(place)
      BY <1>1, <3>1, <3>2, EnterPlace DEF Walking
    <3>5. Distinct(place, Len(place))
      BY <3>3, <3>4, PlaceExtended
    <3> QED
      BY <3>3, <3>5 DEF Distinct
  <2> QED
    BY <2>1, <2>2
<1> QED
  BY <1>2, <1>3 DEF RecursionIsReal, Agent

(* A definition is reported recursive only below itself, and none is       *)
(* discovered below itself: activeDefinitions holds, at every call, the    *)
(* agents above it, and its deletion in the finally block restores that.   *)
THEOREM RecursionReal == Spec => []RecursionIsReal
<1>1. Init => RecursionIsReal
  BY DEF Init, RecursionIsReal
<1>2. Walking /\ RecursionIsReal /\ [Next]_vars => RecursionIsReal'
  BY RecursionStep
<1> QED
  BY <1>1, <1>2, WalkingHolds, PTL DEF Spec

-----------------------------------------------------------------------------
Others ==
  /\ visited \subseteq Paths
  /\ exhausted \in BOOLEAN
  /\ pc \in {"discover", "write", "compiled", "rejected"}
  /\ manifest \in {"previous", "new"}
  /\ changes \in 0 .. MaxChanges

LEMMA OthersInit == Init => Others
<1>1. 0 \in 0 .. MaxChanges
  BY LimitAssumption
<1> QED
  BY <1>1 DEF Init, Others

LEMMA OthersStep == ASSUME Walking, Others, [Next]_vars PROVE Others'
<1> USE DEF Others
<1>1. Paths' = Paths
  BY StepKinds DEF Drops, Return, Enter, BeginWalk, Directory, Still, outer, Paths
<1>2. changes + 1 \in 0 .. MaxChanges \/ ~ (changes < MaxChanges)
  BY LimitAssumption
<1>3. CASE DiscoverDefinition
  BY <1>1, <1>3
  DEF DiscoverDefinition, TooNested, Recursive, Enter, Return, Refuse, outer,
      counts
<1>4. CASE DiscoverSources
  BY <1>1, <1>4
  DEF DiscoverSources, Escapes, BeginWalk, Skip, Refuse, Ignore, outer, counts
<1>5. CASE WalkSource
  <2>1. CASE TooDeep \/ Missing \/ PassOver \/ Unresolved \/ Outside
    BY <1>1, <2>1
    DEF TooDeep, Missing, PassOver, Unresolved, Outside, Refuse, Ignore, outer,
        counts
  <2>2. CASE Directory
    <3>1. Real \in Paths
      BY <2>2 DEF Directory, Meets, Walking, Inv, Types
    <3> QED
      BY <1>1, <2>2, <3>1 DEF Directory, outer, counts
  <2>3. CASE VisitedBefore \/ NotRegular \/ StatTooLarge \/ StatExhausts \/ StatFits
    BY <1>1, <2>3
    DEF VisitedBefore, NotRegular, StatTooLarge, StatExhausts, StatFits,
        Refuse, Ignore, Exhaust, outer, counts
  <2>4. CASE ReadFails \/ ReadTooLarge \/ ReadExhausts \/ ReadCounts
    BY <1>1, <2>4
    DEF ReadFails, ReadTooLarge, ReadExhausts, ReadCounts, Refuse, Exhaust,
        outer, counts
  <2>5. CASE Fails
    BY <1>1, <1>2, <2>5 DEF Fails, outer, counts
  <2> QED
    BY <1>5, <2>1, <2>2, <2>3, <2>4, <2>5 DEF WalkSource
<1>6. CASE Discovered \/ WriteManifest
  BY <1>1, <1>6 DEF Discovered, WriteManifest, walk, counts
<1>7. CASE Environment
  BY <1>1, <1>2, <1>7 DEF Environment, Grow, Remove, walk, counts
<1>8. CASE Stopped \/ UNCHANGED vars
  BY <1>1, <1>8 DEF Stopped, vars, outer, counts
<1> QED
  BY <1>3, <1>4, <1>5, <1>6, <1>7, <1>8 DEF Next

LEMMA TypeFacts == ASSUME Walking, Others PROVE TypeOK
<1>1. ASSUME NEW i \in DOMAIN work
      PROVE  /\ work[i].do \in {"definition", "leave", "source", "visit"}
             /\ work[i].do = "visit" => work[i].depth \in 0 .. MaxDepth + 1
  <2>1. work[i] \in CallSet
    BY LenProperties, ElementOfSeq DEF Walking, CallInv
  <2> QED
    BY <2>1 DEF CallSet
<1>2. active \subseteq DOMAIN input.children
  <2>1. ASSUME NEW a \in active PROVE a \in DOMAIN input.children
    <3>1. PICK k \in 0 + 1 .. Len(work) : work[k].do = "leave" /\ a = Agent(work[k].place)
      BY DEF Walking, AncestorInv, Above
    <3>2. work[k] \in CallSet
      BY ElementOfSeq DEF Walking, CallInv
    <3>3. PICK place : place = work[k].place
      OBVIOUS
    <3>4. place \in Seq(DOMAIN input.children) /\ place # <<>>
      BY <3>1, <3>2, <3>3 DEF CallSet, AgentPlaces
    <3>5. Len(place) \in 1 .. Len(place)
      BY <3>4, LenProperties, EmptySeq
    <3>6. Agent(place) \in DOMAIN input.children
      BY <3>4, <3>5, ElementOfSeq DEF Agent
    <3> QED
      BY <3>1, <3>3, <3>6
  <2> QED
    BY <2>1
<1> QED
  BY <1>1, <1>2 DEF TypeOK, Others, Walking, Inv, Types

(* The calls of discovery and its tables have their types; in particular   *)
(* no walk is more than one level below the limit.                         *)
THEOREM CompileTypes == Spec => []TypeOK
<1>1. Init => Others
  BY OthersInit
<1>2. Walking /\ Others /\ [Next]_vars => Others'
  BY OthersStep
<1>3. Walking /\ Others => TypeOK
  BY TypeFacts
<1> QED
  BY <1>1, <1>2, <1>3, WalkingHolds, PTL DEF Spec

-----------------------------------------------------------------------------
Start(c) == input.requests[c.place][c.n].path

(* How deep the walk of a source is, and where it is in the tree as it was *)
(* at first.                                                               *)
WalkOf(c) ==
  c.do = "visit" =>
    /\ c.depth <= Cardinality(visited)
    /\ visited \subseteq Directories(input, Start(c), input.present)
    /\ c.path \in input.present => c.path \in Reached(input, Start(c), input.present)

WalkInv ==
  /\ present \subseteq input.present
  /\ IsFiniteSet(visited)
  /\ \A c \in Pending : WalkOf(c)

LEMMA FiniteProject ==
  ASSUME NEW p \in Inputs
  PROVE  IsFiniteSet(p.present) /\ IsFiniteSet(DOMAIN p.real)
BY InputAssumption, FS_Subset

LEMMA FiniteDirectories ==
  ASSUME input \in Inputs, NEW start
  PROVE  IsFiniteSet(Directories(input, start, input.present))
<1>1. Directories(input, start, input.present) \subseteq input.present
  BY DEF Directories, IsKind
<1> QED
  BY <1>1, FiniteProject, FS_Subset

(* A directory that a walk enters, and its entries, are reached. *)
LEMMA DirectoryReached ==
  ASSUME Walking, WalkInv, Directory
  PROVE  /\ Real \in Directories(input, Start(Call), input.present)
         /\ Entries(input, Call.path, present)
              \subseteq Reached(input, Start(Call), input.present)
<1> DEFINE S == input.present
           R == Reached(input, Start(Call), S)
<1>1. /\ work # <<>> /\ Call.do = "visit" /\ {Call.path, Real} \subseteq present
      /\ input.kind[Real] = "directory"
  BY DEF Directory, Meets, Walks, Calls
<1>2. WalkOf(Call)
  BY <1>1, FirstCall DEF WalkInv, Walking, CallInv
<1>3. Call.path \in R
  BY <1>1, <1>2 DEF WalkInv, WalkOf
<1>4. IsKind(input, Call.path, "directory", S)
  BY <1>1 DEF IsKind, Real, WalkInv
<1>5. Below(input, R, S) \subseteq R
  <2>1. IsFiniteSet(S)
    BY FiniteProject DEF Walking, Inv, Types
  <2> QED
    BY <2>1, ReachedIsClosed
<1>6. Entries(input, Call.path, present) \subseteq Entries(input, Call.path, S)
  BY DEF Entries, WalkInv
<1> HIDE DEF R
<1>7. Entries(input, Call.path, S) \subseteq Below(input, R, S)
  BY <1>3, <1>4 DEF Below
<1>8. Real \in Directories(input, Start(Call), S)
  BY <1>3, <1>4 DEF Directories, R, Real
<1> QED
  BY <1>5, <1>6, <1>7, <1>8 DEF R

(* What the steps make of the visits. *)
LEMMA WalkStep ==
  ASSUME Walking, WalkInv, [Next]_vars
  PROVE  WalkInv'
<1>1. input \in Inputs /\ work \in Seq(CallSet)
  BY DEF Walking, Inv, Types, CallInv
<1>2. CASE Drops
  <2>1. Pending' \subseteq Pending /\ UNCHANGED <<input, present, visited>>
    BY <1>1, <1>2, AfterDrop DEF Drops
  <2> QED
    BY <2>1 DEF WalkInv, WalkOf, Start
<1>3. CASE Still
  <2>1. Pending' = Pending /\ UNCHANGED <<input, visited>> /\ present' \subseteq present
    BY <1>3 DEF Still, Pending
  <2> QED
    BY <2>1 DEF WalkInv, WalkOf, Start
<1>4. CASE Enter
  <2>1. PICK place : place = Call.place
    OBVIOUS
  <2>2. /\ place \in DOMAIN input.requests /\ work # <<>>
        /\ Replace(EnterCalls(place)) /\ UNCHANGED <<input, present, visited>>
    BY <1>1, <1>4, <2>1, EnterPlace DEF Walking
  <2>3. PICK calls, m, children :
          MadeByEnter(calls, place, m, children) /\ calls = EnterCalls(place)
    BY <1>1, <2>2, CallsOfEnter
  <2>4. calls \in Seq(CallSet) /\ \A c \in Members(calls) : c.do # "visit"
    BY <2>3, NoVisits DEF MadeByEnter
  <2>5. Pending' = Members(calls) \cup Rest /\ Rest \subseteq Pending
    BY <1>1, <2>2, <2>3, <2>4, AfterReplace
  <2> QED
    BY <2>2, <2>4, <2>5 DEF WalkInv, WalkOf, Start
<1>5. CASE BeginWalk
  <2>1. /\ work # <<>> /\ Call.do = "source" /\ visited' = {}
        /\ UNCHANGED <<input, present>>
    BY <1>1, <1>5, BeginCalls DEF Walking
  <2>2. PICK calls \in Seq(CallSet) :
          /\ Replace(calls)
          /\ Members(calls) = {Visit(Call.place, Call.n, Request.path, 0)}
    BY <1>1, <1>5, BeginCalls DEF Walking
  <2>3. Pending' = Members(calls) \cup Rest
    BY <1>1, <2>1, <2>2, AfterReplace
  <2>4. \A c \in Rest : c.do # "visit"
    BY <1>1, <2>1, NoVisitLater DEF Rest, Walking
  <2>5. IsFiniteSet({}) /\ Cardinality({}) = 0
    BY FS_EmptySet
  <2>6. ASSUME NEW c \in Members(calls) PROVE WalkOf(c)'
    <3>1. c.depth = 0 /\ c.path = Start(c)
      BY <2>2 DEF Visit, Start, Request
    <3>2. IsFiniteSet(input.present)
      BY <1>1, FiniteProject
    <3>3. c.path \in input.present => c.path \in Reached(input, Start(c), input.present)
      BY <3>1, <3>2, ReachedIsClosed
    <3> QED
      BY <2>1, <2>5, <3>1, <3>3 DEF WalkOf, Start
  <2> QED
    BY <2>1, <2>3, <2>4, <2>5, <2>6 DEF WalkInv, WalkOf
<1>6. CASE Directory
  <2>1. /\ work # <<>> /\ Call.do = "visit" /\ Call.depth <= MaxDepth
        /\ Real \in present /\ Replace(DirectoryCalls) /\ Real \notin visited
        /\ visited' = visited \cup {Real} /\ UNCHANGED <<input, present>>
    BY <1>6 DEF Directory, DirectoryCalls, Meets, Walks, Calls, outer, disk
  <2>2. Call \in CallSet /\ Call = work[1] /\ WalkOf(Call)
    BY <1>1, <2>1, FirstCall DEF WalkInv
  <2>3. Real \in Paths
    BY <2>1 DEF Walking, Inv, Types
  <2>4. PICK calls \in Seq(CallSet) :
          /\ calls = DirectoryCalls
          /\ \A i \in 1 .. Len(calls) :
               \E p \in Entries(input, Call.path, present) :
                 calls[i] = Visit(Call.place, Call.n, p, Call.depth + 1)
    BY <1>1, <2>1, <2>2, <2>3, CallsOfDirectory
  <2>5. Pending' = Members(calls) \cup Rest /\ Rest \subseteq Pending
    BY <1>1, <2>1, <2>4, AfterReplace
  <2>6. /\ Cardinality(visited) \in Nat /\ IsFiniteSet(visited')
        /\ Cardinality(visited') = Cardinality(visited) + 1
    BY <2>1, FS_CardinalityType, FS_AddElement DEF WalkInv
  <2>7. visited' \subseteq Directories(input, Start(Call), input.present)
    BY <1>6, <2>1, <2>2, DirectoryReached DEF WalkOf
  <2>8. ASSUME NEW c \in Members(calls) PROVE WalkOf(c)'
    <3>1. PICK p \in Entries(input, Call.path, present) :
            c = Visit(Call.place, Call.n, p, Call.depth + 1)
      BY <2>4 DEF Members
    <3>2. /\ c.depth = Call.depth + 1 /\ c.path = p
          /\ c.place = Call.place /\ c.n = Call.n
      BY <3>1 DEF Visit
    <3>3. Start(c) = Start(Call)
      BY <3>2 DEF Start
    <3>4. c.path \in Reached(input, Start(c), input.present)
      BY <1>6, <3>2, <3>3, DirectoryReached
    <3>5. c.depth <= Cardinality(visited')
      <4>1. Call.depth \in Nat /\ Call.depth <= Cardinality(visited)
        BY <2>1, <2>2, VisitTypes, LimitAssumption DEF WalkOf
      <4> QED
        BY <2>6, <3>2, <4>1
    <3>6. Start(c)' = Start(c)
      BY <2>1 DEF Start
    <3> QED
      BY <2>1, <2>7, <3>3, <3>4, <3>5, <3>6 DEF WalkOf
  <2>9. ASSUME NEW c \in Rest, c.do = "visit" PROVE WalkOf(c)'
    <3>1. PICK j \in 2 .. Len(work) : c = work[j]
      BY DEF Rest
    <3>2. SameSource(Call, c)
      BY <1>1, <2>1, <2>2, <2>9, <3>1, FirstCall DEF Walking, VisitsFirst
    <3>3. Start(c) = Start(Call) /\ Start(c)' = Start(c)
      BY <2>1, <3>2 DEF SameSource, Start
    <3>4. WalkOf(c)
      BY <2>5 DEF WalkInv
    <3>5. c.depth <= Cardinality(visited')
      <4>1. c \in CallSet
        BY <1>1, <3>1, FirstCall, ElementOfSeq
      <4>2. c.depth \in Nat /\ c.depth <= Cardinality(visited)
        BY <2>9, <3>4, <4>1, VisitTypes, LimitAssumption DEF WalkOf
      <4> QED
        BY <2>6, <4>2
    <3> QED
      BY <2>1, <2>7, <3>3, <3>4, <3>5 DEF WalkOf
  <2> QED
    BY <2>1, <2>5, <2>6, <2>8, <2>9 DEF WalkInv, WalkOf
<1> QED
  BY <1>2, <1>3, <1>4, <1>5, <1>6, StepKinds DEF Return, Drops, Calls, outer, disk

LEMMA TooDeepStep ==
  ASSUME Walking, WalkInv, TooDeepIsReal, [Next]_vars
  PROVE  TooDeepIsReal'
<1>1. input \in Inputs
  BY DEF Walking, Inv, Types
<1>2. input' = input
  BY StepKinds DEF Drops, Return, Enter, BeginWalk, Directory, Still, outer
<1> DEFINE Deep(call) ==
             Cardinality(Directories(input, input.requests[call.place][call.n].path,
                                     input.present)) > MaxDepth
<1>3. ASSUME NEW d \in diagnostics', d.what = "tooDeep" PROVE Deep(d.call)
  <2>1. CASE d \in diagnostics
    BY <1>3, <2>1 DEF TooDeepIsReal
  <2>2. CASE d \notin diagnostics
    <3>1. TooDeep /\ d.call = Call
      BY <1>3, <2>2, NewDiagnostics
    <3>2. work # <<>> /\ Call.do = "visit" /\ Call.depth > MaxDepth
      BY <3>1 DEF TooDeep, Calls
    <3>3. Call \in CallSet /\ WalkOf(Call)
      BY <3>2, FirstCall DEF WalkInv, Walking, CallInv
    <3>4. PICK D : D = Directories(input, Start(Call), input.present)
      OBVIOUS
    <3>5. IsFiniteSet(D)
      BY <1>1, <3>4, FiniteDirectories
    <3>6. visited \subseteq D /\ Call.depth <= Cardinality(visited)
      BY <3>2, <3>3, <3>4 DEF WalkOf
    <3>7. /\ Cardinality(visited) <= Cardinality(D)
          /\ Cardinality(visited) \in Nat /\ Cardinality(D) \in Nat
      BY <3>5, <3>6, FS_Subset, FS_CardinalityType
    <3>8. Call.depth \in Nat
      BY <3>2, <3>3, VisitTypes, LimitAssumption
    <3>9. Cardinality(D) > MaxDepth
      BY <3>2, <3>6, <3>7, <3>8, LimitAssumption
    <3> QED
      BY <3>1, <3>4, <3>9 DEF Start
  <2> QED
    BY <2>1, <2>2
<1> QED
  BY <1>2, <1>3 DEF TooDeepIsReal

(* A walk is cut off as too deep only where there are more directories     *)
(* than levels: every level of a walk entered a directory of its own, so   *)
(* that links that form a cycle never get there.                           *)
THEOREM TooDeepReal == Spec => []TooDeepIsReal
<1>1. Init => WalkInv /\ TooDeepIsReal
  <2> SUFFICES ASSUME Init PROVE WalkInv /\ TooDeepIsReal
    OBVIOUS
  <2>1. Pending \subseteq {Definition(<<input.lead>>)}
    BY DEF Init, Pending
  <2>2. \A c \in Pending : c.do = "definition"
    BY <2>1 DEF Definition
  <2>3. WalkInv
    BY <2>2, FS_EmptySet DEF Init, WalkInv, WalkOf
  <2> QED
    BY <2>3 DEF Init, TooDeepIsReal
<1>2. Walking /\ WalkInv /\ TooDeepIsReal /\ [Next]_vars => WalkInv' /\ TooDeepIsReal'
  BY WalkStep, TooDeepStep
<1> QED
  BY <1>1, <1>2, WalkingHolds, PTL DEF Spec

-----------------------------------------------------------------------------
(* What has been inspected, and is read next, is a file. *)
ReadsFile ==
  reading => /\ work # <<>> /\ Call.do = "visit"
             /\ Real \in Paths /\ input.kind[Real] = "file"

(* Where compilation ends, and that exhausted bounds are reported. *)
Ends ==
  /\ pc \in {"write", "compiled"} => diagnostics = {} /\ work = <<>>
  /\ manifest = "new" => pc = "compiled"
  /\ exhausted => diagnostics # {}

LEMMA ReadsFileStep ==
  ASSUME Walking, ReadsFile, [Next]_vars
  PROVE  ReadsFile'
<1>1. ASSUME UNCHANGED <<input, work>>, reading' => reading PROVE ReadsFile'
  BY <1>1 DEF ReadsFile, Call, Real, Paths
<1>2. ASSUME reading' = FALSE PROVE ReadsFile'
  BY <1>2 DEF ReadsFile
<1>3. reading => Call.do = "visit" /\ ~ exhausted /\ work # <<>>
  BY DEF ReadsFile, Walking, Inv, ReadHasRoom
<1>4. CASE DiscoverDefinition
  BY <1>2, <1>3, <1>4
  DEF DiscoverDefinition, TooNested, Recursive, Enter, Return, Refuse, Calls,
      Walking, Inv, Types
<1>5. CASE DiscoverSources
  BY <1>2, <1>3, <1>5
  DEF DiscoverSources, Escapes, BeginWalk, Skip, Skips, Refuse, Ignore, Calls,
      Walking, Inv, Types
<1>6. CASE WalkSource
  <2>1. CASE TooDeep \/ Missing \/ PassOver \/ Unresolved \/ Outside
    BY <1>2, <2>1
    DEF TooDeep, Missing, PassOver, Unresolved, Outside, Walks, Refuse, Ignore,
        Walking, Inv, Types
  <2>2. CASE Directory \/ VisitedBefore \/ NotRegular \/ StatTooLarge
               \/ StatExhausts
    BY <1>2, <2>2
    DEF Directory, VisitedBefore, NotRegular, StatTooLarge, StatExhausts,
        Meets, Walks, Refuse, Ignore, Exhaust, Walking, Inv, Types
  <2>3. CASE StatFits
    <3>1. /\ work # <<>> /\ Call.do = "visit" /\ Real \in present
          /\ input.kind[Real] = "file" /\ UNCHANGED <<input, work>>
      BY <2>3 DEF StatFits, Meets, Walks, Calls, outer
    <3>2. Real \in Paths
      BY <3>1 DEF Walking, Inv, Types
    <3> QED
      BY <3>1, <3>2 DEF ReadsFile, Call, Real, Paths
  <2>4. CASE ReadFails \/ ReadTooLarge \/ ReadExhausts \/ ReadCounts \/ Fails
    BY <1>2, <2>4
    DEF ReadFails, ReadTooLarge, ReadExhausts, ReadCounts, Fails, Refuse,
        Exhaust
  <2> QED
    BY <1>6, <2>1, <2>2, <2>3, <2>4 DEF WalkSource
<1>7. CASE Discovered \/ WriteManifest \/ Environment
  BY <1>1, <1>7 DEF Discovered, WriteManifest, Environment, Grow, Remove, walk
<1>8. CASE Stopped \/ UNCHANGED vars
  BY <1>1, <1>8 DEF Stopped, vars, outer
<1> QED
  BY <1>4, <1>5, <1>6, <1>7, <1>8 DEF Next

LEMMA EndsStep ==
  ASSUME Walking, Ends, [Next]_vars
  PROVE  Ends'
<1>1. ASSUME pc = "discover", UNCHANGED <<pc, manifest>>, diagnostics \subseteq diagnostics',
             exhausted' => exhausted \/ diagnostics' # {}
      PROVE  Ends'
  BY <1>1 DEF Ends
<1>2. CASE DiscoverDefinition
  BY <1>1, <1>2
  DEF DiscoverDefinition, TooNested, Recursive, Enter, Return, Refuse, Report,
      Calls, outer, counts
<1>3. CASE DiscoverSources
  BY <1>1, <1>3
  DEF DiscoverSources, Escapes, BeginWalk, Skip, Refuse, Report, Ignore, Calls,
      outer, counts
<1>4. CASE WalkSource
  <2>1. CASE TooDeep \/ Missing \/ PassOver \/ Unresolved \/ Outside
    BY <1>1, <2>1
    DEF TooDeep, Missing, PassOver, Unresolved, Outside, Walks, Calls, Refuse,
        Report, Ignore, outer, counts
  <2>2. CASE Directory \/ VisitedBefore \/ NotRegular \/ StatTooLarge
               \/ StatFits
    BY <1>1, <2>2
    DEF Directory, VisitedBefore, NotRegular, StatTooLarge, StatFits, Meets,
        Walks, Calls, Refuse, Report, Ignore, outer, counts
  <2>3. CASE StatExhausts \/ ReadExhausts
    BY <1>1, <2>3
    DEF StatExhausts, ReadExhausts, Meets, Walks, Reads, Calls, Exhaust,
        Report, outer, counts
  <2>4. CASE ReadFails \/ ReadTooLarge \/ ReadCounts \/ Fails
    BY <1>1, <2>4
    DEF ReadFails, ReadTooLarge, ReadCounts, Fails, Walks, Reads, Calls,
        Refuse, Report, outer, counts
  <2> QED
    BY <1>4, <2>1, <2>2, <2>3, <2>4 DEF WalkSource
<1>5. CASE Discovered \/ WriteManifest
  BY <1>5 DEF Discovered, WriteManifest, walk, counts, Ends
<1>6. CASE Environment
  BY <1>1, <1>6 DEF Environment, Grow, Remove, walk, counts
<1>7. CASE Stopped \/ UNCHANGED vars
  BY <1>7 DEF Stopped, vars, outer, counts, Ends
<1> QED
  BY <1>2, <1>3, <1>4, <1>5, <1>6, <1>7 DEF Next

(* The steps that have nothing to report. *)
LEMMA QuietKinds ==
  ASSUME Ends, [Next]_vars, diagnostics' = {}
  PROVE  /\ diagnostics = {}
         /\ \/ Enter \/ Return \/ BeginWalk
            \/ PassOver \/ Directory \/ VisitedBefore \/ ReadCounts
            \/ Still /\ found' = found
<1>1. CASE DiscoverDefinition
  BY <1>1 DEF DiscoverDefinition, TooNested, Recursive, Enter, Return, Refuse, Report
<1>2. CASE DiscoverSources
  BY <1>2
  DEF DiscoverSources, Escapes, BeginWalk, Skip, Skips, Refuse, Report, Ignore, Ends
<1>3. CASE WalkSource
  <2>1. CASE TooDeep \/ Missing \/ PassOver \/ Unresolved \/ Outside
    BY <2>1
    DEF TooDeep, Missing, PassOver, Unresolved, Outside, Refuse, Report, Ignore
  <2>2. CASE Directory \/ VisitedBefore \/ NotRegular \/ StatTooLarge
               \/ StatExhausts
    BY <2>2
    DEF Directory, VisitedBefore, NotRegular, StatTooLarge, StatExhausts,
        Refuse, Report, Ignore, Exhaust
  <2>3. CASE StatFits
    BY <2>3 DEF StatFits, outer, disk, counts, Still
  <2>4. CASE ReadFails \/ ReadTooLarge \/ ReadExhausts \/ ReadCounts \/ Fails
    BY <2>4
    DEF ReadFails, ReadTooLarge, ReadExhausts, ReadCounts, Fails, Refuse,
        Report, Exhaust
  <2> QED
    BY <1>3, <2>1, <2>2, <2>3, <2>4 DEF WalkSource
<1>4. CASE Discovered \/ WriteManifest \/ Environment
  BY <1>4
  DEF Discovered, WriteManifest, Environment, Grow, Remove, disk, walk, counts,
      Still
<1>5. CASE Stopped \/ UNCHANGED vars
  BY <1>5 DEF Stopped, vars, outer, disk, counts, Still
<1> QED
  BY <1>1, <1>2, <1>3, <1>4, <1>5 DEF Next

-----------------------------------------------------------------------------
File(place, n, p) ==
  [place |-> place, part |-> input.requests[place][n].part, path |-> p]

VisitOf(c, place, n) == c.do = "visit" /\ c.place = place /\ c.n = n

(* The path p is still to be visited for the source, or it has been dealt  *)
(* with: D are the directories that the walk of the source has entered.    *)
Covers(place, n, D, p) ==
  \/ \E c \in Pending : VisitOf(c, place, n) /\ c.path = p
  \/ /\ IsKind(input, p, "file", present) => File(place, n, p) \in found
     /\ IsKind(input, p, "directory", present) => input.real[p] \in D

IsEntry(d, p) == \E i \in DOMAIN input.entries[d] : p = input.entries[d][i]

WalkedBy(place, n, D) ==
  /\ D \subseteq Paths
  /\ \A p \in present :
       p = input.requests[place][n].path \/ (\E d \in D : IsEntry(d, p))
         => Covers(place, n, D, p)

(* Nothing of the project has been passed over: its agents are discovered  *)
(* or will be, and so are the files of their sources.                      *)
Whole ==
  /\ \A place : IsNext(place) => place \in entered \/ Definition(place) \in Pending
  /\ \A place \in entered : \A n \in DOMAIN input.requests[place] :
       Source(place, n) \in Pending \/ \E D : WalkedBy(place, n, D)
  /\ \A c \in Pending : c.do = "visit" => WalkedBy(c.place, c.n, visited)

(* What is covered stays so when one call returns. *)
LEMMA WalkedKept ==
  ASSUME input' = input, present' \subseteq present, found \subseteq found',
         NEW gone, Pending \subseteq Pending' \cup {gone},
         NEW place, NEW n, NEW D, NEW E, D \subseteq E, E \subseteq Paths,
         WalkedBy(place, n, D),
         \A p \in present' :
           VisitOf(gone, place, n) /\ gone.path = p => Covers(place, n, E, p)',
         \A p \in present', d \in E \ D : IsEntry(d, p) => Covers(place, n, E, p)'
  PROVE  WalkedBy(place, n, E)'
<1>1. \A d, p : IsEntry(d, p)' <=> IsEntry(d, p)
  BY DEF IsEntry
<1>2. ASSUME NEW p \in present', Covers(place, n, D, p)
      PROVE  Covers(place, n, E, p)'
  <2>1. CASE \E c \in Pending : VisitOf(c, place, n) /\ c.path = p
    <3>1. PICK c \in Pending : VisitOf(c, place, n) /\ c.path = p
      BY <2>1
    <3>2. CASE c = gone
      BY <3>1, <3>2
    <3>3. CASE c \in Pending'
      BY <3>1, <3>3 DEF Covers, VisitOf
    <3> QED
      BY <3>2, <3>3
  <2>2. CASE ~ \E c \in Pending : VisitOf(c, place, n) /\ c.path = p
    BY <1>2, <2>2 DEF Covers, IsKind, File
  <2> QED
    BY <2>1, <2>2
<1>3. ASSUME NEW p \in present',
             p = input.requests[place][n].path \/ (\E d \in E : IsEntry(d, p))
      PROVE  Covers(place, n, E, p)'
  <2>1. CASE \E d \in E \ D : IsEntry(d, p)
    BY <2>1
  <2>2. CASE ~ \E d \in E \ D : IsEntry(d, p)
    <3>1. Covers(place, n, D, p)
      BY <1>3, <2>2 DEF WalkedBy
    <3> QED
      BY <1>2, <3>1
  <2> QED
    BY <2>1, <2>2
<1>4. E \subseteq Paths'
  BY DEF Paths
<1> QED
  BY <1>1, <1>3, <1>4 DEF WalkedBy

(* A step that enters no agent and begins no walk. *)
LEMMA WholeKept ==
  ASSUME Whole, UNCHANGED <<input, entered>>, present' \subseteq present,
         found \subseteq found', NEW gone, Pending \subseteq Pending' \cup {gone},
         \A c \in Pending : c.do \in {"definition", "source"} => c \in Pending',
         \A c \in Pending' : c.do = "visit" =>
           \E d \in Pending : VisitOf(d, c.place, c.n),
         NEW E, E = visited', visited \subseteq E, E \subseteq Paths,
         gone.do = "visit" => gone \in Pending,
         \A place, n, p :
           VisitOf(gone, place, n) /\ gone.path = p /\ p \in present'
             => Covers(place, n, E, p)',
         \A c \in Pending : \A place, n : VisitOf(c, place, n) =>
             \A p \in present', d \in E \ visited : IsEntry(d, p) => Covers(place, n, E, p)'
  PROVE  Whole'
<1>1. \A place : IsNext(place)' <=> IsNext(place)
  BY DEF IsNext, Agent
<1>2. \A place, n : Definition(place).do = "definition" /\ Source(place, n).do = "source"
  BY DEF Definition, Source
<1>3. ASSUME NEW place, IsNext(place)
      PROVE  place \in entered \/ Definition(place) \in Pending'
  BY <1>2, <1>3 DEF Whole
<1>4. ASSUME NEW place, NEW n, NEW c \in Pending, VisitOf(c, place, n)
      PROVE  WalkedBy(place, n, E)'
  <2>1. WalkedBy(place, n, visited)
    BY <1>4 DEF Whole, VisitOf
  <2>2. PICK D : D = visited
    OBVIOUS
  <2> QED
    BY <1>4, <2>1, <2>2, WalkedKept
<1>5. ASSUME NEW place \in entered, NEW n \in DOMAIN input.requests[place]
      PROVE  Source(place, n) \in Pending' \/ \E D : WalkedBy(place, n, D)'
  <2>1. CASE Source(place, n) \in Pending
    BY <1>2, <2>1
  <2>2. CASE Source(place, n) \notin Pending
    <3>1. PICK D : WalkedBy(place, n, D)
      BY <2>2 DEF Whole
    <3>2. CASE VisitOf(gone, place, n)
      <4>1. gone \in Pending
        BY <3>2 DEF VisitOf
      <4> QED
        BY <1>4, <3>2, <4>1
    <3>3. CASE ~ VisitOf(gone, place, n)
      <4>1. D \subseteq Paths
        BY <3>1 DEF WalkedBy
      <4>2. WalkedBy(place, n, D)'
        BY <3>1, <3>3, <4>1, WalkedKept
      <4> QED
        BY <4>2
    <3> QED
      BY <3>2, <3>3
  <2> QED
    BY <2>1, <2>2
<1>6. ASSUME NEW c \in Pending', c.do = "visit" PROVE WalkedBy(c.place, c.n, E)'
  <2>1. PICK d \in Pending : VisitOf(d, c.place, c.n)
    BY <1>6
  <2> QED
    BY <1>4, <2>1
<1> QED
  BY <1>1, <1>3, <1>5, <1>6 DEF Whole

LEMMA EnterWhole ==
  ASSUME Walking, Whole, Enter, found' = found
  PROVE  Whole'
<1>1. PICK place : place = Call.place
  OBVIOUS
<1>2. /\ input \in Inputs /\ work \in Seq(CallSet)
      /\ place \in DOMAIN input.requests /\ work # <<>> /\ Call.do = "definition"
      /\ Replace(EnterCalls(place)) /\ UNCHANGED <<input, present, visited>>
      /\ entered' = entered \cup {place}
  BY <1>1, EnterPlace DEF Walking, Inv, Types, CallInv
<1>3. PICK calls, m, children :
        /\ MadeByEnter(calls, place, m, children) /\ calls = EnterCalls(place)
        /\ m = Len(input.requests[place]) /\ children = input.children[Agent(place)]
  BY <1>2, CallsOfEnter
<1>4. /\ m \in Nat /\ Len(children) \in Nat
      /\ DOMAIN children = 1 .. Len(children)
      /\ calls \in Seq(CallSet) /\ Len(calls) = m + Len(children) + 1
      /\ \A i \in 1 .. m : calls[i] = Source(place, i)
      /\ \A i \in m + 1 .. m + Len(children) :
           calls[i] = Definition(Append(place, children[i - m]))
  BY <1>3 DEF MadeByEnter
<1>5. DOMAIN input.requests[place] = 1 .. m
  BY <1>2, <1>3, PlaceFacts
<1>6. /\ Pending = {Call} \cup Rest /\ Pending' = Members(calls) \cup Rest
      /\ Call \in CallSet
  BY <1>2, <1>3, <1>4, AfterReplace, FirstCall
<1>7. \A p, n : /\ Definition(p).do = "definition" /\ Definition(p).place = p
               /\ Source(p, n).do = "source"
  BY DEF Definition, Source
<1>8. ASSUME NEW next, IsNext(next)'
      PROVE  next \in entered' \/ Definition(next) \in Pending'
  <2>1. CASE IsNext(next)
    <3>1. next \in entered \/ Definition(next) \in Pending
      BY <2>1 DEF Whole
    <3>2. CASE Definition(next) = Call
      BY <1>1, <1>2, <1>7, <3>2
    <3> QED
      BY <1>2, <1>6, <3>1, <3>2
  <2>2. CASE ~ IsNext(next)
    <3>1. PICK i \in DOMAIN children : next = Append(place, children[i])
      BY <1>2, <1>3, <1>8, <2>2 DEF IsNext, Agent
    <3>2. m + i \in m + 1 .. m + Len(children) /\ (m + i) - m = i
      BY <1>4
    <3>3. calls[m + i] = Definition(next) /\ m + i \in 1 .. Len(calls)
      BY <1>4, <3>1, <3>2
    <3> QED
      BY <1>6, <3>3 DEF Members
  <2> QED
    BY <2>1, <2>2
<1>9. ASSUME NEW other, NEW n, NEW D, WalkedBy(other, n, D)
      PROVE  WalkedBy(other, n, D)'
  <2>1. D \subseteq Paths
    BY <1>9 DEF WalkedBy
  <2>2. \A p : ~ VisitOf(Call, other, n)
    BY <1>2 DEF VisitOf
  <2>3. Pending \subseteq Pending' \cup {Call}
    BY <1>6
  <2> QED
    BY <1>2, <1>9, <2>1, <2>2, <2>3, WalkedKept
<1>10. ASSUME NEW other \in entered', NEW n \in DOMAIN input.requests[other]
       PROVE  Source(other, n) \in Pending' \/ \E D : WalkedBy(other, n, D)'
  <2>1. CASE other \in entered
    <3>1. CASE Source(other, n) \in Pending
      BY <1>2, <1>6, <1>7, <3>1
    <3>2. CASE Source(other, n) \notin Pending
      <4>1. PICK D : WalkedBy(other, n, D)
        BY <2>1, <3>2 DEF Whole
      <4> QED
        BY <1>9, <4>1
    <3> QED
      BY <3>1, <3>2
  <2>2. CASE other = place
    <3>1. n \in 1 .. m /\ n \in 1 .. Len(calls)
      BY <1>4, <1>5, <2>2
    <3> QED
      BY <1>4, <1>6, <2>2, <3>1 DEF Members
  <2> QED
    BY <1>2, <2>1, <2>2
<1>11. \A c \in Pending' : c.do # "visit"
  <2>1. \A c \in Members(calls) : c.do # "visit"
    BY <1>3, NoVisits
  <2>2. \A c \in Rest : c.do # "visit"
    BY <1>2, NoVisitLater DEF Rest, Walking
  <2> QED
    BY <1>6, <2>1, <2>2
<1> QED
  BY <1>2, <1>8, <1>10, <1>11 DEF Whole

LEMMA BeginWhole ==
  ASSUME Walking, Whole, BeginWalk, found' = found
  PROVE  Whole'
<1>1. /\ input \in Inputs /\ work \in Seq(CallSet) /\ work # <<>>
      /\ Call.do = "source" /\ Request.path \in Paths
      /\ visited' = {} /\ UNCHANGED <<input, present, entered>>
  BY BeginCalls DEF Walking, Inv, Types, CallInv
<1>2. PICK place, n : place = Call.place /\ n = Call.n
  OBVIOUS
<1>3. PICK first : first = Visit(place, n, Request.path, 0)
  OBVIOUS
<1>4. Pending = {Call} \cup Rest /\ Pending' = {first} \cup Rest
  <2>1. PICK calls \in Seq(CallSet) : Replace(calls) /\ Members(calls) = {first}
    BY <1>2, <1>3, BeginCalls DEF Walking, Inv, Types
  <2> QED
    BY <1>1, <2>1, AfterReplace
<1>5. /\ VisitOf(first, place, n) /\ first.path = input.requests[place][n].path
      /\ first.place = place /\ first.n = n
  BY <1>2, <1>3 DEF Visit, VisitOf, Request
<1>6. Call = Source(place, n)
  <2>1. Call \in CallSet
    BY <1>1, FirstCall
  <2> QED
    BY <1>1, <1>2, <2>1 DEF CallSet, Source
<1>7. \A p, k : Definition(p).do = "definition" /\ Source(p, k).do = "source"
  BY DEF Definition, Source
<1>8. WalkedBy(place, n, {})'
  <2>1. ASSUME NEW p, p = input.requests[place][n].path
        PROVE  Covers(place, n, {}, p)'
    BY <1>4, <1>5, <2>1 DEF Covers, VisitOf
  <2> QED
    BY <1>1, <2>1 DEF WalkedBy
<1>9. ASSUME NEW next, IsNext(next)'
      PROVE  next \in entered' \/ Definition(next) \in Pending'
  <2>1. IsNext(next)
    BY <1>1, <1>9 DEF IsNext, Agent
  <2>2. Definition(next) # Call
    BY <1>1, <1>7
  <2> QED
    BY <1>1, <1>4, <2>1, <2>2 DEF Whole
<1>10. ASSUME NEW other \in entered', NEW k \in DOMAIN input.requests[other]
       PROVE  Source(other, k) \in Pending' \/ \E D : WalkedBy(other, k, D)'
  <2>1. CASE Source(other, k) = Call
    <3>1. other = place /\ k = n
      BY <1>6, <2>1 DEF Source
    <3> QED
      BY <1>8, <3>1
  <2>2. CASE Source(other, k) \in Pending /\ Source(other, k) # Call
    BY <1>4, <2>2
  <2>3. CASE Source(other, k) \notin Pending
    <3>1. PICK D : WalkedBy(other, k, D)
      BY <1>1, <2>3 DEF Whole
    <3>2. D \subseteq Paths
      BY <3>1 DEF WalkedBy
    <3>3. ~ VisitOf(Call, other, k)
      BY <1>1 DEF VisitOf
    <3>4. Pending \subseteq Pending' \cup {Call}
      BY <1>4
    <3>5. WalkedBy(other, k, D)'
      BY <1>1, <3>1, <3>2, <3>3, <3>4, WalkedKept
    <3> QED
      BY <3>5
  <2> QED
    BY <2>1, <2>2, <2>3
<1>11. ASSUME NEW c \in Pending', c.do = "visit" PROVE WalkedBy(c.place, c.n, {})'
  <2>1. \A d \in Rest : d.do # "visit"
    BY <1>1, NoVisitLater DEF Rest, Walking
  <2>2. c = first
    BY <1>4, <1>11, <2>1
  <2> QED
    BY <1>5, <1>8, <2>2
<1> QED
  BY <1>1, <1>9, <1>10, <1>11 DEF Whole

(* A call returns, and makes no others. *)
LEMMA DroppedWhole ==
  ASSUME Walking, Others, Whole, Drops, found \subseteq found',
         Call.do \notin {"definition", "source"},
         \A place, n, D, p :
           VisitOf(Call, place, n) /\ Call.path = p /\ p \in present /\ D = visited
             => Covers(place, n, D, p)'
  PROVE  Whole'
<1>1. work \in Seq(CallSet) /\ UNCHANGED <<input, present, visited, entered>>
  BY DEF Drops, Walking, CallInv
<1>2. Pending = {Call} \cup Rest /\ Pending' = Rest
  BY <1>1, AfterDrop
<1>3. PICK gone, E : gone = Call /\ E = visited
  OBVIOUS
<1>4. /\ Pending \subseteq Pending' \cup {gone} /\ gone \in Pending
      /\ \A c \in Pending : c.do \in {"definition", "source"} => c \in Pending'
  BY <1>2, <1>3
<1>5. \A c \in Pending' : c.do = "visit" => \E d \in Pending : VisitOf(d, c.place, c.n)
  BY <1>2 DEF VisitOf
<1>6. E = visited' /\ visited \subseteq E /\ E \subseteq Paths /\ E \ visited = {}
  BY <1>1, <1>3 DEF Others
<1>7. \A place, n, p :
        VisitOf(gone, place, n) /\ gone.path = p /\ p \in present'
          => Covers(place, n, E, p)'
  BY <1>1, <1>3
<1> QED
  BY <1>1, <1>4, <1>5, <1>6, <1>7, WholeKept

(* The first call is a visit that a walk has been made for. *)
LEMMA QuietDrops ==
  ASSUME Walking, Others, ReadsFile, Whole,
         Return \/ PassOver \/ VisitedBefore \/ ReadCounts
  PROVE  Whole'
<1>1. CASE Return
  <2>1. Drops /\ Call.do = "leave" /\ found' = found
    BY <1>1 DEF Return, Drops, Calls, disk, counts
  <2>2. \A place, n, D, p :
          VisitOf(Call, place, n) /\ Call.path = p /\ p \in present /\ D = visited
            => Covers(place, n, D, p)'
    BY <2>1 DEF VisitOf
  <2> QED
    BY <2>1, <2>2, DroppedWhole
<1>2. CASE PassOver
  <2>1. /\ Drops /\ Call.do = "visit" /\ found' = found /\ Call.path \notin present
    BY <1>2 DEF PassOver, Walks, Drops, Calls, Ignore, outer, disk, counts
  <2>2. \A place, n, D, p :
          VisitOf(Call, place, n) /\ Call.path = p /\ p \in present /\ D = visited
            => Covers(place, n, D, p)'
    BY <2>1
  <2> QED
    BY <2>1, <2>2, DroppedWhole
<1>3. CASE VisitedBefore
  <2>1. /\ Drops /\ Call.do = "visit" /\ found' = found
        /\ input.kind[Real] = "directory" /\ Real \in visited
    BY <1>3 DEF VisitedBefore, Meets, Walks, Drops, Calls, Ignore, outer, disk, counts
  <2>2. ASSUME NEW place, NEW n, NEW D, NEW p, Call.path = p, D = visited
        PROVE  Covers(place, n, D, p)'
    <3>1. /\ input' = input /\ input.kind[input.real[p]] = "directory"
          /\ input.real[p] \in D
      BY <2>1, <2>2 DEF Drops, Real
    <3> QED
      BY <3>1 DEF Covers, IsKind
  <2>3. \A place, n, D, p :
          VisitOf(Call, place, n) /\ Call.path = p /\ p \in present /\ D = visited
            => Covers(place, n, D, p)'
    BY <2>2
  <2> QED
    BY <2>1, <2>3, DroppedWhole
<1>4. CASE ReadCounts
  <2>1. /\ Drops /\ Call.do = "visit" /\ input.kind[Real] = "file"
        /\ found' = found \cup
             {[place |-> Call.place, part |-> Request.part, path |-> Call.path]}
    BY <1>4 DEF ReadCounts, Reads, Drops, Calls, ReadsFile, outer, disk
  <2>2. ASSUME NEW place, NEW n, NEW D, NEW p, VisitOf(Call, place, n), Call.path = p
        PROVE  Covers(place, n, D, p)'
    <3>1. /\ input' = input /\ input.kind[input.real[p]] = "file"
          /\ File(place, n, p) \in found'
      BY <2>1, <2>2 DEF Drops, Real, File, Request, VisitOf
    <3> QED
      BY <3>1 DEF Covers, IsKind, File
  <2>3. \A place, n, D, p :
          VisitOf(Call, place, n) /\ Call.path = p /\ p \in present /\ D = visited
            => Covers(place, n, D, p)'
    BY <2>2
  <2> QED
    BY <2>1, <2>3, DroppedWhole
<1> QED
  BY <1>1, <1>2, <1>3, <1>4

LEMMA StillWhole ==
  ASSUME Others, Whole, Still, found' = found
  PROVE  Whole'
<1>1. /\ Pending' = Pending /\ UNCHANGED <<input, entered, visited>>
      /\ present' \subseteq present
  BY DEF Still, Pending
<1>2. PICK gone, E : gone = Definition(<<>>) /\ E = visited
  OBVIOUS
<1>3. gone.do = "definition"
  BY <1>2 DEF Definition
<1>4. \A c \in Pending' : c.do = "visit" => \E d \in Pending : VisitOf(d, c.place, c.n)
  BY <1>1 DEF VisitOf
<1>5. /\ E = visited' /\ visited \subseteq E /\ E \subseteq Paths /\ E \ visited = {}
      /\ Pending \subseteq Pending' \cup {gone} /\ found \subseteq found'
      /\ gone.do = "visit" => gone \in Pending
      /\ \A c \in Pending : c.do \in {"definition", "source"} => c \in Pending'
  BY <1>1, <1>2, <1>3 DEF Others
<1>6. \A place, n, p :
        VisitOf(gone, place, n) /\ gone.path = p /\ p \in present'
          => Covers(place, n, E, p)'
  BY <1>3 DEF VisitOf
<1> QED
  BY <1>1, <1>4, <1>5, <1>6, WholeKept

LEMMA DirectoryWhole ==
  ASSUME Walking, Others, Whole, Directory
  PROVE  Whole'
<1>1. /\ work # <<>> /\ Call.do = "visit" /\ Call.depth <= MaxDepth
      /\ Real \in present /\ input.kind[Real] = "directory"
      /\ Replace(DirectoryCalls) /\ visited' = visited \cup {Real}
      /\ UNCHANGED <<input, present, entered, found>>
  BY DEF Directory, DirectoryCalls, Meets, Walks, Calls, outer, disk, counts
<1>2. /\ input \in Inputs /\ work \in Seq(CallSet) /\ Real \in Paths
      /\ Call \in CallSet /\ Call = work[1] /\ Call \in Pending
      /\ Len(work) \in Nat \ {0} /\ DOMAIN work = 1 .. Len(work)
  BY <1>1, FirstCall DEF Walking, Inv, Types, CallInv
<1>3. PICK calls \in Seq(CallSet) :
        /\ calls = DirectoryCalls
        /\ \A i \in 1 .. Len(calls) :
             \E p \in Entries(input, Call.path, present) :
               calls[i] = Visit(Call.place, Call.n, p, Call.depth + 1)
        /\ \A p \in Entries(input, Call.path, present) :
             \E i \in 1 .. Len(calls) :
               calls[i] = Visit(Call.place, Call.n, p, Call.depth + 1)
  BY <1>1, <1>2, CallsOfDirectory
<1>4. Pending = {Call} \cup Rest /\ Pending' = Members(calls) \cup Rest
  BY <1>1, <1>2, <1>3, AfterReplace
<1>5. PICK gone, E, real, place, n :
        /\ gone = Call /\ E = visited \cup {Real} /\ real = Real
        /\ place = Call.place /\ n = Call.n
  OBVIOUS
<1>6. ASSUME NEW c \in Pending', c.do = "visit"
      PROVE  \E d \in Pending : VisitOf(d, c.place, c.n)
  <2>1. CASE c \in Rest
    BY <1>4, <1>6, <2>1 DEF VisitOf
  <2>2. CASE c \in Members(calls)
    <3>1. PICK p : c = Visit(Call.place, Call.n, p, Call.depth + 1)
      BY <1>3, <2>2 DEF Members
    <3> QED
      BY <1>1, <1>2, <3>1 DEF Visit, VisitOf
  <2> QED
    BY <1>4, <2>1, <2>2
<1>7. ASSUME NEW c \in Pending, NEW p, NEW k, VisitOf(c, p, k)
      PROVE  p = place /\ k = n
  <2>1. PICK j \in DOMAIN work : c = work[j]
    BY DEF Pending
  <2>2. SameSource(Call, c)
    BY <1>2, <1>7, <2>1 DEF Walking, VisitsFirst, VisitOf
  <2> QED
    BY <1>5, <1>7, <2>2 DEF SameSource, VisitOf
<1>8. ASSUME NEW p \in present', IsEntry(real, p)
      PROVE  Covers(place, n, E, p)'
  <2>1. p \in Entries(input, Call.path, present)
    BY <1>1, <1>5, <1>8 DEF IsEntry, Entries, Real
  <2>2. PICK i \in 1 .. Len(calls) :
          calls[i] = Visit(Call.place, Call.n, p, Call.depth + 1)
    BY <1>3, <2>1
  <2>3. PICK c \in Pending' : c = Visit(Call.place, Call.n, p, Call.depth + 1)
    BY <1>4, <2>2 DEF Members
  <2>4. VisitOf(c, place, n) /\ c.path = p
    BY <1>5, <2>3 DEF Visit, VisitOf
  <2> QED
    BY <2>4 DEF Covers, VisitOf
<1>9. ASSUME NEW p, gone.path = p PROVE Covers(place, n, E, p)'
  <2>1. input' = input /\ input.kind[input.real[p]] = "directory" /\ input.real[p] \in E
    BY <1>1, <1>5, <1>9 DEF Real
  <2> QED
    BY <2>1 DEF Covers, IsKind
<1>10. /\ Pending \subseteq Pending' \cup {gone} /\ gone \in Pending
       /\ \A c \in Pending : c.do \in {"definition", "source"} => c \in Pending'
  BY <1>1, <1>2, <1>4, <1>5
<1>11. E = visited' /\ visited \subseteq E /\ E \subseteq Paths /\ E \ visited \subseteq {real}
  BY <1>1, <1>2, <1>5 DEF Others
<1>12. \A other, k, p :
         VisitOf(gone, other, k) /\ gone.path = p /\ p \in present'
           => Covers(other, k, E, p)'
  BY <1>7, <1>9, <1>10
<1>13. ASSUME NEW c \in Pending, NEW other, NEW k, VisitOf(c, other, k),
              NEW p \in present', NEW d \in E \ visited, IsEntry(d, p)
       PROVE  Covers(other, k, E, p)'
  <2>1. other = place /\ k = n /\ d = real
    BY <1>7, <1>11, <1>13
  <2> QED
    BY <1>8, <1>13, <2>1
<1> QED
  BY <1>1, <1>6, <1>10, <1>11, <1>12, <1>13, WholeKept

-----------------------------------------------------------------------------
Complete == Ends /\ (diagnostics = {} => Whole)

LEMMA InitComplete == ASSUME Init PROVE ReadsFile /\ Complete
<1>1. ReadsFile /\ Ends
  BY DEF Init, ReadsFile, Ends
<1>2. ASSUME diagnostics = {} PROVE Whole
  <2>1. work = <<Definition(<<input.lead>>)>> /\ entered = {}
    BY <1>2 DEF Init
  <2>2. Pending = {Definition(<<input.lead>>)}
    BY <2>1 DEF Pending
  <2> QED
    BY <2>1, <2>2 DEF Whole, IsNext, Definition
<1> QED
  BY <1>1, <1>2 DEF Complete

LEMMA CompleteStep ==
  ASSUME Walking, Others, ReadsFile, Complete, [Next]_vars
  PROVE  Complete'
<1>1. Ends'
  BY EndsStep DEF Complete
<1>2. ASSUME diagnostics' = {} PROVE Whole'
  <2>1. diagnostics = {} /\ Whole
    BY <1>2, QuietKinds DEF Complete
  <2>2. CASE Enter
    BY <2>1, <2>2, EnterWhole DEF Enter, counts
  <2>3. CASE BeginWalk
    BY <2>1, <2>3, BeginWhole DEF BeginWalk, counts
  <2>4. CASE Directory
    BY <2>1, <2>4, DirectoryWhole
  <2>5. CASE Return \/ PassOver \/ VisitedBefore \/ ReadCounts
    BY <2>1, <2>5, QuietDrops
  <2>6. CASE Still /\ found' = found
    BY <2>1, <2>6, StillWhole
  <2> QED
    BY <1>2, <2>2, <2>3, <2>4, <2>5, <2>6, QuietKinds DEF Complete
<1> QED
  BY <1>1, <1>2 DEF Complete

(* When no call is left, what is covered has been found. *)
LEMMA WholeIsFound ==
  ASSUME Walking, Whole, work = <<>>, NEW place \in entered
  PROVE  AllFound(place)
<1>1. Pending = {} /\ input \in Inputs /\ present \subseteq Paths
  BY DEF Pending, Walking, Inv, Types
<1>2. ASSUME NEW n \in DOMAIN input.requests[place],
             input.requests[place][n].path \in present,
             NEW q \in Reached(input, input.requests[place][n].path, present),
             IsKind(input, q, "file", present)
      PROVE  File(place, n, q) \in found
  <2>1. PICK D : WalkedBy(place, n, D)
    BY <1>1 DEF Whole
  <2>2. PICK start : start = input.requests[place][n].path
    OBVIOUS
  <2> DEFINE X == {p \in present :
                     /\ IsKind(input, p, "file", present) => File(place, n, p) \in found
                     /\ IsKind(input, p, "directory", present) => input.real[p] \in D}
  <2>3. ASSUME NEW p \in present, p = start \/ \E d \in D : IsEntry(d, p)
        PROVE  p \in X
    BY <1>1, <2>1, <2>2, <2>3 DEF WalkedBy, Covers
  <2>4. ASSUME NEW p \in Below(input, X, present) PROVE p \in X
    <3>1. PICK r \in X : IsKind(input, r, "directory", present) /\ p \in Entries(input, r, present)
      BY DEF Below
    <3>2. p \in present /\ IsEntry(input.real[r], p)
      BY <3>1 DEF Entries, IsEntry
    <3>3. input.real[r] \in D
      BY <3>1
    <3> QED
      BY <2>3, <3>2, <3>3
  <2>5. IsFiniteSet(present)
    BY <1>1, FiniteProject, FS_Subset DEF Paths
  <2>6. start \in X
    BY <1>2, <2>2, <2>3
  <2> HIDE DEF X
  <2>7. Reached(input, start, present) \subseteq X
    BY <2>4, <2>5, <2>6, ReachedIsLeast
  <2>8. q \in X
    BY <1>2, <2>2, <2>7
  <2> QED
    BY <1>2, <2>8 DEF X
<1> QED
  BY <1>2 DEF AllFound, File

LEMMA CompleteFacts == ASSUME Walking, Complete PROVE ManifestIsComplete
<1> SUFFICES ASSUME manifest = "new" PROVE
      /\ diagnostics = {}
      /\ <<input.lead>> \in entered
      /\ \A place \in entered :
           LET children == input.children[Agent(place)]
           IN  /\ AllFound(place)
               /\ \A i \in DOMAIN children : Append(place, children[i]) \in entered
  BY DEF ManifestIsComplete
<1>1. diagnostics = {} /\ work = <<>> /\ Whole
  BY DEF Complete, Ends
<1>2. Pending = {}
  BY <1>1 DEF Pending
<1>3. \A place : IsNext(place) => place \in entered
  BY <1>1, <1>2 DEF Whole
<1>4. \A place \in entered : AllFound(place)
  BY <1>1, WholeIsFound
<1> QED
  BY <1>1, <1>3, <1>4 DEF IsNext

(* A manifest is written only when there was nothing to report, and then   *)
(* no agent and no file of a source that still exists is missing from it:  *)
(* what a walk has not covered yet is always among the calls to make, and  *)
(* what it has covered is closed under the entries of its directories.     *)
THEOREM ManifestComplete == Spec => []ManifestIsComplete
<1>1. Init => Others /\ ReadsFile /\ Complete
  BY OthersInit, InitComplete
<1>2. Walking /\ Others /\ ReadsFile /\ Complete /\ [Next]_vars
        => Others' /\ ReadsFile' /\ Complete'
  BY OthersStep, ReadsFileStep, CompleteStep
<1>3. Walking /\ Complete => ManifestIsComplete
  BY CompleteFacts
<1> QED
  BY <1>1, <1>2, <1>3, WalkingHolds, PTL DEF Spec
=============================================================================

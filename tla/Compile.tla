------------------------------- MODULE Compile -------------------------------
(***************************************************************************)
(* compileAgent: discoverAgent walks the definitions and their content     *)
(* files, and a manifest is written if it had nothing to report.           *)
(*                                                                         *)
(* The code recurses; here the calls it has still to make are a list,      *)
(* work.  Other programs change the authored tree meanwhile, so that what  *)
(* lstat and readdir said may be stale when the file is read.  An agent's  *)
(* place is the sequence of definitions from the lead to it.               *)
(***************************************************************************)
EXTENDS Naturals, Sequences, FiniteSets, Trees

CONSTANTS
  Inputs,        \* authored projects, see InputAssumption
  MaxDepth,      \* MAX_DISCOVERY_DEPTH
  MaxFiles,      \* MAX_DISCOVERED_FILES
  MaxFileBytes,  \* MAX_DISCOVERED_FILE_BYTES
  MaxTotal,      \* MAX_DISCOVERED_TOTAL_BYTES
  MaxChanges     \* bound on changes and failures during a compilation

Parts == {"instructions", "skills", "memory", "schedules"}
Kinds == {"file", "directory", "other"}
Flaws == {"sourceFile", "definition", "schedules"}

(* A project has the children of every definition (sorted by name), the    *)
(* sources and the flaws of every place, and a finite tree: what realpath  *)
(* makes of each path (a path outside the tree is outside the authored     *)
(* root), its kind and sorted entries, the paths that exist and their      *)
(* sizes.  The places are those of the agents that are not below           *)
(* themselves, as far down as discovery goes.                              *)
ASSUME InputAssumption ==
  \A p \in Inputs :
    /\ p.rooted \in BOOLEAN
    /\ p.children \in [DOMAIN p.children -> Seq(DOMAIN p.children)]
    /\ p.lead \in DOMAIN p.children
    /\ DOMAIN p.requests = DOMAIN p.flaws
    /\ <<p.lead>> \in DOMAIN p.requests
    /\ \A place \in DOMAIN p.requests :
         /\ place \in Seq(DOMAIN p.children) /\ place # <<>>
         /\ p.flaws[place] \subseteq Flaws
         /\ Len(p.requests[place]) \in Nat
         /\ DOMAIN p.requests[place] = 1 .. Len(p.requests[place])
         /\ \A n \in DOMAIN p.requests[place] :
              LET request == p.requests[place][n]
              IN  request.part \in Parts /\ request.optional \in BOOLEAN
         /\ LET children == p.children[place[Len(place)]]
            IN  \A i \in DOMAIN children :
                  \/ \E j \in DOMAIN place : children[i] = place[j]
                  \/ Len(place) > MaxDepth
                  \/ Append(place, children[i]) \in DOMAIN p.requests
    /\ IsFiniteSet(DOMAIN p.real)
    /\ p.kind \in [DOMAIN p.real -> Kinds]
    /\ p.entries \in [DOMAIN p.real -> Seq(DOMAIN p.real)]
    /\ p.size \in [DOMAIN p.real -> Nat]
    /\ p.present \subseteq DOMAIN p.real

ASSUME LimitAssumption ==
  {MaxDepth, MaxFiles, MaxFileBytes, MaxTotal, MaxChanges} \subseteq Nat

VARIABLES
  input,        \* the project, but for what changes
  present,      \* the paths that exist
  size,         \* size[p]: bytes in the file p
  work,         \* the calls still to make, first one first
  active,       \* activeDefinitions
  reading,      \* the file of the first call has been inspected, not read
  visited,      \* visitedDirectories of the walk of the current source
  exhausted,    \* boundsExhausted
  fileCount,    \* files read
  totalBytes,   \* bytes read
  found,        \* files discovered: their agent's place, part and path
  diagnostics,  \* problems reported, and the call that reported each
  entered,      \* history: the places of the agents discovered
  pc,           \* where compileAgent is
  manifest,     \* what manifest.json holds
  changes       \* history: changes and failures so far

disk   == <<present, size>>
counts == <<exhausted, fileCount, totalBytes, found>>
outer  == <<input, disk, active, entered, pc, manifest>>
vars   == <<outer, work, reading, visited, counts, diagnostics, changes>>

Definition(place)            == [do |-> "definition", place |-> place]
Leave(place)                 == [do |-> "leave", place |-> place]
Source(place, n)             == [do |-> "source", place |-> place, n |-> n]
Visit(place, n, path, depth) == [do |-> "visit", place |-> place, n |-> n,
                                 path |-> path, depth |-> depth]

Paths        == DOMAIN input.real
Call         == Head(work)
Calls(do)    == pc = "discover" /\ work # <<>> /\ Call.do = do
Agent(place) == place[Len(place)]
Request      == input.requests[Call.place][Call.n]
Real         == input.real[Call.path]

Replace(calls) == work' = calls \o Tail(work)
Report(what) ==
  diagnostics' = diagnostics \cup {[call |-> Call, what |-> what]}

(* A call that only reports a problem. *)
Refuse(what) ==
  /\ Replace(<<>>)
  /\ Report(what)
  /\ reading' = FALSE
  /\ UNCHANGED <<outer, visited, counts, changes>>

(* A call that has nothing to do. *)
Ignore ==
  /\ Replace(<<>>)
  /\ UNCHANGED <<outer, reading, visited, counts, diagnostics, changes>>

(* exhaustBounds: reported once, since nothing is walked afterwards. *)
Exhaust(what) ==
  /\ Replace(<<>>)
  /\ Report(what)
  /\ exhausted' = TRUE /\ reading' = FALSE
  /\ UNCHANGED <<outer, visited, fileCount, totalBytes, found, changes>>

(* Mutant of Skips: only the loop over the sources breaks. *)
SkipsSources == exhausted /\ Call.do = "source"

(* What no longer has to be called when the bounds are exhausted. *)
Skips == exhausted /\ Call.do \in {"source", "visit"}

-----------------------------------------------------------------------------
(* discoverDefinition *)
Nesting == Len(Call.place) - 1

TooNested ==
  /\ Calls("definition")
  /\ Nesting > MaxDepth
  /\ Refuse("tooNested")

Recursive ==
  /\ Calls("definition")
  /\ Nesting <= MaxDepth
  /\ Agent(Call.place) \in active
  /\ Refuse("recursive")

(* validateSourceFile, validateDefinition and the check for a subagent's   *)
(* schedules/, then the sources, the children and the return.              *)
Enter ==
  LET place    == Call.place
      children == input.children[Agent(place)]
      sources  == input.requests[place]
  IN  /\ Calls("definition")
      /\ Nesting <= MaxDepth
      /\ Agent(place) \notin active
      /\ active' = active \cup {Agent(place)}
      /\ entered' = entered \cup {place}
      /\ diagnostics' = diagnostics \cup
           {[call |-> Call, what |-> flaw] : flaw \in input.flaws[place]}
      /\ Replace([n \in DOMAIN sources |-> Source(place, n)]
                 \o [i \in DOMAIN children |->
                       Definition(Append(place, children[i]))]
                 \o <<Leave(place)>>)
      /\ UNCHANGED <<input, disk, reading, visited, counts, pc, manifest,
                     changes>>

(* Mutant of Return: the definition is still taken for an ancestor. *)
ReturnActive ==
  /\ Calls("leave")
  /\ Replace(<<>>)
  /\ UNCHANGED <<outer, reading, visited, counts, diagnostics, changes>>

Return ==
  /\ Calls("leave")
  /\ active' = active \ {Agent(Call.place)}
  /\ Replace(<<>>)
  /\ UNCHANGED <<input, disk, reading, visited, counts, diagnostics, entered,
                 pc, manifest, changes>>

-----------------------------------------------------------------------------
(* discoverSources: every declared source is walked with a new Set. *)
Escapes ==
  /\ Calls("source") /\ ~ Skips
  /\ Request.path \notin Paths
  /\ Refuse("escapes")

(* Mutant of BeginWalk: one Set for all sources. *)
BeginWalkVisited ==
  /\ Calls("source") /\ ~ Skips
  /\ Request.path \in Paths
  /\ Replace(<<Visit(Call.place, Call.n, Request.path, 0)>>)
  /\ UNCHANGED <<outer, reading, visited, counts, diagnostics, changes>>

BeginWalk ==
  /\ Calls("source") /\ ~ Skips
  /\ Request.path \in Paths
  /\ visited' = {}
  /\ Replace(<<Visit(Call.place, Call.n, Request.path, 0)>>)
  /\ UNCHANGED <<outer, reading, counts, diagnostics, changes>>

(* The loops over sources and over entries break when bounds are exhausted. *)
Skip ==
  /\ Calls("source") \/ Calls("visit")
  /\ Skips
  /\ Ignore

-----------------------------------------------------------------------------
(* walkSource, until the content is read. *)
TooDeep ==
  /\ Calls("visit") /\ ~ Skips
  /\ Call.depth > MaxDepth
  /\ Refuse("tooDeep")

(* Mutant of Walks: one level too many. *)
WalksDeeper ==
  Calls("visit") /\ ~ Skips /\ ~ reading /\ Call.depth <= MaxDepth + 1

Walks == Calls("visit") /\ ~ Skips /\ ~ reading /\ Call.depth <= MaxDepth

Missing ==
  /\ Walks
  /\ Call.path \notin present
  /\ ~ Request.optional
  /\ Refuse("missing")

(* Whatever is missing below an optional source is passed over too. *)
PassOver ==
  /\ Walks
  /\ Call.path \notin present
  /\ Request.optional
  /\ Ignore

Unresolved ==
  /\ Walks
  /\ Call.path \in present
  /\ Real \in Paths \ present
  /\ Refuse("unresolved")

Outside ==
  /\ Walks
  /\ Call.path \in present
  /\ Real \notin Paths
  /\ Refuse("outside")

(* The call is for something of the kind k. *)
Meets(k) ==
  /\ Walks
  /\ {Call.path, Real} \subseteq present
  /\ input.kind[Real] = k

(* Mutant of Directory: directories are not remembered. *)
DirectoryAgain ==
  LET entries == Within(input.entries[Real], present)
  IN  /\ Meets("directory")
      /\ Replace([i \in DOMAIN entries |->
                    Visit(Call.place, Call.n, entries[i], Call.depth + 1)])
      /\ UNCHANGED <<outer, reading, visited, counts, diagnostics, changes>>

(* readdir lists only the entries that exist by now. *)
Directory ==
  LET entries == Within(input.entries[Real], present)
  IN  /\ Meets("directory")
      /\ Real \notin visited
      /\ visited' = visited \cup {Real}
      /\ Replace([i \in DOMAIN entries |->
                    Visit(Call.place, Call.n, entries[i], Call.depth + 1)])
      /\ UNCHANGED <<outer, reading, counts, diagnostics, changes>>

VisitedBefore == Meets("directory") /\ Real \in visited /\ Ignore

NotRegular == Meets("other") /\ Refuse("notRegular")

(* The checks of what lstat said, in their order. *)
StatTooLarge ==
  /\ Meets("file")
  /\ size[Real] > MaxFileBytes
  /\ Refuse("tooLarge")

StatExhausts ==
  /\ Meets("file")
  /\ size[Real] <= MaxFileBytes
  /\ (fileCount >= MaxFiles \/ totalBytes + size[Real] > MaxTotal)
  /\ Exhaust(IF fileCount >= MaxFiles THEN "files" ELSE "bytes")

StatFits ==
  /\ Meets("file")
  /\ size[Real] <= MaxFileBytes
  /\ fileCount < MaxFiles
  /\ totalBytes + size[Real] <= MaxTotal
  /\ reading' = TRUE
  /\ UNCHANGED <<outer, work, visited, counts, diagnostics, changes>>

-----------------------------------------------------------------------------
(* readFile, and the checks of what it returned. *)
Reads == Calls("visit") /\ reading

ReadFails == Reads /\ Real \notin present /\ Refuse("unreadable")

ReadTooLarge ==
  /\ Reads /\ Real \in present
  /\ size[Real] > MaxFileBytes
  /\ Refuse("tooLarge")

ReadExhausts ==
  /\ Reads /\ Real \in present
  /\ size[Real] <= MaxFileBytes
  /\ totalBytes + size[Real] > MaxTotal
  /\ Exhaust("bytes")

(* Mutant of ReadCounts: what lstat said is trusted. *)
ReadCountsUnchecked ==
  /\ Reads /\ Real \in present
  /\ fileCount' = fileCount + 1
  /\ totalBytes' = totalBytes + size[Real]
  /\ found' = found \cup
       {[place |-> Call.place, part |-> Request.part, path |-> Call.path]}
  /\ Replace(<<>>) /\ reading' = FALSE
  /\ UNCHANGED <<outer, visited, exhausted, diagnostics, changes>>

ReadCounts ==
  /\ Reads /\ Real \in present
  /\ size[Real] <= MaxFileBytes
  /\ totalBytes + size[Real] <= MaxTotal
  /\ fileCount' = fileCount + 1
  /\ totalBytes' = totalBytes + size[Real]
  /\ found' = found \cup
       {[place |-> Call.place, part |-> Request.part, path |-> Call.path]}
  /\ Replace(<<>>) /\ reading' = FALSE
  /\ UNCHANGED <<outer, visited, exhausted, diagnostics, changes>>

(* lstat, realpath, readdir or readFile fails for another reason. *)
Fails ==
  /\ Walks \/ Reads
  /\ changes < MaxChanges
  /\ changes' = changes + 1
  /\ Replace(<<>>) /\ Report("unreadable") /\ reading' = FALSE
  /\ UNCHANGED <<outer, visited, counts>>

-----------------------------------------------------------------------------
walk == <<work, reading, visited, counts, diagnostics>>

(* compileAgent goes on only if there is nothing to report; writeManifest  *)
(* replaces the manifest by a rename, its last step.                       *)
Discovered ==
  /\ pc = "discover" /\ work = <<>>
  /\ pc' = IF diagnostics = {} THEN "write" ELSE "rejected"
  /\ UNCHANGED <<input, disk, walk, active, entered, manifest, changes>>

WriteManifest ==
  /\ pc = "write"
  /\ \/ pc' = "compiled" /\ manifest' = "new"
     \/ pc' = "rejected" /\ UNCHANGED manifest
  /\ UNCHANGED <<input, disk, walk, active, entered, changes>>

(* Another program lets a file grow, or removes a file or a link. *)
Grow(p) ==
  /\ pc = "discover" /\ changes < MaxChanges
  /\ p \in present /\ input.kind[p] = "file" /\ size[p] <= MaxFileBytes
  /\ size' = [size EXCEPT ![p] = @ + 1]
  /\ changes' = changes + 1
  /\ UNCHANGED <<input, present, walk, active, entered, pc, manifest>>

Remove(p) ==
  /\ pc = "discover" /\ changes < MaxChanges
  /\ p \in present /\ (input.kind[p] = "file" \/ input.real[p] # p)
  /\ present' = present \ {p}
  /\ changes' = changes + 1
  /\ UNCHANGED <<input, size, walk, active, entered, pc, manifest>>

-----------------------------------------------------------------------------
(* A lead's file outside the project root ends discovery at once. *)
Init ==
  /\ input \in Inputs
  /\ present = input.present /\ size = input.size
  /\ work = IF input.rooted THEN <<Definition(<<input.lead>>)>> ELSE <<>>
  /\ active = {} /\ visited = {} /\ reading = FALSE
  /\ exhausted = FALSE /\ fileCount = 0 /\ totalBytes = 0 /\ found = {}
  /\ diagnostics = IF input.rooted THEN {}
                   ELSE {[call |-> Definition(<<input.lead>>), what |-> "root"]}
  /\ entered = {}
  /\ pc = "discover" /\ manifest = "previous" /\ changes = 0

DiscoverDefinition == TooNested \/ Recursive \/ Enter \/ Return
DiscoverSources    == Escapes \/ BeginWalk \/ Skip
WalkSource ==
  \/ TooDeep \/ Missing \/ PassOver \/ Unresolved \/ Outside
  \/ Directory \/ VisitedBefore \/ NotRegular
  \/ StatTooLarge \/ StatExhausts \/ StatFits
  \/ ReadFails \/ ReadTooLarge \/ ReadExhausts \/ ReadCounts \/ Fails
Environment == \E p \in Paths : Grow(p) \/ Remove(p)
Stopped == pc \in {"compiled", "rejected"} /\ UNCHANGED vars

Next == \/ DiscoverDefinition \/ DiscoverSources \/ WalkSource
        \/ Discovered \/ WriteManifest \/ Environment \/ Stopped

Spec == Init /\ [][Next]_vars

-----------------------------------------------------------------------------
TypeOK ==
  /\ input \in Inputs
  /\ present \subseteq Paths
  /\ size \in [Paths -> Nat]
  /\ \A i \in DOMAIN work :
       /\ work[i].do \in {"definition", "leave", "source", "visit"}
       /\ work[i].do = "visit" => work[i].depth \in 0 .. MaxDepth + 1
  /\ active \subseteq DOMAIN input.children
  /\ visited \subseteq Paths
  /\ reading \in BOOLEAN /\ exhausted \in BOOLEAN
  /\ fileCount \in Nat /\ totalBytes \in Nat
  /\ pc \in {"discover", "write", "compiled", "rejected"}
  /\ manifest \in {"previous", "new"}
  /\ changes \in 0 .. MaxChanges

(* The limits hold for what was read, whatever sizes lstat had reported,   *)
(* and no file of the manifest was left out of the counts.                 *)
BoundsKept ==
  /\ fileCount <= MaxFiles
  /\ totalBytes <= MaxTotal
  /\ Cardinality(found) <= fileCount

(* Once the bounds are exhausted nothing more is read, in this source, in  *)
(* the other sources and in the agents still to come.                      *)
StopsAtBounds ==
  [][exhausted => exhausted' /\ UNCHANGED <<fileCount, totalBytes, found>>]_vars

(* A definition is reported recursive only below itself: two agents may    *)
(* share a subagent.  And no agent is discovered below itself.             *)
RecursionIsReal ==
  /\ \A d \in diagnostics : d.what = "recursive" =>
       \E i \in 1 .. Len(d.call.place) - 1 :
         d.call.place[i] = Agent(d.call.place)
  /\ \A place \in entered :
       \A i, j \in DOMAIN place : place[i] = place[j] => i = j

(* Links that form a cycle are not mistaken for a deep tree: a walk is cut *)
(* off as too deep only where there are more directories than the limit.   *)
TooDeepIsReal ==
  \A d \in diagnostics : d.what = "tooDeep" =>
    LET start == input.requests[d.call.place][d.call.n].path
        S     == input.present
    IN  Cardinality(Directories(input, start, S)) > MaxDepth

(* A file that a source of the place reaches and that still exists is      *)
(* among the files found for that part of the agent.                       *)
AllFound(place) ==
  \A n \in DOMAIN input.requests[place] :
    LET request == input.requests[place][n]
    IN  request.path \in present =>
          \A p \in Reached(input, request.path, present) :
            IsKind(input, p, "file", present) =>
              [place |-> place, part |-> request.part, path |-> p] \in found

(* The manifest is replaced only when there is nothing to report, and then *)
(* it leaves out no subagent and no file, in spite of links, cycles, files *)
(* shared by sources and bounds that cut a walk short.                     *)
ManifestIsComplete ==
  manifest = "new" =>
    /\ diagnostics = {}
    /\ <<input.lead>> \in entered
    /\ \A place \in entered :
         LET children == input.children[Agent(place)]
         IN  /\ AllFound(place)
             /\ \A i \in DOMAIN children : Append(place, children[i]) \in entered
=============================================================================

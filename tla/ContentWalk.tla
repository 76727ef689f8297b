----------------------------- MODULE ContentWalk -----------------------------
(***************************************************************************)
(* loadSessionStartContent and loadSessionInstructions: what a session     *)
(* reads of its project before the first model call.  The sources are      *)
(* walked one after the other under one set of limits, and whatever cannot *)
(* be read, except an optional source, fails the whole load.               *)
(*                                                                         *)
(* The code recurses; here the calls it has still to make are a list,      *)
(* work, and a call makes its awaits one by one: lstat, realpath, readFile.*)
(* Other programs change the tree meanwhile.                               *)
(***************************************************************************)
EXTENDS Naturals, Sequences, FiniteSetsExt, Trees, MemoryBudget

CONSTANTS
  Inputs,        \* projects, see ContentInputAssumption
  MaxDepth,      \* MAX_DISCOVERY_DEPTH
  MaxFiles,      \* MAX_DISCOVERED_FILES
  MaxEntries,    \* MAX_DIRECTORY_ENTRIES
  MaxFileBytes,  \* MAX_DISCOVERED_FILE_BYTES
  MaxTotal,      \* MAX_DISCOVERED_TOTAL_BYTES
  MaxChanges     \* bound on changes and failures during a load

(* A project is a finite tree (what realpath makes of each path, its kind, *)
(* sorted entries, the paths that exist, the bytes of each file and of its *)
(* text, where three bytes replace every invalid part) and the sources of  *)
(* the load: the path as resolved, whether it was authored absolute, the   *)
(* options of the walk, the real paths it matches and those inside its     *)
(* confinement root, and whether it is memory.  contents: what a memory    *)
(* file may hold (sizes count in larger units).  rooted: projectRoot       *)
(* and the agent's file resolve, one within the other.                     *)
ASSUME ContentInputAssumption ==
  \A p \in Inputs :
    /\ p.rooted \in BOOLEAN
    /\ IsFiniteSet(DOMAIN p.real)
    /\ p.real \in [DOMAIN p.real -> DOMAIN p.real]
    /\ \A q \in DOMAIN p.real : p.real[p.real[q]] = p.real[q]
    /\ p.kind \in [DOMAIN p.real -> {"file", "directory", "other"}]
    /\ p.entries \in [DOMAIN p.real -> Seq(DOMAIN p.real)]
    /\ \A d, e \in DOMAIN p.real :
         \A i \in DOMAIN p.entries[d], j \in DOMAIN p.entries[e] :
           p.entries[d][i] = p.entries[e][j] => d = e /\ i = j
    /\ {p.size, p.text} \subseteq [DOMAIN p.real -> Nat]
    /\ \A q \in DOMAIN p.real :
         p.size[q] <= p.text[q] /\ p.text[q] <= 3 * p.size[q]
    /\ p.present \subseteq DOMAIN p.real
    /\ p.ignored \subseteq DOMAIN p.real
    /\ p.contents \subseteq Seq(Characters)
    /\ Len(p.sources) \in Nat /\ DOMAIN p.sources = 1 .. Len(p.sources)
    /\ \A n \in DOMAIN p.sources :
         LET source == p.sources[n]
         IN  /\ source.path \in DOMAIN p.real
             /\ {source.absolute, source.optional, source.follow,
                 source.prune, source.memory} \subseteq BOOLEAN
             /\ source.prune => ~ source.follow
             /\ source.match \cup source.inside \subseteq DOMAIN p.real

ASSUME ContentLimitAssumption ==
  {MaxDepth, MaxFiles, MaxEntries, MaxFileBytes, MaxTotal, MaxChanges}
    \subseteq Nat

VARIABLES
  input,    \* the project, but for what changes
  present,  \* the paths that exist
  size,     \* size[p]: bytes in the file p
  work,     \* the calls still to make, first one first
  stage,    \* the await the first call is at
  seen,     \* the size that lstat reported
  visited,  \* visitedDirectories of the current source
  files,    \* state.files
  entries,  \* state.entries
  bytes,    \* state.bytes
  loaded,   \* the files returned: their source and real path
  pc,       \* "loading", "loaded" or "failed"
  changes   \* history: changes and failures so far

disk   == <<present, size>>
counts == <<files, entries, bytes, loaded>>
vars   == <<input, disk, work, stage, seen, visited, counts, pc, changes>>

Source(n)             == [do |-> "source", n |-> n]
Visit(n, path, depth) == [do |-> "visit", n |-> n, path |-> path,
                          depth |-> depth]

Paths   == DOMAIN input.real
Call    == Head(work)
Options == input.sources[Call.n]
Real    == input.real[Call.path]
IsLink  == Real # Call.path

Calls(do) == pc = "loading" /\ work # <<>> /\ Call.do = do

(* The call is at one of its awaits, and was not refused for its depth. *)
At(s) == Calls("visit") /\ stage = s /\ Call.depth <= MaxDepth

(* The call returns, after making the given calls. *)
Replace(calls) == work' = calls \o Tail(work) /\ stage' = "lstat"

Ignore ==
  /\ Replace(<<>>)
  /\ UNCHANGED <<input, disk, seen, visited, counts, pc, changes>>

(* invalidContentPath: the error passes through every caller. *)
Fail ==
  /\ pc' = "failed"
  /\ UNCHANGED <<input, disk, work, stage, seen, visited, counts, changes>>

-----------------------------------------------------------------------------
(* loadMemorySources, loadDeclaredSources and discoverProjectAgents. *)
Absolute == Calls("source") /\ Options.absolute /\ Fail

(* Mutant of Begin: one Set for all sources. *)
BeginVisited ==
  /\ Calls("source") /\ ~ Options.absolute
  /\ Replace(<<Visit(Call.n, Options.path, 0)>>)
  /\ UNCHANGED <<input, disk, seen, visited, counts, pc, changes>>

Begin ==
  /\ Calls("source") /\ ~ Options.absolute
  /\ visited' = {}
  /\ Replace(<<Visit(Call.n, Options.path, 0)>>)
  /\ UNCHANGED <<input, disk, seen, counts, pc, changes>>

-----------------------------------------------------------------------------
(* walkContent as far as lstat. *)
TooDeep == Calls("visit") /\ Call.depth > MaxDepth /\ Fail

Missing ==
  At("lstat") /\ Call.path \notin present /\ ~ Options.optional /\ Fail

(* Whatever is missing below an optional source is passed over too. *)
PassOver ==
  At("lstat") /\ Call.path \notin present /\ Options.optional /\ Ignore

SkipLink ==
  At("lstat") /\ Call.path \in present /\ IsLink /\ ~ Options.follow /\ Ignore

Inspect ==
  /\ At("lstat") /\ Call.path \in present
  /\ IsLink => Options.follow
  /\ seen' = size[Call.path]
  /\ stage' = "realpath"
  /\ UNCHANGED <<input, disk, work, visited, counts, pc, changes>>

-----------------------------------------------------------------------------
(* realpath, and lstat of what a link leads to. *)
Unresolved ==
  At("realpath") /\ ~ ({Call.path, Real} \subseteq present) /\ Fail

Outside ==
  At("realpath") /\ Real \in present /\ Real \notin Options.inside /\ Fail

Meets(k) ==
  /\ At("realpath") /\ {Call.path, Real} \subseteq present
  /\ Real \in Options.inside /\ input.kind[Real] = k

(* The names that the directory has by now, and those walked.  *)
Listing ==
  {i \in DOMAIN input.entries[Real] : input.entries[Real][i] \in present}

Children ==
  LET pruned == IF Options.prune THEN input.ignored ELSE {}
      kept   == Within(input.entries[Real], present \ pruned)
  IN  [i \in DOMAIN kept |-> Visit(Call.n, kept[i], Call.depth + 1)]

VisitedBefore == Meets("directory") /\ Real \in visited /\ Ignore

(* collectBoundedEntries: entry by entry, until one is too many. *)
TooManyEntries ==
  /\ Meets("directory") /\ Real \notin visited
  /\ Cardinality(Listing) > MaxEntries - entries
  /\ Fail

(* Mutant of Directory: directories are not remembered. *)
DirectoryAgain ==
  /\ Meets("directory") /\ Cardinality(Listing) <= MaxEntries - entries
  /\ entries' = entries + Cardinality(Listing)
  /\ Replace(Children)
  /\ UNCHANGED <<input, disk, seen, visited, files, bytes, loaded, pc, changes>>

Directory ==
  /\ Meets("directory") /\ Real \notin visited
  /\ Cardinality(Listing) <= MaxEntries - entries
  /\ visited' = visited \cup {Real}
  /\ entries' = entries + Cardinality(Listing)
  /\ Replace(Children)
  /\ UNCHANGED <<input, disk, seen, files, bytes, loaded, pc, changes>>

Wanted == Real \in Options.match

NotWanted ==
  (Meets("other") \/ (Meets("file") /\ ~ Wanted)) /\ Ignore

(* The checks of what lstat said: of the link's target now, of the file    *)
(* itself when it was inspected.                                           *)
StatSize == IF IsLink THEN size[Real] ELSE seen

StatExceeds ==
  /\ Meets("file") /\ Wanted
  /\ \/ StatSize > MaxFileBytes
     \/ files >= MaxFiles
     \/ bytes + StatSize > MaxTotal
  /\ Fail

StatFits ==
  /\ Meets("file") /\ Wanted
  /\ StatSize <= MaxFileBytes /\ files < MaxFiles
  /\ bytes + StatSize <= MaxTotal
  /\ stage' = "readFile"
  /\ UNCHANGED <<input, disk, work, seen, visited, counts, pc, changes>>

-----------------------------------------------------------------------------
(* readFile, and the checks of what it returned: the text, decoded as      *)
(* UTF-8.  A file that was written to may hold anything of its size.       *)
TextSizes ==
  IF size[Real] = input.size[Real] THEN {input.text[Real]}
  ELSE size[Real] .. 3 * size[Real]

ReadFails == At("readFile") /\ Real \notin present /\ Fail

ReadExceeds ==
  /\ At("readFile") /\ Real \in present
  /\ \E text \in TextSizes : text > MaxFileBytes \/ bytes + text > MaxTotal
  /\ Fail

(* Mutant of Read: what lstat said is trusted. *)
ReadTrusted ==
  /\ At("readFile") /\ Real \in present
  /\ \E text \in TextSizes : bytes' = bytes + text
  /\ files' = files + 1
  /\ loaded' = loaded \cup {[n |-> Call.n, path |-> Real]}
  /\ Replace(<<>>)
  /\ UNCHANGED <<input, disk, seen, visited, entries, pc, changes>>

Read ==
  /\ At("readFile") /\ Real \in present
  /\ \E text \in TextSizes :
       /\ text <= MaxFileBytes /\ bytes + text <= MaxTotal
       /\ bytes' = bytes + text
  /\ files' = files + 1
  /\ loaded' = loaded \cup {[n |-> Call.n, path |-> Real]}
  /\ Replace(<<>>)
  /\ UNCHANGED <<input, disk, seen, visited, entries, pc, changes>>

(* lstat, realpath, opendir or readFile fails for another reason. *)
Fails ==
  /\ Calls("visit") /\ Call.depth <= MaxDepth
  /\ changes < MaxChanges
  /\ changes' = changes + 1
  /\ pc' = "failed"
  /\ UNCHANGED <<input, disk, work, stage, seen, visited, counts>>

Finish ==
  /\ pc = "loading" /\ work = <<>>
  /\ pc' = "loaded"
  /\ UNCHANGED <<input, disk, work, stage, seen, visited, counts, changes>>

-----------------------------------------------------------------------------
(* Another program lets a file grow, or removes a file or a link. *)
Grow(p) ==
  /\ pc = "loading" /\ changes < MaxChanges
  /\ p \in present /\ input.kind[p] = "file" /\ size[p] <= MaxFileBytes
  /\ size' = [size EXCEPT ![p] = @ + 1]
  /\ changes' = changes + 1
  /\ UNCHANGED <<input, present, work, stage, seen, visited, counts, pc>>

Remove(p) ==
  /\ pc = "loading" /\ changes < MaxChanges
  /\ p \in present /\ (input.kind[p] = "file" \/ input.real[p] # p)
  /\ present' = present \ {p}
  /\ changes' = changes + 1
  /\ UNCHANGED <<input, size, work, stage, seen, visited, counts, pc>>

-----------------------------------------------------------------------------
Init ==
  /\ input \in Inputs
  /\ present = input.present /\ size = input.size
  /\ work = [n \in DOMAIN input.sources |-> Source(n)]
  /\ stage = "lstat" /\ seen = 0 /\ visited = {}
  /\ files = 0 /\ entries = 0 /\ bytes = 0 /\ loaded = {}
  /\ pc = IF input.rooted THEN "loading" ELSE "failed"
  /\ changes = 0

LoadSource  == Absolute \/ Begin
WalkContent ==
  \/ TooDeep \/ Missing \/ PassOver \/ SkipLink \/ Inspect
  \/ Unresolved \/ Outside \/ VisitedBefore \/ TooManyEntries \/ Directory
  \/ NotWanted \/ StatExceeds \/ StatFits
  \/ ReadFails \/ ReadExceeds \/ Read \/ Fails
Environment == \E p \in Paths : Grow(p) \/ Remove(p)
Ended == pc \in {"loaded", "failed"} /\ UNCHANGED vars

Next == LoadSource \/ WalkContent \/ Finish \/ Environment \/ Ended

Spec == Init /\ [][Next]_vars

-----------------------------------------------------------------------------
(* The limits of a load hold over all its sources together, whatever sizes *)
(* lstat had reported, and every file loaded is in the counts.             *)
LimitsKept ==
  /\ files <= MaxFiles /\ entries <= MaxEntries /\ bytes <= MaxTotal
  /\ Cardinality(loaded) <= files

(* A walk does not follow the links, and does not enter the directories,   *)
(* that its options exclude.                                               *)
Sees(source, S) ==
  {p \in S : /\ p # input.real[p] => source.follow
             /\ p \in input.ignored /\ p # source.path => ~ source.prune}

(* The files that a source is meant to load when the paths S exist. *)
Wants(source, S) ==
  {p \in Reached(input, source.path, Sees(source, S)) :
     IsKind(input, p, "file", S) /\ input.real[p] \in source.match}

(* A load that succeeds has every file of every source that still exists:  *)
(* no link, cycle, shared directory, limit or change made it skip one.     *)
LoadIsComplete ==
  pc = "loaded" =>
    \A n \in DOMAIN input.sources :
      LET source == input.sources[n]
      IN  /\ ~ source.absolute
          /\ \A p \in Wants(source, present) :
               [n |-> n, path |-> input.real[p]] \in loaded

(* What a walk visits of a directory. *)
Open(source, d, S) ==
  {p \in Entries(input, d, S) : ~ (source.prune /\ p \in input.ignored)}

(* One directory in the other, each of them once, k levels down. *)
IsChain(source, chain, k, S) ==
  /\ chain[0] = input.real[source.path]
  /\ \A i \in 1 .. k :
       /\ chain[i] \in {input.real[p] : p \in Open(source, chain[i - 1], S)}
       /\ \A j \in 0 .. i - 1 : chain[j] # chain[i]

(* Such a chain ends with something too deep. *)
IsDeep(source, S) ==
  \E chain \in [0 .. MaxDepth ->
                   Directories(input, source.path, Sees(source, S))] :
    /\ IsChain(source, chain, MaxDepth, S)
    /\ Open(source, chain[MaxDepth], S) # {}

(* What a source alone gives a load to complain of. *)
SourceIsFlawed(source) ==
  LET S      == input.present
      walked == Reached(input, source.path, Sees(source, S))
  IN  \/ source.absolute
      \/ source.path \notin S /\ ~ source.optional
      \/ \E p \in walked : input.real[p] \notin S \cap source.inside
      \/ \E p \in Wants(source, S) : input.text[input.real[p]] > MaxFileBytes
      \/ IsDeep(source, S)

(* The files and directories of all sources together, each one with its    *)
(* source, the bytes of their text and their entries.                      *)
AllFiles ==
  {f \in (DOMAIN input.sources) \X Paths :
     f[2] \in Wants(input.sources[f[1]], input.present)}

AllDirectories ==
  {d \in (DOMAIN input.sources) \X Paths :
     LET source == input.sources[d[1]]
     IN  d[2] \in Directories(input, source.path, Sees(source, input.present))}

BytesOf(F) == UNION {{f} \X (1 .. input.text[input.real[f[2]]]) : f \in F}

EntriesOf(D) == UNION {{d} \X Entries(input, d[2], input.present) : d \in D}

TooMuch ==
  \/ Cardinality(AllFiles) > MaxFiles
  \/ Cardinality(BytesOf(AllFiles)) > MaxTotal
  \/ Cardinality(EntriesOf(AllDirectories)) > MaxEntries

(* A project that nobody changes fails to load only for a reason, among    *)
(* them a file too large once it is text, as a binary file soon is:        *)
(* nothing is counted twice, a cycle of links is not taken for a deep tree *)
(* and the sources do not hinder one another.                              *)
FailureIsReal ==
  pc = "failed" /\ changes = 0 =>
    \/ ~ input.rooted \/ TooMuch
    \/ \E n \in DOMAIN input.sources : SourceIsFlawed(input.sources[n])

(* A memory file reaches the model within the budget, whatever it holds.   *)
MemoryIsBounded ==
  \A f \in loaded :
    input.sources[f.n].memory => \A s \in input.contents : IsBounded(s)
=============================================================================

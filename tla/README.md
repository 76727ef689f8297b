# Verification of waratah

Waratah accepts triggers over HTTP, turns each delivery into a session on disk,
and runs the session's lead agent, which may call tools and delegate to
subagents. This directory holds TLA+ models of that core, the TLC runs that
check them on small instances, and TLAPS proofs of what matters most for
instances of every size.

Paths below are relative to `packages/waratah/src` unless they start with
`docs/`, `bin/` or `ARCHITECTURE.md`.

## The system

| Component | Code | State it keeps | Operations | What is hard | Model |
| --- | --- | --- | --- | --- | --- |
| Session acceptance | `session/` | the session directory (`meta.json`, `transcript.jsonl`, `files/`), the checkpointer's thread | `create` | racing calls, retries, failures and crashes between file operations | `SessionAccept`, `DeliveryContract` |
| HTTP trigger server | `protocol/` | connections, `queueRun` listeners, the map of runs | `handleRequest`, `superviseRun`, `close` | Node's events against awaits, disconnects, shutdown | `Server` |
| Harness graph | `harness/compile-graph.ts` | graph state, the step budget | model node, tools node | one budget for two graphs, cancellation, failed batches | `Harness` |
| Tool execution | `tools/executor.ts`, `approval/` | none of its own | `execute` | tools that outlive their node, notifications nobody awaits | `Harness`, `ToolTrace` |
| Subagents | `subagents/` | the finding file | `task`, `runSubagent` | stale findings, shared budget and signal | `Harness` |
| Session run and record | `harness/run-agent.ts`, `updateStatus`, `appendTranscript` | `meta.json` status, transcript | `runAgent` | swallowed write failures, crashes | `SessionRun` |
| Session file system | `context/disk-backend.ts` | session files, temporary files | `write`, `read`, `list` | concurrent writers, the entry limit | `SessionFiles` |
| Paths, memory backend, files channel | `context/` | a map | normalise, merge | - | not modelled |
| Traces and logs | `observability/` | `traces.jsonl`, `logs.jsonl`, start times per call id | `writeTrace`, `writeLog`, the tool hook | appends nobody awaits, colliding call ids | `ToolTrace` (the tool hook) |
| Schedules | `channel/schedule.ts` | none | a tick calls `create` | the delivery id of a tick | a call of `SessionAccept` |
| Discovery, compiler | `discover/`, `compiler/` | counts, active definitions, visited directories, diagnostics; the manifest | discover, compile | links and cycles, shared bounds, files that change, partial failure | `Compile` |
| Agent definitions | `agent/` | none | `createAgent`, `defineTool` | - | not modelled |
| Memory and instructions | `memory/` | counts of a load, visited directories | `loadSessionStartContent`, `loadSessionInstructions`, `applyMemoryBudget` | links and cycles, limits over all sources, files that change, partial loads, the memory budget's boundaries | `ContentWalk`, `MemoryBudget` |
| Command line | `bin/waratah.ts` | signal handlers | `serve`, ... | a second signal during the drain | as `Close` and `Crash` of the others |

How they interact: a POST reaches `handleRequest`, which awaits `postSession`,
that is `CreateSessionService.create`. An accepted session gets a `queueRun`
callback on the response's events; the first event hands the session to
`superviseRun`. The embedder's `runSession` calls `runAgent`, which keeps the
session's record and invokes the lead's graph. The graph's tools node calls the
executor; the `task` tool runs a second graph inside a tool call, with the same
budget, session files and abort signal. `close()` aborts that signal. Lead and
subagent notify one trace hook of their tool calls. What a session reads of its
project before the first model call is loaded by `memory/load.ts`.

## The models and the code

Each action is one step between two awaits of the code, named after the
operation or the handler it models. A failure of an operation is an action or a
disjunct of its own. History variables, named as such, are never read by a
guard. Definitions that begin with "Mutant of" change one definition of the
model as a plausible bug would; no specification uses them. They document what
each property is able to detect.

### DeliveryContract
What acceptance promises, without saying how: a delivery is free until one call
claims it; the claim ends as accepted or abandoned, for good; nobody is told
"duplicate" about a free delivery.

### SessionAccept
`CreateSessionService.create` with `readMeta` and `FilesystemSessionStore.create`.
`pc[c]` is the operation that call `c` awaits next, `entries[d]` is what the
directory of delivery `d` holds. `mkdir` without `recursive` is the only atomic
claim; `StoreFails` lets any operation fail (an append may leave part of a line,
`invoke` may have written its checkpoint); `Crash` loses what is in memory.
`UseStore` chooses between the two ways the service can be configured, `Durable`
between the sqlite and the memory checkpointer. The checks of a command are
abstracted to three outcomes: valid, malformed, oversize. The session root is
taken to be written by the store alone.

### Server
`handleRequest`, `queueRun`, `superviseRun`, `close` and `closeAndDrain`. The
acceptance is `DeliveryContract` itself: `ClaimDelivery` and `PostSettles` are its
actions, so that what holds here holds over `SessionAccept` by the refinement
below. Node's part is modelled from how the code uses it: a response emits
"finish" once its bytes are written on a living socket and "close" once, after
"finish" or after the socket is destroyed; a response that ends on a destroyed
socket emits neither again. The server is listening at the start and after a
crash. A connection can end at any moment, but nothing makes a client send what it
owes: `Dawdles` says that one is silent, in the middle of its body, or has a body left
that the handler refused to read. Node's own timeouts of requests end such a client
while the server listens; `server.close()` stops them.

### Harness
One turn: `compileGraph`'s nodes for lead and subagent, the executor, the task
tool, `withSignal`. `node[a]` is where the graph of agent `a` is and `op[a]` is the
operation its executor is in: two variables, because the node gives up on an
abort while the operation goes on. A batch of tool calls is a sequence of kinds
(a tool that exists, an unknown tool, invalid input, `task`, `task` for an undeclared
subagent). The subagent has no transcript and no `task`. `late` counts, as history, the
operations that begin under an aborted signal: both nodes start theirs before
`withSignal` looks at the signal, which then returns its own rejection, and nobody
handles the one of the operation. The sizes of results and
findings are a choice of outcome. Definitions whose tool names collide, and
LangGraph's own recursion limit, are left out.

### ToolTrace
`Harness` with what its tool calls notify: `ToolTrace` extends the module and adds to
each of its steps what becomes of `startedAt`, the map of `createToolTraceHook` that
lead and subagent share, keyed by the call id that the model chose (`Ids`). A start is
kept as the agent whose call it is; `nested` collects, as history, the ids the
subagent used in a delegation. `lost` tells that a trace write was rejected with
nobody to handle it: `notifyObserver` handles the promise that a notification returns,
and the one of a failed call returns none. The order of the lines in the file is not
promised by anybody (they carry timestamps) and is left out.

### SessionRun
`runAgent` around the graph, over turns that follow each other. The graph itself is
one action, `GraphEnds`, with the tool lines it writes. Every write either
happens, or fails (for an append, maybe half way); `recordSession` and
`updateSessionStatus` swallow that. `updateStatus` keeps an old error code. Trace
events are left out.

### SessionFiles
`DiskSessionBackend.write` in one directory. `countFiles` reads the names first and
stats them one by one; temporary files are names like any other. The byte limit
on a file is checked by the caller as well and is left out; `read` and `list` change
nothing.

### Compile
`compileAgent` with `discoverAgent`. The code recurses over definitions, sources and
directory entries; `work` is the list of the calls it has still to make, so that the
head is the call it is in. `active`, `visited`, `exhausted`, `fileCount` and
`totalBytes` are the fields of `DiscoveryState` and the `Set` of a walk. An agent is
known by its place, the definitions from the lead to it, because one definition
object may be declared by several agents. Between `lstat` and `readFile` (`reading`)
and between all other steps other programs let files grow or remove files and links.
The checks of a single definition (`validateSourceFile`, `validateDefinition`, a
subagent's `schedules/`) do not depend on the walk and are a set of flaws of its
place; duplicate schedule names are left out. `writeManifest` is one step that
replaces the manifest or fails, because its rename is the only step that touches
`manifest.json`; its temporary file is like those of `SessionFiles`.

### ContentWalk, MemoryBudget, Trees
`ContentWalk` is `loadSessionStartContent` and `loadSessionInstructions`: a list of
sources, each with the options that `loadMemorySources`, `loadDeclaredSources` or
`discoverProjectAgents` gives its walk, and `walkContent` with its awaits (`stage`:
`lstat`, `realpath` with what follows from it, `readFile`). As in `Compile`, `work` is the list of
calls still to make, and other programs let files grow or remove files and links
between any two steps. `files`, `entries` and `bytes` are `LoadState`, shared by all
sources; `visited` is the `Set` of one source. A file has a `size`, which `lstat` sees,
and a `text`, which is what the checks after `readFile` measure: decoded as UTF-8, with
three bytes for every byte that is not. The text of a file that was written to is
anything from its size to three times that (`TextSizes`). Unlike discovery, a load fails as a
whole. An optional source passes over whatever `lstat` does not find below it, but a
path that vanishes between `lstat` and `realpath` fails an optional source too. Links
in the middle of a start path are not modelled. Where the default memory is
(`resolve-path.ts`) is an input.

`MemoryBudget` is `applyMemoryBudget` with its helpers as operators on sequences of
characters: the two parts of a line break, a character of one byte and one of two. A
content with CR LF whose bytes exceed the limit may be marked as truncated although
nothing but carriage returns is lost; `IsBounded` allows that. In `ContentWalk` the
sizes of files count in larger units than characters.

`Trees` says what a walk is meant to reach, by levels instead of by a list of calls, for
the properties of `Compile` and `ContentWalk`. Of the code it has only `Within`, the
filtering of a directory's sorted entries.

## Runs

Deadlock is not checked except in `compile_tree` and `content_load`: all the other
systems come to rest (all calls answered, the server closed, the turn over). A
compilation must not stop before it has compiled or rejected the project, nor a load
before it has loaded it or failed.

| Run | Instance | Question |
| --- | --- | --- |
| `accept_store` | 3 calls, 2 deliveries, store | one acceptance per delivery, complete sessions, honest duplicates, the contract |
| `accept_no_store` | 3 calls, 2 deliveries, no store | a late retry is never accepted again |
| `accept_duplicate_lost` | 2 calls, 1 delivery, store | violated: "duplicate" of a delivery that was never accepted |
| `server_runs` | 2 requests, 1 delivery, 1 crash | one run per delivery, shutdown reaches runs, close returns unless a client withholds its request, reachable sessions are dispatched |
| `server_lost_run` | 1 request, no crash | violated: an accepted session is not dispatched |
| `harness_turn` | 6 steps, batches of 2, 2 call ids | budget, answered calls, closed tool lines, fresh findings, own durations, nothing left behind, one operation at most after an abort, the turn ends |
| `trace_unhandled` | 3 steps, batches of 1, 2 call ids | violated: the rejected trace write of a failed call, which nobody handles |
| `run_record` | 2 turns, 1 tool line, 1 code | the record never changes the outcome, never lies, does not stay "running" |
| `files_limit` | 3 writers, 4 paths, limit 1 | whole files, no lost writes, bounded overshoot |
| `files_parallel` | 2 writers, 4 paths, limit 6 | violated: a writer fails because of another one's temporary file |
| `compile_tree` | 6 projects, 3 agents, 8 paths, depth 2, 10 files, 2 changes | limits kept and final, true causes, complete manifests |
| `content_load` | 14 projects, up to 5 sources, 14 paths, depth 3, 9 files, 21 entries, 2 changes; memory of 3 lines and 6 bytes | limits kept over all sources, complete loads, failures with a reason, memory within its budget |

Why the bounds are enough. Three calls are the claimant, a rival and a late
retry; a second delivery shows that deliveries do not touch each other. Two
requests suffice for a run and its retry, and one crash for a retry that meets
what an earlier process left. Six steps let the lead call a tool, delegate, and
let the subagent call a tool and answer, with the budget ending at any of these
points; a batch of two has a first and a last call, and two call ids let lead and
subagent use the same one or not. Two turns show what one
leaves to the next. Three writers at a limit of one, with no file or one file at the start, reach
the largest overshoot. The six projects are one that compiles and reads exactly as many
files as allowed (with a shared subagent, a file behind two paths, a link back to an
outer directory and two sources over one tree), and one each with a recursive
subagent, a tree that is too deep, everything a walk may refuse, a file too many, and
an agent file elsewhere; two changes let a file grow twice or vanish after its neighbour
grew. The projects of `content_load` are one session that uses exactly the files and
entries it may (guides, skills behind two paths, a cycle of links, a directory that two
sources share, the default memory outside the root), an agent's instructions, one file
and one entry too many, one that is too deep, a sparse one, each single flaw (a file that is
too large, or becomes so as text, among them), and a
memory file with every content of up to five characters, which goes beyond its three
lines and six bytes in every way. `Turns`, `MaxTools`, `MaxCrashes` and `MaxChanges` bound counters of the models;
`MaxSteps`, `MaxCalls`, `MaxEntries`, `MaxDepth`, `MaxFiles`, `MaxFileBytes`,
`MaxTotal`, `MaxMemoryLines`, `MaxMemoryBytes` and `MarkerBytes` are limits of the code.

### Fairness
- `SessionAccept!FairSpec`: Node settles the promise of a file operation, one way
  or the other, and runs its continuation.
- `Server!FairSpec`: a handler that awaits `postSession` proceeds, Node emits a response's
  events, a connection that was answered and owes nothing more is ended by `close()` or
  the keep-alive timeout, the grace timer fires. Nothing is assumed about runs, and
  nothing about a client in the middle of a request: `server.close()` stops the timeouts
  that would end it, so that a silent client holds `close()` up for ever, before the
  grace timer is armed. `CloseReturns` therefore has the premise that no client dawdles
  for ever (`[]<> ~Dawdles(r)`); without it TLC finds that behaviour.
- `ToolTrace!FairTraceSpec`, with `Harness!Fairness`: the nodes of the graph proceed. `AbortEndsTurn` needs no more.
  `TurnEnds` is stated under the additional premise `OthersAreFair`: the provider
  and the tools settle.
- `SessionRun!FairSpec`: every await of `runAgent` settles.

### What the violated properties show
Each is a statement of the repository that the code does not keep; the source
line and the quotation are in `PROJECT.json`.

1. With a store, a failure after `mkdir` leaves the delivery claimed for ever:
   retries are told "duplicate" and the session is never accepted.
2. If the client disconnects while `postSession` is awaited, the "close" listener
   comes too late and the accepted session is never run.
3. `countFiles` fails on a temporary file that another writer renames meanwhile.
4. `notifyObserver` never sees the promise of a failed call's trace write; if that
   write fails, its rejection is unhandled and ends the process by default.

Met on the way, and part of the models:

- Without a store, `create` looks the thread up and invokes the accept graph later, so
  that two concurrent calls with one delivery id are both accepted. `LateRetryNotAccepted`
  says what is left: a retry that comes after the answer is not.
- The tools node ends an aborted turn while its tool goes on, and a tool whose approval
  was awaited may even start then; `NothingOutlivesTurn` is about turns nobody aborted.
- `withSignal` drops the promise of an operation that began under an aborted signal, so that a
  rejection can go unhandled after an abort. `AbortAdmitsOne` says that there is one
  such operation at most.
- A run that a "close" event dispatches after the runs were aborted is not aborted;
  `ShutdownReachesRuns` is about runs whose response was written.
- `updateStatus` keeps the error code of an earlier turn, a turn whose load fails leaves
  the record as it was, and a crash or a swallowed write can leave it at "running". The
  properties of `SessionRun` say what holds beside that.
- A binary file under `skills/` fails a load although its size is within the limits, because
  its text is not; for `FailureIsReal` that is a file too large.

## Proofs

`SessionAcceptProofs` proves, for any calls and deliveries, that `SessionAccept`
keeps its types (`TypeCorrect`) and that a duplicate has a rival
(`DuplicatesHaveRivals`); and, when a store is configured, that no delivery is
accepted twice (`NoSecondSession`) and that accepted sessions are complete
(`AcceptedSessionsComplete`). With a store or a durable checkpointer, a retry sent
after the acceptance was answered is never accepted again (`LateRetriesRefused`). The only
assumption on the constants is that `UseStore` and `Durable` are Booleans.

Neither safety property is inductive. `DiskInv` adds what the code relies on
silently: nothing is in a directory before its `mkdir`; whoever is past `mkdir`, or
was accepted, has the directory; at most one call is past `mkdir` or accepted per
delivery; and the files present tell how far the owner has come (`OwnerProgress`). The
step from one call to the next is then a case split: steps that touch neither
disk nor ownership (`QuietKeeps`), the claim (`ClaimKeeps`), and the owner's own steps
(`OwnerKeeps`), each of which leaves every other delivery alone. `RivalInv` does the
same for duplicates: whoever sees a directory or a thread sees the trace of a
call that is an owner, accepted, failed or lost. `LateInv` is the argument without a
store: a late retry stays late of an acceptance, the thread of an acceptance is never
lost, and so a late retry is never at `invoke`.

The same module proves that `SessionAccept` with a store implements
`DeliveryContract` (`AcceptImplementsContract`): a successful `mkdir` is `Claim`,
`Invoke` is `Accept`, a failure of the owner is `Abandon`, a crash is `Die`, every other
answer is `Decline`, and the remaining steps stutter. The proof rests on the
invariants above: a delivery whose directory exists and that has neither an
owner nor an acceptance is "abandoned" and stays so.

`ServerProofs`, for any requests, deliveries and number of crashes: one run per
delivery (`OneRun`), and a shutdown that finds every run whose response was written
(`ShutdownFindsRuns`). Neither is inductive. `ClaimInv` ties the requests to the contract: a request claims
only the delivery it carries, and a delivery has one holder, the request that claims
it or was accepted for it. `DispatchInv` says that a listener is armed, and a run
dispatched, only after an accepted answer, and that an armed listener has
dispatched nothing. `ShutdownInv` says that a written response has spent its
listener and that the runs are aborted after the last connection ended.

`HarnessProofs`, for every step budget and batch limit: the shared budget
(`BudgetIsKept`), answered calls (`CallsAreAnswered`), closed tool lines
(`LinesAreClosed`), nothing left behind (`NothingIsLeft`), one operation at most after an abort (`AbortIsLast`),
and fresh findings
(`FindingsAreFresh`, an action property). The invariant says where two processes may
be together: an operation runs ahead of its node only after an abort, when the node
has failed (`OpInv`); the subagent works only inside a delegation, and a tool it
leaves behind finds the lead failed for good (`SubInv`); once the budget is exceeded,
nobody is in a place from which a step could be taken (`SpentInv`); and once an
operation began under an aborted signal, no other node is about to begin one
(`LateInv`), because two are never about to at once (`OneBegins`).

The same module proves that `ToolTrace` implements `Harness` (`TracingIsPassive`), so that
all of this holds of a traced turn, and that a traced duration is the call's own
(`DurationsAreOwn`). `KeptInv` is why: until an abort, the subagent's call keeps its own
start, and so does the lead's unless the subagent used its id in this delegation.

`RunProofs`, for any number of turns, tool lines and error codes: the outcome is the
graph's (`OutcomesAreGraphs`), `meta.json` shows only what happened
(`StatusesHappened`, `StatusesAreLast`), and the transcript has gaps but no disorder
(`TranscriptsInOrder`). The step `runAgent` is at determines how the graph ended
(`GraphInv`) and which lines the turn can have written (`LinesInv`).

`FilesProofs`, for any writers, paths and entry limit: whole files
(`FilesAreWhole`), no lost writes (`WritesStay`), and the bound of the overshoot
(`Overshoot`). Files never go away, so whoever counts the directory counts at least
the files of the start (`CountCovers`); if those filled it, only overwriting gets past
the check (`CheckedHasRoom`) and the files stay the same (`FullStays`); if not, each
writer adds one to less than the limit.

`TreeProofs` has what `CompileProofs` and `ContentProofs` share. `Reached` is the least set
with the start of a walk and the entries of its directories: it is closed
(`ReachedIsClosed`), because a level that adds no path is the last one and there are as
many levels as paths; and whatever else is closed contains it (`ReachedIsLeast`). So to
show that a walk misses nothing it suffices to show that what it has dealt with is
closed. The induction under this is on numbers: a set with 0 and the successors of its
members is `Nat` (`SetInduction`, from the minimality of well-founded orders), and a
function defined by recursion on a number exists (`Recursion`).

`CompileProofs`, for any projects and limits and whatever other programs do to the tree:

- What discovery reads stays within the limits (`BoundsAreKept`), and nothing is read
  once they are exhausted (`NothingAfterBounds`). `ReadHasRoom` is the strengthening:
  while a file is being read there is room for one more and the bounds are not
  exhausted; its bytes are checked again when they are there.
- `CallInv` gives the list of calls its types, `VisitsFirst` says that visits stand
  before all other calls and belong to one walk. `TypeOK` follows (`CompileTypes`).
- An agent is reported as recursive only below itself, and none is discovered below
  itself (`RecursionReal`). `AncestorInv` is why: when a call is the first one, the
  agents above it are those whose "leave" is still in the list, and these are exactly
  `active`. A shared subagent finds its definition removed again.
- A walk is cut off as too deep only in a tree with more directories than levels
  (`TooDeepReal`). `WalkInv`: a visit at depth n is made after at least n
  directories were visited, all of them reached from the start.
- A manifest is written only when nothing was reported, with every agent and every file
  that still exists (`ManifestComplete`). `Whole` is the invariant: an agent that should
  be entered is entered or is to come, and of each source some set of directories has
  been entered so that every entry of these is dealt with or is to be visited. When
  no call is left the set is closed, and `ReachedIsLeast` does the rest.

`ContentProofs` proves of a load, for any projects, limits and changes, that files,
entries and bytes stay within the limits over all sources, and that whatever is loaded
was counted (`LoadKeepsLimits`); and that a load that succeeds has every file of every
source that still exists (`LoadComplete`). The argument is that of `ManifestComplete`. What
differs is that a source's own path is walked even where its name is ignored, that
links may be excluded, and that the set of visited directories is emptied for each
source: `CallInv` says that the visits in the list are all of the source that emptied
it last.

A load that fails in a project nobody changed has a reason (`FailureReal`). The reasons
of `FailureIsReal` are those of the project as a whole: a source that is missing or leads
outside, a file too large as text, a tree too deep, or more files, bytes or entries in all sources
together than the limits allow. The walk knows only three counters and a list of
calls, so the invariant, `Undisturbed`, says what these stand for while nobody has
changed anything: there are sets `F` of files and `D` of directories, each with its
source and all of them among those the project has, and the counters are the
cardinalities of `F`, of the bytes of the text of `F` and of the entries of `D` (`Account`). Whoever
exceeds a limit then shows a subset that is too large already. For the counts to be
cardinalities nothing may be counted twice, and that is where links could do
harm: no two calls are for the same source and path (`Apart`), a file that is to be
visited is not in `F`, and a directory visited before, by whatever path, is not
entered again (`Expected`). A visit carries the chain of directories that led to it, one
in the other and all different (`OnTrail`), which is a tree too deep when the visit is
beyond the limit (`DeepIsFlaw`); a cycle of links repeats a directory and so never
makes one. What was seen of the first call is still so (`Inspected`). The step of a
directory (`DirectoryAccount`) is the one that extends all of this: its entries are new
calls, apart from each other and from the old ones because a path is an entry of one
directory once.

What of a memory file reaches the model is within the budget, for every content
(`MemoryBounded`). `ByteLength`, `SplitLines` and `Join` are recursive functions of a
position in the text; `Recursion` says that the sequence of their values exists, and
facts go along it with `SetInduction`: the bytes of a text with one character more
(`ByteLengthAppend`), one line more for each separator (`SplitCount`), one line break
less than lines (`JoinFirst`). `Truncated` then bounds what truncation leaves over, and
`BudgetKept` adds the marker and its line break.

The assumptions on the constants: the numbers are natural numbers, the two limits
of the harness are positive, and the writers are a finite non-empty set disjoint
from the paths and from the two markers of a file's content; a project's functions
have the domains and ranges that `InputAssumption` and `ContentInputAssumption` state,
its tree is finite, and its sources are a list; a line break and a character fit into
the memory budget before the marker (25000 bytes, and a marker of 51); and (in
`Compile`) requests and flaws are given for every agent down to where discovery stops.
`ContentInputAssumption` also says four things of a file system and of the code:
the text of a file has at least its bytes and at most three times as many;
`realpath` of a real path is that path; a path, being absolute, is an entry of one
directory and listed there once; and a walk that prunes ignored directories follows no
links, as `discoverProjectAgents` prunes and does not follow, and the others follow and do
not prune.

The type invariants of `Harness`, `SessionRun` and `SessionFiles` are conjuncts of the
inductive invariants above (`HarnessTypes`, `RunTypes`, `FileTypes`); the runs of `Harness`
and `SessionFiles` leave them to the proof.

Every invariant and every action property of the passing runs is a theorem. Only
model-checked are the liveness properties (`DuplicateSettles`, `CloseReturns`,
`ReachableIsDispatched`, `AbortEndsTurn`, `TurnEnds`, `RunningIsReplaced`): they rest on fairness, and
so on `ENABLED`, about which the prover cannot reason. That the two walks never get
stuck is checked by the runs for the same reason.

## Plan

What would add most next, each step keeping what is there:

1. A composition of `Server` and `SessionRun`: shutdown, crash and retry as the
   session's record shows them, with an abstract specification of what a client
   and an inspector of the directory may see together, and the proof that the
   composition implements it from the invariants above.
2. `resolveDefaultMemoryPath`, whose reads of git's files can meet a worktree that is
   being moved.

## Not modelled

- Argument parsing and process wiring of the command line. A first signal is `Close`
  of `Server`; a second one exits the process, which is `Crash` of `Server` and
  `SessionAccept` at any step.
- `context/in-memory-backend.ts`, `context/files-channel.ts`, `tools/filesystem.ts`: a map whose
  operations are atomic, and a merge of two records. They have no interleaving,
  failure or limit that `SessionFiles` does not have in a harder form.
- `context/paths.ts`, `triggerInstant`, the checks of one agent, tool or schedule definition, and the
  sanitising of trace events: functions of one value without state, which a test
  reaches directly. Where their outcome matters it is an input: the form of a
  command, the flaws of a definition.
- `channel/schedule.ts` has no state: `dispatchSchedule` is a call of `create` like
  another, refused by the same kind of checks.
- LangGraph's scheduler, serialisation and recursion limit (25 super-steps unless told
  otherwise; with the default budget of 20 steps, one at least per super-step, the
  budget ends a turn first), the HTTP parser, the contents of messages, prompts and
  results, and the types in `shared/`.

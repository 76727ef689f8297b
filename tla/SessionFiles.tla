---------------------------- MODULE SessionFiles ----------------------------
(***************************************************************************)
(* The session file system on disk: DiskSessionBackend.write with its      *)
(* entry limit (hasFile, countFiles) and its atomic replacement of a file  *)
(* (writeAtomicFile), under concurrent writers, failures and a crash.      *)
(* Nothing deletes a session file; only temporary files come and go.       *)
(*                                                                         *)
(* All paths lie in one directory, as the findings of a session do, and    *)
(* have passed ConfinedSessionFilesystem.  A writer writes one path once;  *)
(* its content and its temporary file are named after it.                  *)
(***************************************************************************)
EXTENDS Naturals, FiniteSets

CONSTANTS Writers,      \* calls of DiskSessionBackend.write
          Paths,        \* session paths
          MaxEntries    \* maxEntries

Nobody  == "nobody"    \* no file
Earlier == "earlier"   \* a file from before

ASSUME FilesAssumption ==
  /\ MaxEntries \in Nat
  /\ Writers # {}
  /\ Writers \cap (Paths \cup {Nobody, Earlier}) = {}
  /\ IsFiniteSet(Writers) /\ IsFiniteSet(Paths)

VARIABLES
  path,      \* path[w]: the path writer w writes
  pc,        \* pc[w]: the file operation writer w awaits next
  result,    \* result[w]: how the write of w settled
  content,   \* content[p]: the writer whose content is in the file of p
  temp,      \* temp[w]: the temporary file of w
  names,     \* names[w]: directory entries w has still to count
  counted,   \* counted[w]: entries w has counted
  before,    \* history: the paths that had a file at the start
  faults     \* history: a file operation failed by itself, or a crash

vars == <<path, pc, result, content, temp, names, counted, before, faults>>

Stages  == {"hasFile", "readdir", "count", "open", "fill", "rename", "done"}
Results == {"none", "written", "limit", "failed", "lost"}
Files   == {p \in Paths : content[p] # Nobody}
Entries == Files \cup {w \in Writers : temp[w] # "none"}

Init ==
  /\ path \in [Writers -> Paths]
  /\ pc = [w \in Writers |-> "hasFile"]
  /\ result = [w \in Writers |-> "none"]
  /\ before \in {S \in SUBSET Paths : Cardinality(S) <= MaxEntries}
  /\ content = [p \in Paths |-> IF p \in before THEN Earlier ELSE Nobody]
  /\ temp = [w \in Writers |-> "none"]
  /\ names = [w \in Writers |-> {}]
  /\ counted = [w \in Writers |-> 0]
  /\ faults = FALSE

Goto(w, from, to) ==
  /\ pc[w] = from
  /\ pc' = [pc EXCEPT ![w] = to]
  /\ UNCHANGED <<path, result, before>>

Settle(w, from, r) ==
  /\ pc[w] = from
  /\ pc' = [pc EXCEPT ![w] = "done"]
  /\ result' = [result EXCEPT ![w] = r]
  /\ UNCHANGED <<path, before>>

-----------------------------------------------------------------------------
(* Overwriting a file needs no room; hasFile takes any error for "no".     *)
HasFile(w) ==
  /\ IF content[path[w]] # Nobody
     THEN \/ Goto(w, "hasFile", "open") /\ UNCHANGED faults
          \/ Goto(w, "hasFile", "readdir") /\ faults' = TRUE
     ELSE Goto(w, "hasFile", "readdir") /\ UNCHANGED faults
  /\ UNCHANGED <<content, temp, names, counted>>

(* Temporary files are entries like any other. *)
Readdir(w) ==
  /\ Goto(w, "readdir", "count")
  /\ names' = [names EXCEPT ![w] = Entries]
  /\ UNCHANGED <<content, temp, counted, faults>>

(* countFiles stats the names one after the other.  A name that is gone is *)
(* an error here, and the write fails with it.                             *)
CountName(w) ==
  \E n \in names[w] :
    /\ IF n \in Entries
       THEN /\ Goto(w, "count", "count")
            /\ counted' = [counted EXCEPT ![w] = @ + 1]
       ELSE Settle(w, "count", "failed") /\ UNCHANGED counted
    /\ names' = [names EXCEPT ![w] = @ \ {n}]
    /\ UNCHANGED <<content, temp, faults>>

(* Mutant of Decide: one entry too many. *)
DecideOneMore(w) ==
  /\ names[w] = {}
  /\ IF counted[w] > MaxEntries
     THEN Settle(w, "count", "limit")
     ELSE Goto(w, "count", "open")
  /\ UNCHANGED <<content, temp, names, counted, faults>>

Decide(w) ==
  /\ names[w] = {}
  /\ IF counted[w] >= MaxEntries
     THEN Settle(w, "count", "limit")
     ELSE Goto(w, "count", "open")
  /\ UNCHANGED <<content, temp, names, counted, faults>>

(* Mutant of Open: the file itself is opened for writing. *)
OpenInPlace(w) ==
  /\ Goto(w, "open", "fill")
  /\ content' = [content EXCEPT ![path[w]] = w]
  /\ temp' = [temp EXCEPT ![w] = "partial"]
  /\ UNCHANGED <<names, counted, faults>>

(* mkdir, then the temporary file, with the flag "wx". *)
Open(w) ==
  /\ Goto(w, "open", "fill")
  /\ temp' = [temp EXCEPT ![w] = "partial"]
  /\ UNCHANGED <<content, names, counted, faults>>

(* writeFile, sync and close. *)
Fill(w) ==
  /\ Goto(w, "fill", "rename")
  /\ temp' = [temp EXCEPT ![w] = "whole"]
  /\ UNCHANGED <<content, names, counted, faults>>

(* Mutant of Rename: the name of the temporary file is not unique. *)
RenameShared(w) ==
  /\ Settle(w, "rename", "written")
  /\ \E o \in Writers :
       /\ temp[o] = "whole"
       /\ content' = [content EXCEPT ![path[w]] = o]
  /\ temp' = [temp EXCEPT ![w] = "none"]
  /\ UNCHANGED <<names, counted, faults>>

Rename(w) ==
  /\ Settle(w, "rename", "written")
  /\ content' = [content EXCEPT ![path[w]] = w]
  /\ temp' = [temp EXCEPT ![w] = "none"]
  /\ UNCHANGED <<names, counted, faults>>

(* Any operation but hasFile's stat rejects.  The temporary file is        *)
(* removed, unless that fails as well.                                     *)
Fails(w) ==
  /\ pc[w] \notin {"hasFile", "done"}
  /\ Settle(w, pc[w], "failed")
  /\ temp' \in {temp, [temp EXCEPT ![w] = "none"]}
  /\ faults' = TRUE
  /\ UNCHANGED <<content, names, counted>>

(* The process dies; nobody removes its temporary files afterwards. *)
Crash ==
  /\ \E w \in Writers : pc[w] # "done"
  /\ result' = [w \in Writers |-> IF pc[w] # "done" THEN "lost" ELSE result[w]]
  /\ pc' = [w \in Writers |-> "done"]
  /\ faults' = TRUE
  /\ UNCHANGED <<path, content, temp, names, counted, before>>

-----------------------------------------------------------------------------
Write(w) ==
  \/ HasFile(w) \/ Readdir(w) \/ CountName(w) \/ Decide(w)
  \/ Open(w) \/ Fill(w) \/ Rename(w) \/ Fails(w)

Next == (\E w \in Writers : Write(w)) \/ Crash

Spec == Init /\ [][Next]_vars

-----------------------------------------------------------------------------
(* What each variable may hold. *)
TypeOK ==
  /\ path \in [Writers -> Paths]
  /\ pc \in [Writers -> Stages]
  /\ result \in [Writers -> Results]
  /\ content \in [Paths -> Writers \cup {Nobody, Earlier}]
  /\ temp \in [Writers -> {"none", "partial", "whole"}]
  /\ names \in [Writers -> SUBSET (Paths \cup Writers)]
  /\ counted \in [Writers -> Nat]
  /\ before \subseteq Paths
  /\ faults \in BOOLEAN

(* A reader never finds half a file or a file of a write that did not      *)
(* succeed: what is in a file is what a settled write to it wrote.         *)
NothingHalfWritten ==
  \A p \in Paths : content[p] \in Writers =>
    result[content[p]] = "written" /\ path[content[p]] = p

(* A write that succeeded is there until a write to the same path succeeds.*)
WrittenStays ==
  \A w \in Writers : result[w] = "written" =>
    content[path[w]] = w \/ \E o \in Writers \ {w} :
                              result[o] = "written" /\ path[o] = path[w]

(* The entry limit is checked before the write and not held during it.     *)
(* Concurrent writers go beyond it, but by no more than one file each.     *)
OvershootBounded == Cardinality(Files) < MaxEntries + Cardinality(Writers)

(* docs/concepts/sessions.md: parallel writers can add distinct paths      *)
(* without clobbering.  If there is room for all and the disk does not     *)
(* fail, none of them fails.                                               *)
ParallelWritersAdd ==
  /\ ~faults
  /\ \A w \in Writers : path[w] \notin before
  /\ \A v, w \in Writers : path[v] = path[w] => v = w
  /\ Cardinality(before) + 2 * Cardinality(Writers) <= MaxEntries
  => \A w \in Writers : result[w] \in {"none", "written"}
=============================================================================

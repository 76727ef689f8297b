-------------------------------- MODULE Trees --------------------------------
(* What a walk over a directory tree is meant to reach, for the properties *)
(* of the modules that walk one.  A tree has the real path of every path   *)
(* and, by real path, its kind and its entries; only the paths of S exist. *)
EXTENDS Naturals, Sequences, FiniteSets

IsKind(tree, p, k, S) == tree.real[p] \in S /\ tree.kind[tree.real[p]] = k

Entries(tree, p, S) ==
  LET all == tree.entries[tree.real[p]]
  IN  {all[i] : i \in DOMAIN all} \cap S

(* The members of a list that are in S, in their order: SelectSeq, written *)
(* as a recursive function.                                                *)
Within(list, S) ==
  LET kept[i \in 0 .. Len(list)] ==
        IF i = 0 THEN <<>>
        ELSE IF list[i] \in S THEN Append(kept[i - 1], list[i])
        ELSE kept[i - 1]
  IN  kept[Len(list)]

(* One level further down from the paths T. *)
Below(tree, T, S) ==
  UNION {Entries(tree, p, S) :
           p \in {q \in T : IsKind(tree, q, "directory", S)}}

(* start and the entries of its directories, at most so many levels down   *)
(* as there are paths.                                                     *)
Levels(tree, start, S) ==
  LET down[k \in 0 .. Cardinality(S)] ==
        IF k = 0 THEN {start} \cap S
        ELSE down[k - 1] \cup Below(tree, down[k - 1], S)
  IN  down

Reached(tree, start, S) == Levels(tree, start, S)[Cardinality(S)]

(* The real directories that the walk enters. *)
Directories(tree, start, S) ==
  {tree.real[p] : p \in {q \in Reached(tree, start, S) :
                           IsKind(tree, q, "directory", S)}}
=============================================================================

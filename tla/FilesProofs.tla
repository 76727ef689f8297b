----------------------------- MODULE FilesProofs -----------------------------
(***************************************************************************)
(* Proofs about SessionFiles for any writers, paths and entry limit.       *)
(*                                                                         *)
(* The overshoot is the hard one.  Files never go away, so a writer that   *)
(* counts the directory counts at least the files of the start; if those   *)
(* filled the directory, no writer gets past the check but to overwrite.   *)
(* If they did not, each writer adds one file to less than the limit.      *)
(***************************************************************************)
EXTENDS SessionFiles, FiniteSetTheorems, FunctionTheorems, TLAPS

DoneHasResult == \A w \in Writers : result[w] # "none" => pc[w] = "done"

Succeeded == {w \in Writers : result[w] = "written"}
Added     == {path[w] : w \in Succeeded}

(* Files are added by writers that succeed, and are never removed. *)
FilesOnlyAdded == before \subseteq Files /\ Files \subseteq before \cup Added

StartFits == Cardinality(before) <= MaxEntries

(* What a counting writer has counted and still counts covers the files of *)
(* the start.                                                              *)
CountCovers ==
  \A w \in Writers :
    pc[w] = "count" =>
      Cardinality(before) <= counted[w] + Cardinality(names[w] \cap before)

Full == Cardinality(before) = MaxEntries

(* Past the check, there was room at the start or the file is there. *)
CheckedHasRoom ==
  \A w \in Writers :
    pc[w] \in {"open", "fill", "rename"} /\ Full => content[path[w]] # Nobody

FullStays == Full => Files = before

Inv ==
  /\ TypeOK
  /\ DoneHasResult
  /\ NothingHalfWritten
  /\ WrittenStays
  /\ FilesOnlyAdded
  /\ StartFits
  /\ CountCovers
  /\ CheckedHasRoom
  /\ FullStays

-----------------------------------------------------------------------------
(* Taking one element away makes a set smaller by one at most. *)
LEMMA RemoveOne ==
  ASSUME NEW S, NEW x, IsFiniteSet(S)
  PROVE  Cardinality(S \ {x}) >= Cardinality(S) - 1
<1>1. Cardinality(S) \in Nat
  BY FS_CardinalityType
<1>2. Cardinality(S \ {x}) = IF x \in S THEN Cardinality(S) - 1
                                       ELSE Cardinality(S)
  BY FS_RemoveElement
<1> QED
  BY <1>1, <1>2

(* Subsets of the paths are finite. *)
LEMMA PathsFinite ==
  ASSUME NEW S \in SUBSET Paths
  PROVE  IsFiniteSet(S) /\ Cardinality(S) \in Nat
BY FilesAssumption, FS_Subset, FS_CardinalityType

(* The disk backend starts with at most MaxEntries files. *)
LEMMA InitInv == Init => Inv
<1> SUFFICES ASSUME Init PROVE Inv
  OBVIOUS
<1>1. TypeOK
  BY DEF Init, TypeOK, Stages, Results
<1>2. Files = before
  BY FilesAssumption DEF Init, Files, Nobody, Earlier
<1>3. DoneHasResult /\ WrittenStays /\ CountCovers /\ CheckedHasRoom
  BY DEF Init, DoneHasResult, WrittenStays, CountCovers, CheckedHasRoom
<1>4. NothingHalfWritten
  BY FilesAssumption DEF Init, NothingHalfWritten, Nobody, Earlier
<1>5. StartFits
  BY DEF Init, StartFits
<1> QED
  BY <1>1, <1>2, <1>3, <1>4, <1>5 DEF Inv, FilesOnlyAdded, FullStays

(* Every step keeps the types. *)
LEMMA TypeStep == ASSUME TypeOK, Next PROVE TypeOK'
<1> USE DEF TypeOK, Stages, Results
<1>1. ASSUME NEW w \in Writers, HasFile(w) PROVE TypeOK'
  BY <1>1 DEF HasFile, Goto
<1>2. ASSUME NEW w \in Writers, Readdir(w) PROVE TypeOK'
  BY <1>2 DEF Readdir, Goto, Entries, Files
<1>3. ASSUME NEW w \in Writers, CountName(w) PROVE TypeOK'
  BY <1>3 DEF CountName, Goto, Settle
<1>4. ASSUME NEW w \in Writers, Decide(w) PROVE TypeOK'
  BY <1>4 DEF Decide, Goto, Settle
<1>5. ASSUME NEW w \in Writers, Open(w) \/ Fill(w) \/ Rename(w) PROVE TypeOK'
  BY <1>5 DEF Open, Fill, Rename, Goto, Settle
<1>6. ASSUME NEW w \in Writers, Fails(w) PROVE TypeOK'
  BY <1>6 DEF Fails, Settle
<1>7. CASE Crash
  BY <1>7 DEF Crash
<1> QED
  BY <1>1, <1>2, <1>3, <1>4, <1>5, <1>6, <1>7 DEF Next, Write

-----------------------------------------------------------------------------
(* Every step but Rename leaves the files alone, and no write succeeds.    *)
Quiet ==
  /\ UNCHANGED <<path, content, before>>
  /\ \A w \in Writers : result'[w] = "written" <=> result[w] = "written"
  /\ DoneHasResult'

LEMMA QuietSteps ==
  ASSUME TypeOK, DoneHasResult, Next,
         \A w \in Writers : ~Rename(w)
  PROVE  Quiet
<1> USE DEF TypeOK, DoneHasResult, Quiet
<1>1. ASSUME NEW w \in Writers, HasFile(w) PROVE Quiet
  BY <1>1 DEF HasFile, Goto
<1>2. ASSUME NEW w \in Writers, Readdir(w) PROVE Quiet
  BY <1>2 DEF Readdir, Goto
<1>3. ASSUME NEW w \in Writers, CountName(w) PROVE Quiet
  BY <1>3 DEF CountName, Goto, Settle
<1>4. ASSUME NEW w \in Writers, Decide(w) PROVE Quiet
  BY <1>4 DEF Decide, Goto, Settle
<1>5. ASSUME NEW w \in Writers, Open(w) \/ Fill(w) PROVE Quiet
  BY <1>5 DEF Open, Fill, Goto
<1>6. ASSUME NEW w \in Writers, Fails(w) PROVE Quiet
  BY <1>6 DEF Fails, Settle
<1>7. CASE Crash
  BY <1>7 DEF Crash
<1> QED
  BY <1>1, <1>2, <1>3, <1>4, <1>5, <1>6, <1>7 DEF Next, Write

(* A quiet step keeps everything that is about files and results. *)
LEMMA QuietKeeps ==
  ASSUME TypeOK, NothingHalfWritten, WrittenStays, FilesOnlyAdded, StartFits,
         FullStays, Quiet
  PROVE  /\ NothingHalfWritten' /\ WrittenStays' /\ FilesOnlyAdded'
         /\ StartFits' /\ FullStays'
<1>1. Files' = Files /\ Succeeded' = Succeeded
  BY DEF Quiet, Files, Succeeded
<1>2. Added' = Added
  BY <1>1 DEF Quiet, Added
<1>3. FilesOnlyAdded' /\ StartFits' /\ FullStays'
  BY <1>1, <1>2 DEF Quiet, FilesOnlyAdded, StartFits, FullStays, Full
<1>4. NothingHalfWritten' /\ WrittenStays'
  BY DEF Quiet, NothingHalfWritten, WrittenStays
<1> QED
  BY <1>3, <1>4

(* A rename puts one whole file in its place.                              *)
LEMMA RenameKeeps ==
  ASSUME Inv, NEW w \in Writers, Rename(w)
  PROVE  Inv'
<1> USE DEF Inv
<1>1. /\ pc[w] = "rename"
      /\ UNCHANGED <<path, before, names, counted>>
      /\ pc' = [pc EXCEPT ![w] = "done"]
      /\ result' = [result EXCEPT ![w] = "written"]
      /\ content' = [content EXCEPT ![path[w]] = w]
  BY DEF Rename, Settle
<1>2. path[w] \in Paths /\ result[w] = "none"
  <2>1. path[w] \in Paths
    BY DEF TypeOK
  <2> QED
    BY <1>1, <2>1 DEF DoneHasResult
<1>3. TypeOK'
  BY TypeStep DEF Next, Write
<1>4. DoneHasResult'
  BY <1>1 DEF DoneHasResult, TypeOK
<1>5. Files' = Files \cup {path[w]}
  BY <1>1, <1>2, FilesAssumption DEF Files, TypeOK, Nobody
<1>6. Added' = Added \cup {path[w]}
  BY <1>1, <1>2 DEF Added, Succeeded, TypeOK
<1>7. FilesOnlyAdded' /\ StartFits'
  BY <1>1, <1>5, <1>6 DEF FilesOnlyAdded, StartFits
<1>8. FullStays'
  BY <1>1, <1>2, <1>5 DEF FullStays, Full, CheckedHasRoom, Files
<1>9. CountCovers'
  BY <1>1 DEF CountCovers, TypeOK
<1>10. CheckedHasRoom'
  BY <1>1, <1>2, FilesAssumption DEF CheckedHasRoom, Full, TypeOK, Nobody
<1>11. NothingHalfWritten'
  BY <1>1, <1>2 DEF NothingHalfWritten, TypeOK
<1>12. WrittenStays'
  BY <1>1, <1>2 DEF WrittenStays, TypeOK
<1> QED
  BY <1>3, <1>4, <1>7, <1>8, <1>9, <1>10, <1>11, <1>12

(* The check of the entry limit, seen from the files of the start. *)
LEMMA CheckKeeps ==
  ASSUME Inv, Next, Quiet
  PROVE  CountCovers' /\ CheckedHasRoom'
<1> USE DEF Inv, TypeOK
<1>0. before \in SUBSET Paths /\ Cardinality(before) \in Nat
  BY PathsFinite
<1>1. ASSUME NEW w \in Writers, HasFile(w)
      PROVE  CountCovers' /\ CheckedHasRoom'
  BY <1>1 DEF HasFile, Goto, CountCovers, CheckedHasRoom, Full
<1>2. ASSUME NEW w \in Writers, Readdir(w)
      PROVE  CountCovers' /\ CheckedHasRoom'
  <2>1. /\ names' = [names EXCEPT ![w] = Entries]
        /\ pc' = [pc EXCEPT ![w] = "count"]
        /\ UNCHANGED <<path, before, content, counted>>
    BY <1>2 DEF Readdir, Goto
  <2>2. names'[w] \cap before' = before
    BY <2>1 DEF FilesOnlyAdded, Entries
  <2>3. Cardinality(before') <= counted'[w] + Cardinality(names'[w] \cap before')
    <3>1. counted'[w] \in Nat
      BY <2>1
    <3>2. /\ Cardinality(before') = Cardinality(before)
          /\ Cardinality(names'[w] \cap before') = Cardinality(before)
      BY <2>1, <2>2
    <3> QED
      BY <1>0, <3>1, <3>2
  <2>4. CountCovers'
    BY <2>1, <2>3 DEF CountCovers
  <2>5. CheckedHasRoom'
    BY <2>1 DEF CheckedHasRoom, Full
  <2> QED
    BY <2>4, <2>5
<1>3. ASSUME NEW w \in Writers, CountName(w)
      PROVE  CountCovers' /\ CheckedHasRoom'
  <2>1. PICK n \in names[w] :
          /\ IF n \in Entries
             THEN /\ Goto(w, "count", "count")
                  /\ counted' = [counted EXCEPT ![w] = @ + 1]
             ELSE Settle(w, "count", "failed") /\ UNCHANGED counted
          /\ names' = [names EXCEPT ![w] = @ \ {n}]
          /\ UNCHANGED <<content, temp, faults>>
    BY <1>3 DEF CountName
  <2>2. CheckedHasRoom'
    BY <2>1 DEF CheckedHasRoom, Full, Goto, Settle
  <2>3. CASE n \notin Entries
    BY <2>1, <2>2, <2>3 DEF Settle, CountCovers
  <2>4. CASE n \in Entries
    <3> DEFINE rest == names[w] \cap before
    <3>1. /\ pc[w] = "count" /\ pc' = [pc EXCEPT ![w] = "count"]
          /\ counted' = [counted EXCEPT ![w] = @ + 1]
          /\ names' = [names EXCEPT ![w] = @ \ {n}]
          /\ UNCHANGED before
      BY <2>1, <2>4 DEF Goto
    <3>2. IsFiniteSet(rest) /\ Cardinality(rest) \in Nat
      BY <1>0, PathsFinite
    <3>3. names'[w] \cap before' = rest \ {n}
      BY <3>1
    <3>4. Cardinality(rest \ {n}) >= Cardinality(rest) - 1
      <4> HIDE DEF rest
      <4> QED
        BY <3>2, RemoveOne, Zenon
    <3>5. Cardinality(rest \ {n}) \in Nat
      BY <1>0, PathsFinite
    <3>6. Cardinality(before) <= counted[w] + Cardinality(rest)
      BY <3>1 DEF CountCovers
    <3>7. Cardinality(before') <= counted'[w] + Cardinality(names'[w] \cap before')
      <4> HIDE DEF rest
      <4>1. counted[w] \in Nat /\ counted'[w] = counted[w] + 1
        BY <3>1
      <4>2. /\ Cardinality(before') = Cardinality(before)
            /\ Cardinality(names'[w] \cap before') = Cardinality(rest \ {n})
        BY <3>1, <3>3
      <4> QED
        BY <1>0, <3>2, <3>4, <3>5, <3>6, <4>1, <4>2
    <3>8. CountCovers'
      BY <3>1, <3>7 DEF CountCovers
    <3> QED
      BY <2>2, <3>8
  <2> QED
    BY <2>3, <2>4
<1>4. ASSUME NEW w \in Writers, Decide(w)
      PROVE  CountCovers' /\ CheckedHasRoom'
  <2>1. pc[w] = "count" /\ names[w] = {}
        /\ UNCHANGED <<path, before, content, names, counted>>
    BY <1>4 DEF Decide, Goto, Settle
  <2>2. Cardinality(before) <= counted[w]
    <3>1. Cardinality(names[w] \cap before) = 0
      BY <2>1, FS_EmptySet
    <3>2. Cardinality(before) <= counted[w] + 0
      BY <2>1, <3>1 DEF CountCovers
    <3> QED
      BY <3>2, <1>0
  <2>3. CASE counted[w] >= MaxEntries
    BY <1>4, <2>1, <2>3 DEF Decide, Settle, CountCovers, CheckedHasRoom, Full
  <2>4. CASE ~(counted[w] >= MaxEntries)
    <3>1. ~Full
      BY <1>0, <2>2, <2>4, FilesAssumption DEF Full
    <3> QED
      BY <1>4, <2>1, <2>4, <3>1
      DEF Decide, Goto, CountCovers, CheckedHasRoom, Full
  <2> QED
    BY <2>3, <2>4
<1>5. ASSUME NEW w \in Writers, Open(w) \/ Fill(w)
      PROVE  CountCovers' /\ CheckedHasRoom'
  BY <1>5 DEF Open, Fill, Goto, CountCovers, CheckedHasRoom, Full
<1>6. ASSUME NEW w \in Writers, Rename(w)
      PROVE  CountCovers' /\ CheckedHasRoom'
  BY <1>6, RenameKeeps
<1>7. ASSUME NEW w \in Writers, Fails(w)
      PROVE  CountCovers' /\ CheckedHasRoom'
  BY <1>7 DEF Fails, Settle, CountCovers, CheckedHasRoom, Full
<1>8. CASE Crash
  BY <1>8 DEF Crash, CountCovers, CheckedHasRoom
<1> QED
  BY <1>1, <1>2, <1>3, <1>4, <1>5, <1>6, <1>7, <1>8 DEF Next, Write

-----------------------------------------------------------------------------
(* The invariant is inductive. *)
LEMMA InvHolds == Spec => []Inv
<1>1. Inv /\ [Next]_vars => Inv'
  <2> SUFFICES ASSUME Inv, [Next]_vars PROVE Inv'
    OBVIOUS
  <2>1. CASE \E w \in Writers : Rename(w)
    BY <2>1, RenameKeeps
  <2>2. CASE Next /\ \A w \in Writers : ~Rename(w)
    <3>1. Quiet
      BY <2>2, QuietSteps DEF Inv
    <3>2. TypeOK'
      BY <2>2, TypeStep DEF Inv
    <3>3. CountCovers' /\ CheckedHasRoom'
      BY <2>2, <3>1, CheckKeeps
    <3>4. /\ NothingHalfWritten' /\ WrittenStays' /\ FilesOnlyAdded'
          /\ StartFits' /\ FullStays'
      BY <3>1, QuietKeeps DEF Inv
    <3> QED
      BY <3>1, <3>2, <3>3, <3>4 DEF Inv, Quiet
  <2>3. CASE UNCHANGED vars
    BY <2>3 DEF vars, Inv, TypeOK, DoneHasResult, NothingHalfWritten,
                WrittenStays, FilesOnlyAdded, Files, Added, Succeeded,
                StartFits, CountCovers, CheckedHasRoom, FullStays, Full
  <2> QED
    BY <2>1, <2>2, <2>3
<1> QED
  BY InitInv, <1>1, PTL DEF Spec

(* The variables of SessionFiles keep their types. *)
THEOREM FileTypes == Spec => []TypeOK
<1>1. Inv => TypeOK
  BY DEF Inv
<1> QED
  BY <1>1, InvHolds, PTL

(* A session file is always what one successful write to its path wrote:   *)
(* writeAtomicFile.                                                        *)
THEOREM FilesAreWhole == Spec => []NothingHalfWritten
<1>1. Inv => NothingHalfWritten
  BY DEF Inv
<1> QED
  BY <1>1, InvHolds, PTL

(* No successful write is lost but to another one of the same path. *)
THEOREM WritesStay == Spec => []WrittenStays
<1>1. Inv => WrittenStays
  BY DEF Inv
<1> QED
  BY <1>1, InvHolds, PTL

(* However many writers race through the check of the entry limit, they    *)
(* exceed it by less than one file each.                                   *)
THEOREM Overshoot == Spec => []OvershootBounded
<1>1. Inv => OvershootBounded
  <2> SUFFICES ASSUME Inv PROVE OvershootBounded
    OBVIOUS
  <2>1. before \in SUBSET Paths /\ Files \in SUBSET Paths
    BY DEF Inv, TypeOK, Files
  <2>2. /\ IsFiniteSet(before) /\ Cardinality(before) \in Nat
        /\ IsFiniteSet(Files) /\ Cardinality(Files) \in Nat
    BY <2>1, PathsFinite
  <2>3. Cardinality(Writers) \in Nat /\ Cardinality(Writers) > 0
    <3>1. Cardinality(Writers) \in Nat
      BY FilesAssumption, FS_CardinalityType
    <3>2. Cardinality(Writers) # 0
      BY FilesAssumption, FS_EmptySet
    <3> QED
      BY <3>1, <3>2
  <2>4. CASE Full
    BY <2>2, <2>3, <2>4, FilesAssumption
    DEF Inv, FullStays, Full, OvershootBounded
  <2>5. CASE ~Full
    <3>1. Cardinality(before) < MaxEntries
      BY <2>2, <2>5, FilesAssumption DEF Inv, StartFits, Full
    <3>2. /\ IsFiniteSet(Added) /\ Cardinality(Added) \in Nat
          /\ Cardinality(Added) <= Cardinality(Writers)
      <4> DEFINE f == [w \in Succeeded |-> path[w]]
      <4>1. Succeeded \in SUBSET Writers
        BY DEF Succeeded
      <4>2. /\ IsFiniteSet(Succeeded) /\ Cardinality(Succeeded) \in Nat
            /\ Cardinality(Succeeded) <= Cardinality(Writers)
        BY <4>1, FilesAssumption, FS_Subset, FS_CardinalityType
      <4>3. f \in Surjection(Succeeded, Added)
        BY DEF Surjection, Added
      <4>4. IsFiniteSet(Added) /\ Cardinality(Added) <= Cardinality(Succeeded)
        BY <4>2, <4>3, FS_Surjection
      <4>5. Cardinality(Added) \in Nat
        BY <4>4, FS_CardinalityType
      <4> QED
        BY <2>3, <4>2, <4>4, <4>5
    <3>3. /\ IsFiniteSet(before \cup Added)
          /\ Cardinality(before \cup Added)
               <= Cardinality(before) + Cardinality(Added)
          /\ Cardinality(before \cup Added) \in Nat
      <4>1. /\ IsFiniteSet(before \cup Added)
            /\ Cardinality(before \cup Added) = Cardinality(before)
                 + Cardinality(Added) - Cardinality(before \cap Added)
        BY <2>2, <3>2, FS_Union
      <4>2. Cardinality(before \cap Added) \in Nat
        BY <2>1, PathsFinite
      <4>3. Cardinality(before \cup Added) \in Nat
        BY <4>1, FS_CardinalityType
      <4> QED
        BY <4>1, <4>2, <4>3, <2>2, <3>2
    <3>4. Cardinality(Files) <= Cardinality(before \cup Added)
      BY <3>3, FS_Subset DEF Inv, FilesOnlyAdded
    <3> QED
      BY <2>2, <2>3, <3>1, <3>2, <3>3, <3>4, FilesAssumption
      DEF OvershootBounded
  <2> QED
    BY <2>4, <2>5
<1> QED
  BY <1>1, InvHolds, PTL
=============================================================================

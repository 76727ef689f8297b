---------------------------- MODULE MemoryBudget ----------------------------
(***************************************************************************)
(* applyMemoryBudget: what of a memory file reaches the model.  A content  *)
(* is a sequence of characters: "lf" and "cr", one of one byte and one of  *)
(* two bytes in UTF-8, and the marker, one line that ends a cut content.   *)
(***************************************************************************)
EXTENDS Naturals, Sequences, FiniteSetsExt

CONSTANTS
  MaxMemoryLines,  \* MAX_MEMORY_LINES
  MaxMemoryBytes,  \* MAX_MEMORY_BYTES
  MarkerBytes      \* the length of TRUNCATION_MARKER; a line break and a
                   \* character fit before it

Characters == {"lf", "cr", "narrow", "wide"}

ASSUME MemoryAssumption ==
  /\ MaxMemoryLines \in Nat \ {0}
  /\ MarkerBytes \in Nat
  /\ MaxMemoryBytes \in Nat /\ MaxMemoryBytes > MarkerBytes + 2

Width(c) == CASE c = "marker" -> MarkerBytes
              [] c = "wide"   -> 2
              [] OTHER        -> 1

ByteLength(s) ==
  LET sum[i \in 0 .. Len(s)] == IF i = 0 THEN 0 ELSE sum[i - 1] + Width(s[i])
  IN  sum[Len(s)]

(* The places where a separator, CR LF, LF or CR, ends. *)
SeparatorEnds(s) ==
  {i \in DOMAIN s : \/ s[i] = "lf"
                    \/ s[i] = "cr" /\ ~ (i < Len(s) /\ s[i + 1] = "lf")}

CountLines(s) ==
  IF s = <<>> THEN 0
  ELSE Cardinality(SeparatorEnds(s))
       + (IF Len(s) \in SeparatorEnds(s) THEN 0 ELSE 1)

(* A character more: it extends the last line or ends it. *)
Extend(lines, s, i) ==
  LET n == Len(lines)
  IN  IF s[i] \notin {"lf", "cr"}
      THEN [lines EXCEPT ![n] = Append(lines[n], s[i])]
      ELSE IF i \in SeparatorEnds(s) THEN Append(lines, <<>>)
      ELSE lines

(* What stands between the separators; nothing after the last one is not a *)
(* line.                                                                   *)
SplitLines(s) ==
  LET split[i \in 0 .. Len(s)] ==
        IF i = 0 THEN << <<>> >> ELSE Extend(split[i - 1], s, i)
      lines == split[Len(s)]
  IN  IF lines[Len(lines)] = <<>> THEN SubSeq(lines, 1, Len(lines) - 1)
      ELSE lines

Join(lines) ==
  LET text[i \in 0 .. Len(lines)] ==
        IF i = 0 THEN <<>>
        ELSE IF i = 1 THEN lines[1]
        ELSE text[i - 1] \o <<"lf">> \o lines[i]
  IN  text[Len(lines)]

(* Whole characters, as many as fit. *)
TruncateUtf8(s, max) ==
  SubSeq(s, 1, Max({n \in 0 .. Len(s) : ByteLength(SubSeq(s, 1, n)) <= max}))

(* Mutant of Kept: as many lines as the limit, and the marker after them. *)
KeptAll(s) == SubSeq(SplitLines(s), 1, Min({MaxMemoryLines, CountLines(s)}))

(* The marker takes the last line. *)
Kept(s) == SubSeq(SplitLines(s), 1, Min({MaxMemoryLines - 1, CountLines(s)}))

ApplyMemoryBudget(s) ==
  IF CountLines(s) <= MaxMemoryLines /\ ByteLength(s) <= MaxMemoryBytes
  THEN [content |-> s, truncated |-> FALSE]
  ELSE LET lines  == Join(Kept(s))
           break  == IF lines = <<>> THEN 0 ELSE 1
           prefix == TruncateUtf8(lines, MaxMemoryBytes - break - MarkerBytes)
       IN  [content |-> prefix \o (IF prefix = <<>> THEN <<>> ELSE <<"lf">>)
                        \o <<"marker">>,
            truncated |-> TRUE]

(* What the model is given for the content s keeps both limits, marker and *)
(* line breaks included; it is s as it is or it says that s was cut; and a *)
(* cut content is what s begins with, in whole characters, as much of it   *)
(* as a limit allows.                                                      *)
IsBounded(s) ==
  LET result == ApplyMemoryBudget(s)
      given  == result.content
      whole  == Join(SplitLines(s))
      prefix == SubSeq(given, 1, Len(given) - 2)
  IN  /\ CountLines(given) <= MaxMemoryLines
      /\ ByteLength(given) <= MaxMemoryBytes
      /\ ~ result.truncated => given = s
      /\ result.truncated =>
           /\ given[Len(given)] = "marker"
           /\ \E n \in 0 .. Len(whole) : prefix = SubSeq(whole, 1, n)
           /\ \/ prefix = whole
              \/ CountLines(given) >= MaxMemoryLines - 1
              \/ ByteLength(given) >= MaxMemoryBytes - 1
=============================================================================

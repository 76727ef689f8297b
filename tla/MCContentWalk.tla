---------------------------- MODULE MCContentWalk ----------------------------
(* Projects for ContentWalk. *)
EXTENDS ContentWalk, TLC

(* guide and dep are AGENTS.md files, dep below an ignored directory; docs *)
(* has a guide of its own and a link to the root.  skills/ holds a file, a *)
(* link to it and x/; x/ holds a file and a link back to skills/.  memory  *)
(* is the default memory, shared by worktrees, outside the root.           *)
Tree == [root |-> "root", guide |-> "guide", ignored |-> "ignored",
         dep |-> "dep", docs |-> "docs", inner |-> "inner", up |-> "root",
         skills |-> "skills", a |-> "a", toA |-> "a", x |-> "x", c |-> "c",
         loop |-> "skills", memory |-> "memory"]

InRoot == DOMAIN Tree \ {"memory"}
Guides == {"guide", "dep", "inner"}

Declared(path, optional) ==
  [path |-> path, absolute |-> FALSE, optional |-> optional, follow |-> TRUE,
   prune |-> FALSE, match |-> InRoot, inside |-> InRoot, memory |-> FALSE]

AgentsWalk ==
  [path |-> "root", absolute |-> FALSE, optional |-> TRUE, follow |-> FALSE,
   prune |-> TRUE, match |-> Guides, inside |-> InRoot, memory |-> FALSE]

DefaultMemory ==
  [path |-> "memory", absolute |-> FALSE, optional |-> TRUE, follow |-> TRUE,
   prune |-> FALSE, match |-> {"memory"}, inside |-> {"memory"},
   memory |-> TRUE]

(* The start of a session: AGENTS.md files, skills, x/ and memory. *)
Session ==
  [rooted  |-> TRUE,
   sources |-> <<AgentsWalk, Declared("skills", TRUE), Declared("x", FALSE),
                 DefaultMemory>>,
   real    |-> Tree,
   kind    |-> [p \in DOMAIN Tree |->
                  IF p \in {"root", "ignored", "docs", "skills", "x"}
                  THEN "directory" ELSE "file"],
   entries |-> [p \in DOMAIN Tree |->
                  CASE p = "root" -> <<"docs", "guide", "ignored", "skills">>
                    [] p = "docs" -> <<"inner", "up">>
                    [] p = "ignored" -> <<"dep">>
                    [] p = "skills" -> <<"a", "toA", "x">>
                    [] p = "x" -> <<"c", "loop">>
                    [] OTHER -> <<>>],
   ignored |-> {"ignored"},
   contents |-> {},
   present |-> DOMAIN Tree,
   size    |-> [p \in DOMAIN Tree |-> 1],
   text    |-> [p \in DOMAIN Tree |-> 1]]

(* The instructions of an agent: a file, which skills/ has a link to. *)
Instructions ==
  [Session EXCEPT !.sources = <<Declared("a", FALSE), Declared("skills", FALSE)>>]

(* One file, or one entry, more than the limits. *)
Crowded ==
  [Session EXCEPT !.sources = @ \o <<Declared("c", FALSE)>>]
Listed ==
  [Session EXCEPT !.entries = [@ EXCEPT !.ignored = <<>>,
                                        !.docs = <<"dep", "inner", "up">>],
                  !.kind = [@ EXCEPT !.dep = "other"]]

(* c and a are directories, one in the other: too deep. *)
Deep ==
  [Session EXCEPT !.kind = [@ EXCEPT !.c = "directory", !.a = "directory"],
                  !.entries = [@ EXCEPT !.ignored = <<>>, !.skills = <<"x">>,
                                        !.x = <<"c">>, !.c = <<"a">>,
                                        !.a = <<"dep">>]]

(* Projects that fail on a source: each has one flaw. *)
Failing ==
  {[Session EXCEPT !.rooted = FALSE],
   [Session EXCEPT !.sources = <<[DefaultMemory EXCEPT !.absolute = TRUE]>>],
   [Session EXCEPT !.sources = <<Declared("c", FALSE)>>, !.present = @ \ {"c"}],
   [Session EXCEPT !.present = @ \ {"a"}],
   [Session EXCEPT !.real = [@ EXCEPT !.loop = "memory"]],
   [Session EXCEPT !.size = [@ EXCEPT !.a = 3], !.text = [@ EXCEPT !.a = 3]],
   [Session EXCEPT !.text = [@ EXCEPT !.a = 3]]}

(* An optional source that is missing, and one entry that is no file. *)
Sparse ==
  [Session EXCEPT !.present = @ \ {"memory", "guide"},
                  !.kind = [@ EXCEPT !.c = "other"]]

(* Memory alone, with everything it may hold. *)
Remembering ==
  [Session EXCEPT !.sources = <<DefaultMemory>>, !.present = {"memory"},
                  !.contents = UNION {[1 .. n -> Characters] : n \in 0 .. 5}]

MCInputs ==
  {Session, Instructions, Crowded, Listed, Deep, Sparse, Remembering}
    \cup Failing
=============================================================================

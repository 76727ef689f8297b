------------------------------ MODULE MCCompile ------------------------------
(* Projects for Compile: a lead with two subagents, A and B. *)
EXTENDS Compile, TLC

Sources(part, path, optional) ==
  [part |-> part, path |-> path, optional |-> optional]

Places == {<<"L">>, <<"L", "A">>, <<"L", "B">>, <<"L", "A", "B">>}

(* skills/ holds a file, a link to it and the directory x/; x/ holds a     *)
(* file and a link back to skills/.  ins and sub are instructions.         *)
Tree == [ins |-> "ins", sub |-> "sub", skills |-> "skills", a |-> "a",
         toA |-> "a", x |-> "x", c |-> "c", loop |-> "skills"]

(* A shares its subagent B with the lead; three sources lead to x/. *)
Sound ==
  [rooted   |-> TRUE,
   lead     |-> "L",
   children |-> [L |-> <<"A", "B">>, A |-> <<"B">>, B |-> <<>>],
   requests |-> [place \in Places |->
                   IF place = <<"L">>
                   THEN <<Sources("instructions", "ins", FALSE),
                          Sources("skills", "skills", TRUE),
                          Sources("memory", "x", FALSE)>>
                   ELSE <<Sources("instructions", "sub", FALSE)>>],
   flaws    |-> [place \in Places |-> {}],
   real     |-> Tree,
   kind     |-> [p \in DOMAIN Tree |->
                   IF p \in {"skills", "x", "loop"} THEN "directory" ELSE "file"],
   entries  |-> [p \in DOMAIN Tree |->
                   CASE p = "skills" -> <<"a", "toA", "x">>
                     [] p = "x" -> <<"c", "loop">>
                     [] OTHER -> <<>>],
   present  |-> DOMAIN Tree,
   size     |-> [p \in DOMAIN Tree |-> 1]]

(* B is its own subagent. *)
Cyclic == [Sound EXCEPT !.children = [@ EXCEPT !.B = <<"B">>]]

(* c and a are directories, one in the other: too deep for the sources. *)
Deep ==
  [Sound EXCEPT !.kind = [@ EXCEPT !.c = "directory", !.a = "directory"],
                !.entries = [@ EXCEPT !.skills = <<"x">>, !.x = <<"c">>,
                                      !.c = <<"a">>, !.a = <<"sub">>]]

(* One agent file outside, one source outside, one missing and one of no   *)
(* use, a dangling link, a link that leads outside, and a file too large.  *)
Broken ==
  [Sound EXCEPT
     !.flaws = [@ EXCEPT ![<<"L", "A">>] = {"sourceFile"}],
     !.requests = [@ EXCEPT ![<<"L", "A">>] = <<Sources("instructions", "/etc", FALSE)>>,
                            ![<<"L", "B">>] = <<Sources("skills", "sub", TRUE)>>],
     !.present = @ \ {"sub"},
     !.real = [@ EXCEPT !.toA = "sub", !.loop = "home"],
     !.kind = [@ EXCEPT !.c = "other"],
     !.size = [@ EXCEPT !.ins = 3]]

(* One file more than the limit. *)
Crowded ==
  [Sound EXCEPT !.entries = [@ EXCEPT !.x = <<"c", "ins", "loop">>]]

Elsewhere == [Sound EXCEPT !.rooted = FALSE]

MCInputs == {Sound, Cyclic, Deep, Broken, Crowded, Elsewhere}
=============================================================================

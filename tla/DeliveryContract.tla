-------------------------- MODULE DeliveryContract --------------------------
(***************************************************************************)
(* What accepting a trigger promises, without saying how.  A delivery id   *)
(* is free until one call claims it.  The claim is settled once and for    *)
(* all: the claimant is answered "accepted", or the claim is abandoned     *)
(* (its store failed, or its process died).  Any other call that is        *)
(* answered "duplicate" finds the delivery claimed already.                *)
(*                                                                         *)
(* SessionAccept implements this contract when a session store is          *)
(* configured.                                                             *)
(***************************************************************************)
CONSTANTS Calls,        \* trigger calls; a retry is a call of its own
          Deliveries    \* delivery ids

VARIABLES phase,        \* phase[d]: how far the claim on d has got
          claims,       \* <<c, d>>: call c holds the unsettled claim on d
          answer        \* answer[c]: "none" until call c has been answered

Phases  == {"free", "claimed", "accepted", "abandoned"}
Answers == {"none", "accepted", "duplicate", "invalid", "payloadLimit",
            "storeError", "lost"}

vars == <<phase, claims, answer>>

Init ==
  /\ phase = [d \in Deliveries |-> "free"]
  /\ claims = {}
  /\ answer = [c \in Calls |-> "none"]

Claimless(c) == \A d \in Deliveries : <<c, d>> \notin claims

Answer(c, a) ==
  /\ answer[c] = "none"
  /\ answer' = [answer EXCEPT ![c] = a]

(* An unanswered call becomes the one claimant of a free delivery. *)
Claim(c, d) ==
  /\ phase[d] = "free"
  /\ answer[c] = "none"
  /\ Claimless(c)
  /\ phase' = [phase EXCEPT ![d] = "claimed"]
  /\ claims' = claims \cup {<<c, d>>}
  /\ UNCHANGED answer

(* The claim is settled in favour of its claimant. *)
Accept(c, d) ==
  /\ phase[d] = "claimed"
  /\ <<c, d>> \in claims
  /\ Answer(c, "accepted")
  /\ phase' = [phase EXCEPT ![d] = "accepted"]
  /\ claims' = claims \ {<<c, d>>}

(* The claimant gives up; nobody can claim the delivery after it. *)
Abandon(c, d) ==
  /\ phase[d] = "claimed"
  /\ <<c, d>> \in claims
  /\ Answer(c, "storeError")
  /\ phase' = [phase EXCEPT ![d] = "abandoned"]
  /\ claims' = claims \ {<<c, d>>}

(* A call that claims nothing: only "duplicate" needs an earlier claim. *)
Decline(c, d) ==
  /\ Claimless(c)
  /\ \E a \in {"duplicate", "invalid", "payloadLimit", "storeError"} :
        /\ a = "duplicate" => phase[d] # "free"
        /\ Answer(c, a)
  /\ UNCHANGED <<phase, claims>>

(* The process dies: every open claim is abandoned, its calls unanswered. *)
Die ==
  /\ \E S \in SUBSET {c \in Calls : answer[c] = "none"} :
        /\ S # {}
        /\ \A c \in Calls \ S : Claimless(c)
        /\ answer' = [c \in Calls |-> IF c \in S THEN "lost" ELSE answer[c]]
  /\ phase' = [d \in Deliveries |->
                 IF phase[d] = "claimed" THEN "abandoned" ELSE phase[d]]
  /\ claims' = {}

Next ==
  \/ \E c \in Calls, d \in Deliveries :
        Claim(c, d) \/ Accept(c, d) \/ Abandon(c, d) \/ Decline(c, d)
  \/ Die

Spec == Init /\ [][Next]_vars
=============================================================================

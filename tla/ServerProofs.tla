---------------------------- MODULE ServerProofs ----------------------------
(***************************************************************************)
(* Proofs about Server for every set of requests and deliveries and any    *)
(* number of crashes.                                                      *)
(*                                                                         *)
(* A run is dispatched by a listener, a listener is armed by an accepted   *)
(* answer, and the delivery contract gives one delivery one holder: the    *)
(* request that claims it or was accepted for it.  The listener's "armed"  *)
(* is spent by the first event that reaches it.                            *)
(***************************************************************************)
EXTENDS Server, TLAPS

(* A request only ever claims the delivery it carries. *)
OwnClaims ==
  \A r \in Requests, d \in Deliveries : <<r, d>> \in claims => d = delivery[r]

Claims(r) == <<r, delivery[r]>> \in claims
Holds(r)  == Claims(r) \/ answer[r] = "accepted"

(* What the holders say of a delivery agrees with its claim. *)
ClaimAgrees ==
  \A r \in Requests :
    /\ Claims(r) => claim[delivery[r]] = "claimed"
    /\ answer[r] = "accepted" => claim[delivery[r]] = "accepted"

OneHolder ==
  \A r, s \in Requests :
    Holds(r) /\ Holds(s) /\ delivery[r] = delivery[s] => r = s

ClaimInv == OwnClaims /\ ClaimAgrees /\ OneHolder

(* Only a request that has a connection is handled. *)
HandledIsConnected ==
  \A r \in Requests : handler[r] = "none" <=> conn[r] = "none"

Over(r) == handler[r] \in {"ended", "lost"}

(* A listener is armed, and a run dispatched, after an accepted answer.    *)
DispatchInv ==
  \A r \in Requests :
    /\ listener[r] = "armed" => Over(r) /\ answer[r] = "accepted"
    /\ dispatches[r] > 0 => Over(r) /\ answer[r] = "accepted"
    /\ listener[r] = "armed" => dispatches[r] = 0
    /\ dispatches[r] <= 1

(* A written response has spent its listener, and the shutdown has seen    *)
(* the end of every connection before it aborts the runs.                  *)
ShutdownInv ==
  /\ \A r \in flushed : Over(r) /\ listener[r] # "armed"
  /\ phase \in {"draining", "closed"} => \A r \in Requests : conn[r] # "open"
  /\ ShutdownReachesRuns

Inv == TypeOK /\ ClaimInv /\ HandledIsConnected /\ DispatchInv /\ ShutdownInv

RequestStep(r) == Connect(r) \/ Handle(r) \/ Event(r) \/ Disconnect(r)
                    \/ RunSettles(r)
ServerStep == Close \/ AbortRuns \/ Drained \/ GraceExpires

-----------------------------------------------------------------------------
(* The server starts with nothing claimed and nothing dispatched. *)
LEMMA InitInv == Init => Inv
BY CrashAssumption, SMT
DEF Init, Inv, TypeOK, ClaimInv, OwnClaims, ClaimAgrees, OneHolder, Holds,
    Claims, HandledIsConnected, DispatchInv, ShutdownInv, ShutdownReachesRuns,
    Over, Live, Contract!Init, Contract!Phases, Contract!Answers, Handlers,
    Sockets, Listeners, Runs, Phases

(* What postSession does to the contract keeps the contract's types. *)
LEMMA SettleType ==
  ASSUME TypeOK, NEW r \in Requests,
         \/ Contract!Claim(r, delivery[r])
         \/ Contract!Accept(r, delivery[r])
         \/ Contract!Abandon(r, delivery[r])
         \/ Contract!Decline(r, delivery[r])
  PROVE  /\ claim' \in [Deliveries -> Contract!Phases]
         /\ claims' \subseteq Requests \X Deliveries
         /\ answer' \in [Requests -> Contract!Answers]
<1>1. delivery[r] \in Deliveries
  BY DEF TypeOK
<1>2. CASE Contract!Claim(r, delivery[r])
  BY <1>1, <1>2 DEF Contract!Claim, TypeOK, Contract!Phases
<1>3. CASE Contract!Accept(r, delivery[r])
  BY <1>1, <1>3
  DEF Contract!Accept, Contract!Answer, TypeOK, Contract!Phases,
      Contract!Answers
<1>4. CASE Contract!Abandon(r, delivery[r])
  BY <1>1, <1>4
  DEF Contract!Abandon, Contract!Answer, TypeOK, Contract!Phases,
      Contract!Answers
<1>5. CASE Contract!Decline(r, delivery[r])
  BY <1>1, <1>5 DEF Contract!Decline, Contract!Answer, TypeOK,
                    Contract!Answers
<1> QED
  BY <1>2, <1>3, <1>4, <1>5

(* The contract keeps a delivery in the hands of one request. *)
LEMMA SettleClaims ==
  ASSUME TypeOK, ClaimInv, NEW r \in Requests, UNCHANGED delivery,
         \/ Contract!Claim(r, delivery[r])
         \/ Contract!Accept(r, delivery[r])
         \/ Contract!Abandon(r, delivery[r])
         \/ Contract!Decline(r, delivery[r])
  PROVE  ClaimInv'
<1>1. delivery[r] \in Deliveries
  BY DEF TypeOK
<1> USE <1>1 DEF TypeOK, ClaimInv, OwnClaims, ClaimAgrees, OneHolder, Holds,
                 Claims
<1>2. CASE Contract!Claim(r, delivery[r])
  BY <1>2 DEF Contract!Claim
<1>3. CASE Contract!Accept(r, delivery[r])
  BY <1>3 DEF Contract!Accept, Contract!Answer
<1>4. CASE Contract!Abandon(r, delivery[r])
  BY <1>4 DEF Contract!Abandon, Contract!Answer
<1>5. CASE Contract!Decline(r, delivery[r])
  BY <1>5 DEF Contract!Decline, Contract!Answer
<1> QED
  BY <1>2, <1>3, <1>4, <1>5

(* An answer is final. *)
LEMMA SettleAnswers ==
  ASSUME TypeOK, NEW r \in Requests,
         \/ Contract!Accept(r, delivery[r])
         \/ Contract!Abandon(r, delivery[r])
         \/ Contract!Decline(r, delivery[r])
  PROVE  \A s \in Requests : answer[s] # "none" => answer'[s] = answer[s]
BY DEF TypeOK, Contract!Accept, Contract!Abandon, Contract!Decline,
       Contract!Answer

-----------------------------------------------------------------------------
(* Every step keeps the types. *)
LEMMA TypeStep == ASSUME TypeOK, Next PROVE TypeOK'
<1> USE CrashAssumption DEF Handlers, Sockets, Listeners, Runs, Phases
<1>1. ASSUME NEW r \in Requests, RequestStep(r) PROVE TypeOK'
  <2>1. CASE Connect(r)
    BY <2>1 DEF Connect, TypeOK, work, shutdown, contract
  <2>2. CASE Reject(r)
    BY <2>2 DEF Reject, TypeOK, work, shutdown, contract
  <2>3. CASE ReadBody(r)
    BY <2>3 DEF ReadBody, TypeOK, work, shutdown, contract
  <2>4. CASE ClaimDelivery(r)
    <3>1. UNCHANGED <<delivery, http, work, shutdown, crashes>>
      BY <2>4 DEF ClaimDelivery
    <3>2. /\ claim' \in [Deliveries -> Contract!Phases]
          /\ claims' \subseteq Requests \X Deliveries
          /\ answer' \in [Requests -> Contract!Answers]
      BY <2>4, SettleType DEF ClaimDelivery
    <3> QED
      BY <3>1, <3>2 DEF TypeOK, http, work, shutdown
  <2>5. CASE PostSettles(r)
    <3>1. /\ claim' \in [Deliveries -> Contract!Phases]
          /\ claims' \subseteq Requests \X Deliveries
          /\ answer' \in [Requests -> Contract!Answers]
      BY <2>5, SettleType DEF PostSettles
    <3>2. /\ UNCHANGED <<delivery, conn, flushed, resClosed, work, shutdown,
                         crashes>>
          /\ handler' = [handler EXCEPT ![r] = "ended"]
          /\ \/ listener' = [listener EXCEPT ![r] = "armed"]
             \/ listener' = listener
      BY <2>5 DEF PostSettles
    <3> QED
      BY <3>1, <3>2 DEF TypeOK, work, shutdown
  <2>6. CASE Finish(r)
    BY <2>6 DEF Finish, QueueRun, TypeOK, shutdown, contract
  <2>7. CASE ResponseClose(r)
    BY <2>7 DEF ResponseClose, QueueRun, TypeOK, shutdown, contract
  <2>8. CASE Disconnect(r)
    BY <2>8 DEF Disconnect, TypeOK, work, shutdown, contract
  <2>9. CASE RunSettles(r)
    BY <2>9 DEF RunSettles, TypeOK, http, shutdown, contract
  <2> QED
    BY <1>1, <2>1, <2>2, <2>3, <2>4, <2>5, <2>6, <2>7, <2>8, <2>9
    DEF RequestStep, Handle, Event
<1>2. CASE ServerStep
  BY <1>2 DEF ServerStep, Close, AbortRuns, Drained, GraceExpires, Live,
              TypeOK, http, work, contract
<1>3. CASE Crash
  <2>1. crashes' \in 0 .. MaxCrashes
    BY <1>3 DEF Crash, TypeOK
  <2>2. /\ claim' \in [Deliveries -> Contract!Phases]
        /\ claims' \subseteq Requests \X Deliveries
        /\ answer' \in [Requests -> Contract!Answers]
    BY <1>3 DEF Crash, TypeOK, contract, Contract!Die, Contract!Phases,
                Contract!Answers
  <2> QED
    BY <1>3, <2>1, <2>2 DEF Crash, TypeOK
<1> QED
  BY <1>1, <1>2, <1>3 DEF Next, RequestStep, ServerStep

(* The claims on deliveries stay in order. *)
LEMMA ClaimStep == ASSUME TypeOK, ClaimInv, Next PROVE ClaimInv'
<1> USE DEF ClaimInv, OwnClaims, ClaimAgrees, OneHolder, Holds, Claims
<1>1. CASE UNCHANGED <<delivery, contract>>
  BY <1>1 DEF contract
<1>2. ASSUME NEW r \in Requests, ClaimDelivery(r) \/ PostSettles(r)
      PROVE  ClaimInv'
  BY <1>2, SettleClaims DEF ClaimDelivery, PostSettles
<1>3. CASE Crash
  <2>1. UNCHANGED delivery
    BY <1>3 DEF Crash
  <2>2. CASE UNCHANGED contract
    BY <2>1, <2>2 DEF contract
  <2>3. CASE ~ UNCHANGED contract
    <3>1. /\ claims' = {}
          /\ claim' = [d \in Deliveries |->
                         IF claim[d] = "claimed" THEN "abandoned" ELSE claim[d]]
      BY <1>3, <2>3 DEF Crash, Contract!Die
    <3>2. \A s \in Requests : answer'[s] = "accepted" => answer[s] = "accepted"
      BY <1>3, <2>3 DEF Crash
    <3> QED
      BY <2>1, <3>1, <3>2 DEF TypeOK
  <2> QED
    BY <2>2, <2>3
<1>4. ASSUME NEW r \in Requests,
             Connect(r) \/ Reject(r) \/ ReadBody(r) \/ Event(r)
               \/ Disconnect(r) \/ RunSettles(r)
      PROVE  UNCHANGED <<delivery, contract>>
  BY <1>4 DEF Connect, Reject, ReadBody, Event, Finish, ResponseClose,
              Disconnect, RunSettles
<1>5. ASSUME ServerStep
      PROVE  UNCHANGED <<delivery, contract>>
  BY <1>5 DEF ServerStep, Close, AbortRuns, Drained, GraceExpires
<1> QED
  BY <1>1, <1>2, <1>3, <1>4, <1>5 DEF Next, Handle, ServerStep

(* Handlers begin with their connection. *)
LEMMA ConnectedStep ==
  ASSUME TypeOK, HandledIsConnected, Next
  PROVE  HandledIsConnected'
<1>1. ASSUME NEW r \in Requests, RequestStep(r) PROVE HandledIsConnected'
  BY <1>1 DEF RequestStep, Connect, Handle, Reject, ReadBody, ClaimDelivery,
              PostSettles, Event, Finish, ResponseClose, Disconnect,
              RunSettles, TypeOK, HandledIsConnected, http
<1>2. CASE ServerStep
  BY <1>2 DEF ServerStep, Close, AbortRuns, Drained, GraceExpires,
              HandledIsConnected, http
<1>3. CASE Crash
  BY <1>3 DEF Crash, TypeOK, HandledIsConnected
<1> QED
  BY <1>1, <1>2, <1>3 DEF Next, RequestStep, ServerStep

(* No step dispatches twice, or ahead of the answer. *)
LEMMA DispatchStep ==
  ASSUME TypeOK, HandledIsConnected, DispatchInv, Next
  PROVE  DispatchInv'
<1> USE DEF TypeOK, DispatchInv, Over
<1>1. ASSUME NEW r \in Requests, RequestStep(r) PROVE DispatchInv'
  <2>1. CASE Connect(r)
    BY <2>1 DEF Connect, HandledIsConnected, work, contract
  <2>2. CASE Reject(r) \/ ReadBody(r)
    BY <2>2 DEF Reject, ReadBody, work, contract
  <2>3. CASE ClaimDelivery(r)
    BY <2>3 DEF ClaimDelivery, Contract!Claim, http, work
  <2>4. CASE PostSettles(r)
    <3>1. /\ handler[r] = "posting"
          /\ handler' = [handler EXCEPT ![r] = "ended"]
          /\ UNCHANGED dispatches
          /\ listener' = IF answer'[r] = "accepted"
                         THEN [listener EXCEPT ![r] = "armed"]
                         ELSE listener
      BY <2>4 DEF PostSettles, work
    <3>2. \A s \in Requests : answer[s] # "none" => answer'[s] = answer[s]
      BY <2>4, SettleAnswers DEF PostSettles
    <3> QED
      BY <3>1, <3>2
  <2>5. CASE Finish(r)
    BY <2>5 DEF Finish, QueueRun, contract
  <2>6. CASE ResponseClose(r)
    BY <2>6 DEF ResponseClose, QueueRun, contract
  <2>7. CASE Disconnect(r) \/ RunSettles(r)
    BY <2>7 DEF Disconnect, RunSettles, http, work, contract
  <2> QED
    BY <1>1, <2>1, <2>2, <2>3, <2>4, <2>5, <2>6, <2>7
    DEF RequestStep, Handle, Event
<1>2. CASE ServerStep
  BY <1>2 DEF ServerStep, Close, AbortRuns, Drained, GraceExpires, http, work,
              contract
<1>3. CASE Crash
  <2>1. \A s \in Requests : handler[s] # "posting" => answer'[s] = answer[s]
    BY <1>3 DEF Crash, contract
  <2> QED
    BY <1>3, <2>1 DEF Crash
<1> QED
  BY <1>1, <1>2, <1>3 DEF Next, RequestStep, ServerStep

(* A run dispatched behind the shutdown's back has no written response.    *)
LEMMA ShutdownStep ==
  ASSUME TypeOK, HandledIsConnected, DispatchInv, ShutdownInv, Next
  PROVE  ShutdownInv'
<1> USE DEF TypeOK, ShutdownInv, ShutdownReachesRuns, Live, Over
<1>1. ASSUME NEW r \in Requests, RequestStep(r) PROVE ShutdownInv'
  <2>1. CASE Connect(r)
    BY <2>1 DEF Connect, HandledIsConnected, work, shutdown
  <2>2. CASE Reject(r) \/ ReadBody(r) \/ ClaimDelivery(r) \/ PostSettles(r)
    BY <2>2 DEF Reject, ReadBody, ClaimDelivery, PostSettles, http, work,
                shutdown
  <2>3. CASE Finish(r)
    BY <2>3 DEF Finish, QueueRun, shutdown
  <2>4. CASE ResponseClose(r)
    BY <2>4 DEF ResponseClose, QueueRun, shutdown
  <2>5. CASE Disconnect(r) \/ RunSettles(r)
    BY <2>5 DEF Disconnect, RunSettles, http, work, shutdown
  <2> QED
    BY <1>1, <2>1, <2>2, <2>3, <2>4, <2>5 DEF RequestStep, Handle, Event
<1>2. CASE ServerStep
  BY <1>2 DEF ServerStep, Close, AbortRuns, Drained, GraceExpires, http, work
<1>3. CASE Crash
  BY <1>3, HandledIsConnected DEF Crash, HandledIsConnected
<1> QED
  BY <1>1, <1>2, <1>3 DEF Next, RequestStep, ServerStep

-----------------------------------------------------------------------------
(* The invariant is inductive. *)
LEMMA InvHolds == Spec => []Inv
<1>1. Inv /\ [Next]_vars => Inv'
  <2> SUFFICES ASSUME Inv, [Next]_vars PROVE Inv'
    OBVIOUS
  <2>1. CASE Next
    BY <2>1, TypeStep, ClaimStep, ConnectedStep, DispatchStep, ShutdownStep
    DEF Inv
  <2>2. CASE UNCHANGED vars
    BY <2>2
    DEF vars, http, work, shutdown, contract, Inv, TypeOK, ClaimInv,
        OwnClaims, ClaimAgrees, OneHolder, Holds, Claims, HandledIsConnected,
        DispatchInv, ShutdownInv, ShutdownReachesRuns, Over, Live
  <2> QED
    BY <2>1, <2>2
<1> QED
  BY InitInv, <1>1, PTL DEF Spec

(* Whatever the retries, disconnects and restarts, two dispatched requests *)
(* of one delivery are one request, dispatched once: queueRun of server.ts.*)
THEOREM OneRun == Spec => []OneRunPerDelivery
<1>1. Inv => OneRunPerDelivery
  BY DEF Inv, TypeOK, ClaimInv, OneHolder, Holds, DispatchInv,
         OneRunPerDelivery
<1> QED
  BY <1>1, InvHolds, PTL

(* A run that close() does not abort belongs to an unwritten response. *)
THEOREM ShutdownFindsRuns == Spec => []ShutdownReachesRuns
<1>1. Inv => ShutdownReachesRuns
  BY DEF Inv, ShutdownInv
<1> QED
  BY <1>1, InvHolds, PTL

(* The variables of the server keep their types. *)
THEOREM ServerTypes == Spec => []TypeOK
<1>1. Inv => TypeOK
  BY DEF Inv
<1> QED
  BY <1>1, InvHolds, PTL
=============================================================================

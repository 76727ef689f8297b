------------------------------- MODULE Server -------------------------------
(***************************************************************************)
(* The HTTP trigger server: handleRequest, the supervision of runs and the *)
(* shutdown (createWaratahServer, closeAndDrain), over the DeliveryContract *)
(* that SessionAccept implements.                                          *)
(*                                                                         *)
(* Every request has a connection of its own.  The handler and the events  *)
(* Node emits interleave: the socket may be destroyed at any moment, and   *)
(* the response's "close" event is emitted some time after that.           *)
(***************************************************************************)
EXTENDS Naturals

CONSTANTS Requests,     \* POST /session requests, retries included
          Deliveries,   \* delivery ids
          MaxCrashes    \* how often the process dies and is started again

ASSUME CrashAssumption == MaxCrashes \in Nat

VARIABLES
  delivery,    \* delivery[r]: the delivery id request r carries
  handler,     \* handler[r]: where handleRequest is
  conn,        \* conn[r]: the socket of request r
  flushed,     \* requests whose response has been written out ("finish")
  resClosed,   \* requests whose response has emitted "close"
  listener,    \* listener[r]: the queueRun callback of request r
  run,         \* run[r]: the supervised run dispatched for request r
  dispatches,  \* history: how often a run was dispatched for request r
  aborted,     \* runs whose AbortController has been aborted
  phase,       \* the server's life: see Phases
  waiting,     \* the runs closeAndDrain waits for
  crashes,     \* history: number of crashes
  claim, claims, answer     \* the delivery contract's state

Handlers  == {"none", "reading", "posting", "ended", "lost"}
Sockets   == {"none", "open", "destroyed"}
Listeners == {"none", "armed", "spent"}
Runs      == {"none", "running", "settled", "lost"}
Phases    == {"serving", "closing", "draining", "closed"}

Contract == INSTANCE DeliveryContract WITH
  Calls <- Requests, phase <- claim

http     == <<handler, conn, flushed, resClosed, listener>>
work     == <<run, dispatches, aborted>>
shutdown == <<phase, waiting>>
contract == <<claim, claims, answer>>
vars     == <<delivery, http, work, shutdown, crashes, contract>>

(* The runs map: superviseRun adds a run, its end removes it. *)
Live == {r \in Requests : run[r] = "running"}

Init ==
  /\ delivery \in [Requests -> Deliveries]
  /\ handler = [r \in Requests |-> "none"]
  /\ conn = [r \in Requests |-> "none"]
  /\ flushed = {}
  /\ resClosed = {}
  /\ listener = [r \in Requests |-> "none"]
  /\ run = [r \in Requests |-> "none"]
  /\ dispatches = [r \in Requests |-> 0]
  /\ aborted = {}
  /\ phase = "serving"
  /\ waiting = {}
  /\ crashes = 0
  /\ Contract!Init

-----------------------------------------------------------------------------
(* Handling a request. *)

Connect(r) ==
  /\ phase = "serving"
  /\ conn[r] = "none"
  /\ conn' = [conn EXCEPT ![r] = "open"]
  /\ handler' = [handler EXCEPT ![r] = "reading"]
  /\ UNCHANGED <<delivery, flushed, resClosed, listener, work, shutdown,
                 crashes, contract>>

(* Too many headers, another path, method or media type, a body that is    *)
(* too large, is not JSON or breaks off: answered without postSession.     *)
Reject(r) ==
  /\ handler[r] = "reading"
  /\ handler' = [handler EXCEPT ![r] = "ended"]
  /\ UNCHANGED <<delivery, conn, flushed, resClosed, listener, work,
                 shutdown, crashes, contract>>

ReadBody(r) ==
  /\ handler[r] = "reading"
  /\ conn[r] = "open"
  /\ handler' = [handler EXCEPT ![r] = "posting"]
  /\ UNCHANGED <<delivery, conn, flushed, resClosed, listener, work,
                 shutdown, crashes, contract>>

(* While the handler awaits postSession its call claims the delivery. *)
ClaimDelivery(r) ==
  /\ handler[r] = "posting"
  /\ Contract!Claim(r, delivery[r])
  /\ UNCHANGED <<delivery, http, work, shutdown, crashes>>

(* postSession settles.  Only an accepted session gets a queueRun, which   *)
(* is registered for the response's "close" event and handed to            *)
(* response.end as its callback, whether or not the socket is still there. *)
PostSettles(r) ==
  /\ handler[r] = "posting"
  /\ \/ Contract!Accept(r, delivery[r])
     \/ Contract!Abandon(r, delivery[r])
     \/ Contract!Decline(r, delivery[r])
  /\ handler' = [handler EXCEPT ![r] = "ended"]
  /\ listener' = IF answer'[r] = "accepted"
                 THEN [listener EXCEPT ![r] = "armed"]
                 ELSE listener
  /\ UNCHANGED <<delivery, conn, flushed, resClosed, work, shutdown, crashes>>

(* Mutant of QueueRun: the listener stays on. *)
QueueRunEachEvent(r) ==
  IF listener[r] = "armed"
  THEN /\ run' = [run EXCEPT ![r] = "running"]
       /\ dispatches' = [dispatches EXCEPT ![r] = @ + 1]
       /\ UNCHANGED listener
  ELSE UNCHANGED <<listener, run, dispatches>>

(* queueRun: the first event that reaches it dispatches the run and takes  *)
(* the listener off; superviseRun starts runSession and enters the map.    *)
QueueRun(r) ==
  IF listener[r] = "armed"
  THEN /\ listener' = [listener EXCEPT ![r] = "spent"]
       /\ run' = [run EXCEPT ![r] = "running"]
       /\ dispatches' = [dispatches EXCEPT ![r] = @ + 1]
  ELSE UNCHANGED <<listener, run, dispatches>>

-----------------------------------------------------------------------------
(* Node's events. *)

(* "finish": the response is written out on a socket that is still there.  *)
(* On a destroyed socket response.end writes nothing and never finishes.   *)
Finish(r) ==
  /\ handler[r] = "ended"
  /\ conn[r] = "open"
  /\ r \notin flushed
  /\ flushed' = flushed \cup {r}
  /\ QueueRun(r)
  /\ UNCHANGED <<delivery, handler, conn, resClosed, aborted, shutdown,
                 crashes, contract>>

(* The socket is destroyed: the client goes away, or a request or          *)
(* keep-alive timeout fires, or close() ends an idle connection.  close()  *)
(* also stops the timeouts of requests, see Dawdles.                       *)
Disconnect(r) ==
  /\ conn[r] = "open"
  /\ conn' = [conn EXCEPT ![r] = "destroyed"]
  /\ UNCHANGED <<delivery, handler, flushed, resClosed, listener, work,
                 shutdown, crashes, contract>>

(* Mutant of ResponseClose: only "finish" dispatches the run. *)
ResponseCloseIdle(r) ==
  /\ conn[r] = "destroyed" \/ r \in flushed
  /\ r \notin resClosed
  /\ resClosed' = resClosed \cup {r}
  /\ UNCHANGED <<delivery, handler, conn, flushed, listener, work, shutdown,
                 crashes, contract>>

(* "close" of the response: once, after "finish" or after the socket is    *)
(* gone, whatever the handler is doing then.                               *)
ResponseClose(r) ==
  /\ conn[r] = "destroyed" \/ r \in flushed
  /\ r \notin resClosed
  /\ resClosed' = resClosed \cup {r}
  /\ QueueRun(r)
  /\ UNCHANGED <<delivery, handler, conn, flushed, aborted, shutdown,
                 crashes, contract>>

-----------------------------------------------------------------------------
(* Runs and shutdown. *)

(* Mutant of RunSettles: the run's outcome is kept in its place. *)
RunKeepsOutcome(r) ==
  /\ run[r] = "running"
  /\ run' = [run EXCEPT ![r] = "failed"]
  /\ UNCHANGED <<delivery, http, dispatches, aborted, shutdown, crashes,
                 contract>>

(* runSession returns or throws; superviseRun swallows its failure. *)
RunSettles(r) ==
  /\ run[r] = "running"
  /\ run' = [run EXCEPT ![r] = "settled"]
  /\ UNCHANGED <<delivery, http, dispatches, aborted, shutdown, crashes,
                 contract>>

(* close() for the first time; later calls share its promise. *)
Close ==
  /\ phase = "serving"
  /\ phase' = "closing"
  /\ UNCHANGED <<delivery, http, work, waiting, crashes, contract>>

(* Mutant of AbortRuns: close(server) is not awaited. *)
AbortRunsEarly ==
  /\ phase = "closing"
  /\ aborted' = aborted \cup Live
  /\ waiting' = Live
  /\ phase' = IF Live = {} THEN "closed" ELSE "draining"
  /\ UNCHANGED <<delivery, http, run, dispatches, crashes, contract>>

(* The server's close callback: every connection has ended.  The runs in   *)
(* the map now are aborted, and waited for.                                *)
AbortRuns ==
  /\ phase = "closing"
  /\ \A r \in Requests : conn[r] # "open"
  /\ aborted' = aborted \cup Live
  /\ waiting' = Live
  /\ phase' = IF Live = {} THEN "closed" ELSE "draining"
  /\ UNCHANGED <<delivery, http, run, dispatches, crashes, contract>>

Drained ==
  /\ phase = "draining"
  /\ waiting \cap Live = {}
  /\ phase' = "closed"
  /\ UNCHANGED <<delivery, http, work, waiting, crashes, contract>>

(* Mutant of GraceExpires: the race waits for the runs alone. *)
GraceWaitsForRuns ==
  /\ phase = "draining"
  /\ waiting \cap Live = {}
  /\ phase' = "closed"
  /\ UNCHANGED <<delivery, http, work, waiting, crashes, contract>>

(* The grace timer wins the race with the runs. *)
GraceExpires ==
  /\ phase = "draining"
  /\ phase' = "closed"
  /\ UNCHANGED <<delivery, http, work, waiting, crashes, contract>>

(* The process dies and is started again: what was accepted stays accepted *)
(* on disk, everything in memory is gone.                                  *)
Crash ==
  /\ crashes < MaxCrashes
  /\ crashes' = crashes + 1
  /\ IF \E r \in Requests : handler[r] = "posting"
     THEN /\ Contract!Die
          /\ answer' = [r \in Requests |-> IF handler[r] = "posting"
                                           THEN "lost" ELSE answer[r]]
     ELSE UNCHANGED contract
  /\ handler' = [r \in Requests |-> IF handler[r] = "none"
                                    THEN "none" ELSE "lost"]
  /\ conn' = [r \in Requests |-> IF conn[r] = "none"
                                 THEN "none" ELSE "destroyed"]
  /\ resClosed' = {r \in Requests : conn[r] # "none"}
  /\ listener' = [r \in Requests |-> IF listener[r] = "armed"
                                     THEN "spent" ELSE listener[r]]
  /\ run' = [r \in Requests |-> IF run[r] = "running" THEN "lost" ELSE run[r]]
  /\ phase' = "serving"
  /\ waiting' = {}
  /\ UNCHANGED <<delivery, flushed, dispatches, aborted>>

-----------------------------------------------------------------------------
Handle(r) == Reject(r) \/ ReadBody(r) \/ ClaimDelivery(r) \/ PostSettles(r)
Event(r)  == Finish(r) \/ ResponseClose(r)

Next ==
  \/ \E r \in Requests : \/ Connect(r) \/ Handle(r) \/ Event(r)
                         \/ Disconnect(r) \/ RunSettles(r)
  \/ Close \/ AbortRuns \/ Drained \/ GraceExpires \/ Crash

Spec == Init /\ [][Next]_vars

(* Promises settle and Node emits its events; an answered client that      *)
(* sends nothing more is ended by close() or the keep-alive timeout; the   *)
(* grace timer fires.  Nothing makes a run settle, or a client go on.      *)
FairSpec ==
  /\ Spec
  /\ \A r \in Requests :
       /\ WF_vars(handler[r] = "posting" /\ Handle(r))
       /\ WF_vars(Event(r))
       /\ WF_vars(r \in flushed /\ answer[r] # "none" /\ Disconnect(r))
  /\ WF_vars(AbortRuns)
  /\ WF_vars(GraceExpires)

-----------------------------------------------------------------------------
(* What each variable may hold. *)
TypeOK ==
  /\ delivery \in [Requests -> Deliveries]
  /\ handler \in [Requests -> Handlers]
  /\ conn \in [Requests -> Sockets]
  /\ flushed \subseteq Requests
  /\ resClosed \subseteq Requests
  /\ listener \in [Requests -> Listeners]
  /\ run \in [Requests -> Runs]
  /\ dispatches \in [Requests -> Nat]
  /\ aborted \subseteq Requests
  /\ phase \in Phases
  /\ waiting \subseteq Requests
  /\ crashes \in 0 .. MaxCrashes
  /\ claim \in [Deliveries -> Contract!Phases]
  /\ claims \subseteq Requests \X Deliveries
  /\ answer \in [Requests -> Contract!Answers]

(* One delivery has one run at most, whatever the retries, disconnects and *)
(* restarts, and although two events reach the queueRun of a request.      *)
OneRunPerDelivery ==
  \A r, s \in Requests :
    dispatches[r] > 0 /\ dispatches[s] > 0 /\ delivery[r] = delivery[s]
      => r = s /\ dispatches[r] = 1

(* Once close() has aborted the runs, a run that nobody aborted can only   *)
(* belong to a client that never got its response: a run dispatched by     *)
(* "finish" is always reached by the shutdown.                             *)
ShutdownReachesRuns ==
  phase \in {"draining", "closed"} =>
    \A r \in Live : r \in aborted \/ r \notin flushed

(* A client that owes the server its request, or the rest of one that was  *)
(* rejected unread.  Once close() is called no timeout ends it.            *)
Dawdles(r) ==
  /\ conn[r] = "open"
  /\ handler[r] = "reading" \/ (handler[r] = "ended" /\ answer[r] = "none")

(* If no client dawdles for ever, close() returns: neither runs that       *)
(* ignore their signal nor connections left idle hold it up.               *)
CloseReturns ==
  (\A r \in Requests : []<> ~ Dawdles(r)) =>
    (phase = "closing" ~> phase \in {"closed", "serving"})

(* A session accepted while its response could still emit an event is      *)
(* dispatched, connected or not, unless the process dies first.            *)
ReachableIsDispatched ==
  \A r \in Requests :
    listener[r] = "armed" /\ r \notin resClosed ~>
      dispatches[r] > 0 \/ handler[r] = "lost"

(* ARCHITECTURE.md on a channel: it accepts a trigger and invokes the      *)
(* compiled lead.  Every accepted session is dispatched or lost to a crash.*)
AcceptedIsDispatched ==
  \A r \in Requests :
    answer[r] = "accepted" ~> dispatches[r] > 0 \/ handler[r] = "lost"
=============================================================================

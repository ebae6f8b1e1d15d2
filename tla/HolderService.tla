--------------------------- MODULE HolderService ---------------------------
(***************************************************************************)
(* One member as a holder of shards: from the router's queue through run   *)
(* and dispatch, the recovery queue and its workers to the outbound queue  *)
(* (src/core/cv_sapvss_apdb_network_scalar.go, src/core/cv_sapvss_router.go)*)
(*                                                                         *)
(* Every queue is bounded.  The router fails for good when its queue is    *)
(* full; dispatch and the workers wait for room.  Requests for the         *)
(* aggregate are registered per receiver until they are answered and can   *)
(* be cancelled meanwhile; requests for a component are claimed while a    *)
(* job for them exists.  Concurrent jobs for one response build it once:   *)
(* the first builds, the others wait for its outcome, and only a response, *)
(* never an error, is kept.                                                *)
(***************************************************************************)
EXTENDS Naturals, Sequences, FiniteSets

CONSTANTS NewReceivers, \* new members that ask for the aggregate
          Members,    \* old members that ask for the component
          Workers,    \* cvRecoveryServiceWorkers
          RouterCap, QueueCap, OutCap,  \* capacities of the queues
          Late,       \* shards offered only while the service runs
          MaxAsked,   \* bound on how often a receiver asks; a member asks once
          NoJob

Askers == NewReceivers \cup Members
Response == {"aggregate", "component"}
Wanted(q) == IF q \in NewReceivers THEN "aggregate" ELSE "component"
Messages == ({"get"} \X Askers) \cup ({"cancel"} \X NewReceivers)
            \cup ({"store"} \X Late)

ASSUME HolderAssumption ==
    /\ NewReceivers \cap Members = {} /\ Askers \cap Response = {} /\ NoJob \notin Askers
    /\ \A x \in ({"job"} \X Askers) \cup ({"reply"} \X Response) : x # NoJob
    /\ Late \subseteq Response /\ IsFiniteSet(Workers) /\ Workers # {}
    /\ RouterCap \in Nat /\ QueueCap \in Nat \ {0} /\ OutCap \in Nat \ {0}

VARIABLES
    hSeen,      \* how often each message has come in
    hRouterQ,   \* queue of the router
    hUp,        \* the service context is live
    hBlocked,   \* what dispatch waits to enqueue: a job, a reply or NoJob
    hQueue,     \* recoveryQueue
    hWorker,    \* what each worker is at, and for whom
    hActive,    \* aggregateRecoveryActiveScalar
    hClaimed,   \* recoveryRequestsInFlightScalar
    hCall,      \* the call that builds each response
    hStored,    \* shards in the holder store
    hOut,       \* outbound
    hAnswered   \* requesters a response was sent to

holderVars == <<hSeen, hRouterQ, hUp, hBlocked, hQueue, hWorker,
                hActive, hClaimed, hCall, hStored, hOut, hAnswered>>

Idle == [at |-> "idle", job |-> NoJob]
At(what, q) == [at |-> what, job |-> q]

HolderInit ==
    /\ hSeen = [m \in Messages |-> 0]
    /\ hRouterQ = <<>> /\ hUp = TRUE /\ hBlocked = NoJob
    /\ hQueue = <<>> /\ hWorker = [w \in Workers |-> Idle]
    /\ hActive = [q \in NewReceivers |-> "none"] /\ hClaimed = {}
    /\ hCall = [k \in Response |-> "none"] /\ hStored = Response \ Late
    /\ hOut = <<>> /\ hAnswered = {}

-----------------------------------------------------------------------------
\* A message comes in: readLoop of the router.  The lanes of a connection keep
\* no order, so that a cancellation may overtake the request.
Arrive(m) ==
    /\ hUp /\ hSeen[m] < (IF m[1] = "get" /\ m[2] \in NewReceivers THEN MaxAsked ELSE 1)
    /\ hSeen' = [hSeen EXCEPT ![m] = @ + 1]
    /\ IF Len(hRouterQ) < RouterCap
       THEN hRouterQ' = Append(hRouterQ, m) /\ UNCHANGED hUp
       ELSE hUp' = FALSE /\ UNCHANGED hRouterQ
    /\ UNCHANGED <<hBlocked, hQueue, hWorker, hActive, hClaimed, hCall, hStored,
                   hOut, hAnswered>>

-----------------------------------------------------------------------------
\* register and claim: the request has no job yet.
Registers(q) == IF q \in NewReceivers THEN hActive[q] = "none" ELSE q \notin hClaimed

RegisterJob(q) ==
    /\ hActive' = IF q \in NewReceivers THEN [hActive EXCEPT ![q] = "active"] ELSE hActive
    /\ hClaimed' = IF q \in Members THEN hClaimed \cup {q} ELSE hClaimed

\* Mutant: a cancellation frees the entry while the job is still about.
FinishOnCancel(q) ==
    hActive' = IF hActive[q] = "none" THEN hActive ELSE [hActive EXCEPT ![q] = "none"]

\* cancelAggregateRecoveryRequestScalar
MarkCancelled(q) ==
    hActive' = IF hActive[q] = "none" THEN hActive ELSE [hActive EXCEPT ![q] = "cancelled"]

\* run takes the next message; dispatch handles it.  It may have to wait with
\* what it enqueues, and takes no other message meanwhile.
Dispatch ==
    /\ hUp /\ hBlocked = NoJob /\ hRouterQ # <<>>
    /\ hRouterQ' = Tail(hRouterQ)
    /\ LET kind == Head(hRouterQ)[1]  q == Head(hRouterQ)[2] IN
          \/ /\ kind = "get" /\ Registers(q)
             /\ RegisterJob(q) /\ hBlocked' = <<"job", q>> /\ UNCHANGED hStored
          \/ /\ kind = "get" /\ ~ Registers(q)
             /\ UNCHANGED <<hActive, hClaimed, hBlocked, hStored>>
          \/ /\ kind = "cancel"
             /\ MarkCancelled(q) /\ UNCHANGED <<hClaimed, hBlocked, hStored>>
          \/ /\ kind = "store"
             /\ hStored' = hStored \cup {q} /\ hBlocked' = <<"reply", q>>
             /\ UNCHANGED <<hActive, hClaimed>>
    /\ UNCHANGED <<hSeen, hUp, hQueue, hWorker, hCall, hOut, hAnswered>>

\* enqueueRecoveryJobScalar, or sendAsync of dispatch, finds room.
Enqueue ==
    /\ hUp /\ hBlocked # NoJob
    /\ \/ /\ hBlocked[1] = "job" /\ Len(hQueue) < QueueCap
          /\ hQueue' = Append(hQueue, hBlocked[2]) /\ UNCHANGED hOut
       \/ /\ hBlocked[1] = "reply" /\ Len(hOut) < OutCap
          /\ hOut' = Append(hOut, hBlocked[2]) /\ UNCHANGED hQueue
    /\ hBlocked' = NoJob
    /\ UNCHANGED <<hSeen, hRouterQ, hUp, hWorker, hActive, hClaimed,
                   hCall, hStored, hAnswered>>

-----------------------------------------------------------------------------
Cancelled(q) == q \in NewReceivers /\ hActive[q] = "cancelled"

\* finishAggregateRecoveryRequestScalar
FinishJob(q) ==
    hActive' = IF q \in NewReceivers THEN [hActive EXCEPT ![q] = "none"] ELSE hActive

\* releaseRecoveryRequestScalar, deferred to the end of the job.
ReleaseClaim(q) == hClaimed' = hClaimed \ {q}

\* A worker takes a job; it joins the call that builds the response, or is the
\* one to build it, or finds it in the cache.
TakeJob(w) ==
    /\ hUp /\ hWorker[w].at = "idle" /\ hQueue # <<>>
    /\ hQueue' = Tail(hQueue)
    /\ LET q == Head(hQueue)  k == Wanted(q) IN
          IF Cancelled(q)
          THEN FinishJob(q) /\ UNCHANGED <<hWorker, hCall>>
          ELSE /\ hWorker' = [hWorker EXCEPT ![w] =
                     At(CASE hCall[k] = "none" -> "build"
                          [] hCall[k] = "building" -> "wait"
                          [] hCall[k] = "done" -> "send"
                          [] OTHER -> "drop", q)]
               /\ hCall' = IF hCall[k] = "none" THEN [hCall EXCEPT ![k] = "building"] ELSE hCall
               /\ UNCHANGED hActive
    /\ UNCHANGED <<hSeen, hRouterQ, hUp, hBlocked, hClaimed, hStored,
                   hOut, hAnswered>>

\* The holder store is read.
ReadStore(w) ==
    /\ hWorker[w].at = "build"
    /\ hWorker' = [hWorker EXCEPT ![w].at =
                      IF Wanted(hWorker[w].job) \in hStored THEN "ok" ELSE "err"]
    /\ UNCHANGED <<hSeen, hRouterQ, hUp, hBlocked, hQueue, hActive,
                   hClaimed, hCall, hStored, hOut, hAnswered>>

\* Mutant: the outcome of a failed call is kept as well.
CallKeepsError(w) == IF hWorker[w].at = "ok" THEN "done" ELSE "failed"

\* What becomes of the call: a response stays, an error does not.
CallAfter(w) == IF hWorker[w].at = "ok" THEN "done" ELSE "none"

\* call.ready is closed: who waited shares the outcome.
CloseCall(w) ==
    /\ hWorker[w].at \in {"ok", "err"}
    /\ LET k == Wanted(hWorker[w].job)
           then == IF hWorker[w].at = "ok" THEN "send" ELSE "drop"
       IN  /\ hCall' = [hCall EXCEPT ![k] = CallAfter(w)]
           /\ hWorker' = [v \in Workers |->
                 IF v = w \/ (hWorker[v].at = "wait" /\ Wanted(hWorker[v].job) = k)
                 THEN At(then, hWorker[v].job) ELSE hWorker[v]]
    /\ UNCHANGED <<hSeen, hRouterQ, hUp, hBlocked, hQueue, hActive,
                   hClaimed, hStored, hOut, hAnswered>>

\* No answer: the response could not be built, or is no longer wanted.
DropJob(w) ==
    /\ \/ hWorker[w].at = "drop"
       \/ hWorker[w].at = "send" /\ Cancelled(hWorker[w].job)
    /\ FinishJob(hWorker[w].job) /\ ReleaseClaim(hWorker[w].job)
    /\ hWorker' = [hWorker EXCEPT ![w] = Idle]
    /\ UNCHANGED <<hSeen, hRouterQ, hUp, hBlocked, hQueue, hCall,
                   hStored, hOut, hAnswered>>

\* sendAsyncConditionalScalar, as soon as outbound has room.
SendResponse(w) ==
    /\ hUp /\ hWorker[w].at = "send" /\ Len(hOut) < OutCap
    /\ hOut' = Append(hOut, hWorker[w].job)
    /\ ReleaseClaim(hWorker[w].job)
    /\ hWorker' = [hWorker EXCEPT ![w] = Idle]
    /\ UNCHANGED <<hSeen, hRouterQ, hUp, hBlocked, hQueue, hActive,
                   hCall, hStored, hAnswered>>

\* runOutboundMessageScalar: not sent if it has been cancelled meanwhile.
Outbound ==
    /\ hUp /\ hOut # <<>>
    /\ hOut' = Tail(hOut)
    /\ LET q == Head(hOut) IN
          IF q \in Response THEN UNCHANGED <<hActive, hAnswered>>
          ELSE /\ hAnswered' = IF Cancelled(q) THEN hAnswered ELSE hAnswered \cup {q}
               /\ FinishJob(q)
    /\ UNCHANGED <<hSeen, hRouterQ, hUp, hBlocked, hQueue, hWorker,
                   hClaimed, hCall, hStored>>

\* Close, or the failure of the router: a worker that is idle or waits leaves.
WorkerExits(w) ==
    /\ ~ hUp /\ hWorker[w].at \in {"idle", "wait", "send"}
    /\ hWorker' = [hWorker EXCEPT ![w] = At("exited", NoJob)]
    /\ UNCHANGED <<hSeen, hRouterQ, hUp, hBlocked, hQueue, hActive,
                   hClaimed, hCall, hStored, hOut, hAnswered>>

HolderNext ==
    \/ Dispatch \/ Enqueue \/ Outbound
    \/ \E m \in Messages : Arrive(m)
    \/ \E w \in Workers :
          \/ TakeJob(w) \/ ReadStore(w) \/ CloseCall(w) \/ DropJob(w)
          \/ SendResponse(w) \/ WorkerExits(w)

\* What is bound to happen: goroutines run, and a send ends because it has a
\* deadline.
HolderProgress ==
    \/ Dispatch \/ Enqueue \/ Outbound
    \/ \E w \in Workers : \/ TakeJob(w) \/ ReadStore(w) \/ CloseCall(w) \/ DropJob(w)
                          \/ SendResponse(w) \/ WorkerExits(w)

\* No step of HolderProgress is left: no goroutine can go on.
HolderAtRest ==
    /\ hUp => /\ hOut = <<>> /\ (hBlocked = NoJob => hRouterQ = <<>>)
              /\ hBlocked # NoJob => IF hBlocked[1] = "job" THEN Len(hQueue) >= QueueCap
                                                            ELSE Len(hOut) >= OutCap
              /\ \A w \in Workers : /\ hWorker[w].at = "idle" => hQueue = <<>>
                                    /\ hWorker[w].at = "send" => Len(hOut) >= OutCap
    /\ \A w \in Workers :
          /\ hWorker[w].at \notin {"build", "ok", "err", "drop"}
          /\ hWorker[w].at = "send" => ~ Cancelled(hWorker[w].job)
          /\ ~hUp => hWorker[w].at \notin {"idle", "wait", "send"}

-----------------------------------------------------------------------------
HolderTypeOK ==
    /\ hSeen \in [Messages -> Nat]
    /\ Len(hRouterQ) <= RouterCap /\ Len(hQueue) <= QueueCap /\ Len(hOut) <= OutCap
    /\ hActive \in [NewReceivers -> {"none", "active", "cancelled"}]
    /\ hClaimed \subseteq Members /\ hStored \subseteq Response
    /\ hCall \in [Response -> {"none", "building", "done"}]
    /\ hAnswered \subseteq Askers
    /\ \A w \in Workers : hWorker[w].at \in
          {"idle", "build", "wait", "ok", "err", "send", "drop", "exited"}

\* The places where the request of q is being worked on.
Places(q, withOut) ==
    (IF hBlocked = <<"job", q>> THEN 1 ELSE 0)
    + Cardinality({n \in DOMAIN hQueue : hQueue[n] = q})
    + Cardinality({w \in Workers : hWorker[w].job = q})
    + IF withOut THEN Cardinality({n \in DOMAIN hOut : hOut[n] = q}) ELSE 0

\* Whatever the order of requests, repeated requests, cancellations and
\* failures, an entry of the two tables stands for exactly one job: a request is
\* neither worked on twice at a time nor shut out by an entry nobody will remove.
EntryHasOneJob ==
    hUp => /\ \A q \in NewReceivers : Places(q, TRUE) = IF hActive[q] = "none" THEN 0 ELSE 1
           /\ \A q \in Members : Places(q, FALSE) = IF q \in hClaimed THEN 1 ELSE 0

\* A job that starts when the shard is on disk, and no older attempt is under
\* way, is answered: errors of earlier attempts are not remembered.
StoredIsServed ==
    \A q \in Askers :
        (/\ hQueue # <<>> /\ Head(hQueue) = q /\ q \notin hAnswered
         /\ Wanted(q) \in hStored /\ hCall[Wanted(q)] # "building")
        ~> (q \in hAnswered \/ Cancelled(q) \/ ~ hUp)

\* Dispatch waits for room in a full queue, but never for good: the workers and
\* the sender that make room wait for nothing dispatch has to do first.
DispatchResumes == hUp /\ HolderAtRest => hBlocked = NoJob

\* When the router has failed, every worker leaves and Close returns.
HolderCloses ==
    ~hUp /\ HolderAtRest => \A w \in Workers : hWorker[w].at = "exited"
=============================================================================

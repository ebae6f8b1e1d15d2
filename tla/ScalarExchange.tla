--------------------------- MODULE ScalarExchange ---------------------------
(***************************************************************************)
(* How the new committee recovers its scalars and exchanges the public     *)
(* outputs: RecoverAndExchangeScalarShare and handleAggregateShare of      *)
(* src/core/cv_sapvss_apdb_network_scalar.go, PersistOnce of               *)
(* src/core/cv_sapvss_scalar_store.go and the end of RunCVEpochScalar in   *)
(* src/core/cv_sapvss_epoch_scalar.go.                                     *)
(*                                                                         *)
(* A member puts its scalar on disk, then registers and sends its output   *)
(* to all, and repeats it, whenever its timer fires, to those whose output *)
(* is missing; after the last repetition it gives up at once.  An output   *)
(* that comes before the receiver has registered, or after it has closed   *)
(* its service, is lost.  Every other one is answered with the receiver's  *)
(* own, so that two members keep answering each other until one closes:    *)
(* at once if its call has failed, after a grace if it has the key.        *)
(***************************************************************************)
EXTENDS Integers, FiniteSets

CONSTANTS New,        \* the new committee
          NewFaulty,  \* members that do not follow the protocol
          NewF,       \* NewFaults
          MaxSends,   \* cvControlRetryMaxAttemptsScalar
          MaxCrashes  \* bound on crashes

ASSUME ExchangeAssumption ==
    /\ IsFiniteSet(New) /\ NewFaulty \subseteq New /\ NewF \in Nat
    /\ MaxSends \in Nat /\ MaxCrashes \in Nat

NewCorrect == New \ NewFaulty
ShareThreshold == Cardinality(New) - NewF  \* newShareThreshold

VARIABLES
    xDisk,     \* members whose scalar is in the scalar store
    xUp,       \* members with an entry in localScalarOutputs of an open service
    xPending,  \* members with an entry in pendingScalarShares
    xOutputs,  \* pending.outputs
    xAttempt,  \* repetitions of a pending member
    xEnded,    \* how a member's call has returned: "done", "failed" after
               \* the last repetition, or "cancelled" with its context
    xWire,     \* outputs under way from one member to another
    xReleased, \* members whose output has left them
    xCrashed   \* crashes so far

exchangeVars == <<xDisk, xUp, xPending, xOutputs, xAttempt, xEnded, xWire,
                  xReleased, xCrashed>>

Pairs == NewCorrect \X NewCorrect

\* One more message from i to each member of S.
SentTo(w, i, S) ==
    [p \in Pairs |-> IF p[1] = i /\ p[2] \in S \ {i} THEN w[p] + 1 ELSE w[p]]

ExchangeInit ==
    /\ xDisk = {} /\ xUp = {} /\ xPending = {} /\ xReleased = {} /\ xCrashed = 0
    /\ xOutputs = [i \in NewCorrect |-> {}]
    /\ xAttempt = [i \in NewCorrect |-> 0]
    /\ xEnded = [i \in NewCorrect |-> "no"]
    /\ xWire = [p \in Pairs |-> 0]

-----------------------------------------------------------------------------
\* The aggregate is recovered and the scalar decrypted and persisted.
PersistOnce(i) ==
    /\ i \notin xDisk
    /\ xDisk' = xDisk \cup {i}
    /\ UNCHANGED <<xUp, xPending, xOutputs, xAttempt, xEnded, xWire,
                   xReleased, xCrashed>>

\* The exchange is registered and the output sent for the first time.  After a
\* restart PersistOnce finds the same bytes and succeeds again.
Release(i) ==
    /\ i \in xDisk \ xUp /\ xEnded[i] = "no"
    /\ xUp' = xUp \cup {i} /\ xPending' = xPending \cup {i}
    /\ xReleased' = xReleased \cup {i}
    /\ xOutputs' = [xOutputs EXCEPT ![i] = {i}]
    /\ xWire' = SentTo(xWire, i, NewCorrect)
    /\ UNCHANGED <<xDisk, xAttempt, xEnded, xCrashed>>

EnoughOutputs(i) == Cardinality(xOutputs[i]) >= ShareThreshold

\* The retry timer: the output goes to the members whose output is missing,
\* whatever is still under way.
Repeat(i) ==
    /\ i \in xPending /\ ~EnoughOutputs(i) /\ xAttempt[i] < MaxSends
    /\ xAttempt' = [xAttempt EXCEPT ![i] = @ + 1]
    /\ xWire' = SentTo(xWire, i, NewCorrect \ xOutputs[i])
    /\ UNCHANGED <<xDisk, xUp, xPending, xOutputs, xEnded, xReleased, xCrashed>>

\* A call that returns an error closes the member's service.
Returns(i, outcome) ==
    /\ xPending' = xPending \ {i}
    /\ xEnded' = [xEnded EXCEPT ![i] = outcome]
    /\ xUp' = IF outcome = "done" THEN xUp ELSE xUp \ {i}
    /\ xAttempt' = [xAttempt EXCEPT ![i] = 0]
    /\ xOutputs' = [xOutputs EXCEPT ![i] = {}]
    /\ UNCHANGED <<xDisk, xWire, xReleased, xCrashed>>

\* The call returns with the threshold key, or with an error: the last
\* repetition is not waited for.
ExchangeEnds(i) ==
    /\ i \in xPending
    /\ \/ EnoughOutputs(i) /\ Returns(i, "done")
       \/ ~EnoughOutputs(i) /\ xAttempt[i] = MaxSends /\ Returns(i, "failed")

\* The epoch's context ends during the exchange.
ContextEnds(i) == i \in xPending /\ Returns(i, "cancelled")

\* The grace of a member that has the key is over, or its context has ended.
CloseService(i) ==
    /\ i \in xUp /\ xEnded[i] = "done"
    /\ xUp' = xUp \ {i}
    /\ UNCHANGED <<xDisk, xPending, xOutputs, xAttempt, xEnded, xWire, xReleased, xCrashed>>

\* Mutant: a member that has the key does not answer any more.
AnswersPending(i) == i \in xPending

\* Member i has an output to answer with.
AnswersOutput(i) == i \in xUp

\* There is an output of j for i; a faulty member may send one at any time.
Arrives(j, i) == IF j \in NewFaulty THEN TRUE ELSE xWire[<<j, i>>] > 0
Taken(j, i) ==
    [p \in Pairs |-> IF p = <<j, i>> THEN xWire[p] - 1 ELSE xWire[p]]

\* handleAggregateShare: member i is handed the output of j.
OnOutput(i, j) ==
    /\ Arrives(j, i)
    /\ xOutputs' = [xOutputs EXCEPT ![i] = IF i \in xPending THEN @ \cup {j} ELSE @]
    /\ LET w == Taken(j, i)
       IN  xWire' = IF AnswersOutput(i) THEN SentTo(w, i, {j}) ELSE w
    /\ UNCHANGED <<xDisk, xUp, xPending, xAttempt, xEnded, xReleased,
                   xCrashed>>

\* The process stops and is run again; only the store is left.
CrashReceiver(i) ==
    /\ xCrashed < MaxCrashes /\ xEnded[i] = "no"
    /\ xCrashed' = xCrashed + 1
    /\ xUp' = xUp \ {i} /\ xPending' = xPending \ {i}
    /\ xOutputs' = [xOutputs EXCEPT ![i] = {}]
    /\ xAttempt' = [xAttempt EXCEPT ![i] = 0]
    /\ UNCHANGED <<xDisk, xEnded, xWire, xReleased>>

ExchangeNext ==
    \E i \in NewCorrect :
        \/ PersistOnce(i) \/ Release(i) \/ Repeat(i) \/ ExchangeEnds(i)
        \/ ContextEnds(i) \/ CloseService(i) \/ CrashReceiver(i)
        \/ \E j \in New : OnOutput(i, j)

ExchangeSpec == ExchangeInit /\ [][ExchangeNext]_exchangeVars

-----------------------------------------------------------------------------
\* A pending member has registered its output, and its repetitions end.
ExchangeTypeOK ==
    /\ xDisk \subseteq NewCorrect /\ xUp \subseteq NewCorrect
    /\ xPending \subseteq xUp /\ xReleased \subseteq NewCorrect
    /\ xOutputs \in [NewCorrect -> SUBSET New]
    /\ xAttempt \in [NewCorrect -> 0 .. MaxSends]
    /\ xEnded \in [NewCorrect -> {"no", "done", "failed", "cancelled"}]
    /\ xWire \in [Pairs -> Nat]
    /\ xCrashed \in 0 .. MaxCrashes

\* An output that has left a member can be answered for after a crash: the
\* scalar behind it is on disk.
ReleasedPersisted == xReleased \subseteq xDisk

\* The answers that two members keep sending each other do not multiply: there
\* are never more under way than the two can have sent of their own accord, one
\* in each round of each run.
EchoBounded ==
    \A i, j \in NewCorrect :
        xWire[<<i, j>>] + xWire[<<j, i>>] <= (2 + xCrashed) * (MaxSends + 1)

\* Nothing is under way between two members.
Quiet(i, j) == xWire[<<i, j>>] = 0 /\ xWire[<<j, i>>] = 0

\* A member gives up only when the others have left it or are too slow: fewer
\* members than the threshold asks for, itself included, still have their
\* service open and have had all its messages and given all their answers.
FailsAlone ==
    [][\A i \in NewCorrect :
         xEnded[i] = "no" /\ xEnded'[i] = "failed" =>
            Cardinality({j \in xUp : Quiet(i, j)}) < ShareThreshold]_exchangeVars
=============================================================================

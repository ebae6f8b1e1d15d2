------------------------------ MODULE MCRuntime ------------------------------
(***************************************************************************)
(* What a node runs, each part on its own: the worker pool of a holder,    *)
(* the loopback transport with four senders on pooled connections, two     *)
(* epochs of the barrier of three processes, one of which may come to      *)
(* another result, the slots of two sampled proposers among the three      *)
(* correct members of a committee of four whose fourth is silent, and one  *)
(* invocation of the coin, with the fourth member taking part as it likes. *)
(* A behaviour is one of one part.                                         *)
(***************************************************************************)
EXTENDS HolderService, Transport, EpochBarrier, ProposerSlots, TLC

CONSTANTS m1, m2, m3, m4, d1, d2, me,
          CoinOld,    \* the committee of the coin
          CoinFaulty, \* its faulty members
          F,          \* OldFaults
          MaxRetries  \* cvControlRetryMaxAttemptsScalar

ASSUME CoinAssumption ==
    IsFiniteSet(CoinOld) /\ CoinFaulty \subseteq CoinOld /\ F \in Nat /\ MaxRetries \in Nat

\* Two messages to one destination, one to another, one to the sender itself.
MCDest == m1 :> d1 @@ m2 :> d1 @@ m3 :> d2 @@ m4 :> me

VARIABLES scenario, entered, shares, retries, wire, replied, output

C == INSTANCE Coin WITH Old <- CoinOld, Faulty <- CoinFaulty

coinVars == <<entered, shares, retries, wire, replied, output>>

allVars == <<scenario, holderVars, transportVars, barrierVars, vars, coinVars>>

In(s) == scenario = s

MCInit ==
    /\ scenario \in {"holder", "transport", "barrier", "slots", "coin"}
    /\ HolderInit /\ TransportInit /\ BarrierInit /\ Init /\ C!CoinInit

MCNext ==
    /\ UNCHANGED scenario
    /\ \/ In("holder") /\ HolderNext /\ UNCHANGED <<transportVars, barrierVars, vars, coinVars>>
       \/ In("transport") /\ TransportNext /\ UNCHANGED <<holderVars, barrierVars, vars, coinVars>>
       \/ In("barrier") /\ BarrierNext /\ UNCHANGED <<holderVars, transportVars, vars, coinVars>>
       \/ In("slots") /\ Next /\ UNCHANGED <<holderVars, transportVars, barrierVars, coinVars>>
       \/ In("coin") /\ C!CoinNext /\ UNCHANGED <<holderVars, transportVars, barrierVars, vars>>

\* A process of the series is one thread: it goes on while it can.
ProcessSteps(p) ==
    \/ WriteReady(p) \/ ListenersReady(p) \/ WriteMarker(p) \/ ScanEnds(p)
    \/ \E d \in Digests : RunEpoch(p, d)
    \/ \E q \in Procs : ReadMarker(p, q)

\* Dispatch, workers and sender of the holder run, as do the processes that are
\* not the deviating one; shares of the coin between correct members arrive, and
\* who can recover it does.
MCSpec ==
    /\ MCInit /\ [][MCNext]_allVars
    /\ WF_holderVars(In("holder") /\ HolderProgress)
    /\ \A p \in Procs \ Deviating : WF_barrierVars(In("barrier") /\ ProcessSteps(p))
    /\ WF_coinVars(In("coin") /\ C!CoinProgress)

-----------------------------------------------------------------------------
TypesOK == HolderTypeOK /\ TransportTypeOK /\ BarrierTypeOK /\ TypeOK /\ C!CoinTypeOK

\* A message or request is handled once: it does not arrive twice, nor after an
\* error that lets the sender repeat it, is lost without an error only when a
\* connection breaks, and has one job at a time in the tables of a holder.
HandledOnce == AtMostOnce /\ LostOnlyByBreak /\ EntryHasOneJob

\* Nothing waits for good: dispatch gets room in a full queue, workers leave
\* when the router has failed, and every Send returns.
RuntimeSettles == DispatchResumes /\ HolderCloses /\ SendEnds

\* Where candidates and coin come to rest, whoever takes part and has not given
\* up has what one correct member has had: the candidate that the proposer may
\* have stopped sending, and the coin's output, however late it entered.
CandidatesSettle == CandidateSpreads /\ C!CoinReached

\* The answers to shares, answered themselves, come to an end (module Coin).
TrafficEnds == In("coin") => C!TrafficEnds

\* Errors do not spread: an open connection stays in the pool, a job is served
\* from what is on disk whatever earlier attempts came to, and the processes
\* that agree get to the end of the series without the f that do not write,
\* unless a marker differs.
RuntimeServes == /\ OpenStaysPooled
                 /\ (In("holder") => StoredIsServed)
                 /\ (In("barrier") => SeriesEnds)
=============================================================================

------------------------------ MODULE LaneAcks ------------------------------
(***************************************************************************)
(* A dealer's collection of lane acknowledgements and the receivers' lane  *)
(* workers: CollectAPVSSLaneACKs, sendAPVSSLaneOffers, handleAPVSSLaneACK, *)
(* enqueueAPVSSLaneOffer and runLaneOfferWorker of                         *)
(* src/core/cv_sapvss_component_service.go.                                *)
(*                                                                         *)
(* The dealer registers its collection, sends one offer per receiver with  *)
(* several workers, and reads the acknowledgements only when all the sends *)
(* have returned; until then they wait in a channel with room for one per  *)
(* receiver, and one that finds it full is dropped and never sent again.   *)
(* A receiver that repeats its acknowledgement takes room from the others. *)
(***************************************************************************)
EXTENDS Integers, FiniteSets, Sequences, SequencesExt

CONSTANTS LaneReceivers,   \* the new committee
          LaneFaulty,      \* receivers that do not follow the protocol
          LaneUnreachable, \* sets of receivers that may be unreachable
          Degree,          \* sharingDegree
          RequiredAcks,    \* how many the configuration waits for
          MaxRepeats       \* bound on repeated acknowledgements

ASSUME LaneAssumption ==
    /\ IsFiniteSet(LaneReceivers) /\ LaneFaulty \subseteq LaneReceivers
    /\ Degree \in 0 .. Cardinality(LaneReceivers) - 1 /\ Cardinality(LaneFaulty) <= Degree
    /\ RequiredAcks \in Cardinality(LaneReceivers) - Degree .. Cardinality(LaneReceivers)

VARIABLES
    laneDown,    \* receivers a send to fails
    laneTried,   \* receivers whose offer a worker has sent or failed to send
    laneQueue,   \* laneOfferQueue: offers that wait for a lane worker
    laneMarked,  \* processingLaneOffers
    laneAcked,   \* receivers that have acknowledged
    laneRepeats, \* acknowledgements sent by receivers that had sent one before
    laneFlight,  \* acknowledgements on their way
    laneBuffer,  \* the channel of the collection
    laneDropped, \* receivers one of whose acknowledgements was dropped
    laneAcks,    \* acks
    lanePhase    \* sending, waiting, grace, assembled or failed

ackVars == <<laneAcked, laneRepeats>>
laneVars == <<laneDown, laneTried, laneQueue, laneMarked, ackVars, laneFlight,
              laneBuffer, laneDropped, laneAcks, lanePhase>>

\* n - t: the receivers an offer has to reach.
LaneThreshold == Cardinality(LaneReceivers) - Degree

LaneInit ==
    /\ laneDown \in LaneUnreachable /\ laneTried = {} /\ laneQueue = {}
    /\ laneMarked = {} /\ laneAcked = {} /\ laneRepeats = 0 /\ laneFlight = <<>>
    /\ laneBuffer = <<>> /\ laneDropped = {} /\ laneAcks = {} /\ lanePhase = "sending"

\* enqueueAPVSSLaneOffer: the first offer for a receiver is queued, a copy
\* is not.
OfferQueued(r) ==
    /\ laneMarked' = laneMarked \cup {r}
    /\ laneQueue' = IF r \in laneMarked \cup LaneFaulty THEN laneQueue ELSE laneQueue \cup {r}

SendOffer(r) ==
    /\ lanePhase = "sending" /\ r \notin laneTried
    /\ laneTried' = laneTried \cup {r}
    /\ IF r \in laneDown THEN UNCHANGED <<laneMarked, laneQueue>> ELSE OfferQueued(r)
    /\ UNCHANGED <<laneDown, ackVars, laneFlight, laneBuffer, laneDropped, laneAcks, lanePhase>>

\* All workers have returned.
SendsDone ==
    /\ lanePhase = "sending" /\ laneTried = LaneReceivers
    /\ lanePhase' = IF Cardinality(LaneReceivers \ laneDown) < LaneThreshold
                    THEN "failed" ELSE "waiting"
    /\ UNCHANGED <<laneDown, laneTried, laneQueue, laneMarked, ackVars, laneFlight,
                   laneBuffer, laneDropped, laneAcks>>

\* handleAPVSSLaneOffer of a correct receiver; a faulty one that has an offer
\* acknowledges it as often as it likes.
Acknowledge(r) ==
    /\ IF r \in LaneFaulty
       THEN r \in laneMarked /\ (r \in laneAcked => laneRepeats < MaxRepeats) /\ UNCHANGED laneQueue
       ELSE r \in laneQueue /\ laneQueue' = laneQueue \ {r}
    /\ laneAcked' = laneAcked \cup {r}
    /\ laneRepeats' = IF r \in laneAcked THEN laneRepeats + 1 ELSE laneRepeats
    /\ laneFlight' = Append(laneFlight, r)
    /\ UNCHANGED <<laneDown, laneTried, laneMarked, laneBuffer, laneDropped, laneAcks, lanePhase>>

\* Mutant: the channel has room for the acknowledgements that are waited for.
LaneRoomRequired == RequiredAcks

LaneRoom == Cardinality(LaneReceivers)

\* Mutant: the collection is registered when the offers have been sent.
LaneRegisteredLate == lanePhase \in {"waiting", "grace"}

\* The collection is in pendingLaneACKs.
LaneRegistered == lanePhase \notin {"assembled", "failed"}

\* handleAPVSSLaneACK: a receiver may be in the channel more than once.
AckArrives(k) ==
    /\ k \in 1 .. Len(laneFlight)
    /\ laneFlight' = RemoveAt(laneFlight, k)
    /\ IF ~LaneRegistered THEN UNCHANGED <<laneBuffer, laneDropped>>
       ELSE IF Len(laneBuffer) < LaneRoom
       THEN laneBuffer' = Append(laneBuffer, laneFlight[k]) /\ UNCHANGED laneDropped
       ELSE laneDropped' = laneDropped \cup {laneFlight[k]} /\ UNCHANGED laneBuffer
    /\ UNCHANGED <<laneDown, laneTried, laneQueue, laneMarked, ackVars, laneAcks, lanePhase>>

\* One acknowledgement is read; with enough of them the grace begins, with
\* all the leaf is assembled.
TakeAck ==
    /\ lanePhase \in {"waiting", "grace"} /\ laneBuffer # <<>>
    /\ laneAcks' = laneAcks \cup {Head(laneBuffer)} /\ laneBuffer' = Tail(laneBuffer)
    /\ lanePhase' = IF laneAcks' = LaneReceivers THEN "assembled"
                    ELSE IF Cardinality(laneAcks') >= RequiredAcks THEN "grace" ELSE lanePhase
    /\ UNCHANGED <<laneDown, laneTried, laneQueue, laneMarked, ackVars, laneFlight, laneDropped>>

\* The grace is over: the exact fallback covers the other lanes.
AckGraceEnds ==
    /\ lanePhase = "grace"
    /\ lanePhase' = "assembled"
    /\ UNCHANGED <<laneDown, laneTried, laneQueue, laneMarked, ackVars, laneFlight,
                   laneBuffer, laneDropped, laneAcks>>

LaneNext ==
    \/ \E r \in LaneReceivers : SendOffer(r) \/ Acknowledge(r)
    \/ SendsDone \/ TakeAck \/ AckGraceEnds
    \/ \E k \in 1 .. Len(laneFlight) : AckArrives(k)

\* What is bound to happen: sends return, lane workers run and links are
\* reliable.
LaneProgress ==
    \/ \E r \in LaneReceivers : SendOffer(r)
    \/ \E r \in LaneReceivers \ LaneFaulty : Acknowledge(r)
    \/ SendsDone \/ AckArrives(1) \/ TakeAck \/ AckGraceEnds

\* No step of LaneProgress is left: every offer and acknowledgement is through.
LaneAtRest ==
    /\ lanePhase \notin {"sending", "grace"} /\ (lanePhase = "waiting" => laneBuffer = <<>>)
    /\ laneQueue \subseteq LaneFaulty /\ laneFlight = <<>>

LaneSpec == LaneInit /\ [][LaneNext]_laneVars

-----------------------------------------------------------------------------
LaneTypeOK ==
    /\ laneTried \subseteq LaneReceivers /\ laneQueue \subseteq laneMarked
    /\ laneAcks \subseteq laneMarked
    /\ lanePhase \in {"sending", "waiting", "grace", "assembled", "failed"}
    /\ lanePhase = "assembled" => Cardinality(laneAcks) >= LaneThreshold

(* However the acknowledgements are timed against the dealer's sends: the  *)
(* channel is full only behind repetitions, and crowding receivers out     *)
(* takes the faulty ones at least as many of those.                        *)
NoneCrowdedOut == Cardinality(laneDropped) <= laneRepeats

(* The dealer waits for good only when the correct receivers it reached    *)
(* and whose acknowledgements were not crowded out are too few.            *)
LanesEnd ==
    LaneAtRest =>
        \/ lanePhase \in {"assembled", "failed"}
        \/ Cardinality(LaneReceivers \ (laneDown \cup LaneFaulty \cup laneDropped)) < RequiredAcks
=============================================================================

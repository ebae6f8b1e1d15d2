---------------------------- MODULE Materialize ----------------------------
(***************************************************************************)
(* From component certificates to one certified aggregate, in the service  *)
(* of src/core/cv_sapvss_component_service.go, cv_sapvss_ready.go and      *)
(* cv_sapvss_aggregate_service.go.                                         *)
(*                                                                         *)
(* A member keeps one certified descriptor per dealer.  Its pool is the    *)
(* n-f smallest dealers it has; every new pool is published in a ReadyCert *)
(* that carries the descriptors.  A member accepts a pool only while it is *)
(* its own, and signs an aggregate offered under an accepted pool once it  *)
(* has rebuilt it.  One member materializes first, the others after a      *)
(* grace; n-f signatures certify the aggregate.                            *)
(*                                                                         *)
(* A lock certificate allows one descriptor per dealer, so a descriptor is *)
(* its dealer, a pool (ReadyCert root) a set of dealers, and an aggregate  *)
(* header the set of dealers it adds up.                                   *)
(***************************************************************************)
EXTENDS Committee, FiniteSetsExt

CONSTANTS Lead,          \* eligible[0], or the primary when all are eligible
          EpochPrimary,  \* cvPrimaryMaterializer
          Hasty,         \* members whose graces may end too soon
          LeafChoices,   \* sets of dealers whose leaves may be the valid ones
          Early,         \* dealers everyone has the certificate of at the start
          Cases          \* records: members that are eligible, members a faulty
                         \* dealer sends its certificate to, and a bound on the
                         \* messages of faulty members

\* Members are numbers; the leaf of a correct dealer is valid.
ASSUME MaterializeAssumption ==
    /\ Old \subseteq Nat /\ Early \subseteq Old
    /\ \A leaves \in LeafChoices : Correct \subseteq leaves

VARIABLES
    mtCase,       \* which of the cases this is
    mtValid,      \* dealers whose leaf passes verification
    mtCertified,  \* dealers that have a component certificate
    mtDesc,       \* componentDescriptors
    mtPublished,  \* publishedReadyRoots
    mtAccepted,   \* acceptedReadyRoots
    mtComputed,   \* pool the dealer goroutine is about to publish
    mtStage,      \* how far materializeFirstCertified is
    mtLatest,     \* last pool put into readyCandidates
    mtSeen,       \* seen
    mtFlight,     \* pool of the attempt in flight
    mtPending,    \* header whose ARC the attempt collects
    mtOffers,     \* manifest offers on their way
    mtParked,     \* pendingReadyOffers, one per sender
    mtProcessing, \* processingOffers
    mtPersisted,  \* persistedFreshArtifacts
    mtAnswers,    \* ARC shares sent
    mtCerts,      \* aggregateCertificates
    mtCandidates, \* verifiedAggregateCandidates
    mtOffered,    \* certifiedCandidates
    mtNotices,    \* ARC certificates on their way
    mtLies,       \* messages of faulty members
    mtResult      \* what materializeFirstCertified returned

poolVars == <<mtDesc, mtPublished, mtAccepted, mtLatest>>
loopVars == <<mtStage, mtSeen, mtFlight>>
offerVars == <<mtOffers, mtParked, mtProcessing>>
signVars == <<mtPersisted, mtAnswers, mtCandidates>>
certVars == <<mtCerts, mtOffered, mtNotices>>
materializeVars == <<mtCase, mtValid, mtCertified, mtComputed, poolVars, loopVars, mtPending,
                     offerVars, signVars, certVars, mtResult, mtLies>>

Smallest(S, k) == CHOOSE T \in kSubset(k, S) : \A x \in T, y \in S \ T : x < y

\* The pool of a member that has the descriptors D.
CanonicalPool(D) == Smallest(D, ControlThreshold)

\* FirstKValid: the f+1 smallest dealers of a pool whose leaves verify.
FirstKValid(pool) == Smallest(pool \cap mtValid, ComponentCount)

Pools == kSubset(ControlThreshold, Old)
Headers == kSubset(ComponentCount, Old)

IsCanonical(p, pool) ==
    Cardinality(mtDesc[p]) >= ControlThreshold /\ CanonicalPool(mtDesc[p]) = pool

\* A message of a faulty member is counted.
Lies(q) ==
    /\ q \in Faulty => mtLies < mtCase.lies
    /\ mtLies' = IF q \in Faulty THEN mtLies + 1 ELSE mtLies

MaterializeInit ==
    /\ mtCase \in Cases /\ mtValid \in LeafChoices /\ mtCertified = Early
    /\ mtDesc = [p \in Correct |-> Early] /\ mtPublished = [p \in Correct |-> {}]
    /\ mtAccepted = [p \in Correct |-> {}] /\ mtComputed = [p \in Correct |-> None]
    /\ mtStage = [p \in Correct |-> "collect"] /\ mtLatest = [p \in Correct |-> None]
    /\ mtSeen = [p \in Correct |-> {}] /\ mtFlight = [p \in Correct |-> None]
    /\ mtPending = [p \in Correct |-> None]
    /\ mtOffers = {}
    /\ mtParked = [p \in Correct |-> [q \in Old |-> None]]
    /\ mtProcessing = [p \in Correct |-> {}] /\ mtPersisted = [p \in Correct |-> {}]
    /\ mtAnswers = {} /\ mtCerts = [p \in Correct |-> {}]
    /\ mtCandidates = [p \in Correct |-> {}] /\ mtOffered = [p \in Correct |-> {}]
    /\ mtNotices = {} /\ mtResult = [p \in Correct |-> None] /\ mtLies = 0

-----------------------------------------------------------------------------
(* Descriptors and pools.                                                  *)

\* maybePublishCanonicalReadyCertificate for the pools a member passes
\* through as its descriptors grow; the last one is what a reader that
\* drains readyCandidates sees.
Publish(p, pools) ==
    LET new == pools \ mtPublished[p]
    IN /\ mtPublished' = [mtPublished EXCEPT ![p] = @ \cup new]
       /\ mtLatest' = [mtLatest EXCEPT ![p] =
            IF new = {} THEN @
            ELSE CHOOSE r \in new : \A s \in new : SumSet(r) <= SumSet(s)]

\* The pools a member has on the way from descriptors D to D \cup news,
\* taken in the order of the dealers.
PoolsOnTheWay(D, news) ==
    {CanonicalPool(D \cup {d \in news : d <= k}) : k \in
        {k \in news \ D : Cardinality(D \cup {d \in news : d <= k}) >= ControlThreshold}}

\* A certificate of another dealer arrives (cvTagComponentCert).
CertArrives(p, d) ==
    /\ d \in mtCertified \ (mtDesc[p] \cup {p}) /\ (d \in Faulty => p \in mtCase.shown)
    /\ mtDesc' = [mtDesc EXCEPT ![p] = @ \cup {d}]
    /\ Publish(p, PoolsOnTheWay(mtDesc[p], {d}))
    /\ mtAccepted' = [mtAccepted EXCEPT ![p] = @ \cup PoolsOnTheWay(mtDesc[p], {d})]
    /\ UNCHANGED <<mtLies, mtCase, mtValid, mtCertified, mtComputed, loopVars, mtPending, offerVars,
                   signVars, certVars, mtResult>>

\* The dealer goroutine of p has its certificate, records it and computes the
\* pool; it publishes the pool in a later critical section.
OwnCert(p) ==
    /\ p \notin mtCertified
    /\ mtCertified' = mtCertified \cup {p}
    /\ mtDesc' = [mtDesc EXCEPT ![p] = @ \cup {p}]
    /\ mtComputed' = [mtComputed EXCEPT ![p] =
         IF Cardinality(mtDesc[p] \cup {p}) >= ControlThreshold
         THEN CanonicalPool(mtDesc[p] \cup {p}) ELSE None]
    /\ UNCHANGED <<mtLies, mtCase, mtValid, mtPublished, mtAccepted, mtLatest, loopVars,
                   mtPending, offerVars, signVars, certVars, mtResult>>

\* Mutant: a pool of one's own is published without being accepted.
OwnPublishOnly(p) ==
    /\ mtComputed[p] # None
    /\ mtComputed' = [mtComputed EXCEPT ![p] = None]
    /\ Publish(p, {mtComputed[p]})
    /\ UNCHANGED <<mtLies, mtCase, mtValid, mtCertified, mtDesc, mtAccepted, loopVars,
                   mtPending, offerVars, signVars, certVars, mtResult>>

OwnPublish(p) ==
    /\ mtComputed[p] # None
    /\ mtComputed' = [mtComputed EXCEPT ![p] = None]
    /\ Publish(p, {mtComputed[p]})
    /\ mtAccepted' = [mtAccepted EXCEPT ![p] = @ \cup {mtComputed[p]}]
    /\ UNCHANGED <<mtLies, mtCase, mtValid, mtCertified, mtDesc, loopVars, mtPending, offerVars,
                   signVars, certVars, mtResult>>

\* A faulty dealer obtains its certificate.
FaultyCert(d) ==
    /\ d \in Faulty \ mtCertified
    /\ mtCertified' = mtCertified \cup {d}
    /\ UNCHANGED <<mtLies, mtCase, mtValid, mtComputed, poolVars, loopVars, mtPending, offerVars,
                   signVars, certVars, mtResult>>

\* handleReadyCertificate: its descriptors are accepted first; the pool is,
\* if it is then the member's own, and with it the offers that wait for it.
\* (Every published pool is sent to all; a copy that changes nothing is left
\* out.)
ReadyArrives(p, q, pool) ==
    /\ pool \subseteq mtCertified
    /\ q \in Correct => pool \in mtPublished[q]
    /\ \/ ~ (pool \subseteq mtDesc[p])
       \/ IsCanonical(p, pool) /\ (\/ pool \notin mtAccepted[p]
                                   \/ \E s \in Old : mtParked[p][s] # None /\ mtParked[p][s][1] = pool)
    /\ Lies(q)
    /\ LET D == mtDesc[p] \cup pool
           own == CanonicalPool(D) = pool
           met == PoolsOnTheWay(mtDesc[p], pool)
           new == met \ mtPublished[p]
       IN /\ mtDesc' = [mtDesc EXCEPT ![p] = D]
          /\ mtPublished' = [mtPublished EXCEPT ![p] = @ \cup new]
          /\ mtLatest' = [mtLatest EXCEPT ![p] =
               IF new = {} THEN @
               ELSE CHOOSE r \in new : \A s \in new : SumSet(r) <= SumSet(s)]
          /\ mtAccepted' = [mtAccepted EXCEPT ![p] =
               @ \cup met \cup {r \in {pool} : own}]
          /\ mtProcessing' = [mtProcessing EXCEPT ![p] = @ \cup
               {<<s, pool, mtParked[p][s][2]>> : s \in
                  {s \in Old : own /\ mtParked[p][s] # None /\ mtParked[p][s][1] = pool}}]
          /\ mtParked' = [mtParked EXCEPT ![p] = [s \in Old |->
               IF own /\ @[s] # None /\ @[s][1] = pool THEN None ELSE @[s]]]
    /\ UNCHANGED <<mtCase, mtValid, mtCertified, mtComputed, loopVars, mtPending, mtOffers,
                   signVars, certVars, mtResult>>

-----------------------------------------------------------------------------
(* materializeFirstCertified.                                              *)

HasAll(p) == Cardinality(mtDesc[p]) = Cardinality(Old)

\* A grace ends, too soon only at a hasty member.
PoolGraceOver(p) == p \in Hasty \/ Correct \subseteq mtDesc[p]

Running(p) == mtStage[p] # "collect" /\ mtResult[p] = None

\* launch after drainLatest: a pool already tried is not tried again.
Launch(p) ==
    /\ mtSeen' = [mtSeen EXCEPT ![p] = @ \cup {mtLatest[p]}]
    /\ mtFlight' = [mtFlight EXCEPT ![p] =
         IF mtLatest[p] \in mtSeen[p] THEN None ELSE mtLatest[p]]

\* CollectLocalComponentSet returns the first pool.
CollectPool(p) ==
    /\ mtStage[p] = "collect" /\ mtLatest[p] # None
    /\ mtStage' = [mtStage EXCEPT ![p] = "pool"]
    /\ UNCHANGED <<mtLies, mtCase, mtValid, mtCertified, mtComputed, poolVars, mtSeen, mtFlight,
                   mtPending, offerVars, signVars, certVars, mtResult>>

\* The pool grace: the lead materializes, the others load the leaves.
PoolGraceEnds(p) ==
    /\ Running(p) /\ mtStage[p] = "pool" /\ p \in mtCase.eligible
    /\ HasAll(p) \/ PoolGraceOver(p)
    /\ IF p = Lead
       THEN mtStage' = [mtStage EXCEPT ![p] = "enabled"] /\ Launch(p)
       ELSE mtStage' = [mtStage EXCEPT ![p] = "grace"] /\ UNCHANGED <<mtSeen, mtFlight>>
    /\ UNCHANGED <<mtLies, mtCase, mtValid, mtCertified, mtComputed, poolVars, mtPending,
                   offerVars, signVars, certVars, mtResult>>

\* The grace for the primary ends; it is extended once while an offer of the
\* primary is being verified.
PrimaryGraceEnds(p) ==
    /\ Running(p) /\ mtStage[p] \in {"grace", "extended"} /\ PoolGraceOver(p)
    /\ IF mtStage[p] = "grace" /\ \E o \in mtProcessing[p] : o[1] = EpochPrimary
       THEN mtStage' = [mtStage EXCEPT ![p] = "extended"] /\ UNCHANGED <<mtSeen, mtFlight>>
       ELSE mtStage' = [mtStage EXCEPT ![p] = "enabled"] /\ Launch(p)
    /\ UNCHANGED <<mtLies, mtCase, mtValid, mtCertified, mtComputed, poolVars, mtPending,
                   offerVars, signVars, certVars, mtResult>>

\* A new pool is read from readyCandidates.  (Readers drain the channel, so
\* that a read without an attempt in flight matters only for a new pool.)
TakePool(p) ==
    /\ Running(p) /\ mtStage[p] = "enabled" /\ mtFlight[p] = None
    /\ mtLatest[p] \notin mtSeen[p]
    /\ Launch(p)
    /\ UNCHANGED <<mtLies, mtCase, mtValid, mtCertified, mtComputed, poolVars, mtStage, mtPending,
                   offerVars, signVars, certVars, mtResult>>

-----------------------------------------------------------------------------
(* MaterializeAndCollectARC.                                               *)

\* The attempt finds its pool superseded, and the newest one is tried.
BuildStale(p) ==
    /\ Running(p) /\ mtFlight[p] # None /\ mtPending[p] = None
    /\ ~ IsCanonical(p, mtFlight[p])
    /\ Launch(p)
    /\ UNCHANGED <<mtLies, mtCase, mtValid, mtCertified, mtComputed, poolVars, mtStage, mtPending,
                   offerVars, signVars, certVars, mtResult>>

\* The aggregate is built, its own shard persisted, and it is offered.
Build(p) ==
    /\ Running(p) /\ mtFlight[p] # None /\ mtPending[p] = None
    /\ IsCanonical(p, mtFlight[p])
    /\ LET h == FirstKValid(mtFlight[p])
       IN /\ mtPending' = [mtPending EXCEPT ![p] = h]
          /\ mtPersisted' = [mtPersisted EXCEPT ![p] = @ \cup {h}]
          /\ mtOffers' = mtOffers \cup {<<p, q, mtFlight[p], h>> : q \in Correct \ {p}}
    /\ UNCHANGED <<mtLies, mtCase, mtValid, mtCertified, mtComputed, poolVars, loopVars, mtParked,
                   mtProcessing, mtAnswers, mtCandidates, certVars, mtResult>>

\* handleARCShare: the shares an attempt of p for header h can have, its own
\* among them.  A faulty member signs anything.
SharesOf(p, h) == {p} \cup Faulty \cup {q \in Correct : <<p, q, h>> \in mtAnswers}

EnoughARCShares(S) == Cardinality(S) >= ControlThreshold

\* n-f shares: the certificate is sent to all and the attempt has succeeded.
\* One that arrived earlier ends it as well.
AttemptEnds(p) ==
    /\ mtPending[p] # None /\ mtResult[p] = None
    /\ EnoughARCShares(SharesOf(p, mtPending[p])) \/ mtPending[p] \in mtCerts[p]
    /\ mtResult' = [mtResult EXCEPT ![p] = mtPending[p]]
    /\ mtCerts' = [mtCerts EXCEPT ![p] = @ \cup {mtPending[p]}]
    /\ mtNotices' = IF mtPending[p] \in mtCerts[p] THEN mtNotices
                    ELSE mtNotices \cup {<<q, mtPending[p]>> : q \in Correct \ {p}}
    /\ UNCHANGED <<mtLies, mtCase, mtValid, mtCertified, mtComputed, poolVars, loopVars, mtPending,
                   offerVars, signVars, mtOffered>>

-----------------------------------------------------------------------------
(* Members that are offered an aggregate.                                  *)

\* handleAggregateOffer: under an accepted pool it is verified, otherwise it
\* is the one offer of its sender that waits.  A faulty member may offer the
\* first dealers of a pool whatever their leaves.
OfferArrives(p, q, pool, h) ==
    /\ q \in Correct => <<q, p, pool, h>> \in mtOffers
    /\ q \in Faulty => pool \in mtAccepted[p] /\ h = Smallest(pool, ComponentCount)
    /\ Lies(q)
    /\ mtOffers' = mtOffers \ {<<q, p, pool, h>>}
    /\ IF pool \in mtAccepted[p]
       THEN /\ mtProcessing' = [mtProcessing EXCEPT ![p] = @ \cup {<<q, pool, h>>}]
            /\ UNCHANGED mtParked
       ELSE /\ mtParked' = [mtParked EXCEPT ![p][q] = <<pool, h>>]
            /\ UNCHANGED mtProcessing
    /\ UNCHANGED <<mtCase, mtValid, mtCertified, mtComputed, poolVars, loopVars, mtPending,
                   signVars, certVars, mtResult>>

\* resolveAggregateManifestDescriptors and verifyAggregateManifestForARC.
OfferMatches(pool, h) == h = FirstKValid(pool)

\* rememberVerifiedAggregateCandidate: published if already certified.
Remember(p, h) ==
    mtOffered' = [mtOffered EXCEPT ![p] = @ \cup ({h} \cap mtCerts[p])]

\* handleAggregateManifestOffer: the member's shard is on disk before it
\* signs.
OfferVerified(p, q, pool, h) ==
    /\ <<q, pool, h>> \in mtProcessing[p]
    /\ mtProcessing' = [mtProcessing EXCEPT ![p] = @ \ {<<q, pool, h>>}]
    /\ IF OfferMatches(pool, h)
       THEN /\ mtPersisted' = [mtPersisted EXCEPT ![p] = @ \cup {h}]
            /\ mtCandidates' = [mtCandidates EXCEPT ![p] = @ \cup {h}]
            /\ mtAnswers' = mtAnswers \cup {<<q, p, h>>}
            /\ Remember(p, h)
       ELSE UNCHANGED <<mtPersisted, mtCandidates, mtAnswers, mtOffered>>
    /\ UNCHANGED <<mtLies, mtCase, mtValid, mtCertified, mtComputed, poolVars, loopVars, mtPending,
                   mtOffers, mtParked, mtCerts, mtNotices, mtResult>>

\* A faulty collector has n-f shares of an aggregate.
FaultyCollects(h) ==
    /\ Faulty # {}
    /\ EnoughARCShares(Faulty \cup {q \in Correct : \E f \in Faulty : <<f, q, h>> \in mtAnswers})

\* handleARCCertificate.
CertificateArrives(p, h) ==
    /\ h \notin mtCerts[p]
    /\ <<p, h>> \in mtNotices \/ FaultyCollects(h)
    /\ mtNotices' = mtNotices \ {<<p, h>>}
    /\ mtCerts' = [mtCerts EXCEPT ![p] = @ \cup {h}]
    /\ mtOffered' = [mtOffered EXCEPT ![p] = @ \cup ({h} \cap mtCandidates[p])]
    /\ UNCHANGED <<mtLies, mtCase, mtValid, mtCertified, mtComputed, poolVars, loopVars, mtPending,
                   offerVars, signVars, mtResult>>

\* A certified candidate of another member is taken over.
TakeCertified(p, h) ==
    /\ Running(p) /\ h \in mtOffered[p]
    /\ mtResult' = [mtResult EXCEPT ![p] = h]
    /\ UNCHANGED <<mtLies, mtCase, mtValid, mtCertified, mtComputed, poolVars, loopVars, mtPending,
                   offerVars, signVars, certVars>>

PoolStep(p) ==
    \/ \E d \in Old : CertArrives(p, d)
    \/ OwnCert(p) \/ OwnPublish(p)
    \/ \E q \in Old \ {p}, pool \in Pools : ReadyArrives(p, q, pool)

LoopStep(p) ==
    \/ CollectPool(p) \/ PoolGraceEnds(p) \/ PrimaryGraceEnds(p) \/ TakePool(p)
    \/ BuildStale(p) \/ Build(p) \/ AttemptEnds(p)
    \/ \E h \in Headers : TakeCertified(p, h)

OfferStep(p) ==
    \/ \E q \in Old \ {p}, pool \in Pools, h \in Headers :
          OfferArrives(p, q, pool, h) \/ OfferVerified(p, q, pool, h)
    \/ \E h \in Headers : CertificateArrives(p, h)

MaterializeNext ==
    \/ \E p \in Correct : PoolStep(p) \/ LoopStep(p) \/ OfferStep(p)
    \/ \E d \in Faulty : FaultyCert(d)

MaterializeSpec == MaterializeInit /\ [][MaterializeNext]_materializeVars

-----------------------------------------------------------------------------
(* One launch, one pool: the types, and that an attempt in flight is one   *)
(* of the pools already tried.                                             *)
MaterializeTypeOK ==
    /\ mtCertified \subseteq Old
    /\ \A p \in Correct :
         /\ mtDesc[p] \subseteq mtCertified
         /\ mtPublished[p] \subseteq mtAccepted[p]
         /\ mtFlight[p] # None => mtFlight[p] \in mtSeen[p]
         /\ mtPending[p] # None => mtFlight[p] # None
         /\ mtStage[p] \in {"collect", "pool", "grace", "extended", "enabled"}

(* n-2f correct members hold their shard of a certified aggregate: whoever *)
(* decides it can recover it (RecoverAggregate).                           *)
CertifiedStored ==
    \A p \in Correct : \A h \in mtCerts[p] :
        Cardinality({q \in Correct : h \in mtPersisted[q]}) >= Cardinality(Old) - 2 * F

(* No offer of a faulty collector gets a signature for an aggregate with   *)
(* an invalid leaf, though the leaf's dealer is in the accepted pool.      *)
SignedValid ==
    \A a \in mtAnswers : a[3] \subseteq mtValid

(* A certificate and the verified aggregate it is about meet in whichever  *)
(* order they arrive: the member is never left waiting with both.          *)
CertifiedIsOffered ==
    \A p \in Correct : mtCerts[p] \cap mtCandidates[p] \subseteq mtOffered[p] \cup {mtResult[p]}
=============================================================================

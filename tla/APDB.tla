-------------------------------- MODULE APDB --------------------------------
(***************************************************************************)
(* Dispersal of one payload over the old committee and its recovery:       *)
(* lockForPurposeScalar, runRecoveryWithSchedule and the APDB cases of     *)
(* dispatch in src/core/cv_sapvss_apdb_network_scalar.go, the collectors   *)
(* of src/core/cv_sapvss_apdb_service_scalar.go and                        *)
(* src/core/cv_sapvss_apdb_recovery.go, and the holder store of            *)
(* src/core/cv_sapvss_apdb_store.go.                                       *)
(*                                                                         *)
(* The dealer offers each holder its shard under a Merkle root.  A holder  *)
(* puts the first root of the instance on disk and signs it; 2f+1          *)
(* signatures are the lock, at which the dealer stops offering.  Who has   *)
(* the lock asks a first wave of holders and then the others for their     *)
(* shards; f+1 of them, or the payload from the dealer, give a payload     *)
(* that counts only if it encodes to the root again.  Success of a request *)
(* is that it has been sent: a holder is asked once.                       *)
(***************************************************************************)
EXTENDS Committee

CONSTANTS Dealers,         \* members whose instance may be the one modelled
          Roots,           \* roots a faulty dealer may commit to
          Consistent,      \* those over the shards of one payload
          OwnRoot,         \* the root of a correct dealer
          Requesters,      \* correct members that recover the payload
          FirstHolders,    \* recipients of the first wave
          MaxAsks,         \* cvControlRetryMaxAttemptsScalar
          Unreachable,     \* per requester, the sets it may fail to reach in a wave
          MaxTroubles      \* bound on waves not wholly sent plus responses lost

ASSUME APDBAssumption ==
    /\ Dealers \subseteq Old /\ FirstHolders \subseteq Old
    /\ OwnRoot \in Roots /\ None \notin Roots /\ MaxAsks \in Nat

VARIABLES
    aDealer,   \* whose instance this is
    aStore,    \* root in the holder store of each correct member, durable
    aOffers,   \* holders with an offer in their inbox
    aCall,     \* LockPD of a correct dealer
    aShares,   \* shares of its collector
    aLocked,   \* roots somebody holds a lock for
    aPhase,    \* runRecoveryWithSchedule of each requester
    aSent,     \* holders the request has been sent to
    aAsks,     \* rounds over the missing holders
    aInbox,    \* requests not yet served: requester and holder
    aGot,      \* stores in the requester's collector
    aResult,   \* what the recovery has returned
    aFailures, \* waves some requests of which could not be sent
    aLost      \* responses lost

apdbVars == <<aDealer, aStore, aOffers, aCall, aShares, aLocked, aPhase, aSent,
              aAsks, aInbox, aGot, aResult, aFailures, aLost>>
lockVars == <<aDealer, aStore, aOffers, aCall, aShares, aLocked>>
recoverVars == <<aPhase, aSent, aAsks, aInbox, aGot, aResult, aFailures, aLost>>

APDBInit ==
    /\ aDealer \in Dealers
    /\ aStore = [h \in Correct |-> None] /\ aOffers = {} /\ aShares = {}
    /\ aCall = IF aDealer \in Correct THEN "before" ELSE "none"
    /\ aLocked = {}
    /\ aPhase = [r \in Requesters |-> "idle"]
    /\ aSent = [r \in Requesters |-> {}] /\ aAsks = [r \in Requesters |-> 0]
    /\ aInbox = {} /\ aGot = [r \in Requesters |-> {}]
    /\ aResult = [r \in Requesters |-> None]
    /\ aFailures = 0 /\ aLost = 0

-----------------------------------------------------------------------------
\* lockForPurposeScalar registers the collector and starts the fan-out.
LockPD ==
    /\ aCall = "before"
    /\ aCall' = "offering"
    /\ aOffers' = Correct
    /\ UNCHANGED <<aDealer, aStore, aShares, aLocked, recoverVars>>

\* What holder h may find offered.
StoreOffered(h, r) ==
    IF aDealer \in Correct THEN h \in aOffers /\ r = OwnRoot ELSE TRUE

\* Mutant: a second root of the instance is signed as well.
StoreAndSignAgain(h, r) ==
    /\ StoreOffered(h, r)
    /\ aStore' = [aStore EXCEPT ![h] = r]
    /\ aOffers' = aOffers \ {h}
    /\ UNCHANGED <<aDealer, aCall, aShares, aLocked, recoverVars>>

\* cvHandleAPDBStoreOfferScalar: the store keeps the first root; the same
\* offer again is signed again.
StoreAndSignOnce(h, r) ==
    /\ StoreOffered(h, r) /\ aStore[h] \in {None, r}
    /\ aStore' = [aStore EXCEPT ![h] = r]
    /\ aOffers' = aOffers \ {h}
    /\ UNCHANGED <<aDealer, aCall, aShares, aLocked, recoverVars>>

\* AddDecodedStoredShare: a valid share over the dealer's root.
OnStoredShare(h) ==
    /\ aCall = "offering" /\ h \notin aShares
    /\ IF h \in Correct THEN aStore[h] = OwnRoot ELSE TRUE
    /\ aShares' = aShares \cup {h}
    /\ UNCHANGED <<aDealer, aStore, aOffers, aCall, aLocked, recoverVars>>

\* RecoverLock, and the end of the fan-out: offers not yet sent are not sent.
RecoverLock ==
    /\ aCall = "offering" /\ Cardinality(aShares) >= LockThreshold
    /\ aCall' = "locked"
    /\ aLocked' = {OwnRoot}
    /\ \E unsent \in SUBSET aOffers : aOffers' = aOffers \ unsent
    /\ UNCHANGED <<aDealer, aStore, aShares, recoverVars>>

\* cvVerifyAPDBLockScalar: enough holders have signed r.
Lockable(r) ==
    Cardinality({h \in Correct : aStore[h] = r} \cup Faulty) >= LockThreshold

\* A faulty dealer puts a lock together.
FaultyLock(r) ==
    /\ aDealer \in Faulty /\ Lockable(r) /\ r \notin aLocked
    /\ aLocked' = aLocked \cup {r}
    /\ UNCHANGED <<aDealer, aStore, aOffers, aCall, aShares, recoverVars>>

-----------------------------------------------------------------------------
\* Requests of q to targets: those to bad cannot be sent.  The ones to faulty
\* members are left out of the inbox.
SendRequests(q, targets, bad) ==
    /\ bad \cap targets # {} => aFailures + aLost < MaxTroubles
    /\ aFailures' = IF bad \cap targets = {} THEN aFailures ELSE aFailures + 1
    /\ aSent' = [aSent EXCEPT ![q] = @ \cup (targets \ bad)]
    /\ aInbox' = aInbox \cup ({q} \X ((targets \ bad) \ Faulty))

\* The first wave, when the lock is at hand.  The grace is waited for if enough
\* requests are out.
FirstWaveOut(q, bad) ==
    /\ aPhase[q] = "idle" /\ aLocked # {}
    /\ SendRequests(q, FirstHolders, bad)
    /\ aPhase' = [aPhase EXCEPT ![q] =
          IF Cardinality(FirstHolders \ bad) >= RecoveryThreshold THEN "grace" ELSE "asking"]
    /\ UNCHANGED <<lockVars, aAsks, aGot, aResult, aLost>>

GraceOver(q) ==
    /\ aPhase[q] = "grace"
    /\ aPhase' = [aPhase EXCEPT ![q] =
                     IF Old \ aSent[q] = {} THEN "waiting" ELSE "asking"]
    /\ UNCHANGED <<lockVars, aSent, aAsks, aInbox, aGot, aResult, aFailures, aLost>>

\* A round over the holders not yet asked.  With f+1 requests out the call only
\* waits; otherwise it tries again, and gives up after the last round.
AskMissing(q, bad) ==
    /\ aPhase[q] = "asking" /\ aAsks[q] <= MaxAsks
    /\ SendRequests(q, Old \ aSent[q], bad)
    /\ LET enough == Cardinality(aSent'[q]) >= RecoveryThreshold
       IN  /\ aPhase' = [aPhase EXCEPT ![q] =
                  IF enough THEN "waiting"
                  ELSE IF aAsks[q] = MaxAsks THEN "failed" ELSE "asking"]
           /\ aAsks' = [aAsks EXCEPT ![q] = IF enough THEN 0 ELSE @ + 1]
    /\ UNCHANGED <<lockVars, aGot, aResult, aLost>>

Collects(q) == aPhase[q] \in {"grace", "asking", "waiting"}

\* cvHandleAPDBRecoveryLockScalar: holder h answers with its store if it is
\* under the root of the lock, and not at all otherwise.
Serve(q, h) ==
    /\ <<q, h>> \in aInbox
    /\ aInbox' = aInbox \ {<<q, h>>}
    /\ aGot' = [aGot EXCEPT ![q] =
                   IF Collects(q) /\ aStore[h] \in aLocked THEN @ \cup {h} ELSE @]
    /\ UNCHANGED <<lockVars, aPhase, aSent, aAsks, aResult, aFailures, aLost>>

\* The answer of holder h cannot be delivered.
LoseResponse(q, h) ==
    /\ <<q, h>> \in aInbox /\ aStore[h] \in aLocked /\ aFailures + aLost < MaxTroubles
    /\ aLost' = aLost + 1
    /\ aInbox' = aInbox \ {<<q, h>>}
    /\ UNCHANGED <<lockVars, aPhase, aSent, aAsks, aGot, aResult, aFailures>>

\* A faulty holder answers with a shard under the root.
ServeFaulty(q, h) ==
    /\ Collects(q) /\ h \in (Faulty \cap aSent[q]) \ aGot[q]
    /\ aGot' = [aGot EXCEPT ![q] = @ \cup {h}]
    /\ UNCHANGED <<lockVars, aPhase, aSent, aAsks, aInbox, aResult, aFailures, aLost>>

EnoughShards(q) == Cardinality(aGot[q]) >= RecoveryThreshold

\* cvRecoverAPDBScalar: the payload must encode to the root.
Decoded(r) == IF r \in Consistent THEN r ELSE "error"

\* pending.ready with f+1 shards, or with the payload of a dealer that was
\* asked and has one.  Answers that come later find no pending recovery.
RecoverPayload(q) ==
    /\ Collects(q) /\ aResult[q] = None
    /\ \E r \in aLocked :
          /\ \/ EnoughShards(q)
             \/ aDealer \in aSent[q] /\ (aDealer \in Faulty => r \in Consistent)
          /\ aResult' = [aResult EXCEPT ![q] = Decoded(r)]
    /\ aPhase' = [aPhase EXCEPT ![q] = "done"]
    /\ aGot' = [aGot EXCEPT ![q] = {}] /\ aAsks' = [aAsks EXCEPT ![q] = 0]
    /\ aSent' = [aSent EXCEPT ![q] = {}] /\ aInbox' = {m \in aInbox : m[1] # q}
    /\ UNCHANGED <<lockVars, aFailures, aLost>>

APDBNext ==
    \/ LockPD \/ RecoverLock
    \/ \E h \in Old : OnStoredShare(h)
    \/ \E r \in Roots : FaultyLock(r) \/ \E h \in Correct : StoreAndSignOnce(h, r)
    \/ \E q \in Requesters :
          \/ GraceOver(q) \/ RecoverPayload(q)
          \/ \E bad \in Unreachable[q] : FirstWaveOut(q, bad) \/ AskMissing(q, bad)
          \/ \E h \in Correct : Serve(q, h) \/ LoseResponse(q, h)
          \/ \E h \in Faulty : ServeFaulty(q, h)

\* What is bound to happen: offers, requests and answers between correct
\* members arrive, and timers fire.
APDBProgress ==
    \/ RecoverLock
    \/ \E h \in Correct : \/ aDealer \in Correct /\ StoreAndSignOnce(h, OwnRoot)
                          \/ OnStoredShare(h)
    \/ \E q \in Requesters :
          \/ GraceOver(q)
          \/ EnoughShards(q) /\ RecoverPayload(q)
          \/ \E bad \in Unreachable[q] : AskMissing(q, bad)
          \/ \E h \in Correct : Serve(q, h)

\* No step of APDBProgress is left: offers, shares, requests and answers between
\* correct members are through, and every wait that may end has ended.
APDBAtRest ==
    /\ aCall = "offering" => /\ Cardinality(aShares) < LockThreshold
                             /\ \A h \in Correct \ aShares : aStore[h] # OwnRoot
    /\ aDealer \in Correct => \A h \in aOffers : aStore[h] \notin {None, OwnRoot}
    /\ \A q \in Requesters :
          /\ aPhase[q] # "grace"
          /\ Collects(q) /\ EnoughShards(q) => aResult[q] # None \/ aLocked = {}
          /\ \A bad \in Unreachable[q] :
                aPhase[q] = "asking" /\ aAsks[q] <= MaxAsks =>
                    bad \cap (Old \ aSent[q]) # {} /\ aFailures + aLost >= MaxTroubles
    /\ aInbox = {}

APDBSpec == APDBInit /\ [][APDBNext]_apdbVars /\ WF_apdbVars(APDBProgress)

-----------------------------------------------------------------------------
APDBTypeOK ==
    /\ aDealer \in Dealers /\ aStore \in [Correct -> Roots \cup {None}]
    /\ aOffers \subseteq Correct /\ aShares \subseteq Old /\ aLocked \subseteq Roots
    /\ aCall \in {"none", "before", "offering", "locked"}
    /\ aPhase \in [Requesters -> {"idle", "grace", "asking", "waiting", "done", "failed"}]
    /\ aSent \in [Requesters -> SUBSET Old] /\ aGot \in [Requesters -> SUBSET Old]
    /\ aAsks \in [Requesters -> 0 .. MaxAsks + 1]
    /\ aInbox \subseteq Requesters \X Correct
    /\ aResult \in [Requesters -> Roots \cup {None, "error"}]

\* Members that recover the payload of an instance, from whichever shards or
\* from the dealer, get the same one, or all get an error because the dealer
\* committed to shards of no payload.
RecoveryAgreement ==
    \A p, q \in Requesters :
        aResult[p] # None /\ aResult[q] # None => aResult[p] = aResult[q]

\* A lock means that f+1 correct holders have their shard on disk, although the
\* dealer stops offering at the lock.
LockAvailable ==
    \A r \in aLocked :
        Cardinality({h \in Correct : aStore[h] = r}) >= RecoveryThreshold

\* A requester that has been able to ask every correct member ends, holders
\* that answer nothing notwithstanding, unless an answer is lost.
LockedRecovered ==
    APDBAtRest =>
        \A q \in Requesters :
            aLocked # {} /\ Correct \subseteq aSent[q] => aResult[q] # None \/ aLost > 0

\* A value for Unreachable: every wave is wholly sent.
AllReachable == [q \in Requesters |-> {{}}]

\* What src/core/cv_sapvss_apdb_network_scalar.go:759 says of a lost response:
\* the requester's retry path asks again, so that it still recovers.
LostResponseRetried ==
    \A q \in Requesters :
        Collects(q) ~> aResult[q] # None \/ aFailures > 0
=============================================================================

--------------------------- MODULE ServicesProofs ---------------------------
(***************************************************************************)
(* The services of the old committee, for every committee with n >= 3f+1,  *)
(* every set of payloads, statements and values, and every number of       *)
(* repetitions, lost messages and crashes: what is locked or certified is  *)
(* kept by enough correct members, and at rest everybody has what it is    *)
(* owed.                                                                   *)
(***************************************************************************)
EXTENDS MCServices, QuorumLemmas

-----------------------------------------------------------------------------
(* Dispersal of a payload and its recovery (APDB).                         *)

\* Stored shares of the dealer's collector are over its root, and on disk.
SharesStored ==
    \A h \in aShares : h \in Correct => aStore[h] = OwnRoot

\* A lock has its 2f+1 signers; a correct dealer locks its own root only.
LocksSigned ==
    /\ \A r \in aLocked : Lockable(r)
    /\ aCall # "none" => aDealer \in Correct /\ aLocked \subseteq {OwnRoot}

\* A recovery returns what some lock decodes to.
ResultsDecoded ==
    \A q \in Requesters :
        aResult[q] # None => \E r \in aLocked : aResult[q] = Decoded(r)

APDBInv == APDBTypeOK /\ SharesStored /\ LocksSigned /\ ResultsDecoded

\* What the assumption says about the sizes of the committee.
LEMMA OldSizes ==
    /\ IsFiniteSet(Old) /\ Faulty \subseteq Old /\ F \in Nat
    /\ Cardinality(Faulty) <= F /\ Cardinality(Old) >= 3 * F + 1
    /\ Cardinality(Old) \in Nat /\ ControlThreshold \in Int /\ LockThreshold \in Int
    /\ RecoveryThreshold \in Int
    /\ Correct \subseteq Old /\ Correct \cap Faulty = {} /\ Old = Correct \cup Faulty
BY CommitteeAssumption, FS_CardinalityType
   DEF ControlThreshold, LockThreshold, RecoveryThreshold, Correct

\* A larger set of correct signers gives at least as many signatures.
LEMMA MoreSigners ==
    ASSUME NEW A, NEW B, A \subseteq B, B \subseteq Correct
    PROVE  /\ IsFiniteSet(A \cup Faulty) /\ IsFiniteSet(B \cup Faulty)
           /\ Cardinality(A \cup Faulty) \in Nat /\ Cardinality(B \cup Faulty) \in Nat
           /\ Cardinality(A \cup Faulty) <= Cardinality(B \cup Faulty)
           /\ Cardinality(A) \in Nat /\ Cardinality(B) \in Nat
           /\ Cardinality(A) <= Cardinality(B)
<1>1. B \cup Faulty \subseteq Old /\ A \cup Faulty \subseteq B \cup Faulty
  BY OldSizes
<1>2. IsFiniteSet(B \cup Faulty) /\ IsFiniteSet(B)
  BY <1>1, OldSizes, SubsetCount
<1> QED
  BY <1>1, <1>2, SubsetCount

\* Whoever has signed r keeps it, so r can still be locked.
LEMMA LockableStays ==
    ASSUME NEW r,
           \A h \in Correct : aStore[h] = r => aStore'[h] = r,
           Lockable(r)
    PROVE  Lockable(r)'
<1> DEFINE A == {h \in Correct : aStore[h] = r}
           B == {h \in Correct : aStore'[h] = r}
<1>1. A \subseteq B /\ B \subseteq Correct
  OBVIOUS
<1>2. /\ Cardinality(A \cup Faulty) <= Cardinality(B \cup Faulty)
      /\ Cardinality(A \cup Faulty) \in Nat /\ Cardinality(B \cup Faulty) \in Nat
  BY <1>1, MoreSigners
<1> QED
  BY <1>2, OldSizes DEF Lockable

\* Where store, locks and results are left alone, the promises stand.
LEMMA PromisesStay ==
    ASSUME APDBInv, UNCHANGED <<aDealer, aStore, aShares, aCall, aLocked, aResult>>
    PROVE  SharesStored' /\ LocksSigned' /\ ResultsDecoded'
<1>1. \A r \in aLocked : Lockable(r)'
  BY LockableStays DEF APDBInv, LocksSigned
<1> QED
  BY <1>1 DEF APDBInv, SharesStored, LocksSigned, ResultsDecoded, Decoded

LEMMA APDBInitInv == APDBInit => APDBInv
BY APDBAssumption, OldSizes
   DEF APDBInit, APDBInv, APDBTypeOK, SharesStored, LocksSigned, ResultsDecoded

\* The dealer and the holders.
LEMMA LockPDInv == ASSUME APDBInv, LockPD PROVE APDBInv'
<1>1. APDBTypeOK'
  BY DEF APDBInv, APDBTypeOK, LockPD, recoverVars
<1>2. \A r \in aLocked : Lockable(r)'
  BY LockableStays DEF APDBInv, LocksSigned, LockPD, recoverVars
<1> QED
  BY <1>1, <1>2
     DEF APDBInv, SharesStored, LocksSigned, ResultsDecoded, Decoded, LockPD, recoverVars

LEMMA StoreAndSignInv ==
    ASSUME APDBInv, NEW h \in Correct, NEW r \in Roots, StoreAndSignOnce(h, r)
    PROVE  APDBInv'
<1> USE DEF APDBInv, StoreAndSignOnce, recoverVars
<1>1. APDBTypeOK'
  BY DEF APDBTypeOK
<1>2. \A s \in aLocked : s # None
  BY APDBAssumption DEF APDBTypeOK
<1>3. \A s \in aLocked : Lockable(s)'
  BY <1>2, LockableStays DEF LocksSigned, APDBTypeOK
<1>4. SharesStored'
  BY APDBAssumption DEF SharesStored, APDBTypeOK
<1> QED
  BY <1>1, <1>3, <1>4 DEF LocksSigned, ResultsDecoded, Decoded

LEMMA OnStoredShareInv ==
    ASSUME APDBInv, NEW h \in Old, OnStoredShare(h)
    PROVE  APDBInv'
<1> USE DEF APDBInv, OnStoredShare, recoverVars
<1>1. APDBTypeOK'
  BY DEF APDBTypeOK
<1>2. \A r \in aLocked : Lockable(r)'
  BY LockableStays DEF LocksSigned
<1> QED
  BY <1>1, <1>2 DEF SharesStored, LocksSigned, ResultsDecoded, Decoded

\* 2f+1 stored shares are 2f+1 signers.
LEMMA RecoverLockInv == ASSUME APDBInv, RecoverLock PROVE APDBInv'
<1> USE DEF APDBInv, RecoverLock, recoverVars
<1>1. APDBTypeOK'
  BY APDBAssumption DEF APDBTypeOK
<1>2. Lockable(OwnRoot)
  <2> DEFINE S == {h \in Correct : aStore[h] = OwnRoot}
  <2>1. aShares \subseteq S \cup Faulty
    BY OldSizes DEF SharesStored, APDBTypeOK
  <2>2. IsFiniteSet(S \cup Faulty)
    BY MoreSigners
  <2>3. /\ Cardinality(aShares) <= Cardinality(S \cup Faulty)
        /\ Cardinality(aShares) \in Nat /\ Cardinality(S \cup Faulty) \in Nat
    BY <2>1, <2>2, SubsetCount
  <2> QED
    BY <2>3, OldSizes DEF Lockable
<1>3. Lockable(OwnRoot)'
  BY <1>2, LockableStays
<1>4. aLocked \subseteq aLocked'
  BY DEF LocksSigned
<1>5. ResultsDecoded'
  BY <1>4 DEF ResultsDecoded, Decoded
<1> QED
  BY <1>1, <1>3, <1>5 DEF SharesStored, LocksSigned

LEMMA FaultyLockInv ==
    ASSUME APDBInv, NEW r \in Roots, FaultyLock(r)
    PROVE  APDBInv'
<1> USE DEF APDBInv, FaultyLock, recoverVars
<1>1. APDBTypeOK'
  BY DEF APDBTypeOK
<1>2. \A s \in aLocked \cup {r} : Lockable(s)'
  BY LockableStays DEF LocksSigned
<1> QED
  BY <1>1, <1>2, OldSizes DEF SharesStored, LocksSigned, ResultsDecoded, Decoded

\* The requesters.
LEMMA FirstWaveInv ==
    ASSUME APDBInv, NEW q \in Requesters, NEW bad, FirstWaveOut(q, bad)
    PROVE  APDBInv'
<1> USE DEF APDBInv, FirstWaveOut, SendRequests, lockVars
<1>1. APDBTypeOK'
  BY APDBAssumption, OldSizes DEF APDBTypeOK
<1> QED
  BY <1>1, PromisesStay

LEMMA GraceOverInv ==
    ASSUME APDBInv, NEW q \in Requesters, GraceOver(q)
    PROVE  APDBInv'
<1> USE DEF APDBInv, GraceOver, lockVars
<1>1. APDBTypeOK'
  BY DEF APDBTypeOK
<1> QED
  BY <1>1, PromisesStay

LEMMA AskMissingInv ==
    ASSUME APDBInv, NEW q \in Requesters, NEW bad, AskMissing(q, bad)
    PROVE  APDBInv'
<1> USE DEF APDBInv, AskMissing, SendRequests, lockVars
<1>1. aAsks' \in [Requesters -> 0 .. MaxAsks + 1]
  BY APDBAssumption DEF APDBTypeOK
<1>2. APDBTypeOK'
  BY <1>1, OldSizes DEF APDBTypeOK
<1> QED
  BY <1>2, PromisesStay

LEMMA ServeInv ==
    ASSUME APDBInv, NEW q \in Requesters, NEW h \in Old,
           Serve(q, h) \/ LoseResponse(q, h) \/ ServeFaulty(q, h)
    PROVE  APDBInv'
<1> USE DEF APDBInv, lockVars
<1>1. APDBTypeOK'
  BY DEF APDBTypeOK, Serve, LoseResponse, ServeFaulty
<1> QED
  BY <1>1, PromisesStay DEF Serve, LoseResponse, ServeFaulty

LEMMA RecoverPayloadInv ==
    ASSUME APDBInv, NEW q \in Requesters, RecoverPayload(q)
    PROVE  APDBInv'
<1> USE DEF APDBInv, RecoverPayload, lockVars
<1>1. PICK r \in aLocked : aResult' = [aResult EXCEPT ![q] = Decoded(r)]
  OBVIOUS
<1>2. Decoded(r) \in Roots \cup {None, "error"}
  BY DEF APDBTypeOK, Decoded
<1>3. APDBTypeOK'
  <2>1. aResult' \in [Requesters -> Roots \cup {None, "error"}]
    BY <1>1, <1>2 DEF APDBTypeOK
  <2>2. /\ aPhase' \in [Requesters -> {"idle", "grace", "asking", "waiting", "done", "failed"}]
        /\ aGot' \in [Requesters -> SUBSET Old] /\ aSent' \in [Requesters -> SUBSET Old]
        /\ aAsks' \in [Requesters -> 0 .. MaxAsks + 1] /\ aInbox' \subseteq Requesters \X Correct
    BY APDBAssumption DEF APDBTypeOK
  <2> QED
    BY <2>1, <2>2 DEF APDBTypeOK
<1>4. \A s \in aLocked : Lockable(s)'
  BY LockableStays DEF LocksSigned
<1>5. ResultsDecoded'
  BY <1>1 DEF ResultsDecoded, Decoded, APDBTypeOK
<1> QED
  BY <1>3, <1>4, <1>5 DEF SharesStored, LocksSigned

LEMMA APDBStepInv == APDBInv /\ [APDBNext]_apdbVars => APDBInv'
<1> SUFFICES ASSUME APDBInv, [APDBNext]_apdbVars PROVE APDBInv'
  OBVIOUS
<1>1. CASE UNCHANGED apdbVars
  BY <1>1, PromisesStay DEF APDBInv, APDBTypeOK, apdbVars
<1>2. CASE LockPD \/ RecoverLock
  BY <1>2, LockPDInv, RecoverLockInv
<1>3. ASSUME NEW h \in Old, OnStoredShare(h) PROVE APDBInv'
  BY <1>3, OnStoredShareInv
<1>4. ASSUME NEW r \in Roots, FaultyLock(r) PROVE APDBInv'
  BY <1>4, FaultyLockInv
<1>5. ASSUME NEW r \in Roots, NEW h \in Correct, StoreAndSignOnce(h, r) PROVE APDBInv'
  BY <1>5, StoreAndSignInv
<1>6. ASSUME NEW q \in Requesters, NEW bad \in Unreachable[q],
             FirstWaveOut(q, bad) \/ AskMissing(q, bad)
      PROVE APDBInv'
  BY <1>6, FirstWaveInv, AskMissingInv
<1>7. ASSUME NEW q \in Requesters, GraceOver(q) \/ RecoverPayload(q) PROVE APDBInv'
  BY <1>7, GraceOverInv, RecoverPayloadInv
<1>8. ASSUME NEW q \in Requesters, NEW h \in Old,
             Serve(q, h) \/ LoseResponse(q, h) \/ ServeFaulty(q, h)
      PROVE APDBInv'
  BY <1>8, ServeInv
<1> QED
  BY <1>1, <1>2, <1>3, <1>4, <1>5, <1>6, <1>7, <1>8, OldSizes DEF APDBNext

THEOREM APDBInvariance == APDBSpec => []APDBInv
<1> QED
  BY APDBInitInv, APDBStepInv, PTL DEF APDBSpec

\* Of 2f+1 signers at least f+1 are correct, and their store is immutable.
LEMMA LockAvailableHolds == APDBInv => LockAvailable
<1> SUFFICES ASSUME APDBInv, NEW r \in aLocked
    PROVE  Cardinality({h \in Correct : aStore[h] = r}) >= RecoveryThreshold
  BY DEF LockAvailable
<1> DEFINE S == {h \in Correct : aStore[h] = r}
<1>1. Cardinality(S \cup Faulty) >= LockThreshold
  BY DEF APDBInv, LocksSigned, Lockable
<1>2. S \in SUBSET (Old \ Faulty)
  BY DEF Correct
<1> HIDE DEF S
<1>3. Cardinality(S) \in Nat /\ Cardinality(S) >= LockThreshold - F
  BY <1>1, <1>2, OldSizes, CorrectSigners
<1>4. Cardinality(S) >= RecoveryThreshold
  BY <1>3, OldSizes DEF LockThreshold, RecoveryThreshold
<1> QED
  BY <1>4 DEF S

\* Of n = 3f+1 members, two sets of 2f+1 signers share a correct one, which
\* stores one root.
LEMMA OneLock ==
    ASSUME Cardinality(Old) = 3 * F + 1, NEW r, NEW s, Lockable(r), Lockable(s)
    PROVE  r = s
<1> DEFINE S == {h \in Correct : aStore[h] = r}
           T == {h \in Correct : aStore[h] = s}
<1>1. S \in SUBSET (Old \ Faulty) /\ T \in SUBSET (Old \ Faulty)
  BY DEF Correct
<1>2. LockThreshold = Cardinality(Old) - F
  BY OldSizes DEF LockThreshold
<1>3. /\ Cardinality(S \cup Faulty) >= Cardinality(Old) - F
      /\ Cardinality(T \cup Faulty) >= Cardinality(Old) - F
  BY <1>2 DEF Lockable
<1> HIDE DEF S, T
<1>4. /\ IsFiniteSet(Old) /\ Faulty \subseteq Old /\ F \in Nat
      /\ Cardinality(Faulty) <= F /\ Cardinality(Old) >= 3 * F + 1
  BY CommitteeAssumption
<1>5. PICK h \in S : h \in T
  BY <1>1, <1>3, <1>4, SignersMeet
<1> QED
  BY <1>5 DEF S, T

LEMMA RecoveryAgreementHolds ==
    ASSUME Cardinality(Old) = 3 * F + 1, APDBInv
    PROVE  RecoveryAgreement
<1> SUFFICES ASSUME NEW p \in Requesters, NEW q \in Requesters,
                    aResult[p] # None, aResult[q] # None
    PROVE  aResult[p] = aResult[q]
  BY DEF RecoveryAgreement
<1>1. PICK r \in aLocked : aResult[p] = Decoded(r)
  BY DEF APDBInv, ResultsDecoded
<1>2. PICK s \in aLocked : aResult[q] = Decoded(s)
  BY DEF APDBInv, ResultsDecoded
<1>3. r = s
  BY OneLock DEF APDBInv, LocksSigned
<1> QED
  BY <1>1, <1>2, <1>3

-----------------------------------------------------------------------------
(* That a locked payload is recovered from those that were asked.          *)

\* Holders of a locked shard that q has not asked, or whose answer is to come or
\* is there.
HeldFor(q) ==
    {h \in Correct : /\ aStore[h] \in aLocked
                     /\ h \in aSent[q] => <<q, h>> \in aInbox \/ h \in aGot[q]}

\* As long as no answer is lost, a requester that collects has f+1 of them before
\* it.  The holders counted here are not those of the time of the lock: one that
\* stores its shard later counts, unless it was asked before.
ShardsComing ==
    /\ aLost \in Nat
    /\ \A q \in Requesters :
          /\ aPhase[q] \in {"idle", "done"} => aSent[q] = {}
          /\ aPhase[q] = "failed" => Cardinality(aSent[q]) < RecoveryThreshold
          /\ Collects(q) => aLocked # {}
          /\ Collects(q) /\ aLost = 0 => Cardinality(HeldFor(q)) >= RecoveryThreshold

\* More holders are enough as well.
LEMMA MoreHeld ==
    ASSUME NEW A, NEW B, A \subseteq B, B \subseteq Correct, Cardinality(A) >= RecoveryThreshold
    PROVE  Cardinality(B) >= RecoveryThreshold
<1>1. /\ Cardinality(A) \in Nat /\ Cardinality(B) \in Nat
      /\ Cardinality(A) <= Cardinality(B)
  BY MoreSigners
<1> QED
  BY <1>1, OldSizes

\* A step that leaves every requester its phase and the holders before it.
LEMMA HeldStay ==
    ASSUME ShardsComing, UNCHANGED <<aPhase, aSent, aLost>>, aLocked \subseteq aLocked',
           \A q \in Requesters : HeldFor(q) \subseteq HeldFor(q)'
    PROVE  ShardsComing'
<1>1. ASSUME NEW q \in Requesters, Collects(q)', aLost' = 0
      PROVE  Cardinality(HeldFor(q)') >= RecoveryThreshold
  <2>1. Cardinality(HeldFor(q)) >= RecoveryThreshold
    BY <1>1 DEF ShardsComing, Collects
  <2>2. HeldFor(q)' \subseteq Correct
    BY DEF HeldFor
  <2> QED
    BY <2>1, <2>2, MoreHeld
<1> QED
  BY <1>1 DEF ShardsComing, Collects

LEMMA ShardsComingStep ==
    APDBInv /\ APDBInv' /\ ShardsComing /\ [APDBNext]_apdbVars => ShardsComing'
<1> SUFFICES ASSUME APDBInv, APDBInv', ShardsComing, [APDBNext]_apdbVars PROVE ShardsComing'
  OBVIOUS
<1>0. /\ aStore \in [Correct -> Roots \cup {None}] /\ aLocked \subseteq Roots /\ None \notin Roots
      /\ aPhase \in [Requesters -> {"idle", "grace", "asking", "waiting", "done", "failed"}]
      /\ aSent \in [Requesters -> SUBSET Old] /\ aGot \in [Requesters -> SUBSET Old]
      /\ aSent' \in [Requesters -> SUBSET Old] /\ aLost \in Nat
  BY APDBAssumption DEF APDBInv, APDBTypeOK, ShardsComing
<1>1. CASE UNCHANGED apdbVars
  BY <1>1, HeldStay DEF apdbVars, HeldFor
<1>2. CASE \/ LockPD \/ \E h \in Old : OnStoredShare(h)
           \/ \E h \in Correct, r \in Roots : StoreAndSignOnce(h, r)
  <2>1. UNCHANGED <<aLocked, aPhase, aSent, aInbox, aGot, aLost>>
    BY <1>2 DEF LockPD, OnStoredShare, StoreAndSignOnce, recoverVars
  <2>2. \A h \in Correct : aStore[h] \in aLocked => aStore'[h] = aStore[h]
    BY <1>0, <1>2 DEF LockPD, OnStoredShare, StoreAndSignOnce
  <2>3. \A q \in Requesters : HeldFor(q) \subseteq HeldFor(q)'
    BY <2>1, <2>2 DEF HeldFor
  <2> QED
    BY <2>1, <2>3, HeldStay
<1>3. CASE RecoverLock \/ \E r \in Roots : FaultyLock(r)
  <2>1. aLocked \subseteq aLocked' /\ UNCHANGED <<aStore, aPhase, aSent, aInbox, aGot, aLost>>
    BY <1>3 DEF RecoverLock, FaultyLock, recoverVars, APDBInv, LocksSigned
  <2>2. \A q \in Requesters : HeldFor(q) \subseteq HeldFor(q)'
    BY <2>1 DEF HeldFor
  <2> QED
    BY <2>1, <2>2, HeldStay
<1>4. ASSUME NEW q \in Requesters, NEW bad \in Unreachable[q], FirstWaveOut(q, bad)
      PROVE  ShardsComing'
  <2>1. /\ aPhase[q] = "idle" /\ aSent[q] = {} /\ aLocked # {} /\ aLocked' = aLocked
        /\ aStore' = aStore /\ aLost' = aLost /\ aGot' = aGot /\ aInbox \subseteq aInbox'
        /\ aPhase'[q] \in {"grace", "asking"}
        /\ \A h \in aSent'[q] : h \in Correct => <<q, h>> \in aInbox'
        /\ \A p \in Requesters \ {q} : aPhase'[p] = aPhase[p] /\ aSent'[p] = aSent[p]
    BY <1>0, <1>4 DEF FirstWaveOut, SendRequests, lockVars, ShardsComing, Correct
  <2>2. Cardinality(HeldFor(q)') >= RecoveryThreshold
    <3>1. PICK r \in aLocked : TRUE
      BY <2>1
    <3>2. Cardinality({h \in Correct : aStore[h] = r}) >= RecoveryThreshold
      BY LockAvailableHolds DEF LockAvailable
    <3>3. /\ {h \in Correct : aStore[h] = r} \subseteq HeldFor(q)'
          /\ HeldFor(q)' \subseteq Correct
      BY <2>1 DEF HeldFor
    <3> QED
      BY <3>2, <3>3, MoreHeld
  <2>3. ASSUME NEW p \in Requesters \ {q}
        PROVE  HeldFor(p) \subseteq HeldFor(p)' /\ HeldFor(p)' \subseteq Correct
    BY <2>1 DEF HeldFor
  <2>4. ASSUME NEW p \in Requesters, Collects(p)', aLost' = 0
        PROVE  Cardinality(HeldFor(p)') >= RecoveryThreshold
    <3>1. CASE p = q
      BY <2>2, <3>1
    <3>2. CASE p # q
      <4>1. Cardinality(HeldFor(p)) >= RecoveryThreshold
        BY <2>1, <2>4, <3>2 DEF ShardsComing, Collects
      <4> QED
        BY <2>3, <3>2, <4>1, MoreHeld
    <3> QED
      BY <3>1, <3>2
  <2> QED
    BY <2>1, <2>4 DEF ShardsComing, Collects
<1>5. ASSUME NEW q \in Requesters, NEW bad \in Unreachable[q], AskMissing(q, bad)
      PROVE  ShardsComing'
  <2>1. /\ aPhase[q] = "asking" /\ aLocked' = aLocked
        /\ aStore' = aStore /\ aLost' = aLost /\ aGot' = aGot /\ aInbox \subseteq aInbox'
        /\ \A h \in aSent'[q] \ aSent[q] : h \in Correct => <<q, h>> \in aInbox'
        /\ \A p \in Requesters \ {q} : aPhase'[p] = aPhase[p] /\ aSent'[p] = aSent[p]
    BY <1>0, <1>5 DEF AskMissing, SendRequests, lockVars, Correct
  <2>2. /\ aPhase'[q] \in {"waiting", "failed", "asking"}
        /\ aPhase'[q] = "failed" => Cardinality(aSent'[q]) < RecoveryThreshold
    <3>1. aPhase'[q] = IF Cardinality(aSent'[q]) >= RecoveryThreshold THEN "waiting"
                       ELSE IF aAsks[q] = MaxAsks THEN "failed" ELSE "asking"
      BY <1>0, <1>5 DEF AskMissing
    <3>2. Cardinality(aSent'[q]) \in Nat /\ RecoveryThreshold \in Int
      BY <1>0, OldSizes, SubsetCount
    <3> QED
      BY <3>1, <3>2
  <2>3. ASSUME NEW p \in Requesters PROVE HeldFor(p) \subseteq HeldFor(p)' /\ HeldFor(p)' \subseteq Correct
    BY <2>1 DEF HeldFor
  <2>4. ASSUME NEW p \in Requesters, Collects(p)', aLost' = 0
        PROVE  Cardinality(HeldFor(p)') >= RecoveryThreshold
    <3>1. Cardinality(HeldFor(p)) >= RecoveryThreshold
      BY <2>1, <2>2, <2>4 DEF ShardsComing, Collects
    <3> QED
      BY <2>3, <3>1, MoreHeld
  <2> QED
    BY <2>1, <2>2, <2>4 DEF ShardsComing, Collects
<1>6. ASSUME NEW q \in Requesters, GraceOver(q) PROVE ShardsComing'
  <2>1. /\ aPhase[q] = "grace" /\ aPhase'[q] \in {"waiting", "asking"}
        /\ UNCHANGED <<aStore, aLocked, aSent, aInbox, aGot, aLost>>
        /\ \A p \in Requesters \ {q} : aPhase'[p] = aPhase[p]
    BY <1>0, <1>6 DEF GraceOver, lockVars
  <2>2. \A p \in Requesters : HeldFor(p)' = HeldFor(p) /\ (Collects(p)' <=> Collects(p))
    BY <2>1 DEF HeldFor, Collects
  <2> QED
    BY <2>1, <2>2 DEF ShardsComing
<1>7. ASSUME NEW q \in Requesters, NEW h \in Correct, Serve(q, h) PROVE ShardsComing'
  <2>1. /\ UNCHANGED <<aStore, aLocked, aPhase, aSent, aLost>> /\ aInbox' = aInbox \ {<<q, h>>}
        /\ \A p \in Requesters : aGot[p] \subseteq aGot'[p]
        /\ Collects(q) /\ aStore[h] \in aLocked => h \in aGot'[q]
    BY <1>0, <1>7 DEF Serve, lockVars
  <2>2. ASSUME NEW p \in Requesters, Collects(p)
        PROVE  HeldFor(p) \subseteq HeldFor(p)' /\ HeldFor(p)' \subseteq Correct
    BY <2>1, <2>2 DEF HeldFor
  <2>3. ASSUME NEW p \in Requesters, Collects(p)', aLost' = 0
        PROVE  Cardinality(HeldFor(p)') >= RecoveryThreshold
    <3>1. Collects(p) /\ Cardinality(HeldFor(p)) >= RecoveryThreshold
      BY <2>1, <2>3 DEF ShardsComing, Collects
    <3> QED
      BY <2>2, <3>1, MoreHeld
  <2> QED
    BY <2>1, <2>3 DEF ShardsComing, Collects
<1>8. ASSUME NEW q \in Requesters, NEW h \in Correct, LoseResponse(q, h) PROVE ShardsComing'
  <2>1. UNCHANGED <<aLocked, aPhase, aSent>> /\ aLost' = aLost + 1
    BY <1>8 DEF LoseResponse, lockVars
  <2> QED
    BY <1>0, <2>1 DEF ShardsComing, Collects
<1>9. ASSUME NEW q \in Requesters, NEW h \in Faulty, ServeFaulty(q, h) PROVE ShardsComing'
  <2>1. /\ UNCHANGED <<aStore, aLocked, aPhase, aSent, aInbox, aLost>>
        /\ \A p \in Requesters : aGot[p] \subseteq aGot'[p]
    BY <1>0, <1>9 DEF ServeFaulty, lockVars
  <2>2. \A p \in Requesters : HeldFor(p) \subseteq HeldFor(p)'
    BY <2>1 DEF HeldFor
  <2> QED
    BY <2>1, <2>2, HeldStay
<1>10. ASSUME NEW q \in Requesters, RecoverPayload(q) PROVE ShardsComing'
  <2>1. /\ UNCHANGED <<aStore, aLocked, aLost>> /\ aPhase'[q] = "done" /\ aSent'[q] = {}
        /\ aInbox' = {m \in aInbox : m[1] # q}
        /\ \A p \in Requesters \ {q} :
              aPhase'[p] = aPhase[p] /\ aSent'[p] = aSent[p] /\ aGot'[p] = aGot[p]
    BY <1>0, <1>10 DEF RecoverPayload, lockVars
  <2>2. ASSUME NEW p \in Requesters \ {q} PROVE HeldFor(p)' = HeldFor(p)
    BY <2>1 DEF HeldFor
  <2>3. ASSUME NEW p \in Requesters, Collects(p)', aLost' = 0
        PROVE  Cardinality(HeldFor(p)') >= RecoveryThreshold
    <3>1. p # q /\ Collects(p) /\ aLost = 0
      BY <2>1, <2>3 DEF Collects
    <3> QED
      BY <2>2, <3>1 DEF ShardsComing
  <2> QED
    BY <2>1, <2>3 DEF ShardsComing, Collects
<1> QED
  BY <1>1, <1>2, <1>3, <1>4, <1>5, <1>6, <1>7, <1>8, <1>9, <1>10 DEF APDBNext

LEMMA ShardsComingInit == APDBInit => ShardsComing
BY DEF APDBInit, ShardsComing, Collects

\* Who could ask all correct members has not failed, and gets f+1 shards.
LEMMA LockedRecoveredHolds == APDBInv /\ ShardsComing => LockedRecovered
<1> SUFFICES ASSUME APDBInv, ShardsComing, APDBAtRest, NEW q \in Requesters, aLocked # {},
                    Correct \subseteq aSent[q], aResult[q] = None, ~(aLost > 0)
             PROVE  FALSE
  BY DEF LockedRecovered
<1>0. /\ aPhase \in [Requesters -> {"idle", "grace", "asking", "waiting", "done", "failed"}]
      /\ aSent[q] \subseteq Old /\ aGot[q] \subseteq Old /\ aLost = 0
  BY DEF APDBInv, APDBTypeOK, ShardsComing
<1>1. Cardinality(aSent[q]) \in Nat /\ Cardinality(aSent[q]) >= RecoveryThreshold
  <2>1. Cardinality(Correct \cup Faulty) >= 3 * F + 1
    BY OldSizes
  <2>2. Cardinality(Correct) \in Nat /\ Cardinality(Correct) >= 3 * F + 1 - F
    <3>1. 3 * F + 1 \in Int /\ Correct \in SUBSET (Old \ Faulty)
      BY OldSizes DEF Correct
    <3> QED
      BY <2>1, <3>1, OldSizes, CorrectSigners
  <2>3. Cardinality(aSent[q]) \in Nat /\ Cardinality(Correct) <= Cardinality(aSent[q])
    <3>1. IsFiniteSet(aSent[q])
      BY <1>0, OldSizes, SubsetCount
    <3> QED
      BY <3>1, SubsetCount
  <2> QED
    BY <2>2, <2>3, OldSizes DEF RecoveryThreshold
<1>2. Collects(q)
  <2>1. aPhase[q] # "failed"
    BY <1>1, OldSizes DEF ShardsComing
  <2>2. aSent[q] # {}
    <3> SUFFICES ASSUME aSent[q] = {} PROVE FALSE
      OBVIOUS
    <3>1. Cardinality(aSent[q]) = 0
      BY FS_EmptySet
    <3>2. RecoveryThreshold > 0
      BY OldSizes DEF RecoveryThreshold
    <3> QED
      BY <1>1, <3>1, <3>2, OldSizes
  <2> QED
    BY <1>0, <2>1, <2>2 DEF ShardsComing, Collects
<1>3. HeldFor(q) \subseteq aGot[q]
  BY DEF HeldFor, APDBAtRest
<1>4. Cardinality(HeldFor(q)) >= RecoveryThreshold
  BY <1>0, <1>2 DEF ShardsComing
<1>5. /\ Cardinality(HeldFor(q)) <= Cardinality(aGot[q])
      /\ Cardinality(HeldFor(q)) \in Nat /\ Cardinality(aGot[q]) \in Nat
  <2>1. IsFiniteSet(aGot[q])
    BY <1>0, OldSizes, SubsetCount
  <2> QED
    BY <1>3, <2>1, SubsetCount
<1>6. EnoughShards(q)
  BY <1>4, <1>5, OldSizes DEF EnoughShards
<1> QED
  BY <1>2, <1>6 DEF APDBAtRest

-----------------------------------------------------------------------------
(* The lock on a dealer's component and its retrieval (ComponentLock).     *)

\* Holder h has claimed statement s of dealer d and has its shard.
Keeps(h, d, s) == clClaim[h][d] = s /\ <<d, s>> \in clShards[h]
Keepers(d, s) == {h \in Correct : Keeps(h, d, s)}

\* The ranges of the variables of the lock.
LockTypes ==
    /\ clClaim \in [Correct -> [LeafDealers -> LeafStatements \cup {None}]]
    /\ clShards \in [Correct -> SUBSET Comps]
    /\ clSent \subseteq LeafDealers \X Correct \X LeafStatements
    /\ \A d \in LeafDealers, h \in Correct, s \in LeafStatements :
          <<d, h, s>> \in clSent => <<d, s>> \in Comps
    /\ clSigned \subseteq clSent
    /\ clBuffer \in [CorrectDealers -> Seq(Old)]
    /\ clTaken \in [CorrectDealers -> SUBSET Old]
    /\ clShares \in [CorrectDealers -> SUBSET Old]
    /\ clLost \in [CorrectDealers -> SUBSET Old]
    /\ clCert \subseteq Comps

\* A holder that has signed keeps what it signed, and so does one whose
\* signature has reached the dealer.
SignersKeep ==
    /\ \A d \in LeafDealers, h \in Correct, s \in LeafStatements :
          <<d, h, s>> \in clSigned => Keeps(h, d, s)
    /\ \A d \in CorrectDealers : \A h \in Correct :
          h \in clTaken[d] \cup clShares[d] => Keeps(h, d, OwnStatement)

\* The channel holds one ACK of each holder at most, so it never fills.
AcksOnce ==
    \A d \in CorrectDealers :
        /\ Len(clBuffer[d]) <= Cardinality(clTaken[d])
        /\ \A i \in 1 .. Len(clBuffer[d]) : clBuffer[d][i] \in clTaken[d]
        /\ clLost[d] = {}

\* n-f members, the faulty ones included, are behind a certificate.
CertsKept ==
    \A d \in LeafDealers, s \in LeafStatements :
        <<d, s>> \in clCert => Cardinality(Keepers(d, s) \cup Faulty) >= ControlThreshold

\* Retrievals are of certified leaves, what is cached was verified, and who
\* waits, waits for a retrieval under way.
CallsUnderWay ==
    /\ clCall \in [Comps -> {"none", "stored", "asks"}]
    /\ clCaller \in [LeafCallers -> {"idle", "waits", "ok", "error", "left"} \X (Comps \cup {None})]
    /\ \A c \in Comps : clCall[c] # "none" => c \in clCert
    /\ \A x \in LeafCallers : clCaller[x][1] = "waits" =>
          clCaller[x][2] \in Comps /\ clCall[clCaller[x][2]] # "none"
    /\ clLeaf \subseteq clCert /\ clDisk \subseteq clLeaf
    /\ clQueue \in Seq(Comps) /\ \A i \in 1 .. Len(clQueue) : clQueue[i] \in clLeaf

LockInv == LockTypes /\ SignersKeep /\ AcksOnce /\ CertsKept
ComponentInv == LockInv /\ CallsUnderWay

\* What is left of a sequence when its head is taken.
LEMMA TailFacts ==
    ASSUME NEW S, NEW b \in Seq(S), b # <<>>
    PROVE  /\ Tail(b) \in Seq(S) /\ Head(b) = b[1] /\ b[1] \in S
           /\ Len(b) \in Nat /\ Len(b) >= 1 /\ Len(Tail(b)) = Len(b) - 1
           /\ \A i \in 1 .. Len(b) - 1 : Tail(b)[i] = b[i + 1]
OBVIOUS

LEMMA ComponentInitInv == ComponentInit => ComponentInv
<1> SUFFICES ASSUME ComponentInit PROVE ComponentInv
  OBVIOUS
<1> USE DEF ComponentInit
<1>1. LockTypes
  BY DEF LockTypes
<1>2. SignersKeep /\ CertsKept
  BY DEF SignersKeep, CertsKept
<1>3. AcksOnce
  BY FS_EmptySet DEF AcksOnce
<1>4. CallsUnderWay
  BY DEF CallsUnderWay
<1> QED
  BY <1>1, <1>2, <1>3, <1>4 DEF ComponentInv, LockInv

\* Holders keep what they have, so certificates stay good.
LEMMA CertsKeptStay ==
    ASSUME CertsKept, clCert' = clCert,
           \A h \in Correct, d \in LeafDealers, s \in LeafStatements :
               Keeps(h, d, s) => Keeps(h, d, s)'
    PROVE  CertsKept'
<1> SUFFICES ASSUME NEW d \in LeafDealers, NEW s \in LeafStatements, <<d, s>> \in clCert
    PROVE  Cardinality(Keepers(d, s)' \cup Faulty) >= ControlThreshold
  BY DEF CertsKept
<1>1. Keepers(d, s) \subseteq Keepers(d, s)' /\ Keepers(d, s)' \subseteq Correct
  BY DEF Keepers
<1>2. Cardinality(Keepers(d, s) \cup Faulty) >= ControlThreshold
  BY DEF CertsKept
<1>3. /\ Cardinality(Keepers(d, s) \cup Faulty) <= Cardinality(Keepers(d, s)' \cup Faulty)
      /\ Cardinality(Keepers(d, s) \cup Faulty) \in Nat
      /\ Cardinality(Keepers(d, s)' \cup Faulty) \in Nat
  BY <1>1, MoreSigners
<1> QED
  BY <1>2, <1>3, OldSizes

\* The retrieval leaves the lock alone, and the lock the retrieval, but for
\* certificates that are added.
LEMMA LockQuiet == ASSUME LockInv, UNCHANGED claimVars PROVE LockInv'
<1> USE DEF LockInv, claimVars
<1>1. LockTypes' /\ AcksOnce'
  BY DEF LockTypes, AcksOnce
<1>2. SignersKeep' /\ CertsKept'
  BY DEF SignersKeep, CertsKept, Keepers, Keeps
<1> QED
  BY <1>1, <1>2

LEMMA CallsQuiet ==
    ASSUME CallsUnderWay, UNCHANGED leafVars, clCert \subseteq clCert' PROVE CallsUnderWay'
BY DEF CallsUnderWay, leafVars

LEMMA DisperseInv ==
    ASSUME LockInv, NEW d \in CorrectDealers, Disperse(d)
    PROVE  LockInv'
<1> USE DEF LockInv, Disperse
<1>0. d \in Correct /\ d \in LeafDealers /\ d \in Old /\ <<d, OwnStatement>> \in Comps
  BY ComponentAssumption DEF CorrectDealers, Correct, Comps
<1>1. LockTypes'
  BY <1>0, ComponentAssumption DEF LockTypes
<1>2. \A h \in Correct, e \in LeafDealers, s \in LeafStatements :
          Keeps(h, e, s) => Keeps(h, e, s)'
  BY <1>0, ComponentAssumption DEF Keeps, LockTypes
<1>3. Keeps(d, d, OwnStatement)'
  BY <1>0 DEF Keeps, LockTypes
<1>4. SignersKeep'
  <2>1. \A e \in LeafDealers, h \in Correct, s \in LeafStatements :
            <<e, h, s>> \in clSigned' => Keeps(h, e, s)'
    BY <1>2 DEF SignersKeep
  <2>2. ASSUME NEW e \in CorrectDealers, NEW h \in Correct, h \in clTaken'[e] \cup clShares'[e]
        PROVE  Keeps(h, e, OwnStatement)'
    <3>1. e \in LeafDealers
      BY DEF CorrectDealers
    <3>2. CASE h \in clTaken[e] \cup clShares[e]
      BY <1>2, <3>1, <3>2, ComponentAssumption DEF SignersKeep
    <3>3. CASE h \notin clTaken[e] \cup clShares[e]
      BY <1>3, <2>2, <3>3 DEF LockTypes
    <3> QED
      BY <3>2, <3>3
  <2> QED
    BY <2>1, <2>2 DEF SignersKeep
<1>5. AcksOnce'
  BY DEF AcksOnce
<1>6. CertsKept'
  BY <1>2, CertsKeptStay
<1> QED
  BY <1>1, <1>4, <1>5, <1>6

LEMMA SendInitInv ==
    ASSUME LockInv, NEW d \in LeafDealers, NEW h \in Correct, NEW s \in LeafStatements,
           SendInit(d, h, s)
    PROVE  LockInv'
<1> USE DEF LockInv, SendInit
<1>1. LockTypes'
  <2>1. \A e \in LeafDealers, g \in Correct, t \in LeafStatements :
            <<e, g, t>> \in clSent' => <<e, t>> \in Comps
    BY DEF LockTypes
  <2>2. clSent' \subseteq LeafDealers \X Correct \X LeafStatements /\ clSigned \subseteq clSent'
    BY DEF LockTypes
  <2> QED
    BY <2>1, <2>2 DEF LockTypes
<1>2. SignersKeep' /\ CertsKept'
  BY DEF SignersKeep, CertsKept, Keepers, Keeps
<1>3. AcksOnce'
  BY DEF AcksOnce
<1> QED
  BY <1>1, <1>2, <1>3

\* The claim is immutable: a holder that has claimed another statement does
\* not sign.
LEMMA HandleInitInv ==
    ASSUME LockInv, NEW d \in LeafDealers, NEW h \in Correct, NEW s \in LeafStatements,
           HandleInit(h, d, s)
    PROVE  LockInv'
<1> USE DEF LockInv, HandleInit
<1>0. <<d, s>> \in Comps
  BY DEF LockTypes
<1>1. LockTypes'
  BY <1>0 DEF LockTypes
<1>2. \A g \in Correct, e \in LeafDealers, t \in LeafStatements :
          Keeps(g, e, t) => Keeps(g, e, t)'
  BY ComponentAssumption DEF Keeps, LockTypes, Claims
<1>3. Keeps(h, d, s)'
  BY DEF Keeps, LockTypes
<1>4. SignersKeep'
  <2>1. \A e \in LeafDealers, g \in Correct, t \in LeafStatements :
            <<e, g, t>> \in clSigned' => Keeps(g, e, t)'
    BY <1>2, <1>3 DEF SignersKeep
  <2>2. \A e \in CorrectDealers : \A g \in Correct :
            g \in clTaken[e] \cup clShares[e] => Keeps(g, e, OwnStatement)'
    BY <1>2, ComponentAssumption DEF SignersKeep, CorrectDealers
  <2> QED
    BY <2>1, <2>2 DEF SignersKeep
<1>5. AcksOnce'
  BY DEF AcksOnce
<1>6. CertsKept'
  BY <1>2, CertsKeptStay
<1> QED
  BY <1>1, <1>4, <1>5, <1>6

\* An ACK that is let through is the first of its holder, so there is room.
LEMMA HandleAckInv ==
    ASSUME LockInv, NEW d \in CorrectDealers, NEW h \in Old, HandleAck(d, h)
    PROVE  LockInv'
<1> USE DEF LockInv, HandleAck, FirstAck
<1>0. d \in LeafDealers /\ clTaken[d] \in SUBSET Old /\ clBuffer[d] \in Seq(Old)
  BY DEF CorrectDealers, LockTypes
<1>1. /\ IsFiniteSet(clTaken[d] \cup {h}) /\ IsFiniteSet(clTaken[d])
      /\ Cardinality(clTaken[d] \cup {h}) = Cardinality(clTaken[d]) + 1
      /\ Cardinality(clTaken[d] \cup {h}) <= Cardinality(Old)
      /\ Cardinality(clTaken[d]) \in Nat /\ Cardinality(Old) \in Nat
  <2>1. IsFiniteSet(clTaken[d])
    BY <1>0, OldSizes, SubsetCount
  <2>2. clTaken[d] \cup {h} \subseteq Old
    BY <1>0
  <2>3. Cardinality(clTaken[d] \cup {h}) = Cardinality(clTaken[d]) + 1
    BY <2>1, FS_AddElement
  <2> QED
    BY <2>1, <2>2, <2>3, OldSizes, SubsetCount
<1>2. /\ Len(clBuffer[d]) < Cardinality(Old)
      /\ clBuffer' = [clBuffer EXCEPT ![d] = Append(@, h)] /\ clLost' = clLost
  BY <1>0, <1>1 DEF AcksOnce
<1>3. LockTypes'
  BY <1>2 DEF LockTypes
<1>4. SignersKeep' /\ CertsKept'
  <2>1. h \in Correct => Keeps(h, d, OwnStatement)
    BY <1>0, ComponentAssumption, OldSizes DEF SignersKeep
  <2>2. ASSUME NEW e \in CorrectDealers, NEW g \in Correct, g \in clTaken'[e] \cup clShares'[e]
        PROVE  Keeps(g, e, OwnStatement)
    <3>1. \/ g \in clTaken[e] \cup clShares[e]
          \/ e = d /\ g = h
      BY <2>2 DEF LockTypes
    <3> QED
      BY <2>1, <3>1 DEF SignersKeep
  <2>3. \A e, g, t : Keeps(g, e, t)' = Keeps(g, e, t)
    BY DEF Keeps
  <2>4. SignersKeep'
    BY <2>2, <2>3 DEF SignersKeep
  <2> QED
    BY <2>4 DEF CertsKept, Keepers, Keeps
<1>5. AcksOnce'
  <2>1. ASSUME NEW e \in CorrectDealers, e # d
        PROVE  clBuffer'[e] = clBuffer[e] /\ clTaken'[e] = clTaken[e] /\ clLost'[e] = clLost[e]
    BY <1>2, <2>1 DEF LockTypes
  <2>2. /\ clBuffer'[d] = Append(clBuffer[d], h) /\ clTaken'[d] = clTaken[d] \cup {h}
        /\ clLost'[d] = clLost[d]
    BY <1>2 DEF LockTypes
  <2>3. /\ Len(clBuffer'[d]) = Len(clBuffer[d]) + 1
        /\ Len(clBuffer[d]) \in Nat
        /\ \A i \in 1 .. Len(clBuffer'[d]) : clBuffer'[d][i] \in clTaken'[d]
    BY <1>0, <2>2 DEF AcksOnce
  <2>4. /\ Len(clBuffer'[d]) <= Cardinality(clTaken'[d]) /\ clLost'[d] = {}
    <3>1. Len(clBuffer[d]) <= Cardinality(clTaken[d]) /\ clLost[d] = {}
      BY DEF AcksOnce
    <3>2. Cardinality(clTaken'[d]) = Cardinality(clTaken[d]) + 1
      BY <1>1, <2>2
    <3> QED
      BY <1>1, <2>2, <2>3, <3>1, <3>2
  <2> QED
    BY <2>1, <2>3, <2>4 DEF AcksOnce
<1> QED
  BY <1>3, <1>4, <1>5

LEMMA TakeComponentAckInv ==
    ASSUME LockInv, NEW d \in CorrectDealers, TakeComponentAck(d)
    PROVE  LockInv'
<1> USE DEF LockInv, TakeComponentAck
<1>0. /\ clTaken[d] \in SUBSET Old /\ clBuffer[d] \in Seq(Old) /\ clBuffer[d] # <<>>
      /\ clShares[d] \in SUBSET Old
  BY DEF LockTypes
<1>1. Head(clBuffer[d]) \in clTaken[d]
  BY <1>0 DEF AcksOnce
<1>2. LockTypes'
  BY <1>0, <1>1 DEF LockTypes
<1>3. SignersKeep' /\ CertsKept'
  <2>1. ASSUME NEW e \in CorrectDealers, NEW g \in Correct, g \in clTaken'[e] \cup clShares'[e]
        PROVE  g \in clTaken[e] \cup clShares[e]
    BY <1>1, <2>1 DEF LockTypes
  <2>2. \A e, g, t : Keeps(g, e, t)' = Keeps(g, e, t)
    BY DEF Keeps
  <2>3. SignersKeep'
    BY <2>1, <2>2 DEF SignersKeep
  <2> QED
    BY <2>3 DEF CertsKept, Keepers, Keeps
<1>4. AcksOnce'
  <2>1. ASSUME NEW e \in CorrectDealers, e # d
        PROVE  clBuffer'[e] = clBuffer[e]
    BY <2>1 DEF LockTypes
  <2>2. clBuffer'[d] = Tail(clBuffer[d])
    BY DEF LockTypes
  <2>3. /\ Len(clBuffer'[d]) = Len(clBuffer[d]) - 1 /\ Len(clBuffer[d]) \in Nat
        /\ \A i \in 1 .. Len(clBuffer'[d]) : clBuffer'[d][i] = clBuffer[d][i + 1]
    <3>1. /\ Len(Tail(clBuffer[d])) = Len(clBuffer[d]) - 1 /\ Len(clBuffer[d]) \in Nat
          /\ \A i \in 1 .. Len(clBuffer[d]) - 1 : Tail(clBuffer[d])[i] = clBuffer[d][i + 1]
      BY <1>0, TailFacts
    <3> QED
      BY <2>2, <3>1
  <2>4. \A i \in 1 .. Len(clBuffer'[d]) : clBuffer'[d][i] \in clTaken[d]
    BY <2>3 DEF AcksOnce
  <2>5. Cardinality(clTaken[d]) \in Nat
    BY <1>0, OldSizes, SubsetCount
  <2>6. Len(clBuffer'[d]) <= Cardinality(clTaken[d])
    BY <2>3, <2>5 DEF AcksOnce
  <2> QED
    BY <2>1, <2>4, <2>6 DEF AcksOnce
<1> QED
  BY <1>2, <1>3, <1>4

\* n-f signatures are n-f members behind the certificate.
LEMMA CertifyComponentInv ==
    ASSUME LockInv, NEW d \in LeafDealers, NEW s \in LeafStatements, CertifyComponent(d, s)
    PROVE  LockInv'
<1> USE DEF LockInv, CertifyComponent
<1>1. LockTypes' /\ SignersKeep' /\ AcksOnce'
  BY DEF LockTypes, SignersKeep, AcksOnce, Keeps
<1>2. LockShares(d, s) \subseteq Keepers(d, s) \cup Faulty
  <2>1. CASE d \in Correct
    <3>1. d \in CorrectDealers /\ s = OwnStatement /\ LockShares(d, s) = clShares[d]
      BY <2>1, OldSizes DEF CorrectDealers, Comps, LockShares
    <3>2. clShares[d] \subseteq Old
      BY <3>1 DEF LockTypes
    <3> QED
      BY <3>1, <3>2, OldSizes DEF SignersKeep, Keepers
  <2>2. CASE d \notin Correct
    BY <2>2 DEF LockShares, SignersKeep, Keepers
  <2> QED
    BY <2>1, <2>2
<1>3. Cardinality(Keepers(d, s) \cup Faulty) >= ControlThreshold
  <2>1. IsFiniteSet(Keepers(d, s) \cup Faulty)
    BY MoreSigners DEF Keepers
  <2>2. /\ Cardinality(LockShares(d, s)) <= Cardinality(Keepers(d, s) \cup Faulty)
        /\ Cardinality(LockShares(d, s)) \in Nat
        /\ Cardinality(Keepers(d, s) \cup Faulty) \in Nat
    BY <1>2, <2>1, SubsetCount
  <2> QED
    BY <2>2, OldSizes
<1>4. CertsKept'
  BY <1>3 DEF CertsKept, Keepers, Keeps
<1> QED
  BY <1>1, <1>4

\* A caller joins the retrieval under way; it starts one only if there is none.
LEMMA GetComponentInv ==
    ASSUME CallsUnderWay, NEW x \in LeafCallers, NEW c \in Comps, GetComponent(x, c)
    PROVE  CallsUnderWay'
<1> USE DEF CallsUnderWay, GetComponent, Joins, claimVars
<1>1. clCall' \in [Comps -> {"none", "stored", "asks"}]
  BY DEF CallsUnderWay
<1>2. clCaller' \in [LeafCallers ->
          {"idle", "waits", "ok", "error", "left"} \X (Comps \cup {None})]
  OBVIOUS
<1>3. \A e \in Comps : clCall[e] # "none" => clCall'[e] # "none"
  OBVIOUS
<1>4. \A e \in Comps : clCall'[e] # "none" => e \in clCert
  OBVIOUS
<1>5. clCaller'[x] = <<"waits", c>> => clCall'[c] # "none"
  OBVIOUS
<1>6. \A y \in LeafCallers : clCaller'[y][1] = "waits" =>
          clCaller'[y][2] \in Comps /\ clCall'[clCaller'[y][2]] # "none"
  <2> SUFFICES ASSUME NEW y \in LeafCallers, clCaller'[y][1] = "waits"
      PROVE  clCaller'[y][2] \in Comps /\ clCall'[clCaller'[y][2]] # "none"
    OBVIOUS
  <2>1. CASE y # x
    <3>1. clCaller'[y] = clCaller[y]
      BY <2>1
    <3> QED
      BY <1>3, <3>1
  <2>2. CASE y = x
    <3>1. clCaller'[x] \in {<<"ok", c>>, <<"waits", c>>}
      OBVIOUS
    <3>2. clCaller'[x] = <<"waits", c>>
      BY <2>2, <3>1
    <3> QED
      BY <1>5, <2>2, <3>2
  <2> QED
    BY <2>1, <2>2
<1> QED
  BY <1>1, <1>2, <1>4, <1>6

\* All that wait for a retrieval are released when it ends.
LEMMA ReleaseCallWaits ==
    ASSUME CallsUnderWay, NEW c \in Comps, NEW outcome \in {"ok", "error"},
           ReleaseCall(c, outcome)
    PROVE  /\ clCall' \in [Comps -> {"none", "stored", "asks"}]
           /\ clCaller' \in [LeafCallers ->
                  {"idle", "waits", "ok", "error", "left"} \X (Comps \cup {None})]
           /\ \A e \in Comps : clCall'[e] # "none" => clCall[e] # "none"
           /\ \A y \in LeafCallers : clCaller'[y][1] = "waits" =>
                  clCaller'[y][2] \in Comps /\ clCall'[clCaller'[y][2]] # "none"
<1> USE DEF CallsUnderWay, ReleaseCall
<1>1. clCall' = [clCall EXCEPT ![c] = "none"]
  OBVIOUS
<1>2. ASSUME NEW y \in LeafCallers
      PROVE  clCaller'[y] = IF clCaller[y] = <<"waits", c>> THEN <<outcome, c>> ELSE clCaller[y]
  OBVIOUS
<1>3. clCaller' \in [LeafCallers ->
          {"idle", "waits", "ok", "error", "left"} \X (Comps \cup {None})]
  OBVIOUS
<1>4. ASSUME NEW y \in LeafCallers, clCaller'[y][1] = "waits"
      PROVE  clCaller'[y][2] \in Comps /\ clCall'[clCaller'[y][2]] # "none"
  <2>1. clCaller[y] # <<"waits", c>> /\ clCaller'[y] = clCaller[y]
    BY <1>2, <1>4
  <2>2. clCaller[y][2] # c
    <3>1. clCaller[y] = <<clCaller[y][1], clCaller[y][2]>>
      OBVIOUS
    <3> QED
      BY <1>4, <2>1, <3>1
  <2> QED
    BY <1>1, <1>4, <2>1, <2>2
<1> QED
  BY <1>1, <1>3, <1>4

LEMMA RetrievalFailsInv ==
    ASSUME CallsUnderWay, NEW c \in Comps, RetrievalFails(c)
    PROVE  CallsUnderWay'
<1>1. ReleaseCall(c, "error") /\ UNCHANGED <<claimVars, clLeaf, clQueue, clDisk>>
  BY DEF RetrievalFails
<1> QED
  BY <1>1, ReleaseCallWaits DEF CallsUnderWay, claimVars

LEMMA RetrievedInv ==
    ASSUME CallsUnderWay, NEW c \in Comps, Retrieved(c)
    PROVE  CallsUnderWay'
<1>1. /\ ReleaseCall(c, "ok") /\ CacheReconstructed(c) /\ clLeaf' = clLeaf \cup {c}
      /\ UNCHANGED claimVars /\ clCall[c] # "none"
  BY DEF Retrieved
<1>2. c \in clCert
  BY <1>1 DEF CallsUnderWay
<1>3. clDisk' \subseteq clLeaf' /\ clLeaf' \subseteq clCert'
  BY <1>1, <1>2 DEF CallsUnderWay, CacheReconstructed, claimVars
<1>4. clQueue' \in Seq(Comps) /\ \A i \in 1 .. Len(clQueue') : clQueue'[i] \in clLeaf'
  BY <1>1 DEF CallsUnderWay, CacheReconstructed
<1> QED
  BY <1>1, <1>3, <1>4, ReleaseCallWaits DEF CallsUnderWay, claimVars

LEMMA WriteLeafInv == ASSUME CallsUnderWay, WriteLeaf PROVE CallsUnderWay'
<1> USE DEF WriteLeaf
<1>1. clQueue \in Seq(Comps) /\ clQueue # <<>>
  BY DEF CallsUnderWay
<1>2. /\ Tail(clQueue) \in Seq(Comps) /\ Head(clQueue) = clQueue[1]
      /\ Len(clQueue) \in Nat /\ Len(clQueue) >= 1 /\ Len(Tail(clQueue)) = Len(clQueue) - 1
      /\ \A i \in 1 .. Len(clQueue) - 1 : Tail(clQueue)[i] = clQueue[i + 1]
  BY <1>1, TailFacts
<1>3. Head(clQueue) \in clLeaf
  BY <1>2 DEF CallsUnderWay
<1>4. clQueue' \in Seq(Comps) /\ \A i \in 1 .. Len(clQueue') : clQueue'[i] \in clLeaf
  BY <1>2 DEF CallsUnderWay
<1> QED
  BY <1>3, <1>4 DEF CallsUnderWay, claimVars

LEMMA CallerLeavesInv ==
    ASSUME CallsUnderWay, NEW x \in LeafCallers, CallerLeaves(x)
    PROVE  CallsUnderWay'
<1> USE DEF CallerLeaves
<1>1. clCaller' \in [LeafCallers ->
          {"idle", "waits", "ok", "error", "left"} \X (Comps \cup {None})]
  BY DEF CallsUnderWay
<1>2. \A y \in LeafCallers : clCaller'[y][1] = "waits" => clCaller'[y] = clCaller[y]
  BY DEF CallsUnderWay
<1> QED
  BY <1>1, <1>2 DEF CallsUnderWay, claimVars

LEMMA ComponentStepInv == ComponentInv /\ [ComponentNext]_componentVars => ComponentInv'
<1> SUFFICES ASSUME ComponentInv, [ComponentNext]_componentVars PROVE ComponentInv'
  OBVIOUS
<1> USE DEF ComponentInv
<1>1. CASE UNCHANGED componentVars
  BY <1>1, LockQuiet, CallsQuiet DEF componentVars, claimVars
<1>2. ASSUME NEW d \in CorrectDealers, Disperse(d) \/ TakeComponentAck(d) PROVE ComponentInv'
  BY <1>2, DisperseInv, TakeComponentAckInv, CallsQuiet DEF Disperse, TakeComponentAck
<1>3. ASSUME NEW d \in LeafDealers, NEW h \in Correct, NEW s \in LeafStatements,
             SendInit(d, h, s) \/ HandleInit(h, d, s)
      PROVE ComponentInv'
  BY <1>3, SendInitInv, HandleInitInv, CallsQuiet DEF SendInit, HandleInit
<1>4. ASSUME NEW d \in CorrectDealers, NEW h \in Old, HandleAck(d, h) PROVE ComponentInv'
  BY <1>4, HandleAckInv, CallsQuiet DEF HandleAck
<1>5. ASSUME NEW d \in LeafDealers, NEW s \in LeafStatements, CertifyComponent(d, s)
      PROVE ComponentInv'
  BY <1>5, CertifyComponentInv, CallsQuiet DEF CertifyComponent
<1>6. ASSUME NEW x \in LeafCallers, NEW c \in Comps, GetComponent(x, c) PROVE ComponentInv'
  BY <1>6, GetComponentInv, LockQuiet DEF GetComponent
<1>7. ASSUME NEW c \in Comps, RetrievalFails(c) \/ Retrieved(c) PROVE ComponentInv'
  BY <1>7, RetrievalFailsInv, RetrievedInv, LockQuiet DEF RetrievalFails, Retrieved, claimVars
<1>8. CASE WriteLeaf
  BY <1>8, WriteLeafInv, LockQuiet DEF WriteLeaf
<1>9. ASSUME NEW x \in LeafCallers, CallerLeaves(x) PROVE ComponentInv'
  BY <1>9, CallerLeavesInv, LockQuiet DEF CallerLeaves
<1> QED
  BY <1>1, <1>2, <1>3, <1>4, <1>5, <1>6, <1>7, <1>8, <1>9 DEF ComponentNext

\* The inductive invariant of the lock and the retrievals.
THEOREM ComponentInvariance == ComponentSpec => []ComponentInv
<1> QED
  BY ComponentInitInv, ComponentStepInv, PTL DEF ComponentSpec

\* Two certificates of a dealer share a correct signer, which has claimed one
\* statement.
LEMMA OneStatement ==
    ASSUME LockInv, NEW d \in LeafDealers, NEW s \in LeafStatements, NEW t \in LeafStatements,
           <<d, s>> \in clCert, <<d, t>> \in clCert
    PROVE  s = t
<1>1. Keepers(d, s) \in SUBSET (Old \ Faulty) /\ Keepers(d, t) \in SUBSET (Old \ Faulty)
  BY DEF Keepers, Correct
<1>2. /\ Cardinality(Keepers(d, s) \cup Faulty) >= Cardinality(Old) - F
      /\ Cardinality(Keepers(d, t) \cup Faulty) >= Cardinality(Old) - F
  BY DEF LockInv, CertsKept, ControlThreshold
<1>3. /\ IsFiniteSet(Old) /\ Faulty \subseteq Old /\ F \in Nat
      /\ Cardinality(Faulty) <= F /\ Cardinality(Old) >= 3 * F + 1
  BY CommitteeAssumption
<1>4. PICK h \in Keepers(d, s) : h \in Keepers(d, t)
  BY <1>1, <1>2, <1>3, SignersMeet
<1> QED
  BY <1>4 DEF Keepers, Keeps

\* A certified leaf has n-2f shards at correct holders.
LEMMA ShardsThere ==
    ASSUME LockInv, NEW d \in LeafDealers, NEW s \in LeafStatements, <<d, s>> \in clCert
    PROVE  Cardinality(ShardHolders(<<d, s>>)) >= Cardinality(Old) - 2 * F
<1>1. Keepers(d, s) \in SUBSET (Old \ Faulty)
  BY DEF Keepers, Correct
<1>2. Cardinality(Keepers(d, s) \cup Faulty) >= ControlThreshold
  BY DEF LockInv, CertsKept
<1>3. /\ IsFiniteSet(Old) /\ Faulty \subseteq Old /\ F \in Nat /\ Cardinality(Faulty) <= F
      /\ ControlThreshold \in Int
  BY OldSizes
<1>4. Cardinality(Keepers(d, s)) \in Nat /\ Cardinality(Keepers(d, s)) >= ControlThreshold - F
  BY <1>1, <1>2, <1>3, CorrectSigners
<1>5. Keepers(d, s) \subseteq ShardHolders(<<d, s>>) /\ ShardHolders(<<d, s>>) \subseteq Correct
  BY DEF Keepers, Keeps, ShardHolders
<1>6. /\ Cardinality(Keepers(d, s)) <= Cardinality(ShardHolders(<<d, s>>))
      /\ Cardinality(ShardHolders(<<d, s>>)) \in Nat
  BY <1>5, MoreSigners
<1> QED
  BY <1>4, <1>6, OldSizes DEF ControlThreshold

LEMMA OneComponentHolds == ComponentInv => OneComponent
<1> SUFFICES ASSUME ComponentInv, NEW c \in clCert
    PROVE  /\ \A e \in clCert : c[1] = e[1] => c = e
           /\ Cardinality(ShardHolders(c)) >= Cardinality(Old) - 2 * F
  BY DEF OneComponent
<1>1. \A e \in clCert : e[1] \in LeafDealers /\ e[2] \in LeafStatements /\ e = <<e[1], e[2]>>
  BY DEF ComponentInv, LockInv, LockTypes, Comps
<1>2. ASSUME NEW e \in clCert, c[1] = e[1] PROVE c = e
  <2>1. c[2] = e[2]
    BY <1>1, <1>2, OneStatement DEF ComponentInv
  <2> QED
    BY <1>1, <1>2, <2>1
<1> QED
  BY <1>1, <1>2, ShardsThere DEF ComponentInv

LEMMA ComponentTypeHolds == ComponentInv => ComponentTypeOK
BY DEF ComponentInv, LockInv, LockTypes, CallsUnderWay, ComponentTypeOK

LEMMA DealerKeepsHolds == ComponentInv => AcksNotLost /\ NoLostCaller
BY DEF ComponentInv, LockInv, AcksOnce, CallsUnderWay, AcksNotLost, NoLostCaller

-----------------------------------------------------------------------------
(* The acknowledged lanes of a dealing (LaneAcks).                         *)

LanePhases == {"sending", "waiting", "grace", "assembled", "failed"}

\* Acknowledgements come from receivers that have an offer.
LaneRanges ==
    /\ laneTried \subseteq LaneReceivers /\ laneMarked \subseteq LaneReceivers
    /\ laneQueue \subseteq laneMarked \ LaneFaulty /\ laneAcks \subseteq laneMarked
    /\ laneAcked \subseteq LaneReceivers /\ laneRepeats \in Nat
    /\ laneDropped \subseteq LaneReceivers
    /\ laneFlight \in Seq(LaneReceivers) /\ laneBuffer \in Seq(LaneReceivers)
    /\ \A i \in 1 .. Len(laneFlight) : laneFlight[i] \in laneMarked
    /\ \A i \in 1 .. Len(laneBuffer) : laneBuffer[i] \in laneMarked
    /\ lanePhase \in LanePhases
    /\ lanePhase = "grace" => Cardinality(laneAcks) >= RequiredAcks
    /\ lanePhase = "assembled" => Cardinality(laneAcks) >= LaneThreshold

\* What is on its way, waits in the channel or was dropped was sent, and when an
\* acknowledgement is dropped the channel holds as many as there are receivers.
AcksCounted ==
    /\ Len(laneFlight) + Len(laneBuffer) + Cardinality(laneDropped)
         <= Cardinality(laneAcked) + laneRepeats
    /\ NoneCrowdedOut

\* What is left of a sequence when its k-th element is taken out.
LEMMA RemoveAtFacts ==
    ASSUME NEW S, NEW b \in Seq(S), NEW k \in 1 .. Len(b)
    PROVE  /\ RemoveAt(b, k) \in Seq(S) /\ Len(RemoveAt(b, k)) = Len(b) - 1
           /\ \A i \in 1 .. Len(b) - 1 : \E j \in 1 .. Len(b) : RemoveAt(b, k)[i] = b[j]
           /\ \A j \in 1 .. Len(b) : j # k =>
                 \E i \in 1 .. Len(b) - 1 : RemoveAt(b, k)[i] = b[j]
<1> DEFINE u == SubSeq(b, 1, k - 1)
           v == SubSeq(b, k + 1, Len(b))
<1>0. Len(b) \in Nat /\ k \in Int /\ 1 <= k /\ k <= Len(b)
  OBVIOUS
<1>1. /\ u \in Seq(S) /\ Len(u) = k - 1
      /\ \A i \in 1 .. k - 1 : u[i] = b[i]
  BY <1>0
<1>2. /\ v \in Seq(S) /\ Len(v) = Len(b) - k
      /\ \A i \in 1 .. Len(b) - k : v[i] = b[k + i]
  BY <1>0
<1> HIDE DEF u, v
<1>3. /\ u \o v \in Seq(S) /\ Len(u \o v) = Len(b) - 1
      /\ \A i \in 1 .. Len(b) - 1 : (u \o v)[i] = IF i <= k - 1 THEN u[i] ELSE v[i - (k - 1)]
  <2>0. u \in Seq(S) /\ v \in Seq(S)
    BY <1>1, <1>2
  <2>1. u \o v \in Seq(S) /\ Len(u \o v) = Len(u) + Len(v)
    BY <2>0
  <2>2. \A i \in 1 .. Len(u) + Len(v) : (u \o v)[i] = IF i <= Len(u) THEN u[i] ELSE v[i - Len(u)]
    BY <2>0
  <2>3. Len(u) = k - 1 /\ Len(u) + Len(v) = Len(b) - 1
    BY <1>0, <1>1, <1>2
  <2> QED
    BY <2>1, <2>2, <2>3
<1>4. ASSUME NEW i \in 1 .. Len(b) - 1 PROVE \E j \in 1 .. Len(b) : (u \o v)[i] = b[j]
  <2>1. CASE i <= k - 1
    <3>1. i \in 1 .. k - 1 /\ i \in 1 .. Len(b)
      BY <1>0, <2>1
    <3>2. (u \o v)[i] = b[i]
      BY <1>1, <1>3, <2>1, <3>1
    <3> QED
      BY <3>1, <3>2
  <2>2. CASE ~ (i <= k - 1)
    <3>1. i - (k - 1) \in 1 .. Len(b) - k /\ k + (i - (k - 1)) = i + 1 /\ i + 1 \in 1 .. Len(b)
      BY <1>0, <2>2
    <3>2. (u \o v)[i] = v[i - (k - 1)]
      BY <1>3, <2>2
    <3>3. v[i - (k - 1)] = b[i + 1]
      BY <1>2, <3>1
    <3> QED
      BY <3>1, <3>2, <3>3
  <2> QED
    BY <2>1, <2>2
<1>5. RemoveAt(b, k) = u \o v
  BY DEF RemoveAt, u, v
<1>6. ASSUME NEW j \in 1 .. Len(b), j # k PROVE \E i \in 1 .. Len(b) - 1 : (u \o v)[i] = b[j]
  <2>1. CASE j < k
    <3>1. j \in 1 .. k - 1 /\ j \in 1 .. Len(b) - 1 /\ j <= k - 1
      BY <1>0, <2>1
    <3>2. (u \o v)[j] = b[j]
      BY <1>1, <1>3, <3>1
    <3> QED
      BY <3>1, <3>2
  <2>2. CASE j > k
    <3>1. /\ j - k \in 1 .. Len(b) - k /\ k + (j - k) = j /\ (j - 1) - (k - 1) = j - k
          /\ j - 1 \in 1 .. Len(b) - 1 /\ ~ (j - 1 <= k - 1)
      BY <1>0, <2>2
    <3>2. (u \o v)[j - 1] = v[j - k] /\ v[j - k] = b[j]
      BY <1>2, <1>3, <3>1
    <3> QED
      BY <3>1, <3>2
  <2>3. j < k \/ j > k
    BY <1>0, <1>6
  <2> QED
    BY <2>1, <2>2, <2>3
<1> QED
  BY ZenonT(40), <1>3, <1>4, <1>5, <1>6

\* What the assumption says about the number of receivers.
LEMMA LaneSizes ==
    /\ IsFiniteSet(LaneReceivers) /\ Cardinality(LaneReceivers) \in Nat
    /\ LaneThreshold \in Int /\ RequiredAcks \in Int /\ RequiredAcks >= LaneThreshold
    /\ Cardinality(LaneReceivers) >= LaneThreshold
BY LaneAssumption, FS_CardinalityType DEF LaneThreshold

LEMMA LaneInitInv == LaneInit => LaneRanges /\ AcksCounted
<1> SUFFICES ASSUME LaneInit PROVE LaneRanges /\ AcksCounted
  OBVIOUS
<1>1. Cardinality({}) = 0
  BY FS_EmptySet
<1> QED
  BY <1>1 DEF LaneInit, LaneRanges, AcksCounted, NoneCrowdedOut, LanePhases

\* Acknowledgements arrive: one leaves the flight.
LEMMA FlightFacts ==
    ASSUME LaneRanges, NEW k \in 1 .. Len(laneFlight)
    PROVE  /\ RemoveAt(laneFlight, k) \in Seq(LaneReceivers)
           /\ Len(RemoveAt(laneFlight, k)) = Len(laneFlight) - 1
           /\ \A i \in 1 .. Len(laneFlight) - 1 : RemoveAt(laneFlight, k)[i] \in laneMarked
           /\ laneFlight[k] \in laneMarked
<1>1. laneFlight \in Seq(LaneReceivers)
  BY DEF LaneRanges
<1>2. /\ RemoveAt(laneFlight, k) \in Seq(LaneReceivers)
      /\ Len(RemoveAt(laneFlight, k)) = Len(laneFlight) - 1
      /\ \A i \in 1 .. Len(laneFlight) - 1 :
            \E j \in 1 .. Len(laneFlight) : RemoveAt(laneFlight, k)[i] = laneFlight[j]
  BY <1>1, RemoveAtFacts
<1> QED
  BY <1>2 DEF LaneRanges

\* More acknowledgements count at least as much.
LEMMA MoreAcks ==
    ASSUME laneAcks' \subseteq LaneReceivers, laneAcks \subseteq laneAcks'
    PROVE  /\ Cardinality(laneAcks) \in Nat /\ Cardinality(laneAcks') \in Nat
           /\ Cardinality(laneAcks) <= Cardinality(laneAcks')
<1>1. IsFiniteSet(laneAcks')
  BY LaneSizes, SubsetCount
<1> QED
  BY <1>1, SubsetCount

LEMMA LaneRangesStep == LaneRanges /\ [LaneNext]_laneVars => LaneRanges'
<1> SUFFICES ASSUME LaneRanges, [LaneNext]_laneVars PROVE LaneRanges'
  OBVIOUS
<1>1. CASE UNCHANGED laneVars
  BY <1>1 DEF LaneRanges, laneVars, ackVars, LaneThreshold
<1>2. ASSUME NEW r \in LaneReceivers, SendOffer(r) PROVE LaneRanges'
  BY <1>2 DEF LaneRanges, SendOffer, OfferQueued, ackVars, LanePhases, LaneThreshold
<1>3. ASSUME NEW r \in LaneReceivers, Acknowledge(r) PROVE LaneRanges'
  <2>1. r \in laneMarked /\ laneFlight' = Append(laneFlight, r)
    BY <1>3 DEF Acknowledge, LaneRanges
  <2>2. laneFlight' \in Seq(LaneReceivers)
        /\ \A i \in 1 .. Len(laneFlight') : laneFlight'[i] \in laneMarked
    BY <2>1 DEF LaneRanges
  <2>3. /\ laneAcked' \subseteq LaneReceivers /\ laneRepeats' \in Nat
        /\ laneQueue' \subseteq laneQueue
    BY <1>3 DEF Acknowledge, LaneRanges
  <2> QED
    BY <1>3, <2>2, <2>3 DEF LaneRanges, Acknowledge, LaneThreshold
<1>4. CASE SendsDone
  BY <1>4 DEF LaneRanges, SendsDone, ackVars, LanePhases, LaneThreshold
<1>5. CASE TakeAck
  <2>1. laneBuffer \in Seq(LaneReceivers) /\ laneBuffer # <<>>
    BY <1>5 DEF LaneRanges, TakeAck, ackVars
  <2>2. /\ Tail(laneBuffer) \in Seq(LaneReceivers) /\ Head(laneBuffer) = laneBuffer[1]
        /\ Len(laneBuffer) \in Nat /\ Len(laneBuffer) >= 1
        /\ Len(Tail(laneBuffer)) = Len(laneBuffer) - 1
        /\ \A i \in 1 .. Len(laneBuffer) - 1 : Tail(laneBuffer)[i] = laneBuffer[i + 1]
    BY <2>1, TailFacts
  <2>3. Head(laneBuffer) \in laneMarked
    BY <2>2 DEF LaneRanges
  <2>4. /\ laneBuffer' \in Seq(LaneReceivers)
        /\ \A i \in 1 .. Len(laneBuffer') : laneBuffer'[i] \in laneMarked
    BY <1>5, <2>2 DEF LaneRanges, TakeAck, ackVars
  <2>5. laneAcks' \subseteq laneMarked /\ laneAcks \subseteq laneAcks' /\ laneMarked \subseteq LaneReceivers
    BY <1>5, <2>3 DEF LaneRanges, TakeAck, ackVars
  <2>6. /\ Cardinality(laneAcks) \in Nat /\ Cardinality(laneAcks') \in Nat
        /\ Cardinality(laneAcks) <= Cardinality(laneAcks')
    BY <2>5, MoreAcks
  <2>7. /\ lanePhase' \in LanePhases
        /\ lanePhase' = "grace" => Cardinality(laneAcks') >= RequiredAcks
        /\ lanePhase' = "assembled" => Cardinality(laneAcks') >= LaneThreshold
    <3>1. lanePhase \in {"waiting", "grace"}
      BY <1>5 DEF TakeAck
    <3>2. lanePhase = "grace" => Cardinality(laneAcks') >= RequiredAcks
      BY <2>6, LaneSizes DEF LaneRanges
    <3>3. CASE laneAcks' = LaneReceivers
      <4>1. lanePhase' = "assembled"
        BY <1>5, <3>3 DEF TakeAck
      <4> QED
        BY <3>3, <4>1, LaneSizes DEF LanePhases
    <3>4. CASE laneAcks' # LaneReceivers /\ Cardinality(laneAcks') >= RequiredAcks
      <4>1. lanePhase' = "grace"
        BY <1>5, <3>4 DEF TakeAck
      <4> QED
        BY <3>4, <4>1 DEF LanePhases
    <3>5. CASE laneAcks' # LaneReceivers /\ ~ (Cardinality(laneAcks') >= RequiredAcks)
      <4>1. lanePhase' = lanePhase
        BY <1>5, <3>5 DEF TakeAck
      <4> QED
        BY <3>1, <3>2, <4>1 DEF LanePhases
    <3> QED
      BY <3>3, <3>4, <3>5
  <2> QED
    BY <1>5, <2>4, <2>5, <2>7 DEF LaneRanges, TakeAck, ackVars
<1>6. CASE AckGraceEnds
  <2>1. Cardinality(laneAcks) >= LaneThreshold
    <3>1. IsFiniteSet(laneAcks)
      BY LaneSizes, SubsetCount DEF LaneRanges
    <3>2. Cardinality(laneAcks) \in Nat
      BY <3>1, FS_CardinalityType
    <3> QED
      BY <1>6, <3>2, LaneSizes DEF LaneRanges, AckGraceEnds, ackVars
  <2> QED
    BY <1>6, <2>1 DEF LaneRanges, AckGraceEnds, ackVars, LanePhases, LaneThreshold
<1>7. ASSUME NEW k \in 1 .. Len(laneFlight), AckArrives(k) PROVE LaneRanges'
  <2>1. /\ RemoveAt(laneFlight, k) \in Seq(LaneReceivers)
        /\ Len(RemoveAt(laneFlight, k)) = Len(laneFlight) - 1
        /\ \A i \in 1 .. Len(laneFlight) - 1 : RemoveAt(laneFlight, k)[i] \in laneMarked
        /\ laneFlight[k] \in laneMarked
    BY FlightFacts
  <2>2. laneBuffer' = laneBuffer \/ laneBuffer' = Append(laneBuffer, laneFlight[k])
    BY <1>7 DEF AckArrives
  <2>3. /\ laneBuffer' \in Seq(LaneReceivers)
        /\ \A i \in 1 .. Len(laneBuffer') : laneBuffer'[i] \in laneMarked
    <3>1. laneFlight[k] \in LaneReceivers /\ laneBuffer \in Seq(LaneReceivers)
      BY <2>1 DEF LaneRanges
    <3>2. CASE laneBuffer' = laneBuffer
      BY <3>2 DEF LaneRanges
    <3>3. CASE laneBuffer' = Append(laneBuffer, laneFlight[k])
      <4>1. /\ laneBuffer' \in Seq(LaneReceivers) /\ Len(laneBuffer') = Len(laneBuffer) + 1
            /\ Len(laneBuffer) \in Nat
            /\ \A i \in 1 .. Len(laneBuffer) : laneBuffer'[i] = laneBuffer[i]
            /\ laneBuffer'[Len(laneBuffer) + 1] = laneFlight[k]
        BY <3>1, <3>3
      <4>2. \A i \in 1 .. Len(laneBuffer') : i \in 1 .. Len(laneBuffer) \/ i = Len(laneBuffer) + 1
        BY <4>1
      <4> QED
        BY <2>1, <4>1, <4>2 DEF LaneRanges
    <3> QED
      BY <2>2, <3>2, <3>3
  <2> QED
    BY <1>7, <2>1, <2>3 DEF LaneRanges, AckArrives, ackVars, LaneThreshold
<1> QED
  BY <1>1, <1>2, <1>3, <1>4, <1>5, <1>6, <1>7 DEF LaneNext

\* The numbers that are counted.
LEMMA AckNumbers ==
    ASSUME LaneRanges
    PROVE  /\ IsFiniteSet(laneAcked) /\ Cardinality(laneAcked) \in Nat
           /\ Cardinality(laneAcked) <= LaneRoom /\ LaneRoom \in Nat
           /\ IsFiniteSet(laneDropped) /\ Cardinality(laneDropped) \in Nat
           /\ laneRepeats \in Nat
           /\ Len(laneFlight) \in Nat /\ Len(laneBuffer) \in Nat
<1>1. laneAcked \subseteq LaneReceivers /\ laneDropped \subseteq LaneReceivers
  BY DEF LaneRanges
<1>2. /\ IsFiniteSet(laneAcked) /\ Cardinality(laneAcked) \in Nat
      /\ Cardinality(laneAcked) <= Cardinality(LaneReceivers)
  BY <1>1, LaneSizes, SubsetCount
<1>3. IsFiniteSet(laneDropped) /\ Cardinality(laneDropped) \in Nat
  BY <1>1, LaneSizes, SubsetCount
<1> QED
  BY <1>2, <1>3, LaneSizes DEF LaneRoom, LaneRanges

LEMMA AcksCountedStep ==
    ASSUME LaneRanges, LaneRanges', AcksCounted, [LaneNext]_laneVars
    PROVE  AcksCounted'
<1>1. CASE UNCHANGED laneVars
  BY <1>1 DEF AcksCounted, NoneCrowdedOut, laneVars, ackVars
<1>2. ASSUME NEW r \in LaneReceivers, SendOffer(r) PROVE AcksCounted'
  BY <1>2 DEF SendOffer, AcksCounted, NoneCrowdedOut, ackVars
<1>3. ASSUME NEW r \in LaneReceivers, Acknowledge(r) PROVE AcksCounted'
  <2>1. /\ Len(laneFlight') = Len(laneFlight) + 1
        /\ laneBuffer' = laneBuffer /\ laneDropped' = laneDropped
        /\ laneAcked' = laneAcked \cup {r}
        /\ laneRepeats' = IF r \in laneAcked THEN laneRepeats + 1 ELSE laneRepeats
    BY <1>3 DEF Acknowledge, LaneRanges
  <2>2. CASE r \in laneAcked
    <3>1. laneAcked' = laneAcked /\ laneRepeats' = laneRepeats + 1
      BY <2>1, <2>2
    <3>2. /\ Len(laneFlight) + Len(laneBuffer) + Cardinality(laneDropped)
               <= Cardinality(laneAcked) + laneRepeats
          /\ Cardinality(laneDropped) <= laneRepeats
      BY DEF AcksCounted, NoneCrowdedOut
    <3>3. /\ Len(laneFlight) + 1 + Len(laneBuffer) + Cardinality(laneDropped)
               <= Cardinality(laneAcked) + (laneRepeats + 1)
          /\ Cardinality(laneDropped) <= laneRepeats + 1
      BY <3>2, AckNumbers
    <3> QED
      BY <2>1, <3>1, <3>3 DEF AcksCounted, NoneCrowdedOut
  <2>3. CASE r \notin laneAcked
    <3>1. Cardinality(laneAcked') = Cardinality(laneAcked) + 1
      BY <2>1, <2>3, AckNumbers, FS_AddElement
    <3> QED
      BY <2>1, <2>3, <3>1, AckNumbers DEF AcksCounted, NoneCrowdedOut
  <2> QED
    BY <2>2, <2>3
<1>4. CASE SendsDone \/ AckGraceEnds
  BY <1>4 DEF SendsDone, AckGraceEnds, AcksCounted, NoneCrowdedOut, ackVars
<1>5. CASE TakeAck
  <2>1. /\ Len(laneBuffer') = Len(laneBuffer) - 1
        /\ UNCHANGED <<laneFlight, laneDropped, laneAcked, laneRepeats>>
    BY <1>5 DEF TakeAck, LaneRanges, ackVars
  <2> QED
    BY <2>1, AckNumbers DEF AcksCounted, NoneCrowdedOut
<1>6. ASSUME NEW k \in 1 .. Len(laneFlight), AckArrives(k) PROVE AcksCounted'
  <2>1. /\ Len(laneFlight') = Len(laneFlight) - 1
        /\ UNCHANGED <<laneAcked, laneRepeats>>
    BY <1>6, FlightFacts DEF AckArrives, ackVars
  <2>2. CASE UNCHANGED <<laneBuffer, laneDropped>>
    BY <2>1, <2>2, AckNumbers DEF AcksCounted, NoneCrowdedOut
  <2>3. CASE laneBuffer' = Append(laneBuffer, laneFlight[k]) /\ UNCHANGED laneDropped
    <3>1. laneFlight[k] \in LaneReceivers /\ laneBuffer \in Seq(LaneReceivers)
      BY FlightFacts DEF LaneRanges
    <3>2. Len(laneBuffer') = Len(laneBuffer) + 1
      BY <2>3, <3>1
    <3> QED
      BY <2>1, <2>3, <3>2, AckNumbers DEF AcksCounted, NoneCrowdedOut
\* The channel is full: what it holds and what was dropped has been sent.
  <2>4. CASE /\ ~ (Len(laneBuffer) < LaneRoom) /\ UNCHANGED laneBuffer
             /\ laneDropped' = laneDropped \cup {laneFlight[k]}
    <3>1. /\ Cardinality(laneDropped') <= Cardinality(laneDropped) + 1
          /\ Cardinality(laneDropped') \in Nat
      <4>1. CASE laneFlight[k] \in laneDropped
        <5>1. laneDropped' = laneDropped
          BY <2>4, <4>1
        <5> QED
          BY <5>1, AckNumbers
      <4>2. CASE laneFlight[k] \notin laneDropped
        <5>1. Cardinality(laneDropped') = Cardinality(laneDropped) + 1
          BY <2>4, <4>2, AckNumbers, FS_AddElement
        <5> QED
          BY <5>1, AckNumbers
      <4> QED
        BY <4>1, <4>2
    <3>2. Len(laneFlight') + Len(laneBuffer') + Cardinality(laneDropped')
            <= Cardinality(laneAcked) + laneRepeats
      BY <2>1, <2>4, <3>1, AckNumbers DEF AcksCounted
    <3>3. Len(laneFlight') \in Nat
      BY DEF LaneRanges
    <3>4. Cardinality(laneDropped') <= laneRepeats
      BY <2>4, <3>1, <3>2, <3>3, AckNumbers
    <3> QED
      BY <2>1, <3>2, <3>4 DEF AcksCounted, NoneCrowdedOut
  <2> QED
    BY <1>6, <2>2, <2>3, <2>4 DEF AckArrives
<1> QED
  BY <1>1, <1>2, <1>3, <1>4, <1>5, <1>6 DEF LaneNext

LEMMA LaneTypeHolds == LaneRanges => LaneTypeOK
BY DEF LaneRanges, LaneTypeOK, LanePhases

-----------------------------------------------------------------------------
(* That a dealer gets to its leaf.                                         *)

Within(s, r) == \E i \in 1 .. Len(s) : s[i] = r

\* The acknowledgement of r is to come, under way, waits, or was taken or dropped.
AckOnItsWay(r) ==
    r \in laneQueue \cup laneAcks \cup laneDropped \/ Within(laneFlight, r) \/ Within(laneBuffer, r)

\* Who can be reached has the offer when the sends are done, and until the dealer
\* ends no acknowledgement of a correct receiver goes astray.
AcksComing ==
    /\ laneTried \subseteq laneDown \cup laneMarked
    /\ lanePhase # "sending" => laneTried = LaneReceivers
    /\ lanePhase = "sending" => laneAcks = {}
    /\ lanePhase = "waiting" => Cardinality(laneAcks) < RequiredAcks
    /\ lanePhase \notin {"assembled", "failed"} => \A r \in laneMarked \ LaneFaulty : AckOnItsWay(r)

\* What is in a sequence, and in a longer or shorter one.
LEMMA WithinFacts ==
    ASSUME NEW S, NEW s \in Seq(S), NEW r
    PROVE  /\ \A x \in S : Within(Append(s, x), x) /\ (Within(s, r) => Within(Append(s, x), r))
           /\ s # <<>> /\ Within(s, r) => r = Head(s) \/ Within(Tail(s), r)
           /\ \A k \in 1 .. Len(s) : Within(s, r) => r = s[k] \/ Within(RemoveAt(s, k), r)
<1>1. ASSUME NEW x \in S
      PROVE  Within(Append(s, x), x) /\ (Within(s, r) => Within(Append(s, x), r))
  <2>1. /\ Len(Append(s, x)) = Len(s) + 1 /\ Len(s) \in Nat
        /\ \A i \in 1 .. Len(s) : Append(s, x)[i] = s[i]
        /\ Append(s, x)[Len(s) + 1] = x
    OBVIOUS
  <2>2. Len(s) + 1 \in 1 .. Len(s) + 1 /\ 1 .. Len(s) \subseteq 1 .. Len(s) + 1
    BY <2>1
  <2> QED
    BY <2>1, <2>2 DEF Within
<1>2. ASSUME s # <<>>, NEW i \in 1 .. Len(s), s[i] = r PROVE r = Head(s) \/ Within(Tail(s), r)
  <2>1. /\ Head(s) = s[1] /\ Len(s) \in Nat /\ Len(Tail(s)) = Len(s) - 1
        /\ \A j \in 1 .. Len(s) - 1 : Tail(s)[j] = s[j + 1]
    BY <1>2, TailFacts
  <2>2. i = 1 \/ (i - 1 \in 1 .. Len(s) - 1 /\ (i - 1) + 1 = i)
    BY <2>1
  <2> QED
    BY <1>2, <2>1, <2>2 DEF Within
<1>3. ASSUME NEW k \in 1 .. Len(s), NEW i \in 1 .. Len(s), s[i] = r
      PROVE  r = s[k] \/ Within(RemoveAt(s, k), r)
  <2>1. /\ Len(RemoveAt(s, k)) = Len(s) - 1
        /\ i # k => \E j \in 1 .. Len(s) - 1 : RemoveAt(s, k)[j] = s[i]
    BY RemoveAtFacts
  <2> QED
    BY <1>3, <2>1 DEF Within
<1> QED
  BY <1>1, <1>2, <1>3 DEF Within

LEMMA AcksComingInit == LaneInit => AcksComing
BY DEF LaneInit, AcksComing

LEMMA AcksComingStep ==
    LaneRanges /\ LaneRanges' /\ AcksComing /\ [LaneNext]_laneVars => AcksComing'
<1> SUFFICES ASSUME LaneRanges, LaneRanges', AcksComing, [LaneNext]_laneVars PROVE AcksComing'
  OBVIOUS
<1>0. /\ laneFlight \in Seq(LaneReceivers) /\ laneBuffer \in Seq(LaneReceivers)
      /\ laneMarked \subseteq LaneReceivers
  BY DEF LaneRanges
<1>1. CASE UNCHANGED laneVars
  BY <1>1 DEF AcksComing, laneVars, AckOnItsWay
<1>2. ASSUME NEW r \in LaneReceivers, SendOffer(r) PROVE AcksComing'
  <2>1. /\ UNCHANGED <<laneDown, laneFlight, laneBuffer, laneDropped, laneAcks, lanePhase>>
        /\ lanePhase = "sending" /\ laneTried' = laneTried \cup {r}
        /\ laneMarked \subseteq laneMarked' /\ laneQueue \subseteq laneQueue'
        /\ r \in laneDown \cup laneMarked'
        /\ \A s \in laneMarked' \ LaneFaulty : s \in laneMarked \/ s \in laneQueue'
    BY <1>2 DEF SendOffer, OfferQueued
  <2> QED
    BY <2>1 DEF AcksComing, AckOnItsWay
<1>3. ASSUME NEW r \in LaneReceivers, Acknowledge(r) PROVE AcksComing'
  <2>1. /\ UNCHANGED <<laneDown, laneTried, laneMarked, laneBuffer, laneDropped, laneAcks, lanePhase>>
        /\ laneFlight' = Append(laneFlight, r) /\ laneQueue \subseteq laneQueue' \cup {r}
    BY <1>3 DEF Acknowledge
  <2>2. Within(laneFlight', r) /\ \A s : Within(laneFlight, s) => Within(laneFlight', s)
    BY <1>0, <2>1, WithinFacts
  <2> QED
    BY <2>1, <2>2 DEF AcksComing, AckOnItsWay
<1>4. CASE SendsDone
  <2>1. RequiredAcks > 0 /\ Cardinality({}) = 0
    BY LaneAssumption, LaneSizes, FS_EmptySet DEF LaneThreshold
  <2> QED
    BY <1>4, <2>1 DEF SendsDone, AcksComing, AckOnItsWay
<1>5. CASE AckGraceEnds
  BY <1>5 DEF AckGraceEnds, AcksComing
<1>6. CASE TakeAck
  <2>1. /\ UNCHANGED <<laneDown, laneTried, laneQueue, laneMarked, laneFlight, laneDropped>>
        /\ lanePhase \in {"waiting", "grace"} /\ laneBuffer # <<>>
        /\ laneAcks' = laneAcks \cup {Head(laneBuffer)} /\ laneBuffer' = Tail(laneBuffer)
    BY <1>6 DEF TakeAck
  <2>2. \A s : Within(laneBuffer, s) => s \in laneAcks' \/ Within(laneBuffer', s)
    BY <1>0, <2>1, WithinFacts
  <2>3. /\ lanePhase' # "sending"
        /\ lanePhase' = "waiting" => Cardinality(laneAcks') < RequiredAcks
    <3>1. laneAcks' \subseteq LaneReceivers
      BY DEF LaneRanges
    <3>2. Cardinality(laneAcks') \in Nat /\ RequiredAcks \in Int
      BY <3>1, LaneSizes, SubsetCount
    <3>3. lanePhase' = IF laneAcks' = LaneReceivers THEN "assembled"
                       ELSE IF Cardinality(laneAcks') >= RequiredAcks THEN "grace" ELSE lanePhase
      BY <1>6 DEF TakeAck
    <3> QED
      BY <2>1, <3>2, <3>3
  <2> QED
    BY <2>1, <2>2, <2>3 DEF AcksComing, AckOnItsWay
<1>7. ASSUME NEW k \in 1 .. Len(laneFlight), AckArrives(k) PROVE AcksComing'
  <2>1. /\ UNCHANGED <<laneDown, laneTried, laneQueue, laneMarked, laneAcks, lanePhase>>
        /\ laneFlight' = RemoveAt(laneFlight, k)
    BY <1>7 DEF AckArrives
  <2>2. \A s : Within(laneFlight, s) => s = laneFlight[k] \/ Within(laneFlight', s)
    BY <1>0, <2>1, WithinFacts
  <2>3. lanePhase \notin {"assembled", "failed"} =>
           /\ laneDropped \subseteq laneDropped' /\ \A s : Within(laneBuffer, s) => Within(laneBuffer', s)
           /\ laneFlight[k] \in laneDropped' \/ Within(laneBuffer', laneFlight[k])
    <3>1. laneFlight[k] \in LaneReceivers
      BY <1>0
    <3>2. /\ Within(Append(laneBuffer, laneFlight[k]), laneFlight[k])
          /\ \A s : Within(laneBuffer, s) => Within(Append(laneBuffer, laneFlight[k]), s)
      BY <1>0, <3>1, WithinFacts
    <3> QED
      BY <1>7, <3>2 DEF AckArrives, LaneRegistered
  <2> QED
    BY <2>1, <2>2, <2>3 DEF AcksComing, AckOnItsWay
<1> QED
  BY <1>1, <1>2, <1>3, <1>4, <1>5, <1>6, <1>7 DEF LaneNext

\* At rest a dealer that still waits has taken the acknowledgement of every correct
\* receiver it could reach, but for those that were crowded out.
LEMMA LanesEndHolds == LaneRanges /\ AcksComing => LanesEnd
<1> DEFINE R == LaneReceivers \ (laneDown \cup LaneFaulty \cup laneDropped)
<1> SUFFICES ASSUME LaneRanges, AcksComing, LaneAtRest,
                    lanePhase \notin {"assembled", "failed"}
             PROVE  Cardinality(R) < RequiredAcks
  BY DEF LanesEnd
<1>1. lanePhase = "waiting" /\ laneQueue = {} /\ laneFlight = <<>> /\ laneBuffer = <<>>
  BY DEF LaneAtRest, LaneRanges, LanePhases
<1>2. \A r : ~Within(<<>>, r)
  BY DEF Within
<1>3. R \subseteq laneAcks
  BY <1>1, <1>2 DEF AcksComing, AckOnItsWay
<1>4. /\ Cardinality(R) \in Nat /\ Cardinality(laneAcks) \in Nat
      /\ Cardinality(R) <= Cardinality(laneAcks)
  <2>1. IsFiniteSet(laneAcks)
    BY LaneSizes, SubsetCount DEF LaneRanges
  <2> QED
    BY <1>3, <2>1, SubsetCount
<1> QED
  BY <1>1, <1>4, LaneSizes DEF AcksComing

-----------------------------------------------------------------------------
(* From component certificates to a certified aggregate (Materialize).     *)

\* One launch, one pool: an attempt is of an enabled member and of a pool it
\* has seen, and a header is pending only in an attempt.
AttemptsSeen ==
    /\ DOMAIN mtDesc = Correct /\ DOMAIN mtPublished = Correct /\ DOMAIN mtAccepted = Correct
    /\ DOMAIN mtStage = Correct /\ DOMAIN mtSeen = Correct /\ DOMAIN mtFlight = Correct
    /\ DOMAIN mtPending = Correct
    /\ mtCertified \subseteq Old
    /\ \A p \in Correct :
         /\ mtDesc[p] \subseteq mtCertified /\ mtPublished[p] \subseteq mtAccepted[p]
         /\ mtFlight[p] # None => mtFlight[p] \in mtSeen[p] /\ mtStage[p] = "enabled"
         /\ mtPending[p] # None => mtFlight[p] # None
         /\ mtStage[p] \in {"collect", "pool", "grace", "extended", "enabled"}

Persisted(h) == {q \in Correct : h \in mtPersisted[q]}
Stored(h) == Cardinality(Persisted(h)) >= Cardinality(Old) - 2 * F

\* Who has signed a header, or collects signatures for it, has its shard on
\* disk, and what is certified is stored.
SharesOnDisk ==
    /\ DOMAIN mtPersisted = Correct /\ DOMAIN mtCerts = Correct /\ DOMAIN mtPending = Correct
    /\ \A a \in mtAnswers : a[2] \in Correct => a[3] \in mtPersisted[a[2]]
    /\ \A p \in Correct : mtPending[p] # None => mtPending[p] \in mtPersisted[p]
    /\ \A p \in Correct : \A h \in mtCerts[p] : Stored(h)
    /\ \A m \in mtNotices : Stored(m[2])

\* What is signed adds up valid leaves.
SignedLeaves == mtValid \in LeafChoices /\ SignedValid

LEMMA MaterializeInitInv == MaterializeInit => AttemptsSeen /\ SharesOnDisk /\ SignedLeaves
BY MaterializeAssumption
   DEF MaterializeInit, AttemptsSeen, SharesOnDisk, SignedLeaves, SignedValid

LEMMA AttemptsSeenPool ==
    ASSUME AttemptsSeen, NEW p \in Correct, PoolStep(p)
    PROVE  AttemptsSeen'
<1>1. ASSUME NEW d \in Old, CertArrives(p, d) PROVE AttemptsSeen'
  BY <1>1 DEF AttemptsSeen, CertArrives, Publish, loopVars
<1>2. CASE OwnCert(p)
  BY <1>2, OldSizes DEF AttemptsSeen, OwnCert, loopVars
<1>3. CASE OwnPublish(p)
  BY <1>3 DEF AttemptsSeen, OwnPublish, Publish, loopVars
<1>4. ASSUME NEW q \in Old \ {p}, NEW pool \in Pools, ReadyArrives(p, q, pool) PROVE AttemptsSeen'
  <2>1. /\ mtDesc' = [mtDesc EXCEPT ![p] = mtDesc[p] \cup pool]
        /\ pool \subseteq mtCertified
        /\ UNCHANGED <<mtCertified, loopVars, mtPending>>
    BY <1>4 DEF ReadyArrives
  <2>2. PICK new, old : /\ mtPublished' = [mtPublished EXCEPT ![p] = @ \cup new]
                        /\ mtAccepted' = [mtAccepted EXCEPT ![p] = @ \cup old]
                        /\ new \subseteq old
    <3> DEFINE met == PoolsOnTheWay(mtDesc[p], pool)
               own == CanonicalPool(mtDesc[p] \cup pool) = pool
    <3>1. /\ mtPublished' = [mtPublished EXCEPT ![p] = @ \cup (met \ mtPublished[p])]
          /\ mtAccepted' = [mtAccepted EXCEPT ![p] = @ \cup met \cup {r \in {pool} : own}]
      BY <1>4 DEF ReadyArrives
    <3> DEFINE new == met \ mtPublished[p]
               old == met \cup {r \in {pool} : own}
    <3>2. new \subseteq old
      OBVIOUS
    <3> HIDE DEF met, own
    <3>3. mtAccepted' = [mtAccepted EXCEPT ![p] = @ \cup old]
      BY <3>1
    <3> HIDE DEF new
    <3>4. mtPublished' = [mtPublished EXCEPT ![p] = @ \cup new]
      BY <3>1 DEF new
    <3> HIDE DEF old
    <3> QED
      BY <3>2, <3>3, <3>4
  <2> QED
    BY <2>1, <2>2 DEF AttemptsSeen, loopVars
<1> QED
  BY <1>1, <1>2, <1>3, <1>4 DEF PoolStep

LEMMA AttemptsSeenLoop ==
    ASSUME AttemptsSeen, NEW p \in Correct, LoopStep(p)
    PROVE  AttemptsSeen'
<1>1. CASE CollectPool(p)
  BY <1>1 DEF AttemptsSeen, CollectPool, poolVars
<1>2. CASE PoolGraceEnds(p)
  BY <1>2 DEF AttemptsSeen, PoolGraceEnds, Launch, poolVars
<1>3. CASE PrimaryGraceEnds(p)
  BY <1>3 DEF AttemptsSeen, PrimaryGraceEnds, Launch, poolVars
<1>4. CASE TakePool(p)
  BY <1>4 DEF AttemptsSeen, TakePool, Launch, poolVars
<1>5. CASE BuildStale(p)
  BY <1>5 DEF AttemptsSeen, BuildStale, Launch, poolVars
<1>6. CASE Build(p)
  BY <1>6 DEF AttemptsSeen, Build, poolVars, loopVars
<1>7. CASE AttemptEnds(p)
  BY <1>7 DEF AttemptsSeen, AttemptEnds, poolVars, loopVars
<1>8. ASSUME NEW h \in Headers, TakeCertified(p, h) PROVE AttemptsSeen'
  BY <1>8 DEF AttemptsSeen, TakeCertified, poolVars, loopVars
<1> QED
  BY <1>1, <1>2, <1>3, <1>4, <1>5, <1>6, <1>7, <1>8 DEF LoopStep

LEMMA AttemptsSeenStep ==
    AttemptsSeen /\ [MaterializeNext]_materializeVars => AttemptsSeen'
<1> SUFFICES ASSUME AttemptsSeen, [MaterializeNext]_materializeVars PROVE AttemptsSeen'
  OBVIOUS
<1>1. CASE UNCHANGED materializeVars
  BY <1>1 DEF AttemptsSeen, materializeVars, poolVars, loopVars
<1>2. ASSUME NEW p \in Correct, OfferStep(p) PROVE AttemptsSeen'
  <2>1. UNCHANGED <<mtCertified, poolVars, loopVars, mtPending>>
    BY ZenonT(40), <1>2 DEF OfferStep, OfferArrives, OfferVerified, CertificateArrives
  <2> QED
    BY <2>1 DEF AttemptsSeen, poolVars, loopVars
<1>3. ASSUME NEW d \in Faulty, FaultyCert(d) PROVE AttemptsSeen'
  BY <1>3, OldSizes DEF AttemptsSeen, FaultyCert, poolVars, loopVars
<1> QED
  BY <1>1, <1>2, <1>3, AttemptsSeenPool, AttemptsSeenLoop DEF MaterializeNext

-----------------------------------------------------------------------------
\* Shards on disk stay there, so what is stored stays stored.
LEMMA StoredStays ==
    ASSUME NEW h, \A q \in Correct : mtPersisted[q] \subseteq mtPersisted'[q], Stored(h)
    PROVE  Stored(h)'
<1>1. Persisted(h) \subseteq Persisted(h)' /\ Persisted(h)' \subseteq Correct
  BY DEF Persisted
<1>2. /\ Cardinality(Persisted(h)) \in Nat /\ Cardinality(Persisted(h)') \in Nat
      /\ Cardinality(Persisted(h)) <= Cardinality(Persisted(h)')
  BY <1>1, MoreSigners
<1> QED
  BY <1>2, OldSizes DEF Stored

\* n-f shares, at most f of them of faulty members, are n-2f shards on disk.
LEMMA EnoughStored ==
    ASSUME NEW h, NEW S \in SUBSET Correct, \A q \in S : h \in mtPersisted[q],
           EnoughARCShares(S \cup Faulty)
    PROVE  Stored(h)
<1>1. S \in SUBSET (Old \ Faulty) /\ Cardinality(S \cup Faulty) >= ControlThreshold
  BY DEF Correct, EnoughARCShares
<1>2. /\ IsFiniteSet(Old) /\ Faulty \subseteq Old /\ F \in Nat /\ Cardinality(Faulty) <= F
      /\ ControlThreshold \in Int
  BY OldSizes
<1>3. Cardinality(S) \in Nat /\ Cardinality(S) >= ControlThreshold - F
  BY <1>1, <1>2, CorrectSigners
<1>4. S \subseteq Persisted(h) /\ Persisted(h) \subseteq Correct
  BY DEF Persisted
<1>5. Cardinality(S) <= Cardinality(Persisted(h)) /\ Cardinality(Persisted(h)) \in Nat
  BY <1>4, MoreSigners
<1> QED
  BY <1>3, <1>5, OldSizes DEF Stored, ControlThreshold

LEMMA SharesOnDiskQuiet ==
    ASSUME SharesOnDisk, UNCHANGED <<mtPending, mtPersisted, mtAnswers, mtCerts, mtNotices>>
    PROVE  SharesOnDisk'
BY DEF SharesOnDisk, Stored, Persisted

LEMMA BuildOnDisk ==
    ASSUME SharesOnDisk, NEW p \in Correct, Build(p)
    PROVE  SharesOnDisk'
<1>1. PICK h : /\ mtPending' = [mtPending EXCEPT ![p] = h]
               /\ mtPersisted' = [mtPersisted EXCEPT ![p] = @ \cup {h}]
               /\ UNCHANGED <<mtAnswers, mtCerts, mtNotices>>
  BY DEF Build, certVars
<1>2. \A q \in Correct : mtPersisted[q] \subseteq mtPersisted'[q]
  BY <1>1 DEF SharesOnDisk
<1>3. \A k : Stored(k) => Stored(k)'
  BY <1>2, StoredStays
<1> QED
  BY <1>1, <1>2, <1>3 DEF SharesOnDisk

\* A certificate that the collector puts together is of stored shards.
LEMMA AttemptEndsOnDisk ==
    ASSUME SharesOnDisk, NEW p \in Correct, AttemptEnds(p)
    PROVE  SharesOnDisk'
<1> DEFINE h == mtPending[p]
           S == {p} \cup {q \in Correct : <<p, q, h>> \in mtAnswers}
<1>1. Stored(h)
  <2>1. CASE h \in mtCerts[p]
    BY <2>1 DEF SharesOnDisk
  <2>2. CASE h \notin mtCerts[p]
    <3>1. EnoughARCShares(SharesOf(p, h)) /\ h # None
      BY <2>2 DEF AttemptEnds
    <3>2. SharesOf(p, h) = S \cup Faulty /\ S \in SUBSET Correct
      BY DEF SharesOf
    <3>3. ASSUME NEW q \in S PROVE h \in mtPersisted[q]
      <4>1. CASE q = p
        BY <3>1, <4>1 DEF SharesOnDisk
      <4>2. CASE q # p
        <5>1. q \in Correct /\ <<p, q, h>> \in mtAnswers
          BY <4>2
        <5> QED
          BY <5>1 DEF SharesOnDisk
      <4> QED
        BY <4>1, <4>2
    <3> HIDE DEF S, h
    <3> QED
      BY <3>1, <3>2, <3>3, EnoughStored
  <2> QED
    BY <2>1, <2>2
<1>2. \A k : Stored(k)' = Stored(k)
  BY DEF AttemptEnds, signVars, Stored, Persisted
<1>3. /\ mtCerts' = [mtCerts EXCEPT ![p] = @ \cup {h}]
      /\ \A m \in mtNotices' : m \in mtNotices \/ m[2] = h
      /\ UNCHANGED <<mtPending, mtPersisted, mtAnswers>>
  BY DEF AttemptEnds, signVars
<1> HIDE DEF h
<1> QED
  BY <1>1, <1>2, <1>3 DEF SharesOnDisk

LEMMA OfferVerifiedOnDisk ==
    ASSUME SharesOnDisk, NEW p \in Correct, NEW q, NEW pool, NEW h, OfferVerified(p, q, pool, h)
    PROVE  SharesOnDisk'
<1>1. CASE OfferMatches(pool, h)
  <2>1. /\ mtPersisted' = [mtPersisted EXCEPT ![p] = @ \cup {h}]
        /\ mtAnswers' = mtAnswers \cup {<<q, p, h>>}
        /\ UNCHANGED <<mtPending, mtCerts, mtNotices>>
    BY <1>1 DEF OfferVerified
  <2>2. \A r \in Correct : mtPersisted[r] \subseteq mtPersisted'[r]
    BY <2>1 DEF SharesOnDisk
  <2>3. \A k : Stored(k) => Stored(k)'
    BY <2>2, StoredStays
  <2>4. h \in mtPersisted'[p]
    BY <2>1 DEF SharesOnDisk
  <2>5. \A a \in mtAnswers' : a[2] \in Correct => a[3] \in mtPersisted'[a[2]]
    BY <2>1, <2>2, <2>4 DEF SharesOnDisk
  <2> QED
    BY <2>1, <2>2, <2>3, <2>5 DEF SharesOnDisk
<1>2. CASE ~ OfferMatches(pool, h)
  BY <1>2, SharesOnDiskQuiet DEF OfferVerified
<1> QED
  BY <1>1, <1>2

\* A faulty collector's certificate is of stored shards as well.
LEMMA CertificateOnDisk ==
    ASSUME SharesOnDisk, NEW p \in Correct, NEW h, CertificateArrives(p, h)
    PROVE  SharesOnDisk'
<1> DEFINE S == {q \in Correct : \E f \in Faulty : <<f, q, h>> \in mtAnswers}
<1>1. Stored(h)
  <2>1. CASE <<p, h>> \in mtNotices
    BY <2>1 DEF SharesOnDisk
  <2>2. CASE FaultyCollects(h)
    <3>1. EnoughARCShares(S \cup Faulty) /\ S \in SUBSET Correct
      <4>1. S \cup Faulty = Faulty \cup S
        OBVIOUS
      <4> QED
        BY <2>2, <4>1 DEF FaultyCollects
    <3>2. \A q \in S : h \in mtPersisted[q]
      BY DEF SharesOnDisk
    <3> HIDE DEF S
    <3> QED
      BY <3>1, <3>2, EnoughStored
  <2> QED
    BY <2>1, <2>2 DEF CertificateArrives
<1>2. \A k : Stored(k)' = Stored(k)
  BY DEF CertificateArrives, signVars, Stored, Persisted
<1> QED
  BY <1>1, <1>2 DEF SharesOnDisk, CertificateArrives, signVars

LEMMA SharesOnDiskStep ==
    SharesOnDisk /\ [MaterializeNext]_materializeVars => SharesOnDisk'
<1> SUFFICES ASSUME SharesOnDisk, [MaterializeNext]_materializeVars PROVE SharesOnDisk'
  OBVIOUS
<1>1. CASE UNCHANGED materializeVars
  BY <1>1, SharesOnDiskQuiet DEF materializeVars, signVars, certVars
<1>2. ASSUME NEW p \in Correct, PoolStep(p) PROVE SharesOnDisk'
  <2>1. UNCHANGED <<mtPending, signVars, certVars>>
    BY <1>2 DEF PoolStep, CertArrives, OwnCert, OwnPublish, ReadyArrives
  <2> QED
    BY <2>1, SharesOnDiskQuiet DEF signVars, certVars
<1>3. ASSUME NEW p \in Correct, LoopStep(p) PROVE SharesOnDisk'
  <2>1. CASE CollectPool(p) \/ PoolGraceEnds(p) \/ PrimaryGraceEnds(p) \/ TakePool(p)
             \/ BuildStale(p) \/ \E h \in Headers : TakeCertified(p, h)
    <3>1. UNCHANGED <<mtPending, signVars, certVars>>
      BY <2>1 DEF CollectPool, PoolGraceEnds, PrimaryGraceEnds, TakePool, BuildStale, TakeCertified
    <3> QED
      BY <3>1, SharesOnDiskQuiet DEF signVars, certVars
  <2> QED
    BY <1>3, <2>1, BuildOnDisk, AttemptEndsOnDisk DEF LoopStep
<1>4. ASSUME NEW p \in Correct, OfferStep(p) PROVE SharesOnDisk'
  <2>1. ASSUME NEW q \in Old \ {p}, NEW pool \in Pools, NEW h \in Headers, OfferArrives(p, q, pool, h)
        PROVE  SharesOnDisk'
    BY <2>1, SharesOnDiskQuiet DEF OfferArrives, signVars, certVars
  <2> QED
    BY <1>4, <2>1, OfferVerifiedOnDisk, CertificateOnDisk DEF OfferStep
<1>5. ASSUME NEW d \in Faulty, FaultyCert(d) PROVE SharesOnDisk'
  BY <1>5, SharesOnDiskQuiet DEF FaultyCert, signVars, certVars
<1> QED
  BY <1>1, <1>2, <1>3, <1>4, <1>5 DEF MaterializeNext

-----------------------------------------------------------------------------
\* A pool has f+1 dealers whose leaves are valid, so FirstKValid finds them.
LEMMA FirstKValidFacts ==
    ASSUME mtValid \in LeafChoices, NEW pool \in Pools
    PROVE  FirstKValid(pool) \subseteq mtValid
<1> DEFINE S == pool \ Faulty
           V == pool \cap mtValid
<1>1. pool \subseteq Old /\ Cardinality(pool) = ControlThreshold
  BY DEF Pools, kSubset
<1>2. /\ IsFiniteSet(Old) /\ Faulty \subseteq Old /\ F \in Nat /\ Cardinality(Faulty) <= F
      /\ ControlThreshold \in Int
  BY OldSizes
<1>3. S \in SUBSET (Old \ Faulty) /\ S \subseteq Correct
  BY <1>1 DEF Correct
<1>4. Cardinality(S \cup Faulty) >= ControlThreshold
  <2>1. pool \subseteq S \cup Faulty
    OBVIOUS
  <2>2. IsFiniteSet(S \cup Faulty)
    BY <1>3, MoreSigners
  <2>3. Cardinality(pool) <= Cardinality(S \cup Faulty) /\ Cardinality(S \cup Faulty) \in Nat
    BY <2>1, <2>2, SubsetCount
  <2> QED
    BY <1>1, <1>2, <2>3
<1>5. Cardinality(S) \in Nat /\ Cardinality(S) >= ControlThreshold - F
  <2> HIDE DEF S
  <2> QED
    BY <1>2, <1>3, <1>4, CorrectSigners
<1>6. S \subseteq V /\ V \subseteq Old
  BY <1>1, <1>3, MaterializeAssumption
<1>7. /\ IsFiniteSet(V) /\ Cardinality(S) <= Cardinality(V) /\ Cardinality(V) \in Nat
  <2> HIDE DEF S, V
  <2>1. IsFiniteSet(V)
    BY <1>2, <1>6, SubsetCount
  <2> QED
    BY <1>6, <2>1, SubsetCount
<1>8. ComponentCount \in Nat /\ ComponentCount <= Cardinality(V)
  BY <1>5, <1>7, OldSizes DEF ComponentCount, ControlThreshold
<1> HIDE DEF V
<1>9. V \subseteq Int
  <2>1. Old \subseteq Nat
    BY MaterializeAssumption
  <2> QED
    BY <1>6, <2>1
<1>10. \E T \in SUBSET V : Cardinality(T) = ComponentCount /\ \A x \in T, y \in V \ T : x < y
  BY <1>7, <1>8, <1>9, FirstElements
<1>11. \E T \in kSubset(ComponentCount, V) : \A x \in T, y \in V \ T : x < y
  BY <1>10 DEF kSubset
<1>12. Smallest(V, ComponentCount) \in kSubset(ComponentCount, V)
  BY <1>11 DEF Smallest
<1>13. Smallest(V, ComponentCount) \subseteq V
  BY <1>12 DEF kSubset
<1> QED
  BY <1>13 DEF FirstKValid, V

\* The valid leaves are given, and only a verified offer is signed.
LEMMA MaterializeFrames ==
    ASSUME [MaterializeNext]_materializeVars
    PROVE  /\ mtValid' = mtValid
           /\ \/ UNCHANGED mtAnswers
              \/ \E p \in Correct : \E q \in Old \ {p}, pool \in Pools, h \in Headers :
                    OfferVerified(p, q, pool, h)
<1>1. CASE UNCHANGED materializeVars
  BY <1>1 DEF materializeVars, signVars
<1>2. ASSUME NEW p \in Correct, PoolStep(p) PROVE UNCHANGED <<mtValid, mtAnswers>>
  BY <1>2 DEF PoolStep, CertArrives, OwnCert, OwnPublish, ReadyArrives, signVars
<1>3. ASSUME NEW p \in Correct, LoopStep(p) PROVE UNCHANGED <<mtValid, mtAnswers>>
  BY <1>3 DEF LoopStep, CollectPool, PoolGraceEnds, PrimaryGraceEnds, TakePool,
              BuildStale, Build, AttemptEnds, TakeCertified, signVars
<1>4. ASSUME NEW p \in Correct, OfferStep(p)
      PROVE  /\ mtValid' = mtValid
             /\ \/ UNCHANGED mtAnswers
                \/ \E q \in Old \ {p}, pool \in Pools, h \in Headers :
                      OfferVerified(p, q, pool, h)
  <2>1. ASSUME NEW q \in Old \ {p}, NEW pool \in Pools, NEW h \in Headers, OfferArrives(p, q, pool, h)
        PROVE  UNCHANGED <<mtValid, mtAnswers>>
    BY <2>1 DEF OfferArrives, signVars
  <2>2. ASSUME NEW q \in Old \ {p}, NEW pool \in Pools, NEW h \in Headers, OfferVerified(p, q, pool, h)
        PROVE  mtValid' = mtValid
    BY <2>2 DEF OfferVerified
  <2>3. ASSUME NEW h \in Headers, CertificateArrives(p, h) PROVE UNCHANGED <<mtValid, mtAnswers>>
    BY <2>3 DEF CertificateArrives, signVars
  <2> QED
    BY <1>4, <2>1, <2>2, <2>3 DEF OfferStep
<1>5. ASSUME NEW d \in Faulty, FaultyCert(d) PROVE UNCHANGED <<mtValid, mtAnswers>>
  BY <1>5 DEF FaultyCert, signVars
<1> QED
  BY <1>1, <1>2, <1>3, <1>4, <1>5 DEF MaterializeNext

LEMMA SignedLeavesStep ==
    SignedLeaves /\ [MaterializeNext]_materializeVars => SignedLeaves'
<1> SUFFICES ASSUME SignedLeaves, [MaterializeNext]_materializeVars PROVE SignedLeaves'
  OBVIOUS
<1>1. mtValid' = mtValid
  BY MaterializeFrames
<1>2. CASE UNCHANGED mtAnswers
  BY <1>1, <1>2 DEF SignedLeaves, SignedValid
<1>3. ASSUME NEW p \in Correct, NEW q, NEW pool \in Pools, NEW h, OfferVerified(p, q, pool, h)
      PROVE  SignedLeaves'
  <2>1. CASE OfferMatches(pool, h)
    <3>1. h \subseteq mtValid
      BY <2>1, FirstKValidFacts DEF OfferMatches, SignedLeaves
    <3>2. mtAnswers' = mtAnswers \cup {<<q, p, h>>}
      BY <1>3, <2>1 DEF OfferVerified
    <3> QED
      BY <1>1, <3>1, <3>2 DEF SignedLeaves, SignedValid
  <2>2. CASE ~ OfferMatches(pool, h)
    BY <1>2, <1>3, <2>2 DEF OfferVerified
  <2> QED
    BY <2>1, <2>2
<1>4. \/ UNCHANGED mtAnswers
      \/ \E p \in Correct : \E q \in Old \ {p}, pool \in Pools, h \in Headers :
            OfferVerified(p, q, pool, h)
  BY MaterializeFrames
<1> QED
  BY <1>2, <1>3, <1>4

LEMMA MaterializeTypeHolds == AttemptsSeen => MaterializeTypeOK
BY DEF AttemptsSeen, MaterializeTypeOK

LEMMA CertifiedStoredHolds == SharesOnDisk => CertifiedStored
BY DEF SharesOnDisk, CertifiedStored, Stored, Persisted

-----------------------------------------------------------------------------
\* A certified aggregate that a member has verified has been offered to its
\* loop, unless it is the member's own attempt that got the certificate.
OfferedOrTaken ==
    /\ DOMAIN mtCerts = Correct /\ DOMAIN mtCandidates = Correct
    /\ DOMAIN mtOffered = Correct /\ DOMAIN mtResult = Correct
    /\ \A p \in Correct : \A h \in mtCerts[p] \cap mtCandidates[p] :
          h \in mtOffered[p] \/ (mtResult[p] = h /\ h # None)

LEMMA OfferedQuiet ==
    ASSUME OfferedOrTaken, UNCHANGED <<mtCerts, mtCandidates, mtOffered, mtResult>>
    PROVE  OfferedOrTaken'
BY DEF OfferedOrTaken

LEMMA OfferedOrTakenStep ==
    OfferedOrTaken /\ [MaterializeNext]_materializeVars => OfferedOrTaken'
<1> SUFFICES ASSUME OfferedOrTaken, [MaterializeNext]_materializeVars PROVE OfferedOrTaken'
  OBVIOUS
<1>1. CASE UNCHANGED materializeVars
  BY <1>1, OfferedQuiet DEF materializeVars, signVars, certVars
<1>2. ASSUME NEW p \in Correct, PoolStep(p) PROVE OfferedOrTaken'
  <2>1. UNCHANGED <<signVars, certVars, mtResult>>
    BY <1>2 DEF PoolStep, CertArrives, OwnCert, OwnPublish, ReadyArrives
  <2> QED
    BY <2>1, OfferedQuiet DEF signVars, certVars
<1>3. ASSUME NEW p \in Correct, LoopStep(p) PROVE OfferedOrTaken'
  <2>1. CASE CollectPool(p) \/ PoolGraceEnds(p) \/ PrimaryGraceEnds(p) \/ TakePool(p)
             \/ BuildStale(p) \/ Build(p)
    <3>1. UNCHANGED <<mtCandidates, certVars, mtResult>>
      BY <2>1 DEF CollectPool, PoolGraceEnds, PrimaryGraceEnds, TakePool, BuildStale, Build, signVars
    <3> QED
      BY <3>1, OfferedQuiet DEF certVars
  <2>2. CASE AttemptEnds(p)
    <3>1. /\ mtPending[p] # None /\ mtResult[p] = None
          /\ mtResult' = [mtResult EXCEPT ![p] = mtPending[p]]
          /\ mtCerts' = [mtCerts EXCEPT ![p] = @ \cup {mtPending[p]}]
          /\ UNCHANGED <<mtCandidates, mtOffered>>
      BY <2>2 DEF AttemptEnds, signVars
    <3> QED
      BY <3>1 DEF OfferedOrTaken
  <2>3. ASSUME NEW h \in Headers, TakeCertified(p, h) PROVE OfferedOrTaken'
    <3>1. /\ mtResult[p] = None /\ mtResult' = [mtResult EXCEPT ![p] = h]
          /\ UNCHANGED <<mtCerts, mtCandidates, mtOffered>>
      BY <2>3 DEF TakeCertified, Running, signVars, certVars
    <3> QED
      BY <3>1 DEF OfferedOrTaken
  <2> QED
    BY <1>3, <2>1, <2>2, <2>3 DEF LoopStep
<1>4. ASSUME NEW p \in Correct, OfferStep(p) PROVE OfferedOrTaken'
  <2>1. ASSUME NEW q \in Old \ {p}, NEW pool \in Pools, NEW h \in Headers, OfferArrives(p, q, pool, h)
        PROVE  OfferedOrTaken'
    BY <2>1, OfferedQuiet DEF OfferArrives, signVars, certVars
  <2>2. ASSUME NEW q \in Old \ {p}, NEW pool \in Pools, NEW h \in Headers, OfferVerified(p, q, pool, h)
        PROVE  OfferedOrTaken'
    <3>1. UNCHANGED <<mtCerts, mtResult>>
      BY <2>2 DEF OfferVerified
    <3>2. CASE OfferMatches(pool, h)
      <4>1. /\ mtCandidates' = [mtCandidates EXCEPT ![p] = @ \cup {h}]
            /\ mtOffered' = [mtOffered EXCEPT ![p] = @ \cup ({h} \cap mtCerts[p])]
        BY <2>2, <3>2 DEF OfferVerified, Remember
      <4> QED
        BY <3>1, <4>1 DEF OfferedOrTaken
    <3>3. CASE ~ OfferMatches(pool, h)
      BY <2>2, <3>1, <3>3, OfferedQuiet DEF OfferVerified
    <3> QED
      BY <3>2, <3>3
  <2>3. ASSUME NEW h \in Headers, CertificateArrives(p, h) PROVE OfferedOrTaken'
    <3>1. /\ mtCerts' = [mtCerts EXCEPT ![p] = @ \cup {h}]
          /\ mtOffered' = [mtOffered EXCEPT ![p] = @ \cup ({h} \cap mtCandidates[p])]
          /\ UNCHANGED <<mtCandidates, mtResult>>
      BY <2>3 DEF CertificateArrives, signVars
    <3> QED
      BY <3>1 DEF OfferedOrTaken
  <2> QED
    BY <1>4, <2>1, <2>2, <2>3 DEF OfferStep
<1>5. ASSUME NEW d \in Faulty, FaultyCert(d) PROVE OfferedOrTaken'
  BY <1>5, OfferedQuiet DEF FaultyCert, signVars, certVars
<1> QED
  BY <1>1, <1>2, <1>3, <1>4, <1>5 DEF MaterializeNext

LEMMA OfferedOrTakenInit == MaterializeInit => OfferedOrTaken
BY DEF MaterializeInit, OfferedOrTaken

LEMMA CertifiedIsOfferedHolds == OfferedOrTaken => CertifiedIsOffered
BY DEF OfferedOrTaken, CertifiedIsOffered

-----------------------------------------------------------------------------
(* Finalization and its handoff (Decision).                                *)

\* A member has on disk what it has signed, in this run or an earlier one.
SignedRecorded ==
    \A i \in Correct : \A v \in Values : <<i, v>> \in signed => record[i] = v

\* A member that is past the record works on the value it recorded.
ValueRecorded ==
    \A i \in Correct :
        phase[i] \in {"persisted", "collecting", "done"} =>
            value[i] \in Values /\ record[i] = value[i]

\* Collected shares exist; the member's own is unreleased only when a
\* certificate made it needless.
SharesSigned ==
    \A i \in Correct : phase[i] = "collecting" =>
        \/ value[i] \in certs[i]
        \/ \A j \in shares[i] : j \in Correct => <<j, value[i]>> \in signed

CertsSigned ==
    /\ \A v \in handoffs : Certifiable(v)
    /\ \A i \in Correct : \A v \in certs[i] : Certifiable(v)
    /\ \A r \in New : accepted[r] # None => Certifiable(accepted[r])

DecisionInv == TypeOK /\ SignedRecorded /\ ValueRecorded /\ SharesSigned /\ CertsSigned

-----------------------------------------------------------------------------
\* What the assumption says about the sizes of the committee.
LEMMA CommitteeSizes ==
    /\ IsFiniteSet(Old) /\ Faulty \subseteq Old /\ F \in Nat
    /\ Cardinality(Faulty) <= F /\ Cardinality(Old) >= 3 * F + 1
    /\ Cardinality(Old) \in Nat /\ DecisionThreshold \in Int
    /\ None \notin Values
BY CommitteeAssumption, DecisionAssumption, FS_CardinalityType DEF DecisionThreshold

\* The signers of a value can be counted.
LEMMA SignersFinite ==
    ASSUME NEW v
    PROVE  IsFiniteSet(Signers(v)) /\ Cardinality(Signers(v)) \in Nat
<1>1. Signers(v) \subseteq Old
  BY CommitteeSizes DEF Signers, Correct
<1> QED
  BY <1>1, CommitteeSizes, SubsetCount

\* Released signatures stay released, so what could be certified still can.
LEMMA CertifiableGrows ==
    ASSUME signed \subseteq signed', NEW v, Certifiable(v)
    PROVE  Certifiable(v)'
<1> DEFINE A == Signers(v)
           B == Signers(v)'
<1>1. A \subseteq B
  BY DEF Signers
<1>2. B \subseteq Old
  BY CommitteeSizes DEF Signers, Correct
<1>3. IsFiniteSet(B)
  BY <1>2, CommitteeSizes, SubsetCount
<1>4. Cardinality(A) <= Cardinality(B) /\ Cardinality(A) \in Nat /\ Cardinality(B) \in Nat
  BY <1>1, <1>3, SubsetCount
<1> QED
  BY <1>4, CommitteeSizes DEF Certifiable, DecisionThreshold

\* Certificates stay justified while signatures only grow.
LEMMA CertsStay ==
    ASSUME CertsSigned, signed \subseteq signed', handoffs' = handoffs, certs' = certs,
           accepted' = accepted
    PROVE  CertsSigned'
BY CertifiableGrows DEF CertsSigned

-----------------------------------------------------------------------------
\* Before the epoch nothing is signed or certified.
LEMMA DecisionInitInv == Init => DecisionInv
<1> SUFFICES ASSUME Init PROVE DecisionInv
  OBVIOUS
<1>1. TypeOK
  BY DecisionAssumption DEF Init, TypeOK, ValueOrNone
<1> QED
  BY <1>1 DEF Init, DecisionInv, SignedRecorded, ValueRecorded, SharesSigned, CertsSigned

\* SignHandoffOnce: an immutable record keeps the earlier promise.
LEMMA PersistInv ==
    ASSUME DecisionInv, NEW i \in Correct, NEW v \in Values, Persist(i, v)
    PROVE  DecisionInv'
<1> USE DEF DecisionInv, Persist, PutImmutable
<1>1. TypeOK'
  BY DEF TypeOK, ValueOrNone
<1>2. SignedRecorded'
  BY CommitteeSizes DEF TypeOK, SignedRecorded, ValueOrNone
<1>3. ValueRecorded'
  BY CommitteeSizes DEF TypeOK, ValueRecorded, ValueOrNone
<1>4. SharesSigned'
  BY DEF TypeOK, SharesSigned
<1>5. CertsSigned'
  BY CertsStay
<1> QED
  BY <1>1, <1>2, <1>3, <1>4, <1>5

\* FinalizeDecision signs what is on disk.
LEMMA ReleaseInv ==
    ASSUME DecisionInv, NEW i \in Correct, Release(i)
    PROVE  DecisionInv'
<1> USE DEF DecisionInv, Release
<1>0. value[i] \in Values /\ record[i] = value[i]
  BY DEF ValueRecorded
<1>1. TypeOK'
  BY <1>0 DEF TypeOK, Correct
<1>2. SignedRecorded'
  BY <1>0 DEF TypeOK, SignedRecorded
<1>3. ValueRecorded'
  BY DEF TypeOK, ValueRecorded
<1>4. SharesSigned'
  BY DEF TypeOK, SharesSigned
<1>5. CertsSigned'
  BY CertsStay
<1> QED
  BY <1>1, <1>2, <1>3, <1>4, <1>5

\* A counted share is one that has been released.
LEMMA OnShareInv ==
    ASSUME DecisionInv, NEW j \in Correct, NEW i \in Old, OnShare(j, i)
    PROVE  DecisionInv'
<1> USE DEF DecisionInv, OnShare
<1>0. value[j] \in Values /\ record[j] = value[j]
  BY DEF ValueRecorded
<1>a. i \in Correct => record[i] = value[j]
  BY <1>0 DEF SignedRecorded, ValueRecorded, Answers
<1>b. signed \subseteq signed'
  OBVIOUS
<1>1. TypeOK'
  BY <1>0 DEF TypeOK
<1>2. SignedRecorded'
  BY <1>0, <1>a DEF TypeOK, SignedRecorded
<1>3. ValueRecorded'
  BY DEF TypeOK, ValueRecorded
<1>4. SharesSigned'
  BY <1>b DEF TypeOK, SharesSigned
<1>5. CertsSigned'
  BY <1>b, CertsStay
<1> QED
  BY <1>1, <1>2, <1>3, <1>4, <1>5

\* An answer to a faulty member releases the share of the recorded value.
LEMMA AnswerFaultyInv ==
    ASSUME DecisionInv, NEW j \in Correct, AnswerFaulty(j)
    PROVE  DecisionInv'
<1> USE DEF DecisionInv, AnswerFaulty
<1>0. value[j] \in Values /\ record[j] = value[j]
  BY DEF ValueRecorded
<1>1. TypeOK'
  BY <1>0 DEF TypeOK
<1>2. SignedRecorded'
  BY <1>0 DEF TypeOK, SignedRecorded
<1>3. ValueRecorded' /\ SharesSigned'
  BY DEF TypeOK, ValueRecorded, SharesSigned
<1>5. CertsSigned'
  BY CertsStay
<1> QED
  BY <1>1, <1>2, <1>3, <1>5

\* The heart of the matter: n-f collected shares are n-f signatures.
LEMMA ReadyCertifiable ==
    ASSUME DecisionInv, NEW i \in Correct, phase[i] = "collecting", Ready(i)
    PROVE  Certifiable(value[i])
<1>1. CASE value[i] \in certs[i]
  BY <1>1 DEF DecisionInv, CertsSigned
<1>2. CASE value[i] \notin certs[i]
  <2>1. Cardinality(shares[i]) >= DecisionThreshold
    BY <1>2 DEF Ready
  <2>2. shares[i] \subseteq Signers(value[i])
    BY <1>2 DEF DecisionInv, SharesSigned, Signers, TypeOK, Correct
  <2>3. /\ Cardinality(shares[i]) <= Cardinality(Signers(value[i]))
        /\ Cardinality(shares[i]) \in Nat /\ Cardinality(Signers(value[i])) \in Nat
    BY <2>2, SignersFinite, SubsetCount
  <2> QED
    BY <2>1, <2>3, CommitteeSizes DEF Certifiable
<1> QED
  BY <1>1, <1>2

\* FinalizeDecision broadcasts a handoff that n-f members have signed.
LEMMA FinishInv ==
    ASSUME DecisionInv, NEW i \in Correct, Finish(i)
    PROVE  DecisionInv'
<1>0. value[i] \in Values /\ Certifiable(value[i])
  BY ReadyCertifiable DEF DecisionInv, ValueRecorded, Finish
<1> USE DEF DecisionInv, Finish
<1>1. TypeOK'
  BY <1>0 DEF TypeOK
<1>2. SignedRecorded' /\ ValueRecorded' /\ SharesSigned'
  BY DEF TypeOK, SignedRecorded, ValueRecorded, SharesSigned
<1>3. \A v : Certifiable(v) => Certifiable(v)'
  BY CertifiableGrows
<1>4. CertsSigned'
  BY <1>0, <1>3 DEF CertsSigned
<1> QED
  BY <1>1, <1>2, <1>4

\* handleHandoff in the old committee keeps only what verifies.
LEMMA OnHandoffInv ==
    ASSUME DecisionInv, NEW i \in Correct, NEW v \in Values, OnHandoff(i, v)
    PROVE  DecisionInv'
<1> USE DEF DecisionInv, OnHandoff
<1>0. Certifiable(v)
  BY DEF Valid, CertsSigned
<1>1. TypeOK'
  BY DEF TypeOK
<1>2. SignedRecorded' /\ ValueRecorded' /\ SharesSigned'
  BY DEF TypeOK, SignedRecorded, ValueRecorded, SharesSigned
<1>3. \A w : Certifiable(w) => Certifiable(w)'
  BY CertifiableGrows
<1>4. CertsSigned'
  BY <1>0, <1>3 DEF CertsSigned, TypeOK
<1> QED
  BY <1>1, <1>2, <1>4

\* handleHandoff in the new committee accepts only what verifies.
LEMMA AcceptInv ==
    ASSUME DecisionInv, NEW r \in New, NEW v \in Values, Accept(r, v)
    PROVE  DecisionInv'
<1> USE DEF DecisionInv, Accept
<1>0. Certifiable(v)
  BY DEF Valid, CertsSigned
<1>1. TypeOK'
  BY DEF TypeOK, ValueOrNone
<1>2. SignedRecorded' /\ ValueRecorded' /\ SharesSigned'
  BY DEF TypeOK, SignedRecorded, ValueRecorded, SharesSigned
<1>3. \A w : Certifiable(w) => Certifiable(w)'
  BY CertifiableGrows
<1>4. CertsSigned'
  BY <1>0, <1>3 DEF CertsSigned, TypeOK
<1> QED
  BY <1>1, <1>2, <1>4

\* Giving up and leaving change no promise.
LEMMA StopInv ==
    ASSUME DecisionInv, NEW i \in Correct, GiveUp(i) \/ Leave(i)
    PROVE  DecisionInv'
<1> USE DEF DecisionInv, GiveUp, Leave
<1>1. TypeOK'
  BY DEF TypeOK
<1>2. SignedRecorded' /\ ValueRecorded' /\ SharesSigned'
  BY DEF TypeOK, SignedRecorded, ValueRecorded, SharesSigned
<1>3. CertsSigned'
  BY CertsStay
<1> QED
  BY <1>1, <1>2, <1>3

\* A crash forgets certificates, never the record they rest on.
LEMMA CrashInv ==
    ASSUME DecisionInv, NEW i \in Correct, Crash(i)
    PROVE  DecisionInv'
<1> USE DEF DecisionInv, Crash
<1>1. TypeOK'
  BY DecisionAssumption DEF TypeOK, ValueOrNone
<1>2. SignedRecorded' /\ ValueRecorded' /\ SharesSigned'
  BY DEF TypeOK, SignedRecorded, ValueRecorded, SharesSigned
<1>3. \A w : Certifiable(w) => Certifiable(w)'
  BY CertifiableGrows
<1>4. CertsSigned'
  BY <1>3 DEF CertsSigned, TypeOK
<1> QED
  BY <1>1, <1>2, <1>4

\* Every step preserves the invariant.
LEMMA DecisionStepInv == DecisionInv /\ [Next]_vars => DecisionInv'
<1> SUFFICES ASSUME DecisionInv, [Next]_vars PROVE DecisionInv'
  OBVIOUS
<1>1. ASSUME NEW i \in Correct, NEW v \in Values, Persist(i, v) PROVE DecisionInv'
  BY <1>1, PersistInv
<1>2. ASSUME NEW i \in Correct, Release(i) PROVE DecisionInv'
  BY <1>2, ReleaseInv
<1>3. ASSUME NEW i \in Correct, NEW j \in Old, OnShare(i, j) PROVE DecisionInv'
  BY <1>3, OnShareInv
<1>4. ASSUME NEW i \in Correct, AnswerFaulty(i) PROVE DecisionInv'
  BY <1>4, AnswerFaultyInv
<1>5. ASSUME NEW i \in Correct, Finish(i) PROVE DecisionInv'
  BY <1>5, FinishInv
<1>6. ASSUME NEW i \in Correct, NEW v \in Values, OnHandoff(i, v) PROVE DecisionInv'
  BY <1>6, OnHandoffInv
<1>7. ASSUME NEW r \in New, NEW v \in Values, Accept(r, v) PROVE DecisionInv'
  BY <1>7, AcceptInv
<1>8. ASSUME NEW i \in Correct, GiveUp(i) \/ Leave(i) PROVE DecisionInv'
  BY <1>8, StopInv
<1>9. ASSUME NEW i \in Correct, Crash(i) PROVE DecisionInv'
  BY <1>9, CrashInv
<1>10. CASE UNCHANGED vars
  BY <1>10, CertsStay DEF vars, DecisionInv, TypeOK, SignedRecorded, ValueRecorded, SharesSigned
<1> QED
  BY <1>1, <1>2, <1>3, <1>4, <1>5, <1>6, <1>7, <1>8, <1>9, <1>10 DEF Next

-----------------------------------------------------------------------------
\* The inductive invariant of finalization.
THEOREM DecisionInvariance == Spec => []DecisionInv
<1>1. Init => DecisionInv
  BY DecisionInitInv
<1>2. DecisionInv /\ [Next]_vars => DecisionInv'
  BY DecisionStepInv
<1> QED
  BY <1>1, <1>2, PTL DEF Spec

\* Every certificate anybody holds was signed by n-f members.
LEMMA CertifiedCertifiable ==
    ASSUME DecisionInv, NEW v \in Certified
    PROVE  Certifiable(v)
BY DEF DecisionInv, CertsSigned, Certified

\* Two sets of n-f signers share a correct member, which has one record.
LEMMA CertifiableUnique ==
    ASSUME DecisionInv, NEW v \in Values, NEW w \in Values, Certifiable(v), Certifiable(w)
    PROVE  v = w
<1> DEFINE S == {i \in Correct : <<i, v>> \in signed}
           T == {i \in Correct : <<i, w>> \in signed}
<1>1. S \in SUBSET (Old \ Faulty) /\ T \in SUBSET (Old \ Faulty)
  BY DEF Correct
<1>2. /\ Cardinality(S \cup Faulty) >= Cardinality(Old) - F
      /\ Cardinality(T \cup Faulty) >= Cardinality(Old) - F
  BY DEF Certifiable, Signers, DecisionThreshold
<1> HIDE DEF S, T
<1>3. PICK i \in S : i \in T
  BY <1>1, <1>2, CommitteeSizes, SignersMeet
<1>4. i \in Correct /\ record[i] = v /\ record[i] = w
  BY <1>3 DEF S, T, DecisionInv, SignedRecorded
<1> QED
  BY <1>4

\* Only values of the epoch are certified.
LEMMA CertifiedValues == DecisionInv => Certified \subseteq Values
BY DEF DecisionInv, TypeOK, Certified, ValueOrNone

\* HandoffAgreement: FinalizeDecision and handleHandoff let at most one value
\* of an epoch be certified, across any number of crashes and repeated runs.
THEOREM HandoffAgreementCorrect == Spec => []HandoffAgreement
<1>1. DecisionInv => HandoffAgreement
  BY CertifiedCertifiable, CertifiableUnique, CertifiedValues DEF HandoffAgreement
<1> QED
  BY <1>1, DecisionInvariance, PTL

\* CertificateDurable: behind a certificate stand n-2f correct members whose
\* record on disk (SignHandoffOnce) rules out any other.
THEOREM CertificateDurableCorrect == Spec => []CertificateDurable
<1>1. ASSUME DecisionInv, NEW v \in Certified
      PROVE  Cardinality({i \in Correct : record[i] = v}) >= DecisionThreshold - F
  <2> DEFINE S == {i \in Correct : <<i, v>> \in signed}
             R == {i \in Correct : record[i] = v}
  <2>1. v \in Values /\ Certifiable(v)
    BY <1>1, CertifiedCertifiable, CertifiedValues
  <2>2. S \subseteq R /\ R \subseteq Old /\ S \in SUBSET (Old \ Faulty)
    BY <1>1, <2>1 DEF DecisionInv, SignedRecorded, Correct
  <2>3. Cardinality(S \cup Faulty) >= DecisionThreshold
    BY <2>1 DEF Certifiable, Signers
  <2> HIDE DEF S, R
  <2>4. Cardinality(S) \in Nat /\ Cardinality(S) >= DecisionThreshold - F
    BY <2>2, <2>3, CommitteeSizes, CorrectSigners
  <2>5. Cardinality(S) <= Cardinality(R) /\ Cardinality(R) \in Nat
    <3>1. IsFiniteSet(R)
      BY <2>2, CommitteeSizes, SubsetCount
    <3> QED
      BY <2>2, <3>1, SubsetCount
  <2>6. Cardinality(R) >= DecisionThreshold - F
    BY <2>4, <2>5, CommitteeSizes
  <2> QED
    BY <2>6 DEF R
<1>2. DecisionInv => CertificateDurable
  BY <1>1 DEF CertificateDurable
<1> QED
  BY <1>2, DecisionInvariance, PTL

\* The variables of finalization stay in their ranges.
THEOREM DecisionTypeCorrect == Spec => []TypeOK
<1>1. DecisionInv => TypeOK
  BY DEF DecisionInv
<1> QED
  BY <1>1, DecisionInvariance, PTL

-----------------------------------------------------------------------------
\* As long as nobody has crashed, the handoffs are those of the members that
\* have finished.
Finished(i) == phase[i] \in {"done", "left"}

HandedOff ==
    crashes = 0 =>
        /\ \A i \in Correct : Finished(i) => value[i] \in handoffs
        /\ \A w \in handoffs : \E i \in Correct : Finished(i) /\ value[i] = w

LEMMA HandedOffInit == Init => HandedOff
BY DEF Init, HandedOff, Finished

\* Steps other than Finish and Crash, which leave who has finished alone.
LEMMA HandedOffQuiet ==
    ASSUME HandedOff, UNCHANGED <<handoffs, crashes>>,
           \A i \in Correct : Finished(i)' = Finished(i) /\ (Finished(i) => value'[i] = value[i])
    PROVE  HandedOff'
<1> SUFFICES ASSUME crashes = 0
             PROVE  /\ \A i \in Correct : Finished(i)' => value'[i] \in handoffs
                    /\ \A w \in handoffs : \E i \in Correct : Finished(i)' /\ value'[i] = w
  BY DEF HandedOff
<1> QED
  BY DEF HandedOff

LEMMA HandedOffStep ==
    ASSUME TypeOK, HandedOff, [Next]_vars
    PROVE  HandedOff'
<1>1. ASSUME NEW i \in Correct, NEW v \in Values, Persist(i, v) PROVE HandedOff'
  <2>1. \A k \in Correct : Finished(k)' = Finished(k) /\ (Finished(k) => value'[k] = value[k])
    BY <1>1 DEF Persist, Finished, TypeOK
  <2> QED
    BY <1>1, <2>1, HandedOffQuiet DEF Persist
<1>2. ASSUME NEW i \in Correct, Release(i) \/ GiveUp(i) \/ Leave(i) PROVE HandedOff'
  <2>1. \A k \in Correct : Finished(k)' = Finished(k) /\ (Finished(k) => value'[k] = value[k])
    BY <1>2 DEF Release, GiveUp, Leave, Finished, TypeOK
  <2> QED
    BY <1>2, <2>1, HandedOffQuiet DEF Release, GiveUp, Leave
<1>3. ASSUME NEW i \in Correct, Finish(i) PROVE HandedOff'
  <2>1. /\ handoffs' = handoffs \cup {value[i]} /\ value' = value /\ crashes' = crashes
        /\ ~ Finished(i) /\ Finished(i)'
        /\ \A k \in Correct : k # i => Finished(k)' = Finished(k)
    BY <1>3 DEF Finish, Finished, TypeOK
  <2> SUFFICES ASSUME crashes = 0
               PROVE  /\ \A k \in Correct : Finished(k)' => value[k] \in handoffs'
                      /\ \A w \in handoffs' : \E k \in Correct : Finished(k)' /\ value[k] = w
    BY <2>1 DEF HandedOff
  <2>2. \A k \in Correct : Finished(k)' => value[k] \in handoffs'
    BY <2>1 DEF HandedOff
  <2>3. ASSUME NEW w \in handoffs' PROVE \E k \in Correct : Finished(k)' /\ value[k] = w
    BY <2>1 DEF HandedOff
  <2> QED
    BY <2>2, <2>3
<1>4. ASSUME NEW i \in Correct, Crash(i) PROVE HandedOff'
  <2>1. crashes \in Nat /\ crashes' = crashes + 1
    BY <1>4, DecisionAssumption DEF Crash, TypeOK
  <2>2. crashes' # 0
    BY <2>1
  <2> QED
    BY <2>2 DEF HandedOff
<1>5. ASSUME UNCHANGED <<phase, value, handoffs, crashes>> PROVE HandedOff'
  BY <1>5 DEF HandedOff, Finished
<1>6. ASSUME NEW i \in Correct,
             \/ AnswerFaulty(i) \/ \E v \in Values : OnHandoff(i, v)
             \/ \E j \in Old : OnShare(i, j)
      PROVE HandedOff'
  BY <1>5, <1>6 DEF AnswerFaulty, OnHandoff, OnShare
<1>7. ASSUME NEW r \in New, NEW v \in Values, Accept(r, v) PROVE HandedOff'
  BY <1>5, <1>7 DEF Accept
<1>8. CASE UNCHANGED vars
  BY <1>5, <1>8 DEF vars
<1> QED
  BY <1>1, <1>2, <1>3, <1>4, <1>6, <1>7, <1>8 DEF Next

\* There are n-f correct members.
LEMMA EnoughCorrect ==
    /\ Correct # {}
    /\ \A S \in SUBSET Old : Correct \subseteq S => Cardinality(S) >= DecisionThreshold
<1>1. Correct \in SUBSET (Old \ Faulty) /\ Correct \cup Faulty = Old
  BY CommitteeSizes DEF Correct
<1>2. Cardinality(Correct \cup Faulty) >= Cardinality(Old)
  BY <1>1, CommitteeSizes
<1> DEFINE C == Correct
<1>3. C \in SUBSET (Old \ Faulty) /\ Cardinality(C \cup Faulty) >= Cardinality(Old)
  BY <1>1, <1>2
<1> HIDE DEF C
<1>4. Cardinality(C) \in Nat /\ Cardinality(C) >= Cardinality(Old) - F
  BY <1>3, CommitteeSizes, CorrectSigners
<1>5. C # {}
  BY <1>4, CommitteeSizes, FS_EmptySet
<1>6. ASSUME NEW S \in SUBSET Old, C \subseteq S PROVE Cardinality(S) >= DecisionThreshold
  <2>1. IsFiniteSet(S)
    BY CommitteeSizes, SubsetCount
  <2>2. Cardinality(C) <= Cardinality(S) /\ Cardinality(S) \in Nat
    BY <1>6, <2>1, SubsetCount
  <2> QED
    BY <1>4, <2>2, CommitteeSizes DEF DecisionThreshold
<1> QED
  BY <1>5, <1>6 DEF C

\* A member that still collects the decision of all has everybody's answer.
LEMMA AllFinalizeHolds == DecisionInv /\ HandedOff => AllFinalize
<1> SUFFICES ASSUME DecisionInv, HandedOff, crashes = 0, DecisionAtRest,
                    NEW v \in Values, \A i \in Correct : value[i] = v,
                    \A i \in Correct : phase[i] # "failed"
             PROVE  /\ \A i \in Correct : Finished(i)
                    /\ \A r \in New : accepted[r] # None
  BY DEF AllFinalize, Finished
<1>1. \A i \in Correct : Finished(i) \/ phase[i] = "collecting"
  BY DEF DecisionAtRest, DecisionInv, TypeOK, Finished
<1>2. ASSUME NEW i \in Correct, phase[i] = "collecting" PROVE FALSE
  <2>1. ~ Ready(i) /\ \A j \in Correct : Answers(j, v) => j \in shares[i]
    BY <1>2 DEF DecisionAtRest
  <2>2. v \notin handoffs
    BY <1>2, <2>1 DEF DecisionAtRest, Ready
  <2>3. \A j \in Correct : phase[j] = "collecting"
    BY <1>1, <2>2 DEF HandedOff
  <2>4. Correct \subseteq shares[i] /\ shares[i] \in SUBSET Old
    BY <2>1, <2>3 DEF Answers, DecisionInv, TypeOK
  <2>5. Cardinality(shares[i]) >= DecisionThreshold
    BY <2>4, EnoughCorrect
  <2> QED
    BY <2>1, <2>5 DEF Ready
<1>3. \A i \in Correct : Finished(i)
  BY <1>1, <1>2
<1>4. handoffs # {}
  BY <1>3, EnoughCorrect DEF HandedOff
<1> QED
  BY <1>3, <1>4 DEF DecisionAtRest

-----------------------------------------------------------------------------
(* The services side by side.                                              *)

ServicesInv ==
    APDBInv /\ ComponentInv /\ LaneRanges /\ AttemptsSeen /\ SharesOnDisk /\ SignedLeaves
    /\ DecisionInv

LEMMA ServicesInitInv == MCInit => ServicesInv
BY APDBInitInv, ComponentInitInv, LaneInitInv, MaterializeInitInv, DecisionInitInv
   DEF MCInit, ServicesInv

\* A step of one service is a step or a stutter of each.
LEMMA OneServiceSteps ==
    ASSUME [MCNext]_allVars
    PROVE  /\ [APDBNext]_apdbVars /\ [ComponentNext]_componentVars /\ [LaneNext]_laneVars
           /\ [MaterializeNext]_materializeVars /\ [Next]_vars
BY DEF MCNext, allVars

LEMMA ServicesStepInv == ServicesInv /\ [MCNext]_allVars => ServicesInv'
<1> SUFFICES ASSUME ServicesInv, [MCNext]_allVars PROVE ServicesInv'
  OBVIOUS
<1>1. /\ [APDBNext]_apdbVars /\ [ComponentNext]_componentVars /\ [LaneNext]_laneVars
      /\ [MaterializeNext]_materializeVars /\ [Next]_vars
  BY OneServiceSteps
<1>2. APDBInv' /\ ComponentInv' /\ LaneRanges'
  BY <1>1, APDBStepInv, ComponentStepInv, LaneRangesStep DEF ServicesInv
<1>3. AttemptsSeen' /\ SharesOnDisk' /\ SignedLeaves' /\ DecisionInv'
  BY <1>1, AttemptsSeenStep, SharesOnDiskStep, SignedLeavesStep, DecisionStepInv DEF ServicesInv
<1> QED
  BY <1>2, <1>3 DEF ServicesInv

THEOREM ServicesInvariance == MCSpec => []ServicesInv
<1> QED
  BY ServicesInitInv, ServicesStepInv, PTL DEF MCSpec

\* The variables of the services stay in their ranges.
THEOREM TypesOKCorrect == MCSpec => []TypesOK
<1>1. ServicesInv => TypesOK
  BY ComponentTypeHolds, LaneTypeHolds, MaterializeTypeHolds
     DEF ServicesInv, APDBInv, DecisionInv, TypesOK
<1> QED
  BY <1>1, ServicesInvariance, PTL

\* DealersKept: claimComponentStatement, handleACK and componentRetrievals keep
\* one component of a dealer and leave no caller behind, and the channel of
\* CollectAPVSSLaneACKs, with room for one acknowledgement of each receiver,
\* loses no more of them than handleAPVSSLaneACK has let in repetitions.
THEOREM DealersKeptCorrect == MCSpec => []DealersKept
<1>1. MCInit => ServicesInv /\ AcksCounted
  BY ServicesInitInv, LaneInitInv DEF MCInit
<1>2. (ServicesInv /\ AcksCounted) /\ [MCNext]_allVars => (ServicesInv /\ AcksCounted)'
  <2> SUFFICES ASSUME ServicesInv, AcksCounted, [MCNext]_allVars
               PROVE  ServicesInv' /\ AcksCounted'
    OBVIOUS
  <2>1. ServicesInv' /\ [LaneNext]_laneVars
    BY ServicesStepInv, OneServiceSteps
  <2> QED
    BY <2>1, AcksCountedStep DEF ServicesInv
<1>3. ServicesInv /\ AcksCounted => DealersKept
  BY OneComponentHolds, DealerKeepsHolds DEF ServicesInv, AcksCounted, DealersKept
<1> QED
  BY <1>1, <1>2, <1>3, PTL DEF MCSpec

\* CertifiedIsKept: behind a lock (lockForPurposeScalar), a component's and an
\* aggregate's certificate (MaterializeAndCollectARC) stand correct members
\* that have stored their part.  That all recover the same payload needs
\* n = 3f+1: of more members two sets of 2f+1 need not share a correct one.
THEOREM CertifiedIsKeptCorrect ==
    ASSUME Cardinality(Old) = 3 * F + 1
    PROVE  MCSpec => []CertifiedIsKept
<1>1. ServicesInv => CertifiedIsKept
  BY LockAvailableHolds, RecoveryAgreementHolds, CertifiedStoredHolds
     DEF ServicesInv, SignedLeaves, CertifiedIsKept
<1> QED
  BY <1>1, ServicesInvariance, PTL

\* The part of CertifiedIsKept that holds for every n >= 3f+1: locked payloads
\* and certified aggregates are stored, and only valid leaves are added up.
THEOREM StoredForEveryCommittee ==
    MCSpec => [](LockAvailable /\ CertifiedStored /\ SignedValid)
<1>1. ServicesInv => LockAvailable /\ CertifiedStored /\ SignedValid
  BY LockAvailableHolds, CertifiedStoredHolds DEF ServicesInv, SignedLeaves
<1> QED
  BY <1>1, ServicesInvariance, PTL

\* ServicesSettle: once every message that is bound to arrive has been
\* handled, whoever holds a lock has its payload (RecoverLock), each dealing
\* has the acknowledgements of the correct receivers it reached, but for those
\* that repeated ones of faulty receivers crowded out, a certified aggregate
\* that was verified is on offer, and each member finalizes the decision
\* (FinalizeDecision) and each receiver has its handoff.
THEOREM ServicesSettleCorrect == MCSpec => []ServicesSettle
<1> DEFINE Settling == /\ ServicesInv /\ ShardsComing /\ AcksComing
                       /\ OfferedOrTaken /\ HandedOff
<1>1. MCInit => Settling
  BY ServicesInitInv, ShardsComingInit, AcksComingInit, OfferedOrTakenInit, HandedOffInit
     DEF MCInit
<1>2. Settling /\ [MCNext]_allVars => Settling'
  <2> SUFFICES ASSUME Settling, [MCNext]_allVars PROVE Settling'
    OBVIOUS
  <2>1. /\ [APDBNext]_apdbVars /\ [LaneNext]_laneVars
        /\ [MaterializeNext]_materializeVars /\ [Next]_vars
    BY OneServiceSteps
  <2>2. ServicesInv'
    BY ServicesStepInv
  <2>3. AcksComing'
    BY <2>1, <2>2, AcksComingStep DEF ServicesInv
  <2>4. ShardsComing'
    BY <2>1, <2>2, ShardsComingStep DEF ServicesInv
  <2>5. OfferedOrTaken' /\ HandedOff'
    BY <2>1, OfferedOrTakenStep, HandedOffStep DEF ServicesInv, DecisionInv
  <2> QED
    BY <2>2, <2>3, <2>4, <2>5
<1>3. Settling => ServicesSettle
  BY LockedRecoveredHolds, LanesEndHolds, CertifiedIsOfferedHolds, AllFinalizeHolds
     DEF ServicesInv, ServicesSettle
<1> QED
  BY <1>1, <1>2, <1>3, PTL DEF MCSpec
=============================================================================

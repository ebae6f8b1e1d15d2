--------------------------- MODULE DispersalProofs ---------------------------
(***************************************************************************)
(* Safety of dispersal and recast in DumboMVBA, for every number of nodes, *)
(* every leader and whatever the faulty nodes sign and send: certificates  *)
(* exist for one root at most, stand for enough stripes and locks, and all *)
(* nodes that return from recast return the value of the same root; and    *)
(* nobody leaves dispersal before n-f leaders have completed it.  Where it *)
(* has come to rest, a correct leader is through, and all leave or none.   *)
(***************************************************************************)
EXTENDS MCDispersal, QuorumLemmas

\* A correct node has signed the stripe and the lock it holds, and no other:
\* seenStoreFromLeader and seenLockFromLeader admit one of each.
SharesHeld ==
    \A i \in Correct : \A r \in Roots :
        /\ Share(i, "STORED", r) \in signed => store[i] = r
        /\ Share(i, "LOCKED", r) \in signed => lock[i] = r

\* The shares a correct leader has collected exist.
SharesExist ==
    \A j \in Node :
        /\ stored[j] # NoRoot => j \in Signers("STORED", stored[j])
        /\ locked[j] # NoRoot => j \in Signers("LOCKED", locked[j])

\* Behind every lock, broadcast or held, stands a STORED certificate.
LocksCertified ==
    /\ lockRoot # NoRoot => Certified("STORED", lockRoot)
    /\ \A i \in Correct : lock[i] # NoRoot => Certified("STORED", lock[i])

PDInv == PDTypeOK /\ SharesHeld /\ SharesExist /\ LocksCertified

-----------------------------------------------------------------------------
\* The committee: finite, with at most F faulty nodes.
LEMMA NodeFacts ==
    /\ IsFiniteSet(Node) /\ Cardinality(Node) = N /\ N \in Nat /\ F \in Nat
    /\ N >= 3 * F + 1 /\ Faulty \subseteq Node
    /\ IsFiniteSet(Faulty) /\ Cardinality(Faulty) \in Nat /\ Cardinality(Faulty) <= F
    /\ Good \in Roots /\ NoRoot \notin Roots /\ Leader \in Node /\ N > 0
<1>1. N \in Nat /\ F \in Nat /\ N >= 3 * F + 1
  BY PDAssumption
<1>2. IsFiniteSet(Node) /\ Cardinality(Node) = N
  <2>1. 0 \in Int /\ N - 1 \in Int
    BY <1>1
  <2>2. IsFiniteSet(0 .. N - 1)
        /\ Cardinality(0 .. N - 1) = IF 0 > N - 1 THEN 0 ELSE (N - 1) - 0 + 1
    BY <2>1, FS_Interval
  <2> QED
    BY <1>1, <2>2 DEF Node
<1>3. Faulty \subseteq Node
  BY PDAssumption DEF Node
<1>4. IsFiniteSet(Faulty) /\ Cardinality(Faulty) \in Nat
  BY <1>2, <1>3, SubsetCount
<1>5. MaxCrash \in Nat /\ Cardinality(Faulty) + MaxCrash <= F
  BY PDAssumption
<1>6. Good \in Roots /\ NoRoot \notin Roots /\ Leader \in Node
  BY PDAssumption DEF Node
<1> QED
  BY <1>1, <1>2, <1>3, <1>4, <1>5, <1>6

\* Who has signed has signed for good, so that a certificate stays one.
LEMMA CertifiedStays ==
    ASSUME NEW kind, NEW r, signed \subseteq signed', Certified(kind, r)
    PROVE  Certified(kind, r)'
<1>1. Signers(kind, r) \subseteq Signers(kind, r)' /\ Signers(kind, r)' \subseteq Node
  BY NodeFacts DEF Signers, Correct
<1>2. /\ Cardinality(Signers(kind, r)) <= Cardinality(Signers(kind, r)')
      /\ Cardinality(Signers(kind, r)) \in Nat /\ Cardinality(Signers(kind, r)') \in Nat
  <2>1. IsFiniteSet(Signers(kind, r)')
    BY <1>1, NodeFacts, SubsetCount
  <2> QED
    BY <1>1, <2>1, SubsetCount
<1>3. Cardinality(Signers(kind, r)) >= N - F
  BY DEF Certified, Threshold
<1>4. Cardinality(Signers(kind, r)') >= N - F
  BY <1>2, <1>3, NodeFacts
<1> QED
  BY <1>4 DEF Certified, Threshold

\* A root that n-f collected shares name is certified.
LEMMA RecoveredCertified ==
    ASSUME NEW kind, NEW shares, NEW r,
           \A j \in Node : shares[j] = r => j \in Signers(kind, r),
           Recovers(shares, r)
    PROVE  Certified(kind, r)
<1>1. /\ {j \in Node : shares[j] = r} \subseteq Signers(kind, r)
      /\ Signers(kind, r) \subseteq Node
  BY NodeFacts DEF Signers, Correct
<1>2. IsFiniteSet(Signers(kind, r))
  BY <1>1, NodeFacts, SubsetCount
<1>3. /\ Cardinality({j \in Node : shares[j] = r}) <= Cardinality(Signers(kind, r))
      /\ Cardinality({j \in Node : shares[j] = r}) \in Nat
      /\ Cardinality(Signers(kind, r)) \in Nat
  BY <1>1, <1>2, SubsetCount
<1>4. Cardinality({j \in Node : shares[j] = r}) >= N - F
  BY DEF Recovers, Threshold
<1>5. Cardinality(Signers(kind, r)) >= N - F
  BY <1>3, <1>4, NodeFacts
<1> QED
  BY <1>5 DEF Certified, Threshold

-----------------------------------------------------------------------------
\* Before the first message there are no shares and no locks.
LEMMA PDInitInv == PDInit => PDInv
<1> SUFFICES ASSUME PDInit PROVE PDInv
  OBVIOUS
<1>1. served \subseteq Node
  <2>1. \A o \in 0 .. PDFanout - 1 : (Leader + o) % N \in Node
    BY NodeFacts, PDAssumption DEF Node
  <2> QED
    BY <2>1 DEF PDInit, Recipients
<1>2. next \in PDFanout .. N /\ timer \in BOOLEAN
  BY NodeFacts, PDAssumption DEF PDInit
<1>3. PDTypeOK
  BY <1>1, <1>2 DEF PDInit, PDTypeOK, RootOrNone
<1> QED
  BY <1>3, NodeFacts DEF PDInit, PDInv, SharesHeld, SharesExist, LocksCertified, Correct

\* What steps of the leader's timer, of QuitPD and of crashes leave alone.
LEMMA PDSharesStay ==
    ASSUME PDInv, PDTypeOK',
           UNCHANGED <<store, lock, stored, locked, lockRoot, signed>>
    PROVE  PDInv'
BY CertifiedStays DEF PDInv, SharesHeld, SharesExist, LocksCertified, Signers, Certified

\* The pull timer serves one node more.
LEMMA PullTimerInv == PDInv /\ PullTimer => PDInv'
<1> SUFFICES ASSUME PDInv, PullTimer PROVE PDInv'
  OBVIOUS
<1>1. PDTypeOK
  BY DEF PDInv
<1>2. (Leader + next) % N \in Node
  BY <1>1, NodeFacts, PDAssumption DEF PDTypeOK, Node
<1>3. next' \in PDFanout .. N
  <2>1. next \in PDFanout .. N /\ PDFanout \in Int /\ N \in Nat
    BY <1>1, PDAssumption DEF PDTypeOK
  <2>2. next' = next \/ (next' = next + 1 /\ next < N)
    BY DEF PullTimer
  <2> QED
    BY <2>1, <2>2
<1>4. served' \subseteq Node /\ timer' \in BOOLEAN
  BY <1>1, <1>2 DEF PullTimer, PDTypeOK
<1>5. PDTypeOK'
  BY <1>1, <1>3, <1>4 DEF PullTimer, PDTypeOK
<1> QED
  BY <1>5, PDSharesStay DEF PullTimer

\* A node signs the first stripe it accepts.
LEMMA OnStoreInv == ASSUME NEW i \in Correct, PDInv, OnStore(i) PROVE PDInv'
<1> PICK r \in Roots : /\ Running(i) /\ store[i] = NoRoot
                       /\ store' = [store EXCEPT ![i] = r]
                       /\ signed' = signed \cup {Share(i, "STORED", r)}
                       /\ pd' = IF i # Leader /\ lock[i] # NoRoot
                                  THEN [pd EXCEPT ![i] = "returned"] ELSE pd
                       /\ UNCHANGED <<served, next, timer, lock, stored, locked,
                                      lockRoot, doneRoot, crashed>>
  BY DEF OnStore
<1>1. PDTypeOK'
  BY DEF PDInv, PDTypeOK, RootOrNone, Share
<1>2. SharesHeld'
  BY NodeFacts DEF PDInv, PDTypeOK, SharesHeld, Share
<1>3. SharesExist'
  BY DEF PDInv, SharesExist, Signers
<1>4. LocksCertified'
  BY CertifiedStays DEF PDInv, LocksCertified
<1> QED
  BY <1>1, <1>2, <1>3, <1>4 DEF PDInv

\* A node signs the first lock it accepts; a correct leader's is certified, and
\* a faulty one has to show the certificate.
LEMMA OnLockInv == ASSUME NEW i \in Correct, PDInv, OnLock(i) PROVE PDInv'
<1> PICK r \in Roots : /\ Running(i) /\ lock[i] = NoRoot /\ OffersLock(r)
                       /\ lock' = [lock EXCEPT ![i] = r]
                       /\ signed' = signed \cup {Share(i, "LOCKED", r)}
                       /\ pd' = IF i # Leader /\ store[i] # NoRoot
                                  THEN [pd EXCEPT ![i] = "returned"] ELSE pd
                       /\ UNCHANGED <<served, next, timer, store, stored, locked,
                                      lockRoot, doneRoot, crashed>>
  BY DEF OnLock
<1>1. PDTypeOK'
  BY DEF PDInv, PDTypeOK, RootOrNone, Share
<1>2. SharesHeld'
  BY NodeFacts DEF PDInv, PDTypeOK, SharesHeld, Share
<1>3. SharesExist'
  BY DEF PDInv, SharesExist, Signers
<1>4. Certified("STORED", r)
  BY NodeFacts DEF OffersLock, PDInv, LocksCertified
<1>5. LocksCertified'
  BY <1>4, CertifiedStays DEF PDInv, PDTypeOK, LocksCertified
<1> QED
  BY <1>1, <1>2, <1>3, <1>5 DEF PDInv

\* The leader broadcasts a lock once n-f shares over its root are there.
LEMMA OnStoredInv == ASSUME NEW j \in Node, PDInv, OnStored(j) PROVE PDInv'
<1> PICK r \in Roots :
      LET shares == [stored EXCEPT ![j] = r]
          full == Count(shares) >= Threshold /\ lockRoot = NoRoot
      IN  /\ LeaderCorrect /\ Running(Leader) /\ stored[j] = NoRoot
          /\ j \in Signers("STORED", r)
          /\ stored' = shares
          /\ lockRoot' = IF full /\ Recovers(shares, r) THEN r ELSE lockRoot
          /\ pd' = IF full /\ ~Recovers(shares, r)
                     THEN [pd EXCEPT ![Leader] = "failed"] ELSE pd
          /\ UNCHANGED <<served, next, timer, store, lock, locked, doneRoot,
                         signed, crashed>>
  BY DEF OnStored
<1>1. PDTypeOK'
  BY DEF PDInv, PDTypeOK, RootOrNone
<1>2. SharesExist'
  BY DEF PDInv, PDTypeOK, SharesExist, Signers
<1>3. lockRoot' # NoRoot => Certified("STORED", lockRoot')
  <2>1. CASE lockRoot' = lockRoot
    BY <2>1 DEF PDInv, LocksCertified
  <2>2. CASE lockRoot' = r /\ Recovers(stored', r)
    <3>1. \A i \in Node : stored'[i] = r => i \in Signers("STORED", r)
      BY NodeFacts DEF PDInv, PDTypeOK, SharesExist
    <3> QED
      BY <2>2, <3>1, RecoveredCertified
  <2> QED
    BY <2>1, <2>2
<1>4. LocksCertified'
  BY <1>3 DEF PDInv, LocksCertified, Certified, Signers
<1>5. SharesHeld'
  BY DEF PDInv, SharesHeld
<1> QED
  BY <1>1, <1>2, <1>4, <1>5 DEF PDInv

\* LOCKED shares are collected in the same way.
LEMMA OnLockedInv == ASSUME NEW j \in Node, PDInv, OnLocked(j) PROVE PDInv'
<1> PICK r \in Roots :
      LET shares == [locked EXCEPT ![j] = r]
          full == Count(shares) >= Threshold
      IN  /\ LeaderCorrect /\ Running(Leader) /\ locked[j] = NoRoot
          /\ j \in Signers("LOCKED", r)
          /\ locked' = shares
          /\ doneRoot' = IF full /\ Recovers(shares, r) THEN r ELSE doneRoot
          /\ pd' = IF full THEN [pd EXCEPT ![Leader] =
                          IF Recovers(shares, r) THEN "returned" ELSE "failed"]
                   ELSE pd
          /\ UNCHANGED <<served, next, timer, store, lock, stored, lockRoot,
                         signed, crashed>>
  BY DEF OnLocked
<1>1. PDTypeOK'
  BY DEF PDInv, PDTypeOK, RootOrNone
<1>2. SharesExist'
  BY DEF PDInv, PDTypeOK, SharesExist, Signers
<1>3. LocksCertified'
  BY DEF PDInv, LocksCertified, Certified, Signers
<1>4. SharesHeld'
  BY DEF PDInv, SharesHeld
<1> QED
  BY <1>1, <1>2, <1>3, <1>4 DEF PDInv

\* Every step of dispersal.
LEMMA PDStepInv == PDInv /\ [PDNext]_pdVars => PDInv'
<1> SUFFICES ASSUME PDInv, [PDNext]_pdVars PROVE PDInv'
  OBVIOUS
<1>1. CASE PullTimer
  BY <1>1, PullTimerInv
<1>2. ASSUME NEW i \in Correct, OnStore(i) \/ OnLock(i) PROVE PDInv'
  BY <1>2, OnStoreInv, OnLockInv
<1>3. ASSUME NEW i \in Correct, Quit(i) PROVE PDInv'
  BY <1>3, PDSharesStay DEF Quit, PDInv, PDTypeOK
<1>4. ASSUME NEW i \in Correct, Crash(i) PROVE PDInv'
  BY <1>4, PDSharesStay DEF Crash, PDInv, PDTypeOK
<1>5. ASSUME NEW j \in Node, OnStored(j) \/ OnLocked(j) PROVE PDInv'
  BY <1>5, OnStoredInv, OnLockedInv
<1>6. CASE UNCHANGED pdVars
  BY <1>6, PDSharesStay DEF pdVars, PDInv, PDTypeOK
<1> QED
  BY <1>1, <1>2, <1>3, <1>4, <1>5, <1>6 DEF PDNext

-----------------------------------------------------------------------------
\* The three promises of a certificate follow from who has signed.
LEMMA PDInvHolds == PDInv => CertifiedRootHolds
<1> SUFFICES ASSUME PDInv PROVE CertifiedRootHolds
  OBVIOUS
<1> DEFINE By(kind, r) == {i \in Correct : Share(i, kind, r) \in signed}
<1>1. ASSUME NEW kind, NEW r, Certified(kind, r)
      PROVE  /\ By(kind, r) \subseteq Node \ Faulty
             /\ Cardinality(By(kind, r) \cup Faulty) >= N - F
             /\ Cardinality(By(kind, r)) \in Nat /\ Cardinality(By(kind, r)) >= N - 2 * F
  <2>1. /\ By(kind, r) \subseteq Node \ Faulty
        /\ Cardinality(By(kind, r) \cup Faulty) >= N - F
    BY <1>1 DEF Certified, Signers, Threshold, Correct
  <2>2. N - F \in Int
    BY NodeFacts
  <2>3. Cardinality(By(kind, r)) \in Nat /\ Cardinality(By(kind, r)) >= (N - F) - F
    BY <2>1, <2>2, NodeFacts, CorrectSigners
  <2> QED
    BY <2>1, <2>3, NodeFacts
<1>2. CertificateUnique
  <2> SUFFICES ASSUME NEW r \in Roots, NEW s \in Roots,
                      Certified("STORED", r), Certified("STORED", s)
               PROVE  r = s
    BY DEF CertificateUnique
  <2>1. /\ By("STORED", r) \in SUBSET (Node \ Faulty)
        /\ By("STORED", s) \in SUBSET (Node \ Faulty)
        /\ Cardinality(By("STORED", r) \cup Faulty) >= Cardinality(Node) - F
        /\ Cardinality(By("STORED", s) \cup Faulty) >= Cardinality(Node) - F
    BY <1>1, NodeFacts
  <2>2. /\ IsFiniteSet(Node) /\ Faulty \subseteq Node /\ F \in Nat
        /\ Cardinality(Faulty) <= F /\ Cardinality(Node) >= 3 * F + 1
    BY NodeFacts
  <2>3. \E i \in By("STORED", r) : i \in By("STORED", s)
    <3> HIDE DEF By
    <3> QED
      BY <2>1, <2>2, SignersMeet
  <2> QED
    BY <2>3 DEF PDInv, SharesHeld
<1>3. LockRecoverable
  <2> SUFFICES ASSUME NEW i \in Correct, lock[i] # NoRoot
               PROVE  Cardinality({j \in Correct : store[j] = lock[i]}) >= K
    BY DEF LockRecoverable
  <2>1. Certified("STORED", lock[i]) /\ lock[i] \in Roots
    BY DEF PDInv, PDTypeOK, LocksCertified, RootOrNone
  <2>2. By("STORED", lock[i]) \subseteq {j \in Correct : store[j] = lock[i]}
    BY <2>1 DEF PDInv, SharesHeld
  <2>3. IsFiniteSet({j \in Correct : store[j] = lock[i]})
    BY NodeFacts, SubsetCount DEF Correct
  <2>4. Cardinality(By("STORED", lock[i])) <= Cardinality({j \in Correct : store[j] = lock[i]})
        /\ Cardinality({j \in Correct : store[j] = lock[i]}) \in Nat
    BY <2>2, <2>3, SubsetCount
  <2>5. /\ Cardinality(By("STORED", lock[i])) \in Nat
        /\ Cardinality(By("STORED", lock[i])) >= N - 2 * F
    BY <1>1, <2>1
  <2> HIDE DEF By
  <2> QED
    BY <2>4, <2>5, NodeFacts DEF K
<1>4. DoneLocksEnough
  <2> SUFFICES ASSUME NEW r \in Roots, Certified("LOCKED", r)
               PROVE  Cardinality({j \in Correct : lock[j] = r}) >= F + 1
    BY DEF DoneLocksEnough
  <2>1. By("LOCKED", r) \subseteq {j \in Correct : lock[j] = r}
    BY DEF PDInv, SharesHeld
  <2>2. IsFiniteSet({j \in Correct : lock[j] = r})
    BY NodeFacts, SubsetCount DEF Correct
  <2>3. Cardinality(By("LOCKED", r)) <= Cardinality({j \in Correct : lock[j] = r})
        /\ Cardinality({j \in Correct : lock[j] = r}) \in Nat
    BY <2>1, <2>2, SubsetCount
  <2>4. Cardinality(By("LOCKED", r)) \in Nat /\ Cardinality(By("LOCKED", r)) >= N - 2 * F
    BY <1>1
  <2> HIDE DEF By
  <2> QED
    BY <2>3, <2>4, NodeFacts
<1> QED
  BY <1>2, <1>3, <1>4 DEF CertifiedRootHolds

\* Dispersal keeps its invariant.
LEMMA PDInvCorrect == PDSpec => []PDInv
<1> QED
  BY PDInitInv, PDStepInv, PTL DEF PDSpec

\* Dispersal (runPDInstance) stays in its ranges: the leader serves nodes of the
\* ring, and roots, shares and outcomes are what they may be.
THEOREM PDTypeCorrect == PDSpec => []PDTypeOK
<1>1. PDInv => PDTypeOK
  BY DEF PDInv
<1> QED
  BY <1>1, PDInvCorrect, PTL

\* Whatever a faulty leader offers to whom, one root at most gets a STORED
\* certificate, whoever is locked on it may count on n-2f stripes, and behind a
\* DONE proof f+1 correct nodes are locked on it.
THEOREM CertifiedRootHoldsCorrect == PDSpec => []CertifiedRootHolds
<1> QED
  BY PDInvHolds, PDInvCorrect, PTL

-----------------------------------------------------------------------------
\* What a node decodes in RC, and the locks on the way there, are certified.
RCRootsCertified ==
    \A i \in Correct :
        /\ \A r \in cast[i] : Certified("STORED", r)
        /\ cert[i] # NoRoot => Certified("STORED", cert[i])
        /\ rc[i] = "returned" => cert[i] # NoRoot

RCInv == PDInv /\ RCTypeOK /\ RCRootsCertified

\* RC begins with nothing received.
LEMMA RCInitInv == Init => RCInv
<1> SUFFICES ASSUME Init PROVE RCInv
  OBVIOUS
<1>1. PDInv
  BY PDInitInv DEF Init
<1>2. RCTypeOK
  BY <1>1 DEF Init, RCTypeOK, RootOrNone, PDInv
<1> QED
  BY <1>1, <1>2 DEF Init, RCInv, RCRootsCertified

\* Certificates stay when dispersal goes on beside the recast.
LEMMA PDBesideRC == RCInv /\ PDNext /\ UNCHANGED rcVars => RCInv'
<1> SUFFICES ASSUME RCInv, PDNext, UNCHANGED rcVars PROVE RCInv'
  OBVIOUS
<1>1. PDInv'
  BY PDStepInv DEF RCInv
<1>2. RCTypeOK'
  BY <1>1 DEF RCInv, RCTypeOK, rcVars, PDInv
<1>3. signed \subseteq signed'
  BY DEF PDNext, PullTimer, OnStore, OnLock, Quit, Crash, OnStored, OnLocked
<1>4. RCRootsCertified'
  BY <1>3, CertifiedStays DEF RCInv, RCRootsCertified, rcVars
<1> QED
  BY <1>1, <1>2, <1>4 DEF RCInv

\* Steps of the recast leave dispersal alone.
LEMMA RCKeepsPD ==
    ASSUME RCInv, UNCHANGED pdVars
    PROVE  PDInv' /\ \A r : Certified("STORED", r)' <=> Certified("STORED", r)
<1>1. PDInv'
  BY PDStepInv DEF RCInv
<1> QED
  BY <1>1 DEF pdVars, Certified, Signers

\* One step of a node in RC: locks it passes on or decodes with are the ones
\* dispersal handed over or others certified.
LEMMA RCStepInv == ASSUME NEW i \in Correct, RCInv, RCStep(i) PROVE RCInv'
<1>1. CASE Enter(i)
  <2>1. LockOut(i) # NoRoot => Certified("STORED", LockOut(i)) /\ LockOut(i) \in Roots
    BY DEF LockOut, RCInv, PDInv, PDTypeOK, LocksCertified, RootOrNone
  <2>2. UNCHANGED pdVars
    BY <1>1 DEF Enter
  <2>3. RCTypeOK'
    BY <1>1, <2>1, <2>2, RCKeepsPD DEF Enter, RCInv, RCTypeOK, PDInv
  <2>4. RCRootsCertified'
    BY <1>1, <2>1, <2>2, RCKeepsPD DEF Enter, RCInv, RCTypeOK, RCRootsCertified
  <2> QED
    BY <2>2, <2>3, <2>4, RCKeepsPD DEF RCInv
<1>2. CASE OnRCLock(i)
  <2> PICK r \in Roots :
        /\ InRC(i)
        /\ \/ \E j \in Correct : r \in cast[j]
           \/ Faulty # {} /\ Certified("STORED", r)
        /\ cast' = IF cert[i] = NoRoot THEN [cast EXCEPT ![i] = @ \cup {r}] ELSE cast
        /\ cert' = [cert EXCEPT ![i] = r]
        /\ rc' = IF Decodes(r, shards[i]) THEN [rc EXCEPT ![i] = "returned"] ELSE rc
        /\ UNCHANGED <<pdVars, shards, pulled>>
    BY <1>2 DEF OnRCLock
  <2>1. Certified("STORED", r) /\ r # NoRoot
    BY NodeFacts DEF RCInv, RCRootsCertified
  <2>2. RCTypeOK'
    BY RCKeepsPD DEF RCInv, RCTypeOK, PDInv, RootOrNone
  <2>3. RCRootsCertified'
    BY <2>1, RCKeepsPD DEF RCInv, RCTypeOK, RCRootsCertified
  <2> QED
    BY <2>2, <2>3, RCKeepsPD DEF RCInv
<1>3. CASE Pull(i)
  <2>1. RCTypeOK'
    BY <1>3, RCKeepsPD DEF Pull, RCInv, RCTypeOK, PDInv
  <2>2. RCRootsCertified'
    BY <1>3, RCKeepsPD DEF Pull, RCInv, RCTypeOK, RCRootsCertified
  <2> QED
    BY <1>3, <2>1, <2>2, RCKeepsPD DEF RCInv, Pull
<1>4. ASSUME NEW j \in Node, OnRCStore(i, j) PROVE RCInv'
  <2> PICK r \in Roots :
        /\ InRC(i)
        /\ shards' = [shards EXCEPT ![i] = @ \cup {Shard(j, r)}]
        /\ rc' = IF cert[i] = r /\ Decodes(r, shards'[i])
                   THEN [rc EXCEPT ![i] = "returned"] ELSE rc
        /\ UNCHANGED <<pdVars, cert, cast, pulled>>
    BY <1>4 DEF OnRCStore
  <2>1. RCTypeOK'
    BY RCKeepsPD DEF RCInv, RCTypeOK, PDInv, Shard
  <2>2. RCRootsCertified'
    BY NodeFacts, RCKeepsPD DEF RCInv, RCTypeOK, RCRootsCertified
  <2> QED
    BY <2>1, <2>2, RCKeepsPD DEF RCInv
<1>5. ASSUME NEW j \in Correct, AnswerPull(i, j) PROVE RCInv'
  <2>1. store[j] \in Roots /\ j \in Node /\ UNCHANGED pdVars
    BY <1>5, NodeFacts DEF AnswerPull, RCInv, RCTypeOK, PDInv, PDTypeOK, RootOrNone, Correct
  <2>2. RCTypeOK'
    BY <1>5, <2>1, RCKeepsPD DEF AnswerPull, RCInv, RCTypeOK, PDInv, Shard
  <2>3. RCRootsCertified'
    BY <1>5, <2>1, NodeFacts, RCKeepsPD DEF AnswerPull, RCInv, RCTypeOK, RCRootsCertified
  <2> QED
    BY <2>1, <2>2, <2>3, RCKeepsPD DEF RCInv
<1> QED
  BY <1>1, <1>2, <1>3, <1>4, <1>5 DEF RCStep

\* Dispersal and recast together keep the invariant.
LEMMA RCNextInv == RCInv /\ [Next]_vars => RCInv'
<1> SUFFICES ASSUME RCInv, [Next]_vars PROVE RCInv'
  OBVIOUS
<1>1. CASE PDNext /\ UNCHANGED rcVars
  BY <1>1, PDBesideRC
<1>2. ASSUME NEW i \in Correct, RCStep(i) PROVE RCInv'
  BY <1>2, RCStepInv
<1>3. CASE UNCHANGED vars
  <2>1. UNCHANGED pdVars /\ UNCHANGED rcVars
    BY <1>3 DEF vars
  <2>2. RCTypeOK'
    BY <2>1, RCKeepsPD DEF RCInv, RCTypeOK, PDInv, rcVars
  <2> QED
    BY <2>1, <2>2, RCKeepsPD DEF RCInv, RCRootsCertified, rcVars
<1> QED
  BY <1>1, <1>2, <1>3 DEF Next

\* The invariant holds in every behaviour.
LEMMA RCInvCorrect == Spec => []RCInv
<1> QED
  BY RCInitInv, RCNextInv, PTL DEF Spec

\* The variables of the recast (runRCSubprotocol) stay in their ranges.
THEOREM RCTypeCorrect == Spec => []RCTypeOK
<1>1. RCInv => RCTypeOK
  BY DEF RCInv
<1> QED
  BY <1>1, RCInvCorrect, PTL

\* Nodes that return from RC return the value of the same root, whatever a faulty
\* leader dispersed and whatever locks and stripes faulty nodes send.
THEOREM RCAgreementCorrect == Spec => []RCAgreement
<1>1. RCInv => RCAgreement
  <2> SUFFICES ASSUME RCInv, NEW i \in Correct, NEW j \in Correct,
                      rc[i] = "returned", rc[j] = "returned"
               PROVE  cert[i] = cert[j]
    BY DEF RCAgreement
  <2>1. CertificateUnique
    BY PDInvHolds DEF RCInv, CertifiedRootHolds
  <2>2. /\ Certified("STORED", cert[i]) /\ Certified("STORED", cert[j])
        /\ cert[i] \in Roots /\ cert[j] \in Roots
    BY DEF RCInv, RCTypeOK, RCRootsCertified, RootOrNone
  <2> QED
    BY <2>1, <2>2 DEF CertificateUnique
<1> QED
  BY <1>1, RCInvCorrect, PTL

-----------------------------------------------------------------------------
\* Leaving dispersal: a proof that a node has accepted exists, a READY stands for
\* n-f of them, and behind every FINISH stands the READY of a correct node.
QuitInv ==
    /\ Q!QuitTypeOK
    /\ \A i \in Correct : seenDone[i] \subseteq done /\ readyFrom[i] \subseteq ready \cup Faulty
    /\ \A i \in ready : Cardinality(seenDone[i]) >= Q!ProvenThreshold
    /\ finishSent \cup quit # {} => ready # {}

\* Both modules count in the same way.
LEMMA QCardinality == ASSUME NEW S PROVE Q!Cardinality(S) = Cardinality(S)
BY DEF Q!Cardinality, Cardinality

\* The thresholds of leaving, over the nodes of this committee.
LEMMA QuitThresholds ==
    /\ Q!Correct = Correct /\ Q!ReadyThreshold = F + 1
    /\ Q!ProvenThreshold = N - F /\ Q!ProvenThreshold \in Int
<1>1. Q!ProvenThreshold = N - F /\ N - F \in Int
  BY NodeFacts, QCardinality DEF Q!ProvenThreshold
<1> QED
  BY <1>1 DEF Q!Correct, Correct, Q!ReadyThreshold

\* f+1 READY shares include a correct node's.
LEMMA ReadyIsCorrect ==
    ASSUME NEW S, S \subseteq ready \cup Faulty, Cardinality(S) >= F + 1
    PROVE  ready # {}
<1> SUFFICES ASSUME ready = {} PROVE FALSE
  OBVIOUS
<1>1. S \subseteq Faulty
  OBVIOUS
<1>2. Cardinality(S) <= Cardinality(Faulty) /\ Cardinality(S) \in Nat
  BY <1>1, NodeFacts, SubsetCount
<1> QED
  BY <1>2, NodeFacts

\* A DONE proof more; READY is broadcast with the (n-f)-th.
LEMMA OnDoneInv ==
    ASSUME NEW i \in Correct, NEW l \in Node, QuitInv, Q!OnDone(i, l)
    PROVE  QuitInv'
<1>1. Q!Correct = Correct
  BY QuitThresholds
<1>2. Q!QuitTypeOK'
  BY <1>1 DEF Q!OnDone, QuitInv, Q!QuitTypeOK
<1>3. seenDone' = [seenDone EXCEPT ![i] = @ \cup {l}] /\ UNCHANGED done
  BY DEF Q!OnDone
<1>4. Cardinality(seenDone[i]) \in Nat /\ Cardinality(seenDone'[i]) \in Nat
      /\ Cardinality(seenDone[i]) <= Cardinality(seenDone'[i])
  <2>1. seenDone[i] \subseteq seenDone'[i] /\ seenDone'[i] \subseteq Node
    BY <1>1, <1>3 DEF QuitInv, Q!QuitTypeOK
  <2>2. IsFiniteSet(seenDone'[i])
    BY <2>1, NodeFacts, SubsetCount
  <2> QED
    BY <2>1, <2>2, SubsetCount
<1>5. ASSUME NEW j \in ready' PROVE Cardinality(seenDone'[j]) >= Q!ProvenThreshold
  <2>1. CASE j \in ready /\ j # i
    <3>1. seenDone'[j] = seenDone[j]
      BY <1>1, <1>3, <2>1 DEF QuitInv, Q!QuitTypeOK
    <3> QED
      BY <2>1, <3>1 DEF QuitInv
  <2>2. CASE j \in ready /\ j = i
    <3>1. Cardinality(seenDone[i]) >= Q!ProvenThreshold
      BY <2>2 DEF QuitInv
    <3> QED
      BY <1>4, <2>2, <3>1, QuitThresholds
  <2>3. CASE j \notin ready
    <3>1. j = i /\ Cardinality(seenDone'[i]) = Q!ProvenThreshold
      BY <2>3, QCardinality DEF Q!OnDone
    <3> QED
      BY <3>1, QuitThresholds
  <2> QED
    BY <2>1, <2>2, <2>3
<1>6. \A j \in Correct : seenDone'[j] \subseteq done'
                         /\ readyFrom'[j] \subseteq ready' \cup Faulty
  BY <1>1 DEF Q!OnDone, QuitInv, Q!QuitTypeOK
<1>7. finishSent' \cup quit' # {} => ready' # {}
  BY DEF Q!OnDone, QuitInv
<1>8. Q!ProvenThreshold' = Q!ProvenThreshold
  BY DEF Q!ProvenThreshold
<1> QED
  BY <1>2, <1>5, <1>6, <1>7, <1>8 DEF QuitInv

\* Every step keeps the invariant.
LEMMA QuitStepInv == QuitInv /\ [Q!QuitNext]_(Q!quitVars) => QuitInv'
<1> SUFFICES ASSUME QuitInv, [Q!QuitNext]_(Q!quitVars) PROVE QuitInv'
  OBVIOUS
<1>0. Q!Correct = Correct /\ Q!ReadyThreshold = F + 1
  BY QuitThresholds
<1>1. ASSUME NEW i \in Correct, NEW l \in Node, Q!OnDone(i, l) PROVE QuitInv'
  BY <1>1, OnDoneInv
<1>2. ASSUME NEW i \in Correct, NEW j \in Node, Q!OnReady(i, j) PROVE QuitInv'
  <2>1. readyFrom' = [readyFrom EXCEPT ![i] = @ \cup {j}]
        /\ j \in ready \cup Faulty /\ UNCHANGED <<done, seenDone, ready, quit>>
    BY <1>2 DEF Q!OnReady
  <2>2. readyFrom'[i] \subseteq ready \cup Faulty
    BY <1>0, <2>1 DEF QuitInv, Q!QuitTypeOK
  <2>3. finishSent' # finishSent => ready # {}
    <3> SUFFICES ASSUME finishSent' # finishSent PROVE ready # {}
      OBVIOUS
    <3>1. Cardinality(readyFrom'[i]) >= F + 1
      BY <1>0, <1>2, QCardinality DEF Q!OnReady
    <3> QED
      BY <2>2, <3>1, ReadyIsCorrect
  <2>4. Q!QuitTypeOK'
    BY <1>0, <1>2, NodeFacts DEF Q!OnReady, QuitInv, Q!QuitTypeOK
  <2>5. \A k \in Correct : readyFrom'[k] \subseteq ready \cup Faulty
    BY <1>0, <2>1, <2>2 DEF QuitInv, Q!QuitTypeOK
  <2> QED
    BY <2>1, <2>3, <2>4, <2>5 DEF QuitInv, Q!ProvenThreshold
<1>3. ASSUME NEW i \in Correct, Q!OnFinish(i) PROVE QuitInv'
  <2>1. ready # {}
    <3>1. CASE finishSent # {}
      BY <3>1 DEF QuitInv
    <3>2. CASE Cardinality(ready \cup Faulty) >= F + 1
      BY <3>2, ReadyIsCorrect
    <3> QED
      BY <1>0, <1>3, <3>1, <3>2, QCardinality DEF Q!OnFinish
  <2>2. Q!QuitTypeOK'
    BY <1>0, <1>3 DEF Q!OnFinish, QuitInv, Q!QuitTypeOK
  <2> QED
    BY <1>3, <2>1, <2>2 DEF Q!OnFinish, QuitInv, Q!ProvenThreshold
<1>4. CASE UNCHANGED Q!quitVars
  BY <1>4 DEF Q!quitVars, QuitInv, Q!QuitTypeOK, Q!ProvenThreshold
<1> QED
  BY <1>0, <1>1, <1>2, <1>3, <1>4 DEF Q!QuitNext

\* Nobody has left before n-f leaders have completed.
LEMMA QuitInvHolds == QuitInv => QuitJustified
<1> SUFFICES ASSUME QuitInv, quit # {}
             PROVE  /\ Cardinality(done) >= Q!ProvenThreshold
                    /\ \E i \in Correct : Cardinality(seenDone[i]) >= Q!ProvenThreshold
  BY QuitThresholds, QCardinality DEF QuitJustified, Q!QuitJustified
<1>1. PICK i \in ready : Cardinality(seenDone[i]) >= Q!ProvenThreshold
  BY DEF QuitInv
<1>2. i \in Correct /\ done \subseteq Node /\ seenDone[i] \subseteq done
  BY DEF QuitInv, Q!QuitTypeOK, Q!Correct, Correct
<1>3. IsFiniteSet(done)
  BY <1>2, NodeFacts, SubsetCount
<1>4. Cardinality(seenDone[i]) <= Cardinality(done)
      /\ Cardinality(seenDone[i]) \in Nat /\ Cardinality(done) \in Nat
  BY <1>2, <1>3, SubsetCount
<1> QED
  BY <1>1, <1>2, <1>4, QuitThresholds

\* Nobody stops halfway: who has enough proofs has broadcast READY, who has enough
\* READY shares FINISH, and nobody leaves without passing FINISH on.
QuitCounts ==
    /\ QuitInv
    /\ quit \subseteq finishSent
    /\ \A i \in Correct :
          /\ Cardinality(seenDone[i]) >= N - F => i \in ready
          /\ Cardinality(readyFrom[i]) >= F + 1 => i \in finishSent

\* Every step of leaving passes on what has become enough.
LEMMA QuitCountsStep == QuitCounts /\ [Q!QuitNext]_(Q!quitVars) => QuitCounts'
<1> SUFFICES ASSUME QuitCounts, [Q!QuitNext]_(Q!quitVars) PROVE QuitCounts'
  OBVIOUS
<1>0. Q!Correct = Correct /\ Q!ReadyThreshold = F + 1 /\ Q!ProvenThreshold = N - F
  BY QuitThresholds
<1>1. QuitInv'
  BY QuitStepInv DEF QuitCounts
<1>2. ASSUME NEW i \in Correct, NEW l \in Node, Q!OnDone(i, l) PROVE QuitCounts'
  <2>1. /\ seenDone' = [seenDone EXCEPT ![i] = @ \cup {l}] /\ l \notin seenDone[i]
        /\ Cardinality(seenDone[i]) < N - F
        /\ ready' = IF Cardinality(seenDone'[i]) = N - F THEN ready \cup {i} ELSE ready
        /\ UNCHANGED <<done, readyFrom, finishSent, quit>>
    BY <1>0, <1>2, QCardinality DEF Q!OnDone
  <2>2. seenDone[i] \subseteq Node /\ seenDone'[i] = seenDone[i] \cup {l}
        /\ \A k \in Correct : k # i => seenDone'[k] = seenDone[k]
    BY <1>0, <2>1 DEF QuitCounts, QuitInv, Q!QuitTypeOK
  <2>3. Cardinality(seenDone'[i]) = Cardinality(seenDone[i]) + 1
        /\ Cardinality(seenDone[i]) \in Nat
    <3>1. IsFiniteSet(seenDone[i]) /\ Cardinality(seenDone[i]) \in Nat
      BY <2>2, NodeFacts, SubsetCount
    <3> QED
      BY <2>1, <2>2, <3>1, FS_AddElement
  <2>4. Cardinality(seenDone'[i]) >= N - F => i \in ready'
    <3>1. Cardinality(seenDone'[i]) >= N - F => Cardinality(seenDone'[i]) = N - F
      BY <2>1, <2>3, NodeFacts
    <3> QED
      BY <2>1, <3>1
  <2> QED
    BY <1>1, <2>1, <2>2, <2>4 DEF QuitCounts
<1>3. ASSUME NEW i \in Correct, NEW j \in Node, Q!OnReady(i, j) PROVE QuitCounts'
  <2>1. /\ readyFrom' = [readyFrom EXCEPT ![i] = @ \cup {j}]
        /\ finishSent' = IF Cardinality(readyFrom'[i]) >= F + 1
                           THEN finishSent \cup {i} ELSE finishSent
        /\ UNCHANGED <<done, seenDone, ready, quit>>
    BY <1>0, <1>3, QCardinality DEF Q!OnReady
  <2>2. \A k \in Correct : k # i => readyFrom'[k] = readyFrom[k]
    BY <1>0, <2>1 DEF QuitCounts, QuitInv, Q!QuitTypeOK
  <2>3. Cardinality(readyFrom'[i]) >= F + 1 => i \in finishSent'
    BY <2>1
  <2>4. finishSent \subseteq finishSent'
    BY <2>1
  <2> QED
    BY <1>1, <2>1, <2>2, <2>3, <2>4 DEF QuitCounts
<1>4. ASSUME NEW i \in Correct, Q!OnFinish(i) PROVE QuitCounts'
  BY <1>1, <1>4 DEF Q!OnFinish, QuitCounts
<1>5. CASE UNCHANGED Q!quitVars
  BY <1>1, <1>5 DEF Q!quitVars, QuitCounts
<1> QED
  BY <1>0, <1>2, <1>3, <1>4, <1>5 DEF Q!QuitNext

\* At rest everybody has left if one has, or if enough leaders have completed.
LEMMA QuitCountsHold == QuitCounts => Q!QuitTotality /\ Q!QuitReached
<1> SUFFICES ASSUME QuitCounts, Q!QuitAtRest, quit # Correct,
                    quit # {} \/ Correct \subseteq done
             PROVE  FALSE
  BY QuitThresholds DEF Q!QuitTotality, Q!QuitReached
<1>0. Q!Correct = Correct /\ Q!ProvenThreshold = N - F /\ quit \subseteq Correct
      /\ seenDone \in [Correct -> SUBSET Node] /\ readyFrom \in [Correct -> SUBSET Node]
      /\ ready \subseteq Correct
  BY QuitThresholds DEF QuitCounts, QuitInv, Q!QuitTypeOK
<1>1. PICK k \in Correct : k \notin quit
  BY <1>0
<1>2. finishSent = {} /\ quit = {} /\ Correct \subseteq done
  BY <1>0, <1>1 DEF Q!QuitAtRest, QuitCounts
<1>3. Cardinality(Correct) >= N - F /\ Cardinality(Correct) \in Nat
  <2>1. IsFiniteSet(Correct) /\ IsFiniteSet(Faulty) /\ Correct \cap Faulty = {}
        /\ Correct \cup Faulty = Node
    BY NodeFacts, SubsetCount DEF Correct
  <2>2. /\ Cardinality(Node) = Cardinality(Correct) + Cardinality(Faulty)
        /\ Cardinality(Correct) \in Nat
    BY <2>1, DisjointCount
  <2> QED
    BY <2>2, NodeFacts
<1>4. ASSUME NEW S, Correct \subseteq S, S \subseteq Node
      PROVE  Cardinality(S) >= N - F /\ Cardinality(S) \in Nat
  <2>1. IsFiniteSet(S)
    BY <1>4, NodeFacts, SubsetCount
  <2>2. Cardinality(Correct) <= Cardinality(S) /\ Cardinality(S) \in Nat
    BY <1>4, <2>1, SubsetCount
  <2> QED
    BY <1>3, <2>2, NodeFacts
<1>5. ASSUME NEW i \in Correct PROVE i \in ready
  <2>1. Cardinality(seenDone[i]) < N - F => done \cap Correct \subseteq seenDone[i]
    BY <1>0, <1>2, QCardinality DEF Q!QuitAtRest
  <2>2. Cardinality(seenDone[i]) \in Nat
    BY <1>0, NodeFacts, SubsetCount
  <2>3. Cardinality(seenDone[i]) >= N - F
    <3>1. CASE Cardinality(seenDone[i]) < N - F
      BY <1>0, <1>2, <1>4, <2>1, <3>1
    <3> QED
      BY <2>2, <3>1, NodeFacts
  <2> QED
    BY <2>3 DEF QuitCounts
<1>6. Correct \subseteq readyFrom[k]
  BY <1>0, <1>1, <1>2, <1>5 DEF Q!QuitAtRest
<1>7. Cardinality(readyFrom[k]) >= F + 1
  BY <1>0, <1>4, <1>6, NodeFacts
<1> QED
  BY <1>2, <1>7 DEF QuitCounts

-----------------------------------------------------------------------------
\* The correct leader's dispersal beside the other two: its variables stay in
\* their ranges.
LEMMA LeaderTypeHolds == L!PDTypeOK /\ [L!PDNext]_leaderVars => L!PDTypeOK'
<1> SUFFICES ASSUME L!PDTypeOK, [L!PDNext]_leaderVars PROVE L!PDTypeOK'
  OBVIOUS
<1> USE DEF L!PDTypeOK, L!RootOrNone
<1>1. CASE L!PullTimer
  <2>1. lNext \in PDFanout .. N /\ PDFanout \in Int /\ N \in Nat /\ N > 0
    BY NodeFacts, PDAssumption
  <2>2. lNext' \in PDFanout .. N
    <3>1. lNext' = lNext \/ (lNext' = lNext + 1 /\ lNext < N)
      BY <1>1 DEF L!PullTimer
    <3> QED
      BY <2>1, <3>1
  <2>3. (1 + lNext) % N \in L!Node
    BY <2>1 DEF L!Node
  <2> QED
    BY <1>1, <2>2, <2>3 DEF L!PullTimer
<1>2. ASSUME NEW i \in L!Correct, L!OnStore(i) PROVE L!PDTypeOK'
  BY <1>2 DEF L!OnStore, L!Share
<1>3. ASSUME NEW i \in L!Correct, L!OnLock(i) PROVE L!PDTypeOK'
  BY <1>3 DEF L!OnLock, L!Share
<1>4. ASSUME NEW i \in L!Correct, L!Quit(i) \/ L!Crash(i) PROVE L!PDTypeOK'
  BY <1>4 DEF L!Quit, L!Crash
<1>5. ASSUME NEW j \in L!Node, L!OnStored(j) PROVE L!PDTypeOK'
  BY <1>5 DEF L!OnStored
<1>6. ASSUME NEW j \in L!Node, L!OnLocked(j) PROVE L!PDTypeOK'
  BY <1>6 DEF L!OnLocked
<1>7. CASE UNCHANGED leaderVars
  BY <1>7 DEF leaderVars
<1> QED
  BY <1>1, <1>2, <1>3, <1>4, <1>5, <1>6, <1>7 DEF L!PDNext

\* The correct leader serves nodes of the ring from the beginning.
LEMMA LeaderInitType == L!PDInit => L!PDTypeOK
<1> SUFFICES ASSUME L!PDInit PROVE L!PDTypeOK
  OBVIOUS
<1>1. lServed \subseteq L!Node
  <2>1. \A o \in 0 .. PDFanout - 1 : (1 + o) % N \in L!Node
    BY NodeFacts, PDAssumption DEF L!Node
  <2> QED
    BY <2>1 DEF L!PDInit, L!Recipients
<1>2. lNext \in PDFanout .. N /\ lTimer \in BOOLEAN
  BY NodeFacts, PDAssumption DEF L!PDInit
<1> QED
  BY <1>1, <1>2 DEF L!PDInit, L!PDTypeOK, L!RootOrNone

\* What the leader's progress rests on: it has served the first lNext nodes of the
\* ring, the timer runs until it need not, n-f shares end each collection, who
\* holds a stripe or a lock has signed it, and workers return with both.
LeaderInv ==
    /\ L!PDTypeOK
    /\ L!LeaderCorrect =>
          /\ lServed = L!Recipients(lNext)
          /\ lTimer \/ lNext = N \/ lLockRoot # NoRoot \/ L!Count(lStored) >= L!Threshold
          /\ lPd[1] = "running" =>
                /\ L!Count(lStored) >= L!Threshold => lLockRoot # NoRoot
                /\ ~(L!Count(lLocked) >= L!Threshold)
    /\ \A i \in L!Correct :
          /\ lStore[i] # NoRoot => L!Share(i, "STORED", lStore[i]) \in lSigned
          /\ lLock[i] # NoRoot => L!Share(i, "LOCKED", lLock[i]) \in lSigned
          /\ lPd[i] = "returned" /\ i # 1 => lStore[i] # NoRoot /\ lLock[i] # NoRoot
          /\ lPd[i] = "failed" => i = 1
    /\ Cardinality(lCrashed) <= F

\* The nodes of the correct leader's dispersal, and how it counts.
LEMMA LeaderFacts ==
    /\ L!Node = Node /\ L!Correct = Node /\ L!Threshold = N - F
    /\ L!LeaderCorrect <=> 1 \in Node
    /\ \A S : L!Cardinality(S) = Cardinality(S)
    /\ \A s : L!Count(s) = Cardinality({j \in Node : s[j] # NoRoot})
<1>1. \A S : L!Cardinality(S) = Cardinality(S)
  BY DEF L!Cardinality, Cardinality
<1>2. L!Node = Node /\ L!Correct = Node /\ L!Threshold = N - F
  BY DEF L!Node, Node, L!Correct, L!Threshold
<1>3. \A s : L!Count(s) = Cardinality({j \in Node : s[j] # NoRoot})
  BY <1>1, <1>2 DEF L!Count
<1> QED
  BY <1>1, <1>2, <1>3 DEF L!LeaderCorrect

\* Collections have a size.
LEMMA CountNat == ASSUME NEW s PROVE L!Count(s) \in Nat /\ L!Threshold \in Int
<1> DEFINE A == {j \in Node : s[j] # NoRoot}
<1>1. Cardinality(A) \in Nat
  <2>1. A \subseteq Node
    OBVIOUS
  <2> QED
    BY <2>1, NodeFacts, SubsetCount
<1>2. L!Count(s) = Cardinality(A)
  BY LeaderFacts
<1> QED
  BY <1>1, <1>2, NodeFacts, LeaderFacts

\* A collection only grows.
LEMMA CountGrows ==
    ASSUME NEW s \in [Node -> {Good, NoRoot}], NEW j \in Node, NEW r \in {Good}
    PROVE  L!Count([s EXCEPT ![j] = r]) >= L!Count(s)
<1> DEFINE A == {k \in Node : s[k] # NoRoot}
           B == {k \in Node : [s EXCEPT ![j] = r][k] # NoRoot}
<1>1. A \subseteq B /\ B \subseteq Node
  BY NodeFacts
<1>2. Cardinality(A) <= Cardinality(B) /\ Cardinality(A) \in Nat /\ Cardinality(B) \in Nat
  BY <1>1, NodeFacts, SubsetCount
<1> QED
  BY <1>2, LeaderFacts

\* The whole ring is the whole committee.
LEMMA RingIsAll == 1 \in Node => L!Recipients(N) = Node
<1> SUFFICES ASSUME 1 \in Node PROVE L!Recipients(N) = Node
  OBVIOUS
<1>1. N \in Nat /\ N > 1
  BY NodeFacts DEF Node
<1>2. \A o \in 0 .. N - 1 : (1 + o) % N \in Node
  BY <1>1 DEF Node
<1>3. ASSUME NEW x \in Node PROVE \E o \in 0 .. N - 1 : (1 + o) % N = x
  <2>1. x \in 0 .. N - 1
    BY DEF Node
  <2>2. CASE x = 0
    <3>1. (1 + (N - 1)) % N = 0
      BY <1>1
    <3> QED
      BY <1>1, <2>2, <3>1
  <2>3. CASE x # 0
    <3>1. (1 + (x - 1)) % N = x
      BY <1>1, <2>1
    <3> QED
      BY <1>1, <2>1, <2>3, <3>1
  <2> QED
    BY <2>2, <2>3
<1> QED
  BY <1>2, <1>3 DEF L!Recipients

\* The pull timer runs out only when the ring is served or the shares are there.
LEMMA LeaderTimer == LeaderInv /\ L!PullTimer => LeaderInv'
<1> SUFFICES ASSUME LeaderInv, L!PullTimer PROVE LeaderInv'
  OBVIOUS
<1>1. L!PDTypeOK'
  BY LeaderTypeHolds DEF LeaderInv, L!PDNext
<1>2. /\ UNCHANGED <<lStore, lLock, lStored, lLocked, lLockRoot, lDoneRoot, lSigned, lPd,
                     lCrashed>>
      /\ L!LeaderCorrect
  BY DEF L!PullTimer
<1>3. lNext \in PDFanout .. N /\ lServed = L!Recipients(lNext) /\ N \in Nat
      /\ PDFanout \in Int /\ PDFanout >= N - F /\ N - F >= 0
  BY <1>2, NodeFacts, PDAssumption DEF LeaderInv, L!PDTypeOK
<1>4. CASE lServed' = lServed \cup {(1 + lNext) % N} /\ lNext' = lNext + 1 /\ lTimer' = lTimer
           /\ lTimer
  <2>1. 0 .. (lNext + 1) - 1 = (0 .. lNext - 1) \cup {lNext}
    <3>1. lNext \in Nat
      BY <1>3, NodeFacts
    <3> QED
      BY <3>1
  <2>2. lServed' = L!Recipients(lNext')
    BY <1>3, <1>4, <2>1 DEF L!Recipients
  <2> QED
    BY <1>1, <1>2, <1>4, <2>2 DEF LeaderInv, L!LeaderCorrect, L!Threshold, L!Count, L!Share
<1>5. CASE /\ ~(lLockRoot = NoRoot /\ lNext < N /\ L!Count(lStored) < L!Threshold)
           /\ lTimer' = FALSE /\ UNCHANGED <<lServed, lNext>>
  <2>1. L!Count(lStored) \in Nat /\ L!Threshold \in Int
    BY CountNat
  <2>2. lNext = N \/ lLockRoot # NoRoot \/ L!Count(lStored) >= L!Threshold
    BY <1>3, <1>5, <2>1
  <2> QED
    BY <1>1, <1>2, <1>5, <2>2 DEF LeaderInv, L!LeaderCorrect, L!Threshold, L!Count, L!Share
<1>6. L!Count(lStored) = L!Cardinality({j \in L!Node : lStored[j] # NoRoot})
  BY DEF L!Count
<1> QED
  BY <1>4, <1>5, <1>6 DEF L!PullTimer

\* A stripe or a lock that is kept is signed.
LEMMA LeaderKeeps ==
    ASSUME NEW i \in L!Correct, LeaderInv, L!OnStore(i) \/ L!OnLock(i) PROVE LeaderInv'
<1>1. L!PDTypeOK'
  <2>1. L!PDNext
    BY DEF L!PDNext
  <2> QED
    BY <2>1, LeaderTypeHolds DEF LeaderInv
<1>2. /\ UNCHANGED <<lServed, lNext, lTimer, lStored, lLocked, lLockRoot, lDoneRoot, lCrashed>>
      /\ lSigned \subseteq lSigned' /\ lPd[i] = "running"
      /\ lPd' = lPd \/ (i # 1 /\ lPd' = [lPd EXCEPT ![i] = "returned"])
  BY DEF L!OnStore, L!OnLock, L!Running
<1>3. ASSUME NEW k \in L!Correct
      PROVE  /\ lStore'[k] # NoRoot => L!Share(k, "STORED", lStore'[k]) \in lSigned'
             /\ lLock'[k] # NoRoot => L!Share(k, "LOCKED", lLock'[k]) \in lSigned'
             /\ lPd'[k] = "returned" /\ k # 1 => lStore'[k] # NoRoot /\ lLock'[k] # NoRoot
             /\ lPd'[k] = "failed" => k = 1
  <2>1. CASE L!OnStore(i)
    <3>1. PICK r \in {Good} : /\ lStore' = [lStore EXCEPT ![i] = r]
                              /\ lSigned' = lSigned \cup {L!Share(i, "STORED", r)}
                              /\ lPd' = IF i # 1 /\ lLock[i] # NoRoot
                                          THEN [lPd EXCEPT ![i] = "returned"] ELSE lPd
                              /\ UNCHANGED lLock
      BY <2>1 DEF L!OnStore
    <3>2. r # NoRoot
      BY NodeFacts
    <3> QED
      BY <1>2, <3>1, <3>2 DEF LeaderInv, L!PDTypeOK
  <2>2. CASE L!OnLock(i)
    <3>1. PICK r \in {Good} : /\ lLock' = [lLock EXCEPT ![i] = r]
                              /\ lSigned' = lSigned \cup {L!Share(i, "LOCKED", r)}
                              /\ lPd' = IF i # 1 /\ lStore[i] # NoRoot
                                          THEN [lPd EXCEPT ![i] = "returned"] ELSE lPd
                              /\ UNCHANGED lStore
      BY <2>2 DEF L!OnLock
    <3>2. r # NoRoot
      BY NodeFacts
    <3> QED
      BY <1>2, <3>1, <3>2 DEF LeaderInv, L!PDTypeOK
  <2> QED
    BY <2>1, <2>2
<1>4. L!LeaderCorrect => lPd'[1] = lPd[1]
  BY <1>2 DEF LeaderInv, L!PDTypeOK, L!LeaderCorrect
<1> QED
  BY <1>1, <1>2, <1>3, <1>4 DEF LeaderInv, L!LeaderCorrect, L!Threshold, L!Count

\* With the n-f-th share a collection is complete: a certificate, or the end.
LEMMA LeaderCollects ==
    ASSUME NEW j \in Node, LeaderInv, L!OnStored(j) \/ L!OnLocked(j) PROVE LeaderInv'
<1>1. L!PDTypeOK'
  <2>1. L!PDNext
    BY LeaderFacts DEF L!PDNext
  <2> QED
    BY <2>1, LeaderTypeHolds DEF LeaderInv
<1>2. /\ UNCHANGED <<lServed, lNext, lTimer, lStore, lLock, lSigned, lCrashed>>
      /\ L!LeaderCorrect /\ 1 \in L!Correct /\ lPd[1] = "running"
      /\ \/ lPd' = lPd
         \/ lPd' = [lPd EXCEPT ![1] = "failed"] \/ lPd' = [lPd EXCEPT ![1] = "returned"]
  BY DEF L!OnStored, L!OnLocked, L!Running, L!LeaderCorrect
<1>3. \A k \in L!Correct : /\ lPd'[k] = "returned" /\ k # 1 => lPd[k] = "returned"
                           /\ lPd'[k] = "failed" => lPd[k] = "failed" \/ k = 1
  BY <1>2 DEF LeaderInv, L!PDTypeOK
<1>4. /\ lTimer \/ lNext = N \/ lLockRoot' # NoRoot \/ L!Count(lStored') >= L!Threshold
      /\ lPd'[1] = "running" =>
            /\ L!Count(lStored') >= L!Threshold => lLockRoot' # NoRoot
            /\ ~(L!Count(lLocked') >= L!Threshold)
  <2>1. CASE L!OnStored(j)
    <3>1. PICK r \in {Good} :
            /\ lStored' = [lStored EXCEPT ![j] = r] /\ UNCHANGED lLocked
            /\ lLockRoot' = IF /\ L!Count([lStored EXCEPT ![j] = r]) >= L!Threshold
                               /\ lLockRoot = NoRoot
                               /\ L!Recovers([lStored EXCEPT ![j] = r], r)
                              THEN r ELSE lLockRoot
            /\ lPd' = IF /\ L!Count([lStored EXCEPT ![j] = r]) >= L!Threshold
                         /\ lLockRoot = NoRoot
                         /\ ~L!Recovers([lStored EXCEPT ![j] = r], r)
                        THEN [lPd EXCEPT ![1] = "failed"] ELSE lPd
      BY <2>1 DEF L!OnStored
    <3>2. r # NoRoot
      BY NodeFacts
    <3>3. L!Count(lStored') >= L!Count(lStored)
      <4>1. lStored \in [Node -> {Good, NoRoot}]
        BY LeaderFacts DEF LeaderInv, L!PDTypeOK, L!RootOrNone
      <4>2. L!Count([lStored EXCEPT ![j] = r]) >= L!Count(lStored)
        BY <4>1, CountGrows
      <4> QED
        BY <3>1, <4>2
    <3>4. L!Count(lStored') \in Nat /\ L!Count(lStored) \in Nat /\ L!Threshold \in Int
      BY CountNat
    <3>5. lPd'[1] = "running" => lPd' = lPd
      BY <1>2 DEF LeaderInv, L!PDTypeOK
    <3>6. lPd' = lPd /\ L!Count(lStored') >= L!Threshold => lLockRoot' # NoRoot
      <4>1. lPd # [lPd EXCEPT ![1] = "failed"]
        BY <1>2 DEF LeaderInv, L!PDTypeOK
      <4> QED
        BY <3>1, <3>2, <4>1
    <3> QED
      BY <1>2, <3>1, <3>2, <3>3, <3>4, <3>5, <3>6 DEF LeaderInv
  <2>2. CASE L!OnLocked(j)
    <3>1. PICK r \in {Good} :
            /\ lLocked' = [lLocked EXCEPT ![j] = r] /\ UNCHANGED <<lStored, lLockRoot>>
            /\ lPd' = IF L!Count([lLocked EXCEPT ![j] = r]) >= L!Threshold
                        THEN [lPd EXCEPT ![1] =
                                IF L!Recovers([lLocked EXCEPT ![j] = r], r)
                                  THEN "returned" ELSE "failed"]
                        ELSE lPd
      BY <2>2 DEF L!OnLocked
    <3>2. lPd'[1] = "running" => ~(L!Count(lLocked') >= L!Threshold) /\ lPd' = lPd
      BY <1>2, <3>1 DEF LeaderInv, L!PDTypeOK
    <3> QED
      BY <1>2, <3>1, <3>2 DEF LeaderInv
  <2> QED
    BY <2>1, <2>2
<1> QED
  BY <1>1, <1>2, <1>3, <1>4 DEF LeaderInv, L!LeaderCorrect, L!Threshold, L!Count

\* Every step keeps the invariant: also when the node of a worker stops, or QuitPD
\* cancels the worker.
LEMMA LeaderStepInv == LeaderInv /\ [L!PDNext]_leaderVars => LeaderInv'
<1> SUFFICES ASSUME LeaderInv, [L!PDNext]_leaderVars PROVE LeaderInv'
  OBVIOUS
<1>0. L!PDTypeOK'
  BY LeaderTypeHolds DEF LeaderInv
<1>1. CASE L!PullTimer
  BY <1>1, LeaderTimer
<1>2. ASSUME NEW i \in L!Correct, L!OnStore(i) \/ L!OnLock(i) PROVE LeaderInv'
  BY <1>2, LeaderKeeps
<1>3. ASSUME NEW j \in L!Node, L!OnStored(j) \/ L!OnLocked(j) PROVE LeaderInv'
  BY <1>3, LeaderCollects, LeaderFacts
<1>4. ASSUME NEW i \in L!Correct, L!Quit(i) PROVE LeaderInv'
  <2>1. lPd' = [lPd EXCEPT ![i] = "cancelled"]
        /\ UNCHANGED <<lServed, lNext, lTimer, lStore, lLock, lStored, lLocked, lLockRoot,
                       lDoneRoot, lSigned, lCrashed>>
    BY <1>4 DEF L!Quit
  <2>2. \A k \in L!Correct : lPd'[k] = lPd[k] \/ lPd'[k] = "cancelled"
    BY <2>1 DEF LeaderInv, L!PDTypeOK
  <2>3. L!LeaderCorrect /\ lPd'[1] = "running" => lPd[1] = "running"
    BY <2>2 DEF L!LeaderCorrect
  <2> QED
    BY <1>0, <2>1, <2>2, <2>3 DEF LeaderInv, L!LeaderCorrect, L!Threshold, L!Count
<1>5. ASSUME NEW i \in L!Correct, L!Crash(i) PROVE LeaderInv'
  <2>1. lCrashed' = lCrashed \cup {i} /\ i \notin lCrashed /\ Cardinality(lCrashed) < F
        /\ UNCHANGED <<lServed, lNext, lTimer, lStore, lLock, lStored, lLocked, lLockRoot,
                       lDoneRoot, lSigned, lPd>>
    BY <1>5, LeaderFacts DEF L!Crash
  <2>2. Cardinality(lCrashed') <= F
    <3>1. IsFiniteSet(lCrashed) /\ Cardinality(lCrashed) \in Nat
      BY LeaderFacts, NodeFacts, SubsetCount DEF LeaderInv, L!PDTypeOK
    <3>2. Cardinality(lCrashed \cup {i}) = Cardinality(lCrashed) + 1
      BY <2>1, <3>1, FS_AddElement
    <3> QED
      BY <2>1, <3>1, <3>2, NodeFacts
  <2> QED
    BY <1>0, <2>1, <2>2 DEF LeaderInv, L!LeaderCorrect, L!Threshold, L!Count
<1>6. CASE UNCHANGED leaderVars
  BY <1>0, <1>6 DEF leaderVars, LeaderInv, L!LeaderCorrect, L!Threshold, L!Count
<1> QED
  BY <1>1, <1>2, <1>3, <1>4, <1>5, <1>6 DEF L!PDNext

\* At first nothing is collected, and the first PDFanout nodes are served.
LEMMA LeaderInitInv == L!PDInit => LeaderInv
<1> SUFFICES ASSUME L!PDInit PROVE LeaderInv
  OBVIOUS
<1>1. L!PDTypeOK
  BY LeaderInitType
<1>2. PDFanout \in N - F .. N /\ N \in Nat /\ F \in Nat /\ N > F
  BY NodeFacts, PDAssumption
<1>3. L!Count(lStored) = 0 /\ L!Count(lLocked) = 0
  <2>1. {j \in Node : lStored[j] # NoRoot} = {} /\ {j \in Node : lLocked[j] # NoRoot} = {}
    BY LeaderFacts DEF L!PDInit
  <2> QED
    BY <2>1, LeaderFacts, FS_EmptySet
<1>4. ~(L!Count(lStored) >= L!Threshold) /\ ~(L!Count(lLocked) >= L!Threshold)
  BY <1>2, <1>3, LeaderFacts
<1>5. lTimer \/ lNext = N
  <2>1. PDFanout < N \/ PDFanout = N
    BY <1>2
  <2> QED
    BY <2>1 DEF L!PDInit
<1>6. Cardinality(lCrashed) <= F
  BY <1>2, FS_EmptySet DEF L!PDInit
<1>7. \A i \in L!Correct : lStore[i] = NoRoot /\ lLock[i] = NoRoot /\ lPd[i] = "running"
  BY DEF L!PDInit
<1>8. L!LeaderCorrect => lServed = L!Recipients(lNext)
  BY DEF L!PDInit
<1> QED
  BY <1>1, <1>4, <1>5, <1>6, <1>7, <1>8 DEF LeaderInv

\* At rest a leader that runs on has served the ring and heard all live nodes:
\* both collections are complete, which ends it.
LEMMA LeaderInvHolds == LeaderInv => L!LeaderFinishes
<1> SUFFICES ASSUME LeaderInv, L!LeaderCorrect, L!PDAtRest, lPd[1] = "running",
                    1 \notin lCrashed, \A i \in L!Correct : lPd[i] # "cancelled"
             PROVE  FALSE
  BY DEF L!LeaderFinishes
<1> DEFINE Live == Node \ lCrashed
           Sent(s) == {j \in Node : s[j] # NoRoot}
<1>1. 1 \in Node /\ L!Running(1) /\ L!Node = Node /\ L!Correct = Node
  BY LeaderFacts DEF L!Running
<1>2. Live \subseteq Node /\ Cardinality(Live) >= N - F
  <2>1. lCrashed \subseteq Node /\ Cardinality(lCrashed) <= F
    BY <1>1 DEF LeaderInv, L!PDTypeOK
  <2>2. IsFiniteSet(Live) /\ IsFiniteSet(lCrashed) /\ Live \cap lCrashed = {}
        /\ Live \cup lCrashed = Node
    BY <2>1, NodeFacts, SubsetCount
  <2>3. /\ Cardinality(Node) = Cardinality(Live) + Cardinality(lCrashed)
        /\ Cardinality(Live) \in Nat /\ Cardinality(lCrashed) \in Nat
    BY <2>2, DisjointCount
  <2> QED
    BY <2>1, <2>3, NodeFacts
<1>3. ASSUME NEW s, Live \subseteq Sent(s) PROVE L!Count(s) >= L!Threshold
  <2>1. Sent(s) \subseteq Node
    OBVIOUS
  <2>2. /\ Cardinality(Live) <= Cardinality(Sent(s))
        /\ Cardinality(Live) \in Nat /\ Cardinality(Sent(s)) \in Nat
    <3>1. IsFiniteSet(Sent(s))
      BY <2>1, NodeFacts, SubsetCount
    <3> QED
      BY <1>3, <3>1, SubsetCount
  <2>3. L!Count(s) = Cardinality(Sent(s))
    BY LeaderFacts
  <2> QED
    BY <1>2, <2>2, <2>3, NodeFacts, LeaderFacts
<1>4. ASSUME NEW i \in Live
      PROVE  /\ L!Running(i) \/ (lStore[i] # NoRoot /\ lLock[i] # NoRoot)
             /\ lStore[i] \in {Good, NoRoot} /\ lLock[i] \in {Good, NoRoot}
  BY <1>1, <1>4 DEF LeaderInv, L!PDTypeOK, L!RootOrNone, L!Running
<1>5. lLockRoot # NoRoot
  <2> SUFFICES ASSUME lLockRoot = NoRoot PROVE FALSE
    OBVIOUS
  <2>1. ~(L!Count(lStored) >= L!Threshold)
    BY DEF LeaderInv
  <2>2. lNext = N /\ lServed = Node
    BY <1>1, <2>1, RingIsAll DEF LeaderInv, L!PDAtRest
  <2>3. ASSUME NEW i \in Live PROVE lStored[i] # NoRoot
    <3>1. lStore[i] = Good
      <4>1. L!OffersStore(i, Good)
        BY <1>1, <2>2 DEF L!OffersStore
      <4> QED
        BY <1>1, <1>4, <4>1 DEF L!PDAtRest
    <3>2. i \in L!Signers("STORED", Good)
      <4>1. Good # NoRoot
        BY NodeFacts
      <4> QED
        BY <1>1, <3>1, <4>1 DEF LeaderInv, L!Signers
    <3> QED
      BY <1>1, <3>2 DEF L!PDAtRest
  <2> QED
    BY <1>2, <1>3, <2>1, <2>3
<1>6. lLockRoot = Good
  BY <1>5 DEF LeaderInv, L!PDTypeOK, L!RootOrNone
<1>7. ASSUME NEW i \in Live PROVE lLocked[i] # NoRoot
  <2>1. lLock[i] = Good
    <3>1. L!OffersLock(Good)
      BY <1>6 DEF L!OffersLock
    <3> QED
      BY <1>1, <1>4, <3>1 DEF L!PDAtRest
  <2>2. i \in L!Signers("LOCKED", Good)
    <3>1. Good # NoRoot
      BY NodeFacts
    <3> QED
      BY <1>1, <2>1, <3>1 DEF LeaderInv, L!Signers
  <2> QED
    BY <1>1, <2>2 DEF L!PDAtRest
<1>8. L!Count(lLocked) >= L!Threshold
  BY <1>2, <1>3, <1>7
<1> QED
  BY <1>8 DEF LeaderInv

\* The three scenarios together.
DispersalInv == RCInv /\ QuitCounts /\ LeaderInv

\* Dispersal, recast and leaving keep their invariants side by side.
THEOREM DispersalInvariance == MCSpec => []DispersalInv
<1>1. MCInit => DispersalInv
  <2>1. Q!QuitInit => QuitCounts
    <3> SUFFICES ASSUME Q!QuitInit PROVE QuitCounts
      OBVIOUS
    <3>1. QuitInv
      BY OutcomesAssumption DEF Q!QuitInit, QuitInv, Q!QuitTypeOK, Q!Correct, Correct
    <3>2. Cardinality({}) = 0 /\ ~(0 >= N - F) /\ ~(0 >= F + 1)
      BY NodeFacts, FS_EmptySet
    <3> QED
      BY <3>1, <3>2, QuitThresholds DEF Q!QuitInit, QuitCounts
  <2> QED
    BY <2>1, RCInitInv, LeaderInitInv DEF MCInit, DispersalInv
<1>2. DispersalInv /\ [MCNext]_<<scenario, vars, quitVars, leaderVars>> => DispersalInv'
  <2> SUFFICES ASSUME DispersalInv, [MCNext]_<<scenario, vars, quitVars, leaderVars>>
               PROVE  DispersalInv'
    OBVIOUS
  <2>1. [Next]_vars /\ [Q!QuitNext]_quitVars /\ [L!PDNext]_leaderVars
    BY DEF MCNext
  <2>2. quitVars = Q!quitVars
    BY DEF quitVars, Q!quitVars
  <2>3. QuitCounts'
    BY <2>1, <2>2, QuitCountsStep DEF DispersalInv, quitVars, Q!quitVars
  <2> QED
    BY <2>1, <2>3, RCNextInv, LeaderStepInv DEF DispersalInv
<1> QED
  BY <1>1, <1>2, PTL DEF MCSpec

\* The variables of runPDInstance, runRCSubprotocol and runQuitPD stay in their
\* ranges.
THEOREM TypesOKCorrect == MCSpec => []TypesOK
<1>1. DispersalInv => TypesOK
  BY DEF DispersalInv, RCInv, QuitCounts, QuitInv, LeaderInv, TypesOK
<1> QED
  BY <1>1, DispersalInvariance, PTL

\* Nobody leaves dispersal (runQuitPD) before n-f leaders have completed it,
\* whatever READY and FINISH the faulty nodes send.
THEOREM QuitJustifiedCorrect == MCSpec => []QuitJustified
<1>1. DispersalInv => QuitJustified
  BY QuitInvHolds DEF DispersalInv, QuitCounts
<1> QED
  BY <1>1, DispersalInvariance, PTL

\* Dispersal comes to rest only where nobody is left behind: all correct nodes
\* leave if one has (runQuitPD returns on the first FINISH) or if n-f leaders have
\* completed, and a correct leader that is not cancelled has broadcast DONE, with
\* up to f of its peers silent (runPDInstance and its pull timer).
THEOREM DispersalSettlesCorrect == MCSpec => []DispersalSettles
<1>1. DispersalInv => DispersalSettles
  BY QuitCountsHold, LeaderInvHolds DEF DispersalInv, DispersalSettles
<1> QED
  BY <1>1, DispersalInvariance, PTL
=============================================================================

--------------------------- MODULE ExchangesProofs ---------------------------
(***************************************************************************)
(* The exchanges of an epoch, for every committee: one certified pool per  *)
(* proposer and one contributor coin (n >= 3f+1); a certified aggregate    *)
(* has been verified by a correct validator (every sample with a faulty    *)
(* minority); the outputs of the new committee stand (every new committee, *)
(* every number of repetitions and crashes); and at rest signers have the  *)
(* pool and the result that they signed for.                               *)
(***************************************************************************)
EXTENDS MCExchanges, QuorumLemmas

-----------------------------------------------------------------------------
(* The pool of a proposer and its certificate: module PoolCert. *)

\* A member has signed the pool it observed, and no other.
SignedPool ==
    \A i \in Correct : \A p \in Pools : <<i, p>> \in signed => pool[i] = p

\* A call of CertifyPool is one of a correct proposer, which starts it without
\* a pool.
CallState ==
    /\ call # "none" => proposer \in Correct
    /\ call = "before" => pool[proposer] = None

\* The shares a proposer holds are over its own pool.
SharesOfPool ==
    call \in {"offering", "certified"} =>
        /\ pool[proposer] \in Pools
        /\ \A j \in shares : j \in Correct => <<j, pool[proposer]>> \in signed

\* A certificate that verifies was signed by n-f members, also one that is kept
\* unverified.
WiresSigned ==
    \A i \in Correct : certWire[i] # None =>
        (certWire[i].valid => Certifiable(certWire[i].pool))

SeenSigned == \A i \in certSeen : \E p \in Pools : pool[i] = p /\ Certifiable(p)

CoinSeen == coin \subseteq certSeen

PoolInv ==
    TypeOK /\ SignedPool /\ CallState /\ SharesOfPool /\ WiresSigned /\ SeenSigned
      /\ CoinSeen

-----------------------------------------------------------------------------
\* What the assumption says about the sizes of the committee.
LEMMA CommitteeSizes ==
    /\ IsFiniteSet(Old) /\ Faulty \subseteq Old /\ F \in Nat
    /\ Cardinality(Faulty) <= F /\ Cardinality(Old) >= 3 * F + 1
    /\ Cardinality(Old) \in Nat /\ Threshold \in Int
    /\ Cardinality(Faulty) \in Nat
    /\ None \notin Pools /\ Built \in Pools /\ Sample \subseteq Old
<1>1. IsFiniteSet(Faulty)
  BY CommitteeAssumption, PoolAssumption, FS_Subset
<1> QED
  BY <1>1, CommitteeAssumption, PoolAssumption, FS_CardinalityType DEF Threshold

\* The signers of a pool can be counted.
LEMMA SignersFinite ==
    ASSUME NEW p
    PROVE  IsFiniteSet(Signers(p)) /\ Cardinality(Signers(p)) \in Nat
<1>1. Signers(p) \subseteq Old
  BY CommitteeSizes DEF Signers, Correct
<1> QED
  BY <1>1, CommitteeSizes, SubsetCount

\* Released shares stay released.
LEMMA CertifiableGrows ==
    ASSUME signed \subseteq signed', NEW p, Certifiable(p)
    PROVE  Certifiable(p)'
<1> DEFINE A == Signers(p)
           B == Signers(p)'
<1>1. A \subseteq B
  BY DEF Signers
<1>2. B \subseteq Old
  BY CommitteeSizes DEF Signers, Correct
<1>3. IsFiniteSet(B)
  BY <1>2, CommitteeSizes, SubsetCount
<1>4. /\ Cardinality(A) <= Cardinality(B)
      /\ Cardinality(A) \in Nat /\ Cardinality(B) \in Nat
  BY <1>1, <1>3, SubsetCount
<1> QED
  BY <1>4, CommitteeSizes DEF Certifiable, Threshold

\* Steps that release nothing new and leave the certificates alone.
LEMMA CertsStay ==
    ASSUME WiresSigned, SeenSigned, signed \subseteq signed',
           certWire' = certWire, certSeen' = certSeen,
           \A i \in certSeen : pool'[i] = pool[i]
    PROVE  WiresSigned' /\ SeenSigned'
<1>1. \A p : Certifiable(p) => Certifiable(p)'
  BY CertifiableGrows
<1> QED
  BY <1>1 DEF WiresSigned, SeenSigned

-----------------------------------------------------------------------------
\* Before the slot begins nothing is offered or signed.
LEMMA PoolInitInv == Init => PoolInv
<1> SUFFICES ASSUME Init PROVE PoolInv
  OBVIOUS
<1>1. TypeOK
  BY PoolAssumption DEF Init, TypeOK
<1>2. SignedPool /\ CallState /\ SharesOfPool /\ WiresSigned /\ SeenSigned /\ CoinSeen
  BY DEF Init, SignedPool, CallState, SharesOfPool, WiresSigned, SeenSigned,
         CoinSeen
<1> QED
  BY <1>1, <1>2 DEF PoolInv

\* Steps that touch neither pools, signatures nor certificates.
LEMMA PoolQuietInv ==
    ASSUME PoolInv,
           \/ \E i \in Correct : LearnEligibility(i) \/ DropOffer(i) \/ StartCoin(i)
           \/ RetryOffer
    PROVE  PoolInv'
<1> USE DEF PoolInv, LearnEligibility, DropOffer, StartCoin, RetryOffer
<1>0. /\ signed' = signed /\ certWire' = certWire /\ certSeen' = certSeen
      /\ pool' = pool /\ shares' = shares /\ call' = call /\ proposer' = proposer
  OBVIOUS
<1>1. TypeOK'
  BY PoolAssumption DEF TypeOK, Others, Correct
<1>2. SignedPool' /\ CallState' /\ SharesOfPool'
  BY <1>0 DEF SignedPool, CallState, SharesOfPool
<1>3. WiresSigned' /\ SeenSigned'
  BY <1>0, CertsStay
<1>4. CoinSeen'
  BY <1>0 DEF CoinSeen
<1> QED
  BY <1>1, <1>2, <1>3, <1>4

\* CertifyPool: the proposer signs the pool it has built.
LEMMA CertifyPoolInv ==
    ASSUME PoolInv, CertifyPool
    PROVE  PoolInv'
<1> USE DEF PoolInv, CertifyPool
<1>0. proposer \in Correct /\ pool[proposer] = None /\ proposer \notin certSeen
  BY CommitteeSizes DEF TypeOK, CallState, SeenSigned
<1>1. TypeOK'
  BY <1>0, CommitteeSizes DEF TypeOK, Others, Correct
<1>2. SignedPool'
  BY <1>0, CommitteeSizes DEF SignedPool, TypeOK
<1>3. CallState' /\ SharesOfPool'
  BY <1>0, CommitteeSizes DEF CallState, SharesOfPool, TypeOK
<1>4. WiresSigned' /\ SeenSigned'
  BY <1>0, CertsStay DEF TypeOK
<1>5. CoinSeen'
  BY DEF CoinSeen
<1> QED
  BY <1>1, <1>2, <1>3, <1>4, <1>5

\* handlePoolOffer: a member signs its first pool, and takes a kept certificate
\* only if it verifies for this pool.
LEMMA OnOfferInv ==
    ASSUME PoolInv, NEW i \in Correct, NEW p \in Pools, OnOffer(i, p)
    PROVE  PoolInv'
<1> USE DEF PoolInv, OnOffer
<1>0. /\ signed \subseteq signed' /\ certWire' = certWire
      /\ \A j \in Correct : pool[j] \in Pools => pool'[j] = pool[j]
      /\ pool' \in [Correct -> Pools \cup {None}] /\ pool'[i] = p /\ i # proposer
  BY CommitteeSizes DEF TypeOK
<1>a. certSeen \subseteq certSeen' /\ certSeen' \subseteq certSeen \cup {i}
  OBVIOUS
<1>b. i \in certSeen' \ certSeen => certWire[i] = Cert(p, TRUE)
  OBVIOUS
<1>1. TypeOK'
  <2>1. signed' \subseteq Correct \X Pools
    BY DEF TypeOK
  <2>2. certWire' \in [Correct -> Certs \cup {None}]'
    BY <1>0 DEF TypeOK, Certs
  <2> QED
    BY <1>0, <1>a, <2>1, <2>2 DEF TypeOK
<1>2. SignedPool'
  BY <1>0, CommitteeSizes DEF SignedPool, TypeOK
<1>3. CallState' /\ SharesOfPool'
  BY <1>0 DEF CallState, SharesOfPool, TypeOK
<1>4. \A q : Certifiable(q) => Certifiable(q)'
  BY <1>0, CertifiableGrows
<1>5. WiresSigned'
  BY <1>0, <1>4 DEF WiresSigned
<1>6. SeenSigned'
  <2> SUFFICES ASSUME NEW j \in certSeen'
               PROVE  \E q \in Pools : pool'[j] = q /\ Certifiable(q)'
    BY DEF SeenSigned
  <2>1. CASE j \in certSeen
    <3>1. PICK q \in Pools : q = pool[j] /\ Certifiable(q) /\ j \in Correct
      BY <2>1 DEF SeenSigned, TypeOK
    <3>2. pool'[j] = q /\ Certifiable(q)'
      BY <1>0, <1>4, <3>1
    <3> QED
      BY <3>2
  <2>2. CASE j \notin certSeen
    <3>1. j = i /\ certWire[i] = Cert(p, TRUE)
      BY <1>a, <1>b, <2>2
    <3>2. certWire[i] # None /\ certWire[i].valid /\ certWire[i].pool = p
      <4>1. Cert(p, TRUE) \in [pool : Pools, valid : BOOLEAN]
        BY DEF Cert
      <4>2. Cert(p, TRUE).valid /\ Cert(p, TRUE).pool = p
        BY DEF Cert
      <4> QED
        BY <3>1, <4>1, <4>2, PoolAssumption
    <3>3. Certifiable(p)
      BY <3>2 DEF WiresSigned
    <3> QED
      BY <1>0, <1>4, <3>1, <3>3
  <2> QED
    BY <2>1, <2>2
<1>7. CoinSeen'
  BY DEF CoinSeen
<1> QED
  BY <1>1, <1>2, <1>3, <1>5, <1>6, <1>7

\* handlePoolCertificateShare counts valid shares over the own pool.
LEMMA OnShareInv ==
    ASSUME PoolInv, NEW j \in Old, OnShare(j)
    PROVE  PoolInv'
<1> USE DEF PoolInv, OnShare
<1>1. TypeOK'
  BY DEF TypeOK
<1>2. SignedPool' /\ CallState'
  BY DEF SignedPool, CallState
<1>3. SharesOfPool'
  BY DEF SharesOfPool, Signers, Correct
<1>4. WiresSigned' /\ SeenSigned'
  BY CertsStay
<1>5. CoinSeen'
  BY DEF CoinSeen
<1> QED
  BY <1>1, <1>2, <1>3, <1>4, <1>5

\* The n-f shares a proposer collected are n-f signatures over its pool.
LEMMA RecoverCertifiable ==
    ASSUME PoolInv, Recover
    PROVE  pool[proposer] \in Pools /\ Certifiable(pool[proposer])
<1> DEFINE p == pool[proposer]
<1>1. p \in Pools /\ shares \subseteq Signers(p)
  BY DEF PoolInv, Recover, SharesOfPool, Signers, TypeOK, Correct
<1>2. /\ Cardinality(shares) <= Cardinality(Signers(p))
      /\ Cardinality(shares) \in Nat /\ Cardinality(Signers(p)) \in Nat
  BY <1>1, SignersFinite, SubsetCount
<1> QED
  BY <1>1, <1>2, CommitteeSizes DEF Certifiable, Recover

\* The recovered certificate is one of n-f members.
LEMMA RecoverInv ==
    ASSUME PoolInv, Recover
    PROVE  PoolInv'
<1>0. pool[proposer] \in Pools /\ Certifiable(pool[proposer]) /\ proposer \in Correct
  BY RecoverCertifiable DEF PoolInv, Recover, CallState
<1> USE DEF PoolInv, Recover
<1>1. TypeOK'
  <2>1. PICK c \in Certs : c = Cert(pool[proposer], TRUE)
    BY <1>0 DEF Certs, Cert
  <2>2. certWire' \in [Correct -> Certs \cup {None}]
    BY <1>0, <2>1 DEF TypeOK
  <2>4. certSeen' \subseteq Correct /\ certs' \subseteq Correct
    BY <1>0 DEF TypeOK, Others
  <2> QED
    BY <1>0, <2>2, <2>4 DEF TypeOK
<1>2. SignedPool' /\ CallState' /\ SharesOfPool'
  BY DEF SignedPool, CallState, SharesOfPool
<1>3. \A p : Certifiable(p) => Certifiable(p)'
  BY CertifiableGrows
<1>4. WiresSigned'
  BY <1>0, <1>3 DEF WiresSigned, TypeOK, Cert
<1>5. SeenSigned'
  BY <1>0, <1>3 DEF SeenSigned
<1>6. CoinSeen'
  BY DEF CoinSeen
<1> QED
  BY <1>1, <1>2, <1>4, <1>5, <1>6

\* handlePoolCertificate marks as seen only what verifies.
LEMMA OnCertificateInv ==
    ASSUME PoolInv, NEW i \in Correct, NEW c \in Certs, OnCertificate(i, c)
    PROVE  PoolInv'
<1> USE DEF PoolInv, OnCertificate
<1>0. c.valid => Certifiable(c.pool)
  <2>1. CASE proposer \in Correct
    <3>1. c = certWire[proposer]
      BY <2>1 DEF CertOffered
    <3>2. c # None
      BY PoolAssumption DEF Certs, Cert
    <3> QED
      BY <2>1, <3>1, <3>2 DEF WiresSigned
  <2>2. CASE proposer \notin Correct
    BY <2>2 DEF CertOffered
  <2> QED
    BY <2>1, <2>2
<1>1. TypeOK'
  BY DEF TypeOK
<1>2. SignedPool' /\ CallState' /\ SharesOfPool'
  BY DEF SignedPool, CallState, SharesOfPool
<1>3. \A p : Certifiable(p) => Certifiable(p)'
  BY CertifiableGrows
<1>4. WiresSigned'
  BY <1>0, <1>3 DEF WiresSigned, TypeOK
<1>5. SeenSigned'
  <2>1. CASE pool[i] = None
    BY <1>3, <2>1 DEF SeenSigned
  <2>2. CASE pool[i] # None
    <3>1. c.pool = pool[i] /\ c.valid /\ pool[i] \in Pools
      BY <2>2 DEF TypeOK
    <3> QED
      BY <1>0, <1>3, <2>2, <3>1 DEF SeenSigned
  <2> QED
    BY <2>1, <2>2
<1>6. CoinSeen'
  BY DEF CoinSeen
<1> QED
  BY <1>1, <1>2, <1>4, <1>5, <1>6

\* Every step preserves the invariant.
LEMMA PoolStepInv == PoolInv /\ [Next]_vars => PoolInv'
<1> SUFFICES ASSUME PoolInv, [Next]_vars PROVE PoolInv'
  OBVIOUS
<1>1. ASSUME NEW i \in Correct, LearnEligibility(i) \/ DropOffer(i) \/ StartCoin(i)
      PROVE  PoolInv'
  BY <1>1, PoolQuietInv
<1>2. CASE RetryOffer
  BY <1>2, PoolQuietInv
<1>3. CASE CertifyPool
  BY <1>3, CertifyPoolInv
<1>4. ASSUME NEW i \in Correct, NEW p \in Pools, OnOffer(i, p) PROVE PoolInv'
  BY <1>4, OnOfferInv
<1>5. ASSUME NEW j \in Old, OnShare(j) PROVE PoolInv'
  BY <1>5, OnShareInv
<1>6. CASE Recover
  BY <1>6, RecoverInv
<1>7. ASSUME NEW i \in Correct, NEW c \in Certs, OnCertificate(i, c) PROVE PoolInv'
  BY <1>7, OnCertificateInv
<1>8. CASE UNCHANGED vars
  BY <1>8, CertsStay DEF vars, PoolInv, TypeOK, SignedPool, CallState, SharesOfPool,
                         CoinSeen
<1> QED
  BY <1>1, <1>2, <1>3, <1>4, <1>5, <1>6, <1>7, <1>8 DEF Next

-----------------------------------------------------------------------------
\* The inductive invariant of pool certification.
THEOREM PoolInvariance == Spec => []PoolInv
<1>1. Init => PoolInv
  BY PoolInitInv
<1>2. PoolInv /\ [Next]_vars => PoolInv'
  BY PoolStepInv
<1> QED
  BY <1>1, <1>2, PTL DEF Spec

\* Two sets of n-f signers share a correct member, which signs one pool.
LEMMA CertifiableUnique ==
    ASSUME PoolInv, NEW p \in Pools, NEW q \in Pools, Certifiable(p), Certifiable(q)
    PROVE  p = q
<1> DEFINE S == {i \in Correct : <<i, p>> \in signed}
           T == {i \in Correct : <<i, q>> \in signed}
<1>1. S \in SUBSET (Old \ Faulty) /\ T \in SUBSET (Old \ Faulty)
  BY DEF Correct
<1>2. /\ Cardinality(S \cup Faulty) >= Cardinality(Old) - F
      /\ Cardinality(T \cup Faulty) >= Cardinality(Old) - F
  BY DEF Certifiable, Signers, Threshold
<1> HIDE DEF S, T
<1>3. PICK i \in S : i \in T
  BY <1>1, <1>2, CommitteeSizes, SignersMeet
<1>4. i \in Correct /\ pool[i] = p /\ pool[i] = q
  BY <1>3 DEF S, T, PoolInv, SignedPool
<1> QED
  BY <1>4

\* CertifiedPoolUnique: a member signs the first pool a proposer offers it
\* (observePool, markSigned), so one pool per proposer can be certified.
THEOREM CertifiedPoolUniqueCorrect == Spec => []CertifiedPoolUnique
<1>1. PoolInv => CertifiedPoolUnique
  BY CertifiableUnique DEF PoolInv, SeenSigned, CertifiedPoolUnique
<1> QED
  BY <1>1, PoolInvariance, PTL

\* CertifiedPoolBacked: n-2f correct members observed a certified pool.
THEOREM CertifiedPoolBackedCorrect == Spec => []CertifiedPoolBacked
<1>1. ASSUME PoolInv, NEW i \in certSeen
      PROVE  Cardinality({j \in Correct : pool[j] = pool[i]}) >= Threshold - F
  <2>0. PICK p \in Pools : p = pool[i] /\ Certifiable(p)
    BY <1>1 DEF PoolInv, SeenSigned
  <2> DEFINE S == {j \in Correct : <<j, p>> \in signed}
             R == {j \in Correct : pool[j] = p}
  <2>1. S \subseteq R /\ R \subseteq Old /\ S \in SUBSET (Old \ Faulty)
    BY <1>1 DEF PoolInv, SignedPool, Correct
  <2>2. Cardinality(S \cup Faulty) >= Threshold
    BY <2>0 DEF Certifiable, Signers
  <2>3. R = {j \in Correct : pool[j] = pool[i]}
    BY <2>0
  <2> HIDE DEF S, R
  <2>4. Cardinality(S) \in Nat /\ Cardinality(S) >= Threshold - F
    BY <2>1, <2>2, CommitteeSizes, CorrectSigners
  <2>5. Cardinality(S) <= Cardinality(R) /\ Cardinality(R) \in Nat
    <3>1. IsFiniteSet(R)
      BY <2>1, CommitteeSizes, SubsetCount
    <3> QED
      BY <2>1, <3>1, SubsetCount
  <2>6. Cardinality(R) >= Threshold - F
    BY <2>4, <2>5, CommitteeSizes
  <2> QED
    BY <2>3, <2>6
<1>2. PoolInv => CertifiedPoolBacked
  BY <1>1 DEF CertifiedPoolBacked
<1> QED
  BY <1>2, PoolInvariance, PTL

\* Among f+1 coin shares is one of a correct member, which had the certificate.
LEMMA RevealedCertified ==
    ASSUME PoolInv, NEW p \in Pools, CoinRevealed(p)
    PROVE  Certifiable(p)
<1> DEFINE S == {i \in coin : pool[i] = p}
<1>1. S # {}
  <2> SUFFICES ASSUME S = {} PROVE FALSE
    OBVIOUS
  <2>1. S \cup Faulty = Faulty
    OBVIOUS
  <2> QED
    BY <2>1, CommitteeSizes DEF CoinRevealed
<1>2. PICK i \in coin : pool[i] = p
  BY <1>1
<1> QED
  BY <1>2 DEF PoolInv, CoinSeen, SeenSigned

\* CoinAfterCertificate: ContributorCoin requires the pool certificate, so the
\* coin of a pool is secret until the pool is fixed.
THEOREM CoinAfterCertificateCorrect == Spec => []CoinAfterCertificate
<1>1. PoolInv => CoinAfterCertificate
  BY RevealedCertified, CertifiableUnique DEF CoinAfterCertificate
<1> QED
  BY <1>1, PoolInvariance, PTL

-----------------------------------------------------------------------------
(* Where the certificate of a correct proposer gets to. *)

\* All sign the one pool of a correct proposer and keep its one certificate, which
\* after it was sent is on its way to a member or has been taken there; and who has
\* both pool and certificate has looked at it.
CertificatesKept ==
    proposer \in Correct =>
        /\ \A i \in Correct : pool[i] \in {None, pool[proposer]}
        /\ \A i \in Others :
              /\ certWire[i] \in {None, certWire[proposer]}
              /\ certWire[i] # None /\ pool[i] # None => i \in certSeen
        /\ call # "certified" => certWire[proposer] = None /\ certs = {}
        /\ call = "certified" =>
              /\ certWire[proposer] = Cert(pool[proposer], TRUE) /\ proposer \in certSeen
              /\ \A i \in Others : i \in certs \/ certWire[i] # None

\* A certificate is not the absence of one.
LEMMA CertIsNotNone == \A c \in Certs : c # None
BY PoolAssumption DEF Certs

\* Every step of the slot keeps it so.
LEMMA CertificatesKeptStep ==
    PoolInv /\ PoolInv' /\ CertificatesKept /\ [Next]_vars => CertificatesKept'
<1> SUFFICES ASSUME PoolInv, PoolInv', CertificatesKept, [Next]_vars, proposer' \in Correct
             PROVE  CertificatesKept'
  BY DEF CertificatesKept
<1>0. /\ proposer' = proposer /\ proposer \in Correct /\ Others' = Others
      /\ Others \subseteq Correct /\ proposer \notin Others
      /\ pool \in [Correct -> Pools \cup {None}] /\ None \notin Pools /\ Built \in Pools
      /\ certWire \in [Correct -> Certs \cup {None}]
  BY CommitteeSizes DEF Next, vars, CertifyPool, RetryOffer, Recover, LearnEligibility,
     DropOffer, StartCoin, OnOffer, OnCertificate, OnShare, Others, PoolInv, TypeOK
<1>1. ASSUME UNCHANGED <<pool, certs, certWire, certSeen, call>> PROVE CertificatesKept'
  BY <1>0, <1>1 DEF CertificatesKept
<1>2. CASE CertifyPool
  <2>1. pool[proposer] = None /\ \A i \in Others : pool'[i] = None
    BY <1>0, <1>2 DEF CertifyPool, PoolInv, CallState, CertificatesKept
  <2> QED
    BY <1>0, <1>2, <2>1 DEF CertifyPool, CertificatesKept
<1>3. ASSUME NEW i \in Correct, NEW p \in Pools, OnOffer(i, p) PROVE CertificatesKept'
  <2>1. i \in Others /\ p = pool[proposer] /\ pool' = [pool EXCEPT ![i] = p]
        /\ UNCHANGED <<certs, certWire, call>>
        /\ certSeen' = IF certWire[i] = Cert(p, TRUE) THEN certSeen \cup {i} ELSE certSeen
    BY <1>0, <1>3 DEF OnOffer, Offered, Others
  <2>2. certWire[i] # None => certWire[i] = Cert(p, TRUE)
    BY <1>0, <2>1 DEF CertificatesKept
  <2> QED
    BY <1>0, <2>1, <2>2 DEF CertificatesKept
<1>4. CASE Recover
  <2>1. /\ call = "offering" /\ call' = "certified" /\ certSeen' = certSeen \cup {proposer}
        /\ certWire' = [certWire EXCEPT ![proposer] = Cert(pool[proposer], TRUE)]
        /\ certs' = Others /\ pool' = pool
    BY <1>4 DEF Recover
  <2>2. \A i \in Others : certWire'[i] = None
    BY <1>0, <2>1 DEF CertificatesKept
  <2> QED
    BY <1>0, <2>1, <2>2 DEF CertificatesKept
<1>5. ASSUME NEW i \in Correct, NEW c \in Certs, OnCertificate(i, c) PROVE CertificatesKept'
  <2>1. i \in Others /\ i \in certs /\ c = certWire[proposer] /\ c # None
        /\ UNCHANGED <<pool, call>> /\ certs' = certs \ {i}
        /\ certWire' = [certWire EXCEPT ![i] = c]
        /\ \/ pool[i] = None /\ certSeen' = certSeen
           \/ pool[i] # None /\ certSeen' = certSeen \cup {i}
    BY <1>0, <1>5, CertIsNotNone DEF OnCertificate, CertOffered, Others
  <2>2. call = "certified" /\ certWire'[proposer] = certWire[proposer]
    BY <1>0, <2>1 DEF CertificatesKept
  <2> QED
    BY <1>0, <2>1, <2>2 DEF CertificatesKept
<1>6. CASE \/ RetryOffer \/ UNCHANGED vars
           \/ \E i \in Correct : LearnEligibility(i) \/ DropOffer(i) \/ StartCoin(i)
           \/ \E j \in Old : OnShare(j)
  BY <1>1, <1>6 DEF RetryOffer, vars, LearnEligibility, DropOffer, StartCoin, OnShare
<1> QED
  BY <1>2, <1>3, <1>4, <1>5, <1>6 DEF Next

\* Whoever signed the pool of a correct proposer joins its coin.
LEMMA SignersJoinHolds == PoolInv /\ CertificatesKept => SignersJoin
<1> SUFFICES ASSUME PoolInv, CertificatesKept, proposer \in Correct, call = "certified",
                    PoolAtRest, NEW i \in Correct, pool[i] # None
             PROVE  i \in coin
  BY DEF SignersJoin
<1> DEFINE c == Cert(pool[proposer], TRUE)
<1>1. certSeen \subseteq coin
  BY DEF PoolAtRest
<1>2. CASE i = proposer
  BY <1>1, <1>2 DEF CertificatesKept
<1>3. CASE i # proposer
  <2>1. pool[i] = pool[proposer] /\ pool[i] \in Pools
    BY DEF CertificatesKept, PoolInv, TypeOK
  <2>2. c \in Certs /\ c.pool = pool[i] /\ c.valid /\ c = certWire[proposer]
    BY <2>1 DEF Certs, Cert, CertificatesKept
  <2>3. i \notin certs
    BY <1>3, <2>2 DEF PoolAtRest, CertOffered
  <2>4. i \in certSeen
    BY <1>3, <2>3 DEF CertificatesKept, Others
  <2> QED
    BY <1>1, <2>4
<1> QED
  BY <1>2, <1>3

\* In a slot the certificate of a correct proposer gets to all that have signed,
\* also when it overtook the offer (handlePoolOffer looks at state.certWire).
THEOREM SignersJoinCorrect == Spec => []SignersJoin
<1>1. Init => CertificatesKept
  BY PoolAssumption DEF Init, CertificatesKept, Others
<1>2. PoolInv /\ PoolInv' /\ CertificatesKept /\ [Next]_vars => CertificatesKept'
  BY CertificatesKeptStep
<1> QED
  BY <1>1, <1>2, PoolInvariance, SignersJoinHolds, PTL DEF Spec

-----------------------------------------------------------------------------
(* The certificate of an aggregate: module Validation. *)

\* Correct validators sign what they have recovered and verified.
SignedSound == \A x \in vSigned : x[2] \in Sound

\* The collected signatures of correct validators exist.
SigsSigned == \A v \in vSigs : v \in Faulty \/ <<v, Own>> \in vSigned

\* Behind a result on its way, and behind a certificate a member has kept,
\* stand enough signers.
ResultsBacked == vProposer \in Correct /\ vResults # {} => CertifiableStatement(Own)
CertifiedBacked ==
    \A i \in Correct : vCertified[i] # None => CertifiableStatement(vCertified[i])

ValidationInv == ValidationTypeOK /\ SignedSound /\ SigsSigned /\ ResultsBacked /\ CertifiedBacked

CorrectSignersOf(st) == {v \in Validators \cap Correct : <<v, st>> \in vSigned}

\* Sizes of the sample and of its parts.
LEMMA SampleSizes ==
    /\ IsFiniteSet(Validators) /\ Cardinality(Validators) \in Nat
    /\ IsFiniteSet(Validators \cap Faulty) /\ Cardinality(Validators \cap Faulty) \in Nat
    /\ ValidatorQuorum \in Nat /\ Cardinality(Validators \cap Faulty) < ValidatorQuorum
<1>1. IsFiniteSet(Validators) /\ Cardinality(Validators) \in Nat
  BY CommitteeAssumption, ValidationAssumption, SubsetCount
<1>2. IsFiniteSet(Validators \cap Faulty) /\ Cardinality(Validators \cap Faulty) \in Nat
  BY <1>1, SubsetCount
<1> QED
  BY <1>1, <1>2, ValidationAssumption DEF ValidatorQuorum, ValidatorThreshold

\* A certificate has a correct signer.
LEMMA CorrectSignerExists ==
    ASSUME NEW st, CertifiableStatement(st)
    PROVE  \E v \in Validators \cap Correct : <<v, st>> \in vSigned
<1> SUFFICES ASSUME CorrectSignersOf(st) = {} PROVE FALSE
  BY DEF CorrectSignersOf
<1>1. Cardinality(CorrectSignersOf(st) \cup (Validators \cap Faulty)) >= ValidatorQuorum
  BY DEF CertifiableStatement, CorrectSignersOf
<1>2. CorrectSignersOf(st) \cup (Validators \cap Faulty) = Validators \cap Faulty
  OBVIOUS
<1> QED
  BY <1>1, <1>2, SampleSizes

\* Signatures stay.
LEMMA StatementGrows ==
    ASSUME vSigned \subseteq vSigned', NEW st, CertifiableStatement(st)
    PROVE  CertifiableStatement(st)'
<1> DEFINE A == CorrectSignersOf(st) \cup (Validators \cap Faulty)
           B == CorrectSignersOf(st)' \cup (Validators \cap Faulty)
<1>1. A \subseteq B /\ B \subseteq Validators
  BY DEF CorrectSignersOf
<1>2. IsFiniteSet(B)
  BY <1>1, SampleSizes, SubsetCount
<1>3. /\ Cardinality(A) <= Cardinality(B)
      /\ Cardinality(A) \in Nat /\ Cardinality(B) \in Nat
  BY <1>1, <1>2, SubsetCount
<1>4. Cardinality(A) >= ValidatorQuorum
  BY DEF CertifiableStatement, CorrectSignersOf
<1>5. Cardinality(B) >= ValidatorQuorum
  BY <1>3, <1>4, SampleSizes
<1> QED
  BY <1>5 DEF CertifiableStatement, CorrectSignersOf, ValidatorQuorum

\* Steps that take no signature back and certify nothing.
LEMMA BackingStays ==
    ASSUME ResultsBacked, CertifiedBacked, vSigned \subseteq vSigned',
           vProposer' = vProposer, vResults' = vResults, vCertified' = vCertified
    PROVE  ResultsBacked' /\ CertifiedBacked'
<1>1. \A st : CertifiableStatement(st) => CertifiableStatement(st)'
  BY StatementGrows
<1> QED
  BY <1>1 DEF ResultsBacked, CertifiedBacked

-----------------------------------------------------------------------------
\* Before the slot begins nothing is signed.
LEMMA ValidationInitInv == ValidationInit => ValidationInv
<1> SUFFICES ASSUME ValidationInit PROVE ValidationInv
  OBVIOUS
<1>1. ValidationTypeOK
  BY ValidationAssumption DEF ValidationInit, ValidationTypeOK
<1>2. SignedSound /\ SigsSigned /\ ResultsBacked /\ CertifiedBacked
  BY DEF ValidationInit, SignedSound, SigsSigned, ResultsBacked, CertifiedBacked
<1> QED
  BY <1>1, <1>2 DEF ValidationInv

\* Requests, timers and failed recoveries sign and certify nothing.
LEMMA ValidationQuietInv ==
    ASSUME ValidationInv,
           \/ CertifyAggregate \/ DeferredWave \/ RetryRequest
           \/ \E i \in Correct : LearnSample(i)
           \/ \E i \in Correct, st \in Statements : RecoveryFails(i, st)
    PROVE  ValidationInv'
<1> USE DEF ValidationInv, CertifyAggregate, DeferredWave, RetryRequest, LearnSample, RecoveryFails
<1>0. /\ vSigned' = vSigned /\ vSigs' = vSigs /\ vResults' = vResults
      /\ vCertified' = vCertified /\ vProposer' = vProposer
  OBVIOUS
<1>1. ValidationTypeOK'
  BY ValidationAssumption DEF ValidationTypeOK
<1>2. SignedSound' /\ SigsSigned'
  BY <1>0 DEF SignedSound, SigsSigned
<1>3. ResultsBacked' /\ CertifiedBacked'
  BY <1>0, BackingStays
<1> QED
  BY <1>1, <1>2, <1>3

\* A request reserves, whoever sends it.
LEMMA RequestInv ==
    ASSUME ValidationInv, NEW i \in Correct, NEW j \in Old, NEW st \in Statements, OnRequest(i, j, st)
    PROVE  ValidationInv'
<1> USE DEF ValidationInv, OnRequest
<1>0. /\ vSigned' = vSigned /\ vSigs' = vSigs /\ vResults' = vResults
      /\ vCertified' = vCertified /\ vProposer' = vProposer
  OBVIOUS
<1>1. ValidationTypeOK'
  BY DEF ValidationTypeOK
<1>2. SignedSound' /\ SigsSigned'
  BY <1>0 DEF SignedSound, SigsSigned
<1>3. ResultsBacked' /\ CertifiedBacked'
  BY <1>0, BackingStays
<1> QED
  BY <1>1, <1>2, <1>3

\* A signature is released for a sound statement only.
LEMMA SignInv ==
    ASSUME ValidationInv, NEW i \in Correct, NEW st \in Statements, ValidateAndSign(i, st)
    PROVE  ValidationInv'
<1> USE DEF ValidationInv, ValidateAndSign
<1>0. /\ vSigned \subseteq vSigned' /\ vSigs' = vSigs /\ vResults' = vResults
      /\ vCertified' = vCertified /\ vProposer' = vProposer
  OBVIOUS
<1>1. ValidationTypeOK'
  BY DEF ValidationTypeOK
<1>2. SignedSound' /\ SigsSigned'
  BY <1>0 DEF SignedSound, SigsSigned
<1>3. ResultsBacked' /\ CertifiedBacked'
  BY <1>0, BackingStays
<1> QED
  BY <1>1, <1>2, <1>3

\* The proposer collects a signature that exists.
LEMMA SignatureInv ==
    ASSUME ValidationInv, NEW v \in Validators, OnSignature(v)
    PROVE  ValidationInv'
<1> USE DEF ValidationInv, OnSignature
<1>0. /\ vSigned' = vSigned /\ vResults' = vResults
      /\ vCertified' = vCertified /\ vProposer' = vProposer
  OBVIOUS
<1>1. ValidationTypeOK'
  BY DEF ValidationTypeOK
<1>2. SignedSound' /\ SigsSigned'
  BY <1>0 DEF SignedSound, SigsSigned
<1>3. ResultsBacked' /\ CertifiedBacked'
  BY <1>0, BackingStays
<1> QED
  BY <1>1, <1>2, <1>3

\* Enough collected signatures are a certificate.
LEMMA BuildInv ==
    ASSUME ValidationInv, BuildCertificate
    PROVE  ValidationInv'
<1> USE DEF ValidationInv, BuildCertificate
<1>1. ValidationTypeOK'
  BY ValidationAssumption DEF ValidationTypeOK
<1>2. SignedSound' /\ SigsSigned'
  BY DEF SignedSound, SigsSigned
<1>3. CertifiableStatement(Own)
  <2> DEFINE B == CorrectSignersOf(Own) \cup (Validators \cap Faulty)
  <2>1. vSigs \subseteq B /\ B \subseteq Validators
    BY ValidationAssumption DEF ValidationTypeOK, SigsSigned, CorrectSignersOf, Correct
  <2>2. IsFiniteSet(B)
    BY <2>1, SampleSizes, SubsetCount
  <2>3. /\ Cardinality(vSigs) <= Cardinality(B)
        /\ Cardinality(vSigs) \in Nat /\ Cardinality(B) \in Nat
    BY <2>1, <2>2, SubsetCount
  <2>4. Cardinality(B) >= ValidatorQuorum
    BY <2>3, SampleSizes
  <2> QED
    BY <2>4 DEF CertifiableStatement, CorrectSignersOf
<1>4. \A st : CertifiableStatement(st) => CertifiableStatement(st)'
  BY StatementGrows
<1>5. ResultsBacked'
  BY <1>3, <1>4 DEF ResultsBacked
<1>6. CertifiedBacked'
  BY <1>3, <1>4 DEF CertifiedBacked, ValidationTypeOK
<1> QED
  BY <1>1, <1>2, <1>5, <1>6

\* A member keeps a result that is backed.
LEMMA ResultInv ==
    ASSUME ValidationInv, NEW i \in Correct, NEW st \in Statements, OnResult(i, st)
    PROVE  ValidationInv'
<1> USE DEF ValidationInv, OnResult
<1>1. ValidationTypeOK'
  BY DEF ValidationTypeOK
<1>2. SignedSound' /\ SigsSigned'
  BY DEF SignedSound, SigsSigned
<1>3. CertifiableStatement(st)
  BY DEF ResultOffered, ResultsBacked
<1>4. \A s : CertifiableStatement(s) => CertifiableStatement(s)'
  BY StatementGrows
<1>5. ResultsBacked'
  BY <1>4 DEF ResultsBacked
<1>6. CertifiedBacked'
  BY <1>3, <1>4 DEF CertifiedBacked, ValidationTypeOK
<1> QED
  BY <1>1, <1>2, <1>5, <1>6

-----------------------------------------------------------------------------
\* Every step of the slot, and stuttering, keeps the invariant.
LEMMA ValidationStepInv == ValidationInv /\ [ValidationNext]_validationVars => ValidationInv'
<1> SUFFICES ASSUME ValidationInv, [ValidationNext]_validationVars PROVE ValidationInv'
  OBVIOUS
<1>1. CASE \/ CertifyAggregate \/ DeferredWave \/ RetryRequest
           \/ \E i \in Correct : LearnSample(i)
           \/ \E i \in Correct, st \in Statements : RecoveryFails(i, st)
  BY <1>1, ValidationQuietInv
<1>2. ASSUME NEW i \in Correct, NEW j \in Old, NEW st \in Statements, OnRequest(i, j, st)
      PROVE  ValidationInv'
  BY <1>2, RequestInv
<1>3. ASSUME NEW i \in Correct, NEW st \in Statements, ValidateAndSign(i, st) PROVE ValidationInv'
  BY <1>3, SignInv
<1>4. ASSUME NEW i \in Correct, NEW st \in Statements, OnResult(i, st) PROVE ValidationInv'
  BY <1>4, ResultInv
<1>5. CASE BuildCertificate
  BY <1>5, BuildInv
<1>6. ASSUME NEW v \in Validators, OnSignature(v) PROVE ValidationInv'
  BY <1>6, SignatureInv
<1>7. CASE UNCHANGED validationVars
  <2>1. CertifiableStatement(Own)' <=> CertifiableStatement(Own)
    BY <1>7 DEF validationVars, CertifiableStatement, ValidatorQuorum
  <2>2. \A st : CertifiableStatement(st)' <=> CertifiableStatement(st)
    BY <1>7 DEF validationVars, CertifiableStatement, ValidatorQuorum
  <2> QED
    BY <1>7, <2>1, <2>2 DEF validationVars, ValidationInv, ValidationTypeOK, SignedSound, SigsSigned,
       ResultsBacked, CertifiedBacked
<1> QED
  BY <1>1, <1>2, <1>3, <1>4, <1>5, <1>6, <1>7 DEF ValidationNext

\* The inductive invariant holds in every behaviour of a slot.
LEMMA ValidationInvariance == ValidationSpec => []ValidationInv
<1>1. ValidationInit => ValidationInv
  BY ValidationInitInv
<1>2. ValidationInv /\ [ValidationNext]_validationVars => ValidationInv'
  BY ValidationStepInv
<1> QED
  BY <1>1, <1>2, PTL DEF ValidationSpec

\* The variables of CertifyAggregate and of the handlers of requests,
\* signatures and results stay in their ranges.
THEOREM ValidationTypeCorrect == ValidationSpec => []ValidationTypeOK
<1>1. ValidationInv => ValidationTypeOK
  BY DEF ValidationInv
<1> QED
  BY <1>1, ValidationInvariance, PTL

\* handleValidationResult and CertifyAggregate: whatever a faulty proposer
\* sends to whom and whatever faulty validators sign, a statement that a member
\* keeps as certified was recovered and verified by a correct validator.
THEOREM CertifiedSoundCorrect == ValidationSpec => []CertifiedSound
<1>1. ValidationInv => CertifiedSound
  <2> SUFFICES ASSUME ValidationInv, NEW i \in Correct, vCertified[i] # None
               PROVE  /\ vCertified[i] \in Sound
                      /\ \E v \in Validators \cap Correct : <<v, vCertified[i]>> \in vSigned
    BY DEF CertifiedSound
  <2>1. PICK v \in Validators \cap Correct : <<v, vCertified[i]>> \in vSigned
    BY CorrectSignerExists DEF ValidationInv, CertifiedBacked
  <2>2. vCertified[i] \in Sound
    BY <2>1 DEF ValidationInv, SignedSound
  <2> QED
    BY <2>1, <2>2
<1> QED
  BY <1>1, ValidationInvariance, PTL

-----------------------------------------------------------------------------
(* Where the result of a correct proposer gets to. *)

\* What a member recovers or has signed is on record there; and once the
\* certificate of a correct proposer is built, every validator in it has the result
\* before it or has kept the certificate.
RecordsKept ==
    /\ \A i \in Correct : vInFlight[i] \subseteq vRecord[i]
    /\ \A x \in vSigned : x[2] \in vRecord[x[1]]
    /\ vCall # "none" => vProposer \in Correct
    /\ vCall = "certified" =>
          \A i \in Validators \cap Correct :
              i \in vSigs => i \in vResults \/ vCertified[i] = Own

\* Every step of the slot keeps it so.
LEMMA RecordsKeptStep ==
    ValidationInv /\ RecordsKept /\ [ValidationNext]_validationVars => RecordsKept'
<1> SUFFICES ASSUME ValidationInv, RecordsKept, [ValidationNext]_validationVars
             PROVE  RecordsKept'
  OBVIOUS
<1>0. /\ vRecord \in [Correct -> SUBSET Statements] /\ vInFlight \in [Correct -> SUBSET Statements]
      /\ vSigned \subseteq Correct \X Statements /\ vProposer \in Proposers
      /\ vCertified \in [Correct -> Statements \cup {None}]
  BY DEF ValidationInv, ValidationTypeOK
<1>1. CASE \/ CertifyAggregate \/ DeferredWave \/ RetryRequest
           \/ \E i \in Correct : LearnSample(i)
           \/ \E i \in Correct, st \in Statements : RecoveryFails(i, st)
  <2>1. /\ UNCHANGED <<vProposer, vSigned, vSigs, vResults, vCertified>>
        /\ \A i \in Correct : vInFlight'[i] \subseteq vInFlight[i] /\ vRecord[i] \subseteq vRecord'[i]
        /\ vCall' # "certified" \/ vCall' = vCall
        /\ vCall = "none" => vCall' = "none"
    BY <1>0, <1>1 DEF CertifyAggregate, DeferredWave, RetryRequest, LearnSample, RecoveryFails
  <2> QED
    BY <1>0, <2>1 DEF RecordsKept
<1>2. ASSUME NEW i \in Correct, NEW j \in Old, NEW st \in Statements, OnRequest(i, j, st)
      PROVE  RecordsKept'
  <2>1. /\ UNCHANGED <<vProposer, vCall, vSigned, vSigs, vResults, vCertified>>
        /\ \A k \in Correct : vRecord[k] \subseteq vRecord'[k]
    BY <1>0, <1>2 DEF OnRequest
  <2>2. \A k \in Correct : vInFlight'[k] \subseteq vRecord'[k]
    BY <1>0, <1>2 DEF OnRequest, RecordsKept
  <2> QED
    BY <1>0, <2>1, <2>2 DEF RecordsKept
<1>3. ASSUME NEW i \in Correct, NEW st \in Statements, ValidateAndSign(i, st) PROVE RecordsKept'
  <2>1. /\ UNCHANGED <<vProposer, vCall, vRecord, vSigs, vResults, vCertified>>
        /\ \A k \in Correct : vInFlight'[k] \subseteq vInFlight[k]
        /\ vSigned' \subseteq vSigned \cup {<<i, st>>} /\ st \in vRecord[i]
    BY <1>0, <1>3 DEF ValidateAndSign, RecordsKept
  <2> QED
    BY <1>0, <2>1 DEF RecordsKept
<1>4. ASSUME NEW i \in Correct, NEW st \in Statements, OnResult(i, st) PROVE RecordsKept'
  <2>1. UNCHANGED <<vProposer, vCall, vRecord, vInFlight, vSigned, vSigs>>
    BY <1>4 DEF OnResult
  <2>2. ASSUME vCall = "certified", NEW k \in Validators \cap Correct, k \in vSigs
        PROVE  k \in vResults' \/ vCertified'[k] = Own
    <3>1. st = Own /\ vResults' = vResults \ {i}
          /\ vCertified' = [vCertified EXCEPT ![i] = IF st \in vRecord[i] THEN st ELSE @]
      BY <1>4, <2>2 DEF OnResult, ResultOffered, RecordsKept
    <3>2. Own \in vRecord[k]
      <4>1. <<k, Own>> \in vSigned
        BY <2>2 DEF ValidationInv, SigsSigned, Correct
      <4> QED
        BY <4>1 DEF RecordsKept
    <3> QED
      BY <1>0, <2>2, <3>1, <3>2 DEF RecordsKept
  <2> QED
    BY <2>1, <2>2 DEF RecordsKept
<1>5. CASE BuildCertificate
  <2>1. /\ UNCHANGED <<vProposer, vRecord, vInFlight, vSigned, vSigs>>
        /\ vCall # "none" /\ vResults' = Correct \ {vProposer}
        /\ vCertified' = [vCertified EXCEPT ![vProposer] = Own]
    BY <1>5 DEF BuildCertificate
  <2> QED
    BY <1>0, <2>1 DEF RecordsKept
<1>6. ASSUME NEW v \in Validators, OnSignature(v) PROVE RecordsKept'
  BY <1>6 DEF OnSignature, RecordsKept
<1>7. CASE UNCHANGED validationVars
  BY <1>7 DEF validationVars, RecordsKept
<1> QED
  BY <1>1, <1>2, <1>3, <1>4, <1>5, <1>6, <1>7 DEF ValidationNext

\* In a slot a validator whose signature was collected keeps the certificate
\* (handleValidationResult drops only what was never requested of it).
THEOREM SignersLearnCorrect == ValidationSpec => []SignersLearn
<1>1. ValidationInit => RecordsKept
  BY DEF ValidationInit, RecordsKept
<1>2. ValidationInv /\ RecordsKept /\ [ValidationNext]_validationVars => RecordsKept'
  BY RecordsKeptStep
<1>3. RecordsKept => SignersLearn
  BY DEF RecordsKept, SignersLearn, ValidationAtRest
<1> QED
  BY <1>1, <1>2, <1>3, ValidationInvariance, PTL DEF ValidationSpec

-----------------------------------------------------------------------------
(* The scalar exchange of the new committee: module ScalarExchange. *)

\* Rounds of outputs that member i has sent of its own accord since it was last
\* started, all of them once its call has returned.
OwnRounds(i) ==
    IF xEnded[i] # "no" THEN MaxSends + 1
    ELSE IF i \in xUp THEN xAttempt[i] + 1 ELSE 0

\* A member registers with its scalar on disk, and before it is pending, or has
\* ended, it has no attempts.
Registered ==
    \A i \in NewCorrect :
        /\ i \in xUp => i \in xDisk
        /\ i \in xUp /\ xEnded[i] = "no" => i \in xPending
        /\ i \in xPending => xEnded[i] = "no" /\ i \in xOutputs[i]
        /\ i \notin xPending => xAttempt[i] = 0

\* Nobody sends to itself.  What two members have under way, each has sent in a
\* round of its own or as the answer to such an output; a crash forgets the
\* rounds of one run.
WireBudget ==
    \A i, j \in NewCorrect :
        /\ xWire[<<i, i>>] = 0
        /\ xWire[<<i, j>>] + xWire[<<j, i>>]
             <= OwnRounds(i) + OwnRounds(j) + xCrashed * (MaxSends + 1)

\* Between a pending member and one that has registered, an output is under way
\* until the pending one has it.
OutputOnItsWay ==
    \A i \in xPending : \A j \in xUp :
        \/ j \in xOutputs[i]
        \/ xWire[<<i, j>>] > 0 \/ xWire[<<j, i>>] > 0

ExchangeInv ==
    ExchangeTypeOK /\ ReleasedPersisted /\ Registered /\ WireBudget /\ OutputOnItsWay

\* The numbers of the exchange.
LEMMA ExchangeNumbers ==
    ASSUME ExchangeTypeOK
    PROVE  /\ MaxSends \in Nat /\ MaxCrashes \in Nat /\ xCrashed \in Nat
           /\ xCrashed * (MaxSends + 1) \in Nat
           /\ \A i, j \in NewCorrect : xWire[<<i, j>>] \in Nat
           /\ \A i \in NewCorrect : /\ xAttempt[i] \in 0 .. MaxSends
                                    /\ OwnRounds(i) \in 0 .. MaxSends + 1
<1>1. MaxSends \in Nat /\ MaxCrashes \in Nat /\ xCrashed \in Nat
  BY ExchangeAssumption DEF ExchangeTypeOK
<1>2. xCrashed * (MaxSends + 1) \in Nat
  BY <1>1
<1>3. \A i, j \in NewCorrect : xWire[<<i, j>>] \in Nat
  BY DEF ExchangeTypeOK, Pairs
<1>4. \A i \in NewCorrect : xAttempt[i] \in 0 .. MaxSends
  BY DEF ExchangeTypeOK
<1>5. \A i \in NewCorrect : OwnRounds(i) \in 0 .. MaxSends + 1
  BY <1>1, <1>4 DEF OwnRounds
<1> QED
  BY <1>1, <1>2, <1>3, <1>4, <1>5

\* A message more on the way from i to each other member of S.
LEMMA SentToFacts ==
    ASSUME NEW w \in [Pairs -> Nat], NEW i, NEW S
    PROVE  /\ SentTo(w, i, S) \in [Pairs -> Nat]
           /\ \A a, b \in NewCorrect : SentTo(w, i, S)[<<a, b>>] =
                 IF a = i /\ b \in S \ {i} THEN w[<<a, b>>] + 1 ELSE w[<<a, b>>]
<1>1. ASSUME NEW a \in NewCorrect, NEW b \in NewCorrect
      PROVE  /\ <<a, b>> \in Pairs /\ <<a, b>>[1] = a /\ <<a, b>>[2] = b
  BY DEF Pairs
<1>2. SentTo(w, i, S) \in [Pairs -> Nat]
  BY DEF SentTo
<1>3. ASSUME NEW a \in NewCorrect, NEW b \in NewCorrect
      PROVE  SentTo(w, i, S)[<<a, b>>] =
                IF a = i /\ b \in S \ {i} THEN w[<<a, b>>] + 1 ELSE w[<<a, b>>]
  BY <1>1, <1>3 DEF SentTo
<1> QED
  BY <1>2, <1>3

\* A member that sends in a new round of its own stays within the budget.
LEMMA SenderBudget ==
    ASSUME ExchangeInv, ExchangeTypeOK', NEW i \in NewCorrect, NEW S,
           xWire' = SentTo(xWire, i, S), OwnRounds(i)' = OwnRounds(i) + 1,
           \A k \in NewCorrect \ {i} : OwnRounds(k)' = OwnRounds(k), xCrashed' = xCrashed
    PROVE  WireBudget'
<1>1. /\ \A a, b \in NewCorrect : xWire'[<<a, b>>] =
            IF a = i /\ b \in S \ {i} THEN xWire[<<a, b>>] + 1 ELSE xWire[<<a, b>>]
      /\ \A a, b \in NewCorrect : xWire[<<a, b>>] \in Nat
      /\ \A a \in NewCorrect : OwnRounds(a) \in Nat
  BY SentToFacts, ExchangeNumbers DEF ExchangeInv, ExchangeTypeOK
<1> DEFINE B == xCrashed * (MaxSends + 1)
<1>2. B \in Nat /\ B' = B
  BY ExchangeNumbers DEF ExchangeInv
<1>3. \A a, b \in NewCorrect :
         /\ xWire[<<a, a>>] = 0
         /\ xWire[<<a, b>>] + xWire[<<b, a>>] <= OwnRounds(a) + OwnRounds(b) + B
  BY DEF ExchangeInv, WireBudget
<1> SUFFICES ASSUME NEW a \in NewCorrect, NEW b \in NewCorrect
             PROVE  /\ xWire'[<<a, a>>] = 0
                    /\ xWire'[<<a, b>>] + xWire'[<<b, a>>]
                         <= OwnRounds(a)' + OwnRounds(b)' + B'
  BY DEF WireBudget
<1> HIDE DEF B
<1>4. xWire'[<<a, a>>] = 0 /\ xWire'[<<b, b>>] = 0
  BY <1>1, <1>3
<1>5. CASE a = b
  <2>1. OwnRounds(a)' \in Nat
    BY ExchangeNumbers, <1>1
  <2> QED
    BY <1>2, <1>4, <1>5, <2>1
<1>6. CASE a # b /\ a = i
  <2>1. xWire'[<<a, b>>] <= xWire[<<a, b>>] + 1 /\ xWire'[<<b, a>>] = xWire[<<b, a>>]
        /\ xWire'[<<a, b>>] \in Nat
    BY <1>1, <1>6
  <2>2. OwnRounds(a)' = OwnRounds(a) + 1 /\ OwnRounds(b)' = OwnRounds(b)
    BY <1>6
  <2> QED
    BY <1>1, <1>2, <1>3, <1>4, <2>1, <2>2
<1>7. CASE a # b /\ b = i
  <2>1. xWire'[<<b, a>>] <= xWire[<<b, a>>] + 1 /\ xWire'[<<a, b>>] = xWire[<<a, b>>]
        /\ xWire'[<<b, a>>] \in Nat
    BY <1>1, <1>7
  <2>2. OwnRounds(b)' = OwnRounds(b) + 1 /\ OwnRounds(a)' = OwnRounds(a)
    BY <1>7
  <2> QED
    BY <1>1, <1>2, <1>3, <1>4, <2>1, <2>2
<1>8. CASE a # b /\ a # i /\ b # i
  <2>1. xWire'[<<b, a>>] = xWire[<<b, a>>] /\ xWire'[<<a, b>>] = xWire[<<a, b>>]
    BY <1>1, <1>8
  <2>2. OwnRounds(b)' = OwnRounds(b) /\ OwnRounds(a)' = OwnRounds(a)
    BY <1>8
  <2> QED
    BY <1>1, <1>2, <1>3, <1>4, <2>1, <2>2
<1> QED
  BY <1>5, <1>6, <1>7, <1>8

\* Without new messages the budget lasts when no rounds are forgotten.
LEMMA QuietBudget ==
    ASSUME ExchangeInv, ExchangeTypeOK', xCrashed' = xCrashed,
           \A a, b \in NewCorrect : /\ xWire'[<<a, a>>] = 0
                                    /\ xWire'[<<a, b>>] + xWire'[<<b, a>>]
                                         <= xWire[<<a, b>>] + xWire[<<b, a>>],
           \A k \in NewCorrect : OwnRounds(k)' >= OwnRounds(k)
    PROVE  WireBudget'
<1> DEFINE B == xCrashed * (MaxSends + 1)
<1>1. B \in Nat /\ B' = B
  BY ExchangeNumbers DEF ExchangeInv
<1>2. \A a, b \in NewCorrect :
         xWire[<<a, b>>] + xWire[<<b, a>>] <= OwnRounds(a) + OwnRounds(b) + B
  BY DEF ExchangeInv, WireBudget
<1>3. /\ \A a, b \in NewCorrect : xWire[<<a, b>>] \in Nat
      /\ \A a \in NewCorrect : OwnRounds(a) \in Nat
  BY ExchangeNumbers DEF ExchangeInv
<1>4. /\ \A a, b \in NewCorrect : xWire'[<<a, b>>] \in Nat
      /\ \A a \in NewCorrect : OwnRounds(a)' \in Nat
  BY ExchangeNumbers, ExchangeAssumption DEF ExchangeTypeOK, Pairs, OwnRounds
<1> SUFFICES ASSUME NEW a \in NewCorrect, NEW b \in NewCorrect
             PROVE  xWire'[<<a, b>>] + xWire'[<<b, a>>]
                         <= OwnRounds(a)' + OwnRounds(b)' + B'
  BY DEF WireBudget
<1> HIDE DEF B
<1>5. /\ xWire'[<<a, b>>] + xWire'[<<b, a>>] <= xWire[<<a, b>>] + xWire[<<b, a>>]
      /\ OwnRounds(a)' >= OwnRounds(a) /\ OwnRounds(b)' >= OwnRounds(b)
  OBVIOUS
<1>6. /\ xWire[<<a, b>>] \in Nat /\ xWire[<<b, a>>] \in Nat
      /\ xWire'[<<a, b>>] \in Nat /\ xWire'[<<b, a>>] \in Nat
      /\ OwnRounds(a) \in Nat /\ OwnRounds(b) \in Nat
      /\ OwnRounds(a)' \in Nat /\ OwnRounds(b)' \in Nat
  BY <1>3, <1>4
<1>7. xWire[<<a, b>>] + xWire[<<b, a>>] <= OwnRounds(a) + OwnRounds(b) + B
  BY <1>2
<1> QED
  BY <1>1, <1>5, <1>6, <1>7

\* The scalar goes to disk: nothing else changes.
LEMMA PersistOnceInv ==
    ASSUME ExchangeInv, NEW i \in NewCorrect, PersistOnce(i) PROVE ExchangeInv'
<1> USE DEF PersistOnce
<1>1. ExchangeTypeOK' /\ ReleasedPersisted' /\ Registered'
  BY DEF ExchangeInv, ExchangeTypeOK, ReleasedPersisted, Registered
<1>2. WireBudget'
  BY DEF ExchangeInv, WireBudget, OwnRounds
<1>3. OutputOnItsWay'
  BY DEF ExchangeInv, OutputOnItsWay
<1> QED
  BY <1>1, <1>2, <1>3 DEF ExchangeInv

\* The first output goes to all: whoever is pending will have it.
LEMMA ReleaseInv ==
    ASSUME ExchangeInv, NEW i \in NewCorrect, Release(i) PROVE ExchangeInv'
<1>0. /\ ExchangeTypeOK /\ xWire \in [Pairs -> Nat]
      /\ i \in xDisk /\ i \notin xUp /\ xEnded[i] = "no"
      /\ xUp' = xUp \cup {i} /\ xPending' = xPending \cup {i}
      /\ xReleased' = xReleased \cup {i}
      /\ xOutputs' = [xOutputs EXCEPT ![i] = {i}]
      /\ xWire' = SentTo(xWire, i, NewCorrect)
      /\ UNCHANGED <<xDisk, xAttempt, xEnded, xCrashed>>
  BY DEF ExchangeInv, ExchangeTypeOK, Release
<1>1. /\ xWire' \in [Pairs -> Nat]
      /\ \A a, b \in NewCorrect : xWire'[<<a, b>>] =
            IF a = i /\ b # i THEN xWire[<<a, b>>] + 1 ELSE xWire[<<a, b>>]
      /\ \A a, b \in NewCorrect : xWire[<<a, b>>] \in Nat
  BY <1>0, SentToFacts, ExchangeNumbers
<1>2. ExchangeTypeOK'
  <2>1. i \in New
    BY DEF NewCorrect
  <2> QED
    BY <1>0, <1>1, <2>1 DEF ExchangeTypeOK
<1>3. ReleasedPersisted'
  BY <1>0 DEF ExchangeInv, ReleasedPersisted
<1>4. Registered'
  BY <1>0 DEF ExchangeInv, Registered, ExchangeTypeOK
<1>5. WireBudget'
  <2>1. i \notin xPending
    BY <1>0 DEF ExchangeTypeOK
  <2>2. OwnRounds(i) = 0 /\ OwnRounds(i)' = 1
    BY <1>0, <2>1, <1>2 DEF OwnRounds, ExchangeInv, Registered
  <2>3. \A k \in NewCorrect \ {i} : OwnRounds(k)' = OwnRounds(k)
    BY <1>0 DEF OwnRounds
  <2>4. OwnRounds(i)' = OwnRounds(i) + 1
    BY <2>2
  <2> QED
    BY <1>0, <1>2, <2>3, <2>4, SenderBudget
<1>6. OutputOnItsWay'
  <2> SUFFICES ASSUME NEW a \in xPending', NEW b \in xUp', b \notin xOutputs'[a]
               PROVE  xWire'[<<a, b>>] > 0 \/ xWire'[<<b, a>>] > 0
    BY DEF OutputOnItsWay
  <2>0. a \in NewCorrect /\ b \in NewCorrect
    BY <1>2 DEF ExchangeTypeOK
  <2>1. CASE a = i
    <3>1. b # i
      BY <1>0, <2>1 DEF ExchangeTypeOK
    <3>2. xWire'[<<a, b>>] = xWire[<<a, b>>] + 1 /\ xWire[<<a, b>>] \in Nat
      BY <1>1, <2>0, <2>1, <3>1
    <3> QED
      BY <3>2
  <2>2. CASE a # i /\ b = i
    <3>1. xWire'[<<b, a>>] = xWire[<<b, a>>] + 1 /\ xWire[<<b, a>>] \in Nat
      BY <1>1, <2>0, <2>2
    <3> QED
      BY <3>1
  <2>3. CASE a # i /\ b # i
    <3>1. a \in xPending /\ b \in xUp /\ b \notin xOutputs[a]
      BY <1>0, <2>0, <2>3 DEF ExchangeTypeOK
    <3>2. xWire[<<a, b>>] > 0 \/ xWire[<<b, a>>] > 0
      BY <3>1 DEF ExchangeInv, OutputOnItsWay
    <3>3. xWire'[<<a, b>>] = xWire[<<a, b>>] /\ xWire'[<<b, a>>] = xWire[<<b, a>>]
      BY <1>1, <2>0, <2>3
    <3> QED
      BY <3>2, <3>3
  <2> QED
    BY <2>1, <2>2, <2>3
<1> QED
  BY <1>2, <1>3, <1>4, <1>5, <1>6 DEF ExchangeInv

\* A repetition goes to members whose output is missing.
LEMMA RepeatInv ==
    ASSUME ExchangeInv, NEW i \in NewCorrect, Repeat(i) PROVE ExchangeInv'
<1> DEFINE S == NewCorrect \ xOutputs[i]
<1>0. /\ ExchangeTypeOK /\ xWire \in [Pairs -> Nat]
      /\ i \in xPending /\ xAttempt[i] < MaxSends
      /\ xAttempt' = [xAttempt EXCEPT ![i] = @ + 1]
      /\ xWire' = SentTo(xWire, i, S)
      /\ UNCHANGED <<xDisk, xUp, xPending, xOutputs, xEnded, xReleased, xCrashed>>
  BY DEF ExchangeInv, ExchangeTypeOK, Repeat
<1> HIDE DEF S
<1>1. /\ xWire' \in [Pairs -> Nat]
      /\ \A a, b \in NewCorrect :
            /\ xWire'[<<a, b>>] >= xWire[<<a, b>>]
            /\ xWire[<<a, b>>] \in Nat /\ xWire'[<<a, b>>] \in Nat
  <2>1. /\ xWire' \in [Pairs -> Nat]
        /\ \A a, b \in NewCorrect : xWire'[<<a, b>>] =
              IF a = i /\ b \in S \ {i} THEN xWire[<<a, b>>] + 1 ELSE xWire[<<a, b>>]
        /\ \A a, b \in NewCorrect : xWire[<<a, b>>] \in Nat
    BY <1>0, SentToFacts, ExchangeNumbers
  <2> QED
    BY <2>1
<1>2. ExchangeTypeOK'
  <2>1. xAttempt[i] + 1 \in 0 .. MaxSends
    BY <1>0, ExchangeNumbers
  <2>2. xAttempt' \in [NewCorrect -> 0 .. MaxSends]
    BY <1>0, <2>1 DEF ExchangeTypeOK
  <2> QED
    BY <1>0, <1>1, <2>2 DEF ExchangeTypeOK
<1>3. ReleasedPersisted' /\ Registered'
  BY <1>0 DEF ExchangeInv, ReleasedPersisted, Registered, ExchangeTypeOK
<1>4. WireBudget'
  <2>1. i \in xUp /\ xEnded[i] = "no"
    BY <1>0 DEF ExchangeInv, Registered, ExchangeTypeOK
  <2>2. OwnRounds(i) = xAttempt[i] + 1 /\ OwnRounds(i)' = (xAttempt[i] + 1) + 1
    BY <1>0, <2>1 DEF OwnRounds, ExchangeTypeOK
  <2>3. \A k \in NewCorrect \ {i} : OwnRounds(k)' = OwnRounds(k)
    BY <1>0 DEF OwnRounds, ExchangeTypeOK
  <2> QED
    BY <1>0, <1>2, <2>2, <2>3, SenderBudget
<1>5. OutputOnItsWay'
  <2> SUFFICES ASSUME NEW a \in xPending, NEW b \in xUp, b \notin xOutputs[a]
               PROVE  xWire'[<<a, b>>] > 0 \/ xWire'[<<b, a>>] > 0
    BY <1>0 DEF OutputOnItsWay
  <2>1. xWire[<<a, b>>] > 0 \/ xWire[<<b, a>>] > 0
    BY DEF ExchangeInv, OutputOnItsWay
  <2>2. a \in NewCorrect /\ b \in NewCorrect
    BY <1>0 DEF ExchangeTypeOK
  <2> QED
    BY <1>1, <2>1, <2>2
<1> QED
  BY <1>2, <1>3, <1>4, <1>5 DEF ExchangeInv

\* A call that returns sends nothing.
LEMMA ReturnsInv ==
    ASSUME ExchangeInv, NEW i \in xPending, NEW outcome \in {"done", "failed", "cancelled"},
           Returns(i, outcome)
    PROVE  ExchangeInv'
<1>0. /\ ExchangeTypeOK /\ i \in NewCorrect
      /\ xPending' = xPending \ {i} /\ xEnded'[i] # "no"
      /\ xUp' \subseteq xUp /\ xUp \ {i} \subseteq xUp'
      /\ \A k \in NewCorrect \ {i} : xEnded'[k] = xEnded[k]
      /\ xEnded' \in [NewCorrect -> {"no", "done", "failed", "cancelled"}]
      /\ xAttempt' = [xAttempt EXCEPT ![i] = 0]
      /\ xOutputs' = [xOutputs EXCEPT ![i] = {}]
      /\ UNCHANGED <<xDisk, xWire, xReleased, xCrashed>>
  BY DEF ExchangeInv, ExchangeTypeOK, Returns
<1>1. ExchangeTypeOK'
  BY <1>0, ExchangeAssumption DEF ExchangeTypeOK
<1>2. ReleasedPersisted' /\ Registered'
  BY <1>0 DEF ExchangeInv, ReleasedPersisted, Registered, ExchangeTypeOK
<1>3. WireBudget'
  <2>1. OwnRounds(i)' = MaxSends + 1 /\ OwnRounds(i) \in 0 .. MaxSends + 1
    BY <1>0, ExchangeNumbers DEF OwnRounds
  <2>2. \A k \in NewCorrect \ {i} : OwnRounds(k)' = OwnRounds(k) /\ OwnRounds(k) \in Nat
    BY <1>0, ExchangeNumbers DEF OwnRounds, ExchangeTypeOK
  <2>3. \A k \in NewCorrect : OwnRounds(k)' >= OwnRounds(k)
    BY <2>1, <2>2, ExchangeAssumption
  <2>4. \A a, b \in NewCorrect : /\ xWire'[<<a, a>>] = 0
                                 /\ xWire'[<<a, b>>] + xWire'[<<b, a>>]
                                      <= xWire[<<a, b>>] + xWire[<<b, a>>]
    <3> TAKE a, b \in NewCorrect
    <3>1. xWire[<<a, b>>] \in Nat /\ xWire[<<b, a>>] \in Nat
      BY <1>0, ExchangeNumbers
    <3>2. xWire[<<a, a>>] = 0
      BY DEF ExchangeInv, WireBudget
    <3>3. xWire' = xWire
      BY <1>0
    <3> QED
      BY <3>1, <3>2, <3>3
  <2> QED
    BY <1>0, <1>1, <2>3, <2>4, QuietBudget
<1>4. OutputOnItsWay'
  BY <1>0 DEF ExchangeInv, OutputOnItsWay, ExchangeTypeOK
<1> QED
  BY <1>1, <1>2, <1>3, <1>4 DEF ExchangeInv

\* A member that has the key and closes its service is not pending.
LEMMA CloseServiceInv ==
    ASSUME ExchangeInv, NEW i \in NewCorrect, CloseService(i) PROVE ExchangeInv'
<1>0. /\ ExchangeTypeOK /\ xEnded[i] = "done" /\ xUp' = xUp \ {i}
      /\ UNCHANGED <<xDisk, xPending, xOutputs, xAttempt, xEnded, xWire, xReleased, xCrashed>>
  BY DEF ExchangeInv, CloseService
<1>1. i \notin xPending
  BY <1>0 DEF ExchangeInv, Registered
<1>2. ExchangeTypeOK'
  BY <1>0, <1>1 DEF ExchangeTypeOK
<1>3. ReleasedPersisted' /\ Registered'
  BY <1>0, <1>1 DEF ExchangeInv, ReleasedPersisted, Registered, ExchangeTypeOK
<1>4. WireBudget'
  <2>1. \A k \in NewCorrect : OwnRounds(k)' = OwnRounds(k)
    BY <1>0 DEF OwnRounds
  <2> QED
    BY <1>0, <2>1 DEF ExchangeInv, WireBudget
<1>5. OutputOnItsWay'
  BY <1>0 DEF ExchangeInv, OutputOnItsWay
<1> QED
  BY <1>2, <1>3, <1>4, <1>5 DEF ExchangeInv

\* A member that is stopped forgets the rounds of its run.
LEMMA CrashReceiverInv ==
    ASSUME ExchangeInv, NEW i \in NewCorrect, CrashReceiver(i) PROVE ExchangeInv'
<1>0. /\ ExchangeTypeOK /\ xCrashed < MaxCrashes /\ xEnded[i] = "no"
      /\ xCrashed' = xCrashed + 1
      /\ xUp' = xUp \ {i} /\ xPending' = xPending \ {i}
      /\ xOutputs' = [xOutputs EXCEPT ![i] = {}]
      /\ xAttempt' = [xAttempt EXCEPT ![i] = 0]
      /\ UNCHANGED <<xDisk, xEnded, xWire, xReleased>>
  BY DEF ExchangeInv, CrashReceiver
<1>1. ExchangeTypeOK'
  BY <1>0, ExchangeAssumption DEF ExchangeTypeOK
<1>2. ReleasedPersisted' /\ Registered'
  BY <1>0 DEF ExchangeInv, ReleasedPersisted, Registered, ExchangeTypeOK
<1>3. WireBudget'
  <2> SUFFICES ASSUME NEW a \in NewCorrect, NEW b \in NewCorrect
               PROVE  /\ xWire[<<a, a>>] = 0
                      /\ xWire[<<a, b>>] + xWire[<<b, a>>]
                           <= OwnRounds(a)' + OwnRounds(b)' + (xCrashed + 1) * (MaxSends + 1)
    BY <1>0 DEF WireBudget
  <2>1. xWire[<<a, a>>] = 0 /\ xWire[<<b, b>>] = 0
    BY DEF ExchangeInv, WireBudget
  <2>2. xWire[<<a, b>>] + xWire[<<b, a>>]
          <= OwnRounds(a) + OwnRounds(b) + xCrashed * (MaxSends + 1)
    BY DEF ExchangeInv, WireBudget
  <2> DEFINE B == xCrashed * (MaxSends + 1)
  <2>3. /\ B \in Nat /\ MaxSends \in Nat
        /\ xWire[<<a, b>>] \in Nat /\ xWire[<<b, a>>] \in Nat
        /\ OwnRounds(a) \in 0 .. MaxSends + 1 /\ OwnRounds(b) \in 0 .. MaxSends + 1
    BY <1>0, ExchangeNumbers
  <2>4. (xCrashed + 1) * (MaxSends + 1) = B + MaxSends + 1
    BY <1>0, ExchangeNumbers
  <2>5. OwnRounds(a)' \in Nat /\ OwnRounds(b)' \in Nat
    BY <1>1, <2>3 DEF OwnRounds, ExchangeTypeOK
  <2>6. \A k \in NewCorrect \ {i} : OwnRounds(k)' = OwnRounds(k)
    BY <1>0 DEF OwnRounds, ExchangeTypeOK
  <2> HIDE DEF B
  <2>7. CASE a = b
    BY <2>1, <2>3, <2>4, <2>5, <2>7
  <2>8. CASE a # b /\ a = i
    <3>1. OwnRounds(b)' = OwnRounds(b)
      BY <2>6, <2>8
    <3> QED
      BY <2>1, <2>2, <2>3, <2>4, <2>5, <3>1 DEF B
  <2>9. CASE a # b /\ a # i
    <3>1. OwnRounds(a)' = OwnRounds(a)
      BY <2>6, <2>9
    <3> QED
      BY <2>1, <2>2, <2>3, <2>4, <2>5, <3>1 DEF B
  <2> QED
    BY <2>7, <2>8, <2>9
<1>4. OutputOnItsWay'
  BY <1>0 DEF ExchangeInv, OutputOnItsWay, ExchangeTypeOK
<1> QED
  BY <1>1, <1>2, <1>3, <1>4 DEF ExchangeInv

\* An output is recorded and answered: one message fewer, at most one more.
LEMMA OnOutputInv ==
    ASSUME ExchangeInv, NEW i \in NewCorrect, NEW j \in New, OnOutput(i, j)
    PROVE  ExchangeInv'
<1> DEFINE w == Taken(j, i)
<1>0. /\ ExchangeTypeOK /\ xWire \in [Pairs -> Nat] /\ Arrives(j, i)
      /\ xOutputs' = [xOutputs EXCEPT ![i] = IF i \in xPending THEN @ \cup {j} ELSE @]
      /\ xWire' = IF i \in xUp THEN SentTo(w, i, {j}) ELSE w
      /\ UNCHANGED <<xDisk, xUp, xPending, xAttempt, xEnded, xReleased, xCrashed>>
  BY DEF ExchangeInv, ExchangeTypeOK, OnOutput, AnswersOutput
<1>1. \A a, b \in NewCorrect : xWire[<<a, a>>] = 0 /\ xWire[<<a, b>>] \in Nat
  BY <1>0, ExchangeNumbers DEF ExchangeInv, WireBudget
<1>2. j # i
  BY <1>0, <1>1 DEF Arrives, NewCorrect
<1>3. /\ w \in [Pairs -> Nat]
      /\ \A a, b \in NewCorrect :
            w[<<a, b>>] = IF a = j /\ b = i THEN xWire[<<a, b>>] - 1 ELSE xWire[<<a, b>>]
  <2>1. CASE j \in NewCorrect
    <3>1. xWire[<<j, i>>] > 0 /\ xWire[<<j, i>>] \in Nat
      BY <1>0, <1>1, <2>1 DEF Arrives, NewCorrect
    <3>2. \A a, b \in NewCorrect : <<a, b>> \in Pairs /\ (<<a, b>> = <<j, i>> <=> a = j /\ b = i)
      BY DEF Pairs
    <3>3. w \in [Pairs -> Nat]
      BY <1>0, <3>1 DEF Taken
    <3> QED
      BY <3>2, <3>3 DEF Taken
  <2>2. CASE j \notin NewCorrect
    <3>1. \A p \in Pairs : p # <<j, i>>
      BY <2>2 DEF Pairs
    <3>2. w = xWire
      BY <1>0, <3>1 DEF Taken
    <3> QED
      BY <1>0, <2>2, <3>2
  <2> QED
    BY <2>1, <2>2
<1> HIDE DEF w
<1>4. /\ xWire' \in [Pairs -> Nat]
      /\ \A a, b \in NewCorrect : xWire'[<<a, b>>] =
            IF i \in xUp /\ a = i /\ b = j THEN w[<<a, b>>] + 1 ELSE w[<<a, b>>]
  BY <1>0, <1>2, <1>3, SentToFacts
<1>5. ExchangeTypeOK'
  BY <1>0, <1>4 DEF ExchangeTypeOK
<1>6. ReleasedPersisted' /\ Registered'
  BY <1>0 DEF ExchangeInv, ReleasedPersisted, Registered, ExchangeTypeOK
<1>7. WireBudget'
  <2>1. ASSUME NEW a \in NewCorrect, NEW b \in NewCorrect
        PROVE  /\ xWire'[<<a, a>>] = 0
               /\ xWire'[<<a, b>>] + xWire'[<<b, a>>] <= xWire[<<a, b>>] + xWire[<<b, a>>]
    <3>1. /\ xWire[<<a, b>>] \in Nat /\ xWire[<<b, a>>] \in Nat /\ xWire[<<a, a>>] = 0
      BY <1>1
    <3>2. xWire'[<<a, a>>] = 0
      BY <1>2, <1>3, <1>4, <3>1
    <3>3. CASE ~((a = i /\ b = j) \/ (a = j /\ b = i))
      <4>1. xWire'[<<a, b>>] = xWire[<<a, b>>] /\ xWire'[<<b, a>>] = xWire[<<b, a>>]
        BY <1>3, <1>4, <3>3
      <4> QED
        BY <3>1, <3>2, <4>1
    <3>4. CASE a = i /\ b = j
      <4>1. /\ xWire'[<<a, b>>] <= xWire[<<a, b>>] + 1
            /\ xWire'[<<b, a>>] = xWire[<<b, a>>] - 1
            /\ xWire'[<<a, b>>] \in Nat
        BY <1>2, <1>3, <1>4, <3>1, <3>4
      <4> QED
        BY <3>1, <3>2, <4>1
    <3>5. CASE a = j /\ b = i
      <4>1. /\ xWire'[<<b, a>>] <= xWire[<<b, a>>] + 1
            /\ xWire'[<<a, b>>] = xWire[<<a, b>>] - 1
            /\ xWire'[<<b, a>>] \in Nat
        BY <1>2, <1>3, <1>4, <3>1, <3>5
      <4> QED
        BY <3>1, <3>2, <4>1
    <3> QED
      BY <3>3, <3>4, <3>5
  <2>2. \A k \in NewCorrect : OwnRounds(k)' = OwnRounds(k) /\ OwnRounds(k) \in Nat
    BY <1>0, ExchangeNumbers DEF OwnRounds
  <2>3. \A k \in NewCorrect : OwnRounds(k)' >= OwnRounds(k)
    BY <2>2
  <2> QED
    BY <1>0, <1>5, <2>1, <2>3, QuietBudget
<1>8. OutputOnItsWay'
  <2> SUFFICES ASSUME NEW a \in xPending, NEW b \in xUp, b \notin xOutputs'[a]
               PROVE  xWire'[<<a, b>>] > 0 \/ xWire'[<<b, a>>] > 0
    BY <1>0 DEF OutputOnItsWay
  <2>0. a \in NewCorrect /\ b \in NewCorrect /\ a \in xUp /\ xOutputs[a] \subseteq xOutputs'[a]
    BY <1>0 DEF ExchangeTypeOK
  <2>1. xWire[<<a, b>>] > 0 \/ xWire[<<b, a>>] > 0
    BY <2>0 DEF ExchangeInv, OutputOnItsWay
  <2>2. xWire[<<a, b>>] \in Nat /\ xWire[<<b, a>>] \in Nat
    BY <1>1, <2>0
\* The message taken goes to another: its answer is under way.
  <2>3. CASE a = i /\ b = j
    <3>1. j \in xOutputs'[i]
      BY <1>0, <2>0, <2>3 DEF ExchangeTypeOK
    <3> QED
      BY <2>3, <3>1
  <2>4. CASE a = j /\ b = i
    <3>1. xWire'[<<b, a>>] = xWire[<<b, a>>] + 1
      BY <1>2, <1>3, <1>4, <2>0, <2>4
    <3> QED
      BY <2>2, <3>1
  <2>5. CASE ~((a = i /\ b = j) \/ (a = j /\ b = i))
    <3>1. xWire'[<<a, b>>] = xWire[<<a, b>>] /\ xWire'[<<b, a>>] = xWire[<<b, a>>]
      BY <1>3, <1>4, <2>0, <2>5
    <3> QED
      BY <2>1, <3>1
  <2> QED
    BY <2>3, <2>4, <2>5
<1> QED
  BY <1>5, <1>6, <1>7, <1>8 DEF ExchangeInv

\* Before the exchange nothing is under way.
LEMMA ExchangeInitInv == ExchangeInit => ExchangeInv
<1> SUFFICES ASSUME ExchangeInit PROVE ExchangeInv
  OBVIOUS
<1>1. ExchangeTypeOK
  BY ExchangeAssumption DEF ExchangeInit, ExchangeTypeOK
<1>2. ReleasedPersisted /\ Registered /\ OutputOnItsWay
  BY DEF ExchangeInit, ReleasedPersisted, Registered, OutputOnItsWay
<1>3. WireBudget
  <2>1. \A a, b \in NewCorrect : xWire[<<a, b>>] = 0
    BY DEF ExchangeInit, Pairs
  <2>2. \A a \in NewCorrect : OwnRounds(a) \in Nat
    BY <1>1, ExchangeNumbers
  <2>3. xCrashed * (MaxSends + 1) = 0
    BY ExchangeAssumption DEF ExchangeInit
  <2>4. ASSUME NEW a \in NewCorrect, NEW b \in NewCorrect
        PROVE  /\ xWire[<<a, a>>] = 0
               /\ xWire[<<a, b>>] + xWire[<<b, a>>]
                    <= OwnRounds(a) + OwnRounds(b) + xCrashed * (MaxSends + 1)
    <3>1. /\ xWire[<<a, a>>] = 0 /\ xWire[<<a, b>>] = 0 /\ xWire[<<b, a>>] = 0
          /\ OwnRounds(a) \in Nat /\ OwnRounds(b) \in Nat
      BY <2>1, <2>2
    <3> QED
      BY <2>3, <3>1
  <2> QED
    BY <2>4 DEF WireBudget
<1> QED
  BY <1>1, <1>2, <1>3 DEF ExchangeInv

\* Every step of the exchange keeps the invariant.
LEMMA ExchangeStepInv == ExchangeInv /\ [ExchangeNext]_exchangeVars => ExchangeInv'
<1> SUFFICES ASSUME ExchangeInv, [ExchangeNext]_exchangeVars PROVE ExchangeInv'
  OBVIOUS
<1>1. ASSUME NEW i \in NewCorrect, PersistOnce(i) \/ Release(i) \/ Repeat(i) PROVE ExchangeInv'
  BY <1>1, PersistOnceInv, ReleaseInv, RepeatInv
<1>2. ASSUME NEW i \in NewCorrect, ExchangeEnds(i) \/ ContextEnds(i) PROVE ExchangeInv'
  BY <1>2, ReturnsInv DEF ExchangeEnds, ContextEnds
<1>3. ASSUME NEW i \in NewCorrect, NEW j \in New, OnOutput(i, j) PROVE ExchangeInv'
  BY <1>3, OnOutputInv
<1>4. ASSUME NEW i \in NewCorrect, CloseService(i) \/ CrashReceiver(i) PROVE ExchangeInv'
  BY <1>4, CloseServiceInv, CrashReceiverInv
<1>5. CASE UNCHANGED exchangeVars
  BY <1>5 DEF exchangeVars, ExchangeInv, ExchangeTypeOK, ReleasedPersisted, Registered,
              WireBudget, OwnRounds, OutputOnItsWay
<1> QED
  BY <1>1, <1>2, <1>3, <1>4, <1>5 DEF ExchangeNext

\* Two members that answer each other, each with at most MaxSends + 1 rounds of
\* its own in each run.
LEMMA BudgetBoundsEcho == ExchangeInv => EchoBounded
<1> SUFFICES ASSUME ExchangeInv, NEW i \in NewCorrect, NEW j \in NewCorrect
             PROVE  xWire[<<i, j>>] + xWire[<<j, i>>] <= (2 + xCrashed) * (MaxSends + 1)
  BY DEF EchoBounded
<1> DEFINE B == xCrashed * (MaxSends + 1)
<1>1. /\ B \in Nat /\ MaxSends \in Nat /\ xCrashed \in Nat
      /\ OwnRounds(i) \in 0 .. MaxSends + 1 /\ OwnRounds(j) \in 0 .. MaxSends + 1
      /\ xWire[<<i, j>>] \in Nat /\ xWire[<<j, i>>] \in Nat
  BY ExchangeNumbers DEF ExchangeInv
<1>2. xWire[<<i, j>>] + xWire[<<j, i>>] <= OwnRounds(i) + OwnRounds(j) + B
  BY DEF ExchangeInv, WireBudget
<1>3. (2 + xCrashed) * (MaxSends + 1) = B + MaxSends + 1 + MaxSends + 1
  BY <1>1
<1> HIDE DEF B
<1> QED
  BY <1>1, <1>2, <1>3

\* A member has the output of every open one with which nothing is under way.
LEMMA QuietHeard ==
    ASSUME ExchangeInv, NEW i \in xPending, ~EnoughOutputs(i)
    PROVE  Cardinality({j \in xUp : Quiet(i, j)}) < ShareThreshold
<1> DEFINE Q == {j \in xUp : Quiet(i, j)}
<1>1. i \in NewCorrect /\ xUp \subseteq NewCorrect /\ xOutputs[i] \subseteq New
  BY DEF ExchangeInv, ExchangeTypeOK
<1>2. Q \subseteq xOutputs[i]
  <2> SUFFICES ASSUME NEW j \in xUp, Quiet(i, j), j \notin xOutputs[i] PROVE FALSE
    OBVIOUS
  <2>1. xWire[<<i, j>>] = 0 /\ xWire[<<j, i>>] = 0
    BY DEF Quiet
  <2>2. xWire[<<i, j>>] > 0 \/ xWire[<<j, i>>] > 0
    BY DEF ExchangeInv, OutputOnItsWay
  <2> QED
    BY <2>1, <2>2
<1> HIDE DEF Q
<1>3. IsFiniteSet(New) /\ IsFiniteSet(xOutputs[i])
  BY <1>1, ExchangeAssumption, SubsetCount
<1>4. /\ Cardinality(Q) <= Cardinality(xOutputs[i])
      /\ Cardinality(Q) \in Nat /\ Cardinality(xOutputs[i]) \in Nat
  BY <1>2, <1>3, SubsetCount
<1>5. ShareThreshold \in Int
  BY <1>3, ExchangeAssumption, FS_CardinalityType DEF ShareThreshold
<1>6. Cardinality(Q) < ShareThreshold
  BY <1>4, <1>5 DEF EnoughOutputs
<1> QED
  BY <1>6 DEF Q

\* What a step that ends a call by giving up has found, the action of FailsAlone.
GivesUpAlone ==
    \A i \in NewCorrect :
        xEnded[i] = "no" /\ xEnded'[i] = "failed" =>
            Cardinality({j \in xUp : Quiet(i, j)}) < ShareThreshold

\* Only the end of a call without enough outputs makes a member fail.
LEMMA GivesUpStep == ExchangeInv /\ [ExchangeNext]_exchangeVars => GivesUpAlone
<1> SUFFICES ASSUME ExchangeInv, [ExchangeNext]_exchangeVars, NEW i \in NewCorrect,
                    xEnded[i] = "no", xEnded'[i] = "failed"
             PROVE  Cardinality({j \in xUp : Quiet(i, j)}) < ShareThreshold
  BY DEF GivesUpAlone
<1>1. xEnded' # xEnded
  OBVIOUS
<1>2. PICK k \in NewCorrect : ExchangeEnds(k) \/ ContextEnds(k)
  BY <1>1 DEF ExchangeNext, exchangeVars, PersistOnce, Release, Repeat, CloseService,
              CrashReceiver, OnOutput
<1>3. k \in xPending /\ xEnded \in [NewCorrect -> {"no", "done", "failed", "cancelled"}]
  BY <1>2 DEF ExchangeInv, ExchangeTypeOK, ExchangeEnds, ContextEnds
<1>4. k = i /\ ~EnoughOutputs(i)
  BY <1>2, <1>3 DEF ExchangeEnds, ContextEnds, Returns
<1> QED
  BY <1>3, <1>4, QuietHeard

\* The scalar exchange stays within its ranges and its outputs stand, whenever
\* members crash, are cancelled or close their services: released outputs are on
\* disk, the answers of two members do not multiply, and who gives up has the
\* outputs of all open members with which nothing is under way, and they are
\* fewer than the threshold.
THEOREM OutputsStandCorrect == ExchangeSpec => []ExchangeTypeOK /\ OutputsStand
<1>1. ExchangeInv => ExchangeTypeOK /\ ReleasedPersisted /\ EchoBounded
  BY BudgetBoundsEcho DEF ExchangeInv
<1>2. ExchangeSpec => []ExchangeInv
  BY ExchangeInitInv, ExchangeStepInv, PTL DEF ExchangeSpec
<1>3. ExchangeSpec => FailsAlone
  <2>1. ExchangeInv /\ [ExchangeNext]_exchangeVars => [GivesUpAlone]_exchangeVars
    BY GivesUpStep
  <2> QED
    BY <1>2, <2>1, PTL DEF ExchangeSpec, FailsAlone, GivesUpAlone
<1> QED
  BY <1>1, <1>2, <1>3, PTL DEF OutputsStand

-----------------------------------------------------------------------------
(* The receipts: module Receipts.  A host that exchanges has prepared its  *)
(* receipts.                                                               *)
ReceiptInv ==
    /\ ReceiptTypeOK
    /\ rcState = [p \in LiveHosts |-> rcState[p]]
    /\ rcShards = [p \in LiveHosts |-> rcShards[p]]
    /\ rcPrepared = [p \in LiveHosts |-> rcPrepared[p]]
    /\ rcVerified = [p \in LiveHosts |-> rcVerified[p]]
    /\ \A p \in LiveHosts : rcState[p] = "exchanging" => rcPrepared[p] = 1

\* Shards are added while a host recovers and receipts while it exchanges.
LEMMA ReceiptStepInv == ReceiptInv /\ [ReceiptNext]_receiptVars => ReceiptInv'
<1> SUFFICES ASSUME ReceiptInv, [ReceiptNext]_receiptVars PROVE ReceiptInv'
  OBVIOUS
<1> USE DEF ReceiptInv, ReceiptTypeOK
<1>1. ASSUME NEW p \in LiveHosts, NEW q \in Hosts, ShardRecovered(p, q) PROVE ReceiptInv'
  BY <1>1 DEF ShardRecovered
<1>2. ASSUME NEW p \in LiveHosts, PrepareReceipts(p) PROVE ReceiptInv'
  BY <1>2 DEF PrepareReceipts
<1>3. ASSUME NEW p \in LiveHosts, RegisterExchange(p) PROVE ReceiptInv'
  BY <1>3 DEF RegisterExchange
<1>4. ASSUME NEW p \in LiveHosts, StartExchange(p) PROVE ReceiptInv'
  BY <1>4 DEF StartExchange
<1>5. ASSUME NEW p \in LiveHosts, Rebroadcast(p) PROVE ReceiptInv'
  BY <1>5 DEF Rebroadcast
<1>6. ASSUME NEW p \in LiveHosts, NEW q \in Hosts, ReceiptArrives(p, q) PROVE ReceiptInv'
  BY <1>6 DEF ReceiptArrives
<1>7. ASSUME NEW p \in LiveHosts, FinishExchange(p) PROVE ReceiptInv'
  BY <1>7 DEF FinishExchange, ReceiptsSuffice
<1>8. CASE UNCHANGED receiptVars
  BY <1>8 DEF receiptVars
<1> QED
  BY <1>1, <1>2, <1>3, <1>4, <1>5, <1>6, <1>7, <1>8 DEF ReceiptNext

LEMMA ReceiptInitInv == ReceiptInit => ReceiptInv
BY DEF ReceiptInit, ReceiptInv, ReceiptTypeOK

-----------------------------------------------------------------------------
(* The four exchanges side by side, as the run has them. *)

\* A behaviour of one exchange is a behaviour of each of them.
LEMMA ExchangesSideBySide ==
    MCSpec => Spec /\ ValidationSpec /\ ExchangeSpec /\ ReceiptSpec
<1>1. MCInit => Init /\ ValidationInit /\ ExchangeInit /\ ReceiptInit
  BY DEF MCInit
<1>2. [MCNext]_allVars =>
         /\ [Next]_vars /\ [ValidationNext]_validationVars
         /\ [ExchangeNext]_exchangeVars /\ [ReceiptNext]_receiptVars
  BY DEF MCNext, allVars
<1>3. MCSpec => MCInit /\ [][MCNext]_allVars
  BY PTL DEF MCSpec
<1> QED
  BY <1>1, <1>2, <1>3, PTL DEF Spec, ValidationSpec, ExchangeSpec, ReceiptSpec

\* In all four exchanges the variables stay in their ranges, for every
\* committee and every bound: no host finishes on fewer than t+1 receipts or
\* on an aggregate it has not recovered.
THEOREM TypesOKCorrect == MCSpec => []TypesOK
<1>1. ReceiptSpec => []ReceiptInv
  BY ReceiptInitInv, ReceiptStepInv, PTL DEF ReceiptSpec
<1>2. PoolInv /\ ValidationInv /\ ExchangeInv /\ ReceiptInv => TypesOK
  BY DEF PoolInv, ValidationInv, ExchangeInv, ReceiptInv, TypesOK
<1>3. ExchangeSpec => []ExchangeInv
  BY ExchangeInitInv, ExchangeStepInv, PTL DEF ExchangeSpec
<1> QED
  BY <1>1, <1>2, <1>3, ExchangesSideBySide, PoolInvariance, ValidationInvariance, PTL

\* Results are sent once: in every behaviour of the run and for every committee,
\* who signed a pool nevertheless joins the coin behind its certificate, and a
\* validator whose signature counted keeps the certificate it is in.
THEOREM SignersEndUpCorrect == MCSpec => []SignersEndUp
<1>1. SignersJoin /\ SignersLearn => SignersEndUp
  BY DEF SignersEndUp
<1> QED
  BY <1>1, ExchangesSideBySide, SignersJoinCorrect, SignersLearnCorrect, PTL
=============================================================================

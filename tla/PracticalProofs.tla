--------------------------- MODULE PracticalProofs ---------------------------
(***************************************************************************)
(* What the stages of Practical-ADKR guarantee for every committee with    *)
(* n >= 3f+1 and whatever the faulty members deal, disperse, vote and      *)
(* send.  Each stage has an invariant of its own; MCPractical puts the     *)
(* stages side by side, and the last part puts the invariants together.    *)
(* A second invariant of each stage shows that what rests has ended.       *)
(***************************************************************************)
EXTENDS MCPractical, QuorumLemmas

\* The committee: finite, with at most F faulty members.
LEMMA MemberFacts ==
    /\ IsFiniteSet(Old) /\ IsFiniteSet(Correct) /\ IsFiniteSet(Faulty)
    /\ Correct \subseteq Old /\ Faulty \subseteq Old /\ F \in Nat
    /\ Cardinality(Old) \in Nat /\ Cardinality(Faulty) \in Nat
    /\ Cardinality(Faulty) <= F /\ Cardinality(Old) >= 3 * F + 1
<1>1. Correct \subseteq Old
  BY DEF Correct
<1> QED
  BY <1>1, CommitteeAssumption, SubsetCount, FS_CardinalityType

\* The correct members are n-f or more.
LEMMA EnoughCorrect ==
    /\ Correct # {} /\ Cardinality(Correct) \in Nat
    /\ Cardinality(Correct) >= Cardinality(Old) - F
    /\ \A S : IsFiniteSet(S) /\ Correct \subseteq S =>
          Cardinality(S) \in Nat /\ Cardinality(S) >= Cardinality(Old) - F
<1> DEFINE C == Correct
<1>1. C \in SUBSET (Old \ Faulty) /\ C \cup Faulty = Old
  BY MemberFacts DEF Correct
<1> HIDE DEF C
<1>2. Cardinality(C \cup Faulty) >= Cardinality(Old)
  <2>1. Cardinality(C \cup Faulty) = Cardinality(Old)
    BY <1>1, Zenon
  <2>2. Cardinality(Old) \in Int
    BY MemberFacts
  <2> QED
    BY <2>1, <2>2
<1>3. Cardinality(C) \in Nat /\ Cardinality(C) >= Cardinality(Old) - F
  BY <1>1, <1>2, MemberFacts, CorrectSigners
<1>4. C # {}
  BY <1>3, MemberFacts, FS_EmptySet
<1>5. ASSUME NEW S, IsFiniteSet(S), C \subseteq S
      PROVE  Cardinality(S) \in Nat /\ Cardinality(S) >= Cardinality(Old) - F
  <2>1. Cardinality(C) <= Cardinality(S) /\ Cardinality(S) \in Nat
    BY <1>5, SubsetCount
  <2> QED
    BY <1>3, <2>1, MemberFacts
<1> QED
  BY <1>3, <1>4, <1>5 DEF C

-----------------------------------------------------------------------------
(* Dealing (pvss_dxt.go, dxt_network.go). *)

\* A correct dealer has one vector only; who has signed a lane has a share of
\* its dealer, and a collected signature of a correct receiver exists.
LanesSigned ==
    /\ \A m \in dSigned : /\ dShare[m[2]][m[1]] # None
                          /\ m[1] \in Correct => m[3] = OwnVector
    /\ \A r \in Correct, d \in Dealers \cap Correct : dShare[r][d] \in {None, OwnVector}
    /\ \A d \in Dealers \cap Correct, r \in Correct :
          r \in dAcks[d] => <<d, r, OwnVector>> \in dSigned

\* A transcript's signatures of correct receivers exist, and a correct dealer
\* puts one together, of its own vector.
TranscriptsSigned ==
    \A t \in dTranscript :
        /\ \A r \in t.signers \cap Correct : <<t.dealer, r, t.vector>> \in dSigned
        /\ t.dealer \in Correct => t.vector = OwnVector /\ dStage[t.dealer] = "dealt"

DealingInv ==
    /\ DealingTypeOK /\ LanesSigned /\ TranscriptsSigned
    /\ dDerived \in [Deriving -> (SUBSET Faulty) \cup {None}]

\* Nothing is dealt at first.
LEMMA DealingInitInv == DealingInit => DealingInv
BY DealingAssumption
   DEF DealingInit, DealingInv, DealingTypeOK, LanesSigned, TranscriptsSigned

\* Who derives opens the lanes of correct dealers: its live store has the one
\* vector they ever deal.
LEMMA DeriveInv ==
    ASSUME NEW p \in Deriving, DealingInv, Derive(p) PROVE DealingInv'
<1> DEFINE S == {t.dealer : t \in {u \in dTranscript : ~LaneOpens(dShare[p], p, u)}}
<1>1. dDerived' = [dDerived EXCEPT ![p] = S]
  BY DEF Derive, SharesAtDerive
<1>2. ASSUME NEW t \in dTranscript, ~LaneOpens(dShare[p], p, t) PROVE t.dealer \in Faulty
  <2> SUFFICES ASSUME t.dealer \in Correct PROVE FALSE
    BY <1>2, DealingAssumption, MemberFacts
       DEF DealingInv, DealingTypeOK, Transcript, Correct
  <2>1. p \in t.signers \cap Correct /\ t.dealer \in Dealers
    BY <1>2, DealingAssumption DEF LaneOpens, DealingInv, DealingTypeOK, Transcript
  <2>2. <<t.dealer, p, t.vector>> \in dSigned /\ t.vector = OwnVector
    BY <2>1 DEF DealingInv, TranscriptsSigned
  <2>3. dShare[p][t.dealer] = OwnVector
    BY <2>1, <2>2 DEF DealingInv, LanesSigned
  <2> QED
    BY <1>2, <2>2, <2>3 DEF LaneOpens
<1>3. S \subseteq Faulty
  BY <1>2
<1>4. DealingTypeOK'
  BY DEF Derive, DealingInv, DealingTypeOK
<1>5. LanesSigned' /\ TranscriptsSigned'
  BY DEF Derive, DealingInv, LanesSigned, TranscriptsSigned
<1> QED
  BY <1>1, <1>3, <1>4, <1>5 DEF DealingInv

\* A first transcript of its dealer, with signatures that exist.
LEMMA TranscriptAdded ==
    ASSUME DealingInv, DealingTypeOK', NEW t \in Transcript,
           dTranscript' = dTranscript \cup {t}, UNCHANGED <<dShare, dSigned, dAcks, dDerived>>,
           \A r \in t.signers \cap Correct : <<t.dealer, r, t.vector>> \in dSigned,
           t.dealer \in Correct => t.vector = OwnVector /\ dStage'[t.dealer] = "dealt",
           \A d \in Dealers : dStage[d] = "dealt" => dStage'[d] = "dealt"
    PROVE  DealingInv'
<1>1. LanesSigned'
  BY DEF DealingInv, LanesSigned
<1>2. TranscriptsSigned'
  BY DEF DealingInv, DealingTypeOK, TranscriptsSigned, Transcript
<1> QED
  BY <1>1, <1>2 DEF DealingInv

\* Every step of the dealing.
LEMMA DealingStepInv == DealingInv /\ [DealingNext]_dealingVars => DealingInv'
<1> SUFFICES ASSUME DealingInv, [DealingNext]_dealingVars PROVE DealingInv'
  OBVIOUS
<1>1. ASSUME NEW p \in Old, StartService(p) PROVE DealingInv'
  BY <1>1 DEF StartService, DealingInv, DealingTypeOK, LanesSigned, TranscriptsSigned
<1>2. ASSUME NEW d \in Dealers, ReceiversReady(d) PROVE DealingInv'
  <2>1. DealingTypeOK'
    BY <1>2 DEF ReceiversReady, DealingInv, DealingTypeOK
  <2>2. LanesSigned'
    BY <1>2 DEF ReceiversReady, DealingInv, LanesSigned
  <2>3. TranscriptsSigned'
    BY <1>2 DEF ReceiversReady, DealingInv, DealingTypeOK, TranscriptsSigned, Transcript
  <2> QED
    BY <1>2, <2>1, <2>2, <2>3 DEF ReceiversReady, DealingInv
<1>3. ASSUME NEW d \in Dealers, NEW r \in Old, NEW v \in Vectors, HandleLane(d, r, v)
      PROVE  DealingInv'
  <2>1. r \in Correct /\ dShare' = [dShare EXCEPT ![r][d] = v]
        /\ dSigned' = dSigned \cup {<<d, r, v>>} /\ (d \in Correct => v = OwnVector)
    BY <1>3 DEF HandleLane, CanSendLane, StoreShare
  <2>2. DealingTypeOK'
    BY <1>3, <2>1 DEF HandleLane, DealingInv, DealingTypeOK
  <2>3. \A q \in Correct, e \in Dealers :
           dShare'[q][e] = IF q = r /\ e = d THEN v ELSE dShare[q][e]
    BY <2>1 DEF DealingInv, DealingTypeOK
  <2>4. LanesSigned'
    <3>1. \A m \in dSigned' : /\ dShare'[m[2]][m[1]] # None
                              /\ m[1] \in Correct => m[3] = OwnVector
      <4> TAKE m \in dSigned'
      <4>1. CASE m \in dSigned
        <5>1. m[1] \in Dealers /\ m[2] \in Correct
          BY <4>1 DEF DealingInv, DealingTypeOK
        <5> QED
          BY <2>3, <4>1, <5>1, DealingAssumption DEF DealingInv, LanesSigned
      <4>2. CASE m = <<d, r, v>>
        BY <2>1, <2>3, <4>2, DealingAssumption
      <4> QED
        BY <2>1, <4>1, <4>2
    <3>2. \A q \in Correct, e \in Dealers \cap Correct : dShare'[q][e] \in {None, OwnVector}
      BY <2>1, <2>3 DEF DealingInv, LanesSigned
    <3>3. \A e \in Dealers \cap Correct, q \in Correct :
             q \in dAcks'[e] => <<e, q, OwnVector>> \in dSigned'
      BY <1>3, <2>1 DEF HandleLane, DealingInv, LanesSigned
    <3> QED
      BY <3>1, <3>2, <3>3 DEF LanesSigned
  <2>5. TranscriptsSigned'
    BY <1>3, <2>1 DEF HandleLane, DealingInv, TranscriptsSigned
  <2> QED
    BY <1>3, <2>2, <2>4, <2>5 DEF HandleLane, DealingInv
<1>4. ASSUME NEW d \in Dealers, NEW r \in Old, CollectAck(d, r) PROVE DealingInv'
  <2>1. DealingTypeOK'
    BY <1>4 DEF CollectAck, DealingInv, DealingTypeOK
  <2>2. LanesSigned'
    BY <1>4 DEF CollectAck, DealingInv, DealingTypeOK, LanesSigned, Correct
  <2>3. TranscriptsSigned'
    BY <1>4 DEF CollectAck, DealingInv, TranscriptsSigned
  <2> QED
    BY <1>4, <2>1, <2>2, <2>3 DEF CollectAck, DealingInv
<1>5. ASSUME NEW d \in Dealers, Assemble(d) PROVE DealingInv'
  <2> DEFINE t == [dealer |-> d, vector |-> OwnVector, signers |-> dAcks[d]]
  <2>1. t \in Transcript /\ dTranscript' = dTranscript \cup {t} /\ d \in Correct
    BY <1>5, DealingAssumption DEF Assemble, DealingInv, DealingTypeOK, Transcript
  <2>2. \A u \in dTranscript : u.dealer # d
    BY <1>5, <2>1 DEF Assemble, DealingInv, TranscriptsSigned
  <2>3. dStage' = [dStage EXCEPT ![d] = "dealt"] /\ dStage \in [Dealers -> {"start", "dealing", "dealt", "failed"}]
    BY <1>5 DEF Assemble, DealingInv, DealingTypeOK
  <2>4. DealingTypeOK'
    BY <1>5, <2>1, <2>2 DEF Assemble, DealingInv, DealingTypeOK
  <2>5. \A r \in t.signers \cap Correct : <<t.dealer, r, t.vector>> \in dSigned
    BY <2>1 DEF DealingInv, LanesSigned
  <2>6. UNCHANGED <<dShare, dSigned, dAcks, dDerived>>
    BY <1>5 DEF Assemble
  <2> QED
    BY <2>1, <2>3, <2>4, <2>5, <2>6, TranscriptAdded
<1>6. ASSUME NEW d \in Dealers, DealTimeout(d) PROVE DealingInv'
  <2>1. DealingTypeOK'
    BY <1>6 DEF DealTimeout, DealingInv, DealingTypeOK
  <2>2. LanesSigned'
    BY <1>6 DEF DealTimeout, DealingInv, LanesSigned
  <2>3. TranscriptsSigned'
    BY <1>6 DEF DealTimeout, DealingInv, DealingTypeOK, TranscriptsSigned, Transcript
  <2> QED
    BY <1>6, <2>1, <2>2, <2>3 DEF DealTimeout, DealingInv
<1>7. ASSUME NEW t \in Transcript, AssembleAny(t) PROVE DealingInv'
  <2>1. DealingTypeOK'
    BY <1>7 DEF AssembleAny, DealingInv, DealingTypeOK
  <2>2. t.dealer \notin Correct
    BY <1>7 DEF AssembleAny, Correct
  <2> QED
    BY <1>7, <2>1, <2>2, TranscriptAdded DEF AssembleAny, VerifyTranscript
<1>8. ASSUME NEW p \in Deriving, TakeSnapshot(p) PROVE DealingInv'
  <2>1. dShare[p] \in [Dealers -> Vectors \cup {None}]
    BY DealingAssumption DEF DealingInv, DealingTypeOK
  <2>2. DealingTypeOK'
    BY <1>8, <2>1 DEF TakeSnapshot, DealingInv, DealingTypeOK
  <2>3. LanesSigned' /\ TranscriptsSigned'
    BY <1>8 DEF TakeSnapshot, DealingInv, LanesSigned, TranscriptsSigned
  <2> QED
    BY <1>8, <2>2, <2>3 DEF TakeSnapshot, DealingInv
<1>9. ASSUME NEW p \in Deriving, Derive(p) PROVE DealingInv'
  BY <1>9, DeriveInv
<1>10. CASE UNCHANGED dealingVars
  BY <1>10 DEF dealingVars, DealingInv, DealingTypeOK, LanesSigned, TranscriptsSigned
<1> QED
  BY <1>1, <1>2, <1>3, <1>4, <1>5, <1>6, <1>7, <1>8, <1>9, <1>10 DEF DealingNext

\* The invariant implies what the runs check of the dealing.
LEMMA DealingHolds == DealingInv => CorrectDealersOpen /\ SignersStored
<1> SUFFICES ASSUME DealingInv PROVE CorrectDealersOpen /\ SignersStored
  OBVIOUS
<1>1. CorrectDealersOpen
  BY DEF DealingInv, CorrectDealersOpen
<1>2. SignersStored
  BY DEF DealingInv, DealingTypeOK, LanesSigned, TranscriptsSigned, SignersStored, Transcript
<1> QED
  BY <1>1, <1>2

-----------------------------------------------------------------------------
(* Partial verification (partial_verify_multicast.go). *)

\* The accepted result of a correct verifier is the bit it has found.
TruthfulSeen ==
    \A p \in Correct : \A m \in pvSeen[p] :
        m[1] \in Correct => m[3] = LanesValid(m[1], m[2])

PartialInv == PartialTypeOK /\ TruthfulSeen /\ VerifiedSound

\* Of f+1 positive votes for a lane one is a correct verifier's.
LEMMA VotedIsValid ==
    ASSUME PartialInv, NEW p \in Correct, NEW dealer \in Selected, NEW lane \in Old,
           Positive(p, dealer, lane) >= F + 1
    PROVE  <<dealer, lane>> \notin pvBad
<1> DEFINE V == {m \in pvSeen[p] : m[2] = dealer /\ m[3] /\ lane \in Window(m[1])}
           voter == [m \in V |-> m[1]]
<1>1. PICK m \in V : m[1] \in Correct
  <2> SUFFICES ASSUME \A m \in V : m[1] \in Faulty PROVE FALSE
    BY MemberFacts DEF PartialInv, PartialTypeOK, Correct
  <2>1. voter \in [V -> Faulty] /\ \A a, b \in V : voter[a] = voter[b] => a = b
    BY DEF PartialInv, PartialTypeOK
  <2>2. Cardinality(V) <= Cardinality(Faulty) /\ Cardinality(V) \in Nat
    <3> HIDE DEF V, voter
    <3> QED
      BY <2>1, MemberFacts, InjectionCount
  <2>3. Cardinality(V) >= F + 1
    BY DEF Positive
  <2> QED
    BY <2>2, <2>3, MemberFacts
<1>2. LanesValid(m[1], dealer)
  BY <1>1 DEF PartialInv, TruthfulSeen
<1> QED
  BY <1>1, <1>2 DEF LanesValid

\* Nothing is accepted at first.
LEMMA PartialInitInv == PartialInit => PartialInv
BY PartialAssumption
   DEF PartialInit, PartialInv, PartialTypeOK, TruthfulSeen, VerifiedSound

\* Every step of the stage.
LEMMA PartialStepInv == PartialInv /\ [PartialNext]_partialVars => PartialInv'
<1> SUFFICES ASSUME PartialInv, [PartialNext]_partialVars PROVE PartialInv'
  OBVIOUS
<1>0. \A p, dealer : LanesValid(p, dealer) \in BOOLEAN
  BY DEF LanesValid
<1>1. ASSUME NEW p \in Correct, VerifyWindow(p) PROVE PartialInv'
  <2> DEFINE own == {<<p, dealer, LanesValid(p, dealer)>> : dealer \in Selected}
  <2>1. /\ pvSeen' = [pvSeen EXCEPT ![p] = own] /\ UNCHANGED <<pvBad, pvSent>>
        /\ pvStage' = [pvStage EXCEPT ![p] = "multicast"]
    BY <1>1 DEF VerifyWindow
  <2>2. /\ own \subseteq Old \X Selected \X BOOLEAN
        /\ \A a, b \in own : a[1] = b[1] /\ a[2] = b[2] => a = b
        /\ \A m \in own : m[3] = LanesValid(m[1], m[2])
    BY <1>0, MemberFacts
  <2> HIDE DEF own
  <2>3. PartialTypeOK'
    BY <2>1, <2>2 DEF PartialInv, PartialTypeOK
  <2>4. TruthfulSeen'
    BY <2>1, <2>2 DEF PartialInv, PartialTypeOK, TruthfulSeen, LanesValid
  <2>5. VerifiedSound'
    BY <2>1 DEF PartialInv, PartialTypeOK, VerifiedSound
  <2> QED
    BY <2>3, <2>4, <2>5 DEF PartialInv
<1>2. ASSUME NEW p \in Correct, Complete(p) PROVE PartialInv'
  <2>1. pvBad = {}
    BY <1>2, VotedIsValid DEF Complete, AllLanesVoted, PartialInv, PartialTypeOK
  <2>2. PartialTypeOK'
    BY <1>2 DEF Complete, PartialInv, PartialTypeOK
  <2>3. TruthfulSeen'
    BY <1>2 DEF Complete, PartialInv, TruthfulSeen, LanesValid
  <2> QED
    BY <1>2, <2>1, <2>2, <2>3 DEF Complete, PartialInv, VerifiedSound
<1>3. ASSUME NEW p \in Correct, StageTimeout(p) PROVE PartialInv'
  <2>1. PartialTypeOK'
    BY <1>3 DEF StageTimeout, PartialInv, PartialTypeOK
  <2>2. TruthfulSeen'
    BY <1>3 DEF StageTimeout, PartialInv, TruthfulSeen, LanesValid
  <2>3. VerifiedSound'
    BY <1>3 DEF StageTimeout, PartialInv, PartialTypeOK, VerifiedSound
  <2> QED
    BY <2>1, <2>2, <2>3 DEF PartialInv
<1>4. ASSUME NEW p \in Correct, NEW q \in Correct, SendResults(p, q) PROVE PartialInv'
  <2>1. PartialTypeOK'
    BY <1>4 DEF SendResults, PartialInv, PartialTypeOK
  <2>2. TruthfulSeen'
    BY <1>4 DEF SendResults, PartialInv, TruthfulSeen, LanesValid
  <2>3. VerifiedSound'
    BY <1>4 DEF SendResults, PartialInv, VerifiedSound
  <2> QED
    BY <2>1, <2>2, <2>3 DEF PartialInv
<1>5. ASSUME NEW q \in Correct, NEW m \in Old \X Selected \X BOOLEAN, Accept(q, m)
      PROVE  PartialInv'
  <2>1. PartialTypeOK'
    BY <1>5 DEF Accept, PartialInv, PartialTypeOK
  <2>2. m[1] \in Correct => m[3] = LanesValid(m[1], m[2])
    BY <1>5 DEF Accept, Results, Correct
  <2>3. TruthfulSeen'
    BY <1>5, <2>2 DEF Accept, PartialInv, PartialTypeOK, TruthfulSeen, LanesValid
  <2>4. VerifiedSound'
    BY <1>5 DEF Accept, PartialInv, VerifiedSound
  <2> QED
    BY <2>1, <2>3, <2>4 DEF PartialInv
<1>6. CASE UNCHANGED partialVars
  BY <1>6 DEF partialVars, PartialInv, PartialTypeOK, TruthfulSeen, LanesValid, VerifiedSound
<1> QED
  BY <1>1, <1>2, <1>3, <1>4, <1>5, <1>6 DEF PartialNext

\* The roster numbers the members.
LEMMA RosterFacts ==
    /\ Len(Ring) = Cardinality(Old) /\ Cardinality(Old) \in Nat \ {0}
    /\ \A k \in RingPlaces : Ring[k] \in Old
    /\ \A k, m \in RingPlaces : Ring[k] = Ring[m] => k = m
    /\ \A p \in Old : \E k \in RingPlaces : Ring[k] = p
    /\ RingPlaces = 1 .. Cardinality(Old)
<1> DEFINE n == Cardinality(Old)
           I == 1 .. n
           g == [k \in I |-> Ring[k]]
<1>1. n \in Nat \ {0} /\ Len(Ring) = n /\ Ring \in Seq(Old)
  BY MemberFacts, PartialAssumption
<1>2. RingPlaces = I /\ \A k \in I : Ring[k] \in Old
  BY <1>1 DEF RingPlaces
<1>3. \A p \in Old : \E k \in I : Ring[k] = p
  BY <1>2, PartialAssumption
<1>4. IsFiniteSet(I) /\ Cardinality(I) = n
  <2> HIDE DEF n
  <2> QED
    BY <1>1, FS_Interval
<1>5. \A k, m \in I : g[k] = g[m] => k = m
  <2>1. g \in [I -> Old] /\ \A p \in Old : \E k \in I : g[k] = p
    BY <1>2, <1>3
  <2>2. Cardinality(I) = Cardinality(Old)
    BY <1>4
  <2> HIDE DEF g, I, n
  <2> QED
    BY <1>4, <2>1, <2>2, ImageCount
<1> QED
  BY <1>1, <1>2, <1>3, <1>5

\* A lane is in the windows of the 2f+1 members that end with its own.
LEMMA LanesCovered == Covered
<1> SUFFICES ASSUME NEW lane \in Old
             PROVE  Cardinality({p \in Old : lane \in Window(p)}) >= 2 * F + 1
  BY DEF Covered
<1> DEFINE n == Cardinality(Old)
           A == {p \in Old : lane \in Window(p)}
           I == 0 .. 2 * F
<1>1. PICK l \in 1 .. n : Ring[l] = lane
  BY RosterFacts
<1>2. n \in Nat \ {0} /\ n >= 3 * F + 1 /\ F \in Nat /\ Len(Ring) = n /\ RingPlaces = 1 .. n
  BY RosterFacts, MemberFacts
<1> DEFINE Place(k) == IF k < l THEN l - k ELSE l - k + n
           verifier == [k \in I |-> Ring[Place(k)]]
<1>3. \A k \in I : Place(k) \in 1 .. n
  <2> HIDE DEF n
  <2> QED
    BY <1>2
<1>4. \A j, k \in I : Place(j) = Place(k) => j = k
  <2> HIDE DEF n
  <2> QED
    BY <1>2
<1>5. ASSUME NEW k \in I PROVE verifier[k] \in A
  <2> DEFINE i == Place(k)
             p == Ring[i]
  <2>1. i \in RingPlaces /\ p \in Old
    BY <1>2, <1>3, RosterFacts
  <2>2. (CHOOSE m \in RingPlaces : Ring[m] = p) = i
    <3> HIDE DEF i
    <3> QED
      BY <2>1, RosterFacts
  <2>3. ((i + k - 1) % n) + 1 = l
    <3>1. i + k - 1 \in Nat /\ l - 1 \in 0 .. n - 1
          /\ (i + k - 1 = l - 1 \/ i + k - 1 = (l - 1) + n)
      <4> HIDE DEF n
      <4> QED
        BY <1>2
    <3> DEFINE x == i + k - 1
               y == l - 1
    <3>2. x \in Nat /\ y \in 0 .. n - 1 /\ (x = y \/ x = y + n)
      BY <3>1
    <3> HIDE DEF x, y, n, i
    <3>3. x % n = y
      BY <1>2, <3>2, ModWrap
    <3> QED
      BY <1>2, <3>3 DEF x, y
  <2>4. Window(p) = {Ring[((i + j - 1) % Len(Ring)) + 1] : j \in 0 .. 2 * F}
    <3> HIDE DEF i
    <3> QED
      BY <2>1, <2>2 DEF Window, Windows
  <2>5. Ring[((i + k - 1) % Len(Ring)) + 1] = lane
    BY <1>1, <1>2, <2>3
  <2>6. lane \in Window(p)
    <3> HIDE DEF i, p
    <3> QED
      BY <2>4, <2>5
  <2> QED
    BY <2>1, <2>6
<1>6. Cardinality(I) = 2 * F + 1 /\ IsFiniteSet(A)
  <2>1. Cardinality(I) = 2 * F + 1
    BY <1>2, FS_Interval
  <2>2. A \subseteq Old
    OBVIOUS
  <2> HIDE DEF A
  <2> QED
    BY <2>1, <2>2, MemberFacts, FS_Subset
<1>7. verifier \in [I -> A] /\ \A j, k \in I : verifier[j] = verifier[k] => j = k
  <2>1. \A j, k \in I : Ring[Place(j)] = Ring[Place(k)] => j = k
    BY <1>2, <1>3, <1>4, RosterFacts
  <2> HIDE DEF Place, A
  <2> QED
    BY <1>5, <2>1
<1>8. Cardinality(I) <= Cardinality(A) /\ Cardinality(A) \in Nat
  <2> HIDE DEF I, A, verifier
  <2> QED
    BY <1>6, <1>7, InjectionCount
<1> QED
  BY <1>2, <1>6, <1>8

\* p has a result of q on every selected dealer.
HasResults(p, q) == \A d \in Selected : \E s \in pvSeen[p] : s[1] = q /\ s[2] = d

\* A process has its own results from the start, and nobody times out on valid
\* transcripts before somebody has verified them.
PartialSettling ==
    /\ \A p \in Correct : pvStage[p] # "before" => HasResults(p, p)
    /\ (\E p \in Correct : pvStage[p] = "timeout") /\ pvBad = {} =>
          \E p \in Correct : pvStage[p] = "verified"

\* With the results of all correct verifiers on valid transcripts, f+1 and more
\* of the 2f+1 whose windows have a lane have voted for it.
LEMMA AllVotesIn ==
    ASSUME PartialInv, pvBad = {}, NEW p \in Correct, \A q \in Correct : HasResults(p, q)
    PROVE  AllLanesVoted(p)
<1> SUFFICES ASSUME NEW dealer \in Selected, NEW lane \in Old
             PROVE  Positive(p, dealer, lane) >= F + 1
  BY DEF AllLanesVoted
<1> DEFINE V == {m \in pvSeen[p] : m[2] = dealer /\ m[3] /\ lane \in Window(m[1])}
           A == {q \in Old : lane \in Window(q)}
           W == {q \in Correct : lane \in Window(q)}
           voter == [m \in V |-> m[1]]
           vote == [q \in W |-> <<q, dealer, TRUE>>]
<1>1. Cardinality(W) \in Nat /\ Cardinality(W) >= F + 1
  <2>1. Cardinality(A) >= 2 * F + 1
    BY LanesCovered DEF Covered
  <2>2. A \subseteq W \cup Faulty /\ W \in SUBSET (Old \ Faulty)
    BY DEF Correct
  <2> HIDE DEF A, W
  <2>3. W \cup Faulty \subseteq Old
    BY <2>2, MemberFacts
  <2>4. IsFiniteSet(W \cup Faulty)
    BY <2>3, MemberFacts, SubsetCount
  <2>5. /\ Cardinality(A) <= Cardinality(W \cup Faulty)
        /\ Cardinality(A) \in Nat /\ Cardinality(W \cup Faulty) \in Nat
    BY <2>2, <2>4, SubsetCount
  <2>6. Cardinality(W \cup Faulty) >= 2 * F + 1 /\ 2 * F + 1 \in Int
    BY <2>1, <2>5, MemberFacts
  <2>7. Cardinality(W) \in Nat /\ Cardinality(W) >= (2 * F + 1) - F
    BY <2>2, <2>6, MemberFacts, CorrectSigners
  <2> QED
    BY <2>7, MemberFacts
<1>2. IsFiniteSet(V)
  <2>1. voter \in [V -> Old] /\ \A a, b \in V : voter[a] = voter[b] => a = b
    BY DEF PartialInv, PartialTypeOK
  <2> HIDE DEF V, voter
  <2> QED
    BY <2>1, MemberFacts, InjectionCount
<1>3. vote \in [W -> V]
  <2> SUFFICES ASSUME NEW q \in W PROVE <<q, dealer, TRUE>> \in V
    OBVIOUS
  <2>1. PICK s \in pvSeen[p] : s[1] = q /\ s[2] = dealer
    BY DEF HasResults
  <2>2. s[3] = LanesValid(q, dealer) /\ LanesValid(q, dealer) = TRUE
    BY <2>1 DEF PartialInv, TruthfulSeen, LanesValid
  <2>3. s \in Old \X Selected \X BOOLEAN
    BY DEF PartialInv, PartialTypeOK
  <2>4. s = <<s[1], s[2], s[3]>>
    BY <2>3
  <2>5. s[3] = TRUE
    BY <2>2, Zenon
  <2>6. s = <<q, dealer, TRUE>>
    BY <2>1, <2>4, <2>5, Zenon
  <2> QED
    BY <2>6
<1>4. \A a, b \in W : vote[a] = vote[b] => a = b
  OBVIOUS
<1>5. Cardinality(W) <= Cardinality(V) /\ Cardinality(V) \in Nat
  <2> HIDE DEF V, W, vote
  <2> QED
    BY <1>2, <1>3, <1>4, InjectionCount
<1>6. Positive(p, dealer, lane) = Cardinality(V)
  BY DEF Positive
<1> HIDE DEF V, W
<1> QED
  BY <1>1, <1>5, <1>6, MemberFacts

LEMMA PartialSettlingStep ==
    ASSUME PartialInv, PartialSettling, [PartialNext]_partialVars
    PROVE  PartialSettling'
<1> DEFINE Own == \A p \in Correct : pvStage[p] # "before" => HasResults(p, p)
           Good == (\E p \in Correct : pvStage[p] = "timeout") /\ pvBad = {} =>
                      \E p \in Correct : pvStage[p] = "verified"
<1>0. Own /\ Good /\ PartialTypeOK
  BY DEF PartialSettling, PartialInv
<1>q. SUFFICES Own' /\ Good'
  BY DEF PartialSettling
<1>1. ASSUME NEW p \in Correct, VerifyWindow(p) PROVE Own' /\ Good'
  <2>1. /\ pvSeen'[p] = {<<p, dealer, LanesValid(p, dealer)>> : dealer \in Selected}
        /\ \A q \in Correct \ {p} : pvSeen'[q] = pvSeen[q] /\ pvStage'[q] = pvStage[q]
        /\ pvStage[p] = "before" /\ pvStage'[p] = "multicast" /\ pvBad' = pvBad
    BY <1>0, <1>1 DEF VerifyWindow, PartialTypeOK
  <2>2. \A d \in Selected : <<p, d, LanesValid(p, d)>> \in pvSeen'[p]
    BY <2>1
  <2>3. \A d \in Selected : \E m \in pvSeen'[p] : m[1] = p /\ m[2] = d
    <3> SUFFICES ASSUME NEW d \in Selected PROVE \E m \in pvSeen'[p] : m[1] = p /\ m[2] = d
      OBVIOUS
    <3> DEFINE w == <<p, d, LanesValid(p, d)>>
    <3>1. w \in pvSeen'[p] /\ w[1] = p /\ w[2] = d
      BY <2>2
    <3> QED
      BY <3>1
  <2>4. Own'
    BY <1>0, <2>1, <2>3 DEF HasResults
  <2>5. Good'
    BY <1>0, <2>1
  <2> QED
    BY <2>4, <2>5
<1>2. ASSUME NEW p \in Correct, Complete(p) PROVE Own' /\ Good'
  BY <1>0, <1>2 DEF Complete, HasResults, PartialTypeOK
<1>3. ASSUME NEW p \in Correct, StageTimeout(p) PROVE Own' /\ Good'
  <2>1. /\ pvStage[p] = "multicast" /\ pvStage' = [pvStage EXCEPT ![p] = "timeout"]
        /\ ~AllLanesVoted(p) /\ pvBad' = pvBad /\ pvSeen' = pvSeen
    BY <1>3 DEF StageTimeout
  <2>2. /\ \A q \in Correct : pvStage[q] # "before"
        /\ \A q, r \in Correct : pvStage[q] = "multicast" /\ q # r => <<q, r>> \in pvSent
        /\ \A r \in Correct : <<r, p>> \in pvSent => HasResults(p, r)
    BY ZenonT(60), <1>3 DEF StageTimeout, HasResults
  <2>3. Own'
    BY <1>0, <2>1, <2>2 DEF HasResults, PartialTypeOK
  <2>4. CASE \E q \in Correct : pvStage[q] = "verified"
    BY <1>0, <2>1, <2>3, <2>4 DEF PartialTypeOK
  <2>5. CASE pvBad # {}
    BY <2>1, <2>3, <2>5
  <2>6. CASE pvBad = {} /\ ~ \E q \in Correct : pvStage[q] = "verified"
    <3>1. \A q \in Correct : pvStage[q] = "multicast"
      BY <1>0, <2>2, <2>6 DEF PartialTypeOK
    <3>2. \A q \in Correct : HasResults(p, q)
      BY <1>0, <2>2, <3>1
    <3>3. AllLanesVoted(p)
      BY <2>6, <3>2, AllVotesIn
    <3> QED
      BY <2>1, <3>3
  <2> QED
    BY <2>4, <2>5, <2>6
<1>4. ASSUME NEW p \in Correct, NEW q \in Correct, SendResults(p, q) PROVE Own' /\ Good'
  BY <1>0, <1>4 DEF SendResults, HasResults
<1>5. ASSUME NEW q \in Correct, NEW m \in Old \X Selected \X BOOLEAN, Accept(q, m)
      PROVE  Own' /\ Good'
  <2>1. /\ \A p \in Correct : pvSeen[p] \subseteq pvSeen'[p]
        /\ pvStage' = pvStage /\ pvBad' = pvBad
    BY <1>0, <1>5 DEF Accept, PartialTypeOK
  <2> QED
    BY <1>0, <2>1 DEF HasResults
<1>6. CASE UNCHANGED partialVars
  BY <1>0, <1>6 DEF partialVars, HasResults
<1> HIDE DEF Own, Good
<1> QED
  BY <1>1, <1>2, <1>3, <1>4, <1>5, <1>6 DEF PartialNext

\* As long as nobody has verified, all go on sending, so all have all results.
LEMMA SomeoneVerifiesHolds ==
    ASSUME PartialInv, PartialSettling
    PROVE  SomeoneVerifies
<1> SUFFICES ASSUME pvBad = {}, PartialAtRest, \A p \in Correct : pvStage[p] # "verified"
             PROVE  FALSE
  BY DEF SomeoneVerifies
<1>1. \A p \in Correct : pvStage[p] = "multicast"
  BY LanesCovered DEF PartialAtRest, PartialSettling, PartialInv, PartialTypeOK
<1>2. PICK p \in Correct : TRUE
  BY EnoughCorrect
<1>3. ASSUME NEW q \in Correct PROVE HasResults(p, q)
  <2>1. CASE q = p
    BY <1>1, <2>1 DEF PartialSettling
  <2>2. CASE q # p
    <3>1. <<q, p>> \in pvSent
      BY <1>1, <2>2 DEF PartialAtRest
    <3> QED
      BY <1>1, <3>1 DEF PartialAtRest, HasResults
  <2> QED
    BY <2>1, <2>2
<1>4. AllLanesVoted(p)
  BY <1>3, AllVotesIn
<1> QED
  BY <1>1, <1>4 DEF PartialAtRest

-----------------------------------------------------------------------------
(* Recast (runRecastRecovery of adkr.go). *)

\* A recipient has nothing or the certified value, and something when it is
\* through; shards are kept of members only.
RecastInv ==
    /\ RecastTypeOK /\ BarrierWitnessed
    /\ rSeen \in [Correct -> SUBSET Old] /\ rShards \in [Correct -> SUBSET Old]
    /\ rValue \in [Correct -> {None, {}}]
    /\ \A p \in Correct : rPhase[p] \in {"complete", "done"} => rValue[p] # None

\* Correct recipients that have recovered.
Recoverers == {q \in Correct : rValue[q] # None}

\* Nobody has recovered at first.
LEMMA RecastInitInv == RecastInit => RecastInv
BY MemberFacts DEF RecastInit, RecastInv, RecastTypeOK, BarrierWitnessed

\* A step after which the same recipients have recovered and none more is done
\* keeps the witnesses of the barrier.
LEMMA WitnessesStay ==
    ASSUME RecastInv, Recoverers \subseteq Recoverers',
           \A p \in Correct : rPhase'[p] = "done" =>
              rPhase[p] = "done" \/ Cardinality(Recoverers') >= CertificateThreshold - F
    PROVE  BarrierWitnessed'
<1> SUFFICES ASSUME NEW p \in Correct, CompletionWait, rPhase'[p] = "done", rPhase[p] = "done"
             PROVE  Cardinality(Recoverers') >= CertificateThreshold - F
  BY DEF BarrierWitnessed, Recoverers, CertificateThreshold
<1>1. Cardinality(Recoverers) >= CertificateThreshold - F
  BY DEF RecastInv, BarrierWitnessed, Recoverers
<1>2. Recoverers' \subseteq Correct
  BY DEF Recoverers
<1>3. IsFiniteSet(Recoverers')
  BY <1>2, MemberFacts, SubsetCount
<1>4. Cardinality(Recoverers) <= Cardinality(Recoverers')
      /\ Cardinality(Recoverers) \in Nat /\ Cardinality(Recoverers') \in Nat
  BY <1>3, SubsetCount
<1> QED
  BY <1>1, <1>4, MemberFacts DEF CertificateThreshold

\* n-f completions include n-2f of correct recipients, each with the value.
LEMMA CompletionInv ==
    ASSUME NEW p \in Correct, RecastInv, CompletionSatisfied(p) PROVE RecastInv'
<1> DEFINE C == {q \in Correct : rPhase[q] \in {"complete", "done"}}
<1>1. C \subseteq Recoverers /\ Recoverers \subseteq Correct /\ UNCHANGED rValue
  BY DEF RecastInv, Recoverers, CompletionSatisfied
<1>2. Cardinality(C) \in Nat /\ Cardinality(C) >= CertificateThreshold - F
  <2>1. C \in SUBSET (Old \ Faulty) /\ C \cup Faulty = Faulty \cup C
    BY DEF Correct
  <2>2. Cardinality(C \cup Faulty) >= CertificateThreshold
    BY <2>1 DEF CompletionSatisfied, Completed
  <2>3. CertificateThreshold \in Int
    BY MemberFacts DEF CertificateThreshold
  <2> HIDE DEF C
  <2> QED
    BY <2>1, <2>2, <2>3, MemberFacts, CorrectSigners
<1>3. Cardinality(C) <= Cardinality(Recoverers) /\ Cardinality(Recoverers) \in Nat
  <2>1. IsFiniteSet(Recoverers)
    BY <1>1, MemberFacts, SubsetCount
  <2> QED
    BY <1>1, <2>1, SubsetCount
<1>4. Cardinality(Recoverers') >= CertificateThreshold - F
  <2>1. Recoverers' = Recoverers
    BY <1>1 DEF Recoverers
  <2> HIDE DEF C
  <2> QED
    BY <1>2, <1>3, <2>1, MemberFacts DEF CertificateThreshold
<1>5. BarrierWitnessed'
  BY <1>1, <1>4, WitnessesStay DEF Recoverers
<1> QED
  BY <1>5 DEF CompletionSatisfied, RecastInv, RecastTypeOK

\* Every step of the recast.
LEMMA RecastStepInv == RecastInv /\ [RecastNext]_recastVars => RecastInv'
<1> SUFFICES ASSUME RecastInv, [RecastNext]_recastVars PROVE RecastInv'
  OBVIOUS
<1> USE MemberFacts
<1>1. ASSUME NEW p \in Correct, OpenListeners(p) PROVE RecastInv'
  <2>1. BarrierWitnessed'
    BY <1>1, WitnessesStay DEF OpenListeners, RecastInv, RecastTypeOK, Recoverers
  <2> QED
    BY <1>1, <2>1 DEF OpenListeners, RecastInv, RecastTypeOK
<1>2. ASSUME NEW p \in Correct, ReadyQuorum(p) PROVE RecastInv'
  <2>1. BarrierWitnessed'
    BY <1>2, WitnessesStay DEF ReadyQuorum, RecastInv, RecastTypeOK, Recoverers
  <2> QED
    BY <1>2, <2>1 DEF ReadyQuorum, RecastInv, RecastTypeOK
<1>3. ASSUME NEW p \in Correct, Deadline(p) PROVE RecastInv'
  <2>1. BarrierWitnessed'
    BY <1>3, WitnessesStay DEF Deadline, RecastInv, RecastTypeOK, Recoverers
  <2> QED
    BY <1>3, <2>1 DEF Deadline, RecastInv, RecastTypeOK
<1>4. ASSUME NEW p \in Correct, Recovered(p) PROVE RecastInv'
  <2>1. BarrierWitnessed'
    <3>1. CASE CompletionWait
      BY <1>4, <3>1, WitnessesStay DEF Recovered, RecastInv, RecastTypeOK, Recoverers
    <3> QED
      BY <3>1 DEF BarrierWitnessed
  <2> QED
    BY <1>4, <2>1 DEF Recovered, RecastInv, RecastTypeOK
<1>5. ASSUME NEW p \in Correct, CompletionSatisfied(p) PROVE RecastInv'
  BY <1>5, CompletionInv
<1>6. ASSUME NEW r \in Correct, NEW h \in Old, StoreArrives(r, h) PROVE RecastInv'
  <2>1. BarrierWitnessed'
    BY <1>6, WitnessesStay DEF StoreArrives, Recoverers
  <2> QED
    BY <1>6, <2>1 DEF StoreArrives, RecastInv, RecastTypeOK
<1>7. ASSUME NEW r \in Correct, NEW h \in Old, FetchArrives(r, h) PROVE RecastInv'
  <2> DEFINE S == rShards[r] \cup {h}
             w == IF Decodes(S) = {} THEN None ELSE CHOOSE v \in Decodes(S) : TRUE
  <2>1. /\ rShards' = [rShards EXCEPT ![r] = S] /\ rValue' = [rValue EXCEPT ![r] = w]
        /\ UNCHANGED <<rHeld, rBad, rOpen, rPhase, rSeen>>
        /\ rValue[r] = None /\ rPhase[r] = "recover"
    BY <1>7 DEF FetchArrives
  <2>2. w \in {None, {}}
    BY DEF Decodes
  <2>3. h \in rSeen[r]
    BY <1>7 DEF FetchArrives, Asked
  <2> HIDE DEF w
  <2>4. BarrierWitnessed'
    BY <2>1, <2>2, WitnessesStay DEF RecastInv, Recoverers
  <2>5. RecastTypeOK'
    BY <2>1, <2>3 DEF RecastInv, RecastTypeOK
  <2>6. rValue' \in [Correct -> {None, {}}]
    BY <2>1, <2>2 DEF RecastInv
  <2>7. rSeen' \in [Correct -> SUBSET Old] /\ rShards' \in [Correct -> SUBSET Old]
    BY <2>1 DEF RecastInv
  <2>8. \A q \in Correct : rPhase'[q] \in {"complete", "done"} => rValue'[q] # None
    BY <2>1 DEF RecastInv
  <2> QED
    BY <2>4, <2>5, <2>6, <2>7, <2>8 DEF RecastInv
<1>8. CASE UNCHANGED recastVars
  BY <1>8 DEF recastVars, RecastInv, RecastTypeOK, BarrierWitnessed
<1> QED
  BY <1>1, <1>2, <1>3, <1>4, <1>5, <1>6, <1>7, <1>8 DEF RecastNext

\* Who is through has the certified transcript.
LEMMA RecastHolds == RecastInv => RecoveredAgree
BY DEF RecastInv, RecoveredAgree

\* The holders that are active for a recipient: the n-f next in the ring.
LEMMA ActiveHolders ==
    ASSUME NEW r \in Old
    PROVE  Cardinality({h \in Old : Active(h, r)}) >= CertificateThreshold
<1> DEFINE n == Cardinality(Old)
           pl == PlaceInRing
           Distance(h) == pl[h] - pl[r] + n
           A == {h \in Old : Active(h, r)}
           B == Old \ A
           far == [h \in B |-> Distance(h) % n]
<1>1. n \in Nat \ {0} /\ n >= 3 * F + 1 /\ F \in Nat /\ Len(RecastRing) = n
  BY MemberFacts, RecastAssumption
<1>2. \A h \in Old : pl[h] \in 1 .. n /\ RecastRing[pl[h]] = h
  BY RecastAssumption DEF PlaceInRing
<1>3. ASSUME NEW h \in Old
      PROVE  Distance(h) \in Nat /\ Distance(h) % n \in 0 .. n - 1
  <2> HIDE DEF n, pl
  <2>1. Distance(h) \in Nat
    BY <1>1, <1>2
  <2> HIDE DEF Distance
  <2> QED
    BY <1>1, <2>1, ModRange
<1>4. ASSUME NEW h \in B PROVE far[h] \in (n - F) .. (n - 1)
  <2>1. ~(Distance(h) % n < n - F)
    BY <1>1 DEF Active, CertificateThreshold
  <2>2. Distance(h) % n \in 0 .. n - 1
    BY <1>3
  <2>3. far[h] = Distance(h) % n
    OBVIOUS
  <2> DEFINE m == Distance(h) % n
  <2>4. far[h] = m /\ m \in 0 .. n - 1 /\ ~(m < n - F)
    BY <2>1, <2>2, <2>3
  <2> HIDE DEF m, n, far
  <2> QED
    BY <1>1, <2>4
<1>5. ASSUME NEW g \in B, NEW h \in B, far[g] = far[h] PROVE g = h
  <2> DEFINE x == Distance(g)
             y == Distance(h)
  <2>1. x \in Nat /\ y \in Nat /\ x % n = y % n
    BY <1>3, <1>5
  <2>2. x - y < n /\ y - x < n
    <3> HIDE DEF n, pl
    <3> QED
      BY <1>1, <1>2
  <2>3. x = y
    <3> HIDE DEF x, y, n
    <3> QED
      BY <1>1, <2>1, <2>2, ModOne
  <2>4. pl[g] = pl[h]
    <3> HIDE DEF n, pl
    <3> QED
      BY <1>1, <1>2, <2>3
  <2> QED
    BY <1>2, <2>4
<1>6. Cardinality(B) <= F /\ Cardinality(B) \in Nat
  <2>1. IsFiniteSet((n - F) .. (n - 1)) /\ Cardinality((n - F) .. (n - 1)) = F
    <3> HIDE DEF n
    <3>1. n - F \in Int /\ n - 1 \in Int
      BY <1>1
    <3>2. /\ IsFiniteSet((n - F) .. (n - 1))
          /\ Cardinality((n - F) .. (n - 1))
               = IF n - F > n - 1 THEN 0 ELSE (n - 1) - (n - F) + 1
      BY <3>1, FS_Interval
    <3> QED
      BY <1>1, <3>2
  <2>2. far \in [B -> (n - F) .. (n - 1)]
    BY <1>4
  <2>3. \A g, h \in B : far[g] = far[h] => g = h
    BY <1>5
  <2> DEFINE T == (n - F) .. (n - 1)
  <2>4. IsFiniteSet(T) /\ Cardinality(T) = F /\ far \in [B -> T]
    BY <2>1, <2>2
  <2> HIDE DEF B, far, n, T
  <2>5. Cardinality(B) <= Cardinality(T) /\ Cardinality(B) \in Nat
    BY <2>3, <2>4, InjectionCount
  <2> QED
    BY <2>4, <2>5
<1>7. Cardinality(A) + Cardinality(B) = n /\ Cardinality(A) \in Nat
  <2>1. A \cup B = Old /\ A \cap B = {} /\ IsFiniteSet(A) /\ IsFiniteSet(B)
    BY MemberFacts, FS_Subset
  <2> HIDE DEF A, B
  <2>2. Cardinality(A \cup B) = Cardinality(A) + Cardinality(B) /\ Cardinality(A) \in Nat
    BY <2>1, DisjointCount
  <2> QED
    BY <2>1, <2>2
<1> HIDE DEF A, B
<1>8. Cardinality(A) >= n - F
  <2> HIDE DEF n
  <2> QED
    BY <1>1, <1>6, <1>7
<1> QED
  BY <1>8 DEF A, CertificateThreshold

\* With a grace period the listeners stay open until a run fails, and who has
\* not recovered has fewer shards than it takes when all are right.
RecastSettling ==
    /\ Faulty \subseteq rOpen
    /\ \A p \in Correct : Grace /\ rPhase[p] \notin {"start", "failed"} => p \in rOpen
    /\ \A p \in Correct : rBad = {} /\ rValue[p] = None => ~(Cardinality(rShards[p]) >= ErasureK)

LEMMA RecastSettlingInit == RecastInit => RecastSettling
<1> SUFFICES ASSUME RecastInit PROVE RecastSettling
  OBVIOUS
<1>1. Cardinality({}) = 0 /\ ErasureK \in Int /\ ErasureK > 0
  BY MemberFacts, FS_EmptySet DEF ErasureK
<1>2. ~(0 >= ErasureK)
  BY <1>1
<1> QED
  BY <1>1, <1>2 DEF RecastInit, RecastSettling

LEMMA RecastSettlingStep ==
    ASSUME RecastInv, RecastSettling, {} # None, [RecastNext]_recastVars
    PROVE  RecastSettling'
<1> USE DEF RecastSettling
<1>0. /\ rPhase \in [Correct -> {"start", "probe", "recover", "complete", "done", "failed"}]
      /\ rValue \in [Correct -> {None, {}}] /\ rShards \in [Correct -> SUBSET Old]
      /\ Correct \cap Faulty = {}
  BY DEF RecastInv, RecastTypeOK, Correct
<1>1. ASSUME NEW p \in Correct, OpenListeners(p) PROVE RecastSettling'
  BY <1>0, <1>1 DEF OpenListeners, ErasureK
<1>2. ASSUME NEW p \in Correct, ReadyQuorum(p) PROVE RecastSettling'
  BY <1>0, <1>2 DEF ReadyQuorum, ErasureK
<1>3. ASSUME NEW p \in Correct, Deadline(p) PROVE RecastSettling'
  BY <1>0, <1>3 DEF Deadline, ErasureK
<1>4. ASSUME NEW p \in Correct, Recovered(p) PROVE RecastSettling'
  BY <1>0, <1>4 DEF Recovered, ErasureK
<1>5. ASSUME NEW p \in Correct, CompletionSatisfied(p) PROVE RecastSettling'
  BY <1>0, <1>5 DEF CompletionSatisfied, ErasureK
<1>6. ASSUME NEW r \in Correct, NEW h \in Old, StoreArrives(r, h) PROVE RecastSettling'
  BY <1>6 DEF StoreArrives, ErasureK
<1>7. ASSUME NEW r \in Correct, NEW h \in Old, FetchArrives(r, h) PROVE RecastSettling'
  <2> DEFINE S == rShards[r] \cup {h}
             w == IF Decodes(S) = {} THEN None ELSE CHOOSE v \in Decodes(S) : TRUE
  <2>1. /\ rShards' = [rShards EXCEPT ![r] = S] /\ rValue' = [rValue EXCEPT ![r] = w]
        /\ UNCHANGED <<rHeld, rBad, rOpen, rPhase>>
    BY <1>7 DEF FetchArrives
  <2>2. rBad = {} /\ Cardinality(S) >= ErasureK => w = {}
    <3> SUFFICES ASSUME rBad = {}, Cardinality(S) >= ErasureK PROVE w = {}
      OBVIOUS
    <3>1. Decodes(S) = {{}}
      BY DEF Decodes
    <3> QED
      BY <3>1
  <2>3. rBad = {} /\ w = None => ~(Cardinality(S) >= ErasureK)
    BY <2>2
  <2> HIDE DEF S, w
  <2> QED
    BY <1>0, <2>1, <2>3 DEF ErasureK
<1>8. CASE UNCHANGED recastVars
  BY <1>8 DEF recastVars, ErasureK
<1> QED
  BY <1>1, <1>2, <1>3, <1>4, <1>5, <1>6, <1>7, <1>8 DEF RecastNext

\* Every recipient hears of n-2f correct holders that are active for it, asks
\* them and recovers, and then n-f have completed.
LEMMA RecipientsRecoverHolds ==
    ASSUME Grace, RecastInv, RecastSettling
    PROVE  RecipientsRecover
<1> SUFFICES ASSUME rBad = {}, Correct \subseteq rHeld, RecastAtRest,
                    \A p \in Correct : rPhase[p] # "failed"
             PROVE  \A p \in Correct : rPhase[p] = "done"
  BY DEF RecipientsRecover, SomeoneTimedOut
<1>1. \A p \in Correct : rPhase[p] \in {"probe", "recover", "complete", "done"}
  BY DEF RecastAtRest, RecastInv, RecastTypeOK
<1>2. rOpen = Old
  BY <1>1, MemberFacts DEF RecastSettling, RecastInv, RecastTypeOK, Correct
<1>3. ~(Cardinality(Old) < CertificateThreshold)
  BY MemberFacts DEF CertificateThreshold
<1>4. \A p \in Correct : rPhase[p] \in {"recover", "complete", "done"}
  BY <1>1, <1>2, <1>3 DEF RecastAtRest
<1>5. ASSUME NEW p \in Correct, rPhase[p] = "recover" PROVE FALSE
  <2> DEFINE A == {h \in Old : Active(h, p)}
             W == A \cap Correct
  <2>1. Cardinality(W) \in Nat /\ Cardinality(W) >= ErasureK
    <3>1. Cardinality(A) >= CertificateThreshold
      BY MemberFacts, ActiveHolders
    <3>2. A \subseteq W \cup Faulty /\ W \in SUBSET (Old \ Faulty) /\ A \subseteq Old
      BY DEF Correct
    <3> HIDE DEF A, W
    <3>3. IsFiniteSet(W \cup Faulty)
      BY <3>2, MemberFacts, SubsetCount, W \cup Faulty \subseteq Old
    <3>4. /\ Cardinality(A) <= Cardinality(W \cup Faulty)
          /\ Cardinality(A) \in Nat /\ Cardinality(W \cup Faulty) \in Nat
      BY <3>2, <3>3, SubsetCount
    <3>5. CertificateThreshold \in Int /\ Cardinality(W \cup Faulty) >= CertificateThreshold
      BY <3>1, <3>4, MemberFacts DEF CertificateThreshold
    <3>6. Cardinality(W) \in Nat /\ Cardinality(W) >= CertificateThreshold - F
      BY <3>2, <3>5, MemberFacts, CorrectSigners
    <3> QED
      BY <3>6, MemberFacts DEF CertificateThreshold, ErasureK
  <2>2. \A h \in W : Serves(h, p) /\ AnswersFetch(h)
    BY <1>2, <1>4 DEF Serves, KeepsSending, AnswersFetch, Correct
  <2>3. W \subseteq rSeen[p]
    BY <1>2, <1>5, <2>2 DEF RecastAtRest, Receives, Correct
  <2>4. rSeen[p] \in SUBSET Old /\ rShards[p] \in SUBSET Old
    BY DEF RecastInv
  <2>5. Cardinality(rSeen[p]) >= ErasureK
    <3> HIDE DEF W
    <3>1. Cardinality(W) <= Cardinality(rSeen[p]) /\ Cardinality(rSeen[p]) \in Nat
      BY <2>3, <2>4, MemberFacts, SubsetCount
    <3> QED
      BY <2>1, <3>1, MemberFacts DEF ErasureK
  <2>6. W \subseteq rShards[p]
    BY <1>5, <2>2, <2>3, <2>5 DEF RecastAtRest, Asked
  <2>7. Cardinality(rShards[p]) >= ErasureK
    <3> HIDE DEF W
    <3>1. Cardinality(W) <= Cardinality(rShards[p]) /\ Cardinality(rShards[p]) \in Nat
      BY <2>4, <2>6, MemberFacts, SubsetCount
    <3> QED
      BY <2>1, <3>1, MemberFacts DEF ErasureK
  <2> QED
    BY <1>5, <2>7 DEF RecastAtRest, RecastSettling
<1>6. \A p \in Correct : rPhase[p] \in {"complete", "done"}
  BY <1>4, <1>5
<1>7. Completed = Old
  BY <1>6, MemberFacts DEF Completed, Correct
<1> QED
  BY <1>3, <1>6, <1>7 DEF RecastAtRest

-----------------------------------------------------------------------------
(* Dispersal up to the agreement (apdb_network.go, adkr.go). *)

Certificates == Old \X CommitRoots

\* Correct members that have their shard of a commitment on disk.
Holders(c) == {h \in Correct : c \in dStored[h]}

StoredEnough(c) == Cardinality(Holders(c)) >= Cardinality(Old) - 2 * F

DispersalTypes ==
    /\ DispersalTypeOK
    /\ dStored \in [Correct -> SUBSET Certificates]
    /\ dCertified \subseteq Certificates
    /\ dCerts \in [Correct -> SUBSET Certificates]
    /\ dDecided \in (SUBSET Certificates) \cup {None}

\* There is one commitment of a correct dealer to have a certificate of.
OneDealt(S) == \A c \in S : c[1] \in Correct => c[2] = DealtRoot

\* The decision names a dealer once, and who is past the agreement has all of
\* its certificates.
DecisionAdopted ==
    /\ dDecided # None => /\ OneDealt(dDecided)
                          /\ \A c, e \in dDecided : c[1] = e[1] => c = e
    /\ \A p \in Correct : dPhase[p] = "agreed" => dDecided # None /\ dDecided \subseteq dCerts[p]

DispersalInv ==
    /\ DispersalTypes /\ DecidedStored /\ DecisionAdopted
    /\ \A c \in dCertified : c[1] \in Correct /\ c[2] = DealtRoot /\ StoredEnough(c)
    /\ \A p \in Correct : OneDealt(dCerts[p])

\* Nothing is dispersed at first.
LEMMA DispersalInitInv == DispersalInit => DispersalInv
BY DEF DispersalInit, DispersalInv, DispersalTypes, DispersalTypeOK, DecidedStored,
       DecisionAdopted, OneDealt

\* Shards stay on disk.
LEMMA StoredStays ==
    ASSUME \A h \in Correct : dStored[h] \subseteq dStored'[h], NEW c, StoredEnough(c)
    PROVE  StoredEnough(c)'
<1>1. Holders(c) \subseteq Holders(c)' /\ Holders(c)' \subseteq Correct
  BY DEF Holders
<1>2. IsFiniteSet(Holders(c)')
  BY <1>1, MemberFacts, SubsetCount
<1>3. /\ Cardinality(Holders(c)) \in Nat /\ Cardinality(Holders(c)') \in Nat
      /\ Cardinality(Holders(c)) <= Cardinality(Holders(c)')
  BY <1>1, <1>2, SubsetCount
<1> QED
  BY <1>3, MemberFacts DEF StoredEnough

\* n-f receipts include those of n-2f correct holders.
LEMMA ReceiptsStored ==
    ASSUME NEW Q \in SUBSET Old, NEW H \in SUBSET Correct, EnoughReceipts(Q),
           Q \cap Correct \subseteq H
    PROVE  Cardinality(H) >= Cardinality(Old) - 2 * F
<1>1. Q \cap Correct \in SUBSET (Old \ Faulty) /\ Q \subseteq (Q \cap Correct) \cup Faulty
  BY DEF Correct
<1>2. /\ Cardinality(Q) <= Cardinality((Q \cap Correct) \cup Faulty)
      /\ Cardinality(Q) \in Nat /\ Cardinality((Q \cap Correct) \cup Faulty) \in Nat
  <2>1. IsFiniteSet((Q \cap Correct) \cup Faulty)
    BY MemberFacts, SubsetCount, (Q \cap Correct) \cup Faulty \subseteq Old
  <2> QED
    BY <1>1, <2>1, SubsetCount
<1>3. Cardinality((Q \cap Correct) \cup Faulty) >= ReceiptThreshold /\ ReceiptThreshold \in Int
  BY <1>2, MemberFacts DEF EnoughReceipts, ReceiptThreshold
<1>4. /\ Cardinality(Q \cap Correct) \in Nat
      /\ Cardinality(Q \cap Correct) >= ReceiptThreshold - F
  BY <1>1, <1>3, MemberFacts, CorrectSigners
<1>5. IsFiniteSet(H)
  BY MemberFacts, SubsetCount
<1>6. Cardinality(Q \cap Correct) <= Cardinality(H) /\ Cardinality(H) \in Nat
  BY <1>5, SubsetCount
<1> QED
  BY <1>4, <1>6, MemberFacts DEF ReceiptThreshold

\* The same of a certificate that a faulty dealer can show.
LEMMA CertifiableStored ==
    ASSUME NEW d, NEW r, Certifiable(d, r)
    PROVE  d \in Faulty /\ StoredEnough(<<d, r>>)
<1> DEFINE Q == {h \in Correct : <<d, r>> \in dStored[h]} \cup Faulty
<1>1. Q \in SUBSET Old /\ Q \cap Correct \subseteq Holders(<<d, r>>)
  BY MemberFacts DEF Holders, Correct
<1>2. d \in Faulty /\ EnoughReceipts(Q)
  BY DEF Certifiable
<1> QED
  BY <1>1, <1>2, ReceiptsStored DEF StoredEnough, Holders

\* A payload the MVBA may decide names every dealer once, under a commitment
\* that is stored.
LEMMA PayloadFacts ==
    ASSUME DispersalInv, NEW S \in ValidPayloads
    PROVE  /\ S \in SUBSET Certificates /\ OneDealt(S)
           /\ \A c, e \in S : c[1] = e[1] => c = e
           /\ \A c \in S : StoredEnough(c)
<1>1. /\ S \subseteq dCertified \cup {c \in Faulty \X CommitRoots : Certifiable(c[1], c[2])}
      /\ Cardinality(S) = FinishedThreshold
      /\ Cardinality({c[1] : c \in S}) = FinishedThreshold
  BY DEF ValidPayloads
<1>2. S \in SUBSET Certificates
  BY <1>1, MemberFacts DEF DispersalInv, DispersalTypes, Certificates
<1>3. OneDealt(S)
  BY <1>1 DEF OneDealt, DispersalInv, Correct
<1>4. \A c, e \in S : c[1] = e[1] => c = e
  <2> DEFINE T == {c[1] : c \in S}
             g == [c \in S |-> c[1]]
  <2>1. IsFiniteSet(S)
    BY <1>2, MemberFacts, DispersalAssumption, FS_Product, FS_Subset DEF Certificates
  <2>2. g \in [S -> T] /\ \A y \in T : \E x \in S : g[x] = y
    OBVIOUS
  <2>3. Cardinality(S) = Cardinality(T)
    BY <1>1
  <2>4. \A x, y \in S : g[x] = g[y] => x = y
    <3> HIDE DEF g, T
    <3> QED
      BY <2>1, <2>2, <2>3, ImageCount
  <2> QED
    BY <2>4
<1>5. \A c \in S : StoredEnough(c)
  <2> SUFFICES ASSUME NEW c \in S, c \in Faulty \X CommitRoots, Certifiable(c[1], c[2])
               PROVE  StoredEnough(c)
    BY <1>1 DEF DispersalInv
  <2>1. c = <<c[1], c[2]>>
    OBVIOUS
  <2> QED
    BY <2>1, CertifiableStored
<1> QED
  BY <1>2, <1>3, <1>4, <1>5

\* A step that only moves a process on.
LEMMA PhaseStepInv ==
    ASSUME DispersalInv, NEW p \in Correct, dPhase[p] # "agreed",
           NEW s \in {"probe", "disperse", "agree"}, dPhase' = [dPhase EXCEPT ![p] = s],
           UNCHANGED <<dStored, dSpoiled, dCertified, dCerts, dDecided>>
    PROVE  DispersalInv'
<1>1. DispersalTypes'
  BY DEF DispersalInv, DispersalTypes, DispersalTypeOK
<1>2. DecisionAdopted'
  BY DEF DispersalInv, DispersalTypes, DispersalTypeOK, DecisionAdopted, OneDealt
<1>3. DecidedStored'
  BY DEF DispersalInv, DecidedStored
<1> QED
  BY <1>1, <1>2, <1>3 DEF DispersalInv, StoredEnough, Holders, OneDealt

\* A step that stores shards and hands out a certificate.
LEMMA StoreStepInv ==
    ASSUME DispersalInv, UNCHANGED <<dPhase, dDecided>>,
           dStored' \in [Correct -> SUBSET Certificates],
           \A h \in Correct : dStored[h] \subseteq dStored'[h],
           dCertified' \subseteq Certificates,
           \A c \in dCertified' : c \in dCertified \/
              (c[1] \in Correct /\ c[2] = DealtRoot /\ StoredEnough(c)'),
           dCerts' \in [Correct -> SUBSET Certificates],
           \A p \in Correct : /\ dCerts[p] \subseteq dCerts'[p] /\ OneDealt(dCerts'[p])
                              /\ \A c, e \in dCerts'[p] : c[1] = e[1] => c = e
    PROVE  DispersalInv'
<1>1. DispersalTypes'
  BY DEF DispersalInv, DispersalTypes, DispersalTypeOK
<1>2. DecisionAdopted'
  BY DEF DispersalInv, DecisionAdopted, OneDealt
<1>3. DecidedStored'
  <2> SUFFICES ASSUME dDecided # None, NEW c \in dDecided PROVE StoredEnough(c)'
    BY DEF DecidedStored, StoredEnough, Holders
  <2>1. StoredEnough(c)
    BY DEF DispersalInv, DecidedStored, StoredEnough, Holders
  <2> QED
    BY <2>1, StoredStays
<1>4. \A c \in dCertified' : c[1] \in Correct /\ c[2] = DealtRoot /\ StoredEnough(c)'
  BY StoredStays DEF DispersalInv
<1> QED
  BY <1>1, <1>2, <1>3, <1>4 DEF DispersalInv, OneDealt

\* The shards of a set of holders.
LEMMA AcceptFacts ==
    ASSUME DispersalInv, NEW Q \in Answering, NEW c \in Certificates, AcceptShard(Q, c)
    PROVE  /\ dStored' \in [Correct -> SUBSET Certificates]
           /\ \A h \in Correct : dStored[h] \subseteq dStored'[h]
           /\ EnoughReceipts(Q) => StoredEnough(c)'
<1>1. dStored' \in [Correct -> SUBSET Certificates]
      /\ \A h \in Correct : dStored[h] \subseteq dStored'[h]
  BY DEF AcceptShard, DispersalInv, DispersalTypes
<1>2. Q \in SUBSET Old /\ Q \cap Correct \subseteq Holders(c)' /\ Holders(c)' \subseteq Correct
  BY DispersalAssumption DEF AcceptShard, Holders
<1>3. ASSUME EnoughReceipts(Q) PROVE StoredEnough(c)'
  BY <1>2, <1>3, ReceiptsStored DEF StoredEnough
<1> QED
  BY <1>1, <1>3

\* Every step of the dispersal.
LEMMA DispersalStepInv == DispersalInv /\ [DispersalNext]_dispersalVars => DispersalInv'
<1> SUFFICES ASSUME DispersalInv, [DispersalNext]_dispersalVars PROVE DispersalInv'
  OBVIOUS
<1>1. ASSUME NEW p \in Correct, StartDispersal(p) PROVE DispersalInv'
  BY <1>1, PhaseStepInv DEF StartDispersal
<1>2. ASSUME NEW p \in Correct, ServicesReady(p) PROVE DispersalInv'
  BY <1>2, PhaseStepInv DEF ServicesReady
<1>3. ASSUME NEW p \in Correct, Propose(p) PROVE DispersalInv'
  BY <1>3, PhaseStepInv DEF Propose
<1>4. ASSUME NEW p \in Correct, Agreed(p) PROVE DispersalInv'
  <2>1. PICK S \in IF dDecided = None THEN ValidPayloads ELSE {dDecided} :
               dDecided' = S /\ dCerts' = [dCerts EXCEPT ![p] = Adopt(@, S)]
    BY <1>4 DEF Agreed
  <2>2. UNCHANGED <<dStored, dSpoiled, dCertified>> /\ dPhase' = [dPhase EXCEPT ![p] = "agreed"]
    BY <1>4 DEF Agreed
  <2>3. /\ S \in SUBSET Certificates /\ OneDealt(S)
        /\ \A c, e \in S : c[1] = e[1] => c = e
        /\ \A c \in S : StoredEnough(c)
    <3>1. CASE dDecided = None
      BY <2>1, <3>1, PayloadFacts
    <3>2. CASE dDecided # None
      BY <2>1, <3>2 DEF DispersalInv, DispersalTypes, DecisionAdopted, DecidedStored,
                        StoredEnough, Holders
    <3> QED
      BY <3>1, <3>2
  <2>4. S # None /\ (dDecided # None => S = dDecided)
    BY <2>1, <2>3, DispersalAssumption DEF Certificates
  <2>5. /\ Adopt(dCerts[p], S) \in SUBSET Certificates /\ S \subseteq Adopt(dCerts[p], S)
        /\ \A c, e \in Adopt(dCerts[p], S) : c[1] = e[1] => c = e
        /\ OneDealt(Adopt(dCerts[p], S))
    BY <2>3 DEF Adopt, DispersalInv, DispersalTypes, DispersalTypeOK, OneDealt
  <2> DEFINE A == Adopt(dCerts[p], S)
  <2>6. dCerts' = [dCerts EXCEPT ![p] = A]
    BY <2>1 DEF DispersalInv, DispersalTypes
  <2> HIDE DEF A
  <2>7. DispersalTypes'
    BY <2>1, <2>2, <2>3, <2>5, <2>6 DEF A, DispersalInv, DispersalTypes, DispersalTypeOK
  <2>8. DecisionAdopted'
    BY <2>1, <2>2, <2>3, <2>4, <2>5, <2>6
       DEF A, DispersalInv, DispersalTypes, DispersalTypeOK, DecisionAdopted, OneDealt
  <2>9. DecidedStored'
    BY <2>1, <2>2, <2>3 DEF DecidedStored, StoredEnough, Holders
  <2>10. \A q \in Correct : OneDealt(dCerts'[q])
    BY <2>5, <2>6 DEF A, DispersalInv, DispersalTypes
  <2> QED
    BY <2>2, <2>7, <2>8, <2>9, <2>10 DEF DispersalInv, StoredEnough, Holders, OneDealt
<1>5. ASSUME NEW Q \in Answering, NEW c \in Faulty \X CommitRoots, FaultyDeals(Q, c)
      PROVE  DispersalInv'
  <2>1. c \in Certificates
    BY MemberFacts DEF Certificates
  <2>2. AcceptShard(Q, c) /\ UNCHANGED <<dPhase, dSpoiled, dCertified, dCerts, dDecided>>
    BY <1>5 DEF FaultyDeals
  <2> QED
    BY <2>1, <2>2, AcceptFacts, StoreStepInv DEF DispersalInv, DispersalTypes, DispersalTypeOK
<1>6. ASSUME NEW d \in Correct, NEW Q \in Answering, NEW spoiled \in BOOLEAN,
             Disperse(d, Q, spoiled)
      PROVE  DispersalInv'
  <2> DEFINE c == <<d, DealtRoot>>
  <2>1. c \in Certificates
    BY MemberFacts, DispersalAssumption DEF Certificates
  <2>2. AcceptShard(Q, c) /\ EnoughReceipts(Q) /\ UNCHANGED <<dPhase, dDecided>>
    BY <1>6 DEF Disperse
  <2>3. /\ dStored' \in [Correct -> SUBSET Certificates]
        /\ \A h \in Correct : dStored[h] \subseteq dStored'[h]
        /\ StoredEnough(c)'
    <3> HIDE DEF c
    <3> QED
      BY <2>1, <2>2, AcceptFacts
  <2>4. \/ UNCHANGED <<dCertified, dCerts>>
        \/ /\ dCertified' = dCertified \cup {c}
           /\ \/ dCerts' = [dCerts EXCEPT ![d] = @ \cup {c}]
              \/ dCerts' = [dCerts EXCEPT ![d] = @]
    BY <1>6 DEF Disperse, Taken
  <2>5. dCertified' \subseteq Certificates /\ dCerts' \in [Correct -> SUBSET Certificates]
    BY <2>1, <2>4 DEF DispersalInv, DispersalTypes
  <2>6. \A e \in dCertified' : e \in dCertified \/
           (e[1] \in Correct /\ e[2] = DealtRoot /\ StoredEnough(e)')
    BY <2>3, <2>4
  <2>7. \A p \in Correct : /\ dCerts[p] \subseteq dCerts'[p] /\ OneDealt(dCerts'[p])
                           /\ \A a, e \in dCerts'[p] : a[1] = e[1] => a = e
    <3>1. \A e \in dCerts[d] : e[1] = d => e = c
      BY MemberFacts DEF DispersalInv, DispersalTypes, OneDealt, Certificates
    <3> QED
      BY <2>4, <3>1 DEF DispersalInv, DispersalTypes, DispersalTypeOK, OneDealt
  <2> QED
    BY <2>2, <2>3, <2>5, <2>6, <2>7, StoreStepInv
<1>7. ASSUME NEW p \in Correct, NEW c \in Old \X CommitRoots, CertArrives(p, c)
      PROVE  DispersalInv'
  <2>1. c \in Certificates /\ (c[1] \in Correct => c[2] = DealtRoot)
    BY <1>7 DEF Certificates, CertArrives, Shown, Certifiable, DispersalInv, Correct
  <2>2. /\ dCerts' = [dCerts EXCEPT ![p] = @ \cup {c}]
        /\ UNCHANGED <<dPhase, dStored, dSpoiled, dCertified, dDecided>>
        /\ \A e \in dCerts[p] : e[1] # c[1]
    BY <1>7 DEF CertArrives
  <2>3. dCerts' \in [Correct -> SUBSET Certificates]
    BY <2>1, <2>2 DEF DispersalInv, DispersalTypes
  <2>4. \A q \in Correct : /\ dCerts[q] \subseteq dCerts'[q] /\ OneDealt(dCerts'[q])
                           /\ \A a, e \in dCerts'[q] : a[1] = e[1] => a = e
    BY <2>1, <2>2 DEF DispersalInv, DispersalTypes, DispersalTypeOK, OneDealt
  <2> QED
    BY <2>2, <2>3, <2>4, StoreStepInv DEF DispersalInv, DispersalTypes
<1>8. CASE UNCHANGED dispersalVars
  BY <1>8 DEF dispersalVars, DispersalInv, DispersalTypes, DispersalTypeOK, DecidedStored,
              DecisionAdopted, StoredEnough, Holders, OneDealt
<1> QED
  BY <1>1, <1>2, <1>3, <1>4, <1>5, <1>6, <1>7, <1>8 DEF DispersalNext

\* Past the agreement the certificates of the decided dealers are the decided
\* ones.
LEMMA DispersalHolds == DispersalInv => SameCommitments /\ DecidedStored
<1> SUFFICES ASSUME DispersalInv PROVE SameCommitments
  BY DEF DispersalInv
<1> SUFFICES ASSUME NEW p \in Correct, NEW q \in Correct,
                    dPhase[p] = "agreed", dPhase[q] = "agreed",
                    NEW c \in dCerts[p], NEW e \in dCerts[q], c[1] = e[1],
                    NEW x \in dDecided, x[1] = c[1]
             PROVE  c = e
  BY DEF SameCommitments
<1>1. x \in dCerts[p] /\ x \in dCerts[q]
  BY DEF DispersalInv, DecisionAdopted
<1> QED
  BY <1>1 DEF DispersalInv, DispersalTypes, DispersalTypeOK

\* Until the agreement a process takes no more than 2f+1 certificates and
\* proposes as many; a correct dealer's is one that exists, and a dealer's own
\* is left out only for want of room.
CertificatesTaken ==
    \A p \in Correct : dPhase[p] # "agreed" =>
        /\ Cardinality(dCerts[p]) <= FinishedThreshold
        /\ dPhase[p] = "agree" => Cardinality(dCerts[p]) = FinishedThreshold
        /\ \A c \in dCerts[p] : c[1] \in Correct => c \in dCertified
        /\ \/ <<p, DealtRoot>> \notin dCertified \/ <<p, DealtRoot>> \in dCerts[p]
           \/ Cardinality(dCerts[p]) >= FinishedThreshold

LEMMA ThresholdFacts ==
    /\ FinishedThreshold \in Nat /\ FinishedThreshold > 0
    /\ FinishedThreshold <= Cardinality(Old) - F
BY MemberFacts DEF FinishedThreshold

LEMMA CertsFinite ==
    ASSUME DispersalInv, NEW p \in Correct
    PROVE  IsFiniteSet(dCerts[p]) /\ Cardinality(dCerts[p]) \in Nat
<1>1. dCerts[p] \in SUBSET Certificates /\ IsFiniteSet(Certificates)
  BY MemberFacts, DispersalAssumption, FS_Product DEF DispersalInv, DispersalTypes, Certificates
<1> QED
  BY <1>1, FS_Subset, FS_CardinalityType

\* One certificate more where there is room.
LEMMA OneMore ==
    ASSUME DispersalInv, CertificatesTaken, NEW p \in Correct, NEW c \in Certificates,
           dPhase[p] # "agreed", Cardinality(dCerts[p]) < FinishedThreshold
    PROVE  /\ Cardinality(dCerts[p] \cup {c}) <= FinishedThreshold
           /\ Cardinality(dCerts[p] \cup {c}) \in Nat /\ Cardinality(dCerts[p]) \in Nat
<1> DEFINE S == dCerts[p]
<1>1. S \in SUBSET Certificates /\ IsFiniteSet(Certificates)
  BY MemberFacts, DispersalAssumption, FS_Product DEF DispersalInv, DispersalTypes, Certificates
<1>2. IsFiniteSet(S) /\ Cardinality(S) < FinishedThreshold
  BY <1>1, FS_Subset
<1> HIDE DEF S
<1>3. Cardinality(S \cup {c}) = (IF c \in S THEN Cardinality(S) ELSE Cardinality(S) + 1)
  BY <1>2, FS_AddElement
<1>4. Cardinality(S) \in Nat
  BY <1>2, FS_CardinalityType
<1>5. Cardinality(S \cup {c}) <= FinishedThreshold /\ Cardinality(S \cup {c}) \in Nat
  BY <1>2, <1>3, <1>4, ThresholdFacts
<1> QED
  BY <1>4, <1>5 DEF S

LEMMA CertificatesTakenStep ==
    ASSUME DispersalInv, CertificatesTaken, [DispersalNext]_dispersalVars
    PROVE  CertificatesTaken'
<1> USE DEF CertificatesTaken
<1>0. dPhase \in [Correct -> {"deal", "probe", "disperse", "agree", "agreed"}]
      /\ dCerts \in [Correct -> SUBSET Certificates]
  BY DEF DispersalInv, DispersalTypes, DispersalTypeOK
<1>1. ASSUME NEW p \in Correct, StartDispersal(p) PROVE CertificatesTaken'
  BY <1>0, <1>1 DEF StartDispersal, FinishedThreshold
<1>2. ASSUME NEW p \in Correct, ServicesReady(p) PROVE CertificatesTaken'
  BY <1>0, <1>2 DEF ServicesReady, FinishedThreshold
<1>3. ASSUME NEW p \in Correct, Propose(p) PROVE CertificatesTaken'
  BY <1>0, <1>3 DEF Propose, FinishedThreshold
<1>4. ASSUME NEW p \in Correct, Agreed(p) PROVE CertificatesTaken'
  <2>1. /\ dPhase'[p] = "agreed" /\ dCertified' = dCertified
        /\ \A q \in Correct \ {p} : dPhase'[q] = dPhase[q] /\ dCerts'[q] = dCerts[q]
    BY <1>0, <1>4 DEF Agreed
  <2> QED
    BY <2>1 DEF FinishedThreshold
<1>5. ASSUME NEW Q \in Answering, NEW c \in Faulty \X CommitRoots, FaultyDeals(Q, c)
      PROVE  CertificatesTaken'
  BY <1>5 DEF FaultyDeals, FinishedThreshold
<1>6. ASSUME NEW d \in Correct, NEW Q \in Answering, NEW spoiled \in BOOLEAN,
             Disperse(d, Q, spoiled)
      PROVE  CertificatesTaken'
  <2> DEFINE c == <<d, DealtRoot>>
  <2>1. c \in Certificates
    BY MemberFacts, DispersalAssumption DEF Certificates
  <2>2. dPhase' = dPhase /\ dPhase[d] = "disperse"
    BY <1>6 DEF Disperse
  <2>3. CASE UNCHANGED <<dCertified, dCerts>>
    BY <2>2, <2>3 DEF FinishedThreshold
  <2>4. CASE dCertified' = dCertified \cup {c} /\ dCerts' = [dCerts EXCEPT ![d] = Taken(@, c)]
    <3>1. \A p \in Correct \ {d} : /\ dCerts'[p] = dCerts[p]
                                   /\ <<p, DealtRoot>> \in dCertified' => <<p, DealtRoot>> \in dCertified
      BY <1>0, <2>4
    <3>2. /\ Cardinality(dCerts'[d]) <= FinishedThreshold
          /\ \A e \in dCerts'[d] : e[1] \in Correct => e \in dCertified'
          /\ c \in dCerts'[d] \/ Cardinality(dCerts'[d]) >= FinishedThreshold
      <4>1. CASE Cardinality(dCerts[d]) < FinishedThreshold
        <5>1. dCerts'[d] = dCerts[d] \cup {c}
          BY <1>0, <2>4, <4>1 DEF Taken
        <5>2. Cardinality(dCerts[d] \cup {c}) <= FinishedThreshold
          BY <2>1, <2>2, <4>1, OneMore
        <5> QED
          BY <2>2, <2>4, <5>1, <5>2
      <4>2. CASE ~(Cardinality(dCerts[d]) < FinishedThreshold)
        <5>1. dCerts'[d] = dCerts[d]
          BY <1>0, <2>4, <4>2 DEF Taken
        <5>2. Cardinality(dCerts[d]) = FinishedThreshold
          <6>1. Cardinality(dCerts[d]) <= FinishedThreshold
            BY <2>2
          <6>2. Cardinality(dCerts[d]) \in Nat
            BY CertsFinite
          <6> QED
            BY <4>2, <6>1, <6>2, ThresholdFacts
        <5>3. FinishedThreshold >= FinishedThreshold /\ FinishedThreshold <= FinishedThreshold
          BY ThresholdFacts
        <5> QED
          BY <2>2, <2>4, <5>1, <5>2, <5>3
      <4> QED
        BY <4>1, <4>2
    <3>3. \A p \in Correct \ {d} : \A e \in dCerts[p] : e \in dCertified => e \in dCertified'
      BY <2>4
    <3> HIDE DEF c
    <3>4. \A p \in Correct \ {d} : dPhase'[p] # "agreed" =>
            /\ Cardinality(dCerts'[p]) <= FinishedThreshold
            /\ dPhase'[p] = "agree" => Cardinality(dCerts'[p]) = FinishedThreshold
            /\ \A e \in dCerts'[p] : e[1] \in Correct => e \in dCertified'
            /\ \/ <<p, DealtRoot>> \notin dCertified' \/ <<p, DealtRoot>> \in dCerts'[p]
               \/ Cardinality(dCerts'[p]) >= FinishedThreshold
      BY <2>2, <3>1, <3>3
    <3> QED
      BY <2>2, <3>2, <3>4 DEF c, FinishedThreshold
  <2> QED
    BY <1>6, <2>3, <2>4 DEF Disperse
<1>7. ASSUME NEW p \in Correct, NEW c \in Old \X CommitRoots, CertArrives(p, c)
      PROVE  CertificatesTaken'
  <2>1. c \in Certificates /\ (c[1] \in Correct => c \in dCertified)
    BY <1>7 DEF Certificates, CertArrives, Shown, Certifiable, Correct
  <2>2. /\ dCerts' = [dCerts EXCEPT ![p] = @ \cup {c}] /\ dPhase[p] = "disperse"
        /\ UNCHANGED <<dPhase, dCertified>> /\ Cardinality(dCerts[p]) < FinishedThreshold
    BY <1>7 DEF CertArrives
  <2>3. Cardinality(dCerts[p] \cup {c}) <= FinishedThreshold
    BY <2>1, <2>2, OneMore
  <2>4. dCerts'[p] = dCerts[p] \cup {c} /\ \A q \in Correct \ {p} : dCerts'[q] = dCerts[q]
    BY <1>0, <2>2
  <2>5. /\ Cardinality(dCerts'[p]) <= FinishedThreshold
        /\ \A e \in dCerts'[p] : e[1] \in Correct => e \in dCertified'
        /\ <<p, DealtRoot>> \notin dCertified' \/ <<p, DealtRoot>> \in dCerts'[p]
    <3>1. ~(Cardinality(dCerts[p]) >= FinishedThreshold)
      <4>1. Cardinality(dCerts[p]) \in Nat /\ Cardinality(dCerts[p]) < FinishedThreshold
        BY <2>2, CertsFinite
      <4> QED
        BY <4>1, ThresholdFacts
    <3> QED
      BY <2>1, <2>2, <2>3, <2>4, <3>1
  <2> QED
    BY <2>2, <2>4, <2>5 DEF FinishedThreshold
<1>8. CASE UNCHANGED dispersalVars
  BY <1>8 DEF dispersalVars, FinishedThreshold
<1> QED
  BY <1>1, <1>2, <1>3, <1>4, <1>5, <1>6, <1>7, <1>8 DEF DispersalNext

LEMMA CertificatesTakenInit == DispersalInit => CertificatesTaken
<1> SUFFICES ASSUME DispersalInit PROVE CertificatesTaken
  OBVIOUS
<1>1. Cardinality({}) = 0
  BY FS_EmptySet
<1> QED
  BY <1>1, ThresholdFacts DEF DispersalInit, CertificatesTaken

\* Correct dealers that have a certificate.
CertifiedDealers == {d \in Correct : <<d, DealtRoot>> \in dCertified}

\* Who still waits at rest has a certificate of each of them, who is through
\* one of each but of nobody else.
LEMMA CountDealers ==
    ASSUME DispersalInv, CertificatesTaken, OnlyCorrectDealers, NEW p \in Correct,
           dPhase[p] # "agreed"
    PROVE  /\ Cardinality(CertifiedDealers) \in Nat /\ Cardinality(dCerts[p]) \in Nat
           /\ (\A d \in CertifiedDealers : \E e \in dCerts[p] : e[1] = d)
                => Cardinality(CertifiedDealers) <= Cardinality(dCerts[p])
           /\ Cardinality(dCerts[p]) <= Cardinality(CertifiedDealers)
<1> DEFINE S == dCerts[p]
           D == CertifiedDealers
<1>1. S \in SUBSET Certificates /\ IsFiniteSet(Certificates)
  BY MemberFacts, DispersalAssumption, FS_Product DEF DispersalInv, DispersalTypes, Certificates
<1>2. IsFiniteSet(S) /\ IsFiniteSet(D)
  <2>1. D \subseteq Correct
    BY DEF CertifiedDealers
  <2> HIDE DEF S, D
  <2> QED
    BY <1>1, <2>1, MemberFacts, FS_Subset
<1>3. /\ \A c \in S : c[1] \in D /\ c = <<c[1], DealtRoot>>
  <2> SUFFICES ASSUME NEW c \in S PROVE c[1] \in D /\ c = <<c[1], DealtRoot>>
    OBVIOUS
  <2>1. c[1] \in Correct /\ c \in dCertified
    BY DEF OnlyCorrectDealers, CertificatesTaken
  <2>2. c = <<c[1], c[2]>> /\ c[2] = DealtRoot
    BY <1>1, <2>1 DEF Certificates, DispersalInv
  <2> QED
    BY <2>1, <2>2 DEF CertifiedDealers
<1>4. Cardinality(S) <= Cardinality(D) /\ Cardinality(S) \in Nat /\ Cardinality(D) \in Nat
  <2> DEFINE g == [c \in S |-> c[1]]
  <2>1. g \in [S -> D] /\ \A x, y \in S : g[x] = g[y] => x = y
    BY <1>3
  <2> HIDE DEF S, D, g
  <2> QED
    BY <1>2, <2>1, InjectionCount
<1>5. ASSUME \A d \in D : \E e \in S : e[1] = d
      PROVE  Cardinality(D) <= Cardinality(S)
  <2> DEFINE h == [d \in D |-> CHOOSE e \in S : e[1] = d]
  <2>1. h \in [D -> S] /\ \A x, y \in D : h[x] = h[y] => x = y
    <3>1. \A d \in D : h[d] \in S /\ h[d][1] = d
      BY <1>5
    <3> QED
      BY <3>1
  <2> HIDE DEF S, D, h
  <2> QED
    BY <1>2, <2>1, InjectionCount
<1> QED
  BY <1>4, <1>5

\* While the services of all correct processes are open, all their dealers are
\* certified or too few certificates are there to propose.  So somebody ends.
LEMMA DispersalEndsHolds ==
    ASSUME \E Q \in Answering : EnoughReceipts(Q), DispersalInv, CertificatesTaken
    PROVE  DispersalEnds
<1> SUFFICES ASSUME OnlyCorrectDealers, DispersalAtRest, \A p \in Correct : dPhase[p] # "agreed"
             PROVE  FALSE
  BY DEF DispersalEnds
<1>0. \A p \in Correct : dPhase[p] \in {"probe", "disperse", "agree"}
  <2>1. \A p \in Correct : dPhase[p] \in {"deal", "probe", "disperse", "agree", "agreed"}
    BY DEF DispersalInv, DispersalTypes, DispersalTypeOK
  <2>2. \A p \in Correct : dPhase[p] # "deal"
    BY DEF DispersalAtRest
  <2> QED
    BY <2>1, <2>2
<1>1. \A q \in Old : ServiceOpen(q)
  BY <1>0 DEF ServiceOpen
<1>2. \A p \in Correct : dPhase[p] \in {"disperse", "agree"}
  <2>1. {q \in Old : ServiceOpen(q)} = Old
    BY <1>1
  <2>2. ~(Cardinality(Old) < ReceiptThreshold)
    BY MemberFacts DEF ReceiptThreshold
  <2> QED
    BY <1>0, <2>1, <2>2 DEF DispersalAtRest
<1>3. PICK one \in Correct : TRUE
  BY EnoughCorrect
<1>4. CASE \A p \in Correct : dPhase[p] = "agree"
  <2>1. Participants = Old
    BY <1>4, MemberFacts DEF Participants, Correct
  <2>2. ~(Cardinality(Participants) < ReceiptThreshold)
    BY <2>1, MemberFacts DEF ReceiptThreshold
  <2>3. ValidPayloads = {}
    BY <1>3, <1>4, <2>2 DEF DispersalAtRest
  <2> DEFINE S == dCerts[one]
             T == {c[1] : c \in S}
             g == [c \in S |-> c[1]]
  <2>4. Cardinality(S) = FinishedThreshold /\ S \in SUBSET dCertified
    BY <1>3, <1>4 DEF CertificatesTaken, OnlyCorrectDealers
  <2>5. IsFiniteSet(S) /\ \A c, e \in S : c[1] = e[1] => c = e
    <3>1. S \in SUBSET Certificates /\ \A c, e \in S : c[1] = e[1] => c = e
      BY <1>3 DEF DispersalInv, DispersalTypes, DispersalTypeOK
    <3> QED
      BY ZenonT(40), <3>1, MemberFacts, DispersalAssumption, FS_Product, FS_Subset DEF Certificates
  <2>6. Cardinality(T) = Cardinality(S)
    <3>1. g \in [S -> T] /\ (\A y \in T : \E x \in S : g[x] = y)
          /\ \A x, y \in S : g[x] = g[y] => x = y
      BY <2>5
    <3> HIDE DEF g, S, T
    <3>2. g \in Bijection(S, T)
      BY <3>1 DEF Bijection, Injection, Surjection, IsInjective
    <3>3. IsFiniteSet(S)
      BY <2>5
    <3>4. IsFiniteSet(T) /\ Cardinality(T) = Cardinality(S)
      BY <3>2, <3>3, FS_Bijection DEF ExistsBijection
    <3> QED
      BY <3>4
  <2>7. S \in ValidPayloads
    BY <2>4, <2>6 DEF ValidPayloads
  <2> QED
    BY <2>3, <2>7
<1>5. CASE \E p \in Correct : dPhase[p] = "disperse"
  <2>1. PICK p \in Correct : dPhase[p] = "disperse"
    BY <1>5
  <2>2. /\ Cardinality(dCerts[p]) # FinishedThreshold /\ Cardinality(dCerts[p]) <= FinishedThreshold
        /\ Cardinality(dCerts[p]) \in Nat
    BY <2>1, CountDealers DEF DispersalAtRest, CertificatesTaken
  <2>3. Cardinality(dCerts[p]) < FinishedThreshold
        /\ ~(Cardinality(dCerts[p]) > FinishedThreshold)
        /\ ~(Cardinality(dCerts[p]) >= FinishedThreshold)
    BY <2>2, ThresholdFacts
  <2>4. \A d \in CertifiedDealers : \E e \in dCerts[p] : e[1] = d
    <3> SUFFICES ASSUME NEW d \in Correct, <<d, DealtRoot>> \in dCertified
                 PROVE  \E e \in dCerts[p] : e[1] = d
      BY DEF CertifiedDealers
    <3>1. CASE d = p
      <4> DEFINE w == <<p, DealtRoot>>
      <4>1. w \in dCerts[p] /\ w[1] = d
        BY <2>1, <2>3, <3>1 DEF CertificatesTaken
      <4> QED
        BY <4>1
    <3>2. CASE d # p
      <4> DEFINE w == <<d, DealtRoot>>
      <4>1. Shown(w)
        BY <1>2 DEF Shown
      <4> QED
        BY <2>1, <2>3, <3>2, <4>1 DEF DispersalAtRest
    <3> QED
      BY <3>1, <3>2
  <2>5. Cardinality(CertifiedDealers) < FinishedThreshold /\ Cardinality(CertifiedDealers) \in Nat
    <3>1. /\ Cardinality(CertifiedDealers) <= Cardinality(dCerts[p])
          /\ Cardinality(CertifiedDealers) \in Nat /\ Cardinality(dCerts[p]) \in Nat
      BY <2>1, <2>4, CountDealers
    <3> QED
      BY <2>3, <3>1, ThresholdFacts
  <2>6. CASE \E q \in Correct : dPhase[q] = "agree"
    <3>1. PICK q \in Correct : dPhase[q] = "agree"
      BY <2>6
    <3>2. /\ Cardinality(dCerts[q]) = FinishedThreshold
          /\ Cardinality(dCerts[q]) <= Cardinality(CertifiedDealers)
      BY <3>1, CountDealers DEF CertificatesTaken
    <3> QED
      BY <2>5, <3>2, ThresholdFacts
  <2>7. CASE \A q \in Correct : dPhase[q] = "disperse"
    <3>1. PICK Q \in Answering : EnoughReceipts(Q)
      OBVIOUS
    <3>2. Q \in SUBSET Old
      BY DispersalAssumption
    <3>3. \A d \in Correct : <<d, DealtRoot>> \in dCertified
      BY <1>1, <2>7, <3>1, <3>2 DEF DispersalAtRest, OnlyCorrectDealers
    <3>4. CertifiedDealers = Correct
      BY <3>3 DEF CertifiedDealers
    <3>5. Cardinality(Correct) >= Cardinality(Old) - F /\ Cardinality(Correct) \in Nat
      BY EnoughCorrect
    <3> QED
      BY <2>5, <3>4, <3>5, ThresholdFacts, MemberFacts
  <2> QED
    BY <1>2, <2>6, <2>7
<1> QED
  BY <1>2, <1>4, <1>5

-----------------------------------------------------------------------------
(* Key derivation (comp_multicast.go). *)

\* A collector has proven shares only: of each member the one on the
\* polynomial.
KeysInv ==
    /\ KeysTypeOK
    /\ kValid \in [Correct -> SUBSET {<<p, TrueShare[p]>> : p \in Old}]

\* Nothing is collected at first.
LEMMA KeysInitInv == KeysInit => KeysInv
BY KeysAssumption DEF KeysInit, KeysInv, KeysTypeOK

\* A step that leaves the sends and the shares alone.
LEMMA KeyPhaseInv ==
    ASSUME KeysInv, UNCHANGED <<kSent, kGone, kFails, kValid>>, NEW p \in Correct,
           NEW s \in {"probe", "ready", "leave", "derived", "closed", "failed"},
           kPhase' = [kPhase EXCEPT ![p] = s]
    PROVE  KeysInv'
BY DEF KeysInv, KeysTypeOK

\* Every step of the derivation.
LEMMA KeysStepInv == KeysInv /\ [KeysNext]_keyVars => KeysInv'
<1> SUFFICES ASSUME KeysInv, [KeysNext]_keyVars PROVE KeysInv'
  OBVIOUS
<1> DEFINE Proven == {<<p, TrueShare[p]>> : p \in Old}
<1>0. /\ Correct \subseteq Old /\ \A p \in Old : <<p, TrueShare[p]>> \in Proven
      /\ \A a, b \in Proven : a[1] = b[1] => a = b
      /\ kValid \in [Correct -> SUBSET Proven]
  BY MemberFacts DEF KeysInv
<1>1. ASSUME NEW p \in Correct,
             \/ StartResponder(p) \/ RespondersReady(p) \/ ProveFails(p)
             \/ CollectorDone(p) \/ Derived(p) \/ CloseResponder(p) \/ StageExpires(p)
      PROVE  KeysInv'
  BY <1>1, KeyPhaseInv
     DEF StartResponder, RespondersReady, ProveFails, CollectorDone, Derived,
         CloseResponder, StageExpires
<1>2. ASSUME NEW p \in Correct, Prove(p) PROVE KeysInv'
  <2>1. /\ kPhase' = [kPhase EXCEPT ![p] = "collect"]
        /\ kValid' = [kValid EXCEPT ![p] = {<<p, TrueShare[p]>>}]
        /\ UNCHANGED <<kSent, kGone, kFails>>
    BY <1>2 DEF Prove
  <2>2. kValid' \in [Correct -> SUBSET Proven]
    <3> HIDE DEF Proven
    <3> QED
      BY <1>0, <2>1
  <2>3. KeysTypeOK'
    BY <2>1 DEF KeysInv, KeysTypeOK
  <2> QED
    BY <2>2, <2>3 DEF KeysInv
<1>3. ASSUME NEW p \in Correct, NEW q \in Correct, SendKey(p, q) PROVE KeysInv'
  BY <1>3 DEF SendKey, Pending, KeysInv, KeysTypeOK
<1>4. ASSUME NEW p \in Correct, NEW q \in Correct, SendFails(p, q) PROVE KeysInv'
  <2>1. kFails' \in 0 .. MaxFailedSends
    BY <1>4, KeysAssumption DEF SendFails, Pending, ResponderUp, KeysInv, KeysTypeOK
  <2> QED
    BY <1>4, <2>1 DEF SendFails, Pending, KeysInv, KeysTypeOK
<1>5. ASSUME NEW q \in Correct, NEW p \in Old, NEW v \in Scalars, CollectKey(q, <<p, v>>)
      PROVE  KeysInv'
  <2>1. /\ v = TrueShare[p] /\ \A e \in kValid[q] : e[1] # p
        /\ kValid' = [kValid EXCEPT ![q] = @ \cup {<<p, v>>}]
        /\ UNCHANGED <<kPhase, kSent, kGone, kFails>>
    BY <1>5 DEF CollectKey, ShareVerifies
  <2>2. kValid' \in [Correct -> SUBSET Proven]
    <3> HIDE DEF Proven
    <3> QED
      BY <1>0, <2>1
  <2>3. KeysTypeOK'
    BY <2>1 DEF KeysInv, KeysTypeOK
  <2> QED
    BY <2>2, <2>3 DEF KeysInv
<1>6. CASE UNCHANGED keyVars
  BY <1>6 DEF keyVars, KeysInv, KeysTypeOK
<1> QED
  BY <1>1, <1>2, <1>3, <1>4, <1>5, <1>6 DEF KeysNext

\* A collector has its own share, has all it needs when it leaves, and who has
\* derived its keys has ended its sends.
KeysSettling ==
    \A p \in Correct :
        /\ kPhase[p] \in {"collect", "leave", "derived", "closed"}
              => <<p, TrueShare[p]>> \in kValid[p]
        /\ kPhase[p] = "leave" => Cardinality(kValid[p]) >= KeyThreshold
        /\ kPhase[p] \in {"derived", "closed"} => SendsEnded(p)

LEMMA KeysSettlingInit == KeysInit => KeysSettling
BY DEF KeysInit, KeysSettling

LEMMA KeysSettlingStep ==
    ASSUME KeysInv, KeysSettling, [KeysNext]_keyVars
    PROVE  KeysSettling'
<1> DEFINE Own(q) == kPhase[q] \in {"collect", "leave", "derived", "closed"}
                        => <<q, TrueShare[q]>> \in kValid[q]
           Enough(q) == kPhase[q] = "leave" => Cardinality(kValid[q]) >= KeyThreshold
           Ended(q) == kPhase[q] \in {"derived", "closed"} => SendsEnded(q)
<1> SUFFICES ASSUME NEW q \in Correct PROVE Own(q)' /\ Enough(q)' /\ Ended(q)'
  BY DEF KeysSettling
<1>0. /\ Own(q) /\ Enough(q) /\ Ended(q)
      /\ kPhase \in [Correct -> {"start", "probe", "ready", "collect", "leave",
                                 "derived", "closed", "failed"}]
      /\ kValid \in [Correct -> SUBSET {<<p, TrueShare[p]>> : p \in Old}]
  BY DEF KeysInv, KeysTypeOK, KeysSettling
<1>1. ASSUME NEW p \in Correct,
             \/ StartResponder(p) \/ RespondersReady(p) \/ ProveFails(p) \/ StageExpires(p)
      PROVE  Own(q)' /\ Enough(q)' /\ Ended(q)'
  BY <1>0, <1>1
     DEF StartResponder, RespondersReady, ProveFails, StageExpires, KeyThreshold, SendsEnded
<1>2. ASSUME NEW p \in Correct, Prove(p) PROVE Own(q)' /\ Enough(q)' /\ Ended(q)'
  <2>1. /\ kPhase'[p] = "collect" /\ kValid'[p] = {<<p, TrueShare[p]>>}
        /\ p # q => kPhase'[q] = kPhase[q] /\ kValid'[q] = kValid[q]
        /\ kSent' = kSent /\ kGone' = kGone
    BY <1>0, <1>2 DEF Prove
  <2> QED
    BY <1>0, <2>1 DEF KeyThreshold, SendsEnded
<1>3. ASSUME NEW p \in Correct, CollectorDone(p) PROVE Own(q)' /\ Enough(q)' /\ Ended(q)'
  BY <1>0, <1>3 DEF CollectorDone, KeyThreshold, SendsEnded
<1>4. ASSUME NEW p \in Correct, Derived(p) \/ CloseResponder(p)
      PROVE  Own(q)' /\ Enough(q)' /\ Ended(q)'
  BY <1>0, <1>4 DEF Derived, CloseResponder, KeyThreshold, SendsEnded
<1>5. ASSUME NEW p \in Correct, NEW r \in Correct, SendKey(p, r)
      PROVE  Own(q)' /\ Enough(q)' /\ Ended(q)'
  BY <1>0, <1>5 DEF SendKey, KeyThreshold, SendsEnded
<1>6. ASSUME NEW p \in Correct, NEW r \in Correct, SendFails(p, r)
      PROVE  Own(q)' /\ Enough(q)' /\ Ended(q)'
  BY <1>0, <1>6 DEF SendFails, KeyThreshold, SendsEnded
<1>7. ASSUME NEW r \in Correct, NEW p \in Old, NEW v \in Scalars, CollectKey(r, <<p, v>>)
      PROVE  Own(q)' /\ Enough(q)' /\ Ended(q)'
  <2>1. /\ kPhase[r] = "collect" /\ UNCHANGED <<kPhase, kSent, kGone>>
        /\ kValid' = [kValid EXCEPT ![r] = @ \cup {<<p, v>>}]
    BY <1>7 DEF CollectKey
  <2>2. kValid[q] \subseteq kValid'[q] /\ (kPhase[q] = "leave" => kValid'[q] = kValid[q])
    BY <1>0, <2>1
  <2> QED
    BY <1>0, <2>1, <2>2 DEF KeyThreshold, SendsEnded
<1>8. CASE UNCHANGED keyVars
  BY <1>0, <1>8 DEF keyVars, KeyThreshold, SendsEnded
<1> HIDE DEF Own, Enough, Ended
<1> QED
  BY <1>1, <1>2, <1>3, <1>4, <1>5, <1>6, <1>7, <1>8 DEF KeysNext

\* All responders are up, so every key arrives before its sender leaves, and
\* who collects has those of the correct members, n-f.
LEMMA KeysArriveHolds ==
    ASSUME KeysInv, KeysSettling
    PROVE  KeysArrive
<1> SUFFICES ASSUME KeysAtRest, kGone = {},
                    \A p \in Correct : kPhase[p] \notin {"failed", "closed"}
             PROVE  \A p \in Correct : kPhase[p] = "derived"
  BY DEF KeysArrive
<1>1. \A p \in Correct : kPhase[p] \in {"probe", "collect", "leave", "derived"}
  <2>1. \A p \in Correct : kPhase[p] \in {"start", "probe", "ready", "collect", "leave",
                                          "derived", "closed", "failed"}
    BY DEF KeysInv, KeysTypeOK
  <2>2. \A p \in Correct : kPhase[p] \notin {"start", "ready"}
    BY DEF KeysAtRest
  <2> QED
    BY <2>1, <2>2
<1>2. \A q \in Old : ResponderUp(q)
  BY <1>1 DEF ResponderUp
<1>3. \A p \in Correct : kPhase[p] # "probe"
  <2>1. {q \in Old : ResponderUp(q)} = Old
    BY <1>2
  <2>2. ~(Cardinality(Old) < KeyThreshold)
    BY MemberFacts DEF KeyThreshold
  <2> QED
    BY <2>1, <2>2 DEF KeysAtRest
<1>4. \A p \in Correct : \A q \in Correct \ {p} : <<p, q>> \in kSent
  <2> SUFFICES ASSUME NEW p \in Correct, NEW q \in Correct \ {p} PROVE <<p, q>> \in kSent
    OBVIOUS
  <2>1. CASE kPhase[p] = "derived"
    BY <2>1 DEF KeysSettling, SendsEnded
  <2>2. CASE kPhase[p] \in {"collect", "leave"}
    <3>1. q \in Old
      BY MemberFacts
    <3>2. ~Pending(p, q)
      BY <1>2, <3>1 DEF KeysAtRest
    <3> QED
      BY <2>2, <3>2 DEF Pending
  <2> QED
    BY <1>1, <1>3, <2>1, <2>2
<1>5. ASSUME NEW p \in Correct, kPhase[p] = "collect" PROVE FALSE
  <2> DEFINE V == kValid[p]
             Proven == {<<q, TrueShare[q]>> : q \in Old}
             first == [e \in V |-> e[1]]
             mine == [q \in Correct |-> CHOOSE e \in V : e[1] = q]
  <2>1. V \in SUBSET Proven /\ Cardinality(V) < KeyThreshold
    BY <1>5 DEF KeysInv, KeysAtRest
  <2>2. IsFiniteSet(V)
    <3>1. first \in [V -> Old] /\ \A a, b \in V : first[a] = first[b] => a = b
      BY <2>1
    <3> HIDE DEF first, V
    <3> QED
      BY <3>1, MemberFacts, InjectionCount
  <2>3. \A q \in Correct : \E e \in V : e[1] = q
    <3> SUFFICES ASSUME NEW q \in Correct PROVE \E e \in V : e[1] = q
      OBVIOUS
    <3>1. CASE q = p
      <4> DEFINE e == <<p, TrueShare[p]>>
      <4>1. e \in V /\ e[1] = q
        BY <1>5, <3>1 DEF KeysSettling
      <4> QED
        BY <4>1
    <3>2. CASE q # p
      <4>1. <<q, p>> \in kSent
        BY <1>4, <3>2
      <4> QED
        BY <1>5, <4>1 DEF KeysAtRest
    <3> QED
      BY <3>1, <3>2
  <2>4. mine \in [Correct -> V] /\ \A a, b \in Correct : mine[a] = mine[b] => a = b
    <3> HIDE DEF V
    <3>1. \A q \in Correct : mine[q] \in V /\ mine[q][1] = q
      BY <2>3
    <3> QED
      BY <3>1
  <2>5. Cardinality(Correct) <= Cardinality(V) /\ Cardinality(V) \in Nat
    <3> HIDE DEF V, mine
    <3> QED
      BY <2>2, <2>4, InjectionCount
  <2> QED
    BY <2>1, <2>5, EnoughCorrect, MemberFacts DEF KeyThreshold
<1>6. \A p \in Correct : kPhase[p] # "leave"
  BY <1>4 DEF KeysAtRest, SendsEnded
<1> QED
  BY <1>1, <1>3, <1>5, <1>6

\* n-f proven shares fix the keys when interpolation does what it is for.
LEMMA KeysAreSharedHolds ==
    ASSUME InterpolationExact, KeysInv, KeysSettling
    PROVE  KeysAreShared
<1> SUFFICES ASSUME NEW p \in Correct, kPhase[p] = "leave"
             PROVE  DerivedKeys(kValid[p]) = [group |-> EvalPoly(Coefficients, 0), shares |-> TrueShare]
  BY DEF KeysAreShared
<1>1. kValid[p] \in SUBSET {<<q, TrueShare[q]>> : q \in Old}
  BY DEF KeysInv
<1>2. Cardinality(kValid[p]) >= KeyThreshold
  BY DEF KeysSettling
<1> QED
  BY <1>1, <1>2 DEF InterpolationExact

-----------------------------------------------------------------------------
(* The threshold coin (coin_threshold_protocol.go). *)

\* The first k copies of a share are k entries of the channel.
LEMMA CopiesCounted ==
    ASSUME NEW S, IsFiniteSet(S), NEW w, NEW k \in Nat,
           \A i \in 1 .. k : <<w, i>> \in S
    PROVE  k <= Cardinality(S)
<1> DEFINE g == [i \in 1 .. k |-> <<w, i>>]
<1>1. g \in [1 .. k -> S]
  OBVIOUS
<1>2. Cardinality(1 .. k) <= Cardinality(S) /\ Cardinality(S) \in Nat
  <2>1. \A x, y \in 1 .. k : g[x] = g[y] => x = y
    OBVIOUS
  <2> HIDE DEF g
  <2> DEFINE I == 1 .. k
  <2>2. g \in [I -> S] /\ \A x, y \in I : g[x] = g[y] => x = y
    BY <1>1, <2>1
  <2> HIDE DEF I
  <2>3. Cardinality(I) <= Cardinality(S) /\ Cardinality(S) \in Nat
    BY <2>2, InjectionCount
  <2> QED
    BY <2>3 DEF I
<1>3. Cardinality(1 .. k) = k
  BY FS_Interval
<1> QED
  BY <1>2, <1>3

\* The wires and the places of a channel are finite in number.
LEMMA ChannelFacts ==
    /\ ChannelCapacity \in Nat /\ BadShare \notin Old
    /\ \A p : IsFiniteSet(InChannel(p)) /\ Cardinality(InChannel(p)) \in Nat
<1>1. ChannelCapacity \in Nat /\ BadShare \notin Old
  <2>1. BadShare \notin Old
    BY PracticalCoinAssumption
  <2> QED
    BY <2>1, MemberFacts DEF ChannelCapacity
<1>2. IsFiniteSet(CoinWires \X (1 .. ChannelCapacity))
  <2>1. IsFiniteSet(CoinWires)
    BY MemberFacts, FS_Singleton, FS_Union DEF CoinWires
  <2>2. IsFiniteSet(1 .. ChannelCapacity)
    BY <1>1, FS_Interval
  <2> QED
    BY <2>1, <2>2, FS_Product
<1> SUFFICES ASSUME NEW p
             PROVE  IsFiniteSet(InChannel(p)) /\ Cardinality(InChannel(p)) \in Nat
  BY <1>1
<1> QED
  BY <1>2, SubsetCount DEF InChannel

\* A share is queued where there is room: the channel has one entry more.
LEMMA QueuedFits ==
    ASSUME PracticalCoinTypeOK, NEW p \in Watched, NEW w \in CoinWires, ChannelRoom(p),
           pcChannel' = Queued(p, w)
    PROVE  /\ pcChannel' \in [Watched -> [CoinWires -> 0 .. ChannelCapacity]]
           /\ \A q \in Watched : Cardinality(InChannel(q)') <= ChannelCapacity
<1> USE ChannelFacts
<1> DEFINE k == pcChannel[p][w]
<1>1. k \in 0 .. ChannelCapacity /\ Cardinality(InChannel(p)) < ChannelCapacity
  BY DEF PracticalCoinTypeOK, ChannelRoom
<1>2. k < ChannelCapacity
  <2>1. \A i \in 1 .. k : <<w, i>> \in InChannel(p)
    BY <1>1 DEF InChannel
  <2>2. k <= Cardinality(InChannel(p))
    <3>1. IsFiniteSet(InChannel(p)) /\ k \in Nat
      BY <1>1
    <3> HIDE DEF k
    <3> QED
      BY <2>1, <3>1, CopiesCounted
  <2> QED
    BY <1>1, <2>2
<1>3. pcChannel' = [pcChannel EXCEPT ![p][w] = k + 1]
  BY DEF Queued, PracticalCoinTypeOK
<1>4. pcChannel' \in [Watched -> [CoinWires -> 0 .. ChannelCapacity]]
  BY <1>1, <1>2, <1>3 DEF PracticalCoinTypeOK
<1>5. ASSUME NEW q \in Watched PROVE Cardinality(InChannel(q)') <= ChannelCapacity
  <2>1. CASE q = p
    <3>1. InChannel(p)' = InChannel(p) \cup {<<w, k + 1>>}
      BY <1>1, <1>2, <1>3 DEF InChannel, PracticalCoinTypeOK
    <3>2. Cardinality(InChannel(p) \cup {<<w, k + 1>>}) <= Cardinality(InChannel(p)) + 1
      <4> DEFINE C == InChannel(p)
      <4>1. IsFiniteSet(C) /\ Cardinality(C) \in Nat
        OBVIOUS
      <4> HIDE DEF C
      <4>2. Cardinality(C \cup {<<w, k + 1>>}) \in {Cardinality(C), Cardinality(C) + 1}
        BY <4>1, FS_AddElement
      <4>3. Cardinality(C \cup {<<w, k + 1>>}) <= Cardinality(C) + 1
        BY <4>1, <4>2
      <4> QED
        BY <4>3 DEF C
    <3>3. Cardinality(InChannel(p)) \in Nat /\ IsFiniteSet(InChannel(p) \cup {<<w, k + 1>>})
      BY FS_AddElement
    <3>4. Cardinality(InChannel(p) \cup {<<w, k + 1>>}) \in Nat
      BY <3>3, FS_CardinalityType
    <3>5. Cardinality(InChannel(p) \cup {<<w, k + 1>>}) <= ChannelCapacity
      BY <1>1, <3>2, <3>3, <3>4
    <3> QED
      BY <2>1, <3>1, <3>5
  <2>2. CASE q # p
    <3>1. InChannel(q)' = InChannel(q)
      BY <1>3, <2>2 DEF InChannel, PracticalCoinTypeOK
    <3> QED
      BY <3>1 DEF PracticalCoinTypeOK
  <2> QED
    BY <2>1, <2>2
<1> QED
  BY <1>4, <1>5

\* A share that has been answered is in the channel or with a collector that
\* takes it, or no longer needs it.
CoinInv == PracticalCoinTypeOK /\ AnsweredIsHeld

\* Nobody has sent a share at first.
LEMMA CoinInitInv == PracticalCoinInit => CoinInv
<1> SUFFICES ASSUME PracticalCoinInit PROVE CoinInv
  OBVIOUS
<1> USE ChannelFacts DEF PracticalCoinInit
<1>1. \A p \in Watched : Cardinality(InChannel(p)) <= ChannelCapacity
  <2> SUFFICES ASSUME NEW p \in Watched PROVE Cardinality(InChannel(p)) <= ChannelCapacity
    OBVIOUS
  <2>1. InChannel(p) = {}
    BY DEF InChannel
  <2> QED
    BY <2>1, FS_EmptySet
<1>2. \A p \in Watched : Cardinality(pcShares[p]) <= F + 1
  BY MemberFacts, FS_EmptySet
<1>3. pcFlood \in [Watched -> 0 .. MaxFlood] /\ pcLost \in 0 .. MaxUnanswered
  BY PracticalCoinAssumption
<1> QED
  BY <1>1, <1>2, <1>3 DEF CoinInv, PracticalCoinTypeOK, AnsweredIsHeld

\* A step that moves a member on, or notes that its own share is pushed.
LEMMA CoinPhaseInv ==
    ASSUME CoinInv, UNCHANGED <<pcChannel, pcShares, pcPushed, pcAnswered, pcFlood, pcLost>>,
           NEW p \in Correct, NEW s \in {"run", "out", "done"},
           pcStage' = [pcStage EXCEPT ![p] = s]
    PROVE  CoinInv'
<1>1. \A q : InChannel(q)' = InChannel(q)
  BY DEF InChannel
<1> QED
  BY <1>1 DEF CoinInv, PracticalCoinTypeOK, AnsweredIsHeld

\* A share is queued.
LEMMA QueueStepInv ==
    ASSUME CoinInv, NEW p \in Watched, NEW w \in CoinWires, ChannelRoom(p),
           pcChannel' = Queued(p, w), UNCHANGED <<pcStage, pcShares>>,
           pcPushed' \subseteq Watched, pcAnswered' \subseteq Correct \X Watched,
           pcAnswered' \subseteq pcAnswered \cup {<<w, p>>},
           pcFlood' \in [Watched -> 0 .. MaxFlood], pcLost' \in 0 .. MaxUnanswered
    PROVE  CoinInv'
<1>1. /\ pcChannel' \in [Watched -> [CoinWires -> 0 .. ChannelCapacity]]
      /\ \A q \in Watched : Cardinality(InChannel(q)') <= ChannelCapacity
  BY QueuedFits DEF CoinInv
<1>2. PracticalCoinTypeOK'
  BY <1>1 DEF CoinInv, PracticalCoinTypeOK
<1>3. /\ \A q \in Watched, v \in CoinWires : pcChannel[q][v] > 0 => pcChannel'[q][v] > 0
      /\ pcChannel'[p][w] > 0
  BY ChannelFacts DEF CoinInv, PracticalCoinTypeOK, Queued
<1>4. AnsweredIsHeld'
  <2> SUFFICES ASSUME NEW s \in Correct, NEW q \in Watched, <<s, q>> \in pcAnswered'
               PROVE  \/ pcChannel'[q][s] > 0 \/ s \in pcShares'[q]
                      \/ Cardinality(pcShares'[q]) >= F + 1
    BY DEF AnsweredIsHeld
  <2>1. CASE <<s, q>> \in pcAnswered
    BY <1>3, <2>1, MemberFacts DEF CoinInv, AnsweredIsHeld, CoinWires
  <2>2. CASE <<s, q>> = <<w, p>>
    BY <1>3, <2>2
  <2> QED
    BY <2>1, <2>2
<1> QED
  BY <1>2, <1>4 DEF CoinInv

\* The collector takes a share.
LEMMA CollectStepInv ==
    ASSUME CoinInv, NEW p \in Watched, NEW w \in CoinWires, CollectShare(p, w)
    PROVE  CoinInv'
<1> USE ChannelFacts
<1> DEFINE T == pcShares[p] \cup ({w} \ {BadShare})
<1>1. /\ Cardinality(pcShares[p]) < F + 1 /\ pcChannel[p][w] > 0
      /\ pcChannel' = [pcChannel EXCEPT ![p][w] = @ - 1]
      /\ pcShares' = [pcShares EXCEPT ![p] = T]
      /\ UNCHANGED <<pcStage, pcPushed, pcAnswered, pcFlood, pcLost>>
  BY DEF CollectShare, Collecting, LowThreshold
<1>2. T \in SUBSET Old /\ pcShares[p] \subseteq T /\ (w \in Old => w \in T)
  BY DEF CoinWires, CoinInv, PracticalCoinTypeOK
<1>3. Cardinality(T) <= F + 1 /\ Cardinality(T) >= Cardinality(pcShares[p])
  <2>1. T \in {pcShares[p], pcShares[p] \cup {w}}
    OBVIOUS
  <2>2. IsFiniteSet(pcShares[p]) /\ Cardinality(pcShares[p]) \in Nat
    BY MemberFacts, SubsetCount DEF CoinInv, PracticalCoinTypeOK
  <2>3. Cardinality(pcShares[p] \cup {w}) \in
           {Cardinality(pcShares[p]), Cardinality(pcShares[p]) + 1}
    BY <2>2, FS_AddElement
  <2> DEFINE c == Cardinality(pcShares[p])
  <2>4. Cardinality(T) \in {c, c + 1}
    BY <2>1, <2>3
  <2>5. c \in Nat /\ c < F + 1
    BY <1>1, <2>2
  <2> HIDE DEF T, c
  <2>6. Cardinality(T) <= F + 1 /\ Cardinality(T) >= c
    BY <2>4, <2>5, MemberFacts
  <2> QED
    BY <2>6 DEF c
<1> HIDE DEF T
<1>4. pcChannel' \in [Watched -> [CoinWires -> 0 .. ChannelCapacity]]
  BY <1>1 DEF CoinInv, PracticalCoinTypeOK
<1>5. \A q \in Watched : Cardinality(InChannel(q)') <= ChannelCapacity
  <2> SUFFICES ASSUME NEW q \in Watched PROVE Cardinality(InChannel(q)') <= ChannelCapacity
    OBVIOUS
  <2>1. InChannel(q)' \subseteq InChannel(q)
    BY <1>1 DEF InChannel, CoinInv, PracticalCoinTypeOK
  <2>2. IsFiniteSet(InChannel(q)) /\ Cardinality(InChannel(q)) <= ChannelCapacity
    BY DEF CoinInv, PracticalCoinTypeOK
  <2> QED
    BY <2>1, <2>2, SubsetCount
<1>6. PracticalCoinTypeOK'
  BY <1>1, <1>2, <1>3, <1>4, <1>5 DEF CoinInv, PracticalCoinTypeOK
<1>7. AnsweredIsHeld'
  <2> SUFFICES ASSUME NEW s \in Correct, NEW q \in Watched, <<s, q>> \in pcAnswered
               PROVE  \/ pcChannel'[q][s] > 0 \/ s \in pcShares'[q]
                      \/ Cardinality(pcShares'[q]) >= F + 1
    BY <1>1 DEF AnsweredIsHeld
  <2>1. \/ pcChannel[q][s] > 0 \/ s \in pcShares[q] \/ Cardinality(pcShares[q]) >= F + 1
    BY DEF CoinInv, AnsweredIsHeld
  <2>2. s \in Old /\ s \in CoinWires
    BY MemberFacts DEF CoinWires
  <2>3. CASE q # p
    BY <1>1, <2>1, <2>2, <2>3 DEF CoinInv, PracticalCoinTypeOK
  <2>4. CASE q = p /\ s = w
    BY <1>1, <1>2, <2>2, <2>4 DEF CoinInv, PracticalCoinTypeOK
  <2>5. CASE q = p /\ s # w
    <3>1. pcChannel'[q][s] = pcChannel[q][s] /\ pcShares[q] \subseteq pcShares'[q]
      BY <1>1, <1>2, <2>2, <2>5 DEF CoinInv, PracticalCoinTypeOK
    <3>2. ~(Cardinality(pcShares[q]) >= F + 1)
      <4>1. Cardinality(pcShares[q]) \in Nat
        BY MemberFacts, SubsetCount DEF CoinInv, PracticalCoinTypeOK
      <4> QED
        BY <1>1, <2>5, <4>1, MemberFacts
    <3> QED
      BY <2>1, <3>1, <3>2
  <2> QED
    BY <2>3, <2>4, <2>5
<1> QED
  BY <1>6, <1>7 DEF CoinInv

\* Every step of the coin.
LEMMA CoinStepInv == CoinInv /\ [PracticalCoinNext]_practicalCoinVars => CoinInv'
<1> SUFFICES ASSUME CoinInv, [PracticalCoinNext]_practicalCoinVars PROVE CoinInv'
  OBVIOUS
<1>0. Watched \subseteq Correct /\ Correct \subseteq CoinWires /\ Faulty \subseteq CoinWires
  BY MemberFacts, PracticalCoinAssumption DEF CoinWires
<1>1. ASSUME NEW p \in Correct, StartCoin(p) \/ TakeCoin(p) \/ EndGrace(p) PROVE CoinInv'
  BY <1>1, CoinPhaseInv DEF StartCoin, TakeCoin, EndGrace
<1>2. ASSUME NEW p \in Watched, PushOwn(p) PROVE CoinInv'
  <2>1. p \in CoinWires /\ pcPushed' \subseteq Watched
    BY <1>0, <1>2 DEF PushOwn, CoinInv, PracticalCoinTypeOK
  <2> QED
    BY <1>2, <2>1, QueueStepInv DEF PushOwn, CoinInv, PracticalCoinTypeOK
<1>3. ASSUME NEW p \in Watched, NEW s \in Correct, ServeShare(s, p) PROVE CoinInv'
  <2>1. s \in CoinWires
    BY <1>0
  <2>2. /\ pcAnswered' \subseteq Correct \X Watched
        /\ pcAnswered' \subseteq pcAnswered \cup {<<s, p>>}
    BY <1>3 DEF ServeShare, CoinInv, PracticalCoinTypeOK
  <2>3. pcLost' \in 0 .. MaxUnanswered
    BY <1>3, PracticalCoinAssumption DEF ServeShare, CoinInv, PracticalCoinTypeOK
  <2> QED
    BY <1>3, <2>1, <2>2, <2>3, QueueStepInv DEF ServeShare, CoinInv, PracticalCoinTypeOK
<1>4. ASSUME NEW p \in Watched, NEW w \in Faulty \cup {BadShare}, ServeFlood(p, w) PROVE CoinInv'
  <2>1. w \in CoinWires
    BY <1>0 DEF CoinWires
  <2>2. pcFlood' \in [Watched -> 0 .. MaxFlood]
    BY <1>4, PracticalCoinAssumption DEF ServeFlood, CoinInv, PracticalCoinTypeOK
  <2> QED
    BY <1>4, <2>1, <2>2, QueueStepInv DEF ServeFlood, CoinInv, PracticalCoinTypeOK
<1>5. ASSUME NEW p \in Watched, NEW w \in CoinWires, CollectShare(p, w) PROVE CoinInv'
  BY <1>5, CollectStepInv
<1>6. CASE UNCHANGED practicalCoinVars
  <2>1. \A q : InChannel(q)' = InChannel(q)
    BY <1>6 DEF InChannel, practicalCoinVars
  <2> QED
    BY <1>6, <2>1 DEF practicalCoinVars, CoinInv, PracticalCoinTypeOK, AnsweredIsHeld
<1> QED
  BY <1>1, <1>2, <1>3, <1>4, <1>5, <1>6 DEF PracticalCoinNext

\* Members that have an answer of p.
AnsweredTo(p) == {s \in Correct : <<s, p>> \in pcAnswered}

\* What a member's channel and its collector hold was put in by the faulty
\* members, by members that were answered or whose answer was lost, or by the
\* member itself.
SharesCounted ==
    \A p \in Watched :
        Cardinality(InChannel(p)) + Cardinality(pcShares[p])
            <= pcFlood[p] + Cardinality(AnsweredTo(p)) + pcLost + (IF p \in pcPushed THEN 1 ELSE 0)

\* A member's own share is held like one that was answered; a member is through
\* after it has pushed its share, and one whose grace is long enough has the
\* answers of all that still need shares.
SendersStay ==
    /\ \A p \in Watched : /\ <<p, p>> \notin pcAnswered
                          /\ pcStage[p] \in {"out", "done"} => p \in pcPushed
    /\ \A p \in Watched, s \in Correct \ CoinHasty :
          s # p /\ pcStage[s] = "done" /\ NeedsShares(p) => <<s, p>> \in pcAnswered

OwnIsHeld ==
    \A p \in Watched : p \in pcPushed =>
        \/ pcChannel[p][p] > 0 \/ p \in pcShares[p] \/ Cardinality(pcShares[p]) >= F + 1

CoinSettling == SharesCounted /\ SendersStay /\ OwnIsHeld

LEMMA CountFacts ==
    ASSUME CoinInv, NEW p \in Watched
    PROVE  /\ IsFiniteSet(AnsweredTo(p)) /\ Cardinality(AnsweredTo(p)) \in Nat
           /\ IsFiniteSet(pcShares[p]) /\ Cardinality(pcShares[p]) \in Nat
           /\ Cardinality(InChannel(p)) \in Nat /\ pcFlood[p] \in Nat /\ pcLost \in Nat
<1>1. AnsweredTo(p) \subseteq Correct /\ pcShares[p] \subseteq Old
  BY DEF AnsweredTo, CoinInv, PracticalCoinTypeOK
<1> HIDE DEF AnsweredTo
<1>2. pcFlood[p] \in 0 .. MaxFlood /\ pcLost \in 0 .. MaxUnanswered
  BY DEF CoinInv, PracticalCoinTypeOK
<1> QED
  BY <1>1, <1>2, MemberFacts, ChannelFacts, SubsetCount, PracticalCoinAssumption

LEMMA CoinSettlingInit == PracticalCoinInit => CoinSettling
<1> SUFFICES ASSUME PracticalCoinInit PROVE CoinSettling
  OBVIOUS
<1>1. SharesCounted
  <2> SUFFICES ASSUME NEW p \in Watched
               PROVE  Cardinality(InChannel(p)) + Cardinality(pcShares[p])
                        <= pcFlood[p] + Cardinality(AnsweredTo(p)) + pcLost
                             + (IF p \in pcPushed THEN 1 ELSE 0)
    BY DEF SharesCounted
  <2>1. InChannel(p) = {} /\ pcShares[p] = {} /\ AnsweredTo(p) = {}
    BY ChannelFacts DEF PracticalCoinInit, InChannel, AnsweredTo
  <2>2. pcFlood[p] = 0 /\ pcLost = 0 /\ p \notin pcPushed
    BY DEF PracticalCoinInit
  <2>3. Cardinality({}) = 0
    BY FS_EmptySet
  <2> QED
    BY <2>1, <2>2, <2>3
<1>2. SendersStay /\ OwnIsHeld
  BY PracticalCoinAssumption DEF PracticalCoinInit, SendersStay, OwnIsHeld
<1> QED
  BY <1>1, <1>2 DEF CoinSettling

\* A share more in one channel.
LEMMA QueuedCount ==
    ASSUME CoinInv, NEW p \in Watched, NEW w \in CoinWires, pcChannel' = Queued(p, w)
    PROVE  /\ Cardinality(InChannel(p)') <= Cardinality(InChannel(p)) + 1
           /\ Cardinality(InChannel(p)') \in Nat
           /\ \A q \in Watched \ {p} : InChannel(q)' = InChannel(q)
<1> DEFINE k == pcChannel[p][w]
           C == InChannel(p)
           D == InChannel(p)'
<1>1. pcChannel \in [Watched -> [CoinWires -> 0 .. ChannelCapacity]]
  BY DEF CoinInv, PracticalCoinTypeOK
<1>2. pcChannel' = [pcChannel EXCEPT ![p][w] = k + 1] /\ k \in Nat
  BY <1>1, ChannelFacts DEF Queued
<1>3. \A q \in Watched \ {p} : InChannel(q)' = InChannel(q)
  BY <1>1, <1>2 DEF InChannel
<1>4. D \subseteq C \cup {<<w, k + 1>>}
  <2> SUFFICES ASSUME NEW v \in CoinWires, NEW i \in 1 .. ChannelCapacity, i <= pcChannel'[p][v]
               PROVE  <<v, i>> \in C \cup {<<w, k + 1>>}
    BY DEF InChannel, ChannelCapacity
  <2>1. CASE v # w
    BY <1>1, <1>2, <2>1 DEF InChannel
  <2>2. CASE v = w /\ i <= k
    BY <2>2 DEF InChannel
  <2>3. CASE v = w /\ ~(i <= k)
    <3>1. pcChannel'[p][v] = k + 1
      BY <1>1, <1>2, <2>3
    <3>2. i \in Nat /\ i <= k + 1
      BY <3>1, ChannelFacts
    <3>3. i = k + 1
      <4> HIDE DEF k
      <4> QED
        BY <1>2, <2>3, <3>2
    <3> QED
      BY <2>3, <3>3
  <2> QED
    BY <2>1, <2>2, <2>3
<1>5. IsFiniteSet(C) /\ Cardinality(C) \in Nat
  BY ChannelFacts
<1> HIDE DEF C, D, k
<1>6. /\ Cardinality(C \cup {<<w, k + 1>>}) \in {Cardinality(C), Cardinality(C) + 1}
      /\ IsFiniteSet(C \cup {<<w, k + 1>>})
  BY <1>5, FS_AddElement
<1>7. Cardinality(D) <= Cardinality(C \cup {<<w, k + 1>>}) /\ Cardinality(D) \in Nat
  BY <1>4, <1>6, SubsetCount
<1>8. Cardinality(D) <= Cardinality(C) + 1
  BY <1>5, <1>6, <1>7
<1> QED
  BY <1>3, <1>7, <1>8 DEF C, D

\* A share less, and at most one more with the collector.
LEMMA CollectedCount ==
    ASSUME CoinInv, NEW p \in Watched, NEW w \in CoinWires, CollectShare(p, w)
    PROVE  /\ Cardinality(InChannel(p)') + Cardinality(pcShares'[p])
                <= Cardinality(InChannel(p)) + Cardinality(pcShares[p])
           /\ Cardinality(InChannel(p)') \in Nat /\ Cardinality(pcShares'[p]) \in Nat
           /\ \A q \in Watched \ {p} : InChannel(q)' = InChannel(q) /\ pcShares'[q] = pcShares[q]
           /\ pcShares[p] \subseteq pcShares'[p] /\ Cardinality(pcShares[p]) < F + 1
           /\ w \in Old => w \in pcShares'[p]
<1> DEFINE k == pcChannel[p][w]
           C == InChannel(p)
           D == InChannel(p)'
           S == pcShares[p]
           T == pcShares[p] \cup ({w} \ {BadShare})
<1>1. /\ pcChannel \in [Watched -> [CoinWires -> 0 .. ChannelCapacity]]
      /\ pcShares \in [Watched -> SUBSET Old]
  BY DEF CoinInv, PracticalCoinTypeOK
<1>2. /\ k > 0 /\ k \in 0 .. ChannelCapacity /\ pcChannel' = [pcChannel EXCEPT ![p][w] = k - 1]
      /\ pcShares' = [pcShares EXCEPT ![p] = T] /\ Cardinality(S) < F + 1
  BY <1>1 DEF CollectShare, Collecting, LowThreshold
<1>3. \A q \in Watched \ {p} : InChannel(q)' = InChannel(q) /\ pcShares'[q] = pcShares[q]
  BY <1>1, <1>2 DEF InChannel
<1>4. D \subseteq C \ {<<w, k>>} /\ <<w, k>> \in C
  BY <1>1, <1>2, ChannelFacts DEF InChannel
<1>5. IsFiniteSet(C) /\ Cardinality(C) \in Nat /\ IsFiniteSet(S) /\ Cardinality(S) \in Nat
  BY ChannelFacts, CountFacts
<1>6. T \in {S, S \cup {w}} /\ S \subseteq T /\ (w \in Old => w \in T)
  BY ChannelFacts
<1>7. pcShares'[p] = T
  BY <1>1, <1>2
<1> HIDE DEF C, D, k, S, T
<1>8. /\ Cardinality(C \ {<<w, k>>}) = Cardinality(C) - 1
      /\ IsFiniteSet(C \ {<<w, k>>})
  BY <1>4, <1>5, FS_RemoveElement
<1>9. Cardinality(D) <= Cardinality(C) - 1 /\ Cardinality(D) \in Nat
  <2>1. Cardinality(D) <= Cardinality(C \ {<<w, k>>}) /\ Cardinality(D) \in Nat
    BY <1>4, <1>8, SubsetCount
  <2> QED
    BY <1>5, <1>8, <2>1
<1>10. Cardinality(T) \in {Cardinality(S), Cardinality(S) + 1}
  <2>1. Cardinality(S \cup {w}) \in {Cardinality(S), Cardinality(S) + 1}
    BY <1>5, FS_AddElement
  <2> QED
    BY <1>6, <2>1
<1>11. Cardinality(D) + Cardinality(T) <= Cardinality(C) + Cardinality(S)
  BY <1>5, <1>9, <1>10
<1> QED
  BY <1>2, <1>3, <1>5, <1>6, <1>7, <1>9, <1>10, <1>11 DEF C, D, S

\* A step keeps the count of a member that takes no share, has no fewer
\* answers and no less reason to hold shares.
LEMMA CountStays ==
    ASSUME SharesCounted, NEW p \in Watched, InChannel(p)' = InChannel(p),
           pcShares'[p] = pcShares[p], pcFlood'[p] = pcFlood[p], pcLost' = pcLost,
           AnsweredTo(p)' = AnsweredTo(p), p \in pcPushed' <=> p \in pcPushed
    PROVE  Cardinality(InChannel(p)') + Cardinality(pcShares'[p])
              <= pcFlood'[p] + Cardinality(AnsweredTo(p)') + pcLost'
                   + (IF p \in pcPushed' THEN 1 ELSE 0)
BY DEF SharesCounted

LEMMA SharesCountedStep ==
    ASSUME CoinInv, SharesCounted, SendersStay, [PracticalCoinNext]_practicalCoinVars
    PROVE  SharesCounted'
<1> DEFINE Counted(q) ==
             Cardinality(InChannel(q)) + Cardinality(pcShares[q])
                <= pcFlood[q] + Cardinality(AnsweredTo(q)) + pcLost + (IF q \in pcPushed THEN 1 ELSE 0)
<1> SUFFICES ASSUME NEW q \in Watched PROVE Counted(q)'
  BY DEF SharesCounted
<1>0. /\ Counted(q) /\ Correct \subseteq CoinWires /\ Faulty \subseteq CoinWires
      /\ Watched \subseteq Correct /\ pcFlood \in [Watched -> 0 .. MaxFlood]
      /\ pcPushed \subseteq Watched
  BY MemberFacts, PracticalCoinAssumption DEF SharesCounted, CoinWires, CoinInv, PracticalCoinTypeOK
<1>n. /\ Cardinality(AnsweredTo(q)) \in Nat /\ Cardinality(pcShares[q]) \in Nat
      /\ Cardinality(InChannel(q)) \in Nat /\ pcFlood[q] \in Nat /\ pcLost \in Nat
  BY CountFacts
<1>1. CASE UNCHANGED <<pcChannel, pcShares, pcPushed, pcAnswered, pcFlood, pcLost>>
  BY <1>0, <1>1 DEF InChannel, AnsweredTo, ChannelCapacity
<1>2. ASSUME NEW p \in Watched, PushOwn(p) PROVE Counted(q)'
  <2>1. /\ pcChannel' = Queued(p, p) /\ pcPushed' = pcPushed \cup {p} /\ p \notin pcPushed
        /\ UNCHANGED <<pcShares, pcAnswered, pcFlood, pcLost>> /\ p \in CoinWires
    BY <1>0, <1>2 DEF PushOwn
  <2>2. AnsweredTo(q)' = AnsweredTo(q)
    BY <2>1 DEF AnsweredTo
  <2>3. CASE q = p
    <3>1. /\ Cardinality(InChannel(q)') <= Cardinality(InChannel(q)) + 1
          /\ Cardinality(InChannel(q)') \in Nat
      BY <2>1, <2>3, QueuedCount
    <3>2. q \in pcPushed' /\ q \notin pcPushed
      BY <2>1, <2>3
    <3> QED
      BY <1>0, <1>n, <2>1, <2>2, <3>1, <3>2
  <2>4. CASE q # p
    <3>1. InChannel(q)' = InChannel(q) /\ (q \in pcPushed' <=> q \in pcPushed)
      BY <2>1, <2>4, QueuedCount
    <3> QED
      BY <2>1, <2>2, <3>1, CountStays
  <2> QED
    BY <2>3, <2>4
<1>3. ASSUME NEW p \in Watched, NEW s \in Correct, ServeShare(s, p) PROVE Counted(q)'
  <2>1. /\ pcChannel' = Queued(p, s) /\ UNCHANGED <<pcShares, pcPushed, pcFlood>>
        /\ s \in CoinWires /\ <<s, p>> \notin pcAnswered
        /\ \/ pcAnswered' = pcAnswered \cup {<<s, p>>} /\ pcLost' = pcLost
           \/ pcLost' = pcLost + 1 /\ pcAnswered' = pcAnswered
    BY <1>0, <1>3 DEF ServeShare, Sends
  <2>2. CASE q = p
    <3>1. /\ Cardinality(InChannel(q)') <= Cardinality(InChannel(q)) + 1
          /\ Cardinality(InChannel(q)') \in Nat
      BY <2>1, <2>2, QueuedCount
    <3>2. CASE pcAnswered' = pcAnswered \cup {<<s, p>>} /\ pcLost' = pcLost
      <4>1. AnsweredTo(q)' = AnsweredTo(q) \cup {s} /\ s \notin AnsweredTo(q)
        BY <2>1, <2>2, <3>2 DEF AnsweredTo
      <4>2. Cardinality(AnsweredTo(q) \cup {s}) = Cardinality(AnsweredTo(q)) + 1
        BY <4>1, CountFacts, FS_AddElement
      <4>3. Cardinality(AnsweredTo(q)') = Cardinality(AnsweredTo(q)) + 1
        BY <4>1, <4>2
      <4> QED
        BY <1>0, <1>n, <2>1, <3>1, <3>2, <4>3
    <3>3. CASE pcLost' = pcLost + 1 /\ pcAnswered' = pcAnswered
      <4>1. AnsweredTo(q)' = AnsweredTo(q)
        BY <3>3 DEF AnsweredTo
      <4> QED
        BY <1>0, <1>n, <2>1, <3>1, <3>3, <4>1
    <3> QED
      BY <2>1, <3>2, <3>3
  <2>3. CASE q # p
    <3>1. InChannel(q)' = InChannel(q) /\ AnsweredTo(q)' = AnsweredTo(q)
      BY <2>1, <2>3, QueuedCount DEF AnsweredTo
    <3> QED
      BY <1>0, <1>n, <2>1, <3>1
  <2> QED
    BY <2>2, <2>3
<1>4. ASSUME NEW p \in Watched, NEW w \in Faulty \cup {BadShare}, ServeFlood(p, w)
      PROVE  Counted(q)'
  <2>1. /\ pcChannel' = Queued(p, w) /\ UNCHANGED <<pcShares, pcPushed, pcAnswered, pcLost>>
        /\ w \in CoinWires /\ pcFlood' = [pcFlood EXCEPT ![p] = @ + 1]
    BY <1>0, <1>4 DEF ServeFlood, CoinWires
  <2>2. AnsweredTo(q)' = AnsweredTo(q)
    BY <2>1 DEF AnsweredTo
  <2>3. CASE q = p
    <3>1. /\ Cardinality(InChannel(q)') <= Cardinality(InChannel(q)) + 1
          /\ Cardinality(InChannel(q)') \in Nat
      BY <2>1, <2>3, QueuedCount
    <3>2. pcFlood'[q] = pcFlood[q] + 1
      BY <1>0, <2>1, <2>3
    <3> QED
      BY <1>0, <1>n, <2>1, <2>2, <3>1, <3>2
  <2>4. CASE q # p
    <3>1. InChannel(q)' = InChannel(q) /\ pcFlood'[q] = pcFlood[q]
      BY <1>0, <2>1, <2>4, QueuedCount
    <3> QED
      BY <2>1, <2>2, <3>1, CountStays
  <2> QED
    BY <2>3, <2>4
<1>5. ASSUME NEW p \in Watched, NEW w \in CoinWires, CollectShare(p, w) PROVE Counted(q)'
  <2>1. UNCHANGED <<pcPushed, pcAnswered, pcFlood, pcLost>>
    BY <1>5 DEF CollectShare
  <2>2. AnsweredTo(q)' = AnsweredTo(q)
    BY <2>1 DEF AnsweredTo
  <2>3. CASE q = p
    <3>1. Cardinality(InChannel(q)') + Cardinality(pcShares'[q])
             <= Cardinality(InChannel(q)) + Cardinality(pcShares[q])
      BY <1>5, <2>3, CollectedCount
    <3>2. Cardinality(InChannel(q)') \in Nat /\ Cardinality(pcShares'[q]) \in Nat
      BY <1>5, <2>3, CollectedCount
    <3> QED
      BY <1>0, <1>n, <2>1, <2>2, <3>1, <3>2
  <2>4. CASE q # p
    <3>1. InChannel(q)' = InChannel(q) /\ pcShares'[q] = pcShares[q]
      BY <1>5, <2>4, CollectedCount
    <3> QED
      BY <2>1, <2>2, <3>1, CountStays
  <2> QED
    BY <2>3, <2>4
<1>6. ASSUME NEW p \in Correct, StartCoin(p) \/ TakeCoin(p) \/ EndGrace(p) PROVE Counted(q)'
  BY <1>1, <1>6 DEF StartCoin, TakeCoin, EndGrace
<1> HIDE DEF Counted
<1> QED
  BY <1>1, <1>2, <1>3, <1>4, <1>5, <1>6 DEF PracticalCoinNext, practicalCoinVars

LEMMA SendersStayStep ==
    ASSUME CoinInv, SendersStay, [PracticalCoinNext]_practicalCoinVars
    PROVE  SendersStay'
<1> DEFINE Through(p) == /\ <<p, p>> \notin pcAnswered
                         /\ pcStage[p] \in {"out", "done"} => p \in pcPushed
           Served(p, s) == pcStage[s] = "done" /\ NeedsShares(p) => <<s, p>> \in pcAnswered
<1> SUFFICES ASSUME NEW p \in Watched
             PROVE  Through(p)' /\ \A s \in Correct \ CoinHasty : s # p => Served(p, s)'
  BY DEF SendersStay
<1>0. /\ Through(p) /\ \A s \in Correct \ CoinHasty : s # p => Served(p, s)
      /\ pcStage \in [Correct -> {"idle", "run", "out", "done"}]
      /\ Watched \subseteq Correct
  BY PracticalCoinAssumption DEF SendersStay, CoinInv, PracticalCoinTypeOK
<1>1. CASE UNCHANGED <<pcStage, pcShares>> /\ pcPushed \subseteq pcPushed'
           /\ pcAnswered \subseteq pcAnswered' /\ <<p, p>> \notin pcAnswered'
  BY <1>0, <1>1 DEF NeedsShares, Collecting, LowThreshold
<1>2. ASSUME NEW q \in Correct, StartCoin(q)
      PROVE  Through(p)' /\ \A s \in Correct \ CoinHasty : s # p => Served(p, s)'
  BY <1>0, <1>2 DEF StartCoin, NeedsShares, Collecting, LowThreshold
<1>3. ASSUME NEW q \in Correct, TakeCoin(q)
      PROVE  Through(p)' /\ \A s \in Correct \ CoinHasty : s # p => Served(p, s)'
  BY <1>0, <1>3 DEF TakeCoin, NeedsShares, Collecting, LowThreshold
<1>4. ASSUME NEW q \in Correct, EndGrace(q)
      PROVE  Through(p)' /\ \A s \in Correct \ CoinHasty : s # p => Served(p, s)'
  <2>1. /\ pcStage[q] = "out" /\ pcStage' = [pcStage EXCEPT ![q] = "done"]
        /\ UNCHANGED <<pcShares, pcPushed, pcAnswered>>
        /\ q \notin CoinHasty => \A r \in Watched : Sends(q, r) => ~ NeedsShares(r)
    BY <1>4 DEF EndGrace
  <2>2. Through(p)'
    BY <1>0, <2>1
  <2>3. ASSUME NEW s \in Correct \ CoinHasty, s # p PROVE Served(p, s)'
    <3>1. NeedsShares(p)' => NeedsShares(p)
      BY <1>0, <2>1 DEF NeedsShares, Collecting, LowThreshold
    <3>2. CASE s # q
      <4>1. pcStage'[s] = pcStage[s]
        BY <1>0, <2>1, <3>2
      <4> QED
        BY <1>0, <2>1, <2>3, <3>1, <4>1
    <3>3. CASE s = q
      <4>1. s \in Watched => s \in pcPushed
        BY <2>1, <3>3 DEF SendersStay
      <4>2. NeedsShares(p) => <<s, p>> \in pcAnswered
        BY <2>1, <2>3, <3>3, <4>1 DEF Sends
      <4> QED
        BY <2>1, <3>1, <4>2
    <3> QED
      BY <3>2, <3>3
  <2> QED
    BY <2>2, <2>3
<1>5. ASSUME NEW q \in Watched, PushOwn(q)
      PROVE  Through(p)' /\ \A s \in Correct \ CoinHasty : s # p => Served(p, s)'
  BY <1>0, <1>1, <1>5 DEF PushOwn
<1>6. ASSUME NEW q \in Watched, NEW s \in Correct, ServeShare(s, q)
      PROVE  Through(p)' /\ \A r \in Correct \ CoinHasty : r # p => Served(p, r)'
  <2>1. /\ UNCHANGED <<pcStage, pcShares, pcPushed>> /\ pcAnswered \subseteq pcAnswered'
        /\ pcAnswered' \subseteq pcAnswered \cup {<<s, q>>} /\ s # q
    BY <1>6 DEF ServeShare, Sends
  <2> QED
    BY <1>0, <1>1, <2>1
<1>7. ASSUME NEW q \in Watched, NEW w \in Faulty \cup {BadShare}, ServeFlood(q, w)
      PROVE  Through(p)' /\ \A s \in Correct \ CoinHasty : s # p => Served(p, s)'
  BY <1>0, <1>1, <1>7 DEF ServeFlood
<1>8. ASSUME NEW q \in Watched, NEW w \in CoinWires, CollectShare(q, w)
      PROVE  Through(p)' /\ \A s \in Correct \ CoinHasty : s # p => Served(p, s)'
  <2>1. UNCHANGED <<pcStage, pcPushed, pcAnswered>> /\ Collecting(q)
    BY <1>8 DEF CollectShare
  <2>2. NeedsShares(p)' => NeedsShares(p)
    <3>1. CASE p = q
      BY <2>1, <3>1 DEF NeedsShares
    <3>2. CASE p # q
      <4>1. pcShares'[p] = pcShares[p]
        BY <1>8, <3>2, CollectedCount
      <4> QED
        BY <2>1, <4>1 DEF NeedsShares, Collecting, LowThreshold
    <3> QED
      BY <3>1, <3>2
  <2> QED
    BY <1>0, <2>1, <2>2
<1>9. CASE UNCHANGED practicalCoinVars
  BY <1>0, <1>1, <1>9 DEF practicalCoinVars
<1> HIDE DEF Through, Served
<1> QED
  BY <1>2, <1>3, <1>4, <1>5, <1>6, <1>7, <1>8, <1>9 DEF PracticalCoinNext

LEMMA OwnIsHeldStep ==
    ASSUME CoinInv, OwnIsHeld, [PracticalCoinNext]_practicalCoinVars
    PROVE  OwnIsHeld'
<1> DEFINE Held(p) == \/ pcChannel[p][p] > 0 \/ p \in pcShares[p]
                      \/ Cardinality(pcShares[p]) >= F + 1
<1> SUFFICES ASSUME NEW p \in Watched, p \in pcPushed' PROVE Held(p)'
  BY DEF OwnIsHeld
<1>0. /\ pcChannel \in [Watched -> [CoinWires -> 0 .. ChannelCapacity]]
      /\ p \in Correct /\ p \in Old /\ p \in CoinWires /\ ChannelCapacity \in Nat
      /\ p \in pcPushed => Held(p)
  BY MemberFacts, PracticalCoinAssumption, ChannelFacts
     DEF OwnIsHeld, CoinWires, CoinInv, PracticalCoinTypeOK
<1>1. CASE UNCHANGED <<pcChannel, pcShares, pcPushed>>
  BY <1>0, <1>1
<1>2. ASSUME NEW q \in Watched, NEW w \in CoinWires, pcChannel' = Queued(q, w),
             pcShares' = pcShares, p \in pcPushed \/ (q = p /\ w = p)
      PROVE  Held(p)'
  BY <1>0, <1>2 DEF Queued
<1>3. ASSUME NEW q \in Watched, PushOwn(q) PROVE Held(p)'
  <2>1. /\ q \in CoinWires /\ pcChannel' = Queued(q, q) /\ pcShares' = pcShares
        /\ p \in pcPushed \/ p = q
    BY <1>3, MemberFacts, PracticalCoinAssumption DEF PushOwn, CoinWires
  <2> QED
    BY <1>2, <2>1
<1>4. ASSUME NEW q \in Watched, NEW s \in Correct, ServeShare(s, q) PROVE Held(p)'
  <2>1. s \in CoinWires /\ pcChannel' = Queued(q, s) /\ pcShares' = pcShares /\ p \in pcPushed
    BY <1>4, MemberFacts DEF ServeShare, CoinWires
  <2> QED
    BY <1>2, <2>1
<1>5. ASSUME NEW q \in Watched, NEW w \in Faulty \cup {BadShare}, ServeFlood(q, w)
      PROVE  Held(p)'
  <2>1. w \in CoinWires /\ pcChannel' = Queued(q, w) /\ pcShares' = pcShares /\ p \in pcPushed
    BY <1>5, MemberFacts DEF ServeFlood, CoinWires
  <2> QED
    BY <1>2, <2>1
<1>6. ASSUME NEW q \in Watched, NEW w \in CoinWires, CollectShare(q, w) PROVE Held(p)'
  <2>1. pcChannel' = [pcChannel EXCEPT ![q][w] = @ - 1] /\ p \in pcPushed
    BY <1>6 DEF CollectShare
  <2>2. CASE q # p
    BY <1>0, <1>6, <2>1, <2>2, CollectedCount
  <2>3. CASE q = p /\ w = p
    BY <1>0, <1>6, <2>3, CollectedCount
  <2>4. CASE q = p /\ w # p
    <3>1. pcChannel'[p][p] = pcChannel[p][p]
      BY <1>0, <2>1, <2>4
    <3>2. pcShares[p] \subseteq pcShares'[p] /\ Cardinality(pcShares[p]) < F + 1
      BY <1>6, <2>4, CollectedCount
    <3>3. ~(Cardinality(pcShares[p]) >= F + 1)
      BY <3>2, CountFacts, MemberFacts
    <3> QED
      BY <1>0, <2>1, <3>1, <3>2, <3>3
  <2> QED
    BY <2>2, <2>3, <2>4
<1>7. ASSUME NEW q \in Correct, StartCoin(q) \/ TakeCoin(q) \/ EndGrace(q) PROVE Held(p)'
  BY <1>1, <1>7 DEF StartCoin, TakeCoin, EndGrace
<1>8. CASE UNCHANGED practicalCoinVars
  BY <1>1, <1>8 DEF practicalCoinVars
<1> HIDE DEF Held
<1> QED
  BY <1>3, <1>4, <1>5, <1>6, <1>7, <1>8 DEF PracticalCoinNext

LEMMA CoinSettlingStep ==
    ASSUME CoinInv, CoinSettling, [PracticalCoinNext]_practicalCoinVars
    PROVE  CoinSettling'
BY SharesCountedStep, SendersStayStep, OwnIsHeldStep DEF CoinSettling

\* Nobody waits for room at rest, since what others have put into a channel
\* leaves some; so whoever collects has been sent the shares of all that give
\* their sends enough time, f+1 of them.
LEMMA CoinsArriveHolds ==
    ASSUME MaxFlood + MaxUnanswered + Cardinality(Correct) - 1 < ChannelCapacity + F + 1,
           Cardinality(Correct \ CoinHasty) >= F + 1, CoinInv, CoinSettling
    PROVE  CoinsArrive
<1> SUFFICES ASSUME PracticalCoinAtRest PROVE \A p \in Correct : pcStage[p] = "done"
  BY DEF CoinsArrive
<1>0. /\ \A p \in Correct : pcStage[p] \in {"run", "out", "done"}
      /\ Watched \subseteq Correct /\ ChannelCapacity \in Nat /\ ChannelCapacity > 0
      /\ F \in Nat /\ MaxFlood \in Nat /\ MaxUnanswered \in Nat /\ Cardinality(Correct) \in Nat
  <2>1. ChannelCapacity \in Nat /\ ChannelCapacity > 0
    BY MemberFacts DEF ChannelCapacity
  <2> QED
    BY <2>1, MemberFacts, EnoughCorrect, PracticalCoinAssumption
       DEF PracticalCoinAtRest, CoinInv, PracticalCoinTypeOK
<1>1. ASSUME NEW p \in Watched, Collecting(p) PROVE ChannelRoom(p)
  <2>1. \A w \in CoinWires : pcChannel[p][w] = 0
    BY <1>1 DEF PracticalCoinAtRest
  <2>2. InChannel(p) = {}
    BY <1>0, <2>1 DEF InChannel
  <2>3. Cardinality({}) = 0
    BY FS_EmptySet
  <2> QED
    BY <1>0, <2>2, <2>3 DEF ChannelRoom
<1>2. ASSUME NEW p \in Watched, pcStage[p] = "run" PROVE p \in pcPushed
  <2> SUFFICES ASSUME p \notin pcPushed PROVE FALSE
    OBVIOUS
  <2>1. ~ChannelRoom(p)
    BY <1>2 DEF PracticalCoinAtRest
  <2>2. ~Collecting(p)
    BY <1>1, <2>1
  <2> DEFINE c == Cardinality(InChannel(p))
             h == Cardinality(pcShares[p])
             a == Cardinality(AnsweredTo(p))
  <2>3. c \in Nat /\ h \in Nat /\ a \in Nat /\ pcFlood[p] \in 0 .. MaxFlood
        /\ pcLost \in 0 .. MaxUnanswered
    BY CountFacts DEF CoinInv, PracticalCoinTypeOK
  <2>4. c >= ChannelCapacity /\ h >= F + 1
    <3>1. ~(c < ChannelCapacity) /\ ~(h < F + 1)
      BY <1>2, <2>1, <2>2 DEF ChannelRoom, Collecting, LowThreshold
    <3> HIDE DEF c, h
    <3> QED
      BY <1>0, <2>3, <3>1
  <2>5. c + h <= pcFlood[p] + a + pcLost
    <3>1. c + h <= pcFlood[p] + a + pcLost + 0
      BY DEF CoinSettling, SharesCounted
    <3> HIDE DEF c, h, a
    <3> QED
      BY <2>3, <3>1
  <2>6. a <= Cardinality(Correct) - 1
    <3>1. AnsweredTo(p) \subseteq Correct \ {p} /\ p \in Correct
      BY <1>0 DEF AnsweredTo, CoinSettling, SendersStay
    <3>2. IsFiniteSet(Correct \ {p}) /\ Cardinality(Correct \ {p}) = Cardinality(Correct) - 1
      BY <3>1, MemberFacts, FS_RemoveElement
    <3> HIDE DEF AnsweredTo
    <3>3. Cardinality(AnsweredTo(p)) <= Cardinality(Correct \ {p})
      BY <3>1, <3>2, SubsetCount
    <3> QED
      BY <3>2, <3>3
  <2> HIDE DEF c, h, a
  <2> QED
    BY <1>0, <2>3, <2>4, <2>5, <2>6
<1>3. ASSUME NEW p \in Watched, Collecting(p) PROVE FALSE
  <2>1. \A w \in CoinWires : pcChannel[p][w] = 0
    BY <1>3 DEF PracticalCoinAtRest
  <2>2. \A s \in Correct : ~Sends(s, p)
    BY <1>1, <1>3 DEF PracticalCoinAtRest
  <2>3. ~(Cardinality(pcShares[p]) >= F + 1) /\ Cardinality(pcShares[p]) < F + 1
    BY <1>3, CountFacts, MemberFacts DEF Collecting, LowThreshold
  <2>4. ASSUME NEW s \in Correct \ CoinHasty PROVE s \in pcShares[p]
    <3>1. pcChannel[p][s] = 0
      BY <2>1, MemberFacts DEF CoinWires
    <3>2. CASE s = p
      <4>1. p \in pcPushed
        BY <1>2, <1>3 DEF Collecting
      <4> QED
        BY <2>3, <3>1, <3>2, <4>1 DEF CoinSettling, OwnIsHeld
    <3>3. CASE s # p
      <4>1. s \in Watched => s \in pcPushed
        BY <1>0, <1>2 DEF CoinSettling, SendersStay
      <4>2. CASE pcStage[s] = "done"
        <5>1. NeedsShares(p)
          BY <1>3 DEF NeedsShares
        <5>2. <<s, p>> \in pcAnswered
          BY <3>3, <4>2, <5>1 DEF CoinSettling, SendersStay
        <5> QED
          BY <2>3, <3>1, <5>2 DEF CoinInv, AnsweredIsHeld
      <4>3. CASE pcStage[s] \in {"run", "out"}
        <5>1. <<s, p>> \in pcAnswered
          BY <2>2, <3>3, <4>1, <4>3 DEF Sends
        <5> QED
          BY <2>3, <3>1, <5>1 DEF CoinInv, AnsweredIsHeld
      <4> QED
        BY <1>0, <4>2, <4>3
    <3> QED
      BY <3>2, <3>3
  <2>5. Cardinality(Correct \ CoinHasty) <= Cardinality(pcShares[p])
        /\ Cardinality(Correct \ CoinHasty) \in Nat
    <3>1. Correct \ CoinHasty \subseteq pcShares[p] /\ IsFiniteSet(pcShares[p])
      BY <2>4, CountFacts
    <3> QED
      BY <3>1, SubsetCount
  <2> QED
    BY <1>0, <2>3, <2>5, CountFacts
<1>4. \A p \in Correct : pcStage[p] # "run"
  BY <1>2, <1>3 DEF PracticalCoinAtRest
<1>5. \A q \in Watched : ~NeedsShares(q)
  BY <1>0, <1>3 DEF NeedsShares
<1> QED
  BY <1>0, <1>4, <1>5 DEF PracticalCoinAtRest

-----------------------------------------------------------------------------
(* The stages together: a step of one leaves the others where they are. *)

StagesInv ==
    /\ DealingInv /\ PartialInv /\ RecastInv
    /\ DispersalInv /\ KeysInv /\ CoinInv

LEMMA StagesInitInv == MCInit => StagesInv
BY DealingInitInv, PartialInitInv, RecastInitInv, DispersalInitInv, KeysInitInv, CoinInitInv
   DEF MCInit, StagesInv

LEMMA StagesStepInv == StagesInv /\ [MCNext]_allVars => StagesInv'
<1> SUFFICES ASSUME StagesInv, [MCNext]_allVars PROVE StagesInv'
  OBVIOUS
<1>1. /\ [DealingNext]_dealingVars /\ [PartialNext]_partialVars
      /\ [RecastNext]_recastVars /\ [DispersalNext]_dispersalVars
      /\ [KeysNext]_keyVars /\ [PracticalCoinNext]_practicalCoinVars
  BY DEF MCNext, allVars
<1> QED
  BY <1>1, DealingStepInv, PartialStepInv, RecastStepInv, DispersalStepInv, KeysStepInv,
     CoinStepInv DEF StagesInv

LEMMA StagesInvariance == MCSpec => []StagesInv
BY StagesInitInv, StagesStepInv, PTL DEF MCSpec

\* Every variable of every stage keeps its type: processes hold one vector, one
\* result, one certificate and one key share of whoever sends, and a channel no
\* more than its capacity.
THEOREM TypesOKCorrect == MCSpec => []TypesOK
<1>1. StagesInv => TypesOK
  BY DEF StagesInv, DealingInv, PartialInv, RecastInv, DispersalInv, DispersalTypes,
         KeysInv, CoinInv, TypesOK
<1> QED
  BY <1>1, StagesInvariance, PTL

\* A correct process opens its lane of every transcript of a correct dealer,
\* whatever came before it (acceptDXTLane, dxt_network.go); and when a correct
\* process accepts the votes of the others, all lanes of the selected
\* transcripts are valid, f faulty voters or not (partial_verify_multicast.go).
THEOREM KeysOpenCorrect == MCSpec => []KeysOpen
<1>1. StagesInv => KeysOpen
  BY DealingHolds DEF StagesInv, PartialInv, KeysOpen
<1> QED
  BY <1>1, StagesInvariance, PTL

\* Past the agreement all go on with the same commitments (adkr.go), of which
\* n-2f correct holders keep their shard (apdb_network.go); all recover the
\* same transcript, the completion barrier has a correct witness, and a coin
\* share that was answered is not lost (coin_threshold_protocol.go).
THEOREM StagesAgreeCorrect == MCSpec => []StagesAgree
<1>1. StagesInv => StagesAgree
  BY DispersalHolds, RecastHolds DEF StagesInv, RecastInv, CoinInv, StagesAgree
<1> QED
  BY <1>1, StagesInvariance, PTL

-----------------------------------------------------------------------------
(* What is at rest has ended. *)

StagesSettling ==
    /\ PartialSettling /\ RecastSettling /\ CertificatesTaken
    /\ KeysSettling /\ CoinSettling

LEMMA StagesSettlingInit == MCInit => StagesSettling
<1> SUFFICES ASSUME MCInit PROVE StagesSettling
  OBVIOUS
<1>1. PartialInit /\ RecastInit /\ DispersalInit /\ KeysInit /\ PracticalCoinInit
  BY DEF MCInit
<1>2. PartialSettling
  BY <1>1 DEF PartialInit, PartialSettling
<1> QED
  BY <1>1, <1>2, RecastSettlingInit, CertificatesTakenInit, KeysSettlingInit, CoinSettlingInit
     DEF StagesSettling

LEMMA StagesSettlingStep ==
    ASSUME StagesInv, StagesSettling, [MCNext]_allVars
    PROVE  StagesSettling'
<1>1. /\ [PartialNext]_partialVars /\ [RecastNext]_recastVars /\ [DispersalNext]_dispersalVars
      /\ [KeysNext]_keyVars /\ [PracticalCoinNext]_practicalCoinVars
  BY DEF MCNext, allVars
<1>2. {} # None
  BY DispersalAssumption
<1>3. /\ PartialInv /\ RecastInv /\ DispersalInv /\ KeysInv /\ CoinInv
      /\ PartialSettling /\ RecastSettling /\ CertificatesTaken /\ KeysSettling /\ CoinSettling
  BY DEF StagesInv, StagesSettling
<1>4. PartialSettling' /\ RecastSettling'
  BY <1>1, <1>2, <1>3, PartialSettlingStep, RecastSettlingStep
<1>5. CertificatesTaken' /\ KeysSettling' /\ CoinSettling'
  BY <1>1, <1>3, CertificatesTakenStep, KeysSettlingStep, CoinSettlingStep
<1> QED
  BY <1>4, <1>5 DEF StagesSettling

LEMMA StagesSettlingInvariance == MCSpec => [](StagesInv /\ StagesSettling)
<1>1. MCInit => StagesInv /\ StagesSettling
  BY StagesInitInv, StagesSettlingInit
<1>2. StagesInv /\ StagesSettling /\ [MCNext]_allVars => StagesInv' /\ StagesSettling'
  BY StagesStepInv, StagesSettlingStep
<1> QED
  BY <1>1, <1>2, PTL DEF MCSpec

\* Whoever is early and cancels what it still has to send leaves nobody behind:
\* with valid transcripts somebody verifies (partial_verify_multicast.go), somebody
\* gets through dispersal and agreement (apdb_network.go, adkr.go), every recipient
\* recovers and passes the completion barrier (adkr.go), every member gets the keys
\* of the others (comp_multicast.go) and its coin (coin_threshold_protocol.go).
THEOREM StagesArriveCorrect ==
    ASSUME StagesFit
    PROVE  MCSpec => [](SomeoneVerifies /\ DispersalEnds /\ RecipientsRecover
                        /\ KeysArrive /\ CoinsArrive)
<1>1. StagesInv /\ StagesSettling =>
         SomeoneVerifies /\ DispersalEnds /\ RecipientsRecover /\ KeysArrive /\ CoinsArrive
  BY SomeoneVerifiesHolds, DispersalEndsHolds, RecipientsRecoverHolds, KeysArriveHolds,
     CoinsArriveHolds DEF StagesFit, StagesInv, StagesSettling
<1> QED
  BY <1>1, StagesSettlingInvariance, PTL

\* The same, and the keys derived are those of one polynomial, whichever n-f
\* shares a member has collected, when n-f shares fix a polynomial, as they do
\* by interpolation over a field (comp_proof.go).
THEOREM StagesEndCorrect ==
    ASSUME StagesFit, InterpolationExact
    PROVE  MCSpec => []StagesEnd
<1>1. StagesInv /\ StagesSettling => KeysAreShared
  BY KeysAreSharedHolds DEF StagesInv, StagesSettling
<1>2. MCSpec => [](SomeoneVerifies /\ DispersalEnds /\ RecipientsRecover
                   /\ KeysArrive /\ CoinsArrive)
  BY StagesArriveCorrect
<1>3. SomeoneVerifies /\ DispersalEnds /\ RecipientsRecover /\ KeysArrive /\ CoinsArrive
        /\ KeysAreShared => StagesEnd
  BY DEF StagesEnd
<1> QED
  BY <1>1, <1>2, <1>3, StagesSettlingInvariance, PTL
=============================================================================

---------------------------- MODULE LeafEvidence ----------------------------
(***************************************************************************)
(* The evidence that makes a dealer's leaf usable by every receiver, in    *)
(* its two forms: the scalar leaf of src/core/cv_sapvss_leaf_scalar.go     *)
(* (with the lanes, ACK, fallback, partition, aggregate and share files    *)
(* beside it) and the structural leaf of src/core/apvss_ack.go.            *)
(*                                                                         *)
(* A lane is the encryption, digit by digit, of one receiver's evaluation. *)
(* Either the receiver has decrypted it and signed exactly that lane, or   *)
(* the dealer proves in public that its digits are small: at most f lanes  *)
(* may take the second way.  Leaves that verify are added, and a receiver  *)
(* must then be able to solve the logarithms of the sums of the digits.    *)
(*                                                                         *)
(* Group elements are formal (module Group).  The challenges are hashes of *)
(* the first moves, so a proof is possible exactly for the statements that *)
(* have a witness for all equations at once: that is how the equations of  *)
(* a proof are stated here.  The proof that a dealer knows the polynomial  *)
(* it commits to is left out: both polynomials are constants here.         *)
(***************************************************************************)
EXTENDS Field

E == INSTANCE Group WITH Bases <- {"G", "H"}

CONSTANTS LeafReceivers,    \* receiver indices 1 .. n
          CorruptReceivers, \* receivers that sign any lane
          LeafFaults,       \* f of the new committee
          LaneKeys,         \* secret encryption key of each receiver
          LaneBase,         \* 2^chunkBits
          LaneChunks,       \* digits of a lane
          LeafDealing,      \* [scalars, blindings] of dealer 1, which is correct
          OddDealing,       \* the same for dealer 2, which is not
          LaneKinds,        \* kinds of lanes dealer 2 may make for each receiver
          OddShift          \* by how much a corrupt receiver misstates a share

LeafDealers == {1, 2}
Profiles == {"scalar", "structural"}
Kinds == {"true", "wide", "off", "misplaced"}
Digits0 == 0 .. LaneChunks - 1
GoodReceivers == LeafReceivers \ CorruptReceivers
Unknown == -1
Unsolved == -2
NoKind == "none"

ASSUME LeafAssumption ==
    /\ CorruptReceivers \subseteq LeafReceivers
    /\ Cardinality(CorruptReceivers) <= LeafFaults
    /\ LaneBase ^ LaneChunks >= FieldOrder
    /\ Cardinality(LeafDealers) * (LaneBase - 1) < FieldOrder

VARIABLES
    lfProfile,  \* which of the two forms the session uses
    lfAsked,    \* lfAsked[d][r]: kind of the lane that d sent to r
    lfSigned,   \* lfSigned[d]: receivers that signed the lane sent to them
    lfLeaf,     \* lfLeaf[d]: kinds of the lanes of the leaf that was accepted
    lfVerdict,  \* what verification said of d's leaf
    lfShare,    \* scalar share that r decrypted from the aggregate
    lfOutput,   \* amount by which r's verified output differs from its share
    lfKeys      \* threshold keys interpolated so far

leafVars == <<lfProfile, lfAsked, lfSigned, lfLeaf, lfVerdict, lfShare, lfOutput, lfKeys>>

-----------------------------------------------------------------------------
(* Dealing a lane.                                                         *)

G1 == E!PBase("G")
H1 == E!PBase("H")
LaneKey(r) == E!PTimes(G1, LaneKeys[r])

\* t_n = n_n - f_n - 1 in the scalar form, f_n in the structural one.
SharingDegree(p) == IF p = "scalar" THEN Cardinality(LeafReceivers) - LeafFaults - 1 ELSE LeafFaults

Dealt(d) == IF d = 1 THEN LeafDealing ELSE OddDealing
ScalarPoly(p, d) == SubSeq(Dealt(d).scalars, 1, SharingDegree(p) + 1)
\* The structural form commits without blinding.
BlindPoly(p, d) ==
    IF p = "scalar" THEN SubSeq(Dealt(d).blindings, 1, SharingDegree(p) + 1)
    ELSE [k \in 1 .. SharingDegree(p) + 1 |-> 0]

CommitmentsOf(p, d) ==
    [k \in 1 .. SharingDegree(p) + 1 |-> E!PCommit(ScalarPoly(p, d)[k], BlindPoly(p, d)[k])]

\* cvWeightedScalarScalar.
WeightedScalar(ds) ==
    SumF([c \in Digits0 |-> MulF(ds[c], PowF[LaneBase % FieldOrder, c])], Digits0)

\* cvScalarDigits.
LaneDigits(s) == [c \in Digits0 |-> (s \div LaneBase ^ c) % LaneBase]

\* The digits that a lane of kind k holds: those of the evaluation, a vector
\* of the same weight with a digit beyond the base, or another scalar's.
KindDigits(s, k) ==
    CASE k = "true" -> LaneDigits(s)
      [] k = "wide" -> CHOOSE ds \in [Digits0 -> Scalars] :
                           WeightedScalar(ds) = s /\ \A c \in Digits0 : ds[c] >= LaneBase
      [] OTHER -> LaneDigits(AddF(s, 1))

\* cvEncryptPointAfterValidationScalar.
EncryptPoint(r, m, coin) == [r |-> E!PTimes(G1, coin), c |-> E!PAdd(E!PTimes(LaneKey(r), coin), m)]

\* cvComputeReceiverLaneOfferScalar.  Any coins do.
LaneOffer(p, d, r, k) ==
    LET s == EvalPoly(ScalarPoly(p, d), r)
        b == EvalPoly(BlindPoly(p, d), r)
        ds == KindDigits(s, k) IN
    [evaluation |-> E!PCommit(IF k = "misplaced" THEN AddF(s, 1) ELSE s, b),
     chunks     |-> [c \in Digits0 |-> EncryptPoint(r, E!PTimes(G1, ds[c]), 2 + d + c)],
     blinding   |-> IF p = "scalar" THEN EncryptPoint(r, E!PTimes(H1, b), 3 + d)
                    ELSE [r |-> E!PZero, c |-> E!PZero]]

Offers == [p \in Profiles, d \in LeafDealers, r \in LeafReceivers, k \in Kinds |-> LaneOffer(p, d, r, k)]

-----------------------------------------------------------------------------
(* What the public checks of a lane say.                                   *)

\* Digits and blindings that some coin explains: the coin and ciphertext
\* equations of a chunk, and of the blinding.
DigitWitnesses(ct, r) ==
    {x \in Scalars : \E coin \in Scalars : ct = EncryptPoint(r, E!PTimes(G1, x), coin)}

BlindingWitnesses(ct, r) ==
    {b \in Scalars : \E coin \in Scalars : ct = EncryptPoint(r, E!PTimes(H1, b), coin)}

DigitVectors(o, r, allowed) ==
    LET D == [c \in Digits0 |-> DigitWitnesses(o.chunks[c], r) \cap allowed] IN
    {ds \in [Digits0 -> UNION {D[c] : c \in Digits0}] : \A c \in Digits0 : ds[c] \in D[c]}

\* cvVerifyOwnershipModeScalar: the digits and the blinding that are encrypted
\* are the ones that open the evaluation.
OpensEvaluation(o, ds, b) == o.evaluation = E!PCommit(WeightedScalar(ds), b)

OwnershipHolds(o, r) ==
    \E ds \in DigitVectors(o, r, Scalars), b \in BlindingWitnesses(o.blinding, r) :
        OpensEvaluation(o, ds, b)

\* cvVerifyFallbackLinkModeScalar and the range proof after it: the digits are
\* also opened in commitments, which the range proof bounds by the base.
FallbackLinkHolds(o, r, ds, b) ==
    /\ ds \in DigitVectors(o, r, Scalars)
    /\ b \in BlindingWitnesses(o.blinding, r)
    /\ OpensEvaluation(o, ds, b)

FallbackInRange(ds) == \A c \in Digits0 : ds[c] < LaneBase

\* cvVerifyFallbackEvidenceModeScalar.
FallbackHolds(o, r) ==
    \E ds \in DigitVectors(o, r, Scalars), b \in BlindingWitnesses(o.blinding, r) :
        FallbackLinkHolds(o, r, ds, b) /\ FallbackInRange(ds)

\* apvssVerifyFallbackLane: the proof of a leaf of degree 0 with this one lane.
LaneLeafHolds(o, r) ==
    \E ds \in DigitVectors(o, r, 0 .. LaneBase - 1) : OpensEvaluation(o, ds, 0)

-----------------------------------------------------------------------------
(* Decrypting a lane.                                                      *)

\* cvDecryptGroupCiphertextScalar.
DecryptPoint(ct, r) == E!PSub(ct.c, E!PTimes(ct.r, LaneKeys[r]))

\* cvBoundedDLogSolverScalar: the exponent up to the bound.
SolveBounded(P, bound) ==
    LET found == {x \in 0 .. bound : P = E!PTimes(G1, x)} IN
    IF found = {} THEN Unsolved ELSE CHOOSE x \in found : TRUE

SolveLane(o, r, bound) == [c \in Digits0 |-> SolveBounded(DecryptPoint(o.chunks[c], r), bound)]
Solved(ds) == \A c \in Digits0 : ds[c] # Unsolved
DigitInteger(ds) == FoldSet(LAMBDA c, acc : acc + ds[c] * LaneBase ^ c, 0, Digits0)

\* cvDigitsToScalarScalar refuses a second way of writing a scalar.
CanonicalDigits(ds) == DigitInteger(ds) < FieldOrder

\* cvVerifyAndDecryptReceiverLanesModeScalar.
DecryptsScalar(o, r) ==
    LET ds == SolveLane(o, r, LaneBase - 1) IN
    /\ OwnershipHolds(o, r)
    /\ Solved(ds) /\ CanonicalDigits(ds)
    /\ o.evaluation = E!PAdd(E!PTimes(G1, DigitInteger(ds)), DecryptPoint(o.blinding, r))

\* apvssDecryptLaneFieldCongruent with the checks of apvssIssueVerifiedLaneACK.
DecryptsStructural(o, r) ==
    LET ds == SolveLane(o, r, LaneBase - 1) IN
    /\ Solved(ds)
    /\ DecryptPoint(o.blinding, r) = E!PZero
    /\ o.evaluation = E!PTimes(G1, DigitInteger(ds) % FieldOrder)

\* apvssLaneStatementBytesPrepared, cvVerifyReceiverEvaluationsExactScalar: the
\* lane's evaluation is the committed polynomial's.
OnPolynomial(p, d, r, o) ==
    o.evaluation = E!PLinear(CommitmentsOf(p, d),
                             [k \in 1 .. SharingDegree(p) + 1 |-> PowF[r, k - 1]],
                             1 .. SharingDegree(p) + 1)

\* cvVerifyDecryptAndSignACKModeScalar.
SignsScalar(d, r, k) == DecryptsScalar(Offers["scalar", d, r, k], r)

\* apvssIssueLaneACK: the lane is also part of a leaf whose commitments the
\* receiver has, and the statement it signs is only made for lanes that are
\* evaluations of them.
SignsStructural(d, r, k) ==
    LET o == Offers["structural", d, r, k] IN
    DecryptsStructural(o, r) /\ OnPolynomial("structural", d, r, o)

\* Tables, so that each lane is looked at once.
Ownership == [p \in Profiles, d \in LeafDealers, r \in LeafReceivers, k \in Kinds |->
                 OwnershipHolds(Offers[p, d, r, k], r)]
Fallback == [p \in Profiles, d \in LeafDealers, r \in LeafReceivers, k \in Kinds |->
                 IF p = "scalar" THEN FallbackHolds(Offers[p, d, r, k], r)
                 ELSE LaneLeafHolds(Offers[p, d, r, k], r)]
Accepts == [p \in Profiles, d \in LeafDealers, r \in LeafReceivers, k \in Kinds |->
                 IF p = "scalar" THEN SignsScalar(d, r, k) ELSE SignsStructural(d, r, k)]
Evaluated == [p \in Profiles, d \in LeafDealers, r \in LeafReceivers, k \in Kinds |->
                 OnPolynomial(p, d, r, Offers[p, d, r, k])]

-----------------------------------------------------------------------------
(* Verifying a leaf: put[r] is the kind of its lane for r, acked the       *)
(* receivers whose ACK it carries, alone the fallback receivers.           *)

\* cvACKStatementModeScalar: the signature is over the evaluation, the digest
\* of all ciphertexts and the ownership proof, of no use for another lane.
AckFits(d, r, put) == lfAsked[d][r] = put[r]

\* apvssVerifyLaneACK: a Schnorr signature over the statement of the lane.
LaneAckFits(d, r, put) == lfAsked[d][r] = put[r]

\* cvNewFaultBoundFromContextScalar; sharingDegree of the structural leaf.
FallbackLimit(p) ==
    IF p = "scalar" THEN Cardinality(LeafReceivers) - SharingDegree(p) - 1 ELSE SharingDegree(p)

\* cvValidateEvidencePartitionScalar.
PartitionHolds(p, alone) == alone \subseteq LeafReceivers /\ Cardinality(alone) <= FallbackLimit(p)

\* cvVerifyReceiverEvaluationsBatchScalar, whatever the weights are.
EvaluationsHold(d, put) == \A r \in LeafReceivers : Evaluated[lfProfile, d, r, put[r]]

\* cvVerifyOwnershipBatchScalar, whatever the weights are.
OwnershipBatch(d, put, acked) == \A r \in acked : Ownership[lfProfile, d, r, put[r]]

\* cvVerifyLeafStatementModeScalar.
ScalarLeafVerifies(d, put, acked, alone) ==
    /\ PartitionHolds(lfProfile, alone)
    /\ EvaluationsHold(d, put)
    /\ acked = LeafReceivers \ alone
    /\ OwnershipBatch(d, put, acked)
    /\ \A r \in acked : AckFits(d, r, put)
    /\ \A r \in alone : Fallback[lfProfile, d, r, put[r]]

\* apvssVerifyPrototypePartition; the ACKs stand without an ownership proof.
StructuralLeafVerifies(d, put, acked, alone) ==
    /\ PartitionHolds(lfProfile, alone)
    /\ Cardinality(acked) + Cardinality(alone) = Cardinality(LeafReceivers)
    /\ acked \cap alone = {}
    /\ \A r \in acked : Evaluated[lfProfile, d, r, put[r]] /\ LaneAckFits(d, r, put)
    /\ \A r \in alone : Evaluated[lfProfile, d, r, put[r]] /\ Fallback[lfProfile, d, r, put[r]]

\* cvVerifyAPVSSModeScalar; apvssVerifyPrototype.
LeafVerifies(d, put, acked, alone) ==
    IF lfProfile = "scalar" THEN ScalarLeafVerifies(d, put, acked, alone)
    ELSE StructuralLeafVerifies(d, put, acked, alone)

-----------------------------------------------------------------------------
(* Actions.                                                                *)

NoLeaf == [r \in LeafReceivers |-> NoKind]

LeafInitFor(p) ==
    /\ lfProfile = p
    /\ lfAsked = [d \in LeafDealers |-> NoLeaf]
    /\ lfSigned = [d \in LeafDealers |-> {}]
    /\ lfLeaf = [d \in LeafDealers |-> NoLeaf]
    /\ lfVerdict = [d \in LeafDealers |-> "none"]
    /\ lfShare = [r \in LeafReceivers |-> Unknown]
    /\ lfOutput = [r \in LeafReceivers |-> Unknown]
    /\ lfKeys = {}

LeafInit == \E p \in Profiles : LeafInitFor(p)

MayMake(d, r) == IF d = 1 THEN {"true"} ELSE LaneKinds[r]

\* A dealer sends a lane to r, which verifies, decrypts and signs it or does
\* not answer.  A corrupt receiver signs whatever it gets.
AskReceiver(d, r, k) ==
    /\ lfVerdict[d] = "none" /\ lfAsked[d][r] = NoKind
    /\ lfAsked' = [lfAsked EXCEPT ![d][r] = k]
    /\ lfSigned' = [lfSigned EXCEPT ![d] =
           IF r \in CorruptReceivers \/ Accepts[lfProfile, d, r, k] THEN @ \cup {r} ELSE @]
    /\ UNCHANGED <<lfProfile, lfLeaf, lfVerdict, lfShare, lfOutput, lfKeys>>

\* The verdict on a leaf.
Judge(d, put, acked, alone) ==
    /\ IF LeafVerifies(d, put, acked, alone)
       THEN /\ lfVerdict' = [lfVerdict EXCEPT ![d] = "accepted"]
            /\ lfLeaf' = [lfLeaf EXCEPT ![d] = put]
       ELSE /\ lfVerdict' = [lfVerdict EXCEPT ![d] = "refused"]
            /\ UNCHANGED lfLeaf
    /\ UNCHANGED <<lfProfile, lfAsked, lfSigned, lfShare, lfOutput, lfKeys>>

TrueLanes == [r \in LeafReceivers |-> "true"]

\* cvBuildLeafMaterialScalarMode: ACKs where there are any, public proofs for
\* the other lanes, of which the partition allows f.
BuildScalarLeaf(d) ==
    /\ lfProfile = "scalar" /\ lfVerdict[d] = "none"
    /\ Cardinality(LeafReceivers \ lfSigned[d]) <= LeafFaults
    /\ Judge(d, TrueLanes, lfSigned[d], LeafReceivers \ lfSigned[d])

\* apvssAssembleVerifiedPrototypeWithFallbackProfile: n - f ACKs at least.
BuildStructuralLeaf(d) ==
    /\ lfProfile = "structural" /\ lfVerdict[d] = "none"
    /\ \A r \in lfSigned[d] : LaneAckFits(d, r, TrueLanes)
    /\ Cardinality(lfSigned[d]) >= Cardinality(LeafReceivers) - SharingDegree("structural")
    /\ Judge(d, TrueLanes, lfSigned[d], LeafReceivers \ lfSigned[d])

Forgeries == {put \in [LeafReceivers -> Kinds] : \A r \in LeafReceivers : put[r] \in LaneKinds[r]}

\* Dealer 2 puts together any lanes and any ACKs it has.
ForgeLeaf(put, alone, acked) ==
    /\ lfVerdict[2] = "none"
    /\ acked \subseteq lfSigned[2]
    /\ Judge(2, put, acked, alone)

\* cvAggVerifiedScalar: componentwise sums of the leaves.
AggregateLane(r) ==
    LET o(d) == Offers[lfProfile, d, r, lfLeaf[d][r]] IN
    [evaluation |-> E!PAdd(o(1).evaluation, o(2).evaluation),
     chunks     |-> [c \in Digits0 |-> [r |-> E!PAdd(o(1).chunks[c].r, o(2).chunks[c].r),
                                        c |-> E!PAdd(o(1).chunks[c].c, o(2).chunks[c].c)]],
     blinding   |-> [r |-> E!PAdd(o(1).blinding.r, o(2).blinding.r),
                     c |-> E!PAdd(o(1).blinding.c, o(2).blinding.c)]]

Aggregated == \A d \in LeafDealers : lfVerdict[d] = "accepted"

\* Mutant: the bound of a single component.
SumBoundOne == LaneBase - 1

\* K(B-1) for K components.
SumBound == Cardinality(LeafDealers) * (LaneBase - 1)

\* cvDecryptAggregateShareMeasuredScalar.
AggregateShare(r) ==
    LET a == AggregateLane(r)
        ds == SolveLane(a, r, SumBound)
        s == DigitInteger(ds) % FieldOrder IN
    IF Solved(ds) /\ E!PAdd(E!PTimes(G1, s), DecryptPoint(a.blinding, r)) = a.evaluation
    THEN s ELSE Unsolved

DecryptAggregate(r) ==
    /\ lfProfile = "scalar" /\ Aggregated /\ lfShare[r] = Unknown
    /\ lfShare' = [lfShare EXCEPT ![r] = AggregateShare(r)]
    /\ UNCHANGED <<lfProfile, lfAsked, lfSigned, lfLeaf, lfVerdict, lfOutput, lfKeys>>

\* cvWeightedAggregateScalarScalar.
WeightedLane(a) ==
    LET w == [c \in Digits0 |-> PowF[LaneBase % FieldOrder, c]] IN
    [r |-> E!PLinear([c \in Digits0 |-> a.chunks[c].r], w, Digits0),
     c |-> E!PLinear([c \in Digits0 |-> a.chunks[c].c], w, Digits0)]

\* cvVerifyAggregateShareModeScalar: the opening, and one key and one scalar
\* that satisfy the four equations of the proof.
OutputVerifies(r, y, yBlind) ==
    LET a == AggregateLane(r) w == WeightedLane(a) IN
    /\ E!PAdd(y, yBlind) = a.evaluation
    /\ \E key, s \in Scalars :
           /\ LaneKey(r) = E!PTimes(G1, key)
           /\ w.c = E!PAdd(E!PTimes(w.r, key), E!PTimes(G1, s))
           /\ y = E!PTimes(G1, s)
           /\ E!PSub(a.blinding.c, yBlind) = E!PTimes(a.blinding.r, key)

\* A receiver publishes G^share with its blinding part; a corrupt one moves an
\* amount from one to the other.
PublishOutput(r, shift) ==
    /\ lfShare[r] >= 0 /\ lfOutput[r] = Unknown
    /\ OutputVerifies(r, E!PTimes(G1, AddF(lfShare[r], shift)),
                      E!PSub(DecryptPoint(AggregateLane(r).blinding, r), E!PTimes(G1, shift)))
    /\ lfOutput' = [lfOutput EXCEPT ![r] = shift]
    /\ UNCHANGED <<lfProfile, lfAsked, lfSigned, lfLeaf, lfVerdict, lfShare, lfKeys>>

\* cvRecoverThresholdPublicKeyModeScalar.
RecoverKey(S) ==
    LET y == [r \in S |-> E!PTimes(G1, AddF(lfShare[r], lfOutput[r]))]
        b == [r \in S |-> E!PSub(AggregateLane(r).evaluation, y[r])]
        w == [r \in S |-> LagrangeCoefficient(S, r, 0)]
        key == E!PLinear(y, w, S)
        constant == E!PAdd(CommitmentsOf("scalar", 1)[1], CommitmentsOf("scalar", 2)[1]) IN
    /\ Cardinality(S) >= SharingDegree("scalar") + 1
    /\ Aggregated /\ \A r \in S : lfOutput[r] # Unknown
    /\ E!PAdd(key, E!PLinear(b, w, S)) = constant /\ key # E!PZero
    /\ lfKeys' = lfKeys \cup {key["G"]}
    /\ UNCHANGED <<lfProfile, lfAsked, lfSigned, lfLeaf, lfVerdict, lfShare, lfOutput>>

LeafNext ==
    \/ \E d \in LeafDealers, r \in LeafReceivers : \E k \in MayMake(d, r) : AskReceiver(d, r, k)
    \/ BuildScalarLeaf(1)
    \/ BuildStructuralLeaf(1)
    \/ \E put \in Forgeries, alone \in SUBSET LeafReceivers :
           \E acked \in {lfSigned[2], lfSigned[2] \ alone} : ForgeLeaf(put, alone, acked)
    \/ \E r \in LeafReceivers : DecryptAggregate(r)
    \/ \E r \in LeafReceivers, shift \in {0, OddShift} :
           (r \in CorruptReceivers \/ shift = 0) /\ PublishOutput(r, shift)
    \/ \E S \in SUBSET LeafReceivers : RecoverKey(S)

LeafSpec == LeafInit /\ [][LeafNext]_leafVars

-----------------------------------------------------------------------------
(* Properties.                                                             *)

\* Types; only lanes that were sent are signed, and no key is found before
\* there are enough outputs for it.
LeafTypeOK ==
    /\ lfProfile \in Profiles
    /\ lfAsked \in [LeafDealers -> [LeafReceivers -> Kinds \cup {NoKind}]]
    /\ lfLeaf \in [LeafDealers -> [LeafReceivers -> Kinds \cup {NoKind}]]
    /\ lfVerdict \in [LeafDealers -> {"none", "accepted", "refused"}]
    /\ lfShare \in [LeafReceivers -> Scalars \cup {Unknown, Unsolved}]
    /\ lfOutput \in [LeafReceivers -> Scalars \cup {Unknown}]
    /\ \A d \in LeafDealers : \A r \in lfSigned[d] : lfAsked[d][r] # NoKind
    /\ Cardinality(lfKeys) > 0 =>
           Cardinality({r \in LeafReceivers : lfOutput[r] # Unknown}) > SharingDegree("scalar")

\* Lanes whose digits are small and denote the dealer's evaluation.
Opening == [p \in Profiles, d \in LeafDealers, r \in LeafReceivers, k \in Kinds |->
                LET ds == SolveLane(Offers[p, d, r, k], r, LaneBase - 1) IN
                Solved(ds) /\ DigitInteger(ds) % FieldOrder = EvalPoly(ScalarPoly(p, d), r)]

\* Whatever a dealer mixes in its leaf (ACKs for other lanes, public proofs
\* for lanes it dares not show), in an accepted leaf the lane of every correct
\* receiver holds small digits that open the committed evaluation.
AcceptedLanesOpen ==
    \A d \in LeafDealers, r \in GoodReceivers :
        lfVerdict[d] = "accepted" =>
            Opening[lfProfile, d, r, lfLeaf[d][r]]

\* Every correct receiver decrypts the aggregate, and to its evaluation of
\* the sum of the polynomials: the sums of digits stay below the solver's
\* bound.
SharesExact ==
    \A r \in GoodReceivers :
        lfShare[r] # Unknown =>
            lfShare[r] = AddF(EvalPoly(ScalarPoly("scalar", 1), r), EvalPoly(ScalarPoly("scalar", 2), r))

\* Any set of verified outputs gives the same threshold key, the one of the
\* dealers' polynomials.
OneThresholdKey ==
    lfKeys \subseteq {AddF(LeafDealing.scalars[1], OddDealing.scalars[1])}

\* A correct dealer's leaf is never refused, whichever f receivers stay
\* silent.
CorrectLeafStands == lfVerdict[1] # "refused"
=============================================================================

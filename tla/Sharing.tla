------------------------------ MODULE Sharing ------------------------------
(***************************************************************************)
(* The algebra of the chunked sharing of src/core/cv_sapvss.go,            *)
(* cv_sapvss_proof.go, cv_sapvss_provider.go and cv_sapvss_threshold.go.   *)
(*                                                                         *)
(* A dealer commits to a polynomial, encrypts every receiver's evaluation  *)
(* digit by digit and proves that the digits are small and add up to what  *)
(* is committed.  Leaves that verify are added, every receiver solves the  *)
(* bounded logarithms of its digits, and t+1 receipts give the public key. *)
(*                                                                         *)
(* Group elements are formal (module Group).  A challenge is a hash of     *)
(* what was sent before it, so a prover passes only if it can answer more  *)
(* than one challenge: Convinces quantifies over challenges and answers.   *)
(***************************************************************************)
EXTENDS Group

CONSTANTS Degree,         \* sharingDegree
          ReceiverCount,  \* len(receiverPublicKeys)
          SecretKeys,     \* secret key of each receiver
          ChunkBits,      \* profile.chunkBits
          Chunks,         \* digits of a scalar
          HonestDealing,  \* [scalars, blindings]: coefficients of dealer 1
          OtherDealing,   \* the same for dealer 2
          SharingCases    \* what dealer 2 alters in its leaf, and by how much
                          \* receiver 1 misstates its share

Base == 2 ^ ChunkBits
Receivers == 1 .. ReceiverCount
ChunkSet == 0 .. Chunks - 1
BitSet == 0 .. ChunkBits - 1
Parties == 1 .. 2
G == PBase("G")

ASSUME SharingAssumption ==
    /\ Base ^ Chunks >= FieldOrder /\ 2 * (Base - 1) < FieldOrder
    /\ ReceiverCount < FieldOrder /\ Degree < ReceiverCount

VARIABLES
    shCase,     \* the case of this behaviour
    shVerdict,  \* what verification said of each leaf
    shShare,    \* decrypted scalar of each receiver
    shReceipts, \* receivers whose receipt has been verified
    shKeys      \* public keys interpolated so far

sharingVars == <<shCase, shVerdict, shShare, shReceipts, shKeys>>

\* No share yet, and no logarithm found.
NotYet == -1
Failed == -2

-----------------------------------------------------------------------------
(* Dealing.                                                                *)

\* cvScalarDigits.
ScalarDigits(s) == [k \in ChunkSet |-> (s \div Base ^ k) % Base]

\* The value that digits stand for, in the field.
DigitValue(ds) == SumF([k \in ChunkSet |-> MulF(ds[k], PowF[Base % FieldOrder, k])], ChunkSet)

PublicKey(i) == PTimes(G, SecretKeys[i])

Coefficients2(d) == IF d = 1 THEN HonestDealing ELSE OtherDealing
Evaluation(d, i) == EvalPoly(Coefficients2(d).scalars, i)
BlindingAt(d, i) == EvalPoly(Coefficients2(d).blindings, i)

\* Digits that a dealer encrypts to a receiver and the bits it commits to.
\* Dealer 2 may replace those of receiver 1.
Digits(d, i) ==
    IF d = 2 /\ i = 1 /\ shCase.digits # <<>> THEN [k \in ChunkSet |-> shCase.digits[k + 1]]
    ELSE ScalarDigits(Evaluation(d, i))

Bit(d, i, k, b) ==
    IF d = 2 /\ i = 1 /\ k = 0 /\ shCase.bits # <<>> THEN shCase.bits[b + 1]
    ELSE (Digits(d, i)[k] \div 2 ^ b) % 2

\* Randomness: any values do, these are distinct enough.
ChunkCoin(k) == 2 + k
BlindingCoin == 3
Nonce(x) == x % FieldOrder

\* cvReferenceDeal with cvEncryptSharesSharedCoins.
Dealing(d) ==
    [commitments |-> [k \in 1 .. Degree + 1 |->
         PCommit(Coefficients2(d).scalars[k], Coefficients2(d).blindings[k])],
     r  |-> [k \in ChunkSet |-> PTimes(G, ChunkCoin(k))],
     c  |-> [i \in Receivers |-> [k \in ChunkSet |->
         PAdd(PTimes(PublicKey(i), ChunkCoin(k)), PTimes(G, Digits(d, i)[k]))]],
     br |-> PTimes(G, BlindingCoin),
     bc |-> [i \in Receivers |->
         PAdd(PTimes(PublicKey(i), BlindingCoin), PTimes(PBase("H"), BlindingAt(d, i)))],
     at |-> [i \in Receivers |->
         LET s == IF d = 2 /\ i = 1 THEN AddF(Evaluation(d, i), shCase.commitment)
                  ELSE Evaluation(d, i) IN
         PCommit(s, BlindingAt(d, i))]]

-----------------------------------------------------------------------------
(* The proofs of a leaf.  Each Verify... takes the challenge e, the first  *)
(* moves are computed the way the prover computes them.                    *)

Weights == [i \in Receivers |-> PowF[2, i - 1]]
ChunkWeights == [k \in ChunkSet |-> PowF[Base % FieldOrder, k]]

\* cvReconstructedCiphertexts and cvBuildSharingProofInstance.
SharingInstance(leaf) ==
    [coin       |-> PLinear(leaf.r, ChunkWeights, ChunkSet),
     commitment |-> PLinear(leaf.at, Weights, Receivers),
     key        |-> PSum([i \in Receivers |-> PTimes(PublicKey(i), Weights[i])], Receivers),
     scalar     |-> PLinear([i \in Receivers |-> PLinear(leaf.c[i], ChunkWeights, ChunkSet)],
                            Weights, Receivers),
     blinding   |-> PLinear(leaf.bc, Weights, Receivers)]

\* First moves of cvProveSharing for the nonces 1, 2, 3 and 4.
SharingFirst(x) ==
    [fScalar   |-> PTimes(G, 3), fBlinding |-> PTimes(G, 4), a |-> PCommit(1, 2),
     yScalar   |-> PAdd(PTimes(x.key, 3), PTimes(G, 1)),
     yBlinding |-> PAdd(PTimes(x.key, 4), PTimes(PBase("H"), 2))]

\* cvVerifySharingPoints: there are answers that pass.
VerifySharing(leaf, e) ==
    LET x == SharingInstance(leaf) f == SharingFirst(x) IN
    \E zCoin \in Scalars :
       /\ PTimes(G, zCoin) = PAdd(f.fScalar, PTimes(x.coin, e))
       /\ \E zBlindingCoin \in Scalars :
            /\ PTimes(G, zBlindingCoin) = PAdd(f.fBlinding, PTimes(leaf.br, e))
            /\ \E zScalar, zBlinding \in Scalars :
                 /\ PCommit(zScalar, zBlinding) = PAdd(f.a, PTimes(x.commitment, e))
                 /\ PAdd(PTimes(x.key, zCoin), PTimes(G, zScalar))
                      = PAdd(f.yScalar, PTimes(x.scalar, e))
                 /\ PAdd(PTimes(x.key, zBlindingCoin), PTimes(PBase("H"), zBlinding))
                      = PAdd(f.yBlinding, PTimes(x.blinding, e))

\* Randomness of a bit commitment, and the commitment.
Rho(i, k, b) == Nonce(i + 2 * k + 3 * b + 1)
BitCommitment(d, i, k, b) == PCommit(Bit(d, i, k, b), Rho(i, k, b))

\* cvProveExactRange: first moves of the two branches.  The branch that is
\* not true is simulated with challenge 2 and answer 5.
BitFirst(d, i, k, b) ==
    LET com == BitCommitment(d, i, k, b)
        real == PTimes(PBase("H"), 4) IN
    IF Bit(d, i, k, b) = 0
    THEN [t0 |-> real,
          t1 |-> PSub(PTimes(PBase("H"), Nonce(5)), PTimes(PSub(com, G), 2))]
    ELSE [t1 |-> real,
          t0 |-> PSub(PTimes(PBase("H"), Nonce(5)), PTimes(com, 2))]

\* The two branches of one bit, as cvVerifyExactRangePoints checks them.
VerifyBit(d, i, k, b, e) ==
    LET com == BitCommitment(d, i, k, b) f == BitFirst(d, i, k, b) IN
    \E e0 \in Scalars :
       /\ \E z0 \in Scalars : PAdd(f.t0, PTimes(com, e0)) = PTimes(PBase("H"), z0)
       /\ \E z1 \in Scalars :
            PAdd(f.t1, PTimes(PSub(com, G), SubF(e, e0))) = PTimes(PBase("H"), z1)

\* cvRangeCommitmentPoint.
RangeCommitment(d, i, k) ==
    PSum([b \in BitSet |-> PTimes(BitCommitment(d, i, k, b), (2 ^ b) % FieldOrder)], BitSet)

\* The link of a digit's ciphertext with its bit commitments.
VerifyLink(leaf, d, i, k, e) ==
    LET tCoin == Nonce(6) tDigit == Nonce(i) tRho == Nonce(k + 2) IN
    \E zCoin \in Scalars :
       /\ PAdd(PTimes(G, tCoin), PTimes(leaf.r[k], e)) = PTimes(G, zCoin)
       /\ \E zDigit, zRho \in Scalars :
            /\ PAdd(PCommit(tDigit, tRho), PTimes(RangeCommitment(d, i, k), e))
                 = PCommit(zDigit, zRho)
            /\ PAdd(PAdd(PTimes(PublicKey(i), tCoin), PTimes(G, tDigit)), PTimes(leaf.c[i][k], e))
                 = PAdd(PTimes(PublicKey(i), zCoin), PTimes(G, zDigit))

VerifyExactRange(leaf, d, e) ==
    /\ \A i \in Receivers, k \in ChunkSet, b \in BitSet : VerifyBit(d, i, k, b, e)
    /\ \A i \in Receivers, k \in ChunkSet : VerifyLink(leaf, d, i, k, e)

\* cvProveChunking and cvVerifyChunkingPoints with two repetitions: a random
\* combination of all digits is opened.  The size of the opened sum is not
\* modelled: it bounds the digits only loosely, the exact range proof
\* decides.
Repetitions == 0 .. 1
ChunkChallenge(i, k, j) == 1 + ((i + k + j) % 2)
ChunkBeta(j) == 2 + j
ChunkSigma(j) == 4 - j
ChunkDelta(i) == 1 + i

ChunkMasks == [j \in Repetitions |->
    PAdd(PTimes(PBase("Y"), ChunkBeta(j)), PTimes(G, ChunkSigma(j)))]

OpenedDigits(d, j) ==
    AddF(ChunkSigma(j),
         SumF([i \in Receivers |->
                 SumF([k \in ChunkSet |-> MulF(ChunkChallenge(i, k, j), Digits(d, i)[k])], ChunkSet)],
              Receivers))

VerifyChunking(leaf, d, e) ==
    LET xs == [j \in Repetitions |-> PowF[e, j]]
        weight(i, k) ==
            SumF([j \in Repetitions |-> MulF(ChunkChallenge(i, k, j), xs[j])], Repetitions)
        y == PAdd(PTimes(PBase("Y"), ChunkDelta(0)),
                  PSum([i \in Receivers |-> PTimes(PublicKey(i), ChunkDelta(i))], Receivers))
        zCoin == [i \in Receivers |-> AddF(ChunkDelta(i),
                    SumF([k \in ChunkSet |-> MulF(ChunkCoin(k), weight(i, k))], ChunkSet))]
        zBeta == AddF(ChunkDelta(0),
                    SumF([j \in Repetitions |-> MulF(ChunkBeta(j), xs[j])], Repetitions))
        opened == SumF([j \in Repetitions |-> MulF(OpenedDigits(d, j), xs[j])], Repetitions)
        masked == [j \in Repetitions |-> PAdd(ChunkMasks[j],
                     PSum([i \in Receivers |->
                             PSum([k \in ChunkSet |-> PTimes(leaf.c[i][k], ChunkChallenge(i, k, j))],
                                  ChunkSet)], Receivers))] IN
    /\ \A i \in Receivers :
         PAdd(PTimes(G, ChunkDelta(i)),
              PSum([k \in ChunkSet |-> PTimes(leaf.r[k], weight(i, k))], ChunkSet))
           = PTimes(G, zCoin[i])
    /\ PAdd(y, PLinear(masked, xs, Repetitions))
         = PAdd(PAdd(PTimes(PBase("Y"), zBeta),
                     PSum([i \in Receivers |-> PTimes(PublicKey(i), zCoin[i])], Receivers)),
                PTimes(G, opened))

\* cvVerifyLeafCanonical, the part that does not depend on a challenge: the
\* commitment of each receiver is the polynomial's at its index.
EvaluateCommitments(coms, i) ==
    PSum([k \in DOMAIN coms |-> PTimes(coms[k], PowF[i, k - 1])], DOMAIN coms)

VerifyEvaluations(leaf) ==
    \A i \in Receivers : leaf.at[i] = EvaluateCommitments(leaf.commitments, i)

\* cvVerifyLeafProof.
VerifyLeafProof(d, e) ==
    LET leaf == Dealing(d) IN
    /\ VerifySharing(leaf, e) /\ VerifyChunking(leaf, d, e) /\ VerifyExactRange(leaf, d, e)

\* A proof that can be completed for two challenges shows its statement.
Convinces(P(_)) == Cardinality({e \in Scalars : P(e)}) > 1

DealingVerifies(d) == VerifyEvaluations(Dealing(d)) /\ Convinces(LAMBDA e : VerifyLeafProof(d, e))

-----------------------------------------------------------------------------
SharingInit ==
    /\ shCase \in SharingCases
    /\ shVerdict = [d \in Parties |-> "unknown"]
    /\ shShare = [i \in Receivers |-> NotYet]
    /\ shReceipts = {} /\ shKeys = {}

VerifyLeaf(d) ==
    /\ shVerdict[d] = "unknown"
    /\ shVerdict' = [shVerdict EXCEPT ![d] = IF DealingVerifies(d) THEN "accepted" ELSE "rejected"]
    /\ UNCHANGED <<shCase, shShare, shReceipts, shKeys>>

Accepted == {d \in Parties : shVerdict[d] = "accepted"}

\* cvAggregateAcceptedLeavesUnfinalized: the sum of the accepted leaves.
Aggregate ==
    [commitments |-> [k \in 1 .. Degree + 1 |->
         PSum([d \in Accepted |-> Dealing(d).commitments[k]], Accepted)],
     r  |-> [k \in ChunkSet |-> PSum([d \in Accepted |-> Dealing(d).r[k]], Accepted)],
     c  |-> [i \in Receivers |-> [k \in ChunkSet |->
         PSum([d \in Accepted |-> Dealing(d).c[i][k]], Accepted)]],
     br |-> PSum([d \in Accepted |-> Dealing(d).br], Accepted),
     bc |-> [i \in Receivers |-> PSum([d \in Accepted |-> Dealing(d).bc[i]], Accepted)]]

\* The width of the solver: the least w with w * w > bound.
SolverWidth(bound) == CHOOSE w \in 0 .. bound + 1 : w * w > bound /\ \A v \in 0 .. w - 1 : v * v <= bound

\* cvBoundedDLogSolver.solve for target G: the baby and giant steps, least
\* giant step first.
Solve(bound, target) ==
    LET w == SolverWidth(bound)
        hits == {<<i, j>> \in (0 .. w) \X (0 .. w - 1) :
                   target = (i * w + j) % FieldOrder /\ i * w + j <= bound} IN
    IF hits = {} THEN Failed
    ELSE LET h == CHOOSE h \in hits : \A g \in hits : h[1] <= g[1] IN h[1] * w + h[2]

\* cvDecryptShare: the logarithm of each digit sum, at most
\* componentCount * (base - 1).
ChunkMessage(agg, i, k) == PSub(agg.c[i][k], PTimes(agg.r[k], SecretKeys[i]))

\* Mutant: the integer is not reduced.
DecryptedInteger(agg, i) ==
    LET bound == Cardinality(Accepted) * (Base - 1)
        found == [k \in ChunkSet |-> Solve(bound, ChunkMessage(agg, i, k)["G"])] IN
    IF \E k \in ChunkSet : found[k] = Failed THEN Failed
    ELSE FoldSet(LAMBDA k, acc : acc + found[k] * Base ^ k, 0, ChunkSet)

Decrypted(agg, i) ==
    LET bound == Cardinality(Accepted) * (Base - 1)
        found == [k \in ChunkSet |-> Solve(bound, ChunkMessage(agg, i, k)["G"])] IN
    IF \E k \in ChunkSet : found[k] = Failed THEN Failed ELSE DigitValue(found)

DecryptShare(i) ==
    /\ \A d \in Parties : shVerdict[d] # "unknown"
    /\ Accepted # {} /\ shShare[i] = NotYet
    /\ shShare' = [shShare EXCEPT ![i] = Decrypted(Aggregate, i)]
    /\ UNCHANGED <<shCase, shVerdict, shReceipts, shKeys>>

\* cvDecShareMode: what a receiver publishes.  Receiver 1 may misstate its
\* share and make up for it in the opening.
PublicScalar(i) == PTimes(G, IF i = 1 THEN AddF(shShare[i], shCase.shift) ELSE shShare[i])
BlindingOpening(agg, i) ==
    LET opening == PSub(agg.bc[i], PTimes(agg.br, SecretKeys[i])) IN
    IF i = 1 THEN PSub(opening, PTimes(G, shCase.shift)) ELSE opening

\* cvVerifyShareMode: equality of logarithms for key, scalar and blinding,
\* and the evaluation commitment.
VerifyReceipt(agg, i, e) ==
    LET nonce == 3
        base == PLinear(agg.r, ChunkWeights, ChunkSet)
        target == PSub(PLinear(agg.c[i], ChunkWeights, ChunkSet), PublicScalar(i))
        blindingTarget == PSub(agg.bc[i], BlindingOpening(agg, i)) IN
    /\ PAdd(PublicScalar(i), BlindingOpening(agg, i)) = EvaluateCommitments(agg.commitments, i)
    /\ \E z \in Scalars :
         /\ PTimes(G, z) = PAdd(PTimes(G, nonce), PTimes(PublicKey(i), e))
         /\ PTimes(base, z) = PAdd(PTimes(base, nonce), PTimes(target, e))
         /\ PTimes(agg.br, z) = PAdd(PTimes(agg.br, nonce), PTimes(blindingTarget, e))

AcceptReceipt(i) ==
    /\ shShare[i] \in Scalars /\ i \notin shReceipts
    /\ Convinces(LAMBDA e : VerifyReceipt(Aggregate, i, e))
    /\ shReceipts' = shReceipts \cup {i}
    /\ UNCHANGED <<shCase, shVerdict, shShare, shKeys>>

\* cvLagrangeCoefficientsAtZero.
LagrangeAtZero(S, i) ==
    LET others == S \ {i} IN
    MulF(ProdF([j \in others |-> j], others),
         InverseTable[ProdF([j \in others |-> SubF(j, i)], others)])

\* cvThresholdPublicKeyFromVerifiedReceipts: interpolation at zero of t+1 or
\* more receipts, refused unless it opens the constant commitment.
DeriveKey(S) ==
    /\ S \subseteq shReceipts /\ Cardinality(S) > Degree
    /\ LET key == PSum([i \in S |-> PTimes(PublicScalar(i), LagrangeAtZero(S, i))], S)
           opening == PSum([i \in S |->
               PTimes(BlindingOpening(Aggregate, i), LagrangeAtZero(S, i))], S) IN
       /\ PAdd(key, opening) = Aggregate.commitments[1]
       /\ key # PZero /\ key \notin shKeys
       /\ shKeys' = shKeys \cup {key}
    /\ UNCHANGED <<shCase, shVerdict, shShare, shReceipts>>

SharingNext ==
    \/ \E d \in Parties : VerifyLeaf(d)
    \/ \E i \in Receivers : DecryptShare(i) \/ AcceptReceipt(i)
    \/ \E S \in SUBSET Receivers : DeriveKey(S)

SharingSpec == SharingInit /\ [][SharingNext]_sharingVars

-----------------------------------------------------------------------------
SharingTypeOK ==
    /\ \A d \in Parties : shVerdict[d] \in {"unknown", "accepted", "rejected"}
    /\ \A i \in Receivers : shShare[i] \in Scalars \cup {NotYet, Failed}
    /\ shReceipts \subseteq {i \in Receivers : shShare[i] \in Scalars} /\ shKeys \subseteq Points

(* The leaf of a dealer that follows the protocol is accepted, and what an *)
(* accepted leaf adds to a receiver's share is what the dealer committed   *)
(* to, in whatever digits it was written: no receiver fails to solve a     *)
(* logarithm because of one dealer's digits.                               *)
AcceptedOpens ==
    /\ shVerdict[1] # "rejected"
    /\ \A i \in Receivers : shShare[i] # NotYet =>
         shShare[i] = SumF([d \in Accepted |-> Evaluation(d, i)], Accepted)

(* A receipt that misstates the share is refused although it opens the     *)
(* commitment, and every t+1 receipts give the one public key.             *)
OneKey ==
    /\ 1 \in shReceipts => shCase.shift = 0
    /\ shKeys \subseteq
         {PTimes(G, SumF([d \in Accepted |-> Coefficients2(d).scalars[1]], Accepted))}

(* The solver finds every logarithm up to the bound of the aggregate, and  *)
(* only those.                                                             *)
SolverExact ==
    LET bound == Cardinality(Accepted) * (Base - 1) IN
    \A t \in Scalars : Solve(bound, t) = IF t <= bound THEN t ELSE Failed
=============================================================================

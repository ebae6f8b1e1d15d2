--------------------------- MODULE CompactProofs ---------------------------
(***************************************************************************)
(* The compact proofs for the lanes whose receivers sent no ACK:           *)
(* src/core/apvss_compact_range.go (an aggregated range proof that ends in *)
(* an inner-product argument), apvss_compact_link.go (digits, ciphertexts  *)
(* and evaluation belong together) and apvss_compact_fallback.go (a        *)
(* comparator that shows the digits to be the canonical ones).             *)
(*                                                                         *)
(* The range proof is run step by step, each challenge being chosen after  *)
(* what it is the hash of.  The prover follows the code on the bits and    *)
(* values of its case, which need not be what they should be.              *)
(***************************************************************************)
EXTENDS Field

CONSTANTS VectorSize,     \* length of the vectors, a power of two
          RangeBases,     \* bases of the range proof: see GBase, HBase
          RangeCases,     \* [bits, values, claimed]
          Challenges,     \* challenges looked at
          Radix,          \* 256, the base of the digits
          DigitCount,     \* digits of a scalar
          ReceiverKey,    \* secret key of the lane's receiver
          LaneCases       \* [profile, scalar, digits, encrypted] of a dealer

VARIABLES
    crCase,     \* the case of this behaviour
    crStage,    \* "commit", "second", "fold", "lane" or "done"
    crCh,       \* challenges y, z, x and w
    crFold,     \* vectors and generators of the argument's current round
    crMoves,    \* its rounds so far: left, right, challenge
    crVerdict,  \* what the verifier says
    crLane      \* the fallback lane of this behaviour

compactVars == <<crCase, crStage, crCh, crFold, crMoves, crVerdict, crLane>>

R == INSTANCE Group WITH Bases <- RangeBases

Index == 1 .. VectorSize
GBase(i) == R!PBase(<<"g", i>>)
HBase(i) == R!PBase(<<"h", i>>)
BasesOf(n) == {<<"G", 0>>, <<"H", 0>>, <<"U", 0>>} \cup ({"g", "h"} \X (1 .. n))
Gen == R!PBase(<<"G", 0>>)
Blind == R!PBase(<<"H", 0>>)

ASSUME CompactAssumption ==
    /\ BasesOf(VectorSize) = RangeBases
    /\ Radix ^ DigitCount >= FieldOrder /\ 3 * Radix - 1 < 2 * FieldOrder

Inverse1(x) == InverseTable[x]
InnerProduct(a, b) == SumF([i \in DOMAIN a |-> MulF(a[i], b[i])], DOMAIN a)
NoCase == [bits |-> 1, values |-> <<>>, claimed |-> <<>>]
NoLane == [profile |-> "none", scalar |-> 0, digits |-> <<>>, encrypted |-> <<>>]
NoFold == [a |-> <<>>, b |-> <<>>, g |-> <<>>, h |-> <<>>]

-----------------------------------------------------------------------------
(* The range proof.                                                        *)

\* apvssCompactRangeDimensions: values are padded to a power of two.
PaddedValues == VectorSize \div crCase.bits
ValueOf(i) == 1 + ((i - 1) \div crCase.bits)
BitOf(i) == (i - 1) % crCase.bits

\* Bits of the witness.  A prover that is not honest claims others.
TrueBit(i) ==
    IF ValueOf(i) > Len(crCase.values) THEN 0
    ELSE (crCase.values[ValueOf(i)] \div 2 ^ BitOf(i)) % 2
AL(i) == IF i \in DOMAIN crCase.claimed THEN crCase.claimed[i] ELSE TrueBit(i)
AR(i) == SubF(AL(i), 1)

\* Randomness: any values do.
SL(i) == i % FieldOrder
SR(i) == (i + 2) % FieldOrder
Alpha == 1
RhoR == 2
Tau1 == 3
Tau2 == 1
ValueBlinding(j) == (2 * j) % FieldOrder

ValueCommitment(j) ==
    R!PAdd(R!PTimes(Gen, crCase.values[j] % FieldOrder), R!PTimes(Blind, ValueBlinding(j)))

CommitA ==
    R!PAdd(R!PSum([i \in Index |-> R!PAdd(R!PTimes(GBase(i), AL(i)), R!PTimes(HBase(i), AR(i)))],
                  Index), R!PTimes(Blind, Alpha))
CommitS ==
    R!PAdd(R!PSum([i \in Index |-> R!PAdd(R!PTimes(GBase(i), SL(i)), R!PTimes(HBase(i), SR(i)))],
                  Index), R!PTimes(Blind, RhoR))

YPower(i) == PowF[crCh.y, i - 1]
ZTwo(i) == MulF(PowF[crCh.z, ValueOf(i) + 1], PowF[2, BitOf(i)])
L0 == [i \in Index |-> SubF(AL(i), crCh.z)]
L1 == [i \in Index |-> SL(i)]
R0 == [i \in Index |-> AddF(MulF(YPower(i), AddF(AR(i), crCh.z)), ZTwo(i))]
R1 == [i \in Index |-> MulF(YPower(i), SR(i))]
T1 == AddF(InnerProduct(L1, R0), InnerProduct(L0, R1))
T2 == InnerProduct(L1, R1)

\* apvssCompactRangeDelta.
Delta ==
    SubF(MulF(SubF(crCh.z, MulF(crCh.z, crCh.z)), SumF([i \in Index |-> YPower(i)], Index)),
         SumF([j \in 1 .. PaddedValues |->
                 MulF(PowF[crCh.z, j + 2], (2 ^ crCase.bits - 1) % FieldOrder)],
              1 .. PaddedValues))

THat == InnerProduct(crFold.a, crFold.b)

\* The opening of the polynomial: tauX and mu.
TauX ==
    AddF(AddF(MulF(Tau2, MulF(crCh.x, crCh.x)), MulF(Tau1, crCh.x)),
         SumF([j \in DOMAIN crCase.values |-> MulF(PowF[crCh.z, j + 1], ValueBlinding(j))],
              DOMAIN crCase.values))

Mu == AddF(MulF(RhoR, crCh.x), Alpha)

\* h'[i] = y^(1-i) h[i], and u' = w u.
HPrime(i) == R!PTimes(HBase(i), Inverse1(YPower(i)))
UPrime == R!PTimes(R!PBase(<<"U", 0>>), crCh.w)

\* The point whose opening the inner-product argument shows.
InnerPoint(tHat) ==
    LET gs == R!PSum([i \in Index |-> R!PTimes(GBase(i), SubF(0, crCh.z))], Index)
        hs == R!PSum([i \in Index |->
                 R!PTimes(HPrime(i), AddF(MulF(crCh.z, YPower(i)), ZTwo(i)))], Index) IN
    R!PAdd(R!PSub(R!PAdd(R!PAdd(R!PAdd(CommitA, R!PTimes(CommitS, crCh.x)), gs), hs),
                  R!PTimes(Blind, Mu)),
           R!PTimes(UPrime, tHat))

CompactInit ==
    /\ \/ crStage = "commit" /\ crCase \in RangeCases /\ crLane = NoLane
       \/ crStage = "lane" /\ crCase = NoCase /\ crLane \in LaneCases
    /\ crCh = [y |-> 0, z |-> 0, x |-> 0, w |-> 0, tHat |-> 0]
    /\ crFold = NoFold /\ crMoves = <<>> /\ crVerdict = "none"

\* First move, answered with y and z.
CommitVectors(y, z) ==
    /\ crStage = "commit"
    /\ crCh' = [crCh EXCEPT !.y = y, !.z = z] /\ crStage' = "second"
    /\ UNCHANGED <<crCase, crFold, crMoves, crVerdict, crLane>>

\* Second move T1 and T2, answered with x; l and r are opened at x.
OpenVectors(x, w) ==
    /\ crStage = "second"
    /\ LET l == [i \in Index |-> AddF(L0[i], MulF(L1[i], x))]
           r == [i \in Index |-> AddF(R0[i], MulF(R1[i], x))] IN
       /\ crFold' = [a |-> l, b |-> r, g |-> [i \in Index |-> GBase(i)],
                     h |-> [i \in Index |-> HPrime(i)]]
       /\ crCh' = [crCh EXCEPT !.x = x, !.w = w, !.tHat = InnerProduct(l, r)]
    /\ crStage' = "fold"
    /\ UNCHANGED <<crCase, crMoves, crVerdict, crLane>>

\* One round of apvssProveCompactInnerProduct.
Fold(x) ==
    /\ crStage = "fold" /\ Len(crFold.a) > 1
    /\ LET half == Len(crFold.a) \div 2
           low == 1 .. half
           inv == Inverse1(x)
           a == crFold.a
           b == crFold.b
           cross(va, ia, vg, ig, vb, ib, vh, ih) ==
             R!PAdd(R!PAdd(R!PSum([i \in low |-> R!PTimes(vg[i + ig], va[i + ia])], low),
                           R!PSum([i \in low |-> R!PTimes(vh[i + ih], vb[i + ib])], low)),
                    R!PTimes(UPrime, SumF([i \in low |-> MulF(va[i + ia], vb[i + ib])], low))) IN
       /\ crMoves' = Append(crMoves,
            [left |-> cross(a, 0, crFold.g, half, b, half, crFold.h, 0),
             right |-> cross(a, half, crFold.g, 0, b, 0, crFold.h, half), x |-> x])
       /\ crFold' =
            [a |-> [i \in low |-> AddF(MulF(x, a[i]), MulF(inv, a[half + i]))],
             b |-> [i \in low |-> AddF(MulF(inv, b[i]), MulF(x, b[half + i]))],
             g |-> [i \in low |-> R!PAdd(R!PTimes(crFold.g[i], inv), R!PTimes(crFold.g[half + i], x))],
             h |-> [i \in low |-> R!PAdd(R!PTimes(crFold.h[i], x), R!PTimes(crFold.h[half + i], inv))]]
    /\ UNCHANGED <<crCase, crStage, crCh, crVerdict, crLane>>

\* The polynomial equation of apvssVerifyCompactRange.
PolynomialHolds ==
    R!PAdd(R!PTimes(Gen, crCh.tHat), R!PTimes(Blind, TauX))
      = R!PAdd(R!PAdd(R!PTimes(Gen, Delta),
                      R!PSum([j \in DOMAIN crCase.values |->
                                R!PTimes(ValueCommitment(j), PowF[crCh.z, j + 1])],
                             DOMAIN crCase.values)),
               R!PAdd(R!PTimes(R!PAdd(R!PTimes(Gen, T1), R!PTimes(Blind, Tau1)), crCh.x),
                      R!PTimes(R!PAdd(R!PTimes(Gen, T2), R!PTimes(Blind, Tau2)),
                               MulF(crCh.x, crCh.x))))

\* Whether generator i lies in the lower half in a round.
LowerHalf(i, round) == ((i - 1) \div (VectorSize \div 2 ^ round)) % 2 = 0

\* The weight of generator i after all rounds.
FoldWeight(i, lower, upper) ==
    ProdF([k \in DOMAIN crMoves |-> IF LowerHalf(i, k) THEN lower[k] ELSE upper[k]],
          DOMAIN crMoves)

\* apvssVerifyCompactInnerProduct: one equation over the first generators.
InnerProductHolds ==
    LET xs == [k \in DOMAIN crMoves |-> crMoves[k].x]
        inv == [k \in DOMAIN crMoves |-> Inverse1(xs[k])]
        a == crFold.a[1]
        b == crFold.b[1]
        moves == R!PSum([k \in DOMAIN crMoves |->
                   R!PAdd(R!PTimes(crMoves[k].left, MulF(xs[k], xs[k])),
                          R!PTimes(crMoves[k].right, MulF(inv[k], inv[k])))], DOMAIN crMoves)
        gs == R!PSum([i \in Index |-> R!PTimes(GBase(i), MulF(FoldWeight(i, inv, xs), a))], Index)
        hs == R!PSum([i \in Index |-> R!PTimes(HPrime(i), MulF(FoldWeight(i, xs, inv), b))], Index) IN
    R!PAdd(InnerPoint(crCh.tHat), moves) = R!PAdd(R!PAdd(gs, hs), R!PTimes(UPrime, MulF(a, b)))

VerifyRange ==
    /\ crStage = "fold" /\ Len(crFold.a) = 1
    /\ crVerdict' = IF PolynomialHolds /\ InnerProductHolds THEN "accepted" ELSE "rejected"
    /\ crStage' = "done"
    /\ UNCHANGED <<crCase, crCh, crFold, crMoves, crLane>>

-----------------------------------------------------------------------------
(* The lane of a receiver that sent no ACK.  Its digits are committed to,  *)
(* encrypted, and linked with the evaluation the dealer committed to.  The *)
(* range proofs of the lane are taken for what RangeExact states.          *)

Q == INSTANCE Group WITH Bases <- {"G", "H"}

Digit == 0 .. DigitCount - 1
CompactLaneKey == Q!PTimes(Q!PBase("G"), ReceiverKey)
RadixPower(i) == PowF[Radix % FieldOrder, i]
DigitSum(ds) == SumF([i \in Digit |-> MulF(ds[i + 1], RadixPower(i))], Digit)

\* Randomness of the lane: any values do.
DigitRho(i) == 1 + i
DigitCoin(i) == 3 + i
EvaluationRho == 2
BlindingNonce == 4

DigitCommitment(i) == Q!PCommit(crLane.digits[i + 1], DigitRho(i))
DigitCipher(i) ==
    [r |-> Q!PTimes(Q!PBase("G"), DigitCoin(i)),
     c |-> Q!PAdd(Q!PTimes(CompactLaneKey, DigitCoin(i)),
                  Q!PTimes(Q!PBase("G"), crLane.encrypted[i + 1]))]

Feldman == crLane.profile = "feldman"
EvaluatedLane == Q!PCommit(crLane.scalar, IF Feldman THEN 0 ELSE EvaluationRho)
BlindingCipher ==
    [r |-> Q!PTimes(Q!PBase("G"), 5),
     c |-> Q!PAdd(Q!PTimes(Q!PBase("H"), EvaluationRho), Q!PTimes(CompactLaneKey, 5))]

\* A digit's masks, of the commitment, the coin and the digit itself.
Mask(i) == [digit |-> 2 + i, rho |-> 1, coin |-> 4]

\* The equation of a digit's commitment, and those of its ciphertext.
CommitmentHolds(i, zDigit, e) ==
    \E zRho \in Scalars :
       Q!PCommit(zDigit, zRho)
         = Q!PAdd(Q!PCommit(Mask(i).digit, Mask(i).rho), Q!PTimes(DigitCommitment(i), e))
CipherHolds(i, zDigit, e) ==
    \E zCoin \in Scalars :
       /\ Q!PTimes(Q!PBase("G"), zCoin)
            = Q!PAdd(Q!PTimes(Q!PBase("G"), Mask(i).coin), Q!PTimes(DigitCipher(i).r, e))
       /\ Q!PAdd(Q!PTimes(Q!PBase("G"), zDigit), Q!PTimes(CompactLaneKey, zCoin))
            = Q!PAdd(Q!PAdd(Q!PTimes(Q!PBase("G"), Mask(i).digit), Q!PTimes(CompactLaneKey, Mask(i).coin)),
                     Q!PTimes(DigitCipher(i).c, e))

\* The blinding ciphertext and the evaluation share the answer zBlinding.
BlindingHolds(zBlinding, e) ==
    \E zCoin \in Scalars :
       /\ Q!PTimes(Q!PBase("G"), zCoin)
            = Q!PAdd(Q!PTimes(Q!PBase("G"), 3), Q!PTimes(BlindingCipher.r, e))
       /\ Q!PAdd(Q!PTimes(Q!PBase("H"), zBlinding), Q!PTimes(CompactLaneKey, zCoin))
            = Q!PAdd(Q!PAdd(Q!PTimes(Q!PBase("H"), BlindingNonce), Q!PTimes(CompactLaneKey, 3)),
                     Q!PTimes(BlindingCipher.c, e))

\* Answers for a digit that pass its equations.
DigitAnswers(i, e) == {z \in Scalars : CommitmentHolds(i, z, e) /\ CipherHolds(i, z, e)}

\* apvssVerifyCompactLinkWithStatement.
LinkHolds(e) ==
    LET answers == [i \in Digit |-> DigitAnswers(i, e)] IN
    \E z \in [Digit -> UNION {answers[i] : i \in Digit}] :
       /\ \A i \in Digit : z[i] \in answers[i]
       /\ \E zBlinding \in Scalars :
            /\ IF Feldman THEN zBlinding = 0 ELSE BlindingHolds(zBlinding, e)
            /\ Q!PCommit(SumF([i \in Digit |-> MulF(z[i], RadixPower(i))], Digit), zBlinding)
                 = Q!PAdd(Q!PCommit(SumF([i \in Digit |-> MulF(Mask(i).digit, RadixPower(i))], Digit),
                                    IF Feldman THEN 0 ELSE BlindingNonce),
                          Q!PTimes(EvaluatedLane, e))

\* apvssCompactModulusDigits and apvssCompactComplementDigits.
ModulusDigit(i) == ((FieldOrder - 1) \div Radix ^ i) % Radix
ComplementDigits(s) == [i \in Digit |-> ((FieldOrder - 1 - s) \div Radix ^ i) % Radix]

\* apvssCompactComparatorBorrows: borrow out of digit i, as a function.
Borrows(ds) ==
    [i \in Digit |->
       LET low == FoldSet(LAMBDA j, acc : acc + ds[j + 1] * Radix ^ j, 0, 0 .. i)
           mod == FoldSet(LAMBDA j, acc : acc + ModulusDigit(j) * Radix ^ j, 0, 0 .. i) IN
       IF low > mod THEN 1 ELSE 0]

\* Mutant: the last borrow is given a term as well.
DigitRelationOpen(complement, borrow, i) ==
    LET into == IF i = 0 THEN 0 ELSE borrow[i - 1] IN
    AddF(SubF(SubF(SubF(ModulusDigit(i), crLane.digits[i + 1]), complement[i]), into),
         MulF(Radix % FieldOrder, borrow[i]))

\* One equation of apvssCompactComparatorAggregate.
DigitRelation(complement, borrow, i) ==
    LET into == IF i = 0 THEN 0 ELSE borrow[i - 1]
        out == IF i = DigitCount - 1 THEN 0 ELSE MulF(Radix % FieldOrder, borrow[i]) IN
    AddF(SubF(SubF(SubF(ModulusDigit(i), crLane.digits[i + 1]), complement[i]), into), out)

\* The relations are added with powers of a challenge; the sum is a multiple
\* of H, which the last proof shows, when it is zero.
ComparatorHolds(complement, borrow) ==
    \A weight \in Scalars \ {0} :
       SumF([i \in Digit |-> MulF(PowF[weight, i], DigitRelation(complement, borrow, i))], Digit) = 0

DigitsInRange(ds) == \A i \in DOMAIN ds : ds[i] < Radix

\* apvssVerifyBatchFallback and apvssVerifyCompactFieldCongruent, by profile.
LaneVerifies(complement, borrow) ==
    /\ DigitsInRange(crLane.digits)
    /\ crLane.profile = "compact" => ComparatorHolds(complement, borrow)
    /\ Cardinality({e \in 1 .. 2 : LinkHolds(e)}) > 1

\* The complement and the borrows are the dealer's, whoever it is.
VerifyLane(complement, borrow) ==
    /\ crStage = "lane" /\ crVerdict = "none"
    /\ crVerdict' = IF LaneVerifies(complement, borrow) THEN "accepted" ELSE "rejected"
    /\ UNCHANGED <<crCase, crStage, crCh, crFold, crMoves, crLane>>

CompactNext ==
    \/ \E y, z \in Challenges : y # z /\ CommitVectors(y, z)
    \/ \E x \in Challenges : OpenVectors(x, CHOOSE w \in Challenges : TRUE)
    \/ \E x \in Challenges : Fold(x)
    \/ VerifyRange
    \/ \E complement \in [Digit -> 0 .. Radix - 1], borrow \in [Digit -> 0 .. 1] :
         crLane.profile = "compact" /\ VerifyLane(complement, borrow)
    \/ crLane.profile # "compact" /\ VerifyLane(<<>>, <<>>)

CompactSpec == CompactInit /\ [][CompactNext]_compactVars

-----------------------------------------------------------------------------
CompactTypeOK ==
    /\ crStage \in {"commit", "second", "fold", "lane", "done"}
    /\ crVerdict \in {"none", "accepted", "rejected"}
    /\ crStage = "fold" => Len(crFold.a) * 2 ^ Len(crMoves) = VectorSize
    /\ crStage \in {"commit", "second"} => crVerdict = "none" /\ crMoves = <<>>

(* The range proof is accepted exactly when every value is below 2^bits    *)
(* and was committed to bit by bit (apvssVerifyCompactRange): padding to a *)
(* power of two changes neither answer.  The challenges looked at are none *)
(* of the few for which a false statement passes by accident.              *)
RangeExact ==
    (crStage = "done") =>
       ((crVerdict = "accepted") <=>
          /\ \A j \in DOMAIN crCase.values : crCase.values[j] < 2 ^ crCase.bits
          /\ \A i \in Index : AL(i) = TrueBit(i))

(* Every round of the inner-product argument keeps the opening of the      *)
(* point it started from, once its two moves are added: what the verifier  *)
(* checks with one equation at the end holds in each round.                *)
FoldKeepsOpening ==
    (crStage = "fold") =>
       LET n == DOMAIN crFold.a
           moves == R!PSum([k \in DOMAIN crMoves |->
                R!PAdd(R!PTimes(crMoves[k].left, PowF[crMoves[k].x, 2]),
                       R!PTimes(crMoves[k].right, PowF[Inverse1(crMoves[k].x), 2]))],
                DOMAIN crMoves) IN
       R!PAdd(InnerPoint(crCh.tHat), moves)
         = R!PAdd(R!PSum([i \in n |-> R!PAdd(R!PTimes(crFold.g[i], crFold.a[i]),
                                             R!PTimes(crFold.h[i], crFold.b[i]))], n),
                  R!PTimes(UPrime, THat))

(* Whatever complement and borrows a dealer comes with, an accepted lane   *)
(* encrypts digits that stand for the scalar committed to, and under the   *)
(* compact profile they are the scalar's own digits: no second writing of  *)
(* the same scalar passes.  A lane of a dealer that follows the code, with *)
(* the complement and borrows it computes, is never refused.               *)
LaneOpens ==
    (crLane # NoLane) =>
       /\ (crVerdict = "accepted") =>
            /\ \A i \in Digit : crLane.encrypted[i + 1] % FieldOrder = crLane.digits[i + 1] % FieldOrder
            /\ DigitsInRange(crLane.digits) /\ DigitSum(crLane.encrypted) = crLane.scalar
            /\ crLane.profile = "compact" =>
                 \A i \in Digit : crLane.digits[i + 1] = (crLane.scalar \div Radix ^ i) % Radix
       /\ (/\ crLane.encrypted = crLane.digits
           /\ \A i \in Digit : crLane.digits[i + 1] = (crLane.scalar \div Radix ^ i) % Radix) =>
            LaneVerifies(ComplementDigits(crLane.scalar), Borrows(crLane.digits))
=============================================================================

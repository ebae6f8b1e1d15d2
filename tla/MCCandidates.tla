---------------------------- MODULE MCCandidates ----------------------------
(***************************************************************************)
(* What a candidate rests on, each part on its own: sharings, compact      *)
(* proofs and the leaves that carry them, in a field of eleven elements.   *)
(* A behaviour is one of one part.                                         *)
(***************************************************************************)
EXTENDS Sharing, CompactProofs, LeafEvidence, TLC

\* Sharing: the polynomials of a correct and of another dealer, and how the
\* other's leaf may be altered: digits out of range or of another share, bits
\* that hide it, a shifted commitment or proof.  Its share for receiver 1 is 0,
\* in the digits 00 or 23.
MCHonest == [scalars |-> <<5, 3>>, blindings |-> <<1, 4>>]
MCOther == [scalars |-> <<6, 5>>, blindings |-> <<6, 2>>]
MCKeys == <<2, 3, 5>>
Altered(ds, bs, x, y) == [digits |-> ds, bits |-> bs, commitment |-> x, shift |-> y]
MCAlterations ==
    {Altered(<<>>, <<>>, 0, 0), Altered(<<>>, <<>>, 0, 2),
     Altered(<<3, 2>>, <<>>, 0, 0), Altered(<<1, 1>>, <<>>, 0, 0),
     Altered(<<7, 1>>, <<>>, 0, 0), Altered(<<7, 1>>, <<3, 2>>, 0, 0),
     Altered(<<1, 0>>, <<>>, 1, 0)}

\* Range proofs of values in and out of range, some with bits that are none.
MCBases == BasesOf(4)
InRange(n, vs, c) == [bits |-> n, values |-> vs, claimed |-> c]
MCRange ==
    {InRange(1, <<1, 0, 1>>, <<>>), InRange(2, <<3, 1>>, <<>>),
     InRange(1, <<2, 0>>, <<>>), InRange(2, <<4, 1>>, 2 :> 2),
     InRange(1, <<2, 1>>, 1 :> 2), InRange(2, <<3>>, 3 :> 1)}

\* Lanes with the digits of the share, of the share plus the order, with digits
\* out of range, of another share, or encrypted otherwise.
Lane(p, s, d, e) == [profile |-> p, scalar |-> s, digits |-> d, encrypted |-> e]
Plain(p, s, d) == Lane(p, s, d, d)
MCLanes ==
    {Plain("compact", s, <<s % 4, s \div 4>>) : s \in {0, 6, 7, 10}}
    \cup {Plain(p, 1, <<0, 3>>) : p \in {"compact", "field", "feldman"}}
    \cup {Plain(p, 9, <<1, 2>>) : p \in {"field", "feldman"}}
    \cup {Plain("compact", 3, <<2, 3>>), Plain("field", 9, <<5, 1>>),
          Plain("feldman", 8, <<1, 2>>), Plain("compact", 8, <<1, 2>>),
          Lane("field", 9, <<1, 2>>, <<2, 2>>)}

\* Leaves: the polynomials of a correct and of another dealer, and what the
\* lane of each receiver may be.
MCLaneKeys == <<2, 3, 5, 7>>
MCDealing == [scalars |-> <<3, 2, 5>>, blindings |-> <<1, 4, 2>>]
MCOdd == [scalars |-> <<6, 1, 3>>, blindings |-> <<2, 2, 7>>]
MCKinds == <<{"true", "wide", "off"}, {"true", "misplaced"}, {"true"}, {"true", "wide"}>>

VARIABLE scenario

allVars == <<scenario, sharingVars, compactVars, leafVars>>

\* A part that is not the scenario stays in one of its initial states.
MCInit ==
    /\ scenario \in {"sharing", "proofs", "leaf"}
    /\ SharingInit /\ CompactInit /\ LeafInit
    /\ scenario # "sharing" => shCase = Altered(<<>>, <<>>, 0, 0)
    /\ scenario # "proofs" => crCase = InRange(2, <<3, 1>>, <<>>)
    /\ scenario # "leaf" => lfProfile = "scalar"

MCNext ==
    /\ UNCHANGED scenario
    /\ \/ scenario = "sharing" /\ SharingNext /\ UNCHANGED <<compactVars, leafVars>>
       \/ scenario = "proofs" /\ CompactNext /\ UNCHANGED <<sharingVars, leafVars>>
       \/ scenario = "leaf" /\ LeafNext /\ UNCHANGED <<sharingVars, compactVars>>

MCSpec == MCInit /\ [][MCNext]_allVars

-----------------------------------------------------------------------------
TypesOK == SharingTypeOK /\ CompactTypeOK /\ LeafTypeOK

\* What the verifiers of a candidate accept is what it claims to be, and they
\* accept what a correct dealer makes: sharings decrypt to evaluations of the
\* committed polynomials, a range proof holds for values in range only and
\* folding keeps its opening, and in an accepted leaf the lane of every correct
\* receiver holds small digits of its share.
EvidenceOpens ==
    /\ AcceptedOpens
    /\ RangeExact /\ FoldKeepsOpening /\ LaneOpens
    /\ AcceptedLanesOpen /\ CorrectLeafStands

\* From whichever verified shares the new committee interpolates, the key is
\* the one of the dealers' polynomials: the solver finds every sum of digits
\* below its bound and every correct receiver decrypts its evaluation.
KeyIsOne == OneKey /\ SolverExact /\ SharesExact /\ OneThresholdKey
=============================================================================

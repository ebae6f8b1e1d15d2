---------------------------- MODULE MCPractical ----------------------------
(***************************************************************************)
(* The stages of a Practical-ADKR run, each on its own: a behaviour is one *)
(* of one stage.  Four members, the fourth faulty, f = 1.                  *)
(***************************************************************************)
EXTENDS DXTDealing, PartialVerify, Recast, PracticalDispersal, CompKeys,
        PracticalCoin

\* The roster, in order.
MCRing == <<1, 2, 3, 4>>

\* No invalid lane, or one of the first dealer's.
MCBadLanes == {{}, {<<1, 2>>}}

\* All correct members have a shard; all are right or one is not.
MCHeld == {{1, 2, 3}}
MCBadShards == {{}, {1}}

\* Whose receipts a dealer gets: enough, or one too few.
MCAnswering == {{1, 2, 4}, {1, 4}}

\* The polynomial of the new key.
MCCoefficients == <<3, 2, 1>>

\* What the stages need to end: a dealer can get n-f receipts, the services of
\* the recast outlive their runs, what is sent to a member of the coin that does
\* not empty its channel leaves room in it, and f+1 give their sends the time.
StagesFit ==
    /\ \E Q \in Answering : EnoughReceipts(Q)
    /\ Grace
    /\ MaxFlood + MaxUnanswered + Cardinality(Correct) - 1 < ChannelCapacity + F + 1
    /\ Cardinality(Correct \ CoinHasty) >= F + 1

ASSUME InstanceFits == StagesFit /\ InterpolationExact

VARIABLE scenario

allVars == <<scenario, dealingVars, partialVars, recastVars, dispersalVars,
             keyVars, practicalCoinVars>>

\* Every component starts; a component that is not the scenario stays where it
\* is, in one of its initial states.
MCInit ==
    /\ scenario \in {"dealing", "verify", "recast", "dispersal", "keys", "coin"}
    /\ DealingInit
    /\ PartialInit
    /\ scenario # "verify" => pvBad = {}
    /\ RecastInit
    /\ scenario # "recast" => rBad = {}
    /\ DispersalInit
    /\ KeysInit
    /\ PracticalCoinInit

MCNext ==
    /\ UNCHANGED scenario
    /\ \/ /\ scenario = "dealing" /\ DealingNext
          /\ UNCHANGED <<partialVars, recastVars, dispersalVars, keyVars,
                         practicalCoinVars>>
       \/ /\ scenario = "verify" /\ PartialNext
          /\ UNCHANGED <<dealingVars, recastVars, dispersalVars, keyVars,
                         practicalCoinVars>>
       \/ /\ scenario = "recast" /\ RecastNext
          /\ UNCHANGED <<dealingVars, partialVars, dispersalVars, keyVars,
                         practicalCoinVars>>
       \/ /\ scenario = "dispersal" /\ DispersalNext
          /\ UNCHANGED <<dealingVars, partialVars, recastVars, keyVars,
                         practicalCoinVars>>
       \/ /\ scenario = "keys" /\ KeysNext
          /\ UNCHANGED <<dealingVars, partialVars, recastVars, dispersalVars,
                         practicalCoinVars>>
       \/ /\ scenario = "coin" /\ PracticalCoinNext
          /\ UNCHANGED <<dealingVars, partialVars, recastVars, dispersalVars,
                         keyVars>>

MCSpec == MCInit /\ [][MCNext]_allVars

-----------------------------------------------------------------------------
TypesOK ==
    /\ DealingTypeOK /\ PartialTypeOK /\ RecastTypeOK
    /\ DispersalTypeOK /\ KeysTypeOK /\ PracticalCoinTypeOK

\* A correct process opens its lane of every transcript of a correct dealer,
\* signatures stand for stored shares, and partial verification passes valid
\* lanes only.
KeysOpen == CorrectDealersOpen /\ SignersStored /\ VerifiedSound

\* Past the agreement all correct processes go on with the same commitments and
\* recover the same transcript, and enough of them keep its shards; who passes
\* the completion barrier has a correct witness, and a coin share that has been
\* answered is not lost in a channel that was full or not yet read.
StagesAgree ==
    SameCommitments /\ DecidedStored /\ RecoveredAgree /\ BarrierWitnessed /\ AnsweredIsHeld

\* No stage stops halfway: where nothing more is bound to happen some correct
\* process has verified, some one is past the agreement, and every one has its
\* transcript, its keys and its coin, unless a deadline or last attempt failed;
\* and the keys are those of one polynomial, whoever has derived them.
StagesEnd ==
    /\ SomeoneVerifies /\ DispersalEnds /\ RecipientsRecover
    /\ KeysArrive /\ KeysAreShared /\ CoinsArrive
=============================================================================

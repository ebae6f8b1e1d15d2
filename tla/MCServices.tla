----------------------------- MODULE MCServices -----------------------------
(***************************************************************************)
(* The services of the old committee that keep something for others, each  *)
(* on its own: dispersal and recovery of a payload, the lock on a dealer's *)
(* component, the acknowledged lanes of a dealing, the materialization of  *)
(* the aggregate, and the decision with its handoff.  Four members, f = 1, *)
(* member 2 faulty.  A behaviour is one of one service.                    *)
(***************************************************************************)
EXTENDS APDB, ComponentLock, LaneAcks, Materialize, Decision, TLC

\* One requester reaches everybody; the other may fail to reach one holder or
\* all of them.
MCUnreachable == 3 :> {{}} @@ 4 :> {{}, {1}, Old}

\* Everybody can be reached, or the faulty receiver or two receivers cannot.
MCLaneUnreachable == {{}, {4}, {3, 4}}

\* The leaves of the correct members are valid.
MCLeafChoices == {{1, 3, 4}}

\* Two correct members are eligible; the faulty one is and shows its
\* certificate to the first; the first is and has seen it.
MCCase(e, s, l) == [eligible |-> e, shown |-> s, lies |-> l]
MCCases == {MCCase({1, 3}, {}, 0), MCCase({2}, {1}, 1), MCCase({1}, {1}, 0)}

\* Members and values of a decision are symmetric: it is member 1 that crashes,
\* and member 3 is given a value other than SecondValue.
CONSTANT SecondValue
DecisionCases ==
    /\ crashes' # crashes => \A i \in {3, 4} : phase'[i] = phase[i]
    /\ value'[3] # SecondValue

VARIABLE scenario

allVars == <<scenario, apdbVars, componentVars, laneVars, materializeVars, vars>>

\* A component that is not the scenario stays in one of its initial states.
MCInit ==
    /\ scenario \in {"apdb", "component", "lanes", "materialize", "decision"}
    /\ APDBInit /\ ComponentInit /\ LaneInit /\ MaterializeInit /\ Init
    /\ scenario # "apdb" => aDealer \in Correct
    /\ scenario # "component" => clDealer \in Correct
    /\ scenario # "lanes" => laneDown = {}
    /\ scenario # "materialize" => mtCase = MCCase({1, 3}, {}, 0)

MCNext ==
    /\ UNCHANGED scenario
    /\ \/ /\ scenario = "apdb" /\ APDBNext
          /\ UNCHANGED <<componentVars, laneVars, materializeVars, vars>>
       \/ /\ scenario = "component" /\ ComponentNext
          /\ UNCHANGED <<apdbVars, laneVars, materializeVars, vars>>
       \/ /\ scenario = "lanes" /\ LaneNext
          /\ UNCHANGED <<apdbVars, componentVars, materializeVars, vars>>
       \/ /\ scenario = "materialize" /\ MaterializeNext
          /\ UNCHANGED <<apdbVars, componentVars, laneVars, vars>>
       \/ /\ scenario = "decision" /\ Next /\ DecisionCases
          /\ UNCHANGED <<apdbVars, componentVars, laneVars, materializeVars>>

MCSpec == MCInit /\ [][MCNext]_allVars

-----------------------------------------------------------------------------
TypesOK == TypeOK /\ APDBTypeOK /\ ComponentTypeOK /\ LaneTypeOK /\ MaterializeTypeOK

\* What a lock or an aggregate's certificate promises is there: enough correct
\* members have their part on disk, everybody recovers the same payload from
\* it, and nobody signs an aggregate other than the pool's first k valid ones.
CertifiedIsKept == LockAvailable /\ RecoveryAgreement /\ CertifiedStored /\ SignedValid

\* A dealer has one component, stored by enough holders, and no caller waits
\* for a retrieval that has ended.  A holder that repeats its signature takes
\* no room in the dealer's channel; a receiver that repeats the acknowledgement
\* of its lane does, one place for each repetition.
DealersKept == OneComponent /\ NoLostCaller /\ AcksNotLost /\ NoneCrowdedOut

\* Where the services come to rest, the locked payload is recovered by who
\* could ask all correct members, lanes are assembled or failed unless too many
\* acknowledgements were crowded out, a certified candidate is offered, and a
\* common decision is final everywhere.
ServicesSettle == LockedRecovered /\ LanesEnd /\ CertifiedIsOffered /\ AllFinalize
=============================================================================

------------------------------ MODULE Committee ------------------------------
(***************************************************************************)
(* The old committee, its faulty members and the thresholds that           *)
(* src/core/cv_sapvss_scalar_params.go derives from their number: the      *)
(* parameters the modules of the network service share.                    *)
(***************************************************************************)
EXTENDS Integers, FiniteSets

CONSTANTS Old,     \* the old committee
          Faulty,  \* members that do not follow the protocol
          F,       \* OldFaults
          None     \* no value

ASSUME CommitteeAssumption ==
    /\ IsFiniteSet(Old) /\ Faulty \subseteq Old /\ F \in Nat
    /\ Cardinality(Faulty) <= F /\ Cardinality(Old) >= 3 * F + 1

Correct == Old \ Faulty

\* Control certificates (pools, decisions): n-f.
ControlThreshold == Cardinality(Old) - F

\* APDB locks.
LockThreshold == 2 * F + 1

\* Coins, recovery of a dispersed payload, contributors of an aggregate.
CoinThreshold == F + 1
RecoveryThreshold == F + 1
ComponentCount == F + 1

\* More than half of the sampled validators.
ValidatorThreshold(sample) == Cardinality(sample) \div 2 + 1
=============================================================================

----------------------------- MODULE MCDispersal -----------------------------
(***************************************************************************)
(* From dispersal to recast in DumboMVBA, four nodes and f = 1: the        *)
(* dispersal and recast of the value of a faulty leader, the agreement to  *)
(* leave dispersal, and the dispersal of a correct leader one of whose     *)
(* peers may stop.  A behaviour is one of one of the three.                *)
(***************************************************************************)
EXTENDS RC

CONSTANT Outcomes   \* which sets of leaders may complete dispersal

ASSUME OutcomesAssumption == Outcomes \subseteq SUBSET Node

VARIABLES scenario,
          done, seenDone, ready, readyFrom, finishSent, quit,
          lServed, lNext, lTimer, lStore, lLock, lStored, lLocked, lLockRoot,
          lDoneRoot, lSigned, lPd, lCrashed

quitVars == <<done, seenDone, ready, readyFrom, finishSent, quit>>
leaderVars == <<lServed, lNext, lTimer, lStore, lLock, lStored, lLocked,
                lLockRoot, lDoneRoot, lSigned, lPd, lCrashed>>

\* The leaders that complete: just enough, all correct or one of them faulty,
\* or one too few.
SomeOutcomes == {Correct, {1, 2} \cup Faulty, {1, 2}}

Q == INSTANCE QuitPD

L == INSTANCE PD WITH
        Faulty <- {}, Leader <- 1, Roots <- {Good}, MaxCrash <- F,
        served <- lServed, next <- lNext, timer <- lTimer, store <- lStore,
        lock <- lLock, stored <- lStored, locked <- lLocked,
        lockRoot <- lLockRoot, doneRoot <- lDoneRoot, signed <- lSigned,
        pd <- lPd, crashed <- lCrashed

MCInit ==
    /\ scenario \in {"recast", "leaving", "leader"}
    /\ Init /\ Q!QuitInit /\ L!PDInit
    /\ scenario # "leaving" => done = Correct

MCNext ==
    /\ UNCHANGED scenario
    /\ \/ scenario = "recast" /\ Next /\ UNCHANGED <<quitVars, leaderVars>>
       \/ scenario = "leaving" /\ Q!QuitNext /\ UNCHANGED <<vars, leaderVars>>
       \/ scenario = "leader" /\ L!PDNext /\ UNCHANGED <<vars, quitVars>>

MCSpec == MCInit /\ [][MCNext]_<<scenario, vars, quitVars, leaderVars>>

\* Bounds of the recast: all nodes have left dispersal before the first one is
\* in RC (the order does not matter to what RC may decode), and the faulty node
\* sends stripes of its second root only, to node 1 only.
QuitFirst ==
    (\E i \in Correct : rc[i] # "before") => \A i \in Correct : pd[i] # "running"
FewStripes == \A i \in Correct : \A x \in shards[i] :
                  x.from \in Faulty => i = 1 /\ x.root # Good
Bounded == QuitFirst /\ FewStripes

-----------------------------------------------------------------------------
TypesOK == RCTypeOK /\ Q!QuitTypeOK /\ L!PDTypeOK

\* Nobody leaves dispersal before n-f leaders have completed it (module QuitPD).
QuitJustified == Q!QuitJustified

\* Where dispersal comes to rest nobody is left behind: all correct nodes have
\* quit if one has, or if n-f leaders completed, although a node reads nothing
\* after its first FINISH; and a correct leader that is neither cancelled nor
\* stopped has broadcast DONE although up to f nodes are silent.
DispersalSettles == Q!QuitTotality /\ Q!QuitReached /\ L!LeaderFinishes
=============================================================================

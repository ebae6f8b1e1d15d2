------------------------------- MODULE QuitPD -------------------------------
(***************************************************************************)
(* How nodes agree to leave dispersal: runQuitPD of                        *)
(* src/experiments/dumbomvba-go/core/mvba_equivalent.go.                   *)
(*                                                                         *)
(* A node that has n-f DONE proofs broadcasts a READY share; f+1 READY     *)
(* shares make a FINISH certificate; a node leaves on its first valid      *)
(* FINISH, after passing it on once.  The call ends there, so a node that  *)
(* has left reads nothing more.  Proofs after the (n-f)-th, and READY      *)
(* shares after FINISH was sent, change nothing and are not read.          *)
(***************************************************************************)
EXTENDS Integers, FiniteSets

CONSTANTS Node, Faulty, F,
          Outcomes     \* which sets of leaders may complete dispersal (module PD)

Correct == Node \ Faulty
ProvenThreshold == Cardinality(Node) - F

ReadyThreshold == F + 1

VARIABLES
    done,        \* leaders whose DONE proof will exist
    seenDone,    \* seenDone: leaders whose proof a node has accepted
    ready,       \* nodes that have broadcast READY
    readyFrom,   \* readyShares: whose READY a node holds
    finishSent,  \* nodes that have broadcast FINISH
    quit         \* nodes that have returned

quitVars == <<done, seenDone, ready, readyFrom, finishSent, quit>>

\* Mutant: f+1 DONE proofs are enough for READY.
OnDoneEarly(i, l) ==
    /\ i \notin quit /\ l \in done \ seenDone[i]
    /\ seenDone' = [seenDone EXCEPT ![i] = @ \cup {l}]
    /\ ready' = IF Cardinality(seenDone'[i]) = ReadyThreshold
                  THEN ready \cup {i} ELSE ready
    /\ UNCHANGED <<done, readyFrom, finishSent, quit>>

OnDone(i, l) ==
    /\ i \notin quit /\ l \in done \ seenDone[i]
    /\ Cardinality(seenDone[i]) < ProvenThreshold
    /\ seenDone' = [seenDone EXCEPT ![i] = @ \cup {l}]
    /\ ready' = IF Cardinality(seenDone'[i]) = ProvenThreshold
                  THEN ready \cup {i} ELSE ready
    /\ UNCHANGED <<done, readyFrom, finishSent, quit>>

OnReady(i, j) ==
    /\ i \notin quit \cup finishSent /\ j \in (ready \cup Faulty) \ readyFrom[i]
    /\ readyFrom' = [readyFrom EXCEPT ![i] = @ \cup {j}]
    /\ finishSent' = IF Cardinality(readyFrom'[i]) >= ReadyThreshold
                       THEN finishSent \cup {i} ELSE finishSent
    /\ UNCHANGED <<done, seenDone, ready, quit>>

\* A valid FINISH, from a correct node or from a faulty one that can make it.
OnFinish(i) ==
    /\ i \notin quit
    /\ \/ finishSent # {}
       \/ Faulty # {} /\ Cardinality(ready \cup Faulty) >= ReadyThreshold
    /\ finishSent' = finishSent \cup {i}
    /\ quit' = quit \cup {i}
    /\ UNCHANGED <<done, seenDone, ready, readyFrom>>

QuitInit ==
    /\ done \in Outcomes
    /\ seenDone = [i \in Correct |-> {}]
    /\ ready = {}
    /\ readyFrom = [i \in Correct |-> {}]
    /\ finishSent = {}
    /\ quit = {}

QuitNext ==
    \E i \in Correct :
          \/ \E l \in Node : OnDone(i, l)
          \/ \E j \in Node : OnReady(i, j)
          \/ OnFinish(i)

QuitSpec == QuitInit /\ [][QuitNext]_quitVars

\* What is bound to happen: a node handles what correct nodes have broadcast.
\* That a faulty node sends anything, or that any leader completes, is not
\* assumed.
QuitProgress ==
    \E i \in Correct :
        \/ \E l \in Correct : OnDone(i, l)
        \/ \E j \in Correct : OnReady(i, j)
        \/ finishSent # {} /\ OnFinish(i)

\* No step of QuitProgress is left: who has not left has handled all that correct
\* nodes have broadcast.
QuitAtRest ==
    \A i \in Correct \ quit :
        /\ Cardinality(seenDone[i]) < ProvenThreshold =>
              done \cap Correct \subseteq seenDone[i]
        /\ ready \subseteq readyFrom[i] \/ i \in finishSent
        /\ finishSent = {}

-----------------------------------------------------------------------------
QuitTypeOK ==
    /\ done \subseteq Node
    /\ seenDone \in [Correct -> SUBSET Node]
    /\ ready \subseteq Correct
    /\ readyFrom \in [Correct -> SUBSET Node]
    /\ finishSent \subseteq Correct /\ quit \subseteq Correct

\* Nobody leaves dispersal before n-f leaders have completed it.
QuitJustified ==
    quit # {} => /\ Cardinality(done) >= ProvenThreshold
                 /\ \E i \in Correct : Cardinality(seenDone[i]) >= ProvenThreshold

\* When one correct node has left, all do, also those that never see n-f DONE
\* proofs and when the first to leave were reached by a faulty node only.
QuitTotality == quit # {} /\ QuitAtRest => quit = Correct

\* n-f leaders that complete are enough for everyone to leave.
QuitReached == Correct \subseteq done /\ QuitAtRest => quit = Correct
=============================================================================

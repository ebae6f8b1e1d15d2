----------------------------- MODULE NodeProofs -----------------------------
(***************************************************************************)
(* What a member of the network guarantees by itself, whatever the others  *)
(* do: the slots of the proposers, the coin, and what the protocols run    *)
(* on: the worker pool of a holder, the transport and the barrier between  *)
(* epochs.  Except for the barrier, which counts markers, no bound on the  *)
(* number of faulty members is needed.                                     *)
(***************************************************************************)
EXTENDS MCRuntime, QuorumLemmas

-----------------------------------------------------------------------------
(* Proposer slots (cv_sapvss_proposer_scalar.go): the argument is local to *)
(* a member and uses only that results and candidates are never taken      *)
(* back.                                                                   *)

\* A slot that has ended with an error has seen the result of its proposer.
EndedOnResult == \A i \in Correct : ended[i] \subseteq Certifiable

\* A correct proposer keeps its own candidate from the moment it is certified.
OwnKept == \A p \in certified : p \in have[p]

\* The inductive invariant.
SlotsInv == /\ TypeOK /\ EndedOnResult /\ OwnKept
            /\ ProposerKeepsCandidate /\ GivesUpOnResultsOnly

\* Nothing is certified or ended before the first slot is launched.
LEMMA SlotsInit == Init => SlotsInv
  BY DEF Init, SlotsInv, TypeOK, EndedOnResult, OwnKept,
         ProposerKeepsCandidate, GivesUpOnResultsOnly

\* The values of all variables stay in their types, whichever step is taken.
LEMMA SlotsTypeStep == TypeOK /\ [Next]_vars => TypeOK'
<1> SUFFICES ASSUME TypeOK, [Next]_vars PROVE TypeOK'
  OBVIOUS
<1> USE DEF TypeOK
<1>1. ASSUME NEW i \in Correct, Start(i) PROVE TypeOK'
  BY <1>1 DEF Start
<1>2. ASSUME NEW i \in Correct, LaunchBackups(i) PROVE TypeOK'
  BY <1>2 DEF LaunchBackups
<1>3. ASSUME NEW p \in Sample \cap Correct, Certify(p) PROVE TypeOK'
  BY <1>3 DEF Certify
<1>4. ASSUME NEW i \in Correct, NEW p \in Sample, NEW j \in Old, Send(j, i, p)
      PROVE TypeOK'
  BY <1>4 DEF Send, Correct
<1>5. ASSUME NEW p \in Sample \cap Correct, StopFanout(p) PROVE TypeOK'
  BY <1>5 DEF StopFanout
<1>6. ASSUME NEW i \in Correct, NEW p \in Sample, Accept(i, p) PROVE TypeOK'
  BY <1>6 DEF Accept
<1>7. ASSUME NEW i \in Correct, NEW p \in Sample, Drop(i, p) PROVE TypeOK'
  BY <1>7 DEF Drop
<1>8. ASSUME NEW i \in Correct, NEW p \in Sample, SlotEnds(i, p) PROVE TypeOK'
  BY <1>8 DEF SlotEnds
<1>9. ASSUME NEW i \in Correct, ReturnCandidate(i) PROVE TypeOK'
  BY <1>9 DEF ReturnCandidate
<1>10. ASSUME NEW i \in Correct, GiveUp(i) PROVE TypeOK'
  BY <1>10 DEF GiveUp
<1>11. CASE UNCHANGED vars
  BY <1>11 DEF vars
<1> QED
  BY <1>1, <1>2, <1>3, <1>4, <1>5, <1>6, <1>7, <1>8, <1>9, <1>10, <1>11
     DEF Next

\* Every step preserves the invariant.  Certify is the only step that adds an
\* obligation to OwnKept, SlotEnds the only one that adds one to EndedOnResult,
\* and GiveUp the only one by which a member comes to fail.
LEMMA SlotsStep == SlotsInv /\ [Next]_vars => SlotsInv'
<1> SUFFICES ASSUME SlotsInv, [Next]_vars PROVE SlotsInv'
  OBVIOUS
<1>0. TypeOK /\ TypeOK'
  BY SlotsTypeStep DEF SlotsInv
<1> DEFINE Safe == EndedOnResult /\ OwnKept /\ ProposerKeepsCandidate
                     /\ GivesUpOnResultsOnly
<1> USE <1>0 DEF SlotsInv, TypeOK, EndedOnResult, OwnKept, Certifiable,
                 ProposerKeepsCandidate, GivesUpOnResultsOnly
<1>1. ASSUME NEW i \in Correct, Start(i) PROVE Safe'
  BY <1>1 DEF Start
<1>2. ASSUME NEW i \in Correct, LaunchBackups(i) PROVE Safe'
  BY <1>2 DEF LaunchBackups
<1>3. ASSUME NEW p \in Sample \cap Correct, Certify(p) PROVE Safe'
  BY <1>3 DEF Certify
<1>4. ASSUME NEW i \in Correct, NEW p \in Sample, NEW j \in Old, Send(j, i, p)
      PROVE Safe'
  BY <1>4 DEF Send
<1>5. ASSUME NEW p \in Sample \cap Correct, StopFanout(p) PROVE Safe'
  BY <1>5 DEF StopFanout
<1>6. ASSUME NEW i \in Correct, NEW p \in Sample, Accept(i, p) PROVE Safe'
  BY <1>6 DEF Accept
<1>7. ASSUME NEW i \in Correct, NEW p \in Sample, Drop(i, p) PROVE Safe'
  BY <1>7 DEF Drop
<1>8. ASSUME NEW i \in Correct, NEW p \in Sample, SlotEnds(i, p) PROVE Safe'
  BY <1>8 DEF SlotEnds
<1>9. ASSUME NEW i \in Correct, ReturnCandidate(i) PROVE Safe'
  BY <1>9 DEF ReturnCandidate
<1>10. ASSUME NEW i \in Correct, GiveUp(i) PROVE Safe'
  BY <1>10 DEF GiveUp
<1>11. CASE UNCHANGED vars
  BY <1>11 DEF vars
<1>12. Safe'
  BY <1>1, <1>2, <1>3, <1>4, <1>5, <1>6, <1>7, <1>8, <1>9, <1>10, <1>11
     DEF Next
<1> QED
  BY <1>0, <1>12

\* In every execution the invariant holds.
THEOREM SlotsInvariant == Spec => []SlotsInv
  BY SlotsInit, SlotsStep, PTL DEF Spec

\* cvRunSampledProposerSlotsScalar looks at its channel once more before it
\* reports that all slots have failed: a proposer with a candidate of its own
\* never does.
THEOREM ProposerKeepsCandidateCorrect == Spec => []ProposerKeepsCandidate
<1>1. SlotsInv => ProposerKeepsCandidate
  BY DEF SlotsInv
<1> QED
  BY <1>1, SlotsInvariant, PTL

\* A member gives up only with the results of all sampled proposers, however
\* many of them and of the other members are faulty.
THEOREM GivesUpOnResultsOnlyCorrect == Spec => []GivesUpOnResultsOnly
<1>1. SlotsInv => GivesUpOnResultsOnly
  BY DEF SlotsInv
<1> QED
  BY <1>1, SlotsInvariant, PTL

\* What a correct member has acknowledged is in its queue until it is verified
\* or dropped for want of the eligibility sample.
AcknowledgedKept ==
    \A x \in sent : x[3] \in queue[x[2]] \/ run[x[2]] = "failed" \/ <<x[2], x[3]>> \in dropped

\* An acknowledgement is forgotten when the candidate is accepted, and a queue is
\* given up only with its member.
LEMMA AcknowledgedStep == TypeOK /\ AcknowledgedKept /\ [Next]_vars => AcknowledgedKept'
<1> SUFFICES ASSUME TypeOK, AcknowledgedKept, [Next]_vars PROVE AcknowledgedKept'
  OBVIOUS
<1> USE DEF TypeOK, AcknowledgedKept
<1>1. ASSUME NEW i \in Correct, Start(i) PROVE AcknowledgedKept'
  BY <1>1 DEF Start
<1>2. ASSUME NEW i \in Correct, LaunchBackups(i) PROVE AcknowledgedKept'
  BY <1>2 DEF LaunchBackups
<1>3. ASSUME NEW p \in Sample \cap Correct, Certify(p) \/ StopFanout(p) PROVE AcknowledgedKept'
  BY <1>3 DEF Certify, StopFanout
<1>4. ASSUME NEW i \in Correct, NEW p \in Sample, NEW j \in Old, Send(j, i, p)
      PROVE AcknowledgedKept'
  <2>1. \A x \in sent' : x \in sent \/ (x[2] = i /\ x[3] = p)
    BY <1>4 DEF Send
  <2>2. \A k \in Correct : queue[k] \subseteq queue'[k]
    BY <1>4 DEF Send
  <2>3. p \in queue'[i] /\ run' = run /\ dropped' = dropped
    BY <1>4 DEF Send
  <2>4. \A x \in sent : x[2] \in Correct
    OBVIOUS
  <2> QED
    BY <2>1, <2>2, <2>3, <2>4
<1>5. ASSUME NEW i \in Correct, NEW p \in Sample, Accept(i, p) PROVE AcknowledgedKept'
  BY <1>5 DEF Accept
<1>6. ASSUME NEW i \in Correct, NEW p \in Sample, Drop(i, p) PROVE AcknowledgedKept'
  BY <1>6 DEF Drop
<1>7. ASSUME NEW i \in Correct, NEW p \in Sample, SlotEnds(i, p) PROVE AcknowledgedKept'
  BY <1>7 DEF SlotEnds
<1>8. ASSUME NEW i \in Correct, ReturnCandidate(i) \/ GiveUp(i) PROVE AcknowledgedKept'
  <2>1. \A x \in sent : x[2] \in Correct
    OBVIOUS
  <2>2. \A k \in Correct : run[k] = "failed" => run'[k] = "failed"
    BY <1>8 DEF ReturnCandidate, GiveUp
  <2>3. \A k \in Correct : queue'[k] = queue[k] \/ run'[k] = "failed"
    BY <1>8 DEF ReturnCandidate, GiveUp
  <2> QED
    BY <1>8, <2>1, <2>2, <2>3 DEF ReturnCandidate, GiveUp
<1>9. CASE UNCHANGED vars
  BY <1>9 DEF vars
<1> QED
  BY <1>1, <1>2, <1>3, <1>4, <1>5, <1>6, <1>7, <1>8, <1>9 DEF Next

\* Where the candidates have come to rest, a correct member other than the
\* proposer has sent what it accepted to everybody: who lacks it has dropped it.
LEMMA Spreads == TypeOK /\ AcknowledgedKept => CandidateSpreads
<1> SUFFICES ASSUME TypeOK, AcknowledgedKept, SlotsAtRest,
                    NEW p \in Sample, NEW j \in Correct \ {p}, p \in have[j],
                    NEW i \in Correct
             PROVE  Reached(i, p)
  BY DEF CandidateSpreads
<1>1. queue[i] = {}
  BY DEF SlotsAtRest
<1>2. CASE i = j
  BY <1>2 DEF Reached
<1>3. CASE i # j
  <2>1. Sends(j, p)
    BY DEF Sends, Correct
  <2>2. run[i] = "failed" \/ p \in have[i] \/ <<j, i, p>> \in sent
    BY <1>3, <2>1 DEF SlotsAtRest
  <2> QED
    BY <1>1, <2>2 DEF AcknowledgedKept, Reached
<1> QED
  BY <1>2, <1>3

-----------------------------------------------------------------------------
(* The coin (runCoin, cv_sapvss_apdb_network_scalar.go). *)

\* Who is sent or answered a share, and by whom, has entered.
SendersEntered ==
    /\ \A x \in wire : x[1] \in entered
    /\ \A x \in replied : x[1] \in entered /\ x[2] \in entered

\* Of two members that have entered, the one that still collects has the share of
\* the other, or it is under way, or the other has yet to answer its own.
SharesComing ==
    \A i, j \in entered :
        \/ i \in output
        \/ i = j /\ i \in shares[i]
        \/ i # j /\ (\/ j \in shares[i] \/ <<j, i>> \in wire
                     \/ <<i, j>> \in wire /\ <<j, i>> \notin replied)

CoinInv == C!CoinTypeOK /\ SendersEntered /\ SharesComing

LEMMA CoinInitInv == C!CoinInit => CoinInv
BY CoinAssumption DEF C!CoinInit, C!Correct, CoinInv, C!CoinTypeOK, SendersEntered, SharesComing

LEMMA CoinTypeStep == C!CoinTypeOK /\ [C!CoinNext]_coinVars => C!CoinTypeOK'
<1> SUFFICES ASSUME C!CoinTypeOK, [C!CoinNext]_coinVars PROVE C!CoinTypeOK'
  OBVIOUS
<1> USE CoinAssumption DEF C!CoinTypeOK
<1>1. ASSUME NEW i \in C!Correct, C!Enter(i) PROVE C!CoinTypeOK'
  BY <1>1 DEF C!Enter, C!ShareTo, C!Correct
<1>2. ASSUME NEW i \in C!Correct, C!Retry(i) PROVE C!CoinTypeOK'
  BY <1>2 DEF C!Retry, C!ShareTo, C!Correct
<1>3. ASSUME NEW i \in C!Correct, C!RecoverCoin(i) PROVE C!CoinTypeOK'
  BY <1>3 DEF C!RecoverCoin, C!Collecting
<1>4. ASSUME NEW i \in C!Correct, NEW j \in C!Correct, C!OnCoinShare(i, j) PROVE C!CoinTypeOK'
  BY <1>4 DEF C!OnCoinShare, C!Correct
<1>5. ASSUME NEW i \in C!Correct, NEW j \in CoinFaulty, C!OnFaultyShare(i, j) PROVE C!CoinTypeOK'
  BY <1>5 DEF C!OnFaultyShare
<1>6. CASE UNCHANGED coinVars
  BY <1>6 DEF coinVars
<1> QED
  BY <1>1, <1>2, <1>3, <1>4, <1>5, <1>6 DEF C!CoinNext

\* A share that is lost, because its receiver had not entered, is made up for by
\* the answer to the one the receiver sends on entering.
LEMMA CoinStepInv == CoinInv /\ [C!CoinNext]_coinVars => CoinInv'
<1> SUFFICES ASSUME CoinInv, [C!CoinNext]_coinVars PROVE CoinInv'
  OBVIOUS
<1>0. C!CoinTypeOK /\ C!CoinTypeOK'
  BY CoinTypeStep DEF CoinInv
<1> DEFINE Coming == SendersEntered /\ SharesComing
<1> USE <1>0 DEF CoinInv, C!CoinTypeOK, SendersEntered, SharesComing
<1>1. ASSUME NEW i \in C!Correct, C!Enter(i) PROVE Coming'
  BY <1>1 DEF C!Enter, C!ShareTo, C!Correct
<1>2. ASSUME NEW i \in C!Correct, C!Retry(i) PROVE Coming'
  BY <1>2 DEF C!Retry, C!ShareTo, C!Collecting
<1>3. ASSUME NEW i \in C!Correct, C!RecoverCoin(i) PROVE Coming'
  BY <1>3 DEF C!RecoverCoin
<1>4. ASSUME NEW i \in C!Correct, NEW j \in C!Correct, C!OnCoinShare(i, j) PROVE Coming'
  BY <1>4 DEF C!OnCoinShare, C!Answers, C!Collecting
<1>5. ASSUME NEW i \in C!Correct, NEW j \in CoinFaulty, C!OnFaultyShare(i, j) PROVE Coming'
  BY <1>5 DEF C!OnFaultyShare
<1>6. CASE UNCHANGED coinVars
  BY <1>6 DEF coinVars
<1>7. Coming'
  BY <1>1, <1>2, <1>3, <1>4, <1>5, <1>6 DEF C!CoinNext
<1> QED
  BY <1>0, <1>7

\* The instance counts as everybody does.
LEMMA CoinCounts == \A S : C!Cardinality(S) = Cardinality(S)
BY DEF C!Cardinality, Cardinality

\* With nothing under way, who still collects has the shares of all that entered.
LEMMA CoinSettles == CoinInv => C!CoinReached
<1> SUFFICES ASSUME CoinInv, Cardinality(entered) >= C!CoinThreshold, C!CoinAtRest
             PROVE  output = entered
  BY CoinCounts DEF C!CoinReached
<1> SUFFICES ASSUME NEW i \in entered, i \notin output
             PROVE  FALSE
  BY DEF CoinInv, C!CoinTypeOK
<1>1. entered \subseteq C!Correct /\ shares[i] \subseteq CoinOld /\ i \in C!Correct
  BY DEF CoinInv, C!CoinTypeOK
<1>2. \A j \in entered : <<j, i>> \notin wire /\ <<i, j>> \notin wire
  BY <1>1 DEF C!CoinAtRest
<1>3. entered \subseteq shares[i]
  BY <1>2 DEF CoinInv, SharesComing
<1>4. IsFiniteSet(shares[i])
  BY <1>1, CoinAssumption, FS_Subset
<1>5. /\ Cardinality(entered) \in Nat /\ Cardinality(shares[i]) \in Nat
      /\ Cardinality(entered) <= Cardinality(shares[i])
  BY <1>3, <1>4, FS_Subset, FS_CardinalityType
<1>6. C!CoinThreshold \in Nat
  BY CoinAssumption DEF C!CoinThreshold
<1>7. Cardinality(shares[i]) >= C!CoinThreshold
  BY <1>5, <1>6
<1>8. C!Collecting(i)
  BY DEF C!Collecting
<1> QED
  BY <1>1, <1>7, <1>8, CoinCounts DEF C!CoinAtRest

-----------------------------------------------------------------------------
(* The barrier between epochs (epoch_barrier.go). *)

\* Markers that process p has read and that say what p says.
Counted(p) == {q \in Procs \ bUnread[p] : bMarks[bEpoch[p]][q] = bDigest[p]}

\* Processes with a marker of an epoch for a digest.
Marked(e, d) == {q \in Procs : bMarks[e][q] = d}

\* The count of a scan is of markers that are there, markers are written once,
\* and a barrier is passed with a quorum of them.
BarrierInv ==
    /\ BarrierTypeOK
    /\ bPassed \in [1 .. MaxEpoch -> [Procs -> Digests \cup {NoMark}]]
    /\ \A p \in Procs : /\ bReady[p] <= Cardinality(Counted(p))
                        /\ bAt[p] \notin {"scan", "failed"} => bReady[p] = 0
                        /\ bDigest[p] = NoMark => bReady[p] = 0 /\ bAt[p] \notin {"mark", "scan"}
    /\ \A e \in 1 .. MaxEpoch, p \in Procs :
          bPassed[e][p] # NoMark => Cardinality(Marked(e, bPassed[e][p])) >= Required

\* Counting processes.
LEMMA ProcFacts ==
    /\ Required \in Int /\ 2 * Required > Cardinality(Procs) /\ Cardinality(Procs) \in Nat
    /\ \A S : S \subseteq Procs => IsFiniteSet(S) /\ Cardinality(S) \in Nat
                                   /\ Cardinality(S) <= Cardinality(Procs)
<1>1. Cardinality(Procs) \in Nat
  BY BarrierAssumption, FS_CardinalityType
<1>2. Required \in Int /\ 2 * Required > Cardinality(Procs)
  BY <1>1, BarrierAssumption DEF Required
<1> QED
  BY <1>1, <1>2, BarrierAssumption, SubsetCount

\* Nobody has counted or passed anything at first.
LEMMA BarrierInitInv == BarrierInit => BarrierInv
<1> SUFFICES ASSUME BarrierInit PROVE BarrierInv
  OBVIOUS
<1>1. \A p \in Procs : Cardinality(Counted(p)) \in Nat
  BY ProcFacts DEF Counted
<1> QED
  BY <1>1, ProcFacts, BarrierAssumption DEF BarrierInit, BarrierInv, BarrierTypeOK

\* More has been counted if more markers can have been.
LEMMA CountsStay ==
    ASSUME NEW p, Counted(p) \subseteq Counted(p)'
    PROVE  Cardinality(Counted(p)) <= Cardinality(Counted(p)')
BY ProcFacts, SubsetCount DEF Counted

\* A step that neither writes a marker nor counts one.
LEMMA BarrierPhaseInv ==
    ASSUME BarrierInv, BarrierTypeOK', UNCHANGED <<bMarks, bPassed>>, NEW p \in Procs,
           \A q \in Procs \ {p} : /\ bReady'[q] = bReady[q] /\ bAt'[q] = bAt[q]
                                  /\ Counted(q)' = Counted(q),
           \A q \in Procs : bDigest'[q] = NoMark =>
              bDigest[q] = NoMark /\ bAt'[q] \notin {"mark", "scan"},
           \/ bReady'[p] = 0
           \/ bReady'[p] = bReady[p] /\ Counted(p)' = Counted(p) /\ bAt'[p] = "failed"
    PROVE  BarrierInv'
<1>1. \A q \in Procs : Cardinality(Counted(q)') \in Nat
  BY ProcFacts DEF Counted
<1>2. \A q \in Procs : /\ bReady'[q] <= Cardinality(Counted(q)')
                       /\ bAt'[q] \notin {"scan", "failed"} => bReady'[q] = 0
  BY <1>1 DEF BarrierInv
<1> QED
  BY <1>2 DEF BarrierInv, Marked

\* One entry of a table of epochs and processes is set.
LEMMA EntrySet ==
    ASSUME NEW E, NEW P, NEW V, NEW t \in [E -> [P -> V]], NEW n \in E, NEW p \in P,
           NEW v \in V, NEW u, u = [t EXCEPT ![n][p] = v]
    PROVE  /\ u \in [E -> [P -> V]]
           /\ \A e \in E, q \in P : u[e][q] = IF e = n /\ q = p THEN v ELSE t[e][q]
OBVIOUS

\* A marker file is written once: only its first writing changes it.
LEMMA WriteMarkerInv ==
    ASSUME BarrierInv, NEW p \in Procs, WriteMarker(p) PROVE BarrierInv'
<1> DEFINE n == bEpoch[p]
<1>a. /\ n \in 1 .. MaxEpoch /\ bDigest[p] \in Digests
      /\ UNCHANGED <<bEpoch, bListening, bDigest, bReady, bPassed>>
      /\ \A q \in Procs \ {p} : bUnread'[q] = bUnread[q] /\ bAt'[q] = bAt[q]
      /\ \/ /\ bMarks[n][p] \in {NoMark, bDigest[p]}
            /\ bMarks' = [bMarks EXCEPT ![n][p] = bDigest[p]]
         \/ bMarks' = bMarks
  BY DEF WriteMarker, Mark, BarrierInv, BarrierTypeOK
<1>b. \/ /\ bMarks' \in [1 .. MaxEpoch -> [Procs -> Digests \cup {NoMark}]]
         /\ bMarks[n][p] \in {NoMark, bDigest[p]}
         /\ \A e \in 1 .. MaxEpoch, q \in Procs :
               bMarks'[e][q] = IF e = n /\ q = p THEN bDigest[p] ELSE bMarks[e][q]
      \/ bMarks' = bMarks
  <2> DEFINE E == 1 .. MaxEpoch
             V == Digests \cup {NoMark}
  <2>1. bMarks \in [E -> [Procs -> V]] /\ n \in E /\ bDigest[p] \in V
    BY <1>a DEF BarrierInv, BarrierTypeOK
  <2>2. CASE /\ bMarks[n][p] \in {NoMark, bDigest[p]}
             /\ bMarks' = [bMarks EXCEPT ![n][p] = bDigest[p]]
    <3> HIDE DEF E, V, n
    <3>1. /\ bMarks' \in [E -> [Procs -> V]]
          /\ \A e \in E, q \in Procs :
                bMarks'[e][q] = IF e = n /\ q = p THEN bDigest[p] ELSE bMarks[e][q]
      BY <2>1, <2>2, EntrySet
    <3> QED
      BY <2>2, <3>1 DEF E, V
  <2> QED
    BY <1>a, <2>2
<1>0. BarrierTypeOK'
  <2>1. bMarks' \in [1 .. MaxEpoch -> [Procs -> Digests \cup {NoMark}]]
    BY <1>b DEF BarrierInv, BarrierTypeOK
  <2>2. /\ bAt' \in [Procs -> {"listen", "wait", "run", "mark", "scan", "done", "failed"}]
        /\ bUnread' \in [Procs -> SUBSET Procs]
    BY ZenonT(40) DEF WriteMarker, BarrierInv, BarrierTypeOK
  <2> QED
    BY <1>a, <2>1, <2>2 DEF BarrierInv, BarrierTypeOK
<1>1. bReady[p] = 0 /\ UNCHANGED <<bReady, bPassed>>
  BY DEF WriteMarker, BarrierInv
<1>2. ASSUME NEW e \in 1 .. MaxEpoch, NEW q \in Procs, bMarks[e][q] # NoMark
      PROVE  bMarks'[e][q] = bMarks[e][q]
  BY <1>2, <1>b
<1>3. ASSUME NEW q \in Procs, q # p PROVE bReady'[q] <= Cardinality(Counted(q)')
  <2>1. CASE bDigest[q] # NoMark
    <3>1. Counted(q) \subseteq Counted(q)'
      BY <1>2, <1>3, <1>a, <2>1 DEF Counted, BarrierInv, BarrierTypeOK
    <3>2. /\ Cardinality(Counted(q)) <= Cardinality(Counted(q)')
          /\ Cardinality(Counted(q)) \in Nat /\ Cardinality(Counted(q)') \in Nat
      BY <3>1, CountsStay, ProcFacts DEF Counted
    <3> QED
      BY <1>1, <3>2, ProcFacts DEF BarrierInv, BarrierTypeOK
  <2>2. CASE bReady[q] = 0
    <3>1. Cardinality(Counted(q)') \in Nat
      BY ProcFacts DEF Counted
    <3> QED
      BY <1>1, <2>2, <3>1
  <2> QED
    BY <2>1, <2>2 DEF BarrierInv
<1>4. bReady'[p] <= Cardinality(Counted(p)')
  <2>1. Cardinality(Counted(p)') \in Nat
    BY ProcFacts DEF Counted
  <2> QED
    BY <1>1, <2>1
<1>5. \A q \in Procs :
         /\ bAt'[q] \notin {"scan", "failed"} => bReady'[q] = 0
         /\ bDigest'[q] = NoMark => bReady'[q] = 0 /\ bAt'[q] \notin {"mark", "scan"}
  <2>1. bDigest[p] # NoMark
    BY <1>a, BarrierAssumption
  <2> QED
    BY <1>1, <1>a, <2>1 DEF BarrierInv
<1>6. ASSUME NEW e \in 1 .. MaxEpoch, NEW q \in Procs, bPassed[e][q] # NoMark
      PROVE  Cardinality(Marked(e, bPassed[e][q])') >= Required
  <2> DEFINE d == bPassed[e][q]
  <2>1. Marked(e, d) \subseteq Marked(e, d)' /\ Marked(e, d)' \subseteq Procs
    BY <1>1, <1>2, <1>6 DEF Marked
  <2>2. /\ Cardinality(Marked(e, d)) <= Cardinality(Marked(e, d)')
        /\ Cardinality(Marked(e, d)) \in Nat /\ Cardinality(Marked(e, d)') \in Nat
    BY <2>1, ProcFacts, SubsetCount
  <2>3. Cardinality(Marked(e, d)) >= Required
    BY <1>6 DEF BarrierInv
  <2> QED
    BY <2>2, <2>3, ProcFacts
<1> QED
  BY <1>0, <1>1, <1>3, <1>4, <1>5, <1>6 DEF BarrierInv, Marked

\* The next marker is read and counts if it says the same.
LEMMA ReadMarkerInv ==
    ASSUME BarrierInv, NEW p \in Procs, NEW q \in Procs, ReadMarker(p, q) PROVE BarrierInv'
<1> DEFINE same == bMarks[bEpoch[p]][q] = bDigest[p]
<1>1. /\ bAt[p] = "scan" /\ q \in bUnread[p]
      /\ bReady' = [bReady EXCEPT ![p] = IF same THEN @ + 1 ELSE @]
      /\ bUnread' = [bUnread EXCEPT ![p] = @ \ {q}]
      /\ bAt' \in [Procs -> {"listen", "wait", "run", "mark", "scan", "done", "failed"}]
      /\ bAt'[p] \in {"scan", "failed"} /\ \A r \in Procs \ {p} : bAt'[r] = bAt[r]
      /\ UNCHANGED <<bEpoch, bListening, bDigest, bMarks, bPassed>>
  BY DEF ReadMarker, BarrierInv, BarrierTypeOK
<1>2. /\ Counted(p)' = IF same THEN Counted(p) \cup {q} ELSE Counted(p)
      /\ q \notin Counted(p)
  BY <1>1 DEF Counted, BarrierInv, BarrierTypeOK
<1>3. /\ IsFiniteSet(Counted(p)) /\ Cardinality(Counted(p)) \in Nat
      /\ Cardinality(Counted(p) \cup {q}) = Cardinality(Counted(p)) + 1
  <2>1. IsFiniteSet(Counted(p)) /\ Cardinality(Counted(p)) \in Nat
    BY ProcFacts DEF Counted
  <2> QED
    BY <1>2, <2>1, FS_AddElement
<1>4. bReady'[p] \in Nat /\ bReady'[p] <= Cardinality(Counted(p)')
  <2>1. bReady[p] \in Nat /\ bReady[p] <= Cardinality(Counted(p))
    BY ProcFacts DEF BarrierInv, BarrierTypeOK
  <2>2. CASE same
    BY <1>1, <1>2, <1>3, <2>1, <2>2 DEF BarrierInv, BarrierTypeOK
  <2>3. CASE ~same
    BY <1>1, <1>2, <1>3, <2>1, <2>3 DEF BarrierInv, BarrierTypeOK
  <2> HIDE DEF same
  <2> QED
    BY <2>2, <2>3
<1>5. bReady'[p] \in 0 .. Cardinality(Procs)
  BY <1>4, ProcFacts DEF Counted
<1> HIDE DEF same
<1>6. \A r \in Procs \ {p} : bReady'[r] = bReady[r] /\ Counted(r)' = Counted(r)
  BY <1>1 DEF Counted, BarrierInv, BarrierTypeOK
<1>7. BarrierTypeOK'
  BY <1>1, <1>5 DEF BarrierInv, BarrierTypeOK
<1>8. \A r \in Procs : /\ bReady'[r] <= Cardinality(Counted(r)')
                       /\ bAt'[r] \notin {"scan", "failed"} => bReady'[r] = 0
                       /\ bDigest'[r] = NoMark => bReady'[r] = 0 /\ bAt'[r] \notin {"mark", "scan"}
  BY <1>1, <1>4, <1>6 DEF BarrierInv
<1> QED
  BY <1>1, <1>7, <1>8 DEF BarrierInv, Marked

\* A scan ends; with a quorum counted the barrier is passed.
LEMMA ScanEndsInv ==
    ASSUME BarrierInv, NEW p \in Procs, ScanEnds(p) PROVE BarrierInv'
<1> DEFINE n == bEpoch[p]
<1>1. /\ bAt[p] = "scan" /\ bUnread[p] = {} /\ n \in 1 .. MaxEpoch
      /\ bReady' = [bReady EXCEPT ![p] = 0] /\ UNCHANGED <<bListening, bDigest, bMarks>>
      /\ \A q \in Procs \ {p} : /\ bAt'[q] = bAt[q] /\ bEpoch'[q] = bEpoch[q]
                                /\ bUnread'[q] = bUnread[q]
      /\ bDigest[p] # NoMark
  BY DEF ScanEnds, BarrierInv, BarrierTypeOK
<1>2. BarrierTypeOK'
  <2>1. bReady' \in [Procs -> 0 .. Cardinality(Procs)]
    BY <1>1, ProcFacts DEF BarrierInv, BarrierTypeOK
  <2>2. bEpoch' \in [Procs -> 1 .. MaxEpoch]
    BY BarrierAssumption DEF ScanEnds, BarrierInv, BarrierTypeOK
  <2>3. /\ bAt' \in [Procs -> {"listen", "wait", "run", "mark", "scan", "done", "failed"}]
        /\ bUnread' \in [Procs -> SUBSET Procs]
    BY ZenonT(40) DEF ScanEnds, BarrierInv, BarrierTypeOK
  <2> QED
    BY <1>1, <2>1, <2>2, <2>3 DEF BarrierInv, BarrierTypeOK
<1>3. \A q \in Procs : /\ bReady'[q] <= Cardinality(Counted(q)')
                       /\ bAt'[q] \notin {"scan", "failed"} => bReady'[q] = 0
                       /\ bDigest'[q] = NoMark => bReady'[q] = 0 /\ bAt'[q] \notin {"mark", "scan"}
  <2> SUFFICES ASSUME NEW q \in Procs
               PROVE  /\ bReady'[q] <= Cardinality(Counted(q)')
                      /\ bAt'[q] \notin {"scan", "failed"} => bReady'[q] = 0
                      /\ bDigest'[q] = NoMark => bReady'[q] = 0 /\ bAt'[q] \notin {"mark", "scan"}
    OBVIOUS
  <2>1. CASE q = p
    <3>1. Cardinality(Counted(p)') \in Nat /\ bReady'[p] = 0
      BY <1>1, ProcFacts DEF Counted, BarrierInv, BarrierTypeOK
    <3> QED
      BY <1>1, <2>1, <3>1
  <2>2. CASE q # p
    <3>1. Counted(q)' = Counted(q) /\ bReady'[q] = bReady[q]
      BY <1>1, <2>2 DEF Counted, BarrierInv, BarrierTypeOK
    <3> QED
      BY <1>1, <2>2, <3>1 DEF BarrierInv
  <2> QED
    BY <2>1, <2>2
<1>4. ASSUME bReady[p] >= Required PROVE Cardinality(Marked(n, bDigest[p])) >= Required
  <2>1. Counted(p) \subseteq Marked(n, bDigest[p]) /\ Marked(n, bDigest[p]) \subseteq Procs
    BY DEF Counted, Marked
  <2>2. /\ Cardinality(Counted(p)) <= Cardinality(Marked(n, bDigest[p]))
        /\ Cardinality(Counted(p)) \in Nat /\ Cardinality(Marked(n, bDigest[p])) \in Nat
    BY <2>1, ProcFacts, SubsetCount
  <2>3. bReady[p] <= Cardinality(Counted(p)) /\ bReady[p] \in Int
    BY ProcFacts DEF BarrierInv, BarrierTypeOK
  <2> QED
    BY <1>4, <2>2, <2>3, ProcFacts
<1>5. \/ bPassed' = bPassed
      \/ bReady[p] >= Required /\ bPassed' = [bPassed EXCEPT ![n][p] = bDigest[p]]
  BY DEF ScanEnds
<1>6. /\ bPassed' \in [1 .. MaxEpoch -> [Procs -> Digests \cup {NoMark}]]
      /\ \A e \in 1 .. MaxEpoch, q \in Procs :
            \/ bPassed'[e][q] = bPassed[e][q]
            \/ e = n /\ q = p /\ bReady[p] >= Required /\ bPassed'[e][q] = bDigest[p]
  <2> DEFINE E == 1 .. MaxEpoch
             V == Digests \cup {NoMark}
  <2>1. bPassed \in [E -> [Procs -> V]] /\ n \in E /\ bDigest[p] \in V
    BY <1>1 DEF BarrierInv, BarrierTypeOK
  <2>2. CASE bReady[p] >= Required /\ bPassed' = [bPassed EXCEPT ![n][p] = bDigest[p]]
    <3> HIDE DEF E, V, n
    <3>1. /\ bPassed' \in [E -> [Procs -> V]]
          /\ \A e \in E, q \in Procs :
                bPassed'[e][q] = IF e = n /\ q = p THEN bDigest[p] ELSE bPassed[e][q]
      BY <2>1, <2>2, EntrySet
    <3> QED
      BY <2>2, <3>1 DEF E, V
  <2> QED
    BY <1>5, <2>1, <2>2
<1>7. ASSUME NEW e \in 1 .. MaxEpoch, NEW q \in Procs, bPassed'[e][q] # NoMark
      PROVE  Cardinality(Marked(e, bPassed[e][q])') >= Required
  <2>1. CASE bPassed'[e][q] = bPassed[e][q]
    BY <1>1, <1>7, <2>1 DEF BarrierInv, Marked
  <2>2. CASE e = n /\ q = p /\ bReady[p] >= Required /\ bPassed'[e][q] = bDigest[p]
    BY <1>1, <1>4, <2>2 DEF Marked
  <2> QED
    BY <1>6, <2>1, <2>2
<1> QED
  BY <1>2, <1>3, <1>6, <1>7 DEF BarrierInv

\* Every step of the series.
LEMMA BarrierStepInv == BarrierInv /\ [BarrierNext]_barrierVars => BarrierInv'
<1> SUFFICES ASSUME BarrierInv, [BarrierNext]_barrierVars PROVE BarrierInv'
  OBVIOUS
<1> DEFINE Calm(p) == /\ BarrierTypeOK' /\ UNCHANGED <<bMarks, bPassed>>
                      /\ \A q \in Procs \ {p} : /\ bReady'[q] = bReady[q] /\ bAt'[q] = bAt[q]
                                                /\ Counted(q)' = Counted(q)
                      /\ \A q \in Procs : bDigest'[q] = NoMark =>
                            bDigest[q] = NoMark /\ bAt'[q] \notin {"mark", "scan"}
<1>0. 0 \in 0 .. Cardinality(Procs)
  BY ProcFacts
<1>1. ASSUME NEW p \in Procs, WriteReady(p) PROVE BarrierInv'
  <2>1. Calm(p) /\ bReady'[p] = 0
    BY <1>1 DEF WriteReady, BarrierInv, BarrierTypeOK, Counted
  <2> QED
    BY <2>1, BarrierPhaseInv
<1>2. ASSUME NEW p \in Procs, ListenersReady(p) PROVE BarrierInv'
  <2>1. Calm(p) /\ bReady'[p] = 0
    BY <1>2 DEF ListenersReady, BarrierInv, BarrierTypeOK, Counted
  <2> QED
    BY <2>1, BarrierPhaseInv
<1>3. ASSUME NEW p \in Procs, EpochFails(p) PROVE BarrierInv'
  <2>1. /\ Calm(p)
        /\ bReady'[p] = bReady[p] /\ Counted(p)' = Counted(p) /\ bAt'[p] = "failed"
    BY <1>3 DEF EpochFails, BarrierInv, BarrierTypeOK, Counted
  <2> QED
    BY <2>1, BarrierPhaseInv
<1>4. ASSUME NEW p \in Procs, RestartSeries(p) PROVE BarrierInv'
  <2>1. BarrierTypeOK'
    <3>1. bEpoch' \in [Procs -> 1 .. MaxEpoch]
      BY <1>4, BarrierAssumption DEF RestartSeries, BarrierInv, BarrierTypeOK
    <3> QED
      BY <1>0, <1>4, <3>1 DEF RestartSeries, BarrierInv, BarrierTypeOK
  <2>2. Calm(p) /\ bReady'[p] = 0
    BY ZenonT(60), <1>4, <2>1 DEF RestartSeries, BarrierInv, BarrierTypeOK, Counted
  <2> QED
    BY <2>2, BarrierPhaseInv
<1>5. ASSUME NEW p \in Procs, NEW d \in Digests, RunEpoch(p, d) PROVE BarrierInv'
  <2>1. Calm(p) /\ bReady'[p] = 0
    BY <1>5, BarrierAssumption DEF RunEpoch, BarrierInv, BarrierTypeOK, Counted
  <2> QED
    BY <2>1, BarrierPhaseInv
<1>6. CASE UNCHANGED barrierVars
  <2>1. \A p : Counted(p)' = Counted(p)
    BY <1>6 DEF barrierVars, Counted
  <2> QED
    BY <1>6, <2>1 DEF barrierVars, BarrierInv, BarrierTypeOK, Marked
<1> QED
  BY <1>1, <1>2, <1>3, <1>4, <1>5, <1>6, WriteMarkerInv, ReadMarkerInv, ScanEndsInv
     DEF BarrierNext

\* Two quorums of the same epoch have a marker in common.
LEMMA BarrierHolds == BarrierInv => PassersAgree
<1> SUFFICES ASSUME BarrierInv, NEW e \in 1 .. MaxEpoch, NEW p \in Procs, NEW q \in Procs,
                    bPassed[e][p] # NoMark, bPassed[e][q] # NoMark
             PROVE  bPassed[e][p] = bPassed[e][q]
  BY DEF PassersAgree
<1> DEFINE S == Marked(e, bPassed[e][p])
           T == Marked(e, bPassed[e][q])
<1>1. Cardinality(S) >= Required /\ Cardinality(T) >= Required
  BY DEF BarrierInv
<1>2. S \subseteq Procs /\ T \subseteq Procs
  BY DEF Marked
<1>3. Cardinality(S) + Cardinality(T) > Cardinality(Procs)
  BY <1>1, <1>2, ProcFacts
<1>4. S \cap T # {}
  BY <1>2, <1>3, BarrierAssumption, FS_MajoritiesIntersect
<1> QED
  BY <1>4 DEF Marked

-----------------------------------------------------------------------------
(* Transport (transport_tcp_loopback.go). *)

\* A sender works with a connection that has been dialled, and throws out only
\* one that it has closed; nothing is on a connection before it is dialled.
ConnsInUse ==
    /\ TransportTypeOK
    /\ tPool \in [{Dest[m] : m \in Msgs} -> Conns \cup {NoConn}]
    /\ \A m \in Msgs : /\ tAt[m] \in {"claim", "write", "evict", "pool"} =>
                             tConn[m] \in Conns /\ tState[tConn[m]] # "unused"
                       /\ tAt[m] = "evict" => tState[tConn[m]] = "closed"
                       /\ tAt[m] = "start" \/ Dest[m] \notin Local \/ tAt[m] \in {"done", "failed"}

\* Frames under way.
Frames == {x \in Conns \X Nat : x[2] \in DOMAIN tWire[x[1]]}
Framed(x) == tWire[x[1]][x[2]]

\* A message is put on a wire once, when its Send is about to succeed, and is
\* not there any more when it has arrived.
WiresOnce ==
    /\ tWire \in [Conns -> Seq(Msgs)] /\ tGot \in [Msgs -> {0, 1}] /\ tBreaks \in Nat
    /\ \A c \in Conns : tState[c] = "unused" => tWire[c] = <<>>
    /\ \A x, y \in Frames : Framed(x) = Framed(y) => x = y
    /\ \A x \in Frames : tGot[Framed(x)] = 0 /\ tAt[Framed(x)] \in {"pool", "done"}
    /\ \A m \in Msgs : tGot[m] = 1 => tAt[m] \in {"pool", "done"}

\* Unless a connection breaks, what has been written is under way or has
\* arrived.
NothingLost ==
    tBreaks = 0 =>
        /\ \A c \in Conns : tState[c] # "broken"
        /\ \A m \in Msgs : tAt[m] \in {"pool", "done"} =>
              tGot[m] = 1 \/ \E x \in Frames : Framed(x) = m

TransportInv == ConnsInUse /\ WiresOnce /\ NothingLost

\* Nothing has been sent at first.
LEMMA TransportInitInv == TransportInit => TransportInv
<1> SUFFICES ASSUME TransportInit PROVE TransportInv
  OBVIOUS
<1> USE DEF TransportInit
<1>1. ConnsInUse
  BY TransportAssumption DEF ConnsInUse, TransportTypeOK
<1>2. Frames = {}
  BY DEF Frames
<1>3. WiresOnce /\ NothingLost
  BY <1>2 DEF WiresOnce, NothingLost
<1> QED
  BY <1>1, <1>3 DEF TransportInv

\* A step that leaves the wires alone.
LEMMA QuietStepInv ==
    ASSUME TransportInv, ConnsInUse', UNCHANGED <<tWire, tGot, tBreaks>>,
           \A c \in Conns : /\ tState'[c] = "unused" => tState[c] = "unused"
                            /\ tState'[c] = "broken" => tState[c] = "broken",
           \A m \in Msgs : \/ tAt'[m] = tAt[m]
                           \/ tAt[m] \notin {"pool", "done"} /\ tAt'[m] \notin {"pool", "done"}
                           \/ tAt[m] = "pool" /\ tAt'[m] = "done"
    PROVE  TransportInv'
<1>1. Frames' = Frames /\ \A x : Framed(x)' = Framed(x)
  BY DEF Frames, Framed
<1>2. \A x \in Frames : Framed(x) \in Msgs
  BY DEF Frames, Framed, TransportInv, WiresOnce
<1>3. WiresOnce'
  BY <1>1, <1>2 DEF TransportInv, WiresOnce
<1>4. NothingLost'
  BY <1>1 DEF TransportInv, NothingLost
<1> QED
  BY <1>3, <1>4 DEF TransportInv

\* A frame of message m is put on connection c.
LEMMA FrameStepInv ==
    ASSUME TransportInv, ConnsInUse', NEW m \in Msgs, NEW c \in Conns,
           tAt[m] \notin {"pool", "done"}, tAt'[m] \in {"pool", "done"},
           \A k \in Msgs \ {m} : tAt'[k] = tAt[k],
           tWire' = [tWire EXCEPT ![c] = Append(@, m)], tState'[c] # "unused",
           \A b \in Conns : /\ tState'[b] = "unused" => tState[b] = "unused"
                            /\ tState'[b] = "broken" => tState[b] = "broken",
           UNCHANGED <<tGot, tBreaks>>
    PROVE  TransportInv'
<1> USE DEF TransportInv
<1>0. PICK k : k = Len(tWire[c]) + 1
  OBVIOUS
<1> DEFINE new == <<c, k>>
<1>1. tWire[c] \in Seq(Msgs) /\ tWire \in [Conns -> Seq(Msgs)]
  BY DEF WiresOnce
<1>2. /\ Append(tWire[c], m) \in Seq(Msgs)
      /\ DOMAIN Append(tWire[c], m) = DOMAIN tWire[c] \cup {k}
      /\ \A i \in DOMAIN tWire[c] : Append(tWire[c], m)[i] = tWire[c][i]
      /\ Append(tWire[c], m)[k] = m
      /\ k \in Nat /\ k \notin DOMAIN tWire[c]
  BY <1>0, <1>1
<1>3. tWire' \in [Conns -> Seq(Msgs)]
  BY <1>1, <1>2
<1>4. /\ Frames' = Frames \cup {new} /\ new \notin Frames
      /\ \A x \in Frames : Framed(x)' = Framed(x)
      /\ Framed(new)' = m
  <2>1. /\ tWire'[c] = Append(tWire[c], m)
        /\ \A b \in Conns \ {c} : tWire'[b] = tWire[b]
    BY <1>1
  <2> HIDE DEF TransportInv
  <2>2. Frames' = Frames \cup {new} /\ new \notin Frames
    BY <1>2, <2>1 DEF Frames
  <2>3. \A x \in Frames : Framed(x)' = Framed(x)
    BY <1>2, <2>1 DEF Frames, Framed
  <2>4. Framed(new)' = m
    BY <1>2, <2>1 DEF Framed
  <2> QED
    BY <2>2, <2>3, <2>4
<1>5. \A x \in Frames : Framed(x) \in Msgs /\ Framed(x) # m
  <2>1. \A x \in Frames : Framed(x) \in Msgs
    BY <1>1 DEF Frames, Framed
  <2>2. \A x \in Frames : Framed(x) # m
    BY DEF WiresOnce
  <2> QED
    BY <2>1, <2>2
<1> HIDE DEF new
<1>6. tGot[m] = 0
  BY DEF WiresOnce
<1>7. \A b \in Conns : tState'[b] = "unused" => tWire'[b] = <<>>
  BY <1>1 DEF WiresOnce
<1>8. \A x, y \in Frames' : Framed(x)' = Framed(y)' => x = y
  BY <1>4, <1>5 DEF WiresOnce
<1>9. \A x \in Frames' : tGot[Framed(x)'] = 0 /\ tAt'[Framed(x)'] \in {"pool", "done"}
  <2> SUFFICES ASSUME NEW x \in Frames'
               PROVE  tGot[Framed(x)'] = 0 /\ tAt'[Framed(x)'] \in {"pool", "done"}
    OBVIOUS
  <2>1. CASE x \in Frames
    <3>1. Framed(x)' = Framed(x) /\ Framed(x) \in Msgs \ {m}
      BY <1>4, <1>5, <2>1
    <3>2. tGot[Framed(x)] = 0 /\ tAt[Framed(x)] \in {"pool", "done"}
      BY <2>1 DEF WiresOnce
    <3> QED
      BY <3>1, <3>2
  <2>2. CASE x = new
    BY <1>4, <1>6, <2>2
  <2> QED
    BY <1>4, <2>1, <2>2
<1>10. \A j \in Msgs : tGot[j] = 1 => tAt'[j] \in {"pool", "done"}
  BY DEF WiresOnce
<1>11. WiresOnce'
  BY <1>3, <1>7, <1>8, <1>9, <1>10 DEF WiresOnce
<1>12. NothingLost'
  BY <1>4 DEF NothingLost
<1> QED
  BY <1>11, <1>12

\* The first frame of a connection is delivered.
LEMMA DeliverInv ==
    ASSUME TransportInv, NEW c \in Conns, Deliver(c) PROVE TransportInv'
<1> USE DEF TransportInv
<1>1. /\ tWire[c] # <<>> /\ tWire[c] \in Seq(Msgs) /\ tWire \in [Conns -> Seq(Msgs)]
      /\ tWire' = [tWire EXCEPT ![c] = Tail(@)]
      /\ UNCHANGED <<tAt, tConn, tPool, tPoolMu, tConnMu, tState, tBreaks>>
  BY DEF Deliver, WiresOnce
<1>0. PICK m : m = Head(tWire[c])
  OBVIOUS
<1> DEFINE first == <<c, 1>>
           Back(x) == IF x[1] = c THEN <<c, x[2] + 1>> ELSE x
<1>2. /\ m \in Msgs /\ first \in Frames /\ Framed(first) = m
      /\ tGot' = [tGot EXCEPT ![m] = @ + 1]
  BY <1>0, <1>1 DEF Deliver, Frames, Framed
<1>3. /\ Tail(tWire[c]) \in Seq(Msgs)
      /\ \A i \in Nat : i \in DOMAIN Tail(tWire[c]) <=> i # 0 /\ i + 1 \in DOMAIN tWire[c]
      /\ \A i \in DOMAIN Tail(tWire[c]) : Tail(tWire[c])[i] = tWire[c][i + 1]
  BY <1>1
<1>4. /\ tWire' \in [Conns -> Seq(Msgs)] /\ tWire'[c] = Tail(tWire[c])
      /\ \A b \in Conns \ {c} : tWire'[b] = tWire[b]
  BY <1>1, <1>3
<1>5. \A x \in Frames' : Back(x) \in Frames \ {first} /\ Framed(x)' = Framed(Back(x))
  BY <1>3, <1>4 DEF Frames, Framed
<1>6. \A x, y \in Frames' : Back(x) = Back(y) => x = y
  BY DEF Frames
<1>7. \A y \in Frames \ {first} : \E x \in Frames' : Back(x) = y
  <2> SUFFICES ASSUME NEW y \in Frames, y # first PROVE \E x \in Frames' : Back(x) = y
    OBVIOUS
  <2>1. CASE y[1] # c
    <3>1. y \in Frames' /\ Back(y) = y
      BY <1>4, <2>1 DEF Frames
    <3> QED
      BY <3>1
  <2>2. CASE y[1] = c
    <3> DEFINE x == <<c, y[2] - 1>>
    <3>1. y = <<c, y[2]>> /\ y[2] \in DOMAIN tWire[c] /\ y[2] \in Nat /\ y[2] # 1
      BY <2>2 DEF Frames
    <3>2. y[2] - 1 \in Nat /\ y[2] - 1 # 0 /\ (y[2] - 1) + 1 = y[2]
      BY <1>1, <3>1
    <3>3. x \in Frames' /\ Back(x) = y
      BY <1>3, <1>4, <3>1, <3>2 DEF Frames
    <3> QED
      BY <3>3
  <2> QED
    BY <2>1, <2>2
<1>8. \A x \in Frames \ {first} : Framed(x) \in Msgs /\ Framed(x) # m
  <2>1. \A x \in Frames : Framed(x) \in Msgs
    BY <1>1 DEF Frames, Framed
  <2>2. \A x \in Frames \ {first} : Framed(x) # m
    BY <1>2 DEF WiresOnce
  <2> QED
    BY <2>1, <2>2
<1>9. tGot[m] = 0 /\ tAt[m] \in {"pool", "done"} /\ tGot \in [Msgs -> {0, 1}]
  BY <1>2 DEF WiresOnce
<1> HIDE DEF Back, first
<1>10. tGot' \in [Msgs -> {0, 1}] /\ tGot'[m] = 1 /\ \A k \in Msgs \ {m} : tGot'[k] = tGot[k]
  BY <1>2, <1>9
<1>11. \A b \in Conns : tState'[b] = "unused" => tWire'[b] = <<>>
  BY <1>1, <1>4 DEF WiresOnce
<1>12. \A x, y \in Frames' : Framed(x)' = Framed(y)' => x = y
  BY <1>5, <1>6 DEF WiresOnce
<1>13. \A x \in Frames' : tGot'[Framed(x)'] = 0 /\ tAt[Framed(x)'] \in {"pool", "done"}
  BY <1>5, <1>8, <1>10 DEF WiresOnce
<1>14. \A k \in Msgs : tGot'[k] = 1 => tAt[k] \in {"pool", "done"}
  BY <1>9, <1>10 DEF WiresOnce
<1>15. WiresOnce'
  BY <1>1, <1>4, <1>10, <1>11, <1>12, <1>13, <1>14 DEF WiresOnce
<1>16. NothingLost'
  <2> SUFFICES ASSUME tBreaks = 0, NEW k \in Msgs, tAt[k] \in {"pool", "done"}, k # m
               PROVE  tGot'[k] = 1 \/ \E x \in Frames' : Framed(x)' = k
    BY <1>1, <1>10 DEF NothingLost
  <2>1. tGot[k] = 1 \/ \E y \in Frames : Framed(y) = k
    BY DEF NothingLost
  <2> QED
    BY <1>2, <1>5, <1>7, <1>10, <2>1
<1>17. ConnsInUse'
  BY <1>1 DEF ConnsInUse, TransportTypeOK
<1> QED
  BY <1>15, <1>16, <1>17

\* A connection breaks: what is under way on it is lost.
LEMMA BreakInv ==
    ASSUME TransportInv, NEW c \in Conns, Break(c) PROVE TransportInv'
<1> USE DEF TransportInv
<1>1. /\ tState[c] = "open" /\ tBreaks' = tBreaks + 1
      /\ tState' = [tState EXCEPT ![c] = "broken"] /\ tWire' = [tWire EXCEPT ![c] = <<>>]
      /\ UNCHANGED <<tAt, tConn, tPool, tPoolMu, tConnMu, tGot>>
  BY DEF Break
<1>2. \A x \in Frames' : x \in Frames /\ Framed(x)' = Framed(x)
  BY <1>1 DEF Frames, Framed, WiresOnce
<1>3. ConnsInUse'
  BY <1>1 DEF ConnsInUse, TransportTypeOK
<1>4. /\ tWire' \in [Conns -> Seq(Msgs)] /\ tBreaks' \in Nat /\ tBreaks' # 0
      /\ \A b \in Conns : tState'[b] = "unused" => tWire'[b] = <<>>
  BY <1>1 DEF WiresOnce, ConnsInUse, TransportTypeOK
<1>5. WiresOnce'
  BY <1>1, <1>2, <1>4 DEF WiresOnce
<1>6. NothingLost'
  BY <1>4 DEF NothingLost
<1> QED
  BY <1>3, <1>5, <1>6

\* A step of a sender keeps the connections in order.
LEMMA SenderConnsInv ==
    ASSUME TransportInv, NEW m \in Msgs,
           \/ SendLocal(m) \/ LockPool(m) \/ ClaimConn(m) \/ WritePooled(m) \/ WriteFails(m)
           \/ Evict(m) \/ DialAndWrite(m) \/ DialFails(m) \/ PoolConn(m)
    PROVE  ConnsInUse'
<1> USE TransportAssumption DEF TransportInv, ConnsInUse, TransportTypeOK, Goto, Pooled
<1>0. Dest[m] \in {Dest[k] : k \in Msgs}
  OBVIOUS
<1>1. CASE SendLocal(m)
  BY <1>1 DEF SendLocal
<1>2. CASE LockPool(m)
  BY <1>0, <1>2 DEF LockPool
<1>3. CASE ClaimConn(m)
  BY <1>3 DEF ClaimConn
<1>4. CASE WritePooled(m)
  BY <1>4 DEF WritePooled
<1>5. CASE WriteFails(m)
  BY <1>5 DEF WriteFails
<1>6. CASE Evict(m)
  BY <1>0, <1>6 DEF Evict
<1>7. CASE DialAndWrite(m)
  BY <1>7 DEF DialAndWrite
<1>8. CASE DialFails(m)
  BY <1>8 DEF DialFails
<1>9. CASE PoolConn(m)
  <2>1. CASE tPool[Dest[m]] = NoConn
    BY <1>0, <1>9, <2>1 DEF PoolConn
  <2>2. CASE tPool[Dest[m]] # NoConn
    <3>1. /\ UNCHANGED <<tPool, tConn, tPoolMu, tConnMu>>
          /\ tAt' = [tAt EXCEPT ![m] = "done"] /\ tConn[m] \in Conns
          /\ tState' = [tState EXCEPT ![tConn[m]] = IF @ = "open" THEN "closed" ELSE @]
      BY <1>9, <2>2 DEF PoolConn
    <3>2. /\ tState' \in [Conns -> {"unused", "open", "broken", "closed"}]
          /\ \A c \in Conns : /\ tState[c] # "unused" => tState'[c] # "unused"
                              /\ tState[c] = "closed" => tState'[c] = "closed"
      BY <3>1
    <3>3. tAt' \in [Msgs -> {"start", "claim", "write", "evict", "dial", "pool",
                             "done", "failed"}]
      BY <3>1
    <3>4. \A d \in DOMAIN tPool' : tPool'[d] = NoConn \/ tState'[tPool'[d]] # "unused"
      BY <3>1, <3>2
    <3>5. \A k \in Msgs : /\ tAt'[k] \in {"claim", "write", "evict", "pool"} =>
                                 tConn'[k] \in Conns /\ tState'[tConn'[k]] # "unused"
                          /\ tAt'[k] = "evict" => tState'[tConn'[k]] = "closed"
                          /\ \/ tAt'[k] = "start" \/ Dest[k] \notin Local
                             \/ tAt'[k] \in {"done", "failed"}
      BY <3>1, <3>2
    <3> QED
      BY <3>1, <3>2, <3>3, <3>4, <3>5
  <2> QED
    BY <2>1, <2>2
<1> QED
  BY <1>1, <1>2, <1>3, <1>4, <1>5, <1>6, <1>7, <1>8, <1>9

\* Every step of the transport.
LEMMA TransportStepInv == TransportInv /\ [TransportNext]_transportVars => TransportInv'
<1> SUFFICES ASSUME TransportInv, [TransportNext]_transportVars PROVE TransportInv'
  OBVIOUS
<1> USE DEF Goto
<1>1. ASSUME NEW m \in Msgs, SendLocal(m) PROVE TransportInv'
  <2>1. ConnsInUse'
    BY <1>1, SenderConnsInv
  <2>2. /\ tAt[m] = "start" /\ UNCHANGED <<tState, tWire, tBreaks>>
        /\ \/ tAt' = [tAt EXCEPT ![m] = "done"] /\ tGot' = [tGot EXCEPT ![m] = @ + 1]
           \/ tAt' = [tAt EXCEPT ![m] = "failed"] /\ UNCHANGED tGot
    BY <1>1 DEF SendLocal
  <2>3. Frames' = Frames /\ \A x : Framed(x)' = Framed(x)
    BY <2>2 DEF Frames, Framed
  <2>4. \A x \in Frames : Framed(x) \in Msgs \ {m}
    BY <2>2 DEF Frames, Framed, TransportInv, WiresOnce
  <2>5. tGot[m] = 0 /\ tGot \in [Msgs -> {0, 1}]
        /\ tAt \in [Msgs -> {"start", "claim", "write", "evict", "dial", "pool", "done", "failed"}]
    BY <2>2 DEF TransportInv, WiresOnce, ConnsInUse, TransportTypeOK
  <2>6. WiresOnce'
    <3>1. /\ tGot' \in [Msgs -> {0, 1}]
          /\ \A k \in Msgs \ {m} : tGot'[k] = tGot[k] /\ tAt'[k] = tAt[k]
          /\ tGot'[m] = 1 => tAt'[m] \in {"pool", "done"}
      BY <2>2, <2>5
    <3>2. \A x \in Frames' : tGot'[Framed(x)'] = 0 /\ tAt'[Framed(x)'] \in {"pool", "done"}
      BY <2>3, <2>4, <3>1 DEF TransportInv, WiresOnce
    <3>3. \A k \in Msgs : tGot'[k] = 1 => tAt'[k] \in {"pool", "done"}
      BY <3>1 DEF TransportInv, WiresOnce
    <3> QED
      BY <2>2, <2>3, <3>1, <3>2, <3>3 DEF TransportInv, WiresOnce
  <2>7. NothingLost'
    BY <2>2, <2>3, <2>5 DEF TransportInv, NothingLost
  <2> QED
    BY <2>1, <2>6, <2>7 DEF TransportInv
<1>2. ASSUME NEW m \in Msgs,
             LockPool(m) \/ ClaimConn(m) \/ WriteFails(m) \/ Evict(m) \/ DialFails(m) \/ PoolConn(m)
      PROVE  TransportInv'
  <2>1. ConnsInUse'
    BY <1>2, SenderConnsInv
  <2>2. /\ tAt \in [Msgs -> {"start", "claim", "write", "evict", "dial", "pool", "done", "failed"}]
        /\ tState \in [Conns -> {"unused", "open", "broken", "closed"}]
    BY DEF TransportInv, ConnsInUse, TransportTypeOK
  <2>3. UNCHANGED <<tWire, tGot, tBreaks>>
    BY <1>2 DEF LockPool, ClaimConn, WriteFails, Evict, DialFails, PoolConn
  <2>4. \A c \in Conns : /\ tState'[c] = "unused" => tState[c] = "unused"
                         /\ tState'[c] = "broken" => tState[c] = "broken"
    BY <1>2, <2>2 DEF LockPool, ClaimConn, WriteFails, Evict, DialFails, PoolConn
  <2>5. \A k \in Msgs : \/ tAt'[k] = tAt[k]
                        \/ tAt[k] \notin {"pool", "done"} /\ tAt'[k] \notin {"pool", "done"}
                        \/ tAt[k] = "pool" /\ tAt'[k] = "done"
    BY <1>2, <2>2 DEF LockPool, ClaimConn, WriteFails, Evict, DialFails, PoolConn
  <2> QED
    BY <2>1, <2>3, <2>4, <2>5, QuietStepInv
<1>3. ASSUME NEW m \in Msgs, WritePooled(m) PROVE TransportInv'
  <2>1. ConnsInUse'
    BY <1>3, SenderConnsInv
  <2> DEFINE c == tConn[m]
  <2>2. /\ tAt[m] = "write" /\ c \in Conns /\ tState[c] \in {"open", "broken"}
        /\ tAt' = [tAt EXCEPT ![m] = "done"] /\ UNCHANGED <<tState, tGot, tBreaks>>
        /\ tAt \in [Msgs -> {"start", "claim", "write", "evict", "dial", "pool", "done", "failed"}]
        /\ tWire' = IF tState[c] = "open" THEN [tWire EXCEPT ![c] = Append(@, m)] ELSE tWire
    BY <1>3 DEF WritePooled, Written, TransportInv, ConnsInUse, TransportTypeOK
  <2> HIDE DEF c
  <2>3. CASE tState[c] = "open"
    BY <2>1, <2>2, <2>3, FrameStepInv
  <2>4. CASE tState[c] = "broken"
    <3>1. Frames' = Frames /\ \A x : Framed(x)' = Framed(x)
      BY <2>2, <2>4 DEF Frames, Framed
    <3>2. \A x \in Frames : Framed(x) \in Msgs \ {m}
      BY SMTT(30), <2>2 DEF Frames, Framed, TransportInv, WiresOnce
    <3>3. WiresOnce'
      BY <2>2, <2>4, <3>1, <3>2 DEF TransportInv, WiresOnce
    <3>4. NothingLost'
      BY <2>2, <2>4 DEF TransportInv, NothingLost
    <3> QED
      BY <2>1, <3>3, <3>4 DEF TransportInv
  <2> QED
    BY <2>2, <2>3, <2>4
<1>4. ASSUME NEW m \in Msgs, DialAndWrite(m) PROVE TransportInv'
  <2>1. ConnsInUse'
    BY <1>4, SenderConnsInv
  <2>2. PICK c \in Conns : /\ tState[c] = "unused" /\ tState' = [tState EXCEPT ![c] = "open"]
                           /\ tWire' = [tWire EXCEPT ![c] = <<m>>]
    BY <1>4 DEF DialAndWrite
  <2>3. /\ tAt[m] = "dial" /\ tAt' = [tAt EXCEPT ![m] = "pool"] /\ UNCHANGED <<tGot, tBreaks>>
        /\ tAt \in [Msgs -> {"start", "claim", "write", "evict", "dial", "pool", "done", "failed"}]
        /\ tState \in [Conns -> {"unused", "open", "broken", "closed"}]
    BY <1>4 DEF DialAndWrite, TransportInv, ConnsInUse, TransportTypeOK
  <2>4. tWire' = [tWire EXCEPT ![c] = Append(@, m)]
    <3>1. tWire[c] = <<>> /\ Append(<<>>, m) = <<m>>
      BY <2>2 DEF TransportInv, WiresOnce
    <3> QED
      BY <2>2, <3>1 DEF TransportInv, WiresOnce
  <2> QED
    BY <2>1, <2>2, <2>3, <2>4, FrameStepInv
<1>5. ASSUME NEW c \in Conns, Deliver(c) \/ Break(c) PROVE TransportInv'
  BY <1>5, DeliverInv, BreakInv
<1>6. CASE UNCHANGED transportVars
  <2>1. ConnsInUse'
    BY <1>6 DEF transportVars, TransportInv, ConnsInUse, TransportTypeOK
  <2> QED
    BY <1>6, <2>1, QuietStepInv DEF transportVars
<1> QED
  BY <1>1, <1>2, <1>3, <1>4, <1>5, <1>6 DEF TransportNext

\* The number of arrivals of a message, on the way or made.
LEMMA ArrivalCount ==
    ASSUME TransportInv, NEW m \in Msgs
    PROVE  Arrivals(m) = IF tGot[m] = 1 \/ (\E x \in Frames : Framed(x) = m) THEN 1 ELSE 0
<1> DEFINE Bearing == {c \in Conns : \E n \in DOMAIN tWire[c] : tWire[c][n] = m}
<1>1. tWire \in [Conns -> Seq(Msgs)] /\ tGot[m] \in {0, 1}
  BY DEF TransportInv, WiresOnce
<1>2. \A c \in Bearing : \E x \in Frames : Framed(x) = m /\ x[1] = c
  <2> SUFFICES ASSUME NEW c \in Bearing PROVE \E x \in Frames : Framed(x) = m /\ x[1] = c
    OBVIOUS
  <2>1. PICK n \in DOMAIN tWire[c] : tWire[c][n] = m
    OBVIOUS
  <2>2. <<c, n>> \in Frames /\ Framed(<<c, n>>) = m
    BY <1>1, <2>1 DEF Frames, Framed
  <2> QED
    BY <2>2
<1>3. \A x \in Frames : Framed(x) = m => x[1] \in Bearing
  BY DEF Frames, Framed
<1>4. CASE \E x \in Frames : Framed(x) = m
  <2>1. PICK x \in Frames : Framed(x) = m
    BY <1>4
  <2>2. Bearing = {x[1]}
    <3> HIDE DEF Bearing
    <3> QED
      BY <1>2, <1>3, <2>1 DEF TransportInv, WiresOnce
  <2>3. Cardinality(Bearing) = 1 /\ tGot[m] = 0
    BY <2>1, <2>2, FS_Singleton DEF TransportInv, WiresOnce
  <2> QED
    BY <2>1, <2>3 DEF Arrivals
<1>5. CASE ~\E x \in Frames : Framed(x) = m
  <2>1. Bearing = {}
    <3> HIDE DEF Bearing
    <3> QED
      BY <1>2, <1>5
  <2>2. Cardinality(Bearing) = 0
    BY <2>1, FS_EmptySet
  <2> QED
    BY <1>1, <1>5, <2>2 DEF Arrivals
<1> QED
  BY <1>4, <1>5

\* Send and the readers between them.
LEMMA TransportHolds == TransportInv => AtMostOnce /\ LostOnlyByBreak
<1> SUFFICES ASSUME TransportInv PROVE AtMostOnce /\ LostOnlyByBreak
  OBVIOUS
<1>1. AtMostOnce
  BY ArrivalCount DEF AtMostOnce, TransportInv, WiresOnce
<1>2. LostOnlyByBreak
  BY ArrivalCount DEF LostOnlyByBreak, TransportInv, NothingLost
<1> QED
  BY <1>1, <1>2

-----------------------------------------------------------------------------
(* Where the locks of the transport are. *)

\* The pool is locked by a sender that waits for a connection, a connection by
\* one that writes on it: nobody waits for a lock with a connection locked.
LocksHeld ==
    /\ tPoolMu # Nobody => tAt[tPoolMu] = "claim"
    /\ \A c \in Conns : tConnMu[c] # Nobody =>
          tAt[tConnMu[c]] = "write" /\ tConn[tConnMu[c]] = c

LEMMA LocksHeldStep ==
    TransportInv /\ LocksHeld /\ [TransportNext]_transportVars => LocksHeld'
<1> SUFFICES ASSUME TransportInv, LocksHeld, [TransportNext]_transportVars PROVE LocksHeld'
  OBVIOUS
<1>0. /\ tAt \in [Msgs -> {"start", "claim", "write", "evict", "dial", "pool", "done", "failed"}]
      /\ tConn \in [Msgs -> Conns \cup {NoConn}] /\ tConnMu \in [Conns -> Msgs \cup {Nobody}]
      /\ tPoolMu \in Msgs \cup {Nobody}
      /\ \A m \in Msgs : tAt[m] \in {"claim", "write"} => tConn[m] \in Conns
  BY DEF TransportInv, ConnsInUse, TransportTypeOK
<1> USE DEF Goto, LocksHeld
<1>1. ASSUME NEW m \in Msgs,
             SendLocal(m) \/ Evict(m) \/ DialAndWrite(m) \/ DialFails(m) \/ PoolConn(m)
      PROVE  LocksHeld'
  <2>1. /\ UNCHANGED <<tPoolMu, tConnMu>> /\ tAt[m] \notin {"claim", "write"}
        /\ \A k \in Msgs \ {m} : tAt'[k] = tAt[k] /\ tConn'[k] = tConn[k]
    BY <1>0, <1>1 DEF SendLocal, Evict, DialAndWrite, DialFails, PoolConn
  <2> QED
    BY <1>0, <2>1
<1>2. ASSUME NEW m \in Msgs, LockPool(m) PROVE LocksHeld'
  BY <1>0, <1>2 DEF LockPool
<1>3. ASSUME NEW m \in Msgs, ClaimConn(m) PROVE LocksHeld'
  BY <1>0, <1>3 DEF ClaimConn
<1>4. ASSUME NEW m \in Msgs, WritePooled(m) \/ WriteFails(m) PROVE LocksHeld'
  <2>1. /\ tAt[m] = "write" /\ UNCHANGED <<tPoolMu, tConn>>
        /\ tConnMu' = [tConnMu EXCEPT ![tConn[m]] = Nobody]
        /\ \A k \in Msgs \ {m} : tAt'[k] = tAt[k]
    BY <1>0, <1>4 DEF WritePooled, WriteFails
  <2> QED
    BY <1>0, <2>1
<1>5. CASE UNCHANGED transportVars \/ \E c \in Conns : Deliver(c) \/ Break(c)
  BY <1>5 DEF transportVars, Deliver, Break
<1> QED
  BY <1>1, <1>2, <1>3, <1>4, <1>5 DEF TransportNext

\* With the locks where they are, a waiting sender waits for one that can go on.
LEMMA SendsEnd == TransportInv /\ LocksHeld => SendEnds
<1> SUFFICES ASSUME TransportInv, LocksHeld, TransportAtRest, NEW m \in Msgs
             PROVE  tAt[m] \in {"done", "failed"}
  BY DEF SendEnds
<1>0. /\ tAt \in [Msgs -> {"start", "claim", "write", "evict", "dial", "pool", "done", "failed"}]
      /\ tConnMu \in [Conns -> Msgs \cup {Nobody}] /\ tPoolMu \in Msgs \cup {Nobody}
      /\ \A k \in Msgs : tAt[k] = "claim" => tConn[k] \in Conns
  BY DEF TransportInv, ConnsInUse, TransportTypeOK
<1>1. \A c \in Conns : tConnMu[c] = Nobody
  BY <1>0 DEF LocksHeld, TransportAtRest
<1>2. \A k \in Msgs : tAt[k] # "claim"
  BY <1>0, <1>1 DEF TransportAtRest
<1>3. tPoolMu = Nobody
  BY <1>0, <1>2 DEF LocksHeld
<1> QED
  BY <1>0, <1>2, <1>3 DEF TransportAtRest

-----------------------------------------------------------------------------
(* The worker pool of a holder (cv_sapvss_apdb_network_scalar.go). *)

\* How often q stands in a queue, and how many workers have its job.
Count(s, q) == Cardinality({n \in DOMAIN s : s[n] = q})
JobsOf(f, q) == Cardinality({w \in Workers : f[w].job = q})
One(b) == IF b THEN 1 ELSE 0

LEMMA CountIsNat == ASSUME NEW S, NEW s \in Seq(S), NEW q PROVE Count(s, q) \in Nat
<1>1. IsFiniteSet(1 .. Len(s))
  BY FS_Interval
<1> QED
  BY <1>1, FS_Subset, FS_CardinalityType DEF Count

\* Appending counts the new element.
LEMMA CountAppend ==
    ASSUME NEW S, NEW s \in Seq(S), NEW x \in S, NEW q
    PROVE  /\ Count(s, q) \in Nat
           /\ Count(Append(s, x), q) = Count(s, q) + One(x = q)
<1> DEFINE A == {n \in DOMAIN s : s[n] = q}
           B == {n \in DOMAIN Append(s, x) : Append(s, x)[n] = q}
<1>1. IsFiniteSet(A)
  <2>1. IsFiniteSet(1 .. Len(s))
    BY FS_Interval
  <2> QED
    BY <2>1, FS_Subset
<1>2. Cardinality(A) \in Nat
  BY <1>1, FS_CardinalityType
<1>3. B = IF x = q THEN A \cup {Len(s) + 1} ELSE A
  OBVIOUS
<1>4. Len(s) + 1 \notin A
  OBVIOUS
<1> HIDE DEF A, B
<1>5. Cardinality(A \cup {Len(s) + 1}) = Cardinality(A) + 1
  BY <1>1, <1>4, FS_AddElement
<1>6. Cardinality(B) = Cardinality(A) + One(x = q)
  BY <1>2, <1>3, <1>5 DEF One
<1> QED
  BY <1>2, <1>6 DEF Count, A, B

\* Taking the first element takes it off the count.
LEMMA CountTail ==
    ASSUME NEW S, NEW s \in Seq(S), s # <<>>, NEW q
    PROVE  /\ Count(s, q) \in Nat /\ Count(Tail(s), q) \in Nat
           /\ Count(s, q) = Count(Tail(s), q) + One(Head(s) = q)
<1> DEFINE A == {n \in DOMAIN Tail(s) : Tail(s)[n] = q}
           B == {n \in DOMAIN s : s[n] = q}
           D == B \ {1}
           up == [n \in A |-> n + 1]
           down == [n \in D |-> n - 1]
<1>1. IsFiniteSet(A) /\ IsFiniteSet(B)
  <2>1. IsFiniteSet(1 .. Len(s)) /\ IsFiniteSet(1 .. Len(Tail(s)))
    BY FS_Interval
  <2>2. A \subseteq 1 .. Len(Tail(s)) /\ B \subseteq 1 .. Len(s)
    OBVIOUS
  <2> QED
    BY <2>1, <2>2, FS_Subset
<1>2. up \in [A -> D] /\ \A x, y \in A : up[x] = up[y] => x = y
  OBVIOUS
<1>3. down \in [D -> A] /\ \A x, y \in D : down[x] = down[y] => x = y
  OBVIOUS
<1>4. B = IF Head(s) = q THEN D \cup {1} ELSE D
  OBVIOUS
<1>5. IsFiniteSet(D) /\ 1 \notin D
  BY <1>1, FS_Subset
<1> HIDE DEF A, B, D, up, down
<1>6. /\ Cardinality(A) <= Cardinality(D) /\ Cardinality(D) <= Cardinality(A)
      /\ Cardinality(A) \in Nat /\ Cardinality(D) \in Nat
  <2>1. Cardinality(A) <= Cardinality(D) /\ Cardinality(A) \in Nat /\ Cardinality(D) \in Nat
    BY <1>2, <1>5, InjectionCount
  <2>2. Cardinality(D) <= Cardinality(A)
    BY <1>1, <1>3, InjectionCount
  <2> QED
    BY <2>1, <2>2
<1>7. Cardinality(D \cup {1}) = Cardinality(D) + 1
  BY <1>5, FS_AddElement
<1>8. Cardinality(B) = Cardinality(A) + One(Head(s) = q) /\ Cardinality(B) \in Nat
  BY <1>4, <1>6, <1>7 DEF One
<1> QED
  BY <1>6, <1>8 DEF Count, A, B

\* A worker gets another job, or none.
LEMMA JobsSet ==
    ASSUME NEW f, NEW g, NEW w \in Workers, NEW q,
           \A v \in Workers : v # w => g[v].job = f[v].job
    PROVE  /\ JobsOf(f, q) \in Nat /\ JobsOf(g, q) \in Nat
           /\ JobsOf(g, q) + One(f[w].job = q) = JobsOf(f, q) + One(g[w].job = q)
<1> DEFINE A == {v \in Workers : f[v].job = q}
           B == {v \in Workers : g[v].job = q}
           D == {v \in Workers \ {w} : f[v].job = q}
<1>1. IsFiniteSet(D) /\ w \notin D /\ Cardinality(D) \in Nat
  BY HolderAssumption, FS_Subset, FS_CardinalityType
<1>2. /\ A = IF f[w].job = q THEN D \cup {w} ELSE D
      /\ B = IF g[w].job = q THEN D \cup {w} ELSE D
  OBVIOUS
<1> HIDE DEF A, B, D
<1>3. Cardinality(D \cup {w}) = Cardinality(D) + 1
  BY <1>1, FS_AddElement
<1>4. /\ Cardinality(A) = Cardinality(D) + One(f[w].job = q)
      /\ Cardinality(B) = Cardinality(D) + One(g[w].job = q)
  BY <1>1, <1>2, <1>3 DEF One
<1>5. /\ Cardinality(A) \in Nat /\ Cardinality(B) \in Nat
      /\ Cardinality(B) + One(f[w].job = q) = Cardinality(A) + One(g[w].job = q)
  BY <1>1, <1>4 DEF One
<1> QED
  BY <1>5 DEF JobsOf, A, B

Stations == {"idle", "build", "wait", "ok", "err", "send", "drop", "exited"}
Blocking == {NoJob} \cup ({"job"} \X Askers) \cup ({"reply"} \X Response)

\* Queues hold what belongs into them, and a worker has a job while it is at one.
HolderTypes ==
    /\ HolderTypeOK
    /\ hRouterQ \in Seq(Messages) /\ hQueue \in Seq(Askers) /\ hOut \in Seq(Askers \cup Response)
    /\ hBlocked \in Blocking
    /\ hWorker \in [Workers -> [at : Stations, job : Askers \cup {NoJob}]]
    /\ \A w \in Workers : hWorker[w].job = NoJob <=> hWorker[w].at \in {"idle", "exited"}

\* What stands for the request of q: its entry, and the jobs for it.
Entry(q) == IF q \in NewReceivers THEN One(hActive[q] # "none") ELSE One(q \in hClaimed)
JobsFor(q) ==
    One(hBlocked = <<"job", q>>) + Count(hQueue, q) + JobsOf(hWorker, q)
    + IF q \in NewReceivers THEN Count(hOut, q) ELSE 0

HolderInv == HolderTypes /\ (hUp => \A q \in Askers : JobsFor(q) = Entry(q))

\* EntryHasOneJob in these terms.
LEMMA EntriesAreJobs ==
    EntryHasOneJob <=> (hUp => \A q \in Askers : JobsFor(q) = Entry(q))
<1>1. ASSUME NEW q \in NewReceivers
      PROVE  /\ Places(q, TRUE) = JobsFor(q)
             /\ Entry(q) = IF hActive[q] = "none" THEN 0 ELSE 1
  BY <1>1 DEF Places, JobsFor, Entry, One, Count, JobsOf
<1>2. ASSUME NEW q \in Members
      PROVE  /\ Places(q, FALSE) = JobsFor(q)
             /\ Entry(q) = IF q \in hClaimed THEN 1 ELSE 0
  BY <1>2, HolderAssumption DEF Places, JobsFor, Entry, One, Count, JobsOf
<1>3. ASSUME EntryHasOneJob, hUp, NEW q \in Askers PROVE JobsFor(q) = Entry(q)
  <2>1. CASE q \in NewReceivers
    BY <1>1, <1>3, <2>1 DEF EntryHasOneJob
  <2>2. CASE q \in Members
    BY <1>2, <1>3, <2>2 DEF EntryHasOneJob
  <2> QED
    BY <2>1, <2>2 DEF Askers
<1>4. ASSUME hUp => \A q \in Askers : JobsFor(q) = Entry(q) PROVE EntryHasOneJob
  <2>1. ASSUME hUp, NEW q \in NewReceivers
        PROVE  Places(q, TRUE) = IF hActive[q] = "none" THEN 0 ELSE 1
    <3>1. JobsFor(q) = Entry(q)
      BY <1>4, <2>1 DEF Askers
    <3>2. Places(q, TRUE) = JobsFor(q)
      BY <1>1
    <3>3. Entry(q) = IF hActive[q] = "none" THEN 0 ELSE 1
      BY <1>1
    <3> QED
      BY <3>1, <3>2, <3>3
  <2>2. ASSUME hUp, NEW q \in Members PROVE Places(q, FALSE) = IF q \in hClaimed THEN 1 ELSE 0
    BY <1>2, <1>4, <2>2 DEF Askers
  <2> QED
    BY <2>1, <2>2 DEF EntryHasOneJob
<1> QED
  BY <1>3, <1>4

\* No request has come in at first.
LEMMA HolderInitInv == HolderInit => HolderInv
<1> SUFFICES ASSUME HolderInit PROVE HolderInv
  OBVIOUS
<1> USE HolderAssumption DEF HolderInit
<1>1. HolderTypes
  <2>1. hWorker \in [Workers -> [at : Stations, job : Askers \cup {NoJob}]]
    BY DEF Idle, Stations
  <2>2. HolderTypeOK
    BY DEF HolderTypeOK, Idle, Askers, Response
  <2> QED
    BY <2>1, <2>2 DEF HolderTypes, Idle, Blocking
<1>2. ASSUME NEW q \in Askers PROVE JobsFor(q) = Entry(q)
  <2>1. Count(<<>>, q) = 0
    <3>1. {n \in DOMAIN <<>> : <<>>[n] = q} = {}
      OBVIOUS
    <3> QED
      BY <3>1, FS_EmptySet DEF Count
  <2>2. JobsOf(hWorker, q) = 0
    <3>1. {w \in Workers : hWorker[w].job = q} = {}
      BY DEF Idle
    <3> QED
      BY <3>1, FS_EmptySet DEF JobsOf
  <2>3. hBlocked # <<"job", q>>
    BY DEF Askers
  <2> QED
    BY <2>1, <2>2, <2>3 DEF JobsFor, Entry, One, Askers
<1> QED
  BY <1>1, <1>2 DEF HolderInv

\* The counts are numbers.
LEMMA CountNat ==
    ASSUME HolderTypes, NEW q \in Askers
    PROVE  Count(hQueue, q) \in Nat /\ Count(hOut, q) \in Nat /\ JobsOf(hWorker, q) \in Nat
<1>1. Count(hQueue, q) \in Nat
  BY CountIsNat DEF HolderTypes
<1>2. Count(hOut, q) \in Nat
  BY CountIsNat DEF HolderTypes
<1>3. JobsOf(hWorker, q) \in Nat
  BY HolderAssumption, FS_Subset, FS_CardinalityType DEF JobsOf
<1> QED
  BY <1>1, <1>2, <1>3

LEMMA JobsNat ==
    ASSUME HolderTypes, HolderTypes', NEW q \in Askers
    PROVE  JobsFor(q) \in Nat /\ Entry(q) \in Nat /\ JobsFor(q)' \in Nat /\ Entry(q)' \in Nat
<1>1. JobsFor(q) \in Nat /\ Entry(q) \in Nat
  BY CountNat DEF JobsFor, Entry, One
<1>2. Count(hQueue', q) \in Nat /\ Count(hOut', q) \in Nat
  BY CountIsNat DEF HolderTypes
<1>3. JobsOf(hWorker', q) \in Nat
  BY HolderAssumption, FS_Subset, FS_CardinalityType DEF JobsOf
<1>4. JobsFor(q)' \in Nat /\ Entry(q)' \in Nat
  BY <1>2, <1>3 DEF JobsFor, Entry, One
<1> QED
  BY <1>1, <1>4

\* A job less and its entry less.
LEMMA OneLess ==
    ASSUME HolderTypes, HolderTypes', NEW q \in Askers, NEW b,
           JobsFor(q) = JobsFor(q)' + One(b), Entry(q) = Entry(q)' + One(b)
    PROVE  JobsFor(q)' - Entry(q)' = JobsFor(q) - Entry(q)
<1>1. JobsFor(q) \in Nat /\ Entry(q) \in Nat /\ JobsFor(q)' \in Nat /\ Entry(q)' \in Nat
  BY JobsNat
<1>2. One(b) \in Nat
  BY DEF One
<1> QED
  BY <1>1, <1>2

\* A step that leaves every request with as many jobs as before, its entry in
\* step with them.
LEMMA BalancedInv ==
    ASSUME HolderInv, HolderTypes', hUp' => hUp,
           hUp => \A q \in Askers : JobsFor(q)' - Entry(q)' = JobsFor(q) - Entry(q)
    PROVE  HolderInv'
<1> SUFFICES ASSUME hUp, NEW q \in Askers PROVE JobsFor(q)' = Entry(q)'
  BY DEF HolderInv
<1>1. JobsFor(q)' - Entry(q)' = JobsFor(q) - Entry(q) /\ JobsFor(q) = Entry(q)
  BY DEF HolderInv
<1>2. JobsFor(q) \in Nat /\ Entry(q) \in Nat /\ JobsFor(q)' \in Nat /\ Entry(q)' \in Nat
  BY JobsNat DEF HolderInv
<1> QED
  BY <1>1, <1>2

\* A message comes in.
LEMMA ArriveInv == ASSUME HolderInv, NEW m \in Messages, Arrive(m) PROVE HolderInv'
<1>1. /\ UNCHANGED <<hBlocked, hQueue, hWorker, hActive, hClaimed, hCall, hStored,
                     hOut, hAnswered>>
      /\ hUp /\ hSeen' = [hSeen EXCEPT ![m] = @ + 1]
      /\ \/ Len(hRouterQ) < RouterCap /\ hRouterQ' = Append(hRouterQ, m) /\ UNCHANGED hUp
         \/ UNCHANGED hRouterQ
  BY DEF Arrive
<1>2. hRouterQ' \in Seq(Messages) /\ Len(hRouterQ') <= RouterCap
  <2>1. hRouterQ \in Seq(Messages) /\ Len(hRouterQ) <= RouterCap /\ RouterCap \in Nat
    BY HolderAssumption DEF HolderInv, HolderTypes, HolderTypeOK
  <2>2. /\ Append(hRouterQ, m) \in Seq(Messages) /\ Len(hRouterQ) \in Nat
        /\ Len(Append(hRouterQ, m)) = Len(hRouterQ) + 1
    BY <2>1
  <2>3. CASE UNCHANGED hRouterQ
    BY <2>1, <2>3
  <2>4. CASE Len(hRouterQ) < RouterCap /\ hRouterQ' = Append(hRouterQ, m)
    <3>1. Len(hRouterQ) + 1 <= RouterCap
      BY <2>1, <2>2, <2>4
    <3> QED
      BY <2>2, <2>4, <3>1
  <2> QED
    BY <1>1, <2>3, <2>4
<1>3. HolderTypes'
  BY <1>1, <1>2 DEF HolderInv, HolderTypes, HolderTypeOK
<1>4. \A q : JobsFor(q)' = JobsFor(q) /\ Entry(q)' = Entry(q)
  BY <1>1 DEF JobsFor, Entry
<1> QED
  BY <1>1, <1>3, <1>4, BalancedInv

\* Taking the first element leaves a queue within its bound.
LEMMA QueueTail ==
    ASSUME NEW S, NEW s \in Seq(S), s # <<>>, NEW Cap \in Nat, Len(s) <= Cap
    PROVE  Head(s) \in S /\ Tail(s) \in Seq(S) /\ Len(Tail(s)) <= Cap
<1>1. Head(s) \in S /\ Tail(s) \in Seq(S) /\ Len(Tail(s)) = Len(s) - 1
  OBVIOUS
<1> QED
  BY <1>1

\* A message is handled.
LEMMA DispatchInv == ASSUME HolderInv, Dispatch PROVE HolderInv'
<1> DEFINE m == Head(hRouterQ)
           q == m[2]
<1>1. /\ hUp /\ hBlocked = NoJob /\ hRouterQ # <<>> /\ hRouterQ' = Tail(hRouterQ)
      /\ UNCHANGED <<hSeen, hUp, hQueue, hWorker, hCall, hOut, hAnswered>>
  BY DEF Dispatch
<1>2. m \in Messages /\ hRouterQ' \in Seq(Messages) /\ Len(hRouterQ') <= RouterCap
  <2>1. hRouterQ \in Seq(Messages) /\ Len(hRouterQ) <= RouterCap /\ RouterCap \in Nat
    BY HolderAssumption DEF HolderInv, HolderTypes, HolderTypeOK
  <2> QED
    BY <1>1, <2>1, QueueTail
<1>3. ASSUME NEW r \in Askers PROVE hBlocked # <<"job", r>>
  BY <1>1, HolderAssumption
<1>4. CASE m[1] = "get" /\ Registers(q) /\ RegisterJob(q) /\ hBlocked' = <<"job", q>>
           /\ UNCHANGED hStored
  <2>1. q \in Askers
    BY <1>2, <1>4 DEF Messages
  <2>2. HolderTypes'
    BY <1>1, <1>2, <1>4, <2>1
       DEF HolderInv, HolderTypes, HolderTypeOK, RegisterJob, Blocking
  <2>3. ASSUME NEW r \in Askers PROVE JobsFor(r)' - Entry(r)' = JobsFor(r) - Entry(r)
    <3>1. One(hBlocked' = <<"job", r>>) = One(r = q) /\ One(hBlocked = <<"job", r>>) = 0
      BY <1>3, <1>4 DEF One
    <3>2. Entry(r)' = Entry(r) + One(r = q)
      BY <1>4, <2>1, HolderAssumption
         DEF Registers, RegisterJob, Entry, One, Askers, HolderInv, HolderTypes, HolderTypeOK
    <3>3. JobsFor(r)' = JobsFor(r) + One(r = q)
      BY <1>1, <3>1, CountNat DEF JobsFor, HolderInv, One
    <3> QED
      BY <3>2, <3>3, CountNat DEF JobsFor, Entry, One, HolderInv
  <2> QED
    BY <1>1, <2>2, <2>3, BalancedInv
<1>5. CASE UNCHANGED <<hActive, hClaimed, hBlocked, hStored>>
  <2>1. HolderTypes'
    BY <1>1, <1>2, <1>5 DEF HolderInv, HolderTypes, HolderTypeOK
  <2>2. \A r : JobsFor(r)' = JobsFor(r) /\ Entry(r)' = Entry(r)
    BY <1>1, <1>5 DEF JobsFor, Entry
  <2> QED
    BY <1>1, <2>1, <2>2, BalancedInv
<1>6. CASE MarkCancelled(q) /\ UNCHANGED <<hClaimed, hBlocked, hStored>>
  <2>1. hActive' \in [NewReceivers -> {"none", "active", "cancelled"}]
        /\ \A r \in NewReceivers : hActive'[r] = "none" <=> hActive[r] = "none"
    BY <1>6 DEF MarkCancelled, HolderInv, HolderTypes, HolderTypeOK
  <2>2. HolderTypes'
    BY <1>1, <1>2, <1>6, <2>1 DEF HolderInv, HolderTypes, HolderTypeOK
  <2>3. \A r \in Askers : JobsFor(r)' = JobsFor(r) /\ Entry(r)' = Entry(r)
    BY <1>1, <1>6, <2>1 DEF JobsFor, Entry, One
  <2> QED
    BY <1>1, <2>2, <2>3, BalancedInv
<1>7. CASE m[1] = "store" /\ hStored' = hStored \cup {q} /\ hBlocked' = <<"reply", q>>
           /\ UNCHANGED <<hActive, hClaimed>>
  <2>1. q \in Response
    BY <1>2, <1>7, HolderAssumption DEF Messages
  <2>2. HolderTypes'
    BY <1>1, <1>2, <1>7, <2>1 DEF HolderInv, HolderTypes, HolderTypeOK, Blocking
  <2>3. \A r \in Askers : JobsFor(r)' = JobsFor(r) /\ Entry(r)' = Entry(r)
    BY <1>1, <1>3, <1>7 DEF JobsFor, Entry, One
  <2> QED
    BY <1>1, <2>2, <2>3, BalancedInv
<1> HIDE DEF m, q
<1> QED
  BY <1>4, <1>5, <1>6, <1>7 DEF Dispatch, m, q

\* Dispatch finds room for what it waits with.
LEMMA EnqueueInv == ASSUME HolderInv, Enqueue PROVE HolderInv'
<1>1. /\ hUp /\ hBlocked # NoJob /\ hBlocked' = NoJob
      /\ UNCHANGED <<hSeen, hRouterQ, hUp, hWorker, hActive, hClaimed, hCall, hStored, hAnswered>>
  BY DEF Enqueue
<1>2. /\ hQueue \in Seq(Askers) /\ hOut \in Seq(Askers \cup Response)
      /\ Len(hQueue) <= QueueCap /\ Len(hOut) <= OutCap
      /\ hBlocked \in ({"job"} \X Askers) \cup ({"reply"} \X Response)
      /\ QueueCap \in Nat /\ OutCap \in Nat
  BY <1>1, HolderAssumption DEF HolderInv, HolderTypes, HolderTypeOK, Blocking
<1> DEFINE x == hBlocked[2]
<1>3. \A r \in Askers : One(hBlocked' = <<"job", r>>) = 0
  BY <1>1, HolderAssumption DEF One
<1>4. CASE hBlocked[1] = "job" /\ Len(hQueue) < QueueCap
           /\ hQueue' = Append(hQueue, x) /\ UNCHANGED hOut
  <2>1. x \in Askers /\ hBlocked = <<"job", x>>
    BY <1>2, <1>4
  <2> HIDE DEF x
  <2>2. hQueue' \in Seq(Askers) /\ Len(hQueue') <= QueueCap
    BY <1>2, <1>4, <2>1
  <2>3. HolderTypes'
    BY <1>1, <1>4, <2>2 DEF HolderInv, HolderTypes, HolderTypeOK, Blocking
  <2>4. ASSUME NEW r \in Askers PROVE JobsFor(r)' - Entry(r)' = JobsFor(r) - Entry(r)
    <3>1. Count(hQueue', r) = Count(hQueue, r) + One(x = r)
      BY <1>2, <1>4, <2>1, CountAppend
    <3>2. One(hBlocked = <<"job", r>>) = One(x = r) /\ Entry(r)' = Entry(r)
      BY <1>1, <2>1 DEF One, Entry
    <3>3. JobsFor(r)' = JobsFor(r)
      BY <1>1, <1>3, <1>4, <3>1, <3>2, CountNat DEF JobsFor, One, HolderInv
    <3> QED
      BY <3>2, <3>3
  <2> QED
    BY <1>1, <2>3, <2>4, BalancedInv
<1>5. CASE hBlocked[1] = "reply" /\ Len(hOut) < OutCap
           /\ hOut' = Append(hOut, x) /\ UNCHANGED hQueue
  <2>1. x \in Response /\ x \notin Askers /\ hBlocked[1] # "job"
    BY <1>2, <1>5, HolderAssumption
  <2> HIDE DEF x
  <2>2. hOut' \in Seq(Askers \cup Response) /\ Len(hOut') <= OutCap
    BY <1>2, <1>5, <2>1
  <2>3. HolderTypes'
    BY <1>1, <1>5, <2>2 DEF HolderInv, HolderTypes, HolderTypeOK, Blocking
  <2>4. ASSUME NEW r \in Askers PROVE JobsFor(r)' - Entry(r)' = JobsFor(r) - Entry(r)
    <3>1. Count(hOut', r) = Count(hOut, r)
      <4>1. Count(hOut', r) = Count(hOut, r) + One(x = r) /\ Count(hOut, r) \in Nat
        <5>1. x \in Askers \cup Response
          BY <2>1
        <5> QED
          BY SMTT(30), <1>2, <1>5, <5>1, CountAppend
      <4>2. One(x = r) = 0
        BY <2>1 DEF One
      <4> QED
        BY <4>1, <4>2
    <3>2. One(hBlocked = <<"job", r>>) = 0 /\ Entry(r)' = Entry(r)
      BY <1>1, <2>1 DEF One, Entry
    <3>3. JobsFor(r)' = JobsFor(r)
      BY <1>1, <1>3, <1>5, <3>1, <3>2, CountNat DEF JobsFor, HolderInv
    <3> QED
      BY <3>2, <3>3
  <2> QED
    BY <1>1, <2>3, <2>4, BalancedInv
<1> HIDE DEF x
<1> QED
  BY <1>4, <1>5 DEF Enqueue, x

\* A worker takes a job, or finds that it has been cancelled.
LEMMA TakeJobInv == ASSUME HolderInv, NEW w \in Workers, TakeJob(w) PROVE HolderInv'
<1> DEFINE q == Head(hQueue)
<1>1. /\ hUp /\ hWorker[w].at = "idle" /\ hQueue # <<>> /\ hQueue' = Tail(hQueue)
      /\ UNCHANGED <<hSeen, hRouterQ, hUp, hBlocked, hClaimed, hStored, hOut, hAnswered>>
  BY DEF TakeJob
<1>2. hQueue \in Seq(Askers) /\ Len(hQueue) <= QueueCap /\ QueueCap \in Nat
  BY HolderAssumption DEF HolderInv, HolderTypes, HolderTypeOK
<1>3. q \in Askers /\ hQueue' \in Seq(Askers) /\ Len(hQueue') <= QueueCap
  BY <1>1, <1>2, QueueTail
<1>4. ASSUME NEW r PROVE Count(hQueue, r) = Count(hQueue', r) + One(q = r) /\ Count(hQueue', r) \in Nat
  BY <1>1, <1>2, CountTail
<1>5. \/ Cancelled(q) /\ FinishJob(q) /\ UNCHANGED <<hWorker, hCall>>
      \/ /\ UNCHANGED hActive
         /\ \E s \in {"build", "wait", "send", "drop"} : hWorker' = [hWorker EXCEPT ![w] = At(s, q)]
         /\ hCall' \in [Response -> {"none", "building", "done"}]
  <2>1. CASE Cancelled(q)
    BY <2>1 DEF TakeJob
  <2>2. CASE ~Cancelled(q)
    <3> DEFINE k == Wanted(q)
               s == CASE hCall[k] = "none" -> "build" [] hCall[k] = "building" -> "wait"
                      [] hCall[k] = "done" -> "send" [] OTHER -> "drop"
    <3>1. /\ hWorker' = [hWorker EXCEPT ![w] = At(s, q)] /\ UNCHANGED hActive
          /\ hCall' = IF hCall[k] = "none" THEN [hCall EXCEPT ![k] = "building"] ELSE hCall
      BY <2>2 DEF TakeJob
    <3>2. s \in {"build", "wait", "send", "drop"}
      OBVIOUS
    <3>3. hCall' \in [Response -> {"none", "building", "done"}]
      BY <3>1 DEF HolderInv, HolderTypes, HolderTypeOK
    <3> QED
      BY <3>1, <3>2, <3>3
  <2> QED
    BY <2>1, <2>2
<1> HIDE DEF q
<1>6. CASE Cancelled(q) /\ FinishJob(q) /\ UNCHANGED <<hWorker, hCall>>
  <2>1. /\ hActive' = [hActive EXCEPT ![q] = "none"] /\ q \in NewReceivers
        /\ hActive \in [NewReceivers -> {"none", "active", "cancelled"}]
        /\ hActive[q] = "cancelled"
    BY <1>6 DEF Cancelled, FinishJob, HolderInv, HolderTypes, HolderTypeOK
  <2>2. HolderTypes'
    BY <1>1, <1>3, <1>6, <2>1 DEF HolderInv, HolderTypes, HolderTypeOK
  <2>3. ASSUME NEW r \in Askers PROVE JobsFor(r)' - Entry(r)' = JobsFor(r) - Entry(r)
    <3>1. Entry(r)' = Entry(r) - One(q = r)
      BY <1>1, <2>1 DEF Entry, One
    <3>2. JobsFor(r)' = JobsFor(r) - One(q = r)
      BY SMTT(30), <1>1, <1>4, <1>6, CountNat DEF JobsFor, One, HolderInv
    <3> QED
      BY <3>1, <3>2, CountNat DEF JobsFor, Entry, One, HolderInv
  <2> QED
    BY <1>1, <2>2, <2>3, BalancedInv
<1>7. ASSUME UNCHANGED hActive, hCall' \in [Response -> {"none", "building", "done"}],
             NEW s \in {"build", "wait", "send", "drop"}, hWorker' = [hWorker EXCEPT ![w] = At(s, q)]
      PROVE  HolderInv'
  <2>1. /\ hWorker'[w] = At(s, q) /\ \A v \in Workers \ {w} : hWorker'[v] = hWorker[v]
        /\ hWorker' \in [Workers -> [at : Stations, job : Askers \cup {NoJob}]]
        /\ hWorker[w].job = NoJob /\ NoJob \notin Askers
    BY <1>1, <1>3, <1>7, HolderAssumption DEF HolderInv, HolderTypes, Stations, At
  <2>2. HolderTypes'
    <3>1. \A v \in Workers : hWorker'[v].job = NoJob <=> hWorker'[v].at \in {"idle", "exited"}
      BY <1>3, <1>7, <2>1 DEF HolderInv, HolderTypes, At
    <3>2. \A v \in Workers : hWorker'[v].at \in Stations
      BY <2>1
    <3> QED
      BY <1>1, <1>3, <1>7, <2>1, <3>1, <3>2 DEF HolderInv, HolderTypes, HolderTypeOK, Stations
  <2>3. ASSUME NEW r \in Askers PROVE JobsFor(r)' - Entry(r)' = JobsFor(r) - Entry(r)
    <3>1. /\ JobsOf(hWorker, r) \in Nat /\ JobsOf(hWorker', r) \in Nat
          /\ JobsOf(hWorker', r) + One(hWorker[w].job = r) = JobsOf(hWorker, r) + One(hWorker'[w].job = r)
      BY <2>1, JobsSet
    <3>2. One(hWorker[w].job = r) = 0 /\ One(hWorker'[w].job = r) = One(q = r)
      BY <2>1 DEF One, At
    <3>3. JobsFor(r)' = JobsFor(r) /\ Entry(r)' = Entry(r)
      <4>1. JobsOf(hWorker', r) = JobsOf(hWorker, r) + One(q = r)
        BY <3>1, <3>2 DEF One
      <4>2. Count(hQueue', r) + JobsOf(hWorker', r) = Count(hQueue, r) + JobsOf(hWorker, r)
        BY <1>4, <3>1, <4>1 DEF One
      <4>3. /\ Count(hQueue, r) \in Nat /\ Count(hQueue', r) \in Nat /\ Count(hOut, r) \in Nat
            /\ hBlocked' = hBlocked /\ hOut' = hOut
        BY <1>1, <1>4, CountNat DEF HolderInv
      <4>4. JobsFor(r)' = JobsFor(r)
        BY <3>1, <4>2, <4>3 DEF JobsFor, One
      <4> QED
        BY <1>1, <1>7, <4>4 DEF Entry
    <3> QED
      BY <3>3
  <2> QED
    BY <1>1, <2>2, <2>3, BalancedInv
<1> QED
  BY <1>5, <1>6, <1>7

\* Steps of workers that keep their jobs.
LEMMA KeepJobsInv ==
    ASSUME HolderInv,
           UNCHANGED <<hSeen, hRouterQ, hUp, hBlocked, hQueue, hActive, hClaimed, hStored,
                       hOut, hAnswered>>,
           hCall' \in [Response -> {"none", "building", "done"}],
           hWorker' \in [Workers -> [at : Stations, job : Askers \cup {NoJob}]],
           \A w \in Workers : /\ hWorker'[w].job = hWorker[w].job
                              /\ \/ hWorker'[w].at = hWorker[w].at
                                 \/ /\ hWorker[w].at \notin {"idle", "exited"}
                                    /\ hWorker'[w].at \notin {"idle", "exited"}
    PROVE  HolderInv'
<1>1. \A w \in Workers : hWorker'[w].job = NoJob <=> hWorker'[w].at \in {"idle", "exited"}
  BY DEF HolderInv, HolderTypes
<1>2. HolderTypes'
  BY <1>1 DEF HolderInv, HolderTypes, HolderTypeOK, Stations
<1>3. \A r : JobsOf(hWorker', r) = JobsOf(hWorker, r)
  <2> SUFFICES ASSUME NEW r PROVE JobsOf(hWorker', r) = JobsOf(hWorker, r)
    OBVIOUS
  <2>1. {w \in Workers : hWorker'[w].job = r} = {w \in Workers : hWorker[w].job = r}
    OBVIOUS
  <2> QED
    BY <2>1 DEF JobsOf
<1>4. \A r \in Askers : JobsFor(r)' = JobsFor(r) /\ Entry(r)' = Entry(r)
  BY <1>3 DEF JobsFor, Entry
<1> QED
  BY <1>2, <1>4, BalancedInv

\* A worker reads the holder store, or ends the call and passes its outcome on.
LEMMA BuildInv ==
    ASSUME HolderInv, NEW w \in Workers, ReadStore(w) \/ CloseCall(w) PROVE HolderInv'
<1>1. /\ hWorker \in [Workers -> [at : Stations, job : Askers \cup {NoJob}]]
      /\ hCall \in [Response -> {"none", "building", "done"}]
  BY DEF HolderInv, HolderTypes, HolderTypeOK
<1>2. CASE ReadStore(w)
  <2>1. \E s \in {"ok", "err"} : hWorker' = [hWorker EXCEPT ![w].at = s]
    BY <1>2 DEF ReadStore
  <2>2. PICK s \in {"ok", "err"} : hWorker' = [hWorker EXCEPT ![w].at = s]
    BY <2>1
  <2>3. /\ hWorker' \in [Workers -> [at : Stations, job : Askers \cup {NoJob}]]
        /\ hWorker'[w].at = s /\ hWorker'[w].job = hWorker[w].job
        /\ \A v \in Workers \ {w} : hWorker'[v] = hWorker[v]
    BY <1>1, <2>2 DEF Stations
  <2>4. hWorker[w].at = "build" /\ hCall' = hCall
        /\ UNCHANGED <<hSeen, hRouterQ, hUp, hBlocked, hQueue, hActive, hClaimed, hStored,
                       hOut, hAnswered>>
    BY <1>2 DEF ReadStore
  <2>5. \A v \in Workers : /\ hWorker'[v].job = hWorker[v].job
                           /\ \/ hWorker'[v].at = hWorker[v].at
                              \/ /\ hWorker[v].at \notin {"idle", "exited"}
                                 /\ hWorker'[v].at \notin {"idle", "exited"}
    BY <2>3, <2>4
  <2> QED
    BY <1>1, <2>3, <2>4, <2>5, KeepJobsInv
<1>3. CASE CloseCall(w)
  <2> DEFINE k == Wanted(hWorker[w].job)
             then == IF hWorker[w].at = "ok" THEN "send" ELSE "drop"
  <2>1. /\ hWorker[w].at \in {"ok", "err"}
        /\ hCall' = [hCall EXCEPT ![k] = CallAfter(w)]
        /\ hWorker' = [v \in Workers |->
                 IF v = w \/ (hWorker[v].at = "wait" /\ Wanted(hWorker[v].job) = k)
                 THEN At(then, hWorker[v].job) ELSE hWorker[v]]
        /\ UNCHANGED <<hSeen, hRouterQ, hUp, hBlocked, hQueue, hActive, hClaimed, hStored,
                       hOut, hAnswered>>
    BY <1>3 DEF CloseCall
  <2>2. then \in {"send", "drop"} /\ CallAfter(w) \in {"none", "building", "done"}
    BY DEF CallAfter
  <2> HIDE DEF k, then
  <2>3. hCall' \in [Response -> {"none", "building", "done"}]
    BY <1>1, <2>1, <2>2
  <2>4. \A v \in Workers :
           \/ hWorker'[v] = hWorker[v]
           \/ hWorker'[v] = At(then, hWorker[v].job) /\ hWorker[v].at \in {"ok", "err", "wait"}
    BY <2>1
  <2>5. hWorker' \in [Workers -> [at : Stations, job : Askers \cup {NoJob}]]
    BY <1>1, <2>1, <2>2, <2>4 DEF At, Stations
  <2>6. \A v \in Workers : /\ hWorker'[v].job = hWorker[v].job
                           /\ \/ hWorker'[v].at = hWorker[v].at
                              \/ /\ hWorker[v].at \notin {"idle", "exited"}
                                 /\ hWorker'[v].at \notin {"idle", "exited"}
    <3> SUFFICES ASSUME NEW v \in Workers,
                        hWorker'[v] = At(then, hWorker[v].job) /\ hWorker[v].at \in {"ok", "err", "wait"}
                 PROVE  /\ hWorker'[v].job = hWorker[v].job
                        /\ hWorker[v].at \notin {"idle", "exited"}
                        /\ hWorker'[v].at \notin {"idle", "exited"}
      BY <2>4
    <3>1. hWorker'[v].job = hWorker[v].job /\ hWorker'[v].at = then
      BY DEF At
    <3> QED
      BY <2>2, <3>1
  <2> QED
    BY <2>1, <2>3, <2>5, <2>6, KeepJobsInv
<1> QED
  BY <1>2, <1>3

\* A worker becomes free of a job.
LEMMA JobsFreed ==
    ASSUME NEW f \in [Workers -> [at : Stations, job : Askers \cup {NoJob}]],
           NEW g \in [Workers -> [at : Stations, job : Askers \cup {NoJob}]],
           NEW w \in Workers, NEW q \in Askers, g[w] = Idle,
           \A v \in Workers \ {w} : g[v] = f[v]
    PROVE  JobsOf(g, q) \in Nat /\ JobsOf(f, q) = JobsOf(g, q) + One(f[w].job = q)
<1>1. \A v \in Workers \ {w} : g[v].job = f[v].job
  OBVIOUS
<1>2. /\ JobsOf(f, q) \in Nat /\ JobsOf(g, q) \in Nat
      /\ JobsOf(g, q) + One(f[w].job = q) = JobsOf(f, q) + One(g[w].job = q)
  BY <1>1, JobsSet
<1>3. One(g[w].job = q) = 0
  BY HolderAssumption DEF One, Idle
<1> QED
  BY <1>2, <1>3 DEF One

LEMMA FreeWorker ==
    ASSUME HolderTypes, NEW w \in Workers, hWorker[w].job # NoJob,
           hWorker' = [hWorker EXCEPT ![w] = Idle]
    PROVE  /\ hWorker[w].job \in Askers
           /\ hWorker' \in [Workers -> [at : Stations, job : Askers \cup {NoJob}]]
           /\ \A v \in Workers : /\ hWorker'[v].job = NoJob <=> hWorker'[v].at \in {"idle", "exited"}
                                 /\ hWorker'[v].at \in Stations
           /\ \A r \in Askers : /\ JobsOf(hWorker', r) \in Nat
                                /\ JobsOf(hWorker, r) = JobsOf(hWorker', r) + One(hWorker[w].job = r)
<1>1. /\ hWorker[w].job \in Askers /\ hWorker'[w] = Idle
      /\ \A v \in Workers \ {w} : hWorker'[v] = hWorker[v]
      /\ hWorker \in [Workers -> [at : Stations, job : Askers \cup {NoJob}]]
      /\ hWorker' \in [Workers -> [at : Stations, job : Askers \cup {NoJob}]]
  BY DEF HolderTypes, Idle, Stations
<1>2. \A v \in Workers : /\ hWorker'[v].job = NoJob <=> hWorker'[v].at \in {"idle", "exited"}
                         /\ hWorker'[v].at \in Stations
  BY <1>1 DEF HolderTypes, Idle
<1>3. ASSUME NEW r \in Askers
      PROVE  /\ JobsOf(hWorker', r) \in Nat
             /\ JobsOf(hWorker, r) = JobsOf(hWorker', r) + One(hWorker[w].job = r)
  <2>1. PICK f, g : f = hWorker /\ g = hWorker'
    OBVIOUS
  <2>2. /\ f \in [Workers -> [at : Stations, job : Askers \cup {NoJob}]]
        /\ g \in [Workers -> [at : Stations, job : Askers \cup {NoJob}]]
        /\ g[w] = Idle /\ \A v \in Workers \ {w} : g[v] = f[v]
    BY <1>1, <2>1
  <2>3. JobsOf(g, r) \in Nat /\ JobsOf(f, r) = JobsOf(g, r) + One(f[w].job = r)
    BY <2>2, JobsFreed
  <2> QED
    BY <2>1, <2>3
<1> QED
  BY <1>1, <1>2, <1>3

\* A job ends without an answer, and its entry with it.
LEMMA DropJobInv == ASSUME HolderInv, NEW w \in Workers, DropJob(w) PROVE HolderInv'
<1> DEFINE q == hWorker[w].job
<1>1. /\ hWorker[w].at \in {"drop", "send"} /\ FinishJob(q) /\ hClaimed' = hClaimed \ {q}
      /\ hWorker' = [hWorker EXCEPT ![w] = Idle]
      /\ UNCHANGED <<hSeen, hRouterQ, hUp, hBlocked, hQueue, hCall, hStored, hOut, hAnswered>>
  BY DEF DropJob, ReleaseClaim
<1>2. q # NoJob
  BY <1>1 DEF HolderInv, HolderTypes
<1>3. /\ q \in Askers
      /\ hWorker' \in [Workers -> [at : Stations, job : Askers \cup {NoJob}]]
      /\ \A v \in Workers : /\ hWorker'[v].job = NoJob <=> hWorker'[v].at \in {"idle", "exited"}
                            /\ hWorker'[v].at \in Stations
      /\ \A r \in Askers : /\ JobsOf(hWorker', r) \in Nat
                           /\ JobsOf(hWorker, r) = JobsOf(hWorker', r) + One(q = r)
  BY <1>1, <1>2, FreeWorker DEF HolderInv
<1> HIDE DEF q
<1>4. hActive \in [NewReceivers -> {"none", "active", "cancelled"}] /\ hClaimed \subseteq Members
  BY DEF HolderInv, HolderTypes, HolderTypeOK
<1>5. hActive' \in [NewReceivers -> {"none", "active", "cancelled"}]
  BY <1>1, <1>4 DEF FinishJob
<1>6. HolderTypes'
  BY <1>1, <1>3, <1>5 DEF HolderInv, HolderTypes, HolderTypeOK, Stations
<1>7. ASSUME hUp, NEW r \in Askers PROVE JobsFor(r)' - Entry(r)' = JobsFor(r) - Entry(r)
  <2>1. /\ JobsOf(hWorker', r) \in Nat /\ JobsOf(hWorker, r) = JobsOf(hWorker', r) + One(q = r)
        /\ Count(hQueue, r) \in Nat /\ Count(hOut, r) \in Nat
    BY <1>3, CountNat DEF HolderInv
  <2>2. JobsFor(r) = JobsFor(r)' + One(q = r)
    BY <1>1, <2>1 DEF JobsFor, One
  <2>3. Entry(r) = Entry(r)' + One(q = r)
    <3>1. CASE q = r
      <4>1. JobsFor(r) = Entry(r) /\ JobsFor(r) >= 1
        BY <1>7, <2>1, <3>1 DEF HolderInv, JobsFor, One
      <4>2. Entry(r) = 1
        BY <4>1 DEF Entry, One
      <4>3. Entry(r)' = 0
        BY <1>1, <1>3, <1>4, <3>1 DEF Entry, One, FinishJob
      <4> QED
        BY <3>1, <4>2, <4>3 DEF One
    <3>2. CASE q # r
      BY <1>1, <1>4, <3>2 DEF Entry, One, FinishJob
    <3> QED
      BY <3>1, <3>2
  <2> QED
    BY <1>6, <2>2, <2>3, OneLess DEF HolderInv
<1> QED
  BY <1>1, <1>6, <1>7, BalancedInv

\* The answer goes to the outbound queue; the claim of a member ends here, the
\* entry of a receiver goes on.
LEMMA SendResponseInv == ASSUME HolderInv, NEW w \in Workers, SendResponse(w) PROVE HolderInv'
<1> DEFINE q == hWorker[w].job
<1>1. /\ hUp /\ hWorker[w].at = "send" /\ Len(hOut) < OutCap /\ hOut' = Append(hOut, q)
      /\ hClaimed' = hClaimed \ {q} /\ hWorker' = [hWorker EXCEPT ![w] = Idle]
      /\ UNCHANGED <<hSeen, hRouterQ, hUp, hBlocked, hQueue, hActive, hCall, hStored, hAnswered>>
  BY DEF SendResponse, ReleaseClaim
<1>2. q # NoJob
  BY <1>1 DEF HolderInv, HolderTypes
<1>3. /\ q \in Askers
      /\ hWorker' \in [Workers -> [at : Stations, job : Askers \cup {NoJob}]]
      /\ \A v \in Workers : /\ hWorker'[v].job = NoJob <=> hWorker'[v].at \in {"idle", "exited"}
                            /\ hWorker'[v].at \in Stations
      /\ \A r \in Askers : /\ JobsOf(hWorker', r) \in Nat
                           /\ JobsOf(hWorker, r) = JobsOf(hWorker', r) + One(q = r)
  BY <1>1, <1>2, FreeWorker DEF HolderInv
<1> HIDE DEF q
<1>4. hOut \in Seq(Askers \cup Response) /\ OutCap \in Nat /\ hClaimed \subseteq Members
  BY HolderAssumption DEF HolderInv, HolderTypes, HolderTypeOK
<1>5. hOut' \in Seq(Askers \cup Response) /\ Len(hOut') <= OutCap
  <2>1. /\ Append(hOut, q) \in Seq(Askers \cup Response)
        /\ Len(Append(hOut, q)) = Len(hOut) + 1 /\ Len(hOut) \in Nat
    BY <1>3, <1>4
  <2> QED
    BY <1>1, <1>4, <2>1
<1>6. HolderTypes'
  BY <1>1, <1>3, <1>5 DEF HolderInv, HolderTypes, HolderTypeOK, Stations
<1>7. ASSUME NEW r \in Askers PROVE JobsFor(r)' - Entry(r)' = JobsFor(r) - Entry(r)
  <2>1. /\ JobsOf(hWorker', r) \in Nat /\ JobsOf(hWorker, r) = JobsOf(hWorker', r) + One(q = r)
        /\ Count(hQueue, r) \in Nat /\ Count(hOut, r) \in Nat
    BY <1>3, CountNat DEF HolderInv
  <2>2. Count(hOut', r) = Count(hOut, r) + One(q = r)
    <3>1. q \in Askers \cup Response
      BY <1>3
    <3> QED
      BY <1>1, <1>4, <3>1, CountAppend
  <2>3. CASE r \in NewReceivers
    <3>1. JobsFor(r)' = JobsFor(r)
      <4>1. PICK b \in Nat : b = One(hBlocked = <<"job", r>>) /\ b = One(hBlocked' = <<"job", r>>)
        BY <1>1 DEF One
      <4>2. Count(hQueue', r) = Count(hQueue, r) /\ One(q = r) \in Nat
        BY <1>1 DEF One
      <4> QED
        BY <2>1, <2>2, <2>3, <4>1, <4>2 DEF JobsFor
    <3>2. Entry(r)' = Entry(r)
      BY <1>1, <2>3 DEF Entry
    <3> QED
      BY <3>1, <3>2
  <2>4. CASE r \notin NewReceivers
    <3>1. JobsFor(r) = JobsFor(r)' + One(q = r)
      <4>1. PICK b \in Nat : b = One(hBlocked = <<"job", r>>) /\ b = One(hBlocked' = <<"job", r>>)
        BY <1>1 DEF One
      <4>2. Count(hQueue', r) = Count(hQueue, r) /\ One(q = r) \in Nat
        BY <1>1 DEF One
      <4> QED
        BY <2>1, <2>4, <4>1, <4>2 DEF JobsFor
    <3>2. Entry(r) = Entry(r)' + One(q = r)
      <4>1. CASE q = r
        <5>1. JobsFor(r) = Entry(r) /\ JobsFor(r) >= 1
          BY <1>1, <2>1, <2>4, <4>1 DEF HolderInv, JobsFor, One
        <5>2. Entry(r) = 1
          BY <5>1 DEF Entry, One
        <5>3. Entry(r)' = 0
          BY <1>1, <2>4, <4>1 DEF Entry, One
        <5> QED
          BY <4>1, <5>2, <5>3 DEF One
      <4>2. CASE q # r
        BY <1>1, <2>4, <4>2 DEF Entry, One
      <4> QED
        BY <4>1, <4>2
    <3> QED
      BY <1>6, <3>1, <3>2, OneLess DEF HolderInv
  <2> QED
    BY <2>3, <2>4
<1> QED
  BY <1>1, <1>6, <1>7, BalancedInv

\* An answer leaves, or is dropped when it has been cancelled; the entry ends.
LEMMA OutboundInv == ASSUME HolderInv, Outbound PROVE HolderInv'
<1> DEFINE q == Head(hOut)
<1>1. /\ hUp /\ hOut # <<>> /\ hOut' = Tail(hOut)
      /\ UNCHANGED <<hSeen, hRouterQ, hUp, hBlocked, hQueue, hWorker, hClaimed, hCall, hStored>>
      /\ \/ q \in Response /\ UNCHANGED <<hActive, hAnswered>>
         \/ /\ q \notin Response /\ FinishJob(q)
            /\ hAnswered' \in {hAnswered, hAnswered \cup {q}}
  BY DEF Outbound
<1>2. hOut \in Seq(Askers \cup Response) /\ Len(hOut) <= OutCap /\ OutCap \in Nat
  BY HolderAssumption DEF HolderInv, HolderTypes, HolderTypeOK
<1>3. q \in Askers \cup Response /\ hOut' \in Seq(Askers \cup Response) /\ Len(hOut') <= OutCap
  BY <1>1, <1>2, QueueTail
<1>4. ASSUME NEW r PROVE Count(hOut, r) = Count(hOut', r) + One(q = r) /\ Count(hOut', r) \in Nat
  BY <1>1, <1>2, CountTail
<1> HIDE DEF q
<1>5. hActive \in [NewReceivers -> {"none", "active", "cancelled"}] /\ hAnswered \subseteq Askers
  BY DEF HolderInv, HolderTypes, HolderTypeOK
<1>6. /\ hActive' \in [NewReceivers -> {"none", "active", "cancelled"}] /\ hAnswered' \subseteq Askers
      /\ \A r \in NewReceivers : hActive'[r] = IF r = q THEN "none" ELSE hActive[r]
  BY <1>1, <1>3, <1>5, HolderAssumption DEF FinishJob, Askers
<1>7. HolderTypes'
  BY <1>1, <1>3, <1>6 DEF HolderInv, HolderTypes, HolderTypeOK
<1>8. ASSUME hUp, NEW r \in Askers PROVE JobsFor(r)' - Entry(r)' = JobsFor(r) - Entry(r)
  <2>1. /\ Count(hOut, r) = Count(hOut', r) + One(q = r) /\ Count(hOut', r) \in Nat
        /\ JobsOf(hWorker, r) \in Nat /\ Count(hQueue, r) \in Nat
    BY <1>4, CountNat DEF HolderInv
  <2>2. CASE r \in NewReceivers
    <3>1. JobsFor(r) = JobsFor(r)' + One(q = r)
      BY <1>1, <2>1, <2>2 DEF JobsFor, One
    <3>2. Entry(r) = Entry(r)' + One(q = r)
      <4>1. CASE q = r
        <5>1. JobsFor(r) = Entry(r) /\ JobsFor(r) >= 1
          BY <1>8, <2>1, <2>2, <4>1 DEF HolderInv, JobsFor, One
        <5>2. Entry(r) = 1
          BY <5>1 DEF Entry, One
        <5>3. Entry(r)' = 0
          BY <1>6, <2>2, <4>1 DEF Entry, One
        <5> QED
          BY <4>1, <5>2, <5>3 DEF One
      <4>2. CASE q # r
        BY <1>6, <2>2, <4>2 DEF Entry, One
      <4> QED
        BY <4>1, <4>2
    <3> QED
      BY <1>7, <3>1, <3>2, OneLess DEF HolderInv
  <2>3. CASE r \notin NewReceivers
    BY <1>1, <2>3 DEF JobsFor, Entry, One
  <2> QED
    BY <2>2, <2>3
<1> QED
  BY <1>1, <1>7, <1>8, BalancedInv

\* The workers leave when the service is down, whatever their jobs.
LEMMA WorkerExitsInv == ASSUME HolderInv, NEW w \in Workers, WorkerExits(w) PROVE HolderInv'
<1>1. /\ ~hUp /\ hWorker' = [hWorker EXCEPT ![w] = At("exited", NoJob)]
      /\ UNCHANGED <<hSeen, hRouterQ, hUp, hBlocked, hQueue, hActive, hClaimed, hCall, hStored,
                     hOut, hAnswered>>
  BY DEF WorkerExits
<1>2. /\ hWorker' \in [Workers -> [at : Stations, job : Askers \cup {NoJob}]]
      /\ hWorker'[w] = At("exited", NoJob) /\ \A v \in Workers \ {w} : hWorker'[v] = hWorker[v]
  BY <1>1 DEF HolderInv, HolderTypes, At, Stations
<1>3. \A v \in Workers : /\ hWorker'[v].job = NoJob <=> hWorker'[v].at \in {"idle", "exited"}
                         /\ hWorker'[v].at \in Stations
  BY <1>2 DEF HolderInv, HolderTypes, At
<1>4. HolderTypes'
  BY <1>1, <1>2, <1>3 DEF HolderInv, HolderTypes, HolderTypeOK, Stations
<1> QED
  BY <1>1, <1>4 DEF HolderInv

\* Every step of the holder.
LEMMA HolderStepInv == HolderInv /\ [HolderNext]_holderVars => HolderInv'
<1> SUFFICES ASSUME HolderInv, [HolderNext]_holderVars PROVE HolderInv'
  OBVIOUS
<1>1. CASE HolderNext
  BY <1>1, ArriveInv, DispatchInv, EnqueueInv, TakeJobInv, BuildInv, DropJobInv, SendResponseInv,
     OutboundInv, WorkerExitsInv DEF HolderNext
<1>2. CASE UNCHANGED holderVars
  <2>1. UNCHANGED <<hSeen, hRouterQ, hUp, hBlocked, hQueue, hActive, hClaimed, hStored, hOut,
                    hAnswered, hCall, hWorker>>
    BY <1>2 DEF holderVars
  <2> QED
    BY <2>1, KeepJobsInv DEF HolderInv, HolderTypes, HolderTypeOK
<1> QED
  BY <1>1, <1>2

\* The tables of a holder.
LEMMA HolderHolds == HolderInv => HolderTypeOK /\ EntryHasOneJob
BY EntriesAreJobs DEF HolderInv, HolderTypes

-----------------------------------------------------------------------------
(* Who gets a holder going again. *)

Building(f, v, k) == f[v].at \in {"build", "ok", "err"} /\ Wanted(f[v].job) = k

\* Somebody builds what a call is open for and what workers wait for, and while
\* the service runs no worker has left.
BuildersThere ==
    /\ \A k \in Response : hCall[k] = "building" => \E v \in Workers : Building(hWorker, v, k)
    /\ \A w \in Workers : hWorker[w].at = "wait" =>
          \E v \in Workers : Building(hWorker, v, Wanted(hWorker[w].job))
    /\ hUp => \A w \in Workers : hWorker[w].at # "exited"

\* A step that starts no wait and takes no builder away.
LEMMA BuildersStay ==
    ASSUME BuildersThere, hUp' => hUp, hCall' = hCall,
           \A v \in Workers : \A k \in Response : Building(hWorker, v, k) => Building(hWorker', v, k),
           \A v \in Workers : hWorker'[v].at = "wait" => hWorker'[v] = hWorker[v],
           \A v \in Workers : hWorker'[v].at = "exited" => hWorker[v].at = "exited" \/ ~hUp
    PROVE  BuildersThere'
<1>1. \A v \in Workers : Wanted(hWorker[v].job) \in Response
  BY DEF Wanted, Response
<1>2. ASSUME NEW k \in Response, hCall'[k] = "building" PROVE \E v \in Workers : Building(hWorker', v, k)
  BY <1>2 DEF BuildersThere
<1>3. ASSUME NEW w \in Workers, hWorker'[w].at = "wait"
      PROVE  \E v \in Workers : Building(hWorker', v, Wanted(hWorker[w].job))
  BY <1>1, <1>3 DEF BuildersThere
<1>4. \A w \in Workers : hWorker'[w].at = "wait" => hWorker'[w].job = hWorker[w].job
  OBVIOUS
<1>5. \A w \in Workers : hWorker'[w].at = "wait" =>
         \E v \in Workers : Building(hWorker', v, Wanted(hWorker[w].job))
  BY <1>3
<1>6. \A w \in Workers : hWorker'[w].at = "wait" =>
         \E v \in Workers : hWorker'[v].at \in {"build", "ok", "err"}
                            /\ Wanted(hWorker'[v].job) = Wanted(hWorker'[w].job)
  BY <1>4, <1>5 DEF Building
<1>7. hUp' => \A w \in Workers : hWorker'[w].at # "exited"
  BY DEF BuildersThere
<1> QED
  BY <1>2, <1>6, <1>7 DEF BuildersThere, Building

LEMMA BuildersStep == HolderInv /\ BuildersThere /\ [HolderNext]_holderVars => BuildersThere'
<1> SUFFICES ASSUME HolderInv, BuildersThere, [HolderNext]_holderVars PROVE BuildersThere'
  OBVIOUS
<1>0. /\ hWorker \in [Workers -> [at : Stations, job : Askers \cup {NoJob}]]
      /\ hCall \in [Response -> {"none", "building", "done"}]
      /\ \A q : Wanted(q) \in Response
  BY DEF HolderInv, HolderTypes, HolderTypeOK, Wanted, Response
<1>1. CASE \/ Dispatch \/ Enqueue \/ Outbound \/ UNCHANGED holderVars
           \/ \E m \in Messages : Arrive(m)
  <2>1. UNCHANGED <<hWorker, hCall>> /\ (hUp' => hUp)
    BY <1>1 DEF Dispatch, Enqueue, Outbound, holderVars, Arrive
  <2> QED
    BY <2>1 DEF BuildersThere, Building
<1>2. ASSUME NEW w \in Workers, TakeJob(w) PROVE BuildersThere'
  <2> DEFINE q == Head(hQueue)
             k == Wanted(q)
  <2>1. hWorker[w].at = "idle" /\ hUp' = hUp
    BY <1>2 DEF TakeJob
  <2>2. CASE Cancelled(q)
    BY <1>2, <2>1, <2>2 DEF TakeJob, BuildersThere, Building
  <2>3. CASE ~Cancelled(q)
    <3> DEFINE s == CASE hCall[k] = "none" -> "build" [] hCall[k] = "building" -> "wait"
                      [] hCall[k] = "done" -> "send" [] OTHER -> "drop"
    <3>1. /\ hWorker' = [hWorker EXCEPT ![w] = At(s, q)] /\ k \in Response
          /\ hCall' = IF hCall[k] = "none" THEN [hCall EXCEPT ![k] = "building"] ELSE hCall
      BY <1>0, <1>2, <2>3 DEF TakeJob
    <3>2. /\ s = "wait" => hCall[k] = "building"
          /\ hCall[k] = "none" => s = "build"
          /\ s # "exited"
      BY <1>0, <3>1
    <3> HIDE DEF s, k
    <3>3. hWorker'[w] = At(s, q) /\ \A v \in Workers \ {w} : hWorker'[v] = hWorker[v]
      BY <1>0, <3>1
    <3>4. \A v \in Workers : \A x \in Response : Building(hWorker, v, x) => Building(hWorker', v, x)
      BY <2>1, <3>3 DEF Building
    <3>5. ASSUME NEW x \in Response, hCall'[x] = "building"
          PROVE  \E v \in Workers : Building(hWorker', v, x)
      <4>1. CASE hCall[x] = "building"
        BY <3>4, <4>1 DEF BuildersThere
      <4>2. CASE hCall[x] # "building"
        <5>1. x = k /\ s = "build"
          BY <1>0, <3>1, <3>2, <3>5, <4>2
        <5> QED
          BY <3>3, <5>1 DEF Building, At, k
      <4> QED
        BY <4>1, <4>2
    <3>6. ASSUME NEW u \in Workers, hWorker'[u].at = "wait"
          PROVE  \E v \in Workers : Building(hWorker', v, Wanted(hWorker'[u].job))
      <4>1. CASE u = w
        <5>1. hCall[k] = "building" /\ Wanted(hWorker'[u].job) = k
          BY <3>2, <3>3, <3>6, <4>1 DEF At, k
        <5>2. \E v \in Workers : Building(hWorker', v, k)
          BY <3>1, <3>4, <5>1 DEF BuildersThere
        <5> QED
          BY <5>1, <5>2 DEF Building
      <4>2. CASE u # w
        <5>1. hWorker'[u] = hWorker[u] /\ Wanted(hWorker[u].job) \in Response
          BY <1>0, <3>3, <4>2
        <5>2. PICK v \in Workers : Building(hWorker, v, Wanted(hWorker[u].job))
          BY <3>6, <5>1 DEF BuildersThere
        <5>3. v # w
          BY <2>1, <5>2 DEF Building
        <5>4. hWorker'[v] = hWorker[v]
          BY <3>3, <5>3
        <5> QED
          BY <5>1, <5>2, <5>4 DEF Building
      <4> QED
        BY <4>1, <4>2
    <3>7. hUp' => \A u \in Workers : hWorker'[u].at # "exited"
      BY <2>1, <3>2, <3>3 DEF BuildersThere, At
    <3> QED
      BY <3>5, <3>6, <3>7 DEF BuildersThere, Building
  <2> QED
    BY <2>2, <2>3
<1>3. ASSUME NEW w \in Workers, ReadStore(w) PROVE BuildersThere'
  <2>1. /\ hWorker[w].at = "build" /\ hUp' = hUp /\ hCall' = hCall
        /\ hWorker'[w].at \in {"ok", "err"} /\ hWorker'[w].job = hWorker[w].job
        /\ \A v \in Workers \ {w} : hWorker'[v] = hWorker[v]
    BY <1>0, <1>3 DEF ReadStore
  <2> QED
    BY <2>1, BuildersStay DEF Building
<1>4. ASSUME NEW w \in Workers, CloseCall(w) PROVE BuildersThere'
  <2> DEFINE k == Wanted(hWorker[w].job)
             then == IF hWorker[w].at = "ok" THEN "send" ELSE "drop"
  <2>1. /\ hWorker[w].at \in {"ok", "err"} /\ hUp' = hUp
        /\ hCall' = [hCall EXCEPT ![k] = CallAfter(w)]
        /\ \A v \in Workers : hWorker'[v] =
              IF v = w \/ (hWorker[v].at = "wait" /\ Wanted(hWorker[v].job) = k)
              THEN At(then, hWorker[v].job) ELSE hWorker[v]
        /\ then \in {"send", "drop"} /\ k \in Response
        /\ CallAfter(w) # "building"
    BY <1>0, <1>4 DEF CloseCall, CallAfter
  <2> HIDE DEF k, then
  <2>0. \A x : At(then, x).at \notin {"wait", "exited"}
    BY <2>1 DEF At
  <2>2. ASSUME NEW x \in Response, x # k, NEW v \in Workers, Building(hWorker, v, x)
        PROVE  hWorker'[v] = hWorker[v] /\ Building(hWorker', v, x)
    <3>1. v # w
      BY <2>2 DEF Building, k
    <3> QED
      BY <2>1, <2>2, <3>1 DEF Building
  <2>3. ASSUME NEW x \in Response, hCall'[x] = "building"
        PROVE  \E v \in Workers : Building(hWorker', v, x)
    <3>1. x # k /\ hCall[x] = "building"
      BY <1>0, <2>1, <2>3
    <3> QED
      BY <2>2, <3>1 DEF BuildersThere
  <2>4. ASSUME NEW u \in Workers, hWorker'[u].at = "wait"
        PROVE  \E v \in Workers : Building(hWorker', v, Wanted(hWorker'[u].job))
    <3>1. hWorker'[u] = hWorker[u] /\ Wanted(hWorker[u].job) # k
      <4>1. ~(u = w \/ (hWorker[u].at = "wait" /\ Wanted(hWorker[u].job) = k))
        <5>1. SUFFICES ASSUME u = w \/ (hWorker[u].at = "wait" /\ Wanted(hWorker[u].job) = k)
                       PROVE  FALSE
          OBVIOUS
        <5>2. hWorker'[u] = At(then, hWorker[u].job)
          BY <2>1, <5>1
        <5> QED
          BY <2>0, <2>4, <5>2
      <4> QED
        BY <2>1, <2>4, <4>1
    <3>2. PICK v \in Workers : Building(hWorker, v, Wanted(hWorker[u].job))
      BY <2>4, <3>1 DEF BuildersThere
    <3>3. hWorker'[v] = hWorker[v]
      BY <1>0, <2>2, <3>1, <3>2
    <3> QED
      BY <3>1, <3>2, <3>3 DEF Building
  <2>5. hUp' => \A u \in Workers : hWorker'[u].at # "exited"
    <3>1. \A u \in Workers : hWorker'[u] = hWorker[u] \/ hWorker'[u] = At(then, hWorker[u].job)
      BY <2>1
    <3> QED
      BY <2>0, <2>1, <3>1 DEF BuildersThere
  <2> QED
    BY <2>3, <2>4, <2>5 DEF BuildersThere, Building
<1>5. ASSUME NEW w \in Workers, DropJob(w) \/ SendResponse(w) \/ WorkerExits(w)
      PROVE  BuildersThere'
  <2>1. /\ hWorker[w].at \notin {"build", "ok", "err"} /\ hUp' = hUp /\ hCall' = hCall
        /\ hWorker'[w].at # "wait" /\ (hWorker'[w].at = "exited" => ~hUp)
        /\ \A v \in Workers \ {w} : hWorker'[v] = hWorker[v]
    BY <1>0, <1>5 DEF DropJob, SendResponse, WorkerExits, Idle, At
  <2> QED
    BY <2>1, BuildersStay DEF Building
<1> QED
  BY <1>1, <1>2, <1>3, <1>4, <1>5 DEF HolderNext

\* With every capacity at least one and at least one worker.
LEMMA HolderSettles == HolderInv /\ BuildersThere => DispatchResumes /\ HolderCloses
<1> SUFFICES ASSUME HolderInv, BuildersThere, HolderAtRest PROVE DispatchResumes /\ HolderCloses
  BY DEF DispatchResumes, HolderCloses
<1>0. /\ hWorker \in [Workers -> [at : Stations, job : Askers \cup {NoJob}]]
      /\ hBlocked \in Blocking /\ QueueCap \in Nat \ {0} /\ OutCap \in Nat \ {0}
      /\ Workers # {} /\ Len(<<>>) = 0
  BY HolderAssumption DEF HolderInv, HolderTypes
<1>1. \A w \in Workers : hWorker[w].at # "wait"
  BY DEF BuildersThere, Building, HolderAtRest
<1>2. ASSUME hUp, hBlocked # NoJob PROVE FALSE
  <2>1. hBlocked[1] = "job" /\ Len(hQueue) >= QueueCap
    BY <1>0, <1>2 DEF HolderAtRest, Blocking
  <2>2. hQueue # <<>>
    BY <1>0, <2>1
  <2>3. \A w \in Workers : hWorker[w].at \notin {"idle", "send", "exited"}
    BY <1>0, <1>2, <2>2 DEF HolderAtRest, BuildersThere
  <2> QED
    BY <1>0, <1>1, <2>3 DEF HolderAtRest, Stations
<1>3. ASSUME ~hUp, NEW w \in Workers PROVE hWorker[w].at = "exited"
  BY <1>0, <1>1, <1>3 DEF HolderAtRest, Stations
<1> QED
  BY <1>2, <1>3 DEF DispatchResumes, HolderCloses

-----------------------------------------------------------------------------
(* The parts side by side, as the runs check them. *)
RuntimeInv == /\ HolderInv /\ TransportInv /\ BarrierInv
              /\ SlotsInv /\ AcknowledgedKept /\ CoinInv

LEMMA RuntimeInit == MCInit => RuntimeInv
<1>1. Init => AcknowledgedKept
  BY DEF Init, AcknowledgedKept
<1> QED
  BY <1>1, HolderInitInv, TransportInitInv, BarrierInitInv, SlotsInit, CoinInitInv
     DEF MCInit, RuntimeInv

LEMMA RuntimeParts ==
    [MCNext]_allVars =>
        /\ [HolderNext]_holderVars /\ [TransportNext]_transportVars /\ [BarrierNext]_barrierVars
        /\ [Next]_vars /\ [C!CoinNext]_coinVars
BY DEF MCNext, allVars

LEMMA RuntimeStep == RuntimeInv /\ [MCNext]_allVars => RuntimeInv'
<1>1. SlotsInv => TypeOK
  BY DEF SlotsInv
<1> QED
  BY <1>1, RuntimeParts, HolderStepInv, TransportStepInv, BarrierStepInv, SlotsStep,
     AcknowledgedStep, CoinStepInv DEF RuntimeInv

LEMMA RuntimeAlways == MCSpec => []RuntimeInv
BY RuntimeInit, RuntimeStep, PTL DEF MCSpec

\* Queues stay within their bounds; the worker pool, the connections, the processes
\* of a series, the slots and the coin in the states the code knows
\* (cv_sapvss_apdb_network_scalar.go, transport_tcp_loopback.go, epoch_barrier.go,
\* cv_sapvss_proposer_scalar.go).
THEOREM TypesOKCorrect == MCSpec => []TypesOK
<1>1. RuntimeInv => TypesOK
  BY HolderHolds DEF RuntimeInv, TypesOK, TransportInv, ConnsInUse, BarrierInv, SlotsInv, CoinInv
<1> QED
  BY <1>1, RuntimeAlways, PTL

\* A message that Send puts on a connection is delivered once, is lost without
\* an error only when the connection breaks (transport_tcp_loopback.go), and an
\* entry of the holder's two tables stands for one job, through every order of
\* requests, cancellations, full queues and failed attempts
\* (cv_sapvss_apdb_network_scalar.go).
THEOREM HandledOnceCorrect == MCSpec => []HandledOnce
<1>1. RuntimeInv => HandledOnce
  BY HolderHolds, TransportHolds DEF RuntimeInv, HandledOnce
<1> QED
  BY <1>1, RuntimeAlways, PTL

\* Processes that go past the marker phase of an epoch had the same result in it
\* (waitForEpochResults, epoch_barrier.go).
THEOREM PassersAgreeCorrect == MCSpec => []PassersAgree
<1>1. RuntimeInv => PassersAgree
  BY BarrierHolds DEF RuntimeInv
<1> QED
  BY <1>1, RuntimeAlways, PTL

\* An open connection is not thrown out of the pool by a sender whose write
\* failed on another one, at any step of any of the senders
\* (evict, transport_tcp_loopback.go).
THEOREM OpenStaysPooledCorrect == MCSpec => OpenStaysPooled
<1>1. TransportInv /\ [TransportNext]_transportVars =>
         [\A d \in DOMAIN tPool :
             tPool[d] # NoConn /\ tPool'[d] = NoConn => tState[tPool[d]] # "open"]_transportVars
  <2> SUFFICES ASSUME TransportInv, TransportNext,
                      NEW d \in DOMAIN tPool, tPool[d] # NoConn, tPool'[d] = NoConn
               PROVE  tState[tPool[d]] # "open"
    OBVIOUS
  <2>1. tPool'[d] # tPool[d]
    OBVIOUS
  <2>2. ASSUME NEW m \in Msgs, PoolConn(m) PROVE FALSE
    <3>1. tPool' = [tPool EXCEPT ![Dest[m]] = tConn[m]] /\ tPool[Dest[m]] = NoConn
      BY <2>1, <2>2 DEF PoolConn, Pooled
    <3>2. d = Dest[m]
      BY <2>1, <3>1
    <3> QED
      BY <3>1, <3>2
  <2>3. \A m \in Msgs : ~(\/ SendLocal(m) \/ LockPool(m) \/ ClaimConn(m) \/ WritePooled(m)
                           \/ WriteFails(m) \/ DialFails(m) \/ DialAndWrite(m))
    BY <2>1 DEF SendLocal, LockPool, ClaimConn, WritePooled, WriteFails, DialFails, DialAndWrite
  <2>4. \A c \in Conns : ~(Deliver(c) \/ Break(c))
    BY <2>1 DEF Deliver, Break
  <2>5. PICK m \in Msgs : Evict(m)
    BY <2>2, <2>3, <2>4 DEF TransportNext
  <2>6. /\ Pooled(m) = tConn[m] /\ tPool' = [tPool EXCEPT ![Dest[m]] = NoConn]
        /\ tAt[m] = "evict"
    BY <2>1, <2>5 DEF Evict
  <2>7. d = Dest[m]
    BY <2>1, <2>6
  <2> QED
    BY <2>6, <2>7 DEF Pooled, TransportInv, ConnsInUse
<1>2. RuntimeInv /\ [MCNext]_allVars => TransportInv /\ [TransportNext]_transportVars
  BY RuntimeParts DEF RuntimeInv
<1> QED
  BY <1>1, <1>2, RuntimeAlways, PTL DEF MCSpec, OpenStaysPooled

\* Nobody waits for good: when no goroutine of a holder can go on, dispatch has
\* got room for what it enqueues and, after the router has failed, every worker has
\* left (cv_sapvss_apdb_network_scalar.go); and when no sender can go on, every
\* Send has returned (transport_tcp_loopback.go).
THEOREM RuntimeSettlesCorrect == MCSpec => []RuntimeSettles
<1>1. MCInit => LocksHeld /\ BuildersThere
  BY TransportAssumption DEF MCInit, TransportInit, HolderInit, LocksHeld, BuildersThere, Idle
<1>2. RuntimeInv /\ LocksHeld /\ BuildersThere /\ [MCNext]_allVars => (LocksHeld /\ BuildersThere)'
  BY RuntimeParts, LocksHeldStep, BuildersStep DEF RuntimeInv
<1>3. RuntimeInv /\ LocksHeld /\ BuildersThere => RuntimeSettles
  BY SendsEnd, HolderSettles DEF RuntimeInv, RuntimeSettles
<1> QED
  BY <1>1, <1>2, <1>3, RuntimeAlways, PTL DEF MCSpec

\* Where candidates and coin have come to rest, every correct member that has not
\* given up has the candidate that one of them, other than its proposer, has
\* accepted, unless it threw it away before it knew the sample
\* (cv_sapvss_candidate_network_scalar.go); and every member that entered the coin
\* has its output once f+1 have entered, however many shares came before their
\* receivers did (cv_sapvss_apdb_network_scalar.go).
THEOREM CandidatesSettleCorrect == MCSpec => []CandidatesSettle
<1>1. RuntimeInv => CandidatesSettle
  BY Spreads, CoinSettles DEF RuntimeInv, SlotsInv, CandidatesSettle
<1> QED
  BY <1>1, RuntimeAlways, PTL
=============================================================================

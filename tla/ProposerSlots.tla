--------------------------- MODULE ProposerSlots ---------------------------
(***************************************************************************)
(* How an old member comes by its certified candidate: the slots of the    *)
(* sampled proposers (cvRunSampledProposerSlotsScalar and                  *)
(* runCVProposerSlotScalar of src/core/cv_sapvss_proposer_scalar.go) and   *)
(* the flooding of candidates                                              *)
(* (src/core/cv_sapvss_candidate_network_scalar.go).                       *)
(*                                                                         *)
(* A member runs the slot of the first proposer, those of the others after *)
(* a grace period, and returns the first candidate it accepts.  A proposer *)
(* whose aggregate is certified (modules PoolCert for the first part of    *)
(* its slot) sends the result to all and floods the candidate; who accepts *)
(* it passes it on.  Delivery is acknowledged before the candidate is      *)
(* verified, and a member that does not know the eligibility sample yet    *)
(* cannot verify.  Returning cancels the member's slots, and with them the *)
(* flooding of its own candidate.  In the slot of somebody else a          *)
(* validator only waits for the result, and the slot then ends with an     *)
(* error, because publishLocallyCertifiedCandidateScalar is for the        *)
(* proposer itself; a member all of whose slots have ended gives up.       *)
(***************************************************************************)
EXTENDS Integers, FiniteSets

CONSTANTS Old,         \* the old committee
          Faulty,      \* members that do not follow the protocol
          Primary,     \* proposers[0]
          Backups,     \* proposers[1:]
          Validators   \* members that had a validation request

ASSUME SlotsAssumption ==
    /\ IsFiniteSet(Old) /\ Faulty \subseteq Old
    /\ Primary \in Old /\ Backups \subseteq Old \ {Primary}
    /\ Validators \subseteq Old

Correct == Old \ Faulty
Sample == {Primary} \cup Backups

VARIABLES
    run,        \* cvRunSampledProposerSlotsScalar at each member
    backups,    \* members that have launched the slots of the backups
    ended,      \* failed: slots that have ended with an error
    certified,  \* proposers whose aggregate is certified
    have,       \* s.certifiedCandidatesScalar: candidates a member has accepted
    queue,      \* s.processingCandidatesScalar: acknowledged, not yet verified
    sent,       \* who is done sending whose candidate to whom, while it lacks it
    stopped,    \* proposers that have broken off the flooding of their own
    dropped     \* what a member has acknowledged, could not verify and lacks

vars == <<run, backups, ended, certified, have, queue, sent, stopped, dropped>>

Launched(i) == IF run[i] = "before" THEN {}
               ELSE IF i \in backups THEN Sample ELSE {Primary}

-----------------------------------------------------------------------------
\* The eligibility coin is known and the first slot is launched.
Start(i) ==
    /\ run[i] = "before"
    /\ run' = [run EXCEPT ![i] = "running"]
    /\ UNCHANGED <<backups, ended, certified, have, queue, sent, stopped, dropped>>

\* The grace period of the first slot is over.
LaunchBackups(i) ==
    /\ run[i] = "running" /\ i \notin backups
    /\ backups' = backups \cup {i}
    /\ UNCHANGED <<run, ended, certified, have, queue, sent, stopped, dropped>>

\* CertifyAggregate returns at the proposer: the result is out, the candidate
\* remembered and put in the proposer's own channel.
Certify(p) ==
    /\ p \in Launched(p) \ certified /\ run[p] # "failed"
    /\ certified' = certified \cup {p}
    /\ have' = [have EXCEPT ![p] = @ \cup {p}]
    /\ UNCHANGED <<run, backups, ended, queue, sent, stopped, dropped>>

\* Certificates that can exist: a faulty proposer may have one.
Certifiable == certified \cup (Sample \cap Faulty)

\* Mutant: passing on is cancelled with the member's own slots.
SendsWhileRunning(j, p) ==
    IF j \in Faulty THEN p \in Certifiable
    ELSE p \in have[j] /\ (j = p => j \notin stopped) /\ (j # p => run[j] = "running")

\* What j has to send: a member what it has accepted, a proposer its own
\* until it is stopped, a faulty member whatever can exist.
Sends(j, p) ==
    IF j \in Faulty THEN p \in Certifiable
    ELSE p \in have[j] /\ ~(j = p /\ j \in stopped)

\* sendCertifiedCandidatePeerScalar: j gets q's acknowledgement, of a copy of
\* its own or, by a probe, of one that q is working on.  Nothing comes of it at a
\* member that has the candidate or is about to accept it.
Send(j, q, p) ==
    /\ j # q /\ Sends(j, p) /\ <<j, q, p>> \notin sent
    /\ run[q] # "failed" /\ p \notin have[q]
    /\ run[q] = "before" \/ p \notin queue[q]
    /\ sent' = IF j \in Faulty THEN sent ELSE sent \cup {<<j, q, p>>}
    /\ queue' = [queue EXCEPT ![q] = @ \cup {p}]
    /\ UNCHANGED <<run, backups, ended, certified, have, stopped, dropped>>

\* The context of the fan-out was cancelled when the proposer's run returned.
StopFanout(p) ==
    /\ p \in certified \ stopped /\ run[p] = "candidate"
    /\ stopped' = stopped \cup {p}
    /\ UNCHANGED <<run, backups, ended, certified, have, queue, sent, dropped>>

\* The crypto worker verifies a queued copy and has what it needs.
Accept(i, p) ==
    /\ p \in queue[i] /\ run[i] # "before"
    /\ queue' = [queue EXCEPT ![i] = @ \ {p}]
    /\ have' = [have EXCEPT ![i] = @ \cup {p}]
    /\ sent' = {x \in sent : x[2] # i \/ x[3] # p}
    /\ dropped' = dropped \ {<<i, p>>}
    /\ UNCHANGED <<run, backups, ended, certified, stopped>>

\* It does not know the eligibility sample.
Drop(i, p) ==
    /\ p \in queue[i] /\ run[i] = "before"
    /\ queue' = [queue EXCEPT ![i] = @ \ {p}]
    /\ dropped' = dropped \cup {<<i, p>>}
    /\ UNCHANGED <<run, backups, ended, certified, have, sent, stopped>>

\* The fan-out of a proposer's own candidate has been to all correct peers.
AllServed(p) ==
    \A q \in Correct \ {p} : \/ p \in have[q] \cup queue[q] \/ run[q] = "failed"
                            \/ <<p, q, p>> \in sent

\* Mutant: waiting for the proposer's pool or result ends after a while.
SlotEndsByTimeout(i, p) ==
    /\ run[i] = "running" /\ p \in Launched(i) \ ended[i]
    /\ IF i = p THEN p \in certified /\ AllServed(p) ELSE i \in Validators
    /\ ended' = [ended EXCEPT ![i] = @ \cup {p}]
    /\ backups' = IF p = Primary THEN backups \cup {i} ELSE backups
    /\ UNCHANGED <<run, certified, have, queue, sent, stopped, dropped>>

\* A slot ends with an error: somebody else's after handleValidationResult at a
\* validator, the proposer's own when a peer does not acknowledge.  The end of
\* the first slot launches the others.
SlotEnds(i, p) ==
    /\ run[i] = "running" /\ p \in Launched(i) \ ended[i]
    /\ p \in Certifiable
    /\ IF i = p THEN AllServed(p) ELSE i \in Validators
    /\ ended' = [ended EXCEPT ![i] = @ \cup {p}]
    /\ backups' = IF p = Primary THEN backups \cup {i} ELSE backups
    /\ UNCHANGED <<run, certified, have, queue, sent, stopped, dropped>>

\* A candidate is in the channel, also when all slots have ended.
ReturnCandidate(i) ==
    /\ run[i] = "running" /\ have[i] # {}
    /\ run' = [run EXCEPT ![i] = "candidate"]
    /\ ended' = [ended EXCEPT ![i] = {}]
    /\ UNCHANGED <<backups, certified, have, queue, sent, stopped, dropped>>

\* Mutant: the channel is not looked at once more.
GiveUpAtOnce(i) ==
    /\ run[i] = "running" /\ ended[i] = Sample
    /\ run' = [run EXCEPT ![i] = "failed"]
    /\ queue' = [queue EXCEPT ![i] = {}]
    /\ UNCHANGED <<backups, ended, certified, have, sent, stopped, dropped>>

\* All slots have ended and the channel is empty: the epoch ends with an
\* error and the services are closed.
GiveUp(i) ==
    /\ run[i] = "running" /\ ended[i] = Sample /\ have[i] = {}
    /\ run' = [run EXCEPT ![i] = "failed"]
    /\ queue' = [queue EXCEPT ![i] = {}]
    /\ UNCHANGED <<backups, ended, certified, have, sent, stopped, dropped>>

Init ==
    /\ run = [i \in Correct |-> "before"]
    /\ backups = {} /\ ended = [i \in Correct |-> {}]
    /\ certified = {}
    /\ have = [i \in Correct |-> {}] /\ queue = [i \in Correct |-> {}]
    /\ sent = {} /\ stopped = {} /\ dropped = {}

Next ==
    \/ \E i \in Correct :
          \/ Start(i) \/ LaunchBackups(i) \/ ReturnCandidate(i) \/ GiveUp(i)
          \/ \E p \in Sample :
                \/ Accept(i, p) \/ Drop(i, p) \/ SlotEnds(i, p)
                \/ \E j \in Old : Send(j, i, p)
    \/ \E p \in Sample \cap Correct : Certify(p) \/ StopFanout(p)

Spec == Init /\ [][Next]_vars

\* What is bound to happen: the crypto workers and the senders of correct
\* members get through their (finitely many) jobs and the main loop reads its
\* channel.  Whether and when a member starts, a timer fires, a proposer
\* certifies, a slot ends or a cancelled fan-out stops is open.
SlotsProgress ==
    \E i \in Correct :
        \/ ReturnCandidate(i)
        \/ \E p \in Sample :
              Accept(i, p) \/ Drop(i, p) \/ \E j \in Correct : Send(j, i, p)

\* No step of SlotsProgress is left: queues are empty, candidates returned, and
\* what correct members send is acknowledged by who lacks it.
SlotsAtRest ==
    \A i \in Correct :
        /\ queue[i] = {} /\ (run[i] = "running" => have[i] = {})
        /\ \A p \in Sample, j \in Correct \ {i} :
              Sends(j, p) => run[i] = "failed" \/ p \in have[i] \/ <<j, i, p>> \in sent

-----------------------------------------------------------------------------
TypeOK ==
    /\ run \in [Correct -> {"before", "running", "candidate", "failed"}]
    /\ backups \subseteq Correct /\ ended \in [Correct -> SUBSET Sample]
    /\ certified \subseteq Sample \cap Correct
    /\ have \in [Correct -> SUBSET Sample] /\ queue \in [Correct -> SUBSET Sample]
    /\ sent \subseteq Correct \X Correct \X Sample
    /\ stopped \subseteq certified /\ dropped \subseteq Correct \X Sample

\* A proposer that has a candidate of its own never reports that all slots
\* failed, although its own slot ends with an error when a peer is silent.
ProposerKeepsCandidate == \A p \in certified : run[p] # "failed"

\* Silent proposers make nobody give up: who does has the results of all of
\* them.
GivesUpOnResultsOnly ==
    \A i \in Correct : run[i] = "failed" => Sample \subseteq Certifiable

Reached(i, p) == p \in have[i] \/ run[i] = "failed" \/ <<i, p>> \in dropped

\* Once a correct member other than the proposer has accepted a candidate, all
\* correct members that have not given up accept it, whatever becomes of the
\* proposer; except who threw away an acknowledged copy because it did not
\* know the eligibility sample.
CandidateSpreads ==
    SlotsAtRest =>
        \A p \in Sample : (\E j \in Correct \ {p} : p \in have[j]) =>
            \A i \in Correct : Reached(i, p)
=============================================================================

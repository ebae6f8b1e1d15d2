------------------------------- MODULE Recast -------------------------------
(***************************************************************************)
(* Recovery of an agreed transcript by the new committee of                *)
(* Practical-ADKR: runRecastRecovery and waitForRecastReadyQuorum of       *)
(* src/experiments/practical-adkr/core/adkr.go.                            *)
(*                                                                         *)
(* Process i hosts old node i, a holder, and new node i, a recipient.  A   *)
(* holder that kept its shard attests this to the recipients for which it  *)
(* is active; a recipient that has n-2f attestations fetches the shards,   *)
(* and has recovered when n-2f of them decode to the value whose digest    *)
(* the certificate carries.  A send is retried until it gets through or    *)
(* its process stops, so a message is a step of both ends.                 *)
(***************************************************************************)
EXTENDS Committee, Sequences

CONSTANTS RecastRing,    \* the committee in its order
          HeldChoices,   \* sets of correct holders that may have the shard
          BadChoices,    \* sets of shards that may not belong to the value
          CompletionWait,\* PRACTICAL_RECOVER_COMPLETION_WAIT_MS is set
          Hasty,         \* processes whose deadline may be too short
          Grace          \* services outlive the run (..._SERVICE_GRACE_MS)

\* The roster names every member once.
ASSUME RecastAssumption ==
    /\ RecastRing \in Seq(Old) /\ Len(RecastRing) = Cardinality(Old)
    /\ \A p \in Old : \E k \in 1 .. Len(RecastRing) : RecastRing[k] = p

VARIABLES
    rHeld,      \* holders with a shard under the certificate
    rBad,       \* shards that do not belong to the certified value
    rOpen,      \* processes whose recast listeners are open
    rPhase,     \* how far runRecastRecovery of a process is
    rSeen,      \* holderSeen: attestations a recipient has
    rShards,    \* receivedShards of a recipient
    rValue      \* what a recipient has recovered

recastVars == <<rHeld, rBad, rOpen, rPhase, rSeen, rShards, rValue>>

\* erasureK and requiredHolders.
ErasureK == IF Cardinality(Old) - 2 * F < F + 1 THEN F + 1 ELSE Cardinality(Old) - 2 * F

\* apdbCertificateThreshold: receipts of a certificate, ready listeners,
\* completions of the barrier, and holders that are active for a recipient.
CertificateThreshold == Cardinality(Old) - F

PlaceInRing == [p \in Old |-> CHOOSE k \in 1 .. Len(RecastRing) : RecastRing[k] = p]

\* recoverStoreHolderPosition: the n-f holders from the recipient on.
Active(h, r) ==
    (PlaceInRing[h] - PlaceInRing[r] + Len(RecastRing)) % Len(RecastRing)
        < CertificateThreshold

RecastInit ==
    /\ rHeld \in {H \cup Faulty : H \in HeldChoices}
    /\ Cardinality(rHeld) >= CertificateThreshold
    /\ rBad \in BadChoices
    /\ rOpen = Faulty /\ rPhase = [p \in Correct |-> "start"]
    /\ rSeen = [p \in Correct |-> {}] /\ rShards = [p \in Correct |-> {}]
    /\ rValue = [p \in Correct |-> None]

\* The listeners of a process are bound.
OpenListeners(p) ==
    /\ rPhase[p] = "start" /\ rPhase' = [rPhase EXCEPT ![p] = "probe"]
    /\ rOpen' = rOpen \cup {p}
    /\ UNCHANGED <<rHeld, rBad, rSeen, rShards, rValue>>

\* waitForRecastReadyQuorum: n-f pairs of listeners answer.
ReadyQuorum(p) ==
    /\ rPhase[p] = "probe" /\ Cardinality(rOpen) >= CertificateThreshold
    /\ rPhase' = [rPhase EXCEPT ![p] = "recover"]
    /\ UNCHANGED <<rHeld, rBad, rOpen, rSeen, rShards, rValue>>

\* sendRecast of a process retries until the process stops its services.
KeepsSending(h) ==
    h \in Correct => \/ rPhase[h] \in {"recover", "complete"}
                     \/ rPhase[h] = "done" /\ Grace

\* The obligations a holder sends once it is past the readiness probe: to
\* the recipients it is active for, of the shard it can load.
Serves(h, r) == h \in rHeld /\ Active(h, r) /\ KeepsSending(h)

\* The listener of a recipient hands what it receives to the recovery loop.
Receives(r) == r \in rOpen /\ rPhase[r] \in {"probe", "recover"}

\* The attestation of a holder with a shard arrives.
StoreArrives(r, h) ==
    /\ Receives(r) /\ h \notin rSeen[r] /\ Serves(h, r)
    /\ rSeen' = [rSeen EXCEPT ![r] = @ \cup {h}]
    /\ UNCHANGED <<rHeld, rBad, rOpen, rPhase, rShards, rValue>>

\* The K shards with the lowest index, which is what the decoder takes.
FirstShards(S) ==
    {h \in S : Cardinality({g \in S : PlaceInRing[g] < PlaceInRing[h]}) < ErasureK}

\* Mutant: the decoded value is not compared with the digest.
DecodesUnchecked(S) == IF Cardinality(S) >= ErasureK THEN {FirstShards(S) \cap rBad} ELSE {}

\* recoverDecodeValue, the check of the value digest and VerifyTranscript:
\* the recovered value, {} standing for the certified one.
Decodes(S) ==
    IF Cardinality(S) >= ErasureK /\ FirstShards(S) \cap rBad = {} THEN {{}} ELSE {}

\* fetch_req: the listener of a holder loads its shard and answers with it.
AnswersFetch(h) == h \in rHeld /\ (h \in Correct => h \in rOpen)

\* dispatchFetchRequests: the holders asked, once n-2f have attested.
Asked(r) == IF Cardinality(rSeen[r]) >= ErasureK THEN rSeen[r] ELSE {}

\* The shard of a holder asked arrives and passes its Merkle proof.
FetchArrives(r, h) ==
    /\ rPhase[r] = "recover" /\ rValue[r] = None
    /\ h \in Asked(r) \ rShards[r] /\ AnswersFetch(h)
    /\ LET S == rShards[r] \cup {h} IN
         /\ rShards' = [rShards EXCEPT ![r] = S]
         /\ rValue' = [rValue EXCEPT ![r] =
              IF Decodes(S) = {} THEN None ELSE CHOOSE v \in Decodes(S) : TRUE]
    /\ UNCHANGED <<rHeld, rBad, rOpen, rPhase, rSeen>>

\* Everything selected is recovered: the process returns, or signs its
\* completion and waits for the others'.
Recovered(p) ==
    /\ rPhase[p] = "recover" /\ rValue[p] # None
    /\ IF CompletionWait
       THEN rPhase' = [rPhase EXCEPT ![p] = "complete"] /\ UNCHANGED rOpen
       ELSE /\ rPhase' = [rPhase EXCEPT ![p] = "done"]
            /\ rOpen' = IF Grace THEN rOpen ELSE rOpen \ {p}
    /\ UNCHANGED <<rHeld, rBad, rSeen, rShards, rValue>>

\* Who may have signed its completion: a faulty recipient at any time.
Completed == Faulty \cup {q \in Correct : rPhase[q] \in {"complete", "done"}}

\* completionSatisfied: the signed completions of n-f recipients, a faulty
\* one's at any time, end the barrier.
CompletionSatisfied(p) ==
    /\ rPhase[p] = "complete"
    /\ Cardinality(Completed) >= CertificateThreshold
    /\ rPhase' = [rPhase EXCEPT ![p] = "done"]
    /\ rOpen' = IF Grace THEN rOpen ELSE rOpen \ {p}
    /\ UNCHANGED <<rHeld, rBad, rSeen, rShards, rValue>>

\* The deadline of the readiness probe or of the recovery: the process
\* fails and closes its listeners.
Deadline(p) ==
    /\ p \in Hasty /\ rPhase[p] \in {"probe", "recover", "complete"}
    /\ rPhase' = [rPhase EXCEPT ![p] = "failed"] /\ rOpen' = rOpen \ {p}
    /\ UNCHANGED <<rHeld, rBad, rSeen, rShards, rValue>>

RecastNext ==
    \/ \E p \in Correct : \/ OpenListeners(p) \/ ReadyQuorum(p) \/ Deadline(p)
                          \/ Recovered(p) \/ CompletionSatisfied(p)
    \/ \E r \in Correct, h \in Old :
         StoreArrives(r, h) \/ FetchArrives(r, h)

\* What is bound to happen: processes run, and what a correct holder sends to
\* a correct recipient arrives.
RecastProgress ==
    \/ \E p \in Correct : \/ OpenListeners(p) \/ ReadyQuorum(p)
                          \/ Recovered(p) \/ CompletionSatisfied(p)
    \/ \E r, h \in Correct : StoreArrives(r, h) \/ FetchArrives(r, h)

\* No step of RecastProgress is left: what correct holders send is there.
RecastAtRest ==
    \A p \in Correct :
        /\ rPhase[p] # "start"
        /\ rPhase[p] = "probe" => Cardinality(rOpen) < CertificateThreshold
        /\ rPhase[p] = "complete" => Cardinality(Completed) < CertificateThreshold
        /\ rPhase[p] = "recover" => rValue[p] = None
        /\ \A h \in Correct :
              /\ Receives(p) /\ Serves(h, p) => h \in rSeen[p]
              /\ rPhase[p] = "recover" /\ h \in Asked(p) /\ AnswersFetch(h) => h \in rShards[p]

-----------------------------------------------------------------------------
\* Types of the variables; shards are only kept of attested holders.
RecastTypeOK ==
    /\ rOpen \subseteq Old
    /\ rPhase \in [Correct -> {"start", "probe", "recover", "complete", "done", "failed"}]
    /\ \A p \in Correct : rShards[p] \subseteq rSeen[p]

\* The recipients that finish have one and the same transcript, the one the
\* certificate names, also when its dealer dispersed shards of several.
RecoveredAgree ==
    \A p \in Correct : rPhase[p] \in {"complete", "done"} => rValue[p] = {}

\* A process leaves the completion barrier only when a correct process other
\* than itself has recovered too.
BarrierWitnessed ==
    \A p \in Correct : CompletionWait /\ rPhase[p] = "done" =>
        Cardinality({q \in Correct : rValue[q] # None}) >= CertificateThreshold - F

SomeoneTimedOut == \E p \in Correct : rPhase[p] = "failed"

\* When the dealer is correct, the services outlive their runs and the
\* deadlines are long enough, every correct recipient recovers and passes
\* the completion barrier.
RecipientsRecover ==
    rBad = {} /\ Correct \subseteq rHeld /\ RecastAtRest =>
        SomeoneTimedOut \/ \A p \in Correct : rPhase[p] = "done"
=============================================================================

----------------------------- MODULE Validation -----------------------------
(***************************************************************************)
(* Certification of the aggregate of one proposer: CertifyAggregate,       *)
(* handleValidationRequest, validateAndSignAggregate,                      *)
(* handleValidationSignature and handleValidationResult of                 *)
(* src/core/cv_sapvss_apdb_network_scalar.go.                              *)
(*                                                                         *)
(* The proposer sends its request to a first wave of the sampled           *)
(* validators, after a grace to the others, and then a few times to those  *)
(* whose signature is missing.  A validator reserves its one signature for *)
(* the first statement of the proposer, recovers leaves and aggregate in a *)
(* goroutine of its own, and signs when they verify.  A statement is the   *)
(* request with what its digests say; Sound are the ones that recovery and *)
(* aggregate verification accept.                                          *)
(***************************************************************************)
EXTENDS Committee

CONSTANTS Proposers,       \* members whose slot may be the one modelled
          Validators,      \* validatorSample
          FirstWave,       \* the first wave, rotated by the proposer
          Statements,      \* requests whose public part verifies
          Sound,           \* those whose payload is the aggregate they name
          Own,             \* the request of a correct proposer
          MaxFailures,     \* bound on recoveries that fail
          MaxRequestWaves  \* cvControlRetryMaxAttemptsScalar

\* The faulty members of the sample cannot certify alone, which sampling makes
\* likely; the public part of a correct proposer's request verifies.
ASSUME ValidationAssumption ==
    /\ Proposers \subseteq Old /\ Validators \subseteq Old /\ FirstWave \subseteq Validators
    /\ Cardinality(Validators \cap Faulty) < ValidatorThreshold(Validators)
    /\ Own \in Statements /\ None \notin Statements
    /\ MaxFailures \in Nat /\ MaxRequestWaves \in Nat

VARIABLES
    vProposer,  \* whose slot this is
    vKnows,     \* members that know the validator sample
    vCall,      \* CertifyAggregate of a correct proposer
    vAttempt,   \* request waves sent after the first two
    vRequests,  \* validators with the request in their inbox
    vRecord,    \* validationRecords of each member
    vReserved,  \* validationOneShot of the proposer, at each member
    vInFlight,  \* validationInFlight: statements being recovered
    vSigned,    \* signatures released: member and statement
    vSigs,      \* pending.signatures
    vResults,   \* members with the result in their inbox
    vCertified, \* certifiedValidation of the proposer, at each member
    vFailures   \* recoveries that have failed

validationVars ==
    <<vProposer, vKnows, vCall, vAttempt, vRequests, vRecord, vReserved,
      vInFlight, vSigned, vSigs, vResults, vCertified, vFailures>>

ValidatorQuorum == ValidatorThreshold(Validators)

\* A certificate over st can be put together.
CertifiableStatement(st) ==
    Cardinality({v \in Validators \cap Correct : <<v, st>> \in vSigned}
                \cup (Validators \cap Faulty)) >= ValidatorQuorum

ValidationInit ==
    /\ vProposer \in Proposers /\ vKnows = {}
    /\ vCall = IF vProposer \in Correct THEN "before" ELSE "none"
    /\ vAttempt = 0 /\ vRequests = {} /\ vFailures = 0
    /\ vRecord = [i \in Correct |-> {}]
    /\ vReserved = [i \in Correct |-> None]
    /\ vInFlight = [i \in Correct |-> {}]
    /\ vSigned = {} /\ vSigs = {} /\ vResults = {}
    /\ vCertified = [i \in Correct |-> None]

-----------------------------------------------------------------------------
\* setEligibilityCoin: proposers and validators are known at member i.
LearnSample(i) ==
    /\ i \notin vKnows
    /\ vKnows' = vKnows \cup {i}
    /\ UNCHANGED <<vProposer, vCall, vAttempt, vRequests, vRecord, vReserved,
                   vInFlight, vSigned, vSigs, vResults, vCertified, vFailures>>

\* CertifyAggregate registers the collection and sends the first wave.
CertifyAggregate ==
    /\ vCall = "before" /\ vProposer \in vKnows
    /\ vCall' = IF Validators \ FirstWave = {} THEN "collecting" ELSE "grace"
    /\ vRecord' = [vRecord EXCEPT ![vProposer] = @ \cup {Own}]
    /\ vRequests' = FirstWave \ Faulty
    /\ UNCHANGED <<vProposer, vKnows, vAttempt, vReserved, vInFlight, vSigned,
                   vSigs, vResults, vCertified, vFailures>>

\* The grace is over before enough signatures are there.
DeferredWave ==
    /\ vCall = "grace"
    /\ vCall' = "collecting"
    /\ vRequests' = vRequests \cup (Validators \ (FirstWave \cup Faulty))
    /\ UNCHANGED <<vProposer, vKnows, vAttempt, vRecord, vReserved, vInFlight,
                   vSigned, vSigs, vResults, vCertified, vFailures>>

\* The retry timer: validators whose signature is missing are asked again.
RetryRequest ==
    /\ vCall = "collecting" /\ vAttempt < MaxRequestWaves
    /\ vAttempt' = vAttempt + 1
    /\ vRequests' = vRequests \cup (Validators \ (vSigs \cup Faulty))
    /\ UNCHANGED <<vProposer, vKnows, vCall, vRecord, vReserved, vInFlight,
                   vSigned, vSigs, vResults, vCertified, vFailures>>

\* Member i may be handed request st by member j, in the proposer's name.
Requested(i, j, st) ==
    IF j \in Faulty THEN TRUE
    ELSE j = vProposer /\ i \in vRequests /\ st = Own

\* Without the sample there is no statement, and a request counts only from
\* its proposer.
AcceptsRequest(i, j, st) == i \in vKnows /\ j = vProposer

\* Mutant: a reservation is refused to the statement that holds it.
ReservesOnce(i, st) ==
    /\ i \in Validators
    /\ <<i, st>> \notin vSigned /\ st \notin vInFlight[i]
    /\ vReserved[i] = None

\* The one signature of validator i is free for st.
Reserves(i, st) ==
    /\ i \in Validators
    /\ <<i, st>> \notin vSigned /\ st \notin vInFlight[i]
    /\ vReserved[i] \in {None, st}

\* handleValidationRequest.  A signature that is there is sent again, which
\* vSigned has already.
OnRequest(i, j, st) ==
    /\ Requested(i, j, st)
    /\ vRequests' = IF j \in Faulty THEN vRequests ELSE vRequests \ {i}
    /\ vRecord' = [vRecord EXCEPT ![i] =
                      IF AcceptsRequest(i, j, st) THEN @ \cup {st} ELSE @]
    /\ IF AcceptsRequest(i, j, st) /\ Reserves(i, st)
         THEN /\ vReserved' = [vReserved EXCEPT ![i] = st]
              /\ vInFlight' = [vInFlight EXCEPT ![i] = @ \cup {st}]
         ELSE UNCHANGED <<vReserved, vInFlight>>
    /\ UNCHANGED <<vProposer, vKnows, vCall, vAttempt, vSigned, vSigs,
                   vResults, vCertified, vFailures>>

\* Mutant: what is recovered is signed as it is.
SignUnverified(i, st) ==
    /\ st \in vInFlight[i]
    /\ vInFlight' = [vInFlight EXCEPT ![i] = @ \ {st}]
    /\ vSigned' = IF vReserved[i] = st THEN vSigned \cup {<<i, st>>} ELSE vSigned
    /\ UNCHANGED <<vProposer, vKnows, vCall, vAttempt, vRequests, vRecord,
                   vReserved, vSigs, vResults, vCertified, vFailures>>

\* validateAndSignAggregate: leaves and aggregate are recovered and verified;
\* the reservation is read again before signing.
ValidateAndSign(i, st) ==
    /\ st \in vInFlight[i]
    /\ vInFlight' = [vInFlight EXCEPT ![i] = @ \ {st}]
    /\ vSigned' = IF st \in Sound /\ vReserved[i] = st
                    THEN vSigned \cup {<<i, st>>} ELSE vSigned
    /\ UNCHANGED <<vProposer, vKnows, vCall, vAttempt, vRequests, vRecord,
                   vReserved, vSigs, vResults, vCertified, vFailures>>

\* A leaf or the aggregate is not to be had in time.  The goroutine ends, the
\* reservation stays, and a repeated request starts again.
RecoveryFails(i, st) ==
    /\ st \in vInFlight[i] /\ vFailures < MaxFailures
    /\ vFailures' = vFailures + 1
    /\ vInFlight' = [vInFlight EXCEPT ![i] = @ \ {st}]
    /\ UNCHANGED <<vProposer, vKnows, vCall, vAttempt, vRequests, vRecord,
                   vReserved, vSigned, vSigs, vResults, vCertified>>

\* handleValidationSignature: a valid signature of a sampled validator while
\* the collection is open.
OnSignature(v) ==
    /\ vCall \in {"grace", "collecting"} /\ v \in Validators \ vSigs
    /\ v \in Faulty \/ <<v, Own>> \in vSigned
    /\ vSigs' = vSigs \cup {v}
    /\ UNCHANGED <<vProposer, vKnows, vCall, vAttempt, vRequests, vRecord,
                   vReserved, vInFlight, vSigned, vResults, vCertified,
                   vFailures>>

\* pending.ready: build the certificate, keep it and send the result to all.
BuildCertificate ==
    /\ vCall \in {"grace", "collecting"}
    /\ Cardinality(vSigs) >= ValidatorQuorum
    /\ vCall' = "certified"
    /\ vCertified' = [vCertified EXCEPT ![vProposer] = Own]
    /\ vResults' = Correct \ {vProposer}
    /\ UNCHANGED <<vProposer, vKnows, vAttempt, vRequests, vRecord, vReserved,
                   vInFlight, vSigned, vSigs, vFailures>>

\* The result of the proposer, or a certificate a faulty one can have.
ResultOffered(i, st) ==
    IF vProposer \in Correct THEN i \in vResults /\ st = Own
    ELSE CertifiableStatement(st)

\* handleValidationResult: dropped unless the request has been accepted.
OnResult(i, st) ==
    /\ ResultOffered(i, st)
    /\ vResults' = vResults \ {i}
    /\ vCertified' = [vCertified EXCEPT ![i] = IF st \in vRecord[i] THEN st ELSE @]
    /\ UNCHANGED <<vProposer, vKnows, vCall, vAttempt, vRequests, vRecord,
                   vReserved, vInFlight, vSigned, vSigs, vFailures>>

ValidationNext ==
    \/ \E i \in Correct :
          \/ LearnSample(i)
          \/ \E st \in Statements :
                \/ \E j \in Old : OnRequest(i, j, st)
                \/ ValidateAndSign(i, st) \/ RecoveryFails(i, st)
                \/ OnResult(i, st)
    \/ CertifyAggregate \/ DeferredWave \/ RetryRequest \/ BuildCertificate
    \/ \E v \in Validators : OnSignature(v)

ValidationSpec == ValidationInit /\ [][ValidationNext]_validationVars

\* What is bound to happen: messages between correct members arrive, timers
\* fire, and a recovery that does not fail ends.  When members learn the sample
\* is open.
ValidationProgress ==
    \/ DeferredWave \/ RetryRequest \/ BuildCertificate
    \/ \E i \in Correct :
          \/ vProposer \in Correct /\ (OnRequest(i, vProposer, Own) \/ OnResult(i, Own))
          \/ OnSignature(i) \/ \E st \in Statements : ValidateAndSign(i, st)

\* No step of ValidationProgress is left: requests, recoveries, signatures and
\* results are through, and the waves are sent.
ValidationAtRest ==
    /\ vCall # "grace" /\ (vCall = "collecting" => vAttempt = MaxRequestWaves)
    /\ vCall = "collecting" =>
          /\ Cardinality(vSigs) < ValidatorQuorum
          /\ \A i \in Validators \cap Correct : <<i, Own>> \in vSigned => i \in vSigs
    /\ vProposer \in Correct => vRequests \cap Correct = {} /\ vResults = {}
    /\ \A i \in Correct : vInFlight[i] = {}

-----------------------------------------------------------------------------
ValidationTypeOK ==
    /\ vProposer \in Proposers /\ vKnows \subseteq Correct
    /\ vCall \in {"none", "before", "grace", "collecting", "certified"}
    /\ vAttempt \in 0 .. MaxRequestWaves /\ vRequests \subseteq Validators
    /\ vRecord \in [Correct -> SUBSET Statements]
    /\ vReserved \in [Correct -> Statements \cup {None}]
    /\ vInFlight \in [Correct -> SUBSET Statements]
    /\ vSigned \subseteq Correct \X Statements /\ vSigs \subseteq Validators
    /\ vResults \subseteq Correct
    /\ vCertified \in [Correct -> Statements \cup {None}]
    /\ vFailures \in 0 .. MaxFailures

\* Whatever a faulty proposer sends to whom, whatever the faulty validators
\* sign and in whatever order recoveries end: a statement that any member holds
\* as certified has been recovered and verified by a correct validator.
CertifiedSound ==
    \A i \in Correct : vCertified[i] # None =>
        /\ vCertified[i] \in Sound
        /\ \E v \in Validators \cap Correct : <<v, vCertified[i]>> \in vSigned

\* A correct proposer that still has a wave to send when the last validator
\* learns the sample and the last recovery has failed gets its certificate: the
\* reservation a failed recovery leaves behind does not keep the validator from
\* trying again, and nobody can use it up in the proposer's name.
AggregateCertified ==
    vCall = "collecting" /\ vAttempt < MaxRequestWaves
      /\ Correct \subseteq vKnows /\ vFailures = MaxFailures
        ~> vCall = "certified"

\* A validator whose signature is in the certificate of a correct proposer ends
\* up with the certificate.  One whose request comes after the result signs in
\* vain and does not: the result is sent once.
SignersLearn ==
    ValidationAtRest =>
        \A i \in Validators \cap Correct :
            i \in vSigs /\ vCall = "certified" => vCertified[i] = Own
=============================================================================

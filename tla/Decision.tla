------------------------------ MODULE Decision ------------------------------
(***************************************************************************)
(* From an agreed aggregate to the handoff that the new committee accepts: *)
(* FinalizeDecision, handleDecisionShare, handleHandoff and AwaitHandoff   *)
(* of src/core/cv_sapvss_apdb_network_scalar.go, with the durable record   *)
(* of src/core/cv_sapvss_decision_store.go.                                *)
(*                                                                         *)
(* A member of the old committee writes what it is about to sign to an     *)
(* immutable file, releases its share, and collects n-f shares into a      *)
(* certificate; the handoff carries the certificate to everybody.  A       *)
(* member may crash between any two of these steps and run the epoch again;*)
(* the agreement of the new run may then hand it another value.  Members   *)
(* that have succeeded answer for a while and exit.                        *)
(***************************************************************************)
EXTENDS Committee

CONSTANTS New,        \* the receivers of the new committee
          Values,     \* what agreement may decide (header and ARC)
          MaxCrash    \* how many crashes in all

ASSUME DecisionAssumption == None \notin Values /\ MaxCrash \in Nat

DecisionThreshold == Cardinality(Old) - F

VARIABLES
    phase,      \* where a member is in FinalizeDecision
    value,      \* the decision it is finalizing
    record,     \* its decision-sign record on disk
    shares,     \* pending.shares: whose share it holds
    certs,      \* decisionCertificates and pending.certificate
    signed,     \* signatures that have left a member
    handoffs,   \* values whose handoff has been broadcast
    accepted,   \* acceptedHandoff of each receiver
    crashes

vars == <<phase, value, record, shares, certs, signed, handoffs, accepted,
          crashes>>

Signers(v) == {i \in Correct : <<i, v>> \in signed} \cup Faulty

\* A certificate over v can exist.
Certifiable(v) == Cardinality(Signers(v)) >= DecisionThreshold

Ready(i) == value[i] \in certs[i] \/ Cardinality(shares[i]) >= DecisionThreshold

-----------------------------------------------------------------------------
\* Mutant: a record of an earlier run is overwritten.
PersistOverwrites(i, v) ==
    /\ phase[i] = "idle"
    /\ record' = [record EXCEPT ![i] = v]
    /\ value' = [value EXCEPT ![i] = v]
    /\ phase' = [phase EXCEPT ![i] = "persisted"]
    /\ UNCHANGED <<shares, certs, signed, handoffs, accepted, crashes>>

\* cvPutImmutableFile: an entry that exists stays as it is.
PutImmutable(entry, v) == IF entry = None THEN v ELSE entry

\* SignHandoffOnce up to the record: one with other bytes is an error.
Persist(i, v) ==
    /\ phase[i] = "idle"
    /\ record' = [record EXCEPT ![i] = PutImmutable(@, v)]
    /\ value' = [value EXCEPT ![i] = v]
    /\ phase' = [phase EXCEPT ![i] =
                   IF record[i] \in {None, v} THEN "persisted" ELSE "failed"]
    /\ UNCHANGED <<shares, certs, signed, handoffs, accepted, crashes>>

\* The share is signed, registered and sent to the others, unless a handoff has
\* already brought the certificate.  The retry timer repeats this for members
\* whose share is missing.
Release(i) ==
    /\ phase[i] = "persisted"
    /\ phase' = [phase EXCEPT ![i] = "collecting"]
    /\ shares' = [shares EXCEPT ![i] = {i}]
    /\ signed' = IF value[i] \in certs[i] THEN signed ELSE signed \cup {<<i, value[i]>>}
    /\ UNCHANGED <<value, record, certs, handoffs, accepted, crashes>>

\* The retry budget is spent.
GiveUp(i) ==
    /\ phase[i] = "collecting" /\ ~Ready(i)
    /\ phase' = [phase EXCEPT ![i] = "failed"]
    /\ UNCHANGED <<value, record, shares, certs, signed, handoffs, accepted, crashes>>

\* handleDecisionShare answers with the local share while the process lives.
Answers(i, v) == phase[i] \in {"collecting", "done"} /\ value[i] = v

\* Member j gets a share of i: one in flight, or the answer to its request.
OnShare(j, i) ==
    /\ phase[j] = "collecting" /\ i \notin shares[j]
    /\ i \in Correct => (<<i, value[j]>> \in signed \/ Answers(i, value[j]))
    /\ shares' = [shares EXCEPT ![j] = @ \cup {i}]
    /\ signed' = signed \cup {<<k, value[j]>> : k \in {i, j} \cap Correct}
    /\ UNCHANGED <<phase, value, record, certs, handoffs, accepted, crashes>>

\* A request of a faulty member tells it the share of j.
AnswerFaulty(j) ==
    /\ Faulty # {} /\ phase[j] \in {"collecting", "done"}
    /\ signed' = signed \cup {<<j, value[j]>>}
    /\ UNCHANGED <<phase, value, record, shares, certs, handoffs, accepted, crashes>>

\* n-f shares or a certificate: broadcast the handoff and return.
Finish(i) ==
    /\ phase[i] = "collecting" /\ Ready(i)
    /\ phase' = [phase EXCEPT ![i] = "done"]
    /\ handoffs' = handoffs \cup {value[i]}
    /\ UNCHANGED <<value, record, shares, certs, signed, accepted, crashes>>

\* A handoff with a valid certificate, of a correct member or of a faulty one
\* that has the shares.
Valid(v) == v \in handoffs \/ (Faulty # {} /\ Certifiable(v))

\* handleHandoff in the old committee: keep the certificate, also for a call of
\* FinalizeDecision that has yet to come.
OnHandoff(i, v) ==
    /\ phase[i] # "left" /\ Valid(v) /\ v \notin certs[i]
    /\ certs' = [certs EXCEPT ![i] = @ \cup {v}]
    /\ UNCHANGED <<phase, value, record, shares, signed, handoffs, accepted,
                   crashes>>

\* handleHandoff in the new committee: the first valid handoff is the one.
Accept(r, v) ==
    /\ accepted[r] = None /\ Valid(v)
    /\ accepted' = [accepted EXCEPT ![r] = v]
    /\ UNCHANGED <<phase, value, record, shares, certs, signed, handoffs,
                   crashes>>

\* The grace period of a member that has succeeded is over.
Leave(i) ==
    /\ phase[i] = "done"
    /\ phase' = [phase EXCEPT ![i] = "left"]
    /\ UNCHANGED <<value, record, shares, certs, signed, handoffs, accepted,
                   crashes>>

\* A crash loses everything but the record; the epoch is run again.
Crash(i) ==
    /\ crashes < MaxCrash /\ phase[i] # "left"
    /\ crashes' = crashes + 1
    /\ phase' = [phase EXCEPT ![i] = "idle"]
    /\ value' = [value EXCEPT ![i] = None]
    /\ shares' = [shares EXCEPT ![i] = {}]
    /\ certs' = [certs EXCEPT ![i] = {}]
    /\ UNCHANGED <<record, signed, handoffs, accepted>>

Init ==
    /\ phase = [i \in Correct |-> "idle"]
    /\ value = [i \in Correct |-> None]
    /\ record = [i \in Correct |-> None]
    /\ shares = [i \in Correct |-> {}]
    /\ certs = [i \in Correct |-> {}]
    /\ signed = {} /\ handoffs = {}
    /\ accepted = [r \in New |-> None]
    /\ crashes = 0

Next ==
    \/ \E i \in Correct :
          \/ Release(i) \/ AnswerFaulty(i) \/ GiveUp(i) \/ Finish(i) \/ Leave(i) \/ Crash(i)
          \/ \E v \in Values : Persist(i, v) \/ OnHandoff(i, v)
          \/ \E j \in Old : OnShare(i, j)
    \/ \E r \in New, v \in Values : Accept(r, v)

Spec == Init /\ [][Next]_vars

\* What is bound to happen: members call FinalizeDecision and retry, a member
\* that answers is heard, and a handoff that was broadcast arrives.  A share
\* that nobody repeats may be lost.
DecisionProgress ==
    \/ \E i \in Correct :
          \/ Release(i) \/ Finish(i)
          \/ \E v \in Values : Persist(i, v)
          \/ \E j \in Correct : Answers(j, value[i]) /\ OnShare(i, j)
          \/ \E v \in handoffs : OnHandoff(i, v)
    \/ \E r \in New, v \in handoffs : Accept(r, v)

\* No step of DecisionProgress is left: answers and handoffs are through.
DecisionAtRest ==
    /\ \A i \in Correct :
          /\ phase[i] # "persisted" /\ (phase[i] = "idle" => Values = {})
          /\ phase[i] = "collecting" =>
                ~Ready(i) /\ \A j \in Correct : Answers(j, value[i]) => j \in shares[i]
          /\ phase[i] # "left" => handoffs \subseteq certs[i]
    /\ \A r \in New : accepted[r] = None => handoffs = {}

-----------------------------------------------------------------------------
ValueOrNone == Values \cup {None}

TypeOK ==
    /\ phase \in [Correct ->
                    {"idle", "persisted", "collecting", "done", "failed", "left"}]
    /\ value \in [Correct -> ValueOrNone] /\ record \in [Correct -> ValueOrNone]
    /\ shares \in [Correct -> SUBSET Old] /\ certs \in [Correct -> SUBSET Values]
    /\ signed \subseteq Correct \X Values
    /\ handoffs \subseteq Values
    /\ accepted \in [New -> ValueOrNone]
    /\ crashes \in 0 .. MaxCrash

\* Values for which anybody holds a certificate or has passed one on.
Certified ==
    handoffs \cup (UNION {certs[i] : i \in Correct})
      \cup {accepted[r] : r \in {s \in New : accepted[s] # None}}

\* Whatever crashes, repeated runs with other decisions and faulty signers do,
\* one value at most is ever certified: all receivers accept the same handoff,
\* and it is the one a local FinalizeDecision returned.
HandoffAgreement == \A v, w \in Certified : v = w

\* A certificate never outlives the promises behind it: n-2f correct members
\* have the certified value on disk and can sign no other.
CertificateDurable ==
    \A v \in Certified :
        Cardinality({i \in Correct : record[i] = v}) >= DecisionThreshold - F

\* When agreement gave everybody the same value and nobody crashed, every member
\* finalizes and every receiver accepts it, although early members may have left
\* by then: shares are answered and certificates are kept for latecomers.
AllFinalize ==
    /\ crashes = 0 /\ \E v \in Values : \A i \in Correct : value[i] = v
    /\ DecisionAtRest
    => \/ /\ \A i \in Correct : phase[i] \in {"done", "left"}
          /\ \A r \in New : accepted[r] # None
       \/ \E i \in Correct : phase[i] = "failed"
=============================================================================

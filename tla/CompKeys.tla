------------------------------ MODULE CompKeys ------------------------------
(***************************************************************************)
(* Key derivation of Practical-ADKR: startCompKeyService and               *)
(* runCompKeyDerivationMulticast of                                        *)
(* src/experiments/practical-adkr/core/comp_multicast.go, with compProve   *)
(* and interpolateCompPublicKeys of comp_proof.go.                         *)
(*                                                                         *)
(* Every member of the new committee proves its public key share and sends *)
(* it to the others; n-f valid shares give the group key and the shares of *)
(* all.  The responders are up from the start of the run, long before the  *)
(* keys are exchanged.                                                     *)
(***************************************************************************)
EXTENDS Committee, Field

CONSTANTS Coefficients,  \* of the sum of the selected dealers' polynomials
          BadValues,     \* values of shares that are not on the polynomial
          Unproven,      \* members whose CompProve may fail
          MaxFailedSends \* attempts that fail although the peer is up

ASSUME KeysAssumption == MaxFailedSends \in Nat

VARIABLES
    kPhase,   \* how far a process is
    kSent,    \* pairs of sender and receiver whose key has arrived
    kGone,    \* pairs whose send ended without an acknowledgement
    kFails,   \* attempts that have failed
    kValid    \* valid: shares a collector has, as pairs of member and value

keyVars == <<kPhase, kSent, kGone, kFails, kValid>>

\* threshold of the derivation and need of the readiness barrier.
KeyThreshold == Cardinality(Old) - F

\* The public share of a member: the polynomial at its point.
TrueShare == [p \in Old |-> EvalPoly(Coefficients, p + 1)]

KeysInit ==
    /\ kPhase = [p \in Correct |-> "start"] /\ kSent = {} /\ kGone = {} /\ kFails = 0
    /\ kValid = [p \in Correct |-> {}]

\* The responder of a process is reachable.
ResponderUp(p) == p \in Correct => kPhase[p] \notin {"start", "failed", "closed"}

\* startCompKeyService.
StartResponder(p) ==
    /\ kPhase[p] = "start" /\ kPhase' = [kPhase EXCEPT ![p] = "probe"]
    /\ UNCHANGED <<kSent, kGone, kFails, kValid>>

\* waitCompKeyServiceReady: n-f responders answer.
RespondersReady(p) ==
    /\ kPhase[p] = "probe" /\ Cardinality({q \in Old : ResponderUp(q)}) >= KeyThreshold
    /\ kPhase' = [kPhase EXCEPT ![p] = "ready"]
    /\ UNCHANGED <<kSent, kGone, kFails, kValid>>

\* compProve: the process has its share and its collector starts with it.
Prove(p) ==
    /\ kPhase[p] = "ready" /\ kPhase' = [kPhase EXCEPT ![p] = "collect"]
    /\ kValid' = [kValid EXCEPT ![p] = {<<p, TrueShare[p]>>}]
    /\ UNCHANGED <<kSent, kGone, kFails>>

\* compProve fails: the share a transcript says was acknowledged is not
\* there, or is another one.
ProveFails(p) ==
    /\ p \in Unproven /\ kPhase[p] = "ready"
    /\ kPhase' = [kPhase EXCEPT ![p] = "failed"]
    /\ UNCHANGED <<kSent, kGone, kFails, kValid>>

Pending(p, q) == kPhase[p] \in {"collect", "leave"} /\ <<p, q>> \notin kSent \cup kGone

\* sendCompKeyWire and serveCompKeyWires: a key is acknowledged and queued.
SendKey(p, q) ==
    /\ p # q /\ Pending(p, q) /\ ResponderUp(q)
    /\ kSent' = kSent \cup {<<p, q>>}
    /\ UNCHANGED <<kPhase, kGone, kFails, kValid>>

\* A failed attempt ends the send when the stage was cancelled; else it is
\* repeated.
SendFails(p, q) ==
    /\ p # q /\ Pending(p, q) /\ kPhase[p] = "leave"
    /\ ResponderUp(q) => kFails < MaxFailedSends
    /\ kFails' = IF ResponderUp(q) THEN kFails + 1 ELSE kFails
    /\ kGone' = kGone \cup {<<p, q>>}
    /\ UNCHANGED <<kPhase, kSent, kValid>>

\* Shares a collector can read from its channel.
Wires(q) ==
    {<<p, TrueShare[p]>> : p \in {r \in Correct : <<r, q>> \in kSent}}
    \cup {<<p, v>> : p \in Faulty, v \in BadValues \cup {TrueShare[r] : r \in Faulty}}

\* verifyCompPublicKeyShare: the proof is bound to the selected transcripts,
\* which fix the share.
ShareVerifies(p, v) == v = TrueShare[p]

\* collectCompKeyWires: the first valid share of a member is kept.
CollectKey(q, m) ==
    /\ kPhase[q] = "collect" /\ m \in Wires(q) /\ ShareVerifies(m[1], m[2])
    /\ \A e \in kValid[q] : e[1] # m[1]
    /\ kValid' = [kValid EXCEPT ![q] = @ \cup {m}]
    /\ UNCHANGED <<kPhase, kSent, kGone, kFails>>

\* The shares used: of the n-f lowest members, by their evaluation point.
UsedShares(V) ==
    LET low == {e \in V : Cardinality({d \in V : d[1] < e[1]}) < KeyThreshold}
    IN [x \in {e[1] + 1 : e \in low} |-> (CHOOSE e \in low : e[1] + 1 = x)[2]]

\* interpolateCompPublicKeys: the group key and the shares of all members.
DerivedKeys(V) ==
    [group |-> InterpolateAt(UsedShares(V), 0),
     shares |-> [p \in Old |-> InterpolateAt(UsedShares(V), p + 1)]]

\* What Lagrange interpolation computes: any n-f shares of the polynomial give
\* its value at 0 and the shares of all members.
InterpolationExact ==
    \A V \in SUBSET {<<p, TrueShare[p]>> : p \in Old} :
        Cardinality(V) >= KeyThreshold =>
            DerivedKeys(V) = [group |-> EvalPoly(Coefficients, 0), shares |-> TrueShare]

\* The collector has its threshold, the window for more is over, and the
\* stage is cancelled.
CollectorDone(p) ==
    /\ kPhase[p] = "collect" /\ Cardinality(kValid[p]) >= KeyThreshold
    /\ kPhase' = [kPhase EXCEPT ![p] = "leave"]
    /\ UNCHANGED <<kSent, kGone, kFails, kValid>>

\* sendWG.Wait(); a send to a faulty member ends at the latest after its
\* attempt and is left out.
SendsEnded(p) == \A q \in Correct \ {p} : <<p, q>> \in kSent \cup kGone

\* Every send has had its last attempt: the derivation returns.
Derived(p) ==
    /\ kPhase[p] = "leave" /\ SendsEnded(p)
    /\ kPhase' = [kPhase EXCEPT ![p] = "derived"]
    /\ UNCHANGED <<kSent, kGone, kFails, kValid>>

\* closeCompServiceAfterGrace.
CloseResponder(p) ==
    /\ kPhase[p] = "derived" /\ kPhase' = [kPhase EXCEPT ![p] = "closed"]
    /\ UNCHANGED <<kSent, kGone, kFails, kValid>>

\* The deadline of the readiness barrier or of the stage.
StageExpires(p) ==
    /\ p \in Unproven /\ kPhase[p] \in {"probe", "collect"}
    /\ kPhase' = [kPhase EXCEPT ![p] = "failed"]
    /\ UNCHANGED <<kSent, kGone, kFails, kValid>>

KeysNext ==
    \/ \E p \in Correct :
         \/ StartResponder(p) \/ RespondersReady(p) \/ Prove(p) \/ ProveFails(p)
         \/ CollectorDone(p) \/ Derived(p) \/ CloseResponder(p) \/ StageExpires(p)
    \/ \E p, q \in Correct : SendKey(p, q) \/ SendFails(p, q)
    \/ \E q \in Correct, p \in Old, v \in Scalars : CollectKey(q, <<p, v>>)

\* What is bound to happen: processes run, a send succeeds or fails for good,
\* and shares of correct processes are collected.
KeysProgress ==
    \/ \E p \in Correct : \/ StartResponder(p) \/ RespondersReady(p) \/ Prove(p) \/ ProveFails(p)
                          \/ CollectorDone(p) \/ Derived(p)
    \/ \E p, q \in Correct : \/ SendKey(p, q) \/ SendFails(p, q)
                             \/ CollectKey(q, <<p, TrueShare[p]>>)

\* No step of KeysProgress is left: what can be sent and collected is.
KeysAtRest ==
    \A p \in Correct :
        /\ kPhase[p] \notin {"start", "ready"}
        /\ kPhase[p] = "probe" => Cardinality({q \in Old : ResponderUp(q)}) < KeyThreshold
        /\ kPhase[p] = "collect" =>
              /\ Cardinality(kValid[p]) < KeyThreshold
              /\ \A q \in Correct : <<q, p>> \in kSent => \E e \in kValid[p] : e[1] = q
        /\ kPhase[p] = "leave" => ~SendsEnded(p)
        /\ \A q \in Correct \ {p} : Pending(p, q) => ~ResponderUp(q) /\ kPhase[p] # "leave"

-----------------------------------------------------------------------------
\* Types of the variables; a collector keeps one share of a member.
KeysTypeOK ==
    /\ kPhase \in [Correct -> {"start", "probe", "ready", "collect", "leave",
                               "derived", "closed", "failed"}]
    /\ kSent \cap kGone = {} /\ kFails \in 0 .. MaxFailedSends
    /\ \A p \in Correct : \A d, e \in kValid[p] : d[1] = e[1] => d = e

\* Every process that derives keys, from whichever shares it has collected,
\* derives the group key at 0 and the share of every member, those of the
\* members it has not heard of too.
KeysAreShared ==
    \A p \in Correct : kPhase[p] = "leave" =>
        DerivedKeys(kValid[p]) = [group |-> EvalPoly(Coefficients, 0), shares |-> TrueShare]

\* As long as no process fails or closes its responder, and no last attempt
\* of a send fails, every correct process derives its keys, also when others
\* finish and cancel their sends before.
KeysArrive ==
    KeysAtRest =>
        \/ kGone # {} \/ \E p \in Correct : kPhase[p] \in {"failed", "closed"}
        \/ \A p \in Correct : kPhase[p] = "derived"
=============================================================================

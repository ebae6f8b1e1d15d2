------------------------------ MODULE Receipts ------------------------------
(***************************************************************************)
(* Exchange of decryption receipts and recovery of the decided aggregate:  *)
(* ExchangeReceipts, receiptPreparationCall and handleReceipt of           *)
(* src/core/cv_sapvss_component_service.go, RecoverAggregate and           *)
(* handleRecover* of cv_sapvss_aggregate_service.go.                       *)
(*                                                                         *)
(* A host recovers the aggregate from n-2f fresh shards, prepares the      *)
(* receipts of its receivers once, and broadcasts them, again at every     *)
(* tick, until it has t+1 verified ones.  A host that is not exchanging    *)
(* ignores receipts, and one that has finished sends no more.              *)
(***************************************************************************)
EXTENDS Integers, FiniteSets

CONSTANTS Hosts,         \* processes that host receivers
          SilentHosts,   \* hosts that do not take part
          ReceiptDegree, \* sharingDegree
          FreshHolders   \* hosts that persisted a fresh shard

ASSUME ReceiptAssumption ==
    /\ IsFiniteSet(Hosts) /\ SilentHosts \subseteq Hosts /\ ReceiptDegree \in Nat
    /\ Cardinality(Hosts \ SilentHosts) > ReceiptDegree

VARIABLES
    rcState,    \* recovering, preparing, exchanging or finished
    rcShards,   \* artifacts of RecoverAggregate
    rcPrepared, \* how often the receipts were prepared
    rcFlight,   \* receipts on their way: from, to
    rcVerified  \* verified receipts of a host

receiptVars == <<rcState, rcShards, rcPrepared, rcFlight, rcVerified>>

LiveHosts == Hosts \ SilentHosts

\* n-2f with f silent hosts allowed for.
NeededShards == Cardinality(Hosts) - 2 * Cardinality(SilentHosts)

ReceiptInit ==
    /\ rcState = [p \in LiveHosts |-> "recovering"] /\ rcShards = [p \in LiveHosts |-> {}]
    /\ rcPrepared = [p \in LiveHosts |-> 0] /\ rcFlight = {}
    /\ rcVerified = [p \in LiveHosts |-> {}]

\* handleRecoverGet and handleRecoverShard: a holder answers, its shard is
\* accepted under its own index.
ShardRecovered(p, q) ==
    /\ rcState[p] = "recovering" /\ q \in FreshHolders \ rcShards[p]
    /\ Cardinality(rcShards[p]) < NeededShards
    /\ rcShards' = [rcShards EXCEPT ![p] = @ \cup {q}]
    /\ UNCHANGED <<rcState, rcPrepared, rcFlight, rcVerified>>

\* StartReceiptPreparation: the receipts may be prepared ahead of the
\* exchange, in one shared call.
PrepareReceipts(p) ==
    /\ Cardinality(rcShards[p]) >= NeededShards /\ rcPrepared[p] = 0
    /\ rcPrepared' = [rcPrepared EXCEPT ![p] = 1]
    /\ UNCHANGED <<rcState, rcShards, rcFlight, rcVerified>>

\* ExchangeReceipts registers, and waits for the preparation.
RegisterExchange(p) ==
    /\ rcState[p] = "recovering" /\ Cardinality(rcShards[p]) >= NeededShards
    /\ rcState' = [rcState EXCEPT ![p] = "preparing"]
    /\ UNCHANGED <<rcShards, rcPrepared, rcFlight, rcVerified>>

BroadcastTo(p) == {<<p, q>> : q \in LiveHosts \ {p}}

StartExchange(p) ==
    /\ rcState[p] = "preparing" /\ rcPrepared[p] = 1
    /\ rcState' = [rcState EXCEPT ![p] = "exchanging"]
    /\ rcVerified' = [rcVerified EXCEPT ![p] = @ \cup {p}]
    /\ rcFlight' = rcFlight \cup BroadcastTo(p)
    /\ UNCHANGED <<rcShards, rcPrepared>>

\* The ticker: the receipts are broadcast again.
Rebroadcast(p) ==
    /\ rcState[p] = "exchanging" /\ Cardinality(rcVerified[p]) <= ReceiptDegree
    /\ ~ (BroadcastTo(p) \subseteq rcFlight)
    /\ rcFlight' = rcFlight \cup BroadcastTo(p)
    /\ UNCHANGED <<rcState, rcShards, rcPrepared, rcVerified>>

\* handleReceipt: ignored unless an exchange is registered.
ReceiptArrives(p, q) ==
    /\ <<q, p>> \in rcFlight
    /\ rcFlight' = rcFlight \ {<<q, p>>}
    /\ rcVerified' = [rcVerified EXCEPT ![p] =
         IF rcState[p] \in {"preparing", "exchanging"} THEN @ \cup {q} ELSE @]
    /\ UNCHANGED <<rcState, rcShards, rcPrepared>>

\* Mutant: the host finishes with t receipts.
ReceiptsSufficeFew(p) == Cardinality(rcVerified[p]) >= ReceiptDegree

ReceiptsSuffice(p) == Cardinality(rcVerified[p]) >= ReceiptDegree + 1

FinishExchange(p) ==
    /\ rcState[p] = "exchanging" /\ ReceiptsSuffice(p)
    /\ rcState' = [rcState EXCEPT ![p] = "finished"]
    /\ UNCHANGED <<rcShards, rcPrepared, rcFlight, rcVerified>>

ReceiptNext ==
    \E p \in LiveHosts :
       \/ PrepareReceipts(p) \/ RegisterExchange(p) \/ StartExchange(p) \/ Rebroadcast(p) \/ FinishExchange(p)
       \/ \E q \in Hosts : ShardRecovered(p, q) \/ ReceiptArrives(p, q)

ReceiptSpec == ReceiptInit /\ [][ReceiptNext]_receiptVars

-----------------------------------------------------------------------------
(* t+1 receipts interpolate the key: no host finishes on fewer, nor on     *)
(* receipts of an aggregate it has not recovered.                          *)
ReceiptTypeOK ==
    \A p \in LiveHosts :
       /\ rcState[p] \in {"recovering", "preparing", "exchanging", "finished"}
       /\ rcState[p] # "recovering" => Cardinality(rcShards[p]) >= NeededShards
       /\ rcState[p] = "finished" =>
            Cardinality(rcVerified[p]) >= ReceiptDegree + 1 /\ rcPrepared[p] = 1

(* All but the last t hosts to register finish: each of them is sent the   *)
(* receipts of t hosts that register after it.  The last ones may wait for *)
(* receipts that came too early and that nobody sends any more.            *)
FirstsFinish ==
    (\E p \in LiveHosts : rcShards[p] # {})
        ~> Cardinality({p \in LiveHosts : rcState[p] = "finished"})
             >= Cardinality(LiveHosts) - ReceiptDegree
=============================================================================

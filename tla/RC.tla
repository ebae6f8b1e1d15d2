--------------------------------- MODULE RC ---------------------------------
(***************************************************************************)
(* Recast of the value of one leader: runRCSubprotocol of                  *)
(* src/experiments/dumbomvba-go/core/rc_equivalent.go, on what the         *)
(* dispersal of module PD left behind.                                     *)
(*                                                                         *)
(* A node enters when binary agreement chose this leader.  It broadcasts   *)
(* the lock and sends the stripe that runPDInstance returned to it, then   *)
(* waits for a lock and n-2f stripes of the locked root.  With a fanout    *)
(* below n it asks the others for stripes after a delay; a node answers    *)
(* while it is in this loop, also from the cache of stripes (cacheRCStore).*)
(***************************************************************************)
EXTENDS PD

CONSTANTS RCFanout,   \* rcResponsibilityFanout: recipients of a stripe
          Codeword    \* roots whose stripes are a codeword: decoding agrees

ASSUME RCAssumption == RCFanout \in N - F .. N /\ Codeword \subseteq Roots

VARIABLES
    rc,       \* not there yet, in the loop, or returned the value
    cert,     \* certifiedRoot
    shards,   \* commit: the stripes received, as sender and root
    cast,     \* locks this node has broadcast
    pulled    \* pull requests sent, as the root asked for

rcVars == <<rc, cert, shards, cast, pulled>>
vars == <<pdVars, rcVars>>

\* What runPDInstance handed over; a cancelled worker hands over nothing.
LockOut(i) == IF pd[i] = "returned" THEN lock[i] ELSE NoRoot
StoreOut(i) == IF pd[i] = "returned" THEN store[i] ELSE NoRoot

InRC(i) == rc[i] = "loop" /\ i \notin crashed

\* rcResponsibilityRecipients: the ring order again.
RCRecipients(i) == {(i + o) % N : o \in 0 .. RCFanout - 1}

Shard(j, r) == [from |-> j, root |-> r]

\* tryDecode on the certified root after a change of either.
Decodes(r, s) ==
    r \in Codeword /\ Cardinality({x \in s : x.root = r}) >= K

\* Agreement on this leader: 2f+1 nodes have sent RCPREPARE and one of them
\* showed a lock.
LeaderChosen ==
    /\ Cardinality({i \in Correct : pd[i] # "running"} \cup Faulty) >= 2 * F + 1
    /\ \/ \E i \in Correct : LockOut(i) # NoRoot
       \/ Faulty # {} /\ \E r \in Roots : Certified("STORED", r)

\* Mutant: a node without a lock broadcasts the empty one.
EnterNilLock(i) ==
    /\ rc[i] = "before" /\ i \notin crashed /\ pd[i] # "running"
    /\ LeaderChosen
    /\ rc' = [rc EXCEPT ![i] = "loop"]
    /\ cast' = [cast EXCEPT ![i] = {LockOut(i)}]
    /\ UNCHANGED <<pdVars, cert, shards, pulled>>

Enter(i) ==
    /\ rc[i] = "before" /\ i \notin crashed /\ pd[i] # "running"
    /\ LeaderChosen
    /\ rc' = [rc EXCEPT ![i] = "loop"]
    /\ cast' = [cast EXCEPT ![i] = {LockOut(i)} \ {NoRoot}]
    /\ UNCHANGED <<pdVars, cert, shards, pulled>>

\* Mutant: the lock is used without checking its certificate.
OnRCLockForged(i) ==
    \E r \in Roots :
        /\ InRC(i) /\ Faulty # {}
        /\ cert' = [cert EXCEPT ![i] = r]
        /\ rc' = IF Decodes(r, shards[i]) THEN [rc EXCEPT ![i] = "returned"] ELSE rc
        /\ UNCHANGED <<pdVars, shards, cast, pulled>>

\* A valid lock: rebroadcast the first one, try to decode, arm the pull.
OnRCLock(i) ==
    \E r \in Roots :
        /\ InRC(i)
        /\ \/ \E j \in Correct : r \in cast[j]
           \/ Faulty # {} /\ Certified("STORED", r)
        /\ cert[i] # r
        /\ cast' = IF cert[i] = NoRoot THEN [cast EXCEPT ![i] = @ \cup {r}] ELSE cast
        /\ cert' = [cert EXCEPT ![i] = r]
        /\ rc' = IF Decodes(r, shards[i]) THEN [rc EXCEPT ![i] = "returned"] ELSE rc
        /\ UNCHANGED <<pdVars, shards, pulled>>

\* A stripe of node j, from its first cast or from any faulty node.
OnRCStore(i, j) ==
    \E r \in Roots :
        /\ InRC(i) /\ Shard(j, r) \notin shards[i]
        /\ IF j \in Faulty THEN TRUE
           ELSE rc[j] # "before" /\ r = StoreOut(j) /\ i \in RCRecipients(j)
        /\ shards' = [shards EXCEPT ![i] = @ \cup {Shard(j, r)}]
        /\ rc' = IF cert[i] = r /\ Decodes(r, shards'[i])
                   THEN [rc EXCEPT ![i] = "returned"] ELSE rc
        /\ UNCHANGED <<pdVars, cert, cast, pulled>>

\* The pull timer: f+3 requests at most, which wait in the peers' channels,
\* so that one stands for all.
Pull(i) ==
    /\ InRC(i) /\ RCFanout < N /\ cert[i] # NoRoot /\ cert[i] # pulled[i]
    /\ pulled' = [pulled EXCEPT ![i] = cert[i]]
    /\ UNCHANGED <<pdVars, rc, cert, shards, cast>>

\* Node j, still in its loop, answers i with the stripe it was given in PD.
AnswerPull(i, j) ==
    /\ InRC(i) /\ InRC(j) /\ i # j
    /\ pulled[i] # NoRoot /\ store[j] = pulled[i]
    /\ Shard(j, store[j]) \notin shards[i]
    /\ shards' = [shards EXCEPT ![i] = @ \cup {Shard(j, store[j])}]
    /\ rc' = IF cert[i] = store[j] /\ Decodes(cert[i], shards'[i])
               THEN [rc EXCEPT ![i] = "returned"] ELSE rc
    /\ UNCHANGED <<pdVars, cert, cast, pulled>>

Init ==
    /\ PDInit
    /\ rc = [i \in Correct |-> "before"]
    /\ cert = [i \in Correct |-> NoRoot]
    /\ shards = [i \in Correct |-> {}]
    /\ cast = [i \in Correct |-> {}]
    /\ pulled = [i \in Correct |-> NoRoot]

RCStep(i) ==
    \/ Enter(i) \/ OnRCLock(i) \/ Pull(i)
    \/ \E j \in Node : OnRCStore(i, j)
    \/ \E j \in Correct : AnswerPull(i, j)

Next ==
    \/ PDNext /\ UNCHANGED rcVars
    \/ \E i \in Correct : RCStep(i)

Spec == Init /\ [][Next]_vars

-----------------------------------------------------------------------------
RCTypeOK ==
    /\ PDTypeOK
    /\ rc \in [Correct -> {"before", "loop", "returned"}]
    /\ cert \in [Correct -> RootOrNone] /\ pulled \in [Correct -> RootOrNone]
    /\ shards \in [Correct -> SUBSET [from : Node, root : Roots]]
    /\ cast \in [Correct -> SUBSET Roots]

\* Nodes that return from RC return the value of the same root, whatever a
\* faulty leader dispersed and whatever locks and stripes faulty nodes send.
RCAgreement ==
    \A i, j \in Correct :
        rc[i] = "returned" /\ rc[j] = "returned" => cert[i] = cert[j]

\* The stripes of root r that node i has or can still get in RC.
Available(i, r) ==
    {j \in Node : Shard(j, r) \in shards[i]}
      \cup {j \in Correct \ crashed : StoreOut(j) = r /\ i \in RCRecipients(j)}
      \cup {j \in Correct \ crashed : RCFanout < N /\ store[j] = r /\ rc[j] # "returned"}

\* The comment at the call of runQuitPD: "local PD workers continue retaining
\* shards and locks for RC".  When all nodes have left dispersal, a node that
\* waits in RC for a locked root can still get the n-2f stripes it needs.
RetainedForRC ==
    \A i \in Correct : \A r \in Roots :
        /\ InRC(i) /\ \A j \in Correct : pd[j] # "running"
        /\ \E j \in Correct : LockOut(j) = r
        => Cardinality(Available(i, r)) >= K
=============================================================================

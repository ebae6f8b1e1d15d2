--------------------------------- MODULE PD ---------------------------------
(***************************************************************************)
(* One provable-dispersal instance of DumboMVBA, runPDInstance of          *)
(* src/experiments/dumbomvba-go/core/pd_equivalent.go, with the            *)
(* cancellation that runEquivalent (mvba_equivalent.go) issues once QuitPD *)
(* has returned.                                                           *)
(*                                                                         *)
(* The leader sends each node its stripe (STORE), collects n-f STORED      *)
(* shares into a lock certificate, broadcasts LOCK, collects n-f LOCKED    *)
(* shares and broadcasts DONE.  A value is represented by its Merkle root; *)
(* a stripe is correct for its root.  Faulty nodes sign any root; a faulty *)
(* leader offers any root, and any lock for which the shares exist.        *)
(*                                                                         *)
(* The n-1 other instances decide when QuitPD returns, so a node may quit  *)
(* at any moment of this instance.                                         *)
(***************************************************************************)
EXTENDS Integers, FiniteSets

CONSTANTS N,          \* number of nodes, named 0 .. N-1
          F,          \* fault bound
          Faulty,     \* nodes that do not follow the protocol
          Leader,     \* the leader of this instance
          PDFanout,   \* pdResponsibilityFanout: nodes served at once
          Roots,      \* Merkle roots; a correct leader's value has root Good
          Good,
          NoRoot,
          MaxCrash    \* how many correct nodes may stop for good

ASSUME PDAssumption ==
    /\ N \in Nat /\ F \in Nat /\ N >= 3 * F + 1
    /\ Faulty \subseteq 0 .. N - 1 /\ MaxCrash \in Nat
    /\ Cardinality(Faulty) + MaxCrash <= F
    /\ Leader \in 0 .. N - 1
    /\ PDFanout \in N - F .. N
    /\ Good \in Roots /\ NoRoot \notin Roots

Node == 0 .. N - 1
Correct == Node \ Faulty

Threshold == N - F
K == N - 2 * F                    \* stripes that determine the value

\* pdResponsibilityRecipients: the nodes that follow the leader in the ring.
Recipients(count) == {(Leader + o) % N : o \in 0 .. count - 1}

VARIABLES
    served,    \* nodes the leader has sent their stripe
    next,      \* replacementNext
    timer,     \* pullC is armed
    store,     \* out.store: root of the stripe a node holds
    lock,      \* out.lock: root of the lock a node holds
    stored,    \* storedShares of the leader: root signed by each sender
    locked,    \* lockedShares of the leader
    lockRoot,  \* root of the LOCK the leader broadcast (lockSent)
    doneRoot,  \* root of the DONE the leader broadcast
    signed,    \* shares sent to the leader by correct nodes
    pd,        \* the worker: running, or how it returned
    crashed

pdVars == <<served, next, timer, store, lock, stored, locked, lockRoot,
            doneRoot, signed, pd, crashed>>

Share(i, kind, r) == [by |-> i, kind |-> kind, root |-> r]

Running(i) == pd[i] = "running" /\ i \notin crashed

\* Signers whose share over r a leader may have.
Signers(kind, r) == {i \in Correct : Share(i, kind, r) \in signed} \cup Faulty

\* A certificate over r can be recovered.
Certified(kind, r) == Cardinality(Signers(kind, r)) >= Threshold

LeaderCorrect == Leader \in Correct

\* What the leader may have put in front of node i.
OffersStore(i, r) == IF LeaderCorrect THEN i \in served /\ r = Good ELSE TRUE
OffersLock(r) == IF LeaderCorrect THEN r = lockRoot ELSE Certified("STORED", r)

-----------------------------------------------------------------------------
\* Mutant: the timer is not armed again and no further node is served.
PullTimerSpent ==
    /\ LeaderCorrect /\ Running(Leader) /\ timer
    /\ timer' = FALSE
    /\ UNCHANGED <<served, next, store, lock, stored, locked, lockRoot, doneRoot, signed,
                   pd, crashed>>

\* The leader serves the next node of the ring while STORED shares are missing.
PullTimer ==
    /\ LeaderCorrect /\ Running(Leader) /\ timer
    /\ IF /\ lockRoot = NoRoot /\ next < N
          /\ Cardinality({j \in Node : stored[j] # NoRoot}) < Threshold
         THEN /\ served' = served \cup {(Leader + next) % N}
              /\ next' = next + 1
              /\ UNCHANGED timer
         ELSE timer' = FALSE /\ UNCHANGED <<served, next>>
    /\ UNCHANGED <<store, lock, stored, locked, lockRoot, doneRoot, signed, pd, crashed>>

\* Mutant: seenStoreFromLeader is not consulted.
OnStoreAgain(i) ==
    \E r \in Roots :
        /\ Running(i) /\ OffersStore(i, r)
        /\ store' = [store EXCEPT ![i] = r]
        /\ signed' = signed \cup {Share(i, "STORED", r)}
        /\ UNCHANGED <<served, next, timer, lock, stored, locked, lockRoot, doneRoot,
                       pd, crashed>>

\* A first valid stripe: keep and cache it, sign it, return if locked already.
OnStore(i) ==
    \E r \in Roots :
        /\ Running(i) /\ store[i] = NoRoot /\ OffersStore(i, r)
        /\ store' = [store EXCEPT ![i] = r]
        /\ signed' = signed \cup {Share(i, "STORED", r)}
        /\ pd' = IF i # Leader /\ lock[i] # NoRoot
                   THEN [pd EXCEPT ![i] = "returned"] ELSE pd
        /\ UNCHANGED <<served, next, timer, lock, stored, locked, lockRoot,
                       doneRoot, crashed>>

\* The threshold-th share decides: recovery needs n-f shares over its root.
Recovers(shares, r) == Cardinality({j \in Node : shares[j] = r}) >= Threshold

Count(shares) == Cardinality({j \in Node : shares[j] # NoRoot})

OnStored(j) ==
    \E r \in Roots :
        LET shares == [stored EXCEPT ![j] = r]
            full == Count(shares) >= Threshold /\ lockRoot = NoRoot
        IN  /\ LeaderCorrect /\ Running(Leader) /\ stored[j] = NoRoot
            /\ j \in Signers("STORED", r)
            /\ stored' = shares
            /\ lockRoot' = IF full /\ Recovers(shares, r) THEN r ELSE lockRoot
            /\ pd' = IF full /\ ~Recovers(shares, r)
                       THEN [pd EXCEPT ![Leader] = "failed"] ELSE pd
            /\ UNCHANGED <<served, next, timer, store, lock, locked, doneRoot,
                           signed, crashed>>

\* A first valid LOCK: keep it, sign it, return if stored already.
OnLock(i) ==
    \E r \in Roots :
        /\ Running(i) /\ lock[i] = NoRoot /\ OffersLock(r)
        /\ lock' = [lock EXCEPT ![i] = r]
        /\ signed' = signed \cup {Share(i, "LOCKED", r)}
        /\ pd' = IF i # Leader /\ store[i] # NoRoot
                   THEN [pd EXCEPT ![i] = "returned"] ELSE pd
        /\ UNCHANGED <<served, next, timer, store, stored, locked, lockRoot,
                       doneRoot, crashed>>

OnLocked(j) ==
    \E r \in Roots :
        LET shares == [locked EXCEPT ![j] = r]
            full == Count(shares) >= Threshold
        IN  /\ LeaderCorrect /\ Running(Leader) /\ locked[j] = NoRoot
            /\ j \in Signers("LOCKED", r)
            /\ locked' = shares
            /\ doneRoot' = IF full /\ Recovers(shares, r) THEN r ELSE doneRoot
            /\ pd' = IF full THEN [pd EXCEPT ![Leader] =
                            IF Recovers(shares, r) THEN "returned" ELSE "failed"]
                     ELSE pd
            /\ UNCHANGED <<served, next, timer, store, lock, stored, lockRoot,
                           signed, crashed>>

\* QuitPD returned at node i: cancelPD ends a worker that is still running,
\* and its outcome is nil.
Quit(i) ==
    /\ Running(i)
    /\ pd' = [pd EXCEPT ![i] = "cancelled"]
    /\ UNCHANGED <<served, next, timer, store, lock, stored, locked, lockRoot,
                   doneRoot, signed, crashed>>

Crash(i) ==
    /\ i \notin crashed /\ Cardinality(crashed) < MaxCrash
    /\ crashed' = crashed \cup {i}
    /\ UNCHANGED <<served, next, timer, store, lock, stored, locked, lockRoot,
                   doneRoot, signed, pd>>

PDInit ==
    /\ served = IF LeaderCorrect THEN Recipients(PDFanout) ELSE {}
    /\ next = PDFanout
    /\ timer = (PDFanout < N)
    /\ store = [i \in Correct |-> NoRoot]
    /\ lock = [i \in Correct |-> NoRoot]
    /\ stored = [j \in Node |-> NoRoot]
    /\ locked = [j \in Node |-> NoRoot]
    /\ lockRoot = NoRoot
    /\ doneRoot = NoRoot
    /\ signed = {}
    /\ pd = [i \in Correct |-> "running"]
    /\ crashed = {}

PDNext ==
    \/ PullTimer
    \/ \E i \in Correct : OnStore(i) \/ OnLock(i) \/ Quit(i) \/ Crash(i)
    \/ \E j \in Node : OnStored(j) \/ OnLocked(j)

PDSpec == PDInit /\ [][PDNext]_pdVars

\* What is bound to happen: workers run, and what a live leader sent arrives, as
\* do the shares of nodes that are correct and live.
PDProgress ==
    \/ PullTimer
    \/ \E i \in Correct :
          \/ Leader \notin crashed /\ (OnStore(i) \/ OnLock(i))
          \/ i \notin crashed /\ (OnStored(i) \/ OnLocked(i))

\* No step of PDProgress is left: the timer has run out, and what live nodes and a
\* live leader have for each other has been read.
PDAtRest ==
    /\ ~(LeaderCorrect /\ Running(Leader) /\ timer)
    /\ \A i \in Correct, r \in Roots :
          /\ Running(i) /\ Leader \notin crashed =>
                /\ OffersStore(i, r) => store[i] # NoRoot
                /\ OffersLock(r) => lock[i] # NoRoot
          /\ LeaderCorrect /\ Running(Leader) /\ i \notin crashed =>
                /\ i \in Signers("STORED", r) => stored[i] # NoRoot
                /\ i \in Signers("LOCKED", r) => locked[i] # NoRoot

-----------------------------------------------------------------------------
RootOrNone == Roots \cup {NoRoot}

PDTypeOK ==
    /\ served \subseteq Node /\ next \in PDFanout .. N /\ timer \in BOOLEAN
    /\ store \in [Correct -> RootOrNone] /\ lock \in [Correct -> RootOrNone]
    /\ stored \in [Node -> RootOrNone] /\ locked \in [Node -> RootOrNone]
    /\ lockRoot \in RootOrNone /\ doneRoot \in RootOrNone
    /\ signed \subseteq [by : Correct, kind : {"STORED", "LOCKED"}, root : Roots]
    /\ pd \in [Correct -> {"running", "returned", "failed", "cancelled"}]
    /\ crashed \subseteq Correct

\* Whatever a faulty leader offers to whom, STORED certificates exist for one
\* root at most: RC can decode one value only.
CertificateUnique ==
    \A r, s \in Roots : Certified("STORED", r) /\ Certified("STORED", s) => r = s

\* A node that is locked on a root may count on n-2f correct nodes having had
\* a stripe of it, the number RC decodes from.
LockRecoverable ==
    \A i \in Correct : lock[i] # NoRoot =>
        Cardinality({j \in Correct : store[j] = lock[i]}) >= K

\* A DONE proof means that f+1 correct nodes have been locked on its root.
DoneLocksEnough ==
    \A r \in Roots : Certified("LOCKED", r) =>
        Cardinality({j \in Correct : lock[j] = r}) >= F + 1

\* What a certificate or a proof over a root promises to its bearer.
CertifiedRootHolds == CertificateUnique /\ LockRecoverable /\ DoneLocksEnough

\* A correct leader that is neither cancelled nor stopped broadcasts DONE,
\* although up to f of the nodes it serves first stay silent or stop midway:
\* the pull timer serves the rest of the ring one by one.
LeaderFinishes ==
    LeaderCorrect /\ PDAtRest =>
        \/ doneRoot # NoRoot \/ pd[Leader] # "running" \/ Leader \in crashed
        \/ \E i \in Correct : pd[i] = "cancelled"
=============================================================================

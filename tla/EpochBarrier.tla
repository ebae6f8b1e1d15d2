---------------------------- MODULE EpochBarrier ----------------------------
(***************************************************************************)
(* The processes of a benchmark series: the listener-ready markers of      *)
(* src/core/transport_tcp_loopback.go, and the epochs of                   *)
(* src/cmd/rladkrbench/main.go with the barrier of                         *)
(* src/cmd/rladkrbench/epoch_barrier.go between them (the one of           *)
(* src/experiments/practical-adkr/cmd/bench_latency is the same).          *)
(*                                                                         *)
(* After an epoch a process links a marker with the digest of its result   *)
(* into a shared directory and reads the markers of the committee, one     *)
(* file after the other, until n-f agree with its own.  The first marker   *)
(* that differs fails the process, whatever the others say.                *)
(***************************************************************************)
EXTENDS Naturals, FiniteSets

CONSTANTS Procs,      \* one process per committee member, numbered
          Deviating,  \* processes whose result may differ
          BarrierF,   \* faults the quorum allows for
          Digests, Common,  \* result digests, the one of the others
          MaxEpoch, NoMark

ASSUME BarrierAssumption ==
    /\ IsFiniteSet(Procs) /\ Procs \subseteq Nat /\ Deviating \subseteq Procs /\ BarrierF \in Nat
    /\ Cardinality(Procs) > 2 * BarrierF
    /\ NoMark \notin Digests /\ MaxEpoch \in Nat \ {0}

VARIABLES bAt,       \* where each process is
          bEpoch,    \* its epoch
          bListening,\* listener-ready markers
          bDigest,   \* digest of its result of the epoch
          bMarks,    \* marker files: epoch, process
          bUnread,   \* markers not yet read in this scan
          bReady,    \* markers counted in this scan
          bPassed    \* digest with which each barrier was passed

barrierVars == <<bAt, bEpoch, bListening, bDigest, bMarks, bUnread, bReady, bPassed>>

Required == Cardinality(Procs) - BarrierF

BarrierInit ==
    /\ bAt = [p \in Procs |-> "listen"] /\ bEpoch = [p \in Procs |-> 1]
    /\ bListening = {} /\ bDigest = [p \in Procs |-> NoMark]
    /\ bMarks = [e \in 1 .. MaxEpoch |-> [p \in Procs |-> NoMark]]
    /\ bUnread = [p \in Procs |-> {}] /\ bReady = [p \in Procs |-> 0]
    /\ bPassed = [e \in 1 .. MaxEpoch |-> [p \in Procs |-> NoMark]]

\* The listener is up and its marker is written.
WriteReady(p) ==
    /\ bAt[p] = "listen"
    /\ bListening' = bListening \cup {p} /\ bAt' = [bAt EXCEPT ![p] = "wait"]
    /\ UNCHANGED <<bEpoch, bDigest, bMarks, bUnread, bReady, bPassed>>

\* waitForListenerReadyMarkers and waitForRemoteNodeReadiness
ListenersReady(p) ==
    /\ bAt[p] = "wait" /\ Cardinality(bListening) >= Required
    /\ bAt' = [bAt EXCEPT ![p] = "run"]
    /\ UNCHANGED <<bEpoch, bListening, bDigest, bMarks, bUnread, bReady, bPassed>>

\* RunEpoch returns with a result.
RunEpoch(p, d) ==
    /\ bAt[p] = "run" /\ (d = Common \/ p \in Deviating)
    /\ bDigest' = [bDigest EXCEPT ![p] = d] /\ bAt' = [bAt EXCEPT ![p] = "mark"]
    /\ UNCHANGED <<bEpoch, bListening, bMarks, bUnread, bReady, bPassed>>

\* RunEpoch, or its setup, fails, or a barrier's context ends: the series of
\* this process ends.
EpochFails(p) ==
    /\ p \in Deviating /\ bAt[p] \in {"wait", "run", "scan"}
    /\ bAt' = [bAt EXCEPT ![p] = "failed"]
    /\ UNCHANGED <<bEpoch, bListening, bDigest, bMarks, bUnread, bReady, bPassed>>

\* A process is killed and started again: it repeats its series, and may come
\* to another result this time.
RestartSeries(p) ==
    /\ p \in Deviating /\ bAt[p] = "failed"
    /\ bAt' = [bAt EXCEPT ![p] = "run"] /\ bEpoch' = [bEpoch EXCEPT ![p] = 1]
    /\ bUnread' = [bUnread EXCEPT ![p] = {}] /\ bReady' = [bReady EXCEPT ![p] = 0]
    /\ UNCHANGED <<bListening, bDigest, bMarks, bPassed>>

Mark(p) == bMarks[bEpoch[p]][p]

\* writeBenchmarkEpochMarker: the link fails if the marker exists; an equal one
\* will do.
WriteMarker(p) ==
    /\ bAt[p] = "mark"
    /\ IF Mark(p) \in {NoMark, bDigest[p]}
       THEN /\ bMarks' = [bMarks EXCEPT ![bEpoch[p]][p] = bDigest[p]]
            /\ bAt' = [bAt EXCEPT ![p] = "scan"]
            /\ bUnread' = [bUnread EXCEPT ![p] = Procs]
       ELSE bAt' = [bAt EXCEPT ![p] = "failed"] /\ UNCHANGED <<bMarks, bUnread>>
    /\ UNCHANGED <<bEpoch, bListening, bDigest, bReady, bPassed>>

\* Mutant: a marker that differs is passed over.
ReadMarkerLax(p, q) ==
    /\ bAt[p] = "scan" /\ q \in bUnread[p] /\ \A r \in bUnread[p] : q <= r
    /\ bUnread' = [bUnread EXCEPT ![p] = @ \ {q}]
    /\ bReady' = [bReady EXCEPT ![p] = @ + IF bMarks[bEpoch[p]][q] = NoMark THEN 0 ELSE 1]
    /\ UNCHANGED <<bAt, bEpoch, bListening, bDigest, bMarks, bPassed>>

\* The next marker of the committee is read.
ReadMarker(p, q) ==
    /\ bAt[p] = "scan" /\ q \in bUnread[p] /\ \A r \in bUnread[p] : q <= r
    /\ LET mark == bMarks[bEpoch[p]][q] IN
          /\ bReady' = [bReady EXCEPT ![p] = IF mark = bDigest[p] THEN @ + 1 ELSE @]
          /\ bAt' = [bAt EXCEPT ![p] = IF mark \in {NoMark, bDigest[p]} THEN @ ELSE "failed"]
    /\ bUnread' = [bUnread EXCEPT ![p] = @ \ {q}]
    /\ UNCHANGED <<bEpoch, bListening, bDigest, bMarks, bPassed>>

\* Mutant: the count of the last scan is kept.
ScanEndsCounting(p) ==
    /\ bAt[p] = "scan" /\ bUnread[p] = {}
    /\ IF bReady[p] >= Required
       THEN /\ bAt' = [bAt EXCEPT ![p] = "done"] /\ UNCHANGED bUnread
       ELSE bUnread' = [bUnread EXCEPT ![p] = Procs] /\ UNCHANGED bAt
    /\ UNCHANGED <<bEpoch, bListening, bDigest, bMarks, bReady, bPassed>>

\* All markers read: on to the next epoch with a quorum, otherwise read again.
ScanEnds(p) ==
    /\ bAt[p] = "scan" /\ bUnread[p] = {}
    /\ bReady' = [bReady EXCEPT ![p] = 0]
    /\ IF bReady[p] >= Required
       THEN /\ bPassed' = [bPassed EXCEPT ![bEpoch[p]][p] = bDigest[p]]
            /\ bAt' = [bAt EXCEPT ![p] = IF bEpoch[p] = MaxEpoch THEN "done" ELSE "run"]
            /\ bEpoch' = [bEpoch EXCEPT ![p] = IF @ = MaxEpoch THEN @ ELSE @ + 1]
            /\ UNCHANGED bUnread
       ELSE /\ bUnread' = [bUnread EXCEPT ![p] = Procs]
            /\ UNCHANGED <<bAt, bEpoch, bPassed>>
    /\ UNCHANGED <<bListening, bDigest, bMarks>>

BarrierNext ==
    \E p \in Procs :
        \/ WriteReady(p) \/ ListenersReady(p) \/ EpochFails(p) \/ RestartSeries(p)
        \/ WriteMarker(p) \/ ScanEnds(p)
        \/ \E d \in Digests : RunEpoch(p, d)
        \/ \E q \in Procs : ReadMarker(p, q)

-----------------------------------------------------------------------------
BarrierTypeOK ==
    /\ bAt \in [Procs -> {"listen", "wait", "run", "mark", "scan", "done", "failed"}]
    /\ bEpoch \in [Procs -> 1 .. MaxEpoch] /\ bListening \subseteq Procs
    /\ bDigest \in [Procs -> Digests \cup {NoMark}]
    /\ bMarks \in [1 .. MaxEpoch -> [Procs -> Digests \cup {NoMark}]]
    /\ bUnread \in [Procs -> SUBSET Procs] /\ bReady \in [Procs -> 0 .. Cardinality(Procs)]

\* Two processes that get past the barrier of an epoch have the same result,
\* however the reading of the files interleaves with their being written, and
\* with processes that start over and come to another result.
PassersAgree ==
    \A e \in 1 .. MaxEpoch : \A p, q \in Procs :
        bPassed[e][p] # NoMark /\ bPassed[e][q] # NoMark => bPassed[e][p] = bPassed[e][q]

\* Whatever faulty members fail to write, the others reach the end, unless some
\* marker differs: the quorum is n-f, not n, but a single deviating marker may
\* fail any of them (the barrier's documented purpose is the first half only).
SeriesEnds ==
    \A p \in Procs \ Deviating :
        p \in bListening ~>
           (\/ bAt[p] = "done"
            \/ \E e \in 1 .. MaxEpoch, q \in Procs : bMarks[e][q] \notin {NoMark, Common})
=============================================================================

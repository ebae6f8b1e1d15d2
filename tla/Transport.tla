------------------------------ MODULE Transport ------------------------------
(***************************************************************************)
(* Send of src/core/transport_tcp_loopback.go: one member's pool of        *)
(* connections, used by concurrent senders, and the readers at the other   *)
(* end.                                                                    *)
(*                                                                         *)
(* A sender holds the pool's lock until it has the lock of the pooled      *)
(* connection.  If the write fails it closes the connection, takes it out  *)
(* of the pool and dials once more; the first connection that comes back   *)
(* to the pool stays.  A connection may break at any time: what is under   *)
(* way on it is lost, and a write into it may still seem to succeed.       *)
(***************************************************************************)
EXTENDS Naturals, Sequences, FiniteSets

CONSTANTS Msgs,  \* messages, one sender each
          Dest,        \* where each goes: the pool key
          Local,       \* destinations hosted by the same process
          Busy,        \* a destination with a connection in the pool, 1
          Conns,       \* connections, numbered as they are dialled
          MaxBreaks,   \* bound on connections that break
          NoConn, Nobody

ASSUME TransportAssumption ==
    Conns \subseteq Nat /\ 1 \in Conns /\ NoConn \notin Conns /\ MaxBreaks \in Nat

VARIABLES
    tAt,      \* where each sender is
    tConn,    \* the connection it works with
    tPool,    \* conns: the pooled connection of each destination
    tPoolMu,  \* who holds poolMu
    tConnMu,  \* who holds the lock of each connection
    tState,   \* "unused", "open", "broken" or "closed"
    tWire,    \* frames under way on each connection
    tGot,     \* how often each message has reached an inbox
    tBreaks   \* connections that broke

transportVars == <<tAt, tConn, tPool, tPoolMu, tConnMu, tState, tWire, tGot, tBreaks>>

TransportInit ==
    /\ tAt = [m \in Msgs |-> "start"] /\ tConn = [m \in Msgs |-> NoConn]
    /\ tPool = [d \in {Dest[m] : m \in Msgs} |-> IF d = Busy THEN 1 ELSE NoConn]
    /\ tPoolMu = Nobody /\ tConnMu = [c \in Conns |-> Nobody]
    /\ tState = [c \in Conns |-> IF c = 1 THEN "open" ELSE "unused"]
    /\ tWire = [c \in Conns |-> <<>>] /\ tGot = [m \in Msgs |-> 0] /\ tBreaks = 0

Goto(m, where) == tAt' = [tAt EXCEPT ![m] = where]
Pooled(m) == tPool[Dest[m]]

\* A local destination: the inbox takes the message, or is full for too long.
SendLocal(m) ==
    /\ tAt[m] = "start" /\ Dest[m] \in Local
    /\ \/ Goto(m, "done") /\ tGot' = [tGot EXCEPT ![m] = @ + 1]
       \/ Goto(m, "failed") /\ UNCHANGED tGot
    /\ UNCHANGED <<tConn, tPool, tPoolMu, tConnMu, tState, tWire, tBreaks>>

LockPool(m) ==
    /\ tAt[m] = "start" /\ Dest[m] \notin Local /\ tPoolMu = Nobody
    /\ IF Pooled(m) = NoConn
       THEN Goto(m, "dial") /\ UNCHANGED <<tConn, tPoolMu>>
       ELSE /\ Goto(m, "claim") /\ tPoolMu' = m
            /\ tConn' = [tConn EXCEPT ![m] = Pooled(m)]
    /\ UNCHANGED <<tPool, tConnMu, tState, tWire, tGot, tBreaks>>

\* Waiting for the connection with poolMu held.
ClaimConn(m) ==
    /\ tAt[m] = "claim" /\ tConnMu[tConn[m]] = Nobody
    /\ tConnMu' = [tConnMu EXCEPT ![tConn[m]] = m] /\ tPoolMu' = Nobody
    /\ Goto(m, "write")
    /\ UNCHANGED <<tConn, tPool, tState, tWire, tGot, tBreaks>>

\* sendRemoteOnConn puts the frame on an open connection; on a broken one the
\* kernel may take it all the same.
Written(m) ==
    /\ tState[tConn[m]] \in {"open", "broken"}
    /\ tWire' = IF tState[tConn[m]] = "open"
                THEN [tWire EXCEPT ![tConn[m]] = Append(@, m)] ELSE tWire

WritePooled(m) ==
    /\ tAt[m] = "write" /\ Written(m)
    /\ tConnMu' = [tConnMu EXCEPT ![tConn[m]] = Nobody]
    /\ Goto(m, "done")
    /\ UNCHANGED <<tConn, tPool, tPoolMu, tState, tGot, tBreaks>>

\* Mutant: the connection's lock is kept while the pool is cleaned up.
WriteFailsHolding(m) ==
    /\ tAt[m] = "write"
    /\ tState' = [tState EXCEPT ![tConn[m]] = "closed"]
    /\ Goto(m, "evict")
    /\ UNCHANGED <<tConn, tPool, tPoolMu, tConnMu, tWire, tGot, tBreaks>>

\* The deadline passes in the middle of the frame, or the peer is gone.
WriteFails(m) ==
    /\ tAt[m] = "write"
    /\ tState' = [tState EXCEPT ![tConn[m]] = "closed"]
    /\ tConnMu' = [tConnMu EXCEPT ![tConn[m]] = Nobody]
    /\ Goto(m, "evict")
    /\ UNCHANGED <<tConn, tPool, tPoolMu, tWire, tGot, tBreaks>>

\* Only the failed connection is taken out of the pool.
Evict(m) ==
    /\ tAt[m] = "evict" /\ tPoolMu = Nobody
    /\ tPool' = IF Pooled(m) = tConn[m] THEN [tPool EXCEPT ![Dest[m]] = NoConn] ELSE tPool
    /\ Goto(m, "dial")
    /\ UNCHANGED <<tConn, tPoolMu, tConnMu, tState, tWire, tGot, tBreaks>>

\* A new connection, on which the first frame is written, or an error.
DialAndWrite(m) ==
    /\ tAt[m] = "dial"
    /\ \E c \in Conns :
          /\ tState[c] = "unused" /\ \A b \in Conns : b < c => tState[b] # "unused"
          /\ tState' = [tState EXCEPT ![c] = "open"]
          /\ tConn' = [tConn EXCEPT ![m] = c]
          /\ tWire' = [tWire EXCEPT ![c] = <<m>>]
    /\ Goto(m, "pool")
    /\ UNCHANGED <<tPool, tPoolMu, tConnMu, tGot, tBreaks>>

DialFails(m) ==
    /\ tAt[m] = "dial" /\ Goto(m, "failed")
    /\ UNCHANGED <<tConn, tPool, tPoolMu, tConnMu, tState, tWire, tGot, tBreaks>>

\* The connection goes to the pool unless another sender was faster.
PoolConn(m) ==
    /\ tAt[m] = "pool" /\ tPoolMu = Nobody
    /\ IF Pooled(m) = NoConn
       THEN tPool' = [tPool EXCEPT ![Dest[m]] = tConn[m]] /\ UNCHANGED tState
       ELSE /\ tState' = [tState EXCEPT ![tConn[m]] = IF @ = "open" THEN "closed" ELSE @]
            /\ UNCHANGED tPool
    /\ Goto(m, "done")
    /\ UNCHANGED <<tConn, tPoolMu, tConnMu, tWire, tGot, tBreaks>>

-----------------------------------------------------------------------------
\* handleAcceptedConn: whole frames go to the inbox in the order of the
\* connection; what was written before a close still arrives.
Deliver(c) ==
    /\ tWire[c] # <<>>
    /\ tGot' = [tGot EXCEPT ![Head(tWire[c])] = @ + 1]
    /\ tWire' = [tWire EXCEPT ![c] = Tail(@)]
    /\ UNCHANGED <<tAt, tConn, tPool, tPoolMu, tConnMu, tState, tBreaks>>

Break(c) ==
    /\ tState[c] = "open" /\ tBreaks < MaxBreaks
    /\ tBreaks' = tBreaks + 1
    /\ tState' = [tState EXCEPT ![c] = "broken"] /\ tWire' = [tWire EXCEPT ![c] = <<>>]
    /\ UNCHANGED <<tAt, tConn, tPool, tPoolMu, tConnMu, tGot>>

TransportNext ==
    \/ \E m \in Msgs :
          \/ SendLocal(m) \/ LockPool(m) \/ ClaimConn(m) \/ WritePooled(m)
          \/ WriteFails(m) \/ Evict(m) \/ DialAndWrite(m) \/ DialFails(m) \/ PoolConn(m)
    \/ \E c \in Conns : Deliver(c) \/ Break(c)

\* What is bound to happen: goroutines run, writes and dials end by their
\* deadlines.
TransportProgress ==
    \/ \E m \in Msgs : \/ SendLocal(m) \/ LockPool(m) \/ ClaimConn(m) \/ Evict(m) \/ PoolConn(m)
                       \/ WritePooled(m) \/ WriteFails(m) \/ DialAndWrite(m) \/ DialFails(m)
    \/ \E c \in Conns : Deliver(c)

\* No step of TransportProgress is left: every sender that is not through waits
\* for a lock.
TransportAtRest ==
    /\ \A m \in Msgs :
          /\ tAt[m] \notin {"write", "dial"} /\ ~(tAt[m] = "start" /\ Dest[m] \in Local)
          /\ tAt[m] \in {"start", "evict", "pool"} => tPoolMu # Nobody
          /\ tAt[m] = "claim" => tConnMu[tConn[m]] # Nobody
    /\ \A c \in Conns : tWire[c] = <<>>

-----------------------------------------------------------------------------
TransportTypeOK ==
    /\ tAt \in [Msgs -> {"start", "claim", "write", "evict", "dial", "pool",
                               "done", "failed"}]
    /\ tConn \in [Msgs -> Conns \cup {NoConn}]
    /\ tPoolMu \in Msgs \cup {Nobody}
    /\ tConnMu \in [Conns -> Msgs \cup {Nobody}]
    /\ tState \in [Conns -> {"unused", "open", "broken", "closed"}]
    /\ \A d \in DOMAIN tPool : tPool[d] = NoConn \/ tState[tPool[d]] # "unused"

Arrivals(m) == tGot[m]
               + Cardinality({c \in Conns : \E n \in DOMAIN tWire[c] : tWire[c][n] = m})

\* Although Send writes a message a second time when the pooled connection
\* fails, it arrives at most once, and not at all if Send reports an error: the
\* protocol may repeat what failed.
AtMostOnce ==
    \A m \in Msgs : Arrivals(m) <= IF tAt[m] = "failed" THEN 0 ELSE 1

\* Send reports success for a message that does not arrive only if a connection
\* broke: success means sent, no more.
LostOnlyByBreak ==
    tBreaks = 0 => \A m \in Msgs : tAt[m] = "done" => Arrivals(m) = 1

\* A connection is in the pool only as long as somebody may use it: an open one
\* is never dropped from the pool by a sender that failed on another.
OpenStaysPooled ==
    [][\A d \in DOMAIN tPool :
          tPool[d] # NoConn /\ tPool'[d] = NoConn => tState[tPool[d]] # "open"]_transportVars

\* The locks are taken in an order in which every Send ends, with senders to
\* several destinations and failing writes.
SendEnds ==
    TransportAtRest => \A m \in Msgs : tAt[m] \in {"done", "failed"}
=============================================================================

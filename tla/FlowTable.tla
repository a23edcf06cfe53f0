------------------------------ MODULE FlowTable ------------------------------
(***************************************************************************)
(* The flow table of the user-space program (ebpf/zwbee.c): one entry per  *)
(* direction of a TCP connection, created by flow_get, evicted when the    *)
(* table is full and swept by flow_gc.  handle_packet is the only caller   *)
(* and the program has one thread, so a step of this module is one call of *)
(* handle_packet.  What an entry buffers is the subject of TcpStream; here *)
(* an entry is its last_seen_ms.                                           *)
(*                                                                         *)
(* The hash buckets are abstracted: they fix which of several equally old  *)
(* entries is met first, which the model leaves open.                      *)
(***************************************************************************)
EXTENDS Integers, FiniteSets

CONSTANTS
  Keys,      \* the flow keys that packets carry
  MaxItems,  \* FLOW_STATE_MAX_ITEMS
  IdleMs,    \* the idle time after which a flow expires (120000)
  GcMs,      \* the least time between two sweeps (2000)
  Word,      \* 2^64: times are uint64_t and their difference wraps
  BootMs,    \* CLOCK_MONOTONIC when the program starts
  MaxNow,    \* bound of the model: the last instant considered
  MaxLag     \* bound of the model: the longest a packet takes to handle

ASSUME FlowTableAssumption ==
  /\ IsFiniteSet(Keys)
  /\ MaxItems \in Nat \ {0}
  /\ IdleMs \in Nat \ {0} /\ GcMs \in Nat
  /\ BootMs \in Nat \ {0} /\ MaxNow \in Nat /\ MaxLag \in Nat
  /\ Word \in Nat /\ MaxNow < Word /\ IdleMs < Word

VARIABLES
  seen,    \* the flows of the table, each with its last_seen_ms
  count,   \* flow_count
  lastGc,  \* last_gc_ms, 0 until the first sweep
  now      \* CLOCK_MONOTONIC in milliseconds

vars == <<seen, count, lastGc, now>>

Live == DOMAIN seen

(***************************************************************************)
(* Arithmetic of uint64_t.                                                 *)
(***************************************************************************)
Sub(a, b) == IF a >= b THEN a - b ELSE a - b + Word

-----------------------------------------------------------------------------
(* Each definition named Mut... restates the one after it with a mistake.  *)

MutKeepCount(c, n) == c

\* flow_count is decremented once per entry freed, never below zero.
DropCount(c, n) == IF c >= n THEN c - n ELSE 0

MutFullLate(c) == c > MaxItems

Full(c) == c >= MaxItems

MutNewest(s) == {k \in DOMAIN s : \A j \in DOMAIN s : s[j] <= s[k]}

\* The entries flow_get may pick as its victim.
Oldest(s) == {k \in DOMAIN s : \A j \in DOMAIN s : s[k] <= s[j]}

MutUntouched(s, k, t) ==
  [j \in DOMAIN s \cup {k} |-> IF j \in DOMAIN s THEN s[j] ELSE 0]

\* flow_get finds or inserts k; process_tcp_flow then stamps it.
Touch(s, k, t) == [j \in DOMAIN s \cup {k} |-> IF j = k THEN t ELSE s[j]]

Without(s, dead) == [j \in DOMAIN s \ dead |-> s[j]]

MutExpiredLate(s, t) ==
  {k \in DOMAIN s : s[k] < Sub(Sub(t, IdleMs), GcMs + 1)}

\* flow_gc(state, now - 120000ULL)
Expired(s, t) == {k \in DOMAIN s : s[k] < Sub(t, IdleMs)}

GcDue(t) == lastGc = 0 \/ Sub(t, lastGc) > GcMs

(***************************************************************************)
(* The end of handle_packet: s and c are what the packet made of the table *)
(* and its count, t is the time handle_packet read before it dispatched.   *)
(***************************************************************************)
Collect(s, c, t) ==
  \/ /\ GcDue(t)
     /\ seen' = Without(s, Expired(s, t))
     /\ count' = DropCount(c, Cardinality(Expired(s, t)))
     /\ lastGc' = t
  \/ /\ ~GcDue(t)
     /\ seen' = s
     /\ count' = c
     /\ UNCHANGED lastGc

-----------------------------------------------------------------------------
Init ==
  /\ seen = [k \in {} |-> 0]
  /\ count = 0
  /\ lastGc = 0
  /\ now = BootMs

\* Time spent in handle_packet between its two readings of the clock, which
\* is long when a rescan of /proc comes in between.
Elapse(lag) == now + lag <= MaxNow /\ now' = now + lag

\* A TCP packet of a flow the table has.
KnownFlow(k, lag) ==
  /\ k \in Live
  /\ Elapse(lag)
  /\ Collect(Touch(seen, k, now + lag), count, now)

\* A TCP packet of a new flow, and there is room.
NewFlow(k, lag) ==
  /\ k \notin Live
  /\ ~Full(count)
  /\ Elapse(lag)
  /\ Collect(Touch(seen, k, now + lag), count + 1, now)

\* A TCP packet of a new flow, and the oldest flow makes room for it.
Evict(k, victim, lag) ==
  /\ k \notin Live
  /\ Full(count)
  /\ victim \in Oldest(seen)
  /\ Elapse(lag)
  /\ Collect(Touch(Without(seen, {victim}), k, now + lag),
             DropCount(count, 1) + 1, now)

\* calloc fails: the victim is gone and nothing takes its place.
NewFlowNoMemory(k, lag) ==
  /\ k \notin Live
  /\ Elapse(lag)
  /\ \/ ~Full(count) /\ Collect(seen, count, now)
     \/ /\ Full(count)
        /\ \E victim \in Oldest(seen) :
             Collect(Without(seen, {victim}), DropCount(count, 1), now)

TcpPacket(k, lag) ==
  \/ KnownFlow(k, lag)
  \/ NewFlow(k, lag)
  \/ \E victim \in Live : Evict(k, victim, lag)

\* A UDP packet touches no flow; the sweep at the end of handle_packet runs.
UdpPacket == Elapse(0) /\ Collect(seen, count, now)

\* Time passes.  A frame that does not parse, or that the filters reject,
\* does no more: handle_packet returns before the sweep.
Tick == /\ now < MaxNow
        /\ now' = now + 1
        /\ UNCHANGED <<seen, count, lastGc>>

Next ==
  \/ \E k \in Keys, lag \in 0..MaxLag : TcpPacket(k, lag) \/ NewFlowNoMemory(k, lag)
  \/ UdpPacket
  \/ Tick

Spec == Init /\ [][Next]_vars

-----------------------------------------------------------------------------
TypeOK ==
  /\ Live \subseteq Keys
  /\ seen \in [Live -> 0..MaxNow]
  /\ count \in Nat
  /\ lastGc \in 0..now
  /\ now \in Nat

(* flow_count is the number of entries in the buckets, whatever insertions,*)
(* evictions, failed allocations and sweeps came before: flow_get decides  *)
(* on it whether to evict.                                                 *)
CountExact == count = Cardinality(Live)

(* The table never exceeds FLOW_STATE_MAX_ITEMS.                           *)
Bounded == Cardinality(Live) <= MaxItems

Idle(k) == seen[k] + IdleMs < now

(* A flow leaves the table only because it has been idle for IdleMs, or as *)
(* the one oldest entry of a full table: flow_gc drops expired flows and   *)
(* flow_get drops the oldest.                                              *)
DropsJustified ==
  \A k \in Live \ Live' :
    \/ Idle(k)
    \/ /\ count = MaxItems
       /\ \A j \in Live : seen[k] <= seen[j]
       /\ \A j \in Live \ Live' : j = k \/ Idle(j)

OnlyIdleOrOldestDropped == [][DropsJustified]_vars

(* The flow of the packet being handled outlives the handling: neither the *)
(* eviction that made room for it nor the sweep that follows takes it.     *)
HandledKept ==
  \A k \in Keys, lag \in 0..MaxLag : TcpPacket(k, lag) => k \in Live'

HandledFlowKept == [][HandledKept]_vars

(* A sweep leaves no expired flow behind, and nothing makes one appear     *)
(* later: every flow was seen within IdleMs of the last sweep.             *)
SweptClean == lastGc # 0 => \A k \in Live : seen[k] + IdleMs >= lastGc
=============================================================================

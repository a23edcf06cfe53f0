------------------------------ MODULE PacketPath ------------------------------
(***************************************************************************)
(* One packet through handle_packet (ebpf/zwbee.c) with the parts that the *)
(* other modules take one by one: its owner is looked up, the process      *)
(* filter judges it, flow_get finds or makes its flow in the hash table,   *)
(* the flow learns the owner or borrows that of the other direction, a     *)
(* record may be written, and the table is swept.                          *)
(*                                                                         *)
(* Here the table is what it is in the code: an array of chains.  The      *)
(* module FlowTable is its specification.                                  *)
(***************************************************************************)
EXTENDS Integers, Sequences, FiniteSets
Seqs == INSTANCE SequencesExt

CONSTANTS
  Ends,      \* endpoints
  Keys,      \* the flow keys that packets carry, see Key
  Pids,      \* processes, numbers from 1
  Holders,   \* who has, or has had, a socket on an end of this host
  PidMod,    \* 2^32: what -pid is given as becomes a pid_t
  Asked,     \* what -pid may be given as
  NoFilter,  \* no -pid
  Buckets,   \* FLOW_BUCKETS
  Hash(_),   \* flow_bucket, to 1..Buckets
  MaxItems, IdleMs, GcMs, Word, BootMs, MaxNow, MaxLag  \* see FlowTable

\* direction 1 is what this host sends, 0 what it receives.
Key == [direction : {0, 1}, src : Ends, dst : Ends]

Nobody == 0

LocalEnd(k) == IF k.direction = 1 THEN k.src ELSE k.dst

ASSUME PacketPathAssumption ==
  /\ Keys \subseteq Key
  /\ PidMod \in Nat /\ Pids \subseteq 1..PidMod - 1
  /\ Holders \in [Ends -> SUBSET Pids]
  /\ Asked \subseteq Nat /\ NoFilter \notin Nat
  /\ Buckets \in Nat \ {0} /\ \A k \in Key : Hash(k) \in 1..Buckets
  /\ IsFiniteSet(Keys) /\ MaxItems \in Nat \ {0} /\ MaxNow \in Nat /\ MaxLag \in Nat /\ BootMs \in Nat

VARIABLES
  asked,   \* what -pid was given as
  chains,  \* per bucket, its flows: [key, seen, pid]
  count,   \* flow_count
  lastGc, now,
  record   \* the packet reported last, and the pid that its records name, if any

clock == <<lastGc, now>>
vars  == <<asked, chains, count, clock, record>>

-----------------------------------------------------------------------------
(* The hash table.                                                         *)
Places(t) == UNION {{b} \X DOMAIN t[b] : b \in 1..Buckets}

Flow(t, place) == t[place[1]][place[2]]

\* flow_find: where the flow of key k is, nowhere or at one place.
FlowFind(t, k) == {x \in {Hash(k)} \X DOMAIN t[Hash(k)] : Flow(t, x).key = k}

Unlink(t, place) == [t EXCEPT ![place[1]] = Seqs!RemoveAt(@, place[2])]

First(x, y) == x[1] < y[1] \/ (x[1] = y[1] /\ x[2] <= y[2])

\* The oldest flow, the first of several in the order of the array.
Victim(t) ==
  CHOOSE x \in Places(t) :
    \A y \in Places(t) :
      \/ Flow(t, x).seen < Flow(t, y).seen
      \/ Flow(t, x).seen = Flow(t, y).seen /\ First(x, y)

\* What flow_get leaves of the table and the count to insert a flow into.
Room(t, c) ==
  IF c >= MaxItems /\ Places(t) # {}
  THEN [table |-> Unlink(t, Victim(t)), count |-> IF c > 0 THEN c - 1 ELSE c]
  ELSE [table |-> t, count |-> c]

\* The new flow is the first of its chain.
Insert(t, k) == [t EXCEPT ![Hash(k)] = <<[key |-> k, seen |-> 0, pid |-> Nobody]>> \o @]

Sub(a, b) == IF a >= b THEN a - b ELSE a - b + Word

MutSweep(chain, cutoff) ==
  LET old == {i \in DOMAIN chain : chain[i].seen < cutoff}
  IN  IF old = {} THEN chain
      ELSE Seqs!RemoveAt(chain, CHOOSE i \in old : \A j \in old : i <= j)

\* flow_gc on one chain: what is left of its first i flows.
Kept(chain, cutoff) ==
  LET kept[i \in 0..Len(chain)] ==
        IF i = 0 THEN <<>>
        ELSE IF chain[i].seen < cutoff THEN kept[i - 1]
        ELSE Append(kept[i - 1], chain[i])
  IN  kept

Sweep(chain, cutoff) == Kept(chain, cutoff)[Len(chain)]

\* The end of handle_packet, which has made t and c of the table; time is
\* what it read before.
Collect(t, c, time) ==
  LET swept == [b \in 1..Buckets |-> Sweep(t[b], Sub(time, IdleMs))]
      freed == Cardinality(Places(t)) - Cardinality(Places(swept))
  IN  IF lastGc = 0 \/ Sub(time, lastGc) > GcMs
      THEN /\ chains' = swept
           /\ count' = IF c >= freed THEN c - freed ELSE 0
           /\ lastGc' = time
      ELSE chains' = t /\ count' = c /\ UNCHANGED lastGc

-----------------------------------------------------------------------------
(* The owner of a packet.                                                  *)
\* resolve_packet_meta finds nobody, or somebody who has had the socket:
\* OwnerResolve shows it.
Resolves(k) == Holders[LocalEnd(k)] \cup {Nobody}

\* parse_args: (pid_t)pid.
PidFilter == asked % PidMod

MutWanted(pid) == asked = NoFilter \/ pid \in {Nobody, PidFilter}

\* packet_matches_filters, with -pid.
Wanted(pid) == asked = NoFilter \/ pid = PidFilter

MutReverseKey(k) == [direction |-> k.direction, src |-> k.dst, dst |-> k.src]

\* flow_reverse_key.
ReverseKey(k) == [direction |-> 1 - k.direction, src |-> k.dst, dst |-> k.src]

\* Whom a record of packet k names, when pid is who was found.
Named(t, k, pid) ==
  IF pid # Nobody THEN pid
  ELSE IF \E x \in FlowFind(t, ReverseKey(k)) : Flow(t, x).pid # Nobody
  THEN Flow(t, CHOOSE x \in FlowFind(t, ReverseKey(k)) : TRUE).pid
  ELSE Nobody

\* flow_key_hex: the ends in one order for both directions, and the pid.
RecordKey(k, pid) == [ends |-> {k.src, k.dst}, pid |-> pid]

Stamp(t, k, time, pid) ==
  [t EXCEPT ![Hash(k)] =
     [i \in DOMAIN @ |->
        IF @[i].key # k THEN @[i]
        ELSE [key |-> k, seen |-> time, pid |-> IF pid = Nobody THEN @[i].pid ELSE pid]]]

-----------------------------------------------------------------------------
Init ==
  /\ asked \in Asked \cup {NoFilter}
  /\ chains = [b \in 1..Buckets |-> <<>>]
  /\ count = 0 /\ lastGc = 0 /\ now = BootMs
  /\ record = {}

Elapse(lag) == now + lag <= MaxNow /\ now' = now + lag

\* The flow is there, or is made.
TcpPacket(k, pid, lag) ==
  /\ Wanted(pid)
  /\ Elapse(lag)
  /\ LET room == Room(chains, count)
         made == IF FlowFind(chains, k) # {} THEN chains ELSE Insert(room.table, k)
         all  == IF FlowFind(chains, k) # {} THEN count ELSE room.count + 1
         t    == Stamp(made, k, now + lag, pid)
     IN  /\ record' = {[key |-> k, pid |-> Named(t, k, pid)]}
         /\ Collect(t, all, now)
  /\ UNCHANGED asked

\* calloc fails: the packet is given up, after the eviction.
TcpNoMemory(k, pid, lag) ==
  /\ Wanted(pid)
  /\ FlowFind(chains, k) = {}
  /\ Elapse(lag)
  /\ Collect(Room(chains, count).table, Room(chains, count).count, now)
  /\ UNCHANGED <<asked, record>>

\* process_udp_packet has no flow and borrows from nobody.
UdpPacket(k, pid) ==
  /\ Wanted(pid)
  /\ Elapse(0)
  /\ record' = {[key |-> k, pid |-> pid]}
  /\ Collect(chains, count, now)
  /\ UNCHANGED asked

\* Time passes.  A packet that the filter rejects changes nothing.
Tick ==
  /\ Elapse(1)
  /\ UNCHANGED <<asked, chains, count, lastGc, record>>

Next ==
  \/ \E k \in Keys : \E pid \in Resolves(k) :
       \/ \E lag \in 0..MaxLag : TcpPacket(k, pid, lag) \/ TcpNoMemory(k, pid, lag)
       \/ UdpPacket(k, pid)
  \/ Tick

Spec == Init /\ [][Next]_vars

-----------------------------------------------------------------------------
(* The chains implement the table of FlowTable: flow_find, flow_get's      *)
(* search for a victim in all buckets, its insertion and flow_gc's walk    *)
(* through the chains do together what one step of FlowTable does.         *)
Table == INSTANCE FlowTable WITH
  seen <- [k \in {Flow(chains, x).key : x \in Places(chains)} |->
             Flow(chains, CHOOSE x \in FlowFind(chains, k) : TRUE).seen]

ImplementsFlowTable == Table!Spec

(* With -pid every record names that process: what the filter let through  *)
(* is never given another owner by the flows of either direction, also if  *)
(* -pid asks for the packets without one.                                  *)
OnlyWanted == asked # NoFilter => \A r \in record : r.pid = PidFilter

(* A record never names the process at the other end: an owner is only     *)
(* borrowed from the other direction of the same socket, though on the     *)
(* loopback both ends of a connection have flows in the table.             *)
NamesOwnEnd ==
  \A r \in record : r.pid \in Holders[LocalEnd(r.key)] \cup {Nobody}

(* With -pid the records name the number that was given, not what is left  *)
(* of it in a pid_t.                                                       *)
AsAsked == asked # NoFilter => \A r \in record : r.pid = asked

(* The two directions of a connection are reported under one key, as the   *)
(* comment in flow_key_hex has it.                                         *)
SameKey ==
  [][\A r \in record, q \in record' :
       {r.key.src, r.key.dst} = {q.key.src, q.key.dst}
         => RecordKey(r.key, r.pid) = RecordKey(q.key, q.pid)]_vars
=============================================================================

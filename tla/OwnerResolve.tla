----------------------------- MODULE OwnerResolve -----------------------------
(***************************************************************************)
(* Which process a captured TCP packet is put down to.  Probes in the      *)
(* kernel (ebpf/ebpf_capture.c) note in flow_owner_map who connects,       *)
(* accepts or sends; zwbee (ebpf/zwbee.c) looks a packet up there, then in *)
(* a snapshot of /proc, then in the flows of both directions.              *)
(*                                                                         *)
(* The processes of the host go on while zwbee reads /proc, one process    *)
(* after the other and then the socket tables.  A packet may have been     *)
(* captured long before it is handled: any packet may come at any time.    *)
(***************************************************************************)
EXTENDS Integers, FiniteSets

CONSTANTS
  Pids,      \* processes
  Nobody,    \* pid 0
  Local,     \* the endpoints of this host: addresses with a port
  Remote,    \* those of other hosts
  Port(_),   \* the port of an endpoint
  NoPeer,    \* the peer of a listening socket
  Seen(_),   \* which packets are captured
  Serves(_), \* bound of the model: the endpoints that are listened on
  MaxSockets \* bound of the model: sockets that are made

Endpoint == Local \cup Remote

ASSUME OwnerAssumption ==
  /\ Nobody \notin Pids /\ NoPeer \notin Endpoint /\ MaxSockets \in Nat

Connection == {c \in Local \X Endpoint : c[1] # c[2]}

VARIABLES
  sockets,  \* what is open: [inode, local, peer, pids]
  inodes,   \* sockets made so far
  recorded, \* flow_owner_map: some of Connection -> Pids
  cache,    \* the socket cache: [local, peer, pid]
  due,      \* never refreshed, or longer ago than SOCKET_CACHE_REFRESH_MS
  pc,       \* zwbee: "ready", "owners", "tables" or "again"
  unread,   \* processes that the scan of /proc has not come to
  owners,   \* inode owners the scan has found: <<inode, pid>>
  flow,     \* the pid of the flow of each direction
  last,     \* the packet handled last, or now, and the pid it is put down to
  held      \* history: who ever had a socket on which local endpoint

host  == <<sockets, inodes, recorded, held>>
scan  == <<unread, owners>>
zwbee == <<cache, due, pc, scan, flow, last>>
vars  == <<host, zwbee>>

Socket == [inode : 1..MaxSockets, local : Local, peer : Endpoint \cup {NoPeer},
           pids : SUBSET Pids]
Entry  == [local : Local, peer : Endpoint \cup {NoPeer}, pid : Pids \cup {Nobody}]

\* direction 1 is what this host sends, 0 what it receives.
Packet == {p \in [direction : {0, 1}, src : Endpoint, dst : Endpoint] :
             /\ p.src # p.dst
             /\ (IF p.direction = 1 THEN p.src ELSE p.dst) \in Local}

MutOwnerKey(p) == <<p.src, p.dst>>

\* The packet's endpoints as the socket of this host has them.  Definitions
\* named Mut... restate the one that follows with a mistake.
OwnerKey(p) == IF p.direction = 1 THEN <<p.src, p.dst>> ELSE <<p.dst, p.src>>

-----------------------------------------------------------------------------
(* The processes and the probes.                                           *)
Opens(p, l, r) ==
  /\ inodes < MaxSockets
  /\ inodes' = inodes + 1
  /\ sockets' = sockets \cup
       {[inode |-> inodes + 1, local |-> l, peer |-> r, pids |-> {p}]}
  /\ held' = held \cup {<<p, l>>}

\* record_socket_owner, in the context of process p.
Recorded(p, c) == [k \in DOMAIN recorded \cup {c} |-> IF k = c THEN p ELSE recorded[k]]

Listen(p, l) ==
  /\ Serves(l)
  /\ \A s \in sockets : ~(s.local = l /\ s.peer = NoPeer)
  /\ Opens(p, l, NoPeer)
  /\ UNCHANGED <<recorded, zwbee>>

\* track_tcp_connect and track_tcp_accept.
Unused(c) == \A s \in sockets : <<s.local, s.peer>> # c

Connect(p, c) ==
  /\ ~Serves(c[1])
  /\ Unused(c)
  /\ Opens(p, c[1], c[2])
  /\ recorded' = Recorded(p, c)
  /\ UNCHANGED zwbee

Accept(p, c) ==
  /\ Unused(c)
  /\ \E s \in sockets : s.local = c[1] /\ s.peer = NoPeer /\ p \in s.pids
  /\ Opens(p, c[1], c[2])
  /\ recorded' = Recorded(p, c)
  /\ UNCHANGED zwbee

\* track_tcp_sendmsg.
Send(p, s) ==
  /\ p \in s.pids /\ s.peer # NoPeer
  /\ recorded' = Recorded(p, <<s.local, s.peer>>)
  /\ UNCHANGED <<sockets, inodes, held, zwbee>>

\* A child, or a process that is handed the socket, has it too.
Share(p, s) ==
  /\ p \notin s.pids
  /\ sockets' = (sockets \ {s}) \cup {[s EXCEPT !.pids = @ \cup {p}]}
  /\ held' = held \cup {<<p, s.local>>}
  /\ UNCHANGED <<inodes, recorded, zwbee>>

Close(p, s) ==
  /\ p \in s.pids
  /\ sockets' = (sockets \ {s}) \cup
       {t \in {[s EXCEPT !.pids = @ \ {p}]} : t.pids # {}}
  /\ UNCHANGED <<inodes, recorded, held, zwbee>>

\* flow_owner_map is an LRU of limited size.
Evict(c) ==
  /\ c \in DOMAIN recorded
  /\ recorded' = [k \in DOMAIN recorded \ {c} |-> recorded[k]]
  /\ UNCHANGED <<sockets, inodes, held, zwbee>>

-----------------------------------------------------------------------------
(* resolve_packet_meta.                                                    *)
\* socket_cache_lookup_listener, by the port alone.
Listeners(p) == {m \in cache : Port(m.local) = Port(OwnerKey(p)[1]) /\ m.peer = NoPeer}

\* socket_cache_lookup_directional.
Directional(p) == {m \in cache : <<m.local, m.peer>> = OwnerKey(p)}

InMap(p) == OwnerKey(p) \in DOMAIN recorded

\* The packet is put down to pid; which of several listeners comes first is
\* left open.
Resolves(p, pid) ==
  \/ InMap(p) /\ pid = recorded[OwnerKey(p)]
  \/ /\ ~InMap(p)
     /\ \E m \in Listeners(p) : m.pid # Nobody /\ pid = m.pid
  \/ /\ ~InMap(p)
     /\ Listeners(p) = {} \/ \E m \in Listeners(p) : m.pid = Nobody
     /\ \E m \in Directional(p) : pid = m.pid
  \/ /\ ~InMap(p) /\ Directional(p) = {}
     /\ \E m \in Listeners(p) : m.pid = Nobody /\ pid = Nobody

Unresolved(p) == ~InMap(p) /\ Listeners(p) = {} /\ Directional(p) = {}

\* flow_reverse_key.
PeerFlow(p) == [direction |-> 1 - p.direction, src |-> p.dst, dst |-> p.src]

\* What process_tcp_flow makes of it: the flow learns the owner, a packet
\* without one borrows that of the other direction.
Attribute(p, pid) ==
  /\ flow' = IF pid = Nobody THEN flow ELSE [flow EXCEPT ![p] = pid]
  /\ last' = [packet |-> p,
              pid |-> IF pid = Nobody THEN flow[PeerFlow(p)] ELSE pid]

-----------------------------------------------------------------------------
(* handle_packet.                                                          *)
Handle(p) ==
  /\ pc = "ready"
  /\ \/ \E pid \in Pids \cup {Nobody} : Resolves(p, pid) /\ Attribute(p, pid)
     \/ Unresolved(p) /\ ~due /\ Attribute(p, Nobody)
  /\ UNCHANGED <<host, cache, due, pc, scan>>

\* rebuild_socket_cache begins.
Rebuild(p) ==
  /\ pc = "ready"
  /\ Unresolved(p) /\ due
  /\ pc' = "owners"
  /\ last' = [packet |-> p, pid |-> Nobody]
  /\ unread' = Pids
  /\ UNCHANGED <<host, cache, due, owners, flow>>

Known == {o[1] : o \in owners}

\* Inodes that process p has and that nobody read before it had.
Finds(p) == {s.inode : s \in {t \in sockets : p \in t.pids}} \ Known

\* build_inode_owners comes to process p, which may be gone or unreadable.
ReadProcess(p) ==
  /\ pc = "owners" /\ p \in unread
  /\ unread' = unread \ {p}
  /\ \/ owners' = owners \cup {<<i, p>> : i \in Finds(p)}
     \/ UNCHANGED owners
  /\ UNCHANGED <<host, cache, due, pc, flow, last>>

\* /proc cannot be read or memory is short: the cache stays as it was.
RebuildFails ==
  /\ pc = "owners"
  /\ pc' = "ready"
  /\ unread' = {} /\ owners' = {}
  /\ Attribute(last.packet, Nobody)
  /\ UNCHANGED <<host, cache, due>>

OwnerOf(i) ==
  IF i \in Known THEN CHOOSE p \in Pids : <<i, p>> \in owners ELSE Nobody

Reset ==
  /\ pc = "owners" /\ unread = {}
  /\ pc' = "tables"
  /\ cache' = {}
  /\ UNCHANGED <<host, due, scan, flow, last>>

\* parse_proc_net_table, for all tables.  If one of them is missing the
\* packet is not looked up again, though the cache has the others.
ReadTables ==
  /\ pc = "tables"
  /\ due' = FALSE
  /\ \E ok \in BOOLEAN, read \in SUBSET sockets :
       /\ ok => read = sockets
       /\ cache' = {[local |-> s.local, peer |-> s.peer, pid |-> OwnerOf(s.inode)] :
                      s \in read}
       /\ IF ok
          THEN pc' = "again" /\ UNCHANGED <<flow, last>>
          ELSE pc' = "ready" /\ Attribute(last.packet, Nobody)
  /\ owners' = {}
  /\ UNCHANGED <<host, unread>>

LookAgain ==
  /\ pc = "again"
  /\ pc' = "ready"
  /\ \/ \E pid \in Pids \cup {Nobody} :
          Resolves(last.packet, pid) /\ Attribute(last.packet, pid)
     \/ Unresolved(last.packet) /\ Attribute(last.packet, Nobody)
  /\ UNCHANGED <<host, cache, due, scan>>

\* SOCKET_CACHE_REFRESH_MS pass.
Pass ==
  /\ pc = "ready" /\ ~due
  /\ due' = TRUE
  /\ UNCHANGED <<host, cache, pc, scan, flow, last>>

\* The flow is swept or evicted, see FlowTable.
Forget(p) ==
  /\ pc = "ready" /\ flow[p] # Nobody
  /\ flow' = [flow EXCEPT ![p] = Nobody]
  /\ UNCHANGED <<host, cache, due, pc, scan, last>>

-----------------------------------------------------------------------------
Init ==
  /\ sockets = {} /\ inodes = 0 /\ held = {}
  /\ recorded = [c \in {} |-> Nobody]
  /\ cache = {} /\ due = TRUE
  /\ pc = "ready"
  /\ unread = {} /\ owners = {}
  /\ flow = [p \in Packet |-> Nobody]
  /\ last \in [packet : {p \in Packet : Seen(p)}, pid : {Nobody}]

Processes ==
  \E p \in Pids :
    \/ \E l \in Local : Listen(p, l)
    \/ \E c \in Connection : Connect(p, c) \/ Accept(p, c)
    \/ \E s \in sockets : Send(p, s) \/ Share(p, s) \/ Close(p, s)

Next ==
  \/ Processes
  \/ \E c \in Connection : Evict(c)
  \/ \E p \in Packet : Seen(p) /\ (Handle(p) \/ Rebuild(p) \/ Forget(p))
  \/ \E p \in Pids : ReadProcess(p)
  \/ RebuildFails \/ Reset \/ ReadTables \/ LookAgain
  \/ Pass

Spec == Init /\ [][Next]_vars

-----------------------------------------------------------------------------
(* Properties.                                                             *)
TypeOK ==
  /\ sockets \subseteq Socket /\ inodes \in 0..MaxSockets
  /\ DOMAIN recorded \subseteq Connection
  /\ \A c \in DOMAIN recorded : recorded[c] \in Pids
  /\ cache \subseteq Entry /\ due \in BOOLEAN
  /\ pc \in {"ready", "owners", "tables", "again"}
  /\ unread \subseteq Pids /\ owners \subseteq (1..MaxSockets) \X Pids
  /\ flow \in [Packet -> Pids \cup {Nobody}]
  /\ last \in [packet : Packet, pid : Pids \cup {Nobody}]
  /\ held \subseteq Pids \X Local

(* A packet is only ever put down to a process that has had a socket on    *)
(* the packet's own local endpoint, or on another one with its port.  On   *)
(* the loopback, where both ends are local, it is never put down to the    *)
(* process at the other end.                                               *)
EverOwned ==
  last.pid # Nobody =>
    \E h \in held : h[1] = last.pid /\ Port(h[2]) = Port(OwnerKey(last.packet)[1])

(* A flow whose owner has been found keeps it: later packets of it are not *)
(* without one.                                                            *)
KeepsOwner == pc = "ready" /\ last.pid = Nobody => flow[last.packet] = Nobody
=============================================================================

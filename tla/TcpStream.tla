------------------------------ MODULE TcpStream ------------------------------
(***************************************************************************)
(* What process_tcp_flow (ebpf/zwbee.c) makes of the two directions of one *)
(* TCP connection: each direction has a flow with a buffer, a tls_emitted  *)
(* flag and a domain; a segment is appended to its direction's buffer, a   *)
(* TLS hello is looked for, then HTTP messages are parsed off the front of *)
(* the buffer until none is complete.                                      *)
(*                                                                         *)
(* A stream is a sequence of units.  An HTTP message is a start line, the  *)
(* end of its header (the blank line, with what the header declared) and   *)
(* body units; a TLS record is its head and its tail units.  Lengths count *)
(* units where the code counts bytes.  A segment is any run of units, so   *)
(* that a message is cut at every place that the parsers tell apart.       *)
(*                                                                         *)
(* The program has one thread: while the parsing loop of a packet runs     *)
(* (loop # "idle") no other action is enabled.                             *)
(***************************************************************************)
EXTENDS Integers, Sequences, FiniteSets

CONSTANTS
  Conversations, \* what the two ends may say: [Dir -> Seq(Unit)]
  Hosts,         \* host names
  None,          \* no host
  MaxSize,       \* bound of the model: the largest size of a message
  BodyLimit,     \* -max-body-size
  IntMax,        \* the largest int, which Content-Length is read into
  BufCap,        \* FLOW_BUFFER_CAP
  PktCap,        \* CAP_PAYLOAD
  ScanMax,       \* offsets of a buffer at which a TLS record may start (128)
  WalkMax,       \* records followed from such an offset (8)
  MaxSeg,        \* bound of the model: the units of a segment
  Faults,        \* what may go wrong on the way, of AllFaults
  MaxFaults      \* bound of the model: how often

Dir == {"c2s", "s2c"}

Peer(d) == IF d = "c2s" THEN "s2c" ELSE "c2s"

AllFaults == {"pipeline", "loss", "dup", "pad", "forget", "reuse"}

\* body says how the end of an HTTP message is known: "none" for a method or
\* a status without body, Content-Length ("length"), "chunked", the end of
\* the connection ("close"); "declared" is the answer to HEAD, whose length
\* is that of a body that does not follow.  size counts the body units of an
\* HTTP message and the tail units of a TLS record.
Message ==
  [proto : {"http", "tls"},
   side  : {"request", "response", "other"},
   body  : {"none", "length", "chunked", "close", "declared"},
   size  : 0..MaxSize,
   host  : Hosts \cup {None}]

\* What a message is cut into, see Units below.  conn tells the connections
\* apart that used the same ports, nth the messages of a stream, at the units
\* of a message.
Unit ==
  [kind : {"start", "head", "data", "chunk", "last", "rec", "tail"},
   of : Message, conn : Nat, nth : Nat, at : Nat]

ASSUME TcpStreamAssumption ==
  /\ Conversations \subseteq [Dir -> Seq(Unit)]
  /\ None \notin Hosts
  /\ MaxSize \in Nat /\ BodyLimit \in Int /\ IntMax \in Nat
  /\ BufCap \in Nat \ {0} /\ PktCap \in Nat \ {0}
  /\ ScanMax \in Nat /\ WalkMax \in Nat /\ MaxSeg \in Nat /\ MaxFaults \in Nat
  /\ Faults \subseteq AllFaults

VARIABLES
  conn,    \* connections that used this pair of flow keys so far
  wire,    \* per direction: what its sender says on the current connection
  sent,    \* per direction: how many units of it are on the way or arrived
  buf,     \* per direction: tcp_buffer
  tls,     \* per direction: tls_emitted
  domain,  \* per direction: domain, None without has_domain
  loop,    \* the direction whose buffer is being parsed, or "idle"
  out,     \* per direction: the records written
  faults,  \* faults so far
  resent   \* of which retransmissions

flow == <<buf, tls, domain>>
net  == <<conn, wire, sent, faults, resent>>
vars == <<net, flow, loop, out>>

-----------------------------------------------------------------------------
(* Units.                                                                  *)
Kind(m, i) ==
  IF m.proto = "tls" THEN IF i = 1 THEN "rec" ELSE "tail"
  ELSE CASE i = 1 -> "start"
         [] i = 2 -> "head"
         [] OTHER -> IF m.body = "chunked"
                     THEN IF i = m.size + 3 THEN "last" ELSE "chunk"
                     ELSE "data"

UnitCount(m) ==
  IF m.proto = "tls" THEN m.size + 1
  ELSE CASE m.body \in {"none", "declared"} -> 2
         [] m.body \in {"length", "close"}  -> m.size + 2
         [] m.body = "chunked"              -> m.size + 3

\* Message number n of connection c, cut in units.
Units(c, n, m) ==
  [i \in 1..UnitCount(m) |->
     [kind |-> Kind(m, i), of |-> m, conn |-> c, nth |-> n, at |-> i]]

\* What the frame's padding leaves in the payload of an empty segment.
Pad == [kind |-> "pad", conn |-> 0]

\* The stream s as connection c carries it.
OnConnection(c, s) == [i \in 1..Len(s) |-> [s[i] EXCEPT !.conn = c]]

IsEnd(u) == u.at = UnitCount(u.of)

\* What each end says is messages cut into units, one after another.
FollowsIn(u, v) ==
  IF IsEnd(u) THEN v.at = 1 /\ v.nth > u.nth
  ELSE v.of = u.of /\ v.nth = u.nth /\ v.at = u.at + 1

Script(s) ==
  /\ \A i \in 1..Len(s) :
       s[i].at \in 1..UnitCount(s[i].of) /\ s[i].kind = Kind(s[i].of, s[i].at)
  /\ Len(s) > 0 => s[1].at = 1
  /\ \A i \in 1..Len(s) - 1 : FollowsIn(s[i], s[i + 1])

Scripted == \A c \in Conversations : \A d \in Dir : Script(c[d])

\* Messages of d that are wholly on the way.
Ended(d) == {i \in 1..sent[d] : IsEnd(wire[d][i])}

-----------------------------------------------------------------------------
(* Buffers.  Each definition named Mut... restates the one after it with a *)
(* mistake.                                                                *)
Lesser(a, b) == IF a <= b THEN a ELSE b

Front(b, n) == SubSeq(b, 1, Lesser(n, Len(b)))

MutCappedNever(b, seg) == b \o seg

\* buffer_append: what does not fit is dropped at the old end.
Capped(b, seg) ==
  LET all == b \o seg
  IN  IF Len(all) <= BufCap THEN all
      ELSE SubSeq(all, Len(all) - BufCap + 1, Len(all))

MutDropAll(b, n) == <<>>

MutKeepFront(b, n) == b

\* buffer_consume.
Rest(b, n) == IF n >= Len(b) THEN <<>> ELSE SubSeq(b, n + 1, Len(b))

-----------------------------------------------------------------------------
(* parse_http_message on the units of a buffer.                            *)

\* The first blank line, 0 if there is none; the end of a chunked body has one.
HeaderEnd(b) ==
  LET blank == {i \in 1..Len(b) : b[i].kind \in {"head", "last"}}
  IN  IF blank = {} THEN 0 ELSE CHOOSE i \in blank : \A j \in blank : i <= j

StartsMessage(b) == Len(b) > 0 /\ b[1].kind = "start"

Declares(b, form) ==
  LET h == b[HeaderEnd(b)] IN h.kind = "head" /\ h.of.body \in form

\* A number that does not fit into an int wraps.
AsInt(n) == ((n + IntMax + 1) % (2 * (IntMax + 1))) - (IntMax + 1)

\* parse_content_length_header, -1 if there is no length.
ContentLength(b) ==
  IF Declares(b, {"length", "declared"}) THEN AsInt(b[HeaderEnd(b)].of.size) ELSE -1

HostOf(b) ==
  IF b[HeaderEnd(b)].kind = "head" THEN b[HeaderEnd(b)].of.host ELSE None

\* The method or the status says that there is no body.
NoBody(b) == b[1].of.body = "none"

Available(b) == Len(b) - HeaderEnd(b)

\* parse_chunked_body: where the body ends, 0 while it is not all there.
ChunksEnd(b) ==
  LET ends == {i \in HeaderEnd(b) + 1..Len(b) :
                 /\ b[i].kind = "last"
                 /\ \A j \in HeaderEnd(b) + 1..i - 1 : b[j].kind = "chunk"}
  IN  IF ends = {} THEN 0 ELSE CHOOSE i \in ends : TRUE

MutWholeBodyEarly(b) == TRUE

\* Whether the body may be cut off here: only without a limit, and only when
\* its length is declared, does the parser wait for it.
BodyReady(b) ==
  IF Declares(b, {"chunked"})
  THEN BodyLimit < 0 \/ ChunksEnd(b) > 0
  ELSE BodyLimit = 0 => Available(b) >= ContentLength(b)

Parses(b) == StartsMessage(b) /\ HeaderEnd(b) > 0 /\ (NoBody(b) \/ BodyReady(b))

\* How much of the body the record shows.
Kept(b) ==
  LET whole == IF Declares(b, {"chunked"}) THEN ChunksEnd(b) - 1 - HeaderEnd(b)
               ELSE IF ContentLength(b) >= 0 /\ (BodyLimit = 0
                         \/ ContentLength(b) < Available(b))
                    THEN ContentLength(b)
                    ELSE Available(b)
  IN  IF NoBody(b) \/ BodyLimit < 0 THEN 0
      ELSE IF BodyLimit = 0 THEN whole ELSE Lesser(whole, BodyLimit)

MutHeaderOnly(b) == HeaderEnd(b)

\* How far the parser moves on.
Consumed(b) ==
  Lesser(Len(b),
    CASE NoBody(b) -> HeaderEnd(b)
      [] ~NoBody(b) /\ Declares(b, {"chunked"}) ->
           IF BodyLimit < 0 THEN HeaderEnd(b) ELSE ChunksEnd(b)
      [] OTHER ->
           HeaderEnd(b)
             + IF ContentLength(b) >= 0 THEN ContentLength(b) ELSE Kept(b))

-----------------------------------------------------------------------------
(* find_tls_handshake_record_offset on the units of a buffer: nothing is   *)
(* found if there is no record of the wanted handshake, or if a record met *)
(* before it is not all there.                                             *)
Incomplete == -1

\* What is found from each offset when so many records may still be looked at.
Walk(b, side) ==
  LET walk[left \in 0..WalkMax] ==
        [i \in 1..Len(b) + 1 |->
          IF left = 0 \/ i > Len(b) THEN 0
          ELSE IF b[i].kind # "rec" THEN 0
          ELSE IF i + b[i].of.size > Len(b) THEN Incomplete
          ELSE IF b[i].of.side = side THEN i
          ELSE walk[left - 1][i + 1 + b[i].of.size]]
  IN  walk

RecordsFrom(b, o, side) == Walk(b, side)[WalkMax][o]

\* From the first offset at which a record starts; 0 goes on to the next one.
Search(b, side) ==
  LET hits == {o \in 1..Lesser(Len(b), ScanMax + 1) :
                 RecordsFrom(b, o, side) # 0}
  IN  IF hits = {} THEN 0
      ELSE RecordsFrom(b, CHOOSE o \in hits : \A p \in hits : o <= p, side)

MutFirstRecordOnly(b, side) ==
  {i \in 1..Len(b) : b[i].kind = "rec" /\ i = 1 /\ RecordsFrom(b, 1, side) = 1}

\* The offset that is found, as a set of at most one.
FindHandshake(b, side) ==
  {i \in 1..Len(b) : b[i].kind = "rec" /\ Search(b, side) = i}

RecordAt(b, o) == SubSeq(b, o, Lesser(Len(b), o + b[o].of.size))

\* A hello whose bytes are its own parses; one patched up from other bytes
\* may or may not.
Intact(b, o) ==
  RecordAt(b, o) = Units(b[o].conn, b[o].nth, b[o].of)

-----------------------------------------------------------------------------
Write(d, record) == out' = [out EXCEPT ![d] = Append(@, record)]

MutPeerDomain(d) == domain[d]

\* The domain a message without a name of its own is given.
Inherited(d) == domain[Peer(d)]

\* A complete ClientHello (or ServerHello) is reported, the rest of the
\* buffer goes with it.
Hello(d, b, o, side) ==
  LET name == IF side = "request" THEN b[o].of.host ELSE Inherited(d)
  IN  /\ Write(d, [id |-> <<b[o].conn, b[o].nth>>, proto |-> "tls",
                     took |-> RecordAt(b, o), kept |-> 0, host |-> name])
      /\ buf' = [buf EXCEPT ![d] = <<>>]
      /\ tls' = [tls EXCEPT ![d] = TRUE]
      /\ domain' = IF side = "request" /\ name # None
                   THEN [domain EXCEPT ![d] = name] ELSE domain
      /\ UNCHANGED loop

LooksForHello(d) == ~tls[d]

\* process_tcp_flow up to its HTTP loop.
Receive(d, seg) ==
  /\ loop = "idle"
  /\ LET b == Capped(buf[d], Front(seg, PktCap))
         q == IF LooksForHello(d) THEN FindHandshake(b, "request") ELSE {}
         r == IF LooksForHello(d) THEN FindHandshake(b, "response") ELSE {}
         Read(found) == \E o \in found : Intact(b, o)
     IN  \/ \E o \in q : Hello(d, b, o, "request")
         \/ ~Read(q) /\ \E o \in r : Hello(d, b, o, "response")
         \/ /\ ~Read(q) /\ ~Read(r)
            /\ buf' = [buf EXCEPT ![d] = b]
            /\ loop' = d
            /\ UNCHANGED <<tls, domain, out>>

\* One round of the HTTP loop.
ParseOne(d) ==
  /\ loop = d
  /\ Parses(buf[d])
  /\ LET b == buf[d]
         n == Consumed(b)
         name == IF HostOf(b) # None THEN HostOf(b) ELSE Inherited(d)
     IN  /\ Write(d, [id |-> <<b[1].conn, b[1].nth>>, proto |-> "http",
                        took |-> SubSeq(b, 1, n), kept |-> Kept(b),
                        host |-> name])
         /\ domain' = IF name # None THEN [domain EXCEPT ![d] = name] ELSE domain
         /\ buf' = [buf EXCEPT ![d] = Rest(b, n)]
  /\ tls' = [tls EXCEPT ![d] = FALSE]
  /\ UNCHANGED <<net, loop>>

\* The front of the buffer is no complete message: the loop ends.
Leave(d) ==
  /\ loop = d
  /\ ~Parses(buf[d])
  /\ loop' = "idle"
  /\ UNCHANGED <<net, flow, out>>

-----------------------------------------------------------------------------
(* The network and the ends.                                               *)

Init ==
  /\ \E c \in Conversations : wire = [d \in Dir |-> OnConnection(1, c[d])]
  /\ conn = 1
  /\ sent = [d \in Dir |-> 0]
  /\ buf = [d \in Dir |-> <<>>]
  /\ tls = [d \in Dir |-> FALSE]
  /\ domain = [d \in Dir |-> None]
  /\ loop = "idle"
  /\ out = [d \in Dir |-> <<>>]
  /\ faults = 0
  /\ resent = 0

\* A server answers what it has been asked (all its records, to a hello); a
\* client that does not pipeline asks again when it has been answered.
MaySay(d, u) ==
  IF d = "s2c"
  THEN Cardinality(Ended("c2s")) >= IF u.of.proto = "tls" THEN 1 ELSE u.nth
  ELSE "pipeline" \in Faults \/ Cardinality(Ended("s2c")) >= u.nth - 1

Fault(kind) == kind \in Faults /\ faults < MaxFaults /\ faults' = faults + 1

\* The next segment of d: units sent[d] + 1 to j.
Segment(d, j) ==
  /\ loop = "idle"
  /\ sent[d] < j /\ j <= sent[d] + MaxSeg /\ j <= Len(wire[d])
  /\ \A i \in sent[d] + 1..j : MaySay(d, wire[d][i])
  /\ sent' = [sent EXCEPT ![d] = j]

Deliver(d, j) ==
  /\ Segment(d, j)
  /\ Receive(d, SubSeq(wire[d], sent[d] + 1, j))
  /\ UNCHANGED <<conn, wire, faults, resent>>

\* The socket's queue is full, or buffer_reserve fails.
Lose(d, j) ==
  /\ Fault("loss")
  /\ Segment(d, j)
  /\ UNCHANGED <<conn, wire, flow, loop, out, resent>>

\* Units i to j are seen again: nothing looks at sequence numbers.
Retransmit(d, i, j) ==
  /\ Fault("dup")
  /\ i <= j /\ j <= sent[d] /\ j < i + MaxSeg
  /\ Receive(d, SubSeq(wire[d], i, j))
  /\ resent' = resent + 1
  /\ UNCHANGED <<conn, wire, sent>>

\* An empty segment in a frame padded to the least length of Ethernet:
\* parse_packet takes all that follows the TCP header for payload.
PaddedAck(d) ==
  /\ Fault("pad")
  /\ Receive(d, <<Pad>>)
  /\ UNCHANGED <<conn, wire, sent, resent>>

\* The flow of d is swept or evicted, see FlowTable.
Forget(d) ==
  /\ Fault("forget")
  /\ loop = "idle"
  /\ buf' = [buf EXCEPT ![d] = <<>>]
  /\ tls' = [tls EXCEPT ![d] = FALSE]
  /\ domain' = [domain EXCEPT ![d] = None]
  /\ UNCHANGED <<conn, wire, sent, loop, out, resent>>

\* The connection ends and its two ports serve another one: FIN, RST and SYN
\* mean nothing to the program and the flows stay as they are.
Reuse ==
  /\ Fault("reuse")
  /\ loop = "idle"
  /\ conn' = conn + 1
  /\ \E c \in Conversations : wire' = [d \in Dir |-> OnConnection(conn + 1, c[d])]
  /\ sent' = [d \in Dir |-> 0]
  /\ UNCHANGED <<flow, loop, out, resent>>

Next ==
  \E d \in Dir :
    \/ \E j \in 1..Len(wire[d]) : Deliver(d, j) \/ Lose(d, j)
    \/ \E i, j \in 1..sent[d] : Retransmit(d, i, j)
    \/ PaddedAck(d)
    \/ Forget(d)
    \/ Reuse
    \/ ParseOne(d)
    \/ Leave(d)

Spec == Init /\ [][Next]_vars

-----------------------------------------------------------------------------
(* Properties.                                                             *)
Records(d) == {out[d][i] : i \in 1..Len(out[d])}

Reported(d) == {r.id : r \in Records(d)}

Record ==
  [id : Nat \X Nat, proto : {"http", "tls"}, took : Seq(Unit \cup {Pad}),
   kept : Nat, host : Hosts \cup {None}]

\* Every flow has a buffer of at most FLOW_BUFFER_CAP, whatever arrives.
TypeOK ==
  /\ conn \in 1..faults + 1
  /\ wire \in [Dir -> Seq(Unit)]
  /\ sent \in [Dir -> Nat]
  /\ \A d \in Dir : sent[d] <= Len(wire[d])
  /\ buf \in [Dir -> Seq(Unit \cup {Pad})]
  /\ \A d \in Dir : Len(buf[d]) <= BufCap
  /\ tls \in [Dir -> BOOLEAN]
  /\ domain \in [Dir -> Hosts \cup {None}]
  /\ loop \in Dir \cup {"idle"}
  /\ out \in [Dir -> Seq(Record)]
  /\ faults \in 0..MaxFaults /\ resent \in 0..faults

\* r holds all of one message and, without a limit, all of its body.
Whole(r) ==
  LET m == r.took[1].of
  IN  /\ r.took = Units(r.took[1].conn, r.took[1].nth, m)
      /\ BodyLimit = 0 /\ r.proto = "http"
           => r.kept = IF m.body = "none" THEN 0 ELSE m.size

(* A record is about one whole message: what the parser took for it is     *)
(* that message from its first unit to its last, however it was cut into   *)
(* segments and whatever was pipelined behind it, so that the next message *)
(* is parsed from its own start, and without a limit all of its body is in *)
(* the record.                                                             *)
WholeRecords == \A d \in Dir : \A r \in Records(d) : Whole(r)

Before(p, q) == p[1] < q[1] \/ (p[1] = q[1] /\ p[2] < q[2])

(* Messages are reported in the order they were sent and at most once,     *)
(* except that a retransmission may make the reports step back once: lost  *)
(* segments, padding, forgotten flows and reused ports never do.           *)
InOrder ==
  \A d \in Dir :
    Cardinality({i \in 1..Len(out[d]) - 1 :
                   ~Before(out[d][i].id, out[d][i + 1].id)}) <= resent

Parsed(u) == u.of.proto = "http" \/ u.of.side # "other"

(* Once a packet has been handled, every HTTP message and every hello that *)
(* has wholly arrived has been reported: nothing complete waits for later  *)
(* traffic.                                                                *)
Prompt ==
  loop = "idle" =>
    \A d \in Dir : \A i \in Ended(d) :
      Parsed(wire[d][i]) => <<conn, wire[d][i].nth>> \in Reported(d)

(* Once a packet has been handled, no HTTP message and no hello lies whole *)
(* in its buffer.                                                          *)
Drained ==
  loop = "idle" =>
    \A d \in Dir : \A i \in 1..Len(buf[d]) :
      LET u == buf[d][i]
          end == i + UnitCount(u.of) - 1
      IN  u.kind \in {"start", "rec"} /\ Parsed(u) /\ end <= Len(buf[d])
            => SubSeq(buf[d], i, end) # Units(u.conn, u.nth, u.of)

(* A response is reported under the name its request was sent to, though   *)
(* it does not carry it, or, if the client pipelined, under the name of a  *)
(* request that followed: never under that of an earlier exchange (a       *)
(* pipelined request without a name of its own is taken to have one: see   *)
(* MCTcpBorrowed.cfg for what it borrows otherwise).                       *)
NamedAfterRequest ==
  \A r \in Records("s2c") : \A q \in Records("c2s") :
    q.id = r.id /\ q.took[1].of.host # None =>
      \E p \in Records("c2s") :
        /\ p = q \/ ("pipeline" \in Faults /\ Before(q.id, p.id))
        /\ p.took[1].of.host = r.host

\* What a record says, and the messages that have wholly arrived.
Entry(r) ==
  [nth |-> r.id[2], message |-> IF Whole(r) THEN r.took[1].of ELSE None,
   host |-> r.host]

Arrived ==
  [d \in Dir |->
    {[nth |-> wire[d][i].nth, message |-> wire[d][i].of] :
       i \in {j \in Ended(d) : Parsed(wire[d][j])}}]

Entries == [d \in Dir |-> [k \in 1..Len(out[d]) |-> Entry(out[d][k])]]

Log == INSTANCE ExchangeLog WITH
  passed    <- Arrived,
  log       <- Entries,
  busy      <- loop,
  Pipelined <- "pipeline" \in Faults

(* Buffers, segments and parsers together do what is owed to the reader:   *)
(* each message of a connection once, whole, in its order, before the next *)
(* packet and under the right name.                                        *)
ImplementsLog == Log!Spec

(* The record of a body keeps to -max-body-size, whatever the segments     *)
(* were.                                                                   *)
WithinLimit ==
  \A d \in Dir : \A i \in 1..Len(out[d]) :
    /\ BodyLimit < 0 => out[d][i].kept = 0
    /\ BodyLimit > 0 => out[d][i].kept <= BodyLimit
=============================================================================

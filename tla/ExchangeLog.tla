----------------------------- MODULE ExchangeLog -----------------------------
(***************************************************************************)
(* What process_tcp_flow (ebpf/zwbee.c) owes the reader of its output for  *)
(* one TCP connection that is captured whole, without buffers, segments or *)
(* parsers: every message is reported once, whole, in the order of its     *)
(* stream and before the next packet is looked at, and a response under    *)
(* the name of the exchange it belongs to.  TcpStream implements it.       *)
(***************************************************************************)
EXTENDS Naturals, Sequences, FiniteSets

CONSTANTS
  Hosts,     \* host names
  None,      \* no host
  Pipelined  \* whether a client asks before it has been answered

VARIABLES
  passed,  \* per direction: the messages that have wholly been captured
  log,     \* per direction: the reports
  busy     \* the direction whose packet is being handled, or "idle"

vars == <<passed, log, busy>>

Dir == {"c2s", "s2c"}

Logged(d) == {log[d][k].nth : k \in 1..Len(log[d])}

\* The messages of seen that have not been reported.
Due(d, seen) == {p \in seen : p.nth \notin Logged(d)}

\* A request is reported under its own name, the next response under that of
\* the request it answers or, if the client pipelines, of one behind it.
Fits(d, message, host) ==
  CASE message.host # None -> host = message.host
    [] message.host = None /\ d = "s2c" ->
         \E j \in Len(log["s2c"]) + 1..Len(log["c2s"]) :
           /\ j = Len(log["s2c"]) + 1 \/ Pipelined
           /\ log["c2s"][j].message.host \in {None, host}
    [] OTHER -> TRUE

\* The first message of seen that is due is reported.
Report(d, seen) ==
  \E p \in Due(d, seen), host \in Hosts \cup {None} :
    /\ \A q \in Due(d, seen) : p.nth <= q.nth
    /\ Fits(d, p.message, host)
    /\ log' = [log EXCEPT ![d] =
                 Append(@, [nth |-> p.nth, message |-> p.message, host |-> host])]

-----------------------------------------------------------------------------
Init ==
  /\ passed = [d \in Dir |-> {}]
  /\ log = [d \in Dir |-> <<>>]
  /\ busy = "idle"

\* A packet of d completes any number of messages; a server answers only what
\* has been reported.
Arrive(d) ==
  /\ busy = "idle"
  /\ passed[d] \subseteq passed'[d]
  /\ \A p \in passed[d] : \A q \in passed'[d] \ passed[d] : p.nth < q.nth
  /\ \A e \in Dir \ {d} : passed'[e] = passed[e]
  /\ Cardinality(passed'["s2c"]) <= Len(log["c2s"])

Packet(d) == Arrive(d) /\ busy' = d /\ UNCHANGED log

\* A TLS hello ends the handling of its packet, as the only thing to report.
Hello(d) ==
  /\ Arrive(d)
  /\ Report(d, passed'[d])
  /\ Cardinality(Due(d, passed'[d])) = 1
  /\ UNCHANGED busy

Parse(d) == busy = d /\ Report(d, passed[d]) /\ UNCHANGED <<passed, busy>>

\* The packet has been handled only when nothing is due.
Leave(d) ==
  /\ busy = d
  /\ Due(d, passed[d]) = {}
  /\ busy' = "idle"
  /\ UNCHANGED <<passed, log>>

Next == \E d \in Dir : Packet(d) \/ Hello(d) \/ Parse(d) \/ Leave(d)

Spec == Init /\ [][Next]_vars
=============================================================================

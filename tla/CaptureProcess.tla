--------------------------- MODULE CaptureProcess ---------------------------
(***************************************************************************)
(* The life of a zwbee process (main, open_and_attach_bpf and              *)
(* drain_packet_socket of ebpf/zwbee.c) against the frames that the kernel *)
(* queues on its packet socket and Ctrl-C.                                 *)
(*                                                                         *)
(* main goes through the steps of Order, each of which may fail and then   *)
(* gives back what it holds, then alternates between poll and draining the *)
(* socket until it is interrupted.  What handle_packet does with a frame   *)
(* is the subject of the other modules.                                    *)
(***************************************************************************)
EXTENDS Integers, Sequences, FiniteSets

CONSTANTS
  Ifaces,    \* network interfaces
  None,      \* no interface
  Interface, \* -interface, or None
  Rules,     \* whether -pcap-rules is given
  QueueCap,  \* frames that the socket's receive buffer holds
  MaxEvents  \* bound of the model: frames and errors of the socket, or None

\* rule: the frame satisfies -pcap-rules; web: capture_prog takes it for HTTP,
\* TLS or QUIC.
Frame == [iface : Ifaces, rule : BOOLEAN, web : BOOLEAN]

ASSUME CaptureProcessAssumption ==
  /\ None \notin Ifaces /\ Interface \in Ifaces \cup {None}
  /\ Rules \in BOOLEAN
  /\ QueueCap \in Nat \ {0} /\ None \notin Nat /\ MaxEvents \in Nat \cup {None}

VARIABLES
  pc,       \* the step of Order, "loop", "tested", "poll", "drain" or "exited"
  held,     \* what is to be given back: the socket, the BPF object, its links
  misused,  \* something was given back that was not held
  written,  \* capture_config_map is written
  bound,    \* the socket is bound to Interface
  filter,   \* capture_prog is attached to the socket
  queue,    \* frames in the socket's receive buffer, judged by capture_prog or not
  error,    \* the socket's pending error (ENETDOWN)
  exiting,  \* exiting, set by sigint_handler
  events    \* frames and errors so far, unless MaxEvents is None

owned == <<held, misused>>
setup == <<written, bound, filter>>
input == <<queue, error, exiting, events>>
vars  == <<pc, owned, setup, input>>

Probes == {"tcp_connect", "inet_csk_accept", "tcp_sendmsg", "udp_sendmsg"}

-----------------------------------------------------------------------------
(* Starting.                                                               *)
MutOrder ==
  <<"rlimit", "socket", "bind", "open", "load", "filter", "configure",
    "find", "tcp_connect", "inet_csk_accept", "tcp_sendmsg", "udp_sendmsg", "cache">>

Order ==
  <<"rlimit", "socket", "bind", "open", "load", "configure", "find",
    "tcp_connect", "inet_csk_accept", "tcp_sendmsg", "udp_sendmsg", "filter",
    "cache">>

Step == {Order[i] : i \in 1..Len(Order)}

\* What a step leaves to be given back.
Acquired(step) ==
  CASE step = "socket"   -> {"socket"}
    [] step = "open"     -> {"object"}
    [] step \in Probes   -> {step}
    [] OTHER             -> {}

MutUndone(step) ==
  CASE step \in {"rlimit", "socket"}     -> <<>>
    [] step \in {"bind", "open"}         -> <<"socket">>
    [] step \in {"load", "configure", "find", "tcp_connect"} ->
         <<"object", "socket">>
    [] step = "inet_csk_accept" -> <<"tcp_connect", "object", "socket">>
    [] step = "tcp_sendmsg" ->
         <<"inet_csk_accept", "tcp_connect", "object", "socket">>
    [] OTHER ->
         <<"tcp_sendmsg", "inet_csk_accept", "tcp_connect", "object", "socket">>

\* What the error path of a step gives back, in its order.
Undone(step) ==
  CASE step \in {"rlimit", "socket"}     -> <<>>
    [] step \in {"bind", "open"}         -> <<"socket">>
    [] step \in {"load", "configure", "find", "tcp_connect"} ->
         <<"object", "socket">>
    [] step = "inet_csk_accept" -> <<"tcp_connect", "object", "socket">>
    [] step = "tcp_sendmsg" ->
         <<"inet_csk_accept", "tcp_connect", "object", "socket">>
    [] step = "udp_sendmsg" ->
         <<"tcp_sendmsg", "inet_csk_accept", "tcp_connect", "object", "socket">>
    [] OTHER ->
         <<"udp_sendmsg", "tcp_sendmsg", "inet_csk_accept", "tcp_connect",
           "object", "socket">>

\* The end of main.
UndoneAtEnd ==
  <<"inet_csk_accept", "tcp_connect", "udp_sendmsg", "tcp_sendmsg", "object",
    "socket">>

\* Gives back one thing after the other; each must be held in its turn. One
\* step: the program handles no frame any more between two of them.
GiveBack(things) ==
  LET upTo(n) == {things[i] : i \in 1..n}
  IN  /\ held' = held \ upTo(Len(things))
      /\ misused' = (misused \/ \E n \in 1..Len(things) :
                                   things[n] \notin held \ upTo(n - 1))

Position(step) == CHOOSE i \in 1..Len(Order) : Order[i] = step

Follows(step) ==
  IF Position(step) = Len(Order) THEN "loop" ELSE Order[Position(step) + 1]

Succeed ==
  /\ pc \in Step
  /\ pc' = Follows(pc)
  /\ held' = held \cup Acquired(pc)
  /\ bound' = (bound \/ (pc = "bind" /\ Interface # None))
  /\ written' = (written \/ pc = "configure")
  /\ filter' = (filter \/ pc = "filter")
  /\ UNCHANGED <<misused, input>>

\* A socket cache that could not be built is only worth a warning.
Fail ==
  /\ pc \in Step \ {"cache"} /\ (pc = "bind" => Interface # None)
  /\ pc' = "exited"
  /\ GiveBack(Undone(pc))
  /\ UNCHANGED <<setup, input>>

-----------------------------------------------------------------------------
(* Running.                                                                *)
LoopTest ==
  /\ pc = "loop" /\ ~exiting
  /\ pc' = "tested"
  /\ UNCHANGED <<owned, setup, input>>

CallPoll ==
  /\ pc = "tested"
  /\ pc' = "poll"
  /\ UNCHANGED <<owned, setup, input>>

PollReady ==
  /\ pc = "poll" /\ queue # <<>>
  /\ pc' = "drain"
  /\ UNCHANGED <<owned, setup, input>>

MutSleepsOn == error

\* poll ends without POLLIN: its second is over, or all there is is an error.
WakesIdle == TRUE

PollIdle ==
  /\ pc = "poll" /\ queue = <<>> /\ WakesIdle
  /\ pc' = "loop"
  /\ UNCHANGED <<owned, setup, input>>

MutDrainError ==
  /\ pc = "drain" /\ error
  /\ pc' = "loop"
  /\ UNCHANGED <<owned, setup, input>>

\* recvfrom returns a pending error before any frame and forgets it.
DrainError ==
  /\ pc = "drain" /\ error
  /\ error' = FALSE
  /\ pc' = "loop"
  /\ UNCHANGED <<owned, setup, queue, exiting, events>>

\* recvfrom and handle_packet.
DrainFrame ==
  /\ pc = "drain" /\ ~error /\ queue # <<>>
  /\ queue' = Tail(queue)
  /\ UNCHANGED <<pc, owned, setup, error, exiting, events>>

DrainEnd ==
  /\ pc = "drain" /\ ~error /\ queue = <<>>
  /\ pc' = "loop"
  /\ UNCHANGED <<owned, setup, input>>

Exit ==
  /\ pc = "loop" /\ exiting
  /\ pc' = "exited"
  /\ GiveBack(UndoneAtEnd)
  /\ UNCHANGED <<setup, input>>

\* poll fails with anything but EINTR.
PollFails ==
  /\ pc = "poll"
  /\ pc' = "exited"
  /\ GiveBack(UndoneAtEnd)
  /\ UNCHANGED <<setup, input>>

-----------------------------------------------------------------------------
(* The kernel.                                                             *)

\* capture_prog: a map that is not yet written holds zeros, which stand for
\* every interface and no rules.
Judge(f) ==
  /\ written /\ Interface # None => f.iface = Interface
  /\ IF written /\ Rules THEN f.rule ELSE f.web

Event ==
  /\ "socket" \in held
  /\ IF MaxEvents = None THEN UNCHANGED events
     ELSE events < MaxEvents /\ events' = events + 1

Arrive(f) ==
  /\ Event
  /\ bound => f.iface = Interface
  /\ filter => Judge(f)
  /\ queue' = IF Len(queue) = QueueCap THEN queue
              ELSE Append(queue, [frame |-> f, judged |-> filter])
  /\ UNCHANGED <<pc, owned, setup, error, exiting>>

\* The interface goes down.
NetDown ==
  /\ Event
  /\ bound /\ ~error
  /\ error' = TRUE
  /\ UNCHANGED <<pc, owned, setup, queue, exiting>>

\* Ctrl-C, caught from the first step on: a sleeping poll returns EINTR.
Interrupt ==
  /\ pc # "exited" /\ ~exiting
  /\ exiting' = TRUE
  /\ pc' = IF pc = "poll" THEN "loop" ELSE pc
  /\ UNCHANGED <<owned, setup, queue, error, events>>

-----------------------------------------------------------------------------
Init ==
  /\ pc = Order[1]
  /\ held = {} /\ misused = FALSE
  /\ written = FALSE /\ bound = FALSE /\ filter = FALSE
  /\ queue = <<>> /\ error = FALSE
  /\ exiting = FALSE
  /\ events = 0

Program ==
  \/ Succeed
  \/ LoopTest \/ CallPoll \/ PollReady \/ PollIdle
  \/ DrainError \/ DrainFrame \/ DrainEnd
  \/ Exit

Next ==
  \/ Program
  \/ Fail \/ PollFails
  \/ \E f \in Frame : Arrive(f)
  \/ NetDown
  \/ Interrupt

Spec == Init /\ [][Next]_vars

\* The scheduler runs the process and its poll times out; no step has to
\* fail, and nothing is assumed of the network and of the user.
FairSpec == Spec /\ WF_vars(Program)

-----------------------------------------------------------------------------
(* Properties.                                                             *)
TypeOK ==
  /\ pc \in Step \cup {"loop", "tested", "poll", "drain", "exited"}
  /\ held \subseteq Probes \cup {"socket", "object"}
  /\ misused \in BOOLEAN
  /\ written \in BOOLEAN /\ bound \in BOOLEAN /\ filter \in BOOLEAN
  /\ queue \in Seq([frame : Frame, judged : BOOLEAN])
  /\ Len(queue) <= QueueCap
  /\ error \in BOOLEAN /\ exiting \in BOOLEAN
  /\ events \in Nat

Exited == pc = "exited"

(* Whichever step failed, main returns with its socket closed, the object  *)
(* unloaded and every probe detached, and nothing was freed twice.         *)
CleanExit == ~misused /\ (Exited => held = {})

(* A frame is only judged while every probe that tells its owner is        *)
(* attached.                                                               *)
ProbesFirst == filter /\ ~Exited => Probes \subseteq held

Wanted(f) ==
  /\ Interface # None => f.iface = Interface
  /\ Rules => f.rule

(* capture_prog never judges a frame before it is told of -interface and   *)
(* -pcap-rules: what it lets through is what they ask for.                 *)
JudgedWanted ==
  \A i \in 1..Len(queue) : queue[i].judged => Wanted(queue[i].frame)

(* The program handles only frames that -interface and -pcap-rules ask for.*)
HandlesWanted ==
  pc = "drain" /\ queue # <<>> => Wanted(Head(queue).frame)

(* A frame does not wait for ever, not even behind an error of the socket: *)
(* the queue is emptied or the program exits.                              *)
Drains == queue # <<>> ~> queue = <<>> \/ Exited

(* Ctrl-C ends the program, whenever it comes: while it starts, between    *)
(* the test of exiting and poll, or in poll.                               *)
InterruptStops == exiting ~> Exited
=============================================================================

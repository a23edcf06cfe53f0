--------------------------- MODULE MCOwnerResolve ---------------------------
(* Instances of OwnerResolve for TLC: endpoints of this host that talk to   *)
(* each other over the loopback, so that both ends are local.               *)
EXTENDS OwnerResolve, TLC

CONSTANTS server, client, p1, p2

Ends == {server, client}

\* The ports differ.
OwnPort(e) == e

\* A loopback frame is captured on its way out and on its way in.
LoopbackSeen(p) ==
  p.src = client \/ (p.direction = 0 /\ p.dst = client)

OnServer(e) == e = server

Symmetry == Permutations(Pids)
=============================================================================

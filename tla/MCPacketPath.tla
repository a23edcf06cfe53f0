----------------------------- MODULE MCPacketPath -----------------------------
(* Instance of PacketPath: a connection over the loopback, each of whose    *)
(* packets is captured going out and coming in, in a table of two chains.   *)
EXTENDS PacketPath

MCEnds == {"client", "server"}

MCKeys == {k \in Key : k.src # k.dst}

MCHolders == [e \in MCEnds |-> IF e = "client" THEN {1} ELSE {2}]

\* Three of the four keys share a chain.
MCHash(k) == IF k.direction = 1 /\ k.src = "server" THEN 2 ELSE 1

MCNoFilter == -1
=============================================================================

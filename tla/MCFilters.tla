------------------------------ MODULE MCFilters ------------------------------
(* Small instances of Filters for TLC: addresses of 4 and 6 bits in bytes  *)
(* of 2, a prefix_len that wraps at 16.                                    *)
EXTENDS Filters

SmallBytes == [f \in Family |-> IF f = "v4" THEN 2 ELSE 3]

V4(x, y)    == <<x, y>>
V6(x, y, z) == <<x, y, z>>

Net(deny, family, addr, prefix) ==
  [deny |-> deny, family |-> family, prefix |-> prefix, addr |-> addr]

\* Prefixes that end in a byte and between two, no prefix, the empty one, one
\* that is too long and one that wraps.
Nets ==
  {Net(d, "v4", V4(2, 1), n) : d \in BOOLEAN, n \in {0, 1, 2, 3, 9, 18, None}}
    \cup {Net(d, "v6", V6(1, 2, 3), n) : d \in BOOLEAN, n \in {0, 3, 4, 5, 9, None}}

BadNet == Net(FALSE, "v4", None, 1)

OptionArgs ==
  {[opt |-> "direction", value |-> "ingress"], [opt |-> "direction", value |-> None],
   [opt |-> "sport", value |-> 1], [opt |-> "dport", value |-> 1],
   [opt |-> "pid", value |-> 1], [opt |-> "cpid", value |-> 5],
   [opt |-> "crid", value |-> 0]}

AllArgs ==
  {[opt |-> s, list |-> <<n>>] : s \in Side, n \in Nets}
    \cup {[opt |-> "src", list |-> <<Net(FALSE, "v4", V4(2, 1), 2), BadNet>>],
          [opt |-> "dst", list |-> <<Net(FALSE, "v6", V6(1, 2, 3), 3),
                                     Net(TRUE, "v6", V6(1, 2, 3), None)>>]}
    \cup OptionArgs

Meta(n) == [f \in ProcField |-> IF f = "crid" THEN 0 ELSE n]

From(family, addr) ==
  [family |-> family, src |-> addr, dst |-> addr, sport |-> 1, dport |-> 2,
   direction |-> "ingress", meta |-> Meta(1)]

AllPackets ==
  {From("v4", V4(x, y)) : x \in 0..3, y \in 0..3}
    \cup {From("v6", V6(x, y, z)) : x \in {1, 3}, y \in 0..3, z \in {0, 2, 3}}
    \cup {[From("v4", V4(2, 1)) EXCEPT !.direction = "egress", !.meta = NoMeta]}
=============================================================================

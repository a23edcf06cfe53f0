----------------------------- MODULE MCTcpStream -----------------------------
(* Small instances of TcpStream for TLC. *)
EXTENDS TcpStream

CONSTANTS ha, hb  \* host names

Http(side, body, size, host) ==
  [proto |-> "http", side |-> side, body |-> body, size |-> size, host |-> host]
Tls(side, size, host) ==
  [proto |-> "tls", side |-> side, body |-> "none", size |-> size, host |-> host]

Get(h)     == Http("request", "none", 0, h)
Post(n, h) == Http("request", "length", n, h)
Put(n, h)  == Http("request", "chunked", n, h)
Answer(n)  == Http("response", "length", n, None)
Chunked(n) == Http("response", "chunked", n, None)
NoContent  == Http("response", "none", 0, None)
HeadAnswer == Http("response", "declared", 1, None)
Close(n)   == Http("response", "close", n, None)

Stream(script) ==
  LET said[n \in 0..Len(script)] ==
        IF n = 0 THEN <<>> ELSE said[n - 1] \o Units(0, n, script[n])
  IN  said[Len(script)]

Says(c, s) == [d \in Dir |-> Stream(IF d = "c2s" THEN c ELSE s)]

\* Requests and responses with every way to end a body that can be told
\* before the connection ends.
Plain == Says(<<Get(ha), Post(2, hb), Get(hb)>>, <<Answer(2), NoContent, Answer(1)>>)
Chunks == Says(<<Put(2, ha), Get(None), Put(0, hb)>>,
               <<Chunked(1), Answer(0), Chunked(0)>>)
Mixed == Says(<<Post(1, ha), Put(1, hb), Post(0, ha)>>,
              <<NoContent, Chunked(2), Answer(2)>>)

\* A handshake, a compatibility record before the ServerHello, then data.
Handshake ==
  Says(<<Tls("request", 1, ha), Tls("other", 1, None)>>,
       <<Tls("other", 0, None), Tls("response", 1, None), Tls("other", 1, None)>>)

Exchanges == {Plain, Chunks, Mixed}
All == Exchanges \cup {Handshake}
HeadExchange == {Says(<<Get(ha), Get(ha)>>, <<HeadAnswer, Answer(1)>>)}
Handshakes == {Handshake}
\* The second length is beyond the largest int of MCTcpFaults.cfg.
Short == {Says(<<Post(1, ha), Post(2, hb)>>, <<Chunked(2)>>)}
Borrowing == {Says(<<Get(ha), Get(hb), Get(None)>>, <<Answer(0), Answer(0), Answer(0)>>)}
PostThenGet == {Says(<<Post(2, ha), Get(ha)>>, <<NoContent, NoContent>>)}

\* The hypothesis of the theorems about streams.
ASSUME ScriptedAssumption == Scripted

\* The default of -max-body-size.
NoBodies == -1
=============================================================================

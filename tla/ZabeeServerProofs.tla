--------------------------- MODULE ZabeeServerProofs ---------------------------
(***************************************************************************)
(* Proofs about ZabeeServer, for any number of calls of RunServe and       *)
(* Shutdown.                                                               *)
(***************************************************************************)
EXTENDS ZabeeServer, TLAPS

Opening   == {"load", "configure", "socket", "filter", "probes", "publish"}
Reading   == {"check", "read", "recvfrom", "failed"}
Locked    == {"cancel", "close", "take"}
Releasing == {"links", "objs"}
Pcs       == Opening \cup Reading \cup Locked \cup Releasing \cup Over \cup {"lock", "ran"}

\* Where the run that has not ended is, with what it must still give back.
NotRun  == {"idle", "returned"}
Keeping == Reading \cup {"lock", "close", "take"}

-----------------------------------------------------------------------------
(* The inductive invariant.                                                *)
Types ==
  /\ pc \in [Goroutines -> Pcs]
  /\ taken \in [Goroutines -> SUBSET Resources]
  /\ open \subseteq Resources /\ fields \subseteq {"links", "objs"}
  /\ closes \in [Resources -> Nat]
  /\ rawSock \in BOOLEAN /\ started \in BOOLEAN
  /\ closed \in BOOLEAN /\ cancelled \in BOOLEAN
  /\ fd \in BOOLEAN /\ failed \in BOOLEAN
  /\ err \in {"none", "canceled", "error"}

\* Whoever is in a critical section of several steps holds the mutex, and
\* only a Shutdown cancels.
Exclusive ==
  /\ \A p \in Goroutines : pc[p] \in Locked => mu = p
  /\ \A p \in Runners : pc[p] # "cancel"
  /\ \A p \in Stoppers : pc[p] \in Locked \cup Releasing \cup {"idle", "lock", "returned"}

\* One call of RunServe runs; the others return.
OneRun ==
  /\ ~started <=> \A r \in Runners : pc[r] = "idle"
  /\ \A r, q \in Runners : pc[r] \notin NotRun /\ pc[q] \notin NotRun => r = q

\* Nothing is published before the run has opened all of it.
Unpublished ==
  ~started \/ (\E r \in Runners : pc[r] \in Opening) =>
    /\ ~rawSock /\ fields = {}
    /\ \A p \in Goroutines : taken[p] = {}

\* What is open is still the run's own, or is published, or has been taken by
\* somebody who is about to close it.
SockHeld ==
  "sock" \in open <=>
    \/ \E r \in Runners : pc[r] \in {"filter", "probes", "publish"}
    \/ rawSock /\ \A p \in Goroutines : pc[p] # "take"

LinksHeld ==
  "links" \in open <=>
    \/ \E r \in Runners : pc[r] = "publish"
    \/ "links" \in fields
    \/ \E p \in Goroutines : pc[p] = "links" /\ "links" \in taken[p]

LinksTakenOnce ==
  \A p, q \in Goroutines :
    "links" \in taken[p] => "links" \notin fields /\ ("links" \in taken[q] => p = q)

ObjsHeld ==
  /\ "objs" \in open =>
       \E r \in Runners :
         \/ pc[r] \in (Opening \ {"load"}) \cup Keeping
         \/ pc[r] \in Releasing /\ "objs" \in taken[r]
  /\ \A r \in Runners : pc[r] \in Keeping => "objs" \in fields

\* What is published, the run itself takes if nobody else does.
RunTakes ==
  rawSock \/ "links" \in fields => \E r \in Runners : pc[r] \in Keeping

\* The socket and the links are opened once.
OpenedOnce ==
  \A x \in {"sock", "links"} :
    /\ closes[x] <= 1
    /\ x \in open => closes[x] = 0
    /\ ((\A r \in Runners : pc[r] = "idle")
          \/ \E r \in Runners : pc[r] \in {"load", "configure", "socket"}
                                  \cup (IF x = "links" THEN {"filter", "probes"} ELSE {}))
         => closes[x] = 0

\* The socket is closed under a running readLoop only after the cancellation.
ClosedByShutdown ==
  /\ \A p \in Stoppers : pc[p] \in {"close", "take"} \cup Releasing => cancelled
  /\ \A r \in Runners :
       /\ pc[r] \in Reading /\ (~rawSock \/ "sock" \notin open) => cancelled
       /\ pc[r] = "recvfrom" /\ ~fd => cancelled
       /\ pc[r] = "failed" => failed \/ cancelled

ErrorsAreFailures ==
  /\ err = "error" => failed
  /\ \A r \in Runners : pc[r] = "exit" => failed

IInv ==
  /\ Types /\ Exclusive /\ OneRun /\ Unpublished
  /\ SockHeld /\ LinksHeld /\ LinksTakenOnce /\ ObjsHeld /\ RunTakes
  /\ OpenedOnce /\ ClosedByShutdown /\ ErrorsAreFailures


-----------------------------------------------------------------------------
(* Each action keeps the invariant.                                        *)
USE ZabeeServerAssumption
USE DEF Opening, Reading, Locked, Releasing, NotRun, Keeping, Over, Pcs,
        Goroutines, Resources, At, Go

\* RunServe either starts the one run or returns.
LEMMA RunServeKeeps ==
  ASSUME IInv, NEW p \in Goroutines, RunServe(p)
  PROVE  IInv'
<1> USE DEF IInv, Types, RunServe, Gate, server, resources, outcome
<1>1. Types'
  OBVIOUS
<1>2. Exclusive' /\ OneRun' /\ Unpublished' /\ SockHeld'
  BY DEF Exclusive, OneRun, Unpublished, SockHeld
<1>3. LinksHeld' /\ LinksTakenOnce' /\ ObjsHeld' /\ RunTakes'
  BY DEF LinksHeld, LinksTakenOnce, ObjsHeld, RunTakes
<1>4. ClosedByShutdown' /\ ErrorsAreFailures'
  BY DEF ClosedByShutdown, ErrorsAreFailures
<1>5. OpenedOnce'
  BY DEF OpenedOnce, OneRun
<1> QED
  BY <1>1, <1>2, <1>3, <1>4, <1>5

\* The programs are loaded.
LEMMA LoadObjsKeeps ==
  ASSUME IInv, NEW p \in Goroutines, Make(p, "load", "configure", {"objs"})
  PROVE  IInv'
<1> USE DEF IInv, Types, Make, server, outcome
<1>1. Types'
  OBVIOUS
<1>2. Exclusive' /\ OneRun' /\ Unpublished' /\ LinksTakenOnce'
  BY DEF Exclusive, OneRun, Unpublished, LinksTakenOnce
<1>3. RunTakes' /\ ErrorsAreFailures'
  BY DEF RunTakes, ErrorsAreFailures
<1>4. SockHeld'
  BY DEF SockHeld, OneRun, Exclusive, Unpublished
<1>5. LinksHeld'
  BY DEF LinksHeld, OneRun, Exclusive, Unpublished
<1>6. ObjsHeld'
  BY DEF ObjsHeld, OneRun, Exclusive
<1>7. OpenedOnce'
  BY DEF OpenedOnce, OneRun, Exclusive, SockHeld, LinksHeld, Unpublished
<1>8. ClosedByShutdown'
  BY DEF ClosedByShutdown, OneRun
<1> QED
  BY <1>1, <1>2, <1>3, <1>4, <1>5, <1>6, <1>7, <1>8

\* Their maps are written.
LEMMA ConfigureKeeps ==
  ASSUME IInv, NEW p \in Goroutines, Make(p, "configure", "socket", {})
  PROVE  IInv'
<1> USE DEF IInv, Types, Make, server, outcome
<1>1. Types'
  OBVIOUS
<1>2. Exclusive' /\ OneRun' /\ Unpublished' /\ LinksTakenOnce'
  BY DEF Exclusive, OneRun, Unpublished, LinksTakenOnce
<1>3. RunTakes' /\ ErrorsAreFailures'
  BY DEF RunTakes, ErrorsAreFailures
<1>4. SockHeld'
  BY DEF SockHeld, OneRun, Exclusive, Unpublished
<1>5. LinksHeld'
  BY DEF LinksHeld, OneRun, Exclusive, Unpublished
<1>6. ObjsHeld'
  BY DEF ObjsHeld, OneRun, Exclusive
<1>7. OpenedOnce'
  BY DEF OpenedOnce, OneRun, Exclusive, SockHeld, LinksHeld, Unpublished
<1>8. ClosedByShutdown'
  BY DEF ClosedByShutdown, OneRun
<1> QED
  BY <1>1, <1>2, <1>3, <1>4, <1>5, <1>6, <1>7, <1>8

\* The socket is opened, for the first time.
LEMMA OpenSocketKeeps ==
  ASSUME IInv, NEW p \in Goroutines, Make(p, "socket", "filter", {"sock"})
  PROVE  IInv'
<1> USE DEF IInv, Types, Make, server, outcome
<1>1. Types'
  OBVIOUS
<1>2. Exclusive' /\ OneRun' /\ Unpublished' /\ LinksTakenOnce'
  BY DEF Exclusive, OneRun, Unpublished, LinksTakenOnce
<1>3. RunTakes' /\ ErrorsAreFailures'
  BY DEF RunTakes, ErrorsAreFailures
<1>4. SockHeld'
  BY DEF SockHeld, OneRun, Exclusive, Unpublished
<1>5. LinksHeld'
  BY DEF LinksHeld, OneRun, Exclusive, Unpublished
<1>6. ObjsHeld'
  BY DEF ObjsHeld, OneRun, Exclusive
<1>7. OpenedOnce'
  BY DEF OpenedOnce, OneRun, Exclusive, SockHeld, LinksHeld, Unpublished
<1>8. ClosedByShutdown'
  BY DEF ClosedByShutdown, OneRun
<1> QED
  BY <1>1, <1>2, <1>3, <1>4, <1>5, <1>6, <1>7, <1>8

\* The filter is attached.
LEMMA AttachFilterKeeps ==
  ASSUME IInv, NEW p \in Goroutines, Make(p, "filter", "probes", {})
  PROVE  IInv'
<1> USE DEF IInv, Types, Make, server, outcome
<1>1. Types'
  OBVIOUS
<1>2. Exclusive' /\ OneRun' /\ Unpublished' /\ LinksTakenOnce'
  BY DEF Exclusive, OneRun, Unpublished, LinksTakenOnce
<1>3. RunTakes' /\ ErrorsAreFailures'
  BY DEF RunTakes, ErrorsAreFailures
<1>4. SockHeld'
  BY DEF SockHeld, OneRun, Exclusive, Unpublished
<1>5. LinksHeld'
  BY DEF LinksHeld, OneRun, Exclusive, Unpublished
<1>6. ObjsHeld'
  BY DEF ObjsHeld, OneRun, Exclusive
<1>7. OpenedOnce'
  BY DEF OpenedOnce, OneRun, Exclusive, SockHeld, LinksHeld, Unpublished
<1>8. ClosedByShutdown'
  BY DEF ClosedByShutdown, OneRun
<1> QED
  BY <1>1, <1>2, <1>3, <1>4, <1>5, <1>6, <1>7, <1>8

\* The probes are attached, for the first time.
LEMMA AttachProbesKeeps ==
  ASSUME IInv, NEW p \in Goroutines, Make(p, "probes", "publish", {"links"})
  PROVE  IInv'
<1> USE DEF IInv, Types, Make, server, outcome
<1>1. Types'
  OBVIOUS
<1>2. Exclusive' /\ OneRun' /\ Unpublished' /\ LinksTakenOnce'
  BY DEF Exclusive, OneRun, Unpublished, LinksTakenOnce
<1>3. RunTakes' /\ ErrorsAreFailures'
  BY DEF RunTakes, ErrorsAreFailures
<1>4. SockHeld'
  BY DEF SockHeld, OneRun, Exclusive, Unpublished
<1>5. LinksHeld'
  BY DEF LinksHeld, OneRun, Exclusive, Unpublished
<1>6. ObjsHeld'
  BY DEF ObjsHeld, OneRun, Exclusive
<1>7. OpenedOnce'
  BY DEF OpenedOnce, OneRun, Exclusive, SockHeld, LinksHeld, Unpublished
<1>8. ClosedByShutdown'
  BY DEF ClosedByShutdown, OneRun
<1> QED
  BY <1>1, <1>2, <1>3, <1>4, <1>5, <1>6, <1>7, <1>8

\* Where a step of the load fails, the list of its error path is all that is
\* open, and its socket has not been closed yet.
LEMMA AbandonedIsAll ==
  ASSUME IInv, NEW p \in Goroutines, LoadFails(p)
  PROVE  /\ open \ Abandoned(pc[p]) = {}
         /\ Abandoned(pc[p]) \subseteq {"sock", "objs"}
         /\ "sock" \in Abandoned(pc[p]) => "sock" \in open
         /\ p \in Runners
<1> USE DEF IInv, Types, LoadFails, Abandoned
<1>1. p \in Runners
  BY DEF Exclusive
<1>2. \A r \in Runners : r # p => pc[r] \in NotRun
  BY <1>1 DEF OneRun
<1>3. ~rawSock /\ fields = {} /\ \A q \in Goroutines : taken[q] = {}
  BY <1>1 DEF Unpublished
<1>4. "links" \notin open
  BY <1>1, <1>2, <1>3 DEF LinksHeld
<1>5. "sock" \in open <=> pc[p] \in {"filter", "probes"}
  BY <1>1, <1>2, <1>3 DEF SockHeld
<1>6. pc[p] = "load" => "objs" \notin open
  BY <1>1, <1>2 DEF ObjsHeld
<1> QED
  BY <1>1, <1>4, <1>5, <1>6

\* A load that fails closes all that it has opened.
LEMMA LoadFailsKeeps ==
  ASSUME IInv, NEW p \in Goroutines, LoadFails(p)
  PROVE  IInv'
<1> USE DEF IInv, Types, LoadFails, Close, server, resources, outcome
<1>0. /\ open' = {} /\ Abandoned(pc[p]) \subseteq {"sock", "objs"}
      /\ "sock" \in Abandoned(pc[p]) => "sock" \in open
  BY AbandonedIsAll
<1>1. Types'
  <2>1. closes' \in [Resources -> Nat]
    OBVIOUS
  <2>2. pc' \in [Goroutines -> Pcs] /\ open' \subseteq Resources
    BY <1>0
  <2> QED
    BY <2>1, <2>2
<1>2. Exclusive' /\ OneRun' /\ Unpublished' /\ LinksTakenOnce'
  BY DEF Exclusive, OneRun, Unpublished, LinksTakenOnce
<1>3. ObjsHeld' /\ RunTakes' /\ ErrorsAreFailures'
  BY <1>0 DEF ObjsHeld, RunTakes, ErrorsAreFailures
<1>4. SockHeld'
  BY <1>0 DEF SockHeld, OneRun, Exclusive, Unpublished
<1>5. LinksHeld'
  BY <1>0 DEF LinksHeld, OneRun, Exclusive, Unpublished
<1>6. OpenedOnce'
  BY <1>0 DEF OpenedOnce, OneRun, Exclusive
<1>7. ClosedByShutdown'
  BY <1>0 DEF ClosedByShutdown, OneRun, Exclusive
<1> QED
  BY <1>1, <1>2, <1>3, <1>4, <1>5, <1>6, <1>7

\* What the run has opened becomes the Server's.
LEMMA PublishKeeps ==
  ASSUME IInv, NEW p \in Goroutines, Publish(p)
  PROVE  IInv'
<1> USE DEF IInv, Types, Publish, server, resources, outcome
<1>1. Types'
  OBVIOUS
<1>2. Exclusive' /\ OneRun' /\ ObjsHeld' /\ OpenedOnce'
  BY DEF Exclusive, OneRun, ObjsHeld, OpenedOnce
<1>3. ErrorsAreFailures'
  BY DEF ErrorsAreFailures
<1>4. Unpublished'
  BY DEF Unpublished, OneRun, Exclusive
<1>5. SockHeld'
  BY DEF SockHeld, OneRun, Exclusive
<1>6. LinksHeld'
  BY DEF LinksHeld, OneRun, Exclusive
<1>7. LinksTakenOnce'
  BY DEF LinksTakenOnce, Exclusive, Unpublished
<1>8. RunTakes'
  BY DEF RunTakes, Exclusive
<1>9. ClosedByShutdown'
  BY DEF ClosedByShutdown, OneRun, SockHeld
<1> QED
  BY <1>1, <1>2, <1>3, <1>4, <1>5, <1>6, <1>7, <1>8, <1>9

\* The test of the context.
LEMMA CheckContextKeeps ==
  ASSUME IInv, NEW p \in Goroutines, CheckContext(p)
  PROVE  IInv'
<1> USE DEF IInv, Types, CheckContext, Done, server, resources, outcome
<1>1. Types'
  OBVIOUS
<1>2. Exclusive' /\ OneRun' /\ Unpublished' /\ SockHeld'
  BY DEF Exclusive, OneRun, Unpublished, SockHeld
<1>3. LinksHeld' /\ LinksTakenOnce' /\ ObjsHeld' /\ RunTakes'
  BY DEF LinksHeld, LinksTakenOnce, ObjsHeld, RunTakes
<1>4. OpenedOnce' /\ ClosedByShutdown' /\ ErrorsAreFailures'
  BY DEF OpenedOnce, ClosedByShutdown, ErrorsAreFailures
<1> QED
  BY <1>1, <1>2, <1>3, <1>4

\* The descriptor is read without the mutex.
LEMMA ReadRawSockKeeps ==
  ASSUME IInv, NEW p \in Goroutines, ReadRawSock(p)
  PROVE  IInv'
<1> USE DEF IInv, Types, ReadRawSock, server, resources, outcome
<1>1. Types'
  OBVIOUS
<1>2. Exclusive' /\ OneRun' /\ Unpublished' /\ SockHeld'
  BY DEF Exclusive, OneRun, Unpublished, SockHeld
<1>3. LinksHeld' /\ LinksTakenOnce' /\ ObjsHeld' /\ RunTakes'
  BY DEF LinksHeld, LinksTakenOnce, ObjsHeld, RunTakes
<1>4. OpenedOnce' /\ ClosedByShutdown' /\ ErrorsAreFailures'
  BY DEF OpenedOnce, ClosedByShutdown, ErrorsAreFailures
<1> QED
  BY <1>1, <1>2, <1>3, <1>4

\* A packet, or nothing.
LEMMA ReceiveKeeps ==
  ASSUME IInv, NEW p \in Goroutines, Receive(p)
  PROVE  IInv'
<1> USE DEF IInv, Types, Receive, OwnSocket, server, resources, outcome
<1>1. Types'
  OBVIOUS
<1>2. Exclusive' /\ OneRun' /\ Unpublished' /\ SockHeld'
  BY DEF Exclusive, OneRun, Unpublished, SockHeld
<1>3. LinksHeld' /\ LinksTakenOnce' /\ ObjsHeld' /\ RunTakes'
  BY DEF LinksHeld, LinksTakenOnce, ObjsHeld, RunTakes
<1>4. OpenedOnce' /\ ClosedByShutdown' /\ ErrorsAreFailures'
  BY DEF OpenedOnce, ClosedByShutdown, ErrorsAreFailures
<1> QED
  BY <1>1, <1>2, <1>3, <1>4

\* An error of the socket itself.
LEMMA ReceiveFailsKeeps ==
  ASSUME IInv, NEW p \in Goroutines, ReceiveFails(p)
  PROVE  IInv'
<1> USE DEF IInv, Types, ReceiveFails, OwnSocket, server, resources, outcome
<1>1. Types'
  OBVIOUS
<1>2. Exclusive' /\ OneRun' /\ Unpublished' /\ SockHeld'
  BY DEF Exclusive, OneRun, Unpublished, SockHeld
<1>3. LinksHeld' /\ LinksTakenOnce' /\ ObjsHeld' /\ RunTakes'
  BY DEF LinksHeld, LinksTakenOnce, ObjsHeld, RunTakes
<1>4. OpenedOnce' /\ ClosedByShutdown' /\ ErrorsAreFailures'
  BY DEF OpenedOnce, ClosedByShutdown, ErrorsAreFailures
<1> QED
  BY <1>1, <1>2, <1>3, <1>4

\* A closed descriptor: only a Shutdown has closed it.
LEMMA ReceiveClosedKeeps ==
  ASSUME IInv, NEW p \in Goroutines, ReceiveClosed(p)
  PROVE  IInv'
<1> USE DEF IInv, Types, ReceiveClosed, OwnSocket, server, resources, outcome
<1>1. Types'
  OBVIOUS
<1>2. Exclusive' /\ OneRun' /\ Unpublished' /\ SockHeld'
  BY DEF Exclusive, OneRun, Unpublished, SockHeld
<1>3. LinksHeld' /\ LinksTakenOnce' /\ ObjsHeld' /\ RunTakes'
  BY DEF LinksHeld, LinksTakenOnce, ObjsHeld, RunTakes
<1>4. OpenedOnce' /\ ClosedByShutdown' /\ ErrorsAreFailures'
  BY DEF OpenedOnce, ClosedByShutdown, ErrorsAreFailures
<1> QED
  BY <1>1, <1>2, <1>3, <1>4

\* Another file's data.
LEMMA ReceiveElsewhereKeeps ==
  ASSUME IInv, NEW p \in Goroutines, ReceiveElsewhere(p)
  PROVE  IInv'
<1> USE DEF IInv, Types, ReceiveElsewhere, OwnSocket, server, resources, outcome
<1>1. Types'
  OBVIOUS
<1>2. Exclusive' /\ OneRun' /\ Unpublished' /\ SockHeld'
  BY DEF Exclusive, OneRun, Unpublished, SockHeld
<1>3. LinksHeld' /\ LinksTakenOnce' /\ ObjsHeld' /\ RunTakes'
  BY DEF LinksHeld, LinksTakenOnce, ObjsHeld, RunTakes
<1>4. OpenedOnce' /\ ClosedByShutdown' /\ ErrorsAreFailures'
  BY DEF OpenedOnce, ClosedByShutdown, ErrorsAreFailures
<1> QED
  BY <1>1, <1>2, <1>3, <1>4

\* An error without a cancellation is a failure.
LEMMA ReceiveFailedKeeps ==
  ASSUME IInv, NEW p \in Goroutines, ReceiveFailed(p)
  PROVE  IInv'
<1> USE DEF IInv, Types, ReceiveFailed, server, resources, outcome
<1>1. Types'
  OBVIOUS
<1>2. Exclusive' /\ OneRun' /\ Unpublished' /\ SockHeld'
  BY DEF Exclusive, OneRun, Unpublished, SockHeld
<1>3. LinksHeld' /\ LinksTakenOnce' /\ ObjsHeld' /\ RunTakes'
  BY DEF LinksHeld, LinksTakenOnce, ObjsHeld, RunTakes
<1>4. OpenedOnce' /\ ClosedByShutdown'
  BY DEF OpenedOnce, ClosedByShutdown
<1>5. ErrorsAreFailures'
  BY DEF ErrorsAreFailures, ClosedByShutdown, Exclusive
<1> QED
  BY <1>1, <1>2, <1>3, <1>4, <1>5

\* A call of Shutdown.
LEMMA CallShutdownKeeps ==
  ASSUME IInv, NEW p \in Goroutines, CallShutdown(p)
  PROVE  IInv'
<1> USE DEF IInv, Types, CallShutdown, server, resources, outcome
<1>1. Types'
  OBVIOUS
<1>2. Exclusive' /\ OneRun' /\ Unpublished' /\ SockHeld'
  BY DEF Exclusive, OneRun, Unpublished, SockHeld
<1>3. LinksHeld' /\ LinksTakenOnce' /\ ObjsHeld' /\ RunTakes'
  BY DEF LinksHeld, LinksTakenOnce, ObjsHeld, RunTakes
<1>4. OpenedOnce' /\ ClosedByShutdown' /\ ErrorsAreFailures'
  BY DEF OpenedOnce, ClosedByShutdown, ErrorsAreFailures
<1> QED
  BY <1>1, <1>2, <1>3, <1>4

\* The mutex is free, so nobody is in a critical section.
LEMMA LockKeeps ==
  ASSUME IInv, NEW p \in Goroutines, Lock(p)
  PROVE  IInv'
<1> USE DEF IInv, Types, Lock, NextStep, server, resources, outcome
<1>1. Types'
  OBVIOUS
<1>2. Exclusive' /\ OneRun' /\ Unpublished' /\ SockHeld'
  BY DEF Exclusive, OneRun, Unpublished, SockHeld
<1>3. LinksHeld' /\ LinksTakenOnce' /\ ObjsHeld' /\ RunTakes'
  BY DEF LinksHeld, LinksTakenOnce, ObjsHeld, RunTakes
<1>4. OpenedOnce' /\ ClosedByShutdown' /\ ErrorsAreFailures'
  BY DEF OpenedOnce, ClosedByShutdown, ErrorsAreFailures
<1> QED
  BY <1>1, <1>2, <1>3, <1>4

\* Only a Shutdown cancels.
LEMMA CancelKeeps ==
  ASSUME IInv, NEW p \in Goroutines, Cancel(p)
  PROVE  IInv'
<1> USE DEF IInv, Types, Cancel, NextStep, server, resources, outcome
<1>1. Types'
  OBVIOUS
<1>2. Exclusive' /\ OneRun' /\ Unpublished' /\ SockHeld'
  BY DEF Exclusive, OneRun, Unpublished, SockHeld
<1>3. LinksHeld' /\ LinksTakenOnce' /\ RunTakes' /\ OpenedOnce'
  BY DEF LinksHeld, LinksTakenOnce, RunTakes, OpenedOnce
<1>4. ClosedByShutdown' /\ ErrorsAreFailures'
  BY DEF ClosedByShutdown, ErrorsAreFailures
<1>5. ObjsHeld'
  BY DEF ObjsHeld, Exclusive
<1> QED
  BY <1>1, <1>2, <1>3, <1>4, <1>5

\* The socket that is closed is open and has not been closed before.
LEMMA CloseSockKeeps ==
  ASSUME IInv, NEW p \in Goroutines, CloseSock(p)
  PROVE  IInv'
<1> USE DEF IInv, Types, CloseSock, Close, NextStep, server, resources, outcome
<1>1. Types'
  OBVIOUS
<1>2. Exclusive' /\ OneRun' /\ Unpublished' /\ LinksHeld'
  BY DEF Exclusive, OneRun, Unpublished, LinksHeld
<1>3. LinksTakenOnce' /\ ObjsHeld' /\ RunTakes' /\ ErrorsAreFailures'
  BY DEF LinksTakenOnce, ObjsHeld, RunTakes, ErrorsAreFailures
<1>4. SockHeld'
  BY DEF SockHeld, Exclusive, Unpublished
<1>5. OpenedOnce'
  BY DEF OpenedOnce, SockHeld, Exclusive, Unpublished, RunTakes
<1>6. ClosedByShutdown'
  BY DEF ClosedByShutdown, Exclusive, OneRun
<1> QED
  BY <1>1, <1>2, <1>3, <1>4, <1>5, <1>6

\* The links pass to the goroutine that will close them.
LEMMA TakeKeeps ==
  ASSUME IInv, NEW p \in Goroutines, Take(p)
  PROVE  IInv'
<1> USE DEF IInv, Types, Take, Kept, server, resources, outcome
<1>1. Types'
  OBVIOUS
<1>2. Exclusive' /\ OneRun' /\ Unpublished' /\ SockHeld'
  BY DEF Exclusive, OneRun, Unpublished, SockHeld
<1>3. LinksHeld' /\ LinksTakenOnce' /\ ObjsHeld' /\ RunTakes'
  BY DEF LinksHeld, LinksTakenOnce, ObjsHeld, RunTakes
<1>4. OpenedOnce' /\ ErrorsAreFailures'
  BY DEF OpenedOnce, ErrorsAreFailures
<1>5. ClosedByShutdown'
  BY DEF ClosedByShutdown, OneRun
<1> QED
  BY <1>1, <1>2, <1>3, <1>4, <1>5

\* The links that were taken are open, and nobody else has them.
LEMMA CloseLinksKeeps ==
  ASSUME IInv, NEW p \in Goroutines, At(p, "links"), CloseTaken(p)
  PROVE  IInv'
<1> USE DEF IInv, Types, CloseTaken, Close, server, outcome
<1>1. Types'
  <2>1. pc' = [pc EXCEPT ![p] = "objs"] /\ open' = open \ (taken[p] \cap {"links"})
    OBVIOUS
  <2>2. \A x \in Resources : closes'[x] \in Nat
    OBVIOUS
  <2>3. closes' \in [Resources -> Nat]
    BY <2>2
  <2> QED
    BY <2>1, <2>3
<1>2. Exclusive'
  BY DEF Exclusive
<1>3. OneRun'
  BY DEF OneRun
<1>4. Unpublished'
  BY DEF Unpublished
<1>5. LinksTakenOnce'
  BY DEF LinksTakenOnce
<1>6. RunTakes'
  BY DEF RunTakes
<1>7. ErrorsAreFailures'
  BY DEF ErrorsAreFailures
<1>8. SockHeld'
  BY DEF SockHeld, OneRun
<1>9. LinksHeld'
  BY DEF LinksHeld, LinksTakenOnce, Unpublished, OneRun
<1>10. ObjsHeld'
  BY DEF ObjsHeld, OneRun, Exclusive
<1>11. OpenedOnce'
  BY DEF OpenedOnce, LinksHeld, Unpublished, OneRun
<1>12. ClosedByShutdown'
  BY DEF ClosedByShutdown, OneRun
<1> QED
  BY <1>1, <1>2, <1>3, <1>4, <1>5, <1>6, <1>7, <1>8, <1>9, <1>10, <1>11, <1>12

\* The objects are closed if they still are open.
LEMMA CloseObjsKeeps ==
  ASSUME IInv, NEW p \in Goroutines, At(p, "objs"), CloseTaken(p)
  PROVE  IInv'
<1> USE DEF IInv, Types, CloseTaken, Close, server, outcome
<1>1. Types'
  <2>1. pc' = [pc EXCEPT ![p] = IF p \in Runners THEN "ran" ELSE "returned"]
    OBVIOUS
  <2>2. \A x \in Resources : closes'[x] \in Nat
    OBVIOUS
  <2>3. closes' \in [Resources -> Nat]
    BY <2>2
  <2>4. open' \subseteq Resources
    OBVIOUS
  <2> QED
    BY <2>1, <2>3, <2>4
<1>2. Exclusive'
  BY DEF Exclusive
<1>3. OneRun'
  BY DEF OneRun
<1>4. Unpublished'
  BY DEF Unpublished
<1>5. LinksTakenOnce'
  BY DEF LinksTakenOnce
<1>6. RunTakes'
  BY DEF RunTakes
<1>7. ErrorsAreFailures'
  BY DEF ErrorsAreFailures
<1>8. SockHeld'
  BY DEF SockHeld, OneRun
<1>9. LinksHeld'
  BY DEF LinksHeld, LinksTakenOnce, Unpublished, OneRun
<1>10. ObjsHeld'
  BY DEF ObjsHeld, OneRun, Exclusive
<1>11. OpenedOnce'
  BY DEF OpenedOnce, LinksHeld, Unpublished, OneRun
<1>12. ClosedByShutdown'
  BY DEF ClosedByShutdown, OneRun
<1> QED
  BY <1>1, <1>2, <1>3, <1>4, <1>5, <1>6, <1>7, <1>8, <1>9, <1>10, <1>11, <1>12

\* The run ends the program only with an error.
LEMMA RunReturnsKeeps ==
  ASSUME IInv, NEW p \in Goroutines, RunReturns(p)
  PROVE  IInv'
<1> USE DEF IInv, Types, RunReturns, server, resources, outcome
<1>1. Types'
  OBVIOUS
<1>2. Exclusive' /\ OneRun' /\ Unpublished' /\ SockHeld'
  BY DEF Exclusive, OneRun, Unpublished, SockHeld
<1>3. LinksHeld' /\ LinksTakenOnce' /\ ObjsHeld' /\ RunTakes'
  BY DEF LinksHeld, LinksTakenOnce, ObjsHeld, RunTakes
<1>4. OpenedOnce' /\ ClosedByShutdown' /\ ErrorsAreFailures'
  BY DEF OpenedOnce, ClosedByShutdown, ErrorsAreFailures
<1> QED
  BY <1>1, <1>2, <1>3, <1>4

\* The steps of Load, and of CloseTaken, one by one.
LEMMA LoadKeeps ==
  ASSUME IInv, NEW p \in Goroutines, Load(p)
  PROVE  IInv'
BY LoadObjsKeeps, ConfigureKeeps, OpenSocketKeeps, AttachFilterKeeps,
   AttachProbesKeeps DEF Load

LEMMA CloseTakenKeeps ==
  ASSUME IInv, NEW p \in Goroutines, CloseTaken(p)
  PROVE  IInv'
<1>1. At(p, "links") \/ At(p, "objs")
  BY DEF CloseTaken
<1> QED
  BY <1>1, CloseLinksKeeps, CloseObjsKeeps

LEMMA StepKeeps ==
  ASSUME IInv, NEW p \in Goroutines, Step(p)
  PROVE  IInv'
BY LoadFailsKeeps, LoadKeeps, PublishKeeps, CheckContextKeeps, ReadRawSockKeeps,
   ReceiveKeeps, ReceiveFailsKeeps, ReceiveClosedKeeps, ReceiveElsewhereKeeps,
   ReceiveFailedKeeps, LockKeeps, CancelKeeps, CloseSockKeeps, TakeKeeps,
   CloseTakenKeeps, RunReturnsKeeps DEF Step

LEMMA InitHolds == Init => IInv
<1> SUFFICES ASSUME Init PROVE IInv
  OBVIOUS
<1> USE DEF Init
<1>1. Types
  BY DEF Types
<1>2. Exclusive /\ OneRun /\ Unpublished
  BY DEF Exclusive, OneRun, Unpublished
<1>3. SockHeld /\ LinksHeld /\ LinksTakenOnce
  BY DEF SockHeld, LinksHeld, LinksTakenOnce
<1>4. ObjsHeld /\ RunTakes
  BY DEF ObjsHeld, RunTakes
<1>5. OpenedOnce
  BY DEF OpenedOnce
<1>6. ClosedByShutdown /\ ErrorsAreFailures
  BY DEF ClosedByShutdown, ErrorsAreFailures
<1> QED
  BY <1>1, <1>2, <1>3, <1>4, <1>5, <1>6 DEF IInv

LEMMA NextKeeps == IInv /\ [Next]_vars => IInv'
<1> SUFFICES ASSUME IInv, [Next]_vars PROVE IInv'
  OBVIOUS
<1>1. CASE Next
  <2>1. PICK p \in Goroutines : Call(p) \/ Step(p)
    BY <1>1 DEF Next
  <2> QED
    BY <2>1, RunServeKeeps, CallShutdownKeeps, StepKeeps DEF Call
<1>2. CASE UNCHANGED vars
  BY <1>2 DEF vars, server, resources, outcome, IInv, Types, Exclusive, OneRun,
              Unpublished, SockHeld, LinksHeld, LinksTakenOnce, ObjsHeld, RunTakes,
              OpenedOnce, ClosedByShutdown, ErrorsAreFailures
<1> QED
  BY <1>1, <1>2

LEMMA Invariance == Spec => []IInv
BY InitHolds, NextKeeps, PTL DEF Spec

-----------------------------------------------------------------------------
(* The theorems.                                                           *)

(* When no call is under way any more nothing is open, whenever Shutdown   *)
(* came and whichever step of the load failed: what is open always has     *)
(* somebody who will close it.                                             *)
THEOREM LeavesNothing == Spec => []NothingLeft
<1>1. IInv => NothingLeft
  BY DEF IInv, Types, Exclusive, NothingLeft, SockHeld, LinksHeld, ObjsHeld, RunTakes
<1> QED
  BY <1>1, Invariance, PTL

(* cleanup and any number of Shutdowns close the socket and the links at   *)
(* most once between them.                                                 *)
THEOREM ClosesOnce == Spec => []ClosedOnce
<1>1. IInv => ClosedOnce
  BY DEF IInv, OpenedOnce, ClosedOnce
<1> QED
  BY <1>1, Invariance, PTL

(* RunServe calls zoc.Exit only after a failure, never because a Shutdown  *)
(* closed the socket under readLoop.                                       *)
THEOREM ExitsOnlyForCause == Spec => []ExitsForCause
<1>1. IInv => ExitsForCause
  BY DEF IInv, ErrorsAreFailures, ExitsForCause
<1> QED
  BY <1>1, Invariance, PTL
=============================================================================

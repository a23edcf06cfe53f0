------------------------------ MODULE ZabeeServer ------------------------------
(***************************************************************************)
(* The life of the capture server written in Go (zabee/handler.go and      *)
(* zabee/zwbee.go): RunServe loads the programs, opens the packet socket   *)
(* and reads it until the context is cancelled; Shutdown may be called at  *)
(* any time, by another goroutine.  What both touch is the Server behind   *)
(* mu, but readLoop reads s.rawSock without it, and what a critical        *)
(* section took over is closed after it.                                   *)
(*                                                                         *)
(* What a packet leads to is left out: handlePacket returns.               *)
(***************************************************************************)
EXTENDS Integers, FiniteSets

CONSTANTS
  Runners,   \* goroutines that call RunServe
  Stoppers,  \* goroutines that call Shutdown
  Nobody

ASSUME ZabeeServerAssumption ==
  Runners \cap Stoppers = {} /\ Nobody \notin Runners \cup Stoppers

Resources == {"sock", "links", "objs"}

VARIABLES
  pc,         \* where each goroutine is
  mu,         \* who holds the mutex
  started, closed, cancelled,
  rawSock,    \* whether s.rawSock >= 0
  fields,     \* which of s.links and s.objs are set
  taken,      \* per goroutine, what it has copied from them
  fd,         \* whether readLoop has read a descriptor from s.rawSock
  open,       \* the resources that are open
  closes,     \* how often each has been closed
  err,        \* what run returns: "none", "canceled" or "error"
  failed,     \* whether a call to the kernel has failed of itself
  strayed     \* whether readLoop has received from a file not its own

server    == <<started, closed, cancelled, rawSock, fields>>
resources == <<open, closes>>
outcome   == <<err, failed, strayed>>
vars      == <<pc, mu, server, taken, fd, resources, outcome>>

Goroutines == Runners \cup Stoppers

At(p, here) == pc[p] = here
Go(p, there) == pc' = [pc EXCEPT ![p] = there]

Close(gone) ==
  /\ open' = open \ gone
  /\ closes' = [r \in Resources |-> closes[r] + IF r \in gone THEN 1 ELSE 0]

-----------------------------------------------------------------------------
(* RunServe and loadBPF.                                                   *)
MutGate(p) == "load"

Gate(p) == IF started THEN "returned" ELSE "load"

\* Only the first call runs.
RunServe(p) ==
  /\ At(p, "idle") /\ p \in Runners /\ mu = Nobody
  /\ started' = TRUE
  /\ Go(p, Gate(p))
  /\ UNCHANGED <<mu, closed, cancelled, rawSock, fields, taken, fd, resources, outcome>>

MutAbandoned(here) ==
  CASE here = "load" -> {}
    [] here \in {"configure", "socket"} -> {"objs"}
    [] here \in {"filter", "probes"} -> {"sock"}

\* What the error path of each step of loadBPF closes, by its own list; the
\* probes that attachProbeLinks has attached it closes itself.
Abandoned(here) ==
  CASE here = "load" -> {}
    [] here \in {"configure", "socket"} -> {"objs"}
    [] here \in {"filter", "probes"} -> {"sock", "objs"}

LoadFails(p) ==
  /\ pc[p] \in {"load", "configure", "socket", "filter", "probes"}
  /\ Close(Abandoned(pc[p]))
  /\ err' = "error" /\ failed' = TRUE
  /\ Go(p, "ran")
  /\ UNCHANGED <<mu, server, taken, fd, strayed>>

Make(p, here, there, what) ==
  /\ At(p, here)
  /\ open' = open \cup what
  /\ Go(p, there)
  /\ UNCHANGED <<mu, server, taken, fd, closes, outcome>>

Load(p) ==
  \/ Make(p, "load", "configure", {"objs"})
  \/ Make(p, "configure", "socket", {})
  \/ Make(p, "socket", "filter", {"sock"})
  \/ Make(p, "filter", "probes", {})
  \/ Make(p, "probes", "publish", {"links"})

Publish(p) ==
  /\ At(p, "publish") /\ mu = Nobody
  /\ fields' = {"links", "objs"} /\ rawSock' = TRUE
  /\ Go(p, "check")
  /\ UNCHANGED <<mu, started, closed, cancelled, taken, fd, resources, outcome>>

-----------------------------------------------------------------------------
(* readLoop.                                                               *)
MutDone == FALSE

Done == cancelled

CheckContext(p) ==
  /\ At(p, "check")
  /\ IF Done THEN Go(p, "lock") /\ err' = "canceled"
     ELSE Go(p, "read") /\ UNCHANGED err
  /\ UNCHANGED <<mu, server, taken, fd, resources, failed, strayed>>

ReadRawSock(p) ==
  /\ At(p, "read")
  /\ fd' = rawSock
  /\ Go(p, "recvfrom")
  /\ UNCHANGED <<mu, server, taken, resources, outcome>>

OwnSocket == fd /\ "sock" \in open

\* A packet, which is handled, EINTR, or EAGAIN and a sleep.
Receive(p) ==
  /\ At(p, "recvfrom") /\ OwnSocket
  /\ Go(p, "check")
  /\ UNCHANGED <<mu, server, taken, fd, resources, outcome>>

\* Another error, as ENETDOWN when the interface goes down.
ReceiveFails(p) ==
  /\ At(p, "recvfrom") /\ OwnSocket
  /\ failed' = TRUE
  /\ Go(p, "failed")
  /\ UNCHANGED <<mu, server, taken, fd, resources, err, strayed>>

\* The descriptor is closed: EBADF.
ReceiveClosed(p) ==
  /\ At(p, "recvfrom") /\ ~OwnSocket
  /\ Go(p, "failed")
  /\ UNCHANGED <<mu, server, taken, fd, resources, outcome>>

\* The descriptor was closed and its number is in use again.
ReceiveElsewhere(p) ==
  /\ At(p, "recvfrom") /\ fd /\ ~OwnSocket
  /\ strayed' = TRUE
  /\ Go(p, "check")
  /\ UNCHANGED <<mu, server, taken, fd, resources, err, failed>>

\* An error is none when the context is cancelled.
ReceiveFailed(p) ==
  /\ At(p, "failed")
  /\ err' = IF cancelled THEN "canceled" ELSE "error"
  /\ Go(p, "lock")
  /\ UNCHANGED <<mu, server, taken, fd, resources, failed, strayed>>

-----------------------------------------------------------------------------
(* cleanup and Shutdown.                                                   *)
CallShutdown(p) ==
  /\ At(p, "idle") /\ p \in Stoppers
  /\ Go(p, "lock")
  /\ UNCHANGED <<mu, server, taken, fd, resources, outcome>>

MutNext(p, here) ==
  CASE here = "lock" -> "close" [] here = "close" -> IF p \in Stoppers THEN "cancel" ELSE "take"
    [] here = "cancel" -> "take"

\* What a critical section does next: only Shutdown cancels, and it does so
\* before it closes the socket.
NextStep(p, here) ==
  CASE here = "lock" -> IF p \in Stoppers THEN "cancel" ELSE "close"
    [] here = "cancel" -> "close"
    [] here = "close" -> "take"

Lock(p) ==
  /\ At(p, "lock") /\ mu = Nobody
  /\ IF p \in Stoppers /\ closed
     THEN Go(p, "returned") /\ UNCHANGED <<mu, closed>>
     ELSE /\ Go(p, NextStep(p, "lock"))
          /\ mu' = p
          /\ closed' = (closed \/ p \in Stoppers)
  /\ UNCHANGED <<started, cancelled, rawSock, fields, taken, fd, resources, outcome>>

Cancel(p) ==
  /\ At(p, "cancel")
  /\ cancelled' = TRUE
  /\ Go(p, NextStep(p, "cancel"))
  /\ UNCHANGED <<mu, started, closed, rawSock, fields, taken, fd, resources, outcome>>

CloseSock(p) ==
  /\ At(p, "close")
  /\ Close(IF rawSock THEN {"sock"} ELSE {})
  /\ Go(p, NextStep(p, "close"))
  /\ UNCHANGED <<mu, server, taken, fd, outcome>>

MutKept == fields

\* s.objs stays, so that its Close may be called twice: the library's objects
\* know that they are closed.
Kept == fields \ {"links"}

\* s.rawSock and s.links are reset and the mutex is released.
Take(p) ==
  /\ At(p, "take")
  /\ rawSock' = FALSE
  /\ taken' = [taken EXCEPT ![p] = fields]
  /\ fields' = Kept
  /\ mu' = Nobody
  /\ Go(p, "links")
  /\ UNCHANGED <<started, closed, cancelled, fd, resources, outcome>>

CloseTaken(p) ==
  \/ /\ At(p, "links")
     /\ Close(taken[p] \cap {"links"})
     /\ Go(p, "objs")
     /\ UNCHANGED <<mu, server, taken, fd, outcome>>
  \/ /\ At(p, "objs")
     /\ Close(taken[p] \cap {"objs"} \cap open)
     /\ Go(p, IF p \in Runners THEN "ran" ELSE "returned")
     /\ UNCHANGED <<mu, server, taken, fd, outcome>>

\* RunServe returns, or calls zoc.Exit.
RunReturns(p) ==
  /\ At(p, "ran")
  /\ Go(p, IF err = "error" THEN "exit" ELSE "returned")
  /\ UNCHANGED <<mu, server, taken, fd, resources, outcome>>

-----------------------------------------------------------------------------
Init ==
  /\ pc = [p \in Goroutines |-> "idle"]
  /\ mu = Nobody
  /\ started = FALSE /\ closed = FALSE /\ cancelled = FALSE /\ rawSock = FALSE
  /\ fields = {} /\ taken = [p \in Goroutines |-> {}]
  /\ fd = FALSE
  /\ open = {} /\ closes = [r \in Resources |-> 0]
  /\ err = "none" /\ failed = FALSE /\ strayed = FALSE

Call(p) == RunServe(p) \/ CallShutdown(p)

Step(p) ==
  \/ LoadFails(p) \/ Load(p) \/ Publish(p)
  \/ CheckContext(p) \/ ReadRawSock(p)
  \/ Receive(p) \/ ReceiveFails(p) \/ ReceiveClosed(p) \/ ReceiveElsewhere(p)
  \/ ReceiveFailed(p)
  \/ Lock(p) \/ Cancel(p) \/ CloseSock(p) \/ Take(p) \/ CloseTaken(p)
  \/ RunReturns(p)

Next == \E p \in Goroutines : Call(p) \/ Step(p)

Spec == Init /\ [][Next]_vars

\* Goroutines are scheduled, and Recvfrom, on a socket that does not block,
\* and handlePacket return.  Nobody has to call anything.
FairSpec == Spec /\ \A p \in Goroutines : WF_vars(Step(p))

-----------------------------------------------------------------------------
Over == {"idle", "returned", "exit"}

(* When no call is under way any more nothing is open: what a Shutdown     *)
(* before or in the middle of loadBPF could not close, run closes itself,  *)
(* and so does a load that fails half way.                                 *)
NothingLeft == (\A p \in Goroutines : pc[p] \in Over) => open = {}

(* The socket and the links are closed at most once, though cleanup and    *)
(* any number of Shutdowns race for them: a second close could hit a file  *)
(* that has got the same number.                                           *)
ClosedOnce == closes["sock"] <= 1 /\ closes["links"] <= 1

(* RunServe ends the program only for a failure of its own: the error that *)
(* readLoop gets because Shutdown closed its socket is never taken for one.*)
ExitsForCause == (\E p \in Runners : pc[p] = "exit") => failed

(* After Shutdown the server stops, wherever run was when it came.         *)
Stops == \A p \in Runners : closed /\ pc[p] # "idle" ~> pc[p] \in Over

(* readLoop never receives from another file.                              *)
OwnFileOnly == ~strayed
=============================================================================

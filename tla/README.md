# A TLA+ model of zobee

## 1. The system and its parts

zobee captures HTTP/HTTPS traffic on a host and prints one JSON line per
request or response, labelled with the process that owns the socket.

| Component | Source | State | Operations |
|---|---|---|---|
| Kernel capture filter | `ebpf/ebpf_capture.c` 403-718 | `tracked_flow_map` (LRU), `capture_config_map`, `pcap_insns` | `capture_prog` on every frame, on any CPU |
| Classic BPF interpreter | `ebpf/ebpf_capture.c` 168-285 | registers `a`, `x`, `pc` | `run_pcap_rules` |
| Owner probes | `ebpf/ebpf_capture.c` 287-401 | `flow_owner_map` (LRU) | kprobes on connect, accept, sendmsg |
| Flow table | `ebpf/zwbee.c` 511-582, 2258-2293 | flow buckets, `flow_count`, `last_seen_ms`, `last_gc_ms` | `flow_find`, `flow_get`, `flow_gc` |
| Flow buffers and the TCP parser | `ebpf/zwbee.c` 398-457, 1275-1895, 2101-2138, 2562-2703 | per flow: `tcp_buffer`, `tls_emitted`, `domain` | `process_tcp_flow` and the parsers it calls |
| Owner resolution | `ebpf/zwbee.c` 779-1235, 2562-2613 | socket cache, per flow `pid` | `rebuild_socket_cache`, `resolve_packet_meta` |
| User-space filters | `ebpf/zwbee.c` 584-716, 2726-2749, 2791-2884 | `src_rules`, `dst_rules` | `parse_cidr_list`, `cidr_set_accepts`, `packet_matches_filters` |
| Frame parser | `ebpf/zwbee.c` 2140-2246 | none | `parse_packet` |
| QUIC path | `ebpf/zwbee.c` 1670-1723, 2705-2724 | none | `process_udp_packet` |
| Start-up and main loop | `ebpf/zwbee.c` 2295-2318, 2886-3098 | socket, BPF object, links, `exiting` | `main`, `drain_packet_socket` |
| Rule compiler | `ebpf/zwbee.c` 2398-2560 | child `tcpdump`, pipe | `compile_pcap_rules`, `configure_capture_program` |
| Go supervisor | `zobee/handler.go`, `zobee/unix.go` | `proc`, `closer`, pipe | `RunServe`, `Shutdown`, `scanToHook` |
| Go capture server | `zabee/handler.go`, `zabee/zwbee.go` | `started`, `closed`, `rawSock`, `links`, `objs` | `RunServe`, `run`, `Shutdown`, `cleanup` |

What both servers and both programs share is the packet path: `handle_packet`
leads one packet through the owner lookup, the filters, the flow table and the
parsers.  The other parts keep no state between calls or only format and build: the
TLS and header field parsers (`zwbee.c` 1275-1645), JSON output (1898-2099),
the Go rule compilers (`zabee/pcap_compile_*.go`), the hooks' writers
(`zobee/handler.go` 74-121), the entry points and the build files.

### How the parts interact

```
 processes --connect/accept/sendmsg--> probes --> flow_owner_map --+
 frames --> capture_prog (tracked_flow_map, config) --> socket queue|
                                                     |             |
                 main loop: poll, drain_packet_socket v            |
                     handle_packet --> parse_packet --> resolve_packet_meta --> /proc
                                   --> packet_matches_filters
                                   --> process_tcp_flow --> flow table, flow buffers
                                                        --> one JSON line on stdout
 Go supervisor: starts zwbee, scans the lines from a pipe, calls the hook
```

zwbee has one thread. At its start it has a child for a moment, `tcpdump`, at the
other end of a pipe. It shares memory only with the kernel side: the maps that
the probes and `capture_prog` write on any CPU, and the socket's queue. The Go
supervisor has three concurrent parties (`RunServe`, the goroutine that waits
for the child, `Shutdown`) that share `hdl.closer` and `hdl.proc` without a
lock, and the child at the other end of a pipe. The Go capture server has two
(`RunServe`, `Shutdown`) that share the socket, the links and the objects behind a
mutex, which `readLoop` does not take.

### What is hard

* The network cuts a stream anywhere, and loses and repeats segments; flow
  state outlives connections; the parser finds the next message only by its own
  idea of where the last one ended.
* Frames arrive from `socket()` on, while the start goes on step by step and
  each step may fail; Ctrl-C may come at any instant.
* /proc is read process by process, then table by table, while processes open,
  hand over and close sockets; a captured packet is older than what is read.
* The flow table evicts and sweeps with a clock read before a slow rescan and
  time stamps read after it.
* The scanner, the waiting goroutine and `Shutdown` race, and the child blocks
  when nobody reads.
* A conversation is two keys in a map that every CPU writes and that forgets.
* Rules go through a child, a pipe, a text, two maps and an interpreter of their own
  before they judge a frame; `capture_prog` and `parse_packet` walk the same headers
  with different loops.
* `Shutdown` may come while the Go capture server opens what it should close.

`PROJECT.json` lists each of these as a hazard at the line where it bites, with the
properties that cover it in their runs, or with the reason why none does; section 3
names the configurations that show some of the latter.

## 2. Modules

| Module | Models | Proofs |
|---|---|---|
| `FlowTable` | the table of flows: insertion, eviction, sweep | `FlowTableProofs` |
| `ExchangeLog` | what is owed to the reader of the records of one connection (abstract) | |
| `TcpStream` (refines `ExchangeLog`) | the two flow buffers of a connection, the TLS search and the HTTP loop | `TcpStreamProofs` |
| `Filters` | the command line's filters and their judgement of a packet | `FiltersProofs` |
| `CaptureProcess` | start-up with its error paths, poll and drain loop, Ctrl-C | `CaptureProcessProofs` |
| `OwnerResolve` | probes, /proc snapshot, lookups, owners in flows | `OwnerResolveProofs` |
| `Supervisor` | the Go server that runs zwbee | `CaptureProcessProofs`, second part |
| `PcapVM` | the interpreter of classic BPF | |
| `RuleCompiler` (extends `PcapVM`) | the child tcpdump, its pipe and the reader of its output | |
| `FrameHeaders` | the header walks of `capture_prog` and `parse_packet`, the signatures | |
| `KernelFilter` (extends `RuleCompiler`, `FrameHeaders`) | from `-pcap-rules` to the verdict on a frame | `KernelFilterProofs` |
| `PacketPath` (refines `FlowTable`) | one packet from the owner lookup to the sweep, on the hash table | `PacketPathProofs` |
| `ZabeeServer` | the life of the Go capture server | `ZabeeServerProofs` |

`MC...` modules give the constants of the instances that TLC checks. A
definition named `Mut...` restates the one that follows it with a mistake of
the kind the code could have; no behaviour uses it.

**FlowTable.** `seen` is the set of entries of `flows[]`, each with
`last_seen_ms`; `count` is `flow_count`, `lastGc` is `last_gc_ms`. One step is
one call of `handle_packet`: `flow_get` with its eviction (or a failing
`calloc`), the time stamp, then the sweep with `now - 120000ULL`. The two
readings of the clock in one call are two numbers. Hash buckets are abstracted
(`PacketPath` has them, and implements this table); which of equally old entries goes
first is left open.

**TcpStream.** Bytes are abstracted to units that the parsers tell apart: start
line, end of header, body unit, chunk, last chunk, TLS record head and tail. A
segment is any run of units, so messages are cut at every place that matters.
Content-Length is an `int` and wraps beyond `IntMax`.
`Deliver` is a call of `process_tcp_flow` up to its HTTP loop, `ParseOne` a
round of the loop, `Leave` its end. `Lose`, `Retransmit`, `PaddedAck`, `Forget`
and `Reuse` are what goes wrong on the way. `domain`, `tls` and `buf` are the
fields of the two flows; `out` is what is emitted. `Scripted` says of `Conversations`
that each is a sequence of whole messages in order (the last may be cut short); it is
no part of the program, and `MCTcpStream` has it as an ASSUME for the theorems.

**ExchangeLog.** `passed` is the set of messages that have wholly been captured, per
direction, `log` the reports. A packet completes any number of messages (`Packet`);
until it has been handled (`Leave`) the first message that is due is reported, whole
and under a name that `Fits`: its own, or for a response that of its request or of
one pipelined behind it. `Hello` is a packet whose only report is a TLS hello.
`TcpStream` maps its units to `passed` (`Arrived`) and its records to `log` (`Entries`).

**Filters.** `AddRules`, `SetFilter`, `SetProcFilter` and `Refuse` are the rounds of
`parse_args`; `Cast` is the cut of `-pid` and `-cpid` to a `pid_t`, modulo `PidMod`.
Then `HandlePacket` judges packets by `packet_matches_filters`, with the loops of
`cidr_match_v4`, `cidr_match_v6` and `cidr_set_accepts` as operators. Widths of bytes
and addresses are parameters.

**CaptureProcess.** `pc` goes through the steps of `main` and
`open_and_attach_bpf` (`Order`); each may fail with its own list of what to give
back (`Undone`). Then `LoopTest`, `CallPoll`, `PollReady`, `PollIdle`, the drain
loop and `Exit`. The kernel queues frames from `socket()` on, judged by
`capture_prog` or not. Giving back is one step (`GiveBack`), although the code gives
back the socket after the probes: no frame is handled any more in between.

**OwnerResolve.** The host's processes listen, connect, accept, send, share and
close sockets; the probes update `recorded` (`flow_owner_map`), which may forget
anything. `Handle` is a packet that is found, `Rebuild` one that makes zwbee
read /proc: `ReadProcess` for one process after the other, `Reset`, `ReadTables`,
`LookAgain`, with the host going on in between. `Attribute` is the owner part of
`process_tcp_flow`. The history variable `held` is who ever had a socket where.
A packet may be one that was captured long ago, so any packet may come at any
time. TCP and one address family; the fields of an owner are its pid.

**Supervisor.** `RunServe` is split at each statement another party can see;
so are the test, the use and the clearing of `hdl.closer` in the goroutine and
in `Shutdown`. Interfaces are two words in Go, so a torn read is one of the
outcomes of `CloseOrPanic`. The panic ends the program: `PanicNeedsBoth` says who
must have raced for it, `PipeFollowsChild` what has become of the pipe whoever was
overtaken. `keeps` is whether the process library leaves the
pipe's write end open in this process, which this repository does not say.

**PcapVM.** `Execute` is one instruction of `run_pcap_rules`, `RunPcapRules` the
bounded loop. Registers and the program counter wrap at `Word`; a byte is two
nibbles and a word four bytes, of `NibbleBits` each. Opcodes that the interpreter
does not know are one `other`.

**RuleCompiler.** The parent is at `step`: `pipe`, `fork`, `open`, `read`, `close`,
`wait`, `compiled`; the actions are the blocks of `compile_pcap_rules`, and one
line that `parse_tcpdump_bpf_output` reads. The child prints a line at a time, may
be killed at any time, and dies of SIGPIPE; the pipe holds `PipeLines` lines.

**FrameHeaders.** A frame is its headers and lengths; `KernelPayload` and
`ParsedPayload` are where the two walks find the payload, `{}` where they find none.
`HasSignature` is the scan of the first 64 bytes.

**KernelFilter.** Composes the three: `WriteInsn`, `WriteConfig` and `Attach` follow
the compiler, then any CPU judges any frame (`Capture`). The update of
`tracked_flow_map` is two steps, `StoreFirst` and `StoreReverse`, with other CPUs
in between; it may push out any key, or fail. `CaptureProcess` has the same
start-up with its other steps and this program as one judgement.

**PacketPath.** The table is `chains` by `Hash`: `flow_find`, the victim's search
through all buckets, the insertion at the head, the sweep. A packet carries one of
the keys and what `resolve_packet_meta` found, which is nobody or a process that has
had the socket (the result of `OwnerResolve`). `record` is the packet handled last,
with the process that its records name. UDP packets have no flow.

**ZabeeServer.** Each goroutine is at `pc`; `mu` is the mutex. `Publish` and the
statements between `Lock` and `Take` are critical sections, `ReadRawSock` and
`Receive...` are not. `open` and `closes` follow the socket, the links and the
objects; `taken` is what a critical section copied to close later, `Abandoned` what
the error path of each step of `loadBPF` closes by its own list. The library's
objects know that they are closed, the others do not.

## 3. Runs

| Run | Bounds | What it shows |
|---|---|---|
| `flow_table` | 3 keys, table of 2, idle time, sweep interval and lag of a few ms | the count is exact, the table bounded, sweeps complete, and only idle or oldest entries are dropped; never the one just handled |
| `tcp_pipelined` | three pipelined exchanges with every kind of body, and a TLS handshake; segments of up to 5 units | every message is reported whole and as soon as it is complete; nothing complete stays behind; no response under the name of an earlier exchange; all of it together implements `ExchangeLog` |
| `tcp_faults` | two faults of any kind, buffer of 4 units, packets of 3 | buffers keep their size, also behind a Content-Length beyond the largest `int`; reports go backwards only by a retransmission |
| `tcp_no_limit` (violation) | `-max-body-size` -1, its default | a message is consumed before its body is there |
| `filters` | two arguments, addresses of 2 and 3 bytes of 2 bits, every address of the first family | a denied network never passes, prefixes match exactly |
| `filters_allow` (violation) | the same | a list of allowed networks rejects nothing |
| `capture_process` | queue of 2, three frames or errors | clean exit, order of the start, queued frames are handled, Ctrl-C ends the program |
| `owner_resolve` | 2 processes, 2 sockets made, both ends on the loopback, three of its four packets captured | a packet is never put down to a process that never had its port |
| `supervisor` | pipe of 2 lines, 4 lines, `Shutdown` at any time, lines of any length | the pipe's read end is closed under a running child only by `Shutdown`, and is always closed once the goroutine is done; nil is called only when the goroutine and `Shutdown` race for the closer, `RunServe` returns, the child does not block while it is scanned, `Shutdown` ends the child |
| `kernel_filter` | bytes of 2 bits, 7 instructions, seven texts, a pipe of 2 lines, 2 CPUs, an LRU of 4 keys, 5 frames for the rules and 9 for the headers | only a whole program is accepted, the start is decided, the interpreter agrees with what the rules mean, a frame passes because its own conversation spoke, both halves of it pass, and what passes parses |
| `packet_path` | a loopback connection (4 keys), 2 chains, 2 places, owners found or not, `-pid` absent, 0 or 2 | the hash table implements `FlowTable`; records name only the process asked for, and never that of the other end |
| `zabee_server` | two calls of `RunServe`, two of `Shutdown`, every failure | nothing is left open, nothing is closed twice, only a failure ends the program, `Shutdown` stops the server |

**Why the bounds are enough.** What each module compares is small: a table that
is full, a message that ends inside or at the end of a segment, a queue with one
or more frames, a prefix that ends inside or between bytes. Every bound is one
more than the least at which the case happens (an eviction needs 2 entries and a
third key; a step of the parser needs two messages in a buffer). Two sockets
suffice for the misattributions the lookups can make, since each joins one packet
with one socket; the theorem of section 4 has no bound. Three of four keys share a
chain in `packet_path`, so that a victim may be first, last or alone in its chain.
In `kernel_filter` a text is longer than the pipe, one has more instructions than
the map, offsets wrap in 8-bit words, and two conversations fill the LRU map that a
third overflows. A third call of `RunServe` or `Shutdown` returns at the first test.

**Deadlock** is not checked where the system really stops: a program that has
exited, an exchange that is over, a command line that was judged. `FlowTable`
stops at the bound of its clock, `OwnerResolve` only when nothing can happen.

**Fairness.** `FairSpec` of `CaptureProcess` is weak fairness of the program's
steps: the scheduler runs it and `poll` times out after a second. No failure is
fair, nor is a frame or Ctrl-C. `FairServerSpec` of `Supervisor` is weak fairness of
each goroutine, and of the death of a child that was signalled (the library
waits for it, and zwbee does not catch SIGTERM); nothing is
assumed of a child that was not, or of whether `Shutdown` is called.
`FairFilterSpec` of `KernelFilter` schedules zwbee and tcpdump, and lets system calls
return; that tcpdump is killed is not fair, and frames are not. `FairSpec` of
`ZabeeServer` schedules each goroutine once it was called; its socket does not
block, so `Recvfrom` returns. The other modules have no liveness properties: their
steps are calls that return.

**Refinement.** `PacketPath` implements `FlowTable` (`ImplementsFlowTable`): `seen` is
the set of flows in all chains with their times, the rest is the same. A packet that
the filter rejects, and a UDP packet between two sweeps, are steps without effect on
the table. `TcpStream` implements `ExchangeLog` (`ImplementsLog`): every delivered
segment is a packet, every round of the HTTP loop a report, and what is cut, buffered
and parsed in between is not seen.

### Configurations kept beside the runs

These have counterexamples too. They are for reading traces: `tlc -config X.cfg M`.

| Configuration, module | Property | Trace |
|---|---|---|
| `MCTcpPadding`, `MCTcpStream` | `Prompt` | the padding of a minimum-size frame enters the flow buffer, although `zwbee.c:2143` says that only the payload is kept; the message behind it never parses |
| `MCTcpHead`, `MCTcpStream` | `Prompt` | the answer to HEAD waits for a body that never comes (`zwbee.c:1819`) |
| `MCTcpOverflow`, `MCTcpStream` | `Drained` | after a message larger than the buffer, complete messages behind its rest stay unreported (`zwbee.c:2665`) |
| `MCTcpBorrowed`, `MCTcpStream` | `NamedAfterRequest` | a pipelined request without a Host takes the name its peer flow has from an earlier response, and gives it to the response of another exchange (`zwbee.c:2676`) |
| `MCTcpReuse`, `MCTcpStream` | `Drained` | `tls_emitted` survives its connection: the next ClientHello on the same ports is not looked for (`zwbee.c:2620`) |
| `MCTcpLong`, `MCTcpStream` | `WholeRecords` | a Content-Length beyond `int` wraps: the message ends where it does not (`zwbee.c:1341`) |
| `MCFlowTableBoot`, `MCFlowTable` | `OnlyIdleOrOldestDropped` | started before the machine is up for two minutes, `now - 120000ULL` wraps and a sweep drops live flows, although `zwbee.c:567` speaks of expired ones |
| `MCFiltersOwner`, `MCFilters` | `OwnerKnown` | `-crid 0` accepts packets without an owner (`zwbee.c:2740`) |
| `MCCaptureStart`, `MCCaptureProcess` | `HandlesWanted` | a frame queued between `socket()` and the filter is handled whatever the options say, although `ebpf/readme.md:43` has `capture_prog` judge them |
| `MCCaptureFlood`, `MCCaptureProcess` | `InterruptStops` | the drain loop never looks at `exiting` while frames keep coming |
| `MCOwnerForgets`, `MCOwnerResolve` | `KeepsOwner` | a flow that knows its owner reports a packet without one, although `zwbee.c:2581` says that it is reused |
| `MCSupervisorLong`, `MCSupervisor` | `ScansUntilEnd` | a line above 64 KiB ends the scan while the child still writes, although `handler.go:209` says until the process exits or the pipe is closed |
| `MCSupervisorEarly`, `MCSupervisor` | `NoChildLeft` | `Shutdown` before `RunServe` leaves the child running |
| `MCKernelShift`, `MCKernelFilter` | `RulesAgree` | rules that need an instruction beyond the interpreter's subset (a shift, as for `tcp[12] >> 2`) are accepted and drop every frame, although `zwbee.c:2456` speaks of tcpdump's expressions |
| `MCPacketWidePid`, `MCPacketPath` | `AsAsked` | `-pid` is cut to a `pid_t`: records name another process than the number given |
| `MCPacketKey`, `MCPacketPath` | `SameKey` | with an owner found for one packet only, two records of one connection have two keys, although `zwbee.c:336` promises one |
| `MCZabeeStray`, `ZabeeServer` | `OwnFileOnly` | `readLoop` reads `s.rawSock` without the mutex; the descriptor may be another file's when it receives |

## 4. Proofs

Each theorem holds for every value of the constants that satisfies the named
assumptions of its module, and the hypotheses that its statement has. The form is
always the same: `Init => IInv`, `IInv /\ [Next]_vars => IInv'` with a lemma per
action, `IInv => property`.

* **FlowTable**: `TypeCorrect`, `CountsExactly`, `TableBounded`, `SweepsComplete`.
  `IInv` adds to the types that `count` is the number of entries; eviction and sweep
  decrement a number that could otherwise stop at 0. `DropsOnlyIdleOrOldest` and
  `HandledFlowStays` need `BootMs >= IdleMs`: `MCFlowTableBoot` shows what happens
  without it.
* **PacketPath**: `ChainsImplementTable`, `RecordsWanted`, `RecordsNameOwnEnd`. The
  refinement maps the chains to the table of `FlowTable`: every step is a step of the
  table or a stutter. Its invariant is that a key is in one chain at most, the one its
  hash names, and once there, and that `count` is the number of keys in all chains;
  only so does the search of one chain answer for the table, and the search for a
  victim through all chains find the oldest of all. `Hash` is any function into the
  buckets; the sweep of a chain is a recursive function, which is first shown to
  exist (`KeptDefined`).
* **TcpStream**: `TypeCorrect` (with the buffers' bound), `BodiesWithinLimit` and
  `ConsumedBound`, under all faults and for all conversations. The others in turn:
  * `ReportsInOrder`, under all faults, for `Scripted` conversations. A *trail* is the
    places in the stream of the records written, followed by those of what lies in the
    buffer. `OInv` says that a trail falls into at most `resent + 1` epochs, in each of
    which places grow, and that everything in it stands before what is still to be sent.
    Dropping (overflow, `Forget`, a parsed body)
    leaves part of a trail, which has no more epochs.
  * `RecordsAreWhole`, for `Undisturbed`: segments are neither lost nor repeated, every
    body's length is told, there is no limit on bodies, and a segment fits in a packet.
    Flows may still be forgotten and the buffer overflow. `WInv` says that a buffer is
    a run of its stream that ends where the stream was sent to. A message begins only at
    a `start` or `rec` unit, so what parses at the front of such a run is a message with
    all of its units. `WalkDefined` and `WalkFinds` say of the recursive walk over TLS
    records that it stops only at a whole record.
  * `ReportsAreInTime` and `NothingLeftBehind`, for `Unforgotten`: moreover no flow is
    forgotten, both ends speak HTTP or both TLS, and the buffer has room for a segment
    behind the largest message that is not complete (`MCTcpOverflow` shows why). For
    HTTP, `PInv` says that the buffer starts where a message starts, that every message
    that ended before it is reported, and that only the buffer being parsed holds a
    whole message. For TLS (`Secured`: a direction has at most one hello, among the
    first `WalkMax` records) `TInv` says that the hello is reported and lies before the
    buffer once `tls_emitted` is set, and that until then the buffer holds all that
    came and not the whole hello. It rests on `WalkReaches`: a walk over
    records finds each record of a buffer that holds the stream from its start, by
    induction on the records left to look at.
  * `ResponsesNamed`, for `Addressed`: moreover no response names a host, and a client
    that pipelines does in every request (`MCTcpBorrowed` shows why). `NInv` says that
    record k is about message k, that what is on the way to the client has been asked
    for in a request that is already *reported*, and that the client's flow remembers
    the name in the last request. `GInv` says the same of the two hellos of a TLS
    connection on which the client speaks first. `Ended` counts units on the wire and `NInv` records: the
    two meet in `EndedReported`, an injection from the one into the other.
  * `StreamsImplementLog`, for `Addressed`: `TcpStream` implements `ExchangeLog`. The
    mapping of a step is a lemma each (`DeliverLogged`, `ParseOneLogged`,
    `LeaveLogged`; with TLS `PassesLogged` and `GreetsLogged`). A segment completes
    only messages with larger numbers than those that had arrived (`EndsOrdered`), and no more responses than requests reported
    (`ArrivedCount`); the record of a round is the one due since record k is about
    message k (`LoggedIs`); the name in it comes from `NamedAt` of `NInv` in the state
    after the step; and the loop ends only when nothing is due, by `Prompt`. With TLS
    the hello is all that is ever due (`HelloArrived`).

  The hypotheses are met by the runs' instances: the conversations of `tcp_pipelined`
  are `Unforgotten`, and all but `Chunks`, where a pipelined request has no Host,
  `Addressed`.
* **Filters**: `TypeCorrect`, `MatchesArePrefixes`, `DenialsWin`, for any width of a byte
  and of an address. `cidr_match` compares whole bytes, then the rest under a mask:
  `HitsIsWithin` shows that this is equality of the leading bits.
* **CaptureProcess**: `ExitsClean`, `ProbesComeFirst`, `FilterKnowsOptions`. `IInv`
  says for each step exactly what is held (`HeldAt`), that the configuration is
  written from its step on and the filter attached from its own; only so is each
  error path's list exactly what there is to give back.
* **Supervisor** (in `CaptureProcessProofs`, which extends both): `PipeIsClosedInTime`,
  `PanicTakesBoth`, `ShutdownLeavesNoChild`, `HookSeesLinesInOrder`, for a pipe of any
  size, any number of lines and any child. `SInv` adds three facts to the first three:
  whoever has tested `hdl.closer` and finds it gone was overtaken by the other
  (`Overtaken`); the goroutine closes only behind the end of the child, and the closer
  is cleared only behind a close (`ClosesBeforeClears`), without which nobody could
  conclude from a missing closer that the pipe is closed; and what `RunServe` has made,
  and `Shutdown` signalled, by each of their steps (`Launched`). `LInv`
  numbers the lines: those with the hook, with the scanner and in the pipe, in this
  order, are all that were written. `StoppedMeansEnded` and `LinesInOrder` are in no run's
  list; TLC has checked both on `MCSupervisor` and `MCSupervisorEarly`.
* **OwnerResolve**: `TypeCorrect`, `OwnersEverOwned`. A record is right only if
  everything it can come from is: `IInv` says of `flow_owner_map`, of the owners read so
  far, of the snapshot and of the flows that they name former holders, and that an inode
  belongs to one socket for ever, so that an owner that was read is not joined to
  the row of a socket made later.
* **ZabeeServer**: `LeavesNothing`, `ClosesOnce`, `ExitsOnlyForCause`, for any number
  of calls of `RunServe` and `Shutdown`. `IInv` says who may be in a section under the
  mutex, that one run runs, and of each resource where its open state is accounted
  for: with the run that is still loading, published in the server, or taken by
  somebody who is about to close it. A resource is opened once; the socket is closed
  under `readLoop` only after the cancellation.
* **KernelFilter**: `TypeCorrect`, `WholePrograms`, `PassesOnlyForCause`,
  `BothDirections`, `KernelAndParserAgree`, `VerdictsAgree`, `StepsSuffice`. Of the
  compiler `IInv` says that what was read, followed by what is in the pipe, is what was
  printed, and that the reader stops at the number announced; of `tracked_flow_map`, that
  each key was written for a frame that spoke, and that it has its reverse or a CPU is
  about to write it. `MInv` adds that the maps hold a prefix of the compiled program
  until they hold all of it, and that the LRU map keeps its bound. `VerdictsAgree` has
  one hypothesis: each text that tcpdump prints whole means, when run, what the rules
  say (the compiler of tcpdump is not in this repository; TLC evaluates it on the
  texts of the run). `KernelPayload(f) \subseteq Nat` is an assumption on the
  frames. Any tcpdump, any frames, CPUs and map size.

**Induction and recursion.** The library's induction theorems take an operator, which
the provers cannot instantiate, but an induction is a set without a least element: the proof modules take the set of the
numbers for which a statement fails and its least one by `WFMin`. So they show that a
recursive function exists and what it computes (`WalkDefined`, `MachineDefined`,
`KeptDefined`), and that a script's units stand in order (`ScriptOrder`). That a power
of two is a number follows from the number of subsets of a set.

**Only model-checked**: all liveness (`Drains`, `InterruptStops`, `StartDecided`, `Stops`,
and `RunReturns`, `NotStuck`, `ShutdownEndsChild` of `Supervisor`), which the prover does
not reach.

**Proved and in no run**: `TypeOK` of `FlowTable` and `WithinLimit` of `TcpStream`
(`TypeCorrect`, `BodiesWithinLimit`), besides the two of `Supervisor` above.

## 5. What is not modelled

Bytes and formats: numbers and addresses in text, header fields, signatures bit by
bit, JSON. The search for a ClientHello in a QUIC datagram. The instructions that
tcpdump prints and the interpreter does not know. The payload of IP fragments.
Memory that runs out elsewhere than in `flow_get`, `buffer_reserve`, the rule list
and the rescan. `RunServe` of the supervisor when a pipe or a process cannot be made
(it exits), and the way its binary gets on disk. The parsers, the flow table and the
owner lookup of the Go capture server, which repeat those of zwbee.c. The Go rule
compilers call a library or a program and convert its answer.

## 6. Plan

1. The Go capture server's `handlePacket` beside `PacketPath`, where the two programs
   differ.
2. An abstract capture service for many connections that `PacketPath` and `ExchangeLog`
   make up together.

------------------------------ MODULE CoopRelay ------------------------------
(* The tunnel between a container and the daemon (cmd/mad-trellis-relay and     *)
(* internal/launcher/coop.go): the relay in the container accepts connections   *)
(* of MCP servers and hooks, the pump in the launcher dials the daemon once for *)
(* each, and frames of all streams share one pipe each way.  Both ends serve a  *)
(* stream with a goroutine that reads its socket and one that writes it, and a  *)
(* demultiplexer that must never wait for either.                               *)
EXTENDS Naturals, Sequences

CONSTANTS
  N,          \* bound: connections that are accepted
  MaxData,    \* bound: reads of data per socket
  QueueCap,   \* frames a stream's queue holds (256)
  WireCap     \* frames the outbound channel and the pipe behind it hold

ASSUME CoopAssumption == {N, MaxData, QueueCap, WireCap} \subseteq Nat \ {0}

Sides == {"relay", "pump"}
Streams == 1..N

VARIABLES
  launch,     \* the launcher: startCoop and the stop function it returns
  exec,       \* the relay process
  stdin,      \* its standard input is open
  run,        \* the pump's demultiplexer
  done, shut, \* sides that are shut down; coopPump.closed
  end,        \* per side and stream: relayConn, pumpStream
  sock,       \* per side and stream: the adapter's connection, the daemon's
  wire,       \* per side: the frames it has sent and the other side has not read
  sent, got   \* per side and stream: data read from its socket, data written to it

tunnelVars == <<launch, exec, stdin, run>>
coopVars == <<tunnelVars, done, shut, end, sock, wire, sent, got>>

Frames == [t : {"ready"}, id : {0}] \cup [t : {"open", "close"}, id : Streams]
            \cup [t : {"data"}, id : Streams, n : 1..MaxData]
Absent == [at |-> "none", reg |-> FALSE, closed |-> FALSE, peer |-> FALSE, reading |-> FALSE,
           queue |-> <<>>]

CoopTypeOK ==
  /\ launch \in {"off", "starting", "up", "stopping", "joining", "over"}
  /\ exec \in {"off", "boot", "up", "ending", "ended"}
  /\ stdin \in BOOLEAN /\ run \in {"off", "run", "exited"}
  /\ done \subseteq Sides /\ shut \in BOOLEAN
  /\ \A e \in Sides, s \in Streams :
       /\ end[e][s].at \in {"none", "opening", "serving", "ending", "closing", "gone"}
       /\ {end[e][s].reg, end[e][s].closed, end[e][s].peer, end[e][s].reading} \subseteq BOOLEAN
       /\ Len(end[e][s].queue) <= QueueCap
  /\ sock \in [Sides -> [Streams -> {"none", "open", "hungup", "closed"}]]
  /\ \A e \in Sides : Len(wire[e]) <= WireCap /\ \A i \in 1..Len(wire[e]) : wire[e][i] \in Frames
  /\ sent \in [Sides -> [Streams -> 0..MaxData]]
  /\ \A e \in Sides, s \in Streams : got[e][s] \in Seq(1..MaxData)

CoopInit ==
  /\ launch = "off" /\ exec = "off" /\ stdin = FALSE /\ run = "off"
  /\ done = {} /\ shut = FALSE
  /\ end = [e \in Sides |-> [s \in Streams |-> Absent]]
  /\ sock = [e \in Sides |-> [s \in Streams |-> "none"]]
  /\ wire = [e \in Sides |-> <<>>]
  /\ sent = [e \in Sides |-> [s \in Streams |-> 0]]
  /\ got = [e \in Sides |-> [s \in Streams |-> <<>>]]

-----------------------------------------------------------------------------
(* What both ends do with a stream.                                             *)

Frame(t, s) == [t |-> t, id |-> s]

\* A frame waits for room in the channel, and for nothing once the side is shut down.
Enqueue(e, f) ==
  IF e \in done THEN UNCHANGED wire
  ELSE Len(wire[e]) < WireCap /\ wire' = [wire EXCEPT ![e] = Append(@, f)]

\* Closing a stream closes its socket, with which both of its goroutines end.
Closed(row) == [row EXCEPT !.closed = TRUE]
Shut(state) == IF state \in {"open", "hungup"} THEN "closed" ELSE state

\* Fault: a frame that finds the queue full waits for room.
DeliverWaits(e, s, n) ==
  /\ UNCHANGED sock
  /\ \/ ~end[e][s].reg /\ UNCHANGED end
     \/ /\ end[e][s].reg /\ Len(end[e][s].queue) < QueueCap
        /\ end' = [end EXCEPT ![e][s].queue = Append(@, n)]

\* Fault: a frame that finds the queue full is dropped.
DeliverDrops(e, s, n) ==
  /\ UNCHANGED sock
  /\ IF end[e][s].reg /\ Len(end[e][s].queue) < QueueCap
     THEN end' = [end EXCEPT ![e][s].queue = Append(@, n)] ELSE UNCHANGED end

\* A full queue sheds the stream; a closed one may take the frame or not.
Deliver(e, s, n) ==
  LET row == end[e][s] IN
  \/ (~row.reg \/ row.closed) /\ UNCHANGED <<end, sock>>
  \/ /\ row.reg /\ Len(row.queue) < QueueCap
     /\ end' = [end EXCEPT ![e][s].queue = Append(@, n)] /\ UNCHANGED sock
  \/ /\ row.reg /\ Len(row.queue) = QueueCap /\ ~row.closed
     /\ end' = [end EXCEPT ![e][s] = Closed(@)]
     /\ sock' = [sock EXCEPT ![e][s] = Shut(@)]

\* The other side has closed: no CLOSE goes back.
PeerClosed(e, s) ==
  IF end[e][s].reg
  THEN /\ end' = [end EXCEPT ![e][s] = [Closed(@) EXCEPT !.peer = TRUE]]
       /\ sock' = [sock EXCEPT ![e][s] = Shut(@)]
  ELSE UNCHANGED <<end, sock>>

ReadData(e, s) ==
  /\ end[e][s].reading /\ ~end[e][s].closed /\ sock[e][s] = "open" /\ e \notin done
  /\ sent[e][s] < MaxData
  /\ sent' = [sent EXCEPT ![e][s] = @ + 1]
  /\ Enqueue(e, [t |-> "data", id |-> s, n |-> sent[e][s] + 1])
  /\ UNCHANGED <<tunnelVars, done, shut, end, sock, got>>

\* End of input, or the stream was closed: the reader wakes the writer.
ReadEnds(e, s) ==
  /\ end[e][s].reading /\ sock[e][s] # "open"
  /\ end' = [end EXCEPT ![e][s] = [Closed(@) EXCEPT !.reading = FALSE]]
  /\ sock' = [sock EXCEPT ![e][s] = Shut(@)]
  /\ UNCHANGED <<tunnelVars, done, shut, wire, sent, got>>

\* The adapter, or the daemon, takes what is written; it need not.
WriteData(e, s) ==
  /\ end[e][s].at = "serving" /\ end[e][s].queue # <<>> /\ sock[e][s] = "open"
  /\ got' = [got EXCEPT ![e][s] = Append(@, Head(end[e][s].queue))]
  /\ end' = [end EXCEPT ![e][s].queue = Tail(@)]
  /\ UNCHANGED <<tunnelVars, done, shut, sock, wire, sent>>

WriteEnds(e, s) ==
  /\ end[e][s].at = "serving"
  /\ end[e][s].closed \/ e \in done \/ (sock[e][s] = "hungup" /\ end[e][s].queue # <<>>)
  /\ end' = [end EXCEPT ![e][s] = [Closed(@) EXCEPT !.at = "ending"]]
  /\ sock' = [sock EXCEPT ![e][s] = IF end[e][s].closed THEN @ ELSE Shut(@)]
  /\ UNCHANGED <<tunnelVars, done, shut, wire, sent, got>>

Remove(e, s) ==
  /\ end[e][s].at = "ending"
  /\ end' = [end EXCEPT ![e][s].at = "closing", ![e][s].reg = FALSE, ![e][s].queue = <<>>]
  /\ UNCHANGED <<tunnelVars, done, shut, sock, wire, sent, got>>

SendClose(e, s) ==
  /\ end[e][s].at = "closing"
  /\ end' = [end EXCEPT ![e][s].at = "gone"]
  /\ IF end[e][s].peer THEN UNCHANGED wire ELSE Enqueue(e, Frame("close", s))
  /\ UNCHANGED <<tunnelVars, done, shut, sock, sent, got>>

\* The adapter ends, the daemon closes the connection or ends.
HangUp(e, s) ==
  /\ sock[e][s] = "open"
  /\ sock' = [sock EXCEPT ![e][s] = "hungup"]
  /\ UNCHANGED <<tunnelVars, done, shut, end, wire, sent, got>>

-----------------------------------------------------------------------------
(* The relay.                                                                   *)

RelayBoots ==
  /\ exec = "boot"
  /\ exec' = "up" /\ Enqueue("relay", Frame("ready", 0))
  /\ UNCHANGED <<launch, stdin, run, done, shut, end, sock, sent, got>>

\* One goroutine accepts, and gives the other side an OPEN before the next.
Accept(s) ==
  /\ exec = "up" /\ "relay" \notin done
  /\ end["relay"][s].at = "none"
  /\ \A r \in 1..(s - 1) : end["relay"][r].at \notin {"none", "opening"}
  /\ end' = [end EXCEPT !["relay"][s] = [@ EXCEPT !.at = "opening", !.reg = TRUE]]
  /\ sock' = [sock EXCEPT !["relay"][s] = "open"]
  /\ UNCHANGED <<tunnelVars, done, shut, wire, sent, got>>

SendOpen(s) ==
  /\ end["relay"][s].at = "opening"
  /\ Enqueue("relay", Frame("open", s))
  /\ IF "relay" \in done
     THEN /\ end' = [end EXCEPT !["relay"][s] = [Closed(@) EXCEPT !.at = "gone", !.reg = FALSE]]
          /\ sock' = [sock EXCEPT !["relay"][s] = Shut(@)]
     ELSE /\ end' = [end EXCEPT !["relay"][s] = [@ EXCEPT !.at = "serving", !.reading = TRUE]]
          /\ UNCHANGED sock
  /\ UNCHANGED <<tunnelVars, done, shut, sent, got>>

RelayDemux ==
  /\ exec = "up" /\ wire["pump"] # <<>>
  /\ LET f == Head(wire["pump"]) IN
       \/ f.t = "data" /\ Deliver("relay", f.id, f.n)
       \/ f.t = "close" /\ PeerClosed("relay", f.id)
  /\ wire' = [wire EXCEPT !["pump"] = Tail(@)]
  /\ UNCHANGED <<tunnelVars, done, shut, sent, got>>

ShutDown(e) ==
  /\ end' = [end EXCEPT ![e] = [s \in Streams |-> IF @[s].reg THEN Closed(@[s]) ELSE @[s]]]
  /\ sock' = [sock EXCEPT ![e] = [s \in Streams |-> IF end[e][s].reg THEN Shut(@[s]) ELSE @[s]]]

\* End of input: the relay stops accepting, drops its connections, and ends.
RelayStops ==
  /\ exec = "up" /\ ~stdin /\ wire["pump"] = <<>>
  /\ exec' = "ending" /\ done' = done \cup {"relay"}
  /\ ShutDown("relay")
  /\ UNCHANGED <<launch, stdin, run, shut, wire, sent, got>>

\* Whether in order, or because it or its container was killed: what it had not written to
\* the pipe is lost.
RelayEnds ==
  /\ exec \in {"boot", "up", "ending"}
  /\ exec' = "ended" /\ done' = done \cup {"relay"}
  /\ end' = [end EXCEPT !["relay"] = [s \in Streams |->
               IF @[s].at = "none" THEN @[s] ELSE [Absent EXCEPT !.at = "gone", !.closed = TRUE]]]
  /\ sock' = [sock EXCEPT !["relay"] = [s \in Streams |-> Shut(@[s])]]
  /\ \E k \in 0..Len(wire["relay"]) :
       wire' = [wire EXCEPT !["relay"] = SubSeq(@, 1, k), !["pump"] = <<>>]
  /\ UNCHANGED <<launch, stdin, run, shut, sent, got>>

-----------------------------------------------------------------------------
(* The pump and the launcher.                                                   *)

StartCoop ==
  /\ launch = "off"
  /\ launch' = "starting" /\ exec' = "boot" /\ stdin' = TRUE /\ run' = "run"
  /\ UNCHANGED <<done, shut, end, sock, wire, sent, got>>

Ready == /\ run = "run" /\ wire["relay"] # <<>> /\ Head(wire["relay"]).t = "ready"
         /\ launch' = IF launch = "starting" THEN "up" ELSE launch
         /\ wire' = [wire EXCEPT !["relay"] = Tail(@)]
         /\ UNCHANGED <<exec, stdin, run, done, shut, end, sock, sent, got>>

OpenStream(s) ==
  /\ UNCHANGED sock
  /\ IF shut \/ end["pump"][s].reg THEN UNCHANGED end
     ELSE end' = [end EXCEPT !["pump"][s] = [@ EXCEPT !.at = "opening", !.reg = TRUE]]

PumpRun ==
  /\ run = "run" /\ wire["relay"] # <<>>
  /\ LET f == Head(wire["relay"]) IN
       \/ f.t = "open" /\ OpenStream(f.id)
       \/ f.t = "data" /\ Deliver("pump", f.id, f.n)
       \/ f.t = "close" /\ PeerClosed("pump", f.id)
  /\ wire' = [wire EXCEPT !["relay"] = Tail(@)]
  /\ UNCHANGED <<tunnelVars, done, shut, sent, got>>

PumpExits ==
  /\ run = "run" /\ exec = "ended" /\ wire["relay"] = <<>>
  /\ run' = "exited"
  /\ UNCHANGED <<launch, exec, stdin, done, shut, end, sock, wire, sent, got>>

SetConn(s) ==
  IF end["pump"][s].closed
  THEN end' = [end EXCEPT !["pump"][s].at = "ending"] /\ UNCHANGED sock
  ELSE /\ end' = [end EXCEPT !["pump"][s] = [@ EXCEPT !.at = "serving", !.reading = TRUE]]
       /\ sock' = [sock EXCEPT !["pump"][s] = "open"]

\* The dial is made off the demultiplexer; when it fails the relay is told in any case.
ServeStream(s) ==
  /\ end["pump"][s].at = "opening"
  /\ \/ SetConn(s)
     \/ /\ end' = [end EXCEPT !["pump"][s] = [@ EXCEPT !.at = "ending", !.peer = FALSE]]
        /\ UNCHANGED sock
  /\ UNCHANGED <<tunnelVars, done, shut, wire, sent, got>>

\* stop, or no READY within five seconds.
StopCoop ==
  /\ launch \in {"starting", "up"}
  /\ launch' = "stopping"
  /\ UNCHANGED <<exec, stdin, run, done, shut, end, sock, wire, sent, got>>

\* shutdown, from the stop function, the demultiplexer that ended or the writer that failed.
PumpDone ==
  /\ "pump" \notin done
  /\ launch = "stopping" \/ run = "exited" \/ exec = "ended"
  /\ done' = done \cup {"pump"}
  /\ UNCHANGED <<tunnelVars, shut, end, sock, wire, sent, got>>

PumpShut ==
  /\ "pump" \in done /\ ~shut
  /\ shut' = TRUE
  /\ ShutDown("pump")
  /\ UNCHANGED <<tunnelVars, done, wire, sent, got>>

\* What the writer had not sent yet is lost.
CloseStdin ==
  /\ launch = "stopping" /\ shut
  /\ launch' = "joining" /\ stdin' = FALSE
  /\ \E k \in 0..Len(wire["pump"]) : wire' = [wire EXCEPT !["pump"] = SubSeq(@, 1, k)]
  /\ UNCHANGED <<exec, run, done, shut, end, sock, sent, got>>

Reap ==
  /\ \/ launch = "joining" /\ run = "exited"
     \/ launch = "starting" /\ run = "exited" /\ shut
  /\ launch' = "over"
  /\ UNCHANGED <<exec, stdin, run, done, shut, end, sock, wire, sent, got>>

-----------------------------------------------------------------------------

Goroutine(e, s) == ReadEnds(e, s) \/ WriteEnds(e, s) \/ Remove(e, s) \/ SendClose(e, s)
RelayMain == RelayBoots \/ RelayDemux \/ RelayStops \/ (exec = "ending" /\ RelayEnds)
PumpMain == Ready \/ PumpRun \/ PumpExits
Launcher == PumpDone \/ PumpShut \/ CloseStdin \/ Reap

CoopNext ==
  \/ StartCoop \/ StopCoop \/ RelayMain \/ PumpMain \/ Launcher \/ RelayEnds
  \/ \E s \in Streams :
       \/ Accept(s) \/ SendOpen(s) \/ ServeStream(s)
       \/ \E e \in Sides : Goroutine(e, s) \/ ReadData(e, s) \/ WriteData(e, s) \/ HangUp(e, s)

\* Goroutines run and a dial ends; what adapter and daemon send, take or close is theirs.
CoopFairness ==
  /\ WF_coopVars(RelayMain) /\ WF_coopVars(PumpMain) /\ WF_coopVars(Launcher)
  /\ \A s \in Streams :
       /\ WF_coopVars(SendOpen(s)) /\ WF_coopVars(ServeStream(s))
       /\ \A e \in Sides : WF_coopVars(Goroutine(e, s))

-----------------------------------------------------------------------------

\* No socket outlives its stream, whichever of dial, CLOSE, shedding and shutdown comes
\* first (setConn against teardown).
NoSocketLeaks ==
  \A e \in Sides, s \in Streams : end[e][s].at = "gone" => sock[e][s] \notin {"open", "hungup"}

\* Both sockets of a stream see what was read from the other, in order and without a gap,
\* until they close (dispatch and dispatchData close a stream they cannot serve).
InOrder ==
  \A e \in Sides, s \in Streams : got[e][s] = [i \in 1..Len(got[e][s]) |-> i]

\* What holds of sockets and of what they are given, with the types (both ends' teardown and
\* dispatch).
CoopInv == CoopTypeOK /\ NoSocketLeaks /\ InOrder

\* A stream that ends on one side ends on the other, however slow other streams are.
StreamsEndTogether ==
  \A s \in Streams :
    /\ (sock["relay"][s] = "closed") ~> [](sock["pump"][s] \notin {"open", "hungup"})
    /\ (end["pump"][s].at = "gone") ~> (sock["relay"][s] \in {"none", "closed"})

CoopSpec == CoopInit /\ [][CoopNext]_coopVars /\ CoopFairness
==============================================================================

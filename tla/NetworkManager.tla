--------------------------- MODULE NetworkManager ---------------------------
(***************************************************************************)
(* The network side of a node: src/network/manager.go and dispatch.go over  *)
(* src/network/transport/udp_server.go, started and stopped by Node.        *)
(*                                                                         *)
(* A start opens a socket and spawns three goroutines: the reader of the    *)
(* socket, which hands packets over an unbuffered channel; serve, which     *)
(* ranges over the channel and spawns one goroutine per packet; and the     *)
(* loop of Node.Start that refreshes buckets.  What belongs to a start is   *)
(* indexed by its number.  The process aborts when a goroutine panics, and  *)
(* when the Go runtime notices that two write one map.                      *)
(*                                                                         *)
(* Left out: datagrams that are not an RPC (the reader reads on), what the  *)
(* handlers do to the routing table (RoutingTable), logs and counters.      *)
(***************************************************************************)
EXTENDS Naturals, FiniteSets

CONSTANTS
    Packets,        \* the requests other nodes send, each [service, method, sender]
    AppLocks,       \* nm.appLocks: the locks of the services that are configured
    Services,       \* the services an application registers: [name, lock, methods]
    Router,         \* router.RoutingService_ServiceDesc with its lock, registered first
    Again,          \* whether Start is called although the last start was not stopped
    MaxStarts,      \* bound: the calls of Start
    MaxStops,       \* bound: the calls of Stop
    MaxRegistrations,  \* bound: the calls of RegisterService
    NoOne,          \* a lock nobody holds
    NoLock,         \* the zero AppLock of a service that is not configured
    Absent          \* no entry in a map, no packet

Starts == 1 .. MaxStarts

ASSUME BoundsAssumption ==
    MaxStarts \in Nat /\ MaxStops \in Nat /\ MaxRegistrations \in Nat

\* NewNetworkManager fails when the router's service is not among the app_locks.
ASSUME RouterAssumption ==
    /\ Router.name \in DOMAIN AppLocks /\ Router.lock = AppLocks[Router.name]
    /\ NoLock \notin {AppLocks[n] : n \in DOMAIN AppLocks}
    /\ NoOne \notin Services

\* The lock comes with the service and is the one configured for its name.
Trusted(v) == IF v.name \in DOMAIN AppLocks THEN AppLocks[v.name] = v.lock ELSE FALSE

\* Two names share a lock only for the same methods, as those of the router do: a
\* registration takes the methods of its lock away from all its names.
ASSUME SharedLocksAssumption ==
    \A v, w \in Services \cup {Router} :
        Trusted(v) /\ Trusted(w) /\ v.lock = w.lock => v.methods = w.methods

VARIABLES
    appHandlerRegistry, \* nm.appHandlerRegistry: the methods registered under each lock
    peers,          \* nm.peers: who a packet was served for
    lock,           \* the service whose registration holds nm.lock for writing, or NoOne
    receiver,       \* nm.receiver: the start that made the channel, 0 for nil
    udpServ,        \* nm.udpServ: the start that made the server, 0 for nil
    channel,        \* the channel of each start: "none", "open", "closed"
    conn,           \* its socket
    cancelled,      \* whether its context is cancelled
    reader,         \* its reader: "none", "reading", "sending", "done"
    held,           \* the packet its reader is sending
    server,         \* its serve: "none", "spawned", "ranging", "done"
    ranges,         \* the channel that serve ranges over
    refresher,      \* its refresh loop: "none", "running", "done"
    stopped,        \* whether n.ctx is cancelled
    owner,          \* where the caller of Start and Stop is: "idle", "stopping", "closing", "ending"
    pc,             \* where the goroutine of each packet is
    via,            \* the start whose socket a packet came through
    sure,           \* history: the packets whose method was registered when they were read
    torn,           \* history: the packets whose map write overlapped another one
    starts, stops, registrations,
    up              \* whether the process runs

maps  == <<appHandlerRegistry, peers, lock, registrations>>
mine  == <<receiver, udpServ, owner, stopped, starts, stops>>
net   == <<channel, conn, cancelled>>
loops == <<reader, held, server, ranges, refresher>>
tasks == <<pc, via, sure, torn>>
vars  == <<maps, mine, net, loops, tasks, up>>

\* The locks of the code that a service of either kind is registered under.
Locks == {AppLocks[n] : n \in DOMAIN AppLocks} \cup {s.lock : s \in Services}

\* The lock a packet is dispatched by: the zero value for a name that is not configured.
LockOf(p) == IF p.service \in DOMAIN AppLocks THEN AppLocks[p.service] ELSE NoLock

\* DispatchRPC finds a handler.
Registered(p) == LockOf(p) # NoLock /\ p.method \in appHandlerRegistry[LockOf(p)]

\* The goroutines that hold nm.lock for reading.
Readers == {p \in Packets : pc[p] \in {"dispatching", "noting", "noted"}}

Init ==
    /\ appHandlerRegistry = [l \in Locks |-> IF l = Router.lock THEN Router.methods ELSE {}]
    /\ peers = {}
    /\ lock = NoOne
    /\ receiver = 0 /\ udpServ = 0
    /\ channel = [s \in Starts |-> "none"]
    /\ conn = [s \in Starts |-> "none"]
    /\ cancelled = [s \in Starts |-> FALSE]
    /\ reader = [s \in Starts |-> "none"]
    /\ held = [s \in Starts |-> Absent]
    /\ server = [s \in Starts |-> "none"]
    /\ ranges = [s \in Starts |-> 0]
    /\ refresher = [s \in Starts |-> "none"]
    /\ stopped = FALSE
    /\ owner = "idle"
    /\ pc = [p \in Packets |-> "away"]
    /\ via = [p \in Packets |-> 0]
    /\ sure = {} /\ torn = {}
    /\ starts = 0 /\ stops = 0 /\ registrations = 0
    /\ up = TRUE

-----------------------------------------------------------------------------
(* Node.Start and Node.Stop.                                               *)

\* Nothing of an earlier start is left.
Drained ==
    /\ \A s \in Starts : /\ reader[s] \in {"none", "done"}
                         /\ server[s] \in {"none", "done"}
                         /\ refresher[s] \in {"none", "done"}
    /\ Readers = {} /\ \A p \in Packets : pc[p] # "spawned"

\* The channel is made before the socket; a second socket on the port is refused.
Start ==
    /\ up /\ owner = "idle" /\ starts < MaxStarts
    /\ Again \/ Drained
    /\ \A s \in Starts : conn[s] # "open"
    /\ LET s == starts + 1
       IN  /\ starts' = s /\ receiver' = s /\ udpServ' = s
           /\ channel' = [channel EXCEPT ![s] = "open"]
           /\ conn' = [conn EXCEPT ![s] = "open"]
           /\ reader' = [reader EXCEPT ![s] = "reading"]
           /\ server' = [server EXCEPT ![s] = "spawned"]
           /\ refresher' = [refresher EXCEPT ![s] = "running"]
    /\ UNCHANGED <<maps, owner, stopped, stops, cancelled, held, ranges, tasks, up>>

\* The socket cannot be opened: the channel is replaced all the same, and Node.Start
\* goes on as if the network had started.
StartRefused ==
    /\ up /\ owner = "idle" /\ starts < MaxStarts
    /\ Again \/ Drained
    /\ LET s == starts + 1
       IN  /\ starts' = s /\ receiver' = s
           /\ channel' = [channel EXCEPT ![s] = "open"]
           /\ refresher' = [refresher EXCEPT ![s] = "running"]
    /\ UNCHANGED <<maps, udpServ, owner, stopped, stops, conn, cancelled,
                   reader, held, server, ranges, tasks, up>>

\* Shutdown in three steps: UDPServer.Stop cancels the context,
Stop ==
    /\ up /\ owner = "idle" /\ stops < MaxStops
    /\ stops' = stops + 1
    /\ owner' = "stopping"
    /\ cancelled' = [s \in Starts |-> cancelled[s] \/ s = udpServ]
    /\ UNCHANGED <<maps, receiver, udpServ, stopped, starts, channel, conn, loops, tasks, up>>

\* and closes the socket;
CloseSocket ==
    /\ up /\ owner = "stopping"
    /\ owner' = "closing"
    /\ conn' = [s \in Starts |-> IF s = udpServ THEN "closed" ELSE conn[s]]
    /\ UNCHANGED <<maps, receiver, udpServ, stopped, starts, stops, channel, cancelled,
                   loops, tasks, up>>

\* then the channel is closed.
CloseReceiver ==
    /\ up /\ owner = "closing"
    /\ receiver # 0 => channel[receiver] = "open"
    /\ owner' = "ending"
    /\ channel' = [s \in Starts |-> IF s = receiver THEN "closed" ELSE channel[s]]
    /\ UNCHANGED <<maps, receiver, udpServ, stopped, starts, stops, conn, cancelled,
                   loops, tasks, up>>

\* The process ends: nothing else changes any more.
Abort ==
    /\ up' = FALSE
    /\ UNCHANGED <<maps, mine, net, loops, tasks>>

\* panic: close of closed channel.
CloseTwice ==
    /\ up /\ owner = "closing" /\ receiver # 0 /\ channel[receiver] = "closed"
    /\ Abort

\* Node.Stop cancels n.ctx when the network is shut down.
StopEnds ==
    /\ up /\ owner = "ending"
    /\ owner' = "idle"
    /\ stopped' = TRUE
    /\ UNCHANGED <<maps, receiver, udpServ, starts, stops, net, loops, tasks, up>>

-----------------------------------------------------------------------------
(* The goroutines of a start.                                              *)

\* The reader gets the next packet.
Read(s, p) ==
    /\ up /\ reader[s] = "reading" /\ conn[s] = "open" /\ pc[p] = "away"
    /\ reader' = [reader EXCEPT ![s] = "sending"]
    /\ held' = [held EXCEPT ![s] = p]
    /\ pc' = [pc EXCEPT ![p] = "held"]
    /\ via' = [via EXCEPT ![p] = s]
    /\ sure' = IF Registered(p) THEN sure \cup {p} ELSE sure
    /\ UNCHANGED <<maps, mine, net, server, ranges, refresher, torn, up>>

\* Mutant: the reader goes on after the read error of a closed socket.
ReadOn(s) ==
    /\ up /\ reader[s] = "reading" /\ conn[s] = "closed"
    /\ UNCHANGED vars

\* It finds the context cancelled, before a read or after the error of one.
ReadEnds(s) ==
    /\ up /\ reader[s] = "reading" /\ cancelled[s]
    /\ reader' = [reader EXCEPT ![s] = "done"]
    /\ UNCHANGED <<maps, mine, net, held, server, ranges, refresher, tasks, up>>

\* panic: send on closed channel.
SendOnClosed(s) ==
    /\ up /\ reader[s] = "sending" /\ channel[s] = "closed"
    /\ Abort

\* serve reads nm.receiver when it is scheduled for the first time.
ServeBegins(s) ==
    /\ up /\ server[s] = "spawned"
    /\ server' = [server EXCEPT ![s] = "ranging"]
    /\ ranges' = [ranges EXCEPT ![s] = receiver]
    /\ UNCHANGED <<maps, mine, net, reader, held, refresher, tasks, up>>

\* A serve takes the packet a reader is sending, and spawns a goroutine for it.
Receive(s, r) ==
    /\ up /\ server[s] = "ranging" /\ ranges[s] = r
    /\ reader[r] = "sending" /\ channel[r] = "open"
    /\ reader' = [reader EXCEPT ![r] = "reading"]
    /\ held' = [held EXCEPT ![r] = Absent]
    /\ pc' = [pc EXCEPT ![held[r]] = "spawned"]
    /\ UNCHANGED <<maps, mine, net, server, ranges, refresher, via, sure, torn, up>>

ServeEnds(s) ==
    /\ up /\ server[s] = "ranging" /\ channel[ranges[s]] = "closed"
    /\ server' = [server EXCEPT ![s] = "done"]
    /\ UNCHANGED <<maps, mine, net, reader, held, ranges, refresher, tasks, up>>

\* Whenever the ticker ticks, the loop looks up and pings peers; of one that answers,
\* InvokeRPC writes the contact into nm.peers under nm.lock.
Acknowledged(s) ==
    /\ up /\ refresher[s] = "running" /\ lock = NoOne /\ Readers = {}
    /\ \E p \in Packets : peers' = peers \cup {p.sender}
    /\ UNCHANGED <<appHandlerRegistry, lock, registrations, mine, net, loops, tasks, up>>

\* The loop is back at its select and finds n.ctx.Done.
RefreshEnds(s) ==
    /\ up /\ refresher[s] = "running" /\ stopped
    /\ refresher' = [refresher EXCEPT ![s] = "done"]
    /\ UNCHANGED <<maps, mine, net, reader, held, server, ranges, tasks, up>>

-----------------------------------------------------------------------------
(* The goroutine of a packet, in serve.  It holds nm.lock for reading.     *)

Goto(p, label) == pc' = [pc EXCEPT ![p] = label]

Admit(p) ==
    /\ up /\ pc[p] = "spawned" /\ lock = NoOne
    /\ Goto(p, "dispatching")
    /\ UNCHANGED <<maps, mine, net, loops, via, sure, torn, up>>

\* Mutant: the handlers are found by the name of the service.
RefuseByName(p) ==
    /\ up /\ pc[p] = "dispatching" /\ ~(p.service = Router.name /\ Registered(p))
    /\ Goto(p, "refused")
    /\ UNCHANGED <<maps, mine, net, loops, via, sure, torn, up>>

\* DispatchRPC: unknown service or unknown method.  There is no reply.
Refuse(p) ==
    /\ up /\ pc[p] = "dispatching" /\ ~Registered(p)
    /\ Goto(p, "refused")
    /\ UNCHANGED <<maps, mine, net, loops, via, sure, torn, up>>

\* The payload does not decode, or the method of the service returns an error.
Fail(p) ==
    /\ up /\ pc[p] = "dispatching" /\ Registered(p)
    /\ Goto(p, "failed")
    /\ UNCHANGED <<maps, mine, net, loops, via, sure, torn, up>>

Writing == {p \in Packets : pc[p] = "noting"}

\* The handler has returned; the sender is written into nm.peers and nm.active.
Handle(p) ==
    /\ up /\ pc[p] = "dispatching" /\ Registered(p)
    /\ Goto(p, "noting")
    /\ torn' = IF Writing = {} THEN torn ELSE torn \cup Writing \cup {p}
    /\ UNCHANGED <<maps, mine, net, loops, via, sure, up>>

\* fatal error: concurrent map writes.
WriteCollides(p) ==
    /\ up /\ pc[p] = "noting" /\ Writing # {p}
    /\ Abort

\* Mutant: the sender of a packet is noted only once it has been answered.
NoteLater(p) ==
    /\ up /\ pc[p] = "noting"
    /\ Goto(p, "noted")
    /\ UNCHANGED <<maps, mine, net, loops, via, sure, torn, up>>

\* A write that overlapped another one unnoticed may be lost.
Note(p) ==
    /\ up /\ pc[p] = "noting"
    /\ \/ peers' = peers \cup {p.sender}
       \/ p \in torn /\ UNCHANGED peers
    /\ Goto(p, "noted")
    /\ UNCHANGED <<appHandlerRegistry, lock, registrations, mine, net, loops,
                   via, sure, torn, up>>

\* The reply goes out through the socket of the packet, unless that is closed.
Reply(p) ==
    /\ up /\ pc[p] = "noted"
    /\ Goto(p, IF conn[via[p]] = "open" THEN "replied" ELSE "unanswered")
    /\ UNCHANGED <<maps, mine, net, loops, via, sure, torn, up>>

-----------------------------------------------------------------------------
(* RegisterService, called by an application.                              *)

\* Mutant: the registration does not wait for the packets being dispatched.
RegisterUnlocked(v) ==
    /\ up /\ lock = NoOne /\ registrations < MaxRegistrations /\ Trusted(v)
    /\ lock' = v
    /\ registrations' = registrations + 1
    /\ appHandlerRegistry' = [appHandlerRegistry EXCEPT ![v.lock] = {}]
    /\ UNCHANGED <<peers, mine, net, loops, tasks, up>>

\* The entry of the lock is made anew, then filled method by method.
Register(v) ==
    /\ up /\ lock = NoOne /\ Readers = {} /\ registrations < MaxRegistrations /\ Trusted(v)
    /\ lock' = v
    /\ registrations' = registrations + 1
    /\ appHandlerRegistry' = [appHandlerRegistry EXCEPT ![v.lock] = {}]
    /\ UNCHANGED <<peers, mine, net, loops, tasks, up>>

RegisterMethod(v) ==
    /\ up /\ lock = v
    /\ \E m \in v.methods \ appHandlerRegistry[v.lock] :
          appHandlerRegistry' = [appHandlerRegistry EXCEPT ![v.lock] = @ \cup {m}]
    /\ UNCHANGED <<peers, lock, registrations, mine, net, loops, tasks, up>>

\* Mutant: a registration returns with the lock held.
RegisterEndsLocked(v) ==
    /\ up /\ lock = v /\ v.methods \subseteq appHandlerRegistry[v.lock]
    /\ UNCHANGED vars

RegisterEnds(v) ==
    /\ up /\ lock = v /\ v.methods \subseteq appHandlerRegistry[v.lock]
    /\ lock' = NoOne
    /\ UNCHANGED <<appHandlerRegistry, peers, registrations, mine, net, loops, tasks, up>>

-----------------------------------------------------------------------------

Owner == Start \/ StartRefused \/ Stop \/ CloseSocket \/ CloseReceiver \/ CloseTwice \/ StopEnds

ReaderStops(s) == ReadEnds(s) \/ SendOnClosed(s)

Server(s) == ServeBegins(s) \/ ServeEnds(s) \/ \E r \in Starts : Receive(s, r)

Refresher(s) == Acknowledged(s) \/ RefreshEnds(s)

Serve(p) ==
    Admit(p) \/ Refuse(p) \/ Fail(p) \/ Handle(p) \/ WriteCollides(p) \/ Note(p) \/ Reply(p)

Application(v) == Register(v) \/ RegisterMethod(v) \/ RegisterEnds(v)

Next ==
    \/ Owner
    \/ \E s \in Starts : \/ ReaderStops(s) \/ Server(s) \/ Refresher(s)
                         \/ \E p \in Packets : Read(s, p)
    \/ \E p \in Packets : Serve(p)
    \/ \E v \in Services : Application(v)

Spec == Init /\ [][Next]_vars

\* The scheduler runs every goroutine that can go on, a call of Stop or of
\* RegisterService runs to its end, and a refresh ends: every call it makes has a
\* deadline, and select does not take the ticker for ever once n.ctx is cancelled.
Fairness ==
    /\ WF_vars(CloseSocket) /\ WF_vars(CloseReceiver) /\ WF_vars(CloseTwice) /\ WF_vars(StopEnds)
    /\ \A s \in Starts : /\ WF_vars(ReaderStops(s)) /\ WF_vars(Server(s))
                         /\ WF_vars(RefreshEnds(s))
    /\ \A p \in Packets : WF_vars(Serve(p))
    /\ \A v \in Services : WF_vars(RegisterMethod(v) \/ RegisterEnds(v))

FairSpec == Spec /\ Fairness

-----------------------------------------------------------------------------
(* Properties.                                                             *)

\* Every variable has a value of its kind, and nm.lock does what it is for: while a
\* registration holds it nobody dispatches.
TypeOK ==
    /\ appHandlerRegistry \in [Locks -> SUBSET UNION {v.methods : v \in Services \cup {Router}}]
    /\ peers \subseteq {p.sender : p \in Packets}
    /\ lock \in Services \cup {NoOne} /\ (lock # NoOne => Readers = {})
    /\ receiver \in 0 .. MaxStarts /\ udpServ \in 0 .. MaxStarts
    /\ channel \in [Starts -> {"none", "open", "closed"}]
    /\ conn \in [Starts -> {"none", "open", "closed"}]
    /\ cancelled \in [Starts -> BOOLEAN]
    /\ reader \in [Starts -> {"none", "reading", "sending", "done"}]
    /\ held \in [Starts -> Packets \cup {Absent}]
    /\ server \in [Starts -> {"none", "spawned", "ranging", "done"}]
    /\ ranges \in [Starts -> 0 .. MaxStarts]
    /\ refresher \in [Starts -> {"none", "running", "done"}]
    /\ stopped \in BOOLEAN /\ owner \in {"idle", "stopping", "closing", "ending"}
    /\ pc \in [Packets -> {"away", "held", "spawned", "dispatching", "refused", "failed",
                           "noting", "noted", "replied", "unanswered"}]
    /\ via \in [Packets -> 0 .. MaxStarts]
    /\ sure \subseteq Packets /\ torn \subseteq Packets
    /\ starts \in 0 .. MaxStarts /\ stops \in 0 .. MaxStops
    /\ registrations \in 0 .. MaxRegistrations /\ up \in BOOLEAN

\* A method that is registered when a request for it is read is served, under every
\* name its lock is configured for, although registering a service again empties the
\* entry of the lock before it fills it: RegisterService and the dispatch exclude
\* each other.
RegisteredStay == \A p \in sure : pc[p] # "refused"

\* Whoever has been answered is in nm.peers by then, whatever other packets, pings and
\* restarts come between, unless the write met another one of the same map.
NotedBeforeReply ==
    \A p \in Packets \ torn : pc[p] = "replied" => p.sender \in peers

\* Stop does not wait, but everything that a start has spawned ends after it, or the
\* process is gone: no reader is left behind on the unbuffered channel, no serve on a
\* channel that nobody closes and no loop behind its ticker.
ShutdownDrains ==
    \A s \in Starts :
        cancelled[s] ~> \/ ~up
                        \/ reader[s] = "done" /\ server[s] = "done" /\ refresher[s] = "done"

\* A packet that the reader took from the socket is brought to its end: replied to,
\* refused, failed, or left without a reply because the socket was closed meanwhile.
PacketsSettle ==
    \A p \in Packets :
        pc[p] = "held" ~> ~up \/ pc[p] \in {"replied", "refused", "failed", "unanswered"}

\* Node.Stop shuts down without a panic, of its own or of a goroutine it stops: if the
\* process dies at all, it is of a concurrent write of nm.peers.
StopIsGraceful == [][up' \/ Cardinality(Writing) > 1]_vars

=============================================================================

------------------------------- MODULE Lookup -------------------------------
(***************************************************************************)
(* A node calls others: Join, Put and RefreshBuckets of src/node/node.go,   *)
(* the iterative NetworkManager.Lookup they share, and InvokeRPC under it,  *)
(* on a network that loses and delays datagrams.  The others only answer.   *)
(*                                                                         *)
(* A routing table is the set of contacts in it and changes as PeerClasses  *)
(* says.  An address belongs to one node.  The shortlist is sorted whenever *)
(* it is looked at, so a bag stands for it: it may list a contact twice.    *)
(* A worker of Lookup is named by the contact it asks: a lookup asks nobody *)
(* twice.  Lookup calls FindNode under the name router.RoutingService, whose*)
(* replies do not touch the table of the caller; Ping uses the other name.  *)
(***************************************************************************)
EXTENDS ContactSets

CONSTANTS
    Alpha,          \* cfg.Alpha
    Others,         \* the contacts of the other nodes
    Bootstrap,      \* the node that Join is given
    Dead,           \* the nodes that never answer
    Worlds,         \* what the tables of all nodes may be at first
    Calls,          \* the calls made: <<"join" or "put" or "refresh", target>>
    PingTries,      \* 3: how often Join pings a node
    MaxCalls,       \* bound: the calls made one after the other
    MaxTimeouts     \* bound: the deadlines missed by nodes that are not dead

Contacts == Others \cup {Local}

Alive == Contacts \ Dead

ASSUME AlphaAssumption == Alpha \in Nat \ {0} /\ PingTries \in Nat \ {0}

ASSUME OthersAssumption ==
    /\ \A c \in Others : IsContact(c)
    /\ \A c, d \in Contacts : c.id = d.id => c = d
    /\ IsFiniteSet(Others) /\ Local \notin Others
    /\ Bootstrap \in Others /\ Dead \subseteq Others

ASSUME CallsAssumption == Calls \subseteq {"join", "put", "refresh"} \X NodeID

ASSUME BoundsAssumption == MaxCalls \in Nat /\ MaxTimeouts \in Nat

VARIABLES
    tables,         \* the routing table of every node, this one's too
    op, target,     \* the call that is being made
    pc,             \* where it is
    shortlist,      \* how often each contact is listed
    prevFurthest,   \* the local variable; ZeroID before the first round
    worker,         \* each worker: "none", "asked", "served", "done"
    reply,          \* the contacts in the reply under way to it
    waiting,        \* the workers of the round that Lookup waits for
    tries,          \* how often each node is still to be pinged
    ping,           \* the ping under way to each: "none", "sent", "served"
    strays,         \* the nodes that a request may reach after its deadline
    up,             \* whether the process runs
    timeouts,       \* the deadlines that may still be missed
    calls,          \* the calls that may still be made
    all,            \* history: the seeds and all replies of this lookup, as a bag
    raced,          \* history: a late reply met the sorting, or another being appended
    acked,          \* history: the nodes whose ping was acknowledged
    served          \* history: the nodes that served a request of this one

lookup  == <<op, target, pc, shortlist, prevFurthest, waiting, all, raced>>
workers == <<worker, reply>>
pings   == <<tries, ping, acked>>
world   == <<strays, timeouts, served>>
vars    == <<tables, lookup, workers, pings, world, up, calls>>

-----------------------------------------------------------------------------

\* The contacts in a table that share as long a prefix with its owner as c does.
Class(S, n, c) ==
    {d \in S : SharedPrefixLength(n.id, d.id) = SharedPrefixLength(n.id, c.id)}

\* Tables are what PeerClasses allows.
ASSUME WorldsAssumption ==
    \A w \in Worlds :
        /\ w \in [Contacts -> SUBSET Contacts]
        /\ \A n \in Contacts : /\ n \notin w[n]
                               /\ \A c \in Contacts : Cardinality(Class(w[n], n, c)) <= K

\* Mutant: a contact is noted only while there is room for it.
NotedIfRoom(S, n, c) ==
    IF c = n \/ Cardinality(Class(S, n, c)) >= K THEN S ELSE S \cup {c}

\* Update of n's table S with c.
Noted(S, n, c) ==
    IF c = n THEN S
    ELSE (S \ Class(S, n, c)) \cup Nearest(Without(Class(S, n, c), c) \cup {c}, n.id)

\* Node c serves a request of this one and notes it.
Serves(c) ==
    /\ tables' = [tables EXCEPT ![c] = Noted(@, c, Local)]
    /\ served' = served \cup {c}

Nobody == [c \in Contacts |-> 0]

\* A bag as the set of its entries, and back.
Entries(b) == UNION {{c} \X (1 .. b[c]) : c \in Contacts}

Counted(E) == [c \in Contacts |-> Cardinality({e \in E : e[1] = c})]

Size(b) == Cardinality(Entries(b))

Listed(b) == {c \in Contacts : b[c] > 0}

Adding(b, S) == [c \in Contacts |-> IF c \in S THEN b[c] + 1 ELSE b[c]]

\* Sorting by distance to t puts e before f.
Before(e, f, t) ==
    IF e[1] = f[1] THEN e[2] < f[2] ELSE CompareXorDistance(e[1].id, f[1].id, t)

Ahead(b, f, t) == Cardinality({e \in Entries(b) : Before(e, f, t)})

\* Mutant: cut to K - 1.
FirstButOne(b, t) == Counted({f \in Entries(b) : Ahead(b, f, t) + 1 < K})

\* Sorted by distance to t and cut to K.
First(b, t) == Counted({f \in Entries(b) : Ahead(b, f, t) < K})

Farthest(S, t) == CHOOSE c \in S : \A d \in S : ~CompareXorDistance(c.id, d.id, t)

\* The first Alpha of S by distance to t.
Picked(S, t) == {c \in S : Cardinality(Closer(S, c, t)) < Alpha}

\* Mutant: nothing bounds the wait for a dead node.
LateAlive(S) ==
    IF S = {} THEN UNCHANGED timeouts
    ELSE S \cap Dead = {} /\ timeouts > 0 /\ timeouts' = timeouts - 1

\* A deadline passes: always that of a dead node, seldom that of another.
Late(S) ==
    IF S \subseteq Dead THEN UNCHANGED timeouts ELSE timeouts > 0 /\ timeouts' = timeouts - 1

Init ==
    /\ tables \in Worlds
    /\ op = "none" /\ target = ZeroID /\ pc = "idle"
    /\ shortlist = Nobody /\ prevFurthest = ZeroID /\ waiting = {}
    /\ worker = [c \in Contacts |-> "none"]
    /\ reply = [c \in Contacts |-> {}]
    /\ tries = Nobody
    /\ ping = [c \in Contacts |-> "none"]
    /\ strays = {} /\ served = {} /\ acked = {}
    /\ timeouts = MaxTimeouts /\ calls = MaxCalls
    /\ up = TRUE
    /\ all = Nobody /\ raced = FALSE

-----------------------------------------------------------------------------
(* Lookup.                                                                 *)

\* It begins with what the own table has.
Seed(t) ==
    /\ shortlist' = Adding(Nobody, Nearest(tables[Local], t))
    /\ all' = shortlist'
    /\ prevFurthest' = ZeroID
    /\ pc' = "round"
    /\ raced' = FALSE

\* Join pings the node it is given first.
Begin(what, t) ==
    /\ up /\ pc = "idle" /\ calls > 0
    /\ calls' = calls - 1
    /\ op' = what /\ target' = t
    /\ \/ /\ what = "join"
          /\ pc' = "greeting"
          /\ tries' = [tries EXCEPT ![Bootstrap] = PingTries]
          /\ UNCHANGED <<shortlist, prevFurthest, all, raced>>
       \/ /\ what # "join"
          /\ Seed(t)
          /\ UNCHANGED tries
    /\ UNCHANGED <<tables, waiting, workers, ping, acked, world, up>>

\* An answer, or no answer to any of the pings: Join looks up its own identifier.
Greeted ==
    /\ up /\ pc = "greeting" /\ tries = Nobody
    /\ Seed(target)
    /\ UNCHANGED <<tables, op, target, waiting, workers, pings, world, up, calls>>

\* Whether the furthest one listed has come nearer.
Nearer(d) == prevFurthest = ZeroID \/ LessDistance(d, prevFurthest)

Ask(furthest, S) ==
    /\ prevFurthest' = furthest
    /\ waiting' = S
    /\ pc' = "waiting"

Conclude == pc' = "finishing" /\ UNCHANGED <<prevFurthest, waiting>>

Asking == [c \in Contacts |-> IF c \in waiting' \ waiting THEN "asked" ELSE worker[c]]

\* A round: sort, cut, and ask the next ones.
Round ==
    /\ up /\ pc = "round" /\ shortlist # Nobody
    /\ shortlist' = First(shortlist, target)
    /\ LET listed == Listed(shortlist')
           d      == XorDistance(Farthest(listed, target).id, target)
           fresh  == {c \in listed : worker[c] = "none"}
       IN  IF Nearer(d) /\ fresh # {} THEN Ask(d, Picked(fresh, target)) ELSE Conclude
    /\ worker' = Asking
    /\ UNCHANGED <<tables, op, target, all, raced, reply, pings, world, up, calls>>

\* A node gets the request and answers with what it knows.
Serve(c) ==
    /\ worker[c] = "asked" /\ c \in Alive
    /\ worker' = [worker EXCEPT ![c] = "served"]
    /\ Serves(c)
    /\ reply' = [reply EXCEPT ![c] = Nearest(tables'[c], target)]
    /\ UNCHANGED <<lookup, pings, strays, timeouts, up, calls>>

Answered(c) ==
    /\ worker' = [worker EXCEPT ![c] = "done"]
    /\ reply' = [reply EXCEPT ![c] = {}]

\* The reply is there in time, or as late as the worker's own deadline allows.
Receive(c) ==
    /\ up /\ worker[c] = "served"
    /\ shortlist' = Adding(shortlist, reply[c])
    /\ all' = Adding(all, reply[c])
    /\ Answered(c)
    /\ UNCHANGED <<tables, op, target, pc, prevFurthest, waiting, raced, pings, world, up, calls>>

\* The entry that a reply begins with: they are sorted by distance.
Foremost(S) == {c \in S : Closer(S, c, target) = {}}

\* What is left of the replies S and T when two workers append them at once: each
\* append may undo those of the other worker made since it read the slice.  The first
\* slot ends up with the foremost entry of either, and the last append finds a slot
\* behind that if either has more.
Leftovers(S, T) ==
    {left \in (SUBSET S) \X (SUBSET T) :
        /\ (left[1] \cap Foremost(S)) \cup (left[2] \cap Foremost(T)) # {}
        /\ Cardinality(S) > 1 /\ Cardinality(T) > 1 =>
              Cardinality(left[1]) + Cardinality(left[2]) > 1}

\* A worker of the round before appends while one of this round does, each with the
\* mutex of its round: entries of both are lost, or the process panics.
AppendsRace(c, d) ==
    /\ up /\ {worker[c], worker[d]} = {"served"} /\ c \notin waiting /\ d \in waiting
    /\ \E left \in Leftovers(reply[c], reply[d]) :
          shortlist' = Adding(Adding(shortlist, left[1]), left[2])
    /\ all' = Adding(Adding(all, reply[c]), reply[d])
    /\ raced' = TRUE
    /\ worker' = [worker EXCEPT ![c] = "done", ![d] = "done"]
    /\ reply' = [reply EXCEPT ![c] = {}, ![d] = {}]
    /\ up' \in BOOLEAN
    /\ UNCHANGED <<tables, op, target, pc, prevFurthest, waiting, pings, world, calls>>

\* The deadline of an RPC.  The request is lost, or served later.
Timeout(c) ==
    /\ up /\ worker[c] \in {"asked", "served"}
    /\ Late(IF c \in waiting THEN {c} ELSE {})
    /\ Answered(c)
    /\ strays' \in {strays, strays \cup ({c} \cap Alive)}
    /\ UNCHANGED <<tables, lookup, pings, served, up, calls>>

Pending == {c \in waiting : worker[c] # "done"}

WaitDone ==
    /\ up /\ pc = "waiting" /\ Pending = {}
    /\ pc' = "round" /\ waiting' = {}
    /\ UNCHANGED <<tables, op, target, shortlist, prevFurthest, all, raced, workers,
                   pings, world, up, calls>>

\* The 3 seconds of Lookup's own timer; the workers go on.
WaitTimeout ==
    /\ up /\ pc = "waiting" /\ Pending # {}
    /\ Late(Pending)
    /\ pc' = "round" /\ waiting' = {}
    /\ UNCHANGED <<tables, op, target, shortlist, prevFurthest, all, raced, workers,
                   pings, strays, served, up, calls>>

\* K entries of a bag, or all.
Parts(b) == {Counted(E) : E \in {E \in SUBSET Entries(b) : Cardinality(E) = K \/ E = Entries(b)}}

\* A late worker appends while Lookup sorts and cuts without the mutex: the cut may hit
\* entries out of order or be undone, and a slice header torn in two panics.
RoundRaced(c) ==
    /\ up /\ pc \in {"round", "finishing"} /\ worker[c] = "served"
    /\ raced' = TRUE
    /\ all' = Adding(all, reply[c])
    /\ \E b \in Parts(shortlist) \cup Parts(Adding(shortlist, reply[c])) :
          /\ shortlist' = b
          /\ \/ Conclude
             \/ /\ pc = "round"
                /\ LET fresh == {d \in Listed(b) : worker[d] = "none"}
                   IN  \E last \in Listed(b), S \in SUBSET fresh :
                          /\ S # {} /\ (Cardinality(S) = Alpha \/ (S = fresh /\ Cardinality(S) < Alpha))
                          /\ Ask(XorDistance(last.id, target), S)
    /\ worker' = [Asking EXCEPT ![c] = "done"]
    /\ reply' = [reply EXCEPT ![c] = {}]
    /\ up' \in BOOLEAN
    /\ UNCHANGED <<tables, op, target, pings, world, calls>>

\* The last sort and cut.  What late workers do from now on has no effect here.
\* Join pings everybody else three times, RefreshBuckets pings and Put stores once.
Finish ==
    /\ up /\ pc = "finishing"
    /\ shortlist' = First(shortlist, target)
    /\ pc' = "calling"
    /\ tries' = [c \in Contacts |->
                    IF op # "join" THEN shortlist'[c]
                    ELSE IF c \in {Local, Bootstrap} THEN 0 ELSE PingTries * shortlist'[c]]
    /\ worker' = [c \in Contacts |-> "none"]
    /\ reply' = [c \in Contacts |-> {}]
    /\ strays' = strays \cup {c \in Alive : worker[c] = "asked"}
    /\ UNCHANGED <<tables, op, target, prevFurthest, waiting, all, raced, ping, acked,
                   timeouts, served, up, calls>>

Return ==
    /\ op' = "none" /\ target' = ZeroID /\ pc' = "idle"
    /\ shortlist' = Nobody /\ prevFurthest' = ZeroID /\ all' = Nobody /\ raced' = FALSE
    /\ tries' = Nobody
    /\ UNCHANGED waiting

\* There is nobody in the table, or everybody has been called.
Done ==
    /\ up
    /\ \/ pc = "round" /\ shortlist = Nobody
       \/ pc = "calling" /\ tries = Nobody
    /\ Return
    /\ UNCHANGED <<tables, workers, ping, acked, world, up, calls>>

-----------------------------------------------------------------------------
(* Ping, and the Store of Put, over InvokeRPC.                             *)

\* Join calls all at once, the others one after the other, the nearest first.
Turn(c) ==
    /\ up /\ tries[c] > 0
    /\ op # "join" => \A d \in Contacts : tries[d] > 0 => ~CompareXorDistance(d.id, c.id, target)

PingServed(c) ==
    /\ Turn(c) /\ ping[c] = "none" /\ c \in Alive
    /\ ping' = [ping EXCEPT ![c] = "served"]
    /\ Serves(c)
    /\ UNCHANGED <<lookup, workers, tries, acked, strays, timeouts, up, calls>>

\* The bootstrap node is not pinged again when it has answered; the others are.
Acknowledged(c) ==
    /\ up /\ op # "put" /\ ping[c] = "served"
    /\ ping' = [ping EXCEPT ![c] = "none"]
    /\ tables' = [tables EXCEPT ![Local] = Noted(@, Local, c)]
    /\ acked' = acked \cup {c}
    /\ tries' = [tries EXCEPT ![c] = IF pc = "greeting" THEN 0 ELSE @ - 1]
    /\ UNCHANGED <<lookup, workers, world, up, calls>>

\* Put unmarshals the reply into a nil *ACK: the process panics.
PutPanics(c) ==
    /\ up /\ op = "put" /\ ping[c] = "served"
    /\ up' = FALSE
    /\ UNCHANGED <<tables, lookup, workers, pings, world, calls>>

\* Mutant: no second try.
NoReplyNoRetry(c) ==
    /\ Turn(c)
    /\ Late({c})
    /\ ping' = [ping EXCEPT ![c] = "none"]
    /\ strays' \in {strays, strays \cup ({c} \cap Alive)}
    /\ tries' = [tries EXCEPT ![c] = 0]
    /\ UNCHANGED <<tables, lookup, workers, acked, served, up, calls>>

\* The deadline of a call: Put gives up, the others go on.
NoReply(c) ==
    /\ Turn(c)
    /\ Late({c})
    /\ ping' = [ping EXCEPT ![c] = "none"]
    /\ strays' \in {strays, strays \cup ({c} \cap Alive)}
    /\ \/ op = "put" /\ Return
       \/ op # "put" /\ tries' = [tries EXCEPT ![c] = @ - 1] /\ UNCHANGED lookup
    /\ UNCHANGED <<tables, workers, acked, served, up, calls>>

\* A request that was thought lost arrives after all.
Stray(c) ==
    /\ c \in strays
    /\ strays' = strays \ {c}
    /\ Serves(c)
    /\ UNCHANGED <<lookup, workers, pings, timeouts, up, calls>>

-----------------------------------------------------------------------------

Caller == Greeted \/ Round \/ WaitDone \/ WaitTimeout \/ Finish \/ Done

Worker(c) == Serve(c) \/ Receive(c) \/ Timeout(c)

Races(c) == RoundRaced(c) \/ \E d \in Contacts : AppendsRace(c, d)

Call(c) == PingServed(c) \/ Acknowledged(c) \/ PutPanics(c) \/ NoReply(c)

Next ==
    \/ \E call \in Calls : Begin(call[1], call[2])
    \/ Caller
    \/ \E c \in Contacts : Worker(c) \/ Races(c) \/ Call(c) \/ Stray(c)

Spec == Init /\ [][Next]_vars

\* As long as a goroutine of the call can go on, one does; every RPC ends, at its
\* deadline at the latest.
FairSpec == Spec /\ WF_vars(Caller \/ \E c \in Contacts : Worker(c) \/ Call(c))

-----------------------------------------------------------------------------
(* Properties.                                                             *)

\* Every variable has a value of its kind; a round asks at most Alpha nodes, and a
\* table has at most K contacts of a class and never its owner.
TypeOK ==
    /\ tables \in [Contacts -> SUBSET Contacts]
    /\ \A n \in Contacts : /\ n \notin tables[n]
                           /\ \A c \in Contacts : Cardinality(Class(tables[n], n, c)) <= K
    /\ op \in {"none", "join", "put", "refresh"} /\ target \in NodeID
    /\ pc \in {"idle", "greeting", "round", "waiting", "finishing", "calling"}
    /\ shortlist \in [Contacts -> Nat] /\ all \in [Contacts -> Nat]
    /\ prevFurthest \in NodeID
    /\ worker \in [Contacts -> {"none", "asked", "served", "done"}]
    /\ reply \in [Contacts -> SUBSET Contacts]
    /\ waiting \subseteq Contacts /\ Cardinality(waiting) <= Alpha
    /\ tries \in [Contacts -> Nat] /\ ping \in [Contacts -> {"none", "served"}]
    /\ strays \subseteq Alive /\ acked \subseteq Alive /\ served \subseteq Alive
    /\ timeouts \in Nat /\ calls \in Nat /\ {up, raced} \subseteq BOOLEAN

\* Although every round forgets what is beyond the first K, appends replies in the
\* order they arrive and may end before some do, the result is the K nearest entries
\* of all the seeds and of every reply that came in, unless a late one was appended
\* while another was or while the shortlist was sorted: that takes a node which is alive
\* and missed a deadline.
ResultIsHead ==
    /\ raced => timeouts < MaxTimeouts
    /\ (pc = "calling" /\ ~raced) =>
          /\ Size(shortlist) = IF Size(all) < K THEN Size(all) ELSE K
          /\ \A c \in Contacts :
                /\ shortlist[c] <= all[c]
                /\ shortlist[c] < all[c] =>
                      \A d \in Listed(shortlist) : ~CompareXorDistance(c.id, d.id, target)

\* n has c in its table, or K contacts of the same class that are nearer.
Knows(n, c) ==
    \/ c \in tables[n]
    \/ Cardinality(Closer(Class(tables[n], n, c), c, n.id)) >= K

\* Whoever has served a request of this node knows it, and this node knows whoever
\* has acknowledged a ping, until nearer ones of the class have filled the table,
\* whatever was lost, delayed or called since.
TablesKeepUp ==
    /\ \A c \in served \ {Local} : Knows(c, Local)
    /\ \A c \in acked \ {Local} : Knows(Local, c)

Mutual(c) == Knows(c, Local) /\ Knows(Local, c)

\* Join makes this node and the bootstrap node know each other before it looks itself
\* up, and at its end this node and all those found, if they are alive and no more
\* deadlines are missed than the retries make up for.
JoinIntegrates ==
    (op = "join" /\ MaxTimeouts < PingTries) =>
        /\ pc # "greeting" => \A c \in {Bootstrap} \cap Alive : Mutual(c)
        /\ pc = "calling" /\ tries = Nobody =>
              \A c \in (Listed(shortlist) \cap Alive) \ {Local} : Mutual(c)

\* Join, Put and RefreshBuckets return: a lookup ends after finitely many rounds and no
\* round, ping or store waits longer than its deadline.
CallsReturn == pc # "idle" ~> pc = "idle" \/ ~up

\* Lookup returns the contacts closest to the target among those it started with and
\* was told of.
ClosestReturned ==
    (pc = "calling" /\ ~raced) => Listed(shortlist) = Nearest(Listed(all), target)

=============================================================================

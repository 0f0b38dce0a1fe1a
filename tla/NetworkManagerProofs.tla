------------------------- MODULE NetworkManagerProofs -------------------------
(***************************************************************************)
(* Theorems about NetworkManager, for any number of packets, services,      *)
(* starts and stops.  nm.lock keeps registering and dispatching apart, and  *)
(* from that follows that a registered method stays: an inductive invariant *)
(* says where the methods of an entry come from and which of them a         *)
(* registration under way is about to put back.                             *)
(***************************************************************************)
EXTENDS NetworkManager, TLAPS

-----------------------------------------------------------------------------
(* nm.lock and the maps it guards.                                         *)

PlaceNames == {"away", "held", "spawned", "dispatching", "refused", "failed", "noting",
               "noted", "replied", "unanswered"}

\* What the arguments below need of TypeOK.
MapsOK ==
    /\ DOMAIN appHandlerRegistry = Locks
    /\ pc \in [Packets -> PlaceNames]
    /\ lock \in Services \cup {NoOne}
    /\ sure \subseteq Packets

\* While a registration holds nm.lock nobody dispatches.
Excluded == lock # NoOne => Trusted(lock) /\ Readers = {}

\* The methods under a lock belong to every trusted service of that lock.
Provenance ==
    \A v \in Services : Trusted(v) => appHandlerRegistry[v.lock] \subseteq v.methods

\* The lock of p is being registered again.
Renewed(p) == lock # NoOne /\ lock.lock = LockOf(p)

\* A method that was there is there, or is put back by the registration under way.
SureThere ==
    \A p \in sure :
        /\ LockOf(p) # NoLock
        /\ p.method \in IF Renewed(p) THEN lock.methods ELSE appHandlerRegistry[LockOf(p)]

Guarded == MapsOK /\ Excluded /\ Provenance /\ SureThere /\ RegisteredStay

\* A lock of a service and of a configured name is one of Locks.
LEMMA LocksOfServices ==
    /\ Router.lock \in Locks
    /\ \A v \in Services : v.lock \in Locks
    /\ \A p : LockOf(p) # NoLock => LockOf(p) \in Locks
  BY RouterAssumption DEF Locks, LockOf

\* The router's service is a trusted one.
LEMMA RouterTrusted == Trusted(Router)
  BY RouterAssumption DEF Trusted

LEMMA GuardedInit == Init => Guarded
<1> SUFFICES ASSUME Init PROVE Guarded
  OBVIOUS
<1> USE DEF Init
<1>1. MapsOK
  BY DEF MapsOK, PlaceNames
<1>2. Excluded
  BY DEF Excluded
<1>3. Provenance
  <2>1. SUFFICES ASSUME NEW v \in Services, Trusted(v)
                 PROVE  appHandlerRegistry[v.lock] \subseteq v.methods
    BY DEF Provenance
  <2>2. v.lock \in Locks
    BY LocksOfServices
  <2>3. CASE v.lock = Router.lock
    <3>1. v.methods = Router.methods
      BY <2>1, <2>3, RouterTrusted, SharedLocksAssumption
    <3> QED
      BY <2>2, <2>3, <3>1
  <2>4. CASE v.lock # Router.lock
    BY <2>2, <2>4
  <2> QED
    BY <2>3, <2>4
<1>4. SureThere
  BY DEF SureThere
<1>5. RegisteredStay
  BY DEF RegisteredStay
<1> QED
  BY <1>1, <1>2, <1>3, <1>4, <1>5 DEF Guarded

\* Nothing changes when neither the maps nor a packet does.
LEMMA GuardedQuiet ==
    ASSUME Guarded, UNCHANGED <<appHandlerRegistry, lock, tasks>>
    PROVE  Guarded'
<1> USE DEF tasks, Guarded
<1>1. MapsOK'
  BY DEF MapsOK
<1>2. Excluded'
  BY DEF Excluded, Readers
<1>3. Provenance'
  BY DEF Provenance
<1>4. SureThere'
  BY DEF SureThere, Renewed
<1>5. RegisteredStay'
  BY DEF RegisteredStay
<1> QED
  BY <1>1, <1>2, <1>3, <1>4, <1>5

\* A step of one packet that keeps the maps.
LEMMA GuardedMove ==
    ASSUME Guarded, UNCHANGED <<appHandlerRegistry, lock, sure>>,
           NEW p, NEW label \in PlaceNames,
           pc' = [pc EXCEPT ![p] = label],
           label \in {"dispatching", "noting", "noted"} => lock = NoOne,
           label = "refused" => p \notin sure
    PROVE  Guarded'
<1> USE DEF Guarded
<1>1. MapsOK'
  BY DEF MapsOK
<1>2. \A q \in Packets : pc'[q] = IF q = p THEN label ELSE pc[q]
  BY DEF MapsOK
<1>3. Excluded'
  BY <1>2 DEF Excluded, Readers
<1>4. Provenance'
  BY DEF Provenance
<1>5. SureThere'
  BY DEF SureThere, Renewed
<1>6. RegisteredStay'
  BY <1>2 DEF RegisteredStay, MapsOK
<1> QED
  BY <1>1, <1>3, <1>4, <1>5, <1>6

\* A packet whose method is registered when it is read becomes sure of it.
LEMMA GuardedRead ==
    ASSUME Guarded, NEW s \in Starts, NEW p \in Packets, Read(s, p)
    PROVE  Guarded'
<1> USE DEF Guarded, Read, maps
<1>1. MapsOK'
  BY DEF MapsOK, PlaceNames
<1>2. \A q \in Packets : pc'[q] = IF q = p THEN "held" ELSE pc[q]
  BY DEF MapsOK
<1>3. Excluded'
  BY <1>2 DEF Excluded, Readers
<1>4. Provenance'
  BY DEF Provenance
<1>5. SureThere'
  <2>1. SUFFICES ASSUME NEW q \in sure'
                 PROVE  /\ LockOf(q) # NoLock
                        /\ q.method \in IF Renewed(q) THEN lock.methods
                                        ELSE appHandlerRegistry[LockOf(q)]
    BY DEF SureThere, Renewed
  <2>2. CASE q \in sure
    BY <2>2 DEF SureThere
  <2>3. CASE q \notin sure
    <3>1. Registered(q)
      BY <2>3
    <3>2. CASE Renewed(q)
      <4>1. lock \in Services /\ Trusted(lock) /\ lock.lock = LockOf(q)
        BY <3>2 DEF Renewed, Excluded, MapsOK
      <4> QED
        BY <3>1, <3>2, <4>1 DEF Registered, Provenance
    <3> QED
      BY <3>1, <3>2 DEF Registered
  <2> QED
    BY <2>2, <2>3
<1>6. RegisteredStay'
  BY <1>2 DEF RegisteredStay, MapsOK
<1> QED
  BY <1>1, <1>3, <1>4, <1>5, <1>6

\* DispatchRPC does not refuse a packet that is sure of its method.
LEMMA GuardedRefuse ==
    ASSUME Guarded, NEW p \in Packets, Refuse(p)
    PROVE  Guarded'
<1>1. p \in Readers /\ ~Registered(p)
  BY DEF Refuse, Readers
<1>2. lock = NoOne
  BY <1>1 DEF Guarded, Excluded
<1>3. p \notin sure
  BY <1>1, <1>2 DEF Guarded, SureThere, Renewed, Registered
<1> QED
  BY <1>3, GuardedMove DEF Refuse, Goto, PlaceNames, maps

\* A registration takes the methods of its lock away and will put them back.
LEMMA GuardedRegister ==
    ASSUME Guarded, NEW v \in Services, Register(v)
    PROVE  Guarded'
<1> USE DEF Guarded, Register, tasks
<1>1. v.lock \in Locks /\ lock = NoOne /\ Trusted(v)
  BY LocksOfServices
<1>2. \A l \in Locks : appHandlerRegistry'[l] = IF l = v.lock THEN {} ELSE appHandlerRegistry[l]
  BY DEF MapsOK
<1>3. MapsOK'
  BY DEF MapsOK
<1>4. Excluded'
  BY <1>1 DEF Excluded, Readers
<1>5. Provenance'
  BY <1>2, LocksOfServices DEF Provenance
<1>6. SureThere'
  <2>1. SUFFICES ASSUME NEW p \in sure
                 PROVE  /\ LockOf(p) # NoLock
                        /\ (p.method \in IF Renewed(p) THEN lock.methods
                                         ELSE appHandlerRegistry[LockOf(p)])'
    BY DEF SureThere
  <2>2. LockOf(p) # NoLock /\ LockOf(p) \in Locks /\ p.method \in appHandlerRegistry[LockOf(p)]
    BY <1>1, LocksOfServices DEF SureThere, Renewed
  <2>3. v # NoOne
    BY RouterAssumption
  <2>4. CASE v.lock = LockOf(p)
    BY <1>1, <2>2, <2>3, <2>4 DEF Renewed, Provenance
  <2>5. CASE v.lock # LockOf(p)
    BY <1>2, <2>2, <2>5 DEF Renewed
  <2> QED
    BY <2>2, <2>4, <2>5
<1>7. RegisteredStay'
  BY DEF RegisteredStay
<1> QED
  BY <1>3, <1>4, <1>5, <1>6, <1>7

\* Each method it puts back belongs to every trusted service of its lock.
LEMMA GuardedRegisterMethod ==
    ASSUME Guarded, NEW v \in Services, RegisterMethod(v)
    PROVE  Guarded'
<1> USE DEF Guarded, RegisterMethod, tasks
<1>1. v.lock \in Locks /\ lock = v /\ lock # NoOne /\ Trusted(v) /\ Readers = {}
  BY LocksOfServices, RouterAssumption DEF Excluded
<1>2. PICK m \in v.methods :
          appHandlerRegistry' = [appHandlerRegistry EXCEPT ![v.lock] = @ \cup {m}]
  OBVIOUS
<1>3. \A l \in Locks : appHandlerRegistry'[l] =
                          IF l = v.lock THEN appHandlerRegistry[l] \cup {m} ELSE appHandlerRegistry[l]
  BY <1>2 DEF MapsOK
<1>4. MapsOK'
  BY <1>2 DEF MapsOK
<1>5. Excluded'
  BY <1>1 DEF Excluded, Readers
<1>6. Provenance'
  <2>1. SUFFICES ASSUME NEW w \in Services, Trusted(w)
                 PROVE  appHandlerRegistry'[w.lock] \subseteq w.methods
    BY DEF Provenance
  <2>2. w.lock \in Locks /\ appHandlerRegistry[w.lock] \subseteq w.methods
    BY <2>1, LocksOfServices DEF Provenance
  <2>3. CASE w.lock = v.lock
    <3>1. w.methods = v.methods
      BY <1>1, <2>1, <2>3, SharedLocksAssumption
    <3> QED
      BY <1>3, <2>2, <2>3, <3>1
  <2>4. CASE w.lock # v.lock
    BY <1>3, <2>2, <2>4
  <2> QED
    BY <2>3, <2>4
<1>7. SureThere'
  <2>1. SUFFICES ASSUME NEW p \in sure
                 PROVE  /\ LockOf(p) # NoLock
                        /\ (p.method \in IF Renewed(p) THEN lock.methods
                                         ELSE appHandlerRegistry[LockOf(p)])'
    BY DEF SureThere
  <2>2. LockOf(p) # NoLock /\ LockOf(p) \in Locks
    BY LocksOfServices DEF SureThere
  <2>3. CASE v.lock = LockOf(p)
    BY <1>1, <2>2, <2>3 DEF Renewed, SureThere
  <2>4. CASE v.lock # LockOf(p)
    BY <1>1, <1>3, <2>2, <2>4 DEF Renewed, SureThere
  <2> QED
    BY <2>2, <2>3, <2>4
<1>8. RegisteredStay'
  BY DEF RegisteredStay
<1> QED
  BY <1>4, <1>5, <1>6, <1>7, <1>8

\* When it ends, all of them are back.
LEMMA GuardedRegisterEnds ==
    ASSUME Guarded, NEW v \in Services, RegisterEnds(v)
    PROVE  Guarded'
<1> USE DEF Guarded, RegisterEnds, tasks
<1>1. MapsOK'
  BY DEF MapsOK
<1>2. Excluded'
  BY DEF Excluded
<1>3. Provenance'
  BY DEF Provenance
<1>4. SureThere'
  <2>1. SUFFICES ASSUME NEW p \in sure
                 PROVE  LockOf(p) # NoLock /\ p.method \in appHandlerRegistry[LockOf(p)]
    BY DEF SureThere, Renewed
  <2>2. CASE Renewed(p)
    BY <2>2 DEF SureThere, Renewed
  <2>3. CASE ~Renewed(p)
    BY <2>3 DEF SureThere
  <2> QED
    BY <2>2, <2>3
<1>5. RegisteredStay'
  BY DEF RegisteredStay
<1> QED
  BY <1>1, <1>2, <1>3, <1>4, <1>5

\* Every step keeps the invariant.
LEMMA GuardedNext ==
    ASSUME Guarded, [Next]_vars
    PROVE  Guarded'
<1> USE DEF maps
<1>1. CASE Owner
  BY <1>1, GuardedQuiet
     DEF Owner, Start, StartRefused, Stop, CloseSocket, CloseReceiver, CloseTwice, Abort, StopEnds
<1>2. ASSUME NEW s \in Starts, ReaderStops(s)
      PROVE  Guarded'
  BY <1>2, GuardedQuiet DEF ReaderStops, ReadEnds, SendOnClosed, Abort
<1>3. ASSUME NEW s \in Starts, Server(s)
      PROVE  Guarded'
  <2>1. CASE ServeBegins(s) \/ ServeEnds(s)
    BY <2>1, GuardedQuiet DEF ServeBegins, ServeEnds
  <2>2. ASSUME NEW r \in Starts, Receive(s, r)
        PROVE  Guarded'
    BY <2>2, GuardedMove DEF Receive, PlaceNames
  <2> QED
    BY <1>3, <2>1, <2>2 DEF Server
<1>4. ASSUME NEW s \in Starts, Refresher(s)
      PROVE  Guarded'
  BY <1>4, GuardedQuiet DEF Refresher, Acknowledged, RefreshEnds
<1>5. ASSUME NEW p \in Packets, Serve(p)
      PROVE  Guarded'
  <2>1. CASE Admit(p)
    BY <2>1, GuardedMove DEF Admit, Goto, PlaceNames
  <2>2. CASE Refuse(p)
    BY <2>2, GuardedRefuse
  <2>3. pc[p] \in {"dispatching", "noting", "noted"} => lock = NoOne
    BY DEF Guarded, Excluded, Readers
  <2>4. CASE Fail(p)
    BY <2>4, GuardedMove DEF Fail, Goto, PlaceNames
  <2>5. CASE Handle(p)
    BY <2>3, <2>5, GuardedMove DEF Handle, Goto, PlaceNames
  <2>6. CASE WriteCollides(p)
    BY <2>6, GuardedQuiet DEF WriteCollides, Abort
  <2>7. CASE Note(p)
    BY <2>3, <2>7, GuardedMove DEF Note, Goto, PlaceNames
  <2>8. CASE Reply(p)
    <3> DEFINE label == IF conn[via[p]] = "open" THEN "replied" ELSE "unanswered"
    <3>1. label \in {"replied", "unanswered"}
      OBVIOUS
    <3>2. pc' = [pc EXCEPT ![p] = label] /\ UNCHANGED <<appHandlerRegistry, lock, sure>>
      BY <2>8 DEF Reply, Goto
    <3> HIDE DEF label
    <3> QED
      BY <3>1, <3>2, GuardedMove DEF PlaceNames
  <2> QED
    BY <1>5, <2>1, <2>2, <2>4, <2>5, <2>6, <2>7, <2>8 DEF Serve
<1>6. ASSUME NEW v \in Services, Application(v)
      PROVE  Guarded'
  BY <1>6, GuardedRegister, GuardedRegisterMethod, GuardedRegisterEnds DEF Application
<1>7. CASE UNCHANGED vars
  BY <1>7, GuardedQuiet DEF vars
<1> QED
  BY <1>1, <1>2, <1>3, <1>4, <1>5, <1>6, <1>7, GuardedRead DEF Next

\* A method that is registered when a request for it is read is served, whatever is
\* registered again meanwhile.
THEOREM RegisteredStaySafe == Spec => []RegisteredStay
<1>1. Guarded => RegisteredStay
  BY DEF Guarded
<1> QED
  BY <1>1, GuardedInit, GuardedNext, PTL DEF Spec

-----------------------------------------------------------------------------
(* nm.peers and the replies.                                               *)

\* The sender of a packet is in nm.peers from the moment it is noted, not only when
\* the reply is out.
Ledger ==
    /\ pc \in [Packets -> PlaceNames]
    /\ \A p \in Packets \ torn : pc[p] \in {"noted", "replied"} => p.sender \in peers

\* A step of at most one packet: nm.peers only grows and torn writes stay torn.
LEMMA LedgerMove ==
    ASSUME Ledger, peers \subseteq peers', torn \subseteq torn',
           NEW p, NEW label \in PlaceNames,
           pc' = [pc EXCEPT ![p] = label],
           label \in {"noted", "replied"} =>
               p \in torn \/ p.sender \in peers' \/ (p \in Packets => pc[p] = "noted")
    PROVE  Ledger'
<1>1. \A q \in Packets : pc'[q] = IF q = p THEN label ELSE pc[q]
  BY DEF Ledger
<1>2. pc' \in [Packets -> PlaceNames]
  BY DEF Ledger
<1>3. ASSUME NEW q \in Packets \ torn', pc'[q] \in {"noted", "replied"}
      PROVE  q.sender \in peers'
  <2>1. CASE q = p
    BY <1>1, <1>3, <2>1 DEF Ledger
  <2>2. CASE q # p
    BY <1>1, <1>3, <2>2 DEF Ledger
  <2> QED
    BY <2>1, <2>2
<1> QED
  BY <1>2, <1>3 DEF Ledger

\* No packet moves.
LEMMA LedgerQuiet ==
    ASSUME Ledger, peers \subseteq peers', UNCHANGED <<pc, torn>>
    PROVE  Ledger'
  BY DEF Ledger

LEMMA LedgerNext ==
    ASSUME Ledger, [Next]_vars
    PROVE  Ledger'
<1> USE DEF maps, tasks
<1>1. CASE Owner
  BY <1>1, LedgerQuiet
     DEF Owner, Start, StartRefused, Stop, CloseSocket, CloseReceiver, CloseTwice, Abort, StopEnds
<1>2. ASSUME NEW s \in Starts, ReaderStops(s)
      PROVE  Ledger'
  BY <1>2, LedgerQuiet DEF ReaderStops, ReadEnds, SendOnClosed, Abort
<1>3. ASSUME NEW s \in Starts, NEW p \in Packets, Read(s, p)
      PROVE  Ledger'
  BY <1>3, LedgerMove DEF Read, PlaceNames
<1>4. ASSUME NEW s \in Starts, Server(s)
      PROVE  Ledger'
  <2>1. CASE ServeBegins(s) \/ ServeEnds(s)
    BY <2>1, LedgerQuiet DEF ServeBegins, ServeEnds
  <2>2. ASSUME NEW r \in Starts, Receive(s, r)
        PROVE  Ledger'
    BY <2>2, LedgerMove DEF Receive, PlaceNames
  <2> QED
    BY <1>4, <2>1, <2>2 DEF Server
<1>5. ASSUME NEW s \in Starts, Refresher(s)
      PROVE  Ledger'
  <2>1. peers \subseteq peers' /\ UNCHANGED <<pc, torn>>
    BY <1>5 DEF Refresher, Acknowledged, RefreshEnds
  <2> QED
    BY <2>1, LedgerQuiet
<1>6. ASSUME NEW p \in Packets, Serve(p)
      PROVE  Ledger'
  <2>1. CASE Admit(p) \/ Refuse(p) \/ Fail(p)
    BY <2>1, LedgerMove DEF Admit, Refuse, Fail, Goto, PlaceNames
  <2>2. CASE Handle(p)
    <3>1. torn \subseteq torn'
      BY <2>2 DEF Handle
    <3> QED
      BY <2>2, <3>1, LedgerMove DEF Handle, Goto, PlaceNames
  <2>3. CASE WriteCollides(p)
    BY <2>3, LedgerQuiet DEF WriteCollides, Abort
  <2>4. CASE Note(p)
    <3>1. peers \subseteq peers' /\ (p \in torn \/ p.sender \in peers')
      BY <2>4 DEF Note
    <3> QED
      BY <2>4, <3>1, LedgerMove DEF Note, Goto, PlaceNames
  <2>5. CASE Reply(p)
    <3> DEFINE label == IF conn[via[p]] = "open" THEN "replied" ELSE "unanswered"
    <3>1. label \in {"replied", "unanswered"}
      OBVIOUS
    <3>2. pc' = [pc EXCEPT ![p] = label] /\ pc[p] = "noted" /\ UNCHANGED <<peers, torn>>
      BY <2>5 DEF Reply, Goto
    <3> HIDE DEF label
    <3> QED
      BY <3>1, <3>2, LedgerMove DEF PlaceNames
  <2> QED
    BY <1>6, <2>1, <2>2, <2>3, <2>4, <2>5 DEF Serve
<1>7. ASSUME NEW v \in Services, Application(v)
      PROVE  Ledger'
  BY <1>7, LedgerQuiet DEF Application, Register, RegisterMethod, RegisterEnds
<1>8. CASE UNCHANGED vars
  BY <1>8, LedgerQuiet DEF vars
<1> QED
  BY <1>1, <1>2, <1>3, <1>4, <1>5, <1>6, <1>7, <1>8 DEF Next

\* Whoever has been answered is in nm.peers, unless the write was torn.
THEOREM NotedBeforeReplySafe == Spec => []NotedBeforeReply
<1>1. Init => Ledger
  BY DEF Init, Ledger, PlaceNames
<1>2. Ledger => NotedBeforeReply
  BY DEF Ledger, NotedBeforeReply
<1> QED
  BY <1>1, <1>2, LedgerNext, PTL DEF Spec

-----------------------------------------------------------------------------
(* Types.                                                                  *)

Methods == UNION {v.methods : v \in Services \cup {Router}}

Senders == {p.sender : p \in Packets}

MapsType ==
    /\ appHandlerRegistry \in [Locks -> SUBSET Methods]
    /\ peers \subseteq Senders
    /\ lock \in Services \cup {NoOne}
    /\ registrations \in 0 .. MaxRegistrations

MineType ==
    /\ receiver \in 0 .. MaxStarts /\ udpServ \in 0 .. MaxStarts
    /\ stopped \in BOOLEAN /\ owner \in {"idle", "stopping", "closing", "ending"}
    /\ starts \in 0 .. MaxStarts /\ stops \in 0 .. MaxStops

NetType ==
    /\ channel \in [Starts -> {"none", "open", "closed"}]
    /\ conn \in [Starts -> {"none", "open", "closed"}]
    /\ cancelled \in [Starts -> BOOLEAN]

LoopsType ==
    /\ reader \in [Starts -> {"none", "reading", "sending", "done"}]
    /\ held \in [Starts -> Packets \cup {Absent}]
    /\ server \in [Starts -> {"none", "spawned", "ranging", "done"}]
    /\ ranges \in [Starts -> 0 .. MaxStarts]
    /\ refresher \in [Starts -> {"none", "running", "done"}]

TasksType ==
    /\ pc \in [Packets -> PlaceNames]
    /\ via \in [Packets -> 0 .. MaxStarts]
    /\ sure \subseteq Packets /\ torn \subseteq Packets

Typed == MapsType /\ MineType /\ NetType /\ LoopsType /\ TasksType /\ up \in BOOLEAN

LEMMA TypedInit == Init => Typed
<1> SUFFICES ASSUME Init PROVE Typed
  OBVIOUS
<1> USE DEF Init
<1>1. MapsType
  <2>1. Router.methods \subseteq Methods
    BY DEF Methods
  <2>2. appHandlerRegistry \in [Locks -> SUBSET Methods]
    <3> DEFINE Entry(l) == IF l = Router.lock THEN Router.methods ELSE {}
    <3>1. \A l \in Locks : Entry(l) \in SUBSET Methods
      BY <2>1
    <3>2. appHandlerRegistry = [l \in Locks |-> Entry(l)]
      OBVIOUS
    <3> HIDE DEF Entry
    <3> QED
      BY <3>1, <3>2
  <2>3. lock \in Services \cup {NoOne} /\ peers \subseteq Senders
    OBVIOUS
  <2>4. registrations \in 0 .. MaxRegistrations
    BY BoundsAssumption
  <2> QED
    BY <2>2, <2>3, <2>4 DEF MapsType
<1>2. MineType
  <2>1. 0 \in 0 .. MaxStarts /\ 0 \in 0 .. MaxStops
    BY BoundsAssumption
  <2> QED
    BY <2>1 DEF MineType
<1>3. NetType
  BY DEF NetType
<1>4. LoopsType
  <2>1. 0 \in 0 .. MaxStarts
    BY BoundsAssumption
  <2> QED
    BY <2>1 DEF LoopsType
<1>5. TasksType
  BY BoundsAssumption DEF TasksType, PlaceNames
<1> QED
  BY <1>1, <1>2, <1>3, <1>4, <1>5 DEF Typed

\* The steps that write each group, in the order of Next.
LEMMA MapsTypeNext ==
    ASSUME Typed, [Next]_vars
    PROVE  MapsType'
<1> USE DEF Typed, MapsType
<1>1. CASE UNCHANGED maps
  BY <1>1 DEF maps
<1>2. ASSUME NEW s \in Starts, Acknowledged(s)
      PROVE  MapsType'
  <2>1. peers' \subseteq Senders
    BY <1>2 DEF Acknowledged, Senders
  <2> QED
    BY <1>2, <2>1 DEF Acknowledged
<1>3. ASSUME NEW p \in Packets, Note(p)
      PROVE  MapsType'
  <2>1. peers' \subseteq Senders
    BY <1>3 DEF Note, Senders
  <2> QED
    BY <1>3, <2>1 DEF Note
<1>4. ASSUME NEW v \in Services, Application(v)
      PROVE  MapsType'
  <2>1. v.lock \in Locks /\ v.methods \subseteq Methods
    BY LocksOfServices DEF Methods
  <2>2. CASE Register(v)
    <3>1. registrations' \in 0 .. MaxRegistrations
      BY <2>2, BoundsAssumption DEF Register
    <3> QED
      BY <2>1, <2>2, <3>1 DEF Register
  <2>3. CASE RegisterMethod(v)
    <3>1. PICK m \in v.methods :
              appHandlerRegistry' = [appHandlerRegistry EXCEPT ![v.lock] = @ \cup {m}]
      BY <2>3 DEF RegisterMethod
    <3>2. appHandlerRegistry[v.lock] \cup {m} \in SUBSET Methods
      BY <2>1, <3>1
    <3>3. appHandlerRegistry' \in [Locks -> SUBSET Methods]
      BY <3>1, <3>2
    <3> QED
      BY <2>3, <3>3 DEF RegisterMethod
  <2>4. CASE RegisterEnds(v)
    BY <2>4 DEF RegisterEnds
  <2> QED
    BY <1>4, <2>2, <2>3, <2>4 DEF Application
<1>5. CASE Owner
  BY <1>1, <1>5
     DEF Owner, Start, StartRefused, Stop, CloseSocket, CloseReceiver, CloseTwice, Abort, StopEnds
<1>6. ASSUME NEW s \in Starts, ReaderStops(s) \/ Server(s) \/ RefreshEnds(s)
      PROVE  MapsType'
  BY <1>1, <1>6 DEF ReaderStops, ReadEnds, SendOnClosed, Abort, Server, ServeBegins, ServeEnds,
                    Receive, RefreshEnds
<1>7. ASSUME NEW s \in Starts, NEW p \in Packets, Read(s, p)
      PROVE  MapsType'
  BY <1>1, <1>7 DEF Read
<1>8. ASSUME NEW p \in Packets, Serve(p)
      PROVE  MapsType'
  BY <1>1, <1>3, <1>8 DEF Serve, Admit, Refuse, Fail, Handle, WriteCollides, Abort, Reply
<1>9. CASE UNCHANGED vars
  BY <1>1, <1>9 DEF vars
<1> QED
  BY <1>2, <1>4, <1>5, <1>6, <1>7, <1>8, <1>9 DEF Next, Refresher

LEMMA MineTypeNext ==
    ASSUME Typed, [Next]_vars
    PROVE  MineType'
<1> USE DEF Typed, MineType
<1>1. CASE UNCHANGED mine
  BY <1>1 DEF mine
<1>2. CASE Start
  BY <1>2, BoundsAssumption DEF Start
<1>3. CASE StartRefused
  BY <1>3, BoundsAssumption DEF StartRefused
<1>4. CASE Stop
  BY <1>4, BoundsAssumption DEF Stop
<1>5. CASE CloseSocket \/ CloseReceiver \/ CloseTwice \/ StopEnds
  BY <1>5 DEF CloseSocket, CloseReceiver, CloseTwice, Abort, StopEnds, mine
<1>6. ASSUME NEW s \in Starts, ReaderStops(s) \/ Server(s) \/ Refresher(s)
      PROVE  MineType'
  BY <1>1, <1>6 DEF ReaderStops, ReadEnds, SendOnClosed, Abort, Server, ServeBegins, ServeEnds,
                    Receive, Refresher, Acknowledged, RefreshEnds
<1>7. ASSUME NEW s \in Starts, NEW p \in Packets, Read(s, p)
      PROVE  MineType'
  BY <1>1, <1>7 DEF Read
<1>8. ASSUME NEW p \in Packets, Serve(p)
      PROVE  MineType'
  BY <1>1, <1>8 DEF Serve, Admit, Refuse, Fail, Handle, WriteCollides, Abort, Note, Reply
<1>9. ASSUME NEW v \in Services, Application(v)
      PROVE  MineType'
  BY <1>1, <1>9 DEF Application, Register, RegisterMethod, RegisterEnds
<1>10. CASE UNCHANGED vars
  BY <1>1, <1>10 DEF vars
<1> QED
  BY <1>2, <1>3, <1>4, <1>5, <1>6, <1>7, <1>8, <1>9, <1>10 DEF Next, Owner

LEMMA NetTypeNext ==
    ASSUME Typed, [Next]_vars
    PROVE  NetType'
<1> USE DEF Typed, NetType
<1>1. CASE UNCHANGED net
  BY <1>1 DEF net
<1>2. CASE Start
  BY <1>2 DEF Start
<1>3. CASE StartRefused
  BY <1>3 DEF StartRefused
<1>4. CASE Stop
  <2>1. \A s \in Starts : (cancelled[s] \/ s = udpServ) \in BOOLEAN
    OBVIOUS
  <2> QED
    BY <1>4, <2>1 DEF Stop
<1>5. CASE CloseSocket
  BY <1>5 DEF CloseSocket
<1>6. CASE CloseReceiver
  BY <1>6 DEF CloseReceiver
<1>7. CASE CloseTwice \/ StopEnds
  BY <1>1, <1>7 DEF CloseTwice, Abort, StopEnds
<1>8. ASSUME NEW s \in Starts, ReaderStops(s) \/ Server(s) \/ Refresher(s)
      PROVE  NetType'
  BY <1>1, <1>8 DEF ReaderStops, ReadEnds, SendOnClosed, Abort, Server, ServeBegins, ServeEnds,
                    Receive, Refresher, Acknowledged, RefreshEnds
<1>9. ASSUME NEW s \in Starts, NEW p \in Packets, Read(s, p)
      PROVE  NetType'
  BY <1>1, <1>9 DEF Read
<1>10. ASSUME NEW p \in Packets, Serve(p)
       PROVE  NetType'
  BY <1>1, <1>10 DEF Serve, Admit, Refuse, Fail, Handle, WriteCollides, Abort, Note, Reply
<1>11. ASSUME NEW v \in Services, Application(v)
       PROVE  NetType'
  BY <1>1, <1>11 DEF Application, Register, RegisterMethod, RegisterEnds
<1>12. CASE UNCHANGED vars
  BY <1>1, <1>12 DEF vars
<1> QED
  BY <1>2, <1>3, <1>4, <1>5, <1>6, <1>7, <1>8, <1>9, <1>10, <1>11, <1>12 DEF Next, Owner

LEMMA LoopsTypeNext ==
    ASSUME Typed, [Next]_vars
    PROVE  LoopsType'
<1> USE DEF Typed, LoopsType
<1>1. CASE UNCHANGED loops
  BY <1>1 DEF loops
<1>2. CASE Start
  BY <1>2 DEF Start
<1>3. CASE StartRefused
  BY <1>3 DEF StartRefused
<1>4. CASE Stop \/ CloseSocket \/ CloseReceiver \/ CloseTwice \/ StopEnds
  BY <1>1, <1>4 DEF Stop, CloseSocket, CloseReceiver, CloseTwice, Abort, StopEnds
<1>5. ASSUME NEW s \in Starts, ReaderStops(s)
      PROVE  LoopsType'
  BY <1>1, <1>5 DEF ReaderStops, ReadEnds, SendOnClosed, Abort
<1>6. ASSUME NEW s \in Starts, NEW p \in Packets, Read(s, p)
      PROVE  LoopsType'
  BY <1>6 DEF Read
<1>7. ASSUME NEW s \in Starts, ServeBegins(s) \/ ServeEnds(s)
      PROVE  LoopsType'
  BY <1>7 DEF ServeBegins, ServeEnds, MineType
<1>8. ASSUME NEW s \in Starts, NEW r \in Starts, Receive(s, r)
      PROVE  LoopsType'
  BY <1>8 DEF Receive
<1>9. ASSUME NEW s \in Starts, Refresher(s)
      PROVE  LoopsType'
  BY <1>1, <1>9 DEF Refresher, Acknowledged, RefreshEnds
<1>10. ASSUME NEW p \in Packets, Serve(p)
       PROVE  LoopsType'
  BY <1>1, <1>10 DEF Serve, Admit, Refuse, Fail, Handle, WriteCollides, Abort, Note, Reply
<1>11. ASSUME NEW v \in Services, Application(v)
       PROVE  LoopsType'
  BY <1>1, <1>11 DEF Application, Register, RegisterMethod, RegisterEnds
<1>12. CASE UNCHANGED vars
  BY <1>1, <1>12 DEF vars
<1> QED
  BY <1>2, <1>3, <1>4, <1>5, <1>6, <1>7, <1>8, <1>9, <1>10, <1>11, <1>12 DEF Next, Owner, Server

LEMMA TasksTypeNext ==
    ASSUME Typed, [Next]_vars
    PROVE  TasksType'
<1> USE DEF Typed, TasksType
<1>1. CASE UNCHANGED tasks
  BY <1>1 DEF tasks
<1>2. CASE Owner
  BY <1>1, <1>2
     DEF Owner, Start, StartRefused, Stop, CloseSocket, CloseReceiver, CloseTwice, Abort, StopEnds
<1>3. ASSUME NEW s \in Starts, ReaderStops(s) \/ Refresher(s)
      PROVE  TasksType'
  BY <1>1, <1>3 DEF ReaderStops, ReadEnds, SendOnClosed, Abort, Refresher, Acknowledged, RefreshEnds
<1>4. ASSUME NEW s \in Starts, NEW p \in Packets, Read(s, p)
      PROVE  TasksType'
  <2>1. s \in 0 .. MaxStarts
    BY BoundsAssumption DEF Starts
  <2>2. sure' \subseteq Packets
    BY <1>4 DEF Read
  <2> QED
    BY <1>4, <2>1, <2>2 DEF Read, PlaceNames
<1>5. ASSUME NEW s \in Starts, Server(s)
      PROVE  TasksType'
  <2>1. CASE ServeBegins(s) \/ ServeEnds(s)
    BY <1>1, <2>1 DEF ServeBegins, ServeEnds
  <2>2. ASSUME NEW r \in Starts, Receive(s, r)
        PROVE  TasksType'
    BY <2>2 DEF Receive, PlaceNames
  <2> QED
    BY <1>5, <2>1, <2>2 DEF Server
<1>6. ASSUME NEW p \in Packets, Serve(p)
      PROVE  TasksType'
  <2>1. CASE Admit(p) \/ Refuse(p) \/ Fail(p) \/ Note(p)
    BY <2>1 DEF Admit, Refuse, Fail, Note, Goto, PlaceNames
  <2>2. CASE Handle(p)
    <3>1. torn' \subseteq Packets
      BY <2>2 DEF Handle, Writing
    <3> QED
      BY <2>2, <3>1 DEF Handle, Goto, PlaceNames
  <2>3. CASE WriteCollides(p)
    BY <1>1, <2>3 DEF WriteCollides, Abort
  <2>4. CASE Reply(p)
    BY <2>4 DEF Reply, Goto, PlaceNames
  <2> QED
    BY <1>6, <2>1, <2>2, <2>3, <2>4 DEF Serve
<1>7. ASSUME NEW v \in Services, Application(v)
      PROVE  TasksType'
  BY <1>1, <1>7 DEF Application, Register, RegisterMethod, RegisterEnds
<1>8. CASE UNCHANGED vars
  BY <1>1, <1>8 DEF vars
<1> QED
  BY <1>2, <1>3, <1>4, <1>5, <1>6, <1>7, <1>8 DEF Next

LEMMA UpNext ==
    ASSUME Typed, [Next]_vars
    PROVE  up' \in BOOLEAN
<1> USE DEF Typed
<1>1. CASE Owner
  BY <1>1
     DEF Owner, Start, StartRefused, Stop, CloseSocket, CloseReceiver, CloseTwice, Abort, StopEnds
<1>2. ASSUME NEW s \in Starts, ReaderStops(s) \/ Server(s) \/ Refresher(s)
      PROVE  up' \in BOOLEAN
  BY <1>2 DEF ReaderStops, ReadEnds, SendOnClosed, Abort, Server, ServeBegins, ServeEnds,
              Receive, Refresher, Acknowledged, RefreshEnds
<1>3. ASSUME NEW s \in Starts, NEW p \in Packets, Read(s, p)
      PROVE  up' \in BOOLEAN
  BY <1>3 DEF Read
<1>4. ASSUME NEW p \in Packets, Serve(p)
      PROVE  up' \in BOOLEAN
  BY <1>4 DEF Serve, Admit, Refuse, Fail, Handle, WriteCollides, Abort, Note, Reply
<1>5. ASSUME NEW v \in Services, Application(v)
      PROVE  up' \in BOOLEAN
  BY <1>5 DEF Application, Register, RegisterMethod, RegisterEnds
<1>6. CASE UNCHANGED vars
  BY <1>6 DEF vars
<1> QED
  BY <1>1, <1>2, <1>3, <1>4, <1>5, <1>6 DEF Next

LEMMA TypedNext ==
    ASSUME Typed, [Next]_vars
    PROVE  Typed'
<1>1. MapsType' /\ MineType'
  BY MapsTypeNext, MineTypeNext
<1>2. NetType' /\ LoopsType'
  BY NetTypeNext, LoopsTypeNext
<1>3. TasksType' /\ up' \in BOOLEAN
  BY TasksTypeNext, UpNext
<1> QED
  BY <1>1, <1>2, <1>3 DEF Typed

\* Every variable keeps its type, and a registration and a dispatch never overlap.
THEOREM NetworkTypeOK == Spec => []TypeOK
<1>1. Typed /\ Guarded => TypeOK
  <2>1. SUFFICES ASSUME Typed, Guarded PROVE TypeOK
    OBVIOUS
  <2>2. lock # NoOne => Readers = {}
    BY <2>1 DEF Guarded, Excluded
  <2> QED
    BY <2>1, <2>2 DEF Typed, MapsType, MineType, NetType, LoopsType, TasksType, TypeOK,
                      Methods, Senders, PlaceNames
<1> QED
  BY <1>1, TypedInit, TypedNext, GuardedInit, GuardedNext, PTL DEF Spec

=============================================================================

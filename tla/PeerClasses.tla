----------------------------- MODULE PeerClasses -----------------------------
(***************************************************************************)
(* What the routing table promises, with no buckets, splits or locks: for   *)
(* every length of prefix shared with the local node, the table knows the K *)
(* closest of the contacts it has heard from, at their latest address, and  *)
(* a lookup names the K of all of them that are closest to the target.  A   *)
(* call takes effect exactly once, at some moment before it returns.        *)
(***************************************************************************)
EXTENDS ContactSets

CONSTANTS
    Contacts,       \* the contacts the node hears from
    Removable,      \* the contacts that may be removed
    Targets,        \* the identifiers that are looked up
    Callers         \* who calls

VARIABLES
    classes,        \* for every length of prefix, the contacts known
    owed,           \* what each caller waits for: "note", "forget", "answer", or "nothing"
    call,           \* the call each caller makes
    answer          \* the answer each caller is being given: a set of one, or {}

NoCall == [op |-> "none", from |-> Local, target |-> LocalID]

Init ==
    /\ classes = [d \in BitIndex |-> {}]
    /\ owed = [g \in Callers |-> "nothing"]
    /\ call = [g \in Callers |-> NoCall]
    /\ answer = [g \in Callers |-> {}]

Request(g, op, c, t, what) ==
    /\ owed[g] = "nothing"
    /\ owed' = [owed EXCEPT ![g] = what]
    /\ call' = [call EXCEPT ![g] = [op |-> op, from |-> c, target |-> t]]
    /\ UNCHANGED <<classes, answer>>

Done(g) ==
    /\ owed' = [owed EXCEPT ![g] = "nothing"]
    /\ call' = [call EXCEPT ![g] = NoCall]

\* The node hears from the sender; a lookup goes on from there.
Note(g) ==
    LET c == call[g].from
    IN  /\ owed[g] = "note"
        /\ classes' =
             IF c.id = LocalID THEN classes
             ELSE [classes EXCEPT ![Prefix(c)] = Nearest(Without(@, c) \cup {c}, LocalID)]
        /\ \/ call[g].op = "Update" /\ Done(g)
           \/ call[g].op = "FindNode" /\ owed' = [owed EXCEPT ![g] = "answer"] /\ UNCHANGED call
        /\ UNCHANGED answer

Forget(g) ==
    LET c == call[g].from
    IN  /\ owed[g] = "forget" /\ c.id # LocalID
        /\ classes' = [classes EXCEPT ![Prefix(c)] = Without(@, c)]
        /\ Done(g)
        /\ UNCHANGED answer

Known == UNION {classes[d] : d \in BitIndex}

Answer(g) ==
    /\ owed[g] = "answer" /\ answer[g] = {}
    /\ answer' = [answer EXCEPT ![g] = {Nearest(Known, call[g].target)}]
    /\ UNCHANGED <<classes, owed, call>>

Answered(g) ==
    /\ answer[g] # {}
    /\ answer' = [answer EXCEPT ![g] = {}]
    /\ Done(g)
    /\ UNCHANGED classes

Next == \E g \in Callers :
    \/ \E c \in Contacts : Request(g, "Update", c, LocalID, "note")
    \/ \E c \in Contacts, t \in Targets : Request(g, "FindNode", c, t, "note")
    \/ \E c \in Removable : Request(g, "Remove", c, LocalID, "forget")
    \/ Note(g) \/ Forget(g) \/ Answer(g) \/ Answered(g)

Spec == Init /\ [][Next]_<<classes, owed, call, answer>>

=============================================================================

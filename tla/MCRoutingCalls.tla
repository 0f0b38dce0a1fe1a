---------------------------- MODULE MCRoutingCalls ----------------------------
(***************************************************************************)
(* Whole calls of the routing table for TLC, in one run of two parts: one   *)
(* goroutine alone, whose calls the table promises to serve as PeerClasses  *)
(* does, and two at once, whose calls must all return.                      *)
(***************************************************************************)
EXTENDS MCRoutingTable

\* In place of the call of a goroutine that never makes any.
Retired == [NoCall EXCEPT !.op = "retired"]

Alone == call[g2] = Retired

MCRemovables == MCContacts \cup MCLocalRemovable

\* Alone, a goroutine hears from everyone and removes anyone but the local node;
\* two hear from three peers and may remove the local node, after which splits are
\* refused.
InScope(made) ==
    made.from \in IF made.op = "Remove"
                  THEN IF Alone THEN MCContacts ELSE MCLocalRemovable
                  ELSE IF Alone THEN MCMoving ELSE MCTriple

\* Before anything has happened.
Retire ==
    /\ Init
    /\ call' = [call EXCEPT ![g2] = Retired]
    /\ UNCHANGED <<table, locks, pc, ref, reader>>

MCNext ==
    \/ Retire
    \/ \E g \in Goroutines : call[g] # Retired /\ Begin(g) /\ InScope(call'[g])
    \/ \E g \in Goroutines : Step(g)

MCSpec == Init /\ [][MCNext]_vars /\ Fairness

\* RoutingTable's mapping where one goroutine calls; where two do, nothing is claimed.
AlonePromised == INSTANCE PeerClasses WITH
    Callers <- Goroutines,
    classes <- [d \in BitIndex |->
                  {c \in InTable \ {Local} : Alone /\ Prefix(c) = d}],
    owed    <- [g \in Goroutines |-> IF Alone THEN Owed(g) ELSE "nothing"],
    call    <- [g \in Goroutines |-> IF Alone /\ g # g2 THEN call[g] ELSE NoCall],
    answer  <- [g \in Goroutines |-> IF Alone /\ Returning(g) THEN {Reply(g)} ELSE {}]

\* Promise, of a goroutine that calls alone: its updates, removals and lookups take
\* effect exactly once and before they return (routing_table.go, buckets.go), although
\* buckets split in between.
PromiseAlone == AlonePromised!Spec

=============================================================================

------------------------------ MODULE MCLookup ------------------------------
(***************************************************************************)
(* Small instances of Lookup for TLC: a node 101 and five others.           *)
(***************************************************************************)
EXTENDS Lookup, TLC

\* The identifier whose bits spell n.
Bits(n) == [i \in 0 .. 2 |-> (n \div 2 ^ (2 - i)) % 2]

Peer(n) == [id |-> Bits(n), addr |-> n]

MCLocalID == Bits(5)                  \* 101

\* Three that share no bit with it: one more than K.
MCOthers == {Peer(0), Peer(1), Peer(2), Peer(4), Peer(7)}

MCBootstrap == Peer(1)

At(n) == IF n = 5 THEN Local ELSE Peer(n)

Tables(f) ==
    (Local :> {Peer(n) : n \in f[5]}) @@ [c \in MCOthers |-> {At(n) : n \in f[c.addr]}]

\* The bootstrap node knows those of its class and one more; a chain from it to the
\* nearest; nodes that know nearer ones than this node of its class; and this node not
\* new but knowing two of the others.
Star  == Tables(5 :> {} @@ 1 :> {0, 2, 4} @@ 0 :> {1} @@ 2 :> {1} @@ 4 :> {1} @@ 7 :> {1})
Chain == Tables(5 :> {} @@ 1 :> {2} @@ 2 :> {0} @@ 0 :> {7} @@ 7 :> {4} @@ 4 :> {})
Full  == Tables(5 :> {} @@ 1 :> {0, 2, 7} @@ 0 :> {4, 7} @@ 2 :> {4, 7} @@ 4 :> {0, 1} @@ 7 :> {0, 1})
Known == Tables(5 :> {2} @@ 1 :> {0, 4} @@ 0 :> {1, 5} @@ 2 :> {4, 7} @@ 4 :> {0, 1} @@ 7 :> {4})

MCWorlds == {Star, Chain, Full, Known}

MCCalls == {<<"join", MCLocalID>>, <<"put", Bits(2)>>, <<"refresh", Bits(3)>>}

MCDead == {Peer(7)}

=============================================================================

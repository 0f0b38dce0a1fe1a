-------------------------- MODULE MCNetworkManager --------------------------
(***************************************************************************)
(* Small instances of NetworkManager for TLC: the router's service under    *)
(* its two names, which share a lock, and one service of an application.    *)
(***************************************************************************)
EXTENDS NetworkManager, TLC

CONSTANTS alice, bob, rlock, clock

MCAppLocks == ("RoutingService" :> rlock) @@ ("KademliaService" :> rlock) @@ ("chat" :> clock)

MCRouter == [name |-> "RoutingService", lock |-> rlock, methods |-> {"Ping", "FindNode"}]
MCKademlia == [name |-> "KademliaService", lock |-> rlock, methods |-> {"Ping", "FindNode"}]
MCChat == [name |-> "chat", lock |-> clock, methods |-> {"Say"}]

\* One whose lock is not the configured one, and one that is not configured.
MCForged == [name |-> "chat", lock |-> rlock, methods |-> {"Say"}]
MCUnknown == [name |-> "files", lock |-> clock, methods |-> {"Say"}]

MCServices == {MCKademlia, MCChat, MCForged, MCUnknown}

Request(service, method, sender) == [service |-> service, method |-> method, sender |-> sender]

\* A ping, and a request for a service that may not be registered yet.
MCPackets == {Request("KademliaService", "Ping", alice), Request("chat", "Say", bob)}

OnePacket == {Request("KademliaService", "Ping", alice)}

=============================================================================

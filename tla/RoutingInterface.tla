--------------------------- MODULE RoutingInterface ---------------------------
(***************************************************************************)
(* RoutingInterface (routing_logic.py): what the routers share.  Service    *)
(* discovery lists engines; route_general_request passes a router the       *)
(* endpoints of the requested model; one router object serves all models.   *)
(*                                                                          *)
(* The hash ring (uhashring, external) puts each node at fixed points; a    *)
(* session belongs to the node of the first point above its hash, and past  *)
(* the last point to the node of the lowest one.                            *)
(***************************************************************************)
EXTENDS Integers, Sequences, FiniteSets

CONSTANTS
    Urls,       \* engines, numbered in the order of their URLs
    Models,
    Serves,     \* the model of each engine
    Points,     \* the points of each engine on the ring
    Sessions,   \* session ids
    Hash,       \* their hashes
    Qps,        \* values of RequestStats.qps
    NoUrl,      \* no engine
    None        \* no session id, no list, no instance

ASSUME RoutingAssumption ==
    /\ Urls \subseteq Nat
    /\ Serves \in [Urls -> Models]
    /\ Points \in [Urls -> SUBSET Nat]
    /\ \A u \in Urls : Points[u] # {}
    /\ \A u, v \in Urls : u # v => Points[u] \cap Points[v] = {}
    /\ Hash \in [Sessions -> Nat]
    /\ Qps \subseteq Int
    /\ NoUrl \notin Urls
    /\ None \notin Sessions

VARIABLES
    up,         \* engines service discovery lists
    hash_ring,  \* nodes of the router's ring
    last        \* history: the endpoints of the last call and its result

NoCall == [endpoints |-> {}, url |-> NoUrl]
CallType == [endpoints : SUBSET Urls, url : Urls \cup {NoUrl}]

\* The endpoints route_general_request passes for model m.
EndpointsFor(m) == {u \in up : Serves[u] = m}

\* Service discovery adds or removes an engine.
Toggle(u) == up' = IF u \in up THEN up \ {u} ELSE up \cup {u}

update_hash_ring_AddOnly(endpoints) == hash_ring' = hash_ring \cup (endpoints \ hash_ring)

\* _update_hash_ring
update_hash_ring(endpoints) ==
    hash_ring' = (hash_ring \ (hash_ring \ endpoints)) \cup (endpoints \ hash_ring)

\* hash_ring.get_node: whether node u of the ring gets the hash h
RingPoints(nodes) == UNION {Points[u] : u \in nodes}
Above(nodes, h) == {p \in RingPoints(nodes) : p > h}

GetsNode(u, nodes, h) ==
    \E p \in Points[u] :
       IF Above(nodes, h) # {}
       THEN p > h /\ \A q \in Above(nodes, h) : p <= q
       ELSE \A q \in RingPoints(nodes) : p <= q

\* _qps_routing.  The list's order is arbitrary: the first engine without
\* statistics is any of these, the first with the lowest qps any of those.
qps_routing(u, endpoints, stats) ==
    IF endpoints \subseteq DOMAIN stats
    THEN \A v \in endpoints : stats[u] <= stats[v]
    ELSE u \notin DOMAIN stats

SessionOrQps_NoSession(u, endpoints, s) ==
    /\ update_hash_ring(endpoints)
    /\ u \in {v \in endpoints : \E reported \in SUBSET endpoints :
                 \E stats \in [reported -> Qps] : qps_routing(v, endpoints, stats)}

\* The common end of SessionRouter and KvawareRouter: the ring for a session
\* id, the lowest qps without one.
SessionOrQps(u, endpoints, s) ==
    /\ update_hash_ring(endpoints)
    /\ IF s = None
       THEN u \in {v \in endpoints : \E reported \in SUBSET endpoints :
                      \E stats \in [reported -> Qps] : qps_routing(v, endpoints, stats)}
       ELSE u \in hash_ring' /\ GetsNode(u, hash_ring', Hash[s])
-----------------------------------------------------------------------------
(* Properties.                                                              *)

\* "Route the request to the appropriate engine URL" (routing_logic.py:126)
\* among "The list of engine URLs" (routing_logic.py:129): the result is one
\* of the endpoints passed.
ChosenIsEndpoint == last.url \in last.endpoints \cup {NoUrl}
=============================================================================

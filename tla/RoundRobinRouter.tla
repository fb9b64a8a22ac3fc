--------------------------- MODULE RoundRobinRouter ---------------------------
(***************************************************************************)
(* RoundRobinRouter.route_request (routing_logic.py).  route_general_request*)
(* builds a new list of endpoints for every request, and the router         *)
(* recognises a list by id(endpoints), the address of the list object.  A   *)
(* list lives as long as the coroutine of its request; its address may then *)
(* be used again.                                                           *)
(*                                                                          *)
(* Reading the endpoints and choosing one happen between two awaits, so     *)
(* they are one action.  The hash of the tuple of URLs is taken to tell     *)
(* different lists apart, and sorted() forgets their order, so a list is    *)
(* the set of its URLs.                                                     *)
(***************************************************************************)
EXTENDS RoutingInterface

CONSTANTS
    Handlers,    \* coroutines of route_general_request
    Ids,         \* addresses a list object may have
    MaxRequests  \* bound on req_id

ASSUME RoundRobinAssumption ==
    /\ IsFiniteSet(Urls)
    /\ Cardinality(Ids) > Cardinality(Handlers)
    /\ MaxRequests \in Nat
    /\ None \notin Ids

VARIABLES
    live,                 \* the address of each handler's list, or None
    req_id,
    sorted_endpoints,
    last_endpoints_id,
    last_endpoints_hash,
    reused,               \* history: the last list had the address of the one
                          \* before it and other contents
    counts                \* history: choices since the list last changed

rr_router == <<req_id, sorted_endpoints, last_endpoints_id, last_endpoints_hash>>
rr_vars == <<live, rr_router, reused, counts>>

Zero == [u \in Urls |-> 0]

RoundRobinTypeOK ==
    /\ live \in [Handlers -> Ids \cup {None}]
    /\ req_id \in 0 .. MaxRequests
    /\ sorted_endpoints \in Seq(Urls)
    /\ last_endpoints_id \in Ids \cup {None}
    /\ last_endpoints_hash \in SUBSET Urls
    /\ reused \in BOOLEAN
    /\ counts \in [Urls -> Nat]

RoundRobinInit ==
    /\ live = [h \in Handlers |-> None]
    /\ req_id = 0
    /\ sorted_endpoints = <<>>
    /\ last_endpoints_id = None
    /\ last_endpoints_hash = {}
    /\ reused = FALSE
    /\ counts = Zero

\* sorted(endpoints, key=lambda e: e.url)
SortedUrls(S) ==
    CHOOSE sorted \in [1 .. Cardinality(S) -> S] :
       \A i, j \in 1 .. Cardinality(S) : i < j => sorted[i] < sorted[j]

Choose_Clamped(sorted) == sorted[IF req_id < Len(sorted) THEN req_id + 1 ELSE Len(sorted)]

\* self.sorted_endpoints[self.req_id % len(self.sorted_endpoints)]
Choose(sorted) == sorted[(req_id % Len(sorted)) + 1]

Refresh_Never(id, endpoints) ==
    IF sorted_endpoints # <<>> THEN sorted_endpoints ELSE SortedUrls(endpoints)

\* The sorted list after the two tests that avoid sorting again.
Refresh(id, endpoints) ==
    IF id # last_endpoints_id /\ endpoints # last_endpoints_hash
    THEN SortedUrls(endpoints) ELSE sorted_endpoints

\* route_request for a list at address id
rr_route_request(id, endpoints) ==
    LET sorted == Refresh(id, endpoints)
        url == Choose(sorted)
    IN /\ sorted_endpoints' = sorted
       /\ last_endpoints_hash' = IF id # last_endpoints_id THEN endpoints
                                                           ELSE last_endpoints_hash
       /\ last_endpoints_id' = id
       /\ req_id' = req_id + 1
       /\ last' = [endpoints |-> endpoints, url |-> url]
       /\ reused' = (id = last_endpoints_id /\ endpoints # last_endpoints_hash)
       /\ counts' = [(IF endpoints = last.endpoints /\ ~reused
                         THEN counts ELSE Zero) EXCEPT ![url] = @ + 1]

\* A request for model m: its endpoints, in a new list at an address no live
\* list has.
RoundRobinRoute(h, m) ==
    /\ live[h] = None
    /\ req_id < MaxRequests
    /\ EndpointsFor(m) # {}
    /\ \E id \in Ids \ {live[g] : g \in Handlers} :
          /\ live' = [live EXCEPT ![h] = id]
          /\ rr_route_request(id, EndpointsFor(m))
    /\ UNCHANGED <<up, hash_ring>>

\* The coroutine returns and its list is freed.
RoundRobinReturn(h) ==
    /\ live[h] # None
    /\ live' = [live EXCEPT ![h] = None]
    /\ UNCHANGED <<up, hash_ring, last, rr_router, reused, counts>>
-----------------------------------------------------------------------------
(* Properties.                                                              *)

\* As long as the requests pass the same engines, these get the same number
\* of requests up to one, wherever req_id stood when that list came.
BalancedWhileStable ==
    ~reused => \A u, v \in last.endpoints : counts[u] - counts[v] <= 1
=============================================================================

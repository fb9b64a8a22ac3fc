---------------------------- MODULE SessionRouter ----------------------------
(***************************************************************************)
(* SessionRouter.route_request (routing_logic.py).  One ring serves all     *)
(* models: every request first makes the ring's nodes its own endpoints.    *)
(***************************************************************************)
EXTENDS RoutingInterface

VARIABLE route   \* history: the last call of each session

session_vars == <<up, hash_ring, last, route>>

SessionTypeOK ==
    /\ up \in SUBSET Urls
    /\ hash_ring \in SUBSET Urls
    /\ last \in CallType
    /\ route \in [Sessions -> CallType]

SessionInit ==
    /\ up \in SUBSET Urls
    /\ hash_ring = {}
    /\ last = NoCall
    /\ route = [s \in Sessions |-> NoCall]

\* route_request for the endpoints of model m and session s
SessionRoute(m, s) ==
    /\ EndpointsFor(m) # {}
    /\ \E u \in Urls :
          /\ SessionOrQps(u, EndpointsFor(m), s)
          /\ last' = [endpoints |-> EndpointsFor(m), url |-> u]
    /\ route' = IF s = None THEN route ELSE [route EXCEPT ![s] = last']
    /\ UNCHANGED up
-----------------------------------------------------------------------------
(* Properties.                                                              *)

\* A session stays where it is: between two of its requests it moves only
\* when its engine left the endpoints, or to an engine that has joined them.
Sticky ==
    [][\A s \in Sessions :
          route'[s].url # route[s].url =>
             \/ route[s].url \notin route'[s].endpoints
             \/ route'[s].url \notin route[s].endpoints]_session_vars
=============================================================================

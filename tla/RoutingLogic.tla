----------------------------- MODULE RoutingLogic -----------------------------
(***************************************************************************)
(* The routers of the router (routing_logic.py): initialize_routing_logic   *)
(* creates the one that is configured, and route_general_request asks it,   *)
(* while service discovery adds and removes engines.                        *)
(***************************************************************************)
EXTENDS RoundRobinRouter, SessionRouter, PrefixAwareRouter, KvawareRouter

CONSTANT Logics   \* the routing logics that may be configured

ASSUME RoutingLogicAssumption ==
    Logics \subseteq {"roundrobin", "session", "prefixaware", "kvaware"}

VARIABLE routing_logic

vars == <<routing_logic, session_vars, rr_vars, prefix_vars, kv_vars>>

TypeOK ==
    /\ routing_logic \in Logics
    /\ SessionTypeOK /\ RoundRobinTypeOK /\ PrefixTypeOK /\ KvawareTypeOK

\* initialize_routing_logic.  The state of the routers that are not created
\* is never used.
Init ==
    /\ routing_logic \in Logics
    /\ SessionInit /\ RoundRobinInit /\ PrefixInit /\ KvawareInit

\* Service discovery adds or removes an engine.
Change(u) ==
    /\ Toggle(u)
    /\ UNCHANGED <<routing_logic, hash_ring, last, route, rr_vars, prefix_vars, kv_vars>>

RoundRobin ==
    /\ routing_logic = "roundrobin"
    /\ \E h \in Handlers :
          RoundRobinReturn(h) \/ \E m \in Models : RoundRobinRoute(h, m)
    /\ UNCHANGED <<routing_logic, route, prefix_vars, kv_vars>>

Session ==
    /\ routing_logic = "session"
    /\ \E m \in Models, s \in Sessions \cup {None} : SessionRoute(m, s)
    /\ UNCHANGED <<routing_logic, rr_vars, prefix_vars, kv_vars>>

PrefixAware ==
    /\ routing_logic = "prefixaware"
    /\ \E m \in Models, prompt \in Prompts : PrefixRoute(m, prompt)
    /\ UNCHANGED <<routing_logic, route, rr_vars, kv_vars>>

Kvaware ==
    /\ routing_logic = "kvaware"
    /\ \E h \in KvHandlers :
          \/ \E m \in Models : KvLookup(h, m)
          \/ \E s \in Sessions \cup {None} : KvFallback(h, s)
          \/ KvQuery(h) \/ KvError(h)
          \/ \E i \in Instances : KvMatched(h, i)
    /\ UNCHANGED <<routing_logic, route, rr_vars, prefix_vars>>

Next ==
    \/ \E u \in Urls : Change(u)
    \/ RoundRobin \/ Session \/ PrefixAware \/ Kvaware

Spec == Init /\ [][Next]_vars
-----------------------------------------------------------------------------
(* Properties.                                                              *)

\* Every router returns one of the endpoints it was passed, although one
\* router object, ring and trie serve all models, except for what two of them
\* cache: round-robin a list at the address of the last list, kvaware the URL
\* of an instance that matched.
ChosenUnlessCached ==
    \/ ChosenIsEndpoint
    \/ routing_logic = "roundrobin" /\ reused
    \/ routing_logic = "kvaware" /\ kv_matched # None
=============================================================================

---------------------------- MODULE KvawareRouter ----------------------------
(***************************************************************************)
(* KvawareRouter.route_request (routing_logic.py).  It asks the LMCache     *)
(* controller (external) which instance holds a prefix of the prompt, and   *)
(* finds the URL of the instance in instance_id_to_ip, which it fills by    *)
(* asking for the instance of every endpoint.  Each question is an await:   *)
(* other requests run in between.                                           *)
(*                                                                          *)
(* The controller's tokens have no model.  An instance id is the fixed      *)
(* instanceId of a deployment, so a pod that replaces another has its id    *)
(* and a new URL; a URL is never given to a second pod.                     *)
(***************************************************************************)
EXTENDS RoutingInterface

CONSTANTS
    KvHandlers,  \* coroutines of route_general_request, one request each
    InstanceOf   \* the LMCache instance id of the engine at each URL

ASSUME KvawareAssumption ==
    /\ DOMAIN InstanceOf = Urls
    /\ \A u \in Urls : InstanceOf[u] # None

Instances == {InstanceOf[u] : u \in Urls}

VARIABLES
    instance_id_to_ip,  \* instance id -> URL, NoUrl when absent
    kv,                 \* the requests in flight
    kv_matched          \* history: the instance the last call matched

kv_vars == <<instance_id_to_ip, kv, kv_matched>>

KvRequests == [pc : {"idle", "lookup", "query", "done"}, endpoints : SUBSET Urls,
               instance : Instances \cup {None}, todo : SUBSET Urls]
NoRequest == [pc |-> "idle", endpoints |-> {}, instance |-> None, todo |-> {}]

KvawareTypeOK ==
    /\ instance_id_to_ip \in [Instances -> Urls \cup {NoUrl}]
    /\ kv \in [KvHandlers -> KvRequests]
    /\ kv_matched \in Instances \cup {None}

KvawareInit ==
    /\ instance_id_to_ip = [i \in Instances |-> NoUrl]
    /\ kv = [h \in KvHandlers |-> NoRequest]
    /\ kv_matched = None

\* The request matched to i (None: to none) returns url; NoUrl stands for an
\* exception (a KeyError, or a controller that does not answer), which the
\* client gets as a 500.
KvReturn(h, i, url) ==
    /\ last' = [endpoints |-> kv[h].endpoints, url |-> url]
    /\ kv_matched' = i
    /\ kv' = [kv EXCEPT ![h] = [NoRequest EXCEPT !.pc = "done"]]

\* The history is forgotten by the next step.
KvNoReturn == last' = NoCall /\ kv_matched' = None

\* The prompt is tokenized and the lookup sent.
KvLookup(h, m) ==
    /\ kv[h] = NoRequest
    /\ EndpointsFor(m) # {}
    /\ kv' = [kv EXCEPT ![h] = [NoRequest EXCEPT !.pc = "lookup",
                                                !.endpoints = EndpointsFor(m)]]
    /\ KvNoReturn
    /\ UNCHANGED <<up, hash_ring, instance_id_to_ip>>

\* No layout_info, or too few tokens matched: as the SessionRouter.
KvFallback(h, s) ==
    /\ kv[h].pc = "lookup"
    /\ \E u \in Urls : /\ SessionOrQps(u, kv[h].endpoints, s)
                       /\ KvReturn(h, None, u)
    /\ UNCHANGED <<up, instance_id_to_ip>>

\* Instance i holds the prefix.
KvMatched(h, i) ==
    /\ kv[h].pc = "lookup"
    /\ IF instance_id_to_ip[i] # NoUrl
       THEN KvReturn(h, i, instance_id_to_ip[i])
       ELSE /\ kv' = [kv EXCEPT ![h].pc = "query", ![h].instance = i,
                                ![h].todo = kv[h].endpoints]
            /\ KvNoReturn
    /\ UNCHANGED <<up, hash_ring, instance_id_to_ip>>

KvQuery_Early(h) ==
    /\ kv[h].pc = "query"
    /\ \E u \in kv[h].todo :
          /\ instance_id_to_ip' = [instance_id_to_ip EXCEPT ![kv[h].instance] = u]
          /\ KvReturn(h, kv[h].instance, u)
    /\ UNCHANGED <<up, hash_ring>>

\* The controller names the instance of one more endpoint, or knows none
\* there; after the last one the URL of the matched instance is returned.
KvQuery(h) ==
    /\ kv[h].pc = "query"
    /\ \E u \in kv[h].todo : \E i \in {InstanceOf[u], None} :
          /\ instance_id_to_ip' = IF i = None THEN instance_id_to_ip
                                  ELSE [instance_id_to_ip EXCEPT ![i] = u]
          /\ IF kv[h].todo = {u}
             THEN KvReturn(h, kv[h].instance, instance_id_to_ip'[kv[h].instance])
             ELSE /\ kv' = [kv EXCEPT ![h].todo = @ \ {u}]
                  /\ KvNoReturn
    /\ UNCHANGED <<up, hash_ring>>

\* The lookup raises: the remote tokenizer or the controller did not answer.
KvError(h) ==
    /\ kv[h].pc \in {"lookup", "query"}
    /\ KvReturn(h, kv[h].instance, NoUrl)
    /\ UNCHANGED <<up, hash_ring, instance_id_to_ip>>
-----------------------------------------------------------------------------
(* Properties.                                                              *)

\* A matched request is sent to the instance that holds its prefix, although
\* other requests, of other models too, change the map while it waits for
\* the controller.
KvGoesToHolder ==
    (kv_matched # None /\ last.url # NoUrl) =>
        InstanceOf[last.url] = kv_matched
=============================================================================

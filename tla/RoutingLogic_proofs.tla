-------------------------- MODULE RoutingLogic_proofs --------------------------
(***************************************************************************)
(* Proofs about RoutingLogic, for any engines, models, ring points,         *)
(* sessions, prompts and LMCache instances and whichever router runs.       *)
(*                                                                          *)
(* - Sticky: the history route[s] records an owner of Hash[s] among its     *)
(*   endpoints (OwnerInv), and two owners for two sets of nodes that both   *)
(*   contain both are the same (SameOwner).                                 *)
(* - LongestMatch: the trie holds exactly the prefixes of the prompts sent  *)
(*   (TrieInv), so the deepest node with an available endpoint has all the  *)
(*   endpoints with the longest common prefix.                              *)
(* - KvGoesToHolder: every entry of the map is true (MapInv).               *)
(* - BalancedWhileStable: sorted_endpoints is the sorted form of the list   *)
(*   whose hash was kept (ListInv), and since that list came the choices    *)
(*   went around it, each endpoint as often as the others or once more, the *)
(*   latter being the last ones before req_id (RoundInv, Dealt).            *)
(* - ChosenUnlessCached: with these, each router picks an endpoint or       *)
(*   returns what it caches (CallInv).                                      *)
(***************************************************************************)
EXTENDS RoutingLogic, FiniteSetTheorems, WellFoundedInduction, TLAPS

\* What the history records of a session is an owner of its hash.
OwnerInv ==
    /\ route \in [Sessions -> CallType]
    /\ \A s \in Sessions :
          route[s].url # NoUrl =>
             /\ route[s].url \in route[s].endpoints
             /\ GetsNode(route[s].url, route[s].endpoints, Hash[s])

\* The endpoints of a node were sent a prompt that leads through it.
TrieInv ==
    /\ sent \in SUBSET (Prompts \X Urls)
    /\ trie = [path \in Prompts |->
                 {u \in Urls : \E q \in Prompts : /\ <<q, u>> \in sent
                                                  /\ \E k \in 0 .. Len(q) : path = Chunked(q, k)}]

\* The map names for an instance a URL where it runs, and a request that
\* matched an instance was sent to a URL of it.
MapInv ==
    /\ instance_id_to_ip \in [Instances -> Urls \cup {NoUrl}]
    /\ \A i \in Instances : instance_id_to_ip[i] # NoUrl =>
                               InstanceOf[instance_id_to_ip[i]] = i
    /\ kv \in [KvHandlers -> KvRequests]
    /\ \A h \in KvHandlers : kv[h].pc = "query" => kv[h].instance # None
    /\ kv_matched # None => routing_logic = "kvaware"
    /\ KvGoesToHolder

UpInv == up \in SUBSET Urls

-----------------------------------------------------------------------------
(* The hash ring.                                                           *)

(* The nodes of the ring after _update_hash_ring are the endpoints.         *)
LEMMA RingIsEndpoints ==
    ASSUME NEW endpoints, update_hash_ring(endpoints)
    PROVE  hash_ring' = endpoints
BY DEF update_hash_ring

(* Consistent hashing: if the owners u among S and v among T are both nodes *)
(* of both rings, they are the same node.                                   *)
LEMMA SameOwner ==
    ASSUME NEW S \in SUBSET Urls, NEW T \in SUBSET Urls, NEW h \in Nat,
           NEW u \in S \cap T, NEW v \in S \cap T,
           GetsNode(u, S, h), GetsNode(v, T, h)
    PROVE  u = v
<1>1. PICK p \in Points[u] : IF Above(S, h) # {}
                             THEN p > h /\ \A q \in Above(S, h) : p <= q
                             ELSE \A q \in RingPoints(S) : p <= q
  BY DEF GetsNode
<1>2. PICK r \in Points[v] : IF Above(T, h) # {}
                             THEN r > h /\ \A q \in Above(T, h) : r <= q
                             ELSE \A q \in RingPoints(T) : r <= q
  BY DEF GetsNode
<1>3. /\ p \in Nat /\ r \in Nat
      /\ p \in RingPoints(S) /\ p \in RingPoints(T)
      /\ r \in RingPoints(S) /\ r \in RingPoints(T)
  BY RoutingAssumption DEF RingPoints
<1>4. /\ p > h <=> p \in Above(S, h)
      /\ p > h <=> p \in Above(T, h)
      /\ r > h <=> r \in Above(S, h)
      /\ r > h <=> r \in Above(T, h)
  BY <1>3 DEF Above
<1>5. CASE Above(S, h) = {}
  <2>1. ~(r > h)
    BY <1>4, <1>5
  <2>2. Above(T, h) = {}
    BY <1>2, <2>1
  <2> QED
    BY <1>1, <1>2, <1>3, <1>5, <2>2, RoutingAssumption
<1>6. CASE Above(S, h) # {}
  <2>1. p > h
    BY <1>1, <1>6
  <2>2. Above(T, h) # {}
    BY <1>4, <2>1
  <2>3. r > h
    BY <1>2, <2>2
  <2>4. p <= r /\ r <= p
    BY <1>1, <1>2, <1>4, <1>6, <2>1, <2>2, <2>3
  <2> QED
    BY <1>3, <2>4, RoutingAssumption
<1> QED
  BY <1>5, <1>6

(* What a request with a session id does to the history of the sessions.    *)
LEMMA RouteSession ==
    ASSUME UpInv, NEW m \in Models, NEW s \in Sessions, SessionRoute(m, s)
    PROVE  \E E \in SUBSET Urls : \E u \in E :
              /\ GetsNode(u, E, Hash[s])
              /\ route' = [route EXCEPT ![s] = [endpoints |-> E, url |-> u]]
<1> DEFINE E == EndpointsFor(m)
<1>1. E \in SUBSET Urls
  BY DEF UpInv, EndpointsFor
<1>2. s # None
  BY RoutingAssumption
<1>3. PICK u \in Urls : /\ SessionOrQps(u, E, s)
                        /\ last' = [endpoints |-> E, url |-> u]
  BY DEF SessionRoute
<1>4. hash_ring' = E
  BY <1>3, RingIsEndpoints DEF SessionOrQps
<1>5. u \in E /\ GetsNode(u, E, Hash[s])
  BY <1>2, <1>3, <1>4 DEF SessionOrQps
<1>6. route' = [route EXCEPT ![s] = [endpoints |-> E, url |-> u]]
  BY <1>2, <1>3, Zenon DEF SessionRoute
<1> QED
  BY <1>1, <1>5, <1>6, Zenon

(* The conditions for Sticky hold initially.                                *)
LEMMA OwnerInit == Init => UpInv /\ OwnerInv
BY DEF Init, SessionInit, UpInv, OwnerInv, NoCall, CallType

(* Only a request with a session id changes the history of the sessions.    *)
LEMMA RouteChanges ==
    ASSUME Next, UpInv
    PROVE  \/ route' = route
           \/ \E s \in Sessions : \E E \in SUBSET Urls : \E u \in E :
                 /\ GetsNode(u, E, Hash[s])
                 /\ route' = [route EXCEPT ![s] = [endpoints |-> E, url |-> u]]
<1>1. CASE \E u \in Urls : Change(u)
  BY <1>1 DEF Change
<1>2. CASE RoundRobin \/ PrefixAware \/ Kvaware
  BY <1>2 DEF RoundRobin, PrefixAware, Kvaware
<1>3. CASE Session
  <2>1. PICK m \in Models, s \in Sessions \cup {None} : SessionRoute(m, s)
    BY <1>3 DEF Session
  <2>2. CASE s = None
    BY <2>1, <2>2 DEF SessionRoute
  <2>3. CASE s \in Sessions
    BY <2>1, <2>3, RouteSession
  <2> QED
    BY <2>2, <2>3
<1> QED
  BY <1>1, <1>2, <1>3 DEF Next

(* Service discovery alone changes the engines.                             *)
LEMMA UpStep == UpInv /\ [Next]_vars => UpInv'
<1> SUFFICES ASSUME UpInv, [Next]_vars PROVE UpInv'
  OBVIOUS
<1>1. CASE \E u \in Urls : Change(u)
  BY <1>1 DEF Change, Toggle, UpInv
<1>2. CASE RoundRobin
  BY <1>2 DEF RoundRobin, RoundRobinReturn, RoundRobinRoute, UpInv
<1>3. CASE Session
  BY <1>3 DEF Session, SessionRoute, UpInv
<1>4. CASE PrefixAware
  BY <1>4 DEF PrefixAware, PrefixRoute, UpInv
<1>5. CASE Kvaware
  BY <1>5, Zenon DEF Kvaware, KvLookup, KvFallback, KvQuery, KvError, KvMatched, UpInv
<1>6. CASE UNCHANGED vars
  BY <1>6 DEF vars, session_vars, UpInv
<1> QED
  BY <1>1, <1>2, <1>3, <1>4, <1>5, <1>6 DEF Next

(* A step keeps what the history of the sessions records.                   *)
LEMMA OwnerStep == UpInv /\ OwnerInv /\ [Next]_vars => OwnerInv'
<1> SUFFICES ASSUME UpInv, OwnerInv, [Next]_vars PROVE OwnerInv'
  OBVIOUS
<1>1. CASE route' = route
  BY <1>1 DEF OwnerInv, GetsNode, Above, RingPoints
<1>2. CASE route' # route
  <2>1. Next
    BY <1>2 DEF vars, session_vars
  <2>2. PICK s \in Sessions : \E E \in SUBSET Urls : \E u \in E :
              /\ GetsNode(u, E, Hash[s])
              /\ route' = [route EXCEPT ![s] = [endpoints |-> E, url |-> u]]
    BY <1>2, <2>1, RouteChanges
  <2>3. PICK E \in SUBSET Urls : \E u \in E :
              /\ GetsNode(u, E, Hash[s])
              /\ route' = [route EXCEPT ![s] = [endpoints |-> E, url |-> u]]
    BY <2>2, Zenon
  <2>4. PICK u \in E :
              /\ GetsNode(u, E, Hash[s])
              /\ route' = [route EXCEPT ![s] = [endpoints |-> E, url |-> u]]
    BY <2>3, Zenon
  <2>5. route' \in [Sessions -> CallType]
    BY <2>4 DEF OwnerInv, CallType
  <2>6. ASSUME NEW t \in Sessions, route'[t].url # NoUrl
        PROVE  /\ route'[t].url \in route'[t].endpoints
               /\ GetsNode(route'[t].url, route'[t].endpoints, Hash[t])
    <3>1. CASE t = s
      BY <2>4, <3>1 DEF OwnerInv
    <3>2. CASE t # s
      BY <2>4, <2>6, <3>2 DEF OwnerInv
    <3> QED
      BY <3>1, <3>2
  <2> QED
    BY <2>5, <2>6 DEF OwnerInv, GetsNode, Above, RingPoints
<1> QED
  BY <1>1, <1>2

(* A session moves only off an engine that left its endpoints or onto one   *)
(* that joined them, whichever engines, models and sessions share the ring. *)
THEOREM StickyRouting == Spec => Sticky
<1> DEFINE Move == \A s \in Sessions :
                      route'[s].url # route[s].url =>
                         \/ route[s].url \notin route'[s].endpoints
                         \/ route'[s].url \notin route[s].endpoints
<1>1. UpInv /\ OwnerInv /\ [Next]_vars => [Move]_session_vars
  <2> SUFFICES ASSUME UpInv, OwnerInv, [Next]_vars, session_vars' # session_vars
               PROVE  Move
    OBVIOUS
  <2>1. Next
    BY DEF vars
  <2>2. CASE route' = route
    BY <2>2
  <2>3. CASE route' # route
    <3>1. PICK s \in Sessions : \E E \in SUBSET Urls : \E u \in E :
              /\ GetsNode(u, E, Hash[s])
              /\ route' = [route EXCEPT ![s] = [endpoints |-> E, url |-> u]]
      BY <2>1, <2>3, RouteChanges
    <3>2. PICK E \in SUBSET Urls : \E u \in E :
              /\ GetsNode(u, E, Hash[s])
              /\ route' = [route EXCEPT ![s] = [endpoints |-> E, url |-> u]]
      BY <3>1, Zenon
    <3>3. PICK u \in E :
              /\ GetsNode(u, E, Hash[s])
              /\ route' = [route EXCEPT ![s] = [endpoints |-> E, url |-> u]]
      BY <3>2, Zenon
    <3> SUFFICES ASSUME NEW t \in Sessions,
                        route[t].url \in route'[t].endpoints,
                        route'[t].url \in route[t].endpoints
                 PROVE  route'[t].url = route[t].url
      OBVIOUS
    <3>4. CASE t # s
      BY <3>3, <3>4 DEF OwnerInv
    <3>5. CASE t = s
      <4>1. route'[t].endpoints = E /\ route'[t].url = u
        BY <3>3, <3>5 DEF OwnerInv
      <4>2. /\ route[t].url \in E /\ u \in route[t].endpoints
            /\ route[t].url # NoUrl
        BY <4>1, RoutingAssumption, Zenon
      <4>3. /\ route[t].url \in route[t].endpoints
            /\ GetsNode(route[t].url, route[t].endpoints, Hash[s])
            /\ route[t].endpoints \in SUBSET Urls
            /\ Hash[s] \in Nat
        BY <3>5, <4>2, RoutingAssumption DEF OwnerInv, CallType
      <4> QED
        BY <3>3, <4>1, <4>2, <4>3, SameOwner
    <3> QED
      BY <3>4, <3>5
  <2> QED
    BY <2>2, <2>3
<1>2. Spec => [](UpInv /\ OwnerInv)
  BY OwnerInit, UpStep, OwnerStep, PTL DEF Spec
<1> QED
  BY <1>1, <1>2, PTL DEF Spec, Sticky
-----------------------------------------------------------------------------
(* The trie.                                                                *)

(* A prompt is a sequence, and its first k chunks are as many as that.      *)
LEMMA ChunkedFacts ==
    ASSUME NEW q \in Prompts, NEW k \in 0 .. Len(q)
    PROVE  /\ Len(q) \in 0 .. MaxChunks
           /\ q \in [1 .. Len(q) -> Chunks]
           /\ Chunked(q, k) \in Prompts
           /\ Len(Chunked(q, k)) = k
           /\ Chunked(q, k) = [i \in 1 .. k |-> q[i]]
<1>1. PICK n \in 0 .. MaxChunks : q \in [1 .. n -> Chunks]
  BY DEF Prompts
<1>2. Len(q) = n /\ q \in Seq(Chunks)
  BY <1>1, HashTrieAssumption
<1>3. Chunked(q, k) = [i \in 1 .. k |-> q[i]]
  BY <1>2 DEF Chunked
<1>4. Chunked(q, k) \in [1 .. k -> Chunks] /\ k \in 0 .. MaxChunks
  BY <1>1, <1>2, <1>3, HashTrieAssumption
<1> QED
  BY <1>1, <1>2, <1>3, <1>4, HashTrieAssumption DEF Prompts

(* Two prompts that agree on k chunks agree on fewer.                       *)
LEMMA AgreeOnFewer ==
    ASSUME NEW q \in Prompts, NEW r \in Prompts, NEW k \in 0 .. Len(q), k <= Len(r),
           Chunked(q, k) = Chunked(r, k), NEW j \in 0 .. k
    PROVE  Chunked(q, j) = Chunked(r, j)
<1>1. k \in 0 .. Len(r) /\ j \in 0 .. Len(q) /\ j \in 0 .. Len(r)
  BY ChunkedFacts
<1>2. \A i \in 1 .. k : q[i] = r[i]
  BY <1>1, ChunkedFacts
<1>3. \A i \in 1 .. j : q[i] = r[i]
  BY <1>2
<1>4. /\ Chunked(q, j) = [i \in 1 .. j |-> q[i]]
      /\ Chunked(r, j) = [i \in 1 .. j |-> r[i]]
  BY <1>1, ChunkedFacts
<1> QED
  BY <1>3, <1>4

(* The invariant of the trie holds initially.                               *)
LEMMA TrieInit == Init => TrieInv
BY DEF Init, PrefixInit, TrieInv, EmptyTrie

(* Inserting a prompt keeps it.                                             *)
LEMMA TrieStep == UpInv /\ TrieInv /\ [Next]_vars => TrieInv'
<1> SUFFICES ASSUME UpInv, TrieInv, [Next]_vars PROVE TrieInv'
  OBVIOUS
<1>1. CASE UNCHANGED <<trie, sent>>
  BY <1>1 DEF TrieInv
<1>2. CASE PrefixAware
  <2>1. PICK m \in Models, prompt \in Prompts : PrefixRoute(m, prompt)
    BY <1>2 DEF PrefixAware
  <2>2. PICK u \in longest_prefix_match(trie, prompt, EndpointsFor(m)) :
           /\ trie' = insert(trie, prompt, u)
           /\ sent' = sent \cup {<<prompt, u>>}
    BY <2>1 DEF PrefixRoute
  <2>3. u \in Urls
    BY <2>2 DEF longest_prefix_match, EndpointsFor, UpInv
  <2> DEFINE Leads(path, q) == \E k \in 0 .. Len(q) : path = Chunked(q, k)
  <2>4. ASSUME NEW path \in Prompts
        PROVE  insert(trie, prompt, u)[path] =
                 {v \in Urls : \E q \in Prompts : <<q, v>> \in sent' /\ Leads(path, q)}
    <3>1. trie[path] = {v \in Urls : \E q \in Prompts : <<q, v>> \in sent /\ Leads(path, q)}
      BY DEF TrieInv
    <3>2. insert(trie, prompt, u)[path] =
             IF Leads(path, prompt) THEN trie[path] \cup {u} ELSE trie[path]
      BY DEF insert
    <3> HIDE DEF Leads
    <3>3. \A v \in Urls, q \in Prompts :
             <<q, v>> \in sent' <=> <<q, v>> \in sent \/ (q = prompt /\ v = u)
      BY <2>2
    <3>4. CASE Leads(path, prompt)
      BY <2>3, <3>1, <3>2, <3>3, <3>4
    <3>5. CASE ~Leads(path, prompt)
      BY <2>3, <3>1, <3>2, <3>3, <3>5
    <3> QED
      BY <3>4, <3>5
  <2>5. sent' \in SUBSET (Prompts \X Urls)
    BY <2>2, <2>3 DEF TrieInv
  <2>6. trie' = [path \in Prompts |->
                  {v \in Urls : \E q \in Prompts : <<q, v>> \in sent' /\ Leads(path, q)}]
    BY <2>2, <2>4, Zenon DEF insert
  <2> QED
    BY <2>5, <2>6 DEF TrieInv
<1>3. CASE ~PrefixAware
  BY <1>1, <1>3 DEF Next, vars, prefix_vars, Change, RoundRobin, Session, Kvaware
<1> QED
  BY <1>2, <1>3

(* An endpoint is selected after k chunks exactly when it was sent a prompt *)
(* that agrees on them.                                                     *)
LEMMA SelectedShares ==
    ASSUME TrieInv, NEW E \in SUBSET Urls, NEW prompt \in Prompts,
           NEW k \in 1 .. Len(prompt), NEW v \in E
    PROVE  v \in Selected(trie, prompt, E, k) <=> Shares(v, prompt, k)
<1> Len(prompt) \in Nat
  BY ChunkedFacts
<1>1. ASSUME Shares(v, prompt, k) PROVE v \in Selected(trie, prompt, E, k)
  <2>1. PICK q \in Prompts : /\ <<q, v>> \in sent
                             /\ k <= Len(q)
                             /\ Chunked(q, k) = Chunked(prompt, k)
    BY <1>1, Zenon DEF Shares
  <2>2. Len(q) \in Nat
    BY ChunkedFacts
  <2>3. ASSUME NEW j \in 1 .. k PROVE v \in trie[Chunked(prompt, j)]
    <3>1. /\ k \in 0 .. Len(q) /\ j \in 0 .. k /\ j \in 0 .. Len(q)
          /\ j \in 0 .. Len(prompt) /\ k <= Len(prompt)
      BY <2>1, <2>2
    <3>2. Chunked(q, j) = Chunked(prompt, j)
      BY <2>1, <3>1, AgreeOnFewer
    <3>3. Chunked(prompt, j) \in Prompts
      BY <3>1, ChunkedFacts
    <3> QED
      BY <2>1, <3>1, <3>2, <3>3, Zenon DEF TrieInv
  <2> QED
    BY <2>3 DEF Selected
<1>2. ASSUME v \in Selected(trie, prompt, E, k) PROVE Shares(v, prompt, k)
  <2>1. v \in trie[Chunked(prompt, k)]
    BY <1>2 DEF Selected
  <2>2. k \in 0 .. Len(prompt)
    OBVIOUS
  <2>3. Chunked(prompt, k) \in Prompts /\ Len(Chunked(prompt, k)) = k
    BY <2>2, ChunkedFacts
  <2>4. PICK q \in Prompts : /\ <<q, v>> \in sent
                             /\ \E l \in 0 .. Len(q) : Chunked(prompt, k) = Chunked(q, l)
    BY <2>1, <2>3, Zenon DEF TrieInv
  <2>5. PICK l \in 0 .. Len(q) : Chunked(prompt, k) = Chunked(q, l)
    BY <2>4
  <2>6. l = k
    BY <2>3, <2>5, ChunkedFacts
  <2>7. Len(q) \in Nat
    BY ChunkedFacts
  <2>8. k <= Len(q) /\ Chunked(q, k) = Chunked(prompt, k)
    BY <2>5, <2>6, <2>7
  <2> QED
    BY <2>4, <2>8, Zenon DEF Shares
<1> QED
  BY <1>1, <1>2

(* The prefix-aware router sends a prompt to an endpoint with the longest   *)
(* common prefix, for any prompts, engines and comings and goings of these. *)
THEOREM PrefixRouting == Spec => LongestMatch
<1> DEFINE Longest == prefix_vars' # prefix_vars =>
                        \A v \in last'.endpoints, k \in 1 .. Len(asked') :
                           Shares(v, asked', k) => Shares(last'.url, asked', k)
<1>1. UpInv /\ TrieInv /\ [Next]_vars => [Longest]_<<prefix_vars, last>>
  <2> SUFFICES ASSUME UpInv, TrieInv, [Next]_vars, prefix_vars' # prefix_vars
               PROVE  \A v \in last'.endpoints, k \in 1 .. Len(asked') :
                           Shares(v, asked', k) => Shares(last'.url, asked', k)
    OBVIOUS
  <2>1. PrefixAware
    BY DEF Next, vars, Change, RoundRobin, Session, Kvaware
  <2>2. PICK m \in Models, prompt \in Prompts : PrefixRoute(m, prompt)
    BY <2>1 DEF PrefixAware
  <2>3. PICK E \in SUBSET Urls : E = EndpointsFor(m)
    BY Zenon DEF EndpointsFor, UpInv
  <2>4. PICK u \in longest_prefix_match(trie, prompt, E) :
           last' = [endpoints |-> E, url |-> u]
    BY <2>2, <2>3 DEF PrefixRoute
  <2>5. asked' = prompt /\ u \in E /\ last'.endpoints = E /\ last'.url = u
    BY <2>2, <2>4 DEF PrefixRoute, longest_prefix_match
  <2>6. ASSUME NEW v \in E, NEW k \in 1 .. Len(prompt), Shares(v, prompt, k)
        PROVE  Shares(u, prompt, k)
    <3>1. v \in Selected(trie, prompt, E, k)
      BY <2>6, SelectedShares
    <3>2. u \in Selected(trie, prompt, E, k)
      BY <2>4, <3>1 DEF longest_prefix_match
    <3> QED
      BY <2>5, <3>2, SelectedShares
  <2> QED
    BY <2>5, <2>6
<1>2. Init => UpInv
  BY OwnerInit
<1>3. Spec => [](UpInv /\ TrieInv)
  BY <1>2, TrieInit, UpStep, TrieStep, PTL DEF Spec
<1> QED
  BY <1>1, <1>3, PTL DEF Spec, LongestMatch
-----------------------------------------------------------------------------
(* The map of the LMCache instances.                                        *)

(* The map is empty initially.                                              *)
LEMMA MapInit == Init => MapInv
BY DEF Init, KvawareInit, MapInv, KvGoesToHolder, KvRequests, NoRequest

(* Returning the URL of a true map for the instance that matched keeps the  *)
(* invariant.                                                               *)
LEMMA KvReturnKeeps ==
    ASSUME MapInv, routing_logic' = "kvaware",
           instance_id_to_ip' \in [Instances -> Urls \cup {NoUrl}],
           \A i \in Instances : instance_id_to_ip'[i] # NoUrl =>
                                   InstanceOf[instance_id_to_ip'[i]] = i,
           NEW h \in KvHandlers, NEW i \in Instances \cup {None}, NEW url,
           KvReturn(h, i, url),
           i # None /\ url # NoUrl => InstanceOf[url] = i
    PROVE  MapInv'
<1>1. /\ kv' = [kv EXCEPT ![h] = [NoRequest EXCEPT !.pc = "done"]]
      /\ kv_matched' = i /\ last'.url = url
  BY DEF KvReturn
<1>2. kv' \in [KvHandlers -> KvRequests]
  BY <1>1 DEF MapInv, KvRequests, NoRequest
<1>3. \A g \in KvHandlers : kv'[g].pc = "query" => kv'[g].instance # None
  BY <1>1 DEF MapInv, NoRequest
<1> QED
  BY <1>1, <1>2, <1>3 DEF MapInv, KvGoesToHolder

(* A question to the controller keeps the invariant when the map stays true.*)
LEMMA KvAskKeeps ==
    ASSUME MapInv, routing_logic' = "kvaware",
           instance_id_to_ip' \in [Instances -> Urls \cup {NoUrl}],
           \A i \in Instances : instance_id_to_ip'[i] # NoUrl =>
                                   InstanceOf[instance_id_to_ip'[i]] = i,
           NEW h \in KvHandlers, NEW r \in KvRequests,
           r.pc = "query" => r.instance # None,
           kv' = [kv EXCEPT ![h] = r], KvNoReturn
    PROVE  MapInv'
<1>1. kv' \in [KvHandlers -> KvRequests]
  BY DEF MapInv
<1>2. \A g \in KvHandlers : kv'[g].pc = "query" => kv'[g].instance # None
  BY DEF MapInv
<1> QED
  BY <1>1, <1>2 DEF MapInv, KvGoesToHolder, KvNoReturn

(* A step of the kvaware router keeps the map true.                         *)
LEMMA KvawareStep == UpInv /\ MapInv /\ Kvaware => MapInv'
<1> SUFFICES ASSUME UpInv, MapInv, Kvaware PROVE MapInv'
  OBVIOUS
<1>1. routing_logic' = "kvaware"
  BY DEF Kvaware
<1>2. /\ instance_id_to_ip \in [Instances -> Urls \cup {NoUrl}]
      /\ \A i \in Instances : instance_id_to_ip[i] # NoUrl =>
                                 InstanceOf[instance_id_to_ip[i]] = i
      /\ kv \in [KvHandlers -> KvRequests]
      /\ \A h \in KvHandlers : kv[h].pc = "query" => kv[h].instance # None
  BY DEF MapInv
<1>3. ASSUME NEW h \in KvHandlers, NEW m \in Models, KvLookup(h, m) PROVE MapInv'
  <2> DEFINE r == [NoRequest EXCEPT !.pc = "lookup", !.endpoints = EndpointsFor(m)]
  <2>1. r \in KvRequests
    BY Zenon DEF KvRequests, NoRequest, EndpointsFor, UpInv
  <2>2. r.pc # "query"
    BY DEF NoRequest
  <2>3. kv' = [kv EXCEPT ![h] = r] /\ KvNoReturn /\ instance_id_to_ip' = instance_id_to_ip
    BY <1>3 DEF KvLookup
  <2> HIDE DEF r
  <2> QED
    BY <1>1, <1>2, <2>1, <2>2, <2>3, KvAskKeeps, Zenon
<1>4. ASSUME NEW h \in KvHandlers, NEW s \in Sessions \cup {None}, KvFallback(h, s)
      PROVE  MapInv'
  BY <1>1, <1>2, <1>4, KvReturnKeeps, Zenon DEF KvFallback
<1>5. ASSUME NEW h \in KvHandlers, KvError(h) PROVE MapInv'
  <2>1. kv[h].instance \in Instances \cup {None}
    BY <1>2 DEF KvRequests
  <2> QED
    BY <1>1, <1>2, <1>5, <2>1, KvReturnKeeps DEF KvError
<1>6. ASSUME NEW h \in KvHandlers, NEW i \in Instances, KvMatched(h, i) PROVE MapInv'
  <2>1. instance_id_to_ip' = instance_id_to_ip
    BY <1>6 DEF KvMatched
  <2>2. CASE instance_id_to_ip[i] # NoUrl
    BY <1>1, <1>2, <1>6, <2>1, <2>2, KvReturnKeeps DEF KvMatched
  <2>3. CASE instance_id_to_ip[i] = NoUrl
    <3>1. i # None
      BY KvawareAssumption DEF Instances
    <3> DEFINE r == [kv[h] EXCEPT !.pc = "query", !.instance = i, !.todo = kv[h].endpoints]
    <3>2. r \in KvRequests
      BY <1>2, Zenon DEF KvRequests
    <3>3. r.instance # None
      BY <1>2, <3>1 DEF KvRequests
    <3>4. kv' = [kv EXCEPT ![h] = r] /\ KvNoReturn
      BY <1>2, <1>6, <2>3, Zenon DEF KvMatched
    <3>5. PICK q \in KvRequests : q = r /\ q.instance # None
      BY <3>2, <3>3, Zenon
    <3>6. kv' = [kv EXCEPT ![h] = q]
      BY <3>4, <3>5
    <3> QED
      BY <1>1, <1>2, <2>1, <3>4, <3>5, <3>6, KvAskKeeps, Zenon
  <2> QED
    BY <2>2, <2>3
<1>7. ASSUME NEW h \in KvHandlers, KvQuery(h) PROVE MapInv'
  <2>1. kv[h].pc = "query" /\ kv[h] \in KvRequests
    BY <1>2, <1>7 DEF KvQuery
  <2>2. kv[h].instance \in Instances
    BY <1>2, <2>1 DEF KvRequests
  <2>3. PICK u \in kv[h].todo : \E i \in {InstanceOf[u], None} :
          /\ instance_id_to_ip' = IF i = None THEN instance_id_to_ip
                                  ELSE [instance_id_to_ip EXCEPT ![i] = u]
          /\ IF kv[h].todo = {u}
             THEN KvReturn(h, kv[h].instance, instance_id_to_ip'[kv[h].instance])
             ELSE /\ kv' = [kv EXCEPT ![h].todo = @ \ {u}]
                  /\ KvNoReturn
    BY <1>7 DEF KvQuery
  <2>4. u \in Urls /\ InstanceOf[u] \in Instances
    BY <2>1 DEF KvRequests, Instances
  <2>5. /\ instance_id_to_ip' \in [Instances -> Urls \cup {NoUrl}]
        /\ \A i \in Instances : instance_id_to_ip'[i] # NoUrl =>
                                   InstanceOf[instance_id_to_ip'[i]] = i
    BY <1>2, <2>3, <2>4
  <2>6. CASE kv[h].todo = {u}
    BY <1>1, <2>2, <2>3, <2>5, <2>6, KvReturnKeeps
  <2>7. CASE kv[h].todo # {u}
    <3>1. PICK r \in KvRequests : r = [kv[h] EXCEPT !.todo = @ \ {u}]
      BY <2>1, Zenon DEF KvRequests
    <3>2. r.instance # None
      BY <1>2, <2>1, <3>1 DEF KvRequests
    <3>3. kv' = [kv EXCEPT ![h] = r] /\ KvNoReturn
      BY <1>2, <2>3, <2>7, <3>1
    <3> QED
      BY <1>1, <2>5, <3>2, <3>3, KvAskKeeps, Zenon
  <2> QED
    BY <2>6, <2>7
<1> QED
  BY <1>3, <1>4, <1>5, <1>6, <1>7 DEF Kvaware

(* So does every other step: it does not touch the map.                     *)
LEMMA MapStep == UpInv /\ MapInv /\ [Next]_vars => MapInv'
<1> SUFFICES ASSUME UpInv, MapInv, [Next]_vars PROVE MapInv'
  OBVIOUS
<1>1. CASE Kvaware
  BY <1>1, KvawareStep
<1>2. CASE \E u \in Urls : Change(u)
  BY <1>2 DEF Change, kv_vars, MapInv, KvGoesToHolder
<1>3. CASE RoundRobin \/ Session \/ PrefixAware
  <2>1. kv_vars' = kv_vars /\ routing_logic' = routing_logic /\ routing_logic # "kvaware"
    BY <1>3 DEF RoundRobin, Session, PrefixAware
  <2> QED
    BY <2>1 DEF kv_vars, MapInv, KvGoesToHolder
<1>4. CASE UNCHANGED vars
  BY <1>4 DEF vars, session_vars, kv_vars, MapInv, KvGoesToHolder
<1> QED
  BY <1>1, <1>2, <1>3, <1>4 DEF Next

(* A request that matched an LMCache instance is sent to a URL of it, for   *)
(* any number of requests filling the map at the same time.                 *)
THEOREM KvawareRouting == Spec => []KvGoesToHolder
<1>1. Init => UpInv
  BY OwnerInit
<1>2. MapInv => KvGoesToHolder
  BY DEF MapInv
<1> QED
  BY <1>1, <1>2, MapInit, UpStep, MapStep, PTL DEF Spec
-----------------------------------------------------------------------------
(* The sorted list and the rounds of RoundRobinRouter.                      *)

\* A nonempty set of naturals has a least element.
LEMMA NatLeast ==
    ASSUME NEW S, S \subseteq Nat, S # {}
    PROVE  \E x \in S : \A y \in S : x <= y
<1>1. PICK x \in S : \A y \in S : ~(<<y, x>> \in OpToRel(<, Nat))
  BY NatLessThanWellFounded, WFMin
<1>2. \A y \in S : ~(y < x)
  BY <1>1, Zenon DEF OpToRel
<1> QED
  BY <1>2

\* The first n elements of s are in the order of their URLs.
Increasing(s, n) == \A i, j \in 1 .. n : i < j => s[i] < s[j]

\* Every finite set of URLs can be sorted: there is no smallest one that
\* cannot.
LEMMA Sortable ==
    ASSUME NEW S \in SUBSET Nat, IsFiniteSet(S)
    PROVE  \E s \in [1 .. Cardinality(S) -> S] : Increasing(s, Cardinality(S))
<1> DEFINE Bad == {n \in Nat : \E T \in SUBSET Nat : /\ IsFiniteSet(T) /\ Cardinality(T) = n
                                                     /\ ~\E s \in [1 .. n -> T] : Increasing(s, n)}
<1>1. SUFFICES ASSUME Bad # {} PROVE FALSE
  <2>1. Cardinality(S) \in Nat /\ Cardinality(S) \notin Bad
    BY FS_CardinalityType
  <2> QED
    BY <2>1
<1>2. PICK n \in Bad : \A y \in Bad : n <= y
  <2>1. Bad \subseteq Nat
    OBVIOUS
  <2> HIDE DEF Bad
  <2> QED
    BY <1>1, <2>1, NatLeast, Zenon
<1>3. n \in Nat /\ \E T \in SUBSET Nat : /\ IsFiniteSet(T) /\ Cardinality(T) = n
                                         /\ ~\E s \in [1 .. n -> T] : Increasing(s, n)
  OBVIOUS
<1>4. PICK T \in SUBSET Nat : /\ IsFiniteSet(T) /\ Cardinality(T) = n
                              /\ ~\E s \in [1 .. n -> T] : Increasing(s, n)
  BY <1>3
<1>5. n # 0
  <2> SUFFICES ASSUME n = 0 PROVE \E s \in [1 .. n -> T] : Increasing(s, n)
    BY <1>4
  <2>1. \A i \in 1 .. n : FALSE
    OBVIOUS
  <2>2. [i \in 1 .. n |-> 0] \in [1 .. n -> T]
    BY <2>1, Zenon
  <2>3. Increasing([i \in 1 .. n |-> 0], n)
    BY <2>1, Zenon DEF Increasing
  <2> QED
    BY <2>2, <2>3, Zenon
<1>6. T # {}
  BY <1>4, <1>5, FS_EmptySet
<1>7. PICK u \in T : \A v \in T : u <= v
  BY <1>6, NatLeast, Zenon
<1> DEFINE R == T \ {u}
<1>8. R \in SUBSET Nat /\ IsFiniteSet(R) /\ Cardinality(R) = n - 1
  BY <1>4, FS_RemoveElement
<1>9. n - 1 \in Nat /\ n - 1 \notin Bad
  <2> HIDE DEF Bad
  <2>1. n \in Nat
    BY <1>3
  <2> QED
    BY <1>2, <1>5, <2>1
<1>10. PICK s \in [1 .. n - 1 -> R] : Increasing(s, n - 1)
  BY <1>8, <1>9
<1> DEFINE t == [i \in 1 .. n |-> IF i = 1 THEN u ELSE s[i - 1]]
<1>11. \A i \in 1 .. n : i # 1 => i - 1 \in 1 .. n - 1 /\ s[i - 1] \in R
  BY <1>3, <1>10
<1>12. t \in [1 .. n -> T]
  BY <1>11
<1>13. \A v \in R : u < v
  BY <1>7
<1>14. ASSUME NEW i \in 1 .. n, NEW j \in 1 .. n, i < j PROVE t[i] < t[j]
  <2>1. j # 1
    BY <1>3, <1>14
  <2>2. t[j] = s[j - 1] /\ s[j - 1] \in R
    BY <1>11, <2>1
  <2>3. CASE i = 1
    BY <1>13, <2>2, <2>3, Zenon
  <2>4. CASE i # 1
    <3>1. t[i] = s[i - 1] /\ i - 1 \in 1 .. n - 1 /\ j - 1 \in 1 .. n - 1 /\ i - 1 < j - 1
      BY <1>3, <1>11, <1>14, <2>1, <2>4
    <3> QED
      BY <1>10, <2>2, <3>1 DEF Increasing
  <2> QED
    BY <2>3, <2>4
<1> QED
  BY <1>4, <1>12, <1>14, Zenon DEF Increasing

\* sorted() returns every endpoint once.
LEMMA SortedFacts ==
    ASSUME NEW S \in SUBSET Urls
    PROVE  /\ Cardinality(S) \in Nat
           /\ SortedUrls(S) \in [1 .. Cardinality(S) -> S]
           /\ \A i, j \in 1 .. Cardinality(S) : SortedUrls(S)[i] = SortedUrls(S)[j] => i = j
           /\ \A u \in S : \E i \in 1 .. Cardinality(S) : SortedUrls(S)[i] = u
<1> DEFINE n == Cardinality(S)
           s == SortedUrls(S)
<1>1. IsFiniteSet(S) /\ S \in SUBSET Nat
  BY RoundRobinAssumption, RoutingAssumption, FS_Subset, Zenon
<1>2. n \in Nat
  BY <1>1, FS_CardinalityType
<1>3. s \in [1 .. n -> S] /\ Increasing(s, n)
  <2>1. \E x \in [1 .. n -> S] : \A i, j \in 1 .. n : i < j => x[i] < x[j]
    BY <1>1, Sortable DEF Increasing
  <2> QED
    BY <2>1, Zenon DEF SortedUrls, Increasing
<1> HIDE DEF n, s
<1>4. ASSUME NEW i \in 1 .. n, NEW j \in 1 .. n, s[i] = s[j] PROVE i = j
  <2>1. s[i] \in Nat /\ s[j] \in Nat
    BY <1>1, <1>3, Zenon
  <2>2. ~(i < j) /\ ~(j < i)
    BY <1>3, <1>4, <2>1 DEF Increasing
  <2> QED
    BY <1>2, <2>2
<1>5. s \in Injection(1 .. n, S)
  BY <1>3, <1>4 DEF Injection, IsInjective
<1>6. IsFiniteSet(1 .. n) /\ Cardinality(1 .. n) = n
  BY <1>2, FS_Interval
<1>7. s \in Surjection(1 .. n, S)
  BY <1>1, <1>5, <1>6, FS_Injection DEF n
<1>8. \A u \in S : \E i \in 1 .. n : s[i] = u
  BY <1>7 DEF Surjection
<1> QED
  BY <1>2, <1>3, <1>4, <1>8 DEF n, s

\* The next place in a round of n.
LEMMA ModStep ==
    ASSUME NEW r \in Nat, NEW n \in Nat \ {0}
    PROVE  /\ r % n \in 0 .. n - 1
           /\ (r + 1) % n = IF (r % n) + 1 = n THEN 0 ELSE (r % n) + 1
<1> DEFINE a == r \div n
           b == r % n
           c == (r + 1) \div n
           d == (r + 1) % n
<1>1. a \in Int /\ b \in 0 .. n - 1 /\ r = n * a + b
  OBVIOUS
<1>2. c \in Int /\ d \in 0 .. n - 1 /\ r + 1 = n * c + d
  OBVIOUS
<1> HIDE DEF a, b, c, d
<1>3. n * (c - a) = b + 1 - d
  BY <1>1, <1>2
<1>4. c - a \in Int /\ b + 1 - d <= n /\ b + 1 - d > - n
  BY <1>1, <1>2
<1>5. c - a = 0 \/ c - a = 1
  <2> DEFINE e == c - a
  <2>1. e \in Int /\ n * e <= n /\ n * e > - n
    BY <1>3, <1>4
  <2> HIDE DEF e
  <2>2. ~(e >= 2)
    BY <2>1
  <2>3. ~(e <= -1)
    BY <2>1
  <2>4. e = 0 \/ e = 1
    BY <2>1, <2>2, <2>3
  <2> QED
    BY <2>4 DEF e
<1>6. d = b + 1 \/ d = b + 1 - n
  BY <1>1, <1>2, <1>3, <1>5
<1>7. d = IF b + 1 = n THEN 0 ELSE b + 1
  BY <1>1, <1>2, <1>6
<1> QED
  BY <1>1, <1>7 DEF b, d

\* Of the places i of a round, those that had their turn since the one at t,
\* when the next is at m.
Served(i, t, m) == IF t <= m THEN t <= i /\ i < m ELSE t <= i \/ i < m

\* The choices c among E were dealt out in rounds up to request r.
Dealt(c, E, r) ==
    \E q \in Nat, t \in 0 .. Cardinality(E) - 1 : \A i \in 0 .. Cardinality(E) - 1 :
       c[SortedUrls(E)[i + 1]] = IF Served(i, t, r % Cardinality(E)) THEN q + 1 ELSE q

\* What is sorted is what the hash is of, which is the list of the last call
\* unless its address was used again.
ListInv ==
    /\ req_id \in Nat /\ counts \in [Urls -> Nat]
    /\ last_endpoints_hash \in SUBSET Urls
    /\ sorted_endpoints = SortedUrls(last_endpoints_hash)
    /\ last_endpoints_id # None => last_endpoints_hash # {}
    /\ routing_logic # "roundrobin" => counts = Zero
    /\ routing_logic = "roundrobin" /\ ~reused => last_endpoints_hash = last.endpoints

\* The choices since that list came were dealt out in rounds.
RoundInv ==
    routing_logic = "roundrobin" /\ ~reused /\ last.endpoints # {} =>
       Dealt(counts, last.endpoints, req_id)

\* A list of endpoints that is not empty has a first one.
LEMMA CardPositive ==
    ASSUME NEW E \in SUBSET Urls, E # {}
    PROVE  Cardinality(E) \in Nat \ {0}
<1>1. IsFiniteSet(E)
  BY RoundRobinAssumption, FS_Subset
<1> QED
  BY <1>1, FS_CardinalityType, FS_EmptySet

\* No choice yet: a round begins.
LEMMA DealStart ==
    ASSUME NEW E \in SUBSET Urls, E # {}, NEW r \in Nat
    PROVE  Dealt(Zero, E, r)
<1> DEFINE n == Cardinality(E)
<1>1. n \in Nat \ {0} /\ r % n \in 0 .. n - 1
  BY CardPositive, ModStep, Zenon
<1>2. \A i \in 0 .. n - 1 : SortedUrls(E)[i + 1] \in Urls /\ ~Served(i, r % n, r % n)
  <2> SUFFICES ASSUME NEW i \in 0 .. n - 1 PROVE SortedUrls(E)[i + 1] \in Urls /\ ~Served(i, r % n, r % n)
    OBVIOUS
  <2>1. i + 1 \in 1 .. n
    BY <1>1
  <2>2. SortedUrls(E)[i + 1] \in Urls
    BY <2>1, SortedFacts
  <2> QED
    BY <1>1, <2>2 DEF Served
<1> HIDE DEF n
<1>3. \A i \in 0 .. n - 1 : Zero[SortedUrls(E)[i + 1]] = IF Served(i, r % n, r % n) THEN 0 + 1 ELSE 0
  BY <1>2 DEF Zero
<1>4. 0 \in Nat
  OBVIOUS
<1> QED
  BY <1>1, <1>3, <1>4, Zenon DEF Dealt, n

\* One choice more: the next place has its turn.
LEMMA DealNext ==
    ASSUME NEW E \in SUBSET Urls, E # {}, NEW r \in Nat, NEW c \in [Urls -> Nat], Dealt(c, E, r),
           NEW u, u = SortedUrls(E)[(r % Cardinality(E)) + 1]
    PROVE  Dealt([c EXCEPT ![u] = @ + 1], E, r + 1)
<1> DEFINE n == Cardinality(E)
           s == SortedUrls(E)
           m == r % n
           k == (r + 1) % n
           d == [c EXCEPT ![u] = @ + 1]
<1>1. n \in Nat \ {0} /\ m \in 0 .. n - 1 /\ k = IF m + 1 = n THEN 0 ELSE m + 1
  BY CardPositive, ModStep, Zenon
<1>2. PICK q \in Nat, t \in 0 .. n - 1 :
         \A i \in 0 .. n - 1 : c[s[i + 1]] = IF Served(i, t, m) THEN q + 1 ELSE q
  BY Zenon DEF Dealt
<1>3. s \in [1 .. n -> E] /\ \A i, j \in 1 .. n : s[i] = s[j] => i = j
  BY SortedFacts
<1> HIDE DEF n, s, m, k, d
<1>4. u = s[m + 1]
  BY DEF n, s, m
<1>5. \A i \in 0 .. n - 1 : i + 1 \in 1 .. n /\ s[i + 1] \in Urls /\ (i # m => s[i + 1] # s[m + 1])
  BY <1>1, <1>3
<1>6. \A i \in 0 .. n - 1 : d[s[i + 1]] = IF i = m THEN c[s[i + 1]] + 1 ELSE c[s[i + 1]]
  BY <1>1, <1>4, <1>5 DEF d
<1>7. ~Served(m, t, m)
  BY <1>1 DEF Served
<1>8. \A i \in 0 .. n - 1 : d[s[i + 1]] = IF Served(i, t, m) \/ i = m THEN q + 1 ELSE q
  BY <1>1, <1>2, <1>6, <1>7
<1>9. CASE k # t
  <2>1. \A i \in 0 .. n - 1 : Served(i, t, m) \/ i = m <=> Served(i, t, k)
    BY <1>1, <1>9 DEF Served
  <2>2. \A i \in 0 .. n - 1 : d[s[i + 1]] = IF Served(i, t, k) THEN q + 1 ELSE q
    BY <1>8, <2>1
  <2> QED
    BY <2>2, Zenon DEF Dealt, d, s, n, k
<1>10. CASE k = t
  <2>1. \A i \in 0 .. n - 1 : (Served(i, t, m) \/ i = m) /\ ~Served(i, t, k)
    BY <1>1, <1>10 DEF Served
  <2>2. \A i \in 0 .. n - 1 : d[s[i + 1]] = IF Served(i, t, k) THEN (q + 1) + 1 ELSE q + 1
    BY <1>8, <2>1
  <2>3. q + 1 \in Nat
    OBVIOUS
  <2> QED
    BY <2>2, <2>3, Zenon DEF Dealt, d, s, n, k
<1> QED
  BY <1>9, <1>10

\* What is dealt out in rounds is balanced.
LEMMA DealtBalanced ==
    ASSUME NEW E \in SUBSET Urls, NEW r \in Nat, NEW c, Dealt(c, E, r),
           NEW u \in E, NEW v \in E
    PROVE  c[u] - c[v] <= 1
<1> DEFINE n == Cardinality(E)
           s == SortedUrls(E)
<1>1. PICK q \in Nat, t \in 0 .. n - 1 :
         \A i \in 0 .. n - 1 : c[s[i + 1]] = IF Served(i, t, r % n) THEN q + 1 ELSE q
  BY Zenon DEF Dealt
<1>2. n \in Nat /\ \A w \in E : \E i \in 1 .. n : s[i] = w
  BY SortedFacts
<1> HIDE DEF n, s
<1>3. ASSUME NEW w \in E PROVE c[w] \in {q, q + 1}
  <2>1. PICK i \in 1 .. n : s[i] = w
    BY <1>2
  <2>2. i - 1 \in 0 .. n - 1 /\ (i - 1) + 1 = i
    BY <1>2
  <2> QED
    BY <1>1, <2>1, <2>2
<1> QED
  BY <1>3

\* A call of route_request whose list has an address of its own, or the
\* contents the address stood for.
LEMMA RobinCall ==
    ASSUME ListInv, routing_logic = "roundrobin", NEW id \in Ids, NEW E \in SUBSET Urls, E # {},
           rr_route_request(id, E)
    PROVE  /\ last_endpoints_hash' \in SUBSET Urls /\ last_endpoints_hash' # {}
           /\ last' \in CallType /\ last'.endpoints = E
           /\ sorted_endpoints' = SortedUrls(last_endpoints_hash')
           /\ ~reused' => /\ last_endpoints_hash' = E
                          /\ last'.url = SortedUrls(E)[(req_id % Cardinality(E)) + 1]
<1>1. /\ last_endpoints_hash' = IF id # last_endpoints_id THEN E ELSE last_endpoints_hash
      /\ sorted_endpoints' = IF id # last_endpoints_id /\ E # last_endpoints_hash
                             THEN SortedUrls(E) ELSE sorted_endpoints
      /\ last' = [endpoints |-> E, url |-> Choose(sorted_endpoints')]
      /\ reused' = (id = last_endpoints_id /\ E # last_endpoints_hash)
  BY DEF rr_route_request, Refresh
<1>2. /\ last_endpoints_hash' \in SUBSET Urls /\ last_endpoints_hash' # {}
      /\ sorted_endpoints' = SortedUrls(last_endpoints_hash')
  BY <1>1, RoundRobinAssumption DEF ListInv
<1>3. ASSUME ~reused' PROVE last_endpoints_hash' = E
  BY <1>1, <1>3, Zenon
<1>4. ASSUME ~reused' PROVE last'.url = SortedUrls(E)[(req_id % Cardinality(E)) + 1]
  <2>1. sorted_endpoints' = SortedUrls(E)
    BY <1>2, <1>3, <1>4
  <2>2. Len(SortedUrls(E)) = Cardinality(E)
    BY SortedFacts
  <2> QED
    BY <1>1, <2>1, <2>2 DEF Choose
<1>5. last' \in CallType
  <2> DEFINE H == last_endpoints_hash'
             k == (req_id % Cardinality(H)) + 1
  <2>1. H \in SUBSET Urls /\ H # {} /\ req_id \in Nat
    BY <1>2 DEF ListInv
  <2>2. Len(SortedUrls(H)) = Cardinality(H)
    BY <2>1, SortedFacts
  <2>3. Choose(sorted_endpoints') = SortedUrls(H)[k]
    BY <1>2, <2>2 DEF Choose
  <2> HIDE DEF H
  <2>4. Cardinality(H) \in Nat \ {0} /\ req_id % Cardinality(H) \in 0 .. Cardinality(H) - 1
    BY <2>1, CardPositive, ModStep
  <2>5. k \in 1 .. Cardinality(H)
    BY <2>4
  <2>6. SortedUrls(H)[k] \in Urls
    BY <2>1, <2>5, SortedFacts
  <2> QED
    BY <1>1, <2>3, <2>6 DEF CallType
<1> QED
  BY <1>1, <1>2, <1>3, <1>4, <1>5

\* A request keeps the rounds going, and gets an endpoint unless its list had
\* the address of the one before it.
LEMMA RobinRoute ==
    ASSUME UpInv, ListInv, RoundInv, routing_logic = "roundrobin", UNCHANGED routing_logic,
           NEW h \in Handlers, NEW m \in Models, RoundRobinRoute(h, m)
    PROVE  ListInv' /\ RoundInv' /\ last' \in CallType /\ (reused' \/ last'.url \in last'.endpoints)
<1> DEFINE E == EndpointsFor(m)
           base == IF E = last.endpoints /\ ~reused THEN counts ELSE Zero
           url == last'.url
<1>1. E \in SUBSET Urls /\ E # {}
  BY DEF RoundRobinRoute, EndpointsFor, UpInv
<1> HIDE DEF E
<1>2. PICK id \in Ids : rr_route_request(id, E)
  BY DEF RoundRobinRoute, E
<1>3. /\ last_endpoints_hash' \in SUBSET Urls /\ last_endpoints_hash' # {}
      /\ last' \in CallType /\ last'.endpoints = E
      /\ sorted_endpoints' = SortedUrls(last_endpoints_hash')
      /\ ~reused' => last_endpoints_hash' = E /\ url = SortedUrls(E)[(req_id % Cardinality(E)) + 1]
  BY <1>1, <1>2, RobinCall
<1>4. req_id' = req_id + 1 /\ req_id \in Nat /\ req_id' \in Nat
  BY <1>2 DEF rr_route_request, ListInv
<1>5. base \in [Urls -> Nat] /\ counts' = [base EXCEPT ![url] = @ + 1]
  BY <1>2 DEF rr_route_request, ListInv, Zero
<1> HIDE DEF base
<1>6. counts' \in [Urls -> Nat]
  <2> HIDE DEF url
  <2>1. ASSUME NEW v \in Urls PROVE [base EXCEPT ![url] = @ + 1][v] \in Nat
    BY <1>5
  <2>2. [base EXCEPT ![url] = @ + 1] \in [Urls -> Nat]
    BY <1>5, <2>1, Zenon
  <2> QED
    BY <1>5, <2>2
<1>7. ListInv'
  BY <1>3, <1>4, <1>6 DEF ListInv
<1>8. ASSUME ~reused' PROVE Dealt(counts', E, req_id') /\ url \in E
  <2>1. Dealt(base, E, req_id)
    <3>1. CASE E = last.endpoints /\ ~reused
      BY <1>1, <3>1 DEF RoundInv, base
    <3>2. CASE ~(E = last.endpoints /\ ~reused)
      BY <1>1, <1>4, <3>2, DealStart DEF base
    <3> QED
      BY <3>1, <3>2
  <2>2. url = SortedUrls(E)[(req_id % Cardinality(E)) + 1]
    BY <1>3, <1>8
  <2> HIDE DEF url
  <2>3. Dealt([base EXCEPT ![url] = @ + 1], E, req_id + 1)
    BY <1>1, <1>4, <1>5, <2>1, <2>2, DealNext, Zenon
  <2>4. Cardinality(E) \in Nat \ {0} /\ req_id % Cardinality(E) \in 0 .. Cardinality(E) - 1
    BY <1>1, <1>4, CardPositive, ModStep, Zenon
  <2>5. (req_id % Cardinality(E)) + 1 \in 1 .. Cardinality(E)
    BY <2>4
  <2>6. url \in E
    BY <1>1, <2>2, <2>5, SortedFacts
  <2> QED
    BY <1>4, <1>5, <2>3, <2>6
<1>9. RoundInv'
  BY <1>3, <1>8 DEF RoundInv
<1> QED
  BY <1>3, <1>7, <1>8, <1>9

\* No list yet.
LEMMA RobinInit == Init => ListInv /\ RoundInv
<1> SUFFICES ASSUME Init PROVE ListInv /\ RoundInv
  OBVIOUS
<1>1. SortedUrls({}) = <<>>
  <2>1. Cardinality({}) = 0 /\ {} \in SUBSET Urls
    BY FS_EmptySet
  <2>2. SortedUrls({}) \in [1 .. 0 -> {}]
    BY <2>1, SortedFacts
  <2> QED
    BY <2>2
<1>2. counts = Zero /\ counts \in [Urls -> Nat] /\ req_id \in Nat
  BY DEF Init, RoundRobinInit, Zero
<1>3. last.endpoints = {}
  BY DEF Init, SessionInit, NoCall
<1> QED
  BY <1>1, <1>2, <1>3 DEF Init, RoundRobinInit, ListInv, RoundInv

\* Where the round-robin router does nothing, nothing changes for it.
LEMMA RobinFrame ==
    ASSUME ListInv, RoundInv, UNCHANGED <<routing_logic, rr_router, reused, counts>>,
           last' = last \/ routing_logic # "roundrobin"
    PROVE  ListInv' /\ RoundInv'
<1>1. UNCHANGED <<routing_logic, req_id, sorted_endpoints, last_endpoints_id, last_endpoints_hash, reused, counts>>
  BY DEF rr_router
<1>2. ListInv'
  BY <1>1 DEF ListInv
<1>3. RoundInv'
  BY <1>1 DEF RoundInv, Dealt
<1> QED
  BY <1>2, <1>3

\* Every step keeps the list and the rounds.
LEMMA RobinNext == UpInv /\ ListInv /\ RoundInv /\ [Next]_vars => ListInv' /\ RoundInv'
<1> SUFFICES ASSUME UpInv, ListInv, RoundInv, [Next]_vars PROVE ListInv' /\ RoundInv'
  OBVIOUS
<1>1. CASE UNCHANGED vars
  <2>1. UNCHANGED <<routing_logic, rr_router, reused, counts>> /\ last' = last
    BY <1>1 DEF vars, rr_vars, session_vars
  <2> QED
    BY <2>1, RobinFrame
<1>2. ASSUME NEW u \in Urls, Change(u) PROVE ListInv' /\ RoundInv'
  <2>1. UNCHANGED <<routing_logic, rr_router, reused, counts>> /\ last' = last
    BY <1>2 DEF Change, rr_vars
  <2> QED
    BY <2>1, RobinFrame
<1>3. CASE RoundRobin
  <2>1. routing_logic = "roundrobin" /\ UNCHANGED routing_logic
    BY <1>3 DEF RoundRobin
  <2>2. PICK h \in Handlers : RoundRobinReturn(h) \/ \E m \in Models : RoundRobinRoute(h, m)
    BY <1>3 DEF RoundRobin
  <2>3. CASE RoundRobinReturn(h)
    <3>1. UNCHANGED <<routing_logic, rr_router, reused, counts>> /\ last' = last
      BY <2>1, <2>3 DEF RoundRobinReturn
    <3> QED
      BY <3>1, RobinFrame
  <2>4. ASSUME NEW m \in Models, RoundRobinRoute(h, m) PROVE ListInv' /\ RoundInv'
    BY <2>1, <2>4, RobinRoute
  <2> QED
    BY <2>2, <2>3, <2>4
<1>4. CASE Session \/ PrefixAware \/ Kvaware
  <2>1. UNCHANGED <<routing_logic, rr_router, reused, counts>> /\ routing_logic # "roundrobin"
    BY <1>4 DEF Session, PrefixAware, Kvaware, rr_vars
  <2> QED
    BY <2>1, RobinFrame
<1> QED
  BY <1>1, <1>2, <1>3, <1>4 DEF Next

-----------------------------------------------------------------------------
(* What a call returns.                                                     *)

\* The last call, and that what it returned was one of its endpoints unless
\* a router took it from what it caches.
CallInv ==
    /\ hash_ring \in SUBSET Urls
    /\ last \in CallType
    /\ ChosenUnlessCached

\* No call yet.
LEMMA CallInit == Init => CallInv
BY DEF Init, SessionInit, NoCall, CallType, CallInv, ChosenUnlessCached, ChosenIsEndpoint

(* A session's owner and the engine with the lowest qps are endpoints.      *)
LEMMA PickIsEndpoint ==
    ASSUME NEW E \in SUBSET Urls, NEW u, NEW s, SessionOrQps(u, E, s)
    PROVE  hash_ring' = E /\ u \in E
<1>1. update_hash_ring(E)
  BY DEF SessionOrQps
<1>2. hash_ring' = E
  BY <1>1, RingIsEndpoints
<1> QED
  BY <1>2 DEF SessionOrQps

(* What a call of the kvaware router returns.                               *)
LEMMA KvReturns ==
    ASSUME kv \in [KvHandlers -> KvRequests], routing_logic' = "kvaware", hash_ring' \in SUBSET Urls,
           NEW h \in KvHandlers, NEW i, NEW url \in Urls \cup {NoUrl}, KvReturn(h, i, url),
           i = None => url \in kv[h].endpoints \cup {NoUrl}
    PROVE  CallInv'
<1>1. last' = [endpoints |-> kv[h].endpoints, url |-> url] /\ kv_matched' = i
  BY DEF KvReturn
<1>2. kv[h].endpoints \in SUBSET Urls
  BY DEF KvRequests
<1> QED
  BY <1>1, <1>2 DEF CallInv, CallType, ChosenUnlessCached, ChosenIsEndpoint

\* Nothing is returned while a request waits for the controller.
LEMMA KvNoneReturns ==
    ASSUME hash_ring' \in SUBSET Urls, KvNoReturn
    PROVE  CallInv'
BY DEF KvNoReturn, NoCall, CallInv, CallType, ChosenUnlessCached, ChosenIsEndpoint

\* A step of the kvaware router: the URL of the map only for a match.
LEMMA KvCall == UpInv /\ MapInv /\ CallInv /\ Kvaware => CallInv'
<1> SUFFICES ASSUME UpInv, MapInv, CallInv, Kvaware PROVE CallInv'
  OBVIOUS
<1>1. routing_logic' = "kvaware"
  BY DEF Kvaware
<1>2. /\ hash_ring \in SUBSET Urls
      /\ instance_id_to_ip \in [Instances -> Urls \cup {NoUrl}]
      /\ instance_id_to_ip' \in [Instances -> Urls \cup {NoUrl}]
      /\ kv \in [KvHandlers -> KvRequests]
      /\ \A h \in KvHandlers : kv[h].pc = "query" => kv[h].instance # None
  BY KvawareStep DEF MapInv, CallInv
<1>3. ASSUME NEW h \in KvHandlers, NEW m \in Models, KvLookup(h, m) PROVE CallInv'
  BY <1>2, <1>3, KvNoneReturns DEF KvLookup
<1>4. ASSUME NEW h \in KvHandlers, NEW s \in Sessions \cup {None}, KvFallback(h, s)
      PROVE  CallInv'
  <2>1. PICK u \in Urls : SessionOrQps(u, kv[h].endpoints, s) /\ KvReturn(h, None, u)
    BY <1>4 DEF KvFallback
  <2>2. kv[h].endpoints \in SUBSET Urls
    BY <1>2 DEF KvRequests
  <2>3. hash_ring' = kv[h].endpoints /\ u \in kv[h].endpoints
    BY <2>1, <2>2, PickIsEndpoint
  <2> QED
    BY <1>1, <1>2, <2>1, <2>2, <2>3, KvReturns
<1>5. ASSUME NEW h \in KvHandlers, KvError(h) PROVE CallInv'
  BY <1>1, <1>2, <1>5, KvReturns DEF KvError
<1>6. ASSUME NEW h \in KvHandlers, NEW i \in Instances, KvMatched(h, i) PROVE CallInv'
  <2>1. i # None
    BY KvawareAssumption DEF Instances
  <2>2. CASE instance_id_to_ip[i] # NoUrl
    BY <1>1, <1>2, <1>6, <2>1, <2>2, KvReturns DEF KvMatched
  <2>3. CASE instance_id_to_ip[i] = NoUrl
    BY <1>2, <1>6, <2>3, KvNoneReturns DEF KvMatched
  <2> QED
    BY <2>2, <2>3
<1>7. ASSUME NEW h \in KvHandlers, KvQuery(h) PROVE CallInv'
  <2>1. hash_ring' = hash_ring /\ kv[h].pc = "query"
    BY <1>7 DEF KvQuery
  <2>2. kv[h].instance \in Instances /\ kv[h].instance # None
    BY <1>2, <2>1 DEF KvRequests
  <2>3. \/ KvReturn(h, kv[h].instance, instance_id_to_ip'[kv[h].instance])
        \/ KvNoReturn
    BY <1>7 DEF KvQuery
  <2> QED
    BY <1>1, <1>2, <2>1, <2>2, <2>3, KvReturns, KvNoneReturns
<1> QED
  BY <1>3, <1>4, <1>5, <1>6, <1>7 DEF Kvaware

(* Every step keeps the invariant: only the list of round-robin and the map *)
(* of kvaware may return what is not an endpoint of the request.            *)
LEMMA CallNext ==
    UpInv /\ MapInv /\ ListInv /\ RoundInv /\ CallInv /\ [Next]_vars => CallInv'
<1> SUFFICES ASSUME UpInv, MapInv, ListInv, RoundInv, CallInv, [Next]_vars PROVE CallInv'
  OBVIOUS
<1> USE DEF CallInv, ChosenUnlessCached, ChosenIsEndpoint
<1>1. CASE UNCHANGED <<routing_logic, hash_ring, last, reused, kv_matched>>
  BY <1>1
<1>2. CASE \E u \in Urls : Change(u)
  BY <1>1, <1>2 DEF Change, rr_vars, kv_vars
<1>3. CASE RoundRobin
  <2>1. PICK h \in Handlers : RoundRobinReturn(h) \/ \E m \in Models : RoundRobinRoute(h, m)
    BY <1>3 DEF RoundRobin
  <2>2. routing_logic = "roundrobin" /\ UNCHANGED <<routing_logic, kv_matched>>
    BY <1>3 DEF RoundRobin, kv_vars
  <2>3. CASE RoundRobinReturn(h)
    BY <1>1, <2>2, <2>3 DEF RoundRobinReturn
  <2>4. ASSUME NEW m \in Models, RoundRobinRoute(h, m) PROVE CallInv'
    <3>1. hash_ring' = hash_ring
      BY <2>4 DEF RoundRobinRoute
    <3>2. last' \in CallType /\ (reused' \/ last'.url \in last'.endpoints)
      BY <2>2, <2>4, RobinRoute
    <3> QED
      BY <2>2, <3>1, <3>2
  <2> QED
    BY <2>1, <2>3, <2>4
<1>4. CASE Session
  <2>1. PICK m \in Models, s \in Sessions \cup {None} : SessionRoute(m, s)
    BY <1>4 DEF Session
  <2>2. PICK u \in Urls : /\ SessionOrQps(u, EndpointsFor(m), s)
                          /\ last' = [endpoints |-> EndpointsFor(m), url |-> u]
    BY <2>1 DEF SessionRoute
  <2>3. EndpointsFor(m) \in SUBSET Urls
    BY DEF EndpointsFor, UpInv
  <2>4. hash_ring' = EndpointsFor(m) /\ u \in EndpointsFor(m)
    BY <2>2, <2>3, PickIsEndpoint
  <2> QED
    BY <2>2, <2>3, <2>4 DEF CallType
<1>5. CASE PrefixAware
  <2>1. PICK m \in Models, prompt \in Prompts : PrefixRoute(m, prompt)
    BY <1>5 DEF PrefixAware
  <2>2. PICK u \in longest_prefix_match(trie, prompt, EndpointsFor(m)) :
             last' = [endpoints |-> EndpointsFor(m), url |-> u]
    BY <2>1 DEF PrefixRoute
  <2>3. EndpointsFor(m) \in SUBSET Urls
    BY DEF EndpointsFor, UpInv
  <2>4. u \in EndpointsFor(m)
    BY <2>2 DEF longest_prefix_match
  <2>5. hash_ring' = hash_ring
    BY <2>1 DEF PrefixRoute
  <2> QED
    BY <2>2, <2>3, <2>4, <2>5 DEF CallType
<1>6. CASE Kvaware
  BY <1>6, KvCall
<1>7. CASE UNCHANGED vars
  BY <1>1, <1>7 DEF vars, session_vars, rr_vars, kv_vars
<1> QED
  BY <1>2, <1>3, <1>4, <1>5, <1>6, <1>7 DEF Next

\* The invariants of the calls hold in every reachable state.
LEMMA CallInvariance == Spec => [](ListInv /\ RoundInv /\ CallInv)
<1>1. Init => UpInv
  BY OwnerInit
<1> QED
  BY <1>1, RobinInit, RobinNext, MapInit, MapStep, UpStep, CallInit, CallNext, PTL DEF Spec

(* Whichever router runs, a request goes to one of the endpoints it was     *)
(* passed, unless round-robin reused the list at an address or kvaware the  *)
(* URL of the instance that matched.                                        *)
THEOREM ChosenEndpoint == Spec => []ChosenUnlessCached
<1>1. CallInv => ChosenUnlessCached
  BY DEF CallInv
<1> QED
  BY <1>1, CallInvariance, PTL

(* While the requests pass the same engines, round-robin gives each the     *)
(* same number of them up to one.                                           *)
THEOREM RoundRobinBalanced == Spec => []BalancedWhileStable
<1>1. ListInv /\ RoundInv /\ CallInv => BalancedWhileStable
  <2> SUFFICES ASSUME ListInv, RoundInv, CallInv, ~reused,
                      NEW u \in last.endpoints, NEW v \in last.endpoints
               PROVE  counts[u] - counts[v] <= 1
    BY DEF BalancedWhileStable
  <2>1. CASE routing_logic = "roundrobin"
    BY <2>1, DealtBalanced DEF ListInv, RoundInv
  <2>2. CASE routing_logic # "roundrobin"
    BY <2>2 DEF ListInv, Zero, CallInv, CallType
  <2> QED
    BY <2>1, <2>2
<1> QED
  BY <1>1, CallInvariance, PTL

-----------------------------------------------------------------------------
(* Types.                                                                   *)

\* What the other invariants do not say of the types.
OtherTypes ==
    /\ routing_logic \in Logics
    /\ live \in [Handlers -> Ids \cup {None}]
    /\ req_id \in 0 .. MaxRequests
    /\ last_endpoints_id \in Ids \cup {None}
    /\ reused \in BOOLEAN
    /\ asked \in Prompts
    /\ kv_matched \in Instances \cup {None}

\* These types hold initially.
LEMMA OtherInit == Init => OtherTypes
<1> SUFFICES ASSUME Init PROVE OtherTypes
  OBVIOUS
<1>1. <<>> \in Prompts
  <2>1. <<>> \in [1 .. 0 -> Chunks] /\ 0 \in 0 .. MaxChunks
    BY HashTrieAssumption
  <2> QED
    BY <2>1 DEF Prompts
<1>2. reused \in BOOLEAN
  BY Zenon DEF Init, RoundRobinInit
<1> QED
  BY <1>1, <1>2, RoundRobinAssumption DEF Init, RoundRobinInit, PrefixInit, KvawareInit, OtherTypes

\* Every step keeps them.
LEMMA OtherNext == MapInv /\ OtherTypes /\ [Next]_vars => OtherTypes'
<1> SUFFICES ASSUME MapInv, OtherTypes, [Next]_vars PROVE OtherTypes'
  OBVIOUS
<1> USE DEF OtherTypes
<1>1. CASE UNCHANGED <<routing_logic, live, req_id, last_endpoints_id, reused, asked, kv_matched>>
  BY <1>1
<1>2. CASE \E u \in Urls : Change(u)
  BY <1>1, <1>2 DEF Change, rr_vars, rr_router, prefix_vars, kv_vars
<1>3. CASE RoundRobin
  <2>1. PICK h \in Handlers : RoundRobinReturn(h) \/ \E m \in Models : RoundRobinRoute(h, m)
    BY <1>3 DEF RoundRobin
  <2>2. UNCHANGED <<routing_logic, asked, kv_matched>>
    BY <1>3 DEF RoundRobin, prefix_vars, kv_vars
  <2>3. CASE RoundRobinReturn(h)
    BY <2>2, <2>3 DEF RoundRobinReturn, rr_router
  <2>4. ASSUME NEW m \in Models, RoundRobinRoute(h, m) PROVE OtherTypes'
    <3>1. PICK id \in Ids : live' = [live EXCEPT ![h] = id] /\ rr_route_request(id, EndpointsFor(m))
      BY <2>4, Zenon DEF RoundRobinRoute
    <3>2. reused' \in BOOLEAN
      <4>1. reused' = (id = last_endpoints_id /\ EndpointsFor(m) # last_endpoints_hash)
        BY <3>1 DEF rr_route_request
      <4> QED
        BY <4>1
    <3>3. req_id' \in 0 .. MaxRequests
      BY <2>4, <3>1, RoundRobinAssumption DEF RoundRobinRoute, rr_route_request
    <3>4. last_endpoints_id' = id
      BY <3>1 DEF rr_route_request
    <3> QED
      BY <2>2, <3>1, <3>2, <3>3, <3>4
  <2> QED
    BY <2>1, <2>3, <2>4
<1>4. CASE Session
  BY <1>1, <1>4 DEF Session, rr_vars, rr_router, prefix_vars, kv_vars
<1>5. CASE PrefixAware
  BY <1>5 DEF PrefixAware, PrefixRoute, rr_vars, rr_router, kv_vars
<1>6. CASE Kvaware
  <2>1. UNCHANGED <<routing_logic, live, req_id, last_endpoints_id, reused, asked>>
    BY <1>6 DEF Kvaware, rr_vars, rr_router, prefix_vars
  <2>2. kv_matched' \in Instances \cup {None}
    <3>1. \A h \in KvHandlers : kv[h].instance \in Instances \cup {None}
      BY DEF MapInv, KvRequests
    <3> QED
      BY <1>6, <3>1, Zenon DEF Kvaware, KvLookup, KvFallback, KvMatched, KvQuery, KvError,
                        KvReturn, KvNoReturn
  <2> QED
    BY <2>1, <2>2
<1>7. CASE UNCHANGED vars
  BY <1>1, <1>7 DEF vars, rr_vars, rr_router, prefix_vars, kv_vars
<1> QED
  BY <1>2, <1>3, <1>4, <1>5, <1>6, <1>7 DEF Next

(* The state of the routers has its types; in particular a round-robin call *)
(* always finds an element in its list, and returns an engine.              *)
THEOREM TypeCorrect == Spec => []TypeOK
<1>1. Spec => [](UpInv /\ OwnerInv /\ TrieInv /\ MapInv /\ OtherTypes)
  BY OwnerInit, UpStep, OwnerStep, TrieInit, TrieStep, MapInit, MapStep, OtherInit, OtherNext,
     PTL DEF Spec
<1>2. UpInv /\ OwnerInv /\ TrieInv /\ MapInv /\ OtherTypes /\ ListInv /\ CallInv => TypeOK
  <2> SUFFICES ASSUME UpInv, OwnerInv, TrieInv, MapInv, OtherTypes, ListInv, CallInv PROVE TypeOK
    OBVIOUS
  <2>1. SessionTypeOK
    BY DEF SessionTypeOK, UpInv, OwnerInv, CallInv
  <2>2. PrefixTypeOK
    <3>1. trie \in [Prompts -> SUBSET Urls]
      BY DEF TrieInv
    <3> QED
      BY <3>1 DEF PrefixTypeOK, TrieInv, OtherTypes
  <2>3. KvawareTypeOK
    BY DEF KvawareTypeOK, MapInv, OtherTypes
  <2>4. sorted_endpoints \in Seq(Urls)
    <3> DEFINE H == last_endpoints_hash
    <3>1. H \in SUBSET Urls /\ sorted_endpoints = SortedUrls(H)
      BY DEF ListInv
    <3>2. Cardinality(H) \in Nat /\ SortedUrls(H) \in [1 .. Cardinality(H) -> H]
      BY <3>1, SortedFacts
    <3>3. SortedUrls(H) \in [1 .. Cardinality(H) -> Urls]
      BY <3>1, <3>2
    <3> QED
      BY <3>1, <3>2, <3>3
  <2>5. RoundRobinTypeOK
    BY <2>4 DEF RoundRobinTypeOK, OtherTypes, ListInv
  <2> QED
    BY <2>1, <2>2, <2>3, <2>5 DEF TypeOK, OtherTypes
<1> QED
  BY <1>1, <1>2, CallInvariance, PTL
=============================================================================

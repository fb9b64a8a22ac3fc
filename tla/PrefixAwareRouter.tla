-------------------------- MODULE PrefixAwareRouter --------------------------
(***************************************************************************)
(* PrefixAwareRouter.route_request (routing_logic.py) with its HashTrie.    *)
(* The locks of the trie are asyncio locks that are never held across an    *)
(* await, so none is ever contended, acquiring one does not suspend, and    *)
(* route_request runs in one go.  The trie knows nothing of models, and     *)
(* engines that left stay in it.                                            *)
(***************************************************************************)
EXTENDS RoutingInterface, HashTrie

CONSTANT MaxSent   \* bound on the different requests sent

VARIABLES
    trie,
    asked,  \* history: the prompt of the last call
    sent    \* history: the prompts sent to each engine

prefix_vars == <<trie, asked, sent>>

PrefixTypeOK ==
    /\ trie \in [Prompts -> SUBSET Urls]
    /\ asked \in Prompts
    /\ sent \in SUBSET (Prompts \X Urls)

PrefixInit ==
    /\ trie = EmptyTrie
    /\ asked = <<>>
    /\ sent = {}

\* route_request for a prompt: the match, a random choice, the insertion
PrefixRoute(m, prompt) ==
    /\ EndpointsFor(m) # {}
    /\ \E u \in longest_prefix_match(trie, prompt, EndpointsFor(m)) :
          /\ trie' = insert(trie, prompt, u)
          /\ sent' = sent \cup {<<prompt, u>>}
          /\ last' = [endpoints |-> EndpointsFor(m), url |-> u]
    /\ Cardinality(sent') <= MaxSent
    /\ asked' = prompt
    /\ UNCHANGED <<up, hash_ring>>
-----------------------------------------------------------------------------
(* Properties.                                                              *)

\* u was sent a prompt that begins like this one for k chunks.
Shares(u, prompt, k) ==
    \E q \in Prompts : /\ <<q, u>> \in sent
                       /\ k <= Len(q)
                       /\ Chunked(q, k) = Chunked(prompt, k)

\* "Route the request to the appropriate engine URL by where the longest
\* prefix match is found" (routing_logic.py:421): no other endpoint of the
\* request was ever sent a prompt that agrees with this one for longer, also
\* when engines left and came back and other models share the trie.
LongestMatch ==
    [][prefix_vars' # prefix_vars =>
          \A v \in last'.endpoints, k \in 1 .. Len(asked') :
             Shares(v, asked', k) => Shares(last'.url, asked', k)]_<<prefix_vars, last>>
=============================================================================

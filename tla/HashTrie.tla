------------------------------- MODULE HashTrie -------------------------------
(***************************************************************************)
(* HashTrie (prefix/hashtrie.py).  A prompt is the sequence of the hashes   *)
(* of its chunks, a node of the trie is the path to it, and the trie gives  *)
(* the endpoints of every path.  insert creates a node and adds an endpoint *)
(* to it in one go, so a node other than the root exists when it has an     *)
(* endpoint.                                                                *)
(***************************************************************************)
EXTENDS Integers, Sequences, FiniteSets

CONSTANTS Chunks,     \* hashes of chunks
          MaxChunks   \* bound on the length of a prompt

ASSUME HashTrieAssumption == MaxChunks \in Nat

Prompts == UNION {[1 .. n -> Chunks] : n \in 0 .. MaxChunks}

\* The first k chunks of a prompt.
Chunked(prompt, k) == SubSeq(prompt, 1, k)

EmptyTrie == [path \in Prompts |-> {}]

insert_LeafOnly(trie, prompt, u) == [trie EXCEPT ![prompt] = @ \cup {u}]

\* insert: every node on the way, the root included
insert(trie, prompt, u) ==
    [path \in Prompts |->
       IF \E k \in 0 .. Len(prompt) : path = Chunked(prompt, k)
       THEN trie[path] \cup {u} ELSE trie[path]]

\* selected_endpoints when the loop of longest_prefix_match has taken k chunks
Selected(trie, prompt, available, k) ==
    {u \in available : \A j \in 1 .. k : u \in trie[Chunked(prompt, j)]}

longest_prefix_match_FirstChunk(trie, prompt, available) ==
    {u \in available :
       \A k \in 1 .. Len(prompt) :
          k = 1 /\ Selected(trie, prompt, available, k) # {} =>
             u \in Selected(trie, prompt, available, k)}

\* longest_prefix_match.  The selections are nested, and the loop goes on
\* while one is not empty: the result is in every one that is not.
longest_prefix_match(trie, prompt, available) ==
    {u \in available :
       \A k \in 1 .. Len(prompt) :
          Selected(trie, prompt, available, k) # {} =>
             u \in Selected(trie, prompt, available, k)}
=============================================================================

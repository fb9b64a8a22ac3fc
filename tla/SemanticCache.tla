---------------------------- MODULE SemanticCache ----------------------------
(***************************************************************************)
(* The semantic cache in front of /v1/chat/completions: check_semantic_cache *)
(* and store_in_semantic_cache (semantic_cache_integration.py), SemanticCache *)
(* and FAISSAdapter (semantic_cache/).  A request is looked up by the nearest *)
(* stored prompt; on a miss it goes to an engine, and the answer is appended  *)
(* to a vector index and to a list of metadata that have to stay in step.     *)
(* Both are written to two files, one after the other, by every store and by  *)
(* every start of the router.                                                 *)
(*                                                                            *)
(* The event loop runs one handler at a time and a store has no await in it:  *)
(* requests interleave only while an engine answers.  A crash can come        *)
(* anywhere.  An embedding is kept as its prompt, an inner product as Score,  *)
(* the response as whether it is one (an error body stores no message).       *)
(***************************************************************************)
EXTENDS Integers, Sequences, FiniteSets

CONSTANTS
    Clients,      \* callers, each with one request at a time
    Prompts,      \* the messages of a request
    NoMessages,   \* the prompt of a request without messages
    Models,       \* what "model" may say in a request
    Resolve,      \* the model behind each name (static aliases)
    Score,        \* inner product of the embeddings of two prompts
    Threshold,    \* default_similarity_threshold
    Absent,       \* a file that does not exist
    Damaged,      \* a file that does not load
    MaxRequests,  \* bound on the requests made
    MaxFaults     \* bound on crashes and failing writes

ASSUME CacheAssumption ==
    /\ NoMessages \in Prompts
    /\ Absent # Damaged
    /\ Score \in [Prompts \X Prompts -> Int]
    /\ Threshold \in Int
    /\ IsFiniteSet(Clients)
    /\ MaxRequests \in Nat /\ MaxFaults \in Nat

VARIABLES
    up,         \* the router runs
    saving,     \* where save_index is: "no", "index" or "metadata"
    index,      \* FAISSAdapter.index: the stored prompts
    metadata,   \* FAISSAdapter.metadata
    index_file, metadata_file,
    stage,      \* of each client's request
    request,
    cached,     \* the entry a hit returned
    requests, faults,
    saved,      \* history: the metadata of the last save_index that finished
    in_step,    \* history: the files this process loaded belonged together
    loaded      \* history: how many entries this process started with

memory == <<up, saving, index, metadata, in_step, loaded>>
files == <<index_file, metadata_file, saved>>
callers == <<stage, request, cached, requests>>
vars == <<memory, files, callers, faults>>

Kinds == {"plain", "skip_cache", "stream"}
Requests == [prompt : Prompts, model : Models, kind : Kinds]
Entries == [prompt : Prompts, model : {Resolve[m] : m \in Models}, answer : BOOLEAN]
NoRequest == [prompt |-> NoMessages, model |-> NoMessages, kind |-> "plain"]
NoEntry == [prompt |-> NoMessages, model |-> NoMessages, answer |-> FALSE]

\* Entry k of the list describes entry k of the index.
InStep(ix, md) == Len(ix) = Len(md) /\ \A k \in DOMAIN ix : ix[k] = md[k].prompt

TypeOK ==
    /\ up \in BOOLEAN /\ in_step \in BOOLEAN
    /\ saving \in {"no", "index", "metadata"}
    /\ index \in Seq(Prompts) /\ metadata \in Seq(Entries)
    /\ index_file \in {Absent, Damaged} \cup Seq(Prompts)
    /\ metadata_file \in {Absent, Damaged} \cup Seq(Entries)
    /\ saved \in Seq(Entries)
    /\ stage \in [Clients -> {"idle", "forwarded", "hit", "failed"}]
    /\ request \in [Clients -> Requests \cup {NoRequest}]
    /\ cached \in [Clients -> Entries \cup {NoEntry}]
    /\ requests \in 0 .. MaxRequests /\ faults \in 0 .. MaxFaults /\ loaded \in Nat

Init ==
    /\ up = FALSE /\ saving = "no" /\ in_step = TRUE
    /\ index = <<>> /\ metadata = <<>> /\ loaded = 0
    /\ index_file = Absent /\ metadata_file = Absent /\ saved = <<>>
    /\ stage = [c \in Clients |-> "idle"]
    /\ request = [c \in Clients |-> NoRequest]
    /\ cached = [c \in Clients |-> NoEntry]
    /\ requests = 0 /\ faults = 0

-----------------------------------------------------------------------------
(* FAISSAdapter: start, and the two writes of save_index.                   *)

\* __init__ and load_index.  When loading fails save_index runs twice with the
\* same contents, which leaves the files as one save_index may leave them.
Readable(file) == file \notin {Absent, Damaged}
Loaded == Readable(index_file) /\ Readable(metadata_file)
load_index ==
    /\ index' = IF Loaded THEN index_file ELSE <<>>
    /\ metadata' = IF Loaded THEN metadata_file ELSE <<>>
    /\ in_step' = InStep(index', metadata')
    /\ loaded' = Len(index')

Start ==
    /\ ~up
    /\ load_index
    /\ up' = TRUE /\ saving' = "index"
    /\ UNCHANGED <<files, callers, faults>>

\* A write that fails is logged; the second file is then left as it is.
WriteIndex ==
    /\ saving = "index"
    /\ \/ index_file' = index /\ saving' = "metadata" /\ UNCHANGED faults
       \/ /\ faults < MaxFaults /\ faults' = faults + 1
          /\ index_file' \in {index_file, Damaged}
          /\ saving' = "no"
    /\ UNCHANGED <<up, index, metadata, in_step, loaded, metadata_file, saved, callers>>

Written_Behind == IF metadata = <<>> THEN metadata ELSE SubSeq(metadata, 1, Len(metadata) - 1)
Written == metadata
WriteMetadata ==
    /\ saving = "metadata"
    /\ saving' = "no"
    /\ \/ metadata_file' = Written /\ saved' = metadata /\ UNCHANGED faults
       \/ /\ faults < MaxFaults /\ faults' = faults + 1
          /\ metadata_file' \in {metadata_file, Damaged}
          /\ UNCHANGED saved
    /\ UNCHANGED <<up, index, metadata, in_step, loaded, index_file, callers>>

\* The process ends, possibly in the middle of a write, and all requests with it.
Crash ==
    /\ up /\ faults < MaxFaults /\ faults' = faults + 1
    /\ up' = FALSE /\ saving' = "no"
    /\ index' = <<>> /\ metadata' = <<>> /\ in_step' = TRUE /\ loaded' = 0
    /\ index_file' \in {index_file} \cup (IF saving = "index" THEN {Damaged} ELSE {})
    /\ metadata_file' \in {metadata_file} \cup (IF saving = "metadata" THEN {Damaged} ELSE {})
    /\ stage' = [c \in Clients |-> "idle"]
    /\ request' = [c \in Clients |-> NoRequest]
    /\ cached' = [c \in Clients |-> NoEntry]
    /\ UNCHANGED <<saved, requests>>
-----------------------------------------------------------------------------
(* A request: check_semantic_cache, then route_general_request.             *)

\* index.search(embedding, 1): the best score, the oldest entry among equals.
Nearest(p) ==
    {k \in DOMAIN index : \A j \in DOMAIN index :
        \/ Score[p, index[k]] > Score[p, index[j]]
        \/ Score[p, index[k]] = Score[p, index[j]] /\ k <= j}
Similar(p) == {k \in Nearest(p) : Score[p, index[k]] >= Threshold}

\* FAISSAdapter.search: what the metadata of the nearest entry say.
Matching_AnyModel(r) == {k \in Similar(r.prompt) : k <= Len(metadata)}
Matching(r) == {k \in Similar(r.prompt) : k <= Len(metadata) /\ metadata[k].model = r.model}
Missing(r) == {k \in Similar(r.prompt) : k > Len(metadata)}
LooksUp(r) == r.kind # "skip_cache" /\ r.prompt # NoMessages

Running == up /\ saving = "no"
Ask(c, r) ==
    /\ Running /\ stage[c] # "forwarded"
    /\ requests < MaxRequests /\ requests' = requests + 1
    /\ request' = [request EXCEPT ![c] = r]
    /\ UNCHANGED <<memory, files, faults>>

Hit(c) == \E r \in Requests :
    /\ Ask(c, r) /\ LooksUp(r)
    /\ \E k \in Matching(r) : cached' = [cached EXCEPT ![c] = metadata[k]]
    /\ stage' = [stage EXCEPT ![c] = "hit"]

\* metadata[i] of an entry only the index has: IndexError, which nobody catches.
LookupFails(c) == \E r \in Requests :
    /\ Ask(c, r) /\ LooksUp(r) /\ Missing(r) # {}
    /\ cached' = [cached EXCEPT ![c] = NoEntry]
    /\ stage' = [stage EXCEPT ![c] = "failed"]

Forward(c) == \E r \in Requests :
    /\ Ask(c, r)
    /\ LooksUp(r) => Matching(r) = {} /\ Missing(r) = {}
    /\ cached' = [cached EXCEPT ![c] = NoEntry]
    /\ stage' = [stage EXCEPT ![c] = "forwarded"]

\* The response body: a completion, an error in JSON, or nothing that parses
\* (or the engine fails).  store_in_semantic_cache does not look at the status.
Bodies == {"completion", "error", "unparsable"}
Stores_Always(r, body) == body # "unparsable"
Stores(r, body) == r.kind = "plain" /\ body # "unparsable"
Entry(r, body) == [prompt |-> r.prompt, model |-> Resolve[r.model], answer |-> body = "completion"]

\* FAISSAdapter.store up to its save_index, and SemanticCache.store around it.
Add(e) ==
    /\ index' = Append(index, e.prompt)
    /\ metadata' = Append(metadata, e)
store(e) == Add(e) /\ saving' = "index"

Answered(c) == \E body \in Bodies :
    /\ Running /\ stage[c] = "forwarded"
    /\ stage' = [stage EXCEPT ![c] = "idle"]
    /\ request' = [request EXCEPT ![c] = NoRequest]
    /\ IF Stores(request[c], body)
       THEN store(Entry(request[c], body))
       ELSE UNCHANGED <<index, metadata, saving>>
    /\ UNCHANGED <<up, in_step, loaded, files, cached, requests, faults>>

Next ==
    \/ Start \/ WriteIndex \/ WriteMetadata \/ Crash
    \/ \E c \in Clients : Hit(c) \/ LookupFails(c) \/ Forward(c) \/ Answered(c)

Spec == Init /\ [][Next]_vars
-----------------------------------------------------------------------------
(* A hit returns the entry of a similar prompt and of the model asked for,   *)
(* whatever was stored, lost or restarted before, provided the two files     *)
(* this process loaded belonged together.                                     *)
HitMatches == \A c \in Clients :
    stage[c] = "hit" /\ in_step =>
        /\ Score[request[c].prompt, cached[c].prompt] >= Threshold
        /\ cached[c].model = request[c].model

(* A lookup fails only in a process that loaded files that did not belong     *)
(* together: stores never let the index run ahead of the list.                *)
FailsOnlyTorn == \A c \in Clients : stage[c] = "failed" => ~in_step

(* Repeated requests do not fill the cache: as long as all entries a prompt   *)
(* resembles are of one model without aliases, a process stores it at most    *)
(* once for each client that was waiting for an engine at the time, and not   *)
(* at all when it started with an entry the prompt resembles.                 *)
Alike(p) == {k \in DOMAIN index : Score[p, index[k]] >= Threshold}
Stored(p) == {k \in DOMAIN index : k > loaded /\ index[k] = p}
OwnName(m) == \A n \in Models : Resolve[n] = m => n = m
OneModel(p, m) ==
    /\ in_step /\ OwnName(m) /\ Score[p, p] >= Threshold
    /\ \A k \in Alike(p) : metadata[k].model = m
BoundedCopies == \A p \in Prompts \ {NoMessages}, m \in Models : OneModel(p, m) =>
    /\ Cardinality(Stored(p)) <= Cardinality(Clients)
    /\ (\E k \in Alike(p) : k <= loaded) => Stored(p) = {}

(* A start of the router keeps the responses of the last complete save, all   *)
(* of them, or none.                                                          *)
AllOrNothing == [][~up /\ up' => metadata' \in {<<>>, saved}]_vars
=============================================================================

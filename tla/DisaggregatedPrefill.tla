------------------------- MODULE DisaggregatedPrefill -------------------------
(***************************************************************************)
(* Disaggregated prefill: route_disaggregated_prefill_request (request.py)  *)
(* sends each request through two client sessions kept in app.state, which  *)
(* initialize_client_sessions (service_discovery.py) makes anew for every   *)
(* ADDED or MODIFIED event of a ready pod.                                  *)
(*                                                                          *)
(* The watcher thread waits for the coroutine it submitted, so one          *)
(* initialisation runs at a time; requests run while it awaits the closing  *)
(* of a session, which breaks the connections of that session.  The model   *)
(* may also suspend it after each endpoint, where the code goes straight on *)
(* when there was no session to close.                                      *)
(***************************************************************************)
EXTENDS Naturals, Sequences, SequencesExt, FiniteSetsExt

CONSTANTS
    PDEngines,   \* pods, each with its own URL
    Label,       \* the role of each engine's model_label
    PDRequests,
    MaxChanges,  \* bound on the comings and goings of pods
    None         \* no client, no engine

Roles == {"prefill", "decode"}

ASSUME DisaggregatedAssumption ==
    /\ Label \in [PDEngines -> Roles \cup {"other"}]
    /\ None \notin PDEngines
    /\ MaxChanges \in Nat

VARIABLES
    alive,      \* pods that are ready, and answer
    changes,    \* how often that has changed
    available,  \* available_engines, in the order of the dictionary
    lifespan,   \* the startup of the application
    todo,       \* endpoints the running initialisation has still to visit
    client,     \* app.state.prefill_client and decode_client: their base_url
    closed,     \* whether the session is closed
    request,    \* the requests: suspended at, engine in use, connection cut
    dirty       \* history: roles with engines listed or unlisted since the
                \* endpoints were last read by an initialisation

sessionVars == <<alive, changes, available, lifespan, todo, client, closed, request, dirty>>

Stages == {"new", "prefill", "prefilled", "decode", "done", "failed"}
New == [at |-> "new", engine |-> None, cut |-> FALSE]

SessionsTypeOK ==
    /\ alive \subseteq PDEngines
    /\ changes \in 0 .. MaxChanges
    /\ available \in Seq(PDEngines) /\ IsInjective(available)
    /\ lifespan \in {"boot", "init", "serving"}
    /\ todo \in Seq(PDEngines)
    /\ client \in [Roles -> PDEngines \cup {None}]
    /\ closed \in [Roles -> BOOLEAN]
    /\ request \in [PDRequests -> [at : Stages, engine : PDEngines \cup {None}, cut : BOOLEAN]]
    /\ dirty \subseteq Roles

SessionsInit ==
    /\ alive \in SUBSET PDEngines
    /\ changes = 0
    /\ available = <<>>
    /\ lifespan = "boot"
    /\ todo = <<>>
    /\ client = [k \in Roles |-> None]
    /\ closed = [k \in Roles |-> FALSE]
    /\ request = [r \in PDRequests |-> New]
    /\ dirty = {}

Listed == Range(available)

\* Endpoints of neither role are passed over without an await: the coroutine
\* is at the first one with a role, and done when there is none.
Pending == {i \in DOMAIN todo : Label[todo[i]] \in Roles}
Initialising == Pending # {}
Here == Min(Pending)
Role == Label[todo[Here]]
Rest == SubSeq(todo, Here + 1, Len(todo))
-----------------------------------------------------------------------------
(* Pods and the watcher thread (abstracted from K8sPodIPDiscovery).         *)

Toggle(e) ==
    /\ changes < MaxChanges
    /\ changes' = changes + 1
    /\ alive' = IF e \in alive THEN alive \ {e} ELSE alive \cup {e}
    /\ UNCHANGED <<available, lifespan, todo, client, closed, request, dirty>>

\* The watcher thread is not in fut.result().
WatcherIdle == lifespan # "serving" \/ ~Initialising

\* _add_engine: the entry is inserted, or replaced where it stands, and the
\* sessions are made anew.  Before app.state.event_loop is set the submission
\* raises, which is logged.  A new watch sends ADDED for every pod again.
Added(e) ==
    /\ WatcherIdle /\ e \in alive
    /\ available' = IF e \in Listed THEN available ELSE Append(available, e)
    /\ IF lifespan = "serving"
       THEN todo' = available' /\ dirty' = {}
       ELSE UNCHANGED todo /\ dirty' = dirty \cup ({Label[e]} \cap Roles)
    /\ UNCHANGED <<alive, changes, lifespan, client, closed, request>>

\* _delete_engine, which leaves the sessions alone.
Deleted(e) ==
    /\ WatcherIdle /\ e \notin alive
    /\ \E i \in DOMAIN available : available[i] = e /\ available' = RemoveAt(available, i)
    /\ dirty' = dirty \cup ({Label[e]} \cap Roles)
    /\ UNCHANGED <<alive, changes, lifespan, todo, client, closed, request>>
-----------------------------------------------------------------------------
(* lifespan and initialize_client_sessions.                                 *)

\* The application starts: the first initialisation reads the endpoints.
Boot ==
    /\ lifespan = "boot"
    /\ lifespan' = "init"
    /\ todo' = available
    /\ dirty' = {}
    /\ UNCHANGED <<alive, changes, available, client, closed, request>>

\* It is over: app.state.event_loop is set and requests are accepted.
Serve ==
    /\ lifespan = "init" /\ ~Initialising
    /\ lifespan' = "serving"
    /\ UNCHANGED <<alive, changes, available, todo, client, closed, request, dirty>>

\* The role of the next endpoint has a session: the session is closed, and
\* every request that uses it loses its connection.
CloseClient ==
    /\ Initialising
    /\ client[Role] # None /\ ~closed[Role]
    /\ closed' = [closed EXCEPT ![Role] = TRUE]
    /\ request' = [r \in PDRequests |->
                      IF request[r].at = Role THEN [request[r] EXCEPT !.cut = TRUE]
                                              ELSE request[r]]
    /\ UNCHANGED <<alive, changes, available, lifespan, todo, client, dirty>>

NewClient_KeepFirst ==
    /\ Initialising
    /\ client[Role] = None \/ closed[Role]
    /\ client' = [client EXCEPT ![Role] = IF @ = None THEN todo[Here] ELSE @]
    /\ closed' = [closed EXCEPT ![Role] = FALSE]
    /\ todo' = Rest
    /\ UNCHANGED <<alive, changes, available, lifespan, request, dirty>>
NewClient_StayClosed ==
    /\ Initialising
    /\ client[Role] = None \/ closed[Role]
    /\ client' = [client EXCEPT ![Role] = IF @ = None THEN todo[Here] ELSE @]
    /\ todo' = Rest
    /\ UNCHANGED <<alive, changes, available, lifespan, closed, request, dirty>>

\* There was no session, or it is closed now: a new one takes its place.
NewClient ==
    /\ Initialising
    /\ client[Role] = None \/ closed[Role]
    /\ client' = [client EXCEPT ![Role] = todo[Here]]
    /\ closed' = [closed EXCEPT ![Role] = FALSE]
    /\ todo' = Rest
    /\ UNCHANGED <<alive, changes, available, lifespan, request, dirty>>
-----------------------------------------------------------------------------
(* route_disaggregated_prefill_request.                                     *)

Set(r, s) ==
    /\ request' = [request EXCEPT ![r] = s]
    /\ UNCHANGED <<alive, changes, available, lifespan, todo, client, closed, dirty>>

Failed == [New EXCEPT !.at = "failed"]

\* The request is posted on the session of role k; without one, or with one
\* that is closed, the client gets an error.
Post(r, k) ==
    Set(r, IF client[k] = None \/ closed[k] THEN Failed
           ELSE [at |-> k, engine |-> client[k], cut |-> FALSE])

Prefill(r) ==
    /\ lifespan = "serving" /\ request[r].at = "new"
    /\ Post(r, "prefill")

\* The prefiller has answered and the response is handed to the server, after
\* decode_client was read for the log (an AttributeError without one).
Prefilled(r) ==
    /\ request[r].at = "prefill" /\ ~request[r].cut /\ request[r].engine \in alive
    /\ Set(r, IF client["decode"] = None THEN Failed ELSE [New EXCEPT !.at = "prefilled"])

Decode(r) ==
    /\ request[r].at = "prefilled"
    /\ Post(r, "decode")

Decoded(r) ==
    /\ request[r].at = "decode" /\ ~request[r].cut /\ request[r].engine \in alive
    /\ Set(r, [request[r] EXCEPT !.at = "done"])

\* The connection broke: prefiller_error or decoder_error.
Broken(r) ==
    /\ request[r].at \in Roles
    /\ request[r].cut \/ request[r].engine \notin alive
    /\ Set(r, [request[r] EXCEPT !.at = "failed"])

Initialise == Boot \/ Serve \/ CloseClient \/ NewClient
Handle(r) == Prefill(r) \/ Prefilled(r) \/ Decode(r) \/ Decoded(r) \/ Broken(r)

SessionsNext ==
    \/ \E e \in PDEngines : Toggle(e) \/ Added(e) \/ Deleted(e)
    \/ Initialise
    \/ \E r \in PDRequests : Handle(r)

SessionsSpec == SessionsInit /\ [][SessionsNext]_sessionVars

\* The event loop runs its coroutines; the watcher gets the event of a pod
\* that is gone, and again and again those of the pods that are ready.
SessionsFairSpec ==
    /\ SessionsSpec
    /\ WF_sessionVars(Initialise)
    /\ SF_sessionVars(\E e \in PDEngines : Deleted(e))
    /\ \A e \in PDEngines : SF_sessionVars(Added(e))
-----------------------------------------------------------------------------
(* Properties.                                                              *)

\* Outside the initialisation that replaces it no session is closed, so a
\* request meets a closed session only in that window.
ClosedOnlyInReplacement ==
    \A k \in Roles : closed[k] => Initialising /\ Role = k

\* Entry i is the last of role k.
LastOf(s, i, k) == Label[s[i]] = k /\ \A j \in DOMAIN s : j > i => Label[s[j]] # k

\* Between initialisations the session of a role leads to the engine of that
\* role that was listed last, unless engines of the role left since, or came
\* while the application started.
NewestServes ==
    (lifespan = "serving" /\ ~Initialising) =>
       \A k \in Roles \ dirty, i \in DOMAIN available :
          LastOf(available, i, k) => client[k] = available[i]

\* A prefill request is only ever at a prefill engine and a decode request at
\* a decode engine, whatever sessions were replaced since it was posted.
RequestsOnRole ==
    \A r \in PDRequests :
       request[r].at \in Roles => Label[request[r].engine] = request[r].at

\* When the pods come to rest with an engine of the role, the session of that
\* role comes to lead to live engines only, also when its engine had left
\* (which renews no session) or had come while the application started.
ClientRecovers ==
    \A k \in Roles :
       <>[]((\E e \in alive : Label[e] = k) => client[k] \in alive)
=============================================================================

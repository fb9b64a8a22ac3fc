---------------------------- MODULE DynamicConfig ----------------------------
(***************************************************************************)
(* The router process and its reconfiguration: initialize_all and lifespan   *)
(* (app.py), DynamicConfigWatcher (dynamic_config.py), the global service    *)
(* discovery with its static variant (service_discovery.py), the registry of *)
(* routers (routing_logic.py, SingletonABCMeta) and EngineStatsScraper, as    *)
(* threads that interleave: the main thread, which becomes the event loop,    *)
(* the watcher, the scraper and the health checks; requests on the event loop *)
(* read app.state while the watcher replaces it.                              *)
(*                                                                            *)
(* A configuration is a name with the attributes the control depends on; its  *)
(* static discovery lists one engine.  Instances are named by the             *)
(* configuration that made them.                                              *)
(***************************************************************************)
EXTENDS Integers, FiniteSets, Sequences, SequencesExt

CONSTANTS
    Args,       \* the command line's configuration
    Configs,    \* what the file may hold
    None,
    Fails,      \* the step of reconfigure_all that raises for a configuration
    Routing,    \* its routing_logic
    Checks,     \* it runs health checks
    Stuck,      \* its discovery's close(): returns ("no"), may raise ("raises") or "hangs"
    Unlistable, \* its get_endpoint_info raises (another backend has no label)
    MaxRaises,  \* how many calls of close() a health check may outlast
    MaxEdits    \* bound on edits of the file

Kinds == <<"session", "roundrobin", "kvaware", "prefixaware", "disaggregated_prefill">>
Known == Configs \cup {Args}

ASSUME ConfigAssumption ==
    /\ Args \notin Configs /\ None \notin Known
    /\ Fails \in [Known -> {"never", "load", "discovery", "router", "callbacks"}]
    /\ Routing \in [Known -> ToSet(Kinds)]
    /\ Checks \in [Known -> BOOLEAN] /\ Unlistable \in [Known -> BOOLEAN]
    /\ Stuck \in [Known -> {"no", "raises", "hangs"}]
    /\ MaxRaises \in Nat /\ MaxEdits \in Nat

VARIABLES
    main,            \* the main thread
    found,           \* the class get_routing_logic is about to call
    file, edits,
    watcher,         \* the watcher thread
    config,          \* the configuration it is applying
    running,         \* DynamicConfigWatcher.running
    current_config,
    discovery,       \* _global_service_discovery
    closed,          \* its close() has returned, ...
    raised,          \* ... or has raised, so many times
    held,            \* it is the one lifespan is closing
    fresh,           \* a new discovery not installed yet
    leaked,          \* discovery modules nobody will ever close
    instances,       \* SingletonABCMeta._instances: a router for each class
    app_router,      \* app.state.router
    scraper, scraped,\* the scraper thread, and the list it works on
    engine_stats,    \* whose engine it has statistics for
    engine_up,
    unhealthy,       \* the current discovery holds the engine for unhealthy
    call, awaited,   \* a request: its stage, the answer of the isinstance check,
    swapped          \* and (history) whether the router was replaced meanwhile

process == <<main, found>>
watch == <<watcher, config, running, current_config>>
modules == <<discovery, closed, raised, held, fresh, leaked>>
routers == <<instances, app_router>>
stats == <<scraper, scraped, engine_stats>>
engine == <<engine_up, unhealthy>>
requests == <<call, awaited, swapped>>
vars == <<process, file, edits, watch, modules, routers, stats, engine, requests>>

Starting == {"discovery", "scraper", "watcher", "routing", "lookup", "attach", "lifespan"}
Stopping == {"join_scraper", "get_discovery", "close_discovery", "join_watcher"}
Flags ==
    /\ running \in BOOLEAN /\ closed \in BOOLEAN /\ held \in BOOLEAN
    /\ engine_up \in BOOLEAN /\ unhealthy \in BOOLEAN
    /\ awaited \in BOOLEAN /\ swapped \in BOOLEAN
TypeOK ==
    /\ main \in Starting \cup Stopping \cup {"serving", "stopped", "failed", "aborted"}
    /\ found \in ToSet(Kinds) \cup {None}
    /\ file \in Configs /\ edits \in 0 .. MaxEdits
    /\ watcher \in {"off", "sleep", "load", "create", "close", "install", "cleanup", "init",
                    "attach", "record", "done"}
    /\ {config, fresh, discovery, app_router, scraped, engine_stats} \subseteq Known \cup {None}
    /\ current_config \in Known /\ leaked \in Nat /\ raised \in 0 .. MaxRaises
    /\ config # None <=> watcher \in {"create", "close", "install", "cleanup", "init", "attach", "record"}
    /\ fresh = IF watcher \in {"close", "install"} THEN config ELSE None
    /\ instances \in [ToSet(Kinds) -> Known \cup {None}]
    /\ scraper \in {"off", "sleep", "scrape", "ended", "dead"}
    /\ call \in {"idle", "arrived", "checked", "misrouted", "form", "post"}
    /\ Flags

Init ==
    /\ main = "discovery" /\ found = None
    /\ file \in Configs /\ edits = 0
    /\ watcher = "off" /\ config = None /\ running = FALSE /\ current_config = Args
    /\ discovery = None /\ closed = FALSE /\ raised = 0 /\ held = FALSE /\ fresh = None /\ leaked = 0
    /\ instances = [k \in ToSet(Kinds) |-> None] /\ app_router = None
    /\ scraper = "off" /\ scraped = None /\ engine_stats = None
    /\ engine_up = TRUE /\ unhealthy = FALSE
    /\ call = "idle" /\ awaited = FALSE /\ swapped = FALSE
-----------------------------------------------------------------------------
(* The registry of routers.  Calling a class returns its instance, or makes  *)
(* one; a class that needs arguments raises when called without.             *)

NoArguments == {"roundrobin", "prefixaware"}
Present == {i \in DOMAIN Kinds : instances[Kinds[i]] # None}
NoRouters == [k \in ToSet(Kinds) |-> None]
initialize_routing_logic(c) ==
    instances' = [instances EXCEPT ![Routing[c]] = IF @ = None THEN c ELSE @]
-----------------------------------------------------------------------------
(* initialize_all, then lifespan.                                            *)

InitDiscovery ==
    /\ main = "discovery" /\ main' = "scraper"
    /\ discovery' = Args
    /\ UNCHANGED <<found, file, edits, watch, closed, raised, held, fresh, leaked, routers, stats, engine, requests>>

InitScraper ==
    /\ main = "scraper" /\ main' = "watcher"
    /\ scraper' = "sleep"
    /\ UNCHANGED <<found, file, edits, watch, modules, routers, scraped, engine_stats, engine, requests>>

InitWatcher ==
    /\ main = "watcher" /\ main' = "routing"
    /\ watcher' = "load" /\ running' = TRUE
    /\ UNCHANGED <<found, file, edits, config, current_config, modules, routers, stats, engine, requests>>

InitRouting ==
    /\ main = "routing" /\ main' = "lookup"
    /\ initialize_routing_logic(Args)
    /\ UNCHANGED <<found, file, edits, watch, modules, app_router, stats, engine, requests>>

\* get_routing_logic: a class that is in the registry ...
Lookup ==
    /\ main = "lookup"
    /\ IF Present = {} THEN main' = "failed" /\ UNCHANGED found
                       ELSE main' = "attach" /\ found' = Kinds[Min(Present)]
    /\ UNCHANGED <<file, edits, watch, modules, routers, stats, engine, requests>>

\* ... is called, and may have been removed meanwhile.
Attach ==
    /\ main = "attach" /\ found' = None
    /\ \/ /\ instances[found] # None
          /\ app_router' = instances[found] /\ main' = "lifespan" /\ UNCHANGED instances
       \/ /\ instances[found] = None /\ found \in NoArguments
          /\ app_router' = Args /\ main' = "lifespan"
          /\ instances' = [instances EXCEPT ![found] = Args]
       \/ /\ instances[found] = None /\ found \notin NoArguments
          /\ main' = "failed" /\ UNCHANGED routers
    /\ UNCHANGED <<file, edits, watch, modules, stats, engine, requests>>

Serve ==
    /\ main = "lifespan" /\ main' = "serving"
    /\ UNCHANGED <<found, file, edits, watch, modules, routers, stats, engine, requests>>

\* uvicorn lets the open requests finish first.
Shutdown ==
    /\ main = "serving" /\ main' = "join_scraper"
    /\ call = "idle"
    /\ UNCHANGED <<found, file, edits, watch, modules, routers, stats, engine, requests>>

JoinScraper ==
    /\ main = "join_scraper" /\ main' = "get_discovery"
    /\ scraper \in {"ended", "dead"}
    /\ UNCHANGED <<found, file, edits, watch, modules, routers, stats, engine, requests>>

GetDiscovery ==
    /\ main = "get_discovery" /\ main' = "close_discovery"
    /\ held' = TRUE
    /\ UNCHANGED <<found, file, edits, watch, discovery, closed, raised, fresh, leaked, routers, stats,
                   engine, requests>>

\* StaticServiceDiscovery.close waits 20 seconds for a health check of many
\* engines that do not answer, and raises (a running loop cannot be closed).
\* No further check is started, so that one of the next calls returns.
Returns == closed \/ Stuck[discovery] # "hangs"
Raises == ~closed /\ Stuck[discovery] = "raises" /\ raised < MaxRaises
CloseDiscovery ==
    /\ main = "close_discovery"
    /\ \/ /\ held => Returns
          /\ main' = "join_watcher" /\ running' = FALSE
          /\ closed' = (closed \/ held) /\ UNCHANGED raised
       \/ /\ held /\ Raises
          /\ main' = "aborted" /\ raised' = raised + 1 /\ UNCHANGED <<running, closed>>
    /\ UNCHANGED <<found, file, edits, watcher, config, current_config, discovery, held, fresh, leaked,
                   routers, stats, engine, requests>>

\* The watch of a Kubernetes discovery ends when the API server closes it.
Hangs == discovery # None /\ ~closed /\ Stuck[discovery] = "hangs"
CloseHung ==
    /\ main = "close_discovery" /\ held /\ Hangs
    /\ main' = "join_watcher" /\ running' = FALSE /\ closed' = TRUE
    /\ UNCHANGED <<found, file, edits, watcher, config, current_config, discovery, raised, held, fresh, leaked,
                   routers, stats, engine, requests>>

JoinWatcher ==
    /\ main = "join_watcher" /\ main' = "stopped"
    /\ watcher = "done"
    /\ instances' = NoRouters
    /\ UNCHANGED <<found, file, edits, watch, modules, app_router, stats, engine, requests>>
-----------------------------------------------------------------------------
(* DynamicConfigWatcher._watch_worker.                                       *)

\* An exception is logged and the configuration is tried again.
GiveUp == watcher' = "sleep" /\ config' = None
Awake_Always == "load"
Awake == IF running THEN "load" ELSE "done"
WakeUp ==
    /\ watcher = "sleep"
    /\ watcher' = Awake
    /\ UNCHANGED <<process, file, edits, config, running, current_config, modules, routers, stats,
                   engine, requests>>

Load ==
    /\ watcher = "load"
    /\ IF Fails[file] = "load" \/ file = current_config
       THEN GiveUp
       ELSE watcher' = "create" /\ config' = file
    /\ UNCHANGED <<process, file, edits, running, current_config, modules, routers, stats, engine, requests>>

Created == fresh' = config
NotCreated_Fatal == watcher' = "done" /\ config' = None /\ UNCHANGED fresh
NotCreated == GiveUp /\ UNCHANGED fresh
Create ==
    /\ watcher = "create"
    /\ IF Fails[config] = "discovery"
       THEN NotCreated
       ELSE Created /\ watcher' = "close" /\ UNCHANGED config
    /\ UNCHANGED <<process, file, edits, running, current_config, discovery, closed, raised, held, leaked,
                   routers, stats, engine, requests>>

\* The old discovery is closed; if that raises, the new one is lost.
CloseFails_Restarts == GiveUp /\ fresh' = None /\ leaked' = leaked + 1 /\ UNCHANGED raised
CloseFails == GiveUp /\ fresh' = None /\ leaked' = leaked + 1 /\ raised' = raised + 1
CloseOld ==
    /\ watcher = "close"
    /\ \/ Returns /\ watcher' = "install" /\ closed' = TRUE /\ UNCHANGED <<config, raised, fresh, leaked>>
       \/ Raises /\ CloseFails /\ UNCHANGED closed
    /\ UNCHANGED <<process, file, edits, running, current_config, discovery, held, routers, stats, engine, requests>>

CloseOldHung ==
    /\ watcher = "close" /\ Hangs
    /\ watcher' = "install" /\ closed' = TRUE
    /\ UNCHANGED <<process, file, edits, config, running, current_config, discovery, raised, held, fresh, leaked,
                   routers, stats, engine, requests>>

Install ==
    /\ watcher = "install" /\ watcher' = "cleanup"
    /\ discovery' = fresh /\ fresh' = None
    /\ closed' = FALSE /\ raised' = 0 /\ held' = FALSE /\ unhealthy' = FALSE
    /\ UNCHANGED <<process, file, edits, config, running, current_config, leaked, routers, stats,
                   engine_up, requests>>

Cleanup ==
    /\ watcher = "cleanup" /\ watcher' = "init"
    /\ instances' = NoRouters
    /\ UNCHANGED <<process, file, edits, config, running, current_config, modules, app_router, stats,
                   engine, requests>>

InitRouter ==
    /\ watcher = "init"
    /\ IF Fails[config] = "router"
       THEN GiveUp /\ UNCHANGED instances
       ELSE initialize_routing_logic(config) /\ watcher' = "attach" /\ UNCHANGED config
    /\ UNCHANGED <<process, file, edits, running, current_config, modules, app_router, stats, engine, requests>>

Attached_Kept == app_router
Attached == instances[Routing[config]]
AttachRouter ==
    /\ watcher = "attach" /\ watcher' = "record"
    /\ app_router' = Attached /\ swapped' = (call \in {"arrived", "checked", "misrouted"})
    /\ UNCHANGED <<process, file, edits, config, running, current_config, modules, instances, stats,
                   engine, call, awaited>>

\* reconfigure_callbacks, and the configuration is taken for the current one.
Recorded == Fails[config] # "callbacks"
Record ==
    /\ watcher = "record" /\ GiveUp
    /\ current_config' = IF Recorded THEN config ELSE current_config
    /\ UNCHANGED <<process, file, edits, running, modules, routers, stats, engine, requests>>

Edit ==
    /\ edits < MaxEdits /\ edits' = edits + 1
    /\ file' \in Configs \ {file}
    /\ UNCHANGED <<process, watch, modules, routers, stats, engine, requests>>
-----------------------------------------------------------------------------
(* The health checks of the static discovery, and EngineStatsScraper.        *)

Toggle ==
    /\ engine_up' = ~engine_up
    /\ UNCHANGED <<process, file, edits, watch, modules, routers, stats, unhealthy, requests>>

\* The check in progress when close() was called still has its result.
CheckHealth ==
    /\ discovery # None /\ ~closed /\ Checks[discovery]
    /\ unhealthy' = ~engine_up
    /\ UNCHANGED <<process, file, edits, watch, modules, routers, stats, engine_up, requests>>

ScrapeAgain == main \notin Stopping \cup {"stopped"}
ScraperWakes ==
    /\ scraper = "sleep"
    /\ IF ~ScrapeAgain THEN scraper' = "ended" /\ UNCHANGED scraped
       ELSE IF Unlistable[discovery] THEN scraper' = "dead" /\ UNCHANGED scraped
       ELSE scraper' = "scrape" /\ scraped' = IF unhealthy THEN None ELSE discovery
    /\ UNCHANGED <<process, file, edits, watch, modules, routers, engine_stats, engine, requests>>

Scraped_KeepOld == IF scraped # None /\ engine_up THEN scraped ELSE engine_stats
Scraped == IF scraped # None /\ engine_up THEN scraped ELSE None
ScrapeMetrics ==
    /\ scraper = "scrape" /\ scraper' = "sleep"
    /\ engine_stats' = Scraped /\ scraped' = None
    /\ UNCHANGED <<process, file, edits, watch, modules, routers, engine, requests>>
-----------------------------------------------------------------------------
(* One request at a time.  route_general_request reads app.state.router for  *)
(* isinstance and again for the call; what follows it is in RequestService.  *)

Awaited_NoPrefix == {"kvaware", "session"}
Awaited == {"kvaware", "prefixaware", "session"}
Arrive ==
    /\ main = "serving" /\ call = "idle" /\ call' = "arrived"
    /\ UNCHANGED <<process, file, edits, watch, modules, routers, stats, engine, awaited, swapped>>

NotListed == Unlistable[discovery] \/ unhealthy
IsInstance ==
    /\ call = "arrived"
    /\ \/ NotListed /\ call' = "idle" /\ swapped' = FALSE /\ UNCHANGED awaited
       \/ /\ ~NotListed /\ call' = "checked"
          /\ awaited' = (Routing[app_router] \in Awaited) /\ UNCHANGED swapped
    /\ UNCHANGED <<process, file, edits, watch, modules, routers, stats, engine>>

\* The call with the other kind's arguments, or awaiting a string, raises.
AsyncKinds == {"kvaware", "prefixaware", "session"}
RouteRequest ==
    /\ call = "checked" /\ awaited' = FALSE
    /\ IF awaited = (Routing[app_router] \in AsyncKinds)
       THEN call' = "idle" /\ swapped' = FALSE
       ELSE call' = "misrouted" /\ UNCHANGED swapped
    /\ UNCHANGED <<process, file, edits, watch, modules, routers, stats, engine>>

Misrouted ==
    /\ call = "misrouted" /\ call' = "idle" /\ swapped' = FALSE
    /\ UNCHANGED <<process, file, edits, watch, modules, routers, stats, engine, awaited>>

\* route_general_transcriptions calls the router once and does not await it,
\* which only the round robin router allows.
Transcribe ==
    /\ main = "serving" /\ call = "idle" /\ call' = "form"
    /\ UNCHANGED <<process, file, edits, watch, modules, routers, stats, engine, awaited, swapped>>

TranscriptionRouted ==
    /\ call = "form"
    /\ call' = IF NotListed \/ Routing[app_router] \in AsyncKinds THEN "idle" ELSE "post"
    /\ UNCHANGED <<process, file, edits, watch, modules, routers, stats, engine, awaited, swapped>>

\* The engine's answer, an error, or the end of the timeout.
TranscriptionPosted ==
    /\ call = "post" /\ call' = "idle"
    /\ UNCHANGED <<process, file, edits, watch, modules, routers, stats, engine, awaited, swapped>>
-----------------------------------------------------------------------------
MainThread ==
    \/ InitDiscovery \/ InitScraper \/ InitWatcher \/ InitRouting \/ Lookup \/ Attach \/ Serve
    \/ JoinScraper \/ GetDiscovery \/ CloseDiscovery \/ JoinWatcher
WatcherThread ==
    \/ WakeUp \/ Load \/ Create \/ CloseOld \/ Install \/ Cleanup \/ InitRouter \/ AttachRouter \/ Record
ScraperThread == ScraperWakes \/ ScrapeMetrics
RequestTask == IsInstance \/ RouteRequest \/ TranscriptionRouted \/ TranscriptionPosted \/ Misrouted

Next ==
    \/ MainThread \/ WatcherThread \/ ScraperThread \/ RequestTask \/ CheckHealth
    \/ Shutdown \/ CloseHung \/ CloseOldHung \/ Edit \/ Toggle \/ Arrive \/ Transcribe

\* Threads run on; shutdown, edits, outages and the end of a watch need not happen.
Fairness ==
    /\ WF_vars(MainThread) /\ WF_vars(WatcherThread) /\ WF_vars(ScraperThread)
    /\ WF_vars(RequestTask) /\ WF_vars(CheckHealth)
Spec == Init /\ [][Next]_vars /\ Fairness
-----------------------------------------------------------------------------
\* A configuration file that the process can apply, and that is not edited
\* again, is recorded as the current one, whatever failed before it: each
\* exception of _watch_worker is survived and the file is tried again.  Only
\* the end of the watcher, or a close() that hangs, prevents it.
FileRecorded ==
    <>[][FALSE]_file =>
        []<>(\/ Fails[file] # "never" \/ current_config = file \/ ~running
             \/ watcher = "close" /\ Hangs)

\* What /health reports is in force: when a configuration becomes the current
\* one, the discovery and app.state.router are its own; the exception is the
\* router of the command line, which initialize_all may attach last.
RecordedIsServing ==
    [][current_config' # current_config =>
          discovery = current_config' /\ app_router \in {current_config', Args}]_vars

\* A discovery whose close() raises loses its replacements, but only those of
\* its own: the modules left running are bounded by the edits (and the start),
\* however often the watcher tries again.  The exception is a configuration
\* with such a discovery whose router or callbacks cannot be made: each try
\* installs its discovery, which the next try has to close.
LeaksBounded ==
    (\A c \in Configs : Stuck[c] = "raises" => Fails[c] \notin {"router", "callbacks"})
        => leaked <= MaxRaises * (edits + 1)

\* A request fails on the router's calling convention only if the router was
\* replaced while the request was in progress.
FailsOnlyInSwap == call = "misrouted" => swapped

\* While the scraper lives and the discovery stays, its statistics end up
\* being exactly those of the engines of that discovery that answer: engines
\* of earlier configurations and engines that are down are forgotten, an
\* engine that recovers is listed and scraped again.
StatsFollow ==
    <>[][FALSE]_<<discovery, engine_up>> /\ <>[](scraper \in {"sleep", "scrape"})
        => <>[](engine_stats = IF engine_up THEN discovery ELSE None)

\* Shutdown runs to its end and no thread is left, unless closing the
\* discovery hangs or raises.
ShutdownEnds ==
    (main \in Stopping) ~> \/ main \in {"stopped", "aborted"}
                           \/ Hangs /\ (main = "close_discovery" \/ watcher = "close")

\* After an orderly shutdown both threads have ended, no router is left, and
\* the discovery that lifespan fetched is closed.  One that the watcher has
\* installed between that and the end of its thread is left open.
StoppedClean ==
    main = "stopped" => /\ watcher = "done" /\ scraper \in {"ended", "dead"}
                        /\ instances = NoRouters
                        /\ held => closed

\* README.md: "The router will watch the config file for changes and update
\* the configuration accordingly (every 10 seconds)": a good file that stays
\* ends up being the configuration that lists the engines.
Converges ==
    \A c \in {d \in Configs : Fails[d] = "never"} :
        <>[](file = c /\ running) => <>[](discovery = c)
=============================================================================

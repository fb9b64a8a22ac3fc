------------------------- MODULE DynamicConfig_proofs -------------------------
(***************************************************************************)
(* The process while its configuration is replaced under it, for any set of  *)
(* configurations, wherever applying one fails, and any number of edits:     *)
(* requests, what /health reports, and the modules lost on the way.          *)
(***************************************************************************)
EXTENDS DynamicConfig, TLAPS

Applying == {"create", "close", "install", "cleanup", "init", "attach", "record"}
Replaced == {"cleanup", "init", "attach", "record"}

\* The order of initialize_all: the watcher starts after the discovery, and
\* requests come in after the router is attached.
StartInv ==
    /\ discovery = None <=> main = "discovery"
    /\ main \in {"discovery", "scraper", "watcher"} => watcher = "off"
    /\ main \in Starting => call = "idle"
    /\ main = "attach" => found \in ToSet(Kinds)

\* What the watcher applies comes from the file, and has not failed so far.
ApplyInv ==
    /\ watcher \in Applying => config \in Configs
    /\ watcher \in Applying \ {"create"} => Fails[config] # "discovery"
    /\ watcher \in {"attach", "record"} => Fails[config] # "router"
    /\ watcher \in Replaced => discovery = config

\* Since cleanup_routing_logic only the watcher and initialize_all have made
\* routers, and one of them is attached.
RouterInv ==
    /\ watcher \in {"init", "attach", "record"} =>
          \A k \in ToSet(Kinds) : instances[k] \in {None, config, Args}
    /\ watcher = "attach" => instances[Routing[config]] # None
    /\ watcher = "record" => app_router \in {config, Args}

\* The answer of isinstance holds until the router is replaced.
CallInv ==
    /\ call = "checked" => swapped \/ awaited = (Routing[app_router] \in AsyncKinds)
    /\ call = "misrouted" => swapped

\* Every configuration whose discovery may raise on close() can be applied.
Appliable == \A c \in Configs : Stuck[c] = "raises" => Fails[c] \notin {"router", "callbacks"}

\* Such a discovery, once installed, becomes the one of the current
\* configuration: only an edit makes the watcher close it.
CurrentInv ==
    discovery \in Configs /\ Stuck[discovery] = "raises" =>
        watcher \in Replaced \/ closed \/ current_config = discovery

\* How many modules may still be lost without a further edit.
Remaining ==
    IF discovery = None \/ (watcher \in {"create", "close", "install"} /\ file # config) THEN MaxRaises
    ELSE IF /\ ~closed /\ Stuck[discovery] = "raises"
            /\ watcher \in {"create", "close"} \/ file # discovery
    THEN MaxRaises - raised ELSE 0

LeakInv == leaked + Remaining <= MaxRaises * (edits + 1)

-----------------------------------------------------------------------------
LEMMA KindsFact ==
    /\ DOMAIN Kinds = 1 .. 5
    /\ ToSet(Kinds) = {"session", "roundrobin", "kvaware", "prefixaware", "disaggregated_prefill"}
    /\ \A i \in 1 .. 5 : Kinds[i] \in ToSet(Kinds)
  BY DEF Kinds, ToSet

LEMMA Constants ==
    /\ Args \in Known /\ Configs \subseteq Known /\ Args \notin Configs /\ None \notin Known
    /\ MaxRaises \in Nat /\ MaxEdits \in Nat
    /\ \A c \in Known : Routing[c] \in ToSet(Kinds)
  BY ConfigAssumption, KindsFact DEF Known

\* get_routing_logic finds a class of the registry.
LEMMA FirstPresent ==
    ASSUME Present # {}
    PROVE  Kinds[Min(Present)] \in ToSet(Kinds)
<1>1. Present \subseteq 1 .. 5
  BY KindsFact DEF Present
<1>2. \E x \in Present : \A y \in Present : x <= y
  <2>1. CASE 1 \in Present
    BY <1>1, <2>1
  <2>2. CASE 1 \notin Present /\ 2 \in Present
    BY <1>1, <2>2
  <2>3. CASE 1 \notin Present /\ 2 \notin Present /\ 3 \in Present
    BY <1>1, <2>3
  <2>4. CASE 1 \notin Present /\ 2 \notin Present /\ 3 \notin Present /\ 4 \in Present
    BY <1>1, <2>4
  <2>5. CASE 1 \notin Present /\ 2 \notin Present /\ 3 \notin Present /\ 4 \notin Present
    <3>1. \A x \in Present : x = 5
      BY <1>1, <2>5
    <3> QED
      BY <3>1
  <2> QED
    BY <2>1, <2>2, <2>3, <2>4, <2>5
<1>3. Min(Present) \in Present
  BY <1>2 DEF Min
<1> QED
  BY <1>1, <1>3, KindsFact, Zenon

Inv == TypeOK /\ StartInv /\ ApplyInv

LEMMA InvInit == Init => Inv
<1> SUFFICES ASSUME Init PROVE Inv
  OBVIOUS
<1>0. Flags
  BY Zenon DEF Init, Flags
<1>1. TypeOK
  BY <1>0, Constants DEF Init, TypeOK, Starting, Stopping
<1>2. StartInv /\ ApplyInv
  BY DEF Init, StartInv, ApplyInv, Applying, Replaced
<1> QED
  BY <1>1, <1>2 DEF Inv

LEMMA FlagsNext == ASSUME Flags, Next PROVE Flags'
<1> USE DEF Flags, process, watch, modules, routers, stats, engine, requests
<1>1. CASE \/ InitDiscovery \/ InitScraper \/ InitRouting \/ Lookup \/ Attach \/ Serve \/ JoinScraper
           \/ JoinWatcher \/ Shutdown
  BY <1>1, Zenon DEF InitDiscovery, InitScraper, InitRouting, Lookup, Attach, Serve, JoinScraper, JoinWatcher, Shutdown
<1>2. CASE InitWatcher
  BY <1>2, Zenon DEF InitWatcher
<1>3. CASE GetDiscovery
  BY <1>3, Zenon DEF GetDiscovery
<1>4. CASE CloseDiscovery
  BY <1>4, Zenon DEF CloseDiscovery
<1>5. CASE CloseHung
  BY <1>5, Zenon DEF CloseHung
<1>6. CASE WakeUp \/ Load \/ Create \/ Cleanup \/ InitRouter \/ Record \/ Edit
  BY <1>6 DEF WakeUp, Load, Create, Cleanup, InitRouter, Record, Edit
<1>7. CASE CloseOld
  BY <1>7, Zenon DEF CloseOld
<1>8. CASE CloseOldHung
  BY <1>8, Zenon DEF CloseOldHung
<1>9. CASE Install
  BY <1>9, Zenon DEF Install
<1>10. CASE AttachRouter
  <2>1. swapped' \in BOOLEAN
    BY <1>10, SMT DEF AttachRouter
  <2> QED
    BY <1>10, <2>1, Zenon DEF AttachRouter
<1>11. CASE ScraperThread \/ Arrive \/ Transcribe \/ TranscriptionRouted \/ TranscriptionPosted
  BY <1>11 DEF ScraperThread, ScraperWakes, ScrapeMetrics, Arrive, Transcribe, TranscriptionRouted,
     TranscriptionPosted
<1>12. CASE IsInstance
  <2>0. (Routing[app_router] \in Awaited) \in BOOLEAN
    OBVIOUS
  <2>1. awaited' \in BOOLEAN
    BY <1>12, <2>0, Zenon DEF IsInstance
  <2> QED
    BY <1>12, <2>1, Zenon DEF IsInstance
<1>13. CASE RouteRequest
  BY <1>13, Zenon DEF RouteRequest
<1>14. CASE Misrouted
  BY <1>14, Zenon DEF Misrouted
<1>15. CASE CheckHealth
  BY <1>15, Zenon DEF CheckHealth
<1>16. CASE Toggle
  BY <1>16, Zenon DEF Toggle
<1> QED
  BY <1>1, <1>2, <1>3, <1>4, <1>5, <1>6, <1>7, <1>8, <1>9, <1>10, <1>11, <1>12, <1>13, <1>14, <1>15, <1>16, Zenon
  DEF Next, MainThread, WatcherThread, RequestTask

\* The steps of the main thread.
LEMMA MainNext ==
    ASSUME Inv, MainThread \/ Shutdown \/ CloseHung
    PROVE  Inv'
<1> USE Constants DEF Inv, TypeOK, StartInv, ApplyInv, Applying, Replaced, Starting, Stopping,
        process, watch, modules, routers, stats, engine, requests
<1>0. Flags'
  BY FlagsNext DEF Next, Inv, TypeOK
<1>1. CASE InitDiscovery \/ InitScraper \/ InitWatcher
  BY <1>0, <1>1 DEF InitDiscovery, InitScraper, InitWatcher
<1>2. CASE InitRouting
  BY <1>0, <1>2 DEF InitRouting, initialize_routing_logic
<1>3. CASE Lookup
  BY <1>0, <1>3, FirstPresent DEF Lookup
<1>4. CASE Attach
  BY <1>0, <1>4 DEF Attach
<1>5. CASE Serve \/ Shutdown \/ JoinScraper \/ GetDiscovery
  BY <1>0, <1>5 DEF Serve, Shutdown, JoinScraper, GetDiscovery
<1>6. CASE CloseDiscovery
  BY <1>0, <1>6 DEF CloseDiscovery, Raises
<1>7. CASE CloseHung
  BY <1>0, <1>7 DEF CloseHung
<1>8. CASE JoinWatcher
  BY <1>0, <1>8 DEF JoinWatcher, NoRouters
<1> QED
  BY <1>1, <1>2, <1>3, <1>4, <1>5, <1>6, <1>7, <1>8, Zenon DEF MainThread

\* The steps of the watcher.
LEMMA WatcherNext ==
    ASSUME Inv, WatcherThread \/ CloseOldHung
    PROVE  Inv'
<1> USE Constants DEF Inv, TypeOK, StartInv, ApplyInv, Applying, Replaced, Starting, Stopping,
        process, watch, modules, routers, stats, engine, requests, GiveUp
<1>0. Flags'
  BY FlagsNext DEF Next, Inv, TypeOK
<1>1. CASE WakeUp
  BY <1>0, <1>1 DEF WakeUp, Awake
<1>2. CASE Load
  BY <1>0, <1>2 DEF Load
<1>3. CASE Create
  BY <1>0, <1>3 DEF Create, Created, NotCreated
<1>4. CASE CloseOld
  BY <1>0, <1>4 DEF CloseOld, CloseFails, Raises
<1>5. CASE CloseOldHung
  BY <1>0, <1>5 DEF CloseOldHung
<1>6. CASE Install
  BY <1>0, <1>6 DEF Install
<1>7. CASE Cleanup
  BY <1>0, <1>7 DEF Cleanup, NoRouters
<1>8. CASE InitRouter
  BY <1>0, <1>8 DEF InitRouter, initialize_routing_logic
<1>9. CASE AttachRouter
  BY <1>0, <1>9 DEF AttachRouter, Attached
<1>10. CASE Record
  BY <1>0, <1>10 DEF Record, Recorded
<1> QED
  BY <1>1, <1>2, <1>3, <1>4, <1>5, <1>6, <1>7, <1>8, <1>9, <1>10, Zenon DEF WatcherThread

\* The others: the scraper, the health checks, requests and the surroundings.
LEMMA OthersNext ==
    ASSUME Inv,
           ScraperThread \/ RequestTask \/ CheckHealth \/ Edit \/ Toggle \/ Arrive \/ Transcribe
    PROVE  Inv'
<1> USE Constants DEF Inv, TypeOK, StartInv, ApplyInv, Applying, Replaced, Starting, Stopping,
        process, watch, modules, routers, stats, engine, requests
<1>0. Flags'
  BY FlagsNext DEF Next, Inv, TypeOK
<1>1. CASE ScraperThread
  BY <1>0, <1>1 DEF ScraperThread, ScraperWakes, ScrapeMetrics, Scraped
<1>2. CASE RequestTask
  <2>1. call # "idle" /\ call' \in {"idle", "checked", "misrouted", "post"}
    BY <1>2, Zenon DEF RequestTask, IsInstance, RouteRequest, TranscriptionRouted, TranscriptionPosted, Misrouted
  <2>2. UNCHANGED <<process, file, edits, watch, modules, routers, stats, engine>>
    BY <1>2, Zenon DEF RequestTask, IsInstance, RouteRequest, TranscriptionRouted, TranscriptionPosted, Misrouted
  <2> QED
    BY <1>0, <2>1, <2>2
<1>3. CASE CheckHealth \/ Edit \/ Toggle
  BY <1>0, <1>3 DEF CheckHealth, Edit, Toggle
<1>4. CASE Arrive \/ Transcribe
  BY <1>0, <1>4 DEF Arrive, Transcribe
<1> QED
  BY <1>1, <1>2, <1>3, <1>4, Zenon

LEMMA InvNext == Inv /\ [Next]_vars => Inv'
<1> SUFFICES ASSUME Inv, [Next]_vars PROVE Inv'
  OBVIOUS
<1>1. CASE UNCHANGED vars
  BY <1>1 DEF vars, Inv, TypeOK, Flags, StartInv, ApplyInv, process, watch, modules, routers, stats, engine, requests
<1> QED
  BY <1>1, MainNext, WatcherNext, OthersNext DEF Next

LEMMA Invariance == Spec => []Inv
<1>1. Inv /\ [Next]_vars => Inv'
  BY InvNext
<1> QED
  BY InvInit, <1>1, PTL DEF Spec

\* Every reachable state has the declared types.
THEOREM TypeCorrect == Spec => []TypeOK
<1>1. Inv => TypeOK
  BY DEF Inv
<1> QED
  BY <1>1, Invariance, PTL
-----------------------------------------------------------------------------
(* Requests.                                                                 *)

LEMMA CallNext == Inv /\ CallInv /\ [Next]_vars => CallInv'
<1> SUFFICES ASSUME Inv, CallInv, [Next]_vars PROVE CallInv'
  OBVIOUS
<1> USE DEF CallInv, process, watch, modules, routers, stats, engine, requests
<1>1. CASE UNCHANGED <<app_router, requests>>
  BY <1>1
<1>2. CASE Attach
  BY <1>2 DEF Attach, Inv, StartInv, Starting
<1>3. CASE AttachRouter
  BY <1>3, Zenon DEF AttachRouter
<1>4. CASE Arrive \/ Transcribe \/ TranscriptionRouted \/ TranscriptionPosted \/ Misrouted
  BY <1>4 DEF Arrive, Transcribe, TranscriptionRouted, TranscriptionPosted, Misrouted
<1>5. CASE IsInstance
  BY <1>5 DEF IsInstance, Awaited, AsyncKinds
<1>6. CASE RouteRequest
  BY <1>6 DEF RouteRequest
<1>7. CASE MainThread \/ Shutdown \/ CloseHung
  BY <1>1, <1>2, <1>7, Zenon DEF MainThread, InitDiscovery, InitScraper, InitWatcher, InitRouting, Lookup, Serve,
     JoinScraper, GetDiscovery, CloseDiscovery, JoinWatcher, Shutdown, CloseHung
<1>8. CASE WatcherThread \/ CloseOldHung
  BY <1>1, <1>3, <1>8, Zenon DEF WatcherThread, WakeUp, Load, Create, CloseOld, Install, Cleanup, InitRouter, Record,
     CloseOldHung
<1>9. CASE ScraperThread \/ CheckHealth \/ Edit \/ Toggle \/ UNCHANGED vars
  BY <1>1, <1>9, Zenon DEF ScraperThread, ScraperWakes, ScrapeMetrics, CheckHealth, Edit, Toggle, vars
<1> QED
  BY <1>4, <1>5, <1>6, <1>7, <1>8, <1>9 DEF Next, RequestTask

\* A request is never handed to the router with the calling convention of
\* another kind, unless the router was replaced after the request came in.
THEOREM MisroutedInSwap == Spec => []FailsOnlyInSwap
<1>1. Init => CallInv
  BY DEF Init, CallInv
<1>2. Inv /\ CallInv /\ [Next]_vars => CallInv'
  BY CallNext
<1>3. CallInv => FailsOnlyInSwap
  BY DEF CallInv, FailsOnlyInSwap
<1> QED
  BY <1>1, <1>2, <1>3, Invariance, PTL DEF Spec
-----------------------------------------------------------------------------
(* What is in force.                                                         *)

LEMMA RouterNext == Inv /\ Inv' /\ RouterInv /\ [Next]_vars => RouterInv'
<1> SUFFICES ASSUME Inv, Inv', RouterInv, [Next]_vars PROVE RouterInv'
  OBVIOUS
<1>0. /\ instances \in [ToSet(Kinds) -> Known \cup {None}]
      /\ watcher \in Applying => config \in Configs /\ Routing[config] \in ToSet(Kinds)
      /\ main \in {"discovery", "scraper", "watcher"} => watcher = "off"
      /\ main = "attach" => found \in ToSet(Kinds)
  BY Constants DEF Inv, TypeOK, StartInv, ApplyInv
<1> USE Constants DEF RouterInv, process, watch, modules, routers, stats, engine, requests, Applying
<1>1. CASE UNCHANGED <<routers, watcher, config>>
  BY <1>1
<1>2. CASE InitWatcher
  BY <1>2, Zenon DEF InitWatcher
<1>3. CASE InitRouting
  BY <1>0, <1>3 DEF InitRouting, initialize_routing_logic
<1>4. CASE Attach
  BY <1>0, <1>4 DEF Attach
<1>5. CASE JoinWatcher
  BY <1>5 DEF JoinWatcher
<1>6. CASE WakeUp \/ Load \/ Create \/ CloseOld \/ CloseOldHung \/ Install \/ Record
  BY <1>6, Zenon DEF WakeUp, Awake, Load, Create, Created, NotCreated, CloseOld, CloseFails, CloseOldHung, Install,
     Record, GiveUp
<1>7. CASE Cleanup
  BY <1>7 DEF Cleanup, NoRouters
<1>8. CASE InitRouter
  BY <1>0, <1>8 DEF InitRouter, initialize_routing_logic, GiveUp
<1>9. CASE AttachRouter
  BY <1>0, <1>9 DEF AttachRouter, Attached
<1>10. CASE MainThread \/ Shutdown \/ CloseHung
  BY <1>1, <1>2, <1>3, <1>4, <1>5, <1>10, Zenon DEF MainThread, InitDiscovery, InitScraper, Lookup, Serve,
     JoinScraper, GetDiscovery, CloseDiscovery, Shutdown, CloseHung
<1>11. CASE ScraperThread \/ RequestTask \/ CheckHealth \/ Edit \/ Toggle \/ Arrive \/ Transcribe \/ UNCHANGED vars
  BY <1>1, <1>11, Zenon DEF ScraperThread, ScraperWakes, ScrapeMetrics, RequestTask, IsInstance, RouteRequest,
     TranscriptionRouted, TranscriptionPosted, Misrouted, CheckHealth, Edit, Toggle, Arrive, Transcribe, vars
<1> QED
  BY <1>6, <1>7, <1>8, <1>9, <1>10, <1>11 DEF Next, WatcherThread

\* When a configuration is recorded, which is what /health reports, the
\* discovery and the router are those of this configuration, or the router is
\* the one of the command line.
THEOREM RecordedServes == Spec => RecordedIsServing
<1>1. Init => RouterInv
  BY DEF Init, RouterInv
<1>2. Inv /\ RouterInv /\ [Next]_vars => RouterInv'
  BY InvNext, RouterNext
<1>3. Inv /\ RouterInv /\ [Next]_vars =>
         [current_config' # current_config =>
             discovery = current_config' /\ app_router \in {current_config', Args}]_vars
  <2> SUFFICES ASSUME Inv, RouterInv, Next, current_config' # current_config
               PROVE  discovery = current_config' /\ app_router \in {current_config', Args}
    BY DEF vars
  <2> USE DEF process, watch, modules, routers, stats, engine, requests
  <2>1. Record
    <3>1. ~MainThread /\ ~Shutdown /\ ~CloseHung
      BY DEF MainThread, InitDiscovery, InitScraper, InitWatcher, InitRouting, Lookup, Attach, Serve,
         JoinScraper, GetDiscovery, CloseDiscovery, JoinWatcher, Shutdown, CloseHung
    <3>2. WatcherThread => Record
      BY Zenon DEF WatcherThread, WakeUp, Load, Create, CloseOld, Install, Cleanup, InitRouter, AttachRouter
    <3>3. ~ScraperThread /\ ~RequestTask /\ ~CheckHealth /\ ~Edit /\ ~Toggle /\ ~Arrive /\ ~Transcribe
          /\ ~CloseOldHung
      BY Zenon DEF ScraperThread, ScraperWakes, ScrapeMetrics, RequestTask, IsInstance, RouteRequest,
         TranscriptionRouted, TranscriptionPosted, Misrouted, CheckHealth, Edit, Toggle, Arrive, Transcribe,
         CloseOldHung
    <3> QED
      BY <3>1, <3>2, <3>3 DEF Next
  <2> QED
    BY <2>1 DEF Record, Inv, ApplyInv, RouterInv, Replaced
<1> QED
  BY <1>1, <1>2, <1>3, Invariance, PTL DEF Spec, RecordedIsServing
-----------------------------------------------------------------------------
(* Discoveries that are lost.                                                *)

\* The numbers and configurations that LeakInv compares.
LEMMA Numbers ==
    ASSUME Inv
    PROVE  /\ leaked \in Nat /\ raised \in 0 .. MaxRaises /\ edits \in Nat /\ MaxRaises \in Nat
           /\ file \in Configs /\ current_config \in Known /\ discovery \in Known \cup {None}
           /\ Args \notin Configs /\ None \notin Configs
           /\ discovery \in Known => discovery \in Configs \/ discovery = Args
           /\ Remaining \in 0 .. MaxRaises
<1>1. /\ leaked \in Nat /\ raised \in 0 .. MaxRaises /\ edits \in Nat /\ MaxRaises \in Nat
      /\ file \in Configs /\ current_config \in Known /\ discovery \in Known \cup {None}
  BY Constants DEF Inv, TypeOK
<1>2. Remaining \in 0 .. MaxRaises
  <2>1. Remaining \in {MaxRaises, MaxRaises - raised, 0}
    BY Zenon DEF Remaining
  <2> QED
    BY <1>1, <2>1
<1> QED
  BY <1>1, <1>2, Constants DEF Known

LEMMA CurrentNext ==
    ASSUME Appliable, Inv, Inv', CurrentInv, [Next]_vars
    PROVE  CurrentInv'
<1> USE DEF CurrentInv, process, watch, modules, routers, stats, engine, requests
<1>1. CASE UNCHANGED <<discovery, closed, watcher, current_config>>
  BY <1>1
<1>2. CASE InitDiscovery
  BY <1>2, Constants, Zenon DEF InitDiscovery
<1>3. CASE InitWatcher
  BY <1>3 DEF InitWatcher, Inv, StartInv, Replaced
<1>4. CASE CloseDiscovery \/ CloseHung
  BY <1>4, Zenon DEF CloseDiscovery, CloseHung
<1>5. CASE WakeUp \/ Load \/ Create \/ CloseOld \/ CloseOldHung
  BY <1>5 DEF WakeUp, Load, Create, CloseOld, CloseOldHung, CloseFails, Replaced
<1>6. CASE Install \/ Cleanup \/ AttachRouter
  BY <1>6, Zenon DEF Install, Cleanup, AttachRouter, Replaced
<1>7. CASE InitRouter
  BY <1>7, Zenon DEF InitRouter, Replaced, Appliable, Inv, ApplyInv
<1>8. CASE Record
  BY <1>8, Zenon DEF Record, Recorded, Replaced, Appliable, Inv, ApplyInv
<1>9. CASE MainThread \/ Shutdown \/ CloseHung
  BY <1>1, <1>2, <1>3, <1>4, <1>9, Zenon DEF MainThread, InitScraper, InitRouting, Lookup, Attach, Serve,
     JoinScraper, GetDiscovery, JoinWatcher, Shutdown
<1>10. CASE ScraperThread \/ RequestTask \/ CheckHealth \/ Edit \/ Toggle \/ Arrive \/ Transcribe \/ UNCHANGED vars
  BY <1>1, <1>10, Zenon DEF ScraperThread, ScraperWakes, ScrapeMetrics, RequestTask, IsInstance, RouteRequest,
     TranscriptionRouted, TranscriptionPosted, Misrouted, CheckHealth, Edit, Toggle, Arrive, Transcribe, vars
<1> QED
  BY <1>5, <1>6, <1>7, <1>8, <1>9, <1>10, Zenon DEF Next, WatcherThread

\* A step that loses no module leaves no more to lose, unless it is an edit.
LEMMA LeakNext ==
    ASSUME Inv, Inv', CurrentInv, LeakInv, [Next]_vars
    PROVE  LeakInv'
<1> DEFINE B(n) == MaxRaises * (n + 1)
<1>0. /\ B(edits) \in Int
      /\ leaked + Remaining <= B(edits)
  BY Numbers DEF LeakInv
<1>p. Remaining' \in 0 .. MaxRaises
  <2>1. raised' \in 0 .. MaxRaises /\ MaxRaises \in Nat
    BY Constants DEF Inv, TypeOK
  <2>2. Remaining' \in {MaxRaises, MaxRaises - raised', 0}
    BY Zenon DEF Remaining
  <2>3. MaxRaises \in 0 .. MaxRaises /\ 0 \in 0 .. MaxRaises
    BY <2>1
  <2>4. MaxRaises - raised' \in 0 .. MaxRaises
    <3>1. \A r \in 0 .. MaxRaises : MaxRaises - r \in 0 .. MaxRaises
      BY <2>1
    <3> QED
      BY <2>1, <3>1, Zenon
  <2> QED
    BY <2>2, <2>3, <2>4, Zenon
<1>1. ASSUME UNCHANGED <<edits, leaked>>, Remaining' \in {Remaining, 0} \/ Remaining = MaxRaises
      PROVE  LeakInv'
  <2>1. Remaining' \in Int /\ Remaining' >= 0 /\ Remaining \in Int /\ Remaining >= 0 /\ leaked \in Int
    BY <1>p, Numbers
  <2>2. Remaining' <= Remaining
    BY <1>1, <1>p, <2>1
  <2>3. leaked + Remaining' <= B(edits)
    <3> HIDE DEF B
    <3> QED
      BY <1>0, <2>1, <2>2
  <2> QED
    BY <1>1, <2>3 DEF LeakInv
<1> HIDE DEF B
<1> USE DEF process, watch, modules, routers, stats, engine, requests
<1>2. CASE UNCHANGED <<discovery, closed, raised, leaked, watcher, config, file, edits>>
  BY <1>1, <1>2 DEF Remaining
<1>3. CASE InitDiscovery
  <2>1. Remaining = MaxRaises /\ UNCHANGED <<edits, leaked>>
    BY <1>3 DEF InitDiscovery, Remaining, Inv, StartInv
  <2> QED
    BY <1>1, <2>1
<1>4. CASE InitWatcher
  BY <1>1, <1>4 DEF InitWatcher, Remaining
<1>5. CASE CloseDiscovery \/ CloseHung
  <2>1. closed => closed'
    BY <1>5, Zenon DEF CloseDiscovery, CloseHung
  <2>2. UNCHANGED <<discovery, leaked, watcher, config, file, edits>>
    BY <1>5 DEF CloseDiscovery, CloseHung
  <2>3. CASE raised' = raised
    BY <1>1, <2>1, <2>2, <2>3 DEF Remaining
  <2>4. CASE raised' = raised + 1
    <3>1. Remaining' <= Remaining
      BY <1>p, <2>1, <2>2, <2>4, Numbers DEF Remaining
    <3>2. leaked' + Remaining' <= B(edits')
      BY <1>0, <1>p, <2>2, <3>1, Numbers
    <3> QED
      BY <3>2 DEF LeakInv, B
  <2>5. raised' = raised \/ raised' = raised + 1
    BY <1>5 DEF CloseDiscovery, CloseHung
  <2> QED
    BY <2>3, <2>4, <2>5
<1>6. CASE WakeUp
  BY <1>1, <1>6 DEF WakeUp, Awake, Remaining
<1>7. CASE Load
  BY <1>1, <1>7, Numbers DEF Load, GiveUp, Remaining, CurrentInv, Replaced
<1>8. CASE Create
  BY <1>1, <1>8 DEF Create, Created, NotCreated, GiveUp, Remaining
<1>9. CASE CloseOld
  <2>1. CASE Returns /\ UNCHANGED <<leaked, config>> /\ watcher' = "install"
    <3>1. closed' /\ UNCHANGED <<discovery, file, edits>> /\ watcher = "close"
      BY <1>9, <2>1 DEF CloseOld, CloseFails, GiveUp
    <3> QED
      BY <1>1, <2>1, <3>1 DEF Remaining
  <2>2. CASE Raises /\ CloseFails /\ UNCHANGED closed
    <3>1. Remaining >= MaxRaises - raised
      BY <1>9, <2>2, Numbers DEF CloseOld, Raises, Remaining
    <3>2. Remaining' <= MaxRaises - raised - 1
      BY <1>9, <2>2, Numbers DEF CloseOld, Raises, CloseFails, GiveUp, Remaining, Inv, StartInv
    <3>3. leaked' + Remaining' <= B(edits)
      <4>1. leaked' = leaked + 1
        BY <2>2 DEF CloseFails
      <4> QED
        BY <1>0, <1>p, <3>1, <3>2, <4>1, Numbers
    <3> QED
      BY <1>9, <3>3 DEF CloseOld, LeakInv, B
  <2> QED
    BY <1>9, <2>1, <2>2 DEF CloseOld
<1>10. CASE CloseOldHung
  BY <1>1, <1>10 DEF CloseOldHung, Remaining
<1>11. CASE Install
  BY <1>1, <1>11 DEF Install, Remaining, Inv, TypeOK
<1>12. CASE Cleanup \/ AttachRouter
  BY <1>1, <1>12 DEF Cleanup, AttachRouter, Remaining
<1>13. CASE InitRouter
  BY <1>1, <1>13, Zenon DEF InitRouter, GiveUp, Remaining
<1>14. CASE Record
  BY <1>1, <1>14 DEF Record, GiveUp, Remaining
<1>15. CASE Edit
  <2>1. B(edits') = B(edits) + MaxRaises
    BY <1>15, Numbers DEF Edit, B
  <2>2. leaked' + Remaining' <= B(edits')
    <3>1. leaked' = leaked
      BY <1>15 DEF Edit
    <3> QED
      BY <1>0, <1>p, <2>1, <3>1, Numbers
  <2> QED
    BY <2>2 DEF LeakInv, B
<1>16. CASE MainThread \/ Shutdown \/ CloseHung
  BY <1>2, <1>3, <1>4, <1>5, <1>16, Zenon DEF MainThread, InitScraper, InitRouting, Lookup, Attach, Serve,
     JoinScraper, GetDiscovery, JoinWatcher, Shutdown
<1>17. CASE ScraperThread \/ RequestTask \/ CheckHealth \/ Toggle \/ Arrive \/ Transcribe \/ UNCHANGED vars
  BY <1>2, <1>17, Zenon DEF ScraperThread, ScraperWakes, ScrapeMetrics, RequestTask, IsInstance, RouteRequest,
     TranscriptionRouted, TranscriptionPosted, Misrouted, CheckHealth, Toggle, Arrive, Transcribe, vars
<1> QED
  BY <1>6, <1>7, <1>8, <1>9, <1>10, <1>11, <1>12, <1>13, <1>14, <1>15, <1>16, <1>17 DEF Next, WatcherThread

\* However often the watcher tries again, the discovery modules that it lost
\* because the old one did not close are bounded by the edits of the file.
THEOREM BoundedLeaks == Spec => []LeaksBounded
<1>1. CASE Appliable
  <2>1. Init => CurrentInv /\ LeakInv
    BY Constants DEF Init, CurrentInv, LeakInv, Remaining
  <2>2. Inv /\ CurrentInv /\ LeakInv /\ [Next]_vars => (CurrentInv /\ LeakInv)'
    BY <1>1, InvNext, CurrentNext, LeakNext
  <2>3. Inv /\ LeakInv => LeaksBounded
    BY Numbers DEF LeakInv, LeaksBounded
  <2> QED
    BY <2>1, <2>2, <2>3, Invariance, PTL DEF Spec
<1>2. CASE ~Appliable
  <2>1. LeaksBounded
    BY <1>2 DEF LeaksBounded, Appliable
  <2> QED
    BY <2>1, PTL
<1> QED
  BY <1>1, <1>2
-----------------------------------------------------------------------------
\* What lifespan has joined or closed stays so, although the watcher goes on
\* replacing the discovery until it is joined itself.
StopInv ==
    /\ main \in {"get_discovery", "close_discovery", "join_watcher", "stopped"} => scraper \in {"ended", "dead"}
    /\ main \in {"join_watcher", "stopped"} => (held => closed)
    /\ main = "stopped" => watcher = "done" /\ instances = NoRouters

\* Every step keeps it.
LEMMA StopNext == Inv /\ StopInv /\ [Next]_vars => StopInv'
<1> SUFFICES ASSUME Inv, StopInv, [Next]_vars PROVE StopInv'
  OBVIOUS
<1> USE DEF process, watch, modules, routers, stats, engine, requests
<1>1. CASE UNCHANGED <<main, scraper, held, closed, watcher, instances>>
  BY <1>1, Zenon DEF StopInv
<1>2. CASE main' \in Starting \cup {"serving", "failed", "join_scraper", "aborted"}
  BY <1>2 DEF StopInv, Starting
<1>3. CASE JoinScraper
  <2>1. main' = "get_discovery" /\ scraper' \in {"ended", "dead"}
    BY <1>3 DEF JoinScraper
  <2> QED
    BY <2>1 DEF StopInv
<1>4. CASE GetDiscovery
  <2>1. main' = "close_discovery" /\ scraper' \in {"ended", "dead"}
    BY <1>4 DEF GetDiscovery, StopInv
  <2> QED
    BY <2>1 DEF StopInv
<1>5. CASE CloseDiscovery \/ CloseHung
  <2>1. scraper' \in {"ended", "dead"} /\ main' \in {"join_watcher", "aborted"}
    BY <1>5 DEF CloseDiscovery, CloseHung, StopInv
  <2>2. main' = "join_watcher" => (held' => closed')
    BY <1>5, Zenon DEF CloseDiscovery, CloseHung
  <2> QED
    BY <2>1, <2>2 DEF StopInv
<1>6. CASE JoinWatcher
  <2>1. main = "join_watcher" /\ UNCHANGED <<scraper, held, closed, watcher>> /\ watcher = "done" /\ instances' = NoRouters
    BY <1>6 DEF JoinWatcher
  <2>2. NoRouters' = NoRouters
    BY DEF NoRouters
  <2> QED
    BY <2>1, <2>2 DEF StopInv
<1>7. CASE WatcherThread \/ CloseOldHung
  <2>1. watcher \notin {"done", "off"} /\ UNCHANGED <<main, scraper>>
    BY <1>7, Zenon DEF WatcherThread, CloseOldHung, WakeUp, Load, Create, CloseOld, Install, Cleanup, InitRouter,
                AttachRouter, Record
  <2>2. (held => closed) => (held' => closed')
    <3>1. CASE Install
      BY <3>1, Zenon DEF Install
    <3>2. CASE CloseOld \/ CloseOldHung
      BY <3>2, Zenon DEF CloseOld, CloseOldHung
    <3>3. CASE UNCHANGED <<held, closed>>
      BY <3>3, Zenon
    <3>4. CASE WakeUp \/ Load \/ Create \/ Cleanup \/ InitRouter \/ AttachRouter \/ Record
      BY <3>3, <3>4, Zenon DEF WakeUp, Load, Create, Cleanup, InitRouter, AttachRouter, Record
    <3> QED
      BY <1>7, <3>1, <3>2, <3>4, Zenon DEF WatcherThread
  <2>3. main # "stopped"
    BY <2>1 DEF StopInv
  <2> QED
    BY <2>1, <2>2, <2>3, Zenon DEF StopInv
<1>8. CASE ScraperThread
  <2>1. scraper \in {"sleep", "scrape"} /\ main' = main
    BY <1>8 DEF ScraperThread, ScraperWakes, ScrapeMetrics
  <2>2. main \notin {"get_discovery", "close_discovery", "join_watcher", "stopped"}
    BY <2>1 DEF StopInv
  <2> QED
    BY <2>1, <2>2 DEF StopInv
<1>9. CASE InitDiscovery \/ InitScraper \/ InitWatcher \/ InitRouting \/ Lookup \/ Attach \/ Serve \/ Shutdown
  <2>1. main' \in Starting \cup {"serving", "failed", "join_scraper"}
    BY <1>9, Zenon DEF InitDiscovery, InitScraper, InitWatcher, InitRouting, Lookup, Attach, Serve, Shutdown, Starting
  <2> QED
    BY <1>2, <2>1
<1>10. CASE RequestTask \/ CheckHealth \/ Edit \/ Toggle \/ Arrive \/ Transcribe \/ UNCHANGED vars
  BY <1>1, <1>10, Zenon DEF RequestTask, IsInstance, RouteRequest, TranscriptionRouted, TranscriptionPosted, Misrouted,
     CheckHealth, Edit, Toggle, Arrive, Transcribe, vars
<1> QED
  BY <1>3, <1>4, <1>5, <1>6, <1>7, <1>8, <1>9, <1>10, Zenon DEF Next, MainThread

\* When lifespan has run to its end both threads have ended, the registry of
\* routers is empty, and the global discovery is closed if it is still the one
\* that lifespan fetched: the watcher may have replaced it until it was joined.
THEOREM StopsClean == Spec => []StoppedClean
<1>1. Init => StopInv
  BY DEF Init, StopInv
<1>2. StopInv => StoppedClean
  BY Zenon DEF StopInv, StoppedClean
<1> QED
  BY <1>1, <1>2, StopNext, Invariance, PTL DEF Spec
=============================================================================

-------------------------- MODULE ProviderRuntimes --------------------------
(***************************************************************************)
(* The providers of the gateway and their owners: the cache of provider    *)
(* instances and the discovery of their models (src/providers/runtime/),   *)
(* the application that starts and stops it (src/api/runtime.py), the      *)
(* requests that resolve a provider (src/api/dependencies.py), and POST    *)
(* /api/config (src/api/routes.py), which closes the runtime and puts      *)
(* another in its place while requests go on.                              *)
(*                                                                         *)
(* Steps are what asyncio runs between two awaits that really wait.        *)
(* Instance i is the i-th one created; an upstream query, the creation and *)
(* the closing of an instance may fail.                                    *)
(***************************************************************************)
EXTENDS Naturals, Sequences, FiniteSets

CONSTANTS
    Provider,       \* ids of providers (numbers), all usable under any settings
    Request,        \* requests
    MaxUpdates,     \* bound: POST /api/config
    MaxMade         \* bound: instances created

ASSUME RuntimesAssumption ==
    /\ Provider \subseteq Nat /\ IsFiniteSet(Provider)
    /\ MaxUpdates \in Nat /\ MaxMade \in Nat

VARIABLES
    settings,       \* number of the current settings, as get_settings returns them
    made,           \* instances in the order of their creation: [by, open]
    cacheOf,        \* ProviderCache._providers of each runtime, by provider: instances or 0
    models,         \* ProviderModelCache of each runtime: providers with a list
    refresh,        \* _refresh_task of each runtime: "none", "starting", "querying", "done"
    builtFrom,      \* the settings that each runtime was built from
    installed,      \* app.state.provider_runtime
    updates,        \* each POST /api/config: [at, old, new, todo]
    serving,        \* the instance each request uses, 0 for none
    requestAt,      \* of each request: "new", "open", "done", "broken"
    appPhase,       \* "validating", "up", "stopping", "down"
    todoAtStop,     \* instances that the shutdown has still to close
    overlapped,     \* history: requests that a POST /api/config overlapped
    raced,          \* history: two of these overlapped
    stuck, strays   \* history: instances whose closing failed; those created in a
                    \* runtime that was being closed, or by then was

runtimeVars == <<settings, made, cacheOf, models, refresh, builtFrom, installed, updates,
                 serving, requestAt, appPhase, todoAtStop, overlapped, raced, stuck, strays>>
workVars == <<serving, requestAt, overlapped>>

Runtime == 1 .. MaxUpdates + 1
Update == 1 .. MaxUpdates
NoCache == [p \in Provider |-> 0]
Idle == [at |-> "none", old |-> 0, new |-> 0, todo |-> {}]

RuntimeInit ==
    /\ settings = 1 /\ made = <<>> /\ installed = 1
    /\ cacheOf = [r \in Runtime |-> NoCache] /\ models = [r \in Runtime |-> {}]
    /\ refresh = [r \in Runtime |-> "none"] /\ builtFrom = [r \in Runtime |-> 1]
    /\ updates = [u \in Update |-> Idle]
    /\ serving = [q \in Request |-> 0] /\ requestAt = [q \in Request |-> "new"]
    /\ appPhase = "validating" /\ todoAtStop = {}
    /\ overlapped = {} /\ raced = FALSE /\ stuck = {} /\ strays = {}

Cached(r) == {cacheOf[r][p] : p \in Provider} \ {0}
UnderWay == {u \in Update : updates[u].at \in {"discovery", "closing"}}
Replaced(r) == \E u \in Update : updates[u].old = r

\* ProviderCache.get of each p in ps: those that are not there are created, if they can be.
Resolve(r, ps) ==
    \E new \in SUBSET {p \in ps : cacheOf[r][p] = 0} :
      /\ Len(made) + Cardinality(new) <= MaxMade
      /\ LET Nth(p) == Len(made) + Cardinality({q \in new : q <= p})
         IN  cacheOf' = [cacheOf EXCEPT ![r] = [p \in Provider |-> IF p \in new THEN Nth(p) ELSE @[p]]]
      /\ made' = made \o [k \in 1 .. Cardinality(new) |-> [by |-> r, open |-> TRUE]]
      /\ strays' = IF Replaced(r) \/ appPhase \in {"stopping", "down"}
                   THEN strays \cup (Len(made) + 1 .. Len(made) + Cardinality(new)) ELSE strays

-----------------------------------------------------------------------------
(* Startup and discovery.                                                  *)

\* validate_configured_models resolves what is configured, asks, and keeps the answers;
\* failures do not stop the start.  start_model_list_refresh follows, if a list is missing.
Validate ==
    /\ appPhase = "validating" /\ appPhase' = "up"
    /\ \E ps \in SUBSET Provider : Resolve(1, ps)
    /\ \E answered \in SUBSET {p \in Provider : cacheOf'[1][p] # 0} :
         models' = [models EXCEPT ![1] = answered]
    /\ refresh' = [refresh EXCEPT ![1] = IF models'[1] = Provider THEN "none" ELSE "starting"]
    /\ UNCHANGED <<settings, builtFrom, installed, updates, workVars, todoAtStop, raced, stuck>>

\* _run_refresh: the providers are resolved in its first step, and asked together.
RefreshStarts(r) ==
    /\ refresh[r] = "starting" /\ appPhase # "down"
    /\ Resolve(r, Provider \ models[r])
    /\ refresh' = [refresh EXCEPT ![r] = "querying"]
    /\ UNCHANGED <<settings, models, builtFrom, installed, updates, workVars, appPhase, todoAtStop,
                   raced, stuck>>

RefreshEnds(r) ==
    /\ refresh[r] = "querying" /\ appPhase # "down"
    /\ refresh' = [refresh EXCEPT ![r] = "done"]
    /\ \E answered \in SUBSET {p \in Provider : cacheOf[r][p] # 0} :
         models' = [models EXCEPT ![r] = @ \cup answered]
    /\ UNCHANGED <<settings, made, cacheOf, builtFrom, installed, updates, workVars, appPhase,
                   todoAtStop, raced, stuck, strays>>

-----------------------------------------------------------------------------
(* Requests: dependencies.resolve_provider, and the stream that follows.   *)

StartRequest(q, p) ==
    /\ requestAt[q] = "new" /\ appPhase = "up"
    /\ Resolve(installed, {p})
    /\ serving' = [serving EXCEPT ![q] = cacheOf'[installed][p]]
    /\ requestAt' = [requestAt EXCEPT ![q] = IF serving'[q] = 0 THEN "done" ELSE "open"]
    /\ overlapped' = IF UnderWay = {} THEN overlapped ELSE overlapped \cup {q}
    /\ UNCHANGED <<settings, models, refresh, builtFrom, installed, updates, appPhase, todoAtStop,
                   raced, stuck>>

EndRequest(q) ==
    /\ requestAt[q] = "open"
    /\ requestAt' = [requestAt EXCEPT ![q] = IF made[serving[q]].open THEN "done" ELSE "broken"]
    /\ UNCHANGED <<settings, made, cacheOf, models, refresh, builtFrom, installed, updates,
                   serving, appPhase, todoAtStop, overlapped, raced, stuck, strays>>

-----------------------------------------------------------------------------
(* POST /api/config.                                                       *)

\* Seeded fault: the cached settings are not cleared.
UpdateBeginsStale(u) ==
    /\ updates[u].at = "none" /\ appPhase = "up" /\ \A v \in Update : v < u => updates[v].at # "none"
    /\ settings' = settings + 1
    /\ updates' = [updates EXCEPT ![u] =
         [at |-> "discovery", old |-> installed, new |-> settings, todo |-> {}]]
    /\ overlapped' = overlapped \cup {q \in Request : requestAt[q] = "open"}
    /\ raced' = (raced \/ UnderWay # {})
    /\ UNCHANGED <<made, cacheOf, models, refresh, builtFrom, installed, serving, requestAt,
                   appPhase, todoAtStop, stuck, strays>>

\* The file, the environment and the settings; ProviderModelDiscovery.cleanup cancels a
\* refresh that is not over, and waits for it.
UpdateBegins(u) ==
    /\ updates[u].at = "none" /\ appPhase = "up" /\ \A v \in Update : v < u => updates[v].at # "none"
    /\ settings' = settings + 1
    /\ updates' = [updates EXCEPT ![u] =
         [at |-> "discovery", old |-> installed, new |-> settings + 1, todo |-> {}]]
    /\ overlapped' = overlapped \cup {q \in Request : requestAt[q] = "open"}
    /\ raced' = (raced \/ UnderWay # {})
    /\ UNCHANGED <<made, cacheOf, models, refresh, builtFrom, installed, serving, requestAt,
                   appPhase, todoAtStop, stuck, strays>>

\* ProviderCache.cleanup takes the list of what is to be closed.
UpdateCloses(u) ==
    /\ updates[u].at = "discovery"
    /\ LET r == updates[u].old
       IN  /\ refresh' = [refresh EXCEPT ![r] = IF @ = "none" THEN "none" ELSE "done"]
           /\ updates' = [updates EXCEPT ![u].at = "closing", ![u].todo = Cached(r)]
    /\ UNCHANGED <<settings, made, cacheOf, models, builtFrom, installed, workVars, appPhase,
                   todoAtStop, raced, stuck, strays>>

\* BaseProvider.cleanup of one; an exception is kept for the end.
Close(i, todo) ==
    /\ i \in todo
    /\ \/ made' = [made EXCEPT ![i].open = FALSE] /\ UNCHANGED stuck
       \/ stuck' = stuck \cup {i} /\ UNCHANGED made

CloseForUpdate(u, i) ==
    /\ updates[u].at = "closing" /\ Close(i, updates[u].todo)
    /\ updates' = [updates EXCEPT ![u].todo = @ \ {i}]
    /\ UNCHANGED <<settings, cacheOf, models, refresh, builtFrom, installed, workVars, appPhase,
                   todoAtStop, raced, strays>>

\* Whatever happened, the caches are cleared and a new runtime is installed.
UpdateInstalls(u) ==
    /\ updates[u].at = "closing" /\ updates[u].todo = {}
    /\ updates' = [updates EXCEPT ![u].at = "over"]
    /\ cacheOf' = [cacheOf EXCEPT ![updates[u].old] = NoCache]
    /\ models' = [models EXCEPT ![updates[u].old] = {}]
    /\ installed' = u + 1
    /\ builtFrom' = [builtFrom EXCEPT ![u + 1] = updates[u].new]
    /\ refresh' = [refresh EXCEPT ![u + 1] = "starting"]
    /\ UNCHANGED <<settings, made, workVars, appPhase, todoAtStop, raced, stuck, strays>>

-----------------------------------------------------------------------------
(* AppRuntime.shutdown, of the runtime of the start, with a timeout.       *)

ShutdownBegins ==
    /\ appPhase = "up" /\ UnderWay = {} /\ \A q \in Request : requestAt[q] # "open"
    /\ appPhase' = "stopping" /\ todoAtStop' = Cached(1)
    /\ refresh' = [refresh EXCEPT ![1] = IF @ = "none" THEN "none" ELSE "done"]
    /\ UNCHANGED <<settings, made, cacheOf, models, builtFrom, installed, updates, workVars,
                   raced, stuck, strays>>

CloseAtShutdown(i) ==
    /\ appPhase = "stopping" /\ Close(i, todoAtStop)
    /\ todoAtStop' = todoAtStop \ {i}
    /\ UNCHANGED <<settings, cacheOf, models, refresh, builtFrom, installed, updates, workVars,
                   appPhase, raced, strays>>

\* best_effort: a closing that takes too long takes the rest with it.
ShutdownEnds ==
    /\ appPhase = "stopping" /\ appPhase' = "down"
    /\ stuck' = stuck \cup todoAtStop /\ todoAtStop' = {}
    /\ cacheOf' = [cacheOf EXCEPT ![1] = NoCache] /\ models' = [models EXCEPT ![1] = {}]
    /\ UNCHANGED <<settings, made, refresh, builtFrom, installed, updates, workVars, raced, strays>>

RuntimeNext ==
    \/ Validate \/ ShutdownBegins \/ ShutdownEnds
    \/ \E r \in Runtime : RefreshStarts(r) \/ RefreshEnds(r)
    \/ \E q \in Request : EndRequest(q) \/ \E p \in Provider : StartRequest(q, p)
    \/ \E u \in Update : UpdateBegins(u) \/ UpdateCloses(u) \/ UpdateInstalls(u)
    \/ \E i \in DOMAIN made : CloseAtShutdown(i) \/ \E u \in Update : CloseForUpdate(u, i)

RuntimeSpec == RuntimeInit /\ [][RuntimeNext]_runtimeVars
-----------------------------------------------------------------------------
\* No provider is lost: an open instance is in the cache of the installed runtime, or its
\* closing is to come, or failed.  Except for what a request created in a runtime that was
\* being closed; and for the runtimes of updates that overlapped, or were there besides
\* the first at the shutdown, which nothing closes.
OpenIsOwned ==
    \A i \in DOMAIN made :
      \/ ~ made[i].open \/ i \in stuck \cup strays \/ raced
      \/ i \in Cached(installed) /\ (appPhase = "down" => installed # 1)
      \/ i \in todoAtStop
      \/ \E u \in UnderWay :
           updates[u].old = made[i].by /\ (updates[u].at = "discovery" \/ i \in updates[u].todo)

\* A request that no POST /api/config overlaps is not cut off by one: its provider stays
\* open, and is one of the current settings when these updates came one after the other.
UndisturbedAreServed ==
    \A q \in Request \ overlapped :
      /\ requestAt[q] # "broken"
      /\ requestAt[q] = "open" =>
           made[serving[q]].open /\ (raced \/ builtFrom[made[serving[q]].by] = settings)

\* Between requests, refreshes, configuration updates and shutdown no provider is lost,
\* and none is closed under a request that no update overlaps.
ProvidersAreKept == OpenIsOwned /\ UndisturbedAreServed
=============================================================================

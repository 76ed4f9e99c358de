----------------------------- MODULE MlatRuntime -----------------------------
(***************************************************************************)
(* The life of one MLAT process: ProductionMLATSystem (runtime.py), the    *)
(* receiver cache it keeps (base.py) and CKBReceiverNetworkClient with its *)
(* feed tasks (ingest/client.py, ingest/feed_transports.py).               *)
(*                                                                         *)
(* One event loop runs the main coroutine, the Registry refresh loop, the  *)
(* stream monitor, the processing and statistics loops, the feed tasks and *)
(* the stop() started by a signal.  A coroutine is atomic between two      *)
(* awaits that really suspend, so each action runs from one suspension to  *)
(* the next: start_streaming and the cache have none, _stop_stream_tasks   *)
(* suspends exactly when it has tasks to wait for.                         *)
(*                                                                         *)
(* A discovery either raises or returns some pool of receivers: what it    *)
(* returns is the subject of RegistryDiscovery.                            *)
(***************************************************************************)
EXTENDS Integers, FiniteSetsExt, Functions

CONSTANTS
    Ids,        \* receiver identities, in the order of their strings
    Endpoints,  \* stream endpoints a record may publish
    NoEndpoint, \* a record without one
    Bridge, Simulation  \* the endpoints of the two other transports

VARIABLES
    config,     \* [strict : STRICT_PRODUCTION_MODE, transport]
    main,       \* main(): "discover", "gather", "stopping" or "exited"
    is_running,
    stop,       \* stop(): "none", "waiting" for cancelled tasks, or "done"
    db,         \* "open" or "closed"
    refresh,    \* _registry_refresh_loop: where it is suspended, or how it ended
    prev,       \* active_receivers when the running refresh began
    monitor,    \* monitor_streaming: "watching", "ended" or "raised"
    loops,      \* processing and statistics loops: "running", "ended" or "raised"
    pool,       \* active_receivers: identity -> stream endpoint
    registry_discovery_live,
    positions,  \* receiver_positions
    rows,       \* the registry rows of the receivers table
    callback,   \* _message_callback is set
    tasks,      \* _stream_tasks
    crashed,    \* those of them that are done
    orphans,    \* feed tasks that run but that no list holds
    cancelled   \* feed tasks cancelled by a restart or by stop(), not yet ended

feedVars == <<callback, tasks, crashed, orphans>>
cacheVars == <<positions, rows>>
vars == <<config, main, is_running, stop, db, refresh, prev, monitor, loops, pool,
          registry_discovery_live, cacheVars, feedVars, cancelled>>

ASSUME RuntimeAssumption ==
    /\ Ids \subseteq Nat /\ IsFiniteSet(Ids)
    /\ {NoEndpoint, Bridge, Simulation} \cap Endpoints = {}

Pool == UNION {[S -> Endpoints \cup {NoEndpoint}] : S \in SUBSET Ids}
NoReceivers == [r \in {} |-> NoEndpoint]
Config == [strict : BOOLEAN, transport : {"websocket-json", "command-jsonl"}]

-----------------------------------------------------------------------------
(* Starting the feed *)

Task(r, e) == [receiver |-> r, endpoint |-> e]

\* One WebSocket task per receiver that publishes an endpoint.
WebSocketTasks(p) == {Task(r, p[r]) : r \in {q \in DOMAIN p : p[q] # NoEndpoint}}

Sharing(p) ==
    {r \in DOMAIN p : p[r] # NoEndpoint /\ \E q \in DOMAIN p \ {r} : p[q] = p[r]}

\* create_tasks raises at the first shared endpoint; the tasks of the endpoints
\* before it already run, and the list that holds them is lost.
LostTasks(p) ==
    {t \in WebSocketTasks(p) : \A r \in Sharing(p) : t.receiver < r}

\* start_streaming(p): the tasks it leaves, whether it raises, the tasks it loses.
start_streaming(p) ==
    CASE config.transport = "command-jsonl" ->
            [tasks |-> {Task(0, Bridge)}, raises |-> FALSE, lost |-> {}]
      [] config.transport = "websocket-json" /\ Sharing(p) # {} ->
            [tasks |-> {}, raises |-> TRUE, lost |-> LostTasks(p)]
      [] config.transport = "websocket-json" /\ Sharing(p) = {} /\ WebSocketTasks(p) # {} ->
            [tasks |-> WebSocketTasks(p), raises |-> FALSE, lost |-> {}]
      [] OTHER ->
            [tasks |-> IF config.strict THEN {} ELSE {Task(0, Simulation)},
             raises |-> config.strict, lost |-> {}]

\* Mutant: the feed keeps the endpoints of the previous pool.
StartFeed_KeepsEndpoints(p) ==
    LET s == start_streaming([r \in DOMAIN p |-> IF r \in DOMAIN prev THEN prev[r] ELSE p[r]])
    IN  /\ callback' = TRUE
        /\ tasks' = s.tasks /\ crashed' = {}
        /\ orphans' = orphans \cup s.lost

StartFeed(p) ==
    LET s == start_streaming(p)
    IN  /\ callback' = TRUE
        /\ tasks' = s.tasks /\ crashed' = {}
        /\ orphans' = orphans \cup s.lost

-----------------------------------------------------------------------------
(* The receiver cache: _cache_receiver_positions and its three hooks *)

\* With the database closed, the first hook that writes raises.
CacheRaises(p) ==
    /\ db = "closed"
    /\ positions' =
         IF DOMAIN positions \subseteq DOMAIN p /\ DOMAIN p # {}
         THEN LET first == Min(DOMAIN p)
              IN  [r \in DOMAIN positions \cup {first} |-> IF r = first THEN p[r] ELSE positions[r]]
         ELSE Restrict(positions, DOMAIN positions \cap DOMAIN p)
    /\ UNCHANGED rows

\* Cached identities are inserted, or updated where the table has a row of them.
store_receiver(table, p) ==
    [r \in DOMAIN table \cup DOMAIN p |-> IF r \in DOMAIN p THEN p[r] ELSE table[r]]

delete_receivers(table, ids) == Restrict(table, DOMAIN table \ ids)

\* The registry rows of every other identity go, an earlier process's among them.
delete_registry_receivers_except(table, ids) == Restrict(table, DOMAIN table \cap ids)

\* Mutant: rows that another process left behind are not removed.
Inventory_KeepsStaleRows(table, p) ==
    store_receiver(delete_receivers(table, DOMAIN positions \ DOMAIN p), p)

\* The table after the hooks: removed identities, each of the pool, all others.
Inventory(table, p) ==
    LET kept == delete_receivers(table, DOMAIN positions \ DOMAIN p)
    IN  delete_registry_receivers_except(store_receiver(kept, p), DOMAIN p)

Cache(p) ==
    /\ db = "open"
    /\ positions' = p
    /\ rows' = Inventory(rows, p)

-----------------------------------------------------------------------------
(* stop() *)

Shutdown ==
    /\ pool' = NoReceivers
    /\ registry_discovery_live' = FALSE
    /\ db' = "closed"
    /\ stop' = "done"

\* stop() up to its only suspension, when there are feed tasks to wait for.
BeginStop ==
    /\ stop = "none"
    /\ is_running' = FALSE /\ callback' = FALSE
    /\ tasks' = {} /\ crashed' = {}
    /\ IF tasks = {}
       THEN Shutdown /\ UNCHANGED cancelled
       ELSE stop' = "waiting" /\ cancelled' = cancelled \cup tasks
            /\ UNCHANGED <<pool, registry_discovery_live, db>>

SignalStop ==
    /\ main # "exited"
    /\ BeginStop
    /\ UNCHANGED <<config, main, refresh, prev, monitor, loops, cacheVars, orphans>>

\* The end of main() ends the event loop, and with it every task.
Exit ==
    /\ main' = "exited"
    /\ tasks' = {} /\ crashed' = {} /\ orphans' = {} /\ cancelled' = {}

StopResumes ==
    /\ main # "exited" /\ stop = "waiting"
    /\ Shutdown
    /\ IF main = "stopping"
       THEN Exit
       ELSE cancelled' = {} /\ UNCHANGED <<main, tasks, crashed, orphans>>
    /\ UNCHANGED <<config, is_running, refresh, prev, monitor, loops, cacheVars, callback>>

-----------------------------------------------------------------------------
(* main() *)

\* The finally clause: stop() returns at once when a signal has already run it.
Finally ==
    IF stop # "none"
    THEN Exit /\ UNCHANGED <<is_running, stop, db, pool, registry_discovery_live, callback>>
    ELSE IF tasks = {}
         THEN Exit /\ Shutdown /\ is_running' = FALSE /\ callback' = FALSE
         ELSE BeginStop /\ main' = "stopping" /\ UNCHANGED orphans

Init ==
    /\ config \in Config
    /\ main = "discover" /\ is_running = FALSE /\ stop = "none" /\ db = "open"
    /\ refresh = "none" /\ prev = NoReceivers /\ monitor = "none" /\ loops = "none"
    /\ pool = NoReceivers /\ registry_discovery_live = FALSE
    /\ positions = NoReceivers
    /\ rows \in Pool  \* what an earlier process left in the database
    /\ callback = FALSE /\ tasks = {} /\ crashed = {} /\ orphans = {} /\ cancelled = {}

\* The discovery of initialize() returns p, and start() runs up to its gather.
Ready(p, live) ==
    /\ main = "discover" /\ db = "open"
    /\ Cache(p)
    /\ pool' = p /\ registry_discovery_live' = live
    /\ IF start_streaming(p).raises
       THEN Exit /\ db' = "closed" /\ stop' = "done" /\ is_running' = FALSE
            /\ callback' = FALSE /\ UNCHANGED <<refresh, monitor, loops>>
       ELSE /\ StartFeed(p)
            /\ main' = "gather" /\ is_running' = TRUE
            /\ refresh' = "sleep" /\ monitor' = "watching" /\ loops' = "running"
            /\ UNCHANGED <<stop, db, cancelled>>
    /\ UNCHANGED <<config, prev>>

InitialDiscovery == \E p \in Pool : Ready(p, TRUE)

\* Strict mode does not start without the Registry; otherwise demo receivers do.
InitialDiscoveryFails == ~config.strict /\ Ready(NoReceivers, FALSE)

InitializeRaises ==
    /\ main = "discover"
    /\ config.strict \/ db = "closed"
    /\ Finally
    /\ UNCHANGED <<config, refresh, prev, monitor, loops, cacheVars>>

LoopsEnd ==
    /\ main # "exited" /\ loops = "running" /\ ~is_running
    /\ loops' = "ended"
    /\ UNCHANGED <<config, main, is_running, stop, db, refresh, prev, monitor, pool,
                   registry_discovery_live, cacheVars, feedVars, cancelled>>

\* The statistics loop reads and writes the database and catches nothing.
StatisticsRaise ==
    /\ main # "exited" /\ loops = "running" /\ is_running
    /\ loops' = "raised"
    /\ UNCHANGED <<config, main, is_running, stop, db, refresh, prev, monitor, pool,
                   registry_discovery_live, cacheVars, feedVars, cancelled>>

GatherEnds ==
    /\ main = "gather"
    /\ \/ monitor = "raised" \/ refresh = "raised" \/ loops = "raised"
       \/ monitor = "ended" /\ refresh = "ended" /\ loops = "ended"
    /\ Finally
    /\ UNCHANGED <<config, refresh, prev, monitor, loops, cacheVars>>

-----------------------------------------------------------------------------
(* monitor_streaming, and the feed tasks it watches *)

\* A feed task ends by itself: its transport raised or returned.
TaskCrashes ==
    /\ main # "exited"
    /\ \E t \in tasks \ crashed : crashed' = crashed \cup {t}
    /\ UNCHANGED <<config, main, is_running, stop, db, refresh, prev, monitor, loops, pool,
                   registry_discovery_live, cacheVars, callback, tasks, orphans, cancelled>>

\* Mutant: the monitor returns when it finds no task.
MonitorTicks_EndsWhenIdle ==
    /\ main # "exited" /\ monitor = "watching"
    /\ ~callback \/ tasks = {} \/ crashed # {}
    /\ monitor' = IF callback /\ crashed # {} THEN "raised" ELSE "ended"
    /\ UNCHANGED <<config, main, is_running, stop, db, refresh, prev, loops, pool,
                   registry_discovery_live, cacheVars, feedVars, cancelled>>

MonitorTicks ==
    /\ main # "exited" /\ monitor = "watching"
    /\ ~callback \/ crashed # {}
    /\ monitor' = IF callback THEN "raised" ELSE "ended"
    /\ UNCHANGED <<config, main, is_running, stop, db, refresh, prev, loops, pool,
                   registry_discovery_live, cacheVars, feedVars, cancelled>>

-----------------------------------------------------------------------------
(* _registry_refresh_loop *)

RefreshWakes ==
    /\ main # "exited" /\ refresh = "sleep"
    /\ IF is_running
       THEN refresh' = "discover" /\ prev' = pool
       ELSE refresh' = "ended" /\ UNCHANGED prev
    /\ UNCHANGED <<config, main, is_running, stop, db, monitor, loops, pool,
                   registry_discovery_live, cacheVars, feedVars, cancelled>>

\* Mutant: whatever the restart raises is logged and forgotten.
RestartAfterSuccess_Swallows(p) == StartFeed(p) /\ refresh' = "sleep"

\* start_streaming as the restart of a successful refresh, with the except clause
\* around it: a second attempt, on the same pool, when the membership changed.
RestartAfterSuccess(p) ==
    /\ StartFeed(p)
    /\ refresh' =
         IF start_streaming(p).raises
            /\ (db = "closed" \/ DOMAIN p # DOMAIN prev \/ config.strict)
         THEN "raised"
         ELSE "sleep"

\* The same from the except clause: nothing catches what it raises.
RestartAfterFailure(p) ==
    /\ StartFeed(p)
    /\ refresh' = IF start_streaming(p).raises \/ config.strict THEN "raised" ELSE "sleep"

\* _stop_stream_tasks suspends until the tasks it cancelled have ended.
CancelTasks(next) ==
    /\ tasks # {}
    /\ cancelled' = cancelled \cup tasks /\ tasks' = {} /\ crashed' = {}
    /\ refresh' = next
    /\ UNCHANGED <<callback, orphans>>

\* The feed restarts when anything in the records changed, be it their endpoints
\* or, in the same pool, a sequence or an owner.
RefreshSucceeds ==
    /\ main # "exited" /\ refresh = "discover"
    /\ registry_discovery_live' = TRUE
    /\ \E p \in Pool :
          /\ pool' = p
          /\ \/ /\ CacheRaises(p) /\ refresh' = "raised"
                /\ UNCHANGED <<feedVars, cancelled>>
             \/ /\ p = prev \/ ~callback
                /\ Cache(p) /\ refresh' = "sleep"
                /\ UNCHANGED <<feedVars, cancelled>>
             \/ /\ callback
                /\ Cache(p) /\ CancelTasks("restart")
             \/ /\ callback /\ tasks = {}
                /\ Cache(p) /\ RestartAfterSuccess(p)
                /\ UNCHANGED cancelled
    /\ UNCHANGED <<config, main, is_running, stop, db, prev, monitor, loops>>

\* Mutant: a failed refresh leaves the receivers of the last one in place.
RefreshFails_KeepsPool ==
    /\ main # "exited" /\ refresh = "discover"
    /\ registry_discovery_live' = FALSE
    /\ refresh' = IF config.strict THEN "raised" ELSE "sleep"
    /\ UNCHANGED <<config, main, is_running, stop, db, prev, monitor, loops, pool, cacheVars,
                   feedVars, cancelled>>

RefreshFails ==
    /\ main # "exited" /\ refresh = "discover"
    /\ registry_discovery_live' = FALSE
    /\ pool' = NoReceivers
    /\ \/ /\ CacheRaises(NoReceivers) /\ refresh' = "raised"
          /\ UNCHANGED <<feedVars, cancelled>>
       \/ /\ DOMAIN prev = {} \/ ~callback
          /\ Cache(NoReceivers)
          /\ refresh' = IF config.strict THEN "raised" ELSE "sleep"
          /\ UNCHANGED <<feedVars, cancelled>>
       \/ /\ DOMAIN prev # {} /\ callback
          /\ Cache(NoReceivers) /\ CancelTasks("restart_failed")
       \/ /\ DOMAIN prev # {} /\ callback /\ tasks = {}
          /\ Cache(NoReceivers) /\ RestartAfterFailure(NoReceivers)
          /\ UNCHANGED cancelled
    /\ UNCHANGED <<config, main, is_running, stop, db, prev, monitor, loops>>

RestartResumes ==
    /\ main # "exited"
    /\ \/ /\ refresh = "restart" /\ RestartAfterSuccess(pool)
          /\ IF start_streaming(pool).raises
             THEN Cache(pool) \/ CacheRaises(pool)
             ELSE UNCHANGED cacheVars
       \/ /\ refresh = "restart_failed" /\ RestartAfterFailure(pool)
          /\ UNCHANGED cacheVars
    /\ cancelled' = {}
    /\ UNCHANGED <<config, main, is_running, stop, db, prev, monitor, loops, pool,
                   registry_discovery_live>>

-----------------------------------------------------------------------------
Initialize == InitialDiscovery \/ InitialDiscoveryFails \/ InitializeRaises
Refresh == RefreshWakes \/ RefreshSucceeds \/ RefreshFails \/ RestartResumes

Next ==
    \/ Initialize \/ Refresh \/ MonitorTicks \/ LoopsEnd \/ GatherEnds
    \/ StopResumes \/ SignalStop \/ TaskCrashes \/ StatisticsRaise

\* The event loop runs every coroutine that is ready: sleeps end, RPC calls
\* return or time out, cancelled tasks end.  Signals, crashes and errors need not come.
Fairness ==
    /\ WF_vars(Initialize) /\ WF_vars(Refresh) /\ WF_vars(MonitorTicks)
    /\ WF_vars(LoopsEnd) /\ WF_vars(GatherEnds) /\ WF_vars(StopResumes)

Spec == Init /\ [][Next]_vars /\ Fairness

-----------------------------------------------------------------------------
(* Properties *)

TypeOK ==
    /\ config \in Config
    /\ main \in {"discover", "gather", "stopping", "exited"}
    /\ is_running \in BOOLEAN /\ callback \in BOOLEAN /\ registry_discovery_live \in BOOLEAN
    /\ stop \in {"none", "waiting", "done"} /\ db \in {"open", "closed"}
    /\ refresh \in {"none", "sleep", "discover", "restart", "restart_failed", "ended", "raised"}
    /\ monitor \in {"none", "watching", "ended", "raised"}
    /\ loops \in {"none", "running", "ended", "raised"}
    /\ pool \in Pool /\ prev \in Pool /\ positions \in Pool /\ rows \in Pool
    /\ crashed \subseteq tasks

Serving == main = "gather" /\ stop = "none"

\* While the process serves, the receivers it solves with, the receivers the
\* API reads from the database and the verified pool are the same: after any
\* mix of refreshes, failures and restarts, and whatever an earlier process
\* left in the database (base.py:48-59, runtime.py:298-320, 398-407).
InventoryAgrees == Serving => positions = pool /\ rows = pool

\* From a failed refresh until the next complete one, no Registry receiver takes
\* part in MLAT (client.py:166-177; docs/pilot/test-plan.md:56).
NotLiveMeansEmpty == main = "gather" /\ ~registry_discovery_live => pool = NoReceivers

\* In strict mode, between two refreshes the feed tasks are those of the current
\* pool: one per published endpoint, none of a removed receiver, none lost
\* (client.py:211-279, feed_transports.py:260-296).
StrictFeedFollowsPool ==
    Serving /\ refresh = "sleep" /\ config.strict =>
        /\ orphans = {}
        /\ tasks = IF config.transport = "command-jsonl" THEN {Task(0, Bridge)}
                   ELSE WebSocketTasks(pool)

\* A feed task that ends is noticed: it is replaced, or the process ends
\* (runtime.py:377-378, client.py:281-293).
CrashIsNoticed == crashed # {} ~> crashed = {}

\* With strict WebSocket feeds, a stop that has begun ends the process, whatever
\* refresh or restart it interrupts (runtime.py:609-640, client.py:397-406).
StrictStopEnds ==
    config.strict /\ config.transport = "websocket-json" /\ stop # "none" ~> main = "exited"

\* runtime.py:610, "Stop the system gracefully": in every configuration, a stop
\* that has begun ends the process.
StopEnds == stop # "none" ~> main = "exited"
=============================================================================

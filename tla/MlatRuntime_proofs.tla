------------------------- MODULE MlatRuntime_proofs -------------------------
(***************************************************************************)
(* The safety properties of MlatRuntime for any receivers and endpoints:   *)
(* what the process holds in memory, in the database and as feed tasks     *)
(* follows the verified pool, wherever a stop, a crash or a failure falls. *)
(***************************************************************************)
EXTENDS MlatRuntime, TLAPS

\* The tasks that a strict process is to have for a pool.
StrictTasks(p) ==
    IF config.transport = "command-jsonl" THEN {Task(0, Bridge)} ELSE WebSocketTasks(p)

\* Before the first pool there is no refresh, and no feed that could be lost.
StartInv == main = "discover" => refresh = "none" /\ orphans = {}

\* Nothing but a stop closes the database or takes the callback away.
ServingInv == Serving => db = "open" /\ callback

\* A refresh compares with the pool that it will replace.
PrevInv == Serving /\ refresh = "discover" => prev = pool

\* Only a refresh that also ends a strict process loses tasks.
OrphansInv ==
    Serving /\ config.strict /\ refresh \in {"sleep", "discover", "restart"} => orphans = {}

\* The tasks are those of the pool until a refresh takes them down.
TasksInv ==
    Serving /\ config.strict /\ refresh \in {"sleep", "discover"} => tasks = StrictTasks(pool)

IInv ==
    /\ config \in Config
    /\ StartInv /\ ServingInv /\ PrevInv /\ OrphansInv /\ TasksInv
    /\ InventoryAgrees /\ NotLiveMeansEmpty

-----------------------------------------------------------------------------

LEMMA NoReceiversIsPool == NoReceivers \in Pool
<1>1. NoReceivers \in [{} -> Endpoints \cup {NoEndpoint}]
    BY DEF NoReceivers
<1> QED
    BY <1>1 DEF Pool

\* Whatever was in the table, the three hooks leave the pool in it.
LEMMA InventoryIsPool ==
    ASSUME NEW p \in Pool, NEW table
    PROVE  Inventory(table, p) = p
<1> DEFINE kept == delete_receivers(table, DOMAIN positions \ DOMAIN p)
           stored == store_receiver(kept, p)
<1>1. DOMAIN p \subseteq DOMAIN stored /\ \A r \in DOMAIN p : stored[r] = p[r]
    <2> HIDE DEF kept
    <2> QED BY DEF store_receiver
<1>2. Inventory(table, p) = [r \in DOMAIN stored \cap DOMAIN p |-> stored[r]]
    BY DEF Inventory, delete_registry_receivers_except, Restrict
<1>3. p = [r \in DOMAIN p |-> p[r]]
    BY DEF Pool
<1> HIDE DEF stored
<1> QED
    BY <1>1, <1>2, <1>3

LEMMA CacheStoresPool ==
    ASSUME NEW p \in Pool, Cache(p)
    PROVE  db = "open" /\ positions' = p /\ rows' = p
BY InventoryIsPool DEF Cache

\* A strict start that does not raise has the tasks of its pool and loses none.
LEMMA StrictStart ==
    ASSUME config \in Config, config.strict, NEW p, ~start_streaming(p).raises
    PROVE  start_streaming(p).tasks = StrictTasks(p) /\ start_streaming(p).lost = {}
<1>1. CASE config.transport = "command-jsonl"
    BY <1>1 DEF start_streaming, StrictTasks
<1>2. CASE config.transport = "websocket-json"
  <2>1. Sharing(p) = {} /\ WebSocketTasks(p) # {}
      BY <1>2 DEF start_streaming
  <2> QED
      BY <1>2, <2>1 DEF start_streaming, StrictTasks
<1> QED
    BY <1>1, <1>2 DEF Config

\* The feed that a strict start leaves.
LEMMA StrictFeed ==
    ASSUME config \in Config, config.strict, NEW p, ~start_streaming(p).raises,
           StartFeed(p), orphans = {}
    PROVE  tasks' = StrictTasks(p) /\ orphans' = {}
BY StrictStart DEF StartFeed

\* Once a stop has begun or main() has ended, only the empty pool of a failed
\* discovery is left to say anything about.
LEMMA NotServing ==
    ASSUME IInv, config' = config, main' # "discover", ~Serving', NotLiveMeansEmpty'
    PROVE  IInv'
BY DEF IInv, StartInv, ServingInv, PrevInv, OrphansInv, TasksInv, InventoryAgrees

LEMMA InitIInv == Init => IInv
BY DEF Init, IInv, StartInv, ServingInv, PrevInv, OrphansInv, TasksInv, InventoryAgrees,
       NotLiveMeansEmpty, Serving

LEMMA ReadyIsFine ==
    ASSUME IInv, NEW p \in Pool, NEW live, Ready(p, live), live \in BOOLEAN, live \/ p = NoReceivers
    PROVE  IInv'
<1>1. CASE start_streaming(p).raises
    BY <1>1, NotServing DEF Ready, Exit, Serving, NotLiveMeansEmpty
<1>2. CASE ~start_streaming(p).raises
  <2>1. /\ config' = config /\ main' = "gather" /\ refresh' = "sleep"
        /\ StartFeed(p) /\ Cache(p) /\ pool' = p /\ registry_discovery_live' = live
        /\ UNCHANGED db /\ callback'
      BY <1>2 DEF Ready, StartFeed
  <2>2. orphans = {}
      BY DEF Ready, IInv, StartInv
  <2>3. config.strict => tasks' = StrictTasks(p) /\ orphans' = {}
      BY <1>2, <2>1, <2>2, StrictFeed DEF IInv
  <2>4. db = "open" /\ positions' = p /\ rows' = p
      BY <2>1, CacheStoresPool
  <2>5. StrictTasks(p)' = StrictTasks(p')
      BY <2>1 DEF StrictTasks, WebSocketTasks
  <2> QED
      BY <2>1, <2>3, <2>4, <2>5 DEF IInv, StartInv, ServingInv, PrevInv, OrphansInv, TasksInv,
          InventoryAgrees, NotLiveMeansEmpty, Serving, StrictTasks, WebSocketTasks, Task
<1> QED
    BY <1>1, <1>2

LEMMA FinallyIsFine ==
    ASSUME IInv, Finally, UNCHANGED config, main \in {"discover", "gather"}
    PROVE  IInv'
<1>1. main' # "discover" /\ main' # "gather"
    BY DEF Finally, Exit, BeginStop
<1> QED
    BY <1>1, NotServing DEF Serving, NotLiveMeansEmpty

\* A stop leaves nothing of the pool, or all of it until its tasks have ended.
LEMMA BeginStopIsFine ==
    ASSUME IInv, BeginStop, UNCHANGED <<config, main, refresh, orphans>>
    PROVE  IInv'
<1>1. ~Serving' /\ NotLiveMeansEmpty'
    BY DEF BeginStop, Shutdown, Serving, IInv, NotLiveMeansEmpty
<1> QED
    BY <1>1 DEF IInv, StartInv, ServingInv, PrevInv, OrphansInv, TasksInv, InventoryAgrees

\* Steps that leave pool, cache, feed and the place of main() and refresh alone.
LEMMA ElsewhereIsFine ==
    ASSUME IInv,
           UNCHANGED <<config, main, stop, db, refresh, prev, pool, registry_discovery_live,
                       cacheVars, callback, tasks, orphans>>
    PROVE  IInv'
BY DEF IInv, StartInv, ServingInv, PrevInv, OrphansInv, TasksInv, InventoryAgrees,
       NotLiveMeansEmpty, Serving, StrictTasks, WebSocketTasks, cacheVars, Task

LEMMA RestartIsFine ==
    ASSUME IInv, NEW p, RestartAfterSuccess(p), pool' = p,
           UNCHANGED <<config, main, stop, db>>, main # "discover",
           Serving => orphans = {} \/ ~config.strict,
           Serving' => positions' = p /\ rows' = p,
           NotLiveMeansEmpty'
    PROVE  IInv'
<1>1. callback' /\ StartFeed(p)
    BY DEF RestartAfterSuccess, StartFeed
<1>2. CASE Serving /\ config.strict
  <2>1. CASE start_streaming(p).raises
    <3>1. refresh' = "raised"
        BY <1>2, <2>1 DEF RestartAfterSuccess
    <3> QED
        BY <1>1, <3>1 DEF IInv, StartInv, ServingInv, PrevInv, OrphansInv, TasksInv,
            InventoryAgrees, Serving
  <2>2. CASE ~start_streaming(p).raises
    <3>1. tasks' = StrictTasks(p) /\ orphans' = {}
        BY <1>1, <1>2, <2>2, StrictFeed DEF IInv
    <3>2. refresh' = "sleep"
        BY <2>2 DEF RestartAfterSuccess
    <3> QED
        BY <1>1, <3>1, <3>2 DEF IInv, StartInv, ServingInv, PrevInv, OrphansInv, TasksInv,
            InventoryAgrees, Serving, StrictTasks, WebSocketTasks, Task
  <2> QED
      BY <2>1, <2>2
<1>3. CASE ~(Serving /\ config.strict)
  <2>1. refresh' # "discover"
      BY DEF RestartAfterSuccess
  <2> QED
      BY <1>1, <1>3, <2>1 DEF IInv, StartInv, ServingInv, PrevInv, OrphansInv, TasksInv,
          InventoryAgrees, Serving
<1> QED
    BY <1>2, <1>3

LEMMA RestartAfterFailureIsFine ==
    ASSUME IInv, NEW p, RestartAfterFailure(p),
           UNCHANGED <<config, main, stop, db>>, main # "discover",
           InventoryAgrees', NotLiveMeansEmpty'
    PROVE  IInv'
<1>1. callback' /\ refresh' \in {"sleep", "raised"} /\ (config.strict => refresh' = "raised")
    BY DEF RestartAfterFailure, StartFeed
<1> QED
    BY <1>1 DEF IInv, StartInv, ServingInv, PrevInv, OrphansInv, TasksInv, Serving

LEMMA RefreshWakesIsFine == IInv /\ RefreshWakes => IInv'
BY DEF RefreshWakes, feedVars, cacheVars, IInv, StartInv, ServingInv, PrevInv, OrphansInv,
       TasksInv, InventoryAgrees, NotLiveMeansEmpty, Serving, StrictTasks, WebSocketTasks, Task

LEMMA RefreshSucceedsIsFine == IInv /\ RefreshSucceeds => IInv'
<1> SUFFICES ASSUME IInv, RefreshSucceeds PROVE IInv'
    OBVIOUS
<1>1. /\ UNCHANGED <<config, main, stop, db>> /\ main # "discover" /\ refresh = "discover"
      /\ NotLiveMeansEmpty'
    BY DEF RefreshSucceeds, IInv, StartInv, NotLiveMeansEmpty
<1>2. PICK p \in Pool :
          /\ pool' = p
          /\ \/ /\ CacheRaises(p) /\ refresh' = "raised"
                /\ UNCHANGED <<feedVars, cancelled>>
             \/ /\ p = prev \/ ~callback
                /\ Cache(p) /\ refresh' = "sleep"
                /\ UNCHANGED <<feedVars, cancelled>>
             \/ /\ callback
                /\ Cache(p) /\ CancelTasks("restart")
             \/ /\ callback /\ tasks = {}
                /\ Cache(p) /\ RestartAfterSuccess(p)
                /\ UNCHANGED cancelled
    BY DEF RefreshSucceeds
<1>3. CASE CacheRaises(p)
    BY <1>1, <1>3, NotServing DEF CacheRaises, IInv, ServingInv, Serving
<1>4. CASE /\ p = prev \/ ~callback
           /\ Cache(p) /\ refresh' = "sleep" /\ UNCHANGED <<feedVars, cancelled>>
    BY <1>1, <1>2, <1>4, CacheStoresPool DEF feedVars, IInv, StartInv, ServingInv, PrevInv,
        OrphansInv, TasksInv, InventoryAgrees, Serving, StrictTasks, WebSocketTasks, Task
<1>5. CASE callback /\ Cache(p) /\ CancelTasks("restart")
    BY <1>1, <1>2, <1>5, CacheStoresPool, NoReceiversIsPool DEF CancelTasks, IInv, StartInv, ServingInv, PrevInv,
        OrphansInv, TasksInv, InventoryAgrees, Serving
<1>6. CASE Cache(p) /\ RestartAfterSuccess(p)
    BY <1>1, <1>2, <1>6, CacheStoresPool, RestartIsFine DEF IInv, OrphansInv
<1> QED
    BY <1>2, <1>3, <1>4, <1>5, <1>6

LEMMA RefreshFailsIsFine == IInv /\ RefreshFails => IInv'
<1> SUFFICES ASSUME IInv, RefreshFails PROVE IInv'
    OBVIOUS
<1>1. /\ UNCHANGED <<config, main, stop, db>> /\ main # "discover" /\ pool' = NoReceivers
    BY DEF RefreshFails, IInv, StartInv
<1>2. NotLiveMeansEmpty'
    BY <1>1 DEF NotLiveMeansEmpty
<1>3. CASE CacheRaises(NoReceivers)
    BY <1>1, <1>2, <1>3, NotServing DEF CacheRaises, IInv, ServingInv, Serving
<1>4. CASE /\ Cache(NoReceivers)
           /\ refresh' = IF config.strict THEN "raised" ELSE "sleep"
           /\ UNCHANGED <<feedVars, cancelled>>
    BY <1>1, <1>2, <1>4, CacheStoresPool, NoReceiversIsPool DEF feedVars, IInv, StartInv,
        ServingInv, PrevInv, OrphansInv, TasksInv, InventoryAgrees, Serving
<1>5. CASE callback /\ Cache(NoReceivers) /\ CancelTasks("restart_failed")
    BY <1>1, <1>2, <1>5, CacheStoresPool, NoReceiversIsPool DEF CancelTasks, IInv, StartInv, ServingInv, PrevInv,
        OrphansInv, TasksInv, InventoryAgrees, Serving
<1>6. CASE Cache(NoReceivers) /\ RestartAfterFailure(NoReceivers)
  <2>1. InventoryAgrees'
      BY <1>1, <1>6, CacheStoresPool, NoReceiversIsPool DEF InventoryAgrees
  <2> QED
      BY <1>1, <1>2, <1>6, <2>1, RestartAfterFailureIsFine
<1> QED
    BY <1>3, <1>4, <1>5, <1>6 DEF RefreshFails

LEMMA RestartResumesIsFine == IInv /\ pool \in Pool /\ RestartResumes => IInv'
<1> SUFFICES ASSUME IInv, pool \in Pool, RestartResumes PROVE IInv'
    OBVIOUS
<1>1. /\ UNCHANGED <<config, main, stop, db, pool>> /\ main # "discover" /\ NotLiveMeansEmpty'
    BY DEF RestartResumes, IInv, StartInv, NotLiveMeansEmpty
<1>2. InventoryAgrees'
  <2>1. CASE UNCHANGED cacheVars
      BY <1>1, <2>1 DEF cacheVars, IInv, InventoryAgrees, Serving
  <2>2. CASE Cache(pool)
      BY <1>1, <2>2, CacheStoresPool DEF InventoryAgrees
  <2>3. CASE CacheRaises(pool)
      BY <1>1, <2>3 DEF CacheRaises, IInv, ServingInv, InventoryAgrees, Serving
  <2> QED
      BY <2>1, <2>2, <2>3 DEF RestartResumes
<1>3. CASE refresh = "restart" /\ RestartAfterSuccess(pool)
  <2>1. Serving' => positions' = pool /\ rows' = pool
      BY <1>1, <1>2 DEF InventoryAgrees
  <2> QED
      BY <1>1, <1>3, <2>1, RestartIsFine DEF IInv, OrphansInv
<1>4. CASE RestartAfterFailure(pool)
    BY <1>1, <1>2, <1>4, RestartAfterFailureIsFine
<1> QED
    BY <1>3, <1>4 DEF RestartResumes

LEMMA StopResumesIsFine == IInv /\ StopResumes => IInv'
<1> SUFFICES ASSUME IInv, StopResumes PROVE IInv'
    OBVIOUS
<1>1. config' = config /\ ~Serving' /\ pool' = NoReceivers
    BY DEF StopResumes, Shutdown, Serving
<1>2. StartInv'
    BY DEF StopResumes, Exit, IInv, StartInv
<1> QED
    BY <1>1, <1>2 DEF IInv, ServingInv, PrevInv, OrphansInv, TasksInv, InventoryAgrees,
        NotLiveMeansEmpty

\* A pool is what a discovery returned, or empty.
LEMMA PoolIsTyped == pool \in Pool /\ [Next]_vars => pool' \in Pool
<1> SUFFICES ASSUME pool \in Pool, [Next]_vars PROVE pool' \in Pool
    OBVIOUS
<1>1. CASE Initialize
  <2>1. Finally => pool' = pool \/ pool' = NoReceivers
      BY DEF Finally, BeginStop, Shutdown
  <2> QED
      BY <1>1, <2>1, NoReceiversIsPool DEF Initialize, InitialDiscovery, InitialDiscoveryFails,
          InitializeRaises, Ready
<1>2. CASE Refresh
    BY <1>2, NoReceiversIsPool DEF Refresh, RefreshWakes, RefreshSucceeds, RefreshFails,
        RestartResumes
<1>3. CASE GatherEnds \/ SignalStop \/ StopResumes
    BY <1>3, NoReceiversIsPool DEF GatherEnds, Finally, SignalStop, StopResumes, BeginStop,
        Shutdown
<1>4. CASE MonitorTicks \/ LoopsEnd \/ TaskCrashes \/ StatisticsRaise
    BY <1>4 DEF MonitorTicks, LoopsEnd, TaskCrashes, StatisticsRaise
<1>5. CASE UNCHANGED vars
    BY <1>5 DEF vars
<1> QED
    BY <1>1, <1>2, <1>3, <1>4, <1>5 DEF Next

LEMMA NextIInv == IInv /\ pool \in Pool /\ [Next]_vars => IInv'
<1> SUFFICES ASSUME IInv, pool \in Pool, [Next]_vars PROVE IInv'
    OBVIOUS
<1>1. CASE InitialDiscovery
    BY <1>1, ReadyIsFine DEF InitialDiscovery
<1>2. CASE InitialDiscoveryFails
    BY <1>2, ReadyIsFine, NoReceiversIsPool DEF InitialDiscoveryFails
<1>3. CASE InitializeRaises
    BY <1>3, FinallyIsFine DEF InitializeRaises
<1>4. CASE GatherEnds
    BY <1>4, FinallyIsFine DEF GatherEnds
<1>5. CASE SignalStop
    BY <1>5, BeginStopIsFine DEF SignalStop
<1>6. CASE StopResumes
    BY <1>6, StopResumesIsFine
<1>7. CASE Refresh
    BY <1>7, RefreshWakesIsFine, RefreshSucceedsIsFine, RefreshFailsIsFine,
        RestartResumesIsFine DEF Refresh
<1>8. CASE MonitorTicks \/ LoopsEnd \/ TaskCrashes \/ StatisticsRaise
    BY <1>8, ElsewhereIsFine DEF MonitorTicks, LoopsEnd, TaskCrashes, StatisticsRaise, feedVars
<1>9. CASE UNCHANGED vars
    BY <1>9, ElsewhereIsFine DEF vars, feedVars
<1> QED
    BY <1>1, <1>2, <1>3, <1>4, <1>5, <1>6, <1>7, <1>8, <1>9 DEF Next, Initialize

LEMMA Invariance == Spec => []IInv
<1>1. Init => IInv /\ pool \in Pool
    BY InitIInv, NoReceiversIsPool DEF Init
<1>2. IInv /\ pool \in Pool /\ [Next]_vars => (IInv /\ pool \in Pool)'
    BY NextIInv, PoolIsTyped
<1> QED
    BY <1>1, <1>2, PTL DEF Spec

-----------------------------------------------------------------------------
(* The theorems *)

\* While the process serves, memory, database and verified pool hold the same
\* receivers, for any receivers and endpoints (base.py:48-59, runtime.py:298-320).
THEOREM InventoryFollowsPool == Spec => []InventoryAgrees
<1>1. IInv => InventoryAgrees
    BY DEF IInv
<1> QED
    BY <1>1, Invariance, PTL

\* From a failed refresh until the next complete one no Registry receiver takes
\* part in MLAT, for any receivers (client.py:166-177).
THEOREM FailedMeansEmpty == Spec => []NotLiveMeansEmpty
<1>1. IInv => NotLiveMeansEmpty
    BY DEF IInv
<1> QED
    BY <1>1, Invariance, PTL

\* Between two refreshes a strict process has the tasks of its pool and no
\* other, for any receivers and endpoints (client.py:211-279,
\* feed_transports.py:260-296).
THEOREM StrictFeedIsExact == Spec => []StrictFeedFollowsPool
<1>1. IInv => StrictFeedFollowsPool
    BY DEF IInv, OrphansInv, TasksInv, StrictFeedFollowsPool, StrictTasks
<1> QED
    BY <1>1, Invariance, PTL
=============================================================================

----------------------------- MODULE PositionFeed -----------------------------
(***************************************************************************)
(* The way of a position from the processor to the subscribers: the        *)
(* positions table (database.py), the in-process queue of position events, *)
(* and the background broadcaster of the API (rest_api.py).                *)
(*                                                                         *)
(* The processor runs in a process of its own (docker-compose.yml,         *)
(* render-entrypoint.sh), where the queue it fills has no reader and the   *)
(* broadcaster finds new rows by polling; or in the process of the API     *)
(* ("local"), where the two share the queue.                               *)
(*                                                                         *)
(* A position is its key (aircraft and time) and a version, which an       *)
(* update in place increases.  SQLite makes each statement atomic.         *)
(***************************************************************************)
EXTENDS Integers, Sequences, FiniteSetsExt, Functions

CONSTANTS
    Aircraft, MaxTime,  \* the keys there may be: times are 1..MaxTime
    MaxId, MaxUpdates,  \* bounds: rows ever inserted, updates to the rows there are
    Limit  \* rows of one poll, 200 in the code

ASSUME FeedAssumption ==
    /\ MaxTime \in Nat /\ MaxId \in Nat /\ MaxUpdates \in Nat
    /\ Limit \in Nat \ {0}

VARIABLES
    local,     \* the processor runs in the API's process
    rows,      \* the positions table: id -> [aircraft, time, version]
    lastId,    \* the AUTOINCREMENT counter: the largest id ever used
    pending,   \* the id between commit and publish_position_event, or 0
    position_queue,  \* the queue of the API's process
    phase,     \* broadcaster: "off", "waiting", "reading", "polling", "emitting", "dead"
    position_id,  \* the event it has taken and not yet read, or 0
    batch,     \* what it has read and not yet emitted: [id, version]
    last_position_id,
    startId,   \* history: lastId when the broadcaster read its starting point
    sent       \* history: of each id it emitted, the version it emitted last

tableVars == <<rows, lastId>>
loopVars == <<phase, position_id, batch, last_position_id>>
vars == <<local, tableVars, pending, position_queue, loopVars, startId, sent>>

Ids == 1..MaxId
Versions == 1..MaxUpdates + 1
Row == [aircraft : Aircraft, time : 1..MaxTime, version : Versions]
Message == [id : Ids, version : Versions]

\* Several aircraft may have the same time, but not one aircraft twice.
UniqueKeys(t) ==
    \A i, j \in DOMAIN t :
        t[i].aircraft = t[j].aircraft /\ t[i].time = t[j].time => i = j

\* The rows that are there when the API starts come of steps before its start.
Init ==
    /\ local \in BOOLEAN
    /\ rows = [i \in {} |-> 0] /\ lastId = 0
    /\ pending = 0 /\ position_queue = <<>>
    /\ phase = "off" /\ position_id = 0 /\ batch = <<>> /\ last_position_id = 0
    /\ startId = 0 /\ sent = [i \in {} |-> 0]

-----------------------------------------------------------------------------
(* The processor and the table *)

\* INSERT and commit.
InsertPosition(a, t) ==
    /\ \A i \in DOMAIN rows : rows[i].aircraft # a \/ rows[i].time # t
    /\ lastId < MaxId
    /\ lastId' = lastId + 1
    /\ rows' = [i \in DOMAIN rows \cup {lastId'} |->
                   IF i = lastId' THEN [aircraft |-> a, time |-> t, version |-> 1]
                   ELSE rows[i]]
    /\ pending' = lastId'

Updates == MapThenSumSet(LAMBDA i : rows[i].version - 1, DOMAIN rows)

\* Mutant: an update publishes no event.
UpdatePosition_Unpublished(a, t) ==
    \E i \in DOMAIN rows :
        /\ rows[i].aircraft = a /\ rows[i].time = t /\ Updates < MaxUpdates
        /\ rows' = [rows EXCEPT ![i].version = @ + 1]
        /\ UNCHANGED <<lastId, pending>>

\* The key is taken: its row is updated in place and keeps its id.
UpdatePosition(a, t) ==
    \E i \in DOMAIN rows :
        /\ rows[i].aircraft = a /\ rows[i].time = t /\ Updates < MaxUpdates
        /\ rows' = [rows EXCEPT ![i].version = @ + 1]
        /\ pending' = i
        /\ UNCHANGED lastId

store_position ==
    /\ pending = 0
    /\ \E a \in Aircraft, t \in 1..MaxTime : InsertPosition(a, t) \/ UpdatePosition(a, t)
    /\ UNCHANGED <<local, position_queue, loopVars, startId, sent>>

\* In a process of its own the processor fills a queue that nobody reads.
publish_position_event ==
    /\ pending # 0
    /\ position_queue' = IF local THEN Append(position_queue, pending) ELSE position_queue
    /\ pending' = 0
    /\ UNCHANGED <<local, tableVars, loopVars, startId, sent>>

\* Retention, by the time the rows carry.
cleanup_old_data ==
    /\ \E cutoff \in 2..MaxTime + 1 :
          /\ \E i \in DOMAIN rows : rows[i].time < cutoff
          /\ rows' = Restrict(rows, {i \in DOMAIN rows : rows[i].time >= cutoff})
    /\ UNCHANGED <<local, lastId, pending, position_queue, loopVars, startId, sent>>

-----------------------------------------------------------------------------
(* The broadcaster *)

Snapshot(i) == [id |-> i, version |-> rows[i].version]

\* get_recent_positions(86400, 1): the newest by time, ties in any order.
Newest(cutoff) ==
    LET recent == {i \in DOMAIN rows : rows[i].time >= cutoff}
    IN  {i \in recent : \A j \in recent : rows[j].time <= rows[i].time}

After(last) == {i \in DOMAIN rows : i > last}

\* Mutant: the newest rows first.
Ith_Descending(ids, n) == CHOOSE i \in ids : Cardinality({j \in ids : j > i}) = n - 1

\* ORDER BY id ASC
Ith(ids, n) == CHOOSE i \in ids : Cardinality({j \in ids : j < i}) = n - 1

\* LIMIT
FirstRows(ids) == [n \in 1..Min({Limit, Cardinality(ids)}) |-> Snapshot(Ith(ids, n))]

get_positions_after_id(last) == FirstRows(After(last))

\* create_app starts the thread, which reads its starting point.
StartBroadcaster ==
    /\ phase = "off" /\ phase' = "waiting"
    /\ \E cutoff \in 1..MaxTime + 1 :
          last_position_id' \in IF Newest(cutoff) = {} THEN {0} ELSE Newest(cutoff)
    /\ startId' = lastId
    /\ UNCHANGED <<local, tableVars, pending, position_queue, position_id, batch, sent>>

\* position_queue.get
TakeEvent ==
    /\ phase = "waiting" /\ position_queue # <<>>
    /\ phase' = "reading"
    /\ position_id' = Head(position_queue)
    /\ position_queue' = Tail(position_queue)
    /\ UNCHANGED <<local, tableVars, pending, batch, last_position_id, startId, sent>>

\* queue.Empty, after a second without an event.
EventTimeout ==
    /\ phase = "waiting" /\ position_queue = <<>>
    /\ phase' = "polling"
    /\ UNCHANGED <<local, tableVars, pending, position_queue, position_id, batch,
                   last_position_id, startId, sent>>

Hold(messages) ==
    /\ batch' = messages
    /\ phase' = IF messages = <<>> THEN "waiting" ELSE "emitting"

\* get_position_by_id: a row deleted since is passed over.
ReadEvent ==
    /\ phase = "reading"
    /\ Hold(IF position_id \in DOMAIN rows THEN <<Snapshot(position_id)>> ELSE <<>>)
    /\ position_id' = 0
    /\ UNCHANGED <<local, tableVars, pending, position_queue, last_position_id, startId, sent>>

\* Mutant: a poll moves the last id to the end of the table.
Poll_SkipsToNewest ==
    /\ phase = "polling"
    /\ Hold(get_positions_after_id(last_position_id))
    /\ last_position_id' = lastId
    /\ UNCHANGED <<local, tableVars, pending, position_queue, position_id, startId, sent>>

Poll ==
    /\ phase = "polling"
    /\ Hold(get_positions_after_id(last_position_id))
    /\ UNCHANGED <<local, tableVars, pending, position_queue, position_id,
                   last_position_id, startId, sent>>

\* Mutant: the last id is the number of positions emitted.
Advance_ByOne(id) == last_position_id + 1

\* The last id never goes back, in whatever order events come.
Advance(id) == Max({last_position_id, id})

\* broadcast_position_update, to the room of the aircraft.
Emit ==
    /\ phase = "emitting"
    /\ LET message == Head(batch)
       IN  /\ sent' = [i \in DOMAIN sent \cup {message.id} |->
                          IF i = message.id THEN message.version ELSE sent[i]]
           /\ last_position_id' = Advance(message.id)
    /\ Hold(Tail(batch))
    /\ UNCHANGED <<local, tableVars, pending, position_queue, position_id, startId>>

\* Any other exception, of a read or of an emission, ends the thread and its
\* variables for good; mlat_broadcaster_started stays set.
BroadcasterRaises ==
    /\ phase \in {"reading", "polling", "emitting"}
    /\ phase' = "dead" /\ position_id' = 0 /\ batch' = <<>> /\ last_position_id' = 0
    /\ UNCHANGED <<local, tableVars, pending, position_queue, startId, sent>>

Broadcast == TakeEvent \/ EventTimeout \/ ReadEvent \/ Poll \/ Emit

Next ==
    \/ store_position \/ publish_position_event \/ cleanup_old_data
    \/ StartBroadcaster \/ Broadcast \/ BroadcasterRaises

\* The thread runs: get has a timeout, reads and emissions return or raise.
\* The processor owes nothing.
Spec == Init /\ [][Next]_vars /\ WF_vars(Broadcast)

-----------------------------------------------------------------------------
(* Properties *)

TypeOK ==
    /\ local \in BOOLEAN
    /\ lastId \in 0..MaxId
    /\ DOMAIN rows \subseteq 1..lastId /\ Range(rows) \subseteq Row /\ UniqueKeys(rows)
    /\ pending \in 0..lastId /\ position_queue \in Seq(1..lastId)
    /\ phase \in {"off", "waiting", "reading", "polling", "emitting", "dead"}
    /\ position_id \in 0..lastId /\ last_position_id \in 0..lastId /\ startId \in 0..lastId
    /\ batch \in Seq(Message) /\ (phase = "emitting" => batch # <<>>)
    /\ DOMAIN sent \subseteq 1..lastId /\ Range(sent) \subseteq Versions

\* The broadcaster never passes over a position stored after it started: every
\* row up to its last id was emitted, however events, polls of limited size and
\* deletions interleave (rest_api.py:822-842, database.py:961-975).
NothingSkipped ==
    \A id \in DOMAIN rows : startId < id /\ id <= last_position_id => id \in DOMAIN sent

\* With the processor in another process, a broadcaster emits a position at most
\* once and in the order of the ids (rest_api.py:834-842).
PolledInOrder ==
    [][~local /\ phase = "emitting" /\ batch' = Tail(batch) /\ phase' # "dead" =>
          \A id \in DOMAIN sent : id < Head(batch).id]_vars

\* With the processor in the API's process, once the queue is drained what was
\* last emitted of a position is what the table holds: an update that lands
\* while its row is in a batch is emitted after it (database.py:506-507).
SubscribersConverge ==
    local /\ pending = 0 /\ position_queue = <<>> /\ phase = "waiting" =>
        \A id \in DOMAIN rows \cap DOMAIN sent : sent[id] = rows[id].version

\* A position stored after the broadcaster started is emitted, unless its row is
\* deleted first or the thread has died: no run of events, updates or full polls
\* starves it (rest_api.py:822-842).
EveryPositionIsEmitted ==
    \A id \in Ids :
        phase # "off" /\ startId < id /\ id \in DOMAIN rows
            ~> id \notin DOMAIN rows \/ id \in DOMAIN sent \/ phase = "dead"
=============================================================================

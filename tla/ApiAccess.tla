------------------------------ MODULE ApiAccess ------------------------------
(***************************************************************************)
(* Who may read what through the API (rest_api.py, database.py): the rate  *)
(* limit in front of every HTTP request, API keys, accounts, plans and     *)
(* entitlements, and the metering of what was served.                      *)
(*                                                                         *)
(* A thread serves one request or socket event at a time.  Each statement  *)
(* on SQLite is atomic, and an operator may change keys, accounts and      *)
(* plans between any two of them: the repository has no command for it,    *)
(* only the tables.  Of the rows that are read the model keeps how long a  *)
(* span of time they cover and whether there are more than the public plan *)
(* gives; last_used_at and the metadata of usage are left out.             *)
(***************************************************************************)
EXTENDS RateLimiter, FiniteSetsExt

CONSTANTS
    Keys, NoKey,       \* API keys, and a request without one
    DefaultPlans,      \* [public_demo, premium] of _seed_default_plans
    Entitlements,      \* live_stream rows an account may be given
    Spans,             \* seconds of history a request may ask for
    MaxRequests, MaxChanges  \* bounds: requests, changes by an operator

Plan == [history : Nat, premium : BOOLEAN, stream : BOOLEAN]

ASSUME ApiAssumption ==
    /\ NoKey \notin Keys
    /\ "public_demo" \in DOMAIN DefaultPlans
    /\ DefaultPlans \in [DOMAIN DefaultPlans -> Plan]
    /\ Entitlements \subseteq [active : BOOLEAN, starts : Int, ends : Int]
    /\ Spans \subseteq Nat

VARIABLES
    plans,         \* plan_code -> [history, premium, stream]
    keys,          \* key -> [plan, active], its account's status included
    entitlements,  \* rows with code live_stream of the keys' account
    requests,      \* thread -> the request it serves
    held,          \* history: thread -> the rights there were during the request
    rooms,         \* clients in the room of an aircraft
    served, changes  \* counters for the bounds

tables == <<plans, keys, entitlements>>
apiVars == <<tables, requests, held, rooms, served, changes>>
vars == <<limiterVars, apiVars>>

NoTime == -1      \* starts_at or ends_at is NULL
Unreadable == -2  \* it is no ISO-8601 timestamp
Limited == {"recent", "track", "statistics", "aircraft"}
Exempt == {"healthz", "subscribe"}   \* enforce_rate_limit, and socket events

\* What authenticate_api_key joins; "none" is a key unknown or not active.
NoAuth == [key |-> NoKey, history |-> 0, premium |-> FALSE, stream |-> FALSE]
Rights(k, plan) ==
    [key |-> k, history |-> plan.history, premium |-> plan.premium, stream |-> plan.stream]
Authenticated ==
    [k \in Keys \cup {NoKey} |->
        IF k # NoKey /\ keys[k].active THEN Rights(k, plans[keys[k].plan]) ELSE NoAuth]

Public == Rights(NoKey, plans["public_demo"])

NoRequest ==
    [stage |-> "idle", kind |-> "healthz", client |-> NoClient, key |-> NoKey,
     span |-> 0, deep |-> FALSE, auth |-> NoAuth, rows |-> {}, bills |-> 0]

Init ==
    /\ LimiterInit
    /\ plans = DefaultPlans
    /\ keys \in [Keys -> [plan : DOMAIN DefaultPlans, active : BOOLEAN]]
    /\ entitlements \in {{}} \cup {{e} : e \in Entitlements}
    /\ requests = [t \in Threads |-> NoRequest]
    /\ held = [t \in Threads |-> {}]
    /\ rooms = {} /\ served = 0 /\ changes = 0

\* The rights there are for each key, with the rows and the time.
Now ==
    [k \in Keys \cup {NoKey} |->
        {[right |-> r, rows |-> entitlements, at |-> clock] : r \in {Public, Authenticated[k]}}]

Becomes(t, r) ==
    /\ requests' = [requests EXCEPT ![t] = r]
    /\ held' = [held EXCEPT ![t] = IF r.stage \in {"idle", "limiter", "refused"} THEN {}
                                   ELSE @ \cup Now[r.key]]

\* Every handler under way lives through a change of the tables or the clock.
Witnessed ==
    held' = [t \in Threads |-> IF held[t] = {} THEN {} ELSE held[t] \cup Now'[requests[t].key]]

Stage(t, s) == Becomes(t, [requests[t] EXCEPT !.stage = s])
Refused(t) == Becomes(t, [NoRequest EXCEPT !.stage = "refused"])

-----------------------------------------------------------------------------
(* A request arrives; HTTP requests pass the limiter first *)

\* What a request of client c may ask for.
Asked(c, kinds) ==
    {r \in [stage : {"handler"}, kind : kinds, client : {c}, key : Keys \cup {NoKey},
             span : Spans, deep : BOOLEAN, auth : {NoAuth}, rows : {{}}, bills : {0}] :
        r.kind \notin {"recent", "track"} => r.span = 0 /\ ~r.deep}

Arrive(t) ==
    /\ requests[t] = NoRequest /\ served < MaxRequests
    /\ served' = served + 1
    /\ \E c \in Clients :
        \/ /\ ReadClock(t, c)
           /\ Becomes(t, [NoRequest EXCEPT !.stage = "limiter", !.client = c])
        \/ /\ \E r \in Asked(c, Exempt) : Becomes(t, r)
           /\ UNCHANGED limiterVars
    /\ UNCHANGED <<tables, rooms, changes>>

\* The limiter knows the client only; a handler is chosen when it lets through.
EnforceRateLimit(t) ==
    /\ requests[t].stage = "limiter"
    /\ \/ Admit(t) /\ \E r \in Asked(requests[t].client, Limited) : Becomes(t, r)
       \/ Refuse(t) /\ Refused(t)
    /\ UNCHANGED <<tables, rooms, served, changes>>

-----------------------------------------------------------------------------
(* The handlers: one step per look at the tables *)

\* Mutant: record_usage looks the key up again.
RequestAuth_Afresh(r) == Authenticated[r.key]
\* get_request_auth: what the request found before is kept in g.auth.
RequestAuth(r) == IF r.auth # NoAuth THEN r.auth ELSE Authenticated[r.key]

Handles(t, s) == requests[t].stage = s /\ UNCHANGED <<limiterVars, tables, served, changes>>

\* healthz touches no table; the list of aircraft is read before the key.
Open(t) ==
    /\ Handles(t, "handler") /\ UNCHANGED rooms
    /\ \/ requests[t].kind = "healthz" /\ Stage(t, "answered")
       \/ requests[t].kind = "aircraft" /\ Stage(t, "metering")

Authenticate(t) ==
    /\ Handles(t, "handler") /\ UNCHANGED rooms
    /\ requests[t].kind \notin {"healthz", "aircraft"}
    /\ Becomes(t, [requests[t] EXCEPT !.stage = "policy", !.auth = RequestAuth(requests[t])])

\* _request_access_policy: the right of the key, or else that of the public plan
Access(r) == IF r.auth # NoAuth THEN r.auth ELSE Public

\* The history asked for is shortened to that of the plan.
GetRecentPositions(t) ==
    LET r == requests[t]
        access == Access(r)
    IN
    /\ Handles(t, "policy") /\ r.kind = "recent" /\ UNCHANGED rooms
    /\ IF r.deep /\ ~access.premium THEN Refused(t)
       ELSE Becomes(t, [r EXCEPT !.stage = "metering",
                          !.span = IF @ < access.history THEN @ ELSE access.history])

\* A track longer than the plan's history is refused.
GetAircraftTrack(t) ==
    LET r == requests[t] IN
    /\ Handles(t, "policy") /\ r.kind = "track" /\ UNCHANGED rooms
    /\ IF (r.deep /\ ~Access(r).premium) \/ r.span > Access(r).history
       THEN Refused(t) ELSE Stage(t, "metering")

\* require_plan_access(require_premium=True)
RequirePlan(t) ==
    /\ Handles(t, "policy") /\ requests[t].kind = "statistics" /\ UNCHANGED rooms
    /\ IF requests[t].auth.premium THEN Stage(t, "metering") ELSE Refused(t)

\* Mutant: a row is in force at the instant it ends.
InForce_AtItsEnd(e, now) ==
    /\ e.active /\ Unreadable \notin {e.starts, e.ends}
    /\ e.starts # NoTime => e.starts <= now
    /\ e.ends # NoTime => now <= e.ends
\* _has_active_entitlement, with the time of the check and the rows read before
InForce(e, now) ==
    /\ e.active /\ Unreadable \notin {e.starts, e.ends}
    /\ NoTime \in {e.starts, e.ends} \/ e.starts < e.ends
    /\ e.starts # NoTime => e.starts <= now
    /\ e.ends # NoTime => now < e.ends

\* authenticate_api_key selects the rows in a statement of their own.
ReadEntitlements(t) ==
    /\ Handles(t, "policy") /\ requests[t].kind = "subscribe" /\ UNCHANGED rooms
    /\ IF requests[t].auth.stream
       THEN Becomes(t, [requests[t] EXCEPT !.stage = "entitled", !.rows = entitlements])
       ELSE Refused(t)

Subscribe(t) ==
    /\ Handles(t, "entitled") /\ UNCHANGED rooms
    /\ IF \E e \in requests[t].rows : InForce(e, clock)
       THEN Stage(t, "metering") ELSE Refused(t)

\* record_usage, the last statement before the answer, or before join_room
Meter(t) ==
    LET r == requests[t]
        auth == RequestAuth(r)
    IN
    /\ Handles(t, "metering")
    /\ Becomes(t, [r EXCEPT !.stage = "answered", !.auth = auth,
                     !.bills = r.bills + IF auth # NoAuth THEN 1 ELSE 0])
    /\ rooms' = IF r.kind = "subscribe" THEN rooms \cup {r.client} ELSE rooms

\* An exception of a statement (a locked database) answers 500; statistics
\* reads more after its usage is recorded.
Fail(t) ==
    /\ \/ requests[t].stage \in {"handler", "policy", "entitled", "metering"}
          /\ requests[t].kind # "healthz"
       \/ requests[t].stage = "answered" /\ requests[t].kind = "statistics"
    /\ Refused(t)
    /\ UNCHANGED <<limiterVars, tables, rooms, served, changes>>

Respond(t) ==
    /\ requests[t].stage \in {"answered", "refused"}
    /\ Becomes(t, NoRequest)
    /\ UNCHANGED <<limiterVars, tables, rooms, served, changes>>

-----------------------------------------------------------------------------
(* The operator, the process and time *)

Disconnect(c) ==
    /\ c \in rooms /\ rooms' = rooms \ {c}
    /\ UNCHANGED <<limiterVars, tables, requests, held, served, changes>>

Changes == changes < MaxChanges /\ changes' = changes + 1

Operate ==
    /\ Changes
    /\ \/ \E k \in Keys, p \in DOMAIN plans, b \in BOOLEAN :
            /\ keys' = [keys EXCEPT ![k] = [plan |-> p, active |-> b]]
            /\ UNCHANGED <<plans, entitlements>>
       \/ \E e \in Entitlements :
            /\ entitlements' = SymDiff(entitlements, {e})
            /\ UNCHANGED <<plans, keys>>
       \/ \E p, q \in DOMAIN plans :
            /\ plans' = [plans EXCEPT ![p] = DefaultPlans[q]]
            /\ UNCHANGED <<keys, entitlements>>
    /\ UNCHANGED <<limiterVars, requests, rooms, served>>
    /\ Witnessed

\* A new process has empty windows, and _create_tables seeds the plans again.
Restart ==
    /\ Changes
    /\ plans' = DefaultPlans
    /\ buckets' = [c \in Clients |-> <<>>] /\ recency' = <<>>
    /\ calls' = [t \in Threads |-> Idle] /\ admissions' = [c \in Clients |-> <<>>]
    /\ requests' = [t \in Threads |-> NoRequest] /\ held' = [t \in Threads |-> {}]
    /\ rooms' = {}
    /\ UNCHANGED <<clock, keys, entitlements, served>>

TimePasses == Tick /\ UNCHANGED <<tables, requests, rooms, served, changes>> /\ Witnessed

Serve(t) ==
    \/ Arrive(t) \/ EnforceRateLimit(t) \/ Open(t) \/ Authenticate(t)
    \/ GetRecentPositions(t) \/ GetAircraftTrack(t) \/ RequirePlan(t)
    \/ ReadEntitlements(t) \/ Subscribe(t) \/ Meter(t) \/ Fail(t) \/ Respond(t)

Next ==
    \/ \E t \in Threads : Serve(t)
    \/ Operate \/ Restart \/ TimePasses
    \/ \E c \in Clients : Disconnect(c)

Spec == Init /\ [][Next]_vars

-----------------------------------------------------------------------------

Answered(t) == requests[t].stage = "answered"

(***************************************************************************)
(* An answer shows no more than some plan gave at a moment of the request: *)
(* get_recent_positions and get_aircraft_track as long a span and as deep  *)
(* as one and the same right allowed, statistics to a key of a premium     *)
(* plan, a subscription to a key that could stream, with a row of an       *)
(* entitlement in force.  Plans, keys and rows change meanwhile.           *)
(***************************************************************************)
AnswersWithinPlan ==
    \A t \in Threads : Answered(t) =>
        LET r == requests[t] IN
        CASE r.kind \in {"recent", "track"} ->
                \E h \in held[t] : r.span <= h.right.history /\ (r.deep => h.right.premium)
          [] r.kind = "statistics" ->
                \E h \in held[t] : h.right.key = r.key /\ r.key # NoKey /\ h.right.premium
          [] r.kind = "subscribe" ->
                /\ \E h \in held[t] : h.right.key = r.key /\ r.key # NoKey /\ h.right.stream
                /\ \E h, i \in held[t] : \E e \in h.rows :
                    e.active /\ e.starts <= i.at /\ (i.at < e.ends \/ e.ends = NoTime)
          [] OTHER -> TRUE

(***************************************************************************)
(* Nothing a key paid for goes unmetered: an answer that the public plan   *)
(* would not have given at any moment of the request has one usage row,    *)
(* although the key may be gone by the time record_usage asks for it; no   *)
(* request has two, and none without a key has any.                        *)
(***************************************************************************)
ServedIsMetered ==
    \A t \in Threads :
        LET r == requests[t]
            Free == r.kind \in {"healthz", "aircraft"}
                    \/ /\ r.kind \in {"recent", "track"}
                       /\ \E h \in held[t] : /\ h.right.key = NoKey
                                             /\ r.span <= h.right.history
                                             /\ r.deep => h.right.premium
        IN  /\ r.bills <= 1 /\ (r.key = NoKey => r.bills = 0)
            /\ Answered(t) /\ ~Free => r.bills = 1
=============================================================================

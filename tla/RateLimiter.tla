----------------------------- MODULE RateLimiter -----------------------------
(***************************************************************************)
(* SlidingWindowRateLimiter (rate_limit.py), called by the threads of one  *)
(* API process.                                                            *)
(*                                                                         *)
(* consume reads the clock and then waits for the lock, so the calls of    *)
(* several threads enter a bucket in another order than that of the times  *)
(* they read.  A thread is scheduled again after at most MaxDelay: that is *)
(* an assumption about the machine, not about the code.                    *)
(*                                                                         *)
(* The OrderedDict is a bucket per client (empty when absent) and the      *)
(* order of its keys, the client served longest ago first.                 *)
(***************************************************************************)
EXTENDS Integers, Sequences

CONSTANTS
    Clients,     \* remote addresses
    Threads,
    NoClient,    \* of a thread that is not in consume
    Limit, Window, MaxClients,   \* the arguments of __init__
    MaxDelay,    \* the longest wait between the clock and the lock
    MaxTime      \* bound: the last instant modelled

ASSUME LimiterAssumption ==
    /\ Limit \in Nat \ {0} /\ Window \in Nat \ {0} /\ MaxClients \in Nat \ {0}
    /\ MaxDelay \in Nat /\ MaxTime \in Nat
    /\ NoClient \notin Clients

VARIABLES
    clock,
    buckets,     \* _buckets: client -> times, in the order they were appended
    recency,     \* the keys of _buckets, the one used last at the end
    calls,       \* thread -> the call that has read the clock and not the lock
    admissions   \* history: client -> [seen, real] of what its bucket admitted

limiterVars == <<clock, buckets, recency, calls, admissions>>

Idle == [client |-> NoClient, now |-> 0]

LimiterInit ==
    /\ clock = 0
    /\ buckets = [c \in Clients |-> <<>>] /\ recency = <<>>
    /\ calls = [t \in Threads |-> Idle]
    /\ admissions = [c \in Clients |-> <<>>]

\* Mutant: the first entry decides, an entry out of order hides those after it.
Recent_WholeOrNothing(bucket, now) ==
    IF bucket # <<>> /\ bucket[1] + Window <= now THEN <<>> ELSE bucket
\* The bucket after the entries at its head that left the window are popped.
Recent(bucket, now) ==
    LET Gone(n) == \A i \in 1..n : bucket[i] + Window <= now
        n == CHOOSE n \in 0..Len(bucket) :
                Gone(n) /\ (n < Len(bucket) => ~Gone(n + 1))
    IN  SubSeq(bucket, n + 1, Len(bucket))

\* Mutant: the client above the limit stays.
Excess_OneTooFew(order) ==
    IF Len(order) > MaxClients + 1 THEN Len(order) - MaxClients - 1 ELSE 0
\* How many clients popitem removes: all but the MaxClients used last.
Excess(order) == IF Len(order) > MaxClients THEN Len(order) - MaxClients ELSE 0

\* Time passes, but no waiting thread is kept from the lock for too long.
Tick ==
    /\ clock < MaxTime
    /\ \A t \in Threads :
        calls[t].client # NoClient => clock < calls[t].now + MaxDelay
    /\ clock' = clock + 1
    /\ UNCHANGED <<buckets, recency, calls, admissions>>

\* now = self._clock(), before the lock
ReadClock(t, c) ==
    /\ calls[t] = Idle
    /\ calls' = [calls EXCEPT ![t] = [client |-> c, now |-> clock]]
    /\ UNCHANGED <<clock, buckets, recency, admissions>>

\* The keys after the bucket of c was popped and set again.
Served(c) ==
    LET at == CHOOSE i \in 1..Len(recency) : recency[i] = c
    IN  IF \E i \in 1..Len(recency) : recency[i] = c
        THEN Append(SubSeq(recency, 1, at - 1) \o SubSeq(recency, at + 1, Len(recency)), c)
        ELSE Append(recency, c)

Admits(t) == Len(Recent(buckets[calls[t].client], calls[t].now)) < Limit

Refuse(t) ==
    LET c == calls[t].client IN
    /\ c \in Clients /\ ~Admits(t)
    /\ buckets' = [buckets EXCEPT ![c] = Recent(@, calls[t].now)]
    /\ recency' = Served(c)
    /\ calls' = [calls EXCEPT ![t] = Idle]
    /\ UNCHANGED <<clock, admissions>>

Admit(t) ==
    LET c == calls[t].client
        order == Served(c)
        gone == {order[i] : i \in 1..Excess(order)}
    IN
    /\ c \in Clients /\ Admits(t)
    /\ buckets' = [d \in Clients |->
                     IF d \in gone THEN <<>>
                     ELSE IF d = c THEN Append(Recent(buckets[d], calls[t].now), calls[t].now)
                     ELSE buckets[d]]
    /\ recency' = SubSeq(order, Excess(order) + 1, Len(order))
    /\ admissions' = [d \in Clients |->
                        IF d \in gone THEN <<>>
                        ELSE IF d = c
                        THEN Append(admissions[d], [seen |-> calls[t].now, real |-> clock])
                        ELSE admissions[d]]
    /\ calls' = [calls EXCEPT ![t] = Idle]
    /\ UNCHANGED clock

LimiterNext ==
    \/ Tick
    \/ \E t \in Threads : Refuse(t) \/ Admit(t) \/ \E c \in Clients : ReadClock(t, c)

LimiterSpec == LimiterInit /\ [][LimiterNext]_limiterVars

-----------------------------------------------------------------------------

LimiterTypeOK ==
    /\ clock \in Nat
    /\ buckets \in [Clients -> Seq(Nat)]
    /\ recency \in Seq(Clients)
    /\ calls \in [Threads -> [client : Clients \cup {NoClient}, now : Nat]]
    /\ admissions \in [Clients -> Seq([seen : Nat, real : Nat])]

(***************************************************************************)
(* "Bound requests per client over a rolling time window"                  *)
(* (rate_limit.py:22), as far as the code keeps it: as long as a client is *)
(* not evicted, the admission Limit places after another one comes no      *)
(* earlier than a window later, less the delay of a thread between its     *)
(* look at the clock and the lock.                                         *)
(***************************************************************************)
BoundedRate ==
    \A c \in Clients : \A i \in 1..(Len(admissions[c]) - Limit) :
        admissions[c][i].real + Window <= admissions[c][i + Limit].real + MaxDelay

(***************************************************************************)
(* Whatever addresses the requests come from, the limiter holds the times  *)
(* of at most MaxClients of them, Limit times each; a client it forgot has *)
(* no times left (popitem in consume).                                     *)
(***************************************************************************)
BoundedMemory ==
    /\ Len(recency) <= MaxClients
    /\ \A c \in Clients :
        /\ Len(buckets[c]) <= Limit
        /\ buckets[c] # <<>> => \E i \in 1..Len(recency) : recency[i] = c
=============================================================================

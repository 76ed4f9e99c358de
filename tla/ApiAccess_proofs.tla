---------------------------- MODULE ApiAccess_proofs ----------------------------
(***************************************************************************)
(* BoundedRate and BoundedMemory of the limiter for any number of clients  *)
(* and threads, any limit, window and delay, alone and inside the API with *)
(* its restarts: the bucket of a client is what is left of the history of  *)
(* its admissions after entries that are a window old.                     *)
(*                                                                         *)
(* AnswersWithinPlan and ServedIsMetered for any number of threads,        *)
(* clients, keys, plans and entitlements, by an invariant that relates a   *)
(* request to the rights there were since it began: what one step read is  *)
(* still justified when a later one answers.                               *)
(***************************************************************************)
EXTENDS ApiAccess, SequenceTheorems, WellFoundedInduction, TLAPS

\* The bucket of a client is the end of the history of its admissions.
IsTail(bucket, history) ==
    /\ Len(bucket) <= Len(history)
    /\ \A i \in 1..Len(bucket) :
        bucket[i] = history[Len(history) - Len(bucket) + i].seen

\* What is no longer in the bucket was admitted a window ago.
DroppedAreOld(bucket, history, now) ==
    \A i \in 1..(Len(history) - Len(bucket)) : history[i].seen + Window <= now

\* No thread was kept between the clock and the lock for more than MaxDelay.
Timely(history, now) ==
    \A i \in 1..Len(history) :
        /\ history[i].seen <= history[i].real /\ history[i].real <= now
        /\ history[i].real <= history[i].seen + MaxDelay

Spaced(history) ==
    \A i \in 1..(Len(history) - Limit) :
        history[i].real + Window <= history[i + Limit].real + MaxDelay

ClientInv(bucket, history, now) ==
    /\ Len(bucket) <= Limit
    /\ IsTail(bucket, history)
    /\ DroppedAreOld(bucket, history, now)
    /\ Timely(history, now)
    /\ Spaced(history)

CallInv(call) ==
    call.client # NoClient => call.now <= clock /\ clock <= call.now + MaxDelay

\* A client with times in its bucket is among the keys, and they are not too many.
Holds(order, c) == \E i \in 1..Len(order) : order[i] = c

KeysInv ==
    /\ recency \in Seq(Clients) /\ Len(recency) <= MaxClients
    /\ \A c \in Clients : buckets[c] # <<>> => Holds(recency, c)

LimiterInv ==
    /\ clock \in Nat /\ KeysInv
    /\ buckets \in [Clients -> Seq(Nat)]
    /\ calls \in [Threads -> [client : Clients \cup {NoClient}, now : Nat]]
    /\ admissions \in [Clients -> Seq([seen : Nat, real : Nat])]
    /\ \A t \in Threads : CallInv(calls[t])
    /\ \A c \in Clients : ClientInv(buckets[c], admissions[c], clock)

-----------------------------------------------------------------------------

\* Below a bound, the larger numbers of a set of naturals have a largest one.
LEMMA Largest ==
    ASSUME NEW n \in Nat, NEW S \in SUBSET (0..n), 0 \in S
    PROVE  \E m \in S : \A k \in S : k <= m
<1> DEFINE R == {ss \in Nat \X Nat : ss[1] < ss[2]}
           T == {n - k : k \in S}
<1>1. IsWellFoundedOn(R, Nat)
    BY NatLessThanWellFounded DEF OpToRel
<1>2. T \subseteq Nat /\ T # {}
    OBVIOUS
<1>3. PICK x \in T : \A y \in T : <<y, x>> \notin R
    BY <1>1, <1>2, WFMin
<1>4. ASSUME NEW y \in T PROVE x <= y
    <2>1. x \in Nat /\ y \in Nat
        BY <1>2
    <2>2. <<y, x>> \in R <=> y < x
        BY <2>1
    <2> QED BY <2>1, <2>2, <1>3
<1>5. PICK m \in S : x = n - m
    OBVIOUS
<1>6. ASSUME NEW k \in S PROVE k <= m
    <2>1. n - k \in T
        OBVIOUS
    <2> QED BY <2>1, <1>4, <1>5
<1> QED BY <1>5, <1>6

\* The entries popped are old, and what stays is the tail of the bucket.
LEMMA RecentIsTail ==
    ASSUME NEW bucket \in Seq(Nat), NEW now \in Nat, Window \in Nat
    PROVE  \E n \in 0..Len(bucket) :
            /\ Recent(bucket, now) = SubSeq(bucket, n + 1, Len(bucket))
            /\ \A i \in 1..n : bucket[i] + Window <= now
<1> DEFINE Gone(n) == \A i \in 1..n : bucket[i] + Window <= now
           S == {n \in 0..Len(bucket) : Gone(n)}
           Last(n) == Gone(n) /\ (n < Len(bucket) => ~Gone(n + 1))
<1>1. Len(bucket) \in Nat
    OBVIOUS
<1>2. 0 \in S
    BY <1>1
<1>3. PICK m \in S : \A k \in S : k <= m
    <2> HIDE DEF S
    <2>1. S \in SUBSET (0..Len(bucket))
        BY DEF S
    <2> QED BY <1>1, <1>2, <2>1, Largest
<1>4. m \in 0..Len(bucket) /\ Last(m)
    <2>1. m \in 0..Len(bucket) /\ Gone(m)
        BY <1>3
    <2>2. ASSUME m < Len(bucket), Gone(m + 1) PROVE FALSE
        <3>1. m + 1 \in S
            BY <1>1, <2>1, <2>2
        <3> QED BY <3>1, <1>3, <2>1
    <2> QED BY <2>1, <2>2
<1>5. PICK n \in 0..Len(bucket) :
        Last(n) /\ Recent(bucket, now) = SubSeq(bucket, n + 1, Len(bucket))
    <2> DEFINE c == CHOOSE n \in 0..Len(bucket) : Last(n)
    <2>1. c \in 0..Len(bucket) /\ Last(c)
        <3> HIDE DEF Last
        <3> QED BY <1>4
    <2>2. Recent(bucket, now) = SubSeq(bucket, c + 1, Len(bucket))
        BY DEF Recent
    <2> HIDE DEF Last, c
    <2> QED BY <2>1, <2>2
<1> QED BY <1>5

-----------------------------------------------------------------------------
(* What happens to one bucket and its history *)

History == Seq([seen : Nat, real : Nat])

LEMMA EntryTypes ==
    ASSUME NEW history \in History
    PROVE  /\ Len(history) \in Nat
           /\ \A i \in 1..Len(history) :
                /\ history[i] \in [seen : Nat, real : Nat]
                /\ history[i].seen \in Nat /\ history[i].real \in Nat
<1> DEFINE Entries == [seen : Nat, real : Nat]
<1>1. Len(history) \in Nat /\ \A i \in 1..Len(history) : history[i] \in Entries
    <2> HIDE DEF Entries
    <2>1. history \in Seq(Entries)
        BY DEF History, Entries
    <2> QED BY <2>1, ElementOfSeq, LenProperties
<1> QED BY <1>1

\* A client that was never seen, or was forgotten.
LEMMA ForgottenClient ==
    ASSUME LimiterAssumption, NEW now \in Nat
    PROVE  ClientInv(<<>>, <<>>, now)
BY DEF LimiterAssumption, ClientInv, IsTail, DroppedAreOld, Timely, Spaced

LEMMA LaterIsFine ==
    ASSUME LimiterAssumption, NEW bucket \in Seq(Nat), NEW history \in History,
           NEW now \in Nat, ClientInv(bucket, history, now)
    PROVE  ClientInv(bucket, history, now + 1)
<1>1. DroppedAreOld(bucket, history, now + 1)
    <2> SUFFICES ASSUME NEW i \in 1..(Len(history) - Len(bucket))
                 PROVE  history[i].seen + Window <= now + 1
        BY DEF DroppedAreOld
    <2>1. i \in 1..Len(history) /\ history[i].seen + Window <= now
        BY EntryTypes DEF ClientInv, DroppedAreOld, IsTail
    <2> QED BY <2>1, EntryTypes DEF LimiterAssumption
<1>2. Timely(history, now + 1)
    BY EntryTypes DEF LimiterAssumption, ClientInv, Timely
<1> QED BY <1>1, <1>2 DEF ClientInv

LEMMA PoppingIsFine ==
    ASSUME LimiterAssumption, NEW bucket \in Seq(Nat), NEW history \in History,
           NEW now \in Nat, NEW seen \in Nat, seen <= now,
           ClientInv(bucket, history, now)
    PROVE  /\ Recent(bucket, seen) \in Seq(Nat)
           /\ ClientInv(Recent(bucket, seen), history, now)
<1> DEFINE left == Recent(bucket, seen)
<1>1. PICK n \in 0..Len(bucket) :
        /\ left = SubSeq(bucket, n + 1, Len(bucket))
        /\ \A i \in 1..n : bucket[i] + Window <= seen
    BY RecentIsTail DEF LimiterAssumption
<1> HIDE DEF left
<1>2. /\ left \in Seq(Nat) /\ Len(left) = Len(bucket) - n
      /\ \A i \in 1..Len(left) : left[i] = bucket[n + i]
    BY <1>1, SubSeqProperties
<1>3. IsTail(left, history) /\ Len(left) <= Limit
    <2> SUFFICES ASSUME NEW i \in 1..Len(left)
                 PROVE  left[i] = history[Len(history) - Len(left) + i].seen
        BY <1>2, EntryTypes DEF ClientInv, IsTail, LimiterAssumption
    <2>1. n + i \in 1..Len(bucket)
        BY <1>2
    <2>2. bucket[n + i] = history[Len(history) - Len(bucket) + (n + i)].seen
        BY <2>1 DEF ClientInv, IsTail
    <2>3. Len(history) - Len(bucket) + (n + i) = Len(history) - Len(left) + i
        BY <1>2, EntryTypes
    <2> QED BY <1>2, <2>2, <2>3
<1>4. DroppedAreOld(left, history, now)
    <2> SUFFICES ASSUME NEW i \in 1..(Len(history) - Len(left))
                 PROVE  history[i].seen + Window <= now
        BY DEF DroppedAreOld
    <2> DEFINE gap == Len(history) - Len(bucket)
    <2>1. gap \in Nat /\ Len(history) - Len(left) = gap + n
        BY <1>2, EntryTypes DEF ClientInv, IsTail
    <2>2. history[i].seen \in Nat
        BY <1>2, <2>1, EntryTypes
    <2>3. CASE i <= gap
        BY <2>1, <2>3 DEF ClientInv, DroppedAreOld
    <2>4. CASE i > gap
        <3>1. i - gap \in 1..n /\ i - gap \in 1..Len(bucket)
            BY <2>1, <2>4
        <3>2. bucket[i - gap] = history[gap + (i - gap)].seen
            BY <3>1 DEF ClientInv, IsTail
        <3>3. bucket[i - gap] + Window <= seen
            BY <3>1, <1>1
        <3> QED BY <3>2, <3>3, <2>1, <2>2 DEF LimiterAssumption
    <2> QED BY <2>1, <2>3, <2>4
<1> QED BY <1>2, <1>3, <1>4 DEF ClientInv, left

LEMMA AdmittingIsFine ==
    ASSUME LimiterAssumption, NEW bucket \in Seq(Nat), NEW history \in History,
           NEW now \in Nat, NEW seen \in Nat, seen <= now, now <= seen + MaxDelay,
           ClientInv(bucket, history, now), Len(bucket) < Limit
    PROVE  ClientInv(Append(bucket, seen), Append(history, [seen |-> seen, real |-> now]), now)
<1> DEFINE entry == [seen |-> seen, real |-> now]
           newBucket == Append(bucket, seen)
           newHistory == Append(history, entry)
           n == Len(history)
           m == Len(bucket)
<1>1. /\ n \in Nat /\ m \in Nat /\ m <= n /\ m < Limit /\ Limit \in Nat /\ Window \in Nat
      /\ MaxDelay \in Nat
    BY EntryTypes DEF ClientInv, IsTail, LimiterAssumption
<1>2. /\ Len(newHistory) = n + 1 /\ newHistory[n + 1] = entry
      /\ \A i \in 1..n : newHistory[i] = history[i]
    BY AppendProperties DEF History
<1>3. /\ Len(newBucket) = m + 1 /\ newBucket[m + 1] = seen
      /\ \A i \in 1..m : newBucket[i] = bucket[i]
    BY AppendProperties
<1>4. \A i \in 1..n : history[i].seen \in Nat /\ history[i].real \in Nat
    BY EntryTypes
<1> HIDE DEF newBucket, newHistory, n, m
<1>5. IsTail(newBucket, newHistory)
    <2> SUFFICES ASSUME NEW i \in 1..(m + 1)
                 PROVE  newBucket[i] = newHistory[n - m + i].seen
        BY <1>1, <1>2, <1>3 DEF IsTail
    <2>1. CASE i = m + 1
        BY <2>1, <1>1, <1>2, <1>3
    <2>2. CASE i \in 1..m
        <3>1. bucket[i] = history[n - m + i].seen
            BY <2>2 DEF ClientInv, IsTail, n, m
        <3>2. n - m + i \in 1..n
            BY <2>2, <1>1
        <3> QED BY <2>2, <3>1, <3>2, <1>2, <1>3
    <2> QED BY <1>1, <2>1, <2>2
<1>6. DroppedAreOld(newBucket, newHistory, now)
    <2>0. Len(newHistory) - Len(newBucket) = n - m
        BY <1>1, <1>2, <1>3
    <2> SUFFICES ASSUME NEW i \in 1..(n - m)
                 PROVE  newHistory[i].seen + Window <= now
        BY <2>0 DEF DroppedAreOld
    <2>1. history[i].seen + Window <= now
        BY DEF ClientInv, DroppedAreOld, n, m
    <2>2. newHistory[i] = history[i]
        BY <1>1, <1>2
    <2> QED BY <2>1, <2>2
<1>7. Timely(newHistory, now)
    <2> SUFFICES ASSUME NEW i \in 1..(n + 1)
                 PROVE  /\ newHistory[i].seen <= newHistory[i].real
                        /\ newHistory[i].real <= now
                        /\ newHistory[i].real <= newHistory[i].seen + MaxDelay
        BY <1>2 DEF Timely
    <2>1. CASE i = n + 1
        BY <2>1, <1>2
    <2>2. CASE i \in 1..n
        <3>1. newHistory[i] = history[i]
            BY <2>2, <1>2
        <3> QED BY <2>2, <3>1 DEF ClientInv, Timely, n
    <2> QED BY <1>1, <2>1, <2>2
<1>8. Spaced(newHistory)
    <2> SUFFICES ASSUME NEW i \in 1..(n + 1 - Limit)
                 PROVE  newHistory[i].real + Window <= newHistory[i + Limit].real + MaxDelay
        BY <1>1, <1>2 DEF Spaced
    <2>1. CASE i + Limit <= n
        <3>1. i \in 1..(n - Limit) /\ i \in 1..n /\ i + Limit \in 1..n
            BY <2>1, <1>1
        <3>2. history[i].real + Window <= history[i + Limit].real + MaxDelay
            BY <3>1 DEF ClientInv, Spaced, n
        <3>3. newHistory[i] = history[i] /\ newHistory[i + Limit] = history[i + Limit]
            BY <3>1, <1>2
        <3> QED BY <3>2, <3>3
    <2>2. CASE i + Limit = n + 1
        <3>1. i \in 1..(n - m) /\ i \in 1..n
            BY <2>2, <1>1
        <3>2. history[i].seen + Window <= now
            BY <3>1 DEF ClientInv, DroppedAreOld, n, m
        <3>3. history[i].real <= history[i].seen + MaxDelay
            BY <3>1 DEF ClientInv, Timely, n
        <3>4. newHistory[i + Limit].real = now /\ newHistory[i] = history[i]
            BY <2>2, <3>1, <1>2
        <3>5. history[i].seen \in Nat /\ history[i].real \in Nat
            BY <3>1, <1>4
        <3>6. history[i].real + Window <= now + MaxDelay
            <4>1. \A x, y \in Nat : y + Window <= now /\ x <= y + MaxDelay => x + Window <= now + MaxDelay
                BY <1>1
            <4> QED BY <3>2, <3>3, <3>5, <4>1
        <3> QED BY <3>4, <3>6
    <2> QED BY <1>1, <2>1, <2>2
<1> QED BY <1>1, <1>3, <1>5, <1>6, <1>7, <1>8 DEF ClientInv, newBucket, newHistory

-----------------------------------------------------------------------------
(* What happens to the keys *)

LEMMA ServedKeepsTheRest ==
    ASSUME recency \in Seq(Clients), NEW c \in Clients
    PROVE  /\ Served(c) \in Seq(Clients)
           /\ Len(Served(c)) = IF Holds(recency, c) THEN Len(recency) ELSE Len(recency) + 1
           /\ Holds(Served(c), c)
           /\ \A d \in Clients : Holds(recency, d) => Holds(Served(c), d)
<1> DEFINE n == Len(recency)
<1>1. n \in Nat /\ \A i \in 1..n : recency[i] \in Clients
    BY ElementOfSeq, LenProperties
<1>2. CASE ~Holds(recency, c)
    <2>1. Served(c) = Append(recency, c)
        BY <1>2 DEF Served, Holds
    <2>2. /\ Served(c) \in Seq(Clients) /\ Len(Served(c)) = n + 1 /\ Served(c)[n + 1] = c
          /\ \A i \in 1..n : Served(c)[i] = recency[i]
        BY <2>1, AppendProperties
    <2> HIDE DEF n
    <2>3. n + 1 \in 1..Len(Served(c)) /\ \A i \in 1..n : i \in 1..Len(Served(c))
        BY <1>1, <2>2
    <2> QED BY <1>2, <2>2, <2>3 DEF Holds, n
<1>3. CASE Holds(recency, c)
    <2> DEFINE at == CHOOSE i \in 1..n : recency[i] = c
               head == SubSeq(recency, 1, at - 1)
               rest == SubSeq(recency, at + 1, n)
    <2>1. at \in 1..n /\ recency[at] = c
        BY <1>3 DEF Holds
    <2>2. Served(c) = Append(head \o rest, c)
        BY <1>3 DEF Served, Holds
    <2> HIDE DEF at, n
    <2>3. /\ head \in Seq(Clients) /\ Len(head) = at - 1
          /\ \A i \in 1..(at - 1) : head[i] = recency[i]
        BY <1>1, <2>1, SubSeqProperties
    <2>4. /\ rest \in Seq(Clients) /\ Len(rest) = n - at
          /\ \A i \in 1..(n - at) : rest[i] = recency[at + i]
        BY <1>1, <2>1, SubSeqProperties
    <2> HIDE DEF head, rest
    <2>5. /\ head \o rest \in Seq(Clients) /\ Len(head \o rest) = n - 1
          /\ \A i \in 1..(n - 1) :
                (head \o rest)[i] = IF i <= at - 1 THEN head[i] ELSE rest[i - (at - 1)]
        <3>1. /\ head \o rest \in Seq(Clients) /\ Len(head \o rest) = Len(head) + Len(rest)
              /\ \A i \in 1..(Len(head) + Len(rest)) :
                    (head \o rest)[i] = IF i <= Len(head) THEN head[i] ELSE rest[i - Len(head)]
            BY <2>3, <2>4, ConcatProperties
        <3>2. Len(head) = at - 1 /\ Len(head) + Len(rest) = n - 1
            BY <1>1, <2>1, <2>3, <2>4
        <3> QED BY <3>1, <3>2
    <2>6. /\ Served(c) \in Seq(Clients) /\ Len(Served(c)) = n /\ Served(c)[n] = c
          /\ \A i \in 1..(n - 1) : Served(c)[i] = (head \o rest)[i]
        BY <1>1, <2>1, <2>2, <2>5, AppendProperties
    <2>7. Holds(Served(c), c)
        BY <1>1, <2>1, <2>6 DEF Holds
    <2>8. ASSUME NEW d \in Clients, Holds(recency, d), d # c
          PROVE  Holds(Served(c), d)
        <3>1. PICK i \in 1..n : recency[i] = d
            BY <2>8 DEF Holds, n
        <3>2. CASE i < at
            <4>1. i \in 1..(n - 1) /\ i \in 1..(at - 1) /\ i \in 1..n
                BY <1>1, <2>1, <3>2
            <4>2. Served(c)[i] = d
                BY <2>1, <2>3, <2>5, <2>6, <3>1, <4>1
            <4> QED BY <2>6, <4>1, <4>2 DEF Holds
        <3>3. CASE i > at
            <4>1. i - 1 \in 1..(n - 1) /\ i - 1 \in 1..n /\ ~(i - 1 <= at - 1)
                  /\ (i - 1) - (at - 1) \in 1..(n - at) /\ at + ((i - 1) - (at - 1)) = i
                BY <1>1, <2>1, <3>3
            <4>2. Served(c)[i - 1] = d
                BY <2>4, <2>5, <2>6, <3>1, <4>1
            <4> QED BY <2>6, <4>1, <4>2 DEF Holds
        <3> QED BY <2>1, <2>8, <3>1, <3>2, <3>3
    <2> QED BY <1>3, <2>6, <2>7, <2>8 DEF n
<1> QED BY <1>2, <1>3

\* What popitem leaves, and who is gone.
LEMMA EvictionKeepsTheLast ==
    ASSUME LimiterAssumption, NEW order \in Seq(Clients)
    PROVE  LET kept == SubSeq(order, Excess(order) + 1, Len(order)) IN
           /\ kept \in Seq(Clients) /\ Len(kept) <= MaxClients
           /\ \A d \in Clients : Holds(order, d) =>
                d \in {order[i] : i \in 1..Excess(order)} \/ Holds(kept, d)
<1> DEFINE n == Len(order)
           x == Excess(order)
           kept == SubSeq(order, x + 1, n)
<1>1. n \in Nat /\ \A i \in 1..n : order[i] \in Clients
    BY ElementOfSeq, LenProperties
<1>2. x \in 0..n /\ n - x <= MaxClients
    BY <1>1 DEF Excess, LimiterAssumption
<1> HIDE DEF n, x
<1>3. kept \in Seq(Clients) /\ Len(kept) = n - x /\ \A i \in 1..(n - x) : kept[i] = order[x + i]
    BY <1>1, <1>2, SubSeqProperties
<1> HIDE DEF kept
<1>4. ASSUME NEW d \in Clients, Holds(order, d), d \notin {order[i] : i \in 1..x}
      PROVE  Holds(kept, d)
    <2>1. PICK i \in 1..n : order[i] = d
        BY <1>4 DEF Holds, n
    <2>2. i - x \in 1..(n - x) /\ x + (i - x) = i
        BY <1>1, <1>2, <1>4, <2>1
    <2> QED BY <1>3, <2>1, <2>2 DEF Holds
<1> QED BY <1>2, <1>3, <1>4 DEF kept, n, x

-----------------------------------------------------------------------------
(* The steps *)

LEMMA KeysStay ==
    ASSUME KeysInv, UNCHANGED <<buckets, recency>>
    PROVE  KeysInv'
BY DEF KeysInv, Holds

LEMMA LimiterInitIsFine ==
    ASSUME LimiterAssumption, LimiterInit
    PROVE  LimiterInv
<1>1. /\ buckets \in [Clients -> Seq(Nat)]
      /\ admissions \in [Clients -> Seq([seen : Nat, real : Nat])]
      /\ calls \in [Threads -> [client : Clients \cup {NoClient}, now : Nat]]
      /\ clock \in Nat
    BY DEF LimiterInit, Idle
<1>2. \A t \in Threads : CallInv(calls[t])
    BY DEF LimiterInit, Idle, CallInv
<1>3. \A c \in Clients : ClientInv(buckets[c], admissions[c], clock)
    BY <1>1, ForgottenClient DEF LimiterInit
<1>4. KeysInv
    BY DEF LimiterInit, KeysInv, LimiterAssumption
<1> QED BY <1>1, <1>2, <1>3, <1>4 DEF LimiterInv

LEMMA TickIsFine ==
    ASSUME LimiterAssumption, LimiterInv, Tick
    PROVE  LimiterInv'
<1>1. clock' = clock + 1 /\ clock' \in Nat
    BY DEF LimiterInv, Tick
<1>2. ASSUME NEW t \in Threads PROVE CallInv(calls[t])'
    <2>1. calls[t].now \in Nat /\ clock \in Nat /\ MaxDelay \in Nat
        BY DEF LimiterInv, LimiterAssumption
    <2>2. calls[t].client # NoClient =>
            calls[t].now <= clock /\ clock < calls[t].now + MaxDelay
        BY DEF LimiterInv, Tick, CallInv
    <2>3. calls' = calls
        BY DEF Tick
    <2> QED BY <1>1, <2>1, <2>2, <2>3 DEF CallInv
<1>3. ASSUME NEW c \in Clients PROVE ClientInv(buckets[c], admissions[c], clock)'
    <2>1. buckets[c] \in Seq(Nat) /\ admissions[c] \in History
        BY DEF LimiterInv, History
    <2>2. ClientInv(buckets[c], admissions[c], clock + 1)
        BY <2>1, LaterIsFine DEF LimiterInv
    <2> QED BY <1>1, <2>2 DEF Tick
<1> QED BY <1>1, <1>2, <1>3, KeysStay DEF LimiterInv, Tick

LEMMA ReadClockIsFine ==
    ASSUME LimiterAssumption, LimiterInv, NEW t \in Threads, NEW c \in Clients, ReadClock(t, c)
    PROVE  LimiterInv'
<1>1. calls' \in [Threads -> [client : Clients \cup {NoClient}, now : Nat]]
    BY DEF LimiterInv, ReadClock
<1>2. ASSUME NEW u \in Threads PROVE CallInv(calls[u])'
    BY DEF LimiterInv, ReadClock, CallInv, LimiterAssumption
<1> QED BY <1>1, <1>2, KeysStay DEF LimiterInv, ReadClock

\* The thread that has the lock, and what it finds.
LEMMA AtTheLock ==
    ASSUME LimiterAssumption, LimiterInv, NEW t \in Threads, calls[t].client \in Clients
    PROVE  LET c == calls[t].client
               left == Recent(buckets[c], calls[t].now)
           IN  /\ calls[t].now \in Nat /\ calls[t].now <= clock
               /\ clock <= calls[t].now + MaxDelay
               /\ buckets[c] \in Seq(Nat) /\ admissions[c] \in History
               /\ left \in Seq(Nat)
               /\ ClientInv(left, admissions[c], clock)
<1> DEFINE c == calls[t].client
<1>1. calls[t].now \in Nat /\ c # NoClient
    BY DEF LimiterInv, LimiterAssumption
<1>2. calls[t].now <= clock /\ clock <= calls[t].now + MaxDelay
    BY <1>1 DEF LimiterInv, CallInv
<1>3. /\ buckets[c] \in Seq(Nat) /\ admissions[c] \in History
      /\ ClientInv(buckets[c], admissions[c], clock)
    BY DEF LimiterInv, History
<1> QED BY <1>1, <1>2, <1>3, PoppingIsFine DEF LimiterInv

LEMMA IdleAgain ==
    ASSUME LimiterAssumption, LimiterInv, NEW t \in Threads,
           calls' = [calls EXCEPT ![t] = Idle], UNCHANGED clock
    PROVE  /\ calls' \in [Threads -> [client : Clients \cup {NoClient}, now : Nat]]
           /\ \A u \in Threads : CallInv(calls[u])'
<1>1. calls' \in [Threads -> [client : Clients \cup {NoClient}, now : Nat]]
    BY DEF LimiterInv, Idle
<1>2. ASSUME NEW u \in Threads PROVE CallInv(calls[u])'
    BY DEF LimiterInv, Idle, CallInv
<1> QED BY <1>1, <1>2

LEMMA RefuseIsFine ==
    ASSUME LimiterAssumption, LimiterInv, NEW t \in Threads, Refuse(t)
    PROVE  LimiterInv'
<1> DEFINE c == calls[t].client
           left == Recent(buckets[c], calls[t].now)
<1>1. /\ c \in Clients /\ buckets' = [buckets EXCEPT ![c] = left]
      /\ calls' = [calls EXCEPT ![t] = Idle] /\ UNCHANGED <<clock, admissions>>
    BY DEF Refuse
<1>2. left \in Seq(Nat) /\ ClientInv(left, admissions[c], clock)
    BY <1>1, AtTheLock
<1>6. calls[t].now \in Nat
    BY <1>1, AtTheLock
<1> HIDE DEF left, c
<1>3. buckets' \in [Clients -> Seq(Nat)]
    BY <1>1, <1>2 DEF LimiterInv
<1>4. ASSUME NEW d \in Clients PROVE ClientInv(buckets[d], admissions[d], clock)'
    BY <1>1, <1>2 DEF LimiterInv
\* A client that is refused has times in its bucket, so it is among the keys.
<1>5. KeysInv'
    <2>1. Holds(recency, c)
        <3>1. Len(left) >= Limit /\ buckets[c] \in Seq(Nat)
            BY DEF Refuse, Admits, LimiterInv, left, c
        <3>2. Len(left) <= Len(buckets[c])
            <4>1. PICK n \in 0..Len(buckets[c]) : left = SubSeq(buckets[c], n + 1, Len(buckets[c]))
                BY <3>1, <1>6, RecentIsTail DEF LimiterAssumption, left
            <4>2. \A i \in (n + 1)..Len(buckets[c]) : buckets[c][i] \in Nat
                BY <3>1
            <4> QED BY <3>1, <4>1, <4>2, SubSeqProperties
        <3>3. buckets[c] # <<>>
            BY <3>1, <3>2 DEF LimiterAssumption
        <3> QED BY <1>1, <3>3 DEF LimiterInv, KeysInv
    <2>2. recency' = Served(c) /\ recency \in Seq(Clients) /\ Len(recency) <= MaxClients
        BY DEF Refuse, LimiterInv, KeysInv, c
    <2>3. recency' \in Seq(Clients) /\ Len(recency') <= MaxClients
        BY <1>1, <2>1, <2>2, ServedKeepsTheRest
    <2>4. ASSUME NEW d \in Clients, buckets'[d] # <<>> PROVE Holds(recency', d)
        <3>1. CASE d = c
            BY <1>1, <2>2, <3>1, ServedKeepsTheRest
        <3>2. CASE d # c
            <4>1. buckets[d] # <<>>
                BY <1>1, <2>4, <3>2 DEF LimiterInv
            <4> QED BY <1>1, <2>2, <4>1, ServedKeepsTheRest DEF LimiterInv, KeysInv
        <3> QED BY <3>1, <3>2
    <2> QED BY <2>3, <2>4 DEF KeysInv, Holds
<1> QED BY <1>1, <1>3, <1>4, <1>5, IdleAgain DEF LimiterInv

LEMMA AdmitIsFine ==
    ASSUME LimiterAssumption, LimiterInv, NEW t \in Threads, Admit(t)
    PROVE  LimiterInv'
<1> DEFINE c == calls[t].client
           now == calls[t].now
           left == Recent(buckets[c], now)
           order == Served(c)
           gone == {order[i] : i \in 1..Excess(order)}
           entry == [seen |-> now, real |-> clock]
<1>1. /\ c \in Clients /\ Len(left) < Limit
      /\ buckets' = [d \in Clients |-> IF d \in gone THEN <<>>
                                       ELSE IF d = c THEN Append(left, now) ELSE buckets[d]]
      /\ admissions' = [d \in Clients |-> IF d \in gone THEN <<>>
                                          ELSE IF d = c THEN Append(admissions[d], entry)
                                          ELSE admissions[d]]
      /\ calls' = [calls EXCEPT ![t] = Idle] /\ UNCHANGED clock
      /\ recency' = SubSeq(order, Excess(order) + 1, Len(order))
    <2>1. \A d \in Clients : d = c => Append(Recent(buckets[d], now), now) = Append(left, now)
        OBVIOUS
    <2> QED BY <2>1 DEF Admit, Admits
<1>2. /\ now \in Nat /\ now <= clock /\ clock <= now + MaxDelay
      /\ admissions[c] \in History /\ left \in Seq(Nat)
      /\ ClientInv(left, admissions[c], clock)
    BY <1>1, AtTheLock
<1>3. clock \in Nat /\ entry \in [seen : Nat, real : Nat]
    BY <1>2 DEF LimiterInv
<1>8. /\ order \in Seq(Clients) /\ Holds(order, c)
      /\ \A d \in Clients : Holds(recency, d) => Holds(order, d)
    BY <1>1, ServedKeepsTheRest DEF LimiterInv, KeysInv
<1> HIDE DEF order
<1>9. /\ recency' \in Seq(Clients) /\ Len(recency') <= MaxClients
      /\ \A d \in Clients : Holds(order, d) => d \in gone \/ Holds(recency', d)
    BY <1>1, <1>8, EvictionKeepsTheLast
<1> HIDE DEF left, gone, now, c
<1>4. ClientInv(Append(left, now), Append(admissions[c], entry), clock)
    BY <1>1, <1>2, <1>3, AdmittingIsFine
<1>5. Append(left, now) \in Seq(Nat) /\ Append(admissions[c], entry) \in History
    BY <1>2, <1>3, AppendProperties DEF History
<1> HIDE DEF entry
<1>6. buckets' \in [Clients -> Seq(Nat)] /\ admissions' \in [Clients -> History]
    <2>1. <<>> \in Seq(Nat) /\ <<>> \in History
        BY DEF History
    <2> QED BY <1>1, <1>5, <2>1 DEF LimiterInv, History
<1>7. ASSUME NEW d \in Clients PROVE ClientInv(buckets[d], admissions[d], clock)'
    <2>1. CASE d \in gone
        BY <2>1, <1>1, <1>3, ForgottenClient
    <2>2. CASE d \notin gone
        BY <2>2, <1>1, <1>4 DEF LimiterInv
    <2> QED BY <2>1, <2>2
<1>10. KeysInv'
    <2>1. ASSUME NEW d \in Clients, buckets'[d] # <<>> PROVE Holds(recency', d)
        <3>1. d \notin gone /\ (d = c \/ buckets[d] # <<>>)
            BY <1>1, <2>1
        <3> QED BY <1>8, <1>9, <3>1 DEF LimiterInv, KeysInv
    <2> QED BY <1>9, <2>1 DEF KeysInv, Holds
<1> QED BY <1>1, <1>3, <1>6, <1>7, <1>10, IdleAgain DEF LimiterInv, History

LEMMA LimiterStepIsFine ==
    ASSUME LimiterAssumption, LimiterInv, [LimiterNext]_limiterVars
    PROVE  LimiterInv'
<1>1. CASE Tick
    BY <1>1, TickIsFine
<1>2. ASSUME NEW t \in Threads, Refuse(t) PROVE LimiterInv'
    BY <1>2, RefuseIsFine
<1>3. ASSUME NEW t \in Threads, Admit(t) PROVE LimiterInv'
    BY <1>3, AdmitIsFine
<1>4. ASSUME NEW t \in Threads, NEW c \in Clients, ReadClock(t, c) PROVE LimiterInv'
    BY <1>4, ReadClockIsFine
<1>5. CASE UNCHANGED limiterVars
    BY <1>5, KeysStay DEF LimiterInv, CallInv, limiterVars
<1> QED BY <1>1, <1>2, <1>3, <1>4, <1>5 DEF LimiterNext

-----------------------------------------------------------------------------

\* Types, and the bound on the calls of a client that is not forgotten, hold
\* for every instance of the limiter whose constants meet the assumption.
THEOREM LimiterInvariant == LimiterSpec => []LimiterInv
<1>1. LimiterInit => LimiterInv
    BY LimiterAssumption, LimiterInitIsFine
<1>2. LimiterInv /\ [LimiterNext]_limiterVars => LimiterInv'
    BY LimiterAssumption, LimiterStepIsFine
<1> QED BY <1>1, <1>2, PTL DEF LimiterSpec

LEMMA LimitsHold == LimiterInv => BoundedRate /\ BoundedMemory
<1>1. LimiterInv => BoundedRate
    BY DEF LimiterInv, ClientInv, Spaced, BoundedRate
<1>2. LimiterInv => BoundedMemory
    BY DEF LimiterInv, KeysInv, Holds, ClientInv, BoundedMemory
<1> QED BY <1>1, <1>2

\* consume keeps to "Bound requests per client over a rolling time window":
\* BoundedRate, whatever order the threads reach the lock in.
THEOREM RateIsBounded == LimiterSpec => []BoundedRate
<1> QED BY LimiterInvariant, LimitsHold, PTL

\* consume holds the times of at most max_clients clients, limit times each: a
\* refused call removes nothing, and needs to remove nothing.
THEOREM MemoryIsBounded == LimiterSpec => []BoundedMemory
<1> QED BY LimiterInvariant, LimitsHold, PTL

-----------------------------------------------------------------------------
(* The requests *)

Right == [key : Keys \cup {NoKey}, history : Nat, premium : BOOLEAN, stream : BOOLEAN]
Witness == [right : Right, rows : SUBSET Entitlements, at : Nat]
Stages == {"idle", "limiter", "refused", "handler", "policy", "entitled", "metering", "answered"}
Request ==
    [stage : Stages, kind : Limited \cup Exempt, client : Clients \cup {NoClient},
     key : Keys \cup {NoKey}, span : Nat, deep : BOOLEAN, auth : Right,
     rows : SUBSET Entitlements, bills : Nat]

TablesOK ==
    /\ clock \in Nat
    /\ plans \in [DOMAIN DefaultPlans -> Plan]
    /\ keys \in [Keys -> [plan : DOMAIN DefaultPlans, active : BOOLEAN]]
    /\ entitlements \in SUBSET Entitlements

\* The answer to r shows no more than a right gives.
Covers(right, r) == r.span <= right.history /\ (r.deep => right.premium)

\* The right a request found for its key is one there was.
AuthIsHeld(r, H) ==
    r.auth # NoAuth =>
        /\ r.key # NoKey /\ r.auth.key = r.key
        /\ \E h \in H : h.right = r.auth

Decided(r) == r.stage \in {"metering", "answered"}

\* A span of positions is covered, without a key by the public plan.
SpanIsCovered(r, H) ==
    Decided(r) /\ r.kind \in {"recent", "track"} =>
        /\ \E h \in H : Covers(h.right, r)
        /\ r.auth = NoAuth => \E h \in H : h.right.key = NoKey /\ Covers(h.right, r)

PlanIsPremium(r) ==
    Decided(r) /\ r.kind = "statistics" => r.auth # NoAuth /\ r.auth.premium

RowIsInForce(r, H) ==
    /\ r.stage = "entitled" =>
        /\ r.kind = "subscribe" /\ r.auth # NoAuth /\ r.auth.stream
        /\ \E h \in H : h.rows = r.rows
    /\ Decided(r) /\ r.kind = "subscribe" =>
        /\ r.auth # NoAuth /\ r.auth.stream
        /\ \E h, i \in H : \E e \in h.rows : InForce(e, i.at)

\* Usage is recorded by the last step only, and then for the key that was found.
IsMetered(r) ==
    /\ r.stage \in {"idle", "limiter", "refused", "handler"} => r.auth = NoAuth
    /\ r.bills = IF r.stage = "answered" /\ r.auth # NoAuth THEN 1 ELSE 0

RequestInv(r, H) ==
    /\ AuthIsHeld(r, H) /\ SpanIsCovered(r, H) /\ PlanIsPremium(r)
    /\ RowIsInForce(r, H) /\ IsMetered(r)

IInv ==
    /\ TablesOK
    /\ requests \in [Threads -> Request]
    /\ held \in [Threads -> SUBSET Witness]
    /\ \A t \in Threads : RequestInv(requests[t], held[t])

-----------------------------------------------------------------------------
(* The rights of a moment *)

LEMMA AuthTypes ==
    ASSUME ApiAssumption, TablesOK
    PROVE  /\ NoAuth \in Right /\ NoAuth.key = NoKey
           /\ Public \in Right /\ Public.key = NoKey
           /\ \A k \in Keys \cup {NoKey} :
                /\ Authenticated[k] \in Right
                /\ Authenticated[k] # NoAuth => k # NoKey /\ Authenticated[k].key = k
<1>1. NoAuth \in Right /\ NoAuth.key = NoKey
    BY DEF NoAuth, Right
<1>2. \A k \in Keys \cup {NoKey}, p \in DOMAIN DefaultPlans :
        Rights(k, plans[p]) \in Right /\ Rights(k, plans[p]).key = k
    <2> SUFFICES ASSUME NEW k \in Keys \cup {NoKey}, NEW p \in DOMAIN DefaultPlans
                 PROVE  Rights(k, plans[p]) \in Right /\ Rights(k, plans[p]).key = k
        OBVIOUS
    <2>1. plans[p] \in Plan
        BY DEF TablesOK
    <2> QED BY <2>1 DEF Rights, Right, Plan
<1>3. Public \in Right /\ Public.key = NoKey
    BY <1>2 DEF Public, ApiAssumption
<1>4. ASSUME NEW k \in Keys \cup {NoKey}
      PROVE  /\ Authenticated[k] \in Right
             /\ Authenticated[k] # NoAuth => k # NoKey /\ Authenticated[k].key = k
    <2>1. CASE k # NoKey /\ keys[k].active
        <3>1. keys[k].plan \in DOMAIN DefaultPlans
            BY <2>1 DEF TablesOK
        <3>2. Authenticated[k] = Rights(k, plans[keys[k].plan])
            BY <2>1 DEF Authenticated
        <3> QED BY <3>1, <3>2, <1>2, <2>1
    <2>2. CASE ~(k # NoKey /\ keys[k].active)
        BY <2>2, <1>1 DEF Authenticated
    <2> QED BY <2>1, <2>2
<1> QED BY <1>1, <1>3, <1>4

LEMMA NowHolds ==
    ASSUME ApiAssumption, TablesOK, NEW k \in Keys \cup {NoKey}
    PROVE  /\ Now[k] \in SUBSET Witness
           /\ \E h \in Now[k] : h.right = Public /\ h.rows = entitlements /\ h.at = clock
           /\ \E h \in Now[k] : h.right = Authenticated[k]
<1> DEFINE W(right) == [right |-> right, rows |-> entitlements, at |-> clock]
<1>1. Now[k] = {W(r) : r \in {Public, Authenticated[k]}}
    BY DEF Now
<1>2. W(Public) \in Now[k] /\ W(Authenticated[k]) \in Now[k]
    BY <1>1
<1>3. Now[k] \in SUBSET Witness
    BY <1>1, AuthTypes DEF Witness, TablesOK
<1> QED BY <1>2, <1>3

\* What was justified stays so when more rights have been held.
LEMMA Grows ==
    ASSUME NEW r, NEW H, NEW K, H \subseteq K, RequestInv(r, H)
    PROVE  RequestInv(r, K)
<1>1. AuthIsHeld(r, K)
    BY DEF RequestInv, AuthIsHeld
<1>2. SpanIsCovered(r, K)
    BY DEF RequestInv, SpanIsCovered
<1>3. RowIsInForce(r, K)
    BY DEF RequestInv, RowIsInForce
<1> QED BY <1>1, <1>2, <1>3 DEF RequestInv

\* A request that has not been handled, or was refused, shows nothing.
LEMMA NothingShown ==
    ASSUME NEW r \in Request, NEW H, r.auth = NoAuth, r.bills = 0,
           r.stage \in {"idle", "limiter", "refused", "handler"}
    PROVE  RequestInv(r, H)
BY DEF RequestInv, AuthIsHeld, SpanIsCovered, PlanIsPremium, RowIsInForce, IsMetered, Decided

-----------------------------------------------------------------------------
(* A step of one request *)

\* What is held after a step of t that leaves r.
After(t, r) ==
    IF r.stage \in {"idle", "limiter", "refused"} THEN {} ELSE held[t] \cup Now[r.key]

LEMMA BecomesIsFine ==
    ASSUME ApiAssumption, IInv, NEW t \in Threads, NEW r \in Request, Becomes(t, r),
           RequestInv(r, After(t, r)), UNCHANGED <<clock, tables>>
    PROVE  IInv'
<1>1. TablesOK'
    BY DEF IInv, TablesOK, tables
<1>2. After(t, r) \in SUBSET Witness
    <2>1. Now[r.key] \in SUBSET Witness
        BY NowHolds DEF Request, IInv
    <2> QED BY <2>1 DEF After, IInv
<1>3. requests' = [requests EXCEPT ![t] = r] /\ held' = [held EXCEPT ![t] = After(t, r)]
    BY DEF Becomes, After, IInv
<1>4. requests' \in [Threads -> Request] /\ held' \in [Threads -> SUBSET Witness]
    BY <1>2, <1>3 DEF IInv
<1>5. ASSUME NEW u \in Threads PROVE RequestInv(requests'[u], held'[u])
    <2>1. CASE u = t
        BY <2>1, <1>3 DEF IInv
    <2>2. CASE u # t
        BY <2>2, <1>3 DEF IInv
    <2> QED BY <2>1, <2>2
<1>6. (\A u \in Threads : RequestInv(requests[u], held[u]))'
    BY <1>5 DEF RequestInv, AuthIsHeld, SpanIsCovered, PlanIsPremium, RowIsInForce, IsMetered
<1> QED BY <1>1, <1>4, <1>6 DEF IInv

LEMMA NoRequestIsFine ==
    ASSUME ApiAssumption
    PROVE  /\ NoRequest \in Request /\ NoRequest.auth = NoAuth /\ NoRequest.bills = 0
           /\ NoRequest.stage = "idle"
           /\ [NoRequest EXCEPT !.stage = "refused"] \in Request
<1>1. NoAuth \in Right
    BY DEF NoAuth, Right
<1>2. NoRequest \in Request
    BY <1>1 DEF NoRequest, Request, Stages, Limited, Exempt
<1>3. [NoRequest EXCEPT !.stage = "refused"] \in Request
    BY <1>2 DEF Request, Stages
<1> QED BY <1>2, <1>3 DEF NoRequest

LEMMA RefusedIsFine ==
    ASSUME ApiAssumption, IInv, NEW t \in Threads, Refused(t), UNCHANGED <<clock, tables>>
    PROVE  IInv'
<1> DEFINE r == [NoRequest EXCEPT !.stage = "refused"]
<1>1. r \in Request /\ r.auth = NoAuth /\ r.bills = 0 /\ r.stage = "refused"
    BY NoRequestIsFine DEF NoRequest
<1>2. RequestInv(r, After(t, r))
    BY <1>1, NothingShown
<1> QED BY <1>1, <1>2, BecomesIsFine DEF Refused

LEMMA AskedIsFine ==
    ASSUME ApiAssumption, NEW c \in Clients \cup {NoClient},
           NEW kinds \in SUBSET (Limited \cup Exempt), NEW r \in Asked(c, kinds)
    PROVE  r \in Request /\ r.auth = NoAuth /\ r.bills = 0 /\ r.stage = "handler"
<1>1. NoAuth \in Right
    BY DEF NoAuth, Right
<1>2. r \in [stage : {"handler"}, kind : kinds, client : {c}, key : Keys \cup {NoKey},
             span : Spans, deep : BOOLEAN, auth : {NoAuth}, rows : {{}}, bills : {0}]
    BY DEF Asked
<1>3. r.span \in Nat
    BY <1>2 DEF ApiAssumption
<1>4. r \in Request
    BY <1>1, <1>2, <1>3 DEF Request, Stages
<1> QED BY <1>2, <1>4

\* What is held after a step includes the rights and rows of its moment.
LEMMA MomentIsHeld ==
    ASSUME ApiAssumption, IInv, NEW t \in Threads, NEW r \in Request,
           r.stage \notin {"idle", "limiter", "refused"}
    PROVE  /\ held[t] \subseteq After(t, r)
           /\ \E h \in After(t, r) : h.right = Public /\ h.rows = entitlements /\ h.at = clock
           /\ \E h \in After(t, r) : h.right = Authenticated[r.key]
<1>1. After(t, r) = held[t] \cup Now[r.key] /\ r.key \in Keys \cup {NoKey}
    BY DEF After, Request
<1> QED BY <1>1, NowHolds DEF IInv

LEMMA ArriveIsFine ==
    ASSUME ApiAssumption, IInv, NEW t \in Threads, Arrive(t)
    PROVE  IInv'
<1>1. PICK c \in Clients :
        \/ ReadClock(t, c) /\ Becomes(t, [NoRequest EXCEPT !.stage = "limiter", !.client = c])
        \/ (\E r \in Asked(c, Exempt) : Becomes(t, r)) /\ UNCHANGED limiterVars
    BY DEF Arrive
<1>2. UNCHANGED <<clock, tables>>
    BY <1>1 DEF Arrive, ReadClock, limiterVars
<1>3. CASE Becomes(t, [NoRequest EXCEPT !.stage = "limiter", !.client = c])
    <2> DEFINE r == [NoRequest EXCEPT !.stage = "limiter", !.client = c]
    <2>1. r \in Request /\ r.auth = NoAuth /\ r.bills = 0 /\ r.stage = "limiter"
        BY NoRequestIsFine DEF NoRequest, Request, Stages
    <2>2. RequestInv(r, After(t, r))
        BY <2>1, NothingShown
    <2> QED BY <2>1, <2>2, <1>2, <1>3, BecomesIsFine
<1>4. ASSUME NEW r \in Asked(c, Exempt), Becomes(t, r)
      PROVE  IInv'
    <2>1. r \in Request /\ r.auth = NoAuth /\ r.bills = 0 /\ r.stage = "handler"
        BY AskedIsFine
    <2>2. RequestInv(r, After(t, r))
        BY <2>1, NothingShown
    <2> QED BY <2>1, <2>2, <1>2, <1>4, BecomesIsFine
<1> QED BY <1>1, <1>3, <1>4

LEMMA EnforceRateLimitIsFine ==
    ASSUME ApiAssumption, IInv, NEW t \in Threads, EnforceRateLimit(t)
    PROVE  IInv'
<1>1. UNCHANGED <<clock, tables>>
    BY DEF EnforceRateLimit, Admit, Refuse
<1>2. CASE Refused(t)
    BY <1>1, <1>2, RefusedIsFine
<1>3. ASSUME NEW r \in Asked(requests[t].client, Limited), Becomes(t, r)
      PROVE  IInv'
    <2>1. requests[t].client \in Clients \cup {NoClient}
        BY DEF IInv, Request
    <2>2. r \in Request /\ r.auth = NoAuth /\ r.bills = 0 /\ r.stage = "handler"
        BY <2>1, AskedIsFine
    <2>3. RequestInv(r, After(t, r))
        BY <2>2, NothingShown
    <2> QED BY <2>2, <2>3, <1>1, <1>3, BecomesIsFine
<1> QED BY <1>2, <1>3 DEF EnforceRateLimit

LEMMA OpenIsFine ==
    ASSUME ApiAssumption, IInv, NEW t \in Threads, Open(t)
    PROVE  IInv'
<1>1. UNCHANGED <<clock, tables>>
    BY DEF Open, Handles, limiterVars
<1>2. PICK s \in {"answered", "metering"} : Stage(t, s)
    BY DEF Open
<1> DEFINE r == [requests[t] EXCEPT !.stage = s]
<1>3. requests[t] \in Request /\ RequestInv(requests[t], held[t])
    BY DEF IInv
<1>4. r \in Request /\ r.stage = s /\ r.kind = requests[t].kind /\ r.auth = requests[t].auth
        /\ r.bills = requests[t].bills
    BY <1>3 DEF Request, Stages
<1>5. requests[t].stage = "handler" /\ r.kind \in {"healthz", "aircraft"}
    BY <1>4 DEF Open, Handles
<1>6. r.auth = NoAuth /\ r.bills = 0
    BY <1>3, <1>4, <1>5 DEF RequestInv, IsMetered
<1>7. RequestInv(r, After(t, r))
    BY <1>4, <1>5, <1>6
    DEF RequestInv, AuthIsHeld, SpanIsCovered, PlanIsPremium, RowIsInForce, IsMetered, Decided
<1> QED BY <1>1, <1>2, <1>4, <1>7, BecomesIsFine DEF Stage

LEMMA AuthenticateIsFine ==
    ASSUME ApiAssumption, IInv, NEW t \in Threads, Authenticate(t)
    PROVE  IInv'
<1> DEFINE auth == RequestAuth(requests[t])
           r == [requests[t] EXCEPT !.stage = "policy", !.auth = auth]
<1>1. UNCHANGED <<clock, tables>> /\ Becomes(t, r) /\ requests[t].stage = "handler"
    BY DEF Authenticate, Handles, limiterVars
<1>2. requests[t] \in Request /\ RequestInv(requests[t], held[t])
    BY DEF IInv
<1>3. requests[t].auth = NoAuth /\ requests[t].bills = 0
    BY <1>1, <1>2 DEF RequestInv, IsMetered
<1>4. auth = Authenticated[requests[t].key] /\ requests[t].key \in Keys \cup {NoKey}
    BY <1>2, <1>3 DEF RequestAuth, Request
<1>5. auth \in Right /\ (auth # NoAuth => r.key # NoKey /\ auth.key = r.key)
    BY <1>2, <1>4, AuthTypes DEF IInv, Request
<1>6. r \in Request /\ r.stage = "policy" /\ r.auth = auth /\ r.key = requests[t].key
        /\ r.bills = 0
    BY <1>2, <1>3, <1>5 DEF Request, Stages
<1>7. \E h \in After(t, r) : h.right = auth
    <2> HIDE DEF auth, r
    <2>1. r \in Request /\ r.stage \notin {"idle", "limiter", "refused"}
        BY <1>6
    <2>2. \E h \in After(t, r) : h.right = Authenticated[r.key]
        BY <2>1, MomentIsHeld
    <2> QED BY <2>2, <1>4, <1>6
<1>8. RequestInv(r, After(t, r))
    BY <1>5, <1>6, <1>7
    DEF RequestInv, AuthIsHeld, SpanIsCovered, PlanIsPremium, RowIsInForce, IsMetered, Decided
<1> QED BY <1>1, <1>6, <1>8, BecomesIsFine

\* A handler decides by a right that is held, without a key by the public plan.
LEMMA AccessIsHeld ==
    ASSUME ApiAssumption, IInv, NEW t \in Threads, requests[t].stage = "policy",
           NEW r \in Request, r.stage = "metering"
    PROVE  /\ Access(requests[t]) \in Right
           /\ \E h \in After(t, r) : h.right = Access(requests[t])
           /\ requests[t].auth = NoAuth => Access(requests[t]).key = NoKey
<1>1. requests[t] \in Request /\ RequestInv(requests[t], held[t])
    BY DEF IInv
<1>2. /\ held[t] \subseteq After(t, r)
      /\ \E h \in After(t, r) : h.right = Public
    <2>1. r.stage \notin {"idle", "limiter", "refused"}
        OBVIOUS
    <2> QED BY <2>1, MomentIsHeld
<1>3. CASE requests[t].auth = NoAuth
    BY <1>2, <1>3, AuthTypes DEF Access, IInv
<1>4. CASE requests[t].auth # NoAuth
    <2>1. Access(requests[t]) = requests[t].auth /\ requests[t].auth \in Right
        BY <1>1, <1>4 DEF Access, Request
    <2>2. \E h \in held[t] : h.right = requests[t].auth
        BY <1>1, <1>4 DEF RequestInv, AuthIsHeld
    <2> QED BY <2>1, <2>2, <1>2, <1>4
<1> QED BY <1>3, <1>4

\* A handler that lets a span of positions through.
LEMMA PositionsAreFine ==
    ASSUME ApiAssumption, IInv, NEW t \in Threads, NEW span \in Nat,
           requests[t].stage = "policy", requests[t].kind \in {"recent", "track"},
           UNCHANGED <<clock, tables>>,
           span <= Access(requests[t]).history,
           requests[t].deep => Access(requests[t]).premium,
           Becomes(t, [requests[t] EXCEPT !.stage = "metering", !.span = span])
    PROVE  IInv'
<1> DEFINE r == [requests[t] EXCEPT !.stage = "metering", !.span = span]
           access == Access(requests[t])
<1>1. requests[t] \in Request /\ RequestInv(requests[t], held[t])
    BY DEF IInv
<1>2. r \in Request /\ r.stage = "metering" /\ r.span = span /\ r.kind = requests[t].kind
        /\ r.auth = requests[t].auth /\ r.deep = requests[t].deep
        /\ r.key = requests[t].key /\ r.bills = requests[t].bills
    BY <1>1 DEF Request, Stages
<1> HIDE DEF r
<1>3. /\ \E h \in After(t, r) : h.right = access
      /\ r.auth = NoAuth => access.key = NoKey
    BY <1>2, AccessIsHeld
<1>4. Covers(access, r)
    BY <1>2 DEF Covers
<1>5. SpanIsCovered(r, After(t, r))
    BY <1>3, <1>4 DEF SpanIsCovered
<1>6. AuthIsHeld(r, After(t, r))
    <2>1. held[t] \subseteq After(t, r)
        BY <1>2 DEF After
    <2> QED BY <1>1, <1>2, <2>1 DEF RequestInv, AuthIsHeld
<1>7. PlanIsPremium(r) /\ RowIsInForce(r, After(t, r)) /\ IsMetered(r)
    BY <1>1, <1>2 DEF RequestInv, PlanIsPremium, RowIsInForce, IsMetered
<1>8. RequestInv(r, After(t, r))
    BY <1>5, <1>6, <1>7 DEF RequestInv
<1> QED BY <1>2, <1>8, BecomesIsFine DEF r

LEMMA GetRecentPositionsIsFine ==
    ASSUME ApiAssumption, IInv, NEW t \in Threads, GetRecentPositions(t)
    PROVE  IInv'
<1> DEFINE access == Access(requests[t])
<1>1. UNCHANGED <<clock, tables>> /\ requests[t].stage = "policy" /\ requests[t].kind = "recent"
    BY DEF GetRecentPositions, Handles, limiterVars
<1>2. CASE requests[t].deep /\ ~access.premium
    BY <1>1, <1>2, RefusedIsFine DEF GetRecentPositions
<1>3. CASE ~(requests[t].deep /\ ~access.premium)
    <2> DEFINE span == IF requests[t].span < access.history THEN requests[t].span ELSE access.history
    <2>1. Becomes(t, [requests[t] EXCEPT !.stage = "metering", !.span = span])
        BY <1>3 DEF GetRecentPositions
    <2>2. access \in Right
        BY <1>1, AuthTypes DEF Access, IInv, Request
    <2>3. span \in Nat /\ span <= access.history
        BY <2>2 DEF Right, IInv, Request
    <2>4. requests[t].deep => access.premium
        BY <1>3
    <2> HIDE DEF span
    <2> QED BY <1>1, <2>1, <2>3, <2>4, PositionsAreFine
<1> QED BY <1>2, <1>3

LEMMA GetAircraftTrackIsFine ==
    ASSUME ApiAssumption, IInv, NEW t \in Threads, GetAircraftTrack(t)
    PROVE  IInv'
<1> DEFINE access == Access(requests[t])
           span == requests[t].span
<1>1. UNCHANGED <<clock, tables>> /\ requests[t].stage = "policy" /\ requests[t].kind = "track"
    BY DEF GetAircraftTrack, Handles, limiterVars
<1>2. CASE Refused(t)
    BY <1>1, <1>2, RefusedIsFine
<1>3. CASE Stage(t, "metering") /\ (requests[t].deep => access.premium) /\ ~(span > access.history)
    <2>1. requests[t] \in Request
        BY DEF IInv
    <2>2. access \in Right
        BY <1>1, AuthTypes DEF Access, IInv, Request
    <2>3. span \in Nat /\ span <= access.history
        BY <1>3, <2>1, <2>2 DEF Right, Request
    <2>4. [requests[t] EXCEPT !.stage = "metering"] = [requests[t] EXCEPT !.stage = "metering", !.span = span]
        BY <2>1 DEF Request
    <2>5. Becomes(t, [requests[t] EXCEPT !.stage = "metering", !.span = span])
        BY <1>3, <2>4 DEF Stage
    <2> QED BY <1>1, <1>3, <2>3, <2>5, PositionsAreFine
<1> QED BY <1>2, <1>3 DEF GetAircraftTrack

LEMMA RequirePlanIsFine ==
    ASSUME ApiAssumption, IInv, NEW t \in Threads, RequirePlan(t)
    PROVE  IInv'
<1>1. /\ UNCHANGED <<clock, tables>> /\ requests[t].stage = "policy"
      /\ requests[t].kind = "statistics"
    BY DEF RequirePlan, Handles, limiterVars
<1>2. CASE Refused(t)
    BY <1>1, <1>2, RefusedIsFine
<1>3. CASE Stage(t, "metering") /\ requests[t].auth.premium
    <2> DEFINE r == [requests[t] EXCEPT !.stage = "metering"]
    <2>1. requests[t] \in Request /\ RequestInv(requests[t], held[t])
        BY DEF IInv
    <2>2. r \in Request /\ r.stage = "metering" /\ r.kind = "statistics"
            /\ r.auth = requests[t].auth /\ r.key = requests[t].key
            /\ r.bills = requests[t].bills /\ r.auth.premium
        BY <1>1, <1>3, <2>1 DEF Request, Stages
    <2> HIDE DEF r
    <2>3. PlanIsPremium(r)
        BY <2>2 DEF PlanIsPremium, NoAuth
    <2>4. AuthIsHeld(r, After(t, r))
        <3>1. held[t] \subseteq After(t, r)
            BY <2>2 DEF After
        <3> QED BY <2>1, <2>2, <3>1 DEF RequestInv, AuthIsHeld
    <2>5. SpanIsCovered(r, After(t, r)) /\ RowIsInForce(r, After(t, r)) /\ IsMetered(r)
        BY <1>1, <2>1, <2>2 DEF RequestInv, SpanIsCovered, RowIsInForce, IsMetered
    <2>6. RequestInv(r, After(t, r))
        BY <2>3, <2>4, <2>5 DEF RequestInv
    <2> QED BY <1>1, <1>3, <2>2, <2>6, BecomesIsFine DEF Stage, r
<1> QED BY <1>2, <1>3 DEF RequirePlan

LEMMA ReadEntitlementsIsFine ==
    ASSUME ApiAssumption, IInv, NEW t \in Threads, ReadEntitlements(t)
    PROVE  IInv'
<1> DEFINE r == [requests[t] EXCEPT !.stage = "entitled", !.rows = entitlements]
<1>1. /\ UNCHANGED <<clock, tables>> /\ requests[t].stage = "policy"
      /\ requests[t].kind = "subscribe"
    BY DEF ReadEntitlements, Handles, limiterVars
<1>2. CASE Refused(t)
    BY <1>1, <1>2, RefusedIsFine
<1>3. CASE Becomes(t, r) /\ requests[t].auth.stream
    <2>1. requests[t] \in Request /\ RequestInv(requests[t], held[t])
        BY DEF IInv
    <2>2. r \in Request /\ r.stage = "entitled" /\ r.kind = "subscribe"
            /\ r.auth = requests[t].auth /\ r.key = requests[t].key
            /\ r.bills = requests[t].bills /\ r.rows = entitlements /\ r.auth.stream
        BY <1>1, <1>3, <2>1 DEF Request, Stages, IInv, TablesOK
    <2> HIDE DEF r
    <2>3. /\ held[t] \subseteq After(t, r)
          /\ \E h \in After(t, r) : h.rows = entitlements
        <3>1. r.stage \notin {"idle", "limiter", "refused"}
            BY <2>2
        <3> QED BY <2>2, <3>1, MomentIsHeld
    <2>4. AuthIsHeld(r, After(t, r))
        BY <2>1, <2>2, <2>3 DEF RequestInv, AuthIsHeld
    <2>5. RowIsInForce(r, After(t, r))
        BY <2>2, <2>3 DEF RowIsInForce, Decided, NoAuth
    <2>6. SpanIsCovered(r, After(t, r)) /\ PlanIsPremium(r) /\ IsMetered(r)
        BY <1>1, <2>1, <2>2 DEF RequestInv, SpanIsCovered, PlanIsPremium, IsMetered, Decided
    <2>7. RequestInv(r, After(t, r))
        BY <2>4, <2>5, <2>6 DEF RequestInv
    <2> QED BY <1>1, <1>3, <2>2, <2>7, BecomesIsFine
<1> QED BY <1>2, <1>3 DEF ReadEntitlements

LEMMA SubscribeIsFine ==
    ASSUME ApiAssumption, IInv, NEW t \in Threads, Subscribe(t)
    PROVE  IInv'
<1>1. UNCHANGED <<clock, tables>> /\ requests[t].stage = "entitled"
    BY DEF Subscribe, Handles, limiterVars
<1>2. CASE Refused(t)
    BY <1>1, <1>2, RefusedIsFine
<1>3. CASE Stage(t, "metering") /\ \E e \in requests[t].rows : InForce(e, clock)
    <2> DEFINE r == [requests[t] EXCEPT !.stage = "metering"]
    <2>1. requests[t] \in Request /\ RequestInv(requests[t], held[t])
        BY DEF IInv
    <2>2. /\ requests[t].kind = "subscribe" /\ requests[t].auth # NoAuth /\ requests[t].auth.stream
          /\ \E h \in held[t] : h.rows = requests[t].rows
        BY <1>1, <2>1 DEF RequestInv, RowIsInForce
    <2>3. r \in Request /\ r.stage = "metering" /\ r.kind = "subscribe"
            /\ r.auth = requests[t].auth /\ r.key = requests[t].key
            /\ r.bills = requests[t].bills
        BY <2>1, <2>2 DEF Request, Stages
    <2> HIDE DEF r
    <2>4. /\ held[t] \subseteq After(t, r)
          /\ \E i \in After(t, r) : i.at = clock
        <3>1. r.stage \notin {"idle", "limiter", "refused"}
            BY <2>3
        <3> QED BY <2>3, <3>1, MomentIsHeld
    <2>5. AuthIsHeld(r, After(t, r))
        BY <2>1, <2>3, <2>4 DEF RequestInv, AuthIsHeld
    <2>6. RowIsInForce(r, After(t, r))
        <3>1. \E h, i \in After(t, r) : \E e \in h.rows : InForce(e, i.at)
            BY <1>3, <2>2, <2>4
        <3> QED BY <2>2, <2>3, <3>1 DEF RowIsInForce
    <2>7. SpanIsCovered(r, After(t, r)) /\ PlanIsPremium(r) /\ IsMetered(r)
        BY <1>1, <2>1, <2>3 DEF RequestInv, SpanIsCovered, PlanIsPremium, IsMetered
    <2>8. RequestInv(r, After(t, r))
        BY <2>5, <2>6, <2>7 DEF RequestInv
    <2> QED BY <1>1, <1>3, <2>3, <2>8, BecomesIsFine DEF Stage, r
<1> QED BY <1>2, <1>3 DEF Subscribe

LEMMA MeterIsFine ==
    ASSUME ApiAssumption, IInv, NEW t \in Threads, Meter(t)
    PROVE  IInv'
<1> DEFINE old == requests[t]
           auth == RequestAuth(old)
           bills == old.bills + IF auth # NoAuth THEN 1 ELSE 0
           r == [old EXCEPT !.stage = "answered", !.auth = auth, !.bills = bills]
<1>1. UNCHANGED <<clock, tables>> /\ old.stage = "metering" /\ Becomes(t, r)
    BY DEF Meter, Handles, limiterVars
<1>2. old \in Request /\ RequestInv(old, held[t]) /\ old.key \in Keys \cup {NoKey}
    BY DEF IInv, Request
<1>3. old.bills = 0
    BY <1>1, <1>2 DEF RequestInv, IsMetered
<1>4. auth \in Right /\ bills \in Nat
    <2>1. auth \in Right
        BY <1>2, AuthTypes DEF RequestAuth, Request, IInv
    <2> QED BY <2>1, <1>3
<1>5. r \in Request /\ r.stage = "answered" /\ r.auth = auth /\ r.key = old.key
        /\ r.kind = old.kind /\ r.span = old.span /\ r.deep = old.deep /\ r.bills = bills
    <2> HIDE DEF auth, bills
    <2> QED BY <1>2, <1>4 DEF Request, Stages
<1>6. bills = IF auth # NoAuth THEN 1 ELSE 0
    BY <1>3
<1> HIDE DEF r
<1>7. /\ held[t] \subseteq After(t, r)
      /\ \E h \in After(t, r) : h.right = Authenticated[old.key]
    <2>1. r.stage \notin {"idle", "limiter", "refused"}
        BY <1>5
    <2> QED BY <1>5, <2>1, MomentIsHeld
<1>8. AuthIsHeld(r, After(t, r))
    <2>1. CASE old.auth # NoAuth
        BY <2>1, <1>2, <1>5, <1>7 DEF RequestInv, AuthIsHeld, RequestAuth
    <2>2. CASE old.auth = NoAuth
        <3>1. auth = Authenticated[old.key]
            BY <2>2 DEF RequestAuth
        <3>2. auth # NoAuth => old.key # NoKey /\ auth.key = old.key
            BY <3>1, <1>2, AuthTypes DEF IInv
        <3> HIDE DEF auth
        <3> QED BY <3>1, <3>2, <1>5, <1>7 DEF AuthIsHeld
    <2> QED BY <2>1, <2>2
<1>9. old.auth # NoAuth => auth = old.auth
    BY DEF RequestAuth
<1> HIDE DEF auth, bills
<1>10. SpanIsCovered(r, After(t, r))
    BY <1>1, <1>2, <1>5, <1>7, <1>9 DEF RequestInv, SpanIsCovered, Decided, Covers
<1>11. PlanIsPremium(r)
    BY <1>1, <1>2, <1>5, <1>9 DEF RequestInv, PlanIsPremium, Decided
<1>12. RowIsInForce(r, After(t, r))
    BY <1>1, <1>2, <1>5, <1>7, <1>9 DEF RequestInv, RowIsInForce, Decided
<1>13. IsMetered(r)
    BY <1>5, <1>6 DEF IsMetered
<1>14. RequestInv(r, After(t, r))
    BY <1>8, <1>10, <1>11, <1>12, <1>13 DEF RequestInv
<1> QED BY <1>1, <1>5, <1>14, BecomesIsFine

LEMMA FailIsFine ==
    ASSUME ApiAssumption, IInv, NEW t \in Threads, Fail(t)
    PROVE  IInv'
BY RefusedIsFine DEF Fail, limiterVars

LEMMA RespondIsFine ==
    ASSUME ApiAssumption, IInv, NEW t \in Threads, Respond(t)
    PROVE  IInv'
<1>1. RequestInv(NoRequest, After(t, NoRequest))
    BY NoRequestIsFine, NothingShown
<1> QED BY <1>1, NoRequestIsFine, BecomesIsFine DEF Respond, limiterVars

-----------------------------------------------------------------------------
(* Steps of everyone else *)

LEMMA NowIsTyped ==
    ApiAssumption /\ TablesOK => \A k \in Keys \cup {NoKey} : Now[k] \in SUBSET Witness
BY NowHolds

\* A change of the tables or the clock that every request lives through.
LEMMA WitnessedIsFine ==
    ASSUME ApiAssumption, IInv, TablesOK', Witnessed, UNCHANGED requests
    PROVE  IInv'
<1>1. \A k \in Keys \cup {NoKey} : Now'[k] \in SUBSET Witness
    <2>1. (ApiAssumption /\ TablesOK => \A k \in Keys \cup {NoKey} : Now[k] \in SUBSET Witness)'
        BY NowIsTyped, PTL
    <2>2. ApiAssumption'
        BY DEF ApiAssumption
    <2> QED BY <2>1, <2>2 DEF Witness, Right
<1>2. ASSUME NEW t \in Threads
      PROVE  held'[t] \in SUBSET Witness /\ RequestInv(requests[t], held'[t])
    <2>1. requests[t].key \in Keys \cup {NoKey} /\ RequestInv(requests[t], held[t])
            /\ held[t] \in SUBSET Witness
        BY DEF IInv, Request
    <2>2. held'[t] = IF held[t] = {} THEN {} ELSE held[t] \cup Now'[requests[t].key]
        BY DEF Witnessed
    <2>3. held[t] \subseteq held'[t] /\ held'[t] \in SUBSET Witness
        BY <1>1, <2>1, <2>2
    <2> QED BY <2>1, <2>3, Grows
<1>3. held' \in [Threads -> SUBSET Witness]
    BY <1>2 DEF Witnessed
<1>4. (\A t \in Threads : RequestInv(requests[t], held[t]))'
    BY <1>2 DEF RequestInv, AuthIsHeld, SpanIsCovered, PlanIsPremium, RowIsInForce, IsMetered
<1> QED BY <1>3, <1>4 DEF IInv

LEMMA OperateIsFine ==
    ASSUME ApiAssumption, IInv, Operate
    PROVE  IInv'
<1>1. UNCHANGED clock /\ UNCHANGED requests /\ Witnessed
    BY DEF Operate, limiterVars
<1>2. CASE \E k \in Keys, p \in DOMAIN plans, b \in BOOLEAN :
            /\ keys' = [keys EXCEPT ![k] = [plan |-> p, active |-> b]]
            /\ UNCHANGED <<plans, entitlements>>
    BY <1>1, <1>2, WitnessedIsFine DEF IInv, TablesOK
<1>3. CASE \E e \in Entitlements :
            /\ entitlements' = SymDiff(entitlements, {e})
            /\ UNCHANGED <<plans, keys>>
    BY <1>1, <1>3, WitnessedIsFine DEF IInv, TablesOK, SymDiff
<1>4. CASE \E p, q \in DOMAIN plans :
            /\ plans' = [plans EXCEPT ![p] = DefaultPlans[q]]
            /\ UNCHANGED <<keys, entitlements>>
    BY <1>1, <1>4, WitnessedIsFine DEF IInv, TablesOK, ApiAssumption
<1> QED BY <1>2, <1>3, <1>4 DEF Operate

LEMMA RestartIsFine ==
    ASSUME ApiAssumption, IInv, Restart
    PROVE  IInv'
<1>1. TablesOK'
    BY DEF Restart, IInv, TablesOK, ApiAssumption
<1>2. /\ requests' = [t \in Threads |-> NoRequest]
      /\ held' = [t \in Threads |-> {}]
    BY DEF Restart
<1>3. requests' \in [Threads -> Request] /\ held' \in [Threads -> SUBSET Witness]
    BY <1>2, NoRequestIsFine
<1>4. RequestInv(NoRequest, {})
    BY NoRequestIsFine, NothingShown
<1>5. (\A t \in Threads : RequestInv(requests[t], held[t]))'
    BY <1>2, <1>4 DEF RequestInv, AuthIsHeld, SpanIsCovered, PlanIsPremium, RowIsInForce, IsMetered
<1> QED BY <1>1, <1>3, <1>5 DEF IInv

LEMMA TimePassesIsFine ==
    ASSUME ApiAssumption, IInv, TimePasses
    PROVE  IInv'
<1>1. TablesOK'
    BY DEF TimePasses, Tick, tables, IInv, TablesOK
<1> QED BY <1>1, WitnessedIsFine DEF TimePasses

LEMMA UntouchedIsFine ==
    ASSUME IInv, UNCHANGED <<clock, tables, requests, held>>
    PROVE  IInv'
<1>1. TablesOK'
    BY DEF IInv, TablesOK, tables
<1>2. (\A t \in Threads : RequestInv(requests[t], held[t]))'
    BY DEF IInv, RequestInv, AuthIsHeld, SpanIsCovered, PlanIsPremium, RowIsInForce, IsMetered
<1> QED BY <1>1, <1>2 DEF IInv

-----------------------------------------------------------------------------
(* The invariant, and what it says of the answers *)

LEMMA InitIsFine ==
    ASSUME ApiAssumption, Init
    PROVE  IInv
<1>1. TablesOK
    BY DEF Init, LimiterInit, TablesOK, ApiAssumption
<1>2. requests \in [Threads -> Request] /\ held \in [Threads -> SUBSET Witness]
    BY NoRequestIsFine DEF Init
<1>3. RequestInv(NoRequest, {})
    BY NoRequestIsFine, NothingShown
<1> QED BY <1>1, <1>2, <1>3 DEF Init, IInv

LEMMA ServeIsFine ==
    ASSUME ApiAssumption, IInv, NEW t \in Threads, Serve(t)
    PROVE  IInv'
BY ArriveIsFine, EnforceRateLimitIsFine, OpenIsFine, AuthenticateIsFine,
   GetRecentPositionsIsFine, GetAircraftTrackIsFine, RequirePlanIsFine,
   ReadEntitlementsIsFine, SubscribeIsFine, MeterIsFine, FailIsFine, RespondIsFine
DEF Serve

LEMMA NextIsFine ==
    ASSUME ApiAssumption, IInv, [Next]_vars
    PROVE  IInv'
<1>1. CASE \E t \in Threads : Serve(t)
    BY <1>1, ServeIsFine
<1>2. CASE Operate
    BY <1>2, OperateIsFine
<1>3. CASE Restart
    BY <1>3, RestartIsFine
<1>4. CASE TimePasses
    BY <1>4, TimePassesIsFine
<1>5. CASE \E c \in Clients : Disconnect(c)
    BY <1>5, UntouchedIsFine DEF Disconnect, limiterVars
<1>6. CASE UNCHANGED vars
    BY <1>6, UntouchedIsFine DEF vars, limiterVars, apiVars
<1> QED BY <1>1, <1>2, <1>3, <1>4, <1>5, <1>6 DEF Next

LEMMA Invariance == ApiAssumption /\ Spec => []IInv
<1>1. ApiAssumption /\ Init => IInv
    BY InitIsFine
<1>2. ApiAssumption /\ IInv /\ [Next]_vars => IInv'
    BY NextIsFine
<1>3. ApiAssumption => []ApiAssumption
    BY ApiAssumption, PTL
<1> QED BY <1>1, <1>2, <1>3, PTL DEF Spec

LEMMA InvAnswers ==
    ASSUME ApiAssumption, IInv
    PROVE  AnswersWithinPlan
<1> SUFFICES ASSUME NEW t \in Threads, Answered(t)
             PROVE  LET r == requests[t] IN
                    CASE r.kind \in {"recent", "track"} ->
                            \E h \in held[t] : r.span <= h.right.history /\ (r.deep => h.right.premium)
                      [] r.kind = "statistics" ->
                            \E h \in held[t] : h.right.key = r.key /\ r.key # NoKey /\ h.right.premium
                      [] r.kind = "subscribe" ->
                            /\ \E h \in held[t] : h.right.key = r.key /\ r.key # NoKey /\ h.right.stream
                            /\ \E h, i \in held[t] : \E e \in h.rows :
                                e.active /\ e.starts <= i.at /\ (i.at < e.ends \/ e.ends = NoTime)
                      [] OTHER -> TRUE
    BY DEF AnswersWithinPlan
<1> DEFINE r == requests[t]
<1>1. r.stage = "answered" /\ Decided(r) /\ RequestInv(r, held[t]) /\ held[t] \in SUBSET Witness
    BY DEF Answered, Decided, IInv
<1>2. CASE r.kind \in {"recent", "track"}
    BY <1>1, <1>2 DEF RequestInv, SpanIsCovered, Covers
<1>3. CASE r.kind = "statistics"
    BY <1>1, <1>3 DEF RequestInv, PlanIsPremium, AuthIsHeld
<1>4. CASE r.kind = "subscribe"
    <2>1. \E h \in held[t] : h.right.key = r.key /\ r.key # NoKey /\ h.right.stream
        BY <1>1, <1>4 DEF RequestInv, RowIsInForce, AuthIsHeld
    <2>2. PICK h \in held[t], i \in held[t] : \E e \in h.rows : InForce(e, i.at)
        BY <1>1, <1>4 DEF RequestInv, RowIsInForce
    <2>3. PICK e \in h.rows : InForce(e, i.at)
        BY <2>2
    <2>4. i.at \in Nat /\ e \in Entitlements
        BY <1>1, <2>3 DEF Witness
    <2>5. e.active /\ e.starts <= i.at /\ (i.at < e.ends \/ e.ends = NoTime)
        BY <2>3, <2>4 DEF InForce, NoTime, ApiAssumption
    <2> QED BY <1>4, <2>1, <2>3, <2>5
<1>5. CASE r.kind \notin {"recent", "track", "statistics", "subscribe"}
    BY <1>5
<1> QED BY <1>2, <1>3, <1>4, <1>5

LEMMA InvMetered ==
    ASSUME ApiAssumption, IInv
    PROVE  ServedIsMetered
<1> SUFFICES ASSUME NEW t \in Threads
             PROVE  LET r == requests[t]
                        Free == r.kind \in {"healthz", "aircraft"}
                                \/ /\ r.kind \in {"recent", "track"}
                                   /\ \E h \in held[t] : /\ h.right.key = NoKey
                                                         /\ r.span <= h.right.history
                                                         /\ r.deep => h.right.premium
                    IN  /\ r.bills <= 1 /\ (r.key = NoKey => r.bills = 0)
                        /\ Answered(t) /\ ~Free => r.bills = 1
    BY DEF ServedIsMetered
<1> DEFINE r == requests[t]
           Free == r.kind \in {"healthz", "aircraft"}
                   \/ /\ r.kind \in {"recent", "track"}
                      /\ \E h \in held[t] : h.right.key = NoKey /\ Covers(h.right, r)
<1>1. RequestInv(r, held[t]) /\ r.kind \in Limited \cup Exempt
    BY DEF IInv, Request
<1>2. r.bills <= 1 /\ (r.key = NoKey => r.bills = 0)
    BY <1>1 DEF RequestInv, IsMetered, AuthIsHeld
<1>3. ASSUME Answered(t), ~Free PROVE r.bills = 1
    <2>1. r.stage = "answered" /\ Decided(r)
        BY <1>3 DEF Answered, Decided
    <2>2. r.auth # NoAuth
        <3>1. CASE r.kind \in {"recent", "track"}
            BY <3>1, <1>1, <1>3, <2>1 DEF RequestInv, SpanIsCovered
        <3>2. CASE r.kind = "statistics"
            BY <3>2, <1>1, <2>1 DEF RequestInv, PlanIsPremium
        <3>3. CASE r.kind = "subscribe"
            BY <3>3, <1>1, <2>1 DEF RequestInv, RowIsInForce
        <3>4. CASE r.kind \in {"healthz", "aircraft"}
            BY <3>4, <1>3
        <3> QED BY <3>1, <3>2, <3>3, <3>4, <1>1 DEF Limited, Exempt
    <2> QED BY <1>1, <2>1, <2>2 DEF RequestInv, IsMetered
<1> QED BY <1>2, <1>3 DEF Covers

(***************************************************************************)
(* For any plans, keys and entitlements, and however an operator changes   *)
(* them while requests are under way, an answer of the API shows no more   *)
(* than a right that was in force during the request gave, although the    *)
(* key, the rows of its entitlements and the public plan are read in       *)
(* statements of their own.                                                *)
(***************************************************************************)
THEOREM AnswersAreWithinPlan == Spec => []AnswersWithinPlan
<1>1. IInv => AnswersWithinPlan
    BY InvAnswers, ApiAssumption
<1> QED BY <1>1, Invariance, ApiAssumption, PTL

(***************************************************************************)
(* No answer that needed a key is left without its usage row, and no       *)
(* request has two, although record_usage asks for the key once more.      *)
(***************************************************************************)
THEOREM ServiceIsMetered == Spec => []ServedIsMetered
<1>1. IInv => ServedIsMetered
    BY InvMetered, ApiAssumption
<1> QED BY <1>1, Invariance, ApiAssumption, PTL

-----------------------------------------------------------------------------
(* The limiter inside the API *)

LEMMA ProcessStep ==
    ASSUME LimiterAssumption, LimiterInv, [Next]_vars
    PROVE  LimiterInv'
<1>1. CASE [LimiterNext]_limiterVars
    BY <1>1, LimiterStepIsFine
<1>2. ASSUME NEW t \in Threads, Serve(t) PROVE [LimiterNext]_limiterVars
    <2>1. CASE Arrive(t)
        BY <2>1 DEF Arrive, LimiterNext
    <2>2. CASE EnforceRateLimit(t)
        BY <2>2 DEF EnforceRateLimit, LimiterNext
    <2>3. CASE Open(t) \/ Authenticate(t) \/ GetRecentPositions(t) \/ GetAircraftTrack(t)
               \/ RequirePlan(t) \/ ReadEntitlements(t) \/ Subscribe(t) \/ Meter(t)
        BY <2>3 DEF Open, Authenticate, GetRecentPositions, GetAircraftTrack, RequirePlan,
                    ReadEntitlements, Subscribe, Meter, Handles
    <2>4. CASE Fail(t) \/ Respond(t)
        BY <2>4 DEF Fail, Respond
    <2> QED BY <1>2, <2>1, <2>2, <2>3, <2>4 DEF Serve
<1>3. Operate => UNCHANGED limiterVars
    BY DEF Operate
<1>4. TimePasses => LimiterNext
    BY DEF TimePasses, LimiterNext
<1>5. \A c \in Clients : Disconnect(c) => UNCHANGED limiterVars
    BY DEF Disconnect
<1>6. CASE Restart
    <2>1. /\ buckets' = [c \in Clients |-> <<>>] /\ recency' = <<>> /\ clock' = clock
          /\ calls' = [t \in Threads |-> Idle] /\ admissions' = [c \in Clients |-> <<>>]
        BY <1>6 DEF Restart
    <2>2. KeysInv'
        BY <2>1 DEF KeysInv, LimiterAssumption
    <2>3. \A t \in Threads : CallInv(calls[t])'
        BY <2>1 DEF CallInv, Idle
    <2>4. \A c \in Clients : ClientInv(buckets[c], admissions[c], clock)'
        BY <2>1, ForgottenClient DEF LimiterInv
    <2>5. /\ buckets' \in [Clients -> Seq(Nat)]
          /\ calls' \in [Threads -> [client : Clients \cup {NoClient}, now : Nat]]
          /\ admissions' \in [Clients -> Seq([seen : Nat, real : Nat])]
        BY <2>1 DEF Idle
    <2> QED BY <2>1, <2>2, <2>3, <2>4, <2>5 DEF LimiterInv
<1>7. UNCHANGED vars => UNCHANGED limiterVars
    BY DEF vars
<1> QED BY <1>1, <1>2, <1>3, <1>4, <1>5, <1>6, <1>7 DEF Next

\* The limits of consume hold in every process of the API, whatever the handlers
\* do with the requests it lets through, and from the start of each new process.
THEOREM ProcessKeepsLimits == Spec => [](BoundedRate /\ BoundedMemory)
<1>1. Init => LimiterInv
    BY LimiterAssumption, LimiterInitIsFine DEF Init
<1>2. LimiterInv /\ [Next]_vars => LimiterInv'
    BY LimiterAssumption, ProcessStep
<1> QED BY <1>1, <1>2, LimitsHold, PTL DEF Spec
=============================================================================

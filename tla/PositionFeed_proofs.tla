-------------------------- MODULE PositionFeed_proofs --------------------------
(***************************************************************************)
(* NothingSkipped, PolledInOrder and SubscribersConverge for any tables,   *)
(* bounds and sizes of polls.  The argument follows a position that was    *)
(* not emitted yet: whatever comes before it in the queue, in the batch or *)
(* in a poll is not newer than it, so the last id stays behind it.         *)
(***************************************************************************)
EXTENDS PositionFeed, FiniteSetTheorems, FunctionTheorems, SequenceTheorems, TLAPS

Running == phase \notin {"off", "dead"}

TypeInv ==
    /\ local \in BOOLEAN
    /\ lastId \in Nat /\ pending \in 0..lastId
    /\ rows \in [DOMAIN rows -> [aircraft : Aircraft, time : 1..MaxTime, version : Nat]]
    /\ DOMAIN rows \subseteq 1..lastId
    /\ position_queue \in Seq(Nat) /\ \A k \in DOMAIN position_queue : position_queue[k] \in 1..lastId
    /\ position_id \in 0..lastId /\ last_position_id \in 0..lastId /\ startId \in 0..lastId
    /\ batch \in Seq([id : Nat, version : Nat]) /\ \A k \in DOMAIN batch : batch[k].id \in 1..lastId
    /\ sent \in [DOMAIN sent -> Nat] /\ DOMAIN sent \subseteq 1..lastId

\* What the broadcaster holds at each point of its loop.
PhaseInv ==
    /\ phase \in {"off", "waiting", "reading", "polling", "emitting", "dead"}
    /\ phase = "off" => sent = [i \in {} |-> 0] /\ last_position_id = 0
    /\ phase = "dead" => last_position_id = 0
    /\ phase # "reading" => position_id = 0
    /\ phase = "emitting" <=> batch # <<>>

\* The rows stored since it started that it has not emitted yet.
Unsent == {x \in DOMAIN rows : startId < x /\ x \notin DOMAIN sent}

InBatch(x) == \E k \in DOMAIN batch : batch[k].id = x
InQueue(x) == \E k \in DOMAIN position_queue : position_queue[k] = x

\* Nothing that the broadcaster holds overtakes a row that was not emitted yet.
AheadInv ==
    Running => \A x \in Unsent :
        /\ last_position_id < x /\ position_id <= x
        /\ \A k \in DOMAIN batch : x < batch[k].id =>
              \E j \in DOMAIN batch : j < k /\ batch[j].id = x

\* In one process such a row is always on its way as an event, before newer ones.
EventInv ==
    Running /\ local => \A x \in Unsent :
        /\ InBatch(x) \/ position_id = x \/ InQueue(x) \/ pending = x
        /\ \A k \in DOMAIN position_queue : x < position_queue[k] =>
              \/ InBatch(x) \/ position_id = x
              \/ \E j \in DOMAIN position_queue : j < k /\ position_queue[j] = x

\* In two processes there are no events, and polls go on from the last id.
PollInv ==
    ~local =>
        /\ position_queue = <<>> /\ phase # "reading"
        /\ Running =>
            /\ \A id \in DOMAIN sent : id <= last_position_id
            /\ \A k \in DOMAIN batch : last_position_id < batch[k].id
            /\ \A j, k \in DOMAIN batch : j < k => batch[j].id < batch[k].id

\* In one process a change of a row is under way, or what is held or was emitted
\* of the row is its present version.
UnderWay(id) == pending = id \/ InQueue(id) \/ position_id = id
IsCurrent(id) ==
    /\ \A k \in DOMAIN batch : batch[k].id = id => batch[k].version = rows[id].version
    /\ id \in DOMAIN sent => sent[id] = rows[id].version \/ InBatch(id)

VersionInv == Running /\ local => \A id \in DOMAIN rows : UnderWay(id) \/ IsCurrent(id)

IInv == TypeInv /\ PhaseInv /\ AheadInv /\ EventInv /\ PollInv /\ VersionInv

-----------------------------------------------------------------------------
(* What a poll returns *)

LEMMA SmallerOfTwo ==
    ASSUME NEW a \in Nat, NEW b \in Nat
    PROVE  Min({a, b}) \in {a, b} /\ Min({a, b}) <= a /\ Min({a, b}) <= b
<1>1. \E x \in {a, b} : \A y \in {a, b} : x <= y
    <2>1. CASE a <= b
        BY <2>1
    <2>2. CASE b <= a
        BY <2>2
    <2> QED BY <2>1, <2>2
<1>2. Min({a, b}) \in {a, b} /\ \A y \in {a, b} : Min({a, b}) <= y
    BY <1>1 DEF Min
<1> QED BY <1>2

LEMMA LargerOfTwo ==
    ASSUME NEW a \in Nat, NEW b \in Nat
    PROVE  Max({a, b}) \in {a, b} /\ a <= Max({a, b}) /\ b <= Max({a, b})
<1>1. \E x \in {a, b} : \A y \in {a, b} : y <= x
    <2>1. CASE a <= b
        BY <2>1
    <2>2. CASE b <= a
        BY <2>2
    <2> QED BY <2>1, <2>2
<1>2. Max({a, b}) \in {a, b} /\ \A y \in {a, b} : y <= Max({a, b})
    BY <1>1 DEF Max
<1> QED BY <1>2

Finite(S) == IsFiniteSet(S) /\ S \subseteq Nat
Below(i, S) == {j \in S : j < i}
Rank(i, S) == Cardinality(Below(i, S))

LEMMA RankIsBounded ==
    ASSUME NEW S, Finite(S), NEW i \in S
    PROVE  Rank(i, S) \in 0..(Cardinality(S) - 1)
<1>1. Below(i, S) \in SUBSET (S \ {i})
    BY DEF Finite, Below
<1>2. IsFiniteSet(S \ {i}) /\ Cardinality(S \ {i}) = Cardinality(S) - 1
    BY FS_RemoveElement DEF Finite
<1>3. Rank(i, S) <= Cardinality(S) - 1 /\ IsFiniteSet(Below(i, S))
    BY <1>1, <1>2, FS_Subset DEF Rank
<1>4. Rank(i, S) \in Nat /\ Cardinality(S) \in Nat
    BY <1>3, FS_CardinalityType DEF Finite, Rank
<1> QED BY <1>3, <1>4

LEMMA RankGrows ==
    ASSUME NEW S, Finite(S), NEW i \in S, NEW j \in S, i < j
    PROVE  Rank(i, S) < Rank(j, S)
<1>1. i \notin Below(i, S)
    BY DEF Finite, Below
<1>2. (Below(i, S) \cup {i}) \in SUBSET Below(j, S)
    <2>1. ASSUME NEW k \in Below(i, S) PROVE k \in S /\ k < j
        BY <2>1 DEF Finite, Below
    <2> QED BY <2>1 DEF Below
<1>3. IsFiniteSet(Below(i, S)) /\ IsFiniteSet(Below(j, S))
    <2>1. Below(i, S) \in SUBSET S /\ Below(j, S) \in SUBSET S
        BY DEF Below
    <2> QED BY <2>1, FS_Subset DEF Finite
<1>4. Cardinality(Below(i, S) \cup {i}) = Rank(i, S) + 1
    BY <1>1, <1>3, FS_AddElement DEF Rank
<1>5. Cardinality(Below(i, S) \cup {i}) <= Rank(j, S)
    BY <1>2, <1>3, FS_Subset DEF Rank
<1>6. Rank(i, S) \in Nat /\ Rank(j, S) \in Nat
    BY <1>3, FS_CardinalityType DEF Rank
<1> QED BY <1>4, <1>5, <1>6

LEMMA RankIsInjective ==
    ASSUME NEW S, Finite(S), NEW i \in S, NEW j \in S, Rank(i, S) = Rank(j, S)
    PROVE  i = j
<1>1. CASE i < j
    BY <1>1, RankGrows, RankIsBounded
<1>2. CASE j < i
    BY <1>2, RankGrows, RankIsBounded
<1> QED BY <1>1, <1>2 DEF Finite

\* Ranks are different and below the number of elements, so each rank is taken.
LEMMA IthHasItsRank ==
    ASSUME NEW S, Finite(S), NEW n \in 1..Cardinality(S)
    PROVE  Ith(S, n) \in S /\ Rank(Ith(S, n), S) = n - 1
<1> DEFINE T == 0..(Cardinality(S) - 1)
           f == [i \in S |-> Rank(i, S)]
<1>1. Cardinality(S) \in Nat
    BY FS_CardinalityType DEF Finite
<1>2. IsFiniteSet(T) /\ Cardinality(T) = Cardinality(S)
    <2>1. 0 \in Int /\ Cardinality(S) - 1 \in Int
        BY <1>1
    <2>2. IsFiniteSet(T) /\ Cardinality(T) = IF 0 > Cardinality(S) - 1 THEN 0 ELSE Cardinality(S) - 1 - 0 + 1
        BY <2>1, FS_Interval
    <2> QED BY <1>1, <2>2
<1>3. f \in Injection(S, T)
    <2>1. f \in [S -> T]
        BY RankIsBounded
    <2>2. \A i, j \in S : f[i] = f[j] => i = j
        BY RankIsInjective
    <2> QED BY <2>1, <2>2, Fun_IsInj
<1>4. f \in Surjection(S, T)
    BY <1>2, <1>3, FS_Injection DEF Finite
<1>5. \A m \in T : \E i \in S : f[i] = m
    <2> HIDE DEF f, T
    <2> QED BY <1>4, Fun_SurjectionProperties
<1>6. n - 1 \in T
    BY <1>1
<1>7. \E i \in S : Rank(i, S) = n - 1
    BY <1>5, <1>6
<1> QED BY <1>7 DEF Ith, Rank, Below

LEMMA RankFindsIth ==
    ASSUME NEW S, Finite(S), NEW i \in S
    PROVE  Rank(i, S) + 1 \in 1..Cardinality(S) /\ Ith(S, Rank(i, S) + 1) = i
<1>1. Cardinality(S) \in Nat
    BY FS_CardinalityType DEF Finite
<1>2. Rank(i, S) \in 0..(Cardinality(S) - 1)
    BY RankIsBounded
<1>3. Rank(i, S) + 1 \in 1..Cardinality(S)
    BY <1>1, <1>2
<1>4. Ith(S, Rank(i, S) + 1) \in S /\ Rank(Ith(S, Rank(i, S) + 1), S) = Rank(i, S)
    BY <1>2, <1>3, IthHasItsRank
<1> QED BY <1>3, <1>4, RankIsInjective

\* A poll reads rows behind the last id, in the order of their ids, and passes
\* over none of them before its last one.
IsPoll(messages, last) ==
    /\ messages \in Seq([id : Nat, version : Nat])
    /\ \A k \in DOMAIN messages :
        /\ messages[k].id \in DOMAIN rows /\ last < messages[k].id
        /\ messages[k].version = rows[messages[k].id].version
    /\ \A j, k \in DOMAIN messages : j < k => messages[j].id < messages[k].id
    /\ \A x \in DOMAIN rows : last < x => \A k \in DOMAIN messages :
        x < messages[k].id => \E j \in DOMAIN messages : j < k /\ messages[j].id = x

LEMMA PollsAreInOrder ==
    ASSUME TypeInv, FeedAssumption, NEW last \in Nat
    PROVE  IsPoll(get_positions_after_id(last), last)
<1> DEFINE S == After(last)
           size == Min({Limit, Cardinality(S)})
           m == get_positions_after_id(last)
<1>1. S \subseteq DOMAIN rows /\ Finite(S)
    <2>1. S \in SUBSET (1..lastId) /\ S \subseteq DOMAIN rows
        BY DEF TypeInv, After
    <2>2. 1 \in Int /\ lastId \in Int
        BY DEF TypeInv
    <2>3. IsFiniteSet(1..lastId)
        BY <2>2, FS_Interval
    <2>4. IsFiniteSet(S)
        BY <2>1, <2>3, FS_Subset
    <2>5. S \subseteq Nat
        BY <2>1
    <2> QED BY <2>1, <2>4, <2>5 DEF Finite
<1>2. Cardinality(S) \in Nat
    BY <1>1, FS_CardinalityType DEF Finite
<1>3. size \in Nat /\ size <= Cardinality(S)
    BY <1>2, SmallerOfTwo DEF FeedAssumption
<1>4. m = [k \in 1..size |-> Snapshot(Ith(S, k))]
    BY DEF get_positions_after_id, FirstRows
<1>5. \A x \in S : x \in DOMAIN rows /\ last < x /\ x \in Nat
    BY <1>1 DEF After, Finite
<1>6. \A x \in DOMAIN rows : last < x => x \in S
    BY DEF After
<1> HIDE DEF S, size, m
<1>7. \A k \in 1..size :
        /\ k \in 1..Cardinality(S) /\ k \in Nat
        /\ Ith(S, k) \in S /\ Rank(Ith(S, k), S) = k - 1
    <2>1. \A k \in 1..size : k \in 1..Cardinality(S) /\ k \in Nat
        BY <1>2, <1>3
    <2> QED BY <1>1, <2>1, IthHasItsRank
<1>8. \A k \in 1..size :
        m[k] = [id |-> Ith(S, k), version |-> rows[Ith(S, k)].version]
    BY <1>4 DEF Snapshot
<1>9. \A k \in 1..size :
        /\ m[k].id = Ith(S, k) /\ m[k].id \in DOMAIN rows /\ last < m[k].id
        /\ m[k].version = rows[m[k].id].version /\ m[k] \in [id : Nat, version : Nat]
    <2>1. \A x \in DOMAIN rows : rows[x].version \in Nat
        BY DEF TypeInv
    <2> SUFFICES ASSUME NEW k \in 1..size
                 PROVE  /\ m[k].id = Ith(S, k) /\ m[k].id \in DOMAIN rows /\ last < m[k].id
                        /\ m[k].version = rows[m[k].id].version
                        /\ m[k] \in [id : Nat, version : Nat]
        OBVIOUS
    <2>2. m[k] = [id |-> Ith(S, k), version |-> rows[Ith(S, k)].version]
        BY <1>8
    <2>3. m[k].id = Ith(S, k) /\ m[k].version = rows[Ith(S, k)].version
        BY <2>2
    <2>4. Ith(S, k) \in DOMAIN rows /\ last < Ith(S, k) /\ Ith(S, k) \in Nat
        BY <1>5, <1>7
    <2>5. m[k] \in [id : Nat, version : Nat]
        BY <2>1, <2>2, <2>4
    <2> QED BY <2>3, <2>4, <2>5
<1>10. m \in Seq([id : Nat, version : Nat]) /\ DOMAIN m = 1..size
    <2>1. DOMAIN m = 1..size
        BY <1>4
    <2>2. m \in [1..size -> [id : Nat, version : Nat]]
        BY <1>4, <1>9, <2>1
    <2> DEFINE M == [id : Nat, version : Nat]
    <2> HIDE DEF M
    <2>3. m \in [1..size -> M]
        BY <2>2 DEF M
    <2>4. m \in Seq(M)
        BY <1>3, <2>3, SeqDef
    <2> QED BY <2>1, <2>4 DEF M
<1>11. ASSUME NEW j \in 1..size, NEW k \in 1..size, j < k PROVE m[j].id < m[k].id
    <2>1. Ith(S, j) \in Nat /\ Ith(S, k) \in Nat /\ j \in Nat /\ k \in Nat
        BY <1>5, <1>7
    <2>2. CASE Ith(S, k) < Ith(S, j)
        <3>1. Rank(Ith(S, k), S) < Rank(Ith(S, j), S)
            BY <1>1, <1>7, <2>2, RankGrows
        <3> QED BY <1>7, <1>11, <2>1, <3>1
    <2>3. Ith(S, k) # Ith(S, j)
        BY <1>7, <1>11, <2>1
    <2> QED BY <1>9, <2>1, <2>2, <2>3
<1>12. ASSUME NEW x \in DOMAIN rows, last < x, NEW k \in 1..size, x < m[k].id
       PROVE  \E j \in 1..size : j < k /\ m[j].id = x
    <2>1. x \in S /\ Ith(S, k) \in S /\ x < Ith(S, k)
        BY <1>6, <1>7, <1>9, <1>12
    <2>2. Rank(x, S) + 1 \in 1..Cardinality(S) /\ Ith(S, Rank(x, S) + 1) = x
        BY <1>1, <2>1, RankFindsIth
    <2>3. Rank(x, S) < k - 1
        BY <1>1, <1>7, <2>1, RankGrows
    <2>4. Rank(x, S) \in Nat
        BY <1>1, <1>2, <2>1, RankIsBounded
    <2>5. Rank(x, S) + 1 \in 1..size /\ Rank(x, S) + 1 < k
        BY <1>2, <1>3, <1>7, <2>3, <2>4
    <2> QED BY <1>9, <2>2, <2>5
<1> QED
    <2>1. IsPoll(m, last)
        BY <1>9, <1>10, <1>11, <1>12 DEF IsPoll
    <2> QED BY <2>1 DEF m

-----------------------------------------------------------------------------
(* The processor and the table *)

LEMMA TailShifts ==
    ASSUME NEW T, NEW s \in Seq(T), s # <<>>
    PROVE  /\ Tail(s) \in Seq(T) /\ Head(s) = s[1] /\ s[1] \in T /\ 1 \in DOMAIN s
           /\ \A k \in DOMAIN Tail(s) :
                k \in Nat /\ k + 1 \in DOMAIN s /\ Tail(s)[k] = s[k + 1]
           /\ \A k \in DOMAIN s :
                k \in Nat \ {0} /\ (k # 1 => k - 1 \in DOMAIN Tail(s) /\ Tail(s)[k - 1] = s[k])
OBVIOUS

LEMMA AppendExtends ==
    ASSUME NEW T, NEW s \in Seq(T), NEW e \in T
    PROVE  /\ Append(s, e) \in Seq(T)
           /\ DOMAIN Append(s, e) = DOMAIN s \cup {Len(s) + 1} /\ Len(s) + 1 \notin DOMAIN s
           /\ Append(s, e)[Len(s) + 1] = e
           /\ \A k \in DOMAIN s : k \in Nat /\ k < Len(s) + 1 /\ Append(s, e)[k] = s[k]
OBVIOUS

LEMMA InitIInv == Init => IInv
<1> SUFFICES ASSUME Init PROVE IInv
    OBVIOUS
<1>1. rows = [i \in {} |-> 0] /\ sent = [i \in {} |-> 0] /\ DOMAIN rows = {} /\ DOMAIN sent = {}
    BY DEF Init
<1>2. TypeInv
    BY <1>1 DEF Init, TypeInv
<1>3. PhaseInv
    BY DEF Init, PhaseInv
<1>4. ~Running
    BY DEF Init, Running
<1>5. PollInv
    BY <1>4 DEF Init, PollInv
<1> QED BY <1>2, <1>3, <1>4, <1>5 DEF IInv, AheadInv, EventInv, VersionInv

LEMMA InsertIsFine ==
    ASSUME IInv, pending = 0, NEW a \in Aircraft, NEW t \in 1..MaxTime, InsertPosition(a, t),
           UNCHANGED <<local, position_queue, loopVars, startId, sent>>
    PROVE  IInv'
<1> USE DEF IInv, loopVars
<1>1. /\ lastId \in Nat /\ lastId' = lastId + 1 /\ pending' = lastId'
      /\ DOMAIN rows' = DOMAIN rows \cup {lastId'} /\ lastId' \notin DOMAIN rows
      /\ rows'[lastId'] = [aircraft |-> a, time |-> t, version |-> 1]
      /\ \A i \in DOMAIN rows : rows'[i] = rows[i]
    BY DEF InsertPosition, TypeInv
<1>2. TypeInv'
    <2>1. rows' = [i \in DOMAIN rows' |-> rows'[i]]
        BY <1>1 DEF InsertPosition
    <2>2. \A i \in DOMAIN rows' : rows'[i] \in [aircraft : Aircraft, time : 1..MaxTime, version : Nat]
        <3>1. rows'[lastId'] \in [aircraft : Aircraft, time : 1..MaxTime, version : Nat]
            BY <1>1
        <3> QED BY <1>1, <3>1 DEF TypeInv
    <2>3. rows' \in [DOMAIN rows' -> [aircraft : Aircraft, time : 1..MaxTime, version : Nat]]
        BY <2>1, <2>2
    <2>4. lastId' \in Nat /\ 1..lastId \subseteq 1..lastId' /\ 0..lastId \subseteq 0..lastId' /\ lastId' \in 1..lastId'
        BY <1>1
    <2>5. DOMAIN rows' \subseteq 1..lastId'
        BY <1>1, <2>4 DEF TypeInv
    <2> QED BY <1>1, <2>3, <2>4, <2>5 DEF TypeInv
<1>3. \A x \in Unsent' : x \in Unsent \/ x = lastId'
    BY <1>1 DEF Unsent
<1>4. \A i \in 0..lastId : i < lastId' /\ i # lastId'
    BY <1>1
<1>5. AheadInv'
    <2> SUFFICES ASSUME Running, NEW x \in Unsent'
                 PROVE  /\ last_position_id < x /\ position_id <= x
                        /\ \A k \in DOMAIN batch : x < batch[k].id =>
                              \E j \in DOMAIN batch : j < k /\ batch[j].id = x
        BY DEF AheadInv, Running
    <2>1. CASE x \in Unsent
        BY <2>1 DEF AheadInv
    <2>2. CASE x = lastId'
        BY <2>2, <1>1, <1>4 DEF TypeInv
    <2> QED BY <1>3, <2>1, <2>2
<1>6. EventInv'
    <2> SUFFICES ASSUME Running, local, NEW x \in Unsent'
                 PROVE  /\ InBatch(x) \/ position_id = x \/ InQueue(x) \/ pending' = x
                        /\ \A k \in DOMAIN position_queue : x < position_queue[k] =>
                              \/ InBatch(x) \/ position_id = x
                              \/ \E j \in DOMAIN position_queue : j < k /\ position_queue[j] = x
        BY DEF EventInv, Running, InBatch, InQueue
    <2>1. CASE x \in Unsent
        <3>1. x # 0
            BY <2>1 DEF TypeInv, Unsent
        <3> QED BY <2>1, <3>1 DEF EventInv
    <2>2. CASE x = lastId'
        BY <2>2, <1>1, <1>4 DEF TypeInv
    <2> QED BY <1>3, <2>1, <2>2
<1>7. PollInv' /\ PhaseInv'
    BY DEF PollInv, PhaseInv, Running
<1>8. VersionInv'
    <2> SUFFICES ASSUME Running, local, NEW id \in DOMAIN rows'
                 PROVE  UnderWay(id)' \/ IsCurrent(id)'
        BY DEF VersionInv, Running
    <2>1. CASE id \in DOMAIN rows
        <3>1. UnderWay(id) \/ IsCurrent(id)
            BY <2>1 DEF VersionInv
        <3>2. id # 0 /\ rows'[id] = rows[id]
            BY <1>1, <2>1 DEF TypeInv
        <3> QED BY <3>1, <3>2 DEF UnderWay, IsCurrent, InQueue, InBatch
    <2>2. CASE id = lastId'
        BY <1>1, <2>2 DEF UnderWay
    <2> QED BY <1>1, <2>1, <2>2
<1> QED BY <1>2, <1>5, <1>6, <1>7, <1>8

LEMMA UpdateIsFine ==
    ASSUME IInv, pending = 0, NEW a \in Aircraft, NEW t \in 1..MaxTime, UpdatePosition(a, t),
           UNCHANGED <<local, position_queue, loopVars, startId, sent>>
    PROVE  IInv'
<1> USE DEF IInv, loopVars
<1>1. PICK i \in DOMAIN rows :
        /\ rows' = [rows EXCEPT ![i].version = @ + 1] /\ pending' = i /\ UNCHANGED lastId
    BY DEF UpdatePosition
<1>2. /\ DOMAIN rows' = DOMAIN rows /\ i \in 1..lastId
      /\ \A j \in DOMAIN rows : j # i => rows'[j] = rows[j]
      /\ rows'[i] = [rows[i] EXCEPT !.version = @ + 1]
    BY <1>1 DEF TypeInv
<1>3. TypeInv'
    <2> DEFINE R == [aircraft : Aircraft, time : 1..MaxTime, version : Nat]
    <2>1. rows[i] \in R /\ rows'[i] \in R
        <3>1. rows[i] \in R
            BY DEF TypeInv
        <3> QED BY <1>2, <3>1
    <2>2. \A j \in DOMAIN rows : rows'[j] \in R
        BY <1>2, <2>1 DEF TypeInv
    <2>3. rows' = [j \in DOMAIN rows |-> rows'[j]]
        BY <1>1 DEF TypeInv
    <2>4. rows' \in [DOMAIN rows' -> R]
        BY <1>2, <2>2, <2>3
    <2>5. i \in 0..lastId
        BY <1>2 DEF TypeInv
    <2> QED BY <1>1, <1>2, <2>4, <2>5 DEF TypeInv
<1>4. Unsent' = Unsent /\ 0 \notin DOMAIN rows
    BY <1>2 DEF Unsent, TypeInv
<1>5. AheadInv' /\ PollInv' /\ PhaseInv'
    BY <1>4 DEF AheadInv, PollInv, PhaseInv, Running
<1>6. EventInv'
    <2>1. \A x \in Unsent : x # pending
        BY <1>4 DEF Unsent
    <2> QED BY <1>4, <2>1 DEF EventInv, Running, InBatch, InQueue
<1>7. VersionInv'
    <2> SUFFICES ASSUME Running, local, NEW id \in DOMAIN rows, id # i
                 PROVE  UnderWay(id)' \/ IsCurrent(id)'
        BY <1>1, <1>2 DEF VersionInv, Running, UnderWay
    <2>1. UnderWay(id) \/ IsCurrent(id)
        BY DEF VersionInv
    <2>2. id # pending /\ rows'[id] = rows[id]
        BY <1>2, <1>4
    <2> QED BY <2>1, <2>2 DEF UnderWay, IsCurrent, InQueue, InBatch
<1> QED BY <1>3, <1>5, <1>6, <1>7

LEMMA PublishIsFine == IInv /\ publish_position_event => IInv'
<1> SUFFICES ASSUME IInv, publish_position_event PROVE IInv'
    OBVIOUS
<1> USE DEF IInv, loopVars, tableVars
<1>1. /\ pending # 0 /\ pending' = 0
      /\ UNCHANGED <<local, tableVars, loopVars, startId, sent>>
    BY DEF publish_position_event
<1>2. CASE ~local
    <2>1. UNCHANGED position_queue
        BY <1>2 DEF publish_position_event
    <2>2. TypeInv'
        BY <1>1, <2>1 DEF TypeInv
    <2> QED BY <1>1, <1>2, <2>1, <2>2 DEF PhaseInv, AheadInv, EventInv, PollInv, VersionInv, Running, Unsent
<1>3. CASE local
    <2>1. position_queue' = Append(position_queue, pending)
        BY <1>3 DEF publish_position_event
    <2>2. /\ position_queue' \in Seq(Nat)
          /\ DOMAIN position_queue' = DOMAIN position_queue \cup {Len(position_queue) + 1}
          /\ position_queue'[Len(position_queue) + 1] = pending
          /\ \A k \in DOMAIN position_queue :
                /\ k \in Nat /\ k < Len(position_queue) + 1
                /\ position_queue'[k] = position_queue[k]
        BY <2>1, AppendExtends DEF TypeInv
    <2>3. pending \in 1..lastId
        BY <1>1 DEF TypeInv
    <2>4. TypeInv'
        BY <1>1, <2>2, <2>3 DEF TypeInv
    <2>5. \A x : InQueue(x) \/ pending = x => InQueue(x)'
        BY <2>2 DEF InQueue
    <2>6. Unsent' = Unsent
        BY <1>1 DEF Unsent
    <2>7. PhaseInv' /\ AheadInv' /\ PollInv'
        BY <1>1, <1>3, <2>6 DEF PhaseInv, AheadInv, PollInv, Running
    <2>8. EventInv'
        <3> SUFFICES ASSUME Running, NEW x \in Unsent
                     PROVE  /\ InBatch(x) \/ position_id = x \/ InQueue(x)'
                            /\ \A k \in DOMAIN position_queue' : x < position_queue'[k] =>
                                  \/ InBatch(x) \/ position_id = x
                                  \/ \E j \in DOMAIN position_queue' : j < k /\ position_queue'[j] = x
            BY <1>1, <2>6 DEF EventInv, Running, InBatch
        <3>1. InBatch(x) \/ position_id = x \/ InQueue(x)'
            BY <1>3, <2>5 DEF EventInv
        <3>2. ASSUME NEW k \in DOMAIN position_queue', x < position_queue'[k]
              PROVE  \/ InBatch(x) \/ position_id = x
                     \/ \E j \in DOMAIN position_queue' : j < k /\ position_queue'[j] = x
            <4>1. CASE k \in DOMAIN position_queue
                BY <1>3, <2>2, <3>2, <4>1 DEF EventInv
            <4>2. CASE k = Len(position_queue) + 1
                <5>1. x # pending
                    BY <2>2, <2>3, <3>2, <4>2 DEF TypeInv
                <5>2. InBatch(x) \/ position_id = x \/ InQueue(x)
                    BY <1>3, <5>1 DEF EventInv
                <5> QED BY <2>2, <4>2, <5>2 DEF InQueue
            <4> QED BY <2>2, <4>1, <4>2
        <3> QED BY <3>1, <3>2
    <2>9. VersionInv'
        BY <1>1, <1>3, <2>5 DEF VersionInv, Running, UnderWay, IsCurrent, InBatch
    <2> QED BY <2>4, <2>7, <2>8, <2>9
<1> QED BY <1>2, <1>3 DEF TypeInv

LEMMA CleanupIsFine == IInv /\ cleanup_old_data => IInv'
<1> SUFFICES ASSUME IInv, cleanup_old_data PROVE IInv'
    OBVIOUS
<1> USE DEF IInv, loopVars
<1>1. PICK cutoff \in 2..MaxTime + 1 :
        rows' = Restrict(rows, {i \in DOMAIN rows : rows[i].time >= cutoff})
    BY DEF cleanup_old_data
<1>2. UNCHANGED <<local, lastId, pending, position_queue, loopVars, startId, sent>>
    BY DEF cleanup_old_data
<1>3. DOMAIN rows' \subseteq DOMAIN rows /\ \A i \in DOMAIN rows' : rows'[i] = rows[i]
    BY <1>1 DEF Restrict
<1>4. TypeInv'
    <2>1. rows' = [i \in DOMAIN rows' |-> rows'[i]]
        BY <1>1 DEF Restrict
    <2>2. rows' \in [DOMAIN rows' -> [aircraft : Aircraft, time : 1..MaxTime, version : Nat]]
        BY <1>3, <2>1 DEF TypeInv
    <2> QED BY <1>2, <1>3, <2>2 DEF TypeInv
<1>5. Unsent' \subseteq Unsent
    BY <1>2, <1>3 DEF Unsent
<1>6. PhaseInv' /\ PollInv' /\ AheadInv'
    BY <1>2, <1>5 DEF PhaseInv, PollInv, AheadInv, Running
<1>7. EventInv'
    BY <1>2, <1>5 DEF EventInv, Running, InBatch, InQueue
<1>8. VersionInv'
    BY <1>2, <1>3 DEF VersionInv, Running, UnderWay, IsCurrent, InBatch, InQueue
<1> QED BY <1>4, <1>6, <1>7, <1>8

-----------------------------------------------------------------------------
(* The broadcaster *)

LEMMA StartIsFine == IInv /\ StartBroadcaster => IInv'
<1> SUFFICES ASSUME IInv, StartBroadcaster PROVE IInv'
    OBVIOUS
<1> USE DEF IInv, tableVars
<1>1. /\ phase = "off" /\ phase' = "waiting" /\ startId' = lastId
      /\ UNCHANGED <<local, tableVars, pending, position_queue, position_id, batch, sent>>
    BY DEF StartBroadcaster
<1>2. last_position_id' \in 0..lastId
    <2>1. PICK cutoff \in 1..MaxTime + 1 :
            last_position_id' \in IF Newest(cutoff) = {} THEN {0} ELSE Newest(cutoff)
        BY DEF StartBroadcaster
    <2>2. Newest(cutoff) \subseteq DOMAIN rows
        BY DEF Newest
    <2> QED BY <2>1, <2>2 DEF TypeInv
<1>3. TypeInv'
    BY <1>1, <1>2 DEF TypeInv
<1>4. DOMAIN sent = {} /\ DOMAIN sent' = {} /\ batch' = <<>> /\ batch = <<>>
    BY <1>1 DEF PhaseInv
<1>5. PhaseInv'
    BY <1>1, <1>4 DEF PhaseInv
<1>6. Unsent' = {}
    BY <1>1 DEF Unsent, TypeInv
<1>7. AheadInv' /\ EventInv'
    BY <1>6 DEF AheadInv, EventInv
<1>8. PollInv'
    BY <1>1, <1>4 DEF PollInv
<1>9. VersionInv'
    BY <1>1, <1>4 DEF VersionInv, IsCurrent
<1> QED BY <1>3, <1>5, <1>7, <1>8, <1>9

LEMMA TakeEventIsFine == IInv /\ TakeEvent => IInv'
<1> SUFFICES ASSUME IInv, TakeEvent PROVE IInv'
    OBVIOUS
<1> USE DEF IInv, tableVars
<1>1. /\ phase = "waiting" /\ phase' = "reading" /\ position_queue # <<>>
      /\ position_id' = Head(position_queue) /\ position_queue' = Tail(position_queue)
      /\ UNCHANGED <<local, tableVars, pending, batch, last_position_id, startId, sent>>
    BY DEF TakeEvent
<1>2. /\ position_queue' \in Seq(Nat) /\ position_id' = position_queue[1]
      /\ 1 \in DOMAIN position_queue
      /\ \A k \in DOMAIN position_queue' :
            k \in Nat /\ k + 1 \in DOMAIN position_queue /\ position_queue'[k] = position_queue[k + 1]
      /\ \A k \in DOMAIN position_queue :
            /\ k \in Nat \ {0}
            /\ k # 1 => k - 1 \in DOMAIN position_queue' /\ position_queue'[k - 1] = position_queue[k]
    BY <1>1, TailShifts DEF TypeInv
<1>3. position_id' \in 1..lastId
    BY <1>2 DEF TypeInv
<1>4. TypeInv'
    <2>1. \A k \in DOMAIN position_queue' : position_queue'[k] \in 1..lastId
        BY <1>2 DEF TypeInv
    <2> QED BY <1>1, <1>2, <1>3, <2>1 DEF TypeInv
<1>5. batch = <<>> /\ position_id = 0
    BY <1>1 DEF PhaseInv
<1>6. PhaseInv'
    BY <1>1, <1>5 DEF PhaseInv
<1>7. local
    BY <1>1 DEF PollInv
<1>8. Unsent' = Unsent /\ 0 \notin Unsent /\ Running /\ Unsent \subseteq Nat
    BY <1>1 DEF Unsent, Running, TypeInv
<1>9. \A x : ~InBatch(x)
    BY <1>5 DEF InBatch
<1>10. ASSUME NEW x \in Unsent, NEW k \in DOMAIN position_queue, x < position_queue[k]
       PROVE  \E j \in DOMAIN position_queue : j < k /\ position_queue[j] = x
    BY <1>5, <1>7, <1>8, <1>9, <1>10 DEF EventInv
<1>11. AheadInv'
    <2> SUFFICES ASSUME NEW x \in Unsent
                 PROVE  last_position_id < x /\ position_id' <= x
        BY <1>1, <1>5, <1>8 DEF AheadInv
    <2>1. ~(x < position_queue[1])
        BY <1>2, <1>10
    <2>2. position_id' <= x
        BY <1>2, <1>3, <1>8, <2>1
    <2> QED BY <1>8, <2>2 DEF AheadInv
<1>12. \A x : InQueue(x) => InQueue(x)' \/ position_id' = x
    BY <1>2 DEF InQueue
<1>13. EventInv'
    <2> SUFFICES ASSUME NEW x \in Unsent
                 PROVE  /\ position_id' = x \/ InQueue(x)' \/ pending = x
                        /\ \A k \in DOMAIN position_queue' : x < position_queue'[k] =>
                              \/ position_id' = x
                              \/ \E j \in DOMAIN position_queue' : j < k /\ position_queue'[j] = x
        BY <1>1, <1>8 DEF EventInv
    <2>1. position_id' = x \/ InQueue(x)' \/ pending = x
        BY <1>5, <1>7, <1>8, <1>9, <1>12 DEF EventInv
    <2>2. ASSUME NEW k \in DOMAIN position_queue', x < position_queue'[k]
          PROVE  \/ position_id' = x
                 \/ \E j \in DOMAIN position_queue' : j < k /\ position_queue'[j] = x
        <3>1. k + 1 \in DOMAIN position_queue /\ x < position_queue[k + 1] /\ k \in Nat
            BY <1>2, <2>2
        <3>2. PICK j \in DOMAIN position_queue : j < k + 1 /\ position_queue[j] = x
            BY <1>10, <3>1
        <3>3. CASE j = 1
            BY <1>2, <3>2, <3>3
        <3>4. CASE j # 1
            <4>1. j - 1 \in DOMAIN position_queue' /\ position_queue'[j - 1] = x /\ j - 1 < k
                BY <1>2, <3>1, <3>2, <3>4
            <4> QED BY <4>1
        <3> QED BY <3>3, <3>4
    <2> QED BY <2>1, <2>2
<1>14. PollInv'
    BY <1>1, <1>7 DEF PollInv
<1>15. VersionInv'
    <2>1. 0 \notin DOMAIN rows
        BY DEF TypeInv
    <2> QED BY <1>1, <1>5, <1>7, <1>8, <1>12, <2>1
        DEF VersionInv, Running, UnderWay, IsCurrent, InBatch
<1> QED BY <1>4, <1>6, <1>11, <1>13, <1>14, <1>15

LEMMA EventTimeoutIsFine == IInv /\ EventTimeout => IInv'
<1> SUFFICES ASSUME IInv, EventTimeout PROVE IInv'
    OBVIOUS
<1> USE DEF IInv, tableVars
<1>1. /\ phase = "waiting" /\ phase' = "polling"
      /\ UNCHANGED <<local, tableVars, pending, position_queue, position_id, batch,
                     last_position_id, startId, sent>>
    BY DEF EventTimeout
<1>2. TypeInv' /\ PhaseInv'
    BY <1>1 DEF TypeInv, PhaseInv
<1>3. Unsent' = Unsent /\ Running
    BY <1>1 DEF Unsent, Running
<1>4. AheadInv' /\ PollInv'
    BY <1>1, <1>3 DEF AheadInv, PollInv
<1>5. EventInv'
    BY <1>1, <1>3 DEF EventInv, InBatch, InQueue
<1>6. VersionInv'
    BY <1>1, <1>3 DEF VersionInv, UnderWay, IsCurrent, InBatch, InQueue
<1> QED BY <1>2, <1>4, <1>5, <1>6

LEMMA ReadEventIsFine == IInv /\ ReadEvent => IInv'
<1> SUFFICES ASSUME IInv, ReadEvent PROVE IInv'
    OBVIOUS
<1> USE DEF IInv, tableVars
<1>1. /\ phase = "reading" /\ position_id' = 0
      /\ batch' = IF position_id \in DOMAIN rows THEN <<Snapshot(position_id)>> ELSE <<>>
      /\ phase' = IF batch' = <<>> THEN "waiting" ELSE "emitting"
      /\ UNCHANGED <<local, tableVars, pending, position_queue, last_position_id, startId, sent>>
    BY DEF ReadEvent, Hold
<1>2. batch = <<>> /\ local /\ Running
    BY <1>1 DEF PhaseInv, PollInv, Running
<1>3. Unsent' = Unsent /\ Unsent \subseteq DOMAIN rows /\ Unsent \subseteq Nat
    BY <1>1 DEF Unsent, TypeInv
<1>4. CASE position_id \in DOMAIN rows
    <2>1. batch' = <<Snapshot(position_id)>> /\ phase' = "emitting"
        BY <1>1, <1>4
    <2>2. /\ DOMAIN batch' = {1} /\ batch'[1].id = position_id
          /\ batch'[1].version = rows[position_id].version
          /\ batch'[1] \in [id : Nat, version : Nat]
        BY <1>4, <2>1 DEF Snapshot, TypeInv
    <2>3. TypeInv'
        <3>1. batch' \in Seq([id : Nat, version : Nat]) /\ batch'[1].id \in 1..lastId
            BY <1>4, <2>1, <2>2 DEF TypeInv
        <3> QED BY <1>1, <2>2, <3>1 DEF TypeInv
    <2>4. PhaseInv'
        BY <1>1, <2>1, <2>2 DEF PhaseInv
    <2>5. AheadInv'
        <3>1. \A x \in Unsent : last_position_id < x /\ position_id <= x /\ 0 <= x
            BY <1>2, <1>3 DEF AheadInv
        <3>2. \A x \in Unsent : ~(x < position_id)
            BY <1>3, <3>1 DEF TypeInv
        <3> QED BY <1>1, <1>3, <2>2, <3>1, <3>2 DEF AheadInv
    <2>6. \A x : InBatch(x)' <=> x = position_id
        BY <2>2 DEF InBatch
    <2>7. \A x : ~InBatch(x)
        BY <1>2 DEF InBatch
    <2>8. EventInv'
        BY <1>1, <1>2, <1>3, <2>6, <2>7 DEF EventInv, InQueue
    <2>9. VersionInv'
        <3> SUFFICES ASSUME NEW id \in DOMAIN rows PROVE UnderWay(id)' \/ IsCurrent(id)'
            BY <1>1 DEF VersionInv
        <3>1. CASE id = position_id
            BY <1>1, <2>2, <2>6, <3>1 DEF IsCurrent
        <3>2. CASE id # position_id
            <4>1. UnderWay(id) \/ IsCurrent(id)
                BY <1>2 DEF VersionInv
            <4>2. UnderWay(id) => UnderWay(id)'
                BY <1>1, <3>2 DEF UnderWay, InQueue
            <4>3. IsCurrent(id) => IsCurrent(id)'
                BY <1>1, <2>2, <2>7, <3>2 DEF IsCurrent
            <4> QED BY <4>1, <4>2, <4>3
        <3> QED BY <3>1, <3>2
    <2> QED BY <1>1, <1>2, <2>3, <2>4, <2>5, <2>8, <2>9 DEF PollInv
<1>5. CASE position_id \notin DOMAIN rows
    <2>1. batch' = <<>> /\ phase' = "waiting"
        BY <1>1, <1>5
    <2>2. TypeInv' /\ PhaseInv'
        BY <1>1, <2>1 DEF TypeInv, PhaseInv
    <2>3. AheadInv'
        BY <1>1, <1>2, <1>3, <2>1 DEF AheadInv
    <2>4. \A x \in DOMAIN rows : x # position_id
        BY <1>5
    <2>5. EventInv'
        BY <1>1, <1>2, <1>3, <2>1, <2>4 DEF EventInv, InQueue, InBatch
    <2>6. VersionInv'
        BY <1>1, <1>2, <2>1, <2>4 DEF VersionInv, UnderWay, IsCurrent, InQueue, InBatch
    <2> QED BY <1>1, <1>2, <2>2, <2>3, <2>5, <2>6 DEF PollInv
<1> QED BY <1>4, <1>5

LEMMA PollIsFine == FeedAssumption /\ IInv /\ Poll => IInv'
<1> SUFFICES ASSUME FeedAssumption, IInv, Poll PROVE IInv'
    OBVIOUS
<1> USE DEF IInv, tableVars
<1>1. /\ phase = "polling" /\ batch' = get_positions_after_id(last_position_id)
      /\ phase' = IF batch' = <<>> THEN "waiting" ELSE "emitting"
      /\ UNCHANGED <<local, tableVars, pending, position_queue, position_id,
                     last_position_id, startId, sent>>
    BY DEF Poll, Hold
<1>2. IsPoll(batch', last_position_id)
    BY <1>1, PollsAreInOrder DEF TypeInv
<1>3. batch = <<>> /\ position_id = 0 /\ Running
    BY <1>1 DEF PhaseInv, Running
<1>4. Unsent' = Unsent /\ Unsent \subseteq DOMAIN rows
    BY <1>1 DEF Unsent
<1>5. TypeInv'
    BY <1>1, <1>2 DEF TypeInv, IsPoll
<1>6. PhaseInv'
    BY <1>1, <1>3 DEF PhaseInv
<1>7. AheadInv'
    <2>1. \A x \in Unsent : last_position_id < x /\ position_id <= x
        BY <1>3 DEF AheadInv
    <2> QED BY <1>1, <1>2, <1>4, <2>1 DEF AheadInv, IsPoll
<1>8. \A x : ~InBatch(x)
    BY <1>3 DEF InBatch
<1>9. EventInv'
    BY <1>1, <1>3, <1>4, <1>8 DEF EventInv, InQueue
<1>10. PollInv'
    BY <1>1, <1>2, <1>3 DEF PollInv, IsPoll
<1>11. VersionInv'
    BY <1>1, <1>2, <1>3, <1>8 DEF VersionInv, UnderWay, IsCurrent, InQueue, IsPoll
<1> QED BY <1>5, <1>6, <1>7, <1>9, <1>10, <1>11

LEMMA EmitIsFine == IInv /\ Emit => IInv'
<1> SUFFICES ASSUME IInv, Emit PROVE IInv'
    OBVIOUS
<1> USE DEF IInv, tableVars
<1> DEFINE M == [id : Nat, version : Nat]
           message == Head(batch)
<1>1. /\ phase = "emitting" /\ batch' = Tail(batch)
      /\ phase' = IF batch' = <<>> THEN "waiting" ELSE "emitting"
      /\ last_position_id' = Max({last_position_id, message.id})
      /\ DOMAIN sent' = DOMAIN sent \cup {message.id}
      /\ sent' = [i \in DOMAIN sent' |-> sent'[i]]
      /\ \A i \in DOMAIN sent' : sent'[i] = IF i = message.id THEN message.version ELSE sent[i]
      /\ UNCHANGED <<local, tableVars, pending, position_queue, position_id, startId>>
    BY DEF Emit, Hold, Advance
<1>2. batch # <<>> /\ Running /\ Running' /\ position_id = 0
    BY <1>1 DEF PhaseInv, Running
<1>3. /\ batch' \in Seq(M) /\ message = batch[1] /\ message \in M /\ 1 \in DOMAIN batch
      /\ \A k \in DOMAIN batch' : k \in Nat /\ k + 1 \in DOMAIN batch /\ batch'[k] = batch[k + 1]
      /\ \A k \in DOMAIN batch :
            /\ k \in Nat \ {0}
            /\ k # 1 => k - 1 \in DOMAIN batch' /\ batch'[k - 1] = batch[k]
    <2> HIDE DEF M
    <2>1. batch \in Seq(M)
        BY DEF TypeInv, M
    <2> QED BY <1>1, <1>2, <2>1, TailShifts
<1> HIDE DEF message
<1>4. /\ last_position_id' \in {last_position_id, message.id}
      /\ last_position_id <= last_position_id' /\ message.id <= last_position_id'
    <2>1. last_position_id \in Nat /\ message.id \in Nat
        BY <1>3 DEF TypeInv
    <2> QED BY <1>1, <2>1, LargerOfTwo
<1>5. message.id \in 1..lastId /\ message.version \in Nat
    BY <1>3 DEF TypeInv
<1>6. TypeInv'
    <2>1. sent' \in [DOMAIN sent' -> Nat] /\ DOMAIN sent' \subseteq 1..lastId
        BY <1>1, <1>5 DEF TypeInv
    <2>2. \A k \in DOMAIN batch' : batch'[k].id \in 1..lastId
        BY <1>3 DEF TypeInv
    <2>3. last_position_id' \in 0..lastId
        BY <1>4, <1>5 DEF TypeInv
    <2> QED BY <1>1, <1>3, <2>1, <2>2, <2>3 DEF TypeInv
<1>7. PhaseInv'
    BY <1>1, <1>2 DEF PhaseInv
<1>8. \A x \in Unsent' : x \in Unsent /\ x # message.id /\ x \in Nat
    BY <1>1 DEF Unsent, TypeInv
<1>9. \A x : InBatch(x) => x = message.id \/ InBatch(x)'
    BY <1>3 DEF InBatch
<1>10. AheadInv'
    <2> SUFFICES ASSUME NEW x \in Unsent'
                 PROVE  /\ last_position_id' < x /\ position_id <= x
                        /\ \A k \in DOMAIN batch' : x < batch'[k].id =>
                              \E j \in DOMAIN batch' : j < k /\ batch'[j].id = x
        BY <1>1 DEF AheadInv
    <2>1. /\ last_position_id < x /\ position_id <= x
          /\ \A k \in DOMAIN batch : x < batch[k].id =>
                \E j \in DOMAIN batch : j < k /\ batch[j].id = x
        BY <1>2, <1>8 DEF AheadInv
    <2>2. ~(x < message.id)
        BY <1>3, <2>1
    <2>3. last_position_id' < x
        BY <1>4, <1>5, <1>8, <2>1, <2>2
    <2>4. ASSUME NEW k \in DOMAIN batch', x < batch'[k].id
          PROVE  \E j \in DOMAIN batch' : j < k /\ batch'[j].id = x
        <3>1. k + 1 \in DOMAIN batch /\ x < batch[k + 1].id /\ k \in Nat
            BY <1>3, <2>4
        <3>2. PICK j \in DOMAIN batch : j < k + 1 /\ batch[j].id = x
            BY <2>1, <3>1
        <3>3. j # 1
            BY <1>3, <1>8, <3>2
        <3>4. j \in Nat \ {0} /\ j - 1 \in DOMAIN batch' /\ batch'[j - 1] = batch[j]
            BY <1>3, <3>3
        <3>5. j - 1 < k
            BY <3>1, <3>2, <3>4
        <3> QED BY <3>2, <3>4, <3>5
    <2> QED BY <2>1, <2>3, <2>4
<1>11. EventInv'
    BY <1>1, <1>2, <1>8, <1>9 DEF EventInv, InQueue
<1>12. PollInv'
    <2> SUFFICES ASSUME ~local
                 PROVE  /\ \A id \in DOMAIN sent' : id <= last_position_id'
                        /\ \A k \in DOMAIN batch' : last_position_id' < batch'[k].id
                        /\ \A j, k \in DOMAIN batch' : j < k => batch'[j].id < batch'[k].id
        BY <1>1 DEF PollInv
    <2>1. last_position_id < message.id
        BY <1>2, <1>3 DEF PollInv
    <2>2. last_position_id' = message.id
        BY <1>4, <1>5, <2>1 DEF TypeInv
    <2>3. \A id \in DOMAIN sent' : id <= last_position_id'
        <3>1. \A id \in DOMAIN sent : id <= last_position_id /\ id \in Nat
            BY <1>2 DEF PollInv, TypeInv
        <3>2. last_position_id \in Nat /\ message.id \in Nat
            BY <1>5 DEF TypeInv
        <3>3. \A id \in DOMAIN sent : id <= message.id
            BY <2>1, <3>1, <3>2
        <3>4. \A id \in DOMAIN sent' : id \in DOMAIN sent \/ id = message.id
            BY <1>1
        <3> QED BY <2>2, <3>2, <3>3, <3>4
    <2>4. \A j, k \in DOMAIN batch : j < k => batch[j].id < batch[k].id
        BY <1>2 DEF PollInv
    <2>5. \A k \in DOMAIN batch' : last_position_id' < batch'[k].id
        <3>1. \A k \in DOMAIN batch' : 1 < k + 1
            <4>1. \A k \in DOMAIN batch' : k + 1 \in Nat \ {0} /\ k \in Nat \ {0}
                BY <1>3
            <4> QED BY <4>1
        <3> QED BY <1>3, <2>2, <2>4, <3>1
    <2>6. \A j, k \in DOMAIN batch' : j < k => batch'[j].id < batch'[k].id
        <3> SUFFICES ASSUME NEW j \in DOMAIN batch', NEW k \in DOMAIN batch', j < k
                     PROVE  batch'[j].id < batch'[k].id
            OBVIOUS
        <3>1. /\ j + 1 \in DOMAIN batch /\ k + 1 \in DOMAIN batch /\ j + 1 < k + 1
              /\ batch'[j] = batch[j + 1] /\ batch'[k] = batch[k + 1]
            BY <1>3
        <3> QED BY <2>4, <3>1
    <2> QED BY <2>3, <2>5, <2>6
<1>13. VersionInv'
    <2> SUFFICES ASSUME local, NEW id \in DOMAIN rows PROVE UnderWay(id)' \/ IsCurrent(id)'
        BY <1>1 DEF VersionInv
    <2>1. UnderWay(id) \/ IsCurrent(id)
        BY <1>2 DEF VersionInv
    <2>2. UnderWay(id) => UnderWay(id)'
        BY <1>1 DEF UnderWay, InQueue
    <2>3. ASSUME IsCurrent(id) PROVE IsCurrent(id)'
        <3>1. \A k \in DOMAIN batch' : batch'[k].id = id => batch'[k].version = rows[id].version
            BY <1>3, <2>3 DEF IsCurrent
        <3>2. CASE id = message.id
            BY <1>1, <1>3, <2>3, <3>1, <3>2 DEF IsCurrent
        <3>3. CASE id # message.id
            BY <1>1, <1>9, <2>3, <3>1, <3>3 DEF IsCurrent
        <3> QED BY <3>2, <3>3
    <2> QED BY <2>1, <2>2, <2>3
<1> QED BY <1>6, <1>7, <1>10, <1>11, <1>12, <1>13

LEMMA RaisesIsFine == IInv /\ BroadcasterRaises => IInv'
<1> SUFFICES ASSUME IInv, BroadcasterRaises PROVE IInv'
    OBVIOUS
<1>1. /\ phase' = "dead" /\ position_id' = 0 /\ batch' = <<>> /\ last_position_id' = 0
      /\ UNCHANGED <<local, tableVars, pending, position_queue, startId, sent>>
    BY DEF BroadcasterRaises
<1>2. TypeInv'
    BY <1>1 DEF IInv, TypeInv, tableVars
<1>3. PhaseInv' /\ PollInv' /\ ~Running'
    BY <1>1 DEF IInv, PhaseInv, PollInv, Running
<1> QED BY <1>2, <1>3 DEF IInv, AheadInv, EventInv, VersionInv

LEMMA NextIInv == FeedAssumption /\ IInv /\ [Next]_vars => IInv'
<1> SUFFICES ASSUME FeedAssumption, IInv, [Next]_vars PROVE IInv'
    OBVIOUS
<1>1. CASE store_position
    BY <1>1, InsertIsFine, UpdateIsFine DEF store_position
<1>2. CASE publish_position_event
    BY <1>2, PublishIsFine
<1>3. CASE cleanup_old_data
    BY <1>3, CleanupIsFine
<1>4. CASE StartBroadcaster
    BY <1>4, StartIsFine
<1>5. CASE Broadcast
    BY <1>5, TakeEventIsFine, EventTimeoutIsFine, ReadEventIsFine, PollIsFine, EmitIsFine
       DEF Broadcast
<1>6. CASE BroadcasterRaises
    BY <1>6, RaisesIsFine
<1>7. CASE UNCHANGED vars
    <2>1. UNCHANGED <<local, rows, lastId, pending, position_queue, phase, position_id,
                      batch, last_position_id, startId, sent>>
        BY <1>7 DEF vars, tableVars, loopVars
    <2>2. TypeInv' /\ PhaseInv' /\ PollInv'
        BY <2>1 DEF IInv, TypeInv, PhaseInv, PollInv, Running
    <2>3. AheadInv' /\ EventInv' /\ VersionInv'
        BY <2>1 DEF IInv, AheadInv, EventInv, VersionInv, Running, Unsent, InBatch, InQueue,
           UnderWay, IsCurrent
    <2> QED BY <2>2, <2>3 DEF IInv
<1> QED BY <1>1, <1>2, <1>3, <1>4, <1>5, <1>6, <1>7 DEF Next

LEMMA Invariance == Spec => []IInv
BY InitIInv, NextIInv, FeedAssumption, PTL DEF Spec

-----------------------------------------------------------------------------
(* The theorems *)

\* Every row up to the last id that was stored after the broadcaster started was
\* emitted, for any interleaving of storage, events, polls and deletions
\* (rest_api.py:822-842).
THEOREM NothingIsSkipped == Spec => []NothingSkipped
<1>1. IInv => NothingSkipped
    <2> SUFFICES ASSUME IInv, NEW id \in DOMAIN rows, startId < id, id <= last_position_id
                 PROVE  id \in DOMAIN sent
        BY DEF NothingSkipped
    <2>1. id \in 1..lastId /\ last_position_id \in Nat
        BY DEF IInv, TypeInv
    <2>2. Running
        BY <2>1 DEF IInv, PhaseInv, Running
    <2>3. ~(last_position_id < id)
        BY <2>1
    <2> QED BY <2>2, <2>3 DEF IInv, AheadInv, Unsent
<1> QED BY <1>1, Invariance, PTL

\* Between processes a broadcaster emits a position at most once, and in the order of
\* the ids (rest_api.py:834-842).
THEOREM PollsAreOrdered == Spec => PolledInOrder
<1>1. IInv /\ [Next]_vars =>
        [~local /\ phase = "emitting" /\ batch' = Tail(batch) /\ phase' # "dead" =>
            \A id \in DOMAIN sent : id < Head(batch).id]_vars
    <2> SUFFICES ASSUME IInv, ~local, phase = "emitting", NEW id \in DOMAIN sent
                 PROVE  id < Head(batch).id
        OBVIOUS
    <2>1. Running /\ batch # <<>> /\ batch \in Seq([id : Nat, version : Nat])
        BY DEF IInv, PhaseInv, Running, TypeInv
    <2>2. Head(batch) = batch[1] /\ 1 \in DOMAIN batch /\ batch[1].id \in Nat
        <3> DEFINE M == [id : Nat, version : Nat]
        <3>1. \A m \in M : m.id \in Nat
            OBVIOUS
        <3> HIDE DEF M
        <3>2. batch \in Seq(M)
            BY <2>1 DEF M
        <3>3. Head(batch) = batch[1] /\ 1 \in DOMAIN batch /\ batch[1] \in M
            BY <2>1, <3>2, TailShifts
        <3> QED BY <3>1, <3>3
    <2>3. id <= last_position_id /\ last_position_id < batch[1].id
        BY <2>1, <2>2 DEF IInv, PollInv
    <2>4. id \in Nat /\ last_position_id \in Nat
        BY DEF IInv, TypeInv
    <2> QED BY <2>2, <2>3, <2>4
<1> QED BY <1>1, Invariance, PTL DEF Spec, PolledInOrder

\* In one process what was last emitted of a row is what the table holds, as soon as
\* no event is left (database.py:506-507).
THEOREM SubscribersAgree == Spec => []SubscribersConverge
<1>1. IInv => SubscribersConverge
    <2> SUFFICES ASSUME IInv, local, pending = 0, position_queue = <<>>, phase = "waiting",
                        NEW id \in DOMAIN rows \cap DOMAIN sent
                 PROVE  sent[id] = rows[id].version
        BY DEF SubscribersConverge
    <2>1. batch = <<>> /\ position_id = 0 /\ Running /\ id # 0
        BY DEF IInv, PhaseInv, Running, TypeInv
    <2>2. ~UnderWay(id) /\ ~InBatch(id)
        BY <2>1 DEF UnderWay, InQueue, InBatch
    <2> QED BY <2>1, <2>2 DEF IInv, VersionInv, IsCurrent
<1> QED BY <1>1, Invariance, PTL
=============================================================================

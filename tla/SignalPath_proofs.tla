-------------------------- MODULE SignalPath_proofs --------------------------
(***************************************************************************)
(* The way of a signal to a position, for any receivers, messages, times   *)
(* and settings.  First the bridge: whatever the cuts of the stream, the   *)
(* lines it writes are the frames the receivers sent, with the time they   *)
(* were heard.  Then the pipeline: the buffer holds exactly the recent     *)
(* part of what was ever accepted, so a complete message is found.         *)
(***************************************************************************)
EXTENDS BeastBridge, SignalPipeline, FiniteSetTheorems, FunctionTheorems, WellFoundedInduction, TLAPS

\* A set of numbers has a smallest one.
LEMMA Smallest ==
    ASSUME NEW S \in SUBSET Nat, S # {}
    PROVE  \E m \in S : \A n \in S : m <= n
<1> DEFINE R == {ss \in Nat \X Nat : ss[1] < ss[2]}
<1>1. IsWellFoundedOn(R, Nat)
    BY NatLessThanWellFounded DEF OpToRel
<1>2. PICK m \in S : \A n \in S : <<n, m>> \notin R
    BY <1>1, WFMin
<1>3. ASSUME NEW n \in S PROVE m <= n
    <2>1. <<n, m>> \in R <=> n < m
        OBVIOUS
    <2> QED BY <2>1, <1>2
<1> QED BY <1>3

\* A set of numbers that has 0 and, with a number, the next one has all of them.
LEMMA AllNumbers ==
    ASSUME NEW S, 0 \in S, \A n \in Nat \ {0} : n - 1 \in S => n \in S
    PROVE  Nat \subseteq S
<1>1. SUFFICES ASSUME Nat \ S # {} PROVE FALSE
    OBVIOUS
<1>2. PICK n \in Nat \ S : \A m \in Nat \ S : n <= m
    BY <1>1, Smallest
<1>3. n # 0 /\ n - 1 \in Nat /\ n - 1 < n
    BY <1>2
<1>4. n - 1 \in S
    BY <1>2, <1>3
<1> QED BY <1>2, <1>3, <1>4

-----------------------------------------------------------------------------
(* The cursor *)

\* The cursor of parse_beast_frames goes from one byte to the next.
LEMMA CursorMoves ==
    ASSUME NEW b, NEW from, NEW n \in Nat
    PROVE  /\ Cursor(b, from, n)[0] = from
           /\ \A k \in 1..n :
                Cursor(b, from, n)[k] = Advance(b, Cursor(b, from, n)[k - 1])
<1> DEFINE Is(g, m) == g = [k \in 0..m |-> IF k = 0 THEN from ELSE Advance(b, g[k - 1])]
           S == {m \in Nat : \E g : Is(g, m)}
<1>1. 0 \in S
    <2>1. Is([k \in 0..0 |-> from], 0)
        OBVIOUS
    <2> QED BY <2>1
<1>2. \A m \in Nat \ {0} : m - 1 \in S => m \in S
    <2> SUFFICES ASSUME NEW m \in Nat \ {0}, m - 1 \in S PROVE \E g : Is(g, m)
        BY DEF S
    <2>1. PICK g : Is(g, m - 1)
        BY DEF S
    <2> DEFINE h == [k \in 0..m |-> IF k = 0 THEN from ELSE Advance(b, g[k - 1])]
    <2>2. \A k \in 0..m : k # 0 => k - 1 \in 0..(m - 1)
        OBVIOUS
    <2>3. \A k \in 0..(m - 1) : h[k] = g[k]
        BY <2>1
    <2>4. \A k \in 0..m : h[k] = IF k = 0 THEN from ELSE Advance(b, h[k - 1])
        <3>1. \A k \in 0..m : h[k] = IF k = 0 THEN from ELSE Advance(b, g[k - 1])
            OBVIOUS
        <3> QED BY <2>2, <2>3, <3>1
    <2>5. Is(h, m)
        <3>1. h = [k \in 0..m |-> h[k]]
            OBVIOUS
        <3> HIDE DEF h
        <3> QED BY <2>4, <3>1
    <2> QED BY <2>5
<1> HIDE DEF S
<1>3. n \in S
    BY <1>1, <1>2, AllNumbers
<1>4. PICK g : Is(g, n)
    BY <1>3 DEF S
<1>5. Is(Cursor(b, from, n), n)
    BY <1>4 DEF Cursor
<1> QED BY <1>5

-----------------------------------------------------------------------------
(* Where bytes stand on the wire *)

\* The first byte of a body stands first; a mark takes two places, any other byte one.
LEMMA Places ==
    ASSUME NEW body \in Seq(Nat)
    PROVE  /\ Place(body, 1) = 1
           /\ \A k \in 1..(Len(body) + 1) : Place(body, k) \in Nat
           /\ \A k \in 1..Len(body) : 
                /\ body[k] = Mark => Place(body, k + 1) = Place(body, k) + 2
                /\ body[k] # Mark => Place(body, k + 1) = Place(body, k) + 1
           /\ \A j, k \in 1..(Len(body) + 1) : j < k => Place(body, j) < Place(body, k)
<1> DEFINE Marks(k) == {j \in 1..(k - 1) : body[j] = Mark}
<1>1. \A k \in Nat : IsFiniteSet(Marks(k)) /\ Cardinality(Marks(k)) \in Nat
    <2> TAKE k \in Nat
    <2>1. IsFiniteSet(1..(k - 1))
        BY FS_Interval
    <2>2. Marks(k) \subseteq 1..(k - 1)
        OBVIOUS
    <2> HIDE DEF Marks
    <2> QED BY <2>1, <2>2, FS_Subset, FS_CardinalityType
<1>2. Marks(1) = {}
    OBVIOUS
<1>3. \A k \in 1..Len(body) : Marks(k + 1) = IF body[k] = Mark THEN Marks(k) \cup {k} ELSE Marks(k)
    OBVIOUS
<1>4. \A k \in Nat : k \notin Marks(k)
    OBVIOUS
<1>5. \A j, k \in Nat : j < k => Marks(j) \subseteq Marks(k)
    OBVIOUS
<1>6. \A k : Place(body, k) = k + Cardinality(Marks(k))
    BY DEF Place
<1> HIDE DEF Marks
<1>7. Cardinality(Marks(1)) = 0
    BY <1>2, FS_EmptySet
<1>8. \A k \in 1..Len(body) : Cardinality(Marks(k + 1)) =
        IF body[k] = Mark THEN Cardinality(Marks(k)) + 1 ELSE Cardinality(Marks(k))
    <2> TAKE k \in 1..Len(body)
    <2>1. k \in Nat
        OBVIOUS
    <2>2. ASSUME body[k] = Mark PROVE Cardinality(Marks(k + 1)) = Cardinality(Marks(k)) + 1
        <3>1. Marks(k + 1) = Marks(k) \cup {k}
            BY <1>3, <2>2
        <3> QED BY <1>1, <1>4, <2>1, <3>1, FS_AddElement
    <2>3. ASSUME body[k] # Mark PROVE Cardinality(Marks(k + 1)) = Cardinality(Marks(k))
        BY <1>3, <2>3
    <2> QED BY <2>2, <2>3
<1>9. \A j, k \in Nat : j < k => Cardinality(Marks(j)) <= Cardinality(Marks(k))
    BY <1>1, <1>5, FS_Subset
<1>10. \A k \in 1..(Len(body) + 1) : k \in Nat
    OBVIOUS
<1>11. Place(body, 1) = 1
    BY <1>6, <1>7
<1>12. \A k \in 1..(Len(body) + 1) : Place(body, k) \in Nat
    <2> TAKE k \in 1..(Len(body) + 1)
    <2>1. k \in Nat /\ Cardinality(Marks(k)) \in Nat
        BY <1>1, <1>10
    <2> QED BY <1>6, <2>1
<1>13. \A k \in 1..Len(body) : 
                /\ body[k] = Mark => Place(body, k + 1) = Place(body, k) + 2
                /\ body[k] # Mark => Place(body, k + 1) = Place(body, k) + 1
    <2> TAKE k \in 1..Len(body)
    <2>1. k \in Nat /\ Cardinality(Marks(k)) \in Nat
        BY <1>1
    <2>2. Place(body, k) = k + Cardinality(Marks(k)) /\ Place(body, k + 1) = k + 1 + Cardinality(Marks(k + 1))
        BY <1>6
    <2>3. ASSUME body[k] = Mark PROVE Place(body, k + 1) = Place(body, k) + 2
        <3>1. Cardinality(Marks(k + 1)) = Cardinality(Marks(k)) + 1
            BY <1>8, <2>3
        <3> QED BY <2>1, <2>2, <3>1
    <2>4. ASSUME body[k] # Mark PROVE Place(body, k + 1) = Place(body, k) + 1
        <3>1. Cardinality(Marks(k + 1)) = Cardinality(Marks(k))
            BY <1>8, <2>4
        <3> QED BY <2>1, <2>2, <3>1
    <2> QED BY <2>3, <2>4
<1>14. \A j, k \in 1..(Len(body) + 1) : j < k => Place(body, j) < Place(body, k)
    <2> TAKE j, k \in 1..(Len(body) + 1)
    <2>1. j \in Nat /\ k \in Nat /\ Cardinality(Marks(j)) \in Nat /\ Cardinality(Marks(k)) \in Nat
        BY <1>1, <1>10
    <2>2. Place(body, j) = j + Cardinality(Marks(j)) /\ Place(body, k) = k + Cardinality(Marks(k))
        BY <1>6
    <2> QED BY <1>9, <2>1, <2>2
<1> QED BY <1>11, <1>12, <1>13, <1>14

\* A set of numbers with a bound has a largest one.
LEMMA Largest ==
    ASSUME NEW S \in SUBSET Nat, S # {}, NEW m \in Nat, \A n \in S : n <= m
    PROVE  \E n \in S : \A k \in S : k <= n
<1> DEFINE T == {m - n : n \in S}
<1>1. T \in SUBSET Nat /\ T # {}
    <2>1. \A n \in S : n \in Nat /\ n <= m /\ m - n \in Nat
        OBVIOUS
    <2> QED BY <2>1
<1>2. PICK t \in T : \A u \in T : t <= u
    <2> HIDE DEF T
    <2> QED BY <1>1, Smallest
<1>3. PICK n \in S : t = m - n
    BY <1>2
<1>4. \A k \in S : m - n <= m - k
    BY <1>2, <1>3
<1>5. \A k \in S : k \in Nat
    OBVIOUS
<1> QED BY <1>3, <1>4, <1>5

\* Consecutive stretches of numbers: each number is in one of them.
LEMMA Stretches ==
    ASSUME NEW L \in Nat, NEW P \in [1..(L + 1) -> Nat], P[1] = 1,
           \A j, k \in 1..(L + 1) : j < k => P[j] < P[k]
    PROVE  \A p \in 1..(P[L + 1] - 1) : \E k \in 1..L :
             /\ p \in P[k]..(P[k + 1] - 1)
             /\ \A j \in 1..L : p \in P[j]..(P[j + 1] - 1) => j = k
<1> TAKE p \in 1..(P[L + 1] - 1)
<1> DEFINE S == {k \in 1..L : P[k] <= p}
<1>1. L # 0
    OBVIOUS
<1>2. 1 \in S /\ S \in SUBSET Nat /\ \A k \in S : k <= L
    BY <1>1
<1>3. PICK k \in S : \A j \in S : j <= k
    <2> HIDE DEF S
    <2> QED BY <1>2, Largest
<1>4. k \in 1..L /\ P[k] <= p /\ P[k] \in Nat /\ P[k + 1] \in Nat
    BY <1>3
<1>5. p < P[k + 1]
    <2>1. CASE k = L
        BY <2>1
    <2>2. CASE k # L
        <3>1. k + 1 \in 1..L /\ k + 1 \notin S
            BY <1>3, <1>4, <2>2
        <3> QED BY <1>4, <3>1
    <2> QED BY <2>1, <2>2
<1>6. ASSUME NEW j \in 1..L, p \in P[j]..(P[j + 1] - 1) PROVE j = k
    <2>1. P[j] \in Nat /\ P[j + 1] \in Nat /\ j <= k
        BY <1>3, <1>6
    <2>2. CASE j < k
        <3>1. j + 1 \in 1..(L + 1) /\ k \in 1..(L + 1) /\ (j + 1 = k \/ j + 1 < k)
            BY <1>4, <2>2
        <3>2. P[j + 1] <= P[k]
            BY <1>4, <2>1, <3>1
        <3> QED BY <1>4, <1>6, <2>1, <3>2
    <2> QED BY <1>4, <2>1, <2>2
<1> QED BY <1>4, <1>5, <1>6

\* A byte stands where it was put, and a mark is doubled.
LEMMA EscapeHolds ==
    ASSUME NEW body \in Seq(Nat)
    PROVE  /\ Escape(body) \in Seq(Nat) /\ Len(Escape(body)) = Place(body, Len(body) + 1) - 1
           /\ \A k \in 1..Len(body) :
                /\ Escape(body)[Place(body, k)] = body[k]
                /\ body[k] = Mark => Escape(body)[Place(body, k) + 1] = Mark
<1> DEFINE L == Len(body)
           P == [k \in 1..(L + 1) |-> Place(body, k)]
           Of == [p \in 1..(P[L + 1] - 1) |->
                    CHOOSE k \in DOMAIN body : p \in Place(body, k)..(Place(body, k + 1) - 1)]
<1>1. /\ L \in Nat /\ DOMAIN body = 1..L /\ P[1] = 1
      /\ P \in [1..(L + 1) -> Nat]
      /\ \A k \in 1..L : (body[k] = Mark => P[k + 1] = P[k] + 2)
                           /\ (body[k] # Mark => P[k + 1] = P[k] + 1)
      /\ \A j, k \in 1..(L + 1) : j < k => P[j] < P[k]
    <2>1. L \in Nat /\ DOMAIN body = 1..L /\ 1 \in 1..(L + 1) /\ \A k \in 1..L : k + 1 \in 1..(L + 1)
        OBVIOUS
    <2> QED BY <2>1, Places
<1>2. \A k \in 1..(L + 1) : P[k] = Place(body, k)
    OBVIOUS
<1>3. Escape(body) = [p \in 1..(P[L + 1] - 1) |-> body[Of[p]]]
    <2>1. L + 1 \in 1..(L + 1)
        BY <1>1
    <2>2. P[L + 1] = Place(body, Len(body) + 1)
        BY <1>2, <2>1
    <2> HIDE DEF P
    <2> QED BY <2>2 DEF Escape
<1> HIDE DEF L
<1> HIDE DEF P
<1>4. \A p \in 1..(P[L + 1] - 1) : \E k \in 1..L :
             /\ p \in P[k]..(P[k + 1] - 1)
             /\ \A j \in 1..L : p \in P[j]..(P[j + 1] - 1) => j = k
    <2> HIDE DEF L
    <2> QED BY <1>1, Stretches
<1>5. \A k \in 1..L : /\ k + 1 \in 1..(L + 1) /\ P[k] \in Nat /\ P[k + 1] \in Nat /\ P[L + 1] \in Nat
                      /\ 1 <= P[k] /\ P[k] < P[k + 1] /\ P[k + 1] <= P[L + 1]
    <2> TAKE k \in 1..L
    <2>1. 1 \in 1..(L + 1) /\ k \in 1..(L + 1) /\ k + 1 \in 1..(L + 1) /\ L + 1 \in 1..(L + 1)
        BY <1>1
    <2>2. 1 <= P[k]
        <3>1. k = 1 \/ 1 < k
            OBVIOUS
        <3> QED BY <1>1, <2>1, <3>1
    <2>3. P[k] < P[k + 1]
        BY <1>1, <2>1
    <2>4. P[k + 1] <= P[L + 1]
        <3>1. k = L \/ k + 1 < L + 1
            BY <1>1
        <3> QED BY <1>1, <2>1, <3>1
    <2> QED BY <1>1, <2>1, <2>2, <2>3, <2>4
<1>6. \A k \in 1..L : k \in 1..(L + 1)
    BY <1>1
<1>7. ASSUME NEW k \in 1..L, NEW p \in P[k]..(P[k + 1] - 1)
      PROVE  p \in 1..(P[L + 1] - 1) /\ Of[p] = k
    <2>1. p \in 1..(P[L + 1] - 1)
        BY <1>5
    <2>2. \A j \in 1..L : p \in P[j]..(P[j + 1] - 1) <=> j = k
        BY <1>4, <1>7, <2>1
    <2>3. \A j \in 1..L : P[j] = Place(body, j) /\ P[j + 1] = Place(body, j + 1)
        BY <1>2, <1>5, <1>6
    <2>4. \A j \in DOMAIN body : p \in Place(body, j)..(Place(body, j + 1) - 1) <=> j = k
        BY <1>1, <2>2, <2>3
    <2>5. (CHOOSE j \in DOMAIN body : p \in Place(body, j)..(Place(body, j + 1) - 1)) = k
        BY <1>1, <2>4
    <2> QED BY <2>1, <2>5
<1> HIDE DEF Of
<1>8. \A p \in 1..(P[L + 1] - 1) : Of[p] \in 1..L
    BY <1>4, <1>7
<1>9. Escape(body) \in Seq(Nat) /\ Len(Escape(body)) = P[L + 1] - 1
    <2>1. P[L + 1] - 1 \in Nat
        <3>1. 1 \in 1..(L + 1) /\ L + 1 \in 1..(L + 1)
            BY <1>1
        <3> QED BY <1>1, <3>1
    <2>2. \A p \in 1..(P[L + 1] - 1) : body[Of[p]] \in Nat
        <3>1. \A k \in 1..L : body[k] \in Nat
            BY DEF L
        <3> QED BY <1>8, <3>1
    <2> DEFINE N == P[L + 1] - 1
    <2>3. Escape(body) = [p \in 1..N |-> body[Of[p]]]
        BY <1>3
    <2> HIDE DEF N
    <2>4. N \in Nat /\ \A p \in 1..N : body[Of[p]] \in Nat
        BY <2>1, <2>2 DEF N
    <2>5. Escape(body) \in Seq(Nat) /\ Len(Escape(body)) = N
        BY <2>3, <2>4
    <2> QED BY <2>5 DEF N
<1>10. ASSUME NEW k \in 1..L
      PROVE  Escape(body)[P[k]] = body[k] /\ (body[k] = Mark => Escape(body)[P[k] + 1] = Mark)
    <2>1. P[k] \in P[k]..(P[k + 1] - 1)
        BY <1>5
    <2>2. ASSUME body[k] = Mark PROVE P[k] + 1 \in P[k]..(P[k + 1] - 1)
        <3> DEFINE q == P[k]
        <3>1. q \in Nat /\ P[k + 1] = q + 2
            BY <1>1, <1>5, <2>2
        <3> HIDE DEF q
        <3>2. q + 1 \in q..((q + 2) - 1)
            BY <3>1
        <3> QED BY <3>1, <3>2 DEF q
    <2>3. Escape(body)[P[k]] = body[k]
        BY <1>3, <1>7, <2>1
    <2>4. body[k] = Mark => Escape(body)[P[k] + 1] = body[k]
        BY <1>3, <1>7, <2>2
    <2> QED BY <2>3, <2>4
<1>11. L + 1 \in 1..(L + 1)
    BY <1>1
<1> QED BY <1>2, <1>9, <1>10, <1>6, <1>11 DEF L

-----------------------------------------------------------------------------
(* The stream of a connection *)

Frame == [type : Nat \ {Mark}, body : Seq(Nat), at : Nat, from : Nat \ {0}, to : Nat]

\* Where byte k of the body of f stands on the wire.
Spot(f, k) == f.from + 1 + Place(f.body, k)

\* Frame f stands in w from its first byte to its last.
Carries(w, f) ==
    /\ f.to =< Len(w) /\ f.to + 1 = Spot(f, Len(f.body) + 1)
    /\ w[f.from] = Mark /\ w[f.from + 1] = f.type
    /\ \A k \in 1..Len(f.body) :
         w[Spot(f, k)] = f.body[k] /\ (f.body[k] = Mark => w[Spot(f, k) + 1] = Mark)

\* The body of f is as long as its type says, or hides no frame.
Fits(f) ==
    /\ f.body # <<>>
    /\ IF f.type \in Known THEN Len(f.body) = 1 + TYPE_TO_MESSAGE_LEN[f.type]
       ELSE \A k \in 2..Len(f.body) : Wanted(f.body[k]) /\ f.body[k - 1] = Mark =>
              Len(f.body) - k =< TYPE_TO_MESSAGE_LEN[f.body[k]]

\* w is the frames s, one after the other.
Stream(w, s) ==
    /\ w \in Seq(Nat) /\ s \in Seq(Frame)
    /\ \A j \in 1..Len(s) : Carries(w, s[j]) /\ Fits(s[j])
    /\ \A j \in 1..Len(s) : s[j].from = IF j = 1 THEN 1 ELSE s[j - 1].to + 1
    /\ Len(w) = IF Len(s) = 0 THEN 0 ELSE s[Len(s)].to
    /\ \A j, k \in 1..Len(s) : j < k => s[j].to < s[k].from

\* So do the bytes of a frame on the wire, after its mark and its type.
LEMMA Spots ==
    ASSUME NEW f \in Frame
    PROVE  /\ Spot(f, 1) = f.from + 2
           /\ \A k \in 1..(Len(f.body) + 1) : Spot(f, k) \in Nat
           /\ \A k \in 1..Len(f.body) : 
                /\ f.body[k] = Mark => Spot(f, k + 1) = Spot(f, k) + 2
                /\ f.body[k] # Mark => Spot(f, k + 1) = Spot(f, k) + 1
           /\ \A j, k \in 1..(Len(f.body) + 1) : j < k => Spot(f, j) < Spot(f, k)
<1>1. f.body \in Seq(Nat) /\ f.from \in Nat
    BY DEF Frame
<1>2. /\ Place(f.body, 1) = 1
      /\ \A k \in 1..(Len(f.body) + 1) : Place(f.body, k) \in Nat
      /\ \A k \in 1..Len(f.body) : 
           /\ f.body[k] = Mark => Place(f.body, k + 1) = Place(f.body, k) + 2
           /\ f.body[k] # Mark => Place(f.body, k + 1) = Place(f.body, k) + 1
      /\ \A j, k \in 1..(Len(f.body) + 1) : j < k => Place(f.body, j) < Place(f.body, k)
    BY <1>1, Places
<1>3. \A k \in 1..(Len(f.body) + 1) : Spot(f, k) \in Nat
    BY <1>1, <1>2 DEF Spot
<1>4. ASSUME NEW k \in 1..Len(f.body)
      PROVE  /\ f.body[k] = Mark => Spot(f, k + 1) = Spot(f, k) + 2
             /\ f.body[k] # Mark => Spot(f, k + 1) = Spot(f, k) + 1
    <2>1. k \in 1..(Len(f.body) + 1) /\ Place(f.body, k) \in Nat
        BY <1>1, <1>2
    <2>2. Spot(f, k) = f.from + 1 + Place(f.body, k) /\ Spot(f, k + 1) = f.from + 1 + Place(f.body, k + 1)
        BY DEF Spot
    <2>3. /\ f.body[k] = Mark => Place(f.body, k + 1) = Place(f.body, k) + 2
          /\ f.body[k] # Mark => Place(f.body, k + 1) = Place(f.body, k) + 1
        BY <1>2
    <2>4. ASSUME f.body[k] = Mark PROVE Spot(f, k + 1) = Spot(f, k) + 2
        <3>1. Place(f.body, k + 1) = Place(f.body, k) + 2
            BY <2>3, <2>4
        <3>2. Spot(f, k + 1) = f.from + 1 + (Place(f.body, k) + 2)
            BY <2>2, <3>1
        <3>3. f.from \in Nat /\ Place(f.body, k) \in Nat /\ Spot(f, k) \in Nat
            BY <1>1, <2>1, <2>2
        <3>4. Spot(f, k) = f.from + 1 + Place(f.body, k)
            BY <2>2
        <3> DEFINE a == f.from  b == Place(f.body, k)
        <3>5. a \in Nat /\ b \in Nat /\ Spot(f, k) = a + 1 + b /\ Spot(f, k + 1) = a + 1 + (b + 2)
            BY <3>2, <3>3, <3>4
        <3> HIDE DEF a, b
        <3> QED BY <3>5
    <2>5. ASSUME f.body[k] # Mark PROVE Spot(f, k + 1) = Spot(f, k) + 1
        <3>1. Place(f.body, k + 1) = Place(f.body, k) + 1
            BY <2>3, <2>5
        <3>2. Spot(f, k + 1) = f.from + 1 + (Place(f.body, k) + 1)
            BY <2>2, <3>1
        <3>3. f.from \in Nat /\ Place(f.body, k) \in Nat /\ Spot(f, k) \in Nat
            BY <1>1, <2>1, <2>2
        <3>4. Spot(f, k) = f.from + 1 + Place(f.body, k)
            BY <2>2
        <3> QED BY <3>2, <3>3, <3>4
    <2> QED BY <2>4, <2>5
<1>5. \A j, k \in 1..(Len(f.body) + 1) : j < k => Spot(f, j) < Spot(f, k)
    BY <1>1, <1>2 DEF Spot
<1> QED BY <1>1, <1>2, <1>3, <1>4, <1>5 DEF Spot

\* What stands at a position of a frame.
LEMMA InFrame ==
    ASSUME NEW f \in Frame, f.to + 1 = Spot(f, Len(f.body) + 1), NEW i \in f.from..f.to
    PROVE  \/ i = f.from \/ i = f.from + 1
           \/ \E k \in 1..Len(f.body) :
                i = Spot(f, k) \/ (f.body[k] = Mark /\ i = Spot(f, k) + 1)
<1> DEFINE L == Len(f.body)
           P == [k \in 1..(L + 1) |-> Place(f.body, k)]
<1>1. f.body \in Seq(Nat) /\ f.from \in Nat /\ f.to \in Nat /\ L \in Nat /\ i \in Nat
    BY DEF Frame
<1>2. SUFFICES ASSUME i > f.from + 1
               PROVE  \E k \in 1..L : i = Spot(f, k) \/ (f.body[k] = Mark /\ i = Spot(f, k) + 1)
    <2>1. i = f.from \/ i = f.from + 1 \/ i > f.from + 1
        BY <1>1
    <2> QED BY <2>1
<1> HIDE DEF L
<1>3. /\ P \in [1..(L + 1) -> Nat] /\ P[1] = 1
      /\ \A j, k \in 1..(L + 1) : j < k => P[j] < P[k]
      /\ \A k \in 1..(L + 1) : P[k] = Place(f.body, k)
      /\ \A k \in 1..L : k \in 1..(L + 1) /\ k + 1 \in 1..(L + 1)
      /\ L + 1 \in 1..(L + 1)
    <2>1. 1 \in 1..(L + 1)
        BY <1>1
    <2> QED BY <1>1, <2>1, Places DEF L
<1> HIDE DEF P
<1> DEFINE p == i - f.from - 1
<1>4. p \in 1..(P[L + 1] - 1)
    <2> DEFINE q == P[L + 1]
    <2>1. f.to + 1 = f.from + 1 + q /\ q \in Nat
        BY <1>3 DEF Spot, L
    <2> HIDE DEF q
    <2>2. /\ f.from \in Nat /\ f.to \in Nat /\ i \in Nat /\ i =< f.to /\ i > f.from + 1
        BY <1>1, <1>2
    <2> DEFINE a == f.from  t == f.to
    <2>3. a \in Nat /\ t \in Nat /\ i \in Nat /\ i =< t /\ i > a + 1 /\ t + 1 = a + 1 + q /\ q \in Nat
        BY <2>1, <2>2
    <2> HIDE DEF a, t
    <2>4. i - a - 1 \in 1..(q - 1)
        BY <2>3
    <2> QED BY <2>4 DEF a, q
<1>5. PICK k \in 1..L : p \in P[k]..(P[k + 1] - 1)
    <2> HIDE DEF p
    <2> QED BY <1>1, <1>3, <1>4, Stretches
<1>6. /\ P[k] \in Nat
      /\ f.body[k] = Mark => P[k + 1] = P[k] + 2
      /\ f.body[k] # Mark => P[k + 1] = P[k] + 1
    <2>1. P[k] \in Nat /\ P[k] = Place(f.body, k) /\ P[k + 1] = Place(f.body, k + 1)
        BY <1>3
    <2> QED BY <1>1, <2>1, Places DEF L
<1>7. Spot(f, k) = f.from + 1 + P[k]
    BY <1>3 DEF Spot
<1>8. p = P[k] \/ (f.body[k] = Mark /\ p = P[k] + 1)
    <2>1. P[k] \in Nat /\ p \in Nat /\ P[k] =< p /\ p < P[k + 1]
        <3>1. P[k] \in Nat /\ P[k + 1] \in Nat
            BY <1>3
        <3>2. p \in Int
            BY <1>1
        <3> HIDE DEF p
        <3> QED BY <1>5, <3>1, <3>2
    <2> HIDE DEF p
    <2> QED BY <1>6, <2>1
<1>9. i = p + f.from + 1
    BY <1>1
<1> HIDE DEF p
<1>10. i = Spot(f, k) \/ (f.body[k] = Mark /\ i = Spot(f, k) + 1)
    <2>1. CASE p = P[k]
        <3>1. i = Spot(f, k)
            BY <1>1, <1>6, <1>7, <1>9, <2>1
        <3> QED BY <3>1
    <2>2. CASE f.body[k] = Mark /\ p = P[k] + 1
        <3>1. i = P[k] + 1 + f.from + 1 /\ f.from \in Nat /\ P[k] \in Nat
            BY <1>1, <1>6, <1>9, <2>2
        <3> DEFINE a == f.from  q == P[k]
        <3>2. i = q + 1 + a + 1 /\ a \in Nat /\ q \in Nat /\ Spot(f, k) = a + 1 + q
            BY <1>7, <3>1
        <3> HIDE DEF a, q
        <3>3. i = Spot(f, k) + 1
            BY <3>2
        <3> QED BY <2>2, <3>3
    <2> QED BY <1>8, <2>1, <2>2
<1> QED BY <1>10

\* Every byte of the wire is in a frame, and another frame starts where one ends.
LEMMA StreamFacts ==
    ASSUME NEW w, NEW s, Stream(w, s)
    PROVE  /\ \A i \in 1..Len(w) : \E j \in 1..Len(s) : i \in s[j].from..s[j].to
           /\ \A j \in 1..Len(s) :
                /\ s[j] \in Frame /\ s[j].from + 2 =< s[j].to
                /\ s[j].to < Len(w) => /\ j < Len(s) /\ s[j + 1].from = s[j].to + 1
                                       /\ w[s[j].to + 1] = Mark /\ w[s[j].to + 2] # Mark
                                       /\ s[j].to + 2 =< Len(w)
<1>1. /\ w \in Seq(Nat) /\ s \in Seq(Frame)
      /\ \A j \in 1..Len(s) : Carries(w, s[j]) /\ Fits(s[j])
      /\ \A j \in 1..Len(s) : s[j].from = IF j = 1 THEN 1 ELSE s[j - 1].to + 1
      /\ Len(w) = IF Len(s) = 0 THEN 0 ELSE s[Len(s)].to
      /\ \A j, k \in 1..Len(s) : j < k => s[j].to < s[k].from
    BY DEF Stream
<1>2. Len(s) \in Nat /\ Len(w) \in Nat /\ \A j \in 1..Len(s) :
        /\ s[j] \in Frame /\ s[j].from \in Nat \ {0} /\ s[j].to \in Nat /\ s[j].to =< Len(w)
        /\ s[j].body \in Seq(Nat)
    <2>1. Len(s) \in Nat /\ Len(w) \in Nat /\ \A j \in 1..Len(s) : s[j] \in Frame
        BY <1>1
    <2> QED BY <1>1, <2>1 DEF Frame, Carries
<1>3. ASSUME NEW j \in 1..Len(s)
      PROVE  s[j].from + 2 =< s[j].to
    <2>1. Len(s[j].body) \in Nat /\ Len(s[j].body) # 0
        BY <1>1, <1>2 DEF Fits
    <2>2. Spot(s[j], 1) < Spot(s[j], Len(s[j].body) + 1)
        <3>1. 1 \in 1..(Len(s[j].body) + 1) /\ Len(s[j].body) + 1 \in 1..(Len(s[j].body) + 1)
            BY <2>1
        <3> QED BY <1>2, <2>1, <3>1, Spots
    <2>3. Spot(s[j], 1) = s[j].from + 2 /\ Spot(s[j], Len(s[j].body) + 1) = s[j].to + 1
        BY <1>1, <1>2, Spots DEF Carries
    <2> QED BY <1>2, <2>2, <2>3
<1>4. ASSUME NEW j \in 1..Len(s), s[j].to < Len(w)
      PROVE  /\ j < Len(s) /\ s[j + 1].from = s[j].to + 1
             /\ w[s[j].to + 1] = Mark /\ w[s[j].to + 2] # Mark /\ s[j].to + 2 =< Len(w)
    <2>1. j # Len(s)
        BY <1>1, <1>2, <1>4
    <2>2. j + 1 \in 1..Len(s) /\ j + 1 # 1 /\ (j + 1) - 1 = j
        BY <1>2, <2>1
    <2>3. s[j + 1].from = s[j].to + 1
        BY <1>1, <2>2
    <2>4. s[j + 1].from + 2 =< s[j + 1].to /\ s[j + 1].to =< Len(w) /\ s[j + 1].to \in Nat
        BY <1>2, <1>3, <2>2
    <2>5. w[s[j + 1].from] = Mark /\ w[s[j + 1].from + 1] = s[j + 1].type /\ s[j + 1].type # Mark
        BY <1>1, <1>2, <2>2 DEF Carries, Frame
    <2> DEFINE t == s[j].to  next == s[j + 1].from
    <2>6. t \in Nat /\ next = t + 1
        BY <1>2, <2>3
    <2>7. next + 1 = t + 2 /\ t + 2 =< Len(w)
        <3>1. next + 2 =< s[j + 1].to /\ s[j + 1].to =< Len(w) /\ s[j + 1].to \in Nat /\ Len(w) \in Nat
            BY <1>2, <2>4
        <3> HIDE DEF t, next
        <3> QED BY <2>6, <3>1
    <2>8. w[t + 1] = Mark /\ w[t + 2] # Mark
        BY <2>5, <2>6, <2>7
    <2>9. j < Len(s)
        BY <1>2, <2>1
    <2> QED BY <2>6, <2>7, <2>8, <2>9
<1>5. ASSUME NEW i \in 1..Len(w)
      PROVE  \E j \in 1..Len(s) : i \in s[j].from..s[j].to
    <2> DEFINE S == {j \in 1..Len(s) : s[j].from =< i}
    <2>1. Len(s) # 0 /\ s[Len(s)].to = Len(w)
        BY <1>1, <1>2
    <2>2. 1 \in S /\ S \in SUBSET Nat /\ \A j \in S : j <= Len(s)
        BY <1>1, <1>2, <2>1
    <2>3. PICK j \in S : \A k \in S : k <= j
        <3> HIDE DEF S
        <3> QED BY <1>2, <2>2, Largest
    <2>4. i =< s[j].to
        <3>1. CASE j = Len(s)
            BY <2>1, <3>1
        <3>2. CASE j # Len(s)
            <4>1. j + 1 \in 1..Len(s) /\ j + 1 # 1 /\ (j + 1) - 1 = j /\ j + 1 \notin S
                BY <1>2, <2>3, <3>2
            <4>2. s[j + 1].from = s[j].to + 1
                BY <1>1, <4>1
            <4> QED BY <1>2, <4>1, <4>2
        <3> QED BY <3>1, <3>2
    <2> QED BY <1>2, <2>3, <2>4
<1> QED BY <1>2, <1>3, <1>4, <1>5

\* What is known of one frame of the stream.
LEMMA FrameFacts ==
    ASSUME NEW w, NEW s, Stream(w, s), NEW j \in 1..Len(s)
    PROVE  /\ s[j] \in Frame /\ Carries(w, s[j]) /\ Fits(s[j])
           /\ w \in Seq(Nat) /\ Len(w) \in Nat
           /\ s[j].from \in Nat \ {0} /\ s[j].to \in Nat /\ s[j].to =< Len(w)
           /\ s[j].body \in Seq(Nat) /\ Len(s[j].body) \in Nat \ {0}
           /\ s[j].type \in Nat /\ s[j].type # Mark
<1>1. w \in Seq(Nat) /\ s \in Seq(Frame) /\ Carries(w, s[j]) /\ Fits(s[j])
    BY DEF Stream
<1>2. s[j] \in Frame
    BY <1>1
<1>3. /\ s[j].from \in Nat \ {0} /\ s[j].to \in Nat /\ s[j].body \in Seq(Nat)
      /\ s[j].type \in Nat /\ s[j].type # Mark
    BY <1>2 DEF Frame
<1>4. Len(s[j].body) \in Nat \ {0}
    BY <1>1, <1>3 DEF Fits
<1> QED BY <1>1, <1>2, <1>3, <1>4 DEF Carries

\* Where the stream looks like the start of a known frame, it is one, or the second
\* half of a mark in a body with a type after it.
LEMMA StartKinds ==
    ASSUME NEW w, NEW s, Stream(w, s), NEW j \in 1..Len(s), NEW i \in s[j].from..s[j].to,
           i < Len(w), w[i] = Mark, w[i + 1] \in Known
    PROVE  \/ i = s[j].from /\ s[j].type = w[i + 1]
           \/ \E q \in 1..(Len(s[j].body) - 1) :
                /\ s[j].body[q] = Mark /\ s[j].body[q + 1] = w[i + 1]
                /\ i = Spot(s[j], q) + 1 /\ Spot(s[j], q + 2) = i + 2
<1> DEFINE f == s[j]
<1>1. f \in Frame /\ Carries(w, f) /\ w \in Seq(Nat)
      /\ f.from \in Nat /\ f.to \in Nat /\ f.body \in Seq(Nat) /\ f.type # Mark
    BY FrameFacts
<1>2. f.to < Len(w) => w[f.to + 1] = Mark
    BY StreamFacts
<1> HIDE DEF f
<1>3. i \in f.from..f.to /\ i \in Nat
    BY <1>1 DEF f
<1>4. Mark \notin Known
    BY BridgeAssumption
<1>5. CASE i = f.from
    BY <1>1, <1>5 DEF Carries, f
<1>6. CASE i = f.from + 1
    BY <1>1, <1>6 DEF Carries
<1>7. ASSUME NEW k \in 1..Len(f.body), i = Spot(f, k)
      PROVE  FALSE
    <2>1. f.body[k] = Mark
        BY <1>1, <1>7 DEF Carries
    <2>2. w[i + 1] = Mark
        BY <1>1, <1>7, <2>1 DEF Carries
    <2> QED BY <1>4, <2>2
<1>8. ASSUME NEW k \in 1..Len(f.body), f.body[k] = Mark, i = Spot(f, k) + 1
      PROVE  /\ k \in 1..(Len(f.body) - 1) /\ f.body[k + 1] = w[i + 1]
             /\ Spot(f, k + 2) = i + 2
    <2>1. Spot(f, k) \in Nat /\ Spot(f, k + 1) = i + 1
        <3>1. k \in 1..(Len(f.body) + 1)
            BY <1>1
        <3>2. Spot(f, k) \in Nat /\ Spot(f, k + 1) = Spot(f, k) + 2
            BY <1>1, <1>8, <3>1, Spots
        <3> QED BY <1>8, <3>2
    <2>2. k # Len(f.body)
        <3> SUFFICES ASSUME k = Len(f.body) PROVE FALSE
            OBVIOUS
        <3>1. f.to + 1 = i + 1
            BY <1>1, <2>1 DEF Carries
        <3>2. f.to = i
            BY <1>1, <1>3, <3>1
        <3> QED BY <1>2, <1>4, <3>2
    <2>3. k \in 1..(Len(f.body) - 1) /\ k + 1 \in 1..Len(f.body) /\ (k + 1) + 1 = k + 2
        <3> DEFINE l == Len(f.body)
        <3>1. l \in Nat /\ k \in 1..l /\ k # l
            BY <1>1, <2>2
        <3> HIDE DEF l
        <3>2. k \in 1..(l - 1) /\ k + 1 \in 1..l /\ (k + 1) + 1 = k + 2
            BY <3>1
        <3> QED BY <3>2 DEF l
    <2>4. f.body[k + 1] = w[i + 1]
        BY <1>1, <2>1, <2>3 DEF Carries
    <2>5. Spot(f, k + 2) = Spot(f, k + 1) + 1
        BY <1>1, <1>4, <2>3, <2>4, Spots
    <2>6. (i + 1) + 1 = i + 2
        BY <1>3
    <2> QED BY <2>1, <2>3, <2>4, <2>5, <2>6
<1>9. \/ i = f.from \/ i = f.from + 1
      \/ \E k \in 1..Len(f.body) :
           i = Spot(f, k) \/ (f.body[k] = Mark /\ i = Spot(f, k) + 1)
    <2>1. f.to + 1 = Spot(f, Len(f.body) + 1)
        BY <1>1 DEF Carries
    <2> QED BY <1>1, <1>3, <2>1, InFrame
<1>10. CASE \E k \in 1..Len(f.body) :
              i = Spot(f, k) \/ (f.body[k] = Mark /\ i = Spot(f, k) + 1)
    <2>1. PICK k \in 1..Len(f.body) : f.body[k] = Mark /\ i = Spot(f, k) + 1
        BY <1>7, <1>10
    <2> QED BY <1>8, <2>1 DEF f
<1> QED BY <1>5, <1>6, <1>9, <1>10

-----------------------------------------------------------------------------
(* Decoding a part of the stream *)

\* b is what stands in w after the first `base` bytes, up to byte n.
IsPart(b, w, base, n) ==
    /\ b \in Seq(Nat) /\ base \in Nat /\ n \in Nat /\ base =< n /\ n =< Len(w)
    /\ Len(b) = n - base /\ \A i \in 1..Len(b) : b[i] = w[base + i]

Stuck(b, c) == RunsOut(b, c) \/ IsMarker(b, c)

\* At a byte of a body the cursor moves on if the buffer holds all of it, and gets stuck
\* otherwise; after the last byte it gets stuck.
LEMMA ByteAt ==
    ASSUME NEW w, NEW s, Stream(w, s), NEW j \in 1..Len(s),
           NEW b, NEW base, NEW n, IsPart(b, w, base, n),
           NEW p \in 1..(Len(s[j].body) + 1), Spot(s[j], p) > base
    PROVE  LET f == s[j]
               c == Spot(f, p) - base
           IN /\ p =< Len(f.body) /\ Spot(f, p + 1) =< n + 1 =>
                   ~Stuck(b, c) /\ Advance(b, c) = Spot(f, p + 1) - base /\ b[c] = f.body[p]
              /\ p =< Len(f.body) /\ Spot(f, p + 1) > n + 1 => RunsOut(b, c)
              /\ p = Len(f.body) + 1 => c = f.to + 1 - base /\ Stuck(b, c)
              /\ RunsOut(b, c) => n =< f.to + 1
<1> DEFINE f == s[j]
           c == Spot(f, p) - base
<1>1. f \in Frame /\ Carries(w, f) /\ w \in Seq(Nat)
      /\ f.from \in Nat /\ f.to \in Nat /\ f.body \in Seq(Nat)
    BY FrameFacts
<1>2. f.to < Len(w) => w[f.to + 1] = Mark /\ w[f.to + 2] # Mark
    BY StreamFacts
<1> HIDE DEF f
<1>3. /\ b \in Seq(Nat) /\ base \in Nat /\ n \in Nat /\ base =< n /\ n =< Len(w) /\ Len(w) \in Nat
      /\ Len(b) = n - base /\ Len(b) \in Nat /\ \A i \in 1..Len(b) : b[i] = w[base + i]
    BY <1>1 DEF IsPart
<1>4. Spot(f, p) \in Nat /\ Len(f.body) \in Nat /\ Spot(f, p) > base /\ p \in 1..(Len(f.body) + 1)
    BY <1>1, Spots DEF f
<1>5. c \in Nat /\ c > 0 /\ base + c = Spot(f, p)
    <2> DEFINE q == Spot(f, p)
    <2>1. q \in Nat /\ q > base /\ base \in Nat
        BY <1>3, <1>4
    <2> HIDE DEF q
    <2>2. q - base \in Nat /\ q - base > 0 /\ base + (q - base) = q
        BY <2>1
    <2> QED BY <2>2 DEF q
<1>6. f.to + 1 = Spot(f, Len(f.body) + 1) /\ Spot(f, p) =< f.to + 1
    <2>1. f.to + 1 = Spot(f, Len(f.body) + 1)
        BY <1>1 DEF Carries
    <2>2. CASE p = Len(f.body) + 1
        BY <1>1, <2>1, <2>2
    <2>3. CASE p # Len(f.body) + 1
        <3>1. p < Len(f.body) + 1 /\ Len(f.body) + 1 \in 1..(Len(f.body) + 1)
            BY <1>4, <2>3
        <3>2. Spot(f, p) < Spot(f, Len(f.body) + 1)
            BY <1>1, <1>4, <3>1, Spots
        <3> QED BY <1>1, <1>4, <2>1, <3>2
    <2> QED BY <2>2, <2>3
<1> HIDE DEF c
<1>7. ASSUME p =< Len(f.body), Spot(f, p + 1) =< n + 1
      PROVE  ~Stuck(b, c) /\ Advance(b, c) = Spot(f, p + 1) - base /\ b[c] = f.body[p]
    <2>1. p \in 1..Len(f.body) /\ p + 1 \in 1..(Len(f.body) + 1)
        BY <1>4, <1>7
    <2>2. CASE f.body[p] = Mark
        <3>1. Spot(f, p + 1) = Spot(f, p) + 2
            BY <1>1, <2>1, <2>2, Spots
        <3>2. c + 1 =< Len(b)
            <4>1. (base + c) + 2 =< n + 1
                BY <1>5, <1>7, <3>1
            <4>2. c \in Nat /\ base \in Nat /\ n \in Nat
                BY <1>3, <1>5
            <4>3. c + 1 =< n - base
                BY <4>1, <4>2
            <4> QED BY <1>3, <4>3
        <3>3. c \in 1..Len(b) /\ c + 1 \in 1..Len(b) /\ base + (c + 1) = Spot(f, p) + 1
            BY <1>3, <1>5, <3>2
        <3>4. w[Spot(f, p)] = Mark /\ w[Spot(f, p) + 1] = Mark
            BY <1>1, <2>1, <2>2 DEF Carries
        <3>5. b[c] = w[base + c] /\ b[c + 1] = w[base + (c + 1)]
            BY <1>3, <3>3
        <3>6. b[c] = Mark /\ b[c + 1] = Mark
            BY <1>5, <3>3, <3>4, <3>5
        <3>7. ~Stuck(b, c)
            <4>1. c =< Len(b) /\ c # Len(b)
                BY <1>3, <1>5, <3>2
            <4>2. ~(c > Len(b))
                BY <1>3, <1>5, <4>1
            <4> QED BY <3>6, <4>1, <4>2 DEF Stuck, RunsOut, IsMarker
        <3>8. Advance(b, c) = c + 2
            BY <3>6, <3>7 DEF Stuck, Advance
        <3> QED BY <1>3, <1>4, <1>5, <2>2, <3>1, <3>6, <3>7, <3>8
    <2>3. CASE f.body[p] # Mark
        <3>1. Spot(f, p + 1) = Spot(f, p) + 1
            BY <1>1, <2>1, <2>3, Spots
        <3>2. c =< Len(b)
            BY <1>3, <1>5, <1>7, <3>1
        <3>3. c \in 1..Len(b)
            BY <1>3, <1>5, <3>2
        <3>4. b[c] = f.body[p]
            BY <1>1, <1>3, <1>5, <2>1, <3>3 DEF Carries
        <3>5. ~Stuck(b, c)
            <4>1. ~(c > Len(b))
                BY <1>3, <1>5, <3>2
            <4> QED BY <2>3, <3>4, <4>1 DEF Stuck, RunsOut, IsMarker
        <3>6. Advance(b, c) = c + 1
            BY <2>3, <3>4, <3>5 DEF Stuck, Advance
        <3> QED BY <1>3, <1>4, <1>5, <3>1, <3>4, <3>5, <3>6
    <2> QED BY <2>2, <2>3
<1>8. ASSUME p =< Len(f.body), Spot(f, p + 1) > n + 1
      PROVE  RunsOut(b, c)
    <2>1. p \in 1..Len(f.body)
        BY <1>4, <1>8
    <2>2. CASE f.body[p] = Mark
        <3>1. Spot(f, p + 1) = Spot(f, p) + 2
            BY <1>1, <2>1, <2>2, Spots
        <3>2. c >= Len(b)
            BY <1>3, <1>5, <1>8, <3>1
        <3>3. CASE c = Len(b)
            <4>1. c \in 1..Len(b)
                BY <1>5, <3>3
            <4>2. b[c] = Mark
                BY <1>1, <1>3, <1>5, <2>1, <2>2, <4>1 DEF Carries
            <4> QED BY <3>3, <4>2 DEF RunsOut
        <3> QED BY <1>3, <1>5, <3>2, <3>3 DEF RunsOut
    <2>3. CASE f.body[p] # Mark
        <3>1. Spot(f, p + 1) = Spot(f, p) + 1
            BY <1>1, <2>1, <2>3, Spots
        <3>2. c > Len(b)
            BY <1>3, <1>5, <1>8, <3>1
        <3> QED BY <3>2 DEF RunsOut
    <2> QED BY <2>2, <2>3
<1>9. ASSUME p = Len(f.body) + 1
      PROVE  c = f.to + 1 - base /\ Stuck(b, c)
    <2> DEFINE end == f.to + 1
    <2>1. base \in Nat /\ c \in Nat /\ f.to \in Nat /\ n \in Nat /\ Len(w) \in Nat
          /\ n =< Len(w) /\ Len(b) = n - base /\ c > 0
        BY <1>1, <1>3, <1>5
    <2>2. base + c = end
        BY <1>5, <1>6, <1>9
    <2>3. base + c = f.to + 1 /\ c = f.to + 1 - base
        <3> DEFINE t == f.to
        <3>1. base \in Nat /\ c \in Nat /\ t \in Nat /\ base + c = t + 1
            BY <2>1, <2>2
        <3> HIDE DEF t, c
        <3>2. c = t + 1 - base
            BY <3>1
        <3> QED BY <3>1, <3>2 DEF t
    <2>4. ASSUME c =< Len(b) PROVE Stuck(b, c)
        <3>1. f.to < Len(w) /\ c \in 1..Len(b)
            <4> DEFINE t == f.to
            <4>1. /\ base \in Nat /\ c \in Nat /\ t \in Nat /\ n \in Nat /\ Len(w) \in Nat
                  /\ n =< Len(w) /\ c > 0 /\ base + c = t + 1 /\ c =< n - base
                BY <2>1, <2>3, <2>4
            <4> HIDE DEF t, c
            <4>2. t < Len(w) /\ c \in 1..(n - base)
                BY <4>1
            <4> QED BY <2>1, <4>2 DEF t, c
        <3>2. b[c] = Mark
            BY <1>2, <1>3, <2>3, <3>1
        <3>3. ASSUME c < Len(b) PROVE Stuck(b, c)
            <4>1. c + 1 \in 1..Len(b)
                BY <1>3, <1>5, <3>3
            <4>2. base + (c + 1) = f.to + 2
                <5>1. base + (c + 1) = (base + c) + 1 /\ (f.to + 1) + 1 = f.to + 2
                    BY <2>1
                <5> QED BY <2>3, <5>1
            <4>3. b[c + 1] = w[base + (c + 1)]
                BY <1>3, <4>1
            <4>4. b[c + 1] # Mark
                BY <1>2, <3>1, <4>2, <4>3
            <4> QED BY <3>2, <3>3, <4>4 DEF Stuck, IsMarker
        <3>4. ASSUME c = Len(b) PROVE Stuck(b, c)
            BY <3>2, <3>4 DEF Stuck, RunsOut
        <3>5. c < Len(b) \/ c = Len(b)
            <4>1. Len(b) \in Nat /\ c \in Nat
                BY <2>1, <1>3
            <4> HIDE DEF c
            <4> QED BY <2>4, <4>1
        <3> QED BY <3>3, <3>4, <3>5
    <2>5. ASSUME c > Len(b) PROVE Stuck(b, c)
        BY <2>5 DEF Stuck, RunsOut
    <2>6. c =< Len(b) \/ c > Len(b)
        BY <1>3, <1>5
    <2> QED BY <2>3, <2>4, <2>5, <2>6
<1>10. ASSUME RunsOut(b, c)
       PROVE  n =< f.to + 1
    <2>1. c >= Len(b)
        BY <1>3, <1>5, <1>10 DEF RunsOut
    <2> QED BY <1>1, <1>3, <1>5, <1>6, <2>1
<1> QED BY <1>7, <1>8, <1>9, <1>10 DEF f, c

\* The cursor that starts at byte q of a body stands at the bytes after it, one by one,
\* and then stays where it gets stuck.
LEMMA Tracks ==
    ASSUME NEW w, NEW s, Stream(w, s), NEW j \in 1..Len(s),
           NEW b, NEW base, NEW n, IsPart(b, w, base, n),
           NEW q \in 1..(Len(s[j].body) + 1), Spot(s[j], q) > base, NEW m \in Nat
    PROVE  LET f == s[j]
               C == Cursor(b, Spot(f, q) - base, m)
           IN \A k \in 0..m :
                \/ /\ q + k =< Len(f.body) + 1
                   /\ \A i \in 0..k : C[i] = Spot(f, q + i) - base
                   /\ \A i \in 0..(k - 1) : ~Stuck(b, C[i])
                \/ Stuck(b, C[k]) /\ \E p \in q..(Len(f.body) + 1) :
                                       p =< q + k /\ C[k] = Spot(f, p) - base
<1> DEFINE f == s[j]
           L == Len(f.body)
           C == Cursor(b, Spot(f, q) - base, m)
           Free(k) == /\ q + k =< L + 1
                      /\ \A i \in 0..k : C[i] = Spot(f, q + i) - base
                      /\ \A i \in 0..(k - 1) : ~Stuck(b, C[i])
           Held(k) == Stuck(b, C[k]) /\ \E p \in q..(L + 1) : p =< q + k /\ C[k] = Spot(f, p) - base
           S == {k \in Nat : k =< m => Free(k) \/ Held(k)}
<1>1. f \in Frame /\ L \in Nat /\ q \in Nat /\ q =< L + 1 /\ 1 =< q
    BY FrameFacts
<1>2. base \in Nat /\ n \in Nat
    BY DEF IsPart
<1>3. C[0] = Spot(f, q) - base /\ \A k \in 1..m : C[k] = Advance(b, C[k - 1])
    BY CursorMoves
<1>4. ASSUME NEW p \in q..(L + 1)
      PROVE  p \in 1..(L + 1) /\ Spot(f, p) > base
    <2>1. p \in 1..(L + 1) /\ q \in 1..(L + 1) /\ (p = q \/ q < p)
        BY <1>1
    <2>2. Spot(f, p) \in Nat /\ Spot(f, q) \in Nat /\ (q < p => Spot(f, q) < Spot(f, p))
        BY <1>1, <2>1, Spots
    <2> QED BY <1>2, <2>1, <2>2
<1>5. ASSUME NEW p \in q..(L + 1)
      PROVE  /\ p =< L /\ Spot(f, p + 1) =< n + 1 =>
                  ~Stuck(b, Spot(f, p) - base)
                  /\ Advance(b, Spot(f, p) - base) = Spot(f, p + 1) - base
             /\ p =< L /\ Spot(f, p + 1) > n + 1 => Stuck(b, Spot(f, p) - base)
             /\ p = L + 1 => Stuck(b, Spot(f, p) - base)
    BY <1>4, ByteAt DEF Stuck
<1> HIDE DEF f, L, C
<1>6. \A c : Stuck(b, c) => Advance(b, c) = c
    BY DEF Stuck, Advance
<1>7. 0 \in S
    <2>1. q + 0 = q
        BY <1>1
    <2> QED BY <1>1, <1>3, <2>1
<1>8. \A k : k \in S <=> k \in Nat /\ (k =< m => Free(k) \/ Held(k))
    <2> HIDE DEF Free, Held
    <2> QED OBVIOUS
<1>9. \A k \in Nat \ {0} : k - 1 \in S => k \in S
    <2> SUFFICES ASSUME NEW k \in Nat \ {0}, k =< m, Free(k - 1) \/ Held(k - 1)
                 PROVE  Free(k) \/ Held(k)
        <3> HIDE DEF S, Free, Held
        <3> QED BY <1>8
    <2>1. k \in 1..m /\ k - 1 \in Nat /\ C[k] = Advance(b, C[k - 1])
        BY <1>3
    <2>2. ASSUME Held(k - 1) PROVE Held(k)
        <3>1. PICK p \in q..(L + 1) : p =< q + (k - 1) /\ C[k - 1] = Spot(f, p) - base
            BY <2>2
        <3>2. C[k] = C[k - 1]
            BY <1>6, <2>1, <2>2
        <3>3. p =< q + k
            BY <1>1, <2>1, <3>1
        <3> QED BY <2>2, <3>1, <3>2, <3>3
    <2>3. ASSUME Free(k - 1) PROVE Free(k) \/ Held(k)
        <3> DEFINE p == q + (k - 1)
        <3>1. p \in q..(L + 1) /\ k - 1 \in 0..(k - 1) /\ p + 1 = q + k /\ p =< q + k
            BY <1>1, <2>1, <2>3
        <3>2. C[k - 1] = Spot(f, p) - base
            BY <2>3, <3>1
        <3>3. CASE Stuck(b, C[k - 1])
            <4>1. C[k] = C[k - 1]
                BY <1>6, <2>1, <3>3
            <4> HIDE DEF p
            <4> QED BY <3>1, <3>2, <3>3, <4>1
        <3>4. CASE ~Stuck(b, C[k - 1])
            <4> HIDE DEF p
            <4>1. p # L + 1 /\ (p =< L => ~(Spot(f, p + 1) > n + 1))
                BY <1>5, <3>1, <3>2, <3>4
            <4>2. p =< L /\ p + 1 \in 1..(L + 1)
                BY <1>1, <3>1, <4>1
            <4>3. Spot(f, p + 1) \in Nat
                BY <1>1, <4>2, Spots DEF L
            <4>4. Spot(f, p + 1) =< n + 1
                BY <1>2, <4>1, <4>2, <4>3
            <4>5. C[k] = Spot(f, q + k) - base
                BY <1>5, <2>1, <3>1, <3>2, <4>2, <4>4
            <4>6. \A i \in 0..k : i = k \/ i \in 0..(k - 1)
                BY <2>1
            <4>7. \A i \in 0..(k - 1) : i = k - 1 \/ i \in 0..((k - 1) - 1)
                BY <2>1
            <4>8. q + k =< L + 1
                BY <1>1, <2>1, <3>1, <4>2
            <4>9. \A i \in 0..k : C[i] = Spot(f, q + i) - base
                BY <2>3, <4>5, <4>6
            <4>10. \A i \in 0..(k - 1) : ~Stuck(b, C[i])
                BY <2>3, <3>4, <4>7
            <4> QED BY <4>8, <4>9, <4>10
        <3> QED BY <3>3, <3>4
    <2> QED BY <2>2, <2>3
<1>10. Nat \subseteq S
    <2> HIDE DEF S
    <2> QED BY <1>7, <1>9, AllNumbers
<1>11. \A k \in 0..m : Free(k) \/ Held(k)
    BY <1>10
<1> QED BY <1>11 DEF f, L, C

\* What decoding at a start comes to, from byte q of a body on: it takes the bytes of
\* the body as they are, and goes no further than the end of the frame.
LEMMA AttemptFacts ==
    ASSUME NEW w, NEW s, Stream(w, s), NEW j \in 1..Len(s),
           NEW b, NEW base, NEW n, IsPart(b, w, base, n), NEW i \in Starts(b),
           NEW q \in 1..(Len(s[j].body) + 1), Spot(s[j], q) = base + i + 2
    PROVE  LET f == s[j]
               a == Attempt(b, i)
               N == 1 + TYPE_TO_MESSAGE_LEN[b[i + 1]]
           IN /\ a.place = i /\ a.type = b[i + 1]
              /\ a.end \in {"short", "marker", "whole"}
              /\ a.end = "short" => n =< f.to + 1
              /\ a.end # "short" => \E p \in 1..(Len(f.body) + 1) : a.resume = Spot(f, p) - base
              /\ a.end = "whole" => /\ q + N =< Len(f.body) + 1
                                    /\ a.resume = Spot(f, q + N) - base
                                    /\ a.body = [k \in 1..N |-> f.body[q + (k - 1)]]
              /\ q + N = Len(f.body) + 1 /\ f.to =< n => a.end = "whole"
              /\ q + N = Len(f.body) + 1 /\ f.to > n => a.end = "short"
<1> DEFINE f == s[j]
           L == Len(f.body)
           a == Attempt(b, i)
           N == 1 + TYPE_TO_MESSAGE_LEN[b[i + 1]]
           C == Cursor(b, i + 2, N)
<1>1. /\ f \in Frame /\ L \in Nat /\ f.to \in Nat /\ q \in Nat /\ q =< L + 1 /\ 1 =< q
      /\ f.to + 1 = Spot(f, L + 1)
    BY FrameFacts DEF Carries
<1>2. base \in Nat /\ n \in Nat /\ b \in Seq(Nat)
    BY DEF IsPart
<1>3. i \in Nat /\ b[i + 1] \in Known
    BY <1>2 DEF Starts
<1>4. N \in Nat /\ N >= 1
    <2>1. TYPE_TO_MESSAGE_LEN[b[i + 1]] \in Nat
        BY <1>3, BridgeAssumption
    <2> QED BY <2>1
<1>5. Spot(f, q) - base = i + 2 /\ Spot(f, q) > base
    BY <1>2, <1>3
<1>6. ASSUME NEW p \in q..(L + 1)
      PROVE  /\ p \in 1..(L + 1) /\ Spot(f, p) \in Nat /\ Spot(f, p) > base /\ Spot(f, p) =< f.to + 1
             /\ p =< L => Spot(f, p + 1) \in Nat /\ Spot(f, p + 1) =< f.to + 1
    <2>1. p \in 1..(L + 1) /\ q \in 1..(L + 1) /\ L + 1 \in 1..(L + 1) /\ (p = q \/ q < p)
          /\ (p = L + 1 \/ p < L + 1)
          /\ (p =< L => p + 1 \in 1..(L + 1) /\ (p + 1 = L + 1 \/ p + 1 < L + 1))
        <3>1. L \in Nat /\ q \in Nat /\ q =< L + 1 /\ 1 =< q /\ p \in q..(L + 1)
            BY <1>1
        <3> HIDE DEF L, f
        <3>2. p \in Nat /\ q =< p /\ p =< L + 1
            BY <3>1
        <3>3. p \in 1..(L + 1) /\ q \in 1..(L + 1) /\ L + 1 \in 1..(L + 1)
            BY <3>1, <3>2
        <3>4. (p = q \/ q < p) /\ (p = L + 1 \/ p < L + 1)
            BY <3>1, <3>2
        <3>5. p =< L => p + 1 \in 1..(L + 1) /\ (p + 1 = L + 1 \/ p + 1 < L + 1)
            BY <3>1, <3>2
        <3> QED BY <3>3, <3>4, <3>5
    <2>2. \A k, l \in 1..(L + 1) : Spot(f, k) \in Nat /\ (k < l => Spot(f, k) < Spot(f, l))
        BY <1>1, Spots
    <2>3. Spot(f, p) > base
        BY <1>2, <1>5, <2>1, <2>2
    <2> HIDE DEF L
    <2>4. \A k \in 1..(L + 1) : k = L + 1 \/ k < L + 1 => Spot(f, k) =< Spot(f, L + 1)
        BY <2>1, <2>2
    <2>5. Spot(f, p) =< f.to + 1
        BY <1>1, <2>1, <2>4
    <2>6. p =< L => Spot(f, p + 1) \in Nat /\ Spot(f, p + 1) =< f.to + 1
        BY <1>1, <2>1, <2>2, <2>4
    <2> QED BY <2>1, <2>2, <2>3, <2>5, <2>6
<1>7. ASSUME NEW p \in q..(L + 1)
      PROVE  LET c == Spot(f, p) - base
             IN /\ p =< L /\ Spot(f, p + 1) =< n + 1 =>
                     ~Stuck(b, c) /\ Advance(b, c) = Spot(f, p + 1) - base /\ b[c] = f.body[p]
                /\ p =< L /\ Spot(f, p + 1) > n + 1 => RunsOut(b, c)
                /\ p = L + 1 => Stuck(b, c)
                /\ RunsOut(b, c) => n =< f.to + 1
    BY <1>6, ByteAt
<1>8. \A k \in 0..N :
        \/ /\ q + k =< L + 1
           /\ \A l \in 0..k : C[l] = Spot(f, q + l) - base
           /\ \A l \in 0..(k - 1) : ~Stuck(b, C[l])
        \/ Stuck(b, C[k]) /\ \E p \in q..(L + 1) : p =< q + k /\ C[k] = Spot(f, p) - base
    <2>1. Cursor(b, Spot(f, q) - base, N) = C
        BY <1>5
    <2>2. N \in Nat /\ Spot(f, q) > base
        BY <1>4, <1>5
    <2> DEFINE D == Cursor(b, Spot(f, q) - base, N)
    <2> HIDE DEF N
    <2>3. \A k \in 0..N :
            \/ /\ q + k =< L + 1
               /\ \A l \in 0..k : D[l] = Spot(f, q + l) - base
               /\ \A l \in 0..(k - 1) : ~Stuck(b, D[l])
            \/ Stuck(b, D[k]) /\ \E p \in q..(L + 1) : p =< q + k /\ D[k] = Spot(f, p) - base
        BY <2>2, Tracks
    <2> QED BY <2>1, <2>3
<1>9. /\ a.place = i /\ a.type = b[i + 1] /\ a.resume = C[N]
      /\ a.end = IF RunsOut(b, C[N - 1]) THEN "short"
                 ELSE IF IsMarker(b, C[N - 1]) THEN "marker" ELSE "whole"
      /\ a.end = "whole" => a.body = [k \in 1..N |-> b[C[k - 1]]]
    <2> DEFINE end == IF RunsOut(b, C[N - 1]) THEN "short"
                      ELSE IF IsMarker(b, C[N - 1]) THEN "marker" ELSE "whole"
    <2>1. a = [place |-> i, type |-> b[i + 1], end |-> end, resume |-> C[N],
               body |-> IF end = "whole" THEN [k \in 1..N |-> b[C[k - 1]]] ELSE <<>>]
        BY DEF Attempt
    <2> HIDE DEF a, C, N
    <2> QED BY <2>1
<1>10. C[N] = Advance(b, C[N - 1])
    <2>1. N \in 1..N
        BY <1>4
    <2> QED BY <1>4, <2>1, CursorMoves
<1> HIDE DEF f, L, a, N, C
<1> DEFINE k == N - 1
<1>11. k \in 0..N /\ k + 1 = N /\ k \in Nat
    BY <1>4
<1>12. PICK p \in q..(L + 1) : p =< q + k /\ C[k] = Spot(f, p) - base /\ (~Stuck(b, C[k]) => p = q + k)
    <2>1. CASE /\ q + k =< L + 1
               /\ \A l \in 0..k : C[l] = Spot(f, q + l) - base
        <3>1. k \in 0..k /\ q + k \in q..(L + 1) /\ q + k =< q + k
            BY <1>1, <1>11, <2>1
        <3>2. C[k] = Spot(f, q + k) - base
            BY <2>1, <3>1
        <3> HIDE DEF k
        <3> QED BY <3>1, <3>2
    <2>2. CASE Stuck(b, C[k]) /\ \E p \in q..(L + 1) : p =< q + k /\ C[k] = Spot(f, p) - base
        <3> HIDE DEF k
        <3> QED BY <2>2
    <2> HIDE DEF k
    <2> QED BY <1>8, <1>11, <2>1, <2>2
<1> HIDE DEF k
<1>13. /\ a.end = "short" <=> RunsOut(b, C[k])
       /\ a.end = "whole" <=> ~Stuck(b, C[k])
       /\ a.end \in {"short", "marker", "whole"}
    <2>1. k = N - 1
        BY DEF k
    <2>2. RunsOut(b, C[k]) \in BOOLEAN /\ IsMarker(b, C[k]) \in BOOLEAN
        BY DEF RunsOut, IsMarker
    <2> QED BY <1>9, <2>1, <2>2 DEF Stuck
<1>14. a.end = "short" => n =< f.to + 1
    BY <1>7, <1>12, <1>13
<1>15. ASSUME a.end = "whole"
       PROVE  /\ q + N =< L + 1 /\ a.resume = Spot(f, q + N) - base
              /\ a.body = [l \in 1..N |-> f.body[q + (l - 1)]]
    <2>1. p = q + k /\ ~Stuck(b, C[k])
        BY <1>12, <1>13, <1>15
    <2>2. p # L + 1
        BY <1>7, <1>12, <2>1
    <2>3. p =< L /\ p \in Nat /\ p + 1 = q + N
        <3>1. p \in q..(L + 1) /\ L \in Nat /\ q \in Nat
            BY <1>1, <1>12
        <3>2. p + 1 = q + N
            BY <1>11, <2>1, <3>1
        <3> QED BY <2>2, <3>1, <3>2
    <2>4. ~(Spot(f, p + 1) > n + 1)
        BY <1>7, <1>12, <2>1, <2>3 DEF Stuck
    <2>5. Spot(f, p + 1) =< n + 1
        BY <1>2, <1>6, <2>3, <2>4
    <2>6. a.resume = Spot(f, q + N) - base
        BY <1>7, <1>9, <1>10, <1>12, <2>3, <2>5 DEF k
    <2>7. \A l \in 0..k : C[l] = Spot(f, q + l) - base /\ ~Stuck(b, C[l])
        <3>1. /\ \A l \in 0..k : C[l] = Spot(f, q + l) - base
              /\ \A l \in 0..(k - 1) : ~Stuck(b, C[l])
            BY <1>8, <1>11, <2>1
        <3>2. \A l \in 0..k : l = k \/ l \in 0..(k - 1)
            BY <1>11
        <3> QED BY <2>1, <3>1, <3>2
    <2>8. ASSUME NEW l \in 1..N PROVE b[C[l - 1]] = f.body[q + (l - 1)]
        <3>1. l - 1 \in 0..k /\ q + (l - 1) \in q..(L + 1)
            BY <1>1, <1>11, <2>3
        <3>2. C[l - 1] = Spot(f, q + (l - 1)) - base /\ ~Stuck(b, C[l - 1])
            BY <2>7, <3>1
        <3>3. ASSUME NEW o \in q..(L + 1), ~Stuck(b, Spot(f, o) - base)
              PROVE  b[Spot(f, o) - base] = f.body[o]
            <4>1. o # L + 1
                BY <1>7, <3>3
            <4>2. o =< L
                BY <1>1, <4>1
            <4>3. ~(Spot(f, o + 1) > n + 1)
                BY <1>7, <3>3, <4>2 DEF Stuck
            <4>4. Spot(f, o + 1) =< n + 1
                BY <1>2, <1>6, <4>2, <4>3
            <4> QED BY <1>7, <4>2, <4>4
        <3> QED BY <3>1, <3>2, <3>3
    <2>9. a.body = [l \in 1..N |-> f.body[q + (l - 1)]]
        BY <1>9, <1>15, <2>8
    <2> QED BY <1>1, <2>3, <2>6, <2>9
<1>16. ASSUME a.end # "short"
       PROVE  \E o \in 1..(L + 1) : a.resume = Spot(f, o) - base
    <2>1. CASE a.end = "whole"
        <3>1. q + N \in 1..(L + 1)
            BY <1>1, <1>4, <1>15, <2>1
        <3> QED BY <1>15, <2>1, <3>1
    <2>2. CASE a.end = "marker"
        <3>1. C[N] = C[k]
            BY <1>10, <1>13, <2>2 DEF Stuck, Advance, k
        <3> QED BY <1>6, <1>9, <1>12, <3>1
    <2> QED BY <1>13, <1>16, <2>1, <2>2
<1>17. ASSUME q + N = L + 1
       PROVE  /\ f.to =< n => a.end = "whole"
              /\ f.to > n => a.end = "short"
    <2>1. p =< L
        BY <1>1, <1>11, <1>12, <1>17
    <2>2. ASSUME f.to =< n PROVE ~Stuck(b, C[k])
        <3>1. Spot(f, p + 1) =< n + 1
            <4> DEFINE t == f.to
            <4>1. Spot(f, p + 1) \in Nat /\ Spot(f, p + 1) =< t + 1 /\ t =< n /\ t \in Nat /\ n \in Nat
                BY <1>1, <1>2, <1>6, <2>1, <2>2
            <4> HIDE DEF t
            <4> QED BY <4>1
        <3> QED BY <1>7, <1>12, <2>1, <3>1
    <2>3. ASSUME f.to > n PROVE RunsOut(b, C[k])
        <3>1. CASE p = L
            <4>1. Spot(f, p + 1) > n + 1
                BY <1>1, <1>2, <2>3, <3>1
            <4> QED BY <1>7, <1>12, <2>1, <4>1
        <3>2. CASE p # L
            <4>1. p # q + k
                BY <1>1, <1>11, <1>17, <3>2
            <4>2. Stuck(b, C[k])
                BY <1>12, <4>1
            <4>3. ~(Spot(f, p + 1) =< n + 1)
                BY <1>7, <1>12, <2>1, <4>2
            <4>4. Spot(f, p + 1) > n + 1
                BY <1>2, <1>6, <2>1, <4>3
            <4> QED BY <1>7, <1>12, <2>1, <4>4
        <3> QED BY <3>1, <3>2
    <2> QED BY <1>13, <2>2, <2>3
<1> QED BY <1>9, <1>13, <1>14, <1>15, <1>16, <1>17 DEF f, L, a, N

\* What decoding comes to at any start in the buffer that lies in frame j.
LEMMA StartFacts ==
    ASSUME NEW w, NEW s, Stream(w, s), NEW j \in 1..Len(s),
           NEW b, NEW base, NEW n, IsPart(b, w, base, n), NEW i \in Starts(b),
           base + i \in s[j].from..s[j].to
    PROVE  LET f == s[j]
               a == Attempt(b, i)
           IN /\ a.place = i /\ a.end \in {"short", "marker", "whole"}
              /\ a.end = "short" => n =< f.to + 1
              /\ a.end # "short" => a.resume \in Int /\ base + a.resume =< f.to + 1
              /\ base + i = f.from =>
                   /\ f.type \in Known /\ a.type = f.type
                   /\ f.to =< n => /\ a.end = "whole" /\ a.body = f.body
                                   /\ base + a.resume = f.to + 1
                   /\ f.to > n => a.end = "short"
              /\ base + i # f.from /\ f.type \notin Known /\ a.end = "whole" => ~Wanted(a.type)
<1> DEFINE f == s[j]
           L == Len(f.body)
           a == Attempt(b, i)
           N == 1 + TYPE_TO_MESSAGE_LEN[b[i + 1]]
<1>1. /\ f \in Frame /\ Fits(f) /\ L \in Nat \ {0} /\ f.to \in Nat /\ f.from \in Nat \ {0}
      /\ f.to + 1 = Spot(f, L + 1) /\ f.body \in Seq(Nat) /\ L = Len(f.body) /\ Len(w) \in Nat
    BY FrameFacts DEF Carries
<1>2. /\ base \in Nat /\ n \in Nat /\ n =< Len(w) /\ b \in Seq(Nat) /\ Len(b) = n - base
      /\ \A k \in 1..Len(b) : b[k] = w[base + k]
    BY DEF IsPart
<1>3. i \in Nat \ {0} /\ i + 1 =< Len(b) /\ b[i] = Mark /\ b[i + 1] \in Known
    BY <1>2 DEF Starts
<1>4. /\ base + i < Len(w) /\ (base + i) + 1 = base + (i + 1)
      /\ i \in 1..Len(b) /\ i + 1 \in 1..Len(b)
    BY <1>1, <1>2, <1>3
<1>5. w[base + i] = Mark /\ w[(base + i) + 1] = b[i + 1]
    <2>1. b[i] = w[base + i] /\ b[i + 1] = w[base + (i + 1)]
        BY <1>2, <1>4
    <2> QED BY <1>3, <1>4, <2>1
<1>6. N \in Nat
    <2>1. TYPE_TO_MESSAGE_LEN[b[i + 1]] \in Nat
        BY <1>3, BridgeAssumption
    <2> QED BY <2>1
<1>7. ASSUME NEW p \in 1..(L + 1)
      PROVE  Spot(f, p) \in Nat /\ Spot(f, p) =< f.to + 1
    <2>1. L + 1 \in 1..(L + 1) /\ (p = L + 1 \/ p < L + 1)
        BY <1>1
    <2>2. \A k, l \in 1..(L + 1) : Spot(f, k) \in Nat /\ (k < l => Spot(f, k) < Spot(f, l))
        BY <1>1, Spots
    <2> HIDE DEF L, f
    <2>3. p = L + 1 \/ Spot(f, p) < Spot(f, L + 1)
        BY <2>1, <2>2
    <2>4. Spot(f, p) \in Nat /\ Spot(f, L + 1) \in Nat
        BY <2>1, <2>2
    <2>5. Spot(f, p) =< Spot(f, L + 1)
        BY <2>3, <2>4
    <2>6. Spot(f, L + 1) = f.to + 1
        BY <1>1 DEF L
    <2> QED BY <2>4, <2>5, <2>6
<1>8. ASSUME NEW q \in 1..(L + 1), Spot(f, q) = base + i + 2
      PROVE  /\ a.place = i /\ a.type = b[i + 1]
             /\ a.end \in {"short", "marker", "whole"}
             /\ a.end = "short" => n =< f.to + 1
             /\ a.end # "short" => a.resume \in Int /\ base + a.resume =< f.to + 1
             /\ a.end = "whole" => /\ q + N =< L + 1
                                   /\ a.resume = Spot(f, q + N) - base
                                   /\ a.body = [k \in 1..N |-> f.body[q + (k - 1)]]
             /\ q + N = L + 1 /\ f.to =< n => a.end = "whole"
             /\ q + N = L + 1 /\ f.to > n => a.end = "short"
    <2>1. /\ a.place = i /\ a.type = b[i + 1]
          /\ a.end \in {"short", "marker", "whole"}
          /\ a.end = "short" => n =< f.to + 1
          /\ a.end # "short" => \E p \in 1..(L + 1) : a.resume = Spot(f, p) - base
          /\ a.end = "whole" => /\ q + N =< L + 1
                                /\ a.resume = Spot(f, q + N) - base
                                /\ a.body = [k \in 1..N |-> f.body[q + (k - 1)]]
          /\ q + N = L + 1 /\ f.to =< n => a.end = "whole"
          /\ q + N = L + 1 /\ f.to > n => a.end = "short"
        BY <1>8, AttemptFacts
    <2> HIDE DEF a, f, L, N
    <2>2. ASSUME a.end # "short" PROVE a.resume \in Int /\ base + a.resume =< f.to + 1
        <3>1. PICK p \in 1..(L + 1) : a.resume = Spot(f, p) - base
            BY <2>1, <2>2
        <3>2. Spot(f, p) \in Nat /\ Spot(f, p) =< f.to + 1 /\ base \in Nat /\ f.to \in Nat
            BY <1>1, <1>2, <1>7
        <3> QED BY <3>1, <3>2
    <2> QED BY <2>1, <2>2
<1>9. CASE base + i = f.from /\ f.type = b[i + 1]
    <2>1. 1 \in 1..(L + 1) /\ Spot(f, 1) = base + i + 2
        <3>1. Spot(f, 1) = f.from + 2
            BY <1>1, Spots
        <3> QED BY <1>1, <1>9, <3>1
    <2>2. f.type \in Known /\ L = N /\ 1 + N = L + 1
        <3>1. f.type \in Known /\ L = 1 + TYPE_TO_MESSAGE_LEN[b[i + 1]]
            BY <1>1, <1>3, <1>9 DEF Fits
        <3>2. L = N
            BY <3>1
        <3> HIDE DEF L, N
        <3>3. 1 + N = L + 1
            BY <1>6, <3>2
        <3> QED BY <3>1, <3>2, <3>3
    <2>3. ASSUME a.end = "whole" PROVE a.body = f.body /\ base + a.resume = f.to + 1
        <3>1. a.resume = Spot(f, L + 1) - base /\ a.body = [k \in 1..N |-> f.body[1 + (k - 1)]]
            BY <1>8, <2>1, <2>2, <2>3
        <3>2. base + a.resume = f.to + 1
            <4> DEFINE t == Spot(f, L + 1)
            <4>1. a.resume = t - base /\ t = f.to + 1
                BY <1>1, <3>1
            <4>2. t \in Nat /\ base \in Nat
                <5>1. f.to \in Nat /\ base \in Nat
                    BY <1>1, <1>2
                <5> HIDE DEF t
                <5> QED BY <4>1, <5>1
            <4> HIDE DEF t, a, f
            <4>3. base + (t - base) = t
                BY <4>2
            <4> QED BY <4>1, <4>3
        <3>3. \A k \in 1..L : 1 + (k - 1) = k
            BY <1>1
        <3> HIDE DEF a, f, L, N
        <3>4. a.body = [k \in 1..L |-> f.body[k]]
            BY <2>2, <3>1, <3>3
        <3> QED BY <1>1, <3>2, <3>4
    <2> HIDE DEF a, f, L, N
    <2> QED BY <1>8, <1>9, <2>1, <2>2, <2>3 DEF a, f
<1>10. ASSUME NEW q \in 1..(L - 1), f.body[q] = Mark, f.body[q + 1] = b[i + 1],
              base + i = Spot(f, q) + 1, Spot(f, q + 2) = (base + i) + 2
       PROVE  /\ a.place = i /\ a.end \in {"short", "marker", "whole"}
              /\ a.end = "short" => n =< f.to + 1
              /\ a.end # "short" => a.resume \in Int /\ base + a.resume =< f.to + 1
              /\ base + i # f.from
              /\ f.type \notin Known /\ a.end = "whole" => ~Wanted(a.type)
    <2>1. q + 2 \in 1..(L + 1) /\ (base + i) + 2 = base + i + 2
        BY <1>1
    <2>2. /\ a.place = i /\ a.type = b[i + 1]
          /\ a.end \in {"short", "marker", "whole"}
          /\ a.end = "short" => n =< f.to + 1
          /\ a.end # "short" => a.resume \in Int /\ base + a.resume =< f.to + 1
          /\ a.end = "whole" => (q + 2) + N =< L + 1
        BY <1>8, <1>10, <2>1
    <2>3. base + i # f.from
        <3>1. 1 \in 1..(L + 1) /\ q \in 1..(L + 1) /\ (q = 1 \/ 1 < q)
            <4>1. L \in Nat /\ q \in 1..(L - 1)
                BY <1>1
            <4> HIDE DEF L
            <4> QED BY <4>1
        <3>2. Spot(f, 1) = f.from + 2 /\ Spot(f, q) \in Nat /\ (1 < q => Spot(f, 1) < Spot(f, q))
            BY <1>1, <3>1, Spots
        <3> QED BY <1>1, <1>2, <1>10, <3>1, <3>2
    <2>4. ASSUME f.type \notin Known, a.end = "whole", Wanted(a.type) PROVE FALSE
        <3>1. /\ q + 1 \in 2..L /\ (q + 1) - 1 = q
            BY <1>1
        <3>2. L - (q + 1) =< TYPE_TO_MESSAGE_LEN[b[i + 1]]
            BY <1>1, <1>10, <2>2, <2>4, <3>1 DEF Fits
        <3>3. (q + 2) + N =< L + 1
            BY <2>2, <2>4
        <3>4. TYPE_TO_MESSAGE_LEN[b[i + 1]] \in Nat
            BY <1>3, BridgeAssumption
        <3>5. L \in Nat /\ q \in Nat
            BY <1>1
        <3> DEFINE T == TYPE_TO_MESSAGE_LEN[b[i + 1]]
        <3>6. L - (q + 1) =< T /\ (q + 2) + (1 + T) =< L + 1 /\ T \in Nat
            BY <3>2, <3>3, <3>4
        <3> HIDE DEF T, L
        <3> QED BY <3>5, <3>6
    <2> QED BY <2>2, <2>3, <2>4
<1>11. \/ base + i = f.from /\ f.type = b[i + 1]
       \/ \E q \in 1..(L - 1) :
            /\ f.body[q] = Mark /\ f.body[q + 1] = b[i + 1]
            /\ base + i = Spot(f, q) + 1 /\ Spot(f, q + 2) = (base + i) + 2
    <2>1. w[(base + i) + 1] \in Known
        BY <1>3, <1>5
    <2> QED BY <1>4, <1>5, <2>1, StartKinds
<1>12. CASE \E q \in 1..(L - 1) :
              /\ f.body[q] = Mark /\ f.body[q + 1] = b[i + 1]
              /\ base + i = Spot(f, q) + 1 /\ Spot(f, q + 2) = (base + i) + 2
    <2>1. PICK q \in 1..(L - 1) :
            /\ f.body[q] = Mark /\ f.body[q + 1] = b[i + 1]
            /\ base + i = Spot(f, q) + 1 /\ Spot(f, q + 2) = (base + i) + 2
        BY <1>12
    <2>2. /\ a.place = i /\ a.end \in {"short", "marker", "whole"}
          /\ a.end = "short" => n =< f.to + 1
          /\ a.end # "short" => a.resume \in Int /\ base + a.resume =< f.to + 1
          /\ base + i # f.from
          /\ f.type \notin Known /\ a.end = "whole" => ~Wanted(a.type)
        BY <1>10, <2>1
    <2> HIDE DEF a
    <2> QED BY <2>2 DEF a
<1> QED BY <1>9, <1>11, <1>12

-----------------------------------------------------------------------------
(* The frames of a buffer *)

\* Attempts that are told apart by their place: one set of them is made.
LEMMA MadeExists ==
    ASSUME NEW A, NEW last \in Nat, \A a \in A : a.place \in 0..last
    PROVE  \E M \in SUBSET A : Made(M, A)
<1> DEFINE Upto(n) == {a \in A : a.place =< n}
           S == {n \in Nat : \E M \in SUBSET Upto(n) : Made(M, Upto(n))}
           Goes(a, M) == \A m \in M : m.place < a.place => m.end # "short" /\ m.resume =< a.place
<1>1. 0 \in S
    <2> DEFINE M == Upto(0)
    <2>1. \A a \in M : a.place = 0
        OBVIOUS
    <2>2. Made(M, Upto(0))
        BY <2>1 DEF Made
    <2> QED BY <2>2
<1>2. \A n \in Nat \ {0} : n - 1 \in S => n \in S
    <2> SUFFICES ASSUME NEW n \in Nat \ {0}, n - 1 \in S
                 PROVE  \E M \in SUBSET Upto(n) : Made(M, Upto(n))
        OBVIOUS
    <2>1. PICK G \in SUBSET Upto(n - 1) : Made(G, Upto(n - 1))
        OBVIOUS
    <2> DEFINE H == {a \in A : a.place = n /\ Goes(a, G)}
               M == G \cup H
    <2>2. \A a \in Upto(n) : a.place \in Nat /\ (a \in Upto(n - 1) \/ a.place = n)
        OBVIOUS
    <2>3. \A a \in Upto(n - 1) : a \in Upto(n) /\ a.place \in Nat /\ a.place < n
        OBVIOUS
    <2>4. M \in SUBSET Upto(n)
        BY <2>3
    <2>5. ASSUME NEW a \in Upto(n) PROVE Goes(a, M) <=> Goes(a, G)
        <3>1. \A m \in H : ~(m.place < a.place)
            BY <2>2
        <3> QED BY <3>1
    <2>6. ASSUME NEW a \in Upto(n) PROVE a \in M <=> Goes(a, M)
        <3>1. CASE a \in Upto(n - 1)
            <4>1. a \notin H
                BY <2>3, <3>1
            <4>2. a \in G <=> Goes(a, G)
                BY <2>1, <3>1 DEF Made
            <4> HIDE DEF Goes, H
            <4> QED BY <2>5, <4>1, <4>2
        <3>2. CASE a.place = n
            <4>1. a \notin G
                BY <2>3, <3>2
            <4>2. a \in H <=> Goes(a, G)
                BY <3>2
            <4> HIDE DEF Goes, H
            <4> QED BY <2>5, <4>1, <4>2
        <3> QED BY <2>2, <3>1, <3>2
    <2>7. Made(M, Upto(n))
        BY <2>6 DEF Made
    <2> QED BY <2>4, <2>7
<1>3. Nat \subseteq S
    <2> HIDE DEF S
    <2> QED BY <1>1, <1>2, AllNumbers
<1>4. Upto(last) = A
    OBVIOUS
<1> QED BY <1>3, <1>4

\* No known frame is cut by the first `base` bytes.
CutsNone(s, base) ==
    \A j \in 1..Len(s) : s[j].type \in Known /\ s[j].from =< base => s[j].to =< base

\* The frames of s that end between two positions and are written.
Between(s, base, n) ==
    {j \in 1..Len(s) : Wanted(s[j].type) /\ s[j].from > base /\ s[j].to =< n}

Attempts(b) == {Attempt(b, i) : i \in Starts(b)}

\* The attempt at a known frame is made, and no wanted frame is found but those sent.
LEMMA MadeFacts ==
    ASSUME NEW w, NEW s, Stream(w, s), NEW b, NEW base, NEW n, IsPart(b, w, base, n),
           CutsNone(s, base), NEW M \in SUBSET Attempts(b), Made(M, Attempts(b))
    PROVE  /\ \A m \in M : \E j \in 1..Len(s) :
                /\ m.place \in Starts(b) /\ m = Attempt(b, m.place)
                /\ base + m.place \in s[j].from..s[j].to
                /\ m.end = "short" => n =< s[j].to + 1
                /\ m.end # "short" => m.resume \in Int /\ base + m.resume =< s[j].to + 1
                /\ m.end = "whole" /\ Wanted(m.type) =>
                     base + m.place = s[j].from /\ j \in Between(s, base, n) /\ m.body = s[j].body
           /\ \A j \in 1..Len(s) :
                s[j].type \in Known /\ s[j].from > base /\ s[j].from + 1 =< n =>
                  \E m \in M : /\ base + m.place = s[j].from /\ m.type = s[j].type
                               /\ s[j].to =< n => /\ m.end = "whole" /\ m.body = s[j].body
                                                  /\ base + m.resume = s[j].to + 1
                               /\ s[j].to > n => m.end = "short"
<1>1. /\ b \in Seq(Nat) /\ w \in Seq(Nat) /\ \A k \in 1..Len(b) : b[k] = w[base + k]
    BY DEF IsPart, Stream
<1>2. /\ base \in Nat /\ n \in Nat /\ base =< n /\ n =< Len(w) /\ Len(w) \in Nat
      /\ Len(b) = n - base
    BY <1>1 DEF IsPart
<1>3. \A i \in Starts(b) : i \in Nat \ {0} /\ base + i < n
    BY <1>2 DEF Starts
<1>4. ASSUME NEW i \in Starts(b)
      PROVE  \E j \in 1..Len(s) : base + i \in s[j].from..s[j].to
    <2>1. base + i \in 1..Len(w)
        BY <1>2, <1>3
    <2> QED BY <2>1, StreamFacts
<1>5. ASSUME NEW i \in Starts(b), NEW j \in 1..Len(s), base + i \in s[j].from..s[j].to
      PROVE  LET a == Attempt(b, i)
             IN /\ a.place = i
                /\ a.end = "short" => n =< s[j].to + 1
                /\ a.end # "short" => a.resume \in Int /\ base + a.resume =< s[j].to + 1
                /\ base + i = s[j].from =>
                     /\ s[j].type \in Known /\ a.type = s[j].type
                     /\ s[j].to =< n => /\ a.end = "whole" /\ a.body = s[j].body
                                        /\ base + a.resume = s[j].to + 1
                     /\ s[j].to > n => a.end = "short"
                /\ base + i # s[j].from /\ s[j].type \notin Known /\ a.end = "whole" =>
                     ~Wanted(a.type)
    BY <1>5, StartFacts
<1>6. \A m \in M : m.place \in Starts(b) /\ m = Attempt(b, m.place)
    <2> TAKE m \in M
    <2>1. PICK i \in Starts(b) : m = Attempt(b, i)
        BY DEF Attempts
    <2>2. Attempt(b, i).place = i
        BY <1>4, <1>5
    <2> QED BY <2>1, <2>2
<1>7. \A j \in 1..Len(s) : s[j].from \in Nat /\ s[j].to \in Nat /\ s[j].to =< Len(w)
    BY FrameFacts
<1>8. \A j \in 1..Len(s) : w[s[j].from] = Mark /\ w[s[j].from + 1] = s[j].type
    BY FrameFacts DEF Carries
<1>9. \A j, k \in 1..Len(s) : j < k => s[j].to < s[k].from
    BY DEF Stream
<1>10. ASSUME NEW j \in 1..Len(s), s[j].type \in Known, s[j].from > base, s[j].from + 1 =< n
      PROVE  /\ s[j].from - base \in Starts(b)
             /\ Attempt(b, s[j].from - base) \in M
    <2> DEFINE i == s[j].from - base
               a == Attempt(b, i)
    <2>1. s[j].from \in Nat /\ s[j].from > base /\ s[j].from + 1 =< n
        BY <1>7, <1>10
    <2>2. i \in Nat \ {0} /\ i + 1 =< Len(b) /\ base + i = s[j].from
        <3> DEFINE p == s[j].from
        <3>1. p \in Nat /\ p > base /\ p + 1 =< n /\ i = p - base
            BY <2>1
        <3> HIDE DEF p, i
        <3>2. i \in Nat \ {0} /\ base + i = p
            BY <1>2, <3>1
        <3>3. i + 1 =< n - base
            BY <1>2, <3>1
        <3> QED BY <1>2, <3>2, <3>3 DEF p
    <2> HIDE DEF i
    <2>3. Len(b) \in Nat /\ base \in Nat
        BY <1>2
    <2>4. i \in Nat /\ i \in 1..(Len(b) - 1) /\ base + i = s[j].from /\ i \in 1..Len(b) /\ i + 1 \in 1..Len(b)
          /\ base + (i + 1) = s[j].from + 1
        BY <2>2, <2>3
    <2>5. b[i] = Mark /\ b[i + 1] \in Known
        <3>1. b[i] = w[base + i] /\ b[i + 1] = w[base + (i + 1)]
            BY <1>1, <2>4
        <3> QED BY <1>10, <1>8, <2>4, <3>1
    <2>6. i \in Starts(b)
        BY <2>4, <2>5 DEF Starts
    <2>7. a.place = i
        <3>1. base + i \in s[j].from..s[j].to
            <4>1. s[j].from + 2 =< s[j].to
                BY StreamFacts
            <4> QED BY <1>7, <2>4, <4>1
        <3> QED BY <1>5, <2>6, <3>1
    <2>8. ASSUME NEW m \in M, m.place < i
          PROVE  m.end # "short" /\ m.resume =< i
        <3>1. m.place \in Starts(b) /\ m = Attempt(b, m.place)
            BY <1>6
        <3>2. PICK k \in 1..Len(s) : base + m.place \in s[k].from..s[k].to
            BY <1>4, <3>1
        <3>3. /\ m.end = "short" => n =< s[k].to + 1
              /\ m.end # "short" => m.resume \in Int /\ base + m.resume =< s[k].to + 1
            BY <1>5, <3>1, <3>2
        <3>4. m.place \in Nat
            BY <1>3, <3>1
        <3>5. s[k].from < s[j].from
            <4>1. s[k].from \in Nat /\ s[k].from =< base + m.place /\ base + m.place < base + i
                BY <1>2, <1>7, <2>4, <2>8, <3>2, <3>4
            <4> QED BY <1>2, <2>4, <3>4, <4>1
        <3>6. s[k].to < s[j].from
            <4>1. k # j /\ ~(j < k)
                <5>1. k # j
                    BY <1>7, <3>5
                <5>2. ASSUME j < k PROVE FALSE
                    <6>1. s[j].to < s[k].from /\ s[j].from + 2 =< s[j].to
                        BY <1>9, <5>2, StreamFacts
                    <6> QED BY <1>7, <3>5, <6>1
                <5> QED BY <5>1, <5>2
            <4>2. k < j
                BY <4>1
            <4> QED BY <1>9, <4>2
        <3>7. s[k].to + 1 =< s[j].from /\ s[j].from < n
            BY <1>2, <1>7, <1>10, <3>6
        <3>8. m.end # "short"
            BY <1>2, <1>7, <3>3, <3>7
        <3>9. m.resume \in Int /\ base + m.resume =< s[k].to + 1
            BY <3>3, <3>8
        <3>10. s[k].to \in Nat /\ s[k].to + 1 =< base + i
            BY <1>7, <2>4, <3>7
        <3>11. m.resume =< i
            <4> DEFINE x == m.resume  y == s[k].to
            <4>1. x \in Int /\ y \in Nat /\ base + x =< y + 1 /\ y + 1 =< base + i
                BY <3>9, <3>10
            <4>2. base \in Nat /\ i \in Nat
                BY <1>2, <2>4
            <4> HIDE DEF x, y
            <4>3. x =< i
                BY <4>1, <4>2
            <4> QED BY <4>3 DEF x
        <3> QED BY <3>8, <3>11
    <2>9. a \in M
        <3>1. a \in Attempts(b)
            BY <2>6 DEF Attempts
        <3> HIDE DEF a
        <3> QED BY <2>7, <2>8, <3>1 DEF Made
    <2> QED BY <2>6, <2>9 DEF i
<1>11. ASSUME NEW j \in 1..Len(s), s[j].type \in Known, s[j].from > base, s[j].from + 1 =< n
      PROVE  \E m \in M : /\ base + m.place = s[j].from /\ m.type = s[j].type
                          /\ s[j].to =< n => /\ m.end = "whole" /\ m.body = s[j].body
                                             /\ base + m.resume = s[j].to + 1
                          /\ s[j].to > n => m.end = "short"
    <2> DEFINE i == s[j].from - base
    <2>1. i \in Starts(b) /\ Attempt(b, i) \in M
        BY <1>10, <1>11
    <2>2. base + i = s[j].from
        BY <1>2, <1>7, <1>11
    <2>3. base + i \in s[j].from..s[j].to
        <3>1. s[j].from + 2 =< s[j].to
            BY StreamFacts
        <3> QED BY <1>7, <2>2, <3>1
    <2> HIDE DEF i
    <2> QED BY <1>5, <2>1, <2>2, <2>3
<1>12. ASSUME NEW m \in M
      PROVE  \E j \in 1..Len(s) :
                /\ m.place \in Starts(b) /\ m = Attempt(b, m.place)
                /\ base + m.place \in s[j].from..s[j].to
                /\ m.end = "short" => n =< s[j].to + 1
                /\ m.end # "short" => m.resume \in Int /\ base + m.resume =< s[j].to + 1
                /\ m.end = "whole" /\ Wanted(m.type) =>
                     base + m.place = s[j].from /\ j \in Between(s, base, n) /\ m.body = s[j].body
    <2>1. m.place \in Starts(b) /\ m = Attempt(b, m.place)
        BY <1>6
    <2>2. PICK j \in 1..Len(s) : base + m.place \in s[j].from..s[j].to
        BY <1>4, <2>1
    <2>3. /\ m.end = "short" => n =< s[j].to + 1
          /\ m.end # "short" => m.resume \in Int /\ base + m.resume =< s[j].to + 1
          /\ base + m.place = s[j].from =>
               /\ s[j].type \in Known /\ m.type = s[j].type
               /\ s[j].to =< n => /\ m.end = "whole" /\ m.body = s[j].body
                                  /\ base + m.resume = s[j].to + 1
               /\ s[j].to > n => m.end = "short"
          /\ base + m.place # s[j].from /\ s[j].type \notin Known /\ m.end = "whole" =>
               ~Wanted(m.type)
        BY <1>5, <2>1, <2>2
    <2>4. m.place \in Nat \ {0} /\ base + m.place < n
        BY <1>3, <2>1
    <2>5. ASSUME m.end = "whole", Wanted(m.type)
          PROVE  base + m.place = s[j].from /\ j \in Between(s, base, n) /\ m.body = s[j].body
        <3>1. base + m.place = s[j].from
            <4> SUFFICES ASSUME base + m.place # s[j].from PROVE FALSE
                OBVIOUS
            <4>1. s[j].type \in Known
                BY <2>3, <2>5
            <4>2. s[j].from < base + m.place /\ base + m.place =< s[j].to
                BY <1>2, <1>7, <2>2, <2>4
            <4>3. s[j].from > base
                <5> SUFFICES ASSUME s[j].from =< base PROVE FALSE
                    BY <1>2, <1>7
                <5>1. s[j].to =< base
                    BY <4>1 DEF CutsNone
                <5>2. s[j].to \in Nat /\ base \in Nat /\ m.place \in Nat \ {0} /\ base + m.place =< s[j].to
                    BY <1>2, <1>7, <2>4, <4>2
                <5> QED BY <5>1, <5>2
            <4>4. s[j].from + 1 =< n
                BY <1>2, <1>7, <2>4, <4>2
            <4>5. PICK a \in M : /\ base + a.place = s[j].from
                                 /\ s[j].to =< n => base + a.resume = s[j].to + 1
                                 /\ s[j].to > n => a.end = "short"
                BY <1>11, <4>1, <4>3, <4>4
            <4>6. a.place \in Nat /\ a.place < m.place
                <5>1. a.place \in Nat
                    BY <1>6, <1>3
                <5> QED BY <1>2, <2>4, <4>2, <4>5, <5>1
            <4>7. a.end # "short" /\ a.resume =< m.place
                BY <4>6 DEF Made
            <4>8. a.resume \in Int
                BY <1>4, <1>5, <1>6, <4>7
            <4>9. /\ base \in Nat /\ m.place \in Nat /\ s[j].to \in Nat /\ n \in Nat
                  /\ base + m.place =< s[j].to /\ s[j].to =< n
                BY <1>2, <1>7, <2>4, <4>2, <4>5, <4>7
            <4>10. base + a.resume = s[j].to + 1
                BY <4>5, <4>9
            <4> QED BY <4>7, <4>8, <4>9, <4>10
        <3>2. s[j].to =< n
            BY <1>2, <1>7, <2>3, <2>5, <3>1
        <3>3. Wanted(s[j].type) /\ m.body = s[j].body
            BY <2>3, <2>5, <3>1, <3>2
        <3>4. s[j].from > base
            BY <1>2, <1>7, <2>4, <3>1
        <3> QED BY <3>1, <3>2, <3>3, <3>4 DEF Between
    <2> QED BY <2>1, <2>2, <2>3, <2>5
<1> QED BY <1>11, <1>12

\* The end of a buffer is a buffer.
LEMMA Cut ==
    ASSUME NEW b \in Seq(Nat), NEW first \in 1..Len(b)
    PROVE  LET c == SubSeq(b, first, Len(b))
           IN /\ c \in Seq(Nat) /\ Len(c) = Len(b) - first + 1
              /\ \A i \in 1..(Len(b) - first + 1) : c[i] = b[first + i - 1]
<1>1. first \in Int /\ Len(b) \in Int /\ first =< Len(b)
    OBVIOUS
<1>2. \A i \in 1..(Len(b) - first + 1) : first + i - 1 \in 1..Len(b)
    OBVIOUS
<1> QED BY <1>1, <1>2

\* The frames of a call that are written.
Framed(b) == {m \in parse_beast_frames(b).frames : Wanted(m.type)}

\* What a call of the parser returns: the wanted frames that end in the buffer, and a
\* rest that cuts no known frame and leaves out all that have ended.
LEMMA ParseFacts ==
    ASSUME NEW w, NEW s, Stream(w, s), NEW b, NEW base, NEW n, IsPart(b, w, base, n),
           CutsNone(s, base)
    PROVE  LET F == Framed(b)
           IN /\ IsFiniteSet(F)
              /\ \A m \in F : m.place \in Nat /\ \E j \in Between(s, base, n) :
                                base + m.place = s[j].from /\ m.body = s[j].body
              /\ \A j \in Between(s, base, n) : \E m \in F : base + m.place = s[j].from
              /\ \A m, o \in F : m.place = o.place => m = o
              /\ \E next \in base..n :
                   /\ IsPart(parse_beast_frames(b).rest, w, next, n) /\ CutsNone(s, next)
                   /\ \A j \in 1..Len(s) : s[j].type \in Known /\ s[j].to =< n => s[j].to =< next
<1> DEFINE M == CHOOSE G \in SUBSET Attempts(b) : Made(G, Attempts(b))
           left == Left(b, M)
           first == CHOOSE i \in left : \A j \in left : i =< j
           parsed == parse_beast_frames(b)
           F == {m \in parsed.frames : Wanted(m.type)}
<1>1. /\ parsed.frames = {m \in M : m.end = "whole"}
      /\ parsed.rest = IF left = {} THEN <<>> ELSE SubSeq(b, first, Len(b))
    BY DEF parse_beast_frames, Attempts
<1>2. /\ b \in Seq(Nat) /\ w \in Seq(Nat) /\ \A k \in 1..Len(b) : b[k] = w[base + k]
    BY DEF IsPart, Stream
<1>3. /\ base \in Nat /\ n \in Nat /\ base =< n /\ n =< Len(w) /\ Len(w) \in Nat
      /\ Len(b) = n - base /\ Len(b) \in Nat
    BY <1>2 DEF IsPart
<1>4. \A i \in Starts(b) : i \in Nat \ {0} /\ i < Len(b) /\ i \in 1..Len(b)
    BY <1>3 DEF Starts
<1>5. M \in SUBSET Attempts(b) /\ Made(M, Attempts(b))
    <2>1. \A a \in Attempts(b) : a.place \in 0..Len(b)
        <3>1. \A i \in Starts(b) : Attempt(b, i).place = i
            BY DEF Attempt
        <3> QED BY <1>3, <1>4, <3>1 DEF Attempts
    <2>2. \E G \in SUBSET Attempts(b) : Made(G, Attempts(b))
        BY <1>3, <2>1, MadeExists
    <2> QED BY <2>2
<1> HIDE DEF M, left, first, parsed
<1>6. /\ \A m \in M : \E j \in 1..Len(s) :
           /\ m.place \in Starts(b) /\ m = Attempt(b, m.place)
           /\ base + m.place \in s[j].from..s[j].to
           /\ m.end = "short" => n =< s[j].to + 1
           /\ m.end # "short" => m.resume \in Int /\ base + m.resume =< s[j].to + 1
           /\ m.end = "whole" /\ Wanted(m.type) =>
                base + m.place = s[j].from /\ j \in Between(s, base, n) /\ m.body = s[j].body
      /\ \A j \in 1..Len(s) :
           s[j].type \in Known /\ s[j].from > base /\ s[j].from + 1 =< n =>
             \E m \in M : /\ base + m.place = s[j].from /\ m.type = s[j].type
                          /\ s[j].to =< n => /\ m.end = "whole" /\ m.body = s[j].body
                                             /\ base + m.resume = s[j].to + 1
                          /\ s[j].to > n => m.end = "short"
    BY <1>5, MadeFacts
<1>7. \A j \in 1..Len(s) : /\ s[j].from \in Nat \ {0} /\ s[j].to \in Nat /\ s[j].to =< Len(w)
                           /\ s[j].from + 2 =< s[j].to
    BY FrameFacts, StreamFacts
<1>8. \A m \in M : m.place \in Starts(b) /\ m.place \in Nat \ {0} /\ m = Attempt(b, m.place)
                   /\ m.place < Len(b)
    BY <1>4, <1>6
<1>9. \A m \in F : m \in M /\ m.end = "whole" /\ Wanted(m.type)
    BY <1>1
<1>10. IsFiniteSet(F)
    <2> DEFINE g == [m \in F |-> m.place]
    <2>1. IsFiniteSet(1..Len(b))
        BY <1>3, FS_Interval
    <2>2. g \in Injection(F, 1..Len(b))
        <3>1. \A m \in F : m.place \in 1..Len(b)
            BY <1>3, <1>8, <1>9
        <3>2. \A m, o \in F : m.place = o.place => m = o
            BY <1>8, <1>9
        <3> HIDE DEF F
        <3> QED BY <3>1, <3>2 DEF Injection, IsInjective
    <2> HIDE DEF F, g
    <2> QED BY <2>1, <2>2, FS_Injection
<1>11. \A m \in F : m.place \in Nat /\ \E j \in Between(s, base, n) :
                      base + m.place = s[j].from /\ m.body = s[j].body
    BY <1>6, <1>8, <1>9
<1>12. \A j \in Between(s, base, n) : \E m \in F : base + m.place = s[j].from
    <2> TAKE j \in Between(s, base, n)
    <2>1. j \in 1..Len(s) /\ Wanted(s[j].type) /\ s[j].type \in Known /\ s[j].from > base /\ s[j].to =< n
        BY DEF Between, Wanted
    <2>2. s[j].from + 1 =< n
        BY <1>3, <1>7, <2>1
    <2>3. PICK m \in M : base + m.place = s[j].from /\ m.type = s[j].type /\ m.end = "whole"
        BY <1>6, <2>1, <2>2
    <2>4. m \in F
        BY <1>1, <2>1, <2>3
    <2> QED BY <2>3, <2>4
<1>13. \A m, o \in F : m.place = o.place => m = o
    BY <1>8, <1>9
<1>14. \A i : i \in left <=> \/ \E m \in M : m.end = "short" /\ i = m.place
                             \/ i \in 1..Len(b) /\ i = Len(b) /\ b[i] = Mark /\ \A m \in M : m.resume =< i
    BY <1>2 DEF left, Left
<1>15. left \in SUBSET (1..Len(b))
    BY <1>3, <1>8, <1>14
<1>16. ASSUME NEW j \in 1..Len(s), s[j].from = n, \A m \in M : m.end # "short", Len(b) # 0
       PROVE  Len(b) \in left
    <2>1. base + Len(b) = n /\ Len(b) \in 1..Len(b)
        BY <1>3, <1>16
    <2>2. b[Len(b)] = Mark
        <3>1. w[s[j].from] = Mark
            BY FrameFacts DEF Carries
        <3> QED BY <1>2, <1>16, <2>1, <3>1
    <2>3. ASSUME NEW m \in M PROVE m.resume =< Len(b)
        <3>1. PICK k \in 1..Len(s) : /\ base + m.place \in s[k].from..s[k].to
                                     /\ m.resume \in Int /\ base + m.resume =< s[k].to + 1
            BY <1>6, <1>16
        <3>2. s[k].from < s[j].from
            <4>1. s[k].from \in Nat /\ s[k].from =< base + m.place /\ base + m.place < n
                <5>1. s[k].from \in Nat /\ s[k].to \in Nat
                    BY <1>7
                <5>2. s[k].from =< base + m.place
                    BY <3>1, <5>1
                <5>3. m.place \in Nat /\ m.place < Len(b) /\ base \in Nat /\ Len(b) \in Nat
                    BY <1>3, <1>8
                <5>4. base + m.place < n
                    BY <2>1, <5>3
                <5> QED BY <5>1, <5>2, <5>4
            <4>2. m.place \in Nat
                BY <1>8
            <4> QED BY <1>3, <1>16, <4>1, <4>2
        <3>3. s[k].to < s[j].from
            <4>1. \A x, y \in 1..Len(s) : x < y => s[x].to < s[y].from
                BY DEF Stream
            <4>2. k # j
                BY <1>7, <3>2
            <4>3. ASSUME j < k PROVE FALSE
                <5>1. s[j].to < s[k].from
                    BY <4>1, <4>3
                <5>2. s[j].from \in Nat /\ s[j].to \in Nat /\ s[k].from \in Nat /\ s[j].from + 2 =< s[j].to
                    BY <1>7
                <5> QED BY <3>2, <5>1, <5>2
            <4>4. j \in Nat /\ k \in Nat
                OBVIOUS
            <4>5. k < j
                BY <4>2, <4>3, <4>4
            <4> QED BY <4>1, <4>5
        <3>4. s[k].to \in Nat
            BY <1>7
        <3>5. m.resume \in Int /\ base + m.resume =< s[k].to + 1 /\ s[k].to < n
            BY <1>16, <3>1, <3>3
        <3> QED BY <1>3, <3>4, <3>5
    <2> QED BY <1>14, <2>1, <2>2, <2>3
<1>17. \E next \in base..n :
                   /\ IsPart(parsed.rest, w, next, n) /\ CutsNone(s, next)
                   /\ \A j \in 1..Len(s) : s[j].type \in Known /\ s[j].to =< n => s[j].to =< next
    <2>1. CASE left = {}
        <3>1. IsPart(<<>>, w, n, n)
            BY <1>3 DEF IsPart
        <3>2. \A m \in M : m.end # "short"
            BY <1>14, <2>1
        <3>3. ASSUME NEW j \in 1..Len(s), s[j].type \in Known, s[j].from =< n
              PROVE  s[j].to =< n
            <4>1. CASE s[j].from =< base
                <5>1. s[j].to =< base
                    BY <3>3, <4>1 DEF CutsNone
                <5> QED BY <1>3, <1>7, <5>1
            <4>2. CASE s[j].from > base /\ s[j].from + 1 =< n
                <5>1. PICK m \in M : s[j].to > n => m.end = "short"
                    BY <1>6, <3>3, <4>2
                <5> QED BY <1>3, <1>7, <3>2, <5>1
            <4>3. CASE s[j].from > base /\ s[j].from = n
                <5>1. Len(b) # 0
                    BY <1>3, <4>3
                <5> QED BY <1>16, <2>1, <3>2, <4>3, <5>1
            <4> QED BY <1>3, <1>7, <3>3, <4>1, <4>2, <4>3
        <3>4. CutsNone(s, n)
            BY <3>3 DEF CutsNone
        <3>5. n \in base..n
            BY <1>3
        <3> QED BY <1>1, <2>1, <3>1, <3>4, <3>5
    <2>2. CASE left # {}
        <3> DEFINE next == base + first - 1
        <3>1. first \in left /\ \A i \in left : first =< i
            <4>1. left \in SUBSET Nat
                BY <1>3, <1>15
            <4>2. \E i \in left : \A k \in left : i =< k
                BY <2>2, <4>1, Smallest
            <4> QED BY <4>2 DEF first
        <3>2. first \in Nat \ {0} /\ first =< Len(b) /\ first \in 1..Len(b)
            BY <1>3, <1>15, <3>1
        <3>3. next \in base..n /\ next + 1 =< n /\ next \in Nat
            BY <1>3, <3>2
        <3>4. IsPart(SubSeq(b, first, Len(b)), w, next, n)
            <4>1. /\ SubSeq(b, first, Len(b)) \in Seq(Nat)
                  /\ Len(SubSeq(b, first, Len(b))) = Len(b) - first + 1
                  /\ \A i \in 1..(Len(b) - first + 1) : SubSeq(b, first, Len(b))[i] = b[first + i - 1]
                <5> HIDE DEF next
                <5>1. b \in Seq(Nat) /\ first \in 1..Len(b) /\ Len(b) \in Nat
                    BY <1>2, <1>3, <3>2
                <5> QED BY <5>1, Cut
            <4>2. Len(b) - first + 1 = n - next
                BY <1>3, <3>2
            <4>3. \A i \in 1..(Len(b) - first + 1) : /\ first + i - 1 \in 1..Len(b)
                                                     /\ base + (first + i - 1) = next + i
                BY <1>3, <3>2
            <4>4. \A i \in 1..(Len(b) - first + 1) : SubSeq(b, first, Len(b))[i] = w[next + i]
                BY <1>2, <4>1, <4>3
            <4>5. base \in Nat /\ next \in Nat /\ next =< n /\ n =< Len(w) /\ n \in Nat
                BY <1>3, <3>3
            <4> DEFINE c == SubSeq(b, first, Len(b))
            <4>6. c \in Seq(Nat) /\ Len(c) = n - next /\ \A i \in 1..Len(c) : c[i] = w[next + i]
                BY <4>1, <4>2, <4>4
            <4> HIDE DEF next, c
            <4>7. IsPart(c, w, next, n)
                BY <4>5, <4>6 DEF IsPart
            <4> QED BY <4>7 DEF c
        <3>5. ASSUME NEW j \in 1..Len(s), s[j].type \in Known, s[j].from =< next
              PROVE  s[j].to =< next
            <4>1. CASE s[j].from =< base
                <5>1. s[j].to =< base
                    BY <3>5, <4>1 DEF CutsNone
                <5>2. base =< next
                    BY <3>3
                <5> HIDE DEF next
                <5> QED BY <1>3, <1>7, <3>3, <5>1, <5>2
            <4>2. CASE s[j].from > base
                <5>1. s[j].from + 1 =< n
                    <6>1. s[j].from \in Nat /\ s[j].from =< next
                        BY <1>7, <3>5
                    <6> HIDE DEF next
                    <6> QED BY <1>3, <3>3, <6>1
                <5>2. PICK m \in M : /\ base + m.place = s[j].from
                                     /\ s[j].to =< n => base + m.resume = s[j].to + 1
                                     /\ s[j].to > n => m.end = "short"
                    BY <1>6, <3>5, <4>2, <5>1
                <5>3. m.place \in Nat /\ m.place < first
                    <6>1. m.place \in Nat /\ base + m.place =< base + first - 1
                        BY <1>8, <3>5, <5>2
                    <6> QED BY <1>3, <3>2, <6>1
                <5>4. m.end # "short"
                    <6>1. m.end = "short" => m.place \in left
                        BY <1>14
                    <6>2. m.place \notin left
                        BY <3>1, <3>2, <5>3
                    <6> QED BY <6>1, <6>2
                <5>5. base + m.resume = s[j].to + 1
                    BY <1>3, <1>7, <5>2, <5>4
                <5>6. m.resume =< first
                    <6>1. CASE \E o \in M : o.end = "short" /\ first = o.place
                        BY <1>5, <5>3, <6>1 DEF Made
                    <6>2. CASE \A o \in M : o.resume =< first
                        BY <6>2
                    <6> QED BY <1>14, <3>1, <6>1, <6>2
                <5>7. m.resume \in Int
                    BY <1>6, <5>4
                <5>8. /\ s[j].to \in Nat /\ base \in Nat /\ first \in Nat
                      /\ next = base + first - 1
                    BY <1>3, <1>7, <3>2
                <5> HIDE DEF next
                <5>9. base + m.resume =< base + first
                    BY <5>6, <5>7, <5>8
                <5> QED BY <5>5, <5>8, <5>9
            <4> QED BY <1>3, <1>7, <4>1, <4>2
        <3>6. CutsNone(s, next)
            BY <3>5 DEF CutsNone
        <3>7. ASSUME NEW j \in 1..Len(s), s[j].type \in Known, s[j].to =< n
              PROVE  s[j].to =< next
            <4>1. SUFFICES ASSUME s[j].from > next PROVE FALSE
                <5>1. next \in Nat /\ s[j].from \in Nat
                    BY <1>3, <1>7, <3>3
                <5>2. s[j].from > next \/ s[j].from =< next
                    <6> HIDE DEF next
                    <6> QED BY <5>1
                <5> QED BY <3>5, <3>7, <5>2
            <4>2. s[j].from > base /\ s[j].from + 1 =< n
                <5>1. s[j].from \in Nat /\ s[j].to \in Nat /\ s[j].from + 2 =< s[j].to
                    BY <1>7
                <5>2. base =< next
                    BY <3>3
                <5>3. base \in Nat /\ next \in Nat /\ n \in Nat
                    BY <1>3, <3>3
                <5> HIDE DEF next
                <5>4. s[j].from > base
                    BY <4>1, <5>1, <5>2, <5>3
                <5>5. s[j].from + 1 =< n
                    BY <3>7, <5>1, <5>3
                <5> QED BY <5>4, <5>5
            <4>3. PICK m \in M : base + m.place = s[j].from /\ m.end = "whole"
                BY <1>6, <3>7, <4>2
            <4>4. m.place \in Nat /\ m.place >= first /\ m.place < Len(b)
                <5>1. m.place \in Nat /\ base + m.place > base + first - 1 /\ m.place < Len(b)
                    BY <1>8, <4>1, <4>3
                <5> QED BY <1>3, <3>2, <5>1
            <4>5. PICK o \in M : o.end = "short" /\ first = o.place
                BY <1>3, <1>14, <3>1, <4>4
            <4>6. CASE m.place = first
                BY <1>8, <4>3, <4>5, <4>6
            <4>7. CASE m.place # first
                <5>1. o.place < m.place
                    BY <3>2, <4>4, <4>5, <4>7
                <5> QED BY <1>5, <4>5, <5>1 DEF Made
            <4> QED BY <4>6, <4>7
        <3> HIDE DEF next
        <3> QED BY <1>1, <2>2, <3>3, <3>4, <3>6, <3>7
    <2> QED BY <2>1, <2>2
<1> HIDE DEF F
<1> QED BY <1>10, <1>11, <1>12, <1>13, <1>17 DEF F, parsed, Framed

\* Frames at different places can be put in the order of their places.
LEMMA Ordered ==
    ASSUME NEW F, IsFiniteSet(F), NEW top \in Nat, \A m \in F : m.place \in 0..top,
           \A m, o \in F : m.place = o.place => m = o
    PROVE  LET s == InOrder(F)
           IN /\ Cardinality(F) \in Nat /\ s \in [1..Cardinality(F) -> F]
              /\ \A i, j \in 1..Cardinality(F) : i < j => s[i].place < s[j].place
              /\ \A m \in F : \E i \in 1..Cardinality(F) : s[i] = m
<1> DEFINE Rising(s, n) == \A i, j \in 1..n : i < j => s[i].place < s[j].place
           S == {n \in Nat : \A G \in SUBSET F : Cardinality(G) = n => \E s \in [1..n -> G] : Rising(s, n)}
<1>1. \A G \in SUBSET F : IsFiniteSet(G) /\ Cardinality(G) \in Nat
    BY FS_Subset, FS_CardinalityType
<1>2. 0 \in S
    <2> SUFFICES ASSUME NEW G \in SUBSET F PROVE \E s \in [1..0 -> G] : Rising(s, 0)
        OBVIOUS
    <2>1. [i \in 1..0 |-> i] \in [1..0 -> G] /\ Rising([i \in 1..0 |-> i], 0)
        OBVIOUS
    <2> QED BY <2>1
<1>3. ASSUME NEW n \in Nat \ {0}, n - 1 \in S PROVE n \in S
    <2> SUFFICES ASSUME NEW G \in SUBSET F, Cardinality(G) = n PROVE \E s \in [1..n -> G] : Rising(s, n)
        OBVIOUS
    <2>1. G # {}
        BY FS_EmptySet
    <2>2. PICK m \in G : \A o \in G : o.place =< m.place
        <3> DEFINE P == {o.place : o \in G}
        <3>1. P \in SUBSET Nat /\ P # {} /\ \A p \in P : p =< top
            BY <2>1
        <3>2. PICK p \in P : \A q \in P : q =< p
            <4> HIDE DEF P
            <4> QED BY <3>1, Largest
        <3> QED BY <3>2
    <2> DEFINE H == G \ {m}
    <2>3. H \in SUBSET F /\ Cardinality(H) = n - 1
        BY <1>1, FS_RemoveElement
    <2>4. PICK s \in [1..(n - 1) -> H] : Rising(s, n - 1)
        <3> HIDE DEF H
        <3> QED BY <1>3, <2>3
    <2> DEFINE t == [i \in 1..n |-> IF i = n THEN m ELSE s[i]]
    <2>5. \A i \in 1..n : i # n => i \in 1..(n - 1)
        OBVIOUS
    <2>6. t \in [1..n -> G]
        BY <2>5
    <2>7. \A i \in 1..(n - 1) : s[i].place < m.place
        <3> TAKE i \in 1..(n - 1)
        <3>1. s[i] \in G /\ s[i] # m
            OBVIOUS
        <3>2. s[i].place \in Nat /\ m.place \in Nat /\ s[i].place # m.place
            BY <3>1
        <3>3. s[i].place =< m.place
            BY <2>2, <3>1
        <3> QED BY <3>2, <3>3
    <2>8. Rising(t, n)
        <3> SUFFICES ASSUME NEW i \in 1..n, NEW j \in 1..n, i < j PROVE t[i].place < t[j].place
            OBVIOUS
        <3>1. i \in 1..(n - 1) /\ t[i] = s[i]
            OBVIOUS
        <3>2. CASE j = n
            BY <2>7, <3>1, <3>2
        <3>3. CASE j # n
            BY <2>4, <2>5, <3>1, <3>3
        <3> QED BY <3>2, <3>3
    <2> HIDE DEF t
    <2> QED BY <2>6, <2>8
<1> DEFINE N == Cardinality(F)
           s == InOrder(F)
<1>4. N \in Nat
    BY <1>1
<1>5. \E z \in [1..N -> F] : Rising(z, N)
    <2>1. N \in S
        <3> HIDE DEF S, N
        <3> QED BY <1>2, <1>3, <1>4, AllNumbers
    <2> HIDE DEF Rising
    <2>2. F \in SUBSET F
        OBVIOUS
    <2> QED BY <2>1, <2>2
<1>6. s \in [1..N -> F] /\ Rising(s, N)
    <2>1. \A z \in [1..N -> F] : DOMAIN z = 1..N
        OBVIOUS
    <2>2. s = CHOOSE z \in [1..N -> F] : \A i, j \in DOMAIN z : i < j => z[i].place < z[j].place
        BY DEF InOrder
    <2>3. \E z \in [1..N -> F] : \A i, j \in DOMAIN z : i < j => z[i].place < z[j].place
        BY <1>5, <2>1
    <2> HIDE DEF s, N
    <2>4. s \in [1..N -> F] /\ \A i, j \in DOMAIN s : i < j => s[i].place < s[j].place
        BY <2>2, <2>3
    <2> QED BY <2>1, <2>4
<1> HIDE DEF s
<1>7. s \in Injection(1..N, F)
    <2>1. ASSUME NEW i \in 1..N, NEW j \in 1..N, i # j PROVE s[i] # s[j]
        <3>1. s[i].place \in Nat /\ s[j].place \in Nat
            BY <1>6
        <3>2. i < j \/ j < i
            BY <1>4, <2>1
        <3> QED BY <1>6, <3>1, <3>2
    <2> QED BY <1>6, <2>1 DEF Injection, IsInjective
<1>8. Cardinality(1..N) = N
    BY <1>4, FS_Interval
<1>9. s \in Surjection(1..N, F)
    BY <1>7, <1>8, FS_Injection
<1>10. \A m \in F : \E i \in 1..N : s[i] = m
    BY <1>9 DEF Surjection
<1> QED BY <1>4, <1>6, <1>10 DEF s

\* g tells which of the frames sent each of the N frames written is.
Writes(g, N, b, s, base, n) ==
    /\ InOrder(Framed(b)) \in [1..N -> Framed(b)]
    /\ g \in [1..N -> Between(s, base, n)]
    /\ \A i, j \in 1..N : i < j => g[i] < g[j]
    /\ \A j \in Between(s, base, n) : \E i \in 1..N : g[i] = j
    /\ \A i \in 1..N : InOrder(Framed(b))[i].body = s[g[i]].body

\* The wanted frames of a call, in order, are the ones sent that end in the buffer.
LEMMA WantedFacts ==
    ASSUME NEW w, NEW s, Stream(w, s), NEW b, NEW base, NEW n, IsPart(b, w, base, n),
           CutsNone(s, base)
    PROVE  \E N \in Nat : \E g : Writes(g, N, b, s, base, n)
<1> DEFINE F == Framed(b)
           wanted == InOrder(F)
           N == Cardinality(F)
           B == Between(s, base, n)
           g == [i \in 1..N |-> CHOOSE j \in B : base + wanted[i].place = s[j].from /\ wanted[i].body = s[j].body]
<1>1. /\ IsFiniteSet(F)
      /\ \A m \in F : m.place \in Nat /\ \E j \in B : base + m.place = s[j].from /\ m.body = s[j].body
      /\ \A j \in B : \E m \in F : base + m.place = s[j].from
      /\ \A m, o \in F : m.place = o.place => m = o
    <2> HIDE DEF wanted, N, g
    <2> QED BY ParseFacts
<1>2. base \in Nat /\ n \in Nat
    BY DEF IsPart
<1>3. \A j \in B : j \in 1..Len(s) /\ j \in Nat /\ s[j].to =< n
    BY DEF Between
<1>4. \A j \in 1..Len(s) : s[j].from \in Nat /\ s[j].to \in Nat /\ s[j].from + 2 =< s[j].to
    BY FrameFacts, StreamFacts
<1>5. \A j, k \in 1..Len(s) : j < k => s[j].to < s[k].from
    BY DEF Stream
<1>6. \A j, k \in B : s[j].from < s[k].from => j < k
    <2> SUFFICES ASSUME NEW j \in B, NEW k \in B, s[j].from < s[k].from PROVE j < k
        OBVIOUS
    <2>1. j # k
        BY <1>3, <1>4
    <2>2. ASSUME k < j PROVE FALSE
        <3>1. s[k].to < s[j].from /\ s[k].from + 2 =< s[k].to
            BY <1>3, <1>4, <1>5, <2>2
        <3>2. s[k].from \in Nat /\ s[k].to \in Nat /\ s[j].from \in Nat
            BY <1>3, <1>4
        <3> QED BY <3>1, <3>2
    <2>3. j \in Nat /\ k \in Nat
        BY <1>3
    <2> QED BY <2>1, <2>2, <2>3
<1>7. \A j, k \in B : s[j].from = s[k].from => j = k
    <2> SUFFICES ASSUME NEW j \in B, NEW k \in B, s[j].from = s[k].from, j < k PROVE FALSE
        BY <1>3
    <2>1. s[j].to < s[k].from /\ s[j].from + 2 =< s[j].to
        BY <1>3, <1>4, <1>5
    <2>2. s[j].from \in Nat /\ s[j].to \in Nat
        BY <1>3, <1>4
    <2> QED BY <2>1, <2>2
<1>8. \A m \in F : m.place \in 0..n
    <2> TAKE m \in F
    <2>1. PICK j \in B : base + m.place = s[j].from
        BY <1>1
    <2>2. m.place \in Nat /\ s[j].from \in Nat /\ s[j].to \in Nat /\ s[j].from + 2 =< s[j].to /\ s[j].to =< n
        BY <1>1, <1>3, <1>4
    <2> QED BY <1>2, <2>1, <2>2
<1> HIDE DEF F, B
<1>9. /\ N \in Nat /\ wanted \in [1..N -> F]
      /\ \A i, j \in 1..N : i < j => wanted[i].place < wanted[j].place
      /\ \A m \in F : \E i \in 1..N : wanted[i] = m
    BY <1>1, <1>2, <1>8, Ordered
<1> HIDE DEF N, wanted
<1>10. \A i \in 1..N : /\ g[i] \in B /\ base + wanted[i].place = s[g[i]].from
                       /\ wanted[i].body = s[g[i]].body
    <2> TAKE i \in 1..N
    <2>1. \E j \in B : base + wanted[i].place = s[j].from /\ wanted[i].body = s[j].body
        BY <1>1, <1>9
    <2> QED BY <2>1
<1>11. g \in [1..N -> B]
    BY <1>10
<1> HIDE DEF g
<1>12. ASSUME NEW i \in 1..N, NEW j \in 1..N, i < j PROVE g[i] < g[j]
    <2>1. wanted[i].place \in Nat /\ wanted[j].place \in Nat /\ wanted[i].place < wanted[j].place
        BY <1>1, <1>9, <1>12
    <2>2. s[g[i]].from < s[g[j]].from
        BY <1>2, <1>10, <2>1
    <2> QED BY <1>6, <1>11, <2>2
<1>13. ASSUME NEW j \in B PROVE \E i \in 1..N : g[i] = j
    <2>1. PICK m \in F : base + m.place = s[j].from
        BY <1>1
    <2>2. PICK i \in 1..N : wanted[i] = m
        BY <1>9
    <2> QED BY <1>7, <1>10, <2>1, <2>2
<1>14. Writes(g, N, b, s, base, n)
    BY <1>9, <1>10, <1>11, <1>12, <1>13 DEF Writes, wanted, F, B
<1> QED BY <1>9, <1>14

\* What stands on the wire stays there.
LEMMA CarriesOn ==
    ASSUME NEW f \in Frame, NEW w \in Seq(Nat), NEW v \in Seq(Nat), Carries(w, f),
           Len(w) =< Len(v), \A i \in 1..Len(w) : v[i] = w[i], f.body # <<>>
    PROVE  Carries(v, f)
<1>1. /\ Spot(f, 1) = f.from + 2
      /\ \A k \in 1..(Len(f.body) + 1) : Spot(f, k) \in Nat
      /\ \A k \in 1..Len(f.body) : f.body[k] = Mark => Spot(f, k + 1) = Spot(f, k) + 2
      /\ \A j, k \in 1..(Len(f.body) + 1) : j < k => Spot(f, j) < Spot(f, k)
    BY Spots
<1> DEFINE L == Len(f.body)
<1>2. /\ f.from \in Nat /\ f.from > 0 /\ f.to \in Nat /\ f.to =< Len(w) /\ f.to + 1 = Spot(f, L + 1)
      /\ L \in Nat /\ L # 0 /\ Len(w) \in Nat /\ Len(v) \in Nat
    <2>1. f.from \in Nat /\ f.from # 0 /\ f.to \in Nat /\ f.body \in Seq(Nat)
        BY DEF Frame
    <2>2. L \in Nat /\ L # 0
        BY <2>1
    <2>3. Len(w) \in Nat /\ Len(v) \in Nat
        OBVIOUS
    <2>4. f.to =< Len(w) /\ f.to + 1 = Spot(f, L + 1)
        BY DEF Carries
    <2>5. f.from > 0
        BY <2>1
    <2> QED BY <2>1, <2>2, <2>3, <2>4, <2>5
<1>3. \A k \in 1..(L + 1) : f.from + 2 =< Spot(f, k) /\ Spot(f, k) =< f.to + 1
    <2> TAKE k \in 1..(L + 1)
    <2> HIDE DEF L
    <2>1. 1 \in 1..(L + 1) /\ L + 1 \in 1..(L + 1)
        BY <1>2
    <2>2. (k = 1 \/ 1 < k) /\ (k = L + 1 \/ k < L + 1)
        BY <1>2
    <2>3. Spot(f, 1) \in Nat /\ Spot(f, k) \in Nat /\ Spot(f, L + 1) \in Nat
        BY <1>1, <2>1 DEF L
    <2>4. 1 < k => Spot(f, 1) < Spot(f, k)
        BY <1>1, <2>1 DEF L
    <2>5. k < L + 1 => Spot(f, k) < Spot(f, L + 1)
        BY <1>1, <2>1 DEF L
    <2>6. Spot(f, 1) =< Spot(f, k) /\ Spot(f, k) =< Spot(f, L + 1)
        BY <2>2, <2>3, <2>4, <2>5
    <2> QED BY <1>1, <1>2, <2>6
<1>4. ASSUME NEW k \in 1..Len(f.body)
      PROVE  /\ Spot(f, k) \in 1..Len(w)
             /\ f.body[k] = Mark => Spot(f, k) + 1 \in 1..Len(w)
    <2>1. k \in 1..(Len(f.body) + 1) /\ k + 1 \in 1..(Len(f.body) + 1) /\ k < k + 1
        BY <1>2
    <2>2. Spot(f, k) \in Nat /\ Spot(f, k + 1) \in Nat /\ Spot(f, k) < Spot(f, k + 1)
          /\ f.from + 2 =< Spot(f, k) /\ Spot(f, k + 1) =< f.to + 1
        BY <1>1, <1>3, <2>1
    <2>3. f.body[k] = Mark => Spot(f, k + 1) = Spot(f, k) + 2
        BY <1>1
    <2> DEFINE x == Spot(f, k)
               y == Spot(f, k + 1)
               W == Len(w)
    <2>4. /\ x \in Nat /\ y \in Nat /\ W \in Nat /\ f.from \in Nat /\ f.to \in Nat
          /\ x < y /\ f.from + 2 =< x /\ y =< f.to + 1 /\ f.to =< W
        BY <1>2, <2>2
    <2>5. f.body[k] = Mark => y = x + 2
        BY <2>3
    <2> HIDE DEF x, y, W
    <2>6. x \in 1..W
        BY <2>4
    <2>7. ASSUME f.body[k] = Mark PROVE x + 1 \in 1..W
        <3>1. x + 2 =< f.to + 1
            BY <2>4, <2>5, <2>7
        <3> QED BY <2>4, <3>1
    <2>8. Spot(f, k) \in 1..Len(w)
        BY <2>6 DEF x, W
    <2>9. ASSUME f.body[k] = Mark PROVE Spot(f, k) + 1 \in 1..Len(w)
        BY <2>9, <2>7 DEF x, W
    <2> QED BY <2>8, <2>9
<1>5. f.from \in 1..Len(w) /\ f.from + 1 \in 1..Len(w)
    <2>1. 1 \in 1..(Len(f.body) + 1)
        BY <1>2
    <2>2. f.from + 2 =< f.to + 1
        <3>1. Spot(f, 1) =< f.to + 1
            BY <1>3, <2>1
        <3> QED BY <1>1, <3>1
    <2> DEFINE W == Len(w)
    <2>3. f.from \in Nat /\ f.from > 0 /\ f.to \in Nat /\ f.to =< W /\ W \in Nat
        BY <1>2
    <2> HIDE DEF W
    <2>4. f.from \in 1..W /\ f.from + 1 \in 1..W
        BY <2>2, <2>3
    <2> QED BY <2>4 DEF W
<1>6. w[f.from] = Mark /\ w[f.from + 1] = f.type
    BY DEF Carries
<1>7. \A k \in 1..Len(f.body) :
         w[Spot(f, k)] = f.body[k] /\ (f.body[k] = Mark => w[Spot(f, k) + 1] = Mark)
    BY DEF Carries
<1>8. f.to =< Len(v)
    BY <1>2
<1>9. \A k \in 1..Len(f.body) :
         v[Spot(f, k)] = f.body[k] /\ (f.body[k] = Mark => v[Spot(f, k) + 1] = Mark)
    BY <1>4, <1>7
<1>10. v[f.from] = Mark /\ v[f.from + 1] = f.type
    BY <1>5, <1>6
<1> QED BY <1>2, <1>8, <1>9, <1>10 DEF Carries

\* What joining two sequences of bytes gives.
LEMMA Joined ==
    ASSUME NEW w \in Seq(Nat), NEW e \in Seq(Nat)
    PROVE  /\ w \o e \in Seq(Nat) /\ Len(w \o e) = Len(w) + Len(e)
           /\ \A i \in 1..Len(w) : (w \o e)[i] = w[i]
           /\ \A i \in 1..Len(e) : (w \o e)[Len(w) + i] = e[i]
<1>1. Len(w) \in Nat /\ Len(e) \in Nat
    OBVIOUS
<1>2. \A i \in 1..Len(e) : Len(w) + i \in 1..(Len(w) + Len(e)) /\ ~(Len(w) + i =< Len(w))
                           /\ (Len(w) + i) - Len(w) = i
    BY <1>1
<1>3. \A i \in 1..(Len(w) + Len(e)) : (w \o e)[i] = IF i =< Len(w) THEN w[i] ELSE e[i - Len(w)]
    OBVIOUS
<1>4. \A i \in 1..Len(w) : i \in 1..(Len(w) + Len(e)) /\ i =< Len(w)
    BY <1>1
<1> QED BY <1>2, <1>3, <1>4

\* What is on the wire after a frame, and the frame.
Extended(w, type, tick, message) == w \o Encode(type, <<tick>> \o message)
NewFrame(w, type, tick, message, at) ==
    [type |-> type, body |-> <<tick>> \o message, at |-> at,
     from |-> Len(w) + 1, to |-> Len(Extended(w, type, tick, message))]

\* A frame that a receiver sends is put after the ones before.
LEMMA StreamGrows ==
    ASSUME NEW w, NEW s, Stream(w, s), NEW type \in DOMAIN Bodies,
           NEW message \in Bodies[type], NEW tick \in Nat, NEW at \in Nat
    PROVE  LET v == Extended(w, type, tick, message)
               f == NewFrame(w, type, tick, message, at)
           IN /\ f \in Frame /\ Stream(v, Append(s, f)) /\ Len(w) + 2 =< Len(v)
              /\ f.body[1] = tick /\ \A i \in 1..Len(w) : v[i] = w[i]
<1> DEFINE body == <<tick>> \o message
           e == Encode(type, body)
           v == w \o e
           f == [type |-> type, body |-> body, at |-> at, from |-> Len(w) + 1, to |-> Len(v)]
           L == Len(body)
           P == Place(body, L + 1)
<1>1. w \in Seq(Nat) /\ s \in Seq(Frame) /\ Len(w) \in Nat /\ Len(s) \in Nat
    BY DEF Stream
<1>2. /\ type \in Nat /\ type # Mark /\ Mark \in Nat /\ message \in Seq(Nat)
      /\ type \in Known => Len(message) = TYPE_TO_MESSAGE_LEN[type]
      /\ type \notin Known => HidesNothing(message)
    BY BridgeAssumption
<1>3. /\ body \in Seq(Nat) /\ L = 1 + Len(message) /\ body # <<>> /\ body[1] = tick
      /\ \A k \in 1..Len(message) : body[k + 1] = message[k]
      /\ Len(message) \in Nat /\ L \in Nat \ {0}
    <2>1. <<tick>> \in Seq(Nat) /\ Len(<<tick>>) = 1 /\ <<tick>>[1] = tick /\ 1 \in 1..Len(<<tick>>)
        OBVIOUS
    <2>2. /\ body \in Seq(Nat) /\ L = 1 + Len(message)
          /\ body[1] = tick /\ \A k \in 1..Len(message) : body[1 + k] = message[k]
        BY <1>2, <2>1, Joined
    <2>3. Len(message) \in Nat
        BY <1>2
    <2>4. L # 0 /\ L \in Nat
        BY <2>2, <2>3
    <2>5. body # <<>>
        BY <2>2, <2>4
    <2>6. \A k \in 1..Len(message) : 1 + k = k + 1
        OBVIOUS
    <2> HIDE DEF body
    <2> QED BY <2>2, <2>3, <2>4, <2>5, <2>6
<1> HIDE DEF body
<1>4. /\ Escape(body) \in Seq(Nat) /\ Len(Escape(body)) = P - 1
      /\ \A k \in 1..L :
                /\ Escape(body)[Place(body, k)] = body[k]
                /\ body[k] = Mark => Escape(body)[Place(body, k) + 1] = Mark
    BY <1>3, EscapeHolds
<1>5. /\ Place(body, 1) = 1
      /\ \A k \in 1..(L + 1) : Place(body, k) \in Nat
      /\ \A k \in 1..L : 
            /\ body[k] = Mark => Place(body, k + 1) = Place(body, k) + 2
            /\ body[k] # Mark => Place(body, k + 1) = Place(body, k) + 1
      /\ \A j, k \in 1..(L + 1) : j < k => Place(body, j) < Place(body, k)
    BY <1>3, Places
<1> HIDE DEF L
<1>6. P \in Nat /\ 1 < P
    <2>1. 1 \in 1..(L + 1) /\ L + 1 \in 1..(L + 1) /\ 1 < L + 1
        BY <1>3
    <2> QED BY <1>5, <2>1
<1>7. \A k \in 1..L : /\ Place(body, k) \in 1..(P - 1)
                      /\ body[k] = Mark => Place(body, k) + 1 \in 1..(P - 1)
    <2> TAKE k \in 1..L
    <2>1. 1 \in 1..(L + 1) /\ k \in 1..(L + 1) /\ k + 1 \in 1..(L + 1) /\ L + 1 \in 1..(L + 1)
          /\ (k = 1 \/ 1 < k) /\ k < L + 1 /\ (k + 1 = L + 1 \/ k + 1 < L + 1)
        BY <1>3
    <2>2. Place(body, k) \in Nat /\ Place(body, k + 1) \in Nat /\ 1 =< Place(body, k) /\ Place(body, k) < P
          /\ Place(body, k + 1) =< P
        BY <1>5, <1>6, <2>1
    <2>3. body[k] = Mark => Place(body, k + 1) = Place(body, k) + 2
        BY <1>5
    <2> HIDE DEF P
    <2>4. ASSUME body[k] = Mark PROVE Place(body, k) + 1 \in 1..(P - 1)
        BY <1>6, <2>2, <2>3, <2>4
    <2>5. Place(body, k) \in 1..(P - 1)
        BY <1>6, <2>2
    <2> QED BY <2>4, <2>5
<1> HIDE DEF P
<1>8. /\ e \in Seq(Nat) /\ Len(e) = P + 1 /\ e[1] = Mark /\ e[2] = type
      /\ \A p \in 1..(P - 1) : e[2 + p] = Escape(body)[p]
    <2> DEFINE start == <<Mark, type>>
    <2>1. start \in Seq(Nat) /\ Len(start) = 2 /\ start[1] = Mark /\ start[2] = type
        BY <1>2
    <2> HIDE DEF start
    <2>2. e = start \o Escape(body)
        BY DEF Encode, start
    <2>3. 1 \in 1..Len(start) /\ 2 \in 1..Len(start)
        BY <2>1
    <2> DEFINE x == Escape(body)
    <2>4. x \in Seq(Nat) /\ Len(x) = P - 1
        BY <1>4
    <2> HIDE DEF x
    <2>5. /\ start \o x \in Seq(Nat) /\ Len(start \o x) = Len(start) + Len(x)
          /\ \A i \in 1..Len(start) : (start \o x)[i] = start[i]
          /\ \A i \in 1..Len(x) : (start \o x)[Len(start) + i] = x[i]
        BY <2>1, <2>4, Joined
    <2>6. (start \o x)[1] = Mark /\ (start \o x)[2] = type
        BY <2>1, <2>3, <2>5
    <2>7. Len(start \o x) = 2 + (P - 1) /\ \A p \in 1..(P - 1) : (start \o x)[2 + p] = x[p]
        BY <2>1, <2>4, <2>5
    <2>8. /\ start \o Escape(body) \in Seq(Nat) /\ Len(start \o Escape(body)) = 2 + (P - 1)
          /\ (start \o Escape(body))[1] = Mark /\ (start \o Escape(body))[2] = type
          /\ \A p \in 1..(P - 1) : (start \o Escape(body))[2 + p] = Escape(body)[p]
        BY <2>5, <2>6, <2>7 DEF x
    <2>9. 2 + (P - 1) = P + 1
        BY <1>6
    <2> QED BY <2>2, <2>8, <2>9
<1> HIDE DEF e
<1>9. /\ v \in Seq(Nat) /\ Len(v) = Len(w) + (P + 1)
      /\ \A i \in 1..Len(w) : v[i] = w[i]
      /\ \A i \in 1..(P + 1) : v[Len(w) + i] = e[i]
    <2>1. e \in Seq(Nat) /\ Len(e) = P + 1
        BY <1>8
    <2>2. /\ v \in Seq(Nat) /\ Len(v) = Len(w) + Len(e)
          /\ \A i \in 1..Len(w) : v[i] = w[i]
          /\ \A i \in 1..Len(e) : v[Len(w) + i] = e[i]
        BY <1>1, <2>1, Joined
    <2> HIDE DEF v
    <2> QED BY <2>1, <2>2
<1> HIDE DEF v
<1>10. f \in Frame
    <2>1. /\ type \in Nat \ {Mark} /\ body \in Seq(Nat) /\ at \in Nat
          /\ Len(w) + 1 \in Nat \ {0} /\ Len(v) \in Nat
        <3>1. type \in Nat \ {Mark}
            BY <1>2
        <3>2. v \in Seq(Nat) /\ body \in Seq(Nat) /\ Len(w) \in Nat
            BY <1>1, <1>3, <1>9
        <3>3. Len(v) \in Nat /\ Len(w) + 1 \in Nat \ {0}
            BY <3>2
        <3> QED BY <3>1, <3>2, <3>3
    <2> QED BY <2>1 DEF Frame
<1>11. f.from = Len(w) + 1 /\ f.to = Len(v) /\ f.body = body /\ f.type = type
    OBVIOUS
<1> HIDE DEF f
<1>12. Carries(v, f)
    <2>1. f.to =< Len(v)
        BY <1>1, <1>6, <1>9, <1>11
    <2>2. f.to + 1 = Spot(f, Len(f.body) + 1)
        <3>1. Spot(f, Len(f.body) + 1) = Len(w) + 1 + 1 + P
            BY <1>11 DEF Spot, P, L
        <3> QED BY <1>1, <1>6, <1>9, <1>11, <3>1
    <2>3. v[f.from] = Mark /\ v[f.from + 1] = f.type
        <3>1. 1 \in 1..(P + 1) /\ 2 \in 1..(P + 1) /\ f.from = Len(w) + 1 /\ f.from + 1 = Len(w) + 2
            BY <1>1, <1>6, <1>11
        <3> QED BY <1>8, <1>9, <1>11, <3>1
    <2>4. ASSUME NEW k \in 1..Len(f.body)
          PROVE  v[Spot(f, k)] = f.body[k] /\ (f.body[k] = Mark => v[Spot(f, k) + 1] = Mark)
        <3> DEFINE p == Place(body, k)
        <3>1. k \in 1..L
            BY <1>11 DEF L
        <3>2. Spot(f, k) = Len(w) + 1 + 1 + p
            BY <1>11 DEF Spot
        <3>3. p \in 1..(P - 1) /\ (body[k] = Mark => p + 1 \in 1..(P - 1))
            BY <1>7, <3>1
        <3>4. Escape(body)[p] = body[k] /\ (body[k] = Mark => Escape(body)[p + 1] = Mark)
            BY <1>4, <3>1
        <3> HIDE DEF p
        <3>5. 2 + p \in 1..(P + 1) /\ Spot(f, k) = Len(w) + (2 + p)
            BY <1>1, <1>6, <3>2, <3>3
        <3>6. v[Spot(f, k)] = body[k]
            BY <1>8, <1>9, <3>3, <3>4, <3>5
        <3>7. ASSUME body[k] = Mark PROVE v[Spot(f, k) + 1] = Mark
            <4>1. 2 + (p + 1) \in 1..(P + 1) /\ Spot(f, k) + 1 = Len(w) + (2 + (p + 1))
                <5>1. /\ Len(w) \in Nat /\ P \in Nat /\ p + 1 \in 1..(P - 1) /\ p \in 1..(P - 1)
                      /\ Spot(f, k) = Len(w) + 1 + 1 + p
                    BY <1>1, <1>6, <3>2, <3>3, <3>7
                <5>2. 2 + (p + 1) \in 1..(P + 1)
                    BY <5>1
                <5>3. Spot(f, k) + 1 = Len(w) + (2 + (p + 1))
                    BY <5>1
                <5> QED BY <5>2, <5>3
            <4> QED BY <1>8, <1>9, <3>3, <3>4, <3>7, <4>1
        <3> QED BY <1>11, <3>6, <3>7
    <2> QED BY <2>1, <2>2, <2>3, <2>4 DEF Carries
<1>13. Fits(f)
    <2>1. CASE type \in Known
        BY <1>2, <1>3, <1>11, <2>1 DEF Fits, L
    <2>2. CASE type \notin Known
        <3>1. ASSUME NEW k \in 2..Len(f.body), Wanted(f.body[k]), f.body[k - 1] = Mark
              PROVE  Len(f.body) - k =< TYPE_TO_MESSAGE_LEN[f.body[k]]
            <4> DEFINE q == k - 1
            <4>1. q \in 1..Len(message) /\ k = q + 1 /\ q \in Int
                BY <1>3, <1>11, <3>1 DEF L
            <4>2. f.body[k] = message[q]
                BY <1>3, <1>11, <4>1
            <4>3. q > 1 => message[q - 1] = Mark
                <5> SUFFICES ASSUME q > 1 PROVE message[q - 1] = Mark
                    OBVIOUS
                <5>1. q - 1 \in 1..Len(message) /\ (q - 1) + 1 = q
                    BY <1>3, <4>1
                <5>2. body[(q - 1) + 1] = message[q - 1]
                    BY <1>3, <5>1
                <5> HIDE DEF q
                <5>3. k - 1 = q
                    BY <4>1
                <5>4. body[q] = Mark
                    BY <1>11, <3>1, <5>3
                <5> QED BY <5>1, <5>2, <5>4
            <4> HIDE DEF q
            <4>4. q \in DOMAIN message
                BY <1>2, <4>1
            <4>5. Len(message) - q =< TYPE_TO_MESSAGE_LEN[message[q]]
                BY <1>2, <2>2, <3>1, <4>2, <4>3, <4>4 DEF HidesNothing
            <4>6. Len(f.body) - k = Len(message) - q
                BY <1>3, <1>11, <4>1 DEF L
            <4> QED BY <4>2, <4>5, <4>6
        <3> QED BY <1>3, <1>11, <2>2, <3>1 DEF Fits
    <2> QED BY <2>1, <2>2
<1> DEFINE t == Append(s, f)
<1>14. /\ t \in Seq(Frame) /\ Len(t) = Len(s) + 1 /\ t[Len(s) + 1] = f
       /\ \A j \in 1..Len(s) : t[j] = s[j]
    BY <1>1, <1>10
<1> HIDE DEF t
<1>15. \A j \in 1..Len(t) : j \in 1..Len(s) \/ j = Len(s) + 1
    BY <1>1, <1>14
<1>16. \A j \in 1..Len(s) : /\ s[j] \in Frame /\ Carries(w, s[j]) /\ Fits(s[j])
                            /\ s[j].to \in Nat /\ s[j].to =< Len(w)
    BY FrameFacts
<1>17. \A j \in 1..Len(t) : Carries(v, t[j]) /\ Fits(t[j])
    <2>1. Len(w) =< Len(v)
        BY <1>1, <1>6, <1>9
    <2>2. ASSUME NEW j \in 1..Len(s) PROVE Carries(v, s[j]) /\ Fits(s[j])
        <3>1. s[j].body # <<>>
            BY <1>16 DEF Fits
        <3> QED BY <1>1, <1>9, <1>16, <2>1, <3>1, CarriesOn
    <2> QED BY <1>12, <1>13, <1>14, <1>15, <2>2
<1>18. Len(w) = IF Len(s) = 0 THEN 0 ELSE s[Len(s)].to
    BY DEF Stream
<1>19. ASSUME NEW j \in 1..Len(t)
       PROVE  t[j].from = IF j = 1 THEN 1 ELSE t[j - 1].to + 1
    <2>1. CASE j \in 1..Len(s)
        <3>1. s[j].from = IF j = 1 THEN 1 ELSE s[j - 1].to + 1
            BY <2>1 DEF Stream
        <3>2. j # 1 => j - 1 \in 1..Len(s)
            BY <1>1, <2>1
        <3> QED BY <1>14, <2>1, <3>1, <3>2
    <2>2. CASE j = Len(s) + 1
        <3>1. t[j].from = Len(w) + 1
            BY <1>11, <1>14, <2>2
        <3>2. CASE Len(s) = 0
            BY <1>18, <2>2, <3>1, <3>2
        <3>3. CASE Len(s) # 0
            <4>1. j # 1 /\ j - 1 = Len(s) /\ Len(s) \in 1..Len(s)
                BY <1>1, <2>2, <3>3
            <4> QED BY <1>14, <1>18, <3>1, <3>3, <4>1
        <3> QED BY <3>2, <3>3
    <2> QED BY <1>15, <2>1, <2>2
<1>20. Len(v) = IF Len(t) = 0 THEN 0 ELSE t[Len(t)].to
    <2>1. Len(t) # 0
        BY <1>1, <1>14
    <2> QED BY <1>11, <1>14, <2>1
<1>21. ASSUME NEW j \in 1..Len(t), NEW k \in 1..Len(t), j < k PROVE t[j].to < t[k].from
    <2>1. j \in 1..Len(s)
        BY <1>1, <1>14, <1>21
    <2>2. CASE k \in 1..Len(s)
        <3>1. s[j].to < s[k].from
            BY <1>21, <2>1, <2>2 DEF Stream
        <3> QED BY <1>14, <2>1, <2>2, <3>1
    <2>3. CASE k = Len(s) + 1
        <3>1. t[k].from = Len(w) + 1 /\ t[j].to = s[j].to
            BY <1>11, <1>14, <2>1, <2>3
        <3>2. s[j].to \in Nat /\ s[j].to =< Len(w)
            BY <1>16, <2>1
        <3> QED BY <1>1, <3>1, <3>2
    <2> QED BY <1>15, <2>2, <2>3
<1>22. Stream(v, t)
    BY <1>9, <1>14, <1>17, <1>19, <1>20, <1>21 DEF Stream
<1>23. Len(w) + 2 =< Len(v)
    BY <1>1, <1>6, <1>9
<1>24. v = Extended(w, type, tick, message) /\ f = NewFrame(w, type, tick, message, at)
    BY DEF Extended, NewFrame, v, f, e, body
<1> QED BY <1>3, <1>9, <1>10, <1>11, <1>22, <1>23, <1>24 DEF t

\* The wanted frames that end within the first n bytes.
Heard(s, n) == {j \in DOMAIN s : Wanted(s[j].type) /\ s[j].to =< n}

\* f is those L frames, in their order.
Matches(f, L, s, n) ==
    /\ f \in [1..L -> Heard(s, n)] /\ Range(f) = Heard(s, n)
    /\ \A i, j \in 1..L : i < j => f[i] < f[j]

\* b is what was read last of w, no known frame is cut where it begins, and all that
\* have been read whole are behind it.
Rests(b, w, s, base, n) ==
    /\ IsPart(b, w, base, n) /\ CutsNone(s, base)
    /\ \A j \in 1..Len(s) : s[j].type \in Known /\ s[j].to =< n => s[j].to =< base

\* What N frames are written when a chunk has arrived: h goes on where f ends.
Continues(h, N, f, L, bytes, s, n) ==
    /\ Matches(h, L + N, s, n)
    /\ InOrder(Framed(bytes)) \in [1..N -> Framed(bytes)]
    /\ \A i \in 1..L : h[i] = f[i]
    /\ \A i \in 1..N : InOrder(Framed(bytes))[i].body = s[h[L + i]].body

\* What is parsed when the bytes of w up to n have come.
Joint(b, w, been, n) == b \o SubSeq(w, been + 1, n)

\* A chunk that is read: what is parsed stands on the wire behind what was parsed before,
\* and tells of the frames that have been completed since.
LEMMA ChunkFacts ==
    ASSUME NEW w, NEW s, Stream(w, s), NEW b, NEW base, NEW been, Rests(b, w, s, base, been),
           NEW n \in (been + 1)..Len(w), NEW L \in Nat, NEW f, Matches(f, L, s, been)
    PROVE  /\ \E next \in Nat :
                Rests(parse_beast_frames(Joint(b, w, been, n)).rest, w, s, next, n)
           /\ \E N \in Nat : \E h : Continues(h, N, f, L, Joint(b, w, been, n), s, n)
<1>1. /\ IsPart(b, w, base, been) /\ CutsNone(s, base)
       /\ \A j \in 1..Len(s) : s[j].type \in Known /\ s[j].to =< been => s[j].to =< base
    BY DEF Rests
<1>2. /\ f \in [1..L -> Heard(s, been)] /\ Range(f) = Heard(s, been)
       /\ \A i, j \in 1..L : i < j => f[i] < f[j]
    BY DEF Matches
<1> DEFINE chunk == SubSeq(w, been + 1, n)
           bytes == b \o chunk
           wanted == InOrder(Framed(bytes))
<1>3. /\ w \in Seq(Nat) /\ Len(w) \in Nat /\ b \in Seq(Nat) /\ base \in Nat /\ been \in Nat
      /\ base =< been /\ Len(b) = been - base /\ n \in Nat /\ been < n /\ n =< Len(w)
    BY <1>1 DEF Stream, IsPart
<1>4. IsPart(bytes, w, base, n)
    <2>1. /\ chunk \in Seq(Nat) /\ Len(chunk) = n - been
          /\ \A i \in 1..(n - been) : chunk[i] = w[been + i]
        <3> DEFINE m == been + 1
        <3>1. m \in Int /\ m =< n /\ n \in Int /\ n - m + 1 = n - been
              /\ \A i \in 1..(n - been) : m + i - 1 = been + i /\ been + i \in 1..Len(w)
            BY <1>3
        <3> HIDE DEF m
        <3>2. chunk = SubSeq(w, m, n)
            BY DEF m
        <3>3. /\ SubSeq(w, m, n) \in Seq(Nat) /\ Len(SubSeq(w, m, n)) = n - m + 1
              /\ \A i \in 1..(n - m + 1) : SubSeq(w, m, n)[i] = w[m + i - 1]
            <4>1. \A i \in m..n : i \in 1..Len(w)
                BY <1>3 DEF m
            <4>2. \A i \in m..n : w[i] \in Nat
                BY <1>3, <4>1
            <4> QED BY <3>1, <4>2
        <3> QED BY <3>1, <3>2, <3>3
    <2> HIDE DEF chunk
    <2>2. /\ bytes \in Seq(Nat) /\ Len(bytes) = Len(b) + Len(chunk)
          /\ \A i \in 1..Len(b) : bytes[i] = b[i]
          /\ \A i \in 1..Len(chunk) : bytes[Len(b) + i] = chunk[i]
        BY <1>3, <2>1, Joined
    <2> HIDE DEF bytes
    <2>3. Len(bytes) = n - base
        BY <1>3, <2>1, <2>2
    <2>4. ASSUME NEW i \in 1..Len(bytes) PROVE bytes[i] = w[base + i]
        <3>1. CASE i =< Len(b)
            <4>1. i \in 1..Len(b)
                BY <1>3, <3>1
            <4>2. b[i] = w[base + i]
                BY <1>1, <4>1 DEF IsPart
            <4> QED BY <2>2, <4>1, <4>2
        <3>2. CASE i > Len(b)
            <4> DEFINE k == i - Len(b)
            <4>1. i \in Nat /\ i =< n - base /\ i > Len(b)
                BY <2>3, <3>2
            <4>2. k \in 1..(n - been) /\ Len(b) + k = i /\ been + k = base + i
                BY <1>3, <4>1
            <4> HIDE DEF k
            <4>3. bytes[Len(b) + k] = chunk[k] /\ chunk[k] = w[been + k]
                BY <2>1, <2>2, <4>2
            <4> QED BY <4>2, <4>3
        <3>3. i \in Nat /\ Len(b) \in Nat
            BY <1>3
        <3> QED BY <3>1, <3>2, <3>3
    <2>5. base =< n
        BY <1>3
    <2> QED BY <1>3, <2>2, <2>3, <2>4, <2>5 DEF IsPart
<1> HIDE DEF bytes
<1>5. \E next \in base..n :
                   /\ IsPart(parse_beast_frames(bytes).rest, w, next, n) /\ CutsNone(s, next)
                   /\ \A j \in 1..Len(s) : s[j].type \in Known /\ s[j].to =< n => s[j].to =< next
    BY <1>4, <1>1, ParseFacts
<1>6. \E next \in Nat : Rests(parse_beast_frames(bytes).rest, w, s, next, n)
    <2>1. \A next \in base..n : next \in Nat
        BY <1>3
    <2> QED BY <1>5, <2>1 DEF Rests
<1> DEFINE B == Between(s, base, n)
<1>7. PICK N \in Nat : \E g : Writes(g, N, bytes, s, base, n)
    BY <1>4, <1>1, WantedFacts
<1>8. PICK g : Writes(g, N, bytes, s, base, n)
    BY <1>7
<1>9. /\ g \in [1..N -> B]
      /\ wanted \in [1..N -> Framed(bytes)]
      /\ \A i, j \in 1..N : i < j => g[i] < g[j]
      /\ \A j \in B : \E i \in 1..N : g[i] = j
      /\ \A i \in 1..N : wanted[i].body = s[g[i]].body
    BY <1>8 DEF Writes
<1>10. \A j \in 1..Len(s) : /\ j \in Nat /\ s[j].from \in Nat /\ s[j].to \in Nat
                           /\ s[j].from + 2 =< s[j].to
    BY FrameFacts, StreamFacts
<1>11. DOMAIN s = 1..Len(s)
    BY DEF Stream
<1>12. \A j : j \in Heard(s, n) <=> j \in Heard(s, been) \/ j \in B
    <2>1. ASSUME NEW j \in 1..Len(s), Wanted(s[j].type), s[j].to =< n
          PROVE  s[j].to =< been \/ s[j].from > base
        <3>1. s[j].type \in Known
            BY <2>1 DEF Wanted
        <3>2. CASE s[j].from =< base
            <4>1. s[j].to =< base
                BY <1>1, <3>1, <3>2 DEF CutsNone
            <4> QED BY <1>3, <1>10, <4>1
        <3>3. s[j].from \in Nat /\ base \in Nat
            BY <1>3, <1>10
        <3>4. s[j].from =< base \/ s[j].from > base
            BY <3>3
        <3> QED BY <3>2, <3>4
    <2>2. \A j \in 1..Len(s) : s[j].to =< been => s[j].to =< n
        BY <1>3, <1>10
    <2> QED BY <1>11, <2>1, <2>2 DEF Heard, Between
<1>13. ASSUME NEW j \in Heard(s, been), NEW k \in B PROVE j < k
    <2>1. j \in 1..Len(s) /\ k \in 1..Len(s) /\ s[j].to =< been /\ s[j].type \in Known /\ s[k].from > base
        BY <1>11 DEF Heard, Between, Wanted
    <2>2. s[j].to =< base
        BY <1>1, <2>1
    <2>3. s[j].from < s[k].from
        <3>1. s[j].from \in Nat /\ s[j].to \in Nat /\ s[k].from \in Nat /\ s[j].from + 2 =< s[j].to
            BY <1>10, <2>1
        <3>2. s[j].to =< base /\ base < s[k].from
            BY <1>3, <2>1, <2>2, <3>1
        <3>3. base \in Nat
            BY <1>3
        <3> QED BY <3>1, <3>2, <3>3
    <2>4. ASSUME k < j PROVE FALSE
        <3>1. s[k].to < s[j].from /\ s[k].from + 2 =< s[k].to
            BY <1>10, <2>1, <2>4 DEF Stream
        <3>2. s[k].from \in Nat /\ s[k].to \in Nat /\ s[j].from \in Nat
            BY <1>10, <2>1
        <3> QED BY <2>3, <3>1, <3>2
    <2>5. j \in Nat /\ k \in Nat /\ j # k
        BY <1>10, <2>1, <2>3
    <2> QED BY <2>4, <2>5
<1> DEFINE h == [i \in 1..(L + N) |-> IF i =< L THEN f[i] ELSE g[i - L]]
<1>14. \A i \in 1..(L + N) : /\ i =< L => i \in 1..L
                             /\ ~(i =< L) => i - L \in 1..N
    OBVIOUS
<1>15. /\ \A i \in 1..L : i \in 1..(L + N) /\ i =< L
       /\ \A i \in 1..N : L + i \in 1..(L + N) /\ ~(L + i =< L) /\ (L + i) - L = i
    OBVIOUS
<1>16. /\ \A i \in 1..L : h[i] = f[i]
       /\ \A i \in 1..N : h[L + i] = g[i]
    <2>1. \A i \in 1..(L + N) : h[i] = IF i =< L THEN f[i] ELSE g[i - L]
        OBVIOUS
    <2> HIDE DEF h
    <2> QED BY <1>15, <2>1
<1>17. h \in [1..(L + N) -> Heard(s, n)]
    <2>1. \A i \in 1..L : f[i] \in Heard(s, n)
        BY <1>12, <1>2
    <2>2. \A i \in 1..N : g[i] \in Heard(s, n)
        BY <1>9, <1>12
    <2> QED BY <1>14, <2>1, <2>2
<1>18. \A i \in 1..(L + N) : \/ i \in 1..L /\ h[i] = f[i]
                             \/ i - L \in 1..N /\ h[i] = g[i - L] /\ i > L
    BY <1>14
<1> HIDE DEF h
<1>19. Range(h) = Heard(s, n)
    <2>1. Range(h) \subseteq Heard(s, n)
        BY <1>17 DEF Range
    <2>2. ASSUME NEW j \in Heard(s, n) PROVE j \in Range(h)
        <3>1. CASE j \in Heard(s, been)
            <4>1. PICK i \in 1..L : f[i] = j
                BY <1>2, <3>1 DEF Range
            <4> QED BY <1>15, <1>16, <1>17, <4>1 DEF Range
        <3>2. CASE j \in B
            <4>1. PICK i \in 1..N : g[i] = j
                BY <1>9, <3>2
            <4> QED BY <1>15, <1>16, <1>17, <4>1 DEF Range
        <3> QED BY <1>12, <3>1, <3>2
    <2> QED BY <2>1, <2>2
<1>20. ASSUME NEW i \in 1..(L + N), NEW j \in 1..(L + N), i < j PROVE h[i] < h[j]
    <2>1. CASE i \in 1..L /\ j \in 1..L
        BY <1>16, <1>20, <1>2, <2>1
    <2>2. CASE i \in 1..L /\ j > L
        <3>1. h[i] = f[i] /\ j - L \in 1..N /\ h[j] = g[j - L]
            BY <1>16, <1>18, <2>2
        <3> HIDE DEF B
        <3>2. f[i] \in Heard(s, been) /\ g[j - L] \in B
            BY <1>9, <1>2, <2>2, <3>1
        <3> QED BY <1>13, <3>1, <3>2
    <2>3. CASE i > L
        <3>1. i - L \in 1..N /\ j - L \in 1..N /\ i - L < j - L
            BY <1>20, <2>3
        <3>2. h[i] = g[i - L] /\ h[j] = g[j - L]
            BY <1>18, <1>20, <2>3
        <3> QED BY <1>9, <3>1, <3>2
    <2> QED BY <1>18, <1>20, <2>1, <2>2, <2>3
<1>21. Continues(h, N, f, L, bytes, s, n)
    <2>1. Matches(h, L + N, s, n)
        BY <1>17, <1>19, <1>20 DEF Matches
    <2>2. \A i \in 1..N : wanted[i].body = s[h[L + i]].body
        BY <1>9, <1>16
    <2> QED BY <1>9, <1>16, <2>1, <2>2 DEF Continues
<1>22. bytes = Joint(b, w, been, n)
    BY DEF Joint, bytes
<1> QED BY <1>21, <1>6, <1>22

-----------------------------------------------------------------------------
(* The bridge *)

\* A record of the bridge's output.
Line == [receiver_id : Identities, ticks : Nat, timestamp_ns : Int \cup {None}, message : Seq(Nat)]

\* What the variables range over.
BridgeTypes ==
    /\ now \in Nat /\ config \in Configs /\ ready \in BOOLEAN
    /\ bridge \in {"off", "on", "refused", "ended"}
    /\ link \in [Identities -> BOOLEAN]
    /\ sent \in [Identities -> Seq(Frame)]
    /\ wire \in [Identities -> Seq(Nat)]
    /\ read \in [Identities -> Nat]
    /\ buffer \in [Identities -> Seq(Nat)]
    /\ lines \in [Identities -> Seq(Line)]
    /\ calls \in Nat

\* How many bytes of the connection of r are behind its buffer.
Passed(r) == read[r] - Len(buffer[r])

\* What is on each wire is frames, and the buffer rests on it.
BufferFits ==
    \A r \in Identities : /\ Stream(wire[r], sent[r])
                          /\ Rests(buffer[r], wire[r], sent[r], Passed(r), read[r])

\* The lines out are the records of the wanted frames of s that have arrived, in order.
Recorded(out, s, n, entry) ==
    \E f \in [1..Len(out) -> Heard(s, n)] :
      /\ Matches(f, Len(out), s, n)
      /\ \A i \in 1..Len(out) : out[i] = beast_frame_to_record(s[f[i]], entry)

LinesFollow ==
    \A r \in Identities : bridge # "ended" => Recorded(lines[r], sent[r], read[r], Entry(r))

\* Only a receiver of the file sends, only once the bridge is on, and the tick of each
\* frame is its counter's.
SendersKnown ==
    \A r \in Identities :
      /\ link[r] \/ sent[r] # <<>> => r \in Configured /\ bridge # "off"
      /\ \A k \in 1..Len(sent[r]) :
           /\ sent[r][k].at =< now
           /\ sent[r][k].body[1] = (PowerOn[r] + sent[r][k].at) % TickModulus

\* A clock that has passed the checks of a launch for MLAT.
Cleared(clock) ==
    /\ clock.enabled = TRUE /\ Described(clock)
    /\ clock.valid_from # None /\ clock.valid_until # None /\ clock.valid_from =< now

\* What a launch for MLAT has checked stays true, also of what is sent later.
ClearedToRun ==
    ready /\ bridge \in {"on", "ended"} =>
      /\ \A e \in Range(config) : Cleared(e.clock)
      /\ \A r \in Identities : \A k \in 1..Len(sent[r]) :
           sent[r][k].at >= Entry(r).clock.valid_from

BridgeInv == BridgeTypes /\ BufferFits /\ LinesFollow /\ SendersKnown /\ ClearedToRun

\* A configured receiver has an entry of its own, with a numeric clock.
LEMMA EntryFacts ==
    ASSUME config \in Configs, NEW r \in Configured
    PROVE  /\ r \in Identities
           /\ Entry(r) \in Range(config) /\ Entry(r).receiver_identity = r
           /\ Entry(r).clock.anchor_tick \in Int /\ Entry(r).clock.anchor_time \in Int
           /\ Entry(r).clock.valid_from \in Int \cup {None}
           /\ Entry(r).clock.valid_until \in Int \cup {None}
<1>1. Entry(r) \in Range(config) /\ Entry(r).receiver_identity = r
    BY DEF Configured, Entry
<1>2. r \in Identities
    BY <1>1 DEF Identities
<1> QED BY <1>1, <1>2, BridgeAssumption

\* The distance of a tick is that of the counter, up to whole turns, and less than half
\* a turn either way.
LEMMA RemainderFacts ==
    ASSUME NEW m \in Nat \ {0}, NEW a \in Int
    PROVE  a % m \in 0..(m - 1) /\ \E q \in Int : a = m * q + (a % m)
<1>1. m > 0 /\ m \in Int
    OBVIOUS
<1> QED BY <1>1

\* DeltaTicks differs from the plain distance by whole turns of the counter, and is less
\* than half a turn.
LEMMA DeltaFacts ==
    ASSUME NEW tick \in Int, NEW anchor \in Int
    PROVE  LET M == TickModulus  d == DeltaTicks(tick, anchor)
           IN /\ d \in Int /\ M \div 2 - M =< d /\ d < M \div 2
              /\ \E q \in Int : tick - anchor = M * q + d
<1> DEFINE M == TickModulus
           x == tick - anchor
           e == x % M
           d == DeltaTicks(tick, anchor)
<1>1. M \in Nat /\ M > 1
    BY BridgeAssumption
<1>2. x \in Int
    OBVIOUS
<1>3. d = IF e >= M \div 2 THEN e - M ELSE e
    BY DEF DeltaTicks
<1> HIDE DEF d, x, M
<1>4. e \in 0..(M - 1) /\ \E q \in Int : x = M * q + e
    <2>1. M \in Nat \ {0}
        BY <1>1
    <2>2. x % M \in 0..(M - 1) /\ \E q \in Int : x = M * q + (x % M)
        BY <1>2, <2>1, RemainderFacts
    <2> QED BY <2>2
<1> HIDE DEF e
<1>5. M \div 2 \in Nat /\ M \div 2 < M
    BY <1>1
<1>6. PICK q \in Int : x = M * q + e
    BY <1>4
<1>7. CASE e >= M \div 2
    <2>1. d = e - M
        BY <1>3, <1>7
    <2>2. q + 1 \in Int /\ M * (q + 1) = M * q + M
        BY <1>1
    <2>3. M * q \in Int
        BY <1>1
    <2>4. x = M * (q + 1) + d
        BY <1>1, <1>4, <1>6, <2>1, <2>2, <2>3
    <2>5. d \in Int /\ M \div 2 - M =< d /\ d < M \div 2
        BY <1>1, <1>4, <1>5, <1>7, <2>1
    <2> QED BY <2>2, <2>4, <2>5 DEF d, x, M
<1>8. CASE e < M \div 2
    <2>1. d = e
        BY <1>3, <1>4, <1>5, <1>8
    <2>2. d \in Int /\ M \div 2 - M =< d /\ d < M \div 2
        BY <1>1, <1>4, <1>5, <1>8, <2>1
    <2> QED BY <1>6, <2>1, <2>2 DEF d, x, M
<1> QED BY <1>4, <1>5, <1>7, <1>8

\* A record is the body of its frame under the receiver's identity.
LEMMA RecordFacts ==
    ASSUME NEW frame, frame.body \in Seq(Nat), frame.body # <<>>, NEW entry,
           entry.receiver_identity \in Identities,
           entry.clock.anchor_tick \in Int, entry.clock.anchor_time \in Int
    PROVE  LET line == beast_frame_to_record(frame, entry)
           IN /\ line \in Line /\ line.receiver_id = entry.receiver_identity
              /\ <<line.ticks>> \o line.message = frame.body
<1> DEFINE tick == Head(frame.body)
           message == Tail(frame.body)
           time == normalize_beast_timestamp(tick, entry.clock)
<1>1. tick \in Nat /\ message \in Seq(Nat)
    OBVIOUS
<1>2. <<tick>> \o message = frame.body
    OBVIOUS
<1>3. time \in Int \cup {None}
    <2> HIDE DEF tick
    <2>1. DeltaTicks(tick, entry.clock.anchor_tick) \in Int
        <3>1. tick \in Int /\ entry.clock.anchor_tick \in Int
            BY <1>1
        <3> QED BY <3>1, DeltaFacts
    <2>2. entry.clock.anchor_time + DeltaTicks(tick, entry.clock.anchor_tick) \in Int
        BY <2>1
    <2> QED BY <2>2 DEF normalize_beast_timestamp
<1> HIDE DEF tick, message, time
<1>4. beast_frame_to_record(frame, entry) =
        [receiver_id |-> entry.receiver_identity, ticks |-> tick, timestamp_ns |-> time,
         message |-> message]
    BY DEF beast_frame_to_record, tick, message, time
<1> QED BY <1>1, <1>2, <1>3, <1>4 DEF Line

\* What holds of a connection on which nothing was sent.
LEMMA NothingSent ==
    /\ Stream(<<>>, <<>>) /\ Rests(<<>>, <<>>, <<>>, 0, 0)
    /\ \A entry : Recorded(<<>>, <<>>, 0, entry)
<1>1. Stream(<<>>, <<>>)
    BY DEF Stream
<1>2. Rests(<<>>, <<>>, <<>>, 0, 0)
    BY DEF Rests, IsPart, CutsNone
<1>3. Heard(<<>>, 0) = {}
    BY DEF Heard
<1>4. Matches(<<>>, 0, <<>>, 0)
    <2>1. <<>> \in [1..0 -> {}] /\ Range(<<>>) = {}
        BY DEF Range
    <2> QED BY <1>3, <2>1 DEF Matches
<1>5. ASSUME NEW entry PROVE Recorded(<<>>, <<>>, 0, entry)
    <2>1. Len(<<>>) = 0 /\ 1..0 = {}
        OBVIOUS
    <2>2. <<>> \in [1..0 -> Heard(<<>>, 0)]
        OBVIOUS
    <2> QED BY <1>4, <2>1, <2>2 DEF Recorded
<1> QED BY <1>1, <1>2, <1>5

\* The invariant holds at first; below, each action keeps it.
LEMMA BridgeInitInv == BridgeInit => BridgeInv
<1> SUFFICES ASSUME BridgeInit PROVE BridgeInv
    OBVIOUS
<1> USE DEF BridgeInit
<1>1. BridgeTypes
    BY DEF BridgeTypes
<1>2. BufferFits
    <2>1. \A r \in Identities : Passed(r) = 0
        BY DEF Passed
    <2> QED BY <2>1, NothingSent DEF BufferFits
<1>3. LinesFollow
    <2>1. \A r \in Identities : lines[r] = <<>> /\ sent[r] = <<>> /\ read[r] = 0
        OBVIOUS
    <2> QED BY <2>1, NothingSent DEF LinesFollow
<1>4. SendersKnown
    BY DEF SendersKnown
<1>5. ClearedToRun
    BY DEF ClearedToRun
<1> QED BY <1>1, <1>2, <1>3, <1>4, <1>5 DEF BridgeInv

\* The launch checks a receiver file for MLAT clock by clock.
LEMMA LaunchInv == BridgeInv /\ Launch => BridgeInv'
<1> SUFFICES ASSUME BridgeInv, Launch PROVE BridgeInv'
    OBVIOUS
<1>1. /\ bridge = "off" /\ bridge' = IF load_receiver_config(config, ready) THEN "on" ELSE "refused"
      /\ UNCHANGED <<now, config, ready, link, sent, wire, read, buffer, lines, calls>>
    BY DEF Launch
<1>2. BridgeTypes /\ BufferFits /\ LinesFollow /\ SendersKnown
    BY DEF BridgeInv
<1>3. BridgeTypes'
    BY <1>1, <1>2 DEF BridgeTypes
<1>4. BufferFits'
    BY <1>1, <1>2 DEF BufferFits, Passed
<1>5. LinesFollow'
    BY <1>1, <1>2 DEF LinesFollow, Entry
<1>6. \A r \in Identities : ~link[r] /\ sent[r] = <<>>
    BY <1>1, <1>2 DEF SendersKnown
<1>7. SendersKnown'
    BY <1>1, <1>6 DEF SendersKnown
<1>8. ClearedToRun'
    <2>1. bridge' \in {"on", "ended"} => load_receiver_config(config, ready)
        BY <1>1
    <2>2. \A r \in Identities : \A k \in 1..Len(sent[r]) : FALSE
        BY <1>6
    <2> SUFFICES ASSUME ready, load_receiver_config(config, ready)
                 PROVE  \A e \in Range(config) : Cleared(e.clock)
        BY <1>1, <2>1, <2>2 DEF ClearedToRun, Cleared, Described
    <2> TAKE e \in Range(config)
    <2>3. ready = TRUE
        BY <1>2 DEF BridgeTypes
    <2>4. validate_clock(e.clock, TRUE)
        BY <2>3 DEF load_receiver_config
    <2>5. e.clock.enabled = TRUE /\ Described(e.clock) /\ WindowHolds(e.clock)
        BY <2>4 DEF validate_clock
    <2>6. /\ e.clock.valid_from # None /\ e.clock.valid_until # None
          /\ now \in e.clock.valid_from..e.clock.valid_until
        BY <2>5 DEF WindowHolds
    <2>7. e.clock.valid_from \in Int /\ e.clock.valid_until \in Int
        BY <1>2, <2>6, BridgeAssumption DEF BridgeTypes
    <2>8. e.clock.valid_from =< now
        BY <2>6, <2>7
    <2> QED BY <2>5, <2>6, <2>8 DEF Cleared
<1> QED BY <1>3, <1>4, <1>5, <1>7, <1>8 DEF BridgeInv

\* A task opens its connection.
LEMMA ConnectInv ==
    ASSUME NEW r \in Identities
    PROVE  BridgeInv /\ Connect(r) => BridgeInv'
<1> SUFFICES ASSUME BridgeInv, Connect(r) PROVE BridgeInv'
    OBVIOUS
<1>1. /\ bridge = "on" /\ r \in Configured /\ link' = [link EXCEPT ![r] = TRUE] /\ calls' = calls + 1
      /\ UNCHANGED <<now, config, ready, bridge, sent, wire, read, buffer, lines>>
    BY DEF Connect
<1>2. BridgeTypes /\ BufferFits /\ LinesFollow /\ SendersKnown /\ ClearedToRun
    BY DEF BridgeInv
<1>3. BridgeTypes'
    BY <1>1, <1>2 DEF BridgeTypes
<1>4. BufferFits'
    BY <1>1, <1>2 DEF BufferFits, Passed
<1>5. LinesFollow'
    BY <1>1, <1>2 DEF LinesFollow, Entry
<1>6. SendersKnown'
    <2>1. \A q \in Identities : q # r => link'[q] = link[q]
        BY <1>1, <1>2 DEF BridgeTypes
    <2> QED BY <1>1, <1>2, <2>1 DEF SendersKnown, Configured
<1>7. ClearedToRun'
    BY <1>1, <1>2 DEF ClearedToRun, Cleared, Described, Entry
<1> QED BY <1>3, <1>4, <1>5, <1>6, <1>7 DEF BridgeInv

\* A new connection has another stream, and nothing of the old one is left.
LEMMA DisconnectInv ==
    ASSUME NEW r \in Identities
    PROVE  BridgeInv /\ Disconnect(r) => BridgeInv'
<1> SUFFICES ASSUME BridgeInv, Disconnect(r) PROVE BridgeInv'
    OBVIOUS
<1>1. /\ bridge = "on" /\ link' = [link EXCEPT ![r] = FALSE]
      /\ sent' = [sent EXCEPT ![r] = <<>>] /\ wire' = [wire EXCEPT ![r] = <<>>]
      /\ read' = [read EXCEPT ![r] = 0] /\ buffer' = [buffer EXCEPT ![r] = <<>>]
      /\ lines' = [lines EXCEPT ![r] = <<>>]
      /\ UNCHANGED <<now, config, ready, bridge, calls>>
    BY DEF Disconnect
<1>2. BridgeTypes /\ BufferFits /\ LinesFollow /\ SendersKnown /\ ClearedToRun
    BY DEF BridgeInv
<1>3. /\ link'[r] = FALSE /\ sent'[r] = <<>> /\ wire'[r] = <<>> /\ read'[r] = 0
      /\ buffer'[r] = <<>> /\ lines'[r] = <<>> /\ Len(<<>>) = 0
    BY <1>1, <1>2 DEF BridgeTypes
<1>4. \A q \in Identities : q # r =>
        /\ link'[q] = link[q] /\ sent'[q] = sent[q] /\ wire'[q] = wire[q] /\ read'[q] = read[q]
        /\ buffer'[q] = buffer[q] /\ lines'[q] = lines[q]
    BY <1>1, <1>2 DEF BridgeTypes
<1>5. BridgeTypes'
    BY <1>1, <1>2 DEF BridgeTypes
<1>6. BufferFits'
    <2> SUFFICES ASSUME NEW q \in Identities
                 PROVE  /\ Stream(wire'[q], sent'[q])
                        /\ Rests(buffer'[q], wire'[q], sent'[q], read'[q] - Len(buffer'[q]), read'[q])
        BY DEF BufferFits, Passed
    <2>1. CASE q = r
        <3>1. read'[q] - Len(buffer'[q]) = 0
            BY <1>3, <2>1
        <3> QED BY <1>3, <2>1, <3>1, NothingSent
    <2>2. CASE q # r
        BY <1>2, <1>4, <2>2 DEF BufferFits, Passed
    <2> QED BY <2>1, <2>2
<1>7. LinesFollow'
    <2> SUFFICES ASSUME NEW q \in Identities
                 PROVE  Recorded(lines'[q], sent'[q], read'[q], Entry(q)')
        BY DEF LinesFollow
    <2>1. CASE q = r
        BY <1>3, <2>1, NothingSent
    <2>2. CASE q # r
        <3>1. Entry(q)' = Entry(q)
            BY <1>1 DEF Entry
        <3> QED BY <1>1, <1>2, <1>4, <2>2, <3>1 DEF LinesFollow
    <2> QED BY <2>1, <2>2
<1>8. SendersKnown'
    <2> SUFFICES ASSUME NEW q \in Identities
                 PROVE  /\ link'[q] \/ sent'[q] # <<>> => q \in Configured' /\ bridge' # "off"
                        /\ \A k \in 1..Len(sent'[q]) :
                             /\ sent'[q][k].at =< now'
                             /\ sent'[q][k].body[1] = (PowerOn[q] + sent'[q][k].at) % TickModulus
        BY DEF SendersKnown
    <2>1. CASE q = r
        BY <1>3, <2>1
    <2>2. CASE q # r
        BY <1>1, <1>2, <1>4, <2>2 DEF SendersKnown, Configured
    <2> QED BY <2>1, <2>2
<1>9. ClearedToRun'
    <2> SUFFICES ASSUME ready
                 PROVE  /\ \A e \in Range(config) : Cleared(e.clock)
                        /\ \A q \in Identities : \A k \in 1..Len(sent'[q]) :
                             sent'[q][k].at >= Entry(q).clock.valid_from
        BY <1>1 DEF ClearedToRun, Cleared, Described, Entry
    <2>1. \A e \in Range(config) : Cleared(e.clock)
        BY <1>1, <1>2 DEF ClearedToRun
    <2>2. ASSUME NEW q \in Identities, NEW k \in 1..Len(sent'[q])
          PROVE  sent'[q][k].at >= Entry(q).clock.valid_from
        <3>1. q # r
            BY <1>3, <2>2
        <3> QED BY <1>1, <1>2, <1>4, <2>2, <3>1 DEF ClearedToRun
    <2> QED BY <2>1, <2>2
<1> QED BY <1>5, <1>6, <1>7, <1>8, <1>9 DEF BridgeInv

\* Time passes: what a launch has found of the clocks' begin stays true.
LEMMA TimePassesInv == BridgeInv /\ TimePasses => BridgeInv'
<1> SUFFICES ASSUME BridgeInv, TimePasses PROVE BridgeInv'
    OBVIOUS
<1>1. /\ now' = now + 1
      /\ UNCHANGED <<config, ready, bridge, link, sent, wire, read, buffer, lines, calls>>
    BY DEF TimePasses
<1>2. BridgeTypes /\ BufferFits /\ LinesFollow /\ SendersKnown /\ ClearedToRun
    BY DEF BridgeInv
<1>3. now \in Nat /\ config \in Configs
    BY <1>2 DEF BridgeTypes
<1>4. BridgeTypes'
    BY <1>1, <1>2 DEF BridgeTypes
<1>5. BufferFits'
    BY <1>1, <1>2 DEF BufferFits, Passed
<1>6. LinesFollow'
    BY <1>1, <1>2 DEF LinesFollow, Entry
<1>7. SendersKnown'
    <2>1. ASSUME NEW q \in Identities, NEW k \in 1..Len(sent[q]) PROVE sent[q][k].at =< now + 1
        <3>1. sent[q] \in Seq(Frame)
            BY <1>2 DEF BridgeTypes
        <3>2. sent[q][k] \in Frame
            BY <3>1
        <3>3. sent[q][k].at \in Nat
            BY <3>2 DEF Frame
        <3>4. sent[q][k].at =< now
            BY <1>2 DEF SendersKnown
        <3> QED BY <1>3, <3>3, <3>4
    <2> QED BY <1>1, <1>2, <2>1 DEF SendersKnown, Configured
<1>8. ClearedToRun'
    <2>1. ASSUME NEW e \in Range(config), Cleared(e.clock) PROVE e.clock.valid_from =< now + 1
        <3>1. e.clock.valid_from \in Int
            BY <1>3, <2>1, BridgeAssumption DEF Cleared
        <3> QED BY <1>3, <2>1, <3>1 DEF Cleared
    <2> QED BY <1>1, <1>2, <2>1 DEF ClearedToRun, Cleared, Described, Entry
<1> QED BY <1>4, <1>5, <1>6, <1>7, <1>8 DEF BridgeInv

\* A frame that is sent comes after all that is on the wire, and stays unread.
LEMMA TransmitInv ==
    ASSUME NEW r \in Identities, NEW type \in DOMAIN Bodies
    PROVE  BridgeInv /\ Transmit(r, type) => BridgeInv'
<1> SUFFICES ASSUME BridgeInv, Transmit(r, type) PROVE BridgeInv'
    OBVIOUS
<1> DEFINE tick == (PowerOn[r] + now) % TickModulus
<1>1. PICK message \in Bodies[type] :
       LET body  == <<(PowerOn[r] + now) % TickModulus>> \o message
           bytes == wire[r] \o Encode(type, body)
       IN /\ sent' = [sent EXCEPT ![r] = Append(@,
                        [type |-> type, body |-> body, at |-> now,
                         from |-> Len(wire[r]) + 1, to |-> Len(bytes)])]
          /\ wire' = [wire EXCEPT ![r] = bytes]
    BY DEF Transmit
<1>2. link[r] /\ UNCHANGED <<now, config, ready, bridge, link, read, buffer, lines, calls>>
    BY DEF Transmit
<1>3. BridgeTypes /\ BufferFits /\ LinesFollow /\ SendersKnown /\ ClearedToRun
    BY DEF BridgeInv
<1> DEFINE w == wire[r]
           s == sent[r]
           n == read[r]
           v == Extended(w, type, tick, message)
           f == NewFrame(w, type, tick, message, now)
<1>4. now \in Nat /\ tick \in Nat
    <2>1. now \in Nat /\ PowerOn[r] \in Nat
        BY <1>3, BridgeAssumption DEF BridgeTypes
    <2>2. TickModulus \in Nat \ {0}
        BY BridgeAssumption
    <2>3. PowerOn[r] + now \in Int
        BY <2>1
    <2>4. tick \in 0..(TickModulus - 1)
        BY <2>2, <2>3, RemainderFacts
    <2> HIDE DEF tick
    <2> QED BY <2>1, <2>2, <2>4
<1>5. Stream(w, s) /\ Rests(buffer[r], w, s, Passed(r), n)
    BY <1>3 DEF BufferFits
<1>6. /\ f \in Frame /\ Stream(v, Append(s, f)) /\ Len(w) + 2 =< Len(v)
      /\ f.body[1] = tick /\ \A i \in 1..Len(w) : v[i] = w[i]
    <2> HIDE DEF tick, w, s
    <2> QED BY <1>4, <1>5, StreamGrows
<1>7. f.at = now /\ f.from = Len(w) + 1 /\ f.to = Len(v)
    BY DEF NewFrame
<1>8. sent' = [sent EXCEPT ![r] = Append(s, f)] /\ wire' = [wire EXCEPT ![r] = v]
    BY <1>1 DEF NewFrame, Extended
<1> HIDE DEF f, v
<1> DEFINE t == Append(s, f)
<1>9. s \in Seq(Frame) /\ w \in Seq(Nat) /\ v \in Seq(Nat) /\ n \in Nat
    BY <1>3, <1>6 DEF BridgeTypes, Stream
<1>10. /\ t \in Seq(Frame) /\ Len(t) = Len(s) + 1 /\ t[Len(s) + 1] = f /\ Len(s) \in Nat
       /\ \A j \in 1..Len(s) : t[j] = s[j]
    BY <1>6, <1>9
<1>11. sent'[r] = t /\ wire'[r] = v
    BY <1>3, <1>8 DEF BridgeTypes
<1>12. \A q \in Identities : q # r => sent'[q] = sent[q] /\ wire'[q] = wire[q]
    BY <1>3, <1>8 DEF BridgeTypes
<1> HIDE DEF t
<1>13. \A j \in 1..Len(t) : j \in 1..Len(s) \/ j = Len(s) + 1
    BY <1>10
<1>14. Len(w) \in Nat /\ Len(v) \in Nat /\ n =< Len(w) /\ Passed(r) \in Nat /\ Passed(r) =< n
    BY <1>5, <1>9 DEF Rests, IsPart
<1>15. BridgeTypes'
    <2>1. sent' \in [Identities -> Seq(Frame)]
        BY <1>3, <1>8, <1>10 DEF BridgeTypes, t
    <2>2. wire' \in [Identities -> Seq(Nat)]
        BY <1>3, <1>8, <1>9 DEF BridgeTypes
    <2> QED BY <1>2, <1>3, <2>1, <2>2 DEF BridgeTypes
<1>16. f.to > n /\ f.from > Passed(r) /\ f.to \in Nat /\ f.from \in Nat
    <2>1. Len(w) + 2 =< Len(v)
        BY <1>6
    <2> HIDE DEF w, n
    <2> QED BY <1>7, <1>9, <1>14, <2>1
<1>17. Rests(buffer[r], v, t, Passed(r), n)
    <2>1. IsPart(buffer[r], v, Passed(r), n)
        <3>1. IsPart(buffer[r], w, Passed(r), n)
            BY <1>5 DEF Rests
        <3>2. \A i \in 1..Len(buffer[r]) : Passed(r) + i \in 1..Len(w)
            <4>1. Len(buffer[r]) = n - Passed(r)
                BY <3>1 DEF IsPart
            <4>2. Passed(r) \in Nat /\ n \in Nat /\ n =< Len(w) /\ Len(w) \in Nat
                BY <1>9, <1>14
            <4> HIDE DEF n, w
            <4>3. \A i \in 1..(n - Passed(r)) : Passed(r) + i \in 1..Len(w)
                BY <4>2
            <4> QED BY <4>1, <4>3
        <3>3. n =< Len(v)
            BY <1>6, <1>9, <1>14
        <3> QED BY <1>6, <3>1, <3>2, <3>3 DEF IsPart
    <2>2. CutsNone(s, Passed(r))
        BY <1>5 DEF Rests
    <2>3. CutsNone(t, Passed(r))
        <3> SUFFICES ASSUME NEW j \in 1..Len(t), t[j].type \in Known, t[j].from =< Passed(r)
                     PROVE  t[j].to =< Passed(r)
            BY DEF CutsNone
        <3>1. j # Len(s) + 1
            BY <1>10, <1>14, <1>16
        <3>2. j \in 1..Len(s)
            BY <1>13, <3>1
        <3> QED BY <1>10, <2>2, <3>2 DEF CutsNone
    <2>4. ASSUME NEW j \in 1..Len(t), t[j].type \in Known, t[j].to =< n
          PROVE  t[j].to =< Passed(r)
        <3>1. j # Len(s) + 1
            BY <1>9, <1>10, <1>16, <2>4
        <3>2. j \in 1..Len(s)
            BY <1>13, <3>1
        <3> QED BY <1>5, <1>10, <2>4, <3>2 DEF Rests
    <2> QED BY <2>1, <2>3, <2>4 DEF Rests
<1>18. BufferFits'
    <2> SUFFICES ASSUME NEW q \in Identities
                 PROVE  /\ Stream(wire'[q], sent'[q])
                        /\ Rests(buffer[q], wire'[q], sent'[q], Passed(q), read[q])
        BY <1>2 DEF BufferFits, Passed
    <2>1. CASE q = r
        BY <1>6, <1>11, <1>17, <2>1 DEF t
    <2>2. CASE q # r
        BY <1>3, <1>12, <2>2 DEF BufferFits
    <2> QED BY <2>1, <2>2
<1>19. Heard(t, n) = Heard(s, n)
    <2>1. DOMAIN s = 1..Len(s) /\ DOMAIN t = 1..Len(t)
        BY <1>9, <1>10
    <2>2. ASSUME NEW j \in Heard(t, n) PROVE j \in Heard(s, n)
        <3>1. j \in 1..Len(t) /\ Wanted(t[j].type) /\ t[j].to =< n
            BY <2>1 DEF Heard
        <3>2. j # Len(s) + 1
            BY <1>9, <1>10, <1>16, <3>1
        <3>3. j \in 1..Len(s)
            BY <1>13, <3>1, <3>2
        <3> QED BY <1>10, <2>1, <3>1, <3>3 DEF Heard
    <2>3. ASSUME NEW j \in Heard(s, n) PROVE j \in Heard(t, n)
        <3>1. j \in 1..Len(s) /\ Wanted(s[j].type) /\ s[j].to =< n
            BY <2>1 DEF Heard
        <3>2. j \in 1..Len(t) /\ t[j] = s[j]
            BY <1>10, <3>1
        <3> QED BY <2>1, <3>1, <3>2 DEF Heard
    <2> QED BY <2>2, <2>3
<1>20. \A j \in Heard(s, n) : t[j] = s[j]
    <2>1. DOMAIN s = 1..Len(s)
        BY <1>9
    <2> QED BY <1>10, <2>1 DEF Heard
<1>21. LinesFollow'
    <2> SUFFICES ASSUME NEW q \in Identities, bridge # "ended"
                 PROVE  Recorded(lines[q], sent'[q], read[q], Entry(q)')
        BY <1>2 DEF LinesFollow
    <2>1. Entry(q)' = Entry(q)
        BY <1>2 DEF Entry
    <2>2. Recorded(lines[q], sent[q], read[q], Entry(q))
        BY <1>3 DEF LinesFollow
    <2>3. CASE q = r
        <3> DEFINE out == lines[r]
        <3>1. PICK g \in [1..Len(out) -> Heard(s, n)] :
                /\ Matches(g, Len(out), s, n)
                /\ \A i \in 1..Len(out) : out[i] = beast_frame_to_record(s[g[i]], Entry(r))
            BY <2>2, <2>3 DEF Recorded
        <3>2. Matches(g, Len(out), t, n)
            BY <1>19, <3>1 DEF Matches
        <3>3. \A i \in 1..Len(out) : out[i] = beast_frame_to_record(t[g[i]], Entry(r))
            BY <1>20, <3>1
        <3>4. g \in [1..Len(out) -> Heard(t, n)]
            BY <1>19, <3>1
        <3> QED BY <1>11, <2>1, <2>3, <3>2, <3>3, <3>4 DEF Recorded
    <2>4. CASE q # r
        BY <1>12, <2>1, <2>2, <2>4
    <2> QED BY <2>3, <2>4
<1>22. SendersKnown'
    <2> SUFFICES ASSUME NEW q \in Identities
                 PROVE  /\ link[q] \/ sent'[q] # <<>> => q \in Configured /\ bridge # "off"
                        /\ \A k \in 1..Len(sent'[q]) :
                             /\ sent'[q][k].at =< now
                             /\ sent'[q][k].body[1] = (PowerOn[q] + sent'[q][k].at) % TickModulus
        BY <1>2 DEF SendersKnown, Configured
    <2>1. CASE q = r
        <3>1. r \in Configured /\ bridge # "off"
            BY <1>2, <1>3 DEF SendersKnown
        <3>2. ASSUME NEW k \in 1..Len(t)
              PROVE  t[k].at =< now /\ t[k].body[1] = (PowerOn[r] + t[k].at) % TickModulus
            <4>1. CASE k \in 1..Len(s)
                BY <1>3, <1>10, <4>1 DEF SendersKnown
            <4>2. CASE k = Len(s) + 1
                <5>1. t[k].at = now /\ t[k].body[1] = tick
                    BY <1>6, <1>7, <1>10, <4>2
                <5> QED BY <1>4, <5>1
            <4> QED BY <1>13, <4>1, <4>2
        <3> QED BY <1>11, <2>1, <3>1, <3>2
    <2>2. CASE q # r
        BY <1>3, <1>12, <2>2 DEF SendersKnown
    <2> QED BY <2>1, <2>2
<1>23. ClearedToRun'
    <2> SUFFICES ASSUME ready, bridge \in {"on", "ended"}
                 PROVE  /\ \A e \in Range(config) : Cleared(e.clock)
                        /\ \A q \in Identities : \A k \in 1..Len(sent'[q]) :
                             sent'[q][k].at >= Entry(q).clock.valid_from
        BY <1>2 DEF ClearedToRun, Cleared, Described, Entry
    <2>1. \A e \in Range(config) : Cleared(e.clock)
        BY <1>3 DEF ClearedToRun
    <2>2. \A q \in Identities : \A k \in 1..Len(sent[q]) : sent[q][k].at >= Entry(q).clock.valid_from
        BY <1>3 DEF ClearedToRun
    <2>3. ASSUME NEW k \in 1..Len(t) PROVE t[k].at >= Entry(r).clock.valid_from
        <3>1. CASE k \in 1..Len(s)
            BY <1>10, <2>2, <3>1
        <3>2. CASE k = Len(s) + 1
            <4>1. r \in Configured /\ config \in Configs
                BY <1>2, <1>3 DEF SendersKnown, BridgeTypes
            <4>2. Cleared(Entry(r).clock) /\ Entry(r).clock.valid_from \in Int \cup {None}
                BY <2>1, <4>1, EntryFacts
            <4>3. Entry(r).clock.valid_from \in Int /\ Entry(r).clock.valid_from =< now
                BY <4>2 DEF Cleared
            <4>4. t[k].at = now
                BY <1>7, <1>10, <3>2
            <4> QED BY <1>4, <4>3, <4>4
        <3> QED BY <1>13, <3>1, <3>2
    <2>4. ASSUME NEW q \in Identities, NEW k \in 1..Len(sent'[q])
          PROVE  sent'[q][k].at >= Entry(q).clock.valid_from
        <3>1. CASE q = r
            BY <1>11, <2>3, <2>4, <3>1
        <3>2. CASE q # r
            BY <1>12, <2>2, <2>4, <3>2
        <3> QED BY <3>1, <3>2
    <2> QED BY <2>1, <2>4
<1> QED BY <1>15, <1>18, <1>21, <1>22, <1>23 DEF BridgeInv

\* What joining lines to lines gives.
LEMMA JoinedLines ==
    ASSUME NEW a \in Seq(Line), NEW N \in Nat, NEW c \in [1..N -> Line]
    PROVE  /\ a \o c \in Seq(Line) /\ Len(a \o c) = Len(a) + N
           /\ \A i \in 1..Len(a) : (a \o c)[i] = a[i]
           /\ \A i \in 1..N : (a \o c)[Len(a) + i] = c[i]
<1>1. c \in Seq(Line) /\ Len(c) = N
    OBVIOUS
<1>2. Len(a) \in Nat
    OBVIOUS
<1>3. \A i \in 1..N : Len(a) + i \in 1..(Len(a) + N) /\ ~(Len(a) + i =< Len(a))
                      /\ (Len(a) + i) - Len(a) = i
    BY <1>2
<1>4. \A i \in 1..Len(a) : i \in 1..(Len(a) + N) /\ i =< Len(a)
    BY <1>2
<1>5. /\ a \o c \in Seq(Line) /\ Len(a \o c) = Len(a) + N
      /\ \A i \in 1..(Len(a) + N) : (a \o c)[i] = IF i =< Len(a) THEN a[i] ELSE c[i - Len(a)]
    BY <1>1
<1> QED BY <1>3, <1>4, <1>5

\* A chunk that is read is parsed behind what the last one left, and its lines come
\* after those written.
LEMMA ReadInv ==
    ASSUME NEW r \in Identities
    PROVE  BridgeInv /\ Read(r) => BridgeInv'
<1> SUFFICES ASSUME BridgeInv, Read(r) PROVE BridgeInv'
    OBVIOUS
<1> DEFINE bytes(n) == buffer[r] \o SubSeq(wire[r], read[r] + 1, n)
           wanted(n) == InOrder(Framed(bytes(n)))
           out(n) == [i \in DOMAIN wanted(n) |-> beast_frame_to_record(wanted(n)[i], Entry(r))]
<1>1. PICK n \in (read[r] + 1)..Len(wire[r]) :
        /\ read' = [read EXCEPT ![r] = n]
        /\ buffer' = [buffer EXCEPT ![r] = parse_beast_frames(bytes(n)).rest]
        /\ \/ /\ DOMAIN wanted(n) # {} /\ Raises(Entry(r).clock)
              /\ bridge' = "ended" /\ UNCHANGED lines
           \/ /\ lines' = [lines EXCEPT ![r] = @ \o out(n)]
              /\ UNCHANGED bridge
    BY DEF Read, Fed, Framed
<1>2. bridge = "on" /\ link[r] /\ UNCHANGED <<now, config, ready, link, sent, wire, calls>>
    BY DEF Read
<1>3. BridgeTypes /\ BufferFits /\ LinesFollow /\ SendersKnown /\ ClearedToRun
    BY DEF BridgeInv
<1> DEFINE b == Joint(buffer[r], wire[r], read[r], n)
           want == InOrder(Framed(b))
           L == Len(lines[r])
           line == [i \in DOMAIN want |-> beast_frame_to_record(want[i], Entry(r))]
           rest == parse_beast_frames(b).rest
           w == wire[r]
           s == sent[r]
<1>4. /\ read' = [read EXCEPT ![r] = n] /\ buffer' = [buffer EXCEPT ![r] = rest]
      /\ \/ bridge' = "ended" /\ UNCHANGED lines
         \/ lines' = [lines EXCEPT ![r] = @ \o line] /\ UNCHANGED bridge
    BY <1>1 DEF Joint
<1>5. /\ r \in Configured /\ config \in Configs /\ L \in Nat /\ lines[r] \in Seq(Line)
      /\ read[r] \in Nat /\ s \in Seq(Frame)
    BY <1>2, <1>3 DEF SendersKnown, BridgeTypes
<1>6. /\ Entry(r) \in Range(config) /\ Entry(r).receiver_identity = r
      /\ Entry(r).clock.anchor_tick \in Int /\ Entry(r).clock.anchor_time \in Int
    BY <1>5, EntryFacts
<1>7. Stream(w, s) /\ Rests(buffer[r], w, s, Passed(r), read[r])
    BY <1>3 DEF BufferFits
<1>8. PICK f \in [1..L -> Heard(s, read[r])] :
        /\ Matches(f, L, s, read[r])
        /\ \A i \in 1..L : lines[r][i] = beast_frame_to_record(s[f[i]], Entry(r))
    BY <1>2, <1>3 DEF LinesFollow, Recorded
<1>9. /\ \E next \in Nat : Rests(rest, w, s, next, n)
      /\ \E N \in Nat : \E h : Continues(h, N, f, L, b, s, n)
    <2>1. n \in (read[r] + 1)..Len(w)
        OBVIOUS
    <2>2. Matches(f, L, s, read[r]) /\ L \in Nat
        BY <1>5, <1>8
    <2> HIDE DEF L
    <2> QED BY <1>7, <2>1, <2>2, ChunkFacts
<1> HIDE DEF b, rest, bytes, wanted, out
<1>10. PICK next \in Nat : Rests(rest, w, s, next, n)
    BY <1>9
<1>11. PICK N \in Nat : \E h : Continues(h, N, f, L, b, s, n)
    BY <1>9
<1>12. PICK h : Continues(h, N, f, L, b, s, n)
    BY <1>11
<1>13. /\ want \in [1..N -> Framed(b)] /\ DOMAIN want = 1..N /\ Matches(h, L + N, s, n)
       /\ \A i \in 1..L : h[i] = f[i]
       /\ \A i \in 1..N : want[i].body = s[h[L + i]].body
    BY <1>12 DEF Continues
<1> HIDE DEF want
<1>14. /\ h \in [1..(L + N) -> Heard(s, n)]
       /\ \A i \in 1..(L + N) : h[i] \in 1..Len(s)
    <2>1. \A i \in Heard(s, n) : i \in 1..Len(s)
        BY <1>5 DEF Heard
    <2>2. h \in [1..(L + N) -> Heard(s, n)]
        BY <1>13 DEF Matches
    <2> QED BY <2>1, <2>2
<1>15. \A i \in 1..N : /\ line[i] = beast_frame_to_record(s[h[L + i]], Entry(r))
                       /\ line[i] \in Line
    <2> TAKE i \in 1..N
    <2>1. L + i \in 1..(L + N)
        BY <1>5
    <2>2. h[L + i] \in 1..Len(s)
        BY <1>14, <2>1
    <2>3. s[h[L + i]].body \in Seq(Nat) /\ s[h[L + i]].body # <<>>
        <3>1. \A j \in 1..Len(s) : s[j].body \in Seq(Nat) /\ s[j].body # <<>>
            BY <1>7, FrameFacts DEF Fits
        <3> QED BY <2>2, <3>1
    <2>4. want[i].body = s[h[L + i]].body
        BY <1>13
    <2>5. line[i] = beast_frame_to_record(want[i], Entry(r))
        BY <1>13
    <2>6. beast_frame_to_record(want[i], Entry(r)) = beast_frame_to_record(s[h[L + i]], Entry(r))
        BY <2>4 DEF beast_frame_to_record
    <2>7. beast_frame_to_record(s[h[L + i]], Entry(r)) \in Line
        BY <1>6, <2>3, RecordFacts
    <2> QED BY <2>5, <2>6, <2>7
<1>16. line \in [1..N -> Line]
    BY <1>13, <1>15
<1> DEFINE all == lines[r] \o line
<1> HIDE DEF line
<1>17. /\ all \in Seq(Line) /\ Len(all) = L + N
       /\ \A i \in 1..L : all[i] = lines[r][i]
       /\ \A i \in 1..N : all[L + i] = line[i]
    BY <1>5, <1>16, JoinedLines
<1> HIDE DEF all
<1>18. n \in Nat /\ rest \in Seq(Nat) /\ n - Len(rest) = next
    BY <1>10 DEF Rests, IsPart
<1>19. lines' \in [Identities -> Seq(Line)] /\ bridge' \in {"on", "ended"}
    <2>1. lines' = lines \/ lines' = [lines EXCEPT ![r] = all]
        BY <1>4 DEF all
    <2> QED BY <1>2, <1>3, <1>4, <1>17, <2>1 DEF BridgeTypes
<1>20. BridgeTypes'
    BY <1>2, <1>3, <1>4, <1>18, <1>19 DEF BridgeTypes
<1>21. read'[r] = n /\ buffer'[r] = rest
    BY <1>3, <1>4 DEF BridgeTypes
<1>22. \A q \in Identities : q # r => read'[q] = read[q] /\ buffer'[q] = buffer[q] /\ lines'[q] = lines[q]
    BY <1>3, <1>4 DEF BridgeTypes
<1>23. BufferFits'
    <2> SUFFICES ASSUME NEW q \in Identities
                 PROVE  /\ Stream(wire[q], sent[q])
                        /\ Rests(buffer'[q], wire[q], sent[q], read'[q] - Len(buffer'[q]), read'[q])
        BY <1>2 DEF BufferFits, Passed
    <2>1. CASE q = r
        BY <1>7, <1>10, <1>18, <1>21, <2>1
    <2>2. CASE q # r
        BY <1>3, <1>22, <2>2 DEF BufferFits, Passed
    <2> QED BY <2>1, <2>2
<1>24. LinesFollow'
    <2> SUFFICES ASSUME NEW q \in Identities, bridge' # "ended"
                 PROVE  Recorded(lines'[q], sent[q], read'[q], Entry(q)')
        BY <1>2 DEF LinesFollow
    <2>1. Entry(q)' = Entry(q)
        BY <1>2 DEF Entry
    <2>2. CASE q = r
        <3>1. lines'[r] = all
            BY <1>3, <1>4 DEF BridgeTypes, all
        <3>2. ASSUME NEW i \in 1..(L + N) PROVE all[i] = beast_frame_to_record(s[h[i]], Entry(r))
            <4>1. CASE i \in 1..L
                BY <1>8, <1>13, <1>17, <4>1
            <4>2. CASE i \notin 1..L
                <5>1. i - L \in 1..N /\ L + (i - L) = i
                    BY <1>5, <4>2
                <5>2. all[L + (i - L)] = line[i - L]
                      /\ line[i - L] = beast_frame_to_record(s[h[L + (i - L)]], Entry(r))
                    BY <1>15, <1>17, <5>1
                <5> QED BY <5>1, <5>2
            <4> QED BY <4>1, <4>2
        <3>3. Recorded(all, s, n, Entry(r))
            BY <1>13, <1>14, <1>17, <3>2 DEF Recorded
        <3> QED BY <1>21, <2>1, <2>2, <3>1, <3>3
    <2>3. CASE q # r
        <3>1. Recorded(lines[q], sent[q], read[q], Entry(q))
            BY <1>2, <1>3 DEF LinesFollow
        <3> QED BY <1>22, <2>1, <2>3, <3>1
    <2> QED BY <2>2, <2>3
<1>25. SendersKnown'
    BY <1>2, <1>3, <1>19 DEF SendersKnown, Configured
<1>26. ClearedToRun'
    BY <1>2, <1>3 DEF ClearedToRun, Cleared, Described, Entry
<1> QED BY <1>20, <1>23, <1>24, <1>25, <1>26 DEF BridgeInv

\* The buffer of each receiver always rests on what it has sent, its lines are the records
\* of the frames that have arrived, and the checks of an MLAT launch stay true
\* (multi_receiver_beast_bridge.py:115-165, beast_tcp_adapter.py:145-201).
THEOREM BridgeInvariance == BridgeSpec => []BridgeInv
<1>1. BridgeInit => BridgeInv
    BY BridgeInitInv
<1>2. BridgeInv /\ [BridgeNext]_bridgeVars => BridgeInv'
    <2> SUFFICES ASSUME BridgeInv, [BridgeNext]_bridgeVars PROVE BridgeInv'
        OBVIOUS
    <2>1. CASE Launch
        BY <2>1, LaunchInv
    <2>2. CASE TimePasses
        BY <2>2, TimePassesInv
    <2>3. ASSUME NEW r \in Identities, Connect(r) PROVE BridgeInv'
        BY <2>3, ConnectInv
    <2>4. ASSUME NEW r \in Identities, Read(r) PROVE BridgeInv'
        BY <2>4, ReadInv
    <2>5. ASSUME NEW r \in Identities, Disconnect(r) PROVE BridgeInv'
        BY <2>5, DisconnectInv
    <2>6. ASSUME NEW r \in Identities, NEW type \in DOMAIN Bodies, Transmit(r, type)
          PROVE  BridgeInv'
        BY <2>6, TransmitInv
    <2>7. CASE UNCHANGED bridgeVars
        <3>1. UNCHANGED <<now, config, ready, bridge, link, sent, wire, read, buffer, lines, calls>>
            BY <2>7 DEF bridgeVars
        <3>2. BridgeTypes'
            BY <3>1 DEF BridgeInv, BridgeTypes
        <3>3. BufferFits' /\ LinesFollow'
            BY <3>1 DEF BridgeInv, BufferFits, Passed, LinesFollow, Entry
        <3>4. SendersKnown'
            BY <3>1 DEF BridgeInv, SendersKnown, Configured
        <3>5. ClearedToRun'
            BY <3>1 DEF BridgeInv, ClearedToRun, Cleared, Described, Entry
        <3> QED BY <3>2, <3>3, <3>4, <3>5 DEF BridgeInv
    <2> QED BY <2>1, <2>2, <2>3, <2>4, <2>5, <2>6, <2>7 DEF BridgeNext
<1> QED BY <1>1, <1>2, PTL DEF BridgeSpec

\* The frames that the lines of a connection are the records of.
LEMMA TellsFacts ==
    ASSUME BridgeInv, NEW r \in Identities, bridge = "on"
    PROVE  \E f \in [DOMAIN lines[r] -> Arrived(r)] :
             /\ Range(f) = Arrived(r) /\ Tells(f, r)
             /\ \A i \in DOMAIN lines[r] :
                  lines[r][i] = beast_frame_to_record(sent[r][f[i]], Entry(r))
<1> USE DEF BridgeInv
<1>1. /\ lines[r] \in Seq(Line) /\ DOMAIN lines[r] = 1..Len(lines[r])
      /\ sent[r] \in Seq(Frame) /\ DOMAIN sent[r] = 1..Len(sent[r]) /\ config \in Configs
    BY DEF BridgeTypes
<1>2. Arrived(r) = Heard(sent[r], read[r])
    BY DEF Arrived, Heard
<1>3. PICK f \in [1..Len(lines[r]) -> Heard(sent[r], read[r])] :
        /\ Matches(f, Len(lines[r]), sent[r], read[r])
        /\ \A i \in 1..Len(lines[r]) :
             lines[r][i] = beast_frame_to_record(sent[r][f[i]], Entry(r))
    BY DEF LinesFollow, Recorded
<1>4. ASSUME NEW i \in 1..Len(lines[r])
      PROVE  /\ <<lines[r][i].ticks>> \o lines[r][i].message = sent[r][f[i]].body
             /\ lines[r][i].receiver_id = r
    <2>1. f[i] \in 1..Len(sent[r])
        BY <1>1 DEF Heard
    <2>2. sent[r] # <<>>
        BY <2>1
    <2>3. r \in Configured
        BY <2>2 DEF SendersKnown
    <2>4. /\ Entry(r).receiver_identity = r
          /\ Entry(r).clock.anchor_tick \in Int /\ Entry(r).clock.anchor_time \in Int
        BY <1>1, <2>3, EntryFacts
    <2>5. sent[r][f[i]].body \in Seq(Nat) /\ sent[r][f[i]].body # <<>>
        <3>1. Stream(wire[r], sent[r])
            BY DEF BufferFits
        <3>2. \A j \in 1..Len(sent[r]) : sent[r][j].body \in Seq(Nat) /\ sent[r][j].body # <<>>
            BY <3>1, FrameFacts DEF Fits
        <3> QED BY <2>1, <3>2
    <2>6. lines[r][i] = beast_frame_to_record(sent[r][f[i]], Entry(r))
        BY <1>3
    <2> QED BY <2>4, <2>5, <2>6, RecordFacts
<1>5. Range(f) = Arrived(r) /\ \A i, j \in 1..Len(lines[r]) : i < j => f[i] < f[j]
    BY <1>2, <1>3 DEF Matches
<1>6. Tells(f, r)
    BY <1>1, <1>4, <1>5 DEF Tells
<1> QED BY <1>1, <1>2, <1>3, <1>5, <1>6

\* However the bytes are cut into chunks, the lines of a connection are exactly the wanted
\* frames that have arrived on it, in order, under the receiver's own identity: the parser
\* loses none at a cut and takes no part of one for another (beast_tcp_adapter.py:145-201,
\* multi_receiver_beast_bridge.py:132-153).
THEOREM LinesAreTheFramesSent == BridgeSpec => []LinesAreFrames
<1>1. BridgeInv => LinesAreFrames
    BY TellsFacts DEF LinesAreFrames
<1> QED BY <1>1, BridgeInvariance, PTL

\* Once a file has passed the checks of an MLAT launch nothing a receiver sends ends the
\* bridge (receiver_config.py:63-156, beast_tcp_adapter.py:78-127).
THEOREM MlatLaunchNeverEnds == BridgeSpec => []ReadyNeverEnds
<1>1. BridgeInit => ReadyNeverEnds
    BY DEF BridgeInit, ReadyNeverEnds
<1>2. BridgeInv /\ ReadyNeverEnds /\ [BridgeNext]_bridgeVars => ReadyNeverEnds'
    <2> SUFFICES ASSUME BridgeInv, ReadyNeverEnds, [BridgeNext]_bridgeVars, ready', bridge' = "ended"
                 PROVE  FALSE
        BY DEF ReadyNeverEnds
    <2> USE DEF ReadyNeverEnds
    <2>1. ASSUME NEW r \in Identities, Read(r) PROVE FALSE
        <3>1. bridge = "on" /\ link[r] /\ ready /\ bridge' # bridge
            BY <2>1 DEF Read
        <3>2. Raises(Entry(r).clock)
            BY <2>1, <3>1 DEF Read
        <3>3. r \in Configured /\ config \in Configs
            BY <3>1 DEF BridgeInv, SendersKnown, BridgeTypes
        <3>4. Cleared(Entry(r).clock)
            BY <3>1, <3>3, EntryFacts DEF BridgeInv, ClearedToRun
        <3> QED BY <3>2, <3>4 DEF Raises, Cleared
    <2>2. CASE Launch
        BY <2>2 DEF Launch
    <2>3. CASE TimePasses
        BY <2>3 DEF TimePasses
    <2>4. ASSUME NEW r \in Identities,
                 Connect(r) \/ Disconnect(r) \/ \E type \in DOMAIN Bodies : Transmit(r, type)
          PROVE  FALSE
        BY <2>4 DEF Connect, Disconnect, Transmit
    <2>5. CASE UNCHANGED bridgeVars
        BY <2>5 DEF bridgeVars
    <2> QED BY <2>1, <2>2, <2>3, <2>4, <2>5 DEF BridgeNext
<1> QED BY <1>1, <1>2, BridgeInvariance, PTL DEF BridgeSpec

\* A whole number of turns that is less than one is none.
LEMMA NoTurn ==
    ASSUME NEW m \in Nat \ {0}, NEW q \in Int, NEW x \in Int, x = m * q, x < m, -m < x
    PROVE  x = 0
<1>1. m \in Int /\ m >= 1
    OBVIOUS
<1>2. CASE q >= 1
    <2>1. m * q >= m
        BY <1>1, <1>2
    <2> QED BY <1>1, <2>1
<1>3. CASE q =< -1
    <2>1. m * q =< -m
        BY <1>1, <1>3
    <2> QED BY <1>1, <2>1
<1>4. CASE q = 0
    BY <1>1, <1>4
<1> QED BY <1>2, <1>3, <1>4

\* Where the clock is true and its window within reach, a tick tells the time at which the
\* receiver counted it, and no time of the window if that is not one.
LEMMA TimeIsTold ==
    ASSUME NEW power \in Nat, NEW at \in Nat, NEW anchor \in Int, NEW from \in Int, NEW until \in Int,
           anchor - from =< TickModulus - TickModulus \div 2,
           until - anchor < TickModulus \div 2,
           at >= from, at < from + TickModulus
    PROVE  LET t == anchor + DeltaTicks((power + at) % TickModulus, (power + anchor) % TickModulus)
           IN /\ t \in Int
              /\ at \in from..until => t = at
              /\ at \notin from..until => t \notin from..until
<1> DEFINE M == TickModulus
           p == power + at
           c == power + anchor
           tick == p % M
           mark == c % M
           d == DeltaTicks(tick, mark)
           t == anchor + d
           x == t - at
<1>1. M \in Nat \ {0} /\ M \in Nat /\ M >= 1
    BY BridgeAssumption
<1>2. p \in Int /\ c \in Int
    OBVIOUS
<1> HIDE DEF M
<1>3. PICK a \in Int : c = M * a + mark
    <2> HIDE DEF c
    <2> QED BY <1>1, <1>2, RemainderFacts
<1>4. PICK b \in Int : p = M * b + tick
    <2> HIDE DEF p
    <2> QED BY <1>1, <1>2, RemainderFacts
<1>5. tick \in Int /\ mark \in Int
    <2> HIDE DEF p, c
    <2>1. tick \in 0..(M - 1) /\ mark \in 0..(M - 1)
        BY <1>1, <1>2, RemainderFacts
    <2> HIDE DEF tick, mark
    <2> QED BY <1>1, <2>1
<1> HIDE DEF tick, mark
<1>6. /\ d \in Int /\ M \div 2 - M =< d /\ d < M \div 2
      /\ \E q \in Int : tick - mark = M * q + d
    BY <1>5, DeltaFacts DEF M
<1> HIDE DEF d
<1>7. PICK q \in Int : tick - mark = M * q + d
    BY <1>6
<1> DEFINE k == a - b - q
<1>8. x \in Int /\ k \in Int /\ t \in Int
    BY <1>6
<1>9. x = M * k
    <2>1. M * k = M * a - M * b - M * q
        BY <1>1
    <2>2. M * a \in Int /\ M * b \in Int /\ M * q \in Int
        BY <1>1
    <2> DEFINE A == M * a  B == M * b  Q == M * q
    <2>3. power + anchor = A + mark /\ power + at = B + tick /\ tick - mark = Q + d
        BY <1>3, <1>4, <1>7
    <2>4. A \in Int /\ B \in Int /\ Q \in Int
        BY <2>2
    <2> HIDE DEF A, B, Q
    <2>5. x = A - B - Q
        BY <1>5, <1>6, <2>3, <2>4
    <2> QED BY <2>1, <2>5 DEF A, B, Q
<1> HIDE DEF k
<1>10. x < M /\ -M < x => x = 0
    <2> HIDE DEF x
    <2> QED BY <1>1, <1>8, <1>9, NoTurn
<1>11. x = 0 => t = at
    BY <1>8
<1>12. M \div 2 \in Nat /\ M \div 2 =< M
    BY <1>1
<1> DEFINE H == M \div 2
<1>13. /\ H \in Nat /\ H =< M /\ H - M =< d /\ d < H
       /\ anchor - from =< M - H /\ until - anchor < H /\ at < from + M
    BY <1>6, <1>12 DEF M
<1> HIDE DEF H
<1>14. ASSUME at \in from..until PROVE t = at
    <2>1. from =< at /\ at =< until
        BY <1>14
    <2>2. x < M /\ -M < x
        BY <1>1, <1>6, <1>13, <2>1
    <2> QED BY <1>10, <1>11, <2>2
<1>15. ASSUME at \notin from..until, t \in from..until PROVE FALSE
    <2>1. from =< t /\ t =< until /\ until < at
        BY <1>8, <1>15
    <2>2. x < M /\ -M < x
        BY <1>1, <1>6, <1>13, <2>1
    <2>3. t = at
        BY <1>10, <1>11, <2>2
    <2> QED BY <1>15, <2>3
<1> QED BY <1>8, <1>14, <1>15 DEF t, d, tick, mark, M

\* In a launch for MLAT a line of a truly calibrated receiver carries the time at which it
\* heard the message, or none where that lies outside the validity window, also after the
\* counter has wrapped (beast_tcp_adapter.py:89-142).
THEOREM TimestampsAreThoseHeard == BridgeSpec => []TimestampsAreTrue
<1>1. BridgeInv => TimestampsAreTrue
    <2> SUFFICES ASSUME BridgeInv, NEW r \in Configured, bridge = "on", ready,
                        Calibrated(r), WithinReach(Entry(r).clock),
                        now < Entry(r).clock.valid_from + TickModulus
                 PROVE  \E f \in [DOMAIN lines[r] -> Arrived(r)] :
                          /\ Tells(f, r)
                          /\ \A i \in DOMAIN lines[r] :
                               lines[r][i].timestamp_ns =
                                 IF sent[r][f[i]].at \in Entry(r).clock.valid_from..Entry(r).clock.valid_until
                                 THEN sent[r][f[i]].at ELSE None
        BY DEF TimestampsAreTrue
    <2> DEFINE c == Entry(r).clock
    <2>1. config \in Configs /\ r \in Identities /\ now \in Nat
          /\ sent[r] \in Seq(Frame)
        <3>1. config \in Configs
            BY DEF BridgeInv, BridgeTypes
        <3>2. r \in Identities
            BY <3>1, EntryFacts
        <3> QED BY <3>1, <3>2 DEF BridgeInv, BridgeTypes
    <2>2. /\ c.anchor_tick \in Int /\ c.anchor_time \in Int
          /\ c.valid_from \in Int \cup {None} /\ c.valid_until \in Int \cup {None}
          /\ Entry(r) \in Range(config)
        BY <2>1, EntryFacts
    <2>3. Cleared(c)
        BY <2>2 DEF BridgeInv, ClearedToRun
    <2>4. c.valid_from \in Int /\ c.valid_until \in Int /\ c.enabled = TRUE
        BY <2>2, <2>3 DEF Cleared
    <2>5. PowerOn[r] \in Nat
        BY <2>1, BridgeAssumption
    <2>6. PICK f \in [DOMAIN lines[r] -> Arrived(r)] :
            /\ Tells(f, r)
            /\ \A i \in DOMAIN lines[r] :
                 lines[r][i] = beast_frame_to_record(sent[r][f[i]], Entry(r))
        BY <2>1, TellsFacts
    <2>7. \A k \in Arrived(r) : k \in 1..Len(sent[r])
        BY <2>1 DEF Arrived
    <2>8. ASSUME NEW i \in DOMAIN lines[r]
          PROVE  lines[r][i].timestamp_ns =
                   IF sent[r][f[i]].at \in c.valid_from..c.valid_until THEN sent[r][f[i]].at ELSE None
        <3> DEFINE k == f[i]
                   at == sent[r][k].at
                   tick == (PowerOn[r] + at) % TickModulus
                   t == c.anchor_time + DeltaTicks(tick, c.anchor_tick)
        <3>1. k \in 1..Len(sent[r])
            BY <2>6, <2>7
        <3>2. sent[r][k] \in Frame
            BY <2>1, <3>1
        <3>3. at \in Nat
            BY <3>2 DEF Frame
        <3>4. at =< now /\ sent[r][k].body[1] = tick
            BY <2>1, <3>1 DEF BridgeInv, SendersKnown
        <3>5. at >= c.valid_from
            BY <2>1, <3>1 DEF BridgeInv, ClearedToRun
        <3>6. at < c.valid_from + TickModulus
            <4>1. now < c.valid_from + TickModulus /\ TickModulus \in Nat
                BY BridgeAssumption
            <4> HIDE DEF at, c
            <4> QED BY <2>1, <2>4, <3>3, <3>4, <4>1 DEF c
        <3>7. c.anchor_tick = (PowerOn[r] + c.anchor_time) % TickModulus
            BY DEF Calibrated
        <3>8. /\ t \in Int
              /\ at \in c.valid_from..c.valid_until => t = at
              /\ at \notin c.valid_from..c.valid_until => t \notin c.valid_from..c.valid_until
            <4>1. /\ c.anchor_time - c.valid_from =< TickModulus - TickModulus \div 2
                  /\ c.valid_until - c.anchor_time < TickModulus \div 2
                BY DEF WithinReach
            <4> DEFINE u == c.anchor_time + DeltaTicks(tick, (PowerOn[r] + c.anchor_time) % TickModulus)
            <4>2. u = t
                BY <3>7
            <4>3. /\ u \in Int
                  /\ at \in c.valid_from..c.valid_until => u = at
                  /\ at \notin c.valid_from..c.valid_until => u \notin c.valid_from..c.valid_until
                <5> DEFINE power == PowerOn[r]  anchor == c.anchor_time
                           from == c.valid_from  until == c.valid_until
                <5>1. /\ power \in Nat /\ at \in Nat /\ anchor \in Int /\ from \in Int /\ until \in Int
                      /\ anchor - from =< TickModulus - TickModulus \div 2
                      /\ until - anchor < TickModulus \div 2
                      /\ at >= from /\ at < from + TickModulus
                    BY <2>2, <2>4, <2>5, <3>3, <3>5, <3>6, <4>1
                <5> HIDE DEF power, anchor, from, until, at
                <5>2. LET v == anchor + DeltaTicks((power + at) % TickModulus,
                                                   (power + anchor) % TickModulus)
                      IN /\ v \in Int
                         /\ at \in from..until => v = at
                         /\ at \notin from..until => v \notin from..until
                    BY <5>1, TimeIsTold
                <5> QED BY <5>2 DEF power, anchor, from, until
            <4> QED BY <4>2, <4>3
        <3>9. sent[r][k].body[1] = Head(sent[r][k].body)
            BY <3>2 DEF Frame
        <3>10. lines[r][i].timestamp_ns = normalize_beast_timestamp(tick, c)
            <4>1. lines[r][i] = beast_frame_to_record(sent[r][k], Entry(r))
                BY <2>6
            <4>2. Head(sent[r][k].body) = tick
                BY <3>4, <3>9
            <4> HIDE DEF k, tick
            <4>3. beast_frame_to_record(sent[r][k], Entry(r)).timestamp_ns =
                    normalize_beast_timestamp(Head(sent[r][k].body), c)
                BY DEF beast_frame_to_record
            <4> QED BY <4>1, <4>2, <4>3
        <3>11. normalize_beast_timestamp(tick, c) =
                 IF t \in c.valid_from..c.valid_until THEN t ELSE None
            BY <2>3, <2>4 DEF normalize_beast_timestamp, InUse, Cleared
        <3> HIDE DEF t, tick, at, c
        <3> QED BY <3>8, <3>10, <3>11 DEF at, c
    <2> QED BY <2>6, <2>8
<1> QED BY <1>1, BridgeInvariance, PTL

-----------------------------------------------------------------------------
(* The pipeline: its invariant *)

Key == [precise : BOOLEAN, time : Times]

TypeInv ==
    /\ receiver_positions \subseteq Receivers
    /\ accepted \subseteq Signal /\ IsFiniteSet(accepted)
    /\ signal_buffer \in [Buffered -> Nat \ {0}]
    /\ processed_groups \subseteq Messages \X Key
    /\ DOMAIN positions \subseteq Messages \X Times

\* The newest signal ever accepted decides what is buffered.
IsNewest(n, S) == n \in S /\ \A s \in S : s.time <= n.time
Recent(S, n) == {s \in S : s.time >= n.time - BufferDuration}
IsRecentPart(B, S) ==
    IF S = {} THEN B = {} ELSE \E n \in S : IsNewest(n, S) /\ B = Recent(S, n)

BufferInv == IsRecentPart(Buffered, accepted)

IInv == TypeInv /\ BufferInv

-----------------------------------------------------------------------------
(* Bags, sets of times and keys *)

LEMMA SignalFields ==
    ASSUME NEW s \in Signal
    PROVE  /\ s.receiver \in Receivers /\ s.message \in Messages
           /\ s.time \in Times /\ s.time \in Nat /\ s.clock \in Clocks
           /\ signal_time_key(s) \in Key
           /\ signal_time_key(s).precise = (s.clock # "wall")
           /\ signal_time_key(s).time = s.time
BY PipelineAssumption DEF Signal, Key, signal_time_key

\* The earliest time of a group of signals.
LEMMA MinOfTimes ==
    ASSUME NEW S \in SUBSET Signal, S # {}
    PROVE  /\ Min(TimesOf(S)) \in TimesOf(S) /\ Min(TimesOf(S)) \in Times
           /\ Min(TimesOf(S)) \in Nat
           /\ \A s \in S : Min(TimesOf(S)) <= s.time
<1>1. TimesOf(S) \in SUBSET Times /\ TimesOf(S) \in SUBSET Nat /\ TimesOf(S) # {}
    BY SignalFields DEF TimesOf
<1>2. PICK m \in TimesOf(S) : \A n \in TimesOf(S) : m <= n
    BY <1>1, Smallest
<1>3. Min(TimesOf(S)) \in TimesOf(S) /\ \A n \in TimesOf(S) : Min(TimesOf(S)) <= n
    BY <1>2 DEF Min
<1>4. \A s \in S : s.time \in TimesOf(S)
    BY DEF TimesOf
<1> QED BY <1>1, <1>3, <1>4

\* The latest one, where there is a newest signal.
LEMMA MaxOfTimes ==
    ASSUME NEW S \in SUBSET Signal, NEW n, IsNewest(n, S)
    PROVE  Max(TimesOf(S)) = n.time
<1>1. n \in S /\ TimesOf(S) \in SUBSET Nat
    BY SignalFields DEF TimesOf, IsNewest
<1>2. n.time \in TimesOf(S) /\ \A t \in TimesOf(S) : n.time >= t
    BY <1>1, SignalFields DEF TimesOf, IsNewest
<1>3. Max(TimesOf(S)) \in TimesOf(S) /\ \A t \in TimesOf(S) : Max(TimesOf(S)) >= t
    BY <1>2 DEF Max
<1> QED BY <1>1, <1>2, <1>3

\* What appending a signal does to the bag.
LEMMA Appended ==
    ASSUME NEW held \in [DOMAIN signal_buffer -> Nat \ {0}], NEW s
    PROVE  LET b == held (+) SetToBag({s})
           IN  /\ DOMAIN b = DOMAIN signal_buffer \cup {s}
               /\ b \in [DOMAIN b -> Nat \ {0}]
<1> DEFINE one == SetToBag({s})  b == held (+) one
<1>1. one = [e \in {s} |-> 1]
    BY DEF SetToBag
<1> HIDE DEF one
<1>2. b = [e \in DOMAIN held \cup DOMAIN one |->
            (IF e \in DOMAIN held THEN held[e] ELSE 0)
            + (IF e \in DOMAIN one THEN one[e] ELSE 0)]
    BY DEF (+), one
<1> HIDE DEF b
<1>3. \A e \in DOMAIN b : b[e] \in Nat \ {0}
    BY <1>1, <1>2
<1>4. DOMAIN b = DOMAIN signal_buffer \cup {s} /\ b = [e \in DOMAIN b |-> b[e]]
    BY <1>1, <1>2
<1>5. b \in [DOMAIN b -> Nat \ {0}]
    BY <1>3, <1>4
<1> QED BY <1>4, <1>5 DEF b, one

\* The last key before k, when H has one, is unique: the order is total.
LEMMA LastBeforeIsOne ==
    ASSUME NEW H \in SUBSET Key, NEW k \in Key,
           NEW i \in LastBefore(H, k), NEW j \in LastBefore(H, k)
    PROVE  i = j
<1>1. /\ i \in Key /\ j \in Key /\ ~SortsBefore(i, j) /\ ~SortsBefore(j, i)
    BY DEF LastBefore
<1>2. i.time \in Nat /\ j.time \in Nat /\ i.precise \in BOOLEAN /\ j.precise \in BOOLEAN
    BY <1>1, PipelineAssumption DEF Key
<1>3. i.precise = j.precise /\ i.time = j.time
    BY <1>1, <1>2 DEF SortsBefore
<1> QED BY <1>1, <1>3 DEF Key

-----------------------------------------------------------------------------
(* The buffer *)

LEMMA BufferedIsAccepted ==
    ASSUME TypeInv, BufferInv
    PROVE  Buffered \subseteq accepted /\ Buffered \subseteq Signal /\ IsFiniteSet(Buffered)
<1>1. Buffered \subseteq accepted
    BY DEF BufferInv, IsRecentPart, Recent
<1>2. IsFiniteSet(Buffered)
    <2>1. Buffered \in SUBSET accepted /\ IsFiniteSet(accepted)
        BY <1>1 DEF TypeInv
    <2> QED BY <2>1, FS_Subset
<1> QED BY <1>1, <1>2 DEF TypeInv

\* Cleaning up after one more signal, however late, keeps the recent part.
LEMMA CleanupKeepsRecent ==
    ASSUME NEW S \in SUBSET Signal, NEW B, IsRecentPart(B, S), NEW s \in Signal
    PROVE  IsRecentPart({y \in B \cup {s} :
                y.time >= Max(TimesOf(B \cup {s})) - BufferDuration}, S \cup {s})
<1> DEFINE kept == {y \in B \cup {s} : y.time >= Max(TimesOf(B \cup {s})) - BufferDuration}
<1>1. B \subseteq S /\ B \cup {s} \in SUBSET Signal /\ BufferDuration \in Nat
    BY PipelineAssumption DEF IsRecentPart, Recent
<1>2. \A y \in S \cup {s} : y.time \in Nat
    BY SignalFields
<1>3. SUFFICES \E n \in S \cup {s} : IsNewest(n, S \cup {s}) /\ kept = Recent(S \cup {s}, n)
    BY DEF IsRecentPart
<1>4. CASE S = {}
    <2>1. B = {} /\ IsNewest(s, S \cup {s}) /\ IsNewest(s, B \cup {s})
        BY <1>2, <1>4 DEF IsRecentPart, IsNewest
    <2>2. Max(TimesOf(B \cup {s})) = s.time
        BY <1>1, <2>1, MaxOfTimes
    <2> QED BY <1>4, <2>1, <2>2 DEF Recent
<1>5. CASE S # {}
    <2>1. PICK n \in S : IsNewest(n, S) /\ B = Recent(S, n)
        BY <1>5 DEF IsRecentPart
    <2>2. n \in B
        BY <1>1, <1>2, <2>1 DEF Recent
    <2>3. PICK top \in B \cup {s} :
            IsNewest(top, S \cup {s}) /\ IsNewest(top, B \cup {s}) /\ n.time <= top.time
        <3>1. CASE s.time > n.time
            <4>1. IsNewest(s, S \cup {s}) /\ IsNewest(s, B \cup {s})
                BY <1>1, <1>2, <2>1, <3>1 DEF IsNewest
            <4> QED BY <1>2, <3>1, <4>1
        <3>2. CASE ~(s.time > n.time)
            <4>1. IsNewest(n, S \cup {s}) /\ IsNewest(n, B \cup {s})
                BY <1>1, <1>2, <2>1, <2>2, <3>2 DEF IsNewest
            <4> QED BY <1>2, <2>2, <4>1
        <3> QED BY <3>1, <3>2
    <2>4. Max(TimesOf(B \cup {s})) = top.time
        BY <1>1, <2>3, MaxOfTimes
    <2>5. kept = Recent(S \cup {s}, top)
        <3>1. top.time \in Nat /\ n.time \in Nat
            BY <1>1, <1>2, <2>3
        <3>2. ASSUME NEW y \in S, y.time >= top.time - BufferDuration PROVE y \in B
            BY <1>1, <1>2, <2>1, <2>3, <3>1, <3>2 DEF Recent
        <3> QED BY <1>1, <2>4, <3>2 DEF Recent
    <2> QED BY <1>1, <2>3, <2>5
<1> QED BY <1>4, <1>5

-----------------------------------------------------------------------------
(* What correlate hands out *)

\* Any keys have one that sorts first.
LEMMA FirstKey ==
    ASSUME NEW K \in SUBSET Key, K # {}
    PROVE  \E k \in K : \A j \in K : ~SortsBefore(j, k)
<1> DEFINE P == {k \in K : k.precise}
           M == IF P # {} THEN P ELSE K
           T == {k.time : k \in M}
<1>1. M # {} /\ M \subseteq K /\ \A k \in K : k.time \in Nat /\ k.precise \in BOOLEAN
    BY PipelineAssumption DEF Key
<1>2. \A k \in M : k.precise \/ P = {}
    OBVIOUS
<1>3. \A k \in K : k \in M \/ (P # {} /\ ~k.precise)
    OBVIOUS
<1>4. P = {} => \A k \in K : ~k.precise
    OBVIOUS
<1> HIDE DEF M, P
<1>5. T \in SUBSET Nat /\ T # {}
    BY <1>1
<1>6. PICK t \in T : \A u \in T : t <= u
    <2> HIDE DEF T
    <2> QED BY <1>5, Smallest
<1>7. PICK k \in M : k.time = t
    BY <1>6
<1>8. ASSUME NEW j \in K PROVE ~SortsBefore(j, k)
    <2>1. CASE j \in M
        <3>1. k.time <= j.time
            BY <1>6, <1>7, <2>1
        <3>2. k.precise \/ ~j.precise
            BY <1>2, <1>4, <1>7
        <3> QED BY <1>1, <1>7, <1>8, <3>1, <3>2 DEF SortsBefore
    <2>2. CASE P # {} /\ ~j.precise
        <3>1. k.precise
            BY <1>2, <1>7, <2>2
        <3> QED BY <1>1, <1>7, <1>8, <2>2, <3>1 DEF SortsBefore
    <2> QED BY <1>3, <2>1, <2>2
<1> QED BY <1>1, <1>7, <1>8

\* Finitely many keys have one that sorts last.
LEMMA LastKey ==
    ASSUME NEW K \in SUBSET Key, IsFiniteSet(K), K # {}
    PROVE  \E k \in K : \A j \in K : ~SortsBefore(k, j)
<1> DEFINE HasLast(S) == \E k \in S : \A j \in S : ~SortsBefore(k, j)
           Bad == {n \in Nat : \E S \in SUBSET Key :
                    IsFiniteSet(S) /\ S # {} /\ Cardinality(S) = n /\ ~HasLast(S)}
<1>1. SUFFICES ASSUME Bad # {} PROVE FALSE
    BY FS_CardinalityType
<1>2. PICK n \in Bad : \A m \in Bad : n <= m
    <2>1. Bad \in SUBSET Nat
        OBVIOUS
    <2> HIDE DEF Bad
    <2> QED BY <1>1, <2>1, Smallest
<1>3. PICK S \in SUBSET Key : IsFiniteSet(S) /\ S # {} /\ Cardinality(S) = n /\ ~HasLast(S)
    BY <1>2
<1>4. PICK x \in S : TRUE
    BY <1>3
<1>5. /\ IsFiniteSet(S \ {x}) /\ Cardinality(S \ {x}) = n - 1
      /\ n \in Nat /\ Cardinality(S \ {x}) \in Nat
    <2>1. IsFiniteSet(S \ {x}) /\ Cardinality(S \ {x}) = n - 1
        BY <1>3, FS_RemoveElement
    <2> QED BY <1>3, <2>1, FS_CardinalityType
<1>6. \A j \in S : j.time \in Nat /\ j.precise \in BOOLEAN
    BY PipelineAssumption DEF Key
<1>7. ~SortsBefore(x, x)
    BY <1>4, <1>6 DEF SortsBefore
<1>8. S \ {x} # {}
    BY <1>3, <1>4, <1>7
<1>9. HasLast(S \ {x})
    <2>1. n - 1 \notin Bad
        BY <1>2, <1>5
    <2> HIDE DEF HasLast
    <2> QED BY <1>5, <1>8, <2>1
<1>10. PICK k \in S \ {x} : \A j \in S \ {x} : ~SortsBefore(k, j)
    BY <1>9
<1>11. CASE ~SortsBefore(k, x)
    BY <1>3, <1>10, <1>11
<1>12. CASE SortsBefore(k, x)
    <2>1. ASSUME NEW j \in S PROVE ~SortsBefore(x, j)
        <3>1. CASE j = x
            BY <1>7, <3>1
        <3>2. CASE j # x
            BY <1>4, <1>6, <1>10, <1>12, <3>2 DEF SortsBefore
        <3> QED BY <3>1, <3>2
    <2> QED BY <1>3, <1>4, <2>1
<1> QED BY <1>11, <1>12

\* Finitely many keys have first keys: the last one either is one or is not.
LEMMA FirstsExist ==
    ASSUME NEW K \in SUBSET Key, IsFiniteSet(K)
    PROVE  \E H \in SUBSET K : Firsts(H, K)
<1> DEFINE HasFirsts(S) == \E H \in SUBSET S : Firsts(H, S)
           Bad == {n \in Nat : \E S \in SUBSET Key :
                    IsFiniteSet(S) /\ Cardinality(S) = n /\ ~HasFirsts(S)}
<1>1. SUFFICES ASSUME Bad # {} PROVE FALSE
    BY FS_CardinalityType
<1>2. PICK n \in Bad : \A m \in Bad : n <= m
    <2>1. Bad \in SUBSET Nat
        OBVIOUS
    <2> HIDE DEF Bad
    <2> QED BY <1>1, <2>1, Smallest
<1>3. PICK S \in SUBSET Key : IsFiniteSet(S) /\ Cardinality(S) = n /\ ~HasFirsts(S)
    BY <1>2
<1>4. S # {}
    BY <1>3 DEF Firsts
<1>5. PICK k \in S : \A j \in S : ~SortsBefore(k, j)
    BY <1>3, <1>4, LastKey
<1>6. /\ IsFiniteSet(S \ {k}) /\ Cardinality(S \ {k}) = n - 1
      /\ n \in Nat /\ Cardinality(S \ {k}) \in Nat
    <2>1. IsFiniteSet(S \ {k}) /\ Cardinality(S \ {k}) = n - 1
        BY <1>3, FS_RemoveElement
    <2> QED BY <1>3, <2>1, FS_CardinalityType
<1>7. HasFirsts(S \ {k})
    <2>1. n - 1 \notin Bad
        BY <1>2, <1>6
    <2> HIDE DEF HasFirsts
    <2> QED BY <1>6, <2>1
<1>8. PICK G \in SUBSET (S \ {k}) : Firsts(G, S \ {k})
    BY <1>7
<1> DEFINE starts == \A j \in LastBefore(G, k) : ~IsClose(j, k)
           H == IF starts THEN G \cup {k} ELSE G
<1>9. \A i \in S : LastBefore(H, i) = LastBefore(G, i)
    <2>1. \A i \in S : ~SortsBefore(k, i)
        BY <1>5
    <2> QED BY <2>1 DEF LastBefore
<1>10. k \in H <=> starts
    BY <1>8
<1>11. \A i \in S \ {k} : i \in H <=> i \in G
    OBVIOUS
<1>12. H \in SUBSET S
    BY <1>5, <1>8
<1> HIDE DEF H
<1>13. Firsts(H, S)
    <2>1. ASSUME NEW i \in S
          PROVE  i \in H <=> \A j \in LastBefore(H, i) : ~IsClose(j, i)
        <3>1. CASE i = k
            BY <1>9, <1>10, <3>1
        <3>2. CASE i # k
            BY <1>8, <1>9, <1>11, <3>2 DEF Firsts
        <3> QED BY <3>1, <3>2
    <2> QED BY <2>1 DEF Firsts
<1> QED BY <1>3, <1>12, <1>13

\* The window rule leaves one choice of first keys, for any keys and window: the
\* clusters are a function of the signals (correlator.py:189-217).
THEOREM FirstsAreDetermined ==
    ASSUME NEW keys \in SUBSET Key, NEW G \in SUBSET keys, NEW H \in SUBSET keys,
           Firsts(G, keys), Firsts(H, keys)
    PROVE  G = H
<1> DEFINE D == {k \in keys : ~(k \in G <=> k \in H)}
<1>1. SUFFICES ASSUME D # {} PROVE FALSE
    OBVIOUS
<1>2. PICK k \in D : \A j \in D : ~SortsBefore(j, k)
    <2>1. D \in SUBSET Key
        OBVIOUS
    <2> HIDE DEF D
    <2> QED BY <1>1, <2>1, FirstKey
<1>3. \A j \in keys : SortsBefore(j, k) => (j \in G <=> j \in H)
    BY <1>2
<1>4. LastBefore(G, k) = LastBefore(H, k)
    BY <1>3 DEF LastBefore
<1> QED BY <1>2, <1>4 DEF Firsts

\* A signal is in no two clusters.
LEMMA ClustersAreDisjoint ==
    ASSUME NEW signals \in SUBSET Signal,
           NEW c \in _cluster_by_time(signals), NEW d \in _cluster_by_time(signals),
           NEW s, s \in c.signals, s \in d.signals
    PROVE  c = d
<1> DEFINE keys == TimeKeys(signals)
           k == signal_time_key(s)
           At(h, H) == k = h \/ (k \notin H /\ h \in LastBefore(H, k))
<1>1. keys \in SUBSET Key
    BY SignalFields DEF TimeKeys
<1>2. PICK H \in SUBSET keys : Firsts(H, keys) /\ c \in Clusters(signals, H)
    BY DEF _cluster_by_time
<1>3. d \in Clusters(signals, H)
    <2>1. PICK G \in SUBSET keys : Firsts(G, keys) /\ d \in Clusters(signals, G)
        BY DEF _cluster_by_time
    <2>2. G = H
        <3> HIDE DEF keys
        <3> QED BY <1>1, <1>2, <2>1, FirstsAreDetermined
    <2> QED BY <2>1, <2>2
<1>4. PICK h \in H : c = [message |-> (CHOOSE x \in signals : TRUE).message, first |-> h,
            signals |-> {x \in signals :
                LET j == signal_time_key(x)
                IN  j = h \/ (j \notin H /\ h \in LastBefore(H, j))}]
    BY <1>2 DEF Clusters
<1>5. PICK g \in H : d = [message |-> (CHOOSE x \in signals : TRUE).message, first |-> g,
            signals |-> {x \in signals :
                LET j == signal_time_key(x)
                IN  j = g \/ (j \notin H /\ g \in LastBefore(H, j))}]
    BY <1>3 DEF Clusters
<1>6. At(h, H) /\ At(g, H) /\ s \in signals
    BY <1>4, <1>5
<1>7. H \in SUBSET Key /\ k \in Key
    BY <1>1, <1>6, SignalFields
<1>8. h = g
    <2>1. CASE k \in H
        BY <1>6, <2>1
    <2>2. CASE k \notin H
        <3>1. h \in LastBefore(H, k) /\ g \in LastBefore(H, k)
            BY <1>6, <2>2
        <3> HIDE DEF k
        <3> QED BY <1>7, <3>1, LastBeforeIsOne
    <2> QED BY <2>1, <2>2
<1> QED BY <1>4, <1>5, <1>8

\* The clusters of finitely many signals share them out: each signal is in exactly
\* one, so none is lost and none counts twice (correlator.py:189-217).
THEOREM ClustersPartition ==
    ASSUME NEW signals \in SUBSET Signal, IsFiniteSet(signals), NEW s \in signals
    PROVE  \E c \in _cluster_by_time(signals) :
            /\ s \in c.signals
            /\ \A d \in _cluster_by_time(signals) : s \in d.signals => d = c
<1> DEFINE k == signal_time_key(s)
<1>1. TimeKeys(signals) \in SUBSET Key /\ k \in TimeKeys(signals)
    BY SignalFields DEF TimeKeys
<1>2. IsFiniteSet(TimeKeys(signals))
    <2> DEFINE f == [x \in signals |-> signal_time_key(x)]
    <2>1. f \in Surjection(signals, TimeKeys(signals))
        <3>1. /\ f \in [signals -> TimeKeys(signals)]
              /\ \A y \in TimeKeys(signals) : \E x \in signals : f[x] = y
            BY DEF TimeKeys
        <3> HIDE DEF f
        <3> QED BY <3>1, Fun_IsSurj
    <2> HIDE DEF f
    <2> QED BY <2>1, FS_Surjection
<1>3. PICK H \in SUBSET TimeKeys(signals) : Firsts(H, TimeKeys(signals))
    BY <1>1, <1>2, FirstsExist
<1>4. PICK h \in H : k = h \/ (k \notin H /\ h \in LastBefore(H, k))
    <2>1. CASE k \in H
        BY <2>1
    <2>2. CASE k \notin H
        <3>1. PICK j \in LastBefore(H, k) : IsClose(j, k)
            BY <1>1, <1>3, <2>2 DEF Firsts
        <3>2. j \in H
            BY <3>1 DEF LastBefore
        <3> QED BY <2>2, <3>1, <3>2
    <2> QED BY <2>1, <2>2
<1> DEFINE c == [message |-> (CHOOSE x \in signals : TRUE).message, first |-> h,
                 signals |-> {x \in signals :
                    LET j == signal_time_key(x)
                    IN  j = h \/ (j \notin H /\ h \in LastBefore(H, j))}]
<1>5. c \in _cluster_by_time(signals)
    <2>1. c \in Clusters(signals, H)
        BY DEF Clusters
    <2> HIDE DEF c
    <2> QED BY <1>3, <2>1 DEF _cluster_by_time
<1>6. s \in c.signals
    BY <1>4
<1> HIDE DEF c
<1> QED BY <1>5, <1>6, ClustersAreDisjoint

\* The signals of a cluster have its first key, or come after it and close to it.
Belongs(s, first) ==
    LET k == signal_time_key(s)
    IN  k = first \/ (SortsBefore(first, k) /\ IsClose(first, k))

LEMMA ClusterFacts ==
    ASSUME NEW signals \in SUBSET Signal, NEW c \in _cluster_by_time(signals)
    PROVE  /\ c.first \in Key /\ c.signals \subseteq signals /\ signals # {}
           /\ c.message = (CHOOSE s \in signals : TRUE).message
           /\ \A s \in c.signals : Belongs(s, c.first)
<1> DEFINE keys == TimeKeys(signals)
<1>1. keys \in SUBSET Key /\ \A s \in signals : signal_time_key(s) \in keys
    BY SignalFields DEF TimeKeys
<1>2. PICK H \in SUBSET keys : Firsts(H, keys) /\ c \in Clusters(signals, H)
    BY DEF _cluster_by_time
<1>3. PICK h \in H : c = [message |-> (CHOOSE s \in signals : TRUE).message, first |-> h,
            signals |-> {s \in signals :
                LET k == signal_time_key(s)
                IN  k = h \/ (k \notin H /\ h \in LastBefore(H, k))}]
    BY <1>2 DEF Clusters
<1>4. /\ c.first = h /\ c.message = (CHOOSE s \in signals : TRUE).message
      /\ c.signals = {s \in signals :
                LET k == signal_time_key(s)
                IN  k = h \/ (k \notin H /\ h \in LastBefore(H, k))}
    BY <1>3
<1>5. signals # {}
    BY <1>2, <1>3 DEF TimeKeys
<1>6. ASSUME NEW s \in c.signals
      PROVE  Belongs(s, h)
    <2> DEFINE k == signal_time_key(s)
    <2>1. s \in signals /\ k \in keys
        BY <1>1, <1>4
    <2>2. CASE k = h
        BY <2>2 DEF Belongs
    <2>3. CASE k \notin H /\ h \in LastBefore(H, k)
        <3>1. PICK j \in LastBefore(H, k) : IsClose(j, k)
            BY <1>2, <2>1, <2>3 DEF Firsts
        <3>2. j = h
            <4>1. H \in SUBSET Key /\ k \in Key
                BY <1>1, <1>2, <2>1
            <4> HIDE DEF k
            <4> QED BY <4>1, <2>3, <3>1, LastBeforeIsOne
        <3> QED BY <2>3, <3>1, <3>2 DEF LastBefore, Belongs
    <2> QED BY <1>4, <2>2, <2>3
<1> HIDE DEF keys
<1> QED BY <1>1, <1>2, <1>3, <1>4, <1>5, <1>6

LEMMA CorrelateFacts ==
    ASSUME TypeInv, BufferInv, NEW c \in correlate
    PROVE  /\ c.message \in Messages /\ c.first \in Key /\ group_id(c) \in Messages \X Key
           /\ c.signals \subseteq Buffered
           /\ \A s \in c.signals : s.message = c.message /\ Belongs(s, c.first)
           /\ _is_valid_cluster(c)
<1> DEFINE of(m) == {s \in Buffered : s.message = m}
<1>1. PICK m \in Messages : c \in _cluster_by_time(of(m)) /\ _is_valid_cluster(c)
    BY DEF correlate
<1>2. of(m) \in SUBSET Signal
    BY BufferedIsAccepted
<1>3. /\ c.first \in Key /\ c.signals \subseteq of(m) /\ of(m) # {}
      /\ c.message = (CHOOSE s \in of(m) : TRUE).message
      /\ \A s \in c.signals : Belongs(s, c.first)
    <2> HIDE DEF of
    <2> QED BY <1>1, <1>2, ClusterFacts
<1>4. c.message = m
    BY <1>3
<1> QED BY <1>1, <1>3, <1>4 DEF group_id

\* What a solvable group puts into the table.
LEMMA SolvableFacts ==
    ASSUME TypeInv, BufferInv, NEW c \in correlate, Solvable(c)
    PROVE  LET D == DOMAIN build_observations_from_group(c)
           IN  /\ PositionKey(c) \in Messages \X Times
               /\ ReceiversOf(D) \subseteq receiver_positions
               /\ Cardinality(ReceiversOf(D)) >= MinReceivers
<1> DEFINE D == DOMAIN build_observations_from_group(c)
<1>1. D = {x \in c.signals : x.receiver \in receiver_positions}
    BY DEF build_observations_from_group
<1>2. D \in SUBSET Buffered /\ D \in SUBSET Signal /\ IsFiniteSet(D)
    <2>1. D \in SUBSET Buffered /\ Buffered \subseteq Signal /\ IsFiniteSet(Buffered)
        BY <1>1, CorrelateFacts, BufferedIsAccepted
    <2> HIDE DEF D
    <2> QED BY <2>1, FS_Subset
<1>3. /\ Cardinality(D) >= MinReceivers
      /\ \A s, t \in D : s.receiver = t.receiver => s = t
    BY DEF Solvable, DistinctReceivers
<1> HIDE DEF D
<1>4. D # {}
    BY <1>3, FS_EmptySet, PipelineAssumption
<1>5. PositionKey(c) \in Messages \X Times
    BY <1>2, <1>4, MinOfTimes, CorrelateFacts DEF PositionKey, D
<1>6. Cardinality(ReceiversOf(D)) = Cardinality(D)
    <2> DEFINE f == [s \in D |-> s.receiver]
    <2>1. f \in Bijection(D, ReceiversOf(D))
        <3>1. f \in [D -> ReceiversOf(D)] /\ \A r \in ReceiversOf(D) : \E s \in D : f[s] = r
            BY DEF ReceiversOf
        <3>2. \A s, t \in D : f[s] = f[t] => s = t
            BY <1>3
        <3> HIDE DEF f
        <3> QED BY <3>1, <3>2, Fun_IsBij
    <2> HIDE DEF f
    <2>2. ExistsBijection(D, ReceiversOf(D))
        BY <2>1 DEF ExistsBijection
    <2> QED BY <2>2, <1>2, FS_Bijection
<1>7. ReceiversOf(D) \subseteq receiver_positions
    BY <1>1 DEF ReceiversOf
<1> QED BY <1>3, <1>5, <1>6, <1>7 DEF D

-----------------------------------------------------------------------------
(* The invariant *)

LEMMA PipelineInitInv == Init => IInv /\ GroupsAreSimultaneous
<1> SUFFICES ASSUME Init PROVE IInv /\ GroupsAreSimultaneous
    OBVIOUS
<1>1. Buffered = {} /\ signal_buffer \in [{} -> Nat \ {0}]
    BY DEF Init, EmptyBag, SetToBag, Buffered
<1>2. IsFiniteSet(accepted)
    BY FS_EmptySet DEF Init
<1> QED BY <1>1, <1>2 DEF Init, IInv, TypeInv, BufferInv, IsRecentPart, GroupsAreSimultaneous

\* The buffer and the history after one more signal.
LEMMA SignalKeepsInv ==
    ASSUME IInv, NEW s \in Signal, handle_incoming_signal(s)
    PROVE  IInv'
<1> DEFINE b == signal_buffer (+) SetToBag({s})
           kept == {y \in Buffered \cup {s} :
                        y.time >= Max(TimesOf(Buffered \cup {s})) - BufferDuration}
<1>1. signal_buffer \in [DOMAIN signal_buffer -> Nat \ {0}]
    BY DEF IInv, TypeInv, Buffered
<1>2. DOMAIN b = Buffered \cup {s} /\ b \in [DOMAIN b -> Nat \ {0}]
    BY <1>1, Appended DEF Buffered
<1>3. signal_buffer' = [x \in kept |-> b[x]]
    <2>1. signal_buffer' = _cleanup_old_signals(b, s)
        BY DEF handle_incoming_signal
    <2> HIDE DEF b
    <2> QED BY <1>2, <2>1 DEF _cleanup_old_signals
<1>4. Buffered' = kept /\ signal_buffer' \in [kept -> Nat \ {0}]
    <2>1. kept \subseteq Buffered \cup {s}
        OBVIOUS
    <2> HIDE DEF b, kept
    <2> QED BY <1>2, <1>3, <2>1 DEF Buffered
<1>5. accepted' = accepted \cup {s} /\ accepted' \subseteq Signal
    BY DEF handle_incoming_signal, IInv, TypeInv
<1>6. IsFiniteSet(accepted')
    BY <1>5, FS_AddElement DEF IInv, TypeInv
<1>7. BufferInv'
    <2>1. accepted \in SUBSET Signal /\ IsRecentPart(Buffered, accepted)
        BY DEF IInv, TypeInv, BufferInv
    <2>2. IsRecentPart(kept, accepted \cup {s})
        BY <2>1, CleanupKeepsRecent
    <2> HIDE DEF kept
    <2> QED BY <1>4, <1>5, <2>2 DEF BufferInv
<1>8. TypeInv'
    <2> HIDE DEF kept
    <2>1. signal_buffer' \in [Buffered' -> Nat \ {0}]
        BY <1>4
    <2> QED BY <1>5, <1>6, <2>1 DEF TypeInv, handle_incoming_signal, IInv
<1> QED BY <1>7, <1>8 DEF IInv

LEMMA RefreshKeepsInv == IInv /\ RegistryRefreshed => IInv'
<1> SUFFICES ASSUME IInv, RegistryRefreshed PROVE IInv'
    OBVIOUS
<1>1. receiver_positions' \subseteq Receivers
    BY DEF RegistryRefreshed, IInv, TypeInv
<1> QED BY <1>1 DEF RegistryRefreshed, IInv, TypeInv, BufferInv, IsRecentPart, Recent, Buffered

\* What one turn of the loop writes.
LEMMA TurnFacts ==
    ASSUME IInv, _processing_loop
    PROVE  /\ processed_groups' = processed_groups \cup {group_id(c) : c \in correlate}
           /\ emitted' = emitted \cup {c.signals : c \in correlate}
           /\ \A k \in DOMAIN positions' :
                 \/ k \in DOMAIN positions /\ positions'[k] = positions[k]
                 \/ \E c \in correlate :
                       /\ Solvable(c) /\ k = PositionKey(c)
                       /\ positions'[k] = ReceiversOf(DOMAIN build_observations_from_group(c))
<1>1. /\ processed_groups' = processed_groups \cup {group_id(c) : c \in correlate}
      /\ emitted' = emitted \cup {c.signals : c \in correlate}
    BY DEF _processing_loop
<1>2. PICK found \in SUBSET {c \in correlate : Solvable(c)} :
        positions' =
           [k \in DOMAIN positions \cup {PositionKey(c) : c \in found} |->
               IF \E c \in found : PositionKey(c) = k
               THEN ReceiversOf(DOMAIN build_observations_from_group(
                        CHOOSE c \in found : PositionKey(c) = k))
               ELSE positions[k]]
    BY DEF _processing_loop
<1>3. ASSUME NEW k \in DOMAIN positions'
      PROVE  \/ k \in DOMAIN positions /\ positions'[k] = positions[k]
             \/ \E c \in correlate :
                   /\ Solvable(c) /\ k = PositionKey(c)
                   /\ positions'[k] = ReceiversOf(DOMAIN build_observations_from_group(c))
    <2>1. CASE \E c \in found : PositionKey(c) = k
        <3> DEFINE c == CHOOSE c \in found : PositionKey(c) = k
        <3>1. c \in found /\ PositionKey(c) = k
            BY <2>1
        <3>2. positions'[k] = ReceiversOf(DOMAIN build_observations_from_group(c))
            BY <1>2, <1>3, <2>1
        <3> HIDE DEF c
        <3> QED BY <3>1, <3>2
    <2>2. CASE ~\E c \in found : PositionKey(c) = k
        BY <1>2, <1>3, <2>2
    <2> QED BY <2>1, <2>2
<1> QED BY <1>1, <1>3

LEMMA TurnKeepsInv == IInv /\ _processing_loop => IInv'
<1> SUFFICES ASSUME IInv, _processing_loop PROVE IInv'
    OBVIOUS
<1>1. TypeInv /\ BufferInv
    BY DEF IInv
<1>2. /\ UNCHANGED <<receiver_positions, signal_buffer, accepted>>
    BY DEF _processing_loop
<1>3. processed_groups' \subseteq Messages \X Key
    BY <1>1, TurnFacts, CorrelateFacts DEF TypeInv
<1>4. DOMAIN positions' \subseteq Messages \X Times
    <2>1. ASSUME NEW k \in DOMAIN positions' PROVE k \in Messages \X Times
        <3>1. CASE k \in DOMAIN positions
            BY <1>1, <3>1 DEF TypeInv
        <3>2. CASE k \notin DOMAIN positions
            <4>1. PICK c \in correlate : Solvable(c) /\ k = PositionKey(c)
                BY <2>1, <3>2, TurnFacts
            <4> QED BY <1>1, <4>1, SolvableFacts
        <3> QED BY <3>1, <3>2
    <2> QED BY <2>1
<1>5. Buffered' = Buffered
    BY <1>2 DEF Buffered
<1> QED BY <1>1, <1>2, <1>3, <1>4, <1>5 DEF IInv, TypeInv, BufferInv

\* The buffer is the recent part of what was accepted, after any signals, refreshes of the
\* registry and turns of the loop.
THEOREM PipelineInvariant == Spec => []IInv
<1>1. Init => IInv
    BY PipelineInitInv
<1>2. IInv /\ [Next]_vars => IInv'
    <2> SUFFICES ASSUME IInv, [Next]_vars PROVE IInv'
        OBVIOUS
    <2>1. CASE \E s \in Signal : handle_incoming_signal(s)
        BY <2>1, SignalKeepsInv
    <2>2. CASE RegistryRefreshed
        BY <2>2, RefreshKeepsInv
    <2>3. CASE _processing_loop
        BY <2>3, TurnKeepsInv
    <2>4. CASE UNCHANGED vars
        <3>1. Buffered' = Buffered
            BY <2>4 DEF vars, Buffered
        <3> QED BY <2>4, <3>1 DEF vars, IInv, TypeInv, BufferInv
    <2> QED BY <2>1, <2>2, <2>3, <2>4 DEF Next
<1> QED BY <1>1, <1>2, PTL DEF Spec

\* The variables always have their types, and what is buffered was accepted.
THEOREM TypeCorrectness == Spec => []TypeOK
<1>1. IInv => TypeOK
    <2> SUFFICES ASSUME IInv PROVE TypeOK
        OBVIOUS
    <2>1. Buffered \subseteq accepted /\ Buffered \subseteq Signal
        BY BufferedIsAccepted DEF IInv
    <2>2. IsABag(signal_buffer)
        BY DEF IInv, TypeInv, IsABag, Buffered
    <2> QED BY <2>1, <2>2 DEF TypeOK, IInv, TypeInv, Key
<1> QED BY <1>1, PipelineInvariant, PTL

-----------------------------------------------------------------------------
(* The properties *)

\* Whatever the loop hands out is one message, heard by enough receivers, with
\* its precise signals within one window (correlator.py:134-241).
THEOREM GroupsSpanOneWindow == Spec => []GroupsAreSimultaneous
<1>1. Init => GroupsAreSimultaneous
    BY PipelineInitInv
<1>2. IInv /\ GroupsAreSimultaneous /\ [Next]_vars => GroupsAreSimultaneous'
    <2> SUFFICES ASSUME IInv, GroupsAreSimultaneous, [Next]_vars
                 PROVE  GroupsAreSimultaneous'
        OBVIOUS
    <2>1. CASE emitted' = emitted
        BY <2>1 DEF GroupsAreSimultaneous
    <2>2. CASE _processing_loop
        <3>1. ASSUME NEW c \in correlate
              PROVE  /\ Cardinality(ReceiversOf(c.signals)) >= MinReceivers
                     /\ \A s, t \in c.signals :
                          /\ s.message = t.message
                          /\ s.clock # "wall" /\ t.clock # "wall" =>
                                s.time - t.time =< Window
            <4>1. /\ c.first \in Key /\ c.signals \subseteq Signal /\ _is_valid_cluster(c)
                  /\ \A s \in c.signals : s.message = c.message /\ Belongs(s, c.first)
                BY CorrelateFacts, BufferedIsAccepted DEF IInv
            <4>2. c.first.time \in Nat /\ Window \in Nat
                BY <4>1, PipelineAssumption DEF Key
            <4>3. ASSUME NEW s \in c.signals, s.clock # "wall"
                  PROVE  /\ s.time \in Nat
                         /\ c.first.time <= s.time /\ s.time - c.first.time =< Window
                <5>1. s.time \in Nat /\ Belongs(s, c.first)
                    BY <4>1, SignalFields
                <5>2. signal_time_key(s).precise = TRUE /\ signal_time_key(s).time = s.time
                    BY <4>1, <4>3, SignalFields
                <5> QED BY <4>2, <5>1, <5>2 DEF Belongs, SortsBefore, IsClose
            <4>4. ASSUME NEW s \in c.signals, NEW t \in c.signals,
                         s.clock # "wall", t.clock # "wall"
                  PROVE  s.time - t.time =< Window
                BY <4>2, <4>3, <4>4
            <4> QED BY <4>1, <4>4 DEF _is_valid_cluster
        <3>2. emitted' = emitted \cup {c.signals : c \in correlate}
            BY <2>2, TurnFacts
        <3> QED BY <3>1, <3>2 DEF GroupsAreSimultaneous
    <2> QED BY <2>1, <2>2 DEF Next, vars, handle_incoming_signal, RegistryRefreshed
<1> QED BY <1>1, <1>2, PipelineInvariant, PTL DEF Spec

\* A message that enough receivers heard within one window of precise times is
\* handed out whole: the buffer keeps all that is recent (BufferInv), and the
\* earliest signal is the only first key (correlator.py:123-217).
THEOREM CompleteMessageIsFound == Spec => []CompleteIsFound
<1>1. IInv => CompleteIsFound
    <2> SUFFICES
            ASSUME IInv, NEW m \in Messages,
                   NEW newest, newest = Max(TimesOf(accepted)),
                   NEW signals,
                   signals = {s \in accepted : s.message = m /\ s.time >= newest - BufferDuration},
                   NEW at, at = Min(TimesOf(signals)),
                   Cardinality(ReceiversOf(signals)) >= MinReceivers,
                   \A s \in signals : s.clock # "wall" /\ s.time =< at + Window
            PROVE  \/ <<m, [precise |-> TRUE, time |-> at]>> \in processed_groups
                   \/ \E c \in correlate : c.signals = signals
        BY DEF CompleteIsFound
    <2> DEFINE h == [precise |-> TRUE, time |-> at]
    <2>1. signals # {} /\ signals \in SUBSET Signal
        <3>1. ReceiversOf(signals) # {}
            <4> DEFINE R == ReceiversOf(signals)
            <4>1. Cardinality(R) >= MinReceivers /\ Cardinality({}) = 0
                BY FS_EmptySet
            <4> HIDE DEF R
            <4>2. R # {}
                BY <4>1, PipelineAssumption
            <4> QED BY <4>2 DEF R
        <3> QED BY <3>1 DEF ReceiversOf, IInv, TypeInv
    <2>2. signals = {s \in Buffered : s.message = m}
        <3>1. PICK n \in accepted : IsNewest(n, accepted) /\ Buffered = Recent(accepted, n)
            BY <2>1 DEF IInv, BufferInv, IsRecentPart
        <3>2. newest = n.time
            BY <3>1, MaxOfTimes DEF IInv, TypeInv
        <3> QED BY <3>1, <3>2 DEF Recent
    <2>3. /\ at \in TimesOf(signals) /\ at \in Times /\ at \in Nat
          /\ \A s \in signals : at <= s.time
        BY <2>1, MinOfTimes
    <2>4. h \in TimeKeys(signals) /\ h \in Key
        <3>1. PICK s \in signals : s.time = at
            BY <2>3 DEF TimesOf
        <3>2. signal_time_key(s) = h
            BY <3>1 DEF signal_time_key
        <3> QED BY <2>3, <3>2 DEF TimeKeys, Key
    <2>5. \A k \in TimeKeys(signals) :
            k = h \/ (k # h /\ h \in LastBefore({h}, k) /\ IsClose(h, k))
        <3> SUFFICES ASSUME NEW k \in TimeKeys(signals), k # h
                     PROVE  h \in LastBefore({h}, k) /\ IsClose(h, k)
            OBVIOUS
        <3>1. PICK s \in signals : k = signal_time_key(s)
            BY DEF TimeKeys
        <3>2. s.time \in Nat /\ at <= s.time /\ s.time =< at + Window /\ s.clock # "wall"
            BY <2>1, <2>3, SignalFields
        <3>3. k = [precise |-> TRUE, time |-> s.time]
            BY <3>1, <3>2 DEF signal_time_key
        <3>4. at < s.time
            <4>1. s.time # at
                BY <3>3
            <4> QED BY <2>3, <3>2, <4>1
        <3>5. SortsBefore(h, k) /\ ~SortsBefore(h, h)
            BY <2>3, <3>2, <3>3, <3>4 DEF SortsBefore
        <3>6. IsClose(h, k)
            BY <2>3, <3>2, <3>3, PipelineAssumption DEF IsClose
        <3> QED BY <3>5, <3>6 DEF LastBefore
    <2> HIDE DEF h
    <2>6. Firsts({h}, TimeKeys(signals))
        <3>1. LastBefore({h}, h) = {}
            BY <2>3 DEF LastBefore, SortsBefore, h
        <3> QED BY <2>5, <3>1 DEF Firsts
    <2> DEFINE c == [message |-> (CHOOSE s \in signals : TRUE).message, first |-> h,
                     signals |-> {s \in signals :
                        LET k == signal_time_key(s)
                        IN  k = h \/ (k \notin {h} /\ h \in LastBefore({h}, k))}]
    <2>7. c \in _cluster_by_time(signals)
        <3>1. c \in Clusters(signals, {h})
            BY DEF Clusters
        <3> HIDE DEF c
        <3> QED BY <2>4, <2>6, <3>1 DEF _cluster_by_time
    <2>8. c.message = m /\ c.first = h /\ c.signals = signals
        <3>1. (CHOOSE s \in signals : TRUE).message = m
            BY <2>1, <2>2
        <3>2. \A s \in signals : signal_time_key(s) \in TimeKeys(signals)
            BY DEF TimeKeys
        <3>3. {s \in signals :
                LET k == signal_time_key(s)
                IN  k = h \/ (k \notin {h} /\ h \in LastBefore({h}, k))} = signals
            BY <2>5, <3>2
        <3> QED BY <3>1, <3>3
    <2> HIDE DEF c
    <2>9. _is_valid_cluster(c) /\ group_id(c) = <<m, h>>
        BY <2>8 DEF _is_valid_cluster, group_id
    <2>10. CASE group_id(c) \notin processed_groups
        <3>1. c \in correlate
            BY <2>2, <2>7, <2>9, <2>10 DEF correlate
        <3> QED BY <2>8, <3>1
    <2>11. CASE group_id(c) \in processed_groups
        BY <2>9, <2>11 DEF h
    <2> QED BY <2>10, <2>11
<1> QED BY <1>1, PipelineInvariant, PTL

\* A position that appears or changes was computed from enough receivers, all of
\* them part of MLAT at that moment (base.py:127-135, runtime.py:437-453).
THEOREM RemovedReceiversNeverSolve == Spec => VerifiedReceiversSolve
<1>1. IInv /\ [Next]_vars =>
        [\A k \in DOMAIN positions' :
            k \notin DOMAIN positions \/ positions'[k] # positions[k] =>
                /\ positions'[k] \subseteq receiver_positions
                /\ Cardinality(positions'[k]) >= MinReceivers]_vars
    <2> SUFFICES ASSUME IInv, Next, NEW k \in DOMAIN positions',
                        k \notin DOMAIN positions \/ positions'[k] # positions[k]
                 PROVE  /\ positions'[k] \subseteq receiver_positions
                        /\ Cardinality(positions'[k]) >= MinReceivers
        OBVIOUS
    <2>1. _processing_loop
        BY DEF Next, handle_incoming_signal, RegistryRefreshed
    <2>2. PICK c \in correlate :
            /\ Solvable(c) /\ k = PositionKey(c)
            /\ positions'[k] = ReceiversOf(DOMAIN build_observations_from_group(c))
        BY <2>1, TurnFacts
    <2> QED BY <2>2, SolvableFacts DEF IInv
<1> QED BY <1>1, PipelineInvariant, PTL DEF Spec, VerifiedReceiversSolve

==============================================================================

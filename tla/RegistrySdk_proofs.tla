------------------------- MODULE RegistrySdk_proofs -------------------------
(***************************************************************************)
(* The safety properties of RegistrySdk for any sessions, owners and       *)
(* bounds.  Sessions act on what they read earlier, so everything rests on *)
(* one fact about the chain: a cell never changes while it is live, and    *)
(* its outpoint is never used again (HistoryInv).                          *)
(***************************************************************************)
EXTENDS RegistrySdk, SequenceTheorems, WellFoundedInduction, TLAPS

Snapshot == UNION {[S -> Chain!Cell] : S \in SUBSET Chain!OutPoint}

Tx == [inputs : Seq(Chain!OutPoint),
       types : [{0} -> Chain!Identity \cup {Plain}] \cup [{0, 1} -> Chain!Identity \cup {Plain}],
       locks : [{0} -> Owners], data : [{0} -> Chain!Record],
       read : Chain!Record \cup {NoData}]

Job == [pc : {"idle", "lookup", "send", "confirm", "poll"}, owner : Owners \cup {"none"},
        kind : {"none", "create", "update", "transfer", "revoke"},
        id : Chain!Identity \cup {<<>>}, found : Seq(Chain!OutPoint),
        tx : Tx \cup {NoTx}, polls : Int,
        result : {"none", "returned", "not_indexed", "failed", "duplicate"}]

TypeInv ==
    /\ height \in 0..MaxTxs /\ indexed \in 0..height
    /\ snapshots \in Seq(Snapshot)
    /\ Len(snapshots) = height + 1 /\ cells = snapshots[height + 1]
    /\ mempool \subseteq Tx
    /\ committedAt \in [DOMAIN committedAt -> 1..height] /\ DOMAIN committedAt \subseteq Tx
    /\ job \in [Sessions -> Job]

\* Every cell that was ever live, by its outpoint.
Seen == {op \in Chain!OutPoint : op[1] =< height /\ op \in DOMAIN snapshots[op[1] + 1]}
History == [op \in Seen |-> CellRead(op)]

\* A cell is the same in every snapshot, from that of its transaction on.
HistoryInv ==
    \A n \in 1..(height + 1) : \A op \in DOMAIN snapshots[n] :
        /\ op[1] < n /\ op \in DOMAIN History /\ snapshots[n][op] = History[op]
        /\ snapshots[n][op].type # Plain => snapshots[n][op].data \in Chain!Record

IsPlain(op, H) == op \in DOMAIN H /\ H[op].type = Plain

\* A creation as prepareCreate makes it.
IsCreation(tx, H) ==
    \E first \in Chain!OutPoint, owner \in Owners, r \in Chain!Record :
        /\ IsPlain(first, H)
        /\ validateCreation(r)
        /\ tx = Transaction(<<first>>, <<first, 0>>, TRUE, [data |-> r, lock |-> owner], NoData)

\* A successor as prepareSuccessor makes it, of the cell that was read.
IsSuccession(tx, H) ==
    \E op \in Chain!OutPoint, fee \in Chain!OutPoint, change \in BOOLEAN,
       next \in [data : Chain!Record, lock : Owners] :
        /\ op \in DOMAIN H /\ H[op].type \in Chain!Identity /\ H[op].data \in Chain!Record
        /\ change => IsPlain(fee, H)
        /\ validateSuccessor(H[op].data, next.data)
        /\ tx = Transaction(IF change THEN <<op, fee>> ELSE <<op>>, H[op].type, change,
                            next, H[op].data)

IsPrepared(tx, H) == IsCreation(tx, H) \/ IsSuccession(tx, H)

\* A transaction made the cells of its height.
Made(tx, h, H) ==
    \A op \in DOMAIN H : op[1] = h =>
        /\ op[2] \in DOMAIN tx.types /\ H[op].type = tx.types[op[2]]
        /\ op[2] = 0 => H[op].data = tx.data[0]

TxInv ==
    /\ \A tx \in mempool : IsPrepared(tx, History)
    /\ \A tx \in DOMAIN committedAt :
          /\ IsPrepared(tx, History) /\ Made(tx, committedAt[tx], History)
          /\ \A i \in DOMAIN tx.inputs : tx.inputs[i] \in DOMAIN snapshots[committedAt[tx]]

\* What waitForIndexedTransaction promises about the receiver it returned.
IsOwn(j, C, H) ==
    /\ Len(j.found) = 1 /\ j.tx \in DOMAIN C
    /\ j.found[1] = <<C[j.tx], 0>> /\ H[j.found[1]].data = j.tx.data[0]

\* A session holds outpoints of its identity, and a transaction it prepared.
JobInv(j, C, H) ==
    /\ \A i \in DOMAIN j.found : j.found[i] \in DOMAIN H /\ H[j.found[i]].type = j.id
    /\ j.pc # "idle" => j.id \in Chain!Identity
    /\ j.pc = "lookup" => j.kind \in {"update", "transfer", "revoke"}
    /\ j.pc \in {"send", "confirm", "poll"} => j.tx \in Tx /\ IsPrepared(j.tx, H)
    /\ j.pc = "poll" => j.tx \in DOMAIN C
    /\ j.result = "returned" => j.pc = "idle" /\ IsOwn(j, C, H)

JobsInv == \A s \in Sessions : JobInv(job[s], committedAt, History)

IInv == TypeInv /\ HistoryInv /\ TxInv /\ JobsInv

-----------------------------------------------------------------------------
(* What the SDK prepares, the type script accepts *)

\* The checks of record.ts imply those of record.rs.
LEMMA CreationsAgree ==
    ASSUME NEW r \in Chain!Record, validateCreation(r)
    PROVE  Chain!validate_creation(r)
BY DEF validateCreation, validateRegistryV2Record, Chain!validate_creation, Chain!validate,
       Chain!Record

LEMMA SuccessorsAgree ==
    ASSUME NEW r \in Chain!Record, NEW next \in Chain!Record, validateSuccessor(r, next)
    PROVE  Chain!validate_successor(next, r)
BY SdkAssumption DEF validateSuccessor, validateRegistryV2Record, Chain!validate_successor,
       Chain!validate, Chain!Record

LEMMA ChainConstants ==
    /\ Chain!OutputIndex = {0, 1}
    /\ Chain!Identity = Chain!OutPoint \X {0, 1}
    /\ Chain!OutPoint = (0..MaxTxs) \X {0, 1}
    /\ Plain \notin Chain!Identity
BY SdkAssumption DEF Chain!OutputIndex, Chain!Identity, Chain!OutPoint

LEMMA TransactionParts ==
    ASSUME NEW inputs, NEW type, NEW change, NEW next, NEW read
    PROVE  LET tx == Transaction(inputs, type, change, next, read)
           IN  /\ tx.inputs = inputs /\ tx.types = Outputs(type, change)
               /\ tx.data[0] = next.data /\ tx.locks[0] = next.lock /\ tx.read = read
               /\ tx.types[0] = type
               /\ 0 \in DOMAIN tx.types /\ DOMAIN tx.types \subseteq {0, 1}
               /\ 1 \in DOMAIN tx.types => tx.types[1] = Plain
BY DEF Transaction, Outputs

\* Live inputs are what they were when they were read.
LEMMA LiveIsRead ==
    ASSUME TypeInv, HistoryInv, NEW op \in DOMAIN cells
    PROVE  op \in DOMAIN History /\ cells[op] = History[op]
BY DEF TypeInv, HistoryInv

\* A transaction with one registry output, whose other cells are plain, has the
\* group of that output and no other.
LEMMA OneGroup ==
    ASSUME NEW inputs, NEW types, NEW id \in Chain!Identity,
           \A i \in DOMAIN inputs : cells[inputs[i]].type \in {id, Plain},
           0 \in DOMAIN types, DOMAIN types \subseteq {0, 1}, types[0] = id,
           1 \in DOMAIN types => types[1] = Plain
    PROVE  /\ Chain!Groups(inputs, types) = {id}
           /\ Chain!GroupOutput(types, id) = {0}
           /\ Chain!The({0}) = 0
<1>1. id # Plain
    BY ChainConstants
<1>2. Chain!GroupOutput(types, id) = {0}
    BY <1>1 DEF Chain!GroupOutput
<1>3. ASSUME NEW x \in Chain!Groups(inputs, types) PROVE x = id
  <2>1. x \in Chain!Identity /\ x # Plain
      BY ChainConstants DEF Chain!Groups
  <2>2. CASE Chain!GroupInput(inputs, x) # {}
      BY <2>1, <2>2 DEF Chain!GroupInput
  <2>3. CASE Chain!GroupOutput(types, x) # {}
    <3>1. PICK o \in DOMAIN types : types[o] = x
        BY <2>3 DEF Chain!GroupOutput
    <3> QED
        BY <2>1, <3>1
  <2> QED
      BY <2>2, <2>3 DEF Chain!Groups
<1>4. id \in Chain!Groups(inputs, types)
    BY <1>2 DEF Chain!Groups
<1> QED
    BY <1>2, <1>3, <1>4 DEF Chain!The

LEMMA CreationVerifies ==
    ASSUME TypeInv, HistoryInv, NEW tx, IsCreation(tx, History), InputsLive(tx)
    PROVE  Verifies(tx)
<1>1. PICK first \in Chain!OutPoint, owner \in Owners, r \in Chain!Record :
          /\ IsPlain(first, History) /\ validateCreation(r)
          /\ tx = Transaction(<<first>>, <<first, 0>>, TRUE, [data |-> r, lock |-> owner], NoData)
    BY DEF IsCreation
<1> DEFINE id == <<first, 0>>
<1>2. id \in Chain!Identity /\ id # Plain
    BY ChainConstants
<1>3. /\ tx.inputs = <<first>> /\ tx.types[0] = id /\ tx.data[0] = r
      /\ 0 \in DOMAIN tx.types /\ DOMAIN tx.types \subseteq {0, 1}
      /\ 1 \in DOMAIN tx.types => tx.types[1] = Plain
  <2> DEFINE next == [data |-> r, lock |-> owner]
  <2>1. next.data = r
      OBVIOUS
  <2>2. tx = Transaction(<<first>>, id, TRUE, next, NoData)
      BY <1>1
  <2> HIDE DEF next, id
  <2> QED
      BY <2>1, <2>2 DEF Transaction, Outputs
<1>4. first \in DOMAIN cells
    BY <1>3 DEF InputsLive, Range
<1>5. cells[first].type = Plain
    BY <1>1, <1>4, LiveIsRead DEF IsPlain
<1> HIDE DEF id
<1>6. \A i \in DOMAIN tx.inputs : cells[tx.inputs[i]].type \in {id, Plain}
    BY <1>3, <1>5
<1>7. /\ Chain!Groups(tx.inputs, tx.types) = {id}
      /\ Chain!GroupOutput(tx.types, id) = {0} /\ Chain!The({0}) = 0
  <2>1. /\ tx.types[0] = id /\ 0 \in DOMAIN tx.types /\ DOMAIN tx.types \subseteq {0, 1}
        /\ 1 \in DOMAIN tx.types => tx.types[1] = Plain
      BY <1>3
  <2> QED
      BY <1>2, <1>6, <2>1, OneGroup, ZenonT(60)
<1>8. Chain!GroupInput(tx.inputs, id) = {}
    BY <1>2, <1>3, <1>5 DEF Chain!GroupInput
<1>9. Chain!IsCreation(tx.inputs, tx.types, id)
    BY <1>7, <1>8 DEF Chain!IsCreation, Chain!Single
<1>10. Chain!check_type_id(tx.inputs, tx.types, id)
    BY <1>3, <1>7 DEF Chain!check_type_id, id
<1>11. Chain!validate_creation(tx.data[0])
    BY <1>1, <1>3, CreationsAgree
<1> QED
    BY <1>7, <1>9, <1>10, <1>11 DEF Verifies, Chain!ShapeAccepted, Chain!RecordsAccepted

LEMMA SuccessionVerifies ==
    ASSUME TypeInv, HistoryInv, NEW tx, IsSuccession(tx, History), InputsLive(tx)
    PROVE  Verifies(tx)
<1>1. PICK op \in Chain!OutPoint, fee \in Chain!OutPoint, change \in BOOLEAN,
           next \in [data : Chain!Record, lock : Owners] :
          /\ op \in DOMAIN History /\ History[op].type \in Chain!Identity
          /\ change => IsPlain(fee, History)
          /\ validateSuccessor(History[op].data, next.data)
          /\ tx = Transaction(IF change THEN <<op, fee>> ELSE <<op>>, History[op].type, change,
                              next, History[op].data)
    BY DEF IsSuccession
<1> DEFINE id == History[op].type
<1>2. id \in Chain!Identity /\ id # Plain
    BY <1>1, ChainConstants
<1>3. /\ tx.inputs = (IF change THEN <<op, fee>> ELSE <<op>>)
      /\ tx.types[0] = id /\ tx.data[0] = next.data
      /\ 0 \in DOMAIN tx.types /\ DOMAIN tx.types \subseteq {0, 1}
      /\ 1 \in DOMAIN tx.types => tx.types[1] = Plain
    BY <1>1, TransactionParts
<1>4. op \in DOMAIN cells /\ (change => fee \in DOMAIN cells)
    BY <1>3 DEF InputsLive, Range
<1>5. cells[op] = History[op] /\ (change => cells[fee].type = Plain)
    BY <1>1, <1>4, LiveIsRead DEF IsPlain
<1>6. cells[op].type = id /\ cells[op].data \in Chain!Record
    BY <1>2, <1>4, <1>5 DEF TypeInv, HistoryInv
<1> HIDE DEF id
<1>7. \A i \in DOMAIN tx.inputs : cells[tx.inputs[i]].type \in {id, Plain}
    BY <1>3, <1>5, <1>6
<1>8. /\ Chain!Groups(tx.inputs, tx.types) = {id}
      /\ Chain!GroupOutput(tx.types, id) = {0} /\ Chain!The({0}) = 0
  <2>1. /\ tx.types[0] = id /\ 0 \in DOMAIN tx.types /\ DOMAIN tx.types \subseteq {0, 1}
        /\ 1 \in DOMAIN tx.types => tx.types[1] = Plain
      BY <1>3
  <2> QED
      BY <1>2, <1>7, <2>1, OneGroup
<1>9. Chain!GroupInput(tx.inputs, id) = {1} /\ tx.inputs[1] = op
    BY <1>2, <1>3, <1>5, <1>6 DEF Chain!GroupInput
<1>10. Chain!The({1}) = 1
    BY DEF Chain!The
<1>11. /\ Chain!IsTransition(tx.inputs, tx.types, id) /\ ~Chain!IsCreation(tx.inputs, tx.types, id)
       /\ Chain!check_type_id(tx.inputs, tx.types, id)
    BY <1>8, <1>9 DEF Chain!IsTransition, Chain!IsCreation, Chain!Single, Chain!check_type_id
<1>12. Chain!validate_successor(tx.data[0], cells[op].data)
    BY <1>1, <1>3, <1>5, <1>6, SuccessorsAgree
<1> QED
    BY <1>8, <1>9, <1>10, <1>11, <1>12 DEF Verifies, Chain!ShapeAccepted, Chain!RecordsAccepted

LEMMA PreparedIsAccepted ==
    ASSUME TypeInv, HistoryInv, NEW tx, IsPrepared(tx, History), InputsLive(tx)
    PROVE  Verifies(tx)
BY CreationVerifies, SuccessionVerifies DEF IsPrepared

-----------------------------------------------------------------------------
(* What stays true as cells are added *)

LEMMA PreparedStays ==
    ASSUME NEW tx, NEW H, NEW K, IsPrepared(tx, H),
           \A op \in DOMAIN H : op \in DOMAIN K /\ K[op] = H[op]
    PROVE  IsPrepared(tx, K)
<1>1. ASSUME IsCreation(tx, H) PROVE IsCreation(tx, K)
    BY <1>1 DEF IsCreation, IsPlain
<1>2. ASSUME IsSuccession(tx, H) PROVE IsSuccession(tx, K)
  <2>1. PICK op \in Chain!OutPoint, fee \in Chain!OutPoint, change \in BOOLEAN,
             next \in [data : Chain!Record, lock : Owners] :
            /\ op \in DOMAIN H /\ H[op].type \in Chain!Identity /\ H[op].data \in Chain!Record
            /\ change => IsPlain(fee, H)
            /\ validateSuccessor(H[op].data, next.data)
            /\ tx = Transaction(IF change THEN <<op, fee>> ELSE <<op>>, H[op].type, change,
                                next, H[op].data)
      BY <1>2 DEF IsSuccession
  <2>2. K[op] = H[op] /\ op \in DOMAIN K /\ (change => IsPlain(fee, K))
      BY <2>1 DEF IsPlain
  <2> QED
      BY <2>1, <2>2 DEF IsSuccession
<1> QED
    BY <1>1, <1>2 DEF IsPrepared

LEMMA JobStays ==
    ASSUME NEW j \in Job, NEW C, NEW D, NEW H, NEW K, JobInv(j, C, H),
           \A op \in DOMAIN H : op \in DOMAIN K /\ K[op] = H[op],
           \A tx \in DOMAIN C : tx \in DOMAIN D /\ D[tx] = C[tx]
    PROVE  JobInv(j, D, K)
<1>1. j.pc \in {"send", "confirm", "poll"} => IsPrepared(j.tx, K)
    BY PreparedStays DEF JobInv
<1>2. j.result = "returned" => IsOwn(j, D, K)
  <2> SUFFICES ASSUME j.result = "returned" PROVE IsOwn(j, D, K)
      OBVIOUS
  <2>1. 1 \in DOMAIN j.found
      BY DEF JobInv, IsOwn, Job
  <2> QED
      BY <2>1 DEF JobInv, IsOwn
<1> QED
    BY <1>1, <1>2 DEF JobInv

\* A step of one session that changes no cell.
LEMMA SessionIsFine ==
    ASSUME IInv, NEW s \in Sessions, NEW j \in Job, job' = [job EXCEPT ![s] = j],
           UNCHANGED <<chainVars, snapshots, indexed, committedAt>>,
           mempool' \subseteq Tx, \A tx \in mempool' : IsPrepared(tx, History),
           JobInv(j, committedAt, History)
    PROVE  IInv'
<1>1. History' = History
    BY DEF History, Seen, CellRead, chainVars
<1>2. TypeInv'
    BY DEF IInv, TypeInv, chainVars
<1>3. HistoryInv'
    BY <1>1 DEF IInv, HistoryInv, chainVars
<1>4. TxInv'
    BY <1>1 DEF IInv, TxInv
<1>5. ASSUME NEW t \in Sessions PROVE JobInv(job'[t], committedAt', History')
    BY <1>1 DEF IInv, TypeInv, JobsInv
<1>6. JobsInv'
    BY <1>5 DEF JobsInv
<1> QED
    BY <1>2, <1>3, <1>4, <1>6 DEF IInv

LEMMA NoJobIsTyped ==
    /\ NoJob \in Job /\ NoJob.pc = "idle" /\ NoJob.result = "none"
    /\ NoJob.found \in Seq(Chain!OutPoint) /\ DOMAIN NoJob.found = {}
<1> DEFINE none == <<>>
<1>1. none \in Seq(Chain!OutPoint) /\ DOMAIN none = {} /\ none \in Chain!Identity \cup {<<>>}
    OBVIOUS
<1>2. NoJob = [pc |-> "idle", owner |-> "none", kind |-> "none", id |-> none, found |-> none,
               tx |-> NoTx, polls |-> 0, result |-> "none"]
    BY DEF NoJob
<1> HIDE DEF none
<1> QED
    BY <1>1, <1>2 DEF Job

LEMMA NoJobIsFine ==
    ASSUME NEW C, NEW H, NEW r \in {"failed", "duplicate", "none"}
    PROVE  [NoJob EXCEPT !.result = r] \in Job /\ JobInv([NoJob EXCEPT !.result = r], C, H)
<1> DEFINE j == [NoJob EXCEPT !.result = r]
<1>1. j \in Job /\ j.pc = "idle" /\ DOMAIN j.found = {} /\ j.result = r
    BY NoJobIsTyped DEF Job
<1> HIDE DEF j
<1>2. JobInv(j, C, H)
    BY <1>1 DEF JobInv
<1> QED
    BY <1>1, <1>2 DEF j

\* A call that ends without its receiver forgets what it held.
LEMMA FailureIsFine ==
    ASSUME IInv, NEW s \in Sessions, NEW r \in {"failed", "duplicate"}, Ends(s, r),
           UNCHANGED <<Unprepared>>
    PROVE  IInv'
<1> DEFINE j == [NoJob EXCEPT !.result = r]
<1>1. job' = [job EXCEPT ![s] = j]
    BY DEF Ends
<1>2. j \in Job /\ JobInv(j, committedAt, History)
    BY NoJobIsFine
<1> HIDE DEF j
<1> QED
    BY <1>1, <1>2, SessionIsFine DEF Unprepared, IInv, TypeInv, TxInv

-----------------------------------------------------------------------------
(* What a session reads and prepares *)

LEMMA CellsAreTyped ==
    ASSUME IInv, NEW n \in 1..(height + 1), NEW op \in DOMAIN snapshots[n]
    PROVE  /\ op \in Chain!OutPoint /\ op \in DOMAIN History /\ History[op] = snapshots[n][op]
           /\ History[op] \in Chain!Cell /\ op[1] < n
           /\ History[op].type # Plain => History[op].data \in Chain!Record
<1>1. snapshots[n] \in Snapshot
    BY DEF IInv, TypeInv
<1>2. op \in Chain!OutPoint /\ snapshots[n][op] \in Chain!Cell
    BY <1>1 DEF Snapshot
<1> QED
    BY <1>2 DEF IInv, HistoryInv

LEMMA IndexIsKnown ==
    ASSUME IInv, NEW op \in DOMAIN Index
    PROVE  /\ op \in Chain!OutPoint /\ op \in DOMAIN History /\ History[op] = Index[op]
           /\ History[op] \in Chain!Cell
           /\ History[op].type # Plain => History[op].data \in Chain!Record
<1>1. indexed + 1 \in 1..(height + 1)
    BY DEF IInv, TypeInv
<1> QED
    BY <1>1, CellsAreTyped DEF Index

LEMMA HistoryIsTyped ==
    ASSUME IInv, NEW op \in DOMAIN History
    PROVE  /\ op \in Chain!OutPoint /\ History[op] = CellRead(op) /\ History[op] \in Chain!Cell
           /\ History[op].type # Plain => History[op].data \in Chain!Record
<1>1. op \in Seen /\ History[op] = CellRead(op)
    BY DEF History
<1>2. op[1] + 1 \in 1..(height + 1) /\ op \in DOMAIN snapshots[op[1] + 1]
    BY <1>1, ChainConstants DEF Seen, IInv, TypeInv
<1> QED
    BY <1>1, <1>2, CellsAreTyped

LEMMA PreparedIsTyped ==
    ASSUME IInv, NEW tx, IsPrepared(tx, History)
    PROVE  tx \in Tx /\ tx.types[0] \in Chain!Identity
<1>1. ASSUME NEW inputs \in Seq(Chain!OutPoint), NEW type \in Chain!Identity,
             NEW change \in BOOLEAN, NEW next \in [data : Chain!Record, lock : Owners],
             NEW read \in Chain!Record \cup {NoData},
             tx = Transaction(inputs, type, change, next, read)
      PROVE  tx \in Tx /\ tx.types[0] \in Chain!Identity
  <2>1. Outputs(type, change) \in [{0} -> Chain!Identity \cup {Plain}]
                               \cup [{0, 1} -> Chain!Identity \cup {Plain}]
      BY DEF Outputs
  <2>2. Outputs(type, change)[0] = type
      BY DEF Outputs
  <2> QED
      BY <1>1, <2>1, <2>2 DEF Transaction, Tx
<1>2. CASE IsCreation(tx, History)
  <2>1. PICK first \in Chain!OutPoint, owner \in Owners, r \in Chain!Record :
            tx = Transaction(<<first>>, <<first, 0>>, TRUE, [data |-> r, lock |-> owner], NoData)
      BY <1>2 DEF IsCreation
  <2> DEFINE next == [data |-> r, lock |-> owner]
             id == <<first, 0>>
             inputs == <<first>>
  <2>2. next \in [data : Chain!Record, lock : Owners] /\ inputs \in Seq(Chain!OutPoint)
      OBVIOUS
  <2>3. id \in Chain!Identity
      BY ChainConstants
  <2>4. tx = Transaction(inputs, id, TRUE, next, NoData)
      BY <2>1
  <2> HIDE DEF next, id, inputs
  <2> DEFINE change == TRUE
  <2>5. change \in BOOLEAN /\ tx = Transaction(inputs, id, change, next, NoData)
      BY <2>4
  <2> HIDE DEF change
  <2> QED
      BY <1>1, <2>2, <2>3, <2>5
<1>3. CASE IsSuccession(tx, History)
  <2>1. PICK op \in Chain!OutPoint, fee \in Chain!OutPoint, change \in BOOLEAN,
             next \in [data : Chain!Record, lock : Owners] :
            /\ History[op].type \in Chain!Identity /\ History[op].data \in Chain!Record
            /\ tx = Transaction(IF change THEN <<op, fee>> ELSE <<op>>, History[op].type, change,
                                next, History[op].data)
      BY <1>3 DEF IsSuccession
  <2>2. (IF change THEN <<op, fee>> ELSE <<op>>) \in Seq(Chain!OutPoint)
      OBVIOUS
  <2> QED
      BY <1>1, <2>1, <2>2
<1> QED
    BY <1>2, <1>3 DEF IsPrepared

\* The later of the clock and the record's time is a time.
LEMMA TimestampIsTyped ==
    ASSUME NEW r \in Chain!Record, NEW now \in UnixTimes
    PROVE  nextTimestamp(r, now) \in Nat
<1>1. r.updated_at \in Nat /\ now \in Nat
    BY SdkAssumption DEF Chain!Record
<1>2. \E x \in {now, r.updated_at} : \A y \in {now, r.updated_at} : x >= y
    BY <1>1
<1>3. Max({now, r.updated_at}) \in {now, r.updated_at}
    BY <1>2 DEF Max
<1> QED
    BY <1>1, <1>3 DEF nextTimestamp

\* Whatever an operation makes of a valid record is again a record.
LEMMA SuccessorsAreTyped ==
    ASSUME NEW kind \in {"update", "transfer", "revoke"}, NEW cell \in Chain!Cell,
           cell.data \in Chain!Record, NEW next \in Successors(kind, cell),
           validateSuccessor(cell.data, next.data)
    PROVE  next \in [data : Chain!Record, lock : Owners]
<1> DEFINE r == cell.data
<1>1. r \in Chain!Record /\ cell.lock \in Owners
    BY DEF Chain!Cell
<1>2. r.sequence + 1 \in 0..MaxSequence
  <2>1. r.sequence \in 0..MaxSequence /\ r.sequence # MaxSequence
      BY <1>1 DEF validateSuccessor, Chain!Record
  <2> QED
      BY <2>1, SdkAssumption
<1>3. r.wellFormed \in BOOLEAN /\ r.label \in Labels /\ r.status \in Chain!Statuses
      /\ r.stream \in SUBSET Chain!StreamFields /\ r.updated_at \in Nat
    BY <1>1 DEF Chain!Record
<1>4. ASSUME NEW now \in UnixTimes PROVE nextTimestamp(r, now) \in Nat
    BY <1>1, TimestampIsTyped
<1>5. CASE kind = "update"
  <2>1. CASE \E p \in Patches, now \in UnixTimes :
                 next = [data |-> Updated(r, p, now), lock |-> cell.lock]
    <3>1. PICK p \in Patches, now \in UnixTimes :
              next = [data |-> Updated(r, p, now), lock |-> cell.lock]
        BY <2>1
    <3>2. /\ p.status \in Chain!Statuses /\ p.stream \in SUBSET Chain!StreamFields
          /\ p.updated_at \in Nat
        BY SdkAssumption
    <3>3. Updated(r, p, now) \in Chain!Record
        BY <1>1, <1>2, <1>4, <3>2 DEF Updated, Chain!Record
    <3> QED
        BY <1>1, <3>1, <3>3
  <2>2. CASE \E p \in Payloads : next = [data |-> p, lock |-> cell.lock]
      BY <1>1, <2>2, SdkAssumption
  <2> QED
      BY <1>5, <2>1, <2>2 DEF Successors
<1>6. CASE kind = "transfer"
  <2>1. PICK o \in Owners, now \in UnixTimes :
            next = [data |-> Transferred(r, now), lock |-> o]
      BY <1>6 DEF Successors
  <2>2. Transferred(r, now) \in Chain!Record
      BY <1>1, <1>2, <1>4 DEF Transferred, Chain!Record
  <2> QED
      BY <2>1, <2>2
<1>7. CASE kind = "revoke"
  <2>1. PICK now \in UnixTimes : next = [data |-> Revoked(r, now), lock |-> cell.lock]
      BY <1>7 DEF Successors
  <2>2. Revoked(r, now) \in Chain!Record
      BY <1>1, <1>2, <1>4 DEF Revoked, Chain!Record, Chain!Statuses
  <2> QED
      BY <1>1, <2>1, <2>2
<1> QED
    BY <1>5, <1>6, <1>7

-----------------------------------------------------------------------------
(* The steps of a session *)

LEMMA Smallest ==
    ASSUME NEW S \in SUBSET Nat, S # {}
    PROVE  \E m \in S : \A n \in S : m =< n
<1> DEFINE R == {ss \in Nat \X Nat : ss[1] < ss[2]}
<1>1. IsWellFoundedOn(R, Nat)
    BY NatLessThanWellFounded DEF OpToRel
<1>2. PICK m \in S : \A n \in S : <<n, m>> \notin R
    BY <1>1, WFMin
<1>3. ASSUME NEW n \in S PROVE m =< n
  <2>1. <<n, m>> \in R <=> n < m
      OBVIOUS
  <2> QED
      BY <2>1, <1>2
<1> QED
    BY <1>3

\* Of several outpoints one comes first: prepareCreate finds it.
LEMMA FirstOutPoint ==
    ASSUME NEW S \in SUBSET Chain!OutPoint, S # {}
    PROVE  \E op \in S : \A q \in S : op[1] < q[1] \/ (op[1] = q[1] /\ op[2] =< q[2])
<1>1. \A op \in S : op[1] \in Nat /\ op[2] \in {0, 1}
    BY ChainConstants
<1> DEFINE T == {2 * op[1] + op[2] : op \in S}
<1>2. T \in SUBSET Nat /\ T # {}
    BY <1>1
<1>3. PICK m \in T : \A n \in T : m =< n
    BY <1>2, Smallest
<1>4. PICK op \in S : m = 2 * op[1] + op[2]
    OBVIOUS
<1>5. ASSUME NEW q \in S PROVE op[1] < q[1] \/ (op[1] = q[1] /\ op[2] =< q[2])
  <2>1. 2 * op[1] + op[2] =< 2 * q[1] + q[2]
      BY <1>3, <1>4
  <2> QED
      BY <1>1, <2>1
<1> QED
    BY <1>5

LEMMA PlainCellsArePlain ==
    ASSUME IInv, NEW owner, NEW op \in PlainCells(owner)
    PROVE  op \in Chain!OutPoint /\ IsPlain(op, History)
BY IndexIsKnown DEF PlainCells, IsPlain

LEMMA CreateIsFine ==
    ASSUME IInv, NEW s \in Sessions, prepareCreate(s)
    PROVE  IInv'
<1>1. PICK owner \in Owners, r \in Payloads :
          /\ validateCreation(r) /\ PlainCells(owner) # {}
          /\ LET first == CHOOSE op \in PlainCells(owner) :
                              \A q \in PlainCells(owner) :
                                  op[1] < q[1] \/ (op[1] = q[1] /\ op[2] =< q[2])
                 id == <<first, 0>>
                 tx == Transaction(<<first>>, id, TRUE, [data |-> r, lock |-> owner], NoData)
             IN  job' = [job EXCEPT ![s] = [NoJob EXCEPT !.pc = "send", !.owner = owner,
                                                         !.kind = "create", !.id = id, !.tx = tx]]
    BY DEF prepareCreate
<1> DEFINE first == CHOOSE op \in PlainCells(owner) :
                        \A q \in PlainCells(owner) :
                            op[1] < q[1] \/ (op[1] = q[1] /\ op[2] =< q[2])
           id == <<first, 0>>
           tx == Transaction(<<first>>, id, TRUE, [data |-> r, lock |-> owner], NoData)
           j == [NoJob EXCEPT !.pc = "send", !.owner = owner, !.kind = "create", !.id = id,
                              !.tx = tx]
<1>2. PlainCells(owner) \in SUBSET Chain!OutPoint
    BY PlainCellsArePlain
<1>3. first \in PlainCells(owner)
    BY <1>1, <1>2, FirstOutPoint
<1>4. first \in Chain!OutPoint /\ IsPlain(first, History)
    BY <1>3, PlainCellsArePlain
<1> HIDE DEF first
<1>5. r \in Chain!Record
    BY SdkAssumption
<1>6. IsPrepared(tx, History)
    BY <1>1, <1>4, <1>5 DEF IsPrepared, IsCreation
<1>7. tx \in Tx
    BY <1>6, PreparedIsTyped
<1>8. id \in Chain!Identity
    BY <1>4, ChainConstants
<1>9. job' = [job EXCEPT ![s] = j]
    BY <1>1 DEF first
<1> HIDE DEF tx, id
<1>10. /\ j \in Job /\ j.pc = "send" /\ j.id = id /\ j.tx = tx /\ j.result = "none"
       /\ DOMAIN j.found = {}
    BY <1>7, <1>8, NoJobIsTyped DEF Job
<1> HIDE DEF j
<1>11. JobInv(j, committedAt, History)
    BY <1>6, <1>7, <1>8, <1>10 DEF JobInv
<1> QED
    BY <1>9, <1>10, <1>11, SessionIsFine DEF prepareCreate, Unprepared, IInv, TypeInv, TxInv

LEMMA SuccessorOfIsFine ==
    ASSUME IInv, NEW s \in Sessions, prepareSuccessorOf(s)
    PROVE  IInv'
<1>1. PICK owner \in Owners, kind \in {"update", "transfer", "revoke"},
           id \in {tx.types[0] : tx \in DOMAIN committedAt} :
          job' = [job EXCEPT ![s] = [NoJob EXCEPT !.pc = "lookup", !.owner = owner,
                                                  !.kind = kind, !.id = id]]
    BY DEF prepareSuccessorOf
<1>2. id \in Chain!Identity
    BY PreparedIsTyped DEF IInv, TxInv
<1> DEFINE j == [NoJob EXCEPT !.pc = "lookup", !.owner = owner, !.kind = kind, !.id = id]
<1>3. /\ j \in Job /\ j.pc = "lookup" /\ j.id = id /\ j.kind = kind /\ j.result = "none"
      /\ DOMAIN j.found = {}
    BY <1>2, NoJobIsTyped DEF Job
<1>4. job' = [job EXCEPT ![s] = j]
    BY <1>1
<1> HIDE DEF j
<1>5. JobInv(j, committedAt, History)
    BY <1>2, <1>3 DEF JobInv
<1> QED
    BY <1>3, <1>4, <1>5, SessionIsFine DEF prepareSuccessorOf, Unprepared, IInv, TypeInv, TxInv

LEMMA JobIsTyped ==
    ASSUME IInv, NEW s \in Sessions
    PROVE  job[s] \in Job /\ JobInv(job[s], committedAt, History)
BY DEF IInv, TypeInv, JobsInv

\* A page of a lookup adds a cell of the identity that is looked up.
LEMMA PageIsFine ==
    ASSUME IInv, NEW s \in Sessions, job[s].pc \in {"lookup", "poll"},
           NEW op \in findCellsPaged(job[s].id, job[s].found),
           job' = [job EXCEPT ![s].found = Append(@, op)], UNCHANGED <<Unprepared>>
    PROVE  IInv'
<1> DEFINE j == [job[s] EXCEPT !.found = Append(job[s].found, op)]
<1>1. op \in Chain!OutPoint /\ op \in DOMAIN History /\ History[op].type = job[s].id
    BY IndexIsKnown DEF findCellsPaged
<1>2. job[s] \in Job /\ JobInv(job[s], committedAt, History)
    BY JobIsTyped
<1>3. job' = [job EXCEPT ![s] = j]
    BY <1>2 DEF Job
<1>4. job[s].found \in Seq(Chain!OutPoint)
    BY <1>2 DEF Job
<1>5. Append(job[s].found, op) \in Seq(Chain!OutPoint)
    BY <1>1, <1>4
<1>6. /\ j \in Job /\ j.found = Append(job[s].found, op)
      /\ j.pc = job[s].pc /\ j.id = job[s].id /\ j.kind = job[s].kind /\ j.tx = job[s].tx
      /\ j.result = job[s].result
    BY <1>2, <1>5 DEF Job
<1>7. \A i \in DOMAIN j.found : j.found[i] \in DOMAIN History /\ History[j.found[i]].type = j.id
  <2> SUFFICES ASSUME NEW i \in DOMAIN j.found
               PROVE  j.found[i] \in DOMAIN History /\ History[j.found[i]].type = j.id
      OBVIOUS
  <2>1. i \in DOMAIN job[s].found \/ i = Len(job[s].found) + 1
      BY <1>1, <1>4, <1>6
  <2>2. i \in DOMAIN job[s].found => j.found[i] = job[s].found[i]
      BY <1>1, <1>4, <1>6
  <2>3. i = Len(job[s].found) + 1 => j.found[i] = op
      BY <1>1, <1>4, <1>6
  <2> QED
      BY <1>1, <1>2, <1>6, <2>1, <2>2, <2>3 DEF JobInv
<1>8. j.result # "returned"
    BY <1>2, <1>6 DEF JobInv
<1> HIDE DEF j
<1>9. JobInv(j, committedAt, History)
    BY <1>2, <1>6, <1>7, <1>8 DEF JobInv
<1> QED
    BY <1>3, <1>6, <1>9, SessionIsFine DEF Unprepared, IInv, TypeInv, TxInv

LEMMA LookupIsFine ==
    ASSUME IInv, NEW s \in Sessions, requireCurrentCell(s) \/ LookupFails(s) \/ PollPage(s)
    PROVE  IInv'
<1>1. CASE requireCurrentCell(s)
  <2>1. PICK op \in findCellsPaged(job[s].id, job[s].found) :
            \/ job' = [job EXCEPT ![s].found = Append(@, op)]
            \/ Ends(s, "duplicate")
      BY <1>1 DEF requireCurrentCell
  <2> QED
      BY <1>1, <2>1, PageIsFine, FailureIsFine DEF requireCurrentCell
<1>2. CASE LookupFails(s)
    BY <1>2, FailureIsFine DEF LookupFails
<1>3. CASE PollPage(s)
    BY <1>3, PageIsFine DEF PollPage
<1> QED
    BY <1>1, <1>2, <1>3

\* The transaction that update, transfer and revoke prepare.
LEMMA PreparedIsFine ==
    ASSUME IInv, NEW s \in Sessions, NEW tx, IsPrepared(tx, History), job[s].pc = "lookup",
           Prepared(s, tx, job[s].id), UNCHANGED <<Unprepared>>
    PROVE  IInv'
<1> DEFINE none == <<>>
           j == [job[s] EXCEPT !.pc = "send", !.tx = tx, !.id = job[s].id, !.found = none]
<1>1. job[s] \in Job /\ JobInv(job[s], committedAt, History) /\ tx \in Tx
    BY JobIsTyped, PreparedIsTyped
<1>2. none \in Seq(Chain!OutPoint) /\ DOMAIN none = {}
    OBVIOUS
<1>3. job' = [job EXCEPT ![s] = j]
    BY <1>1 DEF Prepared, Job
<1> HIDE DEF none
<1>4. /\ j \in Job /\ j.pc = "send" /\ j.id = job[s].id /\ j.tx = tx /\ j.found = none
      /\ j.result = job[s].result
    BY <1>1, <1>2 DEF Job
<1> HIDE DEF j
<1>5. JobInv(j, committedAt, History)
    BY <1>1, <1>2, <1>4 DEF JobInv
<1> QED
    BY <1>3, <1>4, <1>5, SessionIsFine DEF Unprepared, IInv, TypeInv, TxInv

LEMMA SuccessorIsFine ==
    ASSUME IInv, NEW s \in Sessions, prepareSuccessor(s)
    PROVE  IInv'
<1> DEFINE op == job[s].found[1]
           cell == CellRead(op)
<1>1. /\ job[s].pc = "lookup" /\ Len(job[s].found) = 1
      /\ \/ /\ cell.lock = job[s].owner
            /\ \E next \in Successors(job[s].kind, cell) :
                  /\ validateSuccessor(cell.data, next.data)
                  /\ \/ Prepared(s, Transaction(<<op>>, cell.type, FALSE, next, cell.data),
                                 job[s].id)
                     \/ \E fee \in PlainCells(job[s].owner) :
                           Prepared(s, Transaction(<<op, fee>>, cell.type, TRUE, next, cell.data),
                                    job[s].id)
         \/ Ends(s, "failed")
      /\ UNCHANGED <<Unprepared>>
    BY DEF prepareSuccessor
<1>2. job[s] \in Job /\ JobInv(job[s], committedAt, History)
    BY JobIsTyped
<1>3. 1 \in DOMAIN job[s].found
    BY <1>1, <1>2 DEF Job
<1>4. op \in DOMAIN History /\ History[op].type \in Chain!Identity
    BY <1>1, <1>2, <1>3 DEF JobInv
<1>5. /\ op \in Chain!OutPoint /\ cell = History[op] /\ cell \in Chain!Cell
      /\ cell.data \in Chain!Record
    BY <1>4, HistoryIsTyped, ChainConstants
<1>6. job[s].kind \in {"update", "transfer", "revoke"}
    BY <1>1, <1>2 DEF JobInv
<1> HIDE DEF op, cell
<1>7. CASE Ends(s, "failed")
    BY <1>1, <1>7, FailureIsFine
<1>8. ASSUME NEW next \in Successors(job[s].kind, cell), validateSuccessor(cell.data, next.data),
             NEW fee \in Chain!OutPoint, NEW change \in BOOLEAN, change => IsPlain(fee, History),
             NEW tx,
             tx = Transaction(IF change THEN <<op, fee>> ELSE <<op>>, cell.type, change, next,
                              cell.data),
             Prepared(s, tx, job[s].id)
      PROVE  IInv'
  <2>1. next \in [data : Chain!Record, lock : Owners]
      BY <1>5, <1>6, <1>8, SuccessorsAreTyped
  <2>2. IsSuccession(tx, History)
      BY <1>4, <1>5, <1>8, <2>1 DEF IsSuccession
  <2>3. IsPrepared(tx, History)
      BY <2>2 DEF IsPrepared
  <2> QED
      BY <1>1, <1>8, <2>3, PreparedIsFine
<1>9. ASSUME NEW next \in Successors(job[s].kind, cell), validateSuccessor(cell.data, next.data),
             Prepared(s, Transaction(<<op>>, cell.type, FALSE, next, cell.data), job[s].id)
      PROVE  IInv'
  <2> DEFINE change == FALSE
             tx == Transaction(IF change THEN <<op, op>> ELSE <<op>>, cell.type, change, next,
                               cell.data)
  <2>1. change \in BOOLEAN /\ ~change /\ Prepared(s, tx, job[s].id)
      BY <1>9
  <2> HIDE DEF change
  <2> QED
      BY <1>5, <1>8, <1>9, <2>1
<1>10. ASSUME NEW next \in Successors(job[s].kind, cell), validateSuccessor(cell.data, next.data),
              NEW fee \in PlainCells(job[s].owner),
              Prepared(s, Transaction(<<op, fee>>, cell.type, TRUE, next, cell.data), job[s].id)
       PROVE  IInv'
  <2> DEFINE change == TRUE
             tx == Transaction(IF change THEN <<op, fee>> ELSE <<op>>, cell.type, change, next,
                               cell.data)
  <2>1. change \in BOOLEAN /\ Prepared(s, tx, job[s].id)
      BY <1>10
  <2>2. fee \in Chain!OutPoint /\ IsPlain(fee, History)
      BY PlainCellsArePlain
  <2> HIDE DEF change
  <2> QED
      BY <1>8, <1>10, <2>1, <2>2
<1> QED
    BY <1>1, <1>7, <1>9, <1>10

LEMMA SendIsFine ==
    ASSUME IInv, NEW s \in Sessions, sendTransaction(s)
    PROVE  IInv'
<1>1. CASE Ends(s, "failed") /\ UNCHANGED mempool
    BY <1>1, FailureIsFine DEF sendTransaction, Unprepared
<1>2. CASE mempool' = mempool \cup {job[s].tx} /\ job' = [job EXCEPT ![s].pc = "confirm"]
  <2> DEFINE j == [job[s] EXCEPT !.pc = "confirm"]
  <2>1. job[s] \in Job /\ JobInv(job[s], committedAt, History) /\ job[s].pc = "send"
      BY JobIsTyped DEF sendTransaction
  <2>2. job' = [job EXCEPT ![s] = j]
      BY <1>2
  <2>3. /\ j \in Job /\ j.pc = "confirm" /\ j.id = job[s].id /\ j.tx = job[s].tx
        /\ j.found = job[s].found /\ j.result = job[s].result
      BY <2>1 DEF Job
  <2> HIDE DEF j
  <2>4. JobInv(j, committedAt, History)
      BY <2>1, <2>3 DEF JobInv
  <2>5. job[s].tx \in Tx /\ IsPrepared(job[s].tx, History)
      BY <2>1 DEF JobInv
  <2>6. mempool' \subseteq Tx /\ \A tx \in mempool' : IsPrepared(tx, History)
      BY <1>2, <2>5 DEF IInv, TypeInv, TxInv
  <2> QED
      BY <2>2, <2>3, <2>4, <2>6, SessionIsFine DEF sendTransaction
<1> QED
    BY <1>1, <1>2 DEF sendTransaction

LEMMA WaitIsFine ==
    ASSUME IInv, NEW s \in Sessions, waitTransaction(s)
    PROVE  IInv'
<1>1. CASE Ends(s, "failed")
    BY <1>1, FailureIsFine DEF waitTransaction
<1>2. CASE job[s].tx \in DOMAIN committedAt /\ job' = [job EXCEPT ![s].pc = "poll"]
  <2> DEFINE j == [job[s] EXCEPT !.pc = "poll"]
  <2>1. job[s] \in Job /\ JobInv(job[s], committedAt, History) /\ job[s].pc = "confirm"
      BY JobIsTyped DEF waitTransaction
  <2>2. job' = [job EXCEPT ![s] = j]
      BY <1>2
  <2>3. /\ j \in Job /\ j.pc = "poll" /\ j.id = job[s].id /\ j.tx = job[s].tx
        /\ j.found = job[s].found /\ j.result = job[s].result
      BY <2>1 DEF Job
  <2> HIDE DEF j
  <2>4. JobInv(j, committedAt, History)
      BY <1>2, <2>1, <2>3 DEF JobInv
  <2> QED
      BY <2>2, <2>3, <2>4, SessionIsFine DEF waitTransaction, Unprepared, IInv, TypeInv, TxInv
<1> QED
    BY <1>1, <1>2 DEF waitTransaction

\* The receiver that is returned is at the height of the transaction, and of the
\* cells made there only the first has an identity.
LEMMA ReturnIsOwn ==
    ASSUME IInv, NEW s \in Sessions, job[s].pc = "poll", IsIndexed(s)
    PROVE  IsOwn(job[s], committedAt, History)
<1> DEFINE op == job[s].found[1]
           tx == job[s].tx
<1>1. job[s] \in Job /\ JobInv(job[s], committedAt, History)
    BY JobIsTyped
<1>2. 1 \in DOMAIN job[s].found /\ Len(job[s].found) = 1 /\ op[1] = committedAt[tx]
    BY <1>1 DEF IsIndexed, Job
<1>3. op \in DOMAIN History /\ History[op].type \in Chain!Identity /\ tx \in DOMAIN committedAt
    BY <1>1, <1>2 DEF JobInv
<1>4. op \in Chain!OutPoint
    BY <1>3, HistoryIsTyped
<1>5. Made(tx, committedAt[tx], History) /\ IsPrepared(tx, History)
    BY <1>3 DEF IInv, TxInv
<1> HIDE DEF op, tx
<1>6. /\ op[2] \in DOMAIN tx.types /\ History[op].type = tx.types[op[2]]
      /\ op[2] = 0 => History[op].data = tx.data[0]
    BY <1>2, <1>3, <1>5 DEF Made
<1>7. 1 \in DOMAIN tx.types => tx.types[1] = Plain
  <2>1. CASE IsCreation(tx, History)
      BY <2>1 DEF IsCreation, Transaction, Outputs
  <2>2. CASE IsSuccession(tx, History)
      BY <2>2, TransactionParts DEF IsSuccession
  <2> QED
      BY <1>5, <2>1, <2>2 DEF IsPrepared
<1>8. op[2] = 0
    BY <1>3, <1>4, <1>6, <1>7, ChainConstants
<1>9. op = <<committedAt[tx], 0>>
    BY <1>2, <1>4, <1>8, ChainConstants
<1> QED
    BY <1>2, <1>3, <1>6, <1>8, <1>9 DEF IsOwn, op, tx

LEMMA PollsAreCounted ==
    ASSUME NEW j \in Job, NEW n \in Int
    PROVE  [j EXCEPT !.polls = n] \in Job
BY DEF Job

LEMMA PollEndsIsFine ==
    ASSUME IInv, NEW s \in Sessions, PollEnds(s)
    PROVE  IInv'
<1>1. job[s] \in Job /\ JobInv(job[s], committedAt, History) /\ job[s].pc = "poll"
    BY JobIsTyped DEF PollEnds
<1>2. \/ Ends(s, "duplicate")
      \/ IsIndexed(s) /\ Ends(s, "returned")
      \/ Ends(s, "not_indexed")
      \/ job' = [job EXCEPT ![s].found = <<>>, ![s].polls = @ + 1]
    BY DEF PollEnds
<1>3. CASE Ends(s, "duplicate")
    BY <1>3, FailureIsFine DEF PollEnds
<1>4. ASSUME NEW r \in {"returned", "not_indexed"}, Ends(s, r), r = "returned" => IsIndexed(s)
      PROVE  IInv'
  <2> DEFINE j == [job[s] EXCEPT !.pc = "idle", !.result = r, !.polls = 0]
  <2>1. job' = [job EXCEPT ![s] = j]
      BY <1>4 DEF Ends
  <2>2. /\ j \in Job /\ j.pc = "idle" /\ j.id = job[s].id /\ j.tx = job[s].tx
        /\ j.found = job[s].found /\ j.result = r
    <3>1. /\ j.pc = "idle" /\ j.id = job[s].id /\ j.tx = job[s].tx
          /\ j.found = job[s].found /\ j.result = r
        BY <1>1 DEF Job
    <3> DEFINE k == [job[s] EXCEPT !.pc = "idle", !.result = r]
    <3>2. k \in Job
        BY <1>1 DEF Job
    <3>3. j = [k EXCEPT !.polls = 0]
        OBVIOUS
    <3> HIDE DEF k, j
    <3>4. j \in Job
        BY <3>2, <3>3, PollsAreCounted
    <3> QED
        BY <3>1, <3>4 DEF j
  <2> HIDE DEF j
  <2>3. r = "returned" => IsOwn(j, committedAt, History)
      BY <1>1, <1>4, <2>2, ReturnIsOwn DEF IsOwn
  <2>4. JobInv(j, committedAt, History)
      BY <1>1, <2>2, <2>3 DEF JobInv
  <2> QED
      BY <2>1, <2>2, <2>4, SessionIsFine DEF PollEnds, Unprepared, IInv, TypeInv, TxInv
<1>5. CASE job' = [job EXCEPT ![s].found = <<>>, ![s].polls = @ + 1]
  <2> DEFINE none == <<>>
             j == [job[s] EXCEPT !.found = none, !.polls = job[s].polls + 1]
  <2>1. none \in Seq(Chain!OutPoint) /\ DOMAIN none = {}
      OBVIOUS
  <2>2. job' = [job EXCEPT ![s] = j]
      BY <1>1, <1>5 DEF Job
  <2> HIDE DEF none
  <2>3. /\ j \in Job /\ j.pc = "poll" /\ j.id = job[s].id /\ j.tx = job[s].tx
        /\ j.found = none /\ j.result = job[s].result
    <3>1. /\ j.pc = "poll" /\ j.id = job[s].id /\ j.tx = job[s].tx
          /\ j.found = none /\ j.result = job[s].result
        BY <1>1 DEF Job
    <3> DEFINE k == [job[s] EXCEPT !.found = none]
    <3>2. k \in Job
        BY <1>1, <2>1 DEF Job
    <3>3. job[s].polls + 1 \in Int
        BY <1>1 DEF Job
    <3>4. j = [k EXCEPT !.polls = job[s].polls + 1]
        OBVIOUS
    <3> HIDE DEF k, j
    <3>5. j \in Job
        BY <3>2, <3>3, <3>4, PollsAreCounted
    <3> QED
        BY <3>1, <3>5 DEF j
  <2> HIDE DEF j
  <2>4. JobInv(j, committedAt, History)
      BY <1>1, <2>1, <2>3 DEF JobInv
  <2> QED
      BY <2>2, <2>3, <2>4, SessionIsFine DEF PollEnds, Unprepared, IInv, TypeInv, TxInv
<1> QED
    BY <1>2, <1>3, <1>4, <1>5

-----------------------------------------------------------------------------
(* Steps of the chain and the indexer *)

LEMMA IndexerIsFine ==
    ASSUME IInv, IndexerAdvances
    PROVE  IInv'
<1>1. UNCHANGED <<History, height, snapshots, mempool, committedAt, job, cells>>
    BY DEF IndexerAdvances, History, Seen, CellRead, chainVars
<1>2. indexed' \in 0..height
    BY DEF IndexerAdvances, IInv, TypeInv
<1>3. TypeInv'
    BY <1>1, <1>2 DEF IInv, TypeInv
<1>4. HistoryInv' /\ TxInv' /\ JobsInv'
    BY <1>1 DEF IInv, HistoryInv, TxInv, JobsInv
<1> QED
    BY <1>3, <1>4 DEF IInv

\* The cells after a transaction: those it did not spend, and its outputs.
LEMMA CommitAdds ==
    ASSUME IInv, NEW tx \in mempool, InputsLive(tx), height < MaxTxs,
           Chain!Apply(tx.inputs, tx.types, tx.locks, tx.data)
    PROVE  /\ height' = height + 1
           /\ cells' \in Snapshot
           /\ \A op \in DOMAIN cells' :
                 \/ op \in DOMAIN cells /\ cells'[op] = cells[op]
                 \/ /\ op \in Chain!OutPoint /\ op[1] = height + 1 /\ op[2] \in DOMAIN tx.types
                    /\ cells'[op].type = tx.types[op[2]]
                    /\ cells'[op].type # Plain => cells'[op].data = tx.data[0]
<1> DEFINE created == {height + 1} \X DOMAIN tx.types
           kept == DOMAIN cells \ Range(tx.inputs)
           new(o) == Chain!NewCell(tx.inputs, tx.types, tx.locks, tx.data, o)
<1>1. /\ cells' = [op \in kept \cup created |-> IF op \in kept THEN cells[op] ELSE new(op[2])]
      /\ height' = height + 1
    BY DEF Chain!Apply, Chain!Range, Range
<1>2. tx \in Tx /\ IsPrepared(tx, History)
    BY DEF IInv, TypeInv, TxInv
<1>3. /\ DOMAIN tx.types \in {{0}, {0, 1}}
      /\ 1 \in DOMAIN tx.types => tx.types[1] = Plain
  <2>1. CASE IsCreation(tx, History)
      BY <2>1 DEF IsCreation, Transaction, Outputs
  <2>2. CASE IsSuccession(tx, History)
    <3>1. PICK type, change : tx.types = Outputs(type, change)
        BY <2>2, TransactionParts DEF IsSuccession
    <3> QED
        BY <3>1 DEF Outputs
  <2> QED
      BY <1>2, <2>1, <2>2 DEF IsPrepared
<1>4. cells \in Snapshot /\ height \in 0..MaxTxs
    BY DEF IInv, TypeInv
<1>5. DOMAIN cells \subseteq Chain!OutPoint /\ \A op \in DOMAIN cells : cells[op] \in Chain!Cell
    BY <1>4 DEF Snapshot
<1>6. cells[tx.inputs[1]].lock \in Owners
  <2>1. 1 \in DOMAIN tx.inputs
    <3>1. CASE IsCreation(tx, History)
        BY <3>1 DEF IsCreation, Transaction
    <3>2. CASE IsSuccession(tx, History)
        BY <3>2, TransactionParts DEF IsSuccession
    <3> QED
        BY <1>2, <3>1, <3>2 DEF IsPrepared
  <2>2. tx.inputs[1] \in DOMAIN cells
      BY <2>1 DEF InputsLive, Range
  <2> QED
      BY <1>5, <2>2 DEF Chain!Cell
<1>7. ASSUME NEW o \in DOMAIN tx.types
      PROVE  /\ new(o) \in Chain!Cell /\ new(o).type = tx.types[o]
             /\ new(o).type # Plain => new(o).data = tx.data[0]
  <2>1. tx.types[o] \in Chain!Identity \cup {Plain}
      BY <1>2 DEF Tx
  <2>2. CASE tx.types[o] = Plain
      BY <1>6, <2>2 DEF Chain!NewCell, Chain!Cell
  <2>3. CASE tx.types[o] # Plain
    <3>1. o = 0 /\ tx.locks[0] \in Owners /\ tx.data[0] \in Chain!Record
        BY <1>2, <1>3, <2>3 DEF Tx
    <3> QED
        BY <2>1, <2>3, <3>1 DEF Chain!NewCell, Chain!Cell
  <2> QED
      BY <2>2, <2>3
<1> HIDE DEF new
<1>8. created \in SUBSET Chain!OutPoint
  <2>1. height + 1 \in 0..MaxTxs
      BY <1>4, SdkAssumption
  <2>2. DOMAIN tx.types \subseteq {0, 1}
      BY <1>3
  <2>3. {height + 1} \X DOMAIN tx.types \subseteq (0..MaxTxs) \X {0, 1}
      BY <2>1, <2>2
  <2> QED
      BY <2>3, ChainConstants
<1>9. ASSUME NEW op \in DOMAIN cells'
      PROVE  /\ op \in Chain!OutPoint /\ cells'[op] \in Chain!Cell
             /\ \/ op \in DOMAIN cells /\ cells'[op] = cells[op]
                \/ /\ op \in Chain!OutPoint /\ op[1] = height + 1 /\ op[2] \in DOMAIN tx.types
                   /\ cells'[op].type = tx.types[op[2]]
                   /\ cells'[op].type # Plain => cells'[op].data = tx.data[0]
  <2>1. CASE op \in kept
      BY <1>1, <1>5, <2>1
  <2>2. CASE op \notin kept
    <3>1. op \in created /\ cells'[op] = new(op[2])
        BY <1>1, <2>2
    <3> QED
        BY <1>7, <1>8, <3>1
  <2> QED
      BY <2>1, <2>2
<1>10. cells' = [op \in DOMAIN cells' |-> cells'[op]] /\ DOMAIN cells' \in SUBSET Chain!OutPoint
    BY <1>1, <1>9
<1>11. cells' \in [DOMAIN cells' -> Chain!Cell]
    BY <1>9, <1>10
<1>12. cells' \in Snapshot
    BY <1>10, <1>11 DEF Snapshot
<1> QED
    BY <1>1, <1>9, <1>12

\* History grows by the outputs of the transaction, and nothing in it changes.
LEMMA HistoryGrows ==
    ASSUME IInv, height' = height + 1, height < MaxTxs, cells' \in Snapshot,
           snapshots' = Append(snapshots, cells'),
           \A op \in DOMAIN cells' :
              \/ op \in DOMAIN cells /\ cells'[op] = cells[op]
              \/ op \in Chain!OutPoint /\ op[1] = height + 1
    PROVE  /\ \A n \in 1..(height + 1) : snapshots'[n] = snapshots[n]
           /\ snapshots'[height + 2] = cells'
           /\ \A op \in DOMAIN History : op \in DOMAIN History' /\ History'[op] = History[op]
           /\ \A op \in DOMAIN History' : op \notin DOMAIN History =>
                 op[1] = height + 1 /\ op \in DOMAIN cells' /\ History'[op] = cells'[op]
           /\ \A op \in DOMAIN cells' : op \in DOMAIN History' /\ History'[op] = cells'[op]
<1>1. /\ snapshots \in Seq(Snapshot) /\ Len(snapshots) = height + 1 /\ height \in 0..MaxTxs
      /\ cells = snapshots[height + 1]
    BY DEF IInv, TypeInv
<1>2. /\ \A n \in 1..(height + 1) : snapshots'[n] = snapshots[n]
      /\ snapshots'[height + 2] = cells'
    BY <1>1, AppendProperties
<1>3. ASSUME NEW op \in DOMAIN History
      PROVE  op \in DOMAIN History' /\ History'[op] = History[op]
  <2>1. op \in Chain!OutPoint /\ op[1] =< height /\ op \in DOMAIN snapshots[op[1] + 1]
      BY DEF History, Seen
  <2>2. op[1] \in Nat /\ op[1] + 1 \in 1..(height + 1)
      BY <1>1, <2>1, ChainConstants
  <2>3. snapshots'[op[1] + 1] = snapshots[op[1] + 1]
      BY <1>2, <2>2
  <2>4. op \in Seen'
      BY <1>1, <2>1, <2>2, <2>3 DEF Seen
  <2> QED
      BY <2>1, <2>3, <2>4 DEF History, Seen, CellRead
<1>4. ASSUME NEW op \in DOMAIN History', op \notin DOMAIN History
      PROVE  op[1] = height + 1 /\ op \in DOMAIN cells' /\ History'[op] = cells'[op]
  <2>1. /\ op \in Chain!OutPoint /\ op[1] =< height + 1 /\ op \in DOMAIN snapshots'[op[1] + 1]
        /\ History'[op] = snapshots'[op[1] + 1][op]
      BY DEF History, Seen, CellRead
  <2>2. op[1] \in Nat
      BY <2>1, ChainConstants
  <2>3. CASE op[1] =< height
    <3>1. snapshots'[op[1] + 1] = snapshots[op[1] + 1]
        BY <1>1, <1>2, <2>2, <2>3
    <3> QED
        BY <1>4, <2>1, <2>3, <3>1 DEF History, Seen
  <2>4. CASE op[1] = height + 1
    <3>1. snapshots'[op[1] + 1] = cells'
        BY <1>1, <1>2, <2>4
    <3> QED
        BY <2>1, <2>4, <3>1
  <2> QED
      BY <1>1, <2>1, <2>2, <2>3, <2>4
<1>5. ASSUME NEW op \in DOMAIN cells'
      PROVE  op \in DOMAIN History' /\ History'[op] = cells'[op]
  <2>1. CASE op \in DOMAIN cells /\ cells'[op] = cells[op]
      BY <1>3, <2>1, LiveIsRead DEF IInv
  <2>2. CASE op \in Chain!OutPoint /\ op[1] = height + 1
    <3>1. snapshots'[op[1] + 1] = cells'
        BY <1>1, <1>2, <2>2
    <3>2. op \in Seen'
        BY <1>1, <2>2, <3>1 DEF Seen
    <3> QED
        BY <3>1, <3>2 DEF History, CellRead
  <2> QED
      BY <2>1, <2>2
<1> QED
    BY <1>2, <1>3, <1>4, <1>5

LEMMA CommitIsFine ==
    ASSUME IInv, Commit
    PROVE  IInv'
<1>1. PICK tx \in mempool :
          /\ InputsLive(tx)
          /\ Chain!Apply(tx.inputs, tx.types, tx.locks, tx.data)
          /\ committedAt' = [t \in DOMAIN committedAt \cup {tx} |->
                                IF t \in DOMAIN committedAt THEN committedAt[t] ELSE height']
          /\ mempool' = {t \in mempool : Range(t.inputs) \cap Range(tx.inputs) = {}}
    BY DEF Commit
<1>2. height < MaxTxs /\ snapshots' = Append(snapshots, cells') /\ UNCHANGED <<indexed, job>>
    BY DEF Commit
<1>3. /\ height' = height + 1 /\ cells' \in Snapshot
      /\ \A op \in DOMAIN cells' :
            \/ op \in DOMAIN cells /\ cells'[op] = cells[op]
            \/ /\ op \in Chain!OutPoint /\ op[1] = height + 1 /\ op[2] \in DOMAIN tx.types
               /\ cells'[op].type = tx.types[op[2]]
               /\ cells'[op].type # Plain => cells'[op].data = tx.data[0]
    BY <1>1, <1>2, CommitAdds
<1>4. /\ \A n \in 1..(height + 1) : snapshots'[n] = snapshots[n]
      /\ snapshots'[height + 2] = cells'
      /\ \A op \in DOMAIN History : op \in DOMAIN History' /\ History'[op] = History[op]
      /\ \A op \in DOMAIN History' : op \notin DOMAIN History =>
            op[1] = height + 1 /\ op \in DOMAIN cells' /\ History'[op] = cells'[op]
      /\ \A op \in DOMAIN cells' : op \in DOMAIN History' /\ History'[op] = cells'[op]
    BY <1>2, <1>3, HistoryGrows
<1>5. /\ snapshots \in Seq(Snapshot) /\ Len(snapshots) = height + 1 /\ height \in 0..MaxTxs
      /\ cells = snapshots[height + 1] /\ indexed \in 0..height
      /\ mempool \subseteq Tx /\ DOMAIN committedAt \subseteq Tx
      /\ committedAt \in [DOMAIN committedAt -> 1..height] /\ job \in [Sessions -> Job]
    BY DEF IInv, TypeInv
<1>6. tx \in Tx /\ IsPrepared(tx, History) /\ tx.types[0] \in Chain!Identity
    BY PreparedIsTyped DEF IInv, TxInv
<1>7. TypeInv'
  <2>1. height' \in 0..MaxTxs /\ indexed' \in 0..height'
      BY <1>2, <1>3, <1>5, SdkAssumption
  <2>2. snapshots' \in Seq(Snapshot) /\ Len(snapshots') = height' + 1
      BY <1>2, <1>3, <1>5, AppendProperties
  <2>3. cells' = snapshots'[height' + 1]
      BY <1>3, <1>4, <1>5
  <2>4. mempool' \subseteq Tx /\ DOMAIN committedAt' \subseteq Tx
      BY <1>1, <1>5, <1>6
  <2>5. committedAt' \in [DOMAIN committedAt' -> 1..height']
      BY <1>1, <1>3, <1>5
  <2> QED
      BY <1>2, <1>5, <2>1, <2>2, <2>3, <2>4, <2>5 DEF TypeInv
<1>8. HistoryInv'
  <2> SUFFICES ASSUME NEW n \in 1..(height' + 1), NEW op \in DOMAIN snapshots'[n]
               PROVE  /\ op[1] < n /\ op \in DOMAIN History' /\ snapshots'[n][op] = History'[op]
                      /\ snapshots'[n][op].type # Plain => snapshots'[n][op].data \in Chain!Record
      BY DEF HistoryInv
  <2>1. CASE n \in 1..(height + 1)
      BY <1>4, <2>1 DEF IInv, HistoryInv
  <2>2. CASE n = height + 2
    <3>1. snapshots'[n] = cells' /\ op \in DOMAIN cells'
        BY <1>4, <2>2
    <3>2. CASE op \in DOMAIN cells /\ cells'[op] = cells[op]
      <4>1. op[1] < height + 1 /\ op[1] \in Nat
            /\ (cells[op].type # Plain => cells[op].data \in Chain!Record)
          BY <1>5, <3>2, CellsAreTyped, ChainConstants DEF IInv, HistoryInv
      <4> QED
          BY <1>4, <1>5, <2>2, <3>1, <3>2, <4>1
    <3>3. CASE /\ op \in Chain!OutPoint /\ op[1] = height + 1
               /\ cells'[op].type # Plain => cells'[op].data = tx.data[0]
      <4>1. tx.data[0] \in Chain!Record
          BY <1>6 DEF Tx
      <4> QED
          BY <1>4, <1>5, <2>2, <3>1, <3>3, <4>1
    <3> QED
        BY <1>3, <3>1, <3>2, <3>3
  <2> QED
      BY <1>3, <1>5, <2>1, <2>2
<1>9. TxInv'
  <2>1. ASSUME NEW t \in mempool' PROVE IsPrepared(t, History')
      BY <1>1, <1>4, PreparedStays DEF IInv, TxInv
  <2>2. ASSUME NEW t \in DOMAIN committedAt
        PROVE  /\ committedAt'[t] = committedAt[t] /\ IsPrepared(t, History')
               /\ Made(t, committedAt[t], History')
               /\ \A i \in DOMAIN t.inputs : t.inputs[i] \in DOMAIN snapshots'[committedAt[t]]
    <3>1. committedAt[t] \in 1..height /\ committedAt'[t] = committedAt[t]
        BY <1>1, <1>5
    <3>2. IsPrepared(t, History')
        BY <1>4, PreparedStays DEF IInv, TxInv
    <3>3. Made(t, committedAt[t], History')
        BY <1>4, <1>5, <3>1 DEF IInv, TxInv, Made
    <3>4. snapshots'[committedAt[t]] = snapshots[committedAt[t]]
        BY <1>4, <1>5, <3>1
    <3> QED
        BY <3>1, <3>2, <3>3, <3>4 DEF IInv, TxInv
  <2>3. ASSUME tx \notin DOMAIN committedAt
        PROVE  /\ committedAt'[tx] = height + 1 /\ IsPrepared(tx, History')
               /\ Made(tx, height + 1, History')
               /\ \A i \in DOMAIN tx.inputs : tx.inputs[i] \in DOMAIN snapshots'[height + 1]
    <3>1. committedAt'[tx] = height + 1
        BY <1>1, <1>3, <2>3
    <3>2. IsPrepared(tx, History')
        BY <1>4, <1>6, PreparedStays
    <3>3. Made(tx, height + 1, History')
      <4> SUFFICES ASSUME NEW op \in DOMAIN History', op[1] = height + 1
                   PROVE  /\ op[2] \in DOMAIN tx.types /\ History'[op].type = tx.types[op[2]]
                          /\ op[2] = 0 => History'[op].data = tx.data[0]
          BY DEF Made
      <4>1. op \notin DOMAIN History
          BY <1>5 DEF History, Seen
      <4>2. op \in DOMAIN cells' /\ History'[op] = cells'[op]
          BY <1>4, <4>1
      <4>3. op \notin DOMAIN cells
          BY <4>1, LiveIsRead DEF IInv
      <4> QED
          BY <1>3, <1>6, <4>2, <4>3, ChainConstants
    <3>4. \A i \in DOMAIN tx.inputs : tx.inputs[i] \in DOMAIN snapshots'[height + 1]
        BY <1>1, <1>4, <1>5 DEF InputsLive, Range
    <3> QED
        BY <3>1, <3>2, <3>3, <3>4
  <2>4. ASSUME NEW t \in DOMAIN committedAt'
        PROVE  /\ IsPrepared(t, History') /\ Made(t, committedAt'[t], History')
               /\ \A i \in DOMAIN t.inputs : t.inputs[i] \in DOMAIN snapshots'[committedAt'[t]]
      BY <1>1, <2>2, <2>3
  <2> QED
      BY <2>1, <2>4 DEF TxInv
<1>10. JobsInv'
  <2>1. \A t \in DOMAIN committedAt : t \in DOMAIN committedAt' /\ committedAt'[t] = committedAt[t]
      BY <1>1
  <2>2. ASSUME NEW s \in Sessions PROVE JobInv(job[s], committedAt', History')
      BY <1>4, <2>1, JobIsTyped, JobStays
  <2> QED
      BY <1>2, <2>2 DEF JobsInv
<1> QED
    BY <1>7, <1>8, <1>9, <1>10 DEF IInv

-----------------------------------------------------------------------------
(* The theorems *)

LEMMA InitIInv == Init => IInv
<1> SUFFICES ASSUME Init PROVE IInv
    OBVIOUS
<1> DEFINE genesis == {0} \X Chain!OutputIndex
<1>1. /\ cells = [op \in genesis |-> [type |-> Plain, lock |-> GenesisLock[op[2]], data |-> NoData]]
      /\ height = 0 /\ snapshots = <<cells>> /\ indexed = 0 /\ mempool = {}
      /\ committedAt = [tx \in {} |-> 0] /\ job = [s \in Sessions |-> NoJob]
    BY DEF Init
<1>2. genesis \in SUBSET Chain!OutPoint
    BY ChainConstants, SdkAssumption
<1>3. \A op \in genesis : cells[op] \in Chain!Cell /\ cells[op].type = Plain
  <2> SUFFICES ASSUME NEW op \in genesis PROVE cells[op] \in Chain!Cell /\ cells[op].type = Plain
      OBVIOUS
  <2>1. GenesisLock[op[2]] \in Owners
      BY SdkAssumption
  <2> QED
      BY <1>1, <2>1 DEF Chain!Cell
<1>4. cells \in [genesis -> Chain!Cell]
    BY <1>1, <1>3
<1> HIDE DEF genesis
<1>5. DOMAIN cells = genesis /\ cells \in Snapshot
    BY <1>2, <1>4 DEF Snapshot
<1>6. snapshots \in Seq(Snapshot) /\ Len(snapshots) = 1 /\ snapshots[1] = cells
    BY <1>1, <1>5
<1>7. TypeInv
    BY <1>1, <1>6, NoJobIsTyped, SdkAssumption DEF TypeInv
<1>8. HistoryInv
  <2> SUFFICES ASSUME NEW n \in 1..(height + 1), NEW op \in DOMAIN snapshots[n]
               PROVE  /\ op[1] < n /\ op \in DOMAIN History /\ snapshots[n][op] = History[op]
                      /\ snapshots[n][op].type # Plain => snapshots[n][op].data \in Chain!Record
      BY DEF HistoryInv
  <2>1. n = 1 /\ snapshots[n] = cells /\ op \in genesis
      BY <1>1, <1>5, <1>6
  <2>2. op[1] = 0 /\ op \in Chain!OutPoint
      BY <1>2, <2>1 DEF genesis
  <2>3. op \in Seen
      BY <1>1, <2>1, <2>2 DEF Seen
  <2> QED
      BY <1>3, <2>1, <2>2, <2>3 DEF History, CellRead
<1>9. TxInv
    BY <1>1 DEF TxInv
<1>10. JobInv(NoJob, committedAt, History)
    BY NoJobIsTyped DEF JobInv
<1>11. JobsInv
    BY <1>1, <1>10 DEF JobsInv
<1> QED
    BY <1>7, <1>8, <1>9, <1>11 DEF IInv

LEMMA StutterIsFine ==
    ASSUME IInv, UNCHANGED vars
    PROVE  IInv'
<1>1. UNCHANGED <<History, height, snapshots, indexed, mempool, committedAt, job, cells>>
    BY DEF vars, chainVars, History, Seen, CellRead
<1> QED
    BY <1>1 DEF IInv, TypeInv, HistoryInv, TxInv, JobsInv

LEMMA NextIInv == IInv /\ [Next]_vars => IInv'
<1> SUFFICES ASSUME IInv, [Next]_vars PROVE IInv'
    OBVIOUS
<1>1. ASSUME NEW s \in Sessions,
             \/ prepareCreate(s) \/ prepareSuccessorOf(s) \/ requireCurrentCell(s)
             \/ LookupFails(s) \/ prepareSuccessor(s) \/ sendTransaction(s) \/ Wait(s)
      PROVE  IInv'
    BY <1>1, CreateIsFine, SuccessorOfIsFine, LookupIsFine, SuccessorIsFine, SendIsFine,
        WaitIsFine, PollEndsIsFine DEF Wait
<1>2. CASE Commit
    BY <1>2, CommitIsFine
<1>3. CASE IndexerAdvances
    BY <1>3, IndexerIsFine
<1>4. CASE UNCHANGED vars
    BY <1>4, StutterIsFine
<1> QED
    BY <1>1, <1>2, <1>3, <1>4 DEF Next

LEMMA Invariance == Spec => []IInv
BY InitIInv, NextIInv, PTL DEF Spec

\* For any sessions, owners, patches and clocks, what the SDK prepares the type
\* script accepts while its inputs are live (lifecycle.ts:133-262).
THEOREM PreparedIsVerified == Spec => []PreparedVerifies
<1>1. IInv => PreparedVerifies
    BY PreparedIsAccepted DEF IInv, JobsInv, JobInv, PreparedVerifies
<1> QED
    BY <1>1, Invariance, PTL

\* For the same, a committed successor replaced the very record its session had
\* read, however many sessions write at a time (lifecycle.ts:182-204, 337-404).
THEOREM UpdatesAreNotLost == Spec => []NoLostUpdate
<1>1. ASSUME IInv PROVE NoLostUpdate
  <2> SUFFICES ASSUME NEW tx \in DOMAIN committedAt, tx.read # NoData
               PROVE  \E i \in DOMAIN tx.inputs :
                         LET before == snapshots[committedAt[tx]][tx.inputs[i]]
                         IN  before.type = tx.types[0] /\ before.data = tx.read
      BY DEF NoLostUpdate
  <2>1. /\ IsPrepared(tx, History) /\ committedAt[tx] \in 1..(height + 1)
        /\ \A i \in DOMAIN tx.inputs : tx.inputs[i] \in DOMAIN snapshots[committedAt[tx]]
      BY <1>1 DEF IInv, TypeInv, TxInv
  <2>2. IsSuccession(tx, History)
    <3>1. IsCreation(tx, History) => tx.read = NoData
        BY DEF IsCreation, Transaction
    <3> QED
        BY <2>1, <3>1 DEF IsPrepared
  <2>3. PICK op \in Chain!OutPoint :
            /\ 1 \in DOMAIN tx.inputs /\ tx.inputs[1] = op
            /\ tx.types[0] = History[op].type /\ tx.read = History[op].data
      BY <2>2, TransactionParts DEF IsSuccession
  <2>4. snapshots[committedAt[tx]][op] = History[op]
      BY <1>1, <2>1, <2>3, CellsAreTyped
  <2> QED
      BY <2>3, <2>4
<1> QED
    BY <1>1, Invariance, PTL

\* For the same, the receiver that waitForIndexedTransaction returns is the
\* output of the transaction waited for (lifecycle.ts:297-308).
THEOREM ReturnIsTheOwnOutput == Spec => []ReturnedIsOwn
<1>1. ASSUME IInv PROVE ReturnedIsOwn
  <2> SUFFICES ASSUME NEW s \in Sessions, job[s].result = "returned"
               PROVE  LET op == job[s].found[1]
                      IN  /\ job[s].tx \in DOMAIN committedAt
                          /\ op = <<committedAt[job[s].tx], 0>>
                          /\ CellRead(op).data = job[s].tx.data[0]
      BY DEF ReturnedIsOwn
  <2>1. job[s] \in Job /\ JobInv(job[s], committedAt, History)
      BY <1>1, JobIsTyped
  <2>2. IsOwn(job[s], committedAt, History)
      BY <2>1 DEF JobInv
  <2>3. job[s].found[1] \in DOMAIN History
      BY <2>1, <2>2 DEF JobInv, IsOwn, Job
  <2>4. History[job[s].found[1]] = CellRead(job[s].found[1])
      BY <2>3 DEF History
  <2> QED
      BY <2>2, <2>4 DEF IsOwn
<1> QED
    BY <1>1, Invariance, PTL
=============================================================================

------------------------- MODULE RegistryDiscovery_proofs -------------------------
(***************************************************************************)
(* Proofs about RegistryChain, for every set of owners, labels and records *)
(* and every bound.  The argument: a registry output is either a creation, *)
(* whose identity is derived from an input that is spent by the same       *)
(* transaction, or the one successor of the one cell with its identity.    *)
(*                                                                         *)
(* Proofs about RegistryDiscovery, for every size of page, every limit and *)
(* either order of the keys.  The argument: the keys are totally ordered,  *)
(* so a page is an initial part of the cells after the cursor, and a cell  *)
(* that stays live is either read or still ahead of the cursor.            *)
(***************************************************************************)
EXTENDS RegistryDiscovery, FiniteSetTheorems, FunctionTheorems, SequenceTheorems, TLAPS

\* The inductive invariant.  None of its parts is inductive alone: a creation
\* keeps OneLiveCellPerIdentity because AnchorIsSpent, a successor keeps
\* AnchorIsSpent because the identity's cell is live, and its records are
\* comparable because LiveRecordsValidate.
IInv ==
    /\ TypeOK
    /\ OneLiveCellPerIdentity
    /\ AnchorIsSpent
    /\ LiveRecordsValidate
    /\ SequenceIsPaced

\* What the type script has established about one registry output.
Created(inputs, types, data, o) ==
    /\ GroupInput(inputs, types[o]) = {}
    /\ types[o] = <<inputs[1], o>>
    /\ validate_creation(data[o])

Succeeds(inputs, types, data, o, i) ==
    /\ i \in DOMAIN inputs
    /\ GroupInput(inputs, types[o]) = {i}
    /\ validate_successor(data[o], cells[inputs[i]].data)

\* An accepted transaction, before the choice of locks.
Accepted(inputs, types, data) ==
    /\ inputs \in InputSeqs
    /\ types \in TypeMaps
    /\ ShapeAccepted(inputs, types)
    /\ data \in [RegistryOutputs(types) -> Payloads]
    /\ RecordsAccepted(inputs, types, data)

\* One committed transaction, with its choices named.
Transaction(inputs, types, data, locks) ==
    /\ Accepted(inputs, types, data)
    /\ locks \in [RegistryOutputs(types) -> Owners]
    /\ height < MaxTxs
    /\ Apply(inputs, types, locks, data)

-----------------------------------------------------------------------------
(* Lemmas about one transaction. *)

\* The first input exists, and every input is a live cell.
LEMMA InputsAreLive ==
    ASSUME NEW inputs \in InputSeqs
    PROVE  /\ 1 \in DOMAIN inputs
           /\ \A i \in DOMAIN inputs : inputs[i] \in DOMAIN cells
  <1>1. PICK n \in 1..MaxInputs : inputs \in [1..n -> DOMAIN cells]
    BY DEF InputSeqs
  <1> QED BY <1>1, BoundsAssumption

\* Output indices are within the transaction's bound.
LEMMA TypesAreTyped ==
    ASSUME NEW types \in TypeMaps
    PROVE  /\ DOMAIN types \subseteq OutputIndex
           /\ \A o \in DOMAIN types : types[o] \in Identity \cup {Plain}
  <1>1. PICK n \in 1..MaxOutputs : types \in [0..(n - 1) -> Identity \cup {Plain}]
    BY DEF TypeMaps
  <1> QED BY <1>1, BoundsAssumption DEF OutputIndex

\* A singleton's chosen element is its element.
LEMMA TheSingle == ASSUME NEW x PROVE The({x}) = x
  BY DEF The

\* Every registry output is its group's only output, carries a valid record
\* and is a creation or the successor of the group's one input.
LEMMA RegistryOutput ==
    ASSUME NEW inputs, NEW types, NEW data, Accepted(inputs, types, data),
           NEW o \in DOMAIN types, types[o] # Plain
    PROVE  /\ GroupOutput(types, types[o]) = {o}
           /\ data[o] \in Record
           /\ validate(data[o])
           /\ \/ Created(inputs, types, data, o)
              \/ \E i \in DOMAIN inputs : Succeeds(inputs, types, data, o, i)
  <1> DEFINE id == types[o]
  <1>1. id \in Identity /\ o \in GroupOutput(types, id)
    BY TypesAreTyped DEF Accepted, GroupOutput
  <1>2. id \in Groups(inputs, types)
    BY <1>1 DEF Groups
  <1>3. /\ check_type_id(inputs, types, id)
        /\ IsCreation(inputs, types, id) \/ IsTransition(inputs, types, id)
    BY <1>2 DEF Accepted, ShapeAccepted
  <1>4. GroupOutput(types, id) = {o}
    BY <1>1, <1>3 DEF IsCreation, IsTransition, Single
  <1>5. The(GroupOutput(types, id)) = o
    BY <1>4, TheSingle
  <1>6. data[o] \in Record
    BY PayloadsAssumption DEF Accepted, RegistryOutputs
  <1>7. CASE IsCreation(inputs, types, id)
    <2>1. validate_creation(data[o])
      BY <1>2, <1>5, <1>7 DEF Accepted, RecordsAccepted
    <2>2. Created(inputs, types, data, o)
      BY <1>1, <1>3, <1>7, <2>1 DEF check_type_id, IsCreation, Created
    <2> QED BY <1>4, <1>6, <2>1, <2>2 DEF validate_creation
  <1>8. CASE ~IsCreation(inputs, types, id)
    <2>1. PICK i : GroupInput(inputs, id) = {i}
      BY <1>3, <1>8 DEF IsTransition, Single
    <2>2. i \in DOMAIN inputs
      BY <2>1 DEF GroupInput
    <2>3. validate_successor(data[o], cells[inputs[i]].data)
      BY <1>2, <1>5, <1>8, <2>1, TheSingle DEF Accepted, RecordsAccepted
    <2> QED BY <1>4, <1>6, <2>1, <2>2, <2>3 DEF validate_successor, Succeeds
  <1> QED BY <1>7, <1>8

\* A registry cell is spent only by the one output that succeeds it.
LEMMA SpentCell ==
    ASSUME TypeOK, NEW inputs, NEW types, NEW data, Accepted(inputs, types, data),
           NEW i \in DOMAIN inputs, cells[inputs[i]].type # Plain
    PROVE  \E o \in DOMAIN types :
               /\ types[o] = cells[inputs[i]].type
               /\ Succeeds(inputs, types, data, o, i)
  <1> DEFINE id == cells[inputs[i]].type
  <1>1. inputs[i] \in DOMAIN cells
    BY InputsAreLive DEF Accepted
  <1>2. id \in Identity
    BY <1>1 DEF TypeOK, Cell
  <1>3. i \in GroupInput(inputs, id)
    BY DEF GroupInput
  <1>4. IsTransition(inputs, types, id)
    BY <1>2, <1>3 DEF Groups, Accepted, ShapeAccepted, IsCreation
  <1>5. PICK o : GroupOutput(types, id) = {o}
    BY <1>4 DEF IsTransition, Single
  <1>6. o \in DOMAIN types /\ types[o] = id
    BY <1>5 DEF GroupOutput
  <1>7. GroupInput(inputs, types[o]) # {}
    BY <1>3, <1>6
  <1>8. types[o] # Plain
    BY <1>6
  <1>9. PICK j \in DOMAIN inputs : Succeeds(inputs, types, data, o, j)
    BY <1>6, <1>7, <1>8, RegistryOutput DEF Created
  <1>10. j = i
    BY <1>3, <1>6, <1>9 DEF Succeeds
  <1> QED BY <1>6, <1>9, <1>10

\* The live cells after a transaction: the ones it does not spend, unchanged,
\* and one new cell for each output.
Kept(inputs) == DOMAIN cells \ Range(inputs)

After(inputs, types, data, locks) ==
    /\ DOMAIN cells' = Kept(inputs) \cup ({height + 1} \X DOMAIN types)
    /\ \A p \in Kept(inputs) : cells'[p] = cells[p] /\ p[1] \in 0..height
    /\ \A o \in DOMAIN types :
           /\ <<height + 1, o>> \notin DOMAIN cells
           /\ cells'[<<height + 1, o>>] = NewCell(inputs, types, locks, data, o)

LEMMA CellsAfter ==
    ASSUME TypeOK, NEW inputs, NEW types, NEW data, NEW locks,
           Transaction(inputs, types, data, locks)
    PROVE  After(inputs, types, data, locks)
  <1>1. \A p \in DOMAIN cells : p \in (0..height) \X OutputIndex
    BY DEF TypeOK
  <1>2. \A p \in DOMAIN cells : p[1] \in 0..height
    BY <1>1
  <1>3. \A o \in DOMAIN types : <<height + 1, o>> \notin DOMAIN cells
    BY <1>1 DEF TypeOK
  <1>4. Apply(inputs, types, locks, data)
    BY DEF Transaction
  <1>5. \A p \in DOMAIN cells \ Range(inputs) : cells'[p] = cells[p]
    BY <1>4 DEF Apply
  <1>6. \A o \in DOMAIN types :
            cells'[<<height + 1, o>>] = NewCell(inputs, types, locks, data, o)
    <2> TAKE o \in DOMAIN types
    <2>1. <<height + 1, o>> \in {height + 1} \X DOMAIN types
      OBVIOUS
    <2> QED BY <1>3, <1>4, <2>1 DEF Apply
  <1>7. DOMAIN cells' = (DOMAIN cells \ Range(inputs)) \cup ({height + 1} \X DOMAIN types)
    BY <1>4 DEF Apply
  <1> QED BY <1>2, <1>3, <1>5, <1>6, <1>7 DEF After, Kept

-----------------------------------------------------------------------------
(* The invariant *)

THEOREM InitIInv == Init => IInv
  <1> SUFFICES ASSUME Init PROVE IInv
    OBVIOUS
  <1>1. PICK lock \in Owners :
            cells = [op \in {0} \X OutputIndex |->
                        [type |-> Plain, lock |-> lock, data |-> NoData]]
    BY DEF Init
  <1>2. height = 0 /\ DOMAIN cells = {0} \X OutputIndex
    BY <1>1 DEF Init
  <1>3. \A p \in DOMAIN cells : cells[p] \in Cell /\ cells[p].type = Plain
    BY <1>1 DEF Cell
  <1>4. TypeOK
    BY <1>1, <1>2, <1>3, BoundsAssumption DEF TypeOK
  <1> QED BY <1>3, <1>4 DEF IInv, OneLiveCellPerIdentity, AnchorIsSpent,
            LiveRecordsValidate, SequenceIsPaced

\* What a new registry cell is, by its origin.
LEMMA NewRegistryCell ==
    ASSUME TypeOK, NEW inputs, NEW types, NEW data, NEW locks,
           Transaction(inputs, types, data, locks),
           NEW o \in DOMAIN types, types[o] # Plain
    PROVE  /\ <<height + 1, o>> \in DOMAIN cells'
           /\ cells'[<<height + 1, o>>] = [type |-> types[o], lock |-> locks[o], data |-> data[o]]
           /\ cells'[<<height + 1, o>>] \in Cell
  <1> After(inputs, types, data, locks)
    BY CellsAfter
  <1>1. types[o] \in Identity /\ locks[o] \in Owners
    BY TypesAreTyped DEF Transaction, Accepted, RegistryOutputs
  <1>2. data[o] \in Record
    BY RegistryOutput DEF Transaction
  <1>3. /\ <<height + 1, o>> \in DOMAIN cells'
        /\ cells'[<<height + 1, o>>] = NewCell(inputs, types, locks, data, o)
    BY DEF After
  <1> QED BY <1>1, <1>2, <1>3 DEF NewCell, Cell

\* A live cell after the transaction is an old one, or an output of it.
LEMMA LiveAfter ==
    ASSUME TypeOK, NEW inputs, NEW types, NEW data, NEW locks,
           Transaction(inputs, types, data, locks), NEW p \in DOMAIN cells'
    PROVE  \/ /\ p \in Kept(inputs)
              /\ cells'[p] = cells[p]
              /\ p[1] \in 0..height
           \/ \E o \in DOMAIN types :
                  /\ p = <<height + 1, o>>
                  /\ cells'[p].type = types[o]
  <1> After(inputs, types, data, locks)
    BY CellsAfter
  <1>1. p \in Kept(inputs) \/ \E o \in DOMAIN types : p = <<height + 1, o>>
    <2>1. p \in Kept(inputs) \/ p \in {height + 1} \X DOMAIN types
      BY DEF After
    <2> QED BY <2>1
  <1>2. CASE p \in Kept(inputs)
    BY <1>2 DEF After
  <1>3. ASSUME NEW o \in DOMAIN types, p = <<height + 1, o>>
        PROVE  cells'[p].type = types[o]
    <2>1. cells'[p] = NewCell(inputs, types, locks, data, o)
      BY <1>3 DEF After
    <2> QED BY <2>1 DEF NewCell
  <1> QED BY <1>1, <1>2, <1>3

LEMMA TypeStep ==
    ASSUME TypeOK, NEW inputs, NEW types, NEW data, NEW locks,
           Transaction(inputs, types, data, locks)
    PROVE  TypeOK'
  <1> After(inputs, types, data, locks)
    BY CellsAfter
  <1>1. height \in Nat /\ height' = height + 1 /\ height' \in 0..MaxTxs
    BY BoundsAssumption DEF TypeOK, Transaction, Apply
  <1>2. DOMAIN cells' \subseteq (0..(height + 1)) \X OutputIndex
    <2>1. DOMAIN types \subseteq OutputIndex
      BY TypesAreTyped DEF Transaction, Accepted
    <2>2. Kept(inputs) \subseteq (0..(height + 1)) \X OutputIndex
      BY <1>1 DEF Kept, TypeOK
    <2>3. {height + 1} \X DOMAIN types \subseteq (0..(height + 1)) \X OutputIndex
      BY <1>1, <2>1
    <2> QED BY <2>2, <2>3 DEF After
  <1>3. \A o \in DOMAIN types : NewCell(inputs, types, locks, data, o) \in Cell
    <2> TAKE o \in DOMAIN types
    <2>1. CASE types[o] = Plain
      <3>1. inputs[1] \in DOMAIN cells
        BY InputsAreLive DEF Transaction, Accepted
      <3>2. cells[inputs[1]].lock \in Owners
        BY <3>1 DEF TypeOK, Cell
      <3> QED BY <2>1, <3>2 DEF NewCell, Cell
    <2>2. CASE types[o] # Plain
      <3>1. cells'[<<height + 1, o>>] = NewCell(inputs, types, locks, data, o)
        BY DEF After
      <3>2. cells'[<<height + 1, o>>] \in Cell
        BY <2>2, NewRegistryCell
      <3> QED BY <3>1, <3>2
    <2> QED BY <2>1, <2>2
  <1>4. \A p \in DOMAIN cells' : cells'[p] \in Cell
    <2> TAKE p \in DOMAIN cells'
    <2>1. CASE p \in Kept(inputs)
      BY <2>1 DEF After, Kept, TypeOK
    <2>2. CASE \E o \in DOMAIN types : p = <<height + 1, o>>
      BY <2>2, <1>3 DEF After
    <2>3. p \in Kept(inputs) \/ p \in {height + 1} \X DOMAIN types
      BY DEF After
    <2> QED BY <2>1, <2>2, <2>3
  <1>5. cells' \in [DOMAIN cells' -> Cell]
    BY <1>4 DEF Transaction, Apply
  <1> QED BY <1>1, <1>2, <1>5 DEF TypeOK

\* No two live cells share an identity after an accepted transaction.
LEMMA OneLiveCellStep ==
    ASSUME IInv, NEW inputs, NEW types, NEW data, NEW locks,
           Transaction(inputs, types, data, locks)
    PROVE  OneLiveCellPerIdentity'
  <1> TypeOK /\ OneLiveCellPerIdentity /\ AnchorIsSpent
    BY DEF IInv
  <1> Accepted(inputs, types, data)
    BY DEF Transaction
  <1> SUFFICES ASSUME NEW p \in DOMAIN cells', NEW q \in DOMAIN cells',
                      cells'[p].type = cells'[q].type, cells'[p].type # Plain
               PROVE  p = q
    BY DEF OneLiveCellPerIdentity
  <1> DEFINE Old(r) == r \in Kept(inputs) /\ cells'[r] = cells[r]
             New(r) == \E o \in DOMAIN types : r = <<height + 1, o>> /\ cells'[r].type = types[o]
  <1>1. Old(p) \/ New(p)
    BY LiveAfter
  <1>2. Old(q) \/ New(q)
    BY LiveAfter
  <1>3. CASE Old(p) /\ Old(q)
    BY <1>3 DEF OneLiveCellPerIdentity, Kept
  <1>4. CASE New(p) /\ New(q)
    <2>1. PICK o \in DOMAIN types : p = <<height + 1, o>> /\ cells'[p].type = types[o]
      BY <1>4
    <2>2. PICK u \in DOMAIN types : q = <<height + 1, u>> /\ cells'[q].type = types[u]
      BY <1>4
    <2>3. GroupOutput(types, types[o]) = {o}
      BY <2>1, RegistryOutput
    <2>4. u \in GroupOutput(types, types[o])
      BY <2>1, <2>2 DEF GroupOutput
    <2> QED BY <2>1, <2>2, <2>3, <2>4
  \* An old cell and an output of the transaction: a creation contradicts
  \* AnchorIsSpent, a successor would have spent the old cell.
  <1>5. ASSUME NEW r \in DOMAIN cells', NEW s \in DOMAIN cells', Old(r), New(s),
               cells'[r].type = cells'[s].type, cells'[r].type # Plain
        PROVE  FALSE
    <2>1. PICK o \in DOMAIN types : s = <<height + 1, o>> /\ cells'[s].type = types[o]
      BY <1>5
    <2>2. r \in DOMAIN cells /\ r \notin Range(inputs) /\ cells[r].type = types[o] /\ types[o] # Plain
      BY <1>5, <2>1 DEF Kept
    <2>3. CASE Created(inputs, types, data, o)
      <3>1. inputs[1] \in DOMAIN cells
        BY InputsAreLive DEF Accepted
      <3>2. cells[r].type[1] = inputs[1]
        BY <2>2, <2>3 DEF Created
      <3> QED BY <2>2, <3>1, <3>2 DEF AnchorIsSpent
    <2>4. ASSUME NEW i \in DOMAIN inputs, Succeeds(inputs, types, data, o, i)
          PROVE  FALSE
      <3>1. cells[inputs[i]].type = types[o]
        BY <2>4 DEF Succeeds, GroupInput
      <3>2. inputs[i] \in DOMAIN cells
        BY InputsAreLive DEF Accepted
      <3>3. r = inputs[i]
        BY <2>2, <3>1, <3>2 DEF OneLiveCellPerIdentity
      <3> QED BY <2>2, <3>3 DEF Range
    <2> QED BY <2>2, <2>3, <2>4, RegistryOutput
  <1> QED BY <1>1, <1>2, <1>3, <1>4, <1>5

\* What AnchorIsSpent, LiveRecordsValidate and SequenceIsPaced say of one cell.
GoodCell(p) ==
    /\ cells[p].type[1] \notin DOMAIN cells
    /\ cells[p].type[1][1] < p[1]
    /\ cells[p].data \in Record
    /\ validate(cells[p].data)
    /\ cells[p].data.sequence < p[1] - cells[p].type[1][1]

LEMMA GoodCellsStep ==
    ASSUME IInv, NEW inputs, NEW types, NEW data, NEW locks,
           Transaction(inputs, types, data, locks),
           NEW p \in DOMAIN cells', cells'[p].type # Plain
    PROVE  GoodCell(p)'
  <1> TypeOK /\ OneLiveCellPerIdentity
    BY DEF IInv
  <1>1. \A q \in DOMAIN cells : cells[q].type # Plain => GoodCell(q)
    BY DEF IInv, AnchorIsSpent, LiveRecordsValidate, SequenceIsPaced, GoodCell
  <1> Accepted(inputs, types, data)
    BY DEF Transaction
  <1>2. height \in Nat
    BY DEF TypeOK
  <1>3. After(inputs, types, data, locks)
    BY CellsAfter
  \* A spent outpoint, or one of an earlier transaction, is not live again.
  <1>4. ASSUME NEW x \in OutPoint, x[1] =< height, x \notin Kept(inputs)
        PROVE  x \notin DOMAIN cells'
    <2>1. DOMAIN cells' = Kept(inputs) \cup ({height + 1} \X DOMAIN types)
      BY <1>3 DEF After
    <2>2. x \notin {height + 1} \X DOMAIN types
      BY <1>2, <1>4
    <2> QED BY <1>4, <2>1, <2>2
  <1>5. CASE p \in Kept(inputs) /\ cells'[p] = cells[p] /\ p[1] \in 0..height
    <2>1. p \in DOMAIN cells /\ GoodCell(p)
      BY <1>5, <1>1 DEF Kept
    <2>2. cells[p].type \in Identity
      BY <1>5, <2>1 DEF TypeOK, Cell
    <2>3. cells[p].type[1] \in OutPoint /\ cells[p].type[1][1] =< height
      <3>1. cells[p].type[1] \in OutPoint
        BY <2>2 DEF Identity
      <3>2. cells[p].type[1][1] \in Nat
        BY <3>1 DEF OutPoint
      <3> QED BY <1>5, <1>2, <2>1, <3>1, <3>2 DEF GoodCell
    <2>4. cells[p].type[1] \notin Kept(inputs)
      BY <2>1 DEF Kept, GoodCell
    <2>5. cells[p].type[1] \notin DOMAIN cells'
      BY <1>4, <2>3, <2>4
    <2> QED BY <1>5, <2>1, <2>5 DEF GoodCell
  <1>6. ASSUME NEW o \in DOMAIN types, p = <<height + 1, o>>, cells'[p].type = types[o]
        PROVE  GoodCell(p)'
    <2>1. /\ types[o] # Plain
          /\ cells'[p].type = types[o]
          /\ cells'[p].data = data[o]
      <3>1. types[o] # Plain
        BY <1>6
      <3>2. cells'[<<height + 1, o>>] = [type |-> types[o], lock |-> locks[o], data |-> data[o]]
        BY <3>1, NewRegistryCell
      <3> QED BY <1>6, <3>1, <3>2
    <2>2. data[o] \in Record /\ validate(data[o]) /\ types[o] \in Identity
      BY <2>1, RegistryOutput, TypesAreTyped DEF Accepted
    <2>3. p[1] = height + 1 /\ types[o][1] \in OutPoint /\ types[o][1][1] \in Nat
      <3>1. types[o][1] \in OutPoint
        BY <2>2 DEF Identity
      <3> QED BY <1>6, <3>1 DEF OutPoint
    <2>4. CASE Created(inputs, types, data, o)
      <3>1. types[o][1] = inputs[1] /\ data[o].sequence = 0
        BY <2>4 DEF Created, validate_creation
      <3>2. inputs[1] \in DOMAIN cells /\ inputs[1] \in Range(inputs)
        BY InputsAreLive DEF Accepted, Range
      <3>3. inputs[1][1] =< height
        BY <3>2, <1>2 DEF TypeOK
      <3>4. inputs[1] \notin DOMAIN cells'
        BY <1>4, <2>3, <3>1, <3>2, <3>3 DEF Kept
      <3> QED BY <1>2, <2>1, <2>2, <2>3, <3>1, <3>3, <3>4 DEF GoodCell
    <2>5. ASSUME NEW i \in DOMAIN inputs, Succeeds(inputs, types, data, o, i)
          PROVE  GoodCell(p)'
      <3> DEFINE q == inputs[i]
      <3>1. q \in DOMAIN cells /\ cells[q].type = types[o]
        BY <2>5, InputsAreLive DEF Succeeds, GroupInput, Accepted
      <3>2. GoodCell(q)
        BY <1>1, <2>1, <3>1
      <3>3. q[1] \in 0..height
        BY <3>1 DEF TypeOK
      <3>4. types[o][1] \notin DOMAIN cells /\ types[o][1][1] =< height
        BY <1>2, <2>3, <3>1, <3>2, <3>3 DEF GoodCell
      <3>5. types[o][1] \notin DOMAIN cells'
        BY <1>4, <2>3, <3>4 DEF Kept
      <3>6. data[o].sequence = cells[q].data.sequence + 1
        BY <2>5 DEF Succeeds, validate_successor
      <3>7. cells[q].data.sequence \in Nat
        BY <3>2 DEF GoodCell, Record
      <3>8. cells[q].data.sequence < q[1] - types[o][1][1]
        BY <3>1, <3>2 DEF GoodCell
      <3> QED BY <1>2, <2>1, <2>2, <2>3, <3>3, <3>4, <3>5, <3>6, <3>7, <3>8 DEF GoodCell
    <2> QED BY <2>1, <2>4, <2>5, RegistryOutput
  <1> QED BY <1>5, <1>6, LiveAfter

THEOREM NextIInv == IInv /\ [Next]_vars => IInv'
  <1> SUFFICES ASSUME IInv, [Next]_vars PROVE IInv'
    OBVIOUS
  <1>1. CASE UNCHANGED vars
    BY <1>1 DEF vars, IInv, TypeOK, OneLiveCellPerIdentity, AnchorIsSpent,
       LiveRecordsValidate, SequenceIsPaced
  <1>2. CASE Next
    <2>1. PICK inputs, types, data, locks : Transaction(inputs, types, data, locks)
      BY <1>2 DEF Next, Commit, Transaction, Accepted
    <2>2. TypeOK'
      BY <2>1, TypeStep DEF IInv
    <2>3. OneLiveCellPerIdentity'
      BY <2>1, OneLiveCellStep
    <2>4. \A p \in DOMAIN cells' : cells'[p].type # Plain => GoodCell(p)'
      BY <2>1, GoodCellsStep
    <2>5. AnchorIsSpent' /\ LiveRecordsValidate' /\ SequenceIsPaced'
      BY <2>4 DEF GoodCell, AnchorIsSpent, LiveRecordsValidate, SequenceIsPaced
    <2> QED BY <2>2, <2>3, <2>5 DEF IInv
  <1> QED BY <1>1, <1>2

THEOREM Invariance == Spec => []IInv
  BY InitIInv, NextIInv, PTL DEF Spec

-----------------------------------------------------------------------------
(* What one transaction does to the live cells *)

\* A transaction is one more, and every cell it does not create was there before.
CellsAreNumbered ==
    /\ height' = height + 1
    /\ \A p \in DOMAIN cells' :
        (p \in DOMAIN cells /\ cells'[p] = cells[p]) \/ p[1] = height + 1

LEMMA LiveStep == IInv /\ Next => CellsAreNumbered
  <1> SUFFICES ASSUME IInv, Next PROVE CellsAreNumbered
    OBVIOUS
  <1> TypeOK
    BY DEF IInv
  <1>1. PICK inputs, types, data, locks : Transaction(inputs, types, data, locks)
    BY DEF Next, Commit, Transaction, Accepted
  <1>2. height' = height + 1
    BY <1>1 DEF Transaction, Apply
  <1>3. ASSUME NEW p \in DOMAIN cells'
        PROVE  (p \in DOMAIN cells /\ cells'[p] = cells[p]) \/ p[1] = height + 1
    <2>1. \/ p \in Kept(inputs) /\ cells'[p] = cells[p]
          \/ \E o \in DOMAIN types : p = <<height + 1, o>>
      BY <1>1, LiveAfter
    <2> QED BY <2>1 DEF Kept
  <1> QED BY <1>2, <1>3 DEF CellsAreNumbered

\* A final cell is not spent.
LEMMA FinalStep ==
    IInv /\ Next => \A p \in DOMAIN cells : IsFinal(p) => p \in DOMAIN cells' /\ cells'[p] = cells[p]
  <1> SUFFICES ASSUME IInv, Next, NEW p \in DOMAIN cells, IsFinal(p)
               PROVE  p \in DOMAIN cells' /\ cells'[p] = cells[p]
    OBVIOUS
  <1> TypeOK
    BY DEF IInv
  <1>1. PICK inputs, types, data, locks : Transaction(inputs, types, data, locks)
    BY DEF Next, Commit, Transaction, Accepted
  <1>2. After(inputs, types, data, locks)
    BY <1>1, CellsAfter
  <1>3. ASSUME NEW i \in DOMAIN inputs, inputs[i] = p PROVE FALSE
    <2>1. cells[inputs[i]].type # Plain
      BY <1>3 DEF IsFinal
    <2>2. PICK o \in DOMAIN types : Succeeds(inputs, types, data, o, i)
      BY <1>1, <2>1, SpentCell DEF Transaction
    <2>3. cells[p].data.status # "revoked" /\ cells[p].data.sequence < MaxSequence
      BY <1>3, <2>2 DEF Succeeds, validate_successor
    <2> QED BY <2>3, BoundsAssumption DEF IsFinal
  <1>4. p \in Kept(inputs)
    BY <1>3 DEF Kept, Range
  <1> QED BY <1>2, <1>4 DEF After

-----------------------------------------------------------------------------
(* The theorems *)


\* Whatever transactions are sent, an identity has at most one live cell
\* (entry.rs:22-35).
THEOREM UniqueIdentity == Spec => []OneLiveCellPerIdentity
  BY Invariance, PTL DEF IInv

\* An identity can be created only once: its anchor is spent (entry.rs:22).
THEOREM AnchorsAreSpent == Spec => []AnchorIsSpent
  BY Invariance, PTL DEF IInv

\* Every live registry record still validates (record.rs:110-137).
THEOREM RecordsStayValid == Spec => []LiveRecordsValidate
  BY Invariance, PTL DEF IInv

\* A sequence never runs ahead of the transactions committed since the
\* identity's anchor (record.rs:130).
THEOREM SequencesArePaced == Spec => []SequenceIsPaced
  BY Invariance, PTL DEF IInv

\* A revoked record, or one at u64::MAX, is never spent again
\* (entry.rs:27-35, record.rs:124-132).
THEOREM FinalityHolds == Spec => FinalCellsStay
  <1>1. IInv /\ [Next]_vars =>
            [\A p \in DOMAIN cells :
                IsFinal(p) => p \in DOMAIN cells' /\ cells'[p] = cells[p]]_vars
    BY FinalStep DEF vars
  <1> QED BY <1>1, Invariance, PTL DEF Spec, FinalCellsStay

-----------------------------------------------------------------------------
(* The chain implements the lifecycle *)

\* The abstract state read off one cell.
Shown(c) ==
    [phase |-> IF c.data.status = "revoked" THEN "revoked" ELSE "active",
     label |-> c.data.label, owner |-> c.lock,
     sequence |-> c.data.sequence, updated_at |-> c.data.updated_at]

CellsAreShown ==
    \A p \in DOMAIN cells : cells[p].type # Plain =>
        /\ cells[p].type \in Identity
        /\ AbstractLifecycle[cells[p].type] = Shown(cells[p])
        /\ AbstractLifecycle[cells[p].type] \in Lifecycle!Present

OthersAreAbsent ==
    \A id \in Identity :
        (\A p \in DOMAIN cells : cells[p].type # id) => AbstractLifecycle[id] = Lifecycle!Absent

LEMMA AbstractionIsRead == IInv => CellsAreShown /\ OthersAreAbsent
  <1> SUFFICES ASSUME IInv PROVE CellsAreShown /\ OthersAreAbsent
    OBVIOUS
  <1>1. CellsAreShown
    <2> SUFFICES ASSUME NEW p \in DOMAIN cells, cells[p].type # Plain
                 PROVE  /\ cells[p].type \in Identity
                        /\ AbstractLifecycle[cells[p].type] = Shown(cells[p])
                        /\ AbstractLifecycle[cells[p].type] \in Lifecycle!Present
      BY DEF CellsAreShown
    <2> DEFINE id == cells[p].type
    <2>1. id \in Identity /\ cells[p].lock \in Owners /\ cells[p].data \in Record
      BY DEF IInv, TypeOK, Cell, LiveRecordsValidate
    <2>2. \A q \in DOMAIN cells : cells[q].type = id => q = p
      BY DEF IInv, OneLiveCellPerIdentity
    <2>3. IsLive(id) /\ (CHOOSE q \in DOMAIN cells : cells[q].type = id) = p
      BY <2>2 DEF IsLive
    <2>4. AbstractLifecycle[id] = LifecycleOf(id) /\ LiveCell(id) = cells[p]
      BY <2>1, <2>3 DEF AbstractLifecycle, LiveCell
    <2>5. Shown(cells[p]) \in Lifecycle!Present
      BY <2>1 DEF Shown, Lifecycle!Present, Record
    <2> QED BY <2>1, <2>4, <2>5 DEF LifecycleOf, Shown
  <1>2. OthersAreAbsent
    BY DEF OthersAreAbsent, AbstractLifecycle, IsLive, Lifecycle!Absent
  <1> QED BY <1>1, <1>2

THEOREM InitRefines == Init => Lifecycle!Init
  <1> SUFFICES ASSUME Init PROVE Lifecycle!Init
    OBVIOUS
  <1>1. \A p \in DOMAIN cells : cells[p].type = Plain
    BY DEF Init
  <1>2. \A id \in Identity : ~IsLive(id)
    BY <1>1, MarkersAssumption DEF IsLive
  <1> QED BY <1>2 DEF Lifecycle!Init, Lifecycle!Absent, AbstractLifecycle

THEOREM StepRefines == IInv /\ IInv' /\ Next => Lifecycle!Next
  <1> SUFFICES ASSUME IInv, IInv', Next PROVE Lifecycle!Next
    OBVIOUS
  <1> TypeOK
    BY DEF IInv
  <1> CellsAreShown /\ OthersAreAbsent
    BY AbstractionIsRead
  <1> CellsAreShown' /\ OthersAreAbsent'
    BY AbstractionIsRead, PTL
  <1>1. PICK inputs, types, data, locks : Transaction(inputs, types, data, locks)
    BY DEF Next, Commit, Transaction, Accepted
  <1> Accepted(inputs, types, data)
    BY <1>1 DEF Transaction
  <1>2. After(inputs, types, data, locks)
    BY <1>1, CellsAfter
  <1>3. DOMAIN AbstractLifecycle' = Identity
    BY DEF AbstractLifecycle
  <1>4. ASSUME NEW id \in Identity PROVE Lifecycle!Step(id)
    <2>1. id # Plain
      BY MarkersAssumption
    <2>2. ASSUME NEW p \in Kept(inputs), cells[p].type = id PROVE Lifecycle!Step(id)
      <3>1. p \in DOMAIN cells' /\ cells'[p] = cells[p] /\ p \in DOMAIN cells
        BY <1>2, <2>2 DEF After, Kept
      <3>2. AbstractLifecycle[id] = Shown(cells[p])
        BY <2>1, <2>2, <3>1 DEF CellsAreShown
      <3>3. AbstractLifecycle'[id] = Shown(cells'[p])
        BY <2>1, <2>2, <3>1 DEF CellsAreShown, Shown
      <3> QED BY <3>1, <3>2, <3>3 DEF Lifecycle!Step, Shown
    <2>3. ASSUME NEW i \in DOMAIN inputs, cells[inputs[i]].type = id PROVE Lifecycle!Step(id)
      <3> DEFINE c == cells[inputs[i]]
      <3>1. inputs[i] \in DOMAIN cells
        BY InputsAreLive DEF Accepted
      <3>2. PICK o \in DOMAIN types : types[o] = id /\ Succeeds(inputs, types, data, o, i)
        BY <2>1, <2>3, SpentCell
      <3> DEFINE new == [type |-> types[o], lock |-> locks[o], data |-> data[o]]
      <3>3. <<height + 1, o>> \in DOMAIN cells' /\ cells'[<<height + 1, o>>] = new
        BY <1>1, <2>1, <3>2, NewRegistryCell
      <3>4. AbstractLifecycle[id] = Shown(c) /\ AbstractLifecycle[id] \in Lifecycle!Present
        BY <2>1, <2>3, <3>1 DEF CellsAreShown
      <3>5. AbstractLifecycle'[id] = Shown(new) /\ AbstractLifecycle'[id] \in Lifecycle!Present
        BY <2>1, <3>2, <3>3 DEF CellsAreShown, Shown
      <3>6. validate_successor(data[o], c.data)
        BY <3>2 DEF Succeeds
      <3>7. Lifecycle!Succeed(AbstractLifecycle[id], AbstractLifecycle'[id])
        BY <3>4, <3>5, <3>6 DEF Lifecycle!Succeed, Shown, validate_successor
      <3> QED BY <3>7 DEF Lifecycle!Step
    <2>4. CASE \A p \in DOMAIN cells : cells[p].type # id
      <3>1. AbstractLifecycle[id] = Lifecycle!Absent
        BY <2>4 DEF OthersAreAbsent
      <3>2. CASE \A p \in DOMAIN cells' : cells'[p].type # id
        <4>1. AbstractLifecycle'[id] = Lifecycle!Absent
          BY <3>2 DEF OthersAreAbsent
        <4> QED BY <3>1, <4>1 DEF Lifecycle!Step
      <3>3. ASSUME NEW p \in DOMAIN cells', cells'[p].type = id PROVE Lifecycle!Step(id)
        <4>1. PICK o \in DOMAIN types : p = <<height + 1, o>> /\ cells'[p].type = types[o]
          BY <1>1, <2>4, <3>3, LiveAfter DEF Kept
        <4> DEFINE new == [type |-> types[o], lock |-> locks[o], data |-> data[o]]
        <4>2. cells'[p] = new
          BY <1>1, <2>1, <3>3, <4>1, NewRegistryCell
        <4>3. ~ \E i \in DOMAIN inputs : Succeeds(inputs, types, data, o, i)
          <5> SUFFICES ASSUME NEW i \in DOMAIN inputs, Succeeds(inputs, types, data, o, i)
                       PROVE  FALSE
            OBVIOUS
          <5>1. cells[inputs[i]].type = id /\ inputs[i] \in DOMAIN cells
            BY <3>3, <4>1, InputsAreLive DEF Succeeds, GroupInput, Accepted
          <5> QED BY <5>1, <2>4
        <4>4. validate_creation(data[o])
          BY <2>1, <3>3, <4>1, <4>3, RegistryOutput DEF Created
        <4>5. AbstractLifecycle'[id] = Shown(new) /\ AbstractLifecycle'[id] \in Lifecycle!Present
          BY <2>1, <3>3, <4>2 DEF CellsAreShown, Shown
        <4>6. Lifecycle!Register(AbstractLifecycle[id], AbstractLifecycle'[id])
          BY <3>1, <4>4, <4>5 DEF Lifecycle!Register, Shown, validate_creation
        <4> QED BY <4>6 DEF Lifecycle!Step
      <3> QED BY <3>2, <3>3
    <2> QED BY <2>2, <2>3, <2>4 DEF Kept, Range
  <1> QED BY <1>3, <1>4 DEF Lifecycle!Next

\* Every behaviour of the chain, seen per identity, is a behaviour of the
\* published lifecycle (entry.rs:27-35, record.rs:110-137).
THEOREM ChainImplementsLifecycle == Spec => LifecycleSpec
  <1>1. IInv /\ IInv' /\ [Next]_vars => [Lifecycle!Next]_AbstractLifecycle
    <2>1. ASSUME UNCHANGED vars PROVE UNCHANGED AbstractLifecycle
      BY <2>1 DEF vars, AbstractLifecycle, IsLive, LifecycleOf, LiveCell
    <2> QED BY <2>1, StepRefines
  <1> QED BY <1>1, InitRefines, Invariance, PTL DEF Spec, LifecycleSpec, Lifecycle!Spec

-----------------------------------------------------------------------------
(* The keys of discovery *)

KeyLength == IF IdentityFirst THEN 5 ELSE 2
KeySet == [1..KeyLength -> Nat]

-----------------------------------------------------------------------------
(* The order of the keys *)

LEMMA KeyIsTyped ==
    ASSUME NEW op \in OutPoint, NEW cell, cell.type \in Identity
    PROVE  /\ Key(op, cell) \in KeySet
           /\ Key(op, cell)[KeyLength - 1] = op[1] /\ Key(op, cell)[KeyLength] = op[2]
<1>1. PICK d \in Nat, e \in Nat : op = <<d, e>>
    BY BoundsAssumption DEF OutPoint, OutputIndex
<1>2. PICK a \in Nat, b \in Nat, c \in Nat : cell.type = <<<<a, b>>, c>>
    BY BoundsAssumption DEF Identity, OutPoint, OutputIndex
<1>3. CASE IdentityFirst
    <2>1. cell.type[1] = <<a, b>> /\ cell.type[2] = c
        BY <1>2
    <2>2. Key(op, cell) = <<a, b>> \o <<c>> \o <<d, e>>
        BY <1>1, <1>3, <2>1 DEF Key
    <2> DEFINE p == <<a, b>> \o <<c>>
               q == <<d, e>>
               k == p \o q
    <2>3. p \in Seq(Nat) /\ Len(p) = 3
        OBVIOUS
    <2>4. q \in Seq(Nat) /\ Len(q) = 2 /\ q[1] = d /\ q[2] = e
        OBVIOUS
    <2> HIDE DEF p, q
    <2>5. k \in Seq(Nat) /\ Len(k) = 5 /\ k[4] = d /\ k[5] = e
        <3>1. /\ k \in Seq(Nat) /\ Len(k) = Len(p) + Len(q)
              /\ \A i \in 1..(Len(p) + Len(q)) :
                    k[i] = IF i <= Len(p) THEN p[i] ELSE q[i - Len(p)]
            BY <2>3, <2>4, ConcatProperties
        <3> HIDE DEF k
        <3>2. k[4] = q[1] /\ k[5] = q[2]
            BY <3>1, <2>3, <2>4
        <3> QED BY <3>1, <3>2, <2>3, <2>4
    <2> HIDE DEF k
    <2>6. Key(op, cell) = k
        BY <2>2 DEF k, p, q
    <2> QED BY <1>1, <1>3, <2>5, <2>6 DEF KeySet, KeyLength
<1>4. CASE ~IdentityFirst
    BY <1>1, <1>4 DEF Key, KeySet, KeyLength
<1> QED BY <1>3, <1>4

LEMMA Smallest ==
    ASSUME NEW S \in SUBSET Nat, S # {}
    PROVE  \E m \in S : \A n \in S : m <= n
<1> DEFINE R == {ss \in Nat \X Nat : ss[1] < ss[2]}
<1>1. IsWellFoundedOn(R, Nat)
    BY NatLessThanWellFounded DEF OpToRel
<1>2. PICK m \in S : \A n \in S : <<n, m>> \notin R
    BY <1>1, WFMin
<1>3. ASSUME NEW n \in S PROVE m <= n
    <2>1. <<n, m>> \in R <=> n < m
        OBVIOUS
    <2> QED BY <2>1, <1>2
<1> QED BY <1>3

LEMMA KeyOrder ==
    ASSUME NEW a \in KeySet, NEW b \in KeySet
    PROVE  /\ ~KeyBefore(a, a) /\ KeyBefore(<<>>, a)
           /\ KeyBefore(a, b) \/ KeyBefore(b, a) \/ a = b
           /\ \A c \in KeySet : KeyBefore(a, b) /\ KeyBefore(b, c) => KeyBefore(a, c)
<1>1. /\ KeyLength \in Nat \ {0} /\ DOMAIN a = 1..KeyLength /\ DOMAIN b = 1..KeyLength
      /\ \A i \in 1..KeyLength : a[i] \in Nat /\ b[i] \in Nat
    BY DEF KeyLength, KeySet
<1>2. ~KeyBefore(a, a)
    BY <1>1 DEF KeyBefore
<1>3. KeyBefore(<<>>, a)
    <2>1. 1 \in DOMAIN a /\ 1 \notin DOMAIN <<>> /\ 1..(1 - 1) = {}
        BY <1>1
    <2> QED BY <2>1 DEF KeyBefore
<1>4. ASSUME a # b
      PROVE  KeyBefore(a, b) \/ KeyBefore(b, a)
    <2> DEFINE D == {i \in 1..KeyLength : a[i] # b[i]}
    <2>1. D # {} /\ D \in SUBSET Nat
        <3>1. a \in [1..KeyLength -> Nat] /\ b \in [1..KeyLength -> Nat]
            BY DEF KeySet
        <3>2. a = [i \in 1..KeyLength |-> a[i]] /\ b = [i \in 1..KeyLength |-> b[i]]
            BY <3>1
        <3>3. \E i \in 1..KeyLength : a[i] # b[i]
            <4> HIDE DEF KeyLength
            <4> SUFFICES ASSUME \A i \in 1..KeyLength : a[i] = b[i] PROVE FALSE
                OBVIOUS
            <4>1. [i \in 1..KeyLength |-> a[i]] = [i \in 1..KeyLength |-> b[i]]
                OBVIOUS
            <4> QED BY <4>1, <3>2, <1>4
        <3>4. KeyLength \in Nat
            BY <1>1
        <3> QED BY <3>3, <3>4
    <2>2. PICK i \in D : \A j \in D : i <= j
        BY <2>1, Smallest
    <2>3. \A j \in 1..(i - 1) : a[j] = b[j] /\ j \in 1..KeyLength
        BY <1>1, <2>2
    <2>4. a[i] < b[i] \/ b[i] < a[i]
        BY <1>1, <2>2
    <2> QED BY <1>1, <2>2, <2>3, <2>4 DEF KeyBefore
<1>5. ASSUME NEW c \in KeySet, KeyBefore(a, b), KeyBefore(b, c)
      PROVE  KeyBefore(a, c)
    <2>1. PICK i \in 1..KeyLength : a[i] < b[i] /\ \A j \in 1..(i - 1) : a[j] = b[j]
        BY <1>1, <1>5 DEF KeyBefore
    <2>2. DOMAIN c = 1..KeyLength /\ \A j \in 1..KeyLength : c[j] \in Nat
        BY DEF KeySet
    <2>3. PICK k \in 1..KeyLength : b[k] < c[k] /\ \A j \in 1..(k - 1) : b[j] = c[j]
        BY <1>1, <1>5, <2>2 DEF KeyBefore
    <2> DEFINE m == IF i <= k THEN i ELSE k
    <2>4. m \in 1..KeyLength /\ a[m] < c[m]
        <3>1. a[i] \in Nat /\ b[i] \in Nat /\ c[i] \in Nat
            BY <1>1, <2>2
        <3>2. a[k] \in Nat /\ b[k] \in Nat /\ c[k] \in Nat
            BY <1>1, <2>2
        <3>3. CASE i < k
            BY <3>1, <3>3, <1>1, <2>1, <2>3
        <3>4. CASE k < i
            BY <3>2, <3>4, <1>1, <2>1, <2>3
        <3>5. CASE i = k
            BY <3>1, <3>5, <1>1, <2>1, <2>3
        <3> QED BY <3>3, <3>4, <3>5, <1>1
    <2>5. ASSUME NEW j \in 1..(m - 1)
          PROVE  j \in 1..KeyLength /\ a[j] = c[j]
        <3>1. j \in 1..KeyLength /\ j \in 1..(i - 1) /\ j \in 1..(k - 1)
            BY <1>1, <2>1, <2>3
        <3> QED BY <2>1, <2>3, <3>1
    <2> HIDE DEF m
    <2> QED BY <1>1, <2>2, <2>4, <2>5 DEF KeyBefore
<1> QED BY <1>2, <1>3, <1>4, <1>5

-----------------------------------------------------------------------------
(* A page *)

KeyOf(op) == Key(op, cells[op])

\* A finite set of cells whose keys tell them apart.
Ordered(S) ==
    /\ IsFiniteSet(S)
    /\ \A p \in S : KeyOf(p) \in KeySet
    /\ \A p, q \in S : KeyOf(p) = KeyOf(q) => p = q

Below(op, S) == {q \in S : KeyBefore(KeyOf(q), KeyOf(op))}

LEMMA RankIsBounded ==
    ASSUME NEW S, Ordered(S), NEW p \in S
    PROVE  Rank(p, S) \in 0..(Cardinality(S) - 1)
<1>1. Rank(p, S) = Cardinality(Below(p, S))
    BY DEF Rank, Below, KeyOf
<1>2. Below(p, S) \in SUBSET (S \ {p})
    BY KeyOrder DEF Ordered, Below
<1>3. IsFiniteSet(S \ {p}) /\ Cardinality(S \ {p}) = Cardinality(S) - 1
    BY FS_RemoveElement DEF Ordered
<1>4. Cardinality(Below(p, S)) <= Cardinality(S) - 1 /\ IsFiniteSet(Below(p, S))
    BY <1>2, <1>3, FS_Subset
<1>5. Cardinality(Below(p, S)) \in Nat /\ Cardinality(S) \in Nat
    BY <1>4, FS_CardinalityType DEF Ordered
<1> QED BY <1>1, <1>4, <1>5

LEMMA RankGrows ==
    ASSUME NEW S, Ordered(S), NEW p \in S, NEW q \in S, KeyBefore(KeyOf(p), KeyOf(q))
    PROVE  Rank(p, S) < Rank(q, S)
<1>1. /\ Rank(p, S) = Cardinality(Below(p, S)) /\ Rank(q, S) = Cardinality(Below(q, S))
      /\ Below(p, S) \in SUBSET S /\ Below(q, S) \in SUBSET S
    BY DEF Rank, Below, KeyOf
<1>2. p \notin Below(p, S)
    BY KeyOrder DEF Ordered, Below
<1>3. (Below(p, S) \cup {p}) \in SUBSET Below(q, S)
    <2>1. ASSUME NEW r \in Below(p, S) PROVE r \in Below(q, S)
        <3>1. KeyBefore(KeyOf(r), KeyOf(p)) /\ r \in S
            BY DEF Below
        <3>2. KeyOf(r) \in KeySet /\ KeyOf(p) \in KeySet /\ KeyOf(q) \in KeySet
            BY <3>1 DEF Ordered
        <3> QED BY <3>1, <3>2, KeyOrder DEF Below
    <2> QED BY <2>1 DEF Below
<1>4. IsFiniteSet(Below(p, S)) /\ IsFiniteSet(Below(q, S))
    BY <1>1, FS_Subset DEF Ordered
<1>5. Cardinality(Below(p, S) \cup {p}) = Cardinality(Below(p, S)) + 1
    BY <1>2, <1>4, FS_AddElement
<1>6. Cardinality(Below(p, S) \cup {p}) <= Cardinality(Below(q, S))
    BY <1>3, <1>4, FS_Subset
<1>7. Cardinality(Below(p, S)) \in Nat /\ Cardinality(Below(q, S)) \in Nat
    BY <1>4, FS_CardinalityType
<1> QED BY <1>1, <1>5, <1>6, <1>7

LEMMA RankIsInjective ==
    ASSUME NEW S, Ordered(S), NEW p \in S, NEW q \in S, p # q
    PROVE  Rank(p, S) # Rank(q, S)
<1>1. KeyBefore(KeyOf(p), KeyOf(q)) \/ KeyBefore(KeyOf(q), KeyOf(p))
    BY KeyOrder DEF Ordered
<1>2. Rank(p, S) < Rank(q, S) \/ Rank(q, S) < Rank(p, S)
    BY <1>1, RankGrows
<1>3. Rank(p, S) \in Int /\ Rank(q, S) \in Int
    BY RankIsBounded
<1> QED BY <1>2, <1>3

LEMMA RankIsPosition ==
    ASSUME NEW S, Ordered(S), NEW n \in 0..(Cardinality(S) - 1)
    PROVE  At(S, n) \in S /\ Rank(At(S, n), S) = n
<1> DEFINE T == 0..(Cardinality(S) - 1)
           f == [p \in S |-> Rank(p, S)]
<1>1. Cardinality(S) \in Nat
    BY FS_CardinalityType DEF Ordered
<1>2. IsFiniteSet(T) /\ Cardinality(T) = Cardinality(S)
    BY <1>1, FS_Interval
<1>3. f \in Injection(S, T)
    <2>1. f \in [S -> T]
        BY RankIsBounded
    <2>2. \A p, q \in S : f[p] = f[q] => p = q
        BY RankIsInjective
    <2> QED BY <2>1, <2>2, Fun_IsInj
<1>4. f \in Surjection(S, T)
    BY <1>2, <1>3, FS_Injection
<1>5. \A m \in T : \E p \in S : f[p] = m
    <2> HIDE DEF f, T
    <2> QED BY <1>4, Fun_SurjectionProperties
<1>6. \E p \in S : Rank(p, S) = n
    BY <1>5
<1> QED BY <1>6 DEF At

Page(S) ==
    [i \in 1..Min({Cardinality(S), PageSize}) |->
        [op |-> At(S, i - 1), cell |-> cells[At(S, i - 1)]]]

IsSequence(s) == s \in Seq({s[i] : i \in DOMAIN s})

\* The cells of a page are in S, different, and come before the rest of S.
IsInitial(page, S) ==
    /\ IsSequence(page)
    /\ Len(page) \in Nat /\ DOMAIN page = 1..Len(page)
    /\ \A i \in DOMAIN page : page[i].op \in S /\ page[i].cell = cells[page[i].op]
    /\ \A i, j \in DOMAIN page : page[i].op = page[j].op => i = j
    /\ \A i \in DOMAIN page :
        i = Len(page) \/ KeyBefore(KeyOf(page[i].op), KeyOf(Last(page).op))
    /\ page = <<>> => S = {}
    /\ \A op \in S :
        \/ \E i \in DOMAIN page : page[i].op = op
        \/ page # <<>> /\ KeyBefore(KeyOf(Last(page).op), KeyOf(op))

LEMMA PageIsInitial ==
    ASSUME DiscoveryAssumption, NEW S, Ordered(S)
    PROVE  IsInitial(Page(S), S)
<1> DEFINE n == Min({Cardinality(S), PageSize})
           page == Page(S)
<1>1. Cardinality(S) \in Nat /\ PageSize \in Nat \ {0}
    BY FS_CardinalityType DEF Ordered, DiscoveryAssumption
<1>2. n \in {Cardinality(S), PageSize} /\ n <= Cardinality(S) /\ n <= PageSize
    <2>1. \E m \in {Cardinality(S), PageSize} : \A k \in {Cardinality(S), PageSize} : m <= k
        BY <1>1
    <2> QED BY <2>1 DEF Min
<1>3. n \in Nat
    BY <1>1, <1>2
<1> HIDE DEF n
<1>4. page = [i \in 1..n |-> [op |-> At(S, i - 1), cell |-> cells[At(S, i - 1)]]]
    BY DEF Page, n
<1>5. DOMAIN page = 1..n /\ Len(page) = n
    BY <1>3, <1>4
<1>6. ASSUME NEW i \in 1..n
      PROVE  /\ page[i].op \in S /\ page[i].cell = cells[page[i].op]
             /\ Rank(page[i].op, S) = i - 1
    <2>1. i - 1 \in 0..(Cardinality(S) - 1)
        BY <1>1, <1>2, <1>3
    <2> QED BY <2>1, <1>4, RankIsPosition
<1> HIDE DEF page
<1>7. ASSUME NEW i \in 1..n, NEW j \in 1..n, page[i].op = page[j].op
      PROVE  i = j
    BY <1>6, <1>7, <1>3
<1>8. ASSUME NEW op \in S, NEW q \in S, Rank(op, S) < Rank(q, S)
      PROVE  KeyBefore(KeyOf(op), KeyOf(q))
    <2>1. Rank(op, S) \in Int /\ Rank(q, S) \in Int
        BY RankIsBounded
    <2>2. op # q /\ ~(Rank(q, S) < Rank(op, S))
        BY <2>1, <1>8
    <2>3. ~KeyBefore(KeyOf(q), KeyOf(op)) /\ KeyOf(op) # KeyOf(q)
        BY <2>2, RankGrows DEF Ordered
    <2> QED BY <2>3, KeyOrder DEF Ordered
<1>9. n # 0 => Last(page) = page[n] /\ n \in 1..n
    BY <1>3, <1>5 DEF Last
<1>10. ASSUME NEW i \in 1..n, i # n
       PROVE  KeyBefore(KeyOf(page[i].op), KeyOf(Last(page).op))
    <2>1. n # 0 /\ i < n
        BY <1>3, <1>10
    <2> QED BY <2>1, <1>3, <1>6, <1>8, <1>9
<1>11. page = <<>> => S = {}
    <2> HAVE page = <<>>
    <2>1. n = 0
        BY <1>3, <1>5
    <2> QED BY <2>1, <1>1, <1>2, FS_EmptySet DEF Ordered
<1>12. ASSUME NEW op \in S
       PROVE  \/ \E i \in 1..n : page[i].op = op
              \/ page # <<>> /\ KeyBefore(KeyOf(Last(page).op), KeyOf(op))
    <2>1. page # <<>> /\ n # 0
        BY <1>3, <1>5, <1>11
    <2>2. Rank(op, S) \in Nat
        BY RankIsBounded
    <2>3. CASE Rank(op, S) < n
        <3>1. Rank(op, S) + 1 \in 1..n
            BY <2>2, <2>3, <1>3
        <3>2. Rank(page[Rank(op, S) + 1].op, S) = Rank(op, S) /\ page[Rank(op, S) + 1].op \in S
            BY <3>1, <1>6, <2>2
        <3> QED BY <3>1, <3>2, RankIsInjective
    <2>4. CASE n <= Rank(op, S)
        BY <2>1, <2>2, <2>4, <1>3, <1>6, <1>8, <1>9
    <2> QED BY <2>2, <2>3, <2>4, <1>3
<1>13. \A i \in DOMAIN page : page[i].op \in S /\ page[i].cell = cells[page[i].op]
    BY <1>5, <1>6
<1>14. \A i, j \in DOMAIN page : page[i].op = page[j].op => i = j
    BY <1>5, <1>7
<1>15. \A i \in DOMAIN page :
          i = Len(page) \/ KeyBefore(KeyOf(page[i].op), KeyOf(Last(page).op))
    BY <1>5, <1>10
<1>16. \A op \in S :
            \/ \E i \in DOMAIN page : page[i].op = op
            \/ page # <<>> /\ KeyBefore(KeyOf(Last(page).op), KeyOf(op))
    BY <1>5, <1>12
<1>17. Len(page) \in Nat /\ DOMAIN page = 1..Len(page)
    BY <1>3, <1>5
<1>18. IsSequence(page)
    <2> DEFINE T == {page[i] : i \in DOMAIN page}
    <2>1. page \in [1..n -> T]
        BY <1>4
    <2> HIDE DEF T
    <2>2. page \in Seq(T)
        BY <2>1, <1>3
    <2> QED BY <2>2 DEF IsSequence, T
<1>19. IsInitial(page, S)
    BY <1>11, <1>13, <1>14, <1>15, <1>16, <1>17, <1>18 DEF IsInitial
<1> QED BY <1>19 DEF page

-----------------------------------------------------------------------------
(* The reply of the indexer *)

Rest(after) == {op \in RegistryCells(cells) : KeyBefore(after, KeyOf(op))}

LEMMA CellsAreOrdered ==
    ASSUME TypeOK
    PROVE  Ordered(RegistryCells(cells))
<1>1. ASSUME NEW op \in RegistryCells(cells)
      PROVE  op \in OutPoint /\ cells[op].type \in Identity
    <2>1. op \in (0..height) \X OutputIndex /\ height \in 0..MaxTxs /\ MaxTxs \in Nat
        BY BoundsAssumption DEF TypeOK, RegistryCells
    <2>2. cells[op] \in Cell /\ cells[op].type # Plain
        BY DEF TypeOK, RegistryCells
    <2> QED BY <2>1, <2>2 DEF OutPoint, Cell
<1>2. IsFiniteSet(RegistryCells(cells))
    <2>1. IsFiniteSet(0..height) /\ IsFiniteSet(OutputIndex)
        <3>1. height \in Int /\ MaxOutputs - 1 \in Int
            BY BoundsAssumption DEF TypeOK
        <3> QED BY <3>1, FS_Interval DEF OutputIndex
    <2>2. IsFiniteSet((0..height) \X OutputIndex)
        BY <2>1, FS_Product
    <2>3. RegistryCells(cells) \in SUBSET ((0..height) \X OutputIndex)
        BY DEF TypeOK, RegistryCells
    <2> QED BY <2>2, <2>3, FS_Subset
<1>3. \A p \in RegistryCells(cells) : KeyOf(p) \in KeySet
    BY <1>1, KeyIsTyped DEF KeyOf
<1>4. ASSUME NEW p \in RegistryCells(cells), NEW q \in RegistryCells(cells), KeyOf(p) = KeyOf(q)
      PROVE  p = q
    <2>1. p[1] = q[1] /\ p[2] = q[2]
        BY <1>1, <1>4, KeyIsTyped DEF KeyOf
    <2>2. p = <<p[1], p[2]>> /\ q = <<q[1], q[2]>>
        BY <1>1 DEF OutPoint
    <2> QED BY <2>1, <2>2
<1> QED BY <1>2, <1>3, <1>4 DEF Ordered

LEMMA RepliesAreInitial ==
    ASSUME TypeOK, NEW after
    PROVE  IsInitial(get_cells(after), Rest(after))
<1>1. Ordered(Rest(after))
    <2>1. Rest(after) \in SUBSET RegistryCells(cells)
        BY DEF Rest
    <2> QED BY <2>1, CellsAreOrdered, FS_Subset DEF Ordered
<1>2. get_cells(after) = Page(Rest(after))
    BY DEF get_cells, Page, Rest, KeyOf
<1> QED BY <1>1, <1>2, PageIsInitial, DiscoveryAssumption

-----------------------------------------------------------------------------
(* The invariant of a discovery *)

\* A cell there was at the start is there unchanged, or spent; if it was
\* revoked, it is there.
StartInv ==
    \A op \in DOMAIN atStart :
        /\ op[1] \in 0..height
        /\ op \in DOMAIN cells => cells[op] = atStart[op]
        /\ atStart[op].type # Plain /\ atStart[op].data.status = "revoked" => op \in DOMAIN cells

\* So is a cell that has been read, and it is read once.
FetchedInv ==
    /\ IsSequence(fetched)
    /\ Len(fetched) \in Nat /\ DOMAIN fetched = 1..Len(fetched)
    /\ \A i \in DOMAIN fetched :
        /\ fetched[i].op[1] \in 0..height
        /\ fetched[i].op \in DOMAIN cells => cells[fetched[i].op] = fetched[i].cell
    /\ \A i, j \in DOMAIN fetched : fetched[i].op = fetched[j].op => i = j

\* The cells read are not behind the cursor.
CursorInv ==
    /\ cursor \in KeySet \cup {<<>>}
    /\ phase = "paging" => \A i \in DOMAIN fetched :
        /\ Key(fetched[i].op, fetched[i].cell) \in KeySet
        /\ ~KeyBefore(cursor, Key(fetched[i].op, fetched[i].cell))

\* The cells that have been live since the start.
Steady == {op \in RegistryCells(cells) : op \in DOMAIN atStart}

IsRead(op) == \E i \in DOMAIN fetched : fetched[i].op = op

\* Each of them is read or ahead, and nothing else with its identity is read.
SteadyInv ==
    \A op \in Steady :
        /\ phase = "paging" => IsRead(op) \/ KeyBefore(cursor, KeyOf(op))
        /\ \A i \in DOMAIN fetched : fetched[i].cell.type = cells[op].type => fetched[i].op = op

PublishedInv ==
    Succeeded => cached_peers = Published(fetched) /\ \A op \in Steady : IsRead(op)

ScanInv ==
    StartInv /\ FetchedInv /\ CursorInv /\ SteadyInv /\ PublishedInv /\ NothingStalePublished

LEMMA InitIsFine ==
    ASSUME DiscoveryInit
    PROVE  IInv /\ ScanInv
<1>1. IInv /\ TypeOK
    BY InitIInv DEF DiscoveryInit, IInv
<1>2. StartInv
    BY <1>1 DEF DiscoveryInit, StartInv, TypeOK
<1>3. fetched = <<>> /\ phase = "idle" /\ outcome = "none" /\ cursor = <<>>
    BY DEF DiscoveryInit
<1>4. FetchedInv /\ CursorInv
    BY <1>3 DEF FetchedInv, IsSequence, CursorInv
<1>5. SteadyInv /\ PublishedInv /\ NothingStalePublished
    BY <1>3 DEF SteadyInv, PublishedInv, NothingStalePublished, Succeeded
<1> QED BY <1>1, <1>2, <1>4, <1>5 DEF ScanInv

LEMMA StartIsFine ==
    ASSUME IInv, discover_peers
    PROVE  ScanInv'
<1>1. /\ UNCHANGED <<cells, height>> /\ phase' = "paging" /\ atStart' = cells
      /\ cursor' = <<>> /\ fetched' = <<>> /\ cached_peers' = NoPeers /\ quarantined' = {}
    BY DEF discover_peers, vars
<1>2. StartInv'
    <2>1. \A op \in DOMAIN cells : op[1] \in 0..height
        BY DEF IInv, TypeOK
    <2>2. \A op \in DOMAIN cells : cells[op].type # Plain /\ cells[op].data.status = "revoked" => op \in DOMAIN cells
        OBVIOUS
    <2> QED BY <1>1, <2>1 DEF StartInv
<1>3. FetchedInv' /\ CursorInv'
    BY <1>1 DEF FetchedInv, IsSequence, CursorInv
<1>4. SteadyInv'
    <2> SUFFICES ASSUME NEW op \in Steady'
                 PROVE  KeyBefore(<<>>, KeyOf(op))
        BY <1>1 DEF SteadyInv, KeyOf
    <2>1. op \in RegistryCells(cells)
        BY <1>1 DEF Steady, RegistryCells
    <2>2. KeyOf(op) \in KeySet
        BY <2>1, CellsAreOrdered DEF IInv, Ordered
    <2> QED BY <2>2, KeyOrder
<1>5. PublishedInv' /\ NothingStalePublished'
    BY <1>1 DEF PublishedInv, Succeeded, NothingStalePublished
<1> QED BY <1>2, <1>3, <1>4, <1>5 DEF ScanInv

LEMMA FailIsFine ==
    ASSUME ScanInv, phase = "paging", Fail
    PROVE  ScanInv'
<1>1. /\ UNCHANGED <<cells, height, atStart, cached_peers, quarantined>>
      /\ phase' = "idle" /\ outcome' = "failed" /\ cursor' = <<>> /\ fetched' = <<>>
    BY DEF Fail, vars
<1>2. StartInv'
    BY <1>1 DEF ScanInv, StartInv
<1>3. FetchedInv' /\ CursorInv'
    BY <1>1 DEF FetchedInv, IsSequence, CursorInv
<1>4. SteadyInv'
    BY <1>1 DEF SteadyInv
<1>5. PublishedInv' /\ NothingStalePublished'
    BY <1>1 DEF PublishedInv, Succeeded, ScanInv, NothingStalePublished
<1> QED BY <1>2, <1>3, <1>4, <1>5 DEF ScanInv

LEMMA PublishIsFine ==
    ASSUME IInv, ScanInv, Publish
    PROVE  ScanInv'
<1>1. /\ UNCHANGED <<cells, height, atStart, fetched>> /\ phase = "paging"
      /\ phase' = "idle" /\ outcome' = "ok" /\ cursor' = <<>>
      /\ cached_peers' = Published(fetched)
    BY DEF Publish, vars
<1>2. Rest(cursor) = {}
    BY RepliesAreInitial DEF Publish, IsInitial, IInv
<1>3. \A op \in Steady : IsRead(op)
    BY <1>1, <1>2 DEF ScanInv, SteadyInv, Steady, Rest
<1>4. StartInv' /\ FetchedInv'
    BY <1>1 DEF ScanInv, StartInv, FetchedInv
<1>5. CursorInv'
    BY <1>1 DEF CursorInv
<1>6. SteadyInv'
    BY <1>1 DEF ScanInv, SteadyInv, Steady, RegistryCells
<1>7. PublishedInv'
    BY <1>1, <1>3 DEF PublishedInv, Steady, RegistryCells, IsRead
<1>8. NothingStalePublished'
    BY <1>1 DEF NothingStalePublished
<1> QED BY <1>4, <1>5, <1>6, <1>7, <1>8 DEF ScanInv

\* What is fetched after a page: what was, and the page.
Joined(u, s, t) ==
    /\ IsSequence(u)
    /\ Len(u) \in Nat /\ DOMAIN u = 1..Len(u)
    /\ \A i \in DOMAIN s : i \in DOMAIN u /\ u[i] = s[i]
    /\ \A i \in DOMAIN t : Len(s) + i \in DOMAIN u /\ u[Len(s) + i] = t[i]
    /\ \A k \in DOMAIN u : k \in DOMAIN s \/ \E i \in DOMAIN t : k = Len(s) + i

LEMMA FetchedGrows ==
    ASSUME NEW s, NEW t, IsSequence(s), IsSequence(t)
    PROVE  Joined(s \o t, s, t)
<1> DEFINE S == {s[i] : i \in DOMAIN s} \cup {t[i] : i \in DOMAIN t}
           st == s \o t
<1>1. s \in Seq(S) /\ t \in Seq(S)
    BY DEF IsSequence
<1>2. /\ st \in Seq(S) /\ Len(st) = Len(s) + Len(t)
      /\ \A i \in 1..(Len(s) + Len(t)) :
            st[i] = IF i <= Len(s) THEN s[i] ELSE t[i - Len(s)]
    BY <1>1, ConcatProperties
<1> HIDE DEF st
<1>3. /\ DOMAIN s = 1..Len(s) /\ Len(s) \in Nat /\ DOMAIN t = 1..Len(t) /\ Len(t) \in Nat
      /\ DOMAIN st = 1..Len(st) /\ Len(st) \in Nat
    BY <1>1, <1>2
<1>4. \A i \in DOMAIN s : i \in DOMAIN st /\ st[i] = s[i]
    BY <1>2, <1>3
<1>5. \A i \in DOMAIN t : Len(s) + i \in DOMAIN st /\ st[Len(s) + i] = t[i]
    BY <1>2, <1>3
<1>6. ASSUME NEW k \in DOMAIN st
      PROVE  k \in DOMAIN s \/ \E i \in DOMAIN t : k = Len(s) + i
    <2>1. CASE k <= Len(s)
        BY <2>1, <1>3
    <2>2. CASE Len(s) < k
        <3>1. k - Len(s) \in DOMAIN t /\ k = Len(s) + (k - Len(s))
            BY <2>2, <1>2, <1>3
        <3> QED BY <3>1
    <2> QED BY <2>1, <2>2, <1>3
<1>7. IsSequence(st)
    <2> DEFINE R == {st[i] : i \in DOMAIN st}
    <2>1. st \in [1..Len(st) -> R]
        BY <1>2, <1>3
    <2>2. Len(st) \in Nat
        BY <1>3
    <2> HIDE DEF R
    <2>3. st \in Seq(R)
        BY <2>1, <2>2
    <2> QED BY <2>3 DEF IsSequence, R
<1>8. Joined(st, s, t)
    BY <1>3, <1>4, <1>5, <1>6, <1>7 DEF Joined
<1> QED BY <1>8 DEF st

LEMMA ReadPageIsFine ==
    ASSUME IInv, ScanInv, ReadPage
    PROVE  ScanInv'
<1> DEFINE page == get_cells(cursor)
           n == Len(fetched)
<1>1. /\ UNCHANGED <<cells, height, atStart, cached_peers, quarantined, phase, outcome>>
      /\ phase = "paging" /\ page # <<>>
      /\ fetched' = fetched \o page /\ cursor' = Key(Last(page).op, Last(page).cell)
    BY DEF ReadPage, vars
<1>2. IsInitial(page, Rest(cursor)) /\ TypeOK
    BY RepliesAreInitial DEF IInv
<1> HIDE DEF page
<1>3. /\ DOMAIN page = 1..Len(page) /\ Len(page) \in Nat
      /\ IsSequence(page) /\ IsSequence(fetched)
    BY <1>2 DEF IsInitial, ScanInv, FetchedInv
<1>4. /\ IsSequence(fetched')
      /\ Len(fetched') \in Nat /\ DOMAIN fetched' = 1..Len(fetched')
      /\ \A i \in DOMAIN fetched : i \in DOMAIN fetched' /\ fetched'[i] = fetched[i]
      /\ \A i \in DOMAIN page : n + i \in DOMAIN fetched' /\ fetched'[n + i] = page[i]
      /\ \A k \in DOMAIN fetched' : k \in DOMAIN fetched \/ \E i \in DOMAIN page : k = n + i
    <2>1. Joined(fetched', fetched, page)
        BY <1>1, <1>3, FetchedGrows
    <2> QED BY <2>1 DEF Joined
<1> HIDE DEF n
<1>5. ASSUME NEW i \in DOMAIN page
      PROVE  /\ page[i].op \in RegistryCells(cells) /\ page[i].cell = cells[page[i].op]
             /\ page[i].op[1] \in 0..height
             /\ Key(page[i].op, page[i].cell) = KeyOf(page[i].op)
             /\ KeyOf(page[i].op) \in KeySet
             /\ KeyBefore(cursor, KeyOf(page[i].op))
    <2>1. page[i].op \in Rest(cursor) /\ page[i].cell = cells[page[i].op]
        BY <1>2 DEF IsInitial
    <2>2. page[i].op \in RegistryCells(cells) /\ KeyBefore(cursor, KeyOf(page[i].op))
        BY <2>1 DEF Rest
    <2>3. page[i].op[1] \in 0..height
        BY <1>2, <2>2 DEF TypeOK, RegistryCells
    <2> QED BY <1>2, <2>1, <2>2, <2>3, CellsAreOrdered DEF Ordered, KeyOf
<1>6. Len(page) \in DOMAIN page /\ Last(page) = page[Len(page)]
    <2>1. Len(page) # 0
        BY <1>1, <1>2 DEF IsInitial
    <2> QED BY <2>1, <1>3 DEF Last
<1>7. /\ cursor' = KeyOf(Last(page).op) /\ cursor' \in KeySet /\ KeyBefore(cursor, cursor')
    BY <1>1, <1>5, <1>6
<1>8. StartInv'
    BY <1>1 DEF ScanInv, StartInv
<1>9. FetchedInv'
    <2>1. ASSUME NEW k \in DOMAIN fetched'
          PROVE  /\ fetched'[k].op[1] \in 0..height
                 /\ fetched'[k].op \in DOMAIN cells => cells[fetched'[k].op] = fetched'[k].cell
        <3>1. CASE k \in DOMAIN fetched
            BY <3>1, <1>4 DEF ScanInv, FetchedInv
        <3>2. CASE \E i \in DOMAIN page : k = n + i
            BY <3>2, <1>4, <1>5
        <3> QED BY <3>1, <3>2, <1>4
    <2>2. ASSUME NEW i \in DOMAIN fetched, NEW j \in DOMAIN page, fetched[i].op = page[j].op
          PROVE  FALSE
        <3>1. fetched[i].cell = cells[fetched[i].op]
            BY <1>5, <2>2 DEF ScanInv, FetchedInv, RegistryCells
        <3>2. Key(fetched[i].op, fetched[i].cell) = KeyOf(page[j].op)
            BY <2>2, <3>1 DEF KeyOf
        <3> QED BY <3>2, <1>1, <1>5 DEF ScanInv, CursorInv
    <2>3. ASSUME NEW k \in DOMAIN fetched', NEW l \in DOMAIN fetched',
                 fetched'[k].op = fetched'[l].op
          PROVE  k = l
        <3>1. CASE k \in DOMAIN fetched /\ l \in DOMAIN fetched
            BY <3>1, <2>3, <1>4 DEF ScanInv, FetchedInv
        <3>2. CASE k \in DOMAIN fetched /\ \E i \in DOMAIN page : l = n + i
            BY <3>2, <2>2, <2>3, <1>4
        <3>3. CASE l \in DOMAIN fetched /\ \E i \in DOMAIN page : k = n + i
            BY <3>3, <2>2, <2>3, <1>4
        <3>4. CASE (\E i \in DOMAIN page : k = n + i) /\ \E j \in DOMAIN page : l = n + j
            <4>1. PICK i \in DOMAIN page, j \in DOMAIN page : k = n + i /\ l = n + j
                BY <3>4
            <4>2. page[i].op = page[j].op
                BY <4>1, <2>3, <1>4
            <4> QED BY <4>1, <4>2, <1>2 DEF IsInitial
        <3> QED BY <3>1, <3>2, <3>3, <3>4, <1>4
    <2> QED BY <1>1, <1>4, <2>1, <2>3 DEF FetchedInv
<1>10. CursorInv'
    <2> SUFFICES ASSUME NEW k \in DOMAIN fetched'
                 PROVE  /\ Key(fetched'[k].op, fetched'[k].cell) \in KeySet
                        /\ ~KeyBefore(cursor', Key(fetched'[k].op, fetched'[k].cell))
        BY <1>7 DEF CursorInv
    <2>1. CASE k \in DOMAIN fetched
        <3> DEFINE key == Key(fetched[k].op, fetched[k].cell)
        <3>1. key \in KeySet /\ ~KeyBefore(cursor, key)
            BY <2>1, <1>1 DEF ScanInv, CursorInv
        <3>2. cursor \in KeySet
            BY <3>1, KeyOrder DEF ScanInv, CursorInv
        <3>3. ~KeyBefore(cursor', key)
            BY <3>1, <3>2, <1>7, KeyOrder
        <3> QED BY <2>1, <3>1, <3>3, <1>4
    <2>2. CASE \E i \in DOMAIN page : k = n + i
        <3>1. PICK i \in DOMAIN page : k = n + i
            BY <2>2
        <3>2. i = Len(page) \/ KeyBefore(KeyOf(page[i].op), cursor')
            BY <1>2, <1>7 DEF IsInitial
        <3>3. ~KeyBefore(cursor', KeyOf(page[i].op))
            <4>1. CASE i = Len(page)
                BY <4>1, <1>6, <1>7, KeyOrder
            <4>2. CASE KeyBefore(KeyOf(page[i].op), cursor')
                BY <4>2, <1>5, <1>7, KeyOrder
            <4> QED BY <3>2, <4>1, <4>2
        <3> QED BY <3>1, <3>3, <1>4, <1>5
    <2> QED BY <2>1, <2>2, <1>4
<1>11. Steady' = Steady
    BY <1>1 DEF Steady, RegistryCells
<1>12. SteadyInv'
    <2> SUFFICES ASSUME NEW op \in Steady
                 PROVE  /\ IsRead(op)' \/ KeyBefore(cursor', KeyOf(op))
                        /\ \A k \in DOMAIN fetched' :
                            fetched'[k].cell.type = cells[op].type => fetched'[k].op = op
        BY <1>1, <1>11 DEF SteadyInv, KeyOf
    <2>1. IsRead(op)' \/ KeyBefore(cursor', KeyOf(op))
        <3>1. CASE IsRead(op)
            BY <3>1, <1>4 DEF IsRead
        <3>2. CASE KeyBefore(cursor, KeyOf(op))
            <4>1. op \in Rest(cursor)
                BY <3>2 DEF Rest, Steady
            <4>2. (\E i \in DOMAIN page : page[i].op = op) \/ KeyBefore(cursor', KeyOf(op))
                BY <4>1, <1>2, <1>7 DEF IsInitial
            <4> QED BY <4>2, <1>4 DEF IsRead
        <3> QED BY <3>1, <3>2, <1>1 DEF ScanInv, SteadyInv
    <2>2. ASSUME NEW k \in DOMAIN fetched', fetched'[k].cell.type = cells[op].type
          PROVE  fetched'[k].op = op
        <3>1. CASE k \in DOMAIN fetched
            BY <3>1, <2>2, <1>4 DEF ScanInv, SteadyInv
        <3>2. CASE \E i \in DOMAIN page : k = n + i
            <4>1. PICK i \in DOMAIN page : fetched'[k] = page[i]
                BY <3>2, <1>4
            <4>2. cells[page[i].op].type = cells[op].type /\ page[i].op \in RegistryCells(cells)
                BY <4>1, <2>2, <1>5
            <4> QED BY <4>1, <4>2 DEF IInv, OneLiveCellPerIdentity, RegistryCells, Steady
        <3> QED BY <3>1, <3>2, <1>4
    <2> QED BY <2>1, <2>2
<1>13. PublishedInv' /\ NothingStalePublished'
    BY <1>1 DEF PublishedInv, Succeeded, ScanInv, NothingStalePublished
<1> QED BY <1>8, <1>9, <1>10, <1>12, <1>13 DEF ScanInv

\* A transaction makes new outpoints, and changes no cell that it keeps.
LEMMA OldCellsAreKept ==
    ASSUME IInv, CommitMeanwhile
    PROVE  /\ height \in Nat /\ height' = height + 1
           /\ \A op \in DOMAIN cells' :
                op[1] \in 0..height => op \in DOMAIN cells /\ cells'[op] = cells[op]
<1>1. CellsAreNumbered
    BY LiveStep DEF CommitMeanwhile, Next
<1>2. height \in Nat /\ height' = height + 1
    BY <1>1, BoundsAssumption DEF CellsAreNumbered, IInv, TypeOK
<1>3. ASSUME NEW op \in DOMAIN cells', op[1] \in 0..height
      PROVE  op \in DOMAIN cells /\ cells'[op] = cells[op]
    BY <1>1, <1>2, <1>3 DEF CellsAreNumbered
<1> QED BY <1>2, <1>3

LEMMA StartSurvivesCommit ==
    ASSUME IInv, StartInv, CommitMeanwhile
    PROVE  StartInv'
<1>1. UNCHANGED atStart
    BY DEF CommitMeanwhile, scanVars
<1>2. \A p \in DOMAIN cells : IsFinal(p) => p \in DOMAIN cells' /\ cells'[p] = cells[p]
    BY FinalStep DEF CommitMeanwhile, Next
<1> SUFFICES ASSUME NEW op \in DOMAIN atStart
             PROVE  /\ op[1] \in 0..height'
                    /\ op \in DOMAIN cells' => cells'[op] = atStart[op]
                    /\ atStart[op].type # Plain /\ atStart[op].data.status = "revoked"
                        => op \in DOMAIN cells'
    BY <1>1 DEF StartInv
<1>3. /\ op[1] \in 0..height /\ (op \in DOMAIN cells => cells[op] = atStart[op])
      /\ atStart[op].type # Plain /\ atStart[op].data.status = "revoked" => op \in DOMAIN cells
    BY DEF StartInv
<1>4. op \in DOMAIN cells' => cells'[op] = atStart[op]
    BY <1>3, OldCellsAreKept
<1>5. atStart[op].type # Plain /\ atStart[op].data.status = "revoked" => op \in DOMAIN cells'
    BY <1>3, <1>2 DEF IsFinal
<1>6. op[1] \in 0..height'
    BY <1>3, OldCellsAreKept
<1> QED BY <1>4, <1>5, <1>6

LEMMA CommitIsFine ==
    ASSUME IInv, ScanInv, CommitMeanwhile
    PROVE  ScanInv'
<1>1. UNCHANGED <<cached_peers, quarantined, phase, outcome, cursor, fetched, atStart>>
    BY DEF CommitMeanwhile, scanVars
<1>2. height \in Nat /\ height' = height + 1
    BY OldCellsAreKept
<1>3. ASSUME NEW op \in DOMAIN cells', op[1] \in 0..height
      PROVE  op \in DOMAIN cells /\ cells'[op] = cells[op]
    BY <1>3, OldCellsAreKept
<1>4. StartInv'
    BY StartSurvivesCommit DEF ScanInv
<1>5. FetchedInv'
    <2> SUFFICES ASSUME NEW i \in DOMAIN fetched
                 PROVE  /\ fetched[i].op[1] \in 0..height'
                        /\ fetched[i].op \in DOMAIN cells' => cells'[fetched[i].op] = fetched[i].cell
        BY <1>1 DEF ScanInv, FetchedInv
    <2>1. /\ fetched[i].op[1] \in 0..height
          /\ fetched[i].op \in DOMAIN cells => cells[fetched[i].op] = fetched[i].cell
        BY DEF ScanInv, FetchedInv
    <2> QED BY <2>1, <1>2, <1>3
<1>6. CursorInv'
    BY <1>1 DEF ScanInv, CursorInv
<1>7. ASSUME NEW op \in Steady'
      PROVE  op \in Steady /\ cells'[op] = cells[op]
    <2>1. op \in DOMAIN cells' /\ op \in DOMAIN atStart /\ cells'[op].type # Plain
        BY <1>1 DEF Steady, RegistryCells
    <2>2. op[1] \in 0..height
        BY <2>1 DEF ScanInv, StartInv
    <2> QED BY <2>1, <2>2, <1>3 DEF Steady, RegistryCells
<1>8. SteadyInv'
    <2> SUFFICES ASSUME NEW op \in Steady'
                 PROVE  /\ phase = "paging" => IsRead(op) \/ KeyBefore(cursor, Key(op, cells'[op]))
                        /\ \A i \in DOMAIN fetched :
                            fetched[i].cell.type = cells'[op].type => fetched[i].op = op
        BY <1>1 DEF SteadyInv, KeyOf, IsRead
    <2> QED BY <1>7 DEF ScanInv, SteadyInv, KeyOf
<1>9. PublishedInv'
    BY <1>1, <1>7 DEF ScanInv, PublishedInv, Succeeded, IsRead
<1>10. NothingStalePublished'
    BY <1>1 DEF ScanInv, NothingStalePublished
<1> QED BY <1>4, <1>5, <1>6, <1>8, <1>9, <1>10 DEF ScanInv

-----------------------------------------------------------------------------
(* What holds wherever the pages come from *)

SingleAtStart ==
    \A p, q \in DOMAIN atStart :
        atStart[p].type = atStart[q].type /\ atStart[p].type # Plain => p = q

\* Of an identity that was revoked at the start, only its tombstone is read.
RevokedRead ==
    \A op \in RegistryCells(atStart) : atStart[op].data.status = "revoked" =>
        \A i \in DOMAIN fetched :
            fetched[i].cell.type = atStart[op].type => fetched[i].cell.data.status = "revoked"

PublishedIsRead == Succeeded => cached_peers = Published(fetched)

ReadInv ==
    /\ StartInv /\ SingleAtStart /\ IsSequence(fetched) /\ RevokedRead
    /\ PublishedIsRead /\ NothingStalePublished

\* The longer part only holds while every page continues after the cursor.
DiscoveryInv == ReadInv /\ (~astray => ScanInv)

\* A cell that is live or was at the start and has the identity of one that was
\* revoked at the start is that one.
LEMMA ShownIsTombstone ==
    ASSUME IInv, ReadInv, NEW shown \in {cells, atStart}, NEW q \in RegistryCells(shown),
           NEW op \in RegistryCells(atStart), atStart[op].data.status = "revoked",
           shown[q].type = atStart[op].type
    PROVE  shown[q].data.status = "revoked"
<1>1. op \in DOMAIN cells /\ cells[op] = atStart[op] /\ atStart[op].type # Plain
    BY DEF ReadInv, StartInv, RegistryCells
<1>2. CASE shown = cells
    <2>1. q = op
        BY <1>1, <1>2 DEF IInv, OneLiveCellPerIdentity, RegistryCells
    <2> QED BY <2>1, <1>1, <1>2
<1>3. CASE shown = atStart
    BY <1>1, <1>3 DEF ReadInv, SingleAtStart, RegistryCells
<1> QED BY <1>2, <1>3

LEMMA AppendGrows ==
    ASSUME NEW s, NEW x, IsSequence(s)
    PROVE  /\ IsSequence(Append(s, x))
           /\ \A k \in DOMAIN Append(s, x) :
                Append(s, x)[k] = x \/ (k \in DOMAIN s /\ Append(s, x)[k] = s[k])
<1> DEFINE S == {s[i] : i \in DOMAIN s} \cup {x}
           sx == Append(s, x)
<1>1. s \in Seq(S) /\ x \in S
    BY DEF IsSequence
<1>2. /\ sx \in Seq(S) /\ Len(sx) = Len(s) + 1 /\ Len(s) \in Nat
      /\ \A i \in 1..Len(s) : sx[i] = s[i]
      /\ sx[Len(s) + 1] = x /\ DOMAIN s = 1..Len(s) /\ DOMAIN sx = 1..Len(sx)
      /\ Len(sx) \in Nat
    <2> HIDE DEF S
    <2> QED BY <1>1
<1> HIDE DEF sx
<1>3. ASSUME NEW k \in DOMAIN sx
      PROVE  sx[k] = x \/ (k \in DOMAIN s /\ sx[k] = s[k])
    <2>1. k = Len(s) + 1 \/ k \in 1..Len(s)
        BY <1>2
    <2> QED BY <2>1, <1>2
<1>4. IsSequence(sx)
    <2> DEFINE R == {sx[i] : i \in DOMAIN sx}
    <2>1. sx \in [1..Len(sx) -> R]
        BY <1>2
    <2>2. Len(sx) \in Nat
        BY <1>2
    <2> HIDE DEF R
    <2>3. sx \in Seq(R)
        BY <2>1, <2>2
    <2> QED BY <2>3 DEF IsSequence, R
<1> QED BY <1>3, <1>4 DEF sx

LEMMA ReadPageIsRead ==
    ASSUME IInv, ReadInv, ReadPage
    PROVE  ReadInv'
<1> DEFINE page == get_cells(cursor)
<1>1. /\ UNCHANGED <<cells, height, atStart, cached_peers, quarantined, phase, outcome>>
      /\ phase = "paging" /\ fetched' = fetched \o page
    BY DEF ReadPage, vars
<1>2. IsInitial(page, Rest(cursor))
    BY RepliesAreInitial DEF IInv
<1> HIDE DEF page
<1>3. Joined(fetched', fetched, page)
    BY <1>1, <1>2, FetchedGrows DEF IsInitial, ReadInv
<1>4. RevokedRead'
    <2> SUFFICES ASSUME NEW op \in RegistryCells(atStart), atStart[op].data.status = "revoked",
                        NEW k \in DOMAIN fetched', fetched'[k].cell.type = atStart[op].type
                 PROVE  fetched'[k].cell.data.status = "revoked"
        BY <1>1 DEF RevokedRead, RegistryCells
    <2>1. CASE k \in DOMAIN fetched
        BY <2>1, <1>3 DEF Joined, ReadInv, RevokedRead
    <2>2. CASE \E i \in DOMAIN page : k = Len(fetched) + i
        <3>1. PICK i \in DOMAIN page : fetched'[k] = page[i]
            BY <2>2, <1>3 DEF Joined
        <3>2. page[i].op \in RegistryCells(cells) /\ page[i].cell = cells[page[i].op]
            BY <1>2 DEF IsInitial, Rest
        <3> QED BY <3>1, <3>2, ShownIsTombstone
    <2> QED BY <2>1, <2>2, <1>3 DEF Joined
<1>5. IsSequence(fetched')
    BY <1>3 DEF Joined
<1>6. StartInv' /\ SingleAtStart'
    BY <1>1 DEF ReadInv, StartInv, SingleAtStart
<1>7. PublishedIsRead' /\ NothingStalePublished'
    BY <1>1 DEF ReadInv, PublishedIsRead, Succeeded, NothingStalePublished
<1> QED BY <1>4, <1>5, <1>6, <1>7 DEF ReadInv

LEMMA ReadElsewhereIsRead ==
    ASSUME IInv, ReadInv, ReadElsewhere
    PROVE  ReadInv'
<1>1. /\ UNCHANGED <<cells, height, atStart, cached_peers, quarantined, phase, outcome>>
      /\ phase = "paging"
    BY DEF ReadElsewhere, vars
<1>2. PICK shown \in {cells, atStart} : \E q \in RegistryCells(shown) :
          fetched' = Append(fetched, [op |-> q, cell |-> shown[q]])
    BY DEF ReadElsewhere
<1>3. PICK q \in RegistryCells(shown) : fetched' = Append(fetched, [op |-> q, cell |-> shown[q]])
    BY <1>2
<1>4. /\ IsSequence(fetched')
      /\ \A k \in DOMAIN fetched' :
            \/ fetched'[k] = [op |-> q, cell |-> shown[q]]
            \/ k \in DOMAIN fetched /\ fetched'[k] = fetched[k]
    BY <1>3, AppendGrows DEF ReadInv
<1>5. RevokedRead'
    <2> SUFFICES ASSUME NEW op \in RegistryCells(atStart), atStart[op].data.status = "revoked",
                        NEW k \in DOMAIN fetched', fetched'[k].cell.type = atStart[op].type
                 PROVE  fetched'[k].cell.data.status = "revoked"
        BY <1>1 DEF RevokedRead, RegistryCells
    <2>1. CASE k \in DOMAIN fetched /\ fetched'[k] = fetched[k]
        BY <2>1 DEF ReadInv, RevokedRead
    <2>2. CASE fetched'[k] = [op |-> q, cell |-> shown[q]]
        <3>1. fetched'[k].cell = shown[q]
            BY <2>2
        <3> QED BY <3>1, ShownIsTombstone
    <2> QED BY <2>1, <2>2, <1>4
<1>6. StartInv' /\ SingleAtStart'
    BY <1>1 DEF ReadInv, StartInv, SingleAtStart
<1>7. PublishedIsRead' /\ NothingStalePublished'
    BY <1>1 DEF ReadInv, PublishedIsRead, Succeeded, NothingStalePublished
<1> QED BY <1>4, <1>5, <1>6, <1>7 DEF ReadInv

LEMMA ReadStep == IInv /\ ReadInv /\ [DiscoveryNext]_discoveryVars => ReadInv'
<1> SUFFICES ASSUME IInv, ReadInv, [DiscoveryNext]_discoveryVars PROVE ReadInv'
    OBVIOUS
<1>1. CASE discover_peers
    <2>1. ScanInv' /\ atStart' = cells /\ fetched' = <<>>
        BY <1>1, StartIsFine DEF discover_peers
    <2>2. SingleAtStart'
        BY <2>1 DEF IInv, OneLiveCellPerIdentity, SingleAtStart
    <2>3. RevokedRead'
        BY <2>1 DEF RevokedRead
    <2> QED BY <2>1, <2>2, <2>3
        DEF ReadInv, ScanInv, FetchedInv, PublishedInv, PublishedIsRead
<1>2. CASE RpcFails \/ TooManyPages \/ TooManyCells
    <2>1. /\ UNCHANGED <<cells, height, atStart, cached_peers, quarantined>> /\ phase = "paging"
          /\ phase' = "idle" /\ outcome' = "failed" /\ fetched' = <<>>
        BY <1>2 DEF RpcFails, TooManyPages, TooManyCells, Fail, vars
    <2>2. StartInv' /\ SingleAtStart' /\ NothingStalePublished'
        BY <2>1 DEF ReadInv, StartInv, SingleAtStart, NothingStalePublished
    <2>3. IsSequence(fetched') /\ RevokedRead' /\ PublishedIsRead'
        BY <2>1 DEF IsSequence, RevokedRead, PublishedIsRead, Succeeded
    <2> QED BY <2>2, <2>3 DEF ReadInv
<1>3. CASE ReadPage
    BY <1>3, ReadPageIsRead
<1>4. CASE ReadElsewhere
    BY <1>4, ReadElsewhereIsRead
<1>5. CASE Publish
    <2>1. /\ UNCHANGED <<cells, height, atStart, fetched>>
          /\ phase' = "idle" /\ outcome' = "ok" /\ cached_peers' = Published(fetched)
        BY <1>5 DEF Publish, vars
    <2>2. StartInv' /\ SingleAtStart' /\ RevokedRead' /\ IsSequence(fetched')
        BY <2>1 DEF ReadInv, StartInv, SingleAtStart, RevokedRead, RegistryCells
    <2>3. PublishedIsRead' /\ NothingStalePublished'
        BY <2>1 DEF PublishedIsRead, NothingStalePublished
    <2> QED BY <2>2, <2>3 DEF ReadInv
<1>6. CASE CommitMeanwhile
    <2>1. UNCHANGED <<cached_peers, quarantined, phase, outcome, fetched, atStart>>
        BY <1>6 DEF CommitMeanwhile, scanVars
    <2>2. StartInv'
        BY <1>6, StartSurvivesCommit DEF ReadInv
    <2>3. SingleAtStart' /\ RevokedRead' /\ IsSequence(fetched')
        BY <2>1 DEF ReadInv, SingleAtStart, RevokedRead, RegistryCells
    <2>4. PublishedIsRead' /\ NothingStalePublished'
        BY <2>1 DEF ReadInv, PublishedIsRead, Succeeded, NothingStalePublished
    <2> QED BY <2>2, <2>3, <2>4 DEF ReadInv
<1>7. CASE UNCHANGED discoveryVars
    <2>1. UNCHANGED <<cells, height>> /\ UNCHANGED scanVars
        BY <1>7 DEF discoveryVars, vars
    <2>2. StartInv' /\ SingleAtStart' /\ RevokedRead' /\ IsSequence(fetched')
        BY <2>1 DEF ReadInv, StartInv, SingleAtStart, RevokedRead, RegistryCells, scanVars
    <2>3. PublishedIsRead' /\ NothingStalePublished'
        BY <2>1 DEF ReadInv, PublishedIsRead, Succeeded, NothingStalePublished, scanVars
    <2> QED BY <2>2, <2>3 DEF ReadInv
<1> QED BY <1>1, <1>2, <1>3, <1>4, <1>5, <1>6, <1>7 DEF DiscoveryNext, Scan

LEMMA DiscoveryStep ==
    IInv /\ DiscoveryInv /\ [DiscoveryNext]_discoveryVars => IInv' /\ DiscoveryInv'
<1> SUFFICES ASSUME IInv, DiscoveryInv, [DiscoveryNext]_discoveryVars
             PROVE  IInv' /\ DiscoveryInv'
    OBVIOUS
<1>1. [Next]_vars
    BY DEF DiscoveryNext, discover_peers, Scan, RpcFails, TooManyPages, TooManyCells, Fail,
        ReadPage, ReadElsewhere, Publish, CommitMeanwhile, Next, discoveryVars
<1>2. IInv'
    BY <1>1, NextIInv
<1>3. ReadInv'
    BY ReadStep DEF DiscoveryInv
<1>4. ASSUME ~astray'
      PROVE  ScanInv'
    <2>1. CASE discover_peers
        BY <2>1, StartIsFine
    <2>2. CASE ~discover_peers
        <3>1. ~ReadElsewhere /\ ScanInv
            BY <1>4, <2>2 DEF DiscoveryInv, DiscoveryNext, Scan, RpcFails, TooManyPages,
                TooManyCells, Fail, ReadPage, ReadElsewhere, Publish, CommitMeanwhile, scanVars,
                discoveryVars
        <3>2. CASE RpcFails \/ TooManyPages \/ TooManyCells
            BY <3>1, <3>2, FailIsFine DEF RpcFails, TooManyPages, TooManyCells
        <3>3. CASE ReadPage
            BY <3>1, <3>3, ReadPageIsFine
        <3>4. CASE Publish
            BY <3>1, <3>4, PublishIsFine
        <3>5. CASE CommitMeanwhile
            BY <3>1, <3>5, CommitIsFine
        <3>6. CASE UNCHANGED discoveryVars
            <4>1. UNCHANGED <<cells, height>> /\ UNCHANGED scanVars
                BY <3>6 DEF discoveryVars, vars
            <4>2. StartInv' /\ FetchedInv' /\ CursorInv' /\ NothingStalePublished'
                BY <3>1, <4>1
                DEF ScanInv, StartInv, FetchedInv, CursorInv, NothingStalePublished, scanVars
            <4>3. SteadyInv' /\ PublishedInv'
                BY <3>1, <4>1 DEF ScanInv, SteadyInv, PublishedInv, Succeeded, Steady,
                    RegistryCells, IsRead, KeyOf, scanVars
            <4> QED BY <4>2, <4>3 DEF ScanInv
        <3> QED BY <2>2, <3>1, <3>2, <3>3, <3>4, <3>5, <3>6 DEF DiscoveryNext, Scan
    <2> QED BY <2>1, <2>2
<1> QED BY <1>2, <1>3, <1>4 DEF DiscoveryInv

LEMMA DiscoveryInvariance == DiscoverySpec => [](IInv /\ DiscoveryInv)
<1>1. DiscoveryInit => IInv /\ DiscoveryInv
    <2> SUFFICES ASSUME DiscoveryInit PROVE IInv /\ DiscoveryInv
        OBVIOUS
    <2>1. IInv /\ ScanInv
        BY InitIsFine
    <2>2. SingleAtStart /\ RevokedRead
        BY <2>1 DEF DiscoveryInit, SingleAtStart, RevokedRead, IInv, OneLiveCellPerIdentity
    <2> QED BY <2>1, <2>2
        DEF DiscoveryInv, ReadInv, ScanInv, FetchedInv, PublishedInv, PublishedIsRead
<1> QED BY <1>1, DiscoveryStep, PTL DEF DiscoverySpec

-----------------------------------------------------------------------------
(* The theorems *)

(***************************************************************************)
(* However the chain moves between the pages, and in either order of the   *)
(* keys, a discovery that succeeds publishes every receiver whose online   *)
(* cell was live from its start to its end (discovery.py:215-239).         *)
(***************************************************************************)
THEOREM NothingIsMissed == DiscoverySpec => []NothingMissed
<1>1. IInv /\ DiscoveryInv => NothingMissed
    <2> SUFFICES ASSUME IInv, ScanInv, Succeeded,
                        NEW op \in RegistryCells(cells), op \in DOMAIN atStart,
                        _parse_receiver_cell(cells[op]), _is_receiver_valid(cells[op].data)
                 PROVE  cells[op].type \in DOMAIN cached_peers /\ cached_peers[cells[op].type] = op
        BY DEF NothingMissed, DiscoveryInv
    <2> DEFINE id == cells[op].type
    <2>1. op \in Steady /\ cached_peers = Published(fetched)
        BY DEF Steady, ScanInv, PublishedInv
    <2>2. PICK i \in DOMAIN fetched : fetched[i].op = op
        BY <2>1 DEF ScanInv, PublishedInv, IsRead
    <2>3. fetched[i].cell = cells[op]
        BY <2>2 DEF ScanInv, FetchedInv, RegistryCells
    <2>4. \A j \in DOMAIN fetched : fetched[j].cell.type = id => j = i
        BY <2>1, <2>2 DEF ScanInv, SteadyInv, FetchedInv
    <2>5. i \in Active(fetched)
        BY <2>3, <2>4 DEF Active, Duplicates, CellsOf
    <2>6. (CHOOSE k \in Active(fetched) : fetched[k].cell.type = id) = i
        BY <2>3, <2>4, <2>5 DEF Active
    <2>7. id \in {fetched[k].cell.type : k \in Active(fetched)}
        BY <2>3, <2>5
    <2> QED BY <2>1, <2>2, <2>6, <2>7 DEF Published
<1> QED BY <1>1, DiscoveryInvariance, PTL

(***************************************************************************)
(* An identity that was revoked when a discovery started is not published, *)
(* wherever the pages come from: its tombstone is never spent, so no other *)
(* cell of it can be read.                                                 *)
(***************************************************************************)
THEOREM RevokedIsOut == DiscoverySpec => []RevokedStaysOut
<1>1. DiscoveryInv => RevokedStaysOut
    <2> SUFFICES ASSUME ReadInv, Succeeded, NEW op \in RegistryCells(atStart),
                        atStart[op].data.status = "revoked",
                        atStart[op].type \in DOMAIN cached_peers
                 PROVE  FALSE
        BY DEF RevokedStaysOut, DiscoveryInv
    <2>1. PICK i \in Active(fetched) : fetched[i].cell.type = atStart[op].type
        BY DEF ReadInv, PublishedIsRead, Published
    <2>2. i \in DOMAIN fetched /\ fetched[i].cell.data.status = "online"
        BY <2>1 DEF Active, _is_receiver_valid
    <2> QED BY <2>1, <2>2 DEF ReadInv, RevokedRead
<1> QED BY <1>1, DiscoveryInvariance, PTL

\* While a discovery runs, and after it failed, nothing is published
\* (discovery.py:146-152).
THEOREM NothingIsStale == DiscoverySpec => []NothingStalePublished
BY DiscoveryInvariance, PTL DEF DiscoveryInv, ReadInv

\* An identity of which two records were read is withheld
\* (discovery.py:158-167).
THEOREM NothingSupersededIsPublished == DiscoverySpec => []NothingSupersededPublished
<1>1. DiscoveryInv => NothingSupersededPublished
    <2> SUFFICES ASSUME ReadInv, Succeeded, NEW id \in DOMAIN cached_peers,
                        NEW i \in DOMAIN fetched, fetched[i].cell.type = id
                 PROVE  fetched[i].op = cached_peers[id]
        BY DEF NothingSupersededPublished, DiscoveryInv
    <2>1. cached_peers = Published(fetched)
        BY DEF ReadInv, PublishedIsRead
    <2> DEFINE k == CHOOSE k \in Active(fetched) : fetched[k].cell.type = id
    <2>2. cached_peers[id] = fetched[k].op /\ \E j \in Active(fetched) : fetched[j].cell.type = id
        BY <2>1 DEF Published
    <2>3. k \in Active(fetched) /\ fetched[k].cell.type = id
        BY <2>2
    <2> HIDE DEF k
    <2>4. k \in DOMAIN fetched /\ id \notin Duplicates(fetched)
        BY <2>3 DEF Active
    <2>5. i = k
        BY <2>3, <2>4 DEF Duplicates, CellsOf, Identities
    <2> QED BY <2>2, <2>5
<1> QED BY <1>1, DiscoveryInvariance, PTL
=============================================================================

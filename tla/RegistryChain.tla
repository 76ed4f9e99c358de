---------------------------- MODULE RegistryChain ----------------------------
(***************************************************************************)
(* The CKB chain as the Registry V2 type script sees it: live cells, and   *)
(* transactions that spend some of them and create others, committed only  *)
(* when the type script accepts every registry group of the transaction    *)
(* (contracts/registry-v2/src/entry.rs and record.rs).                     *)
(*                                                                         *)
(* Nothing restricts who builds a transaction: Commit quantifies over      *)
(* every choice of inputs, output types, output locks and output data, so  *)
(* burns, merges, splits, duplicate mints and resurrections are all tried. *)
(*                                                                         *)
(* Outside the repository, and modelled from how it is used: an input must *)
(* be live and is spent once; outpoints are never reused; the Type-ID hash *)
(* of ckb_std has no collisions, so an identity IS the pair of the first   *)
(* input it was derived from and its output index.  Lock scripts decide    *)
(* who may spend a cell; the type script does not look at them.            *)
(***************************************************************************)
EXTENDS Integers, Functions

CONSTANTS
    Owners,       \* owner locks
    Labels,       \* receiver_id values
    Payloads,     \* the records an output may carry, valid and invalid
    Plain,        \* the type of a cell without a registry type script
    NoData,       \* the data of such a cell
    MaxSequence,  \* u64::MAX of the sequence field
    MaxTxs,       \* bound: transactions committed after genesis
    MaxOutputs,   \* bound: outputs of one transaction
    MaxInputs     \* bound: inputs of one transaction

VARIABLES
    cells,   \* outpoint -> cell, for the live cells
    height   \* number of transactions committed

vars == <<cells, height>>

OutputIndex == 0..(MaxOutputs - 1)
OutPoint == (0..MaxTxs) \X OutputIndex
Identity == OutPoint \X OutputIndex

Statuses == {"online", "offline", "degraded", "revoked"}
StreamFields == {"endpoint", "protocol", "format"}

\* wellFormed stands for the checks on one field alone: strict JSON, schema
\* version, label syntax, coordinates, capabilities, metadata hash.
Record ==
    [wellFormed : BOOLEAN, label : Labels, status : Statuses,
     sequence : 0..MaxSequence, updated_at : Nat, stream : SUBSET StreamFields]

Cell == [type : Identity \cup {Plain}, lock : Owners, data : Record \cup {NoData}]

ASSUME BoundsAssumption ==
    /\ MaxSequence \in Nat
    /\ MaxTxs \in Nat
    /\ MaxOutputs \in Nat \ {0}
    /\ MaxInputs \in Nat \ {0}

ASSUME PayloadsAssumption == Payloads \subseteq Record

ASSUME MarkersAssumption == Plain \notin Identity /\ NoData \notin Record

-----------------------------------------------------------------------------
(* Record rules: record.rs *)

validate(r) ==
    /\ r.wellFormed
    /\ r.updated_at # 0
    /\ "endpoint" \in r.stream => "protocol" \in r.stream
    /\ r.status = "revoked" => r.stream = {}

\* Mutant: the record of a new identity is decoded but not validated.
validate_creation_Unvalidated(r) == r.sequence = 0 /\ r.status # "revoked"

validate_creation(r) ==
    /\ validate(r)
    /\ r.sequence = 0
    /\ r.status # "revoked"

\* Mutants of the rule below: a dropped comparison each.
validate_successor_AnyLabel(next, previous) ==
    /\ validate(previous) /\ validate(next)
    /\ previous.status # "revoked"
    /\ previous.sequence < MaxSequence
    /\ next.sequence = previous.sequence + 1
    /\ next.updated_at >= previous.updated_at

validate_successor_Resurrects(next, previous) ==
    /\ validate(previous) /\ validate(next)
    /\ next.label = previous.label
    /\ previous.sequence < MaxSequence
    /\ next.sequence = previous.sequence + 1
    /\ next.updated_at >= previous.updated_at

validate_successor_AnyLaterSequence(next, previous) ==
    /\ validate(previous) /\ validate(next)
    /\ previous.status # "revoked"
    /\ next.label = previous.label
    /\ next.sequence > previous.sequence
    /\ next.updated_at >= previous.updated_at

validate_successor(next, previous) ==
    /\ validate(previous)
    /\ validate(next)
    /\ previous.status # "revoked"
    /\ next.label = previous.label
    /\ previous.sequence < MaxSequence       \* checked_add
    /\ next.sequence = previous.sequence + 1
    /\ next.updated_at >= previous.updated_at

-----------------------------------------------------------------------------
(* Script groups.  inputs is an injective sequence of live outpoints, types *)
(* maps an output index to the type script of that output.                  *)

GroupInput(inputs, id) == {i \in DOMAIN inputs : cells[inputs[i]].type = id}
GroupOutput(types, id) == {o \in DOMAIN types : types[o] = id}

Groups(inputs, types) ==
    {id \in Identity : GroupInput(inputs, id) # {} \/ GroupOutput(types, id) # {}}

Single(S) == \E x \in S : S = {x}
The(S) == CHOOSE x \in S : TRUE

\* Mutant: the Type-ID rule is not checked.
check_type_id_Skipped(inputs, types, id) == TRUE

\* ckb_std's rule: a group without input is a creation, and its identity is
\* derived from the first input of the transaction and the output's index.
check_type_id(inputs, types, id) ==
    GroupInput(inputs, id) = {} =>
        \A o \in GroupOutput(types, id) : id = <<inputs[1], o>>

IsCreation(inputs, types, id) ==
    GroupInput(inputs, id) = {} /\ Single(GroupOutput(types, id))

\* Mutant: one input may be split into several outputs.
IsTransition_Split(inputs, types, id) ==
    Single(GroupInput(inputs, id)) /\ GroupOutput(types, id) # {}

IsTransition(inputs, types, id) ==
    Single(GroupInput(inputs, id)) /\ Single(GroupOutput(types, id))

ShapeAccepted(inputs, types) ==
    \A id \in Groups(inputs, types) :
        /\ check_type_id(inputs, types, id)
        /\ IsCreation(inputs, types, id) \/ IsTransition(inputs, types, id)

\* load_record on both sides of each group, then the transition rule.
RecordsAccepted(inputs, types, data) ==
    \A id \in Groups(inputs, types) :
        LET next == data[The(GroupOutput(types, id))]
        IN  IF IsCreation(inputs, types, id)
            THEN validate_creation(next)
            ELSE validate_successor(next, cells[inputs[The(GroupInput(inputs, id))]].data)

-----------------------------------------------------------------------------
(* The chain *)

InputSeqs == {s \in UNION {[1..n -> DOMAIN cells] : n \in 1..MaxInputs} : IsInjective(s)}
TypeMaps == UNION {[0..(n - 1) -> Identity \cup {Plain}] : n \in 1..MaxOutputs}
RegistryOutputs(types) == {o \in DOMAIN types : types[o] # Plain}

\* Genesis: plain capacity cells only.
Init ==
    /\ \E lock \in Owners :
           cells = [op \in {0} \X OutputIndex |->
                       [type |-> Plain, lock |-> lock, data |-> NoData]]
    /\ height = 0

\* The capacity left over returns to the lock of the first input.
NewCell(inputs, types, locks, data, o) ==
    IF types[o] = Plain
    THEN [type |-> Plain, lock |-> cells[inputs[1]].lock, data |-> NoData]
    ELSE [type |-> types[o], lock |-> locks[o], data |-> data[o]]


Apply(inputs, types, locks, data) ==
    LET created == {height + 1} \X DOMAIN types
        kept == DOMAIN cells \ Range(inputs)
    IN  /\ cells' = [op \in kept \cup created |->
                        IF op \in kept THEN cells[op]
                        ELSE NewCell(inputs, types, locks, data, op[2])]
        /\ height' = height + 1

Commit ==
    /\ height < MaxTxs
    /\ \E inputs \in InputSeqs : \E types \in TypeMaps :
           /\ ShapeAccepted(inputs, types)
           /\ \E data \in [RegistryOutputs(types) -> Payloads] :
                  /\ RecordsAccepted(inputs, types, data)
                  /\ \E locks \in [RegistryOutputs(types) -> Owners] :
                         Apply(inputs, types, locks, data)

Next == Commit

Spec == Init /\ [][Next]_vars

-----------------------------------------------------------------------------
(* Properties *)

\* Every variable keeps its type, and every live outpoint belongs to a
\* committed transaction: the bookkeeping that entry.rs:17-36 runs on.
TypeOK ==
    /\ height \in 0..MaxTxs
    /\ DOMAIN cells \subseteq (0..height) \X OutputIndex
    /\ cells \in [DOMAIN cells -> Cell]

\* At most one live cell carries an identity, whatever transactions are sent:
\* no duplicate mint, split or second creation of a past identity
\* (entry.rs:22-35; the premise of the duplicate quarantine in discovery.py).
OneLiveCellPerIdentity ==
    \A p, q \in DOMAIN cells :
        cells[p].type = cells[q].type /\ cells[p].type # Plain => p = q

\* The outpoint an identity was derived from is spent for good: it is what
\* makes a second creation of the same identity impossible (entry.rs:22).
AnchorIsSpent ==
    \A p \in DOMAIN cells :
        cells[p].type # Plain =>
            /\ cells[p].type[1] \notin DOMAIN cells
            /\ cells[p].type[1][1] < p[1]

\* Every live registry cell holds a record that still validates, so that the
\* successor rule's check of the previous record never wedges an identity
\* (record.rs:121-123 re-validates what was accepted before).
LiveRecordsValidate ==
    \A p \in DOMAIN cells : cells[p].type # Plain =>
        /\ cells[p].data \in Record
        /\ validate(cells[p].data)

\* The sequence counts committed transactions: it never runs ahead of the
\* transactions committed since the one that consumed the identity's anchor,
\* so one transaction advances an identity at most once (record.rs:130).
SequenceIsPaced ==
    \A p \in DOMAIN cells : cells[p].type # Plain =>
        cells[p].data.sequence < p[1] - cells[p].type[1][1]

\* A tombstone, and a record whose sequence reached u64::MAX, is never spent
\* again: neither burned, updated, merged nor resurrected (entry.rs:34,
\* record.rs:124-132).
IsFinal(p) ==
    /\ cells[p].type # Plain
    /\ cells[p].data.status = "revoked" \/ cells[p].data.sequence = MaxSequence

FinalCellsStay ==
    [][\A p \in DOMAIN cells :
           IsFinal(p) => p \in DOMAIN cells' /\ cells'[p] = cells[p]]_vars

-----------------------------------------------------------------------------
(* The abstract lifecycle, read off the live cells. *)

IsLive(id) == \E p \in DOMAIN cells : cells[p].type = id
LiveCell(id) == cells[CHOOSE p \in DOMAIN cells : cells[p].type = id]

LifecycleOf(id) ==
    LET c == LiveCell(id)
    IN  [phase |-> IF c.data.status = "revoked" THEN "revoked" ELSE "active",
         label |-> c.data.label, owner |-> c.lock,
         sequence |-> c.data.sequence, updated_at |-> c.data.updated_at]

AbstractLifecycle ==
    [id \in Identity |-> IF IsLive(id) THEN LifecycleOf(id) ELSE [phase |-> "absent"]]

Lifecycle == INSTANCE RegistryLifecycle WITH lifecycle <- AbstractLifecycle

\* Whatever transactions are committed, each identity follows the published
\* lifecycle: active under one label from sequence 0, one successor at a time,
\* terminal once revoked, never absent again (entry.rs:27-35, record.rs:110-137;
\* the table of docs/registry/INTEGRATION.md).
LifecycleSpec == Lifecycle!Spec
=============================================================================

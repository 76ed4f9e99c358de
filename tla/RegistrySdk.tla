----------------------------- MODULE RegistrySdk -----------------------------
(***************************************************************************)
(* Several sessions of RegistryV2Sdk (sdk/typescript/src/lifecycle.ts)     *)
(* writing to one registry: create, update, transfer and revoke read the   *)
(* indexer, prepare a transaction and send it; waitForIndexedTransaction   *)
(* then follows it.  The chain is that of RegistryChain, and it alone      *)
(* decides what commits.                                                   *)
(*                                                                         *)
(* Each awaited call is a step of its own, so a session acts on what it    *)
(* read before the others' transactions committed.  Sessions may share an  *)
(* owner, as two dashboards of one operator do.                            *)
(*                                                                         *)
(* Outside the repository: the indexer serves some committed height, later *)
(* than before; the node accepts a transaction whose inputs are live and   *)
(* signed and whose type scripts succeed, or refuses it; of the accepted   *)
(* transactions that spend one cell, one commits.                          *)
(***************************************************************************)
EXTENDS Integers, Sequences, SequencesExt, FiniteSetsExt, Functions

CONSTANTS
    Owners, Labels, Payloads, Plain, NoData, MaxSequence,
    MaxTxs, MaxOutputs, MaxInputs,  \* see RegistryChain
    GenesisLock,  \* owners of the first plain cells, by output index
    Sessions,  \* SDK callers
    Patches,   \* what an update may ask for: [status, stream, updated_at]
    UnixTimes, \* values unixTime() may return, whatever the caller's clock
    NoTx,      \* the transaction of a session that has none
    MaxJobs,   \* bound: operations started
    MaxPolls   \* lookups that fit in indexerTimeoutMs

VARIABLES
    cells, height,  \* the chain
    snapshots,      \* snapshots[h + 1]: the live cells after h transactions
    indexed,        \* the height that the indexer serves
    mempool,        \* accepted transactions
    committedAt,    \* committed transaction -> its height
    job,            \* session -> the operation it runs
    jobs            \* operations started

chainVars == <<cells, height>>
vars == <<chainVars, snapshots, indexed, mempool, committedAt, job, jobs>>

Chain == INSTANCE RegistryChain

ASSUME SdkAssumption ==
    /\ MaxOutputs = 2 /\ GenesisLock \in [Chain!OutputIndex -> Owners]
    /\ MaxSequence \in Nat /\ MaxTxs \in Nat
    /\ Plain \notin Chain!Identity /\ NoData \notin Chain!Record
    /\ Payloads \subseteq Chain!Record
    /\ Patches \subseteq [status : Chain!Statuses, stream : SUBSET Chain!StreamFields,
                          updated_at : Nat]
    /\ MaxJobs \in Nat /\ MaxPolls \in Nat \ {0}
    /\ UnixTimes \subseteq Nat \ {0}

-----------------------------------------------------------------------------
(* record.ts *)

\* Mutant: an endpoint needs no protocol.
validateRegistryV2Record_AnyStream(r) ==
    r.wellFormed /\ r.updated_at > 0 /\ (r.status # "revoked" \/ r.stream = {})

validateRegistryV2Record(r) ==
    /\ r.wellFormed /\ r.updated_at > 0
    /\ "endpoint" \notin r.stream \/ "protocol" \in r.stream
    /\ r.status # "revoked" \/ r.stream = {}

validateCreation(r) ==
    validateRegistryV2Record(r) /\ r.sequence = 0 /\ r.status # "revoked"

validateSuccessor(previous, next) ==
    /\ validateRegistryV2Record(previous) /\ validateRegistryV2Record(next)
    /\ previous.status # "revoked"
    /\ next.label = previous.label
    /\ previous.sequence # MaxSequence /\ next.sequence = previous.sequence + 1
    /\ next.updated_at >= previous.updated_at

\* A clock that is behind the record repeats the record's time.
nextTimestamp(previous, candidate) == Max({candidate, previous.updated_at})

\* The record of an update; updated_at 0 in the patch leaves it to the clock.
Updated(r, patch, now) ==
    [r EXCEPT !.sequence = @ + 1, !.status = patch.status, !.stream = patch.stream,
              !.updated_at = IF patch.updated_at = 0 THEN nextTimestamp(r, now)
                             ELSE patch.updated_at]

Transferred(r, now) == [r EXCEPT !.sequence = @ + 1, !.updated_at = nextTimestamp(r, now)]

Revoked(r, now) ==
    [r EXCEPT !.sequence = @ + 1, !.updated_at = nextTimestamp(r, now),
              !.status = "revoked", !.stream = {}]

\* What an operation makes of the record it read: the next record and its lock.  An
\* update may be given a full record, which replaces every field, the sequence too.
Successors(kind, cell) ==
    LET r == cell.data
    IN  CASE kind = "update" ->
                {[data |-> Updated(r, p, now), lock |-> cell.lock] :
                    p \in Patches, now \in UnixTimes}
                \cup {[data |-> p, lock |-> cell.lock] : p \in Payloads}
          [] kind = "transfer" ->
                {[data |-> Transferred(r, now), lock |-> o] : o \in Owners, now \in UnixTimes}
          [] kind = "revoke" ->
                {[data |-> Revoked(r, now), lock |-> cell.lock] : now \in UnixTimes}

-----------------------------------------------------------------------------
(* The indexer and the node *)

Index == snapshots[indexed + 1]

\* One page of an exact identity lookup: the live cell, if it is after the cursor.
findCellsPaged(id, found) ==
    {op \in DOMAIN Index :
        Index[op].type = id /\ (found # <<>> => op[1] > Last(found)[1])}

PlainCells(owner) == {op \in DOMAIN Index : Index[op].type = Plain /\ Index[op].lock = owner}

InputsLive(tx) == Range(tx.inputs) \subseteq DOMAIN cells

Verifies(tx) ==
    /\ Chain!ShapeAccepted(tx.inputs, tx.types)
    /\ Chain!RecordsAccepted(tx.inputs, tx.types, tx.data)

\* The registry cell is output 0; a plain input leaves a change output.
Outputs(type, change) ==
    [o \in IF change THEN {0, 1} ELSE {0} |-> IF o = 0 THEN type ELSE Plain]

Transaction(inputs, type, change, next, read) ==
    [inputs |-> inputs, types |-> Outputs(type, change),
     locks |-> [o \in {0} |-> next.lock], data |-> [o \in {0} |-> next.data], read |-> read]

-----------------------------------------------------------------------------
NoJob == [pc |-> "idle", owner |-> "none", kind |-> "none", id |-> <<>>, found |-> <<>>,
          tx |-> NoTx, polls |-> 0, result |-> "none"]

Init ==
    /\ cells = [op \in {0} \X Chain!OutputIndex |->
                    [type |-> Plain, lock |-> GenesisLock[op[2]], data |-> NoData]]
    /\ height = 0 /\ snapshots = <<cells>> /\ indexed = 0
    /\ mempool = {} /\ committedAt = [tx \in {} |-> 0]
    /\ job = [s \in Sessions |-> NoJob] /\ jobs = 0

Unprepared == <<chainVars, snapshots, indexed, mempool, committedAt>>

\* The call returns: with its transaction when the caller still knows it.
Ends(s, result) ==
    job' = [job EXCEPT ![s] = IF result \in {"returned", "not_indexed"}
                              THEN [@ EXCEPT !.pc = "idle", !.result = result, !.polls = 0]
                              ELSE [NoJob EXCEPT !.result = result]]

Started == jobs < MaxJobs /\ jobs' = jobs + 1

Prepared(s, tx, id) ==
    job' = [job EXCEPT ![s].pc = "send", ![s].tx = tx, ![s].id = id, ![s].found = <<>>]

\* The first plain cell of the signer, in ascending order, funds the creation
\* and gives the identity.  Plain cells that completeInputsByCapacity and completeFeeBy
\* may add behind it change neither record nor identity and are left out.
prepareCreate(s) ==
    /\ job[s].pc = "idle" /\ Started
    /\ \E owner \in Owners, r \in Payloads :
          /\ validateCreation(r)
          /\ PlainCells(owner) # {}
          /\ LET first == CHOOSE op \in PlainCells(owner) :
                              \A q \in PlainCells(owner) :
                                  op[1] < q[1] \/ (op[1] = q[1] /\ op[2] =< q[2])
                 id == <<first, 0>>
                 tx == Transaction(<<first>>, id, TRUE, [data |-> r, lock |-> owner], NoData)
             IN  job' = [job EXCEPT ![s] = [NoJob EXCEPT !.pc = "send", !.owner = owner,
                                                         !.kind = "create", !.id = id, !.tx = tx]]
    /\ UNCHANGED Unprepared

\* update, transfer and revoke begin with requireCurrentCell.
prepareSuccessorOf(s) ==
    /\ job[s].pc = "idle" /\ Started
    /\ \E owner \in Owners, kind \in {"update", "transfer", "revoke"},
          id \in {tx.types[0] : tx \in DOMAIN committedAt} :
          job' = [job EXCEPT ![s] = [NoJob EXCEPT !.pc = "lookup", !.owner = owner,
                                                  !.kind = kind, !.id = id]]
    /\ UNCHANGED Unprepared

\* Pages are read until an empty one, or until three cells were found.
requireCurrentCell(s) ==
    /\ job[s].pc = "lookup"
    /\ \E op \in findCellsPaged(job[s].id, job[s].found) :
          IF Len(job[s].found) < 2
          THEN job' = [job EXCEPT ![s].found = Append(@, op)]
          ELSE Ends(s, "duplicate")
    /\ UNCHANGED <<Unprepared, jobs>>

LookupFails(s) ==
    /\ job[s].pc = "lookup"
    /\ findCellsPaged(job[s].id, job[s].found) = {} /\ Len(job[s].found) # 1
    /\ Ends(s, IF job[s].found = <<>> THEN "failed" ELSE "duplicate")
    /\ UNCHANGED <<Unprepared, jobs>>

\* The cell as it was read: a cell never changes while it is live.
CellRead(op) == snapshots[op[1] + 1][op]

\* With exactly one cell found and owned, the next record is validated and the
\* transaction completed, with a plain cell when capacity or fee need one.
prepareSuccessor(s) ==
    /\ job[s].pc = "lookup" /\ Len(job[s].found) = 1
    /\ findCellsPaged(job[s].id, job[s].found) = {}
    /\ LET op == job[s].found[1]
           cell == CellRead(op)
       IN  \/ /\ cell.lock = job[s].owner
              /\ \E next \in Successors(job[s].kind, cell) :
                    /\ validateSuccessor(cell.data, next.data)
                    /\ \/ Prepared(s, Transaction(<<op>>, cell.type, FALSE, next, cell.data),
                                   job[s].id)
                       \/ \E fee \in PlainCells(job[s].owner) :
                             Prepared(s, Transaction(<<op, fee>>, cell.type, TRUE, next, cell.data),
                                      job[s].id)
           \/ /\ \/ cell.lock # job[s].owner
                 \/ \E next \in Successors(job[s].kind, cell) :
                        ~validateSuccessor(cell.data, next.data)
              /\ Ends(s, "failed")
    /\ UNCHANGED <<Unprepared, jobs>>

\* Mutant: a transaction whose cell was spent is pointed at the live one.
sendTransaction_Rebases(s) ==
    /\ job[s].pc = "send"
    /\ LET tx == job[s].tx
           rebased(op) ==
               [tx EXCEPT !.inputs = <<op>>, !.types = Outputs(job[s].id, FALSE),
                          !.data[0].sequence = cells[op].data.sequence + 1]
       IN  \E sent \in IF InputsLive(tx) THEN {tx}
                       ELSE {rebased(op) : op \in {p \in DOMAIN cells : cells[p].type = job[s].id}} :
              /\ Verifies(sent)
              /\ mempool' = mempool \cup {sent}
              /\ job' = [job EXCEPT ![s].pc = "confirm", ![s].tx = sent]
    /\ UNCHANGED <<chainVars, snapshots, indexed, committedAt, jobs>>

\* The wallet signs the inputs of the session's owner; the node may refuse.
sendTransaction(s) ==
    /\ job[s].pc = "send"
    /\ \/ /\ InputsLive(job[s].tx) /\ Verifies(job[s].tx)
          /\ \A i \in DOMAIN job[s].tx.inputs : cells[job[s].tx.inputs[i]].lock = job[s].owner
          /\ mempool' = mempool \cup {job[s].tx}
          /\ job' = [job EXCEPT ![s].pc = "confirm"]
       \/ Ends(s, "failed") /\ UNCHANGED mempool
    /\ UNCHANGED <<chainVars, snapshots, indexed, committedAt, jobs>>

\* waitTransaction: committed, or refused later, or the timeout.
waitTransaction(s) ==
    /\ job[s].pc = "confirm"
    /\ \/ /\ job[s].tx \in DOMAIN committedAt
          /\ job' = [job EXCEPT ![s].pc = "poll"]
       \/ Ends(s, "failed")
    /\ UNCHANGED <<Unprepared, jobs>>

\* findByIdentity reads pages until an empty one.
PollPage(s) ==
    /\ job[s].pc = "poll"
    /\ \E op \in findCellsPaged(job[s].id, job[s].found) :
          job' = [job EXCEPT ![s].found = Append(@, op)]
    /\ UNCHANGED <<Unprepared, jobs>>

\* Mutant: the receiver is returned whatever transaction created its cell.
IsIndexed_AnyTransaction(s) == Len(job[s].found) = 1

\* The receiver found is an output of the transaction waited for.
IsIndexed(s) == Len(job[s].found) = 1 /\ job[s].found[1][1] = committedAt[job[s].tx]

\* Mutant: the deadline starts again with each lookup.
PollEnds_NoDeadline(s) ==
    /\ job[s].pc = "poll" /\ findCellsPaged(job[s].id, job[s].found) = {}
    /\ CASE Len(job[s].found) > 1 -> Ends(s, "duplicate")
         [] IsIndexed(s) -> Ends(s, "returned")
         [] OTHER -> job' = [job EXCEPT ![s].found = <<>>]
    /\ UNCHANGED <<Unprepared, jobs>>

PollEnds(s) ==
    /\ job[s].pc = "poll" /\ findCellsPaged(job[s].id, job[s].found) = {}
    /\ CASE Len(job[s].found) > 1 -> Ends(s, "duplicate")
         [] IsIndexed(s) -> Ends(s, "returned")
         [] Len(job[s].found) =< 1 /\ ~IsIndexed(s) /\ job[s].polls + 1 = MaxPolls ->
                Ends(s, "not_indexed")
         [] OTHER -> job' = [job EXCEPT ![s].found = <<>>, ![s].polls = @ + 1]
    /\ UNCHANGED <<Unprepared, jobs>>

Commit ==
    /\ height < MaxTxs
    /\ \E tx \in mempool :
          /\ InputsLive(tx) /\ Verifies(tx)
          /\ Chain!Apply(tx.inputs, tx.types, tx.locks, tx.data)
          /\ committedAt' = [t \in DOMAIN committedAt \cup {tx} |->
                                IF t \in DOMAIN committedAt THEN committedAt[t] ELSE height']
          /\ mempool' = {t \in mempool : Range(t.inputs) \cap Range(tx.inputs) = {}}
    /\ snapshots' = Append(snapshots, cells')
    /\ UNCHANGED <<indexed, job, jobs>>

IndexerAdvances ==
    /\ indexed < height
    /\ indexed' = indexed + 1
    /\ UNCHANGED <<chainVars, snapshots, mempool, committedAt, job, jobs>>

Wait(s) == waitTransaction(s) \/ PollPage(s) \/ PollEnds(s)

Next ==
    \/ \E s \in Sessions :
          \/ prepareCreate(s) \/ prepareSuccessorOf(s) \/ requireCurrentCell(s)
          \/ LookupFails(s) \/ prepareSuccessor(s) \/ sendTransaction(s) \/ Wait(s)
    \/ Commit
    \/ IndexerAdvances

\* An awaited call returns, fails or times out; the chain owes nothing.
Spec == Init /\ [][Next]_vars /\ \A s \in Sessions : WF_vars(Wait(s))

-----------------------------------------------------------------------------
(* Properties *)

TypeOK ==
    /\ Chain!TypeOK
    /\ Len(snapshots) = height + 1 /\ Last(snapshots) = cells
    /\ indexed \in 0..height
    /\ \A s \in Sessions :
          /\ job[s].pc \in {"idle", "lookup", "send", "confirm", "poll"}
          /\ job[s].pc = "poll" => job[s].tx \in DOMAIN committedAt
          /\ Len(job[s].found) =< height
    /\ \A tx \in DOMAIN committedAt : committedAt[tx] \in 1..height

\* Whatever the SDK prepares, from whatever it read and with whatever clock, the
\* type script accepts while the cells it spends are live (lifecycle.ts:133-262
\* and record.ts:220-237 against contracts/registry-v2/src/record.rs:110-137).
PreparedVerifies ==
    \A s \in Sessions : job[s].pc = "send" /\ InputsLive(job[s].tx) => Verifies(job[s].tx)

\* A committed update replaced the very record its caller had read: of two
\* sessions that read the same record at most one commits, and nothing that
\* committed in between is overwritten (lifecycle.ts:182-204, 337-404).
NoLostUpdate ==
    \A tx \in DOMAIN committedAt : tx.read # NoData =>
        \E i \in DOMAIN tx.inputs :
            LET before == snapshots[committedAt[tx]][tx.inputs[i]]
            IN  before.type = tx.types[0] /\ before.data = tx.read

\* A receiver that waitForIndexedTransaction returns is the output of that very
\* transaction (lifecycle.ts:304-311).
ReturnedIsOwn ==
    \A s \in Sessions : job[s].result = "returned" =>
        LET op == job[s].found[1]
        IN  /\ job[s].tx \in DOMAIN committedAt
            /\ op = <<committedAt[job[s].tx], 0>>
            /\ CellRead(op).data = job[s].tx.data[0]

\* waitForIndexedTransaction ends, whether or not the transaction commits and
\* the indexer follows (lifecycle.ts:281-317).
WaitEnds ==
    \A s \in Sessions : job[s].pc \in {"confirm", "poll"} ~> job[s].pc = "idle"
=============================================================================

-------------------------- MODULE RegistryLifecycle --------------------------
(***************************************************************************)
(* What Registry V2 promises about one infrastructure identity, whatever   *)
(* transactions are sent to the chain.  An identity is absent, then active *)
(* under one immutable receiver label with a sequence that counts its      *)
(* successors, then possibly revoked, which is terminal.  The owner may    *)
(* change at any successor.                                                *)
(*                                                                         *)
(* One transaction may carry the cells of several identities, so a step    *)
(* moves any number of identities, each by at most one lifecycle step.     *)
(***************************************************************************)
EXTENDS Integers

CONSTANTS
    Identity,    \* the 32-byte type-script arguments
    Labels,      \* receiver_id values
    Owners,      \* owner locks
    MaxSequence  \* the largest value of the sequence field, u64::MAX in the code

VARIABLE lifecycle  \* identity -> its lifecycle state

Absent == [phase |-> "absent"]

Present ==
    [phase : {"active", "revoked"}, label : Labels, owner : Owners,
     sequence : 0..MaxSequence, updated_at : Nat]

State == {Absent} \cup Present

Init == lifecycle = [id \in Identity |-> Absent]

\* A new identity starts active, at sequence zero.
Register(before, after) ==
    /\ before = Absent
    /\ after \in Present
    /\ after.phase = "active"
    /\ after.sequence = 0

\* Update, ownership transfer and revocation are all successors.
Succeed(before, after) ==
    /\ before \in Present
    /\ before.phase = "active"
    /\ after \in Present
    /\ after.label = before.label
    /\ after.sequence = before.sequence + 1
    /\ after.updated_at >= before.updated_at

Step(id) ==
    \/ Register(lifecycle[id], lifecycle'[id])
    \/ Succeed(lifecycle[id], lifecycle'[id])
    \/ UNCHANGED lifecycle[id]

Next ==
    /\ DOMAIN lifecycle' = Identity
    /\ \A id \in Identity : Step(id)

Spec == Init /\ [][Next]_lifecycle
=============================================================================

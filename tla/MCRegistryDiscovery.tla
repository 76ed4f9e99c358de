------------------------- MODULE MCRegistryDiscovery -------------------------
(* Instances of RegistryDiscovery for TLC.                                  *)
EXTENDS RegistryDiscovery

CONSTANT RA  \* the receiver label

Rec(status, seq, at) ==
    [wellFormed |-> TRUE, label |-> RA, status |-> status,
     sequence |-> seq, updated_at |-> at, stream |-> {}]

\* A creation, its revocation, and its update: one that is published, one that
\* is skipped because it is from the future and too large to decode.
MCPayloads ==
    {Rec("online", 0, 1), Rec("revoked", 1, 1), Rec("online", 1, 1), Rec("online", 1, 3)}

MCOversized == {Rec("online", 1, 3)}
=============================================================================

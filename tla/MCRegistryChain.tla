--------------------------- MODULE MCRegistryChain ---------------------------
(* Instances of RegistryChain for TLC.                                      *)
EXTENDS RegistryChain

CONSTANTS RA, RB  \* two receiver labels

Rec(ok, label, status, seq, at, stream) ==
    [wellFormed |-> ok, label |-> label, status |-> status,
     sequence |-> seq, updated_at |-> at, stream |-> stream]

\* Every sequence of one label, another label, an earlier and a later clock, and
\* the encodings that validate rejects.
MCPayloads ==
    {Rec(TRUE, RA, s, n, 2, {}) : s \in {"online", "revoked"}, n \in 0..MaxSequence}
    \cup {Rec(TRUE, RB, "online", 1, 2, {}), Rec(TRUE, RA, "online", 1, 1, {}),
          Rec(FALSE, RA, "online", 0, 2, {}), Rec(TRUE, RA, "online", 0, 0, {}),
          Rec(TRUE, RA, "online", 1, 2, {"endpoint"}),
          Rec(TRUE, RA, "revoked", 1, 2, {"format"})}
=============================================================================

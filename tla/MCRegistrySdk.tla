---------------------------- MODULE MCRegistrySdk ----------------------------
(* Instances of RegistrySdk for TLC.                                        *)
EXTENDS RegistrySdk

CONSTANTS RA, alice, bob

\* Each owner has one plain cell.
MCGenesisLock == 0 :> alice @@ 1 :> bob

\* Every creation starts at the later of two clock values, with a stream.  The second
\* is the full record of a first update, which no other update takes.
MCPayloads ==
    {[wellFormed |-> TRUE, label |-> RA, status |-> "online", sequence |-> 0,
      updated_at |-> 2, stream |-> {"endpoint", "protocol"}],
     [wellFormed |-> TRUE, label |-> RA, status |-> "online", sequence |-> 1,
      updated_at |-> 3, stream |-> {}]}

\* An update that goes offline, and one that forgets the protocol.
MCPatches ==
    {[status |-> "offline", stream |-> {}, updated_at |-> 0],
     [status |-> "online", stream |-> {"endpoint"}, updated_at |-> 2]}
=============================================================================

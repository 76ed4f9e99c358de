---------------------------- MODULE MCLiveEvidence ----------------------------
EXTENDS LiveEvidence

\* Two files for the same receivers, the second with clocks valid later and less long.
MCFiles ==
  {[receivers |-> "four", declared |-> "gpsdo", from |-> 1, until |-> 4],
   [receivers |-> "four", declared |-> "ocxo", from |-> 2, until |-> 3]}

==============================================================================

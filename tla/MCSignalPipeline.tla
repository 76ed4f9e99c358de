--------------------------- MODULE MCSignalPipeline ---------------------------
(* An instance of SignalPipeline for TLC, and the clusters as the loop of    *)
(* _cluster_by_time finds them.                                              *)
EXTENDS SignalPipeline

Keys == [precise : BOOLEAN, time : Times]

\* The first keys of the clusters, as one pass over the sorted keys finds them:
\* started[k] is the key of current_cluster[0] once k has been placed.
FirstsOfThePass(keys) ==
    LET started[k \in keys] ==
            LET before == LastBefore(keys, k)  \* the key just ahead of k
            IN  IF \E j \in before : IsClose(started[j], k)
                THEN started[CHOOSE j \in before : TRUE]
                ELSE k
    IN  {started[k] : k \in keys}

\* Firsts has one solution for every set of keys, the one of that pass
\* (correlator.py:189-217).
ASSUME FirstsAssumption ==
    \A keys \in SUBSET Keys :
        {H \in SUBSET keys : Firsts(H, keys)} = {FirstsOfThePass(keys)}
=============================================================================

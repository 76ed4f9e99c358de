---------------------------- MODULE SignalPipeline ----------------------------
(***************************************************************************)
(* From a feed payload to a stored position: handle_incoming_signal and    *)
(* build_observations_from_group (base.py), SignalCorrelator               *)
(* (correlation/correlator.py), _process_signal_group (runtime.py), the    *)
(* checks of RobustMLATSolver and the positions table.                     *)
(*                                                                         *)
(* Signals arrive in any order, late or twice.  Correlating and processing *)
(* a batch has no await that suspends, so it is one step of the event      *)
(* loop; arrivals and registry refreshes fall between two batches.         *)
(*                                                                         *)
(* Abstracted: the numerical solution, which exists or does not, and the   *)
(* quality metadata.  A message stands for its aircraft.  timestamp_ns and *)
(* timestamp name one instant, so a difference is the same in both.        *)
(***************************************************************************)
EXTENDS Integers, FiniteSets, FiniteSetsExt, Bags

CONSTANTS
    Receivers,       \* receiver identities
    Messages,        \* Mode-S messages, one aircraft each
    Times,           \* bound: the arrival times that occur
    Window,          \* time_window
    BufferDuration,  \* buffer_duration
    MinReceivers,    \* min_receivers, of the correlator and of the solver
    MaxSignals       \* bound: signals delivered

VARIABLES
    receiver_positions,  \* the receivers that take part in MLAT
    signal_buffer,       \* bag of signals
    processed_groups,    \* group_id of every group handed out
    positions,           \* the positions table: <<aircraft, timestamp>> -> receivers
    delivered,           \* signals delivered so far
    accepted,            \* history: the signals that entered the buffer
    emitted              \* history: the groups handed out, as sets of signals

vars == <<receiver_positions, signal_buffer, processed_groups, positions,
          delivered, accepted, emitted>>

\* "qualified": synchronized, from a named source, certain enough.  "precise":
\* any other signal with a timestamp_ns.  "wall": no timestamp_ns at all.
Clocks == {"qualified", "precise", "wall"}

Signal == [receiver : Receivers, message : Messages, time : Times, clock : Clocks]

ASSUME PipelineAssumption ==
    /\ Times \subseteq Nat
    /\ Window \in Nat /\ BufferDuration \in Nat /\ Window =< BufferDuration
    /\ MinReceivers \in Nat \ {0} /\ MaxSignals \in Nat

Buffered == DOMAIN signal_buffer
TimesOf(S) == {s.time : s \in S}
ReceiversOf(S) == {s.receiver : s \in S}

-----------------------------------------------------------------------------
(* SignalCorrelator *)

\* Mutant: the cutoff follows the signal that arrived last.
_cleanup_old_signals_ByArrival(buffer, s) ==
    [x \in {y \in DOMAIN buffer : y.time >= s.time - BufferDuration} |-> buffer[x]]

\* The buffer after s was appended to it.
_cleanup_old_signals(buffer, s) ==
    LET cutoff == Max(TimesOf(DOMAIN buffer)) - BufferDuration
    IN  [x \in {y \in DOMAIN buffer : y.time >= cutoff} |-> buffer[x]]

\* Precise timestamps sort ahead of wall times; ties never separate.
signal_time_key(s) == [precise |-> s.clock # "wall", time |-> s.time]
SortsBefore(j, k) == (j.precise /\ ~k.precise) \/ (j.precise = k.precise /\ j.time < k.time)

\* The last key of S that sorts before k, in a set of none or one.
LastBefore(S, k) ==
    {j \in S : SortsBefore(j, k) /\ \A i \in S : SortsBefore(i, k) => ~SortsBefore(j, i)}
IsClose(j, k) == k.time - j.time =< Window

\* Mutant: a key joins when it is close to the last one, not to the first.
Firsts_Chain(H, keys) ==
    \A k \in keys : k \in H <=> \A j \in LastBefore(keys, k) : ~IsClose(j, k)
\* H are the first keys of the clusters: a key starts a cluster unless it is
\* close to the first key of the one before it.
Firsts(H, keys) ==
    \A k \in keys : k \in H <=> \A j \in LastBefore(H, k) : ~IsClose(j, k)

TimeKeys(signals) == {signal_time_key(s) : s \in signals}

\* A signal belongs with the first key that is its own, or else the last before it.
Clusters(signals, H) ==
    {[message |-> (CHOOSE s \in signals : TRUE).message, first |-> h,
      signals |-> {s \in signals :
         LET k == signal_time_key(s) IN k = h \/ (k \notin H /\ h \in LastBefore(H, k))}] :
     h \in H}

\* Mutant: the clusters of Firsts_Chain.
_cluster_by_time_Chain(signals) ==
    UNION {Clusters(signals, H) :
        H \in {H \in SUBSET TimeKeys(signals) : Firsts_Chain(H, TimeKeys(signals))}}

\* There is one such H (MCSignalPipeline).
_cluster_by_time(signals) ==
    UNION {Clusters(signals, H) :
        H \in {H \in SUBSET TimeKeys(signals) : Firsts(H, TimeKeys(signals))}}

\* Mutant: more than min_receivers receivers are asked for.
_is_valid_cluster_OneMore(c) == Cardinality(ReceiversOf(c.signals)) > MinReceivers

\* That many receivers imply that many signals, and a window below 10 ms the
\* last check.
_is_valid_cluster(c) == Cardinality(ReceiversOf(c.signals)) >= MinReceivers

\* timing_id is the first signal's timestamp_ns, or its wall time.
group_id(c) == <<c.message, c.first>>

correlate ==
    {c \in UNION {_cluster_by_time({s \in Buffered : s.message = m}) : m \in Messages} :
        _is_valid_cluster(c) /\ group_id(c) \notin processed_groups}

-----------------------------------------------------------------------------
(* ProductionMLATSystem *)

\* Mutant: the receivers that were removed since their signal arrived count.
build_observations_OfAnyReceiver(c) == [s \in c.signals |-> signal_buffer[s]]

\* Signals of receivers that have been removed are left out.
build_observations_from_group(c) ==
    [s \in {x \in c.signals : x.receiver \in receiver_positions} |-> signal_buffer[s]]

\* _validate_observations: no receiver may occur twice.
DistinctReceivers(observations) ==
    /\ \A s \in DOMAIN observations : observations[s] = 1
    /\ \A s, t \in DOMAIN observations : s.receiver = t.receiver => s = t

\* The gates in front of the solver, and the solver's own.  The clock gate
\* looks at every signal of the group, at those of removed receivers too.
Solvable(c) ==
    LET observations == build_observations_from_group(c)
    IN  /\ Cardinality(DOMAIN observations) >= MinReceivers  \* none is twice in them
        /\ \A s \in c.signals : s.clock = "qualified"
        /\ DistinctReceivers(observations)

\* The position carries the time of its first observation.
PositionKey(c) ==
    <<c.message, Min(TimesOf(DOMAIN build_observations_from_group(c)))>>

-----------------------------------------------------------------------------
Init ==
    /\ receiver_positions = Receivers
    /\ signal_buffer = EmptyBag
    /\ processed_groups = {}
    /\ positions = [k \in {} |-> {}]
    /\ delivered = 0 /\ accepted = {} /\ emitted = {}

handle_incoming_signal(s) ==
    /\ delivered < MaxSignals
    /\ s.receiver \in receiver_positions
    /\ signal_buffer' = _cleanup_old_signals(signal_buffer (+) SetToBag({s}), s)
    /\ delivered' = delivered + 1
    /\ accepted' = accepted \cup {s}
    /\ UNCHANGED <<receiver_positions, processed_groups, positions, emitted>>

\* A refresh removed a receiver, or brought one back (MlatRuntime).
RegistryRefreshed ==
    /\ \E r \in Receivers :
          \/ r \in receiver_positions /\ receiver_positions' = receiver_positions \ {r}
          \/ r \notin receiver_positions /\ receiver_positions' = receiver_positions \cup {r}
    /\ UNCHANGED <<signal_buffer, processed_groups, positions, delivered, accepted, emitted>>

\* One turn of _processing_loop.  Any of the groups may have no solution, and
\* an exception loses the rest of the batch: all of them count as processed.
_processing_loop ==
    LET groups == correlate
    IN  /\ groups # {}
        /\ processed_groups' = processed_groups \cup {group_id(c) : c \in groups}
        /\ emitted' = emitted \cup {c.signals : c \in groups}
        /\ \E found \in SUBSET {c \in groups : Solvable(c)} :
              positions' =
                 [k \in DOMAIN positions \cup {PositionKey(c) : c \in found} |->
                     IF \E c \in found : PositionKey(c) = k
                     THEN ReceiversOf(DOMAIN build_observations_from_group(
                              CHOOSE c \in found : PositionKey(c) = k))
                     ELSE positions[k]]
        /\ UNCHANGED <<receiver_positions, signal_buffer, delivered, accepted>>

Next ==
    \/ \E s \in Signal : handle_incoming_signal(s)
    \/ RegistryRefreshed
    \/ _processing_loop

Spec == Init /\ [][Next]_vars

-----------------------------------------------------------------------------
(* Properties *)

TypeOK ==
    /\ receiver_positions \subseteq Receivers
    /\ Buffered \subseteq Signal /\ IsABag(signal_buffer)
    /\ processed_groups \subseteq Messages \X [precise : BOOLEAN, time : Times]
    /\ DOMAIN positions \subseteq Messages \X Times
    /\ Buffered \subseteq accepted /\ accepted \subseteq Signal

\* A group has enough different receivers, all of one message, and its precise
\* signals all lie within one window (correlator.py:134-241).
GroupsAreSimultaneous ==
    \A g \in emitted :
        /\ Cardinality(ReceiversOf(g)) >= MinReceivers
        /\ \A s, t \in g :
              /\ s.message = t.message
              /\ s.clock # "wall" /\ t.clock # "wall" => s.time - t.time =< Window

\* A message whose recent signals are all precise, within one window and from
\* enough receivers is handed out whole, now or before (correlator.py:123-217).
\* Recent is what lies within the buffer's duration of the newest signal ever
\* accepted: the newest is looked up in the buffer itself, which must therefore
\* lose neither it nor any of these, however late they arrive.
CompleteIsFound ==
    \A m \in Messages :
        LET newest == Max(TimesOf(accepted))
            signals == {s \in accepted : s.message = m /\ s.time >= newest - BufferDuration}
            at == Min(TimesOf(signals))
            complete ==
                /\ Cardinality(ReceiversOf(signals)) >= MinReceivers
                /\ \A s \in signals : s.clock # "wall" /\ s.time =< at + Window
        IN  complete =>
                \/ <<m, [precise |-> TRUE, time |-> at]>> \in processed_groups
                \/ \E c \in correlate : c.signals = signals

\* Every position is computed from enough different receivers that all take
\* part in MLAT at that moment, whatever was removed since their signals were
\* buffered (base.py:127-135, runtime.py:437-453, robust.py:83-95, 199-212).
VerifiedReceiversSolve ==
    [][\A k \in DOMAIN positions' :
           k \notin DOMAIN positions \/ positions'[k] # positions[k] =>
               /\ positions'[k] \subseteq receiver_positions
               /\ Cardinality(positions'[k]) >= MinReceivers]_vars
=============================================================================

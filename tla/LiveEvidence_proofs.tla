------------------------- MODULE LiveEvidence_proofs -------------------------
(***************************************************************************)
(* VerifiedIsObserved and CalmCapturePublishes for any files, times and    *)
(* numbers of processors, refreshes and edits.  The first rests on what a  *)
(* message identifies, the second on what each read of a capture finds as  *)
(* long as nothing has disturbed it.                                       *)
(***************************************************************************)
EXTENDS LiveEvidence, SequenceTheorems, TLAPS

Observation == [message : Nat, at : Nat, file : Files, synthetic : BOOLEAN, qualified : BOOLEAN]
Processor == [synthetic : BOOLEAN, file : Files, registry : BOOLEAN, since : Nat, signals : Nat,
              groups : Nat, pending : SUBSET Observation, unlogged : SUBSET Observation]
StatisticsRow == [at : Nat, uptime : Int, total_signals : Nat, total_positions : Nat,
                  synthetic : BOOLEAN, registry : BOOLEAN]
Bounds == [starts : Nat, edits : Nat, refreshes : Nat, signals : Nat]

TypeInv ==
  /\ now \in Nat /\ file \in Files
  /\ bounds \in Bounds
  /\ proc # None => proc \in Processor
  /\ statistics \in Seq(StatisticsRow)
  /\ positions \in Seq(Observation) /\ rawlog \subseteq Observation
  /\ DOMAIN capture = {"step", "file", "live", "config", "reliable", "positions", "raw", "status"}
  /\ capture.positions \subseteq Observation /\ capture.raw \subseteq Observation

Pending == IF proc = None THEN {} ELSE proc.pending
Stored == {positions[k] : k \in DOMAIN positions}
Seen == Printed \cup Pending \cup Stored \cup capture.positions \cup capture.raw

\* A message names one observation, wherever it is held.
MessageInv ==
  /\ \A o \in Seen : o.message < bounds.signals
  /\ \A o, p \in Seen : o.message = p.message => o = p

\* Only lines of live feeds are printed, and as long as none is lost all that is
\* solved of these feeds is logged or still to be.
LogInv ==
  /\ \A o \in Printed \cup capture.raw : ~o.synthetic /\ (o.qualified => ValidAt(o.file, o.at))
  /\ steady => \A o \in Pending \cup Stored : ~o.synthetic => o \in Printed

\* Rows are in the order of their times, and those since the start of the running
\* processor are its own, with counters that only grow.
RowsInv ==
  /\ \A i \in DOMAIN statistics : statistics[i].at <= now
  /\ \A i, j \in DOMAIN statistics : i < j => statistics[i].at < statistics[j].at
  /\ proc # None =>
      /\ proc.since <= now
      /\ \A i \in DOMAIN statistics : statistics[i].at > proc.since =>
          /\ statistics[i].synthetic = proc.synthetic
          /\ statistics[i].total_signals <= proc.signals
          /\ statistics[i].total_positions <= proc.groups
      /\ \A i, j \in DOMAIN statistics : i < j /\ statistics[i].at > proc.since =>
          /\ statistics[i].total_signals <= statistics[j].total_signals
          /\ statistics[i].total_positions <= statistics[j].total_positions

Busy == capture.step \notin {"idle", "failed", "done"}

FromExported == {"exported", "linked"}
FromSampled == FromExported \cup {"sampled"}
FromCopied == FromSampled \cup {"copied"}
Steps == FromCopied \cup {"idle", "inputs", "mode", "gated", "failed", "done"}

\* What an undisturbed capture has read so far passes the gates to come.
CalmInv ==
  /\ capture.step \in Steps
  /\ steady =>
      /\ Busy => Calm /\ capture.file = file
      /\ capture.step = "mode" => capture.live
      /\ capture.step \in FromCopied => capture.config = file
      /\ capture.step \in FromSampled => capture.reliable
      /\ capture.step \in FromExported =>
          capture.positions # {} /\ capture.positions \subseteq Printed
      /\ capture.step = "linked" =>
          ObservationsHold(capture.raw, file) /\ Linked(capture.raw, capture.positions)
      /\ capture.step # "failed"
      /\ capture.step = "done" => verify_bundle(capture)

IInv == TypeInv /\ MessageInv /\ LogInv /\ RowsInv /\ CalmInv

-----------------------------------------------------------------------------
(* The system *)

LEMMA AppendExtends ==
  ASSUME NEW T, NEW s \in Seq(T), NEW e \in T
  PROVE  /\ Append(s, e) \in Seq(T)
         /\ DOMAIN Append(s, e) = DOMAIN s \cup {Len(s) + 1} /\ Len(s) + 1 \notin DOMAIN s
         /\ Append(s, e)[Len(s) + 1] = e
         /\ \A k \in DOMAIN s : k \in Nat /\ k < Len(s) + 1 /\ Append(s, e)[k] = s[k]
OBVIOUS

LEMMA LastOf ==
  ASSUME NEW T, NEW s \in Seq(T), s # <<>>
  PROVE  /\ Last(s) = s[Len(s)] /\ Len(s) \in DOMAIN s /\ Last(s) \in T
         /\ \A k \in DOMAIN s : k \in Nat /\ (k = Len(s) \/ k < Len(s))
BY DEF Last

LEMMA RowsAreTyped ==
  ASSUME TypeInv, NEW i \in DOMAIN statistics
  PROVE  /\ statistics[i].at \in Nat /\ statistics[i].total_signals \in Nat
         /\ statistics[i].total_positions \in Nat /\ statistics[i].synthetic \in BOOLEAN
<1> DEFINE R == StatisticsRow
<1>1. \A row \in R : /\ row.at \in Nat /\ row.total_signals \in Nat
                     /\ row.total_positions \in Nat /\ row.synthetic \in BOOLEAN
  BY DEF StatisticsRow
<1> HIDE DEF R
<1>2. statistics \in Seq(R)
  BY DEF TypeInv, R
<1>3. statistics[i] \in R
  BY <1>2
<1> QED BY <1>1, <1>3

LEMMA SeenIsTyped ==
  ASSUME TypeInv
  PROVE  Seen \subseteq Observation
<1>1. Pending \subseteq Observation /\ Printed \subseteq Observation
  BY DEF TypeInv, Pending, Printed, Unlogged, Processor
<1>2. Stored \subseteq Observation
  <2> DEFINE O == Observation
  <2>1. positions \in Seq(O)
    BY DEF TypeInv
  <2> HIDE DEF O
  <2>2. \A k \in DOMAIN positions : positions[k] \in O
    BY <2>1
  <2> QED BY <2>2 DEF Stored, O
<1> QED BY <1>1, <1>2 DEF TypeInv, Seen

SteadyStep ==
  steady' = (steady /\ LinesStayWhole
               /\ (capture'.step \in {"idle", "failed", "done"} \/ Calm'))

LEMMA SteadyKeeps ==
  ASSUME SteadyStep
  PROVE  steady' => steady /\ Printed \subseteq Printed'
BY DEF SteadyStep, LinesStayWhole

SystemInv == TypeInv /\ MessageInv /\ LogInv /\ RowsInv

\* A step of the system that disturbs an undisturbed capture makes it not so.
LEMMA CalmStays ==
  ASSUME IInv, SteadyStep, UNCHANGED capture,
         Busy /\ Calm /\ Calm' => file' = file
  PROVE  CalmInv'
<1>1. capture.step \in Steps
  BY DEF IInv, CalmInv
<1>2. CASE ~steady'
  BY <1>1, <1>2 DEF CalmInv
<1>3. CASE steady'
  <2>1. steady /\ (Busy => Calm') /\ Printed \subseteq Printed'
    BY <1>3, SteadyKeeps DEF SteadyStep, Busy
  <2>2. Busy => Calm /\ capture.file = file /\ file' = file
    BY <2>1 DEF IInv, CalmInv
  <2>3. CASE Busy
    BY <1>1, <2>1, <2>2, <2>3 DEF IInv, CalmInv, Busy
  <2>4. CASE ~Busy
    <3>1. capture.step \notin FromCopied /\ capture.step # "mode"
      BY <2>4 DEF Busy, FromCopied, FromSampled, FromExported
    <3>2. capture.step # "failed" /\ (capture.step = "done" => verify_bundle(capture))
      BY <2>1 DEF IInv, CalmInv
    <3> QED BY <1>1, <2>4, <3>1, <3>2 DEF CalmInv, Busy, FromCopied, FromSampled, FromExported
  <2> QED BY <2>3, <2>4
<1> QED BY <1>2, <1>3

\* One more of what is bounded.
LEMMA HappensOnce ==
  ASSUME TypeInv, NEW kind \in {"starts", "edits", "refreshes", "signals"}, NEW limit,
         Happens(kind, limit)
  PROVE  /\ bounds' \in Bounds /\ bounds.signals \in Nat
         /\ bounds'.signals = IF kind = "signals" THEN bounds.signals + 1 ELSE bounds.signals
<1>1. bounds \in Bounds /\ bounds' = [bounds EXCEPT ![kind] = @ + 1]
  BY DEF Happens, TypeInv
<1> QED BY <1>1 DEF Bounds

\* Nothing is observed that was not before.
LEMMA NothingNew ==
  ASSUME MessageInv, Seen' \subseteq Seen, UNCHANGED bounds
  PROVE  MessageInv'
BY DEF MessageInv

LEMMA StartIsFine ==
  ASSUME SystemInv, SteadyStep, NEW synthetic \in BOOLEAN, Start(synthetic)
  PROVE  SystemInv' /\ UNCHANGED <<capture, file>>
<1> USE DEF SystemInv
<1>1. /\ proc' = [synthetic |-> synthetic, file |-> file, registry |-> TRUE, since |-> now,
                  signals |-> 0, groups |-> 0, pending |-> {}, unlogged |-> {}]
      /\ proc = None /\ Happens("starts", MaxStarts)
      /\ UNCHANGED <<now, statistics, positions, rawlog, file, preflight, capture>>
  BY DEF Start
<1>2. /\ proc'.since = now /\ proc'.pending = {} /\ proc'.unlogged = {}
      /\ proc' \in Processor
  BY <1>1 DEF TypeInv, Processor
<1>3. bounds' \in Bounds /\ bounds'.signals = bounds.signals
  BY <1>1, HappensOnce
<1>4. TypeInv'
  BY <1>1, <1>2, <1>3 DEF TypeInv
<1>5. Pending' = {} /\ Stored' = Stored /\ Printed' = Printed
  BY <1>1, <1>2 DEF Pending, Stored, Printed, Unlogged
<1>6. MessageInv' /\ LogInv'
  <2>1. Seen' \subseteq Seen
    BY <1>1, <1>5 DEF Seen
  <2> QED BY <1>1, <1>3, <1>5, <2>1, SteadyKeeps DEF MessageInv, LogInv
<1>7. RowsInv'
  <2>1. \A i \in DOMAIN statistics : ~(statistics[i].at > now)
    <3>1. \A i \in DOMAIN statistics : statistics[i].at \in Nat
      BY RowsAreTyped
    <3> QED BY <3>1 DEF RowsInv, TypeInv
  <2>2. now <= now
    BY DEF TypeInv
  <2> QED BY <1>1, <1>2, <2>1, <2>2 DEF RowsInv
<1> QED BY <1>1, <1>4, <1>6, <1>7

LEMMA RefreshIsFine ==
  ASSUME SystemInv, SteadyStep, NEW restarts \in BOOLEAN, Refresh(restarts)
  PROVE  SystemInv' /\ UNCHANGED <<capture, file>>
<1> USE DEF SystemInv
<1>1. PICK answers \in BOOLEAN :
        proc' = [proc EXCEPT !.registry = answers,
                   !.file = IF restarts THEN file ELSE @,
                   !.unlogged = IF restarts THEN {} ELSE @]
  BY DEF Refresh
<1>2. /\ proc # None /\ Happens("refreshes", MaxRefreshes)
      /\ UNCHANGED <<now, statistics, positions, rawlog, file, preflight, capture>>
  BY DEF Refresh
<1>3. proc \in Processor /\ file \in Files
  BY <1>2 DEF TypeInv
<1>4. /\ proc'.synthetic = proc.synthetic /\ proc'.since = proc.since
      /\ proc'.signals = proc.signals /\ proc'.groups = proc.groups
      /\ proc'.pending = proc.pending /\ proc'.unlogged \subseteq proc.unlogged
  BY <1>1, <1>3 DEF Processor
<1>5. proc' \in Processor
  BY <1>1, <1>3 DEF Processor
<1>6. bounds' \in Bounds /\ bounds'.signals = bounds.signals
  BY <1>2, HappensOnce
<1>7. TypeInv'
  BY <1>2, <1>5, <1>6 DEF TypeInv
<1>8. Pending' \subseteq Pending /\ Stored' = Stored /\ Printed' \subseteq Printed
  BY <1>2, <1>4 DEF Pending, Stored, Printed, Unlogged
<1>9. MessageInv'
  <2>1. Seen' \subseteq Seen
    BY <1>2, <1>8 DEF Seen
  <2> QED BY <1>6, <2>1 DEF MessageInv
<1>10. LogInv'
  BY <1>2, <1>8, SteadyKeeps DEF LogInv
<1>11. RowsInv'
  BY <1>2, <1>4 DEF RowsInv
<1> QED BY <1>2, <1>7, <1>9, <1>10, <1>11

LEMMA ObserveIsFine ==
  ASSUME SystemInv, SteadyStep, Observe
  PROVE  SystemInv' /\ UNCHANGED <<capture, file>>
<1> USE DEF SystemInv
<1> DEFINE seen == [message |-> bounds.signals, at |-> now, file |-> proc.file,
                    synthetic |-> proc.synthetic,
                    qualified |-> ~proc.synthetic /\ ValidAt(proc.file, now)]
<1>1. /\ proc # None /\ proc.unlogged = {} /\ Happens("signals", MaxSignals)
      /\ proc' = [proc EXCEPT !.signals = @ + 1,
                    !.unlogged = IF proc.synthetic THEN {} ELSE {seen},
                    !.pending = IF proc.synthetic \/ seen.qualified THEN @ \cup {seen} ELSE @]
      /\ UNCHANGED <<now, statistics, positions, rawlog, file, preflight, capture>>
  BY DEF Observe
<1>2. proc \in Processor /\ bounds.signals \in Nat
  BY <1>1, HappensOnce DEF TypeInv
<1>3. /\ seen.message = bounds.signals /\ seen.at = now /\ seen.file = proc.file
      /\ seen.synthetic = proc.synthetic
      /\ seen.qualified = (~proc.synthetic /\ ValidAt(proc.file, now))
  OBVIOUS
<1>4. seen \in Observation
  BY <1>2 DEF Observation, Processor, TypeInv
<1> HIDE DEF seen
<1>5. /\ proc'.synthetic = proc.synthetic /\ proc'.file = proc.file /\ proc'.since = proc.since
      /\ proc'.signals = proc.signals + 1 /\ proc'.groups = proc.groups
      /\ proc'.pending \in {proc.pending, proc.pending \cup {seen}}
      /\ proc'.unlogged = IF proc.synthetic THEN {} ELSE {seen}
  BY <1>1, <1>2 DEF Processor
<1>6. proc' \in Processor
  <2>1. proc.pending \cup {seen} \in SUBSET Observation /\ proc.pending \in SUBSET Observation
    BY <1>2, <1>4 DEF Processor
  <2>2. /\ proc'.pending \in SUBSET Observation /\ proc'.signals \in Nat
        /\ proc'.unlogged \in SUBSET Observation
    BY <1>2, <1>4, <1>5, <2>1 DEF Processor
  <2>3. proc' = [proc EXCEPT !.signals = proc'.signals, !.unlogged = proc'.unlogged,
                             !.pending = proc'.pending]
    BY <1>1, <1>2 DEF Processor
  <2> DEFINE n == proc'.signals
             o == proc'.pending
             u == proc'.unlogged
  <2> HIDE DEF n, o, u
  <2>4. /\ proc' = [proc EXCEPT !.signals = n, !.unlogged = u, !.pending = o]
        /\ n \in Nat /\ o \in SUBSET Observation /\ u \in SUBSET Observation
    BY <2>2, <2>3 DEF n, o, u
  <2> QED BY <1>2, <2>4 DEF Processor
<1>7. /\ bounds' \in Bounds
      /\ bounds'.signals = bounds.signals + 1
  BY <1>1, HappensOnce
<1>8. /\ Printed' \subseteq IF proc.synthetic THEN Printed ELSE Printed \cup {seen}
      /\ Pending' # {} /\ ~proc.synthetic => seen \in Printed'
  BY <1>1, <1>2, <1>5 DEF Printed, Unlogged, Pending
<1>9. TypeInv'
  BY <1>1, <1>6, <1>7 DEF TypeInv
<1>10. Pending' \subseteq Pending \cup {seen} /\ Stored' = Stored /\ Seen' \subseteq Seen \cup {seen}
  <2>1. Pending' \subseteq Pending \cup {seen}
    BY <1>1, <1>5 DEF Pending
  <2> QED BY <1>1, <1>8, <2>1 DEF Stored, Seen
<1>11. MessageInv'
  <2>1. \A o \in Seen : o.message \in Nat
    BY SeenIsTyped DEF Observation
  <2>2. \A o \in Seen : o.message < bounds'.signals /\ o.message # seen.message
    BY <1>2, <1>3, <1>7, <2>1 DEF MessageInv
  <2>3. seen.message < bounds'.signals
    BY <1>2, <1>3, <1>7
  <2> QED BY <1>10, <2>2, <2>3 DEF MessageInv
<1>12. LogInv'
  <2>1. \A o \in Printed' \cup capture'.raw :
          ~o.synthetic /\ (o.qualified => ValidAt(o.file, o.at))
    <3>1. CASE proc.synthetic
      BY <1>1, <1>8, <3>1 DEF LogInv
    <3>2. CASE ~proc.synthetic
      BY <1>1, <1>3, <1>8, <3>2 DEF LogInv
    <3> QED BY <3>1, <3>2
  <2>2. ASSUME steady', NEW o \in Pending' \cup Stored', ~o.synthetic PROVE o \in Printed'
    <3>1. CASE o \in Pending' /\ o = seen
      BY <1>3, <1>8, <2>2, <3>1
    <3>2. CASE o \in Pending \cup Stored
      BY <2>2, <3>2, SteadyKeeps DEF LogInv
    <3> QED BY <1>10, <2>2, <3>1, <3>2
  <2> QED BY <2>1, <2>2 DEF LogInv
<1>13. RowsInv'
  <2>1. \A i \in DOMAIN statistics : statistics[i].total_signals \in Nat
    BY RowsAreTyped
  <2>2. proc.signals \in Nat
    BY <1>2 DEF Processor
  <2> QED BY <1>1, <1>5, <2>1, <2>2 DEF RowsInv
<1> QED BY <1>1, <1>9, <1>11, <1>12, <1>13

LEMMA LogLineIsFine ==
  ASSUME SystemInv, SteadyStep, LogLine
  PROVE  SystemInv' /\ UNCHANGED <<capture, file>>
<1> USE DEF SystemInv
<1>1. /\ proc # None /\ rawlog' = rawlog \cup proc.unlogged
      /\ proc' = [proc EXCEPT !.unlogged = {}]
      /\ UNCHANGED <<now, statistics, positions, file, preflight, capture, bounds>>
  BY DEF LogLine
<1>2. proc \in Processor
  BY <1>1 DEF TypeInv
<1>3. /\ proc'.synthetic = proc.synthetic /\ proc'.since = proc.since
      /\ proc'.signals = proc.signals /\ proc'.groups = proc.groups
      /\ proc'.pending = proc.pending /\ proc'.unlogged = {}
  BY <1>1, <1>2 DEF Processor
<1>4. proc' \in Processor /\ proc.unlogged \subseteq Observation
  BY <1>1, <1>2 DEF Processor
<1>5. TypeInv'
  BY <1>1, <1>4 DEF TypeInv
<1>6. Pending' \subseteq Pending /\ Stored' = Stored /\ Printed' = Printed
  BY <1>1, <1>3 DEF Pending, Stored, Printed, Unlogged
<1>7. MessageInv' /\ LogInv'
  <2>1. Seen' \subseteq Seen
    BY <1>1, <1>6 DEF Seen
  <2> QED BY <1>1, <1>6, <2>1, SteadyKeeps DEF MessageInv, LogInv
<1>8. RowsInv'
  BY <1>1, <1>3 DEF RowsInv
<1> QED BY <1>1, <1>5, <1>7, <1>8

LEMMA SolveIsFine ==
  ASSUME SystemInv, SteadyStep, Solve
  PROVE  SystemInv' /\ UNCHANGED <<capture, file>>
<1> USE DEF SystemInv
<1>1. PICK group \in proc.pending, stored \in BOOLEAN :
        /\ proc' = [proc EXCEPT !.pending = @ \ {group}, !.groups = @ + 1]
        /\ positions' = IF stored THEN Append(positions, group) ELSE positions
  BY DEF Solve
<1>2. /\ proc # None
      /\ UNCHANGED <<now, statistics, rawlog, file, preflight, capture, bounds>>
  BY DEF Solve
<1>3. proc \in Processor /\ group \in Observation
  BY <1>1, <1>2 DEF TypeInv, Processor
<1>4. /\ proc'.synthetic = proc.synthetic /\ proc'.since = proc.since
      /\ proc'.signals = proc.signals /\ proc'.groups = proc.groups + 1
      /\ proc'.pending \subseteq proc.pending /\ proc'.unlogged = proc.unlogged
  BY <1>1, <1>3 DEF Processor
<1>5. proc' \in Processor
  <2>1. proc.pending \ {group} \in SUBSET Observation /\ proc.groups + 1 \in Nat
    BY <1>3 DEF Processor
  <2> DEFINE o == proc.pending \ {group}
             n == proc.groups + 1
  <2>2. proc' = [proc EXCEPT !.pending = o, !.groups = n]
    BY <1>1
  <2> HIDE DEF o, n
  <2>3. o \in SUBSET Observation /\ n \in Nat
    BY <2>1 DEF o, n
  <2> QED BY <1>3, <2>2, <2>3 DEF Processor
<1>6. positions' \in Seq(Observation) /\ Stored' \subseteq Stored \cup {group}
  <2>1. CASE stored
    <3>1. positions' = Append(positions, group)
      BY <1>1, <2>1
    <3>2. /\ positions' \in Seq(Observation)
          /\ DOMAIN positions' = DOMAIN positions \cup {Len(positions) + 1}
          /\ positions'[Len(positions) + 1] = group
          /\ \A k \in DOMAIN positions : positions'[k] = positions[k]
      BY <1>3, <3>1, AppendExtends DEF TypeInv
    <3> QED BY <3>2 DEF Stored
  <2>2. CASE ~stored
    BY <1>1, <2>2 DEF TypeInv, Stored
  <2> QED BY <2>1, <2>2
<1>7. TypeInv'
  BY <1>2, <1>5, <1>6 DEF TypeInv
<1>8. Pending' \subseteq Pending /\ group \in Pending /\ Printed' \subseteq Printed
  BY <1>1, <1>2, <1>4 DEF Pending, Printed, Unlogged
<1>9. MessageInv'
  <2>1. Seen' \subseteq Seen
    BY <1>2, <1>6, <1>8 DEF Seen
  <2> QED BY <1>2, <2>1, NothingNew
<1>10. LogInv'
  BY <1>2, <1>6, <1>8, SteadyKeeps DEF LogInv
<1>11. RowsInv'
  <2>1. \A i \in DOMAIN statistics : statistics[i].total_positions \in Nat
    BY RowsAreTyped
  <2>2. proc.groups \in Nat
    BY <1>3 DEF Processor
  <2> QED BY <1>2, <1>4, <2>1, <2>2 DEF RowsInv
<1> QED BY <1>2, <1>7, <1>9, <1>10, <1>11

LEMMA StoreStatisticsIsFine ==
  ASSUME SystemInv, SteadyStep, StoreStatistics
  PROVE  SystemInv' /\ UNCHANGED <<capture, file>>
<1> USE DEF SystemInv
<1> DEFINE row == Row
           n == Len(statistics) + 1
<1>1. /\ proc # None /\ now > proc.since /\ statistics' = Append(statistics, row)
      /\ statistics # <<>> => Last(statistics).at < now
      /\ UNCHANGED <<now, proc, positions, rawlog, file, preflight, capture, bounds>>
  BY DEF StoreStatistics
<1>2. proc \in Processor
  BY <1>1 DEF TypeInv
<1>3. row \in StatisticsRow
  BY <1>2 DEF Row, TypeInv, Processor, StatisticsRow
<1>4. /\ row.at = now /\ row.total_signals = proc.signals /\ row.total_positions = proc.groups
      /\ row.synthetic = proc.synthetic
  BY DEF Row
<1> HIDE DEF row
<1>5. /\ statistics' \in Seq(StatisticsRow)
      /\ DOMAIN statistics' = DOMAIN statistics \cup {n} /\ n \notin DOMAIN statistics
      /\ statistics'[n] = row
      /\ \A k \in DOMAIN statistics : k \in Nat /\ k < n /\ statistics'[k] = statistics[k]
  BY <1>1, <1>3, AppendExtends DEF TypeInv
<1>6. n \in Nat
  BY DEF TypeInv
<1>7. TypeInv'
  BY <1>1, <1>5 DEF TypeInv
<1>8. MessageInv' /\ LogInv'
  <2>1. Pending' = Pending /\ Stored' = Stored /\ Printed' = Printed
    BY <1>1 DEF Pending, Stored, Printed, Unlogged
  <2>2. Seen' = Seen
    BY <1>1, <2>1 DEF Seen
  <2> QED BY <1>1, <2>1, <2>2, SteadyKeeps DEF MessageInv, LogInv
<1>9. \A i \in DOMAIN statistics : statistics[i].at < now
  <2> SUFFICES ASSUME NEW i \in DOMAIN statistics PROVE statistics[i].at < now
    OBVIOUS
  <2>1. statistics # <<>> /\ statistics \in Seq(StatisticsRow)
    BY DEF TypeInv
  <2>2. /\ statistics[Len(statistics)].at < now /\ Len(statistics) \in DOMAIN statistics
        /\ i = Len(statistics) \/ i < Len(statistics)
    BY <1>1, <2>1, LastOf
  <2>3. statistics[i].at \in Nat /\ statistics[Len(statistics)].at \in Nat /\ now \in Nat
    BY <2>2, RowsAreTyped DEF TypeInv
  <2> QED BY <2>2, <2>3 DEF RowsInv
<1> HIDE DEF n
<1>10. \A i, j \in DOMAIN statistics' : i < j => i \in DOMAIN statistics
  BY <1>5, <1>6
<1>11. RowsInv'
  <2>1. \A i \in DOMAIN statistics' : statistics'[i].at <= now
    BY <1>4, <1>5 DEF RowsInv, TypeInv
  <2>2. \A i, j \in DOMAIN statistics' : i < j => statistics'[i].at < statistics'[j].at
    BY <1>4, <1>5, <1>9, <1>10 DEF RowsInv
  <2>3. \A i \in DOMAIN statistics' : statistics'[i].at > proc.since =>
          /\ statistics'[i].synthetic = proc.synthetic
          /\ statistics'[i].total_signals <= proc.signals
          /\ statistics'[i].total_positions <= proc.groups
    <3>1. proc.signals <= proc.signals /\ proc.groups <= proc.groups
      BY <1>2 DEF Processor
    <3> QED BY <1>1, <1>4, <1>5, <3>1 DEF RowsInv
  <2>4. \A i, j \in DOMAIN statistics' : i < j /\ statistics'[i].at > proc.since =>
          /\ statistics'[i].total_signals <= statistics'[j].total_signals
          /\ statistics'[i].total_positions <= statistics'[j].total_positions
    BY <1>1, <1>4, <1>5, <1>10 DEF RowsInv
  <2> QED BY <1>1, <2>1, <2>2, <2>3, <2>4 DEF RowsInv
<1> QED BY <1>1, <1>7, <1>8, <1>11

LEMMA StopIsFine ==
  ASSUME SystemInv, SteadyStep, Stop
  PROVE  SystemInv' /\ UNCHANGED <<capture, file>>
<1> USE DEF SystemInv
<1>1. /\ proc' = None
      /\ UNCHANGED <<now, statistics, positions, rawlog, file, preflight, capture, bounds>>
  BY DEF Stop
<1>2. Pending' = {} /\ Stored' = Stored /\ Printed' \subseteq Printed
  BY <1>1 DEF Pending, Stored, Printed, Unlogged
<1>3. Seen' \subseteq Seen
  BY <1>1, <1>2 DEF Seen
<1>4. MessageInv' /\ LogInv'
  BY <1>1, <1>2, <1>3, NothingNew, SteadyKeeps DEF LogInv
<1>5. TypeInv' /\ RowsInv'
  BY <1>1 DEF TypeInv, RowsInv
<1> QED BY <1>1, <1>4, <1>5

LEMMA OperatorIsFine ==
  ASSUME SystemInv, SteadyStep, Edit \/ Preflight
  PROVE  SystemInv' /\ UNCHANGED <<capture, proc>>
<1> USE DEF SystemInv
<1>1. /\ file' \in Files /\ bounds'.signals = bounds.signals
      /\ bounds' \in Bounds
      /\ UNCHANGED <<now, proc, statistics, positions, rawlog, capture>>
  <2>1. CASE Edit
    BY <2>1, HappensOnce DEF Edit
  <2>2. CASE Preflight
    BY <2>2 DEF Preflight, TypeInv
  <2> QED BY <2>1, <2>2
<1>2. Pending' = Pending /\ Stored' = Stored /\ Printed' = Printed
  BY <1>1 DEF Pending, Stored, Printed, Unlogged
<1>3. Seen' = Seen
  BY <1>1, <1>2 DEF Seen
<1>4. MessageInv' /\ LogInv'
  BY <1>1, <1>2, <1>3, SteadyKeeps DEF MessageInv, LogInv
<1>5. TypeInv' /\ RowsInv'
  BY <1>1 DEF TypeInv, RowsInv
<1> QED BY <1>1, <1>4, <1>5

LEMMA TimePassesIsFine ==
  ASSUME SystemInv, SteadyStep, TimePasses
  PROVE  SystemInv' /\ UNCHANGED <<capture, file>>
<1> USE DEF SystemInv
<1>1. /\ now' = now + 1
      /\ UNCHANGED <<proc, statistics, positions, rawlog, file, preflight, capture, bounds>>
  BY DEF TimePasses
<1>2. Pending' = Pending /\ Stored' = Stored /\ Printed' = Printed
  BY <1>1 DEF Pending, Stored, Printed, Unlogged
<1>3. Seen' = Seen
  BY <1>1, <1>2 DEF Seen
<1>4. MessageInv' /\ LogInv'
  BY <1>1, <1>2, <1>3, SteadyKeeps DEF MessageInv, LogInv
<1>5. TypeInv'
  BY <1>1 DEF TypeInv
<1>6. RowsInv'
  <2>1. \A i \in DOMAIN statistics : statistics[i].at \in Nat
    BY RowsAreTyped
  <2>2. proc # None => proc.since \in Nat
    BY DEF TypeInv, Processor
  <2> QED BY <1>1, <2>1, <2>2 DEF RowsInv, TypeInv
<1> QED BY <1>1, <1>4, <1>5, <1>6

-----------------------------------------------------------------------------
(* The operational history *)

OwnRow == statistics # <<>> /\ Last(statistics).at > proc.since
Unreported ==
  IF proc = None THEN 0
  ELSE IF OwnRow THEN proc.signals - Last(statistics).total_signals ELSE proc.signals

\* The history and what the running processor has not reported yet are both within
\* what was received; a row of its own was stored when it had run for its uptime.
ClaimInv ==
  /\ claimed \in Int /\ claimed + Unreported <= bounds.signals
  /\ proc # None /\ OwnRow => Last(statistics).uptime = Last(statistics).at - proc.since

LastRow ==
  statistics # <<>> =>
    /\ Last(statistics) = statistics[Len(statistics)] /\ Len(statistics) \in DOMAIN statistics
    /\ Last(statistics).at \in Nat /\ Last(statistics).uptime \in Int
    /\ Last(statistics).total_signals \in Nat /\ Last(statistics).total_positions \in Nat
    /\ Last(statistics).at <= now

LEMMA LastRowIsTyped ==
  ASSUME TypeInv, RowsInv
  PROVE  LastRow
<1> SUFFICES ASSUME statistics # <<>> PROVE LastRow
  BY DEF LastRow
<1> DEFINE R == StatisticsRow
<1>1. \A row \in R : row.uptime \in Int
  BY DEF StatisticsRow
<1>2. statistics \in Seq(R)
  BY DEF TypeInv
<1> HIDE DEF R
<1>3. /\ Last(statistics) = statistics[Len(statistics)] /\ Len(statistics) \in DOMAIN statistics
      /\ Last(statistics) \in R
  BY <1>2, LastOf
<1> QED BY <1>1, <1>3, RowsAreTyped DEF LastRow, RowsInv

\* A sample claims what the row reports, or what it adds to the row before.
LEMMA SampleOfRow ==
  ASSUME TypeInv, RowsInv, StoreStatistics
  PROVE  LET n == Len(statistics')
             delta == SignalDelta(statistics', n)
         IN  /\ Last(statistics') = Row /\ statistics' # <<>> /\ statistics' # statistics
             /\ delta = IF statistics # <<>> /\ Continues(Row, Last(statistics))
                        THEN Row.total_signals - Last(statistics).total_signals
                        ELSE Row.total_signals
<1> DEFINE R == StatisticsRow
           n == Len(statistics) + 1
<1>1. statistics' = Append(statistics, Row) /\ proc # None
  BY DEF StoreStatistics
<1>2. Row \in R /\ statistics \in Seq(R)
  <2>1. proc \in Processor
    BY <1>1 DEF TypeInv
  <2> QED BY <2>1 DEF Row, TypeInv, Processor, StatisticsRow
<1> HIDE DEF R
<1>3. /\ statistics' \in Seq(R) /\ Len(statistics') = n /\ n \in Nat /\ n >= 1
      /\ statistics'[n] = Row /\ statistics' # <<>>
      /\ \A k \in DOMAIN statistics : statistics'[k] = statistics[k]
  BY <1>1, <1>2, AppendProperties
<1>4. Last(statistics') = Row
  BY <1>3, LastOf
<1>5. statistics' # statistics
  BY <1>2, <1>3
<1>6. n > 1 <=> statistics # <<>>
  BY <1>2, <1>3
<1>7. statistics # <<>> => statistics'[Before(n)] = Last(statistics)
  BY <1>2, <1>3, LastOf DEF Before
<1>8. Row.uptime > 0
  <2>1. now > proc.since /\ now \in Nat /\ proc.since \in Nat
    BY <1>1 DEF StoreStatistics, TypeInv, Processor
  <2> QED BY <2>1 DEF Row
<1>9. SignalDelta(statistics', n) =
        IF statistics # <<>> /\ Continues(Row, Last(statistics))
        THEN Row.total_signals - Last(statistics).total_signals
        ELSE Row.total_signals
  BY <1>3, <1>6, <1>7, <1>8 DEF SignalDelta
<1> QED BY <1>3, <1>4, <1>5, <1>9

LEMMA UnreportedIsNatural ==
  ASSUME TypeInv, RowsInv
  PROVE  Unreported \in Int /\ Unreported >= 0
<1>1. proc # None => proc.signals \in Nat
  BY DEF TypeInv, Processor
<1>2. proc # None /\ OwnRow =>
        /\ Last(statistics).total_signals <= proc.signals
        /\ Last(statistics).total_signals \in Nat
  BY LastRowIsTyped DEF OwnRow, LastRow, RowsInv
<1> QED BY <1>1, <1>2 DEF Unreported

LEMMA StoringClaims ==
  ASSUME TypeInv, RowsInv, ClaimInv, StoreStatistics, Claimed
  PROVE  ClaimInv'
<1> DEFINE last == Last(statistics)
           delta == SignalDelta(statistics', Len(statistics'))
<1>1. /\ proc # None /\ now > proc.since /\ UNCHANGED <<now, proc, bounds>>
      /\ proc \in Processor
  BY DEF StoreStatistics, TypeInv
<1>2. /\ Row.at = now /\ Row.uptime = now - proc.since
      /\ Row.total_signals = proc.signals /\ Row.total_positions = proc.groups
  BY DEF Row
<1>3. /\ proc.signals \in Nat /\ proc.groups \in Nat /\ proc.since \in Nat /\ now \in Nat
      /\ bounds.signals \in Nat /\ claimed \in Int
  BY <1>1 DEF TypeInv, Bounds, Processor, ClaimInv
<1>4. /\ Last(statistics') = Row /\ statistics' # <<>> /\ claimed' = claimed + delta
      /\ delta = IF statistics # <<>> /\ Continues(Row, last)
                 THEN proc.signals - last.total_signals ELSE proc.signals
  BY <1>2, SampleOfRow DEF Claimed
<1>5. statistics # <<>> =>
        /\ last.at \in Nat /\ last.uptime \in Int /\ last.at <= now
        /\ last.total_signals \in Nat /\ last.total_positions \in Nat
  BY LastRowIsTyped DEF LastRow
<1>6. OwnRow =>
        /\ last.uptime = last.at - proc.since
        /\ last.total_signals <= proc.signals /\ last.total_positions <= proc.groups
  BY <1>1, LastRowIsTyped DEF ClaimInv, OwnRow, LastRow, RowsInv
<1> HIDE DEF last, delta
<1>7. OwnRow => Continues(Row, last)
  BY <1>2, <1>3, <1>5, <1>6 DEF Continues, OwnRow, last
<1>8. delta \in Int /\ delta <= Unreported
  <2>1. CASE OwnRow
    BY <1>1, <1>3, <1>4, <1>5, <1>7, <2>1 DEF Unreported, OwnRow, last
  <2>2. CASE ~OwnRow
    BY <1>1, <1>3, <1>4, <1>5, <2>2 DEF Unreported
  <2> QED BY <2>1, <2>2
<1>9. OwnRow' /\ Unreported' = 0
  BY <1>1, <1>2, <1>3, <1>4 DEF OwnRow, Unreported
<1>10. Unreported \in Int
  BY <1>3, <1>5 DEF Unreported, OwnRow, last
<1>11. claimed' \in Int /\ claimed' + Unreported' <= bounds'.signals
  <2>1. claimed + Unreported <= bounds.signals
    BY DEF ClaimInv
  <2> QED BY <1>1, <1>3, <1>4, <1>8, <1>9, <1>10, <2>1
<1> QED BY <1>1, <1>2, <1>4, <1>11 DEF ClaimInv

\* Signals are received before they are reported, and a processor that ends or begins
\* has nothing to report.
LEMMA ReceivingClaims ==
  ASSUME TypeInv, RowsInv, ClaimInv, Claimed, UNCHANGED statistics,
         \/ /\ proc' # None /\ proc # None /\ proc'.since = proc.since
            /\ \/ proc'.signals = proc.signals + 1 /\ bounds'.signals = bounds.signals + 1
               \/ proc'.signals = proc.signals /\ bounds'.signals = bounds.signals
         \/ proc' = None /\ bounds'.signals \in {bounds.signals, bounds.signals + 1}
         \/ /\ proc = None /\ proc'.signals = 0 /\ proc'.since = now
            /\ bounds'.signals = bounds.signals
  PROVE  ClaimInv'
<1>1. claimed' = claimed /\ claimed \in Int /\ bounds.signals \in Nat
  BY DEF Claimed, ClaimInv, TypeInv, Bounds
<1>2. /\ proc # None => proc.signals \in Nat /\ proc.since \in Nat
      /\ now \in Nat
  BY DEF TypeInv, Processor
<1>3. statistics # <<>> =>
        /\ Last(statistics).at \in Nat /\ Last(statistics).at <= now
        /\ Last(statistics).total_signals \in Nat
  BY LastRowIsTyped DEF LastRow
<1>4. CASE /\ proc' # None /\ proc # None /\ proc'.since = proc.since
           /\ \/ proc'.signals = proc.signals + 1 /\ bounds'.signals = bounds.signals + 1
              \/ proc'.signals = proc.signals /\ bounds'.signals = bounds.signals
  <2>1. OwnRow' = OwnRow
    BY <1>4 DEF OwnRow
  <2>2. Unreported' - Unreported = bounds'.signals - bounds.signals
        /\ Unreported \in Int /\ Unreported' \in Int /\ bounds'.signals \in Int
    <3>1. /\ proc'.signals - proc.signals = bounds'.signals - bounds.signals
          /\ proc.signals \in Nat /\ proc'.signals \in Nat /\ bounds'.signals \in Nat
      BY <1>1, <1>2, <1>4
    <3>2. /\ Unreported = proc.signals - IF OwnRow THEN Last(statistics).total_signals ELSE 0
          /\ Unreported' = proc'.signals - IF OwnRow THEN Last(statistics).total_signals ELSE 0
      BY <1>4, <2>1, <3>1 DEF Unreported
    <3>3. OwnRow => Last(statistics).total_signals \in Nat
      BY <1>3 DEF OwnRow
    <3> QED BY <1>1, <3>1, <3>2, <3>3
  <2>3. claimed' + Unreported' <= bounds'.signals
    BY <1>1, <2>2 DEF ClaimInv
  <2> QED BY <1>1, <1>4, <2>1, <2>3 DEF ClaimInv
<1>5. CASE proc' = None /\ bounds'.signals \in {bounds.signals, bounds.signals + 1}
  <2>1. Unreported >= 0 /\ Unreported \in Int
    BY UnreportedIsNatural
  <2>2. Unreported' = 0
    BY <1>5 DEF Unreported
  <2> QED BY <1>1, <1>5, <2>1, <2>2 DEF ClaimInv
<1>6. CASE /\ proc = None /\ proc'.signals = 0 /\ proc'.since = now
           /\ bounds'.signals = bounds.signals
  <2>1. ~OwnRow'
    BY <1>2, <1>3, <1>6 DEF OwnRow
  <2>2. Unreported = 0 /\ Unreported' = 0
    BY <1>6, <2>1 DEF Unreported
  <2> QED BY <1>1, <1>6, <2>1, <2>2 DEF ClaimInv
<1> QED BY <1>4, <1>5, <1>6

LEMMA ClaimStays ==
  ASSUME TypeInv, RowsInv, ClaimInv, Claimed, UNCHANGED <<statistics, proc>>,
         bounds'.signals = bounds.signals
  PROVE  ClaimInv'
BY ReceivingClaims

LEMMA NextClaims ==
  ASSUME TypeInv, RowsInv, ClaimInv, [Next]_vars
  PROVE  ClaimInv'
<1>1. CASE Action /\ Claimed
  <2>1. CASE \E restarts \in BOOLEAN : Refresh(restarts)
    <3>1. PICK restarts \in BOOLEAN : Refresh(restarts)
      BY <2>1
    <3>2. bounds'.signals = bounds.signals
      BY <3>1, HappensOnce DEF Refresh
    <3>3. /\ proc # None /\ proc'.since = proc.since /\ proc'.signals = proc.signals
          /\ UNCHANGED statistics
      BY <3>1 DEF Refresh, TypeInv, Processor
    <3> QED BY <1>1, <3>2, <3>3, ReceivingClaims
  <2>2. CASE \E synthetic \in BOOLEAN : Start(synthetic)
    <3>1. PICK synthetic \in BOOLEAN : Start(synthetic)
      BY <2>2
    <3>2. bounds'.signals = bounds.signals
      BY <3>1, HappensOnce DEF Start
    <3>3. /\ proc = None /\ proc'.signals = 0 /\ proc'.since = now /\ UNCHANGED statistics
      BY <3>1 DEF Start
    <3> QED BY <1>1, <3>2, <3>3, ReceivingClaims
  <2>3. CASE Observe
    <3>1. bounds'.signals = bounds.signals + 1
      BY <2>3, HappensOnce DEF Observe
    <3>2. /\ proc # None /\ proc'.since = proc.since /\ proc'.signals = proc.signals + 1
          /\ UNCHANGED statistics
      BY <2>3 DEF Observe, TypeInv, Processor
    <3> QED BY <1>1, <3>1, <3>2, ReceivingClaims
  <2>4. CASE LogLine
    <3>1. /\ proc # None /\ proc'.since = proc.since /\ proc'.signals = proc.signals
          /\ UNCHANGED <<statistics, bounds>>
      BY <2>4 DEF LogLine, TypeInv, Processor
    <3> QED BY <1>1, <3>1, ReceivingClaims
  <2>5. CASE Solve
    <3>1. /\ proc # None /\ proc'.since = proc.since /\ proc'.signals = proc.signals
          /\ UNCHANGED <<statistics, bounds>>
      BY <2>5 DEF Solve, TypeInv, Processor
    <3> QED BY <1>1, <3>1, ReceivingClaims
  <2>6. CASE StoreStatistics
    BY <1>1, <2>6, StoringClaims
  <2>7. CASE Stop
    BY <1>1, <2>7, ReceivingClaims DEF Stop
  <2>8. CASE Edit \/ Preflight \/ TimePasses
    <3>1. bounds'.signals = bounds.signals
      BY <2>8, HappensOnce DEF Edit, Preflight, TimePasses
    <3> QED BY <1>1, <2>8, <3>1, ClaimStays DEF Edit, Preflight, TimePasses
  <2>9. CASE \/ CheckInputs \/ FetchMode \/ FetchPipeline \/ CopyConfig
             \/ SampleReliability \/ ExportPositions \/ CopyRaw \/ WriteManifest
    BY <1>1, <2>9, ClaimStays DEF CheckInputs, FetchMode, FetchPipeline, CopyConfig,
       SampleReliability, ExportPositions, CopyRaw, WriteManifest, Gate, Step
  <2> QED BY <1>1, <2>1, <2>2, <2>3, <2>4, <2>5, <2>6, <2>7, <2>8, <2>9 DEF Action
<1>2. CASE UNCHANGED vars
  BY <1>2 DEF vars, ClaimInv, Unreported, OwnRow
<1> QED BY <1>1, <1>2 DEF Next

-----------------------------------------------------------------------------
(* The capture *)

\* Each read of a capture that nothing disturbs finds what its gate asks for.
LEMMA CalmPasses ==
  ASSUME SystemInv, Calm, steady, TimesAssumption
  PROVE  /\ ModeIsLive /\ DataIsLive /\ PipelinePasses
         /\ RecentPositions(ExportSeconds) # {}
         /\ RecentPositions(ExportSeconds) \subseteq Printed
         /\ RecentPositions(ExportSeconds) \subseteq Stored
         /\ \A record \in rawlog : record.qualified /\ record.file = file
<1> USE DEF SystemInv
<1>1. /\ proc # None /\ ~proc.synthetic /\ proc \in Processor
      /\ positions # <<>> /\ now - Last(positions).at <= StaleSeconds
      /\ \A record \in rawlog : record.qualified /\ record.file = file
      /\ \A p \in Range(positions) : p.synthetic => p.at < now - ExportSeconds
      /\ receivers
  BY DEF Calm, TypeInv
<1>2. PICK row \in Range(statistics) :
        /\ row.at > proc.since /\ now - row.at <= TelemetrySeconds
        /\ row.total_signals > 0 /\ row.total_positions > 0
  BY DEF Calm
<1>3. PICK i \in DOMAIN statistics : row = statistics[i]
  BY <1>2 DEF Range
<1> DEFINE n == Len(statistics)
<1>4. /\ Last(statistics) = statistics[n] /\ n \in DOMAIN statistics
      /\ statistics # <<>> /\ (i = n \/ i < n)
  <2>1. statistics \in Seq(StatisticsRow) /\ statistics # <<>>
    BY <1>3 DEF TypeInv
  <2> QED BY <1>3, <2>1, LastOf
<1> HIDE DEF n
<1>5. /\ statistics[i].at \in Nat /\ statistics[n].at \in Nat
      /\ statistics[i].total_signals \in Nat /\ statistics[n].total_signals \in Nat
      /\ statistics[i].total_positions \in Nat /\ statistics[n].total_positions \in Nat
  BY <1>3, <1>4, RowsAreTyped
<1>6. proc.since \in Nat /\ now \in Nat
  BY <1>1 DEF TypeInv, Processor
<1>7. statistics[n].at >= statistics[i].at
  BY <1>3, <1>4, <1>5 DEF RowsInv
<1>8. /\ statistics[n].total_signals >= statistics[i].total_signals
      /\ statistics[n].total_positions >= statistics[i].total_positions
  BY <1>1, <1>2, <1>3, <1>4, <1>5 DEF RowsInv
<1>9. statistics[n].at > proc.since
  BY <1>2, <1>3, <1>5, <1>6, <1>7
<1>10. ~Synthetic
  BY <1>1, <1>4, <1>9 DEF RowsInv, Synthetic
<1>11. TelemetryFresh
  BY <1>2, <1>3, <1>4, <1>5, <1>6, <1>7, TimesAssumption DEF TelemetryFresh
<1>12. Last(statistics).total_signals > 0 /\ Last(statistics).total_positions > 0
  BY <1>2, <1>3, <1>4, <1>5, <1>8
<1>13. /\ Last(positions) \in Range(positions) /\ Last(positions).at \in Nat
       /\ Range(positions) = Stored
  <2>1. positions \in Seq(Observation)
    BY DEF TypeInv
  <2>2. Last(positions) = positions[Len(positions)] /\ Len(positions) \in DOMAIN positions
        /\ Last(positions) \in Observation
    BY <1>1, <2>1, LastOf
  <2> QED BY <2>2 DEF Range, Stored, Observation
<1>14. /\ Last(positions) \in RecentPositions(RecentSeconds)
       /\ Last(positions) \in RecentPositions(ExportSeconds)
  BY <1>1, <1>6, <1>13, TimesAssumption DEF RecentPositions
<1>15. SignalFresh
  BY <1>1, <1>11 DEF SignalFresh
<1>16. ModeIsLive /\ DataIsLive /\ PipelinePasses
  <2>1. Last(statistics).registry
    <3>1. Last(statistics) \in Range(statistics)
      BY <1>4 DEF Range
    <3> QED BY <1>4, <1>9, <3>1 DEF Calm
  <2> QED BY <1>1, <1>4, <1>10, <1>11, <1>12, <1>14, <1>15, <2>1
          DEF ModeIsLive, DataIsLive, PipelinePasses, Benchmarkable
<1>17. ASSUME NEW p \in RecentPositions(ExportSeconds) PROVE p \in Printed /\ p \in Stored
  <2>1. p \in Stored /\ p \in Range(positions) /\ p.at >= now - ExportSeconds
    BY <1>13 DEF RecentPositions
  <2>2. p.at \in Nat /\ ~(p.at < now - ExportSeconds)
    <3>1. p \in Observation
      BY <2>1, SeenIsTyped DEF Seen
    <3>2. p.at \in Nat
      BY <3>1 DEF Observation
    <3> QED BY <1>6, <2>1, <3>2, TimesAssumption
  <2>3. ~p.synthetic
    BY <1>1, <2>1, <2>2
  <2> QED BY <2>1, <2>3 DEF LogInv
<1> QED BY <1>1, <1>14, <1>16, <1>17

Others == <<now, proc, statistics, positions, receivers, rawlog, file, preflight, bounds>>

\* A step of the capture keeps only what is stored or logged.
LEMMA CaptureKeeps ==
  ASSUME SystemInv, steady' => steady, UNCHANGED Others, DOMAIN capture' = DOMAIN capture,
         capture'.positions \subseteq capture.positions \cup Stored,
         capture'.raw \subseteq capture.raw \cup rawlog
  PROVE  SystemInv'
<1> USE DEF SystemInv, Others
<1>1. Stored \subseteq Observation
  BY SeenIsTyped DEF Seen
<1>2. TypeInv'
  BY <1>1 DEF TypeInv
<1>3. Pending' = Pending /\ Stored' = Stored /\ Printed' = Printed
  BY DEF Pending, Stored, Printed, Unlogged
<1>4. Seen' \subseteq Seen
  BY <1>3 DEF Seen, Printed
<1>5. MessageInv' /\ LogInv' /\ RowsInv'
  <2>1. capture'.raw \subseteq capture.raw \cup Printed
    BY DEF Printed
  <2> QED BY <1>3, <1>4, <2>1, NothingNew DEF LogInv, RowsInv
<1> QED BY <1>2, <1>5

LEMMA StepSets ==
  ASSUME TypeInv, NEW from, NEW to, NEW changes, Step(from, to, changes)
  PROVE  /\ capture.step = from /\ capture'.step = to /\ DOMAIN capture' = DOMAIN capture
         /\ \A f \in DOMAIN capture : f # "step" =>
              capture'[f] = IF f \in DOMAIN changes THEN changes[f] ELSE capture[f]
         /\ UNCHANGED Others
BY DEF Step, TypeInv, Others

\* A read that changes one field.
LEMMA ReadSets ==
  ASSUME TypeInv, NEW from, NEW to,
         NEW field \in {"file", "live", "config", "reliable", "positions", "raw", "status"},
         NEW value, NEW changes, DOMAIN changes = {field}, changes[field] = value,
         Step(from, to, changes)
  PROVE  /\ capture.step = from /\ capture'.step = to /\ DOMAIN capture' = DOMAIN capture
         /\ capture'[field] = value
         /\ \A f \in {"file", "live", "config", "reliable", "positions", "raw", "status"} :
              f # field => capture'[f] = capture[f]
         /\ UNCHANGED Others
<1>1. /\ capture.step = from /\ capture'.step = to /\ DOMAIN capture' = DOMAIN capture
      /\ \A f \in DOMAIN capture : f # "step" =>
            capture'[f] = IF f \in DOMAIN changes THEN changes[f] ELSE capture[f]
      /\ UNCHANGED Others
  BY StepSets
<1>2. DOMAIN capture = {"step", "file", "live", "config", "reliable", "positions", "raw", "status"}
  BY DEF TypeInv
<1> QED BY <1>1, <1>2

\* A gate that fails removes what was captured.
LEMMA FailedGate ==
  ASSUME IInv, steady' => steady, NEW from, Step(from, "failed", Capture), ~steady'
  PROVE  IInv'
<1>1. DOMAIN Capture = {"step", "file", "live", "config", "reliable", "positions", "raw", "status"}
      /\ Capture.positions = {} /\ Capture.raw = {}
  BY DEF Capture
<1>2. /\ capture'.step = "failed" /\ DOMAIN capture' = DOMAIN capture
      /\ capture'.positions = {} /\ capture'.raw = {} /\ UNCHANGED Others
  BY <1>1, StepSets DEF IInv, TypeInv
<1>3. SystemInv'
  BY <1>2, CaptureKeeps DEF IInv, SystemInv
<1>4. CalmInv'
  BY <1>2 DEF CalmInv, Steps
<1> QED BY <1>3, <1>4 DEF IInv, SystemInv

CalmSame == steady' => steady /\ (capture'.step \notin {"idle", "failed", "done"} => Calm)

LEMMA CalmIsTheSystems ==
  ASSUME SteadyStep, UNCHANGED Others
  PROVE  CalmSame
BY DEF SteadyStep, CalmSame, Calm, Others

LEMMA CheckInputsIsFine ==
  ASSUME IInv, SteadyStep, CheckInputs
  PROVE  IInv'
<1>1. /\ capture.step = "idle" /\ capture'.step = "inputs" /\ DOMAIN capture' = DOMAIN capture
      /\ capture'.file = file /\ capture'.positions = capture.positions /\ capture'.raw = capture.raw
      /\ UNCHANGED Others
  BY ReadSets DEF CheckInputs, IInv
<1>2. SystemInv'
  BY <1>1, SteadyKeeps, CaptureKeeps DEF IInv, SystemInv
<1>3. CalmSame
  BY <1>1, CalmIsTheSystems
<1>4. file' = file /\ Calm' = Calm
  BY <1>1 DEF Others, Calm
<1>5. CalmInv'
  BY <1>1, <1>3, <1>4
     DEF CalmInv, CalmSame, Busy, Steps, FromCopied, FromSampled, FromExported
<1> QED BY <1>2, <1>5 DEF IInv, SystemInv

\* What holds before and after a read of an undisturbed capture that goes on.
LEMMA ReadingCalmly ==
  ASSUME IInv, SteadyStep, UNCHANGED Others, Busy, steady', TimesAssumption
  PROVE  /\ steady /\ Calm /\ Calm' /\ capture.file = file /\ file' = file /\ rawlog' = rawlog
         /\ Printed' = Printed
         /\ ModeIsLive /\ DataIsLive /\ PipelinePasses
         /\ RecentPositions(ExportSeconds) # {}
         /\ RecentPositions(ExportSeconds) \subseteq Printed
         /\ \A record \in rawlog : record.qualified /\ record.file = file
<1>1. steady
  BY DEF SteadyStep
<1>2. Calm /\ capture.file = file
  BY <1>1 DEF IInv, CalmInv
<1>3. Calm'
  BY <1>2 DEF Others, Calm
<1>4. Printed' = Printed
  BY DEF Others, Printed, Unlogged
<1> QED BY <1>1, <1>2, <1>3, <1>4, CalmPasses DEF IInv, SystemInv, Others

LEMMA FetchModeIsFine ==
  ASSUME IInv, SteadyStep, FetchMode, TimesAssumption
  PROVE  IInv'
<1>1. /\ capture.step = "inputs" /\ capture'.step = "mode" /\ DOMAIN capture' = DOMAIN capture
      /\ capture'.live = ModeIsLive
      /\ capture'.file = capture.file /\ capture'.positions = capture.positions
      /\ capture'.raw = capture.raw /\ UNCHANGED Others
  <2> DEFINE value == ModeIsLive
  <2>1. Step("inputs", "mode", [live |-> value])
    BY DEF FetchMode
  <2> HIDE DEF value
  <2>2. /\ capture.step = "inputs" /\ capture'.step = "mode" /\ DOMAIN capture' = DOMAIN capture
        /\ capture'.live = value
        /\ capture'.file = capture.file /\ capture'.positions = capture.positions
        /\ capture'.raw = capture.raw /\ UNCHANGED Others
    BY <2>1, ReadSets DEF IInv
  <2> QED BY <2>2 DEF value
<1>2. SystemInv'
  BY <1>1, SteadyKeeps, CaptureKeeps DEF IInv, SystemInv
<1>3. steady' => Calm' /\ ModeIsLive /\ file' = file /\ capture.file = file
  BY <1>1, ReadingCalmly DEF Busy
<1>4. CalmInv'
  BY <1>1, <1>3 DEF CalmInv, Steps, FromCopied, FromSampled, FromExported
<1> QED BY <1>2, <1>4 DEF IInv, SystemInv

LEMMA FetchPipelineIsFine ==
  ASSUME IInv, SteadyStep, FetchPipeline, TimesAssumption
  PROVE  IInv'
<1>1. capture.step = "mode" /\ UNCHANGED Others
  BY DEF FetchPipeline, Gate, Step, Others
<1>2. steady' => /\ steady /\ Calm' /\ PipelinePasses /\ file' = file /\ capture.file = file
  BY <1>1, ReadingCalmly DEF Busy
<1>3. CASE capture.live /\ PipelinePasses
  <2>1. Step("mode", "gated", [live |-> TRUE])
    BY <1>3 DEF FetchPipeline, Gate
  <2>2. /\ capture'.step = "gated" /\ DOMAIN capture' = DOMAIN capture
        /\ capture'.file = capture.file /\ capture'.positions = capture.positions
        /\ capture'.raw = capture.raw
    BY <2>1, ReadSets DEF IInv
  <2>3. SystemInv'
    BY <1>1, <2>2, SteadyKeeps, CaptureKeeps DEF IInv, SystemInv
  <2>4. CalmInv'
    BY <1>2, <2>2 DEF CalmInv, Steps, FromCopied, FromSampled, FromExported
  <2> QED BY <2>3, <2>4 DEF IInv, SystemInv
<1>4. CASE ~(capture.live /\ PipelinePasses)
  <2>1. Step("mode", "failed", Capture)
    BY <1>4 DEF FetchPipeline, Gate
  <2>2. ~steady'
    BY <1>1, <1>2, <1>4 DEF IInv, CalmInv
  <2> QED BY <2>1, <2>2, FailedGate
<1> QED BY <1>3, <1>4

LEMMA CopyConfigIsFine ==
  ASSUME IInv, SteadyStep, CopyConfig, TimesAssumption
  PROVE  IInv'
<1>1. /\ capture.step = "gated" /\ capture'.step = "copied" /\ DOMAIN capture' = DOMAIN capture
      /\ capture'.config = file
      /\ capture'.file = capture.file /\ capture'.positions = capture.positions
      /\ capture'.raw = capture.raw /\ UNCHANGED Others
  BY ReadSets DEF IInv, CopyConfig
<1>2. SystemInv'
  BY <1>1, SteadyKeeps, CaptureKeeps DEF IInv, SystemInv
<1>3. steady' => Calm' /\ file' = file /\ capture.file = file
  BY <1>1, ReadingCalmly DEF Busy
<1>4. CalmInv'
  BY <1>1, <1>3 DEF CalmInv, Steps, FromCopied, FromSampled, FromExported
<1> QED BY <1>2, <1>4 DEF IInv, SystemInv

LEMMA SampleReliabilityIsFine ==
  ASSUME IInv, SteadyStep, SampleReliability, TimesAssumption
  PROVE  IInv'
<1>1. /\ capture.step = "copied" /\ capture'.step = "sampled" /\ DOMAIN capture' = DOMAIN capture
      /\ capture'.reliable = DataIsLive /\ capture'.config = capture.config
      /\ capture'.file = capture.file /\ capture'.positions = capture.positions
      /\ capture'.raw = capture.raw /\ UNCHANGED Others
  <2> DEFINE value == DataIsLive
  <2>1. Step("copied", "sampled", [reliable |-> value])
    BY DEF SampleReliability
  <2> HIDE DEF value
  <2>2. /\ capture.step = "copied" /\ capture'.step = "sampled" /\ DOMAIN capture' = DOMAIN capture
        /\ capture'.reliable = value /\ capture'.config = capture.config
        /\ capture'.file = capture.file /\ capture'.positions = capture.positions
        /\ capture'.raw = capture.raw /\ UNCHANGED Others
    BY <2>1, ReadSets DEF IInv
  <2> QED BY <2>2 DEF value
<1>2. SystemInv'
  BY <1>1, SteadyKeeps, CaptureKeeps DEF IInv, SystemInv
<1>3. steady' => steady /\ Calm' /\ DataIsLive /\ file' = file /\ capture.file = file
  BY <1>1, ReadingCalmly DEF Busy
<1>4. steady' => capture.config = file
  BY <1>1, <1>3 DEF IInv, CalmInv, FromCopied
<1>5. CalmInv'
  BY <1>1, <1>3, <1>4 DEF CalmInv, Steps, FromCopied, FromSampled, FromExported
<1> QED BY <1>2, <1>5 DEF IInv, SystemInv

LEMMA ExportPositionsIsFine ==
  ASSUME IInv, SteadyStep, ExportPositions, TimesAssumption
  PROVE  IInv'
<1>1. /\ capture.step = "sampled" /\ capture'.step = "exported" /\ DOMAIN capture' = DOMAIN capture
      /\ capture'.positions = RecentPositions(ExportSeconds)
      /\ capture'.config = capture.config /\ capture'.reliable = capture.reliable
      /\ capture'.file = capture.file /\ capture'.raw = capture.raw /\ UNCHANGED Others
  BY ReadSets DEF IInv, ExportPositions
<1>2. RecentPositions(ExportSeconds) \subseteq Stored
  BY DEF RecentPositions, Range, Stored
<1>3. SystemInv'
  BY <1>1, <1>2, SteadyKeeps, CaptureKeeps DEF IInv, SystemInv
<1>4. steady' => /\ steady /\ Calm' /\ file' = file /\ capture.file = file
                 /\ Printed' = Printed
                 /\ RecentPositions(ExportSeconds) # {}
                 /\ RecentPositions(ExportSeconds) \subseteq Printed
  BY <1>1, ReadingCalmly DEF Busy
<1>5. steady' => capture.config = file /\ capture.reliable
  BY <1>1, <1>4 DEF IInv, CalmInv, FromCopied, FromSampled
<1>6. CalmInv'
  BY <1>1, <1>4, <1>5 DEF CalmInv, Steps, FromCopied, FromSampled, FromExported
<1> QED BY <1>3, <1>6 DEF IInv, SystemInv

LEMMA CopyRawIsFine ==
  ASSUME IInv, SteadyStep, CopyRaw, TimesAssumption
  PROVE  IInv'
<1> DEFINE holds == /\ ObservationsHold(rawlog, capture.file)
                    /\ Linked(rawlog, capture.positions)
<1>1. capture.step = "exported" /\ capture'.step # "exported" /\ UNCHANGED Others
  <2>1. \/ holds /\ Step("exported", "linked", [raw |-> rawlog])
        \/ ~holds /\ Step("exported", "failed", Capture)
    BY DEF CopyRaw, Gate
  <2> HIDE DEF holds
  <2> QED BY <2>1, StepSets DEF Step, IInv, TypeInv
<1>2. steady' => /\ steady /\ Calm' /\ file' = file /\ capture.file = file /\ Printed' = Printed
                 /\ \A record \in rawlog : record.qualified /\ record.file = file
  BY <1>1, ReadingCalmly DEF Busy
<1>3. steady' => /\ capture.config = file /\ capture.reliable
                 /\ capture.positions # {} /\ capture.positions \subseteq Printed
                 /\ capture.positions \subseteq rawlog
  <2>1. steady' => /\ capture.config = file /\ capture.reliable
                   /\ capture.positions # {} /\ capture.positions \subseteq Printed
    BY <1>1, <1>2 DEF IInv, CalmInv, FromCopied, FromSampled, FromExported
  <2>2. steady' => capture.positions \cap Unlogged = {}
    BY <1>1 DEF SteadyStep, LinesStayWhole
  <2> QED BY <2>1, <2>2 DEF Printed
<1>4. steady' => ObservationsHold(rawlog, file) /\ Linked(rawlog, capture.positions)
  <2> SUFFICES ASSUME steady'
               PROVE  ObservationsHold(rawlog, file) /\ Linked(rawlog, capture.positions)
    OBVIOUS
  <2>1. \A record \in rawlog : ValidAt(record.file, record.at)
    BY <1>2 DEF IInv, LogInv, Printed
  <2>2. rawlog # {}
    BY <1>3
  <2>3. ObservationsHold(rawlog, file)
    BY <1>2, <2>1, <2>2 DEF ObservationsHold
  <2>4. Linked(rawlog, capture.positions)
    BY <1>3 DEF Linked
  <2> QED BY <2>3, <2>4
<1>5. CASE holds
  <2>1. Step("exported", "linked", [raw |-> rawlog])
    BY <1>5 DEF CopyRaw, Gate
  <2>2. /\ capture'.step = "linked" /\ DOMAIN capture' = DOMAIN capture
        /\ capture'.file = capture.file /\ capture'.positions = capture.positions
        /\ capture'.config = capture.config /\ capture'.reliable = capture.reliable
        /\ capture'.raw = rawlog
    BY <2>1, ReadSets DEF IInv
  <2>3. SystemInv'
    BY <1>1, <2>2, SteadyKeeps, CaptureKeeps DEF IInv, SystemInv
  <2>4. CalmInv'
    BY <1>2, <1>3, <1>4, <2>2 DEF CalmInv, Steps, FromCopied, FromSampled, FromExported
  <2> QED BY <2>3, <2>4 DEF IInv, SystemInv
<1>6. CASE ~holds
  <2>1. Step("exported", "failed", Capture)
    BY <1>6 DEF CopyRaw, Gate
  <2>2. ~steady'
    BY <1>2, <1>4, <1>6
  <2> QED BY <2>1, <2>2, FailedGate, SteadyKeeps
<1> QED BY <1>5, <1>6

LEMMA WriteManifestIsFine ==
  ASSUME IInv, SteadyStep, WriteManifest, TimesAssumption
  PROVE  IInv'
<1> DEFINE verdict == IF capture.reliable /\ DataIsLive THEN "publishable" ELSE "validation_only"
<1>1. Step("linked", "done", [status |-> verdict])
  BY DEF WriteManifest
<1> HIDE DEF verdict
<1>2. /\ capture.step = "linked" /\ capture'.step = "done" /\ DOMAIN capture' = DOMAIN capture
      /\ capture'.status = verdict /\ capture'.positions = capture.positions
      /\ capture'.config = capture.config /\ capture'.raw = capture.raw /\ UNCHANGED Others
  BY <1>1, ReadSets DEF IInv
<1>3. SystemInv'
  BY <1>2, SteadyKeeps, CaptureKeeps DEF IInv, SystemInv
<1>4. steady' => steady /\ DataIsLive
  BY <1>2, ReadingCalmly DEF Busy
<1>5. steady' => /\ capture.config = file /\ capture.reliable
                 /\ ObservationsHold(capture.raw, file) /\ Linked(capture.raw, capture.positions)
  BY <1>2, <1>4 DEF IInv, CalmInv, FromCopied, FromSampled, FromExported
<1>6. steady' => verify_bundle(capture')
  BY <1>2, <1>4, <1>5 DEF verify_bundle, verdict
<1>7. CalmInv'
  BY <1>2, <1>6 DEF CalmInv, Busy, Steps, FromCopied, FromSampled, FromExported
<1> QED BY <1>3, <1>7 DEF IInv, SystemInv

-----------------------------------------------------------------------------
(* The theorems *)

LEMMA InitIInv == Init => IInv
<1> SUFFICES ASSUME Init PROVE IInv
  OBVIOUS
<1>1. /\ now = 1 /\ proc = None /\ statistics = <<>> /\ positions = <<>> /\ rawlog = {}
      /\ file \in Files /\ bounds = [starts |-> 0, edits |-> 0, refreshes |-> 0, signals |-> 0]
      /\ capture = [step |-> "idle", file |-> None, live |-> FALSE, config |-> None,
                    reliable |-> FALSE, positions |-> {}, raw |-> {}, status |-> "none"]
  BY DEF Init, Capture
<1>2. /\ capture.step = "idle" /\ capture.positions = {} /\ capture.raw = {}
      /\ DOMAIN capture = {"step", "file", "live", "config", "reliable", "positions", "raw", "status"}
  BY <1>1
<1>3. TypeInv
  BY <1>1, <1>2 DEF TypeInv, Bounds
<1>4. Seen = {} /\ Pending = {} /\ Stored = {} /\ Printed = {}
  BY <1>1, <1>2 DEF Seen, Pending, Stored, Printed, Unlogged
<1>5. MessageInv /\ LogInv /\ RowsInv
  BY <1>1, <1>2, <1>4 DEF MessageInv, LogInv, RowsInv
<1>6. CalmInv
  BY <1>2 DEF CalmInv, Busy, Steps, FromCopied, FromSampled, FromExported
<1> QED BY <1>3, <1>5, <1>6 DEF IInv

LEMMA SystemIsFine ==
  ASSUME IInv, SteadyStep, SystemInv', UNCHANGED capture,
         Busy /\ Calm /\ Calm' => file' = file
  PROVE  IInv'
BY CalmStays DEF IInv, SystemInv

LEMMA NextIInv ==
  ASSUME TimesAssumption, IInv, [Next]_vars
  PROVE  IInv'
<1>1. SystemInv
  BY DEF IInv, SystemInv
<1>2. CASE Next
  <2>1. Action /\ SteadyStep
    BY <1>2 DEF Next, SteadyStep
  <2>2. CASE \E synthetic \in BOOLEAN : Start(synthetic)
    BY <1>1, <2>1, <2>2, StartIsFine, SystemIsFine
  <2>3. CASE \E restarts \in BOOLEAN : Refresh(restarts)
    BY <1>1, <2>1, <2>3, RefreshIsFine, SystemIsFine
  <2>4. CASE LogLine
    BY <1>1, <2>1, <2>4, LogLineIsFine, SystemIsFine
  <2>5. CASE Observe
    BY <1>1, <2>1, <2>5, ObserveIsFine, SystemIsFine
  <2>6. CASE Solve
    BY <1>1, <2>1, <2>6, SolveIsFine, SystemIsFine
  <2>7. CASE StoreStatistics
    BY <1>1, <2>1, <2>7, StoreStatisticsIsFine, SystemIsFine
  <2>8. CASE Stop
    BY <1>1, <2>1, <2>8, StopIsFine, SystemIsFine
  <2>9. CASE Edit \/ Preflight
    <3>1. SystemInv' /\ UNCHANGED <<capture, proc>>
      BY <1>1, <2>1, <2>9, OperatorIsFine
    <3>2. Calm /\ Calm' => file' = file
      BY <3>1 DEF Calm
    <3> QED BY <2>1, <3>1, <3>2, SystemIsFine
  <2>10. CASE TimePasses
    BY <1>1, <2>1, <2>10, TimePassesIsFine, SystemIsFine
  <2>11. CASE CheckInputs
    BY <2>1, <2>11, CheckInputsIsFine
  <2>12. CASE FetchMode
    BY <2>1, <2>12, FetchModeIsFine
  <2>13. CASE FetchPipeline
    BY <2>1, <2>13, FetchPipelineIsFine
  <2>14. CASE CopyConfig
    BY <2>1, <2>14, CopyConfigIsFine
  <2>15. CASE SampleReliability
    BY <2>1, <2>15, SampleReliabilityIsFine
  <2>16. CASE ExportPositions
    BY <2>1, <2>16, ExportPositionsIsFine
  <2>17. CASE CopyRaw
    BY <2>1, <2>17, CopyRawIsFine
  <2>18. CASE WriteManifest
    BY <2>1, <2>18, WriteManifestIsFine
  <2> QED BY <2>1, <2>2, <2>3, <2>4, <2>5, <2>6, <2>7, <2>8, <2>9, <2>10, <2>11, <2>12, <2>13,
             <2>14, <2>15, <2>16, <2>17, <2>18 DEF Action
<1>3. CASE UNCHANGED vars
  <2>1. UNCHANGED <<Others, capture, steady>>
    BY <1>3 DEF vars, Others
  <2>2. SystemInv'
    BY <1>1, <2>1, CaptureKeeps
  <2>3. CalmInv'
    BY <2>1 DEF IInv, CalmInv, Busy, Calm, Others, Printed, Unlogged
  <2> QED BY <2>2, <2>3 DEF IInv, SystemInv
<1> QED BY <1>2, <1>3

LEMMA Invariance == Spec => []IInv
<1>1. Init => IInv
  BY InitIInv
<1>2. IInv /\ [Next]_vars => IInv'
  BY NextIInv, TimesAssumption
<1> QED BY <1>1, <1>2, PTL DEF Spec

\* The operational history never claims more signals than were received, for any
\* number of processors, restarts and rows (_evidence_history).
THEOREM HistoryIsNotOverstated == Spec => []NeverOverstated
<1>1. Init => ClaimInv
  BY DEF Init, ClaimInv, Unreported
<1>2. TypeInv /\ RowsInv /\ ClaimInv /\ [Next]_vars => ClaimInv'
  BY NextClaims
<1>3. IInv => TypeInv /\ RowsInv
  BY DEF IInv
<1>4. TypeInv /\ RowsInv /\ ClaimInv => NeverOverstated
  <2> SUFFICES ASSUME TypeInv, RowsInv, ClaimInv PROVE claimed <= bounds.signals
    BY DEF NeverOverstated
  <2>1. Unreported \in Int /\ Unreported >= 0
    BY UnreportedIsNatural
  <2> QED BY <2>1 DEF ClaimInv, TypeInv, Bounds
<1> QED BY <1>1, <1>2, <1>3, <1>4, Invariance, PTL DEF Spec

\* A bundle that verifies as publishable has only positions of live observations by
\* the receivers, clocks and times of its receiver file (verify_live_evidence.py).
THEOREM VerifiedBundlesAreObserved == Spec => []VerifiedIsObserved
<1>1. IInv => VerifiedIsObserved
  <2> SUFFICES ASSUME IInv, verify_bundle(capture), NEW p \in capture.positions
               PROVE  /\ ~p.synthetic
                      /\ p.file.receivers = capture.config.receivers
                      /\ p.file.declared = capture.config.declared
                      /\ ValidAt(capture.config, p.at)
    BY DEF VerifiedIsObserved
  <2>1. PICK record \in capture.raw : record.message = p.message
    BY DEF verify_bundle, Linked
  <2>2. record = p
    BY <2>1 DEF IInv, MessageInv, Seen
  <2> QED BY <2>2 DEF IInv, LogInv, verify_bundle, ObservationsHold
<1> QED BY <1>1, Invariance, PTL

\* A capture that nothing disturbs passes every gate and verifies, whatever arrives
\* between two of its reads (capture_grant_evidence.py).
THEOREM CalmCapturesPublish == Spec => []CalmCapturePublishes
<1>1. IInv => CalmCapturePublishes
  BY DEF IInv, CalmInv, CalmCapturePublishes
<1> QED BY <1>1, Invariance, PTL
==============================================================================

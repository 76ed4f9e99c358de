----------------------------- MODULE LiveEvidence -----------------------------
(* What the reference system says of itself, and the evidence captured of it: *)
(* the statistics a processor stores, the API's reading of them (runtime      *)
(* state, mode, pipeline, history), the launch preflight                      *)
(* (check_live_ingest_readiness.py), the capture (capture_grant_evidence.py,  *)
(* with the reliability window and the position export it runs) and the       *)
(* offline check of the bundle (verify_live_evidence.py).                     *)
(*                                                                            *)
(* Processors come and go on one database, with a live or a simulated feed,   *)
(* and look for their receivers in the registry again and again; the receiver *)
(* file may be edited at any time.  A group of observations that four         *)
(* receivers make of one message is one observation here.                     *)
EXTENDS Integers, Sequences, FiniteSets, SequencesExt

CONSTANTS
  Files,            \* contents of the receiver file: see Content
  StaleSeconds,     \* HEALTH_STALE_SIGNAL_SECONDS
  TelemetrySeconds, \* how long a statistics row speaks for its processor
  RecentSeconds,    \* how far back the API looks for positions
  ExportSeconds,    \* --seconds of the capture
  None,
  \* bounds of the checks, the last one on the sum of what the four before it bound
  MaxTime, MaxSignals, MaxStarts, MaxEdits, MaxRefreshes, MaxEvents

\* The receivers of a file, what it declares of their clocks (source, uncertainty
\* and evidence), and when these are valid.  Frequency and anchor, which no check
\* compares, are left out.
Content == [receivers : STRING, declared : STRING, from : Nat, until : Nat]
ASSUME FilesAssumption == Files \subseteq Content

\* By default a signal is stale after 120 seconds, and both the API and the export look
\* back over 300.
ASSUME TimesAssumption ==
  /\ StaleSeconds \in Nat /\ TelemetrySeconds \in Nat
  /\ RecentSeconds \in Nat /\ ExportSeconds \in Nat
  /\ StaleSeconds <= RecentSeconds /\ StaleSeconds <= ExportSeconds

VARIABLES
  now,
  proc,        \* the running processor, or None
  statistics,  \* table of the database, oldest first
  positions,   \* table of the database, in the order of its ids
  receivers,   \* table of the database: whether it holds any
  rawlog,      \* the bridge's audit log
  file,        \* content of the receiver file
  preflight,   \* whether a report that is ready has been saved
  capture,     \* the capture of a bundle: see Capture
  bounds,      \* processors started, edits and refreshes made, signals received
  steady,      \* history: whether nothing has disturbed the capture, see Calm
  claimed      \* history: the signals of all samples of the operational history

vars == <<now, proc, statistics, positions, receivers, rawlog, file, preflight, capture, bounds,
          steady, claimed>>

\* How a capture stands: the step it has done, what it has read, what it keeps.
Capture == [step |-> "idle", file |-> None, live |-> FALSE, config |-> None,
            reliable |-> FALSE, positions |-> {}, raw |-> {},
            status |-> "none"]

-----------------------------------------------------------------------------
(* The processor                                                              *)

\* One more of what is bounded.
Happens(kind, limit) ==
  /\ bounds[kind] < limit
  /\ bounds.starts + bounds.edits + bounds.refreshes + bounds.signals < MaxEvents
  /\ bounds' = [bounds EXCEPT ![kind] = @ + 1]

\* The clocks of a file are valid at a time.
ValidAt(content, time) == content.from <= time /\ time <= content.until

\* A processor starts with receivers of the registry, or the simulated ones; the bridge
\* of a live feed loads the receiver file, which must be valid at that time.  One that
\* starts without an answer, or with an empty one, is as after a refresh of that kind.
Start(synthetic) ==
  /\ proc = None /\ Happens("starts", MaxStarts)
  /\ ~synthetic => ValidAt(file, now)
  /\ receivers' = TRUE
  /\ proc' = [synthetic |-> synthetic, file |-> file, registry |-> TRUE,
              since |-> now, signals |-> 0, groups |-> 0, pending |-> {}, unlogged |-> {}]
  /\ UNCHANGED <<now, statistics, positions, rawlog, file, preflight, capture>>

\* The registry is read again.  When its receivers have changed, the feed is started
\* anew: its bridge dies, perhaps before it has logged a line it has printed, and the
\* next one loads the file as it now is.  A refresh that fails withdraws the
\* receivers; in strict mode it also ends the processor, which Stop allows at any time.
Refresh(restarts) ==
  /\ proc # None /\ Happens("refreshes", MaxRefreshes)
  /\ restarts => ~proc.synthetic /\ ValidAt(file, now)
  /\ \E answers, found \in BOOLEAN :
       /\ receivers' = (proc.synthetic \/ (answers /\ found))
       /\ proc' = [proc EXCEPT !.registry = answers,
                     !.file = IF restarts THEN file ELSE @,
                     !.unlogged = IF restarts THEN {} ELSE @]
  /\ UNCHANGED <<now, statistics, positions, rawlog, file, preflight, capture>>

\* A signal arrives.  The bridge prints it, as qualified only while its clock is
\* declared valid, and has not logged it yet.
Observe ==
  /\ proc # None /\ proc.unlogged = {} /\ Happens("signals", MaxSignals)
  /\ LET synthetic == proc.synthetic
         seen == [message |-> bounds.signals, at |-> now, file |-> proc.file,
                  synthetic |-> synthetic,
                  qualified |-> ~synthetic /\ ValidAt(proc.file, now)]
     IN proc' = [proc EXCEPT !.signals = @ + 1,
                   !.unlogged = IF synthetic THEN {} ELSE {seen},
                   !.pending = IF synthetic \/ seen.qualified THEN @ \cup {seen} ELSE @]
  /\ UNCHANGED <<now, statistics, positions, receivers, rawlog, file, preflight, capture>>

\* The bridge writes the line it has printed to its audit log.
LogLine ==
  /\ proc # None /\ proc.unlogged # {}
  /\ rawlog' = rawlog \cup proc.unlogged
  /\ proc' = [proc EXCEPT !.unlogged = {}]
  /\ UNCHANGED <<now, statistics, positions, receivers, file, preflight, capture, bounds>>

\* A group is solved and its position stored, or the solve fails.  Solved positions
\* are labelled robust_mlat whatever the feed.
Solve ==
  /\ proc # None
  /\ \E group \in proc.pending, stored \in BOOLEAN :
       /\ proc' = [proc EXCEPT !.pending = @ \ {group}, !.groups = @ + 1]
       /\ positions' = IF stored THEN Append(positions, group) ELSE positions
  /\ UNCHANGED <<now, statistics, receivers, rawlog, file, preflight, capture, bounds>>

\* The row that store_statistics inserts, less the averages and latencies.
Row == [at |-> now, uptime |-> now - proc.since, total_signals |-> proc.signals,
        total_positions |-> proc.groups, synthetic |-> proc.synthetic,
        registry |-> proc.registry]

\* The statistics loop stores its counters, once per interval.
StoreStatistics ==
  /\ proc # None /\ now > proc.since
  /\ statistics # <<>> => Last(statistics).at < now
  /\ statistics' = Append(statistics, Row)
  /\ UNCHANGED <<now, proc, positions, receivers, rawlog, file, preflight, capture, bounds>>

\* The processor stops or dies, and its bridge with it.
Stop ==
  /\ proc # None
  /\ proc' = None
  /\ UNCHANGED <<now, statistics, positions, receivers, rawlog, file, preflight, capture, bounds>>

-----------------------------------------------------------------------------
(* The API's reading of the database                                          *)

RecentPositions(seconds) == {p \in Range(positions) : p.at >= now - seconds}

\* Mutant: a row is given no longer than a signal is.
TelemetryFresh_AsSignals == statistics # <<>> /\ now - Last(statistics).at <= StaleSeconds

\* The newest row is young enough to speak for a processor still running.
TelemetryFresh == statistics # <<>> /\ now - Last(statistics).at <= TelemetrySeconds
Synthetic == Last(statistics).synthetic
\* The position stored last, which may not be the one observed last, is recent.
SignalFresh ==
  /\ TelemetryFresh
  /\ positions # <<>> /\ now - Last(positions).at <= StaleSeconds

\* "mode" is "live" and "runtime_status" is "active" in get_system_mode.
ModeIsLive == TelemetryFresh /\ ~Synthetic
\* "live_data" of the reliability window and of the performance baseline.
DataIsLive == ModeIsLive /\ Last(statistics).registry

Benchmarkable == RecentPositions(RecentSeconds) # {} /\ ~Synthetic

\* The provenance and the stages of get_pipeline_evidence that a capture asks for.
PipelinePasses ==
  /\ statistics # <<>>
  /\ Last(statistics).registry /\ receivers
  /\ SignalFresh /\ Benchmarkable
  /\ Last(statistics).total_signals > 0 /\ Last(statistics).total_positions > 0

\* Mutant: every row is compared with the first.
Before_First(i) == 1

\* _evidence_history: the signals each row adds to those of the row before.
Before(i) == i - 1
Continues(row, previous) ==
  /\ row.total_signals >= previous.total_signals
  /\ row.total_positions >= previous.total_positions
  /\ row.uptime >= previous.uptime
SignalDelta(rows, i) ==
  IF i > 1 /\ Continues(rows[i], rows[Before(i)])
  THEN rows[i].total_signals - rows[Before(i)].total_signals
  ELSE IF rows[i].uptime > 0 THEN rows[i].total_signals ELSE 0

-----------------------------------------------------------------------------
(* The operator                                                               *)

Edit ==
  /\ Happens("edits", MaxEdits)
  /\ file' \in Files \ {file}
  /\ UNCHANGED <<now, proc, statistics, positions, receivers, rawlog, preflight, capture>>

\* The bridge appends to its log, so a run of its own starts with an empty one.
RawLogIsNew == rawlog = {}

\* check_live_ingest_readiness.py finds the system ready, the settings, endpoints and
\* registered identities included.  A report that is not ready lets no capture begin,
\* as if there were none.
Preflight ==
  /\ ValidAt(file, now) /\ RawLogIsNew
  /\ preflight' = TRUE
  /\ UNCHANGED <<now, proc, statistics, positions, receivers, rawlog, file, capture, bounds>>

-----------------------------------------------------------------------------
(* capture_grant_evidence.py, one step per read of something that moves       *)

Step(from, to, changes) ==
  /\ capture.step = from
  /\ capture' = [field \in DOMAIN capture |->
                   IF field = "step" THEN to
                   ELSE IF field \in DOMAIN changes THEN changes[field] ELSE capture[field]]
  /\ UNCHANGED <<now, proc, statistics, positions, receivers, rawlog, file, preflight, bounds>>

\* A failed gate removes the bundle.
Gate(holds, from, to, changes) ==
  Step(from, IF holds THEN to ELSE "failed", IF holds THEN changes ELSE Capture)

\* The input gates come before there is a bundle.
CheckInputs ==
  /\ preflight
  /\ ValidAt(file, now)
  /\ Step("idle", "inputs", [file |-> file])
FetchMode == Step("inputs", "mode", [live |-> ModeIsLive])
FetchPipeline == Gate(capture.live /\ PipelinePasses, "mode", "gated", [live |-> TRUE])
CopyConfig == Step("gated", "copied", [config |-> file])
SampleReliability == Step("copied", "sampled", [reliable |-> DataIsLive])
ExportPositions ==
  Step("sampled", "exported", [positions |-> RecentPositions(ExportSeconds)])

\* Mutant: what the file declares of the clocks is not compared.
ObservationsHold_AnyClock(raw, content) ==
  /\ raw # {}
  /\ \A record \in raw :
       /\ record.qualified
       /\ record.file.receivers = content.receivers

\* raw_observation_failures and raw_clock_config_failures against a receiver file.
ObservationsHold(raw, content) ==
  /\ raw # {}
  /\ \A record \in raw :
       /\ record.qualified
       /\ record.file.receivers = content.receivers
       /\ record.file.declared = content.declared
       /\ record.file.from = content.from /\ record.file.until = content.until
       /\ ValidAt(content, record.at)


\* raw_position_link_failures: the log has the message of a position, heard by its
\* receivers at its time.  The code, whose positions do not name their message, asks
\* for some message of the position's aircraft that all its receivers heard within
\* 2 microseconds before and 5 milliseconds after: the same, as long as an aircraft
\* sends one message in that time and no processor restarts within it.
Linked(raw, exported) ==
  /\ exported # {}
  /\ \A p \in exported : \E record \in raw :
       /\ record.message = p.message /\ record.at = p.at
       /\ record.file.receivers = p.file.receivers

\* The log is copied, and the copy compared with what the bundle already holds.
CopyRaw ==
  Gate(ObservationsHold(rawlog, capture.file) /\ Linked(rawlog, capture.positions),
       "exported", "linked", [raw |-> rawlog])

\* The performance baseline reads whether data are live once more; the manifest
\* follows.  What else it asks for, an accuracy report that is publishable and a
\* clean work tree, is taken to hold.
WriteManifest ==
  Step("linked", "done",
       [status |-> IF capture.reliable /\ DataIsLive THEN "publishable" ELSE "validation_only"])

\* verify_live_evidence.py --require-publishable, from the files of the bundle; that
\* it also solves every position again is left out.
verify_bundle(bundle) ==
  /\ bundle.step = "done" /\ bundle.status = "publishable"
  /\ ObservationsHold(bundle.raw, bundle.config)
  /\ Linked(bundle.raw, bundle.positions)

-----------------------------------------------------------------------------
TimePasses ==
  /\ now < MaxTime
  /\ now' = now + 1
  /\ UNCHANGED <<proc, statistics, positions, receivers, rawlog, file, preflight, capture, bounds>>

Init ==
  /\ now = 1
  /\ proc = None
  /\ statistics = <<>>
  /\ positions = <<>>
  /\ receivers = FALSE
  /\ rawlog = {}
  /\ file \in Files
  /\ preflight = FALSE
  /\ capture = Capture
  /\ bounds = [starts |-> 0, edits |-> 0, refreshes |-> 0, signals |-> 0]
  /\ steady = TRUE /\ claimed = 0

\* What a field trial is asked to keep up while a bundle is captured: the processor
\* launched with the file runs on, none of its refreshes fails or finds the registry
\* empty, it reports and solves in time, what it logs is within its clocks' validity,
\* and the export reaches back to no simulated position.
Calm ==
  /\ proc # None /\ ~proc.synthetic /\ proc.file = file
  /\ receivers /\ \A row \in Range(statistics) : row.at > proc.since => row.registry
  /\ \E row \in Range(statistics) :
       /\ row.at > proc.since /\ now - row.at <= TelemetrySeconds
       /\ row.total_signals > 0 /\ row.total_positions > 0
  /\ positions # <<>> /\ now - Last(positions).at <= StaleSeconds
  /\ \A record \in rawlog : record.qualified /\ record.file = file
  /\ \A p \in Range(positions) : p.synthetic => p.at < now - ExportSeconds

\* A bridge has printed it, and logged it or still has it to log.
Unlogged == IF proc = None THEN {} ELSE proc.unlogged
Printed == rawlog \cup Unlogged

\* No bridge dies between printing a line and logging it, and the log is not copied
\* in that moment of a line whose position is already exported.
LinesStayWhole ==
  /\ Printed \subseteq Printed'
  /\ capture.step = "exported" /\ capture'.step # "exported" =>
       capture.positions \cap Unlogged = {}

Action ==
  \/ \E synthetic \in BOOLEAN : Start(synthetic)
  \/ \E restarts \in BOOLEAN : Refresh(restarts)
  \/ Observe \/ LogLine \/ Solve \/ StoreStatistics \/ Stop
  \/ Edit \/ Preflight
  \/ CheckInputs \/ FetchMode \/ FetchPipeline \/ CopyConfig \/ SampleReliability
  \/ ExportPositions \/ CopyRaw \/ WriteManifest
  \/ TimePasses

\* A row stays as it is, and so do its sample and what the samples add up to.
Claimed ==
  claimed' = IF statistics' = statistics THEN claimed
             ELSE claimed + SignalDelta(statistics', Len(statistics'))

Next ==
  /\ Action /\ Claimed
  /\ steady' = (steady /\ LinesStayWhole
                  /\ (capture'.step \in {"idle", "failed", "done"} \/ Calm'))

Spec == Init /\ [][Next]_vars

-----------------------------------------------------------------------------
(* Properties                                                                 *)

\* The operational history never claims more signals than the processors received,
\* however often they restart between two rows and whichever counters a new process
\* has reached when it is first compared with the old one's.
NeverOverstated == claimed <= bounds.signals

\* A bundle that verifies as publishable holds only positions solved from live
\* observations that the receivers of its receiver file made, under the clocks that
\* file declares and while they were valid: no position left in the database by a
\* simulated or an earlier feed, although the mode and the pipeline cannot tell
\* them apart, and no edit of the file at any time.
VerifiedIsObserved ==
  verify_bundle(capture) => \A p \in capture.positions :
    /\ ~p.synthetic
    /\ p.file.receivers = capture.config.receivers
    /\ p.file.declared = capture.config.declared
    /\ ValidAt(capture.config, p.at)

\* A capture that nothing disturbs is not refused by a gate and verifies as
\* publishable, while signals, positions and statistics keep arriving between any
\* two of its reads, refreshes succeed, and a position may be stored and exported
\* before the bridge has logged the line it was solved from.
CalmCapturePublishes ==
  steady => /\ capture.step # "failed"
            /\ capture.step = "done" => verify_bundle(capture)

==============================================================================

------------------------------ MODULE BeastBridge ------------------------------
(* The bridge between the Beast receivers and the MLAT process:               *)
(* tools/mlat/multi_receiver_beast_bridge.py, with the framing and the clock  *)
(* of beast_tcp_adapter.py and the launch checks of receiver_config.py.       *)
(*                                                                            *)
(* One task per receiver reads chunks of a TCP stream, splits them into       *)
(* frames and writes one line per wanted frame.  Bytes, lengths, ticks and    *)
(* times are scaled: a byte is a number below TickModulus, a time stamp is    *)
(* one byte long instead of six, and a tick is one unit of time.              *)
EXTENDS Integers, Sequences, FiniteSets, Functions

CONSTANTS
  Configs,               \* the receiver files an operator may launch with
  MIN_MLAT_RECEIVERS,
  TickModulus,           \* values of the receivers' free-running counter
  Mark,                  \* 0x1a, the start and escape byte
  ModeAC, Short, Long,   \* the frame types 0x31, 0x32 and 0x33
  TYPE_TO_MESSAGE_LEN,   \* length of the message of each of them
  IncludeShortFrames,    \* --include-short-frames
  Bodies,                \* the messages receivers send, by type: other types too
  PowerOn,               \* the counter of each receiver at time 0
  None,                  \* a field of the file that is not given
  MaxTime, MaxFrames, MaxCalls    \* bounds of the checks

Identities == {e.receiver_identity : e \in UNION {Range(c) : c \in Configs}}

VARIABLES
  now,
  config,     \* the entries of the receiver file
  ready,      \* TRUE unless started with --diagnostic
  bridge,     \* "off", "on", "refused" at launch, or "ended" by an error
  link,       \* whether each receiver's connection is open
  sent,       \* frames of each receiver's connection: their time and place in wire
  wire,       \* all bytes of each receiver's connection
  read,       \* how many of them the bridge has read
  buffer,     \* bytes read and not yet framed
  lines,      \* records written for the connection
  calls       \* connections made so far, for the bound

bridgeVars == <<now, config, ready, bridge, link, sent, wire, read, buffer, lines, calls>>

Known == DOMAIN TYPE_TO_MESSAGE_LEN
Wanted(type) == type \in Known \ {ModeAC} /\ (type = Short => IncludeShortFrames)

\* A body of a type the bridge does not know may hold what looks like the start of a
\* frame, but has no room for the rest of one that would be written.
HidesNothing(message) ==
  \A k \in DOMAIN message :
    Wanted(message[k]) /\ (k > 1 => message[k - 1] = Mark) =>
      Len(message) - k =< TYPE_TO_MESSAGE_LEN[message[k]]

ASSUME BridgeAssumption ==
  /\ TickModulus \in Nat \ {0, 1} /\ Mark \in Nat /\ None \notin Int
  /\ Known \subseteq Nat \ {Mark} /\ \A type \in Known : TYPE_TO_MESSAGE_LEN[type] \in Nat
  /\ DOMAIN Bodies \subseteq Nat \ {Mark}
  /\ \A type \in DOMAIN Bodies : \A message \in Bodies[type] :
       /\ message \in Seq(Nat)
       /\ IF type \in Known THEN Len(message) = TYPE_TO_MESSAGE_LEN[type]
                           ELSE HidesNothing(message)
  /\ \A r \in Identities : PowerOn[r] \in Nat
  /\ \A c \in Configs : \A e \in Range(c) :
       /\ e.clock.anchor_tick \in Int /\ e.clock.anchor_time \in Int
       /\ {e.clock.valid_from, e.clock.valid_until} \subseteq Int \cup {None}

Entry(r) == CHOOSE e \in Range(config) : e.receiver_identity = r
Configured == {e.receiver_identity : e \in Range(config)}

-----------------------------------------------------------------------------
(* receiver_config.py: what a receiver file must satisfy at launch            *)

\* The part of validate_clock that every enabled clock must pass.
Described(clock) == clock.source # None /\ clock.anchor_tick \in 0..(TickModulus - 1)

\* Mutant: a window is looked at only when it is given whole.
WindowHolds_IfWhole(clock) ==
  clock.valid_from # None /\ clock.valid_until # None =>
    /\ clock.anchor_time \in clock.valid_from..clock.valid_until
    /\ now \in clock.valid_from..clock.valid_until

\* The validity window of a clock, which only a launch for MLAT asks for.
WindowHolds(clock) ==
  /\ clock.valid_from # None /\ clock.valid_until # None
  /\ clock.valid_from < clock.valid_until
  /\ clock.anchor_time \in clock.valid_from..clock.valid_until
  /\ now \in clock.valid_from..clock.valid_until

validate_clock(clock, require_current) ==
  IF clock.enabled = TRUE
  THEN Described(clock) /\ (require_current => WindowHolds(clock))
  ELSE ~require_current

Distinct(entries, field) ==
  \A i, j \in DOMAIN entries : entries[i][field] = entries[j][field] => i = j

load_receiver_config(entries, require_mlat_ready) ==
  /\ Len(entries) >= (IF require_mlat_ready THEN MIN_MLAT_RECEIVERS ELSE 1)
  /\ Distinct(entries, "receiver_identity")
  /\ Distinct(entries, "sensor_id")
  /\ Distinct(entries, "endpoint")
  /\ \A e \in Range(entries) : validate_clock(e.clock, require_mlat_ready)

-----------------------------------------------------------------------------
(* beast_tcp_adapter.py: frames and their time                                *)

\* The byte at c is not there yet, or may yet turn out to be the start of a frame.
RunsOut(b, c) == c > Len(b) \/ (c = Len(b) /\ b[c] = Mark)
\* A lone mark is the start of another frame; a doubled one is a byte.
IsMarker(b, c) == c < Len(b) /\ b[c] = Mark /\ b[c + 1] # Mark

Advance(b, c) == IF RunsOut(b, c) \/ IsMarker(b, c) THEN c
                 ELSE IF b[c] = Mark THEN c + 2 ELSE c + 1

\* Where the cursor is when 0 to n bytes of b are decoded, or as many as there are.
Cursor(b, from, n) ==
  LET cursor[k \in 0..n] == IF k = 0 THEN from ELSE Advance(b, cursor[k - 1])
  IN cursor

\* Where b looks like a frame of a known type, and what decoding it there comes to.
Starts(b) == {i \in 1..(Len(b) - 1) : b[i] = Mark /\ b[i + 1] \in Known}
Attempt(b, i) ==
  LET n      == 1 + TYPE_TO_MESSAGE_LEN[b[i + 1]]
      cursor == Cursor(b, i + 2, n)
      end    == IF RunsOut(b, cursor[n - 1]) THEN "short"
                ELSE IF IsMarker(b, cursor[n - 1]) THEN "marker" ELSE "whole"
  IN [place |-> i, type |-> b[i + 1], end |-> end, resume |-> cursor[n],
      body |-> IF end = "whole" THEN [k \in 1..n |-> b[cursor[k - 1]]] ELSE <<>>]

\* Of all attempts, the parser makes those that none made before it passes over.
Made(M, attempts) ==
  \A a \in attempts :
    a \in M <=> \A m \in M : m.place < a.place => m.end # "short" /\ m.resume =< a.place

\* What may yet become a frame: a start with too few bytes, or a mark that ends b.
Left(b, M) ==
  {m.place : m \in {a \in M : a.end = "short"}}
    \cup {i \in DOMAIN b : i = Len(b) /\ b[i] = Mark /\ \A m \in M : m.resume =< i}

\* The complete frames of a buffer, and what is left of it.
parse_beast_frames(b) ==
  LET attempts == {Attempt(b, i) : i \in Starts(b)}
      made  == CHOOSE M \in SUBSET attempts : Made(M, attempts)
      left  == Left(b, made)
      first == CHOOSE i \in left : \A j \in left : i =< j
  IN [frames |-> {m \in made : m.end = "whole"},
      rest |-> IF left = {} THEN <<>> ELSE SubSeq(b, first, Len(b))]

\* Frames in the order they stand in the buffer.
InOrder(frames) ==
  CHOOSE s \in [1..Cardinality(frames) -> frames] :
    \A i, j \in DOMAIN s : i < j => s[i].place < s[j].place

\* Mutant: a tick just before the anchor counts as one nearly a wrap after it.
DeltaTicks_Unsigned(tick, anchor) == (tick - anchor) % TickModulus

\* The signed distance of a tick from the anchor, across the wrap of the counter.
DeltaTicks(tick, anchor) ==
  LET d == (tick - anchor) % TickModulus
  IN IF d >= TickModulus \div 2 THEN d - TickModulus ELSE d

\* normalize_beast_timestamp raises on a clock the bridge let through without
\* looking: one with no "enabled", or with half a validity window.
InUse(clock) == clock.enabled \in {TRUE, None}
Raises(clock) ==
  /\ InUse(clock)
  /\ \/ ~Described(clock)
     \/ clock.valid_from = None /\ clock.valid_until # None
     \/ clock.valid_from # None /\ clock.valid_until = None

\* The common time of a tick, or None where the clock does not vouch for one.
normalize_beast_timestamp(tick, clock) ==
  LET t == clock.anchor_time + DeltaTicks(tick, clock.anchor_tick)
  IN IF /\ InUse(clock)
        /\ clock.valid_from # None => t \in clock.valid_from..clock.valid_until
     THEN t ELSE None

beast_frame_to_record(frame, entry) ==
  [receiver_id        |-> entry.receiver_identity,
   ticks              |-> Head(frame.body),
   timestamp_ns       |-> normalize_beast_timestamp(Head(frame.body), entry.clock),
   message            |-> Tail(frame.body)]

-----------------------------------------------------------------------------
(* A receiver: what it puts on the wire                                       *)

\* Where byte k of a body stands when every mark before it is doubled.
Place(body, k) == k + Cardinality({j \in 1..(k - 1) : body[j] = Mark})
Escape(body) ==
  [p \in 1..(Place(body, Len(body) + 1) - 1) |->
     body[CHOOSE k \in DOMAIN body : p \in Place(body, k)..(Place(body, k + 1) - 1)]]
Encode(type, body) == <<Mark, type>> \o Escape(body)

FramesSent == UNION {{r} \X DOMAIN sent[r] : r \in Identities}

Transmit(r, type) ==
  /\ link[r] /\ Cardinality(FramesSent) < MaxFrames
  /\ \E message \in Bodies[type] :
       LET body  == <<(PowerOn[r] + now) % TickModulus>> \o message
           bytes == wire[r] \o Encode(type, body)
       IN /\ sent' = [sent EXCEPT ![r] = Append(@,
                        [type |-> type, body |-> body, at |-> now,
                         from |-> Len(wire[r]) + 1, to |-> Len(bytes)])]
          /\ wire' = [wire EXCEPT ![r] = bytes]
  /\ UNCHANGED <<now, config, ready, bridge, link, read, buffer, lines, calls>>

-----------------------------------------------------------------------------
(* multi_receiver_beast_bridge.py                                             *)

BridgeInit ==
  /\ now = 1
  /\ config \in Configs
  /\ ready \in BOOLEAN
  /\ bridge = "off"
  /\ link = [r \in Identities |-> FALSE]
  /\ sent = [r \in Identities |-> <<>>]
  /\ wire = [r \in Identities |-> <<>>]
  /\ read = [r \in Identities |-> 0]
  /\ buffer = [r \in Identities |-> <<>>]
  /\ lines = [r \in Identities |-> <<>>]
  /\ calls = 0

Launch ==
  /\ bridge = "off"
  /\ bridge' = IF load_receiver_config(config, ready) THEN "on" ELSE "refused"
  /\ UNCHANGED <<now, config, ready, link, sent, wire, read, buffer, lines, calls>>

\* The task of r opens its connection.
Connect(r) ==
  /\ bridge = "on" /\ r \in Configured /\ ~link[r] /\ calls < MaxCalls
  /\ calls' = calls + 1
  /\ link' = [link EXCEPT ![r] = TRUE]
  /\ UNCHANGED <<now, config, ready, bridge, sent, wire, read, buffer, lines>>

\* Mutant: what the last chunk left over is dropped.
Fed_Afresh(rest, chunk) == chunk

\* What is framed when a chunk arrives: the rest of the last one comes first.
Fed(rest, chunk) == rest \o chunk

\* A chunk of any length arrives.  An error that is not about the connection
\* leaves the task, gather passes it on, and the whole bridge ends.
Read(r) ==
  /\ bridge = "on" /\ link[r]
  /\ \E n \in (read[r] + 1)..Len(wire[r]) :
       LET parsed == parse_beast_frames(Fed(buffer[r], SubSeq(wire[r], read[r] + 1, n)))
           wanted == InOrder({frame \in parsed.frames : Wanted(frame.type)})
           record(frame) == beast_frame_to_record(frame, Entry(r))
       IN /\ read' = [read EXCEPT ![r] = n]
          /\ buffer' = [buffer EXCEPT ![r] = parsed.rest]
          /\ IF DOMAIN wanted # {} /\ Raises(Entry(r).clock)
             THEN bridge' = "ended" /\ UNCHANGED lines
             ELSE /\ lines' = [lines EXCEPT ![r] =
                                 @ \o [i \in DOMAIN wanted |-> record(wanted[i])]]
                  /\ UNCHANGED bridge
  /\ UNCHANGED <<now, config, ready, link, sent, wire, calls>>

\* The receiver closes or the network fails: the bytes on the wire and the buffer
\* are lost, and the task waits and connects again with an empty one.
Disconnect(r) ==
  /\ bridge = "on" /\ link[r]
  /\ link' = [link EXCEPT ![r] = FALSE]
  /\ sent' = [sent EXCEPT ![r] = <<>>]
  /\ wire' = [wire EXCEPT ![r] = <<>>]
  /\ read' = [read EXCEPT ![r] = 0]
  /\ buffer' = [buffer EXCEPT ![r] = <<>>]
  /\ lines' = [lines EXCEPT ![r] = <<>>]
  /\ UNCHANGED <<now, config, ready, bridge, calls>>

TimePasses ==
  /\ now < MaxTime
  /\ now' = now + 1
  /\ UNCHANGED <<config, ready, bridge, link, sent, wire, read, buffer, lines, calls>>

BridgeNext ==
  \/ Launch \/ TimePasses
  \/ \E r \in Identities :
       \/ Connect(r) \/ Read(r) \/ Disconnect(r)
       \/ \E type \in DOMAIN Bodies : Transmit(r, type)

BridgeSpec == BridgeInit /\ [][BridgeNext]_bridgeVars

-----------------------------------------------------------------------------
(* Properties                                                                 *)

\* The wanted frames of r whose last byte has been read on this connection.
Arrived(r) == {k \in DOMAIN sent[r] : Wanted(sent[r][k].type) /\ sent[r][k].to =< read[r]}

\* f tells which of the frames sent each line of r is: one each, in the same order.
Tells(f, r) ==
  /\ \A i, j \in DOMAIN lines[r] : i < j => f[i] < f[j]
  /\ \A i \in DOMAIN lines[r] :
       LET line == lines[r][i] IN
       /\ <<line.ticks>> \o line.message = sent[r][f[i]].body
       /\ line.receiver_id = r

\* However the stream is cut into chunks, wherever the escaped bytes fall and
\* whatever other frames lie between, the lines of a connection are exactly the
\* wanted frames that have arrived on it, in order, under the receiver's own
\* identity: nothing of one connection or receiver shows in another, no frame is
\* lost at a cut, and no part of one is taken for a frame.
LinesAreFrames ==
  \A r \in Identities : bridge = "on" =>
    \E f \in [DOMAIN lines[r] -> Arrived(r)] : Range(f) = Arrived(r) /\ Tells(f, r)

\* A true calibration: the anchor is a reading of the receiver's own counter.
Calibrated(r) ==
  LET clock == Entry(r).clock
  IN (PowerOn[r] + clock.anchor_time) % TickModulus = clock.anchor_tick

\* The window lies within half a turn of the counter before and after the anchor.
WithinReach(clock) ==
  /\ clock.anchor_time - clock.valid_from =< TickModulus - TickModulus \div 2
  /\ clock.valid_until - clock.anchor_time < TickModulus \div 2

\* In a launch for MLAT a line of a truly calibrated receiver carries the time the
\* receiver heard the message, or none at all; it carries one exactly when that
\* time lies in the validity window, before the counter wraps or after, and also
\* when the run outlives the half of the counter that can be told apart, until the
\* counter has gone once around from the start of the window.
TimestampsAreTrue ==
  \A r \in Configured :
    LET clock == Entry(r).clock
    IN bridge = "on" /\ ready /\ Calibrated(r) /\ WithinReach(clock)
         /\ now < clock.valid_from + TickModulus =>
         \E f \in [DOMAIN lines[r] -> Arrived(r)] :
           /\ Tells(f, r)
           /\ \A i \in DOMAIN lines[r] :
                LET at == sent[r][f[i]].at IN
                lines[r][i].timestamp_ns =
                  IF at \in clock.valid_from..clock.valid_until THEN at ELSE None

\* Only a diagnostic launch can be ended by what a receiver sends: once a file has
\* passed the checks of an MLAT launch no frame makes one task fail and take the
\* others with it.
ReadyNeverEnds == ready => bridge # "ended"

==============================================================================

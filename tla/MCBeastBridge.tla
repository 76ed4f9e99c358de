----------------------------- MODULE MCBeastBridge -----------------------------
EXTENDS BeastBridge, SequencesExt, TLC

\* A byte is a number below 8: 2 is the mark, 3, 4 and 5 are the known frame types,
\* 7 is one the bridge does not know.  As in Beast, where a message of an unknown
\* type is no longer than a long one, its body can hold what looks like a short
\* frame but not what looks like a long one.
MCLengths == (3 :> 1) @@ (4 :> 1) @@ (5 :> 3)
MCBodies == (4 :> {<<2>>}) @@ (5 :> {<<2, 5, 2>>})
            @@ (7 :> {<<2, 4, 0>>, <<2, 5, 2>>})
MCPowerOn == (1 :> 6) @@ (2 :> 1)

Clock(enabled, source, tick, at, from, until) ==
  [enabled |-> enabled, source |-> source, anchor_tick |-> tick, anchor_time |-> at,
   valid_from |-> from, valid_until |-> until]
\* Receiver 1 counts 7 at time 1, wraps at time 2 and repeats itself at time 9.
Good  == Clock(TRUE, "gpsdo", 0, 2, 1, 3)
Early == Clock(TRUE, "gpsdo", 2, 1, 1, 2)
Half  == Clock(TRUE, "gpsdo", 2, 1, 1, None)
Bare  == Clock(None, None, 0, 1, None, None)
Off   == Clock(FALSE, None, 0, 1, None, None)

At(r, endpoint, clock) ==
  [receiver_identity |-> r, sensor_id |-> r, endpoint |-> endpoint, clock |-> clock]
MCConfigs ==
  {<<At(1, "a", Good), At(2, "b", c)>> : c \in {Early, Half, Bare, Off}}
    \cup {<<At(1, "a", Good), At(2, "a", Early)>>, <<At(1, "a", Good)>>}

\* The loops of parse_beast_frames, from idx: what is decoded from a start, until
\* it is whole, short or interrupted, and where the search goes on.
RECURSIVE Decoded(_, _, _)
Decoded(b, c, n) ==
  IF n = 0 \/ RunsOut(b, c) \/ IsMarker(b, c) THEN [left |-> n, body |-> <<>>, at |-> c]
  ELSE LET more == Decoded(b, IF b[c] = Mark THEN c + 2 ELSE c + 1, n - 1)
       IN [more EXCEPT !.body = <<b[c]>> \o @]

RECURSIVE Loop(_, _)
Loop(b, idx) ==
  IF idx >= Len(b)
  THEN [frames |-> <<>>, rest |-> IF idx = Len(b) /\ b[idx] = Mark THEN <<Mark>> ELSE <<>>]
  ELSE IF idx \notin Starts(b) THEN Loop(b, idx + 1)
  ELSE LET d == Decoded(b, idx + 2, 1 + TYPE_TO_MESSAGE_LEN[b[idx + 1]])
       IN IF d.left = 0
          THEN LET after == Loop(b, d.at)
               IN [after EXCEPT !.frames = <<<<b[idx + 1], d.body>>>> \o @]
          ELSE IF RunsOut(b, d.at) THEN [frames |-> <<>>, rest |-> SubSeq(b, idx, Len(b))]
          ELSE Loop(b, d.at)

\* parse_beast_frames returns what its loops do, whatever the bytes.
ASSUME ParserAssumption ==
  \A n \in 0..7 : \A b \in [1..n -> {0, Mark, Short, Long}] :
    LET parsed == parse_beast_frames(b)
        frames == InOrder(parsed.frames)
    IN [frames |-> [i \in DOMAIN frames |-> <<frames[i].type, frames[i].body>>],
        rest |-> parsed.rest] = Loop(b, 1)

==============================================================================

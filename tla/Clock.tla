-------------------------------- MODULE Clock --------------------------------
(****************************************************************************)
(* The clock of the video buffer (clock.c): from the last points, the dates *)
(* of a frame in the time of the system and in the time of the stream, it   *)
(* estimates the affine relation between them.  The sums of the older and   *)
(* of the newer half of the points are kept up to date, not recomputed.     *)
(*                                                                          *)
(* The slope is a fraction of integers, where the code has a double; the    *)
(* divisions of integers truncate, which is the same for dates that are     *)
(* not negative.                                                            *)
(****************************************************************************)
EXTENDS Integers

CONSTANT SC_CLOCK_RANGE   \* how many points are kept

ASSUME ClockAssumption ==
  SC_CLOCK_RANGE \in Nat \ {0} /\ SC_CLOCK_RANGE % 2 = 0

Add(p, q) == [system |-> p.system + q.system, stream |-> p.stream + q.stream]
Sub(p, q) == [system |-> p.system - q.system, stream |-> p.stream - q.stream]
Avg(p, n) == [system |-> p.system \div n, stream |-> p.stream \div n]
Zero == [system |-> 0, stream |-> 0]

\* sc_clock_init; the points have any value.
ClockInit == [points |-> [k \in 0..SC_CLOCK_RANGE - 1 |-> Zero], count |-> 0, head |-> 0,
              left_sum |-> Zero, right_sum |-> Zero]

Full(clock) == clock.count = SC_CLOCK_RANGE

\* Faulty: the middle of a full ring is taken one point too late.
MidLate(clock) ==
  clock.points[IF Full(clock) THEN (clock.head + SC_CLOCK_RANGE \div 2 + 1) % SC_CLOCK_RANGE
               ELSE clock.count \div 2]

\* The point that passes from the right sum to the left sum.
Mid(clock) ==
  clock.points[IF Full(clock) THEN (clock.head + SC_CLOCK_RANGE \div 2) % SC_CLOCK_RANGE
               ELSE clock.count \div 2]

\* sc_clock_update, without the estimation.
Updated(clock, point) ==
  LET passes == IF Full(clock) \/ clock.count % 2 = 1 THEN Mid(clock) ELSE Zero
      leaves == IF Full(clock) THEN clock.points[clock.head] ELSE Zero
  IN [points |-> [clock.points EXCEPT ![clock.head] = point],
      count |-> IF Full(clock) THEN clock.count ELSE clock.count + 1,
      head |-> (clock.head + 1) % SC_CLOCK_RANGE,
      left_sum |-> Sub(Add(clock.left_sum, passes), leaves),
      right_sum |-> Add(Sub(clock.right_sum, passes), point)]

LeftAvg(clock) == Avg(clock.left_sum, clock.count \div 2)
RightAvg(clock) == Avg(clock.right_sum, (clock.count + 1) \div 2)
GlobalAvg(clock) == Avg(Add(clock.left_sum, clock.right_sum), clock.count)

\* sc_clock_estimate: the slope, that is 1 at first, then progressively the one of
\* the two halves.  It has no value if both halves have the same stream time.
Slope(clock) ==
  LET rise == RightAvg(clock).system - LeftAvg(clock).system
      run == RightAvg(clock).stream - LeftAvg(clock).stream
  IN [num |-> clock.count * rise + (SC_CLOCK_RANGE - clock.count) * run,
      den |-> SC_CLOCK_RANGE * run]

Offset(clock) ==
  GlobalAvg(clock).system
    - (GlobalAvg(clock).stream * Slope(clock).num) \div Slope(clock).den

\* sc_clock_to_system_time
ToSystemTime(clock, stream) ==
  (stream * Slope(clock).num) \div Slope(clock).den + Offset(clock)
==============================================================================

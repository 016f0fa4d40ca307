-------------------------- MODULE HashrateMonitor ---------------------------
(***************************************************************************)
(* The hashrate of one hash counter (main/tasks/hashrate_monitor_task.c):  *)
(* the monitor asks for the chip's counter register once per poll,         *)
(* ASIC_result_task hands in the answers, and a measurement keeps the last *)
(* value and its time. The counter is lost when power management stops the *)
(* chip, and the measurements are cleared then. A time of 0 is "never".    *)
(***************************************************************************)
EXTENDS Integers

CONSTANTS
    Width,      \* values of the counter register (2^32)
    Burst,      \* ticks under which an update is ignored (1 s)
    MaxTime, MaxStops   \* bounds

VARIABLES
    now,            \* esp_timer_get_time(), starting at 1
    initialized,    \* ASIC_initalized; FALSE also means the chip is off
    counter,        \* the chip's register
    was,            \* the monitor's was_asic_initialized
    mpc,            \* the monitor: "poll" or "sum"
    answer,         \* an answer of the chip: its value, the time it came, and
                    \* the stops before it was asked for
    late,           \* history: an answer was handled after the chip stopped
    measurement,    \* value, time_us and hashrate (a count over a duration)
    current,        \* current_hashrate
    seen,           \* the monitor has polled since the chip stopped
    stops           \* history: how often the chip has stopped

vars == <<now, initialized, counter, was, mpc, answer, late, measurement, current, seen,
          stops>>

Rate == [count: 0..(Width - 1), duration: Nat]
NoRate == [count |-> 0, duration |-> 1]
Cleared == [value |-> 0, time |-> 0, rate |-> NoRate]
NoAnswer == [value |-> 0, time |-> 0, stops |-> 0]

TypeOK ==
    /\ now \in 1..MaxTime /\ initialized \in BOOLEAN /\ was \in BOOLEAN
    /\ counter \in 0..(Width - 1) /\ mpc \in {"poll", "sum"}
    /\ answer.time <= now /\ measurement.time <= now
    /\ measurement.rate \in Rate /\ measurement.rate.duration > 0

Init ==
    /\ now = 1 /\ initialized = TRUE /\ counter \in 0..(Width - 1)
    /\ was = FALSE /\ mpc = "poll" /\ answer = NoAnswer /\ late = FALSE
    /\ measurement = Cleared /\ current = NoRate /\ seen = FALSE /\ stops = 0

(* The chip counts at most one unit in a tick.                              *)
Tick ==
    /\ now < MaxTime /\ now' = now + 1
    /\ IF initialized THEN counter' \in {counter, (counter + 1) % Width}
       ELSE UNCHANGED counter
    /\ UNCHANGED <<initialized, was, mpc, answer, late, measurement, current, seen, stops>>

(* mining_stop() and mining_start(); between them power management waits    *)
(* longer than a poll.                                                      *)
Stop ==
    /\ initialized /\ initialized' = FALSE /\ seen' = FALSE
    /\ stops < MaxStops /\ stops' = stops + 1
    /\ UNCHANGED <<now, counter, was, mpc, answer, late, measurement, current>>

Start ==
    /\ ~initialized /\ seen
    /\ initialized' = TRUE /\ counter' = 0
    /\ UNCHANGED <<now, was, mpc, answer, late, measurement, current, seen, stops>>

(* The monitor: measurements are cleared when the chip has stopped.         *)
JustStopped == was /\ ~initialized

Poll ==
    /\ mpc = "poll" /\ was' = initialized
    /\ measurement' = IF JustStopped THEN Cleared ELSE measurement
    /\ IF initialized
       THEN /\ mpc' = "sum" /\ UNCHANGED <<current, seen>>
            /\ answer' = IF answer # NoAnswer THEN answer
                         ELSE [value |-> counter, time |-> now, stops |-> stops]
       ELSE mpc' = "poll" /\ current' = NoRate /\ seen' = TRUE /\ UNCHANGED answer
    /\ UNCHANGED <<now, initialized, counter, late, stops>>

Sum ==
    /\ mpc = "sum" /\ mpc' = "poll" /\ current' = measurement.rate
    /\ UNCHANGED <<now, initialized, counter, was, answer, late, measurement, seen, stops>>

(* SYSTEM_reset_pool_session() clears the measurements too.                 *)
SessionEnds ==
    /\ measurement' = Cleared
    /\ UNCHANGED <<now, initialized, counter, was, mpc, answer, late, current, seen, stops>>

(* update_hash_counter(): the difference is taken modulo the register width.*)
Updated(value, time) ==
    IF measurement.time = 0 THEN [measurement EXCEPT !.value = value, !.time = time]
    ELSE IF time - measurement.time < Burst THEN measurement
    ELSE [value |-> value, time |-> time,
          rate |-> [count |-> (value - measurement.value + Width) % Width,
                    duration |-> time - measurement.time]]

HandleAnswer ==
    /\ answer # NoAnswer
    /\ measurement' = Updated(answer.value, answer.time)
    /\ late' = (late \/ ~initialized \/ answer.stops # stops) /\ answer' = NoAnswer
    /\ UNCHANGED <<now, initialized, counter, was, mpc, current, seen, stops>>

(* An answer is lost on the line, or with the chip's power.                 *)
LoseAnswer ==
    /\ answer # NoAnswer /\ answer' = NoAnswer
    /\ UNCHANGED <<now, initialized, counter, was, mpc, late, measurement, current, seen, stops>>

Next ==
    \/ Tick \/ Stop \/ Start \/ Poll \/ Sum \/ SessionEnds
    \/ HandleAnswer \/ LoseAnswer

Spec == Init /\ [][Next]_vars

---------------------------------------------------------------------------
(* The hashrate never exceeds what the chip can do (no "huge uint32_t       *)
(* wraparound diff"), through wraps of the register, lost answers, bursts   *)
(* and stops of the chip, unless an answer is handled after a stop.         *)
HashrateIsPlausible ==
    ~late => current.count <= current.duration
=============================================================================

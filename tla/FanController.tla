---------------------------- MODULE FanController ----------------------------
(***************************************************************************)
(* The fans (main/tasks/fan_controller_task.c with main/thermal/PID.c and  *)
(* thermal.c): every 100 ms the task picks a speed for what the rest of    *)
(* the device is doing and writes it to both fans, if it is a new one.     *)
(* Speeds are steps of a scale from 0 to Full.                             *)
(***************************************************************************)
EXTENDS Naturals

CONSTANTS
    Full, Idle, Startup,        \* 100 %, 30 %, 75 %
    MaxErrors, MaxEdits, MaxRestarts    \* bounds

Speeds == 0..Full
Fans == {1, 2}
Modes == {"run", "overheat", "paused", "no pool"}

VARIABLES
    mode,               \* overheat_mode, mining_paused, pools_unavailable
    auto, manual, min,  \* the settings autofanspeed, manualFanSpeed, minFanSpeed
    valid,              \* chip_temp_avg is a temperature
    limit,              \* pid_output_min, the lower limit of the PID
    automatic,          \* the PID runs
    output,             \* pid_output
    percent,            \* fan_perc
    fan,                \* hardware: the speed of each fan
    fault,              \* hardware_fault
    speedSet,           \* history: a speed was written since the restart
    errors, edits, restarts

settings == <<mode, auto, manual, min, valid>>
vars == <<settings, limit, automatic, output, percent, fan, fault, speedSet, errors, edits,
          restarts>>

TypeOK ==
    /\ mode \in Modes /\ {manual, min, limit, output, percent} \subseteq Speeds
    /\ {auto, valid, automatic, fault, speedSet} \subseteq BOOLEAN /\ fan \in [Fans -> Speeds]

Init ==
    /\ mode \in Modes /\ auto \in BOOLEAN /\ manual \in Speeds /\ min \in 0..(Full - 1)
    /\ valid = FALSE /\ limit = 0 /\ automatic = FALSE /\ output = 0
    /\ percent = 0 /\ fan = [f \in Fans |-> Full] /\ fault = FALSE /\ speedSet = FALSE
    /\ errors = 0 /\ edits = 0 /\ restarts = 0

(* Thermal_set_fan_percent(): both fans are written whatever happens.       *)
Failed(broken) == broken # {}

(* update_fan_speed(): an unchanged speed is not written again.             *)
Update(new, broken) ==
    IF new = percent THEN broken = {} /\ UNCHANGED <<percent, fan, fault, speedSet, errors>>
    ELSE /\ percent' = new /\ speedSet' = TRUE
         /\ fan' = [f \in Fans |-> IF f \in broken THEN fan[f] ELSE new]
         /\ fault' = (fault \/ Failed(broken))
         /\ IF broken = {} THEN UNCHANGED errors
            ELSE errors < MaxErrors /\ errors' = errors + 1

(* The speed outside of automatic control                                   *)
Target ==
    CASE mode = "overheat" -> Full
      [] mode \in {"paused", "no pool"} -> Idle
      [] mode = "run" /\ ~auto -> manual
      [] OTHER -> Startup

Automatic == mode = "run" /\ auto

(* The PID moves its output within the limits, by the temperature, or keeps *)
(* the last one when it was computed less than a sample time ago; new       *)
(* limits are put on the last output first.                                 *)
Clamped(low) == IF automatic /\ output < low THEN low ELSE output

Cycle(broken) ==
    /\ limit' = IF Automatic THEN min ELSE limit
    /\ IF Automatic /\ valid
       THEN /\ automatic' = TRUE
            /\ output' \in min..Full \union (IF automatic THEN {Clamped(min)} ELSE {})
            /\ Update(output', broken)
       ELSE /\ automatic' = automatic /\ Update(Target, broken)
            /\ output' = IF Automatic THEN Clamped(min) ELSE output
    /\ UNCHANGED <<settings, edits, restarts>>

(* The user, power management and the pools                                 *)
Edit ==
    /\ edits < MaxEdits /\ edits' = edits + 1
    /\ \/ mode' \in Modes \ {mode} /\ UNCHANGED <<auto, manual, min, valid>>
       \/ auto' = ~auto /\ UNCHANGED <<mode, manual, min, valid>>
       \/ manual' \in Speeds \ {manual} /\ UNCHANGED <<mode, auto, min, valid>>
       \/ min' \in 0..(Full - 1) \ {min} /\ UNCHANGED <<mode, auto, manual, valid>>
       \/ valid' = ~valid /\ UNCHANGED <<mode, auto, manual, min>>
    /\ UNCHANGED <<limit, automatic, output, percent, fan, fault, speedSet, errors, restarts>>

(* The fans keep their speed over a restart of the processor.               *)
Restart ==
    /\ restarts < MaxRestarts /\ restarts' = restarts + 1
    /\ valid' = FALSE /\ limit' = 0 /\ automatic' = FALSE /\ output' = 0
    /\ percent' = 0 /\ fault' = FALSE /\ speedSet' = FALSE
    /\ UNCHANGED <<mode, auto, manual, min, fan, errors, edits>>

Next == Edit \/ Restart \/ \E broken \in SUBSET Fans : Cycle(broken)

Spec == Init /\ [][Next]_vars

---------------------------------------------------------------------------
(* A fan that does not turn as reported stops the miner (hardware_fault),   *)
(* although a failed write is never repeated, and the PID never asks for    *)
(* less than the minimum, whenever it was set.                              *)
FansAreAsReported ==
    /\ speedSet /\ ~fault => \A f \in Fans : fan[f] = percent
    /\ automatic => output >= limit
=============================================================================

------------------------------- MODULE Thermal --------------------------------
(***************************************************************************)
(* The temperature sensors, the PID and the fans' tachometers              *)
(* (main/thermal): the power management task reads the sensors, the fan    *)
(* controller turns what they show into a fan speed. FanController has the *)
(* other ways to choose a speed, and the writing of it.                    *)
(*                                                                         *)
(* Temperatures are in sixteenths of a degree, the unit of the finest      *)
(* sensor. Speeds are in 1600ths of a percent, so that the PID's products  *)
(* are whole numbers. What the code has as floats in between is rounded.   *)
(***************************************************************************)
EXTENDS Integers

CONSTANTS
    Temperatures,       \* of a diode, in sixteenths
    Targets,            \* temptarget, in degrees: 35 to 66
    Minima,             \* minFanSpeed, in percent: 0 to 99
    Speeds,             \* of a fan, in revolutions per minute
    MaxMoves, MaxCycles, MaxErrors      \* bounds

Diodes == {1, 2}
Conditions == {"good", "open", "short"}
Degree == 16
Throttle == 75 * Degree     \* THROTTLE_TEMP
Percent == 1600
Full == 100 * Percent

(* The boards of device_config.h: the sensor, temp_flip, the calibration    *)
(* for a BM1373, whether the second sensor rules (LV08), temp_offset.       *)
Board(sensor, flip, calibrated, second, offset) ==
    [sensor |-> sensor, flip |-> flip, calibrated |-> calibrated, second |-> second,
     offset |-> offset]
Boards ==
    {Board("EMC2101", FALSE, FALSE, FALSE, 0), Board("EMC2101_internal", FALSE, FALSE, FALSE, 5),
     Board("EMC2103", TRUE, FALSE, FALSE, 0), Board("EMC2103", FALSE, TRUE, FALSE, 0),
     Board("TMP1075", FALSE, FALSE, FALSE, 10), Board("TMP1075_LV07", FALSE, FALSE, FALSE, 5),
     Board("TMP1075_LV07", FALSE, FALSE, TRUE, 5)}

VARIABLES
    board,              \* DEVICE_CONFIG
    heat, diode,        \* of each diode: its temperature and its condition
    powered,            \* ASIC_initalized
    turn,               \* the temperature that is read next: chip_temp_avg, chip_temp2_avg
    highByte,           \* temp_msb, read before temp_lsb
    temps,              \* chip_temp_avg, chip_temp2_avg
    filtered,           \* filtered_input
    pid,                \* inAuto, outputSum, lastInput, the output
    outputMin, goal,        \* pid_output_min, pid_setPoint
    speed,              \* fan_rpm
    earlier,            \* history: the temperature when the high byte was read
    actual, source,     \* history: of temps, the temperature, and the kind of reading
    former, computed,   \* history: lastInput before the PID ran; it ran in the last cycle
    lowByte,            \* tach_lsb, read before tach_msb
    turned, lowTurn,    \* history: the fan's speed when it, and when tach_lsb, was read
    shownBy,            \* history: how the speed was read
    moves, cycles, errors

sensing == <<turn, highByte, temps, earlier, actual, source>>
control == <<filtered, pid, outputMin, goal, former, computed, cycles>>
tacho == <<speed, lowByte, turned, lowTurn, shownBy>>
nature == <<heat, diode, powered, moves>>
vars == <<board, nature, sensing, control, tacho, errors>>

---------------------------------------------------------------------------
(* The sensors: eleven bits in eighths, of which the second byte has three, *)
(* or twelve in sixteenths; the EMC2101's own temperature in degrees.       *)
Signed(n, range) == IF n >= range \div 2 THEN n - range ELSE n

(* Two temperatures that differ by no more than n                           *)
Within(n, x, y) == x - y <= n /\ y - x <= n

(* EMC210x_TEMP_*FAULT*                                                     *)
Fault(condition) ==
    IF board.sensor = "EMC2103" THEN 1024 ELSE IF condition = "open" THEN 1016 ELSE 1023

Word(d) == IF diode[d] = "good" THEN (heat[d] \div 2) % 2048 ELSE Fault(diode[d])
MSB(word) == word \div 8
LSB(word) == (word % 8) * 32

Joined(msb, lsb) == 2 * Signed((msb * 256 + lsb) \div 32, 2048)
Twelve(t) == Signed(t % 4096, 4096)
Whole(t) == Degree * ((t \div Degree) % 256)

(* BM1373_TEMP_SCALE and _OFFSET, NAJA_DUO_DIODE2_TEMP_OFFSET               *)
Calibrated(d, t) ==
    IF board.calibrated THEN (t * 9614) \div 10000 - (IF d = 1 THEN 81 ELSE 253) ELSE t

Result(d, t) == Calibrated(d, t) + board.offset * Degree

TwoReads == board.sensor \in {"EMC2101", "EMC2103"}
Place(i) == IF board.flip THEN 3 - i ELSE i
Emc2101 == board.sensor \in {"EMC2101", "EMC2101_internal"}
Exists(i) == i = 1 \/ ~Emc2101
Invalid == -1 * Degree

(* get_external_temp() and its like end: with the temperature or with -1.   *)
Shows(i, t, how) ==
    /\ temps' = [temps EXCEPT ![i] = t]
    /\ actual' = [actual EXCEPT ![i] = heat[Place(i)]]
    /\ source' = [source EXCEPT ![i] = how]
    /\ turn' = 3 - i /\ highByte' = -1 /\ earlier' = 0

ReadHigh ==
    /\ TwoReads /\ powered /\ highByte = -1 /\ Exists(turn)
    /\ highByte' = MSB(Word(Place(turn))) /\ earlier' = heat[Place(turn)]
    /\ UNCHANGED <<turn, temps, actual, source>>

ReadLow ==
    LET d == Place(turn) IN
    /\ highByte # -1
    /\ Shows(turn, Result(d, Joined(highByte, LSB(Word(d)))), diode[d])

ReadWhole ==
    LET d == Place(turn) IN
    /\ ~TwoReads /\ powered /\ Exists(turn)
    /\ Shows(turn,
             IF board.sensor = "EMC2101_internal" THEN Whole(heat[1]) + board.offset * Degree
             ELSE Twelve(heat[d]) + board.offset * Degree, "good")

(* Thermal_get_chip_temp*(): no sensor, no power                            *)
ReadNothing ==
    /\ highByte = -1 /\ (~powered \/ ~Exists(turn))
    /\ Shows(turn, Invalid, "none")

Read ==
    /\ \/ (ReadHigh \/ ReadLow \/ ReadWhole \/ ReadNothing) /\ UNCHANGED errors
       \/ /\ errors < MaxErrors /\ errors' = errors + 1
          /\ powered \/ highByte # -1
          /\ Shows(turn, Invalid, "none")
    /\ UNCHANGED <<board, nature, control, tacho>>

---------------------------------------------------------------------------
(* PID.c, with the tunings and the reversed direction of the fan controller.*)
Kp == 500       \* PID_P: 5 % per degree
Ki == 1         \* PID_I: 0.1, at 100 ms
Kd == 2000      \* PID_D: 2, at 100 ms

Clamp(x, floor) == IF x > Full THEN Full ELSE IF x < floor THEN floor ELSE x

(* pid_set_output_limits(): of a PID that runs                              *)
Limited(p, floor) ==
    IF p.auto THEN [p EXCEPT !.output = Clamp(p.output, floor), !.sum = Clamp(p.sum, floor)] ELSE p

(* pid_set_mode(), pid_initialize()                                         *)
Running(p, input, floor) ==
    IF p.auto THEN p
    ELSE [auto |-> TRUE, sum |-> Clamp(p.output, floor), last |-> input, output |-> p.output]

(* pid_compute(): what exceeds the limits is taken back from the sum.       *)
Computed(p, input, setpoint, floor) ==
    LET sum == Clamp(p.sum + Ki * (input - setpoint), floor)
        raw == Kp * (input - setpoint) + sum + Kd * (input - p.last)
        held == Clamp(raw, floor)
    IN  [auto |-> TRUE, sum |-> sum - (raw - held), last |-> input, output |-> held]

Raw ==
    IF temps[2] <= 0 THEN temps[1]
    ELSE IF board.second THEN temps[2] ELSE (temps[1] + temps[2]) \div 2

Filtered == IF filtered < 0 THEN Raw ELSE (Raw + 4 * filtered) \div 5

---------------------------------------------------------------------------
(* The tachometers count the clock between edges: slower is more. A count   *)
(* that is too high for the register, or none at all, is its last value.    *)
Numerator ==
    IF Emc2101 THEN 5400000 ELSE IF board.sensor = "EMC2103" THEN 7864320 ELSE 3932160
LastCount == IF Emc2101 THEN 65535 ELSE 8191
Count(r) == IF r = 0 \/ Numerator \div r > LastCount THEN LastCount ELSE Numerator \div r

(* 82 is what the last value of the EMC2101 comes to.                       *)
Standing(count) ==
    \/ board.sensor = "TMP1075" /\ count \div 32 = 255
    \/ board.sensor = "TMP1075_LV07" /\ count \in {0, 8191}
    \/ board.sensor \notin {"TMP1075", "TMP1075_LV07"} /\ Numerator \div count = 82

FanSpeed(count) == IF Standing(count) THEN 0 ELSE Numerator \div count

(* Two of the controllers are read byte by byte; a byte of the EMC2103 has   *)
(* the low five bits of the count.                                          *)
TwoByteTacho == Emc2101 \/ board.sensor = "EMC2103"
Part == IF Emc2101 THEN 256 ELSE 32

ShowsSpeed(s, rpm, how) ==
    speed' = s /\ turned' = rpm /\ shownBy' = how /\ lowByte' = -1 /\ lowTurn' = 0

(* A read that fails is returned as 0.                                      *)
NoAnswer ==
    /\ errors < MaxErrors /\ errors' = errors + 1
    /\ ShowsSpeed(0, 0, "failed")

ReadTurn(rpm) ==
    \/ /\ TwoByteTacho /\ lowByte' = Count(rpm) % Part /\ lowTurn' = rpm
       /\ UNCHANGED <<speed, turned, shownBy, errors>>
    \/ /\ ~TwoByteTacho /\ ShowsSpeed(FanSpeed(Count(rpm)), rpm, "whole")
       /\ UNCHANGED errors
    \/ NoAnswer

(* The second byte, of what may be another speed                            *)
ReadTurnHigh(rpm) ==
    /\ lowByte # -1
    /\ \/ /\ ShowsSpeed(FanSpeed((Count(rpm) \div Part) * Part + lowByte), rpm,
                         IF rpm = lowTurn THEN "whole" ELSE "torn")
          /\ UNCHANGED errors
       \/ NoAnswer
    /\ UNCHANGED <<board, nature, sensing, control>>

---------------------------------------------------------------------------
(* A cycle of the fan controller in automatic control: it is late by less   *)
(* than a sample now and then, so that the PID keeps its output.            *)
Control(wish, minimum, rpm) ==
    LET floor == minimum * Percent
        p == IF floor = outputMin THEN pid ELSE Limited(pid, floor)
        q == Running(p, Filtered, floor)
    IN
    /\ lowByte = -1 /\ cycles < MaxCycles /\ cycles' = cycles + 1
    /\ outputMin' = floor /\ goal' = wish * Degree
    /\ IF temps[1] > 0
       THEN /\ filtered' = Filtered /\ former' = q.last
            /\ \/ pid' = Computed(q, Filtered, wish * Degree, floor) /\ computed' = TRUE
               \/ pid.auto /\ pid' = q /\ computed' = FALSE
       ELSE pid' = p /\ computed' = FALSE /\ UNCHANGED <<filtered, former>>
    /\ ReadTurn(rpm)
    /\ UNCHANGED <<board, nature, sensing>>

(* Between two bytes of a temperature it changes by less than a degree, and *)
(* the diode does not break.                                                *)
Move ==
    /\ moves < MaxMoves /\ moves' = moves + 1
    /\ \/ \E d \in Diodes, t \in Temperatures :
            /\ Exists(d) /\ (highByte # -1 /\ d = Place(turn) => Within(Degree - 1, t, earlier))
            /\ heat' = [heat EXCEPT ![d] = t] /\ UNCHANGED <<diode, powered>>
       \/ \E d \in Diodes, c \in Conditions :
            /\ TwoReads /\ Exists(d) /\ highByte = -1
            /\ diode' = [diode EXCEPT ![d] = c] /\ UNCHANGED <<heat, powered>>
       \/ powered' = ~powered /\ UNCHANGED <<heat, diode>>
    /\ UNCHANGED <<board, sensing, control, tacho, errors>>

Init ==
    /\ board \in Boards
    /\ heat \in [Diodes -> Temperatures] /\ diode = [d \in Diodes |-> "good"]
    /\ powered = FALSE /\ moves = 0
    /\ turn = 1 /\ highByte = -1 /\ earlier = 0
    /\ temps = [i \in Diodes |-> 0] /\ actual = heat /\ source = [i \in Diodes |-> "none"]
    /\ filtered = Invalid /\ pid = [auto |-> FALSE, sum |-> 0, last |-> 0, output |-> 0]
    /\ outputMin = 0 /\ goal = 0 /\ former = 0 /\ computed = FALSE /\ cycles = 0
    /\ speed = 0 /\ lowByte = -1 /\ turned = 0 /\ lowTurn = 0 /\ shownBy = "failed"
    /\ errors = 0

Next ==
    \/ Read \/ Move
    \/ \E wish \in Targets, minimum \in Minima, rpm \in Speeds : Control(wish, minimum, rpm)
    \/ \E rpm \in Speeds : ReadTurnHigh(rpm)

Spec == Init /\ [][Next]_vars

---------------------------------------------------------------------------
TypeOK ==
    /\ board \in Boards /\ heat \in [Diodes -> Temperatures] /\ diode \in [Diodes -> Conditions]
    /\ turn \in Diodes /\ highByte \in -1..255 /\ temps \in [Diodes -> Int]
    /\ source \in [Diodes -> Conditions \union {"none"}] /\ outputMin \in 0..Full
    /\ pid \in [auto : BOOLEAN, sum : Int, last : Int, output : 0..Full]
    /\ lowByte \in -1..255 /\ shownBy \in {"whole", "torn", "failed"}

(* What is shown is the temperature the diode has, within about a degree,   *)
(* also when it changed between the two bytes; and a broken diode never     *)
(* shows a temperature to mine at. The EMC2101's own sensor is read without *)
(* a sign: below zero it shows 256 degrees more.                            *)
TemperatureIsTrue ==
    \A i \in Diodes :
      /\ source[i] = "good" /\ (board.sensor = "EMC2101_internal" => actual[i] >= 0) =>
            Within(18, temps[i], Result(Place(i), actual[i]))
      /\ source[i] \in {"open", "short"} => temps[i] <= 0 \/ temps[i] > Throttle

(* The PID keeps to the limits, and however long it ran at one of them: as  *)
(* soon as it is too cool, and not getting hotter, the fans are not at full *)
(* speed, and when it is too hot, and not getting cooler, not at the least. *)
FansFollowTheHeat ==
    /\ pid.auto => pid.output \in outputMin..Full
    /\ computed /\ pid.last < goal /\ pid.last <= former => pid.output < Full
    /\ computed /\ pid.last > goal /\ pid.last >= former => pid.output > outputMin

(* A fan that turns is shown as one that turns, also when its speed changed *)
(* between the two bytes, and within a hundredth when it did not. One that  *)
(* stands is shown as such, except by the EMC2103, whose last count is not  *)
(* looked for and comes to 960 or a little more. When a read failed this    *)
(* does not hold: a fan that turns is then shown as one that stands.        *)
SpeedIsTrue ==
    shownBy # "failed" =>
      /\ turned >= 1000 => speed # 0
      /\ turned >= 1000 /\ shownBy = "whole" => speed - turned \in 0..(turned \div 100)
      /\ turned = 0 => speed = 0 \/ (board.sensor = "EMC2103" /\ speed \in 960..963)

CoolingIsTrue == TemperatureIsTrue /\ FansFollowTheHeat /\ SpeedIsTrue
=============================================================================

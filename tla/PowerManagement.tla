--------------------------- MODULE PowerManagement ---------------------------
(***************************************************************************)
(* Power to the ASICs: POWER_MANAGEMENT_task stops and starts mining       *)
(* (main/tasks/power_management_task.c), app_main and it both initialise   *)
(* the chips (main/main.c, main/power/asic_init.c), the fan controller     *)
(* may flag a fault (main/tasks/fan_controller_task.c), the tasks           *)
(* that use the serial line look at ASIC_initalized, and the HTTP handlers *)
(* set the reasons to stop.                                                *)
(*                                                                         *)
(* Voltages are in units of 100 mV, frequencies of 100 MHz; 0 is no        *)
(* voltage, and the 50 MHz a chip has after its reset. A temperature is 0  *)
(* (cooled down), 1 or 2 (throttle).                                       *)
(***************************************************************************)
EXTENDS Naturals

CONSTANTS
    Volts, Freqs,       \* what a user may choose
    MinVolt,            \* VCORE_get_voltage_min_mv(), 0 if the board has none
    EmcInternalTemp,    \* DEVICE_CONFIG.emc_internal_temp
    MinCycles,          \* MIN_COOLING_CYCLES
    MaxFlips, MaxEdits, \* bounds: pauses and resumes, edits of the settings
    MaxHeats, MaxFails  \* bounds: temperature rises, failing chips or fans

Idle == 0
Off  == 0

(* The settings after an overheat (lines 211-221).                         *)
Reduction == 1
Larger(a, b) == IF a > b THEN a ELSE b
ReducedVoltage(v) == Larger(IF v > Reduction THEN v - Reduction ELSE 10, MinVolt)
ReducedFrequency(f) == IF f > Reduction THEN f - Reduction ELSE 4

ASSUME PowerAssumption ==
    /\ Volts \subseteq Nat \ {Off} /\ Freqs \subseteq Nat \ {Idle}
    /\ MinVolt \in Nat /\ EmcInternalTemp \in BOOLEAN /\ MinCycles \in Nat \ {0}
    /\ MaxFlips \in Nat /\ MaxEdits \in Nat
    /\ MaxHeats \in Nat /\ MaxFails \in Nat

VARIABLES
    \* mining_paused, pools_unavailable, hardware_fault
    paused, unavailable, fault,
    \* settings: core voltage, frequency, overheat mode, and the fans': as they
    \* were, a manual 100 %, or chosen since
    volt, freq, overheat, fans,
    \* the hottest chip and the voltage regulator
    chipTemp, vrTemp,
    \* the task: program counter, is_paused, throttle temperature at its last
    \* look, the stop is due to overheating, last_known_*, cooling_cycles,
    \* last_core_voltage and last_asic_frequency
    pc, isPaused, hot, overheated, known, cycles, lastVolt, lastFreq,
    \* app_main: waiting for the network, in asic_initialize(), mining, halted
    main,
    \* asic_initialize() as run by each of the two
    init,
    \* frequency_value, actual_frequency, ASIC_initalized
    frequency, actual, initialized,
    \* the board: core voltage, the reset line is high, the chips were
    \* enumerated since, and their frequency
    vcore, released, answering, chipFreq,
    \* a task that has seen ASIC_initalized uses the serial line
    sending,
    \* bounds' counters, and (history) a stop or start fell into app_main's
    \* initialisation, and a setting the chips miss until the next start
    flips, edits, heats, fails, raced, missed

reasons  == <<paused, unavailable, fault>>
settings == <<volt, freq, overheat, fans>>
temps    == <<chipTemp, vrTemp>>
task     == <<pc, isPaused, hot, overheated, known, cycles>>
applied  == <<lastVolt, lastFreq>>
module   == <<frequency, actual, initialized>>
board    == <<vcore, released, answering, chipFreq>>
counters == <<flips, edits, heats, fails>>
vars == <<reasons, settings, temps, task, applied, main, init, module, board,
          sending, counters, raced, missed>>

Tasks == {"pm", "main"}
Stopping == {"ramp", "cut", "mark", "drain"}
Starting == {"volt", "freq", "init"}
Nothing == [volt |-> Off, freq |-> Idle]

FlagsOK ==
    /\ paused \in BOOLEAN /\ unavailable \in BOOLEAN /\ fault \in BOOLEAN
    /\ overheat \in BOOLEAN /\ isPaused \in BOOLEAN
    /\ hot \in BOOLEAN /\ overheated \in BOOLEAN /\ initialized \in BOOLEAN
    /\ released \in BOOLEAN /\ answering \in BOOLEAN /\ sending \in BOOLEAN
    /\ raced \in BOOLEAN /\ missed \in BOOLEAN

DataOK ==
    /\ volt \in Nat \ {Off} /\ freq \in Nat \ {Idle}
    /\ fans \in {"before", "full", "chosen"}
    /\ chipTemp \in 0..2 /\ vrTemp \in 0..2
    /\ pc \in {"top", "check", "cool", "apply"} \cup Stopping \cup Starting
    /\ known \in [volt: Nat, freq: Nat] /\ cycles \in 0..MinCycles
    /\ lastVolt \in Nat /\ lastFreq \in Nat
    /\ main \in {"setup", "init", "mining", "halted"}
    /\ init \in [Tasks -> {"none", "reset", "detect", "ready", "ok", "failed"}]
    /\ frequency \in Nat /\ actual \in Nat /\ vcore \in Nat /\ chipFreq \in Nat
    /\ flips \in 0..MaxFlips /\ edits \in 0..MaxEdits
    /\ heats \in 0..MaxHeats /\ fails \in 0..MaxFails

(* Each of the two calls asic_initialize() where its program counter says,  *)
(* and the cooling loop runs only after an overheat.                        *)
ControlOK ==
    /\ init["pm"] # "none" <=> pc = "init"
    /\ init["main"] # "none" <=> main = "init"
    /\ pc = "cool" => overheated
    /\ pc \in {"top", "check", "apply"} => ~overheated

TypeOK == FlagsOK /\ DataOK /\ ControlOK

Init ==
    /\ paused = FALSE /\ unavailable = FALSE /\ fault = FALSE
    /\ volt \in Volts /\ freq \in Freqs
    /\ overheat \in BOOLEAN /\ fans = "before"
    /\ chipTemp = 0 /\ vrTemp = 0
    /\ pc = "top" /\ isPaused = FALSE /\ hot = FALSE /\ overheated = FALSE
    /\ known = Nothing /\ cycles = 0
    /\ lastVolt = Off /\ lastFreq = freq
    /\ main = "setup" /\ init = [t \in Tasks |-> "none"]
    /\ frequency = freq /\ actual = Idle /\ initialized = FALSE
    /\ vcore = Off /\ released = FALSE /\ answering = FALSE /\ chipFreq = Idle
    /\ sending = FALSE
    /\ flips = 0 /\ edits = 0 /\ heats = 0 /\ fails = 0 /\ raced = FALSE
    /\ missed = FALSE

---------------------------------------------------------------------------
(* The loop of POWER_MANAGEMENT_task.                                       *)

WantsStop == paused \/ fault \/ unavailable

(* Thermal_get_chip_temp(): an uninitialised ASIC has no temperature (-1).  *)
ChipTemp == IF initialized THEN chipTemp ELSE 0

Overheating == ChipTemp = 2 \/ vrTemp = 2

Look_OnlyInitialized ==
    /\ pc = "top"
    /\ pc' = IF WantsStop /\ ~isPaused /\ initialized THEN "ramp"
             ELSE IF ~WantsStop /\ isPaused THEN "volt"
             ELSE IF isPaused THEN "top" ELSE "check"
    /\ hot' = (Overheating /\ ~WantsStop)
    /\ UNCHANGED <<reasons, settings, temps, isPaused, overheated, known, cycles,
                   applied, main, init, module, board, sending, counters>>

Look_PausedGoesOn ==
    /\ pc = "top"
    /\ pc' = IF WantsStop /\ ~isPaused THEN "ramp"
             ELSE IF ~WantsStop /\ isPaused THEN "volt" ELSE "check"
    /\ hot' = (Overheating /\ ~WantsStop)
    /\ UNCHANGED <<reasons, settings, temps, isPaused, overheated, known, cycles,
                   applied, main, init, module, board, sending, counters>>

Look_NotInSafeMode ==
    /\ pc = "top"
    /\ pc' = IF WantsStop /\ ~isPaused THEN "ramp"
             ELSE IF ~WantsStop /\ isPaused /\ ~overheat THEN "volt"
             ELSE IF isPaused THEN "top" ELSE "check"
    /\ hot' = (Overheating /\ ~WantsStop)
    /\ UNCHANGED <<reasons, settings, temps, isPaused, overheated, known, cycles,
                   applied, main, init, module, board, sending, counters>>

(* The temperatures and the reasons to stop are read once per iteration.    *)
(* (Here and below, a local variable that will not be read again is reset.) *)
Look ==
    /\ pc = "top"
    /\ pc' = IF WantsStop /\ ~isPaused THEN "ramp"
             ELSE IF ~WantsStop /\ isPaused THEN "volt"
             ELSE IF isPaused THEN "top" ELSE "check"
    /\ hot' = (Overheating /\ ~WantsStop)
    /\ UNCHANGED <<reasons, settings, temps, isPaused, overheated, known, cycles,
                   applied, main, init, module, board, sending, counters>>

(* Line 155: not paused, perhaps just started; the temperatures are those   *)
(* of the top of the loop.                                                  *)
Check ==
    /\ pc = "check" /\ (fault \/ ~hot)
    /\ pc' = (IF fault THEN "top" ELSE "apply") /\ hot' = FALSE
    /\ UNCHANGED <<reasons, settings, temps, isPaused, overheated, known,
                   cycles, applied, main, init, module, board, sending,
                   counters>>

(* Safe mode: remember voltage and frequency, set the fans to a manual      *)
(* 100 % (whatever they were set to is forgotten), and stop.                *)
Overheat ==
    /\ pc = "check" /\ ~fault /\ hot
    /\ known' = [volt |-> volt, freq |-> freq]
    /\ overheat' = TRUE /\ fans' = "full"
    /\ overheated' = TRUE /\ hot' = FALSE /\ pc' = "ramp"
    /\ UNCHANGED <<reasons, volt, freq, temps, isPaused, cycles, applied, main,
                   init, module, board, sending, counters>>

(* do_frequency_transition(): the tracker says whether there is anything to *)
(* send; the chips follow if they listen.                                   *)
RampTo(f) ==
    /\ frequency' = f /\ actual' = f
    /\ chipFreq' = IF answering /\ actual # f THEN f ELSE chipFreq

RampDown ==
    /\ pc = "ramp" /\ pc' = "cut"
    /\ RampTo(Idle)
    /\ UNCHANGED <<reasons, settings, temps, isPaused, hot, overheated, known,
                   cycles, applied, main, init, initialized, vcore, released,
                   answering, sending, counters>>

CutPower ==
    /\ pc = "cut" /\ pc' = "mark"
    /\ vcore' = Off /\ released' = FALSE /\ answering' = FALSE /\ chipFreq' = Idle
    /\ UNCHANGED <<reasons, settings, temps, isPaused, hot, overheated, known,
                   cycles, applied, main, init, module, sending, counters>>

MarkUninitialized ==
    /\ pc = "mark" /\ pc' = "drain"
    /\ initialized' = FALSE
    /\ UNCHANGED <<reasons, settings, temps, isPaused, hot, overheated, known,
                   cycles, applied, main, init, frequency, actual, board,
                   sending, counters>>

Drain_NoDelay ==
    /\ pc = "drain"
    /\ pc' = IF overheated THEN "cool" ELSE "top"
    /\ isPaused' = (isPaused \/ ~overheated)
    /\ UNCHANGED <<reasons, settings, temps, hot, overheated, known, cycles,
                   applied, main, init, module, board, sending, counters>>

(* The delay of 500 ms is longer than any operation on the serial line.     *)
Drain ==
    /\ pc = "drain" /\ ~sending
    /\ pc' = IF overheated THEN "cool" ELSE "top"
    /\ isPaused' = (isPaused \/ ~overheated)
    /\ UNCHANGED <<reasons, settings, temps, hot, overheated, known, cycles,
                   applied, main, init, module, board, sending, counters>>

(* A cooling cycle of 5 s; the count begins again while a chip whose        *)
(* temperature can still be read is warm.                                   *)
CyclesAfter ==
    IF EmcInternalTemp /\ ChipTemp > 0 THEN 0
    ELSE IF cycles < MinCycles THEN cycles + 1 ELSE cycles

CoolOn ==
    /\ pc = "cool"
    /\ CyclesAfter < MinCycles \/ vrTemp > 0
    /\ cycles' = CyclesAfter
    /\ UNCHANGED <<reasons, settings, temps, pc, isPaused, hot, overheated,
                   known, applied, main, init, module, board, sending,
                   counters>>

CoolEnough ==
    /\ pc = "cool" /\ pc' = "volt"
    /\ CyclesAfter >= MinCycles /\ vrTemp = 0
    /\ volt' = ReducedVoltage(known.volt) /\ freq' = ReducedFrequency(known.freq)
    /\ cycles' = 0 /\ known' = Nothing
    /\ UNCHANGED <<reasons, overheat, fans, temps, isPaused, hot,
                   overheated, applied, main, init, module, board,
                   sending, counters>>

(* mining_start()                                                           *)
RestoreVoltage ==
    /\ pc = "volt" /\ pc' = "freq"
    /\ vcore' = volt
    /\ UNCHANGED <<reasons, settings, temps, isPaused, hot, overheated, known,
                   cycles, applied, main, init, module, released, answering,
                   chipFreq, sending, counters>>

InitFrequency ==
    /\ pc = "freq" /\ pc' = "init"
    /\ frequency' = freq /\ actual' = Idle
    /\ init' = [init EXCEPT !["pm"] = "reset"]
    /\ UNCHANGED <<reasons, settings, temps, isPaused, hot, overheated, known,
                   cycles, applied, main, initialized, board, sending,
                   counters>>

Started_KeepsOverheat ==
    /\ pc = "init" /\ init["pm"] \in {"ok", "failed"}
    /\ init' = [init EXCEPT !["pm"] = "none"]
    /\ isPaused' = FALSE /\ overheated' = FALSE
    /\ overheat' = (overheat /\ ~(overheated /\ ~isPaused /\ hot))
    /\ pc' = IF overheated THEN "apply" ELSE "check"
    /\ UNCHANGED <<reasons, volt, freq, fans, temps, hot, known,
                   cycles, applied, main, module, board, sending, counters>>

(* Started or not, the task is no longer paused; only a start that found    *)
(* its chips leaves the overheat mode.                                      *)
Started ==
    /\ pc = "init" /\ init["pm"] \in {"ok", "failed"}
    /\ init' = [init EXCEPT !["pm"] = "none"]
    /\ isPaused' = FALSE /\ overheated' = FALSE
    /\ overheat' = (overheat /\ ~(overheated /\ init["pm"] = "ok"))
    /\ pc' = IF overheated THEN "apply" ELSE "check"
    /\ UNCHANGED <<reasons, volt, freq, fans, temps, hot, known,
                   cycles, applied, main, module, board, sending, counters>>


(* Lines 238-262: settings are applied when they differ from those applied  *)
(* here before.                                                             *)
ApplySettings ==
    /\ pc = "apply" /\ pc' = "top"
    /\ vcore' = IF volt # lastVolt THEN volt ELSE vcore
    /\ lastVolt' = volt /\ lastFreq' = freq
    /\ IF freq # lastFreq THEN RampTo(freq)
       ELSE UNCHANGED <<frequency, actual, chipFreq>>
    /\ UNCHANGED <<reasons, settings, temps, isPaused, hot, overheated, known,
                   cycles, main, init, initialized, released, answering,
                   sending, counters>>

---------------------------------------------------------------------------
(* asic_initialize(), run by app_main and by mining_start().                *)

Advance(t, next) == init' = [init EXCEPT ![t] = next]

ResetChip(t) ==
    /\ init[t] = "reset" /\ Advance(t, "detect")
    /\ released' = TRUE /\ answering' = FALSE /\ chipFreq' = Idle
    /\ UNCHANGED <<reasons, settings, temps, task, applied, main, module, vcore,
                   sending, counters>>

(* ASIC_init() finds the powered chips and ramps them up, from where the    *)
(* tracker says they are. (Only the BM1373's driver first sets the tracker  *)
(* back; this is of the four others.)                                       *)
Detect(t) ==
    /\ init[t] = "detect" /\ Advance(t, "ready")
    /\ vcore # Off /\ released
    /\ answering' = TRUE /\ actual' = frequency
    /\ chipFreq' = IF actual # frequency THEN frequency ELSE chipFreq
    /\ UNCHANGED <<reasons, settings, temps, task, applied, main, frequency,
                   initialized, vcore, released, sending, counters>>

(* No chip answers: there is no power, it is held in reset, or it is broken.*)
DetectFails(t) ==
    /\ init[t] = "detect" /\ Advance(t, "failed")
    /\ \/ (vcore = Off \/ ~released) /\ fails' = fails
       \/ fails < MaxFails /\ fails' = fails + 1
    /\ UNCHANGED <<reasons, settings, temps, task, applied, main, module, board,
                   sending, flips, edits, heats>>

Ready(t) ==
    /\ init[t] = "ready" /\ Advance(t, "ok")
    /\ initialized' = TRUE
    /\ UNCHANGED <<reasons, settings, temps, task, applied, main, frequency,
                   actual, board, sending, counters>>

(* app_main: the network is up; then the mining tasks are created, or not.  *)
BeginInit ==
    /\ main = "setup" /\ main' = "init"
    /\ Advance("main", "reset")
    /\ UNCHANGED <<reasons, settings, temps, task, applied, module, board,
                   sending, counters>>

EndInit ==
    /\ main = "init" /\ init["main"] \in {"ok", "failed"}
    /\ Advance("main", "none")
    /\ main' = IF init["main"] = "ok" THEN "mining" ELSE "halted"
    /\ UNCHANGED <<reasons, settings, temps, task, applied, module, board,
                   sending, counters>>

---------------------------------------------------------------------------
(* The other tasks.                                                         *)

(* FAN_CONTROLLER_task flags a fault when a fan cannot be set; nothing ever  *)
(* clears it. (Its choice of a speed is the subject of FanController.)      *)
FanFails ==
    /\ fails < MaxFails /\ fails' = fails + 1 /\ fault' = TRUE
    /\ UNCHANGED <<paused, unavailable, settings, temps, task, applied, main,
                   init, module, board, sending, flips, edits, heats>>

(* create_jobs_task and hashrate_monitor_task look at ASIC_initalized before*)
(* they send.                                                               *)
Send ==
    /\ main = "mining" /\ ~sending /\ initialized
    /\ sending' = TRUE
    /\ UNCHANGED <<reasons, settings, temps, task, applied, main, init, module,
                   board, counters>>

Sent ==
    /\ sending /\ sending' = FALSE
    /\ UNCHANGED <<reasons, settings, temps, task, applied, main, init, module,
                   board, counters>>

(* The user pauses and resumes; the stratum task gives up and recovers.     *)
FlipReason ==
    /\ flips < MaxFlips /\ flips' = flips + 1
    /\ \/ paused' = ~paused /\ unavailable' = unavailable
       \/ main = "mining" /\ unavailable' = ~unavailable /\ paused' = paused
    /\ UNCHANGED <<fault, settings, temps, task, applied, main, init, module,
                   board, sending, edits, heats, fails>>

(* PATCH changes settings; of overheat_mode it accepts only 0.              *)
EditSettings ==
    /\ edits < MaxEdits /\ edits' = edits + 1
    /\ \/ volt' \in Volts /\ freq' \in Freqs /\ UNCHANGED <<overheat, fans>>
       \/ overheat' = FALSE /\ UNCHANGED <<volt, freq, fans>>
       \/ fans' = "chosen" /\ UNCHANGED <<volt, freq, overheat>>
    /\ UNCHANGED <<reasons, temps, task, applied, main, init, module,
                   board, sending, flips, heats, fails>>

(* Chips that hash and their regulator may heat up, and everything cools.   *)
HeatUp ==
    /\ heats < MaxHeats /\ heats' = heats + 1 /\ vcore # Off
    /\ \/ chipTemp' = 2 /\ vrTemp' = vrTemp
       \/ vrTemp' = 2 /\ chipTemp' = chipTemp
    /\ UNCHANGED <<reasons, settings, task, applied, main, init, module, board,
                   sending, flips, edits, fails>>

CoolDown ==
    /\ \/ chipTemp > 0 /\ chipTemp' = chipTemp - 1 /\ vrTemp' = vrTemp
       \/ vrTemp > 0 /\ vrTemp' = vrTemp - 1 /\ chipTemp' = chipTemp
    /\ UNCHANGED <<reasons, settings, task, applied, main, init, module, board,
                   sending, counters>>

---------------------------------------------------------------------------
PmStep ==
    \/ Look \/ Check \/ Overheat \/ RampDown \/ CutPower \/ MarkUninitialized
    \/ Drain \/ CoolOn \/ CoolEnough \/ RestoreVoltage \/ InitFrequency \/ Started
    \/ ApplySettings

InitStep(t) == ResetChip(t) \/ Detect(t) \/ DetectFails(t) \/ Ready(t)

MainStep == BeginInit \/ EndInit \/ InitStep("main")

EnvStep == FlipReason \/ EditSettings \/ HeatUp \/ CoolDown

Races == main' = "init" /\ pc' \in Stopping \cup Starting

(* What the task then takes for applied: a setting edited back to the value *)
(* last applied here, after a start has read another one ...                *)
EditedBack ==
    /\ pc \in {"freq", "init", "check", "apply"}
    /\ \/ volt' # volt /\ volt' = lastVolt /\ vcore # volt'
       \/ freq' # freq /\ freq' = lastFreq /\ pc # "freq" /\ frequency # freq'
(* ... chips app_main finds when their tracker has reached the frequency    *)
(* without them, so that nothing is ramped ...                              *)
FoundUnramped == init["main"] = "detect" /\ init'["main"] = "ready" /\ actual = frequency
(* ... and chips one task ramps up and the other resets again.              *)
InitialisedTwice == init["pm"] # "none" /\ init["main"] # "none"

Step ==
    \/ PmStep \/ InitStep("pm") \/ MainStep \/ FanFails \/ Send \/ Sent \/ EnvStep

(* A new start reads and sends all settings afresh.                         *)
Noted(A) ==
    /\ A
    /\ raced' = (raced \/ Races)
    /\ missed' = \/ EditedBack \/ FoundUnramped \/ InitialisedTwice
                  \/ (missed /\ pc # "volt")

Next == Noted(Step)

Spec == Init /\ [][Next]_vars

(* The tasks run; the network comes up; an operation on the serial line     *)
(* ends; what is not heated cools. The user, the pools and the chips owe    *)
(* nothing.                                                                 *)
Fairness ==
    /\ WF_vars(Noted(PmStep)) /\ SF_vars(Noted(Drain))
    /\ WF_vars(Noted(InitStep("pm")))
    /\ WF_vars(Noted(MainStep))
    /\ WF_vars(Noted(Sent)) /\ WF_vars(Noted(CoolDown))

FairSpec == Spec /\ Fairness

---------------------------------------------------------------------------
(* While the task initialises the chips again, nobody else is in the middle *)
(* of an operation on the serial line: the stop before it has waited them   *)
(* out. (Not so when it overlaps app_main's own initialisation.)            *)
UartIsQuiet == init["pm"] \in {"detect", "ready"} => ~sending \/ raced

(* While the task has stopped mining or cools down, the chips have no       *)
(* voltage, whatever settings are edited meanwhile, and are not marked as   *)
(* initialised.                                                             *)
StoppedIsOff ==
    pc = "cool" \/ (pc = "top" /\ isPaused)
        => vcore = Off /\ (initialized => raced)

(* A reason to stop that stays takes the voltage away for good.             *)
StopIsHonoured == <>[]WantsStop => <>[](vcore = Off)

(* Without a reason to stop, with chips and fans that work, and unless      *)
(* app_main gave up because it came too early, the chips run in the end.    *)
MiningResumes ==
    <>[](~WantsStop /\ fails = 0 /\ main # "halted")
        => <>[](vcore # Off /\ initialized)


(* The device leaves the safe mode it entered, even while paused, unless    *)
(* its chips failed. It does not go back to the fans' settings of before:   *)
(* these stay at a manual 100 % until the user chooses them anew.           *)
SafeModeEnds ==
    overheated ~> (~overheat /\ fans # "before") \/ fails > 0

(* "For boards with EMC internal temp sensor, readings remain valid         *)
(* [...] Continue if ASIC temps still too high": such a board does not      *)
(* start again with a chip above SAFE_TEMP.                                 *)
WarmChipStaysOff ==
    [][pc = "cool" /\ pc' = "volt" /\ EmcInternalTemp => chipTemp = 0]_vars
=============================================================================

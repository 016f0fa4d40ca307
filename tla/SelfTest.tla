------------------------------ MODULE SelfTest ------------------------------
(***************************************************************************)
(* The self test (main/self_test/self_test.c): in a factory-fresh device,  *)
(* or with the boot button held at start, it replaces the miner's normal   *)
(* operation; it checks the board, lets the chips hash for a while, judges *)
(* what they report, switches the core voltage off and restarts.           *)
(***************************************************************************)
EXTENDS Integers, FiniteSetsExt

CONSTANTS
    Domains,               \* the hash domains of the chips
    Expected,              \* expected_domain_hashrate, a multiple of three
    Rates,                 \* the rates a domain's counter may show
    Needed,                \* the expected hashes of a whole test
    MaxPower, StartPower,  \* the chips' difficulty is 2^1..2^MaxPower; its power at first
    MaxRounds,             \* the rounds of the 30 seconds (a round in the code: 1 s)
    MaxNonces, MaxErrors, MaxStarts    \* bounds: nonces, failed writes, starts

Powers == 1..MaxPower
None == 0
NoNonce == [level |-> None, found |-> None]

(* The chips' temperature as the limits see it.                             *)
NoTemp == -1
Cold == 0
Warm == 1
Hot == 2

(* What each step of self_test_task() checks, and the step after it.        *)
AfterCheck == [psram |-> "current", current |-> "input", input |-> "fault",
               fault |-> "work",
               vcore |-> "power", power |-> "fan", fan |-> "passed"]

(* What fails before the task starts; the first three before the button is  *)
(* of use, before the regulator is, and before the chips are found.         *)
Early == {"input_init", "screen", "vcore_init", "thermal", "chips"}
Defects == Early \cup DOMAIN AfterCheck

VARIABLES
    flag, cached,          \* NVS_CONFIG_SELF_TEST in flash and in memory
    best,                  \* NVS_CONFIG_BEST_DIFF is 1 or more
    defects,               \* what turned out to be out of order since the start
    step,                  \* where self_test_task is, "off", or "normal" operation
    factory,               \* isFactoryTest
    finished,              \* SELF_TEST_MODULE.is_finished
    result,                \* whether the test passed, when it is over
    pressed,               \* longPressSemaphore is given
    volts,                 \* the core voltage is on
    pm,                    \* the power management task: gone, asleep, wait, work, tune
    retune,                \* the stored frequency is not the one of the test
    power, chip,           \* current_difficulty_power and what the chips were told
    nonce,                 \* a result on the way: [level, found]
    measuring, target, hashes,   \* nonce_measurement
    round,
    counter,               \* domain -> the hashrate monitor's [time, rate]
    average,               \* domain -> its SelfTestDomainAverage
    nonces, errors, starts,
    worth,                 \* history: the hashes the accepted nonces stand for
    heated,                \* history: a sensor was too hot during the test
    cleared,               \* history: the device passed, or its button was held
    offFailed, raised, alive, noisy, tuned, powerFault   \* history, see the actions

measurement == <<measuring, target, hashes, round, counter, average, nonce>>
history == <<worth, heated, offFailed, raised, alive, noisy, tuned, powerFault, cleared>>
board == <<flag, cached, best, factory>>
vars == <<board, defects, step, finished, result, pressed, volts, pm, retune, power, chip,
          measurement, nonces, errors, starts, history>>

Nothing == [sum |-> 0, count |-> 0, rejected |-> 0, last |-> 0]

TypeOK ==
    /\ {flag, cached, best, factory, finished, pressed, volts, retune, measuring}
           \subseteq BOOLEAN
    /\ defects \subseteq Defects /\ result \in {"none", "pass", "fail"}
    /\ pm \in {"gone", "asleep", "wait", "work", "tune"}
    /\ power \in Powers /\ chip \in Powers /\ target \in Powers \cup {None}
    /\ hashes \in Nat /\ worth \in Nat /\ round \in 0..MaxRounds
    /\ counter \in [Domains -> [time : Nat, rate : Rates]]
    /\ DOMAIN average = Domains

Idle ==
    /\ step = "off" /\ defects = {} /\ finished = FALSE /\ result = "none" /\ pressed = FALSE
    /\ volts = FALSE /\ pm = "gone" /\ power = StartPower /\ chip = StartPower /\ nonce = NoNonce
    /\ measuring = FALSE /\ target = None /\ hashes = 0 /\ round = 0
    /\ counter = [d \in Domains |-> [time |-> 0, rate |-> 0]]
    /\ average = [d \in Domains |-> Nothing]
    /\ nonces = 0 /\ worth = 0 /\ heated = FALSE /\ offFailed = FALSE
    /\ raised = FALSE /\ alive = {} /\ noisy = {} /\ tuned = FALSE /\ powerFault = FALSE

Init ==
    /\ Idle /\ flag \in BOOLEAN /\ cached = flag /\ best = FALSE /\ factory = FALSE
    /\ retune \in BOOLEAN /\ errors = 0 /\ starts = 0 /\ cleared = ~flag

----------------------------------------------------------------------------
(* Starting: app_main().                                                    *)

(* self_test_should_run(): fresh and flagged, or the button held now.       *)
IsFactory == ~best /\ flag
ShouldRun(held) == IsFactory \/ held

(* The button's long press gives the semaphore when input_init() came that  *)
(* far; the power management task exists when all peripherals did.          *)
HasButton == step \notin {"off", "normal"} /\ "input_init" \notin defects
RegulatorWorks(bad) == bad \cap {"input_init", "screen", "vcore_init"} = {}
HasRegulator == RegulatorWorks(defects)
HasChips == defects \cap Early = {}

Start(held, bad) ==
    /\ step = "off" /\ starts < MaxStarts /\ starts' = starts + 1
    /\ cached' = flag /\ factory' = IsFactory /\ defects' = bad
    /\ step' = IF ~ShouldRun(held) THEN "normal" ELSE IF bad = {} THEN "psram" ELSE "failed"
    /\ volts' = (ShouldRun(held) /\ RegulatorWorks(bad))
    /\ pm' = IF ShouldRun(held) /\ bad \subseteq {"chips"} THEN "asleep" ELSE "gone"
    /\ UNCHANGED <<flag, best, finished, result, pressed, retune, power, chip,
                   measurement, nonces, errors, history>>

(* RESET, or the power goes: anywhere. The restart at the end of a test.    *)
PowerDown ==
    /\ step' = "off" /\ defects' = {} /\ finished' = FALSE /\ result' = "none" /\ pressed' = FALSE
    /\ volts' = FALSE /\ pm' = "gone" /\ power' = StartPower /\ chip' = StartPower /\ nonce' = NoNonce
    /\ measuring' = FALSE /\ target' = None /\ hashes' = 0 /\ round' = 0
    /\ counter' = [d \in Domains |-> [time |-> 0, rate |-> 0]]
    /\ average' = [d \in Domains |-> Nothing]
    /\ nonces' = 0 /\ worth' = 0 /\ heated' = FALSE /\ offFailed' = FALSE
    /\ raised' = FALSE /\ alive' = {} /\ noisy' = {} /\ tuned' = FALSE /\ powerFault' = FALSE
    /\ UNCHANGED <<flag, cached, best, factory, retune, errors, starts, cleared>>

Reset == step # "off" /\ PowerDown

(* Normal operation finds shares; the test leaves shares and the best       *)
(* difficulty alone (asic_result_task.c:47).                                *)
Mine ==
    /\ step = "normal" /\ ~best /\ best' = TRUE
    /\ UNCHANGED <<flag, cached, factory, defects, step, finished, result, pressed, volts,
                   pm, retune, power, chip, measurement, nonces, errors, starts, history>>

----------------------------------------------------------------------------
(* self_test_task().                                                        *)
others == <<board, finished, result, pressed, volts, pm, retune, power, chip, nonces,
            starts>>

(* A check of a part of the board.                                          *)
Check(ok) ==
    /\ step \in DOMAIN AfterCheck
    /\ step' = IF ok THEN AfterCheck[step] ELSE "failed"
    /\ defects' = IF ok THEN defects ELSE defects \cup {step}
    /\ UNCHANGED <<others, measurement, errors, history>>

(* The mock job is announced, and the fan set to full speed: a write that   *)
(* fails ends the test.                                                     *)
SetFan(ok) == IF ok THEN UNCHANGED errors ELSE errors < MaxErrors /\ errors' = errors + 1

Announce(ok) ==
    /\ step = "work" /\ SetFan(ok)
    /\ step' = IF ok THEN "warm" ELSE "failed"
    /\ UNCHANGED <<others, defects, measurement, history>>

(* self_test_get_control_temp(): the hotter of the sensors that work.       *)
Control(a, b) == IF a = NoTemp \/ b > a THEN b ELSE a

(* Warming up, for as long as it takes.                                     *)
Warming(a, b) ==
    /\ step = "warm"
    /\ step' = CASE Control(a, b) = NoTemp -> "failed"
                 [] Control(a, b) = Cold -> "warm"
                 [] OTHER -> "measure"
    /\ UNCHANGED <<others, defects, measurement, errors, history>>

(* self_test_domain_averages_prime() and self_test_start_nonce_measurement()*)
StartMeasurement ==
    /\ step = "measure" /\ ~measuring /\ round = 0
    /\ measuring' = TRUE /\ target' = power /\ hashes' = 0
    /\ average' = [d \in Domains |-> [Nothing EXCEPT !.last = counter[d].time]]
    /\ alive' = {} /\ noisy' = {}
    /\ UNCHANGED <<others, defects, step, round, counter, nonce, errors, worth, heated,
                   offFailed, raised, tuned, powerFault, cleared>>

(* self_test_domain_averages_sample().                                      *)
Sampled(d) ==
    LET c == counter[d]  a == average[d] IN
    IF c.time \in {0, a.last} THEN a
    ELSE IF a.last = 0 THEN [a EXCEPT !.last = c.time]
    ELSE IF c.rate > 3 * Expected
    THEN [a EXCEPT !.last = c.time, !.rejected = @ + 1]
    ELSE [a EXCEPT !.last = c.time, !.sum = @ + c.rate, !.count = @ + 1]

(* A round of the 30 seconds: temperature, fan, and a sample.               *)
Round(a, b, ok) ==
    /\ step = "measure" /\ measuring /\ round < MaxRounds
    /\ SetFan(ok)
    /\ heated' = (heated \/ Hot \in {a, b})
    /\ IF Control(a, b) = NoTemp \/ ~ok \/ Control(a, b) = Hot
       THEN step' = "failed" /\ UNCHANGED <<round, average>>
       ELSE /\ round' = round + 1 /\ average' = [d \in Domains |-> Sampled(d)]
            /\ UNCHANGED step
    /\ UNCHANGED <<others, defects, measuring, target, hashes, counter, nonce, worth, offFailed,
                   raised, alive, noisy, tuned, powerFault, cleared>>

(* A domain's verdict: a counter that was implausible a quarter of the time *)
(* is unreliable, and does not fail the test.                               *)
Unreliable(a) == a.rejected > 0 /\ (a.count = 0 \/ 4 * a.rejected >= a.count + a.rejected)
Fails(a) ==
    ~Unreliable(a) /\ \/ a.count = 0
                      \/ 3 * a.sum < 2 * Expected * a.count
                      \/ 3 * a.sum > 4 * Expected * a.count

Judge ==
    /\ step = "measure" /\ measuring /\ round = MaxRounds
    /\ measuring' = FALSE
    /\ step' = IF (\E d \in Domains : Fails(Sampled(d))) \/ hashes < Needed
               THEN "failed" ELSE "vcore"
    /\ average' = [d \in Domains |-> Nothing] /\ UNCHANGED counter
    /\ UNCHANGED <<others, defects, target, hashes, round, nonce, errors, history>>

----------------------------------------------------------------------------
(* What runs beside the task.                                               *)

(* The chips send a nonce; its level is the power of two it reaches.        *)
Find(level) ==
    /\ step = "measure" /\ measuring
    /\ nonces < MaxNonces /\ nonce = NoNonce /\ level >= chip
    /\ nonces' = nonces + 1 /\ nonce' = [level |-> level, found |-> chip]
    /\ UNCHANGED <<board, defects, step, finished, result, pressed, volts, pm, retune, power, chip,
                   measuring, target, hashes, round, counter, average, errors, starts,
                   history>>

(* self_test_record_nonce(): weighed with the difficulty of this moment. A  *)
(* nonce that reaches the target stands for the hashes of the target, or of *)
(* the chips' difficulty when that is higher.                               *)
Record ==
    /\ nonce # NoNonce /\ nonce' = NoNonce
    /\ IF measuring /\ nonce.level >= target
       THEN /\ hashes' = hashes + 2 ^ power
            /\ worth' = worth + 2 ^ Max({target, nonce.found})
       ELSE UNCHANGED <<hashes, worth>>
    /\ UNCHANGED <<board, defects, step, finished, result, pressed, volts, pm, retune, power, chip,
                   measuring, target, round, counter, average, nonces, errors, starts,
                   heated, offFailed, raised, alive, noisy, tuned, powerFault, cleared>>

(* The hashrate monitor (HashrateMonitor) has a new value for a domain.     *)
Measure(d, rate) ==
    /\ step \in {"warm", "measure"} /\ HasChips
    /\ counter[d].time <= round
    /\ counter' = [counter EXCEPT ![d] = [time |-> @.time + 1, rate |-> rate]]
    /\ noisy' = IF rate > 3 * Expected THEN noisy \cup {d} ELSE noisy
    /\ alive' = IF rate \in 1..3 * Expected THEN alive \cup {d} ELSE alive
    /\ UNCHANGED <<board, defects, step, finished, result, pressed, volts, pm, retune, power, chip,
                   measuring, target, hashes, round, average, nonce, nonces, errors, starts,
                   worth, heated, offFailed, raised, tuned, powerFault, cleared>>

pmOthers == <<board, defects, step, finished, result, pressed, nonces, errors, starts, measurement,
              worth, heated, offFailed, alive, noisy, cleared>>

(* The power management task: the end of the test is looked at once a round,*)
(* which sets the voltage and the frequency of the test the first time.     *)
PmLook ==
    /\ pm \in {"asleep", "wait"}
    /\ pm' = IF finished THEN "gone" ELSE IF retune THEN "tune" ELSE "work"
    /\ volts' = (volts \/ (~finished /\ pm = "asleep"))
    /\ retune' = (retune /\ finished)
    /\ UNCHANGED <<pmOthers, power, chip, raised, tuned, powerFault>>

(* The change of frequency takes seconds, and gives the chips a difficulty  *)
(* that fits: difficulty_controller_update().                               *)
PmTune(p) ==
    /\ pm = "tune" /\ pm' = "work" /\ tuned' = TRUE
    /\ power' = p /\ raised' = (raised \/ (p > power /\ measuring))
    /\ UNCHANGED <<pmOthers, volts, retune, chip, powerFault>>

(* ASIC_set_difficulty() follows current_difficulty_power; the round ends   *)
(* with a look at the regulator.                                            *)
PmRound ==
    /\ pm = "work" /\ pm' = "wait" /\ chip' = power
    /\ powerFault' = (powerFault \/ ~volts)
    /\ UNCHANGED <<pmOthers, volts, retune, power, raised, tuned>>

----------------------------------------------------------------------------
(* tests_done(), which never returns: the task's averages are of no use.    *)
Finish ==
    /\ step \in {"passed", "failed"} /\ result = "none"
    /\ result' = (IF step = "passed" THEN "pass" ELSE "fail")
    /\ finished' = TRUE /\ measuring' = FALSE
    /\ step' = IF HasRegulator THEN "settle" ELSE "over"
    /\ average' = [d \in Domains |-> Nothing]
    /\ UNCHANGED <<board, defects, pressed, volts, pm, retune, power, chip, target, hashes,
                   round, counter, nonce, nonces, errors, starts, history>>

(* SELF_TEST_POWER_MONITOR_STOP_MS is enough for a round without a change   *)
(* of frequency; then the voltage is switched off, or the write fails.      *)
Settled_AtOnce == TRUE

Settled == pm \notin {"wait", "work"}

SwitchOff(ok) ==
    /\ step = "settle" /\ step' = "over" /\ Settled
    /\ SetFan(ok) /\ volts' = (volts /\ ~ok) /\ offFailed' = ~ok
    /\ UNCHANGED <<board, defects, finished, result, pressed, pm, retune, power, chip, measurement,
                   nonces, starts, worth, heated, raised, alive, noisy, tuned, powerFault, cleared>>

(* self_test_reset(): a long press is remembered until it is looked at, at  *)
(* the end: that moment stands for every one before it.                     *)
LongPress ==
    /\ HasButton /\ step = "over" /\ ~pressed /\ pressed' = TRUE
    /\ UNCHANGED <<board, defects, step, finished, result, volts, pm, retune, power, chip,
                   measurement, nonces, errors, starts, history>>

(* A factory test that passed, and any that failed and is cancelled, clear  *)
(* the flag: in memory now, in flash by the NVS task.                       *)
ClearFlag ==
    /\ step = "over" /\ step' = "restart"
    /\ \/ result = "pass" \/ (result = "fail" /\ pressed)
    /\ cached' = (cached /\ result = "pass" /\ ~factory)
    /\ cleared' = (cleared \/ (result = "pass" /\ factory) \/ pressed)
    /\ UNCHANGED <<flag, best, defects, factory, finished, result, pressed, volts, pm,
                   retune, power, chip, measurement, nonces, errors, starts, worth, heated,
                   offFailed, raised, alive, noisy, tuned, powerFault>>

WriteFlag ==
    /\ flag # cached /\ step # "off" /\ flag' = cached
    /\ UNCHANGED <<cached, best, defects, factory, step, finished, result, pressed, volts,
                   pm, retune, power, chip, measurement, nonces, errors, starts, history>>

Restart == step = "restart" /\ PowerDown

Temps == {NoTemp, Cold, Warm, Hot}

Next ==
    \/ \E held \in BOOLEAN, bad \in {{}} \cup {{p} : p \in Early} : Start(held, bad)
    \/ Reset \/ Mine \/ StartMeasurement \/ Judge \/ Record \/ Finish
    \/ \E ok \in BOOLEAN : Check(ok) \/ Announce(ok) \/ SwitchOff(ok)
    \/ \E a, b \in Temps : Warming(a, b) \/ (\E ok \in BOOLEAN : Round(a, b, ok))
    \/ \E p \in Powers : Find(p) \/ PmTune(p)
    \/ \E d \in Domains, rate \in Rates : Measure(d, rate)
    \/ PmLook \/ PmRound \/ LongPress \/ ClearFlag \/ WriteFlag \/ Restart

Spec == Init /\ [][Next]_vars

----------------------------------------------------------------------------
(* A test that passes was earned: nothing it looks at is out of order, no   *)
(* sensor was too hot, the hashes it counted were made (unless the          *)
(* difficulty was raised with nonces on the way), and each domain hashed as *)
(* expected or had a counter that was implausible. After the test the core  *)
(* is without voltage, unless switching it off failed, and the power        *)
(* management task does not take that for a fault, unless it was changing   *)
(* the frequency. The flag of a factory test is cleared only by passing it  *)
(* or by holding the button: a device that failed is tested again.          *)
PassIsEarned ==
    result = "pass" =>
        /\ defects = {} /\ ~heated /\ hashes >= Needed
        /\ alive \cup noisy = Domains

SelfTestIsHonest ==
    /\ PassIsEarned
    /\ hashes <= worth \/ raised
    /\ step \in {"over", "restart"} => ~volts \/ offFailed
    /\ powerFault => tuned
    /\ flag \/ cleared
=============================================================================

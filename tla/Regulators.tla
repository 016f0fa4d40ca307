------------------------------ MODULE Regulators ------------------------------
(***************************************************************************)
(* The core voltage of a board with several regulators (main/power/vcore.c *)
(* and main/power/TPS546_LV08.c): they are initialised, set and asked for  *)
(* their status one after the other over I2C, where any transfer may fail. *)
(* A regulator keeps its output over a restart of the processor.           *)
(***************************************************************************)
EXTENDS Integers, Functions

CONSTANTS
    Count,              \* regulators (3)
    Volts,              \* settings within TPS546_INIT_VOUT_MIN .. _MAX
    MaxCalls, MaxErrors, MaxTrips, MaxRestarts     \* bounds

Regulator == 1..Count
(* The limits of the output voltage, and those of current, input voltage    *)
(* and temperature.                                                         *)
Limits == {"vout", "others"}
Off == 0
TooHigh == 1 + CHOOSE v \in Volts : \A w \in Volts : w <= v
Setting == [op : {"start", "set"}, volts : Volts \union {Off, TooHigh}]
NoCall == [op |-> "none", volts |-> Off]
InitCall == [op |-> "init", volts |-> Off]
CheckCall == [op |-> "check", volts |-> Off]
MeasureCall == [op |-> "measure", volts |-> Off]
ShutDown == [op |-> "shutdown", volts |-> Off]

VARIABLES
    operation,          \* hardware: OPERATION is ON
    vout,               \* hardware: VOUT_COMMAND
    up,                 \* hardware: the output has come up
    tripped,            \* hardware: a fault has turned it off
    warm,               \* hardware: its warning of the temperature is on
    limits,             \* hardware: which limits of TPS546_CONFIG it has
    handle,             \* dev_handle is set
    grace,              \* power_good_grace_until is not over
    faultActive, powerFault,
    measured,           \* last_vout
    call, next,         \* the call that runs, and the regulator it is at
    ok,                 \* no regulator has failed in this call
    result,             \* what the last call has returned
    ready,              \* the peripherals are initialised: not degraded
    unread,             \* history: this check could not read a status
    faulty, tripping,   \* history: the regulators without an output at some
                        \* time of this check, and with a fault at its begin
    calls, errors, trips, restarts

hardware == <<operation, vout, up, tripped, warm, limits>>
software == <<handle, faultActive, powerFault, measured, call, next, ok, result, ready>>
history == <<unread, faulty, tripping>>
vars == <<hardware, grace, software, history, calls, errors, trips, restarts>>

TypeOK ==
    /\ {operation, up, tripped, warm, handle, grace, faultActive} \subseteq [Regulator -> BOOLEAN]
    /\ limits \in [Regulator -> SUBSET Limits]
    /\ {vout, measured} \subseteq [Regulator -> Volts \union {Off}]
    /\ call \in Setting \union {NoCall, InitCall, CheckCall, MeasureCall, ShutDown}
    /\ next \in 1..(Count + 1) /\ faulty \union tripping \subseteq Regulator
    /\ {powerFault, ok, result, ready, unread} \subseteq BOOLEAN

NoneOf == [r \in Regulator |-> FALSE]
Delivers(r) == operation[r] /\ up[r] /\ ~tripped[r]

Init ==
    /\ operation = NoneOf /\ vout = [r \in Regulator |-> Off]
    /\ up = NoneOf /\ tripped = NoneOf /\ warm = NoneOf /\ limits = [r \in Regulator |-> {}]
    /\ handle = NoneOf /\ grace = NoneOf /\ faultActive = NoneOf /\ powerFault = FALSE
    /\ measured = [r \in Regulator |-> Off]
    /\ call = InitCall /\ next = 1 /\ ok = TRUE /\ result = FALSE /\ ready = FALSE
    /\ unread = FALSE /\ faulty = {} /\ tripping = {}
    /\ calls = 0 /\ errors = 0 /\ trips = 0 /\ restarts = 0

Called(c) == call' = c /\ next' = 1 /\ ok' = TRUE
Goes(success) == next' = next + 1 /\ ok' = (ok /\ success)
FailsIf(failed) ==
    IF failed THEN errors < MaxErrors /\ errors' = errors + 1 ELSE UNCHANGED errors

(* Power management sets, checks and measures, one call at a time.          *)
Begin(c) ==
    /\ ready /\ call = NoCall /\ calls < MaxCalls /\ calls' = calls + 1 /\ Called(c)
    /\ unread' = FALSE /\ faulty' = {r \in Regulator : ~Delivers(r)}
    /\ tripping' = {r \in Regulator : tripped[r] \/ warm[r]}
    /\ UNCHANGED <<hardware, grace, handle, faultActive, powerFault, measured, result, ready,
                   errors, trips, restarts>>

(* TPS546_LV08_write_entire_config(): one register after the other, without *)
(* a look at what fails; of the limits of the output the rest is left out   *)
(* then. Only those are written again later.                                *)
Configured(r, written) == limits[r] \cup written

(* TPS546_LV08_init(): without the device or its ID it gives up; then it    *)
(* writes OFF to OPERATION, not looking at the result, and the              *)
(* configuration; at the end it reads a register that must be there.        *)
InitOne(added, found, wrote, written, read) ==
    LET turnsOff == added /\ found /\ wrote
        success == added /\ found /\ read
    IN  /\ call.op = "init" /\ next \in Regulator /\ FailsIf(~(success /\ wrote /\ written = Limits))
        /\ limits' = [limits EXCEPT ![next] = IF added /\ found THEN Configured(next, written) ELSE @]
        /\ measured' = [measured EXCEPT ![next] = Off]
        /\ handle' = [handle EXCEPT ![next] = added]
        /\ faultActive' = [faultActive EXCEPT ![next] = FALSE]
        /\ grace' = [grace EXCEPT ![next] = FALSE]
        /\ operation' = [operation EXCEPT ![next] = @ /\ ~turnsOff]
        /\ up' = [up EXCEPT ![next] = @ /\ ~turnsOff]
        /\ tripped' = [tripped EXCEPT ![next] = @ /\ ~turnsOff]
        /\ warm' = [warm EXCEPT ![next] = @ /\ ~turnsOff]
        /\ Goes(success)
        /\ UNCHANGED <<vout, powerFault, call, result, ready, history, calls, trips, restarts>>

(* TPS546_LV08_write_vout_limit_ratios() ends when all limits are written.  *)
LimitsAfter(volts, done) == IF volts # Off /\ done >= 2 THEN {"vout"} ELSE {}

(* TPS546_LV08_set_vout(): 0 turns the output off; else VOUT_COMMAND, the   *)
(* limits and OPERATION are written and OPERATION is read back. "done" of   *)
(* these transfers succeed. Off and on again clears a fault.                *)
Transfers == IF call.volts = Off THEN 1 ELSE 4

SetOne(done) ==
    LET works == handle[next] /\ call.volts # TooHigh
        turnsOff == call.volts = Off /\ done = 1
        turnsOn == call.volts # Off /\ done >= 3
    IN  /\ call \in Setting \union {ShutDown} /\ next \in Regulator
        /\ done \in 0..(IF works THEN Transfers ELSE 0)
        /\ FailsIf(works /\ done < Transfers)
        /\ vout' = [vout EXCEPT ![next] = IF call.volts # Off /\ done >= 1 THEN call.volts ELSE @]
        /\ limits' = [limits EXCEPT ![next] = @ \cup LimitsAfter(call.volts, done)]
        /\ operation' = [operation EXCEPT ![next] = (@ \/ turnsOn) /\ ~turnsOff]
        /\ grace' = [grace EXCEPT ![next] = (@ \/ turnsOn) /\ ~turnsOff]
        /\ up' = [up EXCEPT ![next] = @ /\ ~turnsOff]
        /\ tripped' = [tripped EXCEPT ![next] = @ /\ ~turnsOff]
        /\ warm' = [warm EXCEPT ![next] = @ /\ ~turnsOff]
        /\ Goes(works /\ done = Transfers)
        /\ UNCHANGED <<handle, faultActive, powerFault, measured, call, result, ready, history,
                       calls, trips, restarts>>

(* TPS546_LV08_check_status(): the temperature's bit is one of a fault, also*)
(* when it is a warning and the output is up. A regulator that is off is no *)
(* fault within its grace time, when it is on by OPERATION and no fault is  *)
(* latched.                                                                 *)
Fault(r) == ~Delivers(r) \/ warm[r]

Waits_AnyFault(r) == ~Delivers(r) /\ grace[r] /\ operation[r]

Waits(r) == ~Delivers(r) /\ grace[r] /\ operation[r] /\ ~tripped[r] /\ ~warm[r]

(* TPS546_parse_status(): a new fault is looked into, register by register. *)
Parses(r, readDetails) == faultActive[r] \/ ~Fault(r) \/ Waits(r) \/ readDetails

CheckOne(read, readDetails) ==
    LET reads == handle[next] /\ read IN
    /\ call = CheckCall /\ next \in Regulator /\ FailsIf(~(read /\ readDetails))
    /\ faultActive' = [faultActive EXCEPT ![next] =
                          IF reads THEN Fault(next) /\ ~Waits(next) ELSE @]
    /\ Goes(reads /\ Parses(next, readDetails)) /\ unread' = (unread \/ ~reads)
    /\ UNCHANGED <<hardware, grace, handle, powerFault, measured, call, result, ready, faulty,
                   tripping, calls, trips, restarts>>

(* TPS546_LV08_get_vout(): what can't be read repeats the last reading; so  *)
(* do the readings of the temperature, the input and the current.           *)
MeasureOne(read) ==
    LET reads == handle[next] /\ read IN
    /\ call = MeasureCall /\ next \in Regulator /\ FailsIf(~read)
    /\ measured' = [measured EXCEPT ![next] =
                       IF ~reads THEN @ ELSE IF Delivers(next) THEN vout[next] ELSE Off]
    /\ Goes(TRUE) /\ unread' = (unread \/ ~reads)
    /\ UNCHANGED <<hardware, grace, handle, faultActive, powerFault, call, result, ready, faulty,
                   tripping, calls, trips, restarts>>

(* VCORE_get_voltage_mv(): the mean of all regulators.                      *)
Mean == FoldFunction(+, 0, measured) \div Count

(* The end of VCORE_init(), VCORE_set_voltage() and VCORE_check_fault(), in *)
(* SYSTEM_init_peripherals() with what it does next.                        *)
Return ==
    /\ next = Count + 1 /\ result' = ok
    /\ \/ /\ call = InitCall /\ ok
          /\ \E v \in Volts \union {TooHigh} : Called([op |-> "start", volts |-> v])
       \/ /\ call.op = "start" /\ ~ok /\ Called(ShutDown)
       \/ /\ call.op \in {"set", "check", "measure", "shutdown"} \/ (call.op = "start" /\ ok)
                \/ (call.op = "init" /\ ~ok)
          /\ call' = NoCall /\ UNCHANGED <<next, ok>>
    /\ ready' = (ready \/ (call.op = "start" /\ ok))
    /\ powerFault' = IF call = CheckCall THEN \E r \in Regulator : faultActive[r]
                     ELSE powerFault
    /\ UNCHANGED <<hardware, grace, handle, faultActive, measured, history, calls, errors, trips,
                   restarts>>

(* The regulators: an output comes up, or trips; it is warm, which doesn't  *)
(* turn it off; the grace time ends.                                        *)
ComeUp(r) ==
    /\ operation[r] /\ ~up[r] /\ up' = [up EXCEPT ![r] = TRUE]
    /\ UNCHANGED <<operation, vout, tripped, warm, limits, grace, software, history, calls, errors, trips,
                   restarts>>

Trip(r) ==
    /\ operation[r] /\ ~tripped[r] /\ tripped' = [tripped EXCEPT ![r] = TRUE]
    /\ trips < MaxTrips /\ trips' = trips + 1 /\ faulty' = faulty \union {r}
    /\ UNCHANGED <<operation, vout, up, warm, limits, grace, software, unread, tripping, calls, errors,
                   restarts>>

Warn(r) ==
    /\ operation[r] /\ ~warm[r] /\ warm' = [warm EXCEPT ![r] = TRUE]
    /\ trips < MaxTrips /\ trips' = trips + 1
    /\ UNCHANGED <<operation, vout, up, tripped, limits, grace, software, history, calls, errors, restarts>>

GraceEnds(r) ==
    /\ grace[r] /\ grace' = [grace EXCEPT ![r] = FALSE]
    /\ UNCHANGED <<hardware, software, history, calls, errors, trips, restarts>>

Restart ==
    /\ restarts < MaxRestarts /\ restarts' = restarts + 1
    /\ Called(InitCall) /\ handle' = NoneOf /\ powerFault' = FALSE
    /\ grace' = NoneOf /\ faultActive' = NoneOf /\ measured' = [r \in Regulator |-> Off]
    /\ result' = FALSE /\ ready' = FALSE
    /\ UNCHANGED <<hardware, history, calls, errors, trips>>

Next ==
    \/ \E c \in {s \in Setting : s.op = "set"} \union {CheckCall, MeasureCall} : Begin(c)
    \/ \E added, found, wrote, read \in BOOLEAN, written \in SUBSET Limits :
           InitOne(added, found, wrote, written, read)
    \/ \E done \in 0..4 : SetOne(done)
    \/ \E read, readDetails \in BOOLEAN : CheckOne(read, readDetails)
    \/ \E read \in BOOLEAN : MeasureOne(read)
    \/ Return \/ Restart
    \/ \E r \in Regulator : ComeUp(r) \/ Trip(r) \/ Warn(r) \/ GraceEnds(r)

Spec == Init /\ [][Next]_vars

---------------------------------------------------------------------------
(* An output is on within the limits of its voltage. Of the others, which   *)
(* only init writes, one whose write has failed is missing and nothing tells*)
(* of it: they are there when no transfer has failed.                       *)
OnWithinLimits ==
    \A r \in Regulator : operation[r] => "vout" \in limits[r] /\ (errors = 0 => limits[r] = Limits)

(* When setting a voltage succeeds, every regulator has it, and is off when *)
(* it was 0. None is ever on without the limits of the output, which init   *)
(* may have failed to write. The mean of outputs that were up and read is   *)
(* what they were set to. When a check has read every status, it shows a    *)
(* fault if one was there before, also of one that was just turned on, and  *)
(* none if all of them delivered all the time and none is warm.             *)
ReturnIsTrue ==
    /\ OnWithinLimits'
    /\ Return =>
      /\ call \in Setting \union {ShutDown} /\ result' =>
           \A r \in Regulator :
              IF call.volts = Off THEN ~operation[r]
              ELSE operation[r] /\ vout[r] = call.volts
      /\ call = MeasureCall /\ ~unread /\ faulty = {} =>
           \A v \in Volts : (\A r \in Regulator : vout[r] = v) => Mean = v
      /\ call = CheckCall /\ ~unread =>
           /\ tripping # {} => powerFault'
           /\ powerFault' => faulty # {} \/ \E r \in Regulator : warm[r]

PowerIsAsReported == [][ReturnIsTrue]_vars
=============================================================================

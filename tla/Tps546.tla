------------------------------- MODULE Tps546 --------------------------------
(***************************************************************************)
(* The core voltage regulator of a board that has one (main/power/TPS546.c)*)
(* behind an I2C bus where any transfer may fail. Its registers hold       *)
(* numbers in two formats, into which the settings are converted: SLINEAR11*)
(* (11 bits and an exponent of 5) and ULINEAR16 (16 bits with the exponent *)
(* in VOUT_MODE). Numbers are in units of 1/32768, as in the code's floats.*)
(***************************************************************************)
EXTENDS Integers, Sequences, TLC

CONSTANTS
    VoutMode,           \* of the device: exponent -9
    Garbage,            \* what an uninitialised byte may be
    Volts,              \* settings
    Phases,             \* of the stack
    Unknown,
    MaxErrors, MaxCalls, MaxFaults, MaxRestarts     \* bounds

One == 32768

(* TPS546_CONFIG and the TPS546_INIT values, in the order they are written; *)
(* left out are bytes and words that are written as they are, and the times *)
(* after TON_RISE.                                                          *)
Row(reg, format, value) == [reg |-> reg, format |-> format, value |-> value]
Limits ==
    <<Row("OV_FAULT", "ulinear", 40960), Row("OV_WARN", "ulinear", 38010), Row("MARGIN_HIGH", "ulinear", 36044),
      Row("MARGIN_LOW", "ulinear", 29491), Row("UV_WARN", "ulinear", 29491), Row("UV_FAULT", "ulinear", 24576)>>
VoutMin == One
VoutMax == 2 * One
Config ==
    <<Row("FREQUENCY", "int", 650 * One), Row("VIN_ON", "slinear", 157286), Row("VIN_OFF", "slinear", 147456),
      Row("VIN_OV", "slinear", 212992), Row("SCALE_LOOP", "slinear", 8192),
      Row("VOUT_COMMAND", "ulinear", 39321), Row("VOUT_MAX", "ulinear", VoutMax), Row("VOUT_MIN", "ulinear", VoutMin)>>
    \o Limits \o
    <<Row("OC_WARN", "slinear", 25 * One), Row("OC_FAULT", "slinear", 30 * One), Row("OT_WARN", "int", 105 * One),
      Row("OT_FAULT", "int", 125 * One), Row("TON_DELAY", "int", 0), Row("TON_RISE", "int", 3 * One)>>
Registers == {Config[i].reg : i \in DOMAIN Config}

VARIABLES
    regs,               \* device: the words of its registers
    operation, up,      \* device: OPERATION, and the output has come up
    faults,             \* device: "hard" (the output is off), "warm" (the warning, too), "cml", "busy"
    phase,              \* device: PHASE; 255 is all of them
    handle,             \* tps546_i2c_handle is set
    grace, powerFault,
    last,               \* last_vout
    step,               \* of the configuration; 0 before and after
    result,             \* what the last call returned
    wanted,             \* history: the numbers that were written; Unknown when the exponent was not read
    errors, calls, trips, restarts

device == <<regs, operation, up, faults, phase>>
software == <<handle, grace, powerFault, last, step, result>>
bounds == <<calls, trips, restarts>>
vars == <<device, software, wanted, errors, bounds>>

TypeOK ==
    /\ regs \in [Registers -> 0..65535] /\ faults \subseteq {"hard", "warm", "cml", "busy"}
    /\ {operation, up, handle, grace, powerFault, result} \subseteq BOOLEAN
    /\ phase \in 0..255 /\ step \in 0..(Len(Config) + 1)

---------------------------------------------------------------------------
Signed5(x) == IF x >= 16 THEN x - 32 ELSE x

slinear11_2_float(word) ==
    LET mantissa == (word % 1024) - (IF (word \div 1024) % 2 = 1 THEN 1024 ELSE 0)
    IN  mantissa * 2^(15 + Signed5(word \div 2048))

int_2_slinear11(value) ==
    LET n == value \div One
        fits == {i \in 0..15 : n \div 2^i < 1024}
        i == CHOOSE x \in fits : \A y \in fits : x <= y
    IN  IF fits = {} THEN 0 ELSE (i * 2048) + (n \div 2^i)

float_2_slinear11(value) ==
    LET large == {i \in 0..15 : value \div 2^(15 - i) >= 1024}
        i == CHOOSE x \in large : \A y \in large : x <= y
    IN  IF large = {} THEN 0 ELSE ((((33 - i) % 32) * 2048) + (value \div 2^(16 - i))) % 65536

ulinear16_2_float(word, mode) == word * 2^(15 + Signed5(mode))
float_2_ulinear16(value, mode) == (value \div 2^(15 + Signed5(mode))) % 65536

(* The mode is read anew for each conversion; the result of that transfer   *)
(* isn't looked at.                                                         *)
Modes(misread) == IF misread THEN Garbage ELSE {VoutMode}
Word(row, mode) ==
    CASE row.format = "int" -> int_2_slinear11(row.value)
      [] row.format = "slinear" -> float_2_slinear11(row.value)
      [] row.format = "ulinear" -> float_2_ulinear16(row.value, mode)

FailsIf(n) == errors + n <= MaxErrors /\ errors' = errors + n
Count(b) == IF b THEN 1 ELSE 0

---------------------------------------------------------------------------
Delivers == operation /\ up /\ "hard" \notin faults

Init ==
    /\ regs = [r \in Registers |-> 0] /\ operation = FALSE /\ up = FALSE /\ faults = {} /\ phase = 255
    /\ handle = FALSE /\ grace = FALSE /\ powerFault = FALSE /\ last = 0 /\ step = 0 /\ result = FALSE
    /\ wanted = [r \in Registers |-> Unknown] /\ errors = 0 /\ calls = 0 /\ trips = 0 /\ restarts = 0

(* TPS546_init: a device that doesn't answer ends it; whether it was turned *)
(* off isn't looked at.                                                     *)
InitDevice(found, wrote) ==
    /\ ~handle /\ FailsIf(Count(~found \/ ~wrote))
    /\ handle' = TRUE /\ step' = (IF found THEN 1 ELSE 0) /\ result' = FALSE
    /\ operation' = (operation /\ ~(found /\ wrote)) /\ up' = (up /\ ~(found /\ wrote))
    /\ UNCHANGED <<regs, faults, phase, grace, powerFault, last, wanted, bounds>>

(* TPS546_write_entire_config: one register after the other. A failure is   *)
(* not looked at, but for the limits, of which the rest is left out.        *)
AfterLimits == 1 + CHOOSE i \in DOMAIN Config : Config[i].reg = "UV_FAULT"
IsLimit(row) == \E i \in DOMAIN Limits : Limits[i] = row
WriteConfig(misread, wrote) ==
    /\ step > 0 /\ step \in DOMAIN Config
    /\ LET row == Config[step]
           known == row.format # "ulinear" \/ ~misread
       IN  /\ row.format # "ulinear" => ~misread
           /\ FailsIf(Count(misread) + Count(~wrote))
           /\ \E mode \in Modes(misread) : regs' = [regs EXCEPT ![row.reg] = IF wrote THEN Word(row, mode) ELSE @]
           /\ wanted' = [wanted EXCEPT ![row.reg] = IF ~wrote THEN @ ELSE IF known THEN row.value ELSE Unknown]
           /\ step' = IF ~wrote /\ IsLimit(row) THEN AfterLimits ELSE step + 1
    /\ UNCHANGED <<operation, up, faults, phase, handle, grace, powerFault, last, result, bounds>>

(* The end of TPS546_init: a register that has to be there, and the faults  *)
(* are cleared.                                                             *)
InitEnds(read, cleared) ==
    /\ step > 0 /\ step = Len(Config) + 1 /\ FailsIf(Count(~read \/ ~cleared)) /\ (~read => ~cleared)
    /\ step' = 0 /\ result' = read /\ faults' = IF cleared THEN {} ELSE faults
    /\ UNCHANGED <<regs, operation, up, phase, handle, grace, powerFault, last, wanted, bounds>>

(* A call once the device is set up.                                        *)
Called == handle /\ step = 0 /\ calls < MaxCalls /\ calls' = calls + 1
CalledAgain == Called /\ UNCHANGED <<handle, step, trips, restarts>>

(* TPS546_set_vout(0), and of a voltage out of range.                       *)
TurnOff(wrote) ==
    /\ CalledAgain /\ FailsIf(Count(~wrote)) /\ result' = wrote
    /\ operation' = (operation /\ ~wrote) /\ up' = (up /\ ~wrote) /\ grace' = (grace /\ ~wrote)
    /\ faults' = IF wrote THEN faults \ {"hard", "warm"} ELSE faults
    /\ UNCHANGED <<regs, phase, powerFault, last, wanted>>

(* TPS546_set_vout: the first "done" of the writes of VOUT_COMMAND, the      *)
(* limits and OPERATION, and of the read of OPERATION succeed; the exponent *)
(* of one of the numbers may be misread.                                    *)
VoutRows(volts) == <<Row("VOUT_COMMAND", "ulinear", volts)>> \o Limits
Transfers == Len(Limits) + 3

SetVout(volts, misread, done) ==
    LET ok == volts >= VoutMin /\ volts <= VoutMax
        rows == VoutRows(volts)
        written == {i \in DOMAIN rows : i <= done}
        registers == {rows[i].reg : i \in written}
        Of(r) == CHOOSE i \in written : rows[i].reg = r
        turnsOn == done > Len(rows)
    IN  /\ CalledAgain /\ done \in 0..(IF ok THEN Transfers ELSE 0) /\ (misread > 0 => misread \in written)
        /\ FailsIf(Count(misread > 0) + Count(ok /\ done < Transfers))
        /\ \E mode \in Modes(misread > 0) :
               regs' = [r \in registers |-> Word(rows[Of(r)], IF Of(r) = misread THEN mode ELSE VoutMode)] @@ regs
        /\ wanted' = [r \in registers |-> IF Of(r) = misread THEN Unknown ELSE rows[Of(r)].value] @@ wanted
        /\ operation' = (operation \/ turnsOn) /\ grace' = (grace \/ turnsOn)
        /\ result' = (ok /\ done = Transfers)
        /\ UNCHANGED <<up, faults, phase, powerFault, last>>

(* An output that is off isn't a fault yet.                                 *)
Waits(readOperation) ==
    /\ ~Delivers /\ grace /\ faults \intersect {"hard", "warm", "cml"} = {}
    /\ readOperation /\ operation

(* TPS546_parse_status reads more registers, unless the device is busy.     *)
Parsed(readDetails) == readDetails \/ "busy" \in faults

(* TPS546_check_status: a new fault is recorded when it could be parsed. The*)
(* bit of the temperature is one, also when it is a warning.                *)
Faulty == ~Delivers \/ faults \intersect {"hard", "warm"} # {}
CheckStatus(read, readOperation, readDetails) ==
    LET waits == Waits(readOperation)
        new == Faulty /\ ~waits /\ ~powerFault
    IN  /\ CalledAgain
        /\ FailsIf(Count(~read) + Count(read /\ ~readOperation) + Count(read /\ ~readDetails))
        /\ powerFault' = IF ~read \/ waits THEN powerFault ELSE IF new THEN Parsed(readDetails) ELSE Faulty
        /\ result' = (read /\ (new => Parsed(readDetails)))
        /\ UNCHANGED <<device, grace, last, wanted>>

(* TPS546_get_vout: a reading that fails repeats the last one.              *)
GetVout(read, misread) ==
    /\ CalledAgain /\ FailsIf(Count(~read \/ misread)) /\ (misread => read)
    /\ \E mode \in Modes(misread) :
           last' = IF read THEN ulinear16_2_float(IF Delivers THEN regs["VOUT_COMMAND"] ELSE 0, mode) ELSE last
    /\ UNCHANGED <<device, grace, powerFault, result, wanted>>

(* TPS546_check_phase_currents: PHASE is set to one phase after the other,  *)
(* of which the first "good" can be read and deliver, and then back.        *)
CheckPhases(read, good, restored) ==
    LET at == {IF good = 0 THEN phase ELSE good - 1, IF good < Phases THEN good ELSE good - 1}
    IN  /\ CalledAgain /\ good \in 0..Phases /\ (~read => good = 0 /\ restored)
        /\ FailsIf(Count(~read) + Count(~restored))
        /\ phase' \in (IF restored THEN {phase} ELSE at)
        /\ result' = (read /\ good = Phases /\ restored)
        /\ UNCHANGED <<regs, operation, up, faults, grace, powerFault, last, wanted>>

---------------------------------------------------------------------------
(* The device: its output comes up, a fault (one during the configuration   *)
(* is cleared at its end), the grace time ends.                             *)
ComeUp ==
    /\ operation /\ ~up /\ up' = TRUE
    /\ UNCHANGED <<regs, operation, faults, phase, software, wanted, errors, bounds>>

Fault(f) ==
    /\ step = 0 /\ f \notin faults /\ trips < MaxFaults /\ trips' = trips + 1 /\ faults' = faults \union {f}
    /\ UNCHANGED <<regs, operation, up, phase, software, wanted, errors, calls, restarts>>

GraceEnds ==
    /\ grace /\ grace' = FALSE
    /\ UNCHANGED <<device, handle, powerFault, last, step, result, wanted, errors, bounds>>

Restart ==
    /\ restarts < MaxRestarts /\ restarts' = restarts + 1
    /\ handle' = FALSE /\ grace' = FALSE /\ powerFault' = FALSE /\ last' = 0 /\ step' = 0 /\ result' = FALSE
    /\ UNCHANGED <<device, wanted, errors, calls, trips>>

Next ==
    \/ \E a, b \in BOOLEAN : InitDevice(a, b) \/ WriteConfig(a, b) \/ InitEnds(a, b) \/ GetVout(a, b)
    \/ \E a \in BOOLEAN : TurnOff(a)
    \/ Called /\ \E v \in Volts, n \in 0..Transfers : \E k \in 0..n : SetVout(v, k, n)
    \/ \E a, b, c \in BOOLEAN : CheckStatus(a, b, c)
    \/ \E a, b \in BOOLEAN, n \in 0..Phases : CheckPhases(a, n, b)
    \/ ComeUp \/ GraceEnds \/ Restart
    \/ \E f \in {"hard", "warm", "cml", "busy"} : Fault(f)

Spec == Init /\ [][Next]_vars

---------------------------------------------------------------------------
(* The device reads a register as the number that was to be written, not    *)
(* above it and next to it, whatever failed between.                        *)
Meant(r) ==
    IF \E i \in DOMAIN Config : Config[i].reg = r /\ Config[i].format = "ulinear"
    THEN ulinear16_2_float(regs[r], VoutMode) ELSE slinear11_2_float(regs[r])
IsMeant(r) == wanted[r] # Unknown =>
    LET meant == Meant(r) IN meant <= wanted[r] /\ wanted[r] - meant <= 64 + (wanted[r] \div 512)

(* A voltage that could be set is there unless its exponent was misread; a  *)
(* check that could be made shows a hard fault, and a warning of the        *)
(* temperature, but no other fault of an output that is up.                 *)
CallIsTrue ==
    /\ \A r \in DOMAIN regs : regs'[r] # regs[r] => IsMeant(r)'
    /\ calls' # calls /\ result' =>
         /\ \A v \in Volts : SetVout(v, 0, Transfers) => operation' /\ wanted'["VOUT_COMMAND"] = v
         /\ powerFault' # powerFault => (IF powerFault' THEN ~Delivers \/ "warm" \in faults ELSE faults \intersect {"hard", "warm"} = {})
         /\ CheckStatus(TRUE, TRUE, TRUE) => (faults \intersect {"hard", "warm"} # {} => powerFault')

RegulatorIsAsReported == [][CallIsTrue]_vars
=============================================================================

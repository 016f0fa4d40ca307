----------------------- MODULE PowerManagementProofs ------------------------
(***************************************************************************)
(* Proofs about PowerManagement, for all voltages, frequencies and bounds: *)
(* the types, and that whoever stops mining has the voltage and the serial *)
(* line to himself (StoppedIsOff, UartIsQuiet).                            *)
(***************************************************************************)
EXTENDS PowerManagement, TLAPS

---------------------------------------------------------------------------
(* Types                                                                    *)

(* The types hold at first.                                                 *)
LEMMA TypeInit == Init => TypeOK
<1> SUFFICES ASSUME Init PROVE TypeOK
  OBVIOUS
<1>1. FlagsOK
  BY Zenon DEF Init, FlagsOK
<1>2. DataOK
  BY PowerAssumption DEF Init, DataOK, Nothing, Off, Idle
<1>3. ControlOK
  BY DEF Init, ControlOK, Tasks
<1> QED
  BY <1>1, <1>2, <1>3 DEF TypeOK

(* The flags but the two of the history.                                    *)
Switches ==
    /\ paused \in BOOLEAN /\ unavailable \in BOOLEAN /\ fault \in BOOLEAN
    /\ overheat \in BOOLEAN /\ isPaused \in BOOLEAN
    /\ hot \in BOOLEAN /\ overheated \in BOOLEAN /\ initialized \in BOOLEAN
    /\ released \in BOOLEAN /\ answering \in BOOLEAN /\ sending \in BOOLEAN

(* A flag is set, cleared, or computed from flags.                          *)
LEMMA SwitchStep == Switches /\ Step => Switches'
<1> USE DEF Switches, reasons, settings, temps, task, applied, module, board, counters
<1>1. Switches /\ Look => Switches'
  BY Zenon DEF Look
<1>2. Switches /\ Check => Switches'
  BY Zenon DEF Check
<1>3. Switches /\ Overheat => Switches'
  BY Zenon DEF Overheat
<1>4. Switches /\ RampDown => Switches'
  BY Zenon DEF RampDown
<1>5. Switches /\ CutPower => Switches'
  BY Zenon DEF CutPower
<1>6. Switches /\ MarkUninitialized => Switches'
  BY Zenon DEF MarkUninitialized
<1>7. Switches /\ Drain => Switches'
  BY Zenon DEF Drain
<1>8. Switches /\ CoolOn => Switches'
  BY Zenon DEF CoolOn
<1>9. Switches /\ CoolEnough => Switches'
  BY Zenon DEF CoolEnough
<1>10. Switches /\ RestoreVoltage => Switches'
  BY Zenon DEF RestoreVoltage
<1>11. Switches /\ InitFrequency => Switches'
  BY Zenon DEF InitFrequency
<1>12. Switches /\ Started => Switches'
  BY Zenon DEF Started
<1>13. Switches /\ ApplySettings => Switches'
  BY Zenon DEF ApplySettings
<1>14. Switches /\ BeginInit => Switches'
  BY Zenon DEF BeginInit
<1>15. Switches /\ EndInit => Switches'
  BY Zenon DEF EndInit
<1>16. Switches /\ FanFails => Switches'
  BY Zenon DEF FanFails
<1>17. Switches /\ Send => Switches'
  BY Zenon DEF Send
<1>18. Switches /\ Sent => Switches'
  BY Zenon DEF Sent
<1>19. Switches /\ FlipReason => Switches'
  BY Zenon DEF FlipReason
<1>20. Switches /\ EditSettings => Switches'
  BY Zenon DEF EditSettings
<1>21. Switches /\ HeatUp => Switches'
  BY Zenon DEF HeatUp
<1>22. Switches /\ CoolDown => Switches'
  BY Zenon DEF CoolDown
<1>23. ASSUME Switches, NEW t \in Tasks, ResetChip(t) PROVE Switches'
  BY <1>23, Zenon DEF ResetChip
<1>24. ASSUME Switches, NEW t \in Tasks, Detect(t) PROVE Switches'
  BY <1>24, Zenon DEF Detect
<1>25. ASSUME Switches, NEW t \in Tasks, DetectFails(t) PROVE Switches'
  BY <1>25, Zenon DEF DetectFails
<1>26. ASSUME Switches, NEW t \in Tasks, Ready(t) PROVE Switches'
  BY <1>26, Zenon DEF Ready
<1> QED
  BY <1>1, <1>2, <1>3, <1>4, <1>5, <1>6, <1>7, <1>8, <1>9, <1>10, <1>11, <1>12, <1>13,
     <1>14, <1>15, <1>16, <1>17, <1>18, <1>19, <1>20, <1>21, <1>22, <1>23, <1>24, <1>25, <1>26, Zenon
     DEF Step, PmStep, InitStep, MainStep, EnvStep, Tasks

(* The numbers and program counters keep their types.                       *)
LEMMA DataStep == DataOK /\ Step => DataOK'
<1> USE PowerAssumption DEF DataOK, Off, Idle, reasons, settings, temps, task, applied,
        module, board, counters
<1>1. DataOK /\ Look => DataOK'
  BY DEF Look, Stopping, Starting
<1>2. DataOK /\ Check => DataOK'
  BY DEF Check
<1>3. DataOK /\ Overheat => DataOK'
  BY DEF Overheat, Stopping
<1>4. DataOK /\ RampDown => DataOK'
  BY DEF RampDown, RampTo, Stopping
<1>5. DataOK /\ CutPower => DataOK'
  BY DEF CutPower, Stopping
<1>6. DataOK /\ MarkUninitialized => DataOK'
  BY DEF MarkUninitialized, Stopping
<1>7. DataOK /\ Drain => DataOK'
  BY DEF Drain
<1>8. DataOK /\ CoolOn => DataOK'
  BY DEF CoolOn, CyclesAfter
<1>9. DataOK /\ CoolEnough => DataOK'
  BY DEF CoolEnough, Starting, Nothing, ReducedVoltage, ReducedFrequency, Reduction, Larger
<1>10. DataOK /\ RestoreVoltage => DataOK'
  BY DEF RestoreVoltage, Starting
<1>11. DataOK /\ InitFrequency => DataOK'
  BY DEF InitFrequency, Starting, Tasks
<1>12. DataOK /\ Started => DataOK'
  BY DEF Started
<1>13. DataOK /\ ApplySettings => DataOK'
  BY DEF ApplySettings, RampTo
<1>14. DataOK /\ BeginInit => DataOK'
  <2>1. BeginInit => init' = [init EXCEPT !["main"] = "reset"] /\ main' = "init"
    BY DEF BeginInit, Advance
  <2>2. DataOK /\ BeginInit =>
          init' \in [Tasks -> {"none", "reset", "detect", "ready", "ok", "failed"}]
    BY <2>1 DEF Tasks
  <2> QED
    BY <2>1, <2>2 DEF BeginInit
<1>15. DataOK /\ EndInit => DataOK'
  BY DEF EndInit, Advance, Tasks
<1>16. DataOK /\ FanFails => DataOK'
  BY DEF FanFails
<1>17. DataOK /\ Send => DataOK'
  BY DEF Send
<1>18. DataOK /\ Sent => DataOK'
  BY DEF Sent
<1>19. DataOK /\ FlipReason => DataOK'
  BY DEF FlipReason
<1>20. DataOK /\ EditSettings => DataOK'
  <2>1. EditSettings => volt' \in Volts \cup {volt} /\ freq' \in Freqs \cup {freq}
    BY DEF EditSettings
  <2>2. DataOK /\ EditSettings => volt' \in Nat \ {Off} /\ freq' \in Nat \ {Idle}
    BY <2>1
  <2> QED
    BY <2>2 DEF EditSettings
<1>21. DataOK /\ HeatUp => DataOK'
  BY DEF HeatUp
<1>22. DataOK /\ CoolDown => DataOK'
  BY DEF CoolDown
<1>23. ASSUME DataOK, NEW t \in Tasks, ResetChip(t) PROVE DataOK'
  BY <1>23 DEF ResetChip, Advance
<1>24. ASSUME DataOK, NEW t \in Tasks, Detect(t) PROVE DataOK'
  BY <1>24 DEF Detect, Advance
<1>25. ASSUME DataOK, NEW t \in Tasks, DetectFails(t) PROVE DataOK'
  BY <1>25 DEF DetectFails, Advance
<1>26. ASSUME DataOK, NEW t \in Tasks, Ready(t) PROVE DataOK'
  BY <1>26 DEF Ready, Advance
<1> QED
  BY <1>1, <1>2, <1>3, <1>4, <1>5, <1>6, <1>7, <1>8, <1>9, <1>10, <1>11, <1>12, <1>13,
     <1>14, <1>15, <1>16, <1>17, <1>18, <1>19, <1>20, <1>21, <1>22, <1>23, <1>24, <1>25, <1>26, Zenon
     DEF Step, PmStep, InitStep, MainStep, EnvStep, Tasks

(* Each of the two calls asic_initialize() where its program counter says.  *)
LEMMA ControlStep == DataOK /\ ControlOK /\ Step => ControlOK'
<1> USE DEF DataOK, ControlOK, Tasks, Stopping, Starting, reasons, settings, temps, task,
        applied, module, board, counters
<1>1. DataOK /\ ControlOK /\ Look => ControlOK'
  BY DEF Look
<1>2. DataOK /\ ControlOK /\ Check => ControlOK'
  BY DEF Check
<1>3. DataOK /\ ControlOK /\ Overheat => ControlOK'
  BY DEF Overheat
<1>4. DataOK /\ ControlOK /\ RampDown => ControlOK'
  BY DEF RampDown
<1>5. DataOK /\ ControlOK /\ CutPower => ControlOK'
  BY DEF CutPower
<1>6. DataOK /\ ControlOK /\ MarkUninitialized => ControlOK'
  BY DEF MarkUninitialized
<1>7. DataOK /\ ControlOK /\ Drain => ControlOK'
  BY DEF Drain
<1>8. DataOK /\ ControlOK /\ CoolOn => ControlOK'
  BY DEF CoolOn
<1>9. DataOK /\ ControlOK /\ CoolEnough => ControlOK'
  BY DEF CoolEnough
<1>10. DataOK /\ ControlOK /\ RestoreVoltage => ControlOK'
  BY DEF RestoreVoltage
<1>11. DataOK /\ ControlOK /\ InitFrequency => ControlOK'
  BY DEF InitFrequency
<1>12. DataOK /\ ControlOK /\ Started => ControlOK'
  BY DEF Started
<1>13. DataOK /\ ControlOK /\ ApplySettings => ControlOK'
  BY DEF ApplySettings
<1>14. DataOK /\ ControlOK /\ BeginInit => ControlOK'
  BY DEF BeginInit, Advance
<1>15. DataOK /\ ControlOK /\ EndInit => ControlOK'
  BY DEF EndInit, Advance
<1>16. DataOK /\ ControlOK /\ FanFails => ControlOK'
  BY DEF FanFails
<1>17. DataOK /\ ControlOK /\ Send => ControlOK'
  BY DEF Send
<1>18. DataOK /\ ControlOK /\ Sent => ControlOK'
  BY DEF Sent
<1>19. DataOK /\ ControlOK /\ FlipReason => ControlOK'
  BY DEF FlipReason
<1>20. DataOK /\ ControlOK /\ EditSettings => ControlOK'
  BY DEF EditSettings
<1>21. DataOK /\ ControlOK /\ HeatUp => ControlOK'
  BY DEF HeatUp
<1>22. DataOK /\ ControlOK /\ CoolDown => ControlOK'
  BY DEF CoolDown
<1>23. ASSUME DataOK, ControlOK, NEW t \in Tasks, ResetChip(t) PROVE ControlOK'
  BY <1>23 DEF ResetChip, Advance
<1>24. ASSUME DataOK, ControlOK, NEW t \in Tasks, Detect(t) PROVE ControlOK'
  BY <1>24 DEF Detect, Advance
<1>25. ASSUME DataOK, ControlOK, NEW t \in Tasks, DetectFails(t) PROVE ControlOK'
  BY <1>25 DEF DetectFails, Advance
<1>26. ASSUME DataOK, ControlOK, NEW t \in Tasks, Ready(t) PROVE ControlOK'
  BY <1>26 DEF Ready, Advance
<1> QED
  BY <1>1, <1>2, <1>3, <1>4, <1>5, <1>6, <1>7, <1>8, <1>9, <1>10, <1>11, <1>12, <1>13,
     <1>14, <1>15, <1>16, <1>17, <1>18, <1>19, <1>20, <1>21, <1>22, <1>23, <1>24, <1>25, <1>26, Zenon
     DEF Step, PmStep, InitStep, MainStep, EnvStep, Tasks

(* Every step keeps the types, its note in the history included.            *)
LEMMA TypeStep == TypeOK /\ [Next]_vars => TypeOK'
<1> SUFFICES ASSUME TypeOK, [Next]_vars PROVE TypeOK'
  OBVIOUS
<1>1. CASE Noted(Step)
  <2>1. Switches'
    BY <1>1, SwitchStep, Zenon DEF TypeOK, FlagsOK, Switches, Noted
  <2>2. DataOK' /\ ControlOK'
    BY <1>1, DataStep, ControlStep DEF TypeOK, Noted
  <2>3. raced' \in BOOLEAN /\ missed' \in BOOLEAN
    BY <1>1, Zenon DEF Noted
  <2> QED
    BY <2>1, <2>2, <2>3, Zenon DEF TypeOK, FlagsOK, Switches
<1>2. CASE UNCHANGED vars
  <2> USE <1>2 DEF vars, reasons, settings, temps, task, applied, module, board, counters
  <2>1. FlagsOK'
    <3>1. FlagsOK
      BY DEF TypeOK
    <3> QED
      BY <3>1, ZenonT(30) DEF FlagsOK
  <2>2. DataOK' /\ ControlOK'
    BY DEF TypeOK, DataOK, ControlOK
  <2> QED
    BY <2>1, <2>2 DEF TypeOK
<1> QED
  BY <1>1, <1>2 DEF Next

(* MAIN THEOREM 1: every variable keeps its type, and each task is in       *)
(* asic_initialize() exactly where its program counter says so.             *)
THEOREM TypeCorrect == Spec => []TypeOK
  BY TypeInit, TypeStep, PTL DEF Spec

---------------------------------------------------------------------------
(* Voltage and serial line                                                  *)

(* The chips are without voltage from the moment it is cut until the task   *)
(* restores it.                                                             *)
Paused == pc = "top" /\ isPaused
Unpowered == pc \in {"mark", "drain", "cool", "volt"} \/ Paused

(* From the end of the stop until the task has found its chips.             *)
Finding == pc = "init" /\ init["pm"] \in {"reset", "detect", "ready"}
Stopped == pc \in {"cool", "volt", "freq"} \/ Paused \/ Finding

(* Unless a stop or start fell into app_main's initialisation, nobody marks *)
(* the chips as initialised and nobody uses the serial line.                *)
PowerInv ==
    /\ isPaused => pc \in {"top", "volt", "freq", "init"}
    /\ Unpowered => vcore = Off
    /\ ~raced /\ main = "init" => pc \notin Stopping \cup Starting
    /\ ~raced /\ (Stopped \/ pc = "drain") => ~initialized /\ init["main"] # "ready"
    /\ ~raced /\ Stopped => ~sending

(* Every step keeps it: a stop or start that falls into app_main's          *)
(* initialisation is noted in raced.                                        *)
LEMMA PowerStep ==
    ASSUME TypeOK, PowerInv, Step, ~raced' => ~raced /\ ~Races PROVE PowerInv'
<1> USE DEF PowerInv, Paused, Unpowered, Finding, Stopped, Stopping, Starting, TypeOK, ControlOK,
        Tasks, Races, reasons, settings, temps, task, applied, module, board, counters
<1>0. init \in [Tasks -> {"none", "reset", "detect", "ready", "ok", "failed"}] /\ Off = 0
  BY DEF DataOK, Off
<1> USE <1>0
<1>1. Look => PowerInv'
  BY DEF Look
<1>2. Check => PowerInv'
  BY DEF Check
<1>3. Overheat => PowerInv'
  BY DEF Overheat
<1>4. RampDown => PowerInv'
  BY DEF RampDown
<1>5. CutPower => PowerInv'
  BY DEF CutPower
<1>6. MarkUninitialized => PowerInv'
  BY DEF MarkUninitialized
<1>7. ASSUME Drain PROVE PowerInv'
  <2>1. /\ pc = "drain" /\ pc' \in {"cool", "top"} /\ ~sending
        /\ UNCHANGED <<vcore, initialized, init, main, sending>>
    BY <1>7 DEF Drain
  <2>2. isPaused' => pc' = "top" \/ isPaused
    BY <1>7, Zenon DEF Drain
  <2> QED
    BY <2>1, <2>2
<1>8. CoolOn => PowerInv'
  BY DEF CoolOn
<1>9. CoolEnough => PowerInv'
  BY DEF CoolEnough
<1>10. RestoreVoltage => PowerInv'
  BY DEF RestoreVoltage
<1>11. InitFrequency => PowerInv'
  BY DEF InitFrequency
<1>12. Started => PowerInv'
  BY DEF Started
<1>13. ApplySettings => PowerInv'
  BY DEF ApplySettings
<1>14. BeginInit => PowerInv'
  BY DEF BeginInit, Advance
<1>15. EndInit => PowerInv'
  BY DEF EndInit, Advance
<1>16. FanFails => PowerInv'
  BY DEF FanFails
<1>17. Send => PowerInv'
  BY DEF Send
<1>18. Sent => PowerInv'
  BY DEF Sent
<1>19. FlipReason => PowerInv'
  BY DEF FlipReason
<1>20. EditSettings => PowerInv'
  BY DEF EditSettings
<1>21. HeatUp => PowerInv'
  BY DEF HeatUp
<1>22. CoolDown => PowerInv'
  BY DEF CoolDown
<1>23. ASSUME NEW t \in Tasks, ResetChip(t) PROVE PowerInv'
  BY <1>23 DEF ResetChip, Advance
<1>24. ASSUME NEW t \in Tasks, Detect(t) PROVE PowerInv'
  BY <1>24 DEF Detect, Advance
<1>25. ASSUME NEW t \in Tasks, DetectFails(t) PROVE PowerInv'
  BY <1>25 DEF DetectFails, Advance
<1>26. ASSUME NEW t \in Tasks, Ready(t) PROVE PowerInv'
  BY <1>26 DEF Ready, Advance
<1> QED
  BY <1>1, <1>2, <1>3, <1>4, <1>5, <1>6, <1>7, <1>8, <1>9, <1>10, <1>11, <1>12, <1>13,
     <1>14, <1>15, <1>16, <1>17, <1>18, <1>19, <1>20, <1>21, <1>22, <1>23, <1>24, <1>25, <1>26, Zenon
     DEF Step, PmStep, InitStep, MainStep, EnvStep

(* The inductive invariant holds at first, and every step keeps it.         *)
LEMMA PowerInvariant == Spec => [](TypeOK /\ PowerInv)
<1>1. Init => PowerInv
  BY DEF Init, PowerInv, Paused, Unpowered, Finding, Stopped, Stopping, Starting
<1>2. TypeOK /\ PowerInv /\ [Next]_vars => PowerInv'
  <2>1. Next => Step /\ (~raced' => ~raced /\ ~Races)
    BY Zenon DEF Next, Noted
  <2>2. PowerInv /\ UNCHANGED vars => PowerInv'
    BY DEF PowerInv, Paused, Unpowered, Finding, Stopped, vars, reasons, settings, temps,
         task, applied, module, board, counters
  <2> QED
    BY <2>1, <2>2, PowerStep
<1> QED
  BY <1>1, <1>2, TypeInit, TypeStep, PTL DEF Spec

(* MAIN THEOREM 2: while mining is stopped the chips have no voltage and    *)
(* are not marked as initialised, so that nobody sends to them.             *)
THEOREM StoppedMeansOff == Spec => []StoppedIsOff
<1>1. TypeOK /\ PowerInv => StoppedIsOff
  BY DEF PowerInv, Paused, Unpowered, Stopped, StoppedIsOff
<1> QED
  BY <1>1, PowerInvariant, PTL

(* MAIN THEOREM 3: while the task finds its chips again, nobody else is in  *)
(* the middle of an operation on the serial line.                           *)
THEOREM UartIsFree == Spec => []UartIsQuiet
<1>1. TypeOK /\ PowerInv => UartIsQuiet
  BY DEF TypeOK, ControlOK, PowerInv, Stopped, Finding, UartIsQuiet
<1> QED
  BY <1>1, PowerInvariant, PTL
=============================================================================

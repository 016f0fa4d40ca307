------------------------------ MODULE Services ------------------------------
(***************************************************************************)
(* The parts of the firmware beside mining and the settings, which do not  *)
(* interact with each other: each is checked by itself, in the behaviours  *)
(* with its name in "part". This module has the parts that proofs are      *)
(* about, for any values of their constants; MCServices adds the others.   *)
(***************************************************************************)
EXTENDS Integers, Sequences

CONSTANTS
    \* difficulty controller
    Tasks, MinPower, MaxPower, ResetPower, Grace, MaxTime, DifficultyChanges,
    \* scoreboard
    Size, MaxDifficulty, MaxShares, ScoreRestarts,
    \* firmware update
    Builds, MaxQueue, MaxUploads, UpdateRestarts,
    \* WiFi
    MaxEvents, MaxClients, MaxScans, MaxDrops,
    \* accessory
    QueueLen, BapInterval, SubscriptionTime, BapChanges, MaxCommands,
    BapRestarts,
    \* screen
    LogoTime, CarouselTime, WakeTime, DisplayTimeout, IdentifyTime,
    ScreenChanges,
    \* self test
    Domains, ExpectedRate, Rates, NeededHashes, TestPowers, StartPower,
    TestRounds, MaxNonces, TestErrors, MaxStarts,
    \* hashrate monitor
    Width, Burst, HashTime, MaxStops,
    \* statistics history
    HistorySize, Frequencies, MaxResponse, HistoryTime, MaxResponses, HistoryEdits,
    \* share statistics
    Reasons, TableSize, SessionShares, MaxSessions,
    \* log buffer
    RingSize, Chunk, StdoutChunk, Scan, RestartLine, MaxLine, MaxWritten, LogRestarts,
    \* clients of the web interface
    Fds, ClientSlots, NoClient, DeviceChanges, MaxConnections, SendErrors,
    \* fan controller
    FanFull, FanIdle, FanStartup, FanErrors, FanEdits, FanRestarts,
    \* temperature sensors, PID and tachometers
    Temperatures, TempTargets, Minima, FanSpeeds, HeatMoves, PidCycles, ReadErrors,
    \* chips and serial line
    Drivers, Chips, SlotCount, SlotCount1397, Attempts, ClockTargets, Masks,
    MaxJobs, MaxFrames, ChainStops, ChainErrors,
    \* lines of a Stratum V1 pool
    PoolSettings, LongestLine, PieceSize, TimingSlots, RollingBits, PoolMasks,
    TopDifficulty, NothingSaid, LinesAhead, MaxLines, LineShares, LineSessions

VARIABLES part,
    initialized, pool, byHashrate, current, pending, since, chip, apply, due,
    now, changes, overlapped, kept, entries, queue, flash, turnedAway, shares,
    restarts, slots, boot, running, www, mounted, cache, apMode, handler,
    updating, hurried, uploads, link, events, waiting, armed, isConnected, ap,
    byHand, isScanning, scan, clients, gaveUp, joins, leaves, scans, drops,
    connected, started, value, active, age, lastValue, valid, mutex, outgoing,
    previous, rebooting, believes, view, settled, lost, overtaken, commands,
    large, setting, reports, panel, display, identify, quiet, flag, cached,
    best, defects, step, factory, finished, result, pressed, volts, pm, retune,
    power, nonce, measuring, target, hashes, round, counter, average, nonces,
    errors, starts, worth, heated, cleared, offFailed, raised, alive, noisy,
    tuned, powerFault, was, mpc, answer, late, measurement, seen, stops,
    frequency, buffer, last, response, fastest, slowest, lastShares, counting,
    row, heard, raced, rows, edits, v2, locked, open, seq, resolved, submitted,
    accepted, rejected, shown, reasons, rpc, rLocal, spc, sLocal, left, reason,
    arriving, batch, answers, good, bad, refused, sessions, ring, total,
    stdoutPos, dropped, printed, start, viewerPos, torn, device, conns, table,
    server, api, baseline, logFds, closing, joining, unsure, leaked,
    connections, mode, auto, manual, min, limit, automatic, output, percent,
    fan, fault, speedSet, board, heat, diode, powered, turn, highByte, temps,
    filtered, pid, outputMin, goal, speed, earlier, actual, source, former,
    computed, lowByte, turned, lowTurn, shownBy, moves, cycles, driver, phase,
    attempt, counted, chain, packet, rx, reading, currentMask, hostBaud,
    silent, jobs, pc, uid, ids, buf, conn, info, work, sender, timing, stream,
    meant, timed, counts, early, lines

Difficulty == INSTANCE DifficultyController WITH MaxChanges <- DifficultyChanges
Best == INSTANCE Scoreboard WITH MaxRestarts <- ScoreRestarts
Update == INSTANCE FirmwareUpdate WITH
        Firmware <- Builds, MaxRestarts <- UpdateRestarts
Wifi == INSTANCE WifiConnection
Bap == INSTANCE Accessory WITH
        Interval <- BapInterval, Timeout <- SubscriptionTime,
        MaxChanges <- BapChanges, MaxRestarts <- BapRestarts
Display == INSTANCE Screen WITH
        Timeout <- DisplayTimeout, MaxChanges <- ScreenChanges
Test == INSTANCE SelfTest WITH
        Expected <- ExpectedRate, Needed <- NeededHashes, MaxPower <- TestPowers,
        MaxRounds <- TestRounds, MaxErrors <- TestErrors
Rate == INSTANCE HashrateMonitor WITH MaxTime <- HashTime
History == INSTANCE StatisticsHistory WITH
        Size <- HistorySize, MaxTime <- HistoryTime, MaxEdits <- HistoryEdits
Shares == INSTANCE ShareAccounting WITH MaxShares <- SessionShares
Log == INSTANCE LogBuffer WITH Size <- RingSize, MaxRestarts <- LogRestarts
Browsers == INSTANCE Websocket WITH
        Slots <- ClientSlots, None <- NoClient, MaxChanges <- DeviceChanges,
        MaxErrors <- SendErrors
Cooling == INSTANCE FanController WITH
        Full <- FanFull, Idle <- FanIdle, Startup <- FanStartup,
        MaxErrors <- FanErrors, MaxEdits <- FanEdits, MaxRestarts <- FanRestarts
Sensors == INSTANCE Thermal WITH
        Targets <- TempTargets, Speeds <- FanSpeeds, MaxMoves <- HeatMoves,
        MaxCycles <- PidCycles, MaxErrors <- ReadErrors
Chain == INSTANCE AsicChain WITH
        Targets <- ClockTargets, MaxStops <- ChainStops, MaxErrors <- ChainErrors
Lines == INSTANCE V1Messages WITH
        Settings <- PoolSettings, Longest <- LongestLine, Piece <- PieceSize,
        Slots <- TimingSlots, Rolling <- RollingBits, Masks <- PoolMasks,
        MaxDifficulty <- TopDifficulty, None <- NothingSaid, Ahead <- LinesAhead,
        MaxShares <- LineShares, MaxSessions <- LineSessions

(* The part that is checked begins and moves as its module says.            *)
PartsInit ==
    /\ part = "difficulty" => Difficulty!Init
    /\ part = "scoreboard" => Best!Init
    /\ part = "update" => Update!Init
    /\ part = "wifi" => Wifi!Init
    /\ part = "accessory" => Bap!Init
    /\ part = "screen" => Display!Init
    /\ part = "test" => Test!Init
    /\ part = "hashrate" => Rate!Init
    /\ part = "history" => History!Init
    /\ part = "shares" => Shares!Init
    /\ part = "log" => Log!Init
    /\ part = "clients" => Browsers!Init
    /\ part = "fans" => Cooling!Init
    /\ part = "sensors" => Sensors!Init
    /\ part = "chain" => Chain!Init
    /\ part = "lines" => Lines!Init

PartsNext ==
    /\ part' = part
    /\ part = "difficulty" => Difficulty!Next
    /\ part = "scoreboard" => Best!Next
    /\ part = "update" => Update!Next
    /\ part = "wifi" => Wifi!Next
    /\ part = "accessory" => Bap!Next
    /\ part = "screen" => Display!Next
    /\ part = "test" => Test!Next
    /\ part = "hashrate" => Rate!Next
    /\ part = "history" => History!Next
    /\ part = "shares" => Shares!Next
    /\ part = "log" => Log!Next
    /\ part = "clients" => Browsers!Next
    /\ part = "fans" => Cooling!Next
    /\ part = "sensors" => Sensors!Next
    /\ part = "chain" => Chain!Next
    /\ part = "lines" => Lines!Next

partsVars ==
    <<part, Difficulty!vars, Best!vars, Update!vars, Wifi!vars, Bap!vars, Display!vars,
      Test!vars, Rate!vars, History!vars, Shares!vars, Log!vars,
      Browsers!vars, Cooling!vars, Sensors!vars, Chain!vars, Lines!vars>>

PartsSpec == PartsInit /\ [][PartsNext]_partsVars

---------------------------------------------------------------------------
(* The properties are stated, and explained, in the modules of the parts.  *)

(* The chips report every share the pool wants.                            *)
DifficultyFits == part = "difficulty" => Difficulty!DifficultyFits

(* The best shares are listed, each with a slot of its own it is saved in. *)
BestAreListedAndSaved == part = "scoreboard" => Best!BestAreListedAndSaved

(* The web interface served belongs to the firmware that runs.             *)
InterfaceMatchesFirmware == part = "update" => Update!InterfaceMatchesFirmware

(* The station is connected or on its way, and says so.                    *)
NetworkIsKept == part = "wifi" => Wifi!NetworkIsKept

(* The accessory knows every value it subscribed to, or gave it up.        *)
AccessoryIsServed == part = "accessory" => Bap!AccessoryIsServed

(* The display shows the most important report, and rests otherwise.       *)
ScreenIsRight == part = "screen" => Display!ScreenIsRight

(* A self test that passes was earned, and one that failed is done again.  *)
SelfTestIsHonest == part = "test" => Test!SelfTestIsHonest

(* The hashrate never exceeds what the chip can do, a row of the statistics *)
(* has the extremes of its interval, a fan that does not turn as reported   *)
(* is a fault, and temperatures and fan speeds are what the sensors see.    *)
MeasurementsAreTrue ==
    /\ part = "hashrate" => Rate!HashrateIsPlausible
    /\ part = "history" => History!HistoryIsKept
    /\ part = "fans" => Cooling!FansAreAsReported
    /\ part = "sensors" => Sensors!CoolingIsTrue

(* When the pool has answered every share, the counters say what it        *)
(* decided.                                                                *)
CountsSettle == part = "shares" => Shares!CountsSettle

(* A reader of the log is shown the log, and no byte goes uncounted; a     *)
(* browser is shown what the device is compared with.                      *)
ViewersSeeTheDevice ==
    /\ part = "log" => Log!ReadersSeeTheLog
    /\ part = "clients" => Browsers!ClientsAreServed

(* An answer of a chip is taken for the job and chip it is about.          *)
ResultsAreUnderstood == part = "chain" => Chain!ResultsAreUnderstood

(* The pool's lines are handled in order, its jobs mined as it meant them, *)
(* and its decisions on shares counted.                                    *)
PoolIsUnderstood == part = "lines" => Lines!PoolIsUnderstood
=============================================================================

---------------------------- MODULE MCServices -----------------------------
(***************************************************************************)
(* The parts of Services, and the parts beside them: each is checked by    *)
(* itself, in the behaviours with its name in "part". The variables of the *)
(* other parts are Absent; parts that name a variable alike share it.      *)
(* Init and Next imply PartsInit and [PartsNext]_partsVars of Services.    *)
(***************************************************************************)
EXTENDS Services

CONSTANT Absent

VARIABLES
    operation, vout, up, tripped, warm, limits, handle, grace, faultActive,
    measured, call, next, ok, ready, unread, faulty, tripping, calls, trips,
    script, network, text, damaged, read, stage, user, decode, job, outs,
    count, staging, coinbase, block_height, signals, regs, faults, wanted,
    settings, kind, h, ck, zeroed, keys, handled, why, down, broken, cut, sequence,
    clock, lastUpdate, lastWrite, noinit, atStart, saved, expected,
    complete, at, migrating, isSet, mirror, legacy, newest, asked, apart,
    interrupted, sets, synced, advertising, client, fields, written, status,
    applying, document, applied, before, unseen, writes, pools, selection,
    usingFallback, untold, mdns, task, request, advertised, named, dhcp,
    redirect, taken, failed, patches, message, sizes, frame, outcome

(* Of a diode: below zero, and where the fans turn fast; what a pool's      *)
(* settings ask for.                                                        *)
Suggesting == {[suggest |-> TRUE, subscribe |-> FALSE]}
Warmths == {-20, 1119}

(* What a client writes over Bluetooth, and a pool of the web interface.    *)
SetupInputs ==
    [port |-> {"4444", "bad"}, url |-> {[scheme |-> "tls", host |-> "h", port |-> "5555"]}]
WebPool == [url |-> <<"web">>, port |-> "1111", user |-> "web", pass |-> "w",
            tls |-> "disabled", protocol |-> "SV2"]

Voltage == INSTANCE Regulators WITH
        Count <- 2, Volts <- {5}, MaxCalls <- 1, MaxErrors <- 1, MaxTrips <- 1,
        MaxRestarts <- 1
Codec == INSTANCE Addresses WITH
        HashLen <- 5, WideLen <- 2, Word <- 2, CheckLen <- 3,
        Hashes <- {<<0, 0, 7, 200, 31>>, <<131, 64>>}, None <- Absent
Payout == INSTANCE Coinbase WITH
        Slots <- 2, TagMax <- 3, UserMax <- 2, ExtranonceLen <- 2, MaxValue <- 3,
        MaxOutputs <- 3, MaxJobs <- 2
Regulator == INSTANCE Tps546 WITH
        VoutMode <- 23, Garbage <- {20}, Volts <- {39321, 70000}, Phases <- 1,
        Unknown <- Absent, MaxErrors <- 1, MaxCalls <- 2, MaxFaults <- 1, MaxRestarts <- 1
Link == INSTANCE Sv2Transport WITH
        MaxPayload <- 2, MinExtranonce <- 2, MaxExtranonce <- 3, None <- Absent,
        MaxTraffic <- 2
Totals == INSTANCE Counters WITH
        Word <- 3, Period <- 2, MaxRate <- 2, MaxTime <- 3, MaxRestarts <- 2
Keys == INSTANCE SettingsUpgrade WITH
        None <- Absent, Megahertz <- 4, Near <- 2, Frequencies <- {2002, 2003},
        Fans <- {0}, Pools <- {"c"}, OldFrequencies <- {500}, OldFans <- {0, 30},
        OldPools <- {"a"}, MaxSets <- 2, MaxEdits <- 1, MaxRestarts <- 1
Setup == INSTANCE SetupBle WITH
        Inputs <- SetupInputs, Edit <- WebPool, None <- Absent, MaxWrites <- 2,
        MaxCommands <- 2, MaxEdits <- 1, MaxErrors <- 1, MaxRestarts <- 1

(* What is asked of the settings and the pools. 21496 and 1000 are numbers *)
(* sdkconfig has for pool 0; the others are in and out of their limits.    *)
S(t) == [type |-> "string", text |-> t, int |-> 0]
N(n) == [type |-> "number", text |-> "", int |-> n]
B(n) == [type |-> "bool", text |-> "", int |-> n]
BuiltInPool ==
    [stratumProtocol |-> S("SV1"), stratumURL |-> S("h"), stratumPort |-> N(21496),
     stratumUser |-> S("u"), stratumPassword |-> S("x"),
     stratumSuggestedDifficulty |-> N(1000), stratumExtranonceSubscribe |-> B(0),
     stratumTLS |-> N(0), stratumCert |-> S(""), stratumDecodeCoinbase |-> B(0),
     stratumShareWarning |-> B(1), stratumV2ChannelType |-> S("extended"),
     stratumV2AuthorityPubkey |-> S(""), stratumV2RequireAuth |-> B(0)]
Needed == [stratumURL |-> S("p"), stratumPort |-> N(3333), stratumUser |-> S("u")]
With(n, v) == [k \in DOMAIN Needed \union {n} |-> IF k = n THEN v ELSE Needed[k]]
PoolEntries ==
    {With("stratumPassword", S("p")), With("stratumPassword", S("*****")),
     With("stratumPort", N(0)), With("stratumSuggestedDifficulty", N(65537)),
     With("stratumProtocol", S("SV3")), [stratumURL |-> S("p")]}
Asked == {<<"coreVoltage", N(1300)>>, <<"coreVoltage", S("a")>>, <<"overheat_mode", N(0)>>,
          <<"overheat_mode", B(1)>>, <<"primaryPoolIndex", N(2)>>,
          <<"primaryPoolIndex", N(3)>>, <<"useFallbackStratum", B(1)>>,
          <<"useFallbackStratum", N(0)>>, <<"display", S("?")>>, <<"rotation", N(45)>>}
Requests == INSTANCE SettingsRequest WITH
        MaxPools <- 3, BuiltIn <- BuiltInPool, Displays <- {"NONE"}, Scalars <- Asked,
        Entries <- PoolEntries, Segments <- {N(1), N(2), N(3), S("abc")}, MaxRequests <- 2
HostName == INSTANCE DeviceName WITH
        None <- Absent, Bases <- {"a", "b"}, MaxPatches <- 2, MaxErrors <- 1, MaxRestarts <- 1
Codes == INSTANCE Sv2Messages WITH
        MaxString <- 2, PayloadSize <- 19, FrameSize <- 50, MaxMerkle <- 1, MaxPrefix <- 2,
        MaxSuffix <- 2, Sizes <- {0, 2, 3, 30, 33}

Parts == {"shares", "scoreboard", "hashrate", "difficulty", "log", "voltage",
          "fans", "update", "wifi", "chain", "history", "accessory", "screen",
          "addresses", "coinbase", "regulator", "noise", "lines", "test",
          "counters", "upgrade", "ble", "clients", "requests", "name",
          "messages", "sensors"}

(* Only the part that is checked changes its variables.                     *)
Unchanged(parts, xs) == IF part \in parts THEN TRUE ELSE UNCHANGED xs

Others ==
    /\ UNCHANGED part
    /\ Unchanged({"difficulty"}, <<byHashrate, pending, apply, due, kept>>)
    /\ Unchanged({"scoreboard"}, <<turnedAway>>)
    /\ Unchanged({"update"}, <<boot, running, www, mounted, apMode, handler,
         updating, hurried, uploads>>)
    /\ Unchanged({"wifi"}, <<link, events, waiting, armed, isConnected, byHand,
         isScanning, scan, gaveUp, joins, leaves, scans, drops>>)
    /\ Unchanged({"accessory"}, <<value, active, age, lastValue, mutex,
         outgoing, previous, rebooting, believes, settled, lost>>)
    /\ Unchanged({"screen"}, <<large, setting, reports, panel, display,
         identify, quiet>>)
    /\ Unchanged({"test"}, <<flag, cached, best, defects, factory, finished,
         pressed, volts, pm, retune, power, nonce, measuring, hashes, round,
         average, starts, worth, heated, cleared, offFailed, raised, alive,
         noisy, tuned>>)
    /\ Unchanged({"hashrate"}, <<was, mpc, late, measurement, seen>>)
    /\ Unchanged({"history"}, <<frequency, buffer, response, fastest, slowest,
         lastShares, counting, row, heard, rows>>)
    /\ Unchanged({"shares"}, <<v2, locked, seq, resolved, submitted, reasons,
         rpc, rLocal, spc, sLocal, left, reason, arriving, batch, answers,
         good, bad, refused>>)
    /\ Unchanged({"log"}, <<ring, total, stdoutPos, dropped, printed, start,
         viewerPos>>)
    /\ Unchanged({"clients"}, <<device, conns, table, server, api, baseline,
         logFds, closing, joining, unsure, leaked, connections>>)
    /\ Unchanged({"fans"}, <<mode, auto, manual, min, limit, automatic, output,
         percent, fan, fault, speedSet>>)
    /\ Unchanged({"sensors"}, <<board, heat, diode, powered, turn, highByte,
         temps, filtered, pid, outputMin, goal, speed, earlier, actual, source,
         former, computed, lowByte, turned, lowTurn, shownBy, moves, cycles>>)
    /\ Unchanged({"voltage"}, <<vout, tripped, warm, limits, faultActive, measured,
         call, ok, ready, unread, faulty, tripping>>)
    /\ Unchanged({"chain"}, <<driver, attempt, counted, chain, packet, rx,
         currentMask, hostBaud, silent>>)
    /\ Unchanged({"addresses"}, <<script, network, text, damaged, read>>)
    /\ Unchanged({"coinbase"}, <<user, decode, job, outs, count, staging,
         coinbase, block_height, signals>>)
    /\ Unchanged({"regulator"}, <<regs, faults, wanted>>)
    /\ Unchanged({"noise"}, <<kind, h, ck, zeroed, keys, handled, why, down, broken,
         cut, sequence>>)
    /\ Unchanged({"lines"}, <<pc, uid, ids, buf, info, work, sender, timing,
         stream, timed, counts, early, lines>>)
    /\ Unchanged({"counters"}, <<clock, lastUpdate, lastWrite, noinit, atStart,
         expected, complete>>)
    /\ Unchanged({"upgrade"}, <<at, migrating, isSet, mirror, legacy, newest,
         apart, interrupted, sets>>)
    /\ Unchanged({"ble"}, <<synced, advertising, client, fields, written,
         status, applying, document, applied, before, unseen, writes>>)
    /\ Unchanged({"requests"}, <<pools, selection, usingFallback, untold>>)
    /\ Unchanged({"name"}, <<mdns, task, request, advertised, named, dhcp,
         redirect, taken, failed, patches>>)
    /\ Unchanged({"messages"}, <<message, sizes, frame, outcome>>)
    /\ Unchanged({"difficulty", "hashrate", "name"}, <<initialized>>)
    /\ Unchanged({"difficulty", "noise", "lines"}, <<pool>>)
    /\ Unchanged({"difficulty", "hashrate", "chain"}, <<current>>)
    /\ Unchanged({"difficulty", "accessory"}, <<since>>)
    /\ Unchanged({"difficulty", "test"}, <<chip>>)
    /\ Unchanged({"difficulty", "hashrate", "history"}, <<now>>)
    /\ Unchanged({"difficulty", "accessory", "screen", "clients"}, <<changes>>)
    /\ Unchanged({"difficulty", "name"}, <<overlapped>>)
    /\ Unchanged({"scoreboard", "chain"}, <<entries>>)
    /\ Unchanged({"scoreboard", "update", "accessory", "counters", "upgrade"},
         <<queue>>)
    /\ Unchanged({"scoreboard", "update", "upgrade"}, <<flash>>)
    /\ Unchanged({"scoreboard", "history", "lines"}, <<shares>>)
    /\ Unchanged({"scoreboard", "update", "accessory", "log", "fans",
         "voltage", "regulator", "counters", "upgrade", "ble", "name"},
         <<restarts>>)
    /\ Unchanged({"update", "requests"}, <<slots>>)
    /\ Unchanged({"update", "upgrade"}, <<cache>>)
    /\ Unchanged({"wifi", "ble"}, <<ap>>)
    /\ Unchanged({"wifi", "log"}, <<clients>>)
    /\ Unchanged({"accessory", "ble"}, <<connected, commands>>)
    /\ Unchanged({"accessory", "counters"}, <<started>>)
    /\ Unchanged({"accessory", "fans"}, <<valid>>)
    /\ Unchanged({"accessory", "clients"}, <<view>>)
    /\ Unchanged({"accessory", "shares"}, <<overtaken>>)
    /\ Unchanged({"test", "regulator"}, <<step>>)
    /\ Unchanged({"test", "voltage", "chain", "regulator"}, <<result>>)
    /\ Unchanged({"test", "chain", "ble"}, <<target>>)
    /\ Unchanged({"test", "hashrate"}, <<counter>>)
    /\ Unchanged({"test", "noise"}, <<nonces>>)
    /\ Unchanged({"test", "clients", "fans", "sensors", "voltage", "chain",
         "regulator", "ble", "name"}, <<errors>>)
    /\ Unchanged({"test", "voltage", "regulator"}, <<powerFault>>)
    /\ Unchanged({"hashrate", "requests"}, <<answer>>)
    /\ Unchanged({"hashrate", "chain"}, <<stops>>)
    /\ Unchanged({"history", "regulator"}, <<last>>)
    /\ Unchanged({"history", "shares", "ble"}, <<raced>>)
    /\ Unchanged({"history", "fans", "upgrade", "ble"}, <<edits>>)
    /\ Unchanged({"shares", "lines"}, <<open, accepted, rejected, sessions>>)
    /\ Unchanged({"shares", "log", "lines"}, <<shown>>)
    /\ Unchanged({"log", "counters"}, <<torn>>)
    /\ Unchanged({"voltage", "regulator"}, <<operation, handle, grace, trips>>)
    /\ Unchanged({"voltage", "regulator", "noise"}, <<up>>)
    /\ Unchanged({"voltage", "counters"}, <<next>>)
    /\ Unchanged({"voltage", "regulator", "requests"}, <<calls>>)
    /\ Unchanged({"chain", "regulator", "upgrade", "ble"}, <<phase>>)
    /\ Unchanged({"chain", "noise"}, <<reading>>)
    /\ Unchanged({"chain", "coinbase"}, <<jobs>>)
    /\ Unchanged({"addresses", "coinbase", "noise"}, <<stage>>)
    /\ Unchanged({"noise", "ble", "requests"}, <<settings>>)
    /\ Unchanged({"noise", "lines"}, <<conn>>)
    /\ Unchanged({"lines", "requests"}, <<meant>>)
    /\ Unchanged({"counters", "name"}, <<saved>>)
    /\ Unchanged({"upgrade", "ble"}, <<asked>>)

Init ==
    /\ part \in Parts
    /\ PartsInit
    /\ part = "voltage" => Voltage!Init
    /\ part = "addresses" => Codec!Init
    /\ part = "coinbase" => Payout!Init
    /\ part = "regulator" => Regulator!Init
    /\ part = "noise" => Link!Init
    /\ part = "lines" => Lines!Init
    /\ part = "counters" => Totals!Init
    /\ part = "upgrade" => Keys!Init
    /\ part = "ble" => Setup!Init
    /\ part = "requests" => Requests!Init
    /\ part = "name" => HostName!Init
    /\ part = "messages" => Codes!Init
    /\ \/ part = "difficulty"
       \/ byHashrate = Absent /\ pending = Absent /\ apply = Absent
          /\ due = Absent /\ kept = Absent
    /\ \/ part = "scoreboard"
       \/ turnedAway = Absent
    /\ \/ part = "update"
       \/ boot = Absent /\ running = Absent /\ www = Absent /\ mounted = Absent
          /\ apMode = Absent /\ handler = Absent /\ updating = Absent
          /\ hurried = Absent /\ uploads = Absent
    /\ \/ part = "wifi"
       \/ link = Absent /\ events = Absent /\ waiting = Absent
          /\ armed = Absent /\ isConnected = Absent /\ byHand = Absent
          /\ isScanning = Absent /\ scan = Absent /\ gaveUp = Absent
          /\ joins = Absent /\ leaves = Absent /\ scans = Absent
          /\ drops = Absent
    /\ \/ part = "accessory"
       \/ value = Absent /\ active = Absent /\ age = Absent
          /\ lastValue = Absent /\ mutex = Absent /\ outgoing = Absent
          /\ previous = Absent /\ rebooting = Absent /\ believes = Absent
          /\ settled = Absent /\ lost = Absent
    /\ \/ part = "screen"
       \/ large = Absent /\ setting = Absent /\ reports = Absent
          /\ panel = Absent /\ display = Absent /\ identify = Absent
          /\ quiet = Absent
    /\ \/ part = "test"
       \/ flag = Absent /\ cached = Absent /\ best = Absent /\ defects = Absent
          /\ factory = Absent /\ finished = Absent /\ pressed = Absent
          /\ volts = Absent /\ pm = Absent /\ retune = Absent /\ power = Absent
          /\ nonce = Absent /\ measuring = Absent /\ hashes = Absent
          /\ round = Absent /\ average = Absent /\ starts = Absent
          /\ worth = Absent /\ heated = Absent /\ cleared = Absent
          /\ offFailed = Absent /\ raised = Absent /\ alive = Absent
          /\ noisy = Absent /\ tuned = Absent
    /\ \/ part = "hashrate"
       \/ was = Absent /\ mpc = Absent /\ late = Absent /\ measurement = Absent
          /\ seen = Absent
    /\ \/ part = "history"
       \/ frequency = Absent /\ buffer = Absent /\ response = Absent
          /\ fastest = Absent /\ slowest = Absent /\ lastShares = Absent
          /\ counting = Absent /\ row = Absent /\ heard = Absent
          /\ rows = Absent
    /\ \/ part = "shares"
       \/ v2 = Absent /\ locked = Absent /\ seq = Absent /\ resolved = Absent
          /\ submitted = Absent /\ reasons = Absent /\ rpc = Absent
          /\ rLocal = Absent /\ spc = Absent /\ sLocal = Absent
          /\ left = Absent /\ reason = Absent /\ arriving = Absent
          /\ batch = Absent /\ answers = Absent /\ good = Absent
          /\ bad = Absent /\ refused = Absent
    /\ \/ part = "log"
       \/ ring = Absent /\ total = Absent /\ stdoutPos = Absent
          /\ dropped = Absent /\ printed = Absent /\ start = Absent
          /\ viewerPos = Absent
    /\ \/ part = "clients"
       \/ device = Absent /\ conns = Absent /\ table = Absent
          /\ server = Absent /\ api = Absent /\ baseline = Absent
          /\ logFds = Absent /\ closing = Absent /\ joining = Absent
          /\ unsure = Absent /\ leaked = Absent /\ connections = Absent
    /\ \/ part = "fans"
       \/ mode = Absent /\ auto = Absent /\ manual = Absent /\ min = Absent
          /\ limit = Absent /\ automatic = Absent /\ output = Absent
          /\ percent = Absent /\ fan = Absent /\ fault = Absent
          /\ speedSet = Absent
    /\ \/ part = "sensors"
       \/ board = Absent /\ heat = Absent /\ diode = Absent /\ powered = Absent
          /\ turn = Absent /\ highByte = Absent /\ temps = Absent
          /\ filtered = Absent /\ pid = Absent /\ outputMin = Absent
          /\ goal = Absent /\ speed = Absent /\ earlier = Absent
          /\ actual = Absent /\ source = Absent /\ former = Absent
          /\ computed = Absent /\ turned = Absent /\ moves = Absent
          /\ lowByte = Absent /\ lowTurn = Absent /\ shownBy = Absent
          /\ cycles = Absent
    /\ \/ part = "voltage"
       \/ vout = Absent /\ tripped = Absent /\ warm = Absent /\ limits = Absent
          /\ faultActive = Absent /\ measured = Absent /\ call = Absent
          /\ ok = Absent /\ ready = Absent /\ unread = Absent
          /\ faulty = Absent /\ tripping = Absent
    /\ \/ part = "chain"
       \/ driver = Absent /\ attempt = Absent /\ counted = Absent
          /\ chain = Absent /\ packet = Absent /\ rx = Absent
          /\ currentMask = Absent /\ hostBaud = Absent /\ silent = Absent
    /\ \/ part = "addresses"
       \/ script = Absent /\ network = Absent /\ text = Absent
          /\ damaged = Absent /\ read = Absent
    /\ \/ part = "coinbase"
       \/ user = Absent /\ decode = Absent /\ job = Absent /\ outs = Absent
          /\ count = Absent /\ staging = Absent /\ coinbase = Absent
          /\ block_height = Absent /\ signals = Absent
    /\ \/ part = "regulator"
       \/ regs = Absent /\ faults = Absent /\ wanted = Absent
    /\ \/ part = "noise"
       \/ kind = Absent /\ h = Absent /\ ck = Absent /\ zeroed = Absent /\ keys = Absent
          /\ handled = Absent /\ why = Absent /\ down = Absent
          /\ broken = Absent /\ cut = Absent /\ sequence = Absent
    /\ \/ part = "lines"
       \/ pc = Absent /\ uid = Absent /\ ids = Absent /\ buf = Absent
          /\ info = Absent /\ work = Absent /\ sender = Absent
          /\ timing = Absent /\ stream = Absent /\ timed = Absent
          /\ counts = Absent /\ early = Absent /\ lines = Absent
    /\ \/ part = "counters"
       \/ clock = Absent /\ lastUpdate = Absent /\ lastWrite = Absent
          /\ noinit = Absent /\ atStart = Absent /\ expected = Absent
          /\ complete = Absent
    /\ \/ part = "upgrade"
       \/ at = Absent /\ migrating = Absent /\ isSet = Absent
          /\ mirror = Absent /\ legacy = Absent /\ newest = Absent
          /\ apart = Absent /\ interrupted = Absent /\ sets = Absent
    /\ \/ part = "ble"
       \/ synced = Absent /\ advertising = Absent /\ client = Absent
          /\ fields = Absent /\ written = Absent /\ status = Absent
          /\ applying = Absent /\ document = Absent /\ applied = Absent
          /\ before = Absent /\ unseen = Absent /\ writes = Absent
    /\ \/ part = "requests"
       \/ pools = Absent /\ selection = Absent /\ usingFallback = Absent
          /\ untold = Absent
    /\ \/ part = "name"
       \/ mdns = Absent /\ task = Absent /\ request = Absent
          /\ advertised = Absent /\ named = Absent /\ dhcp = Absent
          /\ redirect = Absent /\ taken = Absent /\ failed = Absent
          /\ patches = Absent
    /\ \/ part = "messages"
       \/ message = Absent /\ sizes = Absent /\ frame = Absent
          /\ outcome = Absent
    /\ \/ part \in {"difficulty", "hashrate", "name"}
       \/ initialized = Absent
    /\ \/ part \in {"difficulty", "noise", "lines"}
       \/ pool = Absent
    /\ \/ part \in {"difficulty", "hashrate", "chain"}
       \/ current = Absent
    /\ \/ part \in {"difficulty", "accessory"}
       \/ since = Absent
    /\ \/ part \in {"difficulty", "test"}
       \/ chip = Absent
    /\ \/ part \in {"difficulty", "hashrate", "history"}
       \/ now = Absent
    /\ \/ part \in {"difficulty", "accessory", "screen", "clients"}
       \/ changes = Absent
    /\ \/ part \in {"difficulty", "name"}
       \/ overlapped = Absent
    /\ \/ part \in {"scoreboard", "chain"}
       \/ entries = Absent
    /\ \/ part \in {"scoreboard", "update", "accessory", "counters", "upgrade"}
       \/ queue = Absent
    /\ \/ part \in {"scoreboard", "update", "upgrade"}
       \/ flash = Absent
    /\ \/ part \in {"scoreboard", "history", "lines"}
       \/ shares = Absent
    /\ \/ part \in {"scoreboard", "update", "accessory", "log", "fans",
                   "voltage", "regulator", "counters", "upgrade", "ble",
                   "name"}
       \/ restarts = Absent
    /\ \/ part \in {"update", "requests"}
       \/ slots = Absent
    /\ \/ part \in {"update", "upgrade"}
       \/ cache = Absent
    /\ \/ part \in {"wifi", "ble"}
       \/ ap = Absent
    /\ \/ part \in {"wifi", "log"}
       \/ clients = Absent
    /\ \/ part \in {"accessory", "ble"}
       \/ connected = Absent /\ commands = Absent
    /\ \/ part \in {"accessory", "counters"}
       \/ started = Absent
    /\ \/ part \in {"accessory", "fans"}
       \/ valid = Absent
    /\ \/ part \in {"accessory", "clients"}
       \/ view = Absent
    /\ \/ part \in {"accessory", "shares"}
       \/ overtaken = Absent
    /\ \/ part \in {"test", "regulator"}
       \/ step = Absent
    /\ \/ part \in {"test", "voltage", "chain", "regulator"}
       \/ result = Absent
    /\ \/ part \in {"test", "chain", "ble"}
       \/ target = Absent
    /\ \/ part \in {"test", "hashrate"}
       \/ counter = Absent
    /\ \/ part \in {"test", "noise"}
       \/ nonces = Absent
    /\ \/ part \in {"test", "clients", "fans", "sensors", "voltage", "chain",
                   "regulator", "ble", "name"}
       \/ errors = Absent
    /\ \/ part \in {"test", "voltage", "regulator"}
       \/ powerFault = Absent
    /\ \/ part \in {"hashrate", "requests"}
       \/ answer = Absent
    /\ \/ part \in {"hashrate", "chain"}
       \/ stops = Absent
    /\ \/ part \in {"history", "regulator"}
       \/ last = Absent
    /\ \/ part \in {"history", "shares", "ble"}
       \/ raced = Absent
    /\ \/ part \in {"history", "fans", "upgrade", "ble"}
       \/ edits = Absent
    /\ \/ part \in {"shares", "lines"}
       \/ open = Absent /\ accepted = Absent /\ rejected = Absent
          /\ sessions = Absent
    /\ \/ part \in {"shares", "log", "lines"}
       \/ shown = Absent
    /\ \/ part \in {"log", "counters"}
       \/ torn = Absent
    /\ \/ part \in {"voltage", "regulator"}
       \/ operation = Absent /\ handle = Absent /\ grace = Absent
          /\ trips = Absent
    /\ \/ part \in {"voltage", "regulator", "noise"}
       \/ up = Absent
    /\ \/ part \in {"voltage", "counters"}
       \/ next = Absent
    /\ \/ part \in {"voltage", "regulator", "requests"}
       \/ calls = Absent
    /\ \/ part \in {"chain", "regulator", "upgrade", "ble"}
       \/ phase = Absent
    /\ \/ part \in {"chain", "noise"}
       \/ reading = Absent
    /\ \/ part \in {"chain", "coinbase"}
       \/ jobs = Absent
    /\ \/ part \in {"addresses", "coinbase", "noise"}
       \/ stage = Absent
    /\ \/ part \in {"noise", "ble", "requests"}
       \/ settings = Absent
    /\ \/ part \in {"noise", "lines"}
       \/ conn = Absent
    /\ \/ part \in {"lines", "requests"}
       \/ meant = Absent
    /\ \/ part \in {"counters", "name"}
       \/ saved = Absent
    /\ \/ part \in {"upgrade", "ble"}
       \/ asked = Absent

SharesStep == part = "shares" /\ Others /\ Shares!Next
BestStep == part = "scoreboard" /\ Others /\ Best!Next
RateStep == part = "hashrate" /\ Others /\ Rate!Next
DifficultyStep == part = "difficulty" /\ Others /\ Difficulty!Next
LogStep == part = "log" /\ Others /\ Log!Next
VoltageStep == part = "voltage" /\ Others /\ Voltage!Next
CoolingStep == part = "fans" /\ Others /\ Cooling!Next
UpdateStep == part = "update" /\ Others /\ Update!Next
WifiStep == part = "wifi" /\ Others /\ Wifi!Next
ChainStep == part = "chain" /\ Others /\ Chain!Next
HistoryStep == part = "history" /\ Others /\ History!Next
BapStep == part = "accessory" /\ Others /\ Bap!Next
DisplayStep == part = "screen" /\ Others /\ Display!Next
CodecStep == part = "addresses" /\ Others /\ Codec!Next
PayoutStep == part = "coinbase" /\ Others /\ Payout!Next
RegulatorStep == part = "regulator" /\ Others /\ Regulator!Next
LinkStep == part = "noise" /\ Others /\ Link!Next
LinesStep == part = "lines" /\ Others /\ Lines!Next
TestStep == part = "test" /\ Others /\ Test!Next
TotalsStep == part = "counters" /\ Others /\ Totals!Next
KeysStep == part = "upgrade" /\ Others /\ Keys!Next
SetupStep == part = "ble" /\ Others /\ Setup!Next
BrowsersStep == part = "clients" /\ Others /\ Browsers!Next
RequestsStep == part = "requests" /\ Others /\ Requests!Next
HostNameStep == part = "name" /\ Others /\ HostName!Next
SensorsStep == part = "sensors" /\ Others /\ Sensors!Next
CodesStep == part = "messages" /\ Others /\ Codes!Next

Next ==
    \/ SharesStep \/ BestStep \/ RateStep \/ DifficultyStep \/ LogStep
    \/ VoltageStep \/ CoolingStep \/ UpdateStep \/ WifiStep \/ ChainStep
    \/ HistoryStep \/ BapStep \/ DisplayStep \/ CodecStep \/ PayoutStep
    \/ RegulatorStep \/ LinkStep \/ LinesStep \/ TestStep \/ TotalsStep
    \/ KeysStep \/ SetupStep \/ BrowsersStep \/ RequestsStep \/ HostNameStep
    \/ CodesStep \/ SensorsStep

vars == <<part, Shares!vars, Best!vars, Rate!vars, Difficulty!vars, Log!vars,
          Voltage!vars, Cooling!vars, Update!vars, Wifi!vars, Chain!vars,
          History!vars, Bap!vars, Display!vars, Codec!vars, Payout!vars,
          Regulator!vars, Link!vars, Lines!vars, Test!vars, Totals!vars,
          Keys!vars, Setup!vars, Browsers!vars, Requests!vars,
          HostName!vars, Codes!vars, Sensors!vars>>

Spec == Init /\ [][Next]_vars

---------------------------------------------------------------------------
(* The properties are stated, and explained, in the modules of the parts.  *)

(* An address stands for one script, and what a coinbase pays the user is  *)
(* shown, of the job that is mined.                                        *)
PayoutIsRecognised ==
    /\ part = "addresses" => Codec!AddressesAreExact
    /\ part = "coinbase" => Payout!PayoutIsShown

(* Both ends of the encrypted connection are in step, and the channel is   *)
(* the one the pool opened; a message is read as it was built.             *)
ConnectionIsSound ==
    /\ part = "noise" => Link!ConnectionIsSound
    /\ part = "messages" => Codes!MessagesAreExact

(* What was set or counted is there after restarts, other firmware, a      *)
(* set-up over Bluetooth and requests of every kind, the device goes by    *)
(* the name it was given, and the chips run at the frequency asked for.    *)
SettingsAreKept ==
    /\ part = "counters" => Totals!CountersAreKept
    /\ part = "upgrade" => Keys!SettingsSurvive
    /\ part = "ble" => Setup!SetupIsDone
    /\ part = "requests" => Requests!RequestsAreHonoured
    /\ part = "name" => HostName!NameIsKnown
    /\ part = "chain" => Chain!ClockIsClosest

(* A voltage that was set is there, and a fault of it is seen.             *)
HardwareIsAsReported ==
    /\ [][part = "voltage" => Voltage!ReturnIsTrue]_(Voltage!vars)
    /\ [][part = "regulator" => Regulator!CallIsTrue]_(Regulator!vars)
=============================================================================

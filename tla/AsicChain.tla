------------------------------ MODULE AsicChain -------------------------------
(***************************************************************************)
(* The chain of chips behind a serial line and its drivers                 *)
(* (components/asic): detection and set-up, jobs on the way out, nonces and*)
(* register values on the way back. A driver claims a slot for each job,   *)
(* and the chip returns with a nonce the slot's number, the core and the   *)
(* version bits it tried. A version is a set of bits.                      *)
(***************************************************************************)
EXTENDS Naturals, Sequences, FiniteSets

CONSTANTS
    Drivers,            \* of the family: "BM1366", ...
    Chips,              \* asic_count
    SlotCount, SlotCount1397,   \* BM13XX_ and BM1397_JOB_SLOT_COUNT
    Attempts,           \* init_retry_attempts
    Targets,            \* frequencies, in tenths of a megahertz
    Masks,              \* version masks of pools
    MaxJobs, MaxFrames, MaxStops, MaxErrors     \* bounds

VARIABLES
    driver, target,
    phase,              \* "off", "detecting", "running" (ASIC_initalized), "stopping", "failed"
    attempt, counted,   \* of ASIC_init()
    chain,              \* the chips: addresses, version mask, clock, baud rate
    packet,             \* chips: the job they work on
    rx,                 \* received and not yet read: frames
    reading,            \* ASIC_result_task is in receive_work() and holds the line's mutex
    entries, current,   \* asic_job_store: the job of each slot, and the last slot
    currentMask,        \* current_version_mask of create_jobs_task
    hostBaud,
    result,             \* what the task is handed, with the frame it comes from
    silent,             \* history: an answer is missing, damaged or too many in this attempt
    jobs, stops, errors

bounds == <<jobs, stops, errors>>
vars == <<driver, target, phase, attempt, counted, chain, packet, rx, reading, entries, current,
          currentMask, hostBaud, result, silent, bounds>>

Bits == {1, 2}          \* BIP320_VERSION_ROLLING_MASK
Base == {3}             \* the version a pool sends
Chip == 0..(Chips - 1)
NoJob == [id |-> 0, mask |-> {}]
NoFrame == [kind |-> "none", address |-> 0, byte |-> 0, bits |-> {},
            job |-> 0, version |-> {}, chip |-> 0]
NoResult == [asic |-> 0, job |-> 0, version |-> {}, frame |-> NoFrame]

---------------------------------------------------------------------------
(* The drivers: where a job's slot begins in the byte sent and the one      *)
(* returned (BIT(tx_shift), BIT(sub_bits)), the range of the clock's        *)
(* feedback divider, and what the initialisation does before and after the  *)
(* chips are counted.                                                       *)
BM1366 == [slots |-> SlotCount, tx |-> 8, sub |-> 8, fb |-> 144..235,
           before |-> <<"mask">>,
           after |-> <<"inactive", "address", "registers", "frequency", "space", "mask">>]

BM1368 == [slots |-> SlotCount, tx |-> 8, sub |-> 16, fb |-> 144..235,
           before |-> <<"mask">>,
           after |-> <<"inactive", "registers", "address", "registers", "frequency", "space",
                       "mask">>]

BM1370 == [slots |-> SlotCount, tx |-> 8, sub |-> 16, fb |-> 160..239,
           before |-> <<"mask">>,
           after |-> <<"mask", "registers", "inactive", "address", "registers", "frequency",
                       "space">>]

BM1373 == [slots |-> SlotCount, tx |-> 8, sub |-> 16, fb |-> 160..239,
           before |-> <<>>,
           after |-> <<"inactive", "address", "registers", "baud", "registers", "frequency",
                       "space", "mask">>]

BM1397 == [slots |-> SlotCount1397, tx |-> 4, sub |-> 4, fb |-> 60..200,
           before |-> <<>>,
           after |-> <<"inactive", "address", "registers", "frequency">>]

Driver ==
    [BM1366 |-> BM1366, BM1368 |-> BM1368, BM1370 |-> BM1370, BM1373 |-> BM1373,
     BM1397 |-> BM1397][driver]

(* The chips' addresses are spread evenly, and are part of the nonces they  *)
(* find; a BM1373 has another one for its answers.                          *)
Interval == 256 \div Chips
AnswerInterval == IF driver = "BM1373" THEN 16 ELSE Interval

(* pll_get_parameters(): the dividers whose frequency, 250 fb / (ref p1 p2),*)
(* is closest to the wanted one, then with the slowest oscillator, then the *)
(* smallest, then the first tried. Gap is the difference, times ref p1 p2.  *)
Product(d) == d.ref * d.p1 * d.p2
Gap(t, d) ==
    LET wanted == t * Product(d)
        got == 250 * d.fb
    IN  IF wanted > got THEN wanted - got ELSE got - wanted

Better(t, a, b) ==
    LET ga == Gap(t, a) * Product(b)
        gb == Gap(t, b) * Product(a)
        va == a.fb * b.ref
        vb == b.fb * a.ref
    IN  \/ ga < gb
        \/ ga = gb /\ va < vb
        \/ ga = gb /\ va = vb /\ a.p1 * a.p2 < b.p1 * b.p2
        \/ ga = gb /\ va = vb /\ a.p1 * a.p2 = b.p1 * b.p2 /\ a.p1 > b.p1

Dividers(t, range) ==
    {d \in {[fb |-> (2 * t * r * a * b + 250) \div 500, ref |-> r, p1 |-> a, p2 |-> b] :
                r \in 1..2, a \in 1..7, b \in 1..7} :
       d.p1 > d.p2 /\ d.fb \in range}

Clock(t, range) ==
    CHOOSE d \in Dividers(t, range) : \A e \in Dividers(t, range) : ~Better(t, e, d)

---------------------------------------------------------------------------
(* BM13xx_init(): the commands to the chips. Without addresses, which they  *)
(* lose when they are told to be inactive, all chips listen to address 0.   *)
Reset == [address |-> [c \in Chip |-> 0], mask |-> {}, clock |-> {}, baud |-> "slow"]

Told(command, c) ==
    CASE command = "mask" -> [c EXCEPT !.mask = Bits]
      [] command = "inactive" -> [c EXCEPT !.address = [i \in Chip |-> 0]]
      [] command = "address" -> [c EXCEPT !.address = [i \in Chip |-> i * AnswerInterval]]
      [] command = "frequency" -> [c EXCEPT !.clock = {Clock(target, Driver.fb)}]
      [] command = "baud" -> [c EXCEPT !.baud = "fast"]
      [] command \in {"registers", "space"} -> c

ToldAll(list, c) ==
    LET told[n \in 0..Len(list)] == IF n = 0 THEN c ELSE Told(list[n], told[n - 1])
    IN  told[Len(list)]

Frame(kind) == [NoFrame EXCEPT !.kind = kind]

Init ==
    /\ driver \in Drivers /\ target \in Targets
    /\ phase = "off" /\ attempt = 0 /\ counted = 0
    /\ chain = Reset /\ packet = [byte |-> 0, job |-> 0, versions |-> <<>>]
    /\ rx = <<>> /\ reading = FALSE
    /\ entries = [s \in 0..(Driver.slots - 1) |-> NoJob] /\ current = 0
    /\ currentMask = {} /\ hostBaud = "slow"
    /\ result = NoResult /\ silent = FALSE
    /\ jobs = 0 /\ stops = 0 /\ errors = 0

Fixed == UNCHANGED <<driver, target>>
work == <<packet, entries, current, currentMask, jobs>>

(* asic_initialize(): the chips are reset, the line is set back to their    *)
(* rate and emptied, and they are asked for their identity.                 *)
Attempt ==
    /\ attempt' = attempt + 1 /\ counted' = 0 /\ phase' = "detecting"
    /\ rx' = <<>> /\ silent' = FALSE /\ hostBaud' = "slow"
    /\ chain' = ToldAll(Driver.before, Reset)

Start ==
    /\ phase = "off" /\ ~reading /\ Attempt /\ result' = NoResult
    /\ Fixed /\ UNCHANGED <<work, reading, stops, errors>>

(* A chip answers; or an answer is damaged, or is one more than there should*)
(* be, of which there is one at most.                                       *)
Answer ==
    /\ phase = "detecting" /\ counted + Len(rx) <= Chips
    /\ \/ /\ counted + Len(rx) < Chips
          /\ rx' = Append(rx, Frame("id")) /\ UNCHANGED <<silent, errors>>
       \/ /\ errors < MaxErrors /\ errors' = errors + 1 /\ silent' = TRUE
          /\ \E kind \in {"id", "bad"} : rx' = Append(rx, Frame(kind))
    /\ Fixed
    /\ UNCHANGED <<phase, attempt, counted, chain, work, reading, hostBaud, result, stops>>

(* count_asic_chips(): a bad answer is skipped, and silence for a second    *)
(* ends it; it is in vain with fewer chips than expected, or more.          *)
Count ==
    /\ phase = "detecting" /\ rx # <<>> /\ rx' = Tail(rx)
    /\ counted' = IF Head(rx).kind = "id" THEN counted + 1 ELSE counted
    /\ Fixed
    /\ UNCHANGED <<phase, attempt, chain, work, reading, hostBaud, result, silent, stops, errors>>

Silence ==
    /\ phase = "detecting" /\ rx = <<>> /\ counted # Chips
    /\ \/ silent /\ UNCHANGED errors
       \/ ~silent /\ errors < MaxErrors /\ errors' = errors + 1
    /\ \/ attempt < Attempts /\ Attempt
       \/ /\ attempt = Attempts /\ phase' = "failed" /\ silent' = TRUE
          /\ UNCHANGED <<attempt, counted, rx, chain, hostBaud>>
    /\ Fixed /\ UNCHANGED <<work, reading, result, stops>>

(* ... and the rest of BM13xx_init() and asic_initialize().                 *)
SetUp ==
    /\ phase = "detecting" /\ rx = <<>> /\ counted = Chips
    /\ phase' = "running" /\ attempt' = 0 /\ hostBaud' = "fast"
    /\ chain' = Told("baud", ToldAll(Driver.after, chain))
    /\ Fixed /\ UNCHANGED <<counted, work, rx, reading, result, silent, stops, errors>>

(* mining_stop(): power off; then the line is emptied, for which its driver *)
(* waits until nobody reads.                                                *)
PowerOff ==
    /\ phase = "running" /\ stops < MaxStops /\ stops' = stops + 1
    /\ phase' = "stopping" /\ chain' = Reset /\ packet' = [packet EXCEPT !.job = 0]
    /\ result' = NoResult
    /\ Fixed /\ UNCHANGED <<attempt, counted, rx, reading, entries, current, currentMask, hostBaud,
                            silent, jobs, errors>>

Flush ==
    /\ phase = "stopping" /\ ~reading
    /\ phase' = "off" /\ rx' = <<>> /\ result' = NoResult
    /\ Fixed /\ UNCHANGED <<attempt, counted, chain, work, reading, hostBaud, silent, stops, errors>>

---------------------------------------------------------------------------
(* increment_bitmask(): binary counting with the bits of a mask.            *)
Incremented(version, mask) ==
    LET free == mask \ version
        low == CHOOSE b \in free : \A c \in free : b <= c
    IN  IF free = {} THEN version \ mask
        ELSE (version \ {b \in mask : b < low}) \union {low}

Rolled(version, mask, times) ==
    LET rolled[i \in 0..times] == IF i = 0 THEN version ELSE Incremented(rolled[i - 1], mask)
    IN  rolled[times]

(* BM1397: bm1397_encode_job_packet() rolls the version itself.             *)
Midstates(mask) == [i \in 1..(IF mask = {} THEN 1 ELSE 4) |-> Rolled(Base, mask, i - 1)]

(* create_jobs_task sets the chips' version mask when it changes and sends  *)
(* a job; asic_job_store_claim() takes the next slot for it.                *)
Claimed == (current + 1) % Driver.slots

SendWork(mask) ==
    /\ phase = "running" /\ jobs < MaxJobs /\ jobs' = jobs + 1
    /\ current' = Claimed
    /\ entries' = [entries EXCEPT ![Claimed] = [id |-> jobs', mask |-> mask]]
    /\ packet' = [byte |-> Claimed * Driver.tx, job |-> jobs',
                  versions |-> IF driver = "BM1397" THEN Midstates(mask) ELSE <<Base>>]
    /\ currentMask' = mask
    /\ chain' = IF driver = "BM1397" \/ mask = currentMask THEN chain
                ELSE [chain EXCEPT !.mask = mask]
    /\ result' = NoResult
    /\ Fixed /\ UNCHANGED <<phase, attempt, counted, rx, reading, hostBaud, silent, stops, errors>>

Sent(frame) ==
    /\ phase = "running" /\ Len(rx) < MaxFrames
    /\ rx' = Append(rx, frame) /\ result' = NoResult
    /\ Fixed /\ UNCHANGED <<phase, attempt, counted, chain, work, reading, hostBaud, silent,
                            stops, errors>>

(* A chip finds a nonce: the frame has the chip's part of the nonce, the    *)
(* job's slot with the core or midstate, and the version bits it tried. The *)
(* other fields are history.                                                *)
Cores == IF driver = "BM1397" THEN 0..(Len(packet.versions) - 1)
         ELSE {0, Driver.sub - 1}

FindNonce(c, core) ==
    /\ packet.job # 0
    /\ \E bits \in IF driver = "BM1397" THEN {{}} ELSE SUBSET chain.mask :
         Sent([kind |-> "job", address |-> c * Interval,
               byte |-> (packet.byte \div Driver.tx) * Driver.sub + core,
               bits |-> bits, job |-> packet.job, chip |-> c,
               version |-> IF driver = "BM1397" THEN packet.versions[core + 1]
                           ELSE Base \union bits])

(* BM13xx_read_registers() asks, and a chip answers with its address.       *)
AnswerRegister(c) ==
    Sent([Frame("register") EXCEPT !.address = chain.address[c], !.chip = c])

(* ASIC_result_task: BM13xx_process_work().                                 *)
Read ==
    /\ phase = "running" /\ ~reading /\ reading' = TRUE /\ result' = NoResult
    /\ Fixed /\ UNCHANGED <<phase, attempt, counted, chain, work, rx, hostBaud, silent,
                            stops, errors>>

(* bm_decode_wire_job_slot(), and bm13xx_ or bm1397_decode_job_result()     *)
SlotOf_AsSent(frame) == frame.byte \div Driver.tx
SlotOf(frame) == frame.byte \div Driver.sub

VersionOf(frame, job) ==
    IF driver = "BM1397" THEN Rolled(Base, job.mask, frame.byte % Driver.sub)
    ELSE Base \union frame.bits

(* asic_job_store_lookup()                                                  *)
Lookup(slot) == IF slot \in DOMAIN entries THEN entries[slot] ELSE NoJob

Decoded(frame) ==
    IF frame.kind = "register"
    THEN [NoResult EXCEPT !.asic = frame.address \div AnswerInterval, !.frame = frame]
    ELSE LET job == Lookup(SlotOf(frame))
         IN  IF job = NoJob THEN NoResult
             ELSE [asic |-> frame.address \div Interval, job |-> job.id,
                   version |-> VersionOf(frame, job), frame |-> frame]

Receive ==
    /\ reading /\ rx # <<>> /\ reading' = FALSE
    /\ rx' = Tail(rx) /\ result' = Decoded(Head(rx))
    /\ Fixed /\ UNCHANGED <<phase, attempt, counted, chain, work, hostBaud, silent, stops, errors>>

(* A damaged frame, and all that was received after it, are thrown away; or *)
(* nothing comes for ten seconds.                                           *)
ReceiveNothing ==
    /\ reading /\ reading' = FALSE /\ rx' = <<>>
    /\ \/ rx = <<>> /\ UNCHANGED errors
       \/ rx # <<>> /\ errors < MaxErrors /\ errors' = errors + 1
    /\ result' = NoResult
    /\ Fixed /\ UNCHANGED <<phase, attempt, counted, chain, work, hostBaud, silent, stops>>

Next ==
    \/ Start \/ Answer \/ Count \/ Silence \/ SetUp \/ PowerOff \/ Flush
    \/ \E mask \in Masks : SendWork(mask)
    \/ \E c \in Chip : (\E core \in Cores : FindNonce(c, core)) \/ AnswerRegister(c)
    \/ Read \/ Receive \/ ReceiveNothing

Spec == Init /\ [][Next]_vars

---------------------------------------------------------------------------
TypeOK ==
    /\ phase \in {"off", "detecting", "running", "stopping", "failed"}
    /\ attempt \in 0..Attempts /\ counted \in 0..(Chips + 1)
    /\ Len(rx) <= MaxFrames + Chips + 1 /\ current \in DOMAIN entries
    /\ {reading, silent} \subseteq BOOLEAN /\ {hostBaud, chain.baud} \subseteq {"slow", "fast"}

(* Whatever is handed on names the chip that sent it, and a nonce the job   *)
(* and version it was found with, unless its slot was claimed again on the  *)
(* way; the chips are found when all of them answer and nothing else does,  *)
(* also when the task was reading when they were switched off, and can then *)
(* be told apart and are heard.                                             *)
ResultsAreUnderstood ==
    /\ result # NoResult =>
         /\ result.asic = result.frame.chip
         /\ result.job >= result.frame.job
         /\ (result.job - result.frame.job) % Driver.slots = 0
         /\ result.job = result.frame.job => result.version = result.frame.version
    /\ phase = "failed" => silent
    /\ phase = "running" =>
         /\ chain.baud = hostBaud
         /\ \A a, b \in Chip : chain.address[a] = chain.address[b] => a = b

(* The chips run as closely to the wanted frequency as their dividers can.  *)
ClockIsClosest ==
    phase = "running" /\ jobs = 0 /\ rx = <<>> => \A d \in chain.clock :
      \A r \in 1..2, p1, p2 \in 1..7 : \A fb \in Driver.fb :
        p1 > p2 => LET e == [fb |-> fb, ref |-> r, p1 |-> p1, p2 |-> p2]
                   IN  Gap(target, d) * Product(e) <= Gap(target, e) * Product(d)
=============================================================================

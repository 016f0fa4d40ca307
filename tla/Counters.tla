------------------------------- MODULE Counters --------------------------------
(***************************************************************************)
(* The uptime and the hashes of a device's whole life (main/system.c): kept *)
(* in memory that a restart leaves alone, and saved in flash from time to   *)
(* time for when the power is lost. The hashes take two words.              *)
(***************************************************************************)
EXTENDS Naturals, Sequences

CONSTANTS
    Word,               \* 2^64: a word's values
    Period,             \* NVS_COUNTER_UPDATE_INTERVAL_MS, in seconds
    MaxRate, MaxTime, MaxRestarts   \* bounds: hashes per second, seconds, restarts

VARIABLES
    clock,              \* esp_timer_get_time(), in seconds
    started,            \* last_update_time_ms # 0
    lastUpdate, lastWrite,   \* last_update_time_ms, last_nvs_write_time_ms
    noinit,             \* noinit_state, but its sentinel
    atStart,            \* total_uptime_at_system_start
    next,               \* new_low, while it is worked out
    queue, saved,       \* nvs_save_queue: updates of one counter each; the counters in flash
    expected, complete, \* history: what was counted; ... when the last save was complete
    torn,               \* history: a restart left a word of the hashes without the other one
    restarts

vars == <<clock, started, lastUpdate, lastWrite, noinit, atStart, next, queue, saved, expected,
          complete, torn, restarts>>

None == Word
Zero == [uptime |-> 0, high |-> 0, low |-> 0]
Total(c) == c.high * Word + c.low

Init ==
    /\ clock = 0 /\ started = FALSE /\ lastUpdate = 0 /\ lastWrite = 0
    /\ noinit = Zero /\ atStart = 0 /\ next = None
    /\ queue = <<>> /\ saved = Zero
    /\ expected = [uptime |-> 0, hashes |-> 0] /\ complete = 0
    /\ torn = FALSE /\ restarts = 0

Tick ==
    /\ clock < MaxTime /\ next = None /\ clock' = clock + 1
    /\ UNCHANGED <<started, lastUpdate, lastWrite, noinit, atStart, next, queue, saved, expected,
                   complete, torn, restarts>>

(* SYSTEM_noinit_update(), which hashrate_monitor_task calls: the first time*)
(* it only looks at the clock ...                                           *)
FirstUpdate ==
    /\ ~started /\ clock > 0
    /\ started' = TRUE /\ lastUpdate' = clock /\ lastWrite' = clock
    /\ UNCHANGED <<clock, noinit, atStart, next, queue, saved, expected, complete, torn, restarts>>

(* ... then the high word is counted up when the low one wraps, ...         *)
Update(rate) ==
    /\ started /\ next = None /\ clock - lastUpdate >= 1
    /\ LET hashes == (clock - lastUpdate) * rate
           newLow == (noinit.low + hashes) % Word
       IN  /\ hashes < Word     \* months of them
           /\ next' = newLow
           /\ noinit' = [noinit EXCEPT !.uptime = atStart + clock,
                                       !.high = IF newLow < noinit.low THEN @ + 1 ELSE @]
           /\ expected' = [uptime |-> atStart + clock, hashes |-> expected.hashes + hashes]
    /\ lastUpdate' = clock
    /\ UNCHANGED <<clock, started, lastWrite, atStart, queue, saved, complete, torn, restarts>>

(* ... the low word is set, and the counters are saved one by one.          *)
EndUpdate ==
    /\ next # None /\ next' = None
    /\ noinit' = [noinit EXCEPT !.low = next]
    /\ IF clock - lastWrite >= Period
       THEN /\ lastWrite' = clock
            /\ queue' = queue \o <<[of |-> "uptime", value |-> noinit.uptime],
                                   [of |-> "high", value |-> noinit.high],
                                   [of |-> "low", value |-> next]>>
       ELSE UNCHANGED <<lastWrite, queue>>
    /\ UNCHANGED <<clock, started, lastUpdate, atStart, saved, expected, complete, torn, restarts>>

(* nvs_task writes one update.                                              *)
Save ==
    /\ queue # <<>> /\ queue' = Tail(queue)
    /\ saved' = [saved EXCEPT ![Head(queue).of] = Head(queue).value]
    /\ complete' = IF Head(queue).of = "low" THEN Total(saved') ELSE complete
    /\ UNCHANGED <<clock, started, lastUpdate, lastWrite, noinit, atStart, next, expected, torn,
                   restarts>>

---------------------------------------------------------------------------
(* SYSTEM_init_system(): the larger of what memory and flash hold.          *)
Kept(n) ==
    LET larger == \/ saved.high > n.high
                  \/ saved.high = n.high /\ saved.low > n.low
    IN  [uptime |-> IF saved.uptime > n.uptime THEN saved.uptime ELSE n.uptime,
         high |-> IF larger THEN saved.high ELSE n.high,
         low |-> IF larger THEN saved.low ELSE n.low]

(* The high word is saved and its low one is not.                           *)
HalfSaved == queue # <<>> /\ Head(queue).of = "low" /\ Total(saved) # complete

Boot(n) ==
    /\ restarts < MaxRestarts /\ restarts' = restarts + 1
    /\ noinit' = Kept(n) /\ atStart' = noinit'.uptime
    /\ clock' = 0 /\ started' = FALSE /\ lastUpdate' = 0 /\ lastWrite' = 0
    /\ next' = None /\ queue' = <<>>
    /\ UNCHANGED <<saved, complete>>

(* A restart, which can come amid an update.                                *)
Restart ==
    /\ Boot(noinit)
    /\ torn' = (torn \/ next # None \/ HalfSaved)
    /\ UNCHANGED expected

(* The power is lost: the sentinel is gone, and with it what memory held.   *)
PowerLoss ==
    /\ Boot(Zero)
    /\ torn' = (torn \/ HalfSaved)
    /\ expected' = [uptime |-> saved.uptime, hashes |-> complete]

Next ==
    \/ Tick \/ FirstUpdate \/ (\E rate \in 0..MaxRate : Update(rate)) \/ EndUpdate \/ Save
    \/ Restart \/ PowerLoss

Spec == Init /\ [][Next]_vars

---------------------------------------------------------------------------
TypeOK ==
    /\ {clock, lastUpdate, lastWrite} \subseteq 0..MaxTime /\ {started, torn} \subseteq BOOLEAN
    /\ next \in 0..Word /\ {noinit.low, saved.low} \subseteq 0..(Word - 1)
    /\ Len(queue) <= 3 * MaxTime /\ restarts \in 0..MaxRestarts

(* All that was counted is there, also after restarts; after a loss of power*)
(* what was saved last. Only a restart between the two words of the hashes, *)
(* in memory or on their way to flash, makes the total wrong.               *)
CountersAreKept ==
    /\ noinit.uptime = expected.uptime
    /\ next = None /\ ~torn => Total(noinit) = expected.hashes
=============================================================================

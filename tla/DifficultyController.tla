------------------------ MODULE DifficultyController ------------------------
(***************************************************************************)
(* The difficulty from which on the chips report nonces                    *)
(* (main/difficulty_controller.c), as a power of two: lowered at once,     *)
(* raised after a grace period, by whichever task calls the update. The    *)
(* chips' initialisation writes a difficulty of its own.                   *)
(***************************************************************************)
EXTENDS Integers

CONSTANTS
    Tasks,                 \* the tasks that call the update
    MinPower, MaxPower,    \* MIN_ASIC_DIFFICULTY_POWER and a bound
    ResetPower,            \* what a driver's init writes
    Grace,                 \* DIFFICULTY_INCREASE_GRACE_PERIOD_S
    MaxTime, MaxChanges    \* bounds: time, changes of the pool and the chips

Powers == MinPower..MaxPower
None == 0
Unset == -1     \* pool_difficulty = 0: the pool has set none

VARIABLES
    initialized,   \* ASIC_initalized
    pool,          \* the largest power that does not pass pool_difficulty: it may be
                   \* below MinPower, what the chips can do; or Unset
    byHashrate,    \* the power for the wanted share interval
    current,       \* current_difficulty_power
    pending, since,  \* s_pending_difficulty_power, s_pending_increase_time_us
    chip,          \* the power in the chips' ticket mask
    apply,         \* task -> the power it is about to send to the chips
    due,           \* the tasks that owe an update
    now, changes,
    overlapped,    \* history: two updates ran at the same time
    kept           \* history: the chips were initialised again, the power kept

vars == <<initialized, pool, byHashrate, current, pending, since, chip, apply, due,
          now, changes, overlapped, kept>>

TypeOK ==
    /\ initialized \in BOOLEAN /\ pool \in Unset..MaxPower /\ byHashrate \in Powers
    /\ current \in Powers \cup {None} /\ pending \in Powers \cup {None}
    /\ since \in 0..MaxTime /\ chip \in Powers
    /\ apply \in [Tasks -> Powers \cup {None}] /\ due \subseteq Tasks
    /\ now \in 0..MaxTime

Init ==
    /\ initialized = FALSE /\ pool = Unset /\ byHashrate \in Powers
    /\ current = None /\ pending = None /\ since = 0 /\ chip = ResetPower
    /\ apply = [t \in Tasks |-> None] /\ due = {}
    /\ now = 0 /\ changes = 0 /\ overlapped = FALSE /\ kept = FALSE

(* calculate_effective_asic_difficulty(): the pool bounds it if it has set a *)
(* difficulty, and as far down as the chips go.                             *)
Effective_HashrateOnly == byHashrate

Effective ==
    IF pool = Unset \/ byHashrate <= pool THEN byHashrate
    ELSE IF pool < MinPower THEN MinPower ELSE pool

(* difficulty_controller_update(), up to what it sends.                     *)
Decide(t) ==
    /\ t \in due /\ due' = due \ {t} /\ apply[t] = None
    /\ overlapped' = (overlapped \/ \E u \in Tasks : apply[u] # None)
    /\ IF ~initialized THEN UNCHANGED <<current, pending, since, apply>>
       ELSE \/ /\ current = None \/ Effective < current
               /\ current' = Effective /\ pending' = None /\ since' = 0
               /\ apply' = [apply EXCEPT ![t] = Effective]
            \/ /\ current # None /\ Effective = current /\ pending = None
               /\ UNCHANGED <<current, pending, since, apply>>
            \/ /\ current # None /\ Effective >= current
               /\ pending # Effective /\ (Effective # current \/ pending # None)
               /\ pending' = Effective /\ since' = now
               /\ UNCHANGED <<current, apply>>
            \/ /\ current # None /\ Effective >= current /\ pending = Effective
               /\ IF now - since >= Grace
                  THEN /\ current' = pending /\ pending' = None /\ since' = 0
                       /\ apply' = [apply EXCEPT ![t] = pending]
                  ELSE UNCHANGED <<current, pending, since, apply>>
    /\ UNCHANGED <<initialized, pool, byHashrate, chip, now, changes, kept>>

(* ASIC_set_difficulty()                                                    *)
Apply(t) ==
    /\ apply[t] # None
    /\ apply' = [apply EXCEPT ![t] = None]
    /\ chip' = IF initialized THEN apply[t] ELSE chip
    /\ UNCHANGED <<initialized, pool, byHashrate, current, pending, since, due, now,
                   changes, overlapped, kept>>

---------------------------------------------------------------------------
(* The callers. The pool's difficulty or the clock of the chips changes.    *)
PoolChanges(t) ==
    /\ changes < MaxChanges /\ changes' = changes + 1
    /\ t \notin due /\ apply[t] = None /\ due' = due \cup {t}
    /\ pool' \in 0..MaxPower
    /\ UNCHANGED <<initialized, byHashrate, current, pending, since, chip, apply, now,
                   overlapped, kept>>

(* SYSTEM_reset_pool_session(): nobody updates.                             *)
NewSession ==
    /\ changes < MaxChanges /\ changes' = changes + 1
    /\ pool' = Unset
    /\ UNCHANGED <<initialized, byHashrate, current, pending, since, chip, apply, due, now,
                   overlapped, kept>>

ClockChanges(t) ==
    /\ changes < MaxChanges /\ changes' = changes + 1
    /\ t \notin due /\ apply[t] = None /\ due' = due \cup {t}
    /\ byHashrate' \in Powers
    /\ UNCHANGED <<initialized, pool, current, pending, since, chip, apply, now,
                   overlapped, kept>>

(* create_jobs_task calls the update with every new work.                   *)
NewWork(t) ==
    /\ t \notin due /\ apply[t] = None /\ due' = due \cup {t}
    /\ UNCHANGED <<initialized, pool, byHashrate, current, pending, since, chip,
                   apply, now, changes, overlapped, kept>>

(* asic_initialize()                                                        *)
InitializeChips(t) ==
    /\ ~initialized /\ initialized' = TRUE /\ chip' = ResetPower
    /\ t \notin due /\ apply[t] = None /\ due' = due \cup {t}
    /\ kept' = (current # None)
    /\ UNCHANGED <<pool, byHashrate, current, pending, since, apply, now, changes,
                   overlapped>>

(* mining_stop(): the power and the pending increase stay.                  *)
StopChips ==
    /\ initialized /\ initialized' = FALSE
    /\ changes < MaxChanges /\ changes' = changes + 1
    /\ UNCHANGED <<pool, byHashrate, current, pending, since, chip, apply, due, now,
                   overlapped, kept>>

Tick ==
    /\ now < MaxTime /\ now' = now + 1
    /\ UNCHANGED <<initialized, pool, byHashrate, current, pending, since, chip,
                   apply, due, changes, overlapped, kept>>

Next ==
    \/ \E t \in Tasks :
         Decide(t) \/ Apply(t) \/ PoolChanges(t) \/ ClockChanges(t) \/ NewWork(t)
           \/ InitializeChips(t)
    \/ NewSession \/ StopChips \/ Tick

Spec == Init /\ [][Next]_vars

---------------------------------------------------------------------------
Quiet == initialized /\ due = {} /\ \A t \in Tasks : apply[t] = None

(* When no update is due the chips have the power the controller believes  *)
(* in, and report at least as often as the hashrate asks for and, where the *)
(* pool's difficulty is within their range, every share of the pool; below  *)
(* it they report what they can, as often as they can. Unless two updates   *)
(* overlapped or the chips were initialised again.                          *)
DifficultyFits ==
    Quiet /\ ~overlapped /\ ~kept =>
      /\ chip = current /\ chip <= byHashrate
      /\ pool >= MinPower => chip <= pool
      /\ pool \in 0..(MinPower - 1) => chip = MinPower

(* The update that follows the chips' initialisation is applied immediately *)
(* (difficulty_controller.c:42): the chips report every share of a pool     *)
(* whose difficulty is within their range.                                  *)
SharesAreReported == Quiet /\ ~overlapped /\ pool >= MinPower => chip <= pool
=============================================================================

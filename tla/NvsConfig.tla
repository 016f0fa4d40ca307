----------------------------- MODULE NvsConfig -----------------------------
(***************************************************************************)
(* The persistent settings of main/nvs_config.c: a RAM cache that every    *)
(* task reads and writes, a queue of updates, and nvs_task, the only one   *)
(* that writes flash. A restart or a loss of power can come at any time.   *)
(*                                                                         *)
(* A slot is a settings entry, or one index of an array entry (the pools). *)
(***************************************************************************)
EXTENDS Naturals, Sequences

CONSTANTS
    Slots, Keys, KeyOf,   \* the slots, the settings they are indexes of
    Values, Default,      \* values, and each slot's default value
    Empty, Absent,        \* the empty string; a slot flash does not hold
    Tasks, None,          \* the tasks that change settings, no task
    NoUpdate,             \* stands for an update that is not there
    QueueLen,             \* xQueueCreate(50, ...)
    MaxSets, MaxFails, MaxRestarts   \* bounds on the steps of a behaviour

Updates == [slot: Slots, value: Values]

ASSUME NvsAssumption ==
    /\ KeyOf \in [Slots -> Keys] /\ Default \in [Slots -> Values]
    /\ Empty \in Values /\ Absent \notin Values /\ None \notin Tasks
    /\ NoUpdate \notin Updates
    /\ QueueLen \in Nat \ {0}
    /\ MaxSets \in Nat /\ MaxFails \in Nat /\ MaxRestarts \in Nat

VARIABLES
    cache, isSet,     \* settings[].value and settings[].is_set
    mutex, held,      \* the task that holds nvs_update_mutex, and its update
    queue, task,      \* nvs_save_queue, and the update nvs_task works on
    flash,            \* the NVS partition (external)
    lost,             \* (history) slots whose newest write failed
    sets, fails, restarts

counts == <<sets, fails, restarts>>
vars   == <<cache, isSet, mutex, held, queue, task, flash, lost, counts>>

TypeOK ==
    /\ cache \in [Slots -> Values] /\ isSet \in [Keys -> BOOLEAN]
    /\ mutex \in Tasks \cup {None}
    /\ held \in Updates \cup {NoUpdate}
    /\ queue \in Seq(Updates) /\ Len(queue) <= QueueLen
    /\ task \in Updates \cup {NoUpdate}
    /\ flash \in [Slots -> Values \cup {Absent}]
    /\ lost \subseteq Slots
    /\ sets \in 0..MaxSets /\ fails \in 0..MaxFails
    /\ restarts \in 0..MaxRestarts

---------------------------------------------------------------------------
(* A string shorter than one character counts as not stored when it is read *)
(* back, so it becomes the default again.                                   *)
Loaded(s, v) == IF v \in {Absent, Empty} THEN Default[s] ELSE v

(* nvs_config_init(): the cache is filled from flash.                       *)
BootCache(fl) == [s \in Slots |-> Loaded(s, fl[s])]
BootIsSet(fl) ==
    [k \in Keys |-> \E s \in Slots : KeyOf[s] = k /\ fl[s] \notin {Absent, Empty}]

Init ==
    /\ flash \in [Slots -> Values \cup {Absent}]
    /\ cache = BootCache(flash) /\ isSet = BootIsSet(flash)
    /\ mutex = None /\ held = NoUpdate /\ queue = <<>> /\ task = NoUpdate
    /\ lost = {}
    /\ sets = 0 /\ fails = 0 /\ restarts = 0

(* nvs_config_set_*(): under the update mutex the cache is compared and     *)
(* changed; a value the cache already holds ends the call.                  *)
Unchanged(s, v) == cache[s] = v /\ isSet[KeyOf[s]]

Set(t, s, v) ==
    /\ mutex = None /\ sets < MaxSets
    /\ ~Unchanged(s, v)
    /\ mutex' = t /\ held' = [slot |-> s, value |-> v]
    /\ cache' = [cache EXCEPT ![s] = v]
    /\ isSet' = [isSet EXCEPT ![KeyOf[s]] = TRUE]
    /\ sets' = sets + 1
    /\ UNCHANGED <<queue, task, flash, lost, fails, restarts>>

(* ... then the update is queued, waiting without limit while the queue is  *)
(* full, and the mutex is given back.                                       *)
Enqueue_ToFront(u)   == Len(queue) < QueueLen /\ queue' = <<u>> \o queue
Enqueue(u)           == Len(queue) < QueueLen /\ queue' = Append(queue, u)

Send_DropWhenFull(t) ==
    /\ mutex = t /\ mutex' = None /\ held' = NoUpdate
    /\ Enqueue(held) \/ (Len(queue) >= QueueLen /\ UNCHANGED queue)
    /\ UNCHANGED <<cache, isSet, task, flash, lost, counts>>
Send_MutexKept(t) ==
    /\ mutex = t /\ held # NoUpdate /\ held' = NoUpdate
    /\ Enqueue(held)
    /\ UNCHANGED <<mutex, cache, isSet, task, flash, lost, counts>>
Send(t) ==
    /\ mutex = t /\ mutex' = None /\ held' = NoUpdate
    /\ Enqueue(held)
    /\ UNCHANGED <<cache, isSet, task, flash, lost, counts>>

(* nvs_task takes the oldest update ...                                     *)
Receive ==
    /\ task = NoUpdate /\ queue # <<>>
    /\ task' = Head(queue) /\ queue' = Tail(queue)
    /\ UNCHANGED <<cache, isSet, mutex, held, flash, lost, counts>>

(* ... and writes and commits it; a failure is logged and forgotten.        *)
Write ==
    /\ task # NoUpdate /\ task' = NoUpdate
    /\ flash' = [flash EXCEPT ![task.slot] = task.value]
    /\ lost' = lost \ {task.slot}
    /\ UNCHANGED <<cache, isSet, mutex, held, queue, counts>>

WriteFails ==
    /\ task # NoUpdate /\ task' = NoUpdate
    /\ fails < MaxFails /\ fails' = fails + 1
    /\ lost' = lost \cup {task.slot}
    /\ UNCHANGED <<cache, isSet, mutex, held, queue, flash, sets, restarts>>

(* Power is lost, or esp_restart() is called; nothing waits for the queue.  *)
Restart ==
    /\ restarts < MaxRestarts /\ restarts' = restarts + 1
    /\ cache' = BootCache(flash) /\ isSet' = BootIsSet(flash)
    /\ mutex' = None /\ held' = NoUpdate /\ queue' = <<>> /\ task' = NoUpdate
    /\ lost' = {}
    /\ UNCHANGED <<flash, sets, fails>>

NvsTask == Receive \/ Write \/ WriteFails
Sending == \E t \in Tasks : Send(t)

Next ==
    \/ \E t \in Tasks, s \in Slots, v \in Values : Set(t, s, v)
    \/ Sending \/ NvsTask \/ Restart

Spec == Init /\ [][Next]_vars

(* nvs_task and a task in the middle of a set run again and again; setting  *)
(* something, restarting and failing are not obligations.                   *)
FairSpec == Spec /\ WF_vars(Receive) /\ WF_vars(Write \/ WriteFails) /\ WF_vars(Sending)

---------------------------------------------------------------------------
(* Who has the newest update of a slot on its way to flash.                 *)
IsHeld(s)   == held # NoUpdate /\ held.slot = s
InQueue(s)  == \E i \in 1..Len(queue) : queue[i].slot = s
AtTask(s)   == task # NoUpdate /\ task.slot = s
Pending(s)  == IsHeld(s) \/ InQueue(s) \/ AtTask(s)
IsLast(i)   == \A j \in 1..Len(queue) : j > i => queue[j].slot # queue[i].slot

(* The newest update of a slot, wherever it is, carries the cached value,    *)
(* and a slot without one is stored as cached unless its write failed:       *)
(* whatever the order of setters, queue and nvs_task, a restart after the    *)
(* queue has drained reads back what the API showed (an empty string, which  *)
(* lines 445 and 458 turn into the default, excepted).                       *)
HeldIsNewest   == \A s \in Slots : IsHeld(s) => held.value = cache[s]
QueuedIsNewest ==
    \A i \in 1..Len(queue) :
        IsLast(i) /\ ~IsHeld(queue[i].slot) => queue[i].value = cache[queue[i].slot]
TaskIsNewest ==
    \A s \in Slots :
        AtTask(s) /\ ~InQueue(s) /\ ~IsHeld(s) => task.value = cache[s]
Saved(s) == Loaded(s, flash[s]) = Loaded(s, cache[s])
FlashIsNewest == \A s \in Slots : Pending(s) \/ s \in lost \/ Saved(s)

CacheReachesFlash ==
    HeldIsNewest /\ QueuedIsNewest /\ TaskIsNewest /\ FlashIsNewest

(* A setter blocked on the full queue holds the mutex every setter needs;    *)
(* it always gets through, because nvs_task itself changes no setting.       *)
SetterGetsThrough == mutex # None ~> mutex = None

(* When the settings stop changing, all of them end up stored, those whose   *)
(* write failed excepted.                                                    *)
EventuallySaved == <>[](\A s \in Slots : Saved(s) \/ s \in lost)

---------------------------------------------------------------------------
(* The store's promise, for the steps flash accepts: the history is flash    *)
(* and then the updates on their way, applied one after the other.           *)
OnTheirWay ==
    (IF task = NoUpdate THEN <<>> ELSE <<task>>) \o queue
        \o (IF held = NoUpdate THEN <<>> ELSE <<held>>)

(* The last of the first n updates of q that is about slot s (at most one),  *)
(* and what a restart would read after those n.                              *)
LastOf(q, n, s) ==
    {i \in 1..n : q[i].slot = s /\ \A j \in (i + 1)..n : q[j].slot # s}

ReadAfter(fl, q, n) ==
    [s \in Slots |->
        IF LastOf(q, n, s) = {} THEN Loaded(s, fl[s])
        ELSE Loaded(s, q[CHOOSE i \in LastOf(q, n, s) : TRUE].value)]

HistoryOf(fl, q) == [n \in 1..(Len(q) + 1) |-> ReadAfter(fl, q, n - 1)]

History == HistoryOf(flash, OnTheirWay)

Store == INSTANCE NvsStore WITH history <- History

(* Whatever a restart brings back is an earlier state of all settings        *)
(* together: updates reach flash in the order the calls were made, and until *)
(* a write fails the cache, the queue and nvs_task implement NvsStore.       *)
RestartsToAnEarlierState ==
    Store!Init /\ [][fails' = 0 => Store!Next]_History
=============================================================================

---------------------------- MODULE StratumTask ----------------------------
(***************************************************************************)
(* Pool selection and fail-over: stratum_task() with its heartbeat task    *)
(* (main/tasks/stratum_task.c), the HTTP handlers that change the pool     *)
(* selection (main/http_server/http_server.c) and, reduced to what         *)
(* stratum_task() sees of it, one pool session (stratum_v1_run()).         *)
(*                                                                         *)
(* The three tasks share plain, unlocked flags of SYSTEM_MODULE; every     *)
(* read or write of them that another task can fall between is a step of   *)
(* its own here.                                                           *)
(***************************************************************************)
EXTENDS Naturals, FiniteSets

CONSTANTS
    Pools,       \* the pool slots, 0 .. MAX_POOLS - 1
    DefaultSlot, \* slot 0: empty, it reads as the compiled-in pool
    MaxRetry,    \* MAX_RETRY_ATTEMPTS
    MaxEdits,    \* bound: HTTP requests that change the pool settings
    MaxEvents    \* bound: changes of WiFi, of a pool's health, of the pause

ASSUME PoolsAssumption == IsFiniteSet(Pools) /\ DefaultSlot \in Pools
ASSUME BoundsAssumption ==
    MaxRetry \in Nat \ {0} /\ MaxEdits \in Nat /\ MaxEvents \in Nat

VARIABLES
    \* SYSTEM_MODULE: the pool settings, and the flags the tasks share
    cfg, isUsingFallback, poolsUnavailable, workReceived,
    \* s_should_reconnect and s_running_pool_idx
    shouldReconnect, running,
    \* stratum_task: program counter, loop-scoped locals, failure counters
    pc, loc, failures, retry,
    \* the socket other tasks may shut down, and (history) whether this pool was
    \* edited after the first of its settings was read
    sock, stale,
    \* the heartbeat task; the HTTP server task and its request count
    hb, http, edits,
    \* the world: WiFi, pools that answer, mining_paused or hardware_fault
    wifi, up, halted, events

flags    == <<isUsingFallback, poolsUnavailable, workReceived, shouldReconnect>>
counters == <<failures, retry>>
session  == <<sock, stale>>
others   == <<hb, http, edits>>
world    == <<wifi, up, halted, events>>
task     == <<running, pc, loc, counters, session>>
vars     == <<cfg, flags, task, others, world>>

Fields  == {"primary", "secondary", "useFallback"}

(* The locals are declared inside the loop: they are dead at its top.       *)
NoLocals == [prim |-> DefaultSlot, sec |-> DefaultSlot, hasFallback |-> FALSE,
             active |-> DefaultSlot, preferFb |-> FALSE, ok |-> FALSE]
NoRequest == [pc |-> "idle", pools |-> {}, fields |-> {}]
Asleep == [pc |-> "sleep", pool |-> DefaultSlot]

Locals == [prim: Pools, sec: Pools, hasFallback: BOOLEAN, active: Pools,
           preferFb: BOOLEAN, ok: BOOLEAN]
Requests == [pc: {"idle", "flag", "notify", "shut"}, pools: SUBSET Pools,
             fields: SUBSET Fields]
Heartbeats == [pc: {"sleep", "probe", "flag", "shut"}, pool: Pools]
Selection == [primary: Pools, secondary: Pools, useFallback: BOOLEAN]
Settings  == [primary: Pools, secondary: Pools, useFallback: BOOLEAN,
              filled: SUBSET Pools]

FlagsOK ==
    /\ isUsingFallback \in BOOLEAN /\ poolsUnavailable \in BOOLEAN
    /\ workReceived \in BOOLEAN /\ shouldReconnect \in BOOLEAN
    /\ wifi \in BOOLEAN /\ halted \in BOOLEAN

DataOK ==
    /\ cfg \in Settings /\ running \in Pools /\ loc \in Locals
    /\ pc \in {"top", "check", "wait", "probe1", "probe2", "pick", "launch",
               "copy", "connect", "loop", "recv", "after"}
    /\ failures \in 0..2 /\ retry \in 0..(MaxRetry - 1)
    /\ sock \in {"none", "open", "shut"} /\ stale \in {"no", "edited", "swallowed"}
    /\ hb \in Heartbeats /\ http \in Requests /\ edits \in 0..MaxEdits
    /\ up \in SUBSET Pools /\ events \in 0..MaxEvents

TypeOK == FlagsOK /\ DataOK

(* Power-on: the settings come from NVS, the shared flags are zeroed.       *)
Init ==
    /\ cfg \in Settings /\ DefaultSlot \in cfg.filled
    /\ isUsingFallback = FALSE /\ poolsUnavailable = FALSE
    /\ workReceived = FALSE /\ shouldReconnect = FALSE /\ running = DefaultSlot
    /\ pc = "top" /\ loc = NoLocals /\ failures = 0 /\ retry = 0
    /\ sock = "none" /\ stale = "no"
    /\ hb = Asleep /\ http = NoRequest /\ edits = 0
    /\ wifi = TRUE /\ up \in SUBSET Pools /\ halted = FALSE /\ events = 0

---------------------------------------------------------------------------
(* A pool answers a connection or a probe when its slot is filled, it is up *)
(* and the station is connected.                                            *)
Reachable(p) == p \in up /\ wifi
Answers(p) == p \in cfg.filled /\ Reachable(p)

ResetCounters == failures' = 0 /\ retry' = 0
ToTop == pc' = "top" /\ loc' = NoLocals

(* Top of the loop: paused, faulted or without WiFi the task sleeps and     *)
(* looks again; otherwise it takes a private copy of the selection.         *)
ReadSelection ==
    /\ pc = "top" /\ ~halted /\ wifi
    /\ loc' = [loc EXCEPT !.prim = cfg.primary, !.sec = cfg.secondary,
                          !.hasFallback = (cfg.secondary \in cfg.filled)]
    /\ pc' = "check"
    /\ UNCHANGED <<cfg, flags, running, counters, session, others, world>>

Threshold == IF loc.hasFallback THEN 2 ELSE 1

(* A pending reconnect request clears the failure counters; the preference  *)
(* for the fallback pool is applied only before the first failure.          *)
CheckRequest ==
    /\ pc = "check"
    /\ IF shouldReconnect THEN ResetCounters ELSE UNCHANGED counters
    /\ shouldReconnect' = FALSE
    /\ isUsingFallback' = IF failures' = 0 /\ cfg.useFallback
                          THEN loc.hasFallback ELSE isUsingFallback
    /\ IF failures' >= Threshold
       THEN pc' = "wait" /\ poolsUnavailable' = TRUE
       ELSE pc' = "pick" /\ UNCHANGED poolsUnavailable
    /\ UNCHANGED <<cfg, workReceived, running, loc, session, others, world>>

(* The recovery wait is over: WiFi is looked at again, then the preferred   *)
(* pool is probed and, when there is one, the other pool after it.          *)
RecoveryWaitOver ==
    /\ pc = "wait"
    /\ \/ ~wifi /\ ToTop
       \/ /\ wifi /\ pc' = "probe1"
          /\ loc' = [loc EXCEPT !.preferFb = cfg.useFallback /\ loc.hasFallback]
    /\ UNCHANGED <<cfg, flags, running, counters, session, others, world>>

First  == IF loc.preferFb THEN loc.sec ELSE loc.prim
Second == IF loc.preferFb THEN loc.prim ELSE loc.sec

PoolIsBack_KeepsFailures(p) ==
    /\ poolsUnavailable' = FALSE
    /\ isUsingFallback' = (p = loc.sec)
    /\ UNCHANGED counters
    /\ workReceived' = FALSE
    /\ ToTop
PoolIsBack(p) ==
    /\ poolsUnavailable' = FALSE
    /\ isUsingFallback' = (p = loc.sec)
    /\ ResetCounters
    /\ workReceived' = FALSE
    /\ ToTop

StillDown == UNCHANGED <<poolsUnavailable, isUsingFallback, counters,
                         workReceived>>

ProbeFirst ==
    /\ pc = "probe1"
    /\ \/ Answers(First) /\ PoolIsBack(First)
       \/ /\ ~Answers(First) /\ loc.hasFallback /\ StillDown
          /\ pc' = "probe2" /\ UNCHANGED loc
       \/ ~Answers(First) /\ ~loc.hasFallback /\ StillDown /\ ToTop
    /\ UNCHANGED <<cfg, shouldReconnect, running, session, others, world>>

ProbeSecond ==
    /\ pc = "probe2"
    /\ IF Answers(Second) THEN PoolIsBack(Second) ELSE StillDown /\ ToTop
    /\ UNCHANGED <<cfg, shouldReconnect, running, session, others, world>>

(* The pool to run is read from the shared flag and the private copies, and *)
(* with it the first of its settings, the protocol to speak: from here on   *)
(* an edit of the pool leaves an old copy behind ...                        *)
PickPool ==
    /\ pc = "pick" /\ pc' = "launch"
    /\ loc' = [loc EXCEPT !.active = IF isUsingFallback THEN loc.sec
                                                        ELSE loc.prim]
    /\ stale' = "no"
    /\ UNCHANGED <<cfg, flags, running, counters, sock, others, world>>

(* ... while the index is published, and any request cleared, only now. The *)
(* request of an edit that came between is gone when its handler is past    *)
(* the pool: the other settings are still to be copied, the protocol is not.*)
Launch ==
    /\ pc = "launch" /\ pc' = "copy"
    /\ running' = loc.active
    /\ shouldReconnect' = FALSE
    /\ stale' = IF stale = "edited" /\ loc.active \notin http.pools
                THEN "swallowed" ELSE stale
    /\ UNCHANGED <<cfg, isUsingFallback, poolsUnavailable, workReceived, loc,
                   counters, sock, others, world>>

---------------------------------------------------------------------------
(* One session, as stratum_task() sees it.                                  *)

(* The pool's other settings are copied; an empty slot ends the run at once.*)
CopySettings ==
    /\ pc = "copy"
    /\ IF loc.active \in cfg.filled THEN pc' = "connect" /\ UNCHANGED stale
                                    ELSE pc' = "after" /\ stale' = "no"
    /\ UNCHANGED <<cfg, flags, running, loc, counters, sock, others, world>>

(* Resolve and connect; a socket that connected is published for            *)
(* stratum_request_reconnect().                                             *)
Connect ==
    /\ pc = "connect"
    /\ IF Reachable(loc.active)
       THEN sock' = "open" /\ pc' = "loop" /\ UNCHANGED stale
       ELSE stale' = "no" /\ pc' = "after" /\ UNCHANGED sock
    /\ UNCHANGED <<cfg, flags, running, loc, counters, others, world>>

Leave(ok) ==
    /\ pc' = "after" /\ loc' = [loc EXCEPT !.ok = ok]
    /\ sock' = "none" /\ stale' = "no"

MustLeave_PauseOnly == halted
MustLeave == shouldReconnect \/ halted

(* Between two lines the session looks at the reconnect and pause requests. *)
SessionLoop ==
    /\ pc = "loop"
    /\ IF MustLeave
       THEN Leave(TRUE)
       ELSE pc' = "recv" /\ UNCHANGED <<loc, session>>
    /\ UNCHANGED <<cfg, flags, running, counters, others, world>>

(* A line arrives: a job (mining.notify) or anything else.                  *)
ReceiveLine ==
    /\ pc = "recv" /\ pc' = "loop"
    /\ sock = "open" /\ Reachable(loc.active)
    /\ workReceived' \in {workReceived, TRUE}
    /\ UNCHANGED <<cfg, isUsingFallback, poolsUnavailable, shouldReconnect,
                   running, loc, counters, session, others, world>>

(* The read fails: the socket was shut down, or the pool or WiFi is gone.   *)
ReadFails ==
    /\ pc = "recv" /\ (sock = "shut" \/ ~Reachable(loc.active))
    /\ Leave(shouldReconnect)
    /\ UNCHANGED <<cfg, flags, running, counters, others, world>>

(* The pool ends the session: client.reconnect, or it closes the socket.    *)
PoolEndsSession ==
    /\ pc = "recv" /\ sock = "open"
    /\ Leave(FALSE)
    /\ UNCHANGED <<cfg, flags, running, counters, others, world>>

(* stratum_v1_run() returned. A clean end forgets all failures; the last    *)
(* allowed retry moves to the other pool.                                   *)
CleanEnd == loc.ok \/ shouldReconnect \/ workReceived
LastRetry == retry + 1 >= MaxRetry

AfterRun ==
    /\ pc = "after" /\ ToTop
    /\ \/ /\ CleanEnd
          /\ ResetCounters
          /\ poolsUnavailable' = FALSE /\ workReceived' = FALSE
          /\ shouldReconnect' = FALSE
          /\ UNCHANGED isUsingFallback
       \/ /\ ~CleanEnd /\ ~LastRetry
          /\ retry' = retry + 1
          /\ UNCHANGED <<failures, flags>>
       \/ /\ ~CleanEnd /\ LastRetry
          /\ retry' = 0 /\ failures' = failures + 1
          /\ isUsingFallback' = (isUsingFallback # loc.hasFallback)
          /\ UNCHANGED <<poolsUnavailable, workReceived, shouldReconnect>>
    /\ UNCHANGED <<cfg, running, session, others, world>>

---------------------------------------------------------------------------
(* stratum_request_reconnect() is two steps: the flag, then a shutdown of   *)
(* the socket if one is published.                                          *)
ShutSocket_Skipped == sock' = sock
ShutSocket == sock' = IF sock = "open" THEN "shut" ELSE sock

HeartbeatDue_WrongPreference == isUsingFallback /\ cfg.useFallback /\ wifi
HeartbeatDue == isUsingFallback /\ ~cfg.useFallback /\ wifi

(* The heartbeat task wakes (periodically, or triggered) on the fallback    *)
(* pool and probes the primary pool.                                        *)
HeartbeatWake ==
    /\ hb.pc = "sleep" /\ HeartbeatDue
    /\ hb' = [pc |-> "probe", pool |-> cfg.primary]
    /\ UNCHANGED <<cfg, flags, task, http, edits, world>>

HeartbeatProbe ==
    /\ hb.pc = "probe"
    /\ IF Answers(hb.pool)
       THEN hb' = [hb EXCEPT !.pc = "flag"] /\ isUsingFallback' = FALSE
       ELSE hb' = Asleep /\ UNCHANGED isUsingFallback
    /\ UNCHANGED <<cfg, poolsUnavailable, workReceived, shouldReconnect, task,
                   http, edits, world>>

HeartbeatRequest ==
    /\ hb.pc = "flag" /\ hb' = [hb EXCEPT !.pc = "shut"]
    /\ shouldReconnect' = TRUE
    /\ UNCHANGED <<cfg, isUsingFallback, poolsUnavailable, workReceived, task,
                   http, edits, world>>

HeartbeatShut ==
    /\ hb.pc = "shut" /\ hb' = Asleep
    /\ ShutSocket
    /\ UNCHANGED <<cfg, flags, running, pc, loc, counters, stale, http,
                   edits, world>>

---------------------------------------------------------------------------
(* The HTTP server task: one request at a time.                             *)

InSession == pc \in {"loop", "recv"}
CopyPhase == {"launch", "copy", "connect", "loop", "recv"}
StaleAfter(ps) == IF pc \in CopyPhase /\ loc.active \in ps THEN "edited" ELSE stale

NewRequest == http = NoRequest /\ edits < MaxEdits /\ edits' = edits + 1

(* PUT /api/system/pool/N: validate_pool_json() refuses an empty URL, so    *)
(* the slot is filled afterwards.                                           *)
PutPool(p) ==
    /\ NewRequest
    /\ cfg' = [cfg EXCEPT !.filled = @ \cup {p}]
    /\ stale' = StaleAfter({p})
    /\ http' = [pc |-> "notify", pools |-> {p}, fields |-> {}]
    /\ UNCHANGED <<flags, running, pc, loc, counters, sock, hb, world>>

(* DELETE /api/system/pool/N: refused for a selected pool, and tells the    *)
(* stratum task nothing. Slot 0 becomes the compiled-in pool, no empty slot.*)
DeletePool(p) ==
    /\ NewRequest
    /\ p \notin {cfg.primary, cfg.secondary}
    /\ cfg' = [cfg EXCEPT !.filled = @ \ ({p} \ {DefaultSlot})]
    /\ UNCHANGED <<flags, task, hb, http, world>>

(* PATCH /api/system with any of the selection settings and of the pools:   *)
(* they are stored and reloaded first ...                                   *)
PatchSystem(fields, new, edited) ==
    /\ NewRequest /\ (fields # {} \/ edited # {})
    /\ cfg' = [primary |-> IF "primary" \in fields THEN new.primary ELSE cfg.primary,
               secondary |-> IF "secondary" \in fields THEN new.secondary
                                                       ELSE cfg.secondary,
               useFallback |-> IF "useFallback" \in fields THEN new.useFallback
                                                           ELSE cfg.useFallback,
               filled |-> cfg.filled \cup edited]
    /\ stale' = StaleAfter(edited)
    /\ http' = [pc |-> "flag", pools |-> edited, fields |-> fields]
    /\ UNCHANGED <<flags, running, pc, loc, counters, sock, hb, world>>

(* ... then the running choice follows the request ...                      *)
PatchFlag ==
    /\ http.pc = "flag" /\ http' = [http EXCEPT !.pc = "notify"]
    /\ isUsingFallback' =
         IF "useFallback" \in http.fields THEN cfg.useFallback
         ELSE isUsingFallback /\ ("primary" \in http.fields => cfg.useFallback)
    /\ UNCHANGED <<cfg, poolsUnavailable, workReceived, shouldReconnect, task,
                   hb, edits, world>>

RunsNow_PrimaryOnly(p) == p = cfg.primary
RunsNow(p) == p = running

(* ... and the stratum task is told, when the pool it runs is concerned. In *)
(* the other case the heartbeat is woken, which it may do at any time.      *)
NotifyModified(p) ==
    /\ http.pc = "notify" /\ p \in http.pools
    /\ shouldReconnect' = (shouldReconnect \/ RunsNow(p))
    /\ http' = [http EXCEPT !.pools = @ \ {p},
                            !.pc = IF RunsNow(p) THEN "shut" ELSE @]
    /\ UNCHANGED <<cfg, isUsingFallback, poolsUnavailable, workReceived, task,
                   hb, edits, world>>

Selected == IF isUsingFallback THEN cfg.secondary ELSE cfg.primary

NotifySelection ==
    /\ http.pc = "notify" /\ http.pools = {}
    /\ IF http.fields # {} /\ Selected # running
       THEN /\ shouldReconnect' = TRUE
            /\ http' = [http EXCEPT !.pc = "shut", !.fields = {}]
       ELSE http' = NoRequest /\ UNCHANGED shouldReconnect
    /\ UNCHANGED <<cfg, isUsingFallback, poolsUnavailable, workReceived, task,
                   hb, edits, world>>

HttpShut ==
    /\ http.pc = "shut" /\ http' = [http EXCEPT !.pc = "notify"]
    /\ ShutSocket
    /\ UNCHANGED <<cfg, flags, running, pc, loc, counters, stale, hb, edits,
                   world>>

---------------------------------------------------------------------------
(* The world: WiFi and pools come and go, the user pauses and resumes.      *)
WorldChanges ==
    /\ events < MaxEvents /\ events' = events + 1
    /\ \/ wifi' = ~wifi /\ UNCHANGED <<up, halted>>
       \/ \E p \in Pools : up' = (up \ {p}) \cup ({p} \ up)
          /\ UNCHANGED <<wifi, halted>>
       \/ halted' = ~halted /\ UNCHANGED <<wifi, up>>
    /\ UNCHANGED <<cfg, flags, task, others>>

StratumStep ==
    \/ ReadSelection \/ CheckRequest \/ RecoveryWaitOver
    \/ ProbeFirst \/ ProbeSecond \/ PickPool \/ Launch
    \/ CopySettings \/ Connect \/ SessionLoop \/ ReadFails \/ AfterRun

HeartbeatStep ==
    HeartbeatWake \/ HeartbeatProbe \/ HeartbeatRequest \/ HeartbeatShut

HttpStep ==
    \/ PatchFlag \/ NotifySelection \/ HttpShut
    \/ \E p \in Pools : NotifyModified(p)

UserEdit ==
    \/ \E p \in Pools : PutPool(p) \/ DeletePool(p)
    \/ \E fields \in SUBSET Fields, new \in Selection, edited \in SUBSET Pools :
          PatchSystem(fields, new, edited)

Next ==
    \/ StratumStep \/ HeartbeatStep \/ HttpStep
    \/ UserEdit \/ ReceiveLine \/ PoolEndsSession \/ WorldChanges

Spec == Init /\ [][Next]_vars

(* The tasks keep being scheduled and a read of a dead socket returns; the   *)
(* user, the network and a silent pool are under no obligation.              *)
Fairness == WF_vars(StratumStep) /\ WF_vars(HeartbeatStep) /\ WF_vars(HttpStep)

FairSpec == Spec /\ Fairness

---------------------------------------------------------------------------
(* A session that speaks to its pool under settings older than an edit has  *)
(* its reconnect request raised, or still to be raised by the HTTP handler: *)
(* the clears of s_should_reconnect (lines 165 and 229) never swallow an    *)
(* edit of the pool it runs. Line 210 does, and is the only one: an edit    *)
(* stored after the read of the protocol (207) whose handler is through     *)
(* before 210 ("swallowed") is lost if it changed the protocol.             *)
Outdated == stale = "edited" /\ pc # "launch"
OnlyLaunchLosesEdits ==
    Outdated => shouldReconnect \/ loc.active \in http.pools

(* A session blocked in a read is never left alone with a raised request:   *)
(* whoever raised it still has to shut the socket down.                     *)
RequestReachesReader ==
    pc = "recv" /\ sock = "open" /\ shouldReconnect =>
        http.pc = "shut" \/ hb.pc = "shut"

(* A pool edited in its session does not keep that session, even when the   *)
(* pool is silent; the edit swallowed at line 210 is the exception above.   *)
EditedPoolIsLeft == Outdated ~> ~Outdated

(* Once a selected pool stays reachable and nothing is paused, the miner    *)
(* keeps getting back into a session, whatever happened before. A heartbeat *)
(* that for ever switches to the primary in the window between a failed run *)
(* and the relative toggle at line 246 could prevent it; its 60 s period is *)
(* what rules that out, so finitely many such switches are assumed.         *)
SelectedReachable ==
    /\ ~halted /\ http = NoRequest /\ hb.pc \in {"sleep", "probe"}
    /\ \E p \in {cfg.primary, cfg.secondary} : Answers(p)
Recovers == <>[]SelectedReachable => []<>InSession

(* While the primary pool is reachable and preferred, the heartbeat does    *)
(* not let the fallback choice stand for ever.                              *)
PrimaryPreferred ==
    ~halted /\ http = NoRequest /\ ~cfg.useFallback /\ Answers(cfg.primary)
LeavesFallback == <>[]PrimaryPreferred => []<>(~isUsingFallback)

(* "All pools unreachable" is not reported while a session receives work.   *)
UnavailableMeansNoWork ==
    ~(poolsUnavailable /\ InSession /\ sock = "open" /\ workReceived)
=============================================================================

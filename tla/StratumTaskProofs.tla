------------------------- MODULE StratumTaskProofs -------------------------
(***************************************************************************)
(* Proofs about StratumTask for any set of pools, retry limit, number of   *)
(* edits and of outside events.                                            *)
(***************************************************************************)
EXTENDS StratumTask, TLAPS

(* From the pick to the return of a run fewer failures than the threshold   *)
(* are counted: this is what keeps the counter within 0..2.                 *)
Attempting == {"pick", "launch", "copy", "connect", "loop", "recv", "after"}
FailuresBounded == pc \in Attempting => failures < Threshold

(* The published pool index is the pool the session runs, from the moment   *)
(* its settings are copied.                                                 *)
RunningIsActive ==
    pc \in {"copy", "connect", "loop", "recv", "after"} => running = loc.active

(* Only a session that has read a setting can be stale.                     *)
StaleInSession == stale # "no" => pc \in CopyPhase

TypeInv == TypeOK /\ FailuresBounded
EditInv == RunningIsActive /\ StaleInSession /\ OnlyLaunchLosesEdits

LEMMA ConstantTypes ==
    NoLocals \in Locals /\ Asleep \in Heartbeats /\ NoRequest \in Requests
BY PoolsAssumption
   DEF NoLocals, Asleep, NoRequest, Locals, Heartbeats, Requests

LEMMA FlagStep == TypeOK /\ [Next]_vars => FlagsOK'
<1> USE DEF TypeOK, FlagsOK, flags, counters, session, others, world, task
<1>1. TypeOK /\ CheckRequest => FlagsOK'
  BY Zenon DEF DataOK, Locals, CheckRequest
<1>2. TypeOK /\ ProbeFirst => FlagsOK'
  BY Zenon DEF ProbeFirst, PoolIsBack, StillDown
<1>3. TypeOK /\ ProbeSecond => FlagsOK'
  BY Zenon DEF ProbeSecond, PoolIsBack, StillDown
<1>4. TypeOK /\ AfterRun => FlagsOK'
  BY Zenon DEF AfterRun
<1>5. TypeOK /\ (Launch \/ CopySettings \/ Connect) => FlagsOK'
  BY Zenon DEF Launch, CopySettings, Connect
<1>6. TypeOK /\ (SessionLoop \/ ReadFails \/ PoolEndsSession \/ ReceiveLine) => FlagsOK'
  BY Zenon DEF SessionLoop, MustLeave, ReadFails, PoolEndsSession, ReceiveLine, Leave
<1>7. TypeOK /\ (ReadSelection \/ RecoveryWaitOver \/ PickPool) => FlagsOK'
  BY Zenon DEF ReadSelection, RecoveryWaitOver, PickPool
<1>8. TypeOK /\ HeartbeatStep => FlagsOK'
  BY Zenon DEF HeartbeatStep, HeartbeatWake, HeartbeatProbe, HeartbeatRequest,
     HeartbeatShut
<1>9. TypeOK /\ PatchFlag => FlagsOK'
  BY Zenon DEF DataOK, Settings, PatchFlag
<1>10. TypeOK /\ (NotifySelection \/ HttpShut) => FlagsOK'
  BY Zenon DEF NotifySelection, HttpShut
<1>11. ASSUME NEW p \in Pools
       PROVE  TypeOK /\ (NotifyModified(p) \/ PutPool(p) \/ DeletePool(p)) => FlagsOK'
  BY Zenon DEF NotifyModified, RunsNow, PutPool, DeletePool
<1>12. ASSUME NEW fields, NEW new, NEW edited
       PROVE  TypeOK /\ PatchSystem(fields, new, edited) => FlagsOK'
  BY Zenon DEF PatchSystem
<1>13. TypeOK /\ WorldChanges => FlagsOK'
  BY Zenon DEF WorldChanges
<1>14. TypeOK /\ UNCHANGED vars => FlagsOK'
  BY Zenon DEF vars
<1> QED
  BY <1>1, <1>2, <1>3, <1>4, <1>5, <1>6, <1>7, <1>8, <1>9, <1>10, <1>11, <1>12,
     <1>13, <1>14
  DEF Next, StratumStep, HttpStep, UserEdit

LEMMA DataStep == TypeOK /\ FailuresBounded /\ [Next]_vars => DataOK'
<1> USE BoundsAssumption DEF TypeOK, FlagsOK, DataOK, Locals, flags, counters,
                           session, others, world, task
<1>1. TypeOK /\ ReadSelection => DataOK'
  <2>1. (cfg.secondary \in cfg.filled) \in BOOLEAN
    OBVIOUS
  <2>2. TypeOK /\ ReadSelection => loc' \in Locals
    BY <2>1 DEF ReadSelection, Settings
  <2> QED
    BY <2>2 DEF ReadSelection
<1>2. TypeOK /\ CheckRequest => DataOK'
  BY DEF CheckRequest, ResetCounters
<1>3. TypeOK /\ RecoveryWaitOver => DataOK'
  BY ConstantTypes DEF RecoveryWaitOver, Locals, ToTop
<1>4. TypeOK /\ ProbeFirst => DataOK'
  BY ConstantTypes DEF ProbeFirst, PoolIsBack, StillDown, ToTop, ResetCounters
<1>5. TypeOK /\ ProbeSecond => DataOK'
  BY ConstantTypes DEF ProbeSecond, PoolIsBack, StillDown, ToTop, ResetCounters
<1>6. TypeOK /\ PickPool => DataOK'
  BY DEF PickPool, Locals
<1>7. TypeOK /\ Launch => DataOK'
  BY DEF Launch
<1>8. TypeOK /\ CopySettings => DataOK'
  BY DEF CopySettings
<1>9. TypeOK /\ Connect => DataOK'
  BY DEF Connect
<1>10. TypeOK /\ SessionLoop => DataOK'
  BY DEF SessionLoop, MustLeave, Locals, Leave
<1>11. TypeOK /\ ReadFails => DataOK'
  BY DEF ReadFails, Locals, Leave
<1>12. TypeOK /\ FailuresBounded /\ AfterRun => DataOK'
  BY ConstantTypes DEF AfterRun, ToTop, LastRetry, ResetCounters, FailuresBounded,
                       Attempting, Threshold
<1>13. TypeOK /\ HeartbeatWake => DataOK'
  BY DEF HeartbeatWake, Heartbeats, Settings
<1>14. TypeOK /\ HeartbeatProbe => DataOK'
  BY ConstantTypes DEF HeartbeatProbe, Heartbeats
<1>15. TypeOK /\ HeartbeatRequest => DataOK'
  BY DEF HeartbeatRequest, Heartbeats
<1>16. TypeOK /\ HeartbeatShut => DataOK'
  BY ConstantTypes DEF HeartbeatShut, ShutSocket
<1>17. TypeOK /\ PatchFlag => DataOK'
  BY DEF PatchFlag, Requests, Settings
<1>18. TypeOK /\ NotifySelection => DataOK'
  BY ConstantTypes DEF NotifySelection, Requests
<1>19. TypeOK /\ HttpShut => DataOK'
  BY DEF HttpShut, Requests, ShutSocket
<1>20. TypeOK /\ ReceiveLine => DataOK'
  BY DEF ReceiveLine
<1>21. TypeOK /\ PoolEndsSession => DataOK'
  BY DEF PoolEndsSession, Locals, Leave
<1>22. TypeOK /\ WorldChanges => DataOK'
  BY DEF WorldChanges
<1>23. ASSUME NEW p \in Pools
        PROVE  TypeOK /\ NotifyModified(p) => DataOK'
  BY DEF NotifyModified, RunsNow, Requests
<1>24. ASSUME NEW p \in Pools
        PROVE  TypeOK /\ PutPool(p) => DataOK'
  <2>1. TypeOK /\ PutPool(p) => cfg' \in Settings
    BY DEF PutPool, Settings
  <2>2. TypeOK /\ PutPool(p) => http' \in Requests
    BY DEF PutPool, Requests
  <2> QED
    BY <2>1, <2>2 DEF PutPool, NewRequest, StaleAfter
<1>25. ASSUME NEW p \in Pools
        PROVE  TypeOK /\ DeletePool(p) => DataOK'
  BY DEF DeletePool, NewRequest, Settings
<1>26. ASSUME NEW fields \in SUBSET Fields, NEW new \in Selection,
              NEW edited \in SUBSET Pools
        PROVE  TypeOK /\ PatchSystem(fields, new, edited) => DataOK'
  BY DEF PatchSystem, Requests, NewRequest, StaleAfter, Settings, Selection
<1>27. TypeOK /\ UNCHANGED vars => DataOK'
  BY DEF vars
<1> QED
  BY <1>1, <1>2, <1>3, <1>4, <1>5, <1>6, <1>7, <1>8, <1>9, <1>10, <1>11, <1>12, <1>13,
     <1>14, <1>15, <1>16, <1>17, <1>18, <1>19, <1>20, <1>21, <1>22, <1>23, <1>24, <1>25, <1>26, <1>27
  DEF Next, StratumStep, HeartbeatStep, HttpStep, UserEdit

LEMMA FailuresStep == TypeOK /\ FailuresBounded /\ [Next]_vars => FailuresBounded'
<1> USE DEF FailuresBounded, Attempting, Threshold, flags, counters, session,
        others, world, task
<1>1. TypeOK /\ FailuresBounded /\ (ReadSelection \/ RecoveryWaitOver) => FailuresBounded'
  BY DEF ReadSelection, RecoveryWaitOver, ToTop
<1>2. TypeOK /\ FailuresBounded /\ CheckRequest => FailuresBounded'
  BY DEF CheckRequest, ResetCounters, TypeOK, DataOK
<1>3. TypeOK /\ FailuresBounded /\ (ProbeFirst \/ ProbeSecond) => FailuresBounded'
  BY DEF ProbeFirst, ProbeSecond, PoolIsBack, ToTop
<1>4. TypeOK /\ FailuresBounded /\ (PickPool \/ Launch \/ CopySettings \/ Connect)
        => FailuresBounded'
  BY DEF PickPool, Launch, CopySettings, Connect, TypeOK, DataOK, Locals
<1>5. TypeOK /\ FailuresBounded /\ (SessionLoop \/ ReadFails \/ PoolEndsSession \/ ReceiveLine)
        => FailuresBounded'
  BY DEF SessionLoop, MustLeave, ReadFails, PoolEndsSession, ReceiveLine, Leave, TypeOK,
         DataOK, Locals
<1>6. FailuresBounded /\ AfterRun => FailuresBounded'
  BY DEF AfterRun, ToTop
<1>7. FailuresBounded /\ (HeartbeatStep \/ HttpStep \/ UserEdit \/ WorldChanges)
        => FailuresBounded'
  BY DEF HeartbeatStep, HeartbeatWake, HeartbeatProbe, HeartbeatRequest,
     HeartbeatShut, HttpStep, PatchFlag, NotifySelection, NotifyModified, HttpShut,
     UserEdit, PutPool, DeletePool, PatchSystem, WorldChanges
<1>8. FailuresBounded /\ UNCHANGED vars => FailuresBounded'
  BY DEF vars
<1> QED
  BY <1>1, <1>2, <1>3, <1>4, <1>5, <1>6, <1>7, <1>8 DEF Next, StratumStep

LEMMA TypeInvInit == Init => TypeInv
<1>1. Init => DataOK
  BY ConstantTypes, PoolsAssumption, BoundsAssumption DEF Init, DataOK
<1>2. Init => FlagsOK /\ FailuresBounded
  BY DEF Init, FlagsOK, FailuresBounded, Attempting
<1> QED
  BY <1>1, <1>2 DEF TypeInv, TypeOK

(* Every variable keeps its type; in particular the failure counter never   *)
(* passes the threshold of two.                                             *)
THEOREM TypeCorrect == Spec => []TypeOK
<1>1. TypeInv /\ [Next]_vars => TypeInv'
  BY FlagStep, DataStep, FailuresStep DEF TypeInv, TypeOK
<1>2. TypeInv => TypeOK
  BY DEF TypeInv
<1> QED
  BY <1>1, <1>2, TypeInvInit, PTL DEF Spec
LEMMA EditInvStep == TypeOK /\ EditInv /\ [Next]_vars => EditInv'
<1> USE DEF EditInv, RunningIsActive, StaleInSession, OnlyLaunchLosesEdits, Outdated, CopyPhase,
        flags, counters, session, others, world, task
<1>1. EditInv /\ (ReadSelection \/ CheckRequest \/ RecoveryWaitOver) => EditInv'
  BY DEF ReadSelection, CheckRequest, RecoveryWaitOver, ToTop
<1>2. EditInv /\ (ProbeFirst \/ ProbeSecond) => EditInv'
  BY DEF ProbeFirst, ProbeSecond, PoolIsBack, StillDown, ToTop
<1>3. TypeOK /\ EditInv /\ PickPool => EditInv'
  BY DEF PickPool
<1>4. TypeOK /\ EditInv /\ Launch => EditInv'
  BY DEF Launch
<1>5. EditInv /\ (CopySettings \/ Connect) => EditInv'
  BY DEF CopySettings, Connect
<1>6. TypeOK /\ EditInv /\ (SessionLoop \/ ReadFails \/ PoolEndsSession) => EditInv'
  BY DEF SessionLoop, MustLeave, ReadFails, PoolEndsSession, Leave, TypeOK, DataOK, Locals
<1>7. EditInv /\ ReceiveLine => EditInv'
  BY DEF ReceiveLine
<1>8. EditInv /\ AfterRun => EditInv'
  BY DEF AfterRun, ToTop
<1>9. EditInv /\ HeartbeatStep => EditInv'
  BY DEF HeartbeatStep, HeartbeatWake, HeartbeatProbe, HeartbeatRequest, HeartbeatShut
<1>10. TypeOK /\ EditInv /\ (PatchFlag \/ NotifySelection \/ HttpShut) => EditInv'
  <2>1. TypeOK /\ EditInv /\ PatchFlag => EditInv'
    BY DEF PatchFlag, TypeOK, DataOK, Requests
  <2>2. TypeOK /\ EditInv /\ HttpShut => EditInv'
    BY DEF HttpShut, TypeOK, DataOK, Requests
  <2>3. TypeOK /\ EditInv /\ NotifySelection => EditInv'
    BY DEF NotifySelection, NoRequest, TypeOK, DataOK, Requests
  <2> QED
    BY <2>1, <2>2, <2>3
<1>11. ASSUME NEW p \in Pools
       PROVE  TypeOK /\ EditInv /\ NotifyModified(p) => EditInv'
  <2>1. NotifyModified(p) => (shouldReconnect' <=> shouldReconnect \/ p = running)
    BY Zenon DEF NotifyModified, RunsNow
  <2>2. TypeOK /\ NotifyModified(p) => http'.pools = http.pools \ {p}
    BY DEF NotifyModified, RunsNow, TypeOK, DataOK, Requests
  <2>3. NotifyModified(p) => UNCHANGED <<running, pc, loc, stale>>
    BY DEF NotifyModified, RunsNow
  <2> QED
    BY <2>1, <2>2, <2>3
<1>12. ASSUME NEW p \in Pools
       PROVE  EditInv /\ PutPool(p) => EditInv'
  <2>1. PutPool(p) => stale' = StaleAfter({p})
    BY Zenon DEF PutPool
  <2>2. PutPool(p) => http.pools = {} /\ http'.pools = {p}
    BY DEF PutPool, NewRequest, NoRequest
  <2>3. PutPool(p) => UNCHANGED <<running, pc, loc, shouldReconnect>>
    BY DEF PutPool
  <2> QED
    BY <2>1, <2>2, <2>3 DEF StaleAfter
<1>13. ASSUME NEW p \in Pools
       PROVE  EditInv /\ DeletePool(p) => EditInv'
  BY DEF DeletePool
<1>14. ASSUME NEW fields \in SUBSET Fields, NEW new \in Selection,
              NEW edited \in SUBSET Pools
       PROVE  EditInv /\ PatchSystem(fields, new, edited) => EditInv'
  <2>1. PatchSystem(fields, new, edited) => stale' = StaleAfter(edited)
    BY Zenon DEF PatchSystem
  <2>2. PatchSystem(fields, new, edited) => http.pools = {} /\ http'.pools = edited
    BY DEF PatchSystem, NewRequest, NoRequest
  <2>3. PatchSystem(fields, new, edited) => UNCHANGED <<running, pc, loc, shouldReconnect>>
    BY DEF PatchSystem
  <2> QED
    BY <2>1, <2>2, <2>3 DEF StaleAfter
<1>15. EditInv /\ (WorldChanges \/ UNCHANGED vars) => EditInv'
  BY DEF WorldChanges, vars
<1> QED
  BY <1>1, <1>2, <1>3, <1>4, <1>5, <1>6, <1>7, <1>8, <1>9, <1>10, <1>11, <1>12,
     <1>13, <1>14, <1>15
  DEF Next, StratumStep, HttpStep, UserEdit
(* A session under settings older than an edit of its pool has the request  *)
(* raised or the HTTP handler has still to raise it: of the three places    *)
(* that clear the request, only the one before the session's copy (line     *)
(* 210) can swallow an edit. Inductive with the published pool index being  *)
(* the session's own, which the handler compares with.                      *)
THEOREM OnlyLaunchLosesEditsAlways == Spec => []OnlyLaunchLosesEdits
<1>1. Init => EditInv
  BY DEF Init, EditInv, RunningIsActive, StaleInSession, OnlyLaunchLosesEdits, Outdated
<1>2. EditInv => OnlyLaunchLosesEdits
  BY DEF EditInv
<1> QED
  BY <1>1, <1>2, TypeCorrect, EditInvStep, PTL DEF Spec

LEMMA ReaderStep ==
    TypeOK /\ RequestReachesReader /\ [Next]_vars => RequestReachesReader'
<1> USE DEF RequestReachesReader, flags, counters, session, others, world, task
<1>1. (ReadSelection \/ CheckRequest \/ RecoveryWaitOver \/ ProbeFirst
         \/ ProbeSecond \/ PickPool \/ Launch \/ CopySettings \/ Connect)
        => pc' # "recv"
  BY DEF ReadSelection, CheckRequest, RecoveryWaitOver, ProbeFirst, ProbeSecond,
     PoolIsBack, PickPool, Launch, CopySettings, Connect, ToTop
<1>2. (ReadFails \/ ReceiveLine \/ PoolEndsSession \/ AfterRun) => pc' # "recv"
  BY DEF ReadFails, ReceiveLine, PoolEndsSession, AfterRun, Leave, ToTop
<1>3. SessionLoop => RequestReachesReader'
  BY DEF SessionLoop, MustLeave, Leave
<1>4. RequestReachesReader /\ (HeartbeatWake \/ HeartbeatProbe \/ HeartbeatRequest)
        /\ TypeOK => RequestReachesReader'
  BY DEF HeartbeatWake, HeartbeatProbe, HeartbeatRequest, TypeOK, DataOK, Heartbeats
<1>5. (HeartbeatShut \/ HttpShut) => sock' # "open"
  BY DEF HeartbeatShut, HttpShut, ShutSocket
<1>6. RequestReachesReader /\ (PatchFlag \/ NotifySelection) /\ TypeOK
        => RequestReachesReader'
  BY DEF PatchFlag, NotifySelection, TypeOK, DataOK, Requests
<1>7. ASSUME NEW p \in Pools
      PROVE  RequestReachesReader /\ NotifyModified(p) /\ TypeOK => RequestReachesReader'
  <2>1. NotifyModified(p) => (shouldReconnect' <=> shouldReconnect \/ p = running)
    BY Zenon DEF NotifyModified, RunsNow
  <2>2. TypeOK /\ NotifyModified(p) /\ p = running => http'.pc = "shut"
    BY DEF NotifyModified, RunsNow, TypeOK, DataOK, Requests
  <2>3. NotifyModified(p) => http.pc # "shut" /\ UNCHANGED <<pc, sock, hb>>
    BY DEF NotifyModified, RunsNow
  <2> QED
    BY <2>1, <2>2, <2>3
<1>8. ASSUME NEW p \in Pools
      PROVE  RequestReachesReader /\ (PutPool(p) \/ DeletePool(p)) => RequestReachesReader'
  <2>1. PutPool(p) => http.pc # "shut" /\ UNCHANGED <<pc, sock, hb, shouldReconnect>>
    BY DEF PutPool, NewRequest, NoRequest
  <2>2. DeletePool(p) => UNCHANGED <<http, pc, sock, hb, shouldReconnect>>
    BY DEF DeletePool
  <2> QED
    BY <2>1, <2>2
<1>9. ASSUME NEW fields, NEW new, NEW edited
      PROVE  RequestReachesReader /\ PatchSystem(fields, new, edited)
               => RequestReachesReader'
  BY DEF PatchSystem, NewRequest, NoRequest
<1>10. RequestReachesReader /\ (WorldChanges \/ UNCHANGED vars) => RequestReachesReader'
  BY DEF WorldChanges, vars
<1>11. pc' # "recv" \/ sock' # "open" => RequestReachesReader'
  OBVIOUS
<1> QED
  BY <1>1, <1>2, <1>3, <1>4, <1>5, <1>6, <1>7, <1>8, <1>9, <1>10, <1>11
  DEF Next, StratumStep, HeartbeatStep, HttpStep, UserEdit

(* A session blocked in a read is never left alone with a raised request:   *)
(* the heartbeat or the HTTP task still has the socket shutdown ahead.      *)
THEOREM RequestsReachReader == Spec => []RequestReachesReader
<1>1. Init => RequestReachesReader
  BY DEF Init, RequestReachesReader
<1> QED
  BY <1>1, TypeCorrect, ReaderStep, PTL DEF Spec
=============================================================================

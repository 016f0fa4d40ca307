--------------------------- MODULE Sv2SessionProofs ---------------------------
(***************************************************************************)
(* Proofs about Sv2Session, for every number of slots, active ids,         *)
(* connections, jobs and messages: the types, and the four safety          *)
(* properties, from one inductive invariant.                               *)
(***************************************************************************)
EXTENDS Sv2Session, TLAPS

(* What the session reads before the channel is open.                       *)
Opening4 == {"connect", "handshake", "setup", "channel"}
InLoop == {"open", "store", "activate", "clear", "complete", "notify"}

Elements(ids) == {ids[i] : i \in 1..Len(ids)}

(* Who writes a share holds the mutex; a transport that is published exists,*)
(* and no job is active before the channel is open.                         *)
Protocol ==
    /\ rpc = "write" =>
         mutex = "result" /\ transport /\ noise /\ spc \notin Opening4
    /\ spc = "reset" => mutex = "session"
    /\ transport => alive /\ spc \notin {"closed", "connect", "reset", "destroy"}
    /\ spc \in Opening4 => active = <<>> /\ newest = NoJob

(* What a message that is handled means.                                    *)
Meaning ==
    /\ spc = "clear" => msg.id \in valid /\ tip # 0
    /\ spc \in {"store", "activate"} => msg.type # "hash"
    /\ spc = "store" /\ msg.type = "job" /\ StartsNow => msg.id \in valid
    /\ spc \in {"activate", "complete"} =>
         msg.id \in valid /\ prevHash # 0 /\ slots[Slot].id = msg.id
    /\ spc \in {"complete", "notify"} =>
         newest = [id |-> msg.id, prev |-> prevHash, session |-> sessions] /\ prevHash # 0
    /\ prevHash # 0 /\ spc # "clear" => prevHash = tip
    /\ spc = "notify" => slots[Slot].prev # 0

ActiveIsValid == spc # "clear" /\ ~lostJob => Elements(active) \subseteq valid

(* What is pending, or handled, belongs to the running connection.          *)
OwnSlots ==
    /\ \A s \in pending : slots[s].session = sessions
    /\ spc \in {"activate", "complete", "notify"} => slots[Slot].session = sessions

HasHash(s) == s \in spoiled \/ slots[s].prev # 0 \/ (spc = "complete" /\ s = Slot)
WorkHasHash ==
    /\ notification # None => HasHash(notification)
    /\ currentWork # None => HasHash(currentWork)

NewestIsKept ==
    spc \in InLoop /\ newest # NoJob =>
      LET s == SlotOf(newest.id) IN
      /\ newest.id # 0
      /\ ~lostJob /\ spc # "clear" => newest.prev = prevHash
      /\ s \notin spoiled =>
           /\ slots[s].id = newest.id
           /\ spc = "complete" \/ slots[s].prev = newest.prev
      /\ \/ spc \in {"complete", "notify"}
         \/ notification = s
         \/ notification = None /\ currentWork = s /\ hasWork

---------------------------------------------------------------------------
(* Types                                                                    *)

(* The slot of an id is a slot.                                             *)
LEMMA SlotOfType == \A id \in Nat : SlotOf(id) \in Slots
  BY Sv2Assumption DEF SlotOf, Slots

(* The ids appended to a list are those of the list, but for the oldest one *)
(* when it is full, and the new one.                                        *)
LEMMA AddActiveElements ==
    ASSUME NEW ids \in Seq(Ids), Len(ids) <= MaxActive, NEW id \in Ids
    PROVE  /\ AddActive(ids, id) \in Seq(Ids)
           /\ Len(AddActive(ids, id)) <= MaxActive
           /\ Elements(AddActive(ids, id)) \subseteq Elements(ids) \cup {id}
<1> USE Sv2Assumption
<1>1. CASE Len(ids) < MaxActive
  <2>1. AddActive(ids, id) = Append(ids, id)
    BY <1>1 DEF AddActive
  <2>2. \A i \in 1..Len(Append(ids, id)) : Append(ids, id)[i] \in Elements(ids) \cup {id}
    BY DEF Elements
  <2> QED
    BY <1>1, <2>1, <2>2 DEF Elements
<1>2. CASE ~(Len(ids) < MaxActive)
  <2>1. AddActive(ids, id) = Append(Tail(ids), id) /\ Len(ids) = MaxActive
    BY <1>2 DEF AddActive
  <2>2. /\ Tail(ids) \in Seq(Ids) /\ Len(Tail(ids)) = Len(ids) - 1
        /\ \A i \in 1..Len(Tail(ids)) : Tail(ids)[i] = ids[i + 1]
    BY <2>1
  <2>3. \A i \in 1..Len(Append(Tail(ids), id)) :
            Append(Tail(ids), id)[i] \in Elements(ids) \cup {id}
    BY <2>1, <2>2 DEF Elements
  <2> QED
    BY <2>1, <2>2, <2>3 DEF Elements
<1> QED
  BY <1>1, <1>2

(* A message has an id.                                                     *)
LEMMA MessageIds == msg \in Messages \cup {NoMessage} /\ msg # NoMessage => msg.id \in Ids
  BY DEF Messages, NoMessage

(* The flags no message changes.                                           *)
OtherFlagsKept ==
    UNCHANGED <<published, noise, transport, alive, mutex, extended, cpc, rpc, hasWork,
                workSent>>

(* A step that leaves them alone keeps the flags, wherever the session goes.*)
LEMMA FlagsKept ==
    ASSUME FlagsOK, OtherFlagsKept, lostJob' = lostJob,
           spc' \in {"store", "open", "activate", "clear"}
    PROVE  FlagsOK'
<1>1. /\ published' \in BOOLEAN /\ noise' \in BOOLEAN /\ transport' \in BOOLEAN
      /\ alive' \in BOOLEAN /\ mutex' \in {None, "session", "result"}
      /\ extended' \in BOOLEAN /\ cpc' \in {"wait", "build", "send"}
  BY Zenon DEF FlagsOK, OtherFlagsKept
<1>2. /\ rpc' \in {"idle", "found", "write"} /\ hasWork' \in BOOLEAN
      /\ workSent' \in BOOLEAN /\ lostJob' \in BOOLEAN
  BY Zenon DEF FlagsOK, OtherFlagsKept
<1> QED
  BY <1>1, <1>2, Zenon DEF FlagsOK

(* The flags are only ever set to a constant or left alone.                 *)
LEMMA FlagStep == FlagsOK /\ [Next]_vars => FlagsOK'
<1> USE DEF FlagsOK, connection, channel, work, result, pool, history
<1>1. FlagsOK /\ Connect => FlagsOK'
  BY Zenon DEF Connect
<1>2. FlagsOK /\ ConnectFails => FlagsOK'
  BY Zenon DEF ConnectFails
<1>3. FlagsOK /\ PublishTransport => FlagsOK'
  BY Zenon DEF PublishTransport
<1>4. FlagsOK /\ CreateNoise => FlagsOK'
  BY Zenon DEF CreateNoise
<1>5. FlagsOK /\ Handshake => FlagsOK'
  BY Zenon DEF Handshake, Opening
<1>6. FlagsOK /\ SetUpConnection => FlagsOK'
  BY Zenon DEF SetUpConnection, Opening
<1>7. FlagsOK /\ OpenChannel => FlagsOK'
  BY Zenon DEF OpenChannel, Opening
<1>8. FlagsOK /\ LeaveLoop => FlagsOK'
  BY Zenon DEF LeaveLoop
<1>9. FlagsOK /\ Unpublish => FlagsOK'
  BY Zenon DEF Unpublish, TakesMutex
<1>10. FlagsOK /\ ResetSession => FlagsOK'
  BY Zenon DEF ResetSession
<1>11. FlagsOK /\ Destroy => FlagsOK'
  BY Zenon DEF Destroy
<1>12. FlagsOK /\ ReadJob => FlagsOK'
  BY Zenon DEF ReadJob, ReadMessage
<1>13. FlagsOK /\ ReadOddJob => FlagsOK'
  <2>1. \A m : ReadMessage(m, "store") => spc' = "store" /\ OtherFlagsKept
    BY Zenon DEF ReadMessage, OtherFlagsKept
  <2>2. ReadOddJob => spc' = "store" /\ UNCHANGED lostJob
    BY <2>1, Zenon DEF ReadOddJob
  <2>3. ReadOddJob => OtherFlagsKept
    BY <2>1, Zenon DEF ReadOddJob
  <2> QED
    BY <2>2, <2>3, FlagsKept, Zenon
<1>14. FlagsOK /\ ReadPrevHash => FlagsOK'
  <2>1. \A m : ReadMessage(m, "clear") => spc' = "clear" /\ OtherFlagsKept
    BY Zenon DEF ReadMessage, OtherFlagsKept
  <2>2. ReadPrevHash => spc' = "clear" /\ UNCHANGED lostJob
    BY <2>1, Zenon DEF ReadPrevHash
  <2>3. ReadPrevHash => OtherFlagsKept
    BY <2>1, Zenon DEF ReadPrevHash
  <2> QED
    BY <2>2, <2>3, FlagsKept, Zenon
<1>15. FlagsOK /\ StoreJob => FlagsOK'
  <2>1. StoreJob => spc' = "open" \/ spc' = "activate"
    BY Zenon DEF StoreJob
  <2>2. StoreJob => UNCHANGED lostJob /\ OtherFlagsKept
    BY Zenon DEF StoreJob, OtherFlagsKept
  <2> QED
    BY <2>1, <2>2, FlagsKept, Zenon
<1>16. FlagsOK /\ ActivateNow => FlagsOK'
  BY Zenon DEF ActivateNow
<1>17. FlagsOK /\ ClearActive => FlagsOK'
  BY Zenon DEF ClearActive
<1>18. FlagsOK /\ CompleteJob => FlagsOK'
  BY Zenon DEF CompleteJob
<1>19. FlagsOK /\ Notify => FlagsOK'
  BY Zenon DEF Notify
<1>20. FlagsOK /\ TakeNotification => FlagsOK'
  BY Zenon DEF TakeNotification, NotSent
<1>21. FlagsOK /\ DropWork => FlagsOK'
  BY Zenon DEF DropWork
<1>22. FlagsOK /\ NextCycle => FlagsOK'
  BY Zenon DEF NextCycle
<1>23. FlagsOK /\ BuildJob => FlagsOK'
  BY Zenon DEF BuildJob
<1>24. FlagsOK /\ SendJob => FlagsOK'
  BY Zenon DEF SendJob
<1>25. FlagsOK /\ FindNonce => FlagsOK'
  BY Zenon DEF FindNonce
<1>26. FlagsOK /\ DropShare => FlagsOK'
  BY Zenon DEF DropShare
<1>27. FlagsOK /\ SubmitShare => FlagsOK'
  BY Zenon DEF SubmitShare
<1>28. FlagsOK /\ WriteShare => FlagsOK'
  BY Zenon DEF WriteShare
<1>29. FlagsOK /\ UNCHANGED vars => FlagsOK'
  BY Zenon DEF vars
<1> QED
  BY <1>1, <1>2, <1>3, <1>4, <1>5, <1>6, <1>7, <1>8, <1>9, <1>10, <1>11, <1>12, <1>13, <1>14, <1>15, <1>16, <1>17, <1>18, <1>19, <1>20, <1>21, <1>22, <1>23, <1>24, <1>25, <1>26, <1>27, <1>28, <1>29, Zenon DEF Next, Handling, Closing, CreatingJobs

(* A message that is handled has a slot.                                    *)
LEMMA SlotType ==
    ASSUME TypeOK, spc \in {"store", "activate", "clear", "complete", "notify"}
    PROVE  msg.id \in Ids /\ msg.id \in Nat /\ Slot \in Slots
<1>1. msg.id \in Ids
  BY MessageIds DEF TypeOK, DataOK, Busy
<1> QED
  BY <1>1, SlotOfType, Sv2Assumption DEF Ids, Slot

(* The data keeps its types, step by step.                                  *)
LEMMA DataStep == TypeOK /\ [Next]_vars => DataOK'
<1> USE Sv2Assumption DEF connection, channel, work, result, pool, history
<1>1. DataOK /\ Connect => DataOK'
  BY DEF DataOK, Connect, Hashes, NoJob, Built, Sessions
<1>2. DataOK /\ (ConnectFails \/ PublishTransport \/ CreateNoise \/ LeaveLoop) => DataOK'
  BY DEF DataOK, ConnectFails, PublishTransport, CreateNoise, LeaveLoop
<1>3. DataOK /\ (Handshake \/ SetUpConnection \/ OpenChannel) => DataOK'
  BY DEF DataOK, Handshake, SetUpConnection, OpenChannel, Opening
<1>4. DataOK /\ Closing => DataOK'
  <2>1. DataOK /\ Unpublish => DataOK'
    BY DEF DataOK, Unpublish
  <2>2. DataOK /\ ResetSession => DataOK'
    BY DEF DataOK, ResetSession, NoJob, Built, Hashes, Sessions, Gaps
  <2>3. DataOK /\ Destroy => DataOK'
    BY DEF DataOK, Destroy
  <2> QED
    BY <2>1, <2>2, <2>3 DEF Closing
<1>5. DataOK /\ ReadJob => DataOK'
  <2> SUFFICES ASSUME DataOK, NEW now \in BOOLEAN, announced < MaxJobs,
                      ReadMessage([type |-> "job", id |-> announced + 1, now |-> now], "store"),
                      announced' = announced + 1,
                      future' \in {future, future \cup {announced + 1}},
                      valid' \in {valid, valid \cup {announced + 1}},
                      UNCHANGED <<sessions, tip, history>>
               PROVE  DataOK'
    BY Zenon DEF ReadJob
  <2>1. announced + 1 \in Ids /\ announced' \in 0..MaxJobs
    BY DEF DataOK, Ids
  <2>2. [type |-> "job", id |-> announced + 1, now |-> now] \in Messages
    BY <2>1 DEF Messages
  <2>3. msg' \in Messages
    BY <2>2, Zenon DEF ReadMessage
  <2> QED
    BY <2>1, <2>3 DEF DataOK, ReadMessage
<1>6. DataOK /\ ReadOddJob => DataOK'
  <2> SUFFICES ASSUME DataOK, NEW id \in Ids, NEW type \in {"job", "foreign"},
                      ReadMessage([type |-> type, id |-> id, now |-> TRUE], "store"),
                      UNCHANGED <<sessions, announced, future, valid, tip, history>>
               PROVE  DataOK'
    BY Zenon DEF ReadOddJob, DataOK
  <2>1. [type |-> type, id |-> id, now |-> TRUE] \in Messages
    BY DEF Messages
  <2>2. msg' \in Messages
    BY <2>1, Zenon DEF ReadMessage
  <2> QED
    BY <2>2 DEF DataOK, ReadMessage
<1>7. DataOK /\ ReadPrevHash => DataOK'
  <2> SUFFICES ASSUME DataOK, NEW id \in future, tip < MaxHashes, tip' = tip + 1,
                      ReadMessage([type |-> "hash", id |-> id], "clear"),
                      valid' = {id}, future' = {}, gaps' = gaps \/ gaps' = gaps \cup {"late"},
                      UNCHANGED <<sessions, announced, newest, spoiled, lostJob>>
               PROVE  DataOK'
    <3>1. gaps \cup {} = gaps
      OBVIOUS
    <3> QED
      BY <3>1, Zenon DEF ReadPrevHash
  <2>1. id \in Ids /\ tip' \in Hashes
    BY DEF DataOK, Hashes
  <2>4. gaps' \subseteq Gaps
    BY DEF DataOK, Gaps
  <2>2. [type |-> "hash", id |-> id] \in Messages
    BY <2>1 DEF Messages
  <2>3. msg' \in Messages
    BY <2>2, Zenon DEF ReadMessage
  <2> QED
    BY <2>1, <2>3, <2>4 DEF DataOK, ReadMessage
<1>8. TypeOK /\ StoreJob => DataOK'
  <2> SUFFICES ASSUME TypeOK, StoreJob PROVE DataOK'
    OBVIOUS
  <2> DEFINE new == [id |-> msg.id, prev |-> 0, session |-> sessions, clean |-> FALSE,
                     rollable |-> extended /\ msg.type = "job"]
  <2>1. msg.id \in Ids /\ Slot \in Slots
    BY SlotType DEF StoreJob
  <2>2. 0 \in Hashes /\ sessions \in Sessions /\ (extended /\ msg.type = "job") \in BOOLEAN
    BY DEF Hashes, TypeOK, DataOK
  <2>3. new \in Job
    BY <2>1, <2>2, Zenon DEF Job
  <2>4. slots' = [slots EXCEPT ![Slot] = new]
    BY DEF StoreJob
  <2>5. slots' \in [Slots -> Job]
    <3>1. slots \in [Slots -> Job]
      BY DEF TypeOK, DataOK
    <3> HIDE DEF new
    <3> QED
      BY <2>1, <2>3, <2>4, <3>1
  <2>6. pending' \subseteq Slots /\ spoiled' \subseteq Slots
    BY <2>1 DEF StoreJob, TypeOK, DataOK
  <2>7. msg' \in Messages \cup {NoMessage} /\ gaps' \subseteq Gaps
    BY DEF StoreJob, TypeOK, DataOK, Gaps
  <2> QED
    BY <2>5, <2>6, <2>7 DEF StoreJob, TypeOK, DataOK
<1>9. TypeOK /\ ActivateNow => DataOK'
  <2> SUFFICES ASSUME TypeOK, ActivateNow PROVE DataOK'
    OBVIOUS
  <2>1. msg.id \in Ids /\ Slot \in Slots
    BY SlotType DEF ActivateNow
  <2>2. active \in Seq(Ids) /\ Len(active) <= MaxActive
    BY DEF TypeOK, DataOK
  <2>3. AddActive(active, msg.id) \in Seq(Ids) /\ Len(AddActive(active, msg.id)) <= MaxActive
    BY <2>1, <2>2, AddActiveElements
  <2>4. active' \in Seq(Ids) /\ Len(active') <= MaxActive
    BY <2>2, <2>3 DEF ActivateNow
  <2>5. newest' \in Built
    BY <2>1 DEF ActivateNow, TypeOK, DataOK, Built
  <2> QED
    BY <2>4, <2>5 DEF ActivateNow, TypeOK, DataOK
<1>10. TypeOK /\ ClearActive => DataOK'
  <2> SUFFICES ASSUME TypeOK, ClearActive PROVE DataOK'
    OBVIOUS
  <2>1. msg.id \in Ids /\ Slot \in Slots
    BY SlotType DEF ClearActive
  <2>2. <<msg.id>> \in Seq(Ids) /\ Len(<<msg.id>>) <= MaxActive
    BY <2>1
  <2>3. newest' \in Built
    BY <2>1 DEF ClearActive, TypeOK, DataOK, Built
  <2> QED
    BY <2>2, <2>3 DEF ClearActive, ActiveAlone, TypeOK, DataOK
<1>11. TypeOK /\ CompleteJob => DataOK'
  <2> SUFFICES ASSUME TypeOK, CompleteJob PROVE DataOK'
    OBVIOUS
  <2>1. /\ Slot \in Slots /\ slots \in [Slots -> Job] /\ prevHash \in Hashes
        /\ (msg.type = "hash") \in BOOLEAN
    BY SlotType DEF CompleteJob, TypeOK, DataOK
  <2>2. [slots[Slot] EXCEPT !.prev = prevHash] \in Job
    BY <2>1 DEF Job
  <2>3. [[slots[Slot] EXCEPT !.prev = prevHash] EXCEPT !.clean = msg.type = "hash"] \in Job
    BY <2>1, <2>2 DEF Job
  <2>4. /\ DOMAIN slots' = Slots /\ slots' = [s \in Slots |-> slots'[s]]
        /\ \A s \in Slots : s # Slot => slots'[s] = slots[s]
        /\ slots'[Slot] = [[slots[Slot] EXCEPT !.prev = prevHash] EXCEPT !.clean = msg.type = "hash"]
    BY <2>1 DEF CompleteJob
  <2>5. slots' \in [Slots -> Job]
    BY <2>1, <2>3, <2>4
  <2> QED
    BY <2>5 DEF TypeOK, DataOK, CompleteJob
<1>12. TypeOK /\ Notify => DataOK'
  BY SlotType DEF TypeOK, DataOK, Notify
<1>13. DataOK /\ (TakeNotification \/ DropWork \/ NextCycle \/ SendJob) => DataOK'
  <2>1. DataOK /\ TakeNotification => DataOK'
    BY DEF DataOK, TakeNotification
  <2>2. DataOK /\ (DropWork \/ NextCycle \/ SendJob) => DataOK'
    BY DEF DataOK, DropWork, NextCycle, SendJob
  <2> QED
    BY <2>1, <2>2
<1>14. TypeOK /\ BuildJob => DataOK'
  BY DEF TypeOK, Busy, DataOK, BuildJob, Job, Built
<1>15. DataOK /\ (FindNonce \/ DropShare \/ SubmitShare \/ WriteShare) => DataOK'
  <2>1. NoJob \in Built
    BY DEF NoJob, Built, Hashes, Sessions
  <2> QED
    BY <2>1 DEF DataOK, FindNonce, DropShare, SubmitShare, WriteShare, Gaps
<1>16. DataOK /\ UNCHANGED vars => DataOK'
  BY DEF DataOK, vars
<1> QED
  BY <1>1, <1>2, <1>3, <1>4, <1>5, <1>6, <1>7, <1>8, <1>9, <1>10, <1>11, <1>12, <1>13,
     <1>14, <1>15, <1>16, Zenon DEF TypeOK, Next, Handling, CreatingJobs

(* Whatever is handled, or built from, is there.                            *)
LEMMA BusyStep == TypeOK /\ [Next]_vars => Busy'
<1> USE DEF connection, channel, work, result, pool, history
<1>1. TypeOK /\ (Connect \/ ConnectFails \/ PublishTransport \/ CreateNoise \/ LeaveLoop) => Busy'
  BY DEF TypeOK, Busy, Connect, ConnectFails, PublishTransport, CreateNoise, LeaveLoop
<1>2. TypeOK /\ (Handshake \/ SetUpConnection \/ OpenChannel) => Busy'
  BY DEF TypeOK, Busy, Handshake, SetUpConnection, OpenChannel, Opening
<1>3. TypeOK /\ Closing => Busy'
  BY DEF TypeOK, Busy, Closing, Unpublish, ResetSession, Destroy
<1>4. TypeOK /\ (ReadJob \/ ReadOddJob \/ ReadPrevHash) => Busy'
  BY DEF TypeOK, Busy, ReadJob, ReadOddJob, ReadPrevHash, ReadMessage, NoMessage
<1>5. TypeOK /\ Handling => Busy'
  BY DEF TypeOK, Busy, Handling, StoreJob, ActivateNow, ClearActive, CompleteJob, Notify
<1>6. TypeOK /\ CreatingJobs => Busy'
  BY Sv2Assumption DEF TypeOK, FlagsOK, DataOK, Busy, CreatingJobs, TakeNotification, DropWork,
     NextCycle, BuildJob, SendJob
<1>7. TypeOK /\ (FindNonce \/ DropShare \/ SubmitShare \/ WriteShare) => Busy'
  BY DEF TypeOK, Busy, FindNonce, DropShare, SubmitShare, WriteShare
<1>8. TypeOK /\ UNCHANGED vars => Busy'
  BY DEF TypeOK, Busy, vars
<1> QED
  BY <1>1, <1>2, <1>3, <1>4, <1>5, <1>6, <1>7, <1>8, Zenon DEF Next

(* The types hold at first.                                                 *)
LEMMA TypeInit == Init => TypeOK
<1> SUFFICES ASSUME Init PROVE TypeOK
  OBVIOUS
<1>1. FlagsOK
  BY Zenon DEF Init, FlagsOK
<1>2. DataOK
  BY Sv2Assumption DEF Init, DataOK, Hashes, Sessions, Ids, Slots, Blank, Job, NoJob, Built, Gaps
<1>3. Busy
  BY DEF Init, Busy
<1> QED
  BY <1>1, <1>2, <1>3 DEF TypeOK

(* Every variable keeps its type.                                           *)
THEOREM TypeCorrect == Spec => []TypeOK
<1>1. TypeOK /\ [Next]_vars => TypeOK'
  BY FlagStep, DataStep, BusyStep DEF TypeOK
<1> QED
  BY TypeInit, <1>1, PTL DEF Spec

---------------------------------------------------------------------------
(* The mutex and the transport                                              *)

(* The session gives up a transport only under the mutex, so whoever writes *)
(* a share keeps it.                                                        *)
LEMMA ProtocolStep == FlagsOK /\ Protocol /\ [Next]_vars => Protocol'
<1> USE Sv2Assumption DEF Protocol, Opening4, connection, channel, work, result, pool, history
<1>1. FlagsOK /\ Protocol /\ Connect => Protocol'
  BY DEF FlagsOK, Connect
<1>2. FlagsOK /\ Protocol /\ (ConnectFails \/ PublishTransport \/ CreateNoise \/ LeaveLoop) => Protocol'
  BY DEF FlagsOK, ConnectFails, PublishTransport, CreateNoise, LeaveLoop
<1>3. FlagsOK /\ Protocol /\ (Handshake \/ SetUpConnection \/ OpenChannel) => Protocol'
  BY DEF FlagsOK, Handshake, SetUpConnection, OpenChannel, Opening
<1>4. FlagsOK /\ Protocol /\ Closing => Protocol'
  BY DEF FlagsOK, Closing, Unpublish, TakesMutex, ResetSession, Destroy
<1>5. FlagsOK /\ Protocol /\ (ReadJob \/ ReadOddJob \/ ReadPrevHash) => Protocol'
  BY DEF FlagsOK, ReadJob, ReadOddJob, ReadPrevHash, ReadMessage
<1>6. FlagsOK /\ Protocol /\ Handling => Protocol'
  BY DEF FlagsOK, Handling, StoreJob, ActivateNow, ClearActive, CompleteJob, Notify
<1>7. FlagsOK /\ Protocol /\ CreatingJobs => Protocol'
  BY DEF FlagsOK, CreatingJobs, TakeNotification, DropWork, NextCycle, BuildJob, SendJob
<1>8. FlagsOK /\ Protocol /\ (FindNonce \/ DropShare) => Protocol'
  BY DEF FlagsOK, FindNonce, DropShare
<1>9. FlagsOK /\ Protocol /\ SubmitShare => Protocol'
  BY DEF FlagsOK, SubmitShare, MaySubmit, IsActive
<1>10. FlagsOK /\ Protocol /\ WriteShare => Protocol'
  BY DEF FlagsOK, WriteShare
<1>11. FlagsOK /\ Protocol /\ UNCHANGED vars => Protocol'
  BY DEF vars
<1> QED
  BY <1>1, <1>2, <1>3, <1>4, <1>5, <1>6, <1>7, <1>8, <1>9, <1>10, <1>11, Zenon DEF Next

---------------------------------------------------------------------------
(* Messages and jobs                                                        *)

(* A message keeps its meaning while it is handled: what its first step     *)
(* established about its slot and its id still holds at the later ones.     *)
LEMMA MeaningStep == TypeOK /\ Meaning /\ [Next]_vars => Meaning'
<1> USE Sv2Assumption DEF Meaning, connection, channel, work, result, pool, history
<1>1. TypeOK /\ Meaning /\ (Connect \/ ConnectFails \/ PublishTransport \/ CreateNoise) => Meaning'
  BY DEF Connect, ConnectFails, PublishTransport, CreateNoise, StartsNow, Slot
<1>2. TypeOK /\ Meaning /\ (Handshake \/ SetUpConnection \/ OpenChannel \/ LeaveLoop) => Meaning'
  BY DEF Handshake, SetUpConnection, OpenChannel, Opening, LeaveLoop, StartsNow, Slot
<1>3. TypeOK /\ Meaning /\ Closing => Meaning'
  BY DEF Closing, Unpublish, ResetSession, Destroy, StartsNow, Slot
<1>4. TypeOK /\ Meaning /\ ReadJob => Meaning'
  BY DEF ReadJob, ReadMessage, StartsNow
<1>5. TypeOK /\ Meaning /\ ReadOddJob => Meaning'
  BY DEF ReadOddJob, ReadMessage, StartsNow
<1>6. TypeOK /\ Meaning /\ ReadPrevHash => Meaning'
  BY DEF TypeOK, DataOK, Hashes, ReadPrevHash, ReadMessage, StartsNow
<1>7. TypeOK /\ Meaning /\ StoreJob => Meaning'
  <2> SUFFICES ASSUME TypeOK, Meaning, StoreJob PROVE Meaning'
    OBVIOUS
  <2>1. spc = "store" /\ Slot \in Slots /\ slots \in [Slots -> Job]
    BY SlotType DEF StoreJob, TypeOK, DataOK
  <2>2. slots'[Slot].id = msg.id
    BY <2>1 DEF StoreJob
  <2>3. /\ spc' = "open" \/ (spc' = "activate" /\ msg' = msg /\ msg.type # "foreign" /\ StartsNow)
        /\ prevHash' = prevHash /\ valid' = valid /\ tip' = tip
    BY DEF StoreJob
  <2>4. msg.type = "job" \/ msg.type = "foreign"
    BY <2>1, SlotType, MessageIds DEF TypeOK, DataOK, Busy, Messages, NoMessage
  <2>5. spc' = "activate" =>
          /\ msg'.id \in valid' /\ prevHash' # 0 /\ msg' = msg /\ msg'.type # "hash"
    BY <2>1, <2>3, <2>4 DEF StartsNow
  <2>6. spc' = "activate" => slots'[Slot'].id = msg'.id
    BY <2>2, <2>5 DEF Slot
  <2> QED
    BY <2>1, <2>3, <2>5, <2>6
<1>8. TypeOK /\ Meaning /\ ActivateNow => Meaning'
  BY DEF ActivateNow, Slot
<1>9. TypeOK /\ Meaning /\ ClearActive => Meaning'
  <2> SUFFICES ASSUME TypeOK, Meaning, ClearActive PROVE Meaning'
    OBVIOUS
  <2>1. /\ spc = "clear" /\ msg.id \in valid /\ tip # 0
        /\ UNCHANGED <<slots, valid, tip, sessions>> /\ prevHash' = tip
    BY DEF ClearActive, Meaning
  <2>2. CASE HasFutureJob
    <3>1. /\ spc' = "complete" /\ msg' = msg /\ slots[Slot].id = msg.id
          /\ newest' = [id |-> msg.id, prev |-> tip, session |-> sessions]
      BY <2>2 DEF ClearActive, HasFutureJob
    <3> QED
      BY <2>1, <3>1 DEF Slot
  <2>3. CASE ~HasFutureJob
    <3>1. spc' = "open"
      BY <2>3 DEF ClearActive
    <3> QED
      BY <2>1, <3>1
  <2> QED
    BY <2>2, <2>3
<1>10. TypeOK /\ Meaning /\ CompleteJob => Meaning'
  BY SlotType DEF TypeOK, DataOK, CompleteJob, Job, Slot
<1>11. TypeOK /\ Meaning /\ Notify => Meaning'
  BY DEF Notify, StartsNow, Slot
<1>12. TypeOK /\ Meaning /\ CreatingJobs => Meaning'
  BY DEF CreatingJobs, TakeNotification, DropWork, NextCycle, BuildJob, SendJob, StartsNow, Slot
<1>13. TypeOK /\ Meaning /\ (FindNonce \/ DropShare \/ SubmitShare \/ WriteShare) => Meaning'
  BY DEF FindNonce, DropShare, SubmitShare, WriteShare, StartsNow, Slot
<1>14. TypeOK /\ Meaning /\ UNCHANGED vars => Meaning'
  BY DEF vars, StartsNow, Slot
<1> QED
  BY <1>1, <1>2, <1>3, <1>4, <1>5, <1>6, <1>7, <1>8, <1>9, <1>10, <1>11, <1>12, <1>13,
     <1>14, Zenon DEF Next, Handling

(* An id enters the active ones only when the pool takes shares for it, and *)
(* the others leave with the block hash that ends them.                     *)
LEMMA ActiveStep ==
    TypeOK /\ Meaning /\ ActiveIsValid /\ [Next]_vars => ActiveIsValid'
<1> USE Sv2Assumption DEF ActiveIsValid, connection, channel, work, result, pool, history
<1>1. TypeOK /\ ActiveIsValid /\ Connect => ActiveIsValid'
  BY DEF Connect, Elements
<1>2. TypeOK /\ ActiveIsValid /\ (ConnectFails \/ PublishTransport \/ CreateNoise) => ActiveIsValid'
  BY DEF ConnectFails, PublishTransport, CreateNoise, Elements
<1>3. TypeOK /\ ActiveIsValid /\ (Handshake \/ SetUpConnection \/ OpenChannel \/ LeaveLoop)
        => ActiveIsValid'
  BY DEF Handshake, SetUpConnection, OpenChannel, Opening, LeaveLoop, Elements
<1>4. TypeOK /\ ActiveIsValid /\ Closing => ActiveIsValid'
  BY DEF Closing, Unpublish, ResetSession, Destroy, Elements
<1>5. TypeOK /\ ActiveIsValid /\ (ReadJob \/ ReadOddJob) => ActiveIsValid'
  BY DEF ReadJob, ReadOddJob, ReadMessage, Elements
<1>6. ReadPrevHash => ActiveIsValid'
  BY DEF ReadPrevHash, ReadMessage
<1>7. TypeOK /\ ActiveIsValid /\ (StoreJob \/ CompleteJob \/ Notify) => ActiveIsValid'
  BY DEF StoreJob, CompleteJob, Notify, Elements
<1>8. ASSUME TypeOK, Meaning, ActiveIsValid, ActivateNow PROVE ActiveIsValid'
  <2>1. active \in Seq(Ids) /\ Len(active) <= MaxActive /\ msg.id \in Ids /\ msg.id \in valid
    BY <1>8, SlotType DEF TypeOK, DataOK, Meaning, ActivateNow
  <2>2. Elements(AddActive(active, msg.id)) \subseteq Elements(active) \cup {msg.id}
    BY <2>1, AddActiveElements
  <2>3. lostJob' = lostJob /\ valid' = valid /\ spc = "activate"
        /\ (active' = active \/ active' = AddActive(active, msg.id))
    BY <1>8 DEF ActivateNow
  <2>4. CASE active' = active
    BY <1>8, <2>3, <2>4 DEF Elements
  <2>5. CASE active' = AddActive(active, msg.id)
    BY <1>8, <2>1, <2>2, <2>3, <2>5 DEF Elements
  <2> QED
    BY <2>3, <2>4, <2>5
<1>9. ASSUME TypeOK, Meaning, ActiveIsValid, ClearActive PROVE ActiveIsValid'
  BY <1>9 DEF Meaning, ClearActive, ActiveAlone, Elements
<1>10. TypeOK /\ ActiveIsValid /\ CreatingJobs => ActiveIsValid'
  BY DEF CreatingJobs, TakeNotification, DropWork, NextCycle, BuildJob, SendJob, Elements
<1>11. TypeOK /\ ActiveIsValid /\ (FindNonce \/ DropShare \/ SubmitShare \/ WriteShare)
         => ActiveIsValid'
  BY DEF FindNonce, DropShare, SubmitShare, WriteShare, Elements
<1>12. ActiveIsValid /\ UNCHANGED vars => ActiveIsValid'
  BY DEF vars, Elements
<1> QED
  BY <1>1, <1>2, <1>3, <1>4, <1>5, <1>6, <1>7, <1>8, <1>9, <1>10, <1>11, <1>12, Zenon
     DEF Next, Handling

---------------------------------------------------------------------------
(* The work of create_jobs_task                                             *)

(* A slot is announced only once its job has its block hash, and a later    *)
(* job in the slot marks it spoiled.                                        *)
LEMMA WorkHasHashStep ==
    TypeOK /\ Meaning /\ WorkHasHash /\ [Next]_vars => WorkHasHash'
<1> USE Sv2Assumption DEF WorkHasHash, HasHash, connection, channel, work, result, pool, history
<1>1. TypeOK /\ WorkHasHash /\ (Connect \/ ConnectFails \/ PublishTransport \/ CreateNoise)
        => WorkHasHash'
  BY DEF Connect, ConnectFails, PublishTransport, CreateNoise, Slot
<1>2. TypeOK /\ WorkHasHash /\ (Handshake \/ SetUpConnection \/ OpenChannel \/ LeaveLoop)
        => WorkHasHash'
  BY DEF Handshake, SetUpConnection, OpenChannel, Opening, LeaveLoop, Slot
<1>3. TypeOK /\ WorkHasHash /\ Closing => WorkHasHash'
  BY DEF Closing, Unpublish, ResetSession, Destroy, Slot
<1>4. TypeOK /\ WorkHasHash /\ (ReadJob \/ ReadOddJob \/ ReadPrevHash) => WorkHasHash'
  BY DEF ReadJob, ReadOddJob, ReadPrevHash, ReadMessage
<1>5. ASSUME TypeOK, WorkHasHash, StoreJob PROVE WorkHasHash'
  <2>1. spc = "store" /\ Slot \in Slots /\ slots \in [Slots -> Job]
    BY <1>5, SlotType DEF StoreJob, TypeOK, DataOK
  <2>2. /\ \A s \in Slots : s # Slot => slots'[s] = slots[s]
        /\ UNCHANGED <<notification, currentWork>>
    BY <1>5, <2>1 DEF StoreJob
  <2>3. spoiled \subseteq spoiled' /\ (Slot = notification \/ Slot = currentWork => Slot \in spoiled')
    BY <1>5 DEF StoreJob, Overwrites
  <2> QED
    BY <1>5, <2>1, <2>2, <2>3 DEF TypeOK, DataOK
<1>6. TypeOK /\ WorkHasHash /\ ActivateNow => WorkHasHash'
  BY DEF ActivateNow, Slot
<1>7. TypeOK /\ WorkHasHash /\ ClearActive => WorkHasHash'
  BY DEF ClearActive, Slot
<1>8. ASSUME TypeOK, Meaning, WorkHasHash, CompleteJob PROVE WorkHasHash'
  <2>1. Slot \in Slots /\ slots \in [Slots -> Job] /\ prevHash # 0
    BY <1>8, SlotType DEF CompleteJob, TypeOK, DataOK, Meaning
  <2>2. \A s \in Slots : slots'[s].prev = IF s = Slot THEN prevHash ELSE slots[s].prev
    BY <1>8, <2>1 DEF CompleteJob, Job
  <2> QED
    BY <1>8, <2>1, <2>2 DEF CompleteJob, TypeOK, DataOK
<1>9. TypeOK /\ Meaning /\ WorkHasHash /\ Notify => WorkHasHash'
  BY DEF Notify, Meaning, Slot
<1>10. TypeOK /\ WorkHasHash /\ TakeNotification => WorkHasHash'
  BY DEF TakeNotification, Slot
<1>11. TypeOK /\ WorkHasHash /\ (DropWork \/ NextCycle \/ BuildJob \/ SendJob) => WorkHasHash'
  BY DEF DropWork, NextCycle, BuildJob, SendJob, Slot
<1>12. TypeOK /\ WorkHasHash /\ (FindNonce \/ DropShare \/ SubmitShare \/ WriteShare)
         => WorkHasHash'
  BY DEF FindNonce, DropShare, SubmitShare, WriteShare, Slot
<1>13. TypeOK /\ WorkHasHash /\ UNCHANGED vars => WorkHasHash'
  BY DEF vars, Slot
<1> QED
  BY <1>1, <1>2, <1>3, <1>4, <1>5, <1>6, <1>7, <1>8, <1>9, <1>10, <1>11, <1>12, <1>13, Zenon
     DEF Next, Handling, CreatingJobs

(* The newest job is on its way to create_jobs_task, or there.              *)
LEMMA NewestIsKeptStep ==
    TypeOK /\ Protocol /\ Meaning /\ NewestIsKept /\ [Next]_vars => NewestIsKept'
<1> USE Sv2Assumption DEF NewestIsKept, InLoop, connection, channel, work, result, pool, history
<1>1. NewestIsKept /\ (Connect \/ ConnectFails \/ PublishTransport \/ CreateNoise)
        => NewestIsKept'
  BY DEF Connect, ConnectFails, PublishTransport, CreateNoise
<1>2. NewestIsKept /\ (Handshake \/ SetUpConnection \/ LeaveLoop) => NewestIsKept'
  BY DEF Handshake, SetUpConnection, Opening, LeaveLoop
<1>3. Protocol /\ NewestIsKept /\ OpenChannel => NewestIsKept'
  BY DEF OpenChannel, Opening, Protocol, Opening4
<1>4. NewestIsKept /\ Closing => NewestIsKept'
  BY DEF Closing, Unpublish, ResetSession, Destroy
<1>5. NewestIsKept /\ (ReadJob \/ ReadOddJob \/ ReadPrevHash) => NewestIsKept'
  BY DEF ReadJob, ReadOddJob, ReadPrevHash, ReadMessage
<1>6. ASSUME TypeOK, NewestIsKept, StoreJob PROVE NewestIsKept'
  <2> SUFFICES ASSUME newest # NoJob PROVE NewestIsKept'
    BY <1>6 DEF StoreJob
  <2> DEFINE s == SlotOf(newest.id)
  <2>1. newest.id \in Nat /\ s \in Slots /\ spc = "store"
    BY <1>6, SlotOfType DEF StoreJob, TypeOK, DataOK, Built, Ids
  <2>2. /\ UNCHANGED <<newest, lostJob, prevHash, notification, currentWork, hasWork>>
        /\ spc' \in {"open", "activate"} /\ spoiled \subseteq spoiled'
    BY <1>6 DEF StoreJob
  <2>3. s \notin spoiled' => slots[s].id = newest.id /\ slots[s].prev = newest.prev /\ newest.id # 0
    BY <1>6, <2>1, <2>2
  <2>4. s \notin spoiled' => s # Slot
    BY <1>6, <2>3 DEF StoreJob, Overwrites
  <2>5. s \notin spoiled' => slots'[s] = slots[s]
    BY <1>6, <2>1, <2>4 DEF StoreJob, TypeOK, DataOK
  <2> QED
    BY <1>6, <2>1, <2>2, <2>3, <2>5
<1>7. ASSUME TypeOK, Meaning, NewestIsKept, ActivateNow PROVE NewestIsKept'
  <2>1. CASE spc' = "open"
    BY <1>7, <2>1 DEF ActivateNow
  <2>2. CASE spc' = "complete"
    <3>1. newest' = [id |-> msg.id, prev |-> prevHash, session |-> sessions]
          /\ prevHash' = prevHash /\ slots' = slots
      BY <1>7, <2>2 DEF ActivateNow
    <3>2. msg.id \in Ids /\ slots[Slot].id = msg.id /\ Slot = SlotOf(msg.id)
      BY <1>7, SlotType DEF ActivateNow, Meaning, Slot
    <3> QED
      BY <2>2, <3>1, <3>2 DEF Ids
  <2> QED
    BY <1>7, <2>1, <2>2 DEF ActivateNow
<1>8. ASSUME TypeOK, Meaning, NewestIsKept, ClearActive PROVE NewestIsKept'
  <2>1. CASE HasFutureJob
    <3>1. /\ newest' = [id |-> msg.id, prev |-> tip, session |-> sessions] /\ prevHash' = tip /\ slots' = slots
          /\ spc' = "complete"
      BY <1>8, <2>1 DEF ClearActive
    <3>2. msg.id \in Ids /\ slots[Slot].id = msg.id /\ Slot = SlotOf(msg.id)
      BY <1>8, <2>1, SlotType DEF ClearActive, HasFutureJob, Slot
    <3> QED
      BY <3>1, <3>2 DEF Ids
  <2>2. CASE ~HasFutureJob
    BY <1>8, <2>2 DEF ClearActive
  <2> QED
    BY <2>1, <2>2
<1>9. ASSUME TypeOK, Meaning, NewestIsKept, CompleteJob PROVE NewestIsKept'
  <2>1. /\ newest = [id |-> msg.id, prev |-> prevHash, session |-> sessions]
        /\ spc' = "notify"
        /\ UNCHANGED <<newest, lostJob, prevHash, spoiled>>
    BY <1>9 DEF CompleteJob, Meaning
  <2>2. Slot = SlotOf(newest.id) /\ Slot \in Slots /\ msg.id # 0
    BY <1>9, <2>1, SlotType DEF CompleteJob, Slot, Ids
  <2>3. slots'[Slot].id = slots[Slot].id /\ slots'[Slot].prev = prevHash
    BY <1>9, <2>2 DEF CompleteJob, TypeOK, DataOK, Job
  <2> QED
    BY <1>9, <2>1, <2>2, <2>3 DEF CompleteJob
<1>10. Meaning /\ NewestIsKept /\ Notify => NewestIsKept'
  BY DEF Notify, Meaning, Slot
<1>11. TypeOK /\ NewestIsKept /\ TakeNotification => NewestIsKept'
  BY SlotOfType DEF TypeOK, DataOK, Built, Ids, Slots, TakeNotification
<1>12. TypeOK /\ NewestIsKept /\ (DropWork \/ NextCycle \/ BuildJob \/ SendJob) => NewestIsKept'
  BY DEF DropWork, NextCycle, BuildJob, SendJob
<1>13. NewestIsKept /\ (FindNonce \/ DropShare \/ SubmitShare \/ WriteShare) => NewestIsKept'
  BY DEF FindNonce, DropShare, SubmitShare, WriteShare
<1>14. NewestIsKept /\ UNCHANGED vars => NewestIsKept'
  BY DEF vars
<1> QED
  BY <1>1, <1>2, <1>3, <1>4, <1>5, <1>6, <1>7, <1>8, <1>9, <1>10, <1>11, <1>12, <1>13,
     <1>14, Zenon DEF Next, Handling, CreatingJobs

---------------------------------------------------------------------------
(* Shares                                                                   *)

(* Future jobs are announced, and neither valid nor active.                 *)
FuturesWait ==
    /\ \A id \in future : id <= announced
    /\ \A id \in valid : id <= announced /\ id \notin future
    /\ \A id \in Elements(active) : id <= announced /\ id \notin future
    /\ rpc = "write" => share.id <= announced /\ share.id \notin future

(* With nothing left over from the connection before, all is quiet until    *)
(* the next one.                                                            *)
Quiet ==
    "leftover" \notin gaps /\ spc \in {"destroy", "closed"} =>
        ~InFlight /\ stored = NoJob /\ hasWork = FALSE

(* A record of this connection has no block hash while its job is a future  *)
(* one, and the newest if its job is valid and it has one.                  *)
RecordOK(r) ==
    /\ r.session <= sessions
    /\ r.session = sessions /\ r.prev # 0 =>
         /\ r.id <= announced /\ r.id \notin future
         /\ r.id \in valid => r.prev = tip
RecordsOK ==
    /\ \A s \in Slots : RecordOK(slots[s])
    /\ RecordOK(building) /\ RecordOK(stored) /\ RecordOK(share)

(* What is worked on, stored or submitted is of this connection and has a   *)
(* block hash, but for the gaps.                                            *)
Good(r) ==
    /\ "leftover" \notin gaps => r.session = sessions
    /\ "overwritten" \notin gaps => r.prev # 0
LiveGood ==
    /\ notification # None => Good(slots[notification])
    /\ currentWork # None /\ (hasWork = TRUE \/ cpc = "build") => Good(slots[currentWork])
    /\ cpc = "send" => Good(building)
    /\ stored # NoJob => Good(stored)
    /\ rpc # "idle" => Good(share)

(* A slot is pending, or handled, once this connection stored a job in it.  *)
LEMMA OwnSlotsStep == TypeOK /\ OwnSlots /\ [Next]_vars => OwnSlots'
<1> USE Sv2Assumption DEF OwnSlots, connection, channel, work, result, pool, history
<1>1. OwnSlots /\ (Connect \/ ConnectFails \/ PublishTransport \/ CreateNoise) => OwnSlots'
  BY DEF Connect, ConnectFails, PublishTransport, CreateNoise, Slot
<1>2. OwnSlots /\ (Handshake \/ SetUpConnection \/ OpenChannel \/ LeaveLoop) => OwnSlots'
  BY DEF Handshake, SetUpConnection, OpenChannel, Opening, LeaveLoop
<1>3. OwnSlots /\ Closing => OwnSlots'
  BY DEF Closing, Unpublish, ResetSession, Destroy
<1>4. OwnSlots /\ (ReadJob \/ ReadOddJob \/ ReadPrevHash) => OwnSlots'
  BY DEF ReadJob, ReadOddJob, ReadPrevHash, ReadMessage
<1>5. ASSUME TypeOK, OwnSlots, StoreJob PROVE OwnSlots'
  <2>1. Slot \in Slots /\ slots \in [Slots -> Job] /\ pending \subseteq Slots
    BY <1>5, SlotType DEF StoreJob, TypeOK, DataOK
  <2>2. /\ slots'[Slot].session = sessions /\ sessions' = sessions
        /\ \A s \in Slots : s # Slot => slots'[s] = slots[s]
    BY <1>5, <2>1 DEF StoreJob
  <2>3. pending' \subseteq pending \cup {Slot}
    BY <1>5 DEF StoreJob
  <2>4. spc' \in {"activate", "complete", "notify"} => Slot' = Slot
    BY <1>5 DEF StoreJob, Slot
  <2> QED
    BY <1>5, <2>1, <2>2, <2>3, <2>4
<1>6. OwnSlots /\ ActivateNow => OwnSlots'
  BY DEF ActivateNow, Slot
<1>7. ASSUME TypeOK, OwnSlots, ClearActive PROVE OwnSlots'
  <2>1. /\ UNCHANGED <<pending, slots, sessions>>
        /\ spc' = "complete" => msg' = msg /\ HasFutureJob
        /\ spc' = "complete" \/ spc' = "open"
    BY <1>7 DEF ClearActive
  <2> QED
    BY <1>7, <2>1 DEF HasFutureJob, Slot
<1>8. ASSUME TypeOK, OwnSlots, CompleteJob PROVE OwnSlots'
  <2>1. /\ Slot \in Slots /\ slots \in [Slots -> Job] /\ pending \subseteq Slots
        /\ spc = "complete" /\ UNCHANGED <<pending, sessions, msg>>
    BY <1>8, SlotType DEF CompleteJob, TypeOK, DataOK
  <2>2. \A s \in Slots : slots'[s].session = slots[s].session
    BY <1>8, <2>1 DEF CompleteJob, Job
  <2> QED
    BY <1>8, <2>1, <2>2 DEF Slot
<1>9. OwnSlots /\ Notify => OwnSlots'
  BY DEF Notify
<1>10. OwnSlots /\ CreatingJobs => OwnSlots'
  BY DEF CreatingJobs, TakeNotification, DropWork, NextCycle, BuildJob, SendJob, Slot
<1>11. OwnSlots /\ (FindNonce \/ DropShare \/ SubmitShare \/ WriteShare) => OwnSlots'
  BY DEF FindNonce, DropShare, SubmitShare, WriteShare, Slot
<1>12. OwnSlots /\ UNCHANGED vars => OwnSlots'
  BY DEF vars, Slot
<1> QED
  BY <1>1, <1>2, <1>3, <1>4, <1>5, <1>6, <1>7, <1>8, <1>9, <1>10, <1>11, <1>12, Zenon
     DEF Next, Handling

(* A job leaves the future ones with its block, and only then is activated. *)
LEMMA FuturesWaitStep ==
    TypeOK /\ Protocol /\ Meaning /\ FuturesWait /\ [Next]_vars => FuturesWait'
<1> USE Sv2Assumption DEF FuturesWait, connection, channel, work, result, pool, history
<1>0. Elements(<<>>) = {} /\ (active' = active => Elements(active') = Elements(active))
  BY DEF Elements
<1>a. Elements(active)' = Elements(active')
  BY DEF Elements
<1>1. Protocol /\ Connect => FuturesWait'
  BY <1>0, <1>a DEF Connect, Protocol
<1>2. FuturesWait /\ (ConnectFails \/ PublishTransport \/ CreateNoise) => FuturesWait'
  BY <1>0, <1>a DEF ConnectFails, PublishTransport, CreateNoise
<1>3. FuturesWait /\ (Handshake \/ SetUpConnection \/ OpenChannel \/ LeaveLoop) => FuturesWait'
  BY <1>0, <1>a DEF Handshake, SetUpConnection, OpenChannel, Opening, LeaveLoop
<1>4. FuturesWait /\ Closing => FuturesWait'
  BY <1>0, <1>a DEF Closing, Unpublish, ResetSession, Destroy
<1>5. ASSUME TypeOK, FuturesWait, ReadJob PROVE FuturesWait'
  <2>1. /\ announced \in Nat /\ announced' = announced + 1
        /\ future \subseteq Nat /\ valid \subseteq Nat
    BY <1>5 DEF ReadJob, TypeOK, DataOK, Ids
  <2>2. /\ active' = active /\ rpc' = rpc /\ share' = share
        /\ \/ future' = future \cup {announced + 1} /\ valid' = valid
           \/ future' = future /\ valid' = valid \cup {announced + 1}
    BY <1>5 DEF ReadJob, ReadMessage
  <2>3. Elements(active) \subseteq Nat /\ share.id \in Nat
    BY <1>5 DEF TypeOK, DataOK, Elements, Ids, Built
  <2> QED
    BY <1>0, <1>a, <1>5, <2>1, <2>2, <2>3
<1>6. FuturesWait /\ ReadOddJob => FuturesWait'
  BY <1>0, <1>a DEF ReadOddJob, ReadMessage
<1>7. FuturesWait /\ ReadPrevHash => FuturesWait'
  BY <1>0, <1>a DEF ReadPrevHash, ReadMessage
<1>8. FuturesWait /\ (StoreJob \/ CompleteJob \/ Notify) => FuturesWait'
  BY <1>0, <1>a DEF StoreJob, CompleteJob, Notify
<1>9. ASSUME TypeOK, Meaning, FuturesWait, ActivateNow PROVE FuturesWait'
  <2>1. active \in Seq(Ids) /\ Len(active) <= MaxActive /\ msg.id \in Ids /\ msg.id \in valid
    BY <1>9, SlotType DEF TypeOK, DataOK, Meaning, ActivateNow
  <2>2. Elements(AddActive(active, msg.id)) \subseteq Elements(active) \cup {msg.id}
    BY <2>1, AddActiveElements
  <2>3. /\ active' = active \/ active' = AddActive(active, msg.id)
        /\ UNCHANGED <<announced, future, valid, rpc, share>>
    BY <1>9 DEF ActivateNow
  <2> QED
    BY <1>0, <1>a, <1>9, <2>1, <2>2, <2>3
<1>10. ASSUME Meaning, FuturesWait, ClearActive PROVE FuturesWait'
  <2>1. /\ active' = active \/ active' = <<msg.id>>
        /\ UNCHANGED <<announced, future, valid, rpc, share>> /\ msg.id \in valid
    BY <1>10 DEF ClearActive, ActiveAlone, Meaning
  <2>2. Elements(<<msg.id>>) = {msg.id}
    BY DEF Elements
  <2> QED
    BY <1>0, <1>a, <1>10, <2>1, <2>2
<1>11. FuturesWait /\ CreatingJobs => FuturesWait'
  BY <1>0, <1>a DEF CreatingJobs, TakeNotification, DropWork, NextCycle, BuildJob, SendJob
<1>12. FuturesWait /\ (FindNonce \/ DropShare \/ SubmitShare \/ WriteShare) => FuturesWait'
  BY <1>0, <1>a DEF FindNonce, DropShare, SubmitShare, WriteShare, MaySubmit, IsActive, Elements
<1>13. FuturesWait /\ UNCHANGED vars => FuturesWait'
  BY <1>0, <1>a DEF vars
<1> QED
  BY <1>1, <1>2, <1>3, <1>4, <1>5, <1>6, <1>7, <1>8, <1>9, <1>10, <1>11, <1>12, <1>13, Zenon
     DEF Next, Handling

LEMMA QuietStep == Quiet /\ [Next]_vars => Quiet'
<1> USE DEF Quiet, InFlight, connection, channel, work, result, pool, history
<1>1. Quiet /\ (Connect \/ ConnectFails \/ PublishTransport \/ CreateNoise) => Quiet'
  BY DEF Connect, ConnectFails, PublishTransport, CreateNoise
<1>2. Quiet /\ (Handshake \/ SetUpConnection \/ OpenChannel \/ LeaveLoop) => Quiet'
  BY DEF Handshake, SetUpConnection, OpenChannel, Opening, LeaveLoop
<1>3. Quiet /\ Closing => Quiet'
  BY DEF Closing, Unpublish, ResetSession, Destroy
<1>4. Quiet /\ (ReadJob \/ ReadOddJob \/ ReadPrevHash) => Quiet'
  BY DEF ReadJob, ReadOddJob, ReadPrevHash, ReadMessage
<1>5. Quiet /\ Handling => Quiet'
  BY DEF Handling, StoreJob, ActivateNow, ClearActive, CompleteJob, Notify
<1>6. Quiet /\ CreatingJobs => Quiet'
  BY DEF CreatingJobs, TakeNotification, DropWork, NextCycle, BuildJob, SendJob
<1>7. Quiet /\ (FindNonce \/ DropShare \/ SubmitShare \/ WriteShare) => Quiet'
  BY DEF FindNonce, DropShare, SubmitShare, WriteShare
<1>8. Quiet /\ UNCHANGED vars => Quiet'
  BY DEF vars
<1> QED
  BY <1>1, <1>2, <1>3, <1>4, <1>5, <1>6, <1>7, <1>8, Zenon DEF Next

(* A job gets the hash of the block it is activated for, never an older one.*)
LEMMA RecordsStep ==
    TypeOK /\ Meaning /\ FuturesWait /\ RecordsOK /\ [Next]_vars => RecordsOK'
<1> USE Sv2Assumption DEF RecordsOK, RecordOK, connection, channel, work, result, pool, history
<1>0. NoJob.session = 0 /\ NoJob.prev = 0
  BY DEF NoJob
<1>a. TypeOK => sessions \in Nat
  BY DEF TypeOK, DataOK, Sessions
<1>b. TypeOK =>
        /\ \A s \in Slots : slots[s].session \in Nat /\ slots[s].id \in Nat
        /\ building.session \in Nat /\ stored.session \in Nat /\ share.session \in Nat
        /\ building.id \in Nat /\ stored.id \in Nat /\ share.id \in Nat
        /\ announced \in Nat
  BY DEF TypeOK, DataOK, Job, Built, Sessions, Ids
<1>1. TypeOK /\ RecordsOK /\ Connect => RecordsOK'
  BY <1>a, <1>b DEF Connect
<1>2. RecordsOK /\ (ConnectFails \/ PublishTransport \/ CreateNoise) => RecordsOK'
  BY DEF ConnectFails, PublishTransport, CreateNoise
<1>3. RecordsOK /\ (Handshake \/ SetUpConnection \/ OpenChannel \/ LeaveLoop) => RecordsOK'
  BY DEF Handshake, SetUpConnection, OpenChannel, Opening, LeaveLoop
<1>4. TypeOK /\ RecordsOK /\ Closing => RecordsOK'
  BY <1>0, <1>a DEF Closing, Unpublish, ResetSession, Destroy
<1>5. ASSUME TypeOK, RecordsOK, ReadJob PROVE RecordsOK'
  <2>1. /\ announced' = announced + 1 /\ UNCHANGED <<slots, building, stored, share, sessions, tip>>
        /\ future' \subseteq future \cup {announced + 1}
        /\ valid' \subseteq valid \cup {announced + 1}
    BY <1>5 DEF ReadJob, ReadMessage
  <2>2. ASSUME NEW r, RecordOK(r), r.id \in Nat
        PROVE  /\ r.session <= sessions
               /\ r.session = sessions /\ r.prev # 0 =>
                    /\ r.id <= announced' /\ r.id \notin future'
                    /\ r.id \in valid' => r.prev = tip
    BY <1>5, <1>b, <2>1, <2>2
  <2> QED
    BY <1>5, <1>b, <2>1, <2>2
<1>6. RecordsOK /\ ReadOddJob => RecordsOK'
  BY DEF ReadOddJob, ReadMessage
<1>7. RecordsOK /\ ReadPrevHash => RecordsOK'
  BY DEF ReadPrevHash, ReadMessage
<1>8. ASSUME TypeOK, RecordsOK, StoreJob PROVE RecordsOK'
  <2>1. Slot \in Slots /\ slots \in [Slots -> Job]
    BY <1>8, SlotType DEF StoreJob, TypeOK, DataOK
  <2>2. /\ slots'[Slot].session = sessions /\ slots'[Slot].prev = 0
        /\ \A s \in Slots : s # Slot => slots'[s] = slots[s]
        /\ UNCHANGED <<building, stored, share, sessions, tip, announced, future, valid>>
    BY <1>8, <2>1 DEF StoreJob
  <2> QED
    BY <1>8, <1>a, <2>1, <2>2
<1>9. RecordsOK /\ (ActivateNow \/ ClearActive \/ Notify) => RecordsOK'
  BY DEF ActivateNow, ClearActive, Notify
<1>10. ASSUME TypeOK, Meaning, FuturesWait, RecordsOK, CompleteJob PROVE RecordsOK'
  <2>1. Slot \in Slots /\ slots \in [Slots -> Job] /\ spc = "complete"
    BY <1>10, SlotType DEF CompleteJob, TypeOK, DataOK
  <2>2. slots[Slot].id \in valid /\ prevHash = tip
    BY <1>10, <2>1 DEF Meaning
  <2>3. /\ slots'[Slot].session = slots[Slot].session /\ slots'[Slot].prev = tip
        /\ slots'[Slot].id = slots[Slot].id
        /\ \A s \in Slots : s # Slot => slots'[s] = slots[s]
        /\ UNCHANGED <<building, stored, share, sessions, tip, announced, future, valid>>
    BY <1>10, <2>1, <2>2 DEF CompleteJob, Job
  <2> QED
    BY <1>10, <2>1, <2>2, <2>3 DEF FuturesWait
<1>11. RecordsOK /\ (TakeNotification \/ DropWork \/ NextCycle \/ SendJob) => RecordsOK'
  BY DEF TakeNotification, DropWork, NextCycle, SendJob
<1>12. TypeOK /\ RecordsOK /\ BuildJob => RecordsOK'
  BY DEF BuildJob, TypeOK, Busy, DataOK
<1>13. TypeOK /\ RecordsOK /\ (FindNonce \/ DropShare \/ SubmitShare \/ WriteShare) => RecordsOK'
  BY <1>0, <1>a DEF FindNonce, DropShare, SubmitShare, WriteShare
<1>14. RecordsOK /\ UNCHANGED vars => RecordsOK'
  BY DEF vars
<1> QED
  BY <1>1, <1>2, <1>3, <1>4, <1>5, <1>6, <1>7, <1>8, <1>9, <1>10, <1>11, <1>12, <1>13, <1>14,
     Zenon DEF Next, Handling, CreatingJobs

(* Work is handed on as it is; what is written over or left over is noted.  *)
LEMMA LiveStep ==
    TypeOK /\ Meaning /\ OwnSlots /\ Quiet /\ LiveGood /\ [Next]_vars => LiveGood'
<1> USE Sv2Assumption DEF LiveGood, Good, connection, channel, work, result, pool, history
<1>1. Quiet /\ LiveGood /\ Connect => LiveGood'
  BY DEF Connect, Quiet, InFlight
<1>2. LiveGood /\ (ConnectFails \/ PublishTransport \/ CreateNoise) => LiveGood'
  BY DEF ConnectFails, PublishTransport, CreateNoise
<1>3. LiveGood /\ (Handshake \/ SetUpConnection \/ OpenChannel \/ LeaveLoop) => LiveGood'
  BY DEF Handshake, SetUpConnection, OpenChannel, Opening, LeaveLoop
<1>4. LiveGood /\ Closing => LiveGood'
  BY DEF Closing, Unpublish, ResetSession, Destroy, InFlight
<1>5. LiveGood /\ (ReadJob \/ ReadOddJob \/ ReadPrevHash) => LiveGood'
  BY DEF ReadJob, ReadOddJob, ReadPrevHash, ReadMessage
<1>6. ASSUME TypeOK, LiveGood, StoreJob PROVE LiveGood'
  <2>1. Slot \in Slots /\ slots \in [Slots -> Job]
    BY <1>6, SlotType DEF StoreJob, TypeOK, DataOK
  <2>2. /\ slots'[Slot].session = sessions
        /\ \A s \in Slots : s # Slot => slots'[s] = slots[s]
        /\ UNCHANGED <<notification, currentWork, hasWork, cpc, rpc, building, stored, share,
                       sessions>>
        /\ gaps \subseteq gaps' /\ ("leftover" \in gaps' => "leftover" \in gaps)
        /\ InUse => "overwritten" \in gaps'
    BY <1>6, <2>1 DEF StoreJob
  <2>3. notification \in Slots \cup {None} /\ currentWork \in Slots \cup {None}
    BY <1>6 DEF TypeOK, DataOK
  <2>4. Good(building) => Good(building)'
    BY <2>2
  <2>5. Good(stored) => Good(stored)'
    BY <2>2
  <2>6. Good(share) => Good(share)'
    BY <2>2
  <2>7. notification # None => Good(slots[notification])'
    BY <1>6, <2>1, <2>2, <2>3 DEF InUse
  <2>8. currentWork # None /\ (hasWork = TRUE \/ cpc = "build") => Good(slots[currentWork])'
    BY <1>6, <2>1, <2>2, <2>3 DEF InUse
  <2> QED
    BY <1>6, <2>2, <2>4, <2>5, <2>6, <2>7, <2>8
<1>7. LiveGood /\ (ActivateNow \/ ClearActive) => LiveGood'
  BY DEF ActivateNow, ClearActive
<1>8. ASSUME TypeOK, Meaning, LiveGood, CompleteJob PROVE LiveGood'
  <2>1. Slot \in Slots /\ slots \in [Slots -> Job] /\ prevHash # 0
    BY <1>8, SlotType DEF CompleteJob, TypeOK, DataOK, Meaning
  <2>2. /\ \A s \in Slots : /\ slots'[s].session = slots[s].session
                            /\ slots'[s].prev = slots[s].prev \/ slots'[s].prev # 0
        /\ UNCHANGED <<notification, currentWork, hasWork, cpc, rpc, building, stored, share,
                       sessions, gaps>>
    BY <1>8, <2>1 DEF CompleteJob, Job
  <2>3. notification \in Slots \cup {None} /\ currentWork \in Slots \cup {None}
    BY <1>8 DEF TypeOK, DataOK
  <2> QED
    BY <1>8, <2>1, <2>2, <2>3
<1>9. TypeOK /\ Meaning /\ OwnSlots /\ LiveGood /\ Notify => LiveGood'
  BY DEF Notify, Meaning, OwnSlots, Slot
<1>10. LiveGood /\ TakeNotification => LiveGood'
  BY DEF TakeNotification
<1>11. LiveGood /\ (DropWork \/ NextCycle \/ SendJob) => LiveGood'
  BY DEF DropWork, NextCycle, SendJob
<1>12. TypeOK /\ LiveGood /\ BuildJob => LiveGood'
  BY DEF BuildJob, TypeOK, Busy
<1>13. LiveGood /\ (FindNonce \/ DropShare \/ SubmitShare \/ WriteShare) => LiveGood'
  BY DEF FindNonce, DropShare, SubmitShare, WriteShare
<1>14. LiveGood /\ UNCHANGED vars => LiveGood'
  BY DEF vars
<1> QED
  BY <1>1, <1>2, <1>3, <1>4, <1>5, <1>6, <1>7, <1>8, <1>9, <1>10, <1>11, <1>12, <1>13, <1>14,
     Zenon DEF Next, Handling, CreatingJobs

(* The check lets an active id pass; what comes under a write is noted.     *)
LEMMA ShareStep ==
    /\ TypeOK /\ Protocol /\ ActiveIsValid /\ RecordsOK /\ LiveGood /\ ShareIsValid
    /\ [Next]_vars
    => ShareIsValid'
<1> USE DEF ShareIsValid, connection, channel, work, result, pool, history
<1>1. Protocol /\ Connect => ShareIsValid'
  BY DEF Connect, Protocol
<1>2. ShareIsValid /\ (ConnectFails \/ PublishTransport \/ CreateNoise) => ShareIsValid'
  BY DEF ConnectFails, PublishTransport, CreateNoise
<1>3. ShareIsValid /\ (Handshake \/ SetUpConnection \/ OpenChannel \/ LeaveLoop) => ShareIsValid'
  BY DEF Handshake, SetUpConnection, OpenChannel, Opening, LeaveLoop
<1>4. Protocol /\ ShareIsValid /\ Closing => ShareIsValid'
  BY DEF Closing, Unpublish, ResetSession, Destroy, Protocol, InFlight
<1>5. ShareIsValid /\ (ReadJob \/ ReadOddJob \/ ReadPrevHash) => ShareIsValid'
  BY DEF ReadJob, ReadOddJob, ReadPrevHash, ReadMessage
<1>6. ShareIsValid /\ (StoreJob \/ ActivateNow \/ ClearActive) => ShareIsValid'
  BY DEF StoreJob, ActivateNow, ClearActive
<1>7. ShareIsValid /\ (CompleteJob \/ Notify) => ShareIsValid'
  BY DEF CompleteJob, Notify
<1>8. ShareIsValid /\ CreatingJobs => ShareIsValid'
  BY DEF CreatingJobs, TakeNotification, DropWork, NextCycle, BuildJob, SendJob
<1>9. ShareIsValid /\ (FindNonce \/ DropShare \/ WriteShare) => ShareIsValid'
  BY DEF FindNonce, DropShare, WriteShare
<1>10. ASSUME ActiveIsValid, RecordsOK, LiveGood, SubmitShare PROVE ShareIsValid'
  <2> SUFFICES ASSUME gaps' \cap {"leftover", "late"} = {}, lostJob' # TRUE
               PROVE  /\ share.session = sessions /\ share.id \in valid
                      /\ share.prev = tip \/ (share.prev = 0 /\ "overwritten" \in gaps')
    BY <1>10 DEF SubmitShare
  <2>1. /\ "leftover" \notin gaps /\ spc # "clear" /\ lostJob # TRUE /\ rpc = "found"
        /\ "overwritten" \in gaps => "overwritten" \in gaps'
    BY <1>10 DEF SubmitShare
  <2>2. share.id \in Elements(active)
    BY <1>10 DEF SubmitShare, MaySubmit, IsActive, Elements
  <2>3. share.id \in valid
    BY <1>10, <2>1, <2>2 DEF ActiveIsValid
  <2>4. share.session = sessions /\ ("overwritten" \notin gaps => share.prev # 0)
    BY <1>10, <2>1 DEF LiveGood, Good
  <2>5. share.prev # 0 => share.prev = tip
    BY <1>10, <2>3, <2>4 DEF RecordsOK, RecordOK
  <2> QED
    BY <2>1, <2>3, <2>4, <2>5
<1>11. ShareIsValid /\ UNCHANGED vars => ShareIsValid'
  BY DEF vars
<1> QED
  BY <1>1, <1>2, <1>3, <1>4, <1>5, <1>6, <1>7, <1>8, <1>9, <1>10, <1>11, Zenon DEF Next, Handling

---------------------------------------------------------------------------
(* The inductive invariant.                                                 *)
IInv ==
    /\ TypeOK /\ Protocol /\ Meaning /\ ActiveIsValid /\ WorkHasHash /\ NewestIsKept
    /\ OwnSlots /\ FuturesWait /\ Quiet /\ RecordsOK /\ LiveGood /\ ShareIsValid

(* The inductive invariant holds at first ...                               *)
LEMMA InvInit == Init => IInv
<1> SUFFICES ASSUME Init PROVE IInv
  OBVIOUS
<1>1. Protocol /\ Meaning /\ ActiveIsValid
  BY Sv2Assumption DEF Init, Protocol, Opening4, Meaning, ActiveIsValid, Elements
<1>2. WorkHasHash /\ NewestIsKept
  BY DEF Init, WorkHasHash, NewestIsKept, InLoop
<1>3. OwnSlots /\ FuturesWait /\ Quiet
  BY DEF Init, OwnSlots, FuturesWait, Elements, Quiet, InFlight
<1>4. RecordsOK
  BY DEF Init, RecordsOK, RecordOK, Blank, NoJob
<1>5. LiveGood /\ ShareIsValid
  BY DEF Init, LiveGood, ShareIsValid
<1> QED
  BY <1>1, <1>2, <1>3, <1>4, <1>5, TypeInit DEF IInv

(* ... and every step keeps it.                                             *)
LEMMA InvStep == IInv /\ [Next]_vars => IInv'
  BY FlagStep, DataStep, BusyStep, ProtocolStep, MeaningStep, ActiveStep, WorkHasHashStep,
     NewestIsKeptStep, OwnSlotsStep, FuturesWaitStep, QuietStep, RecordsStep, LiveStep,
     ShareStep DEF IInv, TypeOK

(* A share is written only to a transport and with a noise context that     *)
(* exist: stratum_v2_submit_share() looks at both under transport_mutex,    *)
(* which the session takes before it gives them up.                         *)
THEOREM TransportIsLive == Spec => []TransportIsThere
<1>1. IInv => TransportIsThere
  BY DEF IInv, Protocol, Opening4, TransportIsThere
<1> QED
  BY InvInit, InvStep, <1>1, PTL DEF Spec

(* No share of a future job is written before its block; what is worked on  *)
(* without its block hash is in a slot a later job was stored over.         *)
THEOREM FutureJobsGetNoShareEver == Spec => []FutureJobsGetNoShare
<1>1. IInv => FutureJobsGetNoShare
  BY DEF IInv, FuturesWait, WorkHasHash, HasHash, FutureJobsGetNoShare
<1> QED
  BY InvInit, InvStep, <1>1, PTL DEF Spec

(* With nothing on its way, the work is the newest activated job.           *)
THEOREM WorkSettles == Spec => []SettledWorkIsNewest
<1>1. IInv => SettledWorkIsNewest
  <2> SUFFICES ASSUME IInv, Settled, newest # NoJob, SlotOf(newest.id) \notin spoiled, ~lostJob
               PROVE  /\ currentWork = SlotOf(newest.id) /\ hasWork
                      /\ slots[currentWork].id = newest.id
                      /\ slots[currentWork].prev = newest.prev /\ newest.prev = prevHash
    BY DEF SettledWorkIsNewest
  <2>1. newest.id \in Nat /\ SlotOf(newest.id) \in Slots
    BY SlotOfType DEF IInv, TypeOK, DataOK, Built, Ids
  <2> QED
    BY <2>1, Sv2Assumption DEF IInv, NewestIsKept, InLoop, Settled, Slots
<1> QED
  BY InvInit, InvStep, <1>1, PTL DEF Spec

(* A share is written for a job of the running connection that the pool     *)
(* takes shares for, built on the newest block, unless a gap was open.      *)
THEOREM SharesAreValid == Spec => []ShareIsValid
<1>1. IInv => ShareIsValid
  BY DEF IInv
<1> QED
  BY InvInit, InvStep, <1>1, PTL DEF Spec

=============================================================================

------------------------ MODULE MiningPipelineProofs ------------------------
(***************************************************************************)
(* Proofs about MiningPipeline, for every number of sessions, lines,       *)
(* stored jobs and active ids: type correctness, the transport protocol    *)
(* (NoUseAfterFree), the validity of every share sent (ShareIsValid), and  *)
(* that settled work is the newest job (SettledWorkIsNewest).              *)
(***************************************************************************)
EXTENDS MiningPipeline, TLAPS

(* While create_jobs_task is not waiting it has work.                       *)
WorkTaken == cpc # "wait" => currentWork \in Slots

(* What a record's id stands for in this session, is the job in the record. *)
Genuine(r) == r.id \in JobIds => r.job # 0 /\ given[r.id] = r.job

(* From its parse to its announcement a notify line is in its slot.         *)
Announced ==
    spc \in {"accept", "fill", "notify"} =>
        slots[target].id \in JobIds /\ Genuine(slots[target])
Arriving == (spc = "parse" => lines # 0) /\ Announced

(* The ids appended to a list are those of the list, but for the oldest one *)
(* when it is full, and the new one.                                        *)
LEMMA AddActiveElements ==
    ASSUME NEW ids \in Seq(JobIds), Len(ids) <= MaxActive, NEW id \in JobIds
    PROVE  /\ AddActive(ids, id) \in Seq(JobIds)
           /\ Len(AddActive(ids, id)) <= MaxActive
           /\ Elements(AddActive(ids, id)) \subseteq Elements(ids) \cup {id}
<1> USE PipelineAssumption
<1>1. CASE Len(ids) < MaxActive
  <2>1. AddActive(ids, id) = Append(ids, id)
    BY <1>1 DEF AddActive
  <2>2. \A i \in 1..Len(Append(ids, id)) : Append(ids, id)[i] \in Elements(ids) \cup {id}
    BY DEF Elements
  <2> QED
    BY <1>1, <2>1, <2>2 DEF Elements
<1>2. CASE ~(Len(ids) < MaxActive)
  <2>1. AddActive(ids, id) = Append(Tail(ids), id) /\ Len(ids) = MaxActive
    BY <1>2 DEF AddActive
  <2>2. /\ Tail(ids) \in Seq(JobIds) /\ Len(Tail(ids)) = Len(ids) - 1
        /\ \A i \in 1..Len(Tail(ids)) : Tail(ids)[i] = ids[i + 1]
    BY <2>1
  <2>3. \A i \in 1..Len(Append(Tail(ids), id)) :
            Append(Tail(ids), id)[i] \in Elements(ids) \cup {id}
    BY <2>1, <2>2 DEF Elements
  <2> QED
    BY <2>1, <2>2, <2>3 DEF Elements
<1> QED
  BY <1>1, <1>2

LEMMA WorkTakenStep == DataOK /\ WorkTaken /\ [Next]_vars => WorkTaken'
<1> USE DEF WorkTaken, DataOK, conn, stratum, shared, creator, ring, submit, history
<1>1. ASSUME DataOK, WorkTaken, CreateStep PROVE WorkTaken'
  BY <1>1 DEF CreateStep, TakeNotification, AdoptWork, ActivateWork, Timeout,
              BuildJob, HashJob, SendJob, Slots, None
<1>2. ASSUME WorkTaken, UNCHANGED creator PROVE WorkTaken'
  BY <1>2
<1>3. [Next]_vars => CreateStep \/ UNCHANGED creator
  BY Zenon DEF Next, NotifyStep, CloseStep, vars, Connect, ReceiveNotify, ParseNotify,
       ParseFails, AcceptNotify, FillJob, Notify, Close, ClearWork, ResetWork,
       Destroy, ClearAgain, ResetAgain, FindNonce, DropShare, SubmitShare, WriteShare,
       RequestReconnect, ShutSocket
<1> QED
  BY <1>1, <1>2, <1>3

(* Until then nothing else writes to that slot, or gives the id away.       *)
LEMMA ArrivingStep == DataOK /\ Arriving /\ [Next]_vars => Arriving'
<1> SUFFICES ASSUME DataOK, Arriving, [Next]_vars PROVE Arriving'
  OBVIOUS
<1> USE DEF Arriving, Announced, Genuine, conn, stratum, shared, creator, ring, submit, history
<1>1. CASE Connect \/ Close \/ ClearAgain \/ CloseStep
  BY <1>1 DEF Connect, Close, ClearAgain, CloseStep, ClearWork, ResetWork, Destroy, ResetAgain
<1>2. CASE ReceiveNotify
  BY <1>2, PipelineAssumption DEF ReceiveNotify, DataOK
<1>3. ASSUME NEW id \in JobIds, NEW clean \in BOOLEAN, ParseNotify(id, clean) PROVE Arriving'
  <2>1. spc = "parse" /\ lines # 0 /\ target' = target /\ target \in Slots
    BY <1>3 DEF ParseNotify, DataOK
  <2>2. slots'[target] = [id |-> id, job |-> given'[id], body |-> 0, clean |-> clean]
    BY <1>3, <2>1 DEF ParseNotify, DataOK
  <2>3. given'[id] # 0
    BY <1>3, <2>1 DEF ParseNotify, DataOK
  <2> QED
    BY <1>3, <2>1, <2>2, <2>3 DEF ParseNotify
<1>4. CASE ParseFails \/ AcceptNotify \/ Notify
  BY <1>4 DEF ParseFails, AcceptNotify, Notify
<1>5. CASE FillJob
  <2>1. /\ slots'[target].id = slots[target].id /\ slots'[target].job = slots[target].job
        /\ target' = target /\ given' = given /\ spc = "fill" /\ spc' = "notify"
    BY <1>5 DEF FillJob, DataOK, Contents
  <2> QED
    BY <2>1
<1>6. CASE UNCHANGED <<stratum, slots, lines, given>>
  BY <1>6
<1> QED
  BY <1>1, <1>2, <1>3, <1>4, <1>5, <1>6 DEF Next, NotifyStep, CreateStep, vars,
     TakeNotification, AdoptWork, ActivateWork, Timeout, BuildJob, HashJob, SendJob,
     FindNonce, DropShare, SubmitShare, WriteShare, RequestReconnect, ShutSocket

(* The flags are only ever set to a constant or left alone.                 *)
LEMMA FlagStep == FlagsOK /\ [Next]_vars => FlagsOK'
<1> USE DEF FlagsOK, conn, stratum, shared, creator, ring, submit, history
<1>1. FlagsOK /\ NotifyStep => FlagsOK'
  BY Zenon DEF NotifyStep, ParseNotify, ParseFails, AcceptNotify, FillJob, Notify
<1>2. FlagsOK /\ (CloseStep \/ ClearAgain) => FlagsOK'
  BY Zenon DEF CloseStep, ClearWork, ResetWork, Destroy, ClearAgain, ResetAgain
<1>3. FlagsOK /\ CreateStep => FlagsOK'
  <2>1. FlagsOK /\ Timeout => FlagsOK'
    BY Zenon DEF Timeout
  <2> QED
    BY <2>1, Zenon DEF CreateStep, TakeNotification, AdoptWork, ActivateWork,
              BuildJob, HashJob, SendJob
<1>4. FlagsOK /\ (Connect \/ ReceiveNotify \/ Close) => FlagsOK'
  BY Zenon DEF Connect, ReceiveNotify, Close
<1>5. \A i \in 1..Capacity : FlagsOK /\ FindNonce(i) => FlagsOK'
  BY Zenon DEF FindNonce
<1>6. FlagsOK /\ (DropShare \/ SubmitShare \/ WriteShare \/ RequestReconnect \/ ShutSocket)
        => FlagsOK'
  BY Zenon DEF DropShare, SubmitShare, WriteShare, RequestReconnect, ShutSocket
<1>7. FlagsOK /\ UNCHANGED vars => FlagsOK'
  BY Zenon DEF vars
<1> QED
  BY <1>1, <1>2, <1>3, <1>4, <1>5, <1>6, <1>7, Zenon DEF Next

(* The data keeps its types, step by step.                                  *)
LEMMA DataStep == DataOK /\ WorkTaken /\ Arriving /\ [Next]_vars => DataOK'
<1> USE PipelineAssumption DEF conn, stratum, shared, creator, ring, submit, history,
        Slots, None, InSession
<1>1. DataOK /\ Connect => DataOK'
  BY DEF DataOK, Connect, Lines
<1>2. DataOK /\ ReceiveNotify => DataOK'
  <2>1. 0 \in Lines
    BY DEF Lines
  <2>2. Blank \in Contents
    BY <2>1, Zenon DEF Blank, Contents
  <2> QED
    BY <2>2 DEF DataOK, ReceiveNotify
<1>3. ASSUME DataOK, NEW clean \in BOOLEAN, NEW id \in JobIds, ParseNotify(id, clean)
      PROVE  DataOK'
  <2>1. given \in [JobIds -> Lines] /\ lines \in Lines /\ 0 \in Lines
    BY <1>3 DEF DataOK, Lines
  <2>2. given' \in [JobIds -> Lines] /\ gaps' \subseteq Gaps
    <3>1. gaps \subseteq Gaps /\ "reused" \in Gaps
      BY <1>3 DEF DataOK, Gaps
    <3>2. given' = [given EXCEPT ![id] = lines] \/ given' = given
      BY <1>3 DEF ParseNotify
    <3>3. gaps' = gaps \cup (IF given[id] = 0 THEN {} ELSE {"reused"}) \/ gaps' = gaps
      BY <1>3 DEF ParseNotify
    <3>4. gaps' \subseteq Gaps
      BY <3>1, <3>3, Zenon
    <3> QED
      BY <2>1, <3>2, <3>4
  <2>3. [id |-> id, job |-> given'[id], body |-> 0, clean |-> clean] \in Contents
    <3>1. given'[id] \in Lines /\ id \in JobIds \cup {NoId}
      BY <2>2
    <3> QED
      BY <2>1, <3>1, <1>3, Zenon DEF Contents
  <2>4. slots' \in [Slots -> Contents]
    BY <1>3, <2>3 DEF DataOK, ParseNotify
  <2> QED
    BY <1>3, <2>2, <2>4 DEF DataOK, ParseNotify
<1>4. DataOK /\ ParseFails => DataOK'
  BY DEF DataOK, ParseFails
<1>5. DataOK /\ Arriving /\ AcceptNotify => DataOK'
  <2> SUFFICES ASSUME DataOK, Arriving, AcceptNotify PROVE DataOK'
    OBVIOUS
  <2> DEFINE id   == slots[target].id
             kept == ClearedIds(slots[target].clean)
  <2>1. id \in JobIds /\ slots[target].job \in Lines
    <3>1. slots[target] \in Contents
      BY DEF DataOK
    <3> QED
      BY <3>1 DEF Contents, Arriving, Announced, AcceptNotify
  <2>2. kept \in Seq(JobIds) /\ Len(kept) <= MaxActive
    <3>1. activeIds \in Seq(JobIds) /\ Len(activeIds) <= MaxActive
      BY DEF DataOK
    <3>3. <<>> \in Seq(JobIds) /\ Len(<<>>) <= MaxActive
      OBVIOUS
    <3>2. kept = <<>> \/ kept = activeIds
      BY Zenon DEF ClearedIds
    <3> QED
      BY <3>1, <3>2, <3>3, Zenon
  <2>3. activeIds' = kept \/ activeIds' = AddActive(kept, id)
    BY DEF AcceptNotify
  <2>4. activeIds' \in Seq(JobIds) /\ Len(activeIds') <= MaxActive
    BY <2>1, <2>2, <2>3, AddActiveElements
  <2>5. valid' \subseteq Lines /\ gaps' \subseteq Gaps
    BY <2>1 DEF AcceptNotify, DataOK, Gaps
  <2> QED
    BY <2>4, <2>5 DEF DataOK, AcceptNotify
<1>6. DataOK /\ FillJob => DataOK'
  <2> SUFFICES ASSUME DataOK, FillJob PROVE DataOK'
    OBVIOUS
  <2>0. slots[target] \in Contents
    BY DEF DataOK
  <2>1. slots[target].job \in Lines /\ lines \in Lines
    BY <2>0 DEF DataOK, Contents, Lines
  <2>2. [slots[target] EXCEPT !.body = slots[target].job] \in Contents
    BY <2>0, <2>1 DEF Contents
  <2>3. slots' \in [Slots -> Contents]
    BY <2>2 DEF DataOK, FillJob
  <2> QED
    BY <2>1, <2>3 DEF DataOK, FillJob
<1>7. DataOK /\ Notify => DataOK'
  BY DEF DataOK, Notify
<1>8. DataOK /\ Close => DataOK'
  BY DEF DataOK, Close, Lines
<1>9. DataOK /\ ClearWork => DataOK'
  BY DEF DataOK, ClearWork, NoJobs, Jobs, NoJob, Lines
<1>10. DataOK /\ ResetWork => DataOK'
  BY DEF DataOK, ResetWork, NoteLeftover, Gaps
<1>11. DataOK /\ Destroy => DataOK'
  BY DEF DataOK, Destroy
<1>12. DataOK /\ ClearAgain => DataOK'
  BY DEF DataOK, ClearAgain, NoJobs, Jobs, NoJob, Lines
<1>13. DataOK /\ ResetAgain => DataOK'
  BY DEF DataOK, ResetAgain, NoteLeftover, Gaps
<1>14. DataOK /\ TakeNotification => DataOK'
  BY DEF DataOK, TakeNotification
<1>15. DataOK /\ AdoptWork => DataOK'
  BY DEF DataOK, AdoptWork
<1>16. DataOK /\ WorkTaken /\ ActivateWork => DataOK'
  BY DEF DataOK, WorkTaken, ActivateWork
<1>17. DataOK /\ Timeout => DataOK'
  BY DEF DataOK, Timeout
<1>18. DataOK /\ WorkTaken /\ (BuildJob \/ HashJob) => DataOK'
  <2> SUFFICES ASSUME DataOK, WorkTaken, BuildJob \/ HashJob PROVE DataOK'
    OBVIOUS
  <2>1. /\ slots[currentWork].id \in JobIds \cup {NoId}
        /\ slots[currentWork].job \in Lines /\ slots[currentWork].body \in Lines
    BY DEF DataOK, WorkTaken, BuildJob, HashJob, Contents
  <2>2. building \in Jobs /\ 0 \in Lines
    BY DEF DataOK, Lines
  <2>3. CASE BuildJob
    <3>1. building' \in Jobs
      BY <2>1, <2>2, <2>3 DEF BuildJob, Jobs
    <3> QED
      BY <3>1, <2>3 DEF DataOK, BuildJob
  <2>4. CASE HashJob
    <3>1. building' \in Jobs
      BY <2>1, <2>2, <2>4 DEF HashJob, Jobs
    <3> QED
      BY <3>1, <2>4 DEF DataOK, HashJob
  <2> QED
    BY <2>3, <2>4
<1>19. DataOK /\ SendJob => DataOK'
  BY DEF DataOK, SendJob
<1>20. ASSUME NEW i \in 1..Capacity PROVE DataOK /\ FindNonce(i) => DataOK'
  BY DEF DataOK, FindNonce
<1>21. DataOK /\ SubmitShare => DataOK'
  BY DEF DataOK, SubmitShare
<1>22. DataOK /\ WriteShare => DataOK'
  BY DEF DataOK, WriteShare
<1>23. DataOK /\ DropShare => DataOK'
  BY DEF DataOK, DropShare
<1>24. DataOK /\ RequestReconnect => DataOK'
  BY DEF DataOK, RequestReconnect
<1>25. DataOK /\ ShutSocket => DataOK'
  BY DEF DataOK, ShutSocket
<1>26. DataOK /\ UNCHANGED vars => DataOK'
  BY DEF DataOK, vars
<1> QED
  BY <1>1, <1>2, <1>3, <1>4, <1>5, <1>6, <1>7, <1>8, <1>9, <1>10, <1>11, <1>12,
     <1>13, <1>14, <1>15, <1>16, <1>17, <1>18, <1>19, <1>20, <1>21, <1>22, <1>23, <1>24,
     <1>25, <1>26, Zenon
     DEF Next, NotifyStep, CloseStep, CreateStep

(* MAIN THEOREM 1: the state always has its types, create_jobs_task never   *)
(* works without work, and what the session is about to announce is the job *)
(* its pool named by that id.                                               *)
THEOREM TypeCorrect == Spec => [](TypeOK /\ WorkTaken /\ Arriving)
<1>1. Init => TypeOK /\ WorkTaken /\ Arriving
  <2> SUFFICES ASSUME Init PROVE TypeOK /\ WorkTaken /\ Arriving
    OBVIOUS
  <2> USE PipelineAssumption DEF Init
  <2>1. FlagsOK
    BY Zenon DEF FlagsOK
  <2>2. slots \in [Slots -> Contents]
    BY DEF Slots, Contents, Blank, Lines
  <2>3. store \in [1..Capacity -> Jobs] /\ building \in Jobs /\ result \in Jobs
    BY DEF Jobs, NoJob, NoJobs, Lines
  <2>4. DataOK
    BY <2>2, <2>3 DEF DataOK, Slots, Lines, None, InSession, Gaps
  <2> QED
    BY <2>1, <2>4 DEF TypeOK, WorkTaken, Arriving, Announced
<1>2. TypeOK /\ WorkTaken /\ Arriving /\ [Next]_vars => (TypeOK /\ WorkTaken /\ Arriving)'
  BY FlagStep, DataStep, WorkTakenStep, ArrivingStep DEF TypeOK
<1> QED
  BY <1>1, <1>2, PTL DEF Spec

---------------------------------------------------------------------------
(* The transport protocol behind NoUseAfterFree: who holds the mutex is at  *)
(* the step that needs it, a published transport is the running session's,  *)
(* and whoever holds a handle holds the published one.                      *)
Holders ==
    /\ mutex = "result"  <=> rpc = "write"
    /\ mutex = "other"   <=> other # 0
    /\ mutex = "stratum" <=> spc \in {"clear", "reset"}

Published ==
    /\ spc \in InSession => transport = session
    /\ spc \notin InSession => transport = 0
    /\ freed \subseteq 1..session
    /\ spc \notin {"closed", "again"} => session # 0 /\ session \notin freed

Handles ==
    /\ rpc = "write" => handle = transport /\ transport # 0
    /\ other # 0 => other = transport

Protocol == Holders /\ Published /\ Handles

LEMMA ProtocolStep == DataOK /\ Protocol /\ [Next]_vars => Protocol'
<1> SUFFICES ASSUME DataOK, Protocol, [Next]_vars PROVE Protocol'
  OBVIOUS
<1> USE DEF Protocol, Holders, Published, Handles, InSession, conn, stratum, shared,
        creator, ring, submit, history
<1>1. session \in Nat
  BY PipelineAssumption DEF DataOK
<1>2. CASE Connect
  BY <1>1, <1>2 DEF Connect
<1>3. CASE ReceiveNotify
  BY <1>3 DEF ReceiveNotify
<1>4. CASE NotifyStep
  BY <1>4 DEF NotifyStep, ParseNotify, ParseFails, AcceptNotify, FillJob, Notify
<1>5. CASE Close
  BY <1>5 DEF Close
<1>6. CASE ClearWork
  BY <1>6 DEF ClearWork
<1>7. CASE ResetWork
  BY <1>7 DEF ResetWork
<1>8. CASE Destroy
  BY <1>1, <1>8 DEF Destroy
<1>9. CASE ClearAgain
  BY <1>9 DEF ClearAgain
<1>10. CASE ResetAgain
  BY <1>10 DEF ResetAgain
<1>11. CASE CreateStep
  BY <1>11 DEF CreateStep, TakeNotification, AdoptWork, ActivateWork, Timeout,
              BuildJob, HashJob, SendJob
<1>12. CASE \E i \in 1..Capacity : FindNonce(i)
  BY <1>12 DEF FindNonce
<1>13. CASE SubmitShare
  BY <1>13 DEF SubmitShare, MayBeSent
<1>14. CASE WriteShare \/ DropShare
  BY <1>14 DEF WriteShare, DropShare
<1>15. CASE RequestReconnect
  BY <1>15 DEF RequestReconnect
<1>16. CASE ShutSocket
  BY <1>16 DEF ShutSocket
<1>17. CASE UNCHANGED vars
  BY <1>17 DEF vars
<1> QED
  BY <1>2, <1>3, <1>4, <1>5, <1>6, <1>7, <1>8, <1>9, <1>10, <1>11, <1>12, <1>13,
     <1>14, <1>15, <1>16, <1>17 DEF Next, CloseStep

(* MAIN THEOREM 2: no task ever uses a transport that was destroyed or is   *)
(* not the published one.                                                   *)
THEOREM TransportIsLive == Spec => []NoUseAfterFree
<1>1. Init => Protocol
  BY DEF Init, Protocol, Holders, Published, Handles, InSession
<1>2. Protocol => NoUseAfterFree
  BY DEF Protocol, Published, Handles, NoUseAfterFree, InSession
<1>3. TypeOK => DataOK
  BY DEF TypeOK
<1> QED
  BY <1>1, <1>2, <1>3, ProtocolStep, TypeCorrect, PTL DEF Spec

---------------------------------------------------------------------------
(* While no id was given away twice in the session, its active ids stand    *)
(* for jobs the pool still takes shares for.                                *)
ActiveAreValid ==
    /\ 0 \notin valid
    /\ "reused" \notin gaps => \A id \in Elements(activeIds) : given[id] \in valid

(* With nothing left over from the session before, all is quiet until the   *)
(* next one.                                                                *)
Quiet ==
    "leftover" \notin gaps /\ spc \in {"destroy", "closed", "again"} =>
        ~InFlight /\ hasWork = FALSE

(* What create_jobs_task works from or will, is stored, or is submitted,    *)
(* has the id of its own job.                                               *)
Live(s) == notification = s \/ (currentWork = s /\ (hasWork = TRUE \/ cpc # "wait"))
JobsAreGenuine ==
    "reused" \notin gaps /\ "leftover" \notin gaps =>
        /\ \A i \in 1..Capacity : Genuine(store[i])
        /\ cpc \in {"hash", "send"} => Genuine(building)
        /\ rpc # "idle" => Genuine(result)
        /\ \A s \in Slots : Live(s) => Genuine(slots[s])

SharesInv == ActiveAreValid /\ Quiet /\ JobsAreGenuine /\ ShareIsValid

LEMMA ActiveStep ==
    DataOK /\ Arriving /\ ActiveAreValid /\ [Next]_vars => ActiveAreValid'
<1> SUFFICES ASSUME DataOK, Arriving, ActiveAreValid, [Next]_vars PROVE ActiveAreValid'
  OBVIOUS
<1> USE DEF conn, stratum, shared, creator, ring, submit, history
<1>0. Elements(<<>>) = {}
  BY DEF Elements
<1>1. CASE Connect
  BY <1>0, <1>1 DEF Connect, ActiveAreValid
<1>2. ASSUME NEW id \in JobIds, NEW clean \in BOOLEAN, ParseNotify(id, clean)
      PROVE  ActiveAreValid'
  <2>1. valid' = valid /\ activeIds' = activeIds /\ (Elements(activeIds))' = Elements(activeIds)
    BY <1>2 DEF ParseNotify, Elements
  <2>2. activeIds \in Seq(JobIds) /\ given \in [JobIds -> Lines]
    BY DEF DataOK
  <2>3. Elements(activeIds) \subseteq JobIds
    BY <2>2 DEF Elements
  <2>4. ASSUME "reused" \notin gaps', NEW a \in Elements(activeIds) PROVE given'[a] \in valid
    <3>1. "reused" \notin gaps
      BY <1>2, <2>4 DEF ParseNotify
    <3>2. given[a] \in valid /\ given[a] # 0 /\ a \in JobIds
      BY <2>3, <2>4, <3>1 DEF ActiveAreValid
    <3>3. a = id => given' = given
      BY <1>2, <2>4, <3>2 DEF ParseNotify
    <3>4. a # id => given'[a] = given[a]
      BY <1>2, <2>2, <3>2 DEF ParseNotify
    <3> QED
      BY <3>2, <3>3, <3>4
  <2> QED
    BY <2>1, <2>4 DEF ActiveAreValid
<1>3. CASE AcceptNotify
  <2> DEFINE id   == slots[target].id
             kept == ClearedIds(slots[target].clean)
  <2>1. id \in JobIds /\ slots[target].job # 0 /\ given[id] = slots[target].job
    BY <1>3 DEF AcceptNotify, Arriving, Announced, Genuine
  <2>2. kept \in Seq(JobIds) /\ Len(kept) <= MaxActive
    <3>1. activeIds \in Seq(JobIds) /\ Len(activeIds) <= MaxActive
      BY DEF DataOK
    <3>2. <<>> \in Seq(JobIds) /\ Len(<<>>) <= MaxActive
      BY PipelineAssumption
    <3> QED
      BY <3>1, <3>2, Zenon DEF ClearedIds
  <2>3. /\ valid' = {slots[target].job} \cup IF slots[target].clean THEN {} ELSE valid
        /\ given' = given /\ ("reused" \in gaps => "reused" \in gaps')
    BY <1>3 DEF AcceptNotify
  <2>4. 0 \notin valid' /\ given[id] \in valid'
    BY <2>1, <2>3 DEF ActiveAreValid
  <2>5. ASSUME "reused" \notin gaps', NEW a \in Elements(kept) PROVE given[a] \in valid'
    <3>1. CASE slots[target].clean
      BY <1>0, <2>5, <3>1 DEF ClearedIds
    <3>2. CASE ~slots[target].clean
      BY <2>3, <2>5, <3>2 DEF ClearedIds, ActiveAreValid
    <3> QED
      BY <3>1, <3>2
  <2>6. activeIds' = kept \/ activeIds' = AddActive(kept, id)
    BY <1>3 DEF AcceptNotify
  <2>7. Elements(AddActive(kept, id)) \subseteq Elements(kept) \cup {id}
    BY <2>1, <2>2, AddActiveElements
  <2>8. Elements(activeIds') \subseteq Elements(kept) \cup {id}
    BY <2>6, <2>7
  <2>9. (Elements(activeIds))' = Elements(activeIds')
    BY DEF Elements
  <2> HIDE DEF kept, id
  <2> QED
    BY <2>3, <2>4, <2>5, <2>8, <2>9 DEF ActiveAreValid
<1>4. CASE UNCHANGED <<activeIds, valid, given>> /\ ("reused" \in gaps => "reused" \in gaps')
  BY <1>4 DEF ActiveAreValid, Elements
<1>5. CloseStep => UNCHANGED <<activeIds, valid, given>> /\ ("reused" \in gaps => "reused" \in gaps')
  BY DEF CloseStep, ClearWork, ResetWork, Destroy, ResetAgain, NoteLeftover
<1>6. SubmitShare => UNCHANGED <<activeIds, valid, given>> /\ ("reused" \in gaps => "reused" \in gaps')
  BY DEF SubmitShare
<1>7. \/ Connect \/ AcceptNotify \/ CloseStep \/ SubmitShare
      \/ (\E id \in JobIds, clean \in BOOLEAN : ParseNotify(id, clean))
      \/ UNCHANGED <<activeIds, valid, given, gaps>>
  BY Zenon DEF Next, NotifyStep, CreateStep, vars, ReceiveNotify,
       ParseFails, FillJob, Notify, Close, ClearAgain, TakeNotification, AdoptWork,
       ActivateWork, Timeout, BuildJob, HashJob, SendJob, FindNonce, DropShare, WriteShare,
       RequestReconnect, ShutSocket
<1> QED
  BY <1>1, <1>2, <1>3, <1>4, <1>5, <1>6, <1>7

LEMMA QuietStep == DataOK /\ Quiet /\ [Next]_vars => Quiet'
<1> SUFFICES ASSUME DataOK, Quiet, [Next]_vars PROVE Quiet'
  OBVIOUS
<1> USE DEF conn, stratum, shared, creator, ring, submit, history
<1>1. CASE Connect \/ ReceiveNotify \/ Close \/ ClearWork
  BY <1>1 DEF Connect, ReceiveNotify, Close, ClearWork, Quiet
<1>2. CASE NotifyStep
  BY <1>2 DEF NotifyStep, ParseNotify, ParseFails, AcceptNotify, FillJob, Notify, Quiet
<1>3. CASE ResetWork \/ ResetAgain
  BY <1>3 DEF ResetWork, ResetAgain, NoteLeftover, Quiet, InFlight
<1>4. CASE Destroy \/ ClearAgain
  BY <1>4 DEF Destroy, ClearAgain, Quiet, InFlight
<1>5. CASE CreateStep
  BY <1>5 DEF CreateStep, TakeNotification, AdoptWork, ActivateWork, Timeout, BuildJob,
     HashJob, SendJob, Quiet, InFlight
<1>6. ASSUME NEW i \in 1..Capacity, FindNonce(i) PROVE Quiet'
  <2>1. NoJobs[i].body = 0
    BY DEF NoJobs, NoJob
  <2>2. store # NoJobs
    BY <1>6, <2>1 DEF FindNonce
  <2> QED
    BY <1>6, <2>2 DEF FindNonce, Quiet, InFlight
<1>7. CASE SubmitShare \/ WriteShare \/ DropShare
  BY <1>7 DEF SubmitShare, WriteShare, DropShare, Quiet, InFlight
<1>8. CASE RequestReconnect \/ ShutSocket \/ UNCHANGED vars
  BY <1>8 DEF RequestReconnect, ShutSocket, vars, Quiet, InFlight
<1> QED
  BY <1>1, <1>2, <1>3, <1>4, <1>5, <1>6, <1>7, <1>8 DEF Next, CloseStep

(* An id keeps its job unless it is given away again; a new session begins  *)
(* with nothing live, or with something left over.                          *)
LEMMA GenuineStep ==
    DataOK /\ WorkTaken /\ Arriving /\ Quiet /\ JobsAreGenuine /\ [Next]_vars
        => JobsAreGenuine'
<1> SUFFICES ASSUME DataOK, WorkTaken, Arriving, Quiet, JobsAreGenuine, [Next]_vars,
                    "reused" \notin gaps', "leftover" \notin gaps'
             PROVE  /\ (\A i \in 1..Capacity : Genuine(store[i]))'
                    /\ (cpc \in {"hash", "send"} => Genuine(building))'
                    /\ (rpc # "idle" => Genuine(result))'
                    /\ (\A s \in Slots : Live(s) => Genuine(slots[s]))'
  BY DEF JobsAreGenuine
<1> DEFINE Goal == /\ \A i \in 1..Capacity : Genuine(store[i])
                   /\ cpc \in {"hash", "send"} => Genuine(building)
                   /\ rpc # "idle" => Genuine(result)
                   /\ \A s \in Slots : Live(s) => Genuine(slots[s])
<1>0. Goal \/ "reused" \in gaps \/ "leftover" \in gaps
  BY DEF JobsAreGenuine
<1> USE DEF conn, stratum, shared, creator, ring, submit, history
<1>e. \A i \in 1..Capacity : NoJobs[i].id \notin JobIds
  BY PipelineAssumption DEF NoJobs, NoJob
<1>1. CASE Connect
  <2>1. ~InFlight /\ hasWork = FALSE
    BY <1>1 DEF Connect, Quiet
  <2> QED
    BY <1>1, <1>e, <2>1 DEF Connect, InFlight, Genuine, Live, Slots, None
<1>2. CASE ReceiveNotify
  <2>1. Goal
    BY <1>0, <1>2 DEF ReceiveNotify
  <2>2. \A s \in Slots : slots'[s] = slots[s] \/ slots'[s] = Blank
    BY <1>2 DEF ReceiveNotify, DataOK
  <2>3. Blank.id \notin JobIds
    BY PipelineAssumption DEF Blank
  <2> QED
    BY <1>2, <2>1, <2>2, <2>3 DEF ReceiveNotify, Genuine, Live
<1>3. ASSUME NEW id \in JobIds, NEW clean \in BOOLEAN, ParseNotify(id, clean) PROVE Goal'
  <2>1. Goal
    BY <1>0, <1>3 DEF ParseNotify
  <2>2. given \in [JobIds -> Lines] /\ target \in Slots /\ lines # 0
    BY <1>3 DEF DataOK, Arriving, ParseNotify
  <2>3. \A a \in JobIds : given[a] # 0 => given'[a] = given[a]
    <3>1. CASE given' = given
      BY <3>1
    <3>2. CASE given' # given
      BY <1>3, <2>2, <3>2 DEF ParseNotify
    <3> QED
      BY <3>1, <3>2
  <2>4. given'[id] # 0
    BY <1>3, <2>2 DEF ParseNotify
  <2>5. /\ slots'[target] = [id |-> id, job |-> given'[id], body |-> 0, clean |-> clean]
        /\ \A s \in Slots : s # target => slots'[s] = slots[s]
    BY <1>3, <2>2 DEF ParseNotify, DataOK
  <2> QED
    BY <1>3, <2>1, <2>3, <2>4, <2>5 DEF ParseNotify, Genuine, Live
<1>4. CASE ParseFails \/ AcceptNotify
  <2>1. Goal
    BY <1>0, <1>4 DEF ParseFails, AcceptNotify
  <2> QED
    BY <1>4, <2>1 DEF ParseFails, AcceptNotify, Genuine, Live
<1>5. CASE FillJob
  <2>1. Goal
    BY <1>0, <1>5 DEF FillJob
  <2>2. \A s \in Slots : slots'[s].id = slots[s].id /\ slots'[s].job = slots[s].job
    BY <1>5 DEF FillJob, DataOK, Contents
  <2> QED
    BY <1>5, <2>1, <2>2 DEF FillJob, Genuine, Live
<1>6. CASE Notify
  <2>1. Goal
    BY <1>0, <1>6 DEF Notify
  <2> QED
    BY <1>6, <2>1 DEF Notify, Genuine, Live, Arriving, Announced
<1>7. CASE Close \/ Destroy \/ ClearWork \/ ClearAgain
  <2>1. Goal
    BY <1>0, <1>7 DEF Close, Destroy, ClearWork, ClearAgain
  <2> QED
    BY <1>7, <1>e, <2>1 DEF Close, Destroy, ClearWork, ClearAgain, Genuine, Live
<1>8. CASE ResetWork \/ ResetAgain
  <2>1. ~InFlight /\ hasWork' = FALSE
    BY <1>8 DEF ResetWork, ResetAgain, NoteLeftover
  <2> QED
    BY <1>8, <1>e, <2>1 DEF ResetWork, ResetAgain, InFlight, Genuine, Live, Slots, None
<1>9. CASE TakeNotification \/ AdoptWork \/ ActivateWork \/ Timeout
  <2>1. Goal
    BY <1>0, <1>9 DEF TakeNotification, AdoptWork, ActivateWork, Timeout
  <2>2. CASE TakeNotification
    BY <2>1, <2>2 DEF TakeNotification, Genuine, Live, Slots, None
  <2>3. CASE AdoptWork \/ ActivateWork
    BY <2>1, <2>3 DEF AdoptWork, ActivateWork, Genuine, Live
  <2>4. CASE Timeout
    BY <2>1, <2>4 DEF Timeout, Genuine, Live, Slots, None, DataOK
  <2> QED
    BY <1>9, <2>2, <2>3, <2>4
<1>10. CASE BuildJob \/ HashJob
  <2>1. Goal
    BY <1>0, <1>10 DEF BuildJob, HashJob
  <2>2. building'.id \in JobIds => Genuine(building)'
    <3>1. CASE BuildJob
      <4>1. Genuine(slots[currentWork])
        BY <2>1, <3>1 DEF BuildJob, WorkTaken, Live
      <4>2. building'.id = slots[currentWork].id /\ building'.job = slots[currentWork].job
            /\ given' = given
        BY <3>1 DEF BuildJob
      <4> QED
        BY <4>1, <4>2 DEF Genuine
    <3>2. CASE HashJob
      <4>1. building'.id = building.id /\ building'.job = building.job /\ given' = given
            /\ cpc = "hash"
        BY <3>2 DEF HashJob, DataOK, Jobs
      <4> QED
        BY <2>1, <4>1 DEF Genuine
    <3> QED
      BY <1>10, <3>1, <3>2
  <2>3. Genuine(building)'
    BY <2>2 DEF Genuine
  <2> QED
    BY <1>10, <2>1, <2>3 DEF BuildJob, HashJob, Genuine, Live
<1>11. CASE SendJob
  <2>1. Goal
    BY <1>0, <1>11 DEF SendJob
  <2>2. \A i \in 1..Capacity : store'[i] = store[i] \/ store'[i] = building
    BY <1>11 DEF SendJob, DataOK
  <2> QED
    BY <1>11, <2>1, <2>2 DEF SendJob, Genuine, Live
<1>12. ASSUME NEW i \in 1..Capacity, FindNonce(i) PROVE Goal'
  <2>1. Goal
    BY <1>0, <1>12 DEF FindNonce
  <2> QED
    BY <1>12, <2>1 DEF FindNonce, Genuine, Live
<1>13. CASE DropShare \/ SubmitShare \/ WriteShare
  <2>1. Goal
    BY <1>0, <1>13 DEF DropShare, SubmitShare, WriteShare
  <2> QED
    BY <1>13, <2>1 DEF DropShare, SubmitShare, WriteShare, Genuine, Live
<1>14. CASE RequestReconnect \/ ShutSocket \/ UNCHANGED vars
  <2>1. Goal
    BY <1>0, <1>14 DEF RequestReconnect, ShutSocket, vars
  <2> QED
    BY <1>14, <2>1 DEF RequestReconnect, ShutSocket, vars, Genuine, Live
<1> QED
  BY <1>1, <1>2, <1>3, <1>4, <1>5, <1>6, <1>7, <1>8, <1>9, <1>10, <1>11, <1>12, <1>13,
     <1>14 DEF Next, NotifyStep, CloseStep, CreateStep

(* The check lets an active id pass, which stands for the job it was looked *)
(* up with; what is withdrawn under a write is noted.                       *)
LEMMA ShareStep ==
    DataOK /\ Protocol /\ SharesInv /\ [Next]_vars => ShareIsValid'
<1> SUFFICES ASSUME DataOK, Protocol, SharesInv, [Next]_vars PROVE ShareIsValid'
  OBVIOUS
<1> USE DEF SharesInv, ShareIsValid, conn, stratum, shared, creator, ring, submit, history
<1>1. CASE Connect
  BY <1>1 DEF Connect, Protocol, Holders
<1>2. CASE \E id \in JobIds, clean \in BOOLEAN : ParseNotify(id, clean)
  <2>1. /\ rpc' = rpc /\ result' = result /\ valid' = valid /\ gaps \subseteq gaps'
    BY <1>2 DEF ParseNotify
  <2> QED
    BY <2>1
<1>3. CASE AcceptNotify
  BY <1>3 DEF AcceptNotify
<1>4. CASE ResetWork \/ ResetAgain
  BY <1>4 DEF ResetWork, ResetAgain, NoteLeftover, InFlight
<1>5. CASE SubmitShare
  <2> SUFFICES ASSUME rpc' = "write", gaps' = {} PROVE result'.job \in valid'
    OBVIOUS
  <2>1. /\ MayBeSent /\ result' = result /\ valid' = valid /\ rpc = "submit"
        /\ "reused" \notin gaps /\ "leftover" \notin gaps
    BY <1>5 DEF SubmitShare
  <2>2. result.id \in Elements(activeIds) /\ activeIds \in Seq(JobIds)
    BY <2>1 DEF MayBeSent, DataOK
  <2>3. result.id \in JobIds
    BY <2>2 DEF Elements
  <2> QED
    BY <2>1, <2>2, <2>3 DEF JobsAreGenuine, Genuine, ActiveAreValid
<1>6. CASE (\E i \in 1..Capacity : FindNonce(i)) \/ DropShare \/ WriteShare
  BY <1>6 DEF FindNonce, DropShare, WriteShare
<1>7. CASE UNCHANGED <<rpc, result, valid, gaps>>
  BY <1>7
<1> QED
  BY <1>1, <1>2, <1>3, <1>4, <1>5, <1>6, <1>7 DEF Next, NotifyStep, CloseStep, CreateStep,
     vars, ReceiveNotify, ParseFails, FillJob, Notify, Close, ClearAgain, ClearWork, Destroy,
     TakeNotification, AdoptWork, ActivateWork, Timeout, BuildJob, HashJob, SendJob,
     RequestReconnect, ShutSocket

(* MAIN THEOREM 3: every share written solves a job the session's pool      *)
(* announced and has not withdrawn, unless one of the three gaps was open.  *)
THEOREM SharesAreValid == Spec => []ShareIsValid
<1>1. Init => SharesInv
  <2> SUFFICES ASSUME Init PROVE SharesInv
    OBVIOUS
  <2>1. Elements(<<>>) = {}
    BY DEF Elements
  <2>2. \A i \in 1..Capacity : NoJobs[i].id \notin JobIds
    BY PipelineAssumption DEF NoJobs, NoJob
  <2> QED
    BY <2>1, <2>2 DEF Init, SharesInv, ActiveAreValid, Quiet, InFlight, JobsAreGenuine,
       Genuine, Live, Slots, None, ShareIsValid
<1>2. DataOK /\ WorkTaken /\ Arriving /\ Protocol /\ SharesInv /\ [Next]_vars => SharesInv'
  <2> SUFFICES ASSUME DataOK, WorkTaken, Arriving, Protocol, SharesInv, [Next]_vars
               PROVE  SharesInv'
    OBVIOUS
  <2>1. ActiveAreValid' /\ Quiet'
    BY ActiveStep, QuietStep DEF SharesInv
  <2>2. JobsAreGenuine' /\ ShareIsValid'
    BY GenuineStep, ShareStep DEF SharesInv
  <2> QED
    BY <2>1, <2>2 DEF SharesInv
<1>3. TypeOK => DataOK
  BY DEF TypeOK
<1>4. SharesInv => ShareIsValid
  BY DEF SharesInv
<1>5. Init => Protocol
  BY DEF Init, Protocol, Holders, Published, Handles, InSession
<1> QED
  BY <1>1, <1>2, <1>3, <1>4, <1>5, ProtocolStep, TypeCorrect, PTL DEF Spec
---------------------------------------------------------------------------
(* The newest job's slot is not written again before the next line comes,   *)
(* and the news of it is on its way to create_jobs_task, or arrived.        *)
Arrived ==
    \/ spc = "notify"
    \/ notification = target
    \/ /\ notification = None /\ currentWork = target
       /\ \/ cpc = "adopt"
          \/ hasWork /\ (cpc = "activate" \/ activeSlot = target)

NewestIsKept ==
    /\ newest.line <= lines
    /\ newest.job # 0 => spc \in InSession
    /\ spc \in {"parse", "accept", "fill"} => newest.line < lines
    /\ newest.job # 0 /\ newest.line = lines =>
         slots[target].job = newest.job /\ slots[target].body = newest.job /\ Arrived

(* Until the next line the session does nothing to the newest job but       *)
(* announce it; create_jobs_task takes it up and stays with it.             *)
LEMMA NewestStep == DataOK /\ NewestIsKept /\ [Next]_vars => NewestIsKept'
<1> SUFFICES ASSUME DataOK, NewestIsKept, [Next]_vars PROVE NewestIsKept'
  OBVIOUS
<1>0. /\ lines \in Nat /\ newest.line \in Nat
      /\ notification \in {0, 1, None} /\ target \in {0, 1} /\ None = 2
  BY PipelineAssumption DEF DataOK, Lines, Slots, None
<1> USE PipelineAssumption, <1>0 DEF NewestIsKept, Arrived, InSession, conn, stratum, shared, creator,
        ring, submit, history
<1>1. Connect => NewestIsKept'
  BY DEF Connect
<1>2. ReceiveNotify => NewestIsKept'
  BY DEF ReceiveNotify
<1>3. (\E id, clean : ParseNotify(id, clean)) => NewestIsKept'
  BY DEF ParseNotify
<1>4. (ParseFails \/ AcceptNotify) => NewestIsKept'
  BY DEF ParseFails, AcceptNotify
<1>5. ASSUME FillJob PROVE NewestIsKept'
  <2>1. target \in Slots /\ slots \in [Slots -> Contents]
    BY DEF DataOK
  <2>2. /\ slots'[target].job = slots[target].job /\ slots'[target].body = slots[target].job
        /\ newest' = [line |-> lines, job |-> slots[target].job] /\ target' = target
        /\ spc' = "notify" /\ lines' = lines
    BY <1>5, <2>1 DEF FillJob, Contents
  <2> QED
    BY <2>2
<1>6. Notify => NewestIsKept'
  BY DEF Notify
<1>7. (Close \/ CloseStep \/ ClearAgain) => NewestIsKept'
  BY DEF Close, CloseStep, ClearWork, ResetWork, Destroy, ResetAgain, ClearAgain
<1>8. TakeNotification => NewestIsKept'
  BY DEF TakeNotification, None
<1>9. (AdoptWork \/ ActivateWork \/ Timeout) => NewestIsKept'
  BY DEF AdoptWork, ActivateWork, Timeout
<1>10. (BuildJob \/ HashJob \/ SendJob) => NewestIsKept'
  BY DEF BuildJob, HashJob, SendJob
<1>11. ((\E i : FindNonce(i)) \/ DropShare \/ SubmitShare \/ WriteShare)
         => NewestIsKept'
  BY DEF FindNonce, DropShare, SubmitShare, WriteShare
<1>12. (RequestReconnect \/ ShutSocket) => NewestIsKept'
  BY DEF RequestReconnect, ShutSocket
<1>13. UNCHANGED vars => NewestIsKept'
  BY DEF vars
<1> QED
  BY <1>1, <1>2, <1>3, <1>4, <1>5, <1>6, <1>7, <1>8, <1>9, <1>10, <1>11, <1>12, <1>13, Zenon
     DEF Next, NotifyStep, CreateStep

(* MAIN THEOREM 4: with nothing on its way and no line ignored since, the   *)
(* work of create_jobs_task is the newest job, with both of its parts.      *)
THEOREM WorkSettles == Spec => []SettledWorkIsNewest
<1>1. Init => NewestIsKept
  BY DEF Init, NewestIsKept
<1>2. DataOK /\ NewestIsKept => SettledWorkIsNewest
  BY DEF DataOK, Slots, None, NewestIsKept, Arrived, SettledWorkIsNewest, Settled, WorksOnNewest
<1>3. TypeOK => DataOK
  BY DEF TypeOK
<1> QED
  BY <1>1, <1>2, <1>3, NewestStep, TypeCorrect, PTL DEF Spec
=============================================================================

----------------------------- MODULE Sv2Session -----------------------------
(***************************************************************************)
(* Work over a Stratum V2 channel (main/tasks/stratum_v2_client.c): the    *)
(* session stores the pool's jobs in a small pool of slots, future ones    *)
(* among them, and activates them (NewMiningJob, NewExtendedMiningJob,     *)
(* SetNewPrevHash); create_jobs_task builds the ASIC's jobs from the slot  *)
(* it was last notified of; ASIC_result_task submits shares.               *)
(*                                                                         *)
(* A job is its id, the connection it was announced on (ids start again    *)
(* with each) and the previous block hash it builds on: hash 0 is a job    *)
(* without one. Reads that are torn between two fields of a slot are the   *)
(* subject of MiningPipeline; here create_jobs_task reads a slot in one    *)
(* step, between any two of the session's writes.                          *)
(***************************************************************************)
EXTENDS Naturals, Sequences, FiniteSets

CONSTANTS
    NumSlots,      \* MINER_JOB_POOL_SIZE, SV2_PENDING_JOBS_SIZE
    MaxActive,     \* SV2_MAX_ACTIVE_JOB_IDS
    None,          \* no slot, nobody
    MaxSessions, MaxJobs, MaxHashes, MaxMessages  \* bounds: connections, jobs
                   \* of a connection, block hashes, messages

ASSUME Sv2Assumption ==
    /\ NumSlots \in Nat \ {0} /\ MaxActive \in Nat \ {0}
    /\ MaxSessions \in Nat /\ MaxJobs \in Nat /\ MaxHashes \in Nat /\ MaxMessages \in Nat
    /\ None \notin Nat /\ None \notin {"session", "result"}

Slots == 0..(NumSlots - 1)
SlotOf(id) == id % NumSlots
Ids == 1..MaxJobs
Hashes == 0..MaxHashes
Sessions == 0..MaxSessions

VARIABLES
    \* s_v2_conn: published, has a noise context, holds the transport, which
    \* GLOBAL_STATE->transport points to; transport and context are alive
    published, noise, transport, alive,
    \* transport_mutex: its holder
    mutex,
    \* the channel's type; has_prev_hash and prev_hash; pending_jobs_valid;
    \* active_job_ids
    extended, prevHash, pending, active,
    \* the session: program counter and the message it handles
    spc, msg,
    \* s_job_pool, and the notification of create_jobs_task
    slots, notification,
    \* create_jobs_task: program counter, current_work, has_work,
    \* current_work_sent, the job it has built
    cpc, currentWork, hasWork, workSent, building,
    \* the jobs the ASIC works on (asic_job_slot.c)
    stored,
    \* ASIC_result_task: program counter and the job of its nonce
    rpc, share,
    \* the pool: connections so far, jobs announced, future jobs, jobs it takes
    \* shares for, block hashes, messages
    sessions, announced, future, valid, tip, messages,
    \* history: the newest activated job, the slots that lost their activated or
    \* future job, a new block's job was lost, and what may get a share for
    \* another job past the check
    newest, spoiled, lostJob, gaps

connection == <<published, noise, transport, alive>>
channel    == <<extended, prevHash, pending, active>>
work       == <<cpc, currentWork, hasWork, workSent, building>>
result     == <<rpc, share>>
pool       == <<sessions, announced, future, valid, tip, messages>>
history    == <<newest, spoiled, lostJob, gaps>>
vars == <<connection, mutex, channel, spc, msg, slots, notification, work, stored,
          result, pool, history>>

Job == [id: {0} \cup Ids, prev: Hashes, session: Sessions, clean: BOOLEAN,
        rollable: BOOLEAN]
Blank == [id |-> 0, prev |-> 0, session |-> 0, clean |-> FALSE, rollable |-> FALSE]
Built == [id: {0} \cup Ids, prev: Hashes, session: Sessions]
NoJob == [id |-> 0, prev |-> 0, session |-> 0]

Messages ==
    [type: {"job", "foreign"}, id: Ids, now: BOOLEAN] \cup [type: {"hash"}, id: Ids]
NoMessage == [type |-> "none"]
Gaps == {"leftover", "overwritten", "late"}

FlagsOK ==
    /\ published \in BOOLEAN /\ noise \in BOOLEAN
    /\ transport \in BOOLEAN /\ alive \in BOOLEAN
    /\ mutex \in {None, "session", "result"} /\ extended \in BOOLEAN
    /\ spc \in {"closed", "connect", "handshake", "setup", "channel", "open", "store",
                "activate", "clear", "complete", "notify", "closing", "reset",
                "destroy"}
    /\ cpc \in {"wait", "build", "send"} /\ rpc \in {"idle", "found", "write"}
    /\ hasWork \in BOOLEAN /\ workSent \in BOOLEAN /\ lostJob \in BOOLEAN

DataOK ==
    /\ prevHash \in Hashes /\ pending \subseteq Slots
    /\ active \in Seq(Ids) /\ Len(active) <= MaxActive
    /\ msg \in Messages \cup {NoMessage}
    /\ slots \in [Slots -> Job] /\ notification \in Slots \cup {None}
    /\ currentWork \in Slots \cup {None}
    /\ building \in Built /\ stored \in Built /\ share \in Built
    /\ sessions \in Sessions /\ gaps \subseteq Gaps
    /\ announced \in 0..MaxJobs /\ future \subseteq Ids /\ valid \subseteq Ids
    /\ tip \in Hashes /\ newest \in Built /\ spoiled \subseteq Slots

(* create_jobs_task builds from a slot, and a message is handled.           *)
Busy ==
    /\ cpc = "build" => currentWork # None
    /\ spc \in {"store", "activate", "clear", "complete", "notify"} => msg # NoMessage

TypeOK == FlagsOK /\ DataOK /\ Busy

Init ==
    /\ published = FALSE /\ noise = FALSE /\ transport = FALSE /\ alive = FALSE
    /\ mutex = None
    /\ extended \in BOOLEAN /\ prevHash = 0 /\ pending = {} /\ active = <<>>
    /\ spc = "closed" /\ msg = NoMessage
    /\ slots = [s \in Slots |-> Blank] /\ notification = None
    /\ cpc = "wait" /\ currentWork = None /\ hasWork = FALSE /\ workSent = FALSE
    /\ building = NoJob /\ stored = NoJob
    /\ rpc = "idle" /\ share = NoJob
    /\ sessions = 0 /\ announced = 0 /\ future = {} /\ valid = {} /\ tip = 0
    /\ messages = 0
    /\ newest = NoJob /\ spoiled = {} /\ lostJob = FALSE /\ gaps = {}

---------------------------------------------------------------------------
(* The connection.                                                          *)

(* A fresh, zeroed sv2_conn_t is published; then the socket is opened.      *)
Connect ==
    /\ spc = "closed" /\ sessions < MaxSessions
    /\ spc' = "connect" /\ sessions' = sessions + 1
    /\ published' = TRUE /\ noise' = FALSE
    /\ prevHash' = 0 /\ pending' = {} /\ active' = <<>>
    /\ announced' = 0 /\ future' = {} /\ valid' = {} /\ lostJob' = FALSE
    /\ newest' = NoJob
    /\ UNCHANGED <<spoiled, gaps, transport, alive, mutex, extended, msg, slots,
                   notification, work, stored, result, tip, messages>>

ConnectFails ==
    /\ spc = "connect" /\ spc' = "closing"
    /\ UNCHANGED <<connection, mutex, channel, msg, slots, notification, work,
                   stored, result, pool, history>>

PublishTransport ==
    /\ spc = "connect" /\ mutex = None
    /\ spc' = "handshake" /\ transport' = TRUE /\ alive' = TRUE
    /\ UNCHANGED <<published, noise, mutex, channel, msg, slots, notification,
                   work, stored, result, pool, history>>

(* The noise context is usable by others from here on, before the handshake.*)
CreateNoise ==
    /\ spc = "handshake" /\ ~noise /\ noise' = TRUE
    /\ UNCHANGED <<published, transport, alive, mutex, channel, spc, msg, slots,
                   notification, work, stored, result, pool, history>>

(* The noise handshake, SetupConnection and OpenMiningChannel: each may fail,*)
(* which ends the session.                                                  *)
Opening(from, to) ==
    /\ spc = from /\ spc' \in {to, "closing"}
    /\ UNCHANGED <<connection, mutex, channel, msg, slots, notification, work,
                   stored, result, pool, history>>

Handshake == noise /\ Opening("handshake", "setup")
SetUpConnection == Opening("setup", "channel")
OpenChannel == Opening("channel", "open")

(* A reconnect request, a pause, or an error of the socket.                 *)
LeaveLoop ==
    /\ spc = "open" /\ spc' = "closing"
    /\ UNCHANGED <<connection, mutex, channel, msg, slots, notification, work,
                   stored, result, pool, history>>

(* stratum_v2_close_connection()                                            *)
TakesMutex_Not == mutex' = mutex

TakesMutex == mutex = None /\ mutex' = "session"

Unpublish ==
    /\ spc = "closing" /\ TakesMutex
    /\ spc' = "reset" /\ transport' = FALSE /\ published' = FALSE
    /\ UNCHANGED <<noise, alive, channel, msg, slots, notification, work, stored,
                   result, pool, history>>

(* SYSTEM_reset_pool_session() under the mutex. What is on its way between  *)
(* the tasks outlives it.                                                   *)
InFlight == notification # None \/ cpc # "wait" \/ rpc # "idle"

ResetSession ==
    /\ spc = "reset" /\ spc' = "destroy"
    /\ mutex' = None
    /\ stored' = NoJob /\ hasWork' = FALSE
    /\ gaps' = IF InFlight THEN gaps \cup {"leftover"} ELSE {}
    /\ UNCHANGED <<connection, channel, msg, slots, notification, cpc,
                   currentWork, workSent, building, result, pool, newest, spoiled,
                   lostJob>>

Destroy ==
    /\ spc = "destroy" /\ spc' = "closed"
    /\ noise' = FALSE /\ alive' = FALSE /\ active' = <<>>
    /\ UNCHANGED <<published, transport, mutex, extended, prevHash, pending, msg,
                   slots, notification, work, stored, result, pool, history>>

---------------------------------------------------------------------------
(* Messages of the pool, in the order it sends them.                        *)

ReadMessage(m, next) ==
    /\ spc = "open" /\ spc' = next /\ msg' = m
    /\ messages < MaxMessages /\ messages' = messages + 1
    /\ UNCHANGED <<connection, mutex, channel, slots, notification, work, stored,
                   result>>

(* NewMiningJob or NewExtendedMiningJob with a new id, for now (min_ntime)  *)
(* or for a future block.                                                   *)
ReadJob ==
    /\ announced < MaxJobs
    /\ \E now \in BOOLEAN :
         LET id == announced + 1
             starts == now /\ prevHash # 0
         IN  /\ ReadMessage([type |-> "job", id |-> id, now |-> now], "store")
             /\ announced' = id
             /\ future' = IF starts THEN future ELSE future \cup {id}
             /\ valid' = IF starts THEN valid \cup {id} ELSE valid
    /\ UNCHANGED <<sessions, tip, history>>

(* A job that was announced before, or one that is dropped: malformed or of *)
(* another channel. Only an extended one has then been parsed into its slot.*)
ReadOddJob ==
    /\ \/ \E id \in valid :
            ReadMessage([type |-> "job", id |-> id, now |-> TRUE], "store")
       \/ \E id \in 1..(announced + 1) :
            /\ extended /\ id \in Ids
            /\ ReadMessage([type |-> "foreign", id |-> id, now |-> TRUE], "store")
    /\ UNCHANGED <<sessions, announced, future, valid, tip, history>>

(* SetNewPrevHash: the block's first job is one of the future ones.         *)
ReadPrevHash ==
    /\ tip < MaxHashes /\ tip' = tip + 1
    /\ \E id \in future :
         /\ ReadMessage([type |-> "hash", id |-> id], "clear")
         /\ valid' = {id} /\ future' = {}
    /\ gaps' = gaps \cup IF rpc = "write" THEN {"late"} ELSE {}
    /\ UNCHANGED <<sessions, announced, newest, spoiled, lostJob>>

Slot == SlotOf(msg.id)

(* A slot whose job is written over: it matters if that is the newest job,  *)
(* one that waits for its block, or what create_jobs_task works on.         *)
Overwrites ==
    \/ slots[Slot].id # 0 /\ (slots[Slot].id \in future \/ slots[Slot].id = newest.id)
    \/ Slot = notification \/ Slot = currentWork

(* The slot create_jobs_task works from, or will, is written over.          *)
InUse == Slot = notification \/ (Slot = currentWork /\ (hasWork \/ cpc = "build"))

(* A job for now can start only when the block hash is known.               *)
StartsNow_AnyTime == msg.now

StartsNow == msg.now /\ prevHash # 0

(* The job without its block hash; a dropped one is not pending.            *)
StoreJob ==
    /\ spc = "store"
    /\ slots' = [slots EXCEPT ![Slot] =
           [id |-> msg.id, prev |-> 0, session |-> sessions, clean |-> FALSE,
            rollable |-> extended /\ msg.type = "job"]]
    /\ gaps' = gaps \cup IF InUse THEN {"overwritten"} ELSE {}
    /\ spoiled' = IF Overwrites THEN spoiled \cup {Slot} ELSE spoiled
    /\ IF msg.type = "foreign"
       THEN spc' = "open" /\ msg' = NoMessage /\ pending' = pending \ {Slot}
       ELSE /\ pending' = pending \cup {Slot}
            /\ IF StartsNow THEN spc' = "activate" /\ msg' = msg
               ELSE spc' = "open" /\ msg' = NoMessage
    /\ UNCHANGED <<connection, mutex, extended, prevHash, active, notification,
                   work, stored, result, pool, newest, lostJob>>

IsActive(id) == \E i \in 1..Len(active) : active[i] = id

(* add_active_job_id(): the oldest id makes room.                           *)
AddActive(ids, id) ==
    IF Len(ids) < MaxActive THEN Append(ids, id) ELSE Append(Tail(ids), id)

ActivateNow ==
    /\ spc = "activate"
    /\ IF IsActive(msg.id)
       THEN spc' = "open" /\ msg' = NoMessage /\ UNCHANGED <<active, newest, spoiled>>
       ELSE /\ spc' = "complete" /\ msg' = msg /\ active' = AddActive(active, msg.id)
            /\ newest' = [id |-> msg.id, prev |-> prevHash, session |-> sessions]
            /\ spoiled' = spoiled \ {Slot}
    /\ UNCHANGED <<connection, mutex, extended, prevHash, pending, slots,
                   notification, work, stored, result, pool, lostJob, gaps>>

(* SetNewPrevHash: the ids of the old block are forgotten if the new one's  *)
(* job is where it was put.                                                 *)
HasFutureJob_Any == Slot \in pending

HasFutureJob == Slot \in pending /\ slots[Slot].id = msg.id

ActiveAlone_Kept(id) == AddActive(active, id)

ActiveAlone(id) == <<id>>

ClearActive ==
    /\ spc = "clear"
    /\ prevHash' = tip
    /\ IF HasFutureJob
       THEN /\ spc' = "complete" /\ msg' = msg /\ active' = ActiveAlone(msg.id)
            /\ newest' = [id |-> msg.id, prev |-> tip, session |-> sessions]
            /\ spoiled' = spoiled \ {Slot}
            /\ UNCHANGED lostJob
       ELSE spc' = "open" /\ msg' = NoMessage /\ lostJob' = TRUE
            /\ UNCHANGED <<active, newest, spoiled>>
    /\ UNCHANGED <<connection, mutex, extended, pending, slots, notification,
                   work, stored, result, pool, gaps>>

(* The block hash is filled in; the first job of a block is clean.          *)
CompleteJob ==
    /\ spc = "complete" /\ spc' = "notify"
    /\ slots' = [slots EXCEPT ![Slot].prev = prevHash,
                              ![Slot].clean = msg.type = "hash"]
    /\ UNCHANGED <<connection, mutex, channel, msg, notification, work, stored,
                   result, pool, history>>

Notify ==
    /\ spc = "notify" /\ spc' = "open" /\ msg' = NoMessage
    /\ notification' = Slot
    /\ UNCHANGED <<connection, mutex, channel, slots, work, stored, result, pool,
                   history>>

---------------------------------------------------------------------------
(* create_jobs_task                                                         *)

NotSent_Kept == workSent

NotSent == FALSE

TakeNotification ==
    /\ cpc = "wait" /\ notification # None
    /\ currentWork' = notification /\ notification' = None
    /\ hasWork' = TRUE /\ workSent' = NotSent
    /\ cpc' = IF slots[notification].clean THEN "build" ELSE "wait"
    /\ UNCHANGED <<connection, mutex, channel, spc, msg, slots, building, stored,
                   result, pool, history>>

(* The ASIC's cycle is over. A job that cannot be rolled is sent once.      *)
DropWork ==
    /\ cpc = "wait" /\ notification = None
    /\ currentWork # None /\ ~hasWork
    /\ currentWork' = None /\ workSent' = FALSE
    /\ UNCHANGED <<connection, mutex, channel, spc, msg, slots, notification,
                   cpc, hasWork, building, stored, result, pool, history>>

NextCycle ==
    /\ cpc = "wait" /\ notification = None
    /\ currentWork # None /\ hasWork
    /\ slots[currentWork].rollable \/ ~workSent
    /\ cpc' = "build"
    /\ UNCHANGED <<connection, mutex, channel, spc, msg, slots, notification,
                   currentWork, hasWork, workSent, building, stored, result,
                   pool, history>>

BuildJob ==
    /\ cpc = "build" /\ cpc' = "send"
    /\ building' = [id |-> slots[currentWork].id, prev |-> slots[currentWork].prev,
                    session |-> slots[currentWork].session]
    /\ UNCHANGED <<connection, mutex, channel, spc, msg, slots, notification,
                   currentWork, hasWork, workSent, stored, result, pool, history>>

SendJob ==
    /\ cpc = "send" /\ cpc' = "wait"
    /\ stored' = building /\ workSent' = TRUE
    /\ UNCHANGED <<connection, mutex, channel, spc, msg, slots, notification,
                   currentWork, hasWork, building, result, pool, history>>

---------------------------------------------------------------------------
(* ASIC_result_task and stratum_v2_submit_share()                           *)

FindNonce ==
    /\ rpc = "idle" /\ stored # NoJob
    /\ rpc' = "found" /\ share' = stored
    /\ UNCHANGED <<connection, mutex, channel, spc, msg, slots, notification,
                   work, stored, pool, history>>

MaySubmit == transport /\ published /\ noise /\ IsActive(share.id)

DropShare ==
    /\ rpc = "found" /\ mutex = None /\ ~MaySubmit
    /\ rpc' = "idle" /\ share' = NoJob
    /\ UNCHANGED <<connection, mutex, channel, spc, msg, slots, notification,
                   work, stored, pool, history>>

SubmitShare ==
    /\ rpc = "found" /\ mutex = None /\ MaySubmit
    /\ rpc' = "write" /\ mutex' = "result"
    /\ gaps' = (gaps \ {"late"}) \cup IF spc = "clear" THEN {"late"} ELSE {}
    /\ UNCHANGED <<connection, channel, spc, msg, slots, notification, work,
                   stored, share, pool, newest, spoiled, lostJob>>

WriteShare ==
    /\ rpc = "write" /\ rpc' = "idle" /\ share' = NoJob /\ mutex' = None
    /\ UNCHANGED <<connection, channel, spc, msg, slots, notification, work,
                   stored, pool, history>>

---------------------------------------------------------------------------
Closing == Unpublish \/ ResetSession \/ Destroy
Handling ==
    StoreJob \/ ActivateNow \/ ClearActive \/ CompleteJob \/ Notify
CreatingJobs ==
    TakeNotification \/ DropWork \/ NextCycle \/ BuildJob \/ SendJob

Next ==
    \/ Connect \/ ConnectFails \/ PublishTransport \/ CreateNoise
    \/ Handshake \/ SetUpConnection \/ OpenChannel
    \/ LeaveLoop \/ Closing
    \/ ReadJob \/ ReadOddJob \/ ReadPrevHash \/ Handling
    \/ CreatingJobs
    \/ FindNonce \/ DropShare \/ SubmitShare \/ WriteShare

Spec == Init /\ [][Next]_vars

(* The session handles what it has read, create_jobs_task has the highest   *)
(* priority, a write ends. The pool and the ASIC owe nothing.               *)
Fairness ==
    /\ WF_vars(Handling) /\ WF_vars(TakeNotification)
    /\ WF_vars(NextCycle \/ BuildJob \/ SendJob)

FairSpec == Spec /\ Fairness

---------------------------------------------------------------------------
(* A share is being encrypted and written only while transport and noise    *)
(* context exist, and (its id being active) only on a channel that is open. *)
TransportIsThere ==
    rpc = "write" => alive /\ noise /\ spc \notin {"connect", "handshake", "setup", "channel"}

(* A share is written for a job of this connection that the pool announced, *)
(* activated and has not replaced by a block, and it builds on that block.  *)
(* Three gaps are the code's own, and excepted: something of the connection *)
(* before was on its way when that was reset (ids start again, and the      *)
(* check at stratum_v2_client.c:154 knows jobs by id only), the new block   *)
(* came while the write was under way or was not handled yet, or its job is *)
(* unknown (lostJob). A job without its block hash is written only after a  *)
(* slot was stored over while create_jobs_task worked from it.              *)
ShareIsValid ==
    rpc = "write" /\ gaps \cap {"leftover", "late"} = {} /\ ~lostJob =>
        /\ share.session = sessions /\ share.id \in valid
        /\ share.prev = tip \/ (share.prev = 0 /\ "overwritten" \in gaps)

(* No share of a future job is written before its block, though such a job  *)
(* can be mined: create_jobs_task is told of, and works on, jobs with their *)
(* block hash, but when the pool's next job lands in that slot (spoiled),   *)
(* it builds from the job without a hash (stratum_v2_client.c:223, 262).    *)
FutureJobsGetNoShare ==
    /\ rpc = "write" => share.id \notin future
    /\ notification # None /\ spc = "open" /\ notification \notin spoiled
         => slots[notification].prev # 0
    /\ currentWork # None /\ hasWork /\ notification = None /\ spc = "open"
         /\ currentWork \notin spoiled /\ newest # NoJob
         => slots[currentWork].prev # 0

(* When nothing is on its way, the work is the newest activated job on the  *)
(* newest block hash, unless a later message took its slot.                 *)
Settled == spc = "open" /\ notification = None /\ cpc = "wait"
SettledWorkIsNewest ==
    Settled /\ newest # NoJob /\ SlotOf(newest.id) \notin spoiled /\ ~lostJob
        => /\ currentWork = SlotOf(newest.id) /\ hasWork
           /\ slots[currentWork].id = newest.id
           /\ slots[currentWork].prev = newest.prev /\ newest.prev = prevHash

(* The newest activated job reaches the ASIC, complete, or a newer one does,*)
(* unless its slot is written over before or the session ends.              *)
NewestIsMined ==
    newest # NoJob
        ~> stored = newest \/ SlotOf(newest.id) \in spoiled
           \/ spc \in {"closing", "reset", "destroy", "closed", "connect"}
=============================================================================

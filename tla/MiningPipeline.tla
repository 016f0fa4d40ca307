--------------------------- MODULE MiningPipeline ---------------------------
(***************************************************************************)
(* From mining.notify to a submitted share, for a Stratum V1 pool: the     *)
(* session (main/tasks/stratum_v1_client.c) parses jobs into two slots and *)
(* notifies create_jobs_task, which builds ASIC jobs into a ring of stored *)
(* jobs (components/asic/asic_job_slot.c); ASIC_result_task looks a found  *)
(* nonce's job up there and submits the share over the session's           *)
(* transport, which other tasks may shut down meanwhile.                   *)
(*                                                                         *)
(* The slots, has_work, active_job_slot_idx and the list of active job ids *)
(* are shared without a lock; transport_mutex protects the transport.      *)
(*                                                                         *)
(* A job is the number of the notify line that brought it; its id is what  *)
(* the pool chose, which may be an id it used before, in this session or   *)
(* in another. A stored job has its id with the job that id was read from, *)
(* and its body (the data taken from the session: target, extranonce,      *)
(* pool), 0 while they are not there: job # body is a torn job.            *)
(***************************************************************************)
EXTENDS Naturals, Sequences, FiniteSets

CONSTANTS
    Capacity,     \* entries of the ring of stored jobs
    MaxActive,    \* SV1_MAX_ACTIVE_JOB_IDS
    JobIds,       \* the ids pools choose from
    NoId,         \* the empty job id
    MaxSessions,  \* bound: sessions of a behaviour
    MaxLines      \* bound: notify lines of a behaviour

ASSUME PipelineAssumption ==
    /\ Capacity \in Nat \ {0} /\ MaxActive \in Nat \ {0} /\ NoId \notin JobIds
    /\ MaxSessions \in Nat /\ MaxLines \in Nat

VARIABLES
    \* transport_mutex (its holder), GLOBAL_STATE->transport (a session, 0 is
    \* NULL), and (history) the sessions whose transport was destroyed
    mutex, transport, freed,
    \* the stratum task: program counter, session, target_slot, active job ids
    spc, session, target, activeIds,
    \* the two slots of the job pool a V1 session uses, the pending task
    \* notification, has_work and active_job_slot_idx
    slots, notification, hasWork, activeSlot,
    \* create_jobs_task: program counter, current_work (a slot),
    \* current_work_sent, the job under construction
    cpc, currentWork, workSent, building,
    \* the ring of stored jobs and its current_slot
    store, currentSlot,
    \* ASIC_result_task: program counter, its job snapshot, its transport handle
    rpc, result, handle,
    \* a task in stratum_request_reconnect(): the handle it shuts down
    other,
    \* (history) notify lines so far, the last accepted one, the job each id
    \* stands for in this session, the jobs the pool still takes shares for,
    \* and what may get a share for another job past the check
    lines, newest, given, valid, gaps

conn    == <<mutex, transport, freed>>
stratum == <<spc, session, target, activeIds>>
shared  == <<slots, notification, hasWork, activeSlot>>
creator == <<cpc, currentWork, workSent, building>>
ring    == <<store, currentSlot>>
submit  == <<rpc, result, handle>>
history == <<lines, newest, given, valid, gaps>>
vars == <<conn, stratum, shared, creator, ring, submit, other, history>>

Lines == 0..MaxLines
Slots == {0, 1}
None  == 2              \* neither of the slots
Jobs  == [id: JobIds \cup {NoId}, job: Lines, body: Lines]
NoJob == [id |-> NoId, job |-> 0, body |-> 0]
Blank == [id |-> NoId, job |-> 0, body |-> 0, clean |-> FALSE]
NoJobs == [i \in 1..Capacity |-> NoJob]
InSession == {"loop", "parse", "accept", "fill", "notify"}

Contents == [id: JobIds \cup {NoId}, job: Lines, body: Lines, clean: BOOLEAN]
Gaps == {"reused", "leftover", "late"}

FlagsOK == hasWork \in BOOLEAN /\ workSent \in BOOLEAN

DataOK ==
    /\ mutex \in {"free", "stratum", "result", "other"}
    /\ transport \in 0..MaxSessions /\ freed \subseteq 0..MaxSessions
    /\ spc \in InSession \cup {"closed", "again", "clear", "reset", "destroy"}
    /\ session \in 0..MaxSessions /\ target \in Slots
    /\ activeIds \in Seq(JobIds) /\ Len(activeIds) <= MaxActive
    /\ slots \in [Slots -> Contents]
    /\ notification \in Slots \cup {None} /\ activeSlot \in Slots
    /\ cpc \in {"wait", "adopt", "activate", "build", "hash", "send"}
    /\ currentWork \in Slots \cup {None} /\ building \in Jobs
    /\ store \in [1..Capacity -> Jobs] /\ currentSlot \in 1..Capacity
    /\ rpc \in {"idle", "submit", "write"} /\ result \in Jobs
    /\ handle \in 0..MaxSessions /\ other \in 0..MaxSessions
    /\ lines \in 0..MaxLines /\ newest \in [line: Lines, job: Lines]
    /\ given \in [JobIds -> Lines] /\ valid \subseteq Lines /\ gaps \subseteq Gaps

TypeOK == FlagsOK /\ DataOK

Init ==
    /\ mutex = "free" /\ transport = 0 /\ freed = {}
    /\ spc = "closed" /\ session = 0 /\ target = 0 /\ activeIds = <<>>
    /\ slots = [s \in Slots |-> Blank] /\ notification = None
    /\ hasWork = FALSE /\ activeSlot = 0
    /\ cpc = "wait" /\ currentWork = None /\ workSent = FALSE
    /\ building = NoJob
    /\ store = NoJobs /\ currentSlot = Capacity
    /\ rpc = "idle" /\ result = NoJob /\ handle = 0 /\ other = 0
    /\ lines = 0 /\ newest = [line |-> 0, job |-> 0]
    /\ given = [id \in JobIds |-> 0] /\ valid = {} /\ gaps = {}

---------------------------------------------------------------------------
(* stratum_v1_run(): one session after the other.                           *)

(* A connected transport is published together with a new, empty sv1_conn.  *)
Connect ==
    /\ spc = "closed" /\ spc' = "loop" /\ mutex = "free"
    /\ session < MaxSessions /\ session' = session + 1
    /\ transport' = session' /\ activeIds' = <<>>
    /\ given' = [id \in JobIds |-> 0] /\ valid' = {} /\ gaps' = gaps \ {"reused"}
    /\ UNCHANGED <<mutex, freed, target, shared, creator, ring, submit, other,
                   lines, newest>>

(* A notify line arrives. The slot create_jobs_task is not known to work    *)
(* from is chosen, and wiped before it is filled in place.                  *)
ReceiveNotify ==
    /\ spc = "loop" /\ spc' = "parse"
    /\ lines < MaxLines /\ lines' = lines + 1
    /\ target' = (activeSlot + 1) % 2
    /\ slots' = [slots EXCEPT ![target'] = Blank]
    /\ UNCHANGED <<conn, session, activeIds, notification, hasWork, activeSlot,
                   creator, ring, submit, other, newest, given, valid, gaps>>

(* The line is a new job, under any id, or one the pool sent before, or it  *)
(* is rejected after the slot was wiped (before that nothing is changed).   *)
ParseNotify(id, clean) ==
    /\ spc = "parse" /\ spc' = "accept"
    /\ \/ /\ given' = [given EXCEPT ![id] = lines]
          /\ gaps' = gaps \cup IF given[id] = 0 THEN {} ELSE {"reused"}
       \/ given[id] # 0 /\ UNCHANGED <<given, gaps>>
    /\ slots' = [slots EXCEPT ![target] =
                   [id |-> id, job |-> given'[id], body |-> 0, clean |-> clean]]
    /\ UNCHANGED <<conn, session, target, activeIds, notification, hasWork,
                   activeSlot, creator, ring, submit, other, lines, newest, valid>>

ParseFails ==
    /\ spc = "parse" /\ spc' = "loop"
    /\ UNCHANGED <<conn, session, target, activeIds, shared, creator, ring,
                   submit, other, history>>

Elements(s) == {s[i] : i \in 1..Len(s)}

(* add_active_job_id(): the oldest id makes room for the new one.           *)
AddActive(ids, id) ==
    IF Len(ids) < MaxActive THEN Append(ids, id) ELSE Append(Tail(ids), id)

(* clean_jobs withdraws all earlier jobs; an id still active is a duplicate *)
(* and is not announced. The list is changed without the mutex, so also     *)
(* between a submitter's look at it and its write.                          *)
ClearedIds_Kept(clean) == activeIds
ClearedIds(clean) == IF clean THEN <<>> ELSE activeIds

AcceptNotify ==
    /\ spc = "accept"
    /\ LET id   == slots[target].id
           kept == ClearedIds(slots[target].clean)
       IN  /\ \/ id \in Elements(kept) /\ spc' = "loop" /\ activeIds' = kept
              \/ /\ id \notin Elements(kept) /\ spc' = "fill"
                 /\ activeIds' = AddActive(kept, id)
    /\ valid' = {slots[target].job} \cup IF slots[target].clean THEN {} ELSE valid
    /\ gaps' = gaps \cup IF slots[target].clean /\ rpc = "write" THEN {"late"} ELSE {}
    /\ UNCHANGED <<conn, session, target, shared, creator, ring, submit, other,
                   lines, newest, given>>

(* The job gets the session's pool, target, version mask and extranonce ... *)
FillJob ==
    /\ spc = "fill" /\ spc' = "notify"
    /\ slots' = [slots EXCEPT ![target].body = slots[target].job]
    /\ newest' = [line |-> lines, job |-> slots[target].job]
    /\ UNCHANGED <<conn, session, target, activeIds, notification, hasWork,
                   activeSlot, creator, ring, submit, other, lines, given, valid,
                   gaps>>

(* ... and create_jobs_task is notified, with overwrite.                    *)
Notify_NoOverwrite ==
    /\ spc = "notify" /\ spc' = "loop"
    /\ notification' = IF notification = None THEN target ELSE notification
    /\ UNCHANGED <<conn, session, target, activeIds, slots, hasWork,
                   activeSlot, creator, ring, submit, other, history>>
Notify ==
    /\ spc = "notify" /\ spc' = "loop"
    /\ notification' = target
    /\ UNCHANGED <<conn, session, target, activeIds, slots, hasWork,
                   activeSlot, creator, ring, submit, other, history>>

(* The session ends, for whatever reason. stratum_v1_close_connection():    *)
(* under the mutex the transport is taken away and the pool session reset,  *)
(* then the transport is destroyed.                                         *)
Close_Unlocked ==
    /\ spc = "loop" /\ spc' = "clear" /\ transport' = 0
    /\ newest' = [line |-> 0, job |-> 0]
    /\ UNCHANGED <<mutex, freed, session, target, activeIds, shared, creator,
                   ring, submit, other, lines, given, valid, gaps>>
Close ==
    /\ spc = "loop" /\ spc' = "clear"
    /\ mutex = "free" /\ mutex' = "stratum" /\ transport' = 0
    /\ newest' = [line |-> 0, job |-> 0]
    /\ UNCHANGED <<freed, session, target, activeIds, shared, creator, ring,
                   submit, other, lines, given, valid, gaps>>

ClearWork ==
    /\ spc = "clear" /\ spc' = "reset"
    /\ store' = NoJobs
    /\ UNCHANGED <<conn, session, target, activeIds, shared, creator,
                   currentSlot, submit, other, history>>

(* What is on its way between the tasks outlives the reset: an announced    *)
(* job, one being built, stored since or submitted.                         *)
InFlight == notification # None \/ cpc # "wait" \/ rpc # "idle" \/ store # NoJobs
NoteLeftover == gaps' = (gaps \ {"leftover"}) \cup IF InFlight THEN {"leftover"} ELSE {}

ResetWork ==
    /\ spc = "reset" /\ spc' = "destroy"
    /\ hasWork' = FALSE /\ mutex' = "free"
    /\ NoteLeftover
    /\ UNCHANGED <<transport, freed, session, target, activeIds, slots,
                   notification, activeSlot, creator, ring, submit, other,
                   lines, newest, given, valid>>

Destroy ==
    /\ spc = "destroy" /\ spc' = "closed"
    /\ freed' = freed \cup {session}
    /\ UNCHANGED <<mutex, transport, session, target, activeIds, shared,
                   creator, ring, submit, other, history>>

(* Between sessions stratum_task() may reset the pool session again, after  *)
(* a clean end or before it changes pools.                                  *)
ClearAgain ==
    /\ spc = "closed" /\ spc' = "again" /\ session # 0
    /\ store' = NoJobs
    /\ UNCHANGED <<conn, session, target, activeIds, shared, creator,
                   currentSlot, submit, other, history>>

ResetAgain ==
    /\ spc = "again" /\ spc' = "closed"
    /\ hasWork' = FALSE
    /\ NoteLeftover
    /\ UNCHANGED <<conn, session, target, activeIds, slots, notification,
                   activeSlot, creator, ring, submit, other, lines, newest, given,
                   valid>>

---------------------------------------------------------------------------
(* create_jobs_task()                                                       *)

(* A notification is taken; work and slot are published one after the other.*)
TakeNotification ==
    /\ cpc = "wait" /\ cpc' = "adopt"
    /\ notification # None /\ notification' = None
    /\ currentWork' = notification
    /\ UNCHANGED <<conn, stratum, slots, hasWork, activeSlot, workSent,
                   building, ring, submit, other, history>>

AdoptWork_NotFlagged ==
    /\ cpc = "adopt" /\ cpc' = "activate"
    /\ UNCHANGED <<conn, stratum, shared, currentWork, workSent, building,
                   ring, submit, other, history>>
AdoptWork ==
    /\ cpc = "adopt" /\ cpc' = "activate"
    /\ hasWork' = TRUE
    /\ UNCHANGED <<conn, stratum, slots, notification, activeSlot, currentWork,
                   workSent, building, ring, submit, other, history>>

(* Clean work is built at once, other work waits for the next cycle.        *)
ActivateWork ==
    /\ cpc = "activate"
    /\ activeSlot' = currentWork /\ workSent' = FALSE
    /\ cpc' = IF slots[currentWork].clean THEN "build" ELSE "wait"
    /\ UNCHANGED <<conn, stratum, slots, notification, hasWork, currentWork,
                   building, ring, submit, other, history>>

(* The ASIC's cycle is over: without work there is nothing to do; a job     *)
(* that cannot be rolled is not sent twice.                                 *)
Rollable == slots[currentWork].body # 0

Timeout ==
    /\ cpc = "wait" /\ notification = None
    /\ \/ /\ currentWork = None \/ ~hasWork
          /\ currentWork' = None /\ workSent' = FALSE /\ UNCHANGED cpc
       \/ /\ currentWork # None /\ hasWork
          /\ Rollable \/ ~workSent
          /\ cpc' = "build" /\ UNCHANGED <<currentWork, workSent>>
    /\ UNCHANGED <<conn, stratum, shared, building, ring, submit, other,
                   history>>

(* The job is built from the slot in place: first its id, then the body.    *)
BuildJob ==
    /\ cpc = "build" /\ cpc' = "hash"
    /\ building' = [id |-> slots[currentWork].id, job |-> slots[currentWork].job,
                    body |-> 0]
    /\ UNCHANGED <<conn, stratum, shared, currentWork, workSent, ring, submit,
                   other, history>>

HashJob ==
    /\ cpc = "hash" /\ cpc' = "send"
    /\ building' = [building EXCEPT !.body = slots[currentWork].body]
    /\ UNCHANGED <<conn, stratum, shared, currentWork, workSent, ring, submit,
                   other, history>>

(* asic_job_store_claim(), and the job goes to the ASIC.                    *)
SendJob ==
    /\ cpc = "send" /\ cpc' = "wait"
    /\ currentSlot' = (currentSlot % Capacity) + 1
    /\ store' = [store EXCEPT ![currentSlot'] = building]
    /\ workSent' = TRUE
    /\ UNCHANGED <<conn, stratum, shared, currentWork, building, submit, other,
                   history>>

---------------------------------------------------------------------------
(* ASIC_result_task()                                                       *)

(* A nonce is found for a stored job; only a job with a target has shares,  *)
(* and a nonce that does not solve the stored job is discarded.             *)
FindNonce(i) ==
    /\ rpc = "idle" /\ rpc' = "submit"
    /\ store[i].body # 0 /\ result' = store[i]
    /\ UNCHANGED <<conn, stratum, shared, creator, ring, handle, other,
                   history>>

(* stratum_submit_share() drops the share of a job whose pool is not the    *)
(* selected one (the selection is StratumTask's).                           *)
DropShare ==
    /\ rpc = "submit" /\ rpc' = "idle"
    /\ UNCHANGED <<conn, stratum, shared, creator, ring, result, handle, other,
                   history>>

(* stratum_v1_submit_share(), all of it under the mutex.                    *)
MayBeSent == transport # 0 /\ result.id \in Elements(activeIds)

SubmitShare ==
    /\ rpc = "submit" /\ mutex = "free"
    /\ IF MayBeSent
       THEN rpc' = "write" /\ mutex' = "result" /\ handle' = transport
       ELSE rpc' = "idle" /\ UNCHANGED <<mutex, handle>>
    /\ gaps' = gaps \ {"late"}
    /\ UNCHANGED <<transport, freed, stratum, shared, creator, ring, result,
                   other, lines, newest, given, valid>>

WriteShare ==
    /\ rpc = "write" /\ rpc' = "idle" /\ mutex' = "free"
    /\ UNCHANGED <<transport, freed, stratum, shared, creator, ring, result,
                   handle, other, history>>

(* stratum_request_reconnect(), in the HTTP server or heartbeat task.       *)
RequestReconnect ==
    /\ other = 0 /\ mutex = "free" /\ transport # 0
    /\ mutex' = "other" /\ other' = transport
    /\ UNCHANGED <<transport, freed, stratum, shared, creator, ring, submit,
                   history>>

ShutSocket ==
    /\ other # 0 /\ other' = 0 /\ mutex' = "free"
    /\ UNCHANGED <<transport, freed, stratum, shared, creator, ring, submit,
                   history>>

---------------------------------------------------------------------------
NotifyStep ==
    \/ \E clean \in BOOLEAN, id \in JobIds : ParseNotify(id, clean)
    \/ ParseFails \/ AcceptNotify \/ FillJob \/ Notify

CloseStep == ClearWork \/ ResetWork \/ Destroy \/ ResetAgain

CreateStep ==
    \/ TakeNotification \/ AdoptWork \/ ActivateWork \/ Timeout
    \/ BuildJob \/ HashJob \/ SendJob

Next ==
    \/ Connect \/ ReceiveNotify \/ NotifyStep \/ Close \/ CloseStep \/ ClearAgain
    \/ CreateStep
    \/ \E i \in 1..Capacity : FindNonce(i)
    \/ DropShare \/ SubmitShare \/ WriteShare
    \/ RequestReconnect \/ ShutSocket

Spec == Init /\ [][Next]_vars

(* The tasks run again and again and finish what they have begun; the pool, *)
(* the ASIC and the user owe nothing.                                       *)
FairSpec == Spec /\ WF_vars(NotifyStep) /\ WF_vars(CloseStep) /\ WF_vars(CreateStep)

---------------------------------------------------------------------------
(* Nobody writes to or shuts down a transport that was destroyed, or of     *)
(* another session than the published one.                                  *)
NoUseAfterFree ==
    /\ rpc = "write" => handle \notin freed /\ handle = transport
    /\ other # 0 => other \notin freed /\ other = transport

(* When a share is written, the job it solves is one the running session's  *)
(* pool announced and has not withdrawn, whatever older jobs, also with the *)
(* same id, are stored or being worked on. Three gaps are the code's own,   *)
(* and excepted: the pool gave the id to another job in this session (the   *)
(* check at stratum_v1_client.c:93 knows jobs by id only), something of the *)
(* session before was on its way when that was reset, and a clean job       *)
(* withdrew this one between the check and the write (305).                 *)
ShareIsValid == rpc = "write" /\ gaps = {} => result.job \in valid

(* When the session waits for a line and create_jobs_task for the end of    *)
(* its cycle, the ASIC's work is the newest job, complete: a torn or an     *)
(* outdated job never stays. (Unless a line was ignored since.)             *)
Settled == spc = "loop" /\ newest.job # 0 /\ cpc = "wait" /\ notification = None
WorksOnNewest ==
    /\ currentWork # None /\ hasWork /\ activeSlot = currentWork
    /\ slots[currentWork].job = newest.job /\ slots[currentWork].body = newest.job
SettledWorkIsNewest == Settled /\ newest.line = lines => WorksOnNewest

(* A job that stays the newest is handed to the ASIC, complete.             *)
NewestIsSent ==
    \A n \in 1..MaxLines :
        newest.job = n /\ newest.line = lines
            ~> \/ newest.job # n \/ newest.line # lines
               \/ \E i \in 1..Capacity : store[i].job = n /\ store[i].body = n
=============================================================================

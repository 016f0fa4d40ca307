-------------------------- MODULE ShareAccounting ---------------------------
(***************************************************************************)
(* Share statistics of a pool session (main/system.c): ASIC_result_task    *)
(* counts what it submits, the stratum task what the pool answers, and each*)
(* recomputes shares_pending from counters the other one changes. A V1     *)
(* pool answers share by share; a V2 pool may acknowledge accepted shares  *)
(* in one batch (SubmitSharesSuccess) and sends each refusal at once.      *)
(***************************************************************************)
EXTENDS Naturals, Sequences, FiniteSets

CONSTANTS
    Reasons,       \* the messages of refused shares
    TableSize,     \* entries of rejected_reason_stats
    MaxShares, MaxSessions   \* bounds: shares of a session, sessions

VARIABLES
    \* the protocol; transport_mutex is held by ASIC_result_task; transport
    v2, locked, open,
    \* sv2_conn_t: sequence_number, resolved_shares
    seq, resolved,
    \* SystemModule: shares_submitted, _accepted, _rejected, _pending, and
    \* rejected_reason_stats in order
    submitted, accepted, rejected, shown, reasons,
    \* ASIC_result_task and the stratum task: program counter, and the pending
    \* count they have computed but not stored
    rpc, rLocal, spc, sLocal, left, reason,
    \* the pool: shares on the way and accepted but not acknowledged; its
    \* answers on the way; how many it accepted and refused, and with each reason
    arriving, batch, answers, good, bad, refused,
    \* bounds and history: sessions so far, two updates were interleaved, a
    \* refusal has overtaken the acknowledgement of an earlier share
    sessions, raced, overtaken

counters == <<submitted, accepted, rejected, shown, reasons>>
resultTask == <<rpc, rLocal>>
stratumTask == <<spc, sLocal, left, reason>>
pool == <<arriving, batch, answers, good, bad, refused>>
vars == <<v2, locked, open, seq, resolved, counters, resultTask, stratumTask, pool,
          sessions, raced, overtaken>>

None == "none"
Counts == 0..MaxShares
Entry == [message: Reasons, count: Counts]

TypeOK ==
    /\ v2 \in BOOLEAN /\ locked \in BOOLEAN /\ open \in BOOLEAN
    /\ seq \in Counts /\ resolved \in Counts
    /\ submitted \in Counts /\ accepted \in Counts /\ rejected \in Counts
    /\ shown \in Counts /\ Len(reasons) <= TableSize
    /\ \A i \in DOMAIN reasons : reasons[i] \in Entry
    /\ rpc \in {"idle", "count", "show"} /\ rLocal \in Counts
    /\ spc \in {"read", "count", "show"} /\ sLocal \in Counts /\ left \in Counts
    /\ reason \in Reasons \cup {None}

Init ==
    /\ v2 \in BOOLEAN /\ locked = FALSE /\ open = TRUE
    /\ seq = 0 /\ resolved = 0
    /\ submitted = 0 /\ accepted = 0 /\ rejected = 0 /\ shown = 0 /\ reasons = <<>>
    /\ rpc = "idle" /\ rLocal = 0
    /\ spc = "read" /\ sLocal = 0 /\ left = 0 /\ reason = None
    /\ arriving = <<>> /\ batch = {} /\ answers = <<>> /\ good = 0 /\ bad = 0
    /\ refused = [r \in Reasons |-> 0]
    /\ sessions = 1 /\ raced = FALSE /\ overtaken = FALSE

(* update_pending_shares()                                                  *)
Settled(a, r) == a + r

Outstanding(s, a, r) == IF s > Settled(a, r) THEN s - Settled(a, r) ELSE 0

---------------------------------------------------------------------------
(* ASIC_result_task: a share is numbered and sent under transport_mutex.    *)
Submit ==
    /\ rpc = "idle" /\ open /\ ~locked /\ seq < MaxShares
    /\ locked' = TRUE /\ rpc' = "count"
    /\ seq' = seq + 1 /\ arriving' = Append(arriving, seq)
    /\ UNCHANGED <<v2, open, resolved, counters, rLocal, stratumTask, batch, answers,
                   good, bad, refused, sessions, raced, overtaken>>

(* The send fails: the number is used up.                                   *)
SubmitFails ==
    /\ rpc = "idle" /\ open /\ ~locked /\ seq < MaxShares
    /\ seq' = seq + 1
    /\ UNCHANGED <<v2, locked, open, resolved, counters, resultTask, stratumTask,
                   pool, sessions, raced, overtaken>>

CountSubmitted ==
    /\ rpc = "count" /\ rpc' = "show"
    /\ submitted' = submitted + 1
    /\ rLocal' = Outstanding(submitted + 1, accepted, rejected)
    /\ raced' = (raced \/ spc = "show")
    /\ UNCHANGED <<v2, locked, open, seq, resolved, accepted, rejected, shown,
                   reasons, stratumTask, pool, sessions, overtaken>>

ShowSubmitted ==
    /\ rpc = "show" /\ rpc' = "idle" /\ locked' = FALSE
    /\ shown' = rLocal
    /\ UNCHANGED <<v2, open, seq, resolved, submitted, accepted, rejected, reasons,
                   rLocal, stratumTask, pool, sessions, raced, overtaken>>

---------------------------------------------------------------------------
(* The stratum task handles an answer. What a SubmitSharesSuccess accepts is*)
(* limited to the numbers that are not resolved.                            *)
Credited(answer) ==
    LET unresolved == IF seq > resolved THEN seq - resolved ELSE 0
    IN  IF v2 /\ answer.count > unresolved THEN unresolved ELSE answer.count

ReadAnswer ==
    /\ spc = "read" /\ open /\ answers # <<>>
    /\ LET answer == Head(answers)
       IN  /\ IF answer.reason = None
              THEN /\ left' = Credited(answer)
                   /\ spc' = IF Credited(answer) > 0 THEN "count" ELSE "read"
              ELSE left' = 1 /\ spc' = "count"
           /\ reason' = answer.reason
           /\ resolved' = IF v2 /\ answer.last + 1 > resolved THEN answer.last + 1
                          ELSE resolved
    /\ answers' = Tail(answers)
    /\ UNCHANGED <<v2, locked, open, seq, counters, resultTask, sLocal, arriving,
                   batch, good, bad, refused, sessions, raced, overtaken>>

CountAnswered ==
    /\ spc = "count" /\ spc' = "show"
    /\ accepted' = (IF reason = None THEN accepted + 1 ELSE accepted)
    /\ rejected' = (IF reason = None THEN rejected ELSE rejected + 1)
    /\ sLocal' = Outstanding(submitted, accepted', rejected')
    /\ raced' = (raced \/ rpc \in {"count", "show"})
    /\ UNCHANGED <<v2, locked, open, seq, resolved, submitted, shown, reasons,
                   resultTask, left, reason, pool, sessions, overtaken>>

(* A known reason is counted; a new one is appended if there is room, and   *)
(* only then the table is sorted.                                           *)
Descending(table) ==
    \A i, j \in DOMAIN table : i < j => table[i].count >= table[j].count

CountReason(r) ==
    IF \E i \in DOMAIN reasons : reasons[i].message = r
    THEN reasons' = [i \in DOMAIN reasons |->
             IF reasons[i].message = r
             THEN [reasons[i] EXCEPT !.count = @ + 1] ELSE reasons[i]]
    ELSE LET table == IF Len(reasons) < TableSize
                      THEN Append(reasons, [message |-> r, count |-> 1]) ELSE reasons
         IN  \E order \in [DOMAIN table -> DOMAIN table] :
               /\ \A i, j \in DOMAIN table : order[i] = order[j] => i = j
               /\ reasons' = [i \in DOMAIN table |-> table[order[i]]]
               /\ Descending(reasons')

ShowAnswered ==
    /\ spc = "show" /\ shown' = sLocal /\ left' = left - 1
    /\ spc' = IF left > 1 THEN "count" ELSE "read"
    /\ reason' = IF left > 1 THEN reason ELSE None
    /\ IF reason = None THEN UNCHANGED reasons ELSE CountReason(reason)
    /\ UNCHANGED <<v2, locked, open, seq, resolved, submitted, accepted, rejected,
                   resultTask, sLocal, pool, sessions, raced, overtaken>>

(* The session ends: SYSTEM_reset_pool_session() under transport_mutex.     *)
MayReset_Unlocked == TRUE

MayReset == ~locked

CloseSession ==
    /\ spc = "read" /\ open /\ MayReset
    /\ open' = FALSE
    /\ submitted' = 0 /\ accepted' = 0 /\ rejected' = 0 /\ shown' = 0 /\ reasons' = <<>>
    /\ arriving' = <<>> /\ batch' = {} /\ answers' = <<>> /\ good' = 0 /\ bad' = 0
    /\ refused' = [r \in Reasons |-> 0]
    /\ raced' = FALSE /\ overtaken' = FALSE
    /\ UNCHANGED <<v2, locked, seq, resolved, resultTask, stratumTask, sessions>>

OpenSession ==
    /\ ~open /\ sessions < MaxSessions
    /\ open' = TRUE /\ sessions' = sessions + 1
    /\ seq' = 0 /\ resolved' = 0
    /\ UNCHANGED <<v2, locked, counters, resultTask, stratumTask, pool, raced,
                   overtaken>>

---------------------------------------------------------------------------
(* The pool judges the shares in the order they arrive.                     *)
PoolAccepts ==
    /\ arriving # <<>> /\ arriving' = Tail(arriving) /\ good' = good + 1
    /\ IF v2 THEN batch' = batch \cup {Head(arriving)} /\ UNCHANGED answers
       ELSE /\ answers' = Append(answers, [last |-> Head(arriving), count |-> 1,
                                           reason |-> None])
            /\ UNCHANGED batch
    /\ UNCHANGED <<v2, locked, open, seq, resolved, counters, resultTask,
                   stratumTask, bad, refused, sessions, raced, overtaken>>

PoolAcknowledges ==
    /\ batch # {} /\ batch' = {}
    /\ answers' = Append(answers,
           [last |-> CHOOSE n \in batch : \A k \in batch : k <= n,
            count |-> Cardinality(batch), reason |-> None])
    /\ UNCHANGED <<v2, locked, open, seq, resolved, counters, resultTask,
                   stratumTask, arriving, good, bad, refused, sessions, raced, overtaken>>

PoolRefuses ==
    /\ arriving # <<>> /\ arriving' = Tail(arriving) /\ bad' = bad + 1
    /\ \E r \in Reasons :
         /\ answers' = Append(answers, [last |-> Head(arriving), count |-> 1, reason |-> r])
         /\ refused' = [refused EXCEPT ![r] = @ + 1]
    /\ overtaken' = (overtaken \/ batch # {})
    /\ UNCHANGED <<v2, locked, open, seq, resolved, counters, resultTask,
                   stratumTask, batch, good, sessions, raced>>

Next ==
    \/ Submit \/ SubmitFails \/ CountSubmitted \/ ShowSubmitted
    \/ ReadAnswer \/ CountAnswered \/ ShowAnswered
    \/ CloseSession \/ OpenSession
    \/ PoolAccepts \/ PoolAcknowledges \/ PoolRefuses

Spec == Init /\ [][Next]_vars

---------------------------------------------------------------------------
(* The pool has answered every share and every answer is handled.           *)
Answered ==
    arriving = <<>> /\ batch = {} /\ answers = <<>> /\ rpc = "idle" /\ spc = "read"

(* When the pool has answered every share of a session, the session's       *)
(* counters are what the pool decided, nothing is pending, and every reason *)
(* in the table has been counted as often as the pool gave it, with none    *)
(* missing unless the table is full: for a V1 pool, and for a V2 pool that  *)
(* acknowledges earlier shares before it refuses a later one.               *)
CountsSettle ==
    Answered /\ ~overtaken =>
        /\ accepted = good /\ rejected = bad /\ submitted = good + bad
        /\ ~raced => shown = 0
        /\ \A i \in DOMAIN reasons : reasons[i].count = refused[reasons[i].message]
        /\ Len(reasons) < TableSize =>
             \A r \in Reasons : refused[r] > 0 => \E i \in DOMAIN reasons : reasons[i].message = r

(* shares_pending "drops to 0 once it catches up" (main/http_server/        *)
(* openapi.yaml:593), whatever the pool's order of answers.                 *)
PendingDropsToZero == Answered /\ ~raced => shown = 0
=============================================================================

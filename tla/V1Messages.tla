----------------------------- MODULE V1Messages -----------------------------
(***************************************************************************)
(* What is said in a Stratum V1 session (stratum_api.c, stratum_timing.c,  *)
(* the loop of stratum_v1_client.c): lines that arrive in pieces, the      *)
(* set-up, what the pool tells the miner to mine with, and the answers,    *)
(* told apart by their ids alone. ASIC_result_task sends shares meanwhile. *)
(* Job ids and slots are in MiningPipeline. A line is a record cut into    *)
(* cells, the last of which is its newline.                                *)
(***************************************************************************)
EXTENDS Integers, FiniteSets, SequencesExt

CONSTANTS
    Settings,           \* of the pool: whether to "suggest" a difficulty, "subscribe" to the extranonce
    Longest,            \* STRATUM_V1_MAX_JSON_LINE_SIZE
    Piece,              \* sizeof(recv_buffer)
    Slots,              \* STRATUM_TIMING_SLOTS
    Rolling, Masks,     \* BIP320_VERSION_ROLLING_MASK; masks a pool may send
    MaxDifficulty,      \* MAX_POOL_DIFFICULTY
    None,
    Ahead, MaxLines, MaxShares, MaxSessions        \* bounds

VARIABLES
    pool,               \* its settings
    pc, uid, ids,       \* the stratum task; send_uid; the ids of the set-up
    buf,                \* json_rpc_buffer
    conn, shown,        \* sv1_conn_t; pool_difficulty
    info,               \* pool_connection_info
    work,               \* the last announcement: what it says, what the pool meant
    sender,             \* ASIC_result_task holds transport_mutex with this share sent
    timing,             \* ids whose time of submission is in s_v1_timing
    accepted, rejected,
    stream,             \* what the pool has sent
    open,               \* requests the pool has to answer
    meant,              \* pool: what it wants mined with
    timed,              \* history: an answer, and the share whose time was taken for it
    counts,             \* history: what the pool decided on shares; lines it sent and that were handled
    early,              \* history: an answer was handled before its share's time was recorded
    lines, shares, sessions

connection == <<pool, pc, uid, ids, buf, conn>>
results == <<accepted, rejected, timing, timed, early>>
peer == <<open, meant, lines>>
vars == <<connection, shown, info, work, sender, results, stream, peer, counts, shares, sessions>>

Requests == {"configure", "subscribe", "authorize", "suggest", "extranonce"}
NoIds == [r \in Requests |-> 0]
Fresh == [difficulty |-> 1, mask |-> {}, extranonce |-> None]

TypeOK ==
    /\ pool \in Settings /\ early \in BOOLEAN
    /\ pc \in {"start", "read", "suggest", "extranonce", "reconnect", "closed"}
    /\ uid \in Nat /\ ids \in [Requests -> Nat] /\ timing \in [0..(Slots - 1) -> Nat]
    /\ Len(buf) <= Longest + 1

---------------------------------------------------------------------------
(* Lines. A line that is no message or no valid one is "junk".              *)
Line(kind, value) == [session |-> sessions, no |-> counts.sent + 1, kind |-> kind, value |-> value]
Answer(request, ok, value) ==
    Line("answer", [id |-> request.id, of |-> request.kind, ok |-> ok, value |-> value])
Cells(line) ==
    [k \in 1..(IF line.kind = "long" THEN Longest + 1 ELSE 1) |-> [line |-> line, ends |-> FALSE]]
      \o <<[line |-> line, ends |-> TRUE]>>

(* parse_result: what an answer's result and error say. An error with a text*)
(* decides, then an error without a result, then the result.                *)
Errors == {"none", "array", "oddArray", "string", "object", "oddObject"}
parse_result(result, error) ==
    IF error \in {"array", "string", "object"} THEN "rejected"
    ELSE IF result \in {"absent", "null"} THEN IF error # "none" THEN "rejected" ELSE "unhandled"
    ELSE IF result = "true" THEN "accepted"
    ELSE IF result = "false" THEN "rejected"
    ELSE IF result = "array" THEN "subscribed" ELSE "configured"

(* How a pool may say it: with a result or with an error.                   *)
ResultOf == [configure |-> "object", subscribe |-> "array", authorize |-> "true",
             suggest |-> "true", extranonce |-> "true", share |-> "true"]
Wordings(answer) ==
    IF answer.ok THEN {[result |-> ResultOf[answer.of], error |-> "none"]}
    ELSE {[result |-> r, error |-> e] : r \in {"absent", "null", "false"}, e \in Errors}
            \ {[result |-> r, error |-> "none"] : r \in {"absent", "null"}}

(* parse_set_difficulty, parse_set_version_mask.                            *)
InRange(difficulty) == difficulty \in 1..MaxDifficulty
Masked(mask) == mask \intersect Rolling

---------------------------------------------------------------------------
Init ==
    /\ pool \in Settings
    /\ pc = "start" /\ uid = 1 /\ ids = NoIds /\ buf = <<>> /\ conn = Fresh /\ shown = 0
    /\ info = "" /\ work = None /\ sender = 0 /\ timing = [i \in 0..(Slots - 1) |-> 0]
    /\ accepted = 0 /\ rejected = 0 /\ stream = <<>> /\ open = {} /\ meant = Fresh
    /\ timed = None /\ counts = [accepted |-> 0, rejected |-> 0, sent |-> 0, handled |-> 0]
    /\ early = FALSE /\ lines = 0 /\ shares = 0 /\ sessions = 0

(* STRATUM_V1_transport_init: a certificate of one's own has to be there.   *)
TransportInit(tls, cert) == tls \in {"disabled", "bundle"} \/ (tls = "custom" /\ cert)

(* stratum_v1_run up to its loop: three requests with the first ids.        *)
Start(tls, cert, connects) ==
    /\ pc = "start" /\ sessions < MaxSessions /\ sessions' = sessions + 1
    /\ buf' = <<>> /\ conn' = Fresh
    /\ IF TransportInit(tls, cert) /\ connects
       THEN /\ pc' = "read" /\ uid' = 4 /\ info' = "connected"
            /\ ids' = [NoIds EXCEPT !["configure"] = 1, !["subscribe"] = 2, !["authorize"] = 3]
            /\ open' = {[id |-> 1, kind |-> "configure"], [id |-> 2, kind |-> "subscribe"],
                        [id |-> 3, kind |-> "authorize"]}
       ELSE /\ info' = (IF TransportInit(tls, cert) THEN "connectionFailed" ELSE "internalError")
            /\ UNCHANGED <<pc, uid, ids, open>>
    /\ stream' = <<>> /\ meant' = Fresh /\ counts' = [counts EXCEPT !.sent = 0, !.handled = 0]
    /\ UNCHANGED <<pool, shown, work, sender, results, lines, shares>>

(* stratum_v1_close_connection, which waits for a share that is being sent. *)
Close(why) ==
    /\ pc # "start" /\ sender = 0
    /\ pc' = "start" /\ uid' = 1 /\ ids' = NoIds /\ buf' = <<>> /\ conn' = Fresh /\ shown' = 0
    /\ info' = why /\ work' = None /\ timing' = [i \in 0..(Slots - 1) |-> 0]
    /\ accepted' = 0 /\ rejected' = 0 /\ stream' = <<>> /\ open' = {} /\ timed' = None /\ early' = FALSE
    /\ counts' = [counts EXCEPT !.accepted = 0, !.rejected = 0]
    /\ UNCHANGED <<pool, sender, meant, lines, shares, sessions>>

---------------------------------------------------------------------------
(* STRATUM_V1_receive_jsonrpc_line: a piece of what has arrived.            *)
HasLine(cells) == \E k \in DOMAIN cells : cells[k].ends
Newline(cells) == CHOOSE k \in DOMAIN cells : cells[k].ends /\ \A j \in 1..(k - 1) : ~cells[j].ends
LeftOver(cells, newline) == SubSeq(cells, newline + 1, Len(cells))

Read(n) ==
    /\ pc = "read" /\ ~HasLine(buf)
    /\ n \in 1..Len(stream) /\ n <= Piece /\ n <= Longest + 1 - Len(buf)
    /\ LET cells == buf \o SubSeq(stream, 1, n)
           bad == \/ \E k \in 1..n : stream[k].line.kind = "nul" /\ ~stream[k].ends
                  \/ ~HasLine(cells) /\ Len(cells) > Longest
       IN  IF bad THEN Close("connectionLost")
           ELSE /\ buf' = cells /\ stream' = SubSeq(stream, n + 1, Len(stream))
                /\ UNCHANGED <<pool, pc, uid, ids, conn, shown, info, work, sender, results, peer, counts,
                               shares, sessions>>

(* The line itself, if nothing of another one is in it.                     *)
Extracted ==
    LET k == Newline(buf) IN
    IF \A j \in 1..k : buf[j].line = buf[k].line THEN buf[k].line
    ELSE [buf[k].line EXCEPT !.kind = "junk"]

(* STRATUM_V1_parse: a difficulty out of range is no message, the bits of a *)
(* mask that may not be rolled are dropped.                                 *)
Message ==
    IF Extracted.kind = "difficulty" /\ ~InRange(Extracted.value) THEN [Extracted EXCEPT !.kind = "junk"]
    ELSE IF Extracted.kind = "mask" THEN [Extracted EXCEPT !.value = Masked(@)] ELSE Extracted

(* stratum_v1_run with a message of one of these kinds.                     *)
Takes(kinds) ==
    /\ pc = "read" /\ HasLine(buf) /\ Message.kind \in kinds
    /\ buf' = LeftOver(buf, Newline(buf))
    /\ counts' = [counts EXCEPT !.handled =
                      IF Message.no = @ + 1 /\ Message.session = sessions THEN @ + 1 ELSE -1]
    /\ UNCHANGED <<pool, sender, stream, peer, shares, sessions>>

Notify ==
    /\ Takes({"notify"})
    /\ work' = [given |-> conn, meant |-> Message.value]
    /\ shown' = IF shown = 0 THEN conn.difficulty ELSE shown
    /\ UNCHANGED <<pc, uid, ids, conn, info, results>>

(* Lines that change what is mined next; a ping, which is answered (like    *)
(* client.get_version); and what is only shown or not understood.           *)
Ignored == {"junk", "ping"}
Told(m) ==
    IF m.kind = "difficulty" THEN [conn EXCEPT !.difficulty = m.value]
    ELSE IF m.kind = "mask" THEN [conn EXCEPT !.mask = m.value]
    ELSE IF m.kind = "xnonce" THEN [conn EXCEPT !.extranonce = m.value] ELSE conn

SetUp ==
    /\ Takes({"difficulty", "mask", "xnonce"} \cup Ignored) /\ (Message.kind = "ping" => sender = 0)
    /\ conn' = Told(Message)
    /\ shown' = IF Message.kind = "difficulty" THEN Message.value ELSE shown
    /\ UNCHANGED <<pc, uid, ids, info, work, results>>

(* client.reconnect: a second's pause, and the session ends as a failure.   *)
Reconnect ==
    /\ Takes({"reconnect"})
    /\ pc' = "reconnect" /\ info' = "reconnectRequested"
    /\ UNCHANGED <<uid, ids, conn, shown, work, results>>

(* A mutant: the answers to the later requests are taken for shares'.       *)
IsSetup_FirstThree(id) == \E r \in {"configure", "subscribe", "authorize"} : ids[r] = id
IsSetup(id) == \E r \in Requests : ids[r] = id
Refused(id) ==
    IF id = ids["authorize"] THEN "authRejected"
    ELSE IF id = ids["subscribe"] THEN "subscribeRejected" ELSE "setupRejected"

(* stratum_timing_calculate_ms: the share whose time is taken; none before  *)
(* it is recorded.                                                          *)
SlotOf(id) == id % Slots
Timed(id) ==
    /\ timing' = [timing EXCEPT ![SlotOf(id)] = 0]
    /\ timed' = IF timing[SlotOf(id)] = 0 THEN timed ELSE [id |-> id, of |-> timing[SlotOf(id)]]

(* What the answers to mining.subscribe and mining.configure say.           *)
Agreed(outcome, value) ==
    IF outcome = "subscribed" THEN [conn EXCEPT !.extranonce = value]
    ELSE IF outcome = "configured" THEN [conn EXCEPT !.mask = Masked(value)] ELSE conn

Counted(a, outcome) == ~IsSetup(a.id) /\ outcome \in {"accepted", "rejected"}
HandleAnswer ==
    /\ Takes({"answer"})
    /\ LET a == Message.value IN
       \E outcome \in {parse_result(w.result, w.error) : w \in Wordings(a)} :
           /\ conn' = Agreed(outcome, a.value)
           /\ info' = IF IsSetup(a.id) /\ outcome = "rejected" THEN Refused(a.id) ELSE info
           /\ pc' = IF a.id = ids["authorize"] /\ outcome = "accepted" THEN "suggest" ELSE "read"
           /\ IF Counted(a, outcome) THEN Timed(a.id) /\ early' = (early \/ sender = a.id)
              ELSE UNCHANGED <<timing, timed, early>>
           /\ accepted' = accepted + (IF Counted(a, outcome) /\ outcome = "accepted" THEN 1 ELSE 0)
           /\ rejected' = rejected + (IF Counted(a, outcome) /\ outcome = "rejected" THEN 1 ELSE 0)
    /\ UNCHANGED <<uid, ids, shown, work>>

(* After the authorization, two requests more if they are configured.       *)
Request(kind, wanted, next) ==
    /\ pc = kind /\ sender = 0
    /\ IF wanted
       THEN /\ ids' = [ids EXCEPT ![kind] = uid] /\ uid' = uid + 1
            /\ open' = open \cup {[id |-> uid, kind |-> kind]}
       ELSE UNCHANGED <<ids, uid, open>>
    /\ pc' = next
    /\ UNCHANGED <<pool, buf, conn, shown, info, work, sender, results, stream, meant, lines, counts, shares,
                   sessions>>

SuggestDifficulty == Request("suggest", pool.suggest, "extranonce")
SubscribeExtranonce == Request("extranonce", pool.subscribe, "read")

---------------------------------------------------------------------------
(* stratum_v1_submit_share: sent, and then its time recorded.               *)
Submit ==
    /\ sender = 0 /\ pc # "start" /\ work # None /\ shares < MaxShares
    /\ shares' = shares + 1 /\ sender' = uid /\ uid' = uid + 1
    /\ open' = open \cup {[id |-> uid, kind |-> "share"]}
    /\ UNCHANGED <<pool, pc, ids, buf, conn, shown, info, work, results, stream, meant, lines, counts, sessions>>

(* It can't be sent; the id is used up.                                     *)
SubmitFails ==
    /\ sender = 0 /\ pc # "start" /\ work # None /\ shares < MaxShares
    /\ shares' = shares + 1 /\ uid' = uid + 1
    /\ UNCHANGED <<pool, pc, ids, buf, conn, shown, info, work, sender, results, stream, peer, counts, sessions>>

(* stratum_timing_record.                                                   *)
Record ==
    /\ sender # 0 /\ sender' = 0 /\ timing' = [timing EXCEPT ![SlotOf(sender)] = sender]
    /\ UNCHANGED <<connection, shown, info, work, accepted, rejected, timed, early, stream, peer, counts, shares,
                   sessions>>

---------------------------------------------------------------------------
(* The pool. It answers each request once, shares in any order; it has all  *)
(* the extensions.                                                          *)
Refusable == {"subscribe", "authorize", "share"}
Says(line) ==
    /\ pc # "start" /\ Len(stream) <= Ahead /\ stream' = stream \o Cells(line)
    /\ UNCHANGED <<connection, shown, info, work, sender, results, shares, sessions>>

Decided(request, ok) ==
    IF request.kind # "share" THEN [counts EXCEPT !.sent = @ + 1]
    ELSE IF ok THEN [counts EXCEPT !.sent = @ + 1, !.accepted = @ + 1]
    ELSE [counts EXCEPT !.sent = @ + 1, !.rejected = @ + 1]

PoolAnswers(request, ok) ==
    /\ request \in open /\ open' = open \ {request} /\ (ok \/ request.kind \in Refusable)
    /\ request.kind # "share" => \A r \in open : r.kind # "share" => request.id <= r.id
    /\ \E value \in IF request.kind = "configure" /\ ok THEN Masks
                   ELSE IF request.kind = "subscribe" /\ ok THEN {"a"} ELSE {None} :
           /\ Says(Answer(request, ok, value))
           /\ meant' = IF request.kind = "configure" /\ ok THEN [meant EXCEPT !.mask = value]
                      ELSE IF request.kind = "subscribe" /\ ok THEN [meant EXCEPT !.extranonce = value]
                      ELSE meant
    /\ counts' = Decided(request, ok) /\ UNCHANGED lines

(* What it says by itself, once it has answered the first three requests; a *)
(* difficulty out of range is not meant.                                    *)
PoolSays(kind, value) ==
    /\ \A r \in open : r.kind \notin {"configure", "subscribe", "authorize"}
    /\ lines < MaxLines /\ lines' = lines + 1
    /\ Says(Line(kind, IF kind = "notify" THEN meant ELSE value))
    /\ meant' = IF kind = "difficulty" /\ InRange(value) THEN [meant EXCEPT !.difficulty = value]
               ELSE IF kind = "mask" THEN [meant EXCEPT !.mask = value]
               ELSE IF kind = "xnonce" THEN [meant EXCEPT !.extranonce = value] ELSE meant
    /\ counts' = [counts EXCEPT !.sent = @ + 1] /\ UNCHANGED open

PoolCloses == pc \in {"read", "suggest", "extranonce"} /\ Close("connectionLost")
Reconnected == pc = "reconnect" /\ Close("reconnectRequested")

Next ==
    \/ \E tls \in {"disabled", "bundle", "custom"}, cert, connects \in BOOLEAN : Start(tls, cert, connects)
    \/ \E n \in 1..Piece : Read(n)
    \/ Notify \/ SetUp \/ Reconnect \/ HandleAnswer \/ SuggestDifficulty \/ SubscribeExtranonce \/ Submit \/ SubmitFails \/ Record
    \/ \E request \in open, ok \in BOOLEAN : PoolAnswers(request, ok)
    \/ \E kind \in {"notify", "ping", "junk", "long", "nul", "reconnect"} : PoolSays(kind, None)
    \/ \E d \in {0, MaxDifficulty} : PoolSays("difficulty", d)
    \/ \E m \in Masks : PoolSays("mask", m)
    \/ PoolSays("xnonce", "b")
    \/ PoolCloses \/ Reconnected

Spec == Init /\ [][Next]_vars

---------------------------------------------------------------------------
(* Shares the pool has answered: what is on its way, or was counted.        *)
Coming(ok) ==
    LET cells == buf \o stream IN
    Cardinality({k \in DOMAIN cells :
        cells[k].ends /\ cells[k].line.kind = "answer"
        /\ cells[k].line.value.of = "share" /\ cells[k].line.value.ok = ok})

(* The lines are handled one after the other as they were sent, however     *)
(* they arrive; a job is mined with what the pool wanted when it announced  *)
(* it; its decisions on shares are counted, and nothing else; and the time  *)
(* of an answer is that of its share, unless more are under way than there  *)
(* are slots, or one came before the sender had noted the time of its share *)
(* (early): then it is that of the share that had the slot before.          *)
PoolIsUnderstood ==
    /\ counts.handled >= 0
    /\ work # None => work.given = [work.meant EXCEPT !.mask = Masked(@)]
    /\ accepted + Coming(TRUE) = counts.accepted /\ rejected + Coming(FALSE) = counts.rejected
    /\ timed # None /\ ~early => timed.of = timed.id \/ timed.of >= timed.id + Slots
    /\ info = "authRejected" => ids["authorize"] # 0
=============================================================================

-------------------------- MODULE StatisticsHistory ---------------------------
(***************************************************************************)
(* The history of measurements for the web interface                       *)
(* (main/tasks/statistics_task.c): one row a second, at most Size rows,    *)
(* thinned out where they are densest. Of a row the model keeps its time   *)
(* and the fastest and slowest response of the pool, 0 for none, which the *)
(* stratum task records (main/system.c) while statistics_task collects.    *)
(***************************************************************************)
EXTENDS Naturals, Sequences

CONSTANTS
    Size,               \* MAX_STATISTICS_COUNT
    Frequencies,        \* the setting: seconds between the rows, 0 for no history
    MaxResponse, MaxTime, MaxResponses, MaxEdits    \* bounds, MaxEdits of edits
                                                    \* and resets

VARIABLES
    now,
    frequency,
    buffer,             \* the rows, <<>> also when there is no buffer
    last,               \* time of the last row (statsData.timestamp)
    response, fastest, slowest,     \* response_time, response_time_min and _max
    shares, lastShares, \* accepted and rejected ones; last_shares_count
    counting,           \* a response is recorded and not yet counted
    row,                \* what statistics_task has collected, or NoRow
    heard,              \* history: responses since the last row
    raced,              \* history: the next row was collected while a response was
                        \* recorded, or counters were reset since the last one
    rows,               \* history: every row since the buffer was created
    edits

history == <<heard, raced, rows>>
measured == <<response, fastest, slowest, shares, counting>>
vars == <<now, frequency, buffer, last, measured, lastShares, row, history, edits>>

NoRow == [at |-> 0, fastest |-> 0, slowest |-> 0]
Rows == [at: 1..MaxTime, fastest: 0..MaxResponse, slowest: 0..MaxResponse]

TypeOK ==
    /\ now \in 0..MaxTime /\ frequency \in Frequencies
    /\ buffer \in Seq(Rows) /\ Len(buffer) <= Size
    /\ {response, fastest, slowest} \subseteq 0..MaxResponse
    /\ shares \in 0..MaxResponses /\ lastShares \in 0..MaxResponses
    /\ counting \in BOOLEAN /\ row \in Rows \union {NoRow}

Init ==
    /\ now = 1 /\ frequency \in Frequencies \ {0} /\ buffer = <<>> /\ last = 0
    /\ response = 0 /\ fastest = 0 /\ slowest = 0
    /\ shares = 0 /\ lastShares = 0 /\ counting = FALSE /\ row = NoRow
    /\ heard = {} /\ raced = FALSE /\ rows = {} /\ edits = 0

---------------------------------------------------------------------------
(* merge_min_positive() and merge_max_positive()                            *)
Faster(a, b) == IF b > 0 /\ (a = 0 \/ b < a) THEN b ELSE a
Slower(a, b) == IF b > 0 /\ (a = 0 \/ b > a) THEN b ELSE a

Merged(to, from) ==
    [to EXCEPT !.fastest = Faster(@, from.fastest), !.slowest = Slower(@, from.slowest)]

At(i) == buffer[i + 1].at       \* indices are those of the array, from 0

(* The first row of the later half of low..high, by time; it is not low.    *)
Split(low, high) ==
    LET late == {i \in low..high : At(i) >= (At(low) + At(high)) \div 2}
        split == CHOOSE i \in late : \A j \in late : i <= j
    IN  IF split = low THEN low + 1 ELSE split

(* Halving the rows by their time, to the half with more of them: the pair  *)
(* is the rest, from low to high.                                           *)
Denser ==
    LET narrow[rest \in (0..(Size - 1)) \X (0..(Size - 1))] ==
            LET low == rest[1]
                high == rest[2]
                split == Split(low, high)
            IN  IF high - low <= 1 THEN low
                ELSE IF split - low > high - split + 1 THEN narrow[<<low, split - 1>>]
                ELSE narrow[<<split, high>>]
    IN  narrow[<<1, Size - 1>>]

(* The oldest row goes when the rows cover the wanted time.                 *)
Dropped(new) ==
    IF new.at - At(0) >= Size * frequency THEN 0 ELSE Denser

(* The row after a dropped one takes over its responses.                    *)
Inherited_Not(i) == buffer[i + 2]
Inherited(i) ==
    IF i > 0 THEN Merged(buffer[i + 2], buffer[i + 1]) ELSE buffer[i + 2]

Thinned(i) ==
    [k \in 1..(Size - 1) |->
        IF k <= i THEN buffer[k] ELSE IF k = i + 1 THEN Inherited(i) ELSE buffer[k + 1]]

(* addStatisticData()                                                       *)
Added(new) ==
    IF Len(buffer) < Size THEN Append(buffer, new)
    ELSE Append(Thinned(Dropped(new)), new)

---------------------------------------------------------------------------
(* The stratum task: SYSTEM_record_response_time(), then the share counts.  *)
Respond(r) ==
    /\ ~counting /\ shares < MaxResponses /\ counting' = TRUE
    /\ response' = r /\ fastest' = Faster(fastest, r) /\ slowest' = Slower(slowest, r)
    /\ heard' = heard \union {r} /\ raced' = (raced \/ row # NoRow)
    /\ UNCHANGED <<now, frequency, buffer, last, shares, lastShares, row, rows, edits>>

Count ==
    /\ counting /\ counting' = FALSE /\ shares' = shares + 1
    /\ raced' = (raced \/ row # NoRow)
    /\ UNCHANGED <<now, frequency, buffer, last, response, fastest, slowest, lastShares, row,
                   heard, rows, edits>>

(* SYSTEM_reset_pool_session()                                              *)
Reset ==
    /\ ~counting /\ edits < MaxEdits /\ edits' = edits + 1
    /\ response' = 0 /\ fastest' = 0 /\ slowest' = 0 /\ shares' = 0
    /\ heard' = {} /\ raced' = TRUE
    /\ UNCHANGED <<now, frequency, buffer, last, lastShares, counting, row, rows>>

(* statistics_task collects a row ...                                       *)
Collect ==
    /\ row = NoRow /\ frequency # 0 /\ now >= last + 1
    /\ LET answered == shares # lastShares /\ response > 0
       IN  row' = [at |-> now,
                   fastest |-> IF ~answered THEN 0 ELSE IF fastest > 0 THEN fastest ELSE response,
                   slowest |-> IF ~answered THEN 0 ELSE IF slowest > 0 THEN slowest ELSE response]
    /\ last' = now /\ lastShares' = shares
    /\ raced' = (raced \/ counting)
    /\ UNCHANGED <<now, frequency, buffer, measured, heard, rows, edits>>

(* ... begins a new period, and adds the row.                               *)
Store ==
    /\ row # NoRow /\ row' = NoRow
    /\ fastest' = 0 /\ slowest' = 0
    /\ buffer' = Added(row)
    /\ rows' = rows \union
           {IF raced \/ heard = {} THEN row
            ELSE [at |-> row.at, fastest |-> CHOOSE r \in heard : \A s \in heard : r <= s,
                  slowest |-> CHOOSE r \in heard : \A s \in heard : r >= s]}
    /\ heard' = {} /\ raced' = (counting \/ shares < lastShares)
    /\ UNCHANGED <<now, frequency, last, response, shares, counting, lastShares, edits>>

(* removeStatisticsBuffer()                                                 *)
Remove ==
    /\ row = NoRow /\ frequency = 0 /\ buffer # <<>>
    /\ buffer' = <<>> /\ rows' = {}
    /\ UNCHANGED <<now, frequency, last, measured, lastShares, row, heard, raced, edits>>

(* The user edits the setting; seconds pass before the task runs again.     *)
EditFrequency ==
    /\ edits < MaxEdits /\ edits' = edits + 1
    /\ frequency' \in Frequencies \ {frequency}
    /\ UNCHANGED <<now, buffer, last, measured, lastShares, row, history>>

Tick ==
    /\ row = NoRow /\ now < MaxTime /\ now' = now + 1
    /\ UNCHANGED <<frequency, buffer, last, measured, lastShares, row, history, edits>>

Next ==
    \/ \E r \in 1..MaxResponse : Respond(r)
    \/ Count \/ Reset \/ Collect \/ Store \/ Remove \/ EditFrequency \/ Tick

Spec == Init /\ [][Next]_vars

---------------------------------------------------------------------------
(* The history stays in the order of time and ends with the newest row; and *)
(* the fastest and slowest response of every row since the oldest that is   *)
(* left can be seen at that row or a later one, however often the history   *)
(* was thinned out, unless a row was collected while a response was recorded*)
(* and counted, or the session ended within its second.                     *)
HistoryIsKept ==
    /\ \A i, j \in 1..Len(buffer) : i < j => buffer[i].at < buffer[j].at
    /\ row = NoRow /\ buffer # <<>> => buffer[Len(buffer)].at = last
    /\ \A old \in rows :
         buffer # <<>> /\ old.at >= buffer[1].at /\ old.slowest > 0 =>
           \E i \in 1..Len(buffer) :
             /\ buffer[i].at >= old.at /\ buffer[i].slowest >= old.slowest
             /\ buffer[i].fastest \in 1..old.fastest
=============================================================================

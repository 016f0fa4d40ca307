------------------------------ MODULE LogBuffer -------------------------------
(***************************************************************************)
(* The log (main/log_buffer.c): a ring in RAM that keeps its contents over *)
(* a restart, written by every task under one mutex and read by            *)
(* stdout_flush_task and, while someone watches, by websocket_log_task.    *)
(* A byte is its absolute position, and whether it is a newline.           *)
(***************************************************************************)
EXTENDS Integers, FiniteSets

CONSTANTS
    Size,               \* LOG_BUFFER_SIZE
    Chunk, StdoutChunk, \* WS_LOG_CHUNK_SIZE, sizeof(flush_buf)
    Scan,               \* how far a reader looks for the next line (4096)
    RestartLine,        \* length of "--- SYSTEM RESTART ---"
    MaxLine, MaxWritten, MaxRestarts    \* bounds

Lost == -1              \* a byte that belongs to no position

Byte == [at: {Lost} \union Nat, newline: BOOLEAN]
Blank == [at |-> Lost, newline |-> FALSE]

VARIABLES
    ring,               \* s_buffer
    total,              \* s_header.total_written
    stdoutPos,          \* s_stdout_pos
    dropped,            \* s_stdout_dropped_bytes
    printed, start,     \* history: bytes on stdout, and s_stdout_pos at the boot
    clients,            \* there is a websocket client for the log
    viewerPos,          \* last_read_abs
    shown,              \* history: the positions of the bytes last sent
    torn,               \* history: a restart has cut a write short
    restarts

vars == <<ring, total, stdoutPos, dropped, printed, start, clients, viewerPos, shown,
          torn, restarts>>
readers == <<stdoutPos, dropped, printed, start, clients, viewerPos, shown>>

TypeOK ==
    /\ ring \in [0..(Size - 1) -> Byte]
    /\ {total, stdoutPos, dropped, printed, start, viewerPos} \subseteq Nat
    /\ shown \subseteq {Lost} \union Nat /\ {torn, clients} \subseteq BOOLEAN

Init ==
    /\ ring = [i \in 0..(Size - 1) |-> Blank] /\ total = 0
    /\ stdoutPos = 0 /\ dropped = 0 /\ printed = 0 /\ start = 0
    /\ clients = FALSE /\ viewerPos = 0 /\ shown = {} /\ torn = FALSE /\ restarts = 0

(* ring_write(): the line ends the text written, other newlines are in it.  *)
WithLine(length, newlines, unread) ==
    [i \in 0..(Size - 1) |->
        LET written == {p \in total..(total + length - 1) : p % Size = i}
        IN  IF written = {} THEN ring[i]
            ELSE LET p == CHOOSE q \in written : \A r \in written : r <= q
                 IN  [at |-> IF unread THEN Lost ELSE p, newline |-> p \in newlines]]

(* log_buffer_vprintf()                                                     *)
Write(length, newlines) ==
    /\ total + length <= MaxWritten
    /\ ring' = WithLine(length, newlines, FALSE) /\ total' = total + length
    /\ UNCHANGED <<readers, torn, restarts>>

(* A reader that has been overtaken goes on with the oldest byte ...        *)
Oldest_OffByOne == IF total >= Size THEN total - Size - 1 ELSE 0

Oldest == IF total >= Size THEN total - Size ELSE 0

Smaller(a, b) == IF a < b THEN a ELSE b
Larger(a, b) == IF a > b THEN a ELSE b
Newlines(from, to) == {p \in from..(to - 1) : ring[p % Size].newline}
FirstOf(positions) == CHOOSE p \in positions : \A q \in positions : p <= q
Bytes(from, to) == {ring[p % Size].at : p \in from..(to - 1)}

(* ... and log_buffer_read_absolute() with the line after it; it returns at *)
(* most one line.                                                           *)
ReadFrom(pos) ==
    LET lines == Newlines(Oldest, Smaller(total, Oldest + Scan))
    IN  IF pos > total THEN total
        ELSE IF pos >= Oldest THEN pos
        ELSE IF lines = {} THEN Oldest ELSE FirstOf(lines) + 1

ReadTo(from) ==
    LET to == Smaller(total, from + Chunk)
        lines == Newlines(from, to)
    IN  IF lines = {} THEN to ELSE FirstOf(lines) + 1

(* websocket_log_task                                                       *)
Follow ==
    /\ IF clients
       THEN LET from == ReadFrom(viewerPos) IN
            viewerPos' = ReadTo(from) /\ shown' = Bytes(from, ReadTo(from))
       ELSE viewerPos' = total /\ shown' = {}
    /\ UNCHANGED <<ring, total, stdoutPos, dropped, printed, start, clients, torn, restarts>>

(* websocket_add_client() and websocket_remove_client()                     *)
ClientComesOrGoes ==
    /\ clients' = ~clients
    /\ UNCHANGED <<ring, total, stdoutPos, dropped, printed, start, viewerPos, shown, torn,
                   restarts>>

(* stdout_flush_task                                                        *)
FlushStdout ==
    LET from == Larger(Smaller(stdoutPos, total), Oldest)
        to == Smaller(total, from + StdoutChunk)
    IN  /\ stdoutPos' = to /\ printed' = printed + Cardinality(Bytes(from, to))
        /\ dropped' = dropped + from - Smaller(stdoutPos, total)
        /\ UNCHANGED <<ring, total, start, clients, viewerPos, shown, torn, restarts>>

(* log_buffer_init(): the ring is kept when the checksum of the header fits;*)
(* a restart within ring_write() leaves a part of the line in the ring and  *)
(* the header as it was, or a header that does not fit.                     *)
Restart(cut, valid) ==
    LET kept == WithLine(cut, {}, TRUE)
        line == [i \in 0..(Size - 1) |->
                    LET p == CHOOSE q \in total..(total + Size - 1) : q % Size = i
                    IN  IF p < total + RestartLine THEN [at |-> p, newline |-> TRUE]
                        ELSE kept[i]]
    IN  /\ restarts < MaxRestarts /\ restarts' = restarts + 1
        /\ IF valid
           THEN /\ ring' = line /\ total' = total + RestartLine
                /\ stdoutPos' = total + RestartLine /\ torn' = (torn \/ cut > RestartLine)
           ELSE /\ ring' = [i \in 0..(Size - 1) |-> Blank] /\ total' = 0 /\ stdoutPos' = 0
                /\ torn' = FALSE
        /\ dropped' = 0 /\ printed' = 0 /\ start' = stdoutPos'
        /\ clients' = FALSE /\ viewerPos' = total' /\ shown' = {}

Next ==
    \/ \E length \in 1..MaxLine :
         \E newlines \in SUBSET (total..(total + length - 1)) : Write(length, newlines)
    \/ Follow \/ ClientComesOrGoes \/ FlushStdout
    \/ \E cut \in 0..MaxLine, valid \in BOOLEAN : Restart(cut, valid)

Spec == Init /\ [][Next]_vars

---------------------------------------------------------------------------
(* The ring holds the last Size bytes of the log, at their positions; a     *)
(* viewer is sent bytes of the log only, however far the writers are ahead  *)
(* and over restarts, unless one has cut a long write short; and every byte *)
(* since the boot was printed, is counted as dropped, or waits.             *)
ReadersSeeTheLog ==
    /\ ~torn => /\ \A p \in Oldest..(total - 1) : ring[p % Size].at = p
                /\ Lost \notin shown
                /\ \A p, q \in shown : p..q \subseteq shown
    /\ stdoutPos = start + printed + dropped
=============================================================================

----------------------------- MODULE Sv2Messages ------------------------------
(***************************************************************************)
(* The messages of Stratum V2 as bytes (components/stratum_v2/              *)
(* sv2_protocol.c): what the device builds is read by the pool as the       *)
(* protocol lays it out, what the pool sends is read by the parsers here,   *)
(* whole, cut short at any place or with more behind it.                    *)
(*                                                                         *)
(* A byte is a record: the field it belongs to, which byte of it, and the   *)
(* number it is where that is a length. Limits that are 255 bytes and more  *)
(* in the code are constants.                                               *)
(***************************************************************************)
EXTENDS Integers, SequencesExt

CONSTANTS
    MaxString,          \* 255
    PayloadSize,        \* payload[512] of the builders
    FrameSize,          \* SV2_MAX_FRAME_SIZE
    MaxMerkle, MaxPrefix, MaxSuffix,    \* MAX_MERKLE_BRANCHES, MAX_COINBASE_*_LEN
    Sizes               \* how long the variable parts of a message are

VARIABLES
    message,            \* its type
    sizes,              \* of each of its fields: the length, or whether an option is there
    frame,              \* the bytes, <<>> if the builder refused
    outcome             \* what was read
vars == <<message, sizes, frame, outcome>>

HeaderSize == 6
MaxExtranonce == 32
MinExtranonce == 2

---------------------------------------------------------------------------
(* A field: "head" bytes of length, then a part of fixed size, or of so     *)
(* many units as the length says, at most "limit".                          *)
Fixed(n) == [head |-> 0, unit |-> n, limit |-> 1]
U8 == Fixed(1)  U16 == Fixed(2)  U24 == Fixed(3)  U32 == Fixed(4)  U64 == Fixed(8)
U256 == Fixed(32)
Text == [head |-> 1, unit |-> 1, limit |-> MaxString]
Option32 == [head |-> 1, unit |-> 4, limit |-> 1]
Extranonce == [head |-> 1, unit |-> 1, limit |-> MaxExtranonce]
Hashes == [head |-> 1, unit |-> 32, limit |-> MaxMerkle]
Bytes(max) == [head |-> 2, unit |-> 1, limit |-> max]

(* What the device sends ...                                                *)
Layout(m) ==
    CASE m = "SetupConnection" -> <<U8, U16, U16, U32, Text, U16, Text, Text, Text, Text>>
      [] m = "OpenStandardMiningChannel" -> <<U32, Text, U32, U256>>
      [] m = "OpenExtendedMiningChannel" -> <<U32, Text, U32, U256, U16>>
      [] m = "SubmitSharesStandard" -> <<U32, U32, U32, U32, U32, U32>>
      [] m = "SubmitSharesExtended" -> <<U32, U32, U32, U32, U32, U32, Extranonce>>
      (* ... and what the pool does.                                        *)
      [] m = "SetupConnectionSuccess" -> <<U16, U32>>
      [] m = "OpenStandardMiningChannelSuccess" -> <<U32, U32, U256, Extranonce, U32>>
      [] m = "OpenExtendedMiningChannelSuccess" -> <<U32, U32, U256, U16, Extranonce, U32>>
      [] m = "NewMiningJob" -> <<U32, U32, Option32, U32, U256>>
      [] m = "NewExtendedMiningJob" ->
            <<U32, U32, Option32, U32, U8, Hashes, Bytes(MaxPrefix), Bytes(MaxSuffix)>>
      [] m = "SetNewPrevHash" -> <<U32, U32, U256, U32, U32>>
      [] m = "SetTarget" -> <<U32, U256>>
      [] m = "SubmitSharesSuccess" -> <<U32, U32, U32, U64>>
      [] m = "SubmitSharesError" -> <<U32, U32, Text>>

Built == {"SetupConnection", "OpenStandardMiningChannel", "OpenExtendedMiningChannel",
          "SubmitSharesStandard", "SubmitSharesExtended"}
Received == {"SetupConnectionSuccess", "OpenStandardMiningChannelSuccess",
             "OpenExtendedMiningChannelSuccess", "NewMiningJob", "NewExtendedMiningJob",
             "SetNewPrevHash", "SetTarget", "SubmitSharesSuccess", "SubmitSharesError"}

(* How long two of the variable fields are, one beyond the limit included.   *)
(* Of the numbers only one matters: the size of the extranonces, the 4th    *)
(* field of OpenExtendedMiningChannelSuccess.                               *)
SizeOf(m, i) ==
    LET f == Layout(m)[i] IN
    IF f = Option32 THEN {0, 1}
    ELSE IF f.head > 0 THEN {n \in Sizes : n <= f.limit + 1}
    ELSE IF m = "OpenExtendedMiningChannelSuccess" /\ i = 4 THEN Sizes ELSE {0}

SizesOf(m) ==
    UNION {{[k \in DOMAIN Layout(m) |-> IF k = i THEN a ELSE IF k = j THEN b ELSE 0] :
                a \in SizeOf(m, i), b \in SizeOf(m, j)} :
             i \in DOMAIN Layout(m), j \in DOMAIN Layout(m)}

---------------------------------------------------------------------------
(* Writing: little-endian numbers and lengths.                              *)
Low(n, k) == IF k = 0 THEN n % 256 ELSE IF k = 1 THEN (n \div 256) % 256 ELSE 0
Byte(field, k, n) == [field |-> field, k |-> k, n |-> n]
write_le(field, width, n) == [k \in 1..width |-> Byte(field, k - 1, Low(n, k - 1))]

Written(f, i, n) ==
    IF f.head = 0 THEN write_le(i, f.unit, n)
    ELSE write_le(i, f.head, n) \o [k \in 1..n * f.unit |-> Byte(i, f.head + k - 1, 0)]

(* write_str0255() cuts a text that is too long.                            *)
Cut(f, n) == IF f = Text /\ n > MaxString THEN MaxString ELSE n

Payload(m, s) ==
    FlattenSeq([i \in DOMAIN Layout(m) |-> Written(Layout(m)[i], i, Cut(Layout(m)[i], s[i]))])

(* sv2_encode_frame_header().                                               *)
Header(length) == write_le(0, 3, 0) \o write_le(0, 3, length)

(* sv2_build_*(): nothing if it exceeds a buffer.                           *)
RoomOf(m) == IF m \in {"SubmitSharesStandard", "SubmitSharesExtended"}
             THEN HeaderSize + 24 + 1 + MaxExtranonce ELSE FrameSize

Build(m, s) ==
    LET payload == Payload(m, s)
        fits == (m = "SetupConnection" => Len(payload) <= PayloadSize)
                   /\ HeaderSize + Len(payload) <= RoomOf(m) IN
    IF fits THEN Header(Len(payload)) \o payload ELSE <<>>

---------------------------------------------------------------------------
(* Reading. Bytes past the end are whatever the buffer holds.               *)
At(bytes, pos) == IF pos < Len(bytes) THEN bytes[pos + 1] ELSE Byte(-1, 0, 0)
read_le(bytes, pos, width) ==
    At(bytes, pos).n + IF width > 1 THEN 256 * At(bytes, pos + 1).n ELSE 0

(* The first check of each parser ...                                       *)
Least(m) ==
    CASE m = "SetupConnectionSuccess" -> 6
      [] m = "OpenStandardMiningChannelSuccess" -> 45
      [] m = "OpenExtendedMiningChannelSuccess" -> 47
      [] m = "NewMiningJob" -> 45
      [] m = "NewExtendedMiningJob" -> 19
      [] m = "SetNewPrevHash" -> 48
      [] m = "SetTarget" -> 36
      [] m = "SubmitSharesSuccess" -> 20
      [] m = "SubmitSharesError" -> 9

(* ... and those at a field: its length must be there, and "after" bytes    *)
(* behind the part it announces; of some no length is looked at.            *)
Unchecked == -1
After(m, i) ==
    CASE m = "OpenStandardMiningChannelSuccess" /\ i = 4 -> 4
      [] m = "OpenExtendedMiningChannelSuccess" /\ i = 5 -> 4
      [] m = "NewMiningJob" /\ i = 3 -> 36
      [] m = "NewExtendedMiningJob" /\ i \in {3, 6, 7, 8} -> 0
      [] m = "NewExtendedMiningJob" /\ i = 4 -> 1
      [] m = "SubmitSharesError" /\ i = 3 -> 0
      [] OTHER -> Unchecked

(* 0x01 alone announces an option.                                          *)
Count(f, n) == IF f.head = 0 THEN 1 ELSE IF f = Option32 /\ n # 1 THEN 0 ELSE n

(* One field: "read" has, for each, its number and the bytes taken for it.  *)
ParseField(m, bytes, acc, i) ==
    LET f == Layout(m)[i]
        n == read_le(bytes, acc.pos, IF f.head = 0 THEN f.unit ELSE f.head)
        end == acc.pos + f.head + Count(f, n) * f.unit
        after == After(m, i)
        (* an option that isn't there moves nothing, and nothing is checked  *)
        refused == \/ after # Unchecked /\ acc.pos + f.head > Len(bytes)
                   \/ after # Unchecked /\ Count(f, n) > 0 /\ end + after > Len(bytes)
                   \/ f.head > 0 /\ f # Text /\ Count(f, n) > f.limit IN
    IF ~acc.ok \/ refused THEN [acc EXCEPT !.ok = FALSE]
    ELSE [ok |-> TRUE, pos |-> end, over |-> acc.over \/ end > Len(bytes),
          read |-> Append(acc.read, [number |-> n, bytes |-> SubSeq(bytes, acc.pos + 1, end)])]

Fields(m, bytes) ==
    FoldLeft(LAMBDA acc, i : ParseField(m, bytes, acc, i),
             [ok |-> TRUE, pos |-> 0, over |-> FALSE, read |-> <<>>],
             [i \in DOMAIN Layout(m) |-> i])

(* The extranonces of an extended channel must fit, and nothing follow.     *)
ExtranonceFits(bytes, r) ==
    LET size == r.read[4].number  prefix == r.read[5].number IN
    size \in MinExtranonce..MaxExtranonce /\ prefix + size <= MaxExtranonce
        /\ r.pos = Len(bytes)

(* sv2_parse_*().                                                           *)
Refused == [ok |-> FALSE, pos |-> 0, over |-> FALSE, read |-> <<>>]
Parse(m, bytes) ==
    IF Len(bytes) < Least(m) THEN Refused
    ELSE LET r == Fields(m, bytes) IN
         IF m = "OpenExtendedMiningChannelSuccess" /\ r.ok /\ ~ExtranonceFits(bytes, r)
         THEN [r EXCEPT !.ok = FALSE] ELSE r

---------------------------------------------------------------------------
NotRead == Refused

Init == message = "none" /\ sizes = <<>> /\ frame = <<>> /\ outcome = NotRead

(* The device builds a message.                                             *)
BuildMessage ==
    /\ message = "none"
    /\ \E m \in Built : \E s \in SizesOf(m) :
         message' = m /\ sizes' = s /\ frame' = Build(m, s)
    /\ UNCHANGED outcome

(* The pool sends one (external), of which the device gets the beginning,   *)
(* the whole or more; sv2_noise.c has the payload without the header.       *)
ReceiveMessage ==
    /\ message = "none"
    /\ \E m \in Received : \E s \in SizesOf(m) : \E length \in 0..Len(Payload(m, s)) + 1 :
         /\ message' = m /\ sizes' = s
         /\ frame' = SubSeq(Append(Payload(m, s), Byte(-1, 0, 0)), 1, length)
    /\ UNCHANGED outcome

ParseMessage ==
    /\ message \in Received /\ outcome = NotRead
    /\ outcome' = Parse(message, frame) /\ outcome' # NotRead
    /\ UNCHANGED <<message, sizes, frame>>

Next == BuildMessage \/ ReceiveMessage \/ ParseMessage

Spec == Init /\ [][Next]_vars

---------------------------------------------------------------------------
(* What each byte of a frame's payload is meant to be.                      *)
Body == SubSeq(frame, HeaderSize + 1, Len(frame))

TypeOK == message \in Built \union Received \union {"none"} /\ outcome.ok \in BOOLEAN

(* A message built has its fields in the order of the protocol, each whole, *)
(* and a header with its length; texts that are too long are cut, and only  *)
(* what exceeds the buffers is not built.                                   *)
BuiltIsLaidOut ==
    message \in Built /\ frame # <<>> =>
        /\ Len(frame) = HeaderSize + frame[4].n + 256 * frame[5].n
        /\ \A i \in DOMAIN sizes :
             LET f == Layout(message)[i]
                 n == Cut(f, sizes[i])
                 mine == SelectSeq(Body, LAMBDA b : b.field = i) IN
             /\ Len(mine) = f.head + (IF f.head = 0 THEN f.unit ELSE n * f.unit)
             /\ \A k \in DOMAIN mine : mine[k].k = k - 1
             /\ f.head > 0 => mine[1].n = n
        /\ \A k \in 1..Len(Body) - 1 : Body[k].field <= Body[k + 1].field

(* No parser looks past the end of the message, and what one accepts is     *)
(* each field as it was sent.                                               *)
ParsedIsSent ==
    message \in Received =>
        /\ ~outcome.over
        /\ outcome.ok =>
             \A i \in DOMAIN sizes :
                LET f == Layout(message)[i]  n == Cut(f, sizes[i]) IN
                /\ outcome.read[i].number = n
                /\ outcome.read[i].bytes = Written(f, i, n)

(* A whole message within the limits is accepted.                           *)
InLimits ==
    /\ \A i \in DOMAIN sizes :
         LET f == Layout(message)[i] IN f.head > 0 => Cut(f, sizes[i]) <= f.limit
    /\ message = "OpenExtendedMiningChannelSuccess" =>
         sizes[4] \in MinExtranonce..MaxExtranonce /\ sizes[4] + sizes[5] <= MaxExtranonce

WholeIsAccepted ==
    message \in Received /\ frame = Payload(message, sizes) /\ InLimits
        => Parse(message, frame).ok

MessagesAreExact == BuiltIsLaidOut /\ ParsedIsSent /\ WholeIsAccepted
=============================================================================

---------------------------- MODULE Sv2Transport -----------------------------
(***************************************************************************)
(* The encrypted connection under a Stratum V2 session: the handshake with *)
(* the pool (sv2_noise.c), the frames in both directions, and the set-up   *)
(* of the channel (stratum_v2_client.c, sv2_protocol.c), for a session and *)
(* for the probe of a pool. Cryptography is by its terms: a ciphertext is  *)
(* opened by who has its key, nonce and associated data. The stream is of  *)
(* cells, which a ciphertext takes several of and a read or a write may    *)
(* end between.                                                            *)
(***************************************************************************)
EXTENDS Integers, Sequences, FiniteSets, SequencesExt

CONSTANTS
    MaxPayload,                 \* SV2_MAX_FRAME_SIZE, in cells
    MinExtranonce, MaxExtranonce,
    None,
    MaxTraffic                  \* bound: shares, and messages of the pool, in an open channel

(* Settings of a pool: the authority's key ("bad" isn't one), whether one is*)
(* required, the type of channel; and whether this is a probe.              *)
Settings ==
    {[key |-> k[1], require |-> k[2], channel |-> c, probe |-> FALSE] :
         k \in {<<None, FALSE>>, <<"bad", TRUE>>, <<"A", TRUE>>}, c \in {"standard", "extended"}}
      \cup {[key |-> k, require |-> FALSE, channel |-> "standard", probe |-> TRUE] : k \in {"bad", "A"}}
(* The pool: who signed which static key (it uses "s"), and whether it wants*)
(* versions that don't change.                                              *)
PoolKinds ==
    {[by |-> "A", static |-> "s", fixed |-> f] : f \in BOOLEAN}
      \cup {[by |-> "B", static |-> "s", fixed |-> TRUE], [by |-> "A", static |-> "old", fixed |-> TRUE]}

VARIABLES
    settings, kind,
    stage,              \* of stratum_v2_run or stratum_v2_probe_pool
    h, ck,              \* of the handshake
    zeroed,             \* history: what a digest that failed was for
    keys, nonces,       \* of both directions, once it is complete
    reading,            \* what is read, the cells there are and the cells it has; the header read before
    conn,               \* what the channel's opening and SetTarget said
    handled,            \* history: messages that were read
    why,                \* why the session ended
    up, down,           \* the stream in both directions
    broken,             \* the connection is closed or lost
    cut,                \* a write has failed
    sequence,           \* shares that were tried
    pool                \* the pool's side: keys, nonces, messages it got and sent, its stage

miner == <<settings, stage, h, ck, zeroed, keys, nonces, reading, conn, handled, why, cut, sequence>>
vars == <<miner, kind, up, down, broken, pool>>

NoRead == [what |-> "nothing", need |-> 0, cells |-> <<>>, header |-> None]
NoConn == [channel |-> 0, group |-> 0, size |-> 0, prefix |-> 0, target |-> 0]

TypeOK ==
    /\ settings \in Settings /\ kind \in PoolKinds
    /\ stage \in {"start", "greeted", "secure", "setup", "accepted", "opening", "open", "closed"}
    /\ broken \in BOOLEAN /\ cut \in BOOLEAN /\ zeroed \in {"nothing", "handshake", "split"}
    /\ Len(reading.cells) <= reading.need

---------------------------------------------------------------------------
(* Terms. A digest that fails leaves zeros, which nobody is told of: neither*)
(* mix_hash nor hkdf2, which makes a new chaining key and a key of three.   *)
Zero == <<>>
Dh(a, b) == <<"dh", a, b>>
mix_hash(hash, data, fails) == IF fails THEN Zero ELSE Append(hash, data)
hmac_sha256(key, data, fails) == IF fails THEN Zero ELSE <<key, data>>
hkdf2(chain, ikm, failed) ==
    LET prk == hmac_sha256(chain, ikm, "prk" \in failed)
        one == hmac_sha256(prk, <<"1">>, "one" \in failed)
    IN  [ck |-> one, key |-> hmac_sha256(prk, <<"2", one>>, "two" \in failed)]
(* The digests of the pool's answer, of which so many fail at most.         *)
Digests == ({"hash"} \X {"re", "static"}) \cup ({"first", "second", "last"} \X {"prk", "one", "two"})
MaxFailed == 2
Of(failed, step) == {d[2] : d \in {e \in failed : e[1] = step}}
Seal(key, nonce, aad, plain) == [key |-> key, nonce |-> nonce, aad |-> aad, plain |-> plain]

Cells(ciphertext, n) == [i \in 1..n |-> [of |-> ciphertext, part |-> i]]
Opens(cells, key, nonce, aad) ==
    LET c == Head(cells).of
    IN  cells = Cells(c, Len(cells)) /\ c.key = key /\ c.nonce = nonce /\ c.aad = aad
Plain(cells) == Head(cells).of.plain

(* Messages, with the size of their payload.                                *)
Message(type, size) == [type |-> type, size |-> size]
HeaderCells == 2
PayloadCells(size) == size + 1

(* A frame, from a nonce on: the header and, unless there is none, the      *)
(* payload, each with a nonce of its own.                                   *)
(* A mutant: the payload's nonce isn't counted.                             *)
NoncesOf_HeaderOnly(size) == 1
NoncesOf(size) == IF size = 0 THEN 1 ELSE 2
Frame(key, nonce, m) ==
    Cells(Seal(key, nonce, None, [type |-> m.type, size |-> m.size]), HeaderCells)
      \o (IF m.size = 0 THEN <<>> ELSE Cells(Seal(key, nonce + 1, None, m), PayloadCells(m.size)))

ReadFor(what, need, header) == [what |-> what, need |-> need, cells |-> <<>>, header |-> header]
NextMessage == ReadFor("header", HeaderCells, None)

---------------------------------------------------------------------------
Init ==
    /\ settings \in Settings /\ kind \in PoolKinds
    /\ stage = "start" /\ h = <<>> /\ ck = <<>> /\ zeroed = "nothing" /\ keys = [send |-> None, recv |-> None]
    /\ nonces = [send |-> 0, recv |-> 0] /\ reading = NoRead /\ conn = NoConn /\ handled = <<>> /\ why = None
    /\ up = <<>> /\ down = <<>> /\ broken = FALSE /\ cut = FALSE /\ sequence = 0
    /\ pool = [keys |-> [send |-> None, recv |-> None], nonces |-> [send |-> 0, recv |-> 0],
               got |-> <<>>, sent |-> <<>>, stage |-> "start", why |-> None]

(* stratum_v2_close_connection, at each failure and at the end of the run.  *)
Drop(reason) ==
    /\ stage' = "closed" /\ why' = reason /\ broken' = TRUE
    /\ keys' = [send |-> None, recv |-> None] /\ h' = <<>> /\ ck' = <<>> /\ reading' = NoRead
    /\ UNCHANGED <<settings, kind, nonces, conn, handled, up, down, cut, sequence, pool>>
Close(reason) == Drop(reason) /\ UNCHANGED zeroed

(* stratum_v2_load_authority_pubkey: a text that isn't a key is as none.    *)
HasAuth == settings.key \notin {None, "bad"}

Refuse == stage = "start" /\ settings.require /\ ~HasAuth /\ Close("no key")

(* The ephemeral key is sent, unless it can't be made or written. The       *)
(* prologue and the payload are empty; the first hash is looked at, the     *)
(* others aren't. The context of Noise is published, its keys still unset.  *)
Greeting(fails) ==
    LET h1 == mix_hash(<<"name">>, "", fails = 1)
        h2 == mix_hash(h1, "e", fails = 2)
    IN  mix_hash(h2, "", fails = 3)
SendKey(sent, fails) ==
    /\ stage = "start" /\ (settings.require => HasAuth) /\ ~broken
    /\ IF ~sent THEN Close("write")
       ELSE /\ stage' = "greeted" /\ h' = Greeting(fails) /\ ck' = <<"name">> /\ up' = Append(up, "e")
            /\ zeroed' = (IF fails = 0 THEN "nothing" ELSE "handshake")
            /\ reading' = ReadFor("response", 3, None)
            /\ UNCHANGED <<settings, kind, keys, nonces, conn, handled, why, down, broken, cut, sequence, pool>>

(* noise_recv_exact: reads go on until everything is there; the connection  *)
(* ends, or nothing comes until the time is over.                           *)
Read(n) ==
    /\ reading.what # "nothing" /\ n \in {1, Min({reading.need - Len(reading.cells), Len(down)})}
    /\ n \in 1..Len(down) /\ Len(reading.cells) < reading.need
    /\ reading' = [reading EXCEPT !.cells = @ \o SubSeq(down, 1, n)] /\ down' = SubSeq(down, n + 1, Len(down))
    /\ UNCHANGED <<settings, kind, stage, h, ck, zeroed, keys, nonces, conn, handled, why, up, broken, cut, sequence, pool>>

ReadFails ==
    /\ reading.what # "nothing" /\ Len(reading.cells) < reading.need /\ down = <<>>
    /\ Close("read")

Complete(what) == reading.what = what /\ Len(reading.cells) = reading.need

(* The pool's answer: its ephemeral key, its static key and the certificate.*)
(* A certificate is only verified when there is a key to do it with; its    *)
(* dates are logged.                                                        *)
Verified(static, cert) == cert.by = settings.key /\ cert.static = static
Handshake(failed) ==
    LET re == reading.cells[1]
        static == SubSeq(reading.cells, 2, 2)
        cert == SubSeq(reading.cells, 3, 3)
        h1 == mix_hash(h, re, "re" \in Of(failed, "hash"))
        h2 == mix_hash(h1, Head(static).of, "static" \in Of(failed, "hash"))
        k1 == hkdf2(ck, Dh("e", re), Of(failed, "first"))
        k2 == hkdf2(k1.ck, Dh("e", Plain(static)), Of(failed, "second"))
        split == hkdf2(k2.ck, <<>>, Of(failed, "last"))
    IN  /\ Complete("response")
        /\ zeroed' = (IF failed = {} THEN zeroed
                      ELSE IF zeroed = "nothing" /\ failed \subseteq {"last"} \X {"prk", "one", "two"} THEN "split"
                      ELSE "handshake")
        /\ IF ~Opens(static, k1.key, 0, h1) THEN Drop("handshake")
           ELSE IF ~Opens(cert, k2.key, 0, h2) THEN Drop("handshake")
           ELSE IF HasAuth /\ ~Verified(Plain(static), Plain(cert)) THEN Drop("certificate")
           ELSE /\ stage' = "secure" /\ keys' = [send |-> split.ck, recv |-> split.key]
                /\ nonces' = [send |-> 0, recv |-> 0] /\ h' = <<>> /\ ck' = <<>> /\ reading' = NoRead
                /\ UNCHANGED <<settings, kind, conn, handled, why, up, down, broken, cut, sequence, pool>>

(* What can fail of it is reported by the rest: an exchange of keys, the    *)
(* certificate's hash, the import of the two keys, of which none is kept.   *)
KeyFails == Complete("response") /\ Close("internal")

(* sv2_noise_send: the nonces are used whether or not the frame is written, *)
(* of which "done" cells are.                                               *)
Writes(m, done) ==
    LET f == Frame(keys.send, nonces.send, m)
    IN  /\ done \in 0..Len(f) /\ (broken => done < Len(f))
        /\ up' = (IF broken THEN up ELSE up \o SubSeq(f, 1, done)) /\ cut' = (cut \/ done < Len(f))
        /\ nonces' = [nonces EXCEPT !.send = @ + NoncesOf(m.size)]
Whole(m) == Len(Frame(keys.send, nonces.send, m))

(* The two requests of the stratum task, each answered by one message.      *)
Request(m, from, to, done) ==
    /\ stage = from
    /\ Writes(m, done)
    /\ IF done = Whole(m)
       THEN stage' = to /\ reading' = NextMessage /\ UNCHANGED <<keys, why, broken>>
       ELSE stage' = "closed" /\ why' = "write" /\ broken' = TRUE /\ reading' = NoRead
            /\ keys' = [send |-> None, recv |-> None]
    /\ UNCHANGED <<settings, kind, h, ck, zeroed, conn, handled, down, sequence, pool>>

Channel == settings.channel
SendSetup(done) == Request(Message("Setup", 1), "secure", "setup", done)
SendOpen(done) ==
    /\ ~settings.probe
    /\ Request(Message(IF Channel = "extended" THEN "OpenExtended" ELSE "OpenStandard", 2),
               "accepted", "opening", done)

(* sv2_noise_recv: the header says whether, and how much, there is to read. *)
ReadHeader ==
    /\ Complete("header")
    /\ IF ~Opens(reading.cells, keys.recv, nonces.recv, None) THEN Close("decrypt")
       ELSE LET header == Plain(reading.cells)
            IN  IF header.size > MaxPayload THEN Close("too large")
                ELSE /\ nonces' = [nonces EXCEPT !.recv = @ + 1]
                     /\ reading' = IF header.size = 0 THEN ReadFor("message", 0, header)
                                   ELSE ReadFor("payload", PayloadCells(header.size), header)
                     /\ UNCHANGED <<settings, kind, stage, h, ck, zeroed, keys, conn, handled, why, up, down, broken, cut,
                                    sequence, pool>>

ReadPayload ==
    /\ Complete("payload")
    /\ IF ~Opens(reading.cells, keys.recv, nonces.recv, None) THEN Close("decrypt")
       ELSE /\ nonces' = [nonces EXCEPT !.recv = @ + (NoncesOf(reading.header.size) - 1)]
            /\ reading' = ReadFor("message", 0, Plain(reading.cells))
            /\ UNCHANGED <<settings, kind, stage, h, ck, zeroed, keys, conn, handled, why, up, down, broken, cut, sequence, pool>>

---------------------------------------------------------------------------
(* A message was read, of which the payload may be too short to parse.      *)
IsMessage == Complete("message") /\ handled' = Append(handled, reading.header)
Got == reading.header

Goes(to) ==
    /\ stage' = to /\ reading' = IF to \in {"open", "closed"} THEN NextMessage ELSE NoRead
    /\ UNCHANGED <<settings, kind, h, ck, zeroed, keys, nonces, why, up, down, broken, cut, sequence, pool>>
Ends(reason) ==
    /\ stage' = "closed" /\ why' = reason /\ broken' = TRUE /\ reading' = NoRead
    /\ keys' = [send |-> None, recv |-> None]
    /\ UNCHANGED <<settings, kind, h, ck, zeroed, nonces, conn, up, down, cut, sequence, pool>>

(* The answer to SetupConnection; with it a probe has its answer, too.      *)
Accepts(m) == m.type = "SetupSuccess" /\ m.size >= 1 /\ ~m.fixed
ReadSetup ==
    /\ stage = "setup" /\ IsMessage
    /\ IF ~Accepts(Got) THEN Ends("rejected")
       ELSE IF settings.probe THEN Ends("available") ELSE Goes("accepted") /\ conn' = conn

(* sv2_parse_open_channel_success, sv2_parse_open_extended_channel_success. *)
Parses(m) ==
    /\ m.size >= 1 /\ m.prefix <= MaxExtranonce
    /\ Channel = "extended" => /\ m.extranonce \in MinExtranonce..MaxExtranonce
                               /\ m.prefix + m.extranonce <= MaxExtranonce
SuccessType == IF Channel = "extended" THEN "OpenExtendedSuccess" ELSE "OpenStandardSuccess"
ReadOpen ==
    /\ stage = "opening" /\ IsMessage
    /\ IF Got.type # SuccessType THEN Ends("rejected")
       ELSE IF ~Parses(Got) THEN Ends("parse")
       ELSE /\ Goes("open")
            /\ conn' = [channel |-> Got.channel, group |-> Got.group, target |-> Got.target,
                        size |-> IF Channel = "extended" THEN Got.extranonce ELSE 0,
                        prefix |-> IF Channel = "extended" THEN Got.prefix ELSE 0]

(* sv2_channel_or_group_matches, and stratum_v2_handle_set_target. Jobs are *)
(* those of module Sv2Session; another message is ignored.                  *)
Matches(channel) == channel = conn.channel \/ (conn.group # 0 /\ channel = conn.group)
InRange(target) == target \in 1..2
ReadMessage ==
    /\ stage = "open" /\ IsMessage /\ Goes("open")
    /\ conn' = IF Got.type = "SetTarget" /\ Matches(Got.channel) /\ InRange(Got.target)
               THEN [conn EXCEPT !.target = Got.target] ELSE conn

(* A reconnect request or a pause is seen between two messages.             *)
Leave ==
    /\ stage = "open" /\ reading = NextMessage /\ Close("left")

Traffic == sequence + (Len(pool.sent) - 2)

(* stratum_v2_submit_share, in ASIC_result_task: a failure is logged.       *)
Share(done) ==
    /\ stage = "open" /\ Traffic < MaxTraffic /\ sequence' = sequence + 1
    /\ Writes([type |-> "Share", size |-> 2, sequence |-> sequence], done)
    /\ UNCHANGED <<settings, kind, stage, h, ck, zeroed, keys, reading, conn, handled, why, down, broken, pool>>

---------------------------------------------------------------------------
(* The pool, of which another transcript of the handshake is the Noise      *)
(* protocol's.                                                              *)
PoolAnswers ==
    LET k1 == hkdf2(<<"name">>, Dh("e", "r"), {})
        k2 == hkdf2(k1.ck, Dh("e", "s"), {})
        split == hkdf2(k2.ck, <<>>, {})
        transcript == <<"name", "", "e", "", "r">>
        static == Seal(k1.key, 0, transcript, "s")
        cert == Seal(k2.key, 0, Append(transcript, static), [by |-> kind.by, static |-> kind.static])
    IN  /\ ~broken /\ pool.stage = "start" /\ up = <<"e">>
        /\ up' = <<>> /\ down' = <<"r">> \o Cells(static, 1) \o Cells(cert, 1)
        /\ pool' = [pool EXCEPT !.keys = [send |-> split.key, recv |-> split.ck], !.stage = "secure"]
        /\ UNCHANGED <<miner, kind, broken>>

PoolFrame(m) == Frame(pool.keys.send, pool.nonces.send, m)
PoolSends(m, to) ==
    /\ ~broken /\ down' = down \o PoolFrame(m)
    /\ pool' = [pool EXCEPT !.sent = Append(@, m), !.stage = to,
                            !.nonces.send = @ + IF m.size = 0 THEN 1 ELSE 2]
    /\ UNCHANGED <<miner, kind, up, broken>>

(* It reads a frame, or finds one that it can't decrypt and gives up.       *)
PoolReads ==
    /\ ~broken /\ pool.stage # "start" /\ Len(up) >= HeaderCells
    /\ LET first == SubSeq(up, 1, HeaderCells)
           n == pool.nonces.recv
           good == Opens(first, pool.keys.recv, n, None)
           size == Plain(first).size
           payload == SubSeq(up, HeaderCells + 1, HeaderCells + PayloadCells(size))
       IN  IF good /\ Len(up) >= HeaderCells + PayloadCells(size) /\ Opens(payload, pool.keys.recv, n + 1, None)
           THEN /\ pool' = [pool EXCEPT !.got = Append(@, Plain(payload)), !.nonces.recv = @ + 2]
                /\ up' = SubSeq(up, HeaderCells + PayloadCells(size) + 1, Len(up))
                /\ UNCHANGED <<miner, kind, down, broken>>
           ELSE /\ good => Len(up) >= HeaderCells + PayloadCells(size)
                /\ pool' = [pool EXCEPT !.why = "decrypt"] /\ broken' = TRUE
                /\ UNCHANGED <<miner, kind, up, down>>

Asked(type) == pool.got # <<>> /\ Last(pool.got).type = type
PoolSetsUp ==
    /\ pool.stage = "secure" /\ Asked("Setup")
    /\ \/ PoolSends([type |-> "SetupSuccess", size |-> 1, fixed |-> kind.fixed], "set up")
       \/ PoolSends(Message("SetupSuccess", 0), "done")
       \/ PoolSends(Message("SetupError", 1), "done")

OpenSuccess(type, group, extranonce, prefix) ==
    [type |-> type, size |-> 2, channel |-> 1, group |-> group, extranonce |-> extranonce, prefix |-> prefix,
     target |-> 1]
PoolOpens ==
    /\ pool.stage = "set up"
    /\ \/ Asked("OpenStandard") /\ \E group \in {0, 2} :
             PoolSends(OpenSuccess("OpenStandardSuccess", group, 0, 0), "open")
       \/ Asked("OpenExtended") /\ 
             \E s \in {<<MinExtranonce - 1, 0>>, <<MinExtranonce, 1>>, <<MaxExtranonce, 1>>} :
                 PoolSends(OpenSuccess("OpenExtendedSuccess", 2, s[1], s[2]), "open")
       \/ PoolSends(Message("OpenError", 1), "done")

PoolMessages ==
    {[type |-> "SetTarget", size |-> 1, channel |-> c[1], target |-> c[2]] :
         c \in {<<1, 2>>, <<1, 3>>, <<2, 2>>, <<3, 2>>}}
      \cup {Message("Other", 0), Message("Other", MaxPayload + 1)}
PoolSpeaks ==
    /\ pool.stage = "open" /\ Traffic < MaxTraffic
    /\ \E m \in PoolMessages : PoolSends(m, "open")

(* The connection is lost, with what is on the way.                         *)
Break ==
    /\ ~broken /\ stage # "start"
    /\ broken' = TRUE /\ up' = <<>> /\ \E n \in {0, 1} : down' = SubSeq(down, 1, Min({n, Len(down)}))
    /\ UNCHANGED <<miner, kind, pool>>

Next ==
    \/ Refuse \/ ReadFails \/ KeyFails \/ ReadHeader \/ ReadPayload
    \/ ReadSetup \/ ReadOpen \/ ReadMessage \/ Leave
    \/ \E b \in BOOLEAN, n \in 0..3 : SendKey(b, n)
    \/ Complete("response") /\ \E k \in 0..MaxFailed : \E failed \in kSubset(k, Digests) : Handshake(failed)
    \/ \E n \in 0..5 : Read(n) \/ SendSetup(n) \/ SendOpen(n) \/ Share(n)
    \/ PoolAnswers \/ PoolReads \/ PoolSetsUp \/ PoolOpens \/ PoolSpeaks \/ Break

Spec == Init /\ [][Next]_vars

---------------------------------------------------------------------------
(* Both sides have the same keys, and the pool the certificate asked for.   *)
(* Where a digest has failed the connection goes no further: before the     *)
(* split it isn't secure, and with other keys than the pool's nothing is    *)
(* read from it.                                                            *)
Secured ==
    stage \in {"secure", "setup", "accepted", "opening", "open"} =>
        /\ zeroed # "handshake"
        /\ zeroed = "nothing" =>
               keys.send = pool.keys.recv /\ keys.recv = pool.keys.send /\ keys.send # keys.recv
        /\ zeroed = "split" => stage \in {"secure", "setup"} /\ handled = <<>>
        /\ HasAuth => kind.by = settings.key /\ kind.static = "s"
        /\ settings.require => HasAuth

(* What was read is what the pool sent, in order and whole, and the same    *)
(* the other way; nothing is undecipherable unless a write or a digest has  *)
(* failed, and a pool with the right certificate isn't turned away.         *)
InStep ==
    /\ IsPrefix(handled, pool.sent)
    /\ \A i \in DOMAIN pool.got : pool.got[i].type = "Share" =>
           \A k \in 1..(i - 1) : pool.got[k].type = "Share" => pool.got[k].sequence < pool.got[i].sequence
    /\ why \in {"decrypt", "handshake"} => zeroed # "nothing"
    /\ pool.why = "decrypt" => cut \/ zeroed = "split"
    /\ why = "certificate" => kind.by # settings.key \/ kind.static # "s"

(* An open channel is the one the pool opened, has room for the extranonce, *)
(* and its target is the last the pool has set.                             *)
ChannelIsThePools ==
    LET targets == SelectSeq(handled, LAMBDA m : m.type \in {"SetTarget", SuccessType} /\ m.target < 3
                                                    /\ (m.channel = 1 \/ (m.channel = 2 /\ conn.group = 2)))
    IN  stage = "open" =>
            /\ conn.target = Last(targets).target /\ ~kind.fixed /\ ~settings.probe
            /\ conn.prefix + conn.size <= MaxExtranonce
            /\ Channel = "extended" => conn.size >= MinExtranonce

ProbeTellsTheTruth == why = "available" => ~kind.fixed

ConnectionIsSound == Secured /\ InStep /\ ChannelIsThePools /\ ProbeTellsTheTruth
=============================================================================

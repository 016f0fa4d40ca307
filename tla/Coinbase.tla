------------------------------ MODULE Coinbase -------------------------------
(***************************************************************************)
(* What the miner tells of a job's coinbase transaction                    *)
(* (coinbase_decoder.c, SYSTEM_decode_and_apply_coinbase of system.c):     *)
(* the pool's tag, the block height, who is paid, and whether the user is. *)
(* The coinbase comes in two parts with the extranonces between them, and  *)
(* its outputs are read one after the other. A script and the address it   *)
(* stands for are one (module Addresses); a user name is its words.        *)
(***************************************************************************)
EXTENDS Integers, Sequences, FiniteSets, SequencesExt

CONSTANTS
    Slots,              \* MAX_COINBASE_TX_OUTPUTS
    TagMax,             \* the longest tag
    UserMax,            \* MAX_USER_ADDRESSES
    ExtranonceLen,
    MaxValue,           \* the largest uint64_t
    MaxOutputs, MaxJobs \* bounds: of outputs (one, but for a first plain job), of jobs (later
                        \* ones are Followers)

(* The words of a user name: a script they stand for (or no), and the chain *)
(* they name, which a misspelt address does, too.                           *)
Main == [script |-> "a", chain |-> "bc"]
Test == [script |-> "b", chain |-> "tb"]
Hex == [script |-> "c", chain |-> "none"]
Misspelt == [script |-> "none", chain |-> "tb"]
Worker == [script |-> "none", chain |-> "none"]
Users == {<<>>, <<Worker, Worker>>, <<Main, Worker>>, <<Hex, Main>>, <<Main, Main, Test>>, <<Misspelt, Main>>}
Paid == {"a", "b", "pool"}

(* What jobs differ in: tags before and after the extranonces, the encoding *)
(* of the height, what the last two numbers say of BIP-54, the version's    *)
(* bit, and how the bytes end.                                              *)
Tags == {<<>>, <<"x">>, <<"x", "y">>}
ExpiryBlock == 8        \* BIP110_SIGNAL_EXPIRY_BLOCK
Plain ==
    [type |-> "coinbase", before |-> <<"x">>, after |-> <<>>, push |-> 4, height |-> 7, lock |-> 6,
     final |-> FALSE, bit4 |-> FALSE, end |-> "exact"]
Jobs ==
    {[Plain EXCEPT !.before = b, !.after = a, !.bit4 = TRUE] : b \in Tags, a \in {<<>>, <<"z", "y">>}}
      \cup {[Plain EXCEPT !.push = n] : n \in {0, 5}} \cup {[Plain EXCEPT !.height = 0]}
      \cup {[Plain EXCEPT !.height = ExpiryBlock, !.bit4 = TRUE]}
      \cup {[Plain EXCEPT !.lock = 7], [Plain EXCEPT !.final = TRUE]}
      \cup {[Plain EXCEPT !.end = e] : e \in {"exact", "short", "long"}}
      \cup {[type |-> "standard"]}
Followers == {Plain, [Plain EXCEPT !.push = 0], [Plain EXCEPT !.end = "short"], [type |-> "standard"]}

VARIABLES
    user, decode,       \* settings of the pool
    job,                \* the job that create_jobs_task hands over, and its outputs
    outs,
    count,              \* outputs the coinbase says it has
    stage,              \* "idle", or "outputs" (parse_coinbase_suffix)
    staging,            \* coinbase_staging
    coinbase,           \* what is published
    block_height, signals,
    jobs

vars == <<user, decode, job, outs, count, stage, staging, coinbase, block_height, signals, jobs>>

Empty ==
    [tag |-> <<>>, height |-> 0, outputs |-> <<>>, others |-> 0, othersValue |-> 0, total |-> 0,
     userValue |-> 0, status |-> "unknown", bip54 |-> FALSE, bip110 |-> FALSE]
DecodeError == [Empty EXCEPT !.tag = <<"[decode error]">>]

TypeOK ==
    /\ user \in Users /\ decode \in BOOLEAN /\ count \in 0..MaxOutputs
    /\ stage \in {"idle", "outputs"} /\ Len(coinbase.outputs) <= Slots
    /\ signals \subseteq {"BIP-54", "BIP-110"}

---------------------------------------------------------------------------
(* coinbase_parse_user_scriptpubkeys: different ones, the first UserMax.    *)
UserScripts(u) ==
    FoldLeft(LAMBDA s, w : IF w.script = "none" \/ Len(s) = UserMax \/ Contains(s, w.script)
                           THEN s ELSE Append(s, w.script),
             <<>>, u)
Mine == IF decode THEN ToSet(UserScripts(user)) ELSE {}

(* coinbase_detect_network: of the first word that names a chain.           *)
Network ==
    LET named == SelectSeq(user, LAMBDA w : w.chain # "none")
    IN  IF ~decode \/ named = <<>> THEN "bc" ELSE Head(named).chain

(* The tag is the script's rest, which the prefix ends in, and, after the   *)
(* extranonces, the suffix begins with.                                     *)
RestLen(j) == Len(j.before) + ExtranonceLen + Len(j.after)
Cut(n) == IF n > TagMax THEN TagMax ELSE n
Tag(j) ==
    LET rest == IF Len(j.before) < RestLen(j) THEN RestLen(j) - ExtranonceLen ELSE RestLen(j)
        first == IF Len(j.before) > Cut(rest) THEN Cut(rest) ELSE Len(j.before)
    IN  SubSeq(j.before, 1, first) \o SubSeq(j.after, 1, Cut(rest) - first)

(* Where the sequence number and the outputs are looked for in the suffix.  *)
Offset(j) ==
    LET left == RestLen(j) - Len(j.before) - ExtranonceLen IN IF left > 0 THEN left ELSE 0

(* The smallest output that isn't the user's and has a value; 0 for none.   *)
Candidate(outputs) ==
    LET ones == {i \in DOMAIN outputs : ~outputs[i].mine /\ outputs[i].value > 0}
        least == {i \in ones : \A k \in ones : outputs[i].value <= outputs[k].value}
    IN  IF ones = {} THEN 0 ELSE CHOOSE i \in least : \A k \in least : i <= k

(* A mutant: an output of the user is compared like the others.             *)
coinbase_store_output_Equal(r, o) ==
    LET i == Candidate(r.outputs)
        Fold(v) == [r EXCEPT !.others = @ + 1, !.othersValue = @ + v]
    IN  IF Len(r.outputs) < Slots THEN [r EXCEPT !.outputs = Append(@, o)]
        ELSE IF o.value = 0 THEN r
        ELSE IF i = 0 THEN Fold(o.value)
        ELSE IF o.value <= r.outputs[i].value THEN Fold(o.value)
        ELSE [Fold(r.outputs[i].value) EXCEPT !.outputs[i] = o]
coinbase_store_output(r, o) ==
    LET i == Candidate(r.outputs)
        Fold(v) == [r EXCEPT !.others = @ + 1, !.othersValue = @ + v]
    IN  IF Len(r.outputs) < Slots THEN [r EXCEPT !.outputs = Append(@, o)]
        ELSE IF o.value = 0 THEN r
        ELSE IF i = 0 THEN Fold(o.value)
        ELSE IF ~o.mine /\ o.value <= r.outputs[i].value THEN Fold(o.value)
        ELSE [Fold(r.outputs[i].value) EXCEPT !.outputs[i] = o]

---------------------------------------------------------------------------
Init ==
    /\ user \in Users /\ decode \in {TRUE, user # <<Main, Worker>>}
    /\ job = [type |-> "standard"] /\ outs = <<>> /\ count = 0 /\ stage = "idle"
    /\ staging = Empty /\ coinbase = Empty /\ block_height = 0 /\ signals = {} /\ jobs = 0

(* SYSTEM_reset_coinbase_ui_state leaves the height alone.                  *)
Fail ==
    /\ stage' = "idle" /\ coinbase' = DecodeError /\ signals' = {}
    /\ UNCHANGED <<user, decode, block_height, jobs>>

(* The next job. A header-only job has no coinbase to show.                 *)
Job ==
    /\ stage = "idle" /\ jobs < MaxJobs /\ Len(outs) < 2 /\ jobs' = jobs + 1
    /\ job' \in (IF jobs = 0 THEN Jobs ELSE Followers) /\ outs' = <<>>
    /\ IF job'.type = "standard" THEN
            /\ coinbase' = Empty /\ signals' = {} /\ block_height' = 0
            /\ UNCHANGED <<user, decode, count, stage, staging>>
       ELSE IF job'.push \notin 1..4 THEN
            /\ coinbase' = DecodeError /\ signals' = {}
            /\ UNCHANGED <<user, decode, count, stage, staging, block_height>>
       ELSE /\ staging' = [Empty EXCEPT !.height = job'.height, !.tag = Tag(job'),
                                        !.bip110 = decode /\ job'.height < ExpiryBlock /\ job'.bit4]
            /\ count' \in 0..(IF jobs = 0 /\ job' = Plain THEN MaxOutputs ELSE 1) /\ stage' = "outputs"
            /\ UNCHANGED <<user, decode, coinbase, block_height, signals>>

(* The suffix is parsed at the wrong place, or there is no output.          *)
NoOutputs ==
    /\ stage = "outputs" /\ outs = <<>> /\ (count = 0 \/ Offset(job) # Len(job.after))
    /\ Fail /\ UNCHANGED <<job, outs, count, staging>>

(* An output; a total that doesn't fit in 64 bits is an error.              *)
Output ==
    /\ stage = "outputs" /\ Len(outs) < count /\ Offset(job) = Len(job.after)
    /\ \E s \in Paid, v \in {0, 1, 2, MaxValue} :
           LET o == [to |-> s, value |-> v, mine |-> s \in Mine /\ v > 0, chain |-> Network]
           IN  IF staging.total > MaxValue - v THEN
                    outs' = outs /\ Fail /\ UNCHANGED <<job, count, staging>>
               ELSE /\ outs' = Append(outs, [to |-> s, value |-> v])
                    /\ staging' =
                         LET r == [staging EXCEPT !.total = @ + v, !.userValue = @ + IF o.mine THEN v ELSE 0]
                         IN  IF decode THEN coinbase_store_output(r, o) ELSE r
                    /\ UNCHANGED <<user, decode, job, count, stage, coinbase, block_height, signals, jobs>>

(* The outputs of the user come first; the rest keep their order.           *)
Partition(outputs) ==
    SelectSeq(outputs, LAMBDA o : o.mine) \o SelectSeq(outputs, LAMBDA o : ~o.mine)

(* Whether the user is paid, as far as that can be told.                    *)
Status ==
    IF ~decode THEN "unknown" ELSE IF Mine = {} THEN "not_applicable"
    ELSE IF staging.userValue > 0 THEN "verified" ELSE "not_found"

(* The lock time has to be the last four bytes. Everything is published.    *)
Publish ==
    /\ stage = "outputs" /\ count > 0 /\ Len(outs) = count
    /\ IF job.end # "exact" THEN Fail /\ UNCHANGED <<job, outs, count, staging>>
       ELSE LET r == [staging EXCEPT
                        !.bip54 = decode /\ job.height > 0 /\ job.lock = job.height - 1 /\ ~job.final,
                        !.outputs = Partition(@), !.status = Status]
            IN  /\ coinbase' = r /\ stage' = "idle"
                /\ block_height' = IF r.height # 0 THEN r.height ELSE block_height
                /\ signals' = (IF r.bip54 THEN {"BIP-54"} ELSE {}) \cup (IF r.bip110 THEN {"BIP-110"} ELSE {})
                /\ UNCHANGED <<user, decode, job, outs, count, staging, jobs>>

(* The session ends, in another task: also while a job is decoded.          *)
Reset ==
    /\ coinbase # Empty
    /\ coinbase' = Empty /\ signals' = {}
    /\ UNCHANGED <<user, decode, job, outs, count, stage, staging, block_height, jobs>>

Next == Job \/ NoOutputs \/ Output \/ Publish \/ Reset

Spec == Init /\ [][Next]_vars

---------------------------------------------------------------------------
Sum(s) == FoldLeft(LAMBDA x, o : x + o.value, 0, s)
ToUser(s) == SelectSeq(s, LAMBDA o : o.to \in Mine /\ o.value > 0)
Listed == coinbase.outputs

(* What is shown is a decoded coinbase, in full: the payout is verified     *)
(* when it pays a script of the user; what is listed and what is summed up  *)
(* make the total; the outputs of the user are listed first, and left out   *)
(* only when no other can make room; of the others the largest are listed;  *)
(* and the tag is both of its pieces.                                       *)
Complete ==
    /\ coinbase.total = Sum(outs) /\ coinbase.userValue = IF decode THEN Sum(ToUser(outs)) ELSE 0
    /\ (coinbase.status = "verified") = (decode /\ ToUser(outs) # <<>>)
    /\ decode => Sum(Listed) + coinbase.othersValue = Sum(outs)
    /\ \A i, k \in DOMAIN Listed : i < k /\ Listed[k].mine => Listed[i].mine
    /\ Len(SelectSeq(Listed, LAMBDA o : o.mine)) < Len(ToUser(outs)) =>
           \A i \in DOMAIN Listed : Listed[i].mine \/ Listed[i].value = 0
    /\ \A n \in DOMAIN outs : decode /\ outs[n].to \notin Mine /\ outs[n].value > 0 =>
           \/ \E i \in DOMAIN Listed : Listed[i].to = outs[n].to /\ Listed[i].value = outs[n].value
           \/ \A i \in DOMAIN Listed : Listed[i].mine \/ Listed[i].value = 0 \/ Listed[i].value >= outs[n].value
    /\ coinbase.tag = SubSeq(job.before \o job.after, 1, Cut(Len(job.before \o job.after)))

PayoutIsShown ==
    stage = "idle" /\ coinbase \notin {Empty, DecodeError} => Complete /\ job.end = "exact"
=============================================================================

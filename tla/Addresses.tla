----------------------------- MODULE Addresses ------------------------------
(***************************************************************************)
(* The address codecs of the coinbase decoder (segwit_addr.c, base58.c,    *)
(* coinbase_decoder.c): the output scripts of a coinbase are shown as      *)
(* addresses, and the addresses in the user name are turned into scripts   *)
(* to look for. A text is its digits (five-bit values, or base 58); the    *)
(* three forms have no text in common. The hash lengths are CONSTANTS; the *)
(* polynomial and the arithmetic are those of the code.                    *)
(***************************************************************************)
EXTENDS Integers, Sequences, FiniteSets, SequencesExt, Bitwise

CONSTANTS
    HashLen, WideLen,   \* 20 and 32 bytes
    Word, CheckLen,     \* bytes of a word of b58tobin; of the checksum
    Hashes,             \* byte strings of HashLen, and of WideLen bytes
    None

Networks == {"bc", "tb", "bcrt"}
hrp == [bc |-> <<98, 99>>, tb |-> <<116, 98>>, bcrt |-> <<98, 99, 114, 116>>]

(* A script: what is paid to, the witness version, and the hash.            *)
Script(type, version, hash) == [type |-> type, version |-> version, hash |-> hash]
Scripts ==
    {Script(t, 0, h) : t \in {"p2pkh", "p2sh"}, h \in {x \in Hashes : Len(x) = HashLen}}
      \cup {Script("witness", 0, h) : h \in Hashes}
      \cup {Script("witness", v, h) : v \in {1, 2}, h \in {x \in Hashes : Len(x) = WideLen}}

VARIABLES
    script, network,    \* what is encoded, for which chain
    text, damaged,      \* the address; it was changed on its way
    read,               \* the script the address was turned into
    stage

vars == <<script, network, text, damaged, read, stage>>

TypeOK ==
    /\ script \in Scripts /\ network \in Networks /\ damaged \in BOOLEAN
    /\ stage \in {"script", "text", "read"}

---------------------------------------------------------------------------
(* bech32_polymod_step: a step of the checksum, 30 bits, with the feedback  *)
(* for each of the five bits that leave at the top.                         *)
bech32_polymod_step(pre) ==
    LET out == pre \div 2^25
        Feedback(x, v, i) == IF (out \div 2^(i - 1)) % 2 = 1 THEN x ^^ v ELSE x
        rest == (pre % 2^25) * 32
    IN  Feedback(Feedback(Feedback(Feedback(Feedback(rest, 996825010, 1), 642813549, 2),
                 513874426, 3), 1027748829, 4), 705979059, 5)

bech32_final_constant == [bech32 |-> 1, bech32m |-> 734539939]

Polymod(prefix, values) ==
    FoldLeft(LAMBDA chk, v : bech32_polymod_step(chk) ^^ v, 1,
             [i \in DOMAIN prefix |-> prefix[i] \div 32] \o <<0>>
                \o [i \in DOMAIN prefix |-> prefix[i] % 32] \o values)

Bech32Text(prefix, values) == [form |-> "bech32", hrp |-> prefix, values |-> values, case |-> "lower"]

bech32_encode(prefix, data, encoding) ==
    LET chk == Polymod(prefix, data \o [i \in 1..6 |-> 0]) ^^ bech32_final_constant[encoding]
    IN  IF Len(prefix) + 7 + Len(data) > 90 THEN None
        ELSE Bech32Text(prefix, data \o [i \in 1..6 |-> (chk \div 2^(5 * (6 - i))) % 32])

(* The encoding the checksum is of; none when the text is malformed.        *)
bech32_decode(t) ==
    LET good == {e \in DOMAIN bech32_final_constant :
                     Polymod(t.hrp, t.values) = bech32_final_constant[e]}
    IN  IF \/ Len(t.hrp) + 1 + Len(t.values) \notin 8..90 \/ Len(t.values) < 6
           \/ t.hrp = <<>> \/ t.case = "mixed" \/ good = {}
        THEN None ELSE CHOOSE e \in good : TRUE

(* Regroup bits; None when padding that isn't allowed is left over.         *)
convert_bits(in, inbits, outbits, pad) ==
    LET Add(s, x) ==
            LET val == s.val * 2^inbits + x
                bits == s.bits + inbits
                left == bits % outbits
            IN  [val |-> val % 2^left, bits |-> left,
                 out |-> s.out \o [k \in 1..(bits \div outbits) |->
                                      (val \div 2^(bits - k * outbits)) % 2^outbits]]
        end == FoldLeft(Add, [val |-> 0, bits |-> 0, out |-> <<>>], in)
    IN  IF pad THEN IF end.bits > 0 THEN Append(end.out, end.val * 2^(outbits - end.bits)) ELSE end.out
        ELSE IF end.val # 0 \/ end.bits >= inbits THEN None ELSE end.out

(* Version 0 has the old checksum.                                         *)
EncodingOf(version) == IF version > 0 THEN "bech32m" ELSE "bech32"

segwit_addr_encode(prefix, version, program) ==
    IF version = 0 /\ Len(program) \notin {HashLen, WideLen} THEN None
    ELSE bech32_encode(prefix, <<version>> \o convert_bits(program, 8, 5, TRUE), EncodingOf(version))

segwit_addr_decode(prefix, t) ==
    LET data == SubSeq(t.values, 1, Len(t.values) - 6)
        program == convert_bits(Tail(data), 5, 8, FALSE)
    IN  IF bech32_decode(t) = None THEN None
        ELSE IF data = <<>> \/ Len(data) > 65 \/ t.hrp # prefix THEN None
        ELSE IF Head(data) > 16 THEN None
        ELSE IF bech32_decode(t) # (IF Head(data) = 0 THEN "bech32" ELSE "bech32m") THEN None
        ELSE IF program = None THEN None
        ELSE IF Len(program) \notin 2..40 THEN None
        ELSE IF Head(data) = 0 /\ Len(program) \notin {HashLen, WideLen} THEN None
        ELSE [version |-> Head(data), program |-> program]

---------------------------------------------------------------------------
(* Multiply a number, highest digit first, and add; and what was carried    *)
(* out of it.                                                               *)
MulAdd(digits, factor, add, base) ==
    FoldRight(LAMBDA d, s : [digits |-> <<(d * factor + s.carry) % base>> \o s.digits,
                             carry |-> (d * factor + s.carry) \div base],
              digits, [digits |-> <<>>, carry |-> add])

Zeros(s) == Cardinality({i \in DOMAIN s : \A j \in 1..i : s[j] = 0})
From(s, n) == SubSeq(s, n + 1, Len(s))

(* Into binsz bytes; the size it reports is of the number, without the      *)
(* leading zeros of the bytes and with those of the text.                   *)
b58tobin(digits, binsz) ==
    LET words == (binsz + Word - 1) \div Word
        left == binsz % Word
        Digit(s, d) ==
            LET n == MulAdd(s, 58, d, 2^(8 * Word))
            IN  IF s = None THEN None
                ELSE IF n.carry > 0 \/ (left > 0 /\ n.digits[1] >= 2^(8 * left)) THEN None ELSE n.digits
        number == FoldLeft(Digit, [i \in 1..words |-> 0], From(digits, Zeros(digits)))
        bytes == [k \in 1..(words * Word) |->
                     (number[((k - 1) \div Word) + 1] \div 2^(8 * (Word - 1 - ((k - 1) % Word)))) % 256]
        bin == From(bytes, words * Word - binsz)
    IN  IF number = None THEN None
        ELSE [bin |-> bin, size |-> binsz - Zeros(bin) + Zeros(digits)]

b58enc(bin) ==
    LET zcount == Zeros(bin)
        size == ((Len(bin) - zcount) * 138) \div 100 + 1
        buf == FoldLeft(LAMBDA s, byte : MulAdd(s, 256, byte, 58).digits,
                        [i \in 1..size |-> 0], From(bin, zcount))
    IN  [i \in 1..zcount |-> 0] \o From(buf, Zeros(buf))

(* The SHA-256 of the SHA-256, of which CheckLen bytes are used: a sum that *)
(* tells the texts below apart.                                             *)
my_dblsha256(bytes) ==
    LET h == FoldLeft(LAMBDA x, b : (x * 61 + b + 1) % 16777213, 7, bytes)
    IN  [k \in 1..CheckLen |-> (h \div 256^(k - 1)) % 256]

b58check(bin, digits) ==
    LET n == Len(bin) - CheckLen
    IN  From(bin, n) = my_dblsha256(SubSeq(bin, 1, n)) /\ Zeros(bin) = Zeros(digits)

b58check_enc(version, hash) ==
    LET data == <<version>> \o hash IN [form |-> "base58", digits |-> b58enc(data \o my_dblsha256(data))]

---------------------------------------------------------------------------
(* coinbase_decode_address_from_scriptpubkey: scripts of no known kind have *)
(* no address.                                                              *)
IsTestnet == network # "bc"
AddressOf(s) ==
    CASE s.type = "p2pkh" -> b58check_enc(IF IsTestnet THEN 111 ELSE 0, s.hash)
      [] s.type = "p2sh" -> b58check_enc(IF IsTestnet THEN 196 ELSE 5, s.hash)
      [] s.type = "witness" /\ s.version \in {0, 1} -> segwit_addr_encode(hrp[network], s.version, s.hash)
      [] OTHER -> None

(* coinbase_decode_single_address_script. The prefix is looked for in the   *)
(* text itself; any hexadecimal text of the right size is a script.         *)
Base58Script(t) ==
    LET size == 1 + HashLen + CheckLen
        r == b58tobin(t.digits, size)
        S(type) == Script(type, 0, SubSeq(r.bin, 2, HashLen + 1))
    IN  IF r = None THEN None
        ELSE IF r.size # size THEN None
        ELSE IF ~b58check(r.bin, t.digits) THEN None
        ELSE IF r.bin[1] \in {0, 111} THEN S("p2pkh")
        ELSE IF r.bin[1] \in {5, 196} THEN S("p2sh") ELSE None

Bech32Script(t) ==
    LET known == {n \in Networks : t.hrp = hrp[n]}
        w == segwit_addr_decode(t.hrp, t)
    IN  IF known = {} \/ w = None THEN None
        ELSE IF w.version = 1 /\ Len(w.program) # WideLen THEN None
        ELSE Script("witness", w.version, w.program)

ScriptOf(t) ==
    CASE t.form = "bech32" -> Bech32Script(t)
      [] t.form = "base58" -> Base58Script(t)
      [] t.form = "hex" -> t.script

---------------------------------------------------------------------------
Init ==
    /\ script \in Scripts /\ network \in Networks
    /\ text = None /\ damaged = FALSE /\ read = None /\ stage = "script"

(* An output of a coinbase is shown.                                        *)
Show ==
    /\ stage = "script" /\ AddressOf(script) # None
    /\ text' = AddressOf(script) /\ stage' = "text"
    /\ UNCHANGED <<script, network, damaged, read>>

(* A wallet writes a later witness version, or the script itself.           *)
Wallet ==
    /\ stage = "script"
    /\ \/ script.type = "witness" /\ script.version > 1
          /\ text' = segwit_addr_encode(hrp[network], script.version, script.hash)
       \/ text' = [form |-> "hex", script |-> script]
    /\ stage' = "text"
    /\ UNCHANGED <<script, network, damaged, read>>

(* The whole text in capitals, as in a QR code, is the same address.        *)
Capitals ==
    /\ stage = "text" /\ ~damaged /\ text.form = "bech32"
    /\ text' = [text EXCEPT !.case = "upper"]
    /\ UNCHANGED <<script, network, damaged, read, stage>>

(* One or two digits are wrong, exchanged, lost or added.                   *)
Misspelt(s, base) ==
    {[s EXCEPT ![i] = (@ + d) % base] : i \in DOMAIN s, d \in {1}}
      \cup {[s EXCEPT ![1] = (@ + 1) % base, ![i] = (@ + base - 1) % base] : i \in 2..Len(s)}
      \cup {[s EXCEPT ![i] = s[i + 1], ![i + 1] = s[i]] : i \in 1..(Len(s) - 1)}
      \cup {RemoveAt(s, i) : i \in DOMAIN s} \cup {InsertAt(s, i, 0) : i \in 1..(Len(s) + 1)}

Damage ==
    /\ stage = "text" /\ ~damaged
    /\ \/ text.form = "bech32" /\ \E v \in Misspelt(text.values, 32) : text' = [text EXCEPT !.values = v]
       \/ text.form = "bech32" /\ \E n \in Networks : text' = [text EXCEPT !.hrp = hrp[n]]
       \/ text.form = "bech32" /\ text' = [text EXCEPT !.case = "mixed"]
       \/ text.form = "base58" /\ \E d \in Misspelt(text.digits, 58) : text' = [text EXCEPT !.digits = d]
    /\ text' # text /\ damaged' = TRUE
    /\ UNCHANGED <<script, network, read, stage>>

Read ==
    /\ stage = "text" /\ read' = ScriptOf(text) /\ stage' = "read"
    /\ UNCHANGED <<script, network, text, damaged>>

Next == Show \/ Wallet \/ Capitals \/ Damage \/ Read

Spec == Init /\ [][Next]_vars

---------------------------------------------------------------------------
(* An address stands for exactly the script it was made from, whoever wrote *)
(* it and in whichever case, and a misspelt one for none: a payout is never *)
(* looked for under another script.                                         *)
AddressesAreExact == stage = "read" => read = IF damaged THEN None ELSE script
=============================================================================

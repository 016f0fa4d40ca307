--------------------------- MODULE SettingsRequest ---------------------------
(***************************************************************************)
(* Settings over HTTP: PATCH /api/system and PUT and DELETE of              *)
(* /api/system/pools/<index> (main/http_server/http_server.c), with the     *)
(* table of settings (main/nvs_config.c) and the pools in memory            *)
(* (main/system.c). A value of JSON is a record; a text is long, empty or   *)
(* neither. What the handlers tell the stratum task is StratumTask's, the   *)
(* host name and what follows from it DeviceName's.                         *)
(***************************************************************************)
EXTENDS Integers, SequencesExt

CONSTANTS
    MaxPools,           \* MAX_POOLS
    BuiltIn,            \* CONFIG_STRATUM_*: pool 0 as long as it was never set; its password is "x"
    Displays,           \* the names get_display_config() knows
    Scalars,            \* the settings that requests ask for: pairs of a name and a value
    Entries,            \* the fields of pools they send
    Segments,           \* the last parts of their URIs
    MaxRequests         \* bound

VARIABLES
    settings,           \* nvs_config's cache, without the pools
    slots,              \* NVS_CONFIG_POOL: <<>> for "", or one JSON object
    pools,              \* SYSTEM_MODULE.pools
    selection,          \* primary_pool_index, secondary_pool_index, use_fallback_stratum
    usingFallback,      \* is_using_fallback
    meant,              \* history: the password each pool was last given
    untold,             \* history: pools changed since the stratum task was told
    answer,             \* to the last request
    calls
vars == <<settings, slots, pools, selection, usingFallback, meant, untold, answer, calls>>

Indexes == 0..MaxPools - 1

(* JSON. cJSON keeps an integer beside every value: 1 for true.             *)
Str(s) == [type |-> "string", text |-> s, int |-> 0]
Num(n) == [type |-> "number", text |-> "", int |-> n]
Bool(b) == [type |-> "bool", text |-> "", int |-> IF b THEN 1 ELSE 0]
Null == [type |-> "null", text |-> "", int |-> 0]

TooLong == "..."        \* longer than any limit
LengthOf(text) == CASE text = "" -> 0 [] text = TooLong -> 5000 [] OTHER -> 1
Hidden == "*****"
Word == 65536
Huge == 100000          \* for 1e18: the largest difficulty, which no uint16_t holds

---------------------------------------------------------------------------
(* The settings with a name in the API, their types and limits.             *)
Row(type, min, max) == [type |-> type, min |-> min, max |-> max]
Switches == {"useNTP", "useFallbackStratum", "overclockEnabled", "invertscreen",
             "autofanspeed", "useCustomWWW"}
Numbers == {"primaryPoolIndex", "secondaryPoolIndex", "frequency", "coreVoltage", "rotation",
            "displayOffset", "displayTimeout", "manualFanSpeed", "minFanSpeed", "temptarget",
            "statsFrequency"}
Names == Switches \union Numbers \union {"overheat_mode", "ssid", "wifiPass", "display"}

Table(n) ==
    CASE n \in Switches -> Row("bool", 0, 1)
      [] n = "overheat_mode" -> Row("bool", 0, 0)
      [] n = "ssid" -> Row("string", 1, 32)
      [] n = "wifiPass" -> Row("string", 0, 63)
      [] n = "display" -> Row("string", 0, 4000)
      [] n \in {"primaryPoolIndex", "secondaryPoolIndex"} -> Row("number", 0, MaxPools - 1)
      [] n \in {"frequency", "coreVoltage"} -> Row("number", 1, Word - 1)
      [] n = "rotation" -> Row("number", 0, 270)
      [] n = "displayOffset" -> Row("number", 0, 255)
      [] n = "displayTimeout" -> Row("number", -1, Word - 1)
      [] n = "manualFanSpeed" -> Row("number", 0, 100)
      [] n = "minFanSpeed" -> Row("number", 0, 99)
      [] n = "temptarget" -> Row("number", 35, 66)
      [] n = "statsFrequency" -> Row("number", 0, Word - 1)

FitsRow(row, v) ==
    /\ v.type = row.type \/ (row.type = "bool" /\ v.type = "number")
    /\ (IF row.type = "string" THEN LengthOf(v.text) ELSE v.int) \in row.min..row.max

Acceptable(name, v) ==
    /\ FitsRow(Table(name), v)
    /\ name = "display" => v.text \in Displays
    /\ name = "rotation" => v.int \in {0, 90, 180, 270}

(* What is stored: a bool for any number but 0.                             *)
Kept(name, v) ==
    IF Table(name).type = "bool" THEN Bool(v.int # 0) ELSE v

---------------------------------------------------------------------------
(* The fields of a pool: what they may be, and what is stored without one.  *)
Field(kind, max, default) == [kind |-> kind, max |-> max, default |-> default]
Flags == {"stratumExtranonceSubscribe", "stratumDecodeCoinbase", "stratumShareWarning",
          "stratumV2RequireAuth"}
Needed == {"stratumURL", "stratumUser", "stratumPort"}
FieldNames == Flags \union Needed \union
    {"stratumProtocol", "stratumPassword", "stratumSuggestedDifficulty", "stratumTLS",
     "stratumCert", "stratumV2ChannelType", "stratumV2AuthorityPubkey"}

Fields(n) ==
    CASE n \in Flags -> Field("bool", 1, Bool(n = "stratumShareWarning"))
      [] n \in {"stratumURL", "stratumUser"} -> Field("needed", 255, Str(""))
      [] n = "stratumPort" -> Field("port", Word - 1, Num(3333))
      [] n = "stratumProtocol" -> Field("protocol", 255, Str("SV1"))
      [] n = "stratumPassword" -> Field("text", 255, Str("x"))
      [] n = "stratumSuggestedDifficulty" -> Field("number", Huge, Num(0))
      [] n = "stratumTLS" -> Field("number", 2, Num(0))
      [] n = "stratumCert" -> Field("text", 3000, Str(""))
      [] n = "stratumV2ChannelType" -> Field("channel", 255, Str("extended"))
      [] n = "stratumV2AuthorityPubkey" -> Field("text", 128, Str(""))

Words == [protocol |-> {"SV1", "SV2"}, channel |-> {"extended", "standard"}]

(* validate_pool_json(): of a value that is there ...                       *)
FitsField(f, v) ==
    CASE f.kind = "needed" -> v.type = "string" /\ LengthOf(v.text) \in 1..f.max
      [] f.kind = "text"   -> v.type = "string" /\ LengthOf(v.text) <= f.max
      [] f.kind = "port"   -> v.type = "number" /\ v.int \in 1..f.max
      [] f.kind = "number" -> v.type = "number" /\ v.int \in 0..f.max
      [] f.kind = "bool"   -> v.type \in {"bool", "number"}
      [] OTHER             -> v.type = "string" /\ v.text \in Words[f.kind]

(* ... and of all of them.                                                  *)
Valid(entry) ==
    \A n \in FieldNames :
        IF n \in DOMAIN entry THEN FitsField(Fields(n), entry[n]) ELSE n \notin Needed

(* update_pool_nvs(): hidden, the password is the one stored.               *)
Password(entry, old) ==
    IF "stratumPassword" \notin DOMAIN entry THEN Str("x")
    ELSE IF entry.stratumPassword.text # Hidden THEN entry.stratumPassword
    ELSE IF old # <<>> THEN old[1].stratumPassword ELSE Str("x")

Stored(entry, old) ==
    [n \in FieldNames |->
        IF n = "stratumPassword" THEN Password(entry, old)
        ELSE IF n \notin DOMAIN entry THEN Fields(n).default
        ELSE IF n \in Flags THEN Bool(entry[n].int # 0)
        ELSE entry[n]]

(* parse_pool_config_json(): numbers become uint16_t.                       *)
InMemory(n, v) == IF Fields(n).kind \in {"port", "number"} THEN Num(v.int % Word) ELSE v

Parsed(slot, i) ==
    IF slot = <<>>
    THEN IF i = 0 THEN BuiltIn ELSE [n \in FieldNames |-> Fields(n).default]
    ELSE [n \in FieldNames |-> InMemory(n, slot[1][n])]

(* GET /api/system/info, a pool with a URL.                                 *)
Shown(i) == [pools[i] EXCEPT !.stratumPassword = Str(Hidden)]
IsShown(i) == pools[i].stratumURL.text # ""

---------------------------------------------------------------------------
Never == [n \in Names |-> IF n \in Switches \union {"overheat_mode"} THEN Bool(FALSE) ELSE Num(0)]

Init ==
    /\ settings = [Never EXCEPT !.secondaryPoolIndex = Num(1), !.coreVoltage = Num(1200),
                                !.frequency = Num(485), !.temptarget = Num(60),
                                !.display = Str("NONE"), !.ssid = Str("net"),
                                !.displayTimeout = Num(-1), !.manualFanSpeed = Num(100), !.wifiPass = Str("")]
    /\ slots = [i \in Indexes |-> <<>>]
    /\ pools = [i \in Indexes |-> Parsed(<<>>, i)]
    /\ selection = [primary |-> 0, secondary |-> 1, fallback |-> FALSE]
    /\ usingFallback = FALSE
    /\ meant = [i \in Indexes |-> Parsed(<<>>, i).stratumPassword.text]
    /\ untold = {} /\ answer = "none" /\ calls = 0

(* SYSTEM_reload_pool_config().                                             *)
Selected(s) ==
    [primary |-> IF s.primaryPoolIndex.int < MaxPools THEN s.primaryPoolIndex.int ELSE 0,
     secondary |-> IF s.secondaryPoolIndex.int < MaxPools THEN s.secondaryPoolIndex.int ELSE 1,
     fallback |-> s.useFallbackStratum.int # 0]

(* update_pool_nvs() of one item, SYSTEM_load_pool_from_nvs() when the      *)
(* stored text is another.                                                  *)
Given(entry, before) ==
    IF "stratumPassword" \notin DOMAIN entry THEN "x"
    ELSE IF entry.stratumPassword.text = Hidden THEN before ELSE entry.stratumPassword.text

Update(s, i, entry) ==
    LET new == <<Stored(entry, s.slots[i])>> IN
    IF new = s.slots[i] THEN s
    ELSE [slots |-> [s.slots EXCEPT ![i] = new],
          pools |-> [s.pools EXCEPT ![i] = Parsed(new, i)],
          meant |-> [s.meant EXCEPT ![i] = Given(entry, @)],
          modified |-> s.modified \union {i}]

Unmodified == [slots |-> slots, pools |-> pools, meant |-> meant, modified |-> {}]

Refuse == answer' = "refused" /\ UNCHANGED <<settings, slots, pools, selection, usingFallback,
                                             meant, untold>>

(* PATCH: everything is looked at before anything is changed. "asked" maps  *)
(* names to values, "items" are pools with an id, Null for none.            *)
PatchValid(asked, items) ==
    /\ \A n \in DOMAIN asked : Acceptable(n, asked[n])
    /\ \A k \in DOMAIN items :
         items[k].id.type = "number" /\ items[k].id.int \in Indexes /\ Valid(items[k].fields)

SelectionNames == {"primaryPoolIndex", "secondaryPoolIndex", "useFallbackStratum"}

PatchApply(asked, given, items) ==
    LET after == [n \in Names |->
                    IF n \in DOMAIN asked THEN Kept(n, asked[n]) ELSE settings[n]]
        s == FoldLeft(LAMBDA acc, item : Update(acc, item.id.int, item.fields), Unmodified, items)
        selects == DOMAIN asked \intersect SelectionNames # {}
        fallback == after.useFallbackStratum.int # 0 IN
    /\ answer' = "done" /\ settings' = after
    /\ slots' = s.slots /\ pools' = s.pools /\ meant' = s.meant
    /\ selection' = IF given \/ selects THEN Selected(after) ELSE selection
    /\ usingFallback' =
         IF "useFallbackStratum" \in DOMAIN asked THEN fallback
         ELSE IF "primaryPoolIndex" \in DOMAIN asked /\ ~fallback THEN FALSE ELSE usingFallback
    /\ untold' = IF selects THEN {} ELSE untold \ s.modified

Functions == {[n \in {p[1] : p \in ps} |-> (CHOOSE p \in ps : p[1] = n)[2]] :
                ps \in {{}} \union {{p} : p \in Scalars} \union {{p, q} : p, q \in Scalars}}

(* The pools of a PATCH: absent, not an array, or one or two items.         *)
Shape(given, isArray, items) == [given |-> given, isArray |-> isArray, items |-> items]
Item(id, fields) == [id |-> id, fields |-> fields]
SentBack == {Item(Num(i), Shown(i)) : i \in {j \in Indexes : IsShown(j)}}
Items == {Item(Num(i), e) : i \in Indexes \union {MaxPools}, e \in Entries}
            \union SentBack \union {Item(Null, e) : e \in Entries}
Arrays == {Shape(FALSE, TRUE, <<>>), Shape(TRUE, FALSE, <<>>)}
            \union {Shape(TRUE, TRUE, <<x>>) : x \in Items}

Handle(asked, body) ==
    IF PatchValid(asked, body.items) /\ body.isArray
    THEN PatchApply(asked, body.given, body.items) ELSE Refuse

Calls == calls < MaxRequests /\ calls' = calls + 1

PatchSettings == Calls /\ \E asked \in Functions : Handle(asked, Shape(FALSE, TRUE, <<>>))
PatchPools == Calls /\ \E body \in Arrays : Handle(<<>>, body)
PatchTwo == Calls /\ \E x \in SentBack, y \in Items : Handle(<<>>, Shape(TRUE, TRUE, <<x, y>>))
PatchBoth == Calls /\ \E p \in Scalars, x \in Items :
    Handle([n \in {p[1]} |-> p[2]], Shape(TRUE, TRUE, <<x>>))

(* The rest of a PUT's URI, as atoi() reads it: 0 for a text.               *)
IndexOf(segment) == segment.int

PutPool == Calls /\ \E segment \in Segments, entry \in Entries :
    LET i == IndexOf(segment)
        s == Update(Unmodified, i, entry) IN
    IF i \notin Indexes \/ ~Valid(entry) THEN Refuse
    ELSE /\ answer' = "done"
         /\ slots' = s.slots /\ pools' = s.pools /\ meant' = s.meant
         /\ selection' = Selected(settings)
         /\ untold' = untold \ {i}
         /\ UNCHANGED <<settings, usingFallback>>

(* The stratum task is not told: it shouldn't know the pool.                *)
DeletePool == Calls /\ \E segment \in Segments :
    LET i == IndexOf(segment) IN
    IF i \notin Indexes \/ i \in {settings.primaryPoolIndex.int, settings.secondaryPoolIndex.int}
    THEN Refuse
    ELSE /\ answer' = "done"
         /\ slots' = [slots EXCEPT ![i] = <<>>]
         /\ pools' = [pools EXCEPT ![i] = Parsed(<<>>, i)]
         /\ meant' = [meant EXCEPT ![i] = Parsed(<<>>, i).stratumPassword.text]
         /\ selection' = Selected(settings)
         /\ untold' = untold \union {i}
         /\ UNCHANGED <<settings, usingFallback>>

(* The power management stops for an overheat (external).                   *)
Overheat ==
    /\ settings.overheat_mode = Bool(FALSE) /\ calls < MaxRequests
    /\ settings' = [settings EXCEPT !.overheat_mode = Bool(TRUE)]
    /\ UNCHANGED <<slots, pools, selection, usingFallback, meant, untold, answer, calls>>

Next == PatchSettings \/ PatchPools \/ PatchTwo \/ PatchBoth \/ PutPool \/ DeletePool \/ Overheat

Spec == Init /\ [][Next]_vars

---------------------------------------------------------------------------
TypeOK ==
    /\ DOMAIN settings = Names /\ untold \subseteq Indexes
    /\ \A i \in Indexes : slots[i] # <<>> => Valid(slots[i][1])
    /\ answer \in {"none", "done", "refused"} /\ calls \in 0..MaxRequests

(* Whatever was sent, each setting is within its limits, but for the        *)
(* overheating, which only the device reports.                              *)
SettingsAreInRange ==
    \A n \in Names :
        FitsRow(Table(n), settings[n]) \/ (n = "overheat_mode" /\ settings[n] = Bool(TRUE))

(* The pools and the choice of them in memory are the stored ones, each     *)
(* with the password it was given last, although no page shows it.          *)
MemoryIsStored ==
    /\ \A i \in Indexes : /\ pools[i] = Parsed(slots[i], i)
                          /\ pools[i].stratumPassword.text = meant[i]
    /\ selection = Selected(settings) /\ (selection.fallback => usingFallback)

(* A page that saves what it was shown is accepted and leaves the pools.    *)
SavingChangesNothing ==
    \A i \in Indexes : IsShown(i) =>
        /\ Valid(Shown(i))
        /\ Parsed(<<Stored(Shown(i), slots[i])>>, i) = pools[i]

(* The stratum task was told of every change to a pool it may use.          *)
TaskIsTold == untold \intersect {selection.primary, selection.secondary} = {}

RequestsAreHonoured == SettingsAreInRange /\ MemoryIsStored /\ SavingChangesNothing /\ TaskIsTold
=============================================================================

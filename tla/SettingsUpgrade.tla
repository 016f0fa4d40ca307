--------------------------- MODULE SettingsUpgrade ----------------------------
(***************************************************************************)
(* Settings over changes of the firmware (main/nvs_config.c): an older one  *)
(* has other keys. They are taken over at the first start, before each      *)
(* setting is loaded, and two of them are written along with the new ones,  *)
(* for the time the older firmware comes back. Each write is durable by     *)
(* itself, and the power can be lost between any two.                       *)
(***************************************************************************)
EXTENDS Naturals, Sequences

CONSTANTS
    None,               \* a key flash doesn't hold
    Megahertz,          \* a frequency is a float, in steps that "%f" keeps: so many to the MHz
    Near,               \* and differences below so many steps (0.001 MHz) count as none
    Frequencies, Fans, Pools,           \* what is set
    OldFrequencies, OldFans, OldPools,  \* what the older firmware has: frequencies in MHz
    MaxSets, MaxEdits, MaxRestarts      \* bounds

VARIABLES
    phase,              \* "old" (the older firmware runs), "starting", "running"
    at, migrating,      \* nvs_config_init(): the setting it is at; migrate_legacy_pools()
    cache, isSet,       \* settings[].value, .is_set
    queue,              \* nvs_save_queue
    mirror,             \* the update nvs_task wrote and now copies to the older key
    flash, legacy,      \* the keys of this firmware and of the older one
    newest,             \* history: what was set last and reached flash
    asked,              \* history: what the frequency was last set to
    apart,              \* history: settings one of whose two keys was changed alone
    interrupted,        \* history: the power was lost between the older firmware's two pools
    sets, edits, restarts

vars == <<phase, at, migrating, cache, isSet, queue, mirror, flash, legacy, newest, asked,
          apart, interrupted, sets, edits, restarts>>

Order == <<"pool_1", "pool_2", "frequency", "fan", "color">>
Names == {Order[i] : i \in DOMAIN Order}
Nothing == [n \in Names |-> None]
Indexed == {"pool_1", "pool_2"}     \* one setting, with one is_set
NoUpdate == [name |-> "none", value |-> None]

(* settings[], and the build's pools for migrate_legacy_pools()             *)
Default == [pool_1 |-> "", pool_2 |-> "", frequency |-> 485 * Megahertz, fan |-> 100,
            color |-> "default"]
BuiltIn == [pool_1 |-> "public-pool.io", pool_2 |-> "solo.ckpool.org"]

Mirrored == {"frequency", "fan"}

---------------------------------------------------------------------------
(* The older firmware has set some of its settings (external).              *)
Init ==
    /\ phase = "old" /\ at = 0 /\ migrating = FALSE
    /\ legacy \in [pool_1 : OldPools, pool_2 : OldPools \union {None}, fan : OldFans,
                   frequency : OldFrequencies \union {None}, color : {None, "red"}]
    /\ cache = Nothing /\ isSet = {} /\ queue = <<>> /\ mirror = NoUpdate
    /\ flash = Nothing /\ newest = Nothing /\ asked = None
    /\ apart = {} /\ interrupted = FALSE
    /\ sets = 0 /\ edits = 0 /\ restarts = 0

(* ... and changes them.                                                    *)
OldEdit ==
    /\ phase = "old" /\ edits < MaxEdits /\ edits' = edits + 1
    /\ \E n \in Mirrored \union Indexed :
         /\ \E v \in CASE n = "frequency" -> OldFrequencies [] n = "fan" -> OldFans
                       [] OTHER -> OldPools :
              legacy' = [legacy EXCEPT ![n] = v]
         /\ apart' = IF flash[n] = None \/ n \in Indexed THEN apart ELSE apart \union {n}
    /\ UNCHANGED <<phase, at, migrating, cache, isSet, queue, mirror, flash, newest, asked,
                   interrupted, sets, restarts>>

Boot ==
    /\ phase' = "starting" /\ at' = 1 /\ migrating' = FALSE
    /\ cache' = Nothing /\ isSet' = {} /\ queue' = <<>> /\ mirror' = NoUpdate /\ asked' = None
    /\ UNCHANGED <<flash, legacy, newest, sets, edits>>

Upgrade == phase = "old" /\ Boot /\ UNCHANGED <<apart, interrupted, restarts>>

(* read_legacy_*() and nvs_config_init_fallback(): zero isn't taken over.   *)
Converted(n) ==
    CASE n \in Indexed -> IF legacy[n] = None THEN BuiltIn[n] ELSE legacy[n]
      [] n = "frequency" -> IF legacy[n] \in {None, 0} THEN None ELSE legacy[n] * Megahertz
      [] n = "fan" -> IF legacy[n] \in {None, 0} THEN None ELSE legacy[n]
      [] n = "color" -> legacy[n]

(* migrate_legacy_pools() only looks for the first pool, and writes both.   *)
TakesOver_Always(n) ==
    CASE n = "pool_1" -> flash.pool_1 = None
      [] n = "pool_2" -> migrating
      [] OTHER -> TRUE

TakesOver(n) ==
    CASE n = "pool_1" -> flash.pool_1 = None
      [] n = "pool_2" -> migrating
      [] OTHER -> flash[n] = None

(* nvs_config_init(), one setting at a time.                                *)
StartStep ==
    /\ phase = "starting" /\ at <= Len(Order)
    /\ LET n == Order[at]
           value == IF TakesOver(n) /\ Converted(n) # None THEN Converted(n) ELSE flash[n]
       IN  /\ flash' = [flash EXCEPT ![n] = value]
           /\ cache' = [cache EXCEPT ![n] = IF value = None THEN Default[n] ELSE value]
           /\ isSet' = IF value = None THEN isSet
                       ELSE isSet \union (IF n \in Indexed THEN Indexed ELSE {n})
           /\ migrating' = (n = "pool_1" /\ TakesOver(n))
           /\ newest' = IF newest[n] = None THEN [newest EXCEPT ![n] = Converted(n)] ELSE newest
    /\ at' = at + 1
    /\ phase' = IF at = Len(Order) THEN "running" ELSE "starting"
    /\ UNCHANGED <<queue, mirror, legacy, asked, apart, interrupted, sets, edits, restarts>>

---------------------------------------------------------------------------
(* nvs_config_set_u16(), _float() and _string(): what the cache holds       *)
(* already, or nearly, is not saved.                                        *)
Difference(a, b) == IF a > b THEN a - b ELSE b - a

Same(n, v) ==
    /\ n \in isSet
    /\ IF n = "frequency" THEN Difference(cache[n], v) < Near ELSE cache[n] = v

SetTo(n, v) ==
    /\ phase = "running" /\ sets < MaxSets /\ sets' = sets + 1
    /\ asked' = IF n = "frequency" THEN v ELSE asked
    /\ IF Same(n, v) THEN UNCHANGED <<cache, isSet, queue>>
       ELSE /\ cache' = [cache EXCEPT ![n] = v]
            /\ isSet' = isSet \union (IF n \in Indexed THEN Indexed ELSE {n})
            /\ queue' = Append(queue, [name |-> n, value |-> v])
    /\ UNCHANGED <<phase, at, migrating, mirror, flash, legacy, newest, apart, interrupted,
                   edits, restarts>>

(* nvs_task writes an update, ...                                           *)
Write ==
    /\ phase = "running" /\ mirror = NoUpdate /\ queue # <<>>
    /\ LET u == Head(queue)
       IN  /\ flash' = [flash EXCEPT ![u.name] = u.value]
           /\ newest' = [newest EXCEPT ![u.name] = u.value]
           /\ mirror' = IF u.name \in Mirrored THEN u ELSE NoUpdate
    /\ queue' = Tail(queue)
    /\ interrupted' = (interrupted /\ Head(queue).name # "pool_2")
    /\ UNCHANGED <<phase, at, migrating, cache, isSet, legacy, asked, apart, sets, edits,
                   restarts>>

(* ... and nvs_config_apply_fallback() the older key: the whole megahertz.  *)
Copied(u) == IF u.name = "frequency" THEN u.value \div Megahertz ELSE u.value

Mirror ==
    /\ mirror # NoUpdate /\ mirror' = NoUpdate
    /\ legacy' = [legacy EXCEPT ![mirror.name] = Copied(mirror)]
    /\ apart' = apart \ {mirror.name}
    /\ UNCHANGED <<phase, at, migrating, cache, isSet, queue, flash, newest, asked,
                   interrupted, sets, edits, restarts>>

(* A restart or a loss of power, into this firmware or the older one.       *)
Cut ==
    /\ restarts < MaxRestarts /\ restarts' = restarts + 1
    /\ apart' = IF mirror = NoUpdate THEN apart ELSE apart \union {mirror.name}
    /\ interrupted' = (interrupted \/ migrating)

Restart == phase # "old" /\ Boot /\ Cut

Downgrade ==
    /\ phase # "old" /\ Cut
    /\ phase' = "old" /\ at' = 0 /\ migrating' = FALSE
    /\ cache' = Nothing /\ isSet' = {} /\ queue' = <<>> /\ mirror' = NoUpdate /\ asked' = None
    /\ UNCHANGED <<flash, legacy, newest, sets, edits>>

Next ==
    \/ OldEdit \/ Upgrade \/ StartStep
    \/ \E v \in Frequencies : SetTo("frequency", v)
    \/ \E v \in Fans : SetTo("fan", v)
    \/ \E v \in Pools, n \in Indexed : SetTo(n, v)
    \/ Write \/ Mirror \/ Restart \/ Downgrade

Spec == Init /\ [][Next]_vars
---------------------------------------------------------------------------
TypeOK ==
    /\ phase \in {"old", "starting", "running"} /\ at \in 0..(Len(Order) + 1)
    /\ isSet \subseteq Names /\ apart \subseteq Mirrored
    /\ {migrating, interrupted} \subseteq BOOLEAN /\ Len(queue) <= MaxSets

(* Every setting is what was last set, under whichever firmware, as closely *)
(* as a frequency is kept: but of the older one's pools the second is gone  *)
(* if the power was lost while they were taken over. And the older firmware *)
(* finds the newest values but for what was changed on one side alone.      *)
SettingsSurvive ==
    /\ phase = "running" /\ queue = <<>> =>
         /\ \A n \in Names :
              \/ n = "pool_2" /\ interrupted
              \/ cache[n] = IF newest[n] = None THEN Default[n] ELSE newest[n]
         /\ asked # None => Difference(cache.frequency, asked) < Near
    /\ phase # "starting" /\ mirror = NoUpdate =>
         \A n \in Mirrored \ apart :
           newest[n] # None => legacy[n] = Copied([name |-> n, value |-> newest[n]])
=============================================================================

------------------------------ MODULE NvsStore ------------------------------
(***************************************************************************)
(* What the configuration store promises (main/nvs_config.c), without its  *)
(* cache, mutexes, queue and task: settings change one at a time, a        *)
(* restart brings back the settings as they were at some earlier moment,   *)
(* and what a restart has once brought back cannot be forgotten by a later *)
(* one. Nothing is promised about how recent that moment is.               *)
(***************************************************************************)
EXTENDS Sequences, Naturals

CONSTANTS Slots, Values

VARIABLE history  \* the settings: first as stored, last as read now

Settings == [Slots -> Values]

Stored == history[1]
Now    == history[Len(history)]

Init == \E st \in Settings : history = <<st>>

Set(s, v) == history' = Append(history, [Now EXCEPT ![s] = v])

Persist == Len(history) > 1 /\ history' = Tail(history)

Restart == history' = <<Stored>>

Next == Persist \/ Restart \/ \E s \in Slots, v \in Values : Set(s, v)

Spec == Init /\ [][Next]_history
=============================================================================

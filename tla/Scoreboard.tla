----------------------------- MODULE Scoreboard ------------------------------
(***************************************************************************)
(* The best shares (main/tasks/scoreboard.c): a sorted table in RAM whose  *)
(* entries each own a slot of the settings store, where ASIC_result_task   *)
(* saves them through the queue of nvs_config and from where they are read *)
(* after a restart.                                                        *)
(***************************************************************************)
EXTENDS Naturals, Sequences

CONSTANTS
    Size,                       \* MAX_SCOREBOARD
    MaxDifficulty, MaxShares, MaxRestarts   \* bounds

Positions == 1..Size
Difficulties == 0..MaxDifficulty

(* The text of an entry rounds the difficulty ("%.1f"); hasExtranonce2 is   *)
(* false for shares of a V2 standard channel.                               *)
Text == [difficulty: Nat, hasExtranonce2: BOOLEAN]
Entry == [difficulty: Nat, text: Text, slot: Positions]
Nothing == [difficulty |-> 0, hasExtranonce2 |-> FALSE]

VARIABLES
    entries,   \* scoreboard->entries
    queue,     \* the updates of NVS_CONFIG_SCOREBOARD that wait for nvs_task
    flash,     \* slot -> text
    turnedAway,  \* history: the best share that is not in the table
    shares, restarts

vars == <<entries, queue, flash, turnedAway, shares, restarts>>

TypeOK ==
    /\ entries \in [Positions -> Entry]
    /\ \A i \in DOMAIN queue : queue[i] \in [slot: Positions, text: Text]
    /\ flash \in [Positions -> Text] /\ turnedAway \in Nat

Empty(i) == [difficulty |-> 0, text |-> Nothing, slot |-> i]

Init ==
    /\ entries = [i \in Positions |-> Empty(i)]
    /\ queue = <<>> /\ flash = [i \in Positions |-> Nothing]
    /\ turnedAway = 0 /\ shares = 0 /\ restarts = 0

Rounded(d) == 2 * ((d + 1) \div 2)

Sorted(table) == \A i \in 1..(Size - 1) : table[i].difficulty >= table[i + 1].difficulty

Sortings(table) ==
    {[i \in Positions |-> table[order[i]]] :
        order \in {o \in [Positions -> Positions] :
                     /\ \A i, j \in Positions : o[i] = o[j] => i = j
                     /\ Sorted([i \in Positions |-> table[o[i]]])}}

SlotOfNew_Last == Size

SlotOfNew == entries[Size].slot

Larger(a, b) == IF a > b THEN a ELSE b

(* scoreboard_add(): the new entry takes the place and the slot of the last.*)
Add(d, hasExtranonce2) ==
    LET text == [difficulty |-> Rounded(d), hasExtranonce2 |-> hasExtranonce2]
        new == [difficulty |-> d, text |-> text, slot |-> SlotOfNew]
    IN  /\ shares < MaxShares /\ shares' = shares + 1
        /\ IF d <= entries[Size].difficulty
           THEN turnedAway' = Larger(turnedAway, d) /\ UNCHANGED <<entries, queue>>
           ELSE /\ turnedAway' = Larger(turnedAway, entries[Size].difficulty)
                /\ entries' \in Sortings([entries EXCEPT ![Size] = new])
                /\ queue' = Append(queue, [slot |-> new.slot, text |-> text])
        /\ UNCHANGED <<flash, restarts>>

(* nvs_task                                                                 *)
Save ==
    /\ queue # <<>> /\ queue' = Tail(queue)
    /\ flash' = [flash EXCEPT ![Head(queue).slot] = Head(queue).text]
    /\ UNCHANGED <<entries, turnedAway, shares, restarts>>

(* scoreboard_init(): sscanf() matches no empty field, so an entry without  *)
(* an extranonce2 is not read back.                                         *)
Parsed(i) ==
    IF flash[i].hasExtranonce2
    THEN [difficulty |-> flash[i].difficulty, text |-> flash[i], slot |-> i]
    ELSE Empty(i)

Restart ==
    /\ restarts < MaxRestarts /\ restarts' = restarts + 1
    /\ entries' \in Sortings([i \in Positions |-> Parsed(i)])
    /\ queue' = <<>> /\ turnedAway' = 0
    /\ UNCHANGED <<flash, shares>>

Next ==
    \/ \E d \in Difficulties \ {0}, hasExtranonce2 \in BOOLEAN : Add(d, hasExtranonce2)
    \/ Save \/ Restart

Spec == Init /\ [][Next]_vars

---------------------------------------------------------------------------
(* The text a slot will have when the queue is written.                     *)
Written(slot) ==
    LET updates == {i \in DOMAIN queue : queue[i].slot = slot}
    IN  IF updates = {} THEN flash[slot]
        ELSE queue[CHOOSE i \in updates : \A j \in updates : j <= i].text

(* The table lists the best shares since the restart, and each of them has a*)
(* slot of its own in which it is, or will be, saved.                       *)
BestAreListedAndSaved ==
    /\ Sorted(entries) /\ turnedAway <= entries[Size].difficulty
    /\ \A i, j \in Positions : entries[i].slot = entries[j].slot => i = j
    /\ \A i \in Positions :
         entries[i].difficulty > 0 => Written(entries[i].slot) = entries[i].text
=============================================================================

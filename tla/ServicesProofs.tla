--------------------------- MODULE ServicesProofs ---------------------------
(***************************************************************************)
(* Proofs about parts of Services, for any values of their constants: the  *)
(* difficulty controller, the scoreboard, the screen, the accessory        *)
(* protocol, the self test, the hashrate monitor, the history of the       *)
(* statistics, the fan controller, the sensors with the PID, and the chain *)
(* of chips behind its drivers. The hypotheses about the constants are     *)
(* named, and are those of the code.                                       *)
(***************************************************************************)
EXTENDS Services, FiniteSetTheorems, SequenceTheorems, WellFoundedInduction, TLAPS

---------------------------------------------------------------------------
(* The difficulty controller: at rest the chips have the controller's       *)
(* power, which no change of the pool leaves above the one aimed at. A      *)
(* power is at least MIN_ASIC_DIFFICULTY_POWER = 4 (asic_common.h:12),      *)
(* which is positive, and a driver starts in that range.                    *)
PowersAreSound ==
    /\ MinPower \in Nat \ {0} /\ MaxPower \in Nat
    /\ ResetPower \in Difficulty!Powers /\ MaxTime \in Nat /\ Grace \in Nat

---------------------------------------------------------------------------
(* The inductive invariant. An update that has not reached the chips yet    *)
(* carries the power the controller believes in; when none is on its way    *)
(* the chips have it; and when no update is due it does not pass the        *)
(* power aimed at. All three are lost when updates overlap, or when the chips are   *)
(* initialised with a power already decided.                                *)
Sent == \A t \in Tasks : apply[t] # Difficulty!None => apply[t] = current
Arrived ==
    (\A t \in Tasks : apply[t] = Difficulty!None) /\ current # Difficulty!None => chip = current
Fresh == due = {} => current # Difficulty!None /\ current <= Difficulty!Effective

(* What is sent was decided.                                                *)
Decided == current = Difficulty!None => \A t \in Tasks : apply[t] = Difficulty!None

InStep == initialized /\ ~overlapped /\ ~kept => Sent /\ Arrived /\ Fresh

Flags == initialized \in BOOLEAN /\ overlapped \in BOOLEAN /\ kept \in BOOLEAN

DifficultyInv == Difficulty!TypeOK /\ Flags /\ Decided /\ InStep

---------------------------------------------------------------------------
(* What the controller aims at is a power of the chips that neither the     *)
(* hashrate nor a pool within the range is below.                           *)
LEMMA EffectiveIsBound ==
    ASSUME PowersAreSound, Difficulty!TypeOK
    PROVE  /\ Difficulty!Effective \in Difficulty!Powers
           /\ Difficulty!Effective <= byHashrate
           /\ pool >= MinPower => Difficulty!Effective <= pool
           /\ pool \in 0..(MinPower - 1) => Difficulty!Effective = MinPower
           /\ pool = Difficulty!Unset => Difficulty!Effective = byHashrate
BY DEF Difficulty!TypeOK, Difficulty!Powers, PowersAreSound, Difficulty!Effective, Difficulty!Unset

(* No power is the mark of "none".                                          *)
LEMMA NoneIsNoPower ==
    PowersAreSound => \A p \in Difficulty!Powers : p # Difficulty!None /\ p \in Nat
BY DEF PowersAreSound, Difficulty!Powers, Difficulty!None

(* The invariant holds at first: nothing is initialised.                    *)
LEMMA DifficultyBegins == PowersAreSound /\ Difficulty!Init => DifficultyInv
<1> SUFFICES ASSUME PowersAreSound, Difficulty!Init PROVE DifficultyInv
  OBVIOUS
<1>2. Flags
  BY Zenon DEF Difficulty!Init, Flags
<1>1. Difficulty!TypeOK
  <2>1. pool \in Difficulty!Unset..MaxPower
    BY DEF Difficulty!Init, Difficulty!Unset, PowersAreSound
  <2>2. /\ since \in 0..MaxTime /\ now \in 0..MaxTime /\ due \subseteq Tasks
        /\ chip \in Difficulty!Powers /\ byHashrate \in Difficulty!Powers
    BY DEF Difficulty!Init, PowersAreSound
  <2>3. /\ current = Difficulty!None /\ pending = Difficulty!None
        /\ apply \in [Tasks -> {Difficulty!None}]
    BY DEF Difficulty!Init
  <2> QED
    BY <1>2, <2>1, <2>2, <2>3 DEF Difficulty!TypeOK, Flags
<1>3. Decided
  BY DEF Difficulty!Init, Decided
<1>4. InStep
  BY Zenon DEF Difficulty!Init, InStep
<1> QED
  BY <1>1, <1>2, <1>3, <1>4 DEF DifficultyInv

---------------------------------------------------------------------------
(* An update decides: alone, it is the only one on its way.                 *)
LEMMA DecideKeeps ==
    ASSUME PowersAreSound, DifficultyInv, NEW t \in Tasks, Difficulty!Decide(t)
    PROVE  DifficultyInv'
<1>1. Difficulty!TypeOK /\ Flags /\ Decided /\ InStep
  BY DEF DifficultyInv
<1>2. Difficulty!Effective \in Difficulty!Powers
  BY <1>1, EffectiveIsBound
<1>3. \A p \in Difficulty!Powers : p # Difficulty!None /\ p \in Nat
  BY NoneIsNoPower
<1>5. Flags'
  BY Zenon, <1>1 DEF Flags, Difficulty!Decide
<1>4. Difficulty!TypeOK'
  <2>1. /\ initialized' \in BOOLEAN /\ due' \subseteq Tasks
        /\ UNCHANGED <<pool, byHashrate, chip, now>>
    BY <1>1, <1>5 DEF Difficulty!TypeOK, Flags, Difficulty!Decide
  <2>2. /\ current' \in Difficulty!Powers \cup {Difficulty!None}
        /\ pending' \in Difficulty!Powers \cup {Difficulty!None}
        /\ since' \in 0..MaxTime /\ apply' \in [Tasks -> Difficulty!Powers \cup {Difficulty!None}]
    <3>1. CASE UNCHANGED <<current, pending, since, apply>>
      BY <1>1, <3>1 DEF Difficulty!TypeOK
    <3>2. CASE /\ current' = Difficulty!Effective /\ pending' = Difficulty!None /\ since' = 0
               /\ apply' = [apply EXCEPT ![t] = Difficulty!Effective]
      BY <1>1, <1>2, <3>2 DEF Difficulty!TypeOK, PowersAreSound
    <3>3. CASE pending' = Difficulty!Effective /\ since' = now /\ UNCHANGED <<current, apply>>
      BY <1>1, <1>2, <3>3 DEF Difficulty!TypeOK
    <3>4. CASE /\ pending = Difficulty!Effective /\ current' = pending /\ pending' = Difficulty!None
               /\ since' = 0 /\ apply' = [apply EXCEPT ![t] = pending]
      BY <1>1, <1>2, <3>4 DEF Difficulty!TypeOK, PowersAreSound
    <3> QED
      BY <3>1, <3>2, <3>3, <3>4 DEF Difficulty!Decide
  <2> QED
    BY <1>1, <2>1, <2>2 DEF Difficulty!TypeOK
<1>6. Decided'
  BY <1>1, <1>2, <1>3 DEF Decided, Difficulty!Decide, Difficulty!TypeOK
<1>7. ASSUME initialized', ~overlapped', ~kept' PROVE Sent' /\ Arrived' /\ Fresh'
  <2>1. initialized /\ ~overlapped /\ ~kept /\ \A u \in Tasks : apply[u] = Difficulty!None
    BY Zenon, <1>7 DEF Difficulty!Decide
  <2>2. Sent /\ Arrived /\ Fresh
    BY Zenon, <1>1, <2>1 DEF InStep
  <2> QED
    <3>1. Difficulty!Effective' = Difficulty!Effective
      BY DEF Difficulty!Decide, Difficulty!Effective
    <3> QED
      BY <1>1, <1>2, <1>3, <2>1, <2>2, <3>1 DEF Difficulty!Decide, Sent, Arrived, Fresh,
         Difficulty!TypeOK, Difficulty!Powers, PowersAreSound
<1> QED
  BY Zenon, <1>4, <1>5, <1>6, <1>7 DEF DifficultyInv, InStep

(* The chips get the power that was sent.                                   *)
LEMMA ApplyKeeps ==
    ASSUME PowersAreSound, DifficultyInv, NEW t \in Tasks, Difficulty!Apply(t)
    PROVE  DifficultyInv'
<1>1. Difficulty!TypeOK /\ Flags /\ Decided /\ InStep
  BY DEF DifficultyInv
<1>2. Difficulty!TypeOK'
  BY <1>1 DEF Difficulty!TypeOK, Difficulty!Apply
<1>3. Flags'
  BY Zenon, <1>1 DEF Flags, Difficulty!Apply
<1>4. Decided'
  BY <1>1 DEF Decided, Difficulty!Apply, Difficulty!TypeOK
<1>5. ASSUME initialized', ~overlapped', ~kept' PROVE Sent' /\ Arrived' /\ Fresh'
  <2>1. initialized /\ Sent /\ Arrived /\ Fresh
    BY Zenon, <1>1, <1>5 DEF InStep, Difficulty!Apply
  <2> QED
    BY <1>1, <2>1 DEF Difficulty!Apply, Sent, Arrived, Fresh, Difficulty!TypeOK,
       Difficulty!Effective
<1> QED
  BY Zenon, <1>2, <1>3, <1>4, <1>5 DEF DifficultyInv, InStep

(* A change of the pool or the clock, and new work: an update is due.       *)
LEMMA CallersKeep ==
    ASSUME PowersAreSound, DifficultyInv, NEW t \in Tasks,
           Difficulty!PoolChanges(t) \/ Difficulty!ClockChanges(t) \/ Difficulty!NewWork(t)
    PROVE  DifficultyInv'
<1>1. Difficulty!TypeOK /\ Flags /\ Decided /\ InStep
  BY DEF DifficultyInv
<1>2. /\ due' = due \cup {t} /\ UNCHANGED <<current, pending, since, chip, apply, now>>
      /\ pool' \in Difficulty!Unset..MaxPower /\ byHashrate' \in Difficulty!Powers
  BY <1>1 DEF Difficulty!PoolChanges, Difficulty!ClockChanges, Difficulty!NewWork,
     Difficulty!TypeOK, Difficulty!Unset
<1>3. UNCHANGED <<initialized, overlapped, kept>>
  BY Zenon DEF Difficulty!PoolChanges, Difficulty!ClockChanges, Difficulty!NewWork
<1>4. Difficulty!TypeOK'
  <2>1. initialized' \in BOOLEAN
    BY Zenon, <1>1, <1>3 DEF Difficulty!TypeOK
  <2> QED
    BY <1>1, <1>2, <2>1 DEF Difficulty!TypeOK
<1>5. Flags'
  BY Zenon, <1>1, <1>3 DEF Flags
<1>6. Decided'
  BY <1>1, <1>2 DEF Decided
<1>7. ASSUME initialized', ~overlapped', ~kept' PROVE Sent' /\ Arrived' /\ Fresh'
  <2>1. Sent /\ Arrived
    BY Zenon, <1>1, <1>3, <1>7 DEF InStep
  <2> QED
    BY <1>2, <2>1 DEF Sent, Arrived, Fresh
<1> QED
  BY Zenon, <1>4, <1>5, <1>6, <1>7 DEF DifficultyInv, InStep

(* The chips' initialisation, the power never decided before.               *)
LEMMA InitializeKeeps ==
    ASSUME PowersAreSound, DifficultyInv, NEW t \in Tasks, Difficulty!InitializeChips(t)
    PROVE  DifficultyInv'
<1>1. Difficulty!TypeOK /\ Flags /\ Decided /\ InStep
  BY DEF DifficultyInv
<1>2. /\ due' = due \cup {t} /\ chip' = ResetPower
      /\ UNCHANGED <<current, pending, since, apply, now, pool, byHashrate>>
  BY DEF Difficulty!InitializeChips
<1>3. initialized' = TRUE /\ overlapped' = overlapped /\ kept' = (current # Difficulty!None)
  BY Zenon DEF Difficulty!InitializeChips
<1>4. Difficulty!TypeOK'
  <2>1. initialized' \in BOOLEAN
    BY Zenon, <1>3
  <2> QED
    BY <1>1, <1>2, <2>1 DEF Difficulty!TypeOK, PowersAreSound
<1>5. Flags'
  BY Zenon, <1>1, <1>3 DEF Flags
<1>6. Decided'
  BY <1>1, <1>2 DEF Decided
<1>7. ASSUME ~kept' PROVE Sent' /\ Arrived' /\ Fresh'
  <2>1. current = Difficulty!None
    BY Zenon, <1>3, <1>7
  <2> QED
    BY <1>1, <1>2, <2>1 DEF Sent, Arrived, Fresh, Decided
<1> QED
  BY Zenon, <1>4, <1>5, <1>6, <1>7 DEF DifficultyInv, InStep

(* A new session: the power aimed at is the hashrate's, which is not lower. *)
LEMMA NewSessionKeeps ==
    ASSUME PowersAreSound, DifficultyInv, Difficulty!NewSession
    PROVE  DifficultyInv'
<1>1. Difficulty!TypeOK /\ Flags /\ Decided /\ InStep
  BY DEF DifficultyInv
<1>2. /\ UNCHANGED <<byHashrate, current, pending, since, chip, apply, due, now>>
      /\ pool' = Difficulty!Unset
  BY DEF Difficulty!NewSession
<1>3. UNCHANGED <<initialized, overlapped, kept>>
  BY Zenon DEF Difficulty!NewSession
<1>4. Difficulty!TypeOK'
  <2>1. initialized' \in BOOLEAN
    BY Zenon, <1>1, <1>3 DEF Difficulty!TypeOK
  <2> QED
    BY <1>1, <1>2, <2>1 DEF Difficulty!TypeOK, Difficulty!Unset, PowersAreSound
<1>5. Flags'
  BY Zenon, <1>1, <1>3 DEF Flags
<1>6. Decided'
  BY <1>1, <1>2 DEF Decided
<1>7. Difficulty!Effective <= Difficulty!Effective' /\ Difficulty!Effective' \in Int
  <2>1. Difficulty!Effective' = byHashrate
    BY <1>2 DEF Difficulty!Effective
  <2> QED
    BY <1>1, <2>1, EffectiveIsBound DEF Difficulty!TypeOK, Difficulty!Powers, PowersAreSound
<1>8. ASSUME initialized', ~overlapped', ~kept' PROVE Sent' /\ Arrived' /\ Fresh'
  <2>1. Sent /\ Arrived /\ Fresh
    BY Zenon, <1>1, <1>3, <1>8 DEF InStep
  <2>2. Sent' /\ Arrived'
    BY <1>2, <2>1 DEF Sent, Arrived
  <2>3. ASSUME due = {}
        PROVE  current # Difficulty!None /\ current <= Difficulty!Effective'
    <3>1. current # Difficulty!None /\ current <= Difficulty!Effective
      BY <2>1, <2>3 DEF Fresh
    <3>2. current \in Int /\ Difficulty!Effective \in Int
      BY <1>1, <3>1, EffectiveIsBound DEF Difficulty!TypeOK, Difficulty!Powers, PowersAreSound
    <3> QED
      BY <1>7, <3>1, <3>2
  <2>4. Fresh'
    BY <1>2, <2>3 DEF Fresh
  <2> QED
    BY <2>2, <2>4
<1> QED
  BY Zenon, <1>4, <1>5, <1>6, <1>8 DEF DifficultyInv, InStep

(* Mining stops, and time passes.                                           *)
LEMMA OthersKeep ==
    ASSUME PowersAreSound, DifficultyInv,
           Difficulty!StopChips \/ Difficulty!Tick \/ UNCHANGED Difficulty!vars
    PROVE  DifficultyInv'
<1>1. Difficulty!TypeOK /\ Flags /\ Decided /\ InStep
  BY DEF DifficultyInv
<1>2. /\ UNCHANGED <<current, pending, since, chip, apply, pool, byHashrate, due>>
      /\ now' \in 0..MaxTime
  BY <1>1 DEF Difficulty!StopChips, Difficulty!Tick, Difficulty!vars, Difficulty!TypeOK,
     PowersAreSound
<1>3. UNCHANGED <<overlapped, kept>> /\ initialized' \in {initialized, FALSE}
  BY Zenon DEF Difficulty!StopChips, Difficulty!Tick, Difficulty!vars
<1>4. Difficulty!TypeOK'
  <2>1. initialized' \in BOOLEAN
    BY Zenon, <1>1, <1>3 DEF Difficulty!TypeOK
  <2> QED
    BY <1>1, <1>2, <2>1 DEF Difficulty!TypeOK
<1>5. Flags'
  BY Zenon, <1>1, <1>3, <1>4 DEF Flags, Difficulty!TypeOK
<1>6. Decided'
  BY <1>1, <1>2 DEF Decided
<1>7. ASSUME initialized', ~overlapped', ~kept' PROVE Sent' /\ Arrived' /\ Fresh'
  <2>1. Sent /\ Arrived /\ Fresh
    BY Zenon, <1>1, <1>3, <1>7 DEF InStep
  <2> QED
    BY <1>2, <2>1 DEF Sent, Arrived, Fresh, Difficulty!Effective
<1> QED
  BY Zenon, <1>4, <1>5, <1>6, <1>7 DEF DifficultyInv, InStep

(* Every step keeps the invariant.                                          *)
LEMMA DifficultyKeeps ==
    PowersAreSound /\ DifficultyInv /\ [Difficulty!Next]_(Difficulty!vars) => DifficultyInv'
BY DecideKeeps, ApplyKeeps, CallersKeep, InitializeKeeps, NewSessionKeeps, OthersKeep DEF Difficulty!Next

---------------------------------------------------------------------------
(* The variables of the controller have their types.                        *)
THEOREM ControllerTypes == ASSUME PowersAreSound PROVE Difficulty!Spec => []Difficulty!TypeOK
<1>1. Difficulty!Init => DifficultyInv
  BY DifficultyBegins
<1>2. DifficultyInv /\ [Difficulty!Next]_(Difficulty!vars) => DifficultyInv'
  BY DifficultyKeeps
<1>3. DifficultyInv => Difficulty!TypeOK
  BY DEF DifficultyInv
<1> QED
  BY <1>1, <1>2, <1>3, PTL DEF Difficulty!Spec

(* When no update is due the chips have the power the controller believes  *)
(* in, no higher than the hashrate asks for, nor than the pool's if that is *)
(* within their range; below the range it is their least. Unless two        *)
(* updates overlapped or the chips were initialised again, the power kept.  *)
THEOREM DifficultyFitsAlways ==
    ASSUME PowersAreSound PROVE PartsSpec => []DifficultyFits
<1> DEFINE P == part = "difficulty" => DifficultyInv
<1>1. PartsInit => P
  BY Zenon, DifficultyBegins DEF PartsInit
<1>2. P /\ [PartsNext]_partsVars => P'
  BY Zenon, DifficultyKeeps DEF PartsNext, partsVars
<1>3. DifficultyInv => Difficulty!DifficultyFits
  <2> SUFFICES ASSUME DifficultyInv, Difficulty!Quiet, ~overlapped, ~kept
               PROVE  /\ chip = current /\ chip <= byHashrate
                      /\ pool >= MinPower => chip <= pool
                      /\ pool \in 0..(MinPower - 1) => chip = MinPower
    BY DEF Difficulty!DifficultyFits
  <2>1. Sent /\ Arrived /\ Fresh
    BY Zenon DEF DifficultyInv, InStep, Difficulty!Quiet
  <2>2. Difficulty!TypeOK
    BY DEF DifficultyInv
  <2>3. /\ chip = current /\ current <= Difficulty!Effective
        /\ chip \in Difficulty!Powers
    BY <2>1, <2>2 DEF Arrived, Fresh, Difficulty!Quiet, Difficulty!TypeOK
  <2> QED
    BY <2>2, <2>3, EffectiveIsBound DEF Difficulty!TypeOK, Difficulty!Powers, PowersAreSound
<1>4. P => DifficultyFits
  BY Zenon, <1>3 DEF DifficultyFits
<1> QED
  BY <1>1, <1>2, <1>4, PTL DEF PartsSpec

---------------------------------------------------------------------------
(* The scoreboard: a table with at least one row (MAX_SCOREBOARD = 20).     *)
ScoresAreSound == Size \in Nat \ {0} /\ MaxDifficulty \in Nat

Updates == [slot: Best!Positions, text: Best!Text]

ScoreData ==
    /\ entries \in [Best!Positions -> Best!Entry] /\ queue \in Seq(Updates)
    /\ flash \in [Best!Positions -> Best!Text] /\ turnedAway \in Nat

(* The text a slot will have, as an operator of the queue and the store.    *)
TextOf(q, f, s) ==
    LET updates == {i \in DOMAIN q : q[i].slot = s}
    IN  IF updates = {} THEN f[s]
        ELSE q[CHOOSE i \in updates : \A j \in updates : j <= i].text

ScoreSound(list, q, f, away) ==
    /\ Best!Sorted(list) /\ away <= list[Size].difficulty
    /\ \A i, j \in Best!Positions : list[i].slot = list[j].slot => i = j
    /\ \A i \in Best!Positions :
         list[i].difficulty > 0 => TextOf(q, f, list[i].slot) = list[i].text

ScoreInv == ScoreData /\ ScoreSound(entries, queue, flash, turnedAway)

(* A table has the rows of another, in some order.                          *)
Permutes(u, t) ==
    \E o \in [Best!Positions -> Best!Positions] :
      /\ \A i, j \in Best!Positions : o[i] = o[j] => i = j
      /\ \A i \in Best!Positions : u[i] = t[o[i]]

(* The k-th update of a queue is the last one about a slot; there is none.  *)
IsLast(q, s, k) ==
    k \in DOMAIN q /\ q[k].slot = s /\ \A j \in DOMAIN q : q[j].slot = s => j <= k

HasNone(q, s) == \A j \in DOMAIN q : q[j].slot # s

(* A set of numbers up to n has a greatest one.                             *)
LEMMA GreatestExists ==
    ASSUME NEW n \in Nat, NEW S \in SUBSET (1..n), S # {}
    PROVE  \E k \in S : \A j \in S : j <= k
<1> DEFINE below == {m \in Nat : \E i \in S : m = n - i}
           Less  == OpToRel(<, Nat)
<1>1. PICK i \in S : TRUE
  OBVIOUS
<1>2. below \subseteq Nat /\ below # {}
  <2>1. i \in 1..n /\ n - i \in Nat
    OBVIOUS
  <2>2. n - i \in below
    BY <2>1
  <2> QED
    BY <2>2
<1>3. PICK m \in below : \A l \in below : ~(<<l, m>> \in Less)
  <2>1. IsWellFoundedOn(Less, Nat)
    BY NatLessThanWellFounded
  <2> QED
    BY ONLY <1>2, <2>1, WFMin
<1>4. PICK k \in S : m = n - k
  OBVIOUS
<1>5. ASSUME NEW j \in S PROVE j <= k
  <2>1. SUFFICES ASSUME j > k PROVE FALSE
    OBVIOUS
  <2>2. n - j \in below /\ n - j < m
    BY <1>4, <2>1
  <2>3. <<n - j, m>> \in Less
    BY <2>2 DEF OpToRel
  <2> QED
    BY <1>3, <2>2, <2>3
<1> QED
  BY <1>5

(* The latest update about a slot gives its text.                           *)
LEMMA LastUpdateCounts ==
    ASSUME NEW q \in Seq(Updates), NEW s, NEW k, IsLast(q, s, k)
    PROVE  \A f : TextOf(q, f, s) = q[k].text
<1> DEFINE about == {i \in DOMAIN q : q[i].slot = s}
           latest == CHOOSE i \in about : \A j \in about : j <= i
<1>1. k \in about /\ \A j \in about : j <= k
  BY DEF IsLast
<1>2. latest \in about /\ k <= latest /\ latest <= k
  BY <1>1
<1>3. latest = k
  <2>1. DOMAIN q = 1..Len(q) /\ Len(q) \in Nat
    OBVIOUS
  <2> QED
    BY <1>1, <1>2, <2>1
<1> QED
  BY <1>1, <1>3 DEF TextOf

LEMMA LastUpdateExists ==
    ASSUME NEW q \in Seq(Updates), NEW s
    PROVE  HasNone(q, s) \/ \E k : IsLast(q, s, k)
<1> DEFINE about == {i \in DOMAIN q : q[i].slot = s}
<1>1. CASE about = {}
  BY <1>1 DEF HasNone
<1>2. CASE about # {}
  <2>1. about \in SUBSET (1..Len(q)) /\ Len(q) \in Nat
    OBVIOUS
  <2>2. PICK k \in about : \A j \in about : j <= k
    BY ONLY <1>2, <2>1, GreatestExists
  <2> QED
    BY <2>2 DEF IsLast
<1> QED
  BY <1>1, <1>2

LEMMA NoUpdateCounts ==
    ASSUME NEW q, NEW s, HasNone(q, s)
    PROVE  \A f : TextOf(q, f, s) = f[s]
BY DEF TextOf, HasNone

LEMMA TextAppended ==
    ASSUME NEW q \in Seq(Updates), NEW u \in Updates, NEW f, NEW s
    PROVE  TextOf(Append(q, u), f, s) = IF u.slot = s THEN u.text ELSE TextOf(q, f, s)
<1> DEFINE r == Append(q, u)
<1>1. /\ r \in Seq(Updates) /\ Len(q) \in Nat /\ Len(r) = Len(q) + 1
      /\ DOMAIN r = 1..(Len(q) + 1) /\ DOMAIN q = 1..Len(q) /\ r[Len(q) + 1] = u
      /\ \A i \in 1..Len(q) : r[i] = q[i]
  OBVIOUS
<1> HIDE DEF r
<1>2. CASE u.slot = s
  <2>1. IsLast(r, s, Len(q) + 1)
    BY <1>1, <1>2 DEF IsLast
  <2>2. TextOf(r, f, s) = u.text
    BY <1>1, <2>1, LastUpdateCounts
  <2> QED
    BY <1>2, <2>2 DEF r
<1>3. CASE u.slot # s
  <2>1. CASE HasNone(q, s)
    <3>1. HasNone(r, s)
      <4> SUFFICES ASSUME NEW j \in DOMAIN r PROVE r[j].slot # s
        BY DEF HasNone
      <4>1. CASE j = Len(q) + 1
        BY <1>1, <1>3, <4>1
      <4>2. CASE j # Len(q) + 1
        BY <1>1, <2>1, <4>2 DEF HasNone
      <4> QED
        BY <4>1, <4>2
    <3>2. TextOf(r, f, s) = f[s] /\ TextOf(q, f, s) = f[s]
      BY <2>1, <3>1, NoUpdateCounts
    <3> QED
      BY <1>3, <3>2 DEF r
  <2>2. ASSUME NEW k, IsLast(q, s, k)
        PROVE  TextOf(r, f, s) = TextOf(q, f, s)
    <3>1. k \in DOMAIN r /\ r[k] = q[k] /\ r[k].slot = s
      BY <1>1, <2>2 DEF IsLast
    <3>2. IsLast(r, s, k)
      <4> SUFFICES ASSUME NEW j \in DOMAIN r, r[j].slot = s PROVE j <= k
        BY <3>1 DEF IsLast
      <4>1. j # Len(q) + 1
        BY <1>1, <1>3
      <4>2. j \in DOMAIN q /\ q[j].slot = s
        BY <1>1, <4>1
      <4> QED
        BY <2>2, <4>2 DEF IsLast
    <3>3. TextOf(r, f, s) = r[k].text /\ TextOf(q, f, s) = q[k].text
      BY <1>1, <2>2, <3>2, LastUpdateCounts
    <3> QED
      BY <3>1, <3>3
  <2>3. TextOf(r, f, s) = TextOf(q, f, s)
    BY <2>1, <2>2, <1>3, LastUpdateExists DEF r
  <2> QED
    BY <1>3, <2>3 DEF r
<1> QED
  BY <1>2, <1>3

(* Writing the first update changes no slot's text.                         *)
LEMMA TextSaved ==
    ASSUME NEW q \in Seq(Updates), q # <<>>, NEW f \in [Best!Positions -> Best!Text],
           NEW s \in Best!Positions
    PROVE  TextOf(Tail(q), [f EXCEPT ![Head(q).slot] = Head(q).text], s) = TextOf(q, f, s)
<1> DEFINE r == Tail(q)
           h == Head(q)
           g == [f EXCEPT ![h.slot] = h.text]
<1>1. /\ r \in Seq(Updates) /\ Len(q) \in Nat \ {0} /\ Len(r) = Len(q) - 1
      /\ DOMAIN q = 1..Len(q) /\ DOMAIN r = 1..(Len(q) - 1) /\ h = q[1]
      /\ \A i \in 1..(Len(q) - 1) : r[i] = q[i + 1]
  OBVIOUS
<1>2. g[s] = IF s = h.slot THEN h.text ELSE f[s]
  OBVIOUS
<1> HIDE DEF r, h, g
<1>3. CASE HasNone(q, s)
  <2>1. h.slot # s
    BY <1>1, <1>3 DEF HasNone
  <2>2. HasNone(r, s)
    <3> SUFFICES ASSUME NEW j \in DOMAIN r PROVE r[j].slot # s
      BY DEF HasNone
    <3>1. j + 1 \in DOMAIN q /\ q[j + 1] = r[j]
      BY <1>1
    <3> QED
      BY <1>3, <3>1 DEF HasNone
  <2>3. TextOf(r, g, s) = g[s] /\ TextOf(q, f, s) = f[s]
    BY <1>3, <2>2, NoUpdateCounts
  <2> QED
    BY <1>2, <2>1, <2>3 DEF r, h, g
<1>4. ASSUME NEW k, IsLast(q, s, k)
      PROVE  TextOf(r, g, s) = TextOf(q, f, s)
  <2>1. TextOf(q, f, s) = q[k].text
    BY <1>4, LastUpdateCounts
  <2>2. k \in DOMAIN q /\ q[k].slot = s
    BY <1>4 DEF IsLast
  <2>3. CASE k = 1
    <3>1. HasNone(r, s)
      <4> SUFFICES ASSUME NEW j \in DOMAIN r, r[j].slot = s PROVE FALSE
        BY DEF HasNone
      <4>1. j + 1 \in DOMAIN q /\ q[j + 1].slot = s /\ ~(j + 1 <= 1)
        BY <1>1
      <4> QED
        BY <1>4, <2>3, <4>1 DEF IsLast
    <3>2. TextOf(r, g, s) = g[s]
      BY <3>1, NoUpdateCounts
    <3> QED
      BY <1>1, <1>2, <2>1, <2>2, <2>3, <3>2
  <2>4. CASE k # 1
    <3>1. k - 1 \in DOMAIN r /\ r[k - 1] = q[k]
      BY <1>1, <2>2, <2>4
    <3>2. IsLast(r, s, k - 1)
      <4> SUFFICES ASSUME NEW j \in DOMAIN r, r[j].slot = s PROVE j <= k - 1
        BY <2>2, <3>1 DEF IsLast
      <4>1. j + 1 \in DOMAIN q /\ q[j + 1].slot = s
        BY <1>1
      <4>2. j + 1 <= k
        BY <1>4, <4>1 DEF IsLast
      <4> QED
        BY <1>1, <2>2, <4>2
    <3>3. TextOf(r, g, s) = r[k - 1].text
      BY <1>1, <3>2, LastUpdateCounts
    <3> QED
      BY <2>1, <3>1, <3>3
  <2> QED
    BY <2>3, <2>4
<1>5. HasNone(q, s) \/ \E k : IsLast(q, s, k)
  BY LastUpdateExists
<1> QED
  BY <1>3, <1>4, <1>5 DEF r, h, g

(* A sorted table has its smallest difficulty in the last row.              *)
LEMMA LastIsSmallest ==
    ASSUME ScoresAreSound, NEW t \in [Best!Positions -> Best!Entry], Best!Sorted(t),
           NEW i \in Best!Positions
    PROVE  t[i].difficulty >= t[Size].difficulty
<1> SUFFICES ASSUME t[i].difficulty < t[Size].difficulty PROVE FALSE
  <2>1. Size \in Best!Positions
    BY DEF ScoresAreSound, Best!Positions
  <2>2. t[i].difficulty \in Nat /\ t[Size].difficulty \in Nat
    BY <2>1 DEF Best!Entry
  <2> QED
    BY <2>2
<1> DEFINE smaller == {k \in 1..Size : t[k].difficulty < t[Size].difficulty}
<1>1. i \in smaller /\ smaller \in SUBSET (1..Size) /\ Size \in Nat
  BY DEF Best!Positions, ScoresAreSound
<1>2. PICK k \in smaller : \A j \in smaller : j <= k
  <2>1. smaller # {}
    BY <1>1
  <2> QED
    BY ONLY <1>1, <2>1, GreatestExists
<1>3. t[Size].difficulty \in Nat /\ t[k].difficulty \in Nat /\ k # Size
  BY <1>1 DEF Best!Entry, Best!Positions, ScoresAreSound
<1>4. k \in 1..(Size - 1) /\ k + 1 \in 1..Size /\ t[k + 1].difficulty \in Nat
  BY <1>1, <1>3 DEF Best!Entry, Best!Positions
<1>5. t[k].difficulty >= t[k + 1].difficulty
  BY <1>4 DEF Best!Sorted
<1>6. k + 1 \in smaller
  BY <1>3, <1>4, <1>5
<1> QED
  BY <1>2, <1>4, <1>6

(* A sorting permutes the rows.                                             *)
LEMMA SortingPermutes ==
    ASSUME NEW t \in [Best!Positions -> Best!Entry], NEW u \in Best!Sortings(t)
    PROVE  u \in [Best!Positions -> Best!Entry] /\ Best!Sorted(u) /\ Permutes(u, t)
<1>1. PICK o \in [Best!Positions -> Best!Positions] :
            /\ \A i, j \in Best!Positions : o[i] = o[j] => i = j
            /\ Best!Sorted([i \in Best!Positions |-> t[o[i]]])
            /\ u = [i \in Best!Positions |-> t[o[i]]]
  BY DEF Best!Sortings
<1> QED
  BY <1>1 DEF Permutes

LEMMA RoundedType == ASSUME NEW d \in Nat PROVE Best!Rounded(d) \in Nat
BY DEF Best!Rounded

LEMMA ScoreBegins == ASSUME ScoresAreSound, Best!Init PROVE ScoreInv
<1> USE DEF Best!Init
<1>1. /\ queue \in Seq(Updates) /\ Best!Nothing \in Best!Text
      /\ entries \in [Best!Positions -> Best!Entry]
      /\ flash \in [Best!Positions -> Best!Text] /\ turnedAway \in Nat
      /\ \A i \in Best!Positions : entries[i].difficulty = 0 /\ entries[i].slot = i
  BY DEF Best!Nothing, Best!Text, Best!Entry, Best!Empty
<1>2. Best!Sorted(entries) /\ turnedAway <= entries[Size].difficulty
  BY <1>1 DEF Best!Sorted, Best!Positions, ScoresAreSound
<1> QED
  BY <1>1, <1>2 DEF ScoreInv, ScoreData, ScoreSound

(* A share is turned away.                                                  *)
LEMMA TurnAwayKeeps ==
    ASSUME ScoresAreSound, ScoreInv, NEW d \in Nat, d <= entries[Size].difficulty,
           turnedAway' = Best!Larger(turnedAway, d), UNCHANGED <<entries, queue, flash>>
    PROVE  ScoreInv'
<1>1. turnedAway \in Nat /\ turnedAway <= entries[Size].difficulty
  BY DEF ScoreInv, ScoreData, ScoreSound
<1>2. turnedAway' \in Nat /\ turnedAway' <= entries[Size].difficulty
  BY <1>1 DEF Best!Larger
<1>3. ScoreData'
  BY <1>2 DEF ScoreInv, ScoreData
<1>4. ScoreSound(entries, queue, flash, turnedAway')
  BY <1>2 DEF ScoreInv, ScoreSound
<1> QED
  BY <1>3, <1>4 DEF ScoreInv

(* A share takes the row and the slot of the smallest one.                  *)
LEMMA InsertKeeps ==
    ASSUME ScoresAreSound, ScoreInv, NEW d \in Nat, ~(d <= entries[Size].difficulty),
           NEW text \in Best!Text,
           entries' \in Best!Sortings([entries EXCEPT ![Size] =
                          [difficulty |-> d, text |-> text, slot |-> entries[Size].slot]]),
           queue' = Append(queue, [slot |-> entries[Size].slot, text |-> text]),
           turnedAway' = Best!Larger(turnedAway, entries[Size].difficulty),
           UNCHANGED flash
    PROVE  ScoreInv'
<1> DEFINE new == [difficulty |-> d, text |-> text, slot |-> entries[Size].slot]
           update == [slot |-> entries[Size].slot, text |-> text]
           list == [entries EXCEPT ![Size] = new]
<1>1. /\ entries \in [Best!Positions -> Best!Entry] /\ queue \in Seq(Updates)
      /\ flash \in [Best!Positions -> Best!Text] /\ turnedAway \in Nat
      /\ Best!Sorted(entries) /\ turnedAway <= entries[Size].difficulty
      /\ \A i, j \in Best!Positions : entries[i].slot = entries[j].slot => i = j
      /\ \A i \in Best!Positions : entries[i].difficulty > 0 =>
            TextOf(queue, flash, entries[i].slot) = entries[i].text
  BY DEF ScoreInv, ScoreData, ScoreSound
<1>2. Size \in Best!Positions
  BY DEF ScoresAreSound, Best!Positions
<1>3. /\ new \in Best!Entry /\ update \in Updates /\ list \in [Best!Positions -> Best!Entry]
      /\ list[Size] = new /\ new.difficulty = d /\ new.text = text
      /\ new.slot = entries[Size].slot /\ update.slot = new.slot /\ update.text = text
      /\ \A i \in Best!Positions : i # Size => list[i] = entries[i]
  BY <1>1, <1>2 DEF Best!Entry, Updates
<1>4. entries' \in Best!Sortings(list) /\ queue' = Append(queue, update)
  OBVIOUS
<1> HIDE DEF new, update, list
<1>5. PICK o \in [Best!Positions -> Best!Positions] :
            /\ \A i, j \in Best!Positions : o[i] = o[j] => i = j
            /\ \A i \in Best!Positions : entries'[i] = list[o[i]]
  <2>1. Permutes(entries', list)
    BY <1>3, <1>4, SortingPermutes
  <2> QED
    BY <2>1 DEF Permutes
<1>6. entries' \in [Best!Positions -> Best!Entry] /\ Best!Sorted(entries')
  BY <1>3, <1>4, SortingPermutes
<1>7. \A i \in Best!Positions : list[i].slot = entries[i].slot
  BY <1>3
<1>8. turnedAway' \in Nat /\ turnedAway' <= entries'[Size].difficulty
  <2>1. entries[Size].difficulty \in Nat /\ turnedAway' = entries[Size].difficulty
    BY <1>1, <1>2 DEF Best!Larger, Best!Entry
  <2>2. CASE o[Size] = Size
    BY <1>2, <1>3, <1>5, <2>1, <2>2
  <2>3. CASE o[Size] # Size
    <3>1. o[Size] \in Best!Positions /\ entries'[Size] = entries[o[Size]]
      BY <1>2, <1>3, <1>5, <2>3
    <3>2. entries[o[Size]].difficulty >= entries[Size].difficulty
      BY <1>1, <3>1, LastIsSmallest
    <3>3. entries[o[Size]].difficulty \in Nat
      BY <1>1, <3>1 DEF Best!Entry
    <3> QED
      BY <2>1, <3>1, <3>2, <3>3
  <2> QED
    BY <2>2, <2>3
<1>9. \A i, j \in Best!Positions : entries'[i].slot = entries'[j].slot => i = j
  <2> SUFFICES ASSUME NEW i \in Best!Positions, NEW j \in Best!Positions,
                      entries'[i].slot = entries'[j].slot
               PROVE  i = j
    OBVIOUS
  <2>1. entries[o[i]].slot = entries[o[j]].slot /\ o[i] \in Best!Positions
        /\ o[j] \in Best!Positions
    BY <1>5, <1>7
  <2> QED
    BY <1>1, <1>5, <2>1
<1>10. ASSUME NEW i \in Best!Positions, entries'[i].difficulty > 0
       PROVE  TextOf(queue', flash', entries'[i].slot) = entries'[i].text
  <2>1. /\ o[i] \in Best!Positions /\ entries'[i] = list[o[i]]
        /\ entries'[i].slot = entries[o[i]].slot
    BY <1>5, <1>7
  <2>2. TextOf(queue', flash', entries'[i].slot)
          = IF update.slot = entries'[i].slot THEN update.text
            ELSE TextOf(queue, flash, entries'[i].slot)
    BY <1>1, <1>3, <1>4, TextAppended
  <2>3. CASE o[i] = Size
    BY <1>3, <2>1, <2>2, <2>3
  <2>4. CASE o[i] # Size
    <3>1. entries'[i] = entries[o[i]] /\ entries'[i].slot # update.slot
      BY <1>1, <1>2, <1>3, <2>1, <2>4
    <3> QED
      BY <1>1, <1>10, <2>1, <2>2, <3>1
  <2> QED
    BY <2>3, <2>4
<1>11. queue' \in Seq(Updates)
  BY <1>1, <1>3, <1>4
<1>12. ScoreData'
  BY <1>1, <1>6, <1>8, <1>11 DEF ScoreData
<1>13. ScoreSound(entries', queue', flash', turnedAway')
  BY <1>6, <1>8, <1>9, <1>10 DEF ScoreSound
<1> QED
  BY <1>12, <1>13 DEF ScoreInv

LEMMA SaveKeeps == ASSUME ScoresAreSound, ScoreInv, Best!Save PROVE ScoreInv'
<1>1. /\ queue # <<>> /\ queue' = Tail(queue) /\ UNCHANGED <<entries, turnedAway>>
      /\ flash' = [flash EXCEPT ![Head(queue).slot] = Head(queue).text]
  BY DEF Best!Save
<1>2. /\ entries \in [Best!Positions -> Best!Entry] /\ queue \in Seq(Updates)
      /\ flash \in [Best!Positions -> Best!Text]
  BY DEF ScoreInv, ScoreData
<1>3. \A s \in Best!Positions : TextOf(queue', flash', s) = TextOf(queue, flash, s)
  BY <1>1, <1>2, TextSaved
<1>4. Head(queue) \in Updates /\ Tail(queue) \in Seq(Updates)
  BY <1>1, <1>2
<1>5. ScoreData'
  BY <1>1, <1>4 DEF ScoreInv, ScoreData, Updates
<1>6. \A i \in Best!Positions : entries[i].slot \in Best!Positions
  BY <1>2 DEF Best!Entry
<1>7. ScoreSound(entries, queue', flash', turnedAway)
  BY <1>3, <1>6 DEF ScoreInv, ScoreSound
<1> QED
  BY <1>1, <1>5, <1>7 DEF ScoreInv

LEMMA ScoreRestartKeeps == ASSUME ScoresAreSound, ScoreInv, Best!Restart PROVE ScoreInv'
<1> DEFINE list == [i \in Best!Positions |-> Best!Parsed(i)]
<1>1. flash \in [Best!Positions -> Best!Text]
  BY DEF ScoreInv, ScoreData
<1>2. /\ entries' \in Best!Sortings(list) /\ queue' = <<>> /\ turnedAway' = 0
      /\ flash' = flash
  BY DEF Best!Restart
<1>3. /\ list \in [Best!Positions -> Best!Entry]
      /\ \A i \in Best!Positions : /\ list[i].slot = i
                                   /\ list[i].difficulty > 0 => list[i].text = flash[i]
  BY <1>1 DEF Best!Parsed, Best!Empty, Best!Entry, Best!Text, Best!Nothing
<1> HIDE DEF list
<1>4. PICK o \in [Best!Positions -> Best!Positions] :
            /\ \A i, j \in Best!Positions : o[i] = o[j] => i = j
            /\ \A i \in Best!Positions : entries'[i] = list[o[i]]
  <2>1. Permutes(entries', list)
    BY <1>2, <1>3, SortingPermutes
  <2> QED
    BY <2>1 DEF Permutes
<1>5. entries' \in [Best!Positions -> Best!Entry] /\ Best!Sorted(entries')
  BY <1>2, <1>3, SortingPermutes
<1>6. turnedAway' <= entries'[Size].difficulty
  <2>1. entries'[Size].difficulty \in Nat
    BY <1>5 DEF Best!Entry, Best!Positions, ScoresAreSound
  <2> QED
    BY <1>2, <2>1
<1>7. \A i, j \in Best!Positions : entries'[i].slot = entries'[j].slot => i = j
  BY <1>3, <1>4
<1>8. ASSUME NEW i \in Best!Positions, entries'[i].difficulty > 0
      PROVE  TextOf(queue', flash', entries'[i].slot) = entries'[i].text
  <2>1. HasNone(queue', entries'[i].slot)
    BY <1>2 DEF HasNone
  <2>2. TextOf(queue', flash', entries'[i].slot) = flash'[entries'[i].slot]
    BY <2>1, NoUpdateCounts
  <2> QED
    BY <1>2, <1>3, <1>4, <1>8, <2>2
<1>9. ScoreData'
  BY <1>1, <1>2, <1>5 DEF ScoreData
<1>10. ScoreSound(entries', queue', flash', turnedAway')
  BY <1>5, <1>6, <1>7, <1>8 DEF ScoreSound
<1> QED
  BY <1>9, <1>10 DEF ScoreInv

LEMMA ScoreKeeps == ScoresAreSound /\ ScoreInv /\ [Best!Next]_(Best!vars) => ScoreInv'
<1> SUFFICES ASSUME ScoresAreSound, ScoreInv, [Best!Next]_(Best!vars) PROVE ScoreInv'
  OBVIOUS
<1>1. ASSUME NEW d \in Best!Difficulties, NEW e \in BOOLEAN, Best!Add(d, e) PROVE ScoreInv'
  <2> DEFINE text == [difficulty |-> Best!Rounded(d), hasExtranonce2 |-> e]
  <2>1. d \in Nat /\ text \in Best!Text
    BY RoundedType DEF Best!Difficulties, Best!Text, ScoresAreSound
  <2>2. CASE d <= entries[Size].difficulty
    BY <1>1, <2>1, <2>2, TurnAwayKeeps DEF Best!Add
  <2>3. CASE ~(d <= entries[Size].difficulty)
    <3>1. /\ turnedAway' = Best!Larger(turnedAway, entries[Size].difficulty)
          /\ entries' \in Best!Sortings([entries EXCEPT ![Size] =
                [difficulty |-> d, text |-> text, slot |-> entries[Size].slot]])
          /\ queue' = Append(queue, [slot |-> entries[Size].slot, text |-> text])
          /\ UNCHANGED flash
      BY <1>1, <2>3 DEF Best!Add, Best!SlotOfNew
    <3> HIDE DEF text
    <3> QED
      BY <2>1, <2>3, <3>1, InsertKeeps
  <2> QED
    BY <2>2, <2>3
<1>2. CASE UNCHANGED Best!vars
  BY <1>2 DEF Best!vars, ScoreInv, ScoreData
<1> QED
  BY <1>1, <1>2, SaveKeeps, ScoreRestartKeeps DEF Best!Next

(* The data of the scoreboard has its types.                                *)
THEOREM ScoreTypes == ASSUME ScoresAreSound PROVE Best!Spec => []Best!TypeOK
<1>1. Best!Init => ScoreInv
  BY ScoreBegins
<1>2. ScoreInv /\ [Best!Next]_(Best!vars) => ScoreInv'
  BY ScoreKeeps
<1>3. ScoreInv => Best!TypeOK
  <2> SUFFICES ASSUME ScoreInv PROVE Best!TypeOK
    OBVIOUS
  <2>1. \A i \in DOMAIN queue : queue[i] \in Updates
    BY DEF ScoreInv, ScoreData
  <2> QED
    BY <2>1 DEF ScoreInv, ScoreData, Best!TypeOK, Updates
<1> QED
  BY <1>1, <1>2, <1>3, PTL DEF Best!Spec

(* The table lists the best shares since the restart in order, and each of  *)
(* them is, or will be, saved in a slot that no other one has.              *)
THEOREM BestAreListedAndSavedAlways ==
    ASSUME ScoresAreSound PROVE PartsSpec => []BestAreListedAndSaved
<1> DEFINE P == part = "scoreboard" => ScoreInv
<1>1. PartsInit => P
  BY Zenon, ScoreBegins DEF PartsInit
<1>2. P /\ [PartsNext]_partsVars => P'
  BY Zenon, ScoreKeeps DEF PartsNext, partsVars
<1>3. ScoreInv => Best!BestAreListedAndSaved
  BY DEF ScoreInv, ScoreSound, TextOf, Best!BestAreListedAndSaved, Best!Written
<1>4. P => BestAreListedAndSaved
  BY Zenon, <1>3 DEF BestAreListedAndSaved
<1> QED
  BY <1>1, <1>2, <1>4, PTL DEF PartsSpec

---------------------------------------------------------------------------
(* The screen: times are numbers of updates.                                *)
TimesAreSound ==
    /\ LogoTime \in Nat /\ CarouselTime \in Nat /\ WakeTime \in Nat
    /\ DisplayTimeout \in Nat /\ IdentifyTime \in Nat

Screens == 0..12
Panels == [current: Screens, time: Nat, delay: Nat, deleted: SUBSET Display!Logos, inactive: Nat]

PanelFits(p) == p \in Panels /\ p.current \notin p.deleted

(* Only the statistics stay longer than their time.                         *)
PanelSound(p) == PanelFits(p) /\ (p.time <= p.delay \/ p.current = Display!Stats)

(* The panel shows what is important; a change of the status was shown, or  *)
(* something more important is.                                             *)
Shown ==
    /\ Display!Important = Display!Connection => "status changed" \notin reports
    /\ Display!Important # Display!Nowhere => panel.current = Display!Important

ScreenInv ==
    /\ PanelSound(panel) /\ identify \in Nat /\ quiet \in 0..2
    /\ quiet # 0 => Shown
    /\ Display!ScreenIsRight

LEMMA ImportantType ==
    Display!Important \in {0, 1, 2, 3, 4, 5, 12} /\ Display!Important' \in {0, 1, 2, 3, 4, 5, 12}
BY DEF Display!Important, Display!SelfTest, Display!Firmware, Display!AsicStatus,
   Display!Overheat, Display!Welcome, Display!Connection, Display!Nowhere

(* Another screen is shown from the start; the one that is shown stays.     *)
LEMMA ShowFits ==
    ASSUME TimesAreSound, NEW p, PanelFits(p), NEW s \in Screens, s \notin p.deleted
    PROVE  LET q == Display!Show(p, s)
           IN  /\ PanelFits(q) /\ q.current = s /\ q.inactive \in {0, p.inactive}
               /\ p.current # s => q.time = 0
               /\ p.current = s => q.time = p.time /\ q.delay = p.delay
<1> DEFINE onScreen == IF s < Display!CarouselStart THEN [p EXCEPT !.inactive = 0] ELSE p
<1>1. /\ onScreen \in Panels /\ onScreen.current = p.current /\ onScreen.time = p.time
      /\ onScreen.delay = p.delay /\ onScreen.deleted = p.deleted /\ onScreen.inactive \in {0, p.inactive}
  BY DEF PanelFits, Panels
<1>2. CASE s = p.current
  <2>1. Display!Show(p, s) = onScreen
    BY <1>2 DEF Display!Show
  <2> HIDE DEF onScreen
  <2> QED
    BY <1>1, <1>2, <2>1 DEF PanelFits
<1>3. CASE s # p.current
  <2> DEFINE gone == IF large /\ s = Display!Stats THEN p.deleted
                     ELSE p.deleted \union ({p.current} \intersect Display!Logos)
             next == [onScreen EXCEPT !.current = s, !.time = 0, !.delay = Display!Delay(s),
                                  !.deleted = gone]
  <2>1. Display!Show(p, s) = next
    BY <1>1, <1>3 DEF Display!Show
  <2>2. gone \in SUBSET Display!Logos /\ s \notin gone
    BY <1>3 DEF PanelFits, Panels
  <2>3. Display!Delay(s) \in Nat
    BY DEF TimesAreSound, Display!Delay
  <2> HIDE DEF gone, onScreen
  <2>4. /\ next \in Panels /\ next.current = s /\ next.time = 0
        /\ next.delay = Display!Delay(s) /\ next.deleted = gone /\ next.inactive = onScreen.inactive
    BY <1>1, <2>2, <2>3 DEF Panels
  <2> HIDE DEF next
  <2> QED
    BY <1>1, <1>3, <2>1, <2>2, <2>3, <2>4 DEF PanelFits
<1> QED
  BY <1>2, <1>3

(* The next screen is another one, which is still there.                    *)
LEMMA NextIsThere ==
    ASSUME NEW p, PanelFits(p)
    PROVE  /\ Display!NextScreen(p) \in Screens /\ Display!NextScreen(p) \notin p.deleted
           /\ large => Display!NextScreen(p) = Display!Stats
           /\ ~large => Display!NextScreen(p) # p.current
<1> USE DEF Display!Stats, Display!Nowhere, Display!SelfTest, Display!Wifi, Display!Urls,
           Display!Logos, Display!BitaxeLogo, Display!OsmuLogo, Display!CarouselStart
<1>1. p.current \in 0..12 /\ p.deleted \subseteq {6, 7}
  BY DEF PanelFits, Panels, Screens
<1>2. CASE large \/ p.current \in {11, 12}
  BY <1>1, <1>2 DEF Display!NextScreen, Screens
<1>3. CASE ~large /\ p.current \notin {11, 12}
  <2> DEFINE c == p.current
             There(s) == /\ s \in (c + 1)..11 /\ s \notin p.deleted
                         /\ \A t \in (c + 1)..(s - 1) : t \in p.deleted
  <2>1. \E s : There(s)
    <3>1. CASE c + 1 \notin p.deleted
      <4>1. There(c + 1)
        BY <1>1, <1>3, <3>1
      <4> QED
        BY <4>1
    <3>2. CASE c + 1 \in p.deleted /\ c + 2 \notin p.deleted
      <4>1. There(c + 2)
        BY <1>1, <1>3, <3>2
      <4> QED
        BY <4>1
    <3>3. CASE c + 1 \in p.deleted /\ c + 2 \in p.deleted
      <4>1. There(c + 3)
        BY <1>1, <1>3, <3>3
      <4> QED
        BY <4>1
    <3> QED
      BY <3>1, <3>2, <3>3
  <2>2. Display!NextScreen(p) = CHOOSE s \in (c + 1)..11 :
                                  s \notin p.deleted /\ \A t \in (c + 1)..(s - 1) : t \in p.deleted
    BY <1>3 DEF Display!NextScreen
  <2>3. There(Display!NextScreen(p))
    BY <2>1, <2>2
  <2> QED
    BY <1>1, <1>3, <2>3 DEF Screens
<1> QED
  BY <1>2, <1>3

(* An update shows what is important, and then what the carousel has next.  *)
LEMMA UpdatedIsSound ==
    ASSUME TimesAreSound, NEW p, PanelSound(p)
    PROVE  LET q == Display!Updated(p)
           IN  /\ PanelSound(q) /\ q.inactive \in {0, p.inactive}
               /\ Display!Important # Display!Nowhere => q.current = Display!Important
               /\ Display!Important = Display!Nowhere /\ (large \/ "new block" \in reports)
                    => q.current = Display!Stats
               /\ q.current # p.current => q.time = 0
               /\ ~large /\ "new block" \notin reports => q.time <= q.delay
<1> USE DEF Display!Nowhere, Display!Stats
<1> DEFINE older == [p EXCEPT !.time = IF @ > p.delay THEN @ ELSE @ + 1]
           q == Display!Updated(p)
           important == Display!Important
           block == "new block" \in reports
<1>1. PanelFits(p) /\ p \in Panels /\ (p.time <= p.delay \/ p.current = 9)
  BY DEF PanelSound, PanelFits
<1>2. /\ PanelFits(older) /\ older \in Panels /\ older.current = p.current
      /\ older.inactive = p.inactive /\ older.deleted = p.deleted /\ older.delay = p.delay
  BY <1>1 DEF PanelFits, Panels
<1>3. q = IF important # 12 THEN Display!Show(p, important)
          ELSE IF large THEN Display!Show(older, 9)
          ELSE IF block THEN [Display!Show(older, 9) EXCEPT !.inactive = 0]
          ELSE IF older.time <= older.delay THEN older
          ELSE Display!Show(older, Display!NextScreen(older))
  BY DEF Display!Updated
<1>4. important \in {0, 1, 2, 3, 4, 5, 12}
  BY ImportantType
<1> HIDE DEF older, q, important, block
<1>5. CASE important # 12
  <2>1. important \in Screens /\ important \notin p.deleted /\ important # 9
    BY <1>1, <1>4, <1>5 DEF Screens, Panels, Display!Logos, Display!BitaxeLogo,
       Display!OsmuLogo
  <2>2. q = Display!Show(p, important)
    BY <1>3, <1>5
  <2>3. /\ PanelFits(q) /\ q.current = important /\ q.inactive \in {0, p.inactive}
        /\ p.current # important => q.time = 0
        /\ p.current = important => q.time = p.time /\ q.delay = p.delay
    BY <1>1, <2>1, <2>2, ShowFits
  <2>4. q.time <= q.delay
    BY <1>1, <2>1, <2>3 DEF PanelFits, Panels
  <2> QED
    BY <1>5, <2>3, <2>4 DEF PanelSound, q, important
<1>6. CASE important = 12 /\ (large \/ block)
  <2> DEFINE onScreen == Display!Show(older, 9)
  <2>1. 9 \in Screens /\ 9 \notin older.deleted
    BY <1>2 DEF Screens, Panels, Display!Logos, Display!BitaxeLogo, Display!OsmuLogo
  <2>2. /\ PanelFits(onScreen) /\ onScreen.current = 9 /\ onScreen.inactive \in {0, p.inactive}
        /\ older.current # 9 => onScreen.time = 0
    BY <1>2, <2>1, ShowFits
  <2>3. q = onScreen \/ q = [onScreen EXCEPT !.inactive = 0]
    BY <1>3, <1>6
  <2> HIDE DEF onScreen
  <2>4. /\ PanelFits(q) /\ q.current = 9 /\ q.inactive \in {0, p.inactive}
        /\ q.time = onScreen.time
    BY <2>2, <2>3 DEF PanelFits, Panels
  <2> QED
    BY <1>2, <1>6, <2>2, <2>4 DEF PanelSound, q, important, block
<1>7. CASE important = 12 /\ ~large /\ ~block
  <2>1. CASE older.time <= older.delay
    <3>1. q = older
      BY <1>3, <1>7, <2>1
    <3> QED
      BY <1>2, <1>7, <2>1, <3>1 DEF PanelSound, q, important, block
  <2>2. CASE ~(older.time <= older.delay)
    <3> DEFINE next == Display!NextScreen(older)
    <3>1. next \in Screens /\ next \notin older.deleted /\ next # older.current
      BY <1>2, <1>7, NextIsThere
    <3>2. q = Display!Show(older, next)
      BY <1>3, <1>7, <2>2
    <3> HIDE DEF next
    <3>3. PanelFits(q) /\ q.inactive \in {0, p.inactive} /\ q.time = 0
      BY <1>2, <3>1, <3>2, ShowFits
    <3>4. q.time <= q.delay
      BY <3>3 DEF PanelFits, Panels
    <3> QED
      BY <1>7, <3>3, <3>4 DEF PanelSound, q, important, block
  <2> QED
    BY <2>1, <2>2
<1> QED
  BY <1>5, <1>6, <1>7

LEMMA ScreenBegins == ASSUME TimesAreSound, Display!Init PROVE ScreenInv
<1>1. /\ panel = [current |-> 12, time |-> 0, delay |-> 0, deleted |-> {}, inactive |-> 0]
      /\ identify = 0 /\ quiet = 0
  BY DEF Display!Init, Display!Nowhere
<1>2. PanelSound(panel)
  BY <1>1 DEF PanelSound, PanelFits, Panels, Screens
<1>3. Display!ScreenIsRight
  BY <1>1 DEF Display!ScreenIsRight
<1> QED
  BY <1>1, <1>2, <1>3 DEF ScreenInv

(* The first two properties are about the screen after two updates.         *)
LEMMA UnquietKeeps ==
    ASSUME quiet' = 0, PanelSound(panel'), identify' \in Nat
    PROVE  ScreenInv'
<1>1. Display!ScreenIsRight'
  BY DEF Display!ScreenIsRight, PanelSound, PanelFits
<1> QED
  BY <1>1 DEF ScreenInv

LEMMA PressKeeps == ASSUME TimesAreSound, ScreenInv, Display!Press PROVE ScreenInv'
<1> DEFINE next == Display!NextScreen(panel)
           q == Display!Show(panel, next)
<1>1. PanelSound(panel) /\ PanelFits(panel) /\ identify \in Nat
  BY DEF ScreenInv, PanelSound
<1>2. /\ next \in Screens /\ next \notin panel.deleted
      /\ large => next = Display!Stats
      /\ ~large => next # panel.current
  BY <1>1, NextIsThere
<1>3. /\ quiet' = 0
      /\ \/ identify' = 0 /\ panel' = [panel EXCEPT !.inactive = 0]
         \/ panel' = [q EXCEPT !.inactive = 0] /\ identify' = identify
  BY DEF Display!Press
<1> HIDE DEF next
<1>4. /\ PanelFits(q) /\ q.current = next
      /\ panel.current # next => q.time = 0
      /\ panel.current = next => q.time = panel.time /\ q.delay = panel.delay
  BY <1>1, <1>2, ShowFits
<1> HIDE DEF q
<1>5. PanelSound(q)
  BY <1>1, <1>2, <1>4 DEF PanelSound, PanelFits, Panels
<1>6. PanelSound(panel')
  BY <1>1, <1>3, <1>5 DEF PanelSound, PanelFits, Panels
<1> QED
  BY <1>1, <1>3, <1>6, UnquietKeeps

LEMMA OthersKeepScreen ==
    ASSUME TimesAreSound, ScreenInv, Display!Identify \/ Display!Change
    PROVE  ScreenInv'
<1>1. quiet' = 0 /\ panel' = panel
  BY DEF Display!Identify, Display!Change
<1>2. identify' \in Nat
  BY DEF Display!Identify, Display!Change, ScreenInv, TimesAreSound
<1> QED
  BY <1>1, <1>2, UnquietKeeps DEF ScreenInv

(* The numbers of what is more important than the connection are not its.   *)
LEMMA NoneIsFive == 0 # 5 /\ 1 # 5 /\ 2 # 5 /\ 3 # 5 /\ 4 # 5
OBVIOUS

(* Showing a change of the status forgets it, and nothing else.             *)
LEMMA ShownIsForgotten ==
    ASSUME Display!Important = Display!Connection, reports' = reports \ {"status changed"}
    PROVE  Display!Important' \in {Display!Connection, Display!Nowhere}
<1> USE DEF Display!SelfTest, Display!Firmware, Display!AsicStatus, Display!Overheat,
           Display!Welcome, Display!Connection, Display!Nowhere
<1>1. 0 # 5 /\ 1 # 5 /\ 2 # 5 /\ 3 # 5 /\ 4 # 5
  BY NoneIsFive
<1>2. "self test" \notin reports
  BY Zenon, <1>1 DEF Display!Important
<1>3. "firmware update" \notin reports
  BY Zenon, <1>1, <1>2 DEF Display!Important
<1>4. "asic status" \notin reports
  BY Zenon, <1>1, <1>2, <1>3 DEF Display!Important
<1>5. "overheat" \notin reports
  BY Zenon, <1>1, <1>2, <1>3, <1>4 DEF Display!Important
<1>6. "no ssid" \notin reports
  BY Zenon, <1>1, <1>2, <1>3, <1>4, <1>5 DEF Display!Important
<1>7. /\ "self test" \notin reports' /\ "firmware update" \notin reports'
      /\ "asic status" \notin reports' /\ "overheat" \notin reports'
      /\ "no ssid" \notin reports'
  BY <1>2, <1>3, <1>4, <1>5, <1>6
<1> QED
  BY Zenon, <1>7 DEF Display!Important

(* The display after an update follows its setting.                         *)
LEMMA DisplayFollowsSetting ==
    ASSUME TimesAreSound, ScreenInv, Display!Update
    PROVE  /\ setting' = "always" => display'
           /\ panel.current < Display!CarouselStart => display'
           /\ display' =>
                \/ panel.current < Display!CarouselStart \/ setting' = "always"
                \/ setting' = "minutes" /\ (panel.inactive < DisplayTimeout \/ identify' > 0)
                \/ setting' = "never" /\ panel.inactive < WakeTime
<1>1. display' = Display!Enabled(identify' > 0) /\ setting' = setting
  BY Zenon DEF Display!Update
<1> QED
  BY Zenon, <1>1 DEF Display!Enabled

LEMMA UpdateKeeps == ASSUME TimesAreSound, ScreenInv, Display!Update PROVE ScreenInv'
<1> USE DEF Display!Connection, Display!Nowhere, Display!Stats, Display!CarouselStart,
           Display!Urls
<1> DEFINE q == Display!Updated(panel)
<1>1. PanelSound(panel) /\ identify \in Nat
  BY DEF ScreenInv
<1>2. panel' = [q EXCEPT !.inactive = IF @ < Display!MaxInactive THEN @ + 1 ELSE @]
  BY DEF Display!Update
<1>3. reports' = IF Display!Important = 5 THEN reports \ {"status changed"} ELSE reports
  BY DEF Display!Update
<1>4. identify' \in Nat /\ quiet' \in 1..2 /\ (quiet' = 2 => quiet # 0)
  <2>1. identify \in Nat /\ quiet \in 0..2
    BY DEF ScreenInv
  <2>2. /\ identify' = (IF identify > 0 THEN identify - 1 ELSE 0)
        /\ quiet' = (IF quiet < 2 THEN quiet + 1 ELSE 2)
    BY Zenon DEF Display!Update
  <2> QED
    BY <2>1, <2>2
<1>5. large' = large /\ (quiet' = 2 => Shown)
  BY Zenon, <1>4 DEF Display!Update, ScreenInv
<1>6. PanelSound(q) /\ q.inactive \in {0, panel.inactive}
  BY <1>1, UpdatedIsSound
<1>7. Display!Important # 12 => q.current = Display!Important
  BY <1>1, UpdatedIsSound
<1>8. Display!Important = 12 /\ (large \/ "new block" \in reports) => q.current = 9
  BY <1>1, UpdatedIsSound
<1>9. q.current # panel.current => q.time = 0
  BY <1>1, UpdatedIsSound
<1>10. ~large /\ "new block" \notin reports => q.time <= q.delay
  BY <1>1, UpdatedIsSound
<1> HIDE DEF q
<1>11. /\ panel \in Panels /\ q \in Panels /\ q.current \notin q.deleted
       /\ (q.time <= q.delay \/ q.current = 9)
  BY <1>1, <1>6 DEF PanelSound, PanelFits
<1>12. PICK n \in Nat : panel' = [q EXCEPT !.inactive = n] /\ n <= panel.inactive + 1
  <2> DEFINE m == IF q.inactive < Display!MaxInactive THEN q.inactive + 1 ELSE q.inactive
  <2>1. panel' = [q EXCEPT !.inactive = m]
    BY <1>2
  <2>2. m \in Nat /\ m <= panel.inactive + 1
    <3>1. q.inactive \in Nat /\ panel.inactive \in Nat
      BY <1>11 DEF Panels
    <3>2. Display!MaxInactive \in Nat
      BY DEF Display!MaxInactive, TimesAreSound
    <3> QED
      BY <1>6, <3>1, <3>2
  <2> HIDE DEF m
  <2> QED
    BY <2>1, <2>2
<1>13. /\ panel' \in Panels /\ panel'.current = q.current /\ panel'.time = q.time
       /\ panel'.delay = q.delay /\ panel'.deleted = q.deleted /\ panel'.inactive = n
  BY <1>11, <1>12 DEF Panels
<1>14. PanelSound(panel')
  BY <1>11, <1>13 DEF PanelSound, PanelFits
<1>15. Shown'
  <2>1. CASE Display!Important = 5
    <3>1. Display!Important' \in {5, 12} /\ "status changed" \notin reports'
      BY <1>3, <2>1, ShownIsForgotten
    <3> QED
      BY <1>7, <1>13, <2>1, <3>1 DEF Shown
  <2>2. CASE Display!Important # 5
    <3>1. Display!Important' = Display!Important
      BY <1>3, <2>2 DEF Display!Important
    <3> QED
      BY <1>7, <1>13, <2>2, <3>1 DEF Shown
  <2> QED
    BY <2>1, <2>2
<1>16. Display!ScreenIsRight'
  <2>1. CASE quiet' = 1
    <3>1. panel'.current \notin panel'.deleted
      BY <1>11, <1>13
    <3> QED
      BY <2>1, <3>1 DEF Display!ScreenIsRight
  <2>2. CASE quiet' = 2
    <3>1. Shown
      BY Zenon, <1>5, <2>2
    <3>2. reports' = reports
      <4>1. CASE Display!Important = 5
        <5>1. "status changed" \notin reports
          BY Zenon, <3>1, <4>1 DEF Shown
        <5> QED
          BY <1>3, <4>1, <5>1
      <4> QED
        BY <1>3, <4>1
    <3>3. Display!Important' = Display!Important
      BY <3>2 DEF Display!Important
    <3>4. ASSUME Display!Important # 12
          PROVE  panel'.current = Display!Important' /\ display'
      <4>1. panel'.current = Display!Important'
        BY <1>7, <1>13, <3>3, <3>4
      <4>2. panel.current = Display!Important
        BY Zenon, <3>1, <3>4 DEF Shown
      <4>3. panel.current < 8
        <5>1. Display!Important \in {0, 1, 2, 3, 4, 5, 12}
          BY ImportantType
        <5> HIDE DEF Display!Important
        <5> QED
          BY <3>4, <4>2, <5>1
      <4>4. display'
        BY <4>3, DisplayFollowsSetting
      <4> QED
        BY <4>1, <4>4
    <3>5. Display!Important' = 12 /\ (large' \/ "new block" \in reports') => panel'.current = 9
      BY Zenon, <1>5, <1>8, <1>13, <3>2, <3>3
    <3>6. display' \/ setting' # "always"
      BY Zenon, DisplayFollowsSetting
    <3>7. ASSUME display', panel'.current >= 8, panel'.time > 0
          PROVE  \/ setting' = "always" \/ ("new block" \in reports' /\ ~large')
                 \/ setting' = "minutes" /\ (panel'.inactive <= DisplayTimeout \/ identify' > 0)
                 \/ setting' = "never" /\ panel'.inactive <= WakeTime
      <4>1. ~(panel.current < 8)
        <5>1. q.current = panel.current
          BY <1>9, <1>11, <1>13, <3>7 DEF Panels
        <5>2. panel.current >= 8 /\ panel.current \in 0..12
          BY <1>11, <1>13, <3>7, <5>1 DEF Panels, Screens
        <5> QED
          BY <5>2
      <4>2. panel.inactive \in Nat /\ panel'.inactive = n /\ n \in Nat /\ n <= panel.inactive + 1
        BY <1>11, <1>12, <1>13 DEF Panels
      <4>3. panel.inactive < DisplayTimeout => panel'.inactive <= DisplayTimeout
        BY <4>2 DEF TimesAreSound
      <4>4. panel.inactive < WakeTime => panel'.inactive <= WakeTime
        BY <4>2 DEF TimesAreSound
      <4> QED
        BY Zenon, <3>7, <4>1, <4>3, <4>4, DisplayFollowsSetting
    <3>8. "new block" \notin reports' /\ ~large' => panel'.time <= panel'.delay
      BY Zenon, <1>5, <1>10, <1>13, <3>2
    <3>9. panel'.current \notin panel'.deleted
      BY <1>11, <1>13
    <3> QED
      BY Zenon, <3>3, <3>4, <3>5, <3>6, <3>7, <3>8, <3>9 DEF Display!ScreenIsRight
  <2> QED
    BY <1>4, <2>1, <2>2
<1> QED
  BY <1>4, <1>14, <1>15, <1>16 DEF ScreenInv

LEMMA ScreenKeeps == TimesAreSound /\ ScreenInv /\ [Display!Next]_(Display!vars) => ScreenInv'
<1> SUFFICES ASSUME TimesAreSound, ScreenInv, [Display!Next]_(Display!vars) PROVE ScreenInv'
  OBVIOUS
<1>1. CASE UNCHANGED Display!vars
  BY Zenon, <1>1 DEF Display!vars, ScreenInv, Shown, Display!ScreenIsRight,
     Display!Important
<1> QED
  BY Zenon, <1>1, UpdateKeeps, PressKeeps, OthersKeepScreen DEF Display!Next

(* From two updates after the last change on, the display shows what is     *)
(* most important, is on when it should be and off otherwise, and never     *)
(* shows a logo that was deleted.                                           *)
THEOREM ScreenIsRightAlways ==
    ASSUME TimesAreSound PROVE PartsSpec => []ScreenIsRight
<1> DEFINE P == part = "screen" => ScreenInv
<1>1. PartsInit => P
  BY Zenon, ScreenBegins DEF PartsInit
<1>2. P /\ [PartsNext]_partsVars => P'
  BY Zenon, ScreenKeeps DEF PartsNext, partsVars
<1>3. P => ScreenIsRight
  BY Zenon DEF ScreenIsRight, ScreenInv
<1> QED
  BY <1>1, <1>2, <1>3, PTL DEF PartsSpec
---------------------------------------------------------------------------
(* The accessory: update_interval_ms is positive and looked at once a       *)
(* second, so an interval is at least a round.                              *)
LineIsSound == QueueLen \in Nat /\ BapInterval \in Nat \ {0} /\ SubscriptionTime \in Nat

(* What is in a sequence of messages: a time-out, no value, v as the last   *)
(* value; and v arrives last when it is the last value that waits, or none  *)
(* does and it is shown.                                                    *)
TimesOut(s) == \E i \in 1..Len(s) : s[i] = 4
NoValue(s) == \A i \in 1..Len(s) : s[i] \notin 0..1
LastValueIs(s, v) ==
    \E i \in 1..Len(s) : s[i] = v /\ \A j \in (i + 1)..Len(s) : s[j] \notin 0..1
ArrivesLast(q, o, told, v) ==
    \/ LastValueIs(o, v)
    \/ NoValue(o) /\ LastValueIs(q, v)
    \/ NoValue(o) /\ NoValue(q) /\ told = v

BapData ==
    /\ value \in 0..1 /\ lastValue \in 0..2 /\ view \in 0..2
    /\ age \in 0..(SubscriptionTime + 1) /\ since \in 0..BapInterval /\ settled \in 0..(BapInterval + 1)
    /\ outgoing \in Seq(Bap!Messages) /\ queue \in Seq(Bap!Messages) /\ Len(queue) <= QueueLen

BapFlags ==
    /\ connected \in BOOLEAN /\ started \in BOOLEAN /\ active \in BOOLEAN /\ valid \in BOOLEAN
    /\ mutex \in BOOLEAN /\ rebooting \in BOOLEAN /\ believes \in BOOLEAN /\ lost \in BOOLEAN
    /\ overtaken \in BOOLEAN

(* Messages are prepared and queued in one round; in it, a subscription is  *)
(* looked at before its interval is over; and the value has not been        *)
(* settled for longer than the subscription waits while it is not sent.     *)
Paced ==
    /\ ~mutex => outgoing = <<>>
    /\ mutex /\ active => since < BapInterval
    /\ active /\ Bap!Changed => settled <= since
    /\ valid => lastValue \in 0..1

(* Who believes in a subscription has it, or will be told that it is over;  *)
(* and the value remembered as sent arrives last.                           *)
Subscribed == believes /\ ~lost => active \/ TimesOut(queue) \/ TimesOut(outgoing)
Delivered ==
    believes /\ ~lost /\ ~overtaken /\ valid => ArrivesLast(queue, outgoing, view, lastValue)

BapInv == BapData /\ BapFlags /\ Paced /\ Subscribed /\ Delivered

(* A message at the end of a sequence, and one taken from its beginning.    *)
LEMMA MessageAppended ==
    ASSUME NEW s \in Seq(Bap!Messages), NEW m \in Bap!Messages
    PROVE  LET t == Append(s, m)
           IN  /\ t \in Seq(Bap!Messages)
               /\ TimesOut(s) \/ m = 4 => TimesOut(t)
               /\ NoValue(s) /\ m \notin 0..1 => NoValue(t)
               /\ \A v \in 0..1 : /\ m = v => LastValueIs(t, v)
                                  /\ LastValueIs(s, v) /\ m \notin 0..1 => LastValueIs(t, v)
<1> DEFINE t == Append(s, m)
           n == Len(s)
<1>1. /\ t \in Seq(Bap!Messages) /\ n \in Nat /\ Len(t) = n + 1 /\ t[n + 1] = m
      /\ \A i \in 1..n : t[i] = s[i]
  BY AppendProperties
<1> HIDE DEF t, n
<1>2. ASSUME TimesOut(s) \/ m = 4 PROVE TimesOut(t)
  <2>1. CASE m = 4
    BY <1>1, <2>1 DEF TimesOut
  <2>2. CASE TimesOut(s)
    BY <1>1, <2>2 DEF TimesOut, n
  <2> QED
    BY <1>2, <2>1, <2>2
<1>3. ASSUME NoValue(s), m \notin 0..1 PROVE NoValue(t)
  <2> SUFFICES ASSUME NEW i \in 1..Len(t) PROVE t[i] \notin 0..1
    BY DEF NoValue
  <2>1. CASE i = n + 1
    BY <1>1, <1>3, <2>1
  <2>2. CASE i # n + 1
    <3>1. i \in 1..n
      BY <1>1, <2>2
    <3> QED
      BY <1>1, <1>3, <3>1 DEF NoValue, n
  <2> QED
    BY <2>1, <2>2
<1>4. ASSUME NEW v \in 0..1, m = v PROVE LastValueIs(t, v)
  <2>1. n + 1 \in 1..Len(t) /\ t[n + 1] = v /\ \A j \in ((n + 1) + 1)..Len(t) : t[j] \notin 0..1
    BY <1>1, <1>4
  <2> QED
    BY <2>1 DEF LastValueIs
<1>5. ASSUME NEW v \in 0..1, LastValueIs(s, v), m \notin 0..1 PROVE LastValueIs(t, v)
  <2>1. PICK i \in 1..n : s[i] = v /\ \A j \in (i + 1)..n : s[j] \notin 0..1
    BY <1>5 DEF LastValueIs, n
  <2>2. ASSUME NEW j \in (i + 1)..Len(t) PROVE t[j] \notin 0..1
    <3>1. CASE j = n + 1
      BY <1>1, <1>5, <3>1
    <3>2. CASE j # n + 1
      <4>1. j \in (i + 1)..n /\ j \in 1..n
        BY <1>1, <3>2
      <4> QED
        BY <1>1, <2>1, <4>1
    <3> QED
      BY <3>1, <3>2
  <2>3. i \in 1..Len(t) /\ t[i] = v
    BY <1>1, <2>1
  <2> QED
    BY <2>2, <2>3 DEF LastValueIs
<1> QED
  BY <1>1, <1>2, <1>3, <1>4, <1>5 DEF t

LEMMA MessageTaken ==
    ASSUME NEW s \in Seq(Bap!Messages), s # <<>>
    PROVE  LET t == Tail(s)
               m == Head(s)
           IN  /\ m \in Bap!Messages /\ t \in Seq(Bap!Messages) /\ Len(t) = Len(s) - 1
               /\ TimesOut(s) => TimesOut(t) \/ m = 4
               /\ NoValue(s) => NoValue(t) /\ m \notin 0..1
               /\ \A v \in 0..1 : LastValueIs(s, v) => LastValueIs(t, v) \/ (NoValue(t) /\ m = v)
<1> DEFINE t == Tail(s)
           m == Head(s)
           n == Len(s)
<1>1. /\ t \in Seq(Bap!Messages) /\ n \in Nat \ {0} /\ Len(t) = n - 1 /\ m = s[1]
      /\ m \in Bap!Messages /\ \A i \in 1..(n - 1) : t[i] = s[i + 1]
  OBVIOUS
<1> HIDE DEF t, n, m
<1>2. ASSUME TimesOut(s) PROVE TimesOut(t) \/ m = 4
  <2>1. PICK i \in 1..n : s[i] = 4
    BY <1>2 DEF TimesOut, n
  <2>2. CASE i = 1
    BY <1>1, <2>1, <2>2
  <2>3. CASE i # 1
    <3>1. i - 1 \in 1..Len(t) /\ t[i - 1] = 4
      BY <1>1, <2>1, <2>3
    <3> QED
      BY <3>1 DEF TimesOut
  <2> QED
    BY <2>2, <2>3
<1>3. ASSUME NoValue(s) PROVE NoValue(t) /\ m \notin 0..1
  <2>1. \A i \in 1..n : s[i] \notin 0..1
    BY <1>3 DEF NoValue, n
  <2>2. \A i \in 1..Len(t) : t[i] \notin 0..1
    BY <1>1, <2>1
  <2>3. m \notin 0..1
    BY <1>1, <2>1
  <2> QED
    BY <2>2, <2>3 DEF NoValue
<1>4. ASSUME NEW v \in 0..1, LastValueIs(s, v)
      PROVE  LastValueIs(t, v) \/ (NoValue(t) /\ m = v)
  <2>1. PICK i \in 1..n : s[i] = v /\ \A j \in (i + 1)..n : s[j] \notin 0..1
    BY <1>4 DEF LastValueIs, n
  <2>2. CASE i = 1
    <3>1. \A j \in 1..Len(t) : t[j] \notin 0..1
      BY <1>1, <2>1, <2>2
    <3> QED
      BY <1>1, <2>1, <2>2, <3>1 DEF NoValue
  <2>3. CASE i # 1
    <3>1. i - 1 \in 1..Len(t) /\ t[i - 1] = v
      BY <1>1, <2>1, <2>3
    <3>2. \A j \in ((i - 1) + 1)..Len(t) : t[j] \notin 0..1
      BY <1>1, <2>1, <2>3
    <3> QED
      BY <3>1, <3>2 DEF LastValueIs
  <2> QED
    BY <2>2, <2>3
<1> QED
  BY <1>1, <1>2, <1>3, <1>4 DEF t, m, n

LEMMA NothingTimesOut == ~TimesOut(<<>>) /\ NoValue(<<>>) /\ \A v : ~LastValueIs(<<>>, v)
BY DEF TimesOut, NoValue, LastValueIs

(* What a round prepares: a time-out or the value, among other messages.    *)
AboutOthers == {<<>>, <<3>>}
Prepared == {<<>>, <<0>>, <<1>>, <<4>>}

LEMMA RoundPrepares ==
    ASSUME NEW before \in AboutOthers, NEW after \in AboutOthers, NEW m \in Prepared
    PROVE  LET o == before \o m \o after
           IN  /\ o \in Seq(Bap!Messages)
               /\ m = <<4>> => TimesOut(o)
               /\ m \in {<<>>, <<4>>} => NoValue(o)
               /\ \A v \in 0..1 : m = <<v>> => LastValueIs(o, v)
<1> USE DEF AboutOthers, Prepared
<1> DEFINE o == before \o m \o after
           p == before \o m
<1>1. 0 \in Bap!Messages /\ 1 \in Bap!Messages /\ 3 \in Bap!Messages /\ 4 \in Bap!Messages
  BY DEF Bap!Messages, Bap!Other, Bap!TimedOut
<1>2. before \in Seq(Bap!Messages) /\ NoValue(before)
  <2>1. CASE before = <<>>
    BY <2>1, NothingTimesOut
  <2>2. CASE before = <<3>>
    BY <1>1, <2>2 DEF NoValue
  <2> QED
    BY <2>1, <2>2
<1>3. /\ p \in Seq(Bap!Messages)
      /\ m = <<4>> => TimesOut(p)
      /\ m \in {<<>>, <<4>>} => NoValue(p)
      /\ \A v \in 0..1 : m = <<v>> => LastValueIs(p, v)
  <2>1. CASE m = <<>>
    <3>1. p = before /\ \A v \in 0..1 : m # <<v>>
      BY <1>2, <2>1, ConcatEmptySeq
    <3> QED
      BY <1>2, <2>1, <3>1
  <2>2. ASSUME NEW x \in {0, 1, 4}, m = <<x>>
        PROVE  /\ p \in Seq(Bap!Messages)
               /\ m = <<4>> => TimesOut(p)
               /\ m \in {<<>>, <<4>>} => NoValue(p)
               /\ \A v \in 0..1 : m = <<v>> => LastValueIs(p, v)
    <3>1. x \in Bap!Messages /\ p = Append(before, x)
      BY <1>1, <1>2, <2>2, AppendIsConcat
    <3>2. (m = <<4>> => x = 4) /\ (m = <<>> => FALSE) /\ \A v \in 0..1 : m = <<v>> => x = v
      BY <2>2
    <3> HIDE DEF p
    <3> QED
      BY <1>2, <3>1, <3>2, MessageAppended
  <2> QED
    BY <2>1, <2>2
<1> HIDE DEF p
<1>4. CASE after = <<>>
  <2>1. o = p
    BY <1>3, <1>4, ConcatEmptySeq DEF p
  <2> QED
    BY <1>3, <2>1
<1>5. CASE after = <<3>>
  <2>1. o = Append(p, 3)
    BY <1>1, <1>3, <1>5, AppendIsConcat DEF p
  <2>2. 3 \notin 0..1 /\ 3 \in Bap!Messages
    BY <1>1
  <2> HIDE DEF o
  <2>3. o \in Seq(Bap!Messages) /\ (m = <<4>> => TimesOut(o))
    BY <1>3, <2>1, <2>2, MessageAppended
  <2>4. m \in {<<>>, <<4>>} => NoValue(o)
    BY <1>3, <2>1, <2>2, MessageAppended
  <2>5. \A v \in 0..1 : m = <<v>> => LastValueIs(o, v)
    BY <1>3, <2>1, <2>2, MessageAppended
  <2> QED
    BY <2>3, <2>4, <2>5 DEF o
<1> QED
  BY <1>4, <1>5

LEMMA AccessoryBegins == ASSUME LineIsSound, Bap!Init PROVE BapInv
<1>1. BapData
  BY DEF LineIsSound, Bap!Init, BapData, Bap!None
<1>2. BapFlags
  BY Zenon DEF Bap!Init, BapFlags
<1>3. Paced /\ Subscribed /\ Delivered
  BY Zenon DEF Bap!Init, Paced, Subscribed, Delivered
<1> QED
  BY <1>1, <1>2, <1>3 DEF BapInv

(* A new subscription has to be sent the value, and is not late.            *)
LEMMA SubscribeKeeps == ASSUME LineIsSound, BapInv, Bap!Subscribe PROVE BapInv'
<1>1. /\ ~mutex /\ active' = TRUE /\ valid' = FALSE /\ lost' = FALSE /\ overtaken' = FALSE
      /\ believes' \in {TRUE, believes} /\ UNCHANGED <<connected, started, mutex, rebooting>>
  BY Zenon DEF Bap!Subscribe, Bap!Forgotten, Bap!Receives, Bap!task
<1>2. /\ age' = 0 /\ since' \in 0..BapInterval /\ settled' = 0
      /\ UNCHANGED <<value, lastValue, view, outgoing, queue>>
  BY DEF Bap!Subscribe, Bap!task
<1>3. BapData'
  BY <1>2 DEF BapInv, BapData, LineIsSound
<1>4. BapFlags'
  BY Zenon, <1>1 DEF BapInv, BapFlags
<1>5. settled' <= since'
  BY <1>2 DEF LineIsSound
<1>6. Paced'
  BY Zenon, <1>1, <1>2, <1>5 DEF BapInv, Paced
<1>7. Subscribed' /\ Delivered'
  BY Zenon, <1>1 DEF Subscribed, Delivered
<1> QED
  BY <1>3, <1>4, <1>6, <1>7 DEF BapInv

(* Who unsubscribes believes in nothing.                                    *)
LEMMA UnsubscribeKeeps == ASSUME LineIsSound, BapInv, Bap!Unsubscribe PROVE BapInv'
<1>1. /\ active' = FALSE /\ believes' = FALSE
      /\ UNCHANGED <<connected, started, mutex, rebooting, valid, lost, overtaken>>
      /\ UNCHANGED <<value, lastValue, view, outgoing, queue, age, since, settled>>
  BY Zenon DEF Bap!Unsubscribe, Bap!Receives, Bap!task, Bap!history
<1>2. BapData'
  BY Zenon, <1>1 DEF BapInv, BapData
<1>3. BapFlags'
  BY Zenon, <1>1 DEF BapInv, BapFlags
<1>4. Paced' /\ Subscribed' /\ Delivered'
  BY Zenon, <1>1 DEF BapInv, Paced, Subscribed, Delivered
<1> QED
  BY <1>2, <1>3, <1>4 DEF BapInv

(* Refusals, the WiFi's settings and the first connection change nothing    *)
(* that the subscription depends on.                                        *)
LEMMA RefusalKeeps ==
    ASSUME LineIsSound, BapInv, Bap!IsRefused \/ Bap!SetWifi \/ Bap!StartUpdates
    PROVE  BapInv'
<1>1. /\ believes' \in {FALSE, believes} /\ started' \in {TRUE, started}
      /\ rebooting' \in {rebooting} \union BOOLEAN
      /\ UNCHANGED <<connected, mutex, active, valid, lost, overtaken>>
      /\ UNCHANGED <<value, lastValue, view, outgoing, queue, age, since, settled>>
  <2>1. CASE Bap!IsRefused
    BY Zenon, <2>1 DEF Bap!IsRefused, Bap!Receives, Bap!subscription, Bap!task,
       Bap!history
  <2>2. CASE Bap!SetWifi
    BY Zenon, <2>2 DEF Bap!SetWifi, Bap!Receives, Bap!subscription, Bap!task, Bap!history,
       Bap!accessory
  <2>3. CASE Bap!StartUpdates
    BY Zenon, <2>3 DEF Bap!StartUpdates, Bap!subscription, Bap!task, Bap!history,
       Bap!accessory
  <2> QED
    BY <2>1, <2>2, <2>3
<1>2. BapData'
  BY Zenon, <1>1 DEF BapInv, BapData
<1>3. BapFlags'
  BY Zenon, <1>1 DEF BapInv, BapFlags
<1>4. Paced'
  BY Zenon, <1>1 DEF BapInv, Paced, Bap!Changed
<1>5. CASE believes' = FALSE
  BY Zenon, <1>2, <1>3, <1>4, <1>5 DEF BapInv, Subscribed, Delivered
<1>6. CASE believes' = believes
  BY Zenon, <1>1, <1>2, <1>3, <1>4, <1>6 DEF BapInv, Subscribed, Delivered
<1> QED
  BY Zenon, <1>1, <1>5, <1>6

(* An answer that changes what is shown has overtaken a change.             *)
LEMMA RequestKeeps == ASSUME LineIsSound, BapInv, Bap!Request PROVE BapInv'
<1>1. /\ view' \in {value, view} /\ (view' # view => overtaken')
      /\ overtaken' \in BOOLEAN /\ (overtaken => overtaken')
      /\ UNCHANGED <<connected, started, mutex, rebooting, active, valid, believes, lost>>
      /\ UNCHANGED <<value, lastValue, outgoing, queue, age, since, settled>>
  BY Zenon DEF Bap!Request, Bap!Receives, Bap!subscription, Bap!task, BapInv, BapFlags
<1>2. view' \in 0..2
  BY <1>1 DEF BapInv, BapData
<1>3. BapData'
  BY Zenon, <1>1, <1>2 DEF BapInv, BapData
<1>4. BapFlags'
  BY Zenon, <1>1 DEF BapInv, BapFlags
<1>5. Paced' /\ Subscribed' /\ Delivered'
  BY Zenon, <1>1 DEF BapInv, Paced, Subscribed, Delivered, Bap!Changed
<1> QED
  BY <1>3, <1>4, <1>5 DEF BapInv

(* A change of the value, by the accessory or otherwise.                    *)
LEMMA ChangeKeeps ==
    ASSUME LineIsSound, BapInv, Bap!Set \/ Bap!WorldChanges
    PROVE  BapInv'
<1>1. /\ connected' \in BOOLEAN
      /\ UNCHANGED <<started, mutex, rebooting, active, valid, believes, lost, overtaken>>
      /\ UNCHANGED <<lastValue, view, outgoing, queue, age, since>>
      /\ settled' = 0 \/ (settled' = settled /\ value' = value)
  <2>1. CASE Bap!Set
    BY Zenon, <2>1 DEF Bap!Set, Bap!Receives, Bap!subscription, Bap!task, Bap!accessory,
       BapInv, BapFlags
  <2>2. CASE Bap!WorldChanges
    BY Zenon, <2>2 DEF Bap!WorldChanges, Bap!subscription, Bap!task, Bap!accessory,
       BapInv,
       BapFlags
  <2> QED
    BY <2>1, <2>2
<1>2. value' \in 0..1
  <2>1. CASE Bap!Set
    BY <2>1 DEF Bap!Set
  <2>2. CASE Bap!WorldChanges
    BY <2>2 DEF Bap!WorldChanges, BapInv, BapData
  <2> QED
    BY <2>1, <2>2
<1>3. BapData' /\ (settled' = 0 => settled' <= since')
  BY <1>1, <1>2 DEF BapInv, BapData, LineIsSound
<1>4. BapFlags'
  BY Zenon, <1>1 DEF BapInv, BapFlags
<1>5. Paced'
  BY Zenon, <1>1, <1>3 DEF BapInv, Paced, Bap!Changed
<1>6. Subscribed' /\ Delivered'
  BY Zenon, <1>1 DEF BapInv, Subscribed, Delivered
<1> QED
  BY <1>3, <1>4, <1>5, <1>6 DEF BapInv

(* The round prepares the time-out that ends the subscription, or the value *)
(* when it is due and was not sent yet.                                     *)
LEMMA RoundKeeps == ASSUME LineIsSound, BapInv, Bap!UpdateRound PROVE BapInv'
<1> USE DEF AboutOthers, Prepared
<1>1. /\ ~mutex /\ mutex' = TRUE /\ outgoing = <<>>
      /\ UNCHANGED <<connected, started, rebooting, believes, lost, overtaken>>
      /\ UNCHANGED <<value, age, view, queue, settled>>
  BY Zenon DEF Bap!UpdateRound, Bap!accessory, Bap!history, BapInv, Paced
<1>2. /\ since \in 0..BapInterval /\ value \in 0..1 /\ BapInterval \in Nat \ {0} /\ settled \in Nat
      /\ lastValue \in 0..2
  BY DEF BapInv, BapData, LineIsSound
<1>3. ~TimesOut(outgoing) /\ NoValue(outgoing) /\ \A v : ~LastValueIs(outgoing, v)
  BY <1>1, NothingTimesOut
<1>4. Bap!Other = 3 /\ Bap!TimedOut = 4
  BY DEF Bap!Other, Bap!TimedOut
<1>5. CASE active /\ age > SubscriptionTime
  <2>1. /\ active' = FALSE /\ UNCHANGED <<since, lastValue, valid>>
        /\ \E before, after \in {<<>>, <<3>>} : outgoing' = before \o <<4>> \o after
    BY Zenon, <1>4, <1>5 DEF Bap!UpdateRound
  <2>2. outgoing' \in Seq(Bap!Messages) /\ TimesOut(outgoing') /\ NoValue(outgoing')
    BY <2>1, RoundPrepares
  <2>3. BapData'
    BY Zenon, <1>1, <2>1, <2>2 DEF BapInv, BapData
  <2>4. BapFlags'
    BY Zenon, <1>1, <2>1 DEF BapInv, BapFlags
  <2>5. Paced'
    BY Zenon, <1>1, <2>1 DEF BapInv, Paced
  <2>6. Subscribed'
    BY Zenon, <2>2 DEF Subscribed
  <2>7. Delivered'
    BY Zenon, <1>1, <1>3, <2>1, <2>2 DEF BapInv, Delivered, ArrivesLast
  <2> QED
    BY <2>3, <2>4, <2>5, <2>6, <2>7 DEF BapInv
<1>6. CASE ~(active /\ age > SubscriptionTime) /\ Bap!Due
  <2>1. /\ active /\ active' = active /\ since' = 0 /\ lastValue' = value /\ valid' = TRUE
        /\ \E before, after \in {<<>>, <<3>>} :
             outgoing' = before \o (IF Bap!Changed THEN <<value>> ELSE <<>>) \o after
    BY Zenon, <1>4, <1>6 DEF Bap!UpdateRound, Bap!Due
  <2>2. /\ outgoing' \in Seq(Bap!Messages)
        /\ Bap!Changed => LastValueIs(outgoing', value)
        /\ ~Bap!Changed => NoValue(outgoing')
    <3>1. CASE Bap!Changed
      <4>1. <<value>> \in {<<>>, <<0>>, <<1>>, <<4>>}
        BY <1>2
      <4> QED
        BY <1>2, <2>1, <3>1, <4>1, RoundPrepares
    <3>2. CASE ~Bap!Changed
      BY <2>1, <3>2, RoundPrepares
    <3> QED
      BY <3>1, <3>2
  <2>3. BapData'
    BY <1>1, <1>2, <2>1, <2>2 DEF BapInv, BapData
  <2>4. BapFlags'
    BY Zenon, <1>1, <2>1 DEF BapInv, BapFlags
  <2>5. Paced'
    <3>1. since' < BapInterval /\ value' \in 0..1
      BY <1>1, <1>2, <2>1
    <3> QED
      BY Zenon, <1>1, <2>1, <3>1 DEF Paced, Bap!Changed
  <2>6. Subscribed'
    BY Zenon, <2>1 DEF Subscribed
  <2>7. Delivered'
    <3>1. CASE Bap!Changed
      BY Zenon, <1>1, <2>1, <2>2, <3>1 DEF Delivered, ArrivesLast
    <3>2. CASE ~Bap!Changed
      <4>1. valid /\ lastValue = value
        BY Zenon, <3>2 DEF Bap!Changed
      <4> QED
        BY Zenon, <1>1, <1>3, <2>1, <2>2, <3>2, <4>1 DEF BapInv, Delivered, ArrivesLast
    <3> QED
      BY <3>1, <3>2
  <2> QED
    BY <2>3, <2>4, <2>5, <2>6, <2>7 DEF BapInv
<1>7. CASE ~(active /\ age > SubscriptionTime) /\ ~Bap!Due
  <2>1. /\ UNCHANGED <<active, since, lastValue, valid>>
        /\ \E before, after \in {<<>>, <<3>>} : outgoing' = before \o <<>> \o after
    BY Zenon, <1>4, <1>7 DEF Bap!UpdateRound
  <2>2. outgoing' \in Seq(Bap!Messages) /\ NoValue(outgoing')
    BY <2>1, RoundPrepares
  <2>3. BapData'
    BY Zenon, <1>1, <2>1, <2>2 DEF BapInv, BapData
  <2>4. BapFlags'
    BY Zenon, <1>1, <2>1 DEF BapInv, BapFlags
  <2>5. active => since < BapInterval
    BY <1>2, <1>7 DEF Bap!Due
  <2>6. Paced'
    BY Zenon, <1>1, <2>1, <2>5 DEF BapInv, Paced, Bap!Changed
  <2>7. Subscribed'
    BY Zenon, <1>1, <1>3, <2>1 DEF BapInv, Subscribed
  <2>8. Delivered'
    BY Zenon, <1>1, <1>3, <2>1, <2>2 DEF BapInv, Delivered, ArrivesLast
  <2> QED
    BY <2>3, <2>4, <2>6, <2>7, <2>8 DEF BapInv
<1> QED
  BY <1>5, <1>6, <1>7

(* A message that finds no room is lost, unless it is about something else. *)
LEMMA EnqueueKeeps == ASSUME LineIsSound, BapInv, Bap!Enqueue PROVE BapInv'
<1> DEFINE h == Head(outgoing)
<1>1. /\ mutex /\ outgoing # <<>> /\ outgoing' = Tail(outgoing)
      /\ UNCHANGED <<connected, started, rebooting, believes, overtaken, mutex, active, valid>>
      /\ UNCHANGED <<value, age, view, settled, since, lastValue>>
  BY Zenon DEF Bap!Enqueue, Bap!accessory, Bap!subscription
<1>2. \/ Len(queue) < QueueLen /\ queue' = Append(queue, h) /\ UNCHANGED lost
      \/ queue' = queue /\ lost' = (lost \/ h # 3)
  BY Zenon DEF Bap!Enqueue, Bap!Other
<1>3. /\ queue \in Seq(Bap!Messages) /\ outgoing \in Seq(Bap!Messages) /\ Len(queue) <= QueueLen
      /\ QueueLen \in Nat /\ lost \in BOOLEAN
  BY DEF BapInv, BapData, BapFlags, LineIsSound
<1>4. /\ h \in Bap!Messages /\ outgoing' \in Seq(Bap!Messages)
      /\ TimesOut(outgoing) => TimesOut(outgoing') \/ h = 4
      /\ NoValue(outgoing) => NoValue(outgoing') /\ h \notin 0..1
      /\ \A v \in 0..1 : LastValueIs(outgoing, v) =>
                           LastValueIs(outgoing', v) \/ (NoValue(outgoing') /\ h = v)
  BY <1>1, <1>3, MessageTaken
<1> HIDE DEF h
<1>5. lost' \in BOOLEAN /\ (~lost' => ~lost)
  BY Zenon, <1>2, <1>3
<1>6. queue' \in Seq(Bap!Messages) /\ Len(queue') <= QueueLen
  <2>1. (Len(queue) < QueueLen /\ queue' = Append(queue, h)) \/ queue' = queue
    BY Zenon, <1>2
  <2>2. Append(queue, h) \in Seq(Bap!Messages) /\ Len(Append(queue, h)) = Len(queue) + 1
    BY <1>3, <1>4, AppendProperties
  <2>3. Len(queue) \in Nat
    BY <1>3
  <2> QED
    BY <1>3, <2>1, <2>2, <2>3
<1>7. BapData'
  BY Zenon, <1>1, <1>4, <1>6 DEF BapInv, BapData
<1>8. BapFlags'
  BY Zenon, <1>1, <1>5 DEF BapInv, BapFlags
<1>9. Paced'
  BY Zenon, <1>1 DEF BapInv, Paced, Bap!Changed
<1>10. valid => lastValue \in 0..1
  BY DEF BapInv, Paced
<1>11. CASE queue' = Append(queue, h)
  <2>1. /\ TimesOut(queue) \/ h = 4 => TimesOut(queue')
        /\ NoValue(queue) /\ h \notin 0..1 => NoValue(queue')
        /\ \A v \in 0..1 : /\ h = v => LastValueIs(queue', v)
                           /\ LastValueIs(queue, v) /\ h \notin 0..1 => LastValueIs(queue', v)
    BY <1>3, <1>4, <1>11, MessageAppended
  <2>2. Subscribed'
    BY Zenon, <1>1, <1>4, <1>5, <2>1 DEF BapInv, Subscribed
  <2>3. Delivered'
    BY Zenon, <1>1, <1>4, <1>5, <1>10, <2>1 DEF BapInv, Delivered, ArrivesLast
  <2> QED
    BY <1>7, <1>8, <1>9, <2>2, <2>3 DEF BapInv
<1>12. CASE queue' = queue /\ lost' = (lost \/ h # 3)
  <2>1. ~lost' => h \notin 0..1 /\ h # 4 /\ \A v \in 0..1 : h # v
    <3>1. ~lost' => h = 3
      BY Zenon, <1>12
    <3> QED
      BY <3>1
  <2>2. Subscribed'
    BY Zenon, <1>1, <1>4, <1>5, <1>12, <2>1 DEF BapInv, Subscribed
  <2>3. Delivered'
    BY Zenon, <1>1, <1>4, <1>5, <1>10, <1>12, <2>1 DEF BapInv, Delivered, ArrivesLast
  <2> QED
    BY <1>7, <1>8, <1>9, <2>2, <2>3 DEF BapInv
<1> QED
  BY Zenon, <1>2, <1>11, <1>12

(* The round ends: what was not settled for as long as it waits still is    *)
(* not, and waits less than an interval.                                    *)
LEMMA EndRoundKeeps == ASSUME LineIsSound, BapInv, Bap!EndRound PROVE BapInv'
<1>1. /\ mutex /\ mutex' = FALSE /\ outgoing = <<>>
      /\ UNCHANGED <<connected, started, rebooting, believes, lost, overtaken, active, valid>>
      /\ UNCHANGED <<value, view, queue, outgoing, lastValue>>
  BY Zenon DEF Bap!EndRound, Bap!accessory
<1>2. /\ age' = (IF age < SubscriptionTime + 1 THEN age + 1 ELSE age)
      /\ since' = (IF since < BapInterval THEN since + 1 ELSE since)
      /\ settled' = (IF settled < BapInterval + 1 THEN settled + 1 ELSE settled)
  BY Zenon DEF Bap!EndRound, Bap!Grown
<1>3. /\ age \in 0..(SubscriptionTime + 1) /\ since \in 0..BapInterval /\ settled \in 0..(BapInterval + 1)
      /\ BapInterval \in Nat /\ SubscriptionTime \in Nat
  BY DEF BapInv, BapData, LineIsSound
<1>4. /\ age' \in 0..(SubscriptionTime + 1) /\ since' \in 0..BapInterval
      /\ settled' \in 0..(BapInterval + 1)
      /\ since < BapInterval /\ settled <= since => settled' <= since'
  BY <1>2, <1>3
<1>5. BapData'
  BY Zenon, <1>1, <1>4 DEF BapInv, BapData
<1>6. BapFlags'
  BY Zenon, <1>1 DEF BapInv, BapFlags
<1>7. Paced'
  BY Zenon, <1>1, <1>4 DEF BapInv, Paced, Bap!Changed
<1>8. Subscribed' /\ Delivered'
  BY Zenon, <1>1 DEF BapInv, Subscribed, Delivered
<1> QED
  BY <1>5, <1>6, <1>7, <1>8 DEF BapInv

(* What is written is shown; who is told of a time-out does not believe.    *)
LEMMA SendsKeeps == ASSUME LineIsSound, BapInv, Bap!Sends PROVE BapInv'
<1> DEFINE h == Head(queue)
<1>1. /\ queue # <<>> /\ queue' = Tail(queue)
      /\ UNCHANGED <<connected, started, rebooting, overtaken, mutex, active, valid>>
      /\ UNCHANGED <<value, age, settled, since, lastValue, outgoing>>
  BY Zenon DEF Bap!Sends, Bap!subscription
<1>2. \/ /\ view' = IF h \in 0..1 THEN h ELSE view
         /\ believes' = (believes /\ h # 4) /\ lost' = lost
      \/ lost' = (lost \/ h # 3) /\ believes' = believes /\ view' = view
  BY Zenon DEF Bap!Sends, Bap!Other, Bap!TimedOut, Bap!accessory
<1>3. /\ queue \in Seq(Bap!Messages) /\ Len(queue) <= QueueLen /\ QueueLen \in Nat
      /\ view \in 0..2
  BY DEF BapInv, BapData, LineIsSound
<1>4. /\ h \in Bap!Messages /\ queue' \in Seq(Bap!Messages) /\ Len(queue') = Len(queue) - 1
      /\ TimesOut(queue) => TimesOut(queue') \/ h = 4
      /\ NoValue(queue) => NoValue(queue') /\ h \notin 0..1
      /\ \A v \in 0..1 : LastValueIs(queue, v) =>
                           LastValueIs(queue', v) \/ (NoValue(queue') /\ h = v)
  BY <1>1, <1>3, MessageTaken
<1>5. Len(queue') <= QueueLen
  BY <1>3, <1>4
<1> HIDE DEF h
<1>6. lost \in BOOLEAN /\ believes \in BOOLEAN
  BY DEF BapInv, BapFlags
<1>7. /\ lost' \in BOOLEAN /\ believes' \in BOOLEAN /\ (~lost' => ~lost)
      /\ believes' => believes
  <2>1. CASE believes' = (believes /\ h # 4) /\ lost' = lost
    BY Zenon, <1>6, <2>1
  <2>2. CASE lost' = (lost \/ h # 3) /\ believes' = believes
    BY Zenon, <1>6, <2>2
  <2> QED
    BY Zenon, <1>2, <2>1, <2>2
<1>8. view' \in 0..2
  BY <1>2, <1>3
<1>9. BapData'
  BY Zenon, <1>1, <1>4, <1>5, <1>8 DEF BapInv, BapData
<1>10. BapFlags'
  BY Zenon, <1>1, <1>7 DEF BapInv, BapFlags
<1>11. Paced'
  BY Zenon, <1>1 DEF BapInv, Paced, Bap!Changed
<1>12. valid => lastValue \in 0..1
  BY DEF BapInv, Paced
<1>13. believes' /\ ~lost' => h # 4
  <2>1. 3 # 4
    OBVIOUS
  <2> QED
    BY Zenon, <1>2, <2>1
<1>14. Subscribed'
  BY Zenon, <1>1, <1>4, <1>7, <1>13 DEF BapInv, Subscribed
<1>15. \/ ~lost' => h \notin 0..1 /\ view' = view
       \/ h \in 0..1 /\ view' = h
       \/ h \notin 0..1 /\ view' = view
  <2>1. 3 \notin 0..1
    OBVIOUS
  <2> QED
    BY Zenon, <1>2, <2>1
<1>16. Delivered'
  <2> SUFFICES ASSUME believes', ~lost', ~overtaken', valid'
               PROVE  ArrivesLast(queue', outgoing, view', lastValue)
    BY Zenon, <1>1 DEF Delivered
  <2>1. ArrivesLast(queue, outgoing, view, lastValue) /\ lastValue \in 0..1
    BY Zenon, <1>1, <1>7, <1>12 DEF BapInv, Delivered
  <2>2. CASE LastValueIs(outgoing, lastValue)
    BY Zenon, <2>2 DEF ArrivesLast
  <2>3. CASE NoValue(outgoing) /\ LastValueIs(queue, lastValue)
    <3>1. CASE LastValueIs(queue', lastValue)
      BY Zenon, <2>3, <3>1 DEF ArrivesLast
    <3>2. CASE NoValue(queue') /\ h = lastValue
      <4>1. view' = lastValue
        BY Zenon, <1>15, <2>1, <3>2
      <4> QED
        BY Zenon, <2>3, <3>2, <4>1 DEF ArrivesLast
    <3> QED
      BY Zenon, <1>4, <2>1, <2>3, <3>1, <3>2
  <2>4. CASE NoValue(outgoing) /\ NoValue(queue) /\ view = lastValue
    <3>1. NoValue(queue') /\ view' = lastValue
      BY Zenon, <1>4, <1>15, <2>4
    <3> QED
      BY Zenon, <2>4, <3>1 DEF ArrivesLast
  <2> QED
    BY Zenon, <2>1, <2>2, <2>3, <2>4 DEF ArrivesLast
<1> QED
  BY <1>9, <1>10, <1>11, <1>14, <1>16 DEF BapInv

(* Who restarts, or learns of a restart, has to subscribe again.            *)
LEMMA BapRestartKeeps ==
    ASSUME LineIsSound, BapInv, Bap!AccessoryRestarts \/ Bap!DeviceRestarts
    PROVE  BapInv'
<1>1. CASE Bap!AccessoryRestarts
  <2>1. /\ believes' = FALSE /\ view' = 2
        /\ UNCHANGED <<connected, started, mutex, rebooting, active, valid, lost, overtaken>>
        /\ UNCHANGED <<value, lastValue, outgoing, queue, age, since, settled>>
    BY Zenon, <1>1 DEF Bap!AccessoryRestarts, Bap!subscription, Bap!task, Bap!history,
       Bap!None
  <2>2. BapData'
    BY <2>1 DEF BapInv, BapData
  <2>3. BapFlags'
    BY Zenon, <2>1 DEF BapInv, BapFlags
  <2>4. Paced' /\ Subscribed' /\ Delivered'
    BY Zenon, <2>1 DEF BapInv, Paced, Subscribed, Delivered, Bap!Changed
  <2> QED
    BY <2>2, <2>3, <2>4 DEF BapInv
<1>2. CASE Bap!DeviceRestarts
  <2>1. /\ believes' = FALSE /\ connected' = FALSE /\ started' = FALSE /\ mutex' = FALSE
        /\ rebooting' = FALSE /\ active' = FALSE /\ valid' = FALSE
        /\ UNCHANGED <<lost, overtaken>>
    BY Zenon, <1>2 DEF Bap!DeviceRestarts, Bap!history
  <2>2. /\ lastValue' = 2 /\ outgoing' = <<>> /\ queue' = <<>> /\ age' = 0 /\ since' = 0
        /\ UNCHANGED <<value, view, settled>>
    BY Zenon, <1>2 DEF Bap!DeviceRestarts, Bap!history, Bap!None
  <2>3. BapData'
    BY <2>2 DEF BapInv, BapData, LineIsSound
  <2>4. BapFlags'
    BY Zenon, <2>1 DEF BapInv, BapFlags
  <2>5. Paced' /\ Subscribed' /\ Delivered'
    BY Zenon, <2>1, <2>2 DEF Paced, Subscribed, Delivered
  <2> QED
    BY <2>3, <2>4, <2>5 DEF BapInv
<1> QED
  BY <1>1, <1>2

LEMMA AccessoryKeeps == LineIsSound /\ BapInv /\ [Bap!Next]_(Bap!vars) => BapInv'
<1> SUFFICES ASSUME LineIsSound, BapInv, [Bap!Next]_(Bap!vars) PROVE BapInv'
  OBVIOUS
<1>1. CASE UNCHANGED Bap!vars
  <2>1. /\ UNCHANGED <<connected, started, mutex, rebooting, active, valid, believes, lost>>
        /\ UNCHANGED <<overtaken, value, lastValue, view, outgoing, queue, age, since, settled>>
    BY Zenon, <1>1 DEF Bap!vars, Bap!subscription, Bap!task, Bap!accessory, Bap!history
  <2> QED
    BY Zenon, <2>1 DEF BapInv, BapData, BapFlags, Paced, Subscribed, Delivered,
       Bap!Changed
<1> QED
  BY Zenon, <1>1, SubscribeKeeps, UnsubscribeKeeps, RefusalKeeps, RequestKeeps,
     ChangeKeeps,
     RoundKeeps, EnqueueKeeps, EndRoundKeeps, SendsKeeps, BapRestartKeeps DEF Bap!Next

(* The data of the accessory's subscription has its types.                  *)
THEOREM AccessoryTypes == ASSUME LineIsSound PROVE Bap!Spec => []Bap!TypeOK
<1>1. Bap!Init => BapInv
  BY AccessoryBegins
<1>2. BapInv /\ [Bap!Next]_(Bap!vars) => BapInv'
  BY AccessoryKeeps
<1>3. BapInv => Bap!TypeOK
  BY DEF BapInv, BapData, BapFlags, Bap!TypeOK
<1> QED
  BY <1>1, <1>2, <1>3, PTL DEF Bap!Spec

(* When nothing is on its way and nothing was dropped, an accessory that    *)
(* believes in its subscription has one, and shows the value.               *)
THEOREM AccessoryIsServedAlways ==
    ASSUME LineIsSound PROVE PartsSpec => []AccessoryIsServed
<1> DEFINE P == part = "accessory" => BapInv
<1>1. PartsInit => P
  BY Zenon, AccessoryBegins DEF PartsInit
<1>2. P /\ [PartsNext]_partsVars => P'
  BY Zenon, AccessoryKeeps DEF PartsNext, partsVars
<1>3. BapInv => Bap!AccessoryIsServed
  <2> SUFFICES ASSUME BapInv, believes, queue = <<>>, ~mutex, ~lost
               PROVE  /\ active
                      /\ started /\ settled > BapInterval /\ ~overtaken => view = value
    BY DEF Bap!AccessoryIsServed
  <2>1. /\ ~TimesOut(queue) /\ ~TimesOut(outgoing)
        /\ \A v : ~LastValueIs(queue, v) /\ ~LastValueIs(outgoing, v)
    BY NothingTimesOut DEF BapInv, Paced
  <2>2. active
    BY Zenon, <2>1 DEF BapInv, Subscribed
  <2>3. ASSUME settled > BapInterval, ~overtaken PROVE view = value
    <3>1. ~(settled <= since)
      BY <2>3 DEF BapInv, BapData, LineIsSound
    <3>2. valid /\ lastValue = value
      BY Zenon, <2>2, <3>1 DEF BapInv, Paced, Bap!Changed
    <3> QED
      BY Zenon, <2>1, <2>3, <3>2 DEF BapInv, Delivered, ArrivesLast
  <2> QED
    BY <2>2, <2>3
<1>4. P => AccessoryIsServed
  BY Zenon, <1>3 DEF AccessoryIsServed
<1> QED
  BY <1>1, <1>2, <1>4, PTL DEF PartsSpec

---------------------------------------------------------------------------
(* The self test: a test that passes was earned. The counters of the chips  *)
(* show rates that are no negative numbers, and a domain is expected to     *)
(* hash (self_test_get_expected_domain_hashrate()). tlapm knows nothing of  *)
(* ^ but that it is a function: the hypothesis says that a higher power of  *)
(* two is a greater number.                                                *)
TestIsSound ==
    /\ ExpectedRate \in Nat \ {0} /\ Rates \subseteq Nat /\ 0 \in Rates
    /\ NeededHashes \in Nat /\ TestRounds \in Nat
    /\ TestPowers \in Nat /\ StartPower \in Test!Powers
    /\ \A p, q \in Test!Powers : 2 ^ p \in Nat /\ (p <= q => 2 ^ p <= 2 ^ q)

---------------------------------------------------------------------------
(* The inductive invariant. What TypeOK says, and of which steps there are. *)
Checks == {"psram", "current", "input", "fault", "work", "warm", "measure",
           "vcore", "power", "fan", "passed"}
Ended == {"settle", "over", "restart"}

TestFlags ==
    /\ flag \in BOOLEAN /\ cached \in BOOLEAN /\ best \in BOOLEAN /\ factory \in BOOLEAN
    /\ finished \in BOOLEAN /\ pressed \in BOOLEAN /\ volts \in BOOLEAN
    /\ retune \in BOOLEAN /\ measuring \in BOOLEAN
    /\ raised \in BOOLEAN /\ heated \in BOOLEAN /\ tuned \in BOOLEAN
    /\ offFailed \in BOOLEAN /\ powerFault \in BOOLEAN /\ cleared \in BOOLEAN

TestBoard ==
    /\ step \in {"off", "normal", "failed"} \cup Checks \cup Ended
    /\ defects \subseteq Test!Defects /\ result \in {"none", "pass", "fail"}
    /\ pm \in {"gone", "asleep", "wait", "work", "tune"}

TestPowersOK ==
    /\ power \in Test!Powers /\ chip \in Test!Powers
    /\ target \in Test!Powers \cup {Test!None}
    /\ measuring => target \in Test!Powers
    /\ nonce \in [level : Test!Powers \cup {Test!None}, found : Test!Powers \cup {Test!None}]
    /\ hashes \in Nat /\ worth \in Nat

TestDomains ==
    /\ round \in 0..TestRounds
    /\ counter \in [Domains -> [time : Nat, rate : Rates]]
    /\ average \in [Domains -> [sum : Nat, count : Nat, rejected : Nat, last : Nat]]
    /\ alive \subseteq Domains /\ noisy \subseteq Domains

(* The order of the test: what it has come past was in order.               *)
InOrder ==
    /\ step \in {"off"} \cup Checks => defects = {} /\ ~heated
    /\ measuring => step \in {"measure", "failed"}
    /\ result = "none" <=> step \notin Ended
    /\ finished <=> step \in Ended

(* An average that counted something, or a counter with a new value, goes   *)
(* back to a domain that hashed or whose counter was implausible.           *)
Backed(d) ==
    /\ average[d].sum > 0 => d \in alive
    /\ average[d].rejected > 0 => d \in noisy
    /\ counter[d].time \notin {0, average[d].last} =>
         /\ counter[d].rate > 3 * ExpectedRate => d \in noisy
         /\ counter[d].rate \in 1..3 * ExpectedRate => d \in alive
AllBacked == measuring => \A d \in Domains : Backed(d)

(* What passing takes is there after the measurement, and stays.            *)
Earned ==
    step \in {"vcore", "power", "fan", "passed"} \/ result = "pass" =>
        hashes >= NeededHashes /\ alive \cup noisy = Domains /\ defects = {} /\ ~heated

(* A nonce counts for the difficulty of now, which is the target's or less. *)
Weighed ==
    /\ hashes <= worth \/ raised
    /\ measuring /\ ~raised => power <= target

(* The voltage at the end, and when the regulator was never of use; what    *)
(* the power management task sees of it; the flag.                          *)
SwitchedOff ==
    /\ step \in {"over", "restart"} => ~volts \/ offFailed
    /\ ~Test!HasRegulator => ~volts /\ pm = "gone"
    /\ pm \in {"work", "wait"} => volts \/ tuned
    /\ powerFault => tuned
Flagged == (flag \/ cleared) /\ (cached \/ cleared)

TestInv ==
    /\ TestFlags /\ TestBoard /\ TestPowersOK /\ TestDomains
    /\ InOrder /\ AllBacked /\ Earned /\ Weighed /\ SwitchedOff /\ Flagged

---------------------------------------------------------------------------
(* A sample keeps a domain's average backed by what its counter showed.     *)
LEMMA SampledIsBacked ==
    ASSUME TestIsSound, TestDomains, NEW d \in Domains
    PROVE  /\ Test!Sampled(d) \in [sum : Nat, count : Nat, rejected : Nat, last : Nat]
           /\ Backed(d) =>
                /\ Test!Sampled(d).sum > 0 => d \in alive
                /\ Test!Sampled(d).rejected > 0 => d \in noisy
                /\ counter[d].time \in {0, Test!Sampled(d).last}
<1> DEFINE c == counter[d]
           a == average[d]
<1>1. c \in [time : Nat, rate : Nat] /\ a \in [sum : Nat, count : Nat, rejected : Nat, last : Nat]
  BY DEF TestDomains, TestIsSound
<1>2. CASE c.time \in {0, a.last}
  BY <1>1, <1>2 DEF Test!Sampled, Backed
<1>3. CASE c.time \notin {0, a.last} /\ a.last = 0
  BY <1>1, <1>3 DEF Test!Sampled, Backed
<1>4. CASE c.time \notin {0, a.last} /\ a.last # 0 /\ c.rate > 3 * ExpectedRate
  <2>1. Test!Sampled(d) = [sum |-> a.sum, count |-> a.count, rejected |-> a.rejected + 1,
                           last |-> c.time]
    BY <1>1, <1>4 DEF Test!Sampled
  <2>2. Backed(d) => (a.sum > 0 => d \in alive) /\ d \in noisy
    BY <1>1, <1>4 DEF Backed
  <2>3. /\ Test!Sampled(d) \in [sum : Nat, count : Nat, rejected : Nat, last : Nat]
        /\ Test!Sampled(d).sum = a.sum /\ Test!Sampled(d).last = c.time
    BY <1>1, <2>1
  <2> QED
    BY <2>2, <2>3
<1>5. CASE c.time \notin {0, a.last} /\ a.last # 0 /\ ~(c.rate > 3 * ExpectedRate)
  <2>1. Test!Sampled(d) = [sum |-> a.sum + c.rate, count |-> a.count + 1,
                           rejected |-> a.rejected, last |-> c.time]
    BY <1>1, <1>5 DEF Test!Sampled
  <2>2. Backed(d) => (a.sum + c.rate > 0 => d \in alive) /\ (a.rejected > 0 => d \in noisy)
    BY <1>1, <1>5 DEF Backed, TestIsSound
  <2>3. /\ Test!Sampled(d) \in [sum : Nat, count : Nat, rejected : Nat, last : Nat]
        /\ Test!Sampled(d).sum = a.sum + c.rate /\ Test!Sampled(d).last = c.time
        /\ Test!Sampled(d).rejected = a.rejected
    BY <1>1, <2>1
  <2> QED
    BY <2>2, <2>3
<1> QED
  BY <1>2, <1>3, <1>4, <1>5

(* A domain that does not fail counted something, or was implausible.       *)
LEMMA JudgedIsBacked ==
    ASSUME TestIsSound, NEW a \in [sum : Nat, count : Nat, rejected : Nat, last : Nat],
           ~Test!Fails(a)
    PROVE  a.sum > 0 \/ a.rejected > 0
<1>1. CASE Test!Unreliable(a)
  BY <1>1 DEF Test!Unreliable
<1>2. CASE ~Test!Unreliable(a)
  <2>1. a.count \in Nat \ {0} /\ ~(3 * a.sum < 2 * ExpectedRate * a.count)
    BY <1>2 DEF Test!Fails
  <2>2. 2 * ExpectedRate * a.count > 0
    BY <2>1 DEF TestIsSound
  <2> QED
    BY <2>1, <2>2
<1> QED
  BY <1>1, <1>2

(* The hotter sensor decides.                                               *)
LEMMA HottestDecides ==
    ASSUME NEW a \in Test!Temps, NEW b \in Test!Temps, Test!Hot \in {a, b}
    PROVE  Test!Control(a, b) = Test!Hot
BY DEF Test!Temps, Test!Control, Test!Hot, Test!Warm, Test!Cold, Test!NoTemp

(* An accepted nonce stands for at least the hashes of the target.          *)
LEMMA GreaterOfTwo ==
    ASSUME NEW p \in Nat, NEW q \in Nat
    PROVE  Test!Max({p, q}) \in {p, q} /\ p <= Test!Max({p, q})
<1> DEFINE S == {p, q}
<1>1. \E x \in S : \A y \in S : x >= y
  <2>1. CASE p <= q
    BY <2>1
  <2>2. CASE ~(p <= q)
    BY <2>2
  <2> QED
    BY <2>1, <2>2
<1>2. Test!Max(S) = CHOOSE x \in S : \A y \in S : x >= y
  BY DEF Test!Max
<1> QED
  BY <1>1, <1>2

(* The next check is one, and the later ones come after the measurement.    *)
LEMMA ChecksFollow ==
    ASSUME step \in DOMAIN Test!AfterCheck
    PROVE  /\ step \in Checks /\ step \in Test!Defects /\ Test!AfterCheck[step] \in Checks
           /\ Test!AfterCheck[step] \in {"vcore", "power", "fan", "passed"} =>
                step \in {"vcore", "power", "fan"}
<1>1. DOMAIN Test!AfterCheck = {"psram", "current", "input", "fault", "vcore", "power", "fan"}
  BY DEF Test!AfterCheck
<1> QED
  BY <1>1 DEF Test!AfterCheck, Checks, Test!Defects

---------------------------------------------------------------------------
(* The first check, the end, or normal operation.                           *)
LEMMA StartKeeps ==
    ASSUME TestIsSound, TestInv,
           NEW held \in BOOLEAN, NEW flaws \in {{}} \cup {{p} : p \in Test!Early},
           Test!Start(held, flaws)
    PROVE  TestInv'
<1>1. TestFlags'
  BY DEF TestInv, TestFlags, Test!Start, Test!ShouldRun, Test!IsFactory,
     Test!RegulatorWorks, Test!measurement, Test!history
<1>2. TestPowersOK' /\ TestDomains'
  BY DEF TestInv, TestPowersOK, TestDomains, Test!Start, Test!ShouldRun, Test!IsFactory,
     Test!RegulatorWorks, Test!measurement, Test!history
<1>3. TestBoard'
  <2>1. flaws \subseteq Test!Defects
    BY DEF Test!Defects
  <2>2. step' \in {"normal", "psram", "failed"} /\ defects' = flaws /\ result' = result
        /\ pm' \in {"asleep", "gone"}
    BY DEF Test!Start
  <2> QED
    BY <2>1, <2>2 DEF TestInv, TestBoard, Checks
<1>4. InOrder' /\ AllBacked'
  BY DEF TestInv, InOrder, AllBacked, Backed, Checks, Ended, Test!Start, Test!ShouldRun,
     Test!IsFactory, Test!RegulatorWorks, Test!measurement, Test!history
<1>5. Earned'
  BY TestInv DEF TestInv, InOrder, Earned, Ended, Test!Start, Test!measurement,
     Test!history
<1>6. Weighed' /\ SwitchedOff' /\ Flagged'
  BY DEF TestInv, Weighed, SwitchedOff, Test!HasRegulator, Test!RegulatorWorks, Flagged,
     Test!Start, Test!ShouldRun, Test!IsFactory, Test!RegulatorWorks, Test!measurement,
     Test!history
<1> QED
  BY <1>1, <1>2, <1>3, <1>4, <1>5, <1>6 DEF TestInv

(* Shares of normal operation.                                              *)
LEMMA MineKeeps ==
    ASSUME TestIsSound, TestInv, Test!Mine
    PROVE  TestInv'
<1>1. TestFlags'
  BY DEF TestInv, TestFlags, Test!Mine, Test!measurement, Test!history
<1>2. TestBoard' /\ TestPowersOK' /\ TestDomains'
  BY DEF TestInv, TestBoard, TestPowersOK, TestDomains, Checks, Ended, Test!Mine,
     Test!measurement, Test!history
<1>3. InOrder' /\ AllBacked' /\ Earned'
  BY DEF TestInv, InOrder, AllBacked, Backed, Earned, Checks, Ended, Test!Mine,
     Test!measurement, Test!history
<1>4. Weighed' /\ SwitchedOff' /\ Flagged'
  BY DEF TestInv, Weighed, SwitchedOff, Test!HasRegulator, Test!RegulatorWorks, Flagged,
     Test!Mine, Test!measurement, Test!history
<1> QED
  BY <1>1, <1>2, <1>3, <1>4 DEF TestInv

(* A check that fails is the end of the checks.                             *)
LEMMA CheckKeeps ==
    ASSUME TestIsSound, TestInv,
           NEW sound \in BOOLEAN, Test!Check(sound)
    PROVE  TestInv'
<1>1. TestFlags'
  BY DEF TestInv, TestFlags, Test!Check, Test!AfterCheck, Test!measurement, Test!history,
     Test!board, Test!others
<1>2. TestPowersOK' /\ TestDomains'
  BY DEF TestInv, TestPowersOK, TestDomains, Test!Check, Test!AfterCheck,
     Test!measurement, Test!history, Test!board, Test!others
<1>3. TestBoard'
  BY ChecksFollow DEF TestInv, TestBoard, Test!Check, Test!others
<1>4. InOrder' /\ AllBacked'
  BY DEF TestInv, InOrder, AllBacked, Backed, Checks, Ended, Test!Check, Test!AfterCheck,
     Test!measurement, Test!history, Test!board, Test!others
<1>5. Earned'
  BY ChecksFollow DEF TestInv, InOrder, TestBoard, Earned, Checks, Ended, Test!Check,
     Test!others,
     Test!measurement, Test!history
<1>6. Weighed' /\ SwitchedOff' /\ Flagged'
  BY DEF TestInv, Weighed, SwitchedOff, Test!HasRegulator, Test!RegulatorWorks, Flagged,
     Test!Check, Test!AfterCheck, Test!measurement, Test!history, Test!board, Test!others
<1> QED
  BY <1>1, <1>2, <1>3, <1>4, <1>5, <1>6 DEF TestInv

(* The mock job.                                                            *)
LEMMA AnnounceKeeps ==
    ASSUME TestIsSound, TestInv,
           NEW sound \in BOOLEAN, Test!Announce(sound)
    PROVE  TestInv'
<1>1. TestFlags'
  BY DEF TestInv, TestFlags, Test!Announce, Test!SetFan, Test!measurement, Test!history,
     Test!board, Test!others
<1>2. TestBoard' /\ TestPowersOK' /\ TestDomains'
  BY DEF TestInv, TestBoard, TestPowersOK, TestDomains, Checks, Ended, Test!Announce,
     Test!SetFan, Test!measurement, Test!history, Test!board, Test!others
<1>3. InOrder' /\ AllBacked' /\ Earned'
  BY DEF TestInv, InOrder, AllBacked, Backed, Earned, Checks, Ended, Test!Announce,
     Test!SetFan, Test!measurement, Test!history, Test!board, Test!others
<1>4. Weighed' /\ SwitchedOff' /\ Flagged'
  BY DEF TestInv, Weighed, SwitchedOff, Test!HasRegulator, Test!RegulatorWorks, Flagged,
     Test!Announce, Test!SetFan, Test!measurement, Test!history, Test!board, Test!others
<1> QED
  BY <1>1, <1>2, <1>3, <1>4 DEF TestInv

(* Warming up.                                                              *)
LEMMA WarmingKeeps ==
    ASSUME TestIsSound, TestInv,
           NEW a \in Test!Temps, NEW b \in Test!Temps, Test!Warming(a, b)
    PROVE  TestInv'
<1>1. TestFlags'
  BY DEF TestInv, TestFlags, Test!Warming, Test!measurement, Test!history, Test!board,
     Test!others
<1>2. TestBoard' /\ TestPowersOK' /\ TestDomains'
  BY DEF TestInv, TestBoard, TestPowersOK, TestDomains, Checks, Ended, Test!Warming,
     Test!measurement, Test!history, Test!board, Test!others
<1>3. InOrder' /\ AllBacked' /\ Earned'
  BY DEF TestInv, InOrder, AllBacked, Backed, Earned, Checks, Ended, Test!Warming,
     Test!measurement, Test!history, Test!board, Test!others
<1>4. Weighed' /\ SwitchedOff' /\ Flagged'
  BY DEF TestInv, Weighed, SwitchedOff, Test!HasRegulator, Test!RegulatorWorks, Flagged,
     Test!Warming, Test!measurement, Test!history, Test!board, Test!others
<1> QED
  BY <1>1, <1>2, <1>3, <1>4 DEF TestInv

(* The averages begin with what the counters show, and need a new value.    *)
LEMMA MeasurementKeeps ==
    ASSUME TestIsSound, TestInv, Test!StartMeasurement
    PROVE  TestInv'
<1>1. TestFlags'
  BY DEF TestInv, TestFlags, Test!StartMeasurement, Test!Nothing, Test!board, Test!others
<1>2. TestBoard' /\ TestPowersOK' /\ TestDomains'
  BY DEF TestInv, TestBoard, TestPowersOK, TestDomains, Checks, Ended,
     Test!StartMeasurement, Test!Nothing, Test!board, Test!others
<1>3. InOrder' /\ AllBacked'
  BY DEF TestInv, InOrder, AllBacked, Backed, Checks, Ended, Test!StartMeasurement,
     Test!Nothing, Test!board, Test!others
<1>4. Earned'
  BY DEF TestInv, InOrder, Earned, Ended, Test!StartMeasurement, Test!others
<1>5. SwitchedOff' /\ Flagged'
  BY DEF TestInv, SwitchedOff, Test!HasRegulator, Test!RegulatorWorks, Flagged,
     Test!StartMeasurement, Test!Nothing, Test!board, Test!others
<1>6. Weighed'
  BY DEF TestInv, TestPowersOK, TestIsSound, Test!Powers, Weighed, Test!StartMeasurement,
     Test!others
<1> QED
  BY <1>1, <1>2, <1>3, <1>4, <1>5, <1>6 DEF TestInv

(* A round samples every domain, and a sensor that is too hot ends the      *)
(* test.                                                                    *)
LEMMA TestRoundKeeps ==
    ASSUME TestIsSound, TestInv,
           NEW a \in Test!Temps, NEW b \in Test!Temps, NEW sound \in BOOLEAN, Test!Round(a, b, sound)
    PROVE  TestInv'
<1>1. TestFlags'
  BY DEF TestInv, TestFlags, Test!Round, Test!SetFan, Test!board, Test!others
<1>2. TestBoard' /\ TestPowersOK'
  BY DEF TestInv, TestBoard, TestPowersOK, Checks, Ended, Test!Round, Test!SetFan,
     Test!board, Test!others
<1>3. TestDomains'
  <2>1. UNCHANGED <<counter, alive, noisy>>
    BY DEF Test!Round
  <2>2. round' \in 0..TestRounds
    BY DEF TestInv, TestDomains, TestIsSound, Test!Round
  <2>3. average' = average \/ average' = [d \in Domains |-> Test!Sampled(d)]
    BY DEF Test!Round
  <2>4. average' \in [Domains -> [sum : Nat, count : Nat, rejected : Nat, last : Nat]]
    BY <2>3, SampledIsBacked DEF TestInv, TestDomains
  <2> QED
    BY <2>1, <2>2, <2>4 DEF TestInv, TestDomains
<1>4. InOrder'
  <2>1. heated' /\ ~heated => step' = "failed"
    BY HottestDecides DEF Test!Round
  <2> QED
    BY <2>1 DEF TestInv, InOrder, Checks, Ended, Test!Round, Test!others
<1>5. AllBacked'
  <2>1. UNCHANGED <<counter, alive, noisy, measuring>> /\ measuring
    BY DEF Test!Round
  <2>2. CASE average' = average
    BY <2>1, <2>2 DEF TestInv, AllBacked, Backed
  <2>3. CASE average' = [d \in Domains |-> Test!Sampled(d)]
    <3> SUFFICES ASSUME NEW d \in Domains PROVE Backed(d)'
      BY DEF AllBacked
    <3>1. average'[d] = Test!Sampled(d) /\ Backed(d)
      BY <2>1, <2>3 DEF TestInv, AllBacked
    <3> QED
      BY <2>1, <3>1, SampledIsBacked DEF TestInv, Backed
  <2> QED
    BY <2>2, <2>3 DEF Test!Round
<1>6. Earned'
  BY DEF TestInv, InOrder, Earned, Ended, Test!Round, Test!others
<1>7. Weighed' /\ SwitchedOff' /\ Flagged'
  BY DEF TestInv, Weighed, SwitchedOff, Test!HasRegulator, Test!RegulatorWorks, Flagged,
     Test!Round, Test!SetFan, Test!board, Test!others
<1> QED
  BY <1>1, <1>2, <1>3, <1>4, <1>5, <1>6, <1>7 DEF TestInv

(* What is judged is backed: passing takes what it says.                    *)
LEMMA JudgeKeeps ==
    ASSUME TestIsSound, TestInv, Test!Judge
    PROVE  TestInv'
<1>1. TestFlags'
  <2>1. measuring' \in BOOLEAN
    BY Zenon DEF Test!Judge
  <2> QED
    BY <2>1 DEF TestInv, TestFlags, Test!Judge, Test!others, Test!board, Test!history
<1>2. TestBoard' /\ TestPowersOK' /\ TestDomains'
  BY DEF TestInv, TestBoard, TestPowersOK, TestDomains, Checks, Ended, Test!Judge,
     Test!Nothing, Test!history, Test!board, Test!others
<1>3. InOrder' /\ AllBacked'
  BY DEF TestInv, InOrder, AllBacked, Backed, Checks, Ended, Test!Judge, Test!Nothing,
     Test!history, Test!board, Test!others
<1>4. Earned'
  <2>1. /\ UNCHANGED <<result, hashes, alive, noisy, defects, heated>>
        /\ step' = "vcore" => ~(\E d \in Domains : Test!Fails(Test!Sampled(d))) /\ ~(hashes < NeededHashes)
    BY DEF Test!Judge, Test!others, Test!history
  <2>2. measuring /\ step = "measure" /\ step' \in {"failed", "vcore"}
    BY DEF Test!Judge
  <2>3. result = "none" /\ defects = {} /\ ~heated
    BY <2>2 DEF TestInv, InOrder, Checks, Ended
  <2>4. ASSUME step' = "vcore" PROVE hashes >= NeededHashes /\ alive \cup noisy = Domains
    <3>1. ASSUME NEW d \in Domains PROVE d \in alive \cup noisy
      BY <2>1, <2>2, <2>4, SampledIsBacked, JudgedIsBacked DEF TestInv, AllBacked
    <3>2. hashes >= NeededHashes
      BY <2>1, <2>4 DEF TestInv, TestPowersOK, TestIsSound
    <3> QED
      BY <3>1, <3>2 DEF TestInv, TestDomains
  <2> QED
    BY <2>1, <2>2, <2>3, <2>4 DEF Earned
<1>5. Weighed' /\ SwitchedOff' /\ Flagged'
  BY DEF TestInv, Weighed, SwitchedOff, Test!HasRegulator, Test!RegulatorWorks, Flagged,
     Test!Judge, Test!Nothing, Test!history, Test!board, Test!others
<1> QED
  BY <1>1, <1>2, <1>3, <1>4, <1>5 DEF TestInv

(* A nonce is on its way.                                                   *)
LEMMA FindKeeps ==
    ASSUME TestIsSound, TestInv,
           NEW level \in Test!Powers, Test!Find(level)
    PROVE  TestInv'
<1>1. TestFlags'
  BY DEF TestInv, TestFlags, Test!Find, Test!NoNonce, Test!board, Test!history
<1>2. TestBoard' /\ TestPowersOK' /\ TestDomains'
  BY DEF TestInv, TestBoard, TestPowersOK, TestDomains, Checks, Ended, Test!Find,
     Test!NoNonce, Test!board, Test!history
<1>3. InOrder' /\ AllBacked' /\ Earned'
  BY DEF TestInv, InOrder, AllBacked, Backed, Earned, Checks, Ended, Test!Find,
     Test!NoNonce, Test!board, Test!history
<1>4. Weighed' /\ SwitchedOff' /\ Flagged'
  BY DEF TestInv, Weighed, SwitchedOff, Test!HasRegulator, Test!RegulatorWorks, Flagged,
     Test!Find, Test!NoNonce, Test!board, Test!history
<1> QED
  BY <1>1, <1>2, <1>3, <1>4 DEF TestInv

(* What a nonce is counted for was hashed, unless the difficulty was raised.*)
LEMMA RecordAdds ==
    ASSUME TestIsSound, TestInv, Test!Record
    PROVE  \E more \in Nat, made \in Nat :
              /\ hashes' = hashes + more /\ worth' = worth + made
              /\ more <= made \/ raised
<1>1. CASE measuring /\ nonce.level >= target
  <2> DEFINE stands == Test!Max({target, nonce.found})
  <2>1. /\ target \in Test!Powers /\ power \in Test!Powers
        /\ nonce.found \in Test!Powers \cup {Test!None}
    BY <1>1 DEF TestInv, TestPowersOK
  <2>2. target \in Nat /\ nonce.found \in Nat
    BY <2>1 DEF Test!Powers, Test!None
  <2>3. stands \in {target, nonce.found} /\ target <= stands
    BY <2>2, GreaterOfTwo
  <2>4. stands \in Test!Powers
    BY <2>1, <2>2, <2>3 DEF Test!Powers, Test!None
  <2>5. ~raised => power <= stands
    BY <1>1, <2>1, <2>3, <2>4 DEF TestInv, Weighed, Test!Powers
  <2>6. 2 ^ power \in Nat /\ 2 ^ stands \in Nat /\ (power <= stands => 2 ^ power <= 2 ^ stands)
    BY <2>1, <2>4 DEF TestIsSound
  <2>7. hashes' = hashes + 2 ^ power /\ worth' = worth + 2 ^ stands
    BY <1>1 DEF Test!Record
  <2> QED
    BY <2>5, <2>6, <2>7
<1>2. CASE ~(measuring /\ nonce.level >= target)
  <2>1. UNCHANGED <<hashes, worth>>
    BY <1>2 DEF Test!Record
  <2> QED
    BY <2>1 DEF TestInv, TestPowersOK
<1> QED
  BY <1>1, <1>2

(* What is counted is covered, unless the difficulty was raised.            *)
LEMMA RecordKeeps ==
    ASSUME TestIsSound, TestInv, Test!Record
    PROVE  TestInv'
<1>1. TestFlags'
  BY DEF TestInv, TestFlags, Test!Record, Test!NoNonce, Test!board
<1>2. TestBoard' /\ TestDomains'
  BY DEF TestInv, TestBoard, TestDomains, Checks, Ended, Test!Record, Test!NoNonce,
     Test!board
<1>3. TestPowersOK'
  <2>1. UNCHANGED <<power, chip, target, measuring>> /\ nonce' = Test!NoNonce
    BY DEF Test!Record
  <2>2. hashes' \in Nat /\ worth' \in Nat
    BY RecordAdds DEF TestInv, TestPowersOK
  <2> QED
    BY <2>1, <2>2 DEF TestInv, TestPowersOK, Test!NoNonce
<1>4. InOrder' /\ AllBacked'
  BY DEF TestInv, InOrder, AllBacked, Backed, Checks, Ended, Test!Record, Test!NoNonce,
     Test!board
<1>5. Earned'
  BY DEF TestInv, InOrder, Earned, Ended, Test!Record
<1>6. SwitchedOff' /\ Flagged'
  BY DEF TestInv, SwitchedOff, Test!HasRegulator, Test!RegulatorWorks, Flagged,
     Test!Record, Test!NoNonce, Test!board
<1>7. Weighed'
  <2>1. UNCHANGED <<power, target, measuring, raised>>
    BY DEF Test!Record
  <2>2. hashes' <= worth' \/ raised
    BY RecordAdds DEF TestInv, TestPowersOK, Weighed
  <2> QED
    BY <2>1, <2>2 DEF TestInv, Weighed
<1> QED
  BY <1>1, <1>2, <1>3, <1>4, <1>5, <1>6, <1>7 DEF TestInv

(* A counter that shows a rate makes its domain one that hashed, or         *)
(* implausible.                                                             *)
LEMMA MeasureKeeps ==
    ASSUME TestIsSound, TestInv,
           NEW d \in Domains, NEW rate \in Rates, Test!Measure(d, rate)
    PROVE  TestInv'
<1>1. TestFlags'
  BY DEF TestInv, TestFlags, Test!Measure, Test!board
<1>2. TestBoard' /\ TestPowersOK' /\ TestDomains'
  BY DEF TestInv, TestBoard, TestPowersOK, TestDomains, Checks, Ended, Test!Measure,
     Test!board
<1>3. InOrder' /\ AllBacked' /\ Earned'
  BY DEF TestInv, InOrder, AllBacked, Backed, Earned, Checks, Ended, Test!Measure,
     Test!board
<1>4. Weighed' /\ SwitchedOff' /\ Flagged'
  BY DEF TestInv, Weighed, SwitchedOff, Test!HasRegulator, Test!RegulatorWorks, Flagged,
     Test!Measure, Test!board
<1> QED
  BY <1>1, <1>2, <1>3, <1>4 DEF TestInv

(* Power management looks: before the end it switches on, after it it       *)
(* goes.                                                                    *)
LEMMA PmLookKeeps ==
    ASSUME TestIsSound, TestInv, Test!PmLook
    PROVE  TestInv'
<1>1. TestFlags'
  BY DEF TestInv, TestFlags, Test!PmLook, Test!board, Test!measurement, Test!pmOthers
<1>2. TestBoard' /\ TestPowersOK' /\ TestDomains'
  BY DEF TestInv, TestBoard, TestPowersOK, TestDomains, Checks, Ended, Test!PmLook,
     Test!board, Test!measurement, Test!pmOthers
<1>3. InOrder' /\ AllBacked' /\ Earned'
  BY DEF TestInv, InOrder, AllBacked, Backed, Earned, Checks, Ended, Test!PmLook,
     Test!board, Test!measurement, Test!pmOthers
<1>4. Weighed' /\ Flagged'
  BY DEF TestInv, Weighed, Flagged, Test!PmLook, Test!board, Test!measurement,
     Test!pmOthers
<1>5. SwitchedOff'
  <2>1. UNCHANGED <<step, defects, offFailed, tuned, powerFault, finished>>
    BY DEF Test!PmLook, Test!pmOthers
  <2>2. volts => volts'
    BY Zenon DEF Test!PmLook
  <2>3. pm' = "work" => volts' \/ pm = "wait"
    BY Zenon DEF Test!PmLook
  <2>4. finished => volts' = volts
    BY DEF TestInv, TestFlags, Test!PmLook
  <2>5. pm \in {"asleep", "wait"} /\ pm' \in {"gone", "tune", "work"}
    BY DEF Test!PmLook
  <2> QED
    BY <2>1, <2>2, <2>3, <2>4, <2>5 DEF TestInv, TestFlags, InOrder, Ended, SwitchedOff,
       Test!HasRegulator
<1> QED
  BY <1>1, <1>2, <1>3, <1>4, <1>5 DEF TestInv

(* The difficulty changes with the frequency.                               *)
LEMMA PmTuneKeeps ==
    ASSUME TestIsSound, TestInv,
           NEW p \in Test!Powers, Test!PmTune(p)
    PROVE  TestInv'
<1>1. TestFlags'
  BY DEF TestInv, TestFlags, Test!PmTune, Test!board, Test!measurement, Test!pmOthers
<1>2. TestBoard' /\ TestPowersOK' /\ TestDomains'
  BY DEF TestInv, TestBoard, TestPowersOK, TestDomains, Checks, Ended, Test!PmTune,
     Test!board, Test!measurement, Test!pmOthers
<1>3. InOrder' /\ AllBacked' /\ Earned'
  BY DEF TestInv, InOrder, AllBacked, Backed, Earned, Checks, Ended, Test!PmTune,
     Test!board, Test!measurement, Test!pmOthers
<1>4. SwitchedOff' /\ Flagged'
  BY DEF TestInv, SwitchedOff, Test!HasRegulator, Test!RegulatorWorks, Flagged,
     Test!PmTune, Test!board, Test!measurement, Test!pmOthers
<1>5. Weighed'
  <2>1. /\ UNCHANGED <<hashes, worth, measuring, target>> /\ power' = p
        /\ raised' = (raised \/ (p > power /\ measuring))
    BY DEF Test!PmTune, Test!pmOthers, Test!measurement
  <2>2. raised => raised'
    BY Zenon, <2>1
  <2>3. measuring /\ ~raised' => ~raised /\ ~(p > power)
    BY Zenon, <2>1
  <2> QED
    BY <2>1, <2>2, <2>3 DEF TestInv, TestPowersOK, TestIsSound, Test!Powers, Test!None,
       Weighed
<1> QED
  BY <1>1, <1>2, <1>3, <1>4, <1>5 DEF TestInv

(* A round sees the voltage it switched on, unless it was tuning.           *)
LEMMA PmRoundKeeps ==
    ASSUME TestIsSound, TestInv, Test!PmRound
    PROVE  TestInv'
<1>1. TestFlags'
  BY DEF TestInv, TestFlags, Test!PmRound, Test!board, Test!measurement, Test!pmOthers
<1>2. TestBoard' /\ TestPowersOK' /\ TestDomains'
  BY DEF TestInv, TestBoard, TestPowersOK, TestDomains, Checks, Ended, Test!PmRound,
     Test!board, Test!measurement, Test!pmOthers
<1>3. InOrder' /\ AllBacked' /\ Earned'
  BY DEF TestInv, InOrder, AllBacked, Backed, Earned, Checks, Ended, Test!PmRound,
     Test!board, Test!measurement, Test!pmOthers
<1>4. Weighed' /\ SwitchedOff' /\ Flagged'
  BY DEF TestInv, Weighed, SwitchedOff, Test!HasRegulator, Test!RegulatorWorks, Flagged,
     Test!PmRound, Test!board, Test!measurement, Test!pmOthers
<1> QED
  BY <1>1, <1>2, <1>3, <1>4 DEF TestInv

(* The test is over, whatever its result.                                   *)
LEMMA FinishKeeps ==
    ASSUME TestIsSound, TestInv, Test!Finish
    PROVE  TestInv'
<1>1. TestFlags'
  <2>1. measuring' \in BOOLEAN /\ finished' \in BOOLEAN
    BY Zenon DEF Test!Finish
  <2> QED
    BY <2>1 DEF TestInv, TestFlags, Test!Finish, Test!board, Test!history
<1>2. TestBoard' /\ TestPowersOK' /\ TestDomains'
  BY DEF TestInv, TestBoard, TestPowersOK, TestDomains, Checks, Ended, Test!Finish,
     Test!Nothing, Test!HasRegulator, Test!board, Test!history
<1>3. InOrder' /\ AllBacked' /\ Earned'
  BY DEF TestInv, InOrder, AllBacked, Backed, Earned, Checks, Ended, Test!Finish,
     Test!Nothing, Test!HasRegulator, Test!board, Test!history
<1>4. Weighed' /\ SwitchedOff' /\ Flagged'
  BY DEF TestInv, Weighed, SwitchedOff, Test!HasRegulator, Test!RegulatorWorks, Flagged,
     Test!Finish, Test!Nothing, Test!HasRegulator, Test!board, Test!history
<1> QED
  BY <1>1, <1>2, <1>3, <1>4 DEF TestInv

(* The voltage is switched off when power management no longer looks.       *)
LEMMA SwitchOffKeeps ==
    ASSUME TestIsSound, TestInv,
           NEW sound \in BOOLEAN, Test!SwitchOff(sound)
    PROVE  TestInv'
<1>1. TestFlags'
  BY DEF TestInv, TestFlags, Test!SwitchOff, Test!SetFan, Test!Settled, Test!board,
     Test!measurement
<1>2. TestBoard' /\ TestPowersOK' /\ TestDomains'
  BY DEF TestInv, TestBoard, TestPowersOK, TestDomains, Checks, Ended, Test!SwitchOff,
     Test!SetFan, Test!Settled, Test!board, Test!measurement
<1>3. InOrder' /\ AllBacked' /\ Earned'
  BY DEF TestInv, InOrder, AllBacked, Backed, Earned, Checks, Ended, Test!SwitchOff,
     Test!SetFan, Test!Settled, Test!board, Test!measurement
<1>4. Weighed' /\ SwitchedOff' /\ Flagged'
  BY DEF TestInv, Weighed, SwitchedOff, Test!HasRegulator, Test!RegulatorWorks, Flagged,
     Test!SwitchOff, Test!SetFan, Test!Settled, Test!board, Test!measurement
<1> QED
  BY <1>1, <1>2, <1>3, <1>4 DEF TestInv

(* The button.                                                              *)
LEMMA LongPressKeeps ==
    ASSUME TestIsSound, TestInv, Test!LongPress
    PROVE  TestInv'
<1>1. TestFlags'
  BY DEF TestInv, TestFlags, Test!LongPress, Test!board, Test!measurement, Test!history
<1>2. TestBoard' /\ TestPowersOK' /\ TestDomains'
  BY DEF TestInv, TestBoard, TestPowersOK, TestDomains, Checks, Ended, Test!LongPress,
     Test!board, Test!measurement, Test!history
<1>3. InOrder' /\ AllBacked' /\ Earned'
  BY DEF TestInv, InOrder, AllBacked, Backed, Earned, Checks, Ended, Test!LongPress,
     Test!board, Test!measurement, Test!history
<1>4. Weighed' /\ SwitchedOff' /\ Flagged'
  BY DEF TestInv, Weighed, SwitchedOff, Test!HasRegulator, Test!RegulatorWorks, Flagged,
     Test!LongPress, Test!board, Test!measurement, Test!history
<1> QED
  BY <1>1, <1>2, <1>3, <1>4 DEF TestInv

(* The flag is cleared for a reason.                                        *)
LEMMA ClearFlagKeeps ==
    ASSUME TestIsSound, TestInv, Test!ClearFlag
    PROVE  TestInv'
<1>1. TestFlags'
  BY DEF TestInv, TestFlags, Test!ClearFlag, Test!measurement
<1>2. TestBoard' /\ TestPowersOK' /\ TestDomains'
  BY DEF TestInv, TestBoard, TestPowersOK, TestDomains, Checks, Ended, Test!ClearFlag,
     Test!measurement
<1>3. InOrder' /\ AllBacked' /\ Earned'
  BY DEF TestInv, InOrder, AllBacked, Backed, Earned, Checks, Ended, Test!ClearFlag,
     Test!measurement
<1>4. Weighed' /\ SwitchedOff' /\ Flagged'
  BY DEF TestInv, Weighed, SwitchedOff, Test!HasRegulator, Test!RegulatorWorks, Flagged,
     Test!ClearFlag, Test!measurement
<1> QED
  BY <1>1, <1>2, <1>3, <1>4 DEF TestInv

(* The flag is written.                                                     *)
LEMMA WriteFlagKeeps ==
    ASSUME TestIsSound, TestInv, Test!WriteFlag
    PROVE  TestInv'
<1>1. TestFlags'
  BY DEF TestInv, TestFlags, Test!WriteFlag, Test!measurement, Test!history
<1>2. TestBoard' /\ TestPowersOK' /\ TestDomains'
  BY DEF TestInv, TestBoard, TestPowersOK, TestDomains, Checks, Ended, Test!WriteFlag,
     Test!measurement, Test!history
<1>3. InOrder' /\ AllBacked' /\ Earned'
  BY DEF TestInv, InOrder, AllBacked, Backed, Earned, Checks, Ended, Test!WriteFlag,
     Test!measurement, Test!history
<1>4. Weighed' /\ SwitchedOff' /\ Flagged'
  BY DEF TestInv, Weighed, SwitchedOff, Test!HasRegulator, Test!RegulatorWorks, Flagged,
     Test!WriteFlag, Test!measurement, Test!history
<1> QED
  BY <1>1, <1>2, <1>3, <1>4 DEF TestInv

(* Without power everything begins again, but the flag.                     *)
LEMMA PowerDownKeeps ==
    ASSUME TestIsSound, TestInv, Test!PowerDown
    PROVE  TestInv'
<1>1. TestFlags'
  BY DEF TestInv, TestFlags, Test!PowerDown, Test!Nothing, Test!NoNonce, Test!None
<1>2. TestBoard'
  BY DEF TestInv, TestBoard, Checks, Ended, Test!PowerDown, Test!Nothing, Test!NoNonce,
     Test!None
<1>3. TestPowersOK'
  BY DEF TestIsSound, TestPowersOK, Test!PowerDown, Test!NoNonce, Test!None
<1>4. TestDomains'
  BY DEF TestIsSound, TestDomains, Test!PowerDown, Test!Nothing
<1>5. InOrder' /\ AllBacked' /\ Earned'
  BY DEF TestInv, InOrder, AllBacked, Backed, Earned, Checks, Ended, Test!PowerDown,
     Test!Nothing, Test!NoNonce, Test!None
<1>6. Weighed' /\ SwitchedOff' /\ Flagged'
  BY DEF TestInv, Weighed, SwitchedOff, Test!HasRegulator, Test!RegulatorWorks, Flagged,
     Test!PowerDown, Test!Nothing, Test!NoNonce, Test!None
<1> QED
  BY <1>1, <1>2, <1>3, <1>4, <1>5, <1>6 DEF TestInv

(* The invariant holds at first: nothing was measured.                      *)
LEMMA TestBegins == ASSUME TestIsSound, Test!Init PROVE TestInv
<1> USE DEF Test!Init, Test!Idle
<1>1. TestFlags
  BY DEF TestFlags
<1>2. TestBoard
  BY DEF TestBoard
<1>3. TestPowersOK
  BY DEF TestIsSound, TestPowersOK, Test!NoNonce, Test!None
<1>4. TestDomains
  BY DEF TestIsSound, TestDomains, Test!Nothing
<1>5. InOrder /\ AllBacked /\ Earned
  BY DEF InOrder, AllBacked, Earned, Checks, Ended
<1>6. Weighed /\ SwitchedOff
  BY DEF Weighed, SwitchedOff, Test!HasRegulator, Test!RegulatorWorks
<1>7. Flagged
  BY Zenon DEF Flagged
<1> QED
  BY <1>1, <1>2, <1>3, <1>4, <1>5, <1>6, <1>7 DEF TestInv

(* Every step of the self test keeps the invariant.                         *)
LEMMA TestKeeps == TestIsSound /\ TestInv /\ [Test!Next]_(Test!vars) => TestInv'
<1> SUFFICES ASSUME TestIsSound, TestInv, [Test!Next]_(Test!vars) PROVE TestInv'
  OBVIOUS
<1>1. CASE UNCHANGED Test!vars
  <2>1. /\ UNCHANGED <<flag, cached, best, factory, defects, step, finished, result, pressed>>
        /\ UNCHANGED <<volts, pm, retune, power, chip, measuring, target, hashes, round>>
        /\ UNCHANGED <<counter, average, nonce, worth, heated, offFailed, raised, alive, noisy>>
        /\ UNCHANGED <<tuned, powerFault, cleared>>
    BY Zenon, <1>1 DEF Test!vars, Test!board, Test!measurement, Test!history
  <2>2. TestFlags' /\ TestBoard' /\ TestPowersOK' /\ TestDomains'
    BY <2>1 DEF TestInv, TestFlags, TestBoard, TestPowersOK, TestDomains
  <2>3. InOrder' /\ AllBacked' /\ Earned'
    BY <2>1 DEF TestInv, InOrder, AllBacked, Backed, Earned
  <2>4. Weighed' /\ SwitchedOff' /\ Flagged'
    BY <2>1 DEF TestInv, Weighed, SwitchedOff, Flagged, Test!HasRegulator,
       Test!RegulatorWorks
  <2> QED
    BY <2>2, <2>3, <2>4 DEF TestInv
<1>2. CASE Test!Reset \/ Test!Restart
  BY <1>2, PowerDownKeeps DEF Test!Reset, Test!Restart
<1> QED
  BY Zenon, <1>1, <1>2, StartKeeps, MineKeeps, CheckKeeps, AnnounceKeeps, WarmingKeeps,
     MeasurementKeeps, TestRoundKeeps, JudgeKeeps, FindKeeps, RecordKeeps, MeasureKeeps,
     PmLookKeeps, PmTuneKeeps, PmRoundKeeps, FinishKeeps, SwitchOffKeeps, LongPressKeeps,
     ClearFlagKeeps, WriteFlagKeeps DEF Test!Next

(* The self test's data has its types.                                      *)
THEOREM TestTypes == ASSUME TestIsSound PROVE Test!Spec => []Test!TypeOK
<1>1. Test!Init => TestInv
  BY TestBegins
<1>2. TestInv /\ [Test!Next]_(Test!vars) => TestInv'
  BY TestKeeps
<1>3. TestInv => Test!TypeOK
  <2> SUFFICES ASSUME TestInv PROVE Test!TypeOK
    OBVIOUS
  <2>1. {flag, cached, best, factory, finished, pressed, volts, retune, measuring} \subseteq BOOLEAN
    BY Zenon DEF TestInv, TestFlags
  <2> QED
    BY <2>1 DEF TestInv, TestBoard, TestPowersOK, TestDomains, Test!TypeOK
<1> QED
  BY <1>1, <1>2, <1>3, PTL DEF Test!Spec

(* A test that passes was earned, its hashes were made, the core is without *)
(* voltage at the end, and the flag is only cleared by passing or by hand.  *)
THEOREM SelfTestIsHonestAlways ==
    ASSUME TestIsSound PROVE PartsSpec => []SelfTestIsHonest
<1> DEFINE P == part = "test" => TestInv
<1>1. PartsInit => P
  BY Zenon, TestBegins DEF PartsInit
<1>2. P /\ [PartsNext]_partsVars => P'
  BY Zenon, TestKeeps DEF PartsNext, partsVars
<1>3. TestInv => Test!SelfTestIsHonest
  BY Zenon DEF TestInv, Earned, Weighed, SwitchedOff, Flagged, Test!SelfTestIsHonest,
     Test!PassIsEarned
<1>4. P => SelfTestIsHonest
  BY Zenon, <1>3 DEF SelfTestIsHonest
<1> QED
  BY <1>1, <1>2, <1>4, PTL DEF PartsSpec

---------------------------------------------------------------------------
(* The hashrate monitor: a register has values, and an update that follows  *)
(* another one in the same tick is a burst.                                 *)
RegisterIsSound ==
    Width \in Nat \ {0} /\ Burst \in Nat \ {0} /\ HashTime \in Nat \ {0} /\ MaxStops \in Nat

(* What a register counted from one value to another, if it did not go round*)
(* more than once.                                                          *)
CountedUp(from, to) == (to - from + Width) % Width
Values == 0..(Width - 1)

(* An answer of the chip as it runs now.                                    *)
UpToDate == answer # Rate!NoAnswer /\ answer.stops = stops

---------------------------------------------------------------------------
(* The inductive invariant.                                                 *)
RateData ==
    /\ now \in 1..HashTime /\ counter \in Values /\ mpc \in {"poll", "sum"}
    /\ answer \in [value : Values, time : 0..now, stops : 0..stops] /\ stops \in Nat
    /\ measurement \in [value : Values, time : 0..now,
                        rate : [count : Values, duration : Nat \ {0}]]
    /\ current \in [count : Values, duration : Nat \ {0}]
    /\ answer.time = 0 => answer = Rate!NoAnswer

RateFlags ==
    initialized \in BOOLEAN /\ was \in BOOLEAN /\ seen \in BOOLEAN /\ late \in BOOLEAN

(* An answer asked for since the last stop tells of the chip that runs, and *)
(* the monitor has seen it run.                                             *)
AnswerCounts ==
    UpToDate => /\ was /\ initialized
                /\ CountedUp(answer.value, counter) <= now - answer.time

(* A measurement is of the chip that runs, or of the one that has stopped   *)
(* and is not forgotten yet; an answer on its way comes after it.           *)
MeasurementCounts ==
    /\ current.count <= current.duration
    /\ measurement.rate.count <= measurement.rate.duration
    /\ measurement.time # 0 =>
         /\ was /\ CountedUp(measurement.value, counter) <= now - measurement.time
         /\ UpToDate => /\ measurement.time <= answer.time
                        /\ CountedUp(measurement.value, answer.value) <=
                             answer.time - measurement.time
    /\ ~initialized /\ seen => measurement.time = 0

RateInv == RateData /\ RateFlags /\ AnswerCounts /\ (~late => MeasurementCounts)

---------------------------------------------------------------------------
(* A remainder within two rounds of the register.                           *)
LEMMA RemainderOfTwoRounds ==
    ASSUME NEW w \in Nat \ {0}, NEW x \in 0..(2 * w - 1)
    PROVE  x % w = IF x < w THEN x ELSE x - w
OBVIOUS

(* What is counted is less than a round; nothing to begin with; and one tick*)
(* counts one more at most.                                                 *)
LEMMA CountedIsValue ==
    ASSUME RegisterIsSound, NEW a \in Values, NEW b \in Values
    PROVE  /\ CountedUp(a, b) = IF a <= b THEN b - a ELSE b - a + Width
           /\ CountedUp(a, b) \in Values /\ CountedUp(a, a) = 0
<1>1. b - a + Width \in 0..(2 * Width - 1) /\ a - a + Width \in 0..(2 * Width - 1)
  BY DEF RegisterIsSound, Values
<1>0. Width \in Nat \ {0}
  BY DEF RegisterIsSound
<1> DEFINE x == b - a + Width
           y == a - a + Width
<1>2. CountedUp(a, b) = IF x < Width THEN x ELSE x - Width
  <2> HIDE DEF x
  <2>1. x \in 0..(2 * Width - 1)
    BY <1>1 DEF x
  <2>2. x % Width = IF x < Width THEN x ELSE x - Width
    BY <1>0, <2>1, RemainderOfTwoRounds
  <2> QED
    BY <2>2 DEF x, CountedUp
<1>3. CountedUp(a, a) = IF y < Width THEN y ELSE y - Width
  <2> HIDE DEF y
  <2>1. y \in 0..(2 * Width - 1)
    BY <1>1 DEF y
  <2>2. y % Width = IF y < Width THEN y ELSE y - Width
    BY <1>0, <2>1, RemainderOfTwoRounds
  <2> QED
    BY <2>2 DEF y, CountedUp
<1> QED
  BY <1>2, <1>3 DEF RegisterIsSound, Values

LEMMA CountsOneMore ==
    ASSUME RegisterIsSound, NEW a \in Values, NEW b \in Values
    PROVE  (b + 1) % Width \in Values /\ CountedUp(a, (b + 1) % Width) <= CountedUp(a, b) + 1
<1>1. b + 1 \in 0..(2 * Width - 1)
  BY DEF RegisterIsSound, Values
<1> DEFINE x == b + 1
<1>2. x % Width = IF x < Width THEN x ELSE x - Width
  <2> HIDE DEF x
  <2>1. x \in 0..(2 * Width - 1) /\ Width \in Nat \ {0}
    BY <1>1 DEF x, RegisterIsSound
  <2> QED
    BY <2>1, RemainderOfTwoRounds
<1>3. (b + 1) % Width \in Values
  BY <1>2 DEF RegisterIsSound, Values
<1>4. CountedUp(a, b) = IF a <= b THEN b - a ELSE b - a + Width
  BY CountedIsValue
<1> DEFINE c == (b + 1) % Width
<1>5. CountedUp(a, c) = IF a <= c THEN c - a ELSE c - a + Width
  BY <1>3, CountedIsValue
<1> QED
  BY <1>2, <1>3, <1>4, <1>5 DEF RegisterIsSound, Values

---------------------------------------------------------------------------
LEMMA RateBegins == ASSUME RegisterIsSound, Rate!Init PROVE RateInv
<1>1. RateFlags
  BY Zenon DEF Rate!Init, RateFlags
<1>2. RateData
  BY DEF Rate!Init, RateData, RegisterIsSound, Values, Rate!NoAnswer, Rate!Cleared,
     Rate!NoRate
<1>3. AnswerCounts /\ MeasurementCounts
  BY DEF Rate!Init, AnswerCounts, MeasurementCounts, UpToDate, Rate!Cleared, Rate!NoRate
<1> QED
  BY <1>1, <1>2, <1>3 DEF RateInv

(* Time: what is counted grows by one at most.                              *)
LEMMA RateTickKeeps == ASSUME RegisterIsSound, RateInv, Rate!Tick PROVE RateInv'
<1>1. RateData /\ RateFlags /\ AnswerCounts
  BY DEF RateInv
<1>2. /\ UNCHANGED <<initialized, was, mpc, answer, late, measurement, current, seen, stops>>
      /\ now' = now + 1 /\ now' \in 1..HashTime
      /\ counter' \in {counter, (counter + 1) % Width}
  BY <1>1 DEF Rate!Tick, RateData, RegisterIsSound
<1>3. counter' \in Values
  BY <1>1, <1>2, CountsOneMore DEF RateData
<1>4. ASSUME NEW a \in Values PROVE CountedUp(a, counter') <= CountedUp(a, counter) + 1
  <2>1. CountedUp(a, counter) \in Nat
    BY <1>1, CountedIsValue DEF RateData, Values
  <2> QED
    BY <1>1, <1>2, <2>1, CountsOneMore DEF RateData
<1>5. ASSUME NEW a \in Values PROVE CountedUp(a, counter) \in Nat /\ CountedUp(a, counter') \in Nat
  BY <1>1, <1>3, CountedIsValue DEF RateData, Values
<1>6. RateData'
  BY <1>1, <1>2, <1>3 DEF RateData
<1>7. RateFlags'
  BY <1>1, <1>2 DEF RateFlags
<1>8. AnswerCounts'
  BY <1>1, <1>2, <1>4, <1>5 DEF AnswerCounts, UpToDate, RateData
<1>9. ~late' => MeasurementCounts'
  BY <1>1, <1>2, <1>4, <1>5 DEF RateInv, MeasurementCounts, UpToDate, RateData
<1> QED
  BY <1>6, <1>7, <1>8, <1>9 DEF RateInv

(* A stop: no answer is of the chip that runs next.                         *)
LEMMA RateStopKeeps == ASSUME RegisterIsSound, RateInv, Rate!Stop PROVE RateInv'
<1>1. RateFlags'
  BY Zenon DEF RateInv, RateFlags, Rate!Stop
<1>2. RateData'
  BY DEF RateInv, RateData, Rate!Stop
<1>3. AnswerCounts'
  BY DEF RateInv, RateData, AnswerCounts, UpToDate, Rate!Stop
<1>4. ~late' => MeasurementCounts'
  BY <1>1 DEF RateInv, RateData, MeasurementCounts, UpToDate, Rate!Stop
<1> QED
  BY <1>1, <1>2, <1>3, <1>4 DEF RateInv

(* A start: the monitor has forgotten the chip that stopped.                *)
LEMMA RateStartKeeps == ASSUME RegisterIsSound, RateInv, Rate!Start PROVE RateInv'
<1>1. RateFlags'
  BY Zenon DEF RateInv, RateFlags, Rate!Start
<1>2. RateData'
  BY DEF RateInv, RateData, RegisterIsSound, Values, Rate!Start
<1>3. AnswerCounts'
  BY Zenon DEF RateInv, AnswerCounts, UpToDate, Rate!Start
<1>4. ~late' => MeasurementCounts'
  BY <1>1 DEF RateInv, MeasurementCounts, UpToDate, Rate!Start
<1> QED
  BY <1>1, <1>2, <1>3, <1>4 DEF RateInv

(* The monitor polls: an answer tells of now.                               *)
LEMMA RatePollKeeps == ASSUME RegisterIsSound, RateInv, Rate!Poll PROVE RateInv'
<1>0. RateData /\ RateFlags /\ AnswerCounts
  BY DEF RateInv
<1>1. CASE initialized
  <2>1. /\ was' = initialized /\ mpc' = "sum"
        /\ UNCHANGED <<now, initialized, counter, late, stops, current, seen>>
    BY <1>1 DEF Rate!Poll
  <2>2. measurement' = measurement
    BY Zenon, <1>1 DEF Rate!Poll, Rate!JustStopped
  <2>3. CASE answer # Rate!NoAnswer
    <3>1. answer' = answer
      BY <1>1, <2>3 DEF Rate!Poll
    <3> QED
      BY <1>0, <1>1, <2>1, <2>2, <3>1 DEF RateInv, RateData, RateFlags, AnswerCounts,
         MeasurementCounts, UpToDate
  <2>4. CASE answer = Rate!NoAnswer
    <3>1. answer' = [value |-> counter, time |-> now, stops |-> stops]
      BY <1>1, <2>4 DEF Rate!Poll
    <3>2. RateData'
      BY <1>0, <2>1, <2>2, <3>1 DEF RateData
    <3>3. RateFlags'
      BY <1>0, <2>1 DEF RateFlags
    <3>4. CountedUp(counter, counter) = 0
      BY <1>0, CountedIsValue DEF RateData
    <3>5. AnswerCounts'
      BY <1>0, <1>1, <2>1, <3>1, <3>4 DEF AnswerCounts, RateData
    <3>6. ~late' => MeasurementCounts'
      BY <1>0, <1>1, <2>1, <2>2, <3>1 DEF RateInv, RateData, MeasurementCounts
    <3> QED
      BY <3>2, <3>3, <3>5, <3>6 DEF RateInv
  <2> QED
    BY <2>3, <2>4
<1>2. CASE ~initialized
  <2>1. /\ was' = initialized /\ mpc' = "poll" /\ current' = Rate!NoRate /\ seen' = TRUE
        /\ UNCHANGED <<now, initialized, counter, late, stops, answer>>
    BY <1>2 DEF Rate!Poll
  <2>2. measurement' = IF was THEN Rate!Cleared ELSE measurement
    BY Zenon, <1>2 DEF Rate!Poll, Rate!JustStopped
  <2>3. RateFlags'
    BY <1>0, <2>1 DEF RateFlags
  <2>4. RateData'
    BY <1>0, <2>1, <2>2 DEF RateData, Rate!Cleared, Rate!NoRate, RegisterIsSound, Values
  <2>5. ~UpToDate /\ ~UpToDate'
    BY <1>0, <1>2, <2>1 DEF AnswerCounts, UpToDate
  <2>6. ~late => measurement'.time = 0 /\ measurement'.rate.count <= measurement'.rate.duration
    <3>1. CASE was
      BY <2>2, <3>1 DEF Rate!Cleared, Rate!NoRate
    <3>2. CASE ~was
      BY <2>2, <3>2 DEF RateInv, MeasurementCounts
    <3> QED
      BY <3>1, <3>2
  <2>7. ~late' => MeasurementCounts'
    BY <2>1, <2>6 DEF MeasurementCounts, Rate!NoRate
  <2> QED
    BY <2>3, <2>4, <2>5, <2>7 DEF RateInv, AnswerCounts
<1> QED
  BY <1>1, <1>2

(* The sum is a measurement; a session that ends clears it; a lost answer.  *)
LEMMA RateOthersKeep ==
    ASSUME RegisterIsSound, RateInv, Rate!Sum \/ Rate!SessionEnds \/ Rate!LoseAnswer
    PROVE  RateInv'
<1>1. CASE Rate!Sum
  <2>1. UNCHANGED <<now, initialized, counter, was, answer, late, measurement, seen, stops>>
        /\ current' = measurement.rate /\ mpc' = "poll"
    BY <1>1 DEF Rate!Sum
  <2> QED
    BY <2>1 DEF RateInv, RateData, RateFlags, AnswerCounts, MeasurementCounts, UpToDate
<1>2. CASE Rate!SessionEnds
  <2>1. UNCHANGED <<now, initialized, counter, was, mpc, answer, late, current, seen, stops>>
        /\ measurement' = Rate!Cleared
    BY <1>2 DEF Rate!SessionEnds
  <2>2. RateData'
    BY <2>1 DEF RateInv, RateData, Rate!Cleared, Rate!NoRate, RegisterIsSound, Values
  <2>3. RateFlags' /\ AnswerCounts'
    BY <2>1 DEF RateInv, RateFlags, AnswerCounts, UpToDate
  <2>4. ~late' => MeasurementCounts'
    BY <2>1 DEF RateInv, MeasurementCounts, Rate!Cleared, Rate!NoRate
  <2> QED
    BY <2>2, <2>3, <2>4 DEF RateInv
<1>3. CASE Rate!LoseAnswer
  <2>1. UNCHANGED <<now, initialized, counter, was, mpc, late, measurement, current, seen, stops>>
        /\ answer' = Rate!NoAnswer
    BY <1>3 DEF Rate!LoseAnswer
  <2>2. RateData'
    BY <2>1 DEF RateInv, RateData, Rate!NoAnswer, RegisterIsSound, Values
  <2> QED
    BY <2>1, <2>2 DEF RateInv, RateFlags, AnswerCounts, MeasurementCounts, UpToDate
<1> QED
  BY <1>1, <1>2, <1>3

(* An answer is handled: if it is not late it is of the chip that runs, and *)
(* it was counted as long as the time between.                              *)
LEMMA HandleAnswerKeeps == ASSUME RegisterIsSound, RateInv, Rate!HandleAnswer PROVE RateInv'
<1>1. RateData /\ RateFlags /\ AnswerCounts
  BY DEF RateInv
<1>2. /\ UNCHANGED <<now, initialized, counter, was, mpc, current, seen, stops>>
      /\ answer # Rate!NoAnswer /\ answer' = Rate!NoAnswer
      /\ measurement' = Rate!Updated(answer.value, answer.time)
  BY DEF Rate!HandleAnswer
<1>3. RateFlags'
  BY Zenon, <1>1 DEF RateFlags, Rate!HandleAnswer
<1>4. ~late' => ~late /\ initialized /\ UpToDate
  BY Zenon, <1>2 DEF Rate!HandleAnswer, UpToDate
<1>5. /\ answer.value \in Values /\ answer.time \in 1..now
      /\ measurement.value \in Values /\ measurement.time \in 0..now
      /\ measurement \in [value : Values, time : 0..now,
                          rate : [count : Values, duration : Nat \ {0}]]
  BY <1>1, <1>2 DEF RateData, RegisterIsSound
<1> DEFINE growth == CountedUp(measurement.value, answer.value)
<1>6. growth \in Values
  BY <1>5, CountedIsValue
<1>7. \/ measurement.time = 0
         /\ measurement' = [value |-> answer.value, time |-> answer.time, rate |-> measurement.rate]
      \/ measurement' = measurement
      \/ /\ measurement.time # 0 /\ answer.time - measurement.time >= Burst
         /\ measurement' = [value |-> answer.value, time |-> answer.time,
                            rate |-> [count |-> growth,
                                      duration |-> answer.time - measurement.time]]
  <2>1. CASE measurement.time = 0
    <3>1. measurement' = [measurement EXCEPT !.value = answer.value, !.time = answer.time]
      BY <1>2, <2>1 DEF Rate!Updated
    <3>2. measurement = [value |-> measurement.value, time |-> measurement.time,
                         rate |-> measurement.rate]
      BY <1>5
    <3>3. measurement' = [value |-> answer.value, time |-> answer.time, rate |-> measurement.rate]
      BY <3>1, <3>2
    <3> QED
      BY <2>1, <3>3
  <2>2. CASE measurement.time # 0 /\ answer.time - measurement.time < Burst
    BY <1>2, <2>2 DEF Rate!Updated
  <2>3. CASE measurement.time # 0 /\ ~(answer.time - measurement.time < Burst)
    <3>1. measurement' = [value |-> answer.value, time |-> answer.time,
                          rate |-> [count |-> growth,
                                    duration |-> answer.time - measurement.time]]
      BY <1>2, <2>3 DEF Rate!Updated, CountedUp
    <3>2. answer.time - measurement.time >= Burst
      BY <1>5, <2>3 DEF RegisterIsSound
    <3> QED
      BY <2>3, <3>1, <3>2
  <2> QED
    BY <2>1, <2>2, <2>3
<1>8. RateData'
  <2>1. measurement' \in [value : Values, time : 0..now,
                          rate : [count : Values, duration : Nat \ {0}]]
    BY <1>5, <1>6, <1>7 DEF RegisterIsSound
  <2>2. answer' \in [value : Values, time : 0..now, stops : 0..stops]
    BY <1>1, <1>2 DEF RateData, Rate!NoAnswer, RegisterIsSound, Values
  <2> QED
    BY <1>1, <1>2, <2>1, <2>2 DEF RateData
<1>9. ~UpToDate'
  BY <1>2 DEF UpToDate
<1>10. ASSUME ~late' PROVE MeasurementCounts'
  <2>1. /\ MeasurementCounts /\ was /\ initialized /\ UpToDate
        /\ CountedUp(answer.value, counter) <= now - answer.time
    BY <1>1, <1>4, <1>10 DEF RateInv, AnswerCounts
  <2>2. measurement'.rate.count <= measurement'.rate.duration
    BY <1>5, <1>7, <2>1 DEF MeasurementCounts
  <2>3. CountedUp(measurement'.value, counter) <= now - measurement'.time \/ measurement'.time = 0
    BY <1>5, <1>7, <2>1 DEF MeasurementCounts
  <2> QED
    BY <1>2, <1>9, <2>1, <2>2, <2>3 DEF MeasurementCounts
<1> QED
  BY <1>3, <1>8, <1>9, <1>10 DEF RateInv, AnswerCounts

(* Every step keeps the invariant.                                          *)
LEMMA RateKeeps == RegisterIsSound /\ RateInv /\ [Rate!Next]_(Rate!vars) => RateInv'
<1> SUFFICES ASSUME RegisterIsSound, RateInv, [Rate!Next]_(Rate!vars) PROVE RateInv'
  OBVIOUS
<1>1. CASE UNCHANGED Rate!vars
  BY <1>1 DEF Rate!vars, RateInv, RateData, RateFlags, AnswerCounts, MeasurementCounts,
     UpToDate
<1> QED
  BY Zenon, <1>1, RateTickKeeps, RateStopKeeps, RateStartKeeps, RatePollKeeps,
     RateOthersKeep,
     HandleAnswerKeeps DEF Rate!Next

(* Unless an answer is handled after a stop, the hashrate shown never       *)
(* exceeds what the chip can do.                                            *)
LEMMA RateIsPlausible == ASSUME RateInv PROVE Rate!HashrateIsPlausible
BY DEF RateInv, MeasurementCounts, Rate!HashrateIsPlausible

(* The monitor's data has its types.                                        *)
THEOREM RateTypes == ASSUME RegisterIsSound PROVE Rate!Spec => []Rate!TypeOK
<1>1. Rate!Init => RateInv
  BY RateBegins
<1>2. RateInv /\ [Rate!Next]_(Rate!vars) => RateInv'
  BY RateKeeps
<1>3. RateInv => Rate!TypeOK
  BY DEF RateInv, RateData, RateFlags, Rate!TypeOK, Rate!Rate, Values
<1> QED
  BY <1>1, <1>2, <1>3, PTL DEF Rate!Spec

---------------------------------------------------------------------------
(* Halving the rows from l to h at a split: what is left of them is narrowed*)
(* further, down to one.                                                    *)
Places(n) == (0..n) \X (0..n)
SplitsWithin(s, n) ==
    \A l, h \in 0..n : h - l > 1 => s[<<l, h>>] \in (l + 1)..h
Halved(f, s, l, h) ==
    IF h - l <= 1 THEN l
    ELSE IF s[<<l, h>>] - l > h - s[<<l, h>>] + 1 THEN f[<<l, s[<<l, h>>] - 1>>] ELSE f[<<s[<<l, h>>], h>>]
HalvesUpTo(f, s, n, width) ==
    \A l, h \in 0..n : h - l <= width => f[<<l, h>>] = Halved(f, s, l, h)
HalvingExists(s, n, width) ==
    \E f \in [Places(n) -> 0..n] : HalvesUpTo(f, s, n, width)

(* A half is smaller than the whole, and has two rows if the whole has more.*)
LEMMA HalvesAreSmaller ==
    ASSUME NEW n \in Nat, NEW s, SplitsWithin(s, n),
           NEW l \in 0..n, NEW h \in 0..n, h - l > 1
    PROVE  /\ s[<<l, h>>] \in 0..n /\ s[<<l, h>>] > l /\ s[<<l, h>>] <= h
           /\ s[<<l, h>>] - l > h - s[<<l, h>>] + 1 => s[<<l, h>>] - 1 - l >= 1 /\ s[<<l, h>>] - 1 \in 0..n
           /\ ~(s[<<l, h>>] - l > h - s[<<l, h>>] + 1) => h - s[<<l, h>>] >= 1
<1> DEFINE m == s[<<l, h>>]
<1>1. m \in (l + 1)..h
  BY DEF SplitsWithin
<1> HIDE DEF m
<1>2. /\ m \in 0..n /\ m > l /\ m <= h
      /\ m - l > h - m + 1 => m - 1 - l >= 1 /\ m - 1 \in 0..n
      /\ ~(m - l > h - m + 1) => h - m >= 1
  BY <1>1
<1> QED
  BY <1>2 DEF m

(* What is halved from wider rows rests on what is halved from narrower ones.*)
LEMMA HalvingGrows ==
    ASSUME NEW n \in Nat, NEW s, SplitsWithin(s, n), NEW width \in Nat,
           HalvingExists(s, n, width)
    PROVE  HalvingExists(s, n, width + 1)
<1>1. PICK f \in [Places(n) -> 0..n] : HalvesUpTo(f, s, n, width)
  BY DEF HalvingExists
<1> DEFINE g == [p \in Places(n) |-> IF p[2] - p[1] = width + 1 THEN Halved(f, s, p[1], p[2])
                                     ELSE f[p]]
<1>2. ASSUME NEW l \in 0..n, NEW h \in 0..n
      PROVE  Halved(f, s, l, h) \in 0..n
  <2>1. CASE h - l <= 1
    BY <2>1 DEF Halved
  <2>2. CASE h - l > 1 /\ s[<<l, h>>] - l > h - s[<<l, h>>] + 1
    <3>1. s[<<l, h>>] - 1 \in 0..n
      BY <2>2, HalvesAreSmaller
    <3>2. <<l, s[<<l, h>>] - 1>> \in Places(n)
      BY <3>1 DEF Places
    <3>3. f[<<l, s[<<l, h>>] - 1>>] \in 0..n
      BY <1>1, <3>2
    <3> QED
      BY <2>2, <3>3 DEF Halved
  <2>3. CASE h - l > 1 /\ ~(s[<<l, h>>] - l > h - s[<<l, h>>] + 1)
    <3>1. s[<<l, h>>] \in 0..n
      BY <2>3, HalvesAreSmaller
    <3>2. <<s[<<l, h>>], h>> \in Places(n)
      BY <3>1 DEF Places
    <3>3. f[<<s[<<l, h>>], h>>] \in 0..n
      BY <1>1, <3>2
    <3> QED
      BY <2>3, <3>3 DEF Halved
  <2> QED
    BY <2>1, <2>2, <2>3
<1>3. ASSUME NEW l \in 0..n, NEW h \in 0..n
      PROVE  g[<<l, h>>] = IF h - l = width + 1 THEN Halved(f, s, l, h) ELSE f[<<l, h>>]
  <2>1. <<l, h>> \in Places(n) /\ <<l, h>>[1] = l /\ <<l, h>>[2] = h
    BY DEF Places
  <2> QED
    BY <2>1
<1>4. g \in [Places(n) -> 0..n]
  <2>1. ASSUME NEW p \in Places(n)
        PROVE  (IF p[2] - p[1] = width + 1 THEN Halved(f, s, p[1], p[2]) ELSE f[p]) \in 0..n
    <3>1. p[1] \in 0..n /\ p[2] \in 0..n
      BY DEF Places
    <3>2. Halved(f, s, p[1], p[2]) \in 0..n
      BY <1>2, <3>1
    <3> QED
      BY <1>1, <3>2
  <2> QED
    BY <2>1
<1> HIDE DEF g
<1>5. ASSUME NEW l \in 0..n, NEW h \in 0..n, h - l <= width + 1
      PROVE  Halved(g, s, l, h) = Halved(f, s, l, h)
  <2>1. CASE h - l <= 1
    BY <2>1 DEF Halved
  <2>2. CASE h - l > 1 /\ s[<<l, h>>] - l > h - s[<<l, h>>] + 1
    <3> DEFINE m == s[<<l, h>>]
    <3>1. m - 1 \in 0..n /\ m \in 0..n /\ m <= h
      BY <2>2, HalvesAreSmaller
    <3> HIDE DEF m
    <3>2. m - 1 - l <= width
      BY <1>5, <3>1
    <3>3. g[<<l, m - 1>>] = f[<<l, m - 1>>]
      BY <1>3, <3>1, <3>2
    <3>4. g[<<l, s[<<l, h>>] - 1>>] = f[<<l, s[<<l, h>>] - 1>>]
      BY <3>3 DEF m
    <3> QED
      BY <2>2, <3>4 DEF Halved
  <2>3. CASE h - l > 1 /\ ~(s[<<l, h>>] - l > h - s[<<l, h>>] + 1)
    <3> DEFINE m == s[<<l, h>>]
    <3>1. m \in 0..n /\ m > l
      BY <2>3, HalvesAreSmaller
    <3> HIDE DEF m
    <3>2. h - m <= width
      BY <1>5, <3>1
    <3>3. g[<<m, h>>] = f[<<m, h>>]
      BY <1>3, <3>1, <3>2
    <3>4. g[<<s[<<l, h>>], h>>] = f[<<s[<<l, h>>], h>>]
      BY <3>3 DEF m
    <3> QED
      BY <2>3, <3>4 DEF Halved
  <2> QED
    BY <2>1, <2>2, <2>3
<1>6. ASSUME NEW l \in 0..n, NEW h \in 0..n, h - l <= width + 1
      PROVE  g[<<l, h>>] = Halved(g, s, l, h)
  <2>1. CASE h - l = width + 1
    BY <1>3, <1>5, <1>6, <2>1
  <2>2. CASE h - l <= width
    <3>1. g[<<l, h>>] = f[<<l, h>>]
      BY <1>3, <2>2
    <3>2. f[<<l, h>>] = Halved(f, s, l, h)
      BY <1>1, <2>2 DEF HalvesUpTo
    <3> QED
      BY <1>5, <1>6, <3>1, <3>2
  <2> QED
    BY <1>6, <2>1, <2>2
<1>7. HalvesUpTo(g, s, n, width + 1)
  BY <1>6 DEF HalvesUpTo
<1> QED
  BY <1>4, <1>7 DEF HalvingExists

(* There is a function that halves rows of any width: of the widths for     *)
(* which there is none, the least would follow one for which there is one.  *)
LEMMA HalvingAlwaysExists ==
    ASSUME NEW n \in Nat, NEW s, SplitsWithin(s, n), NEW width \in Nat
    PROVE  HalvingExists(s, n, width)
<1> DEFINE wrong == {w \in Nat : ~HalvingExists(s, n, w)}
           Less == OpToRel(<, Nat)
<1>1. HalvingExists(s, n, 0)
  <2> DEFINE f == [p \in Places(n) |-> p[1]]
  <2>1. f \in [Places(n) -> 0..n]
    BY DEF Places
  <2>2. ASSUME NEW l \in 0..n, NEW h \in 0..n, h - l <= 0 PROVE f[<<l, h>>] = Halved(f, s, l, h)
    <3>1. <<l, h>> \in Places(n)
      BY DEF Places
    <3>2. f[<<l, h>>] = l
      BY <3>1
    <3>3. h - l <= 1
      BY <2>2
    <3> QED
      BY <3>2, <3>3 DEF Halved
  <2> HIDE DEF f
  <2>3. HalvesUpTo(f, s, n, 0)
    BY <2>2 DEF HalvesUpTo
  <2> QED
    BY <2>1, <2>3 DEF HalvingExists
<1>2. SUFFICES ASSUME wrong # {} PROVE FALSE
  OBVIOUS
<1>3. PICK m \in wrong : \A w \in wrong : ~(<<w, m>> \in Less)
  <2>1. IsWellFoundedOn(Less, Nat)
    BY NatLessThanWellFounded
  <2>2. wrong \subseteq Nat
    OBVIOUS
  <2> QED
    BY ONLY <1>2, <2>1, <2>2, WFMin
<1>4. m \in Nat /\ ~HalvingExists(s, n, m)
  OBVIOUS
<1>5. m # 0
  BY <1>1, <1>4
<1>6. m - 1 \in Nat /\ m - 1 < m /\ (m - 1) + 1 = m
  BY <1>4, <1>5
<1>7. <<m - 1, m>> \in Less
  BY <1>4, <1>6 DEF OpToRel
<1>8. m - 1 \notin wrong
  BY <1>3, <1>7
<1> HIDE DEF Less
<1>9. HalvingExists(s, n, m - 1)
  BY <1>6, <1>8
<1>10. HalvingExists(s, n, (m - 1) + 1)
  BY <1>6, <1>9, HalvingGrows
<1> QED
  BY <1>4, <1>6, <1>10

(* What is left of two rows or more is one of them, and not the last.       *)
LEMMA HalvingStaysWithin ==
    ASSUME NEW n \in Nat, NEW s, SplitsWithin(s, n), NEW f,
           \A l, h \in 0..n : f[<<l, h>>] = Halved(f, s, l, h),
           NEW low \in 0..n, NEW high \in 0..n, low < high
    PROVE  f[<<low, high>>] \in low..(high - 1)
<1> DEFINE wrong == {w \in Nat : \E l, h \in 0..n : /\ w = h - l /\ l < h
                                                  /\ f[<<l, h>>] \notin l..(h - 1)}
           Less == OpToRel(<, Nat)
<1>1. SUFFICES ASSUME wrong # {} PROVE FALSE
  <2>1. SUFFICES ASSUME f[<<low, high>>] \notin low..(high - 1) PROVE FALSE
    OBVIOUS
  <2>2. high - low \in Nat
    OBVIOUS
  <2>3. high - low \in wrong
    BY <2>1, <2>2
  <2> QED
    BY <1>1, <2>3
<1>2. PICK m \in wrong : \A w \in wrong : ~(<<w, m>> \in Less)
  <2>1. IsWellFoundedOn(Less, Nat)
    BY NatLessThanWellFounded
  <2>2. wrong \subseteq Nat
    OBVIOUS
  <2> QED
    BY ONLY <1>1, <2>1, <2>2, WFMin
<1>3. PICK l \in 0..n, h \in 0..n : m = h - l /\ l < h /\ f[<<l, h>>] \notin l..(h - 1)
  OBVIOUS
<1>4. ASSUME NEW a \in 0..n, NEW b \in 0..n, a < b, b - a < h - l
      PROVE  f[<<a, b>>] \in a..(b - 1)
  <2>1. b - a \in Nat /\ h - l \in Nat
    BY <1>3, <1>4
  <2>2. <<b - a, m>> \in Less
    BY <1>3, <1>4, <2>1 DEF OpToRel
  <2>3. b - a \notin wrong
    BY <1>2, <2>2
  <2> QED
    BY <1>4, <2>1, <2>3
<1> HIDE DEF wrong, Less
<1>5. CASE h - l <= 1
  <2>1. f[<<l, h>>] = l
    BY <1>5 DEF Halved
  <2> QED
    BY <1>3, <2>1
<1>6. CASE h - l > 1 /\ s[<<l, h>>] - l > h - s[<<l, h>>] + 1
  <2> DEFINE k == s[<<l, h>>]
  <2>1. k - 1 \in 0..n /\ k \in 0..n /\ k - 1 - l >= 1 /\ k <= h
    BY <1>6, HalvesAreSmaller
  <2>2. f[<<l, h>>] = f[<<l, k - 1>>]
    <3>1. f[<<l, h>>] = Halved(f, s, l, h)
      OBVIOUS
    <3>2. ~(h - l <= 1)
      BY <1>6
    <3> QED
      BY ONLY <1>6, <3>1, <3>2 DEF Halved
  <2> HIDE DEF k
  <2>3. l < k - 1 /\ k - 1 - l < h - l
    BY <2>1
  <2>4. f[<<l, k - 1>>] \in l..(k - 1 - 1)
    BY <1>4, <2>1, <2>3
  <2> QED
    BY <1>3, <2>1, <2>2, <2>4
<1>7. CASE h - l > 1 /\ ~(s[<<l, h>>] - l > h - s[<<l, h>>] + 1)
  <2> DEFINE k == s[<<l, h>>]
  <2>1. k \in 0..n /\ k > l /\ h - k >= 1
    BY <1>7, HalvesAreSmaller
  <2>2. f[<<l, h>>] = f[<<k, h>>]
    <3>1. f[<<l, h>>] = Halved(f, s, l, h)
      OBVIOUS
    <3>2. ~(h - l <= 1)
      BY <1>7
    <3> QED
      BY ONLY <1>7, <3>1, <3>2 DEF Halved
  <2> HIDE DEF k
  <2>3. k < h /\ h - k < h - l
    BY <2>1
  <2>4. f[<<k, h>>] \in k..(h - 1)
    BY <1>4, <2>1, <2>3
  <2> QED
    BY <1>3, <2>1, <2>2, <2>4
<1> QED
  BY <1>3, <1>5, <1>6, <1>7

---------------------------------------------------------------------------
(* The history: as many rows as the code keeps, or at least three.          *)
HistoryIsSound ==
    /\ HistorySize \in Nat /\ HistorySize >= 3 /\ Frequencies \subseteq Nat
    /\ HistoryTime \in Nat \ {0} /\ MaxResponse \in Nat /\ MaxResponses \in Nat
    /\ HistoryEdits \in Nat

(* Rows in the order of their time; and a row some response was heard in is *)
(* seen in a row as new, with the extremes.                                 *)
InTime(b) == \A i, j \in 1..Len(b) : i < j => b[i].at < b[j].at
Seen(old, r) == r.at >= old.at /\ r.slowest >= old.slowest /\ r.fastest \in 1..old.fastest
SeenIn(old, b) == \E i \in 1..Len(b) : Seen(old, b[i])
AllSeen(rs, b) ==
    /\ b = <<>> => rs = {}
    /\ \A old \in rs : b # <<>> /\ old.at >= b[1].at /\ old.slowest > 0 => SeenIn(old, b)
EndsBefore(b, time) == b = <<>> \/ b[Len(b)].at < time
HasBoth(r) == r.slowest > 0 => r.fastest > 0

---------------------------------------------------------------------------
(* The inductive invariant.                                                 *)
HistoryData ==
    /\ now \in 1..HistoryTime /\ last \in 0..now /\ frequency \in Frequencies
    /\ buffer \in Seq(History!Rows) /\ Len(buffer) <= HistorySize
    /\ row \in History!Rows \union {History!NoRow} /\ rows \subseteq History!Rows
    /\ response \in 0..MaxResponse /\ fastest \in 0..MaxResponse /\ slowest \in 0..MaxResponse
    /\ shares \in 0..MaxResponses /\ lastShares \in 0..MaxResponses
    /\ heard \subseteq 1..MaxResponse

HistoryFlags == counting \in BOOLEAN /\ raced \in BOOLEAN

(* A row on its way is the newest.                                          *)
RowsInTime ==
    /\ InTime(buffer)
    /\ row = History!NoRow => (buffer = <<>> \/ buffer[Len(buffer)].at = last)
    /\ row # History!NoRow => row.at = last /\ EndsBefore(buffer, last)

(* The recorded extremes are those of the responses heard.                  *)
Extremes ==
    /\ heard = {} => fastest = 0 /\ slowest = 0
    /\ heard # {} => /\ response > 0 /\ fastest \in heard /\ slowest \in heard
                     /\ \A r \in heard : fastest <= r /\ r <= slowest

(* Unless the row races with the responses or with a reset, responses heard *)
(* are counted before they are collected, and the row has their extremes.   *)
RowHasExtremes ==
    /\ row = History!NoRow =>
         shares >= lastShares /\ (heard = {} \/ counting \/ shares > lastShares)
    /\ row # History!NoRow /\ heard # {} => row.fastest = fastest /\ row.slowest = slowest

(* A response is recorded only if it can still be counted.                  *)
RoomToCount == counting => shares < MaxResponses

HistoryInv ==
    /\ HistoryData /\ HistoryFlags /\ RowsInTime /\ Extremes
    /\ ~raced => RowHasExtremes
    /\ HasBoth(row) /\ AllSeen(rows, buffer) /\ RoomToCount

---------------------------------------------------------------------------
(* Of natural numbers one is the least.                                     *)
LEMMA LeastExists ==
    ASSUME NEW S \in SUBSET Nat, S # {}
    PROVE  \E k \in S : \A j \in S : k <= j
<1> DEFINE Less == OpToRel(<, Nat)
<1>1. PICK k \in S : \A j \in S : ~(<<j, k>> \in Less)
  <2>1. IsWellFoundedOn(Less, Nat)
    BY NatLessThanWellFounded
  <2>2. S \subseteq Nat /\ S # {}
    OBVIOUS
  <2> QED
    BY ONLY <2>1, <2>2, WFMin
<1>2. ASSUME NEW j \in S PROVE k <= j
  <2>1. SUFFICES ASSUME j < k PROVE FALSE
    OBVIOUS
  <2>2. <<j, k>> \in Less
    BY <2>1 DEF OpToRel
  <2> QED
    BY <1>1, <2>2
<1> QED
  BY <1>2

(* The split of three rows or more is not the first of them.                *)
LEMMA SplitIsWithin ==
    ASSUME HistoryIsSound, HistoryData, InTime(buffer), Len(buffer) = HistorySize,
           NEW l \in 0..(HistorySize - 1), NEW h \in 0..(HistorySize - 1), h - l > 1
    PROVE  History!Split(l, h) \in (l + 1)..h
<1>1. ASSUME NEW i \in 0..(HistorySize - 1) PROVE History!At(i) \in Nat
  <2>1. i + 1 \in 1..Len(buffer)
    BY DEF HistoryIsSound
  <2>2. buffer[i + 1] \in History!Rows
    BY <2>1 DEF HistoryData
  <2> QED
    BY <2>2 DEF History!At, History!Rows, HistoryIsSound
<1>2. History!At(l) < History!At(h)
  <2>1. l + 1 \in 1..Len(buffer) /\ h + 1 \in 1..Len(buffer) /\ l + 1 < h + 1
    BY DEF HistoryIsSound
  <2> QED
    BY <2>1 DEF InTime, History!At
<1> DEFINE middle == (History!At(l) + History!At(h)) \div 2
           latter == {i \in l..h : History!At(i) >= middle}
           first == CHOOSE i \in latter : \A j \in latter : i <= j
<1>3. History!At(h) >= middle
  BY <1>1, <1>2
<1>4. h \in latter
  BY <1>3
<1>5. \E i \in latter : \A j \in latter : i <= j
  <2>1. latter \in SUBSET Nat /\ latter # {}
    BY <1>4
  <2> HIDE DEF latter
  <2> QED
    BY ONLY <2>1, LeastExists
<1>6. first \in latter
  <2> HIDE DEF latter
  <2> QED
    BY <1>5
<1>7. History!Split(l, h) = IF first = l THEN l + 1 ELSE first
  BY DEF History!Split
<1>8. first \in l..h
  BY <1>6
<1> QED
  <2> HIDE DEF first
  <2> QED
    BY <1>7, <1>8

(* The row that is dropped, counted from 0, has one after it that is not the*)
(* last.                                                                    *)
LEMMA DroppedIsWithin ==
    ASSUME HistoryIsSound, HistoryData, InTime(buffer), Len(buffer) = HistorySize, NEW new
    PROVE  History!Dropped(new) \in 0..(HistorySize - 2)
<1> DEFINE n == HistorySize - 1
           s == [p \in Places(n) |-> History!Split(p[1], p[2])]
           Body(g, p) == IF p[2] - p[1] <= 1 THEN p[1]
                         ELSE IF History!Split(p[1], p[2]) - p[1] >
                                   p[2] - History!Split(p[1], p[2]) + 1
                         THEN g[<<p[1], History!Split(p[1], p[2]) - 1>>]
                         ELSE g[<<History!Split(p[1], p[2]), p[2]>>]
           f == CHOOSE g : g = [p \in Places(n) |-> Body(g, p)]
<1>1. History!Denser = f[<<1, HistorySize - 1>>]
  BY DEF History!Denser, Places
<1>2. n \in Nat /\ n >= 2
  BY DEF HistoryIsSound
<1>3. ASSUME NEW l \in 0..n, NEW h \in 0..n
      PROVE  /\ <<l, h>> \in Places(n) /\ <<l, h>>[1] = l /\ <<l, h>>[2] = h
             /\ s[<<l, h>>] = History!Split(l, h)
  BY DEF Places
<1>4. SplitsWithin(s, n)
  <2>1. ASSUME NEW l \in 0..n, NEW h \in 0..n, h - l > 1 PROVE s[<<l, h>>] \in (l + 1)..h
    BY <1>3, <2>1, SplitIsWithin
  <2> QED
    BY <2>1 DEF SplitsWithin
<1>5. ASSUME NEW g, NEW l \in 0..n, NEW h \in 0..n
      PROVE  Body(g, <<l, h>>) = Halved(g, s, l, h)
  BY <1>3 DEF Halved
<1>6. \E g : g = [p \in Places(n) |-> Body(g, p)]
  <2>1. PICK g \in [Places(n) -> 0..n] : HalvesUpTo(g, s, n, n)
    <3> HIDE DEF s, n
    <3>1. HalvingExists(s, n, n)
      BY <1>2, <1>4, HalvingAlwaysExists
    <3> QED
      BY <3>1 DEF HalvingExists
  <2>2. ASSUME NEW p \in Places(n) PROVE g[p] = Body(g, p)
    <3>1. PICK l \in 0..n, h \in 0..n : p = <<l, h>>
      BY DEF Places
    <3> HIDE DEF s
    <3>2. h - l <= n
      BY <1>2
    <3>3. g[<<l, h>>] = Halved(g, s, l, h)
      BY <2>1, <3>2 DEF HalvesUpTo
    <3>4. Body(g, <<l, h>>) = Halved(g, s, l, h)
      BY <1>5
    <3> QED
      BY <3>1, <3>3, <3>4
  <2> HIDE DEF Body
  <2>3. g = [p \in Places(n) |-> Body(g, p)]
    BY <2>1, <2>2
  <2> QED
    BY <2>3
<1>7. f = [p \in Places(n) |-> Body(f, p)]
  <2> HIDE DEF Body, n
  <2> QED
    BY <1>6
<1>8. ASSUME NEW l \in 0..n, NEW h \in 0..n PROVE f[<<l, h>>] = Halved(f, s, l, h)
  <2>1. <<l, h>> \in Places(n)
    BY <1>3
  <2>2. Body(f, <<l, h>>) = Halved(f, s, l, h)
    BY <1>5
  <2> HIDE DEF Body, n, s, f
  <2>3. f[<<l, h>>] = Body(f, <<l, h>>)
    BY <1>7, <2>1
  <2> QED
    BY <2>2, <2>3
<1> HIDE DEF f, s, Body
<1>9. f[<<1, n>>] \in 1..(n - 1)
  <2>1. 1 \in 0..n /\ n \in 0..n /\ 1 < n
    BY <1>2
  <2> QED
    BY <1>2, <1>4, <1>8, <2>1, HalvingStaysWithin
<1> QED
  BY <1>1, <1>2, <1>9 DEF History!Dropped

(* A row with other extremes.                                               *)
LEMMA RowWithExtremes ==
    ASSUME NEW b \in [at : Nat, fastest : Nat, slowest : Nat], NEW x \in Nat, NEW y \in Nat,
           NEW c, c = [b EXCEPT !.fastest = x, !.slowest = y]
    PROVE  c = [at |-> b.at, fastest |-> x, slowest |-> y]
OBVIOUS

(* Without the dropped row and with its responses in the row after it the   *)
(* rows are in time, end as before, and show what they showed.              *)
LEMMA ThinnedKeeps ==
    ASSUME HistoryIsSound, HistoryData, InTime(buffer), Len(buffer) = HistorySize,
           AllSeen(rows, buffer), NEW time, EndsBefore(buffer, time),
           NEW d \in 0..(HistorySize - 2)
    PROVE  /\ History!Thinned(d) \in Seq(History!Rows)
           /\ Len(History!Thinned(d)) = HistorySize - 1
           /\ InTime(History!Thinned(d)) /\ EndsBefore(History!Thinned(d), time)
           /\ AllSeen(rows, History!Thinned(d))
<1> DEFINE n == HistorySize - 1
           t == History!Thinned(d)
           From(k) == IF k <= d THEN k ELSE k + 1
<1>1. n \in Nat /\ n >= 2 /\ d + 1 \in 1..n /\ Len(buffer) = n + 1
  BY DEF HistoryIsSound
<1>2. ASSUME NEW k \in 1..(n + 1) PROVE buffer[k] \in History!Rows
  BY <1>1 DEF HistoryData
<1>3. ASSUME NEW k \in 1..n
      PROVE  t[k] = IF k <= d THEN buffer[k]
                    ELSE IF k = d + 1 THEN History!Inherited(d) ELSE buffer[k + 1]
  BY DEF History!Thinned
<1>4. d + 1 \in 1..(n + 1) /\ d + 2 \in 1..(n + 1)
  BY <1>1
<1>5. /\ History!Inherited(d) \in History!Rows
      /\ History!Inherited(d).at = buffer[d + 2].at
      /\ \A old \in rows : Seen(old, buffer[d + 2]) => Seen(old, History!Inherited(d))
      /\ \A old \in rows : /\ d > 0 /\ old.slowest > 0 /\ Seen(old, buffer[d + 1])
                           /\ buffer[d + 1].at <= buffer[d + 2].at
                           => Seen(old, History!Inherited(d))
  <2>1. CASE d = 0
    BY <1>2, <1>4, <2>1 DEF History!Inherited
  <2>2. CASE d > 0
    <3> DEFINE a == buffer[d + 1]
               b == buffer[d + 2]
    <3>1. a \in History!Rows /\ b \in History!Rows
      BY <1>2, <1>4
    <3>2. History!Inherited(d) = History!Merged(b, a)
      BY <2>2 DEF History!Inherited
    <3> HIDE DEF a, b
    <3>3. History!Merged(b, a) = [at |-> b.at,
                                  fastest |-> History!Faster(b.fastest, a.fastest),
                                  slowest |-> History!Slower(b.slowest, a.slowest)]
      <4> DEFINE x == History!Faster(b.fastest, a.fastest)
                 y == History!Slower(b.slowest, a.slowest)
                 c == History!Merged(b, a)
      <4>1. c = [b EXCEPT !.fastest = x, !.slowest = y]
        BY DEF History!Merged
      <4>2. b \in [at : Nat, fastest : Nat, slowest : Nat] /\ x \in Nat /\ y \in Nat
        BY <3>1 DEF History!Rows, History!Faster, History!Slower, HistoryIsSound
      <4> HIDE DEF x, y, c
      <4>3. c = [at |-> b.at, fastest |-> x, slowest |-> y]
        BY ONLY <4>1, <4>2, RowWithExtremes
      <4> QED
        BY <4>3 DEF x, y, c
    <3>4. ASSUME NEW old \in rows, Seen(old, b) PROVE Seen(old, History!Merged(b, a))
      <4>1. old \in History!Rows
        BY DEF HistoryData
      <4> QED
        BY <3>1, <3>3, <3>4, <4>1 DEF Seen, History!Rows, History!Faster, History!Slower,
           HistoryIsSound
    <3>5. ASSUME NEW old \in rows, Seen(old, a), old.slowest > 0, a.at <= b.at
          PROVE Seen(old, History!Merged(b, a))
      <4>1. old \in History!Rows
        BY DEF HistoryData
      <4> QED
        BY <3>1, <3>3, <3>5, <4>1 DEF Seen, History!Rows, History!Faster, History!Slower,
           HistoryIsSound
    <3>6. History!Merged(b, a) \in History!Rows /\ History!Merged(b, a).at = b.at
      BY <3>1, <3>3 DEF History!Rows, History!Faster, History!Slower, HistoryIsSound
    <3> QED
      BY <3>2, <3>4, <3>5, <3>6 DEF a, b
  <2> QED
    BY <2>1, <2>2
<1>6. t \in [1..n -> History!Rows]
  <2>1. ASSUME NEW k \in 1..n
        PROVE  (IF k <= d THEN buffer[k]
                ELSE IF k = d + 1 THEN History!Inherited(d) ELSE buffer[k + 1]) \in History!Rows
    <3>1. k \in 1..(n + 1) /\ k + 1 \in 1..(n + 1)
      BY <1>1
    <3> QED
      BY <1>2, <1>5, <3>1
  <2> QED
    BY <2>1 DEF History!Thinned
<1> HIDE DEF t
<1>7. t \in Seq(History!Rows) /\ Len(t) = n
  BY <1>1, <1>6
<1>8. ASSUME NEW k \in 1..n PROVE t[k].at = buffer[From(k)].at /\ From(k) \in 1..(n + 1)
  BY <1>1, <1>3, <1>5
<1>9. InTime(t)
  <2>1. ASSUME NEW i \in 1..n, NEW j \in 1..n, i < j PROVE t[i].at < t[j].at
    <3>1. From(i) < From(j) /\ From(i) \in 1..(n + 1) /\ From(j) \in 1..(n + 1)
      BY <1>1, <2>1
    <3> HIDE DEF From
    <3>2. buffer[From(i)].at < buffer[From(j)].at
      BY <1>1, <3>1 DEF InTime
    <3> QED
      BY <1>8, <3>2
  <2> QED
    BY <1>7, <2>1 DEF InTime
<1>10. EndsBefore(t, time)
  <2>1. From(n) = n + 1 /\ n \in 1..n /\ buffer # <<>>
    BY <1>1 DEF HistoryIsSound
  <2>2. t[n].at = buffer[n + 1].at
    BY <1>8, <2>1
  <2> QED
    BY <1>1, <1>7, <2>1, <2>2 DEF EndsBefore
<1>11. AllSeen(rows, t)
  <2>1. t # <<>> /\ buffer # <<>>
    BY <1>1, <1>7
  <2>2. ASSUME NEW old \in rows, old.at >= t[1].at, old.slowest > 0 PROVE SeenIn(old, t)
    <3>1. old \in History!Rows
      BY DEF HistoryData
    <3>2. t[1].at = buffer[From(1)].at /\ 1 \in 1..n /\ 1 \in 1..(n + 1) /\ 2 \in 1..(n + 1)
      BY <1>1, <1>8
    <3>3. buffer[1].at < buffer[2].at
      BY <1>1, <3>2 DEF InTime
    <3>4. t[1].at >= buffer[1].at /\ (d = 0 => t[1].at = buffer[2].at)
      <4>1. CASE d = 0
        BY <1>2, <3>2, <3>3, <4>1 DEF History!Rows, HistoryIsSound
      <4>2. CASE d > 0
        BY <1>2, <3>2, <4>2 DEF History!Rows, HistoryIsSound
      <4> QED
        BY <4>1, <4>2
    <3>5. old.at >= buffer[1].at
      BY <1>2, <2>2, <3>1, <3>2, <3>4 DEF History!Rows, HistoryIsSound
    <3>6. PICK i \in 1..(n + 1) : Seen(old, buffer[i])
      BY <1>1, <2>1, <2>2, <3>5 DEF AllSeen, SeenIn
    <3>7. CASE i <= d
      <4>1. i \in 1..n /\ t[i] = buffer[i]
        BY <1>1, <1>3, <3>7
      <4> QED
        BY <1>7, <3>6, <4>1 DEF SeenIn
    <3>8. CASE i = d + 1
      <4>1. buffer[d + 1].at < buffer[d + 2].at
        BY <1>1, <1>4 DEF InTime
      <4>2. d # 0
        <5>1. SUFFICES ASSUME d = 0 PROVE FALSE
          OBVIOUS
        <5>2. buffer[1].at >= old.at /\ old.at >= buffer[2].at
          BY <2>2, <3>4, <3>6, <3>8, <5>1 DEF Seen
        <5> QED
          BY <1>2, <3>1, <3>2, <3>3, <5>2 DEF History!Rows, HistoryIsSound
      <4>3. buffer[d + 1].at <= buffer[d + 2].at /\ d > 0
        <5>1. buffer[d + 1].at \in 1..HistoryTime /\ buffer[d + 2].at \in 1..HistoryTime
          BY <1>2, <1>4 DEF History!Rows
        <5>2. d > 0
          BY <4>2
        <5>3. buffer[d + 1].at <= buffer[d + 2].at
          BY <4>1, <5>1 DEF HistoryIsSound
        <5> QED
          BY <5>2, <5>3
      <4>4. Seen(old, History!Inherited(d))
        BY <1>5, <2>2, <3>6, <3>8, <4>3
      <4>5. t[d + 1] = History!Inherited(d)
        BY <1>1, <1>3
      <4> QED
        BY <1>1, <1>7, <4>4, <4>5 DEF SeenIn
    <3>9. CASE i = d + 2
      <4>1. Seen(old, History!Inherited(d))
        BY <1>5, <3>6, <3>9
      <4>2. t[d + 1] = History!Inherited(d)
        BY <1>1, <1>3
      <4> QED
        BY <1>1, <1>7, <4>1, <4>2 DEF SeenIn
    <3>10. CASE i > d + 2
      <4>1. i - 1 \in 1..n /\ t[i - 1] = buffer[i]
        BY <1>1, <1>3, <3>10
      <4> QED
        BY <1>7, <3>6, <4>1 DEF SeenIn
    <3> QED
      BY <1>1, <3>7, <3>8, <3>9, <3>10
  <2> QED
    BY <2>1, <2>2 DEF AllSeen
<1> QED
  BY <1>7, <1>9, <1>10, <1>11 DEF t

(* With a newer row added the rows are in time and show what they showed,   *)
(* and the new row.                                                         *)
LEMMA AppendedKeeps ==
    ASSUME HistoryIsSound, NEW b \in Seq(History!Rows), InTime(b), NEW rs \in SUBSET History!Rows,
           AllSeen(rs, b), NEW new \in History!Rows, EndsBefore(b, new.at), HasBoth(new)
    PROVE  InTime(Append(b, new)) /\ AllSeen(rs \union {new}, Append(b, new))
<1> DEFINE c == Append(b, new)
           n == Len(b)
<1>1. /\ n \in Nat /\ Len(c) = n + 1 /\ c # <<>> /\ c[n + 1] = new
      /\ \A i \in 1..n : c[i] = b[i] /\ b[i] \in History!Rows
  OBVIOUS
<1>2. ASSUME NEW i \in 1..n PROVE b[i].at < new.at
  <2>1. b # <<>> /\ n \in 1..n
    BY <1>1
  <2>2. b[n].at < new.at
    BY <2>1 DEF EndsBefore
  <2>3. i = n \/ b[i].at < b[n].at
    BY <1>1, <2>1 DEF InTime
  <2>4. /\ b[i].at \in 1..HistoryTime /\ b[n].at \in 1..HistoryTime
        /\ new.at \in 1..HistoryTime
    BY <1>1, <2>1 DEF History!Rows
  <2> QED
    BY <2>2, <2>3, <2>4 DEF HistoryIsSound
<1> HIDE DEF c
<1>3. InTime(c)
  <2>1. ASSUME NEW i \in 1..(n + 1), NEW j \in 1..(n + 1), i < j PROVE c[i].at < c[j].at
    <3>1. i \in 1..n
      BY <1>1, <2>1
    <3>2. CASE j = n + 1
      BY <1>1, <1>2, <3>1, <3>2
    <3>3. CASE j \in 1..n
      BY <1>1, <2>1, <3>1, <3>3 DEF InTime
    <3> QED
      BY <1>1, <3>2, <3>3
  <2> QED
    BY <1>1, <2>1 DEF InTime
<1>4. AllSeen(rs \union {new}, c)
  <2>1. ASSUME NEW old \in rs \union {new}, old.at >= c[1].at, old.slowest > 0
        PROVE  SeenIn(old, c)
    <3>1. CASE old = new
      <4>1. Seen(new, new)
        BY <2>1, <3>1 DEF Seen, HasBoth, History!Rows, HistoryIsSound
      <4> QED
        BY <1>1, <3>1, <4>1 DEF SeenIn
    <3>2. CASE old \in rs
      <4>1. b # <<>>
        BY <3>2 DEF AllSeen
      <4>2. 1 \in 1..n
        BY <1>1, <4>1
      <4>3. c[1] = b[1]
        BY <1>1, <4>2
      <4>4. PICK i \in 1..n : Seen(old, b[i])
        BY <2>1, <3>2, <4>1, <4>3 DEF AllSeen, SeenIn
      <4> QED
        BY <1>1, <4>4 DEF SeenIn
    <3> QED
      BY <3>1, <3>2
  <2> QED
    BY <1>1, <2>1 DEF AllSeen
<1> QED
  BY <1>3, <1>4 DEF c

---------------------------------------------------------------------------
LEMMA HistoryBegins == ASSUME HistoryIsSound, History!Init PROVE HistoryInv
<1>1. HistoryFlags
  BY DEF History!Init, HistoryFlags
<1>0. RoomToCount
  BY DEF History!Init, RoomToCount
<1>2. HistoryData
  BY DEF History!Init, HistoryData, HistoryIsSound
<1>3. RowsInTime /\ AllSeen(rows, buffer)
  BY DEF History!Init, RowsInTime, AllSeen, InTime, EndsBefore
<1>4. Extremes
  BY DEF History!Init, Extremes
<1>5. RowHasExtremes /\ HasBoth(row)
  BY DEF History!Init, RowHasExtremes, HasBoth, History!NoRow
<1> QED
  BY <1>0, <1>1, <1>2, <1>3, <1>4, <1>5 DEF HistoryInv

(* A response: the extremes are those of the responses heard.               *)
LEMMA RespondKeeps ==
    ASSUME HistoryIsSound, HistoryInv, NEW r \in 1..MaxResponse, History!Respond(r)
    PROVE  HistoryInv'
<1>1. HistoryData /\ HistoryFlags /\ RowsInTime /\ Extremes
  BY DEF HistoryInv
<1>2. /\ UNCHANGED <<now, frequency, buffer, last, shares, lastShares, row, rows, edits>>
      /\ response' = r /\ heard' = heard \union {r}
      /\ fastest' = History!Faster(fastest, r) /\ slowest' = History!Slower(slowest, r)
  BY DEF History!Respond
<1>3. ~counting /\ counting' = TRUE /\ raced' = (raced \/ row # History!NoRow)
  BY DEF History!Respond
<1>4. HistoryFlags'
  BY <1>1, <1>3 DEF HistoryFlags
<1>5. HistoryData'
  BY <1>1, <1>2 DEF HistoryData, History!Faster, History!Slower, HistoryIsSound
<1>6. RowsInTime' /\ HasBoth(row)' /\ AllSeen(rows, buffer)'
  BY <1>1, <1>2 DEF RowsInTime, HistoryInv
<1>7. Extremes'
  <2>1. CASE heard = {}
    BY <1>1, <1>2, <2>1 DEF Extremes, History!Faster, History!Slower, HistoryIsSound
  <2>2. CASE heard # {}
    <3>1. fastest \in 1..MaxResponse /\ slowest \in 1..MaxResponse
      BY <1>1, <2>2 DEF Extremes, HistoryData
    <3>2. /\ fastest' \in {fastest, r} /\ fastest' <= fastest /\ fastest' <= r
          /\ slowest' \in {slowest, r} /\ slowest' >= slowest /\ slowest' >= r
      BY <1>2, <3>1 DEF History!Faster, History!Slower, HistoryIsSound
    <3>3. ASSUME NEW s \in heard PROVE fastest' <= s /\ s <= slowest'
      <4>1. s \in 1..MaxResponse /\ fastest <= s /\ s <= slowest
        BY <1>1, <2>2 DEF Extremes, HistoryData
      <4> QED
        BY <3>1, <3>2, <4>1 DEF HistoryIsSound
    <3>4. fastest \in heard /\ slowest \in heard
      BY <1>1, <2>2 DEF Extremes
    <3> QED
      BY <1>2, <3>2, <3>3, <3>4 DEF Extremes
  <2> QED
    BY <2>1, <2>2
<1>8. ~raced' => RowHasExtremes'
  BY <1>2, <1>3 DEF HistoryInv, RowHasExtremes
<1>9. RoomToCount'
  BY <1>2 DEF RoomToCount, History!Respond
<1> QED
  BY <1>4, <1>5, <1>6, <1>7, <1>8, <1>9 DEF HistoryInv

(* Its share is counted; a reset forgets what was heard.                    *)
LEMMA CountKeeps ==
    ASSUME HistoryIsSound, HistoryInv, History!Count \/ History!Reset PROVE HistoryInv'
<1>1. HistoryData /\ HistoryFlags /\ RowsInTime /\ Extremes
  BY DEF HistoryInv
<1>2. UNCHANGED <<now, frequency, buffer, last, lastShares, row, rows>>
  BY DEF History!Count, History!Reset
<1>3. RowsInTime' /\ HasBoth(row)' /\ AllSeen(rows, buffer)'
  BY <1>1, <1>2 DEF RowsInTime, HistoryInv
<1>4. CASE History!Count
  <2>1. /\ shares' = shares + 1 /\ UNCHANGED <<response, fastest, slowest, heard>>
    BY <1>4 DEF History!Count
  <2>2. counting /\ counting' = FALSE /\ raced' = (raced \/ row # History!NoRow)
    BY <1>4 DEF History!Count
  <2>3. shares < MaxResponses
    BY <2>2 DEF HistoryInv, RoomToCount
  <2>4. HistoryData'
    BY <1>1, <1>2, <2>1, <2>3 DEF HistoryData, HistoryIsSound
  <2>5. HistoryFlags'
    BY <1>1, <2>2 DEF HistoryFlags
  <2>6. Extremes'
    BY <1>1, <2>1 DEF Extremes
  <2>7. ~raced' => RowHasExtremes'
    <3>1. SUFFICES ASSUME ~raced' PROVE RowHasExtremes'
      OBVIOUS
    <3>2. row = History!NoRow /\ RowHasExtremes
      BY <2>2, <3>1 DEF HistoryInv
    <3>3. shares >= lastShares /\ shares \in Nat /\ lastShares \in Nat
      BY <1>1, <3>2 DEF RowHasExtremes, HistoryData
    <3>4. shares' >= lastShares' /\ shares' > lastShares'
      BY <1>2, <2>1, <3>3
    <3> QED
      BY <1>2, <3>2, <3>4 DEF RowHasExtremes
  <2>8. RoomToCount'
    BY <2>2 DEF RoomToCount
  <2> QED
    BY <1>3, <2>4, <2>5, <2>6, <2>7, <2>8 DEF HistoryInv
<1>5. CASE History!Reset
  <2>1. /\ response' = 0 /\ fastest' = 0 /\ slowest' = 0 /\ shares' = 0 /\ heard' = {}
    BY <1>5 DEF History!Reset
  <2>2. counting' = counting /\ raced' = TRUE
    BY <1>5 DEF History!Reset
  <2>3. HistoryData'
    BY <1>1, <1>2, <2>1 DEF HistoryData, HistoryIsSound
  <2>4. HistoryFlags'
    BY <1>1, <2>2 DEF HistoryFlags
  <2>5. Extremes'
    BY <2>1 DEF Extremes
  <2>6. RoomToCount'
    BY <1>5 DEF RoomToCount, History!Reset
  <2> QED
    BY <1>3, <2>2, <2>3, <2>4, <2>5, <2>6 DEF HistoryInv
<1> QED
  BY <1>4, <1>5

(* A row is collected: unless it races it has the extremes of what was heard.*)
LEMMA CollectKeeps ==
    ASSUME HistoryIsSound, HistoryInv, History!Collect PROVE HistoryInv'
<1>1. HistoryData /\ HistoryFlags /\ RowsInTime /\ Extremes
  BY DEF HistoryInv
<1> DEFINE answered == shares # lastShares /\ response > 0
<1>2. /\ UNCHANGED <<now, frequency, buffer, response, fastest, slowest, shares, heard, rows>>
      /\ row = History!NoRow /\ now >= last + 1 /\ last' = now /\ lastShares' = shares
      /\ row' = [at |-> now,
                 fastest |-> IF ~answered THEN 0 ELSE IF fastest > 0 THEN fastest ELSE response,
                 slowest |-> IF ~answered THEN 0 ELSE IF slowest > 0 THEN slowest ELSE response]
  BY DEF History!Collect, History!measured
<1>3. counting' = counting /\ raced' = (raced \/ counting)
  BY DEF History!Collect, History!measured
<1>4. HistoryFlags'
  BY <1>1, <1>3 DEF HistoryFlags
<1>5. row' \in History!Rows /\ row' # History!NoRow /\ row'.at = now
  BY <1>1, <1>2 DEF HistoryData, History!Rows, History!NoRow, HistoryIsSound
<1>6. HistoryData'
  BY <1>1, <1>2, <1>5 DEF HistoryData, HistoryIsSound
<1>7. RowsInTime'
  <2>1. buffer = <<>> \/ buffer[Len(buffer)].at = last
    BY <1>1, <1>2 DEF RowsInTime
  <2>2. last < now
    BY <1>1, <1>2 DEF HistoryData, HistoryIsSound
  <2>3. EndsBefore(buffer, now)
    BY <2>1, <2>2 DEF EndsBefore
  <2> QED
    BY <1>1, <1>2, <1>5, <2>3 DEF RowsInTime
<1>8. Extremes'
  BY <1>1, <1>2 DEF Extremes
<1>9. heard # {} => fastest > 0 /\ slowest > 0 /\ response > 0
  BY <1>1 DEF Extremes, HistoryData
<1>10. HasBoth(row)'
  <2>1. heard = {} => fastest = 0 /\ slowest = 0
    BY <1>1 DEF Extremes
  <2> QED
    BY <1>1, <1>2, <1>9, <2>1 DEF HasBoth, HistoryData
<1>11. ~raced' => RowHasExtremes'
  <2>1. SUFFICES ASSUME ~raced', heard # {} PROVE row'.fastest = fastest /\ row'.slowest = slowest
    BY <1>2, <1>5 DEF RowHasExtremes
  <2>2. ~raced /\ ~counting
    BY <1>3, <2>1
  <2>3. shares > lastShares
    BY <1>2, <2>1, <2>2 DEF HistoryInv, RowHasExtremes
  <2>4. answered
    BY <1>1, <1>9, <2>1, <2>3 DEF HistoryData
  <2> QED
    BY <1>2, <1>9, <2>1, <2>4
<1>12. AllSeen(rows, buffer)'
  BY <1>2 DEF HistoryInv
<1>13. RoomToCount'
  BY <1>2, <1>3 DEF HistoryInv, RoomToCount
<1> QED
  BY <1>4, <1>6, <1>7, <1>8, <1>10, <1>11, <1>12, <1>13 DEF HistoryInv

(* A row is stored, after others were thinned out when there are too many.  *)
LEMMA StoreKeeps ==
    ASSUME HistoryIsSound, HistoryInv, History!Store PROVE HistoryInv'
<1>1. HistoryData /\ HistoryFlags /\ RowsInTime /\ Extremes /\ HasBoth(row)
      /\ AllSeen(rows, buffer)
  BY DEF HistoryInv
<1>2. /\ UNCHANGED <<now, frequency, last, response, shares, lastShares>>
      /\ row # History!NoRow /\ row' = History!NoRow /\ fastest' = 0 /\ slowest' = 0
      /\ buffer' = History!Added(row) /\ heard' = {}
  BY DEF History!Store
<1>3. counting' = counting /\ raced' = (counting \/ shares < lastShares)
  BY DEF History!Store
<1>4. row \in History!Rows /\ row.at = last /\ EndsBefore(buffer, last)
  BY <1>1, <1>2 DEF HistoryData, RowsInTime
<1>5. rows' = rows \union {row}
  <2>1. CASE raced \/ heard = {}
    BY <2>1 DEF History!Store
  <2>2. CASE ~raced /\ heard # {}
    <3> DEFINE least == CHOOSE r \in heard : \A s \in heard : r <= s
               most == CHOOSE r \in heard : \A s \in heard : r >= s
    <3>1. rows' = rows \union {[at |-> row.at, fastest |-> least, slowest |-> most]}
      BY <2>2 DEF History!Store
    <3>2. /\ fastest \in heard /\ slowest \in heard /\ heard \subseteq Nat
          /\ \A r \in heard : fastest <= r /\ r <= slowest
      BY <1>1, <2>2 DEF Extremes, HistoryData
    <3>3. least \in heard /\ \A s \in heard : least <= s
      <4>1. \E r \in heard : \A s \in heard : r <= s
        BY <3>2
      <4> QED
        BY <4>1
    <3>4. most \in heard /\ \A s \in heard : most >= s
      <4>1. \E r \in heard : \A s \in heard : r >= s
        BY <3>2
      <4> QED
        BY <4>1
    <3> HIDE DEF least, most
    <3>5. least = fastest /\ most = slowest
      BY <3>2, <3>3, <3>4
    <3>6. row.fastest = fastest /\ row.slowest = slowest
      BY <1>2, <2>2 DEF HistoryInv, RowHasExtremes
    <3>7. row = [at |-> row.at, fastest |-> least, slowest |-> most]
      BY <1>4, <3>5, <3>6 DEF History!Rows
    <3> QED
      BY <3>1, <3>7
  <2> QED
    BY <2>1, <2>2 DEF HistoryFlags
<1>6. PICK b \in Seq(History!Rows) :
        /\ buffer' = Append(b, row) /\ Len(b) < HistorySize /\ InTime(b)
        /\ EndsBefore(b, row.at) /\ AllSeen(rows, b)
  <2>1. CASE Len(buffer) < HistorySize
    BY <1>1, <1>2, <1>4, <2>1 DEF History!Added, HistoryData, RowsInTime
  <2>2. CASE ~(Len(buffer) < HistorySize)
    <3>1. Len(buffer) = HistorySize /\ InTime(buffer)
      BY <1>1, <2>2 DEF HistoryData, RowsInTime, HistoryIsSound
    <3> DEFINE d == History!Dropped(row)
               t == History!Thinned(d)
    <3>2. d \in 0..(HistorySize - 2)
      BY <1>1, <3>1, DroppedIsWithin
    <3>3. buffer' = Append(t, row)
      BY <1>2, <2>2 DEF History!Added
    <3> HIDE DEF d
    <3>4. /\ t \in Seq(History!Rows) /\ Len(t) = HistorySize - 1 /\ InTime(t)
          /\ EndsBefore(t, row.at) /\ AllSeen(rows, t)
      BY <1>1, <1>4, <3>1, <3>2, ThinnedKeeps
    <3> HIDE DEF t
    <3> QED
      BY <3>3, <3>4 DEF HistoryIsSound
  <2> QED
    BY <2>1, <2>2
<1>7. InTime(buffer)' /\ AllSeen(rows, buffer)'
  <2>1. rows \in SUBSET History!Rows
    BY <1>1 DEF HistoryData
  <2>2. InTime(Append(b, row)) /\ AllSeen(rows \union {row}, Append(b, row))
    BY <1>1, <1>4, <1>6, <2>1, AppendedKeeps
  <2> QED
    BY <1>5, <1>6, <2>2 DEF InTime, AllSeen, SeenIn
<1>8. buffer' \in Seq(History!Rows) /\ Len(buffer') <= HistorySize
      /\ buffer' # <<>> /\ buffer'[Len(buffer')] = row
  BY <1>4, <1>6 DEF HistoryIsSound
<1>9. HistoryData'
  BY <1>1, <1>2, <1>4, <1>5, <1>8 DEF HistoryData, HistoryIsSound
<1>10. HistoryFlags'
  BY <1>1, <1>3 DEF HistoryFlags
<1>11. RowsInTime'
  BY <1>2, <1>4, <1>7, <1>8 DEF RowsInTime
<1>12. Extremes' /\ HasBoth(row)'
  BY <1>2 DEF Extremes, HasBoth, History!NoRow
<1>13. ~raced' => RowHasExtremes'
  <2>1. SUFFICES ASSUME ~raced' PROVE RowHasExtremes'
    OBVIOUS
  <2>2. ~(shares < lastShares)
    BY <1>3, <2>1
  <2>3. shares' >= lastShares'
    BY <1>1, <1>2, <2>2 DEF HistoryData
  <2> QED
    BY <1>2, <2>3 DEF RowHasExtremes
<1>14. RoomToCount'
  BY <1>2, <1>3 DEF HistoryInv, RoomToCount
<1> QED
  BY <1>7, <1>9, <1>10, <1>11, <1>12, <1>13, <1>14 DEF HistoryInv

(* The buffer is removed, the setting is edited, or time passes.            *)
LEMMA HistoryOthersKeep ==
    ASSUME HistoryIsSound, HistoryInv,
           History!Remove \/ History!EditFrequency \/ History!Tick
    PROVE  HistoryInv'
<1>1. HistoryData /\ HistoryFlags /\ RowsInTime /\ Extremes
  BY DEF HistoryInv
<1>2. UNCHANGED <<last, response, fastest, slowest, shares, lastShares, row, heard>>
  BY DEF History!Remove, History!EditFrequency, History!Tick, History!measured,
     History!history
<1>3. UNCHANGED counting /\ UNCHANGED raced
  BY DEF History!Remove, History!EditFrequency, History!Tick, History!measured,
     History!history
<1>4. HistoryFlags' /\ Extremes' /\ HasBoth(row)' /\ (~raced' => RowHasExtremes') /\ RoomToCount'
  BY <1>1, <1>2, <1>3 DEF HistoryFlags, Extremes, HistoryInv, RowHasExtremes, RoomToCount
<1>5. CASE History!Remove
  <2>1. buffer' = <<>> /\ rows' = {} /\ UNCHANGED <<now, frequency>>
    BY <1>5 DEF History!Remove
  <2>2. HistoryData'
    BY <1>1, <1>2, <2>1 DEF HistoryData, HistoryIsSound
  <2>3. RowsInTime' /\ AllSeen(rows, buffer)'
    BY <1>1, <1>2, <2>1 DEF RowsInTime, AllSeen, InTime, EndsBefore
  <2> QED
    BY <1>4, <2>2, <2>3 DEF HistoryInv
<1>6. CASE ~History!Remove
  <2>1. UNCHANGED <<buffer, rows>>
    BY <1>6 DEF History!EditFrequency, History!Tick, History!history
  <2>2. frequency' \in Frequencies /\ now' \in 1..HistoryTime /\ now' >= now
    BY <1>1, <1>6 DEF History!EditFrequency, History!Tick, HistoryData, HistoryIsSound
  <2>3. HistoryData'
    BY <1>1, <1>2, <2>1, <2>2 DEF HistoryData, HistoryIsSound
  <2>4. RowsInTime' /\ AllSeen(rows, buffer)'
    BY <1>1, <1>2, <2>1 DEF RowsInTime, HistoryInv
  <2> QED
    BY <1>4, <2>3, <2>4 DEF HistoryInv
<1> QED
  BY <1>5, <1>6

(* Every step keeps the invariant.                                          *)
LEMMA HistoryKeeps ==
    HistoryIsSound /\ HistoryInv /\ [History!Next]_(History!vars) => HistoryInv'
<1> SUFFICES ASSUME HistoryIsSound, HistoryInv, [History!Next]_(History!vars) PROVE HistoryInv'
  OBVIOUS
<1>1. CASE UNCHANGED History!vars
  <2>1. /\ UNCHANGED <<now, frequency, buffer, last, lastShares, row, heard, rows>>
        /\ UNCHANGED <<response, fastest, slowest, shares>>
    BY <1>1 DEF History!vars, History!measured, History!history
  <2>2. UNCHANGED counting /\ UNCHANGED raced
    BY <1>1 DEF History!vars, History!measured, History!history
  <2>3. HistoryData' /\ HistoryFlags' /\ RowsInTime'
    BY <2>1, <2>2 DEF HistoryInv, HistoryData, HistoryFlags, RowsInTime
  <2>4. Extremes' /\ (~raced' => RowHasExtremes') /\ HasBoth(row)' /\ AllSeen(rows, buffer)'
        /\ RoomToCount'
    BY <2>1, <2>2 DEF HistoryInv, Extremes, RowHasExtremes, RoomToCount
  <2> QED
    BY <2>3, <2>4 DEF HistoryInv
<1> QED
  BY Zenon, <1>1, RespondKeeps, CountKeeps, CollectKeeps, StoreKeeps, HistoryOthersKeep
     DEF History!Next

(* The rows are in the order of time, end with the newest one, and show the *)
(* extremes of every row since the oldest.                                  *)
LEMMA HistoryIsKeptByInv == ASSUME HistoryInv PROVE History!HistoryIsKept
<1>1. \A i, j \in 1..Len(buffer) : i < j => buffer[i].at < buffer[j].at
  BY DEF HistoryInv, RowsInTime, InTime
<1>2. row = History!NoRow /\ buffer # <<>> => buffer[Len(buffer)].at = last
  BY DEF HistoryInv, RowsInTime
<1>3. \A old \in rows :
        buffer # <<>> /\ old.at >= buffer[1].at /\ old.slowest > 0 => SeenIn(old, buffer)
  BY DEF HistoryInv, AllSeen
<1> QED
  BY <1>1, <1>2, <1>3 DEF History!HistoryIsKept, SeenIn, Seen

(* The history's data has its types.                                        *)
THEOREM HistoryTypes == ASSUME HistoryIsSound PROVE History!Spec => []History!TypeOK
<1>1. History!Init => HistoryInv
  BY HistoryBegins
<1>2. HistoryInv /\ [History!Next]_(History!vars) => HistoryInv'
  BY HistoryKeeps
<1>3. HistoryInv => History!TypeOK
  <2>1. ASSUME HistoryInv PROVE History!TypeOK
    <3>1. HistoryData /\ HistoryFlags
      BY <2>1 DEF HistoryInv
    <3> QED
      BY <3>1 DEF HistoryData, HistoryFlags, History!TypeOK
  <2> QED
    BY <2>1
<1> QED
  BY <1>1, <1>2, <1>3, PTL DEF History!Spec

---------------------------------------------------------------------------
(* The fan controller: a speed that was written is the fans', unless a      *)
(* write failed, and the PID's output is within the limits it has. Speeds   *)
(* are percents, of which 30 and 75 are used (fan_controller_task.c).       *)
FanScale ==
    FanFull \in Nat \ {0} /\ FanIdle \in 0..FanFull /\ FanStartup \in 0..FanFull

FansInv == Cooling!TypeOK /\ Cooling!FansAreAsReported

LEMMA FansBegin == ASSUME FanScale PROVE Cooling!Init => FansInv
<1> SUFFICES ASSUME Cooling!Init PROVE FansInv
  OBVIOUS
<1>1. Cooling!TypeOK
  <2>1. 0 \in Cooling!Speeds /\ FanFull \in Cooling!Speeds /\ 0..(FanFull - 1) \subseteq Cooling!Speeds
    BY DEF Cooling!Speeds, FanScale
  <2>2. {manual, min, limit, output, percent} \subseteq Cooling!Speeds
    BY <2>1 DEF Cooling!Init
  <2>3. {auto, valid, automatic, fault, speedSet} \subseteq BOOLEAN /\ mode \in Cooling!Modes
    BY Zenon DEF Cooling!Init
  <2>4. fan \in [Cooling!Fans -> Cooling!Speeds]
    BY <2>1 DEF Cooling!Init
  <2> QED
    BY <2>2, <2>3, <2>4 DEF Cooling!TypeOK
<1>2. Cooling!FansAreAsReported
  BY DEF Cooling!Init, Cooling!FansAreAsReported
<1> QED
  BY <1>1, <1>2 DEF FansInv

(* A speed is written to both fans, or it is a fault.                       *)
LEMMA UpdateIsReported ==
    ASSUME FanScale, FansInv, NEW new \in Cooling!Speeds, NEW broken \in SUBSET Cooling!Fans,
           Cooling!Update(new, broken)
    PROVE  /\ percent' \in Cooling!Speeds /\ fan' \in [Cooling!Fans -> Cooling!Speeds]
           /\ fault' \in BOOLEAN /\ speedSet' \in BOOLEAN
           /\ speedSet' /\ ~fault' => \A f \in Cooling!Fans : fan'[f] = percent'
<1>1. percent \in Cooling!Speeds /\ fan \in [Cooling!Fans -> Cooling!Speeds]
  BY DEF FansInv, Cooling!TypeOK
<1>2. fault \in BOOLEAN /\ speedSet \in BOOLEAN
  BY DEF FansInv, Cooling!TypeOK
<1>3. CASE new = percent
  BY <1>1, <1>2, <1>3 DEF Cooling!Update, FansInv, Cooling!FansAreAsReported
<1>4. CASE new # percent
  <2>1. /\ percent' = new /\ speedSet' = TRUE
        /\ fan' = [f \in Cooling!Fans |-> IF f \in broken THEN fan[f] ELSE new]
        /\ fault' = (fault \/ broken # {})
    BY <1>4 DEF Cooling!Update, Cooling!Failed
  <2>2. fan' \in [Cooling!Fans -> Cooling!Speeds]
    BY <1>1, <2>1
  <2>3. fault' \in BOOLEAN /\ speedSet' \in BOOLEAN
    BY <2>1
  <2>4. ~fault' => broken = {}
    BY <2>1, Zenon
  <2>5. broken = {} => \A f \in Cooling!Fans : fan'[f] = percent'
    BY <2>1
  <2> QED
    BY <2>1, <2>2, <2>3, <2>4, <2>5
<1> QED
  BY <1>3, <1>4

LEMMA CycleKeeps ==
    ASSUME FanScale, FansInv, NEW broken \in SUBSET Cooling!Fans, Cooling!Cycle(broken)
    PROVE  FansInv'
<1>1. /\ mode \in Cooling!Modes /\ manual \in Cooling!Speeds /\ min \in Cooling!Speeds
      /\ limit \in Cooling!Speeds /\ output \in Cooling!Speeds
      /\ fan \in [Cooling!Fans -> Cooling!Speeds]
  BY DEF FansInv, Cooling!TypeOK
<1>2. auto \in BOOLEAN /\ valid \in BOOLEAN /\ automatic \in BOOLEAN
  BY DEF FansInv, Cooling!TypeOK
<1>3. UNCHANGED <<mode, auto, manual, min, valid>>
  BY DEF Cooling!Cycle, Cooling!settings
<1>4. /\ limit' = IF Cooling!Automatic THEN min ELSE limit
      /\ automatic' \in BOOLEAN
      /\ \E new \in Cooling!Speeds : Cooling!Update(new, broken)
      /\ output' \in Cooling!Speeds
      /\ automatic' => output' >= limit'
  <2>1. automatic => output >= limit
    BY DEF FansInv, Cooling!FansAreAsReported
  <2>2. Cooling!Clamped(min) \in Cooling!Speeds /\ (automatic => Cooling!Clamped(min) >= min)
    BY <1>1, FanScale DEF Cooling!Clamped, Cooling!Speeds, FanScale
  <2>3. CASE Cooling!Automatic /\ valid
    <3>1. output' \in min..FanFull \union (IF automatic THEN {Cooling!Clamped(min)} ELSE {})
      BY <2>3 DEF Cooling!Cycle
    <3>2. output' \in Cooling!Speeds /\ output' >= min
      <4>1. CASE output' \in min..FanFull
        BY <4>1, <1>1, FanScale DEF FanScale, Cooling!Speeds
      <4>2. CASE output' \notin min..FanFull
        BY <4>2, <3>1, <2>2
      <4> QED
        BY <4>1, <4>2
    <3>3. limit' = min /\ automatic' = TRUE /\ Cooling!Update(output', broken)
      BY <2>3 DEF Cooling!Cycle
    <3> QED
      BY <3>2, <3>3, <2>3
  <2>4. CASE ~(Cooling!Automatic /\ valid)
    <3>1. /\ automatic' = automatic /\ Cooling!Update(Cooling!Target, broken)
          /\ output' = IF Cooling!Automatic THEN Cooling!Clamped(min) ELSE output
          /\ limit' = IF Cooling!Automatic THEN min ELSE limit
      BY <2>4 DEF Cooling!Cycle
    <3>2. Cooling!Target \in Cooling!Speeds
      <4>1. FanFull \in Cooling!Speeds /\ FanIdle \in Cooling!Speeds /\ FanStartup \in Cooling!Speeds
        BY DEF Cooling!Speeds, FanScale
      <4> QED
        BY <1>1, <4>1, Zenon DEF Cooling!Target
    <3>3. output' \in Cooling!Speeds /\ (automatic => output' >= limit')
      BY <3>1, <2>1, <2>2, <1>1
    <3> QED
      BY <3>1, <3>2, <3>3, <1>2
  <2> QED
    BY <2>3, <2>4
<1>5. PICK new \in Cooling!Speeds : Cooling!Update(new, broken)
  BY <1>4
<1>6. /\ percent' \in Cooling!Speeds /\ fan' \in [Cooling!Fans -> Cooling!Speeds]
      /\ fault' \in BOOLEAN /\ speedSet' \in BOOLEAN
      /\ speedSet' /\ ~fault' => \A f \in Cooling!Fans : fan'[f] = percent'
  BY <1>5, UpdateIsReported
<1>7. limit' \in Cooling!Speeds
  BY <1>1, <1>4
<1>8. Cooling!TypeOK'
  BY <1>1, <1>2, <1>3, <1>4, <1>6, <1>7 DEF Cooling!TypeOK
<1>9. Cooling!FansAreAsReported'
  BY <1>4, <1>6 DEF Cooling!FansAreAsReported
<1> QED
  BY <1>8, <1>9 DEF FansInv

LEMMA FanStepsKeep ==
    ASSUME FanScale PROVE FansInv /\ [Cooling!Next]_(Cooling!vars) => FansInv'
<1> SUFFICES ASSUME FansInv, [Cooling!Next]_(Cooling!vars) PROVE FansInv'
  OBVIOUS
<1> USE DEF FansInv
<1>1. CASE Cooling!Edit
  <2>1. Cooling!TypeOK'
    <3>1. 0..(FanFull - 1) \subseteq Cooling!Speeds
      BY DEF Cooling!Speeds, FanScale
    <3>2. mode' \in Cooling!Modes /\ manual' \in Cooling!Speeds /\ min' \in Cooling!Speeds
      BY <1>1, <3>1 DEF Cooling!Edit, Cooling!TypeOK
    <3>3. auto' \in BOOLEAN /\ valid' \in BOOLEAN
      BY <1>1, Zenon DEF Cooling!Edit, Cooling!TypeOK
    <3>4. UNCHANGED <<limit, automatic, output, percent, fan, fault, speedSet>>
      BY <1>1 DEF Cooling!Edit
    <3> QED
      BY <3>2, <3>3, <3>4 DEF Cooling!TypeOK
  <2>2. Cooling!FansAreAsReported'
    BY <1>1 DEF Cooling!Edit, Cooling!FansAreAsReported
  <2> QED
    BY <2>1, <2>2
<1>2. CASE Cooling!Restart
  <2>1. Cooling!TypeOK'
    <3>1. 0 \in Cooling!Speeds
      BY DEF Cooling!Speeds, FanScale
    <3>2. /\ valid' = FALSE /\ limit' = 0 /\ automatic' = FALSE /\ output' = 0
          /\ percent' = 0 /\ fault' = FALSE /\ speedSet' = FALSE
          /\ UNCHANGED <<mode, auto, manual, min, fan>>
      BY <1>2 DEF Cooling!Restart
    <3> QED
      BY <3>1, <3>2 DEF Cooling!TypeOK
  <2>2. Cooling!FansAreAsReported'
    BY <1>2 DEF Cooling!Restart, Cooling!FansAreAsReported
  <2> QED
    BY <2>1, <2>2
<1>3. CASE \E broken \in SUBSET Cooling!Fans : Cooling!Cycle(broken)
  BY <1>3, CycleKeeps
<1>4. CASE UNCHANGED Cooling!vars
  <2>1. Cooling!TypeOK'
    BY <1>4 DEF Cooling!vars, Cooling!settings, Cooling!TypeOK
  <2>2. Cooling!FansAreAsReported'
    BY <1>4 DEF Cooling!vars, Cooling!settings, Cooling!FansAreAsReported
  <2> QED
    BY <2>1, <2>2
<1> QED
  BY <1>1, <1>2, <1>3, <1>4 DEF Cooling!Next

(* The fan controller's data has its types.                                 *)
THEOREM FanTypes == ASSUME FanScale PROVE Cooling!Spec => []Cooling!TypeOK
<1>1. Cooling!Init => FansInv
  BY FansBegin
<1>2. FansInv /\ [Cooling!Next]_(Cooling!vars) => FansInv'
  BY FanStepsKeep
<1>3. FansInv => Cooling!TypeOK
  BY DEF FansInv
<1> QED
  BY <1>1, <1>2, <1>3, PTL DEF Cooling!Spec

---------------------------------------------------------------------------
(* The sensors, the PID and the tachometers. A diode of a chip is between   *)
(* -64 and 125 degrees, a setpoint is one that the settings allow (35 to 66,  *)
(* nvs_config.c), a least speed below 100 %, and a fan turns at most 20000  *)
(* times a minute: from about 21100 on a count the EMC2101 is read between  *)
(* two of can be 0, which it divides by.                                    *)
ReadingsAreSound ==
    /\ \A t \in Temperatures : t \in Int /\ -1024 <= t /\ t <= 2000
    /\ TempTargets \subseteq 35..66 /\ Minima \subseteq 0..99
    /\ \A r \in FanSpeeds : r \in Nat /\ r <= 20000

(* A temperature that a diode can have                                      *)
Warm(t) == t \in Int /\ -1024 <= t /\ t <= 2000

SensorData ==
    /\ board \in Sensors!Boards /\ heat \in [Sensors!Diodes -> Temperatures]
    /\ diode \in [Sensors!Diodes -> Sensors!Conditions] /\ turn \in Sensors!Diodes
    /\ highByte \in -1..255 /\ temps \in [Sensors!Diodes -> Int]
    /\ actual \in [Sensors!Diodes -> Temperatures]
    /\ source \in [Sensors!Diodes -> Sensors!Conditions \union {"none"}]
PidData ==
    /\ pid \in [auto : BOOLEAN, sum : Int, last : Int, output : 0..Sensors!Full]
    /\ filtered \in Int /\ outputMin \in 0..Sensors!Full /\ goal \in Int /\ former \in Int

(* A low byte that waits for its high one is of a speed the fan had.        *)
TachoData ==
    /\ speed \in Int /\ turned \in Nat /\ lowByte \in -1..255
    /\ shownBy \in {"whole", "torn", "failed"}
    /\ lowByte # -1 =>
          /\ Sensors!TwoByteTacho /\ lowTurn \in FanSpeeds
          /\ lowByte = Sensors!Count(lowTurn) % Sensors!Part

(* A diode whose first byte was read is one that has two, and has since     *)
(* changed by less than a degree, if it is not broken.                      *)
HalfRead ==
    highByte # -1 =>
      LET d == Sensors!Place(turn) IN
      /\ Sensors!TwoReads
      /\ IF diode[d] = "good"
         THEN /\ earlier \in Temperatures /\ highByte = Sensors!MSB((earlier \div 2) % 2048)
              /\ Sensors!Within(Sensors!Degree - 1, heat[d], earlier)
         ELSE highByte = Sensors!MSB(Sensors!Fault(diode[d]))

SensorsInv ==
    /\ SensorData /\ PidData /\ TachoData /\ HalfRead
    /\ Sensors!TemperatureIsTrue /\ Sensors!FansFollowTheHeat /\ Sensors!SpeedIsTrue

---------------------------------------------------------------------------
(* The boards there are.                                                    *)
LEMMA BoardsAreSound ==
    ASSUME board \in Sensors!Boards
    PROVE  /\ board.sensor \in {"EMC2101", "EMC2101_internal", "EMC2103", "TMP1075", "TMP1075_LV07"}
           /\ board.flip \in BOOLEAN /\ board.calibrated \in BOOLEAN
           /\ board.offset \in 0..10
           /\ board.flip \/ board.calibrated => board.sensor = "EMC2103"
           /\ board.sensor \in {"EMC2101", "EMC2103"} => board.offset = 0
<1>1. CASE board = Sensors!Board("EMC2101", FALSE, FALSE, FALSE, 0)
  BY <1>1, SMT DEF Sensors!Board
<1>2. CASE board = Sensors!Board("EMC2101_internal", FALSE, FALSE, FALSE, 5)
  BY <1>2, SMT DEF Sensors!Board
<1>3. CASE board = Sensors!Board("EMC2103", TRUE, FALSE, FALSE, 0)
  BY <1>3, SMT DEF Sensors!Board
<1>4. CASE board = Sensors!Board("EMC2103", FALSE, TRUE, FALSE, 0)
  BY <1>4, SMT DEF Sensors!Board
<1>5. CASE board = Sensors!Board("TMP1075", FALSE, FALSE, FALSE, 10)
  BY <1>5, SMT DEF Sensors!Board
<1>6. CASE board = Sensors!Board("TMP1075_LV07", FALSE, FALSE, FALSE, 5)
  BY <1>6, SMT DEF Sensors!Board
<1>7. CASE board = Sensors!Board("TMP1075_LV07", FALSE, FALSE, TRUE, 5)
  BY <1>7, SMT DEF Sensors!Board
<1> QED
  BY <1>1, <1>2, <1>3, <1>4, <1>5, <1>6, <1>7, Zenon DEF Sensors!Boards

(* The parts of a number                                                    *)
LEMMA Parts8 ==
    ASSUME NEW b \in Int, -512 <= b, b <= 1023
    PROVE  /\ (b % 2048) % 8 = b % 8 /\ b = 8 * (b \div 8) + (b % 8)
           /\ (b % 2048) \div 8 = IF b < 0 THEN 256 + (b \div 8) ELSE b \div 8
OBVIOUS

(* Half of a temperature                                                    *)
LEMMA HalvesAreClose ==
    ASSUME NEW s, Warm(s), NEW t, Warm(t), t - s <= 15, s - t <= 15
    PROVE  /\ s \div 2 \in Int /\ -512 <= s \div 2 /\ s \div 2 <= 1000
           /\ t \div 2 \in Int /\ -512 <= t \div 2 /\ t \div 2 <= 1000
           /\ -8 <= (s \div 2) - (t \div 2) /\ (s \div 2) - (t \div 2) <= 8
           /\ t \in Int /\ t - 2 * (t \div 2) \in 0..1
<1>1. s \in Int /\ t \in Int /\ -1024 <= s /\ -1024 <= t /\ s <= 2000 /\ t <= 2000
  BY DEF Warm
<1> QED
  BY <1>1

(* A temperature in whole degrees                                           *)
LEMMA WholeIsClose ==
    ASSUME NEW t, Warm(t)
    PROVE  /\ Sensors!Whole(t) \in Int
           /\ t >= 0 => Sensors!Whole(t) <= t /\ t <= Sensors!Whole(t) + 15
<1> DEFINE q == t \div 16
<1>1. t \in Int /\ t <= 2000 /\ q \in Int /\ 16 * q <= t /\ t <= 16 * q + 15
  BY DEF Warm
<1> HIDE DEF q
<1>2. q % 256 \in Int /\ (t >= 0 => q % 256 = q)
  BY <1>1
<1>3. Sensors!Whole(t) = 16 * (q % 256)
  BY DEF q, Sensors!Whole, Sensors!Degree
<1> QED
  BY <1>1, <1>2, <1>3

(* A temperature whose two bytes were read while it changed by less than a  *)
(* degree is right within a degree.                                         *)
LEMMA TornReadIsClose ==
    ASSUME NEW a \in Int, -512 <= a, a <= 1000, NEW b \in Int, -512 <= b, b <= 1000,
           -8 <= a - b, a - b <= 8
    PROVE  Sensors!Joined(Sensors!MSB(a % 2048), Sensors!LSB(b % 2048)) - 2 * b \in -16..16
<1> DEFINE m == (a % 2048) \div 8
           l == b % 8
<1>1. (b % 2048) % 8 = l /\ l \in 0..7
  BY Parts8
<1>2. m = IF a < 0 THEN 256 + (a \div 8) ELSE a \div 8
  BY Parts8
<1>3. (m * 256 + l * 32) \div 32 = 8 * m + l
  BY <1>1, <1>2
<1>4. Sensors!Joined(Sensors!MSB(a % 2048), Sensors!LSB(b % 2048))
        = 2 * Sensors!Signed(8 * m + l, 2048)
  BY <1>1, <1>3 DEF Sensors!Joined, Sensors!MSB, Sensors!LSB
<1>5. Sensors!Signed(8 * m + l, 2048) = 8 * (a \div 8) + l
  BY <1>1, <1>2 DEF Sensors!Signed
<1>6. b = 8 * (b \div 8) + l
  OBVIOUS
<1>7. (a \div 8) - (b \div 8) \in -1..1
  OBVIOUS
<1> HIDE DEF l
<1> QED
  BY <1>1, <1>4, <1>5, <1>6, <1>7

(* The calibration keeps close temperatures close.                          *)
LEMMA CalibrationIsClose ==
    ASSUME board \in Sensors!Boards, NEW d \in Sensors!Diodes, NEW x \in Int, NEW y \in Int,
           Sensors!Within(17, x, y)
    PROVE  Sensors!Within(18, Sensors!Result(d, x), Sensors!Result(d, y))
<1>1. board.calibrated \in BOOLEAN /\ board.offset \in Int
  BY BoardsAreSound
<1> DEFINE u == (x * 9614) \div 10000
           v == (y * 9614) \div 10000
<1>2. u \in Int /\ v \in Int /\ u - v <= 18 /\ v - u <= 18 /\ x - y <= 18 /\ y - x <= 18
  BY SMT DEF Sensors!Within
<1>3. /\ Sensors!Calibrated(d, x)
           = IF board.calibrated THEN u - (IF d = 1 THEN 81 ELSE 253) ELSE x
      /\ Sensors!Calibrated(d, y)
           = IF board.calibrated THEN v - (IF d = 1 THEN 81 ELSE 253) ELSE y
  BY SMT DEF Sensors!Calibrated
<1> HIDE DEF u, v
<1> QED
  BY <1>1, <1>2, <1>3, SMT DEF Sensors!Within, Sensors!Result, Sensors!Degree

(* A broken diode shows no temperature to mine at.                          *)
LEMMA FaultsAreSeen ==
    ASSUME board \in Sensors!Boards, Sensors!TwoReads, NEW d \in Sensors!Diodes,
           NEW c \in {"open", "short"}
    PROVE  LET word == Sensors!Fault(c)
               t == Sensors!Result(d, Sensors!Joined(Sensors!MSB(word), Sensors!LSB(word)))
           IN  t \in Int /\ (t <= 0 \/ t > Sensors!Throttle)
<1>1. /\ board.calibrated \in BOOLEAN /\ board.offset = 0
      /\ board.sensor \in {"EMC2101", "EMC2103"}
      /\ board.calibrated => board.sensor = "EMC2103"
  BY BoardsAreSound DEF Sensors!TwoReads
<1> DEFINE J(w) == Sensors!Joined(Sensors!MSB(w), Sensors!LSB(w))
<1>2. J(1024) = -2048 /\ J(1016) = 2032 /\ J(1023) = 2046
  BY DEF Sensors!Joined, Sensors!MSB, Sensors!LSB, Sensors!Signed
<1>3. Sensors!Fault(c) \in {1016, 1023, 1024}
  BY DEF Sensors!Fault
<1>4. board.sensor = "EMC2103" => Sensors!Fault(c) = 1024
  BY DEF Sensors!Fault
<1>5. board.sensor # "EMC2103" => Sensors!Fault(c) \in {1016, 1023}
  BY DEF Sensors!Fault
<1>6. (-2048 * 9614) \div 10000 \in -1970..-1960
  OBVIOUS
<1> HIDE DEF J
<1>7. CASE board.sensor = "EMC2103"
  <2>1. Sensors!Result(d, -2048) \in Int /\ Sensors!Result(d, -2048) <= 0
    BY <1>1, <1>6 DEF Sensors!Result, Sensors!Calibrated, Sensors!Degree
  <2> QED
    BY <2>1, <1>2, <1>4, <1>7 DEF J
<1>8. CASE board.sensor = "EMC2101"
  <2>1. ~board.calibrated
    BY <1>1, <1>8
  <2>2. \A x \in Int : Sensors!Result(d, x) = x
    BY <1>1, <2>1 DEF Sensors!Result, Sensors!Calibrated, Sensors!Degree
  <2> QED
    BY <2>2, <1>2, <1>5, <1>8 DEF J, Sensors!Throttle, Sensors!Degree
<1> QED
  BY <1>1, <1>7, <1>8

---------------------------------------------------------------------------
(* Quotient and remainder determine each other.                             *)
LEMMA QuotientIs ==
    ASSUME NEW n \in Nat, NEW q \in Nat \ {0}, NEW k \in Nat, NEW s \in 0..(q - 1), n = q * k + s
    PROVE  n \div q = k
<1> DEFINE e == n \div q
<1>1. e \in Nat /\ n % q \in 0..(q - 1) /\ n = q * e + (n % q)
  OBVIOUS
<1> HIDE DEF e
<1>2. CASE e > k
  <2>1. q * e >= q * (k + 1)
    BY <1>1, <1>2
  <2>2. q * (k + 1) = q * k + q
    OBVIOUS
  <2> QED
    BY <1>1, <2>1, <2>2
<1>3. CASE e < k
  <2>1. q * k >= q * (e + 1)
    BY <1>1, <1>3
  <2>2. q * (e + 1) = q * e + q
    BY <1>1
  <2> QED
    BY <1>1, <2>1, <2>2
<1> QED
  BY <1>1, <1>2, <1>3 DEF e

(* A speed that is counted and turned back into a speed is at most a        *)
(* hundredth too high, when the count is at least 100.                      *)
LEMMA SpeedIsClose ==
    ASSUME NEW n \in Nat, NEW r \in Nat \ {0}, n \div r >= 100
    PROVE  n \div (n \div r) - r \in 0..(r \div 100)
<1> DEFINE q == n \div r
           s == n % r
<1>1. q \in Nat /\ s \in 0..(r - 1) /\ n = r * q + s /\ q >= 100
  OBVIOUS
<1> HIDE DEF q, s
<1> DEFINE k == s \div q
           u == s % q
<1>2. k \in Nat /\ u \in 0..(q - 1) /\ s = q * k + u
  BY <1>1
<1> HIDE DEF k, u
<1>3. n = q * (r + k) + u
  BY <1>1, <1>2
<1>4. n \div q = r + k
  BY <1>1, <1>2, <1>3, QuotientIs
<1>5. 100 * k <= r
  <2>1. 100 * k <= q * k
    BY <1>1, <1>2
  <2> QED
    BY <2>1, <1>1, <1>2
<1>6. k <= r \div 100
  BY <1>5, <1>2
<1> QED
  BY <1>2, <1>4, <1>6 DEF q

(* What the tachometer's count is shown as                                  *)
LEMMA SpeedIsShown ==
    ASSUME ReadingsAreSound, board \in Sensors!Boards, NEW rpm \in FanSpeeds
    PROVE  LET s == Sensors!FanSpeed(Sensors!Count(rpm)) IN
           /\ Sensors!Count(rpm) \in Nat \ {0}
           /\ s \in Int
           /\ rpm >= 1000 => s # 0
           /\ rpm >= 1000 => s - rpm \in 0..(rpm \div 100)
           /\ rpm = 0 => s = 0 \/ (board.sensor = "EMC2103" /\ s = 960)
<1> DEFINE N == Sensors!Numerator
           L == Sensors!LastCount
<1>1. rpm \in Nat /\ rpm <= 20000
  BY SMT DEF ReadingsAreSound
<1>2. board.sensor \in {"EMC2101", "EMC2101_internal", "EMC2103", "TMP1075", "TMP1075_LV07"}
  BY BoardsAreSound, SMT
<1>3. \/ N = 5400000 /\ L = 65535 /\ board.sensor \in {"EMC2101", "EMC2101_internal"}
      \/ N = 7864320 /\ L = 8191 /\ board.sensor = "EMC2103"
      \/ N = 3932160 /\ L = 8191 /\ board.sensor \in {"TMP1075", "TMP1075_LV07"}
  BY <1>2, SMT DEF Sensors!Numerator, Sensors!LastCount, Sensors!Emc2101
<1>4. Sensors!Count(rpm) \in Nat \ {0}
  <2>1. L \in Nat \ {0}
    BY <1>3, SMT
  <2>2. ASSUME rpm # 0 PROVE N \div rpm \in Nat \ {0}
    <3>1. N \in Nat /\ N >= rpm
      BY <1>1, <1>3, SMT
    <3> QED
      BY <3>1, <2>2, <1>1, SMT
  <2> QED
    BY <2>1, <2>2, SMT DEF Sensors!Count
<1>5. Sensors!FanSpeed(Sensors!Count(rpm)) \in Int
  BY <1>3, <1>4, SMT DEF Sensors!FanSpeed
<1>6. ASSUME rpm >= 1000 PROVE Sensors!FanSpeed(Sensors!Count(rpm)) - rpm \in 0..(rpm \div 100)
  <2> DEFINE c == N \div rpm
  <2>1. c \in Nat /\ c >= 100
    BY <1>1, <1>3, <1>6, SMT
  <2>2. c <= L /\ c < 8000
    BY <1>1, <1>3, <1>6, SMT
  <2>3. N \in Nat
    BY <1>3, SMT
  <2>4. N \div c - rpm \in 0..(rpm \div 100)
    <3>1. rpm \in Nat \ {0}
      BY <1>1, <1>6, SMT
    <3> HIDE DEF N
    <3>2. N \div (N \div rpm) - rpm \in 0..(rpm \div 100)
      BY <2>1, <2>3, <3>1, SpeedIsClose
    <3> QED
      BY <3>2
  <2>5. Sensors!Count(rpm) = c
    BY <2>1, <2>2, <1>1, <1>3, <1>6, SMT DEF Sensors!Count
  <2> HIDE DEF c, N
  <2>6. ~Sensors!Standing(c)
    <3>1. c \div 32 # 255 /\ c \notin {0, 8191}
      BY <2>1, <2>2, SMT
    <3>2. N \div c # 82
      BY <2>4, <1>1, <1>6, SMT
    <3> QED
      BY <3>1, <3>2, SMT DEF Sensors!Standing, N
  <2> QED
    BY <2>4, <2>5, <2>6, SMT DEF Sensors!FanSpeed, N
<1>7. ASSUME rpm = 0
      PROVE  LET s == Sensors!FanSpeed(Sensors!Count(rpm)) IN
             s = 0 \/ (board.sensor = "EMC2103" /\ s = 960)
  <2>1. Sensors!Count(rpm) = L
    BY <1>7, SMT DEF Sensors!Count
  <2>2. 5400000 \div 65535 = 82 /\ 7864320 \div 8191 = 960 /\ 8191 \div 32 = 255
    BY SMT
  <2>3. L = 8191 /\ board.sensor \in {"TMP1075", "TMP1075_LV07"} => Sensors!Standing(L)
    BY <2>2, SMT DEF Sensors!Standing
  <2>4. N = 5400000 /\ L = 65535 /\ board.sensor \in {"EMC2101", "EMC2101_internal"}
          => Sensors!Standing(L)
    BY <2>2, SMT DEF Sensors!Standing
  <2>5. N = 7864320 /\ L = 8191 => Sensors!FanSpeed(L) \in {0, 960}
    BY <2>2, SMT DEF Sensors!FanSpeed
  <2> QED
    BY <1>3, <2>1, <2>3, <2>4, <2>5, SMT DEF Sensors!FanSpeed
<1>8. rpm >= 1000 => Sensors!FanSpeed(Sensors!Count(rpm)) # 0
  BY <1>1, <1>5, <1>6, SMT
<1> QED
  BY <1>4, <1>5, <1>6, <1>7, <1>8, SMT

(* What a high byte and the low byte of another speed are shown as          *)
LEMMA TornSpeedIsShown ==
    ASSUME ReadingsAreSound, board \in Sensors!Boards, Sensors!TwoByteTacho,
           NEW rpm \in FanSpeeds, NEW low \in 0..(Sensors!Part - 1)
    PROVE  LET s == Sensors!FanSpeed((Sensors!Count(rpm) \div Sensors!Part) * Sensors!Part + low)
           IN  /\ s \in Int
               /\ rpm >= 1000 => s # 0
               /\ rpm = 0 => s = 0 \/ (board.sensor = "EMC2103" /\ s \in 960..963)
<1> DEFINE N == Sensors!Numerator
           L == Sensors!LastCount
           P == Sensors!Part
           c == Sensors!Count(rpm)
           J == (c \div P) * P + low
<1>1. rpm \in Nat /\ rpm <= 20000
  BY SMT DEF ReadingsAreSound
<1>2. \/ N = 5400000 /\ L = 65535 /\ P = 256 /\ board.sensor \in {"EMC2101", "EMC2101_internal"}
      \/ N = 7864320 /\ L = 8191 /\ P = 32 /\ board.sensor = "EMC2103"
  BY SMT DEF Sensors!Numerator, Sensors!LastCount, Sensors!Emc2101, Sensors!Part, Sensors!TwoByteTacho
<1>3. /\ c \in Nat /\ c >= 256 /\ c <= L
      /\ rpm >= 1000 => c <= N \div 1000
      /\ rpm = 0 => c = L
  <2>1. CASE rpm = 0
    BY <2>1, <1>2, SMT DEF Sensors!Count
  <2>2. CASE rpm # 0
    <3>1. N \div rpm \in Nat /\ N \div rpm >= 270
      BY <2>2, <1>1, <1>2, SMT
    <3>2. rpm >= 1000 => N \div rpm <= N \div 1000
      BY <2>2, <1>1, <1>2, SMT
    <3>3. rpm >= 1000 => N \div rpm <= L
      BY <3>2, <3>1, <1>2, SMT
    <3> HIDE DEF N, L
    <3>4. c = IF N \div rpm > L THEN L ELSE N \div rpm
      BY <2>2, Zenon DEF Sensors!Count, N, L
    <3>5. L \in Nat /\ L >= 8191
      BY <1>2, SMT DEF L
    <3> QED
      BY <2>2, <3>1, <3>2, <3>3, <3>4, <3>5, SMT
  <2> QED
    BY <2>1, <2>2
<1>4. low \in Nat /\ low < P
  BY <1>2, SMT
<1> HIDE DEF c, N, L, P
<1>5. /\ J \in Nat /\ J >= 256 /\ J <= L
      /\ rpm >= 1000 => J < N \div 1000 + P
      /\ rpm = 0 => J > L - P
  <2>1. CASE P = 256 /\ L = 65535
    BY <2>1, <1>2, <1>3, <1>4, SMT
  <2>2. CASE P = 32 /\ L = 8191
    BY <2>2, <1>2, <1>3, <1>4, SMT
  <2> QED
    BY <1>2, <2>1, <2>2
<1>6. Sensors!FanSpeed(J) = IF N \div J = 82 THEN 0 ELSE N \div J
  BY <1>2, SMT DEF Sensors!FanSpeed, Sensors!Standing, N
<1> HIDE DEF J
<1>7. N \div J \in Nat /\ (rpm >= 1000 => N \div J > 82)
  BY <1>2, <1>5, SMT
<1>8. ASSUME rpm = 0
      PROVE  N \div J = 82 \/ (board.sensor = "EMC2103" /\ N \div J \in 960..963)
  <2>1. CASE N = 5400000 /\ L = 65535 /\ P = 256
    BY <2>1, <1>5, <1>8, SMT
  <2>2. CASE N = 7864320 /\ L = 8191 /\ P = 32 /\ board.sensor = "EMC2103"
    BY <2>2, <1>5, <1>8, SMT
  <2> QED
    BY <1>2, <2>1, <2>2
<1>9. /\ Sensors!FanSpeed(J) \in Int
      /\ rpm >= 1000 => Sensors!FanSpeed(J) # 0
      /\ rpm = 0 => \/ Sensors!FanSpeed(J) = 0
                    \/ board.sensor = "EMC2103" /\ Sensors!FanSpeed(J) \in 960..963
  BY <1>1, <1>6, <1>7, <1>8, SMT
<1> QED
  BY <1>9 DEF J, c, P

TachoInv == TachoData /\ Sensors!SpeedIsTrue

LEMMA TachoStays == TachoInv /\ UNCHANGED <<board, Sensors!tacho>> => TachoInv'
<1> SUFFICES ASSUME TachoInv, UNCHANGED <<board, Sensors!tacho>> PROVE TachoInv'
  OBVIOUS
<1>1. UNCHANGED <<board, speed, lowByte, turned, lowTurn, shownBy>>
  BY DEF Sensors!tacho
<1>2. Sensors!Numerator' = Sensors!Numerator /\ Sensors!LastCount' = Sensors!LastCount
  BY <1>1 DEF Sensors!Numerator, Sensors!LastCount, Sensors!Emc2101
<1>3. /\ Sensors!TwoByteTacho' = Sensors!TwoByteTacho /\ Sensors!Part' = Sensors!Part
      /\ Sensors!Count(lowTurn)' = Sensors!Count(lowTurn)
  BY <1>1, <1>2 DEF Sensors!TwoByteTacho, Sensors!Part, Sensors!Emc2101, Sensors!Count
<1>4. TachoData'
  BY <1>1, <1>3 DEF TachoInv, TachoData
<1>5. Sensors!SpeedIsTrue'
  BY <1>1 DEF TachoInv, Sensors!SpeedIsTrue
<1> QED
  BY <1>4, <1>5 DEF TachoInv

LEMMA NoAnswerKeeps == Sensors!NoAnswer => TachoInv'
BY DEF Sensors!NoAnswer, Sensors!ShowsSpeed, TachoInv, TachoData, Sensors!SpeedIsTrue

(* A speed that is true                                                     *)
LEMMA ShownSpeedIsTrue ==
    ASSUME NEW s \in Int, NEW rpm \in Nat, NEW how \in {"whole", "torn"}, UNCHANGED board,
           Sensors!ShowsSpeed(s, rpm, how),
           rpm >= 1000 => s # 0,
           rpm >= 1000 /\ how = "whole" => s - rpm \in 0..(rpm \div 100),
           rpm = 0 => s = 0 \/ (board.sensor = "EMC2103" /\ s \in 960..963)
    PROVE  TachoInv'
<1>1. speed' = s /\ turned' = rpm /\ shownBy' = how /\ lowByte' = -1
  BY DEF Sensors!ShowsSpeed
<1>2. TachoData'
  BY <1>1 DEF TachoData
<1>3. Sensors!SpeedIsTrue'
  BY <1>1 DEF Sensors!SpeedIsTrue
<1> QED
  BY <1>2, <1>3 DEF TachoInv

LEMMA ReadTurnKeeps ==
    ASSUME ReadingsAreSound, board \in Sensors!Boards, TachoInv, UNCHANGED board,
           NEW rpm \in FanSpeeds, Sensors!ReadTurn(rpm)
    PROVE  TachoInv'
<1> DEFINE s == Sensors!FanSpeed(Sensors!Count(rpm))
<1>1. /\ rpm \in Nat /\ s \in Int /\ Sensors!Count(rpm) \in Nat \ {0}
      /\ rpm >= 1000 => s # 0
      /\ rpm >= 1000 => s - rpm \in 0..(rpm \div 100)
      /\ rpm = 0 => s = 0 \/ (board.sensor = "EMC2103" /\ s = 960)
  BY SpeedIsShown DEF ReadingsAreSound
<1>2. CASE /\ Sensors!TwoByteTacho /\ lowByte' = Sensors!Count(rpm) % Sensors!Part /\ lowTurn' = rpm
           /\ UNCHANGED <<speed, turned, shownBy, errors>>
  <2>1. Sensors!Count(rpm) % Sensors!Part \in 0..255
    BY <1>1 DEF Sensors!Part
  <2>2. Sensors!Numerator' = Sensors!Numerator /\ Sensors!LastCount' = Sensors!LastCount
    BY DEF Sensors!Numerator, Sensors!LastCount, Sensors!Emc2101
  <2>3. /\ Sensors!TwoByteTacho' = Sensors!TwoByteTacho /\ Sensors!Part' = Sensors!Part
        /\ Sensors!Count(lowTurn)' = Sensors!Count(rpm)
    BY <1>2, <2>2 DEF Sensors!TwoByteTacho, Sensors!Part, Sensors!Emc2101, Sensors!Count
  <2> HIDE DEF s
  <2>4. TachoData'
    BY <1>2, <2>1, <2>3 DEF TachoInv, TachoData
  <2>5. Sensors!SpeedIsTrue'
    BY <1>2 DEF TachoInv, Sensors!SpeedIsTrue
  <2> QED
    BY <2>4, <2>5 DEF TachoInv
<1>3. CASE Sensors!ShowsSpeed(s, rpm, "whole")
  <2> HIDE DEF s
  <2>1. rpm = 0 => s = 0 \/ (board.sensor = "EMC2103" /\ s \in 960..963)
    BY <1>1
  <2>2. "whole" \in {"whole", "torn"}
    OBVIOUS
  <2>3. /\ s \in Int /\ rpm \in Nat
        /\ rpm >= 1000 => s # 0
        /\ rpm >= 1000 /\ "whole" = "whole" => s - rpm \in 0..(rpm \div 100)
    BY <1>1
  <2> QED
    BY <1>3, <2>1, <2>2, <2>3, ShownSpeedIsTrue, Zenon
<1> QED
  BY <1>2, <1>3, NoAnswerKeeps, Zenon DEF Sensors!ReadTurn

LEMMA ReadTurnHighKeeps ==
    ASSUME ReadingsAreSound, board \in Sensors!Boards, TachoInv,
           NEW rpm \in FanSpeeds, Sensors!ReadTurnHigh(rpm)
    PROVE  TachoInv'
<1> DEFINE count == (Sensors!Count(rpm) \div Sensors!Part) * Sensors!Part + lowByte
           s == Sensors!FanSpeed(count)
           how == IF rpm = lowTurn THEN "whole" ELSE "torn"
<1>1. UNCHANGED board /\ rpm \in Nat
  BY DEF Sensors!ReadTurnHigh, ReadingsAreSound
<1>2. /\ Sensors!TwoByteTacho /\ lowTurn \in FanSpeeds
      /\ lowByte = Sensors!Count(lowTurn) % Sensors!Part
  BY DEF Sensors!ReadTurnHigh, TachoInv, TachoData
<1>3. /\ Sensors!FanSpeed(Sensors!Count(rpm)) \in Int /\ Sensors!Count(rpm) \in Nat
      /\ rpm >= 1000 => Sensors!FanSpeed(Sensors!Count(rpm)) - rpm \in 0..(rpm \div 100)
  BY SpeedIsShown
<1>4. Sensors!Count(lowTurn) \in Nat /\ Sensors!Part \in {32, 256}
  BY <1>2, SpeedIsShown DEF Sensors!Part
<1>5. lowByte \in 0..(Sensors!Part - 1)
  BY <1>2, <1>4
<1>6. /\ s \in Int
      /\ rpm >= 1000 => s # 0
      /\ rpm = 0 => s = 0 \/ (board.sensor = "EMC2103" /\ s \in 960..963)
  BY <1>2, <1>5, TornSpeedIsShown
<1>7. rpm = lowTurn => count = Sensors!Count(rpm)
  <2>1. \A c \in Nat : (c \div 32) * 32 + (c % 32) = c /\ (c \div 256) * 256 + (c % 256) = c
    OBVIOUS
  <2> QED
    BY <2>1, <1>2, <1>3, <1>4
<1>8. rpm >= 1000 /\ how = "whole" => s - rpm \in 0..(rpm \div 100)
  BY <1>3, <1>7
<1>9. CASE Sensors!ShowsSpeed(s, rpm, how)
  <2>1. how \in {"whole", "torn"}
    OBVIOUS
  <2> HIDE DEF s, how
  <2> QED
    BY <1>1, <1>6, <1>8, <1>9, <2>1, ShownSpeedIsTrue, Zenon
<1> QED
  BY <1>9, NoAnswerKeeps, Zenon DEF Sensors!ReadTurnHigh
---------------------------------------------------------------------------
(* Full speed is above each least speed.                                    *)
LEMMA FullIs ==
    Sensors!Full \in Nat /\ \A m \in 0..99 : m * Sensors!Percent \in Nat /\ m * Sensors!Percent < Sensors!Full
BY SMT DEF Sensors!Full, Sensors!Percent

(* Initially nothing was read, computed or turned.                          *)
LEMMA SensorsBegin == ASSUME ReadingsAreSound PROVE Sensors!Init => SensorsInv
<1> SUFFICES ASSUME Sensors!Init PROVE SensorsInv
  OBVIOUS
<1>1. SensorData
  BY DEF Sensors!Init, SensorData, Sensors!Diodes, Sensors!Conditions
<1>2. PidData
  BY FullIs DEF Sensors!Init, PidData, Sensors!Invalid, Sensors!Degree
<1>3. HalfRead
  BY DEF Sensors!Init, HalfRead
<1>4. Sensors!TemperatureIsTrue /\ Sensors!FansFollowTheHeat
  BY DEF Sensors!Init, Sensors!TemperatureIsTrue, Sensors!FansFollowTheHeat
<1>5. TachoData /\ Sensors!SpeedIsTrue
  BY DEF Sensors!Init, TachoData, Sensors!SpeedIsTrue
<1> QED
  BY <1>1, <1>2, <1>3, <1>4, <1>5 DEF SensorsInv

(* What is shown stays true while nothing else is read.                     *)
LEMMA TemperatureStays ==
    ASSUME Sensors!TemperatureIsTrue, UNCHANGED <<board, temps, actual, source>>
    PROVE  Sensors!TemperatureIsTrue'
<1> DEFINE off(d) == IF d = 1 THEN 81 ELSE 253
<1>1. board' = board /\ temps' = temps /\ actual' = actual /\ source' = source
  OBVIOUS
<1>2. ASSUME NEW i \in Sensors!Diodes
      PROVE  (Sensors!Within(18, temps[i], Sensors!Result(Sensors!Place(i), actual[i])))'
               = Sensors!Within(18, temps[i], Sensors!Result(Sensors!Place(i), actual[i]))
  BY <1>1, SMT DEF Sensors!Within, Sensors!Result, Sensors!Calibrated, Sensors!Place
<1> QED
  BY <1>1, <1>2, SMT DEF Sensors!TemperatureIsTrue

(* What a step of the sensors has to show: what is shown next is near the   *)
(* truth, and the next temperature begins with its first byte.              *)
LEMMA ShownIsTrue ==
    ASSUME ReadingsAreSound, SensorsInv, NEW t \in Int,
           NEW how \in Sensors!Conditions \union {"none"}, Sensors!Shows(turn, t, how),
           UNCHANGED <<board, heat, diode, powered, moves>>,
           how = "good" /\ (board.sensor = "EMC2101_internal" => heat[Sensors!Place(turn)] >= 0)
             => Sensors!Within(18, t, Sensors!Result(Sensors!Place(turn), heat[Sensors!Place(turn)])),
           how \in {"open", "short"} => t <= 0 \/ t > Sensors!Throttle
    PROVE  SensorData' /\ HalfRead' /\ Sensors!TemperatureIsTrue'
<1>1. SensorData /\ Sensors!TemperatureIsTrue
  BY DEF SensorsInv
<1>2. /\ temps' = [temps EXCEPT ![turn] = t]
      /\ actual' = [actual EXCEPT ![turn] = heat[Sensors!Place(turn)]]
      /\ source' = [source EXCEPT ![turn] = how]
      /\ turn' = 3 - turn /\ highByte' = -1
  BY DEF Sensors!Shows
<1>3. Sensors!Place(turn) \in Sensors!Diodes
  BY <1>1, BoardsAreSound DEF SensorData, Sensors!Place, Sensors!Diodes
<1>4. SensorData'
  BY <1>1, <1>2, <1>3 DEF SensorData, Sensors!Diodes
<1>5. HalfRead'
  BY <1>2 DEF HalfRead
<1>6. board' = board
  OBVIOUS
<1>7. Sensors!TemperatureIsTrue'
  <2> SUFFICES ASSUME NEW i \in Sensors!Diodes
      PROVE  /\ source'[i] = "good"
                  /\ (board.sensor = "EMC2101_internal" => actual'[i] >= 0) =>
                    Sensors!Within(18, temps'[i], Sensors!Result(Sensors!Place(i), actual'[i]))
             /\ source'[i] \in {"open", "short"} => temps'[i] <= 0 \/ temps'[i] > Sensors!Throttle
    BY <1>6 DEF Sensors!TemperatureIsTrue, Sensors!Within, Sensors!Result, Sensors!Calibrated, Sensors!Place
  <2>1. CASE i = turn
    <3>1. temps'[i] = t /\ actual'[i] = heat[Sensors!Place(turn)] /\ source'[i] = how
      BY <1>1, <1>2, <2>1 DEF SensorData
    <3> QED
      BY <3>1, <2>1
  <2>2. CASE i # turn
    <3>1. temps'[i] = temps[i] /\ actual'[i] = actual[i] /\ source'[i] = source[i]
      BY <1>1, <1>2, <2>2 DEF SensorData
    <3> QED
      BY <3>1, <1>1 DEF Sensors!TemperatureIsTrue
  <2> QED
    BY <2>1, <2>2
<1> QED
  BY <1>4, <1>5, <1>7

(* The first byte                                                           *)
LEMMA FirstByteKeeps ==
    ASSUME ReadingsAreSound, SensorsInv, Sensors!ReadHigh,
           UNCHANGED <<board, heat, diode, powered, moves>>
    PROVE  SensorData' /\ HalfRead' /\ Sensors!TemperatureIsTrue'
<1> DEFINE d == Sensors!Place(turn)
<1>1. SensorData /\ Sensors!TemperatureIsTrue
  BY DEF SensorsInv
<1>2. /\ Sensors!TwoReads /\ highByte' = Sensors!MSB(Sensors!Word(d)) /\ earlier' = heat[d]
      /\ UNCHANGED <<turn, temps, actual, source, board, heat, diode>>
  BY DEF Sensors!ReadHigh
<1>3. d \in Sensors!Diodes /\ heat[d] \in Temperatures /\ Warm(heat[d])
  BY <1>1, BoardsAreSound DEF SensorData, Sensors!Place, Sensors!Diodes, ReadingsAreSound, Warm
<1>4. diode[d] # "good" => diode[d] \in {"open", "short"}
  BY <1>1, <1>3 DEF SensorData, Sensors!Conditions
<1>5. Sensors!MSB(Sensors!Word(d)) \in 0..255
  <2>1. CASE diode[d] = "good"
    <3>1. Sensors!Word(d) = (heat[d] \div 2) % 2048
      BY <2>1 DEF Sensors!Word
    <3> QED
      BY <3>1, <1>3 DEF Warm, Sensors!MSB
  <2>2. CASE diode[d] # "good"
    <3>1. Sensors!Word(d) \in {1016, 1023, 1024}
      BY <2>2 DEF Sensors!Word, Sensors!Fault
    <3> QED
      BY <3>1 DEF Sensors!MSB
  <2> QED
    BY <2>1, <2>2
<1>6. SensorData'
  BY <1>1, <1>2, <1>5 DEF SensorData
<1>7. HalfRead'
  <2>1. Sensors!Place(turn)' = d /\ Sensors!TwoReads' /\ diode' = diode /\ heat' = heat
    BY <1>2 DEF Sensors!Place, Sensors!TwoReads
  <2>2. CASE diode[d] = "good"
    <3>1. highByte' = Sensors!MSB((heat[d] \div 2) % 2048)
      BY <1>2, <2>2 DEF Sensors!Word
    <3>2. Sensors!Within(Sensors!Degree - 1, heat[d], heat[d])
      BY <1>3 DEF Warm, Sensors!Degree, Sensors!Within
    <3> QED
      BY <1>2, <1>3, <2>1, <2>2, <3>1, <3>2 DEF HalfRead, Sensors!MSB, Sensors!Within, Sensors!Degree
  <2>3. CASE diode[d] # "good"
    <3>1. highByte' = Sensors!MSB(Sensors!Fault(diode[d]))
      BY <1>2, <2>3 DEF Sensors!Word
    <3> QED
      BY <1>2, <2>1, <2>3, <3>1 DEF HalfRead, Sensors!MSB, Sensors!Fault
  <2> QED
    BY <2>2, <2>3
<1>8. Sensors!TemperatureIsTrue'
  BY <1>1, <1>2, TemperatureStays
<1> QED
  BY <1>6, <1>7, <1>8

(* The second byte                                                          *)
LEMMA SecondByteKeeps ==
    ASSUME ReadingsAreSound, SensorsInv, Sensors!ReadLow,
           UNCHANGED <<board, heat, diode, powered, moves>>
    PROVE  SensorData' /\ HalfRead' /\ Sensors!TemperatureIsTrue'
<1> DEFINE d == Sensors!Place(turn)
           t == Sensors!Result(d, Sensors!Joined(highByte, Sensors!LSB(Sensors!Word(d))))
<1>1. SensorData /\ HalfRead
  BY DEF SensorsInv
<1>2. highByte # -1 /\ Sensors!Shows(turn, t, diode[d])
  BY DEF Sensors!ReadLow
<1>3. d \in Sensors!Diodes /\ Warm(heat[d])
  BY <1>1, BoardsAreSound DEF SensorData, Sensors!Place, Sensors!Diodes, ReadingsAreSound, Warm
<1>4. diode[d] \in Sensors!Conditions
  BY <1>1, <1>3 DEF SensorData
<1>5. Sensors!TwoReads
  BY <1>1, <1>2 DEF HalfRead
<1>6. CASE diode[d] = "good"
  <2>1. /\ Warm(earlier) /\ highByte = Sensors!MSB((earlier \div 2) % 2048)
        /\ heat[d] - earlier <= 15 /\ earlier - heat[d] <= 15
    <3>1. /\ earlier \in Temperatures /\ highByte = Sensors!MSB((earlier \div 2) % 2048)
          /\ Sensors!Within(Sensors!Degree - 1, heat[d], earlier)
      BY <1>1, <1>2, <1>6 DEF HalfRead
    <3>2. Warm(earlier)
      BY <3>1 DEF ReadingsAreSound, Warm
    <3>3. heat[d] - earlier <= 15 /\ earlier - heat[d] <= 15
      BY <3>1, <3>2, <1>3 DEF Warm, Sensors!Within, Sensors!Degree
    <3> QED
      BY <3>1, <3>2, <3>3
  <2>2. Sensors!Word(d) = (heat[d] \div 2) % 2048
    BY <1>6 DEF Sensors!Word
  <2> DEFINE a == earlier \div 2
             b == heat[d] \div 2
  <2>3. /\ a \in Int /\ -512 <= a /\ a <= 1000 /\ b \in Int /\ -512 <= b /\ b <= 1000
        /\ -8 <= a - b /\ a - b <= 8 /\ heat[d] \in Int /\ heat[d] - 2 * b \in 0..1
    BY <2>1, <1>3, HalvesAreClose DEF Warm
  <2> DEFINE j == Sensors!Joined(highByte, Sensors!LSB(Sensors!Word(d)))
  <2>4. j - 2 * b \in -16..16
    BY <2>1, <2>2, <2>3, TornReadIsClose
  <2>5. j \in Int
    BY <2>1, <2>2, <2>3 DEF Sensors!Joined, Sensors!LSB, Sensors!MSB, Sensors!Signed
  <2> HIDE DEF j, b
  <2>6. Sensors!Within(17, j, heat[d])
    BY <2>3, <2>4, <2>5 DEF Sensors!Within
  <2>7. Sensors!Within(18, Sensors!Result(d, j), Sensors!Result(d, heat[d]))
    BY <2>3, <2>5, <2>6, <1>1, <1>3, CalibrationIsClose DEF SensorData
  <2>8. t \in Int
    BY <2>5, <1>1, BoardsAreSound DEF j, SensorData, Sensors!Result, Sensors!Calibrated,
         Sensors!Degree
  <2> HIDE DEF t
  <2>9. Sensors!Within(18, t, Sensors!Result(d, heat[d]))
    BY <2>7 DEF t, j
  <2> QED
    BY <1>2, <1>6, <2>8, <2>9, ShownIsTrue, Zenon DEF Sensors!Conditions
<1>7. CASE diode[d] # "good"
  <2>1. highByte = Sensors!MSB(Sensors!Fault(diode[d]))
    BY <1>1, <1>2, <1>7 DEF HalfRead
  <2>2. Sensors!Word(d) = Sensors!Fault(diode[d])
    BY <1>7 DEF Sensors!Word
  <2>3. diode[d] \in {"open", "short"}
    BY <1>4, <1>7 DEF Sensors!Conditions
  <2>4. t \in Int /\ (t <= 0 \/ t > Sensors!Throttle)
    BY <2>1, <2>2, <2>3, <1>1, <1>3, <1>5, FaultsAreSeen DEF SensorData
  <2> HIDE DEF t
  <2> QED
    BY <1>2, <1>4, <1>7, <2>4, ShownIsTrue
<1> QED
  BY <1>6, <1>7

(* A sensor that is read at once                                            *)
LEMMA WholeReadKeeps ==
    ASSUME ReadingsAreSound, SensorsInv, Sensors!ReadWhole,
           UNCHANGED <<board, heat, diode, powered, moves>>
    PROVE  SensorData' /\ HalfRead' /\ Sensors!TemperatureIsTrue'
<1> DEFINE d == Sensors!Place(turn)
           t == IF board.sensor = "EMC2101_internal"
                THEN Sensors!Whole(heat[1]) + board.offset * Sensors!Degree
                ELSE Sensors!Twelve(heat[d]) + board.offset * Sensors!Degree
<1>1. SensorData
  BY DEF SensorsInv
<1>2. ~Sensors!TwoReads /\ Sensors!Exists(turn) /\ Sensors!Shows(turn, t, "good")
  BY DEF Sensors!ReadWhole
<1>3. /\ d \in Sensors!Diodes /\ Warm(heat[d]) /\ Warm(heat[1])
      /\ turn \in {1, 2}
  BY <1>1, BoardsAreSound DEF SensorData, Sensors!Place, Sensors!Diodes, ReadingsAreSound, Warm
<1>4. ~board.flip /\ ~board.calibrated /\ board.offset \in Int
  BY <1>1, <1>2, BoardsAreSound DEF SensorData, Sensors!TwoReads
<1>5. Sensors!Result(d, heat[d]) = heat[d] + board.offset * Sensors!Degree
  BY <1>4 DEF Sensors!Result, Sensors!Calibrated
<1>6. Sensors!Twelve(heat[d]) = heat[d]
  BY <1>3 DEF Warm, Sensors!Twelve, Sensors!Signed
<1>7. board.sensor = "EMC2101_internal" => d = 1
  BY <1>2, <1>3, <1>4 DEF Sensors!Exists, Sensors!Place, Sensors!Emc2101
<1>8. Sensors!Whole(heat[1]) \in Int
      /\ (heat[1] >= 0 => Sensors!Whole(heat[1]) <= heat[1] /\ heat[1] <= Sensors!Whole(heat[1]) + 15)
  BY <1>3, WholeIsClose
<1>9. t \in Int
  BY <1>3, <1>4, <1>6, <1>8 DEF Warm, Sensors!Degree
<1>10. (board.sensor = "EMC2101_internal" => heat[d] >= 0)
         => Sensors!Within(18, t, Sensors!Result(d, heat[d]))
  <2>1. board.offset * Sensors!Degree \in Int
    BY <1>4 DEF Sensors!Degree
  <2> QED
    BY <2>1, <1>3, <1>5, <1>6, <1>7, <1>8 DEF Warm, Sensors!Within
<1>11. "good" \in Sensors!Conditions \union {"none"} /\ "good" \notin {"open", "short"}
  BY DEF Sensors!Conditions
<1> HIDE DEF t
<1> QED
  BY <1>2, <1>9, <1>10, <1>11, ShownIsTrue, Zenon

(* The power management task reads.                                         *)
LEMMA ReadKeeps ==
    ASSUME ReadingsAreSound, SensorsInv, Sensors!Read PROVE SensorsInv'
<1>1. UNCHANGED <<board, heat, diode, powered, moves>>
  BY DEF Sensors!Read, Sensors!nature
<1>2. /\ UNCHANGED <<filtered, pid, outputMin, goal, former, computed, cycles>>
      /\ UNCHANGED Sensors!tacho
  BY DEF Sensors!Read, Sensors!control
<1>3. ASSUME Sensors!Shows(turn, Sensors!Invalid, "none")
      PROVE  SensorData' /\ HalfRead' /\ Sensors!TemperatureIsTrue'
  <2>1. Sensors!Invalid \in Int
    BY DEF Sensors!Invalid, Sensors!Degree
  <2> QED
    BY <1>1, <1>3, <2>1, ShownIsTrue, Zenon
<1>4. SensorData' /\ HalfRead' /\ Sensors!TemperatureIsTrue'
  BY <1>1, <1>3, FirstByteKeeps, SecondByteKeeps, WholeReadKeeps, Zenon
     DEF Sensors!Read, Sensors!ReadNothing
<1>5. PidData' /\ Sensors!FansFollowTheHeat'
  BY <1>2 DEF SensorsInv, PidData, Sensors!FansFollowTheHeat
<1>6. TachoData' /\ Sensors!SpeedIsTrue'
  BY <1>1, <1>2, TachoStays DEF SensorsInv, TachoInv
<1> QED
  BY <1>4, <1>5, <1>6 DEF SensorsInv

---------------------------------------------------------------------------
(* A limit is kept.                                                         *)
LEMMA ClampIs ==
    ASSUME NEW x \in Int, NEW floor \in Nat, floor < Sensors!Full
    PROVE  /\ Sensors!Clamp(x, floor) \in floor..Sensors!Full
           /\ x < Sensors!Full => Sensors!Clamp(x, floor) < Sensors!Full
           /\ x > floor => Sensors!Clamp(x, floor) > floor
BY FullIs DEF Sensors!Clamp

(* The PID computes an output within the limits that follows its input.     *)
LEMMA ComputedFollows ==
    ASSUME NEW floor \in Nat, floor < Sensors!Full, NEW input \in Int, NEW setpoint \in Int,
           NEW p, p.sum \in Int, p.last \in Int
    PROVE  LET q == Sensors!Computed(p, input, setpoint, floor) IN
           /\ q \in [auto : BOOLEAN, sum : Int, last : Int, output : 0..Sensors!Full]
           /\ q.auto /\ q.last = input /\ q.output \in floor..Sensors!Full
           /\ input < setpoint /\ input <= p.last => q.output < Sensors!Full
           /\ input > setpoint /\ input >= p.last => q.output > floor
<1> DEFINE sum == Sensors!Clamp(p.sum + Sensors!Ki * (input - setpoint), floor)
           raw == Sensors!Kp * (input - setpoint) + sum + Sensors!Kd * (input - p.last)
           held == Sensors!Clamp(raw, floor)
           q == Sensors!Computed(p, input, setpoint, floor)
<1>1. q = [auto |-> TRUE, sum |-> sum - (raw - held), last |-> input, output |-> held]
  BY DEF Sensors!Computed
<1>2. floor \in Nat /\ floor < Sensors!Full /\ Sensors!Full \in Nat
  BY FullIs
<1>3. sum \in floor..Sensors!Full
  BY <1>2, ClampIs DEF Sensors!Ki
<1>4. sum \in Int /\ sum >= floor /\ sum <= Sensors!Full /\ Sensors!Full \in Int
  BY <1>2, <1>3
<1> HIDE DEF sum
<1>5. raw \in Int
  BY <1>4 DEF Sensors!Kp, Sensors!Kd
<1>6. input < setpoint /\ input <= p.last => raw < Sensors!Full
  BY <1>4 DEF Sensors!Kp, Sensors!Kd
<1>7. input > setpoint /\ input >= p.last => raw > floor
  BY <1>4, <1>2 DEF Sensors!Kp, Sensors!Kd
<1> HIDE DEF raw
<1>8. /\ held \in floor..Sensors!Full
      /\ raw < Sensors!Full => held < Sensors!Full
      /\ raw > floor => held > floor
  BY <1>2, <1>5, ClampIs
<1>9. held \in 0..Sensors!Full /\ held \in Int
  BY <1>2, <1>4, <1>8
<1> HIDE DEF held
<1>10. /\ q.auto /\ q.last = input /\ q.output = held
       /\ q \in [auto : BOOLEAN, sum : Int, last : Int, output : 0..Sensors!Full]
  BY <1>1, <1>4, <1>5, <1>9
<1> HIDE DEF q
<1>11. /\ q \in [auto : BOOLEAN, sum : Int, last : Int, output : 0..Sensors!Full]
       /\ q.auto /\ q.last = input /\ q.output \in floor..Sensors!Full
       /\ input < setpoint /\ input <= p.last => q.output < Sensors!Full
       /\ input > setpoint /\ input >= p.last => q.output > floor
  BY <1>6, <1>7, <1>8, <1>10
<1> QED
  BY <1>11 DEF q

(* A cycle of the fan controller                                            *)
LEMMA ControlKeeps ==
    ASSUME ReadingsAreSound, SensorsInv, NEW wish \in TempTargets, NEW minimum \in Minima,
           NEW rpm \in FanSpeeds, Sensors!Control(wish, minimum, rpm)
    PROVE  SensorsInv'
<1> DEFINE floor == minimum * Sensors!Percent
           p == IF floor = outputMin THEN pid ELSE Sensors!Limited(pid, floor)
           q == Sensors!Running(p, Sensors!Filtered, floor)
           setpoint == wish * Sensors!Degree
<1>1. SensorData /\ PidData
  BY DEF SensorsInv
<1>2. /\ UNCHANGED <<board, heat, diode, powered, moves>>
      /\ UNCHANGED <<turn, highByte, temps, earlier, actual, source>>
  BY DEF Sensors!Control, Sensors!nature, Sensors!sensing
<1>3. /\ outputMin' = floor /\ goal' = setpoint
      /\ Sensors!ReadTurn(rpm)
  BY DEF Sensors!Control
<1>4. \/ /\ filtered' = Sensors!Filtered /\ former' = q.last
         /\ pid' = Sensors!Computed(q, Sensors!Filtered, setpoint, floor) /\ computed' = TRUE
      \/ /\ filtered' = Sensors!Filtered /\ former' = q.last
         /\ pid.auto /\ pid' = q /\ computed' = FALSE
      \/ pid' = p /\ computed' = FALSE /\ UNCHANGED <<filtered, former>>
  BY DEF Sensors!Control
<1>5. floor \in Nat /\ floor < Sensors!Full /\ setpoint \in Int /\ Sensors!Full \in Nat
  <2>1. minimum \in 0..99 /\ wish \in 35..66
    BY DEF ReadingsAreSound
  <2>2. minimum * Sensors!Percent \in Nat /\ minimum * Sensors!Percent < Sensors!Full
    BY <2>1, FullIs
  <2>3. wish * Sensors!Degree \in Int
    BY <2>1 DEF Sensors!Degree
  <2> QED
    BY <2>2, <2>3, FullIs
<1>6. Sensors!Filtered \in Int
  <2>1. temps[1] \in Int /\ temps[2] \in Int /\ filtered \in Int
    BY <1>1 DEF SensorData, PidData, Sensors!Diodes
  <2>2. Sensors!Raw \in Int
    BY <2>1 DEF Sensors!Raw
  <2> QED
    BY <2>1, <2>2 DEF Sensors!Filtered
<1> DEFINE Pids == [auto : BOOLEAN, sum : Int, last : Int, output : 0..Sensors!Full]
<1>7. pid \in Pids /\ (pid.auto => pid.output \in outputMin..Sensors!Full)
  BY DEF SensorsInv, PidData, Sensors!FansFollowTheHeat
<1> HIDE DEF floor
<1>8. p \in Pids /\ p.auto = pid.auto /\ (p.auto => p.output \in floor..Sensors!Full)
  <2>1. CASE floor = outputMin
    BY <2>1, <1>7
  <2>2. CASE floor # outputMin /\ ~pid.auto
    BY <2>2, <1>7 DEF Sensors!Limited
  <2>3. CASE floor # outputMin /\ pid.auto
    <3>1. p = [pid EXCEPT !.output = Sensors!Clamp(pid.output, floor),
                          !.sum = Sensors!Clamp(pid.sum, floor)]
      BY <2>3 DEF Sensors!Limited
    <3>2. pid.output \in Int /\ pid.sum \in Int
      BY <1>5, <1>7
    <3>3. /\ Sensors!Clamp(pid.output, floor) \in floor..Sensors!Full
          /\ Sensors!Clamp(pid.sum, floor) \in floor..Sensors!Full
      BY <3>2, <1>5, ClampIs
    <3>4. \A x \in floor..Sensors!Full : x \in Int /\ x \in 0..Sensors!Full
      BY <1>5
    <3> QED
      BY <3>1, <3>3, <3>4, <1>7
  <2> QED
    BY <2>1, <2>2, <2>3
<1> HIDE DEF p
<1>9. /\ q.sum \in Int /\ q.last \in Int
      /\ pid.auto => q = p
  <2>1. CASE p.auto
    BY <2>1, <1>8 DEF Sensors!Running
  <2>2. CASE ~p.auto
    <3>1. p.output \in Int
      BY <1>5, <1>8
    <3>2. Sensors!Clamp(p.output, floor) \in Int
      <4>1. Sensors!Clamp(p.output, floor) \in floor..Sensors!Full
        BY <3>1, <1>5, ClampIs
      <4> QED
        BY <4>1, <1>5
    <3> QED
      BY <2>2, <3>2, <1>6, <1>8 DEF Sensors!Running
  <2> QED
    BY <2>1, <2>2
<1> HIDE DEF q, setpoint
<1>10. PidData' /\ Sensors!FansFollowTheHeat'
  <2>1. CASE /\ filtered' = Sensors!Filtered /\ former' = q.last
             /\ pid' = Sensors!Computed(q, Sensors!Filtered, setpoint, floor) /\ computed' = TRUE
    <3>1. /\ pid' \in Pids
          /\ pid'.auto /\ pid'.last = Sensors!Filtered /\ pid'.output \in floor..Sensors!Full
          /\ pid'.last < setpoint /\ pid'.last <= q.last => pid'.output < Sensors!Full
          /\ pid'.last > setpoint /\ pid'.last >= q.last => pid'.output > floor
      BY <2>1, <1>5, <1>6, <1>9, ComputedFollows
    <3>2. PidData'
      BY <2>1, <3>1, <1>3, <1>5, <1>6, <1>9 DEF PidData
    <3>3. Sensors!FansFollowTheHeat'
      BY <2>1, <3>1, <1>3 DEF Sensors!FansFollowTheHeat
    <3> QED
      BY <3>2, <3>3
  <2>2. CASE /\ filtered' = Sensors!Filtered /\ former' = q.last
             /\ pid.auto /\ pid' = q /\ computed' = FALSE
    <3>1. pid' = p
      BY <2>2, <1>9
    <3>2. PidData'
      BY <2>2, <3>1, <1>3, <1>5, <1>6, <1>8, <1>9 DEF PidData
    <3>3. Sensors!FansFollowTheHeat'
      BY <2>2, <3>1, <1>3, <1>8 DEF Sensors!FansFollowTheHeat
    <3> QED
      BY <3>2, <3>3
  <2>3. CASE pid' = p /\ computed' = FALSE /\ UNCHANGED <<filtered, former>>
    <3>1. PidData'
      BY <2>3, <1>1, <1>3, <1>5, <1>8 DEF PidData
    <3>2. Sensors!FansFollowTheHeat'
      BY <2>3, <1>3, <1>8 DEF Sensors!FansFollowTheHeat
    <3> QED
      BY <3>1, <3>2
  <2> QED
    BY <1>4, <2>1, <2>2, <2>3
<1>12. TachoData' /\ Sensors!SpeedIsTrue'
  <2>1. TachoInv /\ board \in Sensors!Boards /\ UNCHANGED board
    BY <1>1, <1>2 DEF SensorsInv, TachoInv, SensorData
  <2> QED
    BY <1>3, <2>1, ReadTurnKeeps, Zenon DEF TachoInv
<1>13. SensorData' /\ HalfRead' /\ Sensors!TemperatureIsTrue'
  <2>1. SensorData'
    BY <1>1, <1>2 DEF SensorData
  <2>2. HalfRead'
    BY <1>2 DEF SensorsInv, HalfRead, Sensors!Place, Sensors!TwoReads, Sensors!Fault, Sensors!MSB
  <2>3. Sensors!TemperatureIsTrue'
    BY <1>2, TemperatureStays DEF SensorsInv
  <2> QED
    BY <2>1, <2>2, <2>3
<1> QED
  BY <1>10, <1>12, <1>13 DEF SensorsInv

(* The chips get warmer or cooler, a diode breaks, the power is switched.   *)
LEMMA MoveKeeps ==
    ASSUME ReadingsAreSound, SensorsInv, Sensors!Move PROVE SensorsInv'
<1>1. SensorData /\ HalfRead
  BY DEF SensorsInv
<1>2. /\ UNCHANGED <<board, turn, highByte, temps, earlier, actual, source>>
      /\ UNCHANGED <<filtered, pid, outputMin, goal, former, computed, cycles>>
      /\ UNCHANGED Sensors!tacho
  BY DEF Sensors!Move, Sensors!sensing, Sensors!control
<1>3. /\ heat' \in [Sensors!Diodes -> Temperatures]
      /\ diode' \in [Sensors!Diodes -> Sensors!Conditions]
  BY <1>1 DEF Sensors!Move, SensorData
<1>4. SensorData'
  BY <1>1, <1>2, <1>3 DEF SensorData
<1>5. HalfRead'
  <2>1. Sensors!Place(turn)' = Sensors!Place(turn)
    BY <1>2 DEF Sensors!Place
  <2> SUFFICES ASSUME highByte # -1
      PROVE LET d == Sensors!Place(turn) IN
            /\ Sensors!TwoReads
            /\ IF diode'[d] = "good"
               THEN /\ earlier \in Temperatures
                    /\ highByte = Sensors!MSB((earlier \div 2) % 2048)
                    /\ Sensors!Within(Sensors!Degree - 1, heat'[d], earlier)
               ELSE highByte = Sensors!MSB(Sensors!Fault(diode'[d]))
    BY <1>2, <2>1 DEF HalfRead, Sensors!TwoReads, Sensors!MSB, Sensors!Fault
  <2> DEFINE d == Sensors!Place(turn)
  <2>2. diode' = diode
    BY DEF Sensors!Move
  <2>3. heat' = heat \/ \E e \in Sensors!Diodes, t \in Temperatures :
          /\ e = d => Sensors!Within(Sensors!Degree - 1, t, earlier)
          /\ heat' = [heat EXCEPT ![e] = t]
    BY DEF Sensors!Move
  <2>4. CASE heat' = heat
    BY <1>1, <2>2, <2>4 DEF HalfRead
  <2>5. ASSUME NEW e \in Sensors!Diodes, NEW t \in Temperatures,
               e = d => Sensors!Within(Sensors!Degree - 1, t, earlier),
               heat' = [heat EXCEPT ![e] = t]
        PROVE  heat'[d] = heat[d]
               \/ Sensors!Within(Sensors!Degree - 1, heat'[d], earlier)
    <3>1. d \in Sensors!Diodes
      BY <1>1, BoardsAreSound DEF SensorData, Sensors!Place, Sensors!Diodes
    <3> QED
      BY <2>5, <3>1, <1>1 DEF SensorData
  <2>6. heat'[d] = heat[d] \/ Sensors!Within(Sensors!Degree - 1, heat'[d], earlier)
    BY <2>3, <2>5
  <2> QED
    BY <1>1, <2>2, <2>6 DEF HalfRead
<1>6. Sensors!TemperatureIsTrue'
  BY <1>2, TemperatureStays DEF SensorsInv
<1>7. PidData' /\ Sensors!FansFollowTheHeat'
  BY <1>2 DEF SensorsInv, PidData, Sensors!FansFollowTheHeat
<1>8. TachoData' /\ Sensors!SpeedIsTrue'
  BY <1>2, TachoStays DEF SensorsInv, TachoInv
<1> QED
  BY <1>4, <1>5, <1>6, <1>7, <1>8 DEF SensorsInv

(* The second byte of a tachometer                                          *)
LEMMA HighTurnKeeps ==
    ASSUME ReadingsAreSound, SensorsInv, NEW rpm \in FanSpeeds, Sensors!ReadTurnHigh(rpm)
    PROVE  SensorsInv'
<1>1. /\ UNCHANGED <<board, heat, diode, powered, moves>>
      /\ UNCHANGED <<turn, highByte, temps, earlier, actual, source>>
      /\ UNCHANGED <<filtered, pid, outputMin, goal, former, computed, cycles>>
  BY DEF Sensors!ReadTurnHigh, Sensors!nature, Sensors!sensing, Sensors!control
<1>2. SensorData' /\ PidData'
  BY <1>1 DEF SensorsInv, SensorData, PidData
<1>3. HalfRead'
  BY <1>1 DEF SensorsInv, HalfRead, Sensors!Place, Sensors!TwoReads, Sensors!Fault, Sensors!MSB
<1>4. Sensors!TemperatureIsTrue'
  BY <1>1, TemperatureStays DEF SensorsInv
<1>5. Sensors!FansFollowTheHeat'
  BY <1>1 DEF SensorsInv, Sensors!FansFollowTheHeat
<1>6. TachoData' /\ Sensors!SpeedIsTrue'
  BY ReadTurnHighKeeps DEF SensorsInv, SensorData, TachoInv
<1> QED
  BY <1>2, <1>3, <1>4, <1>5, <1>6 DEF SensorsInv

LEMMA SensorsKeep ==
    ASSUME ReadingsAreSound
    PROVE  SensorsInv /\ [Sensors!Next]_(Sensors!vars) => SensorsInv'
<1> SUFFICES ASSUME SensorsInv, [Sensors!Next]_(Sensors!vars) PROVE SensorsInv'
  OBVIOUS
<1>1. CASE UNCHANGED Sensors!vars
  <2>1. /\ UNCHANGED <<board, heat, diode, powered, moves>>
        /\ UNCHANGED <<turn, highByte, temps, earlier, actual, source>>
        /\ UNCHANGED <<filtered, pid, outputMin, goal, former, computed, cycles>>
        /\ UNCHANGED Sensors!tacho
    BY <1>1 DEF Sensors!vars, Sensors!nature, Sensors!sensing, Sensors!control
  <2>2. SensorData' /\ PidData'
    BY <2>1 DEF SensorsInv, SensorData, PidData
  <2>3. HalfRead'
    BY <2>1 DEF SensorsInv, HalfRead, Sensors!Place, Sensors!TwoReads, Sensors!Fault, Sensors!MSB
  <2>4. Sensors!TemperatureIsTrue'
    BY <2>1, TemperatureStays DEF SensorsInv
  <2>5. Sensors!FansFollowTheHeat'
    BY <2>1 DEF SensorsInv, Sensors!FansFollowTheHeat
  <2>6. TachoData' /\ Sensors!SpeedIsTrue'
    BY <2>1, TachoStays DEF SensorsInv, TachoInv
  <2> QED
    BY <2>2, <2>3, <2>4, <2>5, <2>6 DEF SensorsInv
<1> QED
  BY <1>1, ReadKeeps, MoveKeeps, ControlKeeps, HighTurnKeeps DEF Sensors!Next

(* The data of the sensors, of the PID and of the tachometers has its types.*)
THEOREM SensorTypes == ASSUME ReadingsAreSound PROVE Sensors!Spec => []Sensors!TypeOK
<1>1. Sensors!Init => SensorsInv
  BY SensorsBegin
<1>2. SensorsInv /\ [Sensors!Next]_(Sensors!vars) => SensorsInv'
  BY SensorsKeep
<1>3. SensorsInv => Sensors!TypeOK
  BY DEF SensorsInv, SensorData, PidData, TachoData, Sensors!TypeOK
<1> QED
  BY <1>1, <1>2, <1>3, PTL DEF Sensors!Spec

---------------------------------------------------------------------------
(* The hashrate shown never exceeds what the chip can do, unless an answer  *)
(* was handled after a stop; the history is in the order of time, ends with *)
(* the newest row and, however often it was thinned out, shows the fastest  *)
(* and the slowest response of every second since its oldest row; a fan     *)
(* that does not turn as reported is a fault; a temperature is shown as it  *)
(* is, though its bytes are read apart, a broken diode never shows one to   *)
(* mine at, the fans follow it, and their speeds are shown.                 *)
THEOREM MeasurementsAreTrueAlways ==
    ASSUME RegisterIsSound, HistoryIsSound, FanScale, ReadingsAreSound
    PROVE  PartsSpec => []MeasurementsAreTrue
<1> DEFINE P == part = "hashrate" => RateInv
           Q == part = "history" => HistoryInv
           R == part = "fans" => FansInv
           S == part = "sensors" => SensorsInv
<1>1. PartsInit => P /\ Q /\ R /\ S
  BY Zenon, RateBegins, HistoryBegins, FansBegin, SensorsBegin DEF PartsInit
<1>2. P /\ [PartsNext]_partsVars => P'
  BY Zenon, RateKeeps DEF PartsNext, partsVars
<1>3. Q /\ [PartsNext]_partsVars => Q'
  BY Zenon, HistoryKeeps DEF PartsNext, partsVars
<1>4. R /\ [PartsNext]_partsVars => R'
  BY Zenon, FanStepsKeep DEF PartsNext, partsVars
<1>5. S /\ [PartsNext]_partsVars => S'
  BY Zenon, SensorsKeep DEF PartsNext, partsVars
<1>6. FansInv => Cooling!FansAreAsReported
  BY DEF FansInv
<1>7. SensorsInv => Sensors!CoolingIsTrue
  BY DEF SensorsInv, Sensors!CoolingIsTrue
<1>8. P /\ Q /\ R /\ S => MeasurementsAreTrue
  BY Zenon, RateIsPlausible, HistoryIsKeptByInv, <1>6, <1>7 DEF MeasurementsAreTrue
<1> QED
  BY <1>1, <1>2, <1>3, <1>4, <1>5, <1>8, PTL DEF PartsSpec

---------------------------------------------------------------------------
(* The chain of chips. The drivers are those of asic.c; an address of one   *)
(* byte leaves room for 16 chips at the BM1373's distance; and a pool's     *)
(* version mask has bits of BIP320 only: stratum_api.c:467 and 579 cut it   *)
(* down to them, and stratum_v2_client.c:424 takes just those.              *)
ChainIsSound ==
    /\ Drivers \subseteq {"BM1366", "BM1368", "BM1370", "BM1373", "BM1397"}
    /\ Chips \in 1..16 /\ SlotCount \in Nat \ {0} /\ SlotCount1397 \in Nat \ {0}
    /\ Attempts \in Nat \ {0} /\ MaxFrames \in Nat
    /\ \A mask \in Masks : mask \subseteq Chain!Bits

(* What the drivers have in common                                          *)
LEMMA DriverIs ==
    ASSUME ChainIsSound, driver \in Drivers
    PROVE  /\ Chain!Driver.slots \in Nat \ {0}
           /\ Chain!Driver.tx \in {4, 8} /\ Chain!Driver.sub \in {4, 8, 16}
           /\ driver = "BM1397" => Chain!Driver.sub = 4
<1>1. driver \in {"BM1366", "BM1368", "BM1370", "BM1373", "BM1397"}
  BY DEF ChainIsSound
<1>2. CASE driver = "BM1366"
  <2>1. Chain!Driver = Chain!BM1366
    BY <1>2 DEF Chain!Driver
  <2> QED
    BY <1>2, <2>1, SMTT(30) DEF Chain!BM1366, ChainIsSound
<1>3. CASE driver = "BM1368"
  <2>1. Chain!Driver = Chain!BM1368
    BY <1>3 DEF Chain!Driver
  <2> QED
    BY <1>3, <2>1, SMTT(30) DEF Chain!BM1368, ChainIsSound
<1>4. CASE driver = "BM1370"
  <2>1. Chain!Driver = Chain!BM1370
    BY <1>4 DEF Chain!Driver
  <2> QED
    BY <1>4, <2>1, SMTT(30) DEF Chain!BM1370, ChainIsSound
<1>5. CASE driver = "BM1373"
  <2>1. Chain!Driver = Chain!BM1373
    BY <1>5 DEF Chain!Driver
  <2> QED
    BY <1>5, <2>1, SMTT(30) DEF Chain!BM1373, ChainIsSound
<1>6. CASE driver = "BM1397"
  <2>1. Chain!Driver = Chain!BM1397
    BY <1>6 DEF Chain!Driver
  <2> QED
    BY <1>6, <2>1, SMTT(30) DEF Chain!BM1397, ChainIsSound
<1> QED
  BY <1>1, <1>2, <1>3, <1>4, <1>5, <1>6

(* The address of a chip, and the slot in a byte                            *)
LEMMA MultipleDivides ==
    ASSUME NEW n \in Nat \ {0}, NEW c \in Nat
    PROVE  (c * n) \div n = c /\ c * n \in Nat
<1>1. c * n \in Nat
  OBVIOUS
<1>2. n * ((c * n) \div n) <= c * n /\ c * n < n * ((c * n) \div n) + n /\ (c * n) \div n \in Int
  BY <1>1
<1>3. ASSUME NEW q \in Int, n * q <= c * n, c * n < n * q + n PROVE q = c
  <2>1. CASE q < c
    <3>1. n * (q + 1) <= n * c
      BY <2>1
    <3> QED
      BY <3>1, <1>3
  <2>2. CASE q > c
    <3>1. n * q >= n * (c + 1)
      BY <2>2
    <3> QED
      BY <3>1, <1>3
  <2> QED
    BY <2>1, <2>2
<1> QED
  BY <1>1, <1>2, <1>3

LEMMA SlotIsDecoded ==
    ASSUME NEW tx \in {4, 8}, NEW sub \in {4, 8, 16}, NEW slot \in Nat, NEW core \in 0..(sub - 1)
    PROVE  /\ (slot * tx) \div tx = slot
           /\ (slot * sub + core) \div sub = slot /\ (slot * sub + core) % sub = core
           /\ slot * sub + core \in Nat
<1>1. (slot * tx) \div tx = slot
  BY MultipleDivides
<1>2. CASE sub = 4
  BY <1>1, <1>2
<1>3. CASE sub = 8
  BY <1>1, <1>3
<1>4. CASE sub = 16
  BY <1>1, <1>4
<1> QED
  BY <1>2, <1>3, <1>4

LEMMA IntervalIs ==
    ASSUME ChainIsSound
    PROVE  /\ Chain!Interval \in Nat \ {0} /\ Chain!AnswerInterval \in Nat \ {0}
           /\ Chain!Chip \subseteq Nat /\ 0 \in Chain!Chip
<1>1. Chips \in 1..16
  BY DEF ChainIsSound
<1>2. 256 \div Chips \in Nat \ {0}
  BY <1>1
<1> QED
  BY <1>1, <1>2 DEF Chain!Interval, Chain!AnswerInterval, Chain!Chip
---------------------------------------------------------------------------
(* What the chips are told.                                                 *)
Commands == {"mask", "inactive", "address", "registers", "frequency", "space", "baud"}
Spread == [i \in Chain!Chip |-> i * Chain!AnswerInterval]
IsChain(c) ==
    /\ c = [address |-> c.address, mask |-> c.mask, clock |-> c.clock, baud |-> c.baud]
    /\ c.address \in [Chain!Chip -> Nat] /\ c.mask \subseteq Chain!Bits
    /\ c.baud \in {"slow", "fast"}

LEMMA ToldKeeps ==
    ASSUME ChainIsSound, NEW c, IsChain(c), NEW command \in Commands
    PROVE  /\ IsChain(Chain!Told(command, c))
           /\ command = "address" => Chain!Told(command, c).address = Spread
           /\ command \notin {"address", "inactive"} =>
                 Chain!Told(command, c).address = c.address
           /\ command = "baud" => Chain!Told(command, c).baud = "fast"
<1> DEFINE t == Chain!Told(command, c)
<1>0. t = Chain!Told(command, c)
  OBVIOUS
<1>1. Spread \in [Chain!Chip -> Nat] /\ [i \in Chain!Chip |-> 0] \in [Chain!Chip -> Nat]
  <2>1. \A i \in Chain!Chip : i * Chain!AnswerInterval \in Nat
    BY IntervalIs
  <2> QED
    BY <2>1 DEF Spread
<1>2. CASE command = "mask"
  <2>1. t = [c EXCEPT !.mask = Chain!Bits]
    BY <1>2 DEF Chain!Told
  <2> HIDE DEF t
  <2> QED
    BY <1>0, <1>2, <2>1 DEF IsChain
<1>3. CASE command = "inactive"
  <2>1. t = [c EXCEPT !.address = [i \in Chain!Chip |-> 0]]
    BY <1>3 DEF Chain!Told
  <2> HIDE DEF t
  <2> QED
    BY <1>0, <1>1, <1>3, <2>1 DEF IsChain
<1>4. CASE command = "address"
  <2>1. t = [c EXCEPT !.address = Spread]
    BY <1>4 DEF Chain!Told, Spread
  <2> HIDE DEF t
  <2> QED
    BY <1>0, <1>1, <1>4, <2>1 DEF IsChain
<1>5. CASE command = "frequency"
  <2>1. PICK k : t = [c EXCEPT !.clock = k]
    BY <1>5 DEF Chain!Told
  <2> HIDE DEF t
  <2> QED
    BY <1>0, <1>5, <2>1 DEF IsChain
<1>6. CASE command = "baud"
  <2>1. t = [c EXCEPT !.baud = "fast"]
    BY <1>6 DEF Chain!Told
  <2> HIDE DEF t
  <2> QED
    BY <1>0, <1>6, <2>1 DEF IsChain
<1>7. CASE command \in {"registers", "space"}
  <2>1. t = c
    BY <1>7 DEF Chain!Told
  <2> HIDE DEF t
  <2> QED
    BY <1>0, <1>7, <2>1 DEF IsChain
<1> QED
  BY <1>2, <1>3, <1>4, <1>5, <1>6, <1>7 DEF Commands

(* The chips after the first list of a sequence                         *)
ToldAfter(list, c, n, f) ==
    f = [m \in 0..n |-> IF m = 0 THEN c ELSE Chain!Told(list[m], f[m - 1])]

LEMMA AfterExists ==
    ASSUME NEW list, NEW c, NEW n \in Nat
    PROVE  \E f : ToldAfter(list, c, n, f)
<1> DEFINE wrong == {k \in Nat : ~\E f : ToldAfter(list, c, k, f)}
           Less == OpToRel(<, Nat)
<1>1. \E f : ToldAfter(list, c, 0, f)
  <2> DEFINE f == [m \in 0..0 |-> c]
  <2>1. f = [m \in 0..0 |-> IF m = 0 THEN c ELSE Chain!Told(list[m], f[m - 1])]
    OBVIOUS
  <2> QED
    BY <2>1 DEF ToldAfter
<1>2. SUFFICES ASSUME wrong # {} PROVE FALSE
  OBVIOUS
<1>3. PICK k \in wrong : \A w \in wrong : ~(<<w, k>> \in Less)
  <2>1. IsWellFoundedOn(Less, Nat)
    BY NatLessThanWellFounded
  <2>2. wrong \subseteq Nat
    OBVIOUS
  <2> QED
    BY ONLY <1>2, <2>1, <2>2, WFMin
<1>4. k \in Nat /\ ~\E f : ToldAfter(list, c, k, f)
  OBVIOUS
<1>5. k # 0
  BY <1>1, <1>4
<1>6. k - 1 \in Nat /\ k - 1 < k
  BY <1>4, <1>5
<1>7. <<k - 1, k>> \in Less
  BY <1>4, <1>6 DEF OpToRel
<1>8. PICK f : ToldAfter(list, c, k - 1, f)
  BY <1>3, <1>6, <1>7
<1> HIDE DEF Less, wrong
<1> DEFINE g == [m \in 0..k |-> IF m = k THEN Chain!Told(list[k], f[k - 1]) ELSE f[m]]
<1>9. ASSUME NEW m \in 0..k
      PROVE  g[m] = IF m = 0 THEN c ELSE Chain!Told(list[m], g[m - 1])
  <2>1. \A i \in 0..(k - 1) : f[i] = IF i = 0 THEN c ELSE Chain!Told(list[i], f[i - 1])
    BY <1>8, Zenon DEF ToldAfter
  <2>2. k - 1 \in 0..k /\ k - 1 # k
    BY <1>4, <1>6
  <2>3. CASE m = k
    <3>1. g[m] = Chain!Told(list[k], f[k - 1]) /\ g[k - 1] = f[k - 1] /\ m # 0
      BY <1>5, <2>2, <2>3
    <3> QED
      BY <2>3, <3>1
  <2>4. CASE m # k /\ m # 0
    <3>1. m \in 0..(k - 1) /\ m - 1 \in 0..k /\ m - 1 # k
      BY <1>4, <2>4
    <3>2. g[m] = f[m] /\ g[m - 1] = f[m - 1]
      BY <2>4, <3>1
    <3> QED
      BY <2>1, <2>4, <3>1, <3>2
  <2>5. CASE m # k /\ m = 0
    <3>1. 0 \in 0..(k - 1) /\ 0 \in 0..k
      BY <1>4, <1>6
    <3>2. g[m] = f[0] /\ f[0] = c
      BY <2>1, <2>5, <3>1
    <3> QED
      BY <2>5, <3>2
  <2> QED
    BY <2>3, <2>4, <2>5
<1>10. ToldAfter(list, c, k, g)
  <2>1. g = [m \in 0..k |-> g[m]]
    OBVIOUS
  <2> HIDE DEF g
  <2>2. g = [m \in 0..k |-> IF m = 0 THEN c ELSE Chain!Told(list[m], g[m - 1])]
    BY <1>9, <2>1
  <2> QED
    BY <2>2 DEF ToldAfter
<1> QED
  BY <1>4, <1>10

(* Once told their addresses and not to forget them the chips have them.    *)
HasAddresses(list, n) ==
    \E k \in 1..n : list[k] = "address" /\ \A j \in k..n : list[j] # "inactive"

LEMMA AfterIs ==
    ASSUME ChainIsSound, NEW list, NEW c, IsChain(c), NEW n \in Nat,
           \A i \in 1..n : list[i] \in Commands, NEW f, ToldAfter(list, c, n, f)
    PROVE  IsChain(f[n]) /\ (HasAddresses(list, n) => f[n].address = Spread)
<1> DEFINE Right(m) == IsChain(f[m]) /\ (HasAddresses(list, m) => f[m].address = Spread)
           wrong == {m \in 0..n : ~Right(m)}
           Less == OpToRel(<, Nat)
<1>1. SUFFICES ASSUME wrong # {} PROVE FALSE
  <2>1. SUFFICES ASSUME ~Right(n) PROVE FALSE
    OBVIOUS
  <2>2. n \in wrong
    BY <2>1
  <2> QED
    BY <1>1, <2>2
<1>2. PICK m \in wrong : \A w \in wrong : ~(<<w, m>> \in Less)
  <2>1. IsWellFoundedOn(Less, Nat)
    BY NatLessThanWellFounded
  <2>2. wrong \subseteq Nat
    OBVIOUS
  <2> QED
    BY ONLY <1>1, <2>1, <2>2, WFMin
<1>3. m \in 0..n /\ ~Right(m)
  OBVIOUS
<1>4. \A i \in 0..n : f[i] = IF i = 0 THEN c ELSE Chain!Told(list[i], f[i - 1])
  BY Zenon DEF ToldAfter
<1>5. m # 0
  <2>1. f[0] = c
    BY <1>4
  <2>2. ~HasAddresses(list, 0)
    BY DEF HasAddresses
  <2> QED
    BY <1>3, <2>1, <2>2
<1>6. m \in 1..n /\ m - 1 \in 0..n /\ m - 1 \in Nat /\ m - 1 < m /\ m \in Nat
  BY <1>3, <1>5
<1>7. <<m - 1, m>> \in Less
  BY <1>6 DEF OpToRel
<1>8. Right(m - 1)
  BY <1>2, <1>6, <1>7
<1>9. f[m] = Chain!Told(list[m], f[m - 1]) /\ list[m] \in Commands
  BY <1>4, <1>5, <1>6
<1>10. /\ IsChain(f[m]) /\ (list[m] = "address" => f[m].address = Spread)
       /\ list[m] \notin {"address", "inactive"} => f[m].address = f[m - 1].address
  <2>1. IsChain(f[m - 1])
    BY <1>8
  <2> QED
    BY <1>9, <2>1, ToldKeeps
<1>11. ASSUME HasAddresses(list, m) PROVE f[m].address = Spread
  <2>1. PICK k \in 1..m : list[k] = "address" /\ \A j \in k..m : list[j] # "inactive"
    BY <1>11 DEF HasAddresses
  <2>2. CASE list[m] = "address"
    BY <1>10, <2>2
  <2>3. CASE list[m] # "address"
    <3>1. k \in 1..(m - 1) /\ \A j \in k..(m - 1) : list[j] # "inactive"
      BY <1>6, <2>1, <2>3
    <3>2. HasAddresses(list, m - 1)
      BY <2>1, <3>1 DEF HasAddresses
    <3>3. list[m] # "inactive"
      BY <1>6, <2>1
    <3> QED
      BY <1>8, <1>10, <2>3, <3>2, <3>3
  <2> QED
    BY <2>2, <2>3
<1> QED
  BY <1>3, <1>10, <1>11

LEMMA ToldAllIs ==
    ASSUME ChainIsSound, NEW list, NEW c, IsChain(c), Len(list) \in Nat,
           \A i \in 1..Len(list) : list[i] \in Commands
    PROVE  /\ IsChain(Chain!ToldAll(list, c))
           /\ HasAddresses(list, Len(list)) =>
                 Chain!ToldAll(list, c).address = Spread
<1> DEFINE n == Len(list)
           f == CHOOSE g : g = [m \in 0..n |-> IF m = 0 THEN c
                                               ELSE Chain!Told(list[m], g[m - 1])]
<1>1. Chain!ToldAll(list, c) = f[n]
  BY Zenon DEF Chain!ToldAll
<1>2. \E g : ToldAfter(list, c, n, g)
  BY AfterExists
<1>3. ToldAfter(list, c, n, f)
  BY <1>2, Zenon DEF ToldAfter
<1> HIDE DEF f
<1> QED
  BY <1>1, <1>3, AfterIs

(* The list of the drivers                                              *)
LEMMA DriversCommand ==
    ASSUME ChainIsSound, driver \in Drivers
    PROVE  /\ Len(Chain!Driver.before) \in Nat /\ Len(Chain!Driver.after) \in Nat
           /\ \A i \in 1..Len(Chain!Driver.before) : Chain!Driver.before[i] \in Commands
           /\ \A i \in 1..Len(Chain!Driver.after) : Chain!Driver.after[i] \in Commands
           /\ HasAddresses(Chain!Driver.after, Len(Chain!Driver.after))
<1>1. driver \in {"BM1366", "BM1368", "BM1370", "BM1373", "BM1397"}
  BY DEF ChainIsSound
<1>2. CASE driver = "BM1366"
  <2>1. /\ Chain!Driver.before = <<"mask">>
        /\ Chain!Driver.after = <<"inactive", "address", "registers", "frequency", "space", "mask">>
    BY <1>2 DEF Chain!Driver, Chain!BM1366
  <2> QED
    BY <2>1, SMTT(30) DEF Commands, HasAddresses
<1>3. CASE driver = "BM1368"
  <2>1. /\ Chain!Driver.before = <<"mask">>
        /\ Chain!Driver.after = <<"inactive", "registers", "address", "registers", "frequency",
                                  "space", "mask">>
    BY <1>3 DEF Chain!Driver, Chain!BM1368
  <2> QED
    BY <2>1, SMTT(30) DEF Commands, HasAddresses
<1>4. CASE driver = "BM1370"
  <2>1. /\ Chain!Driver.before = <<"mask">>
        /\ Chain!Driver.after = <<"mask", "registers", "inactive", "address", "registers",
                                  "frequency", "space">>
    BY <1>4 DEF Chain!Driver, Chain!BM1370
  <2> QED
    BY <2>1, SMTT(30) DEF Commands, HasAddresses
<1>5. CASE driver = "BM1373"
  <2>1. /\ Chain!Driver.before = <<>>
        /\ Chain!Driver.after = <<"inactive", "address", "registers", "baud", "registers",
                                  "frequency", "space", "mask">>
    BY <1>5 DEF Chain!Driver, Chain!BM1373
  <2> QED
    BY <2>1, SMTT(30) DEF Commands, HasAddresses
<1>6. CASE driver = "BM1397"
  <2>1. /\ Chain!Driver.before = <<>>
        /\ Chain!Driver.after = <<"inactive", "address", "registers", "frequency">>
    BY <1>6 DEF Chain!Driver, Chain!BM1397
  <2> QED
    BY <2>1, SMTT(30) DEF Commands, HasAddresses
<1> QED
  BY <1>1, <1>2, <1>3, <1>4, <1>5, <1>6
---------------------------------------------------------------------------
(* A job is in the slot of its number, unless the slot was claimed again;   *)
(* the chips work on the last one; and a frame has the slot and version of  *)
(* the job it was found for, and the address of its chip.                   *)
LineVersions ==
    (SUBSET {1, 2, 3}) \union
    UNION {{Chain!Rolled(Chain!Base, mask, n) : n \in 0..3} : mask \in Masks \union {{}}}
LineFrames ==
    [kind : {"none", "id", "bad", "job", "register"}, address : Nat, byte : Nat,
     bits : SUBSET Chain!Bits, job : Nat, version : LineVersions, chip : Nat]

ChainData ==
    /\ driver \in Drivers /\ phase \in {"off", "detecting", "running", "stopping", "failed"}
    /\ attempt \in 0..Attempts /\ counted \in 0..(Chips + 1) /\ reading \in BOOLEAN
    /\ silent \in BOOLEAN /\ hostBaud \in {"slow", "fast"}
    /\ jobs \in Nat /\ IsChain(chain) /\ rx \in Seq(LineFrames)

JobsInSlots ==
    LET n == Chain!Driver.slots IN
    /\ entries \in [0..(n - 1) -> [id : Nat, mask : Masks \union {{}}]]
    /\ current = jobs % n
    /\ \A s \in 0..(n - 1) :
          /\ entries[s].id <= jobs
          /\ IF entries[s].id = 0 THEN entries[s] = Chain!NoJob ELSE entries[s].id % n = s
    /\ \A j \in 1..jobs : entries[j % n].id >= j

PacketIsCurrent ==
    /\ packet = [byte |-> packet.byte, job |-> packet.job, versions |-> packet.versions]
    /\ packet.job # 0 =>
         /\ packet.job = jobs /\ packet.byte = current * Chain!Driver.tx
         /\ entries[current].id = jobs
         /\ driver = "BM1397" => packet.versions = Chain!Midstates(entries[current].mask)

FrameSound(f) ==
    /\ f.kind \in {"job", "register"} /\ f.chip \in Chain!Chip
    /\ IF f.kind = "register"
       THEN f.address = f.chip * Chain!AnswerInterval /\ f.job = 0 /\ f.version = {}
       ELSE /\ f.address = f.chip * Chain!Interval /\ f.job \in 1..jobs
            /\ Chain!SlotOf(f) = f.job % Chain!Driver.slots
            /\ entries[f.job % Chain!Driver.slots].id = f.job =>
                  Chain!VersionOf(f, entries[f.job % Chain!Driver.slots]) = f.version
FramesAreSound == phase \in {"running", "stopping"} => \A i \in 1..Len(rx) : FrameSound(rx[i])

PhaseFits ==
    /\ reading => phase \in {"running", "stopping"}
    /\ phase = "off" => rx = <<>> /\ attempt = 0
    /\ phase = "failed" => rx = <<>> /\ silent
    /\ phase = "detecting" => counted + Len(rx) <= Chips + 1
    /\ phase \in {"running", "stopping"} => Len(rx) <= MaxFrames /\ attempt = 0
    /\ phase = "running" => hostBaud = "fast" /\ chain.baud = "fast" /\ chain.address = Spread

ResultSound ==
    result # Chain!NoResult =>
      /\ result.asic = result.frame.chip
      /\ result.job >= result.frame.job
      /\ (result.job - result.frame.job) % Chain!Driver.slots = 0
      /\ result.job = result.frame.job => result.version = result.frame.version

ChainInv ==
    /\ ChainData /\ JobsInSlots /\ PacketIsCurrent /\ FramesAreSound /\ PhaseFits /\ ResultSound

LEMMA ChainBegins == ASSUME ChainIsSound PROVE Chain!Init => ChainInv
<1> SUFFICES ASSUME Chain!Init PROVE ChainInv
  OBVIOUS
<1>1. /\ driver \in Drivers /\ phase = "off" /\ attempt = 0 /\ counted = 0
      /\ chain = Chain!Reset /\ rx = <<>> /\ reading = FALSE /\ hostBaud = "slow"
      /\ result = Chain!NoResult /\ silent = FALSE /\ jobs = 0
  BY DEF Chain!Init
<1>2. /\ packet = [byte |-> 0, job |-> 0, versions |-> <<>>] /\ current = 0
      /\ entries = [s \in 0..(Chain!Driver.slots - 1) |-> Chain!NoJob]
  BY DEF Chain!Init
<1>3. ChainData
  <2>1. IsChain(chain)
    <3>1. [c \in Chain!Chip |-> 0] \in [Chain!Chip -> Nat]
      OBVIOUS
    <3> QED
      BY <1>1, <3>1 DEF Chain!Reset, IsChain
  <2>2. rx \in Seq(LineFrames)
    BY <1>1
  <2>3. 0 \in 0..Attempts /\ 0 \in 0..(Chips + 1)
    BY DEF ChainIsSound
  <2> QED
    BY <1>1, <2>1, <2>2, <2>3 DEF ChainData
<1>4. JobsInSlots
  <2> DEFINE n == Chain!Driver.slots
  <2>1. n \in Nat \ {0}
    BY <1>1, DriverIs
  <2> HIDE DEF n
  <2>2. entries = [s \in 0..(n - 1) |-> Chain!NoJob]
    BY <1>2 DEF n
  <2>3. Chain!NoJob \in [id : Nat, mask : Masks \union {{}}] /\ Chain!NoJob.id = 0
    BY DEF Chain!NoJob
  <2>4. /\ entries \in [0..(n - 1) -> [id : Nat, mask : Masks \union {{}}]]
        /\ \A s \in 0..(n - 1) : entries[s] = Chain!NoJob /\ entries[s].id = 0
    BY <2>2, <2>3
  <2>5. current = jobs % n
    BY <1>1, <1>2, <2>1
  <2>6. 1..jobs = {}
    BY <1>1
  <2> QED
    BY <1>1, <2>4, <2>5, <2>6 DEF JobsInSlots, n
<1>5. PacketIsCurrent
  BY <1>2 DEF PacketIsCurrent
<1>6. FramesAreSound /\ PhaseFits /\ ResultSound
  BY <1>1 DEF FramesAreSound, PhaseFits, ResultSound
<1> QED
  BY <1>3, <1>4, <1>5, <1>6 DEF ChainInv

(* What does not change                                                     *)
LEMMA DriverStays ==
    ASSUME driver' = driver
    PROVE  Chain!Driver' = Chain!Driver
BY DEF Chain!Driver, Chain!BM1366, Chain!BM1368, Chain!BM1370, Chain!BM1373, Chain!BM1397

LEMMA SlotsStay ==
    ASSUME UNCHANGED <<driver, entries, current, jobs>>
    PROVE  JobsInSlots => JobsInSlots'
BY DriverStays DEF JobsInSlots

LEMMA PacketStays ==
    ASSUME UNCHANGED <<driver, entries, current, jobs>>, packet' = packet
    PROVE  PacketIsCurrent => PacketIsCurrent'
BY DriverStays DEF PacketIsCurrent

LEMMA FrameStays ==
    ASSUME UNCHANGED <<driver, entries, jobs>>, NEW f
    PROVE  FrameSound(f) => FrameSound(f)'
BY DriverStays DEF FrameSound, Chain!SlotOf, Chain!VersionOf, Chain!AnswerInterval

LEMMA ResultStays ==
    ASSUME driver' = driver, result' \in {result, Chain!NoResult}
    PROVE  ResultSound => ResultSound'
BY DriverStays DEF ResultSound

(* A step that leaves the jobs alone, and either what is received too, or    *)
(* the line after it is empty                                               *)
LEMMA JobsAlone ==
    ASSUME ChainInv, driver' = driver, UNCHANGED <<packet, entries, current, currentMask, jobs>>,
           result' \in {result, Chain!NoResult}
    PROVE  JobsInSlots' /\ PacketIsCurrent' /\ ResultSound'
<1>1. JobsInSlots /\ PacketIsCurrent /\ ResultSound
  BY DEF ChainInv
<1> QED
  BY <1>1, SlotsStay, PacketStays, ResultStays

(* asic_initialize() begins, or begins again.                               *)
LEMMA AttemptKeeps ==
    ASSUME ChainIsSound, ChainInv, Chain!Attempt, attempt < Attempts, ~reading,
           driver' = driver, UNCHANGED <<packet, entries, current, currentMask, jobs>>,
           reading' = reading, result' \in {result, Chain!NoResult}
    PROVE  ChainInv'
<1>1. /\ attempt' = attempt + 1 /\ counted' = 0 /\ phase' = "detecting" /\ rx' = <<>>
      /\ silent' = FALSE /\ hostBaud' = "slow"
      /\ chain' = Chain!ToldAll(Chain!Driver.before, Chain!Reset)
  BY DEF Chain!Attempt
<1>2. ChainData
  BY DEF ChainInv
<1>3. IsChain(chain')
  <2>1. IsChain(Chain!Reset)
    <3>1. [c \in Chain!Chip |-> 0] \in [Chain!Chip -> Nat]
      OBVIOUS
    <3> QED
      BY <3>1 DEF Chain!Reset, IsChain
  <2>2. driver \in Drivers
    BY <1>2 DEF ChainData
  <2>3. /\ Len(Chain!Driver.before) \in Nat
        /\ \A i \in 1..Len(Chain!Driver.before) : Chain!Driver.before[i] \in Commands
    BY <2>2, DriversCommand
  <2>4. IsChain(Chain!ToldAll(Chain!Driver.before, Chain!Reset))
    BY <2>1, <2>3, ToldAllIs
  <2> QED
    BY <1>1, <2>4
<1>4. ChainData'
  <2>1. attempt' \in 0..Attempts /\ 0 \in 0..(Chips + 1)
    BY <1>1, <1>2 DEF ChainIsSound, ChainData
  <2>2. rx' \in Seq(LineFrames)
    BY <1>1
  <2>3. IsChain(chain)'
    BY <1>3 DEF IsChain, Chain!Chip, Chain!Bits
  <2> QED
    BY <1>1, <1>2, <2>1, <2>2, <2>3 DEF ChainData, LineFrames
<1>5. FramesAreSound' /\ PhaseFits'
  <2>1. Chips + 1 \in Nat
    BY DEF ChainIsSound
  <2> QED
    BY <1>1, <2>1 DEF FramesAreSound, PhaseFits
<1> QED
  BY <1>4, <1>5, JobsAlone DEF ChainInv

LEMMA ChainStartKeeps == ASSUME ChainIsSound, ChainInv, Chain!Start PROVE ChainInv'
<1>1. /\ phase = "off" /\ ~reading /\ Chain!Attempt /\ result' = Chain!NoResult
      /\ driver' = driver /\ UNCHANGED <<packet, entries, current, currentMask, jobs>>
      /\ reading' = reading
  BY DEF Chain!Start, Chain!Fixed, Chain!work
<1>2. attempt < Attempts
  BY <1>1 DEF ChainInv, PhaseFits, ChainIsSound
<1> QED
  BY <1>1, <1>2, AttemptKeeps

LEMMA SilenceKeeps == ASSUME ChainIsSound, ChainInv, Chain!Silence PROVE ChainInv'
<1>1. /\ phase = "detecting" /\ rx = <<>>
      /\ driver' = driver /\ UNCHANGED <<packet, entries, current, currentMask, jobs>>
      /\ reading' = reading /\ result' = result
  BY DEF Chain!Silence, Chain!Fixed, Chain!work
<1>2. ~reading
  BY <1>1 DEF ChainInv, PhaseFits
<1>3. CASE attempt < Attempts /\ Chain!Attempt
  BY <1>1, <1>2, <1>3, AttemptKeeps
<1>4. CASE phase' = "failed" /\ silent' = TRUE /\ UNCHANGED <<attempt, counted, rx, chain, hostBaud>>
  <2>1. ChainData
    BY DEF ChainInv
  <2>2. ChainData'
    BY <1>1, <1>4, <2>1 DEF ChainData, IsChain, LineFrames
  <2>3. FramesAreSound' /\ PhaseFits'
    BY <1>1, <1>2, <1>4 DEF FramesAreSound, PhaseFits
  <2> QED
    BY <1>1, <2>2, <2>3, JobsAlone DEF ChainInv
<1> QED
  BY <1>3, <1>4 DEF Chain!Silence

(* count_asic_chips()                                                       *)
LEMMA AnswerKeeps == ASSUME ChainIsSound, ChainInv, Chain!Answer PROVE ChainInv'
<1>1. /\ phase = "detecting" /\ counted + Len(rx) <= Chips
      /\ driver' = driver /\ UNCHANGED <<packet, entries, current, currentMask, jobs>>
      /\ UNCHANGED <<phase, attempt, counted, chain, reading, hostBaud, result>>
  BY DEF Chain!Answer, Chain!Fixed, Chain!work
<1>2. /\ silent' \in {silent, TRUE}
      /\ rx' = Append(rx, Chain!Frame("id")) \/ rx' = Append(rx, Chain!Frame("bad"))
  BY DEF Chain!Answer
<1>3. ChainData
  BY DEF ChainInv
<1>4. Chain!Frame("id") \in LineFrames /\ Chain!Frame("bad") \in LineFrames
  BY DEF Chain!Frame, Chain!NoFrame, LineFrames, LineVersions
<1>5. rx' \in Seq(LineFrames) /\ Len(rx') = Len(rx) + 1 /\ Len(rx) \in Nat
  <2>1. rx \in Seq(LineFrames)
    BY <1>3 DEF ChainData
  <2> QED
    BY <1>2, <1>4, <2>1
<1>6. ChainData'
  <2>1. IsChain(chain)'
    BY <1>1, <1>3 DEF ChainData, IsChain
  <2>2. (rx \in Seq(LineFrames))'
    BY <1>5 DEF LineFrames, LineVersions
  <2> QED
    BY <1>1, <1>2, <1>3, <2>1, <2>2 DEF ChainData
<1>7. FramesAreSound' /\ PhaseFits'
  <2>1. counted + Len(rx') <= Chips + 1
    BY <1>1, <1>3, <1>5 DEF ChainData, ChainIsSound
  <2> QED
    BY <1>1, <2>1 DEF FramesAreSound, PhaseFits, ChainInv
<1> QED
  BY <1>1, <1>6, <1>7, JobsAlone DEF ChainInv

LEMMA ChipCountKeeps == ASSUME ChainIsSound, ChainInv, Chain!Count PROVE ChainInv'
<1>1. /\ phase = "detecting" /\ rx # <<>> /\ rx' = Tail(rx)
      /\ counted' = IF Head(rx).kind = "id" THEN counted + 1 ELSE counted
      /\ driver' = driver /\ UNCHANGED <<packet, entries, current, currentMask, jobs>>
      /\ UNCHANGED <<phase, attempt, chain, reading, hostBaud, result, silent>>
  BY DEF Chain!Count, Chain!Fixed, Chain!work
<1>2. ChainData /\ counted + Len(rx) <= Chips + 1
  BY <1>1 DEF ChainInv, PhaseFits
<1>3. rx' \in Seq(LineFrames) /\ Len(rx') = Len(rx) - 1 /\ Len(rx) \in Nat /\ Len(rx) > 0
  <2>1. rx \in Seq(LineFrames)
    BY <1>2 DEF ChainData
  <2> QED
    BY <1>1, <2>1
<1>4. counted' \in 0..(Chips + 1) /\ counted' + Len(rx') <= Chips + 1
  <2>1. counted \in 0..(Chips + 1) /\ Chips \in Nat
    BY <1>2 DEF ChainData, ChainIsSound
  <2> QED
    BY <1>1, <1>2, <1>3, <2>1
<1>5. ChainData'
  <2>1. IsChain(chain)'
    BY <1>1, <1>2 DEF ChainData, IsChain
  <2>2. (rx \in Seq(LineFrames))'
    BY <1>3 DEF LineFrames, LineVersions
  <2> QED
    BY <1>1, <1>2, <1>4, <2>1, <2>2 DEF ChainData
<1>6. FramesAreSound' /\ PhaseFits'
  BY <1>1, <1>4 DEF FramesAreSound, PhaseFits, ChainInv
<1> QED
  BY <1>1, <1>5, <1>6, JobsAlone DEF ChainInv

(* The chips are all there: they are told their addresses and baud rate.    *)
LEMMA SetUpKeeps == ASSUME ChainIsSound, ChainInv, Chain!SetUp PROVE ChainInv'
<1>1. /\ phase = "detecting" /\ rx = <<>> /\ phase' = "running" /\ attempt' = 0
      /\ hostBaud' = "fast"
      /\ chain' = Chain!Told("baud", Chain!ToldAll(Chain!Driver.after, chain))
      /\ driver' = driver /\ UNCHANGED <<packet, entries, current, currentMask, jobs>>
      /\ UNCHANGED <<counted, rx, reading, result, silent>>
  BY DEF Chain!SetUp, Chain!Fixed, Chain!work
<1>2. ChainData
  BY DEF ChainInv
<1>3. IsChain(chain') /\ chain'.baud = "fast" /\ chain'.address = Spread
  <2> DEFINE told == Chain!ToldAll(Chain!Driver.after, chain)
  <2>1. driver \in Drivers /\ IsChain(chain)
    BY <1>2 DEF ChainData
  <2>2. IsChain(told) /\ told.address = Spread
    BY <2>1, DriversCommand, ToldAllIs
  <2>3. "baud" \in Commands
    BY DEF Commands
  <2>4. chain' = Chain!Told("baud", told)
    BY <1>1
  <2> HIDE DEF told
  <2> QED
    BY <2>2, <2>3, <2>4, ToldKeeps
<1>4. ChainData'
  <2>1. IsChain(chain)'
    BY <1>3 DEF IsChain
  <2>2. 0 \in 0..Attempts
    BY DEF ChainIsSound
  <2> QED
    BY <1>1, <1>2, <2>1, <2>2 DEF ChainData, LineFrames, LineVersions
<1>5. FramesAreSound' /\ PhaseFits'
  <2>1. (chain.address = Spread)'
    BY <1>1, <1>3 DEF Spread, Chain!AnswerInterval
  <2>2. Len(<<>>) = 0 /\ 1..0 = {} /\ 0 <= MaxFrames
    BY DEF ChainIsSound
  <2> QED
    BY <1>1, <1>3, <2>1, <2>2 DEF FramesAreSound, PhaseFits, ChainInv
<1> QED
  BY <1>1, <1>4, <1>5, JobsAlone DEF ChainInv

(* mining_stop()                                                            *)
LEMMA PowerOffKeeps == ASSUME ChainIsSound, ChainInv, Chain!PowerOff PROVE ChainInv'
<1>1. /\ phase = "running" /\ phase' = "stopping" /\ chain' = Chain!Reset
      /\ packet' = [packet EXCEPT !.job = 0] /\ result' = Chain!NoResult
      /\ driver' = driver
      /\ UNCHANGED <<attempt, counted, rx, reading, entries, current, hostBaud, silent, jobs>>
  BY DEF Chain!PowerOff, Chain!Fixed
<1>2. ChainData /\ PacketIsCurrent
  BY DEF ChainInv
<1>3. ChainData'
  <2>1. IsChain(chain)'
    <3>1. [c \in Chain!Chip |-> 0] \in [Chain!Chip -> Nat]
      OBVIOUS
    <3> QED
      BY <1>1, <3>1 DEF Chain!Reset, IsChain
  <2> QED
    BY <1>1, <1>2, <2>1 DEF ChainData, LineFrames, LineVersions
<1>4. PacketIsCurrent'
  BY <1>1, <1>2 DEF PacketIsCurrent
<1>5. FramesAreSound'
  <2>1. UNCHANGED <<driver, entries, jobs>>
    BY <1>1
  <2>2. ASSUME NEW i \in 1..Len(rx) PROVE FrameSound(rx[i])'
    <3>1. FrameSound(rx[i])
      BY <1>1, <2>2 DEF ChainInv, FramesAreSound
    <3>2. rx'[i] = rx[i]
      BY <1>1
    <3> QED
      BY <2>1, <3>1, <3>2, DriverStays
         DEF FrameSound, Chain!SlotOf, Chain!VersionOf, Chain!AnswerInterval
  <2> QED
    BY <1>1, <2>2 DEF FramesAreSound
<1>6. PhaseFits'
  BY <1>1 DEF ChainInv, PhaseFits
<1>7. JobsInSlots' /\ ResultSound'
  BY <1>1, SlotsStay, ResultStays DEF ChainInv
<1> QED
  BY <1>3, <1>4, <1>5, <1>6, <1>7 DEF ChainInv

LEMMA ChainFlushKeeps == ASSUME ChainIsSound, ChainInv, Chain!Flush PROVE ChainInv'
<1>1. /\ phase = "stopping" /\ ~reading /\ phase' = "off" /\ rx' = <<>>
      /\ result' = Chain!NoResult /\ driver' = driver
      /\ UNCHANGED <<packet, entries, current, currentMask, jobs>>
      /\ UNCHANGED <<attempt, counted, chain, reading, hostBaud, silent>>
  BY DEF Chain!Flush, Chain!Fixed, Chain!work
<1>2. ChainData'
  <2>1. rx' \in Seq(LineFrames)
    BY <1>1
  <2>2. IsChain(chain)'
    BY <1>1 DEF ChainInv, ChainData, IsChain
  <2> QED
    BY <1>1, <2>1, <2>2 DEF ChainInv, ChainData, LineFrames, LineVersions
<1>3. FramesAreSound' /\ PhaseFits'
  BY <1>1 DEF FramesAreSound, PhaseFits, ChainInv
<1> QED
  BY <1>1, <1>2, <1>3, JobsAlone DEF ChainInv

(* The slot after that of a job is that of the next one.                    *)
LEMMA NextRemainder ==
    ASSUME NEW n \in Nat \ {0}, NEW a \in Nat
    PROVE  ((a % n) + 1) % n = (a + 1) % n /\ a % n \in 0..(n - 1)
<1> DEFINE q == a \div n
           r == a % n
<1>1. a = n * q + r /\ r \in 0..(n - 1) /\ q \in Nat
  OBVIOUS
<1> HIDE DEF q, r
<1>2. CASE r + 1 < n
  <2>1. a + 1 = n * q + (r + 1) /\ r + 1 \in 0..(n - 1)
    BY <1>1, <1>2
  <2>2. (a + 1) % n = r + 1
    BY <1>1, <2>1
  <2>3. (r + 1) % n = r + 1
    BY <2>1
  <2> QED
    BY <1>1, <2>2, <2>3 DEF r
<1>3. CASE r + 1 = n
  <2>1. a + 1 = n * (q + 1)
    BY <1>1, <1>3
  <2>2. (a + 1) % n = 0
    BY <1>1, <2>1
  <2>3. (r + 1) % n = 0
    BY <1>3
  <2> QED
    BY <1>1, <2>2, <2>3 DEF r
<1> QED
  BY <1>1, <1>2, <1>3

(* The difference of numbers with one remainder                             *)
LEMMA SameRemainder ==
    ASSUME NEW n \in Nat \ {0}, NEW a \in Nat, NEW b \in Nat, a % n = b % n, a <= b
    PROVE  (b - a) % n = 0
<1>1. PICK q \in Nat, r \in 0..(n - 1) : a = n * q + r /\ r = a % n
  <2>1. a = n * (a \div n) + (a % n) /\ a \div n \in Nat /\ a % n \in 0..(n - 1)
    OBVIOUS
  <2> QED
    BY <2>1
<1>2. PICK p \in Nat, s \in 0..(n - 1) : b = n * p + s /\ s = b % n
  <2>1. b = n * (b \div n) + (b % n) /\ b \div n \in Nat /\ b % n \in 0..(n - 1)
    OBVIOUS
  <2> QED
    BY <2>1
<1>3. b - a = n * (p - q) /\ p - q \in Int
  BY <1>1, <1>2
<1>4. \A k \in Int : (n * k) % n = 0
  OBVIOUS
<1> QED
  BY <1>3, <1>4

(* A job takes the next slot.                                               *)
LEMMA SendWorkKeeps ==
    ASSUME ChainIsSound, ChainInv, NEW mask \in Masks, Chain!SendWork(mask)
    PROVE  ChainInv'
<1> DEFINE n == Chain!Driver.slots
<1>1. /\ phase = "running" /\ jobs' = jobs + 1 /\ current' = Chain!Claimed
      /\ entries' = [entries EXCEPT ![Chain!Claimed] = [id |-> jobs', mask |-> mask]]
      /\ packet' = [byte |-> Chain!Claimed * Chain!Driver.tx, job |-> jobs',
                    versions |-> IF driver = "BM1397" THEN Chain!Midstates(mask)
                                 ELSE <<Chain!Base>>]
      /\ chain' = IF driver = "BM1397" \/ mask = currentMask THEN chain
                  ELSE [chain EXCEPT !.mask = mask]
      /\ result' = Chain!NoResult /\ driver' = driver
      /\ UNCHANGED <<phase, attempt, counted, rx, reading, hostBaud, silent>>
  BY DEF Chain!SendWork, Chain!Fixed
<1>2. ChainData /\ JobsInSlots
  BY DEF ChainInv
<1>3. n \in Nat \ {0} /\ Chain!Driver' = Chain!Driver /\ jobs \in Nat
  BY <1>1, <1>2, DriverIs, DriverStays DEF ChainData
<1>4. Chain!Claimed = (jobs + 1) % n /\ Chain!Claimed \in 0..(n - 1)
  <2>1. current = jobs % n
    BY <1>2 DEF JobsInSlots
  <2>2. jobs + 1 \in Nat
    BY <1>3
  <2> HIDE DEF n
  <2>3. Chain!Claimed = ((jobs % n) + 1) % n
    BY <2>1 DEF Chain!Claimed, n
  <2> QED
    BY <1>3, <2>2, <2>3, NextRemainder
<1> DEFINE slot == Chain!Claimed
<1>5. ChainData'
  <2>1. IsChain(chain)'
    <3>1. IsChain(chain) /\ mask \subseteq Chain!Bits
      BY <1>2 DEF ChainData, ChainIsSound
    <3>2. CASE chain' = chain
      BY <3>1, <3>2 DEF IsChain
    <3>3. CASE chain' = [chain EXCEPT !.mask = mask]
      BY <3>1, <3>3 DEF IsChain
    <3> QED
      BY <1>1, <3>2, <3>3
  <2> QED
    BY <1>1, <1>2, <2>1 DEF ChainData, LineFrames, LineVersions
<1>6. /\ \A s \in 0..(n - 1) : entries'[s] = IF s = slot THEN [id |-> jobs + 1, mask |-> mask]
                                            ELSE entries[s]
      /\ entries' \in [0..(n - 1) -> [id : Nat, mask : Masks \union {{}}]]
  <2>1. entries \in [0..(n - 1) -> [id : Nat, mask : Masks \union {{}}]]
    BY <1>2 DEF JobsInSlots
  <2>2. [id |-> jobs + 1, mask |-> mask] \in [id : Nat, mask : Masks \union {{}}]
    BY <1>3
  <2> HIDE DEF n
  <2> QED
    BY <1>1, <1>4, <2>1, <2>2
<1>7. JobsInSlots'
  <2>1. \A s \in 0..(n - 1) :
          /\ entries[s].id <= jobs
          /\ IF entries[s].id = 0 THEN entries[s] = Chain!NoJob ELSE entries[s].id % n = s
    BY <1>2 DEF JobsInSlots
  <2>2. \A j \in 1..jobs : entries[j % n].id >= j
    BY <1>2 DEF JobsInSlots
  <2>3. \A s \in 0..(n - 1) : entries[s].id \in Nat
    BY <1>2 DEF JobsInSlots
  <2> HIDE DEF n, slot
  <2>4. slot = (jobs + 1) % n /\ slot \in 0..(n - 1)
    BY <1>4 DEF slot
  <2>5. \A s \in 0..(n - 1) :
          /\ entries'[s].id <= jobs + 1
          /\ IF entries'[s].id = 0 THEN entries'[s] = Chain!NoJob ELSE entries'[s].id % n = s
    <3> SUFFICES ASSUME NEW s \in 0..(n - 1)
                 PROVE  /\ entries'[s].id <= jobs + 1
                        /\ IF entries'[s].id = 0 THEN entries'[s] = Chain!NoJob
                           ELSE entries'[s].id % n = s
      OBVIOUS
    <3>1. CASE s = slot
      <4>1. entries'[s].id = jobs + 1
        BY <1>6, <3>1
      <4> QED
        BY <1>3, <2>4, <3>1, <4>1
    <3>2. CASE s # slot
      <4>1. entries'[s] = entries[s]
        BY <1>6, <3>2
      <4> QED
        BY <1>3, <2>1, <2>3, <4>1
    <3> QED
      BY <3>1, <3>2
  <2>6. \A j \in 1..(jobs + 1) : entries'[j % n].id >= j
    <3> SUFFICES ASSUME NEW j \in 1..(jobs + 1) PROVE entries'[j % n].id >= j
      OBVIOUS
    <3>1. j % n \in 0..(n - 1) /\ j \in Nat
      BY <1>3
    <3>2. CASE j % n = slot
      <4>1. entries'[j % n].id = jobs + 1
        BY <1>6, <3>1, <3>2
      <4> QED
        BY <1>3, <4>1
    <3>3. CASE j % n # slot
      <4>1. j \in 1..jobs
        BY <1>3, <2>4, <3>3
      <4>2. entries'[j % n] = entries[j % n]
        BY <1>6, <3>1, <3>3
      <4> QED
        BY <2>2, <4>1, <4>2
    <3> QED
      BY <3>2, <3>3
  <2>7. n' = n
    BY <1>3 DEF n
  <2>8. current' = jobs' % n /\ jobs' = jobs + 1
    BY <1>1, <2>4 DEF slot
  <2> QED
    BY <1>6, <2>5, <2>6, <2>7, <2>8 DEF JobsInSlots, n, Chain!NoJob
<1>8. PacketIsCurrent'
  <2>1. entries'[current'] = [id |-> jobs + 1, mask |-> mask]
    BY <1>1, <1>4, <1>6
  <2>2. /\ packet'.job = jobs' /\ packet'.byte = current' * Chain!Driver.tx
        /\ driver = "BM1397" => packet'.versions = Chain!Midstates(mask)
        /\ packet' = [byte |-> packet'.byte, job |-> packet'.job, versions |-> packet'.versions]
    BY <1>1
  <2>3. entries'[current'].id = jobs' /\ entries'[current'].mask = mask
    BY <1>1, <2>1
  <2> QED
    BY <1>1, <1>3, <2>2, <2>3 DEF PacketIsCurrent
<1>9. FramesAreSound'
  <2>1. ASSUME NEW i \in 1..Len(rx) PROVE FrameSound(rx[i])'
    <3> DEFINE f == rx[i]
    <3>1. FrameSound(f) /\ rx' = rx
      BY <1>1, <2>1 DEF ChainInv, FramesAreSound
    <3>2. CASE f.kind = "register"
      BY <1>1, <3>1, <3>2 DEF FrameSound, Chain!AnswerInterval
    <3>3. CASE f.kind # "register"
      <4>1. /\ f.job \in 1..jobs /\ Chain!SlotOf(f) = f.job % n
            /\ entries[f.job % n].id = f.job =>
                  Chain!VersionOf(f, entries[f.job % n]) = f.version
        BY <3>1, <3>3 DEF FrameSound
      <4> HIDE DEF n, slot, f
      <4>2. f.job % n \in 0..(n - 1) /\ f.job \in 1..(jobs + 1) /\ f.job # jobs + 1
        BY <1>3, <4>1
      <4>3. entries'[f.job % n].id = f.job => entries'[f.job % n] = entries[f.job % n]
        BY <1>6, <4>2
      <4>5. f' = f /\ n' = n
        BY <1>3, <3>1 DEF f, n
      <4>6. (Chain!SlotOf(f))' = Chain!SlotOf(f)
        BY <1>3, <4>5 DEF Chain!SlotOf
      <4>8. entries'[f.job % n].id = f.job =>
               Chain!VersionOf(f, entries[f.job % n])' = f.version
        BY <1>1, <1>3, <4>1, <4>3, <4>5 DEF Chain!VersionOf
      <4>9. f.kind \in {"job", "register"} /\ f.chip \in Chain!Chip
            /\ f.address = f.chip * Chain!Interval
        BY <3>1, <3>3 DEF FrameSound
      <4>10. FrameSound(f)'
        BY <1>1, <1>3, <3>3, <4>1, <4>2, <4>5, <4>6, <4>8, <4>9 DEF FrameSound, n
      <4> QED
        BY <4>10 DEF f
    <3> QED
      BY <3>2, <3>3
  <2> QED
    BY <1>1, <2>1 DEF FramesAreSound
<1>10. PhaseFits'
  <2>1. chain'.baud = chain.baud /\ chain'.address = chain.address
    BY <1>1, <1>2 DEF ChainData, IsChain
  <2> QED
    BY <1>1, <2>1 DEF ChainInv, PhaseFits, Spread, Chain!AnswerInterval
<1>11. ResultSound'
  BY <1>1, ResultStays DEF ChainInv
<1> QED
  BY <1>5, <1>7, <1>8, <1>9, <1>10, <1>11 DEF ChainInv
(* A chip answers: the frame comes last.                                    *)
LEMMA SentKeeps ==
    ASSUME ChainIsSound, ChainInv, NEW f \in LineFrames, FrameSound(f), Chain!Sent(f)
    PROVE  ChainInv'
<1>1. /\ phase = "running" /\ Len(rx) < MaxFrames /\ rx' = Append(rx, f)
      /\ result' = Chain!NoResult /\ driver' = driver
      /\ UNCHANGED <<packet, entries, current, currentMask, jobs>>
      /\ UNCHANGED <<phase, attempt, counted, chain, reading, hostBaud, silent>>
  BY DEF Chain!Sent, Chain!Fixed, Chain!work
<1>2. ChainData
  BY DEF ChainInv
<1>3. /\ rx' \in Seq(LineFrames) /\ Len(rx') = Len(rx) + 1 /\ Len(rx) \in Nat
      /\ \A i \in 1..Len(rx) : rx'[i] = rx[i]
      /\ rx'[Len(rx) + 1] = f
  <2>1. rx \in Seq(LineFrames)
    BY <1>2 DEF ChainData
  <2> QED
    BY <1>1, <2>1
<1>4. ChainData'
  <2>1. IsChain(chain)'
    BY <1>1, <1>2 DEF ChainData, IsChain
  <2>2. (rx \in Seq(LineFrames))'
    BY <1>3 DEF LineFrames, LineVersions
  <2> QED
    BY <1>1, <1>2, <2>1, <2>2 DEF ChainData
<1>5. FramesAreSound'
  <2>1. UNCHANGED <<driver, entries, jobs>>
    BY <1>1
  <2>2. ASSUME NEW i \in 1..Len(rx') PROVE FrameSound(rx[i])'
    <3> DEFINE g == rx'[i]
    <3>1. FrameSound(g)
      <4>1. CASE i \in 1..Len(rx)
        <5>1. FrameSound(rx[i])
          BY <1>1, <4>1 DEF ChainInv, FramesAreSound
        <5> QED
          BY <1>3, <4>1, <5>1
      <4>2. CASE i \notin 1..Len(rx)
        <5>1. i = Len(rx) + 1
          BY <1>3, <4>2
        <5> QED
          BY <1>3, <5>1
      <4> QED
        BY <4>1, <4>2
    <3>2. FrameSound(rx[i])' = FrameSound(g)
      BY <2>1, DriverStays
         DEF FrameSound, Chain!SlotOf, Chain!VersionOf, Chain!AnswerInterval
    <3> QED
      BY <3>1, <3>2
  <2> QED
    BY <2>2 DEF FramesAreSound
<1>6. PhaseFits'
  <2>1. Len(rx') <= MaxFrames
    BY <1>1, <1>3 DEF ChainIsSound
  <2> QED
    BY <1>1, <2>1 DEF ChainInv, PhaseFits, Spread, Chain!AnswerInterval
<1> QED
  BY <1>1, <1>4, <1>5, <1>6, JobsAlone DEF ChainInv

LEMMA RolledIsVersion ==
    ASSUME NEW m \in Masks \union {{}}, NEW i \in 0..3
    PROVE  Chain!Rolled(Chain!Base, m, i) \in LineVersions
<1> DEFINE v == Chain!Rolled(Chain!Base, m, i)
           some == {Chain!Rolled(Chain!Base, m, k) : k \in 0..3}
           all == {{Chain!Rolled(Chain!Base, l, k) : k \in 0..3} : l \in Masks \union {{}}}
<1>1. v \in some
  OBVIOUS
<1>2. some \in all
  OBVIOUS
<1>3. LineVersions = (SUBSET {1, 2, 3}) \union UNION all
  BY Zenon DEF LineVersions
<1> HIDE DEF v, some, all
<1>4. v \in LineVersions
  BY <1>1, <1>2, <1>3
<1> QED
  BY <1>4 DEF v

LEMMA FindNonceKeeps ==
    ASSUME ChainIsSound, ChainInv, NEW c \in Chain!Chip, NEW core \in Chain!Cores,
           Chain!FindNonce(c, core)
    PROVE  ChainInv'
<1> DEFINE n == Chain!Driver.slots
           tx == Chain!Driver.tx
           sub == Chain!Driver.sub
           mask == entries[current].mask
<1>1. ChainData /\ JobsInSlots /\ PacketIsCurrent /\ packet.job # 0
  BY DEF ChainInv, Chain!FindNonce
<1>2. PICK bits \in IF driver = "BM1397" THEN {{}} ELSE SUBSET chain.mask :
         Chain!Sent([kind |-> "job", address |-> c * Chain!Interval,
                     byte |-> (packet.byte \div tx) * sub + core,
                     bits |-> bits, job |-> packet.job, chip |-> c,
                     version |-> IF driver = "BM1397" THEN packet.versions[core + 1]
                                 ELSE Chain!Base \union bits])
  BY DEF Chain!FindNonce
<1> DEFINE f == [kind |-> "job", address |-> c * Chain!Interval,
                 byte |-> (packet.byte \div tx) * sub + core,
                 bits |-> bits, job |-> packet.job, chip |-> c,
                 version |-> IF driver = "BM1397" THEN packet.versions[core + 1]
                             ELSE Chain!Base \union bits]
<1>3. /\ n \in Nat \ {0} /\ tx \in {4, 8} /\ sub \in {4, 8, 16}
      /\ driver = "BM1397" => sub = 4
  BY <1>1, DriverIs DEF ChainData
<1>4. /\ packet.job = jobs /\ packet.byte = current * tx /\ entries[current].id = jobs
      /\ jobs \in Nat \ {0} /\ current = jobs % n /\ current \in 0..(n - 1)
      /\ mask \in Masks \union {{}}
      /\ driver = "BM1397" => packet.versions = Chain!Midstates(mask)
  <2>1. /\ packet.job = jobs /\ packet.byte = current * tx /\ entries[current].id = jobs
        /\ driver = "BM1397" => packet.versions = Chain!Midstates(mask)
    BY <1>1 DEF PacketIsCurrent
  <2>2. jobs \in Nat \ {0}
    BY <1>1, <2>1 DEF ChainData
  <2>3. current = jobs % n /\ entries \in [0..(n - 1) -> [id : Nat, mask : Masks \union {{}}]]
    BY <1>1 DEF JobsInSlots
  <2> HIDE DEF n, tx
  <2>4. current \in 0..(n - 1)
    BY <1>3, <2>2, <2>3
  <2> QED
    BY <2>1, <2>2, <2>3, <2>4
<1>5. CASE driver = "BM1397"
  <2>1. Chain!Midstates(mask) = [i \in 1..(IF mask = {} THEN 1 ELSE 4) |->
                                   Chain!Rolled(Chain!Base, mask, i - 1)]
    BY DEF Chain!Midstates
  <2>2. Len(packet.versions) \in {1, 4} /\ Len(packet.versions) = IF mask = {} THEN 1 ELSE 4
    <3> DEFINE k == IF mask = {} THEN 1 ELSE 4
               all == {Chain!Rolled(Chain!Base, mask, i - 1) : i \in 1..k}
    <3>1. k \in {1, 4}
      OBVIOUS
    <3> HIDE DEF k
    <3>2. packet.versions \in [1..k -> all] /\ DOMAIN packet.versions = 1..k
      <4> HIDE DEF mask
      <4>1. packet.versions = [i \in 1..k |-> Chain!Rolled(Chain!Base, mask, i - 1)]
        BY <1>4, <1>5, <2>1 DEF k
      <4> QED
        BY <4>1, Zenon
    <3> HIDE DEF all
    <3>3. packet.versions \in Seq(all)
      BY <3>1, <3>2, SeqDef
    <3>4. Len(packet.versions) = k
      BY <3>1, <3>2, <3>3, LenProperties
    <3> QED
      BY <3>1, <3>4 DEF k
  <2>3. core \in 0..(Len(packet.versions) - 1)
    BY <1>5 DEF Chain!Cores
  <2> HIDE DEF n, tx, sub, mask
  <2>4. core \in 0..3 /\ core + 1 \in 1..(IF mask = {} THEN 1 ELSE 4) /\ (core + 1) - 1 = core
    BY <2>2, <2>3
  <2>5. packet.versions[core + 1] = Chain!Rolled(Chain!Base, mask, core)
    BY <1>4, <1>5, <2>1, <2>4
  <2>6. f.version = Chain!Rolled(Chain!Base, mask, core) /\ f.bits = {}
    BY <1>5, <2>5
  <2>7. f.version \in LineVersions /\ f.bits \subseteq Chain!Bits
    <3>1. Chain!Rolled(Chain!Base, mask, core) \in LineVersions
      BY <1>4, <2>4, RolledIsVersion
    <3> HIDE DEF f
    <3> QED
      BY <2>6, <3>1
  <2>8. core \in 0..(sub - 1)
    BY <1>3, <1>5, <2>4
  <2>9. f.byte = current * sub + core /\ f.byte \div sub = current /\ f.byte % sub = core
        /\ f.byte \in Nat
    <3>1. current \in Nat
      BY <1>4
    <3>2. packet.byte \div tx = current
      BY <1>3, <1>4, <2>8, <3>1, SlotIsDecoded
    <3>3. f.byte = current * sub + core
      BY <3>2
    <3> QED
      BY <1>3, <2>8, <3>1, <3>3, SlotIsDecoded
  <2>10. Chain!VersionOf(f, entries[current]) = f.version
    BY <1>5, <2>6, <2>9 DEF Chain!VersionOf, mask, sub
  <2>11. f \in LineFrames
    <3>1. c * Chain!Interval \in Nat
      BY IntervalIs
    <3> QED
      BY <1>4, <2>7, <2>9, <3>1, IntervalIs DEF LineFrames
  <2>12. FrameSound(f)
    BY <1>3, <1>4, <2>9, <2>10 DEF FrameSound, Chain!SlotOf, n, sub
  <2>13. Chain!Sent(f)
    BY <1>2 DEF tx, sub
  <2> HIDE DEF f
  <2> QED
    BY <2>11, <2>12, <2>13, SentKeeps
<1>6. CASE driver # "BM1397"
  <2>1. f.bits \subseteq Chain!Bits /\ f.version = Chain!Base \union f.bits
    BY <1>1, <1>2, <1>6 DEF ChainData, IsChain
  <2>2. f.version \in LineVersions
    BY <2>1 DEF LineVersions, Chain!Base, Chain!Bits
  <2>3. core \in {0, sub - 1}
    BY <1>6 DEF Chain!Cores
  <2> HIDE DEF n, tx, sub, mask
  <2>4. core \in 0..(sub - 1)
    BY <1>3, <2>3
  <2>5. f.byte = current * sub + core /\ f.byte \div sub = current /\ f.byte \in Nat
    <3>1. current \in Nat
      BY <1>4
    <3>2. packet.byte \div tx = current
      BY <1>3, <1>4, <2>4, <3>1, SlotIsDecoded
    <3>3. f.byte = current * sub + core
      BY <3>2
    <3> QED
      BY <1>3, <2>4, <3>1, <3>3, SlotIsDecoded
  <2>6. Chain!VersionOf(f, entries[current]) = f.version
    BY <1>6, <2>1 DEF Chain!VersionOf
  <2>7. f \in LineFrames
    <3>1. c * Chain!Interval \in Nat
      BY IntervalIs
    <3> QED
      BY <1>4, <2>1, <2>2, <2>5, <3>1, IntervalIs DEF LineFrames
  <2>8. FrameSound(f)
    BY <1>3, <1>4, <2>5, <2>6 DEF FrameSound, Chain!SlotOf, n, sub
  <2>9. Chain!Sent(f)
    BY <1>2 DEF tx, sub
  <2> HIDE DEF f
  <2> QED
    BY <2>7, <2>8, <2>9, SentKeeps
<1> QED
  BY <1>5, <1>6

(* BM13xx_read_registers()                                                  *)
LEMMA AnswerRegisterKeeps ==
    ASSUME ChainIsSound, ChainInv, NEW c \in Chain!Chip, Chain!AnswerRegister(c)
    PROVE  ChainInv'
<1> DEFINE f == [Chain!Frame("register") EXCEPT !.address = chain.address[c], !.chip = c]
<1>1. Chain!Sent(f)
  BY DEF Chain!AnswerRegister
<1>2. phase = "running"
  BY <1>1 DEF Chain!Sent
<1>3. chain.address[c] = c * Chain!AnswerInterval
  BY <1>2 DEF ChainInv, PhaseFits, Spread
<1>4. f = [kind |-> "register", address |-> c * Chain!AnswerInterval, byte |-> 0, bits |-> {},
           job |-> 0, version |-> {}, chip |-> c]
  <2>1. Chain!Frame("register") = [kind |-> "register", address |-> 0, byte |-> 0, bits |-> {},
                                   job |-> 0, version |-> {}, chip |-> 0]
    BY DEF Chain!Frame, Chain!NoFrame
  <2> DEFINE r == Chain!Frame("register")
             g == [r EXCEPT !.address = c * Chain!AnswerInterval]
  <2>2. f = [g EXCEPT !.chip = c]
    BY <1>3, <2>1
  <2>3. g = [kind |-> "register", address |-> c * Chain!AnswerInterval, byte |-> 0,
             bits |-> {}, job |-> 0, version |-> {}, chip |-> 0]
    BY <2>1
  <2> HIDE DEF f, g
  <2> QED
    BY <2>2, <2>3
<1>5. f \in LineFrames
  <2>1. c * Chain!AnswerInterval \in Nat /\ c \in Nat
    BY IntervalIs
  <2>2. {} \in LineVersions /\ {} \in SUBSET Chain!Bits
    BY DEF LineVersions
  <2> QED
    <3> HIDE DEF f
    <3> QED
      BY <1>4, <2>1, <2>2 DEF LineFrames
<1>6. FrameSound(f)
  BY <1>4 DEF FrameSound
<1> HIDE DEF f
<1> QED
  BY <1>1, <1>5, <1>6, SentKeeps
(* ASIC_result_task: BM13xx_process_work()                                  *)
LEMMA ChainReadKeeps == ASSUME ChainIsSound, ChainInv, Chain!Read PROVE ChainInv'
<1>1. /\ phase = "running" /\ reading' = TRUE /\ result' = Chain!NoResult /\ driver' = driver
      /\ UNCHANGED <<packet, entries, current, currentMask, jobs>>
      /\ UNCHANGED <<phase, attempt, counted, chain, rx, hostBaud, silent>>
  BY DEF Chain!Read, Chain!Fixed, Chain!work
<1>2. ChainData'
  <2>1. IsChain(chain)'
    BY <1>1 DEF ChainInv, ChainData, IsChain
  <2> QED
    BY <1>1, <2>1 DEF ChainInv, ChainData, LineFrames, LineVersions
<1>3. FramesAreSound'
  <2>1. ASSUME NEW i \in 1..Len(rx) PROVE FrameSound(rx[i])'
    <3>1. FrameSound(rx[i]) /\ rx' = rx
      BY <1>1, <2>1 DEF ChainInv, FramesAreSound
    <3> QED
      BY <1>1, <3>1, DriverStays
         DEF FrameSound, Chain!SlotOf, Chain!VersionOf, Chain!AnswerInterval
  <2> QED
    BY <1>1, <2>1 DEF FramesAreSound
<1>4. PhaseFits'
  BY <1>1 DEF ChainInv, PhaseFits, Spread, Chain!AnswerInterval
<1> QED
  BY <1>1, <1>2, <1>3, <1>4, JobsAlone DEF ChainInv

(* What a frame is understood as: the chip that sent it, and its job unless *)
(* the slot has a later one, whose number is the same modulo the slots.     *)
LEMMA DecodedIsSound ==
    ASSUME ChainIsSound, ChainInv, NEW f \in LineFrames, FrameSound(f)
    PROVE  LET r == Chain!Decoded(f) IN
           r # Chain!NoResult =>
             /\ r.asic = f.chip /\ r.frame = f
             /\ r.job >= f.job /\ (r.job - f.job) % Chain!Driver.slots = 0
             /\ r.job = f.job => r.version = f.version
<1> DEFINE n == Chain!Driver.slots
           r == Chain!Decoded(f)
<1>1. n \in Nat \ {0} /\ jobs \in Nat
  BY DriverIs DEF ChainInv, ChainData
<1>2. CASE f.kind = "register"
  <2>1. r = [Chain!NoResult EXCEPT !.asic = f.address \div Chain!AnswerInterval, !.frame = f]
    BY <1>2 DEF Chain!Decoded
  <2>2. f.address = f.chip * Chain!AnswerInterval /\ f.job = 0 /\ f.version = {}
        /\ f.chip \in Chain!Chip
    BY <1>2 DEF FrameSound
  <2>3. f.address \div Chain!AnswerInterval = f.chip
    BY <2>2, IntervalIs, MultipleDivides
  <2>4. r.asic = f.chip /\ r.frame = f /\ r.job = 0 /\ r.version = {}
    BY <2>1, <2>3 DEF Chain!NoResult
  <2> HIDE DEF r, n
  <2>5. (0 - 0) % n = 0 /\ 0 >= 0
    BY <1>1
  <2> QED
    BY <2>2, <2>4, <2>5 DEF r, n
<1>3. CASE f.kind # "register"
  <2> DEFINE slot == f.job % n
             job == entries[slot]
  <2>1. /\ f.address = f.chip * Chain!Interval /\ f.job \in 1..jobs /\ f.chip \in Chain!Chip
        /\ Chain!SlotOf(f) = slot /\ (job.id = f.job => Chain!VersionOf(f, job) = f.version)
    BY <1>3 DEF FrameSound
  <2>2. slot \in 0..(n - 1) /\ f.job \in Nat
    <3> HIDE DEF n
    <3> QED
      BY <1>1, <2>1
  <2>3. /\ entries \in [0..(n - 1) -> [id : Nat, mask : Masks \union {{}}]]
        /\ job.id = 0 => job = Chain!NoJob
        /\ job.id # 0 => job.id % n = slot
        /\ job.id >= f.job
    BY <2>1, <2>2 DEF ChainInv, JobsInSlots
  <2>4. Chain!Lookup(Chain!SlotOf(f)) = job
    BY <2>1, <2>2, <2>3 DEF Chain!Lookup
  <2>5. f.address \div Chain!Interval = f.chip
    BY <2>1, IntervalIs, MultipleDivides
  <2>6. r = IF job = Chain!NoJob THEN Chain!NoResult
            ELSE [asic |-> f.address \div Chain!Interval, job |-> job.id,
                  version |-> Chain!VersionOf(f, job), frame |-> f]
    <3> HIDE DEF job
    <3> QED
      BY <1>3, <2>4 DEF Chain!Decoded
  <2>7. job.id \in Nat
    BY <2>2, <2>3
  <2> HIDE DEF r, n, job
  <2>8. CASE job # Chain!NoJob
    <3>1. job.id % n = f.job % n
      BY <2>3, <2>8 DEF slot
    <3>2. (job.id - f.job) % n = 0
      BY <1>1, <2>2, <2>3, <2>7, <3>1, SameRemainder
    <3>3. r.asic = f.chip /\ r.frame = f /\ r.job = job.id /\ r.version = Chain!VersionOf(f, job)
      BY <2>5, <2>6, <2>8
    <3> QED
      BY <2>1, <2>3, <3>2, <3>3 DEF r, n
  <2>9. CASE job = Chain!NoJob
    BY <2>6, <2>9 DEF r
  <2> QED
    BY <2>8, <2>9
<1> QED
  BY <1>2, <1>3

LEMMA ReceiveKeeps == ASSUME ChainIsSound, ChainInv, Chain!Receive PROVE ChainInv'
<1>1. /\ reading /\ rx # <<>> /\ reading' = FALSE /\ rx' = Tail(rx)
      /\ result' = Chain!Decoded(Head(rx)) /\ driver' = driver
      /\ UNCHANGED <<packet, entries, current, currentMask, jobs>>
      /\ UNCHANGED <<phase, attempt, counted, chain, hostBaud, silent>>
  BY DEF Chain!Receive, Chain!Fixed, Chain!work
<1>2. ChainData /\ phase \in {"running", "stopping"} /\ Len(rx) <= MaxFrames
  BY <1>1 DEF ChainInv, PhaseFits
<1>3. /\ rx' \in Seq(LineFrames) /\ Len(rx') = Len(rx) - 1 /\ Len(rx) \in Nat \ {0}
      /\ \A i \in 1..Len(rx') : rx'[i] = rx[i + 1] /\ i + 1 \in 1..Len(rx)
      /\ Head(rx) = rx[1] /\ Head(rx) \in LineFrames
  <2>1. rx \in Seq(LineFrames)
    BY <1>2 DEF ChainData
  <2> QED
    BY <1>1, <2>1
<1>4. ChainData'
  <2>1. IsChain(chain)'
    BY <1>1, <1>2 DEF ChainData, IsChain
  <2>2. (rx \in Seq(LineFrames))'
    BY <1>3 DEF LineFrames, LineVersions
  <2> QED
    BY <1>1, <1>2, <2>1, <2>2 DEF ChainData
<1>5. \A i \in 1..Len(rx) : FrameSound(rx[i])
  BY <1>2 DEF ChainInv, FramesAreSound
<1>6. FramesAreSound'
  <2>1. ASSUME NEW i \in 1..Len(rx') PROVE FrameSound(rx[i])'
    <3> DEFINE g == rx'[i]
    <3>1. FrameSound(g)
      BY <1>3, <1>5, <2>1
    <3>2. FrameSound(rx[i])' = FrameSound(g)
      BY <1>1, DriverStays
         DEF FrameSound, Chain!SlotOf, Chain!VersionOf, Chain!AnswerInterval
    <3> QED
      BY <3>1, <3>2
  <2> QED
    BY <2>1 DEF FramesAreSound
<1>7. PhaseFits'
  <2>1. Len(rx') <= MaxFrames
    BY <1>2, <1>3 DEF ChainIsSound
  <2> QED
    BY <1>1, <1>2, <2>1 DEF ChainInv, PhaseFits, Spread, Chain!AnswerInterval
<1>8. ResultSound'
  <2> DEFINE f == Head(rx)
  <2>1. FrameSound(f) /\ f \in LineFrames
    BY <1>3, <1>5
  <2>2. result' = Chain!Decoded(f) /\ Chain!Driver' = Chain!Driver
    BY <1>1, DriverStays
  <2> HIDE DEF f
  <2>3. LET r == result' IN
        r # Chain!NoResult =>
          /\ r.asic = f.chip /\ r.frame = f
          /\ r.job >= f.job /\ (r.job - f.job) % Chain!Driver.slots = 0
          /\ r.job = f.job => r.version = f.version
    BY <2>1, <2>2, DecodedIsSound
  <2> QED
    BY <2>2, <2>3 DEF ResultSound, Chain!NoResult
<1>9. JobsInSlots' /\ PacketIsCurrent'
  BY <1>1, SlotsStay, PacketStays DEF ChainInv
<1> QED
  BY <1>4, <1>6, <1>7, <1>8, <1>9 DEF ChainInv

LEMMA ReceiveNothingKeeps ==
    ASSUME ChainIsSound, ChainInv, Chain!ReceiveNothing PROVE ChainInv'
<1>1. /\ reading /\ reading' = FALSE /\ rx' = <<>> /\ result' = Chain!NoResult
      /\ driver' = driver /\ UNCHANGED <<packet, entries, current, currentMask, jobs>>
      /\ UNCHANGED <<phase, attempt, counted, chain, hostBaud, silent>>
  BY DEF Chain!ReceiveNothing, Chain!Fixed, Chain!work
<1>2. phase \in {"running", "stopping"}
  BY <1>1 DEF ChainInv, PhaseFits
<1>3. ChainData'
  <2>1. rx' \in Seq(LineFrames)
    BY <1>1
  <2>2. IsChain(chain)'
    BY <1>1 DEF ChainInv, ChainData, IsChain
  <2> QED
    BY <1>1, <2>1, <2>2 DEF ChainInv, ChainData, LineFrames, LineVersions
<1>4. FramesAreSound' /\ PhaseFits'
  <2>1. Len(rx') = 0 /\ 1..0 = {} /\ 0 <= MaxFrames
    BY <1>1 DEF ChainIsSound
  <2> QED
    BY <1>1, <1>2, <2>1
       DEF FramesAreSound, PhaseFits, ChainInv, Spread, Chain!AnswerInterval
<1> QED
  BY <1>1, <1>3, <1>4, JobsAlone DEF ChainInv

LEMMA ChainKeeps ==
    ASSUME ChainIsSound, ChainInv, [Chain!Next]_(Chain!vars)
    PROVE  ChainInv'
<1>1. CASE Chain!Next
  BY <1>1, ChainStartKeeps, AnswerKeeps, ChipCountKeeps, SilenceKeeps, SetUpKeeps, PowerOffKeeps,
     ChainFlushKeeps, SendWorkKeeps, FindNonceKeeps, AnswerRegisterKeeps, ChainReadKeeps,
     ReceiveKeeps, ReceiveNothingKeeps
     DEF Chain!Next
<1>2. CASE UNCHANGED Chain!vars
  <2>1. /\ UNCHANGED <<driver, phase, attempt, counted, chain, rx, reading>>
        /\ UNCHANGED <<packet, entries, current, currentMask, jobs>>
        /\ UNCHANGED <<hostBaud, result, silent>>
    BY <1>2 DEF Chain!vars, Chain!bounds
  <2>2. ChainData'
    <3>1. IsChain(chain)'
      BY <2>1 DEF ChainInv, ChainData, IsChain
    <3> QED
      BY <2>1, <3>1 DEF ChainInv, ChainData, LineFrames, LineVersions
  <2>3. FramesAreSound'
    BY <2>1, DriverStays
       DEF ChainInv, FramesAreSound, FrameSound, Chain!SlotOf, Chain!VersionOf,
           Chain!AnswerInterval
  <2>4. PhaseFits'
    BY <2>1 DEF ChainInv, PhaseFits, Spread, Chain!AnswerInterval
  <2> QED
    BY <2>1, <2>2, <2>3, <2>4, JobsAlone DEF ChainInv
<1> QED
  BY <1>1, <1>2
---------------------------------------------------------------------------
(* The types of the chain of chips, and that its line holds no more than    *)
(* the answers expected of it and one too many: components/asic with        *)
(* serial.c and asic_job_store.c.                                           *)
THEOREM ChainTypes ==
    ASSUME ChainIsSound
    PROVE  Chain!Spec => []Chain!TypeOK
<1>1. ASSUME ChainInv PROVE Chain!TypeOK
  <2>1. /\ phase \in {"off", "detecting", "running", "stopping", "failed"}
        /\ attempt \in 0..Attempts /\ counted \in 0..(Chips + 1) /\ rx \in Seq(LineFrames)
        /\ reading \in BOOLEAN /\ silent \in BOOLEAN
        /\ hostBaud \in {"slow", "fast"} /\ chain.baud \in {"slow", "fast"}
    BY <1>1 DEF ChainInv, ChainData, IsChain
  <2>2. Len(rx) <= MaxFrames + Chips + 1
    <3>1. Len(rx) \in Nat /\ MaxFrames \in Nat /\ Chips \in Nat /\ counted \in Nat
      BY <2>1 DEF ChainIsSound
    <3>2. CASE phase \in {"off", "failed"}
      <4>1. Len(rx) = 0
        BY <1>1, <3>2 DEF ChainInv, PhaseFits
      <4> QED
        BY <3>1, <4>1
    <3>3. CASE phase = "detecting"
      <4>1. counted + Len(rx) <= Chips + 1
        BY <1>1, <3>3 DEF ChainInv, PhaseFits
      <4> QED
        BY <3>1, <4>1
    <3>4. CASE phase \in {"running", "stopping"}
      <4>1. Len(rx) <= MaxFrames
        BY <1>1, <3>4 DEF ChainInv, PhaseFits
      <4> QED
        BY <3>1, <4>1
    <3> QED
      BY <2>1, <3>2, <3>3, <3>4
  <2>3. current \in DOMAIN entries
    <3> DEFINE n == Chain!Driver.slots
    <3>1. n \in Nat \ {0} /\ jobs \in Nat
      BY <1>1, DriverIs DEF ChainInv, ChainData
    <3>2. current = jobs % n /\ DOMAIN entries = 0..(n - 1)
      BY <1>1 DEF ChainInv, JobsInSlots
    <3> HIDE DEF n
    <3> QED
      BY <3>1, <3>2
  <2> QED
    BY <2>1, <2>2, <2>3 DEF Chain!TypeOK
<1>2. Chain!Init => ChainInv
  BY ChainBegins
<1>3. ChainInv /\ [Chain!Next]_(Chain!vars) => ChainInv'
  BY ChainKeeps
<1> QED
  BY <1>1, <1>2, <1>3, PTL DEF Chain!Spec

LEMMA ChainIsUnderstood == ASSUME ChainIsSound, ChainInv PROVE Chain!ResultsAreUnderstood
<1>1. phase = "failed" => silent
  BY DEF ChainInv, PhaseFits
<1>2. ASSUME phase = "running"
      PROVE  /\ chain.baud = hostBaud
             /\ \A a, b \in Chain!Chip : chain.address[a] = chain.address[b] => a = b
  <2>1. hostBaud = "fast" /\ chain.baud = "fast" /\ chain.address = Spread
    BY <1>2 DEF ChainInv, PhaseFits
  <2>2. ASSUME NEW a \in Chain!Chip, NEW b \in Chain!Chip, chain.address[a] = chain.address[b]
        PROVE  a = b
    <3>1. a * Chain!AnswerInterval = b * Chain!AnswerInterval
      BY <2>1, <2>2 DEF Spread
    <3>2. a \in Nat /\ b \in Nat /\ Chain!AnswerInterval \in Nat \ {0}
      BY IntervalIs
    <3>3. a = (a * Chain!AnswerInterval) \div Chain!AnswerInterval
      BY <3>2, MultipleDivides
    <3>4. b = (b * Chain!AnswerInterval) \div Chain!AnswerInterval
      BY <3>2, MultipleDivides
    <3> QED
      BY <3>1, <3>3, <3>4
  <2> QED
    BY <2>1, <2>2
<1>3. ResultSound
  BY DEF ChainInv
<1> QED
  BY <1>1, <1>2, <1>3 DEF Chain!ResultsAreUnderstood, ResultSound

(* Every answer the drivers hand on names the chip it comes from, and the   *)
(* job and version the nonce was found with, unless the slot of the job was *)
(* claimed again while the answer was on its way; the initialisation only   *)
(* gives up on chips that did not answer, also when a stop found the        *)
(* receiving task at the line; and chips that run have different addresses  *)
(* and are heard at their baud rate.                                        *)
THEOREM ResultsAreUnderstoodAlways ==
    ASSUME ChainIsSound
    PROVE  PartsSpec => []ResultsAreUnderstood
<1> DEFINE P == part = "chain" => ChainInv
<1>1. PartsInit => P
  BY Zenon, ChainBegins DEF PartsInit
<1>2. P /\ [PartsNext]_partsVars => P'
  BY Zenon, ChainKeeps DEF PartsNext, partsVars
<1>3. P => ResultsAreUnderstood
  BY Zenon, ChainIsUnderstood DEF ResultsAreUnderstood
<1> QED
  BY <1>1, <1>2, <1>3, PTL DEF PartsSpec
=============================================================================

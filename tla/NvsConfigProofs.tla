-------------------------- MODULE NvsConfigProofs --------------------------
(***************************************************************************)
(* Proofs about NvsConfig for any slots, values, tasks, queue length and   *)
(* number of sets, failures and restarts.                                  *)
(***************************************************************************)
EXTENDS NvsConfig, WellFoundedInduction, SequenceTheorems, TLAPS

(* The mutex is taken exactly while a setter has an update in its hand.     *)
MutexGuardsHeld == mutex = None <=> held = NoUpdate

IInv == TypeOK /\ MutexGuardsHeld /\ CacheReachesFlash

LEMMA BootTypes ==
    ASSUME NEW fl \in [Slots -> Values \cup {Absent}]
    PROVE  BootCache(fl) \in [Slots -> Values] /\ BootIsSet(fl) \in [Keys -> BOOLEAN]
<1>1. ASSUME NEW s \in Slots PROVE Loaded(s, fl[s]) \in Values
  BY NvsAssumption DEF Loaded
<1>2. ASSUME NEW k \in Keys
      PROVE  (\E s \in Slots : KeyOf[s] = k /\ fl[s] \notin {Absent, Empty}) \in BOOLEAN
  OBVIOUS
<1> QED
  BY <1>1, <1>2 DEF BootCache, BootIsSet

(* What init reads from flash counts as saved: the default is never lost by *)
(* being read twice.                                                        *)
LEMMA BootIsSaved ==
    ASSUME NEW fl \in [Slots -> Values \cup {Absent}], NEW s \in Slots
    PROVE  Loaded(s, BootCache(fl)[s]) = Loaded(s, fl[s])
BY DEF BootCache, Loaded

LEMMA InitIInv == Init => IInv
<1> SUFFICES ASSUME Init PROVE IInv
    OBVIOUS
<1> USE DEF Init
<1>1. TypeOK /\ MutexGuardsHeld
  BY BootTypes, NvsAssumption DEF TypeOK, MutexGuardsHeld, counts
<1>2. HeldIsNewest /\ QueuedIsNewest /\ TaskIsNewest
  BY DEF HeldIsNewest, QueuedIsNewest, TaskIsNewest, IsHeld, AtTask
<1>3. FlashIsNewest
  BY BootIsSaved DEF FlashIsNewest, Saved
<1> QED
  BY <1>1, <1>2, <1>3 DEF IInv, CacheReachesFlash

---------------------------------------------------------------------------
LEMMA TypeStep == TypeOK /\ MutexGuardsHeld /\ [Next]_vars => TypeOK' /\ MutexGuardsHeld'
<1> SUFFICES ASSUME TypeOK, MutexGuardsHeld, [Next]_vars
             PROVE  TypeOK' /\ MutexGuardsHeld'
    OBVIOUS
<1> USE NvsAssumption DEF TypeOK, MutexGuardsHeld, counts
<1>1. ASSUME NEW t \in Tasks, NEW s \in Slots, NEW v \in Values, Set(t, s, v)
      PROVE  TypeOK' /\ MutexGuardsHeld'
  BY <1>1 DEF Set, Updates
<1>2. ASSUME NEW t \in Tasks, Send(t)
      PROVE  TypeOK' /\ MutexGuardsHeld'
  BY <1>2 DEF Send, Enqueue
<1>3. CASE Receive
  BY <1>3 DEF Receive
<1>4. CASE Write
  BY <1>4 DEF Write, Updates
<1>5. CASE WriteFails
  BY <1>5 DEF WriteFails, Updates
<1>6. CASE Restart
  BY <1>6, BootTypes DEF Restart
<1>7. CASE UNCHANGED vars
  BY <1>7 DEF vars
<1> QED
  BY <1>1, <1>2, <1>3, <1>4, <1>5, <1>6, <1>7 DEF Next, Sending, NvsTask

(* Every variable keeps its type; in particular the queue stays within its  *)
(* length.                                                                  *)
THEOREM TypeCorrect == Spec => [](TypeOK /\ MutexGuardsHeld)
<1>1. Init => TypeOK /\ MutexGuardsHeld
  BY InitIInv DEF IInv
<1> QED
  BY <1>1, TypeStep, PTL DEF Spec

---------------------------------------------------------------------------
(* A set: the cache and the update in hand change together, and nothing     *)
(* older of that slot counts any more.                                      *)
LEMMA SetStep ==
    ASSUME NEW t \in Tasks, NEW s \in Slots, NEW v \in Values, IInv, Set(t, s, v)
    PROVE  CacheReachesFlash'
<1> USE DEF IInv, CacheReachesFlash, Set
<1>1. held = NoUpdate
  BY DEF MutexGuardsHeld
<1>2. held' # NoUpdate /\ held'.slot = s /\ held'.value = v
  BY NvsAssumption DEF Updates
<1>3. \A r \in Slots : IsHeld(r)' <=> r = s
  BY <1>2 DEF IsHeld
<1>4. \A r \in Slots : cache'[r] = IF r = s THEN v ELSE cache[r]
  BY DEF TypeOK
<1>5. HeldIsNewest'
  BY <1>2, <1>3, <1>4 DEF HeldIsNewest
<1>6. QueuedIsNewest'
  <2> SUFFICES ASSUME NEW i \in 1..Len(queue), IsLast(i), ~IsHeld(queue[i].slot)'
               PROVE  queue[i].value = cache'[queue[i].slot]
    BY DEF QueuedIsNewest, IsLast, IsHeld
  <2>1. queue[i].slot \in Slots
    <3>1. queue \in Seq(Updates)
      BY DEF TypeOK
    <3>2. queue[i] \in Updates
      BY ONLY <3>1, i \in 1..Len(queue)
    <3> QED
      BY ONLY <3>2 DEF Updates
  <2> QED
    BY <1>1, <1>3, <1>4, <2>1 DEF QueuedIsNewest, IsHeld
<1>7. TaskIsNewest'
  BY <1>1, <1>3, <1>4 DEF TaskIsNewest, IsHeld, AtTask, InQueue
<1>8. FlashIsNewest'
  BY <1>1, <1>3, <1>4 DEF FlashIsNewest, Pending, IsHeld, AtTask, InQueue, Saved
<1> QED
  BY <1>5, <1>6, <1>7, <1>8

(* A send: the update in hand becomes the last of the queue.                *)
LEMMA SendStep ==
    ASSUME NEW t \in Tasks, IInv, Send(t)
    PROVE  CacheReachesFlash'
<1> USE DEF IInv, CacheReachesFlash, Send
<1>1. held \in Updates /\ held # NoUpdate /\ held' = NoUpdate
  BY NvsAssumption DEF TypeOK, MutexGuardsHeld
<1>2. /\ Len(queue') = Len(queue) + 1 /\ queue'[Len(queue) + 1] = held
      /\ \A i \in 1..Len(queue) : queue'[i] = queue[i]
      /\ Len(queue) \in Nat
  BY <1>1 DEF Enqueue, TypeOK
<1>3. held.value = cache[held.slot] /\ held.slot \in Slots
  BY <1>1 DEF HeldIsNewest, IsHeld, Updates
<1>4. \A r \in Slots : ~IsHeld(r)' /\ (InQueue(r)' <=> InQueue(r) \/ IsHeld(r))
  BY <1>1, <1>2 DEF IsHeld, InQueue
<1>5. HeldIsNewest'
  BY <1>4 DEF HeldIsNewest
<1>6. QueuedIsNewest'
  <2> SUFFICES ASSUME NEW i \in 1..Len(queue'), IsLast(i)'
               PROVE  queue'[i].value = cache[queue'[i].slot]
    BY DEF QueuedIsNewest
  <2>1. CASE i = Len(queue) + 1
    BY <2>1, <1>2, <1>3
  <2>2. CASE i \in 1..Len(queue)
    <3>1. IsLast(i) /\ held.slot # queue[i].slot
      BY <1>2, <2>2 DEF IsLast
    <3> QED
      BY <1>2, <2>2, <3>1 DEF QueuedIsNewest, IsHeld
  <2> QED
    BY <1>2, <2>1, <2>2
<1>7. TaskIsNewest'
  BY <1>4 DEF TaskIsNewest, AtTask
<1>8. FlashIsNewest'
  BY <1>4 DEF FlashIsNewest, Pending, AtTask, Saved
<1> QED
  BY <1>5, <1>6, <1>7, <1>8

(* A receive: the first of the queue is now nvs_task's.                     *)
LEMMA ReceiveStep == ASSUME IInv, Receive PROVE CacheReachesFlash'
<1> USE DEF IInv, CacheReachesFlash, Receive
<1>1. /\ Len(queue) \in Nat /\ Len(queue) > 0 /\ Len(queue') = Len(queue) - 1
      /\ \A i \in 1..Len(queue') : queue'[i] = queue[i + 1]
      /\ queue[1] \in Updates /\ task' = queue[1]
  BY DEF TypeOK
<1>2. task' # NoUpdate
  BY <1>1, NvsAssumption
<1>3. \A r \in Slots : InQueue(r) <=> InQueue(r)' \/ queue[1].slot = r
  <2> SUFFICES ASSUME NEW r \in Slots
               PROVE  InQueue(r) <=> InQueue(r)' \/ queue[1].slot = r
    OBVIOUS
  <2>1. ASSUME NEW i \in 1..Len(queue), queue[i].slot = r, i # 1
        PROVE  InQueue(r)'
    <3>1. i - 1 \in 1..Len(queue') /\ queue'[i - 1] = queue[i]
      BY <1>1, <2>1
    <3> QED
      BY <2>1, <3>1 DEF InQueue
  <2>2. ASSUME NEW i \in 1..Len(queue'), queue'[i].slot = r
        PROVE  InQueue(r)
    BY <1>1, <2>2 DEF InQueue
  <2> QED
    BY <1>1, <2>1, <2>2 DEF InQueue
<1>4. HeldIsNewest'
  BY DEF HeldIsNewest, IsHeld
<1>5. QueuedIsNewest'
  <2> SUFFICES ASSUME NEW i \in 1..Len(queue'), IsLast(i)', ~IsHeld(queue'[i].slot)
               PROVE  queue'[i].value = cache[queue'[i].slot]
    BY DEF QueuedIsNewest, IsHeld
  <2>1. i + 1 \in 1..Len(queue) /\ queue'[i] = queue[i + 1]
    BY <1>1
  <2>2. IsLast(i + 1)
    <3> SUFFICES ASSUME NEW j \in 1..Len(queue), j > i + 1
                 PROVE  queue[j].slot # queue[i + 1].slot
      BY DEF IsLast
    <3>1. j - 1 \in 1..Len(queue') /\ queue'[j - 1] = queue[j] /\ j - 1 > i
      BY <1>1, <2>1
    <3> QED
      BY <2>1, <3>1 DEF IsLast
  <2> QED
    BY <2>1, <2>2 DEF QueuedIsNewest
<1>6. TaskIsNewest'
  <2> SUFFICES ASSUME NEW s \in Slots, queue[1].slot = s, ~InQueue(s)', ~IsHeld(s)
               PROVE  queue[1].value = cache[s]
    BY <1>1 DEF TaskIsNewest, AtTask, IsHeld
  <2>1. IsLast(1)
    <3> SUFFICES ASSUME NEW j \in 1..Len(queue), j > 1
                 PROVE  queue[j].slot # queue[1].slot
      BY DEF IsLast
    <3>1. j - 1 \in 1..Len(queue') /\ queue'[j - 1] = queue[j]
      BY <1>1
    <3> QED
      BY <3>1 DEF InQueue
  <2> QED
    BY <1>1, <2>1 DEF QueuedIsNewest
<1>7. FlashIsNewest'
  BY <1>1, <1>2, <1>3 DEF FlashIsNewest, Pending, AtTask, IsHeld, Saved
<1> QED
  BY <1>4, <1>5, <1>6, <1>7

(* A write, done or failed: the slot is stored, superseded or lost.         *)
LEMMA WriteStep == ASSUME IInv, Write \/ WriteFails PROVE CacheReachesFlash'
<1> USE DEF IInv, CacheReachesFlash, Write, WriteFails
<1>1. task \in Updates /\ task # NoUpdate /\ task' = NoUpdate /\ task.slot \in Slots
  BY DEF TypeOK, Updates
<1>2. \A r \in Slots : ~AtTask(r)'
  BY <1>1 DEF AtTask
<1>3. HeldIsNewest' /\ QueuedIsNewest'
  BY DEF HeldIsNewest, QueuedIsNewest, IsHeld, IsLast
<1>4. TaskIsNewest'
  BY <1>2 DEF TaskIsNewest
<1>5. ASSUME NEW r \in Slots PROVE Pending(r)' \/ r \in lost' \/ Saved(r)'
  <2>1. CASE r # task.slot
    BY <1>1, <1>2, <2>1 DEF TypeOK, FlashIsNewest, Pending, AtTask, IsHeld, InQueue, Saved
  <2>2. CASE r = task.slot /\ Write
    BY <1>1, <2>2 DEF TypeOK, TaskIsNewest, AtTask, Pending, IsHeld, InQueue, Saved
  <2>3. CASE r = task.slot /\ WriteFails
    BY <2>3
  <2> QED
    BY <2>1, <2>2, <2>3
<1>6. FlashIsNewest'
  BY <1>5 DEF FlashIsNewest
<1> QED
  BY <1>3, <1>4, <1>6

(* A restart: nothing is on its way, and the cache is what flash holds.     *)
LEMMA RestartStep == ASSUME IInv, Restart PROVE CacheReachesFlash'
<1> USE DEF IInv, CacheReachesFlash, Restart
<1>1. HeldIsNewest' /\ QueuedIsNewest' /\ TaskIsNewest'
  BY DEF HeldIsNewest, QueuedIsNewest, TaskIsNewest, IsHeld, AtTask
<1>2. FlashIsNewest'
  BY BootIsSaved DEF TypeOK, FlashIsNewest, Saved
<1> QED
  BY <1>1, <1>2

LEMMA StutterStep == ASSUME IInv, UNCHANGED vars PROVE CacheReachesFlash'
BY DEF IInv, CacheReachesFlash, vars, HeldIsNewest, QueuedIsNewest, TaskIsNewest,
   FlashIsNewest, Pending, IsHeld, InQueue, AtTask, IsLast, Saved

LEMMA IInvStep == IInv /\ [Next]_vars => IInv'
<1> SUFFICES ASSUME IInv, [Next]_vars PROVE IInv'
    OBVIOUS
<1>1. TypeOK' /\ MutexGuardsHeld'
  BY TypeStep DEF IInv
<1>2. CacheReachesFlash'
  BY SetStep, SendStep, ReceiveStep, WriteStep, RestartStep, StutterStep
  DEF Next, Sending, NvsTask
<1> QED
  BY <1>1, <1>2 DEF IInv

(* Whatever the interleaving of setters and nvs_task, the newest update of   *)
(* every slot carries the cached value, and a slot with no update on its    *)
(* way is stored as cached unless its write failed.                         *)
THEOREM CacheReachesFlashAlways == Spec => []CacheReachesFlash
<1>1. IInv => CacheReachesFlash
  BY DEF IInv
<1> QED
  BY <1>1, InitIInv, IInvStep, PTL DEF Spec

---------------------------------------------------------------------------
(* The refinement. LastOf holds one index at most; it holds one as soon as  *)
(* some update is about the slot, which takes the well-foundedness of Nat.  *)
LEMMA LastIsOne ==
    ASSUME NEW q, NEW n \in Nat, NEW s, NEW i \in LastOf(q, n, s)
    PROVE  LastOf(q, n, s) = {i} /\ (CHOOSE j \in LastOf(q, n, s) : TRUE) = i
<1>1. ASSUME NEW j \in LastOf(q, n, s) PROVE j = i
  <2>1. /\ i \in 1..n /\ q[i].slot = s /\ \A k \in (i + 1)..n : q[k].slot # s
        /\ j \in 1..n /\ q[j].slot = s /\ \A k \in (j + 1)..n : q[k].slot # s
    BY DEF LastOf
  <2> QED
    BY <2>1
<1>2. LastOf(q, n, s) = {i}
  BY <1>1
<1> QED
  BY <1>2

LEMMA LastExists ==
    ASSUME NEW q, NEW n \in Nat, NEW s, NEW k \in 1..n, q[k].slot = s
    PROVE  LastOf(q, n, s) # {}
<1> DEFINE about == {m \in Nat : \E i \in 1..n : m = n - i /\ q[i].slot = s}
           Less  == OpToRel(<, Nat)
<1>1. about \subseteq Nat /\ about # {}
  <2>1. n - k \in about
    OBVIOUS
  <2> QED
    BY <2>1
<1>2. PICK m \in about : \A l \in about : ~(<<l, m>> \in Less)
  <2>1. IsWellFoundedOn(Less, Nat)
    BY NatLessThanWellFounded
  <2> QED
    BY ONLY <1>1, <2>1, WFMin
<1>3. PICK i \in 1..n : m = n - i /\ q[i].slot = s
  OBVIOUS
<1>4. ASSUME NEW j \in (i + 1)..n PROVE q[j].slot # s
  <2>1. SUFFICES ASSUME q[j].slot = s PROVE FALSE
    OBVIOUS
  <2>2. n - j \in about /\ n - j < m
    BY <1>3, <2>1
  <2>3. <<n - j, m>> \in Less
    BY <1>1, <2>2 DEF OpToRel
  <2> QED
    BY <1>2, <2>2, <2>3
<1>5. i \in LastOf(q, n, s)
  BY <1>3, <1>4 DEF LastOf
<1> QED
  BY <1>5

Flashes == [Slots -> Values \cup {Absent}]

LEMMA LoadedType ==
    ASSUME NEW s \in Slots, NEW v \in Values \cup {Absent}
    PROVE  Loaded(s, v) \in Values
BY NvsAssumption DEF Loaded

(* What is read after any number of updates is a state of the settings.     *)
LEMMA ReadAfterType ==
    ASSUME NEW fl \in Flashes, NEW q \in Seq(Updates), NEW n \in 0..Len(q)
    PROVE  ReadAfter(fl, q, n) \in [Slots -> Values]
<1>1. ASSUME NEW s \in Slots, LastOf(q, n, s) # {}
      PROVE  Loaded(s, q[CHOOSE i \in LastOf(q, n, s) : TRUE].value) \in Values
  <2>1. PICK i \in LastOf(q, n, s) : TRUE
    BY <1>1
  <2>2. i \in 1..Len(q)
    BY DEF LastOf
  <2>3. q[i] \in Updates
    BY <2>2
  <2>4. q[i].value \in Values
    BY <2>3 DEF Updates
  <2>5. (CHOOSE j \in LastOf(q, n, s) : TRUE) = i
    BY LastIsOne
  <2> QED
    BY <2>4, <2>5, LoadedType
<1>2. ASSUME NEW s \in Slots PROVE Loaded(s, fl[s]) \in Values
  BY LoadedType DEF Flashes
<1> QED
  BY <1>1, <1>2 DEF ReadAfter

(* Nothing on its way: what is read is what flash holds.                    *)
LEMMA ReadOfNone ==
    ASSUME NEW fl, NEW q
    PROVE  ReadAfter(fl, q, 0) = BootCache(fl)
<1>1. ASSUME NEW s \in Slots PROVE LastOf(q, 0, s) = {}
  BY DEF LastOf
<1> QED
  BY <1>1 DEF ReadAfter, BootCache

LEMMA HistoryOfNone ==
    ASSUME NEW fl
    PROVE  HistoryOf(fl, <<>>) = <<BootCache(fl)>>
<1>1. HistoryOf(fl, <<>>) = [n \in 1..1 |-> ReadAfter(fl, <<>>, n - 1)]
  BY DEF HistoryOf
<1>2. ReadAfter(fl, <<>>, 1 - 1) = BootCache(fl)
  BY ReadOfNone
<1> QED
  BY <1>1, <1>2

(* The reading after n updates depends on those n alone.                    *)
LEMMA ReadOfSame ==
    ASSUME NEW fl, NEW q, NEW r, NEW n \in Nat, \A i \in 1..n : q[i] = r[i]
    PROVE  ReadAfter(fl, q, n) = ReadAfter(fl, r, n)
<1>1. ASSUME NEW s PROVE LastOf(q, n, s) = LastOf(r, n, s)
  BY DEF LastOf
<1>2. ASSUME NEW s \in Slots, LastOf(q, n, s) # {}
      PROVE  q[CHOOSE i \in LastOf(q, n, s) : TRUE]
                 = r[CHOOSE i \in LastOf(r, n, s) : TRUE]
  <2>1. PICK i \in LastOf(q, n, s) : TRUE
    BY <1>2
  <2>2. i \in 1..n
    BY DEF LastOf
  <2> QED
    BY <1>1, <2>1, <2>2, LastIsOne
<1> QED
  BY <1>1, <1>2 DEF ReadAfter

(* One more update at the end: one more state, which differs from the last  *)
(* one in the slot of that update.                                          *)
LEMMA ReadOfOneMore ==
    ASSUME NEW fl \in Flashes, NEW q \in Seq(Updates), NEW n \in 1..Len(q)
    PROVE  ReadAfter(fl, q, n) =
             [ReadAfter(fl, q, n - 1) EXCEPT ![q[n].slot] = Loaded(q[n].slot, q[n].value)]
<1>1. ASSUME NEW s \in Slots, s = q[n].slot
      PROVE  ReadAfter(fl, q, n)[s] = Loaded(s, q[n].value)
  <2>1. n \in LastOf(q, n, s)
    BY <1>1 DEF LastOf
  <2> QED
    BY <2>1, LastIsOne DEF ReadAfter
<1>2. ASSUME NEW s \in Slots, s # q[n].slot
      PROVE  ReadAfter(fl, q, n)[s] = ReadAfter(fl, q, n - 1)[s]
  <2>1. LastOf(q, n, s) = LastOf(q, n - 1, s)
    BY <1>2 DEF LastOf
  <2> QED
    BY <2>1 DEF ReadAfter
<1> QED
  BY <1>1, <1>2 DEF ReadAfter

LEMMA AppendIsFunction ==
    ASSUME NEW S, NEW s \in Seq(S), NEW e \in S
    PROVE  Append(s, e) =
             [n \in 1..(Len(s) + 1) |-> IF n = Len(s) + 1 THEN e ELSE s[n]]
<1> DEFINE t == Append(s, e)
<1>1. /\ t \in Seq(S) /\ Len(t) = Len(s) + 1 /\ t[Len(s) + 1] = e
      /\ \A n \in 1..Len(s) : t[n] = s[n]
      /\ Len(s) \in Nat
  OBVIOUS
<1> HIDE DEF t
<1>2. t \in [1..(Len(s) + 1) -> S]
  BY <1>1
<1>3. \A n \in 1..(Len(s) + 1) : t[n] = IF n = Len(s) + 1 THEN e ELSE s[n]
  BY <1>1
<1>4. t = [n \in 1..(Len(s) + 1) |-> t[n]]
  BY <1>2
<1> QED
  BY <1>3, <1>4 DEF t

LEMMA TailIsFunction ==
    ASSUME NEW S, NEW s \in Seq(S), s # <<>>
    PROVE  Tail(s) = [n \in 1..(Len(s) - 1) |-> s[n + 1]]
<1> DEFINE t == Tail(s)
<1>1. /\ t \in Seq(S) /\ Len(t) = Len(s) - 1
      /\ \A n \in 1..(Len(s) - 1) : t[n] = s[n + 1]
  OBVIOUS
<1> HIDE DEF t
<1>2. t \in [1..(Len(s) - 1) -> S]
  BY <1>1
<1>3. t = [n \in 1..(Len(s) - 1) |-> t[n]]
  BY <1>2
<1> QED
  BY <1>1, <1>3 DEF t

LEMMA HistoryType ==
    ASSUME NEW fl \in Flashes, NEW q \in Seq(Updates)
    PROVE  /\ HistoryOf(fl, q) \in Seq([Slots -> Values])
           /\ Len(HistoryOf(fl, q)) = Len(q) + 1
           /\ \A n \in 1..(Len(q) + 1) : HistoryOf(fl, q)[n] = ReadAfter(fl, q, n - 1)
<1> DEFINE h == HistoryOf(fl, q)
<1>1. h = [n \in 1..(Len(q) + 1) |-> ReadAfter(fl, q, n - 1)]
  BY DEF HistoryOf
<1>2. ASSUME NEW n \in 1..(Len(q) + 1) PROVE ReadAfter(fl, q, n - 1) \in [Slots -> Values]
  <2>1. n - 1 \in 0..Len(q)
    OBVIOUS
  <2> QED
    BY <2>1, ReadAfterType
<1> HIDE DEF h
<1>3. h \in [1..(Len(q) + 1) -> [Slots -> Values]] /\ Len(q) + 1 \in Nat
  BY <1>1, <1>2
<1>4. h \in Seq([Slots -> Values]) /\ Len(h) = Len(q) + 1
  BY <1>3
<1> QED
  BY <1>1, <1>4 DEF h

LEMMA HistoryGrows ==
    ASSUME NEW fl \in Flashes, NEW q \in Seq(Updates), NEW u \in Updates
    PROVE  HistoryOf(fl, Append(q, u)) =
             Append(HistoryOf(fl, q),
                    [HistoryOf(fl, q)[Len(HistoryOf(fl, q))]
                        EXCEPT ![u.slot] = Loaded(u.slot, u.value)])
<1> DEFINE r == Append(q, u)
           h == HistoryOf(fl, q)
<1>1. /\ r \in Seq(Updates) /\ Len(r) = Len(q) + 1 /\ r[Len(q) + 1] = u
      /\ \A i \in 1..Len(q) : r[i] = q[i]
      /\ Len(q) \in Nat
  OBVIOUS
<1>2. ASSUME NEW n \in 0..Len(q) PROVE ReadAfter(fl, r, n) = ReadAfter(fl, q, n)
  <2>1. n \in Nat /\ \A i \in 1..n : r[i] = q[i]
    BY <1>1
  <2> QED
    BY <2>1, ReadOfSame
<1>3. /\ h \in Seq([Slots -> Values]) /\ Len(h) = Len(q) + 1
      /\ \A n \in 1..(Len(q) + 1) : h[n] = ReadAfter(fl, q, n - 1)
  BY HistoryType
<1> DEFINE last == [ReadAfter(fl, q, Len(q)) EXCEPT ![u.slot] = Loaded(u.slot, u.value)]
<1> HIDE DEF h, r
<1>4. h[Len(h)] = ReadAfter(fl, q, Len(q)) /\ last \in [Slots -> Values]
  <2>1. Len(h) \in 1..(Len(q) + 1) /\ Len(h) - 1 = Len(q) /\ Len(q) \in 0..Len(q)
    BY <1>1, <1>3
  <2>2. ReadAfter(fl, q, Len(q)) \in [Slots -> Values]
    BY <2>1, ReadAfterType
  <2>3. u.slot \in Slots /\ Loaded(u.slot, u.value) \in Values
    BY LoadedType DEF Updates
  <2> QED
    BY <1>3, <2>1, <2>2, <2>3
<1>5. ReadAfter(fl, r, Len(q) + 1) =
        [ReadAfter(fl, q, Len(q)) EXCEPT ![u.slot] = Loaded(u.slot, u.value)]
  <2> DEFINE m == Len(q) + 1
  <2>1. m \in 1..Len(r) /\ m - 1 = Len(q) /\ r[m] = u
    BY <1>1
  <2> HIDE DEF m
  <2>2. ReadAfter(fl, r, m) =
          [ReadAfter(fl, r, m - 1) EXCEPT ![r[m].slot] = Loaded(r[m].slot, r[m].value)]
    BY ONLY fl \in Flashes, <1>1, <2>1, ReadOfOneMore
  <2>3. ReadAfter(fl, r, Len(q)) = ReadAfter(fl, q, Len(q))
    BY <1>1, <1>2
  <2> QED
    BY <2>1, <2>2, <2>3 DEF m
<1>6. HistoryOf(fl, r) = [n \in 1..(Len(q) + 2) |-> ReadAfter(fl, r, n - 1)]
  <2>1. Len(r) + 1 = Len(q) + 2
    BY <1>1
  <2> QED
    BY <2>1 DEF HistoryOf
<1>7. Append(h, last) = [n \in 1..(Len(q) + 2) |->
                           IF n = Len(q) + 2 THEN last ELSE h[n]]
  <2> HIDE DEF last
  <2>1. Len(h) + 1 = Len(q) + 2
    BY <1>1, <1>3
  <2>2. Append(h, last) = [n \in 1..(Len(h) + 1) |-> IF n = Len(h) + 1 THEN last ELSE h[n]]
    BY <1>3, <1>4, AppendIsFunction
  <2> QED
    BY <2>1, <2>2
<1>8. ASSUME NEW n \in 1..(Len(q) + 2)
      PROVE  ReadAfter(fl, r, n - 1) = IF n = Len(q) + 2 THEN last ELSE h[n]
  <2>1. CASE n = Len(q) + 2
    <3>1. n - 1 = Len(q) + 1
      BY <1>1, <2>1
    <3> QED
      BY <1>5, <2>1, <3>1
  <2>2. CASE n # Len(q) + 2
    <3>1. n - 1 \in 0..Len(q) /\ n \in 1..(Len(q) + 1)
      BY <1>1, <2>2
    <3> QED
      BY <1>2, <1>3, <2>2, <3>1
  <2> QED
    BY <2>1, <2>2
<1>9. HistoryOf(fl, r) = Append(h, last)
  BY <1>6, <1>7, <1>8
<1> QED
  BY <1>4, <1>9 DEF h, r

(* The oldest update written to flash: the first state of the history goes. *)
LEMMA ReadOfWritten ==
    ASSUME NEW fl \in Flashes, NEW q \in Seq(Updates), q # <<>>,
           NEW n \in 0..(Len(q) - 1)
    PROVE  ReadAfter([fl EXCEPT ![q[1].slot] = q[1].value], Tail(q), n)
             = ReadAfter(fl, q, n + 1)
<1> DEFINE r == Tail(q)
           f == [fl EXCEPT ![q[1].slot] = q[1].value]
<1>1. /\ q[1] \in Updates /\ Len(q) \in Nat /\ Len(q) > 0
      /\ \A i \in 1..n : r[i] = q[i + 1]
  OBVIOUS
<1>2. q[1].slot \in Slots /\ q[1].value \in Values
  BY <1>1 DEF Updates
<1> SUFFICES ASSUME NEW s \in Slots
             PROVE  ReadAfter(f, r, n)[s] = ReadAfter(fl, q, n + 1)[s]
  BY DEF ReadAfter
<1> HIDE DEF r
<1>3. CASE LastOf(r, n, s) # {}
  <2>1. PICK i \in LastOf(r, n, s) : TRUE
    BY <1>3
  <2>2. /\ i \in 1..n /\ r[i].slot = s
        /\ \A j \in (i + 1)..n : r[j].slot # s
    BY DEF LastOf
  <2>3. ASSUME NEW j \in (i + 2)..(n + 1) PROVE q[j].slot # s
    <3>1. j - 1 \in (i + 1)..n /\ j - 1 \in 1..n /\ (j - 1) + 1 = j
      BY <2>2
    <3> QED
      BY <1>1, <2>2, <3>1
  <2>4. i + 1 \in LastOf(q, n + 1, s)
    <3>1. i + 1 \in 1..(n + 1) /\ q[i + 1].slot = s /\ (i + 1) + 1 = i + 2
      BY <1>1, <2>2
    <3> QED
      BY <2>3, <3>1 DEF LastOf
  <2>5. ReadAfter(f, r, n)[s] = Loaded(s, r[i].value)
    BY <1>3, LastIsOne DEF ReadAfter
  <2>6. ReadAfter(fl, q, n + 1)[s] = Loaded(s, q[i + 1].value)
    BY <2>4, LastIsOne DEF ReadAfter
  <2> QED
    BY <1>1, <2>2, <2>5, <2>6
<1>4. CASE LastOf(r, n, s) = {}
  <2>1. ASSUME NEW j \in 2..(n + 1) PROVE q[j].slot # s
    <3>1. j - 1 \in 1..n /\ (j - 1) + 1 = j
      OBVIOUS
    <3>2. ASSUME r[j - 1].slot = s PROVE FALSE
      <4>1. n \in Nat
        OBVIOUS
      <4> QED
        BY ONLY <1>4, <3>1, <3>2, <4>1, LastExists
    <3> QED
      BY <1>1, <3>1, <3>2
  <2>2. ReadAfter(f, r, n)[s] = Loaded(s, f[s])
    BY <1>4 DEF ReadAfter
  <2>3. CASE q[1].slot = s
    <3>1. 1 \in LastOf(q, n + 1, s)
      BY <2>1, <2>3 DEF LastOf
    <3>2. ReadAfter(fl, q, n + 1)[s] = Loaded(s, q[1].value)
      BY <3>1, LastIsOne DEF ReadAfter
    <3> QED
      BY <2>2, <2>3, <3>2 DEF Flashes
  <2>4. CASE q[1].slot # s
    <3>1. LastOf(q, n + 1, s) = {}
      <4>1. ASSUME NEW i \in LastOf(q, n + 1, s) PROVE FALSE
        <5>1. i \in 1..(n + 1) /\ q[i].slot = s
          BY DEF LastOf
        <5> QED
          BY <2>1, <2>4, <5>1
      <4> QED
        BY <4>1
    <3> QED
      BY <1>2, <2>2, <2>4, <3>1 DEF ReadAfter, Flashes
  <2> QED
    BY <2>3, <2>4
<1> QED
  BY <1>3, <1>4

LEMMA HistoryPersists ==
    ASSUME NEW fl \in Flashes, NEW q \in Seq(Updates), q # <<>>
    PROVE  /\ Len(HistoryOf(fl, q)) > 1
           /\ HistoryOf([fl EXCEPT ![q[1].slot] = q[1].value], Tail(q))
                = Tail(HistoryOf(fl, q))
<1> DEFINE f == [fl EXCEPT ![q[1].slot] = q[1].value]
           h == HistoryOf(fl, q)
           g == HistoryOf(f, Tail(q))
<1>1. Len(q) \in Nat /\ Len(q) > 0 /\ Len(Tail(q)) = Len(q) - 1
  OBVIOUS
<1>2. h = [n \in 1..(Len(q) + 1) |-> ReadAfter(fl, q, n - 1)]
  BY DEF HistoryOf
<1>3. g = [n \in 1..Len(q) |-> ReadAfter(f, Tail(q), n - 1)]
  <2>1. Len(Tail(q)) + 1 = Len(q)
    BY <1>1
  <2> QED
    BY <2>1 DEF HistoryOf
<1>4. ASSUME NEW n \in 1..Len(q)
      PROVE  ReadAfter(f, Tail(q), n - 1) = h[n + 1]
  <2>1. n - 1 \in 0..(Len(q) - 1) /\ n + 1 \in 1..(Len(q) + 1) /\ (n - 1) + 1 = (n + 1) - 1
    BY <1>1
  <2>2. h[n + 1] = ReadAfter(fl, q, (n + 1) - 1)
    BY <1>2, <2>1
  <2> QED
    BY <2>1, <2>2, ReadOfWritten
<1>5. /\ h \in Seq([Slots -> Values]) /\ Len(h) = Len(q) + 1
  BY HistoryType
<1> HIDE DEF g, h, f
<1>6. Tail(h) = [n \in 1..Len(q) |-> h[n + 1]]
  <2>1. h # <<>> /\ Len(h) - 1 = Len(q)
    BY <1>1, <1>5
  <2>2. Tail(h) = [n \in 1..(Len(h) - 1) |-> h[n + 1]]
    BY <1>5, <2>1, TailIsFunction
  <2> QED
    BY <2>1, <2>2
<1>7. g = Tail(h)
  BY <1>3, <1>4, <1>6
<1>8. Len(h) > 1
  BY <1>1, <1>5
<1> QED
  BY <1>7, <1>8, Zenon DEF f, g, h

---------------------------------------------------------------------------
(* The steps of the cache, the queue and nvs_task as steps of the store.    *)
LEMMA OnTheirWayType ==
    ASSUME TypeOK
    PROVE  OnTheirWay \in Seq(Updates) /\ flash \in Flashes
<1>1. (IF task = NoUpdate THEN <<>> ELSE <<task>>) \in Seq(Updates)
  BY DEF TypeOK
<1>2. (IF held = NoUpdate THEN <<>> ELSE <<held>>) \in Seq(Updates)
  BY DEF TypeOK
<1> QED
  BY <1>1, <1>2, ConcatProperties DEF TypeOK, OnTheirWay, Flashes

(* A set changes what is read now; the queue and nvs_task do not matter.    *)
LEMMA SetIsSet ==
    ASSUME TypeOK, MutexGuardsHeld,
           NEW t \in Tasks, NEW s \in Slots, NEW v \in Values, Set(t, s, v)
    PROVE  Store!Next
<1> DEFINE u == [slot |-> s, value |-> v]
<1>1. u \in Updates /\ u.slot = s /\ u.value = v /\ u # NoUpdate
  BY NvsAssumption DEF Updates
<1>2. held = NoUpdate /\ held' = u /\ UNCHANGED <<queue, task, flash>>
  BY DEF MutexGuardsHeld, Set
<1> DEFINE front == (IF task = NoUpdate THEN <<>> ELSE <<task>>) \o queue
<1>3. front \in Seq(Updates)
  BY ConcatProperties DEF TypeOK
<1> HIDE DEF front, u
<1>4. OnTheirWay = front /\ OnTheirWay' = front \o <<u>>
  <2>1. OnTheirWay = front \o <<>> /\ OnTheirWay' = front \o <<u>>
    BY <1>1, <1>2 DEF OnTheirWay, front
  <2> QED
    BY <1>3, <2>1, ConcatEmptySeq
<1>5. front \o <<u>> = Append(front, u)
  BY <1>1, <1>3, AppendIsConcat
<1>6. HistoryOf(flash, Append(front, u)) =
        Append(HistoryOf(flash, front),
               [HistoryOf(flash, front)[Len(HistoryOf(flash, front))]
                   EXCEPT ![u.slot] = Loaded(u.slot, u.value)])
  BY <1>1, <1>3, OnTheirWayType, HistoryGrows
<1>7. Store!Set(s, Loaded(s, v))
  BY <1>1, <1>2, <1>4, <1>5, <1>6, Zenon DEF Store!Set, Store!Now, History
<1>8. Loaded(s, v) \in Values
  BY LoadedType
<1> QED
  BY <1>7, <1>8 DEF Store!Next

(* Sending and receiving only hand an update on.                            *)
LEMMA HandedOn ==
    ASSUME TypeOK, MutexGuardsHeld, Receive \/ \E t \in Tasks : Send(t)
    PROVE  UNCHANGED History
<1>1. CASE Receive
  <2>1. /\ queue \in Seq(Updates) /\ queue # <<>> /\ Head(queue) # NoUpdate
        /\ task = NoUpdate /\ task' = Head(queue) /\ queue' = Tail(queue)
        /\ UNCHANGED <<held, flash>>
    BY <1>1, NvsAssumption DEF Receive, TypeOK
  <2>2. <<Head(queue)>> \o Tail(queue) = queue /\ <<>> \o queue = queue
    BY <2>1
  <2>3. UNCHANGED OnTheirWay
    BY <2>1, <2>2, Zenon DEF OnTheirWay
  <2> QED
    BY <2>1, <2>3 DEF History
<1>2. ASSUME NEW t \in Tasks, Send(t) PROVE UNCHANGED History
  <2>1. /\ queue \in Seq(Updates) /\ held \in Updates /\ held # NoUpdate
        /\ held' = NoUpdate /\ queue' = queue \o <<held>>
        /\ UNCHANGED <<task, flash>>
    BY <1>2, NvsAssumption DEF Send, Enqueue, TypeOK, MutexGuardsHeld
  <2> DEFINE first == IF task = NoUpdate THEN <<>> ELSE <<task>>
  <2>2. first \in Seq(Updates) /\ first' = first
    BY <2>1 DEF TypeOK
  <2>3. <<held>> \in Seq(Updates) /\ queue' \in Seq(Updates)
    BY <2>1
  <2> HIDE DEF first
  <2>4. OnTheirWay = (first \o queue) \o <<held>>
    BY <2>1 DEF OnTheirWay, first
  <2>5. OnTheirWay' = (first \o queue') \o <<>>
    BY <2>1, <2>2 DEF OnTheirWay, first
  <2>6. (first \o queue') \o <<>> = (first \o queue) \o <<held>>
    <3>1. first \o queue' \in Seq(Updates)
      BY <2>2, <2>3, ConcatProperties
    <3> QED
      BY <2>1, <2>2, <2>3, <3>1, ConcatAssociative, ConcatEmptySeq
  <2> QED
    BY <2>1, <2>4, <2>5, <2>6 DEF History
<1> QED
  BY <1>1, <1>2

(* What nvs_task has written, no restart forgets.                           *)
LEMMA WriteIsPersist ==
    ASSUME TypeOK, Write
    PROVE  Store!Next
<1> DEFINE rest == queue \o (IF held = NoUpdate THEN <<>> ELSE <<held>>)
<1>1. rest \in Seq(Updates) /\ task \in Updates /\ rest' = rest
  BY ConcatProperties DEF TypeOK, Write
<1>2. OnTheirWay = <<task>> \o rest
  <2>1. OnTheirWay = (<<task>> \o queue) \o (IF held = NoUpdate THEN <<>> ELSE <<held>>)
    BY DEF OnTheirWay, Write
  <2>2. /\ <<task>> \in Seq(Updates) /\ queue \in Seq(Updates)
        /\ (IF held = NoUpdate THEN <<>> ELSE <<held>>) \in Seq(Updates)
    BY <1>1 DEF TypeOK
  <2> QED
    BY <2>1, <2>2, ConcatAssociative
<1>3. OnTheirWay' = rest
  <2>1. OnTheirWay' = (<<>> \o queue) \o (IF held = NoUpdate THEN <<>> ELSE <<held>>)
    BY DEF OnTheirWay, Write
  <2>2. <<>> \o queue = queue
    BY DEF TypeOK
  <2> QED
    BY <2>1, <2>2
<1> HIDE DEF rest
<1>4. /\ OnTheirWay \in Seq(Updates) /\ OnTheirWay # <<>>
      /\ OnTheirWay[1] = task /\ Tail(OnTheirWay) = rest
  BY <1>1, <1>2
<1>5. flash' = [flash EXCEPT ![OnTheirWay[1].slot] = OnTheirWay[1].value]
  BY <1>4 DEF Write
<1>6. /\ Len(HistoryOf(flash, OnTheirWay)) > 1
      /\ HistoryOf(flash', Tail(OnTheirWay)) = Tail(HistoryOf(flash, OnTheirWay))
  BY <1>4, <1>5, OnTheirWayType, HistoryPersists
<1>7. Store!Persist
  BY <1>3, <1>4, <1>6 DEF Store!Persist, History
<1> QED
  BY <1>7 DEF Store!Next

LEMMA RestartIsRestart ==
    ASSUME TypeOK, Restart
    PROVE  Store!Next
<1>1. OnTheirWay' = <<>> /\ flash' = flash
  BY DEF OnTheirWay, Restart
<1>2. History' = <<BootCache(flash)>>
  BY <1>1, HistoryOfNone DEF History
<1>3. History[1] = BootCache(flash)
  <2>1. OnTheirWay \in Seq(Updates) /\ flash \in Flashes
    BY OnTheirWayType
  <2>2. 1 \in 1..(Len(OnTheirWay) + 1) /\ 1 - 1 = 0
    BY <2>1
  <2>3. History[1] = ReadAfter(flash, OnTheirWay, 0)
    BY <2>1, <2>2, HistoryType DEF History
  <2> QED
    BY <2>3, ReadOfNone
<1>4. Store!Restart
  BY <1>2, <1>3 DEF Store!Restart, Store!Stored
<1> QED
  BY <1>4 DEF Store!Next

(* Updates reach flash in the order the calls were made: whatever a restart  *)
(* brings back is an earlier state of all settings together, and no later   *)
(* restart brings back an older one, as long as no write fails.             *)
THEOREM RestartsToAnEarlierStateAlways == Spec => RestartsToAnEarlierState
<1>1. Init => Store!Init
  <2> SUFFICES ASSUME Init PROVE Store!Init
    OBVIOUS
  <2>1. OnTheirWay = <<>> /\ flash \in Flashes
    BY DEF Init, OnTheirWay, Flashes
  <2>2. History = <<BootCache(flash)>>
    BY <2>1, HistoryOfNone DEF History
  <2>3. BootCache(flash) \in [Slots -> Values]
    BY <2>1, BootTypes DEF Flashes
  <2> QED
    BY <2>2, <2>3 DEF Store!Init, Store!Settings
<1>2. ASSUME TypeOK, MutexGuardsHeld, [Next]_vars
      PROVE  [fails' = 0 => Store!Next]_History
  <2>1. ASSUME NEW t \in Tasks, NEW s \in Slots, NEW v \in Values, Set(t, s, v)
        PROVE  Store!Next
    BY <1>2, <2>1, SetIsSet
  <2>2. CASE Sending \/ Receive
    BY <1>2, <2>2, HandedOn DEF Sending
  <2>3. CASE Write
    BY <1>2, <2>3, WriteIsPersist
  <2>4. CASE WriteFails
    <3>1. fails' # 0
      BY <1>2, <2>4 DEF WriteFails, TypeOK
    <3> QED
      BY <3>1
  <2>5. CASE Restart
    BY <1>2, <2>5, RestartIsRestart
  <2>6. CASE UNCHANGED vars
    BY <2>6, Zenon DEF vars, History, OnTheirWay
  <2> QED
    BY <1>2, <2>1, <2>2, <2>3, <2>4, <2>5, <2>6 DEF Next, NvsTask
<1> QED
  BY <1>1, <1>2, TypeCorrect, PTL DEF Spec, RestartsToAnEarlierState
=============================================================================

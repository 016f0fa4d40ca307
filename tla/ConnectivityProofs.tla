------------------------- MODULE ConnectivityProofs -------------------------
(***************************************************************************)
(* Proofs about the parts a browser meets, for any values of their         *)
(* constants: the update of the firmware and its web interface, the        *)
(* station and access point, the log buffer, and the websockets. The       *)
(* hypotheses about the constants are named, and are those of the code.    *)
(***************************************************************************)
EXTENDS Services, FiniteSetTheorems, SequenceTheorems, WellFoundedInduction, TLAPS

(* Of natural numbers one is the least.                                     *)
LEMMA LeastExists ==
    ASSUME NEW S \in SUBSET Nat, S # {}
    PROVE  \E k \in S : \A j \in S : k <= j
<1> DEFINE Less == OpToRel(<, Nat)
<1>1. PICK k \in S : \A j \in S : ~(<<j, k>> \in Less)
  <2>1. IsWellFoundedOn(Less, Nat)
    BY NatLessThanWellFounded
  <2>2. S \subseteq Nat /\ S # {}
    OBVIOUS
  <2> QED
    BY ONLY <2>1, <2>2, WFMin
<1>2. ASSUME NEW j \in S PROVE k <= j
  <2>1. SUFFICES ASSUME j < k PROVE FALSE
    OBVIOUS
  <2>2. <<j, k>> \in Less
    BY <2>1 DEF OpToRel
  <2> QED
    BY <1>1, <2>2
<1> QED
  BY <1>2

---------------------------------------------------------------------------
(* The update of the firmware and of the web interface.                     *)

(* The fingerprint of a build, a hash, is none of the model's marks.        *)
BuildsAreBuilds ==
    /\ \A f \in Builds : f \notin {Update!None, Update!Partial, Update!TurnOn, Update!TurnOff}
    /\ MaxQueue \in Nat

---------------------------------------------------------------------------
(* The inductive invariant: what each loss of power leads back to. fl are   *)
(* the settings in flash, ca those in memory, q the changes on their way    *)
(* from one to the other, and w what the www partition holds.               *)

(* The custom interface is asked for in flash or by the first change.       *)
On(fl, q) == fl.custom \/ (q # <<>> /\ q[1] = Update!TurnOn)
Off(q) == \E i \in DOMAIN q : q[i] = Update!TurnOff

OnComesFirst(q) == \A i \in DOMAIN q : q[i] = Update!TurnOn => i = 1

(* A new fingerprint is never saved before the interface is given up.       *)
OffBeforePrint(fl, q) ==
    On(fl, q) => \A i \in DOMAIN q :
                   q[i] \in Update!Prints => \E j \in DOMAIN q : j < i /\ q[j] = Update!TurnOff

(* The partition holds what was uploaded under the saved fingerprint.       *)
PrintIsUploads(fl, q, w) == On(fl, q) => w \in {fl.fingerprint, Update!None, Update!Partial}

(* Memory is ahead of flash by the changes.                                 *)
CustomIsAhead(fl, ca, q) == ca.custom <=> On(fl, q) /\ ~Off(q)

PrintIsAhead(fl, ca, q) ==
    \/ /\ \A i \in DOMAIN q : q[i] \notin Update!Prints
       /\ ca.fingerprint = fl.fingerprint
    \/ \E i \in DOMAIN q :
         /\ q[i] = ca.fingerprint
         /\ \A j \in DOMAIN q : j > i => q[j] \notin Update!Prints

Sound(fl, ca, q, w) ==
    /\ OnComesFirst(q) /\ OffBeforePrint(fl, q) /\ PrintIsUploads(fl, q, w)
    /\ CustomIsAhead(fl, ca, q) /\ PrintIsAhead(fl, ca, q)

UpdateData ==
    /\ slots \in [Update!Slots -> Builds \union {Update!Partial}] /\ boot \in Update!Slots /\ running \in Update!Slots
    /\ www \in Builds \union {Update!None, Update!Partial}
    /\ cache \in Update!Settings /\ flash \in Update!Settings /\ queue \in Seq(Update!Changes)
    /\ handler \in Update!Handlers

(* A partition that is booted from or runs holds a firmware.                *)
Bootable ==
    /\ slots[boot] \in Builds /\ slots[running] \in Builds
    /\ handler \in {"boot", "idle", "www", "ota"} => boot = running

(* The fingerprint is the firmware's from the boot to the next activation.  *)
Printed ==
    /\ handler = "boot" => queue = <<>>
    /\ handler \in {"idle", "www", "ota"} => cache.fingerprint = slots[running]

UpdateInv ==
    /\ UpdateData /\ Bootable /\ Printed
    /\ ~hurried => Sound(flash, cache, queue, www)

---------------------------------------------------------------------------
(* The changes, one at a time                                               *)

LEMMA AppliedIsSettings ==
    ASSUME NEW ca \in Update!Settings, NEW c \in Update!Changes
    PROVE  Update!Applied(ca, c) \in Update!Settings
BY DEF Update!Applied, Update!Settings, Update!Changes

LEMMA AppliedCustom ==
    ASSUME BuildsAreBuilds, NEW ca \in Update!Settings, NEW c \in Update!Changes
    PROVE  /\ c = Update!TurnOn => /\ Update!Applied(ca, c).custom = TRUE
                              /\ Update!Applied(ca, c).fingerprint = ca.fingerprint
           /\ c = Update!TurnOff => /\ Update!Applied(ca, c).custom = FALSE
                                 /\ Update!Applied(ca, c).fingerprint = ca.fingerprint
           /\ c \in Update!Prints => /\ Update!Applied(ca, c).custom = ca.custom
                              /\ Update!Applied(ca, c).fingerprint = c
           /\ c \in {Update!TurnOn, Update!TurnOff} \/ c \in Update!Prints
           /\ c \in Update!Prints => c \notin {Update!TurnOn, Update!TurnOff}
           /\ Update!TurnOn # Update!TurnOff
BY DEF Update!Applied, Update!Settings, Update!Changes, Update!Prints, BuildsAreBuilds,
   Update!None, Update!TurnOn, Update!TurnOff

LEMMA PrintTaken ==
    ASSUME BuildsAreBuilds, NEW ca \in Update!Settings, NEW f \in Update!Prints
    PROVE  Update!Applied(ca, f).fingerprint = f
<1>1. f # Update!TurnOn /\ f # Update!TurnOff
  BY DEF BuildsAreBuilds, Update!Prints, Update!None, Update!TurnOn, Update!TurnOff
<1>2. Update!Applied(ca, f) = [ca EXCEPT !.fingerprint = f]
  BY <1>1 DEF Update!Applied
<1> QED
  BY <1>2 DEF Update!Settings

LEMMA Appended ==
    ASSUME NEW q \in Seq(Update!Changes), NEW c \in Update!Changes
    PROVE  LET r == q \o <<c>>
           IN  /\ r \in Seq(Update!Changes) /\ Len(r) = Len(q) + 1 /\ r[Len(q) + 1] = c
               /\ \A i \in 1..Len(q) : r[i] = q[i]
               /\ DOMAIN r = 1..(Len(q) + 1) /\ DOMAIN q = 1..Len(q) /\ Len(q) \in Nat
               /\ r # <<>> /\ (q # <<>> <=> Len(q) # 0)
BY ConcatProperties

(* The interface is given up.                                               *)
LEMMA OffKeeps ==
    ASSUME BuildsAreBuilds, NEW fl \in Update!Settings, NEW ca \in Update!Settings,
           NEW q \in Seq(Update!Changes), NEW w, Sound(fl, ca, q, w)
    PROVE  Sound(fl, Update!Applied(ca, Update!TurnOff), q \o <<Update!TurnOff>>, w)
<1> DEFINE r == q \o <<Update!TurnOff>>
           ca2 == Update!Applied(ca, Update!TurnOff)
<1>1. /\ ca2.custom = FALSE /\ ca2.fingerprint = ca.fingerprint
      /\ Update!TurnOff \notin Update!Prints /\ Update!TurnOff \in Update!Changes /\ Update!TurnOn # Update!TurnOff
  BY AppliedCustom DEF Update!Changes
<1>2. /\ r \in Seq(Update!Changes) /\ Len(r) = Len(q) + 1 /\ r[Len(q) + 1] = Update!TurnOff
      /\ \A i \in 1..Len(q) : r[i] = q[i]
      /\ DOMAIN r = 1..(Len(q) + 1) /\ DOMAIN q = 1..Len(q) /\ Len(q) \in Nat
      /\ r # <<>> /\ (q # <<>> <=> Len(q) # 0)
  BY <1>1, Appended
<1> HIDE DEF r, ca2
<1>3. On(fl, r) <=> On(fl, q)
  BY <1>1, <1>2 DEF On
<1>4. OnComesFirst(r)
  BY <1>1, <1>2 DEF OnComesFirst, Sound
<1>5. OffBeforePrint(fl, r)
  BY <1>1, <1>2, <1>3 DEF OffBeforePrint, Sound
<1>6. PrintIsUploads(fl, r, w)
  BY <1>3 DEF PrintIsUploads, Sound
<1>7. CustomIsAhead(fl, ca2, r)
  BY <1>1, <1>2 DEF CustomIsAhead, Off
<1>8. PrintIsAhead(fl, ca2, r)
  BY <1>1, <1>2 DEF PrintIsAhead, Sound
<1> QED
  BY <1>4, <1>5, <1>6, <1>7, <1>8 DEF Sound, r, ca2

(* A fingerprint is taken over, the interface given up before.              *)
LEMMA PrintKeeps ==
    ASSUME BuildsAreBuilds, NEW fl \in Update!Settings, NEW ca \in Update!Settings,
           NEW q \in Seq(Update!Changes), NEW w, Sound(fl, ca, q, w),
           NEW f \in Update!Prints, ~ca.custom
    PROVE  Sound(fl, Update!Applied(ca, f), q \o <<f>>, w)
<1> DEFINE r == q \o <<f>>
           ca2 == Update!Applied(ca, f)
<1>1. /\ ca2.custom = ca.custom /\ ca2.fingerprint = f
      /\ f \notin {Update!TurnOn, Update!TurnOff} /\ f \in Update!Changes
  BY AppliedCustom DEF Update!Changes
<1>2. /\ r \in Seq(Update!Changes) /\ Len(r) = Len(q) + 1 /\ r[Len(q) + 1] = f
      /\ \A i \in 1..Len(q) : r[i] = q[i]
      /\ DOMAIN r = 1..(Len(q) + 1) /\ DOMAIN q = 1..Len(q) /\ Len(q) \in Nat
      /\ r # <<>> /\ (q # <<>> <=> Len(q) # 0)
  BY <1>1, Appended
<1> HIDE DEF r, ca2
<1>3. On(fl, r) <=> On(fl, q)
  BY <1>1, <1>2 DEF On
<1>4. OnComesFirst(r)
  BY <1>1, <1>2 DEF OnComesFirst, Sound
<1>5. Off(r) <=> Off(q)
  BY <1>1, <1>2 DEF Off
<1>6. OffBeforePrint(fl, r)
  <2> SUFFICES ASSUME On(fl, r), NEW i \in DOMAIN r, r[i] \in Update!Prints
               PROVE  \E j \in DOMAIN r : j < i /\ r[j] = Update!TurnOff
    BY DEF OffBeforePrint
  <2>1. CASE i = Len(q) + 1
    <3>1. PICK j \in DOMAIN q : q[j] = Update!TurnOff
      BY <1>3 DEF Sound, CustomIsAhead, Off
    <3> QED
      BY <1>2, <2>1, <3>1
  <2>2. CASE i # Len(q) + 1
    <3>1. PICK j \in DOMAIN q : j < i /\ q[j] = Update!TurnOff
      BY <1>2, <1>3, <2>2 DEF Sound, OffBeforePrint
    <3> QED
      BY <1>2, <3>1
  <2> QED
    BY <2>1, <2>2
<1>7. PrintIsUploads(fl, r, w)
  BY <1>3 DEF PrintIsUploads, Sound
<1>8. CustomIsAhead(fl, ca2, r)
  BY <1>1, <1>3, <1>5 DEF CustomIsAhead, Sound
<1>9. PrintIsAhead(fl, ca2, r)
  BY <1>1, <1>2 DEF PrintIsAhead
<1> QED
  BY <1>4, <1>6, <1>7, <1>8, <1>9 DEF Sound, r, ca2

(* An interface is asked for, everything set before it saved.               *)
LEMMA OnKeeps ==
    ASSUME BuildsAreBuilds, NEW fl \in Update!Settings, NEW ca \in Update!Settings,
           NEW w, Sound(fl, ca, <<>>, w)
    PROVE  Sound(fl, Update!Applied(ca, Update!TurnOn), <<Update!TurnOn>>, ca.fingerprint)
<1> DEFINE r == <<Update!TurnOn>>
           ca2 == Update!Applied(ca, Update!TurnOn)
<1>1. /\ ca2.custom = TRUE /\ ca2.fingerprint = ca.fingerprint
      /\ Update!TurnOn \notin Update!Prints /\ Update!TurnOn # Update!TurnOff
  BY AppliedCustom DEF Update!Changes
<1>2. DOMAIN r = {1} /\ r[1] = Update!TurnOn /\ r # <<>>
  OBVIOUS
<1>3. ca.fingerprint = fl.fingerprint
  BY DEF Sound, PrintIsAhead
<1> HIDE DEF r, ca2
<1>4. OnComesFirst(r) /\ OffBeforePrint(fl, r) /\ PrintIsUploads(fl, r, ca.fingerprint)
  BY <1>1, <1>2, <1>3 DEF OnComesFirst, OffBeforePrint, PrintIsUploads
<1>5. CustomIsAhead(fl, ca2, r)
  BY <1>1, <1>2 DEF CustomIsAhead, On, Off
<1>6. PrintIsAhead(fl, ca2, r)
  BY <1>1, <1>2, <1>3 DEF PrintIsAhead
<1> QED
  BY <1>4, <1>5, <1>6 DEF Sound, r, ca2

(* The first change reaches the flash.                                      *)
LEMMA SavedKeeps ==
    ASSUME BuildsAreBuilds, NEW fl \in Update!Settings, NEW ca \in Update!Settings,
           NEW q \in Seq(Update!Changes), NEW w, Sound(fl, ca, q, w), q # <<>>
    PROVE  Sound(Update!Applied(fl, Head(q)), ca, Tail(q), w)
<1> DEFINE r == Tail(q)
           h == Head(q)
           fl2 == Update!Applied(fl, h)
<1>1. /\ h \in Update!Changes /\ h = q[1] /\ r \in Seq(Update!Changes) /\ Len(r) = Len(q) - 1
      /\ \A i \in 1..(Len(q) - 1) : r[i] = q[i + 1]
      /\ DOMAIN r = 1..(Len(q) - 1) /\ DOMAIN q = 1..Len(q)
      /\ Len(q) \in Nat /\ Len(q) # 0 /\ (r # <<>> => Len(q) > 1)
  OBVIOUS
<1>2. /\ h = Update!TurnOn => fl2.custom = TRUE /\ fl2.fingerprint = fl.fingerprint
      /\ h = Update!TurnOff => fl2.custom = FALSE /\ fl2.fingerprint = fl.fingerprint
      /\ h \in Update!Prints => fl2.custom = fl.custom /\ fl2.fingerprint = h
      /\ h \in {Update!TurnOn, Update!TurnOff} \/ h \in Update!Prints
      /\ h \in Update!Prints => h \notin {Update!TurnOn, Update!TurnOff}
      /\ Update!TurnOn # Update!TurnOff
  BY <1>1, AppliedCustom
<1> HIDE DEF r, h, fl2
<1>3. \A i \in DOMAIN r : r[i] # Update!TurnOn
  BY <1>1 DEF Sound, OnComesFirst
<1>4. On(fl2, r) <=> fl2.custom
  BY <1>1, <1>3 DEF On
<1>5. h \in Update!Prints => ~On(fl, q)
  BY <1>1 DEF Sound, OffBeforePrint
<1>6. On(fl2, r) <=> On(fl, q) /\ h # Update!TurnOff
  BY <1>1, <1>2, <1>4, <1>5 DEF On
<1>7. OnComesFirst(r)
  BY <1>3 DEF OnComesFirst
<1>8. OffBeforePrint(fl2, r)
  <2> SUFFICES ASSUME On(fl2, r), NEW i \in DOMAIN r, r[i] \in Update!Prints
               PROVE  \E j \in DOMAIN r : j < i /\ r[j] = Update!TurnOff
    BY DEF OffBeforePrint
  <2>1. On(fl, q) /\ h # Update!TurnOff
    BY <1>6
  <2>2. i + 1 \in DOMAIN q /\ q[i + 1] \in Update!Prints
    BY <1>1
  <2>3. PICK j \in DOMAIN q : j < i + 1 /\ q[j] = Update!TurnOff
    BY <2>1, <2>2 DEF Sound, OffBeforePrint
  <2>4. j # 1 /\ j - 1 \in DOMAIN r /\ j - 1 < i
    BY <1>1, <2>1, <2>3
  <2>5. r[j - 1] = Update!TurnOff
    BY <1>1, <2>3, <2>4
  <2> QED
    BY <2>4, <2>5
<1>9. PrintIsUploads(fl2, r, w)
  BY <1>2, <1>5, <1>6 DEF Sound, PrintIsUploads
<1>10. Off(q) <=> h = Update!TurnOff \/ Off(r)
  <2>1. ASSUME Off(q) PROVE h = Update!TurnOff \/ Off(r)
    <3>1. PICK j \in DOMAIN q : q[j] = Update!TurnOff
      BY <2>1 DEF Off
    <3>2. CASE j = 1
      BY <1>1, <3>1, <3>2
    <3>3. CASE j # 1
      <4>1. j - 1 \in DOMAIN r /\ r[j - 1] = Update!TurnOff
        BY <1>1, <3>1, <3>3
      <4> QED
        BY <4>1 DEF Off
    <3> QED
      BY <3>2, <3>3
  <2>2. ASSUME h = Update!TurnOff \/ Off(r) PROVE Off(q)
    BY <1>1, <2>2 DEF Off
  <2> QED
    BY <2>1, <2>2
<1>11. CustomIsAhead(fl2, ca, r)
  BY <1>6, <1>10 DEF Sound, CustomIsAhead
<1>12. PrintIsAhead(fl2, ca, r)
  <2>1. CASE /\ \A i \in DOMAIN q : q[i] \notin Update!Prints
             /\ ca.fingerprint = fl.fingerprint
    BY <1>1, <1>2, <2>1 DEF PrintIsAhead
  <2>2. ASSUME NEW i \in DOMAIN q, q[i] = ca.fingerprint,
               \A j \in DOMAIN q : j > i => q[j] \notin Update!Prints
        PROVE  PrintIsAhead(fl2, ca, r)
    <3>1. CASE i = 1
      <4>1. h = ca.fingerprint /\ h \in Update!Prints
        BY <1>1, <2>2, <3>1 DEF Update!Settings
      <4>2. fl2.fingerprint = ca.fingerprint
        BY <1>2, <4>1
      <4>3. \A j \in DOMAIN r : r[j] \notin Update!Prints
        <5> SUFFICES ASSUME NEW j \in DOMAIN r PROVE r[j] \notin Update!Prints
          OBVIOUS
        <5>1. j + 1 \in DOMAIN q /\ j + 1 > i /\ q[j + 1] = r[j]
          BY <1>1, <3>1
        <5> QED
          BY <2>2, <5>1
      <4> QED
        BY <4>2, <4>3 DEF PrintIsAhead
    <3>2. CASE i # 1
      <4>1. i - 1 \in DOMAIN r /\ r[i - 1] = ca.fingerprint
        BY <1>1, <2>2, <3>2
      <4>2. \A j \in DOMAIN r : j > i - 1 => r[j] \notin Update!Prints
        BY <1>1, <2>2
      <4> QED
        BY <4>1, <4>2 DEF PrintIsAhead
    <3> QED
      BY <3>1, <3>2
  <2> QED
    BY <2>1, <2>2 DEF Sound, PrintIsAhead
<1> QED
  BY <1>7, <1>8, <1>9, <1>11, <1>12 DEF Sound, r, h, fl2
---------------------------------------------------------------------------
(* The steps                                                                *)

LEMMA FirmwareBegins == BuildsAreBuilds /\ Update!Init => UpdateInv
<1> SUFFICES ASSUME BuildsAreBuilds, Update!Init PROVE UpdateInv
  OBVIOUS
<1>1. PICK f \in Builds : slots = [s \in Update!Slots |-> f]
  BY DEF Update!Init
<1>2. /\ boot = 1 /\ running = 1 /\ www = Update!None /\ queue = <<>> /\ handler = "boot"
      /\ flash = [custom |-> FALSE, fingerprint |-> Update!None] /\ cache = flash
  BY DEF Update!Init
<1>3. UpdateData
  BY <1>1, <1>2 DEF UpdateData, Update!Slots, Update!Settings, Update!Prints,
     Update!Handlers
<1>4. Bootable /\ Printed
  BY <1>1, <1>2 DEF Bootable, Printed, Update!Slots
<1>5. flash.custom = FALSE /\ flash.fingerprint = Update!None
  BY <1>2
<1>6. Sound(flash, cache, queue, www)
  BY <1>2, <1>5 DEF Sound, OnComesFirst, OffBeforePrint, PrintIsUploads, CustomIsAhead,
     PrintIsAhead, On, Off
<1> QED
  BY <1>3, <1>4, <1>6 DEF UpdateInv

(* A sequence of changes that ends in one more.                             *)
LEMMA OneSet ==
    ASSUME UpdateData, NEW c \in Update!Changes, Update!Set(<<c>>)
    PROVE  /\ queue' = queue \o <<c>> /\ queue' \in Seq(Update!Changes)
           /\ cache' = Update!Applied(cache, c) /\ cache' \in Update!Settings
<1>1. Update!AllApplied(cache, <<c>>) = Update!Applied(cache, c)
  BY DEF Update!AllApplied
<1>2. queue \in Seq(Update!Changes) /\ cache \in Update!Settings
  BY DEF UpdateData
<1> QED
  BY <1>1, <1>2, Appended, AppliedIsSettings DEF Update!Set

LEMMA TwoSet ==
    ASSUME UpdateData, NEW c \in Update!Changes, NEW d \in Update!Changes, Update!Set(<<c, d>>)
    PROVE  /\ queue' = (queue \o <<c>>) \o <<d>> /\ queue' \in Seq(Update!Changes)
           /\ cache' = Update!Applied(Update!Applied(cache, c), d) /\ cache' \in Update!Settings
           /\ queue \o <<c>> \in Seq(Update!Changes) /\ Update!Applied(cache, c) \in Update!Settings
<1>1. Update!AllApplied(cache, <<c, d>>) = Update!Applied(Update!Applied(cache, c), d)
  BY DEF Update!AllApplied
<1>2. queue \in Seq(Update!Changes) /\ cache \in Update!Settings
  BY DEF UpdateData
<1>3. <<c, d>> = <<c>> \o <<d>>
  <2>1. <<c>> \in Seq(Update!Changes) /\ <<c, d>> \in Seq(Update!Changes)
    OBVIOUS
  <2>2. <<c>> \o <<d>> = Append(<<c>>, d)
    BY <2>1, AppendIsConcat
  <2>3. Append(<<c>>, d) = <<c, d>>
    <3> DEFINE s == Append(<<c>>, d)
               t == <<c, d>>
    <3>1. s \in Seq(Update!Changes) /\ Len(s) = 2 /\ s[1] = c /\ s[2] = d
      OBVIOUS
    <3>2. t \in Seq(Update!Changes) /\ Len(t) = 2 /\ t[1] = c /\ t[2] = d
      OBVIOUS
    <3> HIDE DEF s, t
    <3>3. \A n \in 1..Len(s) : s[n] = t[n]
      BY <3>1, <3>2
    <3>4. s = t
      BY <3>1, <3>2, <3>3, SeqEqual
    <3> QED
      BY <3>4 DEF s, t
  <2> QED
    BY <2>2, <2>3
<1>4. <<c>> \in Seq(Update!Changes) /\ <<d>> \in Seq(Update!Changes)
  OBVIOUS
<1>5. queue \o (<<c>> \o <<d>>) = (queue \o <<c>>) \o <<d>>
  BY <1>2, <1>4, ConcatAssociative
<1>6. queue \o <<c>> \in Seq(Update!Changes) /\ Update!Applied(cache, c) \in Update!Settings
  BY <1>2, Appended, AppliedIsSettings
<1>7. (queue \o <<c>>) \o <<d>> \in Seq(Update!Changes)
  BY <1>6, Appended
<1>8. Update!Applied(Update!Applied(cache, c), d) \in Update!Settings
  BY <1>6, AppliedIsSettings
<1>9. queue' = queue \o <<c, d>> /\ cache' = Update!AllApplied(cache, <<c, d>>)
  BY DEF Update!Set
<1> QED
  BY <1>1, <1>3, <1>5, <1>6, <1>7, <1>8, <1>9

(* The interface is given up and a fingerprint taken over, in this order.   *)
LEMMA OffAndPrint ==
    ASSUME BuildsAreBuilds, UpdateInv, NEW f \in Update!Prints, Update!Set(<<Update!TurnOff, f>>),
           UNCHANGED <<flash, www>>
    PROVE  /\ queue' \in Seq(Update!Changes) /\ cache' \in Update!Settings /\ cache'.fingerprint = f
           /\ ~hurried => Sound(flash', cache', queue', www')
<1>1. UpdateData /\ f \in Update!Changes /\ Update!TurnOff \in Update!Changes
  BY DEF UpdateInv, Update!Changes
<1>2. /\ queue' = (queue \o <<Update!TurnOff>>) \o <<f>> /\ queue' \in Seq(Update!Changes)
      /\ cache' = Update!Applied(Update!Applied(cache, Update!TurnOff), f) /\ cache' \in Update!Settings
      /\ queue \o <<Update!TurnOff>> \in Seq(Update!Changes) /\ Update!Applied(cache, Update!TurnOff) \in Update!Settings
  BY <1>1, TwoSet
<1>3. cache \in Update!Settings /\ flash \in Update!Settings /\ queue \in Seq(Update!Changes)
  BY <1>1 DEF UpdateData
<1>4. Update!Applied(cache, Update!TurnOff).custom = FALSE
  BY <1>1, <1>3, AppliedCustom
<1>5. cache'.fingerprint = f
  <2>1. Update!Applied(Update!Applied(cache, Update!TurnOff), f).fingerprint = f
    BY <1>2, PrintTaken
  <2> QED
    BY <1>2, <2>1
<1>6. ASSUME ~hurried PROVE Sound(flash, cache', queue', www)
  <2>1. Sound(flash, cache, queue, www)
    BY <1>6 DEF UpdateInv
  <2>2. Sound(flash, Update!Applied(cache, Update!TurnOff), queue \o <<Update!TurnOff>>, www)
    BY <1>3, <2>1, OffKeeps
  <2> QED
    BY <1>2, <1>3, <1>4, <2>2, PrintKeeps
<1> QED
  BY <1>2, <1>5, <1>6

(* A change reaches the flash.                                              *)
LEMMA SaveStep == ASSUME BuildsAreBuilds, UpdateInv, Update!Save PROVE UpdateInv'
<1>1. UpdateData /\ Bootable /\ Printed
  BY DEF UpdateInv
<1>2. /\ queue # <<>> /\ queue' = Tail(queue) /\ flash' = Update!Applied(flash, Head(queue))
      /\ UNCHANGED <<slots, boot, running, www, cache, handler, hurried>>
  BY DEF Update!Save
<1>3. Head(queue) \in Update!Changes /\ Tail(queue) \in Seq(Update!Changes) /\ flash \in Update!Settings
  BY <1>1, <1>2 DEF UpdateData
<1>4. flash' \in Update!Settings
  BY <1>2, <1>3, AppliedIsSettings
<1>5. UpdateData' /\ Bootable' /\ Printed'
  BY <1>1, <1>2, <1>3, <1>4 DEF UpdateData, Bootable, Printed
<1>6. ASSUME ~hurried PROVE Sound(flash', cache', queue', www')
  BY <1>1, <1>2, <1>6, SavedKeeps DEF UpdateInv, UpdateData
<1> QED
  BY Zenon, <1>2, <1>5, <1>6 DEF UpdateInv

(* The firmware starts: what an older build left is given up.               *)
LEMMA BootStep == ASSUME BuildsAreBuilds, UpdateInv, Update!Boot PROVE UpdateInv'
<1>1. UpdateData /\ Bootable /\ Printed
  BY DEF UpdateInv
<1> DEFINE f == slots[running]
<1>2. /\ handler = "boot" /\ handler' = "idle" /\ Update!Set(Update!Migration(f))
      /\ UNCHANGED <<slots, boot, running, www, flash>> /\ hurried' = hurried
  BY Zenon DEF Update!Boot
<1>3. f \in Builds /\ f \in Update!Prints /\ f \in Update!Changes
  BY <1>1 DEF Bootable, Update!Prints, Update!Changes
<1>4. cache \in Update!Settings /\ queue \in Seq(Update!Changes) /\ flash \in Update!Settings
  BY <1>1 DEF UpdateData
<1> HIDE DEF f
<1>5. /\ queue' \in Seq(Update!Changes) /\ cache' \in Update!Settings /\ cache'.fingerprint = f
      /\ ~hurried => Sound(flash', cache', queue', www')
  <2>1. CASE cache.fingerprint = f
    <3>1. Update!Migration(f) = <<>>
      BY <2>1 DEF Update!Migration
    <3>2. queue' = queue \o <<>> /\ cache' = Update!AllApplied(cache, <<>>)
      BY <1>2, <3>1 DEF Update!Set
    <3>3. queue' = queue /\ cache' = cache
      BY <1>4, <3>2, ConcatEmptySeq DEF Update!AllApplied
    <3> QED
      BY <1>2, <1>4, <2>1, <3>3 DEF UpdateInv
  <2>2. CASE cache.fingerprint # f /\ cache.custom
    <3>1. Update!Migration(f) = <<Update!TurnOff, f>>
      BY <2>2 DEF Update!Migration
    <3> QED
      BY <1>2, <1>3, <3>1, OffAndPrint
  <2>3. CASE cache.fingerprint # f /\ ~cache.custom
    <3>1. Update!Migration(f) = <<f>>
      BY <2>3 DEF Update!Migration
    <3>2. /\ queue' = queue \o <<f>> /\ queue' \in Seq(Update!Changes)
          /\ cache' = Update!Applied(cache, f) /\ cache' \in Update!Settings
      BY <1>1, <1>2, <1>3, <3>1, OneSet
    <3>3. cache'.fingerprint = f
      <4>1. Update!Applied(cache, f).fingerprint = f
        BY <1>3, <1>4, PrintTaken
      <4> QED
        BY <3>2, <4>1
    <3>4. ASSUME ~hurried PROVE Sound(flash, cache', queue', www)
      BY <1>3, <1>4, <2>3, <3>2, <3>4, PrintKeeps DEF UpdateInv
    <3> QED
      BY <1>2, <3>2, <3>3, <3>4
  <2> QED
    BY <2>1, <2>2, <2>3
<1>6. UpdateData'
  BY <1>1, <1>2, <1>5 DEF UpdateData, Update!Handlers
<1>7. Bootable' /\ Printed'
  BY <1>1, <1>2, <1>5 DEF Bootable, Printed, f
<1> QED
  BY Zenon, <1>2, <1>5, <1>6, <1>7 DEF UpdateInv

(* The partition is erased, or a part of an interface written to it.        *)
LEMMA UploadStep ==
    ASSUME BuildsAreBuilds, UpdateInv, Update!BeginWww \/ Update!WriteWww \/ Update!UploadFails PROVE UpdateInv'
<1>1. UpdateData /\ Bootable /\ Printed
  BY DEF UpdateInv
<1>2. /\ UNCHANGED <<slots, boot, running, cache, flash, queue, hurried>>
      /\ www' \in {www, Update!None, Update!Partial}
      /\ handler \in {"idle", "www", "ota"} /\ handler' \in {"idle", "www"}
  BY DEF Update!BeginWww, Update!WriteWww, Update!UploadFails, Update!stored
<1>3. UpdateData'
  BY <1>1, <1>2 DEF UpdateData, Update!Handlers
<1>4. Bootable' /\ Printed'
  BY <1>1, <1>2 DEF Bootable, Printed
<1>5. ASSUME ~hurried PROVE Sound(flash', cache', queue', www')
  BY <1>2, <1>5 DEF UpdateInv, Sound, PrintIsUploads
<1> QED
  BY Zenon, <1>2, <1>3, <1>4, <1>5 DEF UpdateInv

(* The upload of an interface ends, everything set before it saved.         *)
LEMMA EndWwwStep == ASSUME BuildsAreBuilds, UpdateInv, Update!EndWww PROVE UpdateInv'
<1>1. UpdateData /\ Bootable /\ Printed
  BY DEF UpdateInv
<1>2. /\ handler = "www" /\ handler' = "rebooting" /\ www' = slots[running]
      /\ Update!Set(<<Update!TurnOn>>) /\ UNCHANGED <<slots, boot, running, flash>>
  BY DEF Update!EndWww
<1>3. hurried' = (hurried \/ queue # <<>>)
  BY Zenon DEF Update!EndWww
<1>4. cache \in Update!Settings /\ flash \in Update!Settings /\ Update!TurnOn \in Update!Changes
  BY <1>1 DEF UpdateData, Update!Changes
<1>5. /\ queue' = queue \o <<Update!TurnOn>> /\ queue' \in Seq(Update!Changes)
      /\ cache' = Update!Applied(cache, Update!TurnOn) /\ cache' \in Update!Settings
  BY <1>1, <1>2, <1>4, OneSet
<1>6. UpdateData'
  BY <1>1, <1>2, <1>5 DEF UpdateData, Update!Handlers, Bootable
<1>7. Bootable' /\ Printed'
  BY <1>1, <1>2 DEF Bootable, Printed
<1>8. ASSUME ~hurried' PROVE Sound(flash', cache', queue', www')
  <2>1. ~hurried /\ queue = <<>>
    BY Zenon, <1>3, <1>8
  <2>2. queue' = <<Update!TurnOn>> /\ www' = cache.fingerprint
    BY <1>1, <1>2, <1>5, <2>1 DEF Printed
  <2>3. Sound(flash, cache, <<>>, www)
    BY <2>1 DEF UpdateInv
  <2> QED
    BY <1>2, <1>4, <1>5, <2>2, <2>3, OnKeeps
<1> QED
  BY Zenon, <1>6, <1>7, <1>8 DEF UpdateInv

(* The other partition is written, and activated.                           *)
LEMMA OtaStep ==
    ASSUME BuildsAreBuilds, UpdateInv,
           Update!BeginOta \/ Update!SwitchPartition \/ \E f \in Builds : Update!EndOta(f)
    PROVE  UpdateInv'
<1>1. UpdateData /\ Bootable /\ Printed
  BY DEF UpdateInv
<1>2. /\ UNCHANGED <<running, www, cache, flash, queue, hurried>>
      /\ handler \in {"idle", "ota"}
  BY DEF Update!BeginOta, Update!SwitchPartition, Update!EndOta, Update!stored
<1>3. /\ Update!Other(running) \in Update!Slots /\ Update!Other(running) # running
      /\ boot = running
  BY <1>1, <1>2 DEF UpdateData, Bootable, Update!Slots, Update!Other
<1>4. UpdateData' /\ Bootable' /\ Printed'
  <2>1. CASE Update!BeginOta
    <3>1. /\ slots' = [slots EXCEPT ![Update!Other(running)] = Update!Partial] /\ boot' = boot
          /\ handler' = "ota" /\ handler = "idle"
      BY <2>1 DEF Update!BeginOta
    <3> QED
      BY <1>1, <1>2, <1>3, <3>1 DEF UpdateData, Bootable, Printed, Update!Handlers
  <2>2. CASE Update!SwitchPartition
    <3>1. /\ slots' = slots /\ boot' = Update!Other(running) /\ handler' = "reset"
          /\ slots[Update!Other(running)] # Update!Partial
      BY <2>2 DEF Update!SwitchPartition, Update!Activates
    <3> QED
      BY <1>1, <1>2, <1>3, <3>1 DEF UpdateData, Bootable, Printed, Update!Handlers
  <2>3. ASSUME NEW f \in Builds, Update!EndOta(f) PROVE UpdateData' /\ Bootable' /\ Printed'
    <3>1. /\ slots' = [slots EXCEPT ![Update!Other(running)] = f] /\ boot' = Update!Other(running)
          /\ handler' = "reset"
      BY <2>3 DEF Update!EndOta, Update!Activates
    <3> QED
      BY <1>1, <1>2, <1>3, <3>1 DEF UpdateData, Bootable, Printed, Update!Handlers
  <2> QED
    BY <2>1, <2>2, <2>3
<1>5. ASSUME ~hurried PROVE Sound(flash', cache', queue', www')
  BY <1>2, <1>5 DEF UpdateInv
<1> QED
  BY Zenon, <1>2, <1>4, <1>5 DEF UpdateInv

(* After an activation the interface and the fingerprint are given up.      *)
LEMMA ResetStep == ASSUME BuildsAreBuilds, UpdateInv, Update!ResetCustomWww PROVE UpdateInv'
<1>1. UpdateData /\ Bootable /\ Printed /\ Update!None \in Update!Prints
  BY DEF UpdateInv, Update!Prints
<1>2. /\ handler = "reset" /\ handler' = "rebooting" /\ Update!Set(<<Update!TurnOff, Update!None>>)
      /\ UNCHANGED <<slots, boot, running, www, flash, hurried>>
  BY DEF Update!ResetCustomWww
<1>3. /\ queue' \in Seq(Update!Changes) /\ cache' \in Update!Settings
      /\ ~hurried => Sound(flash', cache', queue', www')
  BY <1>1, <1>2, OffAndPrint
<1>4. UpdateData' /\ Bootable' /\ Printed'
  BY <1>1, <1>2, <1>3 DEF UpdateData, Bootable, Printed, Update!Handlers
<1> QED
  BY Zenon, <1>2, <1>3, <1>4 DEF UpdateInv

(* The power is lost: memory is again what flash holds.                     *)
LEMMA RestartStep == ASSUME BuildsAreBuilds, UpdateInv, Update!Restart PROVE UpdateInv'
<1>1. UpdateData /\ Bootable /\ Printed
  BY DEF UpdateInv
<1>2. /\ running' = boot /\ handler' = "boot" /\ cache' = flash /\ queue' = <<>>
      /\ UNCHANGED <<slots, boot, www, flash, hurried>>
  BY DEF Update!Restart
<1>3. UpdateData' /\ Bootable' /\ Printed'
  BY <1>1, <1>2 DEF UpdateData, Bootable, Printed, Update!Handlers
<1>4. ASSUME ~hurried PROVE Sound(flash, flash, <<>>, www)
  <2>1. Sound(flash, cache, queue, www)
    BY <1>4 DEF UpdateInv
  <2> QED
    BY <2>1 DEF Sound, OnComesFirst, OffBeforePrint, PrintIsUploads, CustomIsAhead,
       PrintIsAhead, On, Off
<1> QED
  BY Zenon, <1>2, <1>3, <1>4 DEF UpdateInv

LEMMA FirmwareKeeps == BuildsAreBuilds /\ UpdateInv /\ [Update!Next]_(Update!vars) => UpdateInv'
<1> SUFFICES ASSUME BuildsAreBuilds, UpdateInv, [Update!Next]_(Update!vars) PROVE UpdateInv'
  OBVIOUS
<1>1. CASE Update!ApSwitches \/ UNCHANGED Update!vars
  BY Zenon, <1>1 DEF Update!ApSwitches, Update!vars, Update!stored, UpdateInv, UpdateData,
     Bootable, Printed
<1> QED
  BY Zenon, <1>1, SaveStep, BootStep, UploadStep, EndWwwStep, OtaStep, ResetStep,
     RestartStep
     DEF Update!Next

---------------------------------------------------------------------------
(* The data of the update and of the settings have their types.             *)
THEOREM UpdateTypes == ASSUME BuildsAreBuilds PROVE Update!Spec => []UpdateData
<1>1. Update!Init => UpdateInv
  BY FirmwareBegins
<1>2. UpdateInv /\ [Update!Next]_(Update!vars) => UpdateInv'
  BY FirmwareKeeps
<1>3. UpdateInv => UpdateData
  BY DEF UpdateInv
<1> QED
  BY <1>1, <1>2, <1>3, PTL DEF Update!Spec

(* The custom interface that is served was uploaded under the firmware that *)
(* runs, wherever updates and the saving of the settings were interrupted.  *)
THEOREM InterfaceMatchesFirmwareAlways ==
    ASSUME BuildsAreBuilds PROVE PartsSpec => []InterfaceMatchesFirmware
<1> DEFINE P == part = "update" => UpdateInv
<1>1. PartsInit => P
  BY Zenon, FirmwareBegins DEF PartsInit
<1>2. P /\ [PartsNext]_partsVars => P'
  BY Zenon, FirmwareKeeps DEF PartsNext, partsVars
<1>3. UpdateInv => Update!InterfaceMatchesFirmware
  <2> SUFFICES ASSUME UpdateInv PROVE Update!InterfaceMatchesFirmware
    OBVIOUS
  <2>1. UpdateData /\ Bootable /\ Printed
    BY DEF UpdateInv
  <2>2. slots[boot] # Update!Partial
    BY <2>1 DEF Bootable, BuildsAreBuilds
  <2>3. ASSUME handler = "idle", cache.custom, ~hurried
        PROVE  www \in {slots[running], Update!None, Update!Partial}
    <3>1. Sound(flash, cache, queue, www)
      BY <2>3 DEF UpdateInv
    <3>2. On(flash, queue) /\ ~Off(queue)
      BY <2>3, <3>1 DEF Sound, CustomIsAhead
    <3>3. \A i \in DOMAIN queue : queue[i] \notin Update!Prints
      BY <3>1, <3>2 DEF Sound, OffBeforePrint, Off
    <3>4. cache.fingerprint = flash.fingerprint
      BY <2>1, <3>1, <3>3 DEF Sound, PrintIsAhead, UpdateData, Update!Settings
    <3>5. cache.fingerprint = slots[running]
      BY <2>1, <2>3 DEF Printed
    <3> QED
      BY <3>1, <3>2, <3>4, <3>5 DEF Sound, PrintIsUploads
  <2> QED
    BY <2>2, <2>3 DEF Update!InterfaceMatchesFirmware
<1>4. P => InterfaceMatchesFirmware
  BY Zenon, <1>3 DEF InterfaceMatchesFirmware
<1> QED
  BY <1>1, <1>2, <1>4, PTL DEF PartsSpec

---------------------------------------------------------------------------
(* The station and the access point. The inductive invariant: which events  *)
(* about the station can be waiting, by what the driver's station is doing. *)
Waits(q, e) == \E i \in DOMAIN q : q[i] = e

(* After the start, and after a disconnection, the handler connects.        *)
Restarts(q) == Waits(q, "start") \/ Waits(q, "disconnected")
Progresses(q) == Waits(q, "connected") \/ Waits(q, "got ip") \/ Waits(q, "roaming")

IsRestart(e) == e \in {"start", "disconnected"}
IsProgress(e) == e \in {"connected", "got ip", "roaming"}

(* Nothing about the station follows an event that makes the handler        *)
(* connect.                                                                 *)
RestartIsLast(q) ==
    \A i \in DOMAIN q : IsRestart(q[i]) =>
        \A j \in DOMAIN q : j > i => ~IsRestart(q[j]) /\ ~IsProgress(q[j])

RestartIsIdle ==
    /\ Restarts(events) => link = "idle" /\ ~waiting
    /\ Waits(events, "start") => ~isConnected /\ ~Progresses(events)

(* An idle station waits for the handler, or the handler ignored it.        *)
IdleIsAwaited ==
    link = "idle" =>
        /\ waiting \/ gaveUp \/ Restarts(events)
        /\ Restarts(events) \/ ~Progresses(events)

WaitingIsIdle == waiting => link = "idle" /\ ~isConnected

TryingIsNew == link = "trying" => ~Progresses(events) /\ ~isConnected

AssociatedIsTimed ==
    link = "associated" =>
        /\ ~Waits(events, "got ip") /\ ~Waits(events, "roaming") /\ ~isConnected
        /\ armed \/ gaveUp \/ Waits(events, "connected")

OnlineIsKnown == link = "online" => isConnected \/ Waits(events, "got ip")

Station ==
    /\ RestartIsIdle /\ IdleIsAwaited /\ WaitingIsIdle /\ TryingIsNew /\ AssociatedIsTimed
    /\ OnlineIsKnown

(* What a device that is not connected opens, unless by hand.               *)
PointIsReachable == isConnected \in BOOLEAN /\ (byHand \/ ap = ~isConnected)

Links == {"idle", "trying", "associated", "online"}
StationData == link \in Links /\ events \in Seq(Wifi!Kinds)

StationInv == StationData /\ RestartIsLast(events) /\ Station /\ PointIsReachable

---------------------------------------------------------------------------
(* The queue of events                                                      *)

(* An event is posted.                                                      *)
LEMMA PostOne ==
    ASSUME NEW q \in Seq(Wifi!Kinds), NEW e \in Wifi!Kinds
    PROVE  /\ q \o <<e>> \in Seq(Wifi!Kinds)
           /\ \A x : Waits(q \o <<e>>, x) <=> Waits(q, x) \/ x = e
           /\ RestartIsLast(q) /\ (IsRestart(e) \/ IsProgress(e) => ~Restarts(q))
                => RestartIsLast(q \o <<e>>)
<1> DEFINE r == q \o <<e>>
<1>1. <<e>> \in Seq(Wifi!Kinds) /\ Len(<<e>>) = 1 /\ <<e>>[1] = e
  OBVIOUS
<1>2. /\ r \in Seq(Wifi!Kinds) /\ Len(r) = Len(q) + 1 /\ r[Len(q) + 1] = e
      /\ \A i \in 1..Len(q) : r[i] = q[i]
      /\ DOMAIN r = 1..(Len(q) + 1) /\ DOMAIN q = 1..Len(q) /\ Len(q) \in Nat
  BY <1>1, ConcatProperties
<1> HIDE DEF r
<1>3. \A x : Waits(r, x) <=> Waits(q, x) \/ x = e
  BY <1>2 DEF Waits
<1>4. ASSUME RestartIsLast(q), IsRestart(e) \/ IsProgress(e) => ~Restarts(q)
      PROVE  RestartIsLast(r)
  <2> SUFFICES ASSUME NEW i \in DOMAIN r, IsRestart(r[i]), NEW j \in DOMAIN r, j > i
               PROVE  ~IsRestart(r[j]) /\ ~IsProgress(r[j])
    BY DEF RestartIsLast
  <2>1. i \in DOMAIN q /\ r[i] = q[i]
    BY <1>2
  <2>2. Restarts(q)
    BY <2>1 DEF Restarts, Waits, IsRestart
  <2>3. CASE j = Len(q) + 1
    BY <1>2, <1>4, <2>2, <2>3
  <2>4. CASE j # Len(q) + 1
    <3>1. j \in DOMAIN q /\ r[j] = q[j]
      BY <1>2, <2>4
    <3> QED
      BY <1>4, <2>1, <3>1 DEF RestartIsLast
  <2> QED
    BY <2>3, <2>4
<1> QED
  BY <1>2, <1>3, <1>4 DEF r

(* The handler takes the first event.                                       *)
LEMMA TakeOne ==
    ASSUME NEW q \in Seq(Wifi!Kinds), q # <<>>
    PROVE  /\ Tail(q) \in Seq(Wifi!Kinds) /\ Head(q) \in Wifi!Kinds
           /\ \A x : Waits(q, x) <=> Head(q) = x \/ Waits(Tail(q), x)
           /\ RestartIsLast(q) =>
                /\ RestartIsLast(Tail(q))
                /\ IsRestart(Head(q)) => ~Restarts(Tail(q)) /\ ~Progresses(Tail(q))
<1> DEFINE r == Tail(q)
           h == Head(q)
<1>1. /\ r \in Seq(Wifi!Kinds) /\ h \in Wifi!Kinds /\ h = q[1] /\ Len(r) = Len(q) - 1
      /\ \A i \in 1..(Len(q) - 1) : r[i] = q[i + 1]
      /\ DOMAIN r = 1..(Len(q) - 1) /\ DOMAIN q = 1..Len(q)
      /\ Len(q) \in Nat /\ Len(q) # 0
  OBVIOUS
<1> HIDE DEF r, h
<1>2. ASSUME NEW x PROVE Waits(q, x) <=> h = x \/ Waits(r, x)
  <2>1. ASSUME Waits(q, x) PROVE h = x \/ Waits(r, x)
    <3>1. PICK i \in DOMAIN q : q[i] = x
      BY <2>1 DEF Waits
    <3>2. CASE i = 1
      BY <1>1, <3>1, <3>2
    <3>3. CASE i # 1
      <4>1. i - 1 \in DOMAIN r /\ r[i - 1] = x
        BY <1>1, <3>1, <3>3
      <4> QED
        BY <4>1 DEF Waits
    <3> QED
      BY <3>2, <3>3
  <2>2. ASSUME h = x \/ Waits(r, x) PROVE Waits(q, x)
    BY <1>1, <2>2 DEF Waits
  <2> QED
    BY <2>1, <2>2
<1>3. ASSUME RestartIsLast(q), NEW i \in DOMAIN r, IsRestart(r[i]),
             NEW j \in DOMAIN r, j > i
      PROVE  ~IsRestart(r[j]) /\ ~IsProgress(r[j])
  <2>1. /\ i + 1 \in DOMAIN q /\ q[i + 1] = r[i] /\ j + 1 \in DOMAIN q
        /\ q[j + 1] = r[j] /\ j + 1 > i + 1
    BY <1>1, <1>3
  <2> QED
    BY <1>3, <2>1 DEF RestartIsLast
<1>4. ASSUME RestartIsLast(q), IsRestart(h), NEW j \in DOMAIN r
      PROVE  ~IsRestart(r[j]) /\ ~IsProgress(r[j])
  <2>1. j + 1 \in DOMAIN q /\ q[j + 1] = r[j] /\ j + 1 > 1 /\ 1 \in DOMAIN q
    BY <1>1
  <2> QED
    BY <1>1, <1>4, <2>1 DEF RestartIsLast
<1>5. RestartIsLast(q) => RestartIsLast(r)
  BY <1>3 DEF RestartIsLast
<1>6. RestartIsLast(q) /\ IsRestart(h) => ~Restarts(r) /\ ~Progresses(r)
  BY <1>4 DEF Restarts, Progresses, Waits, IsRestart, IsProgress
<1> QED
  BY <1>1, <1>2, <1>5, <1>6 DEF r, h
---------------------------------------------------------------------------
(* The steps, by what they do to the queue                                  *)

(* The events about the station; those of the clients and of the scan are   *)
(* none.                                                                    *)
Same(q, r) ==
    /\ Waits(r, "start") <=> Waits(q, "start")
    /\ Waits(r, "disconnected") <=> Waits(q, "disconnected")
    /\ Waits(r, "connected") <=> Waits(q, "connected")
    /\ Waits(r, "got ip") <=> Waits(q, "got ip")
    /\ Waits(r, "roaming") <=> Waits(q, "roaming")

OneMore(q, r, e) ==
    /\ Waits(r, "start") <=> Waits(q, "start") \/ e = "start"
    /\ Waits(r, "disconnected") <=> Waits(q, "disconnected") \/ e = "disconnected"
    /\ Waits(r, "connected") <=> Waits(q, "connected") \/ e = "connected"
    /\ Waits(r, "got ip") <=> Waits(q, "got ip") \/ e = "got ip"
    /\ Waits(r, "roaming") <=> Waits(q, "roaming") \/ e = "roaming"

LEMMA Posted ==
    ASSUME StationData, RestartIsLast(events), NEW e \in Wifi!Kinds, events' = events \o <<e>>,
           IsRestart(e) \/ IsProgress(e) => ~Restarts(events)
    PROVE  events' \in Seq(Wifi!Kinds) /\ RestartIsLast(events') /\ OneMore(events, events', e)
<1>1. events \in Seq(Wifi!Kinds)
  BY DEF StationData
<1>2. /\ events \o <<e>> \in Seq(Wifi!Kinds) /\ RestartIsLast(events \o <<e>>)
      /\ \A x : Waits(events \o <<e>>, x) <=> Waits(events, x) \/ x = e
  BY <1>1, PostOne
<1> QED
  BY Zenon, <1>2 DEF OneMore

(* Three events are posted at once, none of which makes the handler connect.*)
LEMMA PostThree ==
    ASSUME NEW q \in Seq(Wifi!Kinds), NEW x \in Wifi!Kinds, NEW y \in Wifi!Kinds, NEW z \in Wifi!Kinds,
           ~IsRestart(x), ~IsRestart(y), ~IsRestart(z), ~Restarts(q)
    PROVE  LET r == q \o <<x, y, z>>
           IN  r \in Seq(Wifi!Kinds) /\ RestartIsLast(r) /\ ~Restarts(r) /\ Waits(r, z)
<1> DEFINE s == <<x, y, z>>
           r == q \o s
<1>1. Len(q) \in Nat /\ DOMAIN q = 1..Len(q)
  OBVIOUS
<1>2. s \in Seq(Wifi!Kinds) /\ Len(s) = 3 /\ s[1] = x /\ s[2] = y /\ s[3] = z
  OBVIOUS
<1> HIDE DEF s
<1>3. /\ r \in Seq(Wifi!Kinds) /\ Len(r) = Len(q) + Len(s)
      /\ \A i \in 1..(Len(q) + Len(s)) :
           r[i] = IF i <= Len(q) THEN q[i] ELSE s[i - Len(q)]
  BY <1>2, ConcatProperties
<1> HIDE DEF r
<1>4. DOMAIN r = 1..(Len(q) + 3)
  BY <1>1, <1>2, <1>3
<1>5. ASSUME NEW i \in DOMAIN r PROVE ~IsRestart(r[i])
  <2>1. CASE i \in DOMAIN q
    <3>1. r[i] = q[i]
      BY <1>1, <1>2, <1>3, <2>1
    <3> QED
      BY <2>1, <3>1 DEF Restarts, Waits, IsRestart
  <2>2. CASE i \notin DOMAIN q
    <3>1. r[i] = s[i - Len(q)] /\ i - Len(q) \in 1..3
      BY <1>1, <1>2, <1>3, <1>4, <1>5, <2>2
    <3>2. r[i] = s[1] \/ r[i] = s[2] \/ r[i] = s[3]
      BY <3>1
    <3> QED
      BY <1>2, <3>2
  <2> QED
    BY <2>1, <2>2
<1>6. RestartIsLast(r)
  BY <1>5 DEF RestartIsLast
<1>7. ~Restarts(r)
  BY <1>5 DEF Restarts, Waits, IsRestart
<1>8. Waits(r, z)
  <2>1. Len(q) + 3 \in DOMAIN r /\ r[Len(q) + 3] = s[3]
    BY <1>1, <1>2, <1>3, <1>4
  <2> QED
    BY <1>2, <2>1 DEF Waits
<1> QED
  BY <1>3, <1>6, <1>7, <1>8 DEF r, s

(* A roaming station is associated, and has an address, again.              *)
LEMMA PostedThree ==
    ASSUME StationData, ~Restarts(events),
           events' = events \o <<"roaming", "connected", "got ip">>
    PROVE  /\ events' \in Seq(Wifi!Kinds) /\ RestartIsLast(events')
           /\ ~Restarts(events') /\ Waits(events', "got ip")
<1>1. /\ "roaming" \in Wifi!Kinds /\ "connected" \in Wifi!Kinds /\ "got ip" \in Wifi!Kinds
      /\ ~IsRestart("roaming") /\ ~IsRestart("connected") /\ ~IsRestart("got ip")
  BY DEF Wifi!Kinds, IsRestart
<1>2. events \in Seq(Wifi!Kinds)
  BY DEF StationData
<1> QED
  BY Zenon, <1>1, <1>2, PostThree

LEMMA Taken ==
    ASSUME StationData, RestartIsLast(events), events # <<>>, events' = Tail(events)
    PROVE  /\ events' \in Seq(Wifi!Kinds) /\ RestartIsLast(events') /\ Head(events) \in Wifi!Kinds
           /\ OneMore(events', events, Head(events))
           /\ IsRestart(Head(events)) => ~Restarts(events') /\ ~Progresses(events')
<1>1. events \in Seq(Wifi!Kinds)
  BY DEF StationData
<1> DEFINE h == Head(events)
<1>2. /\ Tail(events) \in Seq(Wifi!Kinds) /\ h \in Wifi!Kinds /\ RestartIsLast(Tail(events))
      /\ \A x : Waits(events, x) <=> h = x \/ Waits(Tail(events), x)
      /\ IsRestart(h) => ~Restarts(Tail(events)) /\ ~Progresses(Tail(events))
  BY <1>1, TakeOne
<1> HIDE DEF h
<1>3. OneMore(Tail(events), events, h)
  BY Zenon, <1>2 DEF OneMore
<1> QED
  BY <1>2, <1>3 DEF h

(* An event is taken by the handler only.                                   *)
LEMMA EventIsFirst ==
    Wifi!Event # "none" => ~waiting /\ events # <<>> /\ Head(events) = Wifi!Event
BY DEF Wifi!Event

---------------------------------------------------------------------------
LEMMA StationBegins == Wifi!Init => StationInv
<1> SUFFICES ASSUME Wifi!Init PROVE StationInv
  OBVIOUS
<1>1. /\ link = "idle" /\ events = <<"start">>
  BY DEF Wifi!Init
<1>2. ~waiting /\ ~isConnected /\ ap = TRUE /\ isConnected = FALSE
  BY Zenon DEF Wifi!Init
<1>3. StationData
  BY <1>1 DEF StationData, Links, Wifi!Kinds
<1>4. DOMAIN events = {1} /\ events[1] = "start"
  BY <1>1
<1>5. RestartIsLast(events)
  BY <1>4 DEF RestartIsLast
<1>6. /\ Waits(events, "start") /\ ~Waits(events, "disconnected")
      /\ ~Waits(events, "connected") /\ ~Waits(events, "got ip") /\ ~Waits(events, "roaming")
  BY <1>4 DEF Waits
<1>7. Station
  BY <1>1, <1>2, <1>6 DEF Station, RestartIsIdle, IdleIsAwaited, WaitingIsIdle,
     TryingIsNew,
     AssociatedIsTimed, OnlineIsKnown, Restarts, Progresses
<1>8. PointIsReachable
  BY Zenon, <1>2 DEF PointIsReachable
<1> QED
  BY <1>3, <1>5, <1>7, <1>8 DEF StationInv

(* The driver's station moves, and the handler hears of it.                 *)
LEMMA AssociatesKeeps == StationInv /\ Wifi!Associates => StationInv'
<1> SUFFICES ASSUME StationInv, Wifi!Associates PROVE StationInv'
  OBVIOUS
<1>1. StationData /\ RestartIsLast(events) /\ Station /\ PointIsReachable
  BY DEF StationInv
<1>2. /\ link = "trying" /\ link' = "associated"
      /\ events' = events \o <<"connected">>
  BY DEF Wifi!Associates, Wifi!Posts
<1>3. UNCHANGED <<waiting, armed, isConnected, ap, byHand, gaveUp>>
  BY DEF Wifi!Associates, Wifi!Unchanged
<1>4. ~Restarts(events) /\ "connected" \in Wifi!Kinds
  BY <1>1, <1>2 DEF Station, RestartIsIdle, Wifi!Kinds
<1>5. /\ events' \in Seq(Wifi!Kinds) /\ RestartIsLast(events')
      /\ OneMore(events, events', "connected")
  BY <1>1, <1>2, <1>4, Posted
<1>6. StationData'
  BY <1>1, <1>2, <1>3, <1>4, <1>5 DEF StationData, Links
<1>7. Station'
  BY <1>1, <1>2, <1>3, <1>4, <1>5 DEF Station, RestartIsIdle, IdleIsAwaited,
     WaitingIsIdle,
     TryingIsNew, AssociatedIsTimed, OnlineIsKnown, Restarts, Progresses, OneMore
<1>8. PointIsReachable'
  BY Zenon, <1>1, <1>3 DEF PointIsReachable
<1> QED
  BY <1>1, <1>2, <1>3, <1>4, <1>5, <1>6, <1>7, <1>8 DEF StationInv

LEMMA GetsAddressKeeps == StationInv /\ Wifi!GetsAddress => StationInv'
<1> SUFFICES ASSUME StationInv, Wifi!GetsAddress PROVE StationInv'
  OBVIOUS
<1>1. StationData /\ RestartIsLast(events) /\ Station /\ PointIsReachable
  BY DEF StationInv
<1>2. /\ link = "associated" /\ link' = "online"
      /\ events' = events \o <<"got ip">>
  BY DEF Wifi!GetsAddress, Wifi!Posts
<1>3. UNCHANGED <<waiting, armed, isConnected, ap, byHand, gaveUp>>
  BY DEF Wifi!GetsAddress, Wifi!Unchanged
<1>4. ~Restarts(events) /\ "got ip" \in Wifi!Kinds
  BY <1>1, <1>2 DEF Station, RestartIsIdle, Wifi!Kinds
<1>5. /\ events' \in Seq(Wifi!Kinds) /\ RestartIsLast(events')
      /\ OneMore(events, events', "got ip")
  BY <1>1, <1>2, <1>4, Posted
<1>6. StationData'
  BY <1>1, <1>2, <1>3, <1>4, <1>5 DEF StationData, Links
<1>7. Station'
  BY <1>1, <1>2, <1>3, <1>4, <1>5 DEF Station, RestartIsIdle, IdleIsAwaited,
     WaitingIsIdle,
     TryingIsNew, AssociatedIsTimed, OnlineIsKnown, Restarts, Progresses, OneMore
<1>8. PointIsReachable'
  BY Zenon, <1>1, <1>3 DEF PointIsReachable
<1> QED
  BY <1>1, <1>2, <1>3, <1>4, <1>5, <1>6, <1>7, <1>8 DEF StationInv

LEMMA FailsKeeps == StationInv /\ Wifi!Fails => StationInv'
<1> SUFFICES ASSUME StationInv, Wifi!Fails PROVE StationInv'
  OBVIOUS
<1>1. StationData /\ RestartIsLast(events) /\ Station /\ PointIsReachable
  BY DEF StationInv
<1>2. /\ link # "idle" /\ link' = "idle"
      /\ events' = events \o <<"disconnected">>
  BY DEF Wifi!Fails, Wifi!Posts
<1>3. UNCHANGED <<waiting, armed, isConnected, ap, byHand, gaveUp>>
  BY DEF Wifi!Fails, Wifi!Unchanged
<1>4. ~Restarts(events) /\ "disconnected" \in Wifi!Kinds
  BY <1>1, <1>2 DEF Station, RestartIsIdle, Wifi!Kinds
<1>5. /\ events' \in Seq(Wifi!Kinds) /\ RestartIsLast(events')
      /\ OneMore(events, events', "disconnected")
  BY <1>1, <1>2, <1>4, Posted
<1>6. StationData'
  BY <1>1, <1>2, <1>3, <1>4, <1>5 DEF StationData, Links
<1>7. Station'
  BY <1>1, <1>2, <1>3, <1>4, <1>5 DEF Station, RestartIsIdle, IdleIsAwaited,
     WaitingIsIdle,
     TryingIsNew, AssociatedIsTimed, OnlineIsKnown, Restarts, Progresses, OneMore
<1>8. PointIsReachable'
  BY Zenon, <1>1, <1>3 DEF PointIsReachable
<1> QED
  BY <1>1, <1>2, <1>3, <1>4, <1>5, <1>6, <1>7, <1>8 DEF StationInv

LEMMA RoamsKeeps == StationInv /\ Wifi!Roams => StationInv'
<1> SUFFICES ASSUME StationInv, Wifi!Roams PROVE StationInv'
  OBVIOUS
<1>1. StationData /\ RestartIsLast(events) /\ Station /\ PointIsReachable
  BY DEF StationInv
<1>2. /\ link = "online" /\ link' = link
      /\ events' = events \o <<"roaming", "connected", "got ip">>
  BY DEF Wifi!Roams, Wifi!Posts
<1>3. UNCHANGED <<waiting, armed, isConnected, ap, byHand, gaveUp>>
  BY DEF Wifi!Roams, Wifi!Unchanged
<1>4. ~Restarts(events)
  BY <1>1, <1>2 DEF Station, RestartIsIdle
<1>5. /\ events' \in Seq(Wifi!Kinds) /\ RestartIsLast(events')
      /\ ~Restarts(events') /\ Waits(events', "got ip")
  BY <1>1, <1>2, <1>4, PostedThree
<1>6. StationData'
  BY <1>1, <1>2, <1>3, <1>4, <1>5 DEF StationData, Links
<1>7. Station'
  BY <1>1, <1>2, <1>3, <1>4, <1>5 DEF Station, RestartIsIdle, IdleIsAwaited,
     WaitingIsIdle,
     TryingIsNew, AssociatedIsTimed, OnlineIsKnown, Restarts, Progresses, OneMore
<1>8. PointIsReachable'
  BY Zenon, <1>1, <1>3 DEF PointIsReachable
<1> QED
  BY <1>1, <1>2, <1>3, <1>4, <1>5, <1>6, <1>7, <1>8 DEF StationInv

(* The station is told to disconnect, and so are the waiting: the handler   *)
(* hears of it.                                                             *)
LEMMA DisconnectsKeeps ==
    ASSUME StationInv, Wifi!Disconnects,
           UNCHANGED <<waiting, isConnected, ap, byHand, gaveUp>>
    PROVE  StationInv'
<1>1. StationData /\ RestartIsLast(events) /\ Station /\ PointIsReachable
  BY DEF StationInv
<1>2. PointIsReachable'
  BY Zenon, <1>1 DEF PointIsReachable
<1>3. CASE link = "idle"
  <2>1. UNCHANGED <<link, events>>
    BY <1>3 DEF Wifi!Disconnects
  <2>2. StationData' /\ RestartIsLast(events)' /\ Station'
    BY <1>1, <1>3, <2>1 DEF StationData, Station, RestartIsIdle, IdleIsAwaited,
       WaitingIsIdle,
       TryingIsNew, AssociatedIsTimed, OnlineIsKnown
  <2> QED
    BY <1>2, <2>2 DEF StationInv
<1>4. CASE link # "idle"
  <2>1. link' = "idle" /\ events' = events \o <<"disconnected">>
    BY <1>4 DEF Wifi!Disconnects, Wifi!Posts
  <2>2. ~Restarts(events) /\ "disconnected" \in Wifi!Kinds
    BY <1>1, <1>4 DEF Station, RestartIsIdle, Wifi!Kinds
  <2>3. /\ events' \in Seq(Wifi!Kinds) /\ RestartIsLast(events')
        /\ OneMore(events, events', "disconnected")
    BY <1>1, <2>1, <2>2, Posted
  <2>4. StationData'
    BY <2>1, <2>3 DEF StationData, Links
  <2>5. Station'
    BY <1>1, <1>4, <2>1, <2>2, <2>3 DEF Station, RestartIsIdle, IdleIsAwaited,
       WaitingIsIdle,
       TryingIsNew, AssociatedIsTimed, OnlineIsKnown, Restarts, Progresses, OneMore
  <2> QED
    BY <1>2, <2>3, <2>4, <2>5 DEF StationInv
<1> QED
  BY <1>3, <1>4

(* An event that is not about the station is posted.                        *)
LEMMA OthersPostKeeps == StationInv /\ (Wifi!ClientMoves \/ Wifi!ScanDone) => StationInv'
<1> SUFFICES ASSUME StationInv, (Wifi!ClientMoves \/ Wifi!ScanDone) PROVE StationInv'
  OBVIOUS
<1>1. StationData /\ RestartIsLast(events) /\ Station /\ PointIsReachable
  BY DEF StationInv
<1>2. \E e \in {"client joins", "client leaves", "scan done"} :
         events' = events \o <<e>> /\ link' = link
  BY DEF Wifi!ClientMoves, Wifi!ScanDone, Wifi!Posts
<1>3. UNCHANGED <<waiting, armed, isConnected, ap, byHand, gaveUp>>
  BY DEF Wifi!ClientMoves, Wifi!ScanDone, Wifi!Unchanged
<1>4. PICK e \in {"client joins", "client leaves", "scan done"} :
         events' = events \o <<e>> /\ link' = link
  BY <1>2
<1>5. e \in Wifi!Kinds /\ ~IsRestart(e) /\ ~IsProgress(e)
  BY <1>4 DEF Wifi!Kinds, IsRestart, IsProgress
<1>6. /\ events' \in Seq(Wifi!Kinds) /\ RestartIsLast(events')
      /\ OneMore(events, events', e)
  BY Zenon, <1>1, <1>4, <1>5, Posted
<1>7. StationData'
  BY <1>1, <1>2, <1>3, <1>4, <1>5, <1>6 DEF StationData, Links
<1>8. Station'
  BY <1>1, <1>2, <1>3, <1>4, <1>5, <1>6 DEF Station, RestartIsIdle, IdleIsAwaited,
     WaitingIsIdle,
     TryingIsNew, AssociatedIsTimed, OnlineIsKnown, Restarts, Progresses, OneMore
<1>9. PointIsReachable'
  BY Zenon, <1>1, <1>3 DEF PointIsReachable
<1> QED
  BY <1>1, <1>2, <1>3, <1>4, <1>5, <1>6, <1>7, <1>8, <1>9 DEF StationInv

(* The handler takes an event.                                              *)
LEMMA SeesScanDoneKeeps == StationInv /\ Wifi!SeesScanDone => StationInv'
<1> SUFFICES ASSUME StationInv, Wifi!SeesScanDone PROVE StationInv'
  OBVIOUS
<1>1. StationData /\ RestartIsLast(events) /\ Station /\ PointIsReachable
  BY DEF StationInv
<1>2. /\ ~waiting /\ events # <<>> /\ events' = Tail(events)
      /\ Head(events) = Wifi!Event /\ Wifi!Event \in {"scan done"} /\ link' = link
  <2>1. Wifi!Event \in {"scan done"} /\ events' = Tail(events) /\ link' = link
    BY Zenon DEF Wifi!SeesScanDone, Wifi!Takes
  <2>2. Wifi!Event # "none"
    BY <2>1
  <2> QED
    BY Zenon, <2>1, <2>2, EventIsFirst
<1>3. UNCHANGED <<waiting, armed, isConnected, ap, byHand, gaveUp>>
  BY Zenon DEF Wifi!SeesScanDone
<1>4. /\ events' \in Seq(Wifi!Kinds) /\ RestartIsLast(events') /\ Head(events) \in Wifi!Kinds
      /\ OneMore(events', events, Head(events))
      /\ IsRestart(Head(events)) => ~Restarts(events') /\ ~Progresses(events')
  BY <1>1, <1>2, Taken
<1>5. IsRestart(Head(events)) <=> Head(events) \in {"start", "disconnected"}
  BY DEF IsRestart
<1>6. StationData'
  BY <1>1, <1>2, <1>3, <1>4, <1>5 DEF StationData, Links
<1>7. Station'
  BY <1>1, <1>2, <1>3, <1>4, <1>5 DEF Station, RestartIsIdle, IdleIsAwaited,
     WaitingIsIdle,
     TryingIsNew, AssociatedIsTimed, OnlineIsKnown, Restarts, Progresses, OneMore
<1>8. PointIsReachable'
  BY Zenon, <1>1, <1>3 DEF PointIsReachable
<1> QED
  BY <1>1, <1>2, <1>3, <1>4, <1>5, <1>6, <1>7, <1>8 DEF StationInv

LEMMA IgnoresKeeps == StationInv /\ Wifi!Ignores => StationInv'
<1> SUFFICES ASSUME StationInv, Wifi!Ignores PROVE StationInv'
  OBVIOUS
<1>1. StationData /\ RestartIsLast(events) /\ Station /\ PointIsReachable
  BY DEF StationInv
<1>2. /\ ~waiting /\ events # <<>> /\ events' = Tail(events)
      /\ Head(events) = Wifi!Event /\ link' = link
      /\ Wifi!Event \in {"start", "connected", "disconnected", "roaming", "client joins",
                    "client leaves"}
  <2>1. /\ Wifi!Event \in {"start", "connected", "disconnected", "roaming", "client joins",
                       "client leaves"}
        /\ events' = Tail(events) /\ link' = link
    BY Zenon DEF Wifi!Ignores, Wifi!Takes, Wifi!Kinds
  <2>2. Wifi!Event # "none"
    BY <2>1
  <2> QED
    BY Zenon, <2>1, <2>2, EventIsFirst
<1>3. /\ UNCHANGED <<waiting, armed, isConnected, ap, byHand>>
      /\ gaveUp => gaveUp'
      /\ Wifi!Event \in {"start", "connected", "disconnected"} => gaveUp'
  BY Zenon DEF Wifi!Ignores
<1>4. /\ events' \in Seq(Wifi!Kinds) /\ RestartIsLast(events') /\ Head(events) \in Wifi!Kinds
      /\ OneMore(events', events, Head(events))
      /\ IsRestart(Head(events)) => ~Restarts(events') /\ ~Progresses(events')
  BY <1>1, <1>2, Taken
<1>5. IsRestart(Head(events)) <=> Head(events) \in {"start", "disconnected"}
  BY DEF IsRestart
<1>6. StationData'
  BY <1>1, <1>2, <1>3, <1>4, <1>5 DEF StationData, Links
<1>7. Station'
  BY <1>1, <1>2, <1>3, <1>4, <1>5 DEF Station, RestartIsIdle, IdleIsAwaited,
     WaitingIsIdle,
     TryingIsNew, AssociatedIsTimed, OnlineIsKnown, Restarts, Progresses, OneMore
<1>8. PointIsReachable'
  BY Zenon, <1>1, <1>3 DEF PointIsReachable
<1> QED
  BY <1>1, <1>2, <1>3, <1>4, <1>5, <1>6, <1>7, <1>8 DEF StationInv

LEMMA StartsKeeps == StationInv /\ Wifi!Starts => StationInv'
<1> SUFFICES ASSUME StationInv, Wifi!Starts PROVE StationInv'
  OBVIOUS
<1>1. StationData /\ RestartIsLast(events) /\ Station /\ PointIsReachable
  BY DEF StationInv
<1>2. /\ ~waiting /\ events # <<>> /\ events' = Tail(events)
      /\ Head(events) = Wifi!Event /\ Wifi!Event \in {"start"} /\ link' = "trying"
  <2>1. Wifi!Event \in {"start"} /\ events' = Tail(events) /\ link' = "trying"
    BY Zenon DEF Wifi!Starts, Wifi!Takes
  <2>2. Wifi!Event # "none"
    BY <2>1
  <2> QED
    BY Zenon, <2>1, <2>2, EventIsFirst
<1>3. UNCHANGED <<waiting, armed, isConnected, ap, byHand, gaveUp>>
  BY Zenon DEF Wifi!Starts
<1>4. /\ events' \in Seq(Wifi!Kinds) /\ RestartIsLast(events') /\ Head(events) \in Wifi!Kinds
      /\ OneMore(events', events, Head(events))
      /\ IsRestart(Head(events)) => ~Restarts(events') /\ ~Progresses(events')
  BY <1>1, <1>2, Taken
<1>5. IsRestart(Head(events)) <=> Head(events) \in {"start", "disconnected"}
  BY DEF IsRestart
<1>6. StationData'
  BY <1>1, <1>2, <1>3, <1>4, <1>5 DEF StationData, Links
<1>7. Station'
  BY <1>1, <1>2, <1>3, <1>4, <1>5 DEF Station, RestartIsIdle, IdleIsAwaited,
     WaitingIsIdle,
     TryingIsNew, AssociatedIsTimed, OnlineIsKnown, Restarts, Progresses, OneMore
<1>8. PointIsReachable'
  BY Zenon, <1>1, <1>3 DEF PointIsReachable
<1> QED
  BY <1>1, <1>2, <1>3, <1>4, <1>5, <1>6, <1>7, <1>8 DEF StationInv

LEMMA IsConnectedKeeps == StationInv /\ Wifi!IsConnected => StationInv'
<1> SUFFICES ASSUME StationInv, Wifi!IsConnected PROVE StationInv'
  OBVIOUS
<1>1. StationData /\ RestartIsLast(events) /\ Station /\ PointIsReachable
  BY DEF StationInv
<1>2. /\ ~waiting /\ events # <<>> /\ events' = Tail(events)
      /\ Head(events) = Wifi!Event /\ Wifi!Event \in {"connected"} /\ link' = link
  <2>1. Wifi!Event \in {"connected"} /\ events' = Tail(events) /\ link' = link
    BY Zenon DEF Wifi!IsConnected, Wifi!Takes
  <2>2. Wifi!Event # "none"
    BY <2>1
  <2> QED
    BY Zenon, <2>1, <2>2, EventIsFirst
<1>3. /\ UNCHANGED <<waiting, isConnected, ap, byHand, gaveUp>>
      /\ armed'
  BY Zenon DEF Wifi!IsConnected, Wifi!Armed
<1>4. /\ events' \in Seq(Wifi!Kinds) /\ RestartIsLast(events') /\ Head(events) \in Wifi!Kinds
      /\ OneMore(events', events, Head(events))
      /\ IsRestart(Head(events)) => ~Restarts(events') /\ ~Progresses(events')
  BY <1>1, <1>2, Taken
<1>5. IsRestart(Head(events)) <=> Head(events) \in {"start", "disconnected"}
  BY DEF IsRestart
<1>6. StationData'
  BY <1>1, <1>2, <1>3, <1>4, <1>5 DEF StationData, Links
<1>7. Station'
  BY <1>1, <1>2, <1>3, <1>4, <1>5 DEF Station, RestartIsIdle, IdleIsAwaited,
     WaitingIsIdle,
     TryingIsNew, AssociatedIsTimed, OnlineIsKnown, Restarts, Progresses, OneMore
<1>8. PointIsReachable'
  BY Zenon, <1>1, <1>3 DEF PointIsReachable
<1> QED
  BY <1>1, <1>2, <1>3, <1>4, <1>5, <1>6, <1>7, <1>8 DEF StationInv

(* A disconnection is left alone, or answered after five seconds.           *)
LEMMA IsDisconnectedKeeps == StationInv /\ Wifi!IsDisconnected => StationInv'
<1> SUFFICES ASSUME StationInv, Wifi!IsDisconnected PROVE StationInv'
  OBVIOUS
<1>1. StationData /\ RestartIsLast(events) /\ Station /\ PointIsReachable
  BY DEF StationInv
<1>2. /\ ~waiting /\ events # <<>> /\ events' = Tail(events)
      /\ Head(events) = Wifi!Event /\ Wifi!Event \in {"disconnected", "roaming"} /\ link' = link
  <2>1. Wifi!Event \in {"disconnected", "roaming"} /\ events' = Tail(events) /\ link' = link
    BY Zenon DEF Wifi!IsDisconnected, Wifi!Takes
  <2>2. Wifi!Event # "none"
    BY <2>1
  <2> QED
    BY Zenon, <2>1, <2>2, EventIsFirst
<1>3. armed' = armed
  BY Zenon DEF Wifi!IsDisconnected
<1>4. /\ events' \in Seq(Wifi!Kinds) /\ RestartIsLast(events') /\ Head(events) \in Wifi!Kinds
      /\ OneMore(events', events, Head(events))
      /\ IsRestart(Head(events)) => ~Restarts(events') /\ ~Progresses(events')
  BY <1>1, <1>2, Taken
<1>5. IsRestart(Head(events)) <=> Head(events) \in {"start", "disconnected"}
  BY DEF IsRestart
<1>6. StationData'
  BY <1>1, <1>2, <1>4 DEF StationData
<1>7. CASE Wifi!StaysAway
  <2>1. /\ UNCHANGED <<waiting, isConnected, ap, byHand>> /\ (gaveUp => gaveUp')
        /\ Wifi!Event = "disconnected" => gaveUp'
    BY Zenon, <1>7 DEF Wifi!IsDisconnected
  <2>2. Station'
    BY <1>1, <1>2, <1>3, <1>4, <1>5, <2>1 DEF Station, RestartIsIdle, IdleIsAwaited,
       WaitingIsIdle, TryingIsNew, AssociatedIsTimed, OnlineIsKnown, Restarts,
       Progresses, OneMore
  <2>3. PointIsReachable'
    BY Zenon, <1>1, <2>1 DEF PointIsReachable
  <2> QED
    BY <1>4, <1>6, <2>2, <2>3 DEF StationInv
<1>8. CASE ~Wifi!StaysAway
  <2>1. waiting' /\ isConnected' = FALSE /\ ap' = TRUE
    BY Zenon, <1>8 DEF Wifi!IsDisconnected
  <2>2. ~isConnected' /\ Wifi!Event = "disconnected"
    BY Zenon, <1>2, <1>8, <2>1 DEF Wifi!StaysAway
  <2>3. Station'
    BY <1>1, <1>2, <1>4, <1>5, <2>1, <2>2 DEF Station, RestartIsIdle, IdleIsAwaited,
       WaitingIsIdle, TryingIsNew, AssociatedIsTimed, OnlineIsKnown, Restarts,
       Progresses, OneMore
  <2>4. PointIsReachable'
    BY Zenon, <2>1 DEF PointIsReachable
  <2> QED
    BY <1>4, <1>6, <2>3, <2>4 DEF StationInv
<1> QED
  BY <1>7, <1>8

LEMMA GotIpKeeps == StationInv /\ Wifi!GotIp => StationInv'
<1> SUFFICES ASSUME StationInv, Wifi!GotIp PROVE StationInv'
  OBVIOUS
<1>1. StationData /\ RestartIsLast(events) /\ Station /\ PointIsReachable
  BY DEF StationInv
<1>2. /\ ~waiting /\ events # <<>> /\ events' = Tail(events)
      /\ Head(events) = Wifi!Event /\ Wifi!Event \in {"got ip"} /\ link' = link
  <2>1. Wifi!Event \in {"got ip"} /\ events' = Tail(events) /\ link' = link
    BY Zenon DEF Wifi!GotIp, Wifi!Takes
  <2>2. Wifi!Event # "none"
    BY <2>1
  <2> QED
    BY Zenon, <2>1, <2>2, EventIsFirst
<1>3. /\ waiting' = waiting /\ isConnected' /\ ap' = ~isConnected'
      /\ isConnected' \in BOOLEAN
  BY Zenon DEF Wifi!GotIp
<1>4. /\ events' \in Seq(Wifi!Kinds) /\ RestartIsLast(events') /\ Head(events) \in Wifi!Kinds
      /\ OneMore(events', events, Head(events))
      /\ IsRestart(Head(events)) => ~Restarts(events') /\ ~Progresses(events')
  BY <1>1, <1>2, Taken
<1>5. IsRestart(Head(events)) <=> Head(events) \in {"start", "disconnected"}
  BY DEF IsRestart
<1>6. StationData'
  BY <1>1, <1>2, <1>3, <1>4, <1>5 DEF StationData, Links
<1>7. Station'
  BY <1>1, <1>2, <1>3, <1>4, <1>5 DEF Station, RestartIsIdle, IdleIsAwaited,
     WaitingIsIdle,
     TryingIsNew, AssociatedIsTimed, OnlineIsKnown, Restarts, Progresses, OneMore
<1>8. PointIsReachable'
  BY Zenon, <1>1, <1>3 DEF PointIsReachable
<1> QED
  BY <1>1, <1>2, <1>3, <1>4, <1>5, <1>6, <1>7, <1>8 DEF StationInv

LEMMA CountsClientsKeeps == StationInv /\ Wifi!CountsClients => StationInv'
<1> SUFFICES ASSUME StationInv, Wifi!CountsClients PROVE StationInv'
  OBVIOUS
<1>1. StationData /\ RestartIsLast(events) /\ Station /\ PointIsReachable
  BY DEF StationInv
<1>2. /\ ~waiting /\ events # <<>> /\ events' = Tail(events)
      /\ Head(events) = Wifi!Event /\ Wifi!Event \in {"client joins", "client leaves"} /\ link' = link
  <2>1. Wifi!Event \in {"client joins", "client leaves"} /\ events' = Tail(events) /\ link' = link
    BY Zenon DEF Wifi!CountsClients, Wifi!Takes
  <2>2. Wifi!Event # "none"
    BY <2>1
  <2> QED
    BY Zenon, <2>1, <2>2, EventIsFirst
<1>3. UNCHANGED <<waiting, armed, isConnected, ap, byHand, gaveUp>>
  BY Zenon DEF Wifi!CountsClients
<1>4. /\ events' \in Seq(Wifi!Kinds) /\ RestartIsLast(events') /\ Head(events) \in Wifi!Kinds
      /\ OneMore(events', events, Head(events))
      /\ IsRestart(Head(events)) => ~Restarts(events') /\ ~Progresses(events')
  BY <1>1, <1>2, Taken
<1>5. IsRestart(Head(events)) <=> Head(events) \in {"start", "disconnected"}
  BY DEF IsRestart
<1>6. StationData'
  BY <1>1, <1>2, <1>3, <1>4, <1>5 DEF StationData, Links
<1>7. Station'
  BY <1>1, <1>2, <1>3, <1>4, <1>5 DEF Station, RestartIsIdle, IdleIsAwaited,
     WaitingIsIdle,
     TryingIsNew, AssociatedIsTimed, OnlineIsKnown, Restarts, Progresses, OneMore
<1>8. PointIsReachable'
  BY Zenon, <1>1, <1>3 DEF PointIsReachable
<1> QED
  BY <1>1, <1>2, <1>3, <1>4, <1>5, <1>6, <1>7, <1>8 DEF StationInv

(* The five seconds before a retry are over.                                *)
LEMMA RetriesKeeps == StationInv /\ Wifi!Retries => StationInv'
<1> SUFFICES ASSUME StationInv, Wifi!Retries PROVE StationInv'
  OBVIOUS
<1>1. StationData /\ RestartIsLast(events) /\ Station /\ PointIsReachable
  BY DEF StationInv
<1>2. link' = "trying" /\ events' = events
  BY DEF Wifi!Retries
<1>3. /\ waiting /\ ~waiting'
      /\ UNCHANGED <<isConnected, ap, byHand>>
  BY Zenon DEF Wifi!Retries
<1>4. StationData'
  BY <1>1, <1>2, <1>3 DEF StationData, Links
<1>5. Station'
  BY <1>1, <1>2, <1>3 DEF Station, RestartIsIdle, IdleIsAwaited, WaitingIsIdle,
     TryingIsNew, AssociatedIsTimed, OnlineIsKnown, Restarts, Progresses, OneMore
<1>6. PointIsReachable'
  BY Zenon, <1>1, <1>3 DEF PointIsReachable
<1> QED
  BY <1>1, <1>2, <1>3, <1>4, <1>5, <1>6 DEF StationInv

(* No address came in time.                                                 *)
LEMMA IpTimeoutKeeps == StationInv /\ Wifi!IpTimeout => StationInv'
<1> SUFFICES ASSUME StationInv, Wifi!IpTimeout PROVE StationInv'
  OBVIOUS
<1>1. UNCHANGED <<waiting, isConnected, ap, byHand, gaveUp>>
  BY DEF Wifi!IpTimeout
<1>2. CASE isConnected
  <2>1. UNCHANGED <<link, events>>
    BY <1>2 DEF Wifi!IpTimeout
  <2>2. StationData' /\ RestartIsLast(events)' /\ Station'
    BY <1>1, <1>2, <2>1 DEF StationInv, StationData, Station, RestartIsIdle,
       IdleIsAwaited,
       WaitingIsIdle,
       TryingIsNew, AssociatedIsTimed, OnlineIsKnown
  <2>3. PointIsReachable'
    BY Zenon, <1>1 DEF StationInv, PointIsReachable
  <2> QED
    BY <2>2, <2>3 DEF StationInv
<1>3. CASE ~isConnected
  <2>1. Wifi!Disconnects
    BY <1>3 DEF Wifi!IpTimeout
  <2> QED
    BY <1>1, <2>1, DisconnectsKeeps
<1> QED
  BY <1>2, <1>3

(* The rest leaves the events, the station and what is told of it alone.    *)
LEMMA RestKeeps ==
    ASSUME StationInv, UNCHANGED <<link, events, waiting, armed, isConnected, gaveUp>>,
           byHand' \/ UNCHANGED <<ap, byHand>>
    PROVE  StationInv'
<1>1. StationData' /\ RestartIsLast(events)' /\ Station'
  BY DEF StationInv, StationData, Station, RestartIsIdle, IdleIsAwaited, WaitingIsIdle,
     TryingIsNew,
     AssociatedIsTimed, OnlineIsKnown
<1>2. PointIsReachable'
  BY Zenon DEF StationInv, PointIsReachable
<1> QED
  BY <1>1, <1>2 DEF StationInv

LEMMA ScanBeginsKeeps == StationInv /\ Wifi!ScanBegins => StationInv'
<1> SUFFICES ASSUME StationInv, Wifi!ScanBegins PROVE StationInv'
  OBVIOUS
<1>1. UNCHANGED <<waiting, armed, isConnected, ap, byHand, gaveUp>>
  BY DEF Wifi!ScanBegins
<1>2. UNCHANGED <<link, events>> \/ Wifi!Disconnects
  BY DEF Wifi!ScanBegins
<1>3. CASE UNCHANGED <<link, events>>
  BY <1>1, <1>3, RestKeeps
<1>4. CASE Wifi!Disconnects
  BY <1>1, <1>4, DisconnectsKeeps
<1> QED
  BY <1>2, <1>3, <1>4

LEMMA StationKeeps == StationInv /\ [Wifi!Next]_(Wifi!vars) => StationInv'
<1> SUFFICES ASSUME StationInv, [Wifi!Next]_(Wifi!vars) PROVE StationInv'
  OBVIOUS
<1>1. CASE Wifi!Toggle \/ Wifi!ScanStarts \/ Wifi!ScanEnds \/ UNCHANGED Wifi!vars
  BY Zenon, <1>1, RestKeeps DEF Wifi!Toggle, Wifi!ScanStarts, Wifi!ScanEnds, Wifi!vars
<1> QED
  BY Zenon, <1>1, AssociatesKeeps, GetsAddressKeeps, FailsKeeps, RoamsKeeps,
     OthersPostKeeps,
     SeesScanDoneKeeps, IgnoresKeeps, StartsKeeps, IsConnectedKeeps, IsDisconnectedKeeps,
     RetriesKeeps, GotIpKeeps, CountsClientsKeeps, IpTimeoutKeeps, ScanBeginsKeeps
     DEF Wifi!Next

---------------------------------------------------------------------------
(* The station is in one of its four states, and only events of the driver  *)
(* and of the stations at the access point are waiting.                     *)
THEOREM ConnectionTypes == Wifi!Spec => []StationData
<1>1. StationInv => StationData
  BY DEF StationInv
<1> QED
  BY <1>1, StationBegins, StationKeeps, PTL DEF Wifi!Spec

(* Once all events are handled, unless one was ignored, the station is      *)
(* connected or on its way, and the access point open when it is needed.    *)
THEOREM NetworkIsKeptAlways == PartsSpec => []NetworkIsKept
<1> DEFINE P == part = "wifi" => StationInv
<1>1. PartsInit => P
  BY Zenon, StationBegins DEF PartsInit
<1>2. P /\ [PartsNext]_partsVars => P'
  BY Zenon, StationKeeps DEF PartsNext, partsVars
<1>3. StationInv => Wifi!NetworkIsKept
  <2> SUFFICES ASSUME StationInv, Wifi!Quiet, ~gaveUp
               PROVE  /\ link # "idle" /\ isConnected = (link = "online")
                      /\ link = "associated" => armed
                      /\ byHand \/ ap = ~isConnected
    BY Zenon DEF Wifi!NetworkIsKept
  <2>1. events = <<>> /\ ~waiting
    BY Zenon DEF Wifi!Quiet
  <2>2. /\ ~Waits(events, "start") /\ ~Waits(events, "disconnected")
        /\ ~Waits(events, "connected") /\ ~Waits(events, "got ip")
    BY <2>1 DEF Waits
  <2>3. /\ link # "idle" /\ (link = "associated" => armed)
        /\ link = "online" => isConnected
        /\ link \in {"trying", "associated"} => ~isConnected
    BY <2>1, <2>2 DEF StationInv, Station, IdleIsAwaited, TryingIsNew, AssociatedIsTimed,
       OnlineIsKnown, Restarts
  <2>4. isConnected <=> link = "online"
    BY <2>3 DEF StationInv, StationData, Links
  <2>5. isConnected \in BOOLEAN /\ (byHand \/ ap = ~isConnected)
    BY Zenon DEF StationInv, PointIsReachable
  <2> QED
    BY Zenon, <2>3, <2>4, <2>5
<1>4. P => NetworkIsKept
  BY Zenon, <1>3 DEF NetworkIsKept
<1> QED
  BY <1>1, <1>2, <1>4, PTL DEF PartsSpec

---------------------------------------------------------------------------
(* A position is in a slot of a round.                                      *)
LEMMA HasRound ==
    ASSUME NEW n \in Nat, n > 0, NEW a \in Int
    PROVE  a % n \in 0..(n - 1) /\ \E k \in Int : a = n * k + (a % n)
<1>1. a % n \in 0..(n - 1) /\ a \div n \in Int
  BY SMT
<1>2. a = n * (a \div n) + (a % n)
  BY SMT
<1>3. \E k \in Int : a = n * k + (a % n)
  <2> WITNESS a \div n \in Int
  <2> QED
    BY <1>2
<1> QED
  BY <1>1, <1>3

LEMMA SlotInRound ==
    ASSUME NEW n \in Nat, n > 0, NEW k \in Int, NEW i \in 0..(n - 1)
    PROVE  (n * k + i) % n = i
<1>1. n * k + i \in Int
  OBVIOUS
<1>2. \A a \in Int : a = k * n + i => a % n = i
  BY SMT
<1> QED
  BY <1>1, <1>2

(* Two positions in one slot are a whole round apart.                       *)
LEMMA ARoundApart ==
    ASSUME NEW n \in Nat, n > 0, NEW a \in Int, NEW b \in Int, a < b, a % n = b % n
    PROVE  a + n <= b
<1>1. PICK k \in Int : a = n * k + (a % n)
  BY HasRound
<1>2. PICK l \in Int : b = n * l + (b % n)
  BY HasRound
<1>3. a % n \in Int /\ b % n \in Int
  BY HasRound
<1>4. n * k < n * l
  BY <1>1, <1>2, <1>3
<1>5. k < l
  BY <1>4
<1>6. n * k + n <= n * l
  BY <1>5
<1> QED
  BY <1>1, <1>2, <1>3, <1>6

(* As many positions as there are slots have one in every slot.             *)
LEMMA SlotIsMet ==
    ASSUME NEW n \in Nat, n > 0, NEW a \in Int, NEW i \in 0..(n - 1)
    PROVE  \E q \in a..(a + n - 1) : q % n = i
<1>1. PICK k \in Int : a = n * k + (a % n)
  BY HasRound
<1>2. a % n \in 0..(n - 1)
  BY HasRound
<1>3. CASE i >= a % n
  <2>1. n * k + i \in a..(a + n - 1)
    BY <1>1, <1>2, <1>3
  <2> QED
    BY <2>1, SlotInRound
<1>4. CASE i < a % n
  <2>1. n * (k + 1) = n * k + n
    BY SMT
  <2>2. n * (k + 1) + i \in a..(a + n - 1)
    BY <1>1, <1>2, <1>4, <2>1
  <2>3. (n * (k + 1) + i) % n = i
    BY SlotInRound, k + 1 \in Int
  <2> QED
    BY <2>2, <2>3
<1> QED
  BY <1>2, <1>3, <1>4
(* The log: LOG_BUFFER_SIZE is positive and holds the line a restart adds   *)
(* (log_buffer.c).                                                          *)
LogIsSound ==
    /\ RingSize \in Nat /\ RingSize > 0 /\ RestartLine \in Nat /\ RestartLine <= RingSize
    /\ Chunk \in Nat /\ StdoutChunk \in Nat /\ Scan \in Nat /\ MaxLine \in Nat

(* The inductive invariant. The readers are within what is written, and     *)
(* what is printed since the boot is in the ring as it was written, even    *)
(* after a restart has cut a write short.                                   *)
LogData ==
    /\ Log!TypeOK /\ start <= stdoutPos /\ stdoutPos <= total /\ viewerPos <= total

RingHolds ==
    \A p \in Int : /\ Log!Oldest <= p /\ p < total
                   /\ ~torn \/ start <= p
                   => ring[p % RingSize].at = p

ShownIsLog ==
    ~torn => Log!Lost \notin shown /\ \A p, q \in shown : p..q \subseteq shown

AllCounted == stdoutPos = start + printed + dropped

LogInv == LogData /\ RingHolds /\ ShownIsLog /\ AllCounted

LEMMA LogNumbers ==
    ASSUME LogIsSound, LogData
    PROVE  /\ total \in Nat /\ stdoutPos \in Nat /\ dropped \in Nat /\ printed \in Nat
           /\ start \in Nat /\ viewerPos \in Nat
           /\ Log!Oldest \in Nat /\ Log!Oldest <= total /\ Log!Oldest + RingSize >= total
<1>1. /\ total \in Nat /\ stdoutPos \in Nat /\ dropped \in Nat /\ printed \in Nat
      /\ start \in Nat /\ viewerPos \in Nat
  BY DEF LogData, Log!TypeOK
<1> QED
  BY <1>1 DEF LogIsSound, Log!Oldest

LEMMA LogBegins == ASSUME LogIsSound, Log!Init PROVE LogInv
<1>1. LogData
  <2>1. Log!Blank \in Log!Byte
    BY DEF Log!Blank, Log!Byte
  <2>2. ring \in [0..(RingSize - 1) -> Log!Byte]
    BY <2>1 DEF Log!Init
  <2>3. /\ total = 0 /\ stdoutPos = 0 /\ dropped = 0 /\ printed = 0 /\ start = 0
        /\ viewerPos = 0
    BY DEF Log!Init
  <2>4. shown = {} /\ {torn, clients} \subseteq BOOLEAN
    BY Zenon DEF Log!Init
  <2> QED
    BY <2>2, <2>3, <2>4 DEF LogData, Log!TypeOK
<1>2. RingHolds /\ ShownIsLog /\ AllCounted
  BY DEF LogIsSound, Log!Init, RingHolds, Log!Oldest, ShownIsLog, AllCounted
<1> QED
  BY <1>1, <1>2 DEF LogInv

(* A slot after a write has the last byte that belongs there.               *)
LEMMA SlotAfterWrite ==
    ASSUME LogIsSound, LogData, NEW length \in Nat, NEW newlines, NEW cutShort \in BOOLEAN,
           NEW i \in 0..(RingSize - 1)
    PROVE  \/ /\ \A p \in total..(total + length - 1) : p % RingSize # i
              /\ Log!WithLine(length, newlines, cutShort)[i] = ring[i]
           \/ \E p \in total..(total + length - 1) :
                /\ p % RingSize = i /\ p + RingSize >= total + length
                /\ Log!WithLine(length, newlines, cutShort)[i] =
                     [at |-> IF cutShort THEN Log!Lost ELSE p, newline |-> p \in newlines]
<1>0. total \in Nat /\ RingSize \in Nat /\ RingSize > 0
  BY LogNumbers DEF LogIsSound
<1> DEFINE W == {p \in total..(total + length - 1) : p % RingSize = i}
           c == CHOOSE q \in W : \A r \in W : r <= q
           new == Log!WithLine(length, newlines, cutShort)
<1>1. new[i] = IF W = {} THEN ring[i]
               ELSE [at |-> IF cutShort THEN Log!Lost ELSE c, newline |-> c \in newlines]
  BY Zenon DEF Log!WithLine
<1>2. ASSUME W = {}
      PROVE  (\A p \in total..(total + length - 1) : p % RingSize # i) /\ new[i] = ring[i]
  BY <1>1, <1>2
<1>3. ASSUME W # {}
      PROVE  \E q \in W : q + RingSize >= total + length /\ \A r \in W : r <= q
  <2> DEFINE low == total + length - RingSize
  <2>0. low \in Int
    BY <1>0
  <2>1. PICK q \in low..(low + RingSize - 1) : q % RingSize = i
    <3> HIDE DEF low
    <3> QED
      BY <1>0, <2>0, SlotIsMet
  <2>2. q \in Int /\ q + RingSize >= total + length /\ q < total + length
    BY <2>1, <1>0
  <2>3. ASSUME NEW r \in W, q < r PROVE FALSE
    <3>1. r \in Int /\ r % RingSize = q % RingSize /\ r < total + length
      BY <2>1, <1>0
    <3>2. q + RingSize <= r
      BY <3>1, <2>2, <2>3, <1>0, ARoundApart
    <3> QED
      BY <3>1, <3>2, <2>2, <1>0
  <2>4. PICK r \in W : TRUE
    BY <1>3
  <2>5. r \in Int /\ total <= r /\ r <= q
    BY <2>3, <2>2, <1>0
  <2>6. q \in W
    BY <2>1, <2>2, <2>5, <1>0
  <2> QED
    BY <2>6, <2>2, <2>3, <1>0
<1>4. ASSUME W # {}
      PROVE  /\ c \in total..(total + length - 1) /\ c % RingSize = i
             /\ c + RingSize >= total + length
             /\ new[i] = [at |-> IF cutShort THEN Log!Lost ELSE c, newline |-> c \in newlines]
  <2>1. PICK q \in W : q + RingSize >= total + length /\ \A r \in W : r <= q
    BY <1>3, <1>4
  <2>2. c \in W /\ \A r \in W : r <= c
    BY <2>1
  <2>3. c \in total..(total + length - 1) /\ c % RingSize = i /\ q \in Int /\ q <= c
    BY <2>1, <2>2
  <2>4. c + RingSize >= total + length
    <3>1. c \in Int
      BY <2>3
    <3> QED
      BY <3>1, <2>1, <2>3, <1>0
  <2> QED
    BY <2>3, <2>4, <1>1, <1>4
<1> HIDE DEF c, W, new
<1>6. ASSUME W # {}
      PROVE  \E p \in total..(total + length - 1) :
                 /\ p % RingSize = i /\ p + RingSize >= total + length
                 /\ new[i] = [at |-> IF cutShort THEN Log!Lost ELSE p,
                              newline |-> p \in newlines]
  BY <1>4, <1>6
<1> QED
  BY <1>2, <1>6 DEF new

LEMMA WriteKeepsType ==
    ASSUME LogIsSound, LogData, NEW length \in Nat, NEW newlines, NEW cutShort \in BOOLEAN
    PROVE  Log!WithLine(length, newlines, cutShort) \in [0..(RingSize - 1) -> Log!Byte]
<1> DEFINE new == Log!WithLine(length, newlines, cutShort)
<1>1. new = [i \in 0..(RingSize - 1) |-> new[i]]
  BY DEF Log!WithLine
<1>2. ASSUME NEW i \in 0..(RingSize - 1) PROVE new[i] \in Log!Byte
  <2>1. CASE new[i] = ring[i]
    BY <2>1 DEF LogData, Log!TypeOK
  <2>2. ASSUME NEW p \in total..(total + length - 1),
               new[i] = [at |-> IF cutShort THEN Log!Lost ELSE p, newline |-> p \in newlines]
        PROVE  new[i] \in Log!Byte
    <3>1. p \in Nat
      BY LogNumbers
    <3>2. (IF cutShort THEN Log!Lost ELSE p) \in {Log!Lost} \union Nat
      BY <3>1
    <3>3. (p \in newlines) \in BOOLEAN
      OBVIOUS
    <3> QED
      BY <2>2, <3>2, <3>3 DEF Log!Byte
  <2> QED
    BY <2>1, <2>2, SlotAfterWrite
<1>3. new \in [0..(RingSize - 1) -> Log!Byte]
  <2> HIDE DEF new
  <2> QED
    BY <1>1, <1>2
<1> QED
  BY <1>3

(* Writing keeps what is not overwritten, and adds the rest.                *)
LEMMA WriteHolds ==
    ASSUME LogIsSound, LogData, NEW length \in Nat, NEW newlines, NEW p \in Int,
           p + RingSize >= total + length, p < total + length,
           p < total => ring[p % RingSize].at = p
    PROVE  Log!WithLine(length, newlines, FALSE)[p % RingSize].at = p
<1> DEFINE i == p % RingSize
           new == Log!WithLine(length, newlines, FALSE)
<1>0. total \in Nat /\ RingSize \in Nat /\ RingSize > 0
  BY LogNumbers DEF LogIsSound
<1>1. i \in 0..(RingSize - 1)
  BY <1>0, HasRound
<1> HIDE DEF i, new
<1>2. ASSUME \A q \in total..(total + length - 1) : q % RingSize # i, new[i] = ring[i]
      PROVE  new[i].at = p
  <2>1. p < total
    BY <1>2, <1>0 DEF i
  <2> QED
    BY <2>1, <1>2 DEF i
<1>3. ASSUME NEW q \in total..(total + length - 1), q % RingSize = i,
             q + RingSize >= total + length,
             new[i] = [at |-> IF FALSE THEN Log!Lost ELSE q, newline |-> q \in newlines]
      PROVE  new[i].at = p
  <2>1. q \in Int /\ q < total + length /\ q % RingSize = p % RingSize
    BY <1>0, <1>3 DEF i
  <2>2. ~(p < q)
    <3> SUFFICES ASSUME p < q PROVE FALSE
      OBVIOUS
    <3>1. p + RingSize <= q
      BY <2>1, <1>0, ARoundApart
    <3> QED
      BY <3>1, <2>1, <1>0
  <2>3. ~(q < p)
    <3> SUFFICES ASSUME q < p PROVE FALSE
      OBVIOUS
    <3>1. q + RingSize <= p
      BY <2>1, <1>0, ARoundApart
    <3> QED
      BY <3>1, <1>3, <2>1, <1>0
  <2>4. q = p
    BY <2>1, <2>2, <2>3
  <2> QED
    BY <2>4, <1>3
<1>4. \/ (\A q \in total..(total + length - 1) : q % RingSize # i) /\ new[i] = ring[i]
      \/ \E q \in total..(total + length - 1) :
           /\ q % RingSize = i /\ q + RingSize >= total + length
           /\ new[i] = [at |-> IF FALSE THEN Log!Lost ELSE q, newline |-> q \in newlines]
  BY <1>1, SlotAfterWrite, FALSE \in BOOLEAN DEF new
<1>5. new[i].at = p
  BY <1>2, <1>3, <1>4
<1> QED
  BY <1>5 DEF new, i

LEMMA LogWriteKeeps ==
    ASSUME LogIsSound, LogInv, NEW length \in 1..MaxLine, NEW newlines,
           Log!Write(length, newlines)
    PROVE  LogInv'
<1>0. /\ LogData /\ RingHolds /\ length \in Nat /\ RingSize \in Nat /\ RingSize > 0
      /\ total \in Nat /\ Log!Oldest \in Nat /\ stdoutPos \in Nat /\ viewerPos \in Nat
      /\ start \in Nat
  BY LogNumbers DEF LogInv, LogIsSound
<1>1. /\ ring' = Log!WithLine(length, newlines, FALSE) /\ total' = total + length
      /\ UNCHANGED Log!readers /\ UNCHANGED torn
  BY DEF Log!Write
<1>2. UNCHANGED <<stdoutPos, dropped, printed, start, clients, viewerPos, shown, torn>>
  BY <1>1 DEF Log!readers
<1>3. LogData'
  <2>1. ring' \in [0..(RingSize - 1) -> Log!Byte]
    BY <1>0, <1>1, WriteKeepsType, FALSE \in BOOLEAN
  <2>2. total' \in Nat /\ stdoutPos' <= total' /\ viewerPos' <= total'
    BY <1>0, <1>1, <1>2 DEF LogData
  <2> QED
    BY <1>0, <1>2, <2>1, <2>2 DEF LogData, Log!TypeOK
<1>4. RingHolds'
  <2> SUFFICES ASSUME NEW p \in Int, (Log!Oldest)' <= p, p < total', ~torn' \/ start' <= p
               PROVE  ring'[p % RingSize].at = p
    BY DEF RingHolds
  <2>1. p + RingSize >= total + length /\ p < total + length
    BY <1>0, <1>1 DEF Log!Oldest
  <2>2. ASSUME p < total PROVE ring[p % RingSize].at = p
    <3>1. Log!Oldest <= p
      BY <1>0, <1>1, <2>1 DEF Log!Oldest
    <3> QED
      BY <3>1, <1>0, <1>2, <2>2 DEF RingHolds
  <2> QED
    BY <1>0, <1>1, <2>1, <2>2, WriteHolds
<1>5. ShownIsLog' /\ AllCounted'
  BY <1>2 DEF LogInv, ShownIsLog, AllCounted
<1> QED
  BY <1>3, <1>4, <1>5 DEF LogInv

(* What is read of the ring is the log.                                     *)
LEMMA ReadIsLog ==
    ASSUME LogIsSound, LogData, RingHolds, NEW from \in Nat, NEW to \in Int,
           Log!Oldest <= from, to <= total, ~torn \/ start <= from
    PROVE  Log!Bytes(from, to) = from..(to - 1)
<1>0. Log!Oldest \in Nat /\ total \in Nat /\ start \in Nat
  BY LogNumbers
<1>1. \A p \in from..(to - 1) : ring[p % RingSize].at = p
  BY <1>0 DEF RingHolds
<1> QED
  BY <1>1 DEF Log!Bytes

LEMMA FirstLine ==
    ASSUME LogIsSound, LogData, NEW from \in Nat, NEW to \in Int, Log!Newlines(from, to) # {}
    PROVE  LET first == Log!FirstOf(Log!Newlines(from, to))
           IN  first \in Nat /\ from <= first /\ first + 1 <= to
<1> DEFINE S == Log!Newlines(from, to)
<1>1. \A p \in S : p \in Nat /\ from <= p /\ p + 1 <= to
  BY DEF Log!Newlines
<1>2. S \in SUBSET Nat /\ S # {}
  BY <1>1
<1>3. \E p \in S : \A q \in S : p <= q
  <2> HIDE DEF S
  <2> QED
    BY <1>2, LeastExists
<1>4. Log!FirstOf(S) \in S
  BY <1>3 DEF Log!FirstOf
<1> QED
  BY <1>1, <1>4

(* A reader is sent a piece of what is in the ring.                         *)
LEMMA ReaderStays ==
    ASSUME LogIsSound, LogData
    PROVE  LET from == Log!ReadFrom(viewerPos)
               to == Log!ReadTo(from)
           IN  /\ from \in Nat /\ to \in Nat
               /\ Log!Oldest <= from /\ from <= total /\ to <= total
<1> DEFINE from == Log!ReadFrom(viewerPos)
           to == Log!ReadTo(from)
<1>0. /\ total \in Nat /\ viewerPos \in Nat /\ viewerPos <= total
      /\ Log!Oldest \in Nat /\ Log!Oldest <= total /\ Chunk \in Nat /\ Scan \in Nat
  BY LogNumbers DEF LogData, LogIsSound
<1>1. from \in Nat /\ Log!Oldest <= from /\ from <= total
  <2> DEFINE top == Log!Smaller(total, Log!Oldest + Scan)
             newlines == Log!Newlines(Log!Oldest, top)
  <2>1. top \in Int /\ top <= total
    BY <1>0 DEF Log!Smaller
  <2>2. from = IF viewerPos > total THEN total
               ELSE IF viewerPos >= Log!Oldest THEN viewerPos
               ELSE IF newlines = {} THEN Log!Oldest ELSE Log!FirstOf(newlines) + 1
    BY DEF Log!ReadFrom
  <2>3. ASSUME newlines # {}
        PROVE  LET first == Log!FirstOf(newlines)
               IN  first \in Nat /\ Log!Oldest <= first /\ first + 1 <= top
    <3> HIDE DEF top
    <3> QED
      BY <1>0, <2>1, <2>3, FirstLine
  <2> HIDE DEF from, newlines, top
  <2> QED
    BY <1>0, <2>1, <2>2, <2>3
<1>2. to \in Nat /\ to <= total
  <2> HIDE DEF from
  <2> DEFINE top == Log!Smaller(total, from + Chunk)
             newlines == Log!Newlines(from, top)
  <2>1. top \in Nat /\ top <= total
    BY <1>0, <1>1 DEF Log!Smaller
  <2>2. to = IF newlines = {} THEN top ELSE Log!FirstOf(newlines) + 1
    BY DEF Log!ReadTo
  <2>3. ASSUME newlines # {}
        PROVE  LET first == Log!FirstOf(newlines)
               IN  first \in Nat /\ from <= first /\ first + 1 <= top
    <3> HIDE DEF top
    <3> QED
      BY <1>1, <2>1, <2>3, FirstLine
  <2> HIDE DEF to, newlines, top
  <2> QED
    BY <1>0, <2>1, <2>2, <2>3
<1> QED
  BY <1>1, <1>2

LEMMA FollowKeeps == ASSUME LogIsSound, LogInv, Log!Follow PROVE LogInv'
<1> DEFINE from == Log!ReadFrom(viewerPos)
           to == Log!ReadTo(from)
<1>0. /\ LogData /\ RingHolds /\ total \in Nat /\ viewerPos \in Nat
      /\ from \in Nat /\ to \in Nat /\ Log!Oldest <= from /\ to <= total
  BY LogNumbers, ReaderStays DEF LogInv
<1>1. UNCHANGED <<ring, total, stdoutPos, dropped, printed, start, clients, torn>>
  BY DEF Log!Follow
<1>2. \/ viewerPos' = to /\ shown' = Log!Bytes(from, to)
      \/ viewerPos' = total /\ shown' = {}
  BY DEF Log!Follow
<1>3. ASSUME ~torn PROVE Log!Bytes(from, to) = from..(to - 1)
  <2> HIDE DEF from, to
  <2> QED
    BY <1>0, <1>3, ReadIsLog
<1>4. Log!Bytes(from, to) \subseteq {Log!Lost} \union Nat
  <2> HIDE DEF from, to
  <2>1. ASSUME NEW p \in from..(to - 1) PROVE ring[p % RingSize].at \in {Log!Lost} \union Nat
    <3>1. p \in Int /\ p % RingSize \in 0..(RingSize - 1)
      BY <1>0, <2>1, HasRound DEF LogIsSound
    <3>2. ring[p % RingSize] \in Log!Byte
      BY <1>0, <3>1 DEF LogData, Log!TypeOK
    <3> QED
      BY <3>2 DEF Log!Byte
  <2> QED
    BY <2>1 DEF Log!Bytes
<1> HIDE DEF from, to
<1>5. LogData'
  <2>1. viewerPos' \in Nat /\ viewerPos' <= total
    BY <1>0, <1>2
  <2>2. shown' \subseteq {Log!Lost} \union Nat
    BY <1>2, <1>4
  <2> QED
    BY <1>0, <1>1, <2>1, <2>2 DEF LogData, Log!TypeOK
<1>6. RingHolds' /\ AllCounted'
  BY <1>1 DEF LogInv, RingHolds, AllCounted, Log!Oldest
<1>7. ShownIsLog'
  <2> SUFFICES ASSUME ~torn'
               PROVE  Log!Lost \notin shown' /\ \A p, q \in shown' : p..q \subseteq shown'
    BY DEF ShownIsLog
  <2>1. shown' = from..(to - 1) \/ shown' = {}
    BY <1>1, <1>2, <1>3
  <2> QED
    BY <2>1, <1>0 DEF Log!Lost
<1> QED
  BY <1>5, <1>6, <1>7 DEF LogInv

LEMMA CardinalityInLog == ASSUME NEW S PROVE Log!Cardinality(S) = Cardinality(S)
  BY DEF Cardinality, Log!Cardinality

LEMMA FlushKeeps == ASSUME LogIsSound, LogInv, Log!FlushStdout PROVE LogInv'
<1> DEFINE from == Log!Larger(Log!Smaller(stdoutPos, total), Log!Oldest)
           to == Log!Smaller(total, from + StdoutChunk)
<1>0. /\ LogData /\ RingHolds /\ total \in Nat /\ stdoutPos \in Nat /\ start \in Nat
      /\ dropped \in Nat /\ printed \in Nat /\ StdoutChunk \in Nat /\ Log!Oldest \in Nat
      /\ Log!Oldest <= total /\ start <= stdoutPos /\ stdoutPos <= total
  BY LogNumbers DEF LogInv, LogData, LogIsSound
<1>1. Log!Smaller(stdoutPos, total) = stdoutPos
  BY <1>0 DEF Log!Smaller
<1>2. /\ from \in Nat /\ stdoutPos <= from /\ Log!Oldest <= from /\ from <= total
  BY <1>0, <1>1 DEF Log!Larger
<1>3. to \in Nat /\ from <= to /\ to <= total
  <2> HIDE DEF from
  <2> QED
    BY <1>0, <1>2 DEF Log!Smaller
<1>4. /\ stdoutPos' = to /\ printed' = printed + Log!Cardinality(Log!Bytes(from, to))
      /\ dropped' = dropped + from - stdoutPos
      /\ UNCHANGED <<ring, total, start, clients, viewerPos, shown, torn>>
  BY <1>1 DEF Log!FlushStdout
<1> HIDE DEF from, to
<1>5. Log!Cardinality(Log!Bytes(from, to)) = to - from
  <2>1. Log!Bytes(from, to) = from..(to - 1)
    BY <1>0, <1>2, <1>3, ReadIsLog
  <2>2. Cardinality(from..(to - 1)) = to - from
    <3> DEFINE final == to - 1
    <3>1. final \in Int /\ from \in Int
      BY <1>2, <1>3
    <3> HIDE DEF final
    <3>2. Cardinality(from..final) = IF from > final THEN 0 ELSE final - from + 1
      BY <3>1, FS_Interval
    <3> QED
      BY <3>2, <1>2, <1>3 DEF final
  <2> QED
    BY <2>1, <2>2, CardinalityInLog
<1>6. AllCounted'
  BY <1>0, <1>2, <1>3, <1>4, <1>5 DEF LogInv, AllCounted
<1>7. LogData'
  <2>1. /\ stdoutPos' \in Nat /\ printed' \in Nat /\ dropped' \in Nat
        /\ start' <= stdoutPos' /\ stdoutPos' <= total'
    BY <1>0, <1>2, <1>3, <1>4, <1>5
  <2> QED
    BY <1>0, <1>4, <2>1 DEF LogData, Log!TypeOK
<1>8. RingHolds' /\ ShownIsLog'
  BY <1>4 DEF LogInv, RingHolds, ShownIsLog, Log!Oldest
<1> QED
  BY <1>6, <1>7, <1>8 DEF LogInv

LEMMA ClientKeeps == ASSUME LogIsSound, LogInv, Log!ClientComesOrGoes PROVE LogInv'
<1>1. UNCHANGED <<ring, total, stdoutPos, dropped, printed, start, viewerPos, shown, torn>>
  BY DEF Log!ClientComesOrGoes
<1>2. clients' \in BOOLEAN
  BY Zenon DEF Log!ClientComesOrGoes
<1>3. LogData'
  BY <1>1, <1>2 DEF LogInv, LogData, Log!TypeOK
<1> QED
  BY <1>1, <1>3 DEF LogInv, RingHolds, ShownIsLog, AllCounted, Log!Oldest

(* The line a restart adds covers a part of a write that was cut short.     *)
LEMMA LogRestartKeeps ==
    ASSUME LogIsSound, LogInv, NEW cutAt \in 0..MaxLine, NEW fits \in BOOLEAN,
           Log!Restart(cutAt, fits)
    PROVE  LogInv'
<1> DEFINE rest == Log!WithLine(cutAt, {}, TRUE)
           P(i) == CHOOSE q \in total..(total + RingSize - 1) : q % RingSize = i
           line == [i \in 0..(RingSize - 1) |->
                      IF P(i) < total + RestartLine THEN [at |-> P(i), newline |-> TRUE]
                      ELSE rest[i]]
<1>0. /\ LogData /\ RingHolds /\ total \in Nat /\ cutAt \in Nat /\ start \in Nat
      /\ RingSize \in Nat /\ RingSize > 0 /\ RestartLine \in Nat /\ RestartLine <= RingSize
      /\ Log!Oldest \in Nat
  BY LogNumbers DEF LogInv, LogIsSound
<1>1. /\ dropped' = 0 /\ printed' = 0 /\ start' = stdoutPos' /\ clients' = FALSE
      /\ viewerPos' = total' /\ shown' = {}
  BY Zenon DEF Log!Restart
<1>2. ASSUME fits
      PROVE  /\ ring' = line /\ total' = total + RestartLine
             /\ stdoutPos' = total + RestartLine /\ torn' = (torn \/ cutAt > RestartLine)
  BY <1>2, Zenon DEF Log!Restart
<1>3. ASSUME ~fits
      PROVE  /\ ring' = [i \in 0..(RingSize - 1) |-> Log!Blank] /\ total' = 0
             /\ stdoutPos' = 0 /\ torn' = FALSE
  BY <1>3, Zenon DEF Log!Restart
<1>4. ASSUME NEW i \in 0..(RingSize - 1)
      PROVE  /\ P(i) \in total..(total + RingSize - 1) /\ P(i) % RingSize = i
             /\ P(i) \in Nat
  <2>1. \E q \in total..(total + RingSize - 1) : q % RingSize = i
    <3>1. total \in Int
      BY <1>0
    <3> QED
      BY <1>0, <3>1, SlotIsMet
  <2>2. P(i) \in total..(total + RingSize - 1) /\ P(i) % RingSize = i
    BY <2>1
  <2> QED
    BY <2>2, <1>0
<1>5. rest \in [0..(RingSize - 1) -> Log!Byte]
  BY <1>0, WriteKeepsType, TRUE \in BOOLEAN
<1>6. torn' \in BOOLEAN
  <2>1. (torn \/ cutAt > RestartLine) \in BOOLEAN
    BY Zenon
  <2> QED
    BY <1>2, <1>3, <2>1, Zenon
<1> HIDE DEF P, rest
<1>7. CASE fits
  <2>1. line \in [0..(RingSize - 1) -> Log!Byte]
    <3>1. ASSUME NEW i \in 0..(RingSize - 1)
          PROVE  [at |-> P(i), newline |-> TRUE] \in Log!Byte
      BY <1>4 DEF Log!Byte
    <3> QED
      BY <3>1, <1>5
  <2>2. LogData'
    <3>1. total' \in Nat /\ stdoutPos' \in Nat /\ start' = stdoutPos' /\ stdoutPos' = total'
      BY <1>0, <1>1, <1>2, <1>7
    <3>2. {torn', clients'} \subseteq BOOLEAN
      BY <1>1, <1>6, Zenon
    <3>3. ring' \in [0..(RingSize - 1) -> Log!Byte]
      BY <1>2, <1>7, <2>1
    <3> QED
      BY <1>1, <3>1, <3>2, <3>3 DEF LogData, Log!TypeOK
  <2>3. RingHolds'
    <3> SUFFICES ASSUME NEW p \in Int, (Log!Oldest)' <= p, p < total', ~torn' \/ start' <= p
                 PROVE  ring'[p % RingSize].at = p
      BY DEF RingHolds
    <3>1. ~torn /\ cutAt <= RestartLine
      <4>1. total' \in Nat /\ start' = total'
        BY <1>0, <1>1, <1>2, <1>7
      <4>2. ~torn'
        BY <4>1
      <4>3. ~torn /\ ~(cutAt > RestartLine)
        BY <4>2, <1>2, <1>7, Zenon
      <4> QED
        BY <4>3, <1>0
    <3> DEFINE i == p % RingSize
    <3>2. i \in 0..(RingSize - 1)
      BY <1>0, HasRound
    <3>3. p < total + RestartLine /\ p + RingSize >= total + RestartLine /\ 0 <= p
      BY <1>0, <1>2, <1>7 DEF Log!Oldest
    <3>4. P(i) \in Int /\ total <= P(i) /\ P(i) < total + RingSize /\ P(i) % RingSize = i
      BY <1>0, <1>4, <3>2
    <3>5. ring'[i] = IF P(i) < total + RestartLine THEN [at |-> P(i), newline |-> TRUE]
                     ELSE rest[i]
      BY <1>2, <1>7, <3>2
    <3>6. CASE p >= total
      <4>1. ~(p < P(i))
        <5> SUFFICES ASSUME p < P(i) PROVE FALSE
          OBVIOUS
        <5>1. p + RingSize <= P(i)
          BY <1>0, <3>4, ARoundApart
        <5> QED
          BY <5>1, <3>4, <3>6, <1>0
      <4>2. ~(P(i) < p)
        <5> SUFFICES ASSUME P(i) < p PROVE FALSE
          OBVIOUS
        <5>1. P(i) + RingSize <= p
          BY <1>0, <3>4, ARoundApart
        <5> QED
          BY <5>1, <3>4, <3>3, <1>0
      <4>3. P(i) = p
        BY <4>1, <4>2, <3>4
      <4> QED
        BY <4>3, <3>5, <3>3
    <3>7. CASE p < total
      <4>1. p < P(i)
        BY <3>4, <3>7, <1>0
      <4>2. p + RingSize <= P(i)
        BY <4>1, <1>0, <3>4, ARoundApart
      <4>3. ~(P(i) < total + RestartLine)
        BY <4>2, <3>3, <3>4, <1>0
      <4>4. ring'[i] = rest[i]
        BY <3>5, <4>3
      <4>5. ring[i].at = p
        BY <3>1, <3>3, <3>7, <1>0 DEF RingHolds, Log!Oldest
      <4>6. rest[i] = ring[i]
        <5>1. ASSUME NEW q \in total..(total + cutAt - 1), q % RingSize = i PROVE FALSE
          <6>1. q \in Int /\ p < q /\ q < total + cutAt
            BY <1>0, <3>7
          <6>2. p + RingSize <= q
            BY <6>1, <5>1, <1>0, ARoundApart
          <6> QED
            BY <6>1, <6>2, <3>1, <3>3, <1>0
        <5>2. \/ /\ \A q \in total..(total + cutAt - 1) : q % RingSize # i
                 /\ rest[i] = ring[i]
              \/ \E q \in total..(total + cutAt - 1) :
                   /\ q % RingSize = i /\ q + RingSize >= total + cutAt
                   /\ rest[i] = [at |-> IF TRUE THEN Log!Lost ELSE q,
                                 newline |-> q \in {}]
          <6> HIDE DEF i
          <6> QED
            BY <1>0, <3>2, SlotAfterWrite, TRUE \in BOOLEAN DEF rest
        <5> QED
          BY <5>1, <5>2
      <4> QED
        BY <4>4, <4>5, <4>6
    <3> QED
      BY <3>6, <3>7, <1>0
  <2>4. ShownIsLog' /\ AllCounted'
    BY <1>0, <1>1, <1>2, <1>7 DEF ShownIsLog, AllCounted
  <2> QED
    BY <2>2, <2>3, <2>4 DEF LogInv
<1>8. CASE ~fits
  <2>1. Log!Blank \in Log!Byte
    BY DEF Log!Blank, Log!Byte
  <2>2. ring' \in [0..(RingSize - 1) -> Log!Byte]
    BY <1>3, <1>8, <2>1
  <2>3. {torn', clients'} \subseteq BOOLEAN
    BY <1>1, <1>6, Zenon
  <2>4. LogData'
    BY <1>1, <1>3, <1>8, <2>2, <2>3 DEF LogData, Log!TypeOK
  <2>5. RingHolds' /\ ShownIsLog' /\ AllCounted'
    BY <1>0, <1>1, <1>3, <1>8 DEF RingHolds, Log!Oldest, ShownIsLog, AllCounted
  <2> QED
    BY <2>4, <2>5 DEF LogInv
<1> QED
  BY <1>7, <1>8

LEMMA LogKeeps == ASSUME LogIsSound, LogInv, [Log!Next]_Log!vars PROVE LogInv'
<1>1. CASE UNCHANGED Log!vars
  BY <1>1 DEF Log!vars, LogInv, LogData, Log!TypeOK, RingHolds, ShownIsLog, AllCounted,
              Log!Oldest
<1>2. CASE Log!Next
  BY <1>2, LogWriteKeeps, FollowKeeps, FlushKeeps, ClientKeeps, LogRestartKeeps
     DEF Log!Next
<1> QED
  BY <1>1, <1>2

LEMMA ReadersSeeTheLogByInv == ASSUME LogIsSound, LogInv PROVE Log!ReadersSeeTheLog
<1>1. Log!Oldest \in Nat /\ total \in Nat
  BY LogNumbers DEF LogInv
<1>2. ~torn => \A p \in Log!Oldest..(total - 1) : ring[p % RingSize].at = p
  BY <1>1 DEF LogInv, RingHolds
<1> QED
  BY <1>2 DEF LogInv, ShownIsLog, AllCounted, Log!ReadersSeeTheLog

(* The type invariant of the log.                                           *)
THEOREM LogTypes == ASSUME LogIsSound PROVE Log!Spec => []Log!TypeOK
<1>1. Log!Init => LogInv
  BY LogBegins
<1>2. LogInv /\ [Log!Next]_Log!vars => LogInv'
  BY LogKeeps
<1>3. LogInv => Log!TypeOK
  BY DEF LogInv, LogData
<1> QED
  BY <1>1, <1>2, <1>3, PTL DEF Log!Spec

---------------------------------------------------------------------------
(* The websockets: places are numbered, and no document is NULL.            *)
Documents == [Browsers!Fields -> {NoClient, 0, 1}]
WebIsSound ==
    /\ ClientSlots \in SUBSET Nat /\ IsFiniteSet(ClientSlots)
    /\ NoClient \notin Fds /\ NoClient \notin Documents

Entered == [fd: Fds, type: {"api", "logs"}]

WebData ==
    /\ device \in Documents /\ device["value"] \in {0, 1}
    /\ conns \in [Fds -> {"free", "http", "api", "logs"}]
    /\ table \in [ClientSlots -> Entered \union {Browsers!NoEntry}]
    /\ server \in [at: {"idle", "add", "close", "snapshot", "send"},
                   fd: Fds \union {NoClient}, type: {"none", "api", "logs"}, doc: Documents]
    /\ api \in [at: {"offline", "wait", "build", "copy", "send"}, current: Documents,
                fds: SUBSET Fds]
    /\ baseline \in Documents \union {NoClient}
    /\ logFds \subseteq Fds /\ closing \subseteq Fds /\ joining \subseteq Fds
    /\ leaked \subseteq Fds
    /\ view \in [Fds -> Documents] /\ unsure \in [Fds -> SUBSET Browsers!Fields]

(* The table and the sockets agree, about each socket once.                 *)
TableFits ==
    \A s \in ClientSlots :
      table[s] # Browsers!NoEntry /\ table[s].fd \notin leaked =>
        conns[table[s].fd] = table[s].type
OneEntryEach ==
    \A s, t \in ClientSlots :
      /\ table[s] # Browsers!NoEntry /\ table[t] # Browsers!NoEntry
      /\ table[s].fd = table[t].fd /\ table[s].fd \notin leaked
      => s = t

HasEntry(fd) == \E s \in ClientSlots : table[s] # Browsers!NoEntry /\ table[s].fd = fd

(* Who is let in has no entry yet, and a place; the document it is sent is  *)
(* the device's but for what has changed since.                             *)
ServerFits ==
    /\ server.at # "idle" => server.fd \in Fds
    /\ server.at \in {"add", "close"} =>
         /\ server.type \in {"api", "logs"} /\ conns[server.fd] = server.type
         /\ HasEntry(server.fd) => server.fd \in leaked
    /\ server.at = "add" => Browsers!FreeSlots # {}
    /\ server.at = "send" =>
         /\ server.fd \in joining
         /\ \A f \in Browsers!Fields : f \in unsure[server.fd] \/ server.doc[f] = device[f]

BaselineIs == api.at \in {"build", "copy", "send"} => baseline # NoClient

(* What a browser shows of a field, at each step of an update: what the     *)
(* next one is compared with, or what this one sends or has sent.           *)
Standing(fd, f) ==
    \/ f \in unsure[fd]
    \/ fd \in joining /\ view[fd][f] = device[f]
    \/ /\ api.at \in {"wait", "build"} /\ baseline # NoClient
       /\ baseline[f] = NoClient \/ view[fd][f] = baseline[f]
    \/ /\ api.at \in {"copy", "send"}
       /\ api.current[f] = NoClient \/ view[fd][f] = api.current[f]
    \/ /\ api.at = "copy" \/ (api.at = "send" /\ fd \in api.fds)
       /\ f \in Browsers!Changed(baseline, api.current)

Served(fd) ==
    /\ fd \in Browsers!FdsOf("api") /\ fd \notin closing /\ fd \notin leaked
    /\ ~Browsers!Joins(fd)

Views == \A fd \in Fds : Served(fd) => \A f \in Browsers!Fields : Standing(fd, f)

WebInv == WebData /\ TableFits /\ OneEntryEach /\ ServerFits /\ BaselineIs /\ Views

LEMMA WebBegins == ASSUME WebIsSound, Browsers!Init PROVE WebInv
<1>1. Browsers!Blank \in Documents
  BY DEF Browsers!Blank, Documents
<1>2. device \in Documents /\ device["value"] \in {0, 1}
  BY DEF Browsers!Init, Documents, Browsers!Fields
<1>3. /\ server = Browsers!Idle /\ api = [Browsers!Waits EXCEPT !.at = "offline"]
      /\ baseline = Browsers!Blank
      /\ conns = [fd \in Fds |-> "free"] /\ table = [s \in ClientSlots |-> Browsers!NoEntry]
      /\ logFds = {} /\ closing = {} /\ joining = {} /\ leaked = {}
      /\ view = [fd \in Fds |-> Browsers!Blank] /\ unsure = [fd \in Fds |-> {}]
  BY DEF Browsers!Init
<1>4. /\ server \in [at: {"idle", "add", "close", "snapshot", "send"},
                     fd: Fds \union {NoClient}, type: {"none", "api", "logs"},
                     doc: Documents]
      /\ server.at = "idle"
  BY <1>1, <1>3 DEF Browsers!Idle
<1>5. /\ api \in [at: {"offline", "wait", "build", "copy", "send"}, current: Documents,
                  fds: SUBSET Fds]
      /\ api.at = "offline"
  BY <1>1, <1>3 DEF Browsers!Waits
<1>6. WebData
  BY <1>1, <1>2, <1>3, <1>4, <1>5 DEF WebData
<1>7. TableFits /\ OneEntryEach
  BY <1>3 DEF TableFits, OneEntryEach
<1>8. ServerFits /\ BaselineIs
  BY <1>4, <1>5 DEF ServerFits, BaselineIs
<1>9. Views
  <2>1. \A s \in ClientSlots : table[s].type = "none"
    BY <1>3 DEF Browsers!NoEntry
  <2>2. Browsers!FdsOf("api") = {}
    BY <2>1 DEF Browsers!FdsOf, Browsers!EntriesOf
  <2> QED
    BY <2>2 DEF Views, Served
<1> QED
  BY <1>6, <1>7, <1>8, <1>9 DEF WebInv

(* A client that is served has an open connection.                          *)
LEMMA EntryOf ==
    ASSUME WebIsSound, WebData, NEW fd \in Browsers!FdsOf("api")
    PROVE  \E s \in ClientSlots : /\ table[s] # Browsers!NoEntry /\ table[s].fd = fd
                             /\ table[s].type = "api" /\ fd \in Fds
<1>1. PICK s \in ClientSlots : table[s].type = "api" /\ table[s].fd = fd
  BY DEF Browsers!FdsOf, Browsers!EntriesOf
<1>2. table[s] # Browsers!NoEntry
  BY <1>1 DEF Browsers!NoEntry
<1>3. table[s] \in Entered
  BY <1>2 DEF WebData
<1>4. table[s].fd \in Fds
  BY <1>3 DEF Entered
<1> QED
  BY <1>1, <1>2, <1>4

LEMMA ServedIsOpen ==
    ASSUME WebIsSound, WebData, TableFits, NEW fd \in Browsers!FdsOf("api"), fd \notin leaked
    PROVE  fd \in Fds /\ conns[fd] = "api"
  BY EntryOf DEF TableFits

LEMMA FdsAreSockets ==
    ASSUME WebIsSound, WebData, NEW type \in {"api", "logs"}
    PROVE  Browsers!FdsOf(type) \subseteq Fds
<1> SUFFICES ASSUME NEW s \in ClientSlots, table[s].type = type PROVE table[s].fd \in Fds
  BY DEF Browsers!FdsOf, Browsers!EntriesOf
<1>1. table[s] # Browsers!NoEntry
  BY DEF Browsers!NoEntry
<1>2. table[s] \in Entered
  BY <1>1 DEF WebData
<1> QED
  BY <1>2 DEF Entered

(* The clients stay who they are while the table does.                      *)
LEMMA SameClients ==
    ASSUME WebIsSound, WebInv, UNCHANGED <<table, leaked>>
    PROVE  /\ \A type : Browsers!FdsOf(type)' = Browsers!FdsOf(type)
           /\ OneEntryEach' /\ \A fd : HasEntry(fd)' <=> HasEntry(fd)
           /\ Browsers!FreeSlots' = Browsers!FreeSlots
  BY DEF WebInv, Browsers!FdsOf, Browsers!EntriesOf, OneEntryEach, HasEntry,
         Browsers!FreeSlots

LEMMA FieldChangeKeeps ==
    ASSUME WebIsSound, WebInv, NEW g \in Browsers!Fields, Browsers!Change(g)
    PROVE  WebInv'
<1>0. WebData /\ TableFits /\ ServerFits /\ Views
  BY DEF WebInv
<1>1. UNCHANGED <<conns, table, server, api, baseline, logFds, closing, view, joining,
                  leaked>>
  BY DEF Browsers!Change
<1>2. /\ device' = [device EXCEPT ![g] = IF g = "value" THEN 1 - @
                                         ELSE IF @ = NoClient THEN 1 ELSE NoClient]
      /\ unsure' = [fd \in Fds |-> IF fd \in joining THEN unsure[fd] \union {g}
                                   ELSE unsure[fd]]
  BY DEF Browsers!Change
<1>3. WebData'
  <2>1. device' \in Documents /\ device'["value"] \in {0, 1}
    BY <1>0, <1>2 DEF WebData, Documents, Browsers!Fields
  <2>2. unsure' \in [Fds -> SUBSET Browsers!Fields]
    BY <1>0, <1>2 DEF WebData
  <2> QED
    BY <1>0, <1>1, <2>1, <2>2 DEF WebData
<1>4. ASSUME NEW f \in Browsers!Fields, f # g PROVE device'[f] = device[f]
  BY <1>0, <1>2, <1>4 DEF WebData, Documents
<1>5. \A fd \in Fds : /\ unsure[fd] \subseteq unsure'[fd]
                      /\ fd \in joining => g \in unsure'[fd]
  BY <1>2
<1>6. TableFits' /\ OneEntryEach' /\ BaselineIs'
  BY <1>1, SameClients DEF WebInv, TableFits, BaselineIs
<1>7. ServerFits'
  <2>1. ASSUME server.at = "send"
        PROVE  /\ server.fd \in joining
               /\ \A f \in Browsers!Fields : f \in unsure'[server.fd] \/ server.doc[f] = device'[f]
    BY <1>0, <1>4, <1>5, <2>1 DEF ServerFits
  <2> QED
    BY <1>0, <1>1, <2>1, SameClients DEF ServerFits
<1>8. Views'
  <2> SUFFICES ASSUME NEW fd \in Fds, Served(fd)', NEW f \in Browsers!Fields
               PROVE  Standing(fd, f)'
    BY DEF Views
  <2>1. Served(fd)
    BY <1>1, SameClients DEF Served, Browsers!Joins
  <2>2. Standing(fd, f)
    BY <1>0, <2>1 DEF Views
  <2> QED
    BY <2>2, <1>1, <1>4, <1>5 DEF Standing, Browsers!Changed
<1> QED
  BY <1>3, <1>6, <1>7, <1>8 DEF WebInv

LEMMA AcceptKeeps ==
    ASSUME WebIsSound, WebInv, NEW fd \in Fds, Browsers!Accept(fd)
    PROVE  WebInv'
<1>0. WebData /\ TableFits /\ ServerFits /\ Views
  BY DEF WebInv
<1>1. UNCHANGED <<device, table, server, api, baseline, logFds, closing, view, joining,
                  unsure, leaked>>
  BY DEF Browsers!Accept, Browsers!history
<1>2. /\ server.at = "idle" /\ conns[fd] = "free" /\ conns' = [conns EXCEPT ![fd] = "http"]
  BY DEF Browsers!Accept
<1>3. WebData'
  <2>1. conns' \in [Fds -> {"free", "http", "api", "logs"}]
    BY <1>0, <1>2 DEF WebData
  <2> QED
    BY <1>0, <1>1, <2>1 DEF WebData
<1>4. TableFits'
  <2> SUFFICES ASSUME NEW s \in ClientSlots, table[s] # Browsers!NoEntry, table[s].fd \notin leaked
               PROVE  conns'[table[s].fd] = table[s].type
    BY <1>1 DEF TableFits
  <2>1. table[s].fd \in Fds /\ table[s].type \in {"api", "logs"}
    BY <1>0 DEF WebData, Entered
  <2>2. conns[table[s].fd] = table[s].type
    BY <1>0 DEF TableFits
  <2>3. table[s].fd # fd
    BY <1>2, <2>1, <2>2
  <2> QED
    BY <1>0, <1>2, <2>1, <2>2, <2>3 DEF WebData
<1>5. OneEntryEach' /\ BaselineIs' /\ ServerFits'
  BY <1>0, <1>1, <1>2, SameClients DEF WebInv, BaselineIs, ServerFits
<1>6. Views'
  BY <1>0, <1>1, SameClients DEF Views, Served, Standing, Browsers!Joins, Browsers!Changed
<1> QED
  BY <1>3, <1>4, <1>5, <1>6 DEF WebInv

(* The task of the API before it compares.                                  *)
LEMMA OnlineKeeps == ASSUME WebIsSound, WebInv, Browsers!Online PROVE WebInv'
<1>0. WebData /\ TableFits /\ ServerFits /\ Views
  BY DEF WebInv
<1>1. /\ api.at = "offline" /\ api' = Browsers!Waits /\ baseline' = device
      /\ UNCHANGED <<device, conns, table, server, logFds, closing, view, joining, unsure,
                     leaked>>
  BY DEF Browsers!Online, Browsers!history
<1>2. Browsers!Waits \in [at: {"offline", "wait", "build", "copy", "send"},
                         current: Documents, fds: SUBSET Fds]
      /\ Browsers!Waits.at = "wait"
  BY DEF Browsers!Waits, Browsers!Blank, Documents
<1>3. WebData'
  BY <1>0, <1>1, <1>2 DEF WebData
<1>4. TableFits' /\ OneEntryEach' /\ BaselineIs' /\ ServerFits'
  BY <1>0, <1>1, <1>2, SameClients DEF WebInv, TableFits, BaselineIs, ServerFits
<1>5. Views'
  <2> SUFFICES ASSUME NEW fd \in Fds, Served(fd)', NEW f \in Browsers!Fields
               PROVE  Standing(fd, f)'
    BY DEF Views
  <2>1. Standing(fd, f)
    BY <1>0, <1>1, SameClients DEF Views, Served, Browsers!Joins
  <2> QED
    BY <1>1, <2>1 DEF Standing
<1> QED
  BY <1>3, <1>4, <1>5 DEF WebInv

LEMMA ApiLookKeeps == ASSUME WebIsSound, WebInv, Browsers!ApiLook PROVE WebInv'
<1>0. WebData /\ TableFits /\ ServerFits /\ Views /\ api.at = "wait"
  BY DEF WebInv, Browsers!ApiLook
<1>1. UNCHANGED <<device, conns, table, server, logFds, closing, view, joining, unsure,
                  leaked>>
  BY DEF Browsers!ApiLook, Browsers!history
<1>2. \/ Browsers!EntriesOf("api") = {} /\ baseline' = NoClient /\ api' = api
      \/ /\ api' = [api EXCEPT !.at = "build"]
         /\ baseline' = IF baseline = NoClient THEN device ELSE baseline
  BY DEF Browsers!ApiLook
<1>3. /\ api' \in [at: {"offline", "wait", "build", "copy", "send"}, current: Documents,
                   fds: SUBSET Fds]
      /\ api'.at \in {"wait", "build"} /\ (api'.at = "build" => baseline' # NoClient)
      /\ baseline' \in Documents \union {NoClient}
  BY <1>0, <1>2 DEF WebData, WebIsSound
<1>4. WebData'
  BY <1>0, <1>1, <1>3 DEF WebData
<1>5. TableFits' /\ OneEntryEach' /\ BaselineIs' /\ ServerFits'
  BY <1>0, <1>1, <1>3, SameClients DEF WebInv, TableFits, BaselineIs, ServerFits
<1>6. Views'
  <2> SUFFICES ASSUME NEW fd \in Fds, Served(fd)', NEW f \in Browsers!Fields
               PROVE  Standing(fd, f)'
    BY DEF Views
  <2>1. Standing(fd, f) /\ fd \in Browsers!FdsOf("api")
    BY <1>0, <1>1, SameClients DEF Views, Served, Browsers!Joins
  <2>2. Browsers!EntriesOf("api") # {}
    BY <2>1 DEF Browsers!FdsOf
  <2> QED
    BY <1>0, <1>1, <1>2, <1>3, <2>1, <2>2 DEF Standing, WebIsSound, WebData
<1> QED
  BY <1>4, <1>5, <1>6 DEF WebInv

LEMMA StandsAfterUnsent ==
    ASSUME WebIsSound, WebData, TableFits, NEW fd \in Browsers!FdsOf("api"), fd \notin leaked,
           NEW G, Browsers!Unsent(G)
    PROVE  unsure'[fd] = unsure[fd] \union G
  BY ServedIsOpen DEF Browsers!Unsent

LEMMA UnsentIsTyped ==
    ASSUME WebData, NEW G \in SUBSET Browsers!Fields, Browsers!Unsent(G)
    PROVE  /\ unsure' \in [Fds -> SUBSET Browsers!Fields]
           /\ \A fd \in Fds : unsure[fd] \subseteq unsure'[fd]
  BY DEF Browsers!Unsent, WebData

(* An update that is not sent leaves what it would have said unsure.        *)
LEMMA ApiBuildKeeps == ASSUME WebIsSound, WebInv, Browsers!ApiBuild PROVE WebInv'
<1>0. /\ WebData /\ TableFits /\ ServerFits /\ Views /\ api.at = "build"
      /\ baseline # NoClient /\ device # NoClient /\ device \in Documents
      /\ baseline \in Documents
  BY DEF WebInv, Browsers!ApiBuild, BaselineIs, WebIsSound, WebData
<1>1. /\ UNCHANGED <<device, conns, table, server, logFds, closing, view, leaked>>
      /\ joining' = {fd \in joining : Browsers!Joins(fd)}
  BY DEF Browsers!ApiBuild
<1> DEFINE D == Browsers!Changed(baseline, device)
<1>2. \/ /\ D = {} /\ api' = Browsers!Waits /\ baseline' = baseline
         /\ Browsers!Unsent(Browsers!Gone)
      \/ /\ api' = [api EXCEPT !.at = "copy", !.current = device]
         /\ baseline' = baseline /\ unsure' = unsure
      \/ /\ api' = Browsers!Waits /\ baseline' = device /\ Browsers!Unsent(D)
  BY DEF Browsers!ApiBuild
<1>3. /\ \A f \in D : f \in Browsers!Fields
      /\ \A f \in Browsers!Fields :
           f \notin D => device[f] = NoClient \/ baseline[f] = device[f]
  BY <1>0 DEF Browsers!Changed
<1>4. /\ Browsers!Waits \in [at: {"offline", "wait", "build", "copy", "send"},
                            current: Documents, fds: SUBSET Fds]
      /\ Browsers!Waits.at = "wait"
  BY DEF Browsers!Waits, Browsers!Blank, Documents
<1>5. /\ api' \in [at: {"offline", "wait", "build", "copy", "send"}, current: Documents,
                   fds: SUBSET Fds]
      /\ api'.at \in {"wait", "copy"} /\ (api'.at = "copy" => api'.current = device)
      /\ baseline' \in Documents
  BY <1>0, <1>2, <1>4 DEF WebData
<1>6. /\ unsure' \in [Fds -> SUBSET Browsers!Fields]
      /\ \A fd \in Fds : unsure[fd] \subseteq unsure'[fd]
  <2>1. D \in SUBSET Browsers!Fields /\ Browsers!Gone \in SUBSET Browsers!Fields
    BY <1>3 DEF Browsers!Gone
  <2> HIDE DEF D
  <2>2. CASE unsure' = unsure
    BY <1>0, <2>2 DEF WebData
  <2>3. CASE Browsers!Unsent(D)
    BY <1>0, <2>1, <2>3, UnsentIsTyped
  <2>4. CASE Browsers!Unsent(Browsers!Gone)
    BY <1>0, <2>1, <2>4, UnsentIsTyped
  <2> QED
    BY <1>2, <2>2, <2>3, <2>4
<1> HIDE DEF D
<1>7. WebData'
  BY <1>0, <1>1, <1>5, <1>6 DEF WebData
<1>8. TableFits' /\ OneEntryEach' /\ BaselineIs'
  BY <1>0, <1>1, <1>5, SameClients DEF WebInv, TableFits, BaselineIs, WebIsSound
<1>9. ServerFits'
  <2>1. ASSUME server.at = "send"
        PROVE  /\ server.fd \in joining'
               /\ \A f \in Browsers!Fields : f \in unsure'[server.fd] \/ server.doc[f] = device[f]
    BY <1>0, <1>1, <1>6, <2>1 DEF ServerFits, Browsers!Joins
  <2> QED
    BY <1>0, <1>1, <2>1, SameClients DEF ServerFits
<1>10. Views'
  <2> SUFFICES ASSUME NEW fd \in Fds, Served(fd)', NEW f \in Browsers!Fields
               PROVE  Standing(fd, f)'
    BY DEF Views
  <2>1. Served(fd) /\ Standing(fd, f) /\ fd \in Browsers!FdsOf("api") /\ fd \notin leaked
    BY <1>0, <1>1, SameClients DEF Views, Served, Browsers!Joins
  <2>2. \/ f \in unsure[fd] \/ view[fd][f] = device[f] \/ baseline[f] = NoClient
        \/ view[fd][f] = baseline[f]
    BY <1>0, <2>1 DEF Standing
  <2>3. CASE f \in unsure[fd]
    BY <1>6, <2>3 DEF Standing
  <2>4. CASE D = {} /\ api' = Browsers!Waits /\ baseline' = baseline
             /\ Browsers!Unsent(Browsers!Gone)
    <3>1. unsure'[fd] = unsure[fd] \union Browsers!Gone
      BY <1>0, <2>1, <2>4, StandsAfterUnsent
    <3>2. device[f] = NoClient \/ baseline[f] = device[f]
      BY <1>3, <2>4
    <3>3. CASE f \in Browsers!Gone
      BY <3>1, <3>3 DEF Standing
    <3>4. CASE f \notin Browsers!Gone
      <4>1. baseline[f] = NoClient \/ baseline[f] = device[f]
        BY <1>0, <3>2, <3>4 DEF Browsers!Gone
      <4>2. baseline[f] = NoClient \/ view[fd][f] = baseline[f] \/ f \in unsure[fd]
        BY <2>2, <4>1
      <4> QED
        BY <4>2, <1>0, <1>1, <1>4, <2>3, <2>4 DEF Standing
    <3> QED
      BY <3>3, <3>4
  <2>5. CASE api' = [api EXCEPT !.at = "copy", !.current = device]
             /\ baseline' = baseline /\ unsure' = unsure
    <3>1. api'.at = "copy" /\ api'.current = device
      BY <1>0, <2>5 DEF WebData
    <3>2. CASE f \in D
      BY <2>5, <3>1, <3>2 DEF Standing, D
    <3>3. CASE f \notin D
      <4>1. device[f] = NoClient \/ baseline[f] = device[f]
        BY <1>3, <3>3
      <4>2. f \in unsure[fd] \/ device[f] = NoClient \/ view[fd][f] = device[f]
        BY <2>2, <4>1
      <4> QED
        BY <4>2, <1>1, <2>3, <3>1 DEF Standing
    <3> QED
      BY <3>2, <3>3
  <2>6. CASE api' = Browsers!Waits /\ baseline' = device /\ Browsers!Unsent(D)
    <3>1. unsure'[fd] = unsure[fd] \union D
      BY <1>0, <2>1, <2>6, StandsAfterUnsent
    <3>2. CASE f \in D
      BY <3>1, <3>2 DEF Standing
    <3>3. CASE f \notin D
      <4>1. device[f] = NoClient \/ baseline[f] = device[f]
        BY <1>3, <3>3
      <4>2. f \in unsure[fd] \/ device[f] = NoClient \/ view[fd][f] = device[f]
        BY <2>2, <4>1
      <4> QED
        BY <4>2, <1>0, <1>1, <1>4, <2>3, <2>6 DEF Standing
    <3> QED
      BY <3>2, <3>3
  <2> QED
    BY <1>2, <2>4, <2>5, <2>6
<1> QED
  BY <1>7, <1>8, <1>9, <1>10 DEF WebInv

LEMMA ApiCopyKeeps == ASSUME WebIsSound, WebInv, Browsers!ApiCopy PROVE WebInv'
<1>0. /\ WebData /\ TableFits /\ ServerFits /\ Views /\ api.at = "copy"
      /\ baseline # NoClient /\ baseline \in Documents /\ api.current \in Documents
      /\ api.current # NoClient
  BY DEF WebInv, Browsers!ApiCopy, BaselineIs, WebIsSound, WebData
<1>1. UNCHANGED <<device, conns, table, server, logFds, closing, view, joining, leaked>>
  BY DEF Browsers!ApiCopy
<1> DEFINE D == Browsers!Changed(baseline, api.current)
<1>2. \/ /\ api' = [api EXCEPT !.at = "send", !.fds = Browsers!FdsOf("api")]
         /\ baseline' = baseline /\ unsure' = unsure
      \/ /\ api' = Browsers!Waits /\ baseline' = api.current /\ Browsers!Unsent(D)
  BY DEF Browsers!ApiCopy
<1>3. /\ Browsers!Waits \in [at: {"offline", "wait", "build", "copy", "send"},
                            current: Documents, fds: SUBSET Fds]
      /\ Browsers!Waits.at = "wait"
  BY DEF Browsers!Waits, Browsers!Blank, Documents
<1>4. /\ api' \in [at: {"offline", "wait", "build", "copy", "send"}, current: Documents,
                   fds: SUBSET Fds]
      /\ api'.at \in {"wait", "send"} /\ baseline' \in Documents
  BY <1>0, <1>2, <1>3, FdsAreSockets DEF WebData
<1>5. /\ unsure' \in [Fds -> SUBSET Browsers!Fields]
      /\ \A fd \in Fds : unsure[fd] \subseteq unsure'[fd]
  <2>1. D \in SUBSET Browsers!Fields
    BY DEF Browsers!Changed
  <2> HIDE DEF D
  <2>2. CASE unsure' = unsure
    BY <1>0, <2>2 DEF WebData
  <2>3. CASE Browsers!Unsent(D)
    BY <1>0, <2>1, <2>3, UnsentIsTyped
  <2> QED
    BY <1>2, <2>2, <2>3
<1> HIDE DEF D
<1>6. WebData'
  BY <1>0, <1>1, <1>4, <1>5 DEF WebData
<1>7. TableFits' /\ OneEntryEach' /\ BaselineIs'
  BY <1>0, <1>1, <1>4, SameClients DEF WebInv, TableFits, BaselineIs, WebIsSound
<1>8. ServerFits'
  <2>1. ASSUME server.at = "send"
        PROVE  /\ server.fd \in joining
               /\ \A f \in Browsers!Fields : f \in unsure'[server.fd] \/ server.doc[f] = device[f]
    BY <1>0, <1>5, <2>1 DEF ServerFits
  <2> QED
    BY <1>0, <1>1, <2>1, SameClients DEF ServerFits
<1>9. Views'
  <2> SUFFICES ASSUME NEW fd \in Fds, Served(fd)', NEW f \in Browsers!Fields
               PROVE  Standing(fd, f)'
    BY DEF Views
  <2>1. Served(fd) /\ Standing(fd, f) /\ fd \in Browsers!FdsOf("api") /\ fd \notin leaked
    BY <1>0, <1>1, SameClients DEF Views, Served, Browsers!Joins
  <2>2. \/ f \in unsure[fd] \/ (fd \in joining /\ view[fd][f] = device[f])
        \/ api.current[f] = NoClient \/ view[fd][f] = api.current[f] \/ f \in D
    BY <1>0, <2>1 DEF Standing, D
  <2>3. CASE f \in unsure[fd] \/ (fd \in joining /\ view[fd][f] = device[f])
    BY <1>1, <1>5, <2>3 DEF Standing
  <2>4. CASE /\ api' = [api EXCEPT !.at = "send", !.fds = Browsers!FdsOf("api")]
             /\ baseline' = baseline /\ unsure' = unsure
    <3>1. api'.at = "send" /\ api'.current = api.current /\ fd \in api'.fds
      BY <1>0, <2>1, <2>4 DEF WebData
    <3> QED
      BY <2>2, <2>3, <2>4, <3>1, <1>1 DEF Standing, D
  <2>5. CASE api' = Browsers!Waits /\ baseline' = api.current /\ Browsers!Unsent(D)
    <3>1. unsure'[fd] = unsure[fd] \union D
      BY <1>0, <2>1, <2>5, StandsAfterUnsent
    <3> QED
      BY <2>2, <2>3, <2>5, <3>1, <1>0, <1>1, <1>3 DEF Standing
  <2> QED
    BY <1>2, <2>4, <2>5
<1> QED
  BY <1>6, <1>7, <1>8, <1>9 DEF WebInv

LEMMA ApiDoneKeeps == ASSUME WebIsSound, WebInv, Browsers!ApiDone PROVE WebInv'
<1>0. /\ WebData /\ TableFits /\ ServerFits /\ Views /\ api.at = "send" /\ api.fds = {}
      /\ api.current \in Documents /\ api.current # NoClient
  BY DEF WebInv, Browsers!ApiDone, WebIsSound, WebData
<1>1. /\ api' = Browsers!Waits /\ baseline' = api.current
      /\ UNCHANGED <<device, conns, table, server, logFds, closing, view, joining, unsure,
                     leaked>>
  BY DEF Browsers!ApiDone, Browsers!history
<1>2. /\ Browsers!Waits \in [at: {"offline", "wait", "build", "copy", "send"},
                            current: Documents, fds: SUBSET Fds]
      /\ Browsers!Waits.at = "wait"
  BY DEF Browsers!Waits, Browsers!Blank, Documents
<1>3. WebData'
  BY <1>0, <1>1, <1>2 DEF WebData
<1>4. TableFits' /\ OneEntryEach' /\ BaselineIs' /\ ServerFits'
  BY <1>0, <1>1, <1>2, SameClients DEF WebInv, TableFits, BaselineIs, ServerFits
<1>5. Views'
  <2> SUFFICES ASSUME NEW fd \in Fds, Served(fd)', NEW f \in Browsers!Fields
               PROVE  Standing(fd, f)'
    BY DEF Views
  <2>1. Standing(fd, f)
    BY <1>0, <1>1, SameClients DEF Views, Served, Browsers!Joins
  <2> QED
    BY <1>0, <1>1, <1>2, <2>1 DEF Standing
<1> QED
  BY <1>3, <1>4, <1>5 DEF WebInv

LEMMA LogCopyKeeps == ASSUME WebIsSound, WebInv, Browsers!LogCopy PROVE WebInv'
<1>0. WebData /\ TableFits /\ ServerFits /\ Views
  BY DEF WebInv
<1>1. /\ logFds' = Browsers!FdsOf("logs")
      /\ UNCHANGED <<device, conns, table, server, api, baseline, closing, view, joining,
                     unsure, leaked>>
  BY DEF Browsers!LogCopy, Browsers!history
<1>2. WebData'
  BY <1>0, <1>1, FdsAreSockets DEF WebData
<1>3. TableFits' /\ OneEntryEach' /\ BaselineIs' /\ ServerFits'
  BY <1>0, <1>1, SameClients DEF WebInv, TableFits, BaselineIs, ServerFits
<1>4. Views'
  BY <1>0, <1>1, SameClients DEF Views, Served, Standing, Browsers!Joins, Browsers!Changed
<1> QED
  BY <1>2, <1>3, <1>4 DEF WebInv

---------------------------------------------------------------------------
(* The table with fewer entries.                                            *)
Fewer ==
    /\ table' \in [ClientSlots -> Entered \union {Browsers!NoEntry}]
    /\ \A s \in ClientSlots : table'[s] = table[s] \/ table'[s] = Browsers!NoEntry
    /\ leaked' \subseteq Fds /\ leaked \subseteq leaked'

LEMMA LeastPlace ==
    ASSUME WebIsSound, NEW S \in SUBSET ClientSlots, S # {}
    PROVE  Browsers!Least(S) \in S
<1>1. S \in SUBSET Nat
  BY DEF WebIsSound
<1>2. \E k \in S : \A j \in S : k <= j
  BY <1>1, LeastExists
<1> QED
  BY <1>2 DEF Browsers!Least

LEMMA RemovedIsFewer ==
    ASSUME WebIsSound, WebInv, NEW fd \in Fds, Browsers!Removed(fd)
    PROVE  Fewer /\ (HasEntry(fd)' => fd \in leaked')
<1> DEFINE E == {s \in ClientSlots : table[s].fd = fd}
<1>0. WebData /\ OneEntryEach /\ leaked' = leaked /\ fd # NoClient
  BY DEF WebInv, Browsers!Removed, WebIsSound
<1>1. table' = IF E = {} THEN table
               ELSE [table EXCEPT ![Browsers!Least(E)] = Browsers!NoEntry]
  BY DEF Browsers!Removed, Browsers!Without
<1>2. Fewer
  <2>1. table' \in [ClientSlots -> Entered \union {Browsers!NoEntry}]
    BY <1>0, <1>1 DEF WebData
  <2>2. \A s \in ClientSlots : table'[s] = table[s] \/ table'[s] = Browsers!NoEntry
    BY <1>0, <1>1 DEF WebData
  <2> QED
    BY <1>0, <2>1, <2>2 DEF Fewer, WebData
<1>3. ASSUME HasEntry(fd)', fd \notin leaked PROVE FALSE
  <2>1. PICK s \in ClientSlots : table'[s] # Browsers!NoEntry /\ table'[s].fd = fd
    BY <1>3 DEF HasEntry
  <2>2. table[s] = table'[s]
    BY <1>2, <2>1 DEF Fewer
  <2>3. s \in E
    BY <2>1, <2>2
  <2> DEFINE n == Browsers!Least(E)
  <2>4. n \in E
    BY <2>3, LeastPlace
  <2>5. table[n] # Browsers!NoEntry
    BY <1>0, <2>4 DEF Browsers!NoEntry
  <2>6. n = s
    BY <1>0, <1>3, <2>1, <2>2, <2>4, <2>5 DEF OneEntryEach
  <2>7. table'[n] = Browsers!NoEntry
    BY <1>0, <1>1, <2>3, <2>4 DEF WebData
  <2> QED
    BY <2>1, <2>6, <2>7
<1> QED
  BY <1>0, <1>2, <1>3

LEMMA GivenUpIsFewer ==
    ASSUME WebIsSound, WebInv, NEW fd \in Fds, Browsers!GivenUp(fd)
    PROVE  Fewer /\ (HasEntry(fd)' => fd \in leaked')
<1>1. /\ table' = table
      /\ leaked' = IF \E s \in ClientSlots : table[s].fd = fd THEN leaked \union {fd} ELSE leaked
  BY DEF Browsers!GivenUp
<1> QED
  BY <1>1 DEF WebInv, WebData, Fewer, HasEntry

LEMMA FewerKeeps ==
    ASSUME WebIsSound, WebInv, Fewer
    PROVE  /\ OneEntryEach' /\ \A fd : HasEntry(fd)' => HasEntry(fd)
           /\ Browsers!FdsOf("api")' \subseteq Browsers!FdsOf("api")
           /\ \A fd \in Browsers!FdsOf("api")' : HasEntry(fd)'
           /\ Browsers!FreeSlots \subseteq Browsers!FreeSlots'
           /\ (\A fd \in Fds : HasEntry(fd)' /\ fd \notin leaked' => conns'[fd] = conns[fd])
              => TableFits'
<1>0. /\ \A s \in ClientSlots : table'[s] = table[s] \/ table'[s] = Browsers!NoEntry
      /\ leaked \subseteq leaked'
  BY DEF Fewer
<1>1. OneEntryEach' /\ \A fd : HasEntry(fd)' => HasEntry(fd)
  BY <1>0 DEF WebInv, OneEntryEach, HasEntry
<1>2. \A s \in ClientSlots : table'[s].type = "api" => table'[s] = table[s]
                                                 /\ table'[s] # Browsers!NoEntry
  BY <1>0 DEF Browsers!NoEntry
<1>3. /\ Browsers!FdsOf("api")' \subseteq Browsers!FdsOf("api")
      /\ \A fd \in Browsers!FdsOf("api")' : HasEntry(fd)'
  BY <1>2 DEF Browsers!FdsOf, Browsers!EntriesOf, HasEntry
<1>4. Browsers!FreeSlots \subseteq Browsers!FreeSlots'
  BY <1>0 DEF Browsers!FreeSlots
<1>5. ASSUME \A fd \in Fds : HasEntry(fd)' /\ fd \notin leaked' => conns'[fd] = conns[fd]
      PROVE  TableFits'
  <2> SUFFICES ASSUME NEW s \in ClientSlots, table'[s] # Browsers!NoEntry, table'[s].fd \notin leaked'
               PROVE  conns'[table'[s].fd] = table'[s].type
    BY DEF TableFits
  <2>1. table'[s] = table[s] /\ table[s].fd \notin leaked
    BY <1>0
  <2>2. table[s] \in Entered
    BY <2>1 DEF WebInv, WebData
  <2>3. table[s].fd \in Fds /\ HasEntry(table[s].fd)'
    BY <2>1, <2>2 DEF Entered, HasEntry
  <2>4. conns[table[s].fd] = table[s].type
    BY <2>1 DEF WebInv, TableFits
  <2> QED
    BY <1>5, <2>1, <2>3, <2>4
<1> QED
  BY <1>1, <1>3, <1>4, <1>5

(* A socket that is closed is no client's any more.                         *)
LEMMA ClosedKeeps ==
    ASSUME WebIsSound, WebInv, NEW fd \in Fds, Browsers!Closed(fd),
           server.at = "idle" \/ server.fd = fd,
           server' \in [at: {"idle"}, fd: Fds \union {NoClient},
                        type: {"none", "api", "logs"}, doc: Documents],
           UNCHANGED <<device, api, baseline, logFds>>
    PROVE  WebInv'
<1>0. WebData /\ TableFits /\ ServerFits /\ Views
  BY DEF WebInv
<1>1. /\ conns' = [conns EXCEPT ![fd] = "free"] /\ closing' = closing \ {fd}
      /\ view' = [view EXCEPT ![fd] = Browsers!Blank] /\ unsure' = [unsure EXCEPT ![fd] = {}]
      /\ joining' = joining \ {fd}
      /\ Browsers!Removed(fd) \/ Browsers!GivenUp(fd)
  BY DEF Browsers!Closed
<1>2. Fewer /\ (HasEntry(fd)' => fd \in leaked')
  BY <1>1, RemovedIsFewer, GivenUpIsFewer
<1>3. WebData'
  <2>1. Browsers!Blank \in Documents
    BY DEF Browsers!Blank, Documents
  <2>2. /\ conns' \in [Fds -> {"free", "http", "api", "logs"}]
        /\ view' \in [Fds -> Documents] /\ unsure' \in [Fds -> SUBSET Browsers!Fields]
        /\ closing' \subseteq Fds /\ joining' \subseteq Fds
    BY <1>0, <1>1, <2>1 DEF WebData
  <2>3. server' \in [at: {"idle", "add", "close", "snapshot", "send"},
                     fd: Fds \union {NoClient}, type: {"none", "api", "logs"},
                     doc: Documents]
    OBVIOUS
  <2> QED
    BY <1>0, <1>2, <2>2, <2>3 DEF WebData, Fewer
<1>4. \A g \in Fds : g # fd => /\ conns'[g] = conns[g] /\ view'[g] = view[g]
                               /\ unsure'[g] = unsure[g]
  BY <1>0, <1>1 DEF WebData
<1>5. TableFits' /\ OneEntryEach'
  BY <1>2, <1>4, FewerKeeps
<1>6. BaselineIs' /\ ServerFits'
  BY DEF WebInv, BaselineIs, ServerFits
<1>7. Views'
  <2> SUFFICES ASSUME NEW g \in Fds, Served(g)', NEW f \in Browsers!Fields
               PROVE  Standing(g, f)'
    BY DEF Views
  <2>1. g \in Browsers!FdsOf("api")' /\ g \notin leaked' /\ g \notin closing'
    BY DEF Served
  <2>2. HasEntry(g)' /\ g \in Browsers!FdsOf("api")
    BY <1>2, <2>1, FewerKeeps
  <2>3. g # fd
    BY <1>2, <2>1, <2>2
  <2>4. Served(g)
    BY <1>1, <1>2, <2>1, <2>2, <2>3 DEF Served, Fewer, Browsers!Joins
  <2>5. Standing(g, f)
    BY <1>0, <2>4 DEF Views
  <2> QED
    BY <1>1, <1>4, <2>3, <2>5 DEF Standing, Browsers!Changed
<1> QED
  BY <1>3, <1>5, <1>6, <1>7 DEF WebInv

LEMMA CloseKeeps ==
    ASSUME WebIsSound, WebInv, NEW fd \in Fds, Browsers!Close(fd) PROVE WebInv'
<1>1. /\ server.at = "idle" /\ Browsers!Closed(fd) /\ server' = server
      /\ UNCHANGED <<device, api, baseline, logFds>>
  BY DEF Browsers!Close
<1>2. server' \in [at: {"idle"}, fd: Fds \union {NoClient},
                   type: {"none", "api", "logs"}, doc: Documents]
  BY <1>1 DEF WebInv, WebData
<1> QED
  BY <1>1, <1>2, ClosedKeeps

LEMMA IdleIsTyped ==
    Browsers!Idle \in [at: {"idle"}, fd: Fds \union {NoClient},
                       type: {"none", "api", "logs"}, doc: Documents]
  BY DEF Browsers!Idle, Browsers!Blank, Documents

LEMMA RefuseKeeps == ASSUME WebIsSound, WebInv, Browsers!RefuseClient PROVE WebInv'
<1>1. /\ server.at = "close" /\ Browsers!Closed(server.fd) /\ server' = Browsers!Idle
      /\ UNCHANGED <<device, api, baseline, logFds>>
  BY DEF Browsers!RefuseClient
<1>2. server.fd \in Fds
  BY <1>1 DEF WebInv, ServerFits
<1> QED
  BY <1>1, <1>2, IdleIsTyped, ClosedKeeps

LEMMA CardinalityOfWeb == ASSUME NEW S PROVE Browsers!Cardinality(S) = Cardinality(S)
  BY DEF Cardinality, Browsers!Cardinality

(* There is a place for who may join.                                       *)
LEMMA PlaceIsFree ==
    ASSUME WebIsSound, WebData, Browsers!MayJoin PROVE Browsers!FreeSlots # {}
<1> DEFINE E == Browsers!EntriesOf("api") \union Browsers!EntriesOf("logs")
<1>1. Cardinality(E) < Cardinality(ClientSlots)
  BY CardinalityOfWeb DEF Browsers!MayJoin
<1>2. Cardinality(ClientSlots) \in Nat
  BY FS_CardinalityType DEF WebIsSound
<1>3. E # ClientSlots
  BY <1>1, <1>2
<1>4. PICK s \in ClientSlots : s \notin E
  BY <1>3 DEF Browsers!EntriesOf
<1>5. table[s] \notin Entered
  BY <1>4 DEF Browsers!EntriesOf, Entered
<1>6. table[s] = Browsers!NoEntry
  BY <1>5 DEF WebData
<1> QED
  BY <1>6 DEF Browsers!FreeSlots

LEMMA HandshakeKeeps ==
    ASSUME WebIsSound, WebInv, NEW fd \in Fds, NEW type \in {"api", "logs"},
           Browsers!Handshake(fd, type)
    PROVE  WebInv'
<1>0. /\ WebData /\ TableFits /\ ServerFits /\ Views /\ server.at = "idle"
      /\ conns[fd] = "http" /\ UNCHANGED <<device, api, baseline, logFds>>
  BY DEF WebInv, Browsers!Handshake
<1>1. CASE Browsers!Closed(fd) /\ server' = server
  <2>1. server' \in [at: {"idle"}, fd: Fds \union {NoClient},
                     type: {"none", "api", "logs"}, doc: Documents]
    BY <1>0, <1>1 DEF WebData
  <2> QED
    BY <1>0, <1>1, <2>1, ClosedKeeps
<1>2. CASE /\ Browsers!MayJoin
           /\ server' = [Browsers!Idle EXCEPT !.at = "add", !.fd = fd, !.type = type]
           /\ conns' = [conns EXCEPT ![fd] = type]
           /\ UNCHANGED <<table, closing, Browsers!history, leaked>>
  <2>1. UNCHANGED <<device, api, baseline, logFds, table, closing, view, joining, unsure,
                    leaked>>
    BY <1>0, <1>2 DEF Browsers!history
  <2>2. /\ server' \in [at: {"idle", "add", "close", "snapshot", "send"},
                        fd: Fds \union {NoClient}, type: {"none", "api", "logs"},
                        doc: Documents]
        /\ server'.at = "add" /\ server'.fd = fd /\ server'.type = type
    BY <1>2, IdleIsTyped DEF Browsers!Idle
  <2>3. conns' \in [Fds -> {"free", "http", "api", "logs"}] /\ conns'[fd] = type
        /\ \A g \in Fds : g # fd => conns'[g] = conns[g]
    BY <1>0, <1>2 DEF WebData
  <2>4. WebData'
    BY <1>0, <2>1, <2>2, <2>3 DEF WebData
  <2>5. HasEntry(fd) => fd \in leaked
    <3> SUFFICES ASSUME NEW s \in ClientSlots, table[s] # Browsers!NoEntry, table[s].fd = fd,
                        fd \notin leaked
                 PROVE  FALSE
      BY DEF HasEntry
    <3>1. table[s].type \in {"api", "logs"}
      BY <1>0 DEF WebData, Entered
    <3>2. conns[fd] = table[s].type
      BY <1>0 DEF TableFits
    <3> QED
      BY <1>0, <3>1, <3>2
  <2>6. TableFits'
    <3> SUFFICES ASSUME NEW s \in ClientSlots, table[s] # Browsers!NoEntry, table[s].fd \notin leaked
                 PROVE  conns'[table[s].fd] = table[s].type
      BY <2>1 DEF TableFits
    <3>1. table[s].fd \in Fds
      BY <1>0 DEF WebData, Entered
    <3>2. table[s].fd # fd
      BY <2>5 DEF HasEntry
    <3> QED
      BY <1>0, <2>3, <3>1, <3>2 DEF TableFits
  <2>7. OneEntryEach' /\ BaselineIs'
    BY <2>1, SameClients DEF WebInv, BaselineIs
  <2>8. ServerFits'
    BY <1>0, <1>2, <2>1, <2>2, <2>3, <2>5, SameClients, PlaceIsFree DEF ServerFits
  <2>9. Views'
    <3> SUFFICES ASSUME NEW g \in Fds, Served(g)', NEW f \in Browsers!Fields
                 PROVE  Standing(g, f)'
      BY DEF Views
    <3>1. Served(g)
      BY <1>0, <2>1, SameClients DEF Served, Browsers!Joins
    <3>2. Standing(g, f)
      BY <1>0, <3>1 DEF Views
    <3> QED
      BY <2>1, <3>2 DEF Standing, Browsers!Changed
  <2> QED
    BY <2>4, <2>6, <2>7, <2>8, <2>9 DEF WebInv
<1> QED
  BY <1>1, <1>2 DEF Browsers!Handshake

LEMMA AddKeeps == ASSUME WebIsSound, WebInv, Browsers!AddClient PROVE WebInv'
<1> DEFINE n == Browsers!Least(Browsers!FreeSlots)
           mine == [fd |-> server.fd, type |-> server.type]
<1>0. /\ WebData /\ TableFits /\ ServerFits /\ Views /\ OneEntryEach /\ server.at = "add"
      /\ server.fd \in Fds /\ server.type \in {"api", "logs"}
      /\ conns[server.fd] = server.type /\ (HasEntry(server.fd) => server.fd \in leaked)
  BY DEF WebInv, Browsers!AddClient, ServerFits
<1>1. UNCHANGED <<device, conns, api, baseline, logFds, closing, view, joining, unsure, leaked>>
  BY DEF Browsers!AddClient, Browsers!history
<1>2. CASE /\ Browsers!FreeSlots # {} /\ table' = [table EXCEPT ![n] = mine]
           /\ server' = IF server.type = "api" THEN [server EXCEPT !.at = "snapshot"]
                        ELSE Browsers!Idle
  <2>1. n \in ClientSlots /\ table[n] = Browsers!NoEntry
    BY <1>2, LeastPlace DEF Browsers!FreeSlots
  <2>2. mine \in Entered /\ mine # Browsers!NoEntry
    BY <1>0 DEF Entered, Browsers!NoEntry
  <2>3. /\ table' \in [ClientSlots -> Entered \union {Browsers!NoEntry}]
        /\ table'[n] = mine /\ \A s \in ClientSlots : s # n => table'[s] = table[s]
    <3> HIDE DEF mine, n
    <3> QED
      BY <1>0, <1>2, <2>1, <2>2 DEF WebData
  <2>4. /\ server' \in [at: {"idle", "add", "close", "snapshot", "send"},
                        fd: Fds \union {NoClient}, type: {"none", "api", "logs"},
                        doc: Documents]
        /\ server.type = "api" => server'.at = "snapshot" /\ server'.fd = server.fd
        /\ server.type # "api" => server'.at = "idle"
    BY <1>0, <1>2, IdleIsTyped DEF WebData, Browsers!Idle
  <2>5. WebData'
    BY <1>0, <1>1, <2>3, <2>4 DEF WebData
  <2>6. ASSUME NEW s \in ClientSlots, s # n, table[s] # Browsers!NoEntry, table[s].fd \notin leaked
        PROVE  table[s].fd # server.fd
    BY <1>0, <2>6 DEF HasEntry
  <2>7. TableFits'
    <3> SUFFICES ASSUME NEW s \in ClientSlots, table'[s] # Browsers!NoEntry,
                        table'[s].fd \notin leaked
                 PROVE  conns[table'[s].fd] = table'[s].type
      BY <1>1 DEF TableFits
    <3> QED
      BY <1>0, <2>3 DEF TableFits
  <2>8. OneEntryEach'
    <3> SUFFICES ASSUME NEW s \in ClientSlots, NEW t \in ClientSlots, table'[s] # Browsers!NoEntry,
                        table'[t] # Browsers!NoEntry, table'[s].fd = table'[t].fd,
                        table'[s].fd \notin leaked
                 PROVE  s = t
      BY <1>1 DEF OneEntryEach
    <3>1. mine.fd = server.fd
      OBVIOUS
    <3> QED
      BY <1>0, <2>3, <2>6, <3>1 DEF OneEntryEach
  <2>9. ServerFits' /\ BaselineIs'
    BY <1>0, <1>1, <2>4 DEF WebInv, BaselineIs, ServerFits
  <2>10. Views'
    <3> SUFFICES ASSUME NEW g \in Fds, Served(g)', NEW f \in Browsers!Fields
                 PROVE  Standing(g, f)'
      BY DEF Views
    <3>1. PICK s \in ClientSlots : table'[s].type = "api" /\ table'[s].fd = g
      BY DEF Served, Browsers!FdsOf, Browsers!EntriesOf
    <3>2. g \notin leaked /\ g \notin closing
      BY <1>1 DEF Served
    <3>3. s # n
      <4> SUFFICES ASSUME s = n PROVE FALSE
        OBVIOUS
      <4>1. server.type = "api" /\ g = server.fd
        BY <2>3, <3>1
      <4> QED
        BY <2>4, <4>1 DEF Served, Browsers!Joins
    <3>4. table[s].type = "api" /\ table[s].fd = g
      BY <2>3, <3>1, <3>3
    <3>5. g # server.fd
      BY <2>6, <3>2, <3>3, <3>4 DEF Browsers!NoEntry
    <3>6. Served(g)
      BY <3>2, <3>4, <3>5 DEF Served, Browsers!FdsOf, Browsers!EntriesOf, Browsers!Joins
    <3>7. Standing(g, f)
      BY <1>0, <3>6 DEF Views
    <3> QED
      BY <1>1, <3>7 DEF Standing, Browsers!Changed
  <2> QED
    BY <2>5, <2>7, <2>8, <2>9, <2>10 DEF WebInv
<1>3. CASE server' = [server EXCEPT !.at = "close"] /\ table' = table
  <2>1. /\ server' \in [at: {"idle", "add", "close", "snapshot", "send"},
                        fd: Fds \union {NoClient}, type: {"none", "api", "logs"},
                        doc: Documents]
        /\ server'.at = "close" /\ server'.fd = server.fd /\ server'.type = server.type
    BY <1>0, <1>3 DEF WebData
  <2>2. WebData'
    BY <1>0, <1>1, <1>3, <2>1 DEF WebData
  <2>3. TableFits' /\ OneEntryEach' /\ BaselineIs' /\ ServerFits'
    BY <1>0, <1>1, <1>3, <2>1, SameClients DEF WebInv, TableFits, BaselineIs, ServerFits
  <2>4. Views'
    BY <1>0, <1>1, <1>3, <2>1, SameClients
       DEF Views, Served, Standing, Browsers!Joins, Browsers!Changed
  <2> QED
    BY <2>2, <2>3, <2>4 DEF WebInv
<1> QED
  BY <1>2, <1>3 DEF Browsers!AddClient

LEMMA SnapshotKeeps == ASSUME WebIsSound, WebInv, Browsers!Snapshot PROVE WebInv'
<1>0. /\ WebData /\ TableFits /\ ServerFits /\ Views /\ server.at = "snapshot"
      /\ server.fd \in Fds
  BY DEF WebInv, Browsers!Snapshot, ServerFits
<1>1. /\ joining' = joining \union {server.fd}
      /\ UNCHANGED <<device, conns, table, api, baseline, logFds, closing, view, leaked>>
  BY DEF Browsers!Snapshot
<1>2. \/ server' = [server EXCEPT !.at = "send", !.doc = device] /\ unsure' = unsure
      \/ server' = Browsers!Idle /\ unsure' = [unsure EXCEPT ![server.fd] = Browsers!Fields]
  BY DEF Browsers!Snapshot
<1>3. /\ server' \in [at: {"idle", "add", "close", "snapshot", "send"},
                      fd: Fds \union {NoClient}, type: {"none", "api", "logs"},
                      doc: Documents]
      /\ \/ /\ server'.at = "send" /\ server'.fd = server.fd /\ server'.doc = device
            /\ unsure' = unsure
         \/ server'.at = "idle" /\ unsure' = [unsure EXCEPT ![server.fd] = Browsers!Fields]
  BY <1>0, <1>2, IdleIsTyped DEF WebData, Browsers!Idle
<1>4. WebData'
  <2>1. unsure' \in [Fds -> SUBSET Browsers!Fields]
    BY <1>0, <1>3 DEF WebData
  <2> QED
    BY <1>0, <1>1, <1>3, <2>1 DEF WebData
<1>5. TableFits' /\ OneEntryEach' /\ BaselineIs'
  BY <1>0, <1>1, SameClients DEF WebInv, TableFits, BaselineIs
<1>6. ServerFits'
  BY <1>0, <1>1, <1>3 DEF ServerFits
<1>7. Views'
  <2> SUFFICES ASSUME NEW g \in Fds, Served(g)', NEW f \in Browsers!Fields
               PROVE  Standing(g, f)'
    BY DEF Views
  <2>1. CASE g = server.fd
    <3>1. unsure'[g] = Browsers!Fields
      BY <1>0, <1>3, <2>1 DEF WebData, Served, Browsers!Joins
    <3> QED
      BY <3>1 DEF Standing
  <2>2. CASE g # server.fd
    <3>1. Standing(g, f)
      BY <1>0, <1>1, <2>2, SameClients DEF Views, Served, Browsers!Joins
    <3>2. unsure'[g] = unsure[g]
      BY <1>0, <1>3, <2>2 DEF WebData
    <3> QED
      BY <1>1, <3>1, <3>2 DEF Standing, Browsers!Changed
  <2> QED
    BY <2>1, <2>2
<1> QED
  BY <1>4, <1>5, <1>6, <1>7 DEF WebInv

LEMMA SendFullKeeps == ASSUME WebIsSound, WebInv, Browsers!SendFull PROVE WebInv'
<1>0. /\ WebData /\ TableFits /\ ServerFits /\ Views /\ server.at = "send"
      /\ server.fd \in Fds /\ server.fd \in joining
      /\ \A f \in Browsers!Fields : f \in unsure[server.fd] \/ server.doc[f] = device[f]
  BY DEF WebInv, Browsers!SendFull, ServerFits
<1>1. /\ server' = Browsers!Idle
      /\ UNCHANGED <<device, conns, api, baseline, logFds, joining, unsure>>
  BY DEF Browsers!SendFull
<1>2. server' \in [at: {"idle", "add", "close", "snapshot", "send"},
                   fd: Fds \union {NoClient}, type: {"none", "api", "logs"},
                   doc: Documents]
      /\ server'.at = "idle"
  BY <1>1, IdleIsTyped DEF Browsers!Idle
<1>3. BaselineIs' /\ ServerFits'
  BY <1>1, <1>2 DEF WebInv, BaselineIs, ServerFits
<1>4. CASE view' = [view EXCEPT ![server.fd] = server.doc]
           /\ UNCHANGED <<table, closing, leaked>>
  <2>1. view' \in [Fds -> Documents] /\ view'[server.fd] = server.doc
        /\ \A g \in Fds : g # server.fd => view'[g] = view[g]
    BY <1>0, <1>4 DEF WebData
  <2>2. WebData'
    BY <1>0, <1>1, <1>2, <1>4, <2>1 DEF WebData
  <2>3. TableFits' /\ OneEntryEach'
    BY <1>0, <1>1, <1>4, SameClients DEF TableFits
  <2>4. Views'
    <3> SUFFICES ASSUME NEW g \in Fds, Served(g)', NEW f \in Browsers!Fields
                 PROVE  Standing(g, f)'
      BY DEF Views
    <3>1. CASE g = server.fd
      BY <1>0, <1>1, <2>1, <3>1 DEF Standing
    <3>2. CASE g # server.fd
      <4>1. Standing(g, f)
        BY <1>0, <1>4, <3>2, SameClients DEF Views, Served, Browsers!Joins
      <4> QED
        BY <1>1, <2>1, <3>2, <4>1 DEF Standing, Browsers!Changed
    <3> QED
      BY <3>1, <3>2
  <2> QED
    BY <1>3, <2>2, <2>3, <2>4 DEF WebInv
<1>5. CASE Browsers!Removed(server.fd) /\ closing' = closing \union {server.fd}
           /\ view' = view
  <2>1. Fewer
    BY <1>0, <1>5, RemovedIsFewer
  <2>2. WebData'
    BY <1>0, <1>1, <1>2, <1>5, <2>1 DEF WebData, Fewer
  <2>3. TableFits' /\ OneEntryEach'
    BY <1>1, <2>1, FewerKeeps
  <2>4. Views'
    <3> SUFFICES ASSUME NEW g \in Fds, Served(g)', NEW f \in Browsers!Fields
                 PROVE  Standing(g, f)'
      BY DEF Views
    <3>1. g \in Browsers!FdsOf("api") /\ g \notin leaked /\ g \notin closing /\ g # server.fd
      BY <1>5, <2>1, FewerKeeps DEF Served, Fewer
    <3>2. Standing(g, f)
      BY <1>0, <3>1 DEF Views, Served, Browsers!Joins
    <3> QED
      BY <1>1, <1>5, <3>2 DEF Standing, Browsers!Changed
  <2> QED
    BY <1>3, <2>2, <2>3, <2>4 DEF WebInv
<1> QED
  BY <1>4, <1>5 DEF Browsers!SendFull

(* A frame that is not sent ends the client it was for.                     *)
LEMMA RemovalKeeps ==
    ASSUME WebIsSound, WebInv, NEW fd \in Fds, Browsers!Removed(fd),
           closing' \in {closing, closing \union {fd}},
           conns[fd] = "free" \/ fd \in closing',
           UNCHANGED <<device, conns, server, baseline, view, joining, unsure>>,
           logFds' \subseteq logFds,
           api' = api \/ api' = [api EXCEPT !.fds = @ \ {fd}]
    PROVE  WebInv'
<1>0. WebData /\ TableFits /\ ServerFits /\ Views
  BY DEF WebInv
<1>1. Fewer
  BY RemovedIsFewer
<1>2. /\ api' \in [at: {"offline", "wait", "build", "copy", "send"}, current: Documents,
                   fds: SUBSET Fds]
      /\ api'.at = api.at /\ api'.current = api.current
      /\ \A g \in Fds : g # fd => (g \in api'.fds <=> g \in api.fds)
  BY <1>0 DEF WebData
<1>3. WebData'
  BY <1>0, <1>1, <1>2 DEF WebData, Fewer
<1>4. TableFits' /\ OneEntryEach' /\ BaselineIs'
  BY <1>1, <1>2, FewerKeeps DEF WebInv, BaselineIs
<1>5. ServerFits'
  <2>1. Browsers!FreeSlots # {} => Browsers!FreeSlots' # {}
    BY <1>1, FewerKeeps
  <2>2. HasEntry(server.fd)' => HasEntry(server.fd)
    BY <1>1, FewerKeeps
  <2>3. leaked \subseteq leaked'
    BY <1>1 DEF Fewer
  <2>4. (HasEntry(server.fd))' <=> HasEntry(server.fd)'
    OBVIOUS
  <2>5. (HasEntry(server.fd) => server.fd \in leaked)
        => (HasEntry(server.fd) => server.fd \in leaked)'
    BY <2>2, <2>3
  <2> QED
    BY <1>0, <2>1, <2>5 DEF ServerFits
<1>6. Views'
  <2> SUFFICES ASSUME NEW g \in Fds, Served(g)', NEW f \in Browsers!Fields
               PROVE  Standing(g, f)'
    BY DEF Views
  <2>1. g \in Browsers!FdsOf("api") /\ g \notin leaked /\ g \notin closing'
    BY <1>1, FewerKeeps DEF Served, Fewer
  <2>2. g # fd
    BY <1>0, <2>1, ServedIsOpen
  <2>3. Standing(g, f)
    BY <1>0, <2>1 DEF Views, Served, Browsers!Joins
  <2> QED
    BY <1>2, <2>2, <2>3 DEF Standing, Browsers!Changed
<1> QED
  BY <1>3, <1>4, <1>5, <1>6 DEF WebInv

LEMMA LogSendKeeps ==
    ASSUME WebIsSound, WebInv, NEW fd \in Fds, Browsers!LogSend(fd) PROVE WebInv'
<1>0. /\ WebData /\ TableFits /\ ServerFits /\ Views
      /\ UNCHANGED <<device, conns, server, api, baseline, joining>>
      /\ logFds' = logFds \ {fd}
  BY DEF WebInv, Browsers!LogSend
<1>1. CASE UNCHANGED <<view, unsure, table, closing, leaked>>
  <2>1. WebData'
    BY <1>0, <1>1 DEF WebData
  <2>2. TableFits' /\ OneEntryEach' /\ BaselineIs' /\ ServerFits'
    BY <1>0, <1>1, SameClients DEF WebInv, TableFits, BaselineIs, ServerFits
  <2>3. Views'
    BY <1>0, <1>1, SameClients DEF Views, Served, Standing, Browsers!Joins,
       Browsers!Changed
  <2> QED
    BY <2>1, <2>2, <2>3 DEF WebInv
<1>2. CASE conns[fd] = "free" /\ Browsers!Removed(fd) /\ UNCHANGED <<closing, view, unsure>>
  BY <1>0, <1>2, RemovalKeeps
<1>3. CASE Browsers!Removed(fd) /\ closing' = closing \union {fd}
           /\ UNCHANGED <<view, unsure>>
  BY <1>0, <1>3, RemovalKeeps
<1> QED
  BY <1>1, <1>2, <1>3 DEF Browsers!LogSend, Browsers!Send

LEMMA ApiSendKeeps ==
    ASSUME WebIsSound, WebInv, NEW fd \in Fds, Browsers!ApiSend(fd) PROVE WebInv'
<1> DEFINE D == Browsers!Changed(baseline, api.current)
<1>0. /\ WebData /\ TableFits /\ ServerFits /\ Views /\ api.at = "send"
      /\ UNCHANGED <<device, conns, server, baseline, logFds, joining>>
      /\ api' = [api EXCEPT !.fds = @ \ {fd}]
  BY DEF WebInv, Browsers!ApiSend
<1>1. CASE Browsers!Shown(fd, api.current, D) /\ UNCHANGED <<table, closing, leaked>>
  <2>1. /\ api' \in [at: {"offline", "wait", "build", "copy", "send"}, current: Documents,
                     fds: SUBSET Fds]
        /\ api'.at = "send" /\ api'.current = api.current
        /\ \A g \in Fds : g # fd => (g \in api'.fds <=> g \in api.fds)
    BY <1>0 DEF WebData
  <2> HIDE DEF D
  <2>2. CASE conns[fd] = "api"
    <3>1. /\ view' = [view EXCEPT ![fd] = [f \in Browsers!Fields |->
                                             IF f \in D THEN api.current[f] ELSE @[f]]]
          /\ unsure' = IF Browsers!Joins(fd) THEN unsure ELSE [unsure EXCEPT ![fd] = @ \ D]
      BY <1>1, <2>2 DEF Browsers!Shown
    <3>2. api.current \in Documents
      BY <1>0 DEF WebData
    <3>3. view' \in [Fds -> Documents]
      BY <1>0, <3>1, <3>2 DEF WebData, Documents
    <3>4. unsure' \in [Fds -> SUBSET Browsers!Fields]
      BY <1>0, <3>1 DEF WebData
    <3>5. /\ \A g \in Fds : g # fd => view'[g] = view[g] /\ unsure'[g] = unsure[g]
          /\ Browsers!Joins(fd) => unsure' = unsure
          /\ \A f \in Browsers!Fields :
               /\ f \in D => view'[fd][f] = api.current[f]
               /\ f \notin D => /\ view'[fd][f] = view[fd][f]
                                /\ f \in unsure[fd] => f \in unsure'[fd]
      BY <1>0, <3>1 DEF WebData
    <3>6. WebData'
      BY <1>0, <1>1, <2>1, <3>3, <3>4 DEF WebData
    <3>7. TableFits' /\ OneEntryEach' /\ BaselineIs'
      BY <1>0, <1>1, <2>1, SameClients DEF WebInv, TableFits, BaselineIs
    <3>8. ServerFits'
      <4>1. server.at = "send" => unsure'[server.fd] = unsure[server.fd]
        BY <1>0, <3>5 DEF ServerFits, Browsers!Joins
      <4> QED
        BY <1>0, <1>1, <4>1, SameClients DEF ServerFits
    <3>9. Views'
      <4> SUFFICES ASSUME NEW g \in Fds, Served(g)', NEW f \in Browsers!Fields
                   PROVE  Standing(g, f)'
        BY DEF Views
      <4>1. Standing(g, f)
        BY <1>0, <1>1, SameClients DEF Views, Served, Browsers!Joins
      <4>2. CASE g # fd
        BY <1>0, <2>1, <3>5, <4>1, <4>2 DEF Standing, D
      <4>3. CASE g = fd /\ f \in D
        BY <2>1, <3>5, <4>3 DEF Standing
      <4>4. CASE g = fd /\ f \notin D
        BY <1>0, <2>1, <3>5, <4>1, <4>4 DEF Standing, D
      <4> QED
        BY <4>2, <4>3, <4>4
    <3> QED
      BY <3>6, <3>7, <3>8, <3>9 DEF WebInv
  <2>3. CASE conns[fd] # "api"
    <3>1. UNCHANGED <<view, unsure>>
      BY <1>1, <2>3 DEF Browsers!Shown
    <3>2. WebData'
      BY <1>0, <1>1, <2>1, <3>1 DEF WebData
    <3>3. TableFits' /\ OneEntryEach' /\ BaselineIs' /\ ServerFits'
      BY <1>0, <1>1, <2>1, <3>1, SameClients DEF WebInv, TableFits, BaselineIs, ServerFits
    <3>4. Views'
      <4> SUFFICES ASSUME NEW g \in Fds, Served(g)', NEW f \in Browsers!Fields
                   PROVE  Standing(g, f)'
        BY DEF Views
      <4>1. Standing(g, f) /\ g \in Browsers!FdsOf("api") /\ g \notin leaked
        BY <1>0, <1>1, SameClients DEF Views, Served, Browsers!Joins
      <4>2. g # fd
        BY <1>0, <2>3, <4>1, ServedIsOpen
      <4> QED
        BY <1>0, <2>1, <3>1, <4>1, <4>2 DEF Standing
    <3> QED
      BY <3>2, <3>3, <3>4 DEF WebInv
  <2> QED
    BY <2>2, <2>3
<1>2. CASE conns[fd] = "free" /\ Browsers!Removed(fd) /\ UNCHANGED <<closing, view, unsure>>
  BY <1>0, <1>2, RemovalKeeps
<1>3. CASE Browsers!Removed(fd) /\ closing' = closing \union {fd}
           /\ UNCHANGED <<view, unsure>>
  BY <1>0, <1>3, RemovalKeeps
<1> QED
  BY <1>1, <1>2, <1>3 DEF Browsers!ApiSend, Browsers!Send

LEMMA WebKeeps == ASSUME WebIsSound, WebInv, [Browsers!Next]_Browsers!vars PROVE WebInv'
<1>1. CASE UNCHANGED Browsers!vars
  <2>1. UNCHANGED <<device, conns, table, server, api, baseline, logFds, closing, view,
                    joining, unsure, leaked>>
    BY <1>1 DEF Browsers!vars, Browsers!history, Browsers!bounds
  <2>2. WebData'
    BY <2>1 DEF WebInv, WebData
  <2>3. TableFits' /\ OneEntryEach' /\ BaselineIs' /\ ServerFits'
    BY <2>1, SameClients DEF WebInv, TableFits, BaselineIs, ServerFits
  <2>4. Views'
    BY <2>1, SameClients
       DEF WebInv, Views, Served, Standing, Browsers!Joins, Browsers!Changed
  <2> QED
    BY <2>2, <2>3, <2>4 DEF WebInv
<1>2. CASE Browsers!Next
  BY <1>2, FieldChangeKeeps, CloseKeeps, AcceptKeeps, ApiSendKeeps, LogSendKeeps,
     HandshakeKeeps,
     AddKeeps, RefuseKeeps, SnapshotKeeps, SendFullKeeps, OnlineKeeps, ApiLookKeeps,
     ApiBuildKeeps, ApiCopyKeeps, ApiDoneKeeps, LogCopyKeeps
     DEF Browsers!Next
<1> QED
  BY <1>1, <1>2

LEMMA ClientsAreServedByInv == ASSUME WebIsSound, WebInv PROVE Browsers!ClientsAreServed
<1>1. \A s \in ClientSlots :
        table[s] # Browsers!NoEntry /\ table[s].fd \notin leaked =>
          conns[table[s].fd] = table[s].type
  BY DEF WebInv, TableFits
<1>2. server.at = "add" => Browsers!FreeSlots # {}
  BY DEF WebInv, ServerFits
<1>3. ASSUME api.at = "wait", NEW fd \in Browsers!FdsOf("api") \ (closing \union leaked),
             ~Browsers!Joins(fd), NEW f \in Browsers!Fields
      PROVE  Browsers!Known(fd, f)
  <2>1. fd \in Fds
    BY ServedIsOpen DEF WebInv
  <2>2. Standing(fd, f)
    BY <1>3, <2>1 DEF WebInv, Views, Served
  <2> QED
    BY <1>3, <2>2 DEF Standing, Browsers!Known
<1> QED
  BY <1>1, <1>2, <1>3 DEF Browsers!ClientsAreServed

LEMMA ClientsAreTyped == ASSUME WebIsSound, WebInv PROVE Browsers!TypeOK
<1>1. \A s \in ClientSlots : table[s].fd \in Fds \union {NoClient}
  BY DEF WebInv, WebData, Entered, Browsers!NoEntry
<1> QED
  BY <1>1 DEF WebInv, WebData, Browsers!TypeOK

(* The type invariant of the websockets.                                    *)
THEOREM ClientTypes == ASSUME WebIsSound PROVE Browsers!Spec => []Browsers!TypeOK
<1>1. Browsers!Init => WebInv
  BY WebBegins
<1>2. WebInv /\ [Browsers!Next]_Browsers!vars => WebInv'
  BY WebKeeps
<1>3. WebInv => Browsers!TypeOK
  BY ClientsAreTyped
<1> QED
  BY <1>1, <1>2, <1>3, PTL DEF Browsers!Spec

(* A reader is sent the log, unless a restart cut a long write short, and   *)
(* every byte of it is accounted for, however far the writers are ahead,    *)
(* for any size of the ring and of what is read at once; an entry of the    *)
(* table is an open connection, and between two updates a browser shows     *)
(* what the next one is compared with, for any sockets and places.          *)
THEOREM ViewersSeeTheDeviceAlways ==
    ASSUME LogIsSound, WebIsSound PROVE PartsSpec => []ViewersSeeTheDevice
<1> DEFINE P == /\ part = "log" => LogInv
                /\ part = "clients" => WebInv
<1>1. PartsInit => P
  BY Zenon, LogBegins, WebBegins DEF PartsInit
<1>2. P /\ [PartsNext]_partsVars => P'
  <2> SUFFICES ASSUME P, [PartsNext]_partsVars PROVE P'
    OBVIOUS
  <2>1. /\ part' = part
        /\ part = "log" => [Log!Next]_Log!vars
        /\ part = "clients" => [Browsers!Next]_Browsers!vars
    BY Zenon DEF PartsNext, partsVars
  <2> QED
    BY Zenon, <2>1, LogKeeps, WebKeeps
<1>3. P => ViewersSeeTheDevice
  BY Zenon, ReadersSeeTheLogByInv, ClientsAreServedByInv DEF ViewersSeeTheDevice
<1> QED
  BY <1>1, <1>2, <1>3, PTL DEF PartsSpec
=============================================================================

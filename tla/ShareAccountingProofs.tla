------------------------ MODULE ShareAccountingProofs ------------------------
(***************************************************************************)
(* Proofs about the shares and what the pool says of them. About           *)
(* ShareAccounting, for any reasons, size of their table and number of     *)
(* shares and sessions: once the pool has answered every share, the        *)
(* counters are what it decided. The inductive invariant follows each      *)
(* share from the socket to the counters, and each refusal to its reason.  *)
(* And about V1Messages: the lines of a pool are understood as it meant    *)
(* them. There the invariant follows each line from the pool to the loop   *)
(* of stratum_v1_run.                                                      *)
(***************************************************************************)
EXTENDS Services, FiniteSetTheorems, SequenceTheorems, WellFoundedInduction, TLAPS

(* Of natural numbers one is the least.                                     *)
LEMMA LeastExists ==
    ASSUME NEW S \in SUBSET Nat, S # {}
    PROVE  \E k \in S : \A j \in S : k <= j
<1> DEFINE Less == OpToRel(<, Nat)
<1>1. PICK k \in S : \A j \in S : ~(<<j, k>> \in Less)
  <2>1. IsWellFoundedOn(Less, Nat)
    BY NatLessThanWellFounded
  <2>2. S \subseteq Nat /\ S # {}
    OBVIOUS
  <2> QED
    BY ONLY <2>1, <2>2, WFMin
<1>2. ASSUME NEW j \in S PROVE k <= j
  <2>1. SUFFICES ASSUME j < k PROVE FALSE
    OBVIOUS
  <2>2. <<j, k>> \in Less
    BY <2>1 DEF OpToRel
  <2> QED
    BY <1>1, <2>2
<1> QED
  BY <1>2

---------------------------------------------------------------------------
(* The share statistics: once the pool has answered, the counters agree     *)
(* with its decisions. No reason has the text that stands for none, and the *)
(* bounds are numbers.                                                      *)
SharesAreSound ==
    /\ Shares!None \notin Reasons
    /\ TableSize \in Nat /\ SessionShares \in Nat

Numbers == 0..SessionShares
Answers == [last: Numbers, count: 1..SessionShares,
            reason: Reasons \cup {Shares!None}]
Listed == [message: Reasons, count: Nat]

(* The shares that the answers on the way with one of the given reasons are *)
(* about, each with the place of its answer.                                *)
Units(q, S) ==
    {p \in (1..Len(q)) \X (1..SessionShares) : q[p[1]].reason \in S /\ p[2] <= q[p[1]].count}
Held(q, S) == Cardinality(Units(q, S))

LEMMA UpToHasThatMany ==
    ASSUME NEW k \in Nat PROVE IsFiniteSet(1..k) /\ Cardinality(1..k) = k
<1>1. IsFiniteSet(1..k) /\ Cardinality(1..k) = IF 1 > k THEN 0 ELSE k - 1 + 1
  BY FS_Interval
<1>2. (IF 1 > k THEN 0 ELSE k - 1 + 1) = k
  OBVIOUS
<1> QED
  BY <1>1, <1>2

LEMMA UnitsAre ==
    ASSUME SharesAreSound, NEW q \in Seq(Answers), NEW S, NEW i, NEW j
    PROVE  <<i, j>> \in Units(q, S) <=>
               i \in 1..Len(q) /\ j \in 1..q[i].count /\ q[i].reason \in S
<1>1. CASE i \in 1..Len(q)
  <2>1. q[i].count \in 1..SessionShares
    <3>1. q[i] \in Answers
      BY <1>1
    <3> QED
      BY <3>1 DEF Answers
  <2>2. j \in 1..q[i].count <=> j \in 1..SessionShares /\ j <= q[i].count
    BY <2>1 DEF SharesAreSound
  <2> QED
    BY <1>1, <2>2 DEF Units
<1>2. CASE i \notin 1..Len(q)
  BY <1>2 DEF Units
<1> QED
  BY <1>1, <1>2

LEMMA UnitsArePairs ==
    ASSUME SharesAreSound, NEW q \in Seq(Answers), NEW S, NEW p \in Units(q, S)
    PROVE  p = <<p[1], p[2]>> /\ p[1] \in 1..Len(q) /\ p[2] \in 1..SessionShares
BY DEF Units

LEMMA UnitsAreFinite ==
    ASSUME SharesAreSound, NEW q \in Seq(Answers), NEW S
    PROVE  IsFiniteSet(Units(q, S)) /\ Held(q, S) \in Nat
<1>1. IsFiniteSet(1..Len(q)) /\ IsFiniteSet(1..SessionShares)
  BY FS_Interval DEF SharesAreSound
<1>2. IsFiniteSet((1..Len(q)) \X (1..SessionShares))
  BY <1>1, FS_Product
<1>3. Units(q, S) \subseteq (1..Len(q)) \X (1..SessionShares)
  BY DEF Units
<1>4. IsFiniteSet(Units(q, S))
  BY <1>2, <1>3, FS_Subset
<1> QED
  BY <1>4, FS_CardinalityType DEF Held

LEMMA NoUnits ==
    ASSUME NEW S PROVE Units(<<>>, S) = {} /\ Held(<<>>, S) = 0
<1>1. Units(<<>>, S) = {}
  BY DEF Units
<1> QED
  BY <1>1, FS_EmptySet DEF Held

(* An answer at the end brings the shares it is about.                      *)
LEMMA UnitsAppended ==
    ASSUME SharesAreSound, NEW q \in Seq(Answers), NEW a \in Answers, NEW S
    PROVE  Held(Append(q, a), S) = Held(q, S) + (IF a.reason \in S THEN a.count ELSE 0)
<1> DEFINE n == Len(q) + 1
           r == Append(q, a)
           T == {n} \X (1..a.count)
<1>1. /\ r \in Seq(Answers) /\ Len(r) = n /\ r[n] = a /\ n \in Nat
      /\ \A i \in 1..Len(q) : r[i] = q[i]
  BY AppendProperties
<1>2. a.count \in Nat
  BY DEF Answers
<1> HIDE DEF r
<1>3. CASE a.reason \notin S
  <2>1. ASSUME NEW i, NEW j PROVE <<i, j>> \in Units(r, S) <=> <<i, j>> \in Units(q, S)
    BY <1>1, <1>3, UnitsAre
  <2>2. Units(r, S) = Units(q, S)
    <3>1. ASSUME NEW p \in Units(r, S) PROVE p \in Units(q, S)
      BY <1>1, <2>1, UnitsArePairs
    <3>2. ASSUME NEW p \in Units(q, S) PROVE p \in Units(r, S)
      BY <2>1, UnitsArePairs
    <3> QED
      BY <3>1, <3>2
  <2> QED
    BY <1>3, <2>2, UnitsAreFinite DEF Held, r
<1>4. CASE a.reason \in S
  <2>1. ASSUME NEW i, NEW j
        PROVE  <<i, j>> \in Units(r, S) <=> <<i, j>> \in Units(q, S) \/ <<i, j>> \in T
    <3>1. <<i, j>> \in T <=> i = n /\ j \in 1..a.count
      OBVIOUS
    <3>2. <<i, j>> \in Units(r, S) <=> i \in 1..n /\ j \in 1..r[i].count /\ r[i].reason \in S
      BY <1>1, UnitsAre
    <3>3. <<i, j>> \in Units(q, S) <=>
            i \in 1..Len(q) /\ j \in 1..q[i].count /\ q[i].reason \in S
      BY UnitsAre
    <3>4. i \in 1..n <=> i \in 1..Len(q) \/ i = n
      OBVIOUS
    <3> QED
      BY <1>1, <1>4, <3>1, <3>2, <3>3, <3>4
  <2>2. ASSUME NEW p \in T PROVE p = <<p[1], p[2]>>
    OBVIOUS
  <2>3. Units(r, S) = Units(q, S) \cup T
    BY <1>1, <2>1, <2>2, UnitsArePairs
  <2>4. Units(q, S) \cap T = {}
    <3>1. ASSUME NEW p \in Units(q, S), p \in T PROVE FALSE
      <4>1. p[1] \in 1..Len(q) /\ p[1] = n
        BY <3>1, UnitsArePairs
      <4> QED
        BY <4>1
    <3> QED
      BY <3>1
  <2>5. IsFiniteSet(T) /\ Cardinality(T) = a.count
    <3>1. IsFiniteSet(1..a.count) /\ Cardinality(1..a.count) = a.count
      BY <1>2, UpToHasThatMany
    <3>2. IsFiniteSet({n}) /\ Cardinality({n}) = 1
      BY FS_Singleton
    <3>3. IsFiniteSet(T) /\ Cardinality(T) = Cardinality({n}) * Cardinality(1..a.count)
      BY <3>1, <3>2, FS_Product
    <3> QED
      BY <1>2, <3>1, <3>2, <3>3
  <2>6. IsFiniteSet(Units(q, S)) /\ Cardinality(Units(q, S)) \in Nat
    BY UnitsAreFinite DEF Held
  <2> HIDE DEF T
  <2>7. Cardinality(Units(r, S)) =
          Cardinality(Units(q, S)) + Cardinality(T) - Cardinality(Units(q, S) \cap T)
    BY <2>3, <2>5, <2>6, FS_Union
  <2>8. Cardinality(Units(q, S) \cap T) = 0
    BY <2>4, FS_EmptySet
  <2> QED
    BY <1>2, <1>4, <2>5, <2>6, <2>7, <2>8 DEF Held, r
<1> QED
  BY <1>3, <1>4

(* The first answer takes the shares it is about.                           *)
LEMMA UnitsTaken ==
    ASSUME SharesAreSound, NEW q \in Seq(Answers), q # <<>>, NEW S
    PROVE  Held(q, S) = Held(Tail(q), S) + (IF Head(q).reason \in S THEN Head(q).count ELSE 0)
<1> DEFINE a == Head(q)
           t == Tail(q)
           T == IF a.reason \in S THEN {1} \X (1..a.count) ELSE {}
           U == {<<p[1] + 1, p[2]>> : p \in Units(t, S)}
           f == [p \in Units(t, S) |-> <<p[1] + 1, p[2]>>]
<1>1. /\ a \in Answers /\ t \in Seq(Answers) /\ Len(t) = Len(q) - 1 /\ Len(q) \in Nat \ {0}
      /\ \A i \in 1..Len(t) : t[i] = q[i + 1]
      /\ q[1] = a
  BY HeadTailProperties
<1>2. a.count \in Nat
  BY <1>1 DEF Answers
<1> HIDE DEF a, t
<1>3. IsFiniteSet(T) /\ Cardinality(T) = IF a.reason \in S THEN a.count ELSE 0
  <2>1. IsFiniteSet(1..a.count) /\ Cardinality(1..a.count) = a.count
    BY <1>2, UpToHasThatMany
  <2>2. IsFiniteSet({1}) /\ Cardinality({1}) = 1
    BY FS_Singleton
  <2>3. /\ IsFiniteSet({1} \X (1..a.count))
        /\ Cardinality({1} \X (1..a.count)) = Cardinality({1}) * Cardinality(1..a.count)
    BY <2>1, <2>2, FS_Product
  <2> QED
    BY <1>2, <2>1, <2>2, <2>3, FS_EmptySet
<1>4. IsFiniteSet(Units(t, S)) /\ Cardinality(Units(t, S)) \in Nat
  BY <1>1, UnitsAreFinite DEF Held
<1>5. IsFiniteSet(U) /\ Cardinality(U) = Cardinality(Units(t, S))
  <2>1. f \in [Units(t, S) -> U]
    OBVIOUS
  <2>2. ASSUME NEW x \in Units(t, S), NEW y \in Units(t, S), f[x] = f[y] PROVE x = y
    <3>1. /\ x = <<x[1], x[2]>> /\ x[1] \in 1..Len(t)
          /\ y = <<y[1], y[2]>> /\ y[1] \in 1..Len(t)
      BY <1>1, UnitsArePairs
    <3>2. x[1] + 1 = y[1] + 1 /\ x[2] = y[2]
      BY <2>2
    <3>3. x[1] = y[1]
      BY <1>1, <3>1, <3>2
    <3> QED
      BY <3>1, <3>2, <3>3
  <2>3. \A y \in U : \E x \in Units(t, S) : f[x] = y
    OBVIOUS
  <2> HIDE DEF f, U
  <2>4. f \in Bijection(Units(t, S), U)
    BY <2>1, <2>2, <2>3 DEF Bijection, Injection, Surjection, IsInjective
  <2> QED
    BY <1>4, <2>4, FS_Bijection DEF ExistsBijection
<1>6. ASSUME NEW i, NEW j
      PROVE  <<i, j>> \in Units(q, S) <=> <<i, j>> \in T \/ <<i, j>> \in U
  <2>1. <<i, j>> \in T <=> a.reason \in S /\ i = 1 /\ j \in 1..a.count
    OBVIOUS
  <2>2. <<i, j>> \in U <=> i - 1 \in 1..Len(t) /\ i \in Int /\ <<i - 1, j>> \in Units(t, S)
    <3>1. ASSUME <<i, j>> \in U
          PROVE  i - 1 \in 1..Len(t) /\ i \in Int /\ <<i - 1, j>> \in Units(t, S)
      <4>1. PICK p \in Units(t, S) : <<i, j>> = <<p[1] + 1, p[2]>>
        BY <3>1
      <4>2. p = <<p[1], p[2]>> /\ p[1] \in 1..Len(t)
        BY <1>1, UnitsArePairs
      <4>3. i = p[1] + 1 /\ j = p[2] /\ p[1] \in Int
        BY <1>1, <4>1, <4>2
      <4> QED
        BY <4>2, <4>3
    <3>2. ASSUME i \in Int, <<i - 1, j>> \in Units(t, S) PROVE <<i, j>> \in U
      <4>1. <<i - 1, j>>[1] + 1 = i /\ <<i - 1, j>>[2] = j
        BY <3>2
      <4> QED
        BY <3>2, <4>1
    <3> QED
      BY <3>1, <3>2
  <2>3. <<i, j>> \in Units(q, S) <=> i \in 1..Len(q) /\ j \in 1..q[i].count /\ q[i].reason \in S
    BY UnitsAre
  <2>4. <<i - 1, j>> \in Units(t, S) <=>
          i - 1 \in 1..Len(t) /\ j \in 1..t[i - 1].count /\ t[i - 1].reason \in S
    BY <1>1, UnitsAre
  <2>5. i \in 1..Len(q) <=> i = 1 \/ (i \in Int /\ i - 1 \in 1..Len(t))
    BY <1>1
  <2>6. i \in Int /\ i - 1 \in 1..Len(t) => t[i - 1] = q[i] /\ i # 1
    BY <1>1
  <2> HIDE DEF T, U
  <2> QED
    BY <1>1, <2>1, <2>2, <2>3, <2>4, <2>5, <2>6
<1>7. ASSUME NEW p \in T \cup U PROVE p = <<p[1], p[2]>>
  OBVIOUS
<1>8. Units(q, S) = T \cup U
  BY <1>6, <1>7, UnitsArePairs
<1>9. T \cap U = {}
  <2>1. ASSUME NEW p \in T, p \in U PROVE FALSE
    <3>1. PICK x \in Units(t, S) : p = <<x[1] + 1, x[2]>>
      BY <2>1
    <3>2. p[1] = 1 /\ p[1] = x[1] + 1 /\ x[1] \in 1..Len(t)
      BY <1>1, <3>1, UnitsArePairs
    <3> QED
      BY <1>1, <3>2
  <2> QED
    BY <2>1
<1> HIDE DEF T, U
<1>10. Cardinality(T \cup U) = Cardinality(T) + Cardinality(U) - Cardinality(T \cap U)
  BY <1>3, <1>5, FS_Union
<1>11. Cardinality(T \cap U) = 0
  BY <1>9, FS_EmptySet
<1> QED
  BY <1>2, <1>3, <1>4, <1>5, <1>8, <1>10, <1>11 DEF Held, a, t

---------------------------------------------------------------------------
(* The inductive invariant. What is on the way.                             *)
SharesNumbers ==
    /\ seq \in Numbers /\ resolved \in 0..seq /\ left \in Numbers
    /\ submitted \in Nat /\ accepted \in Nat /\ rejected \in Nat /\ shown \in Numbers
    /\ rLocal \in Numbers /\ sLocal \in Numbers /\ good \in Nat /\ bad \in Nat
    /\ sessions \in Nat

SharesFlags ==
    /\ v2 \in BOOLEAN /\ locked \in BOOLEAN /\ open \in BOOLEAN
    /\ raced \in BOOLEAN /\ overtaken \in BOOLEAN

SharesOnTheWay ==
    /\ arriving \in Seq(Numbers) /\ \A i \in 1..Len(arriving) : arriving[i] < seq
    /\ batch \subseteq Numbers /\ \A n \in batch : n < seq
    /\ answers \in Seq(Answers) /\ \A i \in 1..Len(answers) : answers[i].last < seq
    /\ \A i \in 1..Len(answers) : answers[i].reason # Shares!None => answers[i].count = 1

(* Where the two tasks are; only a share that is sent holds the mutex, and  *)
(* a refusal is about one share.                                            *)
Phases ==
    /\ rpc \in {"idle", "count", "show"} /\ spc \in {"read", "count", "show"}
    /\ reason \in Reasons \cup {Shares!None}
    /\ rpc # "idle" => locked
    /\ spc # "read" => left >= 1 /\ (reason # Shares!None => left = 1)

(* Between two sessions nothing is left of the last one.                    *)
NothingIsLeft ==
    /\ rpc = "idle" /\ spc = "read" /\ arriving = <<>> /\ batch = {} /\ answers = <<>>
    /\ good = 0 /\ bad = 0 /\ submitted = 0 /\ accepted = 0 /\ rejected = 0 /\ shown = 0
    /\ reasons = <<>> /\ refused = [r \in Reasons |-> 0]

(* Every share that was sent is judged or on its way.                       *)
SentAreCounted ==
    /\ submitted + (IF rpc = "count" THEN 1 ELSE 0) = Len(arriving) + good + bad
    /\ Len(arriving) + good + bad <= seq

(* What the stratum task has yet to count of the answer it has read.        *)
CreditDue ==
    IF reason # Shares!None \/ spc = "read" THEN 0 ELSE IF spc = "count" THEN left ELSE left - 1
RefusalDue == IF reason # Shares!None /\ spc = "count" THEN 1 ELSE 0

(* Every share the pool accepted is counted, being counted, in an answer or *)
(* not acknowledged; none is lost unless an answer was overtaken.           *)
Credits == accepted + CreditDue + Held(answers, {Shares!None}) + Cardinality(batch)
CreditsAdd == Credits <= good /\ (~overtaken => Credits = good)

RefusalsAdd == rejected + RefusalDue + Held(answers, Reasons) = bad

(* The same for each reason of the table.                                   *)
Unlisted(r) ==
    Held(answers, {r}) + (IF spc # "read" /\ reason = r THEN 1 ELSE 0)
IsListed(list, r) == \E i \in 1..Len(list) : list[i].message = r
TableAdds ==
    /\ reasons \in Seq(Listed) /\ Len(reasons) <= TableSize
    /\ refused \in [Reasons -> Nat] /\ \A r \in Reasons : refused[r] <= bad
    /\ \A i \in 1..Len(reasons) :
         reasons[i].count + Unlisted(reasons[i].message) = refused[reasons[i].message]
    /\ Len(reasons) < TableSize =>
         \A r \in Reasons : IsListed(reasons, r) \/ refused[r] = Unlisted(r)

(* What is shown, or about to be, is what is outstanding.                   *)
ShownIsOutstanding ==
    /\ rpc = "show" => rLocal = Shares!Outstanding(submitted, accepted, rejected)
    /\ spc = "show" => sLocal = Shares!Outstanding(submitted, accepted, rejected)
    /\ rpc # "show" /\ spc # "show" =>
         shown = Shares!Outstanding(submitted, accepted, rejected)

(* The numbers of a V2 session are in order: what is resolved, the answers, *)
(* the shares they are about, those not acknowledged and those on the way.  *)
After(q, i, n) == IF i = 1 THEN n ELSE q[i - 1].last + 1
End(q, n) == IF q = <<>> THEN n ELSE q[Len(q)].last + 1
NumbersAreInOrder ==
    /\ \A i \in 1..Len(answers) :
         answers[i].last + 1 >= After(answers, i, resolved) + answers[i].count
    /\ \A n \in batch : n >= End(answers, resolved)
    /\ \A i \in 1..Len(arriving) :
         arriving[i] >= End(answers, resolved) /\ \A n \in batch : n < arriving[i]
    /\ \A i, j \in 1..Len(arriving) : i < j => arriving[i] < arriving[j]

SharesInv ==
    /\ SharesNumbers /\ SharesFlags /\ SharesOnTheWay /\ Phases
    /\ ~open => NothingIsLeft
    /\ SentAreCounted /\ CreditsAdd /\ RefusalsAdd /\ TableAdds
    /\ ~raced => ShownIsOutstanding
    /\ v2 /\ ~overtaken => NumbersAreInOrder

---------------------------------------------------------------------------
LEMMA SharesBegin == ASSUME SharesAreSound, Shares!Init PROVE SharesInv
<1>1. /\ seq = 0 /\ resolved = 0 /\ submitted = 0 /\ accepted = 0 /\ rejected = 0 /\ shown = 0
      /\ rLocal = 0 /\ sLocal = 0 /\ left = 0 /\ good = 0 /\ bad = 0 /\ sessions = 1
      /\ reasons = <<>> /\ arriving = <<>> /\ batch = {} /\ answers = <<>>
      /\ refused = [r \in Reasons |-> 0] /\ rpc = "idle" /\ spc = "read" /\ reason = Shares!None
  BY DEF Shares!Init
<1>2. SharesFlags /\ open
  BY Zenon DEF Shares!Init, SharesFlags
<1>3. SharesNumbers
  BY <1>1 DEF SharesNumbers, Numbers, SharesAreSound
<1>4. SharesOnTheWay /\ Phases
  BY <1>1 DEF SharesOnTheWay, Phases
<1>5. SentAreCounted
  BY <1>1 DEF SentAreCounted
<1>6. \A S : Held(answers, S) = 0
  BY <1>1, NoUnits
<1>7. CreditsAdd
  BY <1>1, <1>6, FS_EmptySet DEF CreditsAdd, Credits, CreditDue
<1>8. RefusalsAdd
  BY <1>1, <1>6 DEF RefusalsAdd, RefusalDue
<1>9. TableAdds
  BY <1>1, <1>6 DEF TableAdds, Unlisted, SharesAreSound
<1>10. ShownIsOutstanding
  BY <1>1 DEF ShownIsOutstanding, Shares!Outstanding, Shares!Settled
<1>11. NumbersAreInOrder
  BY <1>1 DEF NumbersAreInOrder
<1> QED
  BY <1>2, <1>3, <1>4, <1>5, <1>7, <1>8, <1>9, <1>10, <1>11 DEF SharesInv

LEMMA HeldAreNumbers ==
    ASSUME SharesAreSound, SharesInv
    PROVE  /\ \A S : Held(answers, S) \in Nat
           /\ IsFiniteSet(batch) /\ Cardinality(batch) \in Nat
<1>1. answers \in Seq(Answers) /\ batch \subseteq Numbers
  BY DEF SharesInv, SharesOnTheWay
<1>2. IsFiniteSet(Numbers)
  BY FS_Interval DEF Numbers, SharesAreSound
<1>3. IsFiniteSet(batch)
  BY <1>1, <1>2, FS_Subset
<1> QED
  BY <1>1, <1>3, UnitsAreFinite, FS_CardinalityType

(* What does not change of the sums over the answers.                       *)
LEMMA SumsAreKept ==
    ASSUME SharesInv,
           UNCHANGED <<answers, batch, good, bad, spc, reason, left, accepted, rejected>>,
           UNCHANGED overtaken
    PROVE  CreditsAdd' /\ RefusalsAdd'
<1>1. CreditsAdd /\ RefusalsAdd
  BY DEF SharesInv
<1>2. Credits' = Credits /\ RefusalDue' = RefusalDue
  BY DEF Credits, CreditDue, RefusalDue, Held
<1> QED
  BY <1>1, <1>2 DEF CreditsAdd, RefusalsAdd, Held

LEMMA TableIsKept ==
    ASSUME SharesInv, UNCHANGED <<answers, bad, refused, spc, reason, reasons>>
    PROVE  TableAdds'
<1>1. \A r : Unlisted(r)' = Unlisted(r) /\ IsListed(reasons, r)' = IsListed(reasons, r)
  BY DEF Unlisted, Held, IsListed
<1> QED
  BY <1>1 DEF TableAdds, SharesInv

(* A share is sent, or its number is used up.                               *)
LEMMA SubmitKeeps ==
    ASSUME SharesAreSound, SharesInv, Shares!Submit PROVE SharesInv'
<1>1. /\ UNCHANGED <<resolved, submitted, accepted, rejected, shown, reasons, rLocal>>
      /\ UNCHANGED <<spc, sLocal, left, reason, batch, answers, good, bad, refused, sessions>>
      /\ rpc = "idle" /\ rpc' = "count" /\ seq < SessionShares /\ seq' = seq + 1
      /\ arriving' = Append(arriving, seq)
  BY DEF Shares!Submit, Shares!counters, Shares!stratumTask
<1>2. open /\ open' /\ locked' /\ SharesFlags'
  BY Zenon DEF Shares!Submit, SharesInv, SharesFlags
<1>3. UNCHANGED <<raced, overtaken, v2>>
  BY DEF Shares!Submit
<1>4. SharesNumbers' /\ Phases'
  BY <1>1, <1>2 DEF SharesInv, SharesNumbers, Phases, Numbers, SharesAreSound
<1>5. /\ seq \in Numbers /\ arriving \in Seq(Numbers) /\ arriving' \in Seq(Numbers)
      /\ Len(arriving') = Len(arriving) + 1 /\ arriving'[Len(arriving) + 1] = seq
      /\ \A i \in 1..Len(arriving) : arriving'[i] = arriving[i]
  BY <1>1, AppendProperties DEF SharesInv, SharesNumbers, SharesOnTheWay
<1>6. SharesOnTheWay'
  <2>1. \A i \in 1..Len(arriving') : arriving'[i] < seq'
    <3>1. \A i \in 1..Len(arriving) : arriving[i] \in Numbers /\ arriving[i] < seq
      BY DEF SharesInv, SharesOnTheWay
    <3> QED
      BY <1>1, <1>5, <3>1 DEF Numbers
  <2>2. /\ \A n \in batch : n < seq'
        /\ \A i \in 1..Len(answers) : answers[i].last < seq'
    <3>1. \A i \in 1..Len(answers) : answers[i] \in Answers
      BY DEF SharesInv, SharesOnTheWay
    <3> QED
      BY <1>1, <1>5, <3>1 DEF SharesInv, SharesOnTheWay, Answers, Numbers
  <2> QED
    BY <1>1, <1>5, <2>1, <2>2 DEF SharesInv, SharesOnTheWay
<1>7. SentAreCounted'
  BY <1>1, <1>5 DEF SharesInv, SentAreCounted, SharesNumbers, Numbers
<1>8. CreditsAdd' /\ RefusalsAdd' /\ TableAdds'
  BY <1>1, <1>3, SumsAreKept, TableIsKept
<1>9. ~raced' => ShownIsOutstanding'
  <2>1. ~raced' => ~raced
    BY <1>3
  <2>2. ~raced => ShownIsOutstanding'
    BY <1>1 DEF SharesInv, ShownIsOutstanding
  <2> QED
    BY <2>1, <2>2
<1>10. v2' /\ ~overtaken' => NumbersAreInOrder'
  <2>1. v2' /\ ~overtaken' => NumbersAreInOrder
    BY <1>3 DEF SharesInv
  <2>2. ASSUME NumbersAreInOrder PROVE NumbersAreInOrder'
    <3>1. seq >= End(answers, resolved) /\ \A n \in batch : n < seq
      <4>1. CASE answers = <<>>
        BY <4>1 DEF End, SharesInv, SharesNumbers, SharesOnTheWay, Numbers
      <4>2. CASE answers # <<>>
        <5>1. Len(answers) \in 1..Len(answers)
          BY <4>2 DEF SharesInv, SharesOnTheWay
        <5>2. answers[Len(answers)] \in Answers /\ answers[Len(answers)].last < seq
          BY <5>1 DEF SharesInv, SharesOnTheWay
        <5>3. End(answers, resolved) = answers[Len(answers)].last + 1
          BY <4>2 DEF End
        <5>4. answers[Len(answers)].last \in Nat /\ seq \in Nat
          BY <1>5, <5>2 DEF Answers, Numbers
        <5>5. \A n \in batch : n < seq
          BY DEF SharesInv, SharesOnTheWay
        <5> QED
          BY <5>2, <5>3, <5>4, <5>5
      <4> QED
        BY <4>1, <4>2
    <3>2. UNCHANGED <<End(answers, resolved), answers, resolved, batch>>
      BY <1>1 DEF End
    <3>3. \A i \in 1..Len(arriving') :
            arriving'[i] >= End(answers, resolved) /\ \A n \in batch : n < arriving'[i]
      BY <1>5, <2>2, <3>1 DEF NumbersAreInOrder
    <3>4. \A i, j \in 1..Len(arriving') : i < j => arriving'[i] < arriving'[j]
      <4>1. \A i \in 1..Len(arriving) : arriving[i] < seq
        BY DEF SharesInv, SharesOnTheWay
      <4> QED
        BY <1>5, <2>2, <4>1 DEF NumbersAreInOrder
    <3>5. \A i \in 1..Len(answers) : UNCHANGED After(answers, i, resolved)
      BY <1>1 DEF After
    <3> QED
      BY <2>2, <3>2, <3>3, <3>4, <3>5 DEF NumbersAreInOrder
  <2> QED
    BY <2>1, <2>2
<1> QED
  BY <1>2, <1>4, <1>6, <1>7, <1>8, <1>9, <1>10 DEF SharesInv

LEMMA SubmitFailsKeeps ==
    ASSUME SharesAreSound, SharesInv, Shares!SubmitFails PROVE SharesInv'
<1>1. /\ UNCHANGED <<resolved, submitted, accepted, rejected, shown, reasons, rLocal, rpc>>
      /\ UNCHANGED <<spc, sLocal, left, reason, batch, answers, good, bad, refused, sessions>>
      /\ seq < SessionShares /\ seq' = seq + 1 /\ UNCHANGED arriving
  BY DEF Shares!SubmitFails, Shares!counters, Shares!stratumTask, Shares!resultTask,
     Shares!pool
<1>2. open /\ open' /\ SharesFlags'
  BY Zenon DEF Shares!SubmitFails, SharesInv, SharesFlags
<1>3. UNCHANGED <<raced, overtaken, v2, locked>>
  BY DEF Shares!SubmitFails
<1>4. SharesNumbers' /\ Phases'
  BY <1>1, <1>2, <1>3 DEF SharesInv, SharesNumbers, Phases, Numbers, SharesAreSound
<1>5. SharesOnTheWay'
  <2>1. \A i \in 1..Len(answers) : answers[i] \in Answers
    BY DEF SharesInv, SharesOnTheWay
  <2>2. \A i \in 1..Len(arriving) : arriving[i] \in Numbers
    BY DEF SharesInv, SharesOnTheWay
  <2>3. seq \in Nat /\ seq' = seq + 1 /\ \A n \in batch : n \in Nat
    BY <1>1 DEF SharesInv, SharesNumbers, SharesOnTheWay, Numbers
  <2>4. \A i \in 1..Len(answers) : answers[i].last \in Nat
    BY <2>1 DEF Answers, Numbers
  <2>5. \A i \in 1..Len(arriving) : arriving[i] \in Nat
    BY <2>2 DEF Numbers
  <2>6. /\ \A i \in 1..Len(answers) : answers[i].last < seq'
        /\ \A i \in 1..Len(arriving) : arriving[i] < seq'
        /\ \A n \in batch : n < seq'
    BY <2>3, <2>4, <2>5 DEF SharesInv, SharesOnTheWay
  <2>7. SharesOnTheWay /\ UNCHANGED <<arriving, batch, answers>>
    BY <1>1 DEF SharesInv
  <2> QED
    BY <2>3, <2>6, <2>7 DEF SharesOnTheWay
<1>6. SentAreCounted'
  BY <1>1 DEF SharesInv, SentAreCounted, SharesNumbers, Numbers, SharesOnTheWay
<1>7. CreditsAdd' /\ RefusalsAdd' /\ TableAdds'
  BY <1>1, <1>3, SumsAreKept, TableIsKept
<1>8. ShownIsOutstanding' = ShownIsOutstanding /\ NumbersAreInOrder' = NumbersAreInOrder
  BY <1>1 DEF ShownIsOutstanding, NumbersAreInOrder, After, End
<1> QED
  BY <1>2, <1>3, <1>4, <1>5, <1>6, <1>7, <1>8 DEF SharesInv

(* ASIC_result_task counts the share, and stores what it has computed.      *)
LEMMA CountSubmittedKeeps ==
    ASSUME SharesAreSound, SharesInv, Shares!CountSubmitted PROVE SharesInv'
<1>1. /\ UNCHANGED <<seq, resolved, accepted, rejected, shown, reasons>>
      /\ UNCHANGED <<spc, sLocal, left, reason, arriving, batch, answers, good, bad, refused>>
      /\ rpc = "count" /\ rpc' = "show" /\ submitted' = submitted + 1
      /\ rLocal' = Shares!Outstanding(submitted + 1, accepted, rejected) /\ UNCHANGED sessions
  BY DEF Shares!CountSubmitted, Shares!stratumTask, Shares!pool
<1>2. SharesFlags' /\ open' = open
  BY Zenon DEF Shares!CountSubmitted, SharesInv, SharesFlags
<1>3. UNCHANGED <<overtaken, v2, locked>>
  BY DEF Shares!CountSubmitted
<1>4. SentAreCounted'
  BY <1>1 DEF SharesInv, SentAreCounted, SharesNumbers
<1>5. rLocal' \in Numbers
  <2>1. submitted + 1 <= SessionShares
    <3>1. submitted + 1 = Len(arriving) + good + bad /\ Len(arriving) + good + bad <= seq
      BY <1>1 DEF SharesInv, SentAreCounted
    <3> QED
      BY <3>1 DEF SharesInv, SharesNumbers, Numbers, SharesAreSound, SharesOnTheWay
  <2> QED
    BY <1>1, <2>1 DEF Shares!Outstanding, Shares!Settled, SharesInv, SharesNumbers,
       Numbers,
       SharesAreSound
<1>6. SharesNumbers' /\ Phases'
  BY <1>1, <1>3, <1>5 DEF SharesInv, SharesNumbers, Phases
<1>7. SharesOnTheWay' = SharesOnTheWay /\ NumbersAreInOrder' = NumbersAreInOrder
  BY <1>1 DEF SharesOnTheWay, NumbersAreInOrder, After, End
<1>8. CreditsAdd' /\ RefusalsAdd' /\ TableAdds'
  BY <1>1, <1>3, SumsAreKept, TableIsKept
<1>9. ASSUME ~raced' PROVE ShownIsOutstanding'
  <2>1. spc # "show"
    BY <1>9 DEF Shares!CountSubmitted
  <2> QED
    BY <1>1, <2>1 DEF ShownIsOutstanding
<1>10. open
  BY <1>1 DEF SharesInv, NothingIsLeft
<1> QED
  BY <1>2, <1>3, <1>4, <1>6, <1>7, <1>8, <1>9, <1>10 DEF SharesInv

LEMMA ShowSubmittedKeeps ==
    ASSUME SharesAreSound, SharesInv, Shares!ShowSubmitted PROVE SharesInv'
<1>1. /\ UNCHANGED <<seq, resolved, submitted, accepted, rejected, reasons, rLocal, sessions>>
      /\ UNCHANGED <<spc, sLocal, left, reason, arriving, batch, answers, good, bad, refused>>
      /\ rpc = "show" /\ rpc' = "idle" /\ shown' = rLocal
  BY DEF Shares!ShowSubmitted, Shares!stratumTask, Shares!pool
<1>2. SharesFlags' /\ open' = open /\ ~locked'
  BY Zenon DEF Shares!ShowSubmitted, SharesInv, SharesFlags
<1>3. UNCHANGED <<overtaken, v2, raced>>
  BY DEF Shares!ShowSubmitted
<1>4. SentAreCounted'
  BY <1>1 DEF SharesInv, SentAreCounted, SharesNumbers
<1>5. SharesNumbers' /\ Phases'
  BY <1>1 DEF SharesInv, SharesNumbers, Phases
<1>6. SharesOnTheWay' = SharesOnTheWay /\ NumbersAreInOrder' = NumbersAreInOrder
  BY <1>1 DEF SharesOnTheWay, NumbersAreInOrder, After, End
<1>7. CreditsAdd' /\ RefusalsAdd' /\ TableAdds'
  BY <1>1, <1>3, SumsAreKept, TableIsKept
<1>8. ShownIsOutstanding => ShownIsOutstanding'
  BY <1>1 DEF ShownIsOutstanding
<1>9. open
  BY <1>1 DEF SharesInv, NothingIsLeft
<1> QED
  BY <1>2, <1>3, <1>4, <1>5, <1>6, <1>7, <1>8, <1>9 DEF SharesInv

(* The stratum task counts a share of the answer it has read.               *)
LEMMA CountAnsweredKeeps ==
    ASSUME SharesAreSound, SharesInv, Shares!CountAnswered PROVE SharesInv'
<1>1. /\ UNCHANGED <<seq, resolved, submitted, shown, reasons, rpc, rLocal, left, reason>>
      /\ UNCHANGED <<arriving, batch, answers, good, bad, refused, sessions>>
      /\ spc = "count" /\ spc' = "show"
      /\ accepted' = (IF reason = Shares!None THEN accepted + 1 ELSE accepted)
      /\ rejected' = (IF reason = Shares!None THEN rejected ELSE rejected + 1)
      /\ sLocal' = Shares!Outstanding(submitted, accepted', rejected')
  BY DEF Shares!CountAnswered, Shares!resultTask, Shares!pool
<1>2. SharesFlags' /\ open' = open
  BY Zenon DEF Shares!CountAnswered, SharesInv, SharesFlags
<1>3. UNCHANGED <<overtaken, v2, locked>>
  BY DEF Shares!CountAnswered
<1>4. accepted' \in Nat /\ rejected' \in Nat
  BY <1>1 DEF SharesInv, SharesNumbers
<1>5. sLocal' \in Numbers
  <2>1. submitted <= Len(arriving) + good + bad /\ Len(arriving) + good + bad <= seq
    BY DEF SharesInv, SentAreCounted, SharesNumbers
  <2>2. submitted <= SessionShares
    BY <2>1 DEF SharesInv, SharesNumbers, Numbers, SharesAreSound, SharesOnTheWay
  <2> QED
    BY <1>1, <1>4, <2>2 DEF Shares!Outstanding, Shares!Settled, SharesInv, SharesNumbers,
       Numbers, SharesAreSound
<1>6. SharesNumbers' /\ Phases'
  BY <1>1, <1>3, <1>4, <1>5 DEF SharesInv, SharesNumbers, Phases
<1>7. /\ SharesOnTheWay' = SharesOnTheWay /\ NumbersAreInOrder' = NumbersAreInOrder
      /\ SentAreCounted' = SentAreCounted
  BY <1>1 DEF SharesOnTheWay, NumbersAreInOrder, After, End, SentAreCounted
<1>8. CreditsAdd' /\ RefusalsAdd'
  <2>1. UNCHANGED <<Held(answers, {Shares!None}), Held(answers, Reasons), Cardinality(batch)>>
    BY <1>1 DEF Held
  <2>2. Held(answers, {Shares!None}) \in Nat /\ Cardinality(batch) \in Nat
    BY HeldAreNumbers
  <2>3. Credits' = Credits
    BY <1>1, <2>1, <2>2 DEF Credits, CreditDue, SharesInv, SharesNumbers, Numbers, Phases
  <2>4. rejected' + RefusalDue' = rejected + RefusalDue
    BY <1>1 DEF RefusalDue, SharesInv, SharesNumbers
  <2>5. CreditsAdd /\ RefusalsAdd
    BY DEF SharesInv
  <2> QED
    BY <1>1, <1>3, <2>1, <2>3, <2>4, <2>5 DEF CreditsAdd, RefusalsAdd
<1>9. TableAdds'
  <2>1. \A r : Unlisted(r)' = Unlisted(r) /\ IsListed(reasons, r)' = IsListed(reasons, r)
    BY <1>1 DEF Unlisted, Held, IsListed
  <2> QED
    BY <1>1, <2>1 DEF TableAdds, SharesInv
<1>10. ASSUME ~raced' PROVE ShownIsOutstanding'
  <2>1. rpc # "show"
    BY <1>10 DEF Shares!CountAnswered
  <2> QED
    BY <1>1, <2>1 DEF ShownIsOutstanding
<1>11. open
  BY <1>1 DEF SharesInv, NothingIsLeft
<1> QED
  BY <1>2, <1>3, <1>6, <1>7, <1>8, <1>9, <1>10, <1>11 DEF SharesInv

(* The session ends, and nothing of it is left; and a new one begins.       *)
LEMMA CloseSessionKeeps ==
    ASSUME SharesAreSound, SharesInv, Shares!CloseSession PROVE SharesInv'
<1>1. /\ submitted' = 0 /\ accepted' = 0 /\ rejected' = 0 /\ shown' = 0 /\ reasons' = <<>>
      /\ arriving' = <<>> /\ batch' = {} /\ answers' = <<>> /\ good' = 0 /\ bad' = 0
      /\ refused' = [r \in Reasons |-> 0] /\ spc = "read"
      /\ UNCHANGED <<seq, resolved, rpc, rLocal, spc, sLocal, left, reason, sessions>>
  BY DEF Shares!CloseSession, Shares!resultTask, Shares!stratumTask
<1>2. SharesFlags' /\ ~locked
  BY Zenon DEF Shares!CloseSession, Shares!MayReset, SharesInv, SharesFlags
<1>3. UNCHANGED locked
  BY DEF Shares!CloseSession
<1>4. rpc = "idle"
  BY <1>2 DEF SharesInv, Phases
<1>5. SharesNumbers' /\ Phases'
  BY <1>1, <1>3 DEF SharesInv, SharesNumbers, Phases, Numbers, SharesAreSound
<1>6. NothingIsLeft'
  BY <1>1, <1>4 DEF NothingIsLeft
<1>7. SharesOnTheWay'
  BY <1>1 DEF SharesOnTheWay
<1>8. SentAreCounted'
  BY <1>1, <1>4 DEF SentAreCounted, SharesInv, SharesNumbers, Numbers
<1>9. \A S : Held(answers, S)' = 0
  BY <1>1, NoUnits DEF Held
<1>10. CreditsAdd'
  BY <1>1, <1>9, FS_EmptySet DEF CreditsAdd, Credits, CreditDue
<1>11. RefusalsAdd'
  BY <1>1, <1>9 DEF RefusalsAdd, RefusalDue
<1>12. TableAdds'
  BY <1>1, <1>9 DEF TableAdds, Unlisted, SharesAreSound
<1>13. ShownIsOutstanding'
  BY <1>1, <1>4 DEF ShownIsOutstanding, Shares!Outstanding, Shares!Settled
<1>14. NumbersAreInOrder'
  BY <1>1 DEF NumbersAreInOrder
<1> QED
  BY <1>2, <1>5, <1>6, <1>7, <1>8, <1>10, <1>11, <1>12, <1>13, <1>14 DEF SharesInv

LEMMA OpenSessionKeeps ==
    ASSUME SharesAreSound, SharesInv, Shares!OpenSession PROVE SharesInv'
<1>1. /\ UNCHANGED <<submitted, accepted, rejected, shown, reasons, rpc, rLocal, spc, sLocal>>
      /\ UNCHANGED <<left, reason, arriving, batch, answers, good, bad, refused>>
      /\ seq' = 0 /\ resolved' = 0 /\ sessions' = sessions + 1
  BY DEF Shares!OpenSession, Shares!counters, Shares!resultTask, Shares!stratumTask,
     Shares!pool
<1>2. SharesFlags' /\ ~open /\ open'
  BY Zenon DEF Shares!OpenSession, SharesInv, SharesFlags
<1>3. UNCHANGED <<v2, locked, raced, overtaken>>
  BY DEF Shares!OpenSession
<1>4. NothingIsLeft
  BY <1>2 DEF SharesInv
<1>5. SharesNumbers' /\ Phases'
  BY <1>1, <1>3 DEF SharesInv, SharesNumbers, Phases, Numbers, SharesAreSound
<1>6. SharesOnTheWay'
  BY <1>1, <1>4 DEF SharesOnTheWay, NothingIsLeft
<1>7. SentAreCounted'
  BY <1>1, <1>4 DEF SentAreCounted, NothingIsLeft
<1>8. CreditsAdd' /\ RefusalsAdd' /\ TableAdds'
  BY <1>1, <1>3, SumsAreKept, TableIsKept
<1>9. ShownIsOutstanding' = ShownIsOutstanding
  BY <1>1 DEF ShownIsOutstanding
<1>10. NumbersAreInOrder'
  BY <1>1, <1>4 DEF NumbersAreInOrder, NothingIsLeft
<1> QED
  BY <1>2, <1>3, <1>5, <1>6, <1>7, <1>8, <1>9, <1>10 DEF SharesInv

---------------------------------------------------------------------------
(* The first share on the way is the next the pool judges; the others come  *)
(* after it.                                                                *)
LEMMA ArrivingShare ==
    ASSUME SharesAreSound, SharesInv, arriving # <<>>, arriving' = Tail(arriving)
    PROVE  /\ Head(arriving) \in Numbers /\ Head(arriving) < seq
           /\ arriving' \in Seq(Numbers)
           /\ \A i \in 1..Len(arriving') : arriving'[i] \in Nat /\ arriving'[i] < seq
           /\ Len(arriving) = Len(arriving') + 1 /\ SessionShares >= 1
           /\ NumbersAreInOrder =>
                /\ Head(arriving) >= End(answers, resolved)
                /\ \A n \in batch : n < Head(arriving)
                /\ \A i \in 1..Len(arriving') : Head(arriving) < arriving'[i]
                /\ \A i \in 1..Len(arriving') : \A n \in batch : n < arriving'[i]
                /\ \A i, j \in 1..Len(arriving') : i < j => arriving'[i] < arriving'[j]
<1>1. arriving \in Seq(Numbers) /\ \A i \in 1..Len(arriving) : arriving[i] < seq
  BY DEF SharesInv, SharesOnTheWay
<1>2. /\ Head(arriving) \in Numbers /\ arriving' \in Seq(Numbers)
      /\ Len(arriving') = Len(arriving) - 1 /\ Len(arriving) \in Nat
      /\ \A i \in 1..Len(arriving') : arriving'[i] = arriving[i + 1]
      /\ Head(arriving) = arriving[1] /\ Len(arriving) >= 1
  BY <1>1, HeadTailProperties
<1>3. Head(arriving) < seq /\ \A i \in 1..Len(arriving') : arriving'[i] < seq
  BY <1>1, <1>2
<1>6. ASSUME NEW i \in 1..Len(arriving') PROVE arriving'[i] \in Nat
  <2>1. arriving'[i] \in Numbers
    BY <1>2
  <2> QED
    BY <2>1 DEF Numbers
<1>4. SessionShares >= 1
  BY <1>2, <1>3 DEF SharesInv, SharesNumbers, Numbers, SharesAreSound
<1>5. ASSUME NumbersAreInOrder
      PROVE  /\ Head(arriving) >= End(answers, resolved)
             /\ \A n \in batch : n < Head(arriving)
             /\ \A i \in 1..Len(arriving') : Head(arriving) < arriving'[i]
             /\ \A i \in 1..Len(arriving') : \A n \in batch : n < arriving'[i]
             /\ \A i, j \in 1..Len(arriving') : i < j => arriving'[i] < arriving'[j]
  BY <1>2, <1>5 DEF NumbersAreInOrder
<1> QED
  BY <1>2, <1>3, <1>4, <1>5, <1>6

(* An answer that follows the others in their order keeps it.               *)
LEMMA OrderIsKept ==
    ASSUME SharesAreSound, SharesInv, NumbersAreInOrder, NEW a \in Answers,
           answers' = Append(answers, a), resolved' = resolved, batch' = {},
           a.last + 1 >= End(answers, resolved) + a.count,
           \A i \in 1..Len(arriving') : arriving'[i] >= a.last + 1,
           \A i, j \in 1..Len(arriving') : i < j => arriving'[i] < arriving'[j]
    PROVE  NumbersAreInOrder'
<1>1. answers \in Seq(Answers)
  BY DEF SharesInv, SharesOnTheWay
<1> DEFINE n == Len(answers)
<1>2. /\ answers' \in Seq(Answers) /\ answers' # <<>> /\ Len(answers') = n + 1 /\ n \in Nat
      /\ answers'[n + 1] = a /\ \A i \in 1..n : answers'[i] = answers[i]
  BY <1>1, AppendProperties
<1>3. End(answers', resolved') = a.last + 1
  BY <1>2 DEF End
<1>4. After(answers', n + 1, resolved') = End(answers, resolved)
  <2>1. CASE n = 0
    BY <1>1, <2>1 DEF After, End
  <2>2. CASE n # 0
    BY <1>1, <1>2, <2>2 DEF After, End
  <2> QED
    BY <2>1, <2>2
<1>5. ASSUME NEW i \in 1..n PROVE After(answers', i, resolved') = After(answers, i, resolved)
  BY <1>2 DEF After
<1>6. ASSUME NEW i \in 1..Len(answers')
      PROVE  answers'[i].last + 1 >= After(answers', i, resolved') + answers'[i].count
  <2>1. CASE i = n + 1
    BY <1>2, <1>4, <2>1
  <2>2. CASE i \in 1..n
    BY <1>2, <1>5, <2>2 DEF NumbersAreInOrder
  <2> QED
    BY <1>2, <2>1, <2>2
<1> QED
  BY <1>3, <1>6 DEF NumbersAreInOrder

LEMMA EndIsNumber == ASSUME SharesInv PROVE End(answers, resolved) \in Int
<1>1. resolved \in Int /\ answers \in Seq(Answers)
  BY DEF SharesInv, SharesNumbers, SharesOnTheWay
<1>2. ASSUME answers # <<>> PROVE answers[Len(answers)].last \in Int
  <2>1. answers[Len(answers)] \in Answers
    BY <1>1, <1>2
  <2> QED
    BY <2>1 DEF Answers, Numbers
<1> QED
  BY <1>1, <1>2 DEF End

LEMMA EntriesAreListed ==
    ASSUME TableAdds, NEW i \in 1..Len(reasons)
    PROVE  reasons[i].message \in Reasons /\ reasons[i].count \in Nat
<1>1. reasons[i] \in Listed
  BY DEF TableAdds
<1> QED
  BY <1>1 DEF Listed

(* What an answer adds to those on the way.                                 *)
LEMMA AnswerIsSent ==
    ASSUME SharesAreSound, SharesInv, NEW a \in Answers, answers' = Append(answers, a),
           seq' = seq, a.last < seq, a.reason # Shares!None => a.count = 1,
           arriving' \in Seq(Numbers), \A i \in 1..Len(arriving') : arriving'[i] < seq,
           batch' \subseteq batch
    PROVE  /\ SharesOnTheWay'
           /\ \A S : Held(answers', S) =
                       Held(answers, S) + (IF a.reason \in S THEN a.count ELSE 0)
<1>1. SharesOnTheWay
  BY DEF SharesInv
<1>2. /\ answers' \in Seq(Answers) /\ Len(answers') = Len(answers) + 1
      /\ answers'[Len(answers) + 1] = a /\ \A i \in 1..Len(answers) : answers'[i] = answers[i]
  BY <1>1, AppendProperties DEF SharesOnTheWay
<1>3. \A i \in 1..Len(answers') : i \in 1..Len(answers) \/ i = Len(answers) + 1
  BY <1>1, <1>2 DEF SharesOnTheWay
<1>4. /\ \A i \in 1..Len(answers') : answers'[i].last < seq
      /\ \A i \in 1..Len(answers') : answers'[i].reason # Shares!None => answers'[i].count = 1
  BY <1>1, <1>2, <1>3 DEF SharesOnTheWay
<1>5. batch' \subseteq Numbers /\ \A n \in batch' : n < seq
  BY <1>1 DEF SharesOnTheWay
<1>6. \A S : Held(answers', S) = Held(answers, S) + (IF a.reason \in S THEN a.count ELSE 0)
  BY <1>1, UnitsAppended DEF SharesOnTheWay
<1> QED
  BY <1>2, <1>4, <1>5, <1>6 DEF SharesOnTheWay

(* What the pool does changes neither the tasks nor the counters.           *)
LEMMA PoolLeaves ==
    ASSUME SharesAreSound, SharesInv, arriving # <<>> \/ batch # {},
           UNCHANGED <<seq, resolved, submitted, accepted, rejected, shown, rpc, rLocal>>,
           UNCHANGED <<spc, sLocal, left, reason, sessions>>, UNCHANGED <<v2, locked, open, raced>>,
           good' \in Nat, bad' \in Nat, overtaken' \in BOOLEAN
    PROVE  /\ SharesNumbers' /\ SharesFlags' /\ Phases' /\ open'
           /\ ~raced' => ShownIsOutstanding'
<1>1. open
  BY DEF SharesInv, NothingIsLeft
<1>2. SharesNumbers' /\ Phases'
  BY DEF SharesInv, SharesNumbers, Phases
<1>3. SharesFlags'
  BY DEF SharesInv, SharesFlags
<1>4. ShownIsOutstanding' = ShownIsOutstanding
  BY DEF ShownIsOutstanding
<1> QED
  BY <1>1, <1>2, <1>3, <1>4 DEF SharesInv

(* The pool accepts a share: V1 answers at once, V2 in a later batch.       *)
LEMMA PoolAcceptsKeeps ==
    ASSUME SharesAreSound, SharesInv, Shares!PoolAccepts PROVE SharesInv'
<1> DEFINE h == Head(arriving)
           a == [last |-> h, count |-> 1, reason |-> Shares!None]
<1>1. /\ UNCHANGED <<seq, resolved, submitted, accepted, rejected, shown, rpc, rLocal>>
      /\ UNCHANGED <<spc, sLocal, left, reason, sessions>> /\ UNCHANGED <<reasons, bad, refused>>
      /\ arriving # <<>> /\ arriving' = Tail(arriving) /\ good' = good + 1
      /\ UNCHANGED <<v2, locked, open, raced>> /\ UNCHANGED overtaken
  BY DEF Shares!PoolAccepts, Shares!counters, Shares!resultTask, Shares!stratumTask
<1>2. /\ SharesNumbers' /\ SharesFlags' /\ Phases' /\ open'
      /\ ~raced' => ShownIsOutstanding'
  <2>1. good' \in Nat /\ bad' \in Nat /\ overtaken' \in BOOLEAN
    BY <1>1 DEF SharesInv, SharesNumbers, SharesFlags
  <2> QED
    BY <1>1, <2>1, PoolLeaves
<1>3. /\ h \in Numbers /\ h < seq /\ arriving' \in Seq(Numbers)
      /\ \A i \in 1..Len(arriving') : arriving'[i] \in Nat /\ arriving'[i] < seq
      /\ Len(arriving) = Len(arriving') + 1 /\ SessionShares >= 1
  BY <1>1, ArrivingShare
<1>4. SentAreCounted'
  BY <1>1, <1>3 DEF SentAreCounted, SharesInv, SharesNumbers, Numbers
<1>5. \A S : Held(answers, S) \in Nat
  BY HeldAreNumbers
<1>6. IsFiniteSet(batch) /\ Cardinality(batch) \in Nat
  BY HeldAreNumbers
<1>7. accepted + CreditDue \in Nat /\ good \in Nat
  BY DEF SharesInv, SharesNumbers, CreditDue, Phases, Numbers
<1>8. CreditDue' = CreditDue /\ RefusalDue' = RefusalDue /\ accepted' = accepted
  BY <1>1 DEF CreditDue, RefusalDue
<1>9. CreditsAdd /\ RefusalsAdd /\ TableAdds
  BY DEF SharesInv
<1>10. CASE v2
  <2>1. batch' = batch \cup {h} /\ UNCHANGED answers
    BY <1>10 DEF Shares!PoolAccepts
  <2>2. SharesOnTheWay'
    BY <1>1, <1>3, <2>1 DEF SharesInv, SharesOnTheWay
  <2>3. \A S : Held(answers', S) = Held(answers, S)
    BY <2>1
  <2>4. /\ Cardinality(batch') = IF h \in batch THEN Cardinality(batch) ELSE Cardinality(batch) + 1
    BY <1>6, <2>1, FS_AddElement
  <2>5. CreditsAdd'
    <3>1. Credits' <= Credits + 1
      BY <1>5, <1>6, <1>7, <1>8, <2>3, <2>4 DEF Credits
    <3>2. Credits \in Nat
      BY <1>5, <1>6, <1>7 DEF Credits
    <3>3. Credits' \in Nat
      BY <1>5, <1>6, <1>7, <1>8, <2>3, <2>4 DEF Credits
    <3>4. ASSUME ~overtaken PROVE Credits' = Credits + 1
      <4>1. h \notin batch
        <5>1. NumbersAreInOrder
          BY <1>10, <3>4 DEF SharesInv
        <5>2. \A n \in batch : n < h
          BY <1>1, <5>1, ArrivingShare
        <5> QED
          BY <1>3, <5>2 DEF Numbers
      <4> QED
        BY <1>5, <1>6, <1>7, <1>8, <2>3, <2>4, <4>1 DEF Credits
    <3>5. Credits' <= good' /\ (~overtaken => Credits' = good')
      BY <1>1, <1>7, <1>9, <3>1, <3>2, <3>3, <3>4 DEF CreditsAdd
    <3> QED
      BY <1>1, <3>5 DEF CreditsAdd
  <2>6. RefusalsAdd'
    BY <1>1, <1>8, <1>9, <2>3 DEF RefusalsAdd
  <2>7. TableAdds'
    BY <1>1, <2>1, TableIsKept
  <2>8. ASSUME ~overtaken PROVE NumbersAreInOrder'
    <3>1. NumbersAreInOrder
      BY <1>10, <2>8 DEF SharesInv
    <3>2. /\ h >= End(answers, resolved) /\ \A n \in batch : n < h
          /\ \A i \in 1..Len(arriving') : h < arriving'[i]
          /\ \A i \in 1..Len(arriving') : \A n \in batch : n < arriving'[i]
          /\ \A i, j \in 1..Len(arriving') : i < j => arriving'[i] < arriving'[j]
      BY <1>1, <3>1, ArrivingShare
    <3>3. End(answers', resolved') = End(answers, resolved) /\ End(answers, resolved) \in Int
      BY <1>1, <2>1, EndIsNumber DEF End
    <3>4. \A i \in 1..Len(answers') :
            answers'[i].last + 1 >= After(answers', i, resolved') + answers'[i].count
      BY <1>1, <2>1, <3>1 DEF NumbersAreInOrder, After
    <3>5. \A n \in batch' : n >= End(answers', resolved')
      BY <2>1, <3>1, <3>2, <3>3 DEF NumbersAreInOrder
    <3>6. \A i \in 1..Len(arriving') : arriving'[i] >= End(answers', resolved')
      <4>1. h \in Int
        BY <1>3 DEF Numbers
      <4> QED
        BY <1>3, <3>2, <3>3, <4>1
    <3>7. \A i \in 1..Len(arriving') : \A n \in batch' : n < arriving'[i]
      BY <2>1, <3>2
    <3> QED
      BY <3>2, <3>4, <3>5, <3>6, <3>7 DEF NumbersAreInOrder
  <2> QED
    BY <1>1, <1>2, <1>4, <2>2, <2>5, <2>6, <2>7, <2>8 DEF SharesInv
<1>11. CASE ~v2
  <2>1. answers' = Append(answers, a) /\ batch' = batch
    BY <1>11 DEF Shares!PoolAccepts
  <2>2. a \in Answers
    BY <1>3 DEF Answers, SharesAreSound
  <2>3. /\ SharesOnTheWay'
        /\ \A S : Held(answers', S) =
                    Held(answers, S) + (IF a.reason \in S THEN a.count ELSE 0)
    <3>1. a.last < seq /\ (a.reason # Shares!None => a.count = 1) /\ batch' \subseteq batch
      BY <1>3, <2>1
    <3> HIDE DEF a
    <3> QED
      BY <1>1, <1>3, <2>1, <2>2, <3>1, AnswerIsSent
  <2>4. /\ Held(answers', {Shares!None}) = Held(answers, {Shares!None}) + 1
        /\ Held(answers', Reasons) = Held(answers, Reasons)
        /\ \A r \in Reasons : Held(answers', {r}) = Held(answers, {r})
    BY <1>5, <2>3 DEF SharesAreSound
  <2>5. CreditsAdd'
    <3>1. Credits' = Credits + 1 /\ Credits \in Nat
      BY <1>5, <1>6, <1>7, <1>8, <2>1, <2>4 DEF Credits
    <3>2. Credits' <= good' /\ (~overtaken => Credits' = good')
      BY <1>1, <1>7, <1>9, <3>1 DEF CreditsAdd
    <3> QED
      BY <1>1, <3>2 DEF CreditsAdd
  <2>6. RefusalsAdd'
    BY <1>1, <1>8, <1>9, <2>4 DEF RefusalsAdd
  <2>7. TableAdds'
    <3>1. \A r \in Reasons : Unlisted(r)' = Unlisted(r)
      BY <1>1, <2>4 DEF Unlisted
    <3>2. \A i \in 1..Len(reasons) : reasons[i].message \in Reasons
      BY <1>9, EntriesAreListed
    <3> QED
      BY <1>1, <1>9, <3>1, <3>2 DEF TableAdds, IsListed
  <2> QED
    BY <1>1, <1>2, <1>4, <1>11, <2>3, <2>5, <2>6, <2>7 DEF SharesInv
<1> QED
  BY <1>10, <1>11

(* A share that is refused is answered at once, with a reason.              *)
LEMMA PoolRefusesKeeps ==
    ASSUME SharesAreSound, SharesInv, Shares!PoolRefuses PROVE SharesInv'
<1> DEFINE h == Head(arriving)
<1>1. /\ UNCHANGED <<seq, resolved, submitted, accepted, rejected, shown, rpc, rLocal>>
      /\ UNCHANGED <<spc, sLocal, left, reason, sessions>> /\ UNCHANGED <<reasons, good, batch>>
      /\ arriving # <<>> /\ arriving' = Tail(arriving) /\ bad' = bad + 1
      /\ UNCHANGED <<v2, locked, open, raced>>
  BY DEF Shares!PoolRefuses, Shares!counters, Shares!resultTask, Shares!stratumTask
<1>2. PICK c \in Reasons :
        /\ answers' = Append(answers, [last |-> h, count |-> 1, reason |-> c])
        /\ refused' = [refused EXCEPT ![c] = @ + 1]
  BY DEF Shares!PoolRefuses
<1>3. overtaken' \in BOOLEAN /\ (~overtaken' => ~overtaken /\ batch = {})
  BY DEF Shares!PoolRefuses, SharesInv, SharesFlags
<1>4. /\ SharesNumbers' /\ SharesFlags' /\ Phases' /\ open'
      /\ ~raced' => ShownIsOutstanding'
  <2>1. good' \in Nat /\ bad' \in Nat
    BY <1>1 DEF SharesInv, SharesNumbers
  <2> QED
    BY <1>1, <1>3, <2>1, PoolLeaves
<1>5. /\ h \in Numbers /\ h < seq /\ arriving' \in Seq(Numbers)
      /\ \A i \in 1..Len(arriving') : arriving'[i] \in Nat /\ arriving'[i] < seq
      /\ Len(arriving) = Len(arriving') + 1 /\ SessionShares >= 1
  BY <1>1, ArrivingShare
<1> DEFINE a == [last |-> h, count |-> 1, reason |-> c]
<1>6. /\ a \in Answers /\ a.last = h /\ a.count = 1 /\ a.reason = c /\ c # Shares!None
      /\ answers' = Append(answers, a)
  BY <1>2, <1>5 DEF Answers, SharesAreSound
<1> HIDE DEF a
<1>7. /\ SharesOnTheWay'
      /\ \A S : Held(answers', S) = Held(answers, S) + (IF a.reason \in S THEN a.count ELSE 0)
  BY <1>1, <1>5, <1>6, AnswerIsSent
<1>8. \A S : Held(answers, S) \in Nat
  BY HeldAreNumbers
<1>9. /\ Held(answers', {Shares!None}) = Held(answers, {Shares!None})
      /\ Held(answers', Reasons) = Held(answers, Reasons) + 1
      /\ \A r \in Reasons : Held(answers', {r}) = Held(answers, {r}) + (IF r = c THEN 1 ELSE 0)
  BY <1>6, <1>7, <1>8
<1>10. SentAreCounted'
  BY <1>1, <1>5 DEF SentAreCounted, SharesInv, SharesNumbers, Numbers
<1>11. CreditsAdd /\ RefusalsAdd /\ TableAdds
  BY DEF SharesInv
<1>12. CreditsAdd'
  <2>1. Credits' = Credits
    BY <1>1, <1>9 DEF Credits, CreditDue
  <2> QED
    BY <1>1, <1>3, <1>11, <2>1 DEF CreditsAdd
<1>13. RefusalsAdd'
  <2>1. RefusalDue' = RefusalDue /\ RefusalDue \in Nat /\ rejected \in Nat /\ bad \in Nat
    BY <1>1 DEF RefusalDue, SharesInv, SharesNumbers
  <2>2. Held(answers, Reasons) \in Nat
    BY <1>8
  <2>3. Held(answers, Reasons)' = Held(answers, Reasons) + 1
    BY <1>9
  <2>4. rejected + RefusalDue + Held(answers, Reasons) = bad
    BY <1>11 DEF RefusalsAdd
  <2>5. rejected' + RefusalDue' + Held(answers, Reasons)' = bad'
    BY <1>1, <2>1, <2>2, <2>3, <2>4
  <2> QED
    BY <2>5 DEF RefusalsAdd
<1>14. TableAdds'
  <2>1. refused \in [Reasons -> Nat] /\ reasons \in Seq(Listed) /\ bad \in Nat
    BY <1>11 DEF TableAdds, SharesInv, SharesNumbers
  <2>2. \A r \in Reasons : refused'[r] = refused[r] + (IF r = c THEN 1 ELSE 0)
    BY <1>2, <2>1
  <2>3. refused' \in [Reasons -> Nat]
    BY <1>2, <2>1
  <2>4. \A r \in Reasons : refused'[r] <= bad'
    BY <1>1, <1>11, <2>1, <2>2 DEF TableAdds
  <2>5. \A r \in Reasons : /\ Unlisted(r) \in Nat
                           /\ Unlisted(r)' = Unlisted(r) + (IF r = c THEN 1 ELSE 0)
    BY <1>1, <1>8, <1>9 DEF Unlisted
  <2>6. \A i \in 1..Len(reasons) : reasons[i].message \in Reasons /\ reasons[i].count \in Nat
    BY <1>11, EntriesAreListed
  <2>7. \A i \in 1..Len(reasons) :
          reasons[i].count + Unlisted(reasons[i].message)' = refused'[reasons[i].message]
    <3>1. ASSUME NEW i \in 1..Len(reasons), NEW m \in Reasons, m = reasons[i].message
          PROVE  reasons[i].count + Unlisted(m)' = refused'[m]
      <4>1. reasons[i].count + Unlisted(m) = refused[m] /\ reasons[i].count \in Nat
        BY <1>11, <2>6, <3>1 DEF TableAdds
      <4>2. refused'[m] = refused[m] + (IF m = c THEN 1 ELSE 0) /\ refused[m] \in Nat
        BY <2>1, <2>2
      <4>3. Unlisted(m) \in Nat /\ Unlisted(m)' = Unlisted(m) + (IF m = c THEN 1 ELSE 0)
        BY <2>5
      <4> QED
        BY <4>1, <4>2, <4>3
    <3>2. reasons' = reasons
      BY <1>1
    <3> QED
      BY <2>6, <3>1, <3>2
  <2>8. Len(reasons) < TableSize =>
          \A r \in Reasons : IsListed(reasons, r) \/ refused'[r] = Unlisted(r)'
    BY <1>11, <2>1, <2>2, <2>5 DEF TableAdds
  <2> QED
    BY <1>1, <1>11, <2>3, <2>4, <2>7, <2>8 DEF TableAdds, IsListed
<1>15. ASSUME v2', ~overtaken' PROVE NumbersAreInOrder'
  <2>1. NumbersAreInOrder /\ batch' = {}
    BY <1>1, <1>3, <1>15 DEF SharesInv
  <2>2. /\ h >= End(answers, resolved) /\ \A i \in 1..Len(arriving') : h < arriving'[i]
        /\ \A i, j \in 1..Len(arriving') : i < j => arriving'[i] < arriving'[j]
    BY <1>1, <2>1, ArrivingShare
  <2>3. End(answers, resolved) \in Int
    BY EndIsNumber
  <2>4. a.last + 1 >= End(answers, resolved) + a.count
    BY <1>5, <1>6, <2>2, <2>3 DEF Numbers
  <2>5. \A i \in 1..Len(arriving') : arriving'[i] >= a.last + 1
    <3>1. h \in Nat
      BY <1>5 DEF Numbers
    <3> QED
      BY <1>5, <1>6, <2>2, <3>1
  <2> HIDE DEF h
  <2> QED
    BY <1>1, <1>6, <2>1, <2>2, <2>4, <2>5, OrderIsKept
<1> QED
  BY <1>4, <1>7, <1>10, <1>12, <1>13, <1>14, <1>15 DEF SharesInv

(* A set of numbers has a greatest, and no more members than those between  *)
(* a lower bound and it.                                                    *)
LEMMA GreatestNumberExists ==
    ASSUME SharesAreSound, NEW S \in SUBSET Numbers, S # {}
    PROVE  \E n \in S : \A k \in S : k <= n
<1> DEFINE T == {SessionShares - n : n \in S}
<1>1. T \in SUBSET Nat /\ T # {}
  <2>1. \A n \in S : SessionShares - n \in Nat
    BY DEF Numbers, SharesAreSound
  <2>2. \E n \in S : SessionShares - n \in T
    OBVIOUS
  <2> QED
    BY <2>1, <2>2
<1>2. PICK m \in T : \A k \in T : m <= k
  <2> HIDE DEF T
  <2> QED
    BY <1>1, LeastExists
<1>3. PICK n \in S : m = SessionShares - n
  BY <1>2
<1>4. ASSUME NEW k \in S PROVE k <= n
  <2>1. m <= SessionShares - k
    BY <1>2
  <2> QED
    BY <1>3, <2>1 DEF Numbers, SharesAreSound
<1> QED
  BY <1>4

LEMMA MembersFit ==
    ASSUME NEW l \in Int, NEW n \in Int, NEW S, S # {}, S \subseteq l..n
    PROVE  n + 1 >= l + Cardinality(S)
<1>1. l <= n
  <2>1. PICK k \in S : k \in l..n
    OBVIOUS
  <2> QED
    BY <2>1
<1>2. IsFiniteSet(l..n) /\ Cardinality(l..n) = IF l > n THEN 0 ELSE n - l + 1
  BY FS_Interval
<1>3. Cardinality(S) <= Cardinality(l..n) /\ IsFiniteSet(S)
  BY <1>2, FS_Subset
<1>4. Cardinality(S) \in Nat
  BY <1>3, FS_CardinalityType
<1>5. Cardinality(l..n) = n - l + 1
  BY <1>1, <1>2
<1> QED
  BY <1>3, <1>4, <1>5

LEMMA CardinalityIsTheSame == ASSUME NEW S PROVE Shares!Cardinality(S) = Cardinality(S)
BY DEF Cardinality, Shares!Cardinality

(* The pool acknowledges what it has accepted, in one answer.               *)
LEMMA PoolAcknowledgesKeeps ==
    ASSUME SharesAreSound, SharesInv, Shares!PoolAcknowledges PROVE SharesInv'
<1> DEFINE m == CHOOSE n \in batch : \A k \in batch : k <= n
           a == [last |-> m, count |-> Cardinality(batch), reason |-> Shares!None]
<1> Shares!Cardinality(batch) = Cardinality(batch)
  BY CardinalityIsTheSame
<1>1. /\ UNCHANGED <<seq, resolved, submitted, accepted, rejected, shown, rpc, rLocal>>
      /\ UNCHANGED <<spc, sLocal, left, reason, sessions>> /\ UNCHANGED <<reasons, bad, refused>>
      /\ UNCHANGED <<v2, locked, open, raced, overtaken>> /\ UNCHANGED <<arriving, good>>
      /\ batch # {} /\ batch' = {} /\ answers' = Append(answers, a)
  BY DEF Shares!PoolAcknowledges, Shares!counters, Shares!resultTask, Shares!stratumTask
<1>2. m \in batch /\ \A k \in batch : k <= m
  <2>1. batch \in SUBSET Numbers
    BY DEF SharesInv, SharesOnTheWay
  <2> QED
    BY <1>1, <2>1, GreatestNumberExists
<1> HIDE DEF m
<1>3. m \in Numbers /\ m < seq
  BY <1>2 DEF SharesInv, SharesOnTheWay
<1>4. /\ SharesNumbers' /\ SharesFlags' /\ Phases' /\ open'
      /\ ~raced' => ShownIsOutstanding'
  <2>1. good' \in Nat /\ bad' \in Nat /\ overtaken' \in BOOLEAN
    BY <1>1 DEF SharesInv, SharesNumbers, SharesFlags
  <2> QED
    BY <1>1, <2>1, PoolLeaves
<1>5. \A S : Held(answers, S) \in Nat
  BY HeldAreNumbers
<1>6. IsFiniteSet(batch) /\ Cardinality(batch) \in Nat
  BY HeldAreNumbers
<1>7. accepted + CreditDue \in Nat /\ good \in Nat
  BY DEF SharesInv, SharesNumbers, CreditDue, Phases, Numbers
<1>8. CreditDue' = CreditDue /\ RefusalDue' = RefusalDue /\ accepted' = accepted
  BY <1>1 DEF CreditDue, RefusalDue
<1>9. CreditsAdd /\ RefusalsAdd /\ TableAdds
  BY DEF SharesInv
<1>10. Cardinality(batch) \in 1..SessionShares
  <2>1. Cardinality(batch) # 0
    BY <1>1, <1>6, FS_EmptySet
  <2>2. Held(answers, {Shares!None}) \in Nat
    BY <1>5
  <2>3. Cardinality(batch) <= good
    BY <1>6, <1>7, <1>9, <2>2 DEF CreditsAdd, Credits
  <2>4. good <= SessionShares
    <3>1. Len(arriving) \in Nat /\ bad \in Nat /\ Len(arriving) + good + bad <= seq
      BY DEF SharesInv, SharesOnTheWay, SharesNumbers, SentAreCounted
    <3> QED
      BY <1>7, <3>1 DEF SharesInv, SharesNumbers, Numbers, SharesAreSound
  <2> QED
    BY <1>6, <1>7, <2>1, <2>3, <2>4 DEF SharesAreSound
<1>11. /\ a \in Answers /\ a.last = m /\ a.count = Cardinality(batch) /\ a.reason = Shares!None
  BY <1>3, <1>10 DEF Answers
<1> HIDE DEF a
<1>12. /\ SharesOnTheWay'
       /\ \A S : Held(answers', S) = Held(answers, S) + (IF a.reason \in S THEN a.count ELSE 0)
  <2>1. arriving' \in Seq(Numbers) /\ \A i \in 1..Len(arriving') : arriving'[i] < seq
    BY <1>1 DEF SharesInv, SharesOnTheWay
  <2>2. batch' \subseteq batch /\ a.last < seq
    BY <1>1, <1>3, <1>11
  <2> QED
    BY <1>1, <1>11, <2>1, <2>2, AnswerIsSent
<1>13. /\ Held(answers', {Shares!None}) = Held(answers, {Shares!None}) + Cardinality(batch)
       /\ Held(answers', Reasons) = Held(answers, Reasons)
       /\ \A r \in Reasons : Held(answers', {r}) = Held(answers, {r})
  BY <1>5, <1>11, <1>12 DEF SharesAreSound
<1>14. SentAreCounted'
  BY <1>1 DEF SentAreCounted, SharesInv
<1>15. CreditsAdd'
  <2>1. Cardinality(batch') = 0
    BY <1>1, FS_EmptySet
  <2>2. Held(answers, {Shares!None}) \in Nat
    BY <1>5
  <2>3. Held(answers, {Shares!None})' = Held(answers, {Shares!None}) + Cardinality(batch)
    BY <1>13
  <2>4. Credits' = Credits
    BY <1>6, <1>7, <1>8, <2>1, <2>2, <2>3 DEF Credits
  <2> QED
    BY <1>1, <1>9, <2>4 DEF CreditsAdd
<1>16. RefusalsAdd'
  BY <1>1, <1>8, <1>9, <1>13 DEF RefusalsAdd
<1>17. TableAdds'
  <2>1. \A r \in Reasons : Unlisted(r)' = Unlisted(r)
    BY <1>1, <1>13 DEF Unlisted
  <2>2. \A i \in 1..Len(reasons) : reasons[i].message \in Reasons
    BY <1>9, EntriesAreListed
  <2> QED
    BY <1>1, <1>9, <2>1, <2>2 DEF TableAdds, IsListed
<1>18. ASSUME v2', ~overtaken' PROVE NumbersAreInOrder'
  <2>1. NumbersAreInOrder
    BY <1>1, <1>18 DEF SharesInv
  <2>2. a.last + 1 >= End(answers, resolved) + a.count
    <3>1. End(answers, resolved) \in Int /\ m \in Int
      BY <1>3, EndIsNumber DEF Numbers
    <3>2. batch \subseteq End(answers, resolved)..m
      <4>1. batch \subseteq Numbers
        BY DEF SharesInv, SharesOnTheWay
      <4> QED
        BY <1>2, <2>1, <3>1, <4>1 DEF NumbersAreInOrder, Numbers
    <3> QED
      BY <1>1, <1>11, <3>1, <3>2, MembersFit
  <2>3. \A i \in 1..Len(arriving') : arriving'[i] >= a.last + 1
    <3>1. ASSUME NEW i \in 1..Len(arriving) PROVE arriving[i] >= m + 1
      <4>1. arriving[i] \in Numbers
        BY DEF SharesInv, SharesOnTheWay
      <4>2. m < arriving[i]
        BY <1>2, <2>1 DEF NumbersAreInOrder
      <4> QED
        BY <1>3, <4>1, <4>2 DEF Numbers
    <3> QED
      BY <1>1, <1>11, <3>1
  <2>4. \A i, j \in 1..Len(arriving') : i < j => arriving'[i] < arriving'[j]
    BY <1>1, <2>1 DEF NumbersAreInOrder
  <2> QED
    BY <1>1, <1>11, <2>1, <2>2, <2>3, <2>4, OrderIsKept
<1> QED
  BY <1>4, <1>12, <1>14, <1>15, <1>16, <1>17, <1>18 DEF SharesInv

---------------------------------------------------------------------------
(* Unless a refusal has overtaken an acknowledgement, an answer is credited *)
(* in full: the shares it is about are not resolved yet.                    *)
LEMMA AnswersAreCredited ==
    ASSUME SharesAreSound, SharesInv, NEW a \in Answers, a.last < seq
    PROVE  /\ Shares!Credited(a) \in Nat /\ Shares!Credited(a) <= a.count
           /\ v2 /\ a.last + 1 >= resolved + a.count => Shares!Credited(a) = a.count
           /\ ~v2 => Shares!Credited(a) = a.count
<1>1. seq \in Nat /\ resolved \in Nat /\ a.count \in Nat /\ a.last \in Nat
  BY DEF SharesInv, SharesNumbers, Numbers, Answers
<1> QED
  BY <1>1 DEF Shares!Credited

(* The stratum task reads an answer.                                        *)
LEMMA ReadAnswerKeeps ==
    ASSUME SharesAreSound, SharesInv, Shares!ReadAnswer PROVE SharesInv'
<1> DEFINE a == Head(answers)
<1>1. /\ UNCHANGED <<seq, submitted, accepted, rejected, shown, reasons, rpc, rLocal, sLocal>>
      /\ UNCHANGED <<arriving, batch, good, bad, refused, sessions, v2, locked, open, raced>>
      /\ UNCHANGED overtaken
      /\ spc = "read" /\ answers # <<>> /\ answers' = Tail(answers) /\ reason' = a.reason
      /\ IF a.reason = Shares!None
         THEN /\ left' = Shares!Credited(a)
              /\ spc' = IF Shares!Credited(a) > 0 THEN "count" ELSE "read"
         ELSE left' = 1 /\ spc' = "count"
      /\ resolved' = IF v2 /\ a.last + 1 > resolved THEN a.last + 1 ELSE resolved
  BY DEF Shares!ReadAnswer, Shares!counters, Shares!resultTask
<1>2. /\ answers \in Seq(Answers) /\ a \in Answers /\ answers' \in Seq(Answers)
      /\ Len(answers') = Len(answers) - 1 /\ Len(answers) \in Nat /\ Len(answers) >= 1
      /\ \A i \in 1..Len(answers') : answers'[i] = answers[i + 1]
      /\ a = answers[1]
  BY <1>1, HeadTailProperties DEF SharesInv, SharesOnTheWay
<1>3. /\ a.last < seq /\ (a.reason # Shares!None => a.count = 1)
  BY <1>2 DEF SharesInv, SharesOnTheWay
<1>4. /\ a.last \in Nat /\ a.count \in 1..SessionShares /\ a.reason \in Reasons \cup {Shares!None}
      /\ seq \in Nat /\ resolved \in 0..seq /\ seq <= SessionShares
  BY <1>2 DEF Answers, SharesInv, SharesNumbers, Numbers, SharesAreSound
<1>5. /\ Shares!Credited(a) \in Nat /\ Shares!Credited(a) <= a.count
      /\ v2 /\ a.last + 1 >= resolved + a.count => Shares!Credited(a) = a.count
      /\ ~v2 => Shares!Credited(a) = a.count
  BY <1>2, <1>3, AnswersAreCredited
<1>6. ASSUME v2, ~overtaken
      PROVE  a.last + 1 >= resolved + a.count /\ resolved' = a.last + 1
  <2>1. NumbersAreInOrder
    BY <1>6 DEF SharesInv
  <2>2. After(answers, 1, resolved) = resolved
    BY DEF After
  <2>3. a.last + 1 >= resolved + a.count
    BY <1>2, <2>1, <2>2 DEF NumbersAreInOrder
  <2> QED
    BY <1>1, <1>4, <1>6, <2>3
<1>7. ~overtaken => Shares!Credited(a) = a.count
  BY <1>5, <1>6
<1> HIDE DEF a
<1>8. SharesFlags' /\ open
  BY <1>1 DEF SharesInv, SharesFlags, NothingIsLeft
<1>9. resolved' \in 0..seq
  <2>1. a.last + 1 \in 0..seq
    BY <1>3, <1>4
  <2> QED
    BY <1>1, <1>4, <2>1
<1>10. left' \in Numbers /\ (spc' # "read" => left' >= 1)
  BY <1>1, <1>4, <1>5 DEF Numbers, SharesAreSound
<1>11. SharesNumbers' /\ Phases'
  <2>1. SharesNumbers'
    BY <1>1, <1>9, <1>10 DEF SharesInv, SharesNumbers
  <2>2. spc' \in {"read", "count", "show"} /\ (reason' # Shares!None => left' = 1)
    BY <1>1
  <2> QED
    BY <1>1, <1>4, <1>10, <2>1, <2>2 DEF SharesInv, Phases
<1>12. SharesOnTheWay'
  <2>1. SharesOnTheWay
    BY DEF SharesInv
  <2>2. \A i \in 1..Len(answers') : i + 1 \in 1..Len(answers)
    BY <1>2
  <2> QED
    BY <1>1, <1>2, <2>1, <2>2 DEF SharesOnTheWay
<1>13. SentAreCounted'
  BY <1>1 DEF SharesInv, SentAreCounted
<1>14. \A S : /\ Held(answers', S) \in Nat
              /\ Held(answers, S) = Held(answers', S) + (IF a.reason \in S THEN a.count ELSE 0)
  BY <1>1, <1>2, UnitsTaken, UnitsAreFinite DEF a
<1>15. CreditsAdd /\ RefusalsAdd /\ TableAdds
  BY DEF SharesInv
<1>16. CreditsAdd'
  <2>1. CreditDue = 0 /\ CreditDue' = IF a.reason = Shares!None THEN Shares!Credited(a) ELSE 0
    BY <1>1, <1>5 DEF CreditDue
  <2>2. /\ Held(answers', {Shares!None}) \in Nat
        /\ Held(answers, {Shares!None}) =
             Held(answers', {Shares!None}) + (IF a.reason = Shares!None THEN a.count ELSE 0)
    BY <1>14
  <2>3. accepted' = accepted /\ accepted \in Nat /\ Cardinality(batch') = Cardinality(batch)
    BY <1>1 DEF SharesInv, SharesNumbers
  <2>4. Cardinality(batch) \in Nat
    BY HeldAreNumbers
  <2>5. Held(answers, {Shares!None})' = Held(answers', {Shares!None})
    OBVIOUS
  <2>6. Credits' <= Credits /\ (~overtaken => Credits' = Credits)
    BY <1>4, <1>5, <1>7, <2>1, <2>2, <2>3, <2>4, <2>5 DEF Credits
  <2>7. Credits' \in Nat /\ Credits \in Nat
    BY <1>4, <1>5, <2>1, <2>2, <2>3, <2>4, <2>5 DEF Credits
  <2>8. good' = good /\ good \in Nat /\ overtaken' = overtaken
    BY <1>1 DEF SharesInv, SharesNumbers
  <2>9. Credits' <= good' /\ (~overtaken => Credits' = good')
    BY <1>15, <2>6, <2>7, <2>8 DEF CreditsAdd
  <2> QED
    BY <2>8, <2>9 DEF CreditsAdd
<1>17. RefusalsAdd'
  <2>1. RefusalDue = 0 /\ RefusalDue' = IF a.reason = Shares!None THEN 0 ELSE 1
    BY <1>1 DEF RefusalDue
  <2>2. /\ Held(answers', Reasons) \in Nat
        /\ Held(answers, Reasons) =
             Held(answers', Reasons) + (IF a.reason = Shares!None THEN 0 ELSE 1)
    BY <1>3, <1>4, <1>14 DEF SharesAreSound
  <2>3. rejected' = rejected /\ rejected \in Nat /\ bad' = bad
    BY <1>1 DEF SharesInv, SharesNumbers
  <2>4. rejected' + RefusalDue' + Held(answers', Reasons) = bad'
    BY <1>15, <2>1, <2>2, <2>3 DEF RefusalsAdd
  <2> QED
    BY <2>4 DEF RefusalsAdd
<1>18. TableAdds'
  <2>1. ASSUME NEW r \in Reasons PROVE Unlisted(r)' = Unlisted(r)
    <3>1. /\ Held(answers', {r}) \in Nat
          /\ Held(answers, {r}) = Held(answers', {r}) + (IF a.reason = r THEN a.count ELSE 0)
      BY <1>14
    <3>2. Unlisted(r) = Held(answers, {r})
      BY <1>1, <3>1, <1>4 DEF Unlisted
    <3>3. r # Shares!None
      BY DEF SharesAreSound
    <3>4. Unlisted(r)' = Held(answers', {r}) + (IF a.reason = r THEN 1 ELSE 0)
      BY <1>1, <3>3 DEF Unlisted
    <3> QED
      BY <1>3, <3>1, <3>2, <3>3, <3>4
  <2>2. \A i \in 1..Len(reasons) : reasons[i].message \in Reasons
    BY <1>15, EntriesAreListed
  <2> QED
    BY <1>1, <1>15, <2>1, <2>2 DEF TableAdds, IsListed
<1>19. ShownIsOutstanding => ShownIsOutstanding'
  <2>1. spc' # "show" /\ spc # "show"
    BY <1>1
  <2> QED
    BY <1>1, <2>1 DEF ShownIsOutstanding
<1>20. ASSUME v2', ~overtaken' PROVE NumbersAreInOrder'
  <2>1. NumbersAreInOrder
    BY <1>1, <1>20 DEF SharesInv
  <2>2. resolved' = a.last + 1
    BY <1>1, <1>6, <1>20
  <2>3. ASSUME NEW i \in 1..Len(answers')
        PROVE  After(answers', i, resolved') = After(answers, i + 1, resolved)
    <3>1. CASE i = 1
      BY <1>2, <2>2, <3>1 DEF After
    <3>2. CASE i # 1
      BY <1>2, <3>2 DEF After
    <3> QED
      BY <3>1, <3>2
  <2>4. ASSUME NEW i \in 1..Len(answers')
        PROVE  answers'[i].last + 1 >= After(answers', i, resolved') + answers'[i].count
    <3>1. i + 1 \in 1..Len(answers) /\ answers'[i] = answers[i + 1]
      BY <1>2
    <3> QED
      BY <2>1, <2>3, <3>1 DEF NumbersAreInOrder
  <2>5. End(answers', resolved') = End(answers, resolved)
    <3>1. CASE answers' = <<>>
      <4>1. Len(answers) = 1
        BY <1>2, <3>1
      <4>2. End(answers, resolved) = a.last + 1
        BY <1>1, <1>2, <4>1 DEF End
      <4> QED
        BY <2>2, <3>1, <4>2 DEF End
    <3>2. CASE answers' # <<>>
      <4>1. Len(answers') \in 1..Len(answers')
        BY <1>2, <3>2
      <4>2. answers'[Len(answers')] = answers[Len(answers)]
        BY <1>2, <4>1
      <4> QED
        BY <1>1, <3>2, <4>2 DEF End
    <3> QED
      BY <3>1, <3>2
  <2> QED
    BY <1>1, <2>1, <2>4, <2>5 DEF NumbersAreInOrder
<1> QED
  BY <1>1, <1>8, <1>11, <1>12, <1>13, <1>16, <1>17, <1>18, <1>19, <1>20 DEF SharesInv

---------------------------------------------------------------------------
(* The table with one more refusal. Sorting neither loses nor repeats an    *)
(* entry: an order that repeats none of finitely many places has them all.  *)
LEMMA OrderHasAll ==
    ASSUME NEW n \in Nat, NEW f \in [1..n -> 1..n],
           \A i, j \in 1..n : f[i] = f[j] => i = j, NEW k \in 1..n
    PROVE  \E i \in 1..n : f[i] = k
<1>1. IsFiniteSet(1..n)
  BY FS_Interval
<1>2. f \in Injection(1..n, 1..n)
  BY DEF Injection, IsInjective
<1>3. f \in Surjection(1..n, 1..n)
  BY <1>1, <1>2, FS_Injection
<1> QED
  BY <1>3 DEF Surjection

LEMMA FunctionIsSeq ==
    ASSUME NEW S, NEW n \in Nat, NEW f \in [1..n -> S] PROVE f \in Seq(S) /\ Len(f) = n
<1>1. f \in Seq(S)
  BY SeqDef
<1>2. DOMAIN f = 1..n /\ DOMAIN f = 1..Len(f) /\ Len(f) \in Nat
  BY <1>1, LenProperties
<1> QED
  BY <1>1, <1>2

LEMMA OneMore == \A a, b \in Nat : (a + 1) + b = a + (b + 1)
OBVIOUS

LEMMA EntryCounted ==
    ASSUME NEW e \in Listed
    PROVE  LET d == [e EXCEPT !.count = @ + 1]
           IN  d \in Listed /\ d.message = e.message /\ d.count = e.count + 1
BY DEF Listed

(* The entries say of every reason what is counted; a reason that is not    *)
(* among them was not counted if there is room.                             *)
Says(list, u, v) ==
    /\ list \in Seq(Listed) /\ Len(list) <= TableSize
    /\ \A i \in 1..Len(list) : list[i].count + u[list[i].message] = v[list[i].message]
    /\ Len(list) < TableSize => \A r \in Reasons : IsListed(list, r) \/ v[r] = u[r]

LEMMA ReasonIsCounted ==
    ASSUME SharesAreSound, NEW c \in Reasons, NEW u \in [Reasons -> Nat], NEW w \in [Reasons -> Nat],
           Says(reasons, u, refused), refused \in [Reasons -> Nat],
           \A r \in Reasons : u[r] = w[r] + (IF r = c THEN 1 ELSE 0), Shares!CountReason(c)
    PROVE  Says(reasons', w, refused)
<1>1. /\ reasons \in Seq(Listed) /\ Len(reasons) <= TableSize /\ Len(reasons) \in Nat
      /\ TableSize \in Nat
      /\ \A i \in 1..Len(reasons) : /\ reasons[i] \in Listed /\ reasons[i].message \in Reasons
                                    /\ reasons[i].count \in Nat
  <2>1. reasons \in Seq(Listed) /\ Len(reasons) <= TableSize
    BY DEF Says
  <2>2. ASSUME NEW i \in 1..Len(reasons)
        PROVE  /\ reasons[i] \in Listed /\ reasons[i].message \in Reasons
               /\ reasons[i].count \in Nat
    <3>1. reasons[i] \in Listed
      BY <2>1
    <3> QED
      BY <3>1 DEF Listed
  <2>3. TableSize \in Nat
    BY DEF SharesAreSound
  <2> QED
    BY <2>1, <2>2, <2>3
<1>2. \A i \in 1..Len(reasons) :
        reasons[i].count + u[reasons[i].message] = refused[reasons[i].message]
  BY DEF Says
<1>3. CASE \E i \in DOMAIN reasons : reasons[i].message = c
  <2>1. reasons' = [i \in DOMAIN reasons |->
             IF reasons[i].message = c
             THEN [reasons[i] EXCEPT !.count = @ + 1] ELSE reasons[i]]
    BY <1>3 DEF Shares!CountReason
  <2>2. DOMAIN reasons = 1..Len(reasons)
    BY <1>1
  <2>3. ASSUME NEW i \in 1..Len(reasons)
        PROVE  /\ reasons'[i] \in Listed /\ reasons'[i].message = reasons[i].message
               /\ reasons'[i].count = reasons[i].count + (IF reasons[i].message = c THEN 1 ELSE 0)
    <3>1. reasons'[i] = IF reasons[i].message = c
                        THEN [reasons[i] EXCEPT !.count = @ + 1] ELSE reasons[i]
      BY <2>1, <2>2
    <3> QED
      BY <1>1, <3>1, EntryCounted
  <2>4. reasons' \in Seq(Listed) /\ Len(reasons') = Len(reasons)
    <3>1. reasons' \in [1..Len(reasons) -> Listed]
      BY <2>1, <2>2, <2>3
    <3> QED
      BY <1>1, <3>1, FunctionIsSeq
  <2>5. ASSUME NEW i \in 1..Len(reasons')
        PROVE  reasons'[i].count + w[reasons'[i].message] = refused[reasons'[i].message]
    <3>1. i \in 1..Len(reasons)
      BY <2>4
    <3> DEFINE m == reasons[i].message
    <3>2. m \in Reasons /\ reasons[i].count \in Nat /\ reasons[i].count + u[m] = refused[m]
      BY <1>1, <1>2, <3>1
    <3>3. u[m] = w[m] + (IF m = c THEN 1 ELSE 0) /\ w[m] \in Nat
      BY <3>2
    <3>4. /\ reasons'[i].message = m
          /\ reasons'[i].count = reasons[i].count + (IF m = c THEN 1 ELSE 0)
      BY <2>3, <3>1
    <3> HIDE DEF m
    <3>5. reasons'[i].count + w[m] = refused[m]
      <4>1. CASE m = c
        <5>1. reasons'[i].count = reasons[i].count + 1 /\ u[m] = w[m] + 1
          BY <3>3, <3>4, <4>1
        <5>2. reasons[i].count + (w[m] + 1) = refused[m]
          BY <3>2, <5>1
        <5>3. (reasons[i].count + 1) + w[m] = reasons[i].count + (w[m] + 1)
          BY <3>2, <3>3, OneMore
        <5> QED
          BY ONLY <5>1, <5>2, <5>3
      <4>2. CASE m # c
        <5>1. reasons'[i].count = reasons[i].count + 0 /\ u[m] = w[m] + 0
          BY <3>3, <3>4, <4>2
        <5> QED
          BY <3>2, <3>3, <5>1
      <4> QED
        BY <4>1, <4>2
    <3> QED
      BY <3>4, <3>5
  <2>6. ASSUME Len(reasons') < TableSize, NEW r \in Reasons
        PROVE  IsListed(reasons', r) \/ refused[r] = w[r]
    <3>1. IsListed(reasons, r) \/ refused[r] = u[r]
      BY <2>4, <2>6 DEF Says
    <3>2. CASE r = c
      BY <1>3, <2>2, <2>3, <2>4, <3>2 DEF IsListed
    <3>3. CASE r # c
      BY <2>3, <2>4, <3>1, <3>3 DEF IsListed
    <3> QED
      BY <3>2, <3>3
  <2> QED
    BY <1>1, <2>4, <2>5, <2>6 DEF Says
<1>4. CASE ~\E i \in DOMAIN reasons : reasons[i].message = c
  <2> DEFINE added == Append(reasons, [message |-> c, count |-> 1])
             list == IF Len(reasons) < TableSize THEN added ELSE reasons
  <2>1. PICK order \in [DOMAIN list -> DOMAIN list] :
               /\ \A i, j \in DOMAIN list : order[i] = order[j] => i = j
               /\ reasons' = [i \in DOMAIN list |-> list[order[i]]]
    BY <1>4 DEF Shares!CountReason
  <2>2. [message |-> c, count |-> 1] \in Listed
    BY DEF Listed
  <2>3. /\ added \in Seq(Listed) /\ Len(added) = Len(reasons) + 1
        /\ added[Len(reasons) + 1] = [message |-> c, count |-> 1]
        /\ \A i \in 1..Len(reasons) : added[i] = reasons[i]
    BY <1>1, <2>2, AppendProperties
  <2>4. \A i \in 1..Len(reasons) : reasons[i].message # c
    BY <1>1, <1>4
  <2>5. ASSUME NEW i \in 1..Len(reasons), NEW m \in Reasons, m = reasons[i].message
        PROVE  reasons[i].count + w[m] = refused[m]
    <3>1. m # c
      BY <2>4, <2>5
    <3>2. u[m] = w[m]
      BY <3>1
    <3> QED
      BY <1>2, <2>5, <3>2
  <2>6. Says(list, w, refused)
    <3>1. CASE Len(reasons) < TableSize
      <4>1. list = added
        BY <3>1
      <4>2. refused[c] = u[c]
        BY <2>4, <3>1 DEF Says, IsListed
      <4>3. 1 + w[c] = refused[c]
        BY <4>2
      <4>4. ASSUME NEW i \in 1..Len(added)
            PROVE  added[i].count + w[added[i].message] = refused[added[i].message]
        <5>1. CASE i = Len(reasons) + 1
          BY <2>3, <4>3, <5>1
        <5>2. CASE i \in 1..Len(reasons)
          BY <1>1, <2>3, <2>5, <5>2
        <5> QED
          BY <1>1, <2>3, <5>1, <5>2
      <4>5. ASSUME NEW r \in Reasons PROVE IsListed(added, r) \/ refused[r] = w[r]
        <5>1. IsListed(reasons, r) \/ refused[r] = u[r]
          BY <3>1 DEF Says
        <5>2. CASE r = c
          <6>1. Len(reasons) + 1 \in 1..Len(added) /\ added[Len(reasons) + 1].message = r
            BY <1>1, <2>3, <5>2
          <6> HIDE DEF added
          <6> QED
            BY <6>1 DEF IsListed
        <5>3. CASE r # c
          BY <1>1, <2>3, <5>1, <5>3 DEF IsListed
        <5> QED
          BY <5>2, <5>3
      <4> HIDE DEF added
      <4> QED
        BY <1>1, <2>3, <3>1, <4>1, <4>4, <4>5 DEF Says
    <3>2. CASE ~(Len(reasons) < TableSize)
      <4>1. list = reasons
        BY <3>2
      <4>2. \A i \in 1..Len(reasons) :
              reasons[i].count + w[reasons[i].message] = refused[reasons[i].message]
        BY <1>1, <2>5
      <4> QED
        BY <1>1, <3>2, <4>1, <4>2 DEF Says
    <3> QED
      BY <3>1, <3>2
  <2> HIDE DEF list
  <2> DEFINE n == Len(list)
  <2>7. list \in Seq(Listed) /\ n \in Nat /\ DOMAIN list = 1..n
    BY <2>6 DEF Says
  <2>8. ASSUME NEW i \in 1..n
        PROVE  order[i] \in 1..n /\ reasons'[i] = list[order[i]] /\ list[order[i]] \in Listed
    <3>1. i \in DOMAIN list /\ order[i] \in DOMAIN list
      BY <2>7
    <3>2. reasons'[i] = list[order[i]]
      BY <2>1, <3>1
    <3> QED
      BY <2>7, <3>1, <3>2
  <2>9. reasons' \in Seq(Listed) /\ Len(reasons') = n
    <3>1. reasons' \in [1..n -> Listed]
      BY <2>1, <2>7, <2>8
    <3> QED
      BY <2>7, <3>1, FunctionIsSeq
  <2>10. ASSUME NEW i \in 1..n
         PROVE  reasons'[i].count + w[reasons'[i].message] = refused[reasons'[i].message]
    <3>1. order[i] \in 1..n /\ reasons'[i] = list[order[i]]
      BY <2>8
    <3> QED
      BY <2>6, <3>1 DEF Says
  <2>11. ASSUME NEW r \in Reasons, IsListed(list, r) PROVE IsListed(reasons', r)
    <3>1. PICK k \in 1..n : list[k].message = r
      BY <2>11 DEF IsListed
    <3>2. PICK i \in 1..n : order[i] = k
      <4>1. order \in [1..n -> 1..n] /\ \A i, j \in 1..n : order[i] = order[j] => i = j
        BY <2>1, <2>7
      <4> HIDE DEF n
      <4> QED
        BY <2>7, <4>1, OrderHasAll
    <3> QED
      BY <2>8, <2>9, <3>1, <3>2 DEF IsListed
  <2> QED
    BY <2>6, <2>9, <2>10, <2>11 DEF Says
<1> QED
  BY <1>3, <1>4

(* The stratum task stores the pending count, and counts a refusal's reason.*)
LEMMA ShowAnsweredKeeps ==
    ASSUME SharesAreSound, SharesInv, Shares!ShowAnswered PROVE SharesInv'
<1>1. /\ UNCHANGED <<seq, resolved, submitted, accepted, rejected, rpc, rLocal, sLocal>>
      /\ UNCHANGED <<arriving, batch, answers, good, bad, refused, sessions, v2, locked, open>>
      /\ UNCHANGED <<raced, overtaken>>
      /\ spc = "show" /\ shown' = sLocal /\ left' = left - 1
      /\ spc' = (IF left > 1 THEN "count" ELSE "read")
      /\ reason' = (IF left > 1 THEN reason ELSE Shares!None)
      /\ IF reason = Shares!None THEN UNCHANGED reasons ELSE Shares!CountReason(reason)
  BY DEF Shares!ShowAnswered, Shares!resultTask, Shares!pool
<1>2. SharesFlags' /\ open
  BY <1>1 DEF SharesInv, SharesFlags, NothingIsLeft
<1>3. /\ left >= 1 /\ left \in Numbers /\ (reason # Shares!None => left = 1)
      /\ reason \in Reasons \cup {Shares!None}
  BY <1>1 DEF SharesInv, Phases, SharesNumbers
<1>4. left' \in Numbers /\ left \in Nat
  BY <1>1, <1>3 DEF Numbers, SharesAreSound
<1>5. SharesNumbers'
  BY <1>1, <1>4 DEF SharesInv, SharesNumbers
<1>6. Phases'
  <2>1. spc' # "read" => left' >= 1 /\ reason = Shares!None /\ reason' = Shares!None
    BY <1>1, <1>3, <1>4
  <2>2. spc' \in {"read", "count", "show"} /\ reason' \in Reasons \cup {Shares!None}
    BY <1>1, <1>3
  <2> QED
    BY <1>1, <2>1, <2>2 DEF SharesInv, Phases
<1>7. /\ SharesOnTheWay' = SharesOnTheWay /\ NumbersAreInOrder' = NumbersAreInOrder
      /\ SentAreCounted' = SentAreCounted
  BY <1>1 DEF SharesOnTheWay, NumbersAreInOrder, After, End, SentAreCounted
<1>8. CreditsAdd' /\ RefusalsAdd'
  <2>1. CreditDue' = CreditDue
    BY <1>1, <1>3, <1>4 DEF CreditDue
  <2>2. RefusalDue' = RefusalDue
    BY <1>1, <1>3 DEF RefusalDue
  <2>3. Credits' = Credits
    BY <1>1, <2>1 DEF Credits, Held
  <2>4. CreditsAdd /\ RefusalsAdd
    BY DEF SharesInv
  <2> QED
    BY <1>1, <2>2, <2>3, <2>4 DEF CreditsAdd, RefusalsAdd, Held
<1>9. TableAdds'
  <2> DEFINE u == [r \in Reasons |-> Unlisted(r)]
             w == [r \in Reasons |-> Held(answers, {r})]
  <2>1. /\ refused \in [Reasons -> Nat] /\ \A r \in Reasons : refused[r] <= bad
        /\ reasons \in Seq(Listed) /\ Len(reasons) <= TableSize
    BY DEF SharesInv, TableAdds
  <2>2. \A r \in Reasons : Held(answers, {r}) \in Nat
    BY HeldAreNumbers
  <2>3. \A r \in Reasons : Unlisted(r) = Held(answers, {r}) + (IF r = reason THEN 1 ELSE 0)
    BY <1>1, <2>2 DEF Unlisted
  <2>4. \A r \in Reasons : Unlisted(r)' = Held(answers, {r})
    <3>1. ASSUME NEW r \in Reasons PROVE Unlisted(r)' = Held(answers, {r})
      <4>1. ~(spc' # "read" /\ reason' = r)
        BY <1>1, <1>3, <1>4 DEF SharesAreSound
      <4>2. UNCHANGED Held(answers, {r})
        BY <1>1 DEF Held
      <4>3. Held(answers, {r}) \in Nat
        BY <2>2
      <4> QED
        BY <4>1, <4>2, <4>3 DEF Unlisted
    <3> QED
      BY <3>1
  <2>5. CASE reason = Shares!None
    <3>1. \A r \in Reasons : Unlisted(r)' = Unlisted(r)
      <4>1. ASSUME NEW r \in Reasons PROVE Unlisted(r)' = Unlisted(r)
        <5>1. Unlisted(r) = Held(answers, {r}) + 0 /\ Held(answers, {r}) \in Nat
          BY <2>2, <2>3, <2>5 DEF SharesAreSound
        <5> QED
          BY <2>4, <5>1
      <4> QED
        BY <4>1
    <3>2. TableAdds /\ reasons' = reasons
      BY <1>1, <2>5 DEF SharesInv
    <3>3. \A i \in 1..Len(reasons) : reasons[i].message \in Reasons
      BY <3>2, EntriesAreListed
    <3> QED
      BY <1>1, <3>1, <3>2, <3>3 DEF TableAdds, IsListed
  <2>6. CASE reason # Shares!None
    <3>1. reason \in Reasons /\ Shares!CountReason(reason)
      BY <1>1, <1>3, <2>6
    <3>2. u \in [Reasons -> Nat] /\ w \in [Reasons -> Nat]
      <4>1. \A r \in Reasons : Unlisted(r) \in Nat
        <5>1. ASSUME NEW r \in Reasons PROVE Unlisted(r) \in Nat
          <6>1. Held(answers, {r}) \in Nat
            BY <2>2
          <6> QED
            BY <6>1 DEF Unlisted
        <5> QED
          BY <5>1
      <4> QED
        BY <2>2, <4>1
    <3>3. \A r \in Reasons : u[r] = w[r] + (IF r = reason THEN 1 ELSE 0)
      BY <2>3
    <3>4. Says(reasons, u, refused)
      <4>1. \A i \in 1..Len(reasons) : reasons[i].message \in Reasons
        BY EntriesAreListed DEF SharesInv
      <4>2. \A r \in Reasons : u[r] = Unlisted(r)
        OBVIOUS
      <4> HIDE DEF u
      <4> QED
        BY <2>1, <4>1, <4>2 DEF Says, SharesInv, TableAdds
    <3>5. \A r \in Reasons : w[r] = Unlisted(r)'
      BY <2>4
    <3> HIDE DEF u, w
    <3>6. Says(reasons', w, refused)
      BY <2>1, <3>1, <3>2, <3>3, <3>4, ReasonIsCounted
    <3>7. \A i \in 1..Len(reasons') : reasons'[i].message \in Reasons
      <4>1. ASSUME NEW i \in 1..Len(reasons') PROVE reasons'[i].message \in Reasons
        <5>1. reasons'[i] \in Listed
          BY <3>6 DEF Says
        <5> QED
          BY <5>1 DEF Listed
      <4> QED
        BY <4>1
    <3>8. \A i \in 1..Len(reasons') :
            reasons'[i].count + Unlisted(reasons[i].message)' = refused'[reasons'[i].message]
      <4>1. ASSUME NEW i \in 1..Len(reasons'), NEW m \in Reasons, m = reasons'[i].message
            PROVE  reasons'[i].count + Unlisted(m)' = refused'[m]
        BY <1>1, <3>5, <3>6, <4>1 DEF Says
      <4> QED
        BY <3>7, <4>1
    <3>9. Len(reasons') < TableSize =>
            \A r \in Reasons : IsListed(reasons', r) \/ refused'[r] = Unlisted(r)'
      BY <1>1, <3>5, <3>6 DEF Says
    <3> QED
      BY <1>1, <2>1, <3>6, <3>8, <3>9 DEF TableAdds, Says
  <2> QED
    BY <2>5, <2>6
<1>10. ShownIsOutstanding => ShownIsOutstanding'
  BY <1>1 DEF ShownIsOutstanding
<1> QED
  BY <1>1, <1>2, <1>5, <1>6, <1>7, <1>8, <1>9, <1>10 DEF SharesInv

(* Every step keeps the invariant.                                          *)
LEMMA SharesKeep ==
    SharesAreSound /\ SharesInv /\ [Shares!Next]_(Shares!vars) => SharesInv'
<1> SUFFICES ASSUME SharesAreSound, SharesInv, [Shares!Next]_(Shares!vars) PROVE SharesInv'
  OBVIOUS
<1>1. CASE UNCHANGED Shares!vars
  <2>1. /\ UNCHANGED <<seq, resolved, submitted, accepted, rejected, shown, reasons, rpc>>
        /\ UNCHANGED <<rLocal, spc, sLocal, left, reason, arriving, batch, answers, good>>
        /\ UNCHANGED <<bad, refused, sessions>>
    BY <1>1 DEF Shares!vars, Shares!counters, Shares!resultTask, Shares!stratumTask,
       Shares!pool
  <2>2. UNCHANGED <<v2, locked, open, raced, overtaken>>
    BY <1>1 DEF Shares!vars
  <2>3. SharesNumbers' /\ SharesFlags' /\ SharesOnTheWay' /\ Phases' /\ SentAreCounted'
    BY <2>1, <2>2 DEF SharesInv, SharesNumbers, SharesFlags, SharesOnTheWay, Phases,
       SentAreCounted
  <2>4. CreditsAdd' /\ RefusalsAdd' /\ TableAdds'
    BY <2>1, <2>2, SumsAreKept, TableIsKept
  <2>5. /\ NothingIsLeft' = NothingIsLeft /\ ShownIsOutstanding' = ShownIsOutstanding
        /\ NumbersAreInOrder' = NumbersAreInOrder
    BY <2>1 DEF NothingIsLeft, ShownIsOutstanding, NumbersAreInOrder, After, End
  <2> QED
    BY <2>2, <2>3, <2>4, <2>5 DEF SharesInv
<1> QED
  BY Zenon, <1>1, SubmitKeeps, SubmitFailsKeeps, CountSubmittedKeeps, ShowSubmittedKeeps,
     ReadAnswerKeeps, CountAnsweredKeeps, ShowAnsweredKeeps, CloseSessionKeeps,
     OpenSessionKeeps, PoolAcceptsKeeps, PoolAcknowledgesKeeps, PoolRefusesKeeps
     DEF Shares!Next

(* With every answer handled, nothing is between what the pool decided and  *)
(* what is counted.                                                         *)
LEMMA CountsSettleByInv == ASSUME SharesAreSound, SharesInv PROVE Shares!CountsSettle
<1> SUFFICES ASSUME Shares!Answered, ~overtaken
             PROVE  /\ accepted = good /\ rejected = bad /\ submitted = good + bad
                    /\ ~raced => shown = 0
                    /\ \A i \in DOMAIN reasons : reasons[i].count = refused[reasons[i].message]
                    /\ Len(reasons) < TableSize =>
                         \A r \in Reasons : refused[r] > 0 =>
                           \E i \in DOMAIN reasons : reasons[i].message = r
  BY DEF Shares!CountsSettle
<1>1. arriving = <<>> /\ batch = {} /\ answers = <<>> /\ rpc = "idle" /\ spc = "read"
  BY DEF Shares!Answered
<1>2. /\ submitted \in Nat /\ accepted \in Nat /\ rejected \in Nat /\ good \in Nat /\ bad \in Nat
      /\ refused \in [Reasons -> Nat] /\ reasons \in Seq(Listed)
  BY DEF SharesInv, SharesNumbers, TableAdds
<1>3. \A S : Held(answers, S) = 0
  BY <1>1, NoUnits
<1>4. accepted = good
  <2>1. Credits = good /\ Cardinality(batch) = 0 /\ CreditDue = 0
    BY <1>1, FS_EmptySet DEF SharesInv, CreditsAdd, CreditDue
  <2> QED
    BY <1>2, <1>3, <2>1 DEF Credits
<1>5. rejected = bad
  BY <1>1, <1>2, <1>3 DEF SharesInv, RefusalsAdd, RefusalDue
<1>6. submitted = good + bad
  BY <1>1, <1>2 DEF SharesInv, SentAreCounted
<1>7. ~raced => shown = 0
  BY <1>1, <1>2, <1>4, <1>5, <1>6
     DEF SharesInv, ShownIsOutstanding, Shares!Outstanding, Shares!Settled
<1>8. TableAdds /\ \A r : Unlisted(r) = 0
  BY <1>1, <1>3 DEF SharesInv, Unlisted
<1>9. \A i \in DOMAIN reasons : reasons[i].count = refused[reasons[i].message]
  <2>1. ASSUME NEW i \in 1..Len(reasons) PROVE reasons[i].count = refused[reasons[i].message]
    BY <1>8, EntriesAreListed DEF TableAdds
  <2> QED
    BY <1>2, <2>1
<1>10. Len(reasons) < TableSize =>
         \A r \in Reasons : refused[r] > 0 => \E i \in DOMAIN reasons : reasons[i].message = r
  BY <1>2, <1>8 DEF TableAdds, IsListed
<1> QED
  BY <1>4, <1>5, <1>6, <1>7, <1>9, <1>10

(* The counters stay within the shares of a session.                        *)
THEOREM ShareTypes == ASSUME SharesAreSound PROVE Shares!Spec => []Shares!TypeOK
<1>1. Shares!Init => SharesInv
  BY SharesBegin
<1>2. SharesInv /\ [Shares!Next]_(Shares!vars) => SharesInv'
  BY SharesKeep
<1>3. SharesInv => Shares!TypeOK
  <2>1. ASSUME SharesInv PROVE Shares!TypeOK
    <3>1. good + bad <= seq /\ submitted <= seq /\ seq \in 0..SessionShares /\ SessionShares \in Nat
      <4>1. Len(arriving) \in Nat /\ Len(arriving) + good + bad <= seq
        BY <2>1 DEF SharesInv, SharesOnTheWay, SentAreCounted
      <4>2. submitted <= Len(arriving) + good + bad
        BY <2>1, <4>1 DEF SharesInv, SentAreCounted, SharesNumbers
      <4> QED
        BY <2>1, <4>1, <4>2 DEF SharesInv, SharesNumbers, Numbers, SharesAreSound
    <3>2. accepted <= good
      <4>1. Held(answers, {Shares!None}) \in Nat /\ Cardinality(batch) \in Nat
        BY <2>1, HeldAreNumbers
      <4>2. CreditDue \in Nat
        BY <2>1 DEF SharesInv, CreditDue, SharesNumbers, Phases, Numbers
      <4>3. accepted \in Nat /\ good \in Nat /\ Credits <= good
        BY <2>1 DEF SharesInv, SharesNumbers, CreditsAdd
      <4> QED
        BY <4>1, <4>2, <4>3 DEF Credits
    <3>3. rejected <= bad
      <4>1. Held(answers, Reasons) \in Nat
        BY <2>1, HeldAreNumbers
      <4>2. RefusalDue \in Nat /\ rejected \in Nat /\ rejected + RefusalDue + Held(answers, Reasons) = bad
        BY <2>1 DEF SharesInv, SharesNumbers, RefusalDue, RefusalsAdd
      <4> QED
        BY <4>1, <4>2
    <3>4. /\ submitted \in Numbers /\ accepted \in Numbers /\ rejected \in Numbers
          /\ bad \in Numbers
      BY <2>1, <3>1, <3>2, <3>3 DEF SharesInv, SharesNumbers, Numbers
    <3>5. ASSUME NEW i \in DOMAIN reasons PROVE reasons[i] \in Shares!Entry
      <4>1. reasons \in Seq(Listed) /\ TableAdds
        BY <2>1 DEF SharesInv, TableAdds
      <4>2. i \in 1..Len(reasons) /\ reasons[i] \in Listed
        BY <4>1
      <4> DEFINE m == reasons[i].message
      <4>3. m \in Reasons /\ reasons[i].count \in Nat
        BY <4>1, <4>2, EntriesAreListed
      <4>4. reasons[i].count + Unlisted(m) = refused[m] /\ refused[m] <= bad /\ refused[m] \in Nat
        BY <4>1, <4>2, <4>3 DEF TableAdds
      <4>5. Unlisted(m) \in Nat
        <5>1. Held(answers, {m}) \in Nat
          BY <2>1, HeldAreNumbers
        <5> QED
          BY <5>1 DEF Unlisted
      <4>6. reasons[i].count \in Numbers
        BY <3>1, <3>4, <4>3, <4>4, <4>5 DEF Numbers
      <4> QED
        BY <4>2, <4>6 DEF Listed, Shares!Entry, Shares!Counts, Numbers
    <3>6. SharesFlags /\ Phases /\ SharesNumbers /\ Len(reasons) <= TableSize
      BY <2>1 DEF SharesInv, TableAdds
    <3>7. resolved \in Numbers
      BY <3>1, <3>6 DEF SharesNumbers, Numbers
    <3> QED
      BY <3>4, <3>5, <3>6, <3>7 DEF Shares!TypeOK, SharesFlags, Phases, SharesNumbers,
         Numbers,
         Shares!Counts
  <2> QED
    BY <2>1
<1> QED
  BY <1>1, <1>2, <1>3, PTL DEF Shares!Spec

(* When the pool has answered every share of a session and every answer is  *)
(* handled, the counters are what the pool decided, nothing is pending, and *)
(* the table of reasons says how often each was given: for any number of    *)
(* reasons, places in the table, shares and sessions.                       *)
THEOREM CountsSettleAlways == ASSUME SharesAreSound PROVE PartsSpec => []CountsSettle
<1> DEFINE P == part = "shares" => SharesInv
<1>1. PartsInit => P
  BY Zenon, SharesBegin DEF PartsInit
<1>2. P /\ [PartsNext]_partsVars => P'
  BY Zenon, SharesKeep DEF PartsNext, partsVars
<1>3. P => CountsSettle
  BY Zenon, CountsSettleByInv DEF CountsSettle
<1> QED
  BY <1>1, <1>2, <1>3, PTL DEF PartsSpec

---------------------------------------------------------------------------
(* The lines of a Stratum V1 pool: they are understood as they were meant.  *)

(* The sizes are numbers; the table of times has a slot and the highest     *)
(* difficulty is one (STRATUM_TIMING_SLOTS, MAX_POOL_DIFFICULTY).           *)
LinesAreSound ==
    /\ PoolSettings \subseteq [suggest : BOOLEAN, subscribe : BOOLEAN]
    /\ LongestLine \in Nat /\ PieceSize \in Nat /\ TimingSlots \in Nat \ {0} /\ TopDifficulty \in Nat \ {0}

Asking == {"configure", "subscribe", "authorize", "suggest", "extranonce"}
PoolRequests == [id : Nat \ {0}, kind : Asking \cup {"share"}]

(* What a pool may want mined with, answer and say.                         *)
Nonces == {NothingSaid, "a", "b"}
MasksSaid == SUBSET (RollingBits \cup UNION PoolMasks)
Wants == [difficulty : Nat, mask : MasksSaid, extranonce : Nonces]
AnswersSaid ==
    {a \in [id : Nat \ {0}, of : Asking \cup {"share"}, ok : BOOLEAN, value : MasksSaid \cup Nonces] :
        /\ a.of = "configure" /\ a.ok => a.value \in MasksSaid
        /\ a.of = "subscribe" /\ a.ok => a.value \in Nonces}
LineKinds == {"answer", "notify", "ping", "junk", "long", "nul", "reconnect", "difficulty", "mask", "xnonce"}
WireLines ==
    {l \in [session : Nat, no : Nat, kind : LineKinds,
            value : Wants \cup AnswersSaid \cup Nat \cup MasksSaid \cup Nonces] :
        /\ l.kind = "notify" => l.value \in Wants
        /\ l.kind = "answer" => l.value \in AnswersSaid
        /\ l.kind = "difficulty" => l.value \in {0, TopDifficulty}
        /\ l.kind = "mask" => l.value \in PoolMasks
        /\ l.kind = "xnonce" => l.value \in Nonces}
WireCells == [line : WireLines, ends : BOOLEAN]

(* What the pool has sent and the loop has not handled: in the buffer, then *)
(* in the stream. The lines in it, and the answers among them.              *)
Unhandled == buf \o stream
LinesIn(q) == {q[i].line : i \in 1..Len(q)}
AnswersIn(q) == {l \in LinesIn(q) : l.kind = "answer"}
ShareAnswers(q, ok) == {l \in AnswersIn(q) : l.value.of = "share" /\ l.value.ok = ok}
SharesTaken(q) == {l \in AnswersIn(q) : l.value.of = "share" /\ l.value.ok}
SharesRefused(q) == {l \in AnswersIn(q) : l.value.of = "share" /\ ~l.value.ok}

---------------------------------------------------------------------------
(* The inductive invariant, part by part. First the types.                  *)
Tallies == [accepted : Nat, rejected : Nat, sent : Nat, handled : Nat]
LineShapes ==
    /\ pool \in PoolSettings /\ pc \in {"start", "read", "suggest", "extranonce", "reconnect"}
    /\ uid \in Nat \ {0} /\ ids \in [Asking -> Nat] /\ sender \in Nat
    /\ timing \in [0..(TimingSlots - 1) -> Nat]
    /\ accepted \in Nat /\ rejected \in Nat /\ sessions \in Nat
    /\ counts \in Tallies
    /\ conn \in Wants /\ meant \in Wants
    /\ buf \in Seq(WireCells) /\ stream \in Seq(WireCells)
    /\ open \subseteq PoolRequests

(* The lines with the numbers from low to high, all of one session, one     *)
(* after the other: those of a line are together, and the last one ends it. *)
InLine(q, low, high, during) ==
    /\ \A i \in 1..Len(q) : q[i].line.no \in low..high /\ q[i].line.session = during
    /\ \A i, j \in 1..Len(q) :
        i < j => q[i].line.no <= q[j].line.no /\ (q[i].ends => q[i].line.no < q[j].line.no)
    /\ \A i, j \in 1..Len(q) : q[i].line.no = q[j].line.no => q[i].line = q[j].line
    /\ \A n \in low..high : \E i \in 1..Len(q) : q[i].line.no = n /\ q[i].ends

(* Between sessions nothing of the last one is left.                        *)
AtRest ==
    /\ uid = 1 /\ ids = [r \in Asking |-> 0] /\ buf = <<>> /\ stream = <<>> /\ open = {}
    /\ sender = 0 /\ work = NothingSaid /\ timed = NothingSaid /\ timing = [i \in 0..(TimingSlots - 1) |-> 0]

(* No line is lost, repeated or overtaken on its way.                       *)
LinesInOrder ==
    /\ pc # "start" =>
        counts.handled <= counts.sent /\ InLine(Unhandled, counts.handled + 1, counts.sent, sessions)
    /\ pc = "start" => AtRest

(* What was counted and what is on the way is what the pool decided.        *)
SharesAdd ==
    /\ accepted + Cardinality(SharesTaken(Unhandled)) = counts.accepted
    /\ rejected + Cardinality(SharesRefused(Unhandled)) = counts.rejected

(* The id of a request tells what it was: a share's is none of the set-up,  *)
(* and the ids of the set-up differ. Each request is answered once; the two *)
(* that follow the authorization are sent after it has been answered.       *)
KnownAs(id, of) ==
    /\ id < uid
    /\ IF of = "share" THEN \A r \in Asking : ids[r] # id ELSE ids[of] = id
Told(of) == (\E r \in open : r.kind = of) \/ (\E l \in AnswersIn(Unhandled) : l.value.of = of)
IdsTell ==
    /\ \A r \in Asking : ids[r] < uid /\ \A p \in Asking : ids[r] = ids[p] /\ ids[r] # 0 => r = p
    /\ \A r \in open : KnownAs(r.id, r.kind) /\ \A p \in open : p.id = r.id => p = r
    /\ \A l \in AnswersIn(Unhandled) :
        /\ KnownAs(l.value.id, l.value.of)
        /\ \A r \in open : r.id # l.value.id
        /\ \A m \in AnswersIn(Unhandled) : m.value.id = l.value.id => m = l
    /\ Told("authorize") => ids["suggest"] = 0 /\ ids["extranonce"] = 0 /\ pc \notin {"suggest", "extranonce"}
    /\ pc = "suggest" => ids["suggest"] = 0 /\ ids["extranonce"] = 0
    /\ pc = "extranonce" => ids["extranonce"] = 0
    /\ info = "authRejected" => ids["authorize"] # 0

(* The slot of a share that is not answered holds its time, is empty, or    *)
(* has been taken over by a later share in the same slot.                   *)
NotOvertaken(id) == id = sender \/ timing[id % TimingSlots] = 0 \/ timing[id % TimingSlots] >= id
TimesFit ==
    /\ \A s \in 0..(TimingSlots - 1) : timing[s] # 0 => timing[s] % TimingSlots = s /\ timing[s] < uid
    /\ sender # 0 => uid = sender + 1
    /\ \A r \in open : r.kind = "share" => NotOvertaken(r.id)
    /\ \A l \in AnswersIn(Unhandled) : l.value.of = "share" => NotOvertaken(l.value.id)
    /\ timed # NothingSaid /\ ~early => timed.of = timed.id \/ timed.of >= timed.id + TimingSlots

(* What the miner knows and the lines before the n-th tell it amounts to v: *)
(* for each thing that can be wanted, v has what the last of these lines    *)
(* that tells of it says, or what the miner has if there is none.           *)
WantFields == {"difficulty", "mask", "extranonce"}
Tells(l, f) ==
    \/ f = "difficulty" /\ l.kind = "difficulty" /\ l.value # 0
    \/ f = "mask" /\ (l.kind = "mask" \/ (l.kind = "answer" /\ l.value.of = "configure" /\ l.value.ok))
    \/ /\ f = "extranonce"
       /\ l.kind = "xnonce" \/ (l.kind = "answer" /\ l.value.of = "subscribe" /\ l.value.ok)
ToldBy(l) == IF l.kind = "answer" THEN l.value.value ELSE l.value
AsMined(f, x) == IF f = "mask" THEN x \cap RollingBits ELSE x
Follows(all, c, v, n) ==
    \A f \in WantFields :
        /\ (\A l \in all : l.no < n => ~Tells(l, f)) => c[f] = AsMined(f, v[f])
        /\ \A l \in all :
            l.no < n /\ Tells(l, f) /\ (\A m \in all : l.no < m.no /\ m.no < n => ~Tells(m, f))
              => v[f] = ToldBy(l)

(* A job on its way is announced with what the lines before it amount to,   *)
(* and all of them amount to what the pool means now.                       *)
WorkFollows ==
    /\ pc # "start" =>
        /\ Follows(LinesIn(Unhandled), conn, meant, counts.sent + 1)
        /\ \A l \in LinesIn(Unhandled) : l.kind = "notify" => Follows(LinesIn(Unhandled), conn, l.value, l.no)
    /\ work # NothingSaid => work.given = [work.meant EXCEPT !.mask = @ \cap RollingBits]

LineInv == LineShapes /\ LinesInOrder /\ SharesAdd /\ IdsTell /\ TimesFit /\ WorkFollows

---------------------------------------------------------------------------
(* Lines, cells and queues of them.                                         *)

(* A cell of a queue, and its line                                          *)
LEMMA CellIs ==
    ASSUME NEW q \in Seq(WireCells), NEW i \in 1..Len(q)
    PROVE  q[i] \in WireCells /\ q[i].line \in WireLines /\ q[i].line \in LinesIn(q)
           /\ q[i].line.no \in Nat /\ q[i].ends \in BOOLEAN
<1>1. q[i] \in WireCells
  BY ElementOfSeq
<1>2. q[i].line \in WireLines /\ q[i].ends \in BOOLEAN
  BY <1>1 DEF WireCells
<1> QED
  BY <1>1, <1>2 DEF LinesIn, WireLines

(* What a line is cut into                                                  *)
LEMMA CellsAre ==
    ASSUME LinesAreSound, NEW l \in WireLines
    PROVE  /\ Lines!Cells(l) \in Seq(WireCells) /\ Len(Lines!Cells(l)) \in Nat \ {0}
           /\ \A i \in 1..Len(Lines!Cells(l)) :
                Lines!Cells(l)[i].line = l /\ Lines!Cells(l)[i].ends = (i = Len(Lines!Cells(l)))
<1> DEFINE n == IF l.kind = "long" THEN LongestLine + 1 ELSE 1
           a == [k \in 1..n |-> [line |-> l, ends |-> FALSE]]
           z == <<[line |-> l, ends |-> TRUE]>>
<1>1. n \in Nat \ {0}
  BY DEF LinesAreSound
<1>2. [line |-> l, ends |-> FALSE] \in WireCells /\ [line |-> l, ends |-> TRUE] \in WireCells
  BY DEF WireCells
<1> HIDE DEF n
<1>3. a \in [1..n -> WireCells]
  BY <1>2
<1>4. a \in Seq(WireCells)
  BY <1>1, <1>3, SeqDef
<1>5. Len(a) = n
  <2>1. Len(a) \in Nat /\ DOMAIN a = 1..Len(a)
    BY <1>4, LenProperties
  <2>2. DOMAIN a = 1..n
    OBVIOUS
  <2> QED
    BY <1>1, <2>1, <2>2
<1>6. z \in Seq(WireCells) /\ Len(z) = 1 /\ z[1] = [line |-> l, ends |-> TRUE]
  BY <1>2
<1>7. \A i \in 1..n : a[i] = [line |-> l, ends |-> FALSE]
  OBVIOUS
<1>8. Lines!Cells(l) = a \o z
  BY Zenon DEF Lines!Cells, n
<1> HIDE DEF a, z
<1>9. /\ a \o z \in Seq(WireCells) /\ Len(a \o z) = n + 1
      /\ \A i \in 1..(n + 1) : (a \o z)[i] = IF i <= n THEN a[i] ELSE z[i - n]
  <2>1. /\ a \o z \in Seq(WireCells) /\ Len(a \o z) = Len(a) + Len(z)
        /\ \A i \in 1..(Len(a) + Len(z)) : (a \o z)[i] = IF i <= Len(a) THEN a[i] ELSE z[i - Len(a)]
    BY <1>4, <1>6, ConcatProperties
  <2> QED
    BY <1>5, <1>6, <2>1
<1>10. ASSUME NEW i \in 1..(n + 1)
       PROVE  (a \o z)[i].line = l /\ (a \o z)[i].ends = (i = n + 1)
  <2>1. CASE i <= n
    <3>1. i \in 1..n /\ i # n + 1
      BY <1>1, <2>1
    <3>2. (a \o z)[i] = [line |-> l, ends |-> FALSE]
      BY <1>7, <1>9, <2>1, <3>1
    <3>3. (a \o z)[i].line = l /\ (a \o z)[i].ends = FALSE
      BY <3>2
    <3> QED
      BY <3>1, <3>3, Zenon
  <2>2. CASE ~(i <= n)
    <3>1. i = n + 1 /\ i - n = 1
      BY <1>1, <2>2
    <3>2. (a \o z)[i] = [line |-> l, ends |-> TRUE]
      BY <1>6, <1>9, <2>2, <3>1
    <3>3. (a \o z)[i].line = l /\ (a \o z)[i].ends = TRUE
      BY <3>2
    <3> QED
      BY <3>1, <3>3, Zenon
  <2> QED
    BY <2>1, <2>2
<1> QED
  BY <1>1, <1>8, <1>9, <1>10

(* A line behind the others                                                 *)
LEMMA LineAppended ==
    ASSUME LinesAreSound,
               NEW q \in Seq(WireCells), NEW l \in WireLines, NEW low \in Nat, NEW high \in Nat,
           InLine(q, low, high, l.session), l.no = high + 1, low <= high + 1
    PROVE  /\ q \o Lines!Cells(l) \in Seq(WireCells)
           /\ InLine(q \o Lines!Cells(l), low, high + 1, l.session)
           /\ LinesIn(q \o Lines!Cells(l)) = LinesIn(q) \cup {l}
<1> DEFINE t == Lines!Cells(l)
           r == q \o t
<1>1. /\ t \in Seq(WireCells) /\ Len(t) \in Nat \ {0}
      /\ \A i \in 1..Len(t) : t[i].line = l /\ t[i].ends = (i = Len(t))
  BY CellsAre
<1> HIDE DEF t
<1>2. /\ r \in Seq(WireCells) /\ Len(r) = Len(q) + Len(t) /\ Len(q) \in Nat
      /\ \A i \in 1..(Len(q) + Len(t)) : r[i] = IF i <= Len(q) THEN q[i] ELSE t[i - Len(q)]
  BY <1>1, ConcatProperties, LenProperties
<1> HIDE DEF r
<1>3. ASSUME NEW i \in 1..Len(q)
      PROVE  i \in 1..Len(r) /\ r[i] = q[i] /\ q[i].line \in WireLines /\ q[i].line.no \in low..high
             /\ q[i].line.session = l.session
  <2>1. i \in 1..Len(r) /\ r[i] = q[i]
    BY <1>1, <1>2
  <2> QED
    BY <2>1, CellIs DEF InLine
<1>4. ASSUME NEW i \in 1..Len(r), i > Len(q)
      PROVE  i - Len(q) \in 1..Len(t) /\ r[i].line = l /\ r[i].ends = (i = Len(r))
  <2>1. i - Len(q) \in 1..Len(t) /\ r[i] = t[i - Len(q)]
    BY <1>1, <1>2, <1>4
  <2>2. (i - Len(q) = Len(t)) <=> (i = Len(r))
    BY <1>1, <1>2
  <2> QED
    BY <1>1, <2>1, <2>2
<1>5. \A i \in 1..Len(r) : i <= Len(q) => i \in 1..Len(q)
  BY <1>1, <1>2
<1>6. ASSUME NEW i \in 1..Len(r)
      PROVE  r[i].line.no \in low..(high + 1) /\ r[i].line.session = l.session
  <2>1. CASE i <= Len(q)
    <3>1. r[i].line.no \in low..high /\ r[i].line.session = l.session
      BY <1>3, <1>5, <2>1
    <3> QED
      BY <3>1
  <2>2. CASE i > Len(q)
    BY <1>4, <2>2
  <2> QED
    BY <1>2, <2>1, <2>2
<1>7. ASSUME NEW i \in 1..Len(r), NEW j \in 1..Len(r), i < j
      PROVE  r[i].line.no <= r[j].line.no /\ (r[i].ends => r[i].line.no < r[j].line.no)
  <2>1. CASE j <= Len(q)
    <3>1. i \in 1..Len(q) /\ j \in 1..Len(q)
      BY <1>2, <1>7, <2>1
    <3> QED
      BY <1>3, <1>7, <3>1 DEF InLine
  <2>2. CASE j > Len(q) /\ i <= Len(q)
    BY <1>3, <1>4, <1>5, <2>2
  <2>3. CASE i > Len(q)
    <3>1. r[i].line = l /\ r[j].line = l /\ i # Len(r) /\ j > Len(q)
      BY <1>2, <1>4, <1>7, <2>3
    <3>2. ~r[i].ends
      BY <1>4, <2>3, <3>1
    <3> QED
      BY <3>1, <3>2
  <2> QED
    BY <1>2, <2>1, <2>2, <2>3
<1>8. ASSUME NEW i \in 1..Len(r), NEW j \in 1..Len(r), r[i].line.no = r[j].line.no
      PROVE  r[i].line = r[j].line
  <2>1. CASE i <= Len(q) /\ j <= Len(q)
    <3>1. i \in 1..Len(q) /\ j \in 1..Len(q)
      BY <1>5, <2>1
    <3> QED
      BY <1>3, <1>8, <3>1 DEF InLine
  <2>2. CASE i > Len(q) /\ j > Len(q)
    BY <1>4, <2>2
  <2>3. CASE i <= Len(q) /\ j > Len(q)
    BY <1>3, <1>4, <1>5, <1>8, <2>3
  <2>4. CASE i > Len(q) /\ j <= Len(q)
    BY <1>3, <1>4, <1>5, <1>8, <2>4
  <2> QED
    BY <1>2, <2>1, <2>2, <2>3, <2>4
<1>9. ASSUME NEW n \in low..(high + 1)
      PROVE  \E i \in 1..Len(r) : r[i].line.no = n /\ r[i].ends
  <2>1. CASE n = high + 1
    <3>1. Len(r) \in 1..Len(r) /\ Len(r) > Len(q)
      BY <1>1, <1>2
    <3> QED
      BY <1>4, <2>1, <3>1
  <2>2. CASE n # high + 1
    <3>1. n \in low..high
      BY <2>2
    <3>2. PICK i \in 1..Len(q) : q[i].line.no = n /\ q[i].ends
      BY <3>1 DEF InLine
    <3> QED
      BY <1>3, <3>2
  <2> QED
    BY <2>1, <2>2
<1>10. InLine(r, low, high + 1, l.session)
  BY <1>6, <1>7, <1>8, <1>9 DEF InLine
<1>11. LinesIn(r) = LinesIn(q) \cup {l}
  <2>1. ASSUME NEW x \in LinesIn(r) PROVE x \in LinesIn(q) \cup {l}
    <3>1. PICK i \in 1..Len(r) : x = r[i].line
      BY DEF LinesIn
    <3> QED
      BY <1>2, <1>3, <1>4, <1>5, <3>1 DEF LinesIn
  <2>2. ASSUME NEW x \in LinesIn(q) PROVE x \in LinesIn(r)
    <3>1. PICK i \in 1..Len(q) : x = q[i].line
      BY DEF LinesIn
    <3> QED
      BY <1>3, <3>1 DEF LinesIn
  <2>3. l \in LinesIn(r)
    <3>1. Len(r) \in 1..Len(r) /\ Len(r) > Len(q)
      BY <1>1, <1>2
    <3> QED
      BY <1>4, <3>1 DEF LinesIn
  <2> QED
    BY <2>1, <2>2, <2>3
<1> QED
  BY <1>2, <1>10, <1>11 DEF r, t

(* The first cell that ends a line                                          *)
LEMMA NewlineIs ==
    ASSUME NEW b \in Seq(WireCells), Lines!HasLine(b)
    PROVE  /\ Lines!Newline(b) \in 1..Len(b) /\ b[Lines!Newline(b)].ends
           /\ \A j \in 1..(Lines!Newline(b) - 1) : ~b[j].ends
<1> DEFINE ending == {i \in 1..Len(b) : b[i].ends}
           Less == OpToRel(<, Nat)
<1>1. Len(b) \in Nat /\ DOMAIN b = 1..Len(b)
  BY LenProperties
<1>2. ending # {} /\ ending \subseteq Nat
  BY <1>1 DEF Lines!HasLine
<1>3. PICK k \in ending : \A w \in ending : ~(<<w, k>> \in Less)
  <2>1. IsWellFoundedOn(Less, Nat)
    BY NatLessThanWellFounded, Zenon
  <2> QED
    BY ONLY <1>2, <2>1, WFMin, Zenon
<1>4. k \in 1..Len(b) /\ b[k].ends
  OBVIOUS
<1>5. ASSUME NEW j \in 1..(k - 1) PROVE ~b[j].ends
  <2>1. SUFFICES ASSUME b[j].ends PROVE FALSE
    OBVIOUS
  <2>2. j \in ending /\ j < k /\ j \in Nat /\ k \in Nat
    BY <1>1, <1>4, <2>1
  <2>3. <<j, k>> \in Less
    BY <2>2 DEF OpToRel
  <2> QED
    BY <1>3, <2>2, <2>3
<1>6. \E n \in DOMAIN b : b[n].ends /\ \A j \in 1..(n - 1) : ~b[j].ends
  BY <1>1, <1>4, <1>5
<1> HIDE DEF ending
<1> QED
  BY <1>1, <1>6 DEF Lines!Newline

(* The first line taken from the others                                     *)
LEMMA LineTaken ==
    ASSUME NEW b \in Seq(WireCells),
               NEW s \in Seq(WireCells), NEW low \in Nat, NEW high \in Nat, NEW during,
           InLine(b \o s, low, high, during), Lines!HasLine(b), NEW k, k = Lines!Newline(b)
    PROVE  /\ k \in 1..Len(b) /\ b[k].line \in LinesIn(b \o s) /\ b[k].line \in WireLines
           /\ b[k].line.no = low /\ low <= high /\ b[k].line.session = during
           /\ \A j \in 1..k : b[j].line = b[k].line
           /\ Lines!LeftOver(b, k) \in Seq(WireCells)
           /\ InLine(Lines!LeftOver(b, k) \o s, low + 1, high, during)
           /\ LinesIn(Lines!LeftOver(b, k) \o s) = LinesIn(b \o s) \ {b[k].line}
<1> DEFINE q == b \o s
           t == Lines!LeftOver(b, k)
           r == t \o s
<1>1. k \in 1..Len(b) /\ b[k].ends /\ \A j \in 1..(k - 1) : ~b[j].ends
  BY NewlineIs
<1>2. Len(b) \in Nat /\ Len(s) \in Nat /\ DOMAIN b = 1..Len(b)
  BY LenProperties
<1>3. /\ q \in Seq(WireCells) /\ Len(q) = Len(b) + Len(s)
      /\ \A i \in 1..(Len(b) + Len(s)) : q[i] = IF i <= Len(b) THEN b[i] ELSE s[i - Len(b)]
  BY ConcatProperties
<1>4. /\ t \in Seq(WireCells) /\ Len(t) = Len(b) - k
      /\ \A i \in 1..(Len(b) - k) : t[i] = b[k + i]
  <2>1. \A i \in (k + 1)..Len(b) : b[i] \in WireCells
    BY <1>1, <1>2, ElementOfSeq
  <2>2. k + 1 \in Int /\ Len(b) \in Int
    BY <1>1, <1>2
  <2> HIDE DEF t
  <2>3. /\ SubSeq(b, k + 1, Len(b)) \in Seq(WireCells)
        /\ Len(SubSeq(b, k + 1, Len(b))) = IF k + 1 <= Len(b) THEN Len(b) - (k + 1) + 1 ELSE 0
        /\ \A i \in 1..(Len(b) - (k + 1) + 1) : SubSeq(b, k + 1, Len(b))[i] = b[(k + 1) + i - 1]
    BY ONLY <2>1, <2>2, SubSeqProperties
  <2>4. t = SubSeq(b, k + 1, Len(b))
    BY DEF t, Lines!LeftOver
  <2>5. Len(t) = Len(b) - k
    BY <1>1, <1>2, <2>3, <2>4
  <2>6. ASSUME NEW i \in 1..(Len(b) - k) PROVE t[i] = b[k + i]
    <3>1. i \in 1..(Len(b) - (k + 1) + 1) /\ (k + 1) + i - 1 = k + i
      BY <1>1, <1>2
    <3> QED
      BY <2>3, <2>4, <3>1
  <2> QED
    BY <2>3, <2>4, <2>5, <2>6
<1> HIDE DEF q, t
<1>5. /\ r \in Seq(WireCells) /\ Len(r) = Len(t) + Len(s)
      /\ \A i \in 1..(Len(t) + Len(s)) : r[i] = IF i <= Len(t) THEN t[i] ELSE s[i - Len(t)]
  BY <1>4, ConcatProperties
<1> HIDE DEF r
<1>6. Len(r) = Len(q) - k /\ Len(r) \in Nat /\ Len(q) \in Nat /\ k \in 1..Len(q)
  BY <1>1, <1>2, <1>3, <1>4, <1>5
<1>7. ASSUME NEW i \in 1..Len(r) PROVE i + k \in 1..Len(q) /\ i + k > k /\ r[i] = q[i + k]
  <2>1. i + k \in 1..Len(q) /\ i + k > k
    BY <1>1, <1>6
  <2>2. CASE i <= Len(t)
    <3>1. i \in 1..(Len(b) - k) /\ i + k = k + i /\ i + k <= Len(b)
      BY <1>1, <1>2, <1>4, <2>2
    <3>2. r[i] = t[i] /\ t[i] = b[k + i] /\ q[i + k] = b[i + k]
      BY <1>3, <1>4, <1>5, <2>1, <2>2, <3>1
    <3> QED
      BY <2>1, <3>1, <3>2
  <2>3. CASE ~(i <= Len(t))
    <3>1. i - Len(t) = (i + k) - Len(b) /\ ~(i + k <= Len(b))
      BY <1>1, <1>2, <1>4, <2>3
    <3>2. r[i] = s[i - Len(t)] /\ q[i + k] = s[(i + k) - Len(b)]
      BY <1>3, <1>5, <2>1, <2>3, <3>1
    <3> QED
      BY <2>1, <3>1, <3>2
  <2> QED
    BY <2>2, <2>3
<1>8. ASSUME NEW j \in 1..Len(q), j > k PROVE j - k \in 1..Len(r) /\ r[j - k] = q[j]
  <2>1. j - k \in 1..Len(r) /\ (j - k) + k = j
    BY <1>1, <1>6, <1>8
  <2> QED
    BY <1>7, <2>1
<1>9. ASSUME NEW j \in 1..k PROVE j \in 1..Len(q) /\ q[j] = b[j]
  BY <1>1, <1>2, <1>3
<1>10. InLine(q, low, high, during)
  BY DEF q
<1>11. q[k].ends /\ q[k] = b[k] /\ k \in 1..Len(q)
  BY <1>1, <1>9
<1>12. q[k].line.no = low /\ low <= high
  <2>1. q[k].line.no \in low..high
    BY <1>10, <1>11 DEF InLine
  <2>2. low <= high /\ low \in low..high
    BY <2>1
  <2>3. PICK e \in 1..Len(q) : q[e].line.no = low /\ q[e].ends
    BY <1>10, <2>2 DEF InLine
  <2>4. e >= k
    <3>1. SUFFICES ASSUME e < k PROVE FALSE
      BY <1>6
    <3>2. e \in 1..(k - 1) /\ e \in 1..k
      BY <1>6, <3>1
    <3> QED
      BY <1>1, <1>9, <2>3, <3>2
  <2>5. CASE e = k
    BY <2>2, <2>3, <2>5
  <2>6. CASE e > k
    <3>1. q[k].line.no <= q[e].line.no
      BY <1>10, <1>11, <2>6 DEF InLine
    <3> QED
      BY <2>1, <2>2, <2>3, <3>1
  <2> QED
    BY <1>6, <2>4, <2>5, <2>6
<1>13. ASSUME NEW j \in 1..k PROVE q[j].line.no = low /\ q[j].line = q[k].line
  <2>1. j \in 1..Len(q) /\ q[j].line.no \in low..high
    BY <1>9, <1>10 DEF InLine
  <2>2. CASE j = k
    BY <1>12, <2>2
  <2>3. CASE j < k
    <3>1. q[j].line.no <= q[k].line.no
      BY <1>10, <1>11, <2>1, <2>3 DEF InLine
    <3>2. q[j].line.no = q[k].line.no
      BY <1>12, <2>1, <3>1
    <3> QED
      BY <1>10, <1>11, <1>12, <2>1, <3>2 DEF InLine
  <2> QED
    BY <1>6, <2>2, <2>3
<1>14. ASSUME NEW j \in 1..Len(q), j > k
                  PROVE q[j].line.no \in (low + 1)..high /\ q[j].line # q[k].line
  <2>1. q[k].line.no < q[j].line.no /\ q[j].line.no \in low..high
    BY <1>10, <1>11, <1>14 DEF InLine
  <2>2. q[j].line.no \in (low + 1)..high /\ q[j].line.no # q[k].line.no
    BY <1>12, <2>1
  <2> QED
    BY <2>2
<1>15. InLine(r, low + 1, high, during)
  <2>1. ASSUME NEW i \in 1..Len(r)
        PROVE  r[i].line.no \in (low + 1)..high /\ r[i].line.session = during
    <3>1. i + k \in 1..Len(q) /\ i + k > k /\ r[i] = q[i + k]
      BY <1>7
    <3>2. q[i + k].line.no \in (low + 1)..high
      BY <1>14, <3>1
    <3>3. q[i + k].line.session = during
      BY <1>10, <3>1 DEF InLine
    <3> QED
      BY <3>1, <3>2, <3>3
  <2>2. ASSUME NEW i \in 1..Len(r), NEW j \in 1..Len(r), i < j
        PROVE  r[i].line.no <= r[j].line.no /\ (r[i].ends => r[i].line.no < r[j].line.no)
    <3>1. i + k < j + k
      BY <1>6, <2>2
    <3>2. i + k \in 1..Len(q) /\ j + k \in 1..Len(q) /\ r[i] = q[i + k] /\ r[j] = q[j + k]
      BY <1>7
    <3>3. q[i + k].line.no <= q[j + k].line.no
          /\ (q[i + k].ends => q[i + k].line.no < q[j + k].line.no)
      BY <1>10, <3>1, <3>2 DEF InLine
    <3> QED
      BY <3>2, <3>3
  <2>3. ASSUME NEW i \in 1..Len(r), NEW j \in 1..Len(r), r[i].line.no = r[j].line.no
        PROVE  r[i].line = r[j].line
    <3>1. i + k \in 1..Len(q) /\ j + k \in 1..Len(q) /\ r[i] = q[i + k] /\ r[j] = q[j + k]
      BY <1>7
    <3> QED
      BY <1>10, <2>3, <3>1 DEF InLine
  <2>4. ASSUME NEW n \in (low + 1)..high
        PROVE  \E i \in 1..Len(r) : r[i].line.no = n /\ r[i].ends
    <3>1. n \in low..high /\ n # low
      OBVIOUS
    <3>2. PICK j \in 1..Len(q) : q[j].line.no = n /\ q[j].ends
      BY <1>10, <3>1 DEF InLine
    <3>3. j > k
      <4>1. ~(j \in 1..k)
        BY <1>13, <3>1, <3>2
      <4> QED
        BY <1>6, <4>1
    <3> QED
      BY <1>8, <3>2, <3>3
  <2> QED
    BY <2>1, <2>2, <2>3, <2>4 DEF InLine
<1>16. LinesIn(r) = LinesIn(q) \ {q[k].line}
  <2>1. ASSUME NEW x \in LinesIn(r) PROVE x \in LinesIn(q) \ {q[k].line}
    <3>1. PICK i \in 1..Len(r) : x = r[i].line
      BY DEF LinesIn
    <3>2. i + k \in 1..Len(q) /\ i + k > k /\ x = q[i + k].line
      BY <1>7, <3>1
    <3> QED
      BY <1>14, <3>2 DEF LinesIn
  <2>2. ASSUME NEW x \in LinesIn(q), x # q[k].line PROVE x \in LinesIn(r)
    <3>1. PICK j \in 1..Len(q) : x = q[j].line
      BY DEF LinesIn
    <3>2. j > k
      <4>1. ~(j \in 1..k)
        BY <1>13, <2>2, <3>1
      <4> QED
        BY <1>6, <4>1
    <3> QED
      BY <1>8, <3>1, <3>2 DEF LinesIn
  <2> QED
    BY <2>1, <2>2
<1>17. b[k].line \in LinesIn(q) /\ b[k].line \in WireLines /\ b[k].line.session = during
  BY <1>3, <1>10, <1>11, CellIs DEF InLine
<1>18. \A j \in 1..k : b[j].line = b[k].line
  BY <1>9, <1>13, <1>11
<1> QED
  BY <1>1, <1>4, <1>11, <1>12, <1>15, <1>16, <1>17, <1>18 DEF q, r, t

(* Three pieces of the stream are put together in either way               *)
LEMMA CellsAssociate ==
    ASSUME NEW a \in Seq(WireCells), NEW c \in Seq(WireCells), NEW d \in Seq(WireCells)
    PROVE  (a \o c) \o d = a \o (c \o d)
<1> DEFINE S == WireCells
<1>1. a \in Seq(S) /\ c \in Seq(S) /\ d \in Seq(S)
  OBVIOUS
<1> HIDE DEF S
<1> QED
  BY ONLY <1>1, ConcatAssociative, SMTT(60)

(* What is read of the stream is behind what was there                      *)
LEMMA QueueStays ==
    ASSUME NEW b \in Seq(WireCells), NEW s \in Seq(WireCells), NEW n \in 1..Len(s)
    PROVE  /\ b \o SubSeq(s, 1, n) \in Seq(WireCells) /\ SubSeq(s, n + 1, Len(s)) \in Seq(WireCells)
           /\ (b \o SubSeq(s, 1, n)) \o SubSeq(s, n + 1, Len(s)) = b \o s
<1>1. Len(s) \in Nat
  BY LenProperties
<1>2. 1 \in 1..(Len(s) + 1) /\ n \in (1 - 1)..Len(s) /\ Len(s) \in n..Len(s)
  BY <1>1
<1>3. SubSeq(s, 1, n) \o SubSeq(s, n + 1, Len(s)) = SubSeq(s, 1, Len(s))
  BY ONLY <1>2, ConcatAdjacentSubSeq
<1>4. SubSeq(s, 1, Len(s)) = s
  BY SubSeqFull
<1>5. \A i \in 1..Len(s) : s[i] \in WireCells
  BY ElementOfSeq
<1>6. SubSeq(s, 1, n) \in Seq(WireCells)
  <2>1. 1 \in Int /\ n \in Int /\ \A i \in 1..n : s[i] \in WireCells
    BY <1>1, <1>5
  <2> QED
    BY ONLY <2>1, SubSeqProperties
<1>7. SubSeq(s, n + 1, Len(s)) \in Seq(WireCells)
  <2>1. n + 1 \in Int /\ Len(s) \in Int /\ \A i \in (n + 1)..Len(s) : s[i] \in WireCells
    BY <1>1, <1>5
  <2> QED
    BY ONLY <2>1, SubSeqProperties
<1>8. b \o SubSeq(s, 1, n) \in Seq(WireCells)
  BY <1>6, ConcatProperties
<1>9. (b \o SubSeq(s,
          1, n)) \o SubSeq(s, n + 1, Len(s)) = b \o (SubSeq(s, 1, n) \o SubSeq(s, n + 1, Len(s)))
  <2> DEFINE u == SubSeq(s, 1, n)
             v == SubSeq(s, n + 1, Len(s))
  <2>1. u \in Seq(WireCells) /\ v \in Seq(WireCells) /\ b \in Seq(WireCells)
    BY <1>6, <1>7
  <2> HIDE DEF u, v
  <2>2. (b \o u) \o v = b \o (u \o v)
    BY ONLY <2>1, CellsAssociate
  <2> QED
    BY <2>2 DEF u, v
<1> QED
  BY <1>3, <1>4, <1>7, <1>8, <1>9, Zenon

(* A line has one cell that ends it: the answers can be counted by either   *)
LEMMA SharesAreCounted ==
    ASSUME NEW q \in Seq(WireCells),
               NEW low \in Nat, NEW high \in Nat, NEW during, InLine(q, low, high, during),
           NEW ok \in BOOLEAN
    PROVE  /\ IsFiniteSet(ShareAnswers(q, ok)) /\ Cardinality(ShareAnswers(q, ok)) \in Nat
           /\ Cardinality({k \in DOMAIN q :
                  q[k].ends /\ q[k].line.kind = "answer"
                  /\ q[k].line.value.of = "share" /\ q[k].line.value.ok = ok})
              = Cardinality(ShareAnswers(q, ok))
<1> DEFINE K == {k \in DOMAIN q :
                  q[k].ends /\ q[k].line.kind = "answer"
                  /\ q[k].line.value.of = "share" /\ q[k].line.value.ok = ok}
           f == [k \in K |-> q[k].line]
<1>1. Len(q) \in Nat /\ DOMAIN q = 1..Len(q)
  BY LenProperties
<1>2. IsFiniteSet(K)
  <2>1. IsFiniteSet(1..Len(q))
    BY <1>1, FS_Interval
  <2>2. K \subseteq 1..Len(q)
    BY <1>1
  <2> QED
    BY <2>1, <2>2, FS_Subset
<1>3. ASSUME NEW k \in K PROVE f[k] = q[k].line /\ q[k].line \in ShareAnswers(q, ok)
  BY <1>1 DEF ShareAnswers, AnswersIn, LinesIn
<1>4. ASSUME NEW l \in ShareAnswers(q, ok) PROVE \E k \in K : f[k] = l
  <2>1. l.kind = "answer" /\ l.value.of = "share" /\ l.value.ok = ok
    BY DEF ShareAnswers, AnswersIn
  <2>2. PICK i \in 1..Len(q) : q[i].line = l
    BY DEF ShareAnswers, AnswersIn, LinesIn
  <2>3. l.no \in low..high
    BY <2>2 DEF InLine
  <2>4. PICK k \in 1..Len(q) : q[k].line.no = l.no /\ q[k].ends
    BY <2>3 DEF InLine
  <2>5. q[k].line = l
    BY <2>2, <2>4 DEF InLine
  <2>6. k \in K
    BY <1>1, <2>1, <2>4, <2>5
  <2> QED
    BY <1>3, <2>5, <2>6
<1>5. ASSUME NEW i \in K, NEW j \in K, f[i] = f[j] PROVE i = j
  <2>1. i \in 1..Len(q) /\ j \in 1..Len(q) /\ q[i].ends /\ q[j].ends /\ q[i].line.no = q[j].line.no
    BY <1>1, <1>3, <1>5
  <2>2. q[i].line.no \in Nat
    BY <2>1, CellIs
  <2>3. ~(i < j) /\ ~(j < i)
    BY <2>1, <2>2 DEF InLine
  <2> QED
    BY <1>1, <2>1, <2>3
<1>6. f \in Bijection(K, ShareAnswers(q, ok))
  <2>1. f \in [K -> ShareAnswers(q, ok)] /\ DOMAIN f = K
    BY <1>3
  <2> HIDE DEF K, f
  <2>2. f \in Injection(K, ShareAnswers(q, ok))
    BY <1>5, <2>1, Zenon DEF Injection, IsInjective
  <2>3. f \in Surjection(K, ShareAnswers(q, ok))
    BY <1>4, <2>1, Zenon DEF Surjection
  <2> QED
    BY <2>2, <2>3, Zenon DEF Bijection
<1> HIDE DEF K, f
<1>7. ExistsBijection(K, ShareAnswers(q, ok))
  BY <1>6, Zenon DEF ExistsBijection
<1>8. IsFiniteSet(ShareAnswers(q, ok)) /\ Cardinality(ShareAnswers(q, ok)) = Cardinality(K)
  BY <1>2, <1>7, FS_Bijection
<1> QED
  BY <1>8, FS_CardinalityType DEF K

(* The answers that are counted, by what they say                          *)
LEMMA SharesAre ==
    ASSUME NEW q \in Seq(WireCells)
    PROVE  ShareAnswers(q, TRUE) = SharesTaken(q) /\ ShareAnswers(q, FALSE) = SharesRefused(q)
<1>1. ASSUME NEW l \in AnswersIn(q) PROVE l.value.ok \in BOOLEAN
  <2>1. l.kind = "answer"
    BY DEF AnswersIn
  <2>2. PICK i \in 1..Len(q) : l = q[i].line
    BY DEF AnswersIn, LinesIn
  <2>3. l \in WireLines
    BY <2>2, CellIs
  <2>4. l.value \in AnswersSaid
    BY <2>1, <2>3 DEF WireLines
  <2> QED
    BY <2>4 DEF AnswersSaid
<1>2. ShareAnswers(q, TRUE) = SharesTaken(q)
  <2>1. \A l \in AnswersIn(q) : l.value.ok = TRUE <=> l.value.ok
    BY <1>1
  <2> QED
    BY <2>1 DEF ShareAnswers, SharesTaken
<1>3. ShareAnswers(q, FALSE) = SharesRefused(q)
  <2>1. \A l \in AnswersIn(q) : l.value.ok = FALSE <=> ~l.value.ok
    BY <1>1
  <2> QED
    BY <2>1 DEF ShareAnswers, SharesRefused
<1> QED
  BY <1>2, <1>3

---------------------------------------------------------------------------
(* How stratum_v1_run takes the first line                                  *)
Heard(l) ==
    IF l.kind = "difficulty" /\ l.value = 0 THEN [l EXCEPT !.kind = "junk"]
    ELSE IF l.kind = "mask" THEN [l EXCEPT !.value = @ \cap RollingBits] ELSE l
Takes(l) ==
    /\ l \in WireLines /\ l.no = counts.handled + 1 /\ l.no <= counts.sent /\ l.session = sessions
    /\ l \in LinesIn(Unhandled) /\ Lines!Message = Heard(l)
    /\ pc = "read" /\ buf' \in Seq(WireCells) /\ counts' = [counts EXCEPT !.handled = l.no]
    /\ InLine(Unhandled', counts'.handled + 1, counts'.sent, sessions)
    /\ LinesIn(Unhandled') = LinesIn(Unhandled) \ {l}
    /\ UNCHANGED <<pool, sender, stream, open, meant, lines, shares, sessions>>

(* What the loop takes from the buffer is the next line, whole             *)
LEMMA LineIsTaken ==
    ASSUME LinesAreSound, LineShapes, LinesInOrder, NEW kinds, Lines!Takes(kinds)
    PROVE  \E l : Takes(l)
<1> DEFINE k == Lines!Newline(buf)
           l == buf[k].line
<1>1. pc = "read" /\ Lines!HasLine(buf) /\ buf' = Lines!LeftOver(buf, k)
      /\ counts' = [counts EXCEPT !.handled =
              IF Lines!Message.no = @ + 1 /\ Lines!Message.session = sessions THEN @ + 1 ELSE -1]
      /\ UNCHANGED <<pool, sender, stream, shares, sessions>> /\ UNCHANGED <<open, meant, lines>>
  BY Zenon DEF Lines!Takes, Lines!peer
<1>2. buf \in Seq(WireCells) /\ stream \in Seq(WireCells)
      /\ counts \in [accepted : Nat, rejected : Nat, sent : Nat, handled : Nat]
  BY DEF LineShapes, Tallies
<1>3. InLine(buf \o stream, counts.handled + 1, counts.sent, sessions)
  BY <1>1 DEF LinesInOrder, Unhandled
<1>4. counts.handled + 1 \in Nat /\ counts.sent \in Nat /\ counts.handled \in Nat
  BY <1>2
<1>5. k = Lines!Newline(buf)
  OBVIOUS
<1>6. l = buf[k].line
  OBVIOUS
<1> HIDE DEF k, l
<1>7. /\ k \in 1..Len(buf) /\ buf[k].line \in LinesIn(buf \o stream) /\ buf[k].line \in WireLines
      /\ buf[k].line.no = counts.handled + 1 /\ counts.handled + 1 <= counts.sent
      /\ buf[k].line.session = sessions
      /\ \A j \in 1..k : buf[j].line = buf[k].line
      /\ Lines!LeftOver(buf, k) \in Seq(WireCells)
      /\ InLine(Lines!LeftOver(buf, k) \o stream, (counts.handled + 1) + 1, counts.sent, sessions)
      /\ LinesIn(Lines!LeftOver(buf, k) \o stream) = LinesIn(buf \o stream) \ {buf[k].line}
  BY ONLY <1>1, <1>2, <1>3, <1>4, <1>5, LineTaken
<1>8. l \in WireLines /\ l.no = counts.handled + 1 /\ l.no <= counts.sent /\ l.session = sessions
      /\ l \in LinesIn(Unhandled)
  BY <1>4, <1>6, <1>7 DEF Unhandled
<1>9. Lines!Extracted = l
  BY <1>5, <1>6, <1>7, Zenon DEF Lines!Extracted
<1>10. l.kind = "difficulty" => l.value \in {0, TopDifficulty}
  BY <1>8 DEF WireLines
<1>11. l.kind = "difficulty" => (Lines!InRange(l.value) <=> l.value # 0)
  BY <1>10, LinesAreSound DEF Lines!InRange, LinesAreSound
<1>12. Lines!Message = Heard(l)
  BY <1>9, <1>11 DEF Lines!Message, Heard, Lines!Masked
<1>13. Lines!Message.no = l.no /\ Lines!Message.session = l.session
  <2>1. l \in [session : Nat, no : Nat, kind : LineKinds, value : Wants \cup AnswersSaid \cup Nat
            \cup MasksSaid \cup Nonces]
    BY <1>8 DEF WireLines
  <2> QED
    BY <1>12, <2>1 DEF Heard
<1>14. counts' = [counts EXCEPT !.handled = l.no]
  BY <1>1, <1>8, <1>13
<1>15. counts'.handled = l.no /\ counts'.sent = counts.sent
  BY <1>2, <1>14
<1>16. Unhandled' = Lines!LeftOver(buf, k) \o stream
  BY <1>1, <1>5 DEF Unhandled
<1>17. InLine(Unhandled', counts'.handled + 1, counts'.sent, sessions)
  BY <1>7, <1>8, <1>15, <1>16
<1>18. LinesIn(Unhandled') = LinesIn(Unhandled) \ {l}
  BY <1>6, <1>7, <1>16 DEF Unhandled
<1>19. Takes(l)
  BY <1>1, <1>5, <1>7, <1>8, <1>12, <1>14, <1>17, <1>18 DEF Takes
<1> QED
  BY <1>19

(* What it makes of a line by its kind                                      *)
LEMMA HeardIs ==
    ASSUME LinesAreSound, NEW l \in WireLines
    PROVE  /\ Heard(l).kind = (IF l.kind = "difficulty" /\ l.value = 0 THEN "junk" ELSE l.kind)
           /\ l.kind = "mask" => Heard(l).value = l.value \cap RollingBits
           /\ l.kind # "mask" => Heard(l).value = l.value
           /\ l.kind = "notify" => l.value \in Wants
           /\ l.kind = "answer" => l.value \in AnswersSaid
           /\ l.kind = "difficulty" => l.value \in Nat
           /\ l.kind = "mask" => l.value \in MasksSaid
           /\ l.kind = "xnonce" => l.value \in Nonces
<1>1. l \in [session : Nat, no : Nat, kind : LineKinds, value : Wants \cup AnswersSaid \cup Nat
          \cup MasksSaid \cup Nonces]
  BY DEF WireLines
<1>2. /\ Heard(l).kind = (IF l.kind = "difficulty" /\ l.value = 0 THEN "junk" ELSE l.kind)
      /\ l.kind = "mask" => Heard(l).value = l.value \cap RollingBits
      /\ l.kind # "mask" => Heard(l).value = l.value
  BY <1>1 DEF Heard
<1>3. /\ l.kind = "notify" => l.value \in Wants
      /\ l.kind = "answer" => l.value \in AnswersSaid
      /\ l.kind = "difficulty" => l.value \in {0, TopDifficulty}
      /\ l.kind = "mask" => l.value \in PoolMasks
      /\ l.kind = "xnonce" => l.value \in Nonces
  BY DEF WireLines
<1>4. l.kind = "mask" => l.value \in MasksSaid
  BY <1>3 DEF MasksSaid
<1> QED
  BY <1>2, <1>3, <1>4 DEF LinesAreSound

(* Whichever way the pool words an answer, it is understood as it is meant  *)
LEMMA AnswersSay ==
    ASSUME NEW a \in AnswersSaid, NEW w \in Lines!Wordings(a)
    PROVE  Lines!parse_result(w.result, w.error) =
             IF ~a.ok THEN "rejected"
             ELSE IF a.of = "configure" THEN "configured"
             ELSE IF a.of = "subscribe" THEN "subscribed" ELSE "accepted"
<1>1. a.ok \in BOOLEAN /\ a.of \in Asking \cup {"share"}
  BY DEF AnswersSaid
<1>2. CASE a.ok
  <2>1. w = [result |-> Lines!ResultOf[a.of], error |-> "none"]
    BY <1>2 DEF Lines!Wordings
  <2>2. w.result = Lines!ResultOf[a.of] /\ w.error = "none"
    BY <2>1
  <2>3. Lines!ResultOf[a.of] = IF a.of = "configure" THEN "object" ELSE IF a.of = "subscribe" THEN "array" ELSE "true"
    BY <1>1 DEF Lines!ResultOf, Asking
  <2> QED
    BY <1>2, <2>2, <2>3 DEF Lines!parse_result
<1>3. CASE ~a.ok
  <2>1. \E r \in {"absent", "null", "false"}, e \in Lines!Errors : w = [result |-> r, error |-> e]
        /\ (e = "none" => r = "false")
    BY <1>3 DEF Lines!Wordings
  <2>2. PICK r \in {"absent", "null", "false"}, e \in Lines!Errors :
            w.result = r /\ w.error = e /\ (e = "none" => r = "false")
    BY <2>1
  <2>3. Lines!parse_result(r, e) = "rejected"
    BY <2>2 DEF Lines!parse_result, Lines!Errors
  <2> QED
    BY <1>3, <2>2, <2>3
<1> QED
  BY <1>2, <1>3

(* What is left of the tallies when a session begins and when it ends      *)
LEMMA TalliesReset ==
    ASSUME NEW c \in [accepted : Nat, rejected : Nat, sent : Nat, handled : Nat],
           NEW d,
             d = [c EXCEPT !.sent = 0,
               !.handled = 0], NEW e, e = [c EXCEPT !.accepted = 0, !.rejected = 0]
    PROVE  /\ d = [accepted |-> c.accepted, rejected |-> c.rejected, sent |-> 0, handled |-> 0]
           /\ e = [accepted |-> 0, rejected |-> 0, sent |-> c.sent, handled |-> c.handled]
OBVIOUS

(* The tallies after each of the updates of the code                       *)
LEMMA TalliesAre ==
    ASSUME NEW c \in Tallies
    PROVE  /\ [c EXCEPT !.sent = 0, !.handled = 0] \in Tallies
           /\ [c EXCEPT !.sent = 0, !.handled = 0].sent = 0
                  /\ [c EXCEPT !.sent = 0, !.handled = 0].handled = 0
           /\ [c EXCEPT !.sent = 0, !.handled = 0].accepted = c.accepted
           /\ [c EXCEPT !.sent = 0, !.handled = 0].rejected = c.rejected
           /\ [c EXCEPT !.accepted = 0, !.rejected = 0] \in Tallies
           /\ [c EXCEPT !.accepted = 0, !.rejected = 0].accepted = 0
           /\ [c EXCEPT !.accepted = 0, !.rejected = 0].rejected = 0
           /\ [c EXCEPT !.sent = @ + 1] \in Tallies
           /\ [c EXCEPT !.sent = @ + 1].sent = c.sent + 1
                  /\ [c EXCEPT !.sent = @ + 1].handled = c.handled
           /\ [c EXCEPT !.sent = @ + 1].accepted = c.accepted
                  /\ [c EXCEPT !.sent = @ + 1].rejected = c.rejected
           /\ \A n \in Nat :
                /\ [c EXCEPT !.handled = n] \in Tallies /\ [c EXCEPT !.handled = n].handled = n
                /\ [c EXCEPT !.handled = n].sent = c.sent
                /\ [c EXCEPT !.handled = n].accepted = c.accepted
                       /\ [c EXCEPT !.handled = n].rejected = c.rejected
<1>1. c = [accepted |-> c.accepted, rejected |-> c.rejected, sent |-> c.sent, handled |-> c.handled]
      /\ c.accepted \in Nat /\ c.rejected \in Nat /\ c.sent \in Nat /\ c.handled \in Nat
  BY DEF Tallies
<1>2. [c EXCEPT !.sent = 0,
          !.handled = 0] = [accepted |-> c.accepted,
            rejected |-> c.rejected, sent |-> 0, handled |-> 0]
  BY TalliesReset, Zenon DEF Tallies
<1>3. [c EXCEPT !.accepted = 0,
          !.rejected = 0] = [accepted |-> 0, rejected |-> 0, sent |-> c.sent, handled |-> c.handled]
  BY TalliesReset, Zenon DEF Tallies
<1>4. [c EXCEPT !.sent = @ + 1] = [accepted |-> c.accepted,
          rejected |-> c.rejected, sent |-> c.sent + 1, handled |-> c.handled]
  BY <1>1
<1>5. \A n \in Nat : [c EXCEPT !.handled = n] =
        [accepted |-> c.accepted, rejected |-> c.rejected, sent |-> c.sent, handled |-> n]
  BY <1>1
<1> QED
  BY <1>1, <1>2, <1>3, <1>4, <1>5 DEF Tallies

(* Nothing waits in an empty buffer before an empty stream                 *)
LEMMA NothingWaits ==
    ASSUME NEW q, q = <<>> \o <<>>
    PROVE  /\ LinesIn(q) = {} /\ AnswersIn(q) = {}
           /\ \A d : InLine(q, 1, 0, d)
           /\ Cardinality(SharesTaken(q)) = 0 /\ Cardinality(SharesRefused(q)) = 0
<1>1. q = <<>> /\ Len(q) = 0
  OBVIOUS
<1>2. LinesIn(q) = {} /\ AnswersIn(q) = {}
  BY <1>1 DEF LinesIn, AnswersIn
<1>3. SharesTaken(q) = {} /\ SharesRefused(q) = {}
  BY <1>2 DEF SharesTaken, SharesRefused
<1>4. ASSUME NEW d PROVE InLine(q, 1, 0, d)
  BY <1>1 DEF InLine
<1> QED
  BY <1>2, <1>3, <1>4, FS_EmptySet

(* A session begins with what a pool that said nothing means               *)
LEMMA FreshIs == Lines!Fresh \in Wants
  /\ \A f \in WantFields : Lines!Fresh[f] = AsMined(f, Lines!Fresh[f])
<1>1. Lines!Fresh \in Wants
  BY DEF Lines!Fresh, Wants, MasksSaid, Nonces
<1> QED
  BY <1>1 DEF Lines!Fresh, WantFields, AsMined

(* Initially nothing is on the way                                         *)
LEMMA LinesBegin == ASSUME LinesAreSound PROVE Lines!Init => LineInv
<1> SUFFICES ASSUME Lines!Init PROVE LineInv
  OBVIOUS
<1>1. /\ pool \in PoolSettings /\ pc = "start" /\ uid = 1 /\ ids = Lines!NoIds /\ buf = <<>>
             /\ conn = Lines!Fresh
      /\ work = NothingSaid /\ sender = 0 /\ timing = [i \in 0..(TimingSlots - 1) |-> 0]
      /\ accepted = 0 /\ rejected = 0 /\ stream = <<>> /\ open = {} /\ meant = Lines!Fresh
             /\ timed = NothingSaid
      /\ counts = [accepted |-> 0, rejected |-> 0, sent |-> 0, handled |-> 0] /\ sessions = 0
  BY Zenon DEF Lines!Init
<1>2. Unhandled = <<>> \o <<>>
  BY <1>1 DEF Unhandled
<1>3. ids = [r \in Asking |-> 0]
  BY <1>1 DEF Lines!NoIds, Asking, Lines!Requests
<1>4. LineShapes
  <2>1. ids \in [Asking -> Nat] /\ timing \in [0..(TimingSlots - 1) -> Nat]
    BY <1>1, <1>3
  <2>2. counts \in Tallies
    BY <1>1 DEF Tallies
  <2>3. buf \in Seq(WireCells) /\ stream \in Seq(WireCells)
    BY <1>1, EmptySeq
  <2> QED
    BY <1>1, <2>1, <2>2, <2>3, FreshIs DEF LineShapes
<1>5. LinesInOrder
  BY <1>1, <1>3 DEF LinesInOrder, AtRest
<1>6. SharesAdd
  <2>1. Cardinality(SharesTaken(Unhandled)) = 0 /\ Cardinality(SharesRefused(Unhandled)) = 0
    BY <1>2, NothingWaits
  <2>2. counts.accepted = 0 /\ counts.rejected = 0
    BY <1>1
  <2>3. accepted = 0 /\ rejected = 0
    BY <1>1
  <2> QED
    BY ONLY <2>1, <2>2, <2>3 DEF SharesAdd
<1>7. LinesIn(Unhandled) = {} /\ AnswersIn(Unhandled) = {}
  BY <1>2, NothingWaits
<1>8. IdsTell
  <2>1. \A r \in Asking : ids[r] = 0
    BY <1>3
  <2>2. info # "authRejected"
    BY Zenon DEF Lines!Init
  <2> QED
    BY <1>1, <1>7, <2>1, <2>2 DEF IdsTell, Told, Asking
<1>9. TimesFit
  BY <1>1, <1>7 DEF TimesFit
<1>10. WorkFollows
  BY <1>1 DEF WorkFollows
<1> QED
  BY <1>4, <1>5, <1>6, <1>8, <1>9, <1>10 DEF LineInv

(* A session that ends                                                      *)
LEMMA SessionEnds ==
    ASSUME LinesAreSound, LineInv, NEW cause, cause # "authRejected", Lines!Close(cause)
    PROVE  LineInv'
<1>1. /\ pc' = "start" /\ uid' = 1 /\ ids' = Lines!NoIds /\ buf' = <<>> /\ conn' = Lines!Fresh
      /\ info' = cause /\ work' = NothingSaid /\ timing' = [i \in 0..(TimingSlots - 1) |-> 0]
      /\ accepted' = 0 /\ rejected' = 0 /\ stream' = <<>> /\ open' = {} /\ timed' = NothingSaid
      /\ counts' = [counts EXCEPT !.accepted = 0, !.rejected = 0]
      /\ sender = 0 /\ UNCHANGED <<pool, sender, meant, sessions>>
  BY Zenon DEF Lines!Close
<1>2. Unhandled' = <<>> \o <<>>
  BY <1>1 DEF Unhandled
<1>3. ids' = [r \in Asking |-> 0]
  BY <1>1 DEF Lines!NoIds, Asking, Lines!Requests
<1>4. pool \in PoolSettings /\ sender \in Nat /\ meant \in Wants /\ sessions \in Nat
          /\ counts \in Tallies
  BY DEF LineInv, LineShapes
<1>5. counts' \in Tallies /\ counts'.accepted = 0 /\ counts'.rejected = 0
  BY <1>1, <1>4, TalliesAre, Zenon
<1>6. LineShapes'
  <2>1. ids' \in [Asking -> Nat] /\ timing' \in [0..(TimingSlots - 1) -> Nat]
    BY <1>1, <1>3
  <2>2. buf' \in Seq(WireCells) /\ stream' \in Seq(WireCells)
    BY <1>1, EmptySeq
  <2> QED
    BY <1>1, <1>4, <1>5, <2>1, <2>2, FreshIs DEF LineShapes
<1>7. LinesInOrder'
  BY <1>1, <1>3 DEF LinesInOrder, AtRest
<1>8. SharesAdd'
  <2>1. Cardinality(SharesTaken(Unhandled')) = 0 /\ Cardinality(SharesRefused(Unhandled')) = 0
    BY <1>2, NothingWaits
  <2>2. accepted' = 0 /\ rejected' = 0 /\ counts'.accepted = 0 /\ counts'.rejected = 0
    BY <1>1, <1>5
  <2> QED
    BY ONLY <2>1, <2>2 DEF SharesAdd
<1>9. LinesIn(Unhandled') = {} /\ AnswersIn(Unhandled') = {}
  BY <1>2, NothingWaits
<1>10. IdsTell'
  <2>1. \A r \in Asking : ids'[r] = 0
    BY <1>3
  <2> QED
    BY <1>1, <1>9, <2>1 DEF IdsTell, Told, Asking
<1>11. TimesFit'
  BY <1>1, <1>9 DEF TimesFit
<1>12. WorkFollows'
  BY <1>1 DEF WorkFollows
<1> QED
  BY <1>6, <1>7, <1>8, <1>10, <1>11, <1>12 DEF LineInv

(* A session that begins: nothing has been said, and three things asked     *)
LEMMA SessionBegins ==
    ASSUME LinesAreSound, LineInv, NEW tls, NEW cert, NEW connects, Lines!Start(tls, cert, connects)
    PROVE  LineInv'
<1>1. /\ pc = "start" /\ sessions' = sessions + 1 /\ buf' = <<>> /\ conn' = Lines!Fresh
      /\ stream' = <<>> /\ meant' = Lines!Fresh
             /\ counts' = [counts EXCEPT !.sent = 0, !.handled = 0]
      /\ UNCHANGED <<pool, work, sender, accepted, rejected, timing, timed, early>>
  BY Zenon DEF Lines!Start, Lines!results
<1>2. \/ /\ pc' = "read" /\ uid' = 4 /\ info' = "connected"
         /\ ids' = [Lines!NoIds EXCEPT !["configure"] = 1, !["subscribe"] = 2, !["authorize"] = 3]
         /\ open' = {[id |-> 1, kind |-> "configure"], [id |-> 2, kind |-> "subscribe"],
                     [id |-> 3, kind |-> "authorize"]}
      \/ info' \in {"connectionFailed", "internalError"} /\ UNCHANGED <<pc, uid, ids, open>>
  BY Zenon DEF Lines!Start
<1>3. Unhandled' = <<>> \o <<>>
  BY <1>1 DEF Unhandled
<1>4. LinesIn(Unhandled') = {} /\ AnswersIn(Unhandled') = {}
  BY <1>3, NothingWaits
<1>5. /\ pool \in PoolSettings /\ sender \in Nat /\ sessions \in Nat /\ counts \in Tallies
      /\ accepted \in Nat /\ rejected \in Nat
  BY DEF LineInv, LineShapes
<1>6. AtRest
  BY <1>1 DEF LineInv, LinesInOrder
<1>7. counts' \in Tallies /\ counts'.accepted = counts.accepted
          /\ counts'.rejected = counts.rejected
      /\ counts'.sent = 0 /\ counts'.handled = 0
  BY <1>1, <1>5, TalliesAre, Zenon
<1>8. SharesAdd'
  <2>1. Unhandled = <<>> \o <<>>
    BY <1>6 DEF AtRest, Unhandled
  <2>2. Cardinality(SharesTaken(Unhandled')) = 0 /\ Cardinality(SharesRefused(Unhandled')) = 0
    BY <1>3, NothingWaits
  <2>3. Cardinality(SharesTaken(Unhandled)) = 0 /\ Cardinality(SharesRefused(Unhandled)) = 0
    BY <2>1, NothingWaits
  <2> QED
    BY <1>1, <1>7, <2>2, <2>3 DEF SharesAdd, LineInv
<1>9. buf' \in Seq(WireCells) /\ stream' \in Seq(WireCells)
  BY <1>1, EmptySeq
<1>10. timing' \in [0..(TimingSlots - 1) -> Nat] /\ \A s \in 0..(TimingSlots - 1) : timing'[s] = 0
  BY <1>1, <1>6 DEF AtRest
<1>11. CASE info' \in {"connectionFailed", "internalError"} /\ UNCHANGED <<pc, uid, ids, open>>
  <2>1. info' # "authRejected" /\ pc' = "start"
    BY <1>1, <1>11
  <2>2. AtRest'
    BY <1>1, <1>6, <1>11 DEF AtRest
  <2>3. ids' \in [Asking -> Nat] /\ \A r \in Asking : ids'[r] = 0
    BY <2>2 DEF AtRest
  <2>4. LineShapes'
    BY <1>1, <1>5, <1>7, <1>9, <1>10, <2>1, <2>2, <2>3, FreshIs DEF LineShapes, AtRest
  <2>5. LinesInOrder'
    BY <2>1, <2>2 DEF LinesInOrder
  <2>6. IdsTell'
    BY <1>4, <2>1, <2>2, <2>3 DEF IdsTell, Told, Asking, AtRest
  <2>7. TimesFit'
    BY <1>4, <1>10, <2>2 DEF TimesFit, AtRest
  <2>8. WorkFollows'
    BY <2>1, <2>2 DEF WorkFollows, AtRest
  <2> QED
    BY <1>8, <2>4, <2>5, <2>6, <2>7, <2>8 DEF LineInv
<1>12. CASE /\ pc' = "read" /\ uid' = 4 /\ info' = "connected"
            /\ ids' = [Lines!NoIds EXCEPT !["configure"] = 1,
                   !["subscribe"] = 2, !["authorize"] = 3]
            /\ open' = {[id |-> 1, kind |-> "configure"], [id |-> 2, kind |-> "subscribe"],
                        [id |-> 3, kind |-> "authorize"]}
  <2>1. ids' \in [Asking -> Nat] /\ ids'["configure"] = 1 /\ ids'["subscribe"] = 2
            /\ ids'["authorize"] = 3
        /\ ids'["suggest"] = 0 /\ ids'["extranonce"] = 0
    <3> DEFINE none == [r \in Asking |-> 0]
    <3>1. none \in [Asking -> Nat] /\ \A r \in Asking : none[r] = 0
      OBVIOUS
    <3>2. Lines!NoIds = none
      BY DEF Lines!NoIds, Asking, Lines!Requests
    <3> HIDE DEF none
    <3> DEFINE one == [none EXCEPT !["configure"] = 1]
               two == [one EXCEPT !["subscribe"] = 2]
               three == [two EXCEPT !["authorize"] = 3]
    <3>3. one \in [Asking -> Nat] /\ one["configure"] = 1 /\ one["suggest"] = 0
              /\ one["extranonce"] = 0
      BY <3>1 DEF Asking
    <3> HIDE DEF one
    <3>4. two \in [Asking -> Nat] /\ two["configure"] = 1 /\ two["subscribe"] = 2
              /\ two["suggest"] = 0
          /\ two["extranonce"] = 0
      BY <3>3 DEF Asking
    <3> HIDE DEF two
    <3>5. three \in [Asking -> Nat] /\ three["configure"] = 1 /\ three["subscribe"] = 2
          /\ three["authorize"] = 3 /\ three["suggest"] = 0 /\ three["extranonce"] = 0
      BY <3>4 DEF Asking
    <3>6. ids' = three
      BY <1>12, <3>2, Zenon DEF one, two
    <3> QED
      BY <3>5, <3>6
  <2>2. open' \subseteq PoolRequests
    BY <1>12 DEF PoolRequests, Asking
  <2>3. LineShapes'
    BY <1>1, <1>5, <1>7, <1>9, <1>10, <1>12, <2>1, <2>2, FreshIs DEF LineShapes
  <2>4. LinesInOrder'
    <3>1. InLine(Unhandled', 1, 0, sessions')
      BY <1>3, NothingWaits
    <3> QED
      BY <1>7, <1>12, <3>1 DEF LinesInOrder
  <2>5. IdsTell'
    <3>1. \A r \in Asking : ids'[r] < uid' /\ \A p \in Asking : ids'[r] = ids'[p]
              /\ ids'[r] # 0 => r = p
      BY <1>12, <2>1 DEF Asking
    <3>2. ASSUME NEW r \in open'
          PROVE  KnownAs(r.id, r.kind)' /\ \A p \in open' : p.id = r.id => p = r
      BY <1>12, <2>1 DEF KnownAs
    <3>3. info' # "authRejected" /\ pc' = "read"
      BY <1>12
    <3> QED
      BY <1>4, <2>1, <3>1, <3>2, <3>3 DEF IdsTell, Told
  <2>6. TimesFit'
    <3>1. sender' = 0 /\ timed' = NothingSaid
      BY <1>1, <1>6 DEF AtRest
    <3>2. \A r \in open' : r.kind # "share"
      BY <1>12
    <3> QED
      BY <1>4, <1>10, <3>1, <3>2 DEF TimesFit
  <2>7. WorkFollows'
    <3>1. work' = NothingSaid
      BY <1>1, <1>6 DEF AtRest
    <3>2. Follows({}, Lines!Fresh, Lines!Fresh, 1)
      BY FreshIs DEF Follows
    <3> QED
      BY <1>1, <1>4, <1>7, <3>1, <3>2 DEF WorkFollows
  <2> QED
    BY <1>8, <2>3, <2>4, <2>5, <2>6, <2>7 DEF LineInv
<1> QED
  BY <1>2, <1>11, <1>12

---------------------------------------------------------------------------
(* What is meant, before and after a line                                   *)
LEMMA FollowsFirst ==
    ASSUME NEW all, NEW l \in all, \A m \in all : m.no \in Nat /\ l.no <= m.no, NEW c, NEW v,
           Follows(all, c, v, l.no)
    PROVE  \A f \in WantFields : c[f] = AsMined(f, v[f])
<1>1. \A m \in all : ~(m.no < l.no)
  OBVIOUS
<1> QED
  BY <1>1 DEF Follows

(* Taking the first line keeps what the others, and the pool, mean         *)
LEMMA FollowsTaken ==
    ASSUME NEW all, NEW l \in all, \A m \in all : m.no \in Nat /\ l.no <= m.no
               /\ (m.no = l.no => m = l),
           NEW c, NEW d, NEW v, NEW n \in Nat, l.no < n, Follows(all, c, v, n),
           \A f \in WantFields : d[f] = IF Tells(l, f) THEN AsMined(f, ToldBy(l)) ELSE c[f]
    PROVE  Follows(all \ {l}, d, v, n)
<1> SUFFICES ASSUME NEW f \in WantFields
             PROVE  /\ (\A m \in all \ {l} : m.no < n => ~Tells(m, f)) => d[f] = AsMined(f, v[f])
                    /\ \A m \in all \ {l} :
                        m.no < n /\ Tells(m, f)
                          /\ (\A o \in all \ {l} : m.no < o.no
                                 /\ o.no < n => ~Tells(o, f)) => v[f] = ToldBy(m)
  BY DEF Follows
<1>1. /\ (\A m \in all : m.no < n => ~Tells(m, f)) => c[f] = AsMined(f, v[f])
      /\ \A m \in all :
          m.no < n /\ Tells(m, f)
            /\ (\A o \in all : m.no < o.no /\ o.no < n => ~Tells(o, f)) => v[f] = ToldBy(m)
  BY DEF Follows
<1>2. ASSUME \A m \in all \ {l} : m.no < n => ~Tells(m, f) PROVE d[f] = AsMined(f, v[f])
  <2>1. CASE Tells(l, f)
    <3>1. \A o \in all : l.no < o.no /\ o.no < n => ~Tells(o, f)
      BY <1>2
    <3>2. v[f] = ToldBy(l)
      BY <1>1, <2>1, <3>1
    <3> QED
      BY <2>1, <3>2
  <2>2. CASE ~Tells(l, f)
    BY <1>1, <1>2, <2>2
  <2> QED
    BY <2>1, <2>2
<1>3. ASSUME NEW m \in all \ {l}, m.no < n, Tells(m, f),
             \A o \in all \ {l} : m.no < o.no /\ o.no < n => ~Tells(o, f)
      PROVE  v[f] = ToldBy(m)
  <2>1. l.no < m.no /\ m.no \in Nat /\ l.no \in Nat
    OBVIOUS
  <2>2. \A o \in all : m.no < o.no /\ o.no < n => ~Tells(o, f)
    BY <1>3, <2>1
  <2> QED
    BY <1>1, <1>3, <2>2
<1> QED
  BY <1>2, <1>3

(* What was meant before a line is not changed by it                       *)
LEMMA FollowsBefore ==
    ASSUME NEW all,
               NEW l, NEW c, NEW v, NEW n \in Nat, l.no \in Nat, n <= l.no, Follows(all, c, v, n)
    PROVE  Follows(all \cup {l}, c, v, n)
<1>1. ~(l.no < n)
  OBVIOUS
<1> QED
  BY <1>1 DEF Follows

(* A line behind the others tells what it tells                            *)
LEMMA FollowsAdded ==
    ASSUME NEW all, NEW l, l.no \in Nat, \A m \in all : m.no \in Nat
               /\ m.no < l.no, NEW c, NEW v, NEW w,
           Follows(all, c, v, l.no),
           \A f \in WantFields : w[f] = IF Tells(l, f) THEN ToldBy(l) ELSE v[f]
    PROVE  Follows(all \cup {l}, c, w, l.no + 1)
<1> SUFFICES ASSUME NEW f \in WantFields
             PROVE  /\ (\A m \in all \cup {l} : m.no < l.no + 1 => ~Tells(m, f)) =>
                        c[f] = AsMined(f, w[f])
                    /\ \A m \in all \cup {l} :
                        m.no < l.no + 1 /\ Tells(m, f)
                          /\ (\A o \in all \cup {l} : m.no < o.no
                                 /\ o.no < l.no + 1 => ~Tells(o, f)) => w[f] = ToldBy(m)
  BY DEF Follows
<1>1. /\ (\A m \in all : m.no < l.no => ~Tells(m, f)) => c[f] = AsMined(f, v[f])
      /\ \A m \in all :
          m.no < l.no /\ Tells(m, f)
            /\ (\A o \in all : m.no < o.no /\ o.no < l.no => ~Tells(o, f)) => v[f] = ToldBy(m)
  BY DEF Follows
<1>2. l.no < l.no + 1 /\ \A m \in all : m.no < l.no + 1
  OBVIOUS
<1>3. CASE Tells(l, f)
  <2>1. w[f] = ToldBy(l)
    BY <1>3
  <2>2. ASSUME NEW m \in all \cup {l}, \A o \in all \cup {l} : m.no < o.no
                   /\ o.no < l.no + 1 => ~Tells(o, f)
        PROVE  m = l
    BY <1>2, <1>3, <2>2
  <2> QED
    BY <1>2, <1>3, <2>1, <2>2
<1>4. CASE ~Tells(l, f)
  <2>1. w[f] = v[f]
    BY <1>4
  <2>2. ASSUME \A m \in all \cup {l} : m.no < l.no + 1 => ~Tells(m, f) PROVE c[f] = AsMined(f, w[f])
    BY <1>1, <1>2, <2>1, <2>2
  <2>3. ASSUME NEW m \in all \cup {l}, Tells(m, f),
               \A o \in all \cup {l} : m.no < o.no /\ o.no < l.no + 1 => ~Tells(o, f)
        PROVE  w[f] = ToldBy(m)
    <3>1. m \in all
      BY <1>4, <2>3
    <3>2. \A o \in all : m.no < o.no /\ o.no < l.no => ~Tells(o, f)
      BY <1>2, <2>3
    <3> QED
      BY <1>1, <2>1, <2>3, <3>1, <3>2
  <2> QED
    BY <2>2, <2>3
<1> QED
  BY <1>3, <1>4

(* A line changes what it tells of, as it is to be mined                    *)
LEMMA LineIsTold ==
    ASSUME LinesAreSound, conn \in Wants, NEW l \in WireLines, l.kind # "answer"
    PROVE  /\ Lines!Told(Heard(l)) \in Wants
           /\ \A f \in WantFields :
                Lines!Told(Heard(l))[f] = IF Tells(l, f) THEN AsMined(f, ToldBy(l)) ELSE conn[f]
<1>1. /\ Heard(l).kind = (IF l.kind = "difficulty" /\ l.value = 0 THEN "junk" ELSE l.kind)
      /\ l.kind = "mask" => Heard(l).value = l.value \cap RollingBits
      /\ l.kind # "mask" => Heard(l).value = l.value
      /\ l.kind = "difficulty" => l.value \in Nat
      /\ l.kind = "mask" => l.value \in MasksSaid
      /\ l.kind = "xnonce" => l.value \in Nonces
  BY HeardIs
<1>2. conn \in [difficulty : Nat, mask : MasksSaid, extranonce : Nonces]
  BY DEF Wants
<1>3. ToldBy(l) = l.value
  BY DEF ToldBy
<1>4. CASE l.kind = "difficulty" /\ l.value # 0
  <2>1. Lines!Told(Heard(l)) = [conn EXCEPT !.difficulty = l.value]
    BY <1>1, <1>4 DEF Lines!Told
  <2> QED
    BY <1>1, <1>2, <1>3, <1>4, <2>1 DEF Wants, WantFields, Tells, AsMined
<1>5. CASE l.kind = "mask"
  <2>1. Lines!Told(Heard(l)) = [conn EXCEPT !.mask = l.value \cap RollingBits]
    BY <1>1, <1>5 DEF Lines!Told
  <2>2. l.value \cap RollingBits \in MasksSaid
    BY DEF MasksSaid
  <2> QED
    BY <1>1, <1>2, <1>3, <1>5, <2>1, <2>2 DEF Wants, WantFields, Tells, AsMined
<1>6. CASE l.kind = "xnonce"
  <2>1. Lines!Told(Heard(l)) = [conn EXCEPT !.extranonce = l.value]
    BY <1>1, <1>6 DEF Lines!Told
  <2> QED
    BY <1>1, <1>2, <1>3, <1>6, <2>1 DEF Wants, WantFields, Tells, AsMined
<1>7. CASE ~(l.kind = "difficulty" /\ l.value # 0) /\ l.kind # "mask" /\ l.kind # "xnonce"
  <2>1. Lines!Told(Heard(l)) = conn
    BY <1>1, <1>7 DEF Lines!Told
  <2> QED
    BY <1>2, <1>7, <2>1 DEF Wants, WantFields, Tells
<1> QED
  BY <1>4, <1>5, <1>6, <1>7

(* So does an answer, whatever its wording                                 *)
LEMMA AnswerIsTold ==
    ASSUME LinesAreSound,
               conn \in Wants,
                 NEW l \in WireLines, l.kind = "answer", NEW w \in Lines!Wordings(l.value),
           NEW outcome, outcome = Lines!parse_result(w.result, w.error)
    PROVE  /\ Lines!Agreed(outcome, l.value.value) \in Wants
           /\ \A f \in WantFields :
                Lines!Agreed(outcome,
                  l.value.value)[f] = IF Tells(l, f) THEN AsMined(f, ToldBy(l)) ELSE conn[f]
<1>1. l.value \in AnswersSaid
  BY DEF WireLines
<1>2. outcome = IF ~l.value.ok THEN "rejected"
             ELSE IF l.value.of = "configure" THEN "configured"
             ELSE IF l.value.of = "subscribe" THEN "subscribed" ELSE "accepted"
  BY <1>1, AnswersSay
<1>3. conn \in [difficulty : Nat, mask : MasksSaid, extranonce : Nonces]
  BY DEF Wants
<1>4. ToldBy(l) = l.value.value
  BY DEF ToldBy
<1>5. CASE l.value.ok /\ l.value.of = "configure"
  <2>1. Lines!Agreed(outcome, l.value.value) = [conn EXCEPT !.mask = l.value.value \cap RollingBits]
    BY <1>2, <1>5 DEF Lines!Agreed, Lines!Masked
  <2>2. l.value.value \cap RollingBits \in MasksSaid
    BY DEF MasksSaid
  <2> QED
    BY <1>3, <1>4, <1>5, <2>1, <2>2 DEF Wants, WantFields, Tells, AsMined
<1>6. CASE l.value.ok /\ l.value.of = "subscribe"
  <2>1. Lines!Agreed(outcome, l.value.value) = [conn EXCEPT !.extranonce = l.value.value]
    BY <1>2, <1>6 DEF Lines!Agreed
  <2>2. l.value.value \in Nonces
    BY <1>1, <1>6 DEF AnswersSaid
  <2> QED
    BY <1>3, <1>4, <1>6, <2>1, <2>2 DEF Wants, WantFields, Tells, AsMined
<1>7. CASE ~(l.value.ok /\ l.value.of \in {"configure", "subscribe"})
  <2>1. Lines!Agreed(outcome, l.value.value) = conn
    BY <1>2, <1>7 DEF Lines!Agreed
  <2> QED
    BY <1>3, <1>7, <2>1 DEF Wants, WantFields, Tells
<1> QED
  BY <1>5, <1>6, <1>7

---------------------------------------------------------------------------
(* What taking a line leaves                                                *)
LEMMA TakenLeaves ==
    ASSUME LinesAreSound, LineInv, NEW l, Takes(l)
    PROVE  /\ counts' \in Tallies /\ counts'.sent = counts.sent /\ counts'.handled = l.no
           /\ counts'.accepted = counts.accepted /\ counts'.rejected = counts.rejected
           /\ buf' \in Seq(WireCells) /\ stream' \in Seq(WireCells)
           /\ \A m \in LinesIn(Unhandled) : m.no \in Nat /\ l.no <= m.no /\ m.no <= counts.sent
                  /\ (m.no = l.no => m = l)
           /\ AnswersIn(Unhandled') = AnswersIn(Unhandled) \ {l}
           /\ pc' # "start" => LinesInOrder'
<1>1. counts \in Tallies /\ l.no \in Nat /\ stream' \in Seq(WireCells)
          /\ Unhandled \in Seq(WireCells)
  <2>1. l \in WireLines /\ stream' = stream
    BY DEF Takes
  <2>2. buf \in Seq(WireCells) /\ stream \in Seq(WireCells) /\ counts \in Tallies
    BY DEF LineInv, LineShapes
  <2>3. Unhandled \in Seq(WireCells)
    BY <2>2, ConcatProperties DEF Unhandled
  <2> QED
    BY <2>1, <2>2, <2>3 DEF WireLines
<1>2. counts' \in Tallies /\ counts'.sent = counts.sent /\ counts'.handled = l.no
      /\ counts'.accepted = counts.accepted /\ counts'.rejected = counts.rejected
  BY <1>1, TalliesAre, Zenon DEF Takes
<1>3. ASSUME NEW m \in LinesIn(Unhandled)
      PROVE  m.no \in Nat /\ l.no <= m.no /\ m.no <= counts.sent /\ (m.no = l.no => m = l)
  <2>1. InLine(Unhandled, counts.handled + 1, counts.sent, sessions) /\ l.no = counts.handled + 1
        /\ l \in LinesIn(Unhandled)
    BY DEF LineInv, LinesInOrder, Takes
  <2>2. PICK i \in 1..Len(Unhandled) : m = Unhandled[i].line
    BY DEF LinesIn
  <2>3. PICK j \in 1..Len(Unhandled) : l = Unhandled[j].line
    BY <2>1 DEF LinesIn
  <2>4. m.no \in Nat /\ m.no \in (counts.handled + 1)..counts.sent
    BY <1>1, <2>1, <2>2, CellIs DEF InLine
  <2>5. m.no = l.no => m = l
    BY <2>1, <2>2, <2>3 DEF InLine
  <2> QED
    BY <2>1, <2>4, <2>5
<1>4. AnswersIn(Unhandled') = AnswersIn(Unhandled) \ {l}
  BY DEF Takes, AnswersIn
<1>5. pc' # "start" => LinesInOrder'
  <2>1. InLine(Unhandled', counts'.handled + 1, counts'.sent, sessions') /\ l.no <= counts.sent
    BY DEF Takes
  <2> QED
    BY <1>2, <2>1 DEF LinesInOrder
<1> QED
  BY <1>1, <1>2, <1>3, <1>4, <1>5 DEF Takes

(* The counters agree if nothing is counted and no answer moves            *)
LEMMA SharesStay ==
    ASSUME SharesAdd,
               AnswersIn(Unhandled') = AnswersIn(Unhandled), UNCHANGED <<accepted, rejected>>,
           counts'.accepted = counts.accepted, counts'.rejected = counts.rejected
    PROVE  SharesAdd'
<1>1. SharesTaken(Unhandled') = SharesTaken(Unhandled)
          /\ SharesRefused(Unhandled') = SharesRefused(Unhandled)
  BY DEF SharesTaken, SharesRefused
<1> QED
  BY <1>1 DEF SharesAdd

(* The ids tell as long as no request is added                             *)
LEMMA IdsStay ==
    ASSUME IdsTell,
               AnswersIn(Unhandled') \subseteq AnswersIn(Unhandled), UNCHANGED <<open, uid, ids>>,
           pc' = pc \/ pc' = "reconnect" \/ pc' = "read", info' = info \/ info' # "authRejected"
    PROVE  IdsTell'
<1>1. \A id, of : KnownAs(id, of)' = KnownAs(id, of)
  BY DEF KnownAs
<1>2. Told("authorize")' => Told("authorize")
  BY DEF Told
<1>3. /\ \A r \in Asking : ids'[r] < uid' /\ \A p \in Asking : ids'[r] = ids'[p]
             /\ ids'[r] # 0 => r = p
      /\ \A r \in open' : KnownAs(r.id, r.kind)' /\ \A p \in open' : p.id = r.id => p = r
      /\ \A l \in AnswersIn(Unhandled') :
          /\ KnownAs(l.value.id, l.value.of)'
          /\ \A r \in open' : r.id # l.value.id
          /\ \A m \in AnswersIn(Unhandled') : m.value.id = l.value.id => m = l
  BY <1>1 DEF IdsTell
<1>4. /\ Told("authorize")' => ids'["suggest"] = 0 /\ ids'["extranonce"] = 0
             /\ pc' \notin {"suggest", "extranonce"}
      /\ pc' = "suggest" => ids'["suggest"] = 0 /\ ids'["extranonce"] = 0
      /\ pc' = "extranonce" => ids'["extranonce"] = 0
      /\ info' = "authRejected" => ids'["authorize"] # 0
  BY <1>2 DEF IdsTell
<1> QED
  BY <1>3, <1>4, Zenon DEF IdsTell

(* The times fit as long as none is recorded or taken                      *)
LEMMA TimesStay ==
    ASSUME TimesFit, AnswersIn(Unhandled') \subseteq AnswersIn(Unhandled),
           UNCHANGED <<open, timing, uid, sender, timed, early>>
    PROVE  TimesFit'
BY DEF TimesFit, NotOvertaken

(* What the lines mean follows from what was told when one is taken        *)
LEMMA WorkTaken ==
    ASSUME LinesAreSound, LineInv, NEW l, Takes(l), meant' = meant,
           \A f \in WantFields : conn'[f] = IF Tells(l, f) THEN AsMined(f, ToldBy(l)) ELSE conn[f]
    PROVE  /\ Follows(LinesIn(Unhandled'), conn', meant', counts'.sent + 1)
           /\ \A m \in LinesIn(Unhandled') : m.kind = "notify" =>
                  Follows(LinesIn(Unhandled'), conn', m.value, m.no)
<1>1. \A m \in LinesIn(Unhandled) : m.no \in Nat /\ l.no <= m.no /\ m.no <= counts.sent
          /\ (m.no = l.no => m = l)
  BY TakenLeaves
<1>2. l \in LinesIn(Unhandled) /\ l.no \in Nat /\ l.no <= counts.sent
      /\ LinesIn(Unhandled') = LinesIn(Unhandled) \ {l} /\ pc = "read" /\ counts'.sent = counts.sent
  BY <1>1, TakenLeaves DEF Takes
<1>3. counts.sent + 1 \in Nat /\ l.no < counts.sent + 1
  BY <1>2 DEF LineInv, LineShapes, Tallies
<1>4. Follows(LinesIn(Unhandled), conn, meant, counts.sent + 1)
      /\ \A m \in LinesIn(Unhandled) : m.kind = "notify" =>
             Follows(LinesIn(Unhandled), conn, m.value, m.no)
  BY <1>2 DEF LineInv, WorkFollows
<1> DEFINE all == LinesIn(Unhandled)
<1> HIDE DEF all
<1>5. Follows(all \ {l}, conn', meant, counts.sent + 1)
  <2>1. l \in all /\ (\A m \in all : m.no \in Nat /\ l.no <= m.no /\ (m.no = l.no => m = l))
        /\ Follows(all, conn, meant, counts.sent + 1)
    BY <1>1, <1>2, <1>4 DEF all
  <2> QED
    BY <1>3, <2>1, FollowsTaken
<1>6. ASSUME NEW m \in all \ {l}, m.kind = "notify"
      PROVE  Follows(all \ {l}, conn', m.value, m.no)
  <2>1. l \in all /\ (\A o \in all : o.no \in Nat /\ l.no <= o.no /\ (o.no = l.no => o = l))
        /\ Follows(all, conn, m.value, m.no) /\ m.no \in Nat
    BY <1>1, <1>2, <1>4, <1>6 DEF all
  <2>2. l.no < m.no
    BY <1>2, <2>1
  <2> QED
    BY <2>1, <2>2, FollowsTaken
<1> QED
  BY <1>2, <1>5, <1>6 DEF all

(* A job is what was meant when it was announced                            *)
LEMMA NotifyKeeps == ASSUME LinesAreSound, LineInv, Lines!Notify PROVE LineInv'
<1>1. Lines!Takes({"notify"}) /\ Lines!Message.kind \in {"notify"}
          /\ work' = [given |-> conn, meant |-> Lines!Message.value]
      /\ UNCHANGED <<pc, uid, ids, conn, info>>
             /\ UNCHANGED <<accepted, rejected, timing, timed, early>>
  BY Zenon DEF Lines!Notify, Lines!Takes, Lines!results
<1>2. PICK l : Takes(l)
  BY <1>1, LineIsTaken DEF LineInv
<1>3. l \in WireLines /\ Lines!Message = Heard(l) /\ l \in LinesIn(Unhandled) /\ pc = "read"
      /\ UNCHANGED <<pool, sender, stream, open, meant, sessions>>
  BY <1>2 DEF Takes
<1>4. l.kind = "notify" /\ Heard(l).value = l.value /\ l.value \in Wants
  <2>1. Heard(l).kind = "notify"
    BY <1>1, <1>3
  <2> QED
    BY <1>3, <2>1, HeardIs
<1>5. /\ counts' \in Tallies /\ counts'.sent = counts.sent /\ counts'.handled = l.no
      /\ counts'.accepted = counts.accepted /\ counts'.rejected = counts.rejected
      /\ buf' \in Seq(WireCells) /\ stream' \in Seq(WireCells)
      /\ \A m \in LinesIn(Unhandled) : m.no \in Nat /\ l.no <= m.no /\ m.no <= counts.sent
             /\ (m.no = l.no => m = l)
      /\ AnswersIn(Unhandled') = AnswersIn(Unhandled) \ {l}
      /\ pc' # "start" => LinesInOrder'
  BY <1>2, TakenLeaves
<1>6. AnswersIn(Unhandled') = AnswersIn(Unhandled)
  BY <1>4, <1>5 DEF AnswersIn
<1>7. LineShapes'
  BY <1>1, <1>3, <1>5 DEF LineInv, LineShapes
<1>8. SharesAdd' /\ IdsTell' /\ TimesFit'
  BY <1>1, <1>3, <1>5, <1>6, SharesStay, IdsStay, TimesStay DEF LineInv
<1>9. \A f \in WantFields : ~Tells(l, f)
  BY <1>4 DEF Tells, WantFields
<1>10. WorkFollows'
  <2>1. /\ Follows(LinesIn(Unhandled'), conn', meant', counts'.sent + 1)
        /\ \A m \in LinesIn(Unhandled') : m.kind = "notify" =>
               Follows(LinesIn(Unhandled'), conn', m.value, m.no)
    BY <1>1, <1>2, <1>3, <1>9, WorkTaken
  <2>2. Follows(LinesIn(Unhandled), conn, l.value, l.no)
    BY <1>3, <1>4 DEF LineInv, WorkFollows
  <2>3. \A f \in WantFields : conn[f] = AsMined(f, l.value[f])
    BY <1>3, <1>5, <2>2, FollowsFirst
  <2>4. conn = [l.value EXCEPT !.mask = @ \cap RollingBits]
    <3>1. conn.difficulty = l.value.difficulty /\ conn.mask = l.value.mask \cap RollingBits
          /\ conn.extranonce = l.value.extranonce
      BY <2>3 DEF WantFields, AsMined
    <3>2. conn \in Wants
      BY DEF LineInv, LineShapes
    <3> QED
      BY <1>4, <3>1, <3>2 DEF Wants
  <2>5. work'.given = conn /\ work'.meant = l.value
    BY <1>1, <1>3, <1>4
  <2> QED
    BY <2>1, <2>4, <2>5 DEF WorkFollows
<1> QED
  BY <1>1, <1>3, <1>5, <1>7, <1>8, <1>10 DEF LineInv

(* What the pool sets for the next job                                     *)
LEMMA LineSetUpKeeps == ASSUME LinesAreSound, LineInv, Lines!SetUp PROVE LineInv'
<1> DEFINE kinds == {"difficulty", "mask", "xnonce"} \cup Lines!Ignored
<1>1. Lines!Takes(kinds) /\ Lines!Message.kind \in kinds /\ conn' = Lines!Told(Lines!Message)
      /\ UNCHANGED <<pc, uid, ids, info, work>>
             /\ UNCHANGED <<accepted, rejected, timing, timed, early>>
  BY Zenon DEF Lines!SetUp, Lines!Takes, Lines!results
<1>2. PICK l : Takes(l)
  BY <1>1, LineIsTaken DEF LineInv
<1>3. l \in WireLines /\ Lines!Message = Heard(l) /\ l \in LinesIn(Unhandled) /\ pc = "read"
      /\ UNCHANGED <<pool, sender, stream, open, meant, sessions>>
  BY <1>2 DEF Takes
<1>4. l.kind # "answer"
  <2>1. Heard(l).kind # "answer"
    BY <1>1, <1>3 DEF Lines!Ignored
  <2> QED
    BY <1>3, <2>1, HeardIs
<1>5. /\ counts' \in Tallies /\ counts'.sent = counts.sent /\ counts'.handled = l.no
      /\ counts'.accepted = counts.accepted /\ counts'.rejected = counts.rejected
      /\ buf' \in Seq(WireCells) /\ stream' \in Seq(WireCells)
      /\ AnswersIn(Unhandled') = AnswersIn(Unhandled) \ {l}
      /\ pc' # "start" => LinesInOrder'
  BY <1>2, TakenLeaves
<1>6. AnswersIn(Unhandled') = AnswersIn(Unhandled)
  BY <1>4, <1>5 DEF AnswersIn
<1>7. conn' \in Wants
      /\ \A f \in WantFields : conn'[f] = IF Tells(l, f) THEN AsMined(f, ToldBy(l)) ELSE conn[f]
  BY <1>1, <1>3, <1>4, LineIsTold DEF LineInv, LineShapes
<1>8. LineShapes'
  BY <1>1, <1>3, <1>5, <1>7 DEF LineInv, LineShapes
<1>9. SharesAdd' /\ IdsTell' /\ TimesFit'
  BY <1>1, <1>3, <1>5, <1>6, SharesStay, IdsStay, TimesStay DEF LineInv
<1>10. WorkFollows'
  <2>1. /\ Follows(LinesIn(Unhandled'), conn', meant', counts'.sent + 1)
        /\ \A m \in LinesIn(Unhandled') : m.kind = "notify" =>
               Follows(LinesIn(Unhandled'), conn', m.value, m.no)
    BY <1>2, <1>3, <1>7, WorkTaken
  <2> QED
    BY <1>1, <2>1 DEF LineInv, WorkFollows
<1> QED
  BY <1>1, <1>3, <1>5, <1>8, <1>9, <1>10 DEF LineInv

(* The pool asks for another session                                       *)
LEMMA ReconnectKeeps == ASSUME LinesAreSound, LineInv, Lines!Reconnect PROVE LineInv'
<1>1. Lines!Takes({"reconnect"}) /\ Lines!Message.kind \in {"reconnect"}
      /\ pc' = "reconnect" /\ info' = "reconnectRequested"
      /\ UNCHANGED <<uid, ids, conn, work>>
             /\ UNCHANGED <<accepted, rejected, timing, timed, early>>
  BY Zenon DEF Lines!Reconnect, Lines!Takes, Lines!results
<1>2. PICK l : Takes(l)
  BY <1>1, LineIsTaken DEF LineInv
<1>3. l \in WireLines /\ Lines!Message = Heard(l) /\ l \in LinesIn(Unhandled) /\ pc = "read"
      /\ UNCHANGED <<pool, sender, stream, open, meant, sessions>>
  BY <1>2 DEF Takes
<1>4. l.kind = "reconnect"
  <2>1. Heard(l).kind = "reconnect"
    BY <1>1, <1>3
  <2> QED
    BY <1>3, <2>1, HeardIs
<1>5. /\ counts' \in Tallies /\ counts'.sent = counts.sent /\ counts'.handled = l.no
      /\ counts'.accepted = counts.accepted /\ counts'.rejected = counts.rejected
      /\ buf' \in Seq(WireCells) /\ stream' \in Seq(WireCells)
      /\ AnswersIn(Unhandled') = AnswersIn(Unhandled) \ {l}
      /\ pc' # "start" => LinesInOrder'
  BY <1>2, TakenLeaves
<1>6. AnswersIn(Unhandled') = AnswersIn(Unhandled)
  BY <1>4, <1>5 DEF AnswersIn
<1>7. \A f \in WantFields : ~Tells(l, f)
  BY <1>4 DEF Tells, WantFields
<1>8. LineShapes'
  BY <1>1, <1>3, <1>5 DEF LineInv, LineShapes
<1>9. SharesAdd' /\ IdsTell' /\ TimesFit'
  BY <1>1, <1>3, <1>5, <1>6, SharesStay, IdsStay, TimesStay DEF LineInv
<1>10. WorkFollows'
  <2>1. /\ Follows(LinesIn(Unhandled'), conn', meant', counts'.sent + 1)
        /\ \A m \in LinesIn(Unhandled') : m.kind = "notify" =>
               Follows(LinesIn(Unhandled'), conn', m.value, m.no)
    BY <1>1, <1>2, <1>3, <1>7, WorkTaken
  <2> QED
    BY <1>1, <2>1 DEF LineInv, WorkFollows
<1> QED
  BY <1>1, <1>3, <1>5, <1>8, <1>9, <1>10 DEF LineInv

(* The answers on the way to shares can be counted                         *)
LEMMA SharesAreFinite ==
    ASSUME LineInv, pc # "start"
    PROVE  /\ IsFiniteSet(SharesTaken(Unhandled)) /\ Cardinality(SharesTaken(Unhandled)) \in Nat
           /\ IsFiniteSet(SharesRefused(Unhandled)) /\ Cardinality(SharesRefused(Unhandled)) \in Nat
<1>1. Unhandled \in Seq(WireCells)
  BY ConcatProperties DEF LineInv, LineShapes, Unhandled
<1>2. InLine(Unhandled, counts.handled + 1, counts.sent, sessions) /\ counts.handled + 1 \in Nat
          /\ counts.sent \in Nat
  BY DEF LineInv, LinesInOrder, LineShapes, Tallies
<1>3. IsFiniteSet(ShareAnswers(Unhandled, TRUE))
          /\ Cardinality(ShareAnswers(Unhandled, TRUE)) \in Nat
  BY <1>1, <1>2, SharesAreCounted, Zenon
<1>4. IsFiniteSet(ShareAnswers(Unhandled, FALSE))
          /\ Cardinality(ShareAnswers(Unhandled, FALSE)) \in Nat
  BY <1>1, <1>2, SharesAreCounted, Zenon
<1> QED
  BY <1>1, <1>3, <1>4, SharesAre, Zenon

(* An answer is known by its id for what it is                              *)
LEMMA AnswerIsKnown ==
    ASSUME LinesAreSound, LineInv, NEW l \in AnswersIn(Unhandled), l.value \in AnswersSaid
    PROVE  /\ Lines!IsSetup(l.value.id) <=> l.value.of # "share"
           /\ l.value.id = ids["authorize"] => l.value.of = "authorize"
           /\ l.value.id \in Nat \ {0} /\ l.value.id < uid
<1>1. KnownAs(l.value.id, l.value.of)
  BY DEF LineInv, IdsTell
<1>2. l.value.id \in Nat \ {0} /\ l.value.of \in Asking \cup {"share"}
  BY DEF AnswersSaid
<1>3. CASE l.value.of = "share"
  <2>1. \A r \in Asking : ids[r] # l.value.id
    BY <1>1, <1>3 DEF KnownAs
  <2>2. ~Lines!IsSetup(l.value.id)
    BY <2>1 DEF Lines!IsSetup, Lines!Requests, Asking
  <2>3. l.value.id # ids["authorize"]
    BY <2>1 DEF Asking
  <2> QED
    BY <1>1, <1>2, <1>3, <2>2, <2>3 DEF KnownAs
<1>4. CASE l.value.of # "share"
  <2>1. l.value.of \in Asking /\ ids[l.value.of] = l.value.id
    BY <1>1, <1>2, <1>4 DEF KnownAs
  <2>2. Lines!IsSetup(l.value.id)
    BY <2>1 DEF Lines!IsSetup, Lines!Requests, Asking
  <2>3. l.value.id = ids["authorize"] => l.value.of = "authorize"
    <3>1. "authorize" \in Asking
      BY DEF Asking
    <3> QED
      BY <1>2, <2>1, <3>1 DEF LineInv, IdsTell
  <2> QED
    BY <1>1, <1>2, <1>4, <2>2, <2>3 DEF KnownAs
<1> QED
  BY <1>3, <1>4

(* Two numbers in one slot are as far apart as there are slots              *)
LEMMA SlotsApart ==
    ASSUME NEW n \in Nat \ {0}, NEW x \in Nat, NEW y \in Nat, x % n = y % n, x < y
    PROVE  y >= x + n
<1>1. x = n * (x \div n) + (x % n) /\ y = n * (y \div n) + (y % n) /\ x \div n \in Nat
          /\ y \div n \in Nat
  OBVIOUS
<1> DEFINE p == x \div n
           q == y \div n
<1>2. x = n * p + (x % n) /\ y = n * q + (y % n) /\ p \in Nat /\ q \in Nat /\ x % n \in Nat
          /\ y % n \in Nat
  BY <1>1
<1> HIDE DEF p, q
<1>3. n * p \in Nat /\ n * q \in Nat /\ n * p < n * q
  BY <1>2
<1>4. p < q
  <2>1. SUFFICES ASSUME q <= p PROVE FALSE
    BY <1>2
  <2>2. n * q <= n * p
    BY <1>2, <2>1
  <2> QED
    BY <1>3, <2>2
<1>5. n * q >= n * (p + 1)
  BY <1>2, <1>4
<1>6. n * (p + 1) = n * p + n
  BY <1>2
<1> QED
  BY <1>2, <1>3, <1>5, <1>6

(* An answer is counted if it is a share's, and set up with otherwise       *)
LEMMA LineAnswerKeeps == ASSUME LinesAreSound, LineInv, Lines!HandleAnswer PROVE LineInv'
<1>1. Lines!Takes({"answer"}) /\ Lines!Message.kind \in {"answer"} /\ UNCHANGED <<uid, ids, work>>
  BY Zenon DEF Lines!HandleAnswer, Lines!Takes
<1>2. PICK l : Takes(l)
  BY <1>1, LineIsTaken DEF LineInv
<1>3. l \in WireLines /\ Lines!Message = Heard(l) /\ l \in LinesIn(Unhandled) /\ pc = "read"
      /\ UNCHANGED <<pool, sender, stream, open, meant, sessions>>
  BY <1>2 DEF Takes
<1>4. l.kind = "answer" /\ Lines!Message = l /\ l.value \in AnswersSaid
          /\ l \in AnswersIn(Unhandled)
  <2>1. Heard(l).kind = "answer"
    BY <1>1, <1>3
  <2>2. l.kind = "answer" /\ l.value \in AnswersSaid
    BY <1>3, <2>1, HeardIs
  <2> QED
    BY <1>3, <2>2 DEF Heard, AnswersIn
<1> DEFINE a == l.value
<1>5. PICK outcome \in {Lines!parse_result(w.result, w.error) : w \in Lines!Wordings(a)} :
        /\ conn' = Lines!Agreed(outcome, a.value)
        /\ info' = IF Lines!IsSetup(a.id) /\ outcome = "rejected" THEN Lines!Refused(a.id) ELSE info
        /\ pc' = IF a.id = ids["authorize"] /\ outcome = "accepted" THEN "suggest" ELSE "read"
        /\ IF Lines!Counted(a, outcome) THEN Lines!Timed(a.id) /\ early' = (early \/ sender = a.id)
           ELSE UNCHANGED <<timing, timed, early>>
        /\ accepted' = accepted + (IF Lines!Counted(a, outcome)
               /\ outcome = "accepted" THEN 1 ELSE 0)
        /\ rejected' = rejected + (IF Lines!Counted(a, outcome)
               /\ outcome = "rejected" THEN 1 ELSE 0)
  BY <1>4, Zenon DEF Lines!HandleAnswer
<1>6. PICK w \in Lines!Wordings(a) : outcome = Lines!parse_result(w.result, w.error)
  OBVIOUS
<1>7. outcome = IF ~a.ok THEN "rejected" ELSE IF a.of = "configure" THEN "configured"
                ELSE IF a.of = "subscribe" THEN "subscribed" ELSE "accepted"
  BY <1>4, <1>6, AnswersSay
<1>8. /\ Lines!IsSetup(a.id) <=> a.of # "share"
      /\ a.id = ids["authorize"] => a.of = "authorize"
      /\ a.id \in Nat \ {0} /\ a.id < uid
  BY <1>4, AnswerIsKnown
<1>9. a.ok \in BOOLEAN /\ a.of \in Asking \cup {"share"}
  BY <1>4 DEF AnswersSaid
<1>10. Lines!Counted(a, outcome) <=> a.of = "share"
  BY <1>7, <1>8 DEF Lines!Counted
<1>11. /\ counts' \in Tallies /\ counts'.sent = counts.sent /\ counts'.handled = l.no
       /\ counts'.accepted = counts.accepted /\ counts'.rejected = counts.rejected
       /\ buf' \in Seq(WireCells) /\ stream' \in Seq(WireCells)
       /\ AnswersIn(Unhandled') = AnswersIn(Unhandled) \ {l}
       /\ pc' # "start" => LinesInOrder'
  BY <1>2, TakenLeaves
<1>12. conn' \in Wants
       /\ \A f \in WantFields : conn'[f] = IF Tells(l, f) THEN AsMined(f, ToldBy(l)) ELSE conn[f]
  BY <1>3, <1>4, <1>5, <1>6, AnswerIsTold DEF LineInv, LineShapes
<1>13. pc' \in {"suggest", "read"}
  BY <1>5
<1>14. accepted \in Nat /\ rejected \in Nat /\ timing \in [0..(TimingSlots - 1) -> Nat]
  BY DEF LineInv, LineShapes
<1> HIDE DEF a
<1>15. CASE a.of = "share"
  <2> DEFINE slot == a.id % TimingSlots
  <2>1. slot \in 0..(TimingSlots - 1)
    BY <1>8 DEF LinesAreSound
  <2>2. slot = a.id % TimingSlots
    OBVIOUS
  <2> HIDE DEF slot
  <2>3. Lines!SlotOf(a.id) = slot
    BY <2>2 DEF Lines!SlotOf
  <2>4. /\ timing' = [timing EXCEPT ![slot] = 0] /\ early' = (early \/ sender = a.id)
        /\ timed' = IF timing[slot] = 0 THEN timed ELSE [id |-> a.id, of |-> timing[slot]]
    BY <1>5, <1>10, <1>15, <2>3, Zenon DEF Lines!Timed
  <2>5. accepted' = accepted + (IF a.ok THEN 1 ELSE 0)
            /\ rejected' = rejected + (IF a.ok THEN 0 ELSE 1)
    BY <1>5, <1>7, <1>9, <1>10, <1>15
  <2>6. LineShapes'
    BY <1>1, <1>3, <1>11, <1>12, <1>13, <1>14, <2>1, <2>4, <2>5 DEF LineInv, LineShapes
  <2>7. SharesAdd'
    <3>1. IsFiniteSet(SharesTaken(Unhandled)) /\ IsFiniteSet(SharesRefused(Unhandled))
          /\ Cardinality(SharesTaken(Unhandled)) \in Nat
                 /\ Cardinality(SharesRefused(Unhandled)) \in Nat
      BY <1>3, SharesAreFinite
    <3>2. CASE a.ok
      <4>1. l \in SharesTaken(Unhandled) /\ SharesTaken(Unhandled') = SharesTaken(Unhandled) \ {l}
            /\ SharesRefused(Unhandled') = SharesRefused(Unhandled)
        BY <1>4, <1>11, <1>15, <3>2 DEF SharesTaken, SharesRefused, a
      <4>2. Cardinality(SharesTaken(Unhandled')) = Cardinality(SharesTaken(Unhandled)) - 1
        BY <3>1, <4>1, FS_RemoveElement
      <4>3. accepted' = accepted + 1 /\ rejected' = rejected
        BY <1>14, <2>5, <3>2
      <4> QED
        BY <1>11, <1>14, <3>1, <4>1, <4>2, <4>3 DEF SharesAdd, LineInv
    <3>3. CASE ~a.ok
      <4>1. l \in SharesRefused(Unhandled)
                /\ SharesRefused(Unhandled') = SharesRefused(Unhandled) \ {l}
            /\ SharesTaken(Unhandled') = SharesTaken(Unhandled)
        BY <1>4, <1>11, <1>15, <3>3 DEF SharesTaken, SharesRefused, a
      <4>2. Cardinality(SharesRefused(Unhandled')) = Cardinality(SharesRefused(Unhandled)) - 1
        BY <3>1, <4>1, FS_RemoveElement
      <4>3. rejected' = rejected + 1 /\ accepted' = accepted
        BY <1>14, <2>5, <3>3
      <4> QED
        BY <1>11, <1>14, <3>1, <4>1, <4>2, <4>3 DEF SharesAdd, LineInv
    <3> QED
      BY <3>2, <3>3
  <2>8. IdsTell'
    <3>1. pc' = "read" /\ info' = info
      BY <1>5, <1>8, <1>15
    <3>2. AnswersIn(Unhandled') \subseteq AnswersIn(Unhandled)
      BY <1>11
    <3> QED
      BY <1>1, <1>3, <3>1, <3>2, IdsStay DEF LineInv
  <2>9. TimesFit'
    <3>1. NotOvertaken(a.id)
      BY <1>4, <1>15 DEF LineInv, TimesFit, a
    <3>2. ASSUME NEW s \in 0..(TimingSlots - 1), timing'[s] # 0
          PROVE  timing'[s] % TimingSlots = s /\ timing'[s] < uid'
      BY <1>1, <1>14, <2>1, <2>4, <3>2 DEF LineInv, TimesFit
    <3>3. ASSUME NEW id \in Nat, NotOvertaken(id) PROVE NotOvertaken(id)'
      <4>1. id % TimingSlots \in 0..(TimingSlots - 1)
        BY DEF LinesAreSound
      <4> QED
        BY <1>3, <1>14, <2>1, <2>4, <3>3, <4>1 DEF NotOvertaken
    <3>4. \A r \in open' : r.kind = "share" => NotOvertaken(r.id)'
      <4> SUFFICES ASSUME NEW r \in open, r.kind = "share" PROVE NotOvertaken(r.id)'
        BY <1>3
      <4>1. r.id \in Nat
        BY DEF LineInv, LineShapes, PoolRequests
      <4> QED
        BY <3>3, <4>1 DEF LineInv, TimesFit
    <3>5. \A m \in AnswersIn(Unhandled') : m.value.of = "share" => NotOvertaken(m.value.id)'
      <4> SUFFICES ASSUME NEW m \in AnswersIn(Unhandled), m.value.of = "share"
        PROVE NotOvertaken(m.value.id)'
        BY <1>11
      <4>1. m.value.id \in Nat
        <5>1. PICK i \in 1..Len(Unhandled) : m = Unhandled[i].line
          BY DEF AnswersIn, LinesIn
        <5>2. Unhandled \in Seq(WireCells)
          BY ConcatProperties DEF LineInv, LineShapes, Unhandled
        <5>3. m \in WireLines /\ m.kind = "answer"
          BY <5>1, <5>2, CellIs DEF AnswersIn
        <5> QED
          BY <5>3 DEF WireLines, AnswersSaid
      <4> QED
        BY <3>3, <4>1 DEF LineInv, TimesFit
    <3>6. timed' # NothingSaid
              /\ ~early' => timed'.of = timed'.id \/ timed'.of >= timed'.id + TimingSlots
      <4> SUFFICES ASSUME timed' # NothingSaid, ~early'
        PROVE timed'.of = timed'.id \/ timed'.of >= timed'.id + TimingSlots
        OBVIOUS
      <4>1. ~early /\ sender # a.id
        BY <2>4
      <4>2. CASE timing[slot] = 0
        BY <2>4, <4>1, <4>2 DEF LineInv, TimesFit
      <4>3. CASE timing[slot] # 0
        <5>1. timed'.id = a.id /\ timed'.of = timing[slot]
          BY <2>4, <4>3
        <5>2. timing[slot] >= a.id /\ timing[slot] \in Nat
          BY <1>14, <2>1, <2>2, <3>1, <4>1, <4>3 DEF NotOvertaken
        <5>3. timing[slot] % TimingSlots = a.id % TimingSlots
          BY <2>1, <2>2, <4>3 DEF LineInv, TimesFit
        <5>4. timing[slot] = a.id \/ a.id < timing[slot]
          BY <1>8, <5>2
        <5>5. a.id < timing[slot] => timing[slot] >= a.id + TimingSlots
          BY <1>8, <5>2, <5>3, SlotsApart DEF LinesAreSound
        <5> QED
          BY <5>1, <5>4, <5>5
      <4> QED
        BY <4>2, <4>3
    <3>7. sender' # 0 => uid' = sender' + 1
      BY <1>1, <1>3 DEF LineInv, TimesFit
    <3> QED
      BY <3>2, <3>4, <3>5, <3>6, <3>7 DEF TimesFit
  <2>10. WorkFollows'
    <3>1. /\ Follows(LinesIn(Unhandled'), conn', meant', counts'.sent + 1)
          /\ \A m \in LinesIn(Unhandled') : m.kind = "notify" =>
                 Follows(LinesIn(Unhandled'), conn', m.value, m.no)
      BY <1>2, <1>3, <1>12, WorkTaken
    <3> QED
      BY <1>1, <3>1 DEF LineInv, WorkFollows
  <2> QED
    BY <1>11, <1>13, <2>6, <2>7, <2>8, <2>9, <2>10 DEF LineInv
<1>16. CASE a.of # "share"
  <2>1. UNCHANGED <<timing, timed, early>> /\ accepted' = accepted /\ rejected' = rejected
    BY <1>5, <1>10, <1>14, <1>16
  <2>2. LineShapes'
    BY <1>1, <1>3, <1>11, <1>12, <1>13, <1>14, <2>1 DEF LineInv, LineShapes
  <2>3. SharesAdd'
    <3>1. SharesTaken(Unhandled') = SharesTaken(Unhandled)
              /\ SharesRefused(Unhandled') = SharesRefused(Unhandled)
      BY <1>11, <1>16 DEF SharesTaken, SharesRefused, a
    <3> QED
      BY <1>11, <2>1, <3>1 DEF SharesAdd, LineInv
  <2>4. IdsTell'
    <3>1. \A id, of : KnownAs(id, of)' = KnownAs(id, of)
      BY <1>1 DEF KnownAs
    <3>2. /\ \A r \in Asking : ids'[r] < uid' /\ \A p \in Asking : ids'[r] = ids'[p]
                 /\ ids'[r] # 0 => r = p
          /\ \A r \in open' : KnownAs(r.id, r.kind)' /\ \A p \in open' : p.id = r.id => p = r
          /\ \A m \in AnswersIn(Unhandled') :
              /\ KnownAs(m.value.id, m.value.of)'
              /\ \A r \in open' : r.id # m.value.id
              /\ \A n \in AnswersIn(Unhandled') : n.value.id = m.value.id => n = m
      BY <1>1, <1>3, <1>11, <3>1 DEF LineInv, IdsTell
    <3>3. Told("authorize")' => Told("authorize")
      BY <1>3, <1>11 DEF Told
    <3>4. info' = "authRejected" => ids'["authorize"] # 0
      <4>1. CASE info' = info
        BY <1>1, <4>1 DEF LineInv, IdsTell
      <4>2. CASE info' = Lines!Refused(a.id)
        BY <1>1, <1>8, <4>2 DEF Lines!Refused
      <4> QED
        BY <1>5, <4>1, <4>2 DEF a
    <3>5. CASE pc' = "read"
      <4>1. Told("authorize")' => ids'["suggest"] = 0 /\ ids'["extranonce"] = 0
        BY <1>1, <3>3 DEF LineInv, IdsTell
      <4> QED
        BY <3>2, <3>4, <3>5, <4>1, Zenon DEF IdsTell
    <3>6. CASE pc' = "suggest"
      <4>1. a.id = ids["authorize"] /\ a.of = "authorize"
        BY <1>5, <1>8, <3>6 DEF a
      <4>2. Told("authorize")
        BY <1>4, <4>1 DEF Told, a
      <4>3. ids["suggest"] = 0 /\ ids["extranonce"] = 0
        BY <4>2 DEF LineInv, IdsTell
      <4>4. ~Told("authorize")'
        <5>1. ASSUME NEW r \in open, r.kind = "authorize" PROVE FALSE
          BY <1>4, <4>1, <5>1 DEF LineInv, IdsTell, KnownAs, a
        <5>2. ASSUME NEW m \in AnswersIn(Unhandled), m # l, m.value.of = "authorize" PROVE FALSE
          BY <1>4, <4>1, <5>2 DEF LineInv, IdsTell, KnownAs, a
        <5> QED
          BY <1>3, <1>11, <5>1, <5>2 DEF Told
      <4> QED
        BY <1>1, <3>2, <3>4, <3>6, <4>3, <4>4 DEF IdsTell
    <3> QED
      BY <1>13, <3>5, <3>6
  <2>5. TimesFit'
    <3>1. AnswersIn(Unhandled') \subseteq AnswersIn(Unhandled)
      BY <1>11
    <3> QED
      BY <1>1, <1>3, <2>1, <3>1, TimesStay DEF LineInv
  <2>6. WorkFollows'
    <3>1. /\ Follows(LinesIn(Unhandled'), conn', meant', counts'.sent + 1)
          /\ \A m \in LinesIn(Unhandled') : m.kind = "notify" =>
                 Follows(LinesIn(Unhandled'), conn', m.value, m.no)
      BY <1>2, <1>3, <1>12, WorkTaken
    <3> QED
      BY <1>1, <3>1 DEF LineInv, WorkFollows
  <2> QED
    BY <1>11, <1>13, <2>2, <2>3, <2>4, <2>5, <2>6 DEF LineInv
<1> QED
  BY <1>15, <1>16

---------------------------------------------------------------------------
(* What is on the way is not touched by the miner's requests                *)
LEMMA LinesStay ==
    ASSUME LineInv, UNCHANGED <<buf, stream, counts, sessions>>, pc # "start", pc' # "start"
    PROVE  Unhandled' = Unhandled /\ LinesInOrder' /\ LinesIn(Unhandled') = LinesIn(Unhandled)
           /\ AnswersIn(Unhandled') = AnswersIn(Unhandled)
<1>1. Unhandled' = Unhandled
  BY DEF Unhandled
<1> QED
  BY <1>1 DEF LineInv, LinesInOrder

(* What the lines mean stays when nothing is said                          *)
LEMMA WorkStays ==
    ASSUME LineInv,
               LinesIn(Unhandled') = LinesIn(Unhandled),
                 UNCHANGED <<conn, meant, counts, work>>, pc # "start"
    PROVE  WorkFollows'
BY DEF LineInv, WorkFollows

(* An answer on the way has the id of a request that was sent              *)
LEMMA AnswersHave ==
    ASSUME LineInv, NEW m \in AnswersIn(Unhandled)
    PROVE  m \in WireLines /\ m.kind = "answer" /\ m.value \in AnswersSaid
               /\ m.value.id \in Nat \ {0} /\ m.value.id < uid
<1>1. PICK i \in 1..Len(Unhandled) : m = Unhandled[i].line
  BY DEF AnswersIn, LinesIn
<1>2. Unhandled \in Seq(WireCells)
  BY ConcatProperties DEF LineInv, LineShapes, Unhandled
<1>3. m \in WireLines /\ m.kind = "answer"
  BY <1>1, <1>2, CellIs DEF AnswersIn
<1>4. m.value \in AnswersSaid
  BY <1>3 DEF WireLines
<1> QED
  BY <1>3, <1>4 DEF AnswersSaid, LineInv, IdsTell, KnownAs

(* A request takes the next id                                              *)
LEMMA LineRequestKeeps ==
    ASSUME LinesAreSound, LineInv, NEW what, NEW wanted, NEW next,
           (what = "suggest" /\ next = "extranonce") \/ (what = "extranonce" /\ next = "read"),
           Lines!Request(what, wanted, next)
    PROVE  LineInv'
<1>1. /\ pc = what /\ sender = 0 /\ pc' = next
      /\ \/ ids' = [ids EXCEPT ![what] = uid] /\ uid' = uid + 1
            /\ open' = open \cup {[id |-> uid, kind |-> what]}
         \/ UNCHANGED <<ids, uid, open>>
      /\ UNCHANGED <<pool, buf, conn, info, work, sender, stream, meant, lines, counts, sessions>>
      /\ UNCHANGED <<accepted, rejected, timing, timed, early>>
  BY Zenon DEF Lines!Request, Lines!results
<1>2. pc # "start" /\ pc' # "start" /\ what \in Asking /\ pc' \in {"extranonce", "read"}
  BY <1>1 DEF Asking
<1>3. Unhandled' = Unhandled /\ LinesInOrder' /\ LinesIn(Unhandled') = LinesIn(Unhandled)
      /\ AnswersIn(Unhandled') = AnswersIn(Unhandled)
  BY <1>1, <1>2, LinesStay
<1>4. uid \in Nat \ {0} /\ ids \in [Asking -> Nat] /\ open \subseteq PoolRequests
  BY DEF LineInv, LineShapes
<1>5. LineShapes'
  <2>1. uid' \in Nat \ {0} /\ ids' \in [Asking -> Nat] /\ open' \subseteq PoolRequests
    BY <1>1, <1>2, <1>4 DEF PoolRequests
  <2> QED
    BY <1>1, <1>2, <2>1 DEF LineInv, LineShapes
<1>6. SharesAdd'
  BY <1>1, <1>3, SharesStay DEF LineInv
<1>7. WorkFollows'
  BY <1>1, <1>2, <1>3, WorkStays
<1>8. ids[what] = 0 /\ ~Told("authorize") /\ (what = "suggest" => ids["extranonce"] = 0)
  BY <1>1 DEF LineInv, IdsTell
<1>9. \A m \in AnswersIn(Unhandled) : m.value.id \in Nat \ {0} /\ m.value.id < uid
          /\ KnownAs(m.value.id, m.value.of)
  BY AnswersHave DEF LineInv, IdsTell
<1>10. \A r \in open : r.id \in Nat \ {0} /\ r.id < uid /\ KnownAs(r.id, r.kind)
           /\ r.kind \in Asking \cup {"share"}
  BY <1>4 DEF LineInv, IdsTell, KnownAs, PoolRequests
<1>11. IdsTell' /\ TimesFit'
  <2>1. CASE UNCHANGED <<ids, uid, open>>
    <3>1. \A id, of : KnownAs(id, of)' = KnownAs(id, of)
      BY <2>1 DEF KnownAs
    <3>2. Told("authorize")' = Told("authorize")
      BY <1>3, <2>1 DEF Told
    <3>3. IdsTell'
      BY <1>1, <1>2, <1>3, <1>8, <2>1, <3>1, <3>2 DEF LineInv, IdsTell
    <3>4. TimesFit'
      BY <1>1, <1>3, <2>1, TimesStay DEF LineInv
    <3> QED
      BY <3>3, <3>4
  <2>2. CASE ids' = [ids EXCEPT ![what] = uid] /\ uid' = uid + 1
             /\ open' = open \cup {[id |-> uid, kind |-> what]}
    <3>0. PICK k \in Nat \ {0} : k = uid
      BY <1>4
    <3> DEFINE new == [id |-> k, kind |-> what]
    <3>1. new.id = k /\ new.kind = what /\ open' = open \cup {new}
      BY <2>2, <3>0
    <3> HIDE DEF new
    <3>2. ids'[what] = uid /\ \A r \in Asking : r # what => ids'[r] = ids[r]
      BY <1>2, <1>4, <2>2
    <3>3. ASSUME NEW id \in Nat \ {0}, NEW of \in Asking \cup {"share"}, KnownAs(id, of)
                     PROVE KnownAs(id, of)' /\ id # k
      <4>1. id < uid /\ id # k /\ id # uid /\ id < uid'
        BY <1>4, <2>2, <3>0, <3>3 DEF KnownAs
      <4>2. CASE of = "share"
        BY <3>2, <3>3, <4>1, <4>2 DEF KnownAs
      <4>3. CASE of # "share"
        <5>1. ids[of] = id /\ of # what
          BY <1>8, <3>3, <4>3 DEF KnownAs
        <5> QED
          BY <3>2, <4>1, <4>3, <5>1 DEF KnownAs
      <4> QED
        BY <4>2, <4>3
    <3>4. KnownAs(k, what)'
      <4>1. what # "share" /\ k < uid' /\ ids'[what] = k
        BY <1>1, <2>2, <3>0, <3>2
      <4> QED
        BY <4>1 DEF KnownAs
    <3>5. \A r \in Asking : ids'[r] < uid' /\ \A p \in Asking : ids'[r] = ids'[p]
              /\ ids'[r] # 0 => r = p
      <4>1. \A r \in Asking : ids[r] \in Nat /\ ids[r] < uid /\ \A p \in Asking : ids[r] = ids[p]
                /\ ids[r] # 0 => r = p
        BY <1>4 DEF LineInv, IdsTell
      <4> SUFFICES ASSUME NEW r \in Asking
                   PROVE  ids'[r] < uid' /\ \A p \in Asking : ids'[r] = ids'[p]
                              /\ ids'[r] # 0 => r = p
        OBVIOUS
      <4>2. ids'[r] < uid'
        BY <1>4, <2>2, <3>2, <4>1
      <4>3. ASSUME NEW p \in Asking, ids'[r] = ids'[p], ids'[r] # 0 PROVE r = p
        <5>1. CASE r = what
          BY <1>4, <3>2, <4>1, <4>3, <5>1
        <5>2. CASE r # what /\ p = what
          BY <1>4, <3>2, <4>1, <4>3, <5>2
        <5>3. CASE r # what /\ p # what
          BY <3>2, <4>1, <4>3, <5>3
        <5> QED
          BY <5>1, <5>2, <5>3
      <4> QED
        BY <4>2, <4>3
    <3>6. \A r \in open' : KnownAs(r.id, r.kind)' /\ \A p \in open' : p.id = r.id => p = r
      <4>1. \A r \in open : KnownAs(r.id, r.kind)' /\ r.id # k
                /\ \A p \in open : p.id = r.id => p = r
        BY <1>10, <3>3 DEF LineInv, IdsTell
      <4> QED
        BY <3>1, <3>4, <4>1
    <3>7. \A m \in AnswersIn(Unhandled') :
            /\ KnownAs(m.value.id, m.value.of)'
            /\ \A r \in open' : r.id # m.value.id
            /\ \A n \in AnswersIn(Unhandled') : n.value.id = m.value.id => n = m
      <4> SUFFICES ASSUME NEW m \in AnswersIn(Unhandled)
                   PROVE  /\ KnownAs(m.value.id, m.value.of)'
                          /\ \A r \in open' : r.id # m.value.id
                          /\ \A n \in AnswersIn(Unhandled) : n.value.id = m.value.id => n = m
        BY <1>3
      <4>1. m.value.of \in Asking \cup {"share"}
        BY AnswersHave DEF AnswersSaid
      <4>2. KnownAs(m.value.id, m.value.of)' /\ m.value.id # k
        BY <1>9, <3>3, <4>1
      <4> QED
        BY <3>1, <4>2 DEF LineInv, IdsTell
    <3>8. ~Told("authorize")'
      BY <1>1, <1>3, <1>8, <3>1 DEF Told
    <3>9. info' = "authRejected" => ids'["authorize"] # 0
      <4>1. ids'["authorize"] = ids["authorize"]
        BY <1>1, <3>2 DEF Asking
      <4> QED
        BY <1>1, <4>1 DEF LineInv, IdsTell
    <3>10. pc' = "extranonce" => ids'["extranonce"] = 0
      BY <1>1, <1>8, <3>2 DEF Asking
    <3>11. IdsTell'
      BY <1>2, <3>5, <3>6, <3>7, <3>8, <3>9, <3>10 DEF IdsTell
    <3>12. TimesFit'
      <4>1. \A id : NotOvertaken(id)' = NotOvertaken(id)
        BY <1>1 DEF NotOvertaken
      <4>2. \A r \in open' : r.kind = "share" => NotOvertaken(r.id)'
        BY <1>1, <3>1, <4>1 DEF LineInv, TimesFit
      <4>3. \A m \in AnswersIn(Unhandled') : m.value.of = "share" => NotOvertaken(m.value.id)'
        BY <1>3, <4>1 DEF LineInv, TimesFit
      <4>4. \A s \in 0..(TimingSlots - 1) : timing'[s] # 0 => timing'[s] % TimingSlots = s
                /\ timing'[s] < uid'
        <5>1. timing \in [0..(TimingSlots - 1) -> Nat]
          BY DEF LineInv, LineShapes
        <5> QED
          BY <1>1, <1>4, <2>2, <5>1 DEF LineInv, TimesFit
      <4> QED
        BY <1>1, <4>2, <4>3, <4>4 DEF TimesFit, LineInv
    <3> QED
      BY <3>11, <3>12
  <2> QED
    BY <1>1, <2>1, <2>2
<1> QED
  BY <1>3, <1>5, <1>6, <1>7, <1>11 DEF LineInv

(* A share takes the next id                                                *)
LEMMA LineSubmitKeeps ==
    ASSUME LinesAreSound, LineInv, Lines!Submit \/ Lines!SubmitFails
    PROVE  LineInv'
<1>1. /\ pc # "start" /\ sender = 0 /\ uid' = uid + 1
      /\ \/ sender' = uid /\ open' = open \cup {[id |-> uid, kind |-> "share"]}
                /\ UNCHANGED <<meant, lines>>
         \/ sender' = 0 /\ UNCHANGED <<open, meant, lines>>
      /\ UNCHANGED <<pool, pc, ids, buf, conn, info, work, stream, counts, sessions>>
      /\ UNCHANGED <<accepted, rejected, timing, timed, early>>
  <2>1. CASE Lines!Submit
    BY <2>1, Zenon DEF Lines!Submit, Lines!results
  <2>2. CASE Lines!SubmitFails
    BY <2>2, Zenon DEF Lines!SubmitFails, Lines!results, Lines!peer
  <2> QED
    BY <2>1, <2>2
<1>2. pc' # "start"
  BY <1>1
<1>3. Unhandled' = Unhandled /\ LinesInOrder' /\ LinesIn(Unhandled') = LinesIn(Unhandled)
      /\ AnswersIn(Unhandled') = AnswersIn(Unhandled)
  BY <1>1, <1>2, LinesStay
<1>4. uid \in Nat \ {0} /\ ids \in [Asking -> Nat] /\ open \subseteq PoolRequests
      /\ timing \in [0..(TimingSlots - 1) -> Nat]
  BY DEF LineInv, LineShapes
<1>5. LineShapes'
  <2>1. uid' \in Nat \ {0} /\ sender' \in Nat /\ open' \subseteq PoolRequests
    BY <1>1, <1>4 DEF PoolRequests
  <2> QED
    BY <1>1, <2>1 DEF LineInv, LineShapes
<1>6. SharesAdd'
  BY <1>1, <1>3, SharesStay DEF LineInv
<1>7. WorkFollows'
  BY <1>1, <1>3, WorkStays
<1>8. \A r \in open : r.id \in Nat \ {0} /\ r.id < uid /\ KnownAs(r.id, r.kind)
  BY <1>4 DEF LineInv, IdsTell, KnownAs, PoolRequests
<1>9. \A m \in AnswersIn(Unhandled) : m.value.id \in Nat \ {0} /\ m.value.id < uid
          /\ KnownAs(m.value.id, m.value.of)
  BY AnswersHave DEF LineInv, IdsTell
<1>10. \A id \in Nat : \A of : KnownAs(id, of) => KnownAs(id, of)'
  BY <1>1, <1>4 DEF KnownAs
<1>0. PICK k \in Nat \ {0} : k = uid
  BY <1>4
<1> DEFINE new == [id |-> k, kind |-> "share"]
<1>11. new.id = k /\ new.kind = "share"
       /\ ((open' = open \cup {new} /\ sender' = k) \/ (open' = open /\ sender' = 0))
  BY <1>0, <1>1
<1> HIDE DEF new
<1>12. KnownAs(k, "share")'
  <2>1. \A r \in Asking : ids[r] < k /\ ids[r] \in Nat
    BY <1>0, <1>4 DEF LineInv, IdsTell
  <2> QED
    BY <1>0, <1>1, <1>4, <2>1 DEF KnownAs
<1>13. IdsTell'
  <2>1. \A r \in Asking : ids'[r] < uid' /\ \A p \in Asking : ids'[r] = ids'[p]
            /\ ids'[r] # 0 => r = p
    <3>1. \A r \in Asking : ids[r] \in Nat /\ ids[r] < uid /\ \A p \in Asking : ids[r] = ids[p]
              /\ ids[r] # 0 => r = p
      BY <1>4 DEF LineInv, IdsTell
    <3>2. uid < uid' /\ uid' \in Nat /\ ids' = ids
      BY <1>1, <1>4
    <3> QED
      BY <1>4, <3>1, <3>2
  <2>2. \A r \in open' : KnownAs(r.id, r.kind)' /\ \A p \in open' : p.id = r.id => p = r
    <3>1. \A r \in open : KnownAs(r.id, r.kind)' /\ r.id # k /\ \A p \in open : p.id = r.id => p = r
      BY <1>0, <1>4, <1>8, <1>10 DEF LineInv, IdsTell
    <3>2. KnownAs(new.id, new.kind)' /\ new.id = k
      BY <1>11, <1>12
    <3> SUFFICES ASSUME NEW r \in open', NEW p \in open'
                 PROVE  KnownAs(r.id, r.kind)' /\ (p.id = r.id => p = r)
      OBVIOUS
    <3>3. (r \in open \/ r = new) /\ (p \in open \/ p = new)
      BY <1>11
    <3> QED
      BY <3>1, <3>2, <3>3
  <2>3. \A m \in AnswersIn(Unhandled') :
            /\ KnownAs(m.value.id, m.value.of)'
            /\ \A r \in open' : r.id # m.value.id
            /\ \A n \in AnswersIn(Unhandled') : n.value.id = m.value.id => n = m
    <3>1. \A m \in AnswersIn(Unhandled) : KnownAs(m.value.id, m.value.of)' /\ m.value.id # k
      BY <1>0, <1>4, <1>9, <1>10
    <3> QED
      BY <1>3, <1>11, <3>1 DEF LineInv, IdsTell
  <2>4. Told("authorize")' => Told("authorize")
    BY <1>3, <1>11 DEF Told
  <2> QED
    BY <1>1, <2>1, <2>2, <2>3, <2>4 DEF LineInv, IdsTell
<1>14. TimesFit'
  <2>1. ASSUME NEW id \in Nat \ {0}, NotOvertaken(id) PROVE NotOvertaken(id)'
    BY <1>1, <2>1 DEF NotOvertaken
  <2>2. NotOvertaken(new.id)' \/ open' = open
    BY <1>11 DEF NotOvertaken
  <2>3. \A r \in open' : r.kind = "share" => NotOvertaken(r.id)'
    BY <1>8, <1>11, <2>1, <2>2 DEF LineInv, TimesFit
  <2>4. \A m \in AnswersIn(Unhandled') : m.value.of = "share" => NotOvertaken(m.value.id)'
    BY <1>3, <1>9, <2>1 DEF LineInv, TimesFit
  <2>5. \A s \in 0..(TimingSlots - 1) : timing'[s] # 0 => timing'[s] % TimingSlots = s
            /\ timing'[s] < uid'
    BY <1>1, <1>4 DEF LineInv, TimesFit
  <2>6. sender' # 0 => uid' = sender' + 1
    BY <1>1
  <2> QED
    BY <1>1, <2>3, <2>4, <2>5, <2>6 DEF TimesFit, LineInv
<1> QED
  BY <1>3, <1>5, <1>6, <1>7, <1>13, <1>14 DEF LineInv

(* Its time is recorded when it was sent                                    *)
LEMMA LineRecordKeeps == ASSUME LinesAreSound, LineInv, Lines!Record PROVE LineInv'
<1>1. /\ sender # 0 /\ sender' = 0 /\ timing' = [timing EXCEPT ![Lines!SlotOf(sender)] = sender]
      /\ UNCHANGED <<pool, pc, uid, ids, buf, conn>>
      /\ UNCHANGED <<info, work, accepted, rejected, timed, early, stream, counts, sessions>>
      /\ UNCHANGED <<open, meant, lines>>
  BY Zenon DEF Lines!Record, Lines!connection, Lines!peer
<1>2. pc # "start" /\ pc' # "start"
  BY <1>1 DEF LineInv, LinesInOrder, AtRest
<1>3. Unhandled' = Unhandled /\ LinesInOrder' /\ LinesIn(Unhandled') = LinesIn(Unhandled)
      /\ AnswersIn(Unhandled') = AnswersIn(Unhandled)
  BY <1>1, <1>2, LinesStay
<1>4. sender \in Nat \ {0} /\ timing \in [0..(TimingSlots - 1) -> Nat] /\ uid = sender + 1
  BY <1>1 DEF LineInv, LineShapes, TimesFit
<1> DEFINE slot == sender % TimingSlots
<1>5. slot \in 0..(TimingSlots - 1) /\ Lines!SlotOf(sender) = slot
  BY <1>4 DEF LinesAreSound, Lines!SlotOf
<1>6. slot = sender % TimingSlots
  OBVIOUS
<1> HIDE DEF slot
<1>7. timing' = [timing EXCEPT ![slot] = sender]
  BY <1>1, <1>5
<1>8. LineShapes'
  <2>1. timing' \in [0..(TimingSlots - 1) -> Nat]
    BY <1>4, <1>5, <1>7
  <2> QED
    BY <1>1, <2>1 DEF LineInv, LineShapes
<1>9. SharesAdd'
  BY <1>1, <1>3, SharesStay DEF LineInv
<1>10. WorkFollows'
  BY <1>1, <1>2, <1>3, WorkStays
<1>11. IdsTell'
  BY <1>1, <1>3, IdsStay DEF LineInv
<1>12. TimesFit'
  <2>1. ASSUME NEW id \in Nat, id < uid, NotOvertaken(id) PROVE NotOvertaken(id)'
    <3>1. id % TimingSlots \in 0..(TimingSlots - 1)
      BY DEF LinesAreSound
    <3>2. id <= sender
      BY <1>4, <2>1
    <3>3. CASE id % TimingSlots = slot
      BY <1>4, <1>5, <1>7, <3>2, <3>3 DEF NotOvertaken
    <3>4. CASE id % TimingSlots # slot
      <4>1. timing'[id % TimingSlots] = timing[id % TimingSlots]
        BY <1>4, <1>7, <3>1, <3>4
      <4>2. id # sender
        BY <1>6, <3>4
      <4> QED
        BY <2>1, <4>1, <4>2 DEF NotOvertaken
    <3> QED
      BY <3>3, <3>4
  <2>2. \A r \in open' : r.kind = "share" => NotOvertaken(r.id)'
    <3> SUFFICES ASSUME NEW r \in open, r.kind = "share" PROVE NotOvertaken(r.id)'
      BY <1>1
    <3>1. r.id \in Nat /\ r.id < uid
      BY DEF LineInv, LineShapes, PoolRequests, IdsTell, KnownAs
    <3> QED
      BY <2>1, <3>1 DEF LineInv, TimesFit
  <2>3. \A m \in AnswersIn(Unhandled') : m.value.of = "share" => NotOvertaken(m.value.id)'
    <3> SUFFICES ASSUME NEW m \in AnswersIn(Unhandled), m.value.of = "share"
      PROVE NotOvertaken(m.value.id)'
      BY <1>3
    <3>1. m.value.id \in Nat /\ m.value.id < uid
      BY AnswersHave
    <3> QED
      BY <2>1, <3>1 DEF LineInv, TimesFit
  <2>4. \A s \in 0..(TimingSlots - 1) : timing'[s] # 0 => timing'[s] % TimingSlots = s
            /\ timing'[s] < uid'
    BY <1>1, <1>4, <1>5, <1>6, <1>7 DEF LineInv, TimesFit
  <2> QED
    BY <1>1, <2>2, <2>3, <2>4 DEF TimesFit, LineInv
<1> QED
  BY <1>3, <1>8, <1>9, <1>10, <1>11, <1>12 DEF LineInv

(* A piece of what has arrived is read                                      *)
LEMMA ReadingKeeps == ASSUME LinesAreSound, LineInv, NEW n, Lines!Read(n) PROVE LineInv'
<1>1. CASE Lines!Close("connectionLost")
  BY <1>1, SessionEnds
<1>2. CASE ~Lines!Close("connectionLost")
  <2>1. /\ pc = "read" /\ n \in 1..Len(stream)
        /\ buf' = buf \o SubSeq(stream, 1, n) /\ stream' = SubSeq(stream, n + 1, Len(stream))
        /\ UNCHANGED <<pool, pc, uid, ids, conn, info, work, sender>>
               /\ UNCHANGED <<counts, sessions>>
        /\ UNCHANGED <<open, meant, lines>>
               /\ UNCHANGED <<accepted, rejected, timing, timed, early>>
    BY <1>2, Zenon DEF Lines!Read, Lines!peer, Lines!results
  <2>2. buf \in Seq(WireCells) /\ stream \in Seq(WireCells)
    BY DEF LineInv, LineShapes
  <2>3. buf' \in Seq(WireCells) /\ stream' \in Seq(WireCells) /\ buf' \o stream' = buf \o stream
    BY ONLY <2>1, <2>2, QueueStays
  <2>4. Unhandled' = Unhandled /\ LinesIn(Unhandled') = LinesIn(Unhandled)
        /\ AnswersIn(Unhandled') = AnswersIn(Unhandled) /\ pc # "start" /\ pc' # "start"
    BY <2>1, <2>3 DEF Unhandled
  <2>5. LineShapes'
    BY <2>1, <2>3 DEF LineInv, LineShapes
  <2>6. LinesInOrder'
    BY <2>1, <2>4 DEF LineInv, LinesInOrder
  <2>7. SharesAdd' /\ IdsTell' /\ TimesFit'
    BY <2>1, <2>4, SharesStay, IdsStay, TimesStay DEF LineInv
  <2>8. WorkFollows'
    BY <2>1, <2>4, WorkStays
  <2> QED
    BY <2>5, <2>6, <2>7, <2>8 DEF LineInv
<1> QED
  BY <1>1, <1>2

---------------------------------------------------------------------------
(* A line the pool sends is behind the others                               *)
Sends(l) ==
    /\ l \in WireLines /\ l.no = counts.sent + 1 /\ l.session = sessions
    /\ pc # "start" /\ stream' = stream \o Lines!Cells(l)
    /\ counts' \in Tallies /\ counts'.sent = counts.sent + 1 /\ counts'.handled = counts.handled
    /\ UNCHANGED <<pool, pc, uid, ids, buf, conn>>
    /\ UNCHANGED <<info, work, sender, accepted, rejected, timing, timed, early, sessions>>

(* A line the pool sends is the last one on the way                        *)
LEMMA LineIsSent ==
    ASSUME LinesAreSound, LineInv, NEW l, Sends(l)
    PROVE  /\ stream' \in Seq(WireCells) /\ LinesInOrder'
               /\ LinesIn(Unhandled') = LinesIn(Unhandled) \cup {l}
           /\ \A m \in LinesIn(Unhandled) : m.no \in Nat /\ m.no < l.no
           /\ l.no \in Nat /\ l \notin LinesIn(Unhandled)
<1>1. buf \in Seq(WireCells) /\ stream \in Seq(WireCells) /\ counts.sent \in Nat
          /\ counts.handled \in Nat
      /\ counts.handled <= counts.sent /\ l \in WireLines
      /\ InLine(Unhandled, counts.handled + 1, counts.sent, l.session) /\ l.no = counts.sent + 1
  BY DEF LineInv, LineShapes, LinesInOrder, Tallies, Sends
<1> DEFINE c == Lines!Cells(l)
<1>2. c \in Seq(WireCells)
  BY <1>1, CellsAre
<1>3. Unhandled \in Seq(WireCells)
  BY <1>1, ConcatProperties DEF Unhandled
<1>4. counts.handled + 1 \in Nat /\ counts.handled + 1 <= counts.sent + 1
  BY <1>1
<1>5. /\ Unhandled \o c \in Seq(WireCells)
      /\ InLine(Unhandled \o c, counts.handled + 1, counts.sent + 1, l.session)
      /\ LinesIn(Unhandled \o c) = LinesIn(Unhandled) \cup {l}
  BY <1>1, <1>3, <1>4, LineAppended
<1>6. stream' = stream \o c /\ buf' = buf
  BY DEF Sends
<1> HIDE DEF c
<1>7. stream \o c \in Seq(WireCells)
  BY <1>1, <1>2, ConcatProperties
<1>8. (buf \o stream) \o c = buf \o (stream \o c)
  BY ONLY <1>1, <1>2, CellsAssociate
<1>9. Unhandled' = Unhandled \o c
  BY <1>6, <1>8 DEF Unhandled
<1>10. LinesInOrder'
  <2>1. counts'.sent = counts.sent + 1 /\ counts'.handled = counts.handled /\ pc' # "start"
            /\ sessions' = l.session
    BY DEF Sends
  <2> QED
    BY <1>1, <1>5, <1>9, <2>1 DEF LinesInOrder
<1>11. ASSUME NEW m \in LinesIn(Unhandled) PROVE m.no \in Nat /\ m.no < l.no
  <2>1. PICK i \in 1..Len(Unhandled) : m = Unhandled[i].line
    BY DEF LinesIn
  <2>2. m.no \in Nat /\ m.no \in (counts.handled + 1)..counts.sent
    BY <1>1, <1>3, <2>1, CellIs DEF InLine
  <2> QED
    BY <1>1, <2>2
<1>12. l.no \in Nat /\ l \notin LinesIn(Unhandled)
  BY <1>1, <1>11
<1> QED
  BY <1>5, <1>6, <1>7, <1>9, <1>10, <1>11, <1>12

(* It means what the pool meant when it sent it                            *)
LEMMA WorkSent ==
    ASSUME LinesAreSound, LineInv, NEW l, Sends(l), l.kind = "notify" => l.value = meant,
           \A f \in WantFields : meant'[f] = IF Tells(l, f) THEN ToldBy(l) ELSE meant[f]
    PROVE  WorkFollows'
<1>1. /\ LinesIn(Unhandled') = LinesIn(Unhandled) \cup {l}
      /\ \A m \in LinesIn(Unhandled) : m.no \in Nat /\ m.no < l.no
      /\ l.no \in Nat
  BY LineIsSent
<1>2. l.no = counts.sent + 1 /\ counts'.sent + 1 = l.no + 1 /\ conn' = conn /\ work' = work
          /\ pc # "start"
  BY DEF Sends
<1>3. Follows(LinesIn(Unhandled), conn, meant, l.no)
      /\ \A m \in LinesIn(Unhandled) : m.kind = "notify" =>
             Follows(LinesIn(Unhandled), conn, m.value, m.no)
  BY <1>2 DEF LineInv, WorkFollows
<1> DEFINE all == LinesIn(Unhandled)
<1> HIDE DEF all
<1>4. Follows(all \cup {l}, conn, meant', l.no + 1)
  <2>1. (\A m \in all : m.no \in Nat /\ m.no < l.no) /\ Follows(all, conn, meant, l.no)
    BY <1>1, <1>3 DEF all
  <2> QED
    BY <1>1, <2>1, FollowsAdded
<1>5. ASSUME NEW m \in all \cup {l}, m.kind = "notify"
      PROVE  Follows(all \cup {l}, conn, m.value, m.no)
  <2>1. CASE m \in all
    <3>1. Follows(all, conn, m.value, m.no) /\ m.no \in Nat /\ m.no <= l.no
      BY <1>1, <1>3, <1>5, <2>1 DEF all
    <3> QED
      BY <1>1, <3>1, FollowsBefore
  <2>2. CASE m = l
    <3>1. Follows(all, conn, m.value, m.no) /\ m.no \in Nat /\ m.no <= l.no
      BY <1>1, <1>3, <1>5, <2>2 DEF all
    <3> QED
      BY <1>1, <3>1, FollowsBefore
  <2> QED
    BY <2>1, <2>2
<1> QED
  BY <1>1, <1>2, <1>4, <1>5 DEF all, LineInv, WorkFollows

(* What a line tells is what is meant                                       *)
LEMMA WantsSet ==
    ASSUME NEW m \in Wants
    PROVE  /\ \A x \in Nat : [m EXCEPT !.difficulty = x] \in Wants
                /\ [m EXCEPT !.difficulty = x].difficulty = x
                       /\ [m EXCEPT !.difficulty = x].mask = m.mask
                /\ [m EXCEPT !.difficulty = x].extranonce = m.extranonce
           /\ \A x \in MasksSaid : [m EXCEPT !.mask = x] \in Wants
                /\ [m EXCEPT !.mask = x].mask = x /\ [m EXCEPT !.mask = x].difficulty = m.difficulty
                /\ [m EXCEPT !.mask = x].extranonce = m.extranonce
           /\ \A x \in Nonces : [m EXCEPT !.extranonce = x] \in Wants
                /\ [m EXCEPT !.extranonce = x].extranonce = x
                       /\ [m EXCEPT !.extranonce = x].mask = m.mask
                /\ [m EXCEPT !.extranonce = x].difficulty = m.difficulty
BY DEF Wants

(* The pool says something by itself                                       *)
LEMMA SaysKeeps ==
    ASSUME LinesAreSound, LineInv, NEW kind \in LineKinds \ {"answer"}, NEW said,
           kind = "difficulty" => said \in {0, TopDifficulty}, kind = "mask" => said \in PoolMasks,
           kind = "xnonce" => said \in Nonces, kind \notin {"difficulty", "mask", "xnonce"} =>
             said = NothingSaid,
           Lines!PoolSays(kind, said)
    PROVE  LineInv'
<1>1. /\ Lines!Says(Lines!Line(kind, IF kind = "notify" THEN meant ELSE said))
      /\ meant' = IF kind = "difficulty"
             /\ Lines!InRange(said) THEN [meant EXCEPT !.difficulty = said]
                 ELSE IF kind = "mask" THEN [meant EXCEPT !.mask = said]
                 ELSE IF kind = "xnonce" THEN [meant EXCEPT !.extranonce = said] ELSE meant
      /\ counts' = [counts EXCEPT !.sent = @ + 1] /\ open' = open
  BY Zenon DEF Lines!PoolSays
<1>2. meant \in Wants /\ counts \in Tallies /\ sessions \in Nat /\ open \subseteq PoolRequests
  BY DEF LineInv, LineShapes
<1>3. PICK l : l = Lines!Line(kind, IF kind = "notify" THEN meant ELSE said)
  OBVIOUS
<1>4. l = [session |-> sessions, no |-> counts.sent + 1, kind |-> kind,
           value |-> IF kind = "notify" THEN meant ELSE said]
  BY <1>3 DEF Lines!Line
<1>5. l.session = sessions /\ l.no = counts.sent + 1 /\ l.kind = kind
      /\ l.value = (IF kind = "notify" THEN meant ELSE said)
  BY <1>4
<1>6. l \in WireLines
  <2>1. counts.sent + 1 \in Nat
    BY <1>2 DEF Tallies
  <2>2. (IF kind = "notify" THEN meant ELSE said) \in Wants \cup AnswersSaid \cup Nat
            \cup MasksSaid \cup Nonces
    <3>1. CASE kind = "notify"
      BY <1>2, <3>1
    <3>2. CASE kind = "difficulty"
      BY <3>2 DEF LinesAreSound
    <3>3. CASE kind = "mask"
      BY <3>3 DEF MasksSaid
    <3>4. CASE kind \notin {"notify", "difficulty", "mask"}
      BY <3>4 DEF Nonces
    <3> QED
      BY <3>1, <3>2, <3>3, <3>4
  <2>3. l \in [session : Nat, no : Nat, kind : LineKinds, value : Wants \cup AnswersSaid \cup Nat
            \cup MasksSaid \cup Nonces]
    BY <1>2, <1>4, <2>1, <2>2
  <2> QED
    BY <1>2, <1>5, <2>3 DEF WireLines
<1>7. Sends(l)
  <2>1. Lines!Says(l)
    BY <1>1, <1>3
  <2>2. pc # "start" /\ stream' = stream \o Lines!Cells(l)
            /\ UNCHANGED <<pool, pc, uid, ids, buf, conn>>
        /\ UNCHANGED <<info, work, sender>>
               /\ UNCHANGED <<accepted, rejected, timing, timed, early>> /\ sessions' = sessions
    BY <2>1, Zenon DEF Lines!Says, Lines!connection, Lines!results
  <2>3. counts' \in Tallies /\ counts'.sent = counts.sent + 1 /\ counts'.handled = counts.handled
    BY <1>1, <1>2, TalliesAre, Zenon
  <2> QED
    BY <1>5, <1>6, <2>2, <2>3 DEF Sends
<1>8. /\ stream' \in Seq(WireCells) /\ LinesInOrder'
             /\ LinesIn(Unhandled') = LinesIn(Unhandled) \cup {l}
  BY <1>7, LineIsSent
<1>9. AnswersIn(Unhandled') = AnswersIn(Unhandled)
  BY <1>5, <1>8 DEF AnswersIn
<1>10. /\ counts' \in Tallies /\ UNCHANGED <<pool, pc, uid, ids, buf, conn>>
       /\ UNCHANGED <<info, work, sender, accepted, rejected, timing, timed, early, sessions>>
       /\ counts'.accepted = counts.accepted /\ counts'.rejected = counts.rejected
  BY <1>1, <1>2, <1>7, TalliesAre, Zenon DEF Sends
<1>11. meant' \in Wants
           /\ \A f \in WantFields : meant'[f] = IF Tells(l, f) THEN ToldBy(l) ELSE meant[f]
  <2>1. ToldBy(l) = l.value
    BY <1>5 DEF ToldBy
  <2>2. CASE kind = "difficulty"
    <3>1. said \in Nat /\ (Lines!InRange(said) <=> said # 0)
      BY <2>2 DEF Lines!InRange, LinesAreSound
    <3>2. CASE said # 0
      BY <1>1, <1>2, <1>5, <2>1, <2>2, <3>1, <3>2, WantsSet DEF Tells, WantFields
    <3>3. CASE said = 0
      BY <1>1, <1>2, <1>5, <2>1, <2>2, <3>1, <3>3 DEF Tells, WantFields
    <3> QED
      BY <3>2, <3>3
  <2>3. CASE kind = "mask"
    <3>1. said \in MasksSaid
      BY <2>3 DEF MasksSaid
    <3> QED
      BY <1>1, <1>2, <1>5, <2>1, <2>3, <3>1, WantsSet DEF Tells, WantFields
  <2>4. CASE kind = "xnonce"
    BY <1>1, <1>2, <1>5, <2>1, <2>4, WantsSet DEF Tells, WantFields
  <2>5. CASE kind \notin {"difficulty", "mask", "xnonce"}
    BY <1>1, <1>2, <1>5, <2>5 DEF Tells, WantFields
  <2> QED
    BY <2>2, <2>3, <2>4, <2>5
<1>12. LineShapes'
  BY <1>1, <1>2, <1>8, <1>10, <1>11 DEF LineInv, LineShapes
<1>13. SharesAdd' /\ IdsTell' /\ TimesFit'
  BY <1>1, <1>9, <1>10, SharesStay, IdsStay, TimesStay DEF LineInv
<1>14. WorkFollows'
  BY <1>5, <1>7, <1>11, WorkSent
<1> QED
  BY <1>8, <1>12, <1>13, <1>14 DEF LineInv

(* What is left of the tallies when the pool decides on a share            *)
LEMMA TalliesSent ==
    ASSUME NEW c \in [accepted : Nat, rejected : Nat, sent : Nat, handled : Nat],
           NEW d, d = [c EXCEPT !.sent = @ + 1, !.accepted = @ + 1],
           NEW e, e = [c EXCEPT !.sent = @ + 1, !.rejected = @ + 1]
    PROVE  /\ d = [accepted |-> c.accepted + 1,
               rejected |-> c.rejected, sent |-> c.sent + 1, handled |-> c.handled]
           /\ e = [accepted |-> c.accepted,
                  rejected |-> c.rejected + 1, sent |-> c.sent + 1, handled |-> c.handled]
OBVIOUS

(* A decision is tallied if it is on a share                                *)
LEMMA DecidedIs ==
    ASSUME counts \in Tallies, NEW r, NEW ok \in BOOLEAN, counts' = Lines!Decided(r, ok)
    PROVE  /\ counts' \in Tallies /\ counts'.sent = counts.sent + 1
               /\ counts'.handled = counts.handled
           /\ counts'.accepted = counts.accepted + (IF r.kind = "share" /\ ok THEN 1 ELSE 0)
           /\ counts'.rejected = counts.rejected + (IF r.kind = "share" /\ ~ok THEN 1 ELSE 0)
<1>1. counts \in [accepted : Nat, rejected : Nat, sent : Nat, handled : Nat]
      /\ counts.accepted \in Nat /\ counts.rejected \in Nat /\ counts.sent \in Nat
             /\ counts.handled \in Nat
  BY DEF Tallies
<1>2. CASE r.kind # "share"
  <2>1. counts' = [counts EXCEPT !.sent = @ + 1]
    BY <1>2 DEF Lines!Decided
  <2>2. counts' = [accepted |-> counts.accepted,
            rejected |-> counts.rejected, sent |-> counts.sent + 1, handled |-> counts.handled]
    BY <1>1, <2>1
  <2>3. counts' \in Tallies /\ counts'.sent = counts.sent + 1 /\ counts'.handled = counts.handled
        /\ counts'.accepted = counts.accepted /\ counts'.rejected = counts.rejected
    BY ONLY <1>1, <2>2 DEF Tallies
  <2>4. (IF r.kind = "share" /\ ok THEN 1 ELSE 0) = 0 /\ (IF r.kind = "share"
            /\ ~ok THEN 1 ELSE 0) = 0
    BY <1>2, Zenon
  <2> QED
    BY ONLY <1>1, <2>3, <2>4
<1>3. CASE r.kind = "share" /\ ok
  <2>1. counts' = [counts EXCEPT !.sent = @ + 1, !.accepted = @ + 1]
    BY <1>3, Zenon DEF Lines!Decided
  <2>2. counts' = [accepted |-> counts.accepted + 1,
            rejected |-> counts.rejected, sent |-> counts.sent + 1, handled |-> counts.handled]
    BY ONLY <1>1, <2>1, TalliesSent, Zenon
  <2>3. counts' \in Tallies /\ counts'.sent = counts.sent + 1 /\ counts'.handled = counts.handled
        /\ counts'.accepted = counts.accepted + 1 /\ counts'.rejected = counts.rejected
    BY ONLY <1>1, <2>2 DEF Tallies
  <2>4. (IF r.kind = "share" /\ ok THEN 1 ELSE 0) = 1 /\ (IF r.kind = "share"
            /\ ~ok THEN 1 ELSE 0) = 0
    BY <1>3, Zenon
  <2> QED
    BY ONLY <1>1, <2>3, <2>4
<1>4. CASE r.kind = "share" /\ ~ok
  <2>1. counts' = [counts EXCEPT !.sent = @ + 1, !.rejected = @ + 1]
    BY <1>4, Zenon DEF Lines!Decided
  <2>2. counts' = [accepted |-> counts.accepted,
            rejected |-> counts.rejected + 1, sent |-> counts.sent + 1, handled |-> counts.handled]
    BY ONLY <1>1, <2>1, TalliesSent, Zenon
  <2>3. counts' \in Tallies /\ counts'.sent = counts.sent + 1 /\ counts'.handled = counts.handled
        /\ counts'.accepted = counts.accepted /\ counts'.rejected = counts.rejected + 1
    BY ONLY <1>1, <2>2 DEF Tallies
  <2>4. (IF r.kind = "share" /\ ok THEN 1 ELSE 0) = 0 /\ (IF r.kind = "share"
            /\ ~ok THEN 1 ELSE 0) = 1
    BY <1>4, Zenon
  <2> QED
    BY ONLY <1>1, <2>3, <2>4
<1> QED
  BY <1>2, <1>3, <1>4

(* An answer says what was asked, and what it agrees to                     *)
LEMMA AnswersAre ==
    ASSUME LinesAreSound, LineInv, NEW r \in open, NEW ok \in BOOLEAN, Lines!PoolAnswers(r, ok)
    PROVE  \E l : /\ Sends(l) /\ l.kind = "answer" /\ open' = open \ {r}
                  /\ l.value.id = r.id /\ l.value.of = r.kind /\ l.value.ok = ok
                  /\ meant' \in Wants
                  /\ \A f \in WantFields : meant'[f] = IF Tells(l, f) THEN ToldBy(l) ELSE meant[f]
                  /\ counts'.accepted = counts.accepted + (IF r.kind = "share" /\ ok THEN 1 ELSE 0)
                  /\ counts'.rejected = counts.rejected + (IF r.kind = "share" /\ ~ok THEN 1 ELSE 0)
<1>1. open' = open \ {r} /\ counts' = Lines!Decided(r, ok)
  BY Zenon DEF Lines!PoolAnswers
<1>2. PICK said \in IF r.kind = "configure" /\ ok THEN PoolMasks
                   ELSE IF r.kind = "subscribe" /\ ok THEN {"a"} ELSE {NothingSaid} :
        /\ Lines!Says(Lines!Answer(r, ok, said))
        /\ meant' = IF r.kind = "configure" /\ ok THEN [meant EXCEPT !.mask = said]
                    ELSE IF r.kind = "subscribe" /\ ok THEN [meant EXCEPT !.extranonce = said]
                    ELSE meant
  BY Zenon DEF Lines!PoolAnswers
<1>3. meant \in Wants /\ counts \in Tallies /\ sessions \in Nat /\ r \in PoolRequests
  BY DEF LineInv, LineShapes
<1>4. PICK l : l = Lines!Answer(r, ok, said)
  OBVIOUS
<1> DEFINE a == [id |-> r.id, of |-> r.kind, ok |-> ok, value |-> said]
<1>5. l = [session |-> sessions, no |-> counts.sent + 1, kind |-> "answer", value |-> a]
  BY <1>4 DEF Lines!Line, Lines!Answer
<1>6. (r.kind = "configure" /\ ok => said \in MasksSaid) /\ (r.kind = "subscribe"
          /\ ok => said = "a" /\ said \in Nonces)
      /\ said \in MasksSaid \cup Nonces
  BY <1>2 DEF MasksSaid, Nonces
<1>7. a \in AnswersSaid /\ a.id = r.id /\ a.of = r.kind /\ a.ok = ok /\ a.value = said
  BY <1>3, <1>6 DEF AnswersSaid, PoolRequests
<1> HIDE DEF a
<1>8. l \in WireLines /\ l.session = sessions /\ l.no = counts.sent + 1 /\ l.kind = "answer"
          /\ l.value = a
  <2>1. counts.sent + 1 \in Nat
    BY <1>3 DEF Tallies
  <2>2. l \in [session : Nat, no : Nat, kind : LineKinds, value : Wants \cup AnswersSaid \cup Nat
            \cup MasksSaid \cup Nonces]
    BY <1>3, <1>5, <1>7, <2>1 DEF LineKinds
  <2> QED
    BY <1>5, <1>7, <2>2 DEF WireLines
<1>9. /\ counts' \in Tallies /\ counts'.sent = counts.sent + 1 /\ counts'.handled = counts.handled
      /\ counts'.accepted = counts.accepted + (IF r.kind = "share" /\ ok THEN 1 ELSE 0)
      /\ counts'.rejected = counts.rejected + (IF r.kind = "share" /\ ~ok THEN 1 ELSE 0)
  BY <1>1, <1>3, DecidedIs
<1>10. Sends(l)
  <2>1. Lines!Says(l)
    BY <1>2, <1>4
  <2>2. pc # "start" /\ stream' = stream \o Lines!Cells(l)
            /\ UNCHANGED <<pool, pc, uid, ids, buf, conn>>
        /\ UNCHANGED <<info, work, sender>>
               /\ UNCHANGED <<accepted, rejected, timing, timed, early>> /\ sessions' = sessions
    BY <2>1, Zenon DEF Lines!Says, Lines!connection, Lines!results
  <2> QED
    BY <1>8, <1>9, <2>2 DEF Sends
<1>11. ToldBy(l) = said
  BY <1>7, <1>8 DEF ToldBy
<1>12. meant' \in Wants
           /\ \A f \in WantFields : meant'[f] = IF Tells(l, f) THEN ToldBy(l) ELSE meant[f]
  <2>1. CASE r.kind = "configure" /\ ok
    <3>1. meant' = [meant EXCEPT !.mask = said] /\ said \in MasksSaid
      BY <1>2, <1>6, <2>1
    <3>2. meant' \in Wants /\ meant'.mask = said /\ meant'.difficulty = meant.difficulty
          /\ meant'.extranonce = meant.extranonce
      BY <1>3, <3>1, WantsSet
    <3>3. l.kind = "answer" /\ l.value.of = "configure" /\ l.value.ok
      BY <1>7, <1>8, <2>1
    <3> QED
      BY <1>11, <3>2, <3>3 DEF Tells, WantFields
  <2>2. CASE r.kind = "subscribe" /\ ok
    <3>1. meant' = [meant EXCEPT !.extranonce = said] /\ said \in Nonces
      BY <1>2, <1>6, <2>2
    <3>2. meant' \in Wants /\ meant'.extranonce = said /\ meant'.difficulty = meant.difficulty
          /\ meant'.mask = meant.mask
      BY <1>3, <3>1, WantsSet
    <3>3. l.kind = "answer" /\ l.value.of = "subscribe" /\ l.value.ok
      BY <1>7, <1>8, <2>2
    <3> QED
      BY <1>11, <3>2, <3>3 DEF Tells, WantFields
  <2>3. CASE ~(r.kind \in {"configure", "subscribe"} /\ ok)
    BY <1>2, <1>3, <1>7, <1>8, <2>3 DEF Tells, WantFields
  <2> QED
    BY <2>1, <2>2, <2>3
<1> QED
  BY <1>1, <1>7, <1>8, <1>9, <1>10, <1>12

(* A decision on the way is one that will be counted                       *)
LEMMA DecisionsAdd ==
    ASSUME LinesAreSound, LineInv, NEW l, Sends(l), l.kind = "answer", l.value.ok \in BOOLEAN,
           counts'.accepted = counts.accepted + (IF l.value.of = "share"
             /\ l.value.ok THEN 1 ELSE 0),
           counts'.rejected = counts.rejected + (IF l.value.of = "share"
             /\ ~l.value.ok THEN 1 ELSE 0)
    PROVE  SharesAdd'
<1>1. l \notin LinesIn(Unhandled) /\ LinesIn(Unhandled') = LinesIn(Unhandled) \cup {l}
          /\ pc # "start"
      /\ accepted' = accepted /\ rejected' = rejected
  BY LineIsSent DEF Sends
<1>2. AnswersIn(Unhandled') = AnswersIn(Unhandled) \cup {l} /\ l \notin AnswersIn(Unhandled)
  BY <1>1 DEF AnswersIn
<1>3. /\ IsFiniteSet(SharesTaken(Unhandled)) /\ Cardinality(SharesTaken(Unhandled)) \in Nat
      /\ IsFiniteSet(SharesRefused(Unhandled)) /\ Cardinality(SharesRefused(Unhandled)) \in Nat
  BY <1>1, SharesAreFinite
<1>4. accepted \in Nat /\ rejected \in Nat
          /\ accepted + Cardinality(SharesTaken(Unhandled)) = counts.accepted
      /\ rejected + Cardinality(SharesRefused(Unhandled)) = counts.rejected
  BY DEF LineInv, LineShapes, SharesAdd
<1>5. CASE l.value.of = "share" /\ l.value.ok
  <2>1. SharesTaken(Unhandled') = SharesTaken(Unhandled) \cup {l} /\ l \notin SharesTaken(Unhandled)
        /\ SharesRefused(Unhandled') = SharesRefused(Unhandled)
    BY <1>2, <1>5 DEF SharesTaken, SharesRefused
  <2>2. Cardinality(SharesTaken(Unhandled')) = Cardinality(SharesTaken(Unhandled)) + 1
    BY <1>3, <2>1, FS_AddElement
  <2> QED
    BY <1>1, <1>3, <1>4, <1>5, <2>1, <2>2 DEF SharesAdd
<1>6. CASE l.value.of = "share" /\ ~l.value.ok
  <2>1. SharesRefused(Unhandled') = SharesRefused(Unhandled) \cup {l}
            /\ l \notin SharesRefused(Unhandled)
        /\ SharesTaken(Unhandled') = SharesTaken(Unhandled)
    BY <1>2, <1>6 DEF SharesTaken, SharesRefused
  <2>2. Cardinality(SharesRefused(Unhandled')) = Cardinality(SharesRefused(Unhandled)) + 1
    BY <1>3, <2>1, FS_AddElement
  <2> QED
    BY <1>1, <1>3, <1>4, <1>6, <2>1, <2>2 DEF SharesAdd
<1>7. CASE l.value.of # "share"
  <2>1. SharesTaken(Unhandled') = SharesTaken(Unhandled)
            /\ SharesRefused(Unhandled') = SharesRefused(Unhandled)
    BY <1>2, <1>7 DEF SharesTaken, SharesRefused
  <2> QED
    BY <1>1, <1>3, <1>4, <1>7, <2>1 DEF SharesAdd
<1> QED
  BY <1>5, <1>6, <1>7

(* The pool answers a request                                              *)
LEMMA PoolAnswersKeeps ==
    ASSUME LinesAreSound, LineInv, NEW r \in open, NEW ok \in BOOLEAN, Lines!PoolAnswers(r, ok)
    PROVE  LineInv'
<1>1. PICK l : /\ Sends(l) /\ l.kind = "answer" /\ open' = open \ {r}
               /\ l.value.id = r.id /\ l.value.of = r.kind /\ l.value.ok = ok
               /\ meant' \in Wants
               /\ \A f \in WantFields : meant'[f] = IF Tells(l, f) THEN ToldBy(l) ELSE meant[f]
               /\ counts'.accepted = counts.accepted + (IF r.kind = "share" /\ ok THEN 1 ELSE 0)
               /\ counts'.rejected = counts.rejected + (IF r.kind = "share" /\ ~ok THEN 1 ELSE 0)
  BY AnswersAre
<1>2. /\ stream' \in Seq(WireCells) /\ LinesInOrder'
             /\ LinesIn(Unhandled') = LinesIn(Unhandled) \cup {l}
  BY <1>1, LineIsSent
<1>3. AnswersIn(Unhandled') = AnswersIn(Unhandled) \cup {l}
  BY <1>1, <1>2 DEF AnswersIn
<1>4. /\ counts' \in Tallies /\ UNCHANGED <<pool, pc, uid, ids, buf, conn>>
      /\ UNCHANGED <<info, work, sender, accepted, rejected, timing, timed, early, sessions>>
  BY <1>1 DEF Sends
<1>5. LineShapes'
  <2>1. open' \subseteq PoolRequests
    BY <1>1 DEF LineInv, LineShapes
  <2> QED
    BY <1>1, <1>2, <1>4, <2>1 DEF LineInv, LineShapes
<1>6. SharesAdd'
  BY <1>1, DecisionsAdd
<1>7. \A id, of : KnownAs(id, of)' = KnownAs(id, of)
  BY <1>4 DEF KnownAs
<1>8. /\ KnownAs(r.id, r.kind) /\ \A p \in open : p.id = r.id => p = r
      /\ \A m \in AnswersIn(Unhandled) : r.id # m.value.id
  BY DEF LineInv, IdsTell
<1>9. IdsTell'
  <2>1. \A q \in open' : KnownAs(q.id, q.kind)' /\ \A p \in open' : p.id = q.id => p = q
    BY <1>1, <1>7 DEF LineInv, IdsTell
  <2>2. ASSUME NEW m \in AnswersIn(Unhandled')
        PROVE  /\ KnownAs(m.value.id, m.value.of)'
               /\ \A q \in open' : q.id # m.value.id
               /\ \A n \in AnswersIn(Unhandled') : n.value.id = m.value.id => n = m
    <3>1. CASE m = l
      BY <1>1, <1>3, <1>7, <1>8, <3>1
    <3>2. CASE m \in AnswersIn(Unhandled)
      <4>1. /\ KnownAs(m.value.id, m.value.of)
            /\ \A q \in open : q.id # m.value.id
            /\ \A n \in AnswersIn(Unhandled) : n.value.id = m.value.id => n = m
        BY <3>2 DEF LineInv, IdsTell
      <4> QED
        BY <1>1, <1>3, <1>7, <1>8, <3>2, <4>1
    <3> QED
      BY <1>3, <3>1, <3>2
  <2>3. Told("authorize")' => Told("authorize")
    <3> SUFFICES ASSUME Told("authorize")' PROVE Told("authorize")
      OBVIOUS
    <3>1. CASE \E q \in open' : q.kind = "authorize"
      BY <1>1, <3>1 DEF Told
    <3>2. CASE \E m \in AnswersIn(Unhandled') : m.value.of = "authorize"
      BY <1>1, <1>3, <3>2 DEF Told
    <3> QED
      BY <3>1, <3>2 DEF Told
  <2> QED
    BY <1>4, <2>1, <2>2, <2>3 DEF LineInv, IdsTell
<1>10. TimesFit'
  <2>1. \A id : NotOvertaken(id)' = NotOvertaken(id)
    BY <1>4 DEF NotOvertaken
  <2>2. \A q \in open' : q.kind = "share" => NotOvertaken(q.id)'
    BY <1>1, <2>1 DEF LineInv, TimesFit
  <2>3. \A m \in AnswersIn(Unhandled') : m.value.of = "share" => NotOvertaken(m.value.id)'
    BY <1>1, <1>3, <2>1 DEF LineInv, TimesFit
  <2> QED
    BY <1>4, <2>2, <2>3 DEF LineInv, TimesFit
<1>11. WorkFollows'
  BY <1>1, WorkSent
<1> QED
  BY <1>2, <1>5, <1>6, <1>9, <1>10, <1>11 DEF LineInv

(* Every step keeps it                                                      *)
LEMMA LinesKeep == ASSUME LinesAreSound PROVE LineInv /\ [Lines!Next]_(Lines!vars) => LineInv'
<1> SUFFICES ASSUME LineInv, [Lines!Next]_(Lines!vars) PROVE LineInv'
  OBVIOUS
<1>1. CASE UNCHANGED Lines!vars
  <2>1. /\ UNCHANGED <<pool, pc, uid, ids, buf, conn, info, work, sender>>
               /\ UNCHANGED <<stream, counts, sessions>>
        /\ UNCHANGED <<open, meant, lines>>
               /\ UNCHANGED <<accepted, rejected, timing, timed, early>>
    BY <1>1, Zenon DEF Lines!vars, Lines!connection, Lines!peer, Lines!results
  <2>2. Unhandled' = Unhandled /\ LinesIn(Unhandled') = LinesIn(Unhandled)
        /\ AnswersIn(Unhandled') = AnswersIn(Unhandled)
    BY <2>1 DEF Unhandled
  <2>3. LineShapes'
    BY <2>1 DEF LineInv, LineShapes
  <2>4. LinesInOrder'
    BY <2>1, <2>2 DEF LineInv, LinesInOrder, AtRest
  <2>5. SharesAdd' /\ IdsTell' /\ TimesFit'
    BY <2>1, <2>2, SharesStay, IdsStay, TimesStay DEF LineInv
  <2>6. WorkFollows'
    BY <2>1, <2>2 DEF LineInv, WorkFollows
  <2> QED
    BY <2>3, <2>4, <2>5, <2>6 DEF LineInv
<1>2. CASE \E tls \in {"disabled",
          "bundle", "custom"}, cert, connects \in BOOLEAN : Lines!Start(tls, cert, connects)
  BY <1>2, SessionBegins
<1>3. CASE \E n \in 1..PieceSize : Lines!Read(n)
  BY <1>3, ReadingKeeps
<1>4. CASE Lines!Notify \/ Lines!SetUp \/ Lines!Reconnect \/ Lines!HandleAnswer
  BY <1>4, NotifyKeeps, LineSetUpKeeps, ReconnectKeeps, LineAnswerKeeps
<1>5. CASE Lines!SuggestDifficulty \/ Lines!SubscribeExtranonce
  BY <1>5, LineRequestKeeps, Zenon DEF Lines!SuggestDifficulty, Lines!SubscribeExtranonce
<1>6. CASE Lines!Submit \/ Lines!SubmitFails \/ Lines!Record
  BY <1>6, LineSubmitKeeps, LineRecordKeeps
<1>7. CASE \E r \in open, ok \in BOOLEAN : Lines!PoolAnswers(r, ok)
  BY <1>7, PoolAnswersKeeps
<1>8. CASE \E kind \in {"notify",
          "ping", "junk", "long", "nul", "reconnect"} : Lines!PoolSays(kind, NothingSaid)
  BY <1>8, SaysKeeps DEF LineKinds
<1>9. CASE \E d \in {0, TopDifficulty} : Lines!PoolSays("difficulty", d)
  BY <1>9, SaysKeeps DEF LineKinds
<1>10. CASE \E m \in PoolMasks : Lines!PoolSays("mask", m)
  BY <1>10, SaysKeeps DEF LineKinds
<1>11. CASE Lines!PoolSays("xnonce", "b")
  BY <1>11, SaysKeeps DEF LineKinds, Nonces
<1>12. CASE Lines!PoolCloses \/ Lines!Reconnected
  BY <1>12, SessionEnds DEF Lines!PoolCloses, Lines!Reconnected
<1>13. Lines!Next \/ UNCHANGED Lines!vars
  BY Zenon
<1>14. CASE Lines!Next
  BY <1>2,
    <1>3, <1>4, <1>5, <1>6, <1>7, <1>8, <1>9, <1>10, <1>11, <1>12, <1>14, Zenon DEF Lines!Next
<1> QED
  BY <1>1, <1>13, <1>14

(* What is on the way                                                       *)
LEMMA ComingIs ==
    ASSUME LineInv
    PROVE  Lines!Coming(TRUE) = Cardinality(SharesTaken(Unhandled))
           /\ Lines!Coming(FALSE) = Cardinality(SharesRefused(Unhandled))
<1>1. Unhandled \in Seq(WireCells)
  BY ConcatProperties DEF LineInv, LineShapes, Unhandled
<1>2. \E low, high \in Nat : \E during : InLine(Unhandled, low, high, during)
  <2>1. CASE pc = "start"
    <3>1. Unhandled = <<>> \o <<>>
      BY <2>1 DEF LineInv, LinesInOrder, AtRest, Unhandled
    <3> QED
      BY <3>1, NothingWaits
  <2>2. CASE pc # "start"
    <3>1. InLine(Unhandled, counts.handled + 1, counts.sent, sessions)
          /\ counts.handled + 1 \in Nat /\ counts.sent \in Nat
      BY <2>2 DEF LineInv, LinesInOrder, LineShapes, Tallies
    <3> QED
      BY <3>1
  <2> QED
    BY <2>1, <2>2
<1>3. PICK low \in Nat, high \in Nat : \E during : InLine(Unhandled, low, high, during)
  BY <1>2
<1>4. PICK during : InLine(Unhandled, low, high, during)
  BY <1>3
<1>5. \A ok \in BOOLEAN : Lines!Coming(ok) = Cardinality(ShareAnswers(Unhandled, ok))
  <2> SUFFICES ASSUME NEW ok \in BOOLEAN
    PROVE Lines!Coming(ok) = Cardinality(ShareAnswers(Unhandled, ok))
    OBVIOUS
  <2>1. Cardinality({k \in DOMAIN Unhandled :
                  Unhandled[k].ends /\ Unhandled[k].line.kind = "answer"
                  /\ Unhandled[k].line.value.of = "share" /\ Unhandled[k].line.value.ok = ok})
          = Cardinality(ShareAnswers(Unhandled, ok))
    BY <1>1, <1>4, SharesAreCounted
  <2>2. Lines!Coming(ok) = Cardinality({k \in DOMAIN (buf \o stream) :
                  (buf \o stream)[k].ends /\ (buf \o stream)[k].line.kind = "answer"
                  /\ (buf \o stream)[k].line.value.of = "share"
                         /\ (buf \o stream)[k].line.value.ok = ok})
    BY Zenon DEF Lines!Coming, Lines!Cardinality, Cardinality
  <2>3. Unhandled = buf \o stream
    BY DEF Unhandled
  <2> QED
    BY <2>1, <2>2, <2>3, Zenon
<1>6. ShareAnswers(Unhandled, TRUE) = SharesTaken(Unhandled)
          /\ ShareAnswers(Unhandled, FALSE) = SharesRefused(Unhandled)
  BY <1>1, SharesAre
<1> QED
  BY <1>5, <1>6, Zenon

(* What the invariant says of a state                                      *)
LEMMA LinesAreUnderstood == ASSUME LinesAreSound, LineInv PROVE Lines!PoolIsUnderstood
<1>1. counts.handled >= 0
  BY DEF LineInv, LineShapes, Tallies
<1>2. work # NothingSaid => work.given = [work.meant EXCEPT !.mask = Lines!Masked(@)]
  BY DEF LineInv, WorkFollows, Lines!Masked
<1>3. accepted + Lines!Coming(TRUE) = counts.accepted
          /\ rejected + Lines!Coming(FALSE) = counts.rejected
  BY ComingIs, Zenon DEF LineInv, SharesAdd
<1>4. timed # NothingSaid /\ ~early => timed.of = timed.id \/ timed.of >= timed.id + TimingSlots
  BY DEF LineInv, TimesFit
<1>5. info = "authRejected" => ids["authorize"] # 0
  BY DEF LineInv, IdsTell
<1> QED
  BY <1>1, <1>2, <1>3, <1>4, <1>5, Zenon DEF Lines!PoolIsUnderstood

(* A Stratum V1 session stays in its types: requests, ids and counters, the *)
(* cells of the lines on the way, and what they may say.                    *)
THEOREM LineTypes ==
    ASSUME LinesAreSound
    PROVE  PartsSpec => [](part = "lines" => LineShapes)
<1> DEFINE P == part = "lines" => LineInv
<1>1. PartsInit => P
  BY Zenon, LinesBegin DEF PartsInit
<1>2. P /\ [PartsNext]_partsVars => P'
  BY Zenon, LinesKeep DEF PartsNext, partsVars
<1>3. P => (part = "lines" => LineShapes)
  BY Zenon DEF LineInv
<1> QED
  BY <1>1, <1>2, <1>3, PTL DEF PartsSpec

(* The lines of a pool are handled one after the other as they were sent,   *)
(* in whatever pieces they arrive; a job is mined with what the pool wanted *)
(* when it announced it; the pool's decisions on shares are counted, and    *)
(* nothing else; and the time of an answer is its share's, unless as many   *)
(* are under way as there are slots: for any size of a line, of a piece and *)
(* of the table of times, and any number of lines, shares and sessions.     *)
THEOREM PoolIsUnderstoodAlways ==
    ASSUME LinesAreSound
    PROVE  PartsSpec => []PoolIsUnderstood
<1> DEFINE P == part = "lines" => LineInv
<1>1. PartsInit => P
  BY Zenon, LinesBegin DEF PartsInit
<1>2. P /\ [PartsNext]_partsVars => P'
  BY Zenon, LinesKeep DEF PartsNext, partsVars
<1>3. P => PoolIsUnderstood
  BY Zenon, LinesAreUnderstood DEF PoolIsUnderstood
<1> QED
  BY <1>1, <1>2, <1>3, PTL DEF PartsSpec
=============================================================================

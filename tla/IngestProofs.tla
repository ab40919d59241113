----------------------------- MODULE IngestProofs -----------------------------
(***************************************************************************)
(* Proofs about ingest requests, for any number of tokens, requests and    *)
(* ticks, and any payloads and answers:                                    *)
(*   - no token lets more requests pass than its budget.  The argument is  *)
(*     a potential: what passed since a tick, and what could pass at once, *)
(*     never exceed the burst and what was earned since.  It rests on a    *)
(*     token keeping its limiter, and on limiters not being shared;        *)
(*   - the entries are faithful to their payloads.  The loops of the       *)
(*     parsers are functions on 0..Len; what they compute follows by       *)
(*     induction on how far they came (UpTo and LoopValues, LeastNumber);  *)
(*   - the charts are faithful to the alert and to the answer.  The place  *)
(*     of a series is the number of series with a smaller label.           *)
(***************************************************************************)
EXTENDS IngestProperties, LeastNumber, FunctionTheorems

\* What a token could let pass at once: a bucket that is not made yet is full.
Level(name) == IF limiterOf[name] = 0 THEN Capacity ELSE buckets[limiterOf[name]]

RequestType == {NoRequest} \cup [pc : {"limit", "allow", "parse"}, name : Names, bucket : Nat]

LimiterType ==
  /\ buckets \in Seq(Int)
  /\ limiterOf \in [Names -> Nat]
  /\ now \in 0..MaxTime
  /\ passed \in [Names -> Nat]
  /\ ledger \in [Names -> [0..MaxTime -> Nat]]
  /\ request \in [Requests -> RequestType]

\* Every name has a bucket of its own, or none yet.
OwnBuckets ==
  /\ \A name \in Names : limiterOf[name] <= Len(buckets)
  /\ \A m, n \in Names : limiterOf[m] = limiterOf[n] /\ limiterOf[m] # 0 => m = n

\* A request that holds a bucket holds that of its token.
HeldBuckets ==
  \A r \in Requests : request[r].pc = "allow" =>
    request[r].bucket = limiterOf[request[r].name] /\ request[r].bucket # 0

LevelsFit == \A name \in Names : Level(name) \in 0..Capacity

Earned(t) == PerTick * (now - t)

Budget ==
  \A name \in Names, t \in 0..now :
    passed[name] - ledger[name][t] + Level(name) <= Capacity + Earned(t)

BudgetInv == LimiterType /\ OwnBuckets /\ HeldBuckets /\ (Limited => LevelsFit /\ Budget)

USE RateAssumption DEF RateAssumption

LEMMA CapacityPositive == Capacity \in Nat /\ Capacity >= 1
BY DEF Capacity

\* A tick earns PerTick more, and nothing is earned within one.
LEMMA TickEarns ==
  ASSUME now \in Nat, NEW t \in Nat
  PROVE  /\ PerTick * ((now + 1) - t) = Earned(t) + PerTick
         /\ Earned(t) \in Int
         /\ PerTick * ((now + 1) - (now + 1)) = 0
         /\ Earned(now) = 0
BY DEF Earned

LEMMA InitBudgetInv == Init => BudgetInv
<1> SUFFICES ASSUME Init PROVE BudgetInv
  OBVIOUS
<1> USE DEF Init, LimiterInit
<1>1. LimiterType
  BY DEF LimiterType, RequestType
<1>2. OwnBuckets /\ HeldBuckets
  BY DEF OwnBuckets, HeldBuckets, NoRequest
<1>3. LevelsFit
  <2> SUFFICES ASSUME NEW name \in Names PROVE Level(name) \in 0..Capacity
    BY DEF LevelsFit
  <2>1. Level(name) = Capacity
    BY DEF Level
  <2> QED BY <2>1, CapacityPositive
<1>4. Budget
  <2> SUFFICES ASSUME NEW name \in Names, NEW t \in 0..now
               PROVE  passed[name] - ledger[name][t] + Level(name) <= Capacity + Earned(t)
    BY DEF Budget
  <2>1. t = now /\ now \in Nat
    OBVIOUS
  <2>2. Earned(t) = 0
    BY <2>1, TickEarns
  <2> QED BY <2>2, CapacityPositive DEF Level
<1> QED BY <1>1, <1>2, <1>3, <1>4 DEF BudgetInv

\* A step that leaves the limiters alone, and gives a handler no bucket.
LEMMA LimiterUntouched ==
  ASSUME BudgetInv, UNCHANGED limiter, request' \in [Requests -> RequestType],
         \A r \in Requests : request'[r].pc = "allow" => request'[r] = request[r]
  PROVE  BudgetInv'
<1> USE DEF BudgetInv, limiter
<1>1. LimiterType'
  BY DEF LimiterType
<1>2. OwnBuckets' /\ HeldBuckets'
  BY DEF OwnBuckets, HeldBuckets
<1>3. Limited => LevelsFit' /\ Budget'
  BY DEF LevelsFit, Budget, Level, Earned
<1> QED BY <1>1, <1>2, <1>3 DEF Limited

LEMMA AskLimiterBudgetInv ==
  ASSUME BudgetInv, NEW r \in Requests, AskLimiter(r)
  PROVE  BudgetInv'
<1> DEFINE name == request[r].name
<1> USE DEF BudgetInv
<1>1. name \in Names
  BY DEF AskLimiter, At, LimiterType, RequestType, NoRequest
<1>2. /\ UNCHANGED <<now, passed, ledger>>
      /\ request' = [request EXCEPT ![r] =
           [pc |-> "allow", name |-> name, bucket |-> limiterOf'[name]]]
  BY DEF AskLimiter, FindLimiter, Goto
<1>3. CASE HasLimiter(name)
  <2>1. UNCHANGED <<buckets, limiterOf>>
    BY <1>3 DEF AskLimiter, FindLimiter
  <2>2. limiterOf[name] \in Nat /\ limiterOf[name] # 0
    BY <1>1, <1>3 DEF HasLimiter, LimiterType
  <2>3. LimiterType'
    BY <1>1, <1>2, <2>1, <2>2 DEF LimiterType, RequestType
  <2>4. OwnBuckets' /\ HeldBuckets'
    BY <1>2, <2>1, <2>2 DEF OwnBuckets, HeldBuckets, LimiterType
  <2>5. Limited => LevelsFit' /\ Budget'
    BY <1>2, <2>1 DEF LevelsFit, Budget, Level, Earned
  <2> QED BY <2>3, <2>4, <2>5 DEF Limited
<1>4. CASE ~HasLimiter(name)
  <2>1. /\ buckets' = Append(buckets, Capacity)
        /\ limiterOf' = [limiterOf EXCEPT ![name] = Len(buckets) + 1]
    BY <1>4 DEF AskLimiter, FindLimiter
  <2>2. limiterOf[name] = 0
    BY <1>4 DEF HasLimiter
  <2>3. /\ Len(buckets) \in Nat /\ Len(buckets') = Len(buckets) + 1
        /\ buckets' \in Seq(Int)
        /\ buckets'[Len(buckets) + 1] = Capacity
        /\ \A i \in 1..Len(buckets) : buckets'[i] = buckets[i]
    BY <2>1, CapacityPositive DEF LimiterType
  <2>4. LimiterType'
    BY <1>1, <1>2, <2>1, <2>3 DEF LimiterType, RequestType
  <2>5. OwnBuckets'
    BY <2>1, <2>3 DEF OwnBuckets, LimiterType
  <2>6. HeldBuckets'
    BY <1>1, <1>2, <2>1, <2>2, <2>3 DEF HeldBuckets, LimiterType
  <2>7. \A n \in Names : Level(n)' = Level(n)
    BY <1>1, <2>1, <2>2, <2>3 DEF Level, LimiterType, OwnBuckets, Capacity
  <2>8. Limited => LevelsFit' /\ Budget'
    BY <1>2, <2>7 DEF LevelsFit, Budget, Earned, Capacity
  <2> QED BY <2>4, <2>5, <2>6, <2>8 DEF Limited
<1> QED BY <1>3, <1>4

LEMMA PassBudgetInv ==
  ASSUME BudgetInv, NEW r \in Requests, Pass(r)
  PROVE  BudgetInv'
<1> DEFINE name == request[r].name
           b    == request[r].bucket
<1> USE DEF BudgetInv
<1>1. name \in Names /\ b \in Nat /\ b = limiterOf[name] /\ b # 0
  BY DEF Pass, At, LimiterType, RequestType, NoRequest, HeldBuckets
<1>2. b \in 1..Len(buckets) /\ buckets[b] >= 1 /\ buckets[b] \in Int
  BY <1>1 DEF Pass, HasRoom, OwnBuckets, LimiterType
<1>3. /\ buckets' = [buckets EXCEPT ![b] = @ - 1]
      /\ passed' = [passed EXCEPT ![name] = @ + 1]
      /\ UNCHANGED <<limiterOf, now, ledger>>
      /\ request' = [request EXCEPT ![r] = [pc |-> "parse", name |-> name, bucket |-> b]]
  BY DEF Pass, Take, Goto
<1>4. Len(buckets') = Len(buckets) /\ buckets' \in Seq(Int)
  BY <1>2, <1>3 DEF LimiterType
<1>5. LimiterType'
  <2>1. passed' \in [Names -> Nat]
    BY <1>1, <1>3 DEF LimiterType
  <2>2. request' \in [Requests -> RequestType]
    BY <1>1, <1>3 DEF LimiterType, RequestType
  <2> QED BY <1>3, <1>4, <2>1, <2>2 DEF LimiterType
<1>6. OwnBuckets' /\ HeldBuckets'
  BY <1>3, <1>4 DEF OwnBuckets, HeldBuckets, LimiterType
<1>7. \A n \in Names : IF n = name THEN Level(n) = buckets[b] /\ Level(n)' = Level(n) - 1
                                    ELSE Level(n)' = Level(n)
  <2> SUFFICES ASSUME NEW n \in Names
               PROVE  IF n = name THEN Level(n) = buckets[b] /\ Level(n)' = Level(n) - 1
                                  ELSE Level(n)' = Level(n)
    OBVIOUS
  <2>1. /\ buckets \in Seq(Int) /\ limiterOf[n] \in Nat
        /\ limiterOf[n] # 0 => limiterOf[n] \in 1..Len(buckets)
        /\ \A m \in Names : limiterOf[m] = limiterOf[n] /\ limiterOf[n] # 0 => m = n
    BY DEF OwnBuckets, LimiterType
  <2>2. buckets'[b] = buckets[b] - 1 /\ \A i \in 1..Len(buckets) : i # b => buckets'[i] = buckets[i]
    BY <1>2, <1>3, <2>1
  <2>3. CASE n = name
    BY <1>1, <1>3, <2>2, <2>3 DEF Level
  <2>4. CASE n # name /\ limiterOf[n] = 0
    BY <1>3, <2>4 DEF Level, Capacity
  <2>5. CASE n # name /\ limiterOf[n] # 0
    <3>1. limiterOf[n] # b /\ limiterOf[n] \in 1..Len(buckets)
      BY <1>1, <2>1, <2>5
    <3> QED BY <1>3, <2>2, <2>5, <3>1 DEF Level
  <2> QED BY <2>3, <2>4, <2>5
<1>8. passed'[name] = passed[name] + 1 /\ \A n \in Names : n # name => passed'[n] = passed[n]
  BY <1>1, <1>3 DEF LimiterType
<1>9. ASSUME Limited PROVE LevelsFit' /\ Budget'
  <2>1. LevelsFit'
    <3> SUFFICES ASSUME NEW n \in Names PROVE Level(n)' \in 0..Capacity
      BY DEF LevelsFit, Capacity
    <3>1. Level(n) \in 0..Capacity
      BY <1>9 DEF LevelsFit
    <3> QED BY <1>2, <1>7, <3>1, CapacityPositive
  <2>2. ASSUME NEW n \in Names, NEW t \in 0..now
        PROVE  passed'[n] - ledger'[n][t] + Level(n)' <= Capacity + Earned(t)
    <3>a. passed[n] - ledger[n][t] + Level(n) <= Capacity + Earned(t)
      BY <1>9 DEF Budget
    <3>b. Level(n) \in 0..Capacity
      BY <1>9 DEF LevelsFit
    <3>c. t \in 0..MaxTime /\ passed[n] \in Nat
      BY RateAssumption DEF LimiterType
    <3>d. ledger[n] \in [0..MaxTime -> Nat]
      BY DEF LimiterType
    <3>1. /\ passed[n] - ledger[n][t] + Level(n) <= Capacity + Earned(t)
          /\ Level(n) \in Int /\ ledger[n][t] \in Nat /\ passed[n] \in Nat
      BY <3>a, <3>b, <3>c, <3>d, CapacityPositive
    <3>2. now \in Nat /\ t \in Nat
      BY RateAssumption DEF LimiterType
    <3>3. Earned(t) \in Int
      BY <3>2, TickEarns
    <3>4. ledger'[n][t] = ledger[n][t]
      BY <1>3
    <3>5. /\ Level(n)' = IF n = name THEN Level(n) - 1 ELSE Level(n)
          /\ passed'[n] = IF n = name THEN passed[n] + 1 ELSE passed[n]
      BY <1>7, <1>8
    <3> QED BY <3>1, <3>3, <3>4, <3>5, CapacityPositive
  <2>3. Budget'
    BY <1>3, <2>2 DEF Budget, Earned, Capacity
  <2> QED BY <2>1, <2>3
<1> QED BY <1>5, <1>6, <1>9 DEF Limited

LEMMA TickBudgetInv == BudgetInv /\ Clock => BudgetInv'
<1> SUFFICES ASSUME BudgetInv, Clock PROVE BudgetInv'
  OBVIOUS
<1> USE DEF BudgetInv
<1>1. /\ now < MaxTime /\ now' = now + 1
      /\ buckets' = [b \in DOMAIN buckets |-> Filled(buckets[b])]
      /\ ledger' = [name \in Names |-> [ledger[name] EXCEPT ![now + 1] = passed[name]]]
      /\ UNCHANGED <<limiterOf, passed, request>>
  BY DEF Clock, Tick
<1>2. \A level \in Int : Filled(level) \in Int
  BY CapacityPositive DEF Filled
<1>3. buckets' \in Seq(Int) /\ Len(buckets') = Len(buckets)
  <2>1. DOMAIN buckets = 1..Len(buckets) /\ Len(buckets) \in Nat
    BY DEF LimiterType
  <2>2. buckets' = [b \in 1..Len(buckets) |-> Filled(buckets[b])]
    BY <1>1, <2>1
  <2>3. \A b \in 1..Len(buckets) : Filled(buckets[b]) \in Int
    BY <1>2, <2>1 DEF LimiterType
  <2> QED BY <2>1, <2>2, <2>3
<1>4. LimiterType'
  BY <1>1, <1>3 DEF LimiterType
<1>5. OwnBuckets' /\ HeldBuckets'
  BY <1>1, <1>3 DEF OwnBuckets, HeldBuckets
<1>6. ASSUME Limited PROVE LevelsFit' /\ Budget'
  <2>1. ASSUME NEW n \in Names
        PROVE  Level(n)' \in 0..Capacity /\ Level(n)' <= Level(n) + PerTick
    <3>1. CASE limiterOf[n] = 0
      BY <1>1, <1>6, <3>1, CapacityPositive DEF Level, Limited, Capacity
    <3>2. CASE limiterOf[n] # 0
      <4>1. limiterOf[n] \in 1..Len(buckets)
        BY <3>2 DEF LimiterType, OwnBuckets
      <4>2. Level(n) = buckets[limiterOf[n]] /\ Level(n)' = Filled(Level(n))
        BY <1>1, <3>2, <4>1 DEF Level, LimiterType
      <4>3. Level(n) \in 0..Capacity
        BY <1>6 DEF LevelsFit
      <4> QED BY <1>6, <4>2, <4>3, CapacityPositive DEF Filled, Limited
    <3> QED BY <3>1, <3>2
  <2>2. LevelsFit'
    BY <2>1 DEF LevelsFit, Capacity
  <2>3. ASSUME NEW n \in Names, NEW t \in 0..now'
        PROVE  passed'[n] - ledger'[n][t] + Level(n)' <= Capacity + PerTick * (now' - t)
    <3>1. passed[n] \in Nat /\ now \in Nat /\ Level(n) \in Int /\ Level(n)' \in Int
      BY <1>6, <2>1, CapacityPositive DEF LimiterType, LevelsFit
    <3>2. CASE t = now + 1
      <4>1. ledger'[n][t] = passed[n] /\ PerTick * (now' - t) = 0
        BY <1>1, <3>1, <3>2 DEF LimiterType
      <4>2. passed'[n] = passed[n] /\ Level(n)' <= Capacity
        BY <1>1, <2>1
      <4> QED BY <3>1, <4>1, <4>2, CapacityPositive
    <3>3. CASE t # now + 1
      <4>1. t \in 0..now /\ ledger'[n][t] = ledger[n][t] /\ ledger[n][t] \in Nat
        BY <1>1, <3>1, <3>3 DEF LimiterType
      <4>2. passed[n] - ledger[n][t] + Level(n) <= Capacity + Earned(t)
        BY <1>6, <4>1 DEF Budget
      <4>3. PerTick * (now' - t) = Earned(t) + PerTick /\ Earned(t) \in Int
        BY <1>1, <3>1, <4>1, TickEarns
      <4> QED BY <1>1, <2>1, <3>1, <4>1, <4>2, <4>3, CapacityPositive
    <3> QED BY <3>2, <3>3
  <2>4. Budget'
    BY <2>3 DEF Budget, Earned, Capacity
  <2> QED BY <2>2, <2>4
<1> QED BY <1>4, <1>5, <1>6 DEF Limited

LEMMA NextBudgetInv == BudgetInv /\ [Next]_vars => BudgetInv'
<1> SUFFICES ASSUME BudgetInv, [Next]_vars PROVE BudgetInv'
  OBVIOUS
<1>0. request \in [Requests -> RequestType]
  BY DEF BudgetInv, LimiterType
<1>1. ASSUME NEW r \in Requests, NEW name \in Names, Resolve(r, name) PROVE BudgetInv'
  <2>1. request' = [request EXCEPT ![r] =
          [pc |-> IF Limited THEN "limit" ELSE "parse", name |-> name, bucket |-> 0]]
        /\ UNCHANGED limiter
    BY <1>1 DEF Resolve, Goto
  <2>2. request' \in [Requests -> RequestType]
    BY <1>0, <2>1 DEF RequestType
  <2>3. \A q \in Requests : request'[q].pc = "allow" => request'[q] = request[q]
    BY <1>0, <2>1
  <2> QED BY <2>1, <2>2, <2>3, LimiterUntouched
<1>2. ASSUME NEW r \in Requests, Finish(r), UNCHANGED limiter PROVE BudgetInv'
  <2>1. request' \in [Requests -> RequestType]
    BY <1>0, <1>2 DEF Finish, RequestType
  <2>2. \A q \in Requests : request'[q].pc = "allow" => request'[q] = request[q]
    BY <1>0, <1>2 DEF Finish, NoRequest
  <2> QED BY <1>2, <2>1, <2>2, LimiterUntouched
<1>3. CASE UNCHANGED <<limiter, request>>
  BY <1>0, <1>3, LimiterUntouched
<1>4. ASSUME NEW r \in Requests, Handle(r) PROVE BudgetInv'
  BY <1>1, <1>2, <1>4, AskLimiterBudgetInv, PassBudgetInv DEF Handle, Throttle, Queue, Refuse
<1>5. ASSUME NEW end \in DrawTimes, NEW answer \in Answers, Draw(end, answer) PROVE BudgetInv'
  BY <1>3, <1>5 DEF Draw
<1>6. CASE UNCHANGED vars
  BY <1>3, <1>6 DEF vars
<1> QED BY <1>4, <1>5, <1>6, TickBudgetInv DEF Next

\* No period sees more requests of a token pass than the burst and what the
\* period earned, however many race for the first use of a limiter
\* (limiters.allow, ratelimit.go:35-49).
THEOREM BudgetKept == Spec => []WithinBudget
<1>1. BudgetInv => WithinBudget
  <2> SUFFICES ASSUME BudgetInv, Limited, NEW name \in Names, NEW t \in 0..now
               PROVE  passed[name] - ledger[name][t] <= Capacity + PerTick * (now - t)
    BY DEF WithinBudget
  <2>1. /\ passed[name] - ledger[name][t] + Level(name) <= Capacity + Earned(t)
        /\ Level(name) \in 0..Capacity
        /\ passed[name] \in Nat /\ ledger[name][t] \in Nat /\ now \in Nat
    BY DEF BudgetInv, Budget, LevelsFit, LimiterType
  <2>2. Earned(t) \in Int /\ Earned(t) = PerTick * (now - t)
    BY <2>1, TickEarns DEF Earned
  <2> QED BY <2>1, <2>2, CapacityPositive
<1> QED BY <1>1, InitBudgetInv, NextBudgetInv, PTL DEF Spec

------------------------------------------------------------------------------
(* Lists: what a payload is made of, and the texts made of it. *)

LEMMA ListIsFunction ==
  ASSUME NEW s, IsList(s)
  PROVE  Len(s) \in Nat /\ DOMAIN s = 1..Len(s) /\ Range(s) = {s[i] : i \in 1..Len(s)}
BY DEF IsList, Range

LEMMA SeqIsList ==
  ASSUME NEW S, NEW s \in Seq(S)
  PROVE  IsList(s)
<1>1. \A i \in 1..Len(s) : s[i] \in Range(s)
  BY DEF Range
<1> QED BY <1>1 DEF IsList

LEMMA EmptyList == IsList(<<>>) /\ Len(<<>>) = 0 /\ Range(<<>>) = {}
BY DEF IsList, Range

LEMMA OneWord ==
  ASSUME NEW w
  PROVE  IsList(<<w>>) /\ <<w>> # <<>>
<1>1. <<w>> \in Seq({w})
  OBVIOUS
<1> QED BY <1>1, SeqIsList

LEMMA TwoWords ==
  ASSUME NEW v, NEW w
  PROVE  IsList(<<v, w>>) /\ <<v, w>> # <<>>
<1>1. <<v, w>> \in Seq({v, w})
  OBVIOUS
<1> QED BY <1>1, SeqIsList

\* A concatenation has the words of both, and is empty only if both are.
LEMMA Concatenated ==
  ASSUME NEW s, NEW t, IsList(s), IsList(t)
  PROVE  /\ IsList(s \o t)
         /\ Range(s) \subseteq Range(s \o t) /\ Range(t) \subseteq Range(s \o t)
         /\ s # <<>> \/ t # <<>> => s \o t # <<>>
<1> DEFINE S == Range(s) \cup Range(t)
<1>1. s \in Seq(S) /\ t \in Seq(S)
  <2>1. \A i \in 1..Len(s) : s[i] \in S
    BY ListIsFunction
  <2>2. \A i \in 1..Len(t) : t[i] \in S
    BY ListIsFunction
  <2> HIDE DEF S
  <2> QED BY <2>1, <2>2 DEF IsList
<1> HIDE DEF S
<1>2. s \o t \in Seq(S) /\ Len(s \o t) = Len(s) + Len(t)
  BY <1>1
<1>3. IsList(s \o t)
  BY <1>2, SeqIsList
<1>4. \A i \in 1..Len(s) : (s \o t)[i] = s[i]
  BY <1>1
<1>5. \A i \in 1..Len(t) : (s \o t)[Len(s) + i] = t[i]
  BY <1>1
<1>6. Len(s) \in Nat /\ Len(t) \in Nat
  BY <1>1
<1>7. Range(s) \subseteq Range(s \o t)
  <2> SUFFICES ASSUME NEW i \in 1..Len(s) PROVE s[i] \in Range(s \o t)
    BY ListIsFunction
  <2>1. i \in 1..Len(s \o t)
    BY <1>2, <1>6
  <2> QED BY <1>2, <1>3, <1>4, <2>1, ListIsFunction
<1>8. Range(t) \subseteq Range(s \o t)
  <2> SUFFICES ASSUME NEW i \in 1..Len(t) PROVE t[i] \in Range(s \o t)
    BY ListIsFunction
  <2>1. Len(s) + i \in 1..Len(s \o t)
    BY <1>2, <1>6
  <2> QED BY <1>2, <1>3, <1>5, <2>1, ListIsFunction
<1>9. s # <<>> \/ t # <<>> => s \o t # <<>>
  BY <1>1, <1>2, <1>6
<1> QED BY <1>3, <1>7, <1>8, <1>9

\* The least index of a set of them.
LEMMA LeastIndex ==
  ASSUME NEW n \in Nat, NEW D \in SUBSET (1..n), D # {}
  PROVE  Min(D) \in D /\ \A i \in D : Min(D) <= i
<1>1. \E m \in D : \A i \in D : m <= i
  BY LeastElement
<1> QED BY <1>1 DEF Min

LEMMA FlattenedList ==
  ASSUME NEW s, IsList(s), \A t \in Range(s) : IsList(t)
  PROVE  IsList(FlattenSeq(s))
<1> DEFINE n == Len(s)
           U == UNION {Range(t) : t \in Range(s)}
           flatten == CHOOSE f : f = [i \in 1..n |-> IF i = 1 THEN s[i] ELSE f[i - 1] \o s[i]]
<1>1. n \in Nat /\ \A i \in 1..n : s[i] \in Range(s)
  BY ListIsFunction
<1>2. \A i \in 1..n : s[i] \in Seq(U)
  <2> SUFFICES ASSUME NEW i \in 1..n PROVE s[i] \in Seq(U)
    OBVIOUS
  <2>1. IsList(s[i]) /\ Range(s[i]) \subseteq U
    BY <1>1
  <2> HIDE DEF U
  <2>2. \A k \in 1..Len(s[i]) : s[i][k] \in U
    BY <2>1, ListIsFunction
  <2> QED BY <2>1, <2>2 DEF IsList
<1> HIDE DEF U
<1>3. CASE n = 0
  <2>1. FlattenSeq(s) = s
    BY <1>3 DEF FlattenSeq
  <2> QED BY <2>1
<1>4. CASE n # 0
  <2> DEFINE step == [x \in (1..(n - 1)) \X Seq(U) |-> x[2] \o s[x[1] + 1]]
             m == n - 1
  <2>1. step \in [(1..m) \X Seq(U) -> Seq(U)] /\ m \in Nat /\ s[1] \in Seq(U)
    <3>1. m \in Nat /\ s[1] \in Seq(U)
      BY <1>1, <1>2, <1>4
    <3>2. ASSUME NEW i \in 1..m, NEW q \in Seq(U) PROVE q \o s[i + 1] \in Seq(U)
      <4>1. s[i + 1] \in Seq(U)
        BY <1>1, <1>2
      <4> QED BY <4>1
    <3> QED BY <3>1, <3>2
  <2> HIDE DEF step
  <2>2. PICK g \in [0..m -> Seq(U)] : g[0] = s[1] /\ \A i \in 1..m : g[i] = step[<<i, g[i - 1]>>]
    <3>1. \E g : Runs(g, Seq(U), s[1], m, step)
      BY <2>1, LoopValues
    <3> QED BY <3>1 DEF Runs
  <2> DEFINE f == [i \in 1..n |-> g[i - 1]]
  <2>3. ASSUME NEW i \in 1..n PROVE f[i] = IF i = 1 THEN s[i] ELSE f[i - 1] \o s[i]
    <3>1. CASE i = 1
      BY <2>2, <3>1, <1>1
    <3>2. CASE i # 1
      <4>1. i - 1 \in 1..m /\ g[i - 2] \in Seq(U) /\ (i - 1) - 1 = i - 2 /\ (i - 1) + 1 = i
        BY <1>1, <3>2
      <4>2. g[i - 1] = step[<<i - 1, g[i - 2]>>]
        BY <2>2, <4>1
      <4>3. step[<<i - 1, g[i - 2]>>] = g[i - 2] \o s[i]
        BY <4>1 DEF step
      <4>4. f[i - 1] = g[i - 2]
        BY <4>1
      <4> QED BY <3>2, <4>2, <4>3, <4>4
    <3> QED BY <3>1, <3>2
  <2>4. f[n] \in Seq(U) /\ f = [i \in 1..n |-> f[i]]
    BY <1>1, <1>4
  <2> HIDE DEF f
  <2>5. f = [i \in 1..n |-> IF i = 1 THEN s[i] ELSE f[i - 1] \o s[i]]
    BY <2>3, <2>4
  <2>6. flatten = [i \in 1..n |-> IF i = 1 THEN s[i] ELSE flatten[i - 1] \o s[i]]
    BY <2>5
  <2> DEFINE Good == {i \in 0..n : i = 0 \/ flatten[i] \in Seq(U)}
  <2> HIDE DEF flatten
  <2>7. 0 \in Good
    OBVIOUS
  <2>8. ASSUME NEW i \in 1..n, i - 1 \in Good PROVE i \in Good
    <3>1. CASE i = 1
      BY <1>2, <2>6, <3>1
    <3>2. CASE i # 1
      <4>1. flatten[i - 1] \in Seq(U) /\ s[i] \in Seq(U)
        BY <1>2, <2>8, <3>2
      <4>2. flatten[i] = flatten[i - 1] \o s[i]
        BY <2>6, <3>2
      <4>3. flatten[i] \in Seq(U)
        BY <4>1, <4>2
      <4> QED BY <4>3
    <3> QED BY <3>1, <3>2
  <2>9. n \in Good
    <3>1. Good \in SUBSET (0..n)
      OBVIOUS
    <3> HIDE DEF Good
    <3>2. 0..n \subseteq Good
      BY ONLY n \in Nat, <1>1, <2>7, <2>8, <3>1, UpTo
    <3> QED BY <1>1, <3>2
  <2>10. FlattenSeq(s) = flatten[n]
    BY <1>4 DEF FlattenSeq, flatten
  <2> QED BY <1>4, <2>9, <2>10, SeqIsList
<1> QED BY <1>3, <1>4

LEMMA AppendedList ==
  ASSUME NEW s, IsList(s), NEW w
  PROVE  IsList(Append(s, w)) /\ Range(Append(s, w)) = Range(s) \cup {w}
<1> DEFINE S == Range(s) \cup {w}
<1>1. s \in Seq(S)
  <2>1. \A i \in 1..Len(s) : s[i] \in S
    BY ListIsFunction
  <2> HIDE DEF S
  <2> QED BY <2>1 DEF IsList
<1>2. w \in S
  OBVIOUS
<1> HIDE DEF S
<1>3. /\ Append(s, w) \in Seq(S) /\ Len(Append(s, w)) = Len(s) + 1
      /\ \A i \in 1..Len(s) : Append(s, w)[i] = s[i]
      /\ Append(s, w)[Len(s) + 1] = w
  BY <1>1, <1>2
<1>4. IsList(Append(s, w)) /\ Len(s) \in Nat
  <2>1. IsList(Append(s, w))
    BY <1>3, SeqIsList
  <2>2. Len(s) \in Nat
    BY ListIsFunction
  <2> QED BY <2>1, <2>2
<1>5. \A i : i \in 1..(Len(s) + 1) <=> i \in 1..Len(s) \/ i = Len(s) + 1
  BY <1>4
<1>6. Range(s) = {s[i] : i \in 1..Len(s)}
  BY ListIsFunction
<1>7. Range(Append(s, w)) = {Append(s, w)[i] : i \in 1..(Len(s) + 1)}
  BY <1>3, <1>4, ListIsFunction
<1> QED BY <1>3, <1>4, <1>5, <1>6, <1>7

LEMMA MappedList ==
  ASSUME NEW s, IsList(s), NEW t, DOMAIN t = DOMAIN s, t = [i \in DOMAIN s |-> t[i]],
         \A i \in DOMAIN s : IsList(t[i])
  PROVE  IsList(t) /\ \A u \in Range(t) : IsList(u)
<1>1. Len(s) \in Nat /\ DOMAIN s = 1..Len(s)
  BY ListIsFunction
<1>2. \A i \in 1..Len(s) : t[i] \in Range(t)
  BY <1>1 DEF Range
<1>3. t \in Seq(Range(t))
  BY <1>1, <1>2
<1> QED BY <1>3 DEF IsList, Range

\* The first text that is not empty, or the default.
LEMMA FirstNonEmptyIs ==
  ASSUME NEW texts, IsList(texts), \A t \in Range(texts) : IsList(t),
         NEW default, IsList(default)
  PROVE  /\ IsList(FirstNonEmpty(texts, default))
         /\ default # <<>> => FirstNonEmpty(texts, default) # <<>>
<1> DEFINE D == {i \in DOMAIN texts : texts[i] # <<>>}
<1>1. Len(texts) \in Nat /\ D \in SUBSET (1..Len(texts))
  BY ListIsFunction
<1>2. \A i \in D : texts[i] \in Range(texts) /\ texts[i] # <<>>
  BY DEF Range
<1>3. FirstNonEmpty(texts, default) = IF D = {} THEN default ELSE texts[Min(D)]
  BY DEF FirstNonEmpty
<1> HIDE DEF D
<1>4. D # {} => Min(D) \in D
  BY <1>1, LeastIndex
<1> QED BY <1>2, <1>3, <1>4

------------------------------------------------------------------------------
(* Groups of alerts. *)

LEMMA PairsAreList ==
  ASSUME NEW labels, NEW keys
  PROVE  IsList(Pairs(labels, keys))
BY EmptyList, OneWord DEF Pairs

LEMMA FirstNameIsList ==
  ASSUME NEW alerts
  PROVE  IsList(FirstName(alerts))
BY EmptyList, OneWord DEF FirstName

LEMMA GroupNameIs ==
  ASSUME NEW p, AlertsTyped(p)
  PROVE  IsList(GroupName(p)) /\ GroupName(p) # <<>>
<1> DEFINE names == IF p.format = "grafana" THEN GrafanaNames(p) ELSE AlertmanagerNames(p)
           D == {i \in DOMAIN names : names[i] # <<>>}
<1>1. IsList(p.receiver) /\ IsList(<<"alerts">>) /\ <<"alerts">> # <<>>
  BY OneWord DEF AlertsTyped
<1>2. /\ DOMAIN names = 1..4 /\ names[4] = <<"alerts">>
      /\ \A i \in 1..4 : IsList(names[i])
  <2>1. CASE p.format = "grafana"
    <3>1. /\ IsList(Pairs(p.group, DOMAIN p.group \ {"grafana_folder"})) /\ IsList(FirstName(p.alerts))
      BY PairsAreList, FirstNameIsList
    <3> QED BY <1>1, <2>1, <3>1 DEF GrafanaNames
  <2>2. CASE p.format # "grafana"
    <3>1. /\ IsList(Pairs(p.group, DOMAIN p.group)) /\ IsList(FirstName(p.alerts))
      BY PairsAreList, FirstNameIsList
    <3> QED BY <1>1, <2>2, <3>1 DEF AlertmanagerNames
  <2> QED BY <2>1, <2>2
<1>3. \/ GroupName(p) = <<p.group["alertname"]>>
      \/ GroupName(p) = names[Min(D)]
  BY DEF GroupName
<1> HIDE DEF names
<1>4. D \in SUBSET (1..4) /\ D # {}
  BY <1>1, <1>2
<1>5. Min(D) \in D
  <2> HIDE DEF D
  <2> QED BY <1>4, LeastIndex
<1> QED BY <1>2, <1>3, <1>5, OneWord

LEMMA MarkIsList ==
  ASSUME NEW p, NEW resolved, NEW word
  PROVE  IsList(Mark(p, resolved, word))
BY EmptyList, OneWord DEF Mark

LEMMA AlertTextsAre ==
  ASSUME NEW p, AlertsTyped(p)
  PROVE  /\ IsList(FormatAlerts(p).title) /\ FormatAlerts(p).title # <<>>
         /\ IsList(FormatAlerts(p).body)
<1>1. IsList(GroupName(p)) /\ GroupName(p) # <<>>
  BY GroupNameIs
<1>2. IsList(Mark(p, FALSE, "FIRING")) /\ IsList(Mark(p, TRUE, "RESOLVED"))
  BY MarkIsList
<1> DEFINE marks == Mark(p, FALSE, "FIRING") \o Mark(p, TRUE, "RESOLVED")
           lines == [i \in DOMAIN p.alerts |-> Line(p.alerts[i])]
<1>3. IsList(marks)
  BY <1>2, Concatenated
<1>4. IsList(marks \o GroupName(p)) /\ marks \o GroupName(p) # <<>>
  <2> HIDE DEF marks
  <2> QED BY <1>1, <1>3, Concatenated
<1>5. IsList(lines)
  <2>1. DOMAIN p.alerts = 1..Len(p.alerts) /\ Len(p.alerts) \in Nat
    BY ListIsFunction DEF AlertsTyped
  <2> DEFINE S == {Line(p.alerts[i]) : i \in DOMAIN p.alerts}
  <2>2. \A i \in DOMAIN p.alerts : Line(p.alerts[i]) \in S
    OBVIOUS
  <2> HIDE DEF S
  <2>3. lines \in Seq(S)
    BY <2>1, <2>2
  <2> QED BY <2>3, SeqIsList
<1>6. FormatAlerts(p).title = marks \o GroupName(p) /\ FormatAlerts(p).body = lines
  BY DEF FormatAlerts
<1> QED BY <1>4, <1>5, <1>6

LEMMA PrioritiesLoop ==
  ASSUME NEW alerts, IsList(alerts)
  PROVE  /\ Priorities(alerts)[0] = 3
         /\ \A i \in 1..Len(alerts) :
              Priorities(alerts)[i] = Severer(Priorities(alerts)[i - 1], alerts[i])
<1> DEFINE n == Len(alerts)
           S == {3, 5, 8}
           step == [x \in (1..n) \X S |-> Severer(x[2], alerts[x[1]])]
<1>1. n \in Nat
  BY ListIsFunction
<1> HIDE DEF n
<1>2. step \in [(1..n) \X S -> S]
  BY DEF Severer
<1>3. \A i \in 1..n, q \in S : step[<<i, q>>] = Severer(q, alerts[i])
  OBVIOUS
<1> HIDE DEF S, step
<1>4. PICK f \in [0..n -> S] : f[0] = 3 /\ \A i \in 1..n : f[i] = step[<<i, f[i - 1]>>]
  <2>1. 3 \in S
    BY DEF S
  <2>2. \E f : Runs(f, S, 3, n, step)
    BY <1>1, <1>2, <2>1, LoopValues
  <2> QED BY <2>2 DEF Runs
<1>5. \A i \in 1..n : f[i] = Severer(f[i - 1], alerts[i])
  <2> SUFFICES ASSUME NEW i \in 1..n PROVE f[i] = Severer(f[i - 1], alerts[i])
    OBVIOUS
  <2>1. i - 1 \in 0..n
    BY <1>1
  <2>2. f[i - 1] \in S
    BY <2>1
  <2> QED BY <1>3, <1>4, <2>2
<1>6. f = [i \in 0..n |-> IF i = 0 THEN 3 ELSE Severer(f[i - 1], alerts[i])]
  BY <1>1, <1>4, <1>5
<1>7. Priorities(alerts) =
        [i \in 0..n |-> IF i = 0 THEN 3 ELSE Severer(Priorities(alerts)[i - 1], alerts[i])]
  BY <1>6 DEF Priorities, n
<1>8. Priorities(alerts)[0] = 3
  BY <1>1, <1>7
<1>9. \A i \in 1..n : Priorities(alerts)[i] = Severer(Priorities(alerts)[i - 1], alerts[i])
  BY <1>1, <1>7
<1> QED BY <1>8, <1>9 DEF n

\* The worst severity of the first alerts, of those that fire.
FiringAs(alerts, i, severity) ==
  \E k \in 1..i : alerts[k].status # "resolved" /\ alerts[k].severity = severity
WorstOf(alerts, i) ==
  IF FiringAs(alerts, i, "critical") THEN 8 ELSE IF FiringAs(alerts, i, "warning") THEN 5 ELSE 3

LEMMA OneMoreAlert ==
  ASSUME NEW alerts, IsList(alerts), NEW i \in 1..Len(alerts), NEW severity
  PROVE  FiringAs(alerts, i, severity) <=>
           \/ FiringAs(alerts, i - 1, severity)
           \/ IsFiring(alerts[i]) /\ alerts[i].severity = severity
<1>1. Len(alerts) \in Nat
  BY ListIsFunction
<1>2. \A k : k \in 1..i <=> k \in 1..(i - 1) \/ k = i
  BY <1>1
<1> QED BY <1>2 DEF FiringAs, IsFiring, Resolved

LEMMA PriorityIsWorst ==
  ASSUME NEW alerts, IsList(alerts)
  PROVE  Priorities(alerts)[Len(alerts)] = WorstOf(alerts, Len(alerts))
<1> DEFINE n == Len(alerts)
           prio == Priorities(alerts)
           Good == {i \in 0..n : prio[i] = WorstOf(alerts, i)}
<1>1. n \in Nat
  BY ListIsFunction
<1>2. prio[0] = 3 /\ \A i \in 1..n : prio[i] = Severer(prio[i - 1], alerts[i])
  BY PrioritiesLoop
<1>3. Good \in SUBSET (0..n)
  OBVIOUS
<1>4. WorstOf(alerts, 0) = 3
  BY DEF WorstOf, FiringAs
<1> HIDE DEF prio, Good
<1>5. 0 \in Good
  BY <1>1, <1>2, <1>4 DEF Good
<1>6. ASSUME NEW i \in 1..n, i - 1 \in Good PROVE i \in Good
  <2>1. prio[i - 1] = WorstOf(alerts, i - 1) /\ prio[i] = Severer(prio[i - 1], alerts[i])
    BY <1>2, <1>6 DEF Good
  <2>2. /\ FiringAs(alerts, i, "critical") <=>
             FiringAs(alerts, i - 1, "critical") \/ (IsFiring(alerts[i]) /\ alerts[i].severity = "critical")
        /\ FiringAs(alerts, i, "warning") <=>
             FiringAs(alerts, i - 1, "warning") \/ (IsFiring(alerts[i]) /\ alerts[i].severity = "warning")
    BY OneMoreAlert
  <2>3. prio[i] = WorstOf(alerts, i)
    <3>1. CASE FiringAs(alerts, i - 1, "critical")
      <4>1. WorstOf(alerts, i - 1) = 8 /\ WorstOf(alerts, i) = 8
        BY <2>2, <3>1 DEF WorstOf
      <4> QED BY <2>1, <4>1 DEF Severer
    <3>2. CASE ~FiringAs(alerts, i - 1, "critical") /\ ~IsFiring(alerts[i])
      <4>1. WorstOf(alerts, i) = WorstOf(alerts, i - 1)
        BY <2>2, <3>2 DEF WorstOf
      <4> QED BY <2>1, <3>2, <4>1 DEF Severer, IsFiring
    <3>3. CASE ~FiringAs(alerts, i - 1, "critical") /\ IsFiring(alerts[i])
      <4>1. WorstOf(alerts, i - 1) # 8 /\ ~Resolved(alerts[i])
        BY <3>3 DEF WorstOf, IsFiring
      <4>2. WorstOf(alerts, i) = CASE alerts[i].severity = "critical" -> 8
                                   [] alerts[i].severity = "warning" -> 5
                                   [] OTHER -> WorstOf(alerts, i - 1)
        BY <2>2, <3>3 DEF WorstOf
      <4> QED BY <2>1, <4>1, <4>2 DEF Severer
    <3> QED BY <3>1, <3>2, <3>3
  <2> QED BY <2>3 DEF Good
<1>7. 0..n \subseteq Good
  BY ONLY <1>1, <1>3, <1>5, <1>6, UpTo
<1>8. n \in Good
  BY <1>1, <1>7
<1> QED BY <1>8 DEF Good, prio

LEMMA PriorityIsSeverity ==
  ASSUME NEW p, IsList(p.alerts)
  PROVE  AlertPriority(p) = Severity(p)
<1>1. AlertPriority(p) = WorstOf(p.alerts, Len(p.alerts))
  BY PriorityIsWorst DEF AlertPriority
<1>2. ASSUME NEW severity
      PROVE  FiringAs(p.alerts, Len(p.alerts), severity) <=> \E a \in Firing(p) : a.severity = severity
  <2>1. DOMAIN p.alerts = 1..Len(p.alerts)
    BY ListIsFunction
  <2> QED BY <2>1 DEF FiringAs, Firing, Range
<1> QED BY <1>1, <1>2 DEF WorstOf, Severity

LEMMA FingerprintsLoop ==
  ASSUME NEW alerts, IsList(alerts), NEW resolved
  PROVE  /\ FingerprintsUpTo(alerts, resolved)[0] = <<>>
         /\ \A i \in 1..Len(alerts) :
              FingerprintsUpTo(alerts, resolved)[i] =
                IF Marked(alerts[i], resolved)
                THEN Append(FingerprintsUpTo(alerts, resolved)[i - 1], alerts[i].fingerprint)
                ELSE FingerprintsUpTo(alerts, resolved)[i - 1]
<1> DEFINE n == Len(alerts)
           S == Seq({a.fingerprint : a \in Range(alerts)})
           step == [x \in (1..n) \X S |->
                      IF Marked(alerts[x[1]], resolved) THEN Append(x[2], alerts[x[1]].fingerprint) ELSE x[2]]
           found == FingerprintsUpTo(alerts, resolved)
<1>1. n \in Nat /\ \A i \in 1..n : alerts[i].fingerprint \in {a.fingerprint : a \in Range(alerts)}
  BY ListIsFunction DEF Range
<1> HIDE DEF n
<1>2. step \in [(1..n) \X S -> S] /\ <<>> \in S
  BY <1>1
<1>3. \A i \in 1..n, q \in S : step[<<i, q>>] =
        IF Marked(alerts[i], resolved) THEN Append(q, alerts[i].fingerprint) ELSE q
  OBVIOUS
<1> HIDE DEF S, step
<1>4. PICK f \in [0..n -> S] : f[0] = <<>> /\ \A i \in 1..n : f[i] = step[<<i, f[i - 1]>>]
  <2>1. \E f : Runs(f, S, <<>>, n, step)
    BY <1>1, <1>2, LoopValues
  <2> QED BY <2>1 DEF Runs
<1>5. ASSUME NEW i \in 1..n
      PROVE  f[i] = IF Marked(alerts[i], resolved) THEN Append(f[i - 1], alerts[i].fingerprint) ELSE f[i - 1]
  <2>1. i - 1 \in 0..n
    BY <1>1
  <2>2. f[i - 1] \in S
    BY <2>1
  <2> QED BY <1>3, <1>4, <2>2
<1>6. f = [i \in 0..n |->
             IF i = 0 THEN <<>>
             ELSE IF Marked(alerts[i], resolved) THEN Append(f[i - 1], alerts[i].fingerprint)
             ELSE f[i - 1]]
  <2>1. f = [i \in 0..n |-> f[i]]
    OBVIOUS
  <2>2. ASSUME NEW i \in 0..n
        PROVE  f[i] = IF i = 0 THEN <<>>
                      ELSE IF Marked(alerts[i], resolved) THEN Append(f[i - 1], alerts[i].fingerprint)
                      ELSE f[i - 1]
    <3>1. i = 0 \/ i \in 1..n
      BY <1>1
    <3> QED BY <1>4, <1>5, <3>1
  <2> QED BY <2>1, <2>2
<1>7. found = [i \in 0..n |->
             IF i = 0 THEN <<>>
             ELSE IF Marked(alerts[i], resolved) THEN Append(found[i - 1], alerts[i].fingerprint)
             ELSE found[i - 1]]
  BY <1>6 DEF FingerprintsUpTo, n
<1> HIDE DEF found
<1>8. found[0] = <<>>
  BY <1>1, <1>7
<1>9. \A i \in 1..n :
        found[i] = IF Marked(alerts[i], resolved) THEN Append(found[i - 1], alerts[i].fingerprint)
                   ELSE found[i - 1]
  <2> SUFFICES ASSUME NEW i \in 1..n
               PROVE  found[i] = IF Marked(alerts[i], resolved) THEN Append(found[i - 1], alerts[i].fingerprint)
                                 ELSE found[i - 1]
    OBVIOUS
  <2>1. i \in 0..n /\ i # 0
    BY <1>1
  <2> QED BY <1>7, <2>1
<1> QED BY <1>8, <1>9 DEF n, found

\* The fingerprints of a side are those of the alerts of that side that have one.
LEMMA FingerprintsAre ==
  ASSUME NEW p, IsList(p.alerts), NEW resolved
  PROVE  Range(FingerprintsOf(p, resolved)) =
           {a.fingerprint : a \in {b \in Range(p.alerts) : Marked(b, resolved)}}
<1> DEFINE alerts == p.alerts
           n == Len(alerts)
           found == FingerprintsUpTo(alerts, resolved)
           Prints(i) == {alerts[k].fingerprint : k \in {j \in 1..i : Marked(alerts[j], resolved)}}
           Good == {i \in 0..n : IsList(found[i]) /\ Range(found[i]) = Prints(i)}
<1>1. n \in Nat /\ DOMAIN alerts = 1..n
  BY ListIsFunction
<1>2. /\ found[0] = <<>>
      /\ \A i \in 1..n :
           found[i] = IF Marked(alerts[i], resolved) THEN Append(found[i - 1], alerts[i].fingerprint)
                      ELSE found[i - 1]
  BY FingerprintsLoop
<1>3. Good \in SUBSET (0..n)
  OBVIOUS
<1>4. Prints(0) = {}
  OBVIOUS
<1> HIDE DEF found, Good, n
<1>5. 0 \in Good
  BY <1>1, <1>2, <1>4, EmptyList DEF Good
<1>6. ASSUME NEW i \in 1..n, i - 1 \in Good PROVE i \in Good
  <2>1. IsList(found[i - 1]) /\ Range(found[i - 1]) = Prints(i - 1)
    BY <1>6 DEF Good
  <2>2. \A k : k \in 1..i <=> k \in 1..(i - 1) \/ k = i
    BY <1>1
  <2>3. CASE Marked(alerts[i], resolved)
    <3>1. found[i] = Append(found[i - 1], alerts[i].fingerprint)
      BY <1>2, <2>3
    <3>2. IsList(found[i]) /\ Range(found[i]) = Range(found[i - 1]) \cup {alerts[i].fingerprint}
      BY <2>1, <3>1, AppendedList
    <3>3. Prints(i) = Prints(i - 1) \cup {alerts[i].fingerprint}
      BY <2>2, <2>3
    <3> HIDE DEF Prints
    <3>4. i \in 0..n
      BY <1>1
    <3> QED BY <2>1, <3>2, <3>3, <3>4 DEF Good
  <2>4. CASE ~Marked(alerts[i], resolved)
    <3>1. found[i] = found[i - 1]
      BY <1>2, <2>4
    <3>2. Prints(i) = Prints(i - 1)
      BY <2>2, <2>4
    <3> HIDE DEF Prints
    <3>3. i \in 0..n
      BY <1>1
    <3> QED BY <2>1, <3>1, <3>2, <3>3 DEF Good
  <2> QED BY <2>3, <2>4
<1>7. 0..n \subseteq Good
  BY ONLY <1>1, <1>3, <1>5, <1>6, UpTo
<1>8. n \in Good
  BY <1>1, <1>7
<1>9. Prints(n) = {a.fingerprint : a \in {b \in Range(alerts) : Marked(b, resolved)}}
  BY <1>1 DEF Range
<1> HIDE DEF Prints
<1> QED BY <1>8, <1>9 DEF Good, found, n, FingerprintsOf

\* The chart is of an alert that opted in, firing if any that did fires.
LEMMA TargetIs ==
  ASSUME NEW p, IsList(p.alerts), NEW name, p.format \in AlertFormats
  PROVE  IF p.format = "grafana" \/ name \notin Charting \/ OptedIn(p) = {}
         THEN Target(p, name) = NoAlert
         ELSE /\ Target(p, name) \in OptedIn(p)
              /\ OptedIn(p) \cap Firing(p) # {} => Target(p, name) \in Firing(p)
<1> DEFINE n == Len(p.alerts)
           wanted == {i \in DOMAIN p.alerts : Charted(p.alerts[i])}
           firing == {i \in wanted : IsFiring(p.alerts[i])}
<1>1. n \in Nat /\ DOMAIN p.alerts = 1..n
  BY ListIsFunction
<1>2. OptedIn(p) = {p.alerts[i] : i \in wanted}
  BY DEF OptedIn, Charted, Range
<1>3. OptedIn(p) \cap Firing(p) = {p.alerts[i] : i \in firing}
  <2>1. \A i \in wanted : p.alerts[i] \in Firing(p) <=> i \in firing
    BY DEF Firing, IsFiring, Resolved, Range
  <2> QED BY <1>2, <2>1
<1>4. wanted \in SUBSET (1..n) /\ firing \in SUBSET (1..n)
  BY <1>1
<1>5. firing # {} => ChartTarget(p) = p.alerts[Min(firing)]
  BY DEF ChartTarget
<1>6. firing = {} /\ wanted # {} => ChartTarget(p) = p.alerts[Min(wanted)]
  BY DEF ChartTarget
<1>7. wanted = {} => ChartTarget(p) = NoAlert
  BY DEF ChartTarget
<1>8. (firing # {} => Min(firing) \in firing) /\ (wanted # {} => Min(wanted) \in wanted)
  <2> HIDE DEF firing, wanted, n
  <2> QED BY <1>1, <1>4, LeastIndex
<1>9. firing \subseteq wanted
  OBVIOUS
<1> HIDE DEF firing, wanted
<1>10. Target(p, name) = IF p.format = "alertmanager" /\ name \in Charting THEN ChartTarget(p) ELSE NoAlert
  BY DEF Target
<1>11. CASE p.format = "grafana" \/ name \notin Charting
  BY <1>10, <1>11
<1>12. CASE p.format = "alertmanager" /\ name \in Charting
  <2>1. Target(p, name) = ChartTarget(p)
    BY <1>10, <1>12
  <2>2. CASE wanted = {}
    BY <1>2, <1>7, <2>1, <2>2, <1>12
  <2>3. CASE wanted # {} /\ firing = {}
    BY <1>2, <1>3, <1>6, <1>8, <2>1, <2>3, <1>12
  <2>4. CASE firing # {}
    <3>1. ChartTarget(p) \in OptedIn(p) \cap Firing(p)
      BY <1>3, <1>5, <1>8, <2>4
    <3> QED BY <1>12, <2>1, <3>1
  <2> QED BY <2>2, <2>3, <2>4
<1> QED BY <1>11, <1>12 DEF AlertFormats

LEMMA GroupIsFaithful ==
  ASSUME NEW p, AlertsTyped(p), p.format \in AlertFormats, NEW name
  PROVE  GroupFaithful(p, name, EntryOf(p, name))
<1> DEFINE entry == EntryOf(p, name)
<1>1. IsList(p.alerts)
  BY DEF AlertsTyped
<1>2. entry.priority = Severity(p)
  <2>1. Read(p).priority = AlertPriority(p)
    BY DEF Read, FormatAlerts, AlertFormats
  <2>2. entry.priority = Read(p).priority
    <3>1. Read(p) = FormatAlerts(p)
      BY DEF Read, AlertFormats
    <3> QED BY <3>1 DEF EntryOf, Prefixed, FormatAlerts
  <2> QED BY <1>1, <2>1, <2>2, PriorityIsSeverity
<1>3. entry.fires = FingerprintsOf(p, FALSE) /\ entry.resolves = FingerprintsOf(p, TRUE)
  BY DEF EntryOf, Correlated
<1>4. Range(FingerprintsOf(p, FALSE)) = {a.fingerprint : a \in Firing(p)} \ {""}
  <2>1. Range(FingerprintsOf(p, FALSE)) = {a.fingerprint : a \in {b \in Range(p.alerts) : Marked(b, FALSE)}}
    BY <1>1, FingerprintsAre
  <2>2. \A b : Marked(b, FALSE) <=> b.status # "resolved" /\ b.fingerprint # ""
    BY DEF Marked, Resolved
  <2> QED BY <2>1, <2>2 DEF Firing
<1>5. Range(FingerprintsOf(p, TRUE)) = {a.fingerprint : a \in Range(p.alerts) \ Firing(p)} \ {""}
  <2>1. Range(FingerprintsOf(p, TRUE)) = {a.fingerprint : a \in {b \in Range(p.alerts) : Marked(b, TRUE)}}
    BY <1>1, FingerprintsAre
  <2>2. \A b : Marked(b, TRUE) <=> b.status = "resolved" /\ b.fingerprint # ""
    BY DEF Marked, Resolved
  <2> QED BY <2>1, <2>2 DEF Firing
<1>6. entry.target = Target(p, name)
  BY DEF EntryOf
<1> HIDE DEF entry
<1> QED BY <1>1, <1>2, <1>3, <1>4, <1>5, <1>6, TargetIs DEF GroupFaithful, entry

------------------------------------------------------------------------------
(* Messages, and what any accepted payload reads as. *)

LEMMA BlockTextsAreList ==
  ASSUME NEW blocks, BlocksTyped(blocks)
  PROVE  IsList(BlockTexts(blocks))
<1> DEFINE texts == [i \in DOMAIN blocks |-> BlockText(blocks[i])]
<1>1. \A i \in DOMAIN blocks : IsList(BlockText(blocks[i]))
  BY EmptyList DEF BlocksTyped, BlockText, Range
<1>2. IsList(texts) /\ \A t \in Range(texts) : IsList(t)
  BY <1>1, MappedList DEF BlocksTyped
<1> HIDE DEF texts
<1> QED BY <1>2, FlattenedList DEF BlockTexts, texts

LEMMA AttachmentTextIsList ==
  ASSUME NEW a, IsList(a.title), IsList(a.text), IsList(a.fallback), BlocksTyped(a.blocks)
  PROVE  IsList(AttachmentText(a))
<1>1. IsList(<<a.text, a.fallback>>) /\ \A t \in Range(<<a.text, a.fallback>>) : IsList(t)
  BY TwoWords DEF Range
<1>2. IsList(FirstNonEmpty(<<a.text, a.fallback>>, <<>>))
  BY <1>1, EmptyList, FirstNonEmptyIs
<1>3. IsList(BlockTexts(a.blocks))
  BY BlockTextsAreList
<1>4. IsList(a.title \o FirstNonEmpty(<<a.text, a.fallback>>, <<>>))
  BY <1>2, Concatenated
<1> QED BY <1>3, <1>4, Concatenated DEF AttachmentText

LEMMA SlackBodyIsList ==
  ASSUME NEW p, SlackTyped(p)
  PROVE  IsList(SlackBody(p))
<1> DEFINE texts == [i \in DOMAIN p.attachments |-> AttachmentText(p.attachments[i])]
<1>1. \A i \in DOMAIN p.attachments : IsList(AttachmentText(p.attachments[i]))
  BY AttachmentTextIsList DEF SlackTyped, Range
<1>2. IsList(texts) /\ \A t \in Range(texts) : IsList(t)
  BY <1>1, MappedList DEF SlackTyped
<1> HIDE DEF texts
<1>3. IsList(FlattenSeq(texts)) /\ IsList(BlockTexts(p.blocks)) /\ IsList(p.text)
  BY <1>2, FlattenedList, BlockTextsAreList DEF SlackTyped
<1>4. IsList(p.text \o BlockTexts(p.blocks))
  BY <1>3, Concatenated
<1> QED BY <1>3, <1>4, Concatenated DEF SlackBody, texts

\* A notification that has a text.
HasText(n) ==
  /\ \E title, body, priority : n = Notification(title, body, priority)
  /\ IsList(n.title) /\ IsList(n.body)
  /\ n.title # <<>> \/ n.body # <<>>

LEMMA TitledHasText ==
  ASSUME NEW title, NEW body, NEW priority, IsList(title), IsList(body),
         title # <<>> \/ body # <<>>
  PROVE  HasText(Notification(title, body, priority))
BY DEF HasText, Notification

LEMMA GiteaHasText ==
  ASSUME NEW p, GiteaTyped(p)
  PROVE  HasText(ReadGitea(p))
<1>1. IsList(p.link) /\ IsList(p.commits) /\ IsList(<<>>) /\ IsList(<<p.event>>)
  BY EmptyList, OneWord DEF GiteaTyped
<1>2. HasText(Generic(p))
  BY <1>1, TwoWords, TitledHasText DEF Generic
<1>3. ASSUME NEW people, people \in {<<p.pusher, p.sender>>, <<p.sender, p.pusher>>}, NEW w
      PROVE  /\ IsList(<<w>> \o FirstNonEmpty(people, <<"someone">>))
             /\ <<w>> \o FirstNonEmpty(people, <<"someone">>) # <<>>
  <2>1. IsList(people) /\ \A t \in Range(people) : IsList(t)
    BY <1>3, TwoWords DEF GiteaTyped, Range
  <2>2. IsList(<<"someone">>) /\ IsList(<<w>>) /\ <<w>> # <<>>
    BY OneWord
  <2>3. IsList(FirstNonEmpty(people, <<"someone">>))
    BY <2>1, <2>2, FirstNonEmptyIs
  <2> QED BY <2>2, <2>3, Concatenated
<1>4. HasText(ReadPush(p)) /\ HasText(ReadRef(p))
  BY <1>1, <1>3, TitledHasText DEF ReadPush, ReadRef
<1>5. HasText(ReadPullRequest(p)) /\ HasText(ReadIssue(p)) /\ HasText(ReadRelease(p))
  BY <1>1, TwoWords, TitledHasText DEF ReadPullRequest, ReadIssue, ReadRelease
<1>6. HasText(ReadRun(p))
  BY <1>1, TwoWords, TitledHasText DEF ReadRun
<1>7. HasText(Notification(<<p.event>>, <<p.event>>, 3))
  BY <1>1, OneWord, TitledHasText
<1> QED BY <1>2, <1>4, <1>5, <1>6, <1>7 DEF ReadGitea

\* What is accepted has a text.
LEMMA AcceptedHasText ==
  ASSUME NEW p \in Payloads, Accepts(p)
  PROVE  HasText(Read(p))
<1>1. CASE p.format \in AlertFormats /\ AlertsTyped(p)
  <2>1. Read(p) = FormatAlerts(p)
    BY <1>1 DEF Read, AlertFormats
  <2>2. FormatAlerts(p) = Notification(FormatAlerts(p).title, FormatAlerts(p).body, FormatAlerts(p).priority)
    BY DEF FormatAlerts, Notification
  <2> QED BY <1>1, <2>1, <2>2, AlertTextsAre, TitledHasText
<1>2. CASE p.format = "gotify" /\ IsList(p.title) /\ IsList(p.message)
  <2>1. Read(p) = ReadGotify(p) /\ p.message # <<>>
    BY <1>2 DEF Read, Accepts, AcceptsGotify, AlertFormats
  <2> QED BY <1>2, <2>1, TitledHasText DEF ReadGotify
<1>3. CASE p.format = "slack" /\ SlackTyped(p)
  <2>1. Read(p) = ReadSlack(p) /\ SlackBody(p) # <<>>
    BY <1>3 DEF Read, Accepts, AcceptsSlack, AlertFormats
  <2>2. IsList(SlackBody(p)) /\ IsList(p.username)
    BY <1>3, SlackBodyIsList DEF SlackTyped
  <2> QED BY <2>1, <2>2, TitledHasText DEF ReadSlack
<1>4. CASE p.format = "gitea" /\ GiteaTyped(p)
  <2>1. Read(p) = ReadGitea(p)
    BY <1>4 DEF Read, AlertFormats
  <2> QED BY <1>4, <2>1, GiteaHasText
<1> QED BY <1>1, <1>2, <1>3, <1>4, PayloadAssumption

\* An entry renders to its prefix and a text.
LEMMA MarkdownIs ==
  ASSUME NEW p \in Payloads, Accepts(p), NEW name \in Names
  PROVE  /\ Markdown(EntryOf(p, name)) # <<>>
         /\ Range(PrefixOf[name]) \subseteq Range(Markdown(EntryOf(p, name)))
<1> DEFINE n == Read(p)
           prefix == PrefixOf[name]
           entry == EntryOf(p, name)
           mark == IF entry.title # <<>> /\ entry.priority >= 8 THEN <<"!!">> ELSE <<>>
<1>1. HasText(n) /\ IsList(prefix)
  BY AcceptedHasText, PrefixAssumption
<1>2. PICK title, body, priority : n = Notification(title, body, priority)
  BY <1>1 DEF HasText
<1>3. IsList(title) /\ IsList(body) /\ (title # <<>> \/ body # <<>>)
  BY <1>1, <1>2 DEF HasText, Notification
<1>4. /\ entry.title = IF title # <<>> THEN prefix \o title ELSE title
      /\ entry.body = IF title # <<>> THEN body ELSE prefix \o body
  BY <1>2 DEF EntryOf, Prefixed, Notification
<1> HIDE DEF n, prefix, entry
<1>5. /\ IsList(entry.title) /\ IsList(entry.body)
      /\ entry.title # <<>> \/ entry.body # <<>>
      /\ Range(prefix) \subseteq Range(entry.title) \/ Range(prefix) \subseteq Range(entry.body)
  <2>1. IsList(prefix \o title) /\ Range(prefix) \subseteq Range(prefix \o title)
        /\ (title # <<>> => prefix \o title # <<>>)
    BY <1>1, <1>3, Concatenated
  <2>2. IsList(prefix \o body) /\ Range(prefix) \subseteq Range(prefix \o body)
        /\ (body # <<>> => prefix \o body # <<>>)
    BY <1>1, <1>3, Concatenated
  <2> QED BY <1>3, <1>4, <2>1, <2>2
<1>6. IsList(mark)
  BY OneWord, EmptyList
<1>7. Markdown(entry) = mark \o entry.title \o entry.body
  BY DEF Markdown
<1> HIDE DEF mark
<1>8. IsList(mark \o entry.title) /\ Range(entry.title) \subseteq Range(mark \o entry.title)
      /\ (entry.title # <<>> => mark \o entry.title # <<>>)
  BY <1>5, <1>6, Concatenated
<1>9. /\ Range(mark \o entry.title) \subseteq Range(Markdown(entry))
      /\ Range(entry.body) \subseteq Range(Markdown(entry))
      /\ (mark \o entry.title) # <<>> \/ entry.body # <<>> => Markdown(entry) # <<>>
  BY <1>5, <1>7, <1>8, Concatenated
<1> QED BY <1>5, <1>8, <1>9 DEF entry, prefix

------------------------------------------------------------------------------
(* The entries that are queued. *)

\* What was queued is what its payload is read as.
QueuedInv ==
  queued # Nothing =>
    /\ queued.payload \in Payloads /\ Accepts(queued.payload)
    /\ queued.name \in Names
    /\ queued.entry = EntryOf(queued.payload, queued.name)

LEMMA InitQueuedInv == Init => QueuedInv
BY DEF Init, QueuedInv

LEMMA QueueQueuedInv ==
  ASSUME BudgetInv, NEW r \in Requests, NEW p \in Payloads, Queue(r, p)
  PROVE  QueuedInv'
<1>1. queued' = [pc |-> "queued", name |-> request[r].name, payload |-> p,
                 entry |-> EntryOf(p, request[r].name)]
  BY DEF Queue
<1>2. request[r].name \in Names /\ Accepts(p)
  BY DEF Queue, At, BudgetInv, LimiterType, RequestType, NoRequest
<1> QED BY <1>1, <1>2 DEF QueuedInv

LEMMA NextQueuedInv == BudgetInv /\ QueuedInv /\ [Next]_vars => QueuedInv'
<1> SUFFICES ASSUME BudgetInv, QueuedInv, [Next]_vars PROVE QueuedInv'
  OBVIOUS
<1>1. CASE queued' = Nothing
  BY <1>1 DEF QueuedInv, Nothing
<1>2. ASSUME NEW r \in Requests, Handle(r) PROVE QueuedInv'
  <2>1. CASE \E name \in Names : Resolve(r, name)
    BY <1>1, <2>1 DEF Resolve, Goto
  <2>2. CASE AskLimiter(r) \/ Pass(r) \/ Throttle(r) \/ Refuse(r)
    BY <1>1, <2>2 DEF AskLimiter, Pass, Throttle, Refuse, Goto
  <2>3. CASE \E p \in Payloads : Queue(r, p)
    BY <2>3, QueueQueuedInv
  <2> QED BY <1>2, <2>1, <2>2, <2>3 DEF Handle
<1>3. CASE \E end \in DrawTimes, answer \in Answers : Draw(end, answer)
  BY <1>1, <1>3 DEF Draw
<1>4. CASE Clock
  BY <1>1, <1>4 DEF Clock
<1>5. CASE UNCHANGED vars
  BY <1>5 DEF vars, QueuedInv
<1> QED BY <1>2, <1>3, <1>4, <1>5 DEF Next

LEMMA QueuedInvariant == Spec => [](BudgetInv /\ QueuedInv)
<1>1. Init => BudgetInv /\ QueuedInv
  BY InitBudgetInv, InitQueuedInv
<1>2. (BudgetInv /\ QueuedInv) /\ [Next]_vars => (BudgetInv /\ QueuedInv)'
  BY NextBudgetInv, NextQueuedInv
<1> QED BY <1>1, <1>2, PTL DEF Spec

\* Whatever payload is accepted, its entry renders to a text with the prefix
\* of the token; and an entry of any number of alerts, in any order, has the
\* worst severity that fires, all the fingerprints and the right alert to chart
\* (queueEntry, server.go:173-182, with the parsers under internal/ingest).
THEOREM EntriesAreFaithful == Spec => []EntryFaithful
<1>1. QueuedInv => EntryFaithful
  <2> SUFFICES ASSUME QueuedInv, queued # Nothing
               PROVE  /\ Markdown(queued.entry) # <<>>
                      /\ Range(PrefixOf[queued.name]) \subseteq Range(Markdown(queued.entry))
                      /\ queued.payload.format \in AlertFormats =>
                           GroupFaithful(queued.payload, queued.name, queued.entry)
    BY DEF EntryFaithful
  <2> DEFINE p == queued.payload
             name == queued.name
  <2>1. p \in Payloads /\ Accepts(p) /\ name \in Names /\ queued.entry = EntryOf(p, name)
    BY DEF QueuedInv
  <2>2. p.format \in AlertFormats => AlertsTyped(p)
    BY <2>1, PayloadAssumption DEF AlertFormats
  <2> HIDE DEF p, name
  <2>3. p.format \in AlertFormats => GroupFaithful(p, name, EntryOf(p, name))
    BY <2>2, GroupIsFaithful
  <2>4. /\ Markdown(EntryOf(p, name)) # <<>>
        /\ Range(PrefixOf[name]) \subseteq Range(Markdown(EntryOf(p, name)))
    BY <2>1, MarkdownIs
  <2> QED BY <2>1, <2>3, <2>4 DEF p, name
<1> QED BY <1>1, QueuedInvariant, PTL

------------------------------------------------------------------------------
(* The charts that are drawn. *)

\* A chart is drawn after its alert began, from an answer of Prometheus.
DrawnInv ==
  drawn # Nothing =>
    \E end \in DrawTimes, startsAt \in Int, answer \in Answers :
      startsAt <= end /\ drawn = ChartForAlert(end, startsAt, answer)

LEMMA TargetBegan ==
  ASSUME NEW p \in Payloads, NEW name, Target(p, name) # NoAlert
  PROVE  Target(p, name).startsAt \in Int
<1>1. p.format \in AlertFormats /\ AlertsTyped(p)
  BY PayloadAssumption DEF Target, AlertFormats
<1>2. IsList(p.alerts)
  BY <1>1 DEF AlertsTyped
<1>3. Target(p, name) \in OptedIn(p)
  BY <1>1, <1>2, TargetIs
<1> QED BY <1>1, <1>3 DEF OptedIn, AlertsTyped

LEMMA NextDrawnInv == QueuedInv /\ DrawnInv /\ [Next]_vars => DrawnInv'
<1> SUFFICES ASSUME QueuedInv, DrawnInv, [Next]_vars PROVE DrawnInv'
  OBVIOUS
<1>1. CASE drawn' = Nothing
  BY <1>1 DEF DrawnInv, Nothing
<1>2. ASSUME NEW end \in DrawTimes, NEW answer \in Answers, Draw(end, answer) PROVE DrawnInv'
  <2> DEFINE startsAt == queued.entry.target.startsAt
  <2>1. startsAt <= end /\ drawn' = ChartForAlert(end, startsAt, answer)
    BY <1>2 DEF Draw
  <2>2. startsAt \in Int
    <3>1. queued.payload \in Payloads /\ queued.entry.target = Target(queued.payload, queued.name)
      BY <1>2 DEF QueuedInv, Draw, EntryOf
    <3> QED BY <1>2, <3>1, TargetBegan DEF Draw
  <2> HIDE DEF startsAt
  <2> QED BY <2>1, <2>2 DEF DrawnInv
<1>3. ASSUME NEW r \in Requests, Handle(r) PROVE DrawnInv'
  BY <1>1, <1>3 DEF Handle, Resolve, AskLimiter, Pass, Throttle, Refuse, Queue, Goto
<1>4. CASE Clock
  BY <1>1, <1>4 DEF Clock
<1>5. CASE UNCHANGED vars
  BY <1>5 DEF vars, DrawnInv
<1> QED BY <1>2, <1>3, <1>4, <1>5 DEF Next

LEMMA DrawnInvariant == Spec => []DrawnInv
<1>1. Init => DrawnInv
  BY DEF Init, DrawnInv
<1>2. QueuedInv /\ DrawnInv /\ [Next]_vars => DrawnInv'
  BY NextDrawnInv
<1> QED BY <1>1, <1>2, QueuedInvariant, PTL DEF Spec

\* The window ends at the time of the chart, and reaches back to the onset.
LEMMA WindowReachesOnset ==
  ASSUME NEW end \in Int, NEW startsAt \in Int, startsAt <= end
  PROVE  /\ StartOf(end, startsAt) \in Int /\ StartOf(end, startsAt) <= end
         /\ startsAt # Unset => StartOf(end, startsAt) <= startsAt
BY ChartAssumption DEF StartOf, Unset

LEMMA Division ==
  ASSUME NEW d \in Nat, NEW s \in Nat \ {0}
  PROVE  d \div s \in Nat /\ d % s \in 0..(s - 1) /\ d = s * (d \div s) + (d % s)
OBVIOUS

\* Twice the steps are enough for any window: the step is a whole number.
LEMMA StepIsLong ==
  ASSUME NEW start \in Int, NEW end \in Int, start <= end
  PROVE  /\ StepOf(start, end) \in Nat \ {0}
         /\ end - start <= StepOf(start, end) * (2 * Steps)
<1> DEFINE d == end - start
           q == d \div Steps
           step == StepOf(start, end)
<1>1. d \in Nat /\ Steps \in Nat \ {0}
  BY ChartAssumption
<1>2. q \in Nat /\ d % Steps \in 0..(Steps - 1) /\ d = Steps * q + (d % Steps)
  BY <1>1, Division
<1>3. step = Max({1, q})
  BY DEF StepOf
<1> HIDE DEF q, d, step
<1>4. Max({1, q}) = IF q >= 1 THEN q ELSE 1
  <2> DEFINE m == IF q >= 1 THEN q ELSE 1
  <2>1. m \in {1, q} /\ \A y \in {1, q} : m >= y
    BY <1>2
  <2>2. Max({1, q}) \in {1, q} /\ \A y \in {1, q} : Max({1, q}) >= y
    BY <2>1 DEF Max
  <2> QED BY <1>2, <2>2
<1>5. CASE q = 0
  <2>1. step = 1 /\ Steps * q = 0
    BY <1>1, <1>3, <1>4, <1>5
  <2> QED BY <1>1, <1>2, <2>1 DEF d, step
<1>6. CASE q # 0
  <2>1. step = q /\ q >= 1
    BY <1>2, <1>3, <1>4, <1>6
  <2>2. Steps <= Steps * q /\ Steps * q \in Nat
    BY <1>1, <1>2, <2>1
  <2>3. q * (2 * Steps) = Steps * q + Steps * q
    BY <1>1, <1>2
  <2> QED BY <1>1, <1>2, <2>1, <2>2, <2>3 DEF d, step
<1> QED BY <1>5, <1>6

LEMMA ProductGrows ==
  ASSUME NEW s \in Nat, NEW a \in Nat, NEW b \in Nat, a < b
  PROVE  s * (a + 1) <= s * b
<1>1. PICK k \in Nat : b = (a + 1) + k
  <2>1. b - (a + 1) \in Nat /\ b = (a + 1) + (b - (a + 1))
    OBVIOUS
  <2> QED BY <2>1
<1>2. s * ((a + 1) + k) = s * (a + 1) + s * k /\ s * k \in Nat /\ s * (a + 1) \in Nat
  OBVIOUS
<1> QED BY <1>1, <1>2

LEMMA FewPoints ==
  ASSUME NEW start \in Int, NEW end \in Int, start <= end
  PROVE  Cardinality(Points(start, end)) <= 2 * Steps + 1
<1> DEFINE step == StepOf(start, end)
           P == Points(start, end)
           g == [t \in P |-> (t - start) \div step]
<1>1. step \in Nat \ {0} /\ end - start <= step * (2 * Steps) /\ 2 * Steps \in Nat
  BY StepIsLong, ChartAssumption
<1>2. P = {t \in start..end : (t - start) % step = 0}
  BY DEF Points
<1> HIDE DEF step, P
<1>3. ASSUME NEW t \in P
      PROVE  g[t] \in 0..(2 * Steps) /\ t - start = step * g[t] /\ t \in Int
  <2>1. t \in Int /\ t - start \in Nat /\ t - start <= end - start /\ (t - start) % step = 0
    BY <1>2
  <2>2. g[t] \in Nat /\ t - start = step * g[t]
    <3> DEFINE x == t - start
    <3>1. g[t] = x \div step
      OBVIOUS
    <3>2. x \in Nat /\ x % step = 0
      BY <2>1
    <3> HIDE DEF x, g
    <3>3. x \div step \in Nat /\ x = step * (x \div step) + (x % step)
      BY <1>1, <3>2, Division
    <3>4. x = step * g[t] /\ g[t] \in Nat
      BY <1>1, <3>1, <3>2, <3>3
    <3> QED BY <3>4 DEF x
  <2> HIDE DEF g
  <2>3. step * g[t] <= step * (2 * Steps)
    BY <1>1, <2>1, <2>2
  <2>4. ~(g[t] > 2 * Steps)
    <3> SUFFICES ASSUME g[t] > 2 * Steps PROVE FALSE
      OBVIOUS
    <3>1. step * (2 * Steps + 1) <= step * g[t]
      BY <1>1, <2>2, ProductGrows
    <3>2. step * (2 * Steps + 1) = step * (2 * Steps) + step /\ step * (2 * Steps) \in Int /\ step * g[t] \in Int
      BY <1>1, <2>2
    <3> QED BY <1>1, <2>3, <3>1, <3>2
  <2> QED BY <1>1, <2>1, <2>2, <2>4
<1>4. g \in Injection(P, 0..(2 * Steps))
  <2>1. g \in [P -> 0..(2 * Steps)]
    BY <1>3
  <2>2. ASSUME NEW s \in P, NEW t \in P, g[s] = g[t] PROVE s = t
    <3>1. s - start = t - start /\ s \in Int /\ t \in Int
      BY <1>3, <2>2
    <3> QED BY <3>1
  <2> HIDE DEF g
  <2> QED BY <2>1, <2>2, Fun_IsInj
<1>5. IsFiniteSet(0..(2 * Steps)) /\ Cardinality(0..(2 * Steps)) = 2 * Steps + 1
  BY <1>1, FS_Interval
<1> HIDE DEF g
<1>6. Cardinality(P) <= Cardinality(0..(2 * Steps))
  BY <1>4, <1>5, FS_Injection
<1> QED BY <1>5, <1>6 DEF P

------------------------------------------------------------------------------
(* The order of the series. *)

\* Sets that a function pairs have the same number of elements.
LEMMA SameNumber ==
  ASSUME NEW S, NEW T, NEW f \in [S -> T], IsFiniteSet(S),
         \A a, b \in S : f[a] = f[b] => a = b, \A t \in T : \E s \in S : f[s] = t
  PROVE  IsFiniteSet(T) /\ Cardinality(T) = Cardinality(S)
<1>1. f \in Injection(S, T) /\ f \in Surjection(S, T)
  BY Fun_IsInj, Fun_IsSurj
<1>2. ExistsBijection(S, T)
  BY <1>1 DEF ExistsBijection, Bijection
<1> QED BY <1>2, FS_Bijection

\* The answers of Prometheus, as AnswerAssumption has them.
Labelled(answer) ==
  /\ IsList(answer)
  /\ \A i \in DOMAIN answer : answer[i].label \in Int /\ answer[i].samples \in Seq(Int)
  /\ \A i, j \in DOMAIN answer : answer[i].label = answer[j].label => i = j

\* The kept series with a smaller label.
Before(answer, i) == {k \in Kept(answer) : answer[k].label < answer[i].label}

LEMMA KeptIsFinite ==
  ASSUME NEW answer, Labelled(answer)
  PROVE  /\ IsFiniteSet(Kept(answer)) /\ Cardinality(Kept(answer)) \in Nat
         /\ Kept(answer) \subseteq DOMAIN answer
         /\ \A i : IsFiniteSet(Before(answer, i)) /\ Cardinality(Before(answer, i)) \in Nat
<1>1. Len(answer) \in Nat /\ DOMAIN answer = 1..Len(answer)
  BY ListIsFunction DEF Labelled
<1>2. IsFiniteSet(1..Len(answer)) /\ Kept(answer) \in SUBSET (1..Len(answer))
  BY <1>1, FS_Interval DEF Kept
<1>3. IsFiniteSet(Kept(answer))
  BY <1>2, FS_Subset
<1>4. \A i : Before(answer, i) \in SUBSET Kept(answer)
  BY DEF Before
<1>5. \A i : IsFiniteSet(Before(answer, i))
  BY <1>3, <1>4, FS_Subset
<1> QED BY <1>1, <1>2, <1>3, <1>5, FS_CardinalityType

\* Of two kept series, that with the smaller label has fewer before it.
LEMMA FewerBefore ==
  ASSUME NEW answer, Labelled(answer), NEW i \in Kept(answer), NEW j \in Kept(answer),
         answer[i].label < answer[j].label
  PROVE  Cardinality(Before(answer, i)) < Cardinality(Before(answer, j))
<1>1. answer[i].label \in Int /\ answer[j].label \in Int
      /\ \A k \in Kept(answer) : answer[k].label \in Int
  BY KeptIsFinite DEF Labelled
<1>2. Before(answer, i) \in SUBSET Before(answer, j)
      /\ i \in Before(answer, j) /\ i \notin Before(answer, i)
  BY <1>1 DEF Before
<1>3. IsFiniteSet(Before(answer, j)) /\ Cardinality(Before(answer, j)) \in Nat
      /\ Cardinality(Before(answer, i)) \in Nat
  BY KeptIsFinite
<1>4. Cardinality(Before(answer, i)) <= Cardinality(Before(answer, j))
      /\ Cardinality(Before(answer, i)) # Cardinality(Before(answer, j))
  BY <1>2, <1>3, FS_Subset
<1> QED BY <1>3, <1>4

\* The series have an order: each comes after those with a smaller label.
LEMMA OrderExists ==
  ASSUME NEW answer, Labelled(answer)
  PROVE  \E o : o \in Orders(answer)
<1> DEFINE K == Kept(answer)
           n == Cardinality(K)
           place == [i \in K |-> Cardinality(Before(answer, i)) + 1]
           o == [k \in 1..n |-> CHOOSE i \in K : place[i] = k]
<1>1. IsFiniteSet(K) /\ n \in Nat /\ \A i : Cardinality(Before(answer, i)) \in Nat
  BY KeptIsFinite
<1>2. \A i \in K, j \in K : i # j => answer[i].label < answer[j].label \/ answer[j].label < answer[i].label
  <2>1. K \subseteq DOMAIN answer
    BY KeptIsFinite
  <2> QED BY <2>1 DEF Labelled
<1>3. \A i \in K, j \in K : answer[i].label < answer[j].label => place[i] < place[j]
  BY <1>1, FewerBefore
<1>4. place \in [K -> 1..n]
  <2> SUFFICES ASSUME NEW i \in K PROVE Cardinality(Before(answer, i)) + 1 \in 1..n
    OBVIOUS
  <2>1. Before(answer, i) \in SUBSET K /\ i \notin Before(answer, i)
    <3>1. answer[i].label \in Int
      BY KeptIsFinite DEF Labelled
    <3> QED BY <3>1 DEF Before
  <2>2. Cardinality(Before(answer, i)) <= n /\ Cardinality(Before(answer, i)) # n
    BY <1>1, <2>1, FS_Subset
  <2> HIDE DEF n
  <2> QED BY <1>1, <2>2
<1> HIDE DEF place
<1>5. \A i \in K, j \in K : place[i] = place[j] => i = j
  <2> SUFFICES ASSUME NEW i \in K, NEW j \in K, i # j PROVE place[i] # place[j]
    OBVIOUS
  <2>1. place[i] < place[j] \/ place[j] < place[i]
    BY <1>2, <1>3
  <2>2. place[i] \in Int /\ place[j] \in Int
    BY <1>1, <1>4
  <2> QED BY <2>1, <2>2
<1>6. \A k \in 1..n : \E i \in K : place[i] = k
  <2>1. place \in Injection(K, 1..n)
    BY <1>4, <1>5, Fun_IsInj
  <2>2. IsFiniteSet(1..n) /\ Cardinality(1..n) = n
    <3> HIDE DEF n
    <3> QED BY <1>1, FS_Interval
  <2>3. place \in Surjection(K, 1..n)
    BY <2>1, <2>2, FS_Injection
  <2> QED BY <2>3 DEF Surjection
<1>7. \A k \in 1..n : o[k] \in K /\ place[o[k]] = k
  BY <1>6
<1>8. o \in [1..n -> K] /\ DOMAIN o = 1..n
  BY <1>7
<1> HIDE DEF o
<1>9. ASSUME NEW k \in DOMAIN o, NEW l \in DOMAIN o, k < l PROVE InOrder(answer, o[k], o[l])
  <2>1. /\ k \in Int /\ l \in Int /\ o[k] \in K /\ o[l] \in K
        /\ place[o[k]] = k /\ place[o[l]] = l
    BY <1>1, <1>7, <1>8
  <2>2. o[k] # o[l]
    BY <1>9, <2>1
  <2>3. answer[o[k]].label \in Int /\ answer[o[l]].label \in Int
    BY <2>1, KeptIsFinite DEF Labelled
  <2>4. ~(answer[o[l]].label < answer[o[k]].label)
    BY <1>3, <1>9, <2>1
  <2> QED BY <2>2, <2>3, <2>4 DEF InOrder
<1>10. o \in Orders(answer)
  BY <1>8, <1>9 DEF Orders
<1> QED BY <1>10

\* In such an order each series comes after as many as have a smaller label.
LEMMA OrderIsByLabel ==
  ASSUME NEW answer, Labelled(answer), NEW o \in Orders(answer)
  PROVE  LET n == Cardinality(Kept(answer))
         IN  /\ o \in [1..n -> Kept(answer)]
             /\ \A i \in Kept(answer) : \E k \in 1..n : o[k] = i
             /\ \A k \in 1..n : Cardinality(Before(answer, o[k])) = k - 1
<1> DEFINE K == Kept(answer)
           n == Cardinality(K)
<1>1. IsFiniteSet(K) /\ n \in Nat /\ \A i \in K : i \in DOMAIN answer /\ answer[i].label \in Int
  BY KeptIsFinite DEF Labelled
<1>2. o \in [1..n -> K] /\ \A k, l \in 1..n : k < l => InOrder(answer, o[k], o[l])
  BY DEF Orders
<1> HIDE DEF K, n
<1>3. \A k, l \in 1..n : k < l => answer[o[k]].label < answer[o[l]].label
  <2> SUFFICES ASSUME NEW k \in 1..n, NEW l \in 1..n, k < l
               PROVE  answer[o[k]].label < answer[o[l]].label
    OBVIOUS
  <2>1. InOrder(answer, o[k], o[l]) /\ o[k] \in K /\ o[l] \in K
    BY <1>2
  <2>2. answer[o[k]].label \in Int /\ answer[o[l]].label \in Int
    BY <1>1, <2>1
  <2>3. o[k] # o[l] /\ answer[o[k]].label <= answer[o[l]].label
    BY <2>1 DEF InOrder
  <2>4. answer[o[k]].label # answer[o[l]].label
    BY <1>1, <2>1, <2>3 DEF Labelled
  <2> QED BY <2>2, <2>3, <2>4
<1>4. \A k, l \in 1..n : answer[o[k]].label < answer[o[l]].label => k < l
  <2> SUFFICES ASSUME NEW k \in 1..n, NEW l \in 1..n, answer[o[k]].label < answer[o[l]].label, ~(k < l)
               PROVE  FALSE
    OBVIOUS
  <2>1. answer[o[k]].label \in Int /\ answer[o[l]].label \in Int /\ k \in Int /\ l \in Int
    BY <1>1, <1>2
  <2>2. k = l \/ l < k
    BY <2>1
  <2> QED BY <1>3, <2>1, <2>2
<1>5. \A k, l \in 1..n : o[k] = o[l] => k = l
  <2> SUFFICES ASSUME NEW k \in 1..n, NEW l \in 1..n, o[k] = o[l], k # l PROVE FALSE
    OBVIOUS
  <2>1. k < l \/ l < k
    BY <1>1
  <2>2. answer[o[k]].label \in Int
    BY <1>1, <1>2
  <2> QED BY <1>3, <2>1, <2>2
<1>6. \A i \in K : \E k \in 1..n : o[k] = i
  <2>1. o \in Injection(1..n, K)
    BY <1>2, <1>5, Fun_IsInj
  <2>2. Cardinality(1..n) = Cardinality(K)
    BY <1>1, FS_Interval DEF n
  <2>3. o \in Surjection(1..n, K)
    BY <1>1, <2>1, <2>2, FS_Injection
  <2> QED BY <2>3 DEF Surjection
<1>7. ASSUME NEW k \in 1..n PROVE Cardinality(Before(answer, o[k])) = k - 1
  <2> DEFINE S == 1..(k - 1)
             T == Before(answer, o[k])
             f == [l \in S |-> o[l]]
  <2>1. \A l \in S : l \in 1..n /\ l < k
    BY <1>1
  <2>2. f \in [S -> T]
    BY <1>2, <1>3, <2>1 DEF Before, K
  <2>3. \A a, b \in S : f[a] = f[b] => a = b
    BY <1>5, <2>1
  <2>4. \A t \in T : \E l \in S : f[l] = t
    <3> SUFFICES ASSUME NEW t \in T PROVE \E l \in S : o[l] = t
      OBVIOUS
    <3>1. t \in K /\ answer[t].label < answer[o[k]].label
      BY DEF Before, K
    <3>2. PICK l \in 1..n : o[l] = t
      BY <1>6, <3>1
    <3>3. l < k
      BY <1>4, <3>1, <3>2
    <3> QED BY <1>1, <3>2, <3>3
  <2>5. IsFiniteSet(S) /\ Cardinality(S) = k - 1
    BY <1>1, FS_Interval
  <2> HIDE DEF S, T, f
  <2>6. Cardinality(T) = Cardinality(S)
    BY <2>2, <2>3, <2>4, <2>5, SameNumber
  <2> QED BY <2>5, <2>6 DEF T
<1> QED BY <1>2, <1>6, <1>7 DEF n, K

\* Series and their indices are as many.
LEMMA RankIs ==
  ASSUME NEW answer, Labelled(answer)
  PROVE  /\ Cardinality(WithData(answer)) = Cardinality(Kept(answer))
         /\ \A s \in WithData(answer) : \E i \in Kept(answer) : s = answer[i]
         /\ \A i \in Kept(answer) : Rank(answer, answer[i]) = Cardinality(Before(answer, i))
<1> DEFINE K == Kept(answer)
<1>1. IsFiniteSet(K) /\ K \subseteq DOMAIN answer /\ \A i : IsFiniteSet(Before(answer, i))
  BY KeptIsFinite
<1>2. \A i, j \in K : answer[i] = answer[j] => i = j
  BY <1>1 DEF Labelled
<1>3. WithData(answer) = {answer[i] : i \in K}
  BY DEF WithData, Kept, Range
<1> HIDE DEF K
<1>4. Cardinality(WithData(answer)) = Cardinality(K)
  <2> DEFINE f == [i \in K |-> answer[i]]
  <2>1. /\ f \in [K -> WithData(answer)] /\ \A i, j \in K : f[i] = f[j] => i = j
        /\ \A s \in WithData(answer) : \E i \in K : f[i] = s
    BY <1>2, <1>3
  <2> HIDE DEF f
  <2> QED BY <1>1, <2>1, SameNumber
<1>5. ASSUME NEW i \in K PROVE Rank(answer, answer[i]) = Cardinality(Before(answer, i))
  <2> DEFINE S == Before(answer, i)
             T == {s \in WithData(answer) : s.label < answer[i].label}
             f == [k \in S |-> answer[k]]
  <2>1. /\ f \in [S -> T] /\ \A k, j \in S : f[k] = f[j] => k = j
        /\ \A s \in T : \E k \in S : f[k] = s
    BY <1>2, <1>3 DEF Before, K
  <2>2. IsFiniteSet(S)
    BY <1>1
  <2> HIDE DEF f, S, T
  <2>3. Cardinality(T) = Cardinality(S)
    BY <2>1, <2>2, SameNumber
  <2> QED BY <2>3 DEF Rank, S, T
<1> QED BY <1>3, <1>4, <1>5 DEF K

\* The rows of a chart hold all the samples of their series.
LEMMA RowsAre ==
  ASSUME NEW w \in Nat, NEW series, DOMAIN series = 1..w, \A i \in 1..w : series[i].samples \in Seq(Int)
  PROVE  /\ Len(Render(series).rows) = w
         /\ \A i \in 1..w :
              LET row == Render(series).rows[i]
                  samples == series[i].samples
              IN  /\ DOMAIN samples \subseteq DOMAIN row
                  /\ \A j \in DOMAIN row : row[j] = IF j \in DOMAIN samples THEN samples[j] ELSE Null
<1> DEFINE width == Len(Columns(series))
           rows == [i \in 1..w |-> Row(series[i].samples, width)]
           S == {Row(series[i].samples, width) : i \in 1..w}
<1>1. Render(series).rows = rows
  BY DEF Render
<1>2. Len(rows) = w
  <2>1. \A i \in 1..w : Row(series[i].samples, width) \in S
    OBVIOUS
  <2> HIDE DEF S, width
  <2>2. rows \in Seq(S)
    BY <2>1
  <2> QED BY <2>2
<1>3. ASSUME NEW i \in 1..w PROVE width \in Nat /\ Len(series[i].samples) <= width
  <2> DEFINE f == [j \in 1..w |-> Len(series[j].samples)]
             L == Longest(series)
  <2>1. f \in [1..w -> Nat] /\ w # 0
    OBVIOUS
  <2> HIDE DEF f
  <2>2. \E m \in 1..w : (\A j \in 1..w : f[j] <= f[m]) /\ (\A j \in 1..(m - 1) : f[j] < f[m])
    BY <2>1, FirstLargest
  <2>3. \E m \in DOMAIN series :
          /\ \A j \in DOMAIN series : Len(series[j].samples) <= Len(series[m].samples)
          /\ \A j \in 1..m - 1 : Len(series[j].samples) < Len(series[m].samples)
    <3>1. PICK m \in 1..w : (\A j \in 1..w : f[j] <= f[m]) /\ (\A j \in 1..(m - 1) : f[j] < f[m])
      BY <2>2
    <3>2. \A j \in 1..w : f[j] = Len(series[j].samples)
      BY DEF f
    <3>3. \A j \in 1..(m - 1) : j \in 1..w
      OBVIOUS
    <3>4. \A j \in 1..w : Len(series[j].samples) <= Len(series[m].samples)
      BY <3>1, <3>2
    <3>5. \A j \in 1..m - 1 : Len(series[j].samples) < Len(series[m].samples)
      BY <3>1, <3>2, <3>3
    <3> QED BY <3>4, <3>5
  <2>4. L \in DOMAIN series /\ \A j \in DOMAIN series : Len(series[j].samples) <= Len(series[L].samples)
    BY <2>3 DEF Longest
  <2> HIDE DEF L
  <2>5. Columns(series) = series[L].samples
    BY DEF Columns, L
  <2> QED BY <2>4, <2>5
<1> HIDE DEF width
<1>4. ASSUME NEW i \in 1..w
      PROVE  /\ DOMAIN series[i].samples \subseteq DOMAIN rows[i]
             /\ \A j \in DOMAIN rows[i] :
                  rows[i][j] = IF j \in DOMAIN series[i].samples THEN series[i].samples[j] ELSE Null
  <2>1. rows[i] = [j \in 1..width |-> IF j <= Len(series[i].samples) THEN series[i].samples[j] ELSE Null]
    BY DEF Row
  <2>2. width \in Nat /\ Len(series[i].samples) <= width /\ Len(series[i].samples) \in Nat
        /\ DOMAIN series[i].samples = 1..Len(series[i].samples)
    BY <1>3
  <2> HIDE DEF rows
  <2> QED BY <2>1, <2>2
<1> HIDE DEF rows
<1> QED BY <1>1, <1>2, <1>4

LEMMA SeriesAre ==
  ASSUME NEW answer, Labelled(answer)
  PROVE  LET n == Cardinality(Kept(answer))
             w == Min({MaxSeries, n})
         IN  /\ n \in Nat /\ w \in Nat /\ w <= n /\ (w = MaxSeries \/ w = n)
             /\ DOMAIN SeriesOf(answer) = 1..w
             /\ \A i \in 1..w : SeriesOf(answer)[i].samples \in Seq(Int)
             /\ \A i \in Kept(answer) : Cardinality(Before(answer, i)) < MaxSeries =>
                  /\ Cardinality(Before(answer, i)) + 1 \in 1..w
                  /\ SeriesOf(answer)[Cardinality(Before(answer, i)) + 1] = answer[i]
<1> DEFINE K == Kept(answer)
           n == Cardinality(K)
           w == Min({MaxSeries, n})
           order == CHOOSE o \in Orders(answer) : TRUE
<1>1. n \in Nat /\ K \subseteq DOMAIN answer /\ MaxSeries \in Nat \ {0}
      /\ \A i : Cardinality(Before(answer, i)) \in Nat
  BY KeptIsFinite, ChartAssumption
<1>2. w \in Nat /\ w <= n /\ (w = MaxSeries \/ w = n)
  <2> HIDE DEF n
  <2>1. \E m \in {MaxSeries, n} : \A y \in {MaxSeries, n} : m <= y
    BY <1>1
  <2>2. w \in {MaxSeries, n} /\ \A y \in {MaxSeries, n} : w <= y
    BY <2>1 DEF Min
  <2> QED BY <1>1, <2>2
<1>3. order \in Orders(answer)
  BY OrderExists
<1>4. SeriesOf(answer) = [i \in 1..w |-> answer[order[i]]]
  BY DEF SeriesOf
<1> HIDE DEF order, w
<1>5. /\ order \in [1..n -> K]
      /\ \A i \in K : \E k \in 1..n : order[k] = i
      /\ \A k \in 1..n : Cardinality(Before(answer, order[k])) = k - 1
  BY <1>3, OrderIsByLabel
<1> HIDE DEF n, K
<1>6. \A i \in 1..w : i \in 1..n
  BY <1>1, <1>2
<1>7. \A i \in 1..w : SeriesOf(answer)[i].samples \in Seq(Int)
  <2> SUFFICES ASSUME NEW i \in 1..w PROVE SeriesOf(answer)[i].samples \in Seq(Int)
    OBVIOUS
  <2>1. order[i] \in DOMAIN answer
    BY <1>1, <1>5, <1>6
  <2> QED BY <1>4, <2>1 DEF Labelled
<1>8. ASSUME NEW i \in K, Cardinality(Before(answer, i)) < MaxSeries
      PROVE  /\ Cardinality(Before(answer, i)) + 1 \in 1..w
             /\ SeriesOf(answer)[Cardinality(Before(answer, i)) + 1] = answer[i]
  <2>1. PICK k \in 1..n : order[k] = i
    BY <1>5
  <2>2. Cardinality(Before(answer, i)) + 1 = k
    BY <1>1, <1>5, <2>1
  <2>3. k \in 1..w
    BY <1>1, <1>2, <1>8, <2>2
  <2> QED BY <1>4, <2>1, <2>2, <2>3
<1> QED BY <1>1, <1>2, <1>4, <1>7, <1>8 DEF n, K, w

\* A chart reaches back to the onset of its alert, asks for no more points than
\* Prometheus evaluates, and shows the series with the smallest labels, all of
\* their samples, in the order of the labels: whatever the order of the answer,
\* however late the chart is drawn, and for any window and number of steps and
\* series (chart.go:53-190).
THEOREM ChartsAreFaithful == Spec => []ChartFaithful
<1>1. DrawnInv => ChartFaithful
  <2> SUFFICES ASSUME DrawnInv, Drawn PROVE ChartFaithful
    BY DEF ChartFaithful
  <2>1. PICK end \in DrawTimes, startsAt \in Int, answer \in Answers :
          startsAt <= end /\ drawn = ChartForAlert(end, startsAt, answer)
    BY DEF DrawnInv, Drawn
  <2> DEFINE start == StartOf(end, startsAt)
             series == SeriesOf(answer)
             w == Min({MaxSeries, Cardinality(Kept(answer))})
  <2>2. /\ drawn.startsAt = startsAt /\ drawn.start = start /\ drawn.end = end
        /\ drawn.answer = answer /\ drawn.picture = Render(series)
    BY <2>1 DEF Drawn, ChartForAlert
  <2>3. end \in Int /\ Labelled(answer)
    BY AnswerAssumption DEF Labelled, Range
  <2> HIDE DEF start, series, w
  <2>4. start \in Int /\ start <= end /\ (startsAt # Unset => start <= startsAt)
    BY <2>1, <2>3, WindowReachesOnset DEF start
  <2>5. Cardinality(Points(start, end)) <= 2 * Steps + 1
    BY <2>3, <2>4, FewPoints
  <2>6. /\ w \in Nat /\ DOMAIN series = 1..w
        /\ \A i \in 1..w : series[i].samples \in Seq(Int)
        /\ \A i \in Kept(answer) : Cardinality(Before(answer, i)) < MaxSeries =>
             /\ Cardinality(Before(answer, i)) + 1 \in 1..w
             /\ series[Cardinality(Before(answer, i)) + 1] = answer[i]
    BY <2>3, SeriesAre DEF w, series
  <2>7. /\ Len(Render(series).rows) = w
        /\ \A i \in 1..w :
              LET row == Render(series).rows[i]
                  samples == series[i].samples
              IN  /\ DOMAIN samples \subseteq DOMAIN row
                  /\ \A j \in DOMAIN row : row[j] = IF j \in DOMAIN samples THEN samples[j] ELSE Null
    BY <2>6, RowsAre
  <2>8. Len(Render(series).rows) = Min({MaxSeries, Cardinality(WithData(answer))})
    BY <2>3, <2>7, RankIs DEF w
  <2>9. ASSUME NEW s \in WithData(answer), Rank(answer, s) < MaxSeries
        PROVE  LET row == Render(series).rows[Rank(answer, s) + 1]
               IN  /\ DOMAIN s.samples \subseteq DOMAIN row
                   /\ \A j \in DOMAIN row : row[j] = IF j \in DOMAIN s.samples THEN s.samples[j] ELSE Null
    <3>1. PICK i \in Kept(answer) : s = answer[i]
      BY <2>3, RankIs
    <3>2. Rank(answer, s) = Cardinality(Before(answer, i))
      BY <2>3, <3>1, RankIs
    <3>3. Rank(answer, s) + 1 \in 1..w /\ series[Rank(answer, s) + 1] = s
      BY <2>6, <2>9, <3>1, <3>2
    <3> QED BY <2>7, <3>3
  <2> QED BY <2>2, <2>4, <2>5, <2>8, <2>9 DEF ChartFaithful
<1> QED BY <1>1, DrawnInvariant, PTL
================================================================================

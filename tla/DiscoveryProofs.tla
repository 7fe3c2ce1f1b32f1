---------------------------- MODULE DiscoveryProofs ----------------------------
(***************************************************************************)
(* That the token bucket bounds the offers, over any window of time and    *)
(* for any rate and burst; and that only races bring two bursts for a node *)
(* closer together than the base back-off, for any back-off.               *)
(*                                                                         *)
(* A window that began after the bucket was last touched has seen no       *)
(* offer.  In one that began before that, what was offered and what is     *)
(* left in the bucket were in it at the beginning or have trickled in      *)
(* until it was touched.                                                   *)
(*                                                                         *)
(* A record makes its node wait for the base back-off from the last burst; *)
(* so a tick that comes too soon found no record, and each way to lose one *)
(* excuses the node until a tick has given it another.                     *)
(***************************************************************************)
EXTENDS Discovery, FiniteSetTheorems, WellFoundedInduction, TLAPS

BucketType ==
  /\ bucket \in [Node -> [tokens : 0 .. Burst, idle : 0 .. LongIdle]]
  /\ window \in [age : Nat, offers : Nat]

Budget(tokens, idle, age, offers) ==
  IF idle <= age THEN Token * offers + tokens <= Burst + Rate * (age - idle)
  ELSE offers = 0

BucketInv ==
  /\ BucketType
  /\ Budget(bucket[Watched].tokens, bucket[Watched].idle, window.age, window.offers)
-----------------------------------------------------------------------------
LEMMA Scaling ==
  ASSUME NEW r \in Nat, NEW a \in Int, NEW b \in Int, a <= b
  PROVE  r * a <= r * b /\ r * a \in Int /\ r * b \in Int
  BY SMT

(* What a bucket holds after it is touched.                                *)
LEMMA RefilledBounds ==
  ASSUME BucketType, NEW n \in Node
  PROVE  /\ Refilled(n) \in 0 .. Burst
         /\ Refilled(n) <= bucket[n].tokens + Rate * bucket[n].idle
<1>1. bucket[n].tokens \in 0 .. Burst /\ bucket[n].idle \in Nat
  BY DEF BucketType
<1>2. Rate * bucket[n].idle \in Nat
  BY <1>1, BucketAssumption
<1> QED
  BY <1>1, <1>2, BucketAssumption DEF Refilled, Smaller

(* An offer is paid for.                                                   *)
LEMMA OfferPaid ==
  ASSUME NEW tokens \in 0 .. Burst, NEW idle \in Nat, NEW age \in Nat, NEW offers \in Nat,
         NEW left \in 0 .. Burst, left <= tokens + Rate * idle,
         Budget(tokens, idle, age, offers)
  PROVE  /\ Budget(left, 0, age, offers)
         /\ left >= Token => Budget(left - Token, 0, age, offers + 1)
<1> DEFINE was == Rate * (age - idle)  now == Rate * age  in == Rate * idle  paid == Token * offers
<1>1. was \in Int /\ now \in Int /\ in \in Int /\ now = was + in /\ now >= 0
  BY BucketAssumption, SMT
<1>2. paid \in Nat /\ Token * (offers + 1) = paid + Token
  BY BucketAssumption, SMT
<1>3. idle <= age => paid + tokens <= Burst + was
  BY DEF Budget
<1>4. ~(idle <= age) => paid = 0
  <2>1. SUFFICES ASSUME ~(idle <= age) PROVE paid = 0
    OBVIOUS
  <2>2. offers = 0
    BY <2>1 DEF Budget
  <2> QED
    BY <2>2, BucketAssumption, SMT
<1>5. left <= tokens + in
  OBVIOUS
<1> HIDE DEF was, in
<1>6. paid + left <= Burst + now
  BY <1>1, <1>2, <1>3, <1>4, <1>5, BucketAssumption
<1>7. 0 <= age /\ age - 0 = age
  OBVIOUS
<1> QED
  BY <1>2, <1>6, <1>7, BucketAssumption DEF Budget

(* Time passes.                                                            *)
LEMMA TimePasses ==
  ASSUME NEW tokens \in 0 .. Burst, NEW idle \in 0 .. LongIdle, NEW age \in Nat, NEW offers \in Nat,
         Budget(tokens, idle, age, offers)
  PROVE  /\ Budget(tokens, Smaller(idle + 1, LongIdle), age + 1, offers)
         /\ Budget(tokens, Smaller(idle + 1, LongIdle), 0, 0)
<1> DEFINE then == Smaller(idle + 1, LongIdle)
<1>1. then \in Nat /\ then <= idle + 1 /\ then >= idle
  BY BucketAssumption DEF Smaller
<1> HIDE DEF then
<1>2. Rate \in Nat /\ Token \in Nat /\ Burst \in Nat
  BY BucketAssumption
<1>3. Budget(tokens, then, age + 1, offers)
  <2>1. CASE idle <= age
    <3>1. Token * offers + tokens <= Burst + Rate * (age - idle)
      BY <2>1 DEF Budget
    <3>2. Rate * (age - idle) <= Rate * (age + 1 - then)
      BY <1>1, <1>2, Scaling
    <3>3. then <= age + 1
      BY <1>1, <2>1
    <3> QED
      BY <1>1, <1>2, <3>1, <3>2, <3>3 DEF Budget
  <2>2. CASE ~(idle <= age)
    <3>1. offers = 0
      BY <2>2 DEF Budget
    <3>2. CASE then <= age + 1
      <4>1. Rate * (age + 1 - then) >= 0
        BY <1>1, <1>2, <3>2
      <4>2. Token * offers = 0
        BY <3>1, <1>2
      <4> QED
        BY <1>1, <1>2, <3>2, <4>1, <4>2 DEF Budget
    <3>3. CASE ~(then <= age + 1)
      BY <3>1, <3>3 DEF Budget
    <3> QED
      BY <3>2, <3>3
  <2> QED
    BY <2>1, <2>2
<1>4. Budget(tokens, then, 0, 0)
  <2>1. then <= 0 => Rate * (0 - then) = 0
    BY <1>1, <1>2
  <2>2. Token * 0 = 0
    BY <1>2
  <2> QED
    BY <1>1, <1>2, <2>1, <2>2 DEF Budget
<1> QED
  BY <1>3, <1>4 DEF then
-----------------------------------------------------------------------------
LEMMA BucketInit == Init => BucketInv
<1> SUFFICES ASSUME Init PROVE BucketInv
  OBVIOUS
<1>1. BucketType
  BY BucketAssumption DEF Init, BucketType
<1>2. window.age = 0 /\ window.offers = 0
  BY DEF Init
<1>3. bucket[Watched].tokens = Burst /\ bucket[Watched].idle = LongIdle
  BY NodeAssumption DEF Init
<1>4. Budget(Burst, LongIdle, 0, 0)
  <2>1. Token * 0 = 0 /\ (LongIdle <= 0 => Rate * (0 - LongIdle) = 0)
    BY BucketAssumption
  <2> QED
    BY <2>1, BucketAssumption DEF Budget
<1> QED
  BY <1>1, <1>2, <1>3, <1>4 DEF BucketInv

LEMMA BucketElapse == BucketInv /\ Elapse => BucketInv'
<1> SUFFICES ASSUME BucketInv, Elapse PROVE BucketInv'
  OBVIOUS
<1> DEFINE b == bucket[Watched]
<1>1. b.tokens \in 0 .. Burst /\ b.idle \in 0 .. LongIdle /\ window.age \in Nat /\ window.offers \in Nat
  BY NodeAssumption DEF BucketInv, BucketType
<1>2. bucket' = [n \in Node |-> [bucket[n] EXCEPT !.idle = Smaller(@ + 1, LongIdle)]]
  BY DEF Elapse
<1>3. bucket'[Watched].tokens = b.tokens /\ bucket'[Watched].idle = Smaller(b.idle + 1, LongIdle)
  BY <1>2, NodeAssumption DEF BucketInv, BucketType
<1>4. \/ window'.age = 0 /\ window'.offers = 0
      \/ window'.age = window.age + 1 /\ window'.offers = window.offers
  BY DEF Elapse, BucketInv, BucketType
<1>5. BucketType'
  <2>1. \A n \in Node : [bucket[n] EXCEPT !.idle = Smaller(@ + 1, LongIdle)]
                          \in [tokens : 0 .. Burst, idle : 0 .. LongIdle]
    BY BucketAssumption DEF BucketInv, BucketType, Smaller
  <2>2. window' \in [age : Nat, offers : Nat]
    BY DEF Elapse, BucketInv, BucketType
  <2> QED
    BY <1>2, <2>1, <2>2 DEF BucketType
<1>6. Budget(b.tokens, b.idle, window.age, window.offers)
  BY DEF BucketInv
<1> HIDE DEF b
<1>7. /\ Budget(b.tokens, Smaller(b.idle + 1, LongIdle), window.age + 1, window.offers)
      /\ Budget(b.tokens, Smaller(b.idle + 1, LongIdle), 0, 0)
  BY <1>1, <1>6, TimePasses
<1>8. Budget(bucket'[Watched].tokens, bucket'[Watched].idle, window'.age, window'.offers)
  BY <1>3, <1>4, <1>7
<1> QED
  BY <1>5, <1>8 DEF BucketInv, Budget

LEMMA BucketDiscover ==
  BucketInv /\ (\E f \in flights : f.to \in Node /\ TakeDiscover(f)) => BucketInv'
<1> SUFFICES ASSUME BucketInv, NEW f \in flights, f.to \in Node, TakeDiscover(f) PROVE BucketInv'
  OBVIOUS
<1> DEFINE n == f.to  b == bucket[Watched]  left == Refilled(n)
<1>1. BucketType
  BY DEF BucketInv
<1>2. left \in 0 .. Burst /\ left <= bucket[n].tokens + Rate * bucket[n].idle
  BY <1>1, RefilledBounds
<1>3. bucket' = [bucket EXCEPT ![n] = [tokens |-> IF Allows(n) THEN left - Token ELSE left, idle |-> 0]]
  BY DEF TakeDiscover
<1>4. window' = IF n = Watched /\ Allows(n) THEN [window EXCEPT !.offers = @ + 1] ELSE window
  BY DEF TakeDiscover
<1>5. Allows(n) <=> left >= Token
  BY DEF Allows
<1>6. b.tokens \in 0 .. Burst /\ b.idle \in Nat /\ window.age \in Nat /\ window.offers \in Nat
  BY <1>1, NodeAssumption DEF BucketType
<1>7. Budget(b.tokens, b.idle, window.age, window.offers)
  BY DEF BucketInv
<1> HIDE DEF left
<1>8. BucketType'
  <2>1. [tokens |-> IF Allows(n) THEN left - Token ELSE left, idle |-> 0]
          \in [tokens : 0 .. Burst, idle : 0 .. LongIdle]
    <3>1. CASE Allows(n)
      <4>1. left - Token \in 0 .. Burst
        BY <1>2, <1>5, <3>1, BucketAssumption
      <4> QED
        BY <3>1, <4>1, BucketAssumption
    <3>2. CASE ~Allows(n)
      BY <1>2, <3>2, BucketAssumption
    <3> QED
      BY <3>1, <3>2
  <2>2. bucket' \in [Node -> [tokens : 0 .. Burst, idle : 0 .. LongIdle]]
    BY <1>1, <1>3, <2>1 DEF BucketType
  <2>3. window' \in [age : Nat, offers : Nat]
    BY <1>1, <1>4 DEF BucketType
  <2> QED
    BY <2>2, <2>3 DEF BucketType
<1>9. Budget(bucket'[Watched].tokens, bucket'[Watched].idle, window'.age, window'.offers)
  <2>1. CASE n # Watched
    <3>1. bucket'[Watched] = b /\ window' = window
      BY <1>1, <1>3, <1>4, <2>1, NodeAssumption DEF BucketType
    <3> QED
      BY <1>7, <3>1
  <2>2. CASE n = Watched
    <3>1. bucket'[Watched] = [tokens |-> IF Allows(n) THEN left - Token ELSE left, idle |-> 0]
      BY <1>1, <1>3, <2>2 DEF BucketType
    <3>2. /\ Budget(left, 0, window.age, window.offers)
          /\ left >= Token => Budget(left - Token, 0, window.age, window.offers + 1)
      <4>1. left <= b.tokens + Rate * b.idle
        BY <1>2, <2>2
      <4> HIDE DEF b
      <4> QED
        BY <1>2, <1>6, <1>7, <4>1, OfferPaid
    <3>3. CASE Allows(n)
      <4>1. window'.age = window.age /\ window'.offers = window.offers + 1
        BY <1>1, <1>4, <2>2, <3>3 DEF BucketType
      <4>2. bucket'[Watched].tokens = left - Token /\ bucket'[Watched].idle = 0
        BY <3>1, <3>3
      <4> QED
        BY <1>5, <3>2, <3>3, <4>1, <4>2
    <3>4. CASE ~Allows(n)
      <4>1. window' = window
        BY <1>4, <3>4
      <4>2. bucket'[Watched].tokens = left /\ bucket'[Watched].idle = 0
        BY <3>1, <3>4
      <4> QED
        BY <3>2, <4>1, <4>2
    <3> QED
      BY <3>3, <3>4
  <2> QED
    BY <2>1, <2>2
<1> QED
  BY <1>8, <1>9 DEF BucketInv, Budget

LEMMA BucketUnchanged == BucketInv /\ UNCHANGED <<bucket, window>> => BucketInv'
  BY DEF BucketInv, BucketType, Budget
-----------------------------------------------------------------------------
(* What goes on between a node, the goroutine that registers it, and the   *)
(* ticks.                                                                  *)

(* A node the tick is at, or may get to, is none that stays connected.     *)
TickAtUnsettled ==
  /\ tick.pc \in {"due", "sent", "failed"} => tick.node \in Node
  /\ tick.node \notin Settled /\ tick.ids \cap Settled = {}

(* Nodes are registered by their goroutine, and offers go to those that    *)
(* are.                                                                    *)
RegisteredBySpawner ==
  /\ Settled \subseteq connected
  /\ \A n \in Node : spawner[n] = "unborn" <=> n \notin registered
  /\ \A f \in flights : f.kind = "OFFER" => f.to \in registered

(* A record counts a burst; and once the node's goroutine is done with it, *)
(* it makes the node wait for the base back-off from its last burst.       *)
RecordsMakeWait ==
  \A n \in Node : record[n] # NoRecord =>
    /\ record[n].attempt # 0
    /\ spawner[n] = "done" => record[n].next + since[n] >= Base

(* A node that is to wait has a record, unless it is excused: it is or was *)
(* connected, a tick dropped its record, or its goroutine is at it too.    *)
OthersAreExcused ==
  /\ connected \ Settled \subseteq excused
  /\ \A n \in Node \ (Settled \cup excused) : spawner[n] = "done" => record[n] # NoRecord
  /\ tick.pc = "due" /\ spawner[tick.node] # "done" => tick.node \in excused

IInv ==
  /\ TypeOK /\ TickAtUnsettled /\ RegisteredBySpawner /\ RecordsMakeWait
  /\ OthersAreExcused /\ OnlyRacesHurry
-----------------------------------------------------------------------------
(* computeDiscoveryBackoff.                                                *)
LEMMA LeastNumber ==
  ASSUME NEW S \in SUBSET Nat, S # {}
  PROVE  \E n \in S : \A m \in S : n <= m
<1>. DEFINE U == {0 .. n : n \in S}
<1>1. U \subseteq FiniteSubsetsOf(Nat) /\ U # {}
  <2>1. \A n \in S : IsFiniteSet(0 .. n) /\ 0 .. n \in SUBSET Nat
    BY FS_Interval
  <2>. QED
    BY <2>1 DEF FiniteSubsetsOf
<1>2. \E x \in U : \A y \in U : ~(<<y, x>> \in StrictSubsetOrdering(Nat))
  <2>. HIDE DEF U
  <2>. QED
    BY <1>1, FS_StrictSubsetOrderingWellFounded, WFMin
<1>3. PICK n \in S : \A m \in S : ~(<<0 .. m, 0 .. n>> \in StrictSubsetOrdering(Nat))
  BY <1>2
<1>4. ASSUME NEW m \in S, m < n
      PROVE  FALSE
  <2>. DEFINE a == 0 .. m
              b == 0 .. n
  <2>1. n \in Nat /\ m \in Nat
    OBVIOUS
  <2>2. a \in SUBSET Nat /\ b \in SUBSET Nat /\ a \subseteq b /\ a # b
    <3>1. n \in b /\ n \notin a
      BY <1>4, <2>1
    <3>. QED
      BY <1>4, <2>1, <3>1
  <2>3. ~(<<a, b>> \in StrictSubsetOrdering(Nat))
    BY <1>3
  <2>. HIDE DEF a, b
  <2>. QED
    BY <2>2, <2>3 DEF StrictSubsetOrdering
<1>. QED
  BY <1>3, <1>4

BackoffOn(m, f) ==
  f = [a \in 1 .. m |-> IF a = 1 THEN Base ELSE Smaller(2 * f[a - 1], MaxBackoff)]

(* The recursion Backoff stands for has a solution: by the least bound for *)
(* which it would not.                                                     *)
LEMMA BackoffExists ==
  ASSUME NEW m \in Nat
  PROVE  \E f : BackoffOn(m, f)
<1>. DEFINE Bad == {n \in Nat : ~ \E f : BackoffOn(n, f)}
<1>1. SUFFICES ASSUME Bad # {} PROVE FALSE
  OBVIOUS
<1>2. PICK n \in Bad : \A k \in Bad : n <= k
  BY <1>1, LeastNumber
<1>3. n # 0
  <2>1. BackoffOn(0, [k \in 1 .. 0 |-> 0])
    BY DEF BackoffOn
  <2>. QED BY <2>1
<1>4. PICK f : BackoffOn(n - 1, f)
  <2>1. n - 1 \in Nat /\ n - 1 \notin Bad
    BY <1>2, <1>3
  <2>. QED BY <2>1
<1>. DEFINE g == [k \in 1 .. n |-> IF k = 1 THEN Base ELSE Smaller(2 * f[k - 1], MaxBackoff)]
<1>5. ASSUME NEW k \in 1 .. n
      PROVE  g[k] = IF k = 1 THEN Base ELSE Smaller(2 * g[k - 1], MaxBackoff)
  <2>1. CASE k = 1
    BY <2>1
  <2>2. CASE k # 1
    <3>1. k - 1 \in 1 .. (n - 1) /\ k - 1 \in 1 .. n
      BY <2>2
    <3>2. f[k - 1] = IF k - 1 = 1 THEN Base ELSE Smaller(2 * f[(k - 1) - 1], MaxBackoff)
      BY <1>4, <3>1 DEF BackoffOn
    <3>3. g[k - 1] = f[k - 1]
      BY <3>1, <3>2
    <3>. QED BY <2>2, <3>3
  <2>. QED BY <2>1, <2>2
<1>6. BackoffOn(n, g)
  <2>1. g = [k \in 1 .. n |-> g[k]]
    OBVIOUS
  <2>. HIDE DEF g
  <2>. QED BY <1>5, <2>1 DEF BackoffOn
<1>. QED BY <1>6

(* A node is made to wait for the base back-off, and for the cap at most.  *)
LEMMA BackoffBounds ==
  ASSUME NEW a \in 1 .. MaxAttempt
  PROVE  Backoff[a] \in Base .. MaxBackoff
<1>. DEFINE Bad == {k \in 1 .. MaxAttempt : Backoff[k] \notin Base .. MaxBackoff}
<1>1. SUFFICES ASSUME Bad # {} PROVE FALSE
  OBVIOUS
<1>2. PICK k \in Bad : \A j \in Bad : k <= j
  <2>1. Bad \in SUBSET Nat
    OBVIOUS
  <2>. HIDE DEF Bad
  <2>. QED BY <1>1, <2>1, LeastNumber
<1>3. Backoff[k] = IF k = 1 THEN Base ELSE Smaller(2 * Backoff[k - 1], MaxBackoff)
  <2>1. BackoffOn(MaxAttempt, Backoff)
    BY BackoffAssumption, BackoffExists DEF Backoff, BackoffOn
  <2>. QED BY <2>1 DEF BackoffOn
<1>4. k # 1
  BY <1>3, BackoffAssumption
<1>5. Backoff[k - 1] \in Base .. MaxBackoff
  <2>1. k - 1 \in 1 .. MaxAttempt /\ ~ (k <= k - 1)
    BY <1>4, BackoffAssumption
  <2>. QED BY <1>2, <2>1
<1>. QED BY <1>3, <1>4, <1>5, BackoffAssumption DEF Smaller
-----------------------------------------------------------------------------
Records == [attempt : 0 .. MaxAttempt, next : -MaxLag .. MaxBackoff + Jitter]

(* updateDiscoveryBackoff: the record counts the burst, and the wait it    *)
(* imposes ends no sooner than the base back-off after the burst.          *)
LEMMA UpdatedRecord ==
  ASSUME TypeOK, NEW n \in Node, NEW sent \in BOOLEAN, NEW age \in 0 .. MaxLag,
         UpdateBackoff(n, sent, age)
  PROVE  /\ record' \in [Node -> Records]
         /\ record'[n].attempt # 0 /\ record'[n].next + age >= Base
         /\ \A m \in Node \ {n} : record'[m] = record[m]
<1>1. PICK a, jitter, b :
        /\ a = NextAttempt(n, sent) /\ jitter \in 0 .. Jitter
        /\ b = Larger(Backoff[a] + jitter - age, -MaxLag)
        /\ record' = [record EXCEPT ![n] = [attempt |-> a, next |-> b]]
  BY DEF UpdateBackoff, Updated, Delay
<1>2. record \in [Node -> Records]
  BY DEF TypeOK, Records
<1>3. a \in 1 .. MaxAttempt
  <2>1. record[n].attempt \in 0 .. MaxAttempt
    BY <1>2 DEF Records
  <2>. QED BY <1>1, <2>1, BackoffAssumption DEF NextAttempt, Smaller, Larger
<1>4. b \in -MaxLag .. MaxBackoff + Jitter /\ b + age >= Base
  <2>1. Backoff[a] \in Base .. MaxBackoff
    BY <1>3, BackoffBounds
  <2>. QED BY <1>1, <2>1, BackoffAssumption, BoundAssumption DEF Larger
<1>5. [attempt |-> a, next |-> b] \in Records
  BY <1>3, <1>4 DEF Records
<1>. QED BY <1>1, <1>2, <1>3, <1>4, <1>5
-----------------------------------------------------------------------------
LEMMA InitEstablishes == Init => IInv
<1>. SUFFICES ASSUME Init PROVE IInv
  OBVIOUS
<1>1. TypeOK
  <2>1. LongSince \in 0 .. LongSince
    BY BackoffAssumption, BoundAssumption DEF LongSince
  <2>2. NoRecord \in [attempt : 0 .. MaxAttempt, next : -MaxLag .. MaxBackoff + Jitter]
    BY BackoffAssumption, BoundAssumption DEF NoRecord
  <2>. QED BY <2>1, <2>2, NodeAssumption, BucketAssumption, BoundAssumption DEF Init, TypeOK, NoTick
<1>2. TickAtUnsettled
  BY NodeAssumption DEF Init, TickAtUnsettled, NoTick
<1>3. RegisteredBySpawner
  BY DEF Init, RegisteredBySpawner
<1>4. RecordsMakeWait
  BY DEF Init, RecordsMakeWait
<1>5. OthersAreExcused
  BY DEF Init, OthersAreExcused, NoTick
<1>6. OnlyRacesHurry
  BY DEF Init, OnlyRacesHurry, NoTick
<1>. QED BY <1>1, <1>2, <1>3, <1>4, <1>5, <1>6 DEF IInv

(* The steps that leave the records and the time since the bursts alone.   *)
LEMMA RecordsStay ==
  ASSUME RecordsMakeWait, UNCHANGED <<record, since, spawner>>
  PROVE  RecordsMakeWait'
  BY DEF RecordsMakeWait

LEMMA SendsDatagrams ==
  ASSUME TypeOK, RegisteredBySpawner, NEW n \in Node, NEW T, NEW D, Send("DISCOVER", n, T, D)
  PROVE  /\ flights' \subseteq Datagram
         /\ \A f \in flights' : f.kind = "OFFER" => f.to \in registered
  BY DEF Send, Datagram, TypeOK, RegisteredBySpawner

LEMMA ElapsePreserves == IInv /\ Elapse => IInv'
<1>. SUFFICES ASSUME IInv, Elapse PROVE IInv'
  OBVIOUS
<1>1. TypeOK /\ TickAtUnsettled /\ RegisteredBySpawner /\ RecordsMakeWait
      /\ OthersAreExcused /\ OnlyRacesHurry
  BY DEF IInv
<1>2. /\ tick.pc # "idle" => tick.age < MaxLag
      /\ record' = [n \in Node |-> IF record[n] = NoRecord THEN NoRecord
                                 ELSE [record[n] EXCEPT !.next = Larger(@ - 1, -MaxLag)]]
      /\ tick' = IF tick.pc \in {"idle", "listed"} THEN tick ELSE [tick EXCEPT !.age = @ + 1]
      /\ bucket' = [n \in Node |-> [bucket[n] EXCEPT !.idle = Smaller(@ + 1, LongIdle)]]
      /\ since' = [n \in Node |-> Smaller(since[n] + 1, LongSince)]
      /\ \/ window' = [age |-> 0, offers |-> 0]
         \/ window.age < MaxWindow /\ window' = [window EXCEPT !.age = @ + 1]
      /\ UNCHANGED <<registered, connected, spawner, flights, excused>>
  BY DEF Elapse
<1>3. ASSUME NEW n \in Node
      PROVE  /\ record[n] = NoRecord => record'[n] = NoRecord
             /\ record[n] # NoRecord =>
                  /\ record'[n].attempt = record[n].attempt
                  /\ record'[n].next = Larger(record[n].next - 1, -MaxLag)
             /\ record'[n] \in Records
             /\ since'[n] = Smaller(since[n] + 1, LongSince)
  <2>1. record[n] \in Records
    BY <1>1 DEF TypeOK, Records
  <2>2. Larger(record[n].next - 1, -MaxLag) \in -MaxLag .. MaxBackoff + Jitter
    BY <2>1, BoundAssumption, BackoffAssumption DEF Larger, Records
  <2>. QED BY <1>2, <2>1, <2>2 DEF Records
<1>4. /\ tick'.pc = tick.pc /\ tick'.ids = tick.ids /\ tick'.node = tick.node
      /\ tick'.age \in 0 .. MaxLag /\ (tick.pc = "due" => tick'.age = tick.age + 1)
      /\ tick' \in [pc : {"idle", "listed", "scan", "due", "sent", "failed"}, ids : SUBSET Node,
                   age : 0 .. MaxLag, node : Node \cup {NoNode}]
  <2>1. tick \in [pc : {"idle", "listed", "scan", "due", "sent", "failed"}, ids : SUBSET Node,
                 age : 0 .. MaxLag, node : Node \cup {NoNode}]
    BY <1>1 DEF TypeOK
  <2>2. CASE tick.pc \in {"idle", "listed"}
    BY <1>2, <2>1, <2>2
  <2>3. CASE tick.pc \notin {"idle", "listed"}
    <3>1. tick' = [tick EXCEPT !.age = @ + 1] /\ tick.age + 1 \in 0 .. MaxLag
      BY <1>2, <2>1, <2>3, BoundAssumption
    <3>. QED BY <2>1, <3>1
  <2>. QED BY <2>2, <2>3
<1>5. \A n \in Node : since[n] \in 0 .. LongSince /\ since'[n] \in 0 .. LongSince
  <2>1. LongSince \in Nat
    BY BackoffAssumption, BoundAssumption DEF LongSince
  <2>. QED BY <1>1, <1>3, <2>1 DEF TypeOK, Smaller
<1>6. TypeOK'
  <2>1. record' \in [Node -> Records]
    BY <1>2, <1>3
  <2>2. bucket' \in [Node -> [tokens : 0 .. Burst, idle : 0 .. LongIdle]]
    <3>1. \A n \in Node : [bucket[n] EXCEPT !.idle = Smaller(@ + 1, LongIdle)]
                            \in [tokens : 0 .. Burst, idle : 0 .. LongIdle]
      BY <1>1, BucketAssumption DEF TypeOK, Smaller
    <3>. QED BY <1>2, <3>1
  <2>3. since' \in [Node -> 0 .. LongSince]
    BY <1>2, <1>5
  <2>4. window' \in [age : 0 .. MaxWindow, offers : Nat]
    BY <1>1, <1>2, BoundAssumption DEF TypeOK
  <2>. QED BY <1>1, <1>2, <1>4, <2>1, <2>2, <2>3, <2>4 DEF TypeOK, Records
<1>7. TickAtUnsettled'
  BY <1>1, <1>4 DEF TickAtUnsettled
<1>8. RegisteredBySpawner'
  BY <1>1, <1>2 DEF RegisteredBySpawner
<1>9. RecordsMakeWait'
  <2>1. ASSUME NEW n \in Node, record'[n] # NoRecord, spawner[n] = "done"
        PROVE  record'[n].next + since'[n] >= Base
    <3>1. PICK a, b : a = record[n].next /\ b = since[n]
      OBVIOUS
    <3>2. a + b >= Base /\ a \in -MaxLag .. MaxBackoff + Jitter /\ b \in 0 .. Base + MaxLag
      BY <1>1, <1>3, <1>5, <2>1, <3>1 DEF RecordsMakeWait, TypeOK, LongSince
    <3>3. Larger(a - 1, -MaxLag) + Smaller(b + 1, Base + MaxLag) >= Base
      BY <3>2, BackoffAssumption, BoundAssumption DEF Larger, Smaller
    <3>. QED BY <1>3, <2>1, <3>1, <3>3 DEF LongSince
  <2>2. ASSUME NEW n \in Node, record'[n] # NoRecord
        PROVE  record'[n].attempt # 0
    BY <1>1, <1>3, <2>2 DEF RecordsMakeWait
  <2>. QED BY <1>2, <2>1, <2>2 DEF RecordsMakeWait
<1>10. OthersAreExcused'
  <2>1. ASSUME NEW n \in Node, record[n] # NoRecord
        PROVE  record'[n] # NoRecord
    BY <1>1, <1>3, <2>1 DEF RecordsMakeWait, NoRecord
  <2>. QED BY <1>1, <1>2, <1>4, <2>1 DEF OthersAreExcused
<1>11. OnlyRacesHurry'
  <2>1. SUFFICES ASSUME tick.pc = "due", tick.node \notin excused
                 PROVE  since'[tick.node] - tick'.age >= Base
    BY <1>2, <1>4 DEF OnlyRacesHurry
  <2>2. PICK a, b : a = tick.age /\ b = since[tick.node]
    OBVIOUS
  <2>3. tick.node \in Node /\ b - a >= Base /\ b \in 0 .. Base + MaxLag /\ a \in 0 .. MaxLag
        /\ a + 1 \in 0 .. MaxLag
    BY <1>1, <1>4, <1>5, <2>1, <2>2 DEF TickAtUnsettled, OnlyRacesHurry, TypeOK, LongSince
  <2>4. Smaller(b + 1, Base + MaxLag) - (a + 1) >= Base
    BY <2>3, BackoffAssumption, BoundAssumption DEF Smaller
  <2>. QED BY <1>3, <1>4, <2>1, <2>2, <2>3, <2>4 DEF LongSince
<1>. QED BY <1>6, <1>7, <1>8, <1>9, <1>10, <1>11 DEF IInv

LEMMA RegisterPreserves ==
  ASSUME IInv, NEW n \in Node, Register(n)
  PROVE  IInv'
<1>1. TypeOK /\ TickAtUnsettled /\ RegisteredBySpawner /\ RecordsMakeWait
      /\ OthersAreExcused /\ OnlyRacesHurry
  BY DEF IInv
<1>2. /\ spawner[n] = "unborn" /\ registered' = registered \cup {n}
      /\ spawner' = [spawner EXCEPT ![n] = "registered"]
      /\ UNCHANGED <<connected, record, tick, bucket, flights, since, excused, window>>
  BY DEF Register
<1>3. \A m \in Node : spawner'[m] = IF m = n THEN "registered" ELSE spawner[m]
  BY <1>1, <1>2 DEF TypeOK
<1>4. TypeOK'
  BY <1>1, <1>2 DEF TypeOK
<1>5. TickAtUnsettled' /\ OnlyRacesHurry'
  BY <1>1, <1>2 DEF TickAtUnsettled, OnlyRacesHurry
<1>6. RegisteredBySpawner'
  BY <1>1, <1>2, <1>3 DEF RegisteredBySpawner
<1>7. RecordsMakeWait'
  BY <1>1, <1>2, <1>3 DEF RecordsMakeWait
<1>8. OthersAreExcused'
  BY <1>1, <1>2, <1>3 DEF OthersAreExcused, TickAtUnsettled
<1>. QED BY <1>4, <1>5, <1>6, <1>7, <1>8 DEF IInv

(* The goroutine's own burst may come close to a tick's: the tick that is  *)
(* at the node then has found the goroutine at it, and excused the node.   *)
LEMMA SpawnBurstPreserves ==
  ASSUME IInv, NEW n \in Node, SpawnBurst(n)
  PROVE  IInv'
<1>1. TypeOK /\ TickAtUnsettled /\ RegisteredBySpawner /\ RecordsMakeWait
      /\ OthersAreExcused /\ OnlyRacesHurry
  BY DEF IInv
<1>2. PICK T, D, place :
        /\ spawner[n] = "registered" /\ Send("DISCOVER", n, T, D)
        /\ place \in {"sent", "failed"} /\ spawner' = [spawner EXCEPT ![n] = place]
        /\ since' = [since EXCEPT ![n] = 0]
        /\ UNCHANGED <<registered, connected, record, tick, bucket, excused, window>>
  BY DEF SpawnBurst
<1>3. \A m \in Node : /\ spawner'[m] = IF m = n THEN place ELSE spawner[m]
                      /\ since'[m] = IF m = n THEN 0 ELSE since[m]
  BY <1>1, <1>2 DEF TypeOK
<1>4. /\ flights' \subseteq Datagram
      /\ \A f \in flights' : f.kind = "OFFER" => f.to \in registered
  BY <1>1, <1>2, SendsDatagrams
<1>5. TypeOK'
  <2>1. since' \in [Node -> 0 .. LongSince]
    BY <1>1, <1>2, BackoffAssumption, BoundAssumption DEF TypeOK, LongSince
  <2>2. spawner' \in [Node -> {"unborn", "registered", "sent", "failed", "done"}]
    BY <1>1, <1>2 DEF TypeOK
  <2>. QED BY <1>1, <1>2, <1>4, <2>1, <2>2 DEF TypeOK
<1>6. TickAtUnsettled'
  BY <1>1, <1>2 DEF TickAtUnsettled
<1>7. RegisteredBySpawner'
  BY <1>1, <1>2, <1>3, <1>4 DEF RegisteredBySpawner
<1>8. RecordsMakeWait'
  BY <1>1, <1>2, <1>3 DEF RecordsMakeWait
<1>9. OthersAreExcused'
  BY <1>1, <1>2, <1>3 DEF OthersAreExcused, TickAtUnsettled
<1>10. OnlyRacesHurry'
  <2>1. SUFFICES ASSUME tick.pc = "due", tick.node \notin excused
                 PROVE  since'[tick.node] = since[tick.node]
    BY <1>1, <1>2 DEF OnlyRacesHurry
  <2>2. tick.node \in Node /\ spawner[tick.node] = "done"
    BY <1>1, <2>1 DEF OthersAreExcused, TickAtUnsettled
  <2>. QED BY <1>2, <1>3, <2>2
<1>. QED BY <1>5, <1>6, <1>7, <1>8, <1>9, <1>10 DEF IInv

LEMMA SpawnUpdatePreserves ==
  ASSUME IInv, NEW n \in Node, SpawnUpdate(n)
  PROVE  IInv'
<1>1. TypeOK /\ TickAtUnsettled /\ RegisteredBySpawner /\ RecordsMakeWait
      /\ OthersAreExcused /\ OnlyRacesHurry
  BY DEF IInv
<1>2. /\ spawner[n] \in {"sent", "failed"} /\ UpdateBackoff(n, spawner[n] = "sent", 0)
      /\ spawner' = [spawner EXCEPT ![n] = "done"] /\ since' = [since EXCEPT ![n] = 0]
      /\ UNCHANGED <<registered, connected, tick, bucket, flights, excused, window>>
  BY DEF SpawnUpdate
<1>3. \A m \in Node : /\ spawner'[m] = IF m = n THEN "done" ELSE spawner[m]
                      /\ since'[m] = IF m = n THEN 0 ELSE since[m]
  BY <1>1, <1>2 DEF TypeOK
<1>4. /\ record' \in [Node -> Records]
      /\ record'[n].attempt # 0 /\ record'[n].next + 0 >= Base
      /\ \A m \in Node \ {n} : record'[m] = record[m]
  <2>1. 0 \in 0 .. MaxLag /\ (spawner[n] = "sent") \in BOOLEAN
    BY BoundAssumption
  <2>. QED BY <1>1, <1>2, <2>1, UpdatedRecord
<1>5. record'[n] # NoRecord
  BY <1>4 DEF NoRecord
<1>6. TypeOK'
  <2>1. since' \in [Node -> 0 .. LongSince]
    BY <1>1, <1>2, BackoffAssumption, BoundAssumption DEF TypeOK, LongSince
  <2>2. spawner' \in [Node -> {"unborn", "registered", "sent", "failed", "done"}]
    BY <1>1, <1>2 DEF TypeOK
  <2>. QED BY <1>1, <1>2, <1>4, <2>1, <2>2 DEF TypeOK, Records
<1>7. TickAtUnsettled'
  BY <1>1, <1>2 DEF TickAtUnsettled
<1>8. RegisteredBySpawner'
  BY <1>1, <1>2, <1>3 DEF RegisteredBySpawner
<1>9. RecordsMakeWait'
  <2>1. ASSUME NEW m \in Node, record'[m] # NoRecord
        PROVE  /\ record'[m].attempt # 0
               /\ spawner'[m] = "done" => record'[m].next + since'[m] >= Base
    <3>1. CASE m = n
      BY <1>3, <1>4, <3>1
    <3>2. CASE m # n
      BY <1>1, <1>3, <1>4, <2>1, <3>2 DEF RecordsMakeWait
    <3>. QED BY <3>1, <3>2
  <2>. QED BY <2>1 DEF RecordsMakeWait
<1>10. OthersAreExcused'
  BY <1>1, <1>2, <1>3, <1>4, <1>5 DEF OthersAreExcused, TickAtUnsettled
<1>11. OnlyRacesHurry'
  <2>1. SUFFICES ASSUME tick.pc = "due", tick.node \notin excused
                 PROVE  since'[tick.node] = since[tick.node]
    BY <1>1, <1>2 DEF OnlyRacesHurry
  <2>2. tick.node \in Node /\ spawner[tick.node] = "done"
    BY <1>1, <2>1 DEF OthersAreExcused, TickAtUnsettled
  <2>. QED BY <1>2, <1>3, <2>2
<1>. QED BY <1>6, <1>7, <1>8, <1>9, <1>10, <1>11 DEF IInv

LEMMA ListPreserves ==
  ASSUME IInv, List
  PROVE  IInv'
<1>1. TypeOK /\ TickAtUnsettled /\ RegisteredBySpawner /\ RecordsMakeWait
      /\ OthersAreExcused /\ OnlyRacesHurry
  BY DEF IInv
<1>2. /\ tick' = [pc |-> "listed", ids |-> Unconnected, age |-> 0, node |-> NoNode]
      /\ UNCHANGED <<registered, connected, record, spawner, bucket, flights, since, excused,
                     window>>
  BY DEF List, NoTick
<1>3. Unconnected \subseteq Node /\ Unconnected \cap Settled = {} /\ NoNode \notin Settled
  BY <1>1, NodeAssumption DEF Unconnected, TypeOK, RegisteredBySpawner
<1>4. TypeOK'
  BY <1>1, <1>2, <1>3, BoundAssumption DEF TypeOK
<1>5. TickAtUnsettled' /\ RegisteredBySpawner'
  BY <1>1, <1>2, <1>3 DEF TickAtUnsettled, RegisteredBySpawner
<1>6. RecordsMakeWait' /\ OthersAreExcused' /\ OnlyRacesHurry'
  BY <1>1, <1>2, RecordsStay DEF OthersAreExcused, OnlyRacesHurry
<1>. QED BY <1>4, <1>5, <1>6 DEF IInv

(* A record is dropped of a node that is not on the list: it is connected, *)
(* or the list is from before it was registered.                           *)
LEMMA ReconcilePreserves ==
  ASSUME IInv, Reconcile
  PROVE  IInv'
<1>1. TypeOK /\ TickAtUnsettled /\ RegisteredBySpawner /\ RecordsMakeWait
      /\ OthersAreExcused /\ OnlyRacesHurry
  BY DEF IInv
<1>2. /\ tick.pc = "listed" /\ tick' = [tick EXCEPT !.pc = "scan"]
      /\ record' = [n \in Node |-> IF n \in tick.ids THEN record[n] ELSE NoRecord]
      /\ excused' = excused \cup {n \in Unconnected : record[n] # NoRecord /\ n \notin tick.ids}
      /\ UNCHANGED <<registered, connected, spawner, bucket, flights, since, window>>
  BY DEF Reconcile
<1>3. Unconnected \subseteq Node
  BY <1>1 DEF Unconnected, TypeOK
<1>4. tick'.pc = "scan" /\ tick'.ids = tick.ids /\ tick'.node = tick.node
  BY <1>1, <1>2 DEF TypeOK
<1>5. TypeOK'
  <2>1. NoRecord \in [attempt : 0 .. MaxAttempt, next : -MaxLag .. MaxBackoff + Jitter]
    BY BackoffAssumption, BoundAssumption DEF NoRecord
  <2>2. record' \in [Node -> [attempt : 0 .. MaxAttempt, next : -MaxLag .. MaxBackoff + Jitter]]
    BY <1>1, <1>2, <2>1 DEF TypeOK
  <2>3. excused' \subseteq Node
    BY <1>1, <1>2, <1>3 DEF TypeOK
  <2>. QED BY <1>1, <1>2, <2>2, <2>3 DEF TypeOK
<1>6. TickAtUnsettled' /\ RegisteredBySpawner'
  BY <1>1, <1>2, <1>4 DEF TickAtUnsettled, RegisteredBySpawner
<1>7. RecordsMakeWait'
  BY <1>1, <1>2 DEF RecordsMakeWait
<1>8. OthersAreExcused'
  <2>1. ASSUME NEW n \in Node, n \notin Settled, n \notin excused', spawner[n] = "done"
        PROVE  record'[n] # NoRecord
    <3>1. record[n] # NoRecord /\ n \notin connected
      BY <1>1, <1>2, <2>1 DEF OthersAreExcused
    <3>2. n \in Unconnected
      BY <1>1, <2>1, <3>1 DEF RegisteredBySpawner, Unconnected
    <3>. QED BY <1>2, <2>1, <3>1, <3>2
  <2>. QED BY <1>1, <1>2, <1>4, <2>1 DEF OthersAreExcused
<1>9. OnlyRacesHurry'
  BY <1>4 DEF OnlyRacesHurry
<1>. QED BY <1>5, <1>6, <1>7, <1>8, <1>9 DEF IInv

(* A node is found due and is not excused: it has a record, and the wait   *)
(* is over by the tick's now.                                              *)
LEMMA CheckPreserves ==
  ASSUME IInv, NEW n \in Node, Check(n)
  PROVE  IInv'
<1>1. TypeOK /\ TickAtUnsettled /\ RegisteredBySpawner /\ RecordsMakeWait
      /\ OthersAreExcused /\ OnlyRacesHurry
  BY DEF IInv
<1>2. /\ tick.pc = "scan" /\ n \in tick.ids
      /\ tick' = IF IsDue(n) THEN [tick EXCEPT !.pc = "due", !.ids = @ \ {n}, !.node = n]
                 ELSE [tick EXCEPT !.ids = @ \ {n}]
      /\ excused' = IF spawner[n] # "done" THEN excused \cup {n} ELSE excused
      /\ UNCHANGED <<registered, connected, record, spawner, bucket, flights, since, window>>
  BY DEF Check
<1>3. n \notin Settled
  BY <1>1, <1>2 DEF TickAtUnsettled
<1>4. /\ IsDue(n) => tick'.pc = "due" /\ tick'.node = n
      /\ ~ IsDue(n) => tick'.pc = "scan" /\ tick'.node = tick.node
      /\ tick'.ids = tick.ids \ {n} /\ tick'.age = tick.age
  BY <1>1, <1>2 DEF TypeOK
<1>5. TypeOK'
  BY <1>1, <1>2 DEF TypeOK
<1>6. TickAtUnsettled' /\ RegisteredBySpawner'
  BY <1>1, <1>2, <1>3, <1>4 DEF TickAtUnsettled, RegisteredBySpawner
<1>7. RecordsMakeWait'
  BY <1>1, <1>2, RecordsStay
<1>8. OthersAreExcused'
  BY <1>1, <1>2, <1>4 DEF OthersAreExcused
<1>9. OnlyRacesHurry'
  <2>1. SUFFICES ASSUME IsDue(n), n \notin excused, spawner[n] = "done"
                 PROVE  since[n] - tick.age >= Base
    BY <1>2, <1>4 DEF OnlyRacesHurry
  <2>2. record[n] # NoRecord
    BY <1>1, <1>3, <2>1 DEF OthersAreExcused
  <2>3. record[n].next + since[n] >= Base /\ record[n].next + tick.age <= 0
    BY <1>1, <2>1, <2>2 DEF RecordsMakeWait, IsDue
  <2>4. record[n].next \in Int /\ since[n] \in Int /\ tick.age \in Int
    BY <1>1, BackoffAssumption, BoundAssumption DEF TypeOK, LongSince
  <2>. QED BY <2>3, <2>4, BackoffAssumption
<1>. QED BY <1>5, <1>6, <1>7, <1>8, <1>9 DEF IInv

LEMMA ProbePreserves ==
  ASSUME IInv, Probe
  PROVE  IInv'
<1>1. TypeOK /\ TickAtUnsettled /\ RegisteredBySpawner /\ RecordsMakeWait
      /\ OthersAreExcused /\ OnlyRacesHurry
  BY DEF IInv
<1>2. PICK T, D, place :
        /\ tick.pc = "due" /\ Send("DISCOVER", tick.node, T, D)
        /\ place \in {"sent", "failed"} /\ tick' = [tick EXCEPT !.pc = place]
        /\ UNCHANGED <<registered, connected, record, spawner, bucket, since, excused, window>>
  BY DEF Probe
<1>3. tick.node \in Node
  BY <1>1, <1>2 DEF TickAtUnsettled
<1>4. /\ flights' \subseteq Datagram
      /\ \A f \in flights' : f.kind = "OFFER" => f.to \in registered
  BY <1>1, <1>2, <1>3, SendsDatagrams
<1>5. tick'.pc = place /\ tick'.ids = tick.ids /\ tick'.node = tick.node
  BY <1>1, <1>2 DEF TypeOK
<1>6. TypeOK'
  BY <1>1, <1>2, <1>4 DEF TypeOK
<1>7. TickAtUnsettled' /\ RegisteredBySpawner'
  BY <1>1, <1>2, <1>3, <1>4, <1>5 DEF TickAtUnsettled, RegisteredBySpawner
<1>8. RecordsMakeWait' /\ OthersAreExcused' /\ OnlyRacesHurry'
  BY <1>1, <1>2, <1>5, RecordsStay DEF OthersAreExcused, OnlyRacesHurry
<1>. QED BY <1>6, <1>7, <1>8 DEF IInv

LEMMA UpdatePreserves ==
  ASSUME IInv, Update
  PROVE  IInv'
<1>1. TypeOK /\ TickAtUnsettled /\ RegisteredBySpawner /\ RecordsMakeWait
      /\ OthersAreExcused /\ OnlyRacesHurry
  BY DEF IInv
<1>2. PICK n : n = tick.node
  OBVIOUS
<1>3. /\ tick.pc \in {"sent", "failed"} /\ UpdateBackoff(n, tick.pc = "sent", tick.age)
      /\ since' = [since EXCEPT ![n] = tick.age]
      /\ tick' = [tick EXCEPT !.pc = "scan", !.node = NoNode]
      /\ excused' = IF spawner[n] # "done" \/ n \in connected THEN excused ELSE excused \ {n}
      /\ UNCHANGED <<registered, connected, spawner, bucket, flights, window>>
  BY <1>2 DEF Update
<1>4. n \in Node /\ n \notin Settled /\ tick.age \in 0 .. MaxLag
  BY <1>1, <1>2, <1>3 DEF TickAtUnsettled, TypeOK
<1>5. /\ record' \in [Node -> Records]
      /\ record'[n].attempt # 0 /\ record'[n].next + tick.age >= Base
      /\ \A m \in Node \ {n} : record'[m] = record[m]
  <2>1. (tick.pc = "sent") \in BOOLEAN
    OBVIOUS
  <2>. QED BY <1>1, <1>3, <1>4, <2>1, UpdatedRecord
<1>6. record'[n] # NoRecord
  BY <1>5 DEF NoRecord
<1>7. \A m \in Node : since'[m] = IF m = n THEN tick.age ELSE since[m]
  BY <1>1, <1>3, <1>4 DEF TypeOK
<1>8. tick'.pc = "scan" /\ tick'.ids = tick.ids /\ tick'.node = NoNode
  BY <1>1, <1>3 DEF TypeOK
<1>9. TypeOK'
  <2>1. since' \in [Node -> 0 .. LongSince]
    BY <1>1, <1>3, <1>4, BackoffAssumption, BoundAssumption DEF TypeOK, LongSince
  <2>2. excused' \subseteq Node
    BY <1>1, <1>3 DEF TypeOK
  <2>3. tick' \in [pc : {"idle", "listed", "scan", "due", "sent", "failed"}, ids : SUBSET Node,
                  age : 0 .. MaxLag, node : Node \cup {NoNode}]
    BY <1>1, <1>3 DEF TypeOK
  <2>. QED BY <1>1, <1>3, <1>5, <2>1, <2>2, <2>3 DEF TypeOK, Records
<1>10. TickAtUnsettled' /\ RegisteredBySpawner'
  BY <1>1, <1>3, <1>8, NodeAssumption DEF TickAtUnsettled, RegisteredBySpawner
<1>11. RecordsMakeWait'
  <2>1. ASSUME NEW m \in Node, record'[m] # NoRecord
        PROVE  /\ record'[m].attempt # 0
               /\ spawner[m] = "done" => record'[m].next + since'[m] >= Base
    <3>1. CASE m = n
      BY <1>5, <1>7, <3>1
    <3>2. CASE m # n
      BY <1>1, <1>5, <1>7, <2>1, <3>2 DEF RecordsMakeWait
    <3>. QED BY <3>1, <3>2
  <2>. QED BY <1>3, <2>1 DEF RecordsMakeWait
<1>12. OthersAreExcused'
  <2>1. ASSUME NEW m \in Node, m \notin Settled, m \notin excused', spawner[m] = "done"
        PROVE  record'[m] # NoRecord
    <3>1. CASE m = n
      BY <1>6, <3>1
    <3>2. CASE m # n
      BY <1>1, <1>3, <1>5, <2>1, <3>2 DEF OthersAreExcused
    <3>. QED BY <3>1, <3>2
  <2>. QED BY <1>1, <1>3, <1>8, <2>1 DEF OthersAreExcused
<1>13. OnlyRacesHurry'
  BY <1>8 DEF OnlyRacesHurry
<1>. QED BY <1>9, <1>10, <1>11, <1>12, <1>13 DEF IInv

LEMMA EndTickPreserves ==
  ASSUME IInv, EndTick
  PROVE  IInv'
<1>1. TypeOK /\ TickAtUnsettled /\ RegisteredBySpawner /\ RecordsMakeWait
      /\ OthersAreExcused /\ OnlyRacesHurry
  BY DEF IInv
<1>2. /\ tick' = [pc |-> "idle", ids |-> {}, age |-> 0, node |-> NoNode]
      /\ UNCHANGED <<registered, connected, record, spawner, bucket, flights, since, excused,
                     window>>
  BY DEF EndTick, NoTick
<1>3. TypeOK'
  BY <1>1, <1>2, BoundAssumption DEF TypeOK
<1>4. TickAtUnsettled' /\ RegisteredBySpawner'
  BY <1>1, <1>2, NodeAssumption DEF TickAtUnsettled, RegisteredBySpawner
<1>5. RecordsMakeWait' /\ OthersAreExcused' /\ OnlyRacesHurry'
  BY <1>1, <1>2, RecordsStay DEF OthersAreExcused, OnlyRacesHurry
<1>. QED BY <1>3, <1>4, <1>5 DEF IInv

LEMMA TakeDiscoverPreserves ==
  ASSUME IInv, NEW f \in flights, TakeDiscover(f)
  PROVE  IInv'
<1>1. TypeOK /\ TickAtUnsettled /\ RegisteredBySpawner /\ RecordsMakeWait
      /\ OthersAreExcused /\ OnlyRacesHurry
  BY DEF IInv
<1>2. PICK n, left, tokens : n = f.to /\ left = Refilled(n)
                            /\ tokens = IF Allows(n) THEN left - Token ELSE left
  OBVIOUS
<1>3. f \in Datagram /\ n \in Node
  BY <1>1, <1>2 DEF TypeOK, Datagram
<1>4. /\ bucket' = [bucket EXCEPT ![n] = [tokens |-> tokens, idle |-> 0]]
      /\ window' \in {window, [window EXCEPT !.offers = @ + 1]}
      /\ \/ flights' = flights \ {f}
         \/ /\ f.from \in registered
            /\ flights' = (flights \ {f}) \cup {[kind |-> "OFFER", from |-> n, to |-> f.from]}
      /\ UNCHANGED <<registered, connected, record, tick, spawner, since, excused>>
  BY <1>2 DEF TakeDiscover
<1>5. tokens \in 0 .. Burst
  <2>1. BucketType
    BY <1>1 DEF TypeOK, BucketType
  <2>2. left \in 0 .. Burst
    BY <1>2, <1>3, <2>1, RefilledBounds
  <2>3. Allows(n) => left >= Token
    BY <1>2 DEF Allows
  <2>. QED BY <1>2, <2>2, <2>3, BucketAssumption
<1>6. TypeOK'
  <2>1. bucket' \in [Node -> [tokens : 0 .. Burst, idle : 0 .. LongIdle]]
    BY <1>1, <1>3, <1>4, <1>5, BucketAssumption DEF TypeOK
  <2>2. window' \in [age : 0 .. MaxWindow, offers : Nat]
    BY <1>1, <1>4 DEF TypeOK
  <2>3. flights' \subseteq Datagram
    BY <1>1, <1>3, <1>4 DEF TypeOK, Datagram
  <2>. QED BY <1>1, <1>4, <2>1, <2>2, <2>3 DEF TypeOK
<1>7. TickAtUnsettled' /\ OnlyRacesHurry'
  BY <1>1, <1>4 DEF TickAtUnsettled, OnlyRacesHurry
<1>8. RegisteredBySpawner'
  BY <1>1, <1>4 DEF RegisteredBySpawner
<1>9. RecordsMakeWait' /\ OthersAreExcused'
  BY <1>1, <1>4, RecordsStay DEF OthersAreExcused
<1>. QED BY <1>6, <1>7, <1>8, <1>9 DEF IInv

LEMMA TakeOfferPreserves ==
  ASSUME IInv, NEW f \in flights, TakeOffer(f)
  PROVE  IInv'
<1>1. TypeOK /\ TickAtUnsettled /\ RegisteredBySpawner /\ RecordsMakeWait
      /\ OthersAreExcused /\ OnlyRacesHurry
  BY DEF IInv
<1>2. /\ f.kind = "OFFER" /\ flights' = flights \ {f}
      /\ \/ UNCHANGED <<connected, excused>>
         \/ connected' = connected \cup {f.to} /\ excused' = excused \cup {f.to}
      /\ UNCHANGED <<registered, record, tick, spawner, bucket, since, window>>
  BY DEF TakeOffer
<1>3. f.to \in registered
  BY <1>1, <1>2 DEF RegisteredBySpawner
<1>4. TypeOK'
  BY <1>1, <1>2, <1>3 DEF TypeOK
<1>5. TickAtUnsettled' /\ RegisteredBySpawner'
  BY <1>1, <1>2 DEF TickAtUnsettled, RegisteredBySpawner
<1>6. RecordsMakeWait'
  BY <1>1, <1>2, RecordsStay
<1>7. OthersAreExcused' /\ OnlyRacesHurry'
  BY <1>1, <1>2 DEF OthersAreExcused, OnlyRacesHurry
<1>. QED BY <1>4, <1>5, <1>6, <1>7 DEF IInv

LEMMA DisconnectPreserves ==
  ASSUME IInv, NEW n \in Node, Disconnect(n)
  PROVE  IInv'
<1>1. TypeOK /\ TickAtUnsettled /\ RegisteredBySpawner /\ RecordsMakeWait
      /\ OthersAreExcused /\ OnlyRacesHurry
  BY DEF IInv
<1>2. /\ n \in connected \ Settled /\ connected' = connected \ {n}
      /\ UNCHANGED <<registered, record, tick, spawner, bucket, flights, since, excused, window>>
  BY DEF Disconnect
<1>3. TypeOK'
  BY <1>1, <1>2 DEF TypeOK
<1>4. TickAtUnsettled' /\ RegisteredBySpawner'
  BY <1>1, <1>2 DEF TickAtUnsettled, RegisteredBySpawner
<1>5. RecordsMakeWait' /\ OthersAreExcused' /\ OnlyRacesHurry'
  BY <1>1, <1>2, RecordsStay DEF OthersAreExcused, OnlyRacesHurry
<1>. QED BY <1>3, <1>4, <1>5 DEF IInv

LEMMA StutterPreserves ==
  ASSUME IInv, UNCHANGED vars
  PROVE  IInv'
<1>1. TypeOK /\ TickAtUnsettled /\ RegisteredBySpawner /\ RecordsMakeWait
      /\ OthersAreExcused /\ OnlyRacesHurry
  BY DEF IInv
<1>2. TypeOK' /\ TickAtUnsettled' /\ RegisteredBySpawner'
  BY <1>1 DEF vars, TypeOK, TickAtUnsettled, RegisteredBySpawner
<1>3. RecordsMakeWait' /\ OthersAreExcused' /\ OnlyRacesHurry'
  BY <1>1, RecordsStay DEF vars, OthersAreExcused, OnlyRacesHurry
<1>. QED BY <1>2, <1>3 DEF IInv

LEMMA NextPreserves == IInv /\ [Next]_vars => IInv'
BY ElapsePreserves, RegisterPreserves, SpawnBurstPreserves, SpawnUpdatePreserves, ListPreserves,
   ReconcilePreserves, CheckPreserves, ProbePreserves, UpdatePreserves, EndTickPreserves,
   TakeDiscoverPreserves, TakeOfferPreserves, DisconnectPreserves, StutterPreserves
   DEF Next, Tick, Spawn

LEMMA Invariance == Spec => []IInv
  BY InitEstablishes, NextPreserves, PTL DEF Spec
-----------------------------------------------------------------------------
LEMMA BucketNext == IInv /\ BucketInv /\ [Next]_vars => BucketInv'
<1> SUFFICES ASSUME IInv, BucketInv, [Next]_vars PROVE BucketInv'
  OBVIOUS
<1>1. CASE Elapse
  BY <1>1, BucketElapse
<1>2. ASSUME NEW f \in flights, TakeDiscover(f) PROVE BucketInv'
  <2>1. f.to \in Node
    BY DEF IInv, TypeOK, Datagram
  <2> QED
    BY <1>2, <2>1, BucketDiscover
<1>3. CASE Tick \/ (\E n \in Node : Spawn(n) \/ Disconnect(n)) \/ (\E f \in flights : TakeOffer(f))
           \/ UNCHANGED vars
  <2>1. UNCHANGED <<bucket, window>>
    BY <1>3 DEF Tick, List, Reconcile, Check, Probe, Update, EndTick, Spawn, Register, SpawnBurst,
       SpawnUpdate, Disconnect, TakeOffer, vars
  <2> QED
    BY <2>1, BucketUnchanged
<1> QED
  BY <1>1, <1>2, <1>3 DEF Next

LEMMA BucketBounds == BucketInv => OfferRateBounded
<1> SUFFICES ASSUME BucketInv PROVE OfferRateBounded
  OBVIOUS
<1> DEFINE b == bucket[Watched]
<1>1. b.tokens \in Nat /\ b.idle \in Nat /\ window.age \in Nat /\ window.offers \in Nat
  BY NodeAssumption DEF BucketInv, BucketType
<1>2. Budget(b.tokens, b.idle, window.age, window.offers)
  BY DEF BucketInv
<1> HIDE DEF b
<1>3. Rate \in Nat /\ Token \in Nat /\ Burst \in Nat
  BY BucketAssumption
<1>4. CASE b.idle <= window.age
  <2>1. Rate * (window.age - b.idle) <= Rate * window.age
    BY <1>1, <1>3, <1>4, Scaling
  <2>2. /\ Token * window.offers \in Int
        /\ Rate * window.age \in Int
        /\ Rate * (window.age - b.idle) \in Int
    BY <1>1, <1>3
  <2>3. Token * window.offers + b.tokens <= Burst + Rate * (window.age - b.idle)
    BY <1>2, <1>4 DEF Budget
  <2> DEFINE paid == Token * window.offers  then == Rate * (window.age - b.idle)
             now == Rate * window.age
  <2>4. paid + b.tokens <= Burst + then /\ then <= now /\ paid \in Int /\ then \in Int /\ now \in Int
    BY <2>1, <2>2, <2>3
  <2> HIDE DEF paid, then, now
  <2>5. paid <= Burst + now
    BY <1>1, <1>3, <2>4
  <2> QED
    BY <2>5 DEF OfferRateBounded, paid, now
<1>5. CASE ~(b.idle <= window.age)
  <2>1. window.offers = 0
    BY <1>2, <1>5 DEF Budget
  <2> DEFINE paid == Token * window.offers  now == Rate * window.age
  <2>2. paid = 0 /\ now \in Int /\ now >= 0
    BY <1>1, <1>3, <2>1
  <2> HIDE DEF paid, now
  <2>3. paid <= Burst + now
    BY <1>3, <2>2
  <2> QED
    BY <2>3 DEF OfferRateBounded, paid, now
<1> QED
  BY <1>4, <1>5

(* The variables of discovery have the types TypeOK gives them; a back-off *)
(* never exceeds the cap and the jitter, and a bucket never the burst.     *)
THEOREM DiscoveryTypes == Spec => []TypeOK
<1>1. IInv => TypeOK
  BY DEF IInv
<1>. QED BY <1>1, Invariance, PTL

(* udpLoop's ticks leave the base back-off between two bursts for a node,  *)
(* by the ticks' own nows and whatever the jitter, the cap and the time a  *)
(* tick takes, but for the nodes a connection, a stale list or the node's  *)
(* own registration excuses.                                               *)
THEOREM TicksKeepTheBackoff == Spec => []OnlyRacesHurry
<1>1. IInv => OnlyRacesHurry
  BY DEF IInv
<1>. QED BY <1>1, Invariance, PTL

(* allowOffer: a node's offers in any window of time stay within the burst *)
(* and what the rate adds (offer_burst, offer_rate_limit_per_sec).         *)
THEOREM OffersBounded == Spec => []OfferRateBounded
<1>1. Init => IInv /\ BucketInv
  BY InitEstablishes, BucketInit
<1>2. IInv /\ BucketInv /\ [Next]_vars => (IInv /\ BucketInv)'
  BY NextPreserves, BucketNext
<1>3. IInv /\ BucketInv => OfferRateBounded
  BY BucketBounds
<1> QED
  BY <1>1, <1>2, <1>3, PTL DEF Spec
=============================================================================

----------------------------- MODULE RecoveryProofs ----------------------------
(***************************************************************************)
(* What TLAPS proves about Recovery, for all nodes and samples, all        *)
(* numbers of goroutines that kill nodes, and every length of the history, *)
(* the window and the timeout.                                             *)
(***************************************************************************)
EXTENDS Recovery, FiniteSetTheorems, SequenceTheorems, WellFoundedInduction, TLAPS

(* The larger of two integers, and the least of a set of numbers.          *)
LEMMA LargerOfTwo ==
  ASSUME NEW a \in Int, NEW b \in Int
  PROVE  Max({a, b}) = IF a >= b THEN a ELSE b
<1>. DEFINE m == IF a >= b THEN a ELSE b
<1>1. m \in {a, b} /\ \A y \in {a, b} : m >= y
  OBVIOUS
<1>2. \A x \in {a, b} : (\A y \in {a, b} : x >= y) => x = m
  OBVIOUS
<1>. QED
  BY <1>1, <1>2 DEF Max

LEMMA LeastNumber ==
  ASSUME NEW S \in SUBSET Nat, S # {}
  PROVE  \E n \in S : \A m \in S : n <= m
<1>. DEFINE U == {0 .. n : n \in S}
<1>1. U \subseteq FiniteSubsetsOf(Nat) /\ U # {}
  <2>1. \A n \in S : IsFiniteSet(0 .. n) /\ 0 .. n \in SUBSET Nat
    BY FS_Interval
  <2>. QED
    BY <2>1 DEF FiniteSubsetsOf
<1>2. \E x \in U : \A y \in U : ~(<<y, x>> \in StrictSubsetOrdering(Nat))
  <2>. HIDE DEF U
  <2>. QED
    BY <1>1, FS_StrictSubsetOrderingWellFounded, WFMin
<1>3. PICK n \in S : \A m \in S : ~(<<0 .. m, 0 .. n>> \in StrictSubsetOrdering(Nat))
  BY <1>2
<1>4. ASSUME NEW m \in S, m < n
      PROVE  FALSE
  <2>. DEFINE a == 0 .. m
              b == 0 .. n
  <2>1. n \in Nat /\ m \in Nat
    OBVIOUS
  <2>2. a \in SUBSET Nat /\ b \in SUBSET Nat /\ a \subseteq b /\ a # b
    <3>1. n \in b /\ n \notin a
      BY <1>4, <2>1
    <3>. QED
      BY <1>4, <2>1, <3>1
  <2>3. ~(<<a, b>> \in StrictSubsetOrdering(Nat))
    BY <1>3
  <2>. HIDE DEF a, b
  <2>. QED
    BY <2>2, <2>3 DEF StrictSubsetOrdering
<1>. QED
  BY <1>3, <1>4

LEMMA LeastOfNumbers ==
  ASSUME NEW S \in SUBSET Nat, S # {}
  PROVE  Min(S) \in S /\ \A m \in S : Min(S) <= m
<1>1. \E n \in S : \A m \in S : n =< m
  BY LeastNumber
<1>. QED
  BY <1>1 DEF Min

(* What is found first stays so when something is appended.                *)
LEMMA LeastStays ==
  ASSUME NEW n \in Nat, NEW S \in SUBSET (1 .. n)
  PROVE  /\ S # {} => Min(S \cup {n + 1}) = Min(S) /\ Min(S) \in 1 .. n
         /\ Min({n + 1}) = n + 1
<1>1. Min({n + 1}) = n + 1
  BY LeastOfNumbers
<1>2. ASSUME S # {}
      PROVE  Min(S \cup {n + 1}) = Min(S) /\ Min(S) \in 1 .. n
  <2>1. Min(S) \in S /\ \A m \in S : Min(S) <= m
    BY <1>2, LeastOfNumbers
  <2>. DEFINE T == S \cup {n + 1}
  <2>2. Min(T) \in T /\ \A m \in T : Min(T) <= m
    BY LeastOfNumbers
  <2>3. \A a, b : a \in S /\ (\A m \in S : a <= m) /\ b \in T /\ (\A m \in T : b <= m) => b = a
    OBVIOUS
  <2>. QED
    BY <2>1, <2>2, <2>3
<1>. QED
  BY <1>1, <1>2

(* What is appended is the largest.                                        *)
LEMMA LargestIsAppended ==
  ASSUME NEW n \in Nat, NEW S \in SUBSET (1 .. n)
  PROVE  /\ Max(S \cup {n + 1}) = n + 1
         /\ S # {} => Max(S) \in S
<1>1. Max(S \cup {n + 1}) = n + 1
  <2>. DEFINE T == S \cup {n + 1}
  <2>1. n + 1 \in T /\ \A y \in T : n + 1 >= y
    OBVIOUS
  <2>2. \A x \in T : (\A y \in T : x >= y) => x = n + 1
    OBVIOUS
  <2>. HIDE DEF T
  <2>3. Max(T) = n + 1
    BY <2>1, <2>2 DEF Max
  <2>. QED
    BY <2>3 DEF T
<1>2. ASSUME S # {}
      PROVE  Max(S) \in S
  <2>. DEFINE T == {n - m : m \in S}
  <2>1. T \in SUBSET Nat /\ T # {}
    <3>1. \A m \in S : n - m \in Nat
      OBVIOUS
    <3>. QED
      BY <1>2, <3>1
  <2>2. PICK t \in T : \A m \in T : t <= m
    BY <2>1, LeastNumber
  <2>3. PICK x \in S : t = n - x
    BY <2>2
  <2>4. \A y \in S : x >= y
    <3>1. \A y \in S : n - x <= n - y
      BY <2>2, <2>3
    <3>. QED
      BY <3>1
  <2>. QED
    BY <2>4 DEF Max
<1>. QED
  BY <1>1, <1>2

(* The number of connected nodes that a threshold asks for, as the         *)
(* specification's share of all.                                           *)
LEMMA NeedIsTheShare ==
  ASSUME NEW total \in Nat, NEW c \in Nat, NEW pct \in {50, 90, 99}
  PROVE  c >= Need(total, pct) <=> c > 0 /\ 100 * c >= pct * total
<1>1. ASSUME NEW t \in Nat
      PROVE  LET q == (t + 99) \div 100
             IN  q \in Int /\ (c >= (IF 1 >= q THEN 1 ELSE q) <=> c > 0 /\ 100 * c >= t)
  OBVIOUS
<1>2. total * pct \in Nat /\ total * pct = pct * total
  BY SMT
<1>3. PICK q : q = (total * pct + 99) \div 100
  OBVIOUS
<1>4. q \in Int /\ (c >= (IF 1 >= q THEN 1 ELSE q) <=> c > 0 /\ 100 * c >= pct * total)
  BY <1>1, <1>2, <1>3
<1>. QED
  BY <1>3, <1>4, LargerOfTwo DEF Need
-----------------------------------------------------------------------------
(* The inductive invariant.                                                *)
SampleType == [at : 0 .. MaxTime, view : Samples, id : 0 .. MaxEpochs]

(* The types TypeOK has no need of.                                        *)
HistoriesTyped ==
  /\ sample \in [Opener \cup Run -> SampleType \cup {NoSample}]
  /\ seen \in Seq(SampleType)
  /\ closings \in Seq(1 .. MaxEpochs)
  /\ opened.all \in SUBSET (1 .. MaxEpochs)
  /\ dropped.ids \in SUBSET (1 .. MaxEpochs)
  /\ opened = [all |-> opened.all, late |-> opened.late]

(* A number is drawn for one epoch.                                        *)
NumbersAreDrawnOnce ==
  /\ \A id \in opened.all : id <= seq
  /\ \A o \in Opener : sample[o] # NoSample =>
       sample[o].id \in 1 .. seq /\ sample[o].id \notin opened.all
  /\ \A o, p \in Opener :
       sample[o] # NoSample /\ sample[p] # NoSample /\ sample[o].id = sample[p].id => o = p

(* An epoch that is open has been opened, and Start has not taken it away; *)
(* if no run is left that could abort it, it came too late.                *)
OpenEpochIsAccountedFor ==
  Running(current) =>
    /\ current.id \in opened.all \ dropped.ids
    /\ run = 0 /\ stopping = {} => current.id \in opened.late

(* An epoch has a base, and the sample that was applied last.              *)
EpochFollowsItsSamples ==
  IF current.status = "none"
  THEN current = NoEpoch /\ seen = <<>>
  ELSE current.base \in Samples /\ current.last = Before(Len(seen) + 1)

(* change is since when the epoch has been still.                          *)
ChangeIsTheLatest == current.change = StillSince(Len(seen))

(* The history is what the latest of the epochs that were finalized are,   *)
(* in the order in which they were.                                        *)
HistoryIsTheLatest ==
  /\ Len(history) = IF Len(closings) <= MaxHistory THEN Len(closings) ELSE MaxHistory
  /\ \A i \in 1 .. Len(history) : history[i] = closings[Len(closings) - Len(history) + i]

(* An epoch that is over and still there is the one finalized last.        *)
CurrentIsClosed ==
  ~ Running(current) /\ current.id # 0 =>
    Len(closings) > 0 /\ closings[Len(closings)] = current.id

IInv ==
  /\ TypeOK
  /\ HistoriesTyped
  /\ CurrentIsClosed
  /\ HistoryIsTheLatest
  /\ NumbersAreDrawnOnce
  /\ OpenEpochIsAccountedFor
  /\ EpochsCloseOnce
  /\ EpochFollowsItsSamples
  /\ ChangeIsTheLatest
  /\ StableAsSpecified
  /\ MetricsAsSpecified
-----------------------------------------------------------------------------
(* What an epoch makes of a sample.                                        *)
LEMMA NodesAreCounted ==
  ASSUME NEW S \in SUBSET Node
  PROVE  Cardinality(S) \in Nat /\ \A T \in SUBSET S : Cardinality(T) <= Cardinality(S)
BY SampleAssumption, FS_Subset, FS_CardinalityType

LEMMA ViewsAreOfNodes ==
  ASSUME NEW v \in Samples \cup {<<>>}
  PROVE  DOMAIN v \in SUBSET Node
BY SampleAssumption

Promoted(last, v) == {n \in DOMAIN v : v[n].role = "leader" /\ RoleIn(last, n) # "leader"}
Rehung(last, v)   == {n \in DOMAIN v : v[n].parent \notin {None, ParentIn(last, n)}}
Moved(last, v)    == {n \in Node : ParentIn(v, n) # ParentIn(last, n)}
Same(last, v) ==
  /\ \A n \in DOMAIN v : v[n].role = RoleIn(last, n)
  /\ \A n \in Node : ParentIn(v, n) = ParentIn(last, n)

Led(ep, s) ==
  IF ep.newLeader = Unset /\ \E n \in Promoted(ep.last, s.view) : RoleIn(ep.base, n) # "leader"
  THEN s.at - ep.start ELSE ep.newLeader

Added(ep, x, y, z, p, r, m, l, c, v) ==
  [ep EXCEPT !.connected50 = x, !.connected90 = y, !.connected99 = z,
             !.promotions = ep.promotions + p, !.reparents = ep.reparents + r,
             !.newLeader = l, !.leaderChanges = ep.leaderChanges + p,
             !.parentChanges = ep.parentChanges + m, !.change = c, !.last = v]

LEMMA AppliedIs ==
  ASSUME NEW ep \in EpochType, NEW s \in SampleType
  PROVE  Applied(ep, s) =
           Added(ep, Reached(ep, s, ep.connected50, 50), Reached(ep, s, ep.connected90, 90),
                 Reached(ep, s, ep.connected99, 99), Cardinality(Promoted(ep.last, s.view)),
                 Cardinality(Rehung(ep.last, s.view)), Cardinality(Moved(ep.last, s.view)),
                 Led(ep, s), IF Same(ep.last, s.view) THEN ep.change ELSE s.at, s.view)
<1>. DEFINE v == s.view
            last == ep.last
            changed == {n \in DOMAIN v : v[n].role # RoleIn(last, n)}
            leading == {n \in changed : v[n].role = "leader"}
            promoted == {n \in DOMAIN v : v[n].role = "leader" /\ RoleIn(last, n) # "leader"}
            rehung == {n \in DOMAIN v : v[n].parent \notin {None, ParentIn(last, n)}}
            moved == {n \in Node : ParentIn(v, n) # ParentIn(last, n)}
            T == Thresholds(ep, s)
            L == Latencies(T, s)
            led == IF ep.newLeader = Unset /\ \E n \in promoted : RoleIn(ep.base, n) # "leader"
                   THEN s.at - ep.start ELSE ep.newLeader
            change == IF changed \cup moved # {} THEN s.at ELSE ep.change
<1>1. T = [ep EXCEPT !.connected50 = Reached(ep, s, ep.connected50, 50),
                     !.connected90 = Reached(ep, s, ep.connected90, 90),
                     !.connected99 = Reached(ep, s, ep.connected99, 99)]
  BY DEF Thresholds, EpochType
<1>2. /\ T.last = last /\ T.base = ep.base /\ T.start = ep.start /\ T.newLeader = ep.newLeader
      /\ T.promotions = ep.promotions /\ T.reparents = ep.reparents
      /\ T.leaderChanges = ep.leaderChanges /\ T.parentChanges = ep.parentChanges
      /\ T.change = ep.change
  <2>. HIDE DEF T, last
  <2>. QED
    BY <1>1 DEF EpochType, last
<1>3. L = [T EXCEPT !.promotions = @ + Cardinality(promoted),
                    !.reparents = @ + Cardinality(rehung),
                    !.newLeader = IF @ = Unset /\ \E n \in promoted : RoleIn(T.base, n) # "leader"
                                  THEN s.at - T.start ELSE @]
  <2>1. T.last = last
    BY <1>2
  <2>. HIDE DEF T, last
  <2>. QED
    BY <2>1 DEF Latencies
<1>4. Applied(ep, s) =
        [L EXCEPT !.leaderChanges = @ + Cardinality(leading),
                  !.parentChanges = @ + Cardinality(moved),
                  !.change = IF changed \cup moved # {} THEN s.at ELSE @,
                  !.last = v]
  <2>1. L.last = last
    <3>. HIDE DEF T, L, last, promoted, rehung
    <3>1. last = ep.last
      BY DEF last
    <3>. QED
      BY <1>1, <1>3, <3>1 DEF EpochType
  <2>2. Applied(ep, s) = Stability(L, s)
    BY DEF Applied
  <2>. HIDE DEF L, last
  <2>. QED
    BY <2>1, <2>2 DEF Stability
<1>5. leading = promoted
  BY DEF leading, promoted
<1>6. (changed \cup moved # {}) <=> ~ Same(last, v)
  BY DEF Same
<1>7. promoted = Promoted(last, v) /\ rehung = Rehung(last, v) /\ moved = Moved(last, v)
  BY DEF Promoted, Rehung, Moved
<1>8. led = Led(ep, s)
  BY DEF Led, Promoted
<1>9. Applied(ep, s) =
        [ep EXCEPT !.connected50 = Reached(ep, s, ep.connected50, 50),
                   !.connected90 = Reached(ep, s, ep.connected90, 90),
                   !.connected99 = Reached(ep, s, ep.connected99, 99),
                   !.promotions = ep.promotions + Cardinality(promoted),
                   !.reparents = ep.reparents + Cardinality(rehung),
                   !.newLeader = led,
                   !.leaderChanges = ep.leaderChanges + Cardinality(promoted),
                   !.parentChanges = ep.parentChanges + Cardinality(moved),
                   !.change = change,
                   !.last = v]
  <2>1. L = [T EXCEPT !.promotions = ep.promotions + Cardinality(promoted),
                      !.reparents = ep.reparents + Cardinality(rehung),
                      !.newLeader = led]
    <3>. HIDE DEF T, L, promoted, rehung
    <3>. QED
      BY <1>2, <1>3
  <2>2. Applied(ep, s) = [L EXCEPT !.leaderChanges = ep.leaderChanges + Cardinality(promoted),
                                   !.parentChanges = ep.parentChanges + Cardinality(moved),
                                   !.change = change, !.last = v]
    <3>1. L.leaderChanges = ep.leaderChanges /\ L.parentChanges = ep.parentChanges
          /\ L.change = ep.change
      <4>. HIDE DEF T, L, promoted, rehung, led
      <4>. QED
        BY <1>1, <2>1 DEF EpochType
    <3>. HIDE DEF T, L, promoted, moved, leading, changed, v
    <3>. QED
      BY <3>1, <1>4, <1>5
  <2>. HIDE DEF T, L, promoted, moved, rehung, led, change, v
  <2>. QED
    BY <1>1, <2>1, <2>2 DEF EpochType
<1>10. change = IF Same(ep.last, s.view) THEN ep.change ELSE s.at
  BY <1>6
<1>11. Applied(ep, s) =
         Added(ep, Reached(ep, s, ep.connected50, 50), Reached(ep, s, ep.connected90, 90),
               Reached(ep, s, ep.connected99, 99), Cardinality(promoted), Cardinality(rehung),
               Cardinality(moved), led, change, v)
  <2>. HIDE DEF promoted, moved, rehung, led, change, v
  <2>. QED
    BY <1>9 DEF Added
<1>. HIDE DEF T, L, promoted, moved, rehung, led, change
<1>. QED
  BY <1>7, <1>8, <1>10, <1>11

LEMMA AppliedOfType ==
  ASSUME NEW ep \in EpochType, NEW s \in SampleType
  PROVE  /\ Applied(ep, s) \in EpochType
         /\ \A status \in {"none", "running", "stabilized", "timeout", "aborted"} :
              [Applied(ep, s) EXCEPT !.status = status, !.end = s.at] \in EpochType
<1>. DEFINE p == Cardinality(Promoted(ep.last, s.view))
            r == Cardinality(Rehung(ep.last, s.view))
            m == Cardinality(Moved(ep.last, s.view))
            t == s.at
            v == s.view
            x == Reached(ep, s, ep.connected50, 50)
            y == Reached(ep, s, ep.connected90, 90)
            z == Reached(ep, s, ep.connected99, 99)
            l == Led(ep, s)
            c == IF Same(ep.last, s.view) THEN ep.change ELSE s.at
            a1 == [ep EXCEPT !.connected50 = x, !.connected90 = y, !.connected99 = z]
            a2 == [a1 EXCEPT !.promotions = ep.promotions + p, !.reparents = ep.reparents + r,
                             !.newLeader = l, !.leaderChanges = ep.leaderChanges + p]
            a3 == [a2 EXCEPT !.parentChanges = ep.parentChanges + m, !.change = c, !.last = v]
<1>1. \A S \in SUBSET Node : Cardinality(S) \in Nat
  BY NodesAreCounted
<1>2. DOMAIN s.view \in SUBSET Node
  BY ViewsAreOfNodes DEF SampleType
<1>3. p \in Nat /\ r \in Nat /\ m \in Nat
  BY <1>1, <1>2 DEF Promoted, Rehung, Moved
<1>4. t \in 0 .. MaxTime /\ v \in Samples
  BY DEF SampleType
<1>5. /\ ep.start \in 0 .. MaxTime /\ ep.change \in 0 .. MaxTime
      /\ ep.connected50 \in Int /\ ep.connected90 \in Int /\ ep.connected99 \in Int
      /\ ep.newLeader \in Int
      /\ ep.promotions \in Nat /\ ep.leaderChanges \in Nat
      /\ ep.reparents \in Nat /\ ep.parentChanges \in Nat
  BY DEF EpochType
<1>6. t - ep.start \in Int
  BY <1>4, <1>5, BoundAssumption
<1>7. x \in Int /\ y \in Int /\ z \in Int /\ l \in Int /\ c \in 0 .. MaxTime
  BY <1>4, <1>5, <1>6 DEF Reached, Led
<1>8. Applied(ep, s) = Added(ep, x, y, z, p, r, m, l, c, v)
  BY AppliedIs
<1>. HIDE DEF p, r, m, t, v, x, y, z, l, c
<1>9. Applied(ep, s) = a3
  BY <1>8 DEF Added, EpochType
<1>10. a1 \in EpochType
  BY <1>7 DEF EpochType
<1>11. a2 \in EpochType
  <2>1. ep.promotions + p \in Nat /\ ep.reparents + r \in Nat /\ ep.leaderChanges + p \in Nat
    BY <1>3, <1>5
  <2>. HIDE DEF a1
  <2>. QED
    BY <1>7, <1>10, <2>1 DEF EpochType
<1>12. a3 \in EpochType
  <2>1. ep.parentChanges + m \in Nat
    BY <1>3, <1>5
  <2>. HIDE DEF a2
  <2>. QED
    BY <1>4, <1>7, <1>11, <2>1 DEF EpochType
<1>13. ASSUME NEW a \in EpochType,
              NEW status \in {"none", "running", "stabilized", "timeout", "aborted"}
       PROVE  [a EXCEPT !.status = status, !.end = t] \in EpochType
  BY <1>4 DEF EpochType
<1>. HIDE DEF a3
<1>. QED
  BY <1>9, <1>12, <1>13 DEF t

LEMMA AppliedFields ==
  ASSUME NEW ep \in EpochType, NEW s \in SampleType, NEW status
  PROVE  LET a == [Applied(ep, s) EXCEPT !.status = status, !.end = s.at]
         IN  /\ a.id = ep.id /\ a.status = status /\ a.start = ep.start /\ a.end = s.at
             /\ a.base = ep.base /\ a.last = s.view
             /\ a.change = IF Same(ep.last, s.view) THEN ep.change ELSE s.at
             /\ a.connected50 = Reached(ep, s, ep.connected50, 50)
             /\ a.connected90 = Reached(ep, s, ep.connected90, 90)
             /\ a.connected99 = Reached(ep, s, ep.connected99, 99)
             /\ a.newLeader = Led(ep, s)
             /\ a.promotions = ep.promotions + Cardinality(Promoted(ep.last, s.view))
             /\ a.leaderChanges = ep.leaderChanges + Cardinality(Promoted(ep.last, s.view))
             /\ a.reparents = ep.reparents + Cardinality(Rehung(ep.last, s.view))
             /\ a.parentChanges = ep.parentChanges + Cardinality(Moved(ep.last, s.view))
             /\ Applied(ep, s).change = a.change /\ Applied(ep, s).start = ep.start
<1>. DEFINE p == Cardinality(Promoted(ep.last, s.view))
            r == Cardinality(Rehung(ep.last, s.view))
            m == Cardinality(Moved(ep.last, s.view))
            t == s.at
            v == s.view
            x == Reached(ep, s, ep.connected50, 50)
            y == Reached(ep, s, ep.connected90, 90)
            z == Reached(ep, s, ep.connected99, 99)
            l == Led(ep, s)
            c == IF Same(ep.last, s.view) THEN ep.change ELSE s.at
<1>1. Applied(ep, s) = Added(ep, x, y, z, p, r, m, l, c, v)
  BY AppliedIs
<1>. HIDE DEF p, r, m, t, v, x, y, z, l, c
<1>2. LET a == [Applied(ep, s) EXCEPT !.status = status, !.end = t]
      IN  /\ a.id = ep.id /\ a.status = status /\ a.start = ep.start /\ a.end = t
          /\ a.base = ep.base /\ a.last = v /\ a.change = c
          /\ a.connected50 = x /\ a.connected90 = y /\ a.connected99 = z /\ a.newLeader = l
          /\ a.promotions = ep.promotions + p /\ a.leaderChanges = ep.leaderChanges + p
          /\ a.reparents = ep.reparents + r /\ a.parentChanges = ep.parentChanges + m
          /\ Applied(ep, s).change = a.change /\ Applied(ep, s).start = ep.start
  BY <1>1 DEF Added, EpochType
<1>. QED
  BY <1>2 DEF p, r, m, t, v, x, y, z, l, c

LEMMA EpochOfType ==
  ASSUME NEW s \in SampleType
  PROVE  Epoch(s.id, s.at, s.view) \in EpochType
<1>1. s.id \in 0 .. MaxEpochs /\ s.at \in 0 .. MaxTime /\ s.view \in Samples
  BY DEF SampleType
<1>2. Unset \in Int
  BY BoundAssumption DEF Unset
<1>. QED
  BY <1>1, <1>2 DEF Epoch, EpochType

LEMMA NoEpochOfType == NoEpoch \in EpochType
BY BoundAssumption DEF NoEpoch, Epoch, EpochType, Unset

(* A number is added to the closings, and the history keeps the latest.    *)
LEMMA PersistIs ==
  ASSUME NEW id \in 1 .. MaxEpochs, Persist(id), HistoryIsTheLatest,
         history \in Seq(1 .. MaxEpochs), Len(history) <= MaxHistory,
         closings \in Seq(1 .. MaxEpochs)
  PROVE  /\ closings' = Append(closings, id)
         /\ closings' \in Seq(1 .. MaxEpochs)
         /\ history' \in Seq(1 .. MaxEpochs)
         /\ Len(history') <= MaxHistory
         /\ HistoryIsTheLatest'
<1>. DEFINE N == 1 .. MaxEpochs
            h == Append(history, id)
            m == IF 1 >= Len(h) - MaxHistory + 1 THEN 1 ELSE Len(h) - MaxHistory + 1
<1>1. MaxHistory \in Nat \ {0}
  BY RecoveryAssumption
<1>2. /\ h \in Seq(N) /\ Len(h) = Len(history) + 1
      /\ \A i \in 1 .. Len(h) : h[i] = IF i <= Len(history) THEN history[i] ELSE id
  BY AppendProperties
<1>3. /\ closings' = Append(closings, id) /\ closings' \in Seq(N)
      /\ Len(closings') = Len(closings) + 1
      /\ \A i \in 1 .. Len(closings') :
           closings'[i] = IF i <= Len(closings) THEN closings[i] ELSE id
  BY AppendProperties DEF Persist
<1>4. history' = SubSeq(h, m, Len(h))
  <2>1. Max({1, Len(h) - MaxHistory + 1}) = m
    BY <1>1, <1>2, LargerOfTwo
  <2>. HIDE DEF m
  <2>. QED
    BY <2>1 DEF Persist
<1>5. m \in 1 .. Len(h)
  BY <1>1, <1>2
<1>6. \A i \in m .. Len(h) : h[i] \in N
  <2>. HIDE DEF h, m, N
  <2>. QED
    BY <1>2, <1>5, ElementOfSeq
<1>7. /\ history' \in Seq(N) /\ Len(history') = Len(h) - m + 1
      /\ \A i \in 1 .. Len(h) - m + 1 : history'[i] = h[m + i - 1]
  <2>1. m \in Int /\ Len(h) \in Int /\ m <= Len(h)
    BY <1>2, <1>5
  <2>. HIDE DEF h, m, N
  <2>. QED
    BY <1>4, <1>6, <2>1, SubSeqProperties
<1>8. Len(history) \in Nat /\ Len(closings) \in Nat
  OBVIOUS
<1>9. Len(h) - m + 1 = IF Len(history) + 1 <= MaxHistory THEN Len(history) + 1 ELSE MaxHistory
  <2>1. ASSUME NEW k \in Nat, k = Len(history)
        PROVE  Len(h) - m + 1 = IF k + 1 <= MaxHistory THEN k + 1 ELSE MaxHistory
    <3>1. Len(h) = k + 1
      BY <1>2, <2>1
    <3>. HIDE DEF h
    <3>. QED
      BY <1>1, <3>1
  <2>. QED
    BY <1>8, <2>1
<1>10. /\ Len(history') <= MaxHistory
       /\ Len(history') = IF Len(closings') <= MaxHistory THEN Len(closings') ELSE MaxHistory
  <2>. HIDE DEF h, m
  <2>. QED
    BY <1>1, <1>3, <1>7, <1>8, <1>9 DEF HistoryIsTheLatest
<1>11. \A i \in 1 .. Len(history') : history'[i] = closings'[Len(closings') - Len(history') + i]
  <2>. SUFFICES ASSUME NEW i \in 1 .. Len(history')
                PROVE  history'[i] = closings'[Len(closings') - Len(history') + i]
    OBVIOUS
  <2>1. PICK lh, lc \in Nat : lh = Len(history) /\ lc = Len(closings) /\ lh <= lc
    BY <1>1, <1>8 DEF HistoryIsTheLatest
  <2>2. m \in 1 .. lh + 1 /\ Len(h) = lh + 1 /\ Len(closings') = lc + 1
        /\ Len(history') = lh + 2 - m
    <3>1. m \in 1 .. Len(h) /\ Len(h) = lh + 1 /\ Len(closings') = lc + 1
          /\ Len(history') = Len(h) - m + 1
      BY <1>2, <1>3, <1>5, <1>7, <2>1
    <3>. HIDE DEF h, m
    <3>. QED
      BY <3>1
  <2>. HIDE DEF h, m
  <2>3. PICK j : j = m + i - 1
    OBVIOUS
  <2>4. j \in 1 .. lh + 1 /\ i \in 1 .. Len(h) - m + 1
        /\ Len(closings') - Len(history') + i = lc - lh + j
    BY <2>1, <2>2, <2>3
  <2>5. history'[i] = h[j]
    BY <1>7, <2>3, <2>4
  <2>6. CASE j <= lh
    <3>1. j \in 1 .. lh /\ lc - lh + j \in 1 .. lc
      BY <2>1, <2>4, <2>6
    <3>2. h[j] = history[j] /\ closings'[lc - lh + j] = closings[lc - lh + j]
      BY <1>2, <1>3, <2>1, <2>2, <3>1
    <3>3. history[j] = closings[lc - lh + j]
      BY <2>1, <3>1 DEF HistoryIsTheLatest
    <3>. QED
      BY <2>4, <2>5, <3>2, <3>3
  <2>7. CASE j = lh + 1
    <3>1. lc - lh + j = lc + 1 /\ lc + 1 \in 1 .. lc + 1 /\ ~ lc + 1 <= lc
          /\ lh + 1 \in 1 .. lh + 1 /\ ~ lh + 1 <= lh
      BY <2>1, <2>7
    <3>2. h[j] = id /\ closings'[lc - lh + j] = id
      BY <1>2, <1>3, <2>1, <2>2, <2>7, <3>1
    <3>. QED
      BY <2>4, <2>5, <3>2
  <2>. QED
    BY <2>1, <2>4, <2>6, <2>7
<1>. QED
  BY <1>3, <1>7, <1>10, <1>11 DEF HistoryIsTheLatest

LEMMA CloseIs ==
  ASSUME TypeOK, HistoriesTyped, HistoryIsTheLatest, OpenEpochIsAccountedFor, Close
  PROVE  /\ closings' = IF Running(current) THEN Append(closings, current.id) ELSE closings
         /\ closings' \in Seq(1 .. MaxEpochs)
         /\ history' \in Seq(1 .. MaxEpochs)
         /\ Len(history') <= MaxHistory
         /\ HistoryIsTheLatest'
<1>1. CASE Running(current)
  <2>1. current.id \in 1 .. MaxEpochs /\ Persist(current.id)
    BY <1>1 DEF HistoriesTyped, OpenEpochIsAccountedFor, Close
  <2>. QED
    BY <1>1, <2>1, PersistIs DEF TypeOK, HistoriesTyped
<1>2. CASE ~ Running(current)
  BY <1>2 DEF Close, TypeOK, HistoriesTyped, HistoryIsTheLatest
<1>. QED
  BY <1>1, <1>2
-----------------------------------------------------------------------------
(* The types.                                                              *)
Types == TypeOK /\ HistoriesTyped /\ HistoryIsTheLatest

LEMMA StepKeepsTypes ==
  ASSUME Types, NumbersAreDrawnOnce, OpenEpochIsAccountedFor, [Next]_vars
  PROVE  Types'
<1>. USE DEF Types
<1>. DEFINE S == Opener \cup Run
            V == SampleType \cup {NoSample}
<1>1. MaxTime \in Nat /\ MaxEpochs \in Nat /\ MaxRuns \in Nat
  BY BoundAssumption
<1>2. ASSUME Elapse
      PROVE  Types'
  <2>1. now' \in 0 .. MaxTime
    BY <1>2, <1>1 DEF Elapse, TypeOK
  <2>2. TypeOK'
    BY <1>2, <2>1 DEF Elapse, TypeOK
  <2>. QED
    BY <1>2, <2>2 DEF Elapse, HistoriesTyped, HistoryIsTheLatest
<1>3. ASSUME Start
      PROVE  Types'
  <2>1. runs' \in 0 .. MaxRuns /\ run' \in {0, runs'} /\ stopping' \subseteq 1 .. runs'
        /\ ticked' \subseteq 1 .. runs'
    BY <1>3, <1>1 DEF Start, TypeOK
  <2>2. current' \in EpochType /\ seen' \in Seq(SampleType) /\ Len(seen') = 0
    BY <1>3, NoEpochOfType DEF Start
  <2>3. dropped'.ids \in SUBSET (1 .. MaxEpochs)
    BY <1>3 DEF Start, HistoriesTyped, OpenEpochIsAccountedFor
  <2>4. TypeOK'
    BY <1>3, <2>1, <2>2 DEF Start, TypeOK
  <2>. QED
    BY <1>3, <2>2, <2>3, <2>4 DEF Start, HistoriesTyped, HistoryIsTheLatest
<1>4. ASSUME Stop
      PROVE  Types'
  <2>1. run' \in {0, runs'} /\ stopping' \subseteq 1 .. runs'
    <3>1. run = runs /\ runs \in 0 .. MaxRuns /\ run # 0 /\ stopping \subseteq 1 .. runs
      BY <1>4 DEF Stop, TypeOK
    <3>2. run \in 1 .. runs
      BY <1>1, <3>1
    <3>. QED
      BY <1>4, <3>1, <3>2 DEF Stop
  <2>. QED
    BY <1>4, <2>1 DEF Stop, TypeOK, HistoriesTyped, HistoryIsTheLatest
<1>5. ASSUME NEW g \in Run, Abort(g)
      PROVE  Types'
  <2>1. /\ closings' \in Seq(1 .. MaxEpochs) /\ history' \in Seq(1 .. MaxEpochs)
        /\ Len(history') <= MaxHistory /\ HistoryIsTheLatest'
    BY <1>5, CloseIs DEF Abort
  <2>2. current' \in EpochType
    BY <1>5 DEF Abort, TypeOK, EpochType
  <2>. QED
    BY <1>5, <2>1, <2>2 DEF Abort, TypeOK, HistoriesTyped
<1>6. ASSUME NEW g \in Run, Tick(g)
      PROVE  Types'
  <2>1. g \in 1 .. runs
    BY <1>6, <1>1 DEF Tick, TypeOK, Run
  <2>2. [at |-> now, view |-> world, id |-> 0] \in SampleType
    BY <1>1 DEF TypeOK, SampleType
  <2>3. sample' \in [S -> V]
    BY <1>6, <2>2 DEF Tick, HistoriesTyped
  <2>4. \A o \in S : sample'[o] = NoSample \/ sample'[o] \in SampleType
    BY <2>3
  <2>5. TypeOK'
    BY <1>6, <2>1, <2>4 DEF Tick, TypeOK, SampleType
  <2>. QED
    BY <1>6, <2>3, <2>5 DEF Tick, HistoriesTyped, HistoryIsTheLatest
<1>7. ASSUME NEW g \in Run, Apply(g)
      PROVE  Types'
  <2>. DEFINE s == sample[g]
              status == Status(Applied(current, s), s)
  <2>1. s \in SampleType
    BY <1>7 DEF Apply, HistoriesTyped
  <2>2. sample' \in [S -> V]
    BY <1>7 DEF Apply, HistoriesTyped
  <2>3. \A o \in S : sample'[o] = NoSample \/ sample'[o] \in SampleType
    BY <2>2
  <2>4. current' \in EpochType /\ seen' \in Seq(SampleType)
    <3>1. CASE Running(current)
      <4>1. current' = [Applied(current, s) EXCEPT !.status = status, !.end = s.at]
            /\ seen' = Append(seen, s)
        BY <1>7, <3>1 DEF Apply
      <4>2. status \in {"none", "running", "stabilized", "timeout", "aborted"}
        BY DEF Status
      <4>3. current \in EpochType /\ seen \in Seq(SampleType)
        BY DEF TypeOK, HistoriesTyped
      <4>. HIDE DEF s, status
      <4>. QED
        BY <4>1, <4>2, <4>3, <2>1, AppliedOfType, AppendProperties
    <3>2. CASE ~ Running(current)
      BY <1>7, <3>2 DEF Apply, TypeOK, HistoriesTyped
    <3>. QED
      BY <3>1, <3>2
  <2>5. /\ closings' \in Seq(1 .. MaxEpochs) /\ history' \in Seq(1 .. MaxEpochs)
        /\ Len(history') <= MaxHistory /\ HistoryIsTheLatest'
    <3>1. CASE Running(current) /\ status # "running"
      <4>1. current.id \in 1 .. MaxEpochs /\ Persist(current.id)
        BY <1>7, <3>1 DEF Apply, HistoriesTyped, OpenEpochIsAccountedFor
      <4>. QED
        BY <4>1, PersistIs DEF TypeOK, HistoriesTyped
    <3>2. CASE ~ (Running(current) /\ status # "running")
      BY <1>7, <3>2 DEF Apply, TypeOK, HistoriesTyped, HistoryIsTheLatest
    <3>. QED
      BY <3>1, <3>2
  <2>6. \A i \in 1 .. Len(seen') : seen'[i].view \in Samples
    <3>1. \A i \in 1 .. Len(seen') : seen'[i] \in SampleType
      BY <2>4, ElementOfSeq
    <3>. QED
      BY <3>1 DEF SampleType
  <2>7. TypeOK'
    BY <1>7, <2>3, <2>4, <2>5, <2>6 DEF Apply, TypeOK, SampleType
  <2>. QED
    BY <1>7, <2>2, <2>4, <2>5, <2>7 DEF Apply, HistoriesTyped
<1>8. ASSUME NEW o \in Opener, Capture(o)
      PROVE  Types'
  <2>1. seq' \in 0 .. MaxEpochs
    BY <1>8, <1>1 DEF Capture, TypeOK
  <2>2. [at |-> now, view |-> world, id |-> seq + 1] \in SampleType
    BY <1>8, <1>1 DEF Capture, TypeOK, SampleType
  <2>3. sample' \in [S -> V]
    BY <1>8, <2>2 DEF Capture, HistoriesTyped
  <2>4. \A p \in S : sample'[p] = NoSample \/ sample'[p] \in SampleType
    BY <2>3
  <2>5. TypeOK'
    BY <1>8, <2>1, <2>4 DEF Capture, TypeOK, SampleType
  <2>. QED
    BY <1>8, <2>3, <2>5 DEF Capture, HistoriesTyped, HistoryIsTheLatest
<1>9. ASSUME NEW o \in Opener, Install(o)
      PROVE  Types'
  <2>. DEFINE s == sample[o]
  <2>1. s \in SampleType
    BY <1>9 DEF Install, HistoriesTyped
  <2>2. sample' \in [S -> V]
    BY <1>9 DEF Install, HistoriesTyped
  <2>3. \A p \in S : sample'[p] = NoSample \/ sample'[p] \in SampleType
    BY <2>2
  <2>4. current' \in EpochType /\ seen' \in Seq(SampleType) /\ Len(seen') = 0
    BY <1>9, <2>1, EpochOfType DEF Install
  <2>5. /\ closings' \in Seq(1 .. MaxEpochs) /\ history' \in Seq(1 .. MaxEpochs)
        /\ Len(history') <= MaxHistory /\ HistoryIsTheLatest'
    BY <1>9, CloseIs DEF Install
  <2>6. opened'.all \in SUBSET (1 .. MaxEpochs) /\ opened'.late \subseteq opened'.all
        /\ opened' = [all |-> opened'.all, late |-> opened'.late]
    <3>1. sample[o].id \in 1 .. seq /\ seq \in 0 .. MaxEpochs
      BY <1>9 DEF Install, NumbersAreDrawnOnce, TypeOK
    <3>2. sample[o].id \in 1 .. MaxEpochs
      BY <1>1, <3>1
    <3>. QED
      BY <1>9, <3>2 DEF Install, TypeOK, HistoriesTyped
  <2>7. TypeOK'
    BY <1>9, <2>3, <2>4, <2>5, <2>6 DEF Install, TypeOK, SampleType
  <2>. QED
    BY <1>9, <2>2, <2>4, <2>5, <2>6, <2>7 DEF Install, HistoriesTyped
<1>10. ASSUME UNCHANGED vars
       PROVE  Types'
  BY <1>10 DEF vars, TypeOK, HistoriesTyped, HistoryIsTheLatest
<1>. QED
  BY <1>2, <1>3, <1>4, <1>5, <1>6, <1>7, <1>8, <1>9, <1>10 DEF Next
-----------------------------------------------------------------------------
(* The numbers.                                                            *)
LEMMA ClosingIsAdded ==
  ASSUME NEW q \in Seq(1 .. MaxEpochs), NEW id \in 1 .. MaxEpochs
  PROVE  /\ ToSet(Append(q, id)) = ToSet(q) \cup {id}
         /\ IsInjective(q) /\ id \notin ToSet(q) => IsInjective(Append(q, id))
<1>1. /\ DOMAIN q = 1 .. Len(q) /\ DOMAIN Append(q, id) = 1 .. Len(q) + 1 /\ Len(q) \in Nat
      /\ \A i \in 1 .. Len(q) : Append(q, id)[i] = q[i]
      /\ Append(q, id)[Len(q) + 1] = id
  BY AppendProperties, LenProperties
<1>2. 1 .. Len(q) + 1 = (1 .. Len(q)) \cup {Len(q) + 1}
  BY <1>1
<1>3. ToSet(Append(q, id)) = ToSet(q) \cup {id}
  BY <1>1, <1>2 DEF ToSet
<1>4. ASSUME IsInjective(q), id \notin ToSet(q)
      PROVE  IsInjective(Append(q, id))
  <2>1. \A i \in 1 .. Len(q) : q[i] # id
    BY <1>1, <1>4 DEF ToSet
  <2>2. \A i, j \in 1 .. Len(q) : q[i] = q[j] => i = j
    BY <1>1, <1>4 DEF IsInjective
  <2>3. \A i, j \in 1 .. Len(q) + 1 : Append(q, id)[i] = Append(q, id)[j] => i = j
    BY <1>1, <1>2, <2>1, <2>2
  <2>. QED
    BY <1>1, <2>3 DEF IsInjective
<1>. QED
  BY <1>3, <1>4

Open == IF Running(current) THEN {current.id} ELSE {}

Numbers == NumbersAreDrawnOnce /\ OpenEpochIsAccountedFor /\ EpochsCloseOnce

(* The open epoch is finalized: it goes from the open ones to the          *)
(* finalized ones.                                                         *)
LEMMA CloseMoves ==
  ASSUME Types, Numbers, Close
  PROVE  /\ IsInjective(closings')
         /\ ToSet(closings') = ToSet(closings) \cup Open
         /\ ToSet(closings') \cap dropped.ids = {}
         /\ opened.all = ToSet(closings') \cup dropped.ids
<1>1. closings' = IF Running(current) THEN Append(closings, current.id) ELSE closings
  BY CloseIs DEF Types, Numbers
<1>2. closings \in Seq(1 .. MaxEpochs) /\ opened.all \subseteq 1 .. MaxEpochs
  BY DEF Types, HistoriesTyped
<1>3. /\ IsInjective(closings) /\ opened.all = ToSet(closings) \cup Open \cup dropped.ids
      /\ ToSet(closings) \cap (Open \cup dropped.ids) = {}
  BY DEF Numbers, EpochsCloseOnce, Open
<1>4. CASE Running(current)
  <2>1. current.id \in 1 .. MaxEpochs /\ current.id \notin dropped.ids /\ Open = {current.id}
    BY <1>2, <1>4 DEF Numbers, OpenEpochIsAccountedFor, Open
  <2>2. ToSet(closings') = ToSet(closings) \cup {current.id} /\ IsInjective(closings')
    BY <1>1, <1>2, <1>3, <1>4, <2>1, ClosingIsAdded
  <2>. QED
    BY <1>3, <2>1, <2>2
<1>5. CASE ~ Running(current)
  BY <1>1, <1>3, <1>5 DEF Open
<1>. QED
  BY <1>4, <1>5

LEMMA StepKeepsNumbers ==
  ASSUME Types, Numbers, [Next]_vars
  PROVE  Numbers'
<1>1. MaxTime \in Nat /\ MaxEpochs \in Nat /\ MaxRuns \in Nat /\ seq \in 0 .. MaxEpochs
      /\ Opener \cap Run = {}
  BY BoundAssumption, OpenerAssumption DEF Types, TypeOK, Run
<1>2. sample \in [Opener \cup Run -> SampleType \cup {NoSample}]
  BY DEF Types, HistoriesTyped
<1>3. /\ IsInjective(closings) /\ opened.all = ToSet(closings) \cup Open \cup dropped.ids
      /\ ToSet(closings) \cap (Open \cup dropped.ids) = {}
      /\ dropped.ids \subseteq opened.late \cup dropped.early \cup dropped.over
  BY DEF Numbers, EpochsCloseOnce, Open
<1>4. ASSUME UNCHANGED <<current, run, stopping, closings, sample, seq, opened, dropped>>
      PROVE  Numbers'
  BY <1>4 DEF Numbers, NumbersAreDrawnOnce, OpenEpochIsAccountedFor, EpochsCloseOnce, Running
<1>5. ASSUME UNCHANGED <<sample, seq, opened>>
      PROVE  NumbersAreDrawnOnce'
  BY <1>5 DEF Numbers, NumbersAreDrawnOnce
<1>6. ASSUME Start
      PROVE  Numbers'
  <2>1. NumbersAreDrawnOnce'
    BY <1>5, <1>6 DEF Start
  <2>2. ~ Running(current)'
    BY <1>6 DEF Start, NoEpoch, Epoch, Running
  <2>3. dropped'.ids = dropped.ids \cup Open
    BY <1>6 DEF Start, Open
  <2>4. dropped'.ids \subseteq opened.late \cup dropped'.early \cup dropped'.over
    <3>1. dropped.ids \subseteq opened.late \cup dropped'.early \cup dropped'.over
      BY <1>3, <1>6 DEF Start
    <3>2. ASSUME run = 0, stopping = {}
          PROVE  Open \subseteq opened.late
      BY <3>2 DEF Numbers, OpenEpochIsAccountedFor, Open
    <3>3. ASSUME stopping # {}
          PROVE  Open \subseteq dropped'.early
      BY <1>6, <3>3 DEF Start, Open
    <3>4. ASSUME run # 0
          PROVE  Open \subseteq dropped'.over
      BY <1>6, <3>4 DEF Start, Open
    <3>. QED
      BY <2>3, <3>1, <3>2, <3>3, <3>4
  <2>5. UNCHANGED <<closings, opened>>
    BY <1>6 DEF Start
  <2>. QED
    BY <1>3, <2>1, <2>2, <2>3, <2>4, <2>5 DEF Numbers, OpenEpochIsAccountedFor, EpochsCloseOnce
<1>7. ASSUME Stop
      PROVE  Numbers'
  <2>1. NumbersAreDrawnOnce'
    BY <1>5, <1>7 DEF Stop
  <2>2. stopping' # {} /\ UNCHANGED <<current, closings, opened, dropped>>
    BY <1>7 DEF Stop
  <2>. QED
    BY <2>1, <2>2 DEF Numbers, OpenEpochIsAccountedFor, EpochsCloseOnce, Running
<1>8. ASSUME NEW g \in Run, Abort(g)
      PROVE  Numbers'
  <2>1. NumbersAreDrawnOnce'
    BY <1>5, <1>8 DEF Abort
  <2>2. ~ Running(current)'
    BY <1>8 DEF Abort, Types, TypeOK, EpochType, Running
  <2>3. Close /\ UNCHANGED <<opened, dropped>>
    BY <1>8 DEF Abort
  <2>. QED
    BY <1>3, <2>1, <2>2, <2>3, CloseMoves DEF Numbers, OpenEpochIsAccountedFor, EpochsCloseOnce
<1>9. ASSUME NEW g \in Run, Tick(g)
      PROVE  Numbers'
  <2>1. \A o \in Opener : sample'[o] = sample[o]
    BY <1>1, <1>2, <1>9 DEF Tick
  <2>2. UNCHANGED <<current, run, stopping, closings, seq, opened, dropped>>
    BY <1>9 DEF Tick
  <2>3. NumbersAreDrawnOnce'
    BY <2>1, <2>2 DEF Numbers, NumbersAreDrawnOnce
  <2>. QED
    BY <2>2, <2>3 DEF Numbers, OpenEpochIsAccountedFor, EpochsCloseOnce, Running
<1>10. ASSUME NEW g \in Run, Apply(g)
       PROVE  Numbers'
  <2>. DEFINE s == sample[g]
              status == Status(Applied(current, s), s)
  <2>1. s \in SampleType
    BY <1>2, <1>10 DEF Apply
  <2>2. \A o \in Opener : sample'[o] = sample[o]
    BY <1>1, <1>2, <1>10 DEF Apply
  <2>3. UNCHANGED <<run, stopping, seq, opened, dropped>>
    BY <1>10 DEF Apply
  <2>4. NumbersAreDrawnOnce'
    BY <2>2, <2>3 DEF Numbers, NumbersAreDrawnOnce
  <2>5. CASE ~ Running(current)
    <3>1. UNCHANGED <<current, closings>>
      BY <1>10, <2>5 DEF Apply
    <3>. QED
      BY <2>3, <2>4, <3>1 DEF Numbers, OpenEpochIsAccountedFor, EpochsCloseOnce, Running
  <2>6. CASE Running(current)
    <3>1. current' = [Applied(current, s) EXCEPT !.status = status, !.end = s.at]
      BY <1>10, <2>6 DEF Apply
    <3>2. current \in EpochType
      BY DEF Types, TypeOK
    <3>3. current'.id = current.id /\ current'.status = status
      <4>. HIDE DEF s, status
      <4>. QED
        BY <2>1, <3>1, <3>2, AppliedFields
    <3>4. CASE status = "running"
      <4>1. Running(current)' /\ UNCHANGED closings
        BY <1>10, <2>6, <3>3, <3>4 DEF Apply, Running
      <4>. QED
        BY <2>3, <2>4, <2>6, <3>3, <4>1
        DEF Numbers, OpenEpochIsAccountedFor, EpochsCloseOnce
    <3>5. CASE status # "running"
      <4>1. ~ Running(current)' /\ Close
        BY <1>10, <2>6, <3>3, <3>5 DEF Apply, Running, Close
      <4>. QED
        BY <1>3, <2>3, <2>4, <4>1, CloseMoves
        DEF Numbers, OpenEpochIsAccountedFor, EpochsCloseOnce
    <3>. QED
      BY <3>4, <3>5
  <2>. QED
    BY <2>5, <2>6
<1>11. ASSUME NEW o \in Opener, Capture(o)
       PROVE  Numbers'
  <2>1. sample' = [sample EXCEPT ![o] = [at |-> now, view |-> world, id |-> seq + 1]]
        /\ seq' = seq + 1 /\ seq + 1 \in 1 .. MaxEpochs
    BY <1>1, <1>11 DEF Capture
  <2>2. UNCHANGED <<current, run, stopping, closings, opened, dropped>>
    BY <1>11 DEF Capture
  <2>3. /\ \A id \in opened.all : id <= seq /\ id \in Nat
        /\ \A p \in Opener : sample[p] # NoSample => sample[p].id \in 1 .. seq
    BY DEF Numbers, NumbersAreDrawnOnce, Types, HistoriesTyped
  <2>4. sample'[o].id = seq + 1 /\ \A p \in Opener \ {o} : sample'[p] = sample[p]
    BY <1>2, <2>1
  <2>5. NumbersAreDrawnOnce'
    <3>1. \A id \in opened'.all : id <= seq'
      BY <1>1, <2>1, <2>2, <2>3
    <3>2. \A p \in Opener : sample'[p] # NoSample =>
            sample'[p].id \in 1 .. seq' /\ sample'[p].id \notin opened'.all
      BY <1>1, <2>1, <2>2, <2>3, <2>4 DEF Numbers, NumbersAreDrawnOnce
    <3>3. \A p, q \in Opener :
            sample'[p] # NoSample /\ sample'[q] # NoSample /\ sample'[p].id = sample'[q].id => p = q
      BY <1>1, <2>3, <2>4 DEF Numbers, NumbersAreDrawnOnce
    <3>. QED
      BY <3>1, <3>2, <3>3 DEF NumbersAreDrawnOnce
  <2>. QED
    BY <2>2, <2>5 DEF Numbers, OpenEpochIsAccountedFor, EpochsCloseOnce, Running
<1>12. ASSUME NEW o \in Opener, Install(o)
       PROVE  Numbers'
  <2>. DEFINE id == sample[o].id
  <2>1. sample[o] # NoSample /\ id \in 1 .. seq /\ id \notin opened.all
    BY <1>12 DEF Install, Numbers, NumbersAreDrawnOnce
  <2>2. Running(current)' /\ current'.id = id
    BY <1>12 DEF Install, Epoch, Running
  <2>3. Close /\ UNCHANGED <<run, stopping, seq, dropped>>
    BY <1>12 DEF Install
  <2>4. /\ opened'.all = opened.all \cup {id} /\ opened.late \subseteq opened'.late
        /\ run = 0 /\ stopping = {} => id \in opened'.late
    BY <1>12 DEF Install
  <2>5. sample'[o] = NoSample /\ \A p \in Opener \ {o} : sample'[p] = sample[p]
    BY <1>2, <1>12 DEF Install
  <2>6. NumbersAreDrawnOnce'
    <3>1. \A k \in opened'.all : k <= seq'
      BY <1>1, <2>1, <2>3, <2>4 DEF Numbers, NumbersAreDrawnOnce
    <3>2. \A p \in Opener : sample'[p] # NoSample =>
            sample'[p].id \in 1 .. seq' /\ sample'[p].id \notin opened'.all
      BY <2>1, <2>3, <2>4, <2>5 DEF Numbers, NumbersAreDrawnOnce
    <3>3. \A p, q \in Opener :
            sample'[p] # NoSample /\ sample'[q] # NoSample /\ sample'[p].id = sample'[q].id => p = q
      BY <2>5 DEF Numbers, NumbersAreDrawnOnce
    <3>. QED
      BY <3>1, <3>2, <3>3 DEF NumbersAreDrawnOnce
  <2>7. id \notin dropped.ids /\ id \notin ToSet(closings')
    BY <2>1, <2>3, CloseMoves
  <2>. HIDE DEF id
  <2>8. OpenEpochIsAccountedFor'
    BY <2>2, <2>3, <2>4, <2>7 DEF OpenEpochIsAccountedFor
  <2>9. EpochsCloseOnce'
    BY <1>3, <2>2, <2>3, <2>4, <2>7, CloseMoves DEF EpochsCloseOnce
  <2>. QED
    BY <2>6, <2>8, <2>9 DEF Numbers
<1>. QED
  <2>1. ASSUME Elapse
        PROVE  Numbers'
    BY <1>4, <2>1 DEF Elapse
  <2>2. ASSUME UNCHANGED vars
        PROVE  Numbers'
    BY <1>4, <2>2 DEF vars
  <2>. QED
    BY <1>6, <1>7, <1>8, <1>9, <1>10, <1>11, <1>12, <2>1, <2>2 DEF Next
-----------------------------------------------------------------------------
(* The epoch and its samples.                                              *)
Epochs == EpochFollowsItsSamples /\ ChangeIsTheLatest /\ StableAsSpecified /\ MetricsAsSpecified

Enough(base, pct, v) ==
  LET total == Cardinality(DOMAIN base)
  IN  total > 0 /\ Connected(v) > 0 /\ 100 * Connected(v) >= pct * total

Leading(base, v) == \E n \in DOMAIN v : v[n].role = "leader" /\ RoleIn(base, n) # "leader"

FirstAt(hits, q, start) == IF hits = {} THEN Unset ELSE q[Min(hits)].at - start

ShareHits(base, pct, q) == {i \in 1 .. Len(q) : Enough(base, pct, q[i].view)}
LeaderHits(base, q)     == {i \in 1 .. Len(q) : Leading(base, q[i].view)}

MetricsOf(ep, q) ==
  /\ ep.connected50 = FirstAt(ShareHits(ep.base, 50, q), q, ep.start)
  /\ ep.connected90 = FirstAt(ShareHits(ep.base, 90, q), q, ep.start)
  /\ ep.connected99 = FirstAt(ShareHits(ep.base, 99, q), q, ep.start)
  /\ ep.newLeader = FirstAt(LeaderHits(ep.base, q), q, ep.start)
  /\ ep.promotions = ep.leaderChanges
  /\ ep.reparents <= ep.parentChanges

LEMMA MetricsAre ==
  /\ MetricsAsSpecified <=> MetricsOf(current, seen)
  /\ MetricsAsSpecified' <=> MetricsOf(current', seen')
BY DEF MetricsOf, MetricsAsSpecified, Share, NewLeader, First, Enough, Leading, FirstAt, ShareHits,
       LeaderHits

LEMMA TimesAreSet ==
  ASSUME NEW t \in 0 .. MaxTime, NEW start \in 0 .. MaxTime
  PROVE  t - start # Unset
<1>1. MaxTime \in Nat
  BY BoundAssumption
<1>. QED
  BY <1>1 DEF Unset

(* A sample is appended: what was found first stays.                       *)
LEMMA FirstOfAppended ==
  ASSUME NEW q \in Seq(SampleType), NEW s \in SampleType, NEW start \in 0 .. MaxTime,
         NEW hits \in SUBSET (1 .. Len(q))
  PROVE  LET old == FirstAt(hits, q, start)
         IN  /\ FirstAt(hits, Append(q, s), start) = old
             /\ FirstAt(hits \cup {Len(q) + 1}, Append(q, s), start)
                  = IF old = Unset THEN s.at - start ELSE old
<1>1. Len(q) \in Nat /\ MaxTime \in Nat
  BY BoundAssumption
<1>2. /\ \A i \in 1 .. Len(q) : Append(q, s)[i] = q[i] /\ q[i] \in SampleType
      /\ Append(q, s)[Len(q) + 1] = s
  BY AppendProperties, ElementOfSeq
<1>3. CASE hits = {}
  <2>1. hits \cup {Len(q) + 1} = {Len(q) + 1} /\ Min({Len(q) + 1}) = Len(q) + 1
    BY <1>1, <1>3, LeastStays
  <2>. QED
    BY <1>2, <1>3, <2>1 DEF FirstAt
<1>4. CASE hits # {}
  <2>1. Min(hits \cup {Len(q) + 1}) = Min(hits) /\ Min(hits) \in 1 .. Len(q)
    BY <1>1, <1>4, LeastStays
  <2>2. PICK x : x = q[Min(hits)].at /\ x \in 0 .. MaxTime /\ x = Append(q, s)[Min(hits)].at
    BY <1>2, <2>1 DEF SampleType
  <2>3. x - start # Unset
    BY <2>2, TimesAreSet
  <2>. QED
    BY <1>4, <2>1, <2>2, <2>3 DEF FirstAt
<1>. QED
  BY <1>3, <1>4

LEMMA HitsOfAppended ==
  ASSUME NEW q \in Seq(SampleType), NEW s \in SampleType, NEW base, NEW pct
  PROVE  /\ ShareHits(base, pct, q) \in SUBSET (1 .. Len(q))
         /\ LeaderHits(base, q) \in SUBSET (1 .. Len(q))
         /\ ShareHits(base, pct, Append(q, s)) =
              IF Enough(base, pct, s.view) THEN ShareHits(base, pct, q) \cup {Len(q) + 1}
              ELSE ShareHits(base, pct, q)
         /\ LeaderHits(base, Append(q, s)) =
              IF Leading(base, s.view) THEN LeaderHits(base, q) \cup {Len(q) + 1}
              ELSE LeaderHits(base, q)
<1>1. /\ Len(q) \in Nat /\ Len(Append(q, s)) = Len(q) + 1
      /\ \A i \in 1 .. Len(q) : Append(q, s)[i] = q[i]
      /\ Append(q, s)[Len(q) + 1] = s
  BY AppendProperties
<1>2. 1 .. Len(q) + 1 = (1 .. Len(q)) \cup {Len(q) + 1}
  BY <1>1
<1>. QED
  BY <1>1, <1>2 DEF ShareHits, LeaderHits

(* What the sample makes of the times is what is found first.              *)
LEMMA ReachedIsFirst ==
  ASSUME NEW ep \in EpochType, NEW s \in SampleType, NEW q \in Seq(SampleType),
         NEW pct \in {50, 90, 99}, NEW field,
         field = FirstAt(ShareHits(ep.base, pct, q), q, ep.start)
  PROVE  Reached(ep, s, field, pct)
           = FirstAt(ShareHits(ep.base, pct, Append(q, s)), Append(q, s), ep.start)
<1>. DEFINE total == Cardinality(DOMAIN ep.base)
            c == Connected(s.view)
            hits == ShareHits(ep.base, pct, q)
<1>1. total \in Nat /\ c \in Nat
  <2>1. DOMAIN ep.base \in SUBSET Node /\ DOMAIN s.view \in SUBSET Node
    <3>1. ep.base \in Samples \cup {<<>>} /\ s.view \in Samples \cup {<<>>}
      BY DEF EpochType, SampleType
    <3>. QED
      BY <3>1, ViewsAreOfNodes
  <2>2. {n \in DOMAIN s.view : s.view[n].connected} \in SUBSET Node
    BY <2>1
  <2>. QED
    BY <2>1, <2>2, NodesAreCounted DEF Connected
<1>2. c >= Need(total, pct) <=> c > 0 /\ 100 * c >= pct * total
  <2>. HIDE DEF total, c
  <2>. QED
    BY <1>1, NeedIsTheShare
<1>3. (total > 0 /\ c >= Need(total, pct)) <=> Enough(ep.base, pct, s.view)
  BY <1>2 DEF Enough
<1>4. Reached(ep, s, field, pct)
        = IF field = Unset /\ Enough(ep.base, pct, s.view) THEN s.at - ep.start ELSE field
  <2>1. Reached(ep, s, field, pct)
          = IF field = Unset /\ (total > 0 /\ c >= Need(total, pct))
            THEN s.at - ep.start ELSE field
    BY DEF Reached
  <2>. HIDE DEF total, c
  <2>. QED
    BY <1>3, <2>1
<1>5. hits \in SUBSET (1 .. Len(q))
      /\ ShareHits(ep.base, pct, Append(q, s)) =
           IF Enough(ep.base, pct, s.view) THEN hits \cup {Len(q) + 1} ELSE hits
  <2>1. hits \in SUBSET (1 .. Len(q))
    BY DEF ShareHits
  <2>2. ShareHits(ep.base, pct, Append(q, s)) =
          IF Enough(ep.base, pct, s.view) THEN ShareHits(ep.base, pct, q) \cup {Len(q) + 1}
          ELSE ShareHits(ep.base, pct, q)
    BY HitsOfAppended, ZenonT(30)
  <2>. QED
    BY <2>1, <2>2
<1>6. /\ FirstAt(hits, Append(q, s), ep.start) = field
      /\ FirstAt(hits \cup {Len(q) + 1}, Append(q, s), ep.start)
            = IF field = Unset THEN s.at - ep.start ELSE field
  <2>1. ep.start \in 0 .. MaxTime
    BY DEF EpochType
  <2>2. field = FirstAt(hits, q, ep.start)
    OBVIOUS
  <2>3. PICK start : start = ep.start
    OBVIOUS
  <2>. HIDE DEF hits
  <2>4. LET old == FirstAt(hits, q, start)
        IN  /\ FirstAt(hits, Append(q, s), start) = old
            /\ FirstAt(hits \cup {Len(q) + 1}, Append(q, s), start)
                 = IF old = Unset THEN s.at - start ELSE old
    BY <1>5, <2>1, <2>3, FirstOfAppended
  <2>. QED
    BY <2>2, <2>3, <2>4
<1>. HIDE DEF hits
<1>. QED
  BY <1>4, <1>5, <1>6

LEMMA LedIsFirst ==
  ASSUME NEW ep \in EpochType, NEW s \in SampleType, NEW q \in Seq(SampleType),
         ep.newLeader = FirstAt(LeaderHits(ep.base, q), q, ep.start),
         ep.last = IF Len(q) = 0 THEN ep.base ELSE q[Len(q)].view
  PROVE  Led(ep, s) = FirstAt(LeaderHits(ep.base, Append(q, s)), Append(q, s), ep.start)
<1>. DEFINE hits == LeaderHits(ep.base, q)
            field == ep.newLeader
            led == \E n \in Promoted(ep.last, s.view) : RoleIn(ep.base, n) # "leader"
<1>1. ep.start \in 0 .. MaxTime /\ MaxTime \in Nat /\ Len(q) \in Nat
  BY BoundAssumption DEF EpochType
<1>2. hits \in SUBSET (1 .. Len(q))
      /\ LeaderHits(ep.base, Append(q, s)) =
           IF Leading(ep.base, s.view) THEN hits \cup {Len(q) + 1} ELSE hits
  BY HitsOfAppended
<1>3. /\ FirstAt(hits, Append(q, s), ep.start) = field
      /\ FirstAt(hits \cup {Len(q) + 1}, Append(q, s), ep.start)
            = IF field = Unset THEN s.at - ep.start ELSE field
  <2>1. field = FirstAt(hits, q, ep.start)
    OBVIOUS
  <2>. HIDE DEF hits, field
  <2>. QED
    BY <1>1, <1>2, <2>1, FirstOfAppended
<1>4. ASSUME field = Unset
      PROVE  led <=> Leading(ep.base, s.view)
  <2>1. hits = {}
    <3>1. SUFFICES ASSUME hits # {}
                   PROVE  FALSE
      OBVIOUS
    <3>2. Min(hits) \in 1 .. Len(q)
      BY <1>1, <1>2, <3>1, LeastStays
    <3>3. q[Min(hits)] \in SampleType
      BY <3>2, ElementOfSeq
    <3>4. q[Min(hits)].at - ep.start # Unset
      BY <1>1, <3>3, TimesAreSet DEF SampleType
    <3>. QED
      BY <1>4, <3>1, <3>4 DEF FirstAt
  <2>2. \A n \in DOMAIN ep.last : ep.last[n].role = "leader" => RoleIn(ep.base, n) = "leader"
    <3>1. CASE Len(q) = 0
      BY <3>1 DEF RoleIn
    <3>2. CASE Len(q) # 0
      <4>1. Len(q) \in 1 .. Len(q)
        BY <1>1, <3>2
      <4>2. ~ Leading(ep.base, q[Len(q)].view)
        BY <2>1, <4>1 DEF LeaderHits
      <4>. QED
        BY <3>2, <4>2 DEF Leading
    <3>. QED
      BY <3>1, <3>2
  <2>. QED
    BY <2>2 DEF Leading, Promoted, RoleIn
<1>5. Led(ep, s) = IF field = Unset /\ led THEN s.at - ep.start ELSE field
  BY DEF Led
<1>. HIDE DEF hits, field, led
<1>. QED
  BY <1>2, <1>3, <1>4, <1>5

(* An epoch without samples.                                               *)
LEMMA FreshEpoch ==
  ASSUME seen' = <<>>,
         \/ current' = NoEpoch
         \/ \E s \in SampleType : current' = Epoch(s.id, s.at, s.view)
  PROVE  Epochs'
<1>1. Len(seen') = 0 /\ 1 .. Len(seen') = {}
  BY EmptySeq
<1>2. /\ current'.status \in {"none", "running"} /\ current'.change = current'.start
      /\ current'.connected50 = Unset /\ current'.connected90 = Unset
      /\ current'.connected99 = Unset /\ current'.newLeader = Unset
      /\ current'.promotions = 0 /\ current'.leaderChanges = 0
      /\ current'.reparents = 0 /\ current'.parentChanges = 0
  BY DEF NoEpoch, Epoch
<1>3. EpochFollowsItsSamples'
  <2>1. CASE current' = NoEpoch
    BY <2>1 DEF EpochFollowsItsSamples, NoEpoch, Epoch
  <2>2. CASE \E s \in SampleType : current' = Epoch(s.id, s.at, s.view)
    BY <1>1, <2>2 DEF EpochFollowsItsSamples, Epoch, Before, SampleType
  <2>. QED
    BY <2>1, <2>2
<1>4. ChangeIsTheLatest'
  <2>1. StillSince(0)' = current'.start
    BY DEF StillSince
  <2>. QED
    BY <1>1, <1>2, <2>1 DEF ChangeIsTheLatest
<1>5. StableAsSpecified'
  BY <1>1, <1>2 DEF StableAsSpecified
<1>6. MetricsAsSpecified'
  <2>1. \A base, pct : ShareHits(base, pct, seen') = {} /\ LeaderHits(base, seen') = {}
    BY <1>1 DEF ShareHits, LeaderHits
  <2>2. MetricsOf(current', seen')
    BY <1>2, <2>1 DEF MetricsOf, FirstAt
  <2>. QED
    BY <2>2, MetricsAre
<1>. QED
  BY <1>3, <1>4, <1>5, <1>6 DEF Epochs

(* An epoch that is aborted.                                               *)
LEMMA AbortedEpoch ==
  ASSUME Types, Epochs, Running(current), seen' = seen, NEW t,
         current' = [current EXCEPT !.status = "aborted", !.end = t]
  PROVE  Epochs'
<1>1. /\ current.status = "running" /\ current'.status = "aborted"
      /\ current'.base = current.base /\ current'.last = current.last
      /\ current'.start = current.start /\ current'.change = current.change
      /\ current'.connected50 = current.connected50 /\ current'.connected90 = current.connected90
      /\ current'.connected99 = current.connected99 /\ current'.newLeader = current.newLeader
      /\ current'.promotions = current.promotions
      /\ current'.leaderChanges = current.leaderChanges
      /\ current'.reparents = current.reparents /\ current'.parentChanges = current.parentChanges
  BY DEF Types, TypeOK, EpochType, Running
<1>2. EpochFollowsItsSamples'
  BY <1>1 DEF Epochs, EpochFollowsItsSamples, Before
<1>3. \A k : StillSince(k)' = StillSince(k)
  BY <1>1 DEF StillSince, Still, Before
<1>4. ChangeIsTheLatest'
  BY <1>1, <1>3 DEF Epochs, ChangeIsTheLatest
<1>5. \A k : (Stable(k)' <=> Stable(k)) /\ (TimedOut(k)' <=> TimedOut(k))
  BY <1>1, <1>3 DEF Stable, TimedOut
<1>6. StableAsSpecified'
  BY <1>1, <1>5 DEF Epochs, StableAsSpecified
<1>7. MetricsAsSpecified'
  BY <1>1, MetricsAre DEF Epochs, MetricsOf
<1>. QED
  BY <1>2, <1>4, <1>6, <1>7 DEF Epochs

(* A sample is applied: the metrics.                                       *)
LEMMA MetricsOfApplied ==
  ASSUME NEW ep \in EpochType, NEW s \in SampleType, NEW q \in Seq(SampleType), NEW status,
         MetricsOf(ep, q), ep.last = IF Len(q) = 0 THEN ep.base ELSE q[Len(q)].view
  PROVE  MetricsOf([Applied(ep, s) EXCEPT !.status = status, !.end = s.at], Append(q, s))
<1>1. PICK a : a = [Applied(ep, s) EXCEPT !.status = status, !.end = s.at]
  OBVIOUS
<1>2. /\ a.start = ep.start /\ a.base = ep.base
      /\ a.connected50 = Reached(ep, s, ep.connected50, 50)
      /\ a.connected90 = Reached(ep, s, ep.connected90, 90)
      /\ a.connected99 = Reached(ep, s, ep.connected99, 99)
      /\ a.newLeader = Led(ep, s)
      /\ a.promotions = ep.promotions + Cardinality(Promoted(ep.last, s.view))
      /\ a.leaderChanges = ep.leaderChanges + Cardinality(Promoted(ep.last, s.view))
      /\ a.reparents = ep.reparents + Cardinality(Rehung(ep.last, s.view))
      /\ a.parentChanges = ep.parentChanges + Cardinality(Moved(ep.last, s.view))
  BY <1>1, AppliedFields
<1>3. /\ a.connected50 = FirstAt(ShareHits(a.base, 50, Append(q, s)), Append(q, s), a.start)
      /\ a.connected90 = FirstAt(ShareHits(a.base, 90, Append(q, s)), Append(q, s), a.start)
      /\ a.connected99 = FirstAt(ShareHits(a.base, 99, Append(q, s)), Append(q, s), a.start)
  BY <1>2, ReachedIsFirst DEF MetricsOf
<1>4. a.newLeader = FirstAt(LeaderHits(a.base, Append(q, s)), Append(q, s), a.start)
  BY <1>2, LedIsFirst DEF MetricsOf
<1>5. a.promotions = a.leaderChanges
  BY <1>2 DEF MetricsOf
<1>6. a.reparents <= a.parentChanges
  <2>. DEFINE r == Cardinality(Rehung(ep.last, s.view))
              m == Cardinality(Moved(ep.last, s.view))
  <2>1. DOMAIN s.view \in SUBSET Node
    BY ViewsAreOfNodes DEF SampleType
  <2>2. Rehung(ep.last, s.view) \in SUBSET Moved(ep.last, s.view)
        /\ Moved(ep.last, s.view) \in SUBSET Node
    BY <2>1 DEF Rehung, Moved, ParentIn
  <2>3. r \in Nat /\ m \in Nat /\ r <= m
    BY <2>2, NodesAreCounted
  <2>4. ep.reparents \in Nat /\ ep.parentChanges \in Nat /\ ep.reparents <= ep.parentChanges
    BY DEF MetricsOf, EpochType
  <2>5. a.reparents = ep.reparents + r /\ a.parentChanges = ep.parentChanges + m
    BY <1>2
  <2>. HIDE DEF r, m
  <2>. QED
    BY <2>3, <2>4, <2>5
<1>. QED
  BY <1>1, <1>3, <1>4, <1>5, <1>6 DEF MetricsOf

(* A sample is applied: what there was before it stays what it was, and it *)
(* brings a change or not.                                                 *)
LEMMA AppliedEpoch ==
  ASSUME Types, Epochs, Running(current), NEW s \in SampleType, NEW status,
         status = Status(Applied(current, s), s),
         current' = [Applied(current, s) EXCEPT !.status = status, !.end = s.at],
         seen' = Append(seen, s)
  PROVE  Epochs'
<1>. DEFINE same == Same(current.last, s.view)
            start == current.start
<1>0. PICK n \in Nat : n = Len(seen)
  BY LenProperties DEF Types, HistoriesTyped
<1>1. /\ current \in EpochType /\ seen \in Seq(SampleType) /\ n \in Nat /\ Len(seen) = n
      /\ current.status = "running" /\ current.base \in Samples
      /\ current.last = Before(n + 1)
      /\ Window \in Nat \ {0} /\ Timeout \in Nat \ {0} /\ MaxTime \in Nat
  BY <1>0, RecoveryAssumption, BoundAssumption
  DEF Types, TypeOK, HistoriesTyped, Epochs, EpochFollowsItsSamples, Running
<1>2. /\ current'.status = status /\ current'.start = start /\ current'.end = s.at
      /\ current'.base = current.base /\ current'.last = s.view
      /\ current'.change = IF same THEN current.change ELSE s.at
      /\ Applied(current, s).change = current'.change /\ Applied(current, s).start = start
  <2>. HIDE DEF same
  <2>. QED
    BY <1>1, AppliedFields DEF same
<1>3. /\ Len(seen') = n + 1 /\ seen'[n + 1] = s
      /\ \A i \in 1 .. n : seen'[i] = seen[i] /\ seen[i] \in SampleType
  BY <1>1, AppendProperties, ElementOfSeq
<1>4. /\ start \in 0 .. MaxTime /\ current.change \in 0 .. MaxTime /\ s.at \in 0 .. MaxTime
      /\ \A i \in 1 .. n : seen[i].at \in 0 .. MaxTime
  BY <1>1, <1>3 DEF EpochType, SampleType
<1>5. 1 .. n + 1 = (1 .. n) \cup {n + 1} /\ n + 1 \notin 1 .. n
  BY <1>1
<1>6. /\ \A i \in 1 .. n + 1 : Before(i)' = Before(i)
      /\ Before(n + 2)' = s.view
  <2>1. ASSUME NEW i \in 1 .. n + 1
        PROVE  Before(i)' = Before(i)
    <3>1. i = 1 \/ i - 1 \in 1 .. n
      BY <1>1
    <3>. QED
      BY <3>1, <1>2, <1>3 DEF Before
  <2>2. Before(n + 2)' = s.view
    BY <1>1, <1>3 DEF Before
  <2>. QED
    BY <2>1, <2>2
<1>7. /\ \A i \in 1 .. n : Still(i)' <=> Still(i)
      /\ Still(n + 1)' <=> same
  <2>1. \A i \in 1 .. n : Still(i)' <=> Still(i)
    BY <1>3, <1>5, <1>6 DEF Still
  <2>2. Before(n + 1)' = current.last
    BY <1>1, <1>6
  <2>3. Still(n + 1)' <=> same
    BY <1>3, <2>2 DEF Still, Same
  <2>. QED
    BY <2>1, <2>3
<1>8. \A k \in 0 .. n : StillSince(k)' = StillSince(k)
  <2>. SUFFICES ASSUME NEW k \in 0 .. n
                PROVE  StillSince(k)' = StillSince(k)
    OBVIOUS
  <2>. DEFINE changes == {i \in 1 .. k : ~ Still(i)}
  <2>1. k \in Nat /\ 1 .. k \subseteq 1 .. n
    BY <1>1
  <2>2. {i \in 1 .. k : ~ Still(i)'} = changes
    BY <1>7, <2>1
  <2>3. changes # {} => Max(changes) \in 1 .. n
    BY <2>1, LargestIsAppended
  <2>4. /\ StillSince(k) = IF changes = {} THEN start ELSE seen[Max(changes)].at
        /\ StillSince(k)' = IF changes = {} THEN start ELSE seen'[Max(changes)].at
    <3>1. StillSince(k)' = LET c == {i \in 1 .. k : ~ Still(i)'}
                           IN  IF c = {} THEN current'.start ELSE seen'[Max(c)].at
      BY DEF StillSince
    <3>. QED
      BY <1>2, <2>2, <3>1 DEF StillSince
  <2>. HIDE DEF changes, start
  <2>. QED
    BY <1>3, <2>3, <2>4
<1>. DEFINE change == current'.change
<1>9. StillSince(n + 1)' = change
  <2>. DEFINE changes == {i \in 1 .. n : ~ Still(i)}
              next    == {i \in 1 .. n + 1 : ~ Still(i)'}
  <2>1. next = IF same THEN changes ELSE changes \cup {n + 1}
    <3>. HIDE DEF same
    <3>. QED
      BY <1>5, <1>7
  <2>2. /\ Max(changes \cup {n + 1}) = n + 1
        /\ changes # {} => Max(changes) \in 1 .. n
    <3>1. changes \in SUBSET (1 .. n)
      OBVIOUS
    <3>. QED
      BY <1>1, <3>1, LargestIsAppended
  <2>3. StillSince(n + 1)' = IF next = {} THEN start ELSE seen'[Max(next)].at
    BY <1>2 DEF StillSince
  <2>4. current.change = IF changes = {} THEN start ELSE seen[Max(changes)].at
    BY <1>1 DEF Epochs, ChangeIsTheLatest, StillSince
  <2>5. change = IF same THEN current.change ELSE s.at
    BY <1>2
  <2>. HIDE DEF changes, next, same, start, change
  <2>6. CASE same
    BY <1>3, <2>1, <2>2, <2>3, <2>4, <2>5, <2>6
  <2>7. CASE ~ same
    BY <1>3, <2>1, <2>2, <2>3, <2>5, <2>7
  <2>. QED
    BY <2>6, <2>7
<1>10. ChangeIsTheLatest'
  BY <1>3, <1>9 DEF ChangeIsTheLatest
<1>11. /\ \A k \in 1 .. n : (Stable(k)' <=> Stable(k)) /\ (TimedOut(k)' <=> TimedOut(k))
       /\ Stable(n + 1)' <=> s.at - change >= Window
       /\ TimedOut(n + 1)' <=> s.at - start >= Timeout
  <2>. HIDE DEF change
  <2>1. 1 .. n \subseteq 0 .. n
    BY <1>1
  <2>. QED
    BY <1>2, <1>3, <1>8, <1>9, <2>1 DEF Stable, TimedOut
<1>12. status = IF s.at - change >= Window THEN "stabilized"
                ELSE IF s.at - start >= Timeout THEN "timeout" ELSE "running"
  <2>. HIDE DEF change, start
  <2>. QED
    BY <1>2 DEF Status, change
<1>13. ASSUME status = "stabilized", s.at - start < Window
       PROVE  \E i \in 1 .. n + 1 : seen'[i].at < start
  <2>. DEFINE next == {i \in 1 .. n + 1 : ~ Still(i)'}
  <2>1. s.at - change >= Window /\ change \in 0 .. MaxTime
    BY <1>2, <1>4, <1>12, <1>13
  <2>2. change = IF next = {} THEN start ELSE seen'[Max(next)].at
    BY <1>2, <1>9 DEF StillSince
  <2>3. next # {} => Max(next) \in 1 .. n + 1
    <3>1. n + 1 \in Nat /\ next \in SUBSET (1 .. n + 1)
      BY <1>1
    <3>. QED
      BY <3>1, LargestIsAppended
  <2>. HIDE DEF next, change, start
  <2>4. change < start
    BY <1>1, <1>4, <1>13, <2>1
  <2>5. CASE next = {}
    <3>1. change = start /\ start \in Int
      BY <1>1, <1>4, <2>2, <2>5
    <3>. QED
      BY <2>4, <3>1
  <2>6. CASE next # {}
    <3>1. Max(next) \in 1 .. n + 1 /\ seen'[Max(next)].at < start
      BY <2>2, <2>3, <2>4, <2>6
    <3>. QED
      BY <3>1
  <2>. QED
    BY <2>5, <2>6
<1>14. StableAsSpecified'
  <2>1. SUFFICES /\ \A k \in 1 .. n + 1 :
                      Stable(k)' \/ TimedOut(k)' =>
                        k = n + 1 /\ status = IF Stable(k)' THEN "stabilized" ELSE "timeout"
                 /\ status \in {"stabilized", "timeout"} =>
                      seen' # <<>> /\ (Stable(n + 1)' \/ TimedOut(n + 1)')
                 /\ status = "stabilized" /\ s.at - start < Window =>
                      \E i \in 1 .. n + 1 : seen'[i].at < start
    BY <1>2, <1>3 DEF StableAsSpecified
  <2>2. \A k \in 1 .. n : ~ Stable(k) /\ ~ TimedOut(k)
    BY <1>1 DEF Epochs, StableAsSpecified
  <2>3. seen' # <<>>
    BY <1>1, <1>3, EmptySeq
  <2>. HIDE DEF change, start
  <2>4. \A k \in 1 .. n + 1 :
          Stable(k)' \/ TimedOut(k)' =>
            k = n + 1 /\ status = IF Stable(k)' THEN "stabilized" ELSE "timeout"
    BY <1>5, <1>11, <1>12, <2>2
  <2>5. status \in {"stabilized", "timeout"} => Stable(n + 1)' \/ TimedOut(n + 1)'
    BY <1>11, <1>12
  <2>. QED
    BY <1>13, <2>3, <2>4, <2>5
<1>15. EpochFollowsItsSamples'
  <2>1. status # "none"
    BY DEF Status
  <2>2. Len(seen') + 1 = n + 2
    BY <1>1, <1>3
  <2>. QED
    BY <1>1, <1>2, <1>6, <2>1, <2>2 DEF EpochFollowsItsSamples
<1>16. MetricsAsSpecified'
  <2>1. MetricsOf(current, seen)
    BY MetricsAre DEF Epochs
  <2>2. current.last = IF n = 0 THEN current.base ELSE seen[n].view
    BY <1>1 DEF Before
  <2>3. MetricsOf(current', seen')
    BY <1>1, <2>1, <2>2, MetricsOfApplied
  <2>. QED
    BY <2>3, MetricsAre
<1>. QED
  BY <1>10, <1>14, <1>15, <1>16 DEF Epochs
-----------------------------------------------------------------------------
LEMMA StepKeepsEpochs ==
  ASSUME Types, Epochs, [Next]_vars
  PROVE  Epochs'
<1>1. ASSUME UNCHANGED <<current, seen>>
      PROVE  Epochs'
  <2>1. /\ MetricsAsSpecified' <=> MetricsAsSpecified
        /\ EpochFollowsItsSamples' <=> EpochFollowsItsSamples
    BY <1>1, MetricsAre DEF EpochFollowsItsSamples, Before
  <2>2. \A k : StillSince(k)' = StillSince(k)
    BY <1>1 DEF StillSince, Still, Before
  <2>3. ChangeIsTheLatest' <=> ChangeIsTheLatest
    BY <1>1, <2>2 DEF ChangeIsTheLatest
  <2>4. StableAsSpecified' <=> StableAsSpecified
    BY <1>1, <2>2 DEF StableAsSpecified, Stable, TimedOut
  <2>. QED
    BY <2>1, <2>3, <2>4 DEF Epochs
<1>2. ASSUME Start
      PROVE  Epochs'
  BY <1>2, FreshEpoch DEF Start
<1>3. ASSUME NEW g \in Run, Abort(g)
      PROVE  Epochs'
  <2>1. CASE Running(current)
    BY <1>3, <2>1, AbortedEpoch DEF Abort
  <2>2. CASE ~ Running(current)
    BY <1>1, <1>3, <2>2 DEF Abort
  <2>. QED
    BY <2>1, <2>2
<1>4. ASSUME NEW g \in Run, Apply(g)
      PROVE  Epochs'
  <2>1. CASE Running(current)
    <3>1. PICK s, status : s = sample[g] /\ status = Status(Applied(current, s), s)
      OBVIOUS
    <3>2. s \in SampleType
      BY <1>4, <3>1 DEF Apply, Types, HistoriesTyped
    <3>3. /\ current' = [Applied(current, s) EXCEPT !.status = status, !.end = s.at]
          /\ seen' = Append(seen, s)
      BY <1>4, <2>1, <3>1 DEF Apply
    <3>. QED
      BY <2>1, <3>1, <3>2, <3>3, AppliedEpoch
  <2>2. CASE ~ Running(current)
    BY <1>1, <1>4, <2>2 DEF Apply
  <2>. QED
    BY <2>1, <2>2
<1>5. ASSUME NEW o \in Opener, Install(o)
      PROVE  Epochs'
  <2>1. sample[o] \in SampleType
    BY <1>5 DEF Install, Types, HistoriesTyped
  <2>2. seen' = <<>> /\ current' = Epoch(sample[o].id, sample[o].at, sample[o].view)
    BY <1>5 DEF Install
  <2>. QED
    BY <2>1, <2>2, FreshEpoch
<1>6. Elapse \/ Stop \/ (\E g \in Run : Tick(g)) \/ (\E o \in Opener : Capture(o)) \/ UNCHANGED vars
        => UNCHANGED <<current, seen>>
  BY DEF Elapse, Stop, Tick, Capture, vars
<1>. QED
  BY <1>1, <1>2, <1>3, <1>4, <1>5, <1>6 DEF Next
-----------------------------------------------------------------------------
(* The list of the epochs.                                                 *)
LEMMA StepKeepsClosed ==
  ASSUME Types, Numbers, CurrentIsClosed, [Next]_vars
  PROVE  CurrentIsClosed'
<1>1. ASSUME UNCHANGED <<current, closings>>
      PROVE  CurrentIsClosed'
  BY <1>1 DEF CurrentIsClosed, Running
<1>2. ASSUME Start
      PROVE  CurrentIsClosed'
  BY <1>2 DEF Start, NoEpoch, Epoch, CurrentIsClosed
<1>3. ASSUME Running(current), closings' = Append(closings, current.id), current'.id = current.id
      PROVE  CurrentIsClosed'
  <2>1. closings \in Seq(1 .. MaxEpochs) /\ current.id \in 1 .. MaxEpochs
    BY <1>3 DEF Types, Numbers, HistoriesTyped, OpenEpochIsAccountedFor
  <2>2. Len(closings') = Len(closings) + 1 /\ closings'[Len(closings) + 1] = current.id
    BY <1>3, <2>1, AppendProperties
  <2>. QED
    BY <1>3, <2>1, <2>2 DEF CurrentIsClosed
<1>4. ASSUME NEW g \in Run, Abort(g)
      PROVE  CurrentIsClosed'
  <2>1. CASE Running(current)
    <3>1. closings' = Append(closings, current.id)
      BY <1>4, <2>1 DEF Abort, Close, Persist
    <3>2. current'.id = current.id
      BY <1>4, <2>1 DEF Abort, Types, TypeOK, EpochType
    <3>. QED
      BY <1>3, <2>1, <3>1, <3>2
  <2>2. CASE ~ Running(current)
    BY <1>1, <1>4, <2>2 DEF Abort, Close
  <2>. QED
    BY <2>1, <2>2
<1>5. ASSUME NEW g \in Run, Apply(g)
      PROVE  CurrentIsClosed'
  <2>1. CASE Running(current)
    <3>1. PICK s, status : s = sample[g] /\ status = Status(Applied(current, s), s)
      OBVIOUS
    <3>2. s \in SampleType /\ current \in EpochType
      BY <1>5, <3>1 DEF Apply, Types, HistoriesTyped, TypeOK
    <3>3. /\ current' = [Applied(current, s) EXCEPT !.status = status, !.end = s.at]
          /\ status # "running" => Persist(current.id)
      BY <1>5, <2>1, <3>1 DEF Apply
    <3>4. current'.id = current.id /\ current'.status = status
      BY <3>2, <3>3, AppliedFields
    <3>5. CASE status = "running"
      BY <3>4, <3>5 DEF CurrentIsClosed, Running
    <3>6. CASE status # "running"
      <4>1. closings' = Append(closings, current.id)
        BY <3>3, <3>6 DEF Persist
      <4>. QED
        BY <1>3, <2>1, <3>4, <4>1
    <3>. QED
      BY <3>5, <3>6
  <2>2. CASE ~ Running(current)
    BY <1>1, <1>5, <2>2 DEF Apply
  <2>. QED
    BY <2>1, <2>2
<1>6. ASSUME NEW o \in Opener, Install(o)
      PROVE  CurrentIsClosed'
  BY <1>6 DEF Install, Epoch, Running, CurrentIsClosed
<1>7. Elapse \/ Stop \/ (\E g \in Run : Tick(g)) \/ (\E o \in Opener : Capture(o)) \/ UNCHANGED vars
        => UNCHANGED <<current, closings>>
  BY DEF Elapse, Stop, Tick, Capture, vars
<1>. QED
  BY <1>1, <1>2, <1>4, <1>5, <1>6, <1>7 DEF Next

(* RecoveryEpochs' loop over the first m entries, from the newest.         *)
ListingOn(m, f, first, h, limit) ==
  f = [i \in 0 .. m |-> IF i = 0 THEN first ELSE Taken(f[i - 1], h[Len(h) + 1 - i], limit)]

LEMMA ListingExists ==
  ASSUME NEW m \in Nat, NEW first, NEW h, NEW limit
  PROVE  \E f : ListingOn(m, f, first, h, limit)
<1>. DEFINE Bad == {n \in Nat : ~ \E f : ListingOn(n, f, first, h, limit)}
<1>1. SUFFICES ASSUME Bad # {} PROVE FALSE
  OBVIOUS
<1>2. PICK n \in Bad : \A k \in Bad : n <= k
  BY <1>1, LeastNumber
<1>3. n # 0
  <2>1. ListingOn(0, [k \in 0 .. 0 |-> first], first, h, limit)
    BY DEF ListingOn
  <2>. QED BY <2>1
<1>4. PICK f : ListingOn(n - 1, f, first, h, limit)
  <2>1. n - 1 \in Nat /\ n - 1 \notin Bad
    BY <1>2, <1>3
  <2>. QED BY <2>1
<1>5. PICK last : last = Taken(f[n - 1], h[Len(h) + 1 - n], limit)
  OBVIOUS
<1>. DEFINE g == [k \in 0 .. n |-> IF k < n THEN f[k] ELSE last]
<1>6. ASSUME NEW k \in 0 .. n
      PROVE  g[k] = IF k = 0 THEN first ELSE Taken(g[k - 1], h[Len(h) + 1 - k], limit)
  <2>1. k # 0 => g[k - 1] = f[k - 1]
    BY <1>2
  <2>2. CASE k = n
    BY <1>2, <1>3, <1>5, <2>1, <2>2
  <2>3. CASE k < n
    <3>1. k \in 0 .. n - 1
      BY <1>2, <2>3
    <3>2. f[k] = IF k = 0 THEN first ELSE Taken(f[k - 1], h[Len(h) + 1 - k], limit)
      BY <1>4, <3>1 DEF ListingOn
    <3>. QED
      BY <2>1, <2>3, <3>2
  <2>. QED
    BY <1>2, <2>2, <2>3
<1>7. ListingOn(n, g, first, h, limit)
  <2>1. g = [k \in 0 .. n |-> g[k]]
    OBVIOUS
  <2>. HIDE DEF g
  <2>. QED
    BY <1>6, <2>1 DEF ListingOn
<1>. QED
  BY <1>7

(* List q is the first k entries of list s.                                *)
Begins(q, s, k) ==
  q \in Seq(1 .. MaxEpochs) /\ Len(q) = k /\ \A j \in 1 .. k : q[j] = s[j]

(* How far the list is after i entries of the history, when an epoch that  *)
(* runs heads it (b = 1) or not, and first has the c entries it starts     *)
(* with.                                                                   *)
Reach(b, c, i, limit) ==
  LET k == IF c >= b + i THEN c ELSE b + i IN IF k <= limit THEN k ELSE limit

LEMMA ReachGrows ==
  ASSUME NEW b \in {0, 1}, NEW c \in {b, 1}, NEW i \in Nat \ {0}, NEW limit \in Nat \ {0},
         Reach(b, c, i - 1, limit) < limit,
         ~(Reach(b, c, i - 1, limit) # 0 /\ b + i = 1)
  PROVE  /\ Reach(b, c, i - 1, limit) + 1 = b + i
         /\ Reach(b, c, i, limit) = b + i
<1>1. CASE b = 0 /\ c = 0
  BY <1>1 DEF Reach
<1>2. CASE b = 0 /\ c = 1
  BY <1>2 DEF Reach
<1>3. CASE b = 1 /\ c = 1
  BY <1>3 DEF Reach
<1>. QED
  BY <1>1, <1>2, <1>3

LEMMA ListingFollows ==
  ASSUME NEW s \in Seq(1 .. MaxEpochs), NEW h, NEW n \in Nat, Len(h) = n,
         NEW b \in {0, 1}, NEW c \in {b, 1}, NEW limit \in Nat \ {0},
         Len(s) >= n + b, n + b >= c,
         \A i \in 1 .. n : h[n + 1 - i] = s[b + i],
         \A i, j \in 1 .. Len(s) : s[i] = s[j] => i = j,
         NEW first, Begins(first, s, c),
         NEW f, ListingOn(n, f, first, h, limit)
  PROVE  Begins(f[n], s, Reach(b, c, n, limit))
<1>1. Len(s) \in Nat /\ \A i \in 1 .. Len(s) : s[i] \in 1 .. MaxEpochs
  <2>1. Len(s) \in Nat
    BY LenProperties, Zenon
  <2>2. \A i \in 1 .. Len(s) : s[i] \in 1 .. MaxEpochs
    BY ElementOfSeq, Zenon
  <2>. QED
    BY <2>1, <2>2
<1>2. ASSUME NEW i \in 1 .. n, Begins(f[i - 1], s, Reach(b, c, i - 1, limit))
      PROVE  Begins(f[i], s, Reach(b, c, i, limit))
  <2>1. PICK q, k : q = f[i - 1] /\ k = Reach(b, c, i - 1, limit)
    OBVIOUS
  <2>2. f[i] = Taken(q, s[b + i], limit)
    BY <1>2, <2>1 DEF ListingOn
  <2>3. q \in Seq(1 .. MaxEpochs) /\ Len(q) = k /\ \A j \in 1 .. k : q[j] = s[j]
    BY <1>2, <2>1 DEF Begins
  <2>4. k \in Nat /\ k <= limit /\ b + i \in 1 .. Len(s)
    BY <1>1, <2>1 DEF Reach
  <2>5. q # <<>> <=> k # 0
    BY <2>3, EmptySeq
  <2>6. q # <<>> => Head(q) = s[1]
    <3>1. q # <<>> => Head(q) = q[1] /\ 1 \in 1 .. k
      BY <2>3, <2>4, <2>5
    <3>. QED BY <2>3, <3>1
  <2>7. CASE k = limit
    <3>1. Reach(b, c, i, limit) = k
      BY <2>1, <2>7 DEF Reach
    <3>2. f[i] = q
      BY <2>2, <2>3, <2>4, <2>7 DEF Taken
    <3>. QED
      BY <1>2, <2>1, <3>1, <3>2
  <2>8. CASE k < limit /\ k # 0 /\ b + i = 1
    <3>1. Reach(b, c, i, limit) = k
      BY <2>1, <2>8 DEF Reach
    <3>2. f[i] = q
      BY <2>2, <2>5, <2>6, <2>8 DEF Taken
    <3>. QED
      BY <1>2, <2>1, <3>1, <3>2
  <2>9. CASE k < limit /\ ~(k # 0 /\ b + i = 1)
    <3>1. k + 1 = b + i /\ Reach(b, c, i, limit) = k + 1
      BY <2>1, <2>9, ReachGrows
    <3>2. ~(q # <<>> /\ Head(q) = s[b + i])
      BY <1>1, <2>4, <2>5, <2>6, <2>9
    <3>3. f[i] = Append(q, s[k + 1])
      <4>1. ~(Len(q) >= limit)
        BY <2>3, <2>4, <2>9
      <4>. QED
        BY <2>2, <3>1, <3>2, <4>1 DEF Taken
    <3>4. s[k + 1] \in 1 .. MaxEpochs
      BY <1>1, <2>4, <3>1
    <3>5. PICK t : t = Append(q, s[k + 1])
      OBVIOUS
    <3>6. /\ t \in Seq(1 .. MaxEpochs) /\ Len(t) = k + 1
          /\ \A j \in 1 .. k + 1 : t[j] = IF j <= k THEN q[j] ELSE s[k + 1]
      <4>1. PICK e \in 1 .. MaxEpochs : e = s[k + 1]
        BY <3>4
      <4>2. t = Append(q, e)
        BY <3>5, <4>1
      <4>3. /\ t \in Seq(1 .. MaxEpochs) /\ Len(t) = Len(q) + 1
            /\ \A j \in 1 .. Len(q) + 1 : t[j] = IF j <= Len(q) THEN q[j] ELSE e
        BY <2>3, <4>2, AppendProperties
      <4>. QED
        BY <2>3, <2>4, <4>1, <4>3
    <3>7. \A j \in 1 .. k + 1 : t[j] = s[j]
      BY <2>3, <2>4, <3>6
    <3>. QED
      BY <3>1, <3>3, <3>5, <3>6, <3>7 DEF Begins
  <2>. QED
    BY <2>4, <2>7, <2>8, <2>9
<1>3. Begins(f[0], s, Reach(b, c, 0, limit))
  <2>1. f[0] = first
    BY DEF ListingOn
  <2>2. Reach(b, c, 0, limit) = c
    BY DEF Reach
  <2>. QED
    BY <2>1, <2>2
<1>. DEFINE Bad == {i \in 0 .. n : ~ Begins(f[i], s, Reach(b, c, i, limit))}
<1>4. ASSUME Bad # {}
      PROVE  FALSE
  <2>1. PICK i \in Bad : \A j \in Bad : i <= j
    <3>1. Bad \in SUBSET Nat
      OBVIOUS
    <3>. HIDE DEF Bad
    <3>. QED BY <1>4, <3>1, LeastNumber
  <2>2. i # 0
    BY <1>3
  <2>3. i \in 1 .. n /\ i - 1 \in 0 .. n /\ i - 1 \notin Bad
    BY <2>1, <2>2
  <2>4. Begins(f[i - 1], s, Reach(b, c, i - 1, limit))
    BY <2>3
  <2>. QED
    BY <1>2, <2>3, <2>4
<1>. QED
  BY <1>4
-----------------------------------------------------------------------------
LEMMA InitEstablishesIInv == Init => IInv
<1>. SUFFICES ASSUME Init
              PROVE  IInv
  OBVIOUS
<1>1. MaxTime \in Nat /\ MaxEpochs \in Nat /\ MaxRuns \in Nat /\ MaxHistory \in Nat \ {0}
  BY BoundAssumption, RecoveryAssumption
<1>2. /\ seen = <<>> /\ Len(seen) = 0 /\ 1 .. Len(seen) = {} /\ seen \in Seq(SampleType)
      /\ history = <<>> /\ Len(history) = 0 /\ history \in Seq(1 .. MaxEpochs)
      /\ closings = <<>> /\ Len(closings) = 0 /\ closings \in Seq(1 .. MaxEpochs)
      /\ DOMAIN closings = {} /\ current = NoEpoch
  BY EmptySeq, LenProperties DEF Init
<1>3. ~ Running(current) /\ current.status = "none"
  BY <1>2 DEF NoEpoch, Epoch, Running
<1>4. sample \in [Opener \cup Run -> SampleType \cup {NoSample}]
      /\ \A s \in Opener \cup Run : sample[s] = NoSample
  BY DEF Init
<1>5. TypeOK
  BY <1>1, <1>2, <1>4, NoEpochOfType DEF Init, TypeOK
<1>6. HistoriesTyped
  BY <1>2, <1>4 DEF Init, HistoriesTyped
<1>7. NumbersAreDrawnOnce /\ OpenEpochIsAccountedFor
  BY <1>3, <1>4 DEF Init, NumbersAreDrawnOnce, OpenEpochIsAccountedFor
<1>8. EpochsCloseOnce
  BY <1>2, <1>3 DEF Init, EpochsCloseOnce, IsInjective, ToSet
<1>9. EpochFollowsItsSamples
  BY <1>2, <1>3 DEF EpochFollowsItsSamples
<1>10. ChangeIsTheLatest /\ StableAsSpecified
  <2>1. StillSince(0) = current.start
    BY DEF StillSince
  <2>2. current.change = current.start
    BY <1>2 DEF NoEpoch, Epoch
  <2>. QED
    BY <1>2, <1>3, <2>1, <2>2 DEF ChangeIsTheLatest, StableAsSpecified
<1>11. MetricsAsSpecified
  <2>1. \A base, pct : ShareHits(base, pct, seen) = {} /\ LeaderHits(base, seen) = {}
    BY <1>2 DEF ShareHits, LeaderHits
  <2>2. MetricsOf(current, seen)
    BY <1>2, <2>1 DEF MetricsOf, FirstAt, NoEpoch, Epoch
  <2>. QED
    BY <2>2, MetricsAre
<1>12. HistoryIsTheLatest
  BY <1>1, <1>2 DEF HistoryIsTheLatest
<1>13. CurrentIsClosed
  BY <1>2 DEF CurrentIsClosed, NoEpoch, Epoch
<1>. QED
  BY <1>5, <1>6, <1>7, <1>8, <1>9, <1>10, <1>11, <1>12, <1>13 DEF IInv

LEMMA IInvInParts == IInv <=> Types /\ Numbers /\ Epochs /\ CurrentIsClosed
BY DEF IInv, Types, Numbers, Epochs

LEMMA StepKeepsIInv == IInv /\ [Next]_vars => IInv'
<1>. SUFFICES ASSUME IInv, [Next]_vars
              PROVE  IInv'
  OBVIOUS
<1>1. Types /\ Numbers /\ Epochs /\ CurrentIsClosed
  BY IInvInParts
<1>2. Types'
  BY <1>1, StepKeepsTypes DEF Numbers
<1>3. Numbers'
  BY <1>1, StepKeepsNumbers
<1>4. Epochs'
  BY <1>1, StepKeepsEpochs
<1>5. CurrentIsClosed'
  BY <1>1, StepKeepsClosed
<1>. QED
  BY <1>2, <1>3, <1>4, <1>5 DEF IInv, Types, Numbers, Epochs

(* The least of three positive numbers.                                    *)
LEMMA LeastOfThree ==
  ASSUME NEW a \in Nat, NEW b \in Nat, NEW c \in Nat
  PROVE  /\ Min({a, b, c}) \in {a, b, c} /\ Min({a, b, c}) <= a
         /\ Min({a, b, c}) <= b /\ Min({a, b, c}) <= c
BY LeastOfNumbers

(* What the epochs finalized and the one that runs are, the newest first.  *)
LEMMA LatestFirst ==
  ASSUME Types, Numbers
  PROVE  LET b == IF Running(current) THEN 1 ELSE 0
             s == Reverse(closings \o (IF Running(current) THEN <<current.id>> ELSE <<>>))
         IN  /\ s \in Seq(1 .. MaxEpochs) /\ Len(s) = Len(closings) + b
             /\ b = 1 => s[1] = current.id
             /\ \A i \in 1 .. Len(closings) : s[b + i] = closings[Len(closings) + 1 - i]
             /\ \A i, j \in 1 .. Len(s) : s[i] = s[j] => i = j
<1>1. closings \in Seq(1 .. MaxEpochs) /\ Len(closings) \in Nat
  BY LenProperties DEF Types, HistoriesTyped
<1>2. PICK end : end = IF Running(current) THEN <<current.id>> ELSE <<>>
  OBVIOUS
<1>3. PICK b : b = IF Running(current) THEN 1 ELSE 0
  OBVIOUS
<1>4. /\ end \in Seq(1 .. MaxEpochs) /\ Len(end) = b /\ b \in {0, 1}
      /\ b = 1 => end[1] = current.id
  <2>1. Running(current) => current.id \in 1 .. MaxEpochs
    BY DEF Types, Numbers, HistoriesTyped, OpenEpochIsAccountedFor
  <2>2. CASE Running(current)
    <3>1. PICK e \in 1 .. MaxEpochs : e = current.id
      BY <2>1, <2>2
    <3>2. <<e>> \in Seq(1 .. MaxEpochs) /\ Len(<<e>>) = 1 /\ <<e>>[1] = e
      OBVIOUS
    <3>3. end = <<e>> /\ b = 1
      BY <1>2, <1>3, <2>2, <3>1
    <3>. QED
      BY <3>1, <3>2, <3>3
  <2>3. CASE ~ Running(current)
    <3>1. end = <<>> /\ b = 0
      BY <1>2, <1>3, <2>3
    <3>. QED
      BY <3>1, EmptySeq
  <2>. QED
    BY <2>2, <2>3
<1>5. PICK w, l : w = closings \o end /\ l = Len(closings)
  OBVIOUS
<1>6. /\ w \in Seq(1 .. MaxEpochs) /\ Len(w) = l + b
      /\ \A i \in 1 .. l + b : w[i] = IF i <= l THEN closings[i] ELSE end[i - l]
  BY <1>1, <1>4, <1>5, ConcatProperties
<1>7. \A i \in 1 .. l : w[i] = closings[i]
  BY <1>1, <1>4, <1>5, <1>6
<1>8. b = 1 => w[l + 1] = current.id
  BY <1>1, <1>4, <1>5, <1>6
<1>9. \A i, j \in 1 .. l + b : w[i] = w[j] => i = j
  <2>1. DOMAIN closings = 1 .. l
    BY <1>1, <1>5, LenProperties
  <2>2. \A i, j \in 1 .. l : closings[i] = closings[j] => i = j
    BY <2>1 DEF Numbers, EpochsCloseOnce, IsInjective
  <2>3. b = 1 => \A i \in 1 .. l : closings[i] # current.id
    <3>. SUFFICES ASSUME b = 1, NEW i \in 1 .. l
                  PROVE  closings[i] # current.id
      OBVIOUS
    <3>1. Running(current)
      BY <1>3
    <3>2. current.id \notin ToSet(closings)
      BY <3>1 DEF Numbers, EpochsCloseOnce
    <3>3. closings[i] \in ToSet(closings)
      BY <1>1, <1>5 DEF ToSet
    <3>. QED
      BY <3>2, <3>3
  <2>4. CASE b = 0
    BY <1>1, <1>5, <1>7, <2>2, <2>4
  <2>5. CASE b = 1
    <3>1. 1 .. l + b = (1 .. l) \cup {l + 1}
      BY <1>1, <1>5, <2>5
    <3>. QED
      BY <1>7, <1>8, <2>2, <2>3, <2>5, <3>1
  <2>. QED
    BY <1>4, <2>4, <2>5
<1>10. PICK s : s = Reverse(w)
  OBVIOUS
<1>11. l \in Nat /\ b \in {0, 1}
  BY <1>1, <1>4, <1>5
<1>12. \A i \in 1 .. l + b : l + b - i + 1 \in 1 .. l + b
  BY <1>11
<1>13. \A i \in 1 .. l + b : w[i] \in 1 .. MaxEpochs
  BY <1>6, ElementOfSeq
<1>14. /\ s \in Seq(1 .. MaxEpochs) /\ Len(s) = l + b
       /\ \A i \in 1 .. l + b : s[i] = w[l + b - i + 1]
  <2>1. PICK k \in Nat : k = l + b
    BY <1>11
  <2>2. s = [i \in 1 .. k |-> w[(k - i) + 1]]
    BY <1>6, <1>10, <2>1 DEF Reverse
  <2>3. \A i \in 1 .. k : w[(k - i) + 1] \in 1 .. MaxEpochs
    BY <1>12, <1>13, <2>1
  <2>4. s \in [1 .. k -> 1 .. MaxEpochs] /\ \A i \in 1 .. k : s[i] = w[(k - i) + 1]
    BY <2>2, <2>3
  <2>5. s \in Seq(1 .. MaxEpochs) /\ Len(s) = k
    <3>1. s \in Seq(1 .. MaxEpochs)
      BY <2>1, <2>4, SeqDef
    <3>2. Len(s) \in Nat /\ DOMAIN s = 1 .. Len(s) /\ DOMAIN s = 1 .. k
      BY <2>4, <3>1, LenProperties
    <3>3. Len(s) = k
      BY <2>1, <3>2
    <3>. QED
      BY <3>1, <3>3
  <2>6. \A i \in 1 .. l + b : i \in 1 .. k /\ (k - i) + 1 = l + b - i + 1
    BY <1>11, <2>1
  <2>. QED
    BY <2>1, <2>4, <2>5, <2>6
<1>15. \A i \in 1 .. l + b : s[i] = w[l + b - i + 1]
  BY <1>14
<1>16. b = 1 => s[1] = current.id
  <2>1. b = 1 => 1 \in 1 .. l + b /\ l + b - 1 + 1 = l + 1
    BY <1>11
  <2>. QED
    BY <1>8, <1>15, <2>1
<1>17. \A i \in 1 .. l : s[b + i] = closings[l + 1 - i]
  <2>. TAKE i \in 1 .. l
  <2>1. b + i \in 1 .. l + b /\ l + b - (b + i) + 1 = l + 1 - i /\ l + 1 - i \in 1 .. l
    BY <1>11
  <2>. QED
    BY <1>7, <1>15, <2>1
<1>18. \A i, j \in 1 .. l + b : s[i] = s[j] => i = j
  <2>. TAKE i, j \in 1 .. l + b
  <2>1. s[i] = s[j] => l + b - i + 1 = l + b - j + 1
    BY <1>9, <1>12, <1>15
  <2>. QED
    BY <1>1, <1>4, <1>5, <2>1
<1>19. s = Reverse(closings \o (IF Running(current) THEN <<current.id>> ELSE <<>>))
  BY <1>2, <1>5, <1>10
<1>20. /\ s \in Seq(1 .. MaxEpochs) /\ Len(s) = Len(closings) + b
       /\ b = 1 => s[1] = current.id
       /\ \A i \in 1 .. Len(closings) : s[b + i] = closings[Len(closings) + 1 - i]
       /\ \A i, j \in 1 .. Len(s) : s[i] = s[j] => i = j
  BY <1>5, <1>14, <1>16, <1>17, <1>18
<1>. QED
  BY <1>3, <1>19, <1>20

LEMMA ListingIsTheLatest == IInv => ListsTheLatest
<1>. SUFFICES ASSUME IInv
              PROVE  ListsTheLatest
  OBVIOUS
<1>1. Types /\ Numbers /\ CurrentIsClosed /\ HistoryIsTheLatest
  BY IInvInParts DEF Types
<1>2. PICK b : b = IF Running(current) THEN 1 ELSE 0
  OBVIOUS
<1>3. PICK s : s = Reverse(closings \o (IF Running(current) THEN <<current.id>> ELSE <<>>))
  OBVIOUS
<1>4. PICK l : l = Len(closings)
  OBVIOUS
<1>5. /\ s \in Seq(1 .. MaxEpochs) /\ Len(s) = l + b
      /\ b = 1 => s[1] = current.id
      /\ \A i \in 1 .. l : s[b + i] = closings[l + 1 - i]
      /\ \A i, j \in 1 .. Len(s) : s[i] = s[j] => i = j
  BY <1>1, <1>2, <1>3, <1>4, LatestFirst
<1>6. PICK n : n = Len(history)
  OBVIOUS
<1>7. /\ l \in Nat /\ n \in Nat /\ b \in {0, 1} /\ MaxHistory \in Nat \ {0}
      /\ n = IF l <= MaxHistory THEN l ELSE MaxHistory
  <2>1. l \in Nat /\ n \in Nat
    BY <1>1, <1>4, <1>6, LenProperties DEF Types, HistoriesTyped, TypeOK
  <2>. QED
    BY <1>1, <1>2, <1>4, <1>6, <2>1, RecoveryAssumption DEF HistoryIsTheLatest
<1>8. \A i \in 1 .. n : history[n + 1 - i] = s[b + i]
  <2>. TAKE i \in 1 .. n
  <2>1. n + 1 - i \in 1 .. n /\ i \in 1 .. l /\ l - n + (n + 1 - i) = l + 1 - i
    BY <1>7
  <2>2. history[n + 1 - i] = closings[l - n + (n + 1 - i)]
    BY <1>1, <1>4, <1>6, <2>1 DEF HistoryIsTheLatest
  <2>. QED
    BY <1>5, <2>1, <2>2
<1>9. PICK c : c = IF current.id = 0 THEN 0 ELSE 1
  OBVIOUS
<1>10. PICK first : first = IF current.id = 0 THEN <<>> ELSE <<current.id>>
  OBVIOUS
<1>11. /\ b = 1 => c = 1
       /\ b = 0 /\ c = 1 => l > 0 /\ s[1] = current.id
  <2>1. b = 1 => current.id \in 1 .. MaxEpochs
    BY <1>1, <1>2 DEF Types, Numbers, HistoriesTyped, OpenEpochIsAccountedFor
  <2>2. b = 0 /\ c = 1 => l > 0 /\ closings[l] = current.id
    BY <1>1, <1>2, <1>4, <1>9 DEF CurrentIsClosed
  <2>3. b = 0 /\ l > 0 => b + 1 = 1 /\ 1 \in 1 .. l /\ l + 1 - 1 = l
    BY <1>7
  <2>4. b = 0 /\ l > 0 => s[1] = closings[l]
    BY <1>5, <2>3
  <2>. QED
    BY <1>9, <2>1, <2>2, <2>4
<1>12. c \in {b, 1} /\ n + b >= c
  BY <1>7, <1>9, <1>11
<1>13. Begins(first, s, c)
  <2>1. CASE current.id = 0
    BY <1>9, <1>10, <2>1, EmptySeq DEF Begins
  <2>2. CASE current.id # 0
    <3>1. s[1] = current.id /\ s[1] \in 1 .. MaxEpochs /\ c = 1
      <4>1. c = 1 /\ s[1] = current.id /\ l + b >= 1
        BY <1>5, <1>7, <1>9, <1>11, <2>2
      <4>2. 1 \in 1 .. Len(s)
        BY <1>5, <1>7, <4>1
      <4>. QED
        BY <1>5, <4>1, <4>2, ElementOfSeq
    <3>2. PICK e \in 1 .. MaxEpochs : e = current.id
      BY <3>1
    <3>3. <<e>> \in Seq(1 .. MaxEpochs) /\ Len(<<e>>) = 1 /\ <<e>>[1] = e
      OBVIOUS
    <3>. QED
      BY <1>10, <2>2, <3>1, <3>2, <3>3 DEF Begins
  <2>. QED
    BY <2>1, <2>2
<1>14. ASSUME NEW limit \in 1 .. MaxHistory + 2
       PROVE  Listed(limit) = SubSeq(s, 1, Min({limit, MaxHistory + b, Len(s)}))
  <2>1. limit \in Nat \ {0}
    BY <1>7
  <2>2. \E f : ListingOn(n, f, first, history, limit) /\ Listed(limit) = f[n]
    <3>1. \E f : ListingOn(n, f, first, history, limit)
      BY <1>7, ListingExists
    <3>. QED
      BY <1>6, <1>10, <3>1 DEF Listed, ListingOn
  <2>3. PICK f : ListingOn(n, f, first, history, limit) /\ Listed(limit) = f[n]
    BY <2>2
  <2>4. PICK k : k = Reach(b, c, n, limit)
    OBVIOUS
  <2>5. Begins(f[n], s, k)
    <3>1. PICK h : h = history
      OBVIOUS
    <3>2. /\ Len(h) = n /\ ListingOn(n, f, first, h, limit)
          /\ \A i \in 1 .. n : h[n + 1 - i] = s[b + i]
      BY <1>6, <1>8, <2>3, <3>1
    <3>3. Len(s) >= n + b
      BY <1>5, <1>7
    <3>. QED
      BY <1>5, <1>7, <1>12, <1>13, <2>1, <2>4, <3>2, <3>3, ListingFollows,
         ZenonT(30)
  <2>6. k \in Nat /\ k <= n + b /\ k <= l + b /\ k = Min({limit, MaxHistory + b, Len(s)})
    <3>1. k = IF n + b <= limit THEN n + b ELSE limit
      BY <1>7, <1>12, <2>1, <2>4 DEF Reach
    <3>2. PICK m : m = Min({limit, MaxHistory + b, l + b})
      OBVIOUS
    <3>3. m \in {limit, MaxHistory + b, l + b} /\ m <= limit /\ m <= MaxHistory + b /\ m <= l + b
      BY <1>7, <2>1, <3>2, LeastOfThree
    <3>4. m = k
      BY <1>7, <2>1, <3>1, <3>3
    <3>. QED
      BY <1>5, <1>7, <2>1, <3>1, <3>2, <3>4
  <2>7. PICK t : t = SubSeq(s, 1, k)
    OBVIOUS
  <2>8. t \in Seq(1 .. MaxEpochs) /\ Len(t) = k /\ \A j \in 1 .. k : t[j] = s[j]
    <3>1. \A j \in 1 .. k : s[j] \in 1 .. MaxEpochs
      <4>1. \A j \in 1 .. Len(s) : s[j] \in 1 .. MaxEpochs
        BY <1>5, ElementOfSeq
      <4>. QED
        BY <1>5, <1>7, <2>6, <4>1
    <3>2. PICK one \in Int : one = 1
      OBVIOUS
    <3>3. k \in Int /\ one .. k = 1 .. k /\ k - one + 1 = k /\ (one <= k \/ k = 0)
      BY <2>6, <3>2
    <3>4. /\ t \in Seq(1 .. MaxEpochs)
          /\ Len(t) = IF one <= k THEN k - one + 1 ELSE 0
          /\ \A j \in 1 .. k - one + 1 : t[j] = s[one + j - 1]
      BY <2>7, <3>1, <3>2, <3>3, SubSeqProperties
    <3>5. Len(t) = k
      BY <2>6, <3>2, <3>3, <3>4
    <3>6. \A j \in 1 .. k : j \in 1 .. k - one + 1 /\ one + j - 1 = j
      BY <2>6, <3>2
    <3>. QED
      BY <3>4, <3>5, <3>6
  <2>9. f[n] = t
    BY <2>5, <2>8, SeqEqual DEF Begins
  <2>. QED
    BY <2>3, <2>6, <2>7, <2>9
<1>15. ListsTheLatest
  <2>1. MaxHistory + b = MaxHistory + (IF Running(current) THEN 1 ELSE 0)
    BY <1>2
  <2>. QED
    BY <1>3, <1>14, <2>1 DEF ListsTheLatest
<1>. QED
  BY <1>15

LEMMA IInvIsInvariant == Spec => []IInv
BY InitEstablishesIInv, StepKeepsIInv, PTL DEF Spec

(* The variables have their types: epochs, samples and times are what      *)
(* recovery.go takes them for, and the history is never too long.          *)
THEOREM RecoveryTypes == Spec => []TypeOK
<1>1. IInv => TypeOK
  BY DEF IInv
<1>. QED
  BY <1>1, IInvIsInvariant, PTL

(* Every epoch that startRecoveryEpoch opens is finalized once, or is the  *)
(* one that runs, or a Start has taken it away: behind the abort of its    *)
(* run, before another Stop's, or with a run that it overwrites.  However  *)
(* kills, loops, Starts and Stops interleave.                              *)
THEOREM EpochsAreFinalizedOnce == Spec => []EpochsCloseOnce
<1>1. IInv => EpochsCloseOnce
  BY DEF IInv
<1>. QED
  BY <1>1, IInvIsInvariant, PTL

(* The history that RecoveryEpochs reads is what finalizeRecoveryLocked    *)
(* was called with last, in the order of the calls, as far as it goes.     *)
THEOREM HistoryKeepsTheLatest == Spec => []HistoryIsTheLatest
<1>1. IInv => HistoryIsTheLatest
  BY DEF IInv
<1>. QED
  BY <1>1, IInvIsInvariant, PTL

(* An epoch ends by the first sample at which no role and no parent has    *)
(* changed for the window, or at which it has reached the timeout, and by  *)
(* no other, whatever the order of its samples; before a window has passed *)
(* only if a sample was older than the epoch.                              *)
THEOREM WindowsAreStill == Spec => []StableAsSpecified
<1>1. IInv => StableAsSpecified
  BY DEF IInv
<1>. QED
  BY <1>1, IInvIsInvariant, PTL

(* The times of an epoch are those of the first samples that reach the     *)
(* thresholds and have a new leader, and what it counts agrees.            *)
THEOREM MetricsAreTheSamples == Spec => []MetricsAsSpecified
<1>1. IInv => MetricsAsSpecified
  BY DEF IInv
<1>. QED
  BY <1>1, IInvIsInvariant, PTL

(* RecoveryEpochs lists the epoch that runs and the latest that were       *)
(* finalized, the newest first and none twice, for every limit and length  *)
(* of the history.                                                         *)
THEOREM EpochsAreListed == Spec => []ListsTheLatest
<1>1. IInv => ListsTheLatest
  BY ListingIsTheLatest
<1>. QED
  BY <1>1, IInvIsInvariant, PTL
=============================================================================

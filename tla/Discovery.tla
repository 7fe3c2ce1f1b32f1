------------------------------- MODULE Discovery -------------------------------
(***************************************************************************)
(* Discovery (dashboard/manager.go) over the UDP fabric                    *)
(* (connsim/fabric.go), in the mode in which the nodes probe at random.    *)
(*                                                                         *)
(* Each tick of udpLoop lists the unconnected nodes, takes the time, drops *)
(* the back-off records of nodes that are not on the list, and probes for  *)
(* each node that is due.  While nodes are spawned, the goroutine that     *)
(* registers one probes for it as well, without asking whether it is due.  *)
(* discMu covers single accesses to the records, not these sequences.  A   *)
(* node that is probed offers itself if its token bucket has a token.      *)
(* Datagrams may be lost and are delayed, so they come in any order.       *)
(*                                                                         *)
(* Time passes in units; a record keeps how long there is still to wait    *)
(* and a bucket how long ago it was touched.  A token is Token grains, and *)
(* Rate grains trickle in per unit.  A datagram sent twice is one.  The    *)
(* join that follows an OFFER is in Join, kills are in Mutation.           *)
(***************************************************************************)
EXTENDS Integers, FiniteSets

CONSTANTS
  Node,       \* node ids
  NoNode,     \* Go's zero node id
  Settled,    \* nodes that were connected before, and stay so
  Fanout,     \* cfg.RandomDiscoverFanout
  Base,       \* cfg.RandomDiscoverBackoffBaseMS
  MaxBackoff, \* cfg.RandomDiscoverBackoffMaxMS
  Jitter,     \* cfg.RandomDiscoverBackoffJitterMS
  MaxAttempt, \* 16 in the code
  Token,      \* grains of one offer
  Burst,      \* cfg.OfferBurst, in grains
  Rate,       \* cfg.OfferRateLimitPerSec, in grains per unit of time
  LongIdle,   \* a bucket idle for so long is full
  Watched,    \* a node, any one, whose offers are watched
  MaxLag,     \* bound on the time a tick takes, for TLC
  MaxWindow   \* bound on the time they are watched for, for TLC

ASSUME NodeAssumption ==
  NoNode \notin Node /\ Settled \subseteq Node /\ Watched \in Node /\ IsFiniteSet(Node)
\* validateStartConfig.
ASSUME BackoffAssumption ==
  /\ Base \in Nat \ {0} /\ MaxBackoff \in Nat /\ MaxBackoff >= Base /\ Jitter \in Nat
  /\ MaxAttempt \in Nat \ {0} /\ Fanout \in Nat \ {0}
ASSUME BucketAssumption ==
  /\ Token \in Nat \ {0} /\ Burst \in Nat /\ Burst >= Token /\ Rate \in Nat \ {0}
  /\ LongIdle \in Nat /\ Rate * LongIdle >= Burst
ASSUME BoundAssumption == MaxLag \in Nat /\ MaxWindow \in Nat

VARIABLES
  registered, \* Fabric.eps
  connected,  \* nodes for which nodeNeedsDiscovery is false
  record,     \* m.discState, per node: its Attempt (0 for no record) and NextAt
  tick,       \* udpLoop: its place, its list, the time since its now, and a node
  spawner,    \* per node the place of the goroutine that registers it
  bucket,     \* m.offerTB, per node
  flights,    \* datagrams that are scheduled
  since,      \* history: time since a node's last burst
  excused,    \* history: nodes whose bursts may be close together, and why not
  window      \* history: how long Watched has been watched, and its offers since

vars == <<registered, connected, record, tick, spawner, bucket, flights, since, excused, window>>

NoRecord == [attempt |-> 0, next |-> 0]
NoTick   == [pc |-> "idle", ids |-> {}, age |-> 0, node |-> NoNode]

Smaller(a, b) == IF a < b THEN a ELSE b
Larger(a, b)  == IF a < b THEN b ELSE a

LongSince == Base + MaxLag

Init ==
  /\ registered = Settled /\ connected = Settled
  /\ record = [n \in Node |-> NoRecord]
  /\ tick = NoTick
  /\ spawner = [n \in Node |-> IF n \in Settled THEN "done" ELSE "unborn"]
  /\ bucket = [n \in Node |-> [tokens |-> Burst, idle |-> LongIdle]]
  /\ flights = {}
  /\ since = [n \in Node |-> LongSince] /\ excused = {}
  /\ window = [age |-> 0, offers |-> 0]
-----------------------------------------------------------------------------
(* computeDiscoveryBackoff: it doubles from attempt to attempt.            *)
Uncapped[a \in 1 .. MaxAttempt] == IF a = 1 THEN Base ELSE 2 * Uncapped[a - 1]
Backoff[a \in 1 .. MaxAttempt] ==
  IF a = 1 THEN Base ELSE Smaller(2 * Backoff[a - 1], MaxBackoff)

(* Mutated forms of Delay and Updated: without a cap, and only after a     *)
(* burst that sent something.                                              *)
DelayUncapped(attempt) == Uncapped[attempt]

UpdatedIfSent(n, sent, next) ==
  IF sent THEN [attempt |-> Smaller(record[n].attempt + 1, MaxAttempt), next |-> next] ELSE record[n]

Delay(attempt) == Backoff[attempt]

NextAttempt(n, sent) ==
  IF sent THEN Smaller(record[n].attempt + 1, MaxAttempt) ELSE Larger(record[n].attempt, 1)

Updated(n, sent, next) == [attempt |-> NextAttempt(n, sent), next |-> next]

(* updateDiscoveryBackoff, from a now that is age units old.               *)
UpdateBackoff(n, sent, age) ==
  \E jitter \in 0 .. Jitter :
    record' = [record EXCEPT ![n] =
      Updated(n, sent, Larger(Delay(NextAttempt(n, sent)) + jitter - age, -MaxLag))]

(* Fabric.Send: of the datagrams to T, those to D are scheduled.           *)
Send(kind, n, T, D) ==
  flights' = flights \cup {[kind |-> kind, from |-> n, to |-> t] : t \in D \cap T \cap registered}

(* pickRandomTargets and sendDiscoverBurst: targets that are not the       *)
(* sender, at most Fanout, and whatever the fabric drops of them.          *)
Targets(n) ==
  LET others == registered \ {n}
  IN  {T \in SUBSET others : Cardinality(T) = Smaller(Fanout, Cardinality(others))}
-----------------------------------------------------------------------------
(* Mutated forms of the definitions below, as a slip in the code could     *)
(* have them.  They show that each property can fail.                      *)

(* canSendDiscoveryNow lets nobody through who has no record.              *)
IsDueByRecord(n) == record[n] # NoRecord /\ record[n].next + tick.age <= 0

(* The bucket is filled without regard to the burst.                       *)
RefilledPastBurst(n) == bucket[n].tokens + Rate * bucket[n].idle
-----------------------------------------------------------------------------
(* A time unit passes.  Watching may begin anew.                           *)
Elapse ==
  /\ tick.pc # "idle" => tick.age < MaxLag
  /\ record' = [n \in Node |-> IF record[n] = NoRecord THEN NoRecord
                               ELSE [record[n] EXCEPT !.next = Larger(@ - 1, -MaxLag)]]
  /\ tick' = IF tick.pc \in {"idle", "listed"} THEN tick ELSE [tick EXCEPT !.age = @ + 1]
  /\ bucket' = [n \in Node |-> [bucket[n] EXCEPT !.idle = Smaller(@ + 1, LongIdle)]]
  /\ since' = [n \in Node |-> Smaller(since[n] + 1, LongSince)]
  /\ \/ window' = [age |-> 0, offers |-> 0]
     \/ window.age < MaxWindow /\ window' = [window EXCEPT !.age = @ + 1]
  /\ UNCHANGED <<registered, connected, spawner, flights, excused>>
-----------------------------------------------------------------------------
(* registerNode, while nodes are spawned: the node becomes known, ...      *)
Register(n) ==
  /\ spawner[n] = "unborn"
  /\ registered' = registered \cup {n}
  /\ spawner' = [spawner EXCEPT ![n] = "registered"]
  /\ UNCHANGED <<connected, record, tick, bucket, flights, since, excused, window>>

(* ... is probed for ...                                                   *)
SpawnBurst(n) ==
  /\ spawner[n] = "registered"
  /\ \E T \in Targets(n) : \E D \in SUBSET T :
       /\ Send("DISCOVER", n, T, D)
       /\ spawner' = [spawner EXCEPT ![n] = IF D = {} THEN "failed" ELSE "sent"]
  /\ since' = [since EXCEPT ![n] = 0]
  /\ UNCHANGED <<registered, connected, record, tick, bucket, excused, window>>

(* ... and is to wait for the next time.                                   *)
SpawnUpdate(n) ==
  /\ spawner[n] \in {"sent", "failed"}
  /\ UpdateBackoff(n, spawner[n] = "sent", 0)
  /\ spawner' = [spawner EXCEPT ![n] = "done"]
  /\ since' = [since EXCEPT ![n] = 0]
  /\ UNCHANGED <<registered, connected, tick, bucket, flights, excused, window>>
-----------------------------------------------------------------------------
Unconnected == registered \ connected

(* A tick: the list, ...                                                   *)
List ==
  /\ tick.pc = "idle"
  /\ tick' = [NoTick EXCEPT !.pc = "listed", !.ids = Unconnected]
  /\ UNCHANGED <<registered, connected, record, spawner, bucket, flights, since, excused, window>>

(* ... its now, and reconcileDiscoveryState.                               *)
Reconcile ==
  /\ tick.pc = "listed"
  /\ tick' = [tick EXCEPT !.pc = "scan"]
  /\ record' = [n \in Node |-> IF n \in tick.ids THEN record[n] ELSE NoRecord]
  /\ excused' = excused \cup {n \in Unconnected : record[n] # NoRecord /\ n \notin tick.ids}
  /\ UNCHANGED <<registered, connected, spawner, bucket, flights, since, window>>

(* canSendDiscoveryNow.                                                    *)
IsDue(n) == record[n] = NoRecord \/ record[n].next + tick.age <= 0

(* The next node of the list, in any order: due or not.                    *)
Check(n) ==
  /\ tick.pc = "scan" /\ n \in tick.ids
  /\ tick' = IF IsDue(n) THEN [tick EXCEPT !.pc = "due", !.ids = @ \ {n}, !.node = n]
             ELSE [tick EXCEPT !.ids = @ \ {n}]
  /\ excused' = IF spawner[n] # "done" THEN excused \cup {n} ELSE excused
  /\ UNCHANGED <<registered, connected, record, spawner, bucket, flights, since, window>>

Probe ==
  /\ tick.pc = "due"
  /\ \E T \in Targets(tick.node) : \E D \in SUBSET T :
       /\ Send("DISCOVER", tick.node, T, D)
       /\ tick' = [tick EXCEPT !.pc = IF D = {} THEN "failed" ELSE "sent"]
  /\ UNCHANGED <<registered, connected, record, spawner, bucket, since, excused, window>>

(* What follows counts from the tick's now.                                *)
Update ==
  /\ tick.pc \in {"sent", "failed"}
  /\ UpdateBackoff(tick.node, tick.pc = "sent", tick.age)
  /\ since' = [since EXCEPT ![tick.node] = tick.age]
  /\ tick' = [tick EXCEPT !.pc = "scan", !.node = NoNode]
  /\ excused' = IF spawner[tick.node] # "done" \/ tick.node \in connected THEN excused
                ELSE excused \ {tick.node}
  /\ UNCHANGED <<registered, connected, spawner, bucket, flights, window>>

EndTick ==
  /\ tick.pc = "scan" /\ tick.ids = {}
  /\ tick' = NoTick
  /\ UNCHANGED <<registered, connected, record, spawner, bucket, flights, since, excused, window>>
-----------------------------------------------------------------------------
(* allowOffer: the bucket fills up with the time, to the burst at most.    *)
Refilled(n) == Smaller(bucket[n].tokens + Rate * bucket[n].idle, Burst)

Allows(n) == Refilled(n) >= Token

(* A DISCOVER arrives, and is answered if the bucket allows.               *)
TakeDiscover(f) ==
  LET n == f.to
  IN
  /\ f \in flights /\ f.kind = "DISCOVER"
  /\ bucket' = [bucket EXCEPT ![n] =
       [tokens |-> IF Allows(n) THEN Refilled(n) - Token ELSE Refilled(n), idle |-> 0]]
  /\ window' = IF n = Watched /\ Allows(n) THEN [window EXCEPT !.offers = @ + 1] ELSE window
  /\ \/ flights' = flights \ {f}
     \/ /\ Allows(n) /\ f.from \in registered
        /\ flights' = (flights \ {f}) \cup {[kind |-> "OFFER", from |-> n, to |-> f.from]}
  /\ UNCHANGED <<registered, connected, record, tick, spawner, since, excused>>

(* An OFFER arrives, and the join it starts succeeds or not.               *)
TakeOffer(f) ==
  /\ f \in flights /\ f.kind = "OFFER"
  /\ flights' = flights \ {f}
  /\ \/ UNCHANGED <<connected, excused>>
     \/ /\ connected' = connected \cup {f.to}
        /\ excused' = excused \cup {f.to}
  /\ UNCHANGED <<registered, record, tick, spawner, bucket, since, window>>

(* A node loses its leader and its connections.                            *)
Disconnect(n) ==
  /\ n \in connected \ Settled
  /\ connected' = connected \ {n}
  /\ UNCHANGED <<registered, record, tick, spawner, bucket, flights, since, excused, window>>
-----------------------------------------------------------------------------
Tick == List \/ Reconcile \/ (\E n \in Node : Check(n)) \/ Probe \/ Update \/ EndTick
Spawn(n) == Register(n) \/ SpawnBurst(n) \/ SpawnUpdate(n)

Next ==
  \/ Elapse
  \/ Tick
  \/ \E n \in Node : Spawn(n) \/ Disconnect(n)
  \/ \E f \in flights : TakeDiscover(f) \/ TakeOffer(f)

(* Time passes, and the goroutines of udpLoop and of the spawn run.        *)
Spec ==
  /\ Init /\ [][Next]_vars
  /\ WF_vars(Elapse) /\ WF_vars(Tick) /\ \A n \in Node : WF_vars(Spawn(n))
-----------------------------------------------------------------------------
Datagram == [kind : {"DISCOVER", "OFFER"}, from : Node, to : Node]

(* With the longest a node is made to wait, and what a bucket holds.       *)
TypeOK ==
  /\ registered \subseteq Node /\ connected \subseteq registered
  /\ record \in [Node -> [attempt : 0 .. MaxAttempt, next : -MaxLag .. MaxBackoff + Jitter]]
  /\ tick \in [pc : {"idle", "listed", "scan", "due", "sent", "failed"}, ids : SUBSET Node,
               age : 0 .. MaxLag, node : Node \cup {NoNode}]
  /\ spawner \in [Node -> {"unborn", "registered", "sent", "failed", "done"}]
  /\ bucket \in [Node -> [tokens : 0 .. Burst, idle : 0 .. LongIdle]]
  /\ flights \subseteq Datagram
  /\ since \in [Node -> 0 .. LongSince] /\ excused \subseteq Node
  /\ window \in [age : 0 .. MaxWindow, offers : Nat]

(* Over any window of time a node makes no more offers than the burst and  *)
(* what the rate adds in it, whenever the bucket is touched, and whenever  *)
(* it is made (allowOffer; offer_rate_limit_per_sec and offer_burst).      *)
OfferRateBounded ==
  Token * window.offers <= Burst + Rate * window.age

(* A tick probes for a node no sooner than the base back-off after it was  *)
(* last probed for, by the ticks' own nows -- unless it was connected in   *)
(* between, a tick dropped its record with a list from before it was       *)
(* registered, or registerNode was at it too (manager.go:553-566, 915-918).*)
OnlyRacesHurry ==
  tick.pc = "due" /\ tick.node \notin excused => since[tick.node] - tick.age >= Base

(* Whatever is lost, a node that stays unconnected is probed for again and *)
(* again.                                                                  *)
Probed(n) == tick.pc \in {"sent", "failed"} /\ tick.node = n
NeverGivesUp == \A n \in Node : []<>(Probed(n) \/ n \notin Unconnected)
=============================================================================

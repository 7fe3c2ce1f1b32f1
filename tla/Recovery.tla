------------------------------- MODULE Recovery --------------------------------
(***************************************************************************)
(* The recovery epochs (dashboard/recovery.go).                            *)
(*                                                                         *)
(* A kill opens an epoch: it takes a sample of the nodes, draws a number   *)
(* and puts the epoch in the place of the one that is open.  recoveryLoop  *)
(* takes samples and applies them to the epoch that is open by then, until *)
(* the topology has been still for a while or the epoch has run too long.  *)
(* Stop aborts the epoch after it has taken the run out of the fields.     *)
(* Samples are taken without the lock that guards the epochs.              *)
(*                                                                         *)
(* What the nodes do is the other modules' business: at any time a sample  *)
(* may find any of a set of states.  It has the nodes that run, and for    *)
(* each its role, whether it is connected and its parent.  Role flaps,     *)
(* orphan times, reconnects, peaks and the percentiles are left out.       *)
(***************************************************************************)
EXTENDS Integers, Sequences, SequencesExt, FiniteSetsExt

CONSTANTS
  Node,
  None,       \* no parent
  Samples,    \* what a sample may find
  Opener,     \* goroutines that kill nodes
  MaxHistory, \* recoveryHistoryMax
  Window,     \* recoveryStableWindow
  Timeout,    \* recoveryEpochTimeout
  MaxRuns,    \* bound on the runs, for TLC
  MaxEpochs,  \* bound on the epochs, for TLC
  MaxTime     \* bound on the time, for TLC

Role == {"base", "sender", "leader"}
View == [role : Role, connected : BOOLEAN, parent : Node \cup {None}]

ASSUME SampleAssumption ==
  /\ IsFiniteSet(Node)
  /\ \A s \in Samples : DOMAIN s \subseteq Node /\ \A n \in DOMAIN s : s[n] \in View
ASSUME OpenerAssumption == Opener \cap (1 .. MaxRuns) = {}
ASSUME RecoveryAssumption == \A k \in {MaxHistory, Window, Timeout} : k \in Nat \ {0}
ASSUME BoundAssumption == \A b \in {MaxRuns, MaxEpochs, MaxTime} : b \in Nat

VARIABLES
  now,      \* the time
  world,    \* what a sample finds at this time
  run,      \* the run in the manager's fields; 0 if m.running is false
  runs,     \* runs so far
  stopping, \* runs taken out of the fields whose epoch is not aborted yet
  ticked,   \* runs whose recoveryLoop has taken the sample of this time
  current,  \* m.recoveryCurrent
  history,  \* m.recoveryHistory: the epochs' numbers
  seq,      \* m.recoverySeq
  sample,   \* per loop and opener the sample it has taken and not used yet
  seen,     \* history: the samples applied to the open epoch
  closings, \* history: the numbers of the epochs in the order they were finalized
  opened,   \* history: epochs that have been opened; those of a run that was being stopped
  dropped   \* history: epochs that Start has taken away while they were running; those of them
            \* it has taken from a Stop under way, and those it has taken from a run that goes on

vars == <<now, world, run, runs, stopping, ticked, current, history, seq, sample, seen, closings,
          opened, dropped>>

Run == 1 .. MaxRuns

NoSample == [at |-> -1, view |-> <<>>, id |-> 0]
Unset    == -MaxTime - 1

Epoch(id, start, base) ==
  [id |-> id, status |-> "running", start |-> start, end |-> start, change |-> start,
   base |-> base, last |-> base,
   connected50 |-> Unset, connected90 |-> Unset, connected99 |-> Unset, newLeader |-> Unset,
   promotions |-> 0, leaderChanges |-> 0, reparents |-> 0, parentChanges |-> 0]

NoEpoch == [Epoch(0, 0, <<>>) EXCEPT !.status = "none"]

Init ==
  /\ now = 0 /\ world \in Samples /\ run = 0 /\ runs = 0 /\ stopping = {} /\ ticked = {}
  /\ current = NoEpoch /\ history = <<>> /\ seq = 0
  /\ sample = [s \in Opener \cup Run |-> NoSample]
  /\ seen = <<>> /\ closings = <<>> /\ opened = [all |-> {}, late |-> {}]
  /\ dropped = [ids |-> {}, early |-> {}, over |-> {}]

Running(ep) == ep.status = "running"
-----------------------------------------------------------------------------
(* What an epoch makes of a sample.                                        *)
RoleIn(view, n)   == IF n \in DOMAIN view THEN view[n].role ELSE "base"
ParentIn(view, n) == IF n \in DOMAIN view THEN view[n].parent ELSE None
Connected(view)   == Cardinality({n \in DOMAIN view : view[n].connected})

Need(total, pct) == Max({1, (total * pct + 99) \div 100})

(* setRecoveryConnectedThresholds.                                         *)
Reached(ep, s, field, pct) ==
  LET total == Cardinality(DOMAIN ep.base)
  IN  IF field = Unset /\ total > 0 /\ Connected(s.view) >= Need(total, pct)
      THEN s.at - ep.start ELSE field

Thresholds(ep, s) ==
  [ep EXCEPT !.connected50 = Reached(ep, s, @, 50),
             !.connected90 = Reached(ep, s, @, 90),
             !.connected99 = Reached(ep, s, @, 99)]

(* captureRecoveryLatencies: nodes that lead now and did not, and nodes    *)
(* with a parent that is new.                                              *)
Latencies(ep, s) ==
  LET v        == s.view
      promoted == {n \in DOMAIN v : v[n].role = "leader" /\ RoleIn(ep.last, n) # "leader"}
      moved    == {n \in DOMAIN v : v[n].parent \notin {None, ParentIn(ep.last, n)}}
  IN  [ep EXCEPT !.promotions = @ + Cardinality(promoted),
                 !.reparents = @ + Cardinality(moved),
                 !.newLeader = IF @ = Unset /\ \E n \in promoted : RoleIn(ep.base, n) # "leader"
                               THEN s.at - ep.start ELSE @]

(* captureRecoveryTopologyStability.                                       *)
Stability(ep, s) ==
  LET v       == s.view
      changed == {n \in DOMAIN v : v[n].role # RoleIn(ep.last, n)}
      moved   == {n \in Node : ParentIn(v, n) # ParentIn(ep.last, n)}
  IN  [ep EXCEPT !.leaderChanges = @ + Cardinality({n \in changed : v[n].role = "leader"}),
                 !.parentChanges = @ + Cardinality(moved),
                 !.change = IF changed \cup moved # {} THEN s.at ELSE @,
                 !.last = v]
-----------------------------------------------------------------------------
(* Mutated forms of the definitions below, as a slip in the code could     *)
(* have them.  They show that each property can fail.                      *)

(* The latencies are taken after the sample has become the last one.       *)
AppliedLate(ep, s) == Latencies(Stability(Thresholds(ep, s), s), s)

(* A sample of which only the roles count keeps the window going.          *)
AppliedRolesOnly(ep, s) ==
  LET next  == Stability(Latencies(Thresholds(ep, s), s), s)
      still == \A n \in DOMAIN s.view : s.view[n].role = RoleIn(ep.last, n)
  IN  IF still THEN [next EXCEPT !.change = ep.change] ELSE next

(* The history is not cut.                                                 *)
PersistAll(id) ==
  /\ history' = Append(history, id)
  /\ closings' = Append(closings, id)

(* The history is cut at its other end.                                    *)
PersistOldest(id) ==
  /\ history' = SubSeq(Append(history, id), 1, MaxHistory)
  /\ closings' = Append(closings, id)

(* A new epoch does not abort the one that is open.                        *)
CloseNothing == UNCHANGED <<history, closings>>
-----------------------------------------------------------------------------
(* tickRecoveryEpoch: the sample is applied to the epoch, ...              *)
Applied(ep, s) == Stability(Latencies(Thresholds(ep, s), s), s)

(* ... which may end by it.                                                *)
Status(ep, s) ==
  IF s.at - ep.change >= Window THEN "stabilized"
  ELSE IF s.at - ep.start >= Timeout THEN "timeout"
  ELSE "running"

(* finalizeRecoveryLocked.                                                 *)
Persist(id) ==
  LET h == Append(history, id)
  IN
  /\ history' = SubSeq(h, Max({1, Len(h) - MaxHistory + 1}), Len(h))
  /\ closings' = Append(closings, id)

(* The epoch that is open is finalized, if one is.                         *)
Close == IF Running(current) THEN Persist(current.id) ELSE UNCHANGED <<history, closings>>
-----------------------------------------------------------------------------
Elapse ==
  /\ now < MaxTime /\ now' = now + 1 /\ world' \in Samples /\ ticked' = {}
  /\ UNCHANGED <<run, runs, stopping, current, history, seq, sample, seen, closings,
                 opened, dropped>>

(* Start publishes a run with no epoch, whatever there was, and launches   *)
(* its loop.  Another goroutine's Stop may still be at work, and another   *)
(* goroutine's Start may have published a run since this one's Stop.       *)
Start ==
  /\ runs < MaxRuns
  /\ runs' = runs + 1 /\ run' = runs + 1
  /\ current' = NoEpoch /\ seen' = <<>>
  /\ LET lost == IF Running(current) THEN {current.id} ELSE {}
     IN  dropped' = [ids |-> dropped.ids \cup lost,
                     early |-> IF stopping = {} THEN dropped.early ELSE dropped.early \cup lost,
                     over |-> IF run = 0 THEN dropped.over ELSE dropped.over \cup lost]
  /\ UNCHANGED <<now, world, stopping, ticked, history, seq, sample, closings, opened>>

(* Stop takes the run out of the fields, ...                               *)
Stop ==
  /\ run # 0
  /\ run' = 0 /\ stopping' = stopping \cup {run}
  /\ UNCHANGED <<now, world, runs, ticked, current, history, seq, sample, seen, closings, opened,
                 dropped>>

(* ... aborts the epoch, and cancels the run.                              *)
Abort(g) ==
  /\ g \in stopping /\ stopping' = stopping \ {g}
  /\ Close
  /\ current' = IF Running(current) THEN [current EXCEPT !.status = "aborted", !.end = now]
                ELSE current
  /\ UNCHANGED <<now, world, run, runs, ticked, seq, sample, seen, opened, dropped>>

(* captureRecoverySample, by a loop that finds a run in the fields; its     *)
(* interval is a unit of time.  That need not be the loop's own run: the   *)
(* loop of a run that was overwritten goes on, and one that is cancelled   *)
(* may tick before it sees that.  One that has ended takes no more steps.  *)
Tick(g) ==
  /\ run # 0 /\ g <= runs /\ g \notin ticked /\ sample[g] = NoSample
  /\ ticked' = ticked \cup {g}
  /\ sample' = [sample EXCEPT ![g] = [at |-> now, view |-> world, id |-> 0]]
  /\ UNCHANGED <<now, world, run, runs, stopping, current, history, seq, seen, closings, opened,
                 dropped>>

(* Then the epoch: the sample may have waited for the lock.                *)
Apply(g) ==
  LET s      == sample[g]
      ep     == Applied(current, s)
      status == Status(ep, s)
  IN
  /\ g \in Run /\ s # NoSample
  /\ sample' = [sample EXCEPT ![g] = NoSample]
  /\ IF Running(current)
     THEN /\ current' = [ep EXCEPT !.status = status, !.end = s.at]
          /\ seen' = Append(seen, s)
          /\ IF status = "running" THEN UNCHANGED <<history, closings>> ELSE Persist(current.id)
     ELSE UNCHANGED <<current, seen, history, closings>>
  /\ UNCHANGED <<now, world, run, runs, stopping, ticked, seq, opened, dropped>>

(* startRecoveryEpoch takes a sample and draws a number, ...               *)
Capture(o) ==
  /\ run # 0 /\ seq < MaxEpochs /\ sample[o] = NoSample
  /\ seq' = seq + 1
  /\ sample' = [sample EXCEPT ![o] = [at |-> now, view |-> world, id |-> seq + 1]]
  /\ UNCHANGED <<now, world, run, runs, stopping, ticked, current, history, seen, closings, opened,
                 dropped>>

(* ... aborts the epoch that is open and puts its own in the place.        *)
Install(o) ==
  LET s == sample[o]
  IN
  /\ s # NoSample
  /\ Close
  /\ current' = Epoch(s.id, s.at, s.view) /\ seen' = <<>>
  /\ sample' = [sample EXCEPT ![o] = NoSample]
  /\ opened' = [all |-> opened.all \cup {s.id},
                late |-> IF run = 0 /\ stopping = {} THEN opened.late \cup {s.id} ELSE opened.late]
  /\ UNCHANGED <<now, world, run, runs, stopping, ticked, seq, dropped>>

Next ==
  \/ Elapse \/ Start \/ Stop
  \/ \E g \in Run : Abort(g) \/ Tick(g) \/ Apply(g)
  \/ \E o \in Opener : Capture(o) \/ Install(o)

Spec == Init /\ [][Next]_vars
-----------------------------------------------------------------------------
(* RecoveryEpochs, as far as the numbers go: the epoch there is, and then  *)
(* the history backwards, without the entry that heads the list already.   *)
Taken(list, id, limit) ==
  IF Len(list) >= limit \/ (list # <<>> /\ Head(list) = id) THEN list ELSE Append(list, id)

Listed(limit) ==
  LET n == Len(history)
      list[i \in 0 .. n] ==
        IF i = 0 THEN IF current.id = 0 THEN <<>> ELSE <<current.id>>
        ELSE Taken(list[i - 1], history[n + 1 - i], limit)
  IN  list[n]
-----------------------------------------------------------------------------
EpochType ==
  [id : 0 .. MaxEpochs, status : {"none", "running", "stabilized", "timeout", "aborted"},
   start : 0 .. MaxTime, end : 0 .. MaxTime, change : 0 .. MaxTime,
   base : Samples \cup {<<>>}, last : Samples \cup {<<>>},
   connected50 : Int, connected90 : Int, connected99 : Int, newLeader : Int,
   promotions : Nat, leaderChanges : Nat, reparents : Nat, parentChanges : Nat]

TypeOK ==
  /\ now \in 0 .. MaxTime /\ world \in Samples /\ runs \in 0 .. MaxRuns /\ run \in {0, runs}
  /\ stopping \subseteq 1 .. runs
  /\ ticked \subseteq 1 .. runs
  /\ current \in EpochType
  /\ history \in Seq(1 .. MaxEpochs) /\ Len(history) <= MaxHistory
  /\ seq \in 0 .. MaxEpochs
  /\ \A s \in Opener \cup Run :
       sample[s] = NoSample
         \/ sample[s] \in [at : 0 .. MaxTime, view : Samples, id : 0 .. MaxEpochs]
  /\ \A i \in 1 .. Len(seen) : seen[i].view \in Samples
  /\ opened.late \subseteq opened.all

(* Every epoch that is opened is finalized once and no more, or is the one *)
(* that is running, or a Start has taken it away (SPEC_RECOVERY_METRICS.md *)
(* :214 and :230).  Start takes away a running epoch only if it was opened *)
(* after its run's Stop had aborted what there was, or while another       *)
(* goroutine's Stop is yet to abort it, or with the run that this Start    *)
(* overwrites (manager.go:281).                                            *)
EpochsCloseOnce ==
  LET open == IF Running(current) THEN {current.id} ELSE {}
  IN
  /\ IsInjective(closings)
  /\ opened.all = ToSet(closings) \cup open \cup dropped.ids
  /\ ToSet(closings) \cap (open \cup dropped.ids) = {}
  /\ dropped.ids \subseteq opened.late \cup dropped.early \cup dropped.over

(* RecoveryEpochs lists the epoch that runs and the latest that were       *)
(* finalized, the newest first and none twice, as many as are asked for.   *)
ListsTheLatest ==
  LET latest == Reverse(closings \o (IF Running(current) THEN <<current.id>> ELSE <<>>))
      known  == MaxHistory + (IF Running(current) THEN 1 ELSE 0)
  IN  \A limit \in 1 .. MaxHistory + 2 :
        Listed(limit) = SubSeq(latest, 1, Min({limit, known, Len(latest)}))

(* An epoch has been still since the last sample applied to it that had a  *)
(* change of role or parent, or since it began.  A sample counts with the  *)
(* time it was taken at, which may be before the epoch began or before the *)
(* sample that was applied last.                                           *)
Before(i) == IF i = 1 THEN current.base ELSE seen[i - 1].view

Still(i) ==
  /\ \A n \in DOMAIN seen[i].view : seen[i].view[n].role = RoleIn(Before(i), n)
  /\ \A n \in Node : ParentIn(seen[i].view, n) = ParentIn(Before(i), n)

StillSince(k) ==
  LET changes == {i \in 1 .. k : ~Still(i)}
  IN  IF changes = {} THEN current.start ELSE seen[Max(changes)].at

Stable(k)   == seen[k].at - StillSince(k) >= Window
TimedOut(k) == seen[k].at - current.start >= Timeout

(* An epoch ends by the first sample at which it has been still for the    *)
(* stable window (RECOVERY_METRICS_CALCULATION.md:104-111), or at which it *)
(* has reached its timeout (:58), and by no other; the window counts first.*)
(* It is stabilized in less than a window only if a sample that is older   *)
(* than the epoch has been applied to it.                                  *)
StableAsSpecified ==
  /\ \A k \in 1 .. Len(seen) :
       Stable(k) \/ TimedOut(k) =>
         /\ k = Len(seen)
         /\ current.status = IF Stable(k) THEN "stabilized" ELSE "timeout"
  /\ current.status \in {"stabilized", "timeout"} =>
       seen # <<>> /\ (Stable(Len(seen)) \/ TimedOut(Len(seen)))
  /\ current.status = "stabilized" /\ current.end - current.start < Window =>
       \E i \in 1 .. Len(seen) : seen[i].at < current.start

(* The times are those of the first sample in which the share of connected *)
(* nodes reaches the threshold, and of the first that has a leader who led *)
(* nothing when the epoch began (SPEC_RECOVERY_METRICS.md:36-44).  As many *)
(* promotions are counted as changes of leader, and no more nodes with a   *)
(* new parent than changes of parent.                                      *)
First(found(_)) ==
  LET hits == {i \in 1 .. Len(seen) : found(seen[i].view)}
  IN  IF hits = {} THEN Unset ELSE seen[Min(hits)].at - current.start

Share(pct) ==
  LET total   == Cardinality(DOMAIN current.base)
      enough(v) == total > 0 /\ Connected(v) > 0 /\ 100 * Connected(v) >= pct * total
  IN  First(enough)

NewLeader ==
  LET found(v) == \E n \in DOMAIN v : v[n].role = "leader" /\ RoleIn(current.base, n) # "leader"
  IN  First(found)

MetricsAsSpecified ==
  /\ current.connected50 = Share(50) /\ current.connected90 = Share(90)
  /\ current.connected99 = Share(99)
  /\ current.newLeader = NewLeader
  /\ current.promotions = current.leaderChanges
  /\ current.reparents <= current.parentChanges
=============================================================================

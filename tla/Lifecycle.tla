------------------------------- MODULE Lifecycle -------------------------------
(***************************************************************************)
(* Start and Stop (dashboard/manager.go).                                  *)
(*                                                                         *)
(* Start stops what runs, publishes a new run in the manager's fields,     *)
(* launches the run's loops and spawns its nodes.  Stop takes the run out  *)
(* of the fields and sets the maps to nil; then it cancels the run's       *)
(* context, waits for the loops and shuts the mesh down.  The HTTP server  *)
(* calls them from goroutines of their own and nothing serialises them;    *)
(* the spawn is waited for by nobody.  The loops, the nodes' handlers and  *)
(* the spawn see the fields under a lock at one time and write the maps    *)
(* under it at a later one: a write to a nil map panics, and the process   *)
(* ends.                                                                   *)
(*                                                                         *)
(* One node stands for those of a run, and one loop for its loops, which   *)
(* have nothing to do with one another: udpLoop, launched before the spawn *)
(* ("live" discovery) or after it ("deferred"), or rotationLoop.  statsLoop*)
(* and recoveryLoop write no map.  abortRecoveryEpoch, between taking the  *)
(* run out and cancelling it, is in Recovery.                              *)
(***************************************************************************)
EXTENDS Naturals, FiniteSets

CONSTANTS
  Caller,  \* goroutines that call Start or Stop
  Stopper, \* those of them that call Stop
  Endless, \* runs whose shutdown_timeout_ms is 0: a Stop waits for their nodes without a bound
  MaxRuns, \* bound on the Starts, for TLC
  MaxStops \* bound on the other Stops, for TLC

ASSUME StopperAssumption == Stopper \subseteq Caller
ASSUME EndlessAssumption == Endless \subseteq Nat
ASSUME BoundAssumption == MaxRuns \in Nat /\ MaxStops \in Nat

VARIABLES
  run,       \* the run in the manager's fields; 0 if m.running is false
  published, \* runs so far
  starts,    \* calls of Start so far, for the bound
  stops,     \* calls of Stop so far, for the bound
  cancelled, \* runs whose context is cancelled
  loop,      \* per run the loop: its kind, its place, and the run whose context it has
  node,      \* per run its node: in no mesh, added, its goroutine idle, handling or gone
  closed,    \* runs whose nodes are told to stop
  call,      \* per caller the place in Start or Stop, its run, and what follows a Stop
  crashed,   \* a goroutine has panicked
  replaced,  \* history: runs another Start has overwritten in the fields
  late       \* history: runs whose node came after the cancel, or was busy when Stop gave up on it

vars == <<run, published, starts, stops, cancelled, loop, node, closed, call, crashed,
          replaced, late>>

bounds     == <<published, starts, stops>>
goroutines == <<loop, node, closed>>
history    == <<replaced, late>>

Run  == 1 .. MaxRuns
Kind == {"live", "deferred", "rotation"}

NoCall == [pc |-> "idle", run |-> 0, then |-> "idle"]
NoLoop == [kind |-> "live", pc |-> "none", ctx |-> 0]

Init ==
  /\ run = 0 /\ published = 0 /\ starts = 0 /\ stops = 0 /\ cancelled = {}
  /\ loop = [g \in Run |-> NoLoop]
  /\ node = [g \in Run |-> "none"] /\ closed = {}
  /\ call = [c \in Caller |-> NoCall]
  /\ crashed = FALSE /\ replaced = {} /\ late = {}

At(c, pc) == ~crashed /\ call[c].pc = pc
Go(c, pc) == call' = [call EXCEPT ![c].pc = pc]
Return(c) == call' = [call EXCEPT ![c] = [NoCall EXCEPT !.pc = call[c].then]]

Busy(g) == node[g] \in {"idle", "handling"}
Ended   == {"none", "gone"}
-----------------------------------------------------------------------------
(* Mutated forms of the definitions below, as a slip in the code could     *)
(* have them.  They show that each property can fail.                      *)

(* The wait group belongs to the run.                                      *)
WaitForOwn(c) ==
  /\ At(c, "wait") /\ Go(c, "shutdown")
  /\ loop[call[c].run].pc \in Ended
  /\ UNCHANGED <<run, bounds, cancelled, goroutines, crashed, history>>

(* Stop waits and forgets to cancel.                                       *)
CancelNothing(c) ==
  /\ At(c, "cancel") /\ Go(c, "wait")
  /\ UNCHANGED <<run, bounds, cancelled, goroutines, crashed, history>>

(* A cancelled spawn leaves the loops of its Start for the next Stop.      *)
SpawnGivesUp(c) ==
  /\ At(c, "spawn")
  /\ Go(c, IF call[c].run \in cancelled THEN "lost" ELSE "add")
  /\ UNCHANGED <<run, bounds, cancelled, goroutines, crashed, history>>
-----------------------------------------------------------------------------
(* Stop, and the Stop that Start begins with.                              *)
BeginStop(c) ==
  /\ At(c, "idle") /\ c \in Stopper /\ stops < MaxStops /\ stops' = stops + 1
  /\ call' = [call EXCEPT ![c].pc = "stop", ![c].then = "idle"]
  /\ UNCHANGED <<run, published, starts, cancelled, goroutines, crashed, history>>

BeginStart(c) ==
  /\ At(c, "idle") /\ starts < MaxRuns /\ starts' = starts + 1
  /\ call' = [call EXCEPT ![c].pc = "stop", ![c].then = "publish"]
  /\ UNCHANGED <<run, published, stops, cancelled, goroutines, crashed, history>>

(* Under m.mu: there is no run, or it is taken out of the fields.          *)
StopRun(c) ==
  /\ At(c, "stop")
  /\ IF run = 0 THEN Return(c) /\ UNCHANGED run
     ELSE /\ call' = [call EXCEPT ![c].pc = "cancel", ![c].run = run]
          /\ run' = 0
  /\ UNCHANGED <<bounds, cancelled, goroutines, crashed, history>>

Cancel(c) ==
  /\ At(c, "cancel") /\ Go(c, "wait")
  /\ cancelled' = cancelled \cup {call[c].run}
  /\ UNCHANGED <<run, bounds, goroutines, crashed, history>>

(* runWG, which all runs share.                                            *)
Wait(c) ==
  /\ At(c, "wait") /\ Go(c, "shutdown")
  /\ \A g \in Run : loop[g].pc \in Ended
  /\ UNCHANGED <<run, bounds, cancelled, goroutines, crashed, history>>

(* Mesh.Shutdown tells the nodes it finds to stop, ...                     *)
Shutdown(c) ==
  LET g == call[c].run
  IN
  /\ At(c, "shutdown") /\ Go(c, "drain")
  /\ closed' = IF node[g] = "none" THEN closed ELSE closed \cup {g}
  /\ UNCHANGED <<run, bounds, cancelled, loop, node, crashed, history>>

(* ... and waits until all that were started have (nodeWG), or for the     *)
(* timeout, if it has one.                                                 *)
Drain(c) ==
  LET g == call[c].run
  IN
  /\ At(c, "drain") /\ Return(c)
  /\ Busy(g) => g \notin Endless
  /\ late' = IF Busy(g) THEN late \cup {g} ELSE late
  /\ UNCHANGED <<run, bounds, cancelled, goroutines, crashed, replaced>>

Stopping(c) == StopRun(c) \/ Cancel(c) \/ Wait(c) \/ Shutdown(c) \/ Drain(c)
-----------------------------------------------------------------------------
(* Start publishes the run.  It does not look again whether there is one.  *)
Publish(c) ==
  /\ At(c, "publish")
  /\ published' = published + 1 /\ run' = published + 1
  /\ replaced' = IF run = 0 THEN replaced ELSE replaced \cup {run}
  /\ call' = [call EXCEPT ![c] = [NoCall EXCEPT !.pc = "launch", !.run = published + 1]]
  /\ \E k \in Kind : loop' = [loop EXCEPT ![published + 1].kind = k]
  /\ UNCHANGED <<starts, stops, cancelled, node, closed, crashed, late>>

(* It launches the loops; udpLoop only if discovery is live.               *)
Launch(c) ==
  /\ At(c, "launch") /\ Go(c, "spawn")
  /\ loop' = IF loop[call[c].run].kind = "deferred" THEN loop
             ELSE [loop EXCEPT ![call[c].run].pc = "new"]
  /\ UNCHANGED <<run, bounds, cancelled, node, closed, crashed, history>>

(* AddNodeUnstarted looks at the context: a Start that is cancelled stops  *)
(* whatever runs by then ...                                               *)
Spawn(c) ==
  /\ At(c, "spawn") /\ Go(c, IF call[c].run \in cancelled THEN "stop" ELSE "add")
  /\ UNCHANGED <<run, bounds, cancelled, goroutines, crashed, history>>

(* ... and else the node is in the mesh.                                   *)
Add(c) ==
  LET g == call[c].run
  IN
  /\ At(c, "add") /\ Go(c, "register")
  /\ node' = [node EXCEPT ![g] = "added"]
  /\ late' = IF g \in cancelled THEN late \cup {g} ELSE late
  /\ UNCHANGED <<run, bounds, cancelled, loop, closed, crashed, replaced>>

(* registerNode probes for it, if discovery is live, and writes its        *)
(* back-off record.                                                        *)
Register(c) ==
  /\ At(c, "register") /\ Go(c, "begin")
  /\ crashed' = (loop[call[c].run].kind = "live" /\ run = 0)
  /\ UNCHANGED <<run, bounds, cancelled, goroutines, history>>

(* StartNode starts its goroutine.  If it is told to stop already, it may  *)
(* still handle a message before it sees that.                             *)
Begin(c) ==
  /\ At(c, "begin") /\ Go(c, "finish")
  /\ node' = [node EXCEPT ![call[c].run] = "idle"]
  /\ late' = IF call[c].run \in cancelled THEN late \cup {call[c].run} ELSE late
  /\ UNCHANGED <<run, bounds, cancelled, loop, closed, crashed, replaced>>

(* The end of Start: udpLoop, if it has been put off.                      *)
Finish(c) ==
  /\ At(c, "finish") /\ Return(c)
  /\ loop' = IF loop[call[c].run].kind = "deferred"
             THEN [loop EXCEPT ![call[c].run].pc = "new"] ELSE loop
  /\ UNCHANGED <<run, bounds, cancelled, node, closed, crashed, history>>

Starting(c) ==
  \/ Publish(c) \/ Launch(c) \/ Spawn(c) \/ Add(c)
  \/ Register(c) \/ Begin(c) \/ Finish(c)
-----------------------------------------------------------------------------
(* A loop begins with the context it finds in the fields.  rotationLoop    *)
(* alone does not look whether there is one.                               *)
BeginLoop(g) ==
  /\ ~crashed /\ loop[g].pc = "new"
  /\ loop' = [loop EXCEPT ![g].pc = IF run = 0 THEN "gone" ELSE "idle", ![g].ctx = run]
  /\ crashed' = (run = 0 /\ loop[g].kind = "rotation")
  /\ UNCHANGED <<run, bounds, cancelled, node, closed, call, history>>

EndLoop(g) ==
  /\ ~crashed /\ loop[g].pc = "idle" /\ loop[g].ctx \in cancelled
  /\ loop' = [loop EXCEPT ![g].pc = "gone", ![g].ctx = 0]
  /\ UNCHANGED <<run, bounds, cancelled, node, closed, call, crashed, history>>

(* A tick goes on if it finds a run, ...                                   *)
Tick(g) ==
  /\ ~crashed /\ loop[g].pc = "idle" /\ run # 0
  /\ loop' = [loop EXCEPT ![g].pc = "busy"]
  /\ UNCHANGED <<run, bounds, cancelled, node, closed, call, crashed, history>>

(* ... and writes m.discState or m.levelRotation.                          *)
Write(g) ==
  /\ ~crashed /\ loop[g].pc = "busy"
  /\ crashed' = (run = 0)
  /\ loop' = [loop EXCEPT ![g].pc = "idle"]
  /\ UNCHANGED <<run, bounds, cancelled, node, closed, call, history>>

(* A node answers a DISCOVER: canOffer, and then allowOffer.               *)
Handle(g) ==
  /\ ~crashed /\ node[g] = "idle" /\ run # 0
  /\ node' = [node EXCEPT ![g] = "handling"]
  /\ UNCHANGED <<run, bounds, cancelled, loop, closed, call, crashed, history>>

Answer(g) ==
  /\ ~crashed /\ node[g] = "handling"
  /\ crashed' = (run = 0)
  /\ node' = [node EXCEPT ![g] = "idle"]
  /\ UNCHANGED <<run, bounds, cancelled, loop, closed, call, history>>

EndNode(g) ==
  /\ ~crashed /\ node[g] = "idle" /\ g \in closed
  /\ node' = [node EXCEPT ![g] = "gone"]
  /\ UNCHANGED <<run, bounds, cancelled, loop, closed, call, crashed, history>>

Next ==
  \/ \E c \in Caller : BeginStop(c) \/ BeginStart(c) \/ Stopping(c) \/ Starting(c)
  \/ \E g \in Run :
       \/ BeginLoop(g) \/ EndLoop(g) \/ Tick(g) \/ Write(g)
       \/ Handle(g) \/ Answer(g) \/ EndNode(g)

(* Calls go on once begun.  Goroutines are scheduled; a loop whose context *)
(* is done and whose ticker has fired takes either branch of its select,   *)
(* at random, and so takes the one that ends it in the end.  So does a     *)
(* node that is told to stop and has messages.                             *)
Fairness ==
  /\ \A c \in Caller : WF_vars(Stopping(c)) /\ WF_vars(Starting(c))
  /\ \A g \in Run :
       /\ WF_vars(BeginLoop(g)) /\ WF_vars(Write(g)) /\ SF_vars(EndLoop(g))
       /\ WF_vars(Answer(g)) /\ SF_vars(EndNode(g))

Spec == Init /\ [][Next]_vars /\ Fairness
-----------------------------------------------------------------------------
InStop(c) == call[c].pc \in {"cancel", "wait", "shutdown", "drain"}

TypeOK ==
  /\ run \in Run \cup {0}
  /\ published \in 0 .. MaxRuns /\ starts \in published .. MaxRuns
  /\ stops \in 0 .. MaxStops
  /\ cancelled \subseteq Run /\ closed \subseteq Run
  /\ loop \in [Run -> [kind : Kind, pc : {"none", "new", "idle", "busy", "gone"},
                      ctx : Run \cup {0}]]
  /\ node \in [Run -> {"none", "added", "idle", "handling", "gone"}]
  /\ call \in [Caller -> [pc : {"idle", "stop", "cancel", "wait", "shutdown", "drain", "publish",
                                "launch", "spawn", "add", "register", "begin", "finish"},
                          run : Run \cup {0}, then : {"idle", "publish"}]]
  /\ crashed \in BOOLEAN /\ replaced \subseteq Run
  /\ late \subseteq Run

Alive(g) == Busy(g) \/ \E h \in Run : loop[h].ctx = g /\ loop[h].pc \notin Ended

(* A run that has loops or a node is the one in the manager's fields, or a *)
(* Stop is at work on it (manager.go:73, one running instance at a time;   *)
(* manager.go:323, Stop terminates the current run); unless another Start  *)
(* has overwritten it, the spawn put the node in after the cancel, or Stop *)
(* gave up on the node.                                                    *)
NothingOutlivesStop ==
  \A g \in Run :
    Alive(g) =>
      \/ g = run \/ g \in replaced \cup late
      \/ \E c \in Caller : InStop(c) /\ call[c].run = g

(* The spawn has put a node into the mesh behind the list of nodes that    *)
(* Shutdown tells to stop, and Stop waits for it without a bound.          *)
WaitsForMissed(c) ==
  LET g == call[c].run
  IN  call[c].pc = "drain" /\ g \in Endless /\ Busy(g) /\ g \notin closed

(* A Stop returns, whatever its shutdown_timeout_ms, unless a goroutine    *)
(* panics or one of three things happens that nothing rules out: a new run *)
(* has loops, for which the shared wait group waits as well; a Start has   *)
(* overwritten a run, whose loops are never told to end; Shutdown's list   *)
(* has missed a node and there is no timeout (mesh.go:316-335).            *)
StopReturns ==
  \A c \in Caller :
    InStop(c) ~> \/ ~InStop(c) \/ crashed
                 \/ run # 0 \/ replaced # {} \/ WaitsForMissed(c)

(* Start stops any existing run and starts a new one (manager.go:205).     *)
StartStopsAnyRun == replaced = {}
=============================================================================

------------------------------- MODULE RunProofs -------------------------------
(***************************************************************************)
(* What TLAPS proves about a run: about its Start and Stop (Lifecycle),    *)
(* and about the nodes that join while it goes on (Join).  The two have no *)
(* state in common, and each theorem is about the specification of one.    *)
(*                                                                         *)
(* Lifecycle: what a Stop leaves behind, for any number of callers, runs   *)
(* and Stops.                                                              *)
(***************************************************************************)
EXTENDS Lifecycle, Join, FiniteSetTheorems, TLAPS

(* The callers that are to publish a run: each has had a Start counted.    *)
Pending == {c \in Caller : call[c].pc = "publish" \/ call[c].then = "publish"}

StartsCounted == IsFiniteSet(Pending) /\ published + Cardinality(Pending) <= starts

(* A caller in Start, or taking a run down, works on a run that exists.    *)
OnARun(c) ==
  \/ InStop(c)
  \/ call[c].pc \in {"launch", "spawn", "add", "register", "begin", "finish"}

RunsArePublished ==
  /\ run \in 0 .. published
  /\ \A c \in Caller : OnARun(c) => call[c].run \in 1 .. published

(* The run a Stop works on is out of the fields, and stays out of them.    *)
StoppedIsOut == \A c \in Caller : InStop(c) => call[c].run # run

(* A run that is not cancelled is in the fields, or a Stop is about to     *)
(* cancel it, or a Start has overwritten it.                               *)
CancelIsDue ==
  \A g \in 1 .. published \ cancelled :
    g = run \/ g \in replaced \/ \E c \in Caller : call[c].pc = "cancel" /\ call[c].run = g

Loops(h, g) == loop[h].ctx = g /\ loop[h].pc \notin Ended

EndedHaveNoContext == \A h \in Run : loop[h].pc \in Ended => loop[h].ctx = 0

(* Past the wait no loop has the context of the run.                       *)
WaitedForAll ==
  \A c \in Caller : call[c].pc \in {"shutdown", "drain"} =>
    \A h \in Run : ~Loops(h, call[c].run)

IInv ==
  /\ TypeOK /\ StartsCounted /\ RunsArePublished /\ StoppedIsOut /\ CancelIsDue
  /\ EndedHaveNoContext /\ WaitedForAll /\ NothingOutlivesStop
-----------------------------------------------------------------------------
CallPlace == {"idle", "stop", "cancel", "wait", "shutdown", "drain", "publish", "launch", "spawn",
          "add", "register", "begin", "finish"}
Calls == [Caller -> [pc : CallPlace, run : Run \cup {0}, then : {"idle", "publish"}]]

(* What becomes of the calls when one goes on, or returns.                 *)
LEMMA CallsGoOn ==
  ASSUME call \in Calls, NEW c \in Caller, NEW pc \in CallPlace, Go(c, pc)
  PROVE  /\ call' \in Calls
         /\ call'[c].pc = pc /\ call'[c].run = call[c].run /\ call'[c].then = call[c].then
         /\ \A d \in Caller \ {c} : call'[d] = call[d]
BY DEF Go, Calls

LEMMA CallsReturn ==
  ASSUME call \in Calls, NEW c \in Caller, Return(c)
  PROVE  /\ call' \in Calls
         /\ call'[c].pc = call[c].then /\ call'[c].run = 0 /\ call'[c].then = "idle"
         /\ call'[c].pc \in {"idle", "publish"}
         /\ \A d \in Caller \ {c} : call'[d] = call[d]
BY DEF Return, NoCall, Calls, CallPlace

(* A caller that is to publish has had its Start counted.                  *)
LEMMA PublishIsCounted ==
  ASSUME TypeOK, StartsCounted, NEW c \in Caller, call[c].pc = "publish"
  PROVE  published + 1 \in Run /\ published + 1 <= starts
<1>1. c \in Pending
  BY DEF Pending
<1>2. Cardinality(Pending) \in Nat /\ Cardinality(Pending) # 0
  BY <1>1, FS_CardinalityType, FS_EmptySet DEF StartsCounted
<1>. QED
  BY <1>2, BoundAssumption DEF StartsCounted, TypeOK, Run

LEMMA CallsKeep ==
  ASSUME TypeOK, StartsCounted, [Next]_vars
  PROVE  call' \in Calls
<1>0. call \in Calls
  BY DEF TypeOK, Calls, CallPlace
<1>1. ASSUME NEW c \in Caller, BeginStop(c) \/ BeginStart(c)
      PROVE  call' \in Calls
  BY <1>0, <1>1 DEF BeginStop, BeginStart, Calls, CallPlace
<1>2. ASSUME NEW c \in Caller, StopRun(c)
      PROVE  call' \in Calls
  <2>1. CASE run = 0
    BY <1>0, <1>2, <2>1, CallsReturn DEF StopRun
  <2>2. CASE run # 0
    BY <1>0, <1>2, <2>2 DEF StopRun, TypeOK, Calls, CallPlace
  <2>. QED BY <2>1, <2>2
<1>3. ASSUME NEW c \in Caller, Publish(c)
      PROVE  call' \in Calls
  <2>1. published + 1 \in Run
    BY <1>3, PublishIsCounted DEF Publish, At
  <2>. QED
    BY <1>0, <1>3, <2>1 DEF Publish, NoCall, Calls, CallPlace
<1>4. ASSUME NEW c \in Caller, Drain(c) \/ Finish(c)
      PROVE  call' \in Calls
  BY <1>0, <1>4, CallsReturn DEF Drain, Finish
<1>5. ASSUME NEW c \in Caller, NEW pc \in CallPlace, Go(c, pc)
      PROVE  call' \in Calls
  BY <1>0, <1>5, CallsGoOn
<1>6. ASSUME NEW c \in Caller,
             Cancel(c) \/ Wait(c) \/ Shutdown(c) \/ Launch(c) \/ Add(c) \/ Register(c) \/ Begin(c)
      PROVE  call' \in Calls
  BY <1>5, <1>6 DEF Cancel, Wait, Shutdown, Launch, Add, Register, Begin, CallPlace
<1>7. ASSUME NEW c \in Caller, Spawn(c)
      PROVE  call' \in Calls
  BY <1>5, <1>7 DEF Spawn, CallPlace
<1>8. CASE UNCHANGED call
  BY <1>0, <1>8
<1>. QED
  BY <1>1, <1>2, <1>3, <1>4, <1>6, <1>7, <1>8
  DEF Next, Stopping, Starting, BeginLoop, EndLoop, Tick, Write, Handle, Answer, EndNode, vars

Loop == [kind : Kind, pc : {"none", "new", "idle", "busy", "gone"}, ctx : Run \cup {0}]

(* The loops, the nodes and what a step does with them.                    *)
LEMMA LoopsKeep ==
  ASSUME TypeOK, [Next]_vars
  PROVE  loop' \in [Run -> Loop]
<1>0. loop \in [Run -> Loop] /\ run \in Run \cup {0}
  BY DEF TypeOK, Loop
<1>1. ASSUME NEW c \in Caller, Publish(c) \/ Launch(c) \/ Finish(c)
      PROVE  loop' \in [Run -> Loop]
  <2>1. CASE Publish(c)
    <3>1. PICK k \in Kind : loop' = [loop EXCEPT ![published + 1].kind = k]
      BY <2>1 DEF Publish
    <3>. QED
      BY <1>0, <3>1 DEF Loop
  <2>2. CASE Launch(c) \/ Finish(c)
    BY <1>0, <2>2 DEF Launch, Finish, Loop
  <2>. QED
    BY <1>1, <2>1, <2>2
<1>2. ASSUME NEW g \in Run, BeginLoop(g) \/ EndLoop(g) \/ Tick(g) \/ Write(g)
      PROVE  loop' \in [Run -> Loop]
  BY <1>0, <1>2 DEF BeginLoop, EndLoop, Tick, Write, Loop
<1>3. CASE UNCHANGED loop
  BY <1>0, <1>3
<1>. QED
  BY <1>1, <1>2, <1>3
  DEF Next, Stopping, Starting, BeginStop, BeginStart, StopRun, Cancel, Wait, Shutdown, Drain,
      Spawn, Add, Register, Begin, Handle, Answer, EndNode, goroutines, vars

LEMMA TypesKeep ==
  ASSUME TypeOK, StartsCounted, RunsArePublished, [Next]_vars
  PROVE  TypeOK'
<1>. DEFINE rest ==
       /\ run \in Run \cup {0}
       /\ published \in 0 .. MaxRuns /\ starts \in published .. MaxRuns
       /\ stops \in 0 .. MaxStops
       /\ cancelled \subseteq Run /\ closed \subseteq Run
       /\ node \in [Run -> {"none", "added", "idle", "handling", "gone"}]
       /\ crashed \in BOOLEAN /\ replaced \subseteq Run
       /\ late \subseteq Run
<1>0. rest /\ \A c \in Caller : OnARun(c) => call[c].run \in Run
  BY BoundAssumption DEF TypeOK, RunsArePublished, Run
<1>1. ASSUME NEW c \in Caller, BeginStop(c) \/ BeginStart(c)
      PROVE  rest'
  BY <1>0, <1>1, BoundAssumption DEF BeginStop, BeginStart, goroutines, history
<1>2. ASSUME NEW c \in Caller, Stopping(c)
      PROVE  rest'
  <2>1. At(c, "cancel") \/ At(c, "shutdown") \/ At(c, "drain") => call[c].run \in Run
    BY <1>0 DEF At, OnARun, InStop
  <2>. QED
    BY <1>0, <1>2, <2>1
    DEF Stopping, StopRun, Cancel, Wait, Shutdown, Drain, bounds, goroutines, history
<1>3. ASSUME NEW c \in Caller, Publish(c)
      PROVE  rest'
  <2>1. published + 1 \in Run /\ published + 1 <= starts
    BY <1>3, PublishIsCounted DEF Publish, At
  <2>. QED
    BY <1>0, <1>3, <2>1, BoundAssumption DEF Publish, Run
<1>4. ASSUME NEW c \in Caller,
             Launch(c) \/ Spawn(c) \/ Add(c) \/ Register(c) \/ Begin(c) \/ Finish(c)
      PROVE  rest'
  <2>1. At(c, "add") \/ At(c, "begin") => call[c].run \in Run
    BY <1>0 DEF At, OnARun
  <2>. QED
    BY <1>0, <1>4, <2>1
    DEF Launch, Spawn, Add, Register, Begin, Finish, bounds, goroutines, history
<1>5. ASSUME NEW g \in Run,
             \/ BeginLoop(g) \/ EndLoop(g) \/ Tick(g) \/ Write(g)
             \/ Handle(g) \/ Answer(g) \/ EndNode(g)
      PROVE  rest'
  BY <1>0, <1>5
  DEF BeginLoop, EndLoop, Tick, Write, Handle, Answer, EndNode, bounds, history
<1>6. ASSUME UNCHANGED vars
      PROVE  rest'
  BY <1>0, <1>6 DEF vars
<1>7. rest'
  <2>. HIDE DEF rest
  <2>. QED BY <1>1, <1>2, <1>3, <1>4, <1>5, <1>6 DEF Next, Starting
<1>. QED
  BY <1>7, CallsKeep, LoopsKeep DEF TypeOK, Calls, CallPlace, Loop

(* No Start is counted twice.                                              *)
LEMMA StartsKeep ==
  ASSUME TypeOK, StartsCounted, [Next]_vars
  PROVE  StartsCounted'
<1>0. /\ call \in Calls /\ call' \in Calls
      /\ published \in Nat /\ starts \in Nat
      /\ IsFiniteSet(Pending) /\ Cardinality(Pending) \in Nat
      /\ published + Cardinality(Pending) <= starts
  BY CallsKeep, FS_CardinalityType, BoundAssumption DEF TypeOK, Calls, CallPlace, StartsCounted
<1>1. ASSUME Pending' \subseteq Pending, UNCHANGED published, starts' \in Nat, starts' >= starts
      PROVE  StartsCounted'
  <2>1. IsFiniteSet(Pending') /\ Cardinality(Pending') <= Cardinality(Pending)
    BY <1>0, <1>1, FS_Subset
  <2>2. Cardinality(Pending') \in Nat
    BY <2>1, FS_CardinalityType
  <2>. QED
    BY <1>0, <1>1, <2>1, <2>2 DEF StartsCounted
<1>2. ASSUME NEW c \in Caller, BeginStart(c)
      PROVE  StartsCounted'
  <2>1. Pending' \subseteq Pending \cup {c} /\ published' = published /\ starts' = starts + 1
    BY <1>0, <1>2 DEF BeginStart, Pending, Calls
  <2>2. IsFiniteSet(Pending \cup {c}) /\ Cardinality(Pending \cup {c}) <= Cardinality(Pending) + 1
    BY <1>0, FS_AddElement
  <2>3. IsFiniteSet(Pending') /\ Cardinality(Pending') <= Cardinality(Pending \cup {c})
    BY <2>1, <2>2, FS_Subset
  <2>4. Cardinality(Pending') \in Nat /\ Cardinality(Pending \cup {c}) \in Nat
    BY <2>2, <2>3, FS_CardinalityType
  <2>. QED
    BY <1>0, <2>1, <2>2, <2>3, <2>4 DEF StartsCounted
<1>3. ASSUME NEW c \in Caller, Publish(c)
      PROVE  StartsCounted'
  <2>1. /\ c \in Pending /\ Pending' \subseteq Pending \ {c}
        /\ published' = published + 1 /\ starts' = starts
    BY <1>0, <1>3 DEF Publish, At, NoCall, Pending, Calls
  <2>2. IsFiniteSet(Pending \ {c}) /\ Cardinality(Pending \ {c}) = Cardinality(Pending) - 1
    BY <1>0, <2>1, FS_RemoveElement
  <2>3. IsFiniteSet(Pending') /\ Cardinality(Pending') <= Cardinality(Pending \ {c})
    BY <2>1, <2>2, FS_Subset
  <2>4. Cardinality(Pending') \in Nat
    BY <2>3, FS_CardinalityType
  <2>. QED
    BY <1>0, <2>1, <2>2, <2>3, <2>4 DEF StartsCounted
<1>4. ASSUME NEW c \in Caller, BeginStop(c)
      PROVE  StartsCounted'
  <2>1. Pending' \subseteq Pending /\ UNCHANGED <<published, starts>>
    BY <1>0, <1>4 DEF BeginStop, Pending, Calls
  <2>. QED BY <1>0, <1>1, <2>1
<1>5. ASSUME NEW c \in Caller, Return(c), UNCHANGED bounds
      PROVE  StartsCounted'
  <2>1. Pending' \subseteq Pending /\ UNCHANGED <<published, starts>>
    BY <1>0, <1>5, CallsReturn DEF bounds, Pending
  <2>. QED BY <1>0, <1>1, <2>1
<1>6. ASSUME NEW c \in Caller, NEW pc \in CallPlace \ {"publish"}, Go(c, pc), UNCHANGED bounds
      PROVE  StartsCounted'
  <2>1. Pending' \subseteq Pending /\ UNCHANGED <<published, starts>>
    BY <1>0, <1>6, CallsGoOn DEF bounds, Pending
  <2>. QED BY <1>0, <1>1, <2>1
<1>7. ASSUME NEW c \in Caller, StopRun(c)
      PROVE  StartsCounted'
  <2>1. CASE run = 0
    BY <1>5, <1>7, <2>1 DEF StopRun
  <2>2. CASE run # 0
    <3>1. Pending' \subseteq Pending /\ UNCHANGED <<published, starts>>
      BY <1>0, <1>7, <2>2 DEF StopRun, bounds, Pending, Calls
    <3>. QED BY <1>0, <1>1, <3>1
  <2>. QED BY <2>1, <2>2
<1>8. ASSUME UNCHANGED <<bounds, call>>
      PROVE  StartsCounted'
  <2>1. Pending' \subseteq Pending /\ UNCHANGED <<published, starts>>
    BY <1>8 DEF bounds, Pending
  <2>. QED BY <1>0, <1>1, <2>1
<1>9. ASSUME NEW c \in Caller,
             \/ Cancel(c) \/ Wait(c) \/ Shutdown(c) \/ Launch(c) \/ Spawn(c)
             \/ Add(c) \/ Register(c) \/ Begin(c)
      PROVE  StartsCounted'
  BY <1>6, <1>9 DEF Cancel, Wait, Shutdown, Launch, Spawn, Add, Register, Begin, CallPlace
<1>. QED
  BY <1>2, <1>3, <1>4, <1>5, <1>7, <1>8, <1>9
  DEF Next, Stopping, Starting, Drain, Finish, BeginLoop, EndLoop, Tick, Write, Handle, Answer,
      EndNode, vars, bounds
-----------------------------------------------------------------------------
(* The steps that are not a caller's.                                      *)
Underneath ==
  \E g \in Run :
    \/ BeginLoop(g) \/ EndLoop(g) \/ Tick(g) \/ Write(g)
    \/ Handle(g) \/ Answer(g) \/ EndNode(g)

LEMMA UnderneathKeeps ==
  ASSUME Underneath \/ UNCHANGED vars
  PROVE  UNCHANGED <<run, published, cancelled, call, replaced, late>>
BY DEF Underneath, BeginLoop, EndLoop, Tick, Write, Handle, Answer, EndNode, bounds, history, vars

LEMMA RunsKeep ==
  ASSUME TypeOK, StartsCounted, RunsArePublished, StoppedIsOut, [Next]_vars
  PROVE  RunsArePublished' /\ StoppedIsOut'
<1>0. /\ call \in Calls /\ published \in Nat /\ run \in 0 .. published
      /\ \A c \in Caller : OnARun(c) => call[c].run \in 1 .. published
      /\ \A c \in Caller : InStop(c) => call[c].run # run
  BY DEF TypeOK, Calls, CallPlace, RunsArePublished, StoppedIsOut
<1>. DEFINE Good(c) == /\ OnARun(c) => call[c].run \in 1 .. published
                       /\ InStop(c) => call[c].run # run
<1>1. ASSUME NEW c \in Caller, Good(c)', UNCHANGED <<run, published>>,
             \A d \in Caller \ {c} : call'[d] = call[d]
      PROVE  RunsArePublished' /\ StoppedIsOut'
  BY <1>0, <1>1 DEF RunsArePublished, StoppedIsOut, OnARun, InStop
<1>2. ASSUME NEW c \in Caller, BeginStop(c) \/ BeginStart(c)
      PROVE  RunsArePublished' /\ StoppedIsOut'
  <2>1. Good(c)' /\ UNCHANGED <<run, published>> /\ \A d \in Caller \ {c} : call'[d] = call[d]
    BY <1>0, <1>2 DEF BeginStop, BeginStart, OnARun, InStop, Calls
  <2>. QED BY <1>1, <2>1
<1>3. ASSUME NEW c \in Caller, Return(c), UNCHANGED <<run, published>>
      PROVE  RunsArePublished' /\ StoppedIsOut'
  <2>1. Good(c)' /\ \A d \in Caller \ {c} : call'[d] = call[d]
    BY <1>0, <1>3, CallsReturn DEF OnARun, InStop
  <2>. QED BY <1>1, <1>3, <2>1
<1>4. ASSUME NEW c \in Caller, StopRun(c)
      PROVE  RunsArePublished' /\ StoppedIsOut'
  <2>1. CASE run = 0
    BY <1>3, <1>4, <2>1 DEF StopRun, bounds
  <2>2. CASE run # 0
    <3>1. /\ run' = 0 /\ published' = published
          /\ call'[c].run = run /\ \A d \in Caller \ {c} : call'[d] = call[d]
      BY <1>0, <1>4, <2>2 DEF StopRun, bounds, Calls
    <3>. QED
      BY <1>0, <2>2, <3>1 DEF RunsArePublished, StoppedIsOut, OnARun, InStop
  <2>. QED BY <2>1, <2>2
<1>5. ASSUME NEW c \in Caller,
             \/ Cancel(c) \/ Wait(c) \/ Shutdown(c) \/ Launch(c) \/ Spawn(c)
             \/ Add(c) \/ Register(c) \/ Begin(c)
      PROVE  RunsArePublished' /\ StoppedIsOut'
  <2>1. PICK pc \in CallPlace : /\ Go(c, pc) /\ OnARun(c)
                                /\ pc \in {"wait", "shutdown", "drain"} => InStop(c)
                                /\ pc # "cancel" /\ UNCHANGED <<run, published>>
    BY <1>5
    DEF Cancel, Wait, Shutdown, Launch, Spawn, Add, Register, Begin, At, OnARun, InStop, CallPlace,
        bounds
  <2>2. call'[c].pc = pc /\ call'[c].run = call[c].run /\ \A d \in Caller \ {c} : call'[d] = call[d]
    BY <1>0, <2>1, CallsGoOn
  <2>3. Good(c)'
    BY <1>0, <2>1, <2>2 DEF InStop
  <2>. QED BY <1>1, <2>1, <2>2, <2>3
<1>6. ASSUME NEW c \in Caller, Drain(c) \/ Finish(c)
      PROVE  RunsArePublished' /\ StoppedIsOut'
  BY <1>3, <1>6 DEF Drain, Finish, bounds
<1>7. ASSUME NEW c \in Caller, Publish(c)
      PROVE  RunsArePublished' /\ StoppedIsOut'
  <2>1. /\ run' = published + 1 /\ published' = published + 1
        /\ call'[c].pc = "launch" /\ call'[c].run = published + 1
        /\ \A d \in Caller \ {c} : call'[d] = call[d]
    BY <1>0, <1>7 DEF Publish, NoCall, Calls
  <2>. QED
    BY <1>0, <2>1 DEF RunsArePublished, StoppedIsOut, OnARun, InStop
<1>8. ASSUME Underneath \/ UNCHANGED vars
      PROVE  RunsArePublished' /\ StoppedIsOut'
  <2>1. UNCHANGED <<run, published, call>>
    BY <1>8, UnderneathKeeps
  <2>. QED
    BY <2>1 DEF RunsArePublished, StoppedIsOut, OnARun, InStop
<1>. QED
  BY <1>2, <1>4, <1>5, <1>6, <1>7, <1>8 DEF Next, Stopping, Starting, Underneath

(* A run leaves the fields for a Stop that goes on to cancel it, or is     *)
(* overwritten.                                                            *)
LEMMA CancelsKeep ==
  ASSUME TypeOK, StartsCounted, RunsArePublished, CancelIsDue, [Next]_vars
  PROVE  CancelIsDue'
<1>. DEFINE About(g) == \E c \in Caller : call[c].pc = "cancel" /\ call[c].run = g
<1>0. /\ call \in Calls /\ published \in Nat
      /\ \A g \in 1 .. published \ cancelled : g = run \/ g \in replaced \/ About(g)
  BY DEF TypeOK, Calls, CallPlace, CancelIsDue
<1>1. ASSUME NEW c \in Caller, call[c].pc # "cancel",
             UNCHANGED <<run, published, cancelled, replaced>>,
             \A d \in Caller \ {c} : call'[d] = call[d]
      PROVE  CancelIsDue'
  <2>1. \A g \in 1 .. published : About(g) => About(g)'
    BY <1>1
  <2>. QED
    BY <1>0, <1>1, <2>1 DEF CancelIsDue
<1>2. ASSUME NEW c \in Caller, BeginStop(c) \/ BeginStart(c)
      PROVE  CancelIsDue'
  BY <1>0, <1>1, <1>2 DEF BeginStop, BeginStart, At, history, Calls
<1>3. ASSUME NEW c \in Caller, StopRun(c)
      PROVE  CancelIsDue'
  <2>1. CASE run = 0
    BY <1>0, <1>1, <1>3, <2>1, CallsReturn DEF StopRun, At, bounds, history
  <2>2. CASE run # 0
    <3>1. /\ call[c].pc = "stop" /\ call'[c].pc = "cancel" /\ call'[c].run = run
          /\ \A d \in Caller \ {c} : call'[d] = call[d]
          /\ UNCHANGED <<published, cancelled, replaced>>
      BY <1>0, <1>3, <2>2 DEF StopRun, At, bounds, history, Calls
    <3>2. \A g \in 1 .. published : g = run \/ About(g) => About(g)'
      BY <3>1
    <3>. QED
      BY <1>0, <3>1, <3>2 DEF CancelIsDue
  <2>. QED BY <2>1, <2>2
<1>4. ASSUME NEW c \in Caller, Cancel(c)
      PROVE  CancelIsDue'
  <2>1. /\ cancelled' = cancelled \cup {call[c].run} /\ UNCHANGED <<run, published, replaced>>
        /\ \A d \in Caller \ {c} : call'[d] = call[d]
    BY <1>0, <1>4, CallsGoOn DEF Cancel, bounds, history, CallPlace
  <2>2. \A g \in 1 .. published \ cancelled' : About(g) => About(g)'
    BY <2>1
  <2>. QED
    BY <1>0, <2>1, <2>2 DEF CancelIsDue
<1>5. ASSUME NEW c \in Caller,
             \/ Wait(c) \/ Shutdown(c) \/ Launch(c) \/ Spawn(c) \/ Add(c) \/ Register(c) \/ Begin(c)
      PROVE  CancelIsDue'
  <2>1. PICK pc \in CallPlace : /\ Go(c, pc) /\ call[c].pc # "cancel"
                                /\ UNCHANGED <<run, published, cancelled, replaced>>
    BY <1>5
    DEF Wait, Shutdown, Launch, Spawn, Add, Register, Begin, At, CallPlace, bounds, history
  <2>. QED
    BY <1>0, <1>1, <2>1, CallsGoOn
<1>6. ASSUME NEW c \in Caller, Drain(c) \/ Finish(c)
      PROVE  CancelIsDue'
  <2>1. Return(c) /\ call[c].pc # "cancel" /\ UNCHANGED <<run, published, cancelled, replaced>>
    BY <1>6 DEF Drain, Finish, At, bounds, history
  <2>. QED
    BY <1>0, <1>1, <2>1, CallsReturn
<1>7. ASSUME NEW c \in Caller, Publish(c)
      PROVE  CancelIsDue'
  <2>1. /\ run' = published + 1 /\ published' = published + 1 /\ cancelled' = cancelled
        /\ replaced' = IF run = 0 THEN replaced ELSE replaced \cup {run}
        /\ call[c].pc = "publish" /\ \A d \in Caller \ {c} : call'[d] = call[d]
    BY <1>0, <1>7 DEF Publish, At, NoCall, Calls
  <2>2. \A g \in 1 .. published : About(g) => About(g)'
    BY <2>1
  <2>. QED
    BY <1>0, <2>1, <2>2 DEF CancelIsDue
<1>8. ASSUME Underneath \/ UNCHANGED vars
      PROVE  CancelIsDue'
  <2>1. UNCHANGED <<run, published, cancelled, call, replaced>>
    BY <1>8, UnderneathKeeps
  <2>. QED
    BY <2>1 DEF CancelIsDue
<1>. QED
  BY <1>2, <1>3, <1>4, <1>5, <1>6, <1>7, <1>8 DEF Next, Stopping, Starting, Underneath

(* A loop takes its context from the fields, once, and gives it up when it *)
(* ends.                                                                   *)
LEMMA LoopsAreOfTheRun ==
  ASSUME TypeOK, EndedHaveNoContext, [Next]_vars
  PROVE  /\ EndedHaveNoContext'
         /\ \A h, x \in Run : Loops(h, x)' => Loops(h, x) \/ (x = run /\ UNCHANGED <<run, call>>)
<1>. DEFINE Sound == /\ EndedHaveNoContext'
                    /\ \A h, x \in Run :
                         Loops(h, x)' => Loops(h, x) \/ (x = run /\ UNCHANGED <<run, call>>)
<1>0. /\ loop \in [Run -> Loop] /\ run \in Run \cup {0} /\ 0 \notin Run
      /\ \A h \in Run : loop[h].pc \in Ended => loop[h].ctx = 0
  BY DEF TypeOK, Loop, EndedHaveNoContext, Run
<1>1. ASSUME \A h \in Run : /\ loop'[h].ctx = loop[h].ctx
                           /\ loop'[h].pc \in {loop[h].pc, "new"}
      PROVE  Sound
  BY <1>0, <1>1 DEF Loops, EndedHaveNoContext, Ended
<1>2. ASSUME NEW c \in Caller, Publish(c) \/ Launch(c) \/ Finish(c)
      PROVE  Sound
  <2>1. \A h \in Run : loop'[h].ctx = loop[h].ctx /\ loop'[h].pc \in {loop[h].pc, "new"}
    <3>1. CASE Publish(c)
      BY <1>0, <3>1 DEF Publish, Loop
    <3>2. CASE Launch(c) \/ Finish(c)
      BY <1>0, <3>2 DEF Launch, Finish, Loop
    <3>. QED
      BY <1>2, <3>1, <3>2
  <2>. QED BY <1>1, <2>1
<1>3. ASSUME NEW g \in Run, BeginLoop(g)
      PROVE  Sound
  BY <1>0, <1>3 DEF BeginLoop, Loop, Loops, EndedHaveNoContext, Ended
<1>4. ASSUME NEW g \in Run, EndLoop(g)
      PROVE  Sound
  BY <1>0, <1>4 DEF EndLoop, Loop, Loops, EndedHaveNoContext, Ended
<1>5. ASSUME NEW g \in Run, Tick(g) \/ Write(g)
      PROVE  Sound
  BY <1>0, <1>5 DEF Tick, Write, Loop, Loops, EndedHaveNoContext, Ended
<1>6. ASSUME UNCHANGED loop
      PROVE  Sound
  BY <1>1, <1>6
<1>. QED
  <2>1. Sound
    <3>. HIDE DEF Sound
    <3>. QED
      BY <1>2, <1>3, <1>4, <1>5, <1>6
      DEF Next, Stopping, Starting, BeginStop, BeginStart, StopRun, Cancel, Wait, Shutdown, Drain,
          Spawn, Add, Register, Begin, Handle, Answer, EndNode, goroutines, vars
  <2>. QED BY <2>1

(* A Stop keeps its run till it returns, after the drain.                  *)
LEMMA StopsGoOn ==
  ASSUME TypeOK, [Next]_vars, NEW c \in Caller
  PROVE  /\ call'[c].pc \in {"shutdown", "drain"} =>
              Wait(c) \/ call[c].pc \in {"shutdown", "drain"}
         /\ InStop(c) => Drain(c) \/ (InStop(c)' /\ call'[c].run = call[c].run)
<1>. DEFINE Sound ==
         /\ call'[c].pc \in {"shutdown", "drain"} =>
              Wait(c) \/ call[c].pc \in {"shutdown", "drain"}
         /\ InStop(c) => Drain(c) \/ (InStop(c)' /\ call'[c].run = call[c].run)
<1>0. call \in Calls
  BY DEF TypeOK, Calls, CallPlace
<1>1. ASSUME call'[c] = call[c]
      PROVE  Sound
  BY <1>1 DEF InStop
<1>2. ASSUME NEW d \in Caller, BeginStop(d) \/ BeginStart(d)
      PROVE  Sound
  BY <1>0, <1>1, <1>2 DEF BeginStop, BeginStart, At, InStop, Calls
<1>3. ASSUME NEW d \in Caller, StopRun(d)
      PROVE  Sound
  <2>1. CASE run = 0
    BY <1>0, <1>1, <1>3, <2>1, CallsReturn DEF StopRun, At, InStop
  <2>2. CASE run # 0
    BY <1>0, <1>1, <1>3, <2>2 DEF StopRun, At, InStop, Calls
  <2>. QED BY <2>1, <2>2
<1>4. ASSUME NEW d \in Caller, Cancel(d) \/ Wait(d) \/ Shutdown(d)
      PROVE  Sound
  BY <1>0, <1>1, <1>4, CallsGoOn DEF Cancel, Wait, Shutdown, At, InStop, CallPlace
<1>5. ASSUME NEW d \in Caller, Drain(d)
      PROVE  Sound
  BY <1>0, <1>1, <1>5, CallsReturn DEF Drain, At, InStop
<1>6. ASSUME NEW d \in Caller, Publish(d) \/ Finish(d)
      PROVE  Sound
  <2>1. CASE Publish(d)
    BY <1>0, <1>1, <2>1 DEF Publish, NoCall, At, InStop, Calls
  <2>2. CASE Finish(d)
    BY <1>0, <1>1, <2>2, CallsReturn DEF Finish, At, InStop
  <2>. QED BY <1>6, <2>1, <2>2
<1>7. ASSUME NEW d \in Caller, Launch(d) \/ Spawn(d) \/ Add(d) \/ Register(d) \/ Begin(d)
      PROVE  Sound
  <2>1. PICK pc \in CallPlace : /\ Go(d, pc) /\ pc \notin {"shutdown", "drain"}
                                /\ call[d].pc \in {"launch", "spawn", "add", "register", "begin"}
    BY <1>7 DEF Launch, Spawn, Add, Register, Begin, At, CallPlace
  <2>. QED
    BY <1>0, <1>1, <2>1, CallsGoOn DEF InStop
<1>8. ASSUME Underneath \/ UNCHANGED vars
      PROVE  Sound
  BY <1>1, <1>8, UnderneathKeeps
<1>. QED
  <2>1. Sound
    <3>. HIDE DEF Sound
    <3>. QED
      BY <1>2, <1>3, <1>4, <1>5, <1>6, <1>7, <1>8 DEF Next, Stopping, Starting, Underneath
  <2>. QED BY <2>1

LEMMA WaitsKeep ==
  ASSUME TypeOK, RunsArePublished, StoppedIsOut, EndedHaveNoContext, WaitedForAll, [Next]_vars
  PROVE  WaitedForAll'
<1>. SUFFICES ASSUME NEW c \in Caller, call'[c].pc \in {"shutdown", "drain"},
                     NEW h \in Run, loop'[h].ctx = call'[c].run, loop'[h].pc \notin Ended
              PROVE  FALSE
  BY DEF WaitedForAll, Loops
<1>1. Wait(c) \/ call[c].pc \in {"shutdown", "drain"}
  BY StopsGoOn
<1>2. InStop(c) /\ ~Loops(h, call[c].run)
  BY <1>1 DEF InStop, Wait, At, WaitedForAll, Loops
<1>3. call[c].run \in Run /\ call[c].run # run
  BY <1>2, BoundAssumption DEF RunsArePublished, StoppedIsOut, OnARun, TypeOK, Run
<1>4. ~Drain(c)
  <2>1. ASSUME Drain(c)
        PROVE  FALSE
    BY <2>1, CallsReturn DEF Drain, TypeOK, Calls, CallPlace
  <2>. QED BY <2>1
<1>5. call'[c].run = call[c].run
  BY <1>2, <1>4, StopsGoOn
<1>6. ASSUME NEW x \in Run, x = call[c].run
      PROVE  Loops(h, x)'
  BY <1>5, <1>6 DEF Loops
<1>. QED
  BY <1>2, <1>3, <1>6, LoopsAreOfTheRun

(* Nothing comes alive that is of no run in the fields, unless it is late. *)
LEMMA NothingComesAliveLate ==
  ASSUME TypeOK, RunsArePublished, CancelIsDue, EndedHaveNoContext, [Next]_vars,
         NEW g \in Run, Alive(g)'
  PROVE  \/ Alive(g)
         \/ g = run /\ UNCHANGED run
         \/ g \in late'
         \/ /\ UNCHANGED <<run, replaced>>
            /\ g = run \/ g \in replaced \/ \E c \in Caller : InStop(c)' /\ call'[c].run = g
<1>0. /\ node \in [Run -> {"none", "added", "idle", "handling", "gone"}] /\ call \in Calls
      /\ \A c \in Caller : OnARun(c) => call[c].run \in 1 .. published
  BY DEF TypeOK, Calls, CallPlace, RunsArePublished
<1>1. CASE Busy(g)'
  <2>1. Busy(g) \/ \E c \in Caller : Begin(c) /\ call[c].run = g
    BY <1>0, <1>1
    DEF Next, Stopping, Starting, BeginStop, BeginStart, StopRun, Cancel, Wait, Shutdown, Drain,
        Publish, Launch, Spawn, Add, Register, Begin, Finish, BeginLoop, EndLoop, Tick, Write,
        Handle, Answer, EndNode, goroutines, vars, Busy
  <2>2. ASSUME NEW c \in Caller, Begin(c), call[c].run = g, g \notin late'
        PROVE  /\ UNCHANGED <<run, replaced>>
               /\ g = run \/ g \in replaced \/ \E d \in Caller : InStop(d)' /\ call'[d].run = g
    <3>1. g \in 1 .. published \ cancelled
      BY <1>0, <2>2 DEF Begin, At, OnARun
    <3>2. g = run \/ g \in replaced \/ \E d \in Caller : call[d].pc = "cancel" /\ call[d].run = g
      BY <3>1 DEF CancelIsDue
    <3>3. /\ UNCHANGED <<run, replaced>>
          /\ \A d \in Caller : call[d].pc = "cancel" => call'[d] = call[d]
      BY <1>0, <2>2, CallsGoOn DEF Begin, At, CallPlace
    <3>. QED
      BY <3>2, <3>3 DEF InStop
  <2>. QED
    BY <2>1, <2>2 DEF Alive
<1>2. ASSUME NEW h \in Run, Loops(h, g)'
      PROVE  Alive(g) \/ (g = run /\ UNCHANGED run)
  BY <1>2, LoopsAreOfTheRun DEF Alive, Loops
<1>. QED
  BY <1>1, <1>2 DEF Alive, Loops

LEMMA NothingOutlivesStopKeeps ==
  ASSUME TypeOK, RunsArePublished, CancelIsDue, EndedHaveNoContext, WaitedForAll,
         NothingOutlivesStop, [Next]_vars
  PROVE  NothingOutlivesStop'
<1>. SUFFICES ASSUME NEW g \in Run, Alive(g)'
              PROVE  \/ g = run' \/ g \in replaced' \cup late'
                     \/ \E c \in Caller : InStop(c)' /\ call'[c].run = g
  BY DEF NothingOutlivesStop
<1>0. call \in Calls
  BY DEF TypeOK, Calls, CallPlace
<1>1. CASE Alive(g)
  <2>1. CASE g = run
    <3>1. \/ run' = run \/ g \in replaced'
          \/ \E c \in Caller : call'[c].pc = "cancel" /\ call'[c].run = g
      <4>1. ASSUME NEW c \in Caller, StopRun(c)
            PROVE  run' = run \/ (call'[c].pc = "cancel" /\ call'[c].run = g)
        BY <1>0, <2>1, <4>1 DEF StopRun, Calls
      <4>2. ASSUME NEW c \in Caller, Publish(c)
            PROVE  g \in replaced'
        BY <2>1, <4>2 DEF Publish, Run
      <4>. QED
        BY <4>1, <4>2, UnderneathKeeps
        DEF Next, Stopping, Starting, Underneath, BeginStop, BeginStart, Cancel, Wait, Shutdown,
            Drain, Launch, Spawn, Add, Register, Begin, Finish
    <3>. QED
      BY <2>1, <3>1 DEF InStop
  <2>2. CASE g \in replaced \cup late
    <3>1. replaced \subseteq replaced' /\ late \subseteq late'
      BY UnderneathKeeps
      DEF Next, Stopping, Starting, Underneath, BeginStop, BeginStart, StopRun, Cancel, Wait,
          Shutdown, Drain, Publish, Launch, Spawn, Add, Register, Begin, Finish, history
    <3>. QED
      BY <2>2, <3>1
  <2>3. ASSUME NEW c \in Caller, InStop(c), call[c].run = g
        PROVE  \/ g \in late'
               \/ \E d \in Caller : InStop(d)' /\ call'[d].run = g
    <3>1. CASE Drain(c)
      <4>1. \A h \in Run : ~Loops(h, g)
        BY <2>3, <3>1 DEF Drain, At, WaitedForAll
      <4>2. Busy(g)
        BY <1>1, <4>1 DEF Alive, Loops
      <4>. QED
        BY <2>3, <3>1, <4>2 DEF Drain
    <3>2. CASE ~Drain(c)
      BY <2>3, <3>2, StopsGoOn
    <3>. QED BY <3>1, <3>2
  <2>. QED
    BY <1>1, <2>1, <2>2, <2>3 DEF NothingOutlivesStop
<1>2. CASE ~Alive(g)
  BY <1>2, NothingComesAliveLate
<1>. QED
  BY <1>1, <1>2

-----------------------------------------------------------------------------
LEMMA InitEstablishes ==
  ASSUME Init
  PROVE  IInv
<1>1. TypeOK
  <2>1. loop \in [Run -> Loop] /\ call \in Calls
    BY DEF Init, NoLoop, NoCall, Kind, Loop, Calls, CallPlace
  <2>2. /\ run \in Run \cup {0} /\ published \in 0 .. MaxRuns /\ starts \in published .. MaxRuns
        /\ stops \in 0 .. MaxStops
    BY BoundAssumption DEF Init
  <2>3. /\ node \in [Run -> {"none", "added", "idle", "handling", "gone"}] /\ crashed \in BOOLEAN
        /\ \A S \in {cancelled, closed, replaced, late} : S \subseteq Run
    BY DEF Init
  <2>. QED
    BY <2>1, <2>2, <2>3 DEF TypeOK, Loop, Calls, CallPlace
<1>2. StartsCounted
  <2>1. Pending = {}
    BY DEF Init, NoCall, Pending
  <2>. QED
    BY <2>1, FS_EmptySet DEF Init, StartsCounted
<1>3. RunsArePublished /\ StoppedIsOut /\ CancelIsDue /\ WaitedForAll
  BY DEF Init, NoCall, RunsArePublished, StoppedIsOut, CancelIsDue, WaitedForAll, OnARun, InStop
<1>4. EndedHaveNoContext
  BY DEF Init, NoLoop, EndedHaveNoContext
<1>5. NothingOutlivesStop
  BY DEF Init, NoLoop, NothingOutlivesStop, Alive, Busy, Ended
<1>. QED
  BY <1>1, <1>2, <1>3, <1>4, <1>5 DEF IInv

LEMMA NextKeeps ==
  ASSUME IInv, [Next]_vars
  PROVE  IInv'
BY TypesKeep, StartsKeep, RunsKeep, CancelsKeep, LoopsAreOfTheRun, WaitsKeep,
   NothingOutlivesStopKeeps
DEF IInv

(* The types, and that no more runs are published than Starts were called. *)
THEOREM LifecycleTypes == Spec => []TypeOK
<1>1. Init => IInv
  BY InitEstablishes
<1>2. IInv /\ [Next]_vars => IInv'
  BY NextKeeps
<1>3. IInv => TypeOK
  BY DEF IInv
<1>. QED
  BY <1>1, <1>2, <1>3, PTL DEF Spec

(* However the calls of Start and Stop and the goroutines interleave, what *)
(* a run has left is of the run in the fields, or a Stop is at work on it, *)
(* or a Start overwrote it, or its node was late (manager.go:323).         *)
THEOREM StopLeavesNothing == Spec => []NothingOutlivesStop
<1>1. Init => IInv
  BY InitEstablishes
<1>2. IInv /\ [Next]_vars => IInv'
  BY NextKeeps
<1>3. IInv => NothingOutlivesStop
  BY DEF IInv
<1>. QED
  BY <1>1, <1>2, <1>3, PTL DEF Spec
-----------------------------------------------------------------------------
(***************************************************************************)
(* Join: nodes that join while cascades go on.                             *)
(*                                                                         *)
(* Once no kill is owed a cascade, whatever is on its way was read either  *)
(* from the latest tree, and then says what that tree says, or before it,  *)
(* and then is refused, or puts the node into raced when it is written.    *)
(***************************************************************************)

(* Whom a tree gives a node for its parent.                                *)
NodeAt(r, i) ==
  LET S == {m \in Node : r[m] = i}
  IN  IF i > 0 /\ S # {} THEN CHOOSE m \in S : TRUE ELSE NoNode

ParentIn(r, n) == IF r[n] > 1 THEN NodeAt(r, ParentRank(r[n])) ELSE NoNode

(* Whom a handler or a frame is about.                                     *)
JoinsAreOfNodes ==
  /\ \A n \in Node :
       /\ handler[n].pc \in {"join", "place", "placed", "final"} => handler[n].peer \in Node
       /\ handler[n].pc = "final" => handler[n].leader \in Node
       /\ handler[n].pc = "apply" => handler[n].leader \in Node \ {n}
  /\ \A f \in frames : f.kind = "ack" => f.leader \in Node \ {f.to}

(* The kills whose cascade has not started are of nodes that are gone, and *)
(* while there are none the tree is one of the nodes that are left.        *)
JoinKillsAreOwed ==
  /\ owed <= Cardinality(Node \ alive)
  /\ owed = 0 /\ revision > 0 => rank \in Rankings(alive)

JoinsAreNotAhead ==
  /\ \A n \in Node : mgr[n].rev <= revision
  /\ \A f \in frames : f.rev <= revision
  /\ \A n \in Node :
       /\ handler[n].seen <= revision /\ handler[n].rev <= revision
       /\ handler[n].pc = "final" => handler[n].rev <= handler[n].seen
  /\ scan.seen <= revision

(* Before the first cascade there is nothing to be told.                   *)
BeforeTheFirst ==
  revision = 0 =>
    /\ \A n \in Node :
         /\ rank[n] = 0 /\ pos[n] = 0 /\ mgr[n].leader = NoNode
         /\ handler[n].pc \in {"idle", "join", "place"}
    /\ \A f \in frames : f.kind # "ack"

(* A sync connects every node, and then nothing that looks for one to join *)
(* finds any.                                                              *)
SyncedAreConnected ==
  revision > 0 => \A n \in alive \ raced :
    /\ mgr[n].state = "connected" /\ (pos[n] = 1 \/ mgr[n].leader # NoNode)
    /\ handler[n].pc = "join" => handler[n].seen < revision
    /\ scan.node = n => scan.seen < revision

(* A rank and a leader are those that the latest tree has for the node.    *)
Told(n, r, leader) == r = rank[n] /\ leader = ParentIn(rank, n)

NoneOwed == owed = 0 /\ revision > 0

ManagersAreRight ==
  NoneOwed => \A n \in alive \ raced :
    mgr[n].rev = revision /\ Told(n, pos[n], mgr[n].leader)

(* finalizeJoinPlacement falls back on the origin itself where it has no   *)
(* leader; tryConnect ignores that, and so does the ack.                   *)
FinalsAreRight ==
  NoneOwed => \A n \in Node :
    LET h == handler[n]
    IN  h.pc = "final" /\ h.seen = revision /\ h.peer \in alive \ raced /\ h.leader # h.peer
          => Told(h.peer, h.rank, h.leader)

AcksAreRight ==
  NoneOwed => \A f \in frames :
    f.kind = "ack" /\ f.rev = revision /\ f.to \in alive \ raced => Told(f.to, f.rank, f.leader)

AppliesAreRight ==
  NoneOwed => \A n \in alive \ raced :
    LET h == handler[n]
    IN  h.pc = "apply" /\ h.seen = revision => h.rev = revision /\ Told(n, h.rank, h.leader)

JoinInv ==
  /\ JoinTypeOK /\ JoinsAreOfNodes /\ JoinKillsAreOwed /\ JoinsAreNotAhead /\ BeforeTheFirst
  /\ SyncedAreConnected /\ ManagersAreRight /\ FinalsAreRight /\ AcksAreRight /\ AppliesAreRight
-----------------------------------------------------------------------------
(* The tree a ranking gives: a parent has the smaller rank.                *)
LEMMA ParentsOfTheTree ==
  /\ \A n : Parent(n) = ParentIn(rank, n)
  /\ \A n : (Parent(n))' = ParentIn(rank', n)
BY DEF Parent, AtRank, NodeAt, ParentIn

(* Division with remainder.                                                *)
LEMMA Division ==
  ASSUME NEW a \in Nat, NEW b \in Nat \ {0}
  PROVE  a \div b \in Nat /\ a % b \in 0 .. (b - 1) /\ a = b * (a \div b) + (a % b)
BY SMT

(* The a-th and later leaders of a queue that grows by Y of every Y + N    *)
(* ranks stay ahead of the ranks they take.                                *)
LEMMA QueueStaysAhead ==
  ASSUME NEW a \in Nat, NEW b \in Nat, NEW M \in Nat, M > Y
  PROVE  a * M + b < (Y * a + b + 1) * M
<1>. Y \in Nat /\ Y >= 1
  BY CapacityAssumption
<1>1. a <= Y * a
  BY SMT
<1>2. a * M <= (Y * a) * M
  BY <1>1, SMT
<1>3. b + 1 <= (b + 1) * M
  BY SMT
<1>4. (Y * a + b + 1) * M = (Y * a) * M + (b + 1) * M
  BY SMT
<1>. QED
  BY <1>2, <1>3, <1>4, SMT

(* The closed form of the tree: the parent of rank i > 1 comes before it.  *)
LEMMA ParentRankBelow ==
  ASSUME NEW i \in Nat, i > 1
  PROVE  ParentRank(i) \in 1 .. (i - 1)
<1>. DEFINE M == Y + N
            g == (i - 2) \div M
<1>1. M \in Nat \ {0} /\ M > Y /\ Y \in Nat \ {0} /\ i - 2 \in Nat
  BY CapacityAssumption
<1>2. g \in Nat /\ (i - 2) % M \in 0 .. (M - 1) /\ i - 2 = M * g + ((i - 2) % M)
  <2>. HIDE DEF M
  <2>. QED BY <1>1, Division
<1>3. GroupOf(i) = g
  BY DEF GroupOf
<1>4. CASE g = 0
  BY <1>3, <1>4 DEF ParentRank, QueueRank
<1>5. CASE g # 0
  <2>. DEFINE a == (g - 1) \div Y
              b == (g - 1) % Y
  <2>1. a \in Nat /\ b \in 0 .. (Y - 1) /\ g - 1 = Y * a + b
    <3>1. g - 1 \in Nat
      BY <1>2, <1>5
    <3>. HIDE DEF g
    <3>. QED BY <1>1, <3>1, Division
  <2>2. ParentRank(i) = 2 + a * M + b
    BY <1>3, <1>5 DEF ParentRank, QueueRank
  <2>3. a * M + b < (Y * a + b + 1) * M
    <3>1. b \in Nat
      BY <2>1, <1>1
    <3>. HIDE DEF a, b, M
    <3>. QED BY <1>1, <2>1, <3>1, QueueStaysAhead
  <2>4. (Y * a + b + 1) * M = M * g
    <3>1. Y * a + b + 1 = g
      BY <1>1, <1>2, <2>1, SMT
    <3>. HIDE DEF a, b, g, M
    <3>. QED BY <1>1, <1>2, <3>1, SMT
  <2>5. a * M \in Nat
    BY <1>1, <2>1, SMT
  <2>. HIDE DEF a, b, g, M
  <2>. QED
    BY <1>1, <1>2, <2>1, <2>2, <2>3, <2>4, <2>5, SMT
<1>. QED
  BY <1>4, <1>5

(* What a cascade ranks: the nodes it has found, one after the other.      *)
LEMMA RankingFacts ==
  ASSUME NEW S, S \subseteq Node, NEW r \in Rankings(S)
  PROVE  /\ r \in [Node -> 0 .. Cardinality(Node)]
         /\ \A n \in Node : r[n] # 0 <=> n \in S
         /\ \A n \in S : \A i \in 1 .. r[n] : \E m \in S : r[m] = i
<1>1. IsFiniteSet(S) /\ Cardinality(S) <= Cardinality(Node)
  BY NodeAssumption, FS_Subset
<1>2. Cardinality(S) \in Nat /\ Cardinality(Node) \in Nat
  BY <1>1, NodeAssumption, FS_CardinalityType
<1>3. PICK f \in Bijection(S, 1 .. Cardinality(S)) :
        r = [n \in Node |-> IF n \in S THEN f[n] ELSE 0]
  BY DEF Rankings
<1>4. /\ f \in [S -> 1 .. Cardinality(S)]
      /\ \A i \in 1 .. Cardinality(S) : \E n \in S : f[n] = i
  BY DEF Bijection, Injection, Surjection
<1>5. \A n \in S : r[n] = f[n] /\ r[n] \in 1 .. Cardinality(S)
  BY <1>3, <1>4
<1>6. \A n \in Node : r[n] # 0 <=> n \in S
  <2>. TAKE n \in Node
  <2>1. CASE n \in S
    BY <1>2, <1>5, <2>1
  <2>2. CASE n \notin S
    BY <1>3, <2>2
  <2>. QED
    BY <2>1, <2>2
<1>7. r \in [Node -> 0 .. Cardinality(Node)]
  <2>1. \A n \in Node : r[n] \in 0 .. Cardinality(Node)
    <3>. TAKE n \in Node
    <3>1. CASE n \in S
      BY <1>1, <1>2, <1>5, <3>1
    <3>2. CASE n \notin S
      BY <1>2, <1>3, <3>2
    <3>. QED BY <3>1, <3>2
  <2>2. r = [n \in Node |-> r[n]]
    BY <1>3
  <2>. QED BY <2>1, <2>2
<1>8. \A n \in S : \A i \in 1 .. r[n] : \E m \in S : r[m] = i
  <2>. TAKE n \in S
  <2>. TAKE i \in 1 .. r[n]
  <2>1. i \in 1 .. Cardinality(S)
    BY <1>2, <1>5
  <2>. QED BY <1>4, <1>5, <2>1
<1>. QED BY <1>6, <1>7, <1>8

(* Every node of the tree but the root has its parent in it.               *)
LEMMA ParentOfRanked ==
  ASSUME NEW S, S \subseteq Node, NEW r \in Rankings(S), NEW n \in S
  PROVE  /\ r[n] > 1 => ParentIn(r, n) \in S
         /\ r[n] \in Nat /\ r[n] >= 1
<1>1. /\ r \in [Node -> 0 .. Cardinality(Node)]
      /\ \A m \in Node : r[m] # 0 <=> m \in S
      /\ \A i \in 1 .. r[n] : \E m \in S : r[m] = i
  BY RankingFacts
<1>2. Cardinality(Node) \in Nat
  BY NodeAssumption, FS_CardinalityType
<1>3. r[n] \in Nat /\ r[n] >= 1
  BY <1>1, <1>2
<1>4. ASSUME r[n] > 1
      PROVE  ParentIn(r, n) \in S
  <2>1. PICK i : i = ParentRank(r[n])
    OBVIOUS
  <2>2. i \in 1 .. (r[n] - 1)
    BY <1>3, <1>4, <2>1, ParentRankBelow
  <2>3. PICK nodes : nodes = {m \in Node : r[m] = i}
    OBVIOUS
  <2>4. nodes # {}
    BY <1>1, <1>3, <2>2, <2>3
  <2>5. ParentIn(r, n) = CHOOSE m \in nodes : TRUE
    BY <1>4, <2>1, <2>2, <2>3, <2>4 DEF ParentIn, NodeAt
  <2>6. ParentIn(r, n) \in nodes
    BY <2>4, <2>5
  <2>. QED
    BY <1>1, <2>2, <2>3, <2>6
<1>. QED BY <1>3, <1>4

LEMMA ParentsAreNodes ==
  ASSUME NEW r, NEW n
  PROVE  ParentIn(r, n) \in SomeNode
BY DEF ParentIn, NodeAt, SomeNode

-----------------------------------------------------------------------------
(* The types of Join, by the kind of thing.                                *)
JoinManager ==
  [state : {"solo", "joining", "connected", "disconnected"},
   leader : SomeNode, rev : Revision]
JoinHandler ==
  [pc : {"idle", "join", "place", "placed", "final", "apply"}, peer : SomeNode,
   leader : SomeNode, rank : Rank, rev : Revision, seen : Revision]
JoinFrame ==
  [kind : {"hello", "relay", "ack"}, origin : Node, to : Node, hop : 0 .. MaxHop,
   leader : SomeNode, rank : Rank, rev : Revision]

LEMMA JoinTypeFacts ==
  JoinTypeOK <=>
    /\ alive \subseteq Node /\ raced \subseteq Node /\ revision \in Revision
    /\ rank \in [Node -> Rank] /\ pos \in [Node -> Rank]
    /\ mgr \in [Node -> JoinManager] /\ handler \in [Node -> JoinHandler]
    /\ frames \subseteq JoinFrame
    /\ scan \in [node : SomeNode, seen : Revision]
    /\ hellos \in 0 .. MaxHellos /\ owed \in 0 .. MaxKills
BY DEF JoinTypeOK, SomeNode, JoinManager, JoinHandler, JoinFrame

LEMMA JoinParents ==
  ASSUME JoinTypeOK, NEW n \in Node
  PROVE  /\ Parent(n) = ParentIn(rank, n) /\ Parent(n) \in SomeNode
         /\ rank[n] \in Nat /\ pos[n] \in Nat
<1>1. /\ rank \in [Node -> 0 .. Cardinality(Node)] /\ pos \in [Node -> 0 .. Cardinality(Node)]
      /\ Cardinality(Node) \in Nat
  BY NodeAssumption, FS_CardinalityType DEF JoinTypeOK, Rank
<1>2. rank \in [Node -> Nat]
  BY <1>1
<1>3. Parent(n) = ParentIn(rank, n)
  BY <1>2, ParentsOfTheTree
<1>. QED
  BY <1>1, <1>3, ParentsAreNodes

LEMMA ZeroIsSmall ==
  0 \in Rank /\ 0 \in Revision /\ 0 \in 0 .. MaxHop
BY FS_CardinalityType, NodeAssumption, JoinBoundAssumption DEF Rank, Revision

LEMMA IdleFacts ==
  Idle \in JoinHandler /\ Idle.pc = "idle" /\ Idle.seen = 0 /\ Idle.rev = 0
BY ZeroIsSmall DEF Idle, JoinHandler, SomeNode

(* A HELLO goes on, or is taken; an ack that is late is dropped.           *)
LEMMA HellosKeep ==
  ASSUME JoinInv, (JoinTypeOK)', UNCHANGED <<alive, revision, rank, pos, mgr, scan, owed, raced>>,
         \A f \in frames' : f \in frames \/ (f.kind # "ack" /\ f.rev = 0),
         \A m \in Node : \/ handler'[m] = handler[m]
                         \/ /\ handler'[m].pc = "place" /\ handler'[m].peer \in Node
                            /\ handler'[m].rev = 0 /\ handler'[m].seen = 0
  PROVE  JoinInv'
<1>. USE DEF JoinInv
<1>1. JoinsAreOfNodes' /\ JoinKillsAreOwed'
  BY DEF JoinsAreOfNodes, JoinKillsAreOwed
<1>2. BeforeTheFirst'
  BY DEF BeforeTheFirst
<1>3. JoinsAreNotAhead'
  BY DEF JoinsAreNotAhead, JoinTypeOK, Revision
<1>4. alive \subseteq Node
  BY DEF JoinTypeOK
<1>5. SyncedAreConnected'
  BY <1>4 DEF SyncedAreConnected
<1>6. ManagersAreRight' /\ FinalsAreRight' /\ AcksAreRight' /\ AppliesAreRight'
  BY <1>4 DEF ManagersAreRight, FinalsAreRight, AcksAreRight, AppliesAreRight, NoneOwed, Told
<1>. QED BY <1>1, <1>2, <1>3, <1>5, <1>6

(* udpLoop's two steps: it finds no node that a sync has connected, and a  *)
(* node it read before a sync is raced.                                    *)
LEMMA DetectReadKeeps ==
  ASSUME JoinInv, NEW n \in Node, DetectRead(n)
  PROVE  JoinInv'
<1>. USE DEF JoinInv
<1>1. JoinTypeOK'
  BY DEF JoinTypeOK, DetectRead, SomeNode
<1>2. JoinsAreOfNodes' /\ JoinKillsAreOwed' /\ BeforeTheFirst'
  BY DEF JoinsAreOfNodes, JoinKillsAreOwed, BeforeTheFirst, DetectRead
<1>3. JoinsAreNotAhead'
  BY DEF JoinsAreNotAhead, DetectRead, JoinTypeOK, Revision
<1>4. SyncedAreConnected'
  BY DEF SyncedAreConnected, DetectRead, IsRoot
<1>5. ManagersAreRight' /\ FinalsAreRight' /\ AcksAreRight' /\ AppliesAreRight'
  BY DEF ManagersAreRight, FinalsAreRight, AcksAreRight, AppliesAreRight, NoneOwed, Told,
         DetectRead
<1>. QED BY <1>1, <1>2, <1>3, <1>4, <1>5

LEMMA DetectWriteKeeps ==
  ASSUME JoinInv, DetectWrite
  PROVE  JoinInv'
<1>. USE DEF JoinInv
<1>1. PICK n \in Node : n = scan.node
  BY DEF DetectWrite, JoinTypeOK, SomeNode
<1>2. /\ mgr' = [mgr EXCEPT ![n].state = "disconnected"]
      /\ raced' = IF scan.seen < revision THEN raced \cup {n} ELSE raced
      /\ scan' = [node |-> NoNode, seen |-> 0]
      /\ UNCHANGED <<alive, revision, rank, pos, frames, handler, hellos, owed>>
  BY <1>1 DEF DetectWrite, WriteNode
<1>3. \A m \in Node : mgr'[m].leader = mgr[m].leader /\ mgr'[m].rev = mgr[m].rev
                      /\ (m # n => mgr'[m] = mgr[m])
  BY <1>2 DEF JoinTypeOK
<1>4. JoinTypeOK'
  <2>1. mgr' \in [Node -> JoinManager]
    BY <1>2, JoinTypeFacts DEF JoinManager
  <2>2. scan' \in [node : SomeNode, seen : Revision]
    BY <1>2, ZeroIsSmall DEF SomeNode
  <2>. QED
    BY <1>1, <1>2, <2>1, <2>2 DEF JoinTypeOK, JoinManager, SomeNode
<1>5. JoinsAreOfNodes' /\ JoinKillsAreOwed' /\ BeforeTheFirst'
  BY <1>2, <1>3 DEF JoinsAreOfNodes, JoinKillsAreOwed, BeforeTheFirst
<1>6. JoinsAreNotAhead'
  BY <1>2, <1>3 DEF JoinsAreNotAhead, JoinTypeOK, Revision
<1>7. revision > 0 /\ n \in alive => n \in raced'
  BY <1>1, <1>2 DEF SyncedAreConnected, JoinTypeOK, Revision
<1>8. SyncedAreConnected'
  BY <1>2, <1>3, <1>7, NodeAssumption DEF SyncedAreConnected, JoinTypeOK
<1>9. ManagersAreRight' /\ FinalsAreRight' /\ AcksAreRight' /\ AppliesAreRight'
  BY <1>2, <1>3 DEF ManagersAreRight, FinalsAreRight, AcksAreRight, AppliesAreRight, NoneOwed, Told
<1>. QED BY <1>4, <1>5, <1>6, <1>8, <1>9

(* So is one that has taken an offer before a sync.                        *)
LEMMA JoinReadKeeps ==
  ASSUME JoinInv, NEW n \in Node, JoinRead(n)
  PROVE  JoinInv'
<1>. USE DEF JoinInv
<1>1. PICK t \in alive \ {n} :
        handler' = [handler EXCEPT ![n] =
          [Idle EXCEPT !.pc = "join", !.peer = t, !.seen = revision]]
  BY DEF JoinRead
<1>2. t \in Node /\ revision \in Revision
  BY DEF JoinTypeOK
<1>3. PICK h : h = [Idle EXCEPT !.pc = "join", !.peer = t, !.seen = revision]
  OBVIOUS
<1>4. h \in JoinHandler /\ h.pc = "join" /\ h.peer = t /\ h.rev = 0 /\ h.seen = revision
  BY <1>2, <1>3, ZeroIsSmall DEF Idle, JoinHandler, SomeNode
<1>5. JoinTypeOK'
  <2>1. handler' \in [Node -> JoinHandler]
    BY <1>1, <1>3, <1>4, JoinTypeFacts
  <2>2. hellos' \in 0 .. MaxHellos
    BY JoinBoundAssumption DEF JoinTypeOK, JoinRead
  <2>. QED
    BY <2>1, <2>2 DEF JoinTypeOK, JoinRead, JoinHandler, SomeNode
<1>6. /\ handler'[n].pc = "join" /\ handler'[n].peer = t /\ handler'[n].rev = 0
      /\ handler'[n].seen = revision /\ \A m \in Node \ {n} : handler'[m] = handler[m]
  BY <1>1, <1>3, <1>4 DEF JoinTypeOK
<1>7. JoinsAreOfNodes' /\ JoinKillsAreOwed' /\ BeforeTheFirst'
  BY <1>2, <1>6 DEF JoinsAreOfNodes, JoinKillsAreOwed, BeforeTheFirst, JoinRead
<1>8. JoinsAreNotAhead'
  BY <1>2, <1>6 DEF JoinsAreNotAhead, JoinRead, Revision
<1>9. SyncedAreConnected'
  BY <1>6 DEF SyncedAreConnected, JoinRead
<1>10. ManagersAreRight' /\ FinalsAreRight' /\ AcksAreRight' /\ AppliesAreRight'
  BY <1>6 DEF ManagersAreRight, FinalsAreRight, AcksAreRight, AppliesAreRight, NoneOwed, Told,
              JoinRead
<1>. QED BY <1>5, <1>7, <1>8, <1>9, <1>10

LEMMA JoinSendKeeps ==
  ASSUME JoinInv, NEW n \in Node, JoinSend(n)
  PROVE  JoinInv'
<1>. USE DEF JoinInv
<1>1. PICK s \in {"joining", "solo"} : mgr' = [mgr EXCEPT ![n].state = s]
  BY DEF JoinSend
<1>2. PICK h : h = handler[n]
  OBVIOUS
<1>3. /\ h.pc = "join" /\ h.peer \in Node
      /\ raced' = IF h.seen < revision THEN raced \cup {n} ELSE raced
      /\ handler' = [handler EXCEPT ![n] = Idle]
      /\ UNCHANGED <<alive, revision, rank, pos, scan, hellos, owed>>
  BY <1>2 DEF JoinSend, WriteNode, JoinsAreOfNodes
<1>4. PICK f : f = Frame("hello", n, h.peer, 0)
  OBVIOUS
<1>5. frames' \in {frames, frames \cup {f}}
  BY <1>2, <1>4 DEF JoinSend
<1>6. f \in JoinFrame /\ f.kind = "hello" /\ f.rev = 0
  BY <1>3, <1>4, ZeroIsSmall DEF Frame, JoinFrame, SomeNode
<1>7. \A m \in Node : mgr'[m].leader = mgr[m].leader /\ mgr'[m].rev = mgr[m].rev
                      /\ (m # n => mgr'[m] = mgr[m])
  BY <1>1 DEF JoinTypeOK
<1>8. Idle \in JoinHandler /\ Idle.pc = "idle" /\ Idle.seen = 0 /\ Idle.rev = 0
  BY IdleFacts
<1>9. handler'[n] = Idle /\ \A m \in Node \ {n} : handler'[m] = handler[m]
  BY <1>3 DEF JoinTypeOK
<1>10. JoinTypeOK'
  <2>1. mgr' \in [Node -> JoinManager]
    BY <1>1, JoinTypeFacts DEF JoinManager
  <2>2. handler' \in [Node -> JoinHandler]
    BY <1>3, <1>8, JoinTypeFacts
  <2>3. frames' \subseteq JoinFrame /\ raced' \subseteq Node
    BY <1>3, <1>5, <1>6, JoinTypeFacts
  <2>. QED
    BY <1>3, <2>1, <2>2, <2>3
    DEF JoinTypeOK, JoinManager, JoinHandler, JoinFrame, SomeNode
<1>11. JoinsAreOfNodes' /\ JoinKillsAreOwed' /\ BeforeTheFirst'
  BY <1>3, <1>5, <1>6, <1>7, <1>8, <1>9 DEF JoinsAreOfNodes, JoinKillsAreOwed, BeforeTheFirst
<1>12. JoinsAreNotAhead'
  BY <1>3, <1>5, <1>6, <1>7, <1>8, <1>9 DEF JoinsAreNotAhead, JoinTypeOK, Revision
<1>13. revision > 0 /\ n \in alive => n \in raced'
  BY <1>2, <1>3 DEF SyncedAreConnected
<1>14. alive \subseteq Node
  BY DEF JoinTypeOK
<1>15. SyncedAreConnected'
  BY <1>14, <1>3, <1>7, <1>8, <1>9, <1>13 DEF SyncedAreConnected
<1>16. ManagersAreRight' /\ FinalsAreRight' /\ AcksAreRight' /\ AppliesAreRight'
  BY <1>14, <1>3, <1>5, <1>6, <1>7, <1>8, <1>9
  DEF ManagersAreRight, FinalsAreRight, AcksAreRight, AppliesAreRight, NoneOwed, Told
<1>. QED BY <1>10, <1>11, <1>12, <1>15, <1>16

LEMMA TakeHelloKeeps ==
  ASSUME JoinInv, NEW n \in Node, TakeHello(n)
  PROVE  JoinInv'
<1>. USE DEF JoinInv
<1>1. PICK f \in frames :
        /\ f.kind \in {"hello", "relay"}
        /\ \/ /\ \E t \in MayRelay(n, f.origin) :
                   /\ f.kind = "relay" => f.hop < MaxHop
                   /\ frames' = (frames \ {f}) \cup
                        {Frame("relay", f.origin, t, IF f.kind = "hello" THEN 0 ELSE f.hop + 1)}
              /\ UNCHANGED handler
           \/ /\ frames' = frames \ {f}
              /\ handler' = [handler EXCEPT ![n] =
                   [Idle EXCEPT !.pc = "place", !.peer = f.origin]]
  BY DEF TakeHello
<1>2. UNCHANGED <<alive, revision, rank, pos, mgr, scan, hellos, owed, raced>>
  BY DEF TakeHello
<1>3. f \in JoinFrame
  BY JoinTypeFacts
<1>4. CASE \E t \in MayRelay(n, f.origin) :
             /\ f.kind = "relay" => f.hop < MaxHop
             /\ frames' = (frames \ {f}) \cup
                  {Frame("relay", f.origin, t, IF f.kind = "hello" THEN 0 ELSE f.hop + 1)}
             /\ UNCHANGED handler
  <2>1. PICK t \in MayRelay(n, f.origin) :
          /\ f.kind = "relay" => f.hop < MaxHop
          /\ frames' = (frames \ {f}) \cup
               {Frame("relay", f.origin, t, IF f.kind = "hello" THEN 0 ELSE f.hop + 1)}
          /\ UNCHANGED handler
    BY <1>4
  <2>2. t \in Node
    <3>1. ChildLeaders(n) \subseteq Node
      BY DEF ChildLeaders, JoinTypeOK
    <3>. QED
      BY <3>1, JoinParents DEF MayRelay, Up, Down, SomeNode
  <2>3. PICK hop : hop = IF f.kind = "hello" THEN 0 ELSE f.hop + 1
    OBVIOUS
  <2>4. hop \in 0 .. MaxHop
    BY <1>1, <1>3, <2>1, <2>3, JoinBoundAssumption DEF JoinFrame
  <2>5. PICK g : g = Frame("relay", f.origin, t, hop)
    OBVIOUS
  <2>6. g \in JoinFrame /\ g.kind = "relay" /\ g.rev = 0
    BY <1>3, <2>2, <2>4, <2>5, ZeroIsSmall DEF JoinFrame, Frame, SomeNode
  <2>7. frames' = (frames \ {f}) \cup {g}
    BY <2>1, <2>3, <2>5
  <2>8. frames' \subseteq JoinFrame
    BY <2>6, <2>7, JoinTypeFacts
  <2>9. (JoinTypeOK)'
    BY <1>2, <2>1, <2>8 DEF JoinTypeOK, JoinFrame, SomeNode
  <2>. QED
    BY <1>2, <2>1, <2>6, <2>7, <2>9, HellosKeep
<1>5. CASE /\ frames' = frames \ {f}
           /\ handler' = [handler EXCEPT ![n] = [Idle EXCEPT !.pc = "place", !.peer = f.origin]]
  <2>1. PICK h : h = [Idle EXCEPT !.pc = "place", !.peer = f.origin]
    OBVIOUS
  <2>2. /\ h \in JoinHandler /\ h.pc = "place" /\ h.peer \in Node /\ h.rev = 0 /\ h.seen = 0
    BY <1>3, <2>1, ZeroIsSmall DEF Idle, JoinHandler, JoinFrame, SomeNode
  <2>3. handler' \in [Node -> JoinHandler]
    BY <1>5, <2>1, <2>2, JoinTypeFacts
  <2>4. (JoinTypeOK)'
    BY <1>2, <1>5, <2>3 DEF JoinTypeOK, JoinHandler, SomeNode
  <2>5. /\ handler'[n].pc = "place" /\ handler'[n].peer \in Node
        /\ handler'[n].rev = 0 /\ handler'[n].seen = 0
        /\ \A m \in Node \ {n} : handler'[m] = handler[m]
    BY <1>5, <2>1, <2>2 DEF JoinTypeOK
  <2>. QED
    BY <1>2, <1>5, <2>4, <2>5, HellosKeep
<1>. QED BY <1>1, <1>4, <1>5

(* A cascade: whatever is in flight is older than it.                      *)
LEMMA JoinCascadeKeeps ==
  ASSUME JoinInv, Cascade, UNCHANGED <<alive, frames, scan, hellos>>,
         owed' <= Cardinality(Node \ alive) /\ owed' \in 0 .. MaxKills,
         \A n \in Node : \/ handler'[n] = handler[n]
                         \/ /\ handler[n].pc = "place"
                            /\ handler'[n] = [handler[n] EXCEPT !.pc = "placed"],
         handler' \in [Node -> JoinHandler]
  PROVE  JoinInv'
<1>. USE DEF JoinInv
<1>1. /\ alive \subseteq Node /\ revision \in Nat /\ revision' = revision + 1
      /\ revision' \in Revision /\ Revision \subseteq Nat
  BY JoinBoundAssumption DEF JoinTypeOK, Cascade, Revision
<1>2. rank' \in Rankings(alive)
  BY ParentsOfTheTree DEF Cascade
<1>3. /\ rank' \in [Node -> 0 .. Cardinality(Node)] /\ rank' \in [Node -> Rank]
      /\ rank' \in [Node -> Nat]
  <2>1. rank' \in [Node -> 0 .. Cardinality(Node)] /\ Cardinality(Node) \in Nat
    BY <1>1, <1>2, RankingFacts, NodeAssumption, FS_CardinalityType
  <2>. QED
    BY <2>1 DEF Rank
<1>4. \A n \in Node : (Parent(n))' = ParentIn(rank', n)
  BY <1>3, ParentsOfTheTree
<1>5. \A n \in alive :
        /\ pos'[n] = rank'[n]
        /\ mgr'[n] = [state |-> "connected", leader |-> ParentIn(rank', n), rev |-> revision']
  BY <1>1, <1>4 DEF Cascade
<1>6. \A n \in alive :
        /\ pos'[n] = rank'[n]
        /\ mgr'[n].state = "connected" /\ mgr'[n].leader = ParentIn(rank', n)
        /\ mgr'[n].rev = revision'
  <2>. TAKE n \in alive
  <2>1. pos'[n] = rank'[n]
        /\ mgr'[n] = [state |-> "connected", leader |-> ParentIn(rank', n), rev |-> revision']
    BY <1>5
  <2>2. mgr'[n].state = "connected"
    BY <2>1
  <2>3. mgr'[n].leader = ParentIn(rank', n)
    BY <2>1
  <2>4. mgr'[n].rev = revision'
    BY <2>1
  <2>. QED
    BY <2>1, <2>2, <2>3, <2>4
<1>7. \A n \in Node \ alive : pos'[n] = pos[n] /\ mgr'[n] = mgr[n]
  BY <1>1 DEF Cascade
<1>8. \A n \in Node : ParentIn(rank', n) \in SomeNode
  BY <1>3, ParentsAreNodes
<1>9. \A n \in alive : rank'[n] = 1 \/ ParentIn(rank', n) # NoNode
  <2>. TAKE n \in alive
  <2>1. /\ rank'[n] > 1 => ParentIn(rank', n) \in alive
        /\ rank'[n] \in Nat /\ rank'[n] >= 1
    BY <1>1, <1>2, ParentOfRanked
  <2>. QED
    BY <1>1, <2>1, NodeAssumption
<1>10. (JoinTypeOK)'
  <2>1. mgr' \in [Node -> JoinManager]
    <3>1. \A n \in Node : mgr'[n] \in JoinManager
      <4>. TAKE n \in Node
      <4>1. CASE n \in alive
        <5>1. [state |-> "connected", leader |-> ParentIn(rank', n), rev |-> revision']
                \in JoinManager
          BY <1>1, <1>8 DEF JoinManager
        <5>. QED
          BY <1>5, <4>1, <5>1
      <4>2. CASE n \notin alive
        BY <1>7, <4>2, JoinTypeFacts
      <4>. QED BY <4>1, <4>2
    <3>2. mgr' = [n \in Node |-> mgr'[n]]
      BY DEF Cascade
    <3>. QED BY <3>1, <3>2
  <2>2. pos' \in [Node -> Rank]
    <3>1. \A n \in Node : pos'[n] \in Rank
      BY <1>3, <1>5, <1>7 DEF JoinTypeOK
    <3>2. pos' = [n \in Node |-> pos'[n]]
      BY DEF Cascade
    <3>. QED BY <3>1, <3>2
  <2>3. raced' = {}
    BY DEF Cascade
  <2>. QED
    BY <1>1, <1>3, <2>1, <2>2, <2>3 DEF JoinTypeOK, JoinManager, JoinHandler, SomeNode
<1>11. JoinsAreOfNodes'
  <2>1. \A n \in Node :
          /\ handler'[n].peer = handler[n].peer /\ handler'[n].leader = handler[n].leader
          /\ \/ handler'[n].pc = handler[n].pc
             \/ handler[n].pc = "place" /\ handler'[n].pc = "placed"
    BY JoinTypeFacts DEF JoinHandler
  <2>. QED
    BY <2>1 DEF JoinsAreOfNodes
<1>12. JoinKillsAreOwed'
  BY <1>2 DEF JoinKillsAreOwed
<1>13. JoinsAreNotAhead'
  <2>1. \A n \in Node : mgr'[n].rev <= revision'
    <3>. TAKE n \in Node
    <3>1. CASE n \in alive
      BY <1>1, <1>6, <3>1
    <3>2. CASE n \notin alive
      <4>1. mgr'[n].rev = mgr[n].rev /\ mgr[n].rev \in Nat
        BY <1>1, <1>7, <3>2, JoinTypeFacts DEF JoinManager
      <4>. QED BY <1>1, <4>1 DEF JoinsAreNotAhead
    <3>. QED BY <3>1, <3>2
  <2>2. \A f \in frames' : f.rev <= revision'
    <3>1. \A f \in frames : f.rev \in Nat
      BY <1>1, JoinTypeFacts DEF JoinFrame
    <3>. QED BY <1>1, <3>1 DEF JoinsAreNotAhead
  <2>3. \A n \in Node :
          /\ handler'[n].seen = handler[n].seen /\ handler'[n].rev = handler[n].rev
          /\ handler'[n].pc = "final" => handler[n].pc = "final"
          /\ handler[n].seen \in Nat /\ handler[n].rev \in Nat
    BY <1>1, JoinTypeFacts DEF JoinHandler
  <2>4. scan.seen \in Nat
    BY <1>1 DEF JoinTypeOK
  <2>. QED
    BY <1>1, <2>1, <2>2, <2>3, <2>4 DEF JoinsAreNotAhead
<1>14. BeforeTheFirst'
  BY <1>1 DEF BeforeTheFirst
<1>15. \A n \in Node : handler'[n].seen = handler[n].seen /\ handler[n].seen < revision'
  BY <1>1, JoinTypeFacts DEF JoinHandler, JoinsAreNotAhead
<1>16. (\A f \in frames : f.rev < revision') /\ scan.seen < revision'
  BY <1>1, JoinTypeFacts DEF JoinFrame, JoinsAreNotAhead
<1>17. SyncedAreConnected'
  BY <1>1, <1>6, <1>9, <1>15, <1>16 DEF SyncedAreConnected
<1>18. ManagersAreRight'
  BY <1>6 DEF ManagersAreRight, Told
<1>19. FinalsAreRight' /\ AppliesAreRight'
  BY <1>1, <1>15 DEF FinalsAreRight, AppliesAreRight
<1>20. AcksAreRight'
  BY <1>1, <1>16 DEF AcksAreRight
<1>. QED
  BY <1>10, <1>11, <1>12, <1>13, <1>14, <1>17, <1>18, <1>19, <1>20

LEMMA JoinPlaceKeeps ==
  ASSUME JoinInv, NEW n \in Node, Place(n)
  PROVE  JoinInv'
<1>1. /\ handler[n].pc = "place" /\ Cascade /\ UNCHANGED <<alive, frames, scan, hellos, owed>>
      /\ handler' = [handler EXCEPT ![n].pc = "placed"]
  BY DEF Place
<1>2. handler' \in [Node -> JoinHandler]
  BY <1>1, JoinTypeFacts DEF JoinInv, JoinHandler
<1>3. handler'[n] = [handler[n] EXCEPT !.pc = "placed"]
      /\ \A m \in Node \ {n} : handler'[m] = handler[m]
  BY <1>1 DEF JoinInv, JoinTypeOK
<1>4. owed' <= Cardinality(Node \ alive) /\ owed' \in 0 .. MaxKills
  BY <1>1 DEF JoinInv, JoinTypeOK, JoinKillsAreOwed
<1>. QED
  BY <1>1, <1>2, <1>3, <1>4, JoinCascadeKeeps

LEMMA KillCascadeKeeps ==
  ASSUME JoinInv, KillCascade
  PROVE  JoinInv'
<1>1. /\ Cascade /\ UNCHANGED <<alive, frames, scan, hellos, handler>>
      /\ owed > 0 /\ owed' = owed - 1
  BY DEF KillCascade
<1>2. handler' \in [Node -> JoinHandler]
  BY <1>1, JoinTypeFacts DEF JoinInv
<1>3. Cardinality(Node \ alive) \in Nat
  BY NodeAssumption, FS_Difference, FS_CardinalityType
<1>4. owed' <= Cardinality(Node \ alive) /\ owed' \in 0 .. MaxKills
  BY <1>1, <1>3, JoinBoundAssumption, NodeAssumption, FS_CardinalityType
  DEF JoinInv, JoinTypeOK, JoinKillsAreOwed
<1>. QED
  BY <1>1, <1>2, <1>4, JoinCascadeKeeps

(* What finalizeJoinPlacement reads of an origin that nobody has written   *)
(* late is the place that the latest tree gives it.                        *)
LEMMA FinalReadKeeps ==
  ASSUME JoinInv, NEW n \in Node, FinalRead(n)
  PROVE  JoinInv'
<1>. USE DEF JoinInv
<1>1. PICK origin : origin = handler[n].peer
  OBVIOUS
<1>2. /\ handler[n].pc = "placed" /\ origin \in Node
      /\ UNCHANGED <<alive, revision, rank, pos, mgr, frames, scan, hellos, owed, raced>>
  BY <1>1 DEF FinalRead, JoinsAreOfNodes
<1>3. PICK leader :
        leader = IF Parent(origin) \in alive THEN Parent(origin)
                 ELSE IF Leads(origin) /\ Parent(origin) = NoNode THEN origin
                 ELSE IF mgr[origin].leader # NoNode THEN mgr[origin].leader
                 ELSE origin
  OBVIOUS
<1>4. PICK h : h = [pc |-> "final", peer |-> origin, rank |-> pos[origin], rev |-> mgr[origin].rev,
                    leader |-> leader, seen |-> revision]
  OBVIOUS
<1>5. handler' = [handler EXCEPT ![n] = IF {n, origin} \subseteq alive THEN h ELSE Idle]
  BY <1>1, <1>3, <1>4 DEF FinalRead
<1>6. alive \subseteq Node /\ mgr[origin] \in JoinManager /\ Parent(origin) = ParentIn(rank, origin)
  BY <1>2, JoinTypeFacts, JoinParents
<1>7. leader \in Node
  BY <1>2, <1>3, <1>6 DEF JoinManager, SomeNode
<1>8. h \in JoinHandler
  <2>1. pos[origin] \in Rank /\ revision \in Revision /\ mgr[origin].rev \in Revision
    BY <1>2, <1>6 DEF JoinTypeOK, JoinManager
  <2>. QED
    BY <1>2, <1>4, <1>7, <2>1 DEF JoinHandler, SomeNode
<1>9. /\ h.pc = "final" /\ h.peer = origin /\ h.rank = pos[origin] /\ h.rev = mgr[origin].rev
      /\ h.leader = leader /\ h.seen = revision
  BY <1>4
<1>10. PICK g \in {h, Idle} : handler' = [handler EXCEPT ![n] = g]
  BY <1>5
<1>11. handler'[n] = g /\ \A m \in Node \ {n} : handler'[m] = handler[m]
  BY <1>10 DEF JoinTypeOK
<1>12. Idle \in JoinHandler /\ Idle.pc = "idle" /\ Idle.seen = 0 /\ Idle.rev = 0
  BY IdleFacts
<1>13. (JoinTypeOK)'
  <2>1. handler' \in [Node -> JoinHandler]
    BY <1>8, <1>10, <1>12, JoinTypeFacts
  <2>. QED
    BY <1>2, <2>1 DEF JoinTypeOK, JoinHandler, SomeNode
<1>14. revision > 0
  BY <1>2 DEF BeforeTheFirst, JoinTypeOK, Revision
<1>15. JoinsAreOfNodes' /\ JoinKillsAreOwed' /\ BeforeTheFirst'
  BY <1>2, <1>7, <1>9, <1>11, <1>12, <1>14 DEF JoinsAreOfNodes, JoinKillsAreOwed, BeforeTheFirst
<1>16. JoinsAreNotAhead'
  BY <1>2, <1>9, <1>11, <1>12, <1>14 DEF JoinsAreNotAhead, JoinTypeOK, Revision
<1>17. SyncedAreConnected' /\ ManagersAreRight' /\ AcksAreRight' /\ AppliesAreRight'
  BY <1>2, <1>6, <1>9, <1>11, <1>12
  DEF SyncedAreConnected, ManagersAreRight, AcksAreRight, AppliesAreRight, NoneOwed, Told
<1>18. NoneOwed /\ origin \in alive \ raced /\ leader # origin => Told(origin, pos[origin], leader)
  BY <1>3, <1>6 DEF ManagersAreRight, Told
<1>19. FinalsAreRight'
  BY <1>2, <1>9, <1>11, <1>12, <1>18 DEF FinalsAreRight, NoneOwed, Told
<1>. QED BY <1>13, <1>15, <1>16, <1>17, <1>19

(* tryConnect and the ack: of this tree they are right, and of an earlier  *)
(* one they put the origin into raced.                                     *)
LEMMA FinalSendKeeps ==
  ASSUME JoinInv, NEW n \in Node, FinalSend(n)
  PROVE  JoinInv'
<1>. USE DEF JoinInv
<1>1. PICK h : h = handler[n]
  OBVIOUS
<1>2. PICK p : p = h.peer
  OBVIOUS
<1>3. /\ h.pc = "final" /\ p \in Node /\ h.leader \in Node /\ h \in JoinHandler
      /\ h.rev <= h.seen /\ h.seen <= revision /\ h.rev \in Nat /\ h.seen \in Nat
      /\ revision \in Nat /\ alive \subseteq Node /\ raced \subseteq Node
  <2>1. h.pc = "final"
    BY <1>1 DEF FinalSend
  <2>. QED
    BY <1>1, <1>2, <2>1, JoinTypeFacts
    DEF JoinsAreOfNodes, JoinsAreNotAhead, JoinHandler, Revision
<1>4. /\ UNCHANGED <<alive, revision, rank, pos, scan, hellos, owed>>
      /\ handler' = [handler EXCEPT ![n] = Idle]
      /\ mgr' = IF p # h.leader /\ {p, h.leader} \subseteq alive
                THEN [mgr EXCEPT ![p].leader = h.leader, ![p].state = "connected"] ELSE mgr
      /\ raced' = IF mgr' # mgr /\ h.seen < revision THEN raced \cup {p} ELSE raced
  BY <1>1, <1>2 DEF FinalSend, TryConnect, WriteNode
<1>5. PICK f : f = [Frame("ack", p, p, 0) EXCEPT !.leader = h.leader, !.rank = h.rank,
                                                  !.rev = h.rev]
  OBVIOUS
<1>6. /\ f \in JoinFrame /\ f.kind = "ack" /\ f.to = p /\ f.leader = h.leader /\ f.rank = h.rank
      /\ f.rev = h.rev
  BY <1>3, <1>5, ZeroIsSmall DEF Frame, JoinFrame, JoinHandler, SomeNode
<1>7. frames' = frames \/ (frames' = frames \cup {f} /\ h.leader # p)
  <2>1. PICK sender : sender = IF h.leader \in alive THEN h.leader ELSE n
    OBVIOUS
  <2>2. frames' = IF {sender, p} \subseteq alive /\ sender # p THEN frames \cup {f} ELSE frames
    BY <1>1, <1>2, <1>5, <2>1 DEF FinalSend
  <2>. QED
    BY <2>1, <2>2
<1>8. /\ mgr' \in [Node -> JoinManager]
      /\ \A m \in Node \ {p} : mgr'[m] = mgr[m]
      /\ mgr'[p].rev = mgr[p].rev
      /\ \/ mgr'[p] = mgr[p]
         \/ mgr' # mgr /\ mgr'[p].state = "connected" /\ mgr'[p].leader = h.leader /\ h.leader # p
  <2>1. CASE mgr' = mgr
    BY <2>1, JoinTypeFacts
  <2>2. CASE mgr' # mgr
    <3>1. mgr' = [mgr EXCEPT ![p].leader = h.leader, ![p].state = "connected"] /\ h.leader # p
      BY <1>4, <2>2
    <3>2. mgr \in [Node -> JoinManager] /\ h.leader \in SomeNode
      BY <1>3, JoinTypeFacts DEF SomeNode
    <3>. QED
      BY <1>3, <2>2, <3>1, <3>2 DEF JoinManager
  <2>. QED BY <2>1, <2>2
<1>9. handler'[n] = Idle /\ \A m \in Node \ {n} : handler'[m] = handler[m]
  BY <1>4 DEF JoinTypeOK
<1>10. Idle \in JoinHandler /\ Idle.pc = "idle" /\ Idle.seen = 0 /\ Idle.rev = 0
  BY IdleFacts
<1>11. (JoinTypeOK)'
  <2>1. handler' \in [Node -> JoinHandler]
    BY <1>4, <1>10, JoinTypeFacts
  <2>2. frames' \subseteq JoinFrame /\ raced' \subseteq Node
    BY <1>3, <1>4, <1>6, <1>7, JoinTypeFacts
  <2>. QED
    BY <1>4, <1>8, <2>1, <2>2
    DEF JoinTypeOK, JoinManager, JoinHandler, JoinFrame, SomeNode
<1>12. revision > 0
  BY <1>1, <1>3 DEF BeforeTheFirst
<1>13. JoinsAreOfNodes' /\ JoinKillsAreOwed' /\ BeforeTheFirst'
  BY <1>3, <1>4, <1>6, <1>7, <1>9, <1>10, <1>12
  DEF JoinsAreOfNodes, JoinKillsAreOwed, BeforeTheFirst
<1>14. JoinsAreNotAhead'
  BY <1>3, <1>4, <1>6, <1>7, <1>8, <1>9, <1>10 DEF JoinsAreNotAhead
<1>15. raced \subseteq raced' /\ (mgr' # mgr /\ h.seen < revision => p \in raced')
  BY <1>4
<1>16. SyncedAreConnected'
  BY <1>3, <1>4, <1>8, <1>9, <1>10, <1>15, NodeAssumption DEF SyncedAreConnected
<1>17. NoneOwed /\ h.seen = revision /\ p \in alive \ raced /\ h.leader # p
         => Told(p, h.rank, h.leader)
  BY <1>1, <1>2, <1>3 DEF FinalsAreRight
<1>18. ManagersAreRight'
  <2>1. SUFFICES ASSUME NoneOwed', NEW m \in (alive \ raced)'
                 PROVE  mgr'[m].rev = revision' /\ (Told(m, pos[m], mgr[m].leader))'
    BY DEF ManagersAreRight
  <2>2. NoneOwed /\ m \in alive \ raced /\ m \in Node
    BY <1>3, <1>4, <1>15, <2>1 DEF NoneOwed
  <2>3. mgr[m].rev = revision /\ pos[m] = rank[m] /\ mgr[m].leader = ParentIn(rank, m)
    BY <2>2 DEF ManagersAreRight, Told
  <2>4. CASE mgr'[m] = mgr[m]
    BY <1>4, <2>3, <2>4 DEF Told
  <2>5. CASE mgr'[m] # mgr[m]
    <3>1. /\ m = p /\ mgr' # mgr /\ mgr'[m].leader = h.leader /\ h.leader # p
          /\ mgr'[m].rev = mgr[m].rev
      BY <1>8, <2>2, <2>5
    <3>2. h.seen = revision
      BY <1>3, <1>15, <2>1, <3>1
    <3>3. Told(p, h.rank, h.leader)
      BY <1>17, <2>2, <3>1, <3>2
    <3>. QED
      BY <1>4, <2>3, <3>1, <3>3 DEF Told
  <2>. QED BY <2>4, <2>5
<1>19. AcksAreRight'
  BY <1>3, <1>4, <1>6, <1>7, <1>15, <1>17 DEF AcksAreRight, NoneOwed, Told
<1>20. FinalsAreRight' /\ AppliesAreRight'
  BY <1>3, <1>4, <1>9, <1>10, <1>15 DEF FinalsAreRight, AppliesAreRight, NoneOwed, Told
<1>. QED BY <1>11, <1>13, <1>14, <1>16, <1>18, <1>19, <1>20

(* An ack of the latest tree says what that tree says; an older one is not *)
(* applied, for a node's revision never goes back.                         *)
LEMMA AckReadKeeps ==
  ASSUME JoinInv, NEW n \in Node, AckRead(n)
  PROVE  JoinInv'
<1>. USE DEF JoinInv
<1>1. PICK f \in frames :
        /\ f.kind = "ack" /\ f.to = n /\ n \in alive /\ frames' = frames \ {f}
        /\ handler' = IF f.rev < mgr[n].rev THEN handler
                      ELSE [handler EXCEPT ![n] =
                        [Idle EXCEPT !.pc = "apply", !.leader = f.leader, !.rank = f.rank,
                                       !.rev = f.rev, !.seen = revision]]
  BY DEF AckRead
<1>2. UNCHANGED <<alive, revision, rank, pos, mgr, scan, hellos, owed, raced>>
  BY DEF AckRead
<1>3. /\ f \in JoinFrame /\ f.rev <= revision /\ f.leader \in Node \ {n}
      /\ f.rev \in Nat /\ mgr[n].rev \in Nat /\ revision \in Revision /\ revision \in Nat
      /\ alive \subseteq Node
  BY <1>1, JoinTypeFacts
  DEF JoinsAreNotAhead, JoinsAreOfNodes, JoinFrame, JoinManager, Revision
<1>4. CASE f.rev < mgr[n].rev
  <2>1. UNCHANGED handler
    BY <1>1, <1>4
  <2>2. (JoinTypeOK)'
    BY <1>1, <1>2, <2>1 DEF JoinTypeOK, SomeNode
  <2>. QED
    BY <1>1, <1>2, <2>1, <2>2, HellosKeep
<1>5. CASE ~(f.rev < mgr[n].rev)
  <2>1. PICK h : h = [Idle EXCEPT !.pc = "apply", !.leader = f.leader, !.rank = f.rank,
                                    !.rev = f.rev, !.seen = revision]
    OBVIOUS
  <2>2. /\ h \in JoinHandler /\ h.pc = "apply" /\ h.leader = f.leader /\ h.rank = f.rank
        /\ h.rev = f.rev /\ h.seen = revision
    BY <1>3, <2>1 DEF Idle, JoinHandler, JoinFrame, SomeNode
  <2>3. handler' = [handler EXCEPT ![n] = h]
    BY <1>1, <1>5, <2>1
  <2>4. handler'[n] = h /\ \A m \in Node \ {n} : handler'[m] = handler[m]
    BY <2>3 DEF JoinTypeOK
  <2>5. (JoinTypeOK)'
    <3>1. handler' \in [Node -> JoinHandler]
      BY <2>2, <2>3, JoinTypeFacts
    <3>. QED
      BY <1>1, <1>2, <3>1 DEF JoinTypeOK, JoinHandler, SomeNode
  <2>6. revision > 0
    BY <1>1, <1>3 DEF BeforeTheFirst
  <2>7. JoinsAreOfNodes' /\ JoinKillsAreOwed' /\ BeforeTheFirst'
    BY <1>1, <1>2, <1>3, <2>2, <2>4, <2>6 DEF JoinsAreOfNodes, JoinKillsAreOwed, BeforeTheFirst
  <2>8. JoinsAreNotAhead'
    BY <1>1, <1>2, <1>3, <2>2, <2>4 DEF JoinsAreNotAhead
  <2>9. SyncedAreConnected' /\ ManagersAreRight' /\ FinalsAreRight' /\ AcksAreRight'
    BY <1>1, <1>2, <1>3, <2>2, <2>4
    DEF SyncedAreConnected, ManagersAreRight, FinalsAreRight, AcksAreRight, NoneOwed, Told
  <2>10. NoneOwed /\ n \notin raced => f.rev = revision /\ Told(n, f.rank, f.leader)
    <3>1. NoneOwed /\ n \notin raced => mgr[n].rev = revision
      BY <1>1 DEF ManagersAreRight
    <3>2. NoneOwed /\ n \notin raced => f.rev = revision
      BY <1>3, <1>5, <3>1
    <3>. QED
      BY <1>1, <3>2 DEF AcksAreRight
  <2>11. AppliesAreRight'
    BY <1>2, <1>3, <2>2, <2>4, <2>10 DEF AppliesAreRight, NoneOwed, Told
  <2>. QED BY <2>5, <2>7, <2>8, <2>9, <2>11
<1>. QED BY <1>4, <1>5

LEMMA AckApplyKeeps ==
  ASSUME JoinInv, NEW n \in Node, AckApply(n)
  PROVE  JoinInv'
<1>. USE DEF JoinInv
<1>1. PICK h : h = handler[n]
  OBVIOUS
<1>2. PICK v : v = IF h.rev < mgr[n].rev THEN mgr[n].rev ELSE h.rev
  OBVIOUS
<1>3. /\ h.pc = "apply" /\ h.leader \in Node \ {n} /\ h \in JoinHandler
      /\ h.rev <= revision /\ h.seen <= revision /\ h.rev \in Nat /\ h.seen \in Nat
      /\ mgr[n].rev <= revision /\ mgr[n].rev \in Nat /\ v \in Revision /\ v <= revision
      /\ revision \in Nat /\ alive \subseteq Node
  <2>1. h.pc = "apply"
    BY <1>1 DEF AckApply
  <2>2. h.rev \in Revision /\ mgr[n].rev \in Revision /\ h \in JoinHandler
    BY <1>1, JoinTypeFacts DEF JoinHandler, JoinManager
  <2>3. v \in {h.rev, mgr[n].rev}
    BY <1>2
  <2>. QED
    BY <1>1, <2>1, <2>2, <2>3, JoinTypeFacts
    DEF JoinsAreOfNodes, JoinsAreNotAhead, JoinHandler, Revision
<1>4. /\ UNCHANGED <<alive, revision, rank, frames, scan, hellos, owed>>
      /\ pos' = [pos EXCEPT ![n] = h.rank]
      /\ mgr' = [mgr EXCEPT ![n] = [state |-> "connected", leader |-> h.leader, rev |-> v]]
      /\ raced' = IF h.seen < revision THEN raced \cup {n} ELSE raced
      /\ handler' = [handler EXCEPT ![n] = Idle]
  BY <1>1, <1>2, <1>3 DEF AckApply, WriteNode
<1>5. /\ mgr'[n].state = "connected" /\ mgr'[n].leader = h.leader /\ mgr'[n].rev = v
      /\ pos'[n] = h.rank /\ handler'[n] = Idle
      /\ \A m \in Node \ {n} : mgr'[m] = mgr[m] /\ pos'[m] = pos[m] /\ handler'[m] = handler[m]
  BY <1>4 DEF JoinTypeOK
<1>6. Idle \in JoinHandler /\ Idle.pc = "idle" /\ Idle.seen = 0 /\ Idle.rev = 0
  BY IdleFacts
<1>7. (JoinTypeOK)'
  <2>1. handler' \in [Node -> JoinHandler]
    BY <1>4, <1>6, JoinTypeFacts
  <2>2. mgr' \in [Node -> JoinManager]
    BY <1>3, <1>4, JoinTypeFacts DEF JoinManager, SomeNode
  <2>3. pos' \in [Node -> Rank] /\ raced' \subseteq Node
    BY <1>3, <1>4 DEF JoinTypeOK, JoinHandler
  <2>. QED
    BY <1>4, <2>1, <2>2, <2>3 DEF JoinTypeOK, JoinManager, JoinHandler, SomeNode
<1>8. revision > 0
  BY <1>1, <1>3 DEF BeforeTheFirst
<1>9. JoinsAreOfNodes' /\ JoinKillsAreOwed' /\ BeforeTheFirst'
  BY <1>4, <1>5, <1>6, <1>8 DEF JoinsAreOfNodes, JoinKillsAreOwed, BeforeTheFirst
<1>10. JoinsAreNotAhead'
  BY <1>3, <1>4, <1>5, <1>6 DEF JoinsAreNotAhead
<1>11. raced \subseteq raced' /\ (h.seen < revision => n \in raced')
  BY <1>4
<1>12. SyncedAreConnected'
  BY <1>3, <1>4, <1>5, <1>6, <1>11, NodeAssumption DEF SyncedAreConnected
<1>13. NoneOwed /\ n \in alive \ raced' => h.rev = revision /\ Told(n, h.rank, h.leader)
  BY <1>1, <1>3, <1>11 DEF AppliesAreRight
<1>14. NoneOwed /\ n \in alive \ raced' => v = revision
  BY <1>2, <1>3, <1>13
<1>15. ManagersAreRight'
  BY <1>3, <1>4, <1>5, <1>11, <1>13, <1>14 DEF ManagersAreRight, NoneOwed, Told
<1>16. AcksAreRight' /\ FinalsAreRight' /\ AppliesAreRight'
  BY <1>3, <1>4, <1>5, <1>6, <1>11 DEF AcksAreRight, FinalsAreRight, AppliesAreRight, NoneOwed, Told
<1>. QED BY <1>7, <1>9, <1>10, <1>12, <1>15, <1>16

(* A kill owes a cascade, and until that has run nothing is claimed.       *)
LEMMA JoinKillKeeps ==
  ASSUME JoinInv, NEW n \in Node, Kill(n)
  PROVE  JoinInv'
<1>. USE DEF JoinInv
<1>1. /\ n \in alive /\ alive' = alive \ {n} /\ owed' = owed + 1
      /\ UNCHANGED <<revision, rank, pos, mgr, frames, handler, scan, hellos, raced>>
      /\ Cardinality(Node \ alive) < MaxKills
  BY DEF Kill
<1>2. /\ Cardinality(Node \ alive') = Cardinality(Node \ alive) + 1
      /\ Cardinality(Node \ alive) \in Nat
  <2>1. Node \ alive' = (Node \ alive) \cup {n} /\ n \notin Node \ alive
    BY <1>1
  <2>2. IsFiniteSet(Node \ alive)
    BY NodeAssumption, FS_Difference
  <2>. QED
    BY <2>1, <2>2, FS_AddElement, FS_CardinalityType
<1>3. owed \in Nat /\ owed <= Cardinality(Node \ alive) /\ MaxKills \in Nat
  BY NodeAssumption, JoinBoundAssumption, FS_CardinalityType
  DEF JoinTypeOK, JoinKillsAreOwed
<1>4. (JoinTypeOK)'
  <2>1. owed' \in 0 .. MaxKills
    BY <1>1, <1>2, <1>3
  <2>. QED
    BY <1>1, <2>1 DEF JoinTypeOK, SomeNode
<1>5. ~NoneOwed'
  BY <1>1, <1>3 DEF NoneOwed
<1>6. JoinKillsAreOwed'
  BY <1>1, <1>2, <1>3 DEF JoinKillsAreOwed
<1>7. JoinsAreOfNodes' /\ JoinsAreNotAhead' /\ SyncedAreConnected'
  BY <1>1 DEF JoinsAreOfNodes, JoinsAreNotAhead, SyncedAreConnected
<1>8. BeforeTheFirst'
  BY <1>1 DEF BeforeTheFirst, JoinTypeOK
<1>9. ManagersAreRight' /\ FinalsAreRight' /\ AcksAreRight' /\ AppliesAreRight'
  BY <1>5 DEF ManagersAreRight, FinalsAreRight, AcksAreRight, AppliesAreRight
<1>. QED BY <1>4, <1>6, <1>7, <1>8, <1>9

LEMMA JoinInitEstablishes ==
  ASSUME JoinInit
  PROVE  JoinInv
<1>1. Idle \in JoinHandler /\ Idle.pc = "idle" /\ Idle.seen = 0 /\ Idle.rev = 0
  BY IdleFacts
<1>2. /\ \A n \in Node : /\ mgr[n].state = "solo" /\ mgr[n].leader = NoNode /\ mgr[n].rev = 0
                         /\ rank[n] = 0 /\ pos[n] = 0 /\ handler[n] = Idle
      /\ alive = Node /\ revision = 0 /\ frames = {} /\ scan.node = NoNode /\ scan.seen = 0
      /\ owed = 0 /\ raced = {} /\ hellos = 0
  BY DEF JoinInit
<1>3. JoinTypeOK
  <2>1. mgr \in [Node -> JoinManager] /\ handler \in [Node -> JoinHandler]
    BY <1>1, ZeroIsSmall DEF JoinInit, JoinManager, SomeNode
  <2>2. rank \in [Node -> Rank] /\ pos \in [Node -> Rank]
    BY ZeroIsSmall DEF JoinInit
  <2>3. scan \in [node : SomeNode, seen : Revision]
    BY ZeroIsSmall DEF JoinInit, SomeNode
  <2>4. 0 \in 0 .. MaxHellos /\ 0 \in 0 .. MaxKills
    BY NodeAssumption, FS_CardinalityType, JoinBoundAssumption
  <2>. QED
    BY <1>2, <2>1, <2>2, <2>3, <2>4, JoinTypeFacts, ZeroIsSmall
<1>4. JoinKillsAreOwed
  BY <1>2, FS_EmptySet DEF JoinKillsAreOwed
<1>5. JoinsAreOfNodes /\ JoinsAreNotAhead /\ BeforeTheFirst /\ SyncedAreConnected
  BY <1>1, <1>2 DEF JoinsAreOfNodes, JoinsAreNotAhead, BeforeTheFirst, SyncedAreConnected
<1>6. ManagersAreRight /\ FinalsAreRight /\ AcksAreRight /\ AppliesAreRight
  BY <1>2 DEF ManagersAreRight, FinalsAreRight, AcksAreRight, AppliesAreRight, NoneOwed
<1>. QED BY <1>3, <1>4, <1>5, <1>6 DEF JoinInv

LEMMA JoinNextKeeps ==
  ASSUME JoinInv, [JoinNext]_joinVars
  PROVE  JoinInv'
<1>1. ASSUME NEW n \in Node, Step(n)
      PROVE  JoinInv'
  BY <1>1, JoinPlaceKeeps, FinalReadKeeps, FinalSendKeeps, AckApplyKeeps, JoinSendKeeps DEF Step
<1>2. ASSUME NEW n \in Node,
             DetectRead(n) \/ JoinRead(n) \/ TakeHello(n) \/ AckRead(n) \/ Kill(n)
      PROVE  JoinInv'
  BY <1>2, DetectReadKeeps, JoinReadKeeps, TakeHelloKeeps, AckReadKeeps, JoinKillKeeps
<1>3. CASE DetectWrite \/ KillCascade
  BY <1>3, DetectWriteKeeps, KillCascadeKeeps
<1>4. CASE UNCHANGED joinVars
  <2>1. /\ UNCHANGED <<alive, revision, rank, pos, mgr, scan, owed, raced>>
        /\ UNCHANGED <<frames, handler, hellos>>
    BY <1>4 DEF joinVars
  <2>2. (JoinTypeOK)'
    BY <2>1 DEF JoinInv, JoinTypeOK, SomeNode
  <2>. QED
    BY <2>1, <2>2, HellosKeep
<1>. QED BY <1>1, <1>2, <1>3, <1>4 DEF JoinNext

(* The types of Join: handlers are in places they can be in, and no count  *)
(* passes its bound.                                                       *)
THEOREM JoinTypes == JoinSpec => []JoinTypeOK
<1>1. JoinInit => JoinInv
  BY JoinInitEstablishes
<1>2. JoinInv /\ [JoinNext]_joinVars => JoinInv'
  BY JoinNextKeeps
<1>3. JoinInv => JoinTypeOK
  BY DEF JoinInv
<1>. QED
  BY <1>1, <1>2, <1>3, PTL DEF JoinSpec

(* A node whose HELLO was lost is one that udpLoop probes for again,       *)
(* unless it set itself joining after a cascade had connected it           *)
(* (manager.go:1114-1118).                                                 *)
THEOREM JoinsAreRetried == JoinSpec => []JoinsCanBeRetried
<1>1. JoinInit => JoinInv
  BY JoinInitEstablishes
<1>2. JoinInv /\ [JoinNext]_joinVars => JoinInv'
  BY JoinNextKeeps
<1>3. ASSUME JoinInv
      PROVE  JoinsCanBeRetried
  <2>1. SUFFICES ASSUME NEW n \in Node, Joining(n), n \notin raced
                 PROVE  NeedsDiscovery(n)
    BY DEF JoinsCanBeRetried
  <2>2. n \in alive /\ mgr[n].state = "joining"
    BY <2>1 DEF Joining
  <2>3. revision = 0
    BY <1>3, <2>1, <2>2 DEF JoinInv, JoinTypeOK, Revision, SyncedAreConnected
  <2>4. pos[n] = 0 /\ mgr[n].leader = NoNode
    BY <1>3, <2>3 DEF JoinInv, BeforeTheFirst
  <2>. QED
    BY <2>4 DEF NeedsDiscovery, IsRoot
<1>. QED
  BY <1>1, <1>2, <1>3, PTL DEF JoinSpec

(* Whatever joins, acks and reconnects are about, a node is led away from  *)
(* the place that the latest tree gives it only by a handler that writes   *)
(* what it had read before that tree (manager.go:1266-1293, 1640-1672).    *)
THEOREM OnlyRacesMislead == JoinSpec => []OnlyRacedWritesMislead
<1>1. JoinInit => JoinInv
  BY JoinInitEstablishes
<1>2. JoinInv /\ [JoinNext]_joinVars => JoinInv'
  BY JoinNextKeeps
<1>3. ASSUME JoinInv
      PROVE  OnlyRacedWritesMislead
  <2>1. SUFFICES ASSUME owed = 0, NEW n \in alive \ raced, rank[n] # 0
                 PROVE  pos[n] = rank[n] /\ mgr[n].leader = Parent(n) /\ mgr[n].rev = revision
    BY DEF OnlyRacedWritesMislead
  <2>2. n \in Node /\ revision > 0
    BY <1>3, <2>1 DEF JoinInv, JoinTypeOK, Revision, BeforeTheFirst
  <2>3. Parent(n) = ParentIn(rank, n)
    BY <1>3, <2>2, JoinParents DEF JoinInv
  <2>. QED
    BY <1>3, <2>1, <2>2, <2>3 DEF JoinInv, ManagersAreRight, NoneOwed, Told
<1>. QED
  BY <1>1, <1>2, <1>3, PTL DEF JoinSpec
=============================================================================

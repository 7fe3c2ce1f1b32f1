------------------------------- MODULE Rotation -------------------------------
(***************************************************************************)
(* How one leader of a level is replaced (dashboard/manager.go,            *)
(* rotateLevelLeaderWithChoreography and the handlers of its frames).      *)
(*                                                                         *)
(* rotationLoop runs one rotation at a time: PREPARE to all nodes, a       *)
(* quorum of ACKs or a timeout, COMMIT, a quorum or a timeout, the switch  *)
(* under placementMu, APPLIED.  The frames are delayed, reordered and      *)
(* lost: a lost one is one that is never taken.  A node's handler reads    *)
(* its manager and then writes it, under no lock; nodes are killed and     *)
(* cascades run at every point.                                            *)
(*                                                                         *)
(* A cascade, or the switch with its rebuild and sync, is one step here    *)
(* and leaves every node it finds settled: Attachment and Hierarchy have   *)
(* what goes on inside.  When a tick proposes, and whom, is left open.     *)
(***************************************************************************)
EXTENDS Integers, FiniteSets

CONSTANTS
  Node,         \* node ids
  NoNode,
  Maps,         \* the levels a cascade may give the nodes
  PreparePct, CommitPct, \* rotation_*_quorum_pct, in percent
  MaxProposals, \* bound on the proposals, for TLC
  MaxEvents,    \* bound on proposals, kills and cascades of others together, for TLC
  MaxLate       \* bound on the frames in flight when a rotation starts, for TLC

ASSUME NodeAssumption == NoNode \notin Node /\ IsFiniteSet(Node)
ASSUME MapAssumption == Maps \subseteq [Node -> Nat]
\* validateStartConfig replaces 0 and less by 0.67, and refuses more than 1.
ASSUME PctAssumption == PreparePct \in 1 .. 100 /\ CommitPct \in 1 .. 100
ASSUME BoundAssumption == MaxProposals \in Nat /\ MaxEvents \in Nat /\ MaxLate \in Nat

VARIABLES
  alive,     \* the mesh's nodes
  level,     \* node.Level
  revision,  \* hierarchy.State.revision
  mgr,       \* per node its NodeManager: topologyRev, and is it Transitioning?
  coord,     \* the rotation under way, and its open rotationPrepareProposal
  frames,    \* WS frames in flight
  handler,   \* per node the frame its goroutine has read the manager for
  ended,     \* history: per proposal how it ended
  asked,     \* history: per proposal whose vote each round counts
  yes,       \* history: per proposal and round the nodes that sent an accept
  cause      \* history: what last made a node Transitioning, and was that over by then?

vars == <<alive, level, revision, mgr, coord, frames, handler, ended, asked, yes, cause>>

Proposal == 1 .. MaxProposals
Round == {"prepare", "commit"}
AckOf == [prepare |-> "prepareAck", commit |-> "commitAck"]

(* calcPrepareQuorum.                                                      *)
QuorumOf(pct, expected) ==
  IF expected = 0 THEN 0
  ELSE LET q == (expected * pct + 99) \div 100
       IN  IF q > expected THEN expected ELSE q

Quorum(r, expected) == QuorumOf(IF r = "prepare" THEN PreparePct ELSE CommitPct, expected)

(* open is the round whose proposal acks are counted for.                  *)
NoProposal == [id |-> 0, level |-> 0, old |-> NoNode, new |-> NoNode, base |-> 0]
NoRotation ==
  [pc |-> "idle", proposal |-> NoProposal, recipients |-> {}, expected |-> {},
   accepted |-> {}, responded |-> {}]

Nobody == [r \in Round |-> {}]
NoFrame == [kind |-> "none", proposal |-> NoProposal, from |-> NoNode, to |-> NoNode,
            rev |-> 0, accept |-> FALSE]

NoCause == [id |-> 0, late |-> FALSE]

Init ==
  /\ alive = Node /\ revision = 1
  /\ level \in Maps
  /\ mgr = [n \in Node |-> [rev |-> 1, transitioning |-> FALSE]]
  /\ coord = NoRotation /\ frames = {}
  /\ handler = [n \in Node |-> NoFrame]
  /\ ended = [p \in Proposal |-> "no"]
  /\ asked = [p \in Proposal |-> Nobody]
  /\ yes = [p \in Proposal |-> Nobody]
  /\ cause = [n \in Node |-> NoCause]
-----------------------------------------------------------------------------
(* sendWSControl, for frames about a proposal: both ends must be known.    *)
Frame(kind, p, from, to, rev, accept) ==
  [kind |-> kind, proposal |-> p, from |-> from, to |-> to, rev |-> rev, accept |-> accept]

Sent(S) == frames \cup {f \in S : f.from \in alive /\ f.to \in alive}

Broadcast(kind, p, from, recipients, rev) ==
  Sent({Frame(kind, p, from, n, rev, TRUE) : n \in recipients \ {from}})

(* Mutated form of SetPosition: it does not compare.                       *)
SetPositionAnyway(m, rev) == [m EXCEPT !.rev = rev]

(* SetHierarchyPosition, on the revision.                                  *)
SetPosition(m, rev) == IF rev < m.rev THEN m ELSE [m EXCEPT !.rev = rev]

(* What a sync at revision rev leaves of every manager.                    *)
Synced(rev) ==
  [n \in Node |-> IF n \in alive
                  THEN [SetPosition(mgr[n], rev) EXCEPT !.transitioning = FALSE]
                  ELSE mgr[n]]

IsStale(f) == f.rev < mgr[f.to].rev

(* PREPARE and COMMIT concern the level's nodes and the two leaders.       *)
Concerns(p, n) == level[n] = p.level \/ n \in {p.old, p.new}
-----------------------------------------------------------------------------
Switched == {p \in Proposal : ended[p] = "switched"}
Finished == {p \in Proposal : ended[p] # "no"}
Events ==
  Cardinality(Node \ alive) + (revision - 1 - Cardinality(Switched))
    + Cardinality(Finished) + (IF coord.pc \in Round \cup {"tick"} THEN 1 ELSE 0)

(* A cascade of somebody else.                                             *)
Cascade ==
  /\ Events < MaxEvents
  /\ level' \in Maps /\ revision' = revision + 1
  /\ mgr' = Synced(revision + 1)
  /\ cause' = [n \in Node |-> NoCause]
  /\ UNCHANGED <<alive, coord, frames, handler, ended, asked, yes>>

(* RemoveNode; its cascade is any later one.                               *)
Kill(n) ==
  /\ n \in alive /\ Events < MaxEvents
  /\ alive' = alive \ {n}
  /\ handler' = [handler EXCEPT ![n] = NoFrame]
  /\ UNCHANGED <<level, revision, mgr, coord, frames, ended, asked, yes, cause>>
-----------------------------------------------------------------------------
(* A tick's snapshot of the hierarchy gives the level, its leader and the  *)
(* best of the others.                                                     *)
Tick ==
  /\ coord.pc = "idle" /\ Events < MaxEvents /\ Cardinality(frames) <= MaxLate
  /\ \E p \in Proposal : ended[p] = "no"
  /\ \E old, new \in Node :
       /\ old # new /\ level[old] = level[new]
       /\ coord' = [coord EXCEPT !.pc = "tick", !.proposal =
            [NoProposal EXCEPT !.level = level[old], !.old = old, !.new = new]]
  /\ UNCHANGED <<alive, level, revision, mgr, frames, handler, ended, asked, yes, cause>>

(* A proposal has an id of its own.                                        *)
NextId == CHOOSE p \in Proposal : ended[p] = "no"

(* The revision the proposal is based on is read now, not with the level.  *)
Prepare ==
  LET p == [coord.proposal EXCEPT !.id = NextId, !.base = revision]
      expected == alive \ {p.old}
  IN
  /\ coord.pc = "tick" /\ {p.old, p.new} \subseteq alive
  /\ coord' = [coord EXCEPT !.pc = "prepare", !.proposal = p, !.recipients = alive,
                            !.expected = expected]
  /\ frames' = Broadcast("prepare", p, p.old, alive, p.base)
  /\ asked' = [asked EXCEPT ![p.id] =
                 [r \in Round |-> IF r = "prepare" THEN expected ELSE alive \ {p.new}]]
  /\ UNCHANGED <<alive, level, revision, mgr, handler, ended, yes, cause>>

LeaderGone ==
  /\ coord.pc = "tick" /\ ~({coord.proposal.old, coord.proposal.new} \subseteq alive)
  /\ coord' = NoRotation
  /\ UNCHANGED <<alive, level, revision, mgr, frames, handler, ended, asked, yes, cause>>

(* addAck, for a proposal that is open.                                    *)
Counts(f) ==
  /\ coord.pc \in Round /\ f.kind = AckOf[coord.pc] /\ f.proposal.id = coord.proposal.id
  /\ f.from \in coord.expected \ coord.responded

Counted(f) ==
  [coord EXCEPT !.responded = @ \cup {f.from},
                !.accepted = IF f.accept THEN @ \cup {f.from} ELSE @]

(* Mutated form of HasQuorum: it counts the answers.                       *)
HasQuorumOfAnswers(r) ==
  LET q == Quorum(r, Cardinality(coord.expected))
  IN  Cardinality(coord.responded) >= IF q = 0 THEN 1 ELSE q

HasQuorum(r) ==
  LET q == Quorum(r, Cardinality(coord.expected))
  IN  Cardinality(coord.accepted) >= IF q = 0 THEN 1 ELSE q

(* An empty round is skipped; otherwise it ends with its quorum.           *)
Passed(r) == coord.pc = r /\ (coord.expected = {} \/ HasQuorum(r))

(* What rotateLevelLeader still checks.                                    *)
Applies(p) == {p.old, p.new} \subseteq alive /\ level[p.old] = p.level /\ level[p.new] = p.level
-----------------------------------------------------------------------------
(* Mutated forms of the definitions below, as a slip in the code could     *)
(* have them.  They show that each property can fail.                      *)

(* The commit round goes on with the answers of the prepare round.         *)
CommitKeepsAnswers ==
  LET p == coord.proposal
  IN
  /\ Passed("prepare")
  /\ coord' = [coord EXCEPT !.pc = "commit", !.expected = coord.recipients \ {p.new}]
  /\ frames' = Broadcast("commit", p, p.new, coord.recipients, p.base + 1)
  /\ UNCHANGED <<alive, level, revision, mgr, handler, ended, asked, yes, cause>>

(* The switch moves the managers' revision and leaves their state.         *)
SwitchUnsynced ==
  LET p == coord.proposal
  IN
  /\ Passed("commit") /\ Applies(p)
  /\ revision' = revision + 1
  /\ mgr' = [n \in Node |-> IF n \in alive THEN SetPosition(mgr[n], revision + 1) ELSE mgr[n]]
  /\ ended' = [ended EXCEPT ![p.id] = "switched"]
  /\ coord' = [coord EXCEPT !.pc = "announce"]
  /\ UNCHANGED <<alive, level, frames, handler, asked, yes, cause>>
-----------------------------------------------------------------------------
(* The target revision is one more than the base, whatever it is by now.   *)
Commit ==
  LET p == coord.proposal
  IN
  /\ Passed("prepare")
  /\ coord' = [coord EXCEPT !.pc = "commit", !.expected = coord.recipients \ {p.new},
                            !.accepted = {}, !.responded = {}]
  /\ frames' = Broadcast("commit", p, p.new, coord.recipients, p.base + 1)
  /\ UNCHANGED <<alive, level, revision, mgr, handler, ended, asked, yes, cause>>

End(how) == ended' = [ended EXCEPT ![coord.proposal.id] = how]

(* The timeout, or the last answer, and no quorum.                         *)
Abort ==
  /\ coord.pc \in Round /\ ~Passed(coord.pc)
  /\ End("abandoned") /\ coord' = NoRotation
  /\ UNCHANGED <<alive, level, revision, mgr, frames, handler, asked, yes, cause>>

(* rotateLevelLeader.                                                      *)
Switch ==
  LET p == coord.proposal
  IN
  /\ Passed("commit") /\ Applies(p)
  /\ revision' = revision + 1 /\ mgr' = Synced(revision + 1)
  /\ End("switched") /\ coord' = [coord EXCEPT !.pc = "announce"]
  /\ cause' = [n \in Node |-> NoCause]
  /\ UNCHANGED <<alive, level, frames, handler, asked, yes>>

SwitchFails ==
  /\ Passed("commit") /\ ~Applies(coord.proposal)
  /\ End("abandoned") /\ coord' = NoRotation
  /\ UNCHANGED <<alive, level, revision, mgr, frames, handler, asked, yes, cause>>

(* The final revision is read again, after placementMu was let go.         *)
Announce ==
  LET p == coord.proposal
  IN
  /\ coord.pc = "announce"
  /\ frames' = Broadcast("applied", p, p.new, coord.recipients, revision)
  /\ coord' = NoRotation
  /\ UNCHANGED <<alive, level, revision, mgr, handler, ended, asked, yes, cause>>
-----------------------------------------------------------------------------
Ack(f, accept) == Frame(AckOf[f.kind], f.proposal, f.to, f.from, 0, accept)

(* A node takes a PREPARE, a COMMIT or an APPLIED and reads its manager.   *)
Receive(n) ==
  \E f \in frames :
    /\ f.to = n /\ f.kind \in Round \cup {"applied"}
    /\ n \in alive /\ handler[n] = NoFrame
    /\ \/ /\ IsStale(f)
          /\ frames' = (IF f.kind = "applied" THEN frames ELSE Sent({Ack(f, FALSE)})) \ {f}
          /\ UNCHANGED handler
       \/ /\ ~IsStale(f)
          /\ handler' = [handler EXCEPT ![n] = f]
          /\ frames' = frames \ {f}
    /\ UNCHANGED <<alive, level, revision, mgr, coord, ended, asked, yes, cause>>

(* It writes its manager and accepts.                                      *)
Accept(n) ==
  LET f == handler[n]
  IN
  /\ f.kind \in Round
  /\ mgr' = [mgr EXCEPT ![n].transitioning = @ \/ Concerns(f.proposal, n)]
  /\ frames' = Sent({Ack(f, TRUE)})
  /\ yes' = [yes EXCEPT ![f.proposal.id][f.kind] = @ \cup {n}]
  /\ cause' = IF Concerns(f.proposal, n)
              THEN [cause EXCEPT ![n] = [id |-> f.proposal.id, late |-> ended[f.proposal.id] # "no"]]
              ELSE cause
  /\ handler' = [handler EXCEPT ![n] = NoFrame]
  /\ UNCHANGED <<alive, level, revision, coord, ended, asked>>

Applied(n) ==
  LET f == handler[n]
  IN
  /\ f.kind = "applied"
  /\ mgr' = [mgr EXCEPT ![n] = [SetPosition(@, f.rev) EXCEPT !.transitioning = FALSE]]
  /\ handler' = [handler EXCEPT ![n] = NoFrame]
  /\ cause' = [cause EXCEPT ![n] = NoCause]
  /\ UNCHANGED <<alive, level, revision, coord, frames, ended, asked, yes>>

(* The leader that asked takes an answer.                                  *)
TakeAck(n) ==
  \E f \in frames :
    /\ f.to = n /\ f.kind \in {"prepareAck", "commitAck"}
    /\ n \in alive /\ handler[n] = NoFrame
    /\ frames' = frames \ {f}
    /\ coord' = IF Counts(f) THEN Counted(f) ELSE coord
    /\ UNCHANGED <<alive, level, revision, mgr, handler, ended, asked, yes, cause>>
-----------------------------------------------------------------------------
Coordinator ==
  Tick \/ Prepare \/ LeaderGone \/ Commit \/ Abort \/ Switch \/ SwitchFails \/ Announce

Next ==
  \/ Coordinator
  \/ Cascade
  \/ \E n \in Node : Kill(n) \/ Receive(n) \/ Accept(n) \/ Applied(n) \/ TakeAck(n)

Spec == Init /\ [][Next]_vars
-----------------------------------------------------------------------------
Revision == Nat
ProposalType ==
  [id : 0 .. MaxProposals, level : Nat, old : Node \cup {NoNode}, new : Node \cup {NoNode},
   base : Revision]
FrameType ==
  [kind : {"none", "prepare", "prepareAck", "commit", "commitAck", "applied"},
   proposal : ProposalType, from : Node \cup {NoNode}, to : Node \cup {NoNode},
   rev : Revision, accept : BOOLEAN]

TypeOK ==
  /\ alive \subseteq Node /\ level \in [Node -> Nat] /\ revision \in Revision
  /\ mgr \in [Node -> [rev : Revision, transitioning : BOOLEAN]]
  /\ coord \in [pc : Round \cup {"idle", "tick", "announce"}, proposal : ProposalType,
                recipients : SUBSET Node, expected : SUBSET Node,
                accepted : SUBSET Node, responded : SUBSET Node]
  /\ coord.accepted \subseteq coord.responded /\ coord.responded \subseteq coord.expected
  /\ frames \subseteq FrameType /\ handler \in [Node -> FrameType]
  /\ ended \in [Proposal -> {"no", "switched", "abandoned"}]
  /\ asked \in [Proposal -> [Round -> SUBSET Node]]
  /\ yes \in [Proposal -> [Round -> SUBSET Node]]
  /\ cause \in [Node -> [id : 0 .. MaxProposals, late : BOOLEAN]]

(* No abort undoes what PREPARE and COMMIT did to a node, and a handler    *)
(* may write after the switch's sync or APPLIED has settled its node       *)
(* (manager.go:1400, 1459).  Nothing else leaves a node Transitioning: a   *)
(* node that accepted in time is settled once its rotation has switched.   *)
OnlyAbortsAndLateFramesStrand ==
  \A n \in alive :
    mgr[n].transitioning => cause[n].late \/ ended[cause[n].id] # "switched"

(* What a node knows of the revision never goes back, although APPLIED     *)
(* names one that was read after the mutex was let go, and is compared     *)
(* with a snapshot before it is written (manager.go:1508-1520;             *)
(* SPEC_LEADER_ROTATION_POLICY.md:127 "revision must remain monotonic").   *)
RevisionsNeverGoBack == [][\A n \in Node : mgr'[n].rev >= mgr[n].rev]_vars

(* How far a proposal has got.                                             *)
Stage(p) ==
  IF ended[p] # "no" THEN ended[p]
  ELSE IF coord.proposal.id = p THEN coord.pc
  ELSE "new"

Promise == INSTANCE LeaderSwitch WITH
  Voter <- Node, stage <- [p \in Proposal |-> Stage(p)], electorate <- asked, agreed <- yes

(* The rotation implements LeaderSwitch: no leader is switched without a   *)
(* quorum of both rounds, whatever is lost or late, and an abandoned       *)
(* proposal stays abandoned (manager.go:2076-2152;                         *)
(* SPEC_LEADER_ROTATION_POLICY.md:98 for the prepare quorum, :107 for      *)
(* both, and not :99-101, where the switch waits for no commit quorum).    *)
SwitchesAsPromised == Promise!Spec
=============================================================================

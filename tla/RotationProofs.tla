---------------------------- MODULE RotationProofs ----------------------------
(***************************************************************************)
(* That a rotation implements LeaderSwitch, and that only aborts and late  *)
(* frames leave nodes Transitioning, for any nodes, quorum percentages and *)
(* number of proposals.                                                    *)
(*                                                                         *)
(* The voters say yes before their answers travel, so an answer that is    *)
(* counted is a vote that was cast.  That every frame about is of a        *)
(* proposal that was opened keeps a late vote out of one that was not.     *)
(***************************************************************************)
EXTENDS Rotation, TLAPS, FiniteSetTheorems

Kinds == {"none", "prepare", "prepareAck", "commit", "commitAck", "applied"}

CoordType ==
  [pc : Round \cup {"idle", "tick", "announce"}, proposal : ProposalType,
   recipients : SUBSET Node, expected : SUBSET Node,
   accepted : SUBSET Node, responded : SUBSET Node]

LEMMA Constants ==
  /\ NoProposal \in ProposalType /\ NoRotation \in CoordType /\ NoFrame \in FrameType
  /\ AckOf["prepare"] = "prepareAck" /\ AckOf["commit"] = "commitAck"
<1>1. NoProposal \in ProposalType
  BY BoundAssumption DEF NoProposal, ProposalType, Revision
<1>2. NoRotation \in CoordType
  BY <1>1 DEF NoRotation, CoordType
<1>3. NoFrame \in FrameType
  BY <1>1 DEF NoFrame, FrameType, Revision
<1> QED
  BY <1>1, <1>2, <1>3 DEF AckOf

(* Frames, and what their fields are.                                      *)
LEMMA FrameHasType ==
  ASSUME NEW kind \in Kinds, NEW p \in ProposalType, NEW from \in Node \cup {NoNode},
         NEW to \in Node \cup {NoNode}, NEW rev \in Nat, NEW accept \in BOOLEAN
  PROVE  Frame(kind, p, from, to, rev, accept) \in FrameType
  BY DEF Frame, FrameType, Kinds, Revision

LEMMA FrameFields ==
  ASSUME NEW kind, NEW p, NEW from, NEW to, NEW rev, NEW accept
  PROVE  /\ Frame(kind, p, from, to, rev, accept).kind = kind
         /\ Frame(kind, p, from, to, rev, accept).proposal = p
         /\ Frame(kind, p, from, to, rev, accept).from = from
         /\ Frame(kind, p, from, to, rev, accept).accept = accept
  BY DEF Frame

LEMMA FrameParts ==
  ASSUME NEW f \in FrameType
  PROVE  /\ f.kind \in Kinds /\ f.proposal \in ProposalType /\ f.rev \in Nat
         /\ f.from \in Node \cup {NoNode} /\ f.to \in Node \cup {NoNode} /\ f.accept \in BOOLEAN
         /\ f.proposal.id \in 0 .. MaxProposals /\ f.proposal.base \in Nat
  BY DEF FrameType, ProposalType, Kinds, Revision

LEMMA BroadcastHasType ==
  ASSUME frames \subseteq FrameType, alive \subseteq Node,
         NEW kind \in Kinds, NEW p \in ProposalType, NEW from \in Node \cup {NoNode},
         NEW recipients \in SUBSET Node, NEW rev \in Nat
  PROVE  Broadcast(kind, p, from, recipients, rev) \subseteq FrameType
<1>1. \A n \in Node : Frame(kind, p, from, n, rev, TRUE) \in FrameType
  BY FrameHasType
<1> QED
  BY <1>1 DEF Broadcast, Sent

LEMMA AckHasType ==
  ASSUME NEW f \in FrameType, f.kind \in Round, NEW accept \in BOOLEAN
  PROVE  Ack(f, accept) \in FrameType
<1>1. AckOf[f.kind] \in Kinds
  BY Constants DEF Round, Kinds
<1> QED
  BY <1>1, FrameParts, FrameHasType DEF Ack

(* The manager's fields, written one at a time.                            *)
Manager == [rev : Nat, transitioning : BOOLEAN]

LEMMA ManagerWrites ==
  ASSUME NEW m \in Manager, NEW rev \in Nat
  PROVE  /\ SetPosition(m, rev) \in Manager
         /\ SetPosition(m, rev).rev >= m.rev
         /\ [SetPosition(m, rev) EXCEPT !.transitioning = FALSE] \in Manager
         /\ [SetPosition(m, rev) EXCEPT !.transitioning = FALSE].rev >= m.rev
<1>1. m.rev \in Nat
  BY DEF Manager
<1>2. SetPosition(m, rev) \in Manager
  BY Zenon DEF Manager, SetPosition
<1>3. SetPosition(m, rev).rev >= m.rev
  BY <1>1 DEF Manager, SetPosition
<1>4. [SetPosition(m, rev) EXCEPT !.transitioning = FALSE] \in Manager
  BY <1>2 DEF Manager
<1>5. [SetPosition(m, rev) EXCEPT !.transitioning = FALSE].rev = SetPosition(m, rev).rev
  BY <1>2 DEF Manager
<1> QED
  BY <1>2, <1>3, <1>4, <1>5

LEMMA SyncedHasType ==
  ASSUME mgr \in [Node -> Manager], NEW rev \in Nat
  PROVE  /\ Synced(rev) \in [Node -> Manager]
         /\ \A n \in Node : Synced(rev)[n].rev >= mgr[n].rev
         /\ \A n \in alive \cap Node : ~Synced(rev)[n].transitioning
<1>1. \A n \in Node : mgr[n] \in Manager /\ mgr[n].rev >= mgr[n].rev
  BY DEF Manager
<1>2. \A n \in alive \cap Node : ~Synced(rev)[n].transitioning
  <2>1. SUFFICES ASSUME NEW n \in alive \cap Node PROVE ~Synced(rev)[n].transitioning
    OBVIOUS
  <2>2. Synced(rev)[n] = [SetPosition(mgr[n], rev) EXCEPT !.transitioning = FALSE]
    BY DEF Synced
  <2>3. SetPosition(mgr[n], rev) \in Manager
    BY <1>1, ManagerWrites
  <2> QED
    BY <2>2, <2>3 DEF Manager
<1> QED
  BY <1>1, <1>2, ManagerWrites DEF Synced
-----------------------------------------------------------------------------
(* Types.  A tick has an id left to give to its proposal, and outside a    *)
(* rotation nothing is counted.                                            *)
OutsideRounds ==
  /\ coord.pc = "tick" => \E p \in Proposal : ended[p] = "no"
  /\ coord.pc \in {"idle", "tick"} =>
       coord.accepted = {} /\ coord.responded = {} /\ coord.proposal.id = 0

TypeInv == TypeOK /\ OutsideRounds

LEMMA TypesInit == Init => TypeInv
<1> SUFFICES ASSUME Init PROVE TypeInv
  OBVIOUS
<1>1. level \in [Node -> Nat]
  BY MapAssumption DEF Init
<1>2. mgr \in [Node -> [rev : Revision, transitioning : BOOLEAN]] /\ revision \in Revision
  BY DEF Init, Revision
<1>3. coord = NoRotation /\ coord \in CoordType /\ coord.pc = "idle"
      /\ coord.accepted = {} /\ coord.responded = {}
  BY Constants DEF Init, NoRotation
<1>4. frames \subseteq FrameType /\ handler \in [Node -> FrameType]
  BY Constants DEF Init
<1>5. /\ ended \in [Proposal -> {"no", "switched", "abandoned"}]
      /\ asked \in [Proposal -> [Round -> SUBSET Node]]
      /\ yes \in [Proposal -> [Round -> SUBSET Node]]
  BY DEF Init, Nobody
<1>6. cause \in [Node -> [id : 0 .. MaxProposals, late : BOOLEAN]]
  BY BoundAssumption DEF Init, NoCause
<1>7. TypeOK
  BY <1>1, <1>2, <1>3, <1>4, <1>5, <1>6 DEF Init, TypeOK, CoordType
<1>8. OutsideRounds
  BY <1>3 DEF OutsideRounds, NoRotation, NoProposal
<1> QED
  BY <1>7, <1>8 DEF TypeInv

VoteType == [Proposal -> [Round -> SUBSET Node]]

(* What each action makes of the round's bookkeeping.                      *)
CoordOK ==
  /\ coord \in CoordType
  /\ coord.accepted \subseteq coord.responded /\ coord.responded \subseteq coord.expected

LEMMA CoordInit == NoRotation \in CoordType /\ NoRotation.pc = "idle"
                  /\ NoRotation.accepted = {} /\ NoRotation.responded = {}
                  /\ NoRotation.proposal = NoProposal /\ NoProposal.id = 0
  BY Constants DEF NoRotation, NoProposal

LEMMA TypesStep == TypeInv /\ [Next]_vars => TypeInv'
<1> SUFFICES ASSUME TypeInv, [Next]_vars PROVE TypeInv'
  OBVIOUS
<1> USE DEF TypeInv
<1>0. /\ mgr \in [Node -> Manager] /\ revision \in Nat /\ revision + 1 \in Nat
      /\ CoordOK
  BY DEF TypeOK, Manager, Revision, CoordOK, CoordType
<1>cause. NoCause \in [id : 0 .. MaxProposals, late : BOOLEAN]
  BY BoundAssumption DEF NoCause
<1>maps. \A m \in Maps : m \in [Node -> Nat]
  BY MapAssumption
<1>1. CASE Cascade
  <2>1. mgr' \in [Node -> Manager]
    BY <1>0, <1>1, SyncedHasType DEF Cascade
  <2>2. cause' \in [Node -> [id : 0 .. MaxProposals, late : BOOLEAN]]
    BY <1>1, <1>cause DEF Cascade
  <2>3. level' \in [Node -> Nat] /\ revision' \in Nat
    BY <1>0, <1>1, <1>maps DEF Cascade
  <2>4. OutsideRounds'
    BY <1>1 DEF Cascade, OutsideRounds
  <2> QED
    BY <1>1, <2>1, <2>2, <2>3, <2>4 DEF Cascade, TypeOK, Manager, Revision
<1>2. ASSUME NEW n \in Node, Kill(n) PROVE TypeInv'
  <2>1. alive' \subseteq Node /\ handler' \in [Node -> FrameType]
    BY <1>2, Constants DEF Kill, TypeOK
  <2>2. OutsideRounds'
    BY <1>2 DEF Kill, OutsideRounds
  <2> QED
    BY <1>2, <2>1, <2>2 DEF Kill, TypeOK
<1>3. CASE Tick
  <2>1. PICK old, new \in Node :
          coord' = [coord EXCEPT !.pc = "tick", !.proposal =
                      [NoProposal EXCEPT !.level = level[old], !.old = old, !.new = new]]
    BY <1>3 DEF Tick
  <2>2. [NoProposal EXCEPT !.level = level[old], !.old = old, !.new = new] \in ProposalType
    BY Constants DEF TypeOK, ProposalType
  <2>3. CoordOK'
    BY <1>0, <2>1, <2>2 DEF CoordOK, CoordType
  <2>4. OutsideRounds'
    <3>1. coord'.proposal.id = 0
      BY <1>0, <2>1 DEF CoordOK, CoordType, NoProposal
    <3>2. coord'.accepted = coord.accepted /\ coord'.responded = coord.responded
      BY <1>0, <2>1 DEF CoordOK, CoordType
    <3> QED
      BY <1>3, <3>1, <3>2 DEF Tick, OutsideRounds
  <2> QED
    BY <1>3, <2>3, <2>4 DEF Tick, TypeOK, CoordOK, CoordType
<1>4. CASE Prepare
  <2> DEFINE p == [coord.proposal EXCEPT !.id = NextId, !.base = revision]
  <2>1. NextId \in Proposal
    BY <1>4 DEF Prepare, OutsideRounds, NextId
  <2>2. p \in ProposalType /\ p.id = NextId
    <3>1. coord.proposal \in ProposalType
      BY <1>0 DEF CoordOK, CoordType
    <3>2. NextId \in 0 .. MaxProposals /\ revision \in Revision
      BY <2>1, BoundAssumption DEF Proposal, TypeOK
    <3> QED
      BY <3>1, <3>2 DEF ProposalType
  <2>3. CoordOK'
    <3>1. coord' = [coord EXCEPT !.pc = "prepare", !.proposal = p, !.recipients = alive,
                                 !.expected = alive \ {p.old}]
      BY <1>4 DEF Prepare
    <3>2. coord.accepted = {} /\ coord.responded = {}
      BY <1>4 DEF Prepare, OutsideRounds
    <3>3. alive \in SUBSET Node
      BY DEF TypeOK
    <3> HIDE DEF p
    <3> QED
      BY <1>0, <2>2, <3>1, <3>2, <3>3 DEF CoordOK, CoordType, Round
  <2>4. frames' \subseteq FrameType
    <3>1. p.old \in Node \cup {NoNode} /\ p.base \in Nat
      BY <2>2 DEF ProposalType, Revision
    <3>2. frames' = Broadcast("prepare", p, p.old, alive, p.base)
      BY <1>4 DEF Prepare
    <3> HIDE DEF p
    <3> QED
      BY <2>2, <3>1, <3>2, BroadcastHasType DEF TypeOK, Kinds
  <2>5. asked' \in [Proposal -> [Round -> SUBSET Node]]
    BY <1>4 DEF Prepare, TypeOK
  <2>6. OutsideRounds'
    BY <1>0, <1>4 DEF Prepare, OutsideRounds, CoordOK, CoordType
  <2> QED
    BY <1>4, <2>3, <2>4, <2>5, <2>6 DEF Prepare, TypeOK, CoordOK, CoordType
<1>5. CASE LeaderGone
  BY <1>5, CoordInit DEF LeaderGone, TypeOK, CoordType, OutsideRounds
<1>6. CASE Commit
  <2>1. CoordOK'
    BY <1>0, <1>6 DEF Commit, CoordOK, CoordType, Round
  <2>2. frames' \subseteq FrameType
    <3>1. /\ coord.proposal \in ProposalType /\ coord.recipients \in SUBSET Node
          /\ coord.proposal.new \in Node \cup {NoNode} /\ coord.proposal.base + 1 \in Nat
      BY <1>0 DEF CoordOK, CoordType, ProposalType, Revision
    <3> QED
      BY <1>6, <3>1, BroadcastHasType DEF Commit, TypeOK, Kinds
  <2>3. OutsideRounds'
    BY <1>0, <1>6 DEF Commit, OutsideRounds, CoordOK, CoordType
  <2> QED
    BY <1>6, <2>1, <2>2, <2>3 DEF Commit, TypeOK, CoordOK, CoordType
<1>7. CASE Abort
  <2>1. ended' \in [Proposal -> {"no", "switched", "abandoned"}]
    BY <1>7 DEF Abort, End, TypeOK
  <2> QED
    BY <1>7, <2>1, CoordInit DEF Abort, TypeOK, CoordType, OutsideRounds
<1>8. CASE Switch
  <2>1. ended' \in [Proposal -> {"no", "switched", "abandoned"}]
    BY <1>8 DEF Switch, End, TypeOK
  <2>2. mgr' \in [Node -> Manager] /\ revision' \in Nat
    BY <1>0, <1>8, SyncedHasType DEF Switch
  <2>3. cause' \in [Node -> [id : 0 .. MaxProposals, late : BOOLEAN]]
    BY <1>8, <1>cause DEF Switch
  <2>4. CoordOK' /\ OutsideRounds'
    BY <1>0, <1>8 DEF Switch, CoordOK, CoordType, OutsideRounds
  <2> QED
    BY <1>8, <2>1, <2>2, <2>3, <2>4 DEF Switch, TypeOK, Manager, Revision, CoordOK, CoordType
<1>9. CASE SwitchFails
  <2>1. ended' \in [Proposal -> {"no", "switched", "abandoned"}]
    BY <1>9 DEF SwitchFails, End, TypeOK
  <2> QED
    BY <1>9, <2>1, CoordInit DEF SwitchFails, TypeOK, CoordType, OutsideRounds
<1>10. CASE Announce
  <2>1. /\ coord.proposal \in ProposalType /\ coord.recipients \in SUBSET Node
        /\ coord.proposal.new \in Node \cup {NoNode}
    BY <1>0 DEF CoordOK, CoordType, ProposalType
  <2>2. frames' \subseteq FrameType
    BY <1>0, <1>10, <2>1, BroadcastHasType DEF Announce, TypeOK, Kinds
  <2> QED
    BY <1>10, <2>2, CoordInit DEF Announce, TypeOK, CoordType, OutsideRounds
<1>11. ASSUME NEW n \in Node, Receive(n) PROVE TypeInv'
  <2>1. PICK f \in frames :
          /\ f.kind \in Round \cup {"applied"}
          /\ \/ /\ frames' = (IF f.kind = "applied" THEN frames ELSE Sent({Ack(f, FALSE)})) \ {f}
                /\ UNCHANGED handler
             \/ /\ handler' = [handler EXCEPT ![n] = f] /\ frames' = frames \ {f}
          /\ UNCHANGED <<alive, level, revision, mgr, coord, ended, asked, yes, cause>>
    BY <1>11 DEF Receive
  <2>2. f \in FrameType
    BY DEF TypeOK
  <2>3. f.kind \in Round => Ack(f, FALSE) \in FrameType
    BY <2>2, AckHasType
  <2>4. frames' \subseteq FrameType
    BY <2>1, <2>3 DEF TypeOK, Sent
  <2>5. handler' \in [Node -> FrameType]
    BY <2>1, <2>2 DEF TypeOK
  <2> QED
    BY <2>1, <2>4, <2>5 DEF TypeOK, OutsideRounds
<1>12. ASSUME NEW n \in Node, Accept(n) PROVE TypeInv'
  <2> DEFINE f == handler[n]
  <2>1. f \in FrameType /\ f.kind \in Round /\ f.proposal.id \in 0 .. MaxProposals
    BY <1>12, FrameParts DEF Accept, TypeOK
  <2>2. frames' \subseteq FrameType
    BY <1>12, <2>1, AckHasType DEF Accept, TypeOK, Sent
  <2>3. mgr' \in [Node -> Manager]
    BY <1>0, <1>12 DEF Accept, Manager
  <2>4. yes' \in [Proposal -> [Round -> SUBSET Node]]
    <3> DEFINE id == f.proposal.id  r == f.kind  round == [yes[id] EXCEPT ![r] = @ \cup {n}]
    <3>1. yes' = [yes EXCEPT ![id] = round]
      BY <1>12 DEF Accept
    <3>2. ASSUME id \in Proposal PROVE round \in [Round -> SUBSET Node]
      <4>1. yes[id] \in [Round -> SUBSET Node]
        BY <3>2 DEF TypeOK
      <4> HIDE DEF id, r
      <4> QED
        BY <4>1
    <3> HIDE DEF round
    <3> QED
      BY <3>1, <3>2 DEF TypeOK
  <2>5. cause' \in [Node -> [id : 0 .. MaxProposals, late : BOOLEAN]]
    BY <1>12, <2>1 DEF Accept, TypeOK
  <2>6. handler' \in [Node -> FrameType]
    BY <1>12, Constants DEF Accept, TypeOK
  <2> QED
    BY <1>12, <2>2, <2>3, <2>4, <2>5, <2>6 DEF Accept, TypeOK, Manager, Revision, OutsideRounds
<1>13. ASSUME NEW n \in Node, Applied(n) PROVE TypeInv'
  <2>1. handler[n].rev \in Nat
    BY FrameParts DEF TypeOK
  <2>2. mgr' \in [Node -> Manager]
    BY <1>0, <1>13, <2>1, ManagerWrites DEF Applied
  <2>3. handler' \in [Node -> FrameType]
    BY <1>13, Constants DEF Applied, TypeOK
  <2>4. cause' \in [Node -> [id : 0 .. MaxProposals, late : BOOLEAN]]
    BY <1>13, <1>cause DEF Applied, TypeOK
  <2> QED
    BY <1>13, <2>2, <2>3, <2>4 DEF Applied, TypeOK, Manager, Revision, OutsideRounds
<1>14. ASSUME NEW n \in Node, TakeAck(n) PROVE TypeInv'
  <2>1. PICK f \in frames :
          /\ frames' = frames \ {f}
          /\ coord' = IF Counts(f) THEN Counted(f) ELSE coord
          /\ UNCHANGED <<alive, level, revision, mgr, handler, ended, asked, yes, cause>>
    BY <1>14 DEF TakeAck
  <2>2. CoordOK'
    <3>1. CASE Counts(f)
      <4>1. f.from \in coord.expected
        BY <3>1 DEF Counts
      <4> QED
        BY <1>0, <2>1, <3>1, <4>1 DEF CoordOK, CoordType, Counted
    <3> QED
      BY <1>0, <2>1, <3>1 DEF CoordOK
  <2>3. OutsideRounds'
    <3>1. CASE Counts(f)
      <4>1. coord.pc \in Round /\ coord'.pc = coord.pc
        BY <1>0, <2>1, <3>1 DEF Counts, Counted, CoordOK, CoordType
      <4> QED
        BY <4>1 DEF OutsideRounds, Round
    <3> QED
      BY <2>1, <3>1 DEF OutsideRounds
  <2> QED
    BY <2>1, <2>2, <2>3 DEF TypeOK, CoordOK, CoordType
<1>15. CASE UNCHANGED vars
  BY <1>15 DEF vars, TypeOK, OutsideRounds
<1> QED
  BY <1>1, <1>2, <1>3, <1>4, <1>5, <1>6, <1>7, <1>8, <1>9, <1>10, <1>11, <1>12, <1>13, <1>14, <1>15
  DEF Next, Coordinator

(* Every variable keeps its type: acks are counted once and only from those*)
(* who were asked (addAck), for every set of nodes and every quorum.       *)
THEOREM RotationTypes == Spec => []TypeOK
<1>1. TypeInv => TypeOK
  BY DEF TypeInv
<1> QED
  BY <1>1, TypesInit, TypesStep, PTL DEF Spec
-----------------------------------------------------------------------------
(* A proposal in a round is not ended, and one that is announced has       *)
(* switched.                                                               *)
StageOK ==
  /\ coord.pc \in Round => coord.proposal.id \in Proposal /\ ended[coord.proposal.id] = "no"
  /\ coord.pc = "announce" =>
       coord.proposal.id \in Proposal /\ ended[coord.proposal.id] = "switched"

(* A proposal that has been opened.                                        *)
Known(id) == id \in Proposal /\ (ended[id] # "no" \/ coord.proposal.id = id)

FramesKnown ==
  /\ \A f \in frames : Known(f.proposal.id)
  /\ \A n \in Node :
       handler[n].kind # "none" => Known(handler[n].proposal.id) /\ handler[n].to = n

(* Who sent an accept has voted.                                           *)
AcksTrue ==
  \A f \in frames, r \in Round :
    f.kind = AckOf[r] /\ f.accept => f.from \in yes[f.proposal.id][r]

(* What is counted are votes of those who are asked.                       *)
CountsTrue ==
  coord.pc \in Round =>
    LET id == coord.proposal.id
    IN  /\ coord.expected = asked[id][coord.pc]
        /\ coord.accepted \subseteq yes[id][coord.pc]
        /\ coord.pc = "prepare" => asked[id]["commit"] = coord.recipients \ {coord.proposal.new}

RotationInv == TypeInv /\ StageOK /\ FramesKnown /\ AcksTrue /\ CountsTrue

(* The steps that leave the coordinator where it is.                       *)
Others ==
  \/ Cascade
  \/ \E n \in Node : Kill(n) \/ Receive(n) \/ Accept(n) \/ Applied(n) \/ TakeAck(n)
  \/ UNCHANGED vars

LEMMA Steps == [Next]_vars => Coordinator \/ Others
  BY DEF Next, Others

LEMMA OthersKeep ==
  ASSUME TypeInv, Others
  PROVE  /\ coord'.pc = coord.pc /\ coord'.proposal = coord.proposal
         /\ coord'.expected = coord.expected /\ coord'.recipients = coord.recipients
         /\ ended' = ended /\ asked' = asked
<1>1. coord \in CoordType
  BY DEF TypeInv, TypeOK, CoordType
<1>2. ASSUME NEW f, coord' = IF Counts(f) THEN Counted(f) ELSE coord
      PROVE  /\ coord'.pc = coord.pc /\ coord'.proposal = coord.proposal
             /\ coord'.expected = coord.expected /\ coord'.recipients = coord.recipients
  BY <1>1, <1>2 DEF Counted, CoordType
<1>3. ASSUME NEW n \in Node, TakeAck(n)
      PROVE  /\ \E f : coord' = IF Counts(f) THEN Counted(f) ELSE coord
             /\ ended' = ended /\ asked' = asked
  BY <1>3 DEF TakeAck
<1> QED
  BY <1>2, <1>3 DEF Others, Cascade, Kill, Receive, Accept, Applied, vars

(* The coordinator's steps, as far as proposals go.                        *)
LEMMA Finishes ==
  ASSUME RotationInv, NEW how \in {"switched", "abandoned"}, End(how), coord.pc \in Round
  PROVE  /\ coord.proposal.id \in Proposal
         /\ ended'[coord.proposal.id] = how
         /\ \A p \in Proposal \ {coord.proposal.id} : ended'[p] = ended[p]
  BY DEF RotationInv, TypeInv, TypeOK, StageOK, End

LEMMA StageStep == RotationInv /\ [Next]_vars => StageOK'
<1> SUFFICES ASSUME RotationInv, [Next]_vars PROVE StageOK'
  OBVIOUS
<1>0. TypeInv /\ StageOK /\ coord \in CoordType
  BY DEF RotationInv, TypeInv, TypeOK, CoordType
<1>1. CASE Others
  BY <1>0, <1>1, OthersKeep DEF StageOK
<1>2. CASE Tick
  BY <1>0, <1>2 DEF Tick, StageOK, CoordType, Round
<1>3. CASE Prepare
  <2>1. NextId \in Proposal /\ ended[NextId] = "no"
    BY <1>0, <1>3 DEF Prepare, TypeInv, OutsideRounds, NextId
  <2>2. coord'.pc = "prepare" /\ coord'.proposal.id = NextId /\ ended' = ended
    BY <1>0, <1>3 DEF Prepare, CoordType, ProposalType
  <2> QED
    BY <2>1, <2>2 DEF StageOK
<1>4. CASE LeaderGone \/ Abort \/ SwitchFails \/ Announce
  BY <1>4, CoordInit DEF LeaderGone, Abort, SwitchFails, Announce, StageOK, Round
<1>5. CASE Commit
  BY <1>0, <1>5 DEF Commit, Passed, StageOK, CoordType, Round
<1>6. CASE Switch
  <2>1. End("switched") /\ coord.pc \in Round
    BY <1>6 DEF Switch, Passed, Round
  <2>2. coord'.pc = "announce" /\ coord'.proposal = coord.proposal
    BY <1>0, <1>6 DEF Switch, CoordType
  <2> QED
    BY <2>1, <2>2, Finishes DEF StageOK, Round
<1> QED
  BY <1>1, <1>2, <1>3, <1>4, <1>5, <1>6, Steps DEF Coordinator

(* Once opened, a proposal stays known.                                    *)
LEMMA KnownStable ==
  ASSUME RotationInv, [Next]_vars, NEW id, Known(id)
  PROVE  Known(id)'
<1>0. TypeInv /\ StageOK /\ coord \in CoordType /\ id \in Proposal /\ id # 0
  BY DEF RotationInv, TypeInv, TypeOK, CoordType, Known, Proposal
<1>1. CASE Others
  BY <1>0, <1>1, OthersKeep DEF Known
<1>2. CASE Tick \/ Prepare \/ LeaderGone
  <2>1. coord.proposal.id = 0 /\ ended' = ended
    BY <1>0, <1>2 DEF Tick, Prepare, LeaderGone, TypeInv, OutsideRounds
  <2> QED
    BY <1>0, <2>1 DEF Known
<1>3. CASE Commit
  BY <1>0, <1>3 DEF Commit, CoordType, Known
<1>4. ASSUME NEW how \in {"switched", "abandoned"}, End(how), coord.pc \in Round PROVE Known(id)'
  BY <1>4, <1>0, Finishes DEF Known
<1>5. CASE Abort \/ Switch \/ SwitchFails
  BY <1>4, <1>5 DEF Abort, Switch, SwitchFails, Passed, Round
<1>6. CASE Announce
  BY <1>0, <1>6 DEF Announce, StageOK, Known
<1> QED
  BY <1>1, <1>2, <1>3, <1>5, <1>6, Steps DEF Coordinator

(* The frames a step adds.                                                 *)
LEMMA BroadcastFields ==
  ASSUME NEW kind, NEW p, NEW from, NEW recipients, NEW rev,
         NEW f \in Broadcast(kind, p, from, recipients, rev) \ frames
  PROVE  f.kind = kind /\ f.proposal = p
<1>1. PICK n \in recipients \ {from} : f = Frame(kind, p, from, n, rev, TRUE)
  BY DEF Broadcast, Sent
<1>2. /\ Frame(kind, p, from, n, rev, TRUE).kind = kind
      /\ Frame(kind, p, from, n, rev, TRUE).proposal = p
  BY DEF Frame
<1> QED
  BY <1>1, <1>2

LEMMA AckFields ==
  ASSUME NEW f, NEW accept
  PROVE  /\ Ack(f, accept).kind = AckOf[f.kind] /\ Ack(f, accept).proposal = f.proposal
         /\ Ack(f, accept).from = f.to /\ Ack(f, accept).accept = accept
  BY FrameFields DEF Ack

LEMMA NewFrames ==
  ASSUME RotationInv, [Next]_vars, NEW f \in frames' \ frames
  PROVE  \/ /\ Prepare /\ f.kind = "prepare" /\ f.proposal = coord'.proposal
         \/ /\ Commit \/ Announce
            /\ f.kind \in {"commit", "applied"} /\ f.proposal = coord.proposal
         \/ \E n \in Node, g \in frames :
              /\ Receive(n) /\ f = Ack(g, FALSE) /\ g.kind \in Round
         \/ \E n \in Node : Accept(n) /\ f = Ack(handler[n], TRUE)
<1>0. coord \in CoordType
  BY DEF RotationInv, TypeInv, TypeOK, CoordType
<1>1. CASE Prepare
  <2> DEFINE p == [coord.proposal EXCEPT !.id = NextId, !.base = revision]
  <2>1. frames' = Broadcast("prepare", p, p.old, alive, p.base)
    BY <1>1 DEF Prepare
  <2>2. coord'.proposal = p
    BY <1>0, <1>1 DEF Prepare, CoordType
  <2> HIDE DEF p
  <2>3. f.kind = "prepare" /\ f.proposal = p
    BY <2>1, BroadcastFields
  <2> QED
    BY <1>1, <2>2, <2>3
<1>2. CASE Commit
  <2> DEFINE p == coord.proposal
  <2>1. frames' = Broadcast("commit", p, p.new, coord.recipients, p.base + 1)
    BY <1>2 DEF Commit
  <2>2. f.kind = "commit" /\ f.proposal = p
    BY <2>1, BroadcastFields
  <2> QED
    BY <1>2, <2>2
<1>3. CASE Announce
  <2> DEFINE p == coord.proposal
  <2>1. frames' = Broadcast("applied", p, p.new, coord.recipients, revision)
    BY <1>3 DEF Announce
  <2>2. f.kind = "applied" /\ f.proposal = p
    BY <2>1, BroadcastFields
  <2> QED
    BY <1>3, <2>2
<1>4. ASSUME NEW n \in Node, Receive(n)
      PROVE  \E g \in frames : f = Ack(g, FALSE) /\ g.kind \in Round
  BY <1>4 DEF Receive, Sent
<1>5. ASSUME NEW n \in Node, Accept(n)
      PROVE  f = Ack(handler[n], TRUE)
  BY <1>5 DEF Accept, Sent
<1>6. CASE Tick \/ LeaderGone \/ Abort \/ Switch \/ SwitchFails \/ Cascade \/ UNCHANGED vars
  BY <1>6 DEF Tick, LeaderGone, Abort, Switch, SwitchFails, Cascade, vars
<1>7. ASSUME NEW n \in Node, Kill(n) \/ Applied(n) \/ TakeAck(n) PROVE FALSE
  BY <1>7 DEF Kill, Applied, TakeAck
<1> QED
  BY <1>1, <1>2, <1>3, <1>4, <1>5, <1>6, <1>7 DEF Next, Coordinator

LEMMA FramesStep == RotationInv /\ [Next]_vars => FramesKnown'
<1> SUFFICES ASSUME RotationInv, [Next]_vars PROVE FramesKnown'
  OBVIOUS
<1>0. TypeInv /\ StageOK /\ FramesKnown /\ coord \in CoordType /\ handler \in [Node -> FrameType]
  BY DEF RotationInv, TypeInv, TypeOK, CoordType
<1>1. ASSUME NEW f \in frames' PROVE Known(f.proposal.id)'
  <2>1. CASE f \in frames
    BY <1>0, <2>1, KnownStable DEF FramesKnown
  <2>2. CASE Prepare /\ f.proposal = coord'.proposal
    <3>1. NextId \in Proposal
      BY <1>0, <2>2 DEF Prepare, TypeInv, OutsideRounds, NextId
    <3>2. coord'.proposal.id = NextId
      BY <1>0, <2>2 DEF Prepare, CoordType, ProposalType
    <3> QED
      BY <2>2, <3>1, <3>2 DEF Known
  <2>3. CASE (Commit \/ Announce) /\ f.proposal = coord.proposal
    <3>1. coord.proposal.id \in Proposal
      BY <1>0, <2>3 DEF Commit, Announce, Passed, StageOK, Round
    <3>2. Known(coord.proposal.id)
      BY <3>1 DEF Known
    <3> QED
      BY <2>3, <3>2, KnownStable
  <2>4. ASSUME NEW g \in frames, f = Ack(g, FALSE) PROVE Known(f.proposal.id)'
    <3>1. f.proposal = g.proposal
      BY <2>4, AckFields
    <3>2. Known(g.proposal.id)
      BY <1>0 DEF FramesKnown
    <3> QED
      BY <3>1, <3>2, KnownStable
  <2>5. ASSUME NEW n \in Node, Accept(n), f = Ack(handler[n], TRUE) PROVE Known(f.proposal.id)'
    <3>1. f.proposal = handler[n].proposal
      BY <2>5, AckFields
    <3>2. Known(handler[n].proposal.id)
      BY <1>0, <2>5 DEF FramesKnown, Accept, Round
    <3> QED
      BY <3>1, <3>2, KnownStable
  <2> QED
    BY <2>1, <2>2, <2>3, <2>4, <2>5, NewFrames
<1>2. ASSUME NEW n \in Node, handler'[n].kind # "none"
      PROVE  Known(handler[n].proposal.id)' /\ handler'[n].to = n
  <2>1. CASE handler'[n] = handler[n]
    BY <1>0, <1>2, <2>1, KnownStable DEF FramesKnown
  <2>2. CASE handler'[n] = NoFrame
    BY <1>2, <2>2 DEF NoFrame
  <2>3. CASE handler'[n] \in frames /\ handler'[n].to = n
    BY <1>0, <2>3, KnownStable DEF FramesKnown
  <2>4. ASSUME NEW m \in Node, Receive(m)
        PROVE  handler'[n] = handler[n] \/ (handler'[n] \in frames /\ handler'[n].to = n)
    BY <1>0, <2>4 DEF Receive
  <2>5. ASSUME NEW m \in Node, Kill(m) \/ Accept(m) \/ Applied(m)
        PROVE  handler'[n] = handler[n] \/ handler'[n] = NoFrame
    BY <1>0, <2>5 DEF Kill, Accept, Applied
  <2>6. CASE Coordinator \/ Cascade \/ UNCHANGED vars \/ \E m \in Node : TakeAck(m)
    <3>1. handler' = handler
      BY <2>6 DEF Coordinator, Tick, Prepare, LeaderGone, Commit, Abort, Switch, SwitchFails,
                  Announce, Cascade, TakeAck, vars
    <3> QED
      BY <2>1, <3>1
  <2> QED
    BY <2>1, <2>2, <2>3, <2>4, <2>5, <2>6 DEF Next
<1> QED
  BY <1>1, <1>2 DEF FramesKnown

(* No vote is taken back.                                                  *)
LEMMA VotesStay ==
  ASSUME RotationInv, [Next]_vars, NEW p \in Proposal, NEW r \in Round
  PROVE  yes[p][r] \subseteq yes'[p][r]
<1>1. ASSUME NEW n \in Node, Accept(n) PROVE yes[p][r] \subseteq yes'[p][r]
  <2>1. yes' = [yes EXCEPT ![handler[n].proposal.id][handler[n].kind] = @ \cup {n}]
    BY <1>1 DEF Accept
  <2>2. yes \in VoteType
    BY DEF RotationInv, TypeInv, TypeOK, VoteType
  <2> QED
    BY <2>1, <2>2 DEF VoteType
<1>2. CASE ~\E n \in Node : Accept(n)
  <2>1. yes' = yes
    BY <1>2 DEF Next, Coordinator, Tick, Prepare, LeaderGone, Commit, Abort, Switch, SwitchFails,
                Announce, Cascade, Kill, Receive, Applied, TakeAck, vars
  <2> QED
    BY <2>1
<1> QED
  BY <1>1, <1>2

LEMMA AcceptVotes ==
  ASSUME RotationInv, NEW n \in Node, Accept(n)
  PROVE  /\ handler[n].proposal.id \in Proposal /\ handler[n].kind \in Round
         /\ handler[n].to = n
         /\ n \in yes'[handler[n].proposal.id][handler[n].kind]
<1> DEFINE id == handler[n].proposal.id  r == handler[n].kind
<1>1. r \in Round /\ id \in Proposal /\ handler[n].to = n
  BY DEF Accept, RotationInv, FramesKnown, Known, Round
<1>2. yes' = [yes EXCEPT ![handler[n].proposal.id][handler[n].kind] = @ \cup {n}]
  BY DEF Accept
<1>3. yes \in VoteType
  BY DEF RotationInv, TypeInv, TypeOK, VoteType
<1>4. yes'[id] = [yes[id] EXCEPT ![r] = @ \cup {n}]
  BY <1>1, <1>2, <1>3 DEF VoteType
<1>5. yes[id] \in [Round -> SUBSET Node]
  BY <1>1, <1>3 DEF VoteType
<1>6. yes'[id][r] = yes[id][r] \cup {n}
  BY <1>1, <1>4, <1>5
<1> QED
  BY <1>1, <1>6

LEMMA AcksStep == RotationInv /\ [Next]_vars => AcksTrue'
<1> SUFFICES ASSUME RotationInv, [Next]_vars,
                    NEW f \in frames', NEW r \in Round, f.kind = AckOf[r], f.accept
             PROVE  f.from \in yes'[f.proposal.id][r]
  BY DEF AcksTrue
<1>0. AcksTrue /\ FramesKnown
  BY DEF RotationInv
<1>1. CASE f \in frames
  <2>1. f.from \in yes[f.proposal.id][r] /\ f.proposal.id \in Proposal
    BY <1>0, <1>1 DEF AcksTrue, FramesKnown, Known
  <2> QED
    BY <2>1, VotesStay
<1>2. CASE f.kind \in {"prepare", "commit", "applied"}
  BY <1>2, Constants DEF Round
<1>3. ASSUME NEW g \in frames, f = Ack(g, FALSE) PROVE FALSE
  BY <1>3, AckFields
<1>4. ASSUME NEW n \in Node, Accept(n), f = Ack(handler[n], TRUE)
      PROVE  f.from \in yes'[f.proposal.id][r]
  <2> DEFINE g == handler[n]
  <2>1. g.kind \in Round /\ g.to = n /\ n \in yes'[g.proposal.id][g.kind]
    BY <1>4, AcceptVotes
  <2>2. f = Ack(g, TRUE)
    BY <1>4
  <2> HIDE DEF g
  <2>3. f.kind = AckOf[g.kind] /\ f.proposal = g.proposal /\ f.from = g.to
    BY <2>2, AckFields
  <2>4. r = g.kind
    BY <2>1, <2>3, Constants DEF Round
  <2> QED
    BY <2>1, <2>3, <2>4
<1> QED
  BY <1>1, <1>2, <1>3, <1>4, NewFrames

LEMMA CountsStep == RotationInv /\ [Next]_vars => CountsTrue'
<1> SUFFICES ASSUME RotationInv, [Next]_vars PROVE CountsTrue'
  OBVIOUS
<1> DEFINE id == coord.proposal.id
<1>0. /\ TypeInv /\ StageOK /\ CountsTrue /\ AcksTrue /\ coord \in CoordType
      /\ asked \in [Proposal -> [Round -> SUBSET Node]]
  BY DEF RotationInv, TypeInv, TypeOK, CoordType
<1>votes. coord.pc \in Round => yes[id][coord.pc] \subseteq yes'[id][coord.pc]
  BY <1>0, VotesStay DEF StageOK
<1>1. CASE Others
  <2>1. SUFFICES ASSUME coord.pc \in Round
                 PROVE  coord'.accepted \subseteq yes'[id][coord.pc]
    BY <1>0, <1>1, OthersKeep DEF CountsTrue
  <2>2. coord.accepted \subseteq yes'[id][coord.pc]
    BY <1>0, <1>votes, <2>1 DEF CountsTrue
  <2>3. ASSUME NEW n \in Node, TakeAck(n) PROVE coord'.accepted \subseteq yes'[id][coord.pc]
    <3>1. PICK f \in frames : coord' = IF Counts(f) THEN Counted(f) ELSE coord
      BY <2>3 DEF TakeAck
    <3>2. ASSUME Counts(f), f.accept PROVE f.from \in yes'[id][coord.pc]
      <4>1. f.kind = AckOf[coord.pc] /\ f.proposal.id = id
        BY <3>2 DEF Counts
      <4>2. f.from \in yes[id][coord.pc]
        BY <1>0, <2>1, <3>2, <4>1 DEF AcksTrue
      <4> QED
        BY <1>votes, <2>1, <4>2
    <3>3. CASE Counts(f)
      <4>1. coord'.accepted = IF f.accept THEN coord.accepted \cup {f.from} ELSE coord.accepted
        BY <1>0, <3>1, <3>3 DEF Counted, CoordType
      <4> QED
        BY <2>2, <3>2, <3>3, <4>1
    <3> QED
      BY <2>2, <3>1, <3>3
  <2>4. CASE ~\E n \in Node : TakeAck(n)
    <3>1. coord' = coord
      BY <1>1, <2>4 DEF Others, Cascade, Kill, Receive, Accept, Applied, vars
    <3> QED
      BY <2>2, <3>1
  <2> QED
    BY <2>3, <2>4
<1>2. CASE Prepare
  <2> DEFINE p == [coord.proposal EXCEPT !.id = NextId, !.base = revision]
  <2>1. NextId \in Proposal
    BY <1>0, <1>2 DEF Prepare, TypeInv, OutsideRounds, NextId
  <2>2. p.id = NextId
    BY <1>0 DEF CoordType, ProposalType
  <2>3. /\ asked' = [asked EXCEPT ![p.id] =
                       [r \in Round |-> IF r = "prepare" THEN alive \ {p.old} ELSE alive \ {p.new}]]
        /\ coord' = [coord EXCEPT !.pc = "prepare", !.proposal = p, !.recipients = alive,
                                  !.expected = alive \ {p.old}]
    BY <1>2 DEF Prepare
  <2>4. coord.accepted = {}
    BY <1>0, <1>2 DEF Prepare, TypeInv, OutsideRounds
  <2> HIDE DEF p
  <2>5. /\ coord'.pc = "prepare" /\ coord'.proposal = p /\ coord'.recipients = alive
        /\ coord'.expected = alive \ {p.old} /\ coord'.accepted = {}
    BY <1>0, <2>3, <2>4 DEF CoordType
  <2>6. asked'[p.id]["prepare"] = alive \ {p.old} /\ asked'[p.id]["commit"] = alive \ {p.new}
    BY <1>0, <2>1, <2>2, <2>3 DEF Round
  <2> QED
    BY <2>5, <2>6 DEF CountsTrue
<1>3. CASE Commit
  <2>1. coord.pc = "prepare" /\ asked' = asked
    BY <1>3 DEF Commit, Passed
  <2>2. asked[id]["commit"] = coord.recipients \ {coord.proposal.new}
    BY <1>0, <2>1 DEF CountsTrue, Round
  <2>3. /\ coord'.pc = "commit" /\ coord'.proposal = coord.proposal /\ coord'.accepted = {}
        /\ coord'.expected = coord.recipients \ {coord.proposal.new}
    BY <1>0, <1>3 DEF Commit, CoordType
  <2> QED
    BY <2>1, <2>2, <2>3 DEF CountsTrue
<1>4. CASE Tick \/ LeaderGone \/ Abort \/ Switch \/ SwitchFails \/ Announce
  <2>1. coord'.pc \notin Round
    BY <1>0, <1>4, CoordInit
    DEF Tick, LeaderGone, Abort, Switch, SwitchFails, Announce, Round, CoordType
  <2> QED
    BY <2>1 DEF CountsTrue
<1> QED
  BY <1>1, <1>2, <1>3, <1>4, Steps DEF Coordinator

LEMMA RotationInvInit == Init => RotationInv
<1> SUFFICES ASSUME Init PROVE RotationInv
  OBVIOUS
<1>1. coord.pc = "idle" /\ frames = {} /\ \A n \in Node : handler[n].kind = "none"
  BY CoordInit DEF Init, NoFrame
<1> QED
  BY <1>1, TypesInit DEF RotationInv, StageOK, FramesKnown, AcksTrue, CountsTrue, Round

LEMMA RotationInvStep == RotationInv /\ [Next]_vars => RotationInv'
  BY TypesStep, StageStep, FramesStep, AcksStep, CountsStep DEF RotationInv
-----------------------------------------------------------------------------
(* Every step of a rotation is one of LeaderSwitch, or none of its         *)
(* business.                                                               *)
LEMMA QuorumOfNone == Quorum("prepare", 0) = 0 /\ Quorum("commit", 0) = 0
  BY DEF Quorum, QuorumOf

LEMMA SameCardinality == \A S : Promise!Cardinality(S) = Cardinality(S)
  BY DEF Promise!Cardinality, Cardinality

LEMMA PassedMeans ==
  ASSUME RotationInv, NEW r \in Round, Passed(r)
  PROVE  Promise!HasQuorum(coord.proposal.id, r)
<1> DEFINE id == coord.proposal.id  asks == asked[id][r]  count == yes[id][r] \cap asks
<1>1. coord.pc = r /\ coord.expected = asks /\ coord.accepted \subseteq yes[id][r]
  BY DEF Passed, RotationInv, CountsTrue
<1>2. coord.accepted \subseteq count
  BY <1>1 DEF RotationInv, TypeInv, TypeOK
<1>3. IsFiniteSet(asks) /\ asks \subseteq Node
  <2>1. coord.expected \subseteq Node
    BY DEF RotationInv, TypeInv, TypeOK
  <2> QED
    BY <1>1, <2>1, NodeAssumption, FS_Subset
<1>4. IsFiniteSet(count) /\ Cardinality(coord.accepted) <= Cardinality(count)
      /\ Cardinality(count) \in Nat /\ Cardinality(coord.accepted) \in Nat
      /\ Cardinality(asks) \in Nat
  BY <1>2, <1>3, FS_Subset, FS_CardinalityType
<1>5. Quorum(r, Cardinality(asks)) \in Int
  BY <1>4, PctAssumption DEF Quorum, QuorumOf
<1> HIDE DEF count
<1>6. Cardinality(count) >= Quorum(r, Cardinality(asks))
  <2>1. CASE asks = {}
    <3>1. Cardinality(asks) = 0
      BY <2>1, FS_EmptySet
    <3>2. Quorum(r, Cardinality(asks)) = 0
      BY <3>1, QuorumOfNone DEF Round
    <3> QED
      BY <1>4, <3>2
  <2>2. CASE HasQuorum(r)
    <3> DEFINE q == Quorum(r, Cardinality(asks))
    <3>1. Cardinality(coord.accepted) >= IF q = 0 THEN 1 ELSE q
      BY <1>1, <2>2 DEF HasQuorum
    <3> HIDE DEF q
    <3>2. Cardinality(count) >= q
      BY <1>4, <1>5, <3>1 DEF q
    <3> QED
      BY <3>2 DEF q
  <2> QED
    BY <1>1, <2>1, <2>2 DEF Passed
<1> QED
  BY <1>6, SameCardinality DEF Promise!HasQuorum, count

LEMMA PromiseInit == Init => Promise!Init
<1> SUFFICES ASSUME Init PROVE Promise!Init
  OBVIOUS
<1>1. \A p \in Proposal : Stage(p) = "new"
  BY CoordInit DEF Init, Stage, Proposal
<1> QED
  BY <1>1 DEF Init, Promise!Init, Promise!Nobody, Nobody, Promise!Round, Round

(* The stage of a proposal, as far as the invariant tells.                 *)
LEMMA Stages ==
  ASSUME RotationInv
  PROVE  /\ \A p \in Proposal : ended[p] # "no" => Stage(p) = ended[p]
         /\ \A p \in Proposal \ {coord.proposal.id} : ended[p] = "no" => Stage(p) = "new"
         /\ coord.pc \in Round => Stage(coord.proposal.id) = coord.pc
         /\ coord.pc \notin Round => \A p \in Proposal : Stage(p) \notin Round
<1>1. /\ \A p \in Proposal : ended[p] \in {"no", "switched", "abandoned"}
      /\ coord.pc \in Round \cup {"idle", "tick", "announce"}
  BY DEF RotationInv, TypeInv, TypeOK
<1>2. coord.pc \in Round => ended[coord.proposal.id] = "no"
  BY DEF RotationInv, StageOK
<1> QED
  BY <1>1, <1>2 DEF Stage, Round

LEMMA PromiseStep ==
  RotationInv /\ RotationInv' /\ [Next]_vars => [Promise!Next]_(Promise!vars)
<1> SUFFICES ASSUME RotationInv, RotationInv', [Next]_vars
             PROVE  [Promise!Next]_(Promise!vars)
  OBVIOUS
<1> DEFINE stage == [p \in Proposal |-> Stage(p)]
           id    == coord.proposal.id
<1>0. /\ TypeInv /\ StageOK /\ coord \in CoordType /\ coord' \in CoordType
      /\ asked \in [Proposal -> [Round -> SUBSET Node]]
      /\ yes \in VoteType /\ yes' \in VoteType
  BY DEF RotationInv, TypeInv, TypeOK, CoordType, VoteType
<1>round. Promise!Round = Round
  BY DEF Promise!Round, Round
<1>1. ASSUME stage' = stage, asked' = asked, yes' = yes PROVE UNCHANGED Promise!vars
  BY <1>1 DEF Promise!vars
<1>2. ASSUME coord'.pc = coord.pc, coord'.proposal = coord.proposal, ended' = ended
      PROVE  stage' = stage
  BY <1>2 DEF Stage
<1>3. CASE Others
  <2>1. stage' = stage /\ asked' = asked
    BY <1>0, <1>2, <1>3, OthersKeep
  <2>2. CASE ~\E n \in Node : Accept(n)
    <3>1. yes' = yes
      BY <1>3, <2>2 DEF Others, Cascade, Kill, Receive, Applied, TakeAck, vars
    <3> QED
      BY <1>1, <2>1, <3>1
  <2>3. ASSUME NEW n \in Node, Accept(n) PROVE [Promise!Next]_(Promise!vars)
    <3> DEFINE p == handler[n].proposal.id  r == handler[n].kind
    <3>1. p \in Proposal /\ r \in Round
      BY <2>3, AcceptVotes
    <3>2. yes' = [yes EXCEPT ![p] = [yes[p] EXCEPT ![r] = @ \cup {n}]]
      BY <2>3 DEF Accept
    <3>3. stage[p] # "new"
      <4>1. Known(p)
        BY <2>3 DEF Accept, RotationInv, FramesKnown, Round
      <4>2. p # 0
        BY <3>1 DEF Proposal
      <4>3. coord.proposal.id = p => coord.pc \notin {"idle", "tick"}
        BY <1>0, <4>2 DEF TypeInv, OutsideRounds
      <4> QED
        BY <1>0, <3>1, <4>1, <4>3 DEF Known, Stage, TypeInv, TypeOK, Round
    <3>4. CASE n \in yes[p][r]
      <4>1. yes[p] \in [Round -> SUBSET Node]
        BY <1>0, <3>1 DEF VoteType
      <4> HIDE DEF p, r
      <4>2. [yes[p] EXCEPT ![r] = @ \cup {n}] = yes[p]
        BY <3>1, <3>4, <4>1
      <4>3. yes' = yes
        BY <1>0, <3>1, <3>2, <4>2 DEF VoteType
      <4> QED
        BY <1>1, <2>1, <4>3
    <3>5. CASE n \notin yes[p][r]
      <4> HIDE DEF stage, p, r
      <4>1. stage[p] # "new" /\ yes' = [yes EXCEPT ![p][r] = @ \cup {n}]
        BY <3>2, <3>3
      <4>2. Promise!Agree(p, r, n)
        BY <2>1, <3>5, <4>1 DEF Promise!Agree, stage
      <4> QED
        BY <1>round, <3>1, <4>2 DEF Promise!Next
    <3> QED
      BY <3>4, <3>5
  <2> QED
    BY <2>2, <2>3
<1>4. CASE Tick \/ LeaderGone
  <2>1. id = 0 /\ coord'.proposal.id = 0 /\ ended' = ended /\ asked' = asked /\ yes' = yes
    <3>1. coord.pc \in {"idle", "tick"} /\ coord'.pc \in {"idle", "tick"}
      BY <1>0, <1>4, CoordInit DEF Tick, LeaderGone, CoordType
    <3> QED
      BY <1>4, <3>1 DEF Tick, LeaderGone, RotationInv, TypeInv, OutsideRounds
  <2>2. stage' = stage
    BY <2>1 DEF Stage, Proposal
  <2> QED
    BY <1>1, <2>1, <2>2
<1>5. CASE Prepare
  <2>1. NextId \in Proposal /\ ended[NextId] = "no"
    BY <1>0, <1>5 DEF Prepare, TypeInv, OutsideRounds, NextId
  <2>2. coord'.proposal.id = NextId /\ coord'.pc = "prepare" /\ ended' = ended /\ yes' = yes
    BY <1>0, <1>5 DEF Prepare, CoordType, ProposalType
  <2>3. id = 0 /\ coord.pc \notin Round
    BY <1>0, <1>5 DEF Prepare, TypeInv, OutsideRounds, Round
  <2>4. stage[NextId] = "new" /\ \A p \in Proposal : stage[p] \notin Round
    BY <2>1, <2>3, Stages DEF Proposal
  <2>5. stage' = [stage EXCEPT ![NextId] = "prepare"]
    <3>1. PICK q \in Proposal : q = NextId
      BY <2>1
    <3>2. ended'[q] = "no" /\ coord'.proposal.id = q /\ coord'.pc = "prepare"
      BY <2>1, <2>2, <3>1
    <3>3. Stage(q)' = "prepare"
      BY <3>2 DEF Stage
    <3>4. ASSUME NEW p \in Proposal \ {q} PROVE Stage(p)' = Stage(p)
      <4>1. p # 0 /\ p # q
        BY DEF Proposal
      <4> QED
        BY <2>2, <2>3, <3>2, <4>1 DEF Stage
    <3> HIDE DEF Stage
    <3>5. stage' = [stage EXCEPT ![q] = "prepare"]
      BY <3>3, <3>4
    <3> QED
      BY <3>1, <3>5
  <2>6. \E prepare, commit \in SUBSET Node :
          asked' = [asked EXCEPT ![NextId] =
                      [r \in Round |-> IF r = "prepare" THEN prepare ELSE commit]]
    <3> DEFINE p == [coord.proposal EXCEPT !.id = NextId, !.base = revision]
    <3>1. p.id = NextId
      BY <1>0 DEF CoordType, ProposalType
    <3>2. asked' = [asked EXCEPT ![p.id] =
                      [r \in Round |-> IF r = "prepare" THEN alive \ {p.old} ELSE alive \ {p.new}]]
      BY <1>5 DEF Prepare
    <3>3. alive \ {p.old} \in SUBSET Node /\ alive \ {p.new} \in SUBSET Node
      BY <1>0 DEF TypeInv, TypeOK
    <3> HIDE DEF p
    <3> QED
      BY <3>1, <3>2, <3>3
  <2>7. Promise!Open(NextId)
    BY <1>round, <2>2, <2>4, <2>5, <2>6 DEF Promise!Open
  <2> QED
    BY <2>1, <2>7 DEF Promise!Next
<1>6. CASE Commit
  <2>1. id \in Proposal /\ ended[id] = "no" /\ Passed("prepare") /\ coord.pc = "prepare"
    BY <1>0, <1>6 DEF Commit, Passed, StageOK, Round
  <2>2. coord'.pc = "commit" /\ coord'.proposal = coord.proposal /\ ended' = ended
        /\ asked' = asked /\ yes' = yes
    BY <1>0, <1>6 DEF Commit, CoordType
  <2>3. stage[id] = "prepare" /\ stage' = [stage EXCEPT ![id] = "commit"]
    BY <2>1, <2>2 DEF Stage
  <2>4. Promise!HasQuorum(id, "prepare")
    BY <2>1, PassedMeans DEF Round
  <2>5. Promise!Confirm(id)
    BY <2>2, <2>3, <2>4 DEF Promise!Confirm
  <2> QED
    BY <2>1, <2>5 DEF Promise!Next
<1>7. ASSUME NEW how \in {"switched", "abandoned"}, End(how), coord.pc \in Round,
             coord'.proposal.id \in {0, id}
      PROVE  id \in Proposal /\ stage' = [stage EXCEPT ![id] = how]
  <2>1. id \in Proposal /\ ended'[id] = how
        /\ \A p \in Proposal \ {id} : ended'[p] = ended[p]
    BY <1>7, Finishes
  <2>2. \A p \in Proposal : stage'[p] = IF p = id THEN how ELSE stage[p]
    <3>1. stage'[id] = how
      BY <2>1 DEF Stage
    <3>2. ASSUME NEW p \in Proposal \ {id} PROVE stage'[p] = stage[p]
      <4>1. ended'[p] = "no" => coord'.proposal.id # p
        BY <1>7 DEF Proposal
      <4> QED
        BY <2>1, <4>1 DEF Stage
    <3> QED
      BY <2>1, <3>1, <3>2
  <2> QED
    BY <2>1, <2>2
<1>8. CASE Abort \/ SwitchFails
  <2>1. End("abandoned") /\ coord.pc \in Round /\ coord'.proposal.id = 0
        /\ asked' = asked /\ yes' = yes
    BY <1>8, CoordInit DEF Abort, SwitchFails, Passed, Round
  <2>2. stage[id] \in Round /\ id \in Proposal /\ stage' = [stage EXCEPT ![id] = "abandoned"]
    BY <1>7, <2>1, Stages
  <2>3. Promise!Abandon(id)
    BY <1>round, <2>1, <2>2 DEF Promise!Abandon
  <2> QED
    BY <2>2, <2>3 DEF Promise!Next
<1>9. CASE Switch
  <2>1. End("switched") /\ coord.pc = "commit" /\ Passed("commit")
        /\ coord'.proposal = coord.proposal /\ asked' = asked /\ yes' = yes
    BY <1>0, <1>9 DEF Switch, Passed, CoordType
  <2>2. stage[id] = "commit" /\ id \in Proposal /\ stage' = [stage EXCEPT ![id] = "switched"]
    BY <1>7, <2>1, Stages DEF Round
  <2>3. Promise!HasQuorum(id, "commit")
    BY <2>1, PassedMeans DEF Round
  <2>4. Promise!Switch(id)
    BY <2>1, <2>2, <2>3 DEF Promise!Switch
  <2> QED
    BY <2>2, <2>4 DEF Promise!Next
<1>10. CASE Announce
  <2>1. id \in Proposal /\ ended[id] = "switched" /\ coord'.proposal.id = 0 /\ ended' = ended
        /\ asked' = asked /\ yes' = yes
    BY <1>0, <1>10, CoordInit DEF Announce, StageOK
  <2>2. stage' = stage
    BY <2>1 DEF Stage, Proposal
  <2> QED
    BY <1>1, <2>1, <2>2
<1> QED
  BY <1>3, <1>4, <1>5, <1>6, <1>8, <1>9, <1>10, Steps DEF Coordinator

(* No leader is switched without a quorum of yes in both rounds, for every *)
(* set of nodes and every quorum: neither kills, cascades, late frames and *)
(* timeouts, nor answers to other proposals, make up for a vote.           *)
THEOREM RotationImplementsSwitch == Spec => SwitchesAsPromised
<1>1. Spec => []RotationInv
  BY RotationInvInit, RotationInvStep, PTL DEF Spec
<1> QED
  BY <1>1, PromiseInit, PromiseStep, PTL DEF Spec, SwitchesAsPromised, Promise!Spec
-----------------------------------------------------------------------------
(* Who is Transitioning, and why: the cause is a proposal, and either the  *)
(* write came after its end or it has not switched.                        *)
Excused(n) == cause[n].id \in Proposal /\ (cause[n].late \/ ended[cause[n].id] # "switched")

Strand == \A n \in alive : mgr[n].transitioning => Excused(n)

LEMMA AcceptWrites ==
  ASSUME RotationInv, Strand, NEW n \in Node, Accept(n)
  PROVE  Strand'
<1>0. /\ mgr \in [Node -> Manager] /\ alive \subseteq Node
      /\ cause \in [Node -> [id : 0 .. MaxProposals, late : BOOLEAN]]
  BY DEF RotationInv, TypeInv, TypeOK, Manager, Revision
<1> DEFINE p == handler[n].proposal
<1>1. p.id \in Proposal
  BY AcceptVotes
<1>2. /\ mgr' = [mgr EXCEPT ![n].transitioning = @ \/ Concerns(p, n)]
      /\ cause' = IF Concerns(p, n)
                  THEN [cause EXCEPT ![n] = [id |-> p.id, late |-> ended[p.id] # "no"]]
                  ELSE cause
      /\ ended' = ended /\ alive' = alive
  BY DEF Accept
<1> HIDE DEF p
<1>3. ASSUME NEW m \in alive \ {n}, mgr'[m].transitioning PROVE Excused(m)'
  <2>1. mgr'[m] = mgr[m] /\ cause'[m] = cause[m]
    BY <1>0, <1>2, <1>3
  <2> QED
    BY <1>2, <1>3, <2>1 DEF Strand, Excused
<1>4. ASSUME n \in alive, mgr'[n].transitioning, Concerns(p, n) PROVE Excused(n)'
  <2>1. cause'[n] = [id |-> p.id, late |-> ended[p.id] # "no"]
    BY <1>0, <1>2, <1>4
  <2>2. cause'[n].id = p.id
    BY <2>1
  <2>3. CASE ended[p.id] = "no"
    BY <1>1, <1>2, <2>2, <2>3 DEF Excused
  <2>4. CASE ended[p.id] # "no"
    <3>1. cause'[n] = [id |-> p.id, late |-> TRUE]
      BY <2>1, <2>4
    <3> QED
      BY <1>1, <2>2, <3>1 DEF Excused
  <2> QED
    BY <2>3, <2>4
<1>5. ASSUME n \in alive, mgr'[n].transitioning, ~Concerns(p, n) PROVE Excused(n)'
  <2>1. mgr'[n] = [mgr[n] EXCEPT !.transitioning = @ \/ Concerns(p, n)] /\ cause' = cause
    BY <1>0, <1>2, <1>5
  <2>2. mgr[n].transitioning
    BY <1>0, <1>5, <2>1 DEF Manager
  <2> QED
    BY <1>2, <1>5, <2>1, <2>2 DEF Strand, Excused
<1> QED
  BY <1>2, <1>3, <1>4, <1>5 DEF Strand

LEMMA StrandStep == RotationInv /\ Strand /\ [Next]_vars => Strand'
<1> SUFFICES ASSUME RotationInv, Strand, [Next]_vars PROVE Strand'
  OBVIOUS
<1>0. /\ mgr \in [Node -> Manager] /\ alive \subseteq Node /\ revision + 1 \in Nat
      /\ handler \in [Node -> FrameType]
  BY DEF RotationInv, TypeInv, TypeOK, Manager, Revision
<1>1. CASE Cascade \/ Switch
  <2>1. mgr' = Synced(revision + 1) /\ alive' = alive
    BY <1>1 DEF Cascade, Switch
  <2> QED
    BY <1>0, <2>1, SyncedHasType DEF Strand
<1>2. ASSUME NEW n \in Node, Accept(n) PROVE Strand'
  BY <1>2, AcceptWrites
<1>3. ASSUME NEW n \in Node, Applied(n) PROVE Strand'
  <2>1. handler[n].rev \in Nat
    BY <1>0, FrameParts
  <2>2. ~mgr'[n].transitioning
    <3>1. SetPosition(mgr[n], handler[n].rev) \in Manager
      BY <1>0, <2>1, ManagerWrites
    <3>2. mgr'[n] = [SetPosition(mgr[n], handler[n].rev) EXCEPT !.transitioning = FALSE]
      BY <1>0, <1>3 DEF Applied
    <3> QED
      BY <3>1, <3>2 DEF Manager
  <2>3. \A m \in Node \ {n} : mgr'[m] = mgr[m] /\ cause'[m] = cause[m]
    BY <1>3 DEF Applied, RotationInv, TypeInv, TypeOK
  <2>4. alive' = alive /\ ended' = ended
    BY <1>3 DEF Applied
  <2> QED
    BY <1>0, <2>2, <2>3, <2>4 DEF Strand, Excused
<1>4. CASE Abort \/ SwitchFails
  <2>1. /\ End("abandoned") /\ coord.pc \in Round
        /\ mgr' = mgr /\ cause' = cause /\ alive' = alive
    BY <1>4 DEF Abort, SwitchFails, Passed, Round
  <2>2. \A p \in Proposal : ended'[p] # "switched" \/ ended'[p] = ended[p]
    BY <2>1, Finishes
  <2> QED
    BY <2>1, <2>2 DEF Strand, Excused
<1>5. ASSUME NEW n \in Node, Kill(n) PROVE Strand'
  BY <1>5 DEF Kill, Strand, Excused
<1>6. CASE Tick \/ Prepare \/ LeaderGone \/ Commit \/ Announce \/ UNCHANGED vars
           \/ \E n \in Node : Receive(n) \/ TakeAck(n)
  <2>1. mgr' = mgr /\ cause' = cause /\ alive' = alive /\ ended' = ended
    BY <1>6 DEF Tick, Prepare, LeaderGone, Commit, Announce, Receive, TakeAck, vars
  <2> QED
    BY <2>1 DEF Strand, Excused
<1> QED
  BY <1>1, <1>2, <1>3, <1>4, <1>5, <1>6 DEF Next, Coordinator

(* A node is left Transitioning by an abort or by a write that came late,  *)
(* and by nothing else, for every set of nodes and every loss of frames.   *)
THEOREM OnlyAbortsStrand == Spec => []OnlyAbortsAndLateFramesStrand
<1>1. Init => Strand
  BY DEF Init, Strand
<1>2. Strand => OnlyAbortsAndLateFramesStrand
  BY DEF Strand, Excused, OnlyAbortsAndLateFramesStrand
<1> QED
  BY <1>1, <1>2, RotationInvInit, RotationInvStep, StrandStep, PTL DEF Spec

LEMMA RevisionStep == TypeInv /\ [Next]_vars => \A n \in Node : mgr'[n].rev >= mgr[n].rev
<1> SUFFICES ASSUME TypeInv, [Next]_vars, NEW n \in Node PROVE mgr'[n].rev >= mgr[n].rev
  OBVIOUS
<1>0. /\ mgr \in [Node -> Manager] /\ mgr[n] \in Manager /\ mgr[n].rev \in Nat
      /\ revision + 1 \in Nat /\ handler \in [Node -> FrameType]
  BY DEF TypeInv, TypeOK, Manager, Revision
<1>1. CASE Cascade \/ Switch
  BY <1>0, <1>1, SyncedHasType DEF Cascade, Switch
<1>2. ASSUME NEW m \in Node, Accept(m) PROVE mgr'[n].rev = mgr[n].rev
  BY <1>0, <1>2 DEF Accept, Manager
<1>3. ASSUME NEW m \in Node, Applied(m) PROVE mgr'[n].rev >= mgr[n].rev
  <2>1. handler[m].rev \in Nat
    BY <1>0, FrameParts
  <2>2. mgr'[n] = IF n = m
                  THEN [SetPosition(mgr[n], handler[m].rev) EXCEPT !.transitioning = FALSE]
                  ELSE mgr[n]
    BY <1>0, <1>3 DEF Applied
  <2> QED
    BY <1>0, <2>1, <2>2, ManagerWrites
<1>4. CASE ~(Cascade \/ Switch \/ \E m \in Node : Accept(m) \/ Applied(m))
  <2>1. mgr' = mgr
    BY <1>4 DEF Next, Coordinator, Tick, Prepare, LeaderGone, Commit, Abort, SwitchFails,
                Announce, Kill, Receive, TakeAck, vars
  <2> QED
    BY <1>0, <2>1
<1> QED
  BY <1>0, <1>1, <1>2, <1>3, <1>4

(* What a node knows of the revision never goes back, whatever APPLIED     *)
(* names and however late it comes (SetHierarchyPosition compares).        *)
THEOREM RevisionsAreMonotonic == Spec => RevisionsNeverGoBack
<1>1. TypeInv /\ [Next]_vars => [\A n \in Node : mgr'[n].rev >= mgr[n].rev]_vars
  BY RevisionStep
<1> QED
  BY <1>1, TypesInit, TypesStep, PTL DEF Spec, RevisionsNeverGoBack
=============================================================================

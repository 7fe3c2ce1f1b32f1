----------------------------- MODULE LeaderSwitch -----------------------------
(***************************************************************************)
(* What a leader rotation promises, "guarded by prepare+commit quorum"     *)
(* (SPEC_LEADER_ROTATION_POLICY.md:107): a proposal is put to its voters   *)
(* twice, and a leader is switched only after a quorum has agreed both     *)
(* times (dashboard/manager.go:2076-2152).  Lines 99-101 of the same SPEC  *)
(* have another order, in which the switch comes before COMMIT is sent and *)
(* the commit quorum is only logged; the code does not do that.            *)
(*                                                                         *)
(* Here a vote counts at once; that it travels in messages, which are      *)
(* lost, late or for a proposal that is closed, is module Rotation's       *)
(* business, which implements this one.                                    *)
(***************************************************************************)
EXTENDS Integers, FiniteSets

CONSTANTS
  Voter,           \* the nodes
  Proposal,        \* proposals
  Quorum(_, _)     \* the votes a round needs, of so many voters

Round == {"prepare", "commit"}

VARIABLES
  stage,       \* per proposal how far it has got
  electorate,  \* per proposal and round who is asked
  agreed       \* per proposal and round who has agreed

vars == <<stage, electorate, agreed>>

Nobody == [r \in Round |-> {}]

Init ==
  /\ stage = [p \in Proposal |-> "new"]
  /\ electorate = [p \in Proposal |-> Nobody]
  /\ agreed = [p \in Proposal |-> Nobody]

HasQuorum(p, r) ==
  Cardinality(agreed[p][r] \cap electorate[p][r]) >= Quorum(r, Cardinality(electorate[p][r]))

(* One proposal is open at a time.                                         *)
Open(p) ==
  /\ stage[p] = "new" /\ \A o \in Proposal : stage[o] \notin Round
  /\ \E prepare, commit \in SUBSET Voter :
       electorate' = [electorate EXCEPT ![p] =
                        [r \in Round |-> IF r = "prepare" THEN prepare ELSE commit]]
  /\ stage' = [stage EXCEPT ![p] = "prepare"]
  /\ UNCHANGED agreed

(* A voter agrees once, however late.                                      *)
Agree(p, r, v) ==
  /\ stage[p] # "new"
  /\ v \notin agreed[p][r]
  /\ agreed' = [agreed EXCEPT ![p][r] = @ \cup {v}]
  /\ UNCHANGED <<stage, electorate>>

Confirm(p) ==
  /\ stage[p] = "prepare" /\ HasQuorum(p, "prepare")
  /\ stage' = [stage EXCEPT ![p] = "commit"]
  /\ UNCHANGED <<electorate, agreed>>

Switch(p) ==
  /\ stage[p] = "commit" /\ HasQuorum(p, "commit")
  /\ stage' = [stage EXCEPT ![p] = "switched"]
  /\ UNCHANGED <<electorate, agreed>>

Abandon(p) ==
  /\ stage[p] \in Round
  /\ stage' = [stage EXCEPT ![p] = "abandoned"]
  /\ UNCHANGED <<electorate, agreed>>

Next ==
  \E p \in Proposal :
    \/ Open(p) \/ Confirm(p) \/ Switch(p) \/ Abandon(p)
    \/ \E r \in Round, v \in Voter : Agree(p, r, v)

Spec == Init /\ [][Next]_vars
=============================================================================

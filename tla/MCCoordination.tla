--------------------------- MODULE MCCoordination ---------------------------
(* A team plan, of a draft, its approval by a person and a check that needs  *)
(* both; and a rework plan with one node, which an external CLI carries out. *)
EXTENDS Coordination, TLC

InSequence == [draft |-> {}, approve |-> {"draft"}, check |-> {"draft", "approve"}, cli |-> {}]
TeamOrCli == {{"draft", "approve", "check"}, {"cli"}}
OneEach == [draft |-> 1, check |-> 1, cli |-> 1]
=============================================================================

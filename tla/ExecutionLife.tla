---------------------------- MODULE ExecutionLife ----------------------------
(***************************************************************************)
(* What an Execution promises to those who only look at it: its owner,     *)
(* goals, teams and follow-ups.  There are no jobs, leases, workers,       *)
(* runtime or members here, only the status, what people were asked and    *)
(* answered, and how far each call is known to have gone.                  *)
(*                                                                         *)
(* AgentTurn, the translation of kernel, storage, worker and runtime, is   *)
(* shown to implement this specification.                                  *)
(***************************************************************************)
EXTENDS Naturals

CONSTANTS
  Call,      \* tool calls
  Manual     \* those that need a person and may not be replayed

VARIABLES
  status,      \* the status that everybody sees
  generation,  \* resumes + 1
  approval,    \* approval[c]: the request to a person, and the answer
  effect,      \* effect[c]: "none", "started" once it may have an effect, "settled" with its result
  history,     \* history[c]: what the record of the turns says: "none", "started", "closed"
  disturbed    \* somebody on whom the Execution depends has lost a role

vars == <<status, generation, approval, effect, history, disturbed>>

Live == {"queued", "running", "waiting_approval"}
Stopped == {"interrupted", "paused", "needs_reconciliation"}
Finished == {"completed", "failed", "cancelled"}

Init ==
  /\ status = "queued"
  /\ generation = 1
  /\ approval = [c \in Call |-> "none"]
  /\ effect = [c \in Call |-> "none"]
  /\ history = [c \in Call |-> "none"]
  /\ disturbed = FALSE

InFlight == \E c \in Call : effect[c] = "started"

(* No answer of a person outlives a stop or a resume. *)
Withdrawn ==
  [c \in Call |-> IF approval[c] \in {"pending", "approved"} THEN "expired" ELSE approval[c]]

----------------------------------------------------------------------------
(* People *)

Cancel ==
  /\ status \notin Finished
  /\ status' = IF status = "needs_reconciliation" \/ InFlight
               THEN "needs_reconciliation" ELSE "cancelled"
  /\ approval' = Withdrawn
  /\ UNCHANGED <<generation, effect, history, disturbed>>

Resume ==
  /\ status \in {"paused", "interrupted"}
  /\ status' = "queued"
  /\ generation' = generation + 1
  /\ approval' = Withdrawn
  /\ UNCHANGED <<effect, history, disturbed>>

Answer(c, decision) ==
  /\ status = "waiting_approval" /\ approval[c] = "pending"
  /\ status' = IF decision = "approved" THEN "running" ELSE "failed"
  /\ approval' = [approval EXCEPT ![c] = decision]
  /\ UNCHANGED <<generation, effect, history, disturbed>>

(* A role is lost, and the Execution may have to stop for it. *)
Disturb ==
  /\ disturbed' = TRUE
  /\ \/ UNCHANGED <<status, approval>>
     \/ /\ status \notin Finished
        /\ status' = IF status = "needs_reconciliation" \/ InFlight
                     THEN "needs_reconciliation" ELSE "interrupted"
        /\ approval' = Withdrawn
  /\ UNCHANGED <<generation, effect, history>>

----------------------------------------------------------------------------
(* Its own progress *)

Begin ==
  /\ status = "queued"
  /\ status' = "running"
  /\ UNCHANGED <<generation, approval, effect, history, disturbed>>

Ask(c) ==
  /\ status = "running" /\ approval[c] = "none"
  /\ status' = "waiting_approval"
  /\ approval' = [approval EXCEPT ![c] = "pending"]
  /\ UNCHANGED <<generation, effect, history, disturbed>>

(* No call that may not be replayed is under way.  A loss of role may leave an old run *)
(* going beside the new one, so that from then on nothing is promised about this.      *)
Settled == disturbed \/ \A d \in Manual : history[d] # "started"

(* A call starts at most once, with the approval it needs.  A run that has lost its lease *)
(* may still ask a person, and the Execution wait or fail with the answer, while the run  *)
(* that followed it goes on.                                                              *)
Start(c) ==
  /\ status \notin Stopped \cup {"cancelled"}
  /\ effect[c] = "none"
  /\ \/ approval[c] = "approved"
     \/ approval[c] = "none" /\ c \notin Manual
  /\ disturbed \/ status \in {"running", "waiting_approval", "failed"}
  /\ Settled
  /\ effect' = [effect EXCEPT ![c] = "started"]
  /\ history' = [history EXCEPT ![c] = "started"]
  /\ UNCHANGED <<status, generation, approval, disturbed>>

(* The record of a call is closed: with its result, or because nobody knows it.  *)
Close(c) ==
  /\ history' = [history EXCEPT ![c] = "closed"]
  /\ \/ UNCHANGED effect
     \/ effect[c] = "started" /\ effect' = [effect EXCEPT ![c] = "settled"]
  /\ UNCHANGED <<status, generation, approval, disturbed>>

End ==
  /\ \/ status = "running" /\ status' \in {"completed", "paused"} /\ Settled
     \/ status \in {"running", "waiting_approval"} /\ status' \in {"failed", "interrupted"}
  /\ UNCHANGED <<generation, approval, effect, history, disturbed>>

(* What a call did is not known any more: its record was closed without a result.  That *)
(* outweighs whatever was said of the Execution before.                                 *)
LoseTrack ==
  /\ disturbed \/ \E c \in Manual : history[c] = "closed" /\ effect[c] # "settled"
  /\ status' = "needs_reconciliation"
  /\ UNCHANGED <<generation, approval, effect, history, disturbed>>

Next ==
  \/ Cancel
  \/ Resume
  \/ \E c \in Call, decision \in {"approved", "denied"} : Answer(c, decision)
  \/ Disturb
  \/ Begin
  \/ \E c \in Call : Ask(c) \/ Start(c) \/ Close(c)
  \/ End
  \/ LoseTrack

Spec == Init /\ [][Next]_vars
=============================================================================

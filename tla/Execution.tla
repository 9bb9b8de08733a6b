------------------------------ MODULE Execution ------------------------------
(***************************************************************************)
(* One Execution as the kernel and the storage layer see it: its status    *)
(* and generation, the jobs that run it (one per generation), the approval *)
(* and admission of its tool calls, and the membership of the two people   *)
(* it depends on.  Every operator below is one database transaction, or    *)
(* the effect of one on the Execution; AgentTurn adds the Worker handlers  *)
(* that call them.                                                         *)
(*                                                                         *)
(* Transactions of the code touch one Execution at a time, so one is       *)
(* enough here.  Lease arithmetic is JobLease's: here a lease just lapses. *)
(***************************************************************************)
EXTENDS Naturals

CONSTANTS
  Worker,    \* worker process identities
  NoWorker,  \* lease_owner is null
  Call,      \* tool calls the model may ask for, each at most once
  Manual,    \* the calls whose effect class needs a human, and may not be replayed
  MaxGen,    \* bound on the generation: resumes + 1
  MaxEpoch   \* bound on membership revocations

ASSUME ExecutionAssumption ==
  /\ NoWorker \notin Worker
  /\ Manual \subseteq Call
  /\ MaxGen \in Nat \ {0}
  /\ MaxEpoch \in Nat

VARIABLES
  exec,      \* the execution projection, and the generation of its last cancel request
  jobs,      \* jobs[g]: the row of the agent.execution.run job of generation g
  tool,      \* tool[c]: the kernel's view of call c
  member     \* who may act: the initiator, the approver, and how often one was revoked

kernelVars == <<exec, jobs, tool, member>>

Gen == 1 .. MaxGen
Finished == {"completed", "failed", "cancelled"}
Stopped == {"interrupted", "paused", "needs_reconciliation"}
Status == {"queued", "running", "waiting_approval"} \cup Stopped \cup Finished

ExecRow == [status: Status, gen: Gen, cancelGen: 0 .. MaxGen]

JobRow == [status: {"absent", "available", "leased", "completed", "failed"},
           owner: Worker \cup {NoWorker}, fence: Nat, lapsed: BOOLEAN]

ToolRow == [gen: 0 .. MaxGen,   \* generation of the recorded intent, 0 before that
            approval: {"none", "pending", "approved", "denied", "expired"},
            late: BOOLEAN,      \* the intent's expiresAt has passed
            granted: Nat,       \* the epoch the approval was granted in
            admission: {"none", "started", "settled"}]

MemberRow == [initiator: BOOLEAN, approver: BOOLEAN, epoch: 0 .. MaxEpoch]

KernelTypeOK ==
  /\ exec \in ExecRow
  /\ jobs \in [Gen -> JobRow]
  /\ tool \in [Call -> ToolRow]
  /\ member \in MemberRow

FreshJob(status) == [status |-> status, owner |-> NoWorker, fence |-> 0, lapsed |-> FALSE]

(* submitTurn has committed: the Execution is queued with its first job. *)
KernelInit ==
  /\ exec = [status |-> "queued", gen |-> 1, cancelGen |-> 0]
  /\ jobs = [g \in Gen |-> FreshJob(IF g = 1 THEN "available" ELSE "absent")]
  /\ tool = [c \in Call |-> [gen |-> 0, approval |-> "none", late |-> FALSE,
                             granted |-> 0, admission |-> "none"]]
  /\ member = [initiator |-> TRUE, approver |-> TRUE, epoch |-> 0]

----------------------------------------------------------------------------
(* Shared pieces of kernel transactions *)

(* Mutant: only the calls somebody approved are looked at. *)
HasUnsettledApproval ==
  \E c \in Call : tool[c].approval # "none" /\ tool[c].admission = "started"

(* A dispatched call without a confirmed result (hasUnsettledToolCalls). *)
HasUnsettled == \E c \in Call : tool[c].admission = "started"

(* expireExecutionApprovals *)
ExpiredApprovals ==
  [c \in Call |-> IF tool[c].approval \in {"pending", "approved"}
                  THEN [tool[c] EXCEPT !.approval = "expired"] ELSE tool[c]]

----------------------------------------------------------------------------
(* Commands of users *)

(* The cancel command. A call in flight turns the cancellation into a reconciliation. *)
CancelExecution ==
  /\ exec.status \notin Finished
  /\ exec' = [exec EXCEPT !.cancelGen = exec.gen,
                !.status = IF exec.status = "needs_reconciliation" \/ HasUnsettled
                           THEN "needs_reconciliation" ELSE "cancelled"]
  /\ tool' = ExpiredApprovals
  /\ UNCHANGED <<jobs, member>>

(* The resume command: a new generation with a job of its own. *)
ResumeExecution ==
  /\ exec.status \in {"paused", "interrupted"}
  /\ member.initiator
  /\ exec.gen < MaxGen
  /\ exec' = [exec EXCEPT !.status = "queued", !.gen = @ + 1]
  /\ tool' = ExpiredApprovals
  /\ jobs' = [jobs EXCEPT ![exec.gen + 1] = FreshJob("available")]
  /\ UNCHANGED member

(* Mutant: the worker that waits, and not the decision, moves the Execution on. *)
DecideLeavingWait(c, decision) ==
  /\ tool[c].approval = "pending" /\ ~tool[c].late
  /\ decision = "approved" => member.initiator /\ member.approver
  /\ exec.status = "waiting_approval"
  /\ tool[c].gen = exec.gen
  /\ tool' = [tool EXCEPT ![c].approval = decision, ![c].granted = member.epoch]
  /\ UNCHANGED <<exec, jobs, member>>

(* decideApproval *)
DecideApproval(c, decision) ==
  /\ tool[c].approval = "pending" /\ ~tool[c].late
  /\ decision = "approved" => member.initiator /\ member.approver
  /\ exec.status = "waiting_approval"
  /\ tool[c].gen = exec.gen
  /\ tool' = [tool EXCEPT ![c].approval = decision, ![c].granted = member.epoch]
  /\ exec' = [exec EXCEPT !.status = IF decision = "approved" THEN "running" ELSE "failed"]
  /\ UNCHANGED <<jobs, member>>

(* revokeMemberExecutions, for an Execution that depends on the member. *)
Revoked ==
  /\ exec' = [exec EXCEPT !.status = IF exec.status = "needs_reconciliation" \/ HasUnsettled
                                     THEN "needs_reconciliation" ELSE "interrupted"]
  /\ tool' = ExpiredApprovals

(* The initiator is removed, or loses a role that may run Executions. *)
RevokeInitiator ==
  /\ member.initiator /\ member.epoch < MaxEpoch
  /\ member' = [member EXCEPT !.initiator = FALSE, !.epoch = @ + 1]
  /\ IF exec.status \in Finished THEN UNCHANGED <<exec, tool>> ELSE Revoked
  /\ UNCHANGED jobs

(* Mutant: the check at dispatch is relied upon to notice. *)
RevokeApproverOnly ==
  /\ member.approver /\ member.epoch < MaxEpoch
  /\ member' = [member EXCEPT !.approver = FALSE, !.epoch = @ + 1]
  /\ UNCHANGED <<exec, jobs, tool>>

(* The approver is removed, or loses a role that may approve. *)
RevokeApprover ==
  /\ member.approver /\ member.epoch < MaxEpoch
  /\ member' = [member EXCEPT !.approver = FALSE, !.epoch = @ + 1]
  /\ IF exec.status \notin Finished /\ \E c \in Call : tool[c].approval = "approved"
     THEN Revoked ELSE UNCHANGED <<exec, tool>>
  /\ UNCHANGED jobs

(* One of them is added again, or regains the role. *)
RestoreMember ==
  /\ \/ ~member.initiator /\ member' = [member EXCEPT !.initiator = TRUE]
     \/ ~member.approver /\ member' = [member EXCEPT !.approver = TRUE]
  /\ UNCHANGED <<exec, jobs, tool>>

----------------------------------------------------------------------------
(* Storage: the Execution side of the job queue *)

(* Mutant: a leased job is its worker's for good. *)
AvailableJob(g) == jobs[g].status = "available"

(* A job the claim query selects: available, or leased and run out. *)
ClaimableJob(g) ==
  \/ jobs[g].status = "available"
  \/ jobs[g].status = "leased" /\ jobs[g].lapsed

(* order by available_at: the job of an older generation comes first *)
FirstClaimable(g) ==
  /\ ClaimableJob(g)
  /\ \A k \in Gen : k < g => ~ClaimableJob(k)

(* Mutant: only the jobs of a stopped Execution are closed. *)
CloseStoppedOnly(g) ==
  /\ FirstClaimable(g)
  /\ exec.status \in Stopped
  /\ jobs' = [jobs EXCEPT ![g].status = "failed", ![g].owner = NoWorker, ![g].lapsed = FALSE]
  /\ UNCHANGED <<exec, tool, member>>

(* settleTerminalAgentJobBeforeClaim: the job of a stopped Execution is closed, not run. *)
CloseBeforeClaim(g) ==
  /\ FirstClaimable(g)
  /\ exec.status \in Finished \cup Stopped
  /\ jobs' = [jobs EXCEPT ![g].status = "failed", ![g].owner = NoWorker, ![g].lapsed = FALSE]
  /\ UNCHANGED <<exec, tool, member>>

(* claimJob and recordJobClaim: the lease, and queued becomes running. *)
LeaseJob(w, g) ==
  /\ FirstClaimable(g)
  /\ exec.status \in {"queued", "running", "waiting_approval"}
  /\ jobs' = [jobs EXCEPT ![g] = [status |-> "leased", owner |-> w,
                                  fence |-> @.fence + 1, lapsed |-> FALSE]]
  /\ exec' = [exec EXCEPT !.status = IF @ = "queued" THEN "running" ELSE @]
  /\ UNCHANGED <<tool, member>>

(* The row after its holder settled it. *)
Settled(g, outcome) ==
  [jobs EXCEPT ![g].status = outcome, ![g].owner = NoWorker, ![g].lapsed = FALSE]

(* recordJobTerminal on a failed job: the statuses it leaves alone, and those it fails. *)
FailLeaves(code) ==
  {"failed", "completed", "interrupted", "needs_reconciliation"}
    \cup (IF code = "EXECUTION_CANCELLED" THEN {"cancelled"} ELSE {})
Live == {"running", "waiting_approval"}

(* failJob; any other status makes the transaction throw. *)
FailJob(g, code) ==
  /\ exec.status \in FailLeaves(code) \cup Live
  /\ exec' = [exec EXCEPT !.status = IF @ \in Live THEN "failed" ELSE @]
  /\ jobs' = Settled(g, "failed")
  /\ UNCHANGED <<tool, member>>

(* completeJob, with the status the runtime ended in. *)
CompleteJob(g, status) ==
  /\ exec.status = "running"
  /\ exec' = [exec EXCEPT !.status = status]
  /\ jobs' = Settled(g, "completed")
  /\ UNCHANGED <<tool, member>>

(* interruptJob; any other status makes the transaction throw. *)
InterruptAccepts == Live \cup {"interrupted", "needs_reconciliation"}
(* Mutant: the job is settled and the Execution left to the next one. *)
InterruptJobOnly(g) ==
  /\ exec.status \in InterruptAccepts
  /\ jobs' = Settled(g, "failed")
  /\ UNCHANGED <<exec, tool, member>>

InterruptJob(g) ==
  /\ exec.status \in InterruptAccepts
  /\ exec' = [exec EXCEPT !.status = IF @ \in Live THEN "interrupted" ELSE @]
  /\ jobs' = Settled(g, "failed")
  /\ UNCHANGED <<tool, member>>

(* markNeedsReconciliation, whatever the Execution's status. *)
MarkNeedsReconciliation(g) ==
  /\ exec' = [exec EXCEPT !.status = "needs_reconciliation"]
  /\ jobs' = Settled(g, "failed")
  /\ UNCHANGED <<tool, member>>

----------------------------------------------------------------------------
(* Kernel transactions of the runtime *)

(* requestToolApproval for a call that needs a human; asked again, it answers the same. *)
RequestApproval(c, gen) ==
  IF tool[c].gen # 0 THEN UNCHANGED kernelVars
  ELSE /\ exec.status = "running" /\ exec.gen = gen /\ member.initiator
       /\ tool' = [tool EXCEPT ![c].gen = gen, ![c].approval = "pending"]
       /\ exec' = [exec EXCEPT !.status = "waiting_approval"]
       /\ UNCHANGED <<jobs, member>>

(* requestToolApproval for a call the authority allows by itself. *)
RecordAutoIntent(c, gen) ==
  IF tool[c].gen # 0 THEN UNCHANGED kernelVars
  ELSE /\ exec.status = "running" /\ exec.gen = gen /\ member.initiator
       /\ tool' = [tool EXCEPT ![c].gen = gen]
       /\ UNCHANGED <<exec, jobs, member>>

(* assertCurrentToolApproval *)
ApprovalCurrent(c) ==
  \/ tool[c].approval = "none"
  \/ tool[c].approval = "approved" /\ ~tool[c].late /\ member.approver

(* The expiresAt of a recorded intent passes before its call is dispatched. *)
IntentExpires(c) ==
  /\ tool[c].gen # 0 /\ tool[c].admission = "none" /\ ~tool[c].late
  /\ tool' = [tool EXCEPT ![c].late = TRUE]
  /\ UNCHANGED <<exec, jobs, member>>

(* recordToolAdmission, at dispatch and at a confirmed result. *)
Admit(c) ==
  /\ tool[c].admission = "none"
  /\ tool' = [tool EXCEPT ![c].admission = "started"]
SettleAdmission(c) ==
  tool' = [tool EXCEPT ![c].admission = IF @ = "started" THEN "settled" ELSE @]

----------------------------------------------------------------------------
(* Properties *)

(* An Execution that is queued, running or waiting always has an unsettled job of *)
(* its own generation: no order of claims, cancellations, resumes, revocations    *)
(* and settlements strands it with nobody left to carry it on.                    *)
LiveHasJob ==
  exec.status \in {"queued", "running", "waiting_approval"} =>
    jobs[exec.gen].status \in {"available", "leased"}

(* An Execution that waits for a person waits for an undecided request of its own *)
(* generation, so somebody can always move it (requestToolApproval, decideApproval). *)
WaitingHasRequest ==
  exec.status = "waiting_approval" =>
    \E c \in Call : tool[c].approval = "pending" /\ tool[c].gen = exec.gen

(* A cancelled Execution has no call in flight, whichever of the cancellation, the *)
(* dispatch and the result came first: such a cancellation is a reconciliation.    *)
CancelledIsQuiet ==
  exec.status = "cancelled" => \A c \in Call : tool[c].admission # "started"

(* An ended Execution stays ended, but that its outcome may turn out to be unknown: *)
(* no late settlement, decision, revocation or command revives or relabels it.      *)
EndedStaysEnded ==
  [][exec.status \in Finished =>
       exec'.status \in {exec.status, "needs_reconciliation"}]_kernelVars
=============================================================================

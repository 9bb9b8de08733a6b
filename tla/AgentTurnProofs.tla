--------------------------- MODULE AgentTurnProofs ---------------------------
(***************************************************************************)
(* First part: what every transaction on an Execution preserves, whoever   *)
(* runs it and in whatever order: types, the job behind a live Execution,  *)
(* the request behind a wait, and the quiet of a cancelled Execution.      *)
(* Second part: the Workers move an Execution only by these transactions,  *)
(* so the invariant holds of them, for every number of workers, calls,     *)
(* generations, revocations and faults.                                    *)
(* Third part: rows and fences give one runner, and one runner keeps the   *)
(* log in step with the turn: no call overtakes one that is in flight.     *)
(* Fourth part: what the log then knows, and that kernel, storage, Workers *)
(* and runtime together implement ExecutionLife.                           *)
(***************************************************************************)
EXTENDS AgentTurn, TLAPS

(* The transactions, each under the weakest guard its callers give it. *)
UserTransaction ==
  \/ CancelExecution
  \/ ResumeExecution
  \/ \E c \in Call, decision \in {"approved", "denied"} : DecideApproval(c, decision)
  \/ RevokeInitiator
  \/ RevokeApprover
  \/ RestoreMember

LapseLease(g) ==
  /\ jobs[g].status = "leased"
  /\ jobs' = [jobs EXCEPT ![g].lapsed = TRUE]
  /\ UNCHANGED <<exec, tool, member>>

QueueTransaction ==
  \E g \in Gen :
    \/ CloseBeforeClaim(g)
    \/ \E w \in Worker : LeaseJob(w, g)
    \/ LapseLease(g)
    \/ \E code \in {"EXECUTION_CANCELLED", "JOB_EXECUTION_FAILED"} : FailJob(g, code)
    \/ \E status \in {"completed", "paused"} : CompleteJob(g, status)
    \/ InterruptJob(g)
    \/ MarkNeedsReconciliation(g)

DispatchCall(c) ==
  /\ exec.status # "cancelled"
  /\ Admit(c)
  /\ UNCHANGED <<exec, jobs, member>>

ToolTransaction ==
  \E c \in Call :
    \/ \E gen \in 0 .. MaxGen : RequestApproval(c, gen) \/ RecordAutoIntent(c, gen)
    \/ IntentExpires(c)
    \/ DispatchCall(c)
    \/ SettleAdmission(c) /\ UNCHANGED <<exec, jobs, member>>

Transaction ==
  \/ UserTransaction
  \/ QueueTransaction
  \/ ToolTransaction
  \/ UNCHANGED kernelVars

KernelInv ==
  /\ KernelTypeOK
  /\ LiveHasJob
  /\ WaitingHasRequest
  /\ CancelledIsQuiet

USE ExecutionAssumption
-----------------------------------------------------------------------------
(* A fresh Execution satisfies the invariant. *)
LEMMA InitInv == KernelInit => KernelInv
BY SMT DEF KernelInit, KernelInv, KernelTypeOK, LiveHasJob, WaitingHasRequest, CancelledIsQuiet,
   Gen, Status, Finished, Stopped, ExecRow, JobRow, ToolRow, MemberRow, FreshJob

(* Typed updates of single rows. *)
LEMMA StatusUpdate ==
  ASSUME NEW s \in Status, exec \in ExecRow
  PROVE  [exec EXCEPT !.status = s] \in ExecRow
BY DEF ExecRow

LEMMA CancelUpdate ==
  ASSUME NEW s \in Status, exec \in ExecRow
  PROVE  [exec EXCEPT !.cancelGen = exec.gen, !.status = s] \in ExecRow
<1>1. exec.gen \in 0 .. MaxGen
  BY DEF ExecRow, Gen
<1>2. [exec EXCEPT !.cancelGen = exec.gen] \in ExecRow
  BY <1>1 DEF ExecRow
<1> QED
  BY <1>2 DEF ExecRow

LEMMA MemberUpdate ==
  ASSUME member \in MemberRow, member.epoch < MaxEpoch
  PROVE  /\ [member EXCEPT !.initiator = FALSE, !.epoch = @ + 1] \in MemberRow
         /\ [member EXCEPT !.approver = FALSE, !.epoch = @ + 1] \in MemberRow
<1>1. member.epoch + 1 \in 0 .. MaxEpoch
  BY DEF MemberRow
<1> QED
  BY <1>1 DEF MemberRow

LEMMA JobUpdate ==
  ASSUME NEW g \in Gen, NEW s \in {"available", "leased", "completed", "failed"},
         jobs \in [Gen -> JobRow]
  PROVE  [jobs EXCEPT ![g].status = s, ![g].owner = NoWorker, ![g].lapsed = FALSE] \in [Gen -> JobRow]
<1> DEFINE row == [jobs[g] EXCEPT !.status = s, !.owner = NoWorker, !.lapsed = FALSE]
<1>1. jobs[g] \in JobRow
  OBVIOUS
<1>2. row \in JobRow
  BY <1>1 DEF JobRow
<1>3. [jobs EXCEPT ![g] = row] \in [Gen -> JobRow]
  BY <1>2
<1> QED
  BY <1>1, <1>3 DEF JobRow

LEMMA ExpiredTyped == tool \in [Call -> ToolRow] => ExpiredApprovals \in [Call -> ToolRow]
BY DEF ExpiredApprovals, ToolRow

(* Transactions keep the types of the projections and of the job rows. *)
LEMMA UserTyped == KernelTypeOK /\ UserTransaction => KernelTypeOK'
<1> SUFFICES ASSUME KernelTypeOK, UserTransaction PROVE KernelTypeOK'
  OBVIOUS
<1> USE DEF KernelTypeOK
<1>1. ExpiredApprovals \in [Call -> ToolRow]
  BY ExpiredTyped
<1>2. CASE CancelExecution
  <2> DEFINE s == IF exec.status = "needs_reconciliation" \/ HasUnsettled
                  THEN "needs_reconciliation" ELSE "cancelled"
  <2>1. exec' \in ExecRow
    <3>1. s \in Status
      BY DEF Status, Stopped, Finished
    <3>2. exec' = [exec EXCEPT !.cancelGen = exec.gen, !.status = s]
      BY <1>2 DEF CancelExecution
    <3> HIDE DEF s
    <3> QED
      BY <3>1, <3>2, CancelUpdate
  <2> QED
    BY <1>1, <1>2, <2>1 DEF CancelExecution
<1>3. CASE ResumeExecution
  <2>1. exec.gen + 1 \in Gen
    BY <1>3 DEF ResumeExecution, Gen, ExecRow
  <2>2. exec' \in ExecRow
    BY <1>3, <2>1 DEF ResumeExecution, ExecRow, Status
  <2>3. jobs' \in [Gen -> JobRow]
    BY <1>3, <2>1 DEF ResumeExecution, FreshJob, JobRow
  <2> QED
    BY <1>1, <1>3, <2>2, <2>3 DEF ResumeExecution
<1>4. CASE \E c \in Call, decision \in {"approved", "denied"} : DecideApproval(c, decision)
  <2> PICK c \in Call, decision \in {"approved", "denied"} : DecideApproval(c, decision)
    BY <1>4
  <2>1. exec' \in ExecRow
    BY StatusUpdate DEF DecideApproval, Status, Finished
  <2>2. tool' \in [Call -> ToolRow]
    <3>1. member.epoch \in Nat
      BY DEF MemberRow
    <3>2. tool' = [tool EXCEPT ![c] = [@ EXCEPT !.approval = decision, !.granted = member.epoch]]
      BY DEF DecideApproval
    <3>3. [tool[c] EXCEPT !.approval = decision, !.granted = member.epoch] \in ToolRow
      BY <3>1 DEF ToolRow
    <3> QED
      BY <3>2, <3>3
  <2> QED
    BY <2>1, <2>2 DEF DecideApproval
<1>5. Revoked => exec' \in ExecRow /\ tool' \in [Call -> ToolRow]
  BY <1>1, StatusUpdate DEF Revoked, Status, Stopped
<1>6. CASE RevokeInitiator
  <2>1. member' \in MemberRow
    BY <1>6, MemberUpdate DEF RevokeInitiator
  <2> QED
    BY <1>5, <1>6, <2>1 DEF RevokeInitiator
<1>7. CASE RevokeApprover
  <2>1. member' \in MemberRow
    BY <1>7, MemberUpdate DEF RevokeApprover
  <2> QED
    BY <1>5, <1>7, <2>1 DEF RevokeApprover
<1>8. CASE RestoreMember
  BY <1>8 DEF RestoreMember, MemberRow
<1> QED
  BY <1>2, <1>3, <1>4, <1>6, <1>7, <1>8 DEF UserTransaction

LEMMA QueueTyped == KernelTypeOK /\ QueueTransaction => KernelTypeOK'
<1> SUFFICES ASSUME KernelTypeOK, QueueTransaction PROVE KernelTypeOK'
  OBVIOUS
<1> USE DEF KernelTypeOK
<1> PICK g \in Gen :
      \/ CloseBeforeClaim(g)
      \/ \E w \in Worker : LeaseJob(w, g)
      \/ LapseLease(g)
      \/ \E code \in {"EXECUTION_CANCELLED", "JOB_EXECUTION_FAILED"} : FailJob(g, code)
      \/ \E status \in {"completed", "paused"} : CompleteJob(g, status)
      \/ InterruptJob(g)
      \/ MarkNeedsReconciliation(g)
  BY DEF QueueTransaction
<1>1. CASE CloseBeforeClaim(g)
  BY <1>1, JobUpdate DEF CloseBeforeClaim
<1>2. CASE \E w \in Worker : LeaseJob(w, g)
  <2>1. jobs' \in [Gen -> JobRow]
    BY <1>2 DEF LeaseJob, JobRow
  <2>2. exec' \in ExecRow
    BY <1>2 DEF LeaseJob, ExecRow, Status
  <2> QED
    BY <1>2, <2>1, <2>2 DEF LeaseJob
<1>3. CASE LapseLease(g)
  BY <1>3 DEF LapseLease, JobRow
<1>4. CASE \E code \in {"EXECUTION_CANCELLED", "JOB_EXECUTION_FAILED"} : FailJob(g, code)
  <2>1. exec' \in ExecRow
    BY <1>4 DEF FailJob, ExecRow, Status, Finished
  <2>2. Settled(g, "failed") \in [Gen -> JobRow]
    BY JobUpdate DEF Settled
  <2> QED
    BY <1>4, <2>1, <2>2 DEF FailJob
<1>5. CASE \E status \in {"completed", "paused"} : CompleteJob(g, status)
  <2> PICK status \in {"completed", "paused"} : CompleteJob(g, status)
    BY <1>5
  <2>1. status \in Status
    BY DEF Status, Finished, Stopped
  <2>2. Settled(g, "completed") \in [Gen -> JobRow]
    BY JobUpdate DEF Settled
  <2> QED
    BY <2>1, <2>2, StatusUpdate DEF CompleteJob
<1>6. CASE InterruptJob(g)
  <2>1. exec' \in ExecRow
    BY <1>6 DEF InterruptJob, ExecRow, Status, Stopped
  <2> QED
    BY <1>6, <2>1, JobUpdate DEF InterruptJob, Settled
<1>7. CASE MarkNeedsReconciliation(g)
  BY <1>7, JobUpdate, StatusUpdate DEF MarkNeedsReconciliation, Settled, Status, Stopped
<1> QED
  BY <1>1, <1>2, <1>3, <1>4, <1>5, <1>6, <1>7

LEMMA ToolTyped == KernelTypeOK /\ ToolTransaction => KernelTypeOK'
<1> SUFFICES ASSUME KernelTypeOK, ToolTransaction PROVE KernelTypeOK'
  OBVIOUS
<1> USE DEF KernelTypeOK
<1> PICK c \in Call :
      \/ \E gen \in 0 .. MaxGen : RequestApproval(c, gen) \/ RecordAutoIntent(c, gen)
      \/ IntentExpires(c)
      \/ DispatchCall(c)
      \/ SettleAdmission(c) /\ UNCHANGED <<exec, jobs, member>>
  BY DEF ToolTransaction
<1>1. CASE \E gen \in 0 .. MaxGen : RequestApproval(c, gen)
  <2> PICK gen \in 0 .. MaxGen : RequestApproval(c, gen)
    BY <1>1
  <2>1. CASE tool[c].gen # 0
    BY <2>1 DEF RequestApproval, kernelVars
  <2>2. CASE tool[c].gen = 0
    <3>1. tool' \in [Call -> ToolRow]
      BY <2>2 DEF RequestApproval, ToolRow
    <3>2. exec' \in ExecRow
      BY <2>2, StatusUpdate DEF RequestApproval, Status
    <3> QED
      BY <2>2, <3>1, <3>2 DEF RequestApproval
  <2> QED
    BY <2>1, <2>2
<1>2. CASE \E gen \in 0 .. MaxGen : RecordAutoIntent(c, gen)
  BY <1>2 DEF RecordAutoIntent, ToolRow, kernelVars
<1>3. CASE IntentExpires(c)
  BY <1>3 DEF IntentExpires, ToolRow
<1>4. CASE DispatchCall(c)
  BY <1>4 DEF DispatchCall, Admit, ToolRow
<1>5. CASE SettleAdmission(c) /\ UNCHANGED <<exec, jobs, member>>
  BY <1>5 DEF SettleAdmission, ToolRow
<1> QED
  BY <1>1, <1>2, <1>3, <1>4, <1>5

LEMMA TransactionTyped == KernelTypeOK /\ Transaction => KernelTypeOK'
BY UserTyped, QueueTyped, ToolTyped DEF Transaction, KernelTypeOK, kernelVars

-----------------------------------------------------------------------------
(* A live Execution keeps an unsettled job of its generation: a transaction that *)
(* settles or closes a job takes the Execution out of its live statuses.         *)
LEMMA LiveStep == KernelTypeOK /\ LiveHasJob /\ Transaction => LiveHasJob'
<1> SUFFICES ASSUME KernelTypeOK, LiveHasJob, Transaction PROVE LiveHasJob'
  OBVIOUS
<1> USE DEF LiveHasJob
<1>0. exec.gen \in Gen /\ exec.status \in Status /\ jobs \in [Gen -> JobRow]
  BY DEF KernelTypeOK, ExecRow
<1>1. CASE UserTransaction
  <2>1. CASE CancelExecution
    BY <2>1, <1>0 DEF CancelExecution, KernelTypeOK, ExecRow
  <2>2. CASE ResumeExecution
    BY <2>2, <1>0 DEF ResumeExecution, KernelTypeOK, ExecRow, FreshJob, Gen
  <2>3. CASE \E c \in Call, decision \in {"approved", "denied"} : DecideApproval(c, decision)
    BY <2>3, <1>0 DEF DecideApproval, KernelTypeOK, ExecRow
  <2>4. Revoked => exec'.status \notin {"queued", "running", "waiting_approval"}
    BY DEF Revoked, KernelTypeOK, ExecRow
  <2>5. CASE RevokeInitiator
    BY <2>4, <2>5 DEF RevokeInitiator
  <2>6. CASE RevokeApprover
    BY <2>4, <2>6 DEF RevokeApprover
  <2>7. CASE RestoreMember
    BY <2>7 DEF RestoreMember
  <2> QED
    BY <1>1, <2>1, <2>2, <2>3, <2>5, <2>6, <2>7 DEF UserTransaction
<1>2. CASE QueueTransaction
  <2> PICK g \in Gen :
        \/ CloseBeforeClaim(g)
        \/ \E w \in Worker : LeaseJob(w, g)
        \/ LapseLease(g)
        \/ \E code \in {"EXECUTION_CANCELLED", "JOB_EXECUTION_FAILED"} : FailJob(g, code)
        \/ \E status \in {"completed", "paused"} : CompleteJob(g, status)
        \/ InterruptJob(g)
        \/ MarkNeedsReconciliation(g)
    BY <1>2 DEF QueueTransaction
  <2>1. CASE CloseBeforeClaim(g)
    BY <2>1 DEF CloseBeforeClaim, Finished, Stopped
  <2>2. CASE \E w \in Worker : LeaseJob(w, g)
    BY <2>2, <1>0 DEF LeaseJob, KernelTypeOK, ExecRow, JobRow
  <2>3. CASE LapseLease(g)
    BY <2>3, <1>0 DEF LapseLease, JobRow
  <2>4. CASE \E code \in {"EXECUTION_CANCELLED", "JOB_EXECUTION_FAILED"} : FailJob(g, code)
    BY <2>4 DEF FailJob, FailLeaves, Live, KernelTypeOK, ExecRow
  <2>5. CASE \E status \in {"completed", "paused"} : CompleteJob(g, status)
    BY <2>5 DEF CompleteJob, KernelTypeOK, ExecRow
  <2>6. CASE InterruptJob(g)
    BY <2>6 DEF InterruptJob, InterruptAccepts, Live, KernelTypeOK, ExecRow
  <2>7. CASE MarkNeedsReconciliation(g)
    BY <2>7 DEF MarkNeedsReconciliation, KernelTypeOK, ExecRow
  <2> QED
    BY <2>1, <2>2, <2>3, <2>4, <2>5, <2>6, <2>7
<1>3. CASE ToolTransaction
  BY <1>3, <1>0 DEF ToolTransaction, RequestApproval, RecordAutoIntent, IntentExpires, DispatchCall,
     kernelVars, KernelTypeOK, ExecRow
<1>4. CASE UNCHANGED kernelVars
  BY <1>4 DEF kernelVars
<1> QED
  BY <1>1, <1>2, <1>3, <1>4 DEF Transaction

(* A waiting Execution keeps its pending request: whatever ends the request, a decision *)
(* or an expiry, ends the wait in the same transaction.                                 *)
LEMMA WaitingStep == KernelTypeOK /\ WaitingHasRequest /\ Transaction => WaitingHasRequest'
<1> SUFFICES ASSUME KernelTypeOK, WaitingHasRequest, Transaction PROVE WaitingHasRequest'
  OBVIOUS
<1>0. exec \in ExecRow /\ exec.gen \in Gen /\ tool \in [Call -> ToolRow] /\ \A g \in Gen : g # 0
  BY DEF KernelTypeOK, ExecRow, Gen
<1> HIDE DEF KernelTypeOK
<1>1. CASE UserTransaction
  <2>1. CASE CancelExecution \/ ResumeExecution
    BY <2>1, <1>0 DEF CancelExecution, ResumeExecution, WaitingHasRequest, ExecRow
  <2>2. CASE \E c \in Call, decision \in {"approved", "denied"} : DecideApproval(c, decision)
    BY <2>2, <1>0 DEF DecideApproval, WaitingHasRequest, ExecRow
  <2>3. Revoked => exec'.status # "waiting_approval"
    BY <1>0 DEF Revoked, ExecRow
  <2>4. CASE RevokeInitiator \/ RevokeApprover
    BY <2>3, <2>4 DEF RevokeInitiator, RevokeApprover, WaitingHasRequest
  <2>5. CASE RestoreMember
    BY <2>5 DEF RestoreMember, WaitingHasRequest
  <2> QED
    BY <1>1, <2>1, <2>2, <2>4, <2>5 DEF UserTransaction
<1>2. CASE QueueTransaction
  <2>1. /\ tool' = tool
        /\ exec'.gen = exec.gen
        /\ exec'.status = "waiting_approval" => exec.status = "waiting_approval"
    BY <1>2, <1>0 DEF QueueTransaction, CloseBeforeClaim, LeaseJob, LapseLease, FailJob,
       CompleteJob, InterruptJob, MarkNeedsReconciliation, Live, ExecRow
  <2> QED
    BY <2>1 DEF WaitingHasRequest
<1>3. CASE ToolTransaction
  <2> PICK c \in Call :
        \/ \E gen \in 0 .. MaxGen : RequestApproval(c, gen) \/ RecordAutoIntent(c, gen)
        \/ IntentExpires(c)
        \/ DispatchCall(c)
        \/ SettleAdmission(c) /\ UNCHANGED <<exec, jobs, member>>
    BY <1>3 DEF ToolTransaction
  <2>1. CASE \E gen \in 0 .. MaxGen : RequestApproval(c, gen)
    BY <2>1, <1>0 DEF RequestApproval, WaitingHasRequest, kernelVars, ToolRow, ExecRow
  <2>2. CASE \E gen \in 0 .. MaxGen : RecordAutoIntent(c, gen)
    BY <2>2, <1>0 DEF RecordAutoIntent, WaitingHasRequest, kernelVars, ToolRow
  <2>3. ASSUME exec' = exec,
               \A d \in Call : tool'[d].approval = tool[d].approval /\ tool'[d].gen = tool[d].gen
        PROVE  WaitingHasRequest'
    BY <2>3 DEF WaitingHasRequest
  <2>4. CASE IntentExpires(c)
    BY <2>3, <2>4, <1>0 DEF IntentExpires, ToolRow
  <2>5. CASE DispatchCall(c)
    BY <2>3, <2>5, <1>0 DEF DispatchCall, Admit, ToolRow
  <2>6. CASE SettleAdmission(c) /\ UNCHANGED <<exec, jobs, member>>
    BY <2>3, <2>6, <1>0 DEF SettleAdmission, ToolRow
  <2> QED
    BY <2>1, <2>2, <2>4, <2>5, <2>6
<1>4. CASE UNCHANGED kernelVars
  BY <1>4 DEF kernelVars, WaitingHasRequest
<1> QED
  BY <1>1, <1>2, <1>3, <1>4 DEF Transaction

(* A cancelled Execution stays quiet: the cancellation looked, and dispatch looks again. *)
LEMMA QuietStep == KernelTypeOK /\ CancelledIsQuiet /\ Transaction => CancelledIsQuiet'
<1> SUFFICES ASSUME KernelTypeOK, CancelledIsQuiet, Transaction PROVE CancelledIsQuiet'
  OBVIOUS
<1>0. exec \in ExecRow /\ tool \in [Call -> ToolRow]
  BY DEF KernelTypeOK
<1>e. \A c \in Call : ExpiredApprovals[c].admission = tool[c].admission
  BY <1>0 DEF ExpiredApprovals, ToolRow
<1>1. CASE UserTransaction
  <2>1. CASE CancelExecution
    BY <2>1, <1>0, <1>e DEF CancelExecution, HasUnsettled, CancelledIsQuiet, ExecRow
  <2>2. CASE ResumeExecution
    BY <2>2, <1>0 DEF ResumeExecution, CancelledIsQuiet, ExecRow
  <2>3. CASE \E c \in Call, decision \in {"approved", "denied"} : DecideApproval(c, decision)
    BY <2>3, <1>0 DEF DecideApproval, CancelledIsQuiet, ExecRow
  <2>4. Revoked => exec'.status # "cancelled"
    BY <1>0 DEF Revoked, ExecRow
  <2>5. CASE RevokeInitiator \/ RevokeApprover
    BY <2>4, <2>5 DEF RevokeInitiator, RevokeApprover, CancelledIsQuiet
  <2>6. CASE RestoreMember
    BY <2>6 DEF RestoreMember, CancelledIsQuiet
  <2> QED
    BY <1>1, <2>1, <2>2, <2>3, <2>5, <2>6 DEF UserTransaction
<1>2. CASE QueueTransaction
  <2>1. /\ tool' = tool
        /\ exec'.status = "cancelled" => exec.status = "cancelled"
    BY <1>2, <1>0 DEF QueueTransaction, CloseBeforeClaim, LeaseJob, LapseLease, FailJob,
       CompleteJob, InterruptJob, MarkNeedsReconciliation, Live, ExecRow
  <2> QED
    BY <2>1 DEF CancelledIsQuiet
<1>3. CASE ToolTransaction
  <2>1. exec'.status = "cancelled" => exec.status = "cancelled"
    BY <1>3, <1>0 DEF ToolTransaction, RequestApproval, RecordAutoIntent, IntentExpires,
       DispatchCall, kernelVars, ExecRow
  <2>2. exec.status = "cancelled" =>
          \A c \in Call : tool'[c].admission = "started" => tool[c].admission = "started"
    BY <1>3, <1>0 DEF ToolTransaction, RequestApproval, RecordAutoIntent, IntentExpires,
       DispatchCall, SettleAdmission, kernelVars, ToolRow
  <2> QED
    BY <2>1, <2>2 DEF CancelledIsQuiet
<1>4. CASE UNCHANGED kernelVars
  BY <1>4 DEF kernelVars, CancelledIsQuiet
<1> QED
  BY <1>1, <1>2, <1>3, <1>4 DEF Transaction

(* The kernel's invariant survives every transaction. *)
LEMMA InvStep == KernelInv /\ Transaction => KernelInv'
BY TransactionTyped, LiveStep, WaitingStep, QuietStep DEF KernelInv

(* No transaction revives or relabels an ended Execution. *)
LEMMA EndedStep ==
  KernelTypeOK /\ Transaction /\ exec.status \in Finished =>
    exec'.status \in {exec.status, "needs_reconciliation"}
<1> SUFFICES ASSUME KernelTypeOK, Transaction, exec.status \in Finished
             PROVE  exec'.status \in {exec.status, "needs_reconciliation"}
  OBVIOUS
<1>0. exec \in ExecRow
  BY DEF KernelTypeOK
<1>1. CASE UserTransaction
  BY <1>0, <1>1 DEF UserTransaction, CancelExecution, ResumeExecution, DecideApproval,
     RevokeInitiator, RevokeApprover, RestoreMember, Finished, ExecRow
<1>2. CASE QueueTransaction
  BY <1>0, <1>2 DEF QueueTransaction, CloseBeforeClaim, LeaseJob, LapseLease, FailJob,
     CompleteJob, InterruptJob, MarkNeedsReconciliation, Live, InterruptAccepts, Finished, ExecRow
<1>3. CASE ToolTransaction
  BY <1>0, <1>3 DEF ToolTransaction, RequestApproval, RecordAutoIntent, IntentExpires, DispatchCall,
     kernelVars, Finished, ExecRow
<1>4. CASE UNCHANGED kernelVars
  BY <1>4 DEF kernelVars
<1> QED
  BY <1>1, <1>2, <1>3, <1>4 DEF Transaction
-----------------------------------------------------------------------------
(* What an approval in force says: it is of this generation and, unless the Execution *)
(* has ended, of the present roles of the people behind it.                           *)
Settling == Finished \cup {"needs_reconciliation"}
GrantInv ==
  \A c \in Call :
    /\ tool[c].gen = 0 => tool[c].approval = "none"
    /\ tool[c].approval \in {"pending", "approved"} => tool[c].gen = exec.gen
    /\ tool[c].approval = "approved" /\ exec.status \notin Settling =>
         tool[c].granted = member.epoch

LEMMA InitGrant == KernelInit => GrantInv
BY DEF KernelInit, GrantInv

(* A transaction that leaves the calls, the generation and the roles alone, and does not *)
(* bring an ending Execution back, keeps the approvals in force.                         *)
LEMMA SameGrants ==
  ASSUME GrantInv, exec'.gen = exec.gen, member' = member,
         \A c \in Call : /\ tool'[c].gen = tool[c].gen
                         /\ tool'[c].approval = tool[c].approval
                         /\ tool'[c].granted = tool[c].granted,
         exec.status \in Settling => exec'.status \in Settling
  PROVE  GrantInv'
BY DEF GrantInv

(* So does one after which no approval is in force. *)
LEMMA NoGrants ==
  ASSUME GrantInv, tool \in [Call -> ToolRow], tool' = ExpiredApprovals
  PROVE  GrantInv'
<1>1. \A c \in Call : /\ tool'[c].gen = tool[c].gen
                      /\ tool'[c].approval \notin {"pending", "approved"}
                      /\ tool'[c].approval = "none" <=> tool[c].approval = "none"
  BY DEF ExpiredApprovals, ToolRow
<1> QED
  BY <1>1 DEF GrantInv

LEMMA GrantStep == KernelTypeOK /\ GrantInv /\ Transaction => GrantInv'
<1> SUFFICES ASSUME KernelTypeOK, GrantInv, Transaction PROVE GrantInv'
  OBVIOUS
<1>0. exec \in ExecRow /\ exec.gen \in Gen /\ tool \in [Call -> ToolRow] /\ 0 \notin Gen
  BY DEF KernelTypeOK, ExecRow, Gen
<1>1. CASE UserTransaction
  <2>1. CASE CancelExecution \/ ResumeExecution
    BY <2>1, <1>0, NoGrants DEF CancelExecution, ResumeExecution
  <2>2. CASE \E c \in Call, decision \in {"approved", "denied"} : DecideApproval(c, decision)
    <3> PICK c \in Call, decision \in {"approved", "denied"} : DecideApproval(c, decision)
      BY <2>2
    <3>1. /\ exec.status = "waiting_approval" /\ exec'.gen = exec.gen /\ member' = member
          /\ tool[c].gen = exec.gen
      BY <1>0 DEF DecideApproval, ExecRow
    <3>2. tool'[c].gen = exec.gen /\ tool'[c].granted = member.epoch /\ tool'[c].approval = decision
      BY <1>0, <3>1 DEF DecideApproval, ToolRow
    <3>3. \A d \in Call \ {c} : tool'[d] = tool[d]
      BY <1>0 DEF DecideApproval
    <3>4. exec.gen # 0
      BY <1>0
    <3> QED
      BY <3>1, <3>2, <3>3, <3>4 DEF GrantInv, Settling, Finished
  <2>3. Revoked => GrantInv'
    BY <1>0, NoGrants DEF Revoked
  <2>4. CASE RevokeInitiator
    <3>1. CASE exec.status \in Finished /\ UNCHANGED <<exec, tool>>
      BY <3>1 DEF GrantInv, Settling
    <3> QED
      BY <2>3, <2>4, <3>1 DEF RevokeInitiator
  <2>5. CASE RevokeApprover
    <3>1. CASE exec.status \in Finished /\ UNCHANGED <<exec, tool>>
      BY <3>1 DEF GrantInv, Settling
    <3>2. CASE (\A c \in Call : tool[c].approval # "approved") /\ UNCHANGED <<exec, tool>>
      BY <3>2 DEF GrantInv
    <3> QED
      BY <2>3, <2>5, <3>1, <3>2 DEF RevokeApprover
  <2>6. CASE RestoreMember
    <3>1. member'.epoch = member.epoch
      BY <2>6 DEF RestoreMember, KernelTypeOK, MemberRow
    <3> QED
      BY <2>6, <3>1 DEF RestoreMember, GrantInv
  <2> QED
    BY <1>1, <2>1, <2>2, <2>4, <2>5, <2>6 DEF UserTransaction
<1>2. CASE QueueTransaction
  <2>1. tool' = tool /\ member' = member /\ exec'.gen = exec.gen
    BY <1>2, <1>0 DEF QueueTransaction, CloseBeforeClaim, LeaseJob, LapseLease, FailJob,
       CompleteJob, InterruptJob, MarkNeedsReconciliation, ExecRow
  <2>2. exec.status \in Settling => exec'.status \in Settling
    BY <1>2, <1>0 DEF QueueTransaction, CloseBeforeClaim, LeaseJob, LapseLease, FailJob,
       CompleteJob, InterruptJob, MarkNeedsReconciliation, Live, Settling, Finished, ExecRow
  <2> QED
    BY <2>1, <2>2, SameGrants
<1>3. CASE ToolTransaction
  <2> PICK c \in Call :
        \/ \E gen \in 0 .. MaxGen : RequestApproval(c, gen) \/ RecordAutoIntent(c, gen)
        \/ IntentExpires(c)
        \/ DispatchCall(c)
        \/ SettleAdmission(c) /\ UNCHANGED <<exec, jobs, member>>
    BY <1>3 DEF ToolTransaction
  <2>1. CASE \E gen \in 0 .. MaxGen : RequestApproval(c, gen)
    <3>1. CASE UNCHANGED kernelVars
      BY <3>1, SameGrants DEF kernelVars
    <3>2. CASE tool[c].gen = 0 /\ ~UNCHANGED kernelVars
      <4>1. /\ exec.status = "running" /\ exec'.gen = exec.gen /\ exec'.status = "waiting_approval"
            /\ member' = member
            /\ tool'[c].gen = exec.gen /\ tool'[c].approval = "pending"
        BY <2>1, <3>2, <1>0 DEF RequestApproval, ToolRow, ExecRow
      <4>2. \A d \in Call \ {c} : tool'[d] = tool[d]
        BY <2>1, <3>2, <1>0 DEF RequestApproval
      <4>3. exec.gen # 0
        BY <1>0
      <4> QED
        BY <4>1, <4>2, <4>3 DEF GrantInv, Settling, Finished
    <3> QED
      BY <2>1, <3>1, <3>2 DEF RequestApproval
  <2>2. CASE \E gen \in 0 .. MaxGen : RecordAutoIntent(c, gen)
    <3>1. CASE UNCHANGED kernelVars
      BY <3>1, SameGrants DEF kernelVars
    <3>2. CASE tool[c].gen = 0 /\ ~UNCHANGED kernelVars
      <4>1. /\ exec' = exec /\ member' = member
            /\ tool'[c].gen = exec.gen /\ tool'[c].approval = tool[c].approval
        BY <2>2, <3>2, <1>0 DEF RecordAutoIntent, ToolRow, ExecRow
      <4>2. \A d \in Call \ {c} : tool'[d] = tool[d]
        BY <2>2, <3>2, <1>0 DEF RecordAutoIntent
      <4>3. tool[c].approval = "none" /\ exec.gen # 0
        BY <1>0, <3>2 DEF GrantInv
      <4> QED
        BY <4>1, <4>2, <4>3 DEF GrantInv
    <3> QED
      BY <2>2, <3>1, <3>2 DEF RecordAutoIntent
  <2>3. CASE IntentExpires(c)
    BY <2>3, <1>0, SameGrants DEF IntentExpires, ToolRow
  <2>4. CASE DispatchCall(c)
    BY <2>4, <1>0, SameGrants DEF DispatchCall, Admit, ToolRow
  <2>5. CASE SettleAdmission(c) /\ UNCHANGED <<exec, jobs, member>>
    BY <2>5, <1>0, SameGrants DEF SettleAdmission, ToolRow
  <2> QED
    BY <2>1, <2>2, <2>3, <2>4, <2>5
<1>4. CASE UNCHANGED kernelVars
  BY <1>4, SameGrants DEF kernelVars
<1> QED
  BY <1>1, <1>2, <1>3, <1>4 DEF Transaction

(* An approval, once asked for, is never forgotten. *)
LEMMA ApprovalStays ==
  KernelTypeOK /\ GrantInv /\ Transaction =>
    \A c \in Call : tool[c].approval # "none" => tool'[c].approval # "none"
<1> SUFFICES ASSUME KernelTypeOK, GrantInv, Transaction, NEW c \in Call, tool[c].approval # "none"
             PROVE  tool'[c].approval # "none"
  OBVIOUS
<1>0. tool \in [Call -> ToolRow] /\ tool[c].gen # 0
  BY DEF KernelTypeOK, GrantInv
<1>e. ExpiredApprovals[c].approval # "none"
  BY <1>0 DEF ExpiredApprovals, ToolRow
<1>1. CASE UserTransaction
  <2>1. \A d \in Call, decision \in {"approved", "denied"} :
          DecideApproval(d, decision) => tool'[c].approval # "none"
    BY <1>0 DEF DecideApproval, ToolRow
  <2>2. \/ tool' = ExpiredApprovals
        \/ UNCHANGED tool
        \/ \E d \in Call, decision \in {"approved", "denied"} : DecideApproval(d, decision)
    BY <1>1 DEF UserTransaction, CancelExecution, ResumeExecution, RevokeInitiator, RevokeApprover,
       Revoked, RestoreMember
  <2> QED
    BY <1>e, <2>1, <2>2
<1>2. CASE QueueTransaction
  BY <1>2 DEF QueueTransaction, CloseBeforeClaim, LeaseJob, LapseLease, FailJob,
     CompleteJob, InterruptJob, MarkNeedsReconciliation
<1>3. CASE ToolTransaction
  <2>1. ASSUME NEW d \in Call, NEW gen \in 0 .. MaxGen, RequestApproval(d, gen)
        PROVE  tool'[c].approval # "none"
    BY <1>0, <2>1 DEF RequestApproval, kernelVars, ToolRow
  <2>2. ASSUME NEW d \in Call, NEW gen \in 0 .. MaxGen, RecordAutoIntent(d, gen)
        PROVE  tool'[c].approval # "none"
    BY <1>0, <2>2 DEF RecordAutoIntent, kernelVars, ToolRow
  <2>3. ASSUME NEW d \in Call, IntentExpires(d) \/ DispatchCall(d) \/ SettleAdmission(d)
        PROVE  tool'[c].approval # "none"
    BY <1>0, <2>3 DEF IntentExpires, DispatchCall, Admit, SettleAdmission, ToolRow
  <2> QED
    BY <1>3, <2>1, <2>2, <2>3 DEF ToolTransaction
<1>4. CASE UNCHANGED kernelVars
  BY <1>4 DEF kernelVars
<1> QED
  BY <1>1, <1>2, <1>3, <1>4 DEF Transaction

(* Only a dispatch starts a call: every other transaction leaves it as it is. *)
NoStart == \A c \in Call : tool[c].admission = "none" => tool'[c].admission = "none"

LEMMA OthersDoNotStart ==
  ASSUME KernelTypeOK,
         \/ UserTransaction \/ QueueTransaction \/ UNCHANGED tool
         \/ \E d \in Call : \/ \E gen \in 0 .. MaxGen : RequestApproval(d, gen) \/ RecordAutoIntent(d, gen)
                            \/ IntentExpires(d)
                            \/ SettleAdmission(d)
  PROVE  NoStart
<1> SUFFICES ASSUME NEW c \in Call, tool[c].admission = "none" PROVE tool'[c].admission = "none"
  BY DEF NoStart
<1>0. tool \in [Call -> ToolRow] /\ ExpiredApprovals[c].admission = "none"
  BY DEF KernelTypeOK, ExpiredApprovals, ToolRow
<1>1. CASE UserTransaction
  <2>1. \A d \in Call, decision \in {"approved", "denied"} :
          DecideApproval(d, decision) => tool'[c].admission = "none"
    BY <1>0 DEF DecideApproval, ToolRow
  <2>2. \/ tool' = ExpiredApprovals
        \/ UNCHANGED tool
        \/ \E d \in Call, decision \in {"approved", "denied"} : DecideApproval(d, decision)
    BY <1>1 DEF UserTransaction, CancelExecution, ResumeExecution, RevokeInitiator, RevokeApprover,
       Revoked, RestoreMember
  <2> QED
    BY <1>0, <2>1, <2>2
<1>2. CASE QueueTransaction
  BY <1>2 DEF QueueTransaction, CloseBeforeClaim, LeaseJob, LapseLease, FailJob,
     CompleteJob, InterruptJob, MarkNeedsReconciliation
<1>3. CASE \E d \in Call : \/ \E gen \in 0 .. MaxGen : RequestApproval(d, gen) \/ RecordAutoIntent(d, gen)
                           \/ IntentExpires(d)
                           \/ SettleAdmission(d)
  <2> PICK d \in Call : \/ \E gen \in 0 .. MaxGen : RequestApproval(d, gen) \/ RecordAutoIntent(d, gen)
                        \/ IntentExpires(d)
                        \/ SettleAdmission(d)
    BY <1>3
  <2>1. CASE \E gen \in 0 .. MaxGen : RequestApproval(d, gen) \/ RecordAutoIntent(d, gen)
    BY <1>0, <2>1 DEF RequestApproval, RecordAutoIntent, kernelVars, ToolRow
  <2>2. CASE IntentExpires(d)
    BY <1>0, <2>2 DEF IntentExpires, ToolRow
  <2>3. CASE SettleAdmission(d)
    BY <1>0, <2>3 DEF SettleAdmission, ToolRow
  <2> QED
    BY <2>1, <2>2, <2>3
<1> QED
  BY <1>1, <1>2, <1>3

-----------------------------------------------------------------------------
(* The handlers of AgentTurn *)

USE AgentTurnAssumption

(* A handler inside a tool call knows which one. *)
Busy == {"intent", "waiting", "granted", "started"}
BusyOK == {h \in Handler : h.pc \in Busy => h.call \in Call}

TypeInv == TypeOK /\ handlers \subseteq BusyOK

(* What every step has in common. *)
Effect ==
  /\ Transaction
  /\ log' \in LogRow
  /\ handlers' \subseteq BusyOK

Outcomes == {"none", "interrupted", "unknown", "cancelled", "stale", "error", "completed"}
Places == {"claimed", "prepared", "ready", "resume", "drain", "model", "idle", "intent",
           "waiting", "granted", "started", "unknown", "thrown"}
-----------------------------------------------------------------------------
(* Handler updates keep handlers typed. *)
LEMMA HandlerUpdates ==
  ASSUME NEW h \in BusyOK
  PROVE  /\ \A pc \in Places : (pc \in Busy => h.call \in Call) => [h EXCEPT !.pc = pc] \in BusyOK
         /\ \A out \in Outcomes : Thrown(h, out) \in BusyOK
         /\ [h EXCEPT !.stop = TRUE] \in BusyOK
         /\ [h EXCEPT !.halted = TRUE] \in BusyOK
         /\ [h EXCEPT !.pc = "drain", !.call = NoCall] \in BusyOK
         /\ \A c \in Call : [h EXCEPT !.pc = "intent", !.call = c] \in BusyOK
         /\ \A c \in Call : [h EXCEPT !.pc = "waiting", !.call = c, !.recovered = TRUE] \in BusyOK
         /\ \A g \in 0 .. MaxGen : [h EXCEPT !.pc = "prepared", !.cap = g] \in BusyOK
<1>1. \A pc \in Places : (pc \in Busy => h.call \in Call) => [h EXCEPT !.pc = pc] \in BusyOK
  BY DEF BusyOK, Handler, Places
<1>2. \A out \in Outcomes : Thrown(h, out) \in BusyOK
  BY DEF BusyOK, Busy, Handler, Outcomes, Thrown
<1>3. [h EXCEPT !.stop = TRUE] \in BusyOK /\ [h EXCEPT !.halted = TRUE] \in BusyOK
  BY DEF BusyOK, Handler
<1>4. [h EXCEPT !.pc = "drain", !.call = NoCall] \in BusyOK
  BY DEF BusyOK, Busy, Handler
<1>5. \A c \in Call : [h EXCEPT !.pc = "intent", !.call = c] \in BusyOK
  BY DEF BusyOK, Handler
<1>6. \A c \in Call : [h EXCEPT !.pc = "waiting", !.call = c, !.recovered = TRUE] \in BusyOK
  BY DEF BusyOK, Handler
<1>7. \A g \in 0 .. MaxGen : [h EXCEPT !.pc = "prepared", !.cap = g] \in BusyOK
  BY DEF BusyOK, Busy, Handler
<1> QED
  BY <1>1, <1>2, <1>3, <1>4, <1>5, <1>6, <1>7

LEMMA ReplaceTyped ==
  ASSUME handlers \subseteq BusyOK, NEW h, NEW k \in BusyOK, Replace(h, k)
  PROVE  handlers' \subseteq BusyOK
BY DEF Replace

(* A status record keeps the log typed. *)
LEMMA StatusTyped ==
  ASSUME NEW s \in Status, log \in LogRow
  PROVE  WithStatus(s) \in LogRow
<1> DEFINE calls == [c \in Call |-> IF s = "running" /\ log.call[c] = "intent" THEN "released"
                                    ELSE log.call[c]]
<1>1. calls \in [Call -> Recorded]
  BY DEF LogRow, Recorded
<1>2. WithStatus(s) = [log EXCEPT !.status = s, !.call = calls]
  BY DEF WithStatus, LogRow
<1> HIDE DEF calls
<1> QED
  BY <1>1, <1>2 DEF LogRow

LEMMA CallTyped ==
  ASSUME NEW c \in Call, NEW r \in Recorded, log \in LogRow
  PROVE  [log EXCEPT !.call[c] = r] \in LogRow
BY DEF LogRow

(* A closing scope, a settlement inside the runtime's transaction, and an escaped *)
(* error each amount to one transaction of the Execution.                         *)
LEMMA QuitEffect ==
  ASSUME TypeInv, NEW h \in BusyOK, NEW out \in Outcomes, Quit(h, out)
  PROVE  Effect
<1>1. log' \in LogRow
  BY StatusTyped DEF Quit, LogStatus, TypeInv, TypeOK, Status, Stopped
<1>2. handlers' \subseteq BusyOK
  BY HandlerUpdates, ReplaceTyped DEF Quit, Throw, TypeInv, TypeOK
<1>3. Transaction
  BY DEF Quit, Transaction
<1> QED
  BY <1>1, <1>2, <1>3 DEF Effect

LEMMA CommitEffect ==
  ASSUME TypeInv, NEW h \in BusyOK, NEW wanted \in {"completed", "paused", "failed", "cancelled"},
         Commit(h, wanted)
  PROVE  Effect
<1> DEFINE status == IF exec.status \in {"cancelled", "paused", "interrupted"}
                     THEN exec.status ELSE wanted
<1>1. CASE \E out \in {"stale", "unknown", "interrupted", "error"} : Quit(h, out)
  BY <1>1, QuitEffect DEF Outcomes
<1>2. CASE /\ LogStatus(status)
           /\ Leave(h)
           /\ \/ status \in {"completed", "paused"} /\ CompleteJob(h.gen, status)
              \/ status = "failed" /\ FailJob(h.gen, "JOB_EXECUTION_FAILED")
              \/ status = "cancelled" /\ FailJob(h.gen, "EXECUTION_CANCELLED")
  <2>1. status \in Status
    BY DEF TypeInv, TypeOK, KernelTypeOK, ExecRow, Status, Finished, Stopped
  <2> HIDE DEF status
  <2>2. log' \in LogRow
    BY <1>2, <2>1, StatusTyped DEF LogStatus, TypeInv, TypeOK
  <2>3. handlers' \subseteq BusyOK
    BY <1>2 DEF Leave, TypeInv, TypeOK
  <2>4. h.gen \in Gen
    BY DEF BusyOK, Handler
  <2>5. Transaction
    BY <1>2, <2>4 DEF Transaction, QueueTransaction
  <2> QED
    BY <2>2, <2>3, <2>5 DEF Effect
<1> QED
  BY <1>1, <1>2 DEF Commit

LEMMA FailEffect ==
  ASSUME TypeInv, NEW h \in BusyOK, Fail(h) \/ Abandon(h)
  PROVE  Effect
<1>1. CASE Commit(h, "failed")
  BY <1>1, CommitEffect
<1>2. CASE Throw(h, "interrupted") /\ UNCHANGED <<kernelVars, log>>
  BY <1>2, HandlerUpdates, ReplaceTyped DEF Throw, Effect, Transaction, TypeInv, TypeOK, Outcomes
<1> QED
  BY <1>1, <1>2 DEF Fail, Abandon

(* A handler that moves on and leaves the Execution and the log alone. *)
LEMMA QuietEffect ==
  ASSUME TypeInv, NEW h, NEW k \in BusyOK, Replace(h, k), UNCHANGED <<kernelVars, log>>
  PROVE  Effect
BY ReplaceTyped DEF Effect, Transaction, TypeInv, TypeOK

LEMMA GotoEffect ==
  ASSUME TypeInv, NEW h \in BusyOK, NEW pc \in Places, pc \in Busy => h.call \in Call,
         Goto(h, pc), UNCHANGED <<kernelVars, log>>
  PROVE  Effect
BY HandlerUpdates, QuietEffect DEF Goto

LEMMA ThrowEffect ==
  ASSUME TypeInv, NEW h \in BusyOK, NEW out \in Outcomes, Throw(h, out), UNCHANGED <<kernelVars, log>>
  PROVE  Effect
BY HandlerUpdates, QuietEffect DEF Throw

(* A handler that moves on and writes a record. *)
LEMMA RecordEffect ==
  ASSUME TypeInv, NEW h, NEW k \in BusyOK, Replace(h, k), log' \in LogRow, UNCHANGED kernelVars
  PROVE  Effect
BY ReplaceTyped DEF Effect, Transaction, TypeInv, TypeOK
-----------------------------------------------------------------------------
(* Every step of a handler is one transaction, and keeps log and handlers typed. *)
LEMMA OpenEffect ==
  ASSUME TypeInv, NEW h \in handlers,
         \/ Prepare(h) \/ OpenFresh(h) \/ OpenStopped(h) \/ OpenEnded(h)
         \/ OpenRunning(h) \/ OpenWaiting(h) \/ Resume(h)
  PROVE  Effect
<1>h. h \in BusyOK /\ h \in Handler
  BY DEF TypeInv, BusyOK
<1> USE GotoEffect, ThrowEffect, <1>h DEF Places, Outcomes, Busy
<1>1. CASE Prepare(h)
  <2>1. CASE Replace(h, [h EXCEPT !.pc = "prepared", !.cap = exec.gen]) /\ UNCHANGED <<kernelVars, log>>
    <3>1. exec.gen \in 0 .. MaxGen
      BY DEF TypeInv, TypeOK, KernelTypeOK, ExecRow, Gen
    <3> QED
      BY <2>1, <3>1, HandlerUpdates, QuietEffect
  <2> QED
    BY <1>1, <2>1 DEF Prepare
<1>2. CASE OpenFresh(h)
  BY <1>2 DEF OpenFresh
<1>3. CASE OpenStopped(h)
  BY <1>3 DEF OpenStopped
<1>4. CASE OpenEnded(h)
  BY <1>4 DEF OpenEnded
<1>5. CASE OpenRunning(h)
  <2>1. CASE LogStatus("interrupted") /\ UNCHANGED kernelVars
             /\ (Goto(h, "resume") \/ Throw(h, "interrupted"))
    <3>1. log' \in LogRow
      BY <2>1, StatusTyped DEF LogStatus, TypeInv, TypeOK, Status, Stopped
    <3> QED
      BY <2>1, <3>1, RecordEffect, HandlerUpdates DEF Goto, Throw
  <2>2. CASE /\ \E c \in Call : log' = [log EXCEPT !.call[c] = "closed"]
             /\ Goto(h, "unknown") /\ UNCHANGED kernelVars
    <3>1. log' \in LogRow
      BY <2>2, CallTyped DEF TypeInv, TypeOK, Recorded
    <3> QED
      BY <2>2, <3>1, RecordEffect, HandlerUpdates DEF Goto
  <2> QED
    BY <1>5, <2>1, <2>2 DEF OpenRunning, Unresolved
<1>6. CASE OpenWaiting(h)
  <2>1. CASE Quit(h, "error")
    BY <2>1, QuitEffect
  <2>2. CASE /\ \E c \in Call : Replace(h, [h EXCEPT !.pc = "waiting", !.call = c, !.recovered = TRUE])
             /\ UNCHANGED <<kernelVars, log>>
    BY <2>2, HandlerUpdates, QuietEffect
  <2> QED
    BY <1>6, <2>1, <2>2 DEF OpenWaiting, Unresolved
<1>7. CASE Resume(h)
  <2>1. CASE LogStatus("queued") /\ Goto(h, "ready") /\ UNCHANGED kernelVars
    <3>1. log' \in LogRow
      BY <2>1, StatusTyped DEF LogStatus, TypeInv, TypeOK, Status
    <3> QED
      BY <2>1, <3>1, RecordEffect, HandlerUpdates DEF Goto
  <2>2. CASE /\ \E c \in Call : log' = [log EXCEPT !.call[c] = "closed"]
             /\ Goto(h, "unknown") /\ UNCHANGED kernelVars
    <3>1. log' \in LogRow
      BY <2>2, CallTyped DEF TypeInv, TypeOK, Recorded
    <3> QED
      BY <2>2, <3>1, RecordEffect, HandlerUpdates DEF Goto
  <2> QED
    BY <1>7, <2>1, <2>2, ExecutionAssumption DEF Resume
<1> QED
  BY <1>1, <1>2, <1>3, <1>4, <1>5, <1>6, <1>7

LEMMA ModelEffect ==
  ASSUME TypeInv, NEW h \in handlers,
         \/ Begin(h) \/ ModelRequest(h) \/ ModelFails(h) \/ ModelAnswers(h) \/ Complete(h)
         \/ (\E c \in Call : PersistIntent(h, c)) \/ EnterApprovalWait(h)
  PROVE  Effect
<1>h. h \in BusyOK /\ h \in Handler
  BY DEF TypeInv, BusyOK
<1> USE GotoEffect, FailEffect, CommitEffect, <1>h DEF Places, Busy
<1>1. CASE Begin(h) \/ EnterApprovalWait(h)
  <2>1. log' \in LogRow
    BY <1>1, StatusTyped DEF Begin, EnterApprovalWait, LogStatus, TypeInv, TypeOK, Status
  <2> QED
    BY <1>1, <2>1, RecordEffect, HandlerUpdates DEF Begin, EnterApprovalWait, Goto, Step, BusyOK
<1>2. CASE ModelRequest(h)
  BY <1>2 DEF ModelRequest
<1>3. CASE ModelFails(h)
  BY <1>3 DEF ModelFails
<1>4. CASE ModelAnswers(h)
  BY <1>4 DEF ModelAnswers
<1>5. CASE Complete(h)
  BY <1>5 DEF Complete
<1>6. CASE \E c \in Call : PersistIntent(h, c)
  <2> PICK c \in Call : PersistIntent(h, c)
    BY <1>6
  <2>1. log' \in LogRow
    <3>1. [log EXCEPT !.call[c] = "intent"] \in LogRow
      BY CallTyped DEF TypeInv, TypeOK, Recorded
    <3>2. log' = [[log EXCEPT !.call[c] = "intent"] EXCEPT !.gen[c] = h.cap]
      BY DEF PersistIntent, TypeInv, TypeOK, LogRow
    <3>3. h.cap \in 0 .. MaxGen
      BY DEF BusyOK, Handler
    <3> QED
      BY <3>1, <3>2, <3>3 DEF LogRow
  <2> QED
    BY <2>1, RecordEffect, HandlerUpdates DEF PersistIntent
<1> QED
  BY <1>1, <1>2, <1>3, <1>4, <1>5, <1>6

LEMMA ToolEffect ==
  ASSUME TypeInv, NEW h \in handlers,
         \/ AuthorizeAuto(h) \/ AskApproval(h) \/ LeaveApprovalWait(h) \/ Dispatch(h)
         \/ ToolReturns(h) \/ ToolThrows(h) \/ DeclareUnknown(h)
  PROVE  Effect
<1>h. h \in BusyOK /\ log \in LogRow /\ handlers \subseteq BusyOK
  BY DEF TypeInv, TypeOK
<1>c. h.pc \in Busy => h.call \in Call /\ log.gen[h.call] \in 0 .. MaxGen
  BY <1>h DEF BusyOK, LogRow
<1> USE <1>h DEF Places
<1>1. CASE AuthorizeAuto(h)
  <2>1. CASE /\ Step(h, "intent") /\ RecordAutoIntent(h.call, log.gen[h.call])
             /\ Goto(h, "granted") /\ UNCHANGED log
    <3>1. h.call \in Call /\ log.gen[h.call] \in 0 .. MaxGen
      BY <2>1, <1>c DEF Step, Busy
    <3>2. handlers' \subseteq BusyOK
      BY <2>1, <3>1, HandlerUpdates, ReplaceTyped DEF Goto
    <3> QED
      BY <2>1, <3>1, <3>2 DEF Effect, Transaction, ToolTransaction
  <2> QED
    BY <1>1, <2>1, FailEffect DEF AuthorizeAuto
<1>2. CASE AskApproval(h)
  BY <1>2, <1>c DEF AskApproval, Effect, Transaction, ToolTransaction, Busy
<1>3. CASE LeaveApprovalWait(h)
  <2>1. CASE LogStatus("running") /\ Goto(h, "granted") /\ UNCHANGED kernelVars /\ Step(h, "waiting")
    <3>1. log' \in LogRow
      BY <2>1, StatusTyped DEF LogStatus, Status
    <3> QED
      BY <2>1, <3>1, <1>c, RecordEffect, HandlerUpdates DEF Goto, Step, Busy
  <2> QED
    BY <1>3, <2>1, FailEffect, CommitEffect DEF LeaveApprovalWait
<1>4. CASE Dispatch(h)
  <2>1. CASE /\ Step(h, "granted")
             /\ ~Refused(h) /\ Admit(h.call)
             /\ log' = [log EXCEPT !.call[h.call] = "started"]
             /\ Throw(h, "interrupted") \/ Goto(h, "started")
             /\ UNCHANGED <<exec, jobs, member>>
    <3>1. h.call \in Call
      BY <2>1, <1>c DEF Step, Busy
    <3>2. log' \in LogRow
      BY <2>1, <3>1, CallTyped DEF Recorded
    <3>3. handlers' \subseteq BusyOK
      BY <2>1, <3>1, HandlerUpdates, ReplaceTyped DEF Goto, Throw, Outcomes
    <3>4. DispatchCall(h.call)
      BY <2>1 DEF DispatchCall, Refused
    <3> QED
      BY <3>1, <3>2, <3>3, <3>4 DEF Effect, Transaction, ToolTransaction
  <2> QED
    BY <1>4, <2>1, FailEffect DEF Dispatch
<1>5. CASE ToolReturns(h)
  <2>1. h.call \in Call
    BY <1>5, <1>c DEF ToolReturns, Step, Busy
  <2>2. log' \in LogRow
    BY <1>5, <2>1, CallTyped DEF ToolReturns, Recorded
  <2>3. handlers' \subseteq BusyOK
    BY <1>5, HandlerUpdates, ReplaceTyped DEF ToolReturns, Throw, Outcomes
  <2> QED
    BY <1>5, <2>1, <2>2, <2>3 DEF ToolReturns, Effect, Transaction, ToolTransaction
<1>6. CASE ToolThrows(h)
  <2>1. CASE /\ Step(h, "started")
             /\ log' = [log EXCEPT !.call[h.call] = "closed"]
             /\ Goto(h, "unknown")
             /\ UNCHANGED kernelVars
    <3>1. h.call \in Call
      BY <2>1, <1>c DEF Step, Busy
    <3>2. log' \in LogRow
      BY <2>1, <3>1, CallTyped DEF Recorded
    <3> QED
      BY <2>1, <3>2, RecordEffect, HandlerUpdates DEF Goto, Busy
  <2> QED
    BY <1>6, <2>1, FailEffect DEF ToolThrows
<1>7. CASE DeclareUnknown(h)
  <2>1. log' \in LogRow
    BY <1>7, StatusTyped DEF DeclareUnknown, LogStatus, Status, Stopped
  <2> QED
    BY <1>7, <2>1, RecordEffect, HandlerUpdates DEF DeclareUnknown, Throw, Outcomes
<1> QED
  BY <1>1, <1>2, <1>3, <1>4, <1>5, <1>6, <1>7

LEMMA InterruptEffect ==
  ASSUME TypeInv, NEW h \in BusyOK, NEW stop \in BOOLEAN, h.stop => stop,
         Interrupt(h, stop), UNCHANGED kernelVars
  PROVE  Effect
<1> DEFINE k == [h EXCEPT !.stop = stop]
<1>1. k \in BusyOK
  BY DEF BusyOK, Handler
<1>2. log' \in LogRow
  BY StatusTyped DEF Interrupt, LogStatus, TypeInv, TypeOK, Status, Stopped
<1>3. Replace(h, Thrown(k, "interrupted")) \/ Replace(h, [k EXCEPT !.halted = TRUE])
  BY DEF Interrupt
<1> HIDE DEF k
<1>4. Thrown(k, "interrupted") \in BusyOK /\ [k EXCEPT !.halted = TRUE] \in BusyOK
  BY <1>1, HandlerUpdates DEF Outcomes
<1> QED
  BY <1>2, <1>3, <1>4, RecordEffect

LEMMA StopEffect ==
  ASSUME TypeInv, NEW h \in handlers,
         BudgetExpires(h) \/ ObserveControl(h) \/ InterruptAtStart(h) \/ StopWorker(h)
         \/ LoseLease(h) \/ Settle(h) \/ TransientError(h)
  PROVE  Effect
<1>h. h \in BusyOK /\ h \in Handler /\ log \in LogRow /\ handlers \subseteq BusyOK
  BY DEF TypeInv, TypeOK, BusyOK
<1> USE <1>h
<1>s. h.stop \in BOOLEAN /\ h.gen \in Gen
  BY DEF Handler
<1>1. CASE BudgetExpires(h)
  BY <1>1, CommitEffect DEF BudgetExpires
<1>2. CASE ObserveControl(h)
  <2>1. CASE Commit(h, "cancelled")
    BY <2>1, CommitEffect
  <2>2. CASE Quit(h, "interrupted")
    BY <2>2, QuitEffect DEF Outcomes
  <2>3. CASE Interrupt(h, h.stop) /\ UNCHANGED kernelVars
    BY <2>3, <1>s, InterruptEffect
  <2> QED
    BY <1>2, <2>1, <2>2, <2>3 DEF ObserveControl
<1>3. CASE InterruptAtStart(h)
  BY <1>3, InterruptEffect DEF InterruptAtStart
<1>4. CASE StopWorker(h)
  <2>1. CASE Interrupt(h, TRUE) /\ UNCHANGED kernelVars
    BY <2>1, InterruptEffect
  <2>2. CASE Replace(h, [h EXCEPT !.stop = TRUE]) /\ UNCHANGED log /\ UNCHANGED kernelVars
    BY <2>2, HandlerUpdates, QuietEffect
  <2> QED
    BY <1>4, <2>1, <2>2 DEF StopWorker
<1>5. CASE LoseLease(h)
  BY <1>5 DEF LoseLease, Leave, Effect, Transaction
<1>6. CASE Settle(h)
  <2>1. SettleThrown(h) => QueueTransaction
    BY <1>s DEF SettleThrown, QueueTransaction
  <2>2. log' \in LogRow /\ handlers' \subseteq BusyOK
    BY <1>6 DEF Settle, Leave
  <2> QED
    BY <1>6, <2>1, <2>2 DEF Settle, Effect, Transaction
<1>7. CASE TransientError(h)
  BY <1>7, ThrowEffect DEF TransientError, Outcomes
<1> QED
  BY <1>1, <1>2, <1>3, <1>4, <1>5, <1>6, <1>7

LEMMA ClaimEffect ==
  ASSUME TypeInv, NEW w \in Worker, Claim(w)
  PROVE  Effect
<1> PICK g \in Gen :
      /\ LeaseJob(w, g)
      /\ handlers' = handlers \cup
           {[worker |-> w, gen |-> g, fence |-> jobs'[g].fence, cap |-> 0, pc |-> "claimed",
             call |-> NoCall, recovered |-> FALSE, halted |-> FALSE, stop |-> FALSE,
             out |-> "none"]}
  BY DEF Claim
<1>1. jobs'[g].fence \in Nat
  BY DEF LeaseJob, TypeInv, TypeOK, KernelTypeOK, JobRow
<1>2. [worker |-> w, gen |-> g, fence |-> jobs'[g].fence, cap |-> 0, pc |-> "claimed",
       call |-> NoCall, recovered |-> FALSE, halted |-> FALSE, stop |-> FALSE,
       out |-> "none"] \in BusyOK
  BY <1>1, ExecutionAssumption DEF BusyOK, Busy, Handler
<1>3. handlers' \subseteq BusyOK /\ log' \in LogRow
  BY <1>2 DEF Claim, TypeInv, TypeOK
<1> QED
  BY <1>3 DEF Effect, Transaction, QueueTransaction

(* Every step of the system is one transaction of its Execution. *)
LEMMA NextEffect ==
  ASSUME TypeInv, [Next]_vars
  PROVE  Effect
<1>t. log \in LogRow /\ handlers \subseteq BusyOK
  BY DEF TypeInv, TypeOK
<1>1. CASE UserStep
  BY <1>1, <1>t DEF UserStep, Effect, Transaction, UserTransaction
<1>2. CASE ClockStep
  <2>1. CASE \E g \in Gen : LeaseLapses(g)
    BY <2>1, <1>t DEF LeaseLapses, LapseLease, Effect, Transaction, QueueTransaction
  <2>2. CASE \E c \in Call : IntentExpires(c) /\ UNCHANGED <<log, handlers, faults>>
    BY <2>2, <1>t DEF Effect, Transaction, ToolTransaction
  <2> QED
    BY <1>2, <2>1, <2>2 DEF ClockStep
<1>3. CASE ClaimStep
  <2>1. CASE CloseStoppedJob
    BY <2>1, <1>t DEF CloseStoppedJob, Effect, Transaction, QueueTransaction
  <2> QED
    BY <1>3, <2>1, ClaimEffect DEF ClaimStep
<1>4. CASE \E h \in handlers : HandlerStep(h)
  BY <1>4, OpenEffect, ModelEffect, ToolEffect, StopEffect DEF HandlerStep
<1>5. CASE FaultStep
  <2>1. CASE \E w \in Worker : CrashWorker(w)
    BY <2>1, <1>t DEF CrashWorker, Effect, Transaction
  <2> QED
    BY <1>5, <2>1, StopEffect DEF FaultStep
<1>6. CASE UNCHANGED vars
  BY <1>6, <1>t DEF vars, Effect, Transaction
<1> QED
  BY <1>1, <1>2, <1>3, <1>4, <1>5, <1>6 DEF Next

(* No step exceeds the bound on faults. *)
LEMMA FaultsBounded ==
  ASSUME TypeInv, [Next]_vars
  PROVE  faults' \in 0 .. MaxFaults
<1>1. faults \in 0 .. MaxFaults
  BY DEF TypeInv, TypeOK
<1>2. faults' = faults \/ (faults < MaxFaults /\ faults' = faults + 1)
  <2>1. ASSUME NEW h \in handlers, HandlerStep(h) PROVE faults' = faults
    <3>1. CASE Prepare(h) \/ OpenFresh(h) \/ OpenStopped(h) \/ OpenEnded(h) \/ OpenRunning(h)
               \/ OpenWaiting(h) \/ Resume(h) \/ Begin(h)
      BY <3>1 DEF Step, Prepare, OpenFresh, OpenStopped, OpenEnded, OpenRunning, OpenWaiting,
         Resume, Begin
    <3>2. CASE ModelRequest(h) \/ ModelFails(h) \/ ModelAnswers(h) \/ Complete(h)
               \/ \E c \in Call : PersistIntent(h, c)
      BY <3>2 DEF Step, ModelRequest, ModelFails, ModelAnswers, Complete, PersistIntent
    <3>3. CASE EnterApprovalWait(h) \/ AuthorizeAuto(h) \/ AskApproval(h) \/ LeaveApprovalWait(h)
      BY <3>3 DEF Step, EnterApprovalWait, AuthorizeAuto, AskApproval, LeaveApprovalWait
    <3>4. CASE Dispatch(h) \/ ToolReturns(h) \/ ToolThrows(h) \/ DeclareUnknown(h) \/ BudgetExpires(h)
      BY <3>4 DEF Step, Dispatch, ToolReturns, ToolThrows, DeclareUnknown, BudgetExpires
    <3>5. CASE ObserveControl(h) \/ InterruptAtStart(h) \/ LoseLease(h) \/ Settle(h)
      BY <3>5 DEF Step, ObserveControl, InterruptAtStart, LoseLease, Settle
    <3> QED
      BY <2>1, <3>1, <3>2, <3>3, <3>4, <3>5 DEF HandlerStep
  <2>2. ClockStep \/ FaultStep => faults' = faults \/ (faults < MaxFaults /\ faults' = faults + 1)
    BY DEF ClockStep, LeaseLapses, FaultStep, CrashWorker, TransientError, StopWorker, Fault
  <2>3. UserStep \/ ClaimStep \/ UNCHANGED vars => faults' = faults
    BY DEF UserStep, ClaimStep, Claim, CloseStoppedJob, vars
  <2> QED
    BY <2>1, <2>2, <2>3 DEF Next
<1> QED
  BY <1>1, <1>2, AgentTurnAssumption
-----------------------------------------------------------------------------
(* A handler that was let through with a call that needs a human has asked for it. *)
GrantedAsked ==
  \A h \in handlers :
    h.pc = "granted" /\ h.call \in Manual => tool[h.call].approval # "none"

(* Whom a step leaves in "granted": one that was there, or one with an approval. *)
NewlyGranted ==
  \A k \in handlers' :
    k.pc = "granted" /\ k.call \in Manual =>
      \/ \E h \in handlers : h.pc = "granted" /\ h.call = k.call
      \/ tool[k.call].approval = "approved"

LEMMA SameHandlers == handlers' \subseteq handlers => NewlyGranted
BY DEF NewlyGranted

LEMMA ReplaceGranted ==
  ASSUME NEW h \in handlers, NEW k, Replace(h, k),
         \/ k.pc # "granted" \/ k.call \notin Manual
         \/ k.pc = h.pc /\ k.call = h.call
         \/ tool[k.call].approval = "approved"
  PROVE  NewlyGranted
BY DEF NewlyGranted, Replace

LEMMA GotoGranted ==
  ASSUME NEW h \in handlers, h \in Handler, NEW pc, pc # "granted", Goto(h, pc)
  PROVE  NewlyGranted
<1>1. [h EXCEPT !.pc = pc].pc = pc
  BY DEF Handler
<1> QED
  BY <1>1, ReplaceGranted DEF Goto

LEMMA ThrowGranted ==
  ASSUME NEW h \in handlers, h \in Handler, NEW out, Throw(h, out)
  PROVE  NewlyGranted
<1>1. Thrown(h, out).pc = "thrown"
  BY DEF Handler, Thrown
<1> QED
  BY <1>1, ReplaceGranted DEF Throw

LEMMA CommitGranted ==
  ASSUME NEW h \in handlers, h \in Handler, NEW wanted, Commit(h, wanted)
  PROVE  NewlyGranted
<1>1. (\E out \in Outcomes : Quit(h, out)) \/ Leave(h)
  BY DEF Commit, Outcomes
<1> QED
  BY <1>1, ThrowGranted, SameHandlers DEF Quit, Leave

LEMMA FailGranted ==
  ASSUME NEW h \in handlers, h \in Handler, Fail(h) \/ Abandon(h)
  PROVE  NewlyGranted
BY CommitGranted, ThrowGranted DEF Fail, Abandon

LEMMA InterruptGranted ==
  ASSUME NEW h \in handlers, h \in Handler, NEW stop, Interrupt(h, stop)
  PROVE  NewlyGranted
<1> DEFINE k == [h EXCEPT !.stop = stop]
<1>1. Thrown(k, "interrupted").pc = "thrown"
  BY DEF Handler, Thrown
<1>2. [k EXCEPT !.halted = TRUE].pc = h.pc /\ [k EXCEPT !.halted = TRUE].call = h.call
  BY DEF Handler
<1>3. Replace(h, Thrown(k, "interrupted")) \/ Replace(h, [k EXCEPT !.halted = TRUE])
  BY DEF Interrupt
<1> HIDE DEF k
<1> QED
  BY <1>1, <1>2, <1>3, ReplaceGranted

LEMMA HandlerGranted ==
  ASSUME TypeInv, NEW h \in handlers, HandlerStep(h) \/ TransientError(h) \/ StopWorker(h)
  PROVE  NewlyGranted
<1>h. h \in Handler
  BY DEF TypeInv, BusyOK
<1> USE <1>h, GotoGranted, ThrowGranted, CommitGranted, FailGranted, SameHandlers
<1>1. CASE \/ OpenFresh(h) \/ OpenStopped(h) \/ OpenEnded(h)
           \/ OpenRunning(h) \/ Resume(h) \/ Begin(h) \/ TransientError(h)
  BY <1>1 DEF OpenFresh, OpenStopped, OpenEnded, OpenRunning, Resume, Begin, TransientError
<1>2. CASE \/ ModelRequest(h) \/ ModelFails(h) \/ ModelAnswers(h) \/ Complete(h)
           \/ EnterApprovalWait(h) \/ DeclareUnknown(h) \/ BudgetExpires(h)
  BY <1>2 DEF ModelRequest, ModelFails, ModelAnswers, Complete, EnterApprovalWait, DeclareUnknown,
     BudgetExpires
<1>3. CASE ToolThrows(h) \/ Dispatch(h) \/ AskApproval(h) \/ LoseLease(h) \/ Settle(h)
  BY <1>3 DEF ToolThrows, Dispatch, AskApproval, LoseLease, Settle, Leave
<1>4. CASE Prepare(h)
  <2>1. [h EXCEPT !.pc = "prepared", !.cap = exec.gen].pc = "prepared"
    BY DEF Handler
  <2> QED
    BY <1>4, <2>1, ReplaceGranted DEF Prepare
<1>5. CASE OpenWaiting(h)
  <2>1. \A c \in Call : [h EXCEPT !.pc = "waiting", !.call = c, !.recovered = TRUE].pc = "waiting"
    BY DEF Handler
  <2>2. CASE Quit(h, "error")
    BY <2>2 DEF Quit
  <2> QED
    BY <1>5, <2>1, <2>2, ReplaceGranted DEF OpenWaiting, Unresolved
<1>6. CASE \E c \in Call : PersistIntent(h, c)
  <2>1. \A c \in Call : [h EXCEPT !.pc = "intent", !.call = c].pc = "intent"
    BY DEF Handler
  <2> QED
    BY <1>6, <2>1, ReplaceGranted DEF PersistIntent
<1>7. CASE AuthorizeAuto(h)
  <2>1. [h EXCEPT !.pc = "granted"].call = h.call
    BY DEF Handler
  <2> QED
    BY <1>7, <2>1, ReplaceGranted DEF AuthorizeAuto, Goto
<1>8. CASE LeaveApprovalWait(h)
  <2>1. [h EXCEPT !.pc = "granted"].call = h.call
    BY DEF Handler
  <2>2. CASE Granted(h) /\ Goto(h, "granted")
    BY <2>1, <2>2, ReplaceGranted DEF Goto, Granted
  <2> QED
    BY <1>8, <2>2 DEF LeaveApprovalWait
<1>9. CASE ToolReturns(h)
  <2>1. [h EXCEPT !.pc = "drain", !.call = NoCall].pc = "drain"
    BY DEF Handler
  <2> QED
    BY <1>9, <2>1, ReplaceGranted DEF ToolReturns
<1>10. CASE ObserveControl(h) \/ InterruptAtStart(h) \/ StopWorker(h)
  <2>1. [h EXCEPT !.stop = TRUE].pc = h.pc /\ [h EXCEPT !.stop = TRUE].call = h.call
    BY DEF Handler
  <2>2. CASE Quit(h, "interrupted")
    BY <2>2 DEF Quit
  <2> QED
    BY <1>10, <2>1, <2>2, InterruptGranted, ReplaceGranted
       DEF ObserveControl, InterruptAtStart, StopWorker
<1> QED
  BY <1>1, <1>2, <1>3, <1>4, <1>5, <1>6, <1>7, <1>8, <1>9, <1>10 DEF HandlerStep

LEMMA NextGranted ==
  ASSUME TypeInv, [Next]_vars
  PROVE  NewlyGranted
<1>1. CASE UserStep \/ ClockStep \/ UNCHANGED vars
  BY <1>1, SameHandlers DEF UserStep, ClockStep, LeaseLapses, vars
<1>2. CASE ClaimStep
  BY <1>2, SameHandlers DEF ClaimStep, CloseStoppedJob, Claim, NewlyGranted
<1>3. CASE FaultStep
  BY <1>3, SameHandlers, HandlerGranted DEF FaultStep, CrashWorker
<1> QED
  BY <1>1, <1>2, <1>3, HandlerGranted DEF Next

(* The inductive invariant: types, the invariant of the Execution, and its approvals. *)
IInv == TypeInv /\ KernelInv /\ GrantInv /\ GrantedAsked

LEMMA InitIInv == Init => IInv
<1> SUFFICES ASSUME Init PROVE IInv
  OBVIOUS
<1>1. KernelInv /\ GrantInv
  BY InitInv, InitGrant DEF Init
<1>2. log \in LogRow
  <2>1. 0 \in 0 .. MaxGen
    BY ExecutionAssumption
  <2> QED
    BY <2>1 DEF Init, LogRow, Status, Recorded
<1>3. handlers = {} /\ faults \in 0 .. MaxFaults
  BY AgentTurnAssumption DEF Init
<1> QED
  BY <1>1, <1>2, <1>3 DEF IInv, TypeInv, TypeOK, KernelInv, GrantedAsked

LEMMA NextIInv == IInv /\ [Next]_vars => IInv'
<1> SUFFICES ASSUME IInv, [Next]_vars PROVE IInv'
  OBVIOUS
<1>1. Effect /\ faults' \in 0 .. MaxFaults
  BY NextEffect, FaultsBounded DEF IInv
<1>2. KernelInv' /\ GrantInv'
  BY <1>1, InvStep, GrantStep DEF Effect, IInv, KernelInv
<1>3. (handlers \subseteq Handler)'
  BY <1>1 DEF Effect, BusyOK
<1>4. GrantedAsked'
  <2> SUFFICES ASSUME NEW k \in handlers', k.pc = "granted", k.call \in Manual
               PROVE  tool'[k.call].approval # "none"
    BY DEF GrantedAsked
  <2>1. tool[k.call].approval # "none"
    BY NextGranted DEF IInv, GrantedAsked, NewlyGranted
  <2> QED
    BY <1>1, <2>1, ApprovalStays, ExecutionAssumption DEF Effect, IInv, KernelInv
<1> QED
  BY <1>1, <1>2, <1>3, <1>4 DEF Effect, IInv, TypeInv, TypeOK, KernelInv

LEMMA Invariance == Spec => []IInv
<1> QED
  BY InitIInv, NextIInv, PTL DEF Spec

(* The Execution, its jobs and calls, the log and the handlers keep their types. *)
THEOREM TypeCorrect == Spec => []TypeOK
<1>1. IInv => TypeOK
  BY DEF IInv, TypeInv
<1> QED
  BY <1>1, Invariance, PTL

(* No interleaving of users, workers, faults and revocations strands a live Execution *)
(* without an unsettled job of its own generation.                                    *)
THEOREM LiveExecutionsHaveJobs == Spec => []LiveHasJob
<1>1. IInv => LiveHasJob
  BY DEF IInv, KernelInv
<1> QED
  BY <1>1, Invariance, PTL

(* An Execution in waiting_approval always has a request that somebody can decide. *)
THEOREM WaitsAreDecidable == Spec => []WaitingHasRequest
<1>1. IInv => WaitingHasRequest
  BY DEF IInv, KernelInv
<1> QED
  BY <1>1, Invariance, PTL

(* A cancelled Execution never has a call in flight. *)
THEOREM CancellationIsQuiet == Spec => []CancelledIsQuiet
<1>1. IInv => CancelledIsQuiet
  BY DEF IInv, KernelInv
<1> QED
  BY <1>1, Invariance, PTL

(* An ended Execution is never revived or relabelled, but for its reconciliation. *)
THEOREM EndedIsFinal == Spec => EndedStaysEnded
<1>1. IInv /\ [Next]_vars =>
        [exec.status \in Finished => exec'.status \in {exec.status, "needs_reconciliation"}]_kernelVars
  <2> SUFFICES ASSUME IInv, [Next]_vars, exec.status \in Finished
               PROVE  exec'.status \in {exec.status, "needs_reconciliation"}
    OBVIOUS
  <2>1. Transaction
    BY NextEffect DEF IInv, Effect
  <2> QED
    BY <2>1, EndedStep DEF IInv, KernelInv
<1> QED
  BY <1>1, Invariance, PTL DEF Spec, EndedStaysEnded

-----------------------------------------------------------------------------
(* Handlers that do not dispatch start no call. *)
LEMMA SettlementsDoNotStart ==
  ASSUME TypeInv, NEW h \in BusyOK, NEW wanted \in {"completed", "paused", "failed", "cancelled"},
         Commit(h, wanted) \/ Fail(h) \/ Abandon(h)
  PROVE  UNCHANGED tool
BY DEF Commit, Fail, Abandon, Throw, Quit, kernelVars, CompleteJob, FailJob

LEMMA HandlersDoNotStart ==
  ASSUME TypeInv, NEW h \in handlers, HandlerStep(h) \/ TransientError(h) \/ StopWorker(h), ~Dispatch(h)
  PROVE  NoStart
<1>h. h \in BusyOK /\ h \in Handler /\ log \in LogRow /\ KernelTypeOK
  BY DEF TypeInv, TypeOK, BusyOK
<1>c. h.pc \in Busy => h.call \in Call /\ log.gen[h.call] \in 0 .. MaxGen
  BY <1>h DEF BusyOK, LogRow
<1>u. UNCHANGED tool => NoStart
  BY DEF NoStart
<1> USE <1>h, <1>u, SettlementsDoNotStart
<1>1. CASE \/ Prepare(h) \/ OpenFresh(h) \/ OpenStopped(h) \/ OpenEnded(h) \/ OpenRunning(h)
           \/ OpenWaiting(h) \/ Resume(h) \/ Begin(h) \/ TransientError(h)
  BY <1>1 DEF Prepare, OpenFresh, OpenStopped, OpenEnded, OpenRunning, OpenWaiting, Quit, Resume,
     Begin, TransientError, kernelVars
<1>2. CASE \/ ModelRequest(h) \/ ModelFails(h) \/ ModelAnswers(h) \/ Complete(h)
           \/ EnterApprovalWait(h) \/ DeclareUnknown(h) \/ BudgetExpires(h)
           \/ (\E c \in Call : PersistIntent(h, c))
  BY <1>2 DEF ModelRequest, ModelFails, ModelAnswers, Complete, EnterApprovalWait, DeclareUnknown,
     BudgetExpires, PersistIntent, kernelVars
<1>3. CASE AuthorizeAuto(h)
  BY <1>3, <1>c, OthersDoNotStart DEF AuthorizeAuto, Step, Busy
<1>4. CASE AskApproval(h)
  BY <1>4, <1>c, OthersDoNotStart DEF AskApproval, Busy
<1>5. CASE ToolReturns(h)
  BY <1>5, <1>c, OthersDoNotStart DEF ToolReturns, Step, Busy
<1>6. CASE LeaveApprovalWait(h) \/ ToolThrows(h) \/ LoseLease(h)
  BY <1>6 DEF LeaveApprovalWait, ToolThrows, LoseLease, kernelVars
<1>7. CASE ObserveControl(h) \/ InterruptAtStart(h) \/ StopWorker(h)
  BY <1>7 DEF ObserveControl, InterruptAtStart, StopWorker, Quit, kernelVars
<1>8. CASE Settle(h)
  BY <1>8 DEF Settle, SettleThrown, CompleteJob, InterruptJob, MarkNeedsReconciliation, FailJob, kernelVars
<1> QED
  BY <1>1, <1>2, <1>3, <1>4, <1>5, <1>6, <1>7, <1>8 DEF HandlerStep

LEMMA OnlyDispatchStarts ==
  ASSUME TypeInv, Next, NEW c \in Call, tool[c].admission = "none", tool'[c].admission = "started"
  PROVE  \E h \in handlers : Dispatch(h) /\ h.call = c /\ ~Refused(h) /\ ApprovalCurrent(c)
<1>0. KernelTypeOK /\ tool \in [Call -> ToolRow] /\ ~NoStart
  BY DEF TypeInv, TypeOK, KernelTypeOK, NoStart
<1>1. \E h \in handlers : Dispatch(h)
  <2>1. CASE UserStep \/ ClockStep
    BY <1>0, <2>1, OthersDoNotStart DEF UserStep, UserTransaction, ClockStep, LeaseLapses
  <2>2. CASE ClaimStep
    BY <1>0, <2>2, OthersDoNotStart DEF ClaimStep, CloseStoppedJob, CloseBeforeClaim, Claim, LeaseJob
  <2>3. CASE FaultStep
    BY <1>0, <2>3, HandlersDoNotStart, OthersDoNotStart DEF FaultStep, CrashWorker, kernelVars
  <2>4. CASE \E h \in handlers : HandlerStep(h)
    BY <1>0, <2>4, HandlersDoNotStart
  <2> QED
    BY <2>1, <2>2, <2>3, <2>4 DEF Next
<1> PICK h \in handlers : Dispatch(h)
  BY <1>1
<1>2. ~Fail(h) /\ ~Abandon(h)
  <2>1. h \in BusyOK
    BY DEF TypeInv
  <2> QED
    BY <1>0, <2>1, SettlementsDoNotStart
<1>3. ~Refused(h) /\ ApprovalCurrent(h.call) /\ Admit(h.call)
  BY <1>2 DEF Dispatch
<1>4. h.call = c
  BY <1>0, <1>3 DEF Admit
<1> QED
  BY <1>3, <1>4

(* No call that needs a human is dispatched without an approval of this generation, by *)
(* people who hold their roles now and, unless the Execution has ended, held them ever *)
(* since: between the decision and the dispatch nothing can be slipped in.             *)
THEOREM DispatchesAreApproved == Spec => DispatchIsApproved
<1>1. IInv /\ [Next]_vars =>
        [\A c \in Manual :
           tool[c].admission = "none" /\ tool'[c].admission = "started" =>
             /\ tool[c].approval = "approved" /\ tool[c].gen = exec.gen
             /\ member.initiator /\ member.approver
             /\ exec.status \notin Finished => tool[c].granted = member.epoch]_vars
  <2> SUFFICES ASSUME IInv, Next, NEW c \in Manual,
                      tool[c].admission = "none", tool'[c].admission = "started"
               PROVE  /\ tool[c].approval = "approved" /\ tool[c].gen = exec.gen
                      /\ member.initiator /\ member.approver
                      /\ exec.status \notin Finished => tool[c].granted = member.epoch
    OBVIOUS
  <2>1. PICK h \in handlers : Dispatch(h) /\ h.call = c /\ ~Refused(h) /\ ApprovalCurrent(c)
    BY OnlyDispatchStarts, ExecutionAssumption DEF IInv
  <2>2. exec.status \notin Stopped /\ member.initiator
    BY <2>1 DEF Refused
  <2>3. tool[c].approval # "none"
    BY <2>1 DEF Dispatch, Step, IInv, GrantedAsked
  <2>4. tool[c].approval = "approved" /\ member.approver
    BY <2>1, <2>3 DEF ApprovalCurrent
  <2> QED
    BY <2>2, <2>4, ExecutionAssumption DEF IInv, GrantInv, Settling, Stopped
<1> QED
  BY <1>1, Invariance, PTL DEF Spec, DispatchIsApproved
-----------------------------------------------------------------------------
(* One runner.  Every claim takes a new fence of its row, a handler keeps the row and   *)
(* fence that it claimed, and while nobody lost a role an Execution has at most one job *)
(* that is not settled: a new one is made only where it stopped, and what stopped it    *)
(* settled the old one.  None is open where it rests, and none leased where it queues.  *)
Open(g) == jobs[g].status \in {"available", "leased"}
Resting == {"paused", "interrupted", "completed"}

RowInv ==
  /\ \A g \in Gen : jobs[g].status # "absent" => g =< exec.gen
  /\ \A h \in handlers : jobs[h.gen].status # "absent" /\ h.fence =< jobs[h.gen].fence
  /\ \A h, k \in handlers : h.gen = k.gen /\ h.fence = k.fence => h = k

OneOpenJob ==
  member.epoch = 0 =>
    /\ \A g, k \in Gen : Open(g) /\ Open(k) => g = k
    /\ exec.status \in Resting => \A g \in Gen : ~Open(g)
    /\ exec.status = "queued" => \A g \in Gen : jobs[g].status # "leased"

(* What a step may do to the jobs, but for claims, resumes and lapses: nothing, and    *)
(* then it does not stop the Execution, or settle one that is open.                    *)
Quiet ==
  /\ jobs' = jobs /\ exec'.gen = exec.gen
  /\ exec'.status = "queued" => exec.status = "queued"
  /\ member'.epoch = 0 => member.epoch = 0 /\ (exec'.status \in Resting => exec.status \in Resting)

Closing ==
  /\ exec'.gen = exec.gen /\ member' = member
  /\ exec'.status = "queued" => exec.status = "queued"
  /\ \E g \in Gen, outcome \in {"completed", "failed"} : Open(g) /\ jobs' = Settled(g, outcome)

(* And to the handlers: one of them goes, or moves on under the same row and fence.    *)
Moves(h) ==
  \/ handlers' \subseteq handlers
  \/ \E k : k.gen = h.gen /\ k.fence = h.fence /\ Replace(h, k)

Kind(h) == Moves(h) /\ (Quiet \/ Closing)

LEMMA NothingIsQuiet == UNCHANGED kernelVars => Quiet
BY DEF Quiet, kernelVars

LEMMA SameRow ==
  ASSUME NEW h \in Handler
  PROVE  /\ \A pc : [h EXCEPT !.pc = pc].gen = h.gen /\ [h EXCEPT !.pc = pc].fence = h.fence
         /\ \A out : Thrown(h, out).gen = h.gen /\ Thrown(h, out).fence = h.fence
         /\ \A stop : LET k == [h EXCEPT !.stop = stop] IN
              /\ k.gen = h.gen /\ k.fence = h.fence
              /\ [k EXCEPT !.halted = TRUE].gen = h.gen /\ [k EXCEPT !.halted = TRUE].fence = h.fence
              /\ Thrown(k, "interrupted").gen = h.gen /\ Thrown(k, "interrupted").fence = h.fence
<1>1. \A pc : [h EXCEPT !.pc = pc].gen = h.gen /\ [h EXCEPT !.pc = pc].fence = h.fence
  BY DEF Handler
<1>2. \A out : Thrown(h, out).gen = h.gen /\ Thrown(h, out).fence = h.fence
  BY DEF Handler, Thrown
<1>3. ASSUME NEW stop
      PROVE  LET k == [h EXCEPT !.stop = stop] IN
              /\ k.gen = h.gen /\ k.fence = h.fence
              /\ [k EXCEPT !.halted = TRUE].gen = h.gen /\ [k EXCEPT !.halted = TRUE].fence = h.fence
              /\ Thrown(k, "interrupted").gen = h.gen /\ Thrown(k, "interrupted").fence = h.fence
  BY DEF Handler, Thrown
<1> QED
  BY <1>1, <1>2, <1>3

LEMMA GotoMoves ==
  ASSUME NEW h \in handlers, h \in Handler, NEW pc, Goto(h, pc)
  PROVE  Moves(h)
BY SameRow DEF Goto, Moves

LEMMA ThrowMoves ==
  ASSUME NEW h \in handlers, h \in Handler, NEW out, Throw(h, out)
  PROVE  Moves(h)
BY SameRow DEF Throw, Moves

LEMMA InterruptMoves ==
  ASSUME NEW h \in handlers, h \in Handler, NEW stop, Interrupt(h, stop)
  PROVE  Moves(h)
BY SameRow DEF Interrupt, Moves

LEMMA OwnedIsOpen ==
  ASSUME NEW h \in Handler, Owns(h)
  PROVE  h.gen \in Gen /\ Open(h.gen)
BY DEF Owns, Open, Handler

LEMMA CommitKind ==
  ASSUME TypeInv, NEW h \in handlers, Owns(h), NEW wanted, Commit(h, wanted)
  PROVE  Kind(h)
<1>h. h \in Handler /\ exec \in ExecRow
  BY DEF TypeInv, BusyOK, TypeOK, KernelTypeOK
<1>1. CASE \E out : Quit(h, out)
  BY <1>1, <1>h, ThrowMoves, NothingIsQuiet DEF Quit, Kind
<1>2. CASE /\ Leave(h)
           /\ \/ \E status \in {"completed", "paused"} : CompleteJob(h.gen, status)
              \/ \E code : FailJob(h.gen, code)
  <2>1. Moves(h)
    BY <1>2 DEF Leave, Moves
  <2>2. /\ exec'.gen = exec.gen /\ member' = member
        /\ exec'.status = "queued" => exec.status = "queued"
    BY <1>2, <1>h DEF CompleteJob, FailJob, ExecRow
  <2>3. \E outcome \in {"completed", "failed"} : jobs' = Settled(h.gen, outcome)
    BY <1>2 DEF CompleteJob, FailJob
  <2>4. Closing
    BY <2>2, <2>3, <1>h, OwnedIsOpen DEF Closing
  <2> QED
    BY <2>1, <2>4 DEF Kind
<1> QED
  BY <1>1, <1>2 DEF Commit

LEMMA FailKind ==
  ASSUME TypeInv, NEW h \in handlers, Owns(h), Fail(h) \/ Abandon(h)
  PROVE  Kind(h)
<1>1. CASE Throw(h, "interrupted") /\ UNCHANGED kernelVars
  <2>1. h \in Handler
    BY DEF TypeInv, BusyOK
  <2> QED
    BY <1>1, <2>1, ThrowMoves, NothingIsQuiet DEF Kind
<1> QED
  BY <1>1, CommitKind DEF Fail, Abandon

LEMMA HandlerKind ==
  ASSUME TypeInv, NEW h \in handlers, HandlerStep(h) \/ TransientError(h) \/ StopWorker(h)
  PROVE  Kind(h)
<1>h. h \in Handler /\ exec \in ExecRow /\ member \in MemberRow
  BY DEF TypeInv, BusyOK, TypeOK, KernelTypeOK
<1>q. UNCHANGED kernelVars => Quiet
  BY NothingIsQuiet
<1> USE <1>h, <1>q, GotoMoves, ThrowMoves, CommitKind, FailKind
<1>1. CASE \/ OpenFresh(h) \/ OpenStopped(h) \/ OpenEnded(h)
           \/ OpenRunning(h) \/ Resume(h) \/ Begin(h) \/ TransientError(h)
  BY <1>1 DEF OpenFresh, OpenStopped, OpenEnded, OpenRunning, Resume, Begin, TransientError, Kind
<1>2. CASE \/ ModelRequest(h) \/ ModelFails(h) \/ ModelAnswers(h) \/ Complete(h)
           \/ EnterApprovalWait(h) \/ DeclareUnknown(h) \/ BudgetExpires(h)
  BY <1>2 DEF ModelRequest, ModelFails, ModelAnswers, Complete, EnterApprovalWait, DeclareUnknown,
     BudgetExpires, Step, Kind
<1>3. CASE ToolThrows(h)
  BY <1>3 DEF ToolThrows, Step, Kind
<1>4. CASE Dispatch(h)
  <2>1. CASE UNCHANGED <<exec, jobs, member>> /\ (Goto(h, "started") \/ Throw(h, "interrupted"))
    BY <2>1 DEF Quiet, Kind
  <2> QED
    BY <1>4, <2>1 DEF Dispatch, Step
<1>5. CASE Prepare(h)
  <2>1. CASE Replace(h, [h EXCEPT !.pc = "prepared", !.cap = exec.gen]) /\ UNCHANGED kernelVars
    <3>1. /\ [h EXCEPT !.pc = "prepared", !.cap = exec.gen].gen = h.gen
          /\ [h EXCEPT !.pc = "prepared", !.cap = exec.gen].fence = h.fence
      BY DEF Handler
    <3>2. Moves(h)
      BY <2>1, <3>1 DEF Moves
    <3> QED
      BY <2>1, <3>2 DEF Kind
  <2> QED
    BY <1>5, <2>1 DEF Prepare, Kind
<1>6. CASE OpenWaiting(h)
  <2>1. CASE Quit(h, "error")
    BY <2>1 DEF Quit, Kind
  <2>2. CASE /\ \E c \in Call : Replace(h, [h EXCEPT !.pc = "waiting", !.call = c, !.recovered = TRUE])
             /\ UNCHANGED kernelVars
    <3>1. \A c \in Call : LET k == [h EXCEPT !.pc = "waiting", !.call = c, !.recovered = TRUE] IN
                          k.gen = h.gen /\ k.fence = h.fence
      BY DEF Handler
    <3>2. Moves(h)
      BY <2>2, <3>1 DEF Moves
    <3> QED
      BY <2>2, <3>2 DEF Kind
  <2> QED
    BY <1>6, <2>1, <2>2 DEF OpenWaiting, Unresolved
<1>7. CASE \E c \in Call : PersistIntent(h, c)
  <2>1. \A c \in Call : LET k == [h EXCEPT !.pc = "intent", !.call = c] IN
                        k.gen = h.gen /\ k.fence = h.fence
    BY DEF Handler
  <2>2. Moves(h) /\ UNCHANGED kernelVars
    BY <1>7, <2>1 DEF PersistIntent, Moves
  <2> QED
    BY <2>2 DEF Kind
<1>8. CASE AuthorizeAuto(h)
  <2>1. CASE RecordAutoIntent(h.call, log.gen[h.call]) /\ Goto(h, "granted")
    <3>1. Quiet
      BY <2>1 DEF RecordAutoIntent, Quiet, kernelVars
    <3> QED
      BY <2>1, <3>1 DEF Kind
  <2> QED
    BY <1>8, <2>1 DEF AuthorizeAuto, Step
<1>9. CASE AskApproval(h)
  <2>1. Quiet
    BY <1>9 DEF AskApproval, RequestApproval, Quiet, kernelVars, ExecRow, Resting
  <2>2. Moves(h)
    BY <1>9 DEF AskApproval, Moves
  <2> QED
    BY <2>1, <2>2 DEF Kind
<1>10. CASE LeaveApprovalWait(h)
  BY <1>10 DEF LeaveApprovalWait, Step, Kind
<1>11. CASE ToolReturns(h)
  <2>1. Quiet
    BY <1>11 DEF ToolReturns, Quiet
  <2>2. /\ [h EXCEPT !.pc = "drain", !.call = NoCall].gen = h.gen
        /\ [h EXCEPT !.pc = "drain", !.call = NoCall].fence = h.fence
    BY DEF Handler
  <2>3. CASE Replace(h, [h EXCEPT !.pc = "drain", !.call = NoCall])
    BY <2>1, <2>2, <2>3 DEF Kind, Moves
  <2> QED
    BY <1>11, <2>1, <2>3 DEF ToolReturns, Kind
<1>12. CASE ObserveControl(h)
  <2>1. CASE Quit(h, "interrupted")
    BY <2>1 DEF Quit, Kind
  <2>2. CASE Interrupt(h, h.stop) /\ UNCHANGED kernelVars
    BY <2>2, InterruptMoves DEF Kind
  <2> QED
    BY <1>12, <2>1, <2>2 DEF ObserveControl
<1>13. CASE InterruptAtStart(h)
  BY <1>13, InterruptMoves DEF InterruptAtStart, Kind
<1>14. CASE StopWorker(h)
  <2>1. CASE Replace(h, [h EXCEPT !.stop = TRUE]) /\ UNCHANGED kernelVars
    <3>1. [h EXCEPT !.stop = TRUE].gen = h.gen /\ [h EXCEPT !.stop = TRUE].fence = h.fence
      BY DEF Handler
    <3>2. Moves(h)
      BY <2>1, <3>1 DEF Moves
    <3> QED
      BY <2>1, <3>2 DEF Kind
  <2> QED
    BY <1>14, <2>1, InterruptMoves DEF StopWorker, Kind
<1>15. CASE LoseLease(h)
  BY <1>15 DEF LoseLease, Leave, Moves, Kind
<1>16. CASE Settle(h)
  <2>1. Moves(h) /\ Owns(h)
    BY <1>16 DEF Settle, Leave, Moves, Step
  <2>2. CASE SettleThrown(h)
    <3>1. /\ exec'.gen = exec.gen /\ member' = member
          /\ exec'.status = "queued" => exec.status = "queued"
      BY <2>2 DEF SettleThrown, CompleteJob, InterruptJob, MarkNeedsReconciliation, FailJob, ExecRow
    <3>2. \E outcome \in {"completed", "failed"} : jobs' = Settled(h.gen, outcome)
      BY <2>2 DEF SettleThrown, CompleteJob, InterruptJob, MarkNeedsReconciliation, FailJob
    <3>3. Closing
      BY <2>1, <3>1, <3>2, OwnedIsOpen DEF Closing
    <3> QED
      BY <2>1, <3>3 DEF Kind
  <2> QED
    BY <1>16, <2>1, <2>2 DEF Settle, Kind
<1> QED
  BY <1>1, <1>2, <1>3, <1>4, <1>5, <1>6, <1>7, <1>8, <1>9, <1>10, <1>11, <1>12, <1>13, <1>14,
     <1>15, <1>16 DEF HandlerStep

(* Every step is of one of these kinds, a claim, a resume or a lapse. *)
LEMMA NextKind ==
  ASSUME TypeInv, [Next]_vars
  PROVE  \/ \E h \in handlers : Kind(h)
         \/ handlers' \subseteq handlers /\ (Quiet \/ Closing)
         \/ \E w \in Worker : Claim(w)
         \/ ResumeExecution /\ UNCHANGED handlers
         \/ (\E g \in Gen : LapseLease(g)) /\ UNCHANGED handlers
<1>h. exec \in ExecRow /\ member \in MemberRow
  BY DEF TypeInv, TypeOK, KernelTypeOK
<1>1. CASE UserStep
  <2>1. CASE CancelExecution
    <3>1. Quiet
      BY <1>h, <2>1 DEF CancelExecution, Quiet, ExecRow, Resting
    <3> QED
      BY <1>1, <3>1 DEF UserStep
  <2>2. CASE \E c \in Call, decision \in {"approved", "denied"} : DecideApproval(c, decision)
    <3>1. Quiet
      BY <1>h, <2>2 DEF DecideApproval, Quiet, ExecRow, Resting
    <3> QED
      BY <1>1, <3>1 DEF UserStep
  <2>3. CASE RevokeInitiator \/ RevokeApprover
    <3>1. member.epoch \in Nat
      BY <1>h DEF MemberRow
    <3>2. member'.epoch # 0
      <4>1. member'.epoch = member.epoch + 1
        BY <1>h, <2>3 DEF RevokeInitiator, RevokeApprover, MemberRow
      <4> QED
        BY <3>1, <4>1
    <3>3. /\ jobs' = jobs /\ exec'.gen = exec.gen
          /\ exec'.status = "queued" => exec.status = "queued"
      BY <1>h, <2>3 DEF RevokeInitiator, RevokeApprover, Revoked, ExecRow
    <3>4. Quiet
      BY <3>2, <3>3 DEF Quiet
    <3> QED
      BY <1>1, <3>4 DEF UserStep
  <2>4. CASE RestoreMember
    <3>1. Quiet
      BY <1>h, <2>4 DEF RestoreMember, Quiet, MemberRow
    <3> QED
      BY <1>1, <3>1 DEF UserStep
  <2> QED
    BY <1>1, <2>1, <2>2, <2>3, <2>4 DEF UserStep
<1>2. CASE ClockStep
  <2>1. CASE \E g \in Gen : LeaseLapses(g)
    BY <2>1 DEF LeaseLapses, LapseLease
  <2>2. CASE \E c \in Call : IntentExpires(c) /\ UNCHANGED <<log, handlers, faults>>
    BY <2>2 DEF IntentExpires, Quiet
  <2> QED
    BY <1>2, <2>1, <2>2 DEF ClockStep
<1>3. CASE ClaimStep
  <2>1. CASE CloseStoppedJob
    <3>1. PICK g \in Gen : CloseBeforeClaim(g)
      BY <2>1 DEF CloseStoppedJob
    <3>2. Open(g) /\ jobs' = Settled(g, "failed")
      BY <3>1 DEF CloseBeforeClaim, FirstClaimable, ClaimableJob, Open, Settled
    <3>3. Closing
      BY <3>1, <3>2 DEF CloseBeforeClaim, Closing
    <3> QED
      BY <2>1, <3>3 DEF CloseStoppedJob
  <2> QED
    BY <1>3, <2>1 DEF ClaimStep
<1>4. CASE \E h \in handlers : HandlerStep(h)
  BY <1>4, HandlerKind
<1>5. CASE FaultStep
  <2>1. CASE \E w \in Worker : CrashWorker(w)
    BY <2>1, NothingIsQuiet DEF CrashWorker
  <2> QED
    BY <1>5, <2>1, HandlerKind DEF FaultStep
<1>6. CASE UNCHANGED vars
  BY <1>6, NothingIsQuiet DEF vars
<1> QED
  BY <1>1, <1>2, <1>3, <1>4, <1>5, <1>6 DEF Next

-----------------------------------------------------------------------------
(* What a settlement and a claim make of the job rows. *)
LEMMA SettledRows ==
  ASSUME KernelTypeOK, NEW g \in Gen, NEW outcome \in {"completed", "failed"},
         jobs' = Settled(g, outcome)
  PROVE  /\ jobs'[g].status = outcome /\ jobs'[g].fence = jobs[g].fence
         /\ \A k \in Gen : k # g => jobs'[k] = jobs[k]
BY DEF Settled, KernelTypeOK, JobRow

LEMMA LeasedRows ==
  ASSUME KernelTypeOK, NEW w \in Worker, NEW g \in Gen, LeaseJob(w, g)
  PROVE  /\ Open(g) /\ jobs[g].fence \in Nat
         /\ jobs'[g] = [status |-> "leased", owner |-> w, fence |-> jobs[g].fence + 1, lapsed |-> FALSE]
         /\ \A k \in Gen : k # g => jobs'[k] = jobs[k]
         /\ exec'.gen = exec.gen /\ member' = member
         /\ exec'.status \notin Resting \cup {"queued"}
<1>1. jobs \in [Gen -> JobRow] /\ exec \in ExecRow
  BY DEF KernelTypeOK
<1>2. Open(g)
  BY DEF LeaseJob, FirstClaimable, ClaimableJob, Open
<1>3. /\ jobs'[g] = [status |-> "leased", owner |-> w, fence |-> jobs[g].fence + 1, lapsed |-> FALSE]
      /\ \A k \in Gen : k # g => jobs'[k] = jobs[k]
  BY <1>1 DEF LeaseJob
<1>4. exec'.gen = exec.gen /\ member' = member
  BY <1>1 DEF LeaseJob, ExecRow
<1>5. exec'.status \notin Resting \cup {"queued"}
  BY <1>1 DEF LeaseJob, ExecRow, Resting
<1> QED
  BY <1>1, <1>2, <1>3, <1>4, <1>5 DEF JobRow

(* A step that makes no handler keeps the rows and fences of those it leaves. *)
LEMMA MovesKeepRows ==
  ASSUME TypeInv, RowInv, NEW h \in handlers, Moves(h) \/ handlers' \subseteq handlers,
         \A g \in Gen : jobs'[g].status = "absent" => jobs[g].status = "absent",
         \A g \in Gen : jobs'[g].fence = jobs[g].fence
  PROVE  /\ \A q \in handlers' : jobs'[q.gen].status # "absent" /\ q.fence =< jobs'[q.gen].fence
         /\ \A q, k \in handlers' : q.gen = k.gen /\ q.fence = k.fence => q = k
<1>1. \A q \in handlers : q.gen \in Gen
  BY DEF TypeInv, BusyOK, Handler
<1>2. CASE handlers' \subseteq handlers
  BY <1>1, <1>2 DEF RowInv
<1>3. CASE \E k : k.gen = h.gen /\ k.fence = h.fence /\ Replace(h, k)
  <2> PICK k : k.gen = h.gen /\ k.fence = h.fence /\ Replace(h, k)
    BY <1>3
  <2>1. \A q \in handlers' : q = k \/ (q \in handlers /\ q # h)
    BY DEF Replace
  <2>2. ASSUME NEW q \in handlers'
        PROVE  jobs'[q.gen].status # "absent" /\ q.fence =< jobs'[q.gen].fence
    <3>1. \E p \in handlers : p.gen = q.gen /\ p.fence = q.fence
      BY <2>1
    <3> QED
      BY <1>1, <3>1 DEF RowInv
  <2>3. ASSUME NEW q \in handlers', NEW p \in handlers', q.gen = p.gen, q.fence = p.fence
        PROVE  q = p
    BY <2>1, <2>3 DEF RowInv
  <2> QED
    BY <2>2, <2>3
<1> QED
  BY <1>2, <1>3 DEF Moves

LEMMA NextRows ==
  ASSUME TypeInv, RowInv, OneOpenJob, [Next]_vars
  PROVE  RowInv' /\ OneOpenJob'
<1>t. KernelTypeOK /\ jobs \in [Gen -> JobRow] /\ exec.gen \in Gen /\ \A q \in handlers : q \in Handler
  BY DEF TypeInv, TypeOK, KernelTypeOK, ExecRow, BusyOK
<1>g. \A q \in handlers : q.gen \in Gen /\ q.fence \in Nat
  BY <1>t DEF Handler
<1>1. ASSUME Quiet, \E h \in handlers : Moves(h) PROVE RowInv' /\ OneOpenJob'
  <2>1. jobs' = jobs /\ exec'.gen = exec.gen
    BY <1>1 DEF Quiet
  <2>2. RowInv'
    BY <1>1, <2>1, MovesKeepRows DEF RowInv
  <2>3. OneOpenJob'
    BY <1>1 DEF OneOpenJob, Quiet, Open
  <2> QED
    BY <2>2, <2>3
<1>2. ASSUME Closing, \E h \in handlers : Moves(h) PROVE RowInv' /\ OneOpenJob'
  <2>1. PICK g \in Gen, outcome \in {"completed", "failed"} : Open(g) /\ jobs' = Settled(g, outcome)
    BY <1>2 DEF Closing
  <2>2. /\ jobs'[g].status = outcome /\ jobs'[g].fence = jobs[g].fence
        /\ \A k \in Gen : k # g => jobs'[k] = jobs[k]
    BY <1>t, <2>1, SettledRows
  <2>3. exec'.gen = exec.gen /\ member' = member
    BY <1>2 DEF Closing
  <2>4. /\ \A k \in Gen : jobs'[k].status = "absent" <=> jobs[k].status = "absent"
        /\ \A k \in Gen : jobs'[k].fence = jobs[k].fence
    BY <2>1, <2>2 DEF Open
  <2>5. RowInv'
    BY <1>2, <2>3, <2>4, MovesKeepRows DEF RowInv
  <2>6. \A k \in Gen : /\ Open(k)' => Open(k) /\ k # g
                       /\ jobs'[k].status = "leased" => jobs[k].status = "leased"
    BY <2>2 DEF Open
  <2>7. exec'.status = "queued" => exec.status = "queued"
    BY <1>2 DEF Closing
  <2>8. OneOpenJob'
    BY <2>1, <2>3, <2>6, <2>7 DEF OneOpenJob
  <2> QED
    BY <2>5, <2>8
<1>3. ASSUME handlers' \subseteq handlers, Quiet \/ Closing PROVE RowInv' /\ OneOpenJob'
  <2>1. CASE \E h \in handlers : TRUE
    BY <1>1, <1>2, <1>3, <2>1 DEF Moves
  <2>2. CASE handlers = {}
    <3>1. handlers' = {}
      BY <1>3, <2>2
    <3>2. CASE Quiet
      <4>1. RowInv'
        BY <3>1, <3>2 DEF RowInv, Quiet
      <4> QED
        BY <3>2, <4>1 DEF OneOpenJob, Quiet, Open
    <3>3. CASE Closing
      <4>1. PICK g \in Gen, outcome \in {"completed", "failed"} : Open(g) /\ jobs' = Settled(g, outcome)
        BY <3>3 DEF Closing
      <4>2. /\ jobs'[g].status = outcome
            /\ \A k \in Gen : k # g => jobs'[k] = jobs[k]
        BY <1>t, <4>1, SettledRows
      <4>3. /\ exec'.gen = exec.gen /\ member' = member
            /\ exec'.status = "queued" => exec.status = "queued"
        BY <3>3 DEF Closing
      <4>4. \A k \in Gen : /\ Open(k)' => Open(k) /\ k # g
                           /\ jobs'[k].status = "leased" => jobs[k].status = "leased"
                           /\ jobs'[k].status = "absent" <=> jobs[k].status = "absent"
        BY <4>1, <4>2 DEF Open
      <4> QED
        BY <3>1, <4>1, <4>3, <4>4 DEF RowInv, OneOpenJob
    <3> QED
      BY <1>3, <3>2, <3>3
  <2> QED
    BY <2>1, <2>2
<1>4. ASSUME NEW w \in Worker, Claim(w) PROVE RowInv' /\ OneOpenJob'
  <2> PICK g \in Gen :
        /\ LeaseJob(w, g)
        /\ handlers' = handlers \cup
             {[worker |-> w, gen |-> g, fence |-> jobs'[g].fence, cap |-> 0, pc |-> "claimed",
               call |-> NoCall, recovered |-> FALSE, halted |-> FALSE, stop |-> FALSE,
               out |-> "none"]}
    BY <1>4 DEF Claim
  <2> DEFINE new == [worker |-> w, gen |-> g, fence |-> jobs'[g].fence, cap |-> 0, pc |-> "claimed",
                     call |-> NoCall, recovered |-> FALSE, halted |-> FALSE, stop |-> FALSE,
                     out |-> "none"]
  <2>1. /\ Open(g) /\ jobs[g].fence \in Nat
        /\ jobs'[g].status = "leased" /\ jobs'[g].fence = jobs[g].fence + 1
        /\ \A k \in Gen : k # g => jobs'[k] = jobs[k]
        /\ exec'.gen = exec.gen /\ member' = member
        /\ exec'.status \notin Resting \cup {"queued"}
    <3>1. /\ Open(g) /\ jobs[g].fence \in Nat
          /\ jobs'[g] = [status |-> "leased", owner |-> w, fence |-> jobs[g].fence + 1, lapsed |-> FALSE]
          /\ \A k \in Gen : k # g => jobs'[k] = jobs[k]
          /\ exec'.gen = exec.gen /\ member' = member
          /\ exec'.status \notin Resting \cup {"queued"}
      BY <1>t, LeasedRows
    <3> QED
      BY <3>1
  <2>2. handlers' = handlers \cup {new} /\ new.gen = g /\ new.fence = jobs[g].fence + 1
    BY <2>1
  <2> HIDE DEF new
  <2>3. \A q \in handlers : q.gen = g => q.fence # new.fence /\ q.fence =< new.fence
    <3> SUFFICES ASSUME NEW q \in handlers, q.gen = g
                 PROVE  q.fence # new.fence /\ q.fence =< new.fence
      OBVIOUS
    <3>1. q.fence =< jobs[g].fence /\ q.fence \in Nat
      BY <1>g DEF RowInv
    <3> QED
      BY <2>1, <2>2, <3>1
  <2>4. ASSUME NEW q \in handlers'
        PROVE  jobs'[q.gen].status # "absent" /\ q.fence =< jobs'[q.gen].fence
    <3>1. CASE q = new
      BY <2>1, <2>2, <3>1
    <3>2. CASE q \in handlers /\ q.gen = g
      BY <2>1, <2>2, <2>3, <3>2
    <3>3. CASE q \in handlers /\ q.gen # g
      <4>1. jobs'[q.gen] = jobs[q.gen]
        BY <1>g, <2>1, <3>3
      <4> QED
        BY <3>3, <4>1 DEF RowInv
    <3> QED
      BY <2>2, <3>1, <3>2, <3>3
  <2>5. ASSUME NEW q \in handlers', NEW p \in handlers', q.gen = p.gen, q.fence = p.fence
        PROVE  q = p
    BY <2>2, <2>3, <2>5 DEF RowInv
  <2>6. \A k \in Gen : jobs'[k].status # "absent" => k =< exec'.gen
    BY <2>1 DEF RowInv, Open
  <2>7. RowInv'
    BY <2>4, <2>5, <2>6 DEF RowInv
  <2>8. \A k \in Gen : Open(k)' => Open(k)
    BY <2>1 DEF Open
  <2>9. OneOpenJob'
    BY <2>1, <2>8 DEF OneOpenJob
  <2> QED
    BY <2>7, <2>9
<1>5. ASSUME ResumeExecution, UNCHANGED handlers PROVE RowInv' /\ OneOpenJob'
  <2> DEFINE next == exec.gen + 1
  <2>1. next \in Gen /\ exec'.gen = next /\ exec'.status = "queued" /\ member' = member
        /\ exec.status \in Resting
    BY <1>5, <1>t DEF ResumeExecution, Gen, TypeInv, TypeOK, KernelTypeOK, ExecRow, Resting
  <2>2. jobs'[next] = FreshJob("available") /\ \A k \in Gen : k # next => jobs'[k] = jobs[k]
    BY <1>5, <1>t, <2>1 DEF ResumeExecution
  <2>3. jobs[next].status = "absent"
    <3>1. exec.gen \in Nat
      BY <1>t DEF Gen
    <3>2. ~(next =< exec.gen)
      BY <3>1
    <3> QED
      BY <2>1, <3>2 DEF RowInv
  <2>4. \A k \in Gen : k =< exec.gen => k =< next
    <3>1. exec.gen \in Nat
      BY <1>t DEF Gen
    <3> QED
      BY <3>1 DEF Gen
  <2>5. next =< next
    BY <1>t DEF Gen
  <2> HIDE DEF next
  <2>6. \A q \in handlers : q.gen # next
    BY <2>3 DEF RowInv
  <2>7. RowInv'
    <3>1. \A k \in Gen : jobs'[k].status # "absent" => k =< exec'.gen
      BY <2>1, <2>2, <2>4, <2>5 DEF RowInv
    <3>2. \A q \in handlers : jobs'[q.gen] = jobs[q.gen]
      BY <1>g, <2>2, <2>6
    <3> QED
      BY <1>5, <3>1, <3>2 DEF RowInv
  <2>8. OneOpenJob'
    <3> SUFFICES ASSUME member.epoch = 0
                 PROVE  \A k \in Gen : (Open(k)' => k = next) /\ jobs'[k].status # "leased"
      BY <2>1 DEF OneOpenJob, Resting
    <3>1. \A k \in Gen : ~Open(k)
      BY <2>1 DEF OneOpenJob
    <3>2. jobs'[next].status = "available"
      BY <2>2 DEF FreshJob
    <3> QED
      BY <2>2, <3>1, <3>2 DEF Open
  <2> QED
    BY <2>7, <2>8
<1>6. ASSUME NEW g \in Gen, LapseLease(g), UNCHANGED handlers PROVE RowInv' /\ OneOpenJob'
  <2>1. \A k \in Gen : jobs'[k].status = jobs[k].status /\ jobs'[k].fence = jobs[k].fence
    BY <1>6, <1>t DEF LapseLease, JobRow
  <2>2. exec' = exec /\ member' = member
    BY <1>6 DEF LapseLease
  <2>3. RowInv'
    BY <1>6, <1>g, <2>1, <2>2 DEF RowInv
  <2>4. OneOpenJob'
    BY <2>1, <2>2 DEF OneOpenJob, Open
  <2> QED
    BY <2>3, <2>4
<1> QED
  BY <1>1, <1>2, <1>3, <1>4, <1>5, <1>6, NextKind DEF Kind

LEMMA InitRows == Init => RowInv /\ OneOpenJob
<1> SUFFICES ASSUME Init PROVE RowInv /\ OneOpenJob
  OBVIOUS
<1>1. /\ exec.gen = 1 /\ exec.status = "queued" /\ handlers = {}
      /\ \A g \in Gen : jobs[g].status # "absent" => g = 1
      /\ \A g \in Gen : jobs[g].status # "leased"
  BY DEF Init, KernelInit, FreshJob
<1> QED
  BY <1>1 DEF RowInv, OneOpenJob, Open, Resting

(* With one job open there is one runner. *)
LEMMA RowsGiveOneRunner == TypeInv /\ RowInv /\ OneOpenJob => OneRunner
<1> SUFFICES ASSUME TypeInv, RowInv, OneOpenJob, member.epoch = 0,
                    NEW h \in handlers, NEW k \in handlers, Owns(h), Owns(k)
             PROVE  h = k
  BY DEF OneRunner
<1>1. h \in Handler /\ k \in Handler
  BY DEF TypeInv, BusyOK
<1>2. h.gen = k.gen
  BY <1>1, OwnedIsOpen DEF OneOpenJob
<1>3. h.fence = k.fence
  BY <1>2 DEF Owns
<1> QED
  BY <1>2, <1>3 DEF RowInv

LEMMA RowInvariance == Spec => [](RowInv /\ OneOpenJob)
<1>1. IInv => TypeInv
  BY DEF IInv
<1>2. TypeInv /\ RowInv /\ OneOpenJob /\ [Next]_vars => (RowInv /\ OneOpenJob)'
  BY NextRows
<1> QED
  BY <1>1, <1>2, InitRows, Invariance, PTL DEF Spec

(* However claims, lapses, crashes, cancellations and resumes follow each other, while *)
(* nobody lost a role at most one handler can write under the jobs of an Execution.    *)
THEOREM OneRunnerAtATime == Spec => []OneRunner
<1>1. IInv => TypeInv
  BY DEF IInv
<1> QED
  BY <1>1, RowsGiveOneRunner, Invariance, RowInvariance, PTL

-----------------------------------------------------------------------------
(* The call in flight.  While one runner writes the log, a call that may not be         *)
(* replayed is recorded as started only under the handler that dispatched it, or        *)
(* nobody carries the turn on: every way to open or resume the runtime over such a      *)
(* record closes it first and ends there.                                               *)
InFlight == \E d \in Manual : log.call[d] = "started"
Fresh == {"queued", "waiting_approval"}     \* a log that is opened for a turn
Working == {"ready", "drain", "model", "idle", "intent", "waiting", "granted"}
Carrying == {"drain", "model", "idle", "intent", "granted", "started"}

LogFits == InFlight => log.status \notin Fresh

Fits(h) ==
  /\ h.pc \in Working => ~InFlight
  /\ h.pc = "started" => \A d \in Manual : log.call[d] = "started" => d = h.call
  /\ h.pc \in Carrying => log.status \notin Fresh

TurnInv == member.epoch = 0 => LogFits /\ \A h \in handlers : Owns(h) => Fits(h)

(* What a step of a handler does to the turn: nothing, or, as the owner, it leaves the  *)
(* log such that it fits where the handler then is.                                     *)
Turn(h) ==
  /\ LogFits'
  /\ \/ log' = log /\ \A k \in handlers' : k \in handlers \/ k.pc = "thrown"
     \/ Owns(h) /\ \A k \in handlers' : (k \in handlers /\ k # h) \/ Fits(k)'

LEMMA ThrownPlace ==
  ASSUME NEW h \in Handler, NEW out
  PROVE  Thrown(h, out).pc = "thrown"
BY DEF Handler, Thrown

LEMMA StatusRecord ==
  ASSUME TypeInv, NEW s, LogStatus(s)
  PROVE  log'.status = s /\ \A c \in Call : log'.call[c] = "started" <=> log.call[c] = "started"
<1>1. log \in LogRow
  BY DEF TypeInv, TypeOK
<1> QED
  BY <1>1 DEF LogStatus, WithStatus, LogRow

LEMMA StatusKeepsFlight ==
  ASSUME TypeInv, NEW s, LogStatus(s)
  PROVE  log'.status = s /\ (InFlight' <=> InFlight)
BY StatusRecord, ExecutionAssumption DEF InFlight

LEMMA CallRecord ==
  ASSUME TypeInv, NEW c \in Call, NEW r, log' = [log EXCEPT !.call[c] = r]
  PROVE  log'.status = log.status /\ log'.call[c] = r /\ \A d \in Call : d # c => log'.call[d] = log.call[d]
<1>1. log \in LogRow
  BY DEF TypeInv, TypeOK
<1> QED
  BY <1>1 DEF LogRow

LEMMA ClosedRecord ==
  ASSUME TypeInv, NEW c \in Call, log' = [log EXCEPT !.call[c] = "closed"]
  PROVE  /\ log'.status = log.status
         /\ \A d \in Manual : log'.call[d] = "started" => log.call[d] = "started" /\ d # c
BY CallRecord, ExecutionAssumption

(* The ways a step of a handler ends. *)
LEMMA ReplaceTurn ==
  ASSUME NEW h \in handlers, NEW k, Owns(h), Replace(h, k), LogFits', Fits(k)'
  PROVE  Turn(h)
BY DEF Turn, Replace

LEMMA PlainTurn ==
  ASSUME NEW h \in handlers, h \in Handler, Owns(h), LogFits',
         NEW pc \in {"prepared", "resume", "unknown", "thrown", "claimed"}, Goto(h, pc)
  PROVE  Turn(h)
<1>1. [h EXCEPT !.pc = pc].pc = pc
  BY DEF Handler
<1>2. Fits([h EXCEPT !.pc = pc])'
  BY <1>1 DEF Fits, Working, Carrying
<1> QED
  BY <1>2, ReplaceTurn DEF Goto

LEMMA ThrowTurn ==
  ASSUME NEW h \in handlers, h \in Handler, Owns(h), LogFits', NEW out, Throw(h, out)
  PROVE  Turn(h)
<1>1. Fits(Thrown(h, out))'
  BY ThrownPlace DEF Fits, Working, Carrying
<1> QED
  BY <1>1, ReplaceTurn DEF Throw

LEMMA QuitTurn ==
  ASSUME TypeInv, NEW h \in handlers, h \in Handler, Owns(h), LogFits, NEW out, Quit(h, out)
  PROVE  Turn(h)
<1>1. LogFits'
  BY StatusKeepsFlight DEF Quit, LogFits, Fresh
<1> QED
  BY <1>1, ThrowTurn DEF Quit

LEMMA CommitTurn ==
  ASSUME TypeInv, NEW h \in handlers, h \in Handler, Owns(h), LogFits,
         NEW wanted \in {"completed", "paused", "failed", "cancelled"}, Commit(h, wanted)
  PROVE  Turn(h)
<1> DEFINE status == IF exec.status \in {"cancelled", "paused", "interrupted"}
                     THEN exec.status ELSE wanted
<1>1. CASE \E out : Quit(h, out)
  BY <1>1, QuitTurn
<1>2. CASE LogStatus(status) /\ Leave(h)
  <2>1. status \notin Fresh
    BY DEF Fresh
  <2> HIDE DEF status
  <2>2. LogFits'
    BY <1>2, <2>1, StatusKeepsFlight DEF LogFits
  <2> QED
    BY <1>2, <2>2 DEF Turn, Leave
<1> QED
  BY <1>1, <1>2 DEF Commit

LEMMA FailTurn ==
  ASSUME TypeInv, NEW h \in handlers, h \in Handler, Owns(h), LogFits, Fail(h) \/ Abandon(h)
  PROVE  Turn(h)
<1>1. CASE Throw(h, "interrupted") /\ UNCHANGED log
  <2>1. LogFits'
    BY <1>1 DEF LogFits, InFlight
  <2> QED
    BY <1>1, <2>1, ThrowTurn
<1> QED
  BY <1>1, CommitTurn DEF Fail, Abandon

LEMMA InterruptTurn ==
  ASSUME TypeInv, NEW h \in handlers, h \in Handler, Owns(h), LogFits, Fits(h),
         NEW stop, Interrupt(h, stop)
  PROVE  Turn(h)
<1> DEFINE k == [h EXCEPT !.stop = stop]
<1>1. log'.status = "interrupted" /\ \A d \in Call : log'.call[d] = "started" <=> log.call[d] = "started"
  BY StatusRecord DEF Interrupt
<1>2. InFlight' <=> InFlight
  BY StatusKeepsFlight DEF Interrupt
<1>3. LogFits'
  BY <1>1 DEF LogFits, Fresh
<1>4. Thrown(k, "interrupted").pc = "thrown"
  BY DEF Handler, Thrown
<1>5. [k EXCEPT !.halted = TRUE].pc = h.pc /\ [k EXCEPT !.halted = TRUE].call = h.call
  BY DEF Handler
<1>6. Replace(h, Thrown(k, "interrupted")) \/ Replace(h, [k EXCEPT !.halted = TRUE])
  BY DEF Interrupt
<1> HIDE DEF k
<1>7. Fits(Thrown(k, "interrupted"))'
  BY <1>4 DEF Fits, Working, Carrying
<1>8. Fits([k EXCEPT !.halted = TRUE])'
  BY <1>1, <1>2, <1>5, ExecutionAssumption DEF Fits, Fresh
<1> QED
  BY <1>3, <1>6, <1>7, <1>8, ReplaceTurn

(* A handler that moves on in its turn, with nothing in flight. *)
LEMMA WorkTurn ==
  ASSUME NEW h \in handlers, Owns(h), NEW k, Replace(h, k), k.pc \in Working, ~InFlight',
         k.pc \in Carrying => log'.status \notin Fresh
  PROVE  Turn(h)
<1>1. LogFits'
  BY DEF LogFits
<1>2. Fits(k)'
  BY DEF Fits, Working
<1> QED
  BY <1>1, <1>2, ReplaceTurn

LEMMA GoesOn ==
  ASSUME NEW h \in handlers, h \in Handler, Owns(h), NEW pc \in Working, Goto(h, pc), ~InFlight',
         pc \in Carrying => log'.status \notin Fresh
  PROVE  Turn(h)
<1>1. [h EXCEPT !.pc = pc].pc = pc
  BY DEF Handler
<1> QED
  BY <1>1, WorkTurn DEF Goto

LEMMA OpenTurn ==
  ASSUME TypeInv, NEW h \in handlers, LogFits,
         \/ Prepare(h) \/ TransientError(h) \/ OpenFresh(h) \/ OpenStopped(h) \/ OpenEnded(h)
         \/ OpenRunning(h) \/ OpenWaiting(h) \/ Resume(h)
  PROVE  Turn(h)
<1>h. h \in Handler
  BY DEF TypeInv, BusyOK
<1>l. UNCHANGED log => LogFits' /\ (InFlight' <=> InFlight)
  BY DEF LogFits, InFlight
<1> USE <1>h
<1>1. CASE Prepare(h)
  <2>1. Owns(h) /\ LogFits'
    BY <1>1, <1>l DEF Prepare, Step
  <2>2. CASE Replace(h, [h EXCEPT !.pc = "prepared", !.cap = exec.gen])
    <3>1. PICK k : k = [h EXCEPT !.pc = "prepared", !.cap = exec.gen]
      OBVIOUS
    <3>2. k.pc = "prepared" /\ Replace(h, k)
      BY <2>2, <3>1 DEF Handler
    <3>3. Fits(k)'
      BY <3>2 DEF Fits, Working, Carrying
    <3> QED
      BY <2>1, <3>2, <3>3, ReplaceTurn
  <2> QED
    BY <1>1, <2>1, <2>2, ThrowTurn DEF Prepare
<1>2. CASE TransientError(h)
  <2>1. \A k \in handlers' : k \in handlers \/ k.pc = "thrown"
    BY <1>2, ThrownPlace DEF TransientError, Throw, Replace
  <2> QED
    BY <1>2, <1>l, <2>1 DEF TransientError, Turn
<1>3. CASE OpenFresh(h)
  <2>1. Owns(h) /\ LogFits' /\ ~InFlight'
    BY <1>3, <1>l DEF OpenFresh, Step, LogFits, Fresh
  <2>2. "ready" \in Working /\ "ready" \notin Carrying
    BY DEF Working, Carrying
  <2> QED
    BY <1>3, <2>1, <2>2, GoesOn, ThrowTurn DEF OpenFresh
<1>4. CASE OpenStopped(h) \/ OpenEnded(h)
  <2>1. Owns(h) /\ LogFits'
    BY <1>4, <1>l DEF OpenStopped, OpenEnded, Step
  <2> QED
    BY <1>4, <2>1, PlainTurn, ThrowTurn DEF OpenStopped, OpenEnded
<1>5. CASE OpenRunning(h) \/ Resume(h)
  <2>0. Owns(h)
    BY <1>5 DEF OpenRunning, Resume, Step
  <2>1. CASE LogStatus("interrupted") /\ (Goto(h, "resume") \/ Throw(h, "interrupted"))
    <3>1. LogFits'
      BY <2>1, StatusKeepsFlight DEF LogFits, Fresh
    <3> QED
      BY <2>0, <2>1, <3>1, PlainTurn, ThrowTurn
  <2>2. CASE (\E c \in Call : log' = [log EXCEPT !.call[c] = "closed"]) /\ Goto(h, "unknown")
    <3>1. LogFits'
      BY <2>2, ClosedRecord DEF LogFits, InFlight
    <3> QED
      BY <2>0, <2>2, <3>1, PlainTurn
  <2>3. CASE /\ {c \in Manual : log.call[c] \in {"released", "started"}} = {}
             /\ LogStatus("queued") /\ Goto(h, "ready")
    <3>1. ~InFlight
      BY <2>3 DEF InFlight
    <3>2. ~InFlight'
      BY <2>3, <3>1, StatusKeepsFlight
    <3>3. "ready" \in Working /\ "ready" \notin Carrying
      BY DEF Working, Carrying
    <3> QED
      BY <2>0, <2>3, <3>2, <3>3, GoesOn
  <2> QED
    BY <1>5, <2>1, <2>2, <2>3, ExecutionAssumption DEF OpenRunning, Resume, Unresolved
<1>6. CASE OpenWaiting(h)
  <2>1. Owns(h) /\ log.status = "waiting_approval"
    BY <1>6 DEF OpenWaiting, Step
  <2>2. CASE /\ \E c \in Call : Replace(h, [h EXCEPT !.pc = "waiting", !.call = c, !.recovered = TRUE])
             /\ UNCHANGED log
    <3>1. ~InFlight'
      BY <1>l, <2>1, <2>2 DEF LogFits, Fresh
    <3>2. \A c \in Call : [h EXCEPT !.pc = "waiting", !.call = c, !.recovered = TRUE].pc = "waiting"
      BY DEF Handler
    <3>3. "waiting" \in Working /\ "waiting" \notin Carrying
      BY DEF Working, Carrying
    <3> QED
      BY <2>1, <2>2, <3>1, <3>2, <3>3, WorkTurn
  <2> QED
    BY <1>6, <2>1, <2>2, QuitTurn DEF OpenWaiting, Unresolved
<1> QED
  BY <1>1, <1>2, <1>3, <1>4, <1>5, <1>6

LEMMA ModelTurn ==
  ASSUME TypeInv, NEW h \in handlers, LogFits, Owns(h) => Fits(h),
         \/ Begin(h) \/ ModelRequest(h) \/ ModelFails(h) \/ ModelAnswers(h) \/ Complete(h)
         \/ (\E c \in Call : PersistIntent(h, c)) \/ EnterApprovalWait(h) \/ AuthorizeAuto(h)
  PROVE  Turn(h)
<1>h. h \in Handler
  BY DEF TypeInv, BusyOK
<1>o. /\ Owns(h) /\ Fits(h)
      /\ h.pc \in {"ready", "drain", "model", "idle", "intent"}
  BY DEF Begin, ModelRequest, ModelFails, ModelAnswers, Complete, PersistIntent, EnterApprovalWait,
     AuthorizeAuto, Step
<1>f. ~InFlight /\ (h.pc # "ready" => log.status \notin Fresh)
  BY <1>o DEF Fits, Working, Carrying
<1>l. UNCHANGED log => ~InFlight'
  BY <1>f DEF InFlight
<1> USE <1>h, <1>o, FailTurn, CommitTurn
<1>p. {"ready", "drain", "model", "idle", "intent", "waiting", "granted"} = Working /\ "waiting" \notin Carrying
  BY DEF Working, Carrying
<1>1. CASE Begin(h) \/ EnterApprovalWait(h)
  <2>1. PICK s \in {"running", "waiting_approval"} :
          LogStatus(s) /\ ((s = "running" /\ Goto(h, "drain")) \/ Goto(h, "waiting"))
    BY <1>1 DEF Begin, EnterApprovalWait
  <2>2. log'.status = s /\ ~InFlight'
    BY <1>f, <2>1, StatusKeepsFlight
  <2>3. "running" \notin Fresh
    BY DEF Fresh
  <2> QED
    BY <1>p, <2>1, <2>2, <2>3, GoesOn
<1>2. CASE ModelRequest(h) \/ ModelAnswers(h) \/ AuthorizeAuto(h)
  <2>1. CASE UNCHANGED log /\ \E pc \in {"model", "idle", "granted"} : Goto(h, pc)
    <3>1. h.pc # "ready"
      BY <1>2 DEF ModelRequest, ModelAnswers, AuthorizeAuto, Step
    <3> QED
      BY <1>f, <1>l, <1>p, <2>1, <3>1, GoesOn
  <2> QED
    BY <1>2, <2>1 DEF ModelRequest, ModelAnswers, AuthorizeAuto
<1>3. CASE ModelFails(h)
  BY <1>3 DEF ModelFails
<1>4. CASE Complete(h)
  BY <1>4 DEF Complete
<1>5. CASE \E c \in Call : PersistIntent(h, c)
  <2> PICK c \in Call : PersistIntent(h, c)
    BY <1>5
  <2>1. log \in LogRow /\ log' = [log EXCEPT !.call[c] = "intent", !.gen[c] = h.cap] /\ h.pc = "model"
    BY DEF PersistIntent, TypeInv, TypeOK, Step
  <2>2. log'.status = log.status /\ \A d \in Call : log'.call[d] = "started" => log.call[d] = "started"
    BY <2>1 DEF LogRow
  <2>3. ~InFlight' /\ log'.status \notin Fresh
    BY <1>f, <2>1, <2>2, ExecutionAssumption DEF InFlight
  <2>4. PICK k : k = [h EXCEPT !.pc = "intent", !.call = c]
    OBVIOUS
  <2>5. k.pc = "intent" /\ Replace(h, k)
    BY <2>4 DEF Handler, PersistIntent
  <2>6. k.pc \in Working
    BY <1>p, <2>5
  <2> QED
    BY <2>3, <2>5, <2>6, WorkTurn
<1> QED
  BY <1>1, <1>2, <1>3, <1>4, <1>5

LEMMA ToolTurn ==
  ASSUME TypeInv, NEW h \in handlers, LogFits, Owns(h) => Fits(h),
         \/ AskApproval(h) \/ LeaveApprovalWait(h) \/ Dispatch(h)
         \/ ToolReturns(h) \/ ToolThrows(h) \/ DeclareUnknown(h)
  PROVE  Turn(h)
<1>h. h \in Handler /\ (h.pc \in Busy => h.call \in Call)
  BY DEF TypeInv, BusyOK
<1> USE <1>h, FailTurn, CommitTurn
<1>1. CASE AskApproval(h)
  BY <1>1 DEF AskApproval, Turn, LogFits, InFlight
<1>2. CASE LeaveApprovalWait(h)
  <2>1. Owns(h) /\ Fits(h) /\ h.pc = "waiting"
    BY <1>2 DEF LeaveApprovalWait, Step
  <2>2. CASE LogStatus("running") /\ Goto(h, "granted")
    <3>1. ~InFlight
      BY <2>1 DEF Fits, Working
    <3>2. ~InFlight' /\ log'.status \notin Fresh
      BY <2>2, <3>1, StatusKeepsFlight DEF Fresh
    <3>3. "granted" \in Working
      BY DEF Working
    <3> QED
      BY <2>1, <2>2, <3>2, <3>3, GoesOn
  <2> QED
    BY <1>2, <2>1, <2>2 DEF LeaveApprovalWait
<1>3. CASE Dispatch(h)
  <2>1. Owns(h) /\ Fits(h) /\ h.pc = "granted"
    BY <1>3 DEF Dispatch, Step
  <2>2. CASE /\ log' = [log EXCEPT !.call[h.call] = "started"]
             /\ Throw(h, "interrupted") \/ Goto(h, "started")
    <3>1. h.call \in Call /\ ~InFlight /\ log.status \notin Fresh
      BY <2>1 DEF Busy, Fits, Working, Carrying
    <3>2. /\ log'.status = log.status
          /\ \A d \in Call : d # h.call => log'.call[d] = log.call[d]
      BY <2>2, <3>1, CallRecord
    <3>3. LogFits'
      BY <3>1, <3>2 DEF LogFits
    <3>4. \A d \in Manual : log'.call[d] = "started" => d = h.call
      BY <3>1, <3>2, ExecutionAssumption DEF InFlight
    <3>5. CASE Goto(h, "started")
      <4>1. [h EXCEPT !.pc = "started"].pc = "started" /\ [h EXCEPT !.pc = "started"].call = h.call
        BY DEF Handler
      <4>2. Fits([h EXCEPT !.pc = "started"])'
        BY <3>1, <3>2, <3>4, <4>1 DEF Fits, Working
      <4> QED
        BY <2>1, <3>3, <3>5, <4>2, ReplaceTurn DEF Goto
    <3> QED
      BY <2>1, <2>2, <3>3, <3>5, ThrowTurn
  <2> QED
    BY <1>3, <2>1, <2>2 DEF Dispatch
<1>4. CASE ToolReturns(h) \/ ToolThrows(h)
  <2>1. Owns(h) /\ Fits(h) /\ h.pc = "started" /\ h.call \in Call
    BY <1>4 DEF ToolReturns, ToolThrows, Step, Busy
  <2>2. CASE log' = [log EXCEPT !.call[h.call] = "closed"]
    <3>1. /\ log'.status = log.status
          /\ \A d \in Manual : log'.call[d] = "started" => log.call[d] = "started" /\ d # h.call
      BY <2>1, <2>2, ClosedRecord
    <3>2. ~InFlight' /\ log'.status \notin Fresh
      BY <2>1, <3>1 DEF Fits, InFlight, Carrying
    <3>3. LogFits'
      BY <3>2 DEF LogFits
    <3>4. CASE Replace(h, [h EXCEPT !.pc = "drain", !.call = NoCall])
      <4>1. [h EXCEPT !.pc = "drain", !.call = NoCall].pc = "drain" /\ "drain" \in Working
        BY DEF Handler, Working
      <4> QED
        BY <2>1, <3>2, <3>4, <4>1, WorkTurn
    <3> QED
      BY <1>4, <2>1, <3>3, <3>4, ThrowTurn, PlainTurn DEF ToolReturns, ToolThrows
  <2> QED
    BY <1>4, <2>1, <2>2 DEF ToolReturns, ToolThrows
<1>5. CASE DeclareUnknown(h)
  <2>1. LogFits' /\ Owns(h)
    BY <1>5, StatusKeepsFlight DEF DeclareUnknown, Step, LogFits, Fresh
  <2> QED
    BY <1>5, <2>1, ThrowTurn DEF DeclareUnknown
<1> QED
  BY <1>1, <1>2, <1>3, <1>4, <1>5

LEMMA HandlerTurn ==
  ASSUME TypeInv, NEW h \in handlers, LogFits, Owns(h) => Fits(h),
         HandlerStep(h) \/ TransientError(h) \/ StopWorker(h)
  PROVE  Turn(h)
<1>h. h \in Handler
  BY DEF TypeInv, BusyOK
<1>l. UNCHANGED log => LogFits'
  BY DEF LogFits, InFlight
<1> USE <1>h
<1>1. CASE BudgetExpires(h)
  BY <1>1, CommitTurn DEF BudgetExpires, Step
<1>2. CASE ObserveControl(h)
  BY <1>2, CommitTurn, QuitTurn, InterruptTurn DEF ObserveControl
<1>3. CASE InterruptAtStart(h)
  BY <1>3, InterruptTurn DEF InterruptAtStart
<1>4. CASE StopWorker(h)
  <2>1. CASE Replace(h, [h EXCEPT !.stop = TRUE]) /\ UNCHANGED log
    <3>1. [h EXCEPT !.stop = TRUE].pc = h.pc /\ [h EXCEPT !.stop = TRUE].call = h.call
      BY DEF Handler
    <3>2. Owns(h) /\ Fits(h)
      BY <1>4 DEF StopWorker
    <3>3. Fits([h EXCEPT !.stop = TRUE])'
      BY <2>1, <3>1, <3>2 DEF Fits, InFlight
    <3> QED
      BY <1>l, <2>1, <3>2, <3>3, ReplaceTurn
  <2> QED
    BY <1>4, <2>1, InterruptTurn DEF StopWorker
<1>5. CASE LoseLease(h) \/ Settle(h)
  BY <1>5, <1>l DEF LoseLease, Settle, Leave, Turn
<1> QED
  BY <1>1, <1>2, <1>3, <1>4, <1>5, OpenTurn, ModelTurn, ToolTurn DEF HandlerStep

(* Any other step leaves the log alone, and adds at most a handler that has just claimed. *)
LEMMA OtherTurn ==
  ASSUME Next, ~\E h \in handlers : HandlerStep(h) \/ TransientError(h) \/ StopWorker(h)
  PROVE  log' = log /\ \A k \in handlers' : k \in handlers \/ k.pc = "claimed"
<1>1. CASE UserStep \/ ClockStep
  BY <1>1 DEF UserStep, ClockStep, LeaseLapses
<1>2. CASE ClaimStep
  BY <1>2 DEF ClaimStep, CloseStoppedJob, Claim
<1>3. CASE FaultStep
  BY <1>3 DEF FaultStep, CrashWorker
<1> QED
  BY <1>1, <1>2, <1>3 DEF Next

(* Nobody becomes an owner but by a claim, and a member who lost a role stays lost. *)
LEMMA OwnersStay ==
  ASSUME TypeInv, RowInv, [Next]_vars
  PROVE  /\ member'.epoch = 0 => member.epoch = 0
         /\ \A q \in handlers : Owns(q)' => Owns(q) \/ \E w \in Worker : Claim(w)
<1>t. KernelTypeOK /\ jobs \in [Gen -> JobRow] /\ \A q \in handlers : q.gen \in Gen /\ q.fence \in Nat
  BY DEF TypeInv, TypeOK, KernelTypeOK, BusyOK, Handler
<1>1. CASE Quiet
  BY <1>1 DEF Quiet, Owns
<1>2. CASE Closing
  <2>1. PICK g \in Gen, outcome \in {"completed", "failed"} : jobs' = Settled(g, outcome)
    BY <1>2 DEF Closing
  <2>2. /\ jobs'[g].status = outcome
        /\ \A k \in Gen : k # g => jobs'[k] = jobs[k]
    BY <1>t, <2>1, SettledRows
  <2> QED
    BY <1>2, <1>t, <2>2 DEF Closing, Owns
<1>3. CASE \E w \in Worker : Claim(w)
  BY <1>3 DEF Claim, LeaseJob
<1>4. CASE ResumeExecution
  <2>1. exec.gen + 1 \in Gen
    BY <1>4 DEF ResumeExecution, Gen, TypeInv, TypeOK, KernelTypeOK, ExecRow
  <2>2. /\ jobs'[exec.gen + 1].status = "available"
        /\ \A k \in Gen : k # exec.gen + 1 => jobs'[k] = jobs[k]
    BY <1>4, <1>t, <2>1 DEF ResumeExecution, FreshJob
  <2> QED
    BY <1>4, <1>t, <2>2 DEF ResumeExecution, Owns
<1>5. CASE \E g \in Gen : LapseLease(g)
  BY <1>5, <1>t DEF LapseLease, Owns, JobRow
<1> QED
  BY <1>1, <1>2, <1>3, <1>4, <1>5, NextKind DEF Kind

(* Whom a step leaves as the owner: the one there was, after a step of its own or of     *)
(* somebody who only gives up, or one that has just claimed.                             *)
LEMMA NextOwner ==
  ASSUME TypeInv, RowInv, OneRunner, OneRunner', Next, member'.epoch = 0,
         NEW q \in handlers', Owns(q)'
  PROVE  \/ log' = log /\ (q.pc = "claimed" \/ (q \in handlers /\ Owns(q)))
         \/ \E h \in handlers :
              /\ HandlerStep(h) \/ TransientError(h) \/ StopWorker(h)
              /\ q \in handlers => Owns(q) /\ (Owns(h) => q = h)
<1>1. /\ member.epoch = 0
      /\ \A k \in handlers : Owns(k)' => Owns(k) \/ \E w \in Worker : Claim(w)
  BY OwnersStay
<1>2. CASE \E h \in handlers : HandlerStep(h) \/ TransientError(h) \/ StopWorker(h)
  <2> PICK h \in handlers : HandlerStep(h) \/ TransientError(h) \/ StopWorker(h)
    BY <1>2
  <2>1. Quiet \/ Closing
    BY HandlerKind DEF Kind
  <2>2. CASE Quiet
    BY <1>1, <2>2 DEF Quiet, Owns, OneRunner
  <2>3. CASE Closing
    <3>1. KernelTypeOK /\ \A k \in handlers : k.gen \in Gen
      BY DEF TypeInv, TypeOK, BusyOK, Handler
    <3>2. PICK g \in Gen, outcome \in {"completed", "failed"} : jobs' = Settled(g, outcome)
      BY <2>3 DEF Closing
    <3>3. /\ jobs'[g].status = outcome
          /\ \A k \in Gen : k # g => jobs'[k] = jobs[k]
      BY <3>1, <3>2, SettledRows
    <3> QED
      BY <1>1, <3>1, <3>3 DEF Owns, OneRunner
  <2> QED
    BY <2>1, <2>2, <2>3
<1>3. CASE \E w \in Worker : Claim(w)
  <2> PICK w \in Worker : Claim(w)
    BY <1>3
  <2> PICK g \in Gen :
        /\ LeaseJob(w, g)
        /\ handlers' = handlers \cup
             {[worker |-> w, gen |-> g, fence |-> jobs'[g].fence, cap |-> 0, pc |-> "claimed",
               call |-> NoCall, recovered |-> FALSE, halted |-> FALSE, stop |-> FALSE,
               out |-> "none"]}
    BY DEF Claim
  <2>1. jobs'[g] = [status |-> "leased", owner |-> w, fence |-> jobs[g].fence + 1, lapsed |-> FALSE]
    BY LeasedRows DEF TypeInv, TypeOK
  <2>2. PICK r : r = [worker |-> w, gen |-> g, fence |-> jobs'[g].fence, cap |-> 0,
                      pc |-> "claimed", call |-> NoCall, recovered |-> FALSE,
                      halted |-> FALSE, stop |-> FALSE, out |-> "none"]
    OBVIOUS
  <2>3. /\ r.gen = g /\ r.worker = w /\ r.fence = jobs'[g].fence /\ r.pc = "claimed"
        /\ r \in handlers'
    BY <2>2
  <2>4. Owns(r)'
    BY <2>1, <2>3 DEF Owns
  <2>5. q = r
    BY <1>1, <2>3, <2>4 DEF OneRunner
  <2> QED
    BY <2>3, <2>5 DEF Claim
<1>4. CASE /\ ~\E h \in handlers : HandlerStep(h) \/ TransientError(h) \/ StopWorker(h)
           /\ ~\E w \in Worker : Claim(w)
  BY <1>1, <1>4, OtherTurn
<1> QED
  BY <1>2, <1>3, <1>4

LEMMA NextTurn ==
  ASSUME TypeInv, RowInv, OneRunner, OneRunner', TurnInv, [Next]_vars
  PROVE  TurnInv'
<1>1. CASE UNCHANGED vars
  BY <1>1 DEF vars, kernelVars, TurnInv, LogFits, InFlight, Fits, Owns
<1>2. CASE Next
  <2> SUFFICES ASSUME member'.epoch = 0
               PROVE  LogFits' /\ \A q \in handlers' : Owns(q)' => Fits(q)'
    BY DEF TurnInv
  <2>1. LogFits /\ \A h \in handlers : Owns(h) => Fits(h)
    BY OwnersStay DEF TurnInv
  <2>2. \A h \in handlers : HandlerStep(h) \/ TransientError(h) \/ StopWorker(h) => Turn(h)
    BY <2>1, HandlerTurn
  <2>3. LogFits'
    <3>1. log' = log => LogFits'
      BY <2>1 DEF LogFits, InFlight
    <3> QED
      BY <1>2, <2>2, <3>1, OtherTurn DEF Turn
  <2>4. ASSUME NEW q \in handlers', Owns(q)' PROVE Fits(q)'
    <3>1. log' = log /\ q \in handlers /\ Owns(q) => Fits(q)'
      BY <2>1 DEF Fits, InFlight
    <3>2. q.pc \in {"claimed", "thrown"} => Fits(q)'
      BY DEF Fits, Working, Carrying
    <3>3. CASE \E h \in handlers :
                 /\ HandlerStep(h) \/ TransientError(h) \/ StopWorker(h)
                 /\ q \in handlers => Owns(q) /\ (Owns(h) => q = h)
      BY <2>2, <3>1, <3>2, <3>3 DEF Turn
    <3> QED
      BY <1>2, <2>4, <3>1, <3>2, <3>3, NextOwner
  <2> QED
    BY <2>3, <2>4
<1> QED
  BY <1>1, <1>2

LEMMA TurnInvariance == Spec => []TurnInv
<1>1. IInv => TypeInv
  BY DEF IInv
<1>2. Init => TurnInv
  BY DEF Init, KernelInit, TurnInv, LogFits, InFlight
<1>3. TypeInv /\ RowInv /\ OneRunner /\ OneRunner' /\ TurnInv /\ [Next]_vars => TurnInv'
  BY NextTurn
<1> QED
  BY <1>1, <1>2, <1>3, Invariance, RowInvariance, OneRunnerAtATime, PTL DEF Spec

(* A call that may not be replayed is never overtaken: whatever crashes, lapses or is   *)
(* stopped after its start, no other call starts before its record is closed.           *)
THEOREM NoCallOvertakes == Spec => NothingBehindOpenCall
<1>1. IInv => TypeInv
  BY DEF IInv
<1>2. TypeInv /\ TurnInv /\ [Next]_vars =>
        [\A c \in Call, d \in Manual :
           member.epoch = 0 /\ tool[c].admission = "none" /\ tool'[c].admission = "started" =>
             log.call[d] # "started"]_vars
  <2> SUFFICES ASSUME TypeInv, TurnInv, Next, NEW c \in Call, NEW d \in Manual, member.epoch = 0,
                      tool[c].admission = "none", tool'[c].admission = "started"
               PROVE  log.call[d] # "started"
    OBVIOUS
  <2>1. PICK h \in handlers : Dispatch(h)
    BY OnlyDispatchStarts
  <2>2. Owns(h) /\ h.pc = "granted"
    BY <2>1 DEF Dispatch, Step
  <2>3. ~InFlight
    BY <2>2 DEF TurnInv, Fits, Working
  <2> QED
    BY <2>3 DEF InFlight
<1> QED
  BY <1>1, <1>2, Invariance, TurnInvariance, PTL
     DEF Spec, NothingBehindOpenCall
-----------------------------------------------------------------------------
(* How far the calls are on record.  A step writes a status or an intent and leaves the *)
(* effects of all calls alone, or starts one call, or closes the record of one.         *)
SameEffects == \A c \in Call : tool'[c].admission = tool[c].admission

Writes ==
  /\ \/ log' = log
     \/ \E s : LogStatus(s)
     \/ \E c \in Call, g \in 0 .. MaxGen : log.call[c] = "none" /\ log' = [log EXCEPT !.call[c] = "intent", !.gen[c] = g]
  /\ SameEffects

Starts(h) ==
  /\ Owns(h) /\ h.pc = "granted" /\ h.call \in Call /\ ~Refused(h) /\ ApprovalCurrent(h.call)
  /\ Admit(h.call)
  /\ log' = [log EXCEPT !.call[h.call] = "started"]
  /\ UNCHANGED <<exec, jobs, member>>

Closes(c) ==
  /\ log' = [log EXCEPT !.call[c] = "closed"]
  /\ UNCHANGED <<exec, jobs, member>>
  /\ \/ UNCHANGED tool
     \/ SettleAdmission(c) /\ \E h \in handlers : Owns(h) /\ h.pc = "started" /\ h.call = c

CallStep == Writes \/ (\E h \in handlers : Starts(h)) \/ \E c \in Call : Closes(c)

LEMMA SameTools == UNCHANGED tool => SameEffects
BY DEF SameEffects

LEMMA ExpiredEffects == KernelTypeOK /\ tool' = ExpiredApprovals => SameEffects
BY DEF KernelTypeOK, ToolRow, ExpiredApprovals, SameEffects

LEMMA AskedEffects ==
  ASSUME KernelTypeOK, NEW c \in Call, NEW g, RequestApproval(c, g) \/ RecordAutoIntent(c, g)
  PROVE  SameEffects
BY DEF KernelTypeOK, ToolRow, RequestApproval, RecordAutoIntent, SameEffects, kernelVars

LEMMA CommitWrites ==
  ASSUME NEW h, NEW wanted, Commit(h, wanted)
  PROVE  Writes
<1>1. UNCHANGED tool
  BY DEF Commit, Quit, kernelVars, CompleteJob, FailJob
<1>2. \E s : LogStatus(s)
  BY DEF Commit, Quit
<1> QED
  BY <1>1, <1>2, SameTools DEF Writes

LEMMA FailWrites ==
  ASSUME NEW h, Fail(h) \/ Abandon(h)
  PROVE  Writes
BY CommitWrites, SameTools DEF Fail, Abandon, Writes, kernelVars

LEMMA HandlerCalls ==
  ASSUME TypeInv, NEW h \in handlers, HandlerStep(h) \/ TransientError(h) \/ StopWorker(h)
  PROVE  CallStep
<1>h. /\ h \in Handler /\ (h.pc \in Busy => h.call \in Call) /\ KernelTypeOK
      /\ log \in LogRow
  BY DEF TypeInv, TypeOK, BusyOK
<1> USE <1>h, CommitWrites, FailWrites, SameTools
<1>1. CASE \/ Prepare(h) \/ OpenFresh(h) \/ OpenStopped(h) \/ OpenEnded(h) \/ TransientError(h)
           \/ Begin(h) \/ ModelRequest(h) \/ ModelFails(h) \/ ModelAnswers(h) \/ Complete(h)
           \/ EnterApprovalWait(h) \/ DeclareUnknown(h) \/ BudgetExpires(h) \/ LoseLease(h)
  BY <1>1 DEF Prepare, OpenFresh, OpenStopped, OpenEnded, TransientError, Begin, ModelRequest,
     ModelFails, ModelAnswers, Complete, EnterApprovalWait, DeclareUnknown, BudgetExpires, LoseLease,
     kernelVars, CallStep, Writes
<1>2. CASE OpenRunning(h) \/ Resume(h)
  BY <1>2 DEF OpenRunning, Resume, Unresolved, kernelVars, CallStep, Writes, Closes
<1>3. CASE OpenWaiting(h) \/ LeaveApprovalWait(h)
  BY <1>3 DEF OpenWaiting, LeaveApprovalWait, Quit, kernelVars, CallStep, Writes
<1>4. CASE \E c \in Call : PersistIntent(h, c)
  <2> PICK c \in Call : PersistIntent(h, c)
    BY <1>4
  <2>1. /\ log.call[c] = "none" /\ log' = [log EXCEPT !.call[c] = "intent", !.gen[c] = h.cap]
        /\ h.cap \in 0 .. MaxGen /\ UNCHANGED tool
    BY DEF PersistIntent, kernelVars, Handler
  <2> QED
    BY <2>1 DEF CallStep, Writes
<1>5. CASE AuthorizeAuto(h)
  <2>1. h.call \in Call
    BY <1>5 DEF AuthorizeAuto, Step, Busy
  <2> QED
    BY <1>5, <2>1, AskedEffects DEF AuthorizeAuto, CallStep, Writes
<1>6. CASE AskApproval(h)
  <2>1. h.call \in Call
    BY <1>6 DEF AskApproval, Busy
  <2> QED
    BY <1>6, <2>1, AskedEffects DEF AskApproval, CallStep, Writes
<1>7. CASE Dispatch(h)
  <2>1. Owns(h) /\ h.pc = "granted" /\ h.call \in Call
    BY <1>7 DEF Dispatch, Step, Busy
  <2> QED
    BY <1>7, <2>1 DEF Dispatch, CallStep, Starts
<1>8. CASE ToolReturns(h)
  <2>1. Owns(h) /\ h.pc = "started" /\ h.call \in Call
    BY <1>8 DEF ToolReturns, Step, Busy
  <2> QED
    BY <1>8, <2>1 DEF ToolReturns, CallStep, Closes
<1>9. CASE ToolThrows(h)
  <2>1. h.call \in Call
    BY <1>9 DEF ToolThrows, Step, Busy
  <2> QED
    BY <1>9, <2>1 DEF ToolThrows, CallStep, Closes, kernelVars
<1>10. CASE ObserveControl(h) \/ InterruptAtStart(h) \/ StopWorker(h)
  BY <1>10 DEF ObserveControl, InterruptAtStart, StopWorker, Interrupt, Quit, kernelVars, CallStep, Writes
<1>11. CASE Settle(h)
  BY <1>11 DEF Settle, SettleThrown, CompleteJob, InterruptJob, MarkNeedsReconciliation, FailJob,
     kernelVars, CallStep, Writes
<1> QED
  BY <1>1, <1>2, <1>3, <1>4, <1>5, <1>6, <1>7, <1>8, <1>9, <1>10, <1>11 DEF HandlerStep

LEMMA NextCalls ==
  ASSUME TypeInv, [Next]_vars
  PROVE  CallStep
<1>h. KernelTypeOK
  BY DEF TypeInv, TypeOK
<1> USE <1>h, SameTools, ExpiredEffects
<1>1. CASE UserStep
  <2>1. CASE CancelExecution \/ ResumeExecution
    BY <1>1, <2>1 DEF CancelExecution, ResumeExecution, UserStep, CallStep, Writes
  <2>2. CASE \E c \in Call, decision \in {"approved", "denied"} : DecideApproval(c, decision)
    <3>1. SameEffects
      BY <2>2 DEF DecideApproval, KernelTypeOK, ToolRow, SameEffects
    <3> QED
      BY <1>1, <3>1 DEF UserStep, CallStep, Writes
  <2>3. CASE RevokeInitiator \/ RevokeApprover \/ RestoreMember
    BY <1>1, <2>3 DEF RevokeInitiator, RevokeApprover, RestoreMember, Revoked, UserStep, CallStep, Writes
  <2> QED
    BY <1>1, <2>1, <2>2, <2>3 DEF UserStep
<1>2. CASE ClockStep
  <2>1. CASE \E g \in Gen : LeaseLapses(g)
    BY <2>1 DEF LeaseLapses, CallStep, Writes
  <2>2. CASE \E c \in Call : IntentExpires(c) /\ UNCHANGED <<log, handlers, faults>>
    <3>1. SameEffects
      BY <2>2 DEF IntentExpires, KernelTypeOK, ToolRow, SameEffects
    <3> QED
      BY <2>2, <3>1 DEF CallStep, Writes
  <2> QED
    BY <1>2, <2>1, <2>2 DEF ClockStep
<1>3. CASE ClaimStep
  BY <1>3 DEF ClaimStep, CloseStoppedJob, CloseBeforeClaim, Claim, LeaseJob, CallStep, Writes
<1>4. CASE \E h \in handlers : HandlerStep(h)
  BY <1>4, HandlerCalls
<1>5. CASE FaultStep
  BY <1>5, HandlerCalls DEF FaultStep, CrashWorker, kernelVars, CallStep, Writes
<1>6. CASE UNCHANGED vars
  BY <1>6 DEF vars, kernelVars, CallStep, Writes
<1> QED
  BY <1>1, <1>2, <1>3, <1>4, <1>5, <1>6 DEF Next

(* What that means for a single call. *)
LEMMA OneCall ==
  ASSUME TypeInv, CallStep, NEW c \in Call
  PROVE  \/ tool'[c].admission = tool[c].admission /\ log'.call[c] = log.call[c]
         \/ /\ tool'[c].admission = tool[c].admission
            /\ log.call[c] \in {"none", "intent"} /\ log'.call[c] \in {"intent", "released"}
         \/ /\ \E h \in handlers : Owns(h) /\ h.pc = "granted" /\ h.call = c
            /\ tool[c].admission = "none" /\ tool'[c].admission = "started"
            /\ log'.call[c] = "started"
         \/ /\ log'.call[c] = "closed"
            /\ \/ tool'[c].admission = tool[c].admission
               \/ /\ \E h \in handlers : Owns(h) /\ h.pc = "started" /\ h.call = c
                  /\ tool'[c].admission # "none"
<1>t. log \in LogRow /\ tool \in [Call -> ToolRow]
  BY DEF TypeInv, TypeOK, KernelTypeOK
<1>1. CASE Writes
  <2>1. tool'[c].admission = tool[c].admission
    BY <1>1 DEF Writes, SameEffects
  <2>2. CASE \E s : LogStatus(s)
    <3>1. PICK s : log' = WithStatus(s)
      BY <2>2 DEF LogStatus
    <3>2. log'.call[c] = IF s = "running" /\ log.call[c] = "intent" THEN "released" ELSE log.call[c]
      BY <1>t, <3>1 DEF WithStatus, LogRow
    <3> QED
      BY <2>1, <3>2
  <2>3. CASE \E d \in Call, g \in 0 .. MaxGen : log.call[d] = "none"
                              /\ log' = [log EXCEPT !.call[d] = "intent", !.gen[d] = g]
    <3>1. PICK d \in Call, g \in 0 .. MaxGen : log.call[d] = "none"
                              /\ log' = [log EXCEPT !.call[d] = "intent", !.gen[d] = g]
      BY <2>3
    <3>2. log'.call[c] = IF c = d THEN "intent" ELSE log.call[c]
      BY <1>t, <3>1 DEF LogRow
    <3> QED
      BY <2>1, <3>1, <3>2
  <2> QED
    BY <1>1, <2>1, <2>2, <2>3 DEF Writes
<1>2. CASE \E h \in handlers : Starts(h)
  <2> PICK h \in handlers : Starts(h)
    BY <1>2
  <2>1. h.call \in Call /\ log' = [log EXCEPT !.call[h.call] = "started"]
        /\ tool[h.call].admission = "none" /\ tool' = [tool EXCEPT ![h.call].admission = "started"]
        /\ Owns(h) /\ h.pc = "granted"
    BY DEF Starts, Admit
  <2>2. /\ log'.call[c] = IF c = h.call THEN "started" ELSE log.call[c]
        /\ tool'[c].admission = IF c = h.call THEN "started" ELSE tool[c].admission
    BY <1>t, <2>1 DEF LogRow, ToolRow
  <2> QED
    BY <2>1, <2>2
<1>3. CASE \E d \in Call : Closes(d)
  <2> PICK d \in Call : Closes(d)
    BY <1>3
  <2>1. log'.call[c] = IF c = d THEN "closed" ELSE log.call[c]
    BY <1>t DEF Closes, LogRow
  <2>2. CASE UNCHANGED tool
    BY <2>1, <2>2
  <2>3. CASE SettleAdmission(d) /\ \E h \in handlers : Owns(h) /\ h.pc = "started" /\ h.call = d
    <3>1. tool'[c].admission = IF c = d /\ tool[c].admission = "started" THEN "settled"
                               ELSE tool[c].admission
      BY <1>t, <2>3 DEF SettleAdmission, ToolRow
    <3> QED
      BY <2>1, <2>3, <3>1
  <2> QED
    BY <2>2, <2>3 DEF Closes
<1> QED
  BY <1>1, <1>2, <1>3 DEF CallStep

(* A result that is known is on record, whatever happened in between. *)
RecordInv == \A c \in Call : tool[c].admission = "settled" => log.call[c] = "closed"

LEMMA NextRecord ==
  ASSUME TypeInv, RecordInv, [Next]_vars
  PROVE  RecordInv'
<1> SUFFICES ASSUME NEW c \in Call, tool'[c].admission = "settled"
             PROVE  log'.call[c] = "closed"
  BY DEF RecordInv
<1> QED
  BY NextCalls, OneCall DEF RecordInv

-----------------------------------------------------------------------------
(* What the log knows.  While there is one runner, the log agrees with where that runner *)
(* is; reconciliation is for a call that may not be replayed and has no result; and a    *)
(* wait or an end on record leaves nothing in flight.                                    *)
Known ==
  \/ exec.status = "needs_reconciliation"
  \/ \E c \in Manual : log.call[c] = "closed" /\ tool[c].admission # "settled"

LogKnows ==
  /\ log.status = "needs_reconciliation" => Known
  /\ log.status = "waiting_approval" => \E c \in Manual : log.call[c] = "intent"
  /\ log.status = "completed" => ~InFlight

Says(h) ==
  /\ h.pc \in {"intent", "waiting"} => log.call[h.call] = "intent"
  /\ h.pc = "waiting" => h.call \in Manual
  /\ h.pc = "granted" => log.call[h.call] = IF h.call \in Manual THEN "released" ELSE "intent"
  /\ h.pc = "started" => log.call[h.call] = "started"
  /\ h.pc \in Carrying => log.status # "completed"
  /\ h.pc = "unknown" \/ (h.pc = "thrown" /\ h.out = "unknown") => Known
  /\ h.pc = "thrown" /\ h.out = "completed" => ~InFlight

KnowInv == member.epoch = 0 => LogKnows /\ \A h \in handlers : Owns(h) => Says(h)

(* Once the kernel has lost track of what happened, nothing brings it back. *)
LEMMA TrackStaysLost ==
  ASSUME KernelTypeOK, Transaction, exec.status = "needs_reconciliation"
  PROVE  exec'.status = "needs_reconciliation"
<1>0. exec \in ExecRow
  BY DEF KernelTypeOK
<1>1. CASE UserTransaction
  BY <1>0, <1>1 DEF UserTransaction, CancelExecution, ResumeExecution, DecideApproval,
     RevokeInitiator, RevokeApprover, Revoked, RestoreMember, Finished, ExecRow
<1>2. CASE QueueTransaction
  BY <1>0, <1>2 DEF QueueTransaction, CloseBeforeClaim, LeaseJob, LapseLease, FailJob,
     CompleteJob, InterruptJob, MarkNeedsReconciliation, Live, ExecRow
<1>3. CASE ToolTransaction
  BY <1>0, <1>3 DEF ToolTransaction, RequestApproval, RecordAutoIntent, IntentExpires, DispatchCall,
     kernelVars, ExecRow
<1>4. CASE UNCHANGED kernelVars
  BY <1>4 DEF kernelVars
<1> QED
  BY <1>1, <1>2, <1>3, <1>4 DEF Transaction

LEMMA KnownStays ==
  ASSUME TypeInv, CallStep, Transaction, \A q \in handlers : Owns(q) => Says(q), Known
  PROVE  Known'
<1>1. CASE exec.status = "needs_reconciliation"
  BY <1>1, TrackStaysLost DEF Known, TypeInv, TypeOK
<1>2. CASE \E c \in Manual : log.call[c] = "closed" /\ tool[c].admission # "settled"
  <2> PICK c \in Manual : log.call[c] = "closed" /\ tool[c].admission # "settled"
    BY <1>2
  <2>1. c \in Call
    BY ExecutionAssumption
  <2>2. ~\E h \in handlers : Owns(h) /\ h.pc \in {"granted", "started"} /\ h.call = c
    BY DEF Says
  <2>3. log'.call[c] = "closed" /\ tool'[c].admission # "settled"
    BY <2>1, <2>2, OneCall
  <2> QED
    BY <2>3 DEF Known
<1> QED
  BY <1>1, <1>2 DEF Known

(* What is known when a handler takes a step, and what it leaves behind. *)
Informed(h) ==
  /\ TypeInv /\ RecordInv /\ LogKnows
  /\ Known => Known'
  /\ Owns(h) => Fits(h) /\ Says(h)

Tells(h) ==
  /\ LogKnows'
  /\ \/ /\ log' = log
        /\ \A k \in handlers' : k \in handlers \/ (k.pc = "thrown" /\ k.out = "error")
     \/ Owns(h) /\ \A k \in handlers' : (k \in handlers /\ k # h) \/ Says(k)'

LEMMA SameLogKnows ==
  ASSUME LogKnows, Known => Known', log' = log
  PROVE  LogKnows' /\ (InFlight' <=> InFlight)
BY DEF LogKnows, InFlight

LEMMA StatusKnows ==
  ASSUME TypeInv, NEW s, LogStatus(s),
         s \notin {"needs_reconciliation", "waiting_approval", "completed"}
  PROVE  LogKnows'
BY StatusRecord DEF LogKnows

(* A record that changes one call. *)
LEMMA CallKnows ==
  ASSUME TypeInv, LogKnows, Known => Known', NEW c \in Call, NEW r, r # "started", log.call[c] # "intent",
         log' = [log EXCEPT !.call[c] = r]
  PROVE  LogKnows'
<1>1. log'.status = log.status /\ log'.call[c] = r /\ \A d \in Call : d # c => log'.call[d] = log.call[d]
  BY CallRecord
<1>2. InFlight' => InFlight
  BY <1>1, ExecutionAssumption DEF InFlight
<1>3. \A d \in Manual : log.call[d] = "intent" => log'.call[d] = "intent"
  BY <1>1, ExecutionAssumption
<1> QED
  BY <1>1, <1>2, <1>3 DEF LogKnows

LEMMA ReplaceTells ==
  ASSUME NEW h \in handlers, NEW k, Owns(h), Replace(h, k), LogKnows', Says(k)'
  PROVE  Tells(h)
BY DEF Tells, Replace

LEMMA PlainTells ==
  ASSUME NEW h \in handlers, h \in Handler, Owns(h), LogKnows',
         NEW pc \in {"prepared", "resume", "ready"}, Goto(h, pc)
  PROVE  Tells(h)
<1>1. PICK k : k = [h EXCEPT !.pc = pc]
  OBVIOUS
<1>2. k.pc = pc /\ Replace(h, k)
  BY <1>1 DEF Handler, Goto
<1>3. Says(k)'
  BY <1>2 DEF Says, Carrying
<1> QED
  BY <1>2, <1>3, ReplaceTells

LEMMA ThrownFields ==
  ASSUME NEW h \in Handler, NEW out
  PROVE  Thrown(h, out).pc = "thrown" /\ Thrown(h, out).out = out
BY DEF Handler, Thrown

LEMMA ThrowTells ==
  ASSUME NEW h \in handlers, h \in Handler, Owns(h), LogKnows', NEW out, Throw(h, out),
         out = "unknown" => Known', out = "completed" => ~InFlight'
  PROVE  Tells(h)
<1>1. PICK k : k = Thrown(h, out)
  OBVIOUS
<1>2. k.pc = "thrown" /\ k.out = out /\ Replace(h, k)
  BY <1>1, ThrownFields DEF Throw
<1>3. Says(k)'
  BY <1>2 DEF Says, Carrying
<1> QED
  BY <1>2, <1>3, ReplaceTells

LEMMA QuitTells ==
  ASSUME NEW h \in handlers, h \in Handler, Owns(h), Informed(h), NEW out, Quit(h, out),
         out = "unknown" => exec.status = "needs_reconciliation", out # "completed"
  PROVE  Tells(h)
<1>1. LogKnows'
  BY StatusKnows DEF Quit, Informed
<1>2. out = "unknown" => Known'
  BY DEF Informed, Known
<1> QED
  BY <1>1, <1>2, ThrowTells DEF Quit

LEMMA CommitTells ==
  ASSUME NEW h \in handlers, h \in Handler, Owns(h), Informed(h),
         NEW wanted \in {"completed", "paused", "failed", "cancelled"}, Commit(h, wanted),
         wanted = "completed" => ~InFlight
  PROVE  Tells(h)
<1> DEFINE status == IF exec.status \in {"cancelled", "paused", "interrupted"}
                     THEN exec.status ELSE wanted
<1>1. CASE \/ \E out \in {"stale", "interrupted", "error"} : Quit(h, out)
           \/ exec.status = "needs_reconciliation" /\ Quit(h, "unknown")
  BY <1>1, QuitTells
<1>2. CASE LogStatus(status) /\ Leave(h)
  <2>1. status \in {"completed", "paused", "failed", "cancelled", "interrupted"}
    OBVIOUS
  <2>2. status = "completed" => ~InFlight
    OBVIOUS
  <2> HIDE DEF status
  <2>3. TypeInv
    BY DEF Informed
  <2>4. log'.status = status /\ (InFlight' <=> InFlight)
    BY <1>2, <2>3, StatusKeepsFlight
  <2>5. LogKnows'
    BY <2>1, <2>2, <2>4 DEF LogKnows
  <2> QED
    BY <1>2, <2>5 DEF Tells, Leave
<1> QED
  BY <1>1, <1>2 DEF Commit

LEMMA FailTells ==
  ASSUME NEW h \in handlers, h \in Handler, Owns(h), Informed(h), Fail(h) \/ Abandon(h)
  PROVE  Tells(h)
<1>1. CASE Throw(h, "interrupted") /\ UNCHANGED log
  <2>1. LogKnows'
    BY <1>1, SameLogKnows DEF Informed
  <2> QED
    BY <1>1, <2>1, ThrowTells
<1> QED
  BY <1>1, CommitTells DEF Fail, Abandon

LEMMA InterruptTells ==
  ASSUME NEW h \in handlers, h \in Handler, Owns(h), Informed(h), Interruptible(h),
         h.pc \in Busy => h.call \in Call, NEW stop, Interrupt(h, stop)
  PROVE  Tells(h)
<1>i. TypeInv /\ Says(h) /\ log \in LogRow
  BY DEF Informed, TypeInv, TypeOK
<1>1. log'.status = "interrupted" /\ \A c \in Call : log'.call[c] = log.call[c]
  <2>1. log' = WithStatus("interrupted")
    BY DEF Interrupt, LogStatus
  <2> QED
    BY <1>i, <2>1 DEF WithStatus, LogRow
<1>2. LogKnows'
  BY <1>1 DEF LogKnows
<1>3. PICK k, t : /\ k = [[h EXCEPT !.stop = stop] EXCEPT !.halted = TRUE]
                  /\ t = Thrown([h EXCEPT !.stop = stop], "interrupted")
  OBVIOUS
<1>4. k.pc = h.pc /\ k.call = h.call /\ t.pc = "thrown" /\ t.out = "interrupted"
  BY <1>3 DEF Handler, Thrown
<1>5. Replace(h, t) \/ Replace(h, k)
  BY <1>3 DEF Interrupt
<1>6. Says(t)'
  BY <1>4 DEF Says, Carrying
<1>7. h.pc \notin {"unknown", "thrown"} /\ (h.pc \in {"intent", "waiting", "granted", "started"} => h.call \in Call)
  BY DEF Interruptible, Busy
<1>8. Says(k)'
  BY <1>i, <1>1, <1>4, <1>7 DEF Says
<1> QED
  BY <1>2, <1>5, <1>6, <1>8, ReplaceTells

(* A handler that moves on, with the record its next place asks for. *)
Placed(h, pc) ==
  /\ pc \in Carrying => log'.status # "completed"
  /\ pc \in {"intent", "waiting"} => log'.call[h.call] = "intent"
  /\ pc = "waiting" => h.call \in Manual
  /\ pc = "granted" => log'.call[h.call] = IF h.call \in Manual THEN "released" ELSE "intent"
  /\ pc = "started" => log'.call[h.call] = "started"
  /\ pc = "unknown" => Known'

LEMMA GotoTells ==
  ASSUME NEW h \in handlers, h \in Handler, Owns(h), LogKnows', NEW pc, pc # "thrown", Goto(h, pc),
         Placed(h, pc)
  PROVE  Tells(h)
<1>1. PICK k : k = [h EXCEPT !.pc = pc]
  OBVIOUS
<1>2. k.pc = pc /\ k.call = h.call /\ Replace(h, k)
  BY <1>1 DEF Handler, Goto
<1>3. Says(k)'
  BY <1>2 DEF Says, Placed
<1> QED
  BY <1>2, <1>3, ReplaceTells

(* A record that is closed without a result: nobody knows what the call did. *)
LEMMA CloseTells ==
  ASSUME NEW h \in handlers, h \in Handler, Owns(h), Informed(h), NEW c \in Manual,
         log.call[c] # "closed", log.call[c] = "intent" => log.status = "running",
         log' = [log EXCEPT !.call[c] = "closed"], UNCHANGED tool, Goto(h, "unknown")
  PROVE  Tells(h)
<1>1. c \in Call /\ tool[c].admission # "settled"
  BY ExecutionAssumption DEF Informed, RecordInv
<1>2. log'.status = log.status /\ log'.call[c] = "closed" /\ \A d \in Call : d # c => log'.call[d] = log.call[d]
  BY <1>1, CallRecord DEF Informed
<1>3. Known'
  BY <1>1, <1>2 DEF Known
<1>4. LogKnows'
  <2>1. CASE log.status = "running"
    BY <1>2, <2>1 DEF LogKnows
  <2>2. CASE log.call[c] # "intent"
    BY <1>1, <1>3, <2>2, CallKnows DEF Informed
  <2> QED
    BY <2>1, <2>2
<1> QED
  BY <1>3, <1>4, GotoTells DEF Placed, Carrying

LEMMA OpenTells ==
  ASSUME NEW h \in handlers, Informed(h),
         \/ Prepare(h) \/ TransientError(h) \/ OpenFresh(h) \/ OpenStopped(h) \/ OpenEnded(h)
         \/ OpenRunning(h) \/ OpenWaiting(h) \/ Resume(h)
  PROVE  Tells(h)
<1>h. h \in Handler /\ TypeInv
  BY DEF Informed, TypeInv, BusyOK
<1>l. UNCHANGED log => LogKnows' /\ (InFlight' <=> InFlight)
  BY SameLogKnows DEF Informed
<1> USE <1>h
<1>1. CASE Prepare(h)
  <2>1. Owns(h) /\ LogKnows'
    BY <1>1, <1>l DEF Prepare, Step
  <2>2. CASE Replace(h, [h EXCEPT !.pc = "prepared", !.cap = exec.gen])
    <3>1. PICK k : k = [h EXCEPT !.pc = "prepared", !.cap = exec.gen]
      OBVIOUS
    <3>2. k.pc = "prepared" /\ Replace(h, k)
      BY <2>2, <3>1 DEF Handler
    <3>3. Says(k)'
      BY <3>2 DEF Says, Carrying
    <3> QED
      BY <2>1, <3>2, <3>3, ReplaceTells
  <2>3. CASE exec.status = "needs_reconciliation" /\ Throw(h, "unknown")
    <3>1. Known'
      BY <2>3 DEF Informed, Known
    <3> QED
      BY <2>1, <2>3, <3>1, ThrowTells
  <2>4. CASE Throw(h, "interrupted") \/ Throw(h, "error")
    BY <2>1, <2>4, ThrowTells
  <2> QED
    BY <1>1, <2>2, <2>3, <2>4 DEF Prepare
<1>2. CASE TransientError(h)
  <2>1. \A k \in handlers' : k \in handlers \/ (k.pc = "thrown" /\ k.out = "error")
    BY <1>2, ThrownFields DEF TransientError, Throw, Replace
  <2> QED
    BY <1>2, <1>l, <2>1 DEF TransientError, Tells
<1>3. CASE OpenFresh(h) \/ OpenStopped(h)
  <2>1. Owns(h) /\ LogKnows'
    BY <1>3, <1>l DEF OpenFresh, OpenStopped, Step
  <2> QED
    BY <1>3, <2>1, PlainTells, ThrowTells DEF OpenFresh, OpenStopped
<1>4. CASE OpenEnded(h)
  <2>1. Owns(h) /\ LogKnows'
    BY <1>4, <1>l DEF OpenEnded, Step
  <2>2. CASE log.status = "completed" /\ Throw(h, "completed")
    <3>1. ~InFlight'
      BY <1>4, <1>l, <2>2 DEF Informed, LogKnows, OpenEnded
    <3> QED
      BY <2>1, <2>2, <3>1, ThrowTells
  <2>3. CASE log.status = "needs_reconciliation" /\ Throw(h, "unknown")
    <3>1. Known'
      BY <2>3 DEF Informed, LogKnows
    <3> QED
      BY <2>1, <2>3, <3>1, ThrowTells
  <2>4. CASE Throw(h, "error") \/ Throw(h, "cancelled")
    BY <2>1, <2>4, ThrowTells
  <2> QED
    BY <1>4, <2>2, <2>3, <2>4 DEF OpenEnded
<1>5. CASE OpenRunning(h)
  <2>0. Owns(h) /\ log.status = "running" /\ UNCHANGED tool
    BY <1>5 DEF OpenRunning, Step, kernelVars
  <2>1. CASE LogStatus("interrupted") /\ (Goto(h, "resume") \/ Throw(h, "interrupted"))
    <3>1. LogKnows'
      BY <2>1, StatusKnows
    <3> QED
      BY <2>0, <2>1, <3>1, PlainTells, ThrowTells
  <2>2. CASE \E c \in Unresolved \cap Manual :
               log' = [log EXCEPT !.call[c] = "closed"] /\ Goto(h, "unknown")
    BY <2>0, <2>2, CloseTells DEF Unresolved
  <2> QED
    BY <1>5, <2>1, <2>2 DEF OpenRunning
<1>6. CASE Resume(h)
  <2>0. Owns(h) /\ UNCHANGED tool
    BY <1>6 DEF Resume, Step, kernelVars
  <2>1. CASE LogStatus("queued") /\ Goto(h, "ready")
    <3>1. LogKnows'
      BY <2>1, StatusKnows
    <3> QED
      BY <2>0, <2>1, <3>1, PlainTells
  <2>2. CASE \E c \in {d \in Manual : log.call[d] \in {"released", "started"}} :
               log' = [log EXCEPT !.call[c] = "closed"] /\ Goto(h, "unknown")
    BY <2>0, <2>2, CloseTells
  <2> QED
    BY <1>6, <2>1, <2>2 DEF Resume
<1>7. CASE OpenWaiting(h)
  <2>1. Owns(h) /\ log.status = "waiting_approval"
    BY <1>7 DEF OpenWaiting, Step
  <2>2. CASE \E c \in Call :
               /\ Unresolved = {c}
               /\ Replace(h, [h EXCEPT !.pc = "waiting", !.call = c, !.recovered = TRUE])
               /\ UNCHANGED log
    <3> PICK c \in Call :
          /\ Unresolved = {c}
          /\ Replace(h, [h EXCEPT !.pc = "waiting", !.call = c, !.recovered = TRUE])
          /\ UNCHANGED log
      BY <2>2
    <3>1. c \in Manual /\ log.call[c] = "intent"
      <4>1. PICK d \in Manual : log.call[d] = "intent"
        BY <2>1 DEF Informed, LogKnows
      <4>2. d \in Unresolved
        BY <4>1, ExecutionAssumption DEF Unresolved
      <4> QED
        BY <4>1, <4>2
    <3>2. PICK k : k = [h EXCEPT !.pc = "waiting", !.call = c, !.recovered = TRUE]
      OBVIOUS
    <3>3. k.pc = "waiting" /\ k.call = c /\ Replace(h, k)
      BY <3>2 DEF Handler
    <3>4. Says(k)'
      BY <3>1, <3>3 DEF Says, Carrying
    <3> QED
      BY <1>l, <2>1, <3>3, <3>4, ReplaceTells
  <2>3. CASE Quit(h, "error")
    BY <2>1, <2>3, QuitTells
  <2> QED
    BY <1>7, <2>2, <2>3 DEF OpenWaiting, Unresolved
<1> QED
  BY <1>1, <1>2, <1>3, <1>4, <1>5, <1>6, <1>7

LEMMA ModelTells ==
  ASSUME NEW h \in handlers, Informed(h),
         \/ Begin(h) \/ ModelRequest(h) \/ ModelFails(h) \/ ModelAnswers(h) \/ Complete(h)
         \/ (\E c \in Call : PersistIntent(h, c)) \/ EnterApprovalWait(h) \/ AuthorizeAuto(h)
  PROVE  Tells(h)
<1>h. h \in Handler /\ TypeInv /\ (h.pc \in Busy => h.call \in Call) /\ log \in LogRow
  BY DEF Informed, TypeInv, TypeOK, BusyOK
<1>o. /\ Owns(h) /\ Fits(h) /\ Says(h)
      /\ h.pc \in {"ready", "drain", "model", "idle", "intent"}
  BY DEF Informed, Begin, ModelRequest, ModelFails, ModelAnswers, Complete, PersistIntent,
     EnterApprovalWait, AuthorizeAuto, Step
<1>f. ~InFlight /\ (h.pc # "ready" => log.status # "completed")
  BY <1>o DEF Fits, Working, Says, Carrying
<1>l. UNCHANGED log => LogKnows' /\ (InFlight' <=> InFlight)
  BY SameLogKnows DEF Informed
<1> USE <1>h, <1>o, FailTells, CommitTells
<1>1. CASE Begin(h)
  <2>1. LogStatus("running") /\ Goto(h, "drain")
    BY <1>1 DEF Begin
  <2>2. LogKnows' /\ log'.status = "running"
    BY <2>1, StatusKnows, StatusRecord
  <2> QED
    BY <2>1, <2>2, GotoTells DEF Placed
<1>2. CASE EnterApprovalWait(h)
  <2>1. LogStatus("waiting_approval") /\ Goto(h, "waiting") /\ h.pc = "intent" /\ h.call \in Manual
    BY <1>2 DEF EnterApprovalWait, Step
  <2>2. log.call[h.call] = "intent" /\ h.call \in Call
    BY <2>1 DEF Says, Busy
  <2>3. log'.status = "waiting_approval" /\ log'.call[h.call] = "intent"
    BY <2>1, <2>2 DEF LogStatus, WithStatus, LogRow
  <2>4. LogKnows'
    BY <2>1, <2>3 DEF LogKnows
  <2> QED
    BY <2>1, <2>3, <2>4, GotoTells DEF Placed, Carrying
<1>3. CASE ModelRequest(h) \/ ModelAnswers(h) \/ AuthorizeAuto(h)
  <2>1. CASE UNCHANGED log /\ \E pc \in {"model", "idle"} : Goto(h, pc)
    <3>1. h.pc # "ready"
      BY <1>3 DEF ModelRequest, ModelAnswers, AuthorizeAuto, Step
    <3> QED
      BY <1>f, <1>l, <2>1, <3>1, GotoTells DEF Placed
  <2>2. CASE UNCHANGED log /\ Goto(h, "granted") /\ h.pc = "intent" /\ h.call \notin Manual
    <3>1. log.call[h.call] = "intent"
      BY <2>2 DEF Says
    <3> QED
      BY <1>f, <1>l, <2>2, <3>1, GotoTells DEF Placed
  <2> QED
    BY <1>3, <2>1, <2>2 DEF ModelRequest, ModelAnswers, AuthorizeAuto, Step
<1>4. CASE ModelFails(h)
  BY <1>4 DEF ModelFails
<1>5. CASE Complete(h)
  BY <1>5, <1>f DEF Complete
<1>6. CASE \E c \in Call : PersistIntent(h, c)
  <2> PICK c \in Call : PersistIntent(h, c)
    BY <1>6
  <2>1. /\ log.call[c] = "none" /\ log' = [log EXCEPT !.call[c] = "intent", !.gen[c] = h.cap]
        /\ h.pc = "model"
    BY DEF PersistIntent, Step
  <2>2. log'.status = log.status /\ \A d \in Call : log'.call[d] = IF d = c THEN "intent" ELSE log.call[d]
    BY <2>1 DEF LogRow
  <2>3. LogKnows'
    <3>1. InFlight' => InFlight
      BY <2>2, ExecutionAssumption DEF InFlight
    <3>2. \A d \in Manual : log.call[d] = "intent" => log'.call[d] = "intent"
      BY <2>2, ExecutionAssumption
    <3> QED
      BY <2>2, <3>1, <3>2 DEF Informed, LogKnows
  <2>4. PICK k : k = [h EXCEPT !.pc = "intent", !.call = c]
    OBVIOUS
  <2>5. k.pc = "intent" /\ k.call = c /\ Replace(h, k)
    BY <2>4 DEF Handler, PersistIntent
  <2>6. Says(k)'
    BY <1>f, <2>1, <2>2, <2>5 DEF Says
  <2> QED
    BY <2>3, <2>5, <2>6, ReplaceTells
<1> QED
  BY <1>1, <1>2, <1>3, <1>4, <1>5, <1>6

LEMMA ToolTells ==
  ASSUME NEW h \in handlers, Informed(h),
         \/ AskApproval(h) \/ LeaveApprovalWait(h) \/ Dispatch(h)
         \/ ToolReturns(h) \/ ToolThrows(h) \/ DeclareUnknown(h)
  PROVE  Tells(h)
<1>h. h \in Handler /\ TypeInv /\ (h.pc \in Busy => h.call \in Call) /\ log \in LogRow
  BY DEF Informed, TypeInv, TypeOK, BusyOK
<1> USE <1>h, FailTells, CommitTells
<1>1. CASE AskApproval(h)
  BY <1>1, SameLogKnows DEF AskApproval, Tells, Informed
<1>2. CASE LeaveApprovalWait(h)
  <2>1. Owns(h) /\ Says(h) /\ h.pc = "waiting"
    BY <1>2 DEF LeaveApprovalWait, Step, Informed
  <2>2. CASE LogStatus("running") /\ Goto(h, "granted")
    <3>1. h.call \in Manual /\ h.call \in Call /\ log.call[h.call] = "intent"
      BY <2>1 DEF Says, Busy
    <3>2. log'.status = "running" /\ log'.call[h.call] = "released"
      BY <2>2, <3>1 DEF LogStatus, WithStatus, LogRow
    <3>3. LogKnows'
      BY <2>2, StatusKnows
    <3> QED
      BY <2>1, <2>2, <3>1, <3>2, <3>3, GotoTells DEF Placed
  <2> QED
    BY <1>2, <2>1, <2>2 DEF LeaveApprovalWait
<1>3. CASE Dispatch(h)
  <2>1. Owns(h) /\ Fits(h) /\ Says(h) /\ h.pc = "granted" /\ h.call \in Call
    BY <1>3 DEF Dispatch, Step, Informed, Busy
  <2>2. CASE /\ log' = [log EXCEPT !.call[h.call] = "started"]
             /\ Throw(h, "interrupted") \/ Goto(h, "started")
    <3>1. log.status \notin {"waiting_approval", "completed"}
      BY <2>1 DEF Fits, Says, Carrying, Fresh
    <3>2. log'.status = log.status /\ log'.call[h.call] = "started"
      BY <2>1, <2>2, CallRecord
    <3>3. LogKnows'
      BY <3>1, <3>2 DEF LogKnows, Informed
    <3> QED
      BY <2>1, <2>2, <3>1, <3>2, <3>3, ThrowTells, GotoTells DEF Placed
  <2> QED
    BY <1>3, <2>1, <2>2 DEF Dispatch
<1>4. CASE ToolReturns(h)
  <2>1. Owns(h) /\ Fits(h) /\ Says(h) /\ h.pc = "started" /\ h.call \in Call
    BY <1>4 DEF ToolReturns, Step, Informed, Busy
  <2>2. log' = [log EXCEPT !.call[h.call] = "closed"]
    BY <1>4 DEF ToolReturns
  <2>3. log.call[h.call] = "started" /\ log.status # "completed"
    BY <2>1 DEF Says, Carrying
  <2>4. log'.status = log.status
    BY <2>1, <2>2, CallRecord
  <2>5. LogKnows'
    BY <2>1, <2>2, <2>3, CallKnows DEF Informed
  <2>6. CASE Replace(h, [h EXCEPT !.pc = "drain", !.call = NoCall])
    <3>1. PICK k : k = [h EXCEPT !.pc = "drain", !.call = NoCall]
      OBVIOUS
    <3>2. k.pc = "drain" /\ Replace(h, k)
      BY <2>6, <3>1 DEF Handler
    <3>3. Says(k)'
      BY <2>3, <2>4, <3>2 DEF Says
    <3> QED
      BY <2>1, <2>5, <3>2, <3>3, ReplaceTells
  <2> QED
    BY <1>4, <2>1, <2>5, <2>6, ThrowTells DEF ToolReturns
<1>5. CASE ToolThrows(h)
  <2>1. Owns(h) /\ Says(h) /\ h.pc = "started"
    BY <1>5 DEF ToolThrows, Step, Informed
  <2>2. CASE /\ h.call \in Manual /\ log' = [log EXCEPT !.call[h.call] = "closed"]
             /\ Goto(h, "unknown") /\ UNCHANGED kernelVars
    BY <2>1, <2>2, CloseTells DEF Says, kernelVars
  <2> QED
    BY <1>5, <2>1, <2>2 DEF ToolThrows
<1>6. CASE DeclareUnknown(h)
  <2>1. Owns(h) /\ Says(h) /\ h.pc = "unknown"
    BY <1>6 DEF DeclareUnknown, Step, Informed
  <2>2. Known'
    BY <2>1 DEF Says, Informed
  <2>3. log'.status = "needs_reconciliation"
    BY <1>6, StatusRecord DEF DeclareUnknown
  <2>4. LogKnows'
    BY <2>2, <2>3 DEF LogKnows
  <2> QED
    BY <1>6, <2>1, <2>2, <2>4, ThrowTells DEF DeclareUnknown
<1> QED
  BY <1>1, <1>2, <1>3, <1>4, <1>5, <1>6

LEMMA HandlerTells ==
  ASSUME NEW h \in handlers, Informed(h), HandlerStep(h) \/ TransientError(h) \/ StopWorker(h)
  PROVE  Tells(h)
<1>h. h \in Handler /\ TypeInv /\ (h.pc \in Busy => h.call \in Call)
  BY DEF Informed, TypeInv, BusyOK
<1>l. UNCHANGED log => LogKnows' /\ (InFlight' <=> InFlight)
  BY SameLogKnows DEF Informed
<1> USE <1>h
<1>1. CASE BudgetExpires(h)
  BY <1>1, CommitTells DEF BudgetExpires, Step
<1>2. CASE ObserveControl(h)
  BY <1>2, CommitTells, QuitTells, InterruptTells DEF ObserveControl
<1>3. CASE InterruptAtStart(h)
  BY <1>3, InterruptTells DEF InterruptAtStart
<1>4. CASE StopWorker(h)
  <2>1. CASE Replace(h, [h EXCEPT !.stop = TRUE]) /\ UNCHANGED log
    <3>1. PICK k : k = [h EXCEPT !.stop = TRUE]
      OBVIOUS
    <3>2. k.pc = h.pc /\ k.call = h.call /\ k.out = h.out /\ Replace(h, k)
      BY <2>1, <3>1 DEF Handler
    <3>3. Owns(h) /\ Says(h)
      BY <1>4 DEF StopWorker, Informed
    <3>4. Says(k)'
      BY <1>l, <2>1, <3>2, <3>3 DEF Says, Informed
    <3> QED
      BY <1>l, <2>1, <3>2, <3>3, <3>4, ReplaceTells
  <2> QED
    BY <1>4, <2>1, InterruptTells DEF StopWorker
<1>5. CASE LoseLease(h) \/ Settle(h)
  BY <1>5, <1>l DEF LoseLease, Settle, Leave, Tells
<1> QED
  BY <1>1, <1>2, <1>3, <1>4, <1>5, OpenTells, ModelTells, ToolTells DEF HandlerStep

LEMMA NextKnow ==
  ASSUME TypeInv, RowInv, OneRunner, OneRunner', TurnInv, RecordInv, KnowInv, [Next]_vars
  PROVE  KnowInv'
<1>1. CASE UNCHANGED vars
  BY <1>1 DEF vars, kernelVars, KnowInv, LogKnows, Known, InFlight, Says, Owns
<1>2. CASE Next
  <2> SUFFICES ASSUME member'.epoch = 0
               PROVE  LogKnows' /\ \A q \in handlers' : Owns(q)' => Says(q)'
    BY DEF KnowInv
  <2>1. LogKnows /\ \A h \in handlers : Owns(h) => Fits(h) /\ Says(h)
    BY OwnersStay DEF TurnInv, KnowInv
  <2>2. Known => Known'
    BY <2>1, NextCalls, NextEffect, KnownStays DEF Effect
  <2>3. \A h \in handlers : HandlerStep(h) \/ TransientError(h) \/ StopWorker(h) => Tells(h)
    BY <2>1, <2>2, HandlerTells DEF Informed
  <2>4. log' = log => LogKnows' /\ (InFlight' <=> InFlight)
    BY <2>1, <2>2, SameLogKnows
  <2>5. LogKnows'
    BY <1>2, <2>3, <2>4, OtherTurn DEF Tells
  <2>6. ASSUME NEW q \in handlers', Owns(q)' PROVE Says(q)'
    <3>1. log' = log /\ q \in handlers /\ Owns(q) => Says(q)'
      BY <2>1, <2>2, <2>4 DEF Says
    <3>2. q.pc = "claimed" \/ (q.pc = "thrown" /\ q.out = "error") => Says(q)'
      BY DEF Says, Carrying
    <3>3. CASE \E h \in handlers :
                 /\ HandlerStep(h) \/ TransientError(h) \/ StopWorker(h)
                 /\ q \in handlers => Owns(q) /\ (Owns(h) => q = h)
      BY <2>3, <3>1, <3>2, <3>3 DEF Tells
    <3> QED
      BY <1>2, <2>6, <3>1, <3>2, <3>3, NextOwner
  <2> QED
    BY <2>5, <2>6
<1> QED
  BY <1>1, <1>2

LEMMA KnowInvariance == Spec => [](RecordInv /\ KnowInv)
<1>1. IInv => TypeInv
  BY DEF IInv
<1>2. Init => RecordInv /\ KnowInv
  <2>1. Init => RecordInv
    BY DEF Init, KernelInit, RecordInv
  <2>2. Init => KnowInv
    BY DEF Init, KernelInit, KnowInv, LogKnows
  <2> QED
    BY <2>1, <2>2
<1>3. TypeInv /\ RecordInv /\ [Next]_vars => RecordInv'
  BY NextRecord
<1>4. TypeInv /\ RowInv /\ OneRunner /\ OneRunner' /\ TurnInv /\ RecordInv /\ KnowInv /\ [Next]_vars
        => KnowInv'
  BY NextKnow
<1> QED
  BY <1>1, <1>2, <1>3, <1>4, Invariance, RowInvariance, OneRunnerAtATime, TurnInvariance, PTL DEF Spec

-----------------------------------------------------------------------------
(* How a step of a handler changes the status of the Execution. *)
EndsIn(h) ==
  \/ exec'.status = exec.status
  \/ exec.status = "running" /\ exec'.status = "waiting_approval"
  \/ exec.status \in {"running", "waiting_approval"} /\ exec'.status \in {"failed", "interrupted"}
  \/ /\ Owns(h) /\ exec.status = "running" /\ exec'.status \in {"completed", "paused"}
     /\ h.pc \in Working \/ (h.pc = "thrown" /\ h.out = "completed")
  \/ Owns(h) /\ h.pc = "thrown" /\ h.out = "unknown" /\ exec'.status = "needs_reconciliation"

LEMMA CommitEnds ==
  ASSUME TypeInv, NEW h \in handlers, Owns(h), NEW wanted \in {"completed", "paused", "failed", "cancelled"},
         Commit(h, wanted), wanted \in {"completed", "paused"} => h.pc \in Working
  PROVE  EndsIn(h)
<1>0. exec \in ExecRow
  BY DEF TypeInv, TypeOK, KernelTypeOK
<1> DEFINE status == IF exec.status \in {"cancelled", "paused", "interrupted"}
                     THEN exec.status ELSE wanted
<1>1. CASE UNCHANGED exec
  BY <1>1 DEF EndsIn
<1>2. CASE /\ SettlesAs(status)
           /\ \/ status \in {"completed", "paused"} /\ CompleteJob(h.gen, status)
              \/ status = "failed" /\ FailJob(h.gen, "JOB_EXECUTION_FAILED")
              \/ status = "cancelled" /\ FailJob(h.gen, "EXECUTION_CANCELLED")
  <2>1. CASE status \in {"completed", "paused"} /\ CompleteJob(h.gen, status)
    <3>1. exec.status = "running" /\ exec'.status = status
      BY <1>0, <2>1 DEF CompleteJob, ExecRow
    <3> QED
      BY <2>1, <3>1 DEF EndsIn
  <2>2. CASE \E code : FailJob(h.gen, code)
    BY <1>0, <2>2 DEF FailJob, Live, ExecRow, EndsIn
  <2> QED
    BY <1>2, <2>1, <2>2
<1> QED
  BY <1>1, <1>2 DEF Commit, Quit, kernelVars

LEMMA FailEnds ==
  ASSUME TypeInv, NEW h \in handlers, Owns(h), Fail(h) \/ Abandon(h)
  PROVE  EndsIn(h)
<1>1. CASE UNCHANGED kernelVars
  BY <1>1 DEF kernelVars, EndsIn
<1> QED
  BY <1>1, CommitEnds DEF Fail, Abandon

LEMMA HandlerEnds ==
  ASSUME TypeInv, NEW h \in handlers, HandlerStep(h) \/ TransientError(h) \/ StopWorker(h)
  PROVE  EndsIn(h)
<1>0. exec \in ExecRow
  BY DEF TypeInv, TypeOK, KernelTypeOK
<1>u. UNCHANGED exec => EndsIn(h)
  BY DEF EndsIn
<1> USE <1>0, <1>u, CommitEnds, FailEnds
<1>1. CASE \/ Prepare(h) \/ OpenFresh(h) \/ OpenStopped(h) \/ OpenEnded(h) \/ OpenRunning(h)
           \/ OpenWaiting(h) \/ Resume(h) \/ Begin(h) \/ TransientError(h)
           \/ (\E c \in Call : PersistIntent(h, c)) \/ EnterApprovalWait(h) \/ ModelAnswers(h)
           \/ ToolReturns(h) \/ DeclareUnknown(h) \/ LoseLease(h)
  BY <1>1 DEF Prepare, OpenFresh, OpenStopped, OpenEnded, OpenRunning, OpenWaiting, Quit, Resume,
     Begin, TransientError, PersistIntent, EnterApprovalWait, ModelAnswers, ToolReturns,
     DeclareUnknown, LoseLease, kernelVars
<1>2. CASE ModelRequest(h) \/ ModelFails(h) \/ ToolThrows(h) \/ Dispatch(h)
  BY <1>2 DEF ModelRequest, ModelFails, ToolThrows, Dispatch, Step, kernelVars
<1>3. CASE LeaveApprovalWait(h)
  BY <1>3 DEF LeaveApprovalWait, Step, kernelVars
<1>4. CASE Complete(h)
  BY <1>4 DEF Complete, Step, Working
<1>5. CASE BudgetExpires(h)
  BY <1>5 DEF BudgetExpires, Step, Working
<1>6. CASE AuthorizeAuto(h)
  BY <1>6 DEF AuthorizeAuto, RecordAutoIntent, Step, kernelVars
<1>7. CASE AskApproval(h)
  BY <1>7 DEF AskApproval, RequestApproval, kernelVars, ExecRow, EndsIn
<1>8. CASE ObserveControl(h) \/ InterruptAtStart(h) \/ StopWorker(h)
  BY <1>8 DEF ObserveControl, InterruptAtStart, StopWorker, Quit, kernelVars
<1>9. CASE Settle(h)
  <2>1. Owns(h) /\ h.pc = "thrown"
    BY <1>9 DEF Settle, Step
  <2>2. CASE FinalOutcome(h) = "completed" /\ CompleteJob(h.gen, "completed")
    <3>1. h.out = "completed"
      BY <2>2 DEF FinalOutcome
    <3> QED
      BY <2>1, <2>2, <3>1 DEF CompleteJob, ExecRow, EndsIn
  <2>3. CASE FinalOutcome(h) = "unknown" /\ MarkNeedsReconciliation(h.gen)
    <3>1. h.out = "unknown" \/ exec.status = "needs_reconciliation"
      BY <2>3 DEF FinalOutcome
    <3> QED
      BY <2>1, <2>3, <3>1 DEF MarkNeedsReconciliation, ExecRow, EndsIn
  <2>4. CASE InterruptJob(h.gen) \/ \E code : FailJob(h.gen, code)
    BY <2>4 DEF InterruptJob, FailJob, Live, ExecRow, EndsIn
  <2> QED
    BY <1>9, <2>2, <2>3, <2>4 DEF Settle, SettleThrown, kernelVars
<1> QED
  BY <1>1, <1>2, <1>3, <1>4, <1>5, <1>6, <1>7, <1>8, <1>9 DEF HandlerStep

(* An Execution completes or pauses with nothing in flight, and loses track of a call   *)
(* only where its record was closed without a result, or where a user stops it.         *)
LEMMA NextEnds ==
  ASSUME TypeInv, TurnInv, KnowInv, [Next]_vars, member.epoch = 0
  PROVE  /\ exec.status = "running" /\ exec'.status \in {"completed", "paused"} => ~InFlight
         /\ exec'.status = "needs_reconciliation" => Known \/ CancelExecution \/ RevokeInitiator \/ RevokeApprover
<1>0. exec \in ExecRow
  BY DEF TypeInv, TypeOK, KernelTypeOK
<1>1. CASE \E h \in handlers : HandlerStep(h) \/ TransientError(h) \/ StopWorker(h)
  <2> PICK h \in handlers : HandlerStep(h) \/ TransientError(h) \/ StopWorker(h)
    BY <1>1
  <2>1. EndsIn(h)
    BY HandlerEnds
  <2>2. Owns(h) => Fits(h) /\ Says(h)
    BY DEF TurnInv, KnowInv
  <2> QED
    BY <2>1, <2>2 DEF EndsIn, Fits, Says, Known
<1>2. CASE UserStep
  BY <1>0, <1>2 DEF UserStep, CancelExecution, ResumeExecution, DecideApproval, RevokeInitiator,
     RevokeApprover, Revoked, RestoreMember, ExecRow, Known
<1>3. CASE ClaimStep
  BY <1>0, <1>3 DEF ClaimStep, CloseStoppedJob, CloseBeforeClaim, Claim, LeaseJob, ExecRow, Known
<1>4. CASE UNCHANGED exec
  BY <1>4 DEF Known
<1>5. CASE ClockStep \/ FaultStep
  BY <1>1, <1>4, <1>5 DEF ClockStep, LeaseLapses, IntentExpires, FaultStep, CrashWorker, kernelVars
<1> QED
  BY <1>1, <1>2, <1>3, <1>4, <1>5 DEF Next, vars, kernelVars

-----------------------------------------------------------------------------
(* Seen from outside.  What ExecutionLife calls approval, effect and history, and which *)
(* of them a step leaves alone.                                                         *)
Approval == [c \in Call |-> tool[c].approval]
Effects == [c \in Call |-> tool[c].admission]
History == [c \in Call |-> IF log.call[c] \in {"started", "closed"} THEN log.call[c] ELSE "none"]
Disturbed == member.epoch > 0
SameCalls == Effects' = Effects /\ History' = History

LEMMA WritesSameCalls ==
  ASSUME TypeInv, Writes
  PROVE  SameCalls
<1>1. log \in LogRow
  BY DEF TypeInv, TypeOK
<1>2. Effects' = Effects
  BY DEF Writes, SameEffects, Effects
<1>3. \A c \in Call : \/ log'.call[c] = log.call[c]
                      \/ log.call[c] \in {"none", "intent"} /\ log'.call[c] \in {"intent", "released"}
  <2>1. CASE \E s : LogStatus(s)
    BY <1>1, <2>1 DEF LogStatus, WithStatus, LogRow
  <2>2. CASE \E d \in Call, g \in 0 .. MaxGen : log.call[d] = "none"
                              /\ log' = [log EXCEPT !.call[d] = "intent", !.gen[d] = g]
    BY <1>1, <2>2 DEF LogRow
  <2> QED
    BY <2>1, <2>2 DEF Writes
<1>4. History' = History
  BY <1>3 DEF History
<1> QED
  BY <1>2, <1>4 DEF SameCalls

LEMMA ExpiredSeen ==
  ASSUME KernelTypeOK, tool' = ExpiredApprovals
  PROVE  Approval' = Life!Withdrawn
<1>1. \A c \in Call : tool'[c].approval = IF tool[c].approval \in {"pending", "approved"}
                                          THEN "expired" ELSE tool[c].approval
  BY DEF KernelTypeOK, ToolRow, ExpiredApprovals
<1> QED
  BY <1>1 DEF Approval, Life!Withdrawn

LEMMA InFlightSeen == Life!InFlight <=> HasUnsettled
BY DEF Life!InFlight, HasUnsettled

LEMMA UserSeen ==
  ASSUME TypeInv, UserTransaction, SameCalls
  PROVE  Life!Next \/ UNCHANGED Life!vars
<1>0. KernelTypeOK /\ exec \in ExecRow /\ tool \in [Call -> ToolRow] /\ member.epoch \in Nat
  BY DEF TypeInv, TypeOK, KernelTypeOK, MemberRow
<1>c. Effects' = Effects /\ History' = History
  BY DEF SameCalls
<1>1. CASE CancelExecution
  <2>1. Approval' = Life!Withdrawn
    BY <1>0, <1>1, ExpiredSeen DEF CancelExecution
  <2>2. Life!Cancel
    BY <1>0, <1>1, <1>c, <2>1, InFlightSeen
       DEF CancelExecution, Life!Cancel, Life!Finished, Finished, Approval, Effects, History, ExecRow
  <2> QED
    BY <2>2 DEF Life!Next
<1>2. CASE ResumeExecution
  <2>1. Approval' = Life!Withdrawn
    BY <1>0, <1>2, ExpiredSeen DEF ResumeExecution
  <2>2. Life!Resume
    BY <1>0, <1>2, <1>c, <2>1 DEF ResumeExecution, Life!Resume, Approval, Effects, History, ExecRow
  <2> QED
    BY <2>2 DEF Life!Next
<1>3. CASE \E c \in Call, decision \in {"approved", "denied"} : DecideApproval(c, decision)
  <2> PICK c \in Call, decision \in {"approved", "denied"} : DecideApproval(c, decision)
    BY <1>3
  <2>1. Approval' = [Approval EXCEPT ![c] = decision] /\ Approval[c] = "pending"
    BY <1>0 DEF DecideApproval, Approval, ToolRow
  <2>2. Life!Answer(c, decision)
    BY <1>0, <1>c, <2>1 DEF DecideApproval, Life!Answer, Approval, Effects, History, ExecRow
  <2> QED
    BY <2>2 DEF Life!Next
<1>4. CASE RevokeInitiator \/ RevokeApprover
  <2>1. member'.epoch > 0
    <3>1. member \in MemberRow /\ member.epoch \in Nat
      BY <1>0 DEF KernelTypeOK
    <3>2. member'.epoch = member.epoch + 1
      BY <1>4, <3>1 DEF RevokeInitiator, RevokeApprover, MemberRow
    <3> QED
      BY <3>1, <3>2
  <2>2. CASE UNCHANGED <<exec, tool>>
    BY <1>c, <2>1, <2>2 DEF Life!Disturb, Life!Next, Approval, Effects, History
  <2>3. CASE Revoked /\ exec.status \notin Finished
    <3>1. Approval' = Life!Withdrawn
      BY <1>0, <2>3, ExpiredSeen DEF Revoked
    <3>2. Life!Disturb
      BY <1>0, <1>c, <2>1, <2>3, <3>1, InFlightSeen
         DEF Revoked, Life!Disturb, Life!Finished, Finished, Approval, Effects, History, ExecRow
    <3> QED
      BY <3>2 DEF Life!Next
  <2> QED
    BY <1>4, <2>2, <2>3 DEF RevokeInitiator, RevokeApprover
<1>5. CASE RestoreMember
  <2>1. member'.epoch = member.epoch
    BY <1>0, <1>5 DEF RestoreMember, KernelTypeOK, MemberRow
  <2> QED
    BY <1>5, <1>c, <2>1 DEF RestoreMember, Life!vars, Approval, Effects, History
<1> QED
  BY <1>1, <1>2, <1>3, <1>4, <1>5 DEF UserTransaction

LEMMA QueueSeen ==
  ASSUME TypeInv, QueueTransaction, SameCalls,
         \/ Disturbed
         \/ /\ exec.status = "running" /\ exec'.status \in {"completed", "paused"} => ~InFlight
            /\ exec'.status = "needs_reconciliation" => Known
  PROVE  Life!Next \/ UNCHANGED Life!vars
<1>0. exec \in ExecRow /\ member.epoch \in Nat
  BY DEF TypeInv, TypeOK, KernelTypeOK, MemberRow
<1>c. Effects' = Effects /\ History' = History /\ UNCHANGED <<tool, member>>
  BY DEF SameCalls, QueueTransaction, CloseBeforeClaim, LeaseJob, LapseLease, FailJob, CompleteJob,
     InterruptJob, MarkNeedsReconciliation
<1>1. /\ exec'.gen = exec.gen
      /\ \/ exec'.status = exec.status
         \/ exec.status = "queued" /\ exec'.status = "running"
         \/ exec.status \in Live /\ exec'.status \in {"failed", "interrupted"}
         \/ exec.status = "running" /\ exec'.status \in {"completed", "paused"}
         \/ exec.status # "needs_reconciliation" /\ exec'.status = "needs_reconciliation"
  BY <1>0 DEF QueueTransaction, CloseBeforeClaim, LeaseJob, LapseLease, FailJob, CompleteJob,
     InterruptJob, MarkNeedsReconciliation, Live, ExecRow
<1>2. CASE exec'.status = exec.status
  BY <1>1, <1>2, <1>c DEF Life!vars, Approval, Effects, History
<1>3. CASE exec.status = "queued" /\ exec'.status = "running"
  BY <1>1, <1>3, <1>c DEF Life!Begin, Life!Next, Approval, Effects, History
<1>4. CASE exec.status \in Live /\ exec'.status \in {"failed", "interrupted"}
  BY <1>1, <1>4, <1>c DEF Life!End, Life!Next, Live, Approval, Effects, History
<1>5. CASE exec.status = "running" /\ exec'.status \in {"completed", "paused"}
  <2>1. Life!Settled
    BY <1>5, ExecutionAssumption DEF Life!Settled, Disturbed, InFlight
  <2> QED
    BY <1>1, <1>5, <1>c, <2>1 DEF Life!End, Life!Next, Approval, Effects, History
<1>6. CASE exec.status # "needs_reconciliation" /\ exec'.status = "needs_reconciliation"
  <2>1. Disturbed \/ \E c \in Manual : History[c] = "closed" /\ Effects[c] # "settled"
    BY <1>6, ExecutionAssumption DEF Known, History, Effects
  <2> QED
    BY <1>1, <1>6, <1>c, <2>1 DEF Life!LoseTrack, Life!Next, Disturbed, Approval, Effects, History
<1> QED
  BY <1>1, <1>2, <1>3, <1>4, <1>5, <1>6

LEMMA ToolSeen ==
  ASSUME TypeInv, GrantInv, ToolTransaction, SameCalls
  PROVE  Life!Next \/ UNCHANGED Life!vars
<1>0. exec \in ExecRow /\ tool \in [Call -> ToolRow]
  BY DEF TypeInv, TypeOK, KernelTypeOK
<1>c. Effects' = Effects /\ History' = History
  BY DEF SameCalls
<1> PICK c \in Call :
      \/ \E gen \in 0 .. MaxGen : RequestApproval(c, gen) \/ RecordAutoIntent(c, gen)
      \/ IntentExpires(c)
      \/ DispatchCall(c)
      \/ SettleAdmission(c) /\ UNCHANGED <<exec, jobs, member>>
  BY DEF ToolTransaction
<1>1. CASE Approval' = Approval /\ UNCHANGED <<exec, member>>
  BY <1>1, <1>c DEF Life!vars, Approval, Effects, History
<1>2. CASE \E gen \in 0 .. MaxGen : RequestApproval(c, gen)
  <2>1. CASE tool[c].gen # 0
    BY <1>1, <1>2, <2>1 DEF RequestApproval, kernelVars, Approval
  <2>2. CASE tool[c].gen = 0
    <3>1. Approval' = [Approval EXCEPT ![c] = "pending"] /\ Approval[c] = "none"
      BY <1>0, <1>2, <2>2 DEF RequestApproval, Approval, ToolRow, GrantInv
    <3>2. Life!Ask(c)
      BY <1>0, <1>2, <1>c, <2>2, <3>1 DEF RequestApproval, Life!Ask, Approval, Effects, History, ExecRow
    <3> QED
      BY <3>2 DEF Life!Next
  <2> QED
    BY <2>1, <2>2
<1>3. CASE \E gen \in 0 .. MaxGen : RecordAutoIntent(c, gen)
  <2>1. Approval' = Approval /\ UNCHANGED <<exec, member>>
    BY <1>0, <1>3 DEF RecordAutoIntent, kernelVars, Approval, ToolRow
  <2> QED
    BY <1>1, <2>1
<1>4. CASE IntentExpires(c) \/ DispatchCall(c) \/ (SettleAdmission(c) /\ UNCHANGED <<exec, jobs, member>>)
  <2>1. Approval' = Approval /\ UNCHANGED <<exec, member>>
    BY <1>0, <1>4 DEF IntentExpires, DispatchCall, Admit, SettleAdmission, Approval, ToolRow
  <2> QED
    BY <1>1, <2>1
<1> QED
  BY <1>2, <1>3, <1>4

LEMMA StartSeen ==
  ASSUME IInv, OneOpenJob, TurnInv, NEW h \in handlers, Starts(h)
  PROVE  Life!Next
<1>0. /\ exec \in ExecRow /\ tool \in [Call -> ToolRow] /\ log \in LogRow /\ member.epoch \in Nat
      /\ h \in Handler /\ h.call \in Call
  BY DEF IInv, TypeInv, TypeOK, KernelTypeOK, MemberRow, BusyOK, Starts
<1>1. Effects' = [Effects EXCEPT ![h.call] = "started"] /\ Effects[h.call] = "none" /\ Approval' = Approval
  BY <1>0 DEF Starts, Admit, Effects, Approval, ToolRow
<1>2. History' = [History EXCEPT ![h.call] = "started"]
  BY <1>0 DEF Starts, History, LogRow
<1>3. \/ Approval[h.call] = "approved"
      \/ Approval[h.call] = "none" /\ h.call \notin Manual
  BY <1>0 DEF Starts, ApprovalCurrent, IInv, GrantedAsked, Approval
<1>4. Disturbed \/ exec.status \in {"running", "waiting_approval", "failed"}
  <2>1. CASE member.epoch = 0
    <3>1. jobs[h.gen].status = "leased" /\ h.gen \in Gen
      BY <1>0 DEF Starts, Owns, Handler
    <3>2. exec.status \notin {"queued", "completed"}
      BY <2>1, <3>1 DEF OneOpenJob, Resting, Open
    <3> QED
      BY <1>0, <3>2 DEF Starts, Refused, Stopped, ExecRow, Status, Finished
  <2> QED
    BY <1>0, <2>1 DEF Disturbed
<1>5. Life!Settled
  <2>1. CASE member.epoch = 0
    <3>1. ~InFlight
      BY <2>1 DEF TurnInv, Fits, Working, Starts
    <3> QED
      BY <3>1, ExecutionAssumption DEF Life!Settled, InFlight
  <2> QED
    BY <1>0, <2>1 DEF Life!Settled
<1>6. exec.status \notin Stopped \cup {"cancelled"} /\ UNCHANGED <<exec, member>>
  BY DEF Starts, Refused
<1>7. Life!Start(h.call)
  BY <1>0, <1>1, <1>2, <1>3, <1>4, <1>5, <1>6
     DEF Life!Start, Life!Stopped, Stopped, Approval, Effects, History, Disturbed
<1> QED
  BY <1>0, <1>7 DEF Life!Next

LEMMA CloseSeen ==
  ASSUME TypeInv, NEW c \in Call, Closes(c)
  PROVE  Life!Next
<1>0. tool \in [Call -> ToolRow] /\ log \in LogRow
  BY DEF TypeInv, TypeOK, KernelTypeOK
<1>1. History' = [History EXCEPT ![c] = "closed"]
  BY <1>0 DEF Closes, History, LogRow
<1>2. Approval' = Approval
  BY <1>0 DEF Closes, SettleAdmission, Approval, ToolRow
<1>3. \/ Effects' = Effects
      \/ Effects[c] = "started" /\ Effects' = [Effects EXCEPT ![c] = "settled"]
  <2>1. CASE UNCHANGED tool
    BY <2>1 DEF Effects
  <2>2. CASE SettleAdmission(c)
    <3>1. CASE tool[c].admission = "started"
      BY <1>0, <2>2, <3>1 DEF SettleAdmission, Effects, ToolRow
    <3>2. CASE tool[c].admission # "started"
      BY <1>0, <2>2, <3>2 DEF SettleAdmission, Effects, ToolRow
    <3> QED
      BY <3>1, <3>2
  <2> QED
    BY <2>1, <2>2 DEF Closes
<1>4. Life!Close(c)
  BY <1>1, <1>2, <1>3 DEF Closes, Life!Close, Approval, Effects, History
<1> QED
  BY <1>4 DEF Life!Next

LEMMA NextSeen ==
  ASSUME IInv, OneOpenJob, TurnInv, KnowInv, [Next]_vars
  PROVE  [Life!Next]_(Life!vars)
<1>0. TypeInv /\ GrantInv /\ member.epoch \in Nat
  BY DEF IInv, TypeInv, TypeOK, KernelTypeOK, MemberRow
<1>1. CASE \E h \in handlers : Starts(h)
  BY <1>1, StartSeen
<1>2. CASE \E c \in Call : Closes(c)
  BY <1>0, <1>2, CloseSeen
<1>3. CASE Writes
  <2>1. SameCalls
    BY <1>0, <1>3, WritesSameCalls
  <2>2. CASE UserTransaction
    BY <1>0, <2>1, <2>2, UserSeen
  <2>3. CASE QueueTransaction
    <3>1. CASE UserTransaction
      BY <1>0, <2>1, <3>1, UserSeen
    <3>2. CASE ~UserTransaction
      <4>1. \/ Disturbed
            \/ /\ exec.status = "running" /\ exec'.status \in {"completed", "paused"} => ~InFlight
               /\ exec'.status = "needs_reconciliation" => Known
        BY <1>0, <3>2, NextEnds DEF UserTransaction, Disturbed
      <4> QED
        BY <1>0, <2>1, <2>3, <4>1, QueueSeen
    <3> QED
      BY <3>1, <3>2
  <2>4. CASE ToolTransaction
    BY <1>0, <2>1, <2>4, ToolSeen
  <2>5. CASE UNCHANGED kernelVars
    BY <2>1, <2>5 DEF kernelVars, SameCalls, Life!vars, Approval, Effects, History
  <2> QED
    BY <1>0, <2>2, <2>3, <2>4, <2>5, NextEffect DEF Effect, Transaction
<1> QED
  BY <1>0, <1>1, <1>2, <1>3, NextCalls DEF CallStep

(* Kernel, storage, Workers and runtime together implement what an Execution promises   *)
(* those who look at it, whatever crashes, lapses, stops and revocations happen: people *)
(* are asked once and their answers never outlive a stop; a call starts at most once,   *)
(* with the approval it needs, and while nobody lost a role with nothing in flight; an  *)
(* Execution completes with nothing in flight; and track is lost only of a call whose   *)
(* record was closed without a result.                                                  *)
THEOREM LifeIsKept == Spec => ImplementsExecutionLife
<1>1. Init => Life!Init
  BY DEF Init, KernelInit, Life!Init
<1>2. IInv /\ OneOpenJob /\ TurnInv /\ KnowInv /\ [Next]_vars => [Life!Next]_(Life!vars)
  BY NextSeen
<1> QED
  BY <1>1, <1>2, Invariance, RowInvariance, TurnInvariance, KnowInvariance, PTL
     DEF Spec, Life!Spec, ImplementsExecutionLife
=============================================================================

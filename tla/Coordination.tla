---------------------------- MODULE Coordination ----------------------------
(***************************************************************************)
(* Team plans: one coordination group (a goal), the runs (plan revisions)  *)
(* that succeed one another in it, and the attempts that execute the agent *)
(* nodes of a run, each with an Execution, a job and a budget reservation  *)
(* of its own.  Operators are transactions of kernel/coordination.ts, or   *)
(* of its callers in the host's team runtime and in the Worker.            *)
(*                                                                         *)
(* Coordinated Executions take no commands from users, so their generation *)
(* stays 1; waiting for an approval counts as running.  Tokens stand for   *)
(* both budget dimensions.  Stream versions are left out: a stale one only *)
(* rejects a transaction, and each of them re-reads what it relies on.     *)
(* When the first run reworks what a plain Execution did, the attempt and  *)
(* the tokens of that Execution are already off MaxAttempts and InitialCap *)
(* (initialAccounting).                                                    *)
(***************************************************************************)
EXTENDS Naturals, FiniteSets, FiniteSetsExt

CONSTANTS
  Node,         \* agent nodes
  External,     \* the agent nodes that an external CLI Runner carries out
  Gate,         \* human_decision nodes
  DependsOn,    \* the dependencies of every node and gate
  Plans,        \* the nodes and gates of each plan a goal may have
  Budget,       \* Budget[n]: the tokens reserved for an attempt at node n
  InitialCap,   \* the tokens the first run may use in all
  MaxRun,       \* bound on the runs: rework rounds + 1
  MaxTry,       \* bound on the attempts at one node of one run
  MaxAttempts,  \* limits.maxAttempts, over all runs
  MaxParallel,  \* limits.maxParallel
  MaxOver       \* bound: by how much a bill may exceed what was reserved for it

ASSUME CoordinationAssumption ==
  /\ Node \cap Gate = {}
  /\ DependsOn \in [Node \cup Gate -> SUBSET (Node \cup Gate)]
  /\ Plans \subseteq SUBSET (Node \cup Gate)
  /\ External \subseteq Node
  /\ \A plan \in Plans, n \in External : n \in plan => plan = {n}
  /\ Budget \in [Node -> Nat]
  /\ InitialCap \in Nat /\ MaxAttempts \in Nat /\ MaxParallel \in Nat
  /\ MaxRun \in Nat \ {0} /\ MaxTry \in Nat \ {0} /\ MaxOver \in Nat

VARIABLES
  group,    \* the goal's plan, the current run (0: none yet), whether its deadline has passed,
            \* and what became of the initiator's membership since the first run was created
  runs,     \* runs[r]: status, token cap and the attempts it reuses instead of working
  gates,    \* gates[<<r, g>>]: the decision on gate g of run r
  att       \* att[<<r, n, k>>]: the k-th attempt at node n of run r

vars == <<group, runs, gates, att>>

Run == 1 .. MaxRun
Attempt == Run \X Node \X (1 .. MaxTry)

Over == {"completed", "failed", "cancelled"}
Closable == Over \cup {"interrupted", "paused"}
ExecStatus == {"queued", "running", "needs_reconciliation"} \cup Closable

AttemptRow ==
  [exec: {"none"} \cup ExecStatus,        \* status of the Execution; "none": not admitted
   meta: {"none"} \cup ExecStatus,        \* status on the attempt's own record
   job: {"none", "available", "leased", "closed"},
   call: BOOLEAN,                         \* a tool call was started and has no result
   pending: Nat,                          \* tokens reserved for a model request in flight
   spent: Nat,                            \* tokens of answered requests, or of the bill of a CLI
   overrun: BOOLEAN,                      \* an answer, or that bill, exceeded its reservation
   settled: BOOLEAN, usage: Nat]          \* the reservation, once settled

RunRow == [status: {"absent", "active", "paused", "cancelled", "superseded"},
           cap: Nat, reuse: SUBSET Attempt]

TypeOK ==
  /\ group \in [plan: Plans, current: 0 .. MaxRun, expired: BOOLEAN,
              member: {"same", "changed", "revoked"}]
  /\ runs \in [Run -> RunRow]
  /\ gates \in [Run \X Gate -> {"open", "approved", "rejected"}]
  /\ att \in [Attempt -> AttemptRow]

NoAttempt == [exec |-> "none", meta |-> "none", job |-> "none", call |-> FALSE,
              pending |-> 0, spent |-> 0, overrun |-> FALSE, settled |-> FALSE, usage |-> 0]

Init ==
  /\ \E plan \in Plans :
       group = [plan |-> plan, current |-> 0, expired |-> FALSE, member |-> "same"]
  /\ runs = [r \in Run |-> [status |-> "absent", cap |-> 0, reuse |-> {}]]
  /\ gates = [x \in Run \X Gate |-> "open"]
  /\ att = [a \in Attempt |-> NoAttempt]

----------------------------------------------------------------------------
(* What the transactions look at *)

Admitted == {a \in Attempt : att[a].exec # "none"}
Reused(r) == {a[2] : a \in runs[r].reuse}

(* assertClosed: the job is over, the Execution stopped, and nothing is unknown. *)
Closed(a) ==
  /\ att[a].job = "closed"
  /\ att[a].exec \in Closable
  /\ ~att[a].call
  /\ att[a].pending = 0

(* An attempt whose result may be used: finished, and paid for. *)
Usable(a) == att[a].exec = "completed" /\ att[a].meta = "completed" /\ att[a].settled

Tries(r, n) == {k \in 1 .. MaxTry : <<r, n, k>> \in Admitted}

(* dependencyComplete *)
Complete(r, x) ==
  IF x \in Gate THEN gates[<<r, x>>] = "approved"
  ELSE IF x \in Reused(r) THEN \A a \in runs[r].reuse : a[2] = x => Usable(a) /\ Closed(a)
  ELSE /\ Tries(r, x) # {}
       /\ LET last == <<r, x, Max(Tries(r, x))>> IN Usable(last) /\ ~att[last].call

DependenciesComplete(r, x) == \A d \in DependsOn[x] : Complete(r, d)

(* current: the run is the group's, by the membership it was created under. *)
IsCurrent(r, statuses) ==
  /\ group.current = r
  /\ group.member = "same"
  /\ runs[r].status \in statuses

(* assertCurrentCoordinationAuthorization, which the Worker asks before every request, *)
(* every call and the completion of an attempt.                                        *)
MayProceed(a) == IsCurrent(a[1], {"active", "paused"}) /\ ~group.expired

(* What an attempt counts for in the budget: its bill, or all it has reserved. *)
Committed == [a \in Attempt |-> IF att[a].settled THEN att[a].usage ELSE Budget[a[2]]]

(* The group's budget records every attempt ever admitted, whatever became of its run. *)
TotalCommitted == SumFunctionOnSet(Committed, Admitted)

(* Mutant: what has not been claimed yet is forgotten. *)
CancelRunning(r) ==
  [a \in Attempt |->
     IF a[1] # r \/ att[a].exec # "running" THEN att[a]
     ELSE [att[a] EXCEPT !.exec = IF att[a].call THEN "needs_reconciliation" ELSE "cancelled"]]

(* Mutant: results that are already there are cancelled too. *)
CancelAll(r) ==
  [a \in Attempt |->
     IF a[1] # r \/ a \notin Admitted THEN att[a]
     ELSE [att[a] EXCEPT !.exec = IF att[a].exec = "needs_reconciliation" \/ att[a].call
                                  THEN "needs_reconciliation" ELSE "cancelled"]]

(* The Executions of run r after the cancel command (CancelExecution of Execution.tla). *)
CancelAttempts(r) ==
  [a \in Attempt |->
     IF a[1] # r \/ a \notin Admitted \/ att[a].exec \in Over THEN att[a]
     ELSE [att[a] EXCEPT !.exec = IF att[a].exec = "needs_reconciliation" \/ att[a].call
                                  THEN "needs_reconciliation" ELSE "cancelled"]]

----------------------------------------------------------------------------
(* Plans: create, rework, command, decide *)

(* A new revision of the plan takes the place of the current one, whose Executions are *)
(* cancelled.  Rework, which may reuse results, needs everything before it accounted.  *)
Create(cap, rework, reuse) ==
  LET old == group.current
      new == old + 1 IN
  /\ new \in Run
  /\ ~group.expired /\ group.member = "same"
  /\ IF old = 0 THEN cap = InitialCap /\ ~rework
     ELSE cap <= runs[old].cap /\ IsCurrent(old, {"active", "paused"})
  /\ rework => \A a \in Admitted : att[a].settled /\ Closed(a)
  /\ reuse # {} => rework
  /\ \A a, b \in reuse : a[2] = b[2] => a = b
  /\ \A a \in reuse : Usable(a) /\ Closed(a)
  /\ group' = [group EXCEPT !.current = new]
  /\ runs' = [r \in Run |->
                IF r = new THEN [status |-> "active", cap |-> cap, reuse |-> reuse]
                ELSE IF r = old THEN [runs[r] EXCEPT !.status = "superseded"]
                ELSE runs[r]]
  /\ att' = CancelAttempts(old)
  /\ UNCHANGED gates

CommandRun(r, status) ==
  /\ IsCurrent(r, {"active", "paused"})
  /\ status \in {"active", "paused", "cancelled"} \ {runs[r].status}
  /\ runs' = [runs EXCEPT ![r].status = status]
  /\ att' = IF status = "cancelled" THEN CancelAttempts(r) ELSE att
  /\ UNCHANGED <<group, gates>>

(* A person decides a gate.  To continue approves it; to stop rejects it and cancels *)
(* the run in the same transaction.                                                  *)
Decide(r, g, decision) ==
  /\ IsCurrent(r, {"active"}) /\ ~group.expired
  /\ g \in group.plan
  /\ DependenciesComplete(r, g)
  /\ gates[<<r, g>>] = "open"
  /\ gates' = [gates EXCEPT ![<<r, g>>] = decision]
  /\ IF decision = "approved" THEN UNCHANGED <<runs, att>>
     ELSE runs' = [runs EXCEPT ![r].status = "cancelled"] /\ att' = CancelAttempts(r)
  /\ UNCHANGED group

----------------------------------------------------------------------------
(* Admission and accounting *)

(* Mutant: a failed attempt may be repeated before it is paid for. *)
NextTryUnsettled(r, n, k) ==
  /\ Tries(r, n) = 1 .. (k - 1)
  /\ k > 1 => att[<<r, n, k - 1>>].exec = "failed"

(* Attempts at a node are numbered; a further one needs the last to have failed and *)
(* to be paid for.                                                                  *)
NextTry(r, n, k) ==
  /\ Tries(r, n) = 1 .. (k - 1)
  /\ k > 1 => att[<<r, n, k - 1>>].meta = "failed" /\ att[<<r, n, k - 1>>].settled

(* Mutant: an attempt holds its place among the parallel ones for ever. *)
RoomBesideAll(r, n) ==
  /\ Cardinality(Admitted) < MaxAttempts
  /\ Cardinality(Admitted) < MaxParallel
  /\ TotalCommitted + Budget[n] <= runs[r].cap

HasRoom(r, n) ==
  /\ Cardinality(Admitted) < MaxAttempts
  /\ Cardinality({a \in Admitted : att[a].exec \notin Over}) < MaxParallel
  /\ TotalCommitted + Budget[n] <= runs[r].cap

(* Mutant: attempts whose outcome is unknown block nothing. *)
NothingOpen == TRUE

NothingUnknown == \A a \in Admitted : att[a].exec # "needs_reconciliation" /\ ~att[a].call

Admit(r, n, k) ==
  /\ IsCurrent(r, {"active"}) /\ ~group.expired
  /\ n \in group.plan \ Reused(r)
  /\ NothingUnknown
  /\ NextTry(r, n, k)
  /\ DependenciesComplete(r, n)
  /\ HasRoom(r, n)
  /\ att' = [att EXCEPT ![<<r, n, k>>] =
               [NoAttempt EXCEPT !.exec = "queued", !.meta = "queued", !.job = "available"]]
  /\ UNCHANGED <<group, runs, gates>>

(* Mutant: requests in flight are not waited for. *)
BillableNow(a) == att[a].job = "closed" /\ att[a].exec \in Closable /\ ~att[a].call

Billable(a) == Closed(a)

(* The host bills what the records of the Execution say, whether or not it is more *)
(* than was reserved.                                                              *)
SettleUsage(a) ==
  /\ a[2] \notin External
  /\ Billable(a)
  /\ ~att[a].settled
  /\ att' = [att EXCEPT ![a].settled = TRUE, ![a].usage = att[a].spent]
  /\ UNCHANGED <<group, runs, gates>>

(* What an external CLI used is known to its vendor only.  A person records the bill, *)
(* of any amount, once, for the only attempt of the current run; the transaction also *)
(* reconciles the attempt and settles its reservation.                                *)
RecordBill(a, bill) ==
  /\ a[2] \in External
  /\ a[1] = group.current /\ Tries(a[1], a[2]) = {a[3]}
  /\ Billable(a) /\ att[a].exec \in Over
  /\ ~att[a].settled
  /\ att' = [att EXCEPT ![a].meta = att[a].exec,
                        ![a].spent = bill, ![a].overrun = (bill > Budget[a[2]]),
                        ![a].settled = TRUE, ![a].usage = bill]
  /\ UNCHANGED <<group, runs, gates>>

(* The record of an attempt whose job was closed without it (CloseBeforeClaim). *)
Reconcile(a) ==
  /\ att[a].job = "closed"
  /\ att[a].exec \in Closable \cup {"needs_reconciliation"}
  /\ LET status == IF att[a].call THEN "needs_reconciliation" ELSE att[a].exec IN
       /\ att[a].meta # status
       /\ att' = [att EXCEPT ![a].meta = status]
  /\ UNCHANGED <<group, runs, gates>>

----------------------------------------------------------------------------
(* The Worker *)

Claim(a) ==
  /\ att[a].job = "available"
  /\ att[a].exec = "queued"
  /\ att' = [att EXCEPT ![a].job = "leased", ![a].exec = "running"]
  /\ UNCHANGED <<group, runs, gates>>

(* The job of an Execution that was stopped before anybody claimed it, or after its *)
(* worker was lost, is closed; the attempt's record keeps its old status.           *)
CloseBeforeClaim(a) ==
  /\ att[a].job \in {"available", "leased"}
  /\ att[a].exec \in Closable \cup {"needs_reconciliation"}
  /\ att' = [att EXCEPT ![a].job = "closed"]
  /\ UNCHANGED <<group, runs, gates>>

(* The turn goes on: nothing in flight, and no answer has exceeded its reservation, *)
(* which ends a turn (PersistentModelBudget.settle).                                *)
AtWork(a) ==
  /\ att[a].job = "leased"
  /\ att[a].pending = 0 /\ ~att[a].call /\ ~att[a].overrun

RequestModel(a, tokens) ==
  /\ a[2] \notin External
  /\ AtWork(a) /\ att[a].exec = "running" /\ MayProceed(a)
  /\ tokens > 0 /\ att[a].spent + tokens <= Budget[a[2]]
  /\ att' = [att EXCEPT ![a].pending = tokens]
  /\ UNCHANGED <<group, runs, gates>>

(* The provider's count is recorded as it is, also when it exceeds what was reserved. *)
ModelAnswers(a, tokens) ==
  /\ att[a].job = "leased"
  /\ att[a].pending > 0
  /\ att' = [att EXCEPT ![a].pending = 0, ![a].spent = @ + tokens,
                        ![a].overrun = (tokens > att[a].pending)]
  /\ UNCHANGED <<group, runs, gates>>

StartCall(a) ==
  /\ AtWork(a) /\ att[a].exec = "running" /\ MayProceed(a)
  /\ att' = [att EXCEPT ![a].call = TRUE]
  /\ UNCHANGED <<group, runs, gates>>

CallReturns(a) ==
  /\ att[a].job = "leased" /\ att[a].call
  /\ att' = [att EXCEPT ![a].call = FALSE]
  /\ UNCHANGED <<group, runs, gates>>

(* A person denies the approval the attempt waits for. *)
DenyApproval(a) ==
  /\ AtWork(a) /\ att[a].exec = "running"
  /\ att' = [att EXCEPT ![a].exec = "failed"]
  /\ UNCHANGED <<group, runs, gates>>

(* How an Execution ends whose job is settled with this outcome. *)
Final(a, outcome) ==
  IF att[a].call THEN "needs_reconciliation"
  ELSE IF att[a].exec = "running" THEN outcome
  ELSE att[a].exec

(* settleCoordinatedTurn, from the runtime store's commit hook or from #settleCoordinated. *)
(* A normal end needs a running Execution; a completion also the plan's authorization and  *)
(* no request without an answer.                                                           *)
SettleAttempt(a, outcome) ==
  /\ att[a].job = "leased"
  /\ outcome \in {"completed", "paused"} => att[a].exec = "running"
  /\ outcome = "completed" => AtWork(a) /\ MayProceed(a)
  /\ att' = [att EXCEPT ![a].job = "closed", ![a].exec = Final(a, outcome),
                        ![a].meta = Final(a, outcome)]
  /\ UNCHANGED <<group, runs, gates>>

----------------------------------------------------------------------------
(* The deadline and the initiator's membership *)

DeadlinePasses ==
  /\ group.current # 0 /\ ~group.expired
  /\ group' = [group EXCEPT !.expired = TRUE]
  /\ UNCHANGED <<runs, gates, att>>

(* Every change of the initiator's membership gives it a new version, for good. *)
ChangeRole ==
  /\ group.current # 0 /\ group.member = "same"
  /\ group' = [group EXCEPT !.member = "changed"]
  /\ UNCHANGED <<runs, gates, att>>

(* One that takes the right to operate away also interrupts what runs in his name. *)
Revoke ==
  /\ group.current # 0 /\ group.member # "revoked"
  /\ group' = [group EXCEPT !.member = "revoked"]
  /\ att' = [a \in Attempt |->
               IF a \notin Admitted \/ att[a].exec \in Over THEN att[a]
               ELSE [att[a] EXCEPT !.exec =
                       IF att[a].exec = "needs_reconciliation" \/ att[a].call
                       THEN "needs_reconciliation" ELSE "interrupted"]]
  /\ UNCHANGED <<runs, gates>>

----------------------------------------------------------------------------

PlanStep ==
  \/ \E cap \in 1 .. InitialCap, rework \in BOOLEAN, reuse \in SUBSET Admitted :
       Create(cap, rework, reuse)
  \/ \E r \in Run, status \in {"active", "paused", "cancelled"} : CommandRun(r, status)
  \/ \E r \in Run, g \in Gate, decision \in {"approved", "rejected"} : Decide(r, g, decision)

HostStep ==
  \/ \E r \in Run, n \in Node, k \in 1 .. MaxTry : Admit(r, n, k)
  \/ \E a \in Attempt : SettleUsage(a) \/ Reconcile(a)

(* The bills that TLC tries for node n. *)
Bill(n) == 0 .. (Budget[n] + MaxOver)

WorkerStep(a) ==
  \/ Claim(a)
  \/ CloseBeforeClaim(a)
  \/ \E tokens \in Bill(a[2]) : RequestModel(a, tokens) \/ ModelAnswers(a, tokens)
  \/ StartCall(a)
  \/ CallReturns(a)
  \/ \E outcome \in {"completed", "paused", "failed", "interrupted"} : SettleAttempt(a, outcome)

Next ==
  \/ PlanStep
  \/ HostStep
  \/ \E a \in Attempt : WorkerStep(a) \/ DenyApproval(a) \/ \E bill \in Bill(a[2]) : RecordBill(a, bill)
  \/ DeadlinePasses
  \/ ChangeRole
  \/ Revoke

Spec == Init /\ [][Next]_vars

(* A claimed job runs to a settlement (model and tool calls are cut off by the duration *)
(* budget), and the host's timer observes every unfinished goal in turn (recoverGoals). *)
Settles(a) == \E outcome \in {"completed", "paused", "failed", "interrupted"} : SettleAttempt(a, outcome)
Fairness ==
  /\ \A a \in Attempt : /\ WF_vars(Claim(a)) /\ WF_vars(CloseBeforeClaim(a)) /\ WF_vars(Settles(a))
                        /\ WF_vars(a[1] = group.current /\ (SettleUsage(a) \/ Reconcile(a)))
  /\ \A r \in Run, n \in Node : WF_vars(Admit(r, n, 1))

FairSpec == Spec /\ Fairness

----------------------------------------------------------------------------
(* Properties *)

(* What an attempt has used, with the request it has in flight; what of it the group *)
(* answers for, which is all unless one bill exceeded its reservation; and the        *)
(* attempts of a run and of its successors.                                           *)
Used == [a \in Attempt |-> att[a].spent + att[a].pending]
Share == [a \in Attempt |->
            IF att[a].overrun /\ Used[a] > Budget[a[2]] THEN Budget[a[2]] ELSE Used[a]]
Since(r) == {a \in Admitted : a[1] >= r}

(* What the attempts of a run and of its successors use, with all that is still in    *)
(* flight, stays within the cap of that run: no retry, rework, cancellation or lost   *)
(* worker makes the group spend tokens twice.  Beyond the cap there is only what one  *)
(* bill, of a request or of a CLI, exceeded its attempt's reservation by, which       *)
(* settleCoordinationUsageInTransaction takes as it is.                               *)
SpendWithinCap ==
  \A r \in Run : runs[r].status # "absent" => SumFunctionOnSet(Share, Since(r)) <= runs[r].cap

(* Work at a node is never repeated beside, or after, an attempt that may have had an *)
(* effect: an attempt that has a successor failed, was paid, and left nothing open.   *)
RepeatsOnlyFailures ==
  \A a \in Admitted :
    <<a[1], a[2], a[3] + 1>> \in Admitted => att[a].exec = "failed" /\ att[a].settled /\ Closed(a)

(* Nothing is started beside an unknown outcome: when an attempt is admitted, or starts *)
(* a call, no Execution of an earlier run is left without a known outcome.              *)
NothingBesideUnknown ==
  \A a \in Admitted, b \in Admitted :
    a[1] < b[1] => att[a].exec # "needs_reconciliation" /\ ~att[a].call

(* A plan that was cancelled or superseded, and a group whose initiator lost the right *)
(* to operate, have no Execution that could go on, and never get one again.            *)
StoppedPlansAreQuiet ==
  \A a \in Admitted :
    /\ runs[a[1]].status \in {"cancelled", "superseded"} =>
         att[a].exec \in Over \cup {"needs_reconciliation"}
    /\ group.member = "revoked" => att[a].exec \notin {"queued", "running"}

(* What a node was built on stays: the results it depends on, those reused from an     *)
(* earlier run included, remain complete and paid for, whatever happens to their runs. *)
DependenciesHold == \A a \in Admitted : DependenciesComplete(a[1], a[2])

(* A bill is final, and covers all the attempt ever used. *)
BillsAreFinal ==
  \A a \in Admitted : att[a].settled => att[a].usage = att[a].spent /\ att[a].pending = 0

(* Reasons for which a plan rests: a person, the clock, the budget, a node that did   *)
(* not complete or the bill of a CLI has to be looked at first.                       *)
Rests(r) ==
  \/ runs[r].status # "active" \/ group.expired \/ group.member # "same"
  \/ \E a \in Admitted : a[1] = r /\ att[a].exec \in (Closable \ {"completed"})
  \/ \E a \in Admitted : att[a].exec = "needs_reconciliation"
  \/ \E a \in Admitted : a[1] = r /\ a[2] \in External /\ att[a].exec = "completed" /\ ~att[a].settled
  \/ \E g \in Gate \cap group.plan : DependenciesComplete(r, g) /\ gates[<<r, g>>] # "approved"
  \/ /\ \A a \in Admitted : a[1] = r => att[a].settled
     /\ \E n \in Node \cap group.plan :
          /\ DependenciesComplete(r, n) /\ Tries(r, n) = {} /\ n \notin Reused(r)
          /\ Cardinality(Admitted) >= MaxAttempts \/ TotalCommitted + Budget[n] > runs[r].cap

(* An active plan comes to its end, or to one of those reasons: no settlement, closed *)
(* job or superseded revision leaves it waiting for what nobody will do.              *)
PlansEndOrRest ==
  \A r \in Run : runs[r].status = "active" ~>
    (\A n \in Node \cap group.plan : Complete(r, n)) \/ Rests(r)
=============================================================================

----------------------------- MODULE Followups -----------------------------
(* One follow-up: a policy that watches a business object and, when the      *)
(* object has changed, starts a goal of its own under a budget per period.   *)
(*                                                                           *)
(* Every Host polls (recoverFollowups): it claims a change in one            *)
(* transaction, which reserves a run and its goal, and dispatches the run in *)
(* later ones.  Beside the schedulers stand the owner (commands on the       *)
(* policy and on the goals), the worker that runs a goal's Execution, the    *)
(* Host's background accounting of goals, and the ledger of the business.    *)
(* Accepted commands only are actions: one with an old stream version        *)
(* changes nothing.  Rework of a delivery (team-runtime.ts) is left out.     *)
EXTENDS Naturals, FiniteSets, FiniteSetsExt

CONSTANTS
  Scheduler,     \* polling Hosts
  Contents,      \* how many things the watched object may say
  OtherRefs,     \* whether the policy names a second business object
  MaxRuns,       \* definition.maxRuns
  PeriodRuns,    \* periodBudget.maxRuns
  PeriodTokens,  \* periodBudget.maxTokens
  Cap,           \* perRunBudget.maxTokens
  MaxBook,       \* bound: versions of the ledger
  MaxEvents      \* bound: commands of the owner, dispatches that a crash or a transport
                 \* failure ends, new periods, and the loss of the grant, in all

ASSUMPTION FollowupAssumption ==
  /\ OtherRefs \in BOOLEAN
  /\ {Contents, MaxRuns, PeriodRuns, PeriodTokens, Cap, MaxBook} \subseteq Nat \ {0}
  /\ MaxEvents \in Nat
  /\ Cap =< PeriodTokens

VARIABLES
  policy,    \* status of the follow-up
  grant,     \* "valid" while parent goal, member, model and plug-in are those it was
             \* granted for; "expired" once expiresAt has passed, whatever they are
  ledger,    \* the business: its stream version, and what the watched object says
  cursor,    \* the content that was claimed last
  period,    \* the period of the clock
  runs,      \* followup.run by number; a number not yet used has status "none"
  goals,     \* the goal of each run
  execs,     \* the Execution of each goal, and what it has really cost
  sched,     \* each scheduler: its program point, run and goal version
  events     \* how many of the bounded events there were

vars == <<policy, grant, ledger, cursor, period, runs, goals, execs,
          sched, events>>
books == <<runs, goals, execs>>
owner == <<grant, ledger, period>>

Run == 1..MaxRuns
Content == 1..Contents
PolicyStatus == {"active", "paused", "stopped", "expired", "invalidated", "exhausted"}
Closed == {"stopped", "expired", "invalidated", "exhausted"}
Terminal == {"completed", "failed", "cancelled"}

RunRow ==
  [status : {"none", "pending", "running", "awaiting_acceptance", "accepted", "failed",
             "needs_reconciliation", "cancelled"},
   period : Nat \ {0},   \* the period whose budget it was reserved from
   source : Nat \ {0},   \* the version of the ledger that its goal names
   started : BOOLEAN,    \* it knows its Execution
   known : BOOLEAN, actual : Nat]   \* what it is known to have cost

GoalRow ==
  [status : {"none", "draft", "awaiting_authorization", "running", "awaiting_acceptance",
             "accepted", "failed", "needs_reconciliation", "cancelled"},
   version : Nat,
   planned : BOOLEAN,    \* the plan of the scheduler is recorded
   startedAt : Nat,      \* the version that was started; 0 when there is no Execution
   usage : {"none", "reserved", "unknown", "settled"}, actual : Nat,
   cancelling : BOOLEAN]

ExecRow ==
  [status : {"none", "running", "interrupted"} \cup Terminal,   \* "interrupted": or paused
   spent : Nat,          \* what its calls really cost
   open : BOOLEAN]       \* a call is reserved and not settled

SchedulerRow ==
  [pc : {"idle", "read", "check", "propose", "prepare", "start", "refused", "expired"},
   run : Run, version : Nat]

Idle == [pc |-> "idle", run |-> 1, version |-> 0]

NoRun == [status |-> "none", period |-> 1, source |-> 1, started |-> FALSE, known |-> FALSE, actual |-> 0]
NoGoal == [status |-> "none", version |-> 0, planned |-> FALSE, startedAt |-> 0,
           usage |-> "none", actual |-> 0, cancelling |-> FALSE]
NoExec == [status |-> "none", spent |-> 0, open |-> FALSE]

Init ==
  /\ policy = "active"
  /\ grant = "valid"
  /\ ledger = [version |-> 1, content |-> 1]
  /\ cursor = 1
  /\ period = 1
  /\ runs = [r \in Run |-> NoRun]
  /\ goals = [r \in Run |-> NoGoal]
  /\ execs = [r \in Run |-> NoExec]
  /\ sched = [s \in Scheduler |-> Idle]
  /\ events = 0

----------------------------------------------------------------------------
Event ==
  /\ events < MaxEvents
  /\ events' = events + 1

(* What every transaction checks *)

Made == {r \in Run : runs[r].status # "none"}

(* assertFollowupPolicy without its first test: neither expired nor stale.   *)
(* A second business object is pinned to the version of the whole ledger.    *)
Authorised == grant = "valid" /\ (OtherRefs => ledger.version = 1)

(* The goal of a run names the ledger's version at its claim. *)
Fresh(r) == runs[r].source = ledger.version

----------------------------------------------------------------------------
(* What a follow-up knows of its runs *)

(* The status of a run by that of its goal; unknown or excess cost is neither *)
(* released nor forgotten.                                                    *)
StatusByGoal(r) ==
  LET g == goals[r]
      status == IF g.startedAt = 0 THEN runs[r].status
                ELSE IF g.status \in {"accepted", "cancelled", "failed",
                                      "awaiting_acceptance", "needs_reconciliation"}
                     THEN g.status ELSE "running"
  IN  IF \/ g.usage = "unknown"
         \/ status \in {"accepted", "cancelled", "failed"} /\ g.usage # "settled"
         \/ g.usage = "settled" /\ g.actual > Cap
      THEN "needs_reconciliation" ELSE status

Observed ==
  [r \in Run |->
     IF runs[r].status = "none" \/ (runs[r].status = "cancelled" /\ ~runs[r].started) THEN runs[r]
     ELSE [runs[r] EXCEPT !.status = StatusByGoal(r),
                          !.started = goals[r].startedAt # 0,
                          !.known = @ \/ goals[r].usage = "settled",
                          !.actual = IF goals[r].usage = "settled" THEN goals[r].actual ELSE @]]

(* Runs that were never started cost nothing. *)
PendingCancelled(rs) ==
  [r \in Run |-> IF rs[r].status = "pending" /\ ~rs[r].started
                 THEN [rs[r] EXCEPT !.status = "cancelled", !.known = TRUE, !.actual = 0]
                 ELSE rs[r]]

OfPeriod(rs, p) == {r \in Run : rs[r].status # "none" /\ rs[r].period = p}

(* What a run holds of its period's budget: its cost and, until it is        *)
(* released, the part of its cap that it has not used.                       *)
Held(rs) ==
  [r \in Run |->
     LET cost == IF rs[r].known THEN rs[r].actual ELSE 0
     IN  IF rs[r].status \in {"accepted", "cancelled"} \/ cost > Cap THEN cost ELSE Cap]

(* Mutant: the cap of the run that is about to be made is not counted. *)
RoomAsItIs(rs) ==
  /\ Cardinality(OfPeriod(rs, period)) < PeriodRuns
  /\ SumFunctionOnSet(Held(rs), OfPeriod(rs, period)) =< PeriodTokens

(* followupDetail as the claim uses it, of a policy that is active. *)
HasRoom(rs) ==
  /\ Cardinality(OfPeriod(rs, period)) < PeriodRuns
  /\ SumFunctionOnSet(Held(rs), OfPeriod(rs, period)) + Cap =< PeriodTokens

----------------------------------------------------------------------------
(* A scheduler claims *)

Goto(s, pc) == sched' = [sched EXCEPT ![s].pc = pc]
Return(s) == sched' = [sched EXCEPT ![s] = Idle]
Take(s, r) == sched' = [sched EXCEPT ![s] = [Idle EXCEPT !.pc = "read", !.run = r]]

Pending(rs) == {r \in Run : rs[r].status = "pending"}

(* Mutant: a run whose cost is unknown does not count as work. *)
AtWorkKnown(rs) == {r \in Run : rs[r].status = "running"}

(* Mutant: a delivery that nobody has accepted yet is still work. *)
AtWorkUnaccepted(rs) ==
  {r \in Run : rs[r].status \in {"running", "needs_reconciliation", "awaiting_acceptance"}}

(* Runs that hold the next one up. *)
AtWork(rs) == {r \in Run : rs[r].status \in {"running", "needs_reconciliation"}}

(* The follow-ups that a poll looks at. *)
Polled ==
  \/ policy \in {"active", "paused"}
  \/ \E r \in Made : runs[r].status \notin {"accepted", "cancelled"} \/ ~runs[r].known

Invalidate(rs, status) ==
  /\ policy' = status
  /\ runs' = PendingCancelled(rs)

(* The transaction ends with the observation of the runs. *)
JustObserve ==
  /\ \/ policy \notin {"active"} /\ (policy = "paused" => Authorised)
     \/ /\ policy = "active" /\ Authorised
        /\ Pending(Observed) = {}
        /\ \/ AtWork(Observed) # {}
           \/ /\ Cardinality(Made) < MaxRuns
              /\ ledger.content = cursor \/ ~HasRoom(Observed)
  /\ runs' = Observed
  /\ UNCHANGED policy

ClaimNothing(s) ==
  /\ JustObserve
  /\ UNCHANGED <<cursor, goals, sched>>

ClaimInvalidates(s) ==
  /\ policy \in {"active", "paused"}
  /\ ~Authorised
  /\ Invalidate(Observed, IF grant = "expired" THEN "expired" ELSE "invalidated")
  /\ UNCHANGED <<cursor, goals, sched>>

ClaimPending(s) ==
  /\ policy = "active" /\ Authorised
  /\ runs' = Observed
  /\ \E r \in Pending(Observed) : Take(s, r)
  /\ UNCHANGED <<policy, cursor, goals>>

Exhaust(s) ==
  /\ policy = "active" /\ Authorised
  /\ Pending(Observed) = {} /\ AtWork(Observed) = {}
  /\ Cardinality(Made) = MaxRuns
  /\ policy' = "exhausted"
  /\ runs' = Observed
  /\ UNCHANGED <<cursor, goals, sched>>

(* One transaction reserves the run and its budget, makes its goal and moves *)
(* the cursor.                                                               *)
ClaimChange(s) ==
  /\ policy = "active" /\ Authorised
  /\ Pending(Observed) = {} /\ AtWork(Observed) = {}
  /\ Cardinality(Made) < MaxRuns
  /\ ledger.content # cursor
  /\ HasRoom(Observed)
  /\ LET r == Cardinality(Made) + 1
     IN  /\ runs' = [Observed EXCEPT ![r] = [NoRun EXCEPT !.status = "pending", !.period = period,
                                                          !.source = ledger.version]]
         /\ goals' = [goals EXCEPT ![r] = [NoGoal EXCEPT !.status = "draft", !.version = 1]]
         /\ Take(s, r)
  /\ cursor' = ledger.content
  /\ UNCHANGED policy

Claim(s) ==
  /\ sched[s].pc = "idle"
  /\ Polled
  /\ \/ ClaimNothing(s) \/ ClaimInvalidates(s) \/ ClaimPending(s)
     \/ Exhaust(s) \/ ClaimChange(s)
  /\ UNCHANGED <<execs, events, owner>>

----------------------------------------------------------------------------
(* A scheduler dispatches the run it holds *)

Unchanged == UNCHANGED <<policy, cursor, execs, events, owner>>

(* The error of assertFollowupPolicy for an active policy. *)
Refusal == IF grant = "expired" THEN "expired" ELSE "refused"

(* Mutant: only the goal that has no plan yet is taken up. *)
ReadDraft(s) ==
  /\ sched[s].pc = "read"
  /\ IF goals[sched[s].run].status = "draft" THEN Goto(s, "check") ELSE Return(s)
  /\ UNCHANGED <<runs, goals>> /\ Unchanged

(* Errors without a code, of versions, and of a policy that is not active    *)
(* are left for the next poll; every other one ends the policy.              *)
Read(s) ==
  /\ sched[s].pc = "read"
  /\ LET r == sched[s].run IN
     CASE goals[r].status = "draft" -> Goto(s, "check")
       [] goals[r].status = "awaiting_authorization" ->
            sched' = [sched EXCEPT ![s].pc = "prepare", ![s].version = goals[r].version]
       [] OTHER -> Return(s)
  /\ UNCHANGED <<runs, goals>> /\ Unchanged

(* The member, or the executor that the plan names, may be gone since. *)
Denied(s) ==
  /\ sched[s].pc \in {"read", "propose", "prepare", "start"} /\ grant # "valid"
  /\ Goto(s, "refused")
  /\ UNCHANGED <<runs, goals>> /\ Unchanged

CheckPolicy(s) ==
  /\ sched[s].pc = "check"
  /\ CASE policy # "active" -> Return(s)
       [] policy = "active" /\ ~Authorised -> Goto(s, Refusal)
       [] OTHER -> Goto(s, "propose")
  /\ UNCHANGED <<runs, goals>> /\ Unchanged

(* Under the key of the run: a plan that was recorded is returned again. *)
Propose(s) ==
  /\ sched[s].pc = "propose"
  /\ LET r == sched[s].run IN
     \/ /\ ~Fresh(r) /\ (goals[r].planned \/ goals[r].version = 1)
        /\ Goto(s, "refused")
        /\ UNCHANGED goals
     \/ /\ Fresh(r) /\ goals[r].planned
        /\ sched' = [sched EXCEPT ![s].pc = "prepare", ![s].version = 2]
        /\ UNCHANGED goals
     \/ /\ ~goals[r].planned /\ goals[r].version # 1
        /\ Return(s)
        /\ UNCHANGED goals
     \/ /\ Fresh(r) /\ ~goals[r].planned /\ goals[r].version = 1
        /\ goals' = [goals EXCEPT ![r].status = "awaiting_authorization",
                                  ![r].version = 2, ![r].planned = TRUE]
        /\ sched' = [sched EXCEPT ![s].pc = "prepare", ![s].version = 2]
  /\ UNCHANGED runs /\ Unchanged

(* The message of the Execution is made from the sources as they are now. *)
Prepare(s) ==
  /\ sched[s].pc = "prepare"
  /\ Goto(s, IF Fresh(sched[s].run) THEN "start" ELSE "refused")
  /\ UNCHANGED <<runs, goals>> /\ Unchanged

(* The goal, its Execution and its run start in one transaction. *)
Start(s) ==
  /\ sched[s].pc = "start"
  /\ LET r == sched[s].run IN
     /\ goals[r].startedAt = 0
     /\ goals[r].version = sched[s].version
     /\ Fresh(r)
     /\ policy = "active" /\ Authorised
     /\ runs[r].status = "pending"
     /\ goals' = [goals EXCEPT ![r].status = "running", ![r].version = @ + 1,
                               ![r].startedAt = goals[r].version, ![r].usage = "reserved"]
     /\ execs' = [execs EXCEPT ![r].status = "running"]
     /\ runs' = [runs EXCEPT ![r].status = "running", ![r].started = TRUE]
  /\ Return(s)
  /\ UNCHANGED <<policy, cursor, events, owner>>

(* Where a start ends instead: with the recorded answer, with an error that  *)
(* is left alone, or with one that ends the policy.  A start that was        *)
(* recorded for another version of the goal counts as a reused key.          *)
StartFails(s) ==
  /\ sched[s].pc = "start"
  /\ LET r == sched[s].run
         replay == goals[r].startedAt # 0
         sameKey == replay /\ goals[r].startedAt = sched[s].version
         sameGoal == goals[r].version = sched[s].version
     IN CASE replay -> IF sameKey /\ Fresh(r) THEN Return(s) ELSE Goto(s, "refused")
          [] ~replay /\ ~sameGoal -> Return(s)
          [] ~replay /\ sameGoal /\ ~Fresh(r) -> Goto(s, "refused")
          [] OTHER ->
               CASE policy # "active" -> Return(s)
                 [] policy = "active" /\ ~Authorised -> Goto(s, Refusal)
                 [] OTHER -> runs[r].status # "pending" /\ Return(s)
  /\ UNCHANGED <<runs, goals>> /\ Unchanged

(* A plan of the owner's may name an executor that was not granted.  That is *)
(* looked at before the policy has to be active.                             *)
RefuseExecutor(s) ==
  /\ sched[s].pc = "start"
  /\ LET r == sched[s].run IN
     /\ goals[r].startedAt = 0
     /\ goals[r].version = sched[s].version
     /\ Fresh(r)
     /\ policy \in {"active", "paused", "exhausted"} /\ Authorised
     /\ runs[r].status = "pending"
     /\ ~(goals[r].planned /\ goals[r].version = 2)
  /\ Goto(s, "refused")
  /\ UNCHANGED <<runs, goals>> /\ Unchanged

(* The error is taken out on the policy as it is now. *)
Refuse(s) ==
  /\ sched[s].pc \in {"refused", "expired"}
  /\ policy' = IF policy \notin {"active", "paused"} THEN policy
               ELSE IF sched[s].pc = "expired" THEN "expired" ELSE "invalidated"
  /\ runs' = PendingCancelled(Observed)
  /\ Return(s)
  /\ UNCHANGED <<cursor, goals, execs, events, owner>>

(* A crash, or a store that cannot be reached. *)
Interrupted(s) ==
  /\ sched[s].pc # "idle"
  /\ Event
  /\ Return(s)
  /\ UNCHANGED <<policy, cursor, books, owner>>

Dispatch(s) ==
  Read(s) \/ Denied(s) \/ CheckPolicy(s) \/ Propose(s) \/ Prepare(s)
  \/ Start(s) \/ StartFails(s) \/ RefuseExecutor(s) \/ Refuse(s)

----------------------------------------------------------------------------
(* The owner, and what happens to the grant and the ledger *)

Pause ==
  /\ policy = "active"
  /\ policy' = "paused"
  /\ UNCHANGED runs

Resume ==
  /\ policy = "paused" /\ Authorised
  /\ policy' = "active"
  /\ UNCHANGED runs

(* A stop cancels what was not started, in its own transaction. *)
Stop ==
  /\ policy \in {"active", "paused", "exhausted"}
  /\ policy' = "stopped"
  /\ runs' = PendingCancelled(runs)

CommandFollowup ==
  /\ Event
  /\ Pause \/ Resume \/ Stop
  /\ UNCHANGED <<grant, ledger, cursor, period, goals, execs, sched>>

(* The owner may plan the goal of a run that has not started. *)
PlanGoal(r) ==
  /\ Event
  /\ goals[r].status \in {"draft", "awaiting_authorization"} /\ Fresh(r)
  /\ goals' = [goals EXCEPT ![r].status = "awaiting_authorization", ![r].version = @ + 1]
  /\ UNCHANGED <<policy, grant, ledger, cursor, period, runs, execs, sched>>

(* cancelGoal: an Execution that has not ended is cancelled with the goal    *)
(* (its users may not do so themselves), and the goal is closed only once    *)
(* its cost is known.                                                        *)
CancelGoal(r) ==
  LET g == goals[r]
      settled == g.startedAt = 0 \/ g.usage = "settled"
  IN  /\ g.status \notin {"none", "accepted", "cancelled"}
      /\ execs' = [execs EXCEPT ![r].status = IF @ \in {"running", "interrupted"} THEN "cancelled" ELSE @]
      /\ goals' = [goals EXCEPT
           ![r].status = IF settled THEN "cancelled" ELSE "needs_reconciliation",
           ![r].cancelling = TRUE,
           ![r].version = IF g.startedAt = 0 THEN @ + 1 ELSE @]
      /\ Event
      /\ UNCHANGED <<policy, grant, ledger, cursor, period, runs, sched>>

(* acceptGoalDelivery *)
AcceptGoal(r) ==
  /\ goals[r].status = "awaiting_acceptance" /\ Fresh(r)
  /\ goals' = [goals EXCEPT ![r].status = "accepted"]
  /\ UNCHANGED <<policy, cursor, runs, execs, sched, events, owner>>

(* Any record of the business is a new version of the ledger, the watched    *)
(* object's or another's.                                                    *)
RecordBusiness ==
  /\ ledger.version < MaxBook
  /\ \E c \in Content : ledger' = [version |-> ledger.version + 1, content |-> c]
  /\ UNCHANGED <<policy, grant, cursor, period, books, sched, events>>

(* Either may happen at any time; what has expired stays so. *)
LoseGrant ==
  /\ grant = "valid"
  /\ grant' \in {"stale", "expired"}
  /\ Event
  /\ UNCHANGED <<policy, ledger, cursor, period, books, sched>>

NewPeriod ==
  /\ period' = period + 1
  /\ Event
  /\ UNCHANGED <<policy, grant, ledger, cursor, books, sched>>

----------------------------------------------------------------------------
(* The Execution of a goal: its model calls, each with what it really costs. *)
(* A reservation covers a call, but a bill may exceed it by one.             *)

(* assertFollowupExecutionAuthorization, before a call. *)
MayCall(r) ==
  /\ policy \in {"active", "paused", "exhausted"} /\ Authorised /\ Fresh(r)
  /\ runs[r].status \in {"running", "awaiting_acceptance", "failed", "needs_reconciliation"}
  /\ ~goals[r].cancelling

CallModel(r) ==
  /\ execs[r].status = "running" /\ ~execs[r].open /\ execs[r].spent < Cap
  /\ MayCall(r)
  /\ \E cost \in 1..(Cap - execs[r].spent + 1) :
       execs' = [execs EXCEPT ![r].open = TRUE, ![r].spent = @ + cost]

(* The bill is recorded whatever has become of the Execution meanwhile. *)
Answer(r) ==
  /\ execs[r].open
  /\ execs' = [execs EXCEPT ![r].open = FALSE]

(* A lost worker, a stop or a used-up budget; only cancelGoal goes on from   *)
(* there.  An answer that nobody recorded leaves the cost of the call open.  *)
Interrupt(r) ==
  /\ execs[r].status = "running"
  /\ execs' = [execs EXCEPT ![r].status = "interrupted"]

EndExecution(r) ==
  /\ execs[r].status = "running"
  /\ \/ execs' = [execs EXCEPT ![r].status = "failed"]
     \/ /\ execs[r].spent > 0 /\ ~execs[r].open
        /\ execs' = [execs EXCEPT ![r].status = "completed"]

Execute(r) ==
  /\ CallModel(r) \/ Answer(r) \/ Interrupt(r) \/ EndExecution(r)
  /\ UNCHANGED <<policy, cursor, runs, goals, sched, events, owner>>

----------------------------------------------------------------------------
(* The Host's accounting of goals *)

(* What observeState, and reconcileGoalUsage where the grant or a source no  *)
(* longer holds, make of a goal.  A delivery may turn out incomplete.        *)
Usage(g, e) ==
  IF e.status \notin Terminal \/ g.usage = "settled" THEN g.usage
  ELSE IF e.open THEN "unknown" ELSE "settled"

GoalOutcomes(g, e, permitted) ==
  LET usage == Usage(g, e)
      ended == e.status \in Terminal
  IN  IF g.cancelling
      THEN {IF ended /\ usage = "settled" THEN "cancelled" ELSE "needs_reconciliation"}
      ELSE IF ~permitted \/ (ended /\ (usage # "settled" \/ e.spent > Cap))
                 \/ e.status = "interrupted"
      THEN {"needs_reconciliation"}
      ELSE CASE e.status \in {"failed", "cancelled"} -> {"failed"}
             [] e.status = "completed" -> {"awaiting_acceptance", "failed"}
             [] OTHER -> {"running"}

(* The goals that the Host still looks at. *)
Accountable(r) ==
  /\ goals[r].startedAt # 0 /\ goals[r].status # "accepted"
  /\ goals[r].usage # "settled" \/ goals[r].status \in {"running", "needs_reconciliation"}

(* A goal whose authorization may have changed is observed either way; its  *)
(* version no longer matters once it has started.                            *)
ObserveGoal(r) ==
  LET g == goals[r]
      e == execs[r]
  IN  /\ Accountable(r)
      /\ \E permitted \in BOOLEAN :
           /\ permitted => Fresh(r)
           /\ ~permitted => ~Fresh(r) \/ grant # "valid"
           /\ \E status \in GoalOutcomes(g, e, permitted) :
                goals' = [goals EXCEPT ![r].status = status, ![r].usage = Usage(g, e),
                            ![r].actual = IF Usage(g, e) = "settled" THEN e.spent ELSE 0]
      /\ UNCHANGED <<policy, cursor, runs, execs, sched, events, owner>>

(* An observation that fails, on records that have changed meanwhile or a     *)
(* store that cannot be read, still settles the cost (reconcileGoalUsage);    *)
(* under an authorization that holds it leaves the status to the next one.    *)
ReconcileUsage(r) ==
  /\ Accountable(r) /\ Fresh(r) /\ ~goals[r].cancelling
  /\ execs[r].status = "completed" /\ ~execs[r].open /\ execs[r].spent =< Cap
  /\ goals' = [goals EXCEPT ![r].usage = "settled", ![r].actual = execs[r].spent]
  /\ UNCHANGED <<policy, cursor, runs, execs, sched, events, owner>>

----------------------------------------------------------------------------
Next ==
  \/ \E s \in Scheduler : Claim(s) \/ Dispatch(s) \/ Interrupted(s)
  \/ CommandFollowup
  \/ \E r \in Run : \/ PlanGoal(r) \/ CancelGoal(r) \/ AcceptGoal(r)
                    \/ Execute(r) \/ ObserveGoal(r) \/ ReconcileUsage(r)
  \/ RecordBusiness \/ LoseGrant \/ NewPeriod

Spec == Init /\ [][Next]_vars

(* Hosts poll, a worker serves its jobs, and calls are answered or given up. *)
FairSpec ==
  /\ Spec
  /\ \A s \in Scheduler : WF_vars(Claim(s) \/ Dispatch(s))
  /\ \A r \in Run :
       /\ WF_vars(ObserveGoal(r))
       /\ WF_vars(execs[r].status = "running" /\ Execute(r))

----------------------------------------------------------------------------
TypeOK ==
  /\ policy \in PolicyStatus
  /\ grant \in {"valid", "stale", "expired"}
  /\ ledger \in [version : Nat \ {0}, content : Content]
  /\ cursor \in Content
  /\ period \in Nat \ {0}
  /\ runs \in [Run -> RunRow]
  /\ goals \in [Run -> GoalRow]
  /\ execs \in [Run -> ExecRow]
  /\ sched \in [Scheduler -> SchedulerRow]
  /\ events \in Nat

(* An Execution that may still cost something, or a call that nobody settled. *)
Unsettled(r) == execs[r].status \notin {"none"} \cup Terminal \/ execs[r].open

Burden(r) == Unsettled(r) \/ execs[r].spent > Cap

(* At most one Execution of a follow-up works, has a call whose cost is      *)
(* unknown, or has cost more than its cap, whatever schedulers poll, crash   *)
(* and repeat (architecture.md:43).                                          *)
OneAtWork == \A r, q \in Run : r # q => ~(Burden(r) /\ Burden(q))

(* A policy that was stopped, has expired or was invalidated leaves no run   *)
(* that could still start.                                                   *)
NothingLeftToStart == policy \in Closed => Pending(runs) = {}

(* A run gives its reservation back only with its true cost on the books.    *)
ReleasedIsPaid ==
  \A r \in Run : runs[r].status \in {"accepted", "cancelled"} =>
    runs[r].known /\ runs[r].actual = execs[r].spent /\ ~Unsettled(r)

(* What each run really cost, without what a last bill added beyond the cap. *)
CappedCost == [r \in Run |-> IF execs[r].spent > Cap THEN Cap ELSE execs[r].spent]

(* What the runs of a period really cost, each up to its cap, stays within   *)
(* the period's budget.                                                      *)
WithinPeriod ==
  \A p \in 1..period : SumFunctionOnSet(CappedCost, OfPeriod(runs, p)) =< PeriodTokens

(* Claimed work is decided: a run does not stay pending under an active      *)
(* policy, unless its owner cancelled the goal that it would have started.   *)
PendingIsDecided ==
  \A r \in Run : (runs[r].status = "pending") ~>
    \/ runs[r].status # "pending" \/ policy = "paused" \/ goals[r].cancelling

(* Nothing but a person, the limits or a lost grant keeps a change waiting.  *)
ChangeIsTakenUp ==
  (policy = "active" /\ ledger.content # cursor) ~>
    \/ policy # "active" \/ ledger.content = cursor
    \/ ~HasRoom(runs)
    \/ \E r \in Run : \/ runs[r].status = "needs_reconciliation"
                     \/ (runs[r].status = "pending" /\ goals[r].cancelling)
=============================================================================

-------------------------- MODULE FollowupsProofs --------------------------
(* Proofs about Followups: for any schedulers, budgets and bounds, a          *)
(* follow-up has at most one Execution that works or whose cost is unknown or *)
(* too high, a policy that ended leaves nothing to start, a reservation is    *)
(* released only for what was really paid, and no period costs more than its  *)
(* budget.                                                                    *)
EXTENDS Followups, SumLemmas, FiniteSetTheorems, TLAPS

(* What a goal records of its Execution is true. *)
Account(r) ==
  /\ (goals[r].startedAt # 0) <=> (execs[r].status # "none")
  /\ goals[r].startedAt # 0 => goals[r].version > goals[r].startedAt
  /\ goals[r].startedAt = 0 => goals[r].usage = "none"
  /\ execs[r].status = "none" => execs[r] = NoExec
  /\ goals[r].usage = "settled" =>
       /\ execs[r].status \in Terminal /\ ~execs[r].open
       /\ goals[r].actual = execs[r].spent
  /\ goals[r].status = "awaiting_acceptance" => goals[r].usage = "settled"

Accounts == \A r \in Run : Account(r)

(* What a run records of its goal is true, before and after an observation. *)
Paid(run, r) ==
  run.status \in {"accepted", "cancelled"} =>
    run.known /\ run.actual = execs[r].spent /\ ~Unsettled(r)

Consistent(run, r) ==
  /\ run.started <=> goals[r].startedAt # 0
  /\ run.status \in {"none", "pending"} => ~run.started
  /\ ~run.started => run.status \in {"none", "pending", "cancelled"}
  /\ run.status = "none" => goals[r] = NoGoal
  /\ run.status # "none" => goals[r].version # 0
  /\ Paid(run, r)

Coherent == \A r \in Run : Consistent(runs[r], r)

(* A run waits to be started only while nothing else weighs on the policy. *)
OnePending ==
  \A r, q \in Run : r # q /\ runs[r].status = "pending" => runs[q].status # "pending" /\ ~Burden(q)

MadeInOrder == \E n \in 0..MaxRuns : Made = 1..n

IInv ==
  /\ TypeOK /\ Accounts /\ Coherent
  /\ OnePending /\ OneAtWork /\ MadeInOrder /\ NothingLeftToStart

----------------------------------------------------------------------------
(* What an observation, and a cancellation of what is pending, make of runs *)

LEMMA ConstantTypes ==
  /\ MaxRuns \in Nat \ {0} /\ Cap \in Nat \ {0} /\ Contents \in Nat \ {0}
  /\ 1 \in Run /\ 1 \in Content /\ Run \subseteq Nat
<1>1. MaxRuns \in Nat \ {0} /\ Cap \in Nat \ {0} /\ Contents \in Nat \ {0}
  BY FollowupAssumption
<1> QED BY <1>1 DEF Run, Content

(* An observation keeps a run in step with its goal, never makes or unmakes  *)
(* a pending run, and shows every Execution that weighs on the policy.       *)
LEMMA ObservedKeeps ==
  ASSUME TypeOK, Accounts, Coherent, NEW r \in Run
  PROVE  /\ Observed[r] \in RunRow
         /\ Consistent(Observed[r], r)
         /\ Observed[r].status = "none" <=> runs[r].status = "none"
         /\ Observed[r].status = "pending" <=> runs[r].status = "pending"
         /\ Burden(r) => Observed[r].status \in {"running", "needs_reconciliation"}
<1> DEFINE run == runs[r]
           g == goals[r]
           e == execs[r]
           o == Observed[r]
<1>1. run \in RunRow /\ g \in GoalRow /\ e \in ExecRow
  BY DEF TypeOK
<1>2. Consistent(run, r)
  BY DEF Coherent
<1>3. CASE run.status = "none" \/ (run.status = "cancelled" /\ ~run.started)
  <2>1. o = run
    BY <1>3 DEF Observed
  <2>2. g.startedAt = 0
    BY <1>2, <1>3 DEF Consistent
  <2>3. e = NoExec
    BY <2>2 DEF Accounts, Account
  <2>4. ~Burden(r)
    BY <2>3, ConstantTypes DEF Burden, Unsettled, NoExec
  <2> QED BY <2>1, <2>4, <1>1, <1>2
<1>4. CASE ~(run.status = "none" \/ (run.status = "cancelled" /\ ~run.started))
  <2> DEFINE seen == [run EXCEPT !.status = StatusByGoal(r), !.started = g.startedAt # 0,
                                 !.known = @ \/ g.usage = "settled",
                                 !.actual = IF g.usage = "settled" THEN g.actual ELSE @]
  <2>1. o = seen
    BY <1>4 DEF Observed
  <2>2. StatusByGoal(r) \in {"pending", "running", "awaiting_acceptance", "accepted", "failed",
                             "needs_reconciliation", "cancelled"}
    BY <1>1, <1>4 DEF StatusByGoal, RunRow, GoalRow
  <2>3. /\ o \in RunRow
        /\ o.status = StatusByGoal(r)
        /\ o.started = (g.startedAt # 0)
        /\ g.usage = "settled" => o.known /\ o.actual = g.actual
    BY <1>1, <2>1, <2>2 DEF RunRow, GoalRow
  <2>4. CASE g.startedAt = 0
    <3>1. ~run.started /\ run.status = "pending"
      BY <1>2, <1>4, <2>4 DEF Consistent
    <3>2. e = NoExec
      BY <2>4 DEF Accounts, Account
    <3>3. g.usage = "none"
      BY <2>4 DEF Accounts, Account
    <3>4. o.status = "pending"
      BY <2>3, <2>4, <3>1, <3>3 DEF StatusByGoal
    <3>5. Consistent(o, r)
      BY <1>2, <2>3, <2>4, <3>1, <3>4 DEF Consistent, Paid
    <3>6. ~Burden(r)
      BY <3>2, ConstantTypes DEF Burden, Unsettled, NoExec
    <3> QED BY <2>3, <3>1, <3>4, <3>5, <3>6
  <2>5. CASE g.startedAt # 0
    <3>1. run.started /\ run.status \notin {"none", "pending"}
      BY <1>2, <2>5 DEF Consistent
    <3>2. o.status # "pending" /\ o.status # "none"
      BY <2>2, <2>3, <2>5 DEF StatusByGoal
    <3>3. g.usage = "settled" =>
            e.status \in Terminal /\ ~e.open /\ g.actual = e.spent
      BY DEF Accounts, Account
    <3>4. o.status \in {"accepted", "cancelled", "failed", "awaiting_acceptance"} =>
            g.usage = "settled" /\ ~(g.actual > Cap)
      <4>1. g.status = "awaiting_acceptance" => g.usage = "settled"
        BY DEF Accounts, Account
      <4> QED BY <2>3, <2>5, <4>1 DEF StatusByGoal
    <3>5. Burden(r) => o.status \in {"running", "needs_reconciliation"}
      <4>1. o.status \in {"accepted", "cancelled", "failed", "awaiting_acceptance"} => ~Burden(r)
        BY <3>3, <3>4 DEF Burden, Unsettled
      <4> QED BY <4>1, <2>2, <2>3, <3>2
    <3>6. Paid(o, r)
      BY <3>3, <3>4, <2>3 DEF Paid, Unsettled
    <3>7. Consistent(o, r)
      BY <1>2, <2>3, <2>5, <3>1, <3>2, <3>6 DEF Consistent
    <3> QED BY <2>3, <3>1, <3>2, <3>5, <3>7
  <2> QED BY <2>4, <2>5
<1> QED BY <1>3, <1>4

LEMMA CancelledRun ==
  ASSUME NEW run \in RunRow
  PROVE  LET c == [run EXCEPT !.status = "cancelled", !.known = TRUE, !.actual = 0] IN
         c \in RunRow /\ c.status = "cancelled" /\ c.known /\ c.actual = 0 /\ c.started = run.started
<1> DEFINE c == [run EXCEPT !.status = "cancelled", !.known = TRUE, !.actual = 0]
<1>1. c.status = "cancelled" /\ c.known = TRUE /\ c.actual = 0 /\ c.started = run.started
  BY DEF RunRow
<1>2. c.known
  BY <1>1
<1>3. c \in RunRow
  BY DEF RunRow
<1> QED BY <1>1, <1>2, <1>3

(* A cancellation leaves nothing pending and changes no other run. *)
LEMMA CancelKeeps ==
  ASSUME TypeOK, Accounts, NEW rs \in [Run -> RunRow], NEW r \in Run, Consistent(rs[r], r)
  PROVE  LET c == PendingCancelled(rs)[r] IN
         /\ c \in RunRow
         /\ Consistent(c, r)
         /\ c.status # "pending"
         /\ c.status = "none" <=> rs[r].status = "none"
<1> DEFINE c == PendingCancelled(rs)[r]
<1>1. rs[r] \in RunRow
  OBVIOUS
<1>2. CASE rs[r].status = "pending"
  <2>1. ~rs[r].started
    BY <1>2 DEF Consistent
  <2>2. c = [rs[r] EXCEPT !.status = "cancelled", !.known = TRUE, !.actual = 0]
    BY <1>2, <2>1 DEF PendingCancelled
  <2>3. /\ c \in RunRow /\ c.status = "cancelled" /\ c.known /\ c.actual = 0
        /\ c.started = rs[r].started
    BY <1>1, <2>2, CancelledRun
  <2>4. goals[r].startedAt = 0
    BY <2>1 DEF Consistent
  <2>5. execs[r] = NoExec
    BY <2>4 DEF Accounts, Account
  <2>6. Consistent(c, r)
    BY <1>2, <2>1, <2>3, <2>5 DEF Consistent, Paid, Unsettled, NoExec
  <2> QED BY <1>2, <2>3, <2>6
<1>3. CASE rs[r].status # "pending"
  BY <1>3, <1>1 DEF PendingCancelled
<1> QED BY <1>2, <1>3

----------------------------------------------------------------------------
(* The parts of the invariant that relate runs, goals and Executions *)

Relations == Accounts /\ Coherent /\ OnePending /\ OneAtWork /\ MadeInOrder

(* A step that only brings runs up to date, or cancels them. *)
LEMMA RunsChange ==
  ASSUME IInv, UNCHANGED <<goals, execs>>,
         \A r \in Run :
           /\ Consistent(runs'[r], r)
           /\ runs'[r].status = "none" <=> runs[r].status = "none"
           /\ runs'[r].status = "pending" => runs[r].status = "pending"
  PROVE  Relations'
<1>1. Accounts'
  BY DEF IInv, Accounts, Account
<1>2. Coherent'
  BY DEF Coherent, Consistent, Paid, Unsettled
<1>3. \A r \in Run : Burden(r)' <=> Burden(r)
  BY DEF Burden, Unsettled
<1>4. OnePending' /\ OneAtWork'
  BY <1>3 DEF IInv, OnePending, OneAtWork
<1>5. Made' = Made
  BY DEF Made
<1>6. MadeInOrder'
  BY <1>5 DEF IInv, MadeInOrder
<1> QED BY <1>1, <1>2, <1>4, <1>6 DEF Relations

(* A step of one goal or its Execution, which does not start it. *)
LEMMA GoalChange ==
  ASSUME IInv, NEW r \in Run, UNCHANGED runs,
         \A q \in Run \ {r} : goals'[q] = goals[q] /\ execs'[q] = execs[q],
         goals'[r].startedAt = goals[r].startedAt,
         goals'[r].version \in Nat, goals[r].version \in Nat,
         goals'[r].version >= goals[r].version,
         Account(r)',
         Burden(r)' => Burden(r),
         runs[r].status # "none",
         ~Unsettled(r) => execs'[r].spent = execs[r].spent /\ ~Unsettled(r)'
  PROVE  Relations'
<1>1. Accounts'
  BY DEF IInv, Accounts, Account
<1>2. Coherent'
  <2> SUFFICES ASSUME NEW q \in Run
               PROVE  Consistent(runs[q], q)'
    BY DEF Coherent
  <2>1. Consistent(runs[q], q)
    BY DEF IInv, Coherent
  <2>2. CASE q = r
    <3>1. Paid(runs[q], q)'
      BY <2>1, <2>2 DEF Consistent, Paid
    <3> QED BY <2>1, <2>2, <3>1 DEF Consistent
  <2>3. CASE q # r
    BY <2>1, <2>3 DEF Consistent, Paid, Unsettled
  <2> QED BY <2>2, <2>3
<1>3. \A q \in Run : Burden(q)' => Burden(q)
  BY DEF Burden, Unsettled
<1>4. OnePending' /\ OneAtWork'
  BY <1>3 DEF IInv, OnePending, OneAtWork
<1>5. MadeInOrder'
  BY DEF IInv, MadeInOrder, Made
<1> QED BY <1>1, <1>2, <1>4, <1>5 DEF Relations

LEMMA BooksUnchanged ==
  ASSUME IInv, UNCHANGED books
  PROVE  Relations'
<1>1. \A r \in Run : Consistent(runs'[r], r)
  BY DEF IInv, Coherent, books
<1> QED BY <1>1, RunsChange DEF books

LEMMA ObserveStep ==
  ASSUME IInv, UNCHANGED <<goals, execs>>, runs' = Observed
  PROVE  Relations' /\ runs' \in [Run -> RunRow] /\ Pending(runs') = Pending(runs)
<1>1. \A r \in Run : /\ Observed[r] \in RunRow
                     /\ Consistent(Observed[r], r)
                     /\ Observed[r].status = "none" <=> runs[r].status = "none"
                     /\ Observed[r].status = "pending" <=> runs[r].status = "pending"
  BY ObservedKeeps DEF IInv
<1>2. runs' \in [Run -> RunRow]
  BY <1>1 DEF Observed
<1>3. Pending(runs') = Pending(runs)
  BY <1>1 DEF Pending
<1> QED BY <1>1, <1>2, <1>3, RunsChange

LEMMA CancelStep ==
  ASSUME IInv, UNCHANGED <<goals, execs>>, runs' = PendingCancelled(runs)
  PROVE  Relations' /\ runs' \in [Run -> RunRow] /\ Pending(runs') = {}
<1>1. runs \in [Run -> RunRow] /\ (\A r \in Run : Consistent(runs[r], r)) /\ TypeOK /\ Accounts
  BY DEF IInv, TypeOK, Coherent
<1>2. \A r \in Run : LET c == PendingCancelled(runs)[r] IN
         /\ c \in RunRow
         /\ Consistent(c, r)
         /\ c.status # "pending"
         /\ c.status = "none" <=> runs[r].status = "none"
  BY <1>1, CancelKeeps
<1>3. runs' \in [Run -> RunRow]
  BY <1>2 DEF PendingCancelled
<1>4. Pending(runs') = {}
  BY <1>2 DEF Pending
<1> QED BY <1>2, <1>3, <1>4, RunsChange

LEMMA ObserveAndCancelStep ==
  ASSUME IInv, UNCHANGED <<goals, execs>>, runs' = PendingCancelled(Observed)
  PROVE  Relations' /\ runs' \in [Run -> RunRow] /\ Pending(runs') = {}
<1>1. TypeOK /\ Accounts
  BY DEF IInv
<1>2. \A r \in Run : /\ Observed[r] \in RunRow
                     /\ Consistent(Observed[r], r)
                     /\ Observed[r].status = "none" <=> runs[r].status = "none"
  BY ObservedKeeps DEF IInv
<1>3. Observed \in [Run -> RunRow]
  BY <1>2 DEF Observed
<1>4. \A r \in Run : LET c == PendingCancelled(Observed)[r] IN
         /\ c \in RunRow
         /\ Consistent(c, r)
         /\ c.status # "pending"
         /\ c.status = "none" <=> Observed[r].status = "none"
  BY <1>1, <1>2, <1>3, CancelKeeps
<1>5. runs' \in [Run -> RunRow]
  BY <1>4 DEF PendingCancelled
<1>6. Pending(runs') = {}
  BY <1>4 DEF Pending
<1> QED BY <1>2, <1>4, <1>5, <1>6, RunsChange

----------------------------------------------------------------------------
(* A claim *)

(* The next run has not been used: runs are made in the order of their numbers. *)
LEMMA NextRun ==
  ASSUME IInv, Cardinality(Made) < MaxRuns
  PROVE  LET r == Cardinality(Made) + 1 IN
         /\ r \in Run /\ runs[r].status = "none"
         /\ Made \cup {r} = 1..r /\ r \in 0..MaxRuns
<1>1. PICK n \in 0..MaxRuns : Made = 1..n
  BY DEF IInv, MadeInOrder
<1>2. MaxRuns \in Nat /\ n \in Nat
  BY ConstantTypes
<1>3. Cardinality(Made) = n
  BY <1>1, <1>2, FS_Interval
<1>4. n + 1 \in Run /\ n + 1 \notin Made
  BY <1>1, <1>2, <1>3 DEF Run
<1>5. runs[n + 1].status = "none"
  BY <1>4 DEF Made
<1>6. (1..n) \cup {n + 1} = 1..(n + 1) /\ n + 1 \in 0..MaxRuns
  BY <1>2, <1>3
<1> QED BY <1>1, <1>3, <1>4, <1>5, <1>6

LEMMA DraftGoal ==
  ASSUME NEW goal \in GoalRow
  PROVE  LET c == [goal EXCEPT !.status = "draft", !.version = 1] IN
         /\ c \in GoalRow /\ c.status = "draft" /\ c.version = 1
         /\ c.startedAt = goal.startedAt /\ c.usage = goal.usage
BY DEF GoalRow

LEMMA ClaimChangeStep ==
  ASSUME IInv, NEW s \in Scheduler, ClaimChange(s), UNCHANGED execs
  PROVE  Relations' /\ runs' \in [Run -> RunRow] /\ goals' \in [Run -> GoalRow]
<1> DEFINE r == Cardinality(Made) + 1
           row == [NoRun EXCEPT !.status = "pending", !.period = period, !.source = ledger.version]
           draft == [NoGoal EXCEPT !.status = "draft", !.version = 1]
<1>1. /\ runs' = [Observed EXCEPT ![r] = row]
      /\ goals' = [goals EXCEPT ![r] = draft]
      /\ Pending(Observed) = {} /\ AtWork(Observed) = {}
      /\ Cardinality(Made) < MaxRuns
  BY DEF ClaimChange
<1>2. /\ r \in Run /\ runs[r].status = "none"
      /\ Made \cup {r} = 1..r /\ r \in 0..MaxRuns
  BY <1>1, NextRun
<1> HIDE DEF r
<1>3. /\ row.status = "pending" /\ ~row.started
      /\ draft.status = "draft" /\ draft.version = 1 /\ draft.startedAt = 0 /\ draft.usage = "none"
      /\ row \in RunRow /\ draft \in GoalRow
  <2>1. NoRun \in RunRow /\ NoRun.started = FALSE
    BY DEF NoRun, RunRow
  <2>2. NoGoal \in GoalRow /\ NoGoal.startedAt = 0 /\ NoGoal.usage = "none"
    BY DEF NoGoal, GoalRow
  <2>3. period \in Nat \ {0} /\ ledger.version \in Nat \ {0}
    BY DEF IInv, TypeOK
  <2>4. row \in RunRow /\ row.status = "pending" /\ row.started = FALSE
    BY <2>1, <2>3 DEF RunRow
  <2>5. /\ draft \in GoalRow /\ draft.status = "draft" /\ draft.version = 1
        /\ draft.startedAt = 0 /\ draft.usage = "none"
    BY <2>2, DraftGoal
  <2> QED BY <2>4, <2>5
<1> HIDE DEF row, draft
<1>5. \A q \in Run : /\ Observed[q] \in RunRow
                     /\ Consistent(Observed[q], q)
                     /\ Observed[q].status = "none" <=> runs[q].status = "none"
                     /\ Observed[q].status \notin {"pending", "running", "needs_reconciliation"}
                     /\ ~Burden(q)
  <2> SUFFICES ASSUME NEW q \in Run
               PROVE  /\ Observed[q] \in RunRow
                      /\ Consistent(Observed[q], q)
                      /\ Observed[q].status = "none" <=> runs[q].status = "none"
                      /\ Observed[q].status \notin {"pending", "running", "needs_reconciliation"}
                      /\ ~Burden(q)
    OBVIOUS
  <2>1. Observed[q].status \notin {"pending", "running", "needs_reconciliation"}
    BY <1>1 DEF Pending, AtWork
  <2> QED BY <2>1, ObservedKeeps DEF IInv
<1>6. Observed \in [Run -> RunRow] /\ goals \in [Run -> GoalRow]
  BY <1>5 DEF Observed, IInv, TypeOK
<1>7. runs' \in [Run -> RunRow] /\ goals' \in [Run -> GoalRow]
  BY <1>1, <1>2, <1>3, <1>6
<1>8. /\ runs'[r] = row /\ goals'[r] = draft
      /\ \A q \in Run \ {r} : runs'[q] = Observed[q] /\ goals'[q] = goals[q]
  BY <1>1, <1>2, <1>6
<1>9. goals[r].startedAt = 0 /\ execs[r] = NoExec
  <2>1. goals[r] = NoGoal
    BY <1>2 DEF IInv, Coherent, Consistent
  <2> QED BY <2>1, <1>2 DEF IInv, Accounts, Account, NoGoal
<1>10. Accounts'
  <2> SUFFICES ASSUME NEW q \in Run
               PROVE  Account(q)'
    BY DEF Accounts
  <2>1. CASE q = r
    BY <2>1, <1>3, <1>8, <1>9 DEF Account, NoExec
  <2>2. CASE q # r
    BY <2>2, <1>8 DEF IInv, Accounts, Account
  <2> QED BY <2>1, <2>2
<1>11. Coherent'
  <2> SUFFICES ASSUME NEW q \in Run
               PROVE  Consistent(runs[q], q)'
    BY DEF Coherent
  <2>1. CASE q = r
    BY <2>1, <1>3, <1>8 DEF Consistent, Paid
  <2>2. CASE q # r
    BY <2>2, <1>5, <1>8 DEF Consistent, Paid, Unsettled
  <2> QED BY <2>1, <2>2
<1>12. \A q \in Run : ~Burden(q)'
  BY <1>5 DEF Burden, Unsettled
<1>13. \A q \in Run \ {r} : runs'[q].status # "pending"
  BY <1>5, <1>8
<1>14. OnePending' /\ OneAtWork'
  BY <1>12, <1>13 DEF OnePending, OneAtWork
<1>15. Made' = Made \cup {r}
  <2>1. runs'[r].status # "none"
    BY <1>3, <1>8
  <2>2. \A q \in Run \ {r} : runs'[q].status = "none" <=> runs[q].status = "none"
    BY <1>5, <1>8
  <2> QED BY <1>2, <2>1, <2>2 DEF Made
<1>16. MadeInOrder'
  BY <1>2, <1>15 DEF MadeInOrder
<1> QED BY <1>7, <1>10, <1>11, <1>14, <1>16 DEF Relations

(* Where a scheduler goes keeps its row well typed. *)
LEMMA SchedulerMoves ==
  ASSUME TypeOK, NEW s \in Scheduler
  PROVE  /\ Return(s) => sched' \in [Scheduler -> SchedulerRow]
         /\ \A r \in Run : Take(s, r) => sched' \in [Scheduler -> SchedulerRow]
         /\ \A pc \in {"check", "propose", "prepare", "start", "refused", "expired"} :
              Goto(s, pc) => sched' \in [Scheduler -> SchedulerRow]
         /\ \A v \in Nat : sched' = [sched EXCEPT ![s].pc = "prepare", ![s].version = v]
                            => sched' \in [Scheduler -> SchedulerRow]
<1>1. sched \in [Scheduler -> SchedulerRow] /\ 1 \in Run
  BY ConstantTypes DEF TypeOK
<1>2. Idle \in SchedulerRow
  BY <1>1 DEF Idle, SchedulerRow
<1>3. Return(s) => sched' \in [Scheduler -> SchedulerRow]
  BY <1>1, <1>2 DEF Return
<1>4. \A r \in Run : Take(s, r) => sched' \in [Scheduler -> SchedulerRow]
  <2> SUFFICES ASSUME NEW r \in Run, Take(s, r)
               PROVE  sched' \in [Scheduler -> SchedulerRow]
    OBVIOUS
  <2>1. [Idle EXCEPT !.pc = "read", !.run = r] \in SchedulerRow
    BY <1>2 DEF SchedulerRow
  <2> QED BY <1>1, <2>1 DEF Take
<1>5. \A pc \in {"check", "propose", "prepare", "start", "refused", "expired"} :
       Goto(s, pc) => sched' \in [Scheduler -> SchedulerRow]
  BY <1>1 DEF Goto, SchedulerRow
<1>6. \A v \in Nat : sched' = [sched EXCEPT ![s].pc = "prepare", ![s].version = v]
                     => sched' \in [Scheduler -> SchedulerRow]
  <2> SUFFICES ASSUME NEW v \in Nat, sched' = [sched EXCEPT ![s].pc = "prepare", ![s].version = v]
               PROVE  sched' \in [Scheduler -> SchedulerRow]
    OBVIOUS
  <2>1. sched' = [sched EXCEPT ![s] = [sched[s] EXCEPT !.pc = "prepare", !.version = v]]
    BY <1>1
  <2>2. [sched[s] EXCEPT !.pc = "prepare", !.version = v] \in SchedulerRow
    BY <1>1 DEF SchedulerRow
  <2> QED BY <1>1, <2>1, <2>2
<1> QED BY <1>3, <1>4, <1>5, <1>6

LEMMA ClaimStep ==
  ASSUME IInv, NEW s \in Scheduler, Claim(s)
  PROVE  IInv'
<1>1. /\ UNCHANGED <<execs, events, grant, ledger, period>>
      /\ TypeOK /\ NothingLeftToStart
  BY DEF Claim, owner, IInv
<1>2. CASE ClaimNothing(s)
  <2>1. runs' = Observed /\ UNCHANGED <<policy, cursor, goals, sched>>
    BY <1>2 DEF ClaimNothing, JustObserve
  <2>2. Relations' /\ runs' \in [Run -> RunRow] /\ Pending(runs') = Pending(runs)
    BY <1>1, <2>1, ObserveStep
  <2>3. TypeOK'
    BY <1>1, <2>1, <2>2 DEF TypeOK
  <2>4. NothingLeftToStart'
    BY <1>1, <2>1, <2>2 DEF NothingLeftToStart
  <2> QED BY <2>2, <2>3, <2>4 DEF IInv, Relations
<1>3. CASE ClaimInvalidates(s)
  <2>1. /\ runs' = PendingCancelled(Observed) /\ UNCHANGED <<cursor, goals, sched>>
        /\ policy' \in PolicyStatus
    BY <1>3 DEF ClaimInvalidates, Invalidate, PolicyStatus
  <2>2. Relations' /\ runs' \in [Run -> RunRow] /\ Pending(runs') = {}
    BY <1>1, <2>1, ObserveAndCancelStep
  <2>3. TypeOK'
    BY <1>1, <2>1, <2>2 DEF TypeOK
  <2>4. NothingLeftToStart'
    BY <2>2 DEF NothingLeftToStart
  <2> QED BY <2>2, <2>3, <2>4 DEF IInv, Relations
<1>4. CASE ClaimPending(s)
  <2>1. runs' = Observed /\ UNCHANGED <<policy, cursor, goals>>
    BY <1>4 DEF ClaimPending
  <2>2. Relations' /\ runs' \in [Run -> RunRow] /\ Pending(runs') = Pending(runs)
    BY <1>1, <2>1, ObserveStep
  <2>3. sched' \in [Scheduler -> SchedulerRow]
    BY <1>1, <1>4, SchedulerMoves DEF ClaimPending, Pending
  <2>4. TypeOK'
    BY <1>1, <2>1, <2>2, <2>3 DEF TypeOK
  <2>5. NothingLeftToStart'
    BY <1>1, <2>1, <2>2 DEF NothingLeftToStart
  <2> QED BY <2>2, <2>4, <2>5 DEF IInv, Relations
<1>5. CASE Exhaust(s)
  <2>1. /\ runs' = Observed /\ UNCHANGED <<cursor, goals, sched>>
        /\ policy' = "exhausted" /\ Pending(Observed) = {}
    BY <1>5 DEF Exhaust
  <2>2. Relations' /\ runs' \in [Run -> RunRow]
    BY <1>1, <2>1, ObserveStep
  <2>3. TypeOK'
    BY <1>1, <2>1, <2>2 DEF TypeOK, PolicyStatus
  <2>4. NothingLeftToStart'
    BY <2>1 DEF NothingLeftToStart
  <2> QED BY <2>2, <2>3, <2>4 DEF IInv, Relations
<1>6. CASE ClaimChange(s)
  <2>1. Relations' /\ runs' \in [Run -> RunRow] /\ goals' \in [Run -> GoalRow]
    BY <1>1, <1>6, ClaimChangeStep
  <2>2. policy' = policy /\ policy = "active" /\ cursor' = ledger.content
    BY <1>6 DEF ClaimChange
  <2>3. sched' \in [Scheduler -> SchedulerRow]
    <3>1. Take(s, Cardinality(Made) + 1) /\ Cardinality(Made) + 1 \in Run
      BY <1>6, NextRun DEF ClaimChange
    <3> QED BY <3>1, <1>1, SchedulerMoves
  <2>4. TypeOK'
    BY <1>1, <2>1, <2>2, <2>3 DEF TypeOK
  <2>5. NothingLeftToStart'
    BY <2>2 DEF NothingLeftToStart, Closed
  <2> QED BY <2>1, <2>4, <2>5 DEF IInv, Relations
<1> QED BY <1>2, <1>3, <1>4, <1>5, <1>6 DEF Claim

----------------------------------------------------------------------------
(* A dispatch *)

LEMMA StartedRun ==
  ASSUME NEW run \in RunRow
  PROVE  LET c == [run EXCEPT !.status = "running", !.started = TRUE] IN
         c \in RunRow /\ c.status = "running" /\ c.started
<1> DEFINE c == [run EXCEPT !.status = "running", !.started = TRUE]
<1>1. c.status = "running" /\ c.started = TRUE
  BY DEF RunRow
<1>2. c.started
  BY <1>1
<1>3. c \in RunRow
  BY DEF RunRow
<1> QED BY <1>1, <1>2, <1>3

(* The goal, its Execution and its run start together, while no other        *)
(* Execution weighs on the policy.                                           *)
LEMMA StartStep ==
  ASSUME IInv, NEW s \in Scheduler, Start(s)
  PROVE  IInv'
<1> DEFINE r == sched[s].run
<1>1. r \in Run /\ runs \in [Run -> RunRow] /\ goals \in [Run -> GoalRow] /\ execs \in [Run -> ExecRow]
  BY DEF IInv, TypeOK, SchedulerRow
<1>2. /\ goals[r].startedAt = 0 /\ runs[r].status = "pending" /\ policy = "active"
      /\ goals' = [goals EXCEPT ![r].status = "running", ![r].version = @ + 1,
                                ![r].startedAt = goals[r].version, ![r].usage = "reserved"]
      /\ execs' = [execs EXCEPT ![r].status = "running"]
      /\ runs' = [runs EXCEPT ![r].status = "running", ![r].started = TRUE]
      /\ UNCHANGED <<policy, cursor, events, grant, ledger, period>>
  BY DEF Start, owner
<1> HIDE DEF r
<1>3. /\ goals' \in [Run -> GoalRow]
      /\ goals'[r].status = "running" /\ goals'[r].version = goals[r].version + 1
      /\ goals'[r].startedAt = goals[r].version /\ goals'[r].usage = "reserved"
      /\ \A q \in Run \ {r} : goals'[q] = goals[q]
  BY <1>1, <1>2 DEF GoalRow
<1>4. /\ execs' \in [Run -> ExecRow] /\ execs'[r].status = "running"
      /\ \A q \in Run \ {r} : execs'[q] = execs[q]
  BY <1>1, <1>2 DEF ExecRow
<1>5. /\ runs' \in [Run -> RunRow] /\ runs'[r].status = "running" /\ runs'[r].started
      /\ \A q \in Run \ {r} : runs'[q] = runs[q]
  <2> DEFINE row == [runs[r] EXCEPT !.status = "running", !.started = TRUE]
  <2>1. runs' = [runs EXCEPT ![r] = row]
    BY <1>1, <1>2
  <2>2. row \in RunRow /\ row.status = "running" /\ row.started
    <3>1. runs[r] \in RunRow
      BY <1>1
    <3> QED BY <3>1, StartedRun
  <2> HIDE DEF row
  <2> QED BY <1>1, <2>1, <2>2
<1>6. Consistent(runs[r], r) /\ Account(r)
  BY <1>1 DEF IInv, Coherent, Accounts
<1>7. goals[r].version \in Nat \ {0}
  BY <1>1, <1>2, <1>6 DEF Consistent, GoalRow
<1>8. \A q \in Run \ {r} : ~Burden(q) /\ runs[q].status # "pending"
  BY <1>1, <1>2 DEF IInv, OnePending
<1>9. Accounts'
  <2> SUFFICES ASSUME NEW q \in Run
               PROVE  Account(q)'
    BY DEF Accounts
  <2>1. CASE q = r
    BY <2>1, <1>3, <1>4, <1>7 DEF Account
  <2>2. CASE q # r
    BY <2>2, <1>3, <1>4 DEF IInv, Accounts, Account
  <2> QED BY <2>1, <2>2
<1>10. Coherent'
  <2> SUFFICES ASSUME NEW q \in Run
               PROVE  Consistent(runs[q], q)'
    BY DEF Coherent
  <2>1. CASE q = r
    BY <2>1, <1>3, <1>5, <1>7 DEF Consistent, Paid
  <2>2. CASE q # r
    BY <2>2, <1>3, <1>4, <1>5 DEF IInv, Coherent, Consistent, Paid, Unsettled
  <2> QED BY <2>1, <2>2
<1>11. \A q \in Run \ {r} : ~Burden(q)' /\ runs'[q].status # "pending"
  BY <1>4, <1>5, <1>8 DEF Burden, Unsettled
<1>12. OnePending' /\ OneAtWork'
  BY <1>5, <1>11 DEF OnePending, OneAtWork
<1>13. Made' = Made
  <2>1. \A q \in Run : runs'[q].status = "none" <=> runs[q].status = "none"
    BY <1>2, <1>5
  <2> QED BY <2>1 DEF Made
<1>14. MadeInOrder'
  BY <1>13 DEF IInv, MadeInOrder
<1>15. sched' \in [Scheduler -> SchedulerRow]
  BY SchedulerMoves DEF IInv, Start
<1>16. TypeOK'
  BY <1>2, <1>3, <1>4, <1>5, <1>15 DEF IInv, TypeOK
<1>17. NothingLeftToStart'
  BY <1>2 DEF NothingLeftToStart, Closed
<1> QED BY <1>9, <1>10, <1>12, <1>14, <1>16, <1>17 DEF IInv

(* Steps that leave the books alone and reopen nothing. *)
LEMMA BooksStep ==
  ASSUME IInv, UNCHANGED books, TypeOK', policy' \in Closed => policy \in Closed
  PROVE  IInv'
<1>1. Relations'
  BY BooksUnchanged
<1>2. NothingLeftToStart'
  BY DEF IInv, NothingLeftToStart, books
<1> QED BY <1>1, <1>2 DEF IInv, Relations

LEMMA PlannedGoal ==
  ASSUME NEW goal \in GoalRow
  PROVE  LET c == [goal EXCEPT !.status = "awaiting_authorization", !.version = 2, !.planned = TRUE]
         IN  /\ c \in GoalRow
             /\ c.status = "awaiting_authorization" /\ c.version = 2
             /\ c.startedAt = goal.startedAt /\ c.usage = goal.usage /\ c.actual = goal.actual
BY DEF GoalRow

LEMMA ProposeStep ==
  ASSUME IInv, NEW s \in Scheduler, Propose(s)
  PROVE  IInv'
<1> PICK r \in Run : r = sched[s].run
  BY DEF IInv, TypeOK, SchedulerRow
<1>1. runs \in [Run -> RunRow] /\ goals \in [Run -> GoalRow] /\ TypeOK
  BY DEF IInv, TypeOK
<1>2. UNCHANGED <<runs, policy, cursor, execs, events, grant, ledger, period>>
  BY DEF Propose, Unchanged, owner
<1>3. sched' \in [Scheduler -> SchedulerRow]
  BY <1>1, SchedulerMoves DEF Propose
<1>4. CASE UNCHANGED goals
  <2>1. TypeOK'
    BY <1>1, <1>2, <1>3, <1>4 DEF TypeOK
  <2> QED BY <1>2, <1>4, <2>1, BooksStep DEF books
<1>5. CASE /\ goals[r].version = 1
           /\ goals' = [goals EXCEPT ![r].status = "awaiting_authorization",
                                     ![r].version = 2, ![r].planned = TRUE]
  <2>0. goals[r].version = 1
    BY <1>5
  <2>1. /\ goals' = [goals EXCEPT ![r] = [goals[r] EXCEPT !.status = "awaiting_authorization",
                                                         !.version = 2, !.planned = TRUE]]
        /\ goals[r] \in GoalRow
    BY <1>1, <1>5
  <2>2. /\ goals' \in [Run -> GoalRow]
        /\ goals'[r].status = "awaiting_authorization" /\ goals'[r].version = 2
        /\ goals'[r].startedAt = goals[r].startedAt /\ goals'[r].usage = goals[r].usage
        /\ goals'[r].actual = goals[r].actual
        /\ \A q \in Run \ {r} : goals'[q] = goals[q]
    BY <1>1, <2>1, PlannedGoal
  <2>3. Consistent(runs[r], r) /\ Account(r)
    BY <1>1 DEF IInv, Coherent, Accounts
  <2>4. runs[r].status # "none"
    BY <2>0, <2>3 DEF Consistent, NoGoal
  <2>5. Account(r)'
    <3>1. goals[r].startedAt = 0
      BY <1>1, <2>0, <2>3 DEF Account, GoalRow
    <3> QED BY <1>2, <2>2, <2>3, <3>1 DEF Account
  <2>6. Relations'
    <3>1. execs'[r] = execs[r] /\ (Burden(r)' => Burden(r)) /\ (~Unsettled(r) => ~Unsettled(r)')
      BY <1>2 DEF Burden, Unsettled
    <3>2. \A q \in Run \ {r} : goals'[q] = goals[q] /\ execs'[q] = execs[q]
      BY <1>2, <2>2
    <3>3. goals'[r].version \in Nat /\ goals[r].version \in Nat /\ goals'[r].version >= goals[r].version
      BY <2>0, <2>2
    <3> QED BY <1>1, <1>2, <2>2, <2>4, <2>5, <3>1, <3>2, <3>3, GoalChange
  <2>7. TypeOK'
    BY <1>1, <1>2, <1>3, <2>2 DEF TypeOK
  <2>8. NothingLeftToStart'
    BY <1>2 DEF IInv, NothingLeftToStart
  <2> QED BY <2>6, <2>7, <2>8 DEF IInv, Relations
<1> QED BY <1>4, <1>5 DEF Propose

LEMMA DispatchStep ==
  ASSUME IInv, NEW s \in Scheduler, Dispatch(s)
  PROVE  IInv'
<1>1. TypeOK /\ sched[s].run \in Run /\ goals[sched[s].run].version \in Nat
  BY DEF IInv, TypeOK, SchedulerRow, GoalRow
<1>2. ASSUME UNCHANGED <<runs, goals, policy, cursor, execs, events, grant, ledger, period>>,
             sched' \in [Scheduler -> SchedulerRow]
      PROVE  IInv'
  <2>1. TypeOK'
    BY <1>1, <1>2 DEF TypeOK
  <2> QED BY <1>2, <2>1, BooksStep DEF books
<1>3. CASE Read(s)
  <2>1. UNCHANGED <<runs, goals, policy, cursor, execs, events, grant, ledger, period>>
    BY <1>3 DEF Read, Unchanged, owner
  <2>2. sched' \in [Scheduler -> SchedulerRow]
    BY <1>1, <1>3, SchedulerMoves DEF Read
  <2> QED BY <1>2, <2>1, <2>2
<1>4. CASE Denied(s)
  <2>1. UNCHANGED <<runs, goals, policy, cursor, execs, events, grant, ledger, period>>
    BY <1>4 DEF Denied, Unchanged, owner
  <2>2. sched' \in [Scheduler -> SchedulerRow]
    BY <1>1, <1>4, SchedulerMoves DEF Denied
  <2> QED BY <1>2, <2>1, <2>2
<1>5. CASE CheckPolicy(s)
  <2>1. UNCHANGED <<runs, goals, policy, cursor, execs, events, grant, ledger, period>>
    BY <1>5 DEF CheckPolicy, Unchanged, owner
  <2>2. sched' \in [Scheduler -> SchedulerRow]
    BY <1>1, <1>5, SchedulerMoves DEF CheckPolicy, Refusal
  <2> QED BY <1>2, <2>1, <2>2
<1>6. CASE Propose(s)
  BY <1>6, ProposeStep
<1>7. CASE Prepare(s)
  <2>1. UNCHANGED <<runs, goals, policy, cursor, execs, events, grant, ledger, period>>
    BY <1>7 DEF Prepare, Unchanged, owner
  <2>2. sched' \in [Scheduler -> SchedulerRow]
    BY <1>1, <1>7, SchedulerMoves DEF Prepare
  <2> QED BY <1>2, <2>1, <2>2
<1>8. CASE Start(s)
  BY <1>8, StartStep
<1>9. CASE StartFails(s)
  <2>1. UNCHANGED <<runs, goals, policy, cursor, execs, events, grant, ledger, period>>
    BY <1>9 DEF StartFails, Unchanged, owner
  <2>2. \/ Return(s)
        \/ \E pc \in {"refused", "expired"} : Goto(s, pc)
    BY <1>9 DEF StartFails, Refusal
  <2>3. sched' \in [Scheduler -> SchedulerRow]
    BY <1>1, <2>2, SchedulerMoves
  <2> QED BY <1>2, <2>1, <2>3
<1>10. CASE Refuse(s)
  <2>1. /\ runs' = PendingCancelled(Observed)
        /\ UNCHANGED <<cursor, goals, execs, events, grant, ledger, period>>
        /\ policy' \in {policy, "expired", "invalidated"}
        /\ Return(s)
    BY <1>10 DEF Refuse, owner
  <2>2. Relations' /\ runs' \in [Run -> RunRow] /\ Pending(runs') = {}
    BY <2>1, ObserveAndCancelStep
  <2>3. sched' \in [Scheduler -> SchedulerRow]
    BY <1>1, <2>1, SchedulerMoves
  <2>4. TypeOK'
    BY <1>1, <2>1, <2>2, <2>3 DEF TypeOK, PolicyStatus
  <2>5. NothingLeftToStart'
    BY <2>2 DEF NothingLeftToStart
  <2> QED BY <2>2, <2>4, <2>5 DEF IInv, Relations
<1>11. CASE RefuseExecutor(s)
  <2>1. UNCHANGED <<runs, goals, policy, cursor, execs, events, grant, ledger, period>>
    BY <1>11 DEF RefuseExecutor, Unchanged, owner
  <2>2. sched' \in [Scheduler -> SchedulerRow]
    BY <1>1, <1>11, SchedulerMoves DEF RefuseExecutor
  <2> QED BY <1>2, <2>1, <2>2
<1> QED BY <1>3, <1>4, <1>5, <1>6, <1>7, <1>8, <1>9, <1>10, <1>11 DEF Dispatch

----------------------------------------------------------------------------
(* The owner, the ledger and the clock *)

LEMMA OwnerStep ==
  ASSUME IInv, CommandFollowup \/ RecordBusiness \/ LoseGrant \/ NewPeriod
  PROVE  IInv'
<1>1. TypeOK
  BY DEF IInv
<1>2. CASE CommandFollowup
  <2>1. /\ UNCHANGED <<grant, ledger, cursor, period, goals, execs, sched>>
        /\ events' = events + 1
    BY <1>2 DEF CommandFollowup, Event
  <2>2. CASE Pause \/ Resume
    <3>1. UNCHANGED runs /\ policy' \in {"paused", "active"}
      BY <2>2 DEF Pause, Resume
    <3>2. TypeOK'
      BY <1>1, <2>1, <3>1 DEF TypeOK, PolicyStatus
    <3> QED BY <2>1, <3>1, <3>2, BooksStep DEF books, Closed
  <2>3. CASE Stop
    <3>1. runs' = PendingCancelled(runs) /\ policy' = "stopped"
      BY <2>3 DEF Stop
    <3>2. Relations' /\ runs' \in [Run -> RunRow] /\ Pending(runs') = {}
      BY <2>1, <3>1, CancelStep
    <3>3. TypeOK'
      BY <1>1, <2>1, <3>1, <3>2 DEF TypeOK, PolicyStatus
    <3>4. NothingLeftToStart'
      BY <3>2 DEF NothingLeftToStart
    <3> QED BY <3>2, <3>3, <3>4 DEF IInv, Relations
  <2> QED BY <1>2, <2>2, <2>3 DEF CommandFollowup
<1>3. CASE RecordBusiness
  <2>1. UNCHANGED <<policy, grant, cursor, period, books, sched, events>>
    BY <1>3 DEF RecordBusiness
  <2>2. ledger' \in [version : Nat \ {0}, content : Content]
    BY <1>1, <1>3 DEF RecordBusiness, TypeOK
  <2>3. TypeOK'
    BY <1>1, <2>1, <2>2 DEF TypeOK, books
  <2> QED BY <2>1, <2>3, BooksStep
<1>4. CASE LoseGrant
  <2>1. TypeOK'
    BY <1>1, <1>4 DEF LoseGrant, Event, TypeOK, books
  <2> QED BY <1>4, <2>1, BooksStep DEF LoseGrant
<1>5. CASE NewPeriod
  <2>1. TypeOK'
    BY <1>1, <1>5 DEF NewPeriod, Event, TypeOK, books
  <2> QED BY <1>5, <2>1, BooksStep DEF NewPeriod
<1> QED BY <1>2, <1>3, <1>4, <1>5

----------------------------------------------------------------------------
(* One goal and its Execution *)

(* What every goal step needs of the goal that it is about. *)
LEMMA GoalFacts ==
  ASSUME IInv, NEW r \in Run
  PROVE  /\ runs[r] \in RunRow /\ goals[r] \in GoalRow /\ execs[r] \in ExecRow
         /\ goals[r].version \in Nat /\ goals[r].startedAt \in Nat /\ execs[r].spent \in Nat
         /\ Account(r)
         /\ goals[r].status # "none" => runs[r].status # "none"
         /\ execs[r].status # "none" => runs[r].status # "none"
<1>1. runs[r] \in RunRow /\ goals[r] \in GoalRow /\ execs[r] \in ExecRow
  BY DEF IInv, TypeOK
<1>2. goals[r].version \in Nat /\ goals[r].startedAt \in Nat /\ execs[r].spent \in Nat
  BY <1>1 DEF GoalRow, ExecRow
<1>3. Account(r) /\ Consistent(runs[r], r)
  BY DEF IInv, Accounts, Coherent
<1>4. runs[r].status = "none" => goals[r] = NoGoal
  BY <1>3 DEF Consistent
<1>5. runs[r].status = "none" => goals[r].status = "none" /\ goals[r].startedAt = 0
  BY <1>4 DEF NoGoal
<1> QED BY <1>1, <1>2, <1>3, <1>5 DEF Account

LEMMA PlanGoalStep ==
  ASSUME IInv, NEW r \in Run, PlanGoal(r)
  PROVE  IInv'
<1>1. /\ goals[r].status \in {"draft", "awaiting_authorization"}
      /\ goals' = [goals EXCEPT ![r].status = "awaiting_authorization", ![r].version = @ + 1]
      /\ events' = events + 1
      /\ UNCHANGED <<policy, grant, ledger, cursor, period, runs, execs, sched>>
  BY DEF PlanGoal, Event
<1>2. goals \in [Run -> GoalRow] /\ TypeOK
  BY DEF IInv, TypeOK
<1>3. /\ goals' \in [Run -> GoalRow]
      /\ goals'[r].status = "awaiting_authorization" /\ goals'[r].version = goals[r].version + 1
      /\ goals'[r].startedAt = goals[r].startedAt /\ goals'[r].usage = goals[r].usage
      /\ goals'[r].actual = goals[r].actual
      /\ \A q \in Run \ {r} : goals'[q] = goals[q]
  BY <1>1, <1>2 DEF GoalRow
<1>4. Account(r)' /\ runs[r].status # "none"
  BY <1>1, <1>3, GoalFacts DEF Account
<1>5. execs'[r] = execs[r] /\ (Burden(r)' => Burden(r)) /\ (~Unsettled(r) => ~Unsettled(r)')
  BY <1>1 DEF Burden, Unsettled
<1>6. goals'[r].version \in Nat /\ goals[r].version \in Nat /\ goals'[r].version >= goals[r].version
  BY <1>3, GoalFacts
<1>7. \A q \in Run \ {r} : goals'[q] = goals[q] /\ execs'[q] = execs[q]
  BY <1>1, <1>3
<1>8. Relations'
  BY <1>1, <1>3, <1>4, <1>5, <1>6, <1>7, GoalChange
<1>9. TypeOK'
  BY <1>1, <1>2, <1>3 DEF TypeOK
<1>10. NothingLeftToStart'
  BY <1>1 DEF IInv, NothingLeftToStart
<1> QED BY <1>8, <1>9, <1>10 DEF IInv, Relations

LEMMA CancelGoalStep ==
  ASSUME IInv, NEW r \in Run, CancelGoal(r)
  PROVE  IInv'
<1> DEFINE status == IF goals[r].startedAt = 0 \/ goals[r].usage = "settled"
                     THEN "cancelled" ELSE "needs_reconciliation"
           version == IF goals[r].startedAt = 0 THEN goals[r].version + 1 ELSE goals[r].version
           ended == IF execs[r].status \in {"running", "interrupted"} THEN "cancelled" ELSE execs[r].status
<1>1. /\ goals[r].status # "none"
      /\ goals' = [goals EXCEPT ![r].status = status, ![r].cancelling = TRUE, ![r].version = version]
      /\ execs' = [execs EXCEPT ![r].status = ended]
      /\ events' = events + 1
      /\ UNCHANGED <<policy, grant, ledger, cursor, period, runs, sched>>
  BY DEF CancelGoal, Event
<1>2. goals \in [Run -> GoalRow] /\ execs \in [Run -> ExecRow] /\ TypeOK
  BY DEF IInv, TypeOK
<1>3. /\ status \in {"cancelled", "needs_reconciliation"} /\ version \in Nat
      /\ version >= goals[r].version
      /\ ended \in {"none"} \cup Terminal
  BY <1>2, GoalFacts DEF Terminal, ExecRow
<1> HIDE DEF status, version
<1>4. /\ goals' \in [Run -> GoalRow]
      /\ goals'[r].status = status /\ goals'[r].version = version
      /\ goals'[r].startedAt = goals[r].startedAt /\ goals'[r].usage = goals[r].usage
      /\ goals'[r].actual = goals[r].actual
      /\ \A q \in Run \ {r} : goals'[q] = goals[q]
  <2> DEFINE row == [goals[r] EXCEPT !.status = status, !.cancelling = TRUE, !.version = version]
  <2>1. goals' = [goals EXCEPT ![r] = row] /\ goals[r] \in GoalRow
    BY <1>1, <1>2
  <2>2. /\ row \in GoalRow /\ row.status = status /\ row.version = version
        /\ row.startedAt = goals[r].startedAt /\ row.usage = goals[r].usage
        /\ row.actual = goals[r].actual
    BY <1>3, <2>1 DEF GoalRow
  <2> HIDE DEF row
  <2> QED BY <1>2, <2>1, <2>2
<1>5. /\ execs' \in [Run -> ExecRow] /\ execs'[r].status = ended
      /\ execs'[r].spent = execs[r].spent /\ execs'[r].open = execs[r].open
      /\ \A q \in Run \ {r} : execs'[q] = execs[q]
  BY <1>1, <1>2, <1>3 DEF ExecRow
<1>6. Account(r) /\ runs[r].status # "none"
  BY <1>1, GoalFacts
<1>7. Account(r)'
  <2>1. execs[r].status = "none" => execs'[r] = NoExec
    <3> SUFFICES ASSUME execs[r].status = "none"
                 PROVE  execs'[r] = NoExec
      OBVIOUS
    <3>1. execs[r] = NoExec /\ ended = "none"
      BY <1>6 DEF Account
    <3>2. execs'[r] = [NoExec EXCEPT !.status = "none"]
      BY <1>1, <1>2, <3>1
    <3> QED BY <3>2 DEF NoExec
  <2>2. execs'[r].status = "none" <=> execs[r].status = "none"
    BY <1>5 DEF Terminal
  <2>3. execs[r].status \in Terminal => execs'[r].status = execs[r].status
    BY <1>5 DEF Terminal
  <2>4. goals'[r].status # "awaiting_acceptance"
    BY <1>3, <1>4
  <2> QED BY <1>3, <1>4, <1>5, <1>6, <2>1, <2>2, <2>3, <2>4, GoalFacts DEF Account
<1>8. (Burden(r)' => Burden(r)) /\ (~Unsettled(r) => ~Unsettled(r)')
  BY <1>5 DEF Burden, Unsettled, Terminal
<1>9. \A q \in Run \ {r} : goals'[q] = goals[q] /\ execs'[q] = execs[q]
  BY <1>4, <1>5
<1>10. goals'[r].version \in Nat /\ goals[r].version \in Nat /\ goals'[r].version >= goals[r].version
  BY <1>3, <1>4, GoalFacts
<1>11. Relations'
  BY <1>1, <1>4, <1>5, <1>6, <1>7, <1>8, <1>9, <1>10, GoalChange
<1>12. TypeOK'
  BY <1>1, <1>2, <1>4, <1>5 DEF TypeOK
<1>13. NothingLeftToStart'
  BY <1>1 DEF IInv, NothingLeftToStart
<1> QED BY <1>11, <1>12, <1>13 DEF IInv, Relations

LEMMA AcceptGoalStep ==
  ASSUME IInv, NEW r \in Run, AcceptGoal(r)
  PROVE  IInv'
<1>1. /\ goals[r].status = "awaiting_acceptance"
      /\ goals' = [goals EXCEPT ![r].status = "accepted"]
      /\ UNCHANGED <<policy, cursor, runs, execs, sched, events, grant, ledger, period>>
  BY DEF AcceptGoal, owner
<1>2. goals \in [Run -> GoalRow] /\ TypeOK
  BY DEF IInv, TypeOK
<1>3. /\ goals' \in [Run -> GoalRow]
      /\ goals'[r].status = "accepted" /\ goals'[r].version = goals[r].version
      /\ goals'[r].startedAt = goals[r].startedAt /\ goals'[r].usage = goals[r].usage
      /\ goals'[r].actual = goals[r].actual
      /\ \A q \in Run \ {r} : goals'[q] = goals[q]
  BY <1>1, <1>2 DEF GoalRow
<1>4. Account(r)' /\ runs[r].status # "none"
  BY <1>1, <1>3, GoalFacts DEF Account
<1>5. execs'[r] = execs[r] /\ (Burden(r)' => Burden(r)) /\ (~Unsettled(r) => ~Unsettled(r)')
  BY <1>1 DEF Burden, Unsettled
<1>6. goals'[r].version \in Nat /\ goals[r].version \in Nat /\ goals'[r].version >= goals[r].version
  BY <1>3, GoalFacts
<1>7. \A q \in Run \ {r} : goals'[q] = goals[q] /\ execs'[q] = execs[q]
  BY <1>1, <1>3
<1>8. Relations'
  BY <1>1, <1>3, <1>4, <1>5, <1>6, <1>7, GoalChange
<1>9. TypeOK'
  BY <1>1, <1>2, <1>3 DEF TypeOK
<1>10. NothingLeftToStart'
  BY <1>1 DEF IInv, NothingLeftToStart
<1> QED BY <1>8, <1>9, <1>10 DEF IInv, Relations

(* Every step of an Execution is one of an Execution that weighs on the      *)
(* policy already.                                                           *)
LEMMA ExecuteStep ==
  ASSUME IInv, NEW r \in Run, Execute(r)
  PROVE  IInv'
<1>1. UNCHANGED <<policy, cursor, runs, goals, sched, events, grant, ledger, period>>
  BY DEF Execute, owner
<1>2. /\ execs \in [Run -> ExecRow] /\ TypeOK /\ Account(r)
      /\ execs[r] \in ExecRow /\ execs[r].spent \in Nat
  BY GoalFacts DEF IInv, TypeOK
<1>3. Unsettled(r)
  BY DEF Execute, CallModel, Answer, Interrupt, EndExecution, Unsettled, Terminal
<1>4. /\ execs' \in [Run -> ExecRow]
      /\ \A q \in Run \ {r} : execs'[q] = execs[q]
      /\ execs'[r].status # "none"
  <2>1. CASE CallModel(r)
    <3>1. PICK cost \in 1..(Cap - execs[r].spent + 1) :
            execs' = [execs EXCEPT ![r].open = TRUE, ![r].spent = @ + cost]
      BY <2>1 DEF CallModel
    <3>2. execs[r].spent + cost \in Nat
      BY <1>2, <3>1, ConstantTypes
    <3> DEFINE row == [execs[r] EXCEPT !.open = TRUE, !.spent = execs[r].spent + cost]
    <3>3. execs' = [execs EXCEPT ![r] = row]
      BY <1>2, <3>1
    <3>4. row.status = execs[r].status
      BY <1>2 DEF ExecRow
    <3>5. row \in ExecRow
      BY <1>2, <3>2 DEF ExecRow
    <3> HIDE DEF row
    <3> QED BY <1>2, <2>1, <3>3, <3>4, <3>5 DEF CallModel
  <2>2. CASE Answer(r)
    <3>1. execs[r].status # "none"
      BY <1>2, <2>2 DEF Answer, Account, NoExec
    <3> QED BY <1>2, <2>2, <3>1 DEF Answer, ExecRow
  <2>3. CASE Interrupt(r)
    BY <1>2, <2>3 DEF Interrupt, ExecRow
  <2>4. CASE EndExecution(r)
    BY <1>2, <2>4 DEF EndExecution, ExecRow, Terminal
  <2> QED BY <2>1, <2>2, <2>3, <2>4 DEF Execute
<1>5. execs[r].status # "none"
  BY <1>2, <1>3 DEF Account, Unsettled, NoExec
<1>6. goals[r].usage # "settled"
  BY <1>2, <1>3 DEF Account, Unsettled
<1>7. Account(r)'
  BY <1>1, <1>2, <1>4, <1>5, <1>6 DEF Account
<1>8. Burden(r) /\ runs[r].status # "none"
  BY <1>3, <1>5, GoalFacts DEF Burden
<1>9. /\ goals'[r].startedAt = goals[r].startedAt
      /\ goals'[r].version \in Nat /\ goals[r].version \in Nat /\ goals'[r].version >= goals[r].version
      /\ \A q \in Run \ {r} : goals'[q] = goals[q] /\ execs'[q] = execs[q]
  BY <1>1, <1>4, GoalFacts
<1>10. Relations'
  BY <1>1, <1>3, <1>7, <1>8, <1>9, GoalChange
<1>11. TypeOK'
  BY <1>1, <1>2, <1>4 DEF TypeOK
<1>12. NothingLeftToStart'
  BY <1>1 DEF IInv, NothingLeftToStart
<1> QED BY <1>10, <1>11, <1>12 DEF IInv, Relations

(* A goal settles only what its Execution can no longer change.              *)
LEMMA ObserveGoalStep ==
  ASSUME IInv, NEW r \in Run, ObserveGoal(r)
  PROVE  IInv'
<1> DEFINE g == goals[r]
           e == execs[r]
           usage == Usage(g, e)
           actual == IF usage = "settled" THEN e.spent ELSE 0
<1>1. UNCHANGED <<policy, cursor, runs, execs, sched, events, grant, ledger, period>>
  BY DEF ObserveGoal, owner
<1>2. PICK permitted \in BOOLEAN, status \in GoalOutcomes(g, e, TRUE) \cup GoalOutcomes(g, e, FALSE) :
        /\ g.startedAt # 0
        /\ status \in GoalOutcomes(g, e, permitted)
        /\ goals' = [goals EXCEPT ![r].status = status, ![r].usage = usage, ![r].actual = actual]
  BY DEF ObserveGoal, Accountable
<1>3. /\ goals \in [Run -> GoalRow] /\ TypeOK /\ Account(r)
      /\ g \in GoalRow /\ e \in ExecRow /\ e.spent \in Nat /\ runs[r].status # "none"
  <2>1. e.status # "none"
    BY <1>2, GoalFacts DEF Account
  <2> QED BY <2>1, GoalFacts DEF IInv, TypeOK
<1>4. usage \in {"none", "reserved", "unknown", "settled"} /\ actual \in Nat
  BY <1>3 DEF Usage, GoalRow
<1>5. /\ status \in {"cancelled", "needs_reconciliation", "failed", "awaiting_acceptance", "running"}
      /\ status = "awaiting_acceptance" => usage = "settled"
  BY <1>2 DEF GoalOutcomes, Terminal
<1>6. usage = "settled" => e.status \in Terminal /\ ~e.open
  BY <1>3 DEF Usage, Account
<1> HIDE DEF usage
<1>7. /\ goals' \in [Run -> GoalRow]
      /\ goals'[r].status = status /\ goals'[r].usage = usage /\ goals'[r].actual = actual
      /\ goals'[r].version = g.version /\ goals'[r].startedAt = g.startedAt
      /\ \A q \in Run \ {r} : goals'[q] = goals[q]
  <2> HIDE DEF actual
  <2> QED BY <1>2, <1>3, <1>4, <1>5 DEF GoalRow
<1>8. Account(r)'
  BY <1>1, <1>2, <1>3, <1>5, <1>6, <1>7 DEF Account
<1>9. execs'[r] = execs[r] /\ (Burden(r)' => Burden(r)) /\ (~Unsettled(r) => ~Unsettled(r)')
  BY <1>1 DEF Burden, Unsettled
<1>10. goals'[r].version \in Nat /\ goals[r].version \in Nat /\ goals'[r].version >= goals[r].version
  BY <1>7, GoalFacts
<1>11. \A q \in Run \ {r} : goals'[q] = goals[q] /\ execs'[q] = execs[q]
  BY <1>1, <1>7
<1>12. Relations'
  BY <1>1, <1>3, <1>7, <1>8, <1>9, <1>10, <1>11, GoalChange
<1>13. TypeOK'
  BY <1>1, <1>3, <1>7 DEF TypeOK
<1>14. NothingLeftToStart'
  BY <1>1 DEF IInv, NothingLeftToStart
<1> QED BY <1>12, <1>13, <1>14 DEF IInv, Relations

(* The cost is settled of an Execution that has ended, the status of the     *)
(* goal left as it is.                                                       *)
LEMMA ReconcileUsageStep ==
  ASSUME IInv, NEW r \in Run, ReconcileUsage(r)
  PROVE  IInv'
<1>1. UNCHANGED <<policy, cursor, runs, execs, sched, events, grant, ledger, period>>
  BY DEF ReconcileUsage, owner
<1>2. /\ goals[r].startedAt # 0 /\ ~goals[r].cancelling
      /\ execs[r].status = "completed" /\ ~execs[r].open
      /\ goals' = [goals EXCEPT ![r].usage = "settled", ![r].actual = execs[r].spent]
  BY DEF ReconcileUsage, Accountable
<1>3. /\ goals \in [Run -> GoalRow] /\ TypeOK /\ Account(r)
      /\ goals[r] \in GoalRow /\ execs[r].spent \in Nat /\ runs[r].status # "none"
  <2>1. execs[r].status # "none"
    BY <1>2
  <2> QED BY <2>1, GoalFacts DEF IInv, TypeOK
<1>4. /\ goals' \in [Run -> GoalRow]
      /\ goals'[r].status = goals[r].status
      /\ goals'[r].usage = "settled" /\ goals'[r].actual = execs[r].spent
      /\ goals'[r].version = goals[r].version /\ goals'[r].startedAt = goals[r].startedAt
      /\ \A q \in Run \ {r} : goals'[q] = goals[q]
  BY <1>2, <1>3 DEF GoalRow
<1>5. Account(r)'
  BY <1>1, <1>2, <1>3, <1>4 DEF Account, Terminal
<1>6. execs'[r] = execs[r] /\ (Burden(r)' => Burden(r)) /\ (~Unsettled(r) => ~Unsettled(r)')
  BY <1>1 DEF Burden, Unsettled
<1>7. goals'[r].version \in Nat /\ goals[r].version \in Nat /\ goals'[r].version >= goals[r].version
  BY <1>4, GoalFacts
<1>8. \A q \in Run \ {r} : goals'[q] = goals[q] /\ execs'[q] = execs[q]
  BY <1>1, <1>4
<1>9. Relations'
  BY <1>1, <1>3, <1>4, <1>5, <1>6, <1>7, <1>8, GoalChange
<1>10. TypeOK'
  BY <1>1, <1>3, <1>4 DEF TypeOK
<1>11. NothingLeftToStart'
  BY <1>1 DEF IInv, NothingLeftToStart
<1> QED BY <1>9, <1>10, <1>11 DEF IInv, Relations

----------------------------------------------------------------------------
(* The budget of a period *)

(* A run that gave its reservation back does so for good: its goal is closed *)
(* with the same status, and its cost is settled within the cap.             *)
Given == {"accepted", "cancelled"}

GivenBack(run, r) ==
  run.status \in Given /\ run.started =>
    /\ goals[r].status = run.status /\ goals[r].usage = "settled"
    /\ ~(goals[r].actual > Cap)

(* What a run may still cost its period, each up to its cap. *)
Reserve == [r \in Run |-> IF runs[r].status \in Given THEN CappedCost[r] ELSE Cap]

Reserved == \A p \in Nat \ {0} : SumFunctionOnSet(Reserve, OfPeriod(runs, p)) =< PeriodTokens

PInv == (\A r \in Run : GivenBack(runs[r], r)) /\ Reserved

ReserveTypeOK ==
  /\ IsFiniteSet(Run) /\ Cap \in Nat /\ PeriodTokens \in Nat
  /\ \A r \in Run : /\ execs[r].spent \in Nat
                    /\ CappedCost[r] \in Nat /\ CappedCost[r] =< Cap
                    /\ CappedCost[r] =< execs[r].spent
                    /\ Reserve[r] \in Nat /\ Reserve[r] =< Cap /\ CappedCost[r] =< Reserve[r]

LEMMA ReserveIsNatural == IInv => ReserveTypeOK
<1> SUFFICES ASSUME IInv
             PROVE  ReserveTypeOK
  OBVIOUS
<1>1. IsFiniteSet(Run)
  BY ConstantTypes, FS_Interval DEF Run
<1>2. Cap \in Nat /\ PeriodTokens \in Nat
  BY FollowupAssumption
<1>3. ASSUME NEW r \in Run
      PROVE  /\ execs[r].spent \in Nat
             /\ CappedCost[r] \in Nat /\ CappedCost[r] =< Cap /\ CappedCost[r] =< execs[r].spent
  <2>1. execs[r].spent \in Nat
    BY GoalFacts
  <2>2. CappedCost[r] = IF execs[r].spent > Cap THEN Cap ELSE execs[r].spent
    BY DEF CappedCost
  <2> QED BY <1>2, <2>1, <2>2
<1>4. ASSUME NEW r \in Run
      PROVE  Reserve[r] \in Nat /\ Reserve[r] =< Cap /\ CappedCost[r] =< Reserve[r]
  <2>1. Reserve[r] = IF runs[r].status \in Given THEN CappedCost[r] ELSE Cap
    BY DEF Reserve
  <2> QED BY <1>2, <1>3, <2>1
<1> QED BY <1>1, <1>2, <1>3, <1>4 DEF ReserveTypeOK

LEMMA ReserveStaysNatural == IInv' => ReserveTypeOK'
BY ReserveIsNatural, PTL

(* No step makes a reservation larger than it was, except a claim. *)
LEMMA ReservesFall ==
  ASSUME IInv, IInv', PInv,
         \A r \in Run :
           /\ runs'[r].status = "none" <=> runs[r].status = "none"
           /\ runs'[r].period = runs[r].period
           /\ GivenBack(runs[r], r)'
           /\ runs[r].status \in Given => runs'[r].status \in Given /\ execs'[r].spent = execs[r].spent
  PROVE  PInv'
<1>1. \A r \in Run : Reserve[r] \in Nat /\ Reserve'[r] \in Nat /\ Reserve'[r] =< Reserve[r]
  <2> SUFFICES ASSUME NEW r \in Run
               PROVE  Reserve[r] \in Nat /\ Reserve'[r] \in Nat /\ Reserve'[r] =< Reserve[r]
    OBVIOUS
  <2>1. Cap \in Nat /\ Reserve[r] \in Nat /\ Reserve'[r] \in Nat /\ Reserve'[r] =< Cap
    <3>1. Cap \in Nat /\ Reserve[r] \in Nat
      BY ReserveIsNatural DEF ReserveTypeOK
    <3>2. Reserve'[r] \in Nat /\ Reserve'[r] =< Cap
      BY ReserveStaysNatural DEF ReserveTypeOK
    <3> QED BY <3>1, <3>2
  <2>2. CASE runs[r].status \in Given
    <3>1. CappedCost'[r] = CappedCost[r]
      BY <2>2 DEF CappedCost
    <3>2. Reserve[r] = CappedCost[r] /\ Reserve'[r] = CappedCost'[r]
      BY <2>2 DEF Reserve
    <3> QED BY <2>1, <3>1, <3>2
  <2>3. CASE runs[r].status \notin Given
    <3>1. Reserve[r] = Cap
      BY <2>3 DEF Reserve
    <3> QED BY <2>1, <3>1
  <2> QED BY <2>2, <2>3
<1>2. ASSUME NEW p \in Nat \ {0}
      PROVE  SumFunctionOnSet(Reserve', OfPeriod(runs', p)) =< PeriodTokens
  <2> DEFINE S == OfPeriod(runs, p)
             before == SumFunctionOnSet(Reserve, S)
             after == SumFunctionOnSet(Reserve', S)
  <2>1. OfPeriod(runs', p) = S
    BY DEF OfPeriod
  <2>2. S \subseteq Run /\ IsFiniteSet(S)
    <3>1. S \subseteq Run
      BY DEF OfPeriod
    <3> QED BY <3>1, ReserveIsNatural, FS_Subset DEF ReserveTypeOK
  <2>3. before =< PeriodTokens /\ PeriodTokens \in Nat
    BY ReserveIsNatural DEF ReserveTypeOK, PInv, Reserved
  <2> HIDE DEF S
  <2>4. before \in Nat /\ after \in Nat
    BY <1>1, <2>2, SumIsNatural
  <2>5. after =< before
    BY <1>1, <2>2, SumIsMonotone
  <2> HIDE DEF before, after
  <2>6. after =< PeriodTokens
    BY <2>3, <2>4, <2>5
  <2> QED BY <2>1, <2>6 DEF after
<1>3. Reserved'
  BY <1>2 DEF Reserved
<1> QED BY <1>3 DEF PInv

(* An observation takes no release back, and releases only what is settled. *)
LEMMA ObservedGives ==
  ASSUME IInv, NEW r \in Run, GivenBack(runs[r], r)
  PROVE  /\ Observed[r].period = runs[r].period
         /\ GivenBack(Observed[r], r)
         /\ runs[r].status \in Given => Observed[r].status = runs[r].status
<1> DEFINE run == runs[r]
           g == goals[r]
           o == Observed[r]
<1>1. run \in RunRow /\ g \in GoalRow
  BY GoalFacts
<1>2. Consistent(run, r)
  BY DEF IInv, Coherent
<1>3. CASE run.status = "none" \/ (run.status = "cancelled" /\ ~run.started)
  <2>1. o = run
    BY <1>3 DEF Observed
  <2> QED BY <2>1
<1>4. CASE ~(run.status = "none" \/ (run.status = "cancelled" /\ ~run.started))
  <2>1. o = [run EXCEPT !.status = StatusByGoal(r), !.started = g.startedAt # 0,
                        !.known = @ \/ g.usage = "settled",
                        !.actual = IF g.usage = "settled" THEN g.actual ELSE @]
    BY <1>4 DEF Observed
  <2>2. o.status = StatusByGoal(r) /\ o.started = (g.startedAt # 0) /\ o.period = run.period
    BY <1>1, <2>1 DEF RunRow
  <2>3. o.status \in Given =>
          g.usage = "settled" /\ ~(g.actual > Cap) /\ (g.startedAt # 0 => g.status = o.status)
    BY <2>2 DEF StatusByGoal, Given
  <2>4. GivenBack(o, r)
    BY <2>2, <2>3 DEF GivenBack
  <2>5. ASSUME run.status \in Given
        PROVE  o.status = run.status
    <3>1. run.started /\ g.startedAt # 0
      BY <1>2, <1>4, <2>5 DEF Consistent, Given
    <3>2. g.status = run.status /\ g.usage = "settled" /\ ~(g.actual > Cap)
      BY <2>5, <3>1 DEF GivenBack
    <3> QED BY <2>2, <2>5, <3>1, <3>2 DEF StatusByGoal, Given
  <2> QED BY <2>2, <2>4, <2>5
<1> QED BY <1>3, <1>4

(* What is cancelled before it started has no cost to settle. *)
LEMMA CancelGives ==
  ASSUME NEW rs \in [Run -> RunRow], NEW r \in Run, GivenBack(rs[r], r)
  PROVE  LET c == PendingCancelled(rs)[r] IN
         /\ c.period = rs[r].period
         /\ GivenBack(c, r)
         /\ rs[r].status \in Given => c.status = rs[r].status
<1> DEFINE c == PendingCancelled(rs)[r]
<1>1. CASE rs[r].status = "pending" /\ ~rs[r].started
  <2>1. c = [rs[r] EXCEPT !.status = "cancelled", !.known = TRUE, !.actual = 0]
    BY <1>1 DEF PendingCancelled
  <2>2. c.period = rs[r].period /\ c.started = rs[r].started
    BY <2>1 DEF RunRow
  <2> QED BY <1>1, <2>2 DEF GivenBack, Given
<1>2. CASE ~(rs[r].status = "pending" /\ ~rs[r].started)
  <2>1. c = rs[r]
    BY <1>2 DEF PendingCancelled
  <2> QED BY <2>1
<1> QED BY <1>1, <1>2

(* A step of a policy that makes no run. *)
LEMMA RunsStep ==
  ASSUME IInv, IInv', PInv, UNCHANGED <<goals, execs>>,
         runs' \in {runs, Observed, PendingCancelled(runs), PendingCancelled(Observed)}
  PROVE  PInv'
<1>1. \A r \in Run : GivenBack(runs[r], r) /\ Consistent(runs[r], r)
  BY DEF PInv, IInv, Coherent
<1>2. TypeOK /\ Accounts /\ Coherent /\ runs \in [Run -> RunRow]
  BY DEF IInv, TypeOK
<1>3. \A r \in Run : /\ Observed[r] \in RunRow
                     /\ Consistent(Observed[r], r) /\ GivenBack(Observed[r], r)
                     /\ Observed[r].status = "none" <=> runs[r].status = "none"
                     /\ Observed[r].period = runs[r].period
                     /\ runs[r].status \in Given => Observed[r].status \in Given
  <2> SUFFICES ASSUME NEW r \in Run
               PROVE  /\ Observed[r] \in RunRow
                      /\ Consistent(Observed[r], r) /\ GivenBack(Observed[r], r)
                      /\ Observed[r].status = "none" <=> runs[r].status = "none"
                      /\ Observed[r].period = runs[r].period
                      /\ runs[r].status \in Given => Observed[r].status \in Given
    OBVIOUS
  <2>1. /\ Observed[r] \in RunRow /\ Consistent(Observed[r], r)
        /\ Observed[r].status = "none" <=> runs[r].status = "none"
    BY <1>2, ObservedKeeps
  <2>2. /\ Observed[r].period = runs[r].period
        /\ GivenBack(Observed[r], r)
        /\ runs[r].status \in Given => Observed[r].status = runs[r].status
    BY <1>1, ObservedGives
  <2> QED BY <2>1, <2>2
<1>4. Observed \in [Run -> RunRow]
  BY <1>3 DEF Observed
<1>5. ASSUME NEW rs \in {runs, Observed}, NEW r \in Run
      PROVE  LET c == PendingCancelled(rs)[r] IN
             /\ c.status = "none" <=> runs[r].status = "none"
             /\ c.period = runs[r].period
             /\ GivenBack(c, r)
             /\ runs[r].status \in Given => c.status \in Given
  <2>1. /\ rs \in [Run -> RunRow] /\ Consistent(rs[r], r) /\ GivenBack(rs[r], r)
        /\ rs[r].status = "none" <=> runs[r].status = "none"
        /\ rs[r].period = runs[r].period
        /\ runs[r].status \in Given => rs[r].status \in Given
    BY <1>1, <1>2, <1>3, <1>4
  <2>2. PendingCancelled(rs)[r].status = "none" <=> rs[r].status = "none"
    BY <1>2, <2>1, CancelKeeps
  <2>3. LET c == PendingCancelled(rs)[r] IN
        /\ c.period = rs[r].period /\ GivenBack(c, r)
        /\ rs[r].status \in Given => c.status = rs[r].status
    BY <2>1, CancelGives
  <2> QED BY <2>1, <2>2, <2>3
<1>6. \A r \in Run : /\ runs'[r].status = "none" <=> runs[r].status = "none"
                     /\ runs'[r].period = runs[r].period
                     /\ GivenBack(runs'[r], r)
                     /\ runs[r].status \in Given => runs'[r].status \in Given
  BY <1>1, <1>3, <1>5
<1>7. \A r \in Run : GivenBack(runs[r], r)'
  BY <1>6 DEF GivenBack
<1> QED BY <1>6, <1>7, ReservesFall

(* A step of a goal or its Execution: a goal that is closed with its cost    *)
(* settled stays as it is, and what is settled costs no more.                *)
LEMMA GoalStep ==
  ASSUME IInv, IInv', PInv, UNCHANGED runs, NEW r \in Run,
         \A q \in Run \ {r} : goals'[q] = goals[q] /\ execs'[q] = execs[q],
         goals[r].status \in Given /\ goals[r].usage = "settled" => goals'[r] = goals[r],
         Unsettled(r) \/ execs'[r].spent = execs[r].spent
  PROVE  PInv'
<1>1. \A q \in Run : GivenBack(runs[q], q) /\ Consistent(runs[q], q)
  BY DEF PInv, IInv, Coherent
<1>2. \A q \in Run : GivenBack(runs[q], q)'
  <2> SUFFICES ASSUME NEW q \in Run, runs[q].status \in Given, runs[q].started
               PROVE  goals'[q] = goals[q]
    BY <1>1 DEF GivenBack
  <2>1. goals[q].status \in Given /\ goals[q].usage = "settled"
    BY <1>1 DEF GivenBack
  <2> QED BY <2>1
<1>3. \A q \in Run : runs[q].status \in Given => execs'[q].spent = execs[q].spent
  BY <1>1 DEF Consistent, Paid, Given
<1> QED BY <1>2, <1>3, ReservesFall

(* A claim reserves the cap of its run where the budget has room for it. *)
LEMMA ClaimChangeReserves ==
  ASSUME IInv, IInv', PInv, NEW s \in Scheduler, ClaimChange(s), UNCHANGED <<execs, period>>
  PROVE  PInv'
<1> DEFINE new == Cardinality(Made) + 1
           row == [NoRun EXCEPT !.status = "pending", !.period = period, !.source = ledger.version]
<1>1. /\ runs' = [Observed EXCEPT ![new] = row]
      /\ goals' = [goals EXCEPT ![new] = [NoGoal EXCEPT !.status = "draft", !.version = 1]]
      /\ Cardinality(Made) < MaxRuns
      /\ HasRoom(Observed)
  BY DEF ClaimChange
<1>2. new \in Run /\ runs[new].status = "none"
  BY <1>1, NextRun
<1>3. row.status = "pending" /\ row.period = period
  BY DEF NoRun
<1> HIDE DEF new, row
<1>4. \A q \in Run : /\ Observed[q] \in RunRow
                     /\ Consistent(Observed[q], q) /\ GivenBack(Observed[q], q)
                     /\ Observed[q].status = "none" <=> runs[q].status = "none"
                     /\ Observed[q].period = runs[q].period
                     /\ runs[q].status \in Given => Observed[q].status \in Given
  <2> SUFFICES ASSUME NEW q \in Run
               PROVE  /\ Observed[q] \in RunRow
                      /\ Consistent(Observed[q], q) /\ GivenBack(Observed[q], q)
                      /\ Observed[q].status = "none" <=> runs[q].status = "none"
                      /\ Observed[q].period = runs[q].period
                      /\ runs[q].status \in Given => Observed[q].status \in Given
    OBVIOUS
  <2>1. /\ Observed[q] \in RunRow /\ Consistent(Observed[q], q)
        /\ Observed[q].status = "none" <=> runs[q].status = "none"
    BY ObservedKeeps DEF IInv
  <2>2. /\ Observed[q].period = runs[q].period
        /\ GivenBack(Observed[q], q)
        /\ runs[q].status \in Given => Observed[q].status = runs[q].status
    BY ObservedGives DEF PInv
  <2> QED BY <2>1, <2>2
<1>5. /\ runs'[new] = row
      /\ \A q \in Run : q # new => runs'[q] = Observed[q] /\ goals'[q] = goals[q]
  <2>1. Observed \in [Run -> RunRow] /\ goals \in [Run -> GoalRow]
    BY <1>4 DEF Observed, IInv, TypeOK
  <2> QED BY <1>1, <1>2, <2>1
<1>6. \A q \in Run : GivenBack(runs[q], q)'
  <2> SUFFICES ASSUME NEW q \in Run
               PROVE  GivenBack(runs[q], q)'
    OBVIOUS
  <2>1. CASE q = new
    BY <1>3, <1>5, <2>1 DEF GivenBack, Given
  <2>2. CASE q # new
    BY <1>4, <1>5, <2>2 DEF GivenBack
  <2> QED BY <2>1, <2>2
<1>7. /\ IsFiniteSet(Run) /\ Cap \in Nat /\ PeriodTokens \in Nat
      /\ \A q \in Run : Reserve[q] \in Nat /\ Reserve[q] =< Cap /\ execs[q].spent \in Nat
  BY ReserveIsNatural DEF ReserveTypeOK
<1>8. \A q \in Run : Reserve'[q] \in Nat /\ Reserve'[q] =< Cap
  BY ReserveStaysNatural DEF ReserveTypeOK
<1>9. \A q \in Run : CappedCost'[q] = CappedCost[q] /\ CappedCost[q] =< execs[q].spent
  BY ReserveIsNatural DEF ReserveTypeOK, CappedCost
<1>10. Reserve'[new] = Cap
  BY <1>2, <1>3, <1>5 DEF Reserve, Given
<1>11. \A q \in Run : q # new /\ runs[q].status \in Given => Reserve'[q] = Reserve[q]
  <2> SUFFICES ASSUME NEW q \in Run, q # new, runs[q].status \in Given
               PROVE  Reserve'[q] = Reserve[q]
    OBVIOUS
  <2>1. runs'[q].status \in Given
    BY <1>4, <1>5
  <2> QED BY <1>9, <2>1 DEF Reserve
<1>12. \A q \in Run : q # new => Reserve'[q] =< Reserve[q]
  <2> SUFFICES ASSUME NEW q \in Run, q # new
               PROVE  Reserve'[q] =< Reserve[q]
    OBVIOUS
  <2>1. CASE runs[q].status \in Given
    BY <1>7, <1>11, <2>1
  <2>2. CASE runs[q].status \notin Given
    <3>1. Reserve[q] = Cap
      BY <2>2 DEF Reserve
    <3> QED BY <1>8, <3>1
  <2> QED BY <2>1, <2>2
<1>13. \A q \in Run : q # new => Held(Observed)[q] \in Nat /\ Reserve'[q] =< Held(Observed)[q]
  <2> SUFFICES ASSUME NEW q \in Run, q # new
               PROVE  Held(Observed)[q] \in Nat /\ Reserve'[q] =< Held(Observed)[q]
    OBVIOUS
  <2> DEFINE cost == IF Observed[q].known THEN Observed[q].actual ELSE 0
  <2>1. Observed[q].actual \in Nat /\ cost \in Nat
    <3>1. Observed[q] \in RunRow
      BY <1>4
    <3> QED BY <3>1 DEF RunRow
  <2>2. Held(Observed)[q] = IF Observed[q].status \in Given \/ cost > Cap THEN cost ELSE Cap
    BY DEF Held, Given
  <2>3. CASE Observed[q].status \in Given
    <3>1. cost = execs[q].spent
      BY <1>4, <2>3 DEF Consistent, Paid, Given
    <3>2. Reserve'[q] = CappedCost[q]
      BY <1>5, <1>9, <2>3 DEF Reserve
    <3> HIDE DEF cost
    <3> QED BY <1>9, <2>1, <2>2, <2>3, <3>1, <3>2
  <2>4. CASE Observed[q].status \notin Given
    <3> HIDE DEF cost
    <3>1. Held(Observed)[q] \in Nat /\ Cap =< Held(Observed)[q]
      <4>1. CASE cost > Cap
        BY <1>7, <2>1, <2>2, <4>1
      <4>2. CASE ~(cost > Cap)
        BY <1>7, <2>2, <2>4, <4>2
      <4> QED BY <4>1, <4>2
    <3>2. Reserve'[q] \in Nat /\ Reserve'[q] =< Cap
      BY <1>8
    <3> QED BY <1>7, <3>1, <3>2
  <2> QED BY <2>3, <2>4
<1>14. ASSUME NEW p \in Nat \ {0}
       PROVE  SumFunctionOnSet(Reserve', OfPeriod(runs', p)) =< PeriodTokens
  <2> DEFINE S == OfPeriod(runs, p)
             after == SumFunctionOnSet(Reserve', S)
             held == SumFunctionOnSet(Held(Observed), S)
  <2>1. S \subseteq Run /\ new \notin S /\ S = OfPeriod(Observed, p)
    BY <1>2, <1>4 DEF OfPeriod
  <2>2. IsFiniteSet(S)
    BY <1>7, <2>1, FS_Subset
  <2>3. OfPeriod(runs', p) = IF p = period THEN S \cup {new} ELSE S
    <3>1. \A q \in Run : q # new => (q \in OfPeriod(runs', p) <=> q \in S)
      BY <1>4, <1>5 DEF OfPeriod
    <3>2. new \in OfPeriod(runs', p) <=> p = period
      BY <1>2, <1>3, <1>5 DEF OfPeriod
    <3>3. OfPeriod(runs', p) \subseteq Run
      BY DEF OfPeriod
    <3> HIDE DEF S
    <3> QED BY <1>2, <2>1, <3>1, <3>2, <3>3
  <2>4. CASE p # period
    <3> DEFINE before == SumFunctionOnSet(Reserve, S)
    <3>1. before =< PeriodTokens
      BY DEF PInv, Reserved
    <3> HIDE DEF S
    <3>2. before \in Nat /\ after \in Nat
      BY <1>7, <1>8, <2>1, <2>2, SumIsNatural
    <3>3. after =< before
      BY <1>7, <1>8, <1>12, <2>1, <2>2, SumIsMonotone
    <3> HIDE DEF before, after
    <3>4. after =< PeriodTokens
      BY <1>7, <3>1, <3>2, <3>3
    <3> QED BY <2>3, <2>4, <3>4 DEF after
  <2>5. CASE p = period
    <3>1. held + Cap =< PeriodTokens
      BY <1>1, <2>1, <2>5 DEF HasRoom
    <3> HIDE DEF S
    <3>2. held \in Nat /\ after \in Nat
      BY <1>8, <1>13, <2>1, <2>2, SumIsNatural
    <3>3. after =< held
      BY <1>8, <1>13, <2>1, <2>2, SumIsMonotone
    <3> DEFINE T == S \cup {new}
    <3>4. IsFiniteSet(T) /\ new \in T /\ T \ {new} = S /\ T \subseteq Run
      BY <1>2, <2>1, <2>2, FS_AddElement
    <3> HIDE DEF T
    <3>5. SumFunctionOnSet(Reserve', T) = Cap + after
      BY <1>8, <1>10, <3>4, SumWithout
    <3> HIDE DEF held, after
    <3>6. SumFunctionOnSet(Reserve', T) =< PeriodTokens
      BY <1>7, <3>1, <3>2, <3>3, <3>5
    <3> QED BY <2>3, <2>5, <3>6 DEF T
  <2> QED BY <2>4, <2>5
<1>15. Reserved'
  BY <1>14 DEF Reserved
<1> QED BY <1>6, <1>15 DEF PInv

(* Every step keeps every period's reservations within its budget. *)
LEMMA PeriodsKept ==
  ASSUME IInv, IInv', PInv, [Next]_vars
  PROVE  PInv'
<1>1. CASE UNCHANGED vars
  BY <1>1, RunsStep DEF vars
<1>2. ASSUME NEW s \in Scheduler, Claim(s)
      PROVE  PInv'
  <2>1. UNCHANGED <<execs, period>>
    BY <1>2 DEF Claim, owner
  <2>2. CASE ClaimChange(s)
    BY <2>1, <2>2, ClaimChangeReserves
  <2>3. CASE ClaimNothing(s) \/ ClaimInvalidates(s) \/ ClaimPending(s) \/ Exhaust(s)
    <3>1. UNCHANGED goals /\ runs' \in {Observed, PendingCancelled(Observed)}
      BY <2>3 DEF ClaimNothing, JustObserve, ClaimInvalidates, Invalidate, ClaimPending, Exhaust
    <3> QED BY <2>1, <3>1, RunsStep
  <2> QED BY <1>2, <2>2, <2>3 DEF Claim
<1>3. ASSUME NEW s \in Scheduler, Start(s)
      PROVE  PInv'
  <2> PICK r \in Run : r = sched[s].run
    BY DEF IInv, TypeOK, SchedulerRow
  <2>1. /\ runs[r].status = "pending"
        /\ goals' = [goals EXCEPT ![r].status = "running", ![r].version = @ + 1,
                                  ![r].startedAt = goals[r].version, ![r].usage = "reserved"]
        /\ execs' = [execs EXCEPT ![r].status = "running"]
        /\ runs' = [runs EXCEPT ![r].status = "running", ![r].started = TRUE]
    BY <1>3 DEF Start
  <2>2. runs \in [Run -> RunRow] /\ goals \in [Run -> GoalRow] /\ execs \in [Run -> ExecRow]
    BY DEF IInv, TypeOK
  <2>3. runs'[r].status = "running" /\ runs'[r].period = runs[r].period
    BY <2>1, <2>2 DEF RunRow
  <2>4. \A q \in Run : q # r => runs'[q] = runs[q] /\ goals'[q] = goals[q] /\ execs'[q] = execs[q]
    BY <2>1, <2>2
  <2>5. \A q \in Run : GivenBack(runs[q], q)'
    BY <2>3, <2>4 DEF PInv, GivenBack, Given
  <2>6. ASSUME NEW q \in Run
        PROVE  /\ runs'[q].status = "none" <=> runs[q].status = "none"
               /\ runs'[q].period = runs[q].period
               /\ runs[q].status \in Given =>
                    runs'[q].status \in Given /\ execs'[q].spent = execs[q].spent
    <3>1. CASE q = r
      BY <2>1, <2>3, <3>1 DEF Given
    <3>2. CASE q # r
      BY <2>4, <3>2
    <3> QED BY <3>1, <3>2
  <2> QED BY <2>5, <2>6, ReservesFall
<1>4. ASSUME NEW s \in Scheduler, Propose(s)
      PROVE  PInv'
  <2>1. UNCHANGED <<runs, execs>>
    BY <1>4 DEF Propose, Unchanged
  <2>2. CASE UNCHANGED goals
    BY <2>1, <2>2, RunsStep
  <2>3. CASE ~UNCHANGED goals
    <3> PICK r \in Run : r = sched[s].run
      BY DEF IInv, TypeOK, SchedulerRow
    <3>1. /\ goals[r].version = 1
          /\ goals' = [goals EXCEPT ![r].status = "awaiting_authorization",
                                    ![r].version = 2, ![r].planned = TRUE]
      BY <1>4, <2>3 DEF Propose
    <3>2. goals \in [Run -> GoalRow]
      BY DEF IInv, TypeOK
    <3>3. goals[r].usage # "settled"
      <4>1. goals[r].startedAt = 0
        BY <3>1, GoalFacts DEF Account
      <4> QED BY <4>1, GoalFacts DEF Account
    <3>4. \A q \in Run \ {r} : goals'[q] = goals[q]
      BY <3>1, <3>2
    <3> QED BY <2>1, <3>3, <3>4, GoalStep
  <2> QED BY <2>2, <2>3
<1>5. ASSUME NEW s \in Scheduler,
             \/ Read(s) \/ Denied(s) \/ CheckPolicy(s) \/ Prepare(s)
             \/ StartFails(s) \/ RefuseExecutor(s) \/ Interrupted(s)
      PROVE  PInv'
  <2>1. UNCHANGED <<runs, goals, execs>>
    BY <1>5 DEF Read, Denied, CheckPolicy, Prepare, StartFails, RefuseExecutor, Unchanged,
                Interrupted, books
  <2> QED BY <2>1, RunsStep
<1>6. ASSUME NEW s \in Scheduler, Refuse(s)
      PROVE  PInv'
  BY <1>6, RunsStep DEF Refuse
<1>7. CASE CommandFollowup \/ RecordBusiness \/ LoseGrant \/ NewPeriod
  <2>1. UNCHANGED <<goals, execs>> /\ runs' \in {runs, PendingCancelled(runs)}
    BY <1>7 DEF CommandFollowup, Pause, Resume, Stop, RecordBusiness, LoseGrant, NewPeriod, books
  <2> QED BY <2>1, RunsStep
<1>8. ASSUME NEW r \in Run, PlanGoal(r) \/ AcceptGoal(r) \/ ObserveGoal(r) \/ ReconcileUsage(r)
      PROVE  PInv'
  <2>1. UNCHANGED <<runs, execs>>
    BY <1>8 DEF PlanGoal, AcceptGoal, ObserveGoal, ReconcileUsage, owner
  <2>2. \A q \in Run \ {r} : goals'[q] = goals[q]
    <3>1. goals \in [Run -> GoalRow]
      BY DEF IInv, TypeOK
    <3> QED BY <1>8, <3>1 DEF PlanGoal, AcceptGoal, ObserveGoal, ReconcileUsage
  <2>3. ~(goals[r].status \in Given /\ goals[r].usage = "settled")
    BY <1>8 DEF PlanGoal, AcceptGoal, ObserveGoal, ReconcileUsage, Accountable, Given
  <2> QED BY <2>1, <2>2, <2>3, GoalStep
<1>9. ASSUME NEW r \in Run, CancelGoal(r)
      PROVE  PInv'
  <2> DEFINE ended == IF execs[r].status \in {"running", "interrupted"} THEN "cancelled"
                      ELSE execs[r].status
  <2>1. UNCHANGED runs /\ goals[r].status \notin Given /\ execs' = [execs EXCEPT ![r].status = ended]
    BY <1>9 DEF CancelGoal, Given
  <2>2. \A q \in Run \ {r} : goals'[q] = goals[q]
    <3>1. goals \in [Run -> GoalRow]
      BY DEF IInv, TypeOK
    <3> QED BY <1>9, <3>1 DEF CancelGoal
  <2>3. execs'[r].spent = execs[r].spent /\ \A q \in Run \ {r} : execs'[q] = execs[q]
    <3>1. execs \in [Run -> ExecRow]
      BY DEF IInv, TypeOK
    <3> HIDE DEF ended
    <3> QED BY <2>1, <3>1 DEF ExecRow
  <2> QED BY <2>1, <2>2, <2>3, GoalStep
<1>10. ASSUME NEW r \in Run, Execute(r)
       PROVE  PInv'
  <2>1. UNCHANGED <<runs, goals>>
    BY <1>10 DEF Execute
  <2>2. Unsettled(r)
    BY <1>10 DEF Execute, CallModel, Answer, Interrupt, EndExecution, Unsettled, Terminal
  <2>3. \A q \in Run \ {r} : execs'[q] = execs[q]
    <3>1. execs \in [Run -> ExecRow]
      BY DEF IInv, TypeOK
    <3> QED BY <1>10, <3>1 DEF Execute, CallModel, Answer, Interrupt, EndExecution
  <2> QED BY <2>1, <2>2, <2>3, GoalStep
<1> QED BY <1>1, <1>2, <1>3, <1>4, <1>5, <1>6, <1>7, <1>8, <1>9, <1>10 DEF Next, Dispatch

LEMMA PeriodsAtFirst == Init => PInv
<1> SUFFICES ASSUME Init
             PROVE  PInv
  OBVIOUS
<1>1. \A r \in Run : runs[r].status = "none"
  BY DEF Init, NoRun
<1>2. \A p \in Nat \ {0} : OfPeriod(runs, p) = {}
  BY <1>1 DEF OfPeriod
<1>3. SumFunctionOnSet(Reserve, {}) = 0 /\ PeriodTokens \in Nat
  BY SumOfNothing, FollowupAssumption
<1>4. Reserved
  BY <1>2, <1>3 DEF Reserved
<1> QED BY <1>1, <1>4 DEF PInv, GivenBack, Given

(* What is reserved bounds what is really spent. *)
LEMMA ReservesBoundCost ==
  ASSUME IInv, PInv
  PROVE  WithinPeriod
<1> SUFFICES ASSUME NEW p \in 1..period
             PROVE  SumFunctionOnSet(CappedCost, OfPeriod(runs, p)) =< PeriodTokens
  BY DEF WithinPeriod
<1> DEFINE S == OfPeriod(runs, p)
           cost == SumFunctionOnSet(CappedCost, S)
           reserve == SumFunctionOnSet(Reserve, S)
<1>1. p \in Nat \ {0}
  BY DEF IInv, TypeOK
<1>2. reserve =< PeriodTokens
  BY <1>1 DEF PInv, Reserved
<1>3. /\ IsFiniteSet(Run) /\ PeriodTokens \in Nat
      /\ \A r \in Run : CappedCost[r] \in Nat /\ Reserve[r] \in Nat /\ CappedCost[r] =< Reserve[r]
  BY ReserveIsNatural DEF ReserveTypeOK
<1>4. S \subseteq Run
  BY DEF OfPeriod
<1>5. IsFiniteSet(S)
  BY <1>3, <1>4, FS_Subset
<1> HIDE DEF S
<1>6. cost \in Nat /\ reserve \in Nat
  BY <1>3, <1>4, <1>5, SumIsNatural
<1>7. cost =< reserve
  BY <1>3, <1>4, <1>5, SumIsMonotone
<1> HIDE DEF cost, reserve
<1>8. cost =< PeriodTokens
  BY <1>2, <1>3, <1>6, <1>7
<1> QED BY <1>8 DEF cost, S

----------------------------------------------------------------------------
(* The theorems *)

LEMMA Initially == Init => IInv
<1> SUFFICES ASSUME Init
             PROVE  IInv
  OBVIOUS
<1>1. NoRun \in RunRow /\ NoGoal \in GoalRow /\ NoExec \in ExecRow /\ Idle \in SchedulerRow
  BY ConstantTypes DEF NoRun, RunRow, NoGoal, GoalRow, NoExec, ExecRow, Idle, SchedulerRow
<1>2. TypeOK
  BY <1>1, ConstantTypes DEF Init, TypeOK, PolicyStatus
<1>3. \A r \in Run : runs[r] = NoRun /\ goals[r] = NoGoal /\ execs[r] = NoExec
  BY DEF Init
<1>4. Accounts
  BY <1>3 DEF Accounts, Account, NoGoal, NoExec
<1>5. Coherent
  BY <1>3 DEF Coherent, Consistent, Paid, NoRun, NoGoal
<1>6. \A r \in Run : runs[r].status = "none" /\ ~Burden(r)
  BY <1>3, ConstantTypes DEF Burden, Unsettled, NoRun, NoExec
<1>7. OnePending /\ OneAtWork /\ NothingLeftToStart
  BY <1>6 DEF OnePending, OneAtWork, NothingLeftToStart, Pending
<1>8. MadeInOrder
  <2>1. Made = 1..0 /\ 0 \in 0..MaxRuns
    <3>1. Made = {}
      BY <1>6 DEF Made
    <3> QED BY <3>1, ConstantTypes
  <2> QED BY <2>1 DEF MadeInOrder
<1> QED BY <1>2, <1>4, <1>5, <1>7, <1>8 DEF IInv

LEMMA Inductive == IInv /\ [Next]_vars => IInv'
<1> SUFFICES ASSUME IInv, [Next]_vars
             PROVE  IInv'
  OBVIOUS
<1>1. CASE UNCHANGED vars
  <2>1. UNCHANGED books /\ policy' = policy
    BY <1>1 DEF vars, books
  <2>2. TypeOK'
    BY <1>1 DEF IInv, TypeOK, vars
  <2> QED BY <2>1, <2>2, BooksStep
<1>2. ASSUME NEW s \in Scheduler, Claim(s) \/ Dispatch(s) \/ Interrupted(s)
      PROVE  IInv'
  <2>1. CASE Interrupted(s)
    <3>1. UNCHANGED <<policy, cursor, books, grant, ledger, period>> /\ events' = events + 1
      BY <2>1 DEF Interrupted, Event, owner
    <3>2. sched' \in [Scheduler -> SchedulerRow]
      BY <2>1, SchedulerMoves DEF Interrupted, IInv
    <3>3. TypeOK'
      BY <3>1, <3>2 DEF IInv, TypeOK, books
    <3> QED BY <3>1, <3>3, BooksStep
  <2> QED BY <1>2, <2>1, ClaimStep, DispatchStep
<1>3. ASSUME NEW r \in Run,
             \/ PlanGoal(r) \/ CancelGoal(r) \/ AcceptGoal(r) \/ Execute(r)
             \/ ObserveGoal(r) \/ ReconcileUsage(r)
      PROVE  IInv'
  BY <1>3, PlanGoalStep, CancelGoalStep, AcceptGoalStep, ExecuteStep, ObserveGoalStep,
     ReconcileUsageStep
<1>4. CASE CommandFollowup \/ RecordBusiness \/ LoseGrant \/ NewPeriod
  BY <1>4, OwnerStep
<1> QED BY <1>1, <1>2, <1>3, <1>4 DEF Next

(* The invariant that the theorems below are read from. *)
THEOREM Invariance == Spec => []IInv
<1>1. Init => IInv
  BY Initially
<1>2. IInv /\ [Next]_vars => IInv'
  BY Inductive
<1> QED BY <1>1, <1>2, PTL DEF Spec

(* Every reachable state is well typed. *)
THEOREM TypeCorrect == Spec => []TypeOK
<1>1. IInv => TypeOK
  BY DEF IInv
<1> QED BY <1>1, Invariance, PTL

(* At most one Execution of a follow-up works, or has a cost that is unknown *)
(* or beyond its cap, whatever the schedulers do.                            *)
THEOREM OnlyOneAtWork == Spec => []OneAtWork
<1>1. IInv => OneAtWork
  BY DEF IInv
<1> QED BY <1>1, Invariance, PTL

(* A policy that has ended leaves nothing that could still start. *)
THEOREM EndedLeavesNothing == Spec => []NothingLeftToStart
<1>1. IInv => NothingLeftToStart
  BY DEF IInv
<1> QED BY <1>1, Invariance, PTL

(* A reservation is released only with the true and final cost on the books. *)
THEOREM ReleasesArePaid == Spec => []ReleasedIsPaid
<1>1. IInv => ReleasedIsPaid
  BY DEF IInv, Coherent, Consistent, Paid, ReleasedIsPaid
<1> QED BY <1>1, Invariance, PTL
(* What the runs of a period really cost, each up to its cap, never exceeds  *)
(* the period's budget, whatever becomes of their goals.                     *)
THEOREM PeriodsStayWithinBudget == Spec => []WithinPeriod
<1>1. Init => IInv /\ PInv
  BY Initially, PeriodsAtFirst
<1>2. IInv /\ PInv /\ [Next]_vars => (IInv /\ PInv)'
  BY Inductive, PeriodsKept
<1>3. IInv /\ PInv => WithinPeriod
  BY ReservesBoundCost
<1> QED BY <1>1, <1>2, <1>3, PTL DEF Spec

=============================================================================

# Verification of 木牛 (Muniu) Agent OS

TLA+ modules of the core of Muniu, the TLC runs that check them on small
instances, and proofs, checked by TLAPS, of their main theorems. Paths are
relative to the repository; `sqlite.ts` is `packages/storage/src/sqlite.ts`,
`kernel.ts` is `packages/kernel/src/kernel.ts`, `worker/index.ts` is
`apps/worker/src/index.ts` and `agent.ts` is `packages/agent-runtime/src/agent.ts`.

Contents: [the system](#1-the-system) · [modules](#2-modules) ·
[runs](#3-runs-bounds-and-fairness) · [disagreements found](#4-where-code-and-documents-disagree) ·
[proofs](#5-proofs) · [limits](#6-what-is-not-modelled) · [plan](#7-plan)

## 1. The system

Users post work over HTTP to a **host**. Its **kernel** turns each piece of work
into an *Execution* and a durable *job*. **Worker** processes poll for jobs, open
the **agent runtime** of the Execution on its persisted records, and drive the
turns of a model and its tools. Tools with effects need a person's approval. A
*goal* may be carried out by a **team**: a plan whose nodes are Executions.

Components do not send each other messages. They share the **store** (SQLite on
one connection, `serial-methods.ts`, or PostgreSQL), and every operation of one
on another is a transaction, or a poll that sees what a transaction left behind.
Events, projections, jobs, approvals and idempotency records change in one
transaction (`docs/architecture.md`), which is why one TLA+ action stands for
one transaction.

| Component | State | Operations | Talks to | What is hard | What makes it correct |
|---|---|---|---|---|---|
| Job queue (`sqlite.ts`) | rows of `jobs`: status, owner, lease, fencing token | put, claim, renew, settle, invalidate, assert a lease | kernel (inside its transactions), workers | skewed clocks, handlers that outlive their lease, late settlements | one accepted owner, tokens in order, outcomes final |
| Execution (`kernel.ts`, `approvals.ts`, `authority.ts`, `tool-admission.ts`) | status, generation, approvals, admissions, memberships | submit, cancel, resume, ask and decide an approval, revoke | users, runtime, job queue | decisions, revocations and cancellations against calls in flight | no stranded Execution, no call without the approval of people who may give it |
| Worker (`worker/index.ts`, `approval.ts`) | the handler it runs, its timers | poll, build the runtime, observe cancellation, settle | job queue, runtime | crash, stop, lost lease, refused settlement | one runner, ends are reported once |
| Agent runtime (`agent.ts`, `approval-recovery.ts`) | the runtime records (an append-only log), status in memory | open and recover, resume, turn, call, approval wait, interrupt | store (fenced), kernel through ports | a crash between any two records | a call with an unknown effect is never overtaken |
| Inbox (`inbox.ts`) | items, turns and their completion, all derived from the log | enqueue, begin a turn, apply steers, complete | host (posts), drain loop | posts between a read and the commit decided from it | nothing accepted is lost, order is kept |
| Model budget (`model-budget.ts`) | reservations and bills in the log | reserve, settle, spawn a child | model invoker | concurrent callers, lost answers, high bills | the frozen limit holds |
| Team plans (`kernel/src/coordination.ts`, `team-runtime.ts`) | group, runs, gates, attempts | create, rework, command, decide, admit, settle, reconcile | host, Executions, workers | supersession and cancellation against attempts at work | budget, dependencies, no repetition beside an unknown effect |
| Plug-in installation (`plugin-installation.ts`, requests of `host.ts`, `plugin-worker.ts`) | installation and lifecycle records, plug-in lock, operation markers, use leases; definitions each Host has loaded | install, update, disable, purge, activate, refresh; enable a workspace, submit and resume turns | signed repository, Executions, other Hosts | one operation is several transactions with drains and file work between them, and other Hosts run beside it | a turn runs only on what is installed and active, a revoked release is found and never comes back |
| Key revocation (`key-revocation.ts`) | record and inbox item; calls the provider has not answered | drain, retry | key provider, owners | an irreversible call, slow providers, crashes, several drainers | never repeated without a person, and recorded in the end |
| Follow-ups (`followup-runtime.ts`, `followups.ts`, `followup-authority.ts`) and their goals (`goals.ts`) | policy, cursor, runs, goals, usage | claim, dispatch, observe; pause, resume, stop; plan, cancel, accept a goal | business ledger, goals, Executions, model budget | a run is reserved in one transaction and started in several later ones, on any Host | one run at work, the budget of a period, no change lost |
| External Runner of a Coding Execution (`apps/worker/src/coding.ts`, `runner-supervisor.ts`, `runner-claude-cli/src/adapter.ts`) and its reconciliation (`coding-reconciliation.ts`) | run and Execution records, jobs; sandbox directory, supervision file, the processes; what a handler holds in memory | approve, checkpoint, launch, watch, judge, repair, commit, clean up; recover; cancel, terminate, verify, replace | job queue, kernel, operators, a command line program | a process that outlives the worker which started it; records, files and processes change in separate steps | nothing is left at work, what is confirmed as stopped is, a person is asked about what nobody knows |
| Event log and projections, PostgreSQL, encryption and CAS, business actions, external reads, memory, user interfaces | see `PROJECT.json` | | | | |

`PROJECT.json` lists every component with its sources, also those that are not
modelled, and, under `hazards`, what is hard to test, at the line where it bites
and with the properties that watch it.

## 2. Modules

```
FencedJob      <--implements--  JobLease
ExecutionLife  <--implements--  AgentTurn  --extends-->  Execution
Inbox           ModelBudget     Coordination
PluginInstallation              KeyRevocation
Followups                       CodingRunner

DurableWorkProofs         JobLease (and that it implements FencedJob), KeyRevocation
AgentTurnProofs           Execution, AgentTurn (and that it implements ExecutionLife)
RuntimeRecordsProofs      ModelBudget, Inbox
CoordinationProofs        Coordination
PluginInstallationProofs  PluginInstallation
FollowupsProofs           Followups
CodingRunnerProofs        CodingRunner
SumLemmas                 sums over finite sets, for Coordination and Followups
```

`MC*.tla` give the constants that a cfg cannot write; the other modules are
checked directly. The modules share assumptions rather than variables: what
`JobLease` shows of a job (one accepted owner, final outcomes) is the guard
`Owns` of `AgentTurn`; the worker steps of `Coordination`, `PluginInstallation`
and `Followups` are what `AgentTurn` shows of an Execution, seen from outside.

Every action is one transaction of the code, or one step of a handler between
two transactions. A definition marked *Mutant* is a deliberate mistake: it shows
what the properties are sensitive to and is not part of any specification.

### JobLease and FencedJob — the job queue

`FencedJob` is the contract other components rely on, without clocks or
processes: every hand-out has a larger token, only the bearer of the newest one
writes or closes, a closed job stays closed. `JobLease` is the code: a row per
job (`jobs`), `Claim` for `claimJob` and the poll that starts a handler,
`RenewLease`, `SettleLeased` (complete, fail, interrupt, and settlement inside a
kernel transaction), `FencedWrite` (`fencedCodingStore`, `assertJobLease`),
`InvalidateJob`, `PutJob`. `active` are handlers a `pollOnce` call still awaits,
`detached` those whose renewal failed while they went on. `written[j]` is a
history variable: the token of the last fenced write.

Timestamps are read by the calling process before its transaction starts. A
stamp is thus any value from the claim of the handler up to `time + MaxSkew`:
late calls, reordered renewals and fast clocks are all in this one choice.

### Execution, AgentTurn and ExecutionLife — a turn under several workers

`Execution` holds the transactions of kernel and storage that touch one
Execution; `AgentTurn` adds its log, the handlers and the faults. `ExecutionLife`
is what both promise to those who only look at an Execution (its owner, goals,
teams, follow-ups): no jobs, leases, workers or members, only the status, what
people were asked and answered, and how far each call is known to have gone. An
answer never outlives a stop or a resume; a call starts at most once, with the
approval it needs; an Execution completes or pauses with no call in flight that
may not be replayed; it loses track only of a call whose record was closed
without a result. `Life` in `AgentTurn` is the refinement mapping. After a loss
of role (`disturbed`) the guards about calls in flight are dropped, as the *stale
generation* of section 4 does break them.

| Variable | Code |
|---|---|
| `exec` | the execution projection; `cancelGen`: the `execution-control` record |
| `jobs[g]` | the `agent.execution.run` job of generation `g`; `lapsed`: its lease ran out (the arithmetic is JobLease's) |
| `tool[c]` | approval, `toolAdmission` and intent of call `c`, as the kernel sees them |
| `member` | roles of the initiator and of the approver; `epoch` counts revocations |
| `log` | what recovery reads of the runtime records: last status, and how far each call is recorded |
| `handlers` | each started `createAgentTurnHandler`, by program point; `cap` is the generation `resolveOptions` captured |

`Claim`, `CloseStoppedJob` → `claimJob`; `Prepare` → `resolveOptions`; `Open*` →
`AgentHandle.open` and `#recover`; `Resume` → `resume`; `Begin` … `Complete` →
`#drain`, `#runModelBoundaries`; `PersistIntent`, `EnterApprovalWait`,
`AuthorizeAuto`, `AskApproval`, `LeaveApprovalWait`, `Dispatch`, `ToolReturns`,
`ToolThrows`, `DeclareUnknown` → `#authorizeAndExecute`, `#resumeWaitingApproval`
and the approval port; `Commit` → the `onCommit` hook, which settles job and
Execution with the status record; `ObserveControl` → `observeExecutionControl`;
`Settle` → the end of `pollOnce`.

The runtime store of a handler asserts its lease in every transaction (`Step`
requires `Owns`), which the local host always configures (`local.ts:169`). The
approval port uses the plain kernel: `AskApproval` alone needs no lease. Each
call id occurs at most once. A refused settlement ends the worker's loop; the
process is assumed to be started again.

### Inbox — messages, steers and resumption

`log` holds the items in order of acceptance, which of them are consumed, the
turns begun and the turns completed; `h` the handler with its program point, its
status in memory and the records it read last; `exec` the Execution's status and
the command of its job. A commit is refused when the records differ from those
read (`expectedLastSequence`). A completed, paused or failed status record
settles the job in its transaction, so a `follow_up` is either before the
completion, and forces another turn, or refused. A stopping worker sets the
status in memory at once and writes its record later (`void handle.interrupt()`);
`interruptJob` may win over that record. Tools, approvals and cancellation are
AgentTurn's; one handler runs at a time.

### ModelBudget — reservations of one Execution

`records` has the frozen limit, what is allocated (the running total of
`reduceModelBudget`), open requests, the overrun mark and the last sequence.
Each caller reads, decides and commits, and reads again when it was overtaken.
One amount stands for tokens and cost, which are checked alike. Limits may
differ between runs; the smaller of the frozen and the configured one holds.

### Coordination — team plans

`group` (plan, current run, deadline, the initiator's membership), `runs` (status, cap,
reused attempts), `gates` and `att` (Execution, the attempt's own record, job,
open call, tokens in flight and spent, whether an answer exceeded its
reservation, bill). Plan actions (`Create`, `CommandRun`, `Decide`,
`RecordBill`), host actions (`Admit`, `SettleUsage`, `Reconcile`),
worker actions (`Claim` … `SettleAttempt`) and the environment
(`DeadlinePasses`, `ChangeRole`, `Revoke`) each re-read what they rely on, as
the transactions do; stream versions are therefore left out. Coordinated
Executions accept no commands of users (`host.ts:1859`), so they have one
generation. A lost lease is not a state of its own: the job is settled, or
closed by the sweep, later. The host always asks for attempt 1; the kernel
allows repetition and the model has it.

A provider may bill more than was reserved (`PersistentModelBudget.settle`
records the overrun and ends the turn), and the plan's accounting takes the bill
as it is (`coordination.ts:457-488`): it counts in full in every later admission,
but nothing undoes it. The goal's rework by an external CLI is a plan of one node
(`goal-delivery-service.ts:211-233`) whose bill a person records once, of any
amount (`RecordBill`). `SpendWithinCap` therefore counts, of an attempt with such
a bill (`overrun`), no more than its reservation (`Share`): what may come on top
is the excess of one bill per attempt, and nothing else. `Plans` are the node sets
a goal may have, `External` the nodes of a CLI, `MaxOver` by how much TLC lets a
bill exceed the reservation.

### PluginInstallation — plug-ins on several Hosts

A Host runs its installer's operations one after another (`#exclusive`), but an
operation is several transactions, and only two records keep Hosts apart.

| Variable | Code |
|---|---|
| `rec`, `lock` | the installation with its lifecycle record, written together; the plug-in lock, written whole from the rows an operation read |
| `marker`, `leases` | the operation marker of a plug-in (`#beginOperation`) and the use leases of requests (`#acquireUseLease`) |
| `ws`, `exec` | the workspace activation and the open Execution, with the release it was submitted on, whether the worker's resolver let it through, and whether an interrupt was requested |
| `op[h]` | the installer operation of Host `h`: program point, what it has read, and whether the stream version it read is still current (`fresh`) |
| `req[h]`, `host[h]` | the request it serves with its leases; what it has loaded, activated and blocked in memory |
| `revoked` | releases the signed repository revokes |

`ReadInstall/Update/Disable/Purge`, `Begin` or `Refuse`, `Drain` or `Abort`,
`Commit*`, `LoadUpdate`, `FinishOperation` are the transactions of `install`,
`update`, `disable`, `purge`; `ReadActivate`, `CommitActivate` those of
`activate`; `SyncRead`, `SyncMark`, `SyncLoad`, `SyncDone` those of the refresh
(`initialize`). `Ask` … `SubmitTurn`, `EnableWorkspace`, `ReleaseLease`,
`DisableWorkspace` are the routes of `host.ts`; `Resolve`, `StartTurn`,
`FinishTurn`, `StopTurn`, `ResumeTurn` the worker and the Execution as far as a
plug-in sees them. `Crash` leaves markers and leases to `Gone`, which nothing
removes. `Admin` and `Front` say at which Hosts an instance administers and
serves; the theorems are for all Hosts doing both.

### KeyRevocation — one irreversible deletion

`rec` and `inbox` change in one transaction (`transition`), which compares the
stream version with the one the drainer holds. `calls` are all deletions ever
sent: each is in flight, done or lost, independently of what the drainer that
sent it believes (`CallReturns`, `CallFails`, `GiveUp`). `drain[x]` is a call of
`drainKeyRevocations`: request handlers, the timer and each restart make them
freely. `Ask` and `Retry` separate a decision from its arrival, so decisions
arrive late, twice, or after another one. `Age` makes a run older than 30 s.

### Followups — a policy, its runs and their goals

`policy`, `cursor` and `runs` are the follow-up's records; `goals` and `execs`
the goal and Execution of each run, `execs[r].spent` what it truly cost; `ledger`
the business, `period` the clock, `grant` everything else an authorisation names.
`sched[s]` is a Host in `recoverFollowups`. `Claim` is one transaction (observe
the runs, expire, invalidate, exhaust, or reserve a run with its goal);
`Dispatch` is `Read`, `CheckPolicy`, `Propose`, `Prepare`, `Start` and their
failures `Denied`, `StartFails`, `RefuseExecutor` (a plan of the owner's names
an executor that was not granted), `Interrupted`, each a transaction of its own.
The owner's commands are `Pause`, `Resume`, `Stop`, `PlanGoal`, `CancelGoal`,
`AcceptGoal`; the Execution's are `CallModel`, `Answer`, `Interrupt`,
`EndExecution`; `ObserveGoal` is the host's accounting of goals, and
`ReconcileUsage` what remains of it where the observation itself fails. Rework of a
delivery is left out. `"interrupted"` stands for paused as well; the plan of a
follow-up has no tools and its Execution takes no commands (`host.ts:1860`).

### CodingRunner — an external Runner, its supervisor and its reconciliation

The one component whose state is not only in the store. One step changes the
records, or the machine, or the memory of one handler; what the code does
between two of them can be cut off.

| Variable | Code |
|---|---|
| `db` | one transaction's view: the Execution's status and cancel command, the last status of the runtime log (`log`), started calls without a result (`unsettled`), the coding run (`phase`, `result`, `stopped`, `verification`, `cleanup`), the jobs `turn`, `verify`, `cleanup` with the handler that holds the lease |
| `disk` | the worker's machine: the sandbox, what the supervision file says (`proof`), supervisor, Runner, and the control pipe between worker and supervisor |
| `h[w]` | one handler call: program point, engine outcome, whether files are kept (`preserveForReconciliation`), whether it has checkpointed and launched, whether it saw the proof, why its signal was aborted |
| `late`, `faults` | the duration budget is used up; faults so far |

`ClaimTurn`, `StartTurn`, `RecoverTurn`, `InspectRepository`, `PrepareSandbox`,
`Authorize`, `CheckFails`, `Checkpoint`, `Launch` are the turn handler up to the
start of the Runner (`createCodingTurnHandler`, `ExternalCodingRunner.start`,
`#authorizeAndCheckpoint`, `persistExternalInvocationStarted`).
`SupervisorStarts`, `RecordRunning`, `StopRunner`, `FinishSupervision` are
`runner-supervisor.ts`, `RunnerExits` the program, `OrphanRunner` the death of
its supervisor. `HarvestRunner`, `EventsBreak`, `StartGate`, `GateEnds` are the
events and the engine's loop with its repairs; `CommitResult`, `Unwind`,
`Settle*`, `FailTurn`, `ReportUnknown`, `MarkUnknown`, `DropTurn` the end of a
turn (`persistCodingResult`, `cleanup`, `finalizeCodingRuntime`, `pollOnce`), and
`AwaitRunner` the recovery of a started one. `CancelExecution`, `DenyCandidate`,
`ApproveCandidate`, `Terminate`, `RequestVerification` are people;
`VerifyCandidate` … `CloseSideJob` the two side jobs.

There is one machine, one generation and one turn. `"running"` stands for
`waiting_approval` as well. The source repository, the candidate and what its
check finds are outcomes, not data. Pids are not reused, and only the model's
faults end a supervisor before its Runner.

## 3. Runs, bounds and fairness

| Run | Instance | Shows |
|---|---|---|
| `job_lease` | 2 workers (one serves only job 1), 2 jobs, lease of 1 tick, skew 1, time 0–1, 2 tokens per job | one accepted owner, no write and no result of an attempt older than the last that wrote, and the refinement of `FencedJob` |
| `agent_turn` | 2 workers, a call that needs a person and one that does not, 2 generations, 1 fault of any kind, fair | a stranded or undecidable Execution, two runners, a call started behind a call with an unknown effect: none is reachable; workers, runtime and kernel implement `ExecutionLife`; every run ends and every cancellation takes effect |
| `agent_revocation` | the same without faults, 2 revocations with restored roles | an approval given before a revocation does not count after it |
| `team_plan` | draft → approval → check, or one node of an external CLI; cap 2, bills up to 1 above their reservation of 1, 2 revisions, up to 3 attempts, fair | budget but for overruns of single bills, dependencies, unknown outcomes, repetition of failures only, quiet after cancellation and revocation; every active plan ends or rests for a visible reason |
| `inbox` | 2 posts, 2 resumes, 1 crash, 1 stop, 2 model boundaries, fair | nothing left behind, order of turns, resumption first, every run without a stop ends |
| `model_budget` | 2 callers, limits 3 and 4, two quotes, a child of 2, bills up to 2+2, 4 records | the limit, one open request |
| `plugin_use` | Host `h1` administers, `h2` serves, 1 plug-in, 2 releases, 1 revocation, crashes | a permitted turn is on the installed release; disabled means drained |
| `plugin_management` | both Hosts administer and refresh, fair | releases never go down; every refresh reaches a revoked release |
| `key_revocation` | 2 drainers, 2 decisions (duplicated and late at will), 1 crash, fair | each deletion is decided upon, the record tells the truth, accepted decisions are carried out, a deletion that happened is recorded |
| `follow_ups` | 2 schedulers, 2 contents, 2 runs in a period of 3 tokens, cap 2, 3 ledger versions, 1 event, fair | one run at work, the period's budget; a pending run is decided and a change is taken up |
| `coding_runner` | 2 handler calls at a time, 1 fault: crash, lapsed lease, stop or killed supervisor; fair | no Runner behind an ended Execution (one way out, section 4) or deleted files; whoever relies on its end is right; what a person ended stays ended; Runner and turn end |
| `started_runner_paused` | 2 handler calls, 1 crash | the disagreement of section 4: a started Runner whose turn is recovered too late is paused over |

**Why these bounds suffice.** Two workers are a holder and its successor, and a
third would only repeat the second; two tokens or generations give an old and a
new one, and one fault is enough for each of the fault kinds to meet every step
of a turn. (Larger instances were run during development without a new
result: two faults of the kinds crash and lapse, 1.35 million states; one
revocation together with one fault, 9.5 million; plug-ins with two
administering Hosts of which one serves, 4 million; follow-ups with two events,
1.3 million.) Two nodes and two revisions
are the least in which results are reused and a revision is superseded while its
attempts work; with cap 2 the budget binds. Two posts and one crash order
messages around a resumption. Two Hosts are one inside an operation and one
beside it, two releases an old and a new one; a single plug-in suffices as only
the lock relates plug-ins (section 4). Two handler calls of CodingRunner are one
that was replaced and its successor, or a turn and a side job; the number of
calls over time is not bounded, that of faults is. Safety was also run with two
faults (3.9 million states) and with three (11 million); the third reaches the way
out that `NoRunnerBehind` names (section 4, *lost interruption*). Two
drainers and two decisions give a drainer that is late for the run of another
and a decision that is late for the item of another. Two runs and one event are
a run, its successor and one disturbance of either. Bounds are constants whose names begin with `Max`
and appear as guards; `CHECK_DEADLOCK FALSE` is set because all of these systems
come to rest: jobs are settled, users need not act, bounds are used up.

**Fairness.** Weak fairness only, and none for users, faults, or what a model or
a tool answers.
- *AgentTurn*: each worker process keeps polling and keeps taking some step of
  its handlers; intents expire and leases without a living owner lapse with
  time. The poll loop and the timers of `pollOnce` justify the first, the clock
  the second. A tool or model that never answers is cut off by the duration
  budget (`budget.ts`).
- *Inbox*: claiming, the handler's own steps, and the promise that writes an
  owed interrupted record.
- *PluginInstallation*: an operation that was begun is continued, and the
  refresh timer (`schedulePluginRefresh`, `host.ts:2935`) completes a refresh
  again and again. This is strong fairness of the refresh: other operations of
  the Host may keep it waiting, but it is queued behind them, never starved.
- *KeyRevocation*: the timer and the restarts of the Hosts drain again and again
  (`scheduleRevocationRecovery`, `host.ts:2915`); a confirmation is asked often
  and not always in vain (strong fairness of `Confirm`). No fairness for the
  provider's deletions or for people.
- *Followups*: each scheduler polls and finishes its dispatch, the host observes
  each goal (`recoverGoals`) and does not fail at it for ever, a running Execution
  takes steps.
- *CodingRunner*: a handler goes on with its turn and with its side job and its
  deadline timer fires, the supervisor is scheduled, the clock of the duration
  budget runs, leases without a handler lapse. None for people, for the Runner
  ending by itself, or for a handler noticing a cancellation or a lost lease.
- *Coordination*: workers claim and settle, and the host, whose timer observes
  every unfinished goal in turn (`recoverGoals`, `host.ts:2955`), admits, bills
  and reconciles attempts of the current run.

`EveryRunEnds` leaves out runs in which a worker is stopped, because there it
does not hold (section 4, note *late record*).

`OneRunner` and `NothingBehindOpenCall` speak of an Execution on which nobody has
lost a role yet (`member.epoch = 0`) because the *stale generation* of section 4
breaks them afterwards, and `agent_turn` has no revocations; the theorems cover
every `MaxEpoch`. For the same reason `DispatchIsApproved` compares epochs only
while the Execution has not ended, and `ExecutionLife` promises less once it is
`disturbed`. The mapping to `ExecutionLife` was also run with two faults and on
the constants of `agent_revocation`.

## 4. Where code and documents disagree

**A started Runner may end as paused** (run `started_runner_paused`,
`agent.ts:484`). A worker dies with the Runner's call started and no outcome
recorded. When its turn is recovered after the duration budget,
`remainingMilliseconds` throws at the head of `#runTurn`, before the started call
is looked at; `#recover` makes that the status `paused` (`agent.ts:333`), with
which Execution and job are settled (`finalizeCodingRuntime`).
`docs/architecture.md:82` says of the time budget that an external
Runner which was started and whose outcome is unknown goes to reconciliation
even so, and is not treated as an ordinary timeout. A resumption meets the same
exhausted budget; a cancellation leads to `needs_reconciliation`, where every
decision is refused, as the run has no unknown outcome on record
(`coding-reconciliation.ts:316`).

Met while modelling, taken as steps by the modules, and not given runs:

- *Unknown effect, completed Execution* (`agent.ts:358`). `tool/outcome_unknown`
  and the status `needs_reconciliation` are two transactions. After a crash
  between them no call is unresolved for recovery; the Execution is interrupted,
  can be resumed and completes, with the admission still open.
  `docs/architecture.md:145` says such calls stay with a person.
- *Plug-in lock* (`plugin-installation.ts:610`). The lock is written whole, from
  rows an earlier transaction read. Two Hosts that change different plug-ins at
  once write one another's change out of it; the next refresh of any Host then
  fails every plug-in, while `docs/reference/plugins.md:55` says that a plug-in
  at odds with the lock fails alone. An instance with two plug-ins shows it.
- *Stale generation* (`worker/index.ts:694`). An Execution is interrupted before
  its job is claimed, for instance by a revocation, and resumed. Its first job
  is still available, and the handler that claims it captures the *current*
  generation; nothing compares `job.payload.generation`. The Execution then has
  two runners. `docs/adr/0013-goal-delivery-orchestration.md:79` says that an
  old generation can neither start nor commit.
- *Late question* (`worker/approval.ts:62`). The approval port uses the plain
  kernel, so a handler that has lost its lease may still ask. The Execution then
  waits for a person, or fails with a denial, while the successor goes on; a call
  may start in either. `ExecutionLife!Start` says so.
- A budget that runs out during an approval wait fails the Execution
  (`sqlite.ts:1627`): the `paused` record settles through a check that accepts
  only a running Execution.
- A stop before the first record forgets the first input
  (`worker/index.ts:585`): the resumed Execution has a job without a message.
- A transient error while a reclaimed handler is built (`worker/index.ts:552`)
  fails an Execution whose log has a call in flight (`TransientError`).
- A stop inside a recovered approval wait, or between an intent and its wait,
  fails the Execution (`agent.ts:420`); an ordinary wait is interrupted.
- An approval intent that is abandoned by a stop stays unresolved; a second wait
  that crashes then has two unresolved intents and cannot be recovered.
- A stop during `resume()` is dropped (`agent.ts:186`), and the worker goes on.
- *Late record*: an `interrupted` record that lands after the `running` record
  of a resumption leaves the drain loop with nothing to take and nothing to
  complete: `completeIfEmpty` does neither while the log's status is not
  `running` (`inbox.ts:84`), and the loop reads again without end.
- A crash between the `queued` and `running` records of a resumption makes the
  reclaimed job fail, as a resume job must find a stopped log.
- Plug-ins: a load failure that a refresh met is recorded on the *current* row,
  also when another Host has meanwhile upgraded it; the marker and the leases of
  a crashed Host, and the marker of an operation whose abort fails, stay until
  somebody clears them, and readiness says so (`plugin-installation.ts:435`).
- Follow-ups: *any* business record between a claim and its start makes the goal
  stale (`business-context.ts:74`, `GOAL_RESOURCE_CHANGED`) and invalidates the
  policy; a policy that names a second object (`OtherRefs`) is invalidated by the
  very change it watches. `FollowupsPanel.tsx:14` lists four reasons to stop,
  neither of these among them. A start that is repeated after its owner planned
  the goal anew is refused as a reused key, which also invalidates. A run whose
  draft goal the owner cancels stays pending for good, as `claim` returns it for
  ever and `dispatch` leaves without a word; `PendingIsDecided` and
  `ChangeIsTakenUp` name this exception. One bill above its cap keeps a run in
  `needs_reconciliation`. That an unknown result stops further runs
  (`docs/architecture.md:43`) holds, and is proved (`OnlyOneAtWork`).
- Coding path, undecidable reconciliations: a run that is cancelled after its
  call was recorded and before its launch, or whose Runner's end was never proved
  (a crash between checkpoint and launch; recovery waits five seconds, once), is
  refused every decision for good, while `docs/architecture.md:122` promises a
  choice. A verification job that is interrupted or fails leaves the verification
  pending, and `terminate` then asks for a job that is no longer there.
- Coding path, repairs: a repair by an external Runner finds the supervision file
  of the first attempt saying `terminated`, and its supervisor refuses to start
  (`runner-supervisor.ts:31`, `coding.ts:1873`); the three repairs of
  `docs/architecture.md:82` do not happen. `ConfirmedIsStopped` rests on the same
  refusal.
- Coding path, files: what is kept is decided from the local result before the
  transaction (`coding.ts:779`); a cancellation or a lost lease that arrives in
  between deletes the sandbox of a candidate that is to be reconciled. A crash
  between deleting the files and recording it makes the cleanup fail for ever.
  The sandbox of an interrupted turn is never cleaned.
- Coding path, *lost interruption* (three faults): a worker dies with the Runner's
  call started, its successor is told to stop while it awaits the Runner, writes
  `interrupted` to the log and is lost before it settles the job. Whoever reclaims
  the job finds that status (`coding.ts:456`), and its `RuntimeControlError` fails
  the Execution (`worker/index.ts:963`) without the reconciliation that
  `docs/architecture.md:82` wants for a started Runner, which may still be alive.
- Coding path, ends: a worker that stops turns an unknown outcome into
  `interrupted`, as `pollOnce` looks at the stop signal before the error;
  `markNeedsReconciliation` overwrites any status, also `cancelled`. A launch does
  not ask whether the Execution is still running: the Runner of a cancelled one
  may start and is then stopped at once. The supervisor's `catch` also covers a
  failed write of `"running"`, and then says `terminated` beside a live Runner
  (left out of the model); the adapter's `SIGKILL` reaches the supervisor and not
  the Runner's group (`OrphanRunner`).

## 5. Proofs

`tlapm` checks every obligation; no step is assumed. Constants are constrained
only by the named assumption of each module, which TLC evaluates in the runs.

| Module | Theorems | Argument |
|---|---|---|
| `DurableWorkProofs`, JobLease | `LeaseTypeCorrect`, `TokensAreUnique`, `OwnerIsUnique`, `WritesNeverGoBack`, `SettlementIsFinal`, `Refinement` | `LeaseIInv`: types, `RowInv` (a leased row has an owner, a settled one has none, a job never leased has token 0, only a settled one has a result), handlers' tokens are unique and not newer than the row's, writes and results carry no newer token. Uniqueness of tokens is what makes ownership exclusive: a row has one token, so at most one handler passes the check, whatever the clocks say |
| `DurableWorkProofs`, KeyRevocation | `TypeCorrect`, `NoUndecidedCall`, `RecordIsTrue`, `DecisionsStand` | versions count the transitions, so the drainer that sent a call is the one that started its run (`Senders`, `PastCalls`), a second run needs a decision on the version before it (`PendingIsDecided`), and only a confirmed deletion completes (`Confirmed`) |
| `AgentTurnProofs` | `TypeCorrect`, `LiveExecutionsHaveJobs`, `WaitsAreDecidable`, `CancellationIsQuiet`, `EndedIsFinal`, `DispatchesAreApproved`, `OneRunnerAtATime`, `NoCallOvertakes`, `LifeIsKept` | The first part: each transaction of `Execution` preserves the kernel invariant (types, `LiveHasJob`, `WaitingHasRequest`, `CancelledIsQuiet`), whoever issues it and in whatever state. `NextEffect`: every step of every handler is one of those transactions, or leaves the kernel alone. `GrantInv` relates an approval to the generation and the epoch it was given in, and `GrantedAsked` says that a handler past its approval had asked for one; only `Dispatch` starts a call (`OnlyDispatchStarts`). One runner: a claim takes a new fence of its row and a handler keeps row and fence (`RowInv`), and without a loss of role at most one job is open, none where the Execution rests (`OneOpenJob`), because what stops it settles its job and a job is only made for one that stopped; every step is of one of three kinds for this (`Quiet`, `Closing`, `Moves`). One runner then keeps the log in step with the turn: a call that may not be replayed is recorded as started only under the handler that dispatched it, or nobody carries the turn on (`TurnInv`: `LogFits`, and `Fits` for the owner). Refinement: `KnowInv` says that reconciliation, on record or in a handler's hand, comes of a call closed without a result (`Known`), that a wait on record has its intent, and that a completed log has nothing in flight; `RecordInv`, that a result the kernel knows is on record. A step writes, starts one call or closes one (`NextCalls`), and each of these, with the transaction it comes with, is a step of `ExecutionLife` or a stutter (`StartSeen`, `CloseSeen`, `UserSeen`, `QueueSeen`, `ToolSeen`) |
| `RuntimeRecordsProofs`, ModelBudget | `BudgetTypeCorrect`, `AllocationsStayWithinLimit`, `AtMostOneOpenRequest`, `OverrunsStopSpending` | `ReadIsOld`: records only grow, so a caller whose last sequence is current has read the current records and decides from what is true; at most one request is open; after an overrun none is |
| `RuntimeRecordsProofs`, Inbox | `TypeCorrect`, `NothingIsLeftBehind`, `FollowUpsBeginInOrder`, `CutOffTurnsResumeFirst` | `GoodLog`: each turn begins an item that was accepted, every older message is consumed by then, messages begin in the order of acceptance, and a turn that resumes nothing follows one that is done. A turn is begun on a log that is still the one read, so the item chosen from what was read is the one the log has next. `HandlerInv` says what a handler knows at its program point: it works for a running Execution only; one that is about to complete has read records in which no turn waits; the turns, items and consumed messages a resume read are so still; between two turns the last one is done, or a resume item is there to take |
| `CoordinationProofs` | `TypeCorrect`, `OnlyFailuresAreRepeated`, `NothingStartsBesideUnknown`, `StoppedPlansStayQuiet`, `DependenciesStay`, `BillsStand`, `SpendingStaysWithinCap` | `Moves`: an attempt moves one way only (what is closed, settled, or over stays so; an outcome becomes unknown only where a call is open). Every step but an admission is such a move of every attempt, and moves keep the four invariants (`MovesKeep`, `CompleteStays`). An admission adds one row beside nothing unknown, at a node whose last attempt failed and which nothing can thus depend on. `RunsInOrder` (only the group's last run may go on), `Rows` (a bill is of a closed attempt) and `TriesInOrder` (attempts are numbered without gaps) make it inductive. The budget: what is due for a run and its successors, reservations of attempts not yet billed and shares of those that are, is within its cap (`CommittedWithinCap`), an attempt without an overrun never uses more than its node reserves (`WithinReservation`), and a successor's cap is no larger (`CapsShrink`). No step but an admission raises what is due for an attempt (`Pays`), and an admission adds one reservation to a sum it has just read, in which overruns count in full (`Amounts`) |
| `PluginInstallationProofs` | `Types`, `RunsAreCurrent`, `DisabledHasNoUse`, `UseExcludesChange`, `RevocationIsFinal`, `ReleasesGoUp` | a marker and a lease exclude each other (`LeasesExclude`), an open operation knows what it read (`OperationsKnow`), and what a request has been admitted to is active while it holds its lease (`AdmittedToActive`); a drained plug-in stays idle under its marker (`DrainedStaysIdle`) |
| `FollowupsProofs` | `TypeCorrect`, `OnlyOneAtWork`, `EndedLeavesNothing`, `ReleasesArePaid`, `PeriodsStayWithinBudget` | `Accounts` relates what a run, its goal and its Execution say of its cost, `Coherent` their statuses; runs are made in order and at most one is pending (`OnePending`), so a claim meets none that is still a burden. The budget of a period is an invariant over what each run may still cost (`Reserve`: its cap until it is given back, its true capped cost after), whose sum a claim keeps within the period (`Reserved`); a run is given back only when its bill is settled and within the cap (`GivenBack`) |
| `CodingRunnerProofs` | `TypeCorrect`, `ConfirmationHolds`, `CancellationStands`, `NothingLeftAtWork` | `ReliedIsDead` is the heart: whenever the end of the Runner is relied upon, the Runner is not alive, no supervisor is, and the file does not say `prepared`, from which alone one could start. It is stable because one handler begins a turn (`OneStarter`), only that handler prepares a file, and only before the first launch (`NothingYet`, `FirstLaunch`), so that a repair or a late launch meets a file that refuses; `FileIsTrue` makes the proof of termination one. Most steps are *calm* (they start nothing, and rely on nothing new), which is shown once (`CalmKeeps`). `FirstResult`: a handler that still holds the lease of the turn and is on its way to a result is the first to bring one; what comes later is a person's decision or a settlement, and those leave a cancelled result alone. `NothingLeftAtWork` needs what surrounds a Runner that is at work or may yet be started (`MayRun`): its files, its unsettled call, no result but an unknown one, no ended Execution (`Guarded`); what every handler knows, with its lease (`Minds`) and without (`Heeds`); and `Costly`, which counts the faults it takes before the Execution goes on without the handler that launched the Runner: one to lose it, a second to stop the one that awaits the Runner, a third to lose that one before its job is settled |

`SumLemmas` has what the two budget theorems need of sums over finite sets (a sum
is a natural number, it loses a member's share with the member, it grows with its
terms). The library's induction theorems take an operator and cannot be used;
each lemma is instead proved from a least counterexample (`LeastNumber`), on the
first-order properties of the fold.

The theorems hold for any number of workers, jobs, calls, callers, posts,
generations, revocations, Hosts, plug-ins, schedulers, plans, handler calls and
faults; the bounds of the runs are parameters there. The
invariants as stated are not inductive by themselves: `SingleOwner` says nothing
about a handler that does not own its row *now*, `ConfirmedIsStopped` nothing
about a supervisor that is yet to be launched, `LiveHasJob` nothing about the
status from which a job is settled, `WithinLimit` nothing about what a caller
that is about to commit has read.

Every safety property of a passing run, invariant, action property or
refinement, is stated by a theorem. Where a type invariant is a theorem it is not
also a run's property; nor are `RevokedIsFinal`, `OverrunStops`,
`NothingLeftToStart`, `ReleasedIsPaid`, and `CancelledIsQuiet`, which
`ImplementsExecutionLife` contains.

Only model-checked: liveness, which is outside the prover's reach (`RunsEnd`,
`CancellationTakesEffect`, `PlansEndOrRest`, `EveryRunEnds`, `RevocationReaches`,
`RevokedIsRecorded`, `PendingIsDecided`, `ChangeIsTakenUp`, `RunnerEnds`,
`TurnEnds`). `StartedIsReconciled` is the property that does not hold (section 4).

## 6. What is not modelled

- *Data*: texts, digests, currencies, tool arguments, model answers; the stream
  versions and idempotency receipts that only reject a transaction.
- *In modelled components*: failures of the control poll, intents that expire
  before they are recorded, elapsed time carried across resumes, join nodes,
  cumulative node and rework limits, accounting taken over by a new group;
  model-driven coding turns (the Runner inside the worker), resumed Coding
  Executions and delivery of an accepted candidate; dependencies between plug-ins
  (`#invalidateBrokenDependencies`), their projections, data and registry
  sequence numbers; rework of a follow-up's delivery, goals with teams, exports.
- *Components*: listed with reasons in `PROJECT.json`. The main ones are the
  projection journal with rebuild and retention, PostgreSQL, encryption and CAS,
  and business actions. The SDK's own `PluginLifecycle` is
  reached only through the host's installer, which serialises it. Contracts are
  types and generated code; `vendor/` is third-party code; the desktop and
  command line clients are interfaces over the HTTP API.

## 7. Plan

Done: job queue, Execution and turn, inbox, model budget, team plans, plug-in
installation, key revocation, follow-ups, external Runners. Next, in order:

1. `ProjectionJournal`: events, projections, rebuild, retention, protection
   upgrade; replay yields what the transactions wrote.
2. Team goals over `Coordination`, with delivery and rework; business actions.
3. Content-addressed storage: garbage collection against writers.
4. Resumed and model-driven Coding Executions in `CodingRunner`.

Theorems: an abstract queue of messages that `Inbox` implements; an abstract
ledger for the budgets of `ModelBudget`, `Coordination` and `Followups`; the
safety half of `RunsEnd` (from every state in which a run has not ended some
worker, or the clock, can take a step).

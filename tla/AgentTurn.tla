------------------------------ MODULE AgentTurn ------------------------------
(***************************************************************************)
(* Worker processes run an Execution: they claim its jobs, open the agent  *)
(* runtime on its persisted log, drive the turn (model request, tool call, *)
(* human approval, dispatch) and settle the job.  Users cancel, resume and *)
(* decide at any moment; a worker may crash, be stopped, or lose a lease.  *)
(*                                                                         *)
(* A handler's runtime store asserts its lease inside every transaction,   *)
(* so a handler that no longer owns its row can only notice that it lost.  *)
(* The one exception is the approval port, which uses the plain kernel.    *)
(***************************************************************************)
EXTENDS Execution

CONSTANTS
  NoCall,     \* a handler that is not in a tool call
  Faults,     \* which of "crash", "lapse", "stop" and "transient" may happen
  MaxFaults   \* bound on their number

ASSUME AgentTurnAssumption ==
  /\ NoCall \notin Call
  /\ Faults \subseteq {"crash", "lapse", "stop", "transient"}
  /\ MaxFaults \in Nat

VARIABLES
  log,       \* the persisted runtime records, as far as recovery reads them
  handlers,  \* the running agent turn handlers
  faults     \* how many faults have happened

vars == <<kernelVars, log, handlers, faults>>

(* What the log says of a call: its intent, a later "running" status, the start, *)
(* and a result or an unknown outcome.                                           *)
Recorded == {"none", "intent", "released", "started", "closed"}

LogRow == [status: Status, call: [Call -> Recorded], gen: [Call -> 0 .. MaxGen]]

Handler == [
  worker: Worker, gen: Gen, fence: Nat,      \* identity: the job is named by its generation
  cap: 0 .. MaxGen,                          \* the generation captured from the Execution
  pc: {"claimed", "prepared", "ready", "resume", "drain", "model", "idle", "intent",
       "waiting", "granted", "started", "unknown", "thrown"},
  call: Call \cup {NoCall},
  recovered: BOOLEAN,                        \* inside the turn of a recovered approval wait
  halted: BOOLEAN,                           \* interrupted while a step was under way
  stop: BOOLEAN,                             \* the worker process is stopping
  out: {"none", "interrupted", "unknown", "cancelled", "stale", "error", "completed"}]

TypeOK ==
  /\ KernelTypeOK
  /\ log \in LogRow
  /\ handlers \subseteq Handler
  /\ faults \in 0 .. MaxFaults

Init ==
  /\ KernelInit
  /\ log = [status |-> "queued", call |-> [c \in Call |-> "none"], gen |-> [c \in Call |-> 0]]
  /\ handlers = {}
  /\ faults = 0

----------------------------------------------------------------------------
(* Handlers and the log *)

(* Mutant: the row of the worker, whichever of its attempts. *)
OwnsByWorker(h) ==
  /\ jobs[h.gen].status = "leased" /\ ~jobs[h.gen].lapsed
  /\ jobs[h.gen].owner = h.worker

Owns(h) ==
  /\ jobs[h.gen].status = "leased" /\ ~jobs[h.gen].lapsed
  /\ jobs[h.gen].owner = h.worker /\ jobs[h.gen].fence = h.fence

(* The job of a later generation carries command = "resume". *)
Resumes(h) == h.gen > 1

Replace(h, k) == handlers' = (handlers \ {h}) \cup {k}
Leave(h) == handlers' = handlers \ {h}
Goto(h, pc) == Replace(h, [h EXCEPT !.pc = pc])
Thrown(h, out) ==
  [h EXCEPT !.pc = "thrown", !.out = out, !.call = NoCall, !.recovered = FALSE, !.halted = FALSE]
Throw(h, out) == Replace(h, Thrown(h, out))

(* An execution/status record; "running" releases the intents before it. *)
WithStatus(status) ==
  [log EXCEPT !.status = status,
     !.call = [c \in Call |-> IF status = "running" /\ @[c] = "intent" THEN "released" ELSE @[c]]]
LogStatus(status) == log' = WithStatus(status)

(* Calls without a result or an unknown outcome (findUnresolvedToolIntentRecords). *)
Unresolved == {c \in Call : log.call[c] \in {"intent", "released", "started"}}

Fault(kind) ==
  /\ kind \in Faults /\ faults < MaxFaults
  /\ faults' = faults + 1

(* The scope of a handler closes around a live runtime: interrupted, then the error. *)
Quit(h, out) ==
  /\ LogStatus("interrupted")
  /\ Throw(h, out)
  /\ UNCHANGED kernelVars

(* A status record that settles the job in the same transaction (onCommit).  A stopped *)
(* Execution imposes its own status on the transition.                                 *)
SettlesAs(status) ==
  CASE status \in {"completed", "paused"} -> exec.status = "running"
    [] status = "failed" -> exec.status \in FailLeaves("JOB_EXECUTION_FAILED") \cup Live
    [] status = "cancelled" -> exec.status \in FailLeaves("EXECUTION_CANCELLED") \cup Live

Commit(h, wanted) ==
  LET status == IF exec.status \in {"cancelled", "paused", "interrupted"} THEN exec.status ELSE wanted
  IN  CASE exec.gen # h.cap -> Quit(h, "stale")
        [] exec.gen = h.cap /\ exec.status = "needs_reconciliation" -> Quit(h, "unknown")
        [] exec.gen = h.cap /\ status = "interrupted" -> Quit(h, "interrupted")
        [] OTHER ->
             IF SettlesAs(status)
             THEN /\ LogStatus(status)
                  /\ Leave(h)
                  /\ \/ status \in {"completed", "paused"} /\ CompleteJob(h.gen, status)
                     \/ status = "failed" /\ FailJob(h.gen, "JOB_EXECUTION_FAILED")
                     \/ status = "cancelled" /\ FailJob(h.gen, "EXECUTION_CANCELLED")
             ELSE Quit(h, "error")

(* An error escapes the turn.  After an interruption the runtime is content to stop, *)
(* except in the turn of a recovered approval wait, whose error handler fails it.    *)
Fail(h) ==
  IF h.halted /\ ~h.recovered /\ exec.status \notin {"cancelled", "paused", "interrupted"}
  THEN Throw(h, "interrupted") /\ UNCHANGED <<kernelVars, log>>
  ELSE Commit(h, "failed")

(* An error of the runtime's own or of a tool, and not the Execution's control.  After *)
(* an interruption #drain returns on it without a record, whatever the Execution is.   *)
Abandon(h) ==
  IF h.halted /\ ~h.recovered THEN Throw(h, "interrupted") /\ UNCHANGED <<kernelVars, log>>
  ELSE Fail(h)

(* assertModelInvocation, inside the transactions that start work. *)
Refused(h) ==
  \/ exec.gen # h.cap
  \/ exec.status \in Stopped \cup {"cancelled"}
  \/ ~member.initiator

Step(h, pc) ==
  /\ h \in handlers /\ h.pc = pc /\ Owns(h)
  /\ UNCHANGED faults

----------------------------------------------------------------------------
(* Claiming and opening *)

(* pollOnce does not return while its handler runs under a renewed lease. *)
Free(w) == \A h \in handlers : h.worker = w => ~Owns(h)

Claim(w) ==
  /\ Free(w)
  /\ \E g \in Gen :
       /\ LeaseJob(w, g)
       /\ handlers' = handlers \cup
            {[worker |-> w, gen |-> g, fence |-> jobs'[g].fence, cap |-> 0, pc |-> "claimed",
              call |-> NoCall, recovered |-> FALSE, halted |-> FALSE, stop |-> FALSE,
              out |-> "none"]}
  /\ UNCHANGED <<log, faults>>

CloseStoppedJob ==
  /\ \E w \in Worker : Free(w)
  /\ \E g \in Gen : CloseBeforeClaim(g)
  /\ UNCHANGED <<log, handlers, faults>>

(* resolveOptions: it captures the Execution, whatever generation its job is of. *)
Prepare(h) ==
  /\ Step(h, "claimed")
  /\ CASE exec.status = "needs_reconciliation" -> Throw(h, "unknown")
       [] exec.status \in {"interrupted", "paused"} -> Throw(h, "interrupted")
       [] OTHER -> IF member.initiator
                   THEN Replace(h, [h EXCEPT !.pc = "prepared", !.cap = exec.gen])
                   ELSE Throw(h, "error")
  /\ UNCHANGED <<kernelVars, log>>

(* Reading plugins, keys, history or the log fails for a passing reason. *)
TransientError(h) ==
  /\ h \in handlers /\ h.pc \in {"claimed", "prepared"}
  /\ Fault("transient")
  /\ Throw(h, "error")
  /\ UNCHANGED <<kernelVars, log>>

(* AgentHandle.open, by the status the log ends in. *)
OpenFresh(h) ==
  /\ Step(h, "prepared")
  /\ log.status = "queued"
  /\ IF Resumes(h) THEN Throw(h, "error") ELSE Goto(h, "ready")
  /\ UNCHANGED <<kernelVars, log>>

OpenStopped(h) ==
  /\ Step(h, "prepared")
  /\ log.status \in {"interrupted", "paused"}
  /\ IF Resumes(h) THEN Goto(h, "resume") ELSE Throw(h, "interrupted")
  /\ UNCHANGED <<kernelVars, log>>

OpenEnded(h) ==
  /\ Step(h, "prepared")
  /\ \/ log.status = "completed" /\ Throw(h, "completed")
     \/ log.status = "needs_reconciliation" /\ Throw(h, "unknown")
     \/ log.status = "failed" /\ Throw(h, "error")
     \/ log.status = "cancelled" /\ Throw(h, IF Resumes(h) THEN "error" ELSE "cancelled")
  /\ UNCHANGED <<kernelVars, log>>

(* Mutant: recovery carries the turn on. *)
OpenRunningBlindly(h) ==
  /\ Step(h, "prepared")
  /\ log.status = "running"
  /\ Goto(h, "ready")
  /\ UNCHANGED <<kernelVars, log>>

(* The process before this one died in a turn.  A call that may not be replayed *)
(* gets an unknown outcome in a record of its own; the status follows in another. *)
OpenRunning(h) ==
  /\ Step(h, "prepared")
  /\ log.status = "running"
  /\ IF Unresolved \cap Manual = {}
     THEN /\ LogStatus("interrupted")
          /\ IF Resumes(h) THEN Goto(h, "resume") ELSE Throw(h, "interrupted")
     ELSE \E c \in Unresolved \cap Manual :
            log' = [log EXCEPT !.call[c] = "closed"] /\ Goto(h, "unknown")
  /\ UNCHANGED kernelVars

(* It died, or was taken over, while a person was deciding. *)
OpenWaiting(h) ==
  /\ Step(h, "prepared")
  /\ log.status = "waiting_approval"
  /\ IF ~Resumes(h) /\ \E c \in Call : Unresolved = {c}
     THEN \E c \in Unresolved :
            /\ Replace(h, [h EXCEPT !.pc = "waiting", !.call = c, !.recovered = TRUE])
            /\ UNCHANGED <<kernelVars, log>>
     ELSE Quit(h, "error")

(* resume() *)
Resume(h) ==
  /\ Step(h, "resume") /\ ~h.stop
  /\ LET uncertain == {c \in Manual : log.call[c] \in {"released", "started"}}
     IN  IF uncertain = {}
         THEN LogStatus("queued") /\ Goto(h, "ready")
         ELSE \E c \in uncertain :
                log' = [log EXCEPT !.call[c] = "closed"] /\ Goto(h, "unknown")
  /\ UNCHANGED kernelVars

----------------------------------------------------------------------------
(* The turn *)

(* #drain takes the first item of the inbox. *)
Begin(h) ==
  /\ Step(h, "ready") /\ ~h.stop
  /\ LogStatus("running")
  /\ Goto(h, "drain")
  /\ UNCHANGED kernelVars

ModelRequest(h) ==
  /\ Step(h, "drain")
  /\ IF Refused(h) THEN Fail(h) ELSE Goto(h, "model") /\ UNCHANGED <<kernelVars, log>>

ModelFails(h) ==
  /\ Step(h, "model")
  /\ Fail(h)

(* The model answers without a tool call: the turn is over and the inbox empty. *)
ModelAnswers(h) ==
  /\ Step(h, "model") /\ ~h.halted
  /\ Goto(h, "idle")
  /\ UNCHANGED <<kernelVars, log>>

(* completeIfEmpty and the status record of the end; it commits only after "running". *)
Complete(h) ==
  /\ Step(h, "idle")
  /\ log.status = "running"
  /\ IF Refused(h) \/ exec.status # "running" THEN Fail(h) ELSE Commit(h, "completed")

(* The model asks for a tool: the intent is persisted before anyone is asked. *)
PersistIntent(h, c) ==
  /\ Step(h, "model") /\ ~h.halted
  /\ log.call[c] = "none"
  /\ log' = [log EXCEPT !.call[c] = "intent", !.gen[c] = h.cap]
  /\ Replace(h, [h EXCEPT !.pc = "intent", !.call = c])
  /\ UNCHANGED kernelVars

EnterApprovalWait(h) ==
  /\ Step(h, "intent") /\ h.call \in Manual
  /\ LogStatus("waiting_approval")
  /\ Goto(h, "waiting")
  /\ UNCHANGED kernelVars

(* assertCurrentAuthorization of the approval port *)
NotAuthorized(h) ==
  \/ exec.gen # log.gen[h.call]
  \/ exec.status \in {"cancelled", "paused", "interrupted"}
  \/ ~member.initiator

(* A call the authority allows by itself; once the turn is interrupted nothing is asked. *)
AuthorizeAuto(h) ==
  /\ Step(h, "intent") /\ h.call \notin Manual
  /\ IF h.halted THEN Abandon(h)
     ELSE IF NotAuthorized(h) \/ exec.status # "running" THEN Fail(h)
     ELSE /\ RecordAutoIntent(h.call, log.gen[h.call])
          /\ Goto(h, "granted")
          /\ UNCHANGED log

(* authorize asks through the kernel itself, so a lost lease does not stop it. *)
AskApproval(h) ==
  /\ h \in handlers /\ h.pc = "waiting" /\ ~h.halted
  /\ tool[h.call].gen = 0
  /\ ~NotAuthorized(h)
  /\ RequestApproval(h.call, log.gen[h.call])
  /\ UNCHANGED <<log, handlers, faults>>

(* The wait ends: what the poll of the approval finds. *)
Granted(h) ==
  /\ tool[h.call].approval = "approved" /\ member.approver
  /\ ~NotAuthorized(h)

Undecided(h) ==
  /\ tool[h.call].approval = "pending" /\ ~tool[h.call].late
  /\ ~NotAuthorized(h)

LeaveApprovalWait(h) ==
  /\ Step(h, "waiting")
  /\ IF h.halted THEN Commit(h, "failed")
     ELSE IF tool[h.call].gen = 0
     THEN (NotAuthorized(h) \/ exec.status # "running") /\ Fail(h)
     ELSE /\ ~Undecided(h)
          /\ IF Granted(h)
             THEN LogStatus("running") /\ Goto(h, "granted") /\ UNCHANGED kernelVars
             ELSE Fail(h)

(* tool/started and the admission, after everything has been validated once more. *)
Dispatch(h) ==
  /\ Step(h, "granted")
  /\ IF tool[h.call].late THEN Abandon(h)
     ELSE IF Refused(h) \/ ~ApprovalCurrent(h.call) THEN Fail(h)
     ELSE /\ Admit(h.call)
          /\ log' = [log EXCEPT !.call[h.call] = "started"]
          /\ IF h.halted THEN Throw(h, "interrupted") ELSE Goto(h, "started")
          /\ UNCHANGED <<exec, jobs, member>>

ToolReturns(h) ==
  /\ Step(h, "started")
  /\ log' = [log EXCEPT !.call[h.call] = "closed"]
  /\ SettleAdmission(h.call)
  /\ IF h.halted THEN Throw(h, "interrupted")
     ELSE Replace(h, [h EXCEPT !.pc = "drain", !.call = NoCall])
  /\ UNCHANGED <<exec, jobs, member>>

(* The tool throws: what a call that may not be replayed has done is not known. *)
ToolThrows(h) ==
  /\ Step(h, "started")
  /\ IF h.call \in Manual
     THEN /\ log' = [log EXCEPT !.call[h.call] = "closed"]
          /\ Goto(h, "unknown")
          /\ UNCHANGED kernelVars
     ELSE Abandon(h)

(* The status record that follows tool/outcome_unknown. *)
DeclareUnknown(h) ==
  /\ Step(h, "unknown")
  /\ LogStatus("needs_reconciliation")
  /\ Throw(h, "unknown")
  /\ UNCHANGED kernelVars

(* The duration budget runs out. *)
BudgetExpires(h) ==
  /\ \E pc \in {"drain", "model", "waiting", "granted"} : Step(h, pc)
  /\ ~h.halted /\ (h.pc = "waiting" => ~h.recovered)
  /\ Commit(h, "paused")

----------------------------------------------------------------------------
(* Interruption, faults and settlement *)

Interruptible(h) ==
  /\ h.pc \in {"ready", "resume", "drain", "model", "idle", "intent", "waiting", "granted", "started"}
  /\ ~h.halted

(* handle.interrupt(): the log says so at once, the step under way finishes or is aborted. *)
Interrupt(h, stop) ==
  /\ LogStatus("interrupted")
  /\ LET k == [h EXCEPT !.stop = stop] IN
       IF \/ h.pc \in {"ready", "resume", "drain", "idle"}
          \/ h.pc \in {"model", "waiting"} /\ ~h.recovered
       THEN Replace(h, Thrown(k, "interrupted"))
       ELSE Replace(h, [k EXCEPT !.halted = TRUE])

(* observeExecutionControl sees that the Execution was stopped. *)
ObserveControl(h) ==
  /\ h \in handlers /\ Owns(h) /\ Interruptible(h)
  /\ \/ /\ exec.status = "cancelled"
        /\ IF exec.gen = h.cap THEN Commit(h, "cancelled") ELSE Quit(h, "interrupted")
     \/ /\ \/ exec.status \in {"interrupted", "paused"}
           \/ exec.status = "needs_reconciliation" /\ exec.cancelGen = exec.gen
        /\ Interrupt(h, h.stop)
        /\ UNCHANGED kernelVars
  /\ UNCHANGED faults

(* The worker process is asked to stop. *)
StopWorker(h) ==
  /\ h \in handlers /\ Owns(h) /\ ~h.stop
  /\ Fault("stop")
  /\ IF Interruptible(h) THEN Interrupt(h, TRUE)
     ELSE Replace(h, [h EXCEPT !.stop = TRUE]) /\ UNCHANGED log
  /\ UNCHANGED kernelVars

(* It was asked to stop before the runtime was open. *)
InterruptAtStart(h) ==
  /\ h \in handlers /\ Owns(h) /\ h.stop /\ Interruptible(h)
  /\ Interrupt(h, TRUE)
  /\ UNCHANGED <<kernelVars, faults>>

(* The worker process dies; its leases run out in time. *)
CrashWorker(w) ==
  /\ \E h \in handlers : h.worker = w
  /\ Fault("crash")
  /\ handlers' = {h \in handlers : h.worker # w}
  /\ UNCHANGED <<kernelVars, log>>

(* A lease runs out, after a crash or because renewals came too late. *)
LeaseLapses(g) ==
  /\ jobs[g].status = "leased" /\ ~jobs[g].lapsed
  /\ jobs' = [jobs EXCEPT ![g].lapsed = TRUE]
  /\ IF \E h \in handlers : h.gen = g /\ Owns(h) THEN Fault("lapse") ELSE UNCHANGED faults
  /\ UNCHANGED <<exec, tool, member, log, handlers>>

(* A handler finds that its row is another's, or settled, and gives up. *)
LoseLease(h) ==
  /\ h \in handlers /\ ~Owns(h)
  /\ Leave(h)
  /\ UNCHANGED <<kernelVars, log, faults>>

(* What pollOnce settles the job with after the handler threw, or reported a log that *)
(* had already completed.  The outer handler has turned any error into an unknown     *)
(* outcome if the Execution needs reconciliation.                                     *)
FinalOutcome(h) ==
  CASE h.out = "completed" /\ exec.status = "running" -> "completed"
    [] h.stop -> "interrupted"
    [] h.out = "completed" -> "error"
    [] exec.status = "needs_reconciliation" -> "unknown"
    [] OTHER -> h.out

(* A stale handler settles nothing.  A transaction that refuses the outcome leaves the *)
(* row leased and ends the worker's loop.                                              *)
SettleThrown(h) ==
  LET out == FinalOutcome(h) IN
    \/ out = "completed" /\ CompleteJob(h.gen, "completed")
    \/ out = "interrupted" /\ InterruptJob(h.gen)
    \/ out = "unknown" /\ MarkNeedsReconciliation(h.gen)
    \/ out = "cancelled" /\ FailJob(h.gen, "EXECUTION_CANCELLED")
    \/ out = "error" /\ FailJob(h.gen, "JOB_EXECUTION_FAILED")

Rejected(h) ==
  LET out == FinalOutcome(h) IN
    \/ out = "stale"
    \/ out = "interrupted" /\ exec.status \notin InterruptAccepts
    \/ out = "cancelled" /\ ~SettlesAs("cancelled")
    \/ out = "error" /\ ~SettlesAs("failed")

Settle(h) ==
  /\ Step(h, "thrown")
  /\ \/ SettleThrown(h)
     \/ Rejected(h) /\ UNCHANGED kernelVars
  /\ Leave(h)
  /\ UNCHANGED log

----------------------------------------------------------------------------
(* The users, the clock and the worker processes *)

UserStep ==
  /\ \/ CancelExecution
     \/ ResumeExecution
     \/ \E c \in Call, decision \in {"approved", "denied"} : DecideApproval(c, decision)
     \/ RevokeInitiator
     \/ RevokeApprover
     \/ RestoreMember
  /\ UNCHANGED <<log, handlers, faults>>

ClockStep ==
  \/ \E g \in Gen : LeaseLapses(g)
  \/ \E c \in Call : IntentExpires(c) /\ UNCHANGED <<log, handlers, faults>>

ClaimStep ==
  \/ CloseStoppedJob
  \/ \E w \in Worker : Claim(w)

(* What a handler does by itself. *)
HandlerStep(h) ==
  \/ Prepare(h)
  \/ OpenFresh(h)
  \/ OpenStopped(h)
  \/ OpenEnded(h)
  \/ OpenRunning(h)
  \/ OpenWaiting(h)
  \/ Resume(h)
  \/ Begin(h)
  \/ ModelRequest(h)
  \/ ModelFails(h)
  \/ ModelAnswers(h)
  \/ Complete(h)
  \/ \E c \in Call : PersistIntent(h, c)
  \/ EnterApprovalWait(h)
  \/ AuthorizeAuto(h)
  \/ AskApproval(h)
  \/ LeaveApprovalWait(h)
  \/ Dispatch(h)
  \/ ToolReturns(h)
  \/ ToolThrows(h)
  \/ DeclareUnknown(h)
  \/ BudgetExpires(h)
  \/ ObserveControl(h)
  \/ InterruptAtStart(h)
  \/ LoseLease(h)
  \/ Settle(h)

FaultStep ==
  \/ \E w \in Worker : CrashWorker(w)
  \/ \E h \in handlers : TransientError(h) \/ StopWorker(h)

Next ==
  \/ UserStep
  \/ ClockStep
  \/ ClaimStep
  \/ \E h \in handlers : HandlerStep(h)
  \/ FaultStep

Spec == Init /\ [][Next]_vars

(* A running process keeps taking the steps of its handlers, polls for jobs when it   *)
(* has none, and time passes: intents expire and the leases of the dead run out.      *)
(* A model or a tool answers or is cut off; what it answers is left open, and nothing *)
(* is assumed of users or of faults.                                                  *)
WorkerStep(w) == ClaimStep \/ \E h \in handlers : h.worker = w /\ HandlerStep(h)
OrphanLapses(g) == (\A h \in handlers : h.gen = g => ~Owns(h)) /\ LeaseLapses(g)
Fairness ==
  /\ \A w \in Worker : WF_vars(WorkerStep(w))
  /\ \A g \in Gen : WF_vars(OrphanLapses(g))
  /\ \A c \in Call : WF_vars(IntentExpires(c) /\ UNCHANGED <<log, handlers, faults>>)

FairSpec == Spec /\ Fairness

----------------------------------------------------------------------------
(* Properties *)

(* While nobody on whom the Execution depends has lost a role, at most one handler at a *)
(* time can write under its jobs.  A revocation stops an Execution without settling its *)
(* job; after a resume the old handler still owns that one, beside the new handler.     *)
OneRunner ==
  member.epoch = 0 => \A h, k \in handlers : Owns(h) /\ Owns(k) => h = k

(* A call that may not be replayed and whose result is missing holds the Execution up:  *)
(* after its start nothing else is dispatched until its record is closed, by whichever  *)
(* handler and generation (again, while there is one runner).                           *)
NothingBehindOpenCall ==
  [][\A c \in Call, d \in Manual :
       member.epoch = 0 /\ tool[c].admission = "none" /\ tool'[c].admission = "started" =>
         log.call[d] # "started"]_vars

(* A call that needs a human starts only on an approval given in this generation, by *)
(* people who may still give it.  While the Execution has not ended nobody of them    *)
(* lost the role in between: a role regained does not bring an approval back.         *)
DispatchIsApproved ==
  [][\A c \in Manual :
       tool[c].admission = "none" /\ tool'[c].admission = "started" =>
         /\ tool[c].approval = "approved" /\ tool[c].gen = exec.gen
         /\ member.initiator /\ member.approver
         /\ exec.status \notin Finished => tool[c].granted = member.epoch]_vars

(* Whatever crashes, lost leases and refused settlements happen on the way, an       *)
(* Execution does not stay queued, running or waiting for ever.                      *)
RunsEnd ==
  exec.status \in {"queued", "running", "waiting_approval"} ~> exec.status \in Finished \cup Stopped

(* A cancellation reaches every worker: in the end no handler runs and no job is left. *)
CancellationTakesEffect ==
  exec.status = "cancelled" ~>
    handlers = {} /\ \A g \in Gen : jobs[g].status \notin {"available", "leased"}

(* Seen from outside, workers, runtime and kernel together keep the promises of     *)
(* ExecutionLife: an intent is no record of a start yet.                            *)
Life == INSTANCE ExecutionLife WITH
  status <- exec.status,
  generation <- exec.gen,
  approval <- [c \in Call |-> tool[c].approval],
  effect <- [c \in Call |-> tool[c].admission],
  history <- [c \in Call |-> IF log.call[c] \in {"started", "closed"} THEN log.call[c] ELSE "none"],
  disturbed <- member.epoch > 0

ImplementsExecutionLife == Life!Spec
=============================================================================

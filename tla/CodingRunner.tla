---------------------------- MODULE CodingRunner ----------------------------
(* One Coding Execution that is carried out by an external command line Runner: the
   turn handler of the worker, the supervisor process that owns the Runner, and what
   an operator may decide when the outcome is unknown. The Runner works in a sandbox
   directory; the supervisor leaves a file beside it, the only proof that the Runner
   has ended, and a later worker decides from that file and from the records.

   One machine, one generation and one turn. "running" stands for waiting_approval
   too. A Worker is one call of a handler: a process that has lost its lease goes on
   beside the handler that replaces it. The source repository, the candidate and its
   check are outcomes. *)
EXTENDS Integers, FiniteSets

CONSTANTS Worker,       \* handler calls that may run at one time
          Faults,       \* a subset of {"crash", "lapse", "stop", "orphan"}
          MaxFaults     \* how many of them may happen

ASSUME CodingAssumption ==
  /\ Faults \subseteq {"crash", "lapse", "stop", "orphan"}
  /\ MaxFaults \in Nat
  /\ Worker \cap {"absent", "available", "done"} = {}      \* statuses of a job

VARIABLES
  db,      \* the records: one transaction is one step
  disk,    \* the worker's machine: sandbox, proof of termination, processes
  h,       \* what each handler call holds in memory
  late,    \* the duration budget, whose clock the log starts, is used up
  faults   \* faults so far

vars == <<db, disk, h, late, faults>>

----------------------------------------------------------------------------
Job == {"turn", "verify", "cleanup"}
Ended == {"completed", "failed", "cancelled", "paused"}
Status == Ended \cup {"queued", "running", "interrupted", "needs_reconciliation"}
Outcome == Ended \cup {"none", "waiting_approval", "needs_reconciliation"}

Records ==
  [exec: Status,
   cancel: BOOLEAN,        \* execution-control holds a cancel command
   log: {"queued", "running", "interrupted", "needs_reconciliation", "ended"},
   unsettled: SUBSET {"inspect", "runner", "gate"},   \* admissions without a result
   phase: {"absent", "running", "started", "outcome_unknown", "settled"},
   result: Outcome,
   stopped: BOOLEAN,       \* terminationStatus is confirmed
   verification: {"none", "pending", "passed", "failed"},
   cleanup: {"none", "pending", "cleaned"},
   replaced: BOOLEAN,      \* a new call took this one's place
   job: [Job -> {"absent", "available", "done"} \cup Worker]]

Machine ==
  [sandbox: BOOLEAN,
   proof: {"absent", "prepared", "running", "terminated", "unconfirmed"},
   supervisor: {"none", "spawned", "alive", "exited", "refused", "lost"},
   runner: {"absent", "alive", "dead"},
   pipe: {"none", "open", "closed"}]

Place ==
  {"idle", "open", "inspect", "snapshot", "authorize", "check", "launch", "watch", "judge",
   "gate", "commit", "unwind", "settle", "unknown", "report", "mark", "await", "fail",
   "drop", "retain", "verdict", "delete", "forget", "cleaned", "close"}

Handler ==
  [pc: Place,
   outcome: Outcome,
   next: {"settle", "fail"},         \* where the unwinding leads
   keep: BOOLEAN,                    \* preserveForReconciliation
   checkpoint: BOOLEAN,
   launched: BOOLEAN,
   stopped: BOOLEAN,                 \* terminationConfirmed
   abort: {"none", "user", "stop", "late"}]   \* why the signal was aborted

Fresh == [pc |-> "idle", outcome |-> "none", next |-> "settle", keep |-> TRUE,
          checkpoint |-> FALSE, launched |-> FALSE, stopped |-> FALSE,
          abort |-> "none"]

TypeOK ==
  /\ db \in Records
  /\ disk \in Machine
  /\ h \in [Worker -> Handler]
  /\ late \in BOOLEAN
  /\ faults \in 0..MaxFaults

Init ==
  /\ db = [exec |-> "queued", cancel |-> FALSE, log |-> "queued", unsettled |-> {},
           phase |-> "absent", result |-> "none", stopped |-> FALSE,
           verification |-> "none", cleanup |-> "none", replaced |-> FALSE,
           job |-> [j \in Job |-> IF j = "turn" THEN "available" ELSE "absent"]]
  /\ disk = [sandbox |-> FALSE, proof |-> "absent", supervisor |-> "none",
             runner |-> "absent", pipe |-> "none"]
  /\ h = [w \in Worker |-> Fresh]
  /\ late = FALSE
  /\ faults = 0

----------------------------------------------------------------------------
At(w, pc) == h[w].pc = pc
Go(w, pc) == h' = [h EXCEPT ![w].pc = pc]
Conclude(w, outcome) == h' = [h EXCEPT ![w].pc = "commit", ![w].outcome = outcome]
Leave(w) == h' = [h EXCEPT ![w] = Fresh]

(* Every write of a handler asserts its lease in the same transaction. *)
Holds(w, j) == db.job[j] = w

(* assertCodingInvocation *)
MayInvoke == db.exec = "running" /\ ~db.cancel

(* The supervisor has not been reaped: its output is open. *)
Supervised == disk.supervisor \in {"spawned", "alive"}

(* launchManagedProcess.kill: the end of the control pipe tells the supervisor to stop. *)
Hangup == [disk EXCEPT !.pipe = IF Supervised THEN "closed" ELSE @]

(* confirmRunnerStopped *)
ProvedStopped == disk.proof = "terminated"

----------------------------------------------------------------------------
(* A worker and the turn job *)

(* A handler call yet to be made: what it claims, nobody else has held. *)
Fit(w) == At(w, "idle") /\ \A j \in Job : db.job[j] # w

(* claimJob, with settleTerminalAgentJobBeforeClaim. *)
ClaimTurn(w) ==
  /\ Fit(w) /\ db.job["turn"] = "available"
  /\ IF db.exec \in {"queued", "running"}
     THEN /\ db' = [db EXCEPT !.exec = "running", !.job["turn"] = w]
          /\ Go(w, "open")
     ELSE db' = [db EXCEPT !.job["turn"] = "done"] /\ UNCHANGED h
  /\ UNCHANGED <<disk, late, faults>>

(* A write without the lease: the handler ends and records nothing. It has no Runner
   of its own at these places. *)
LoseLease(w) ==
  /\ h[w].pc \in {"open", "inspect", "snapshot", "settle", "unknown", "report", "mark",
                  "await", "fail", "drop"}
  /\ ~Holds(w, "turn")
  /\ Leave(w)
  /\ UNCHANGED <<db, disk, late, faults>>

(* AgentHandle.open and start, for an Execution nobody has begun. *)
StartTurn(w) ==
  /\ At(w, "open") /\ Holds(w, "turn") /\ db.log = "queued"
  /\ db' = [db EXCEPT !.log = "running"]
  /\ Go(w, IF MayInvoke THEN "inspect" ELSE "fail")
  /\ UNCHANGED <<disk, late, faults>>

(* The log takes a final status; finalizeCodingRuntime settles Execution and job in the
   same transaction, gives way to a cancellation and refuses over a reconciliation. *)
EndTurn(w, status) ==
  IF db.exec = "needs_reconciliation" THEN Go(w, "report") /\ UNCHANGED db
  ELSE LET final == IF db.exec = "cancelled" THEN "cancelled" ELSE status IN
       /\ db' = [db EXCEPT !.log = "ended", !.job["turn"] = "done",
                           !.exec = IF @ = "running" THEN final ELSE @,
                           !.result = IF final = "cancelled" /\ @ # "none" THEN final ELSE @]
       /\ Leave(w)

(* AgentHandle.open and recover, after a worker that went away: a stored result is
   settled, a started Runner is awaited, anything else is given up. Where the time is
   over the turn is paused, before anything of it is looked at. *)
RecoverTurn(w) ==
  /\ At(w, "open") /\ Holds(w, "turn")
  /\ LET begun == db.result # "none" \/ db.phase = "started" IN
     \/ /\ db.log = "running" /\ begun /\ ~late
        /\ UNCHANGED db
        /\ Go(w, IF db.exec # "running" THEN "fail"          \* assertCodingState
                 ELSE IF db.result # "none" THEN "settle" ELSE "await")
     \/ db.log = "running" /\ late /\ EndTurn(w, "paused")
     \/ db.log = "running" /\ ~begun /\ db' = [db EXCEPT !.log = "interrupted"] /\ Go(w, "drop")
     \/ db.log = "interrupted" /\ UNCHANGED db /\ Go(w, "drop")
     \/ db.log = "needs_reconciliation" /\ UNCHANGED db /\ Go(w, "report")
  /\ UNCHANGED <<disk, late, faults>>

(* inspectRepositoryControlled: its call is started, and may be refused. *)
InspectRepository(w) ==
  /\ At(w, "inspect") /\ Holds(w, "turn")
  /\ \/ MayInvoke /\ db' = [db EXCEPT !.unsettled = @ \cup {"inspect"}] /\ Go(w, "snapshot")
     \/ UNCHANGED db /\ Go(w, "fail")
  /\ UNCHANGED <<disk, late, faults>>

(* The inspection's result, persistRunning, and the first lines of start(): a working
   copy and a copy of the Runner's binary. Neither looks at the Execution. *)
PrepareSandbox(w) ==
  /\ At(w, "snapshot") /\ Holds(w, "turn")
  /\ \/ UNCHANGED <<db, disk>> /\ Go(w, "fail")
     \/ /\ db' = [db EXCEPT !.unsettled = @ \ {"inspect"}, !.phase = "running"]
        /\ \E copied \in BOOLEAN : disk' = [disk EXCEPT !.sandbox = copied]
        /\ \/ disk'.sandbox /\ Go(w, "authorize")
           \/ Conclude(w, "failed")
  /\ UNCHANGED <<late, faults>>

----------------------------------------------------------------------------
(* ExternalCodingRunner: start and resume *)

(* #authorizeAndCheckpoint: a person approves the call and tool/started is written. A
   refusal fails the Execution at once; every other obstacle is a known failure. *)
Authorize(w) ==
  /\ At(w, "authorize")
  /\ \/ /\ Holds(w, "turn") /\ MayInvoke /\ h[w].abort = "none"
        /\ db' = [db EXCEPT !.unsettled = @ \cup {"runner"}]
        /\ Go(w, "check")
     \/ /\ \/ UNCHANGED db
           \/ db.exec = "running" /\ db' = [db EXCEPT !.exec = "failed"]
        /\ Conclude(w, "failed")
  /\ UNCHANGED <<disk, late, faults>>

(* #assertRunnerPluginActive, verifyRunnerArtifact and externalLauncher refuse: a known
   failure, though the call counts as started. *)
CheckFails(w) ==
  /\ At(w, "check")
  /\ Conclude(w, IF Holds(w, "turn") THEN "failed" ELSE "needs_reconciliation")
  /\ UNCHANGED <<db, disk, late, faults>>

(* persistExternalInvocationStarted asks for the lease and for a run without a result,
   and not for the state of the Execution. *)
CheckpointBlindly(w) == db.result = "none"      \* a mutant
MayCheckpoint(w) == Holds(w, "turn") /\ db.result = "none"

(* externalLauncher prepares the supervision file of the first attempt; a repair goes
   on with the launcher it has. *)
Checkpoint(w) ==
  /\ At(w, "check")
  /\ disk' = [disk EXCEPT !.proof = IF h[w].checkpoint THEN @ ELSE "prepared"]
  /\ IF MayCheckpoint(w)
     THEN /\ db' = [db EXCEPT !.phase = "started", !.stopped = FALSE]
          /\ h' = [h EXCEPT ![w].pc = "launch", ![w].checkpoint = TRUE]
     ELSE Conclude(w, "needs_reconciliation") /\ UNCHANGED db
  /\ UNCHANGED <<late, faults>>

(* adapter.start or resume: identities are read again, then a supervisor is spawned,
   and is told to stop at once where the signal is aborted already. *)
Launch(w) ==
  /\ At(w, "launch")
  /\ \/ /\ h' = [h EXCEPT ![w].pc = "commit", ![w].outcome = "needs_reconciliation",
                         ![w].launched = TRUE]
        /\ UNCHANGED disk
     \/ /\ h[w].launched => h[w].abort = "none"      \* a cancelled session is not resumed
        /\ h' = [h EXCEPT ![w].pc = "watch", ![w].launched = TRUE]
        /\ disk' = [disk EXCEPT !.supervisor = "spawned",
                                !.pipe = IF h[w].abort = "none" THEN "open" ELSE "closed"]
  /\ UNCHANGED <<db, late, faults>>

----------------------------------------------------------------------------
(* The supervisor process (runner-supervisor.ts) *)

(* What it leaves when it is gone. *)
Gone(how, proof) == [disk EXCEPT !.supervisor = how, !.proof = proof, !.pipe = "closed"]

(* It starts a Runner only over a file that says prepared; the process may not start. *)
AnyFile == disk.proof # "absent"      \* a mutant
Prepared == disk.proof = "prepared"

SupervisorStarts ==
  /\ disk.supervisor = "spawned"
  /\ \/ /\ Prepared
        /\ \/ disk' = [disk EXCEPT !.supervisor = "alive", !.runner = "alive"]
           \/ disk' = Gone("exited", "terminated")
     \/ ~Prepared /\ disk' = Gone("refused", disk.proof)
  /\ UNCHANGED <<db, h, late, faults>>

RecordRunning ==
  /\ disk.supervisor = "alive" /\ disk.proof = "prepared"
  /\ disk' = [disk EXCEPT !.proof = "running"]
  /\ UNCHANGED <<db, h, late, faults>>

RunnerExits ==
  /\ disk.runner = "alive"
  /\ disk' = [disk EXCEPT !.runner = "dead"]
  /\ UNCHANGED <<db, h, late, faults>>

(* stop and terminateRunnerGroup: the whole process group is gone. *)
StopRunner ==
  /\ disk.supervisor = "alive" /\ disk.pipe = "closed" /\ disk.runner = "alive"
  /\ disk' = [disk EXCEPT !.runner = "dead"]
  /\ UNCHANGED <<db, h, late, faults>>

(* finish. An exit waits for the record "running"; a stop does not, and both writes go
   through one temporary file, so that either may stay. *)
FinishSupervision ==
  /\ disk.supervisor = "alive" /\ disk.runner = "dead"
  /\ \E proof \in {"terminated", "running"} :
       /\ \/ disk.proof = "running" /\ proof = "terminated"
          \/ disk.proof = "prepared" /\ disk.pipe = "closed"
       /\ disk' = Gone("exited", proof)
  /\ UNCHANGED <<db, h, late, faults>>

(* The supervisor is killed (the adapter does so when it is slow to stop), or finds that
   the group does not die: nobody ends the Runner any more. *)
OrphanRunner ==
  /\ "orphan" \in Faults /\ faults < MaxFaults
  /\ Supervised
  /\ \/ disk' = Gone("lost", disk.proof)
     \/ /\ disk.supervisor = "alive" /\ disk.pipe = "closed"
        /\ disk' = Gone("lost", "unconfirmed")
  /\ faults' = faults + 1
  /\ UNCHANGED <<db, h, late>>

----------------------------------------------------------------------------
(* ExternalCodingRunner: events, and the loop of CodingExecutionEngine *)

(* Where a turn handler waits for something, or reads its signal. *)
Interruptible == {"authorize", "launch", "watch", "judge", "gate", "commit", "settle", "await"}

(* The signal of a handler is aborted: the first reason counts, and a Runner that is
   watched is told to stop. *)
Abort(w, reason) ==
  /\ h[w].abort = "none"
  /\ h' = [h EXCEPT ![w].abort = reason]
  /\ disk' = IF At(w, "watch") THEN Hangup ELSE disk

(* observeCodingExecutionControl *)
SeeCancel(w) ==
  /\ h[w].pc \in Interruptible
  /\ db.cancel
  /\ Abort(w, "user")
  /\ UNCHANGED <<db, late, faults>>

(* pollOnce: the renewal of the lease fails. *)
SeeLostLease(w) ==
  /\ h[w].pc \in Interruptible /\ ~Holds(w, "turn")
  /\ Abort(w, "stop")
  /\ UNCHANGED <<db, late, faults>>

(* The worker is told to stop. *)
StopWorker(w) ==
  /\ "stop" \in Faults /\ faults < MaxFaults
  /\ h[w].pc \in Interruptible \cup {"fail", "retain"}
  /\ Abort(w, "stop")
  /\ faults' = faults + 1
  /\ UNCHANGED <<db, late>>

(* The duration budget of the Execution: time runs while nobody works, too. *)
RunOutOfTime ==
  /\ ~late /\ db.log # "queued"
  /\ late' = TRUE
  /\ UNCHANGED <<db, disk, h, faults>>

(* The deadline of the turn, with which timedOut is set. *)
SeeDeadline(w) ==
  /\ h[w].pc \in Interruptible /\ late
  /\ Abort(w, "late")
  /\ UNCHANGED <<db, late, faults>>

(* An event cannot be recorded. *)
EventsBreak(w) ==
  /\ At(w, "watch") /\ ~Holds(w, "turn")
  /\ Conclude(w, "needs_reconciliation")
  /\ UNCHANGED <<db, disk, late, faults>>

(* What the adapter makes of the end of the output. *)
Reported(w) ==
  IF h[w].abort # "none" THEN {"cancelled"}
  ELSE CASE disk.supervisor = "exited" -> {"completed", "failed", "unknown"}
         [] disk.supervisor = "lost" -> {"failed", "unknown"}
         [] OTHER -> {"unknown"}

(* The result event: five seconds are given to the proof, the outcome is recorded, and
   a finished Runner's candidate is taken from the sandbox. *)
HarvestRunner(w) ==
  /\ At(w, "watch") /\ ~Supervised
  /\ \E reported \in Reported(w) :
       LET status == IF ~ProvedStopped \/ h[w].abort = "late" THEN "unknown" ELSE reported IN
       \E end \in CASE status = "unknown" \/ ~Holds(w, "turn") -> {"needs_reconciliation"}
                     [] status = "completed" -> {"candidate", "failed", "needs_reconciliation"}
                     [] OTHER -> {status} :
         /\ db' = IF status # "unknown" /\ Holds(w, "turn")
                  THEN [db EXCEPT !.unsettled = @ \ {"runner"}] ELSE db
         /\ h' = [h EXCEPT ![w].stopped = ProvedStopped,
                           ![w].pc = IF end = "candidate" THEN "judge" ELSE "commit",
                           ![w].outcome = IF end = "candidate" THEN @ ELSE end]
  /\ UNCHANGED <<disk, late, faults>>

(* verifySandboxCandidate starts the authoritative check. *)
StartGate(w) ==
  /\ At(w, "judge") /\ Holds(w, "turn") /\ MayInvoke /\ h[w].abort = "none"
  /\ db' = [db EXCEPT !.unsettled = @ \cup {"gate"}]
  /\ Go(w, "gate")
  /\ UNCHANGED <<disk, late, faults>>

(* The check passes; or it fails, or cannot be made or recorded, which counts as
   failed and may leave its call open: then the Runner is asked to repair, while the
   budget for repairs lasts. *)
GateEnds(w) ==
  /\ \/ /\ At(w, "gate") /\ Holds(w, "turn") /\ h[w].abort = "none"
        /\ db' = [db EXCEPT !.unsettled = @ \ {"gate"}]
        /\ Conclude(w, "waiting_approval")
     \/ /\ \/ At(w, "gate") /\ Holds(w, "turn") /\ db' = [db EXCEPT !.unsettled = @ \ {"gate"}]
           \/ h[w].pc \in {"judge", "gate"} /\ UNCHANGED db
        /\ \/ Conclude(w, "paused")
           \/ Holds(w, "turn") /\ Go(w, "authorize")
           \/ ~Holds(w, "turn") /\ h' = [h EXCEPT ![w].pc = "unwind", ![w].next = "fail"]
  /\ UNCHANGED <<disk, late, faults>>

----------------------------------------------------------------------------
(* The result of a turn *)

(* persistCodingResult, as the transaction of a handler that brings result and what it
   knows of the Runner's end: what becomes of the Execution (confirmedCancellation), what
   of the result, and whether the two go together. *)
ExecutionAfter(result, stopped) ==
  IF /\ db.exec = "needs_reconciliation" /\ result = "cancelled"
     /\ db.cancel /\ db.phase = "started" /\ stopped /\ db.unsettled = {}
  THEN "cancelled" ELSE db.exec

ResultAfter(result, stopped) ==
  LET exec == ExecutionAfter(result, stopped)
  IN  CASE exec = "cancelled" -> "cancelled"
        [] exec = "needs_reconciliation" /\ result = "cancelled" -> "needs_reconciliation"
        [] OTHER -> result

Accepts(result, stopped) ==
  LET exec == ExecutionAfter(result, stopped)
      final == ResultAfter(result, stopped)
  IN  \/ final = "cancelled" /\ exec = "cancelled"
      \/ final # "cancelled" /\ exec = "running"
      \/ final \in {"failed", "needs_reconciliation"} /\ exec = final

(* The records afterwards. A result that is there already stays. *)
Persisted(result, stopped) ==
  LET exec == ExecutionAfter(result, stopped)
      final == ResultAfter(result, stopped)
      invoked == db.phase = "started"
      clean == invoked /\ stopped /\ final # "needs_reconciliation"
  IN IF db.result # "none" THEN [db EXCEPT !.exec = exec]
     ELSE [db EXCEPT !.exec = exec, !.result = final,
             !.phase = CASE ~invoked -> @
                         [] final = "needs_reconciliation" -> "outcome_unknown"
                         [] OTHER -> "settled",
             !.stopped = invoked /\ stopped,
             !.cleanup = IF clean THEN "pending" ELSE @,
             !.job["cleanup"] = IF clean THEN "available" ELSE @]

(* The end of the turn handler's main path: the engine's result, which becomes
   cancelled where the user has cancelled and the Runner is known to be gone, is
   persisted; what may be deleted afterwards is decided before. Where a worker stops or
   the time is over, only an unknown result is. *)
CommitResult(w) ==
  /\ At(w, "commit")
  /\ LET engine == h[w].outcome
         result == IF h[w].abort = "user" /\ h[w].stopped THEN "cancelled" ELSE engine
         given == h[w].abort \in {"stop", "late"} /\ engine # "needs_reconciliation"
         refused == given \/ ~Holds(w, "turn") \/ ~Accepts(result, h[w].stopped)
     IN /\ db' = IF refused THEN db ELSE Persisted(result, h[w].stopped)
        /\ h' = [h EXCEPT ![w].pc = "unwind",
                          ![w].next = IF refused THEN "fail" ELSE "settle",
                          ![w].keep = \/ given
                                      \/ result = "needs_reconciliation"
                                      \/ ~refused /\ db'.cleanup = "pending"]
  /\ UNCHANGED <<disk, late, faults>>

(* The Runner this handler launched may be at work. *)
MayLiveUnlessKept(w) == ~h[w].keep /\ h[w].launched /\ disk.pipe = "open"      \* a mutant
MayLive(w) == h[w].launched /\ disk.pipe = "open"

(* cleanup(keep): a Runner that may be at work is told to stop and awaited for five
   seconds, then the sandbox and the proof go unless they are kept. Nothing is deleted
   where the end of a launched Runner is not proved. A failure is met once more. *)
Unwind(w) ==
  /\ At(w, "unwind")
  /\ LET sure == h[w].stopped \/ ProvedStopped
         first == h[w].next = "settle"
         Fails == h' = IF first THEN [h EXCEPT ![w].next = "fail"]
                       ELSE [h EXCEPT ![w] = [Fresh EXCEPT !.pc = "fail", !.abort = h[w].abort]]
     IN \/ MayLive(w) /\ disk' = Hangup /\ UNCHANGED h
        \/ /\ ~MayLive(w)
           /\ \/ /\ h[w].launched /\ ~sure /\ ~h[w].keep
                 /\ Fails /\ UNCHANGED disk
              \/ /\ h[w].launched => sure \/ h[w].keep
                 /\ LET gone == [disk EXCEPT !.sandbox = @ /\ h[w].keep /\ h[w].checkpoint]
                        \* a launcher was made, and its file is to go
                        forget == disk.proof # "absent" /\ ~h[w].keep
                    IN IF forget /\ ~ProvedStopped
                       THEN disk' = gone /\ Fails
                       ELSE /\ disk' = [gone EXCEPT !.proof = IF forget THEN "absent" ELSE @]
                            /\ h' = [h EXCEPT ![w] = [Fresh EXCEPT !.pc = h[w].next,
                                                                  !.abort = h[w].abort]]
  /\ UNCHANGED <<db, late, faults>>

----------------------------------------------------------------------------
(* How a turn ends *)

(* settlePersistedResult *)
SettleResult(w) ==
  /\ At(w, "settle") /\ Holds(w, "turn") /\ db.result \in Ended
  /\ EndTurn(w, IF late THEN "paused" ELSE db.result)
  /\ UNCHANGED <<disk, late, faults>>

(* The same for an unknown result, stored or recorded on recovery: the log says so, and
   the Execution follows in a transaction of its own. *)
SettleUnknown(w) ==
  /\ Holds(w, "turn")
  /\ At(w, "unknown") \/ (At(w, "settle") /\ db.result = "needs_reconciliation")
  /\ db' = [db EXCEPT !.log = "needs_reconciliation"]
  /\ Go(w, "report")
  /\ UNCHANGED <<disk, late, faults>>

AwaitsDecision(w) == At(w, "settle") /\ Holds(w, "turn") /\ db.result = "waiting_approval"

(* decideApproval on the candidate: a denial fails the Execution. *)
DenyCandidate ==
  /\ db.result = "waiting_approval" /\ db.exec = "running"
  /\ db' = [db EXCEPT !.exec = "failed"]
  /\ UNCHANGED <<disk, h, late, faults>>

(* persistCodingDecision *)
ApproveCandidate(w) ==
  /\ AwaitsDecision(w) /\ db.exec = "running" /\ h[w].abort = "none"
  /\ db' = [db EXCEPT !.result = "completed"]
  /\ UNCHANGED <<disk, h, late, faults>>

RejectCandidate(w) ==
  /\ AwaitsDecision(w) /\ db.exec \in {"failed", "cancelled"}
  /\ db' = [db EXCEPT !.result = "cancelled"]
  /\ UNCHANGED <<disk, h, late, faults>>

(* The approval expires, or the worker stops waiting for it. *)
AbandonCandidate(w) ==
  /\ AwaitsDecision(w) /\ db.exec \notin {"failed", "cancelled"}
  /\ Go(w, "fail")
  /\ UNCHANGED <<db, disk, late, faults>>

(* An error leaves the handler; past the deadline it is a pause. *)
FailTurn(w) ==
  /\ At(w, "fail") /\ Holds(w, "turn")
  /\ IF h[w].abort = "stop" /\ ~late
     THEN db' = [db EXCEPT !.log = "interrupted"] /\ Go(w, "drop")
     ELSE EndTurn(w, IF late THEN "paused" ELSE "failed")
  /\ UNCHANGED <<disk, late, faults>>

(* createAgentExecutionWorkerHandler reads the Execution again to name the error, and
   pollOnce looks at the stop signal before it looks at the error. *)
ReportUnknown(w) ==
  /\ At(w, "report") /\ Holds(w, "turn")
  /\ Go(w, IF h[w].abort = "stop" \/ db.exec = "cancelled" THEN "drop" ELSE "mark")
  /\ UNCHANGED <<db, disk, late, faults>>

(* markNeedsReconciliation, whatever the Execution says by now. *)
MarkUnknown(w) ==
  /\ At(w, "mark") /\ Holds(w, "turn")
  /\ db' = [db EXCEPT !.exec = "needs_reconciliation", !.job["turn"] = "done"]
  /\ Leave(w)
  /\ UNCHANGED <<disk, late, faults>>

(* What the Execution becomes. *)
DroppedOnly(stop) == db.exec      \* a mutant
Dropped(stop) ==
  IF db.exec # "running" THEN db.exec ELSE IF stop THEN "interrupted" ELSE "failed"

(* interruptJob for a worker that stops, which throws over an ended Execution and
   leaves the job to its lease; failJob otherwise. *)
DropTurn(w) ==
  /\ At(w, "drop") /\ Holds(w, "turn")
  /\ LET stop == h[w].abort = "stop" IN
     db' = IF stop /\ db.exec \in Ended THEN db
           ELSE [db EXCEPT !.job["turn"] = "done", !.exec = Dropped(stop)]
  /\ Leave(w)
  /\ UNCHANGED <<disk, late, faults>>

(* The recovery of a started Runner: five seconds for the proof, then the outcome is
   recorded as unknown. Nothing is started again and nothing is deleted. *)
AwaitRunner(w) ==
  /\ At(w, "await") /\ Holds(w, "turn")
  /\ \/ /\ h[w].abort = "none"
        /\ \E stopped \in {FALSE, ProvedStopped} :
             IF Accepts("needs_reconciliation", stopped)
             THEN db' = Persisted("needs_reconciliation", stopped) /\ Go(w, "unknown")
             ELSE UNCHANGED db /\ Go(w, "fail")
     \/ h[w].abort # "none" /\ UNCHANGED db /\ Go(w, "fail")
  /\ UNCHANGED <<disk, late, faults>>

----------------------------------------------------------------------------
(* People: the cancel command and the decisions of a reconciliation *)

(* commandExecution *)
CancelExecution ==
  /\ db.exec \notin {"completed", "failed", "cancelled"} /\ ~db.cancel
  /\ db' = [db EXCEPT !.cancel = TRUE,
                !.exec = IF @ = "needs_reconciliation" \/ db.unsettled # {}
                         THEN "needs_reconciliation" ELSE "cancelled"]
  /\ UNCHANGED <<disk, h, late, faults>>

(* decideCodingReconciliation: there must be an unknown call whose Runner is known to
   have ended. *)
MayDecide ==
  /\ db.exec = "needs_reconciliation" /\ db.phase = "outcome_unknown"
  /\ db.result = "needs_reconciliation" /\ db.stopped

(* terminate, or create_new_call, which a pending verification forbids; terminate takes
   the verification's job away from whoever has it. *)
Terminate(newCall) ==
  /\ MayDecide
  /\ db.verification = "pending" => ~newCall /\ db.job["verify"] # "done"
  /\ db' = [db EXCEPT !.exec = "cancelled", !.result = "cancelled", !.phase = "settled",
                !.cleanup = "pending", !.replaced = newCall,
                !.verification = IF @ = "pending" THEN "failed" ELSE @,
                !.job["cleanup"] = "available",
                !.job["verify"] = IF db.verification = "pending" THEN "done" ELSE @]
  /\ UNCHANGED <<disk, h, late, faults>>

(* mark_completed asks for the authoritative check of the candidate that was kept. *)
RequestVerification ==
  /\ MayDecide /\ db.verification = "none"
  /\ db' = [db EXCEPT !.verification = "pending", !.job["verify"] = "available"]
  /\ UNCHANGED <<disk, h, late, faults>>

----------------------------------------------------------------------------
(* The jobs verify and cleanup *)

ClaimSideJob(w, j) ==
  /\ Fit(w) /\ j # "turn" /\ db.job[j] = "available"
  /\ db' = [db EXCEPT !.job[j] = w]
  /\ Go(w, IF j = "verify" THEN "retain" ELSE "delete")
  /\ UNCHANGED <<disk, late, faults>>

(* The verification handler reads the records and the sandbox; a record that does not
   fit fails the job, a worker that stops interrupts it. *)
VerifyCandidate(w) ==
  /\ At(w, "retain")
  /\ \/ /\ Holds(w, "verify") /\ MayDecide /\ db.verification = "pending" /\ h[w].abort = "none"
        /\ \E verdict \in {"failed"} \cup (IF disk.sandbox THEN {"completed"} ELSE {}) :
             h' = [h EXCEPT ![w].pc = "verdict", ![w].outcome = verdict]
     \/ /\ ~(MayDecide /\ db.verification = "pending") \/ h[w].abort = "stop" \/ ~Holds(w, "verify")
        /\ Go(w, "close")
  /\ UNCHANGED <<db, disk, late, faults>>

(* persistReconciliationVerification *)
VerdictOnRequest(w) == db.verification # "none"      \* a mutant
MayRecordVerdict(w) == Holds(w, "verify") /\ MayDecide /\ db.verification = "pending"

RecordVerdict(w) ==
  /\ At(w, "verdict")
  /\ LET passed == h[w].outcome = "completed" IN
     db' = IF ~MayRecordVerdict(w) THEN db
           ELSE IF ~passed THEN [db EXCEPT !.verification = "failed"]
           ELSE [db EXCEPT !.exec = "completed", !.result = "completed", !.phase = "settled",
                   !.verification = "passed", !.cleanup = "pending", !.job["cleanup"] = "available"]
  /\ Go(w, "close")
  /\ UNCHANGED <<disk, late, faults>>

(* The cleanup handler: the proof is asked for again, sandbox and proof are deleted, and
   only then is the record written. *)
DeleteSandbox(w) ==
  /\ At(w, "delete")
  /\ IF /\ Holds(w, "cleanup") /\ db.cleanup = "pending" /\ db.stopped /\ ProvedStopped
     THEN disk' = [disk EXCEPT !.sandbox = FALSE] /\ Go(w, "forget")
     ELSE UNCHANGED disk /\ Go(w, "close")
  /\ UNCHANGED <<db, late, faults>>

DeleteProof(w) ==
  /\ At(w, "forget")
  /\ IF ProvedStopped
     THEN disk' = [disk EXCEPT !.proof = "absent"] /\ Go(w, "cleaned")
     ELSE UNCHANGED disk /\ Go(w, "close")
  /\ UNCHANGED <<db, late, faults>>

RecordCleaned(w) ==
  /\ At(w, "cleaned")
  /\ db' = IF Holds(w, "cleanup") THEN [db EXCEPT !.cleanup = "cleaned"] ELSE db
  /\ Go(w, "close")
  /\ UNCHANGED <<disk, late, faults>>

(* completeJob, failJob or interruptJob: neither job carries its Execution along. *)
CloseSideJob(w) ==
  /\ At(w, "close")
  /\ db' = [db EXCEPT !.job = [j \in Job |-> IF j # "turn" /\ @[j] = w THEN "done" ELSE @[j]]]
  /\ Leave(w)
  /\ UNCHANGED <<disk, late, faults>>

----------------------------------------------------------------------------
(* Faults *)

(* A worker dies; the control pipe of its supervisor ends with it. *)
Crash(w) ==
  /\ "crash" \in Faults /\ faults < MaxFaults
  /\ ~At(w, "idle")
  /\ Leave(w)
  /\ disk' = IF h[w].launched THEN Hangup ELSE disk
  /\ faults' = faults + 1
  /\ UNCHANGED <<db, late>>

(* The lease of a handler that is gone runs out. *)
LeaseExpires(j) ==
  /\ db.job[j] \in Worker /\ At(db.job[j], "idle")
  /\ db' = [db EXCEPT !.job[j] = "available"]
  /\ UNCHANGED <<disk, h, late, faults>>

(* The same of a handler that goes on, late or cut off. *)
LeaseLapses(j) ==
  /\ "lapse" \in Faults /\ faults < MaxFaults
  /\ db.job[j] \in Worker /\ ~At(db.job[j], "idle")
  /\ db' = [db EXCEPT !.job[j] = "available"]
  /\ faults' = faults + 1
  /\ UNCHANGED <<disk, h, late>>

----------------------------------------------------------------------------
TurnStep(w) ==
  \/ ClaimTurn(w) \/ LoseLease(w) \/ StartTurn(w) \/ RecoverTurn(w)
  \/ InspectRepository(w) \/ PrepareSandbox(w)
  \/ Authorize(w) \/ CheckFails(w) \/ Checkpoint(w) \/ Launch(w)
  \/ EventsBreak(w) \/ HarvestRunner(w) \/ StartGate(w) \/ GateEnds(w)
  \/ CommitResult(w) \/ Unwind(w) \/ SettleResult(w) \/ SettleUnknown(w)
  \/ RejectCandidate(w) \/ AbandonCandidate(w) \/ FailTurn(w)
  \/ ReportUnknown(w) \/ MarkUnknown(w) \/ DropTurn(w) \/ AwaitRunner(w)

SideStep(w) ==
  \/ \E j \in Job : ClaimSideJob(w, j)
  \/ VerifyCandidate(w) \/ RecordVerdict(w)
  \/ DeleteSandbox(w) \/ DeleteProof(w) \/ RecordCleaned(w) \/ CloseSideJob(w)

SupervisorStep ==
  SupervisorStarts \/ RecordRunning \/ StopRunner \/ FinishSupervision

PersonStep ==
  \/ CancelExecution \/ DenyCandidate \/ RequestVerification
  \/ \E newCall \in BOOLEAN : Terminate(newCall)
  \/ \E w \in Worker : ApproveCandidate(w)

Next ==
  \/ \E w \in Worker : \/ TurnStep(w) \/ SideStep(w)
                       \/ SeeCancel(w) \/ SeeLostLease(w) \/ SeeDeadline(w)
                       \/ StopWorker(w) \/ Crash(w)
  \/ RunOutOfTime \/ SupervisorStep \/ RunnerExits \/ OrphanRunner
  \/ PersonStep
  \/ \E j \in Job : LeaseExpires(j) \/ LeaseLapses(j)

Spec == Init /\ [][Next]_vars

(* Handlers run on, somebody polls, the supervisor is scheduled, timers fire. No person
   has to act, and no Runner has to end by itself. *)
FairSpec ==
  /\ Spec
  /\ \A w \in Worker : /\ WF_vars(TurnStep(w)) /\ WF_vars(SideStep(w))
                       /\ WF_vars(SeeDeadline(w))
  /\ WF_vars(RunOutOfTime) /\ WF_vars(SupervisorStep)
  /\ \A j \in Job : WF_vars(LeaseExpires(j))

----------------------------------------------------------------------------
(* Properties *)

RunnerAlive == disk.runner = "alive"

(* Nothing is left at work: while a Runner is alive nobody has deleted the files it works
   on, and its Execution has not ended, whatever handlers were replaced, cut off or
   cancelled between the approval, the checkpoint and the launch (cancelling asks for
   settled calls, a checkpoint for the lease, a deletion for the proof). The one way out
   takes three faults: a worker that awaits the Runner of one that is gone is told to
   stop, and is lost after it has written "interrupted" to the log; whoever finds that log
   fails the Execution (handle.status, createCodingExecutionWorkerHandler). *)
NoRunnerBehind ==
  RunnerAlive =>
    /\ disk.sandbox
    /\ db.exec \in {"completed", "failed", "cancelled"} => faults > 2 /\ db.log = "interrupted"

(* A Runner that was started and whose call has no outcome is not left behind by an
   Execution that has ended, the end of its time included: somebody is asked
   ("外部 Runner 已启动但结果未知时仍进入人工核对，不能按普通超时重试",
   docs/architecture.md:82). *)
StartedIsReconciled ==
  db.phase = "started" /\ "runner" \in db.unsettled => db.exec \notin Ended

(* Who relies on the end of the Runner is right for good: while termination is recorded
   as confirmed, a new call has taken the place of this one, or a handler judges,
   verifies or forgets what the Runner left, no Runner is alive, not even one that a
   replaced handler launches later (confirmRunnerStopped, runner-supervisor.ts). *)
ConfirmedIsStopped ==
  (\/ db.stopped \/ db.replaced
   \/ \E w \in Worker : h[w].pc \in {"judge", "gate", "verdict", "forget"}) => ~RunnerAlive

(* What a person has ended stays ended: the verdict of a verification that was under way
   does not complete it, and no handler that comes late changes the result
   (terminate, persistReconciliationVerification, finalizeCodingRuntime). *)
CancelledStands ==
  [][db.result = "cancelled" => db'.result = "cancelled" /\ db'.exec # "completed"]_vars

(* A Runner does not run for ever: its deadline, a cancellation, a handler that gives up
   and the death of a worker all reach its supervisor, unless that is gone itself. *)
RunnerEnds == RunnerAlive ~> ~RunnerAlive \/ disk.supervisor = "lost"

(* Every turn comes to an end that is recorded, through repairs, refused commits,
   failing cleanups and the recoveries that follow a fault. *)
TurnEnds == <>(db.exec \notin {"queued", "running"})

=============================================================================

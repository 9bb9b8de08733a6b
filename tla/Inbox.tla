-------------------------------- MODULE Inbox --------------------------------
(***************************************************************************)
(* The inbox of one Execution: user messages that become turns, steers     *)
(* that a turn picks up at its next model boundary, and the item by which  *)
(* a resumed Execution takes up the turn it left.  All of it is derived    *)
(* from the runtime records.  The HTTP handler appends messages in its own *)
(* transaction while a worker's drain loop reads the records, decides and  *)
(* commits, and the commit is refused when any record was appended since   *)
(* the read.  A worker may crash between any two steps; a stopping worker  *)
(* sets the status in memory at once and writes the record later.          *)
(*                                                                         *)
(* One handler at a time: JobLease and AgentTurn are about several.  Tool  *)
(* calls, approvals and cancellation are AgentTurn's; waiting_approval is  *)
(* counted as running here.                                                *)
(***************************************************************************)
EXTENDS Integers, Sequences

CONSTANTS
  MaxPosts,     \* bound: messages users post to the running Execution
  MaxResumes,   \* bound: resume commands
  MaxCrashes,   \* bound: workers that die in a handler
  MaxStops,     \* bound: workers that are told to stop
  MaxBoundary   \* model boundaries of a turn (maxModelBoundariesPerTurn)

ASSUME InboxAssumption ==
  /\ MaxPosts \in Nat /\ MaxResumes \in Nat /\ MaxCrashes \in Nat /\ MaxStops \in Nat
  /\ MaxBoundary \in Nat \ {0}

VARIABLES
  exec,     \* status of the Execution and the command of its job
  log,      \* what the runtime records say
  h,        \* the handler at work
  bound     \* posts, resumes, crashes and stops so far

vars == <<exec, log, h, bound>>

LogStatus == {"queued", "running", "paused", "interrupted", "completed", "failed"}
Kind == {"initial", "follow_up", "steer", "resume"}

(* Items are named by their place in the order of acceptance, turns by their number. *)
Log == [status: LogStatus, items: Seq(Kind), consumed: SUBSET Nat,
        started: Seq(Nat), done: SUBSET Nat]

LogOK(l) ==
  /\ l \in Log
  /\ l.consumed \subseteq DOMAIN l.items
  /\ \A t \in DOMAIN l.started : l.started[t] \in l.consumed
  /\ l.done \subseteq DOMAIN l.started

Handler == [
  pc: {"none", "opened", "first", "resume", "queueing", "kick", "starting", "loop", "begin",
       "empty", "finish", "boundary", "steer", "model", "answered", "aborted"},
  st: LogStatus,          \* the status in memory
  seen: Log,              \* the records as it last read them
  boundary: 0 .. MaxBoundary,
  stopped: BOOLEAN,       \* the worker is told to stop
  owed: BOOLEAN]          \* its interrupted record is not written yet

TypeOK ==
  /\ exec \in [status: LogStatus, command: {"start", "resume"}]
  /\ LogOK(log) /\ LogOK(h.seen)
  /\ h \in Handler
  /\ bound \in [posts: 0 .. MaxPosts, resumes: 0 .. MaxResumes,
                crashes: 0 .. MaxCrashes, stops: 0 .. MaxStops]

NoRecords == [status |-> "queued", items |-> <<>>, consumed |-> {}, started |-> <<>>, done |-> {}]
NoHandler == [pc |-> "none", st |-> "queued", seen |-> NoRecords, boundary |-> 0,
              stopped |-> FALSE, owed |-> FALSE]

(* A submitted turn: the Execution is queued with its start job, no record exists. *)
Init ==
  /\ exec = [status |-> "queued", command |-> "start"]
  /\ log = NoRecords
  /\ h = NoHandler
  /\ bound = [posts |-> 0, resumes |-> 0, crashes |-> 0, stops |-> 0]

----------------------------------------------------------------------------
(* Reading the records *)

Pending(l, kinds) == {i \in DOMAIN l.items : l.items[i] \in kinds /\ i \notin l.consumed}
UserInput == {"initial", "follow_up"}

(* A resume goes first, then the initial message, then the others in order. *)
Rank(l, i) == CASE l.items[i] = "resume" -> 0 [] l.items[i] = "initial" -> 1 [] OTHER -> 2
Turns(l) == Pending(l, UserInput \cup {"resume"})
Before(l, i, j) == Rank(l, i) < Rank(l, j) \/ (Rank(l, i) = Rank(l, j) /\ i < j)

(* Mutants: the latest message first; messages before the resume. *)
NextItemLatest(l) == CHOOSE i \in Turns(l) : \A j \in Turns(l) : j <= i
NextItemByAge(l) == CHOOSE i \in Turns(l) : \A j \in Turns(l) : i <= j

NextItem(l) == CHOOSE i \in Turns(l) : \A j \in Turns(l) \ {i} : Before(l, i, j)

IncompleteTurn(l) == \E t \in DOMAIN l.started : t \notin l.done

NeedsResumeItem(l) ==
  /\ IncompleteTurn(l) \/ Pending(l, {"steer"}) # {}
  /\ Pending(l, {"resume"}) = {}

----------------------------------------------------------------------------
(* Writing them *)

WithItem(l, kind) == [l EXCEPT !.items = Append(@, kind)]
WithStatus(l, status) == [l EXCEPT !.status = status]
WithTurn(l, i) == [l EXCEPT !.consumed = @ \cup {i}, !.started = Append(@, i)]
WithSteers(l, items) == [l EXCEPT !.consumed = @ \cup items]

(* A commit is refused when the last sequence is no longer the one that was read. *)
(* Mutant: commit whatever was appended since.                                    *)
UnchangedOrNot(l) == TRUE
Unchanged(l) == log = l

Goto(pc) == h' = [h EXCEPT !.pc = pc]
Read(pc) == h' = [h EXCEPT !.pc = pc, !.seen = log]
At(pc) == h.pc = pc

(* A refused commit is tried again from a new read. *)
Retry(pc) == ~Unchanged(h.seen) /\ Read(pc) /\ UNCHANGED log

(* A status record that ends the job also settles it and the Execution (onCommit). *)
Settle(status) ==
  /\ log' = WithStatus(log, status)
  /\ exec' = [exec EXCEPT !.status = status]
  /\ h' = NoHandler

----------------------------------------------------------------------------
(* Users *)

(* Messages are accepted only while the Execution runs. *)
Post(kind) ==
  /\ exec.status = "running"
  /\ bound.posts < MaxPosts
  /\ log' = WithItem(log, kind)
  /\ bound' = [bound EXCEPT !.posts = @ + 1]
  /\ UNCHANGED <<exec, h>>

Resume ==
  /\ exec.status \in {"paused", "interrupted"}
  /\ bound.resumes < MaxResumes
  /\ exec' = [status |-> "queued", command |-> "resume"]
  /\ bound' = [bound EXCEPT !.resumes = @ + 1]
  /\ UNCHANGED <<log, h>>

----------------------------------------------------------------------------
(* The worker takes a job and opens the runtime on the records *)

(* A status left running by a dead handler becomes interrupted. *)
Recovered == IF log.status = "running" THEN "interrupted" ELSE log.status

Claim ==
  /\ At("none")
  /\ exec.status \in {"queued", "running"}
  /\ log' = WithStatus(log, Recovered)
  /\ \/ /\ Recovered \in {"paused", "interrupted"} /\ exec.command = "start"
        /\ exec' = [exec EXCEPT !.status = "interrupted"]
        /\ UNCHANGED h
     \/ /\ Recovered = "queued" /\ exec.command = "resume"
        /\ exec' = [exec EXCEPT !.status = "failed"]
        /\ UNCHANGED h
     \/ /\ (Recovered = "queued") = (exec.command = "start")
        /\ exec' = [exec EXCEPT !.status = "running"]
        /\ h' = [NoHandler EXCEPT !.pc = "opened", !.st = Recovered]
  /\ UNCHANGED bound

(* start: the initial message, unless the records hold it or a turn already. *)
Start ==
  /\ At("opened") /\ ~h.stopped /\ exec.command = "start"
  /\ Read("first")
  /\ UNCHANGED <<exec, log, bound>>

HasStarted(l) == l.started # <<>> \/ \E i \in DOMAIN l.items : l.items[i] = "initial"

EnqueueInitial ==
  \/ /\ At("first") /\ HasStarted(h.seen) /\ Goto("kick")
     /\ UNCHANGED <<exec, log, bound>>
  \/ /\ At("first") /\ ~HasStarted(h.seen)
     /\ \/ Unchanged(h.seen) /\ log' = WithItem(log, "initial") /\ Goto("kick")
        \/ Retry("first")
     /\ UNCHANGED <<exec, bound>>

(* resume: read, append a resume item if one is needed, then queue again. *)
ReadForResume ==
  /\ At("opened") /\ ~h.stopped /\ exec.command = "resume"
  /\ Read("resume")
  /\ UNCHANGED <<exec, log, bound>>

EnqueueResume ==
  /\ At("resume")
  /\ log' = IF NeedsResumeItem(h.seen) THEN WithItem(log, "resume") ELSE log
  /\ h' = [h EXCEPT !.pc = "queueing", !.st = "queued"]
  /\ UNCHANGED <<exec, bound>>

WriteQueued ==
  /\ At("queueing")
  /\ log' = WithStatus(log, "queued")
  /\ Goto("kick")
  /\ UNCHANGED <<exec, bound>>

----------------------------------------------------------------------------
(* The drain loop *)

Kick ==
  /\ At("kick") /\ h.st = "queued"
  /\ h' = [h EXCEPT !.pc = "starting", !.st = "running"]
  /\ UNCHANGED <<exec, log, bound>>

WriteRunning ==
  /\ At("starting")
  /\ log' = WithStatus(log, "running")
  /\ Goto("loop")
  /\ UNCHANGED <<exec, bound>>

Loop ==
  /\ At("loop") /\ h.st = "running"
  /\ Read("begin")
  /\ UNCHANGED <<exec, log, bound>>

BeginTurn ==
  \/ /\ At("begin") /\ Turns(h.seen) = {} /\ Goto("empty")
     /\ UNCHANGED <<exec, log, bound>>
  \/ /\ At("begin") /\ Turns(h.seen) # {}
     /\ \/ /\ Unchanged(h.seen)
           /\ log' = WithTurn(log, NextItem(h.seen))
           /\ h' = [h EXCEPT !.pc = "boundary", !.boundary = 0]
        \/ Retry("begin")
     /\ UNCHANGED <<exec, bound>>

(* Mutant: the end of the queue is reached once, a message that came since waits on. *)
CheckEmptyOnce ==
  /\ At("empty")
  /\ IF Turns(log) = {} /\ log.status = "running" THEN Read("finish") ELSE Goto("empty")
  /\ UNCHANGED <<exec, log, bound>>

(* completeIfEmpty: a new read, and nothing to do unless the records say running. *)
CheckEmpty ==
  /\ At("empty")
  /\ IF Turns(log) = {} /\ log.status = "running" THEN Read("finish") ELSE Goto("loop")
  /\ UNCHANGED <<exec, log, bound>>

Finish ==
  /\ At("finish")
  /\ \/ /\ Unchanged(h.seen)
        /\ Settle(IF Pending(h.seen, {"steer"}) # {} THEN "paused" ELSE "completed")
     \/ ~Unchanged(h.seen) /\ Goto("loop") /\ UNCHANGED <<exec, log>>
  /\ UNCHANGED bound

----------------------------------------------------------------------------
(* A turn *)

ReadSteers ==
  /\ At("boundary") /\ h.st = "running" /\ h.boundary < MaxBoundary
  /\ h' = [h EXCEPT !.pc = "steer", !.seen = log]
  /\ UNCHANGED <<exec, log, bound>>

Request == h' = [h EXCEPT !.pc = "model", !.boundary = @ + 1]

(* Steers are applied in one commit, then the request is sent. *)
ApplySteers ==
  /\ At("steer")
  /\ \/ Pending(h.seen, {"steer"}) = {} /\ Request /\ UNCHANGED log
     \/ /\ Pending(h.seen, {"steer"}) # {} /\ Unchanged(h.seen)
        /\ log' = WithSteers(log, Pending(h.seen, {"steer"}))
        /\ Request
     \/ Pending(h.seen, {"steer"}) # {} /\ Retry("steer")
  /\ UNCHANGED <<exec, bound>>

(* The answer of the model: tools and another boundary, or the end of the turn. *)
Answer ==
  /\ At("model") /\ h.st = "running"
  /\ Goto("boundary") \/ Goto("answered")
  /\ UNCHANGED <<exec, log, bound>>

CompleteTurn ==
  /\ At("answered")
  /\ log' = [log EXCEPT !.done = @ \cup {Len(log.started)}]
  /\ Goto("loop")
  /\ UNCHANGED <<exec, bound>>

(* The model fails, a budget runs out, or the turn has no boundary left. *)
Fail ==
  /\ h.st = "running"
  /\ \/ At("model") /\ (Settle("failed") \/ Settle("paused"))
     \/ At("aborted") /\ Settle("failed")
     \/ At("boundary") /\ h.boundary = MaxBoundary /\ Settle("failed")
  /\ UNCHANGED bound

----------------------------------------------------------------------------
(* Stops and crashes *)

(* interrupt returns early when the status in memory is already interrupted. *)
Stop ==
  /\ ~At("none") /\ ~h.stopped
  /\ bound.stops < MaxStops
  /\ bound' = [bound EXCEPT !.stops = @ + 1]
  /\ h' = IF h.st = "interrupted" THEN [h EXCEPT !.stopped = TRUE]
          ELSE [h EXCEPT !.stopped = TRUE, !.st = "interrupted", !.owed = TRUE]
  /\ UNCHANGED <<exec, log>>

(* The record is followed by the abort of the model call under way. *)
WriteInterrupted ==
  /\ h.owed
  /\ log' = WithStatus(log, "interrupted")
  /\ h' = [h EXCEPT !.owed = FALSE, !.pc = IF @ = "model" THEN "aborted" ELSE @]
  /\ UNCHANGED <<exec, bound>>

(* Stopped before start or resume, out of the loop, in a turn or in a model call: *)
(* the handler ends and its job is interrupted, whether or not the record is out. *)
Ends ==
  \/ At("opened") /\ h.stopped
  \/ h.pc \in {"kick", "loop", "boundary", "model", "aborted"} /\ h.st = "interrupted"

InterruptJob ==
  /\ Ends
  /\ exec' = [exec EXCEPT !.status = "interrupted"]
  /\ h' = NoHandler
  /\ UNCHANGED <<log, bound>>

Crash ==
  /\ ~At("none")
  /\ bound.crashes < MaxCrashes
  /\ bound' = [bound EXCEPT !.crashes = @ + 1]
  /\ h' = NoHandler
  /\ UNCHANGED <<exec, log>>

----------------------------------------------------------------------------

Work ==
  \/ Start \/ EnqueueInitial \/ ReadForResume \/ EnqueueResume \/ WriteQueued
  \/ Kick \/ WriteRunning \/ Loop \/ BeginTurn \/ CheckEmpty \/ Finish
  \/ ReadSteers \/ ApplySteers \/ Answer \/ CompleteTurn \/ Fail
  \/ WriteInterrupted \/ InterruptJob

Next ==
  \/ \E kind \in {"follow_up", "steer"} : Post(kind)
  \/ Resume \/ Claim \/ Work \/ Stop \/ Crash

Spec == Init /\ [][Next]_vars

(* Jobs are polled for, and a handler's steps are promises the event loop keeps; model *)
(* calls are cut off by the duration budget.                                           *)
FairSpec == Spec /\ WF_vars(Claim) /\ WF_vars(Work) /\ WF_vars(WriteInterrupted)

----------------------------------------------------------------------------
(* Properties *)

(* No completed Execution leaves an accepted message, steer or resume behind: the    *)
(* completion is committed against the records it was decided from, and from then on *)
(* nothing is accepted (completeIfEmpty, the follow_up and steer handler).           *)
NothingLeftBehind ==
  exec.status = "completed" => Pending(log, Kind) = {}

(* Turns of the messages users post begin once each and in the order of acceptance, *)
(* whatever crashes, retries and resumes lie between (beginTurn, pendingItems).     *)
FollowUpsInOrder ==
  LET KindOf(t) == log.items[log.started[t]]
  IN  \A t, u \in DOMAIN log.started :
        t < u /\ KindOf(t) = "follow_up" /\ KindOf(u) = "follow_up"
          => log.started[t] < log.started[u]

(* A turn that was cut off is taken up before the next message gets a turn: after an *)
(* incomplete turn comes the turn of a resume item (resume, hasIncompleteTurn).      *)
ResumeBeforeNext ==
  \A t \in DOMAIN log.started :
    t > 1 /\ log.items[log.started[t]] # "resume" => t - 1 \in log.done

(* Unless a worker is told to stop, no job runs for ever: the worker that took the *)
(* Execution completes, pauses, fails or interrupts it, whatever is posted meanwhile  *)
(* and whoever crashed before (the drain loop, completeIfEmpty, #recover).            *)
EveryRunEnds == exec.status = "running" ~> exec.status # "running" \/ bound.stops > 0

============================================================================

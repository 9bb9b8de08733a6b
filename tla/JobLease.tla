------------------------------- MODULE JobLease -------------------------------
(***************************************************************************)
(* The durable job queue: the `jobs` table of packages/storage and the     *)
(* polling loop of apps/worker, for jobs that carry no Execution (sandbox  *)
(* cleanup, external reads, business actions).  AgentTurn adds Execution.  *)
(*                                                                         *)
(* Every storage call is one database transaction and takes its timestamp  *)
(* from the calling process, which reads its own clock before the          *)
(* transaction starts.  So a stamp may be late by any amount, and early by *)
(* the skew between the caller's clock and true time.                      *)
(***************************************************************************)
EXTENDS Integers

CONSTANTS
  Worker,      \* worker process identities
  Job,         \* job identities, numbered in creation order
  NoWorker,    \* lease_owner is null
  Serves,      \* Serves[w]: the jobs whose kind and tenant w's JobClaimOptions select
  LeaseTicks,  \* JOB_LEASE_MILLISECONDS in ticks
  MaxSkew,     \* how far a process's clock may run ahead of true time
  MaxTime,     \* bound on true time
  MaxFence     \* bound on the fencing token of a job

ASSUME JobLeaseAssumption ==
  /\ Job \subseteq Nat
  /\ NoWorker \notin Worker
  /\ Serves \in [Worker -> SUBSET Job]
  /\ LeaseTicks \in Nat \ {0}
  /\ MaxSkew \in Nat
  /\ MaxTime \in Nat
  /\ MaxFence \in Nat

VARIABLES
  jobs,      \* the rows of the jobs table
  time,      \* true time
  active,    \* handlers whose pollOnce call has not returned
  detached,  \* handlers that outlive the pollOnce call that started them
  written    \* written[j]: the fencing token of the last fenced write for job j

leaseVars == <<jobs, time, active, detached, written>>

Settled == {"completed", "failed"}

Row == [status: {"absent", "available", "leased"} \cup Settled,
        owner: Worker \cup {NoWorker},
        expires: Nat,
        fence: Nat,
        availableAt: Nat,
        result: Nat]      \* the token result_json or failure_json was written under, 0 if none

AbsentRow == [status |-> "absent", owner |-> NoWorker, expires |-> 0,
              fence |-> 0, availableAt |-> 0, result |-> 0]

(* One started handler: the identity it presents to storage, and its claim stamp. *)
Handler == [worker: Worker, job: Job, fence: Nat, since: Nat]

Handlers == active \cup detached

LeaseTypeOK ==
  /\ jobs \in [Job -> Row]
  /\ time \in Nat
  /\ active \subseteq Handler
  /\ detached \subseteq Handler
  /\ written \in [Job -> Nat]

LeaseInit ==
  /\ jobs = [j \in Job |-> AbsentRow]
  /\ time = 0
  /\ active = {}
  /\ detached = {}
  /\ written = [j \in Job |-> 0]

Stamp == 0 .. (time + MaxSkew)

(* The stamps a handler's later calls may carry: read after it was claimed. *)
StampOf(h) == {t \in Stamp : t >= h.since}

----------------------------------------------------------------------------
(* Storage *)

(* A kernel transaction inserts the job. *)
PutJob(j) ==
  /\ jobs[j].status = "absent"
  /\ \E at \in 0 .. MaxTime :
       jobs' = [jobs EXCEPT ![j] = [AbsentRow EXCEPT !.status = "available", !.availableAt = at]]
  /\ UNCHANGED <<time, active, detached, written>>

(* The rows selected by claimJob's query. *)
Claimable(w, j, now) ==
  /\ j \in Serves[w]
  /\ jobs[j].availableAt <= now
  /\ \/ jobs[j].status = "available"
     \/ jobs[j].status = "leased" /\ jobs[j].expires <= now

(* order by available_at, created_at, job_id *)
Precedes(i, j) ==
  \/ jobs[i].availableAt < jobs[j].availableAt
  \/ jobs[i].availableAt = jobs[j].availableAt /\ i < j

(* Mutant: a claim reuses the token. *)
SameToken(j) == jobs[j].fence

(* Every hand-out and every withdrawal of a job consumes a new token. *)
NextToken(j) == jobs[j].fence + 1

(* claimJob leases the first claimable job under the next token; pollOnce     *)
(* starts its handler.  A worker polls again only after the call has returned. *)
Claim(w) ==
  /\ \A h \in active : h.worker # w
  /\ \E now \in Stamp, j \in Job :
       /\ Claimable(w, j, now)
       /\ \A i \in Job \ {j} : Claimable(w, i, now) => Precedes(j, i)
       /\ jobs[j].fence < MaxFence
       /\ jobs' = [jobs EXCEPT ![j].status = "leased", ![j].owner = w,
                               ![j].expires = now + LeaseTicks, ![j].fence = NextToken(j)]
       /\ active' = active \cup {[worker |-> w, job |-> j, fence |-> NextToken(j), since |-> now]}
  /\ UNCHANGED <<time, detached, written>>

(* Mutant: #ownedLeasedJob without the fencing token. *)
OwnsByWorker(h, now) ==
  /\ jobs[h.job].status = "leased"
  /\ jobs[h.job].owner = h.worker
  /\ jobs[h.job].expires > now

(* The row is leased to this handler under its token and the lease has not run out. *)
Owns(h, now) ==
  /\ jobs[h.job].status = "leased"
  /\ jobs[h.job].owner = h.worker
  /\ jobs[h.job].fence = h.fence
  /\ jobs[h.job].expires > now

(* The renewal timer of pollOnce. Two renewals may be in flight, in either order, *)
(* and one still in flight when pollOnce returns may land after it.               *)
RenewLease(h) ==
  /\ h \in Handlers
  /\ \E now \in StampOf(h) :
       /\ Owns(h, now)
       /\ jobs' = [jobs EXCEPT ![h.job].expires = now + LeaseTicks]
  /\ UNCHANGED <<time, active, detached, written>>

(* completeJob, failJob, interruptJob, or settleJob inside a kernel transaction. *)
SettleLeased(h, outcome) ==
  /\ h \in Handlers
  /\ \E now \in StampOf(h) : Owns(h, now)
  /\ jobs' = [jobs EXCEPT ![h.job].status = outcome, ![h.job].owner = NoWorker,
                          ![h.job].expires = 0, ![h.job].result = h.fence]
  /\ UNCHANGED <<time, active, detached, written>>

(* A transaction of a handler whose store asserts the lease first. *)
FencedWrite(h) ==
  /\ h \in Handlers
  /\ \E now \in StampOf(h) : Owns(h, now)
  /\ written' = [written EXCEPT ![h.job] = h.fence]
  /\ UNCHANGED <<jobs, time, active, detached>>

(* Mutant: the withdrawal leaves the token alone. *)
InvalidateWithoutToken(j) ==
  /\ jobs[j].status \in {"available", "leased"}
  /\ jobs' = [jobs EXCEPT ![j].status = "failed", ![j].owner = NoWorker, ![j].expires = 0,
                          ![j].result = jobs[j].fence]
  /\ UNCHANGED <<time, active, detached, written>>

(* A kernel transaction withdraws a job that has not been settled. *)
InvalidateJob(j) ==
  /\ jobs[j].status \in {"available", "leased"}
  /\ jobs[j].fence < MaxFence
  /\ jobs' = [jobs EXCEPT ![j].status = "failed", ![j].owner = NoWorker, ![j].expires = 0,
                          ![j].fence = NextToken(j), ![j].result = NextToken(j)]
  /\ UNCHANGED <<time, active, detached, written>>

----------------------------------------------------------------------------
(* Worker processes *)

(* A renewal failed, for a lost lease or any other reason: pollOnce returns     *)
(* lost_lease and the worker polls on while the aborted handler is still running. *)
DetachHandler(h) ==
  /\ h \in active
  /\ active' = active \ {h}
  /\ detached' = detached \cup {h}
  /\ UNCHANGED <<jobs, time, written>>

(* The handler returns and, if it was still awaited, so does pollOnce. *)
FinishHandler(h) ==
  /\ h \in Handlers
  /\ active' = active \ {h}
  /\ detached' = detached \ {h}
  /\ UNCHANGED <<jobs, time, written>>

(* The worker process dies with everything it was running. *)
CrashWorker(w) ==
  /\ \E h \in Handlers : h.worker = w
  /\ active' = {h \in active : h.worker # w}
  /\ detached' = {h \in detached : h.worker # w}
  /\ UNCHANGED <<jobs, time, written>>

Tick ==
  /\ time < MaxTime
  /\ time' = time + 1
  /\ UNCHANGED <<jobs, active, detached, written>>

LeaseNext ==
  \/ \E j \in Job : PutJob(j) \/ InvalidateJob(j)
  \/ \E w \in Worker : Claim(w) \/ CrashWorker(w)
  \/ \E h \in Handlers :
       \/ RenewLease(h)
       \/ FencedWrite(h)
       \/ \E outcome \in Settled : SettleLeased(h, outcome)
       \/ DetachHandler(h)
       \/ FinishHandler(h)
  \/ Tick

LeaseSpec == LeaseInit /\ [][LeaseNext]_leaseVars

----------------------------------------------------------------------------
(* Properties *)

(* At most one running handler can pass storage's ownership check for a job, *)
(* whatever its clock says: takeovers, detached handlers and invalidations   *)
(* never leave two of them accepted (#ownedLeasedJob, assertJobLease).       *)
SingleOwner ==
  \A h1, h2 \in Handlers :
    h1.job = h2.job /\ Owns(h1, h1.since) /\ Owns(h2, h2.since) => h1 = h2

(* Every token is given out once, and no handler carries one newer than the   *)
(* row's: the token alone tells the attempts of a job apart (claimJob).       *)
TokensIdentifyAttempts ==
  /\ \A h \in Handlers : h.fence \in 1 .. jobs[h.job].fence
  /\ \A h1, h2 \in Handlers : h1.job = h2.job /\ h1.fence = h2.fence => h1 = h2

(* No write and no result comes from an attempt older than one that already *)
(* wrote: a handler that was replaced, though it may still be running and   *)
(* may even share its worker with its successor, never writes over what the *)
(* successor wrote (fencedCodingStore) nor settles the job past it.         *)
TokenOrderedWrites ==
  [][\A j \in Job :
       /\ written'[j] >= written[j]
       /\ jobs'[j].result # jobs[j].result => jobs'[j].result >= written[j]]_leaseVars

(* A settled job keeps its outcome, its result and its token for ever, and *)
(* nothing is written in its name any more: neither a late handler nor a   *)
(* claim nor an invalidation reopens it.                                   *)
SettledIsFinal ==
  [][\A j \in Job : jobs[j].status \in Settled =>
       jobs'[j] = jobs[j] /\ written'[j] = written[j]]_leaseVars

(* The queue implements the contract of FencedJob. *)
Contract == INSTANCE FencedJob WITH
  token <- [j \in Job |-> jobs[j].fence],
  holder <- [j \in Job |-> jobs[j].owner],
  outcome <- [j \in Job |-> IF jobs[j].status \in Settled THEN jobs[j].status ELSE "pending"],
  writer <- written

ImplementsFencedJob == Contract!Spec
=============================================================================

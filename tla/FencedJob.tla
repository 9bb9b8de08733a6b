------------------------------ MODULE FencedJob ------------------------------
(***************************************************************************)
(* What the job queue promises to the rest of the system, without clocks,  *)
(* leases or worker processes: a job is handed out any number of times,    *)
(* every hand-out carries a larger fencing token than the one before, only *)
(* the bearer of the newest token may write under the job's name or close  *)
(* it, and a closed job stays as it was closed.                            *)
(*                                                                         *)
(* JobLease, the translation of the storage code, is shown to implement    *)
(* this specification.                                                     *)
(***************************************************************************)
EXTENDS Naturals

CONSTANTS
  Worker,    \* worker process identities
  Job,       \* job identities
  NoWorker   \* the holder of a job nobody holds

VARIABLES
  token,     \* token[j]: the newest fencing token of job j
  holder,    \* holder[j]: the worker the newest token was given to
  outcome,   \* outcome[j]: how the job was closed, "pending" before that
  writer     \* writer[j]: the token of the last write made under job j

vars == <<token, holder, outcome, writer>>

Outcome == {"pending", "completed", "failed"}

TypeOK ==
  /\ token \in [Job -> Nat]
  /\ holder \in [Job -> Worker \cup {NoWorker}]
  /\ outcome \in [Job -> Outcome]
  /\ writer \in [Job -> Nat]

Init ==
  /\ token = [j \in Job |-> 0]
  /\ holder = [j \in Job |-> NoWorker]
  /\ outcome = [j \in Job |-> "pending"]
  /\ writer = [j \in Job |-> 0]

(* A pending job is handed to w under a new token; an earlier holder loses it. *)
Grant(w, j) ==
  /\ outcome[j] = "pending"
  /\ token' = [token EXCEPT ![j] = @ + 1]
  /\ holder' = [holder EXCEPT ![j] = w]
  /\ UNCHANGED <<outcome, writer>>

(* The holder of the newest token writes under the job's name. *)
Write(j) ==
  /\ holder[j] # NoWorker
  /\ writer' = [writer EXCEPT ![j] = token[j]]
  /\ UNCHANGED <<token, holder, outcome>>

(* The holder of the newest token closes the job. *)
Close(j, result) ==
  /\ holder[j] # NoWorker
  /\ outcome[j] = "pending"
  /\ outcome' = [outcome EXCEPT ![j] = result]
  /\ holder' = [holder EXCEPT ![j] = NoWorker]
  /\ UNCHANGED <<token, writer>>

(* A pending job is withdrawn by the kernel; a token already given out is void. *)
Withdraw(j) ==
  /\ outcome[j] = "pending"
  /\ outcome' = [outcome EXCEPT ![j] = "failed"]
  /\ token' = [token EXCEPT ![j] = @ + 1]
  /\ holder' = [holder EXCEPT ![j] = NoWorker]
  /\ UNCHANGED writer

Next ==
  \E j \in Job :
    \/ \E w \in Worker : Grant(w, j)
    \/ Write(j)
    \/ \E result \in {"completed", "failed"} : Close(j, result)
    \/ Withdraw(j)

Spec == Init /\ [][Next]_vars
=============================================================================

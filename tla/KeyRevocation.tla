--------------------------- MODULE KeyRevocation ---------------------------
(* The irreversible deletion of one wrapping key: drainKeyRevocations, which *)
(* request handlers, a timer and every restart of every Host run beside each *)
(* other, and requestKeyRevocationRetry, by which an owner asks for another  *)
(* deletion once the outcome of the last one is unknown.                     *)
(*                                                                           *)
(* The record and its inbox item change in one transaction, which compares   *)
(* the stream version with that of the record the drainer holds.  The calls  *)
(* to the key provider stand between the transactions: they may be slow,     *)
(* lost, or land after everybody has given them up.  A record exists only    *)
(* where payloads are protected, so every Host has a provider that can       *)
(* delete; other records that a drain works through only take time.          *)
EXTENDS Naturals, Sequences, FiniteSets

CONSTANTS
  Drainer,      \* calls of drainKeyRevocations, on any Host
  RequestId,    \* idempotency keys of the owners' decisions
  MaxAsks,      \* bound: decisions sent
  MaxCrashes    \* bound: Hosts that stop in the middle of a drain

ASSUMPTION RevocationAssumption ==
  /\ MaxAsks \in Nat
  /\ MaxCrashes \in Nat

VARIABLES
  rec,       \* the record kernel.key-revocation, and whether its run is over 30 s old
  inbox,     \* the inbox item of the record
  asked,     \* decisions the owners have sent; any of them may arrive late, or again
  receipts,  \* idempotency keys of the decisions that were accepted
  calls,     \* deletions that were ever sent, in order: for which run, and their fate
  revoked,   \* whether the provider has deleted the key
  drain,     \* each drainer: its program point and the record it holds
  crashes

vars == <<rec, inbox, asked, receipts, calls, revoked, drain, crashes>>

Status == {"pending", "running", "needs_reconciliation", "completed"}
Version == Nat \ {0}
Decision == [version : Version, id : RequestId]
Idle == [pc |-> "idle", version |-> 1, call |-> 0]

Init ==
  /\ rec = [status |-> "pending", version |-> 1, old |-> FALSE]
  /\ inbox = [status |-> "none", version |-> 1]
  /\ asked = {}
  /\ receipts = {}
  /\ calls = <<>>
  /\ revoked = FALSE
  /\ drain = [x \in Drainer |-> Idle]
  /\ crashes = 0

----------------------------------------------------------------------------
(* One drain *)

At(x, pc) == drain[x].pc = pc
Goto(x, pc) == drain' = [drain EXCEPT ![x].pc = pc]
Return(x) == drain' = [drain EXCEPT ![x] = Idle]

(* The record a drainer holds is the one in the store. *)
IsCurrent(x) == drain[x].version = rec.version

(* Mutant: a transition from whatever the record has become. *)
MayWriteOver(x) == rec.status # "completed"

(* What transition requires of the record, read again in its transaction. *)
MayWrite(x) == IsCurrent(x) /\ rec.status # "completed"

(* Mutant: the item names the version that was decided upon. *)
InboxOfLast(status) ==
  CASE status = "needs_reconciliation" -> [status |-> "open", version |-> rec.version]
    [] status = "completed" /\ inbox.status # "none" -> [inbox EXCEPT !.status = "resolved"]
    [] OTHER -> inbox

(* The inbox item that goes with a status; others leave it alone. *)
InboxOf(status) ==
  CASE status = "needs_reconciliation" -> [status |-> "open", version |-> rec.version + 1]
    [] status = "completed" /\ inbox.status # "none" -> [inbox EXCEPT !.status = "resolved"]
    [] OTHER -> inbox

Write(status) ==
  /\ rec' = [status |-> status, version |-> rec.version + 1, old |-> FALSE]
  /\ inbox' = InboxOf(status)

(* A transition that ends what the drainer does: written, or overtaken. *)
Transition(x, status) ==
  /\ IF MayWrite(x) THEN Write(status) ELSE UNCHANGED <<rec, inbox>>
  /\ Return(x)

(* What becomes of a candidate: a run, or an inspection. *)
FirstStep ==
  CASE rec.status = "pending" -> "start"
    [] rec.status = "running" -> "inspect_run"
    [] OTHER -> "inspect_unknown"

(* Mutant: recovery takes up runs, not the unknown outcomes it has recorded. *)
BeginOnRuns(x) ==
  /\ At(x, "idle")
  /\ rec.status \in {"pending", "running"}
  /\ drain' = [drain EXCEPT ![x] = [pc |-> FirstStep, version |-> rec.version, call |-> 0]]
  /\ UNCHANGED <<rec, inbox, asked, receipts, calls, revoked, crashes>>

(* pending(): the unfinished record, in a transaction of its own. *)
Begin(x) ==
  /\ At(x, "idle")
  /\ rec.status # "completed"
  /\ drain' = [drain EXCEPT ![x] = [pc |-> FirstStep, version |-> rec.version, call |-> 0]]
  /\ UNCHANGED <<rec, inbox, asked, receipts, calls, revoked, crashes>>

(* The run is recorded before the call is sent, by one of the drainers. *)
StartRun(x) ==
  /\ At(x, "start")
  /\ IF MayWrite(x)
     THEN /\ Write("running")
          /\ drain' = [drain EXCEPT ![x].pc = "call", ![x].version = rec.version + 1]
     ELSE Return(x) /\ UNCHANGED <<rec, inbox>>
  /\ UNCHANGED <<asked, receipts, calls, revoked, crashes>>

(* revokeKey is sent. *)
Call(x) ==
  /\ At(x, "call")
  /\ calls' = Append(calls, [version |-> drain[x].version, fate |-> "sent"])
  /\ drain' = [drain EXCEPT ![x].pc = "called", ![x].call = Len(calls) + 1]
  /\ UNCHANGED <<rec, inbox, asked, receipts, revoked, crashes>>

(* It returns. *)
CallReturns(x) ==
  /\ At(x, "called")
  /\ calls[drain[x].call].fate = "done"
  /\ drain' = [drain EXCEPT ![x].pc = "confirm", ![x].call = 0]
  /\ UNCHANGED <<rec, inbox, asked, receipts, calls, revoked, crashes>>

(* It throws, or takes more than ten seconds; it may land all the same. *)
CallFails(x) ==
  /\ At(x, "called")
  /\ drain' = [drain EXCEPT ![x].pc = "caught", ![x].call = 0]
  /\ UNCHANGED <<rec, inbox, asked, receipts, calls, revoked, crashes>>

(* Mutant: a provider that answers nothing confirms. *)
ConfirmAnyway(x) ==
  /\ \/ At(x, "confirm") /\ Goto(x, "finish")
     \/ At(x, "caught") /\ Goto(x, "complete")
     \/ (At(x, "inspect_run") \/ At(x, "inspect_unknown")) /\ Goto(x, "complete")
  /\ UNCHANGED <<rec, inbox, asked, receipts, calls, revoked, crashes>>

(* confirmed() finds the key deleted; only then may the record be completed. *)
Confirm(x) ==
  /\ \/ At(x, "confirm") /\ Goto(x, "finish")
     \/ At(x, "caught") /\ Goto(x, "complete")
     \/ (At(x, "inspect_run") \/ At(x, "inspect_unknown")) /\ Goto(x, "complete")
  /\ revoked
  /\ UNCHANGED <<rec, inbox, asked, receipts, calls, revoked, crashes>>

(* The run is not yet thirty seconds old.  A record that has moved on refuses *)
(* the write, whatever its age.                                              *)
IsYoung(x) == IsCurrent(x) /\ ~rec.old

(* confirmed() says no, fails or takes more than ten seconds.  Inside the try  *)
(* that is an error like the others; a run of another drainer is left to it    *)
(* for thirty seconds.                                                         *)
NotConfirmed(x) ==
  /\ \/ At(x, "confirm") /\ Goto(x, "caught")
     \/ At(x, "caught") /\ Goto(x, "give_up")
     \/ At(x, "inspect_run") /\ ~IsYoung(x) /\ Goto(x, "give_up")
     \/ At(x, "inspect_run") /\ IsYoung(x) /\ Return(x)
     \/ At(x, "inspect_unknown") /\ Return(x)
  /\ UNCHANGED <<rec, inbox, asked, receipts, calls, revoked, crashes>>

Complete(x) ==
  /\ At(x, "finish") \/ At(x, "complete")
  /\ Transition(x, "completed")
  /\ UNCHANGED <<asked, receipts, calls, revoked, crashes>>

(* The transaction fails inside the try. *)
CompletionFails(x) ==
  /\ At(x, "finish")
  /\ Goto(x, "caught")
  /\ UNCHANGED <<rec, inbox, asked, receipts, calls, revoked, crashes>>

GiveUp(x) ==
  /\ At(x, "give_up")
  /\ Transition(x, "needs_reconciliation")
  /\ UNCHANGED <<asked, receipts, calls, revoked, crashes>>

(* The Host stops, or a transaction fails outside the try: the call ends there. *)
Crash(x) ==
  /\ ~At(x, "idle")
  /\ crashes < MaxCrashes
  /\ crashes' = crashes + 1
  /\ Return(x)
  /\ UNCHANGED <<rec, inbox, asked, receipts, calls, revoked>>

----------------------------------------------------------------------------
(* The provider, the clock and the owners *)

Land(i) ==
  /\ calls[i].fate = "sent"
  /\ calls' = [calls EXCEPT ![i].fate = "done"]
  /\ revoked' = TRUE
  /\ UNCHANGED <<rec, inbox, asked, receipts, drain, crashes>>

Lose(i) ==
  /\ calls[i].fate = "sent"
  /\ calls' = [calls EXCEPT ![i].fate = "lost"]
  /\ UNCHANGED <<rec, inbox, asked, receipts, revoked, drain, crashes>>

(* Thirty seconds pass from startedAt. *)
Age ==
  /\ rec.status = "running"
  /\ ~rec.old
  /\ rec' = [rec EXCEPT !.old = TRUE]
  /\ UNCHANGED <<inbox, asked, receipts, calls, revoked, drain, crashes>>

(* An owner decides on the inbox item as it stands; the request is on its way. *)
Ask(id) ==
  /\ inbox.status = "open"
  /\ Cardinality(asked) < MaxAsks
  /\ asked' = asked \cup {[version |-> inbox.version, id |-> id]}
  /\ UNCHANGED <<rec, inbox, receipts, calls, revoked, drain, crashes>>

(* Mutant: a decision is only compared with the status. *)
RetryInStatus(m) ==
  /\ m.id \notin receipts
  /\ rec.status = "needs_reconciliation"
  /\ rec' = [status |-> "pending", version |-> rec.version + 1, old |-> FALSE]
  /\ receipts' = receipts \cup {m.id}
  /\ UNCHANGED <<inbox, asked, calls, revoked, drain, crashes>>

(* The request arrives.  One with a receipt, or of another version, changes nothing. *)
Retry(m) ==
  /\ m.id \notin receipts
  /\ rec.version = m.version
  /\ rec.status = "needs_reconciliation"
  /\ rec' = [status |-> "pending", version |-> rec.version + 1, old |-> FALSE]
  /\ receipts' = receipts \cup {m.id}
  /\ UNCHANGED <<inbox, asked, calls, revoked, drain, crashes>>

Environment ==
  \/ \E i \in 1..Len(calls) : Land(i) \/ Lose(i)
  \/ Age
  \/ \E id \in RequestId : Ask(id)
  \/ \E m \in asked : Retry(m)

Drain(x) ==
  \/ Begin(x) \/ StartRun(x) \/ Call(x) \/ CallReturns(x) \/ CallFails(x)
  \/ Confirm(x) \/ NotConfirmed(x)
  \/ Complete(x) \/ CompletionFails(x) \/ GiveUp(x)

Next == Environment \/ \E x \in Drainer : Drain(x) \/ Crash(x)

Spec == Init /\ [][Next]_vars

(* The timer comes back every thirty seconds and drains to the end; the      *)
(* provider, asked again and again, answers in time at some point.           *)
FairSpec ==
  Spec /\ WF_vars(Age) /\ \A x \in Drainer : WF_vars(Drain(x)) /\ SF_vars(Confirm(x))

----------------------------------------------------------------------------
(* Properties *)

CallState == [version : Version, fate : {"sent", "done", "lost"}]
DrainState ==
  [pc : {"idle", "start", "call", "called", "confirm", "caught", "inspect_run",
         "inspect_unknown", "finish", "complete", "give_up"},
   version : Version, call : Nat]

TypeOK ==
  /\ rec \in [status : Status, version : Version, old : BOOLEAN]
  /\ inbox \in [status : {"none", "open", "resolved"}, version : Version]
  /\ asked \subseteq Decision
  /\ receipts \subseteq RequestId
  /\ calls \in Seq(CallState)
  /\ revoked \in BOOLEAN
  /\ drain \in [Drainer -> DrainState]
  /\ crashes \in 0..MaxCrashes

(* Recovery never repeats a deletion: each call belongs to a run of its own, *)
(* and each run but the first to a decision on the inbox item of the version *)
(* before.  Two owners who decide on one item cause one call, and so does a  *)
(* decision that arrives twice.                                              *)
Decided(v) == v = 1 \/ \E m \in asked : v = m.version + 1

CallsAreDecided ==
  /\ \A i \in 1..Len(calls) : Decided(calls[i].version - 1)
  /\ \A i, j \in 1..Len(calls) : calls[i].version = calls[j].version => i = j

(* A completed record stands for a deleted key and leaves nothing to decide; *)
(* an unknown outcome is always in the inbox under the version a decision    *)
(* must name.                                                                *)
RecordTellsTruth ==
  /\ rec.status = "completed" => revoked /\ inbox.status # "open"
  /\ rec.status = "needs_reconciliation" => inbox = [status |-> "open", version |-> rec.version]

(* A decision that was accepted is followed by a run: no drainer that comes  *)
(* late with the outcome of an earlier one buries it.                        *)
DecisionsAreServed ==
  [][rec.status = "pending" /\ rec' # rec => rec'.status = "running"]_vars

(* A deletion that happened, however late, is recorded in the end. *)
RevokedIsRecorded == revoked ~> rec.status = "completed"
=============================================================================

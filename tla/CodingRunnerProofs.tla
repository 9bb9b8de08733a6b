-------------------------- MODULE CodingRunnerProofs --------------------------
(***************************************************************************)
(* Who relies on the end of a Runner is right, what a person has ended     *)
(* stays ended, and nothing is left at work: for every number of handler   *)
(* calls and of faults.                                                    *)
(***************************************************************************)
EXTENDS CodingRunner, TLAPS

(* The part of a turn that only the handler which began it goes through. *)
Path == {"inspect", "snapshot", "authorize", "check", "launch", "watch", "judge", "gate",
         "commit", "unwind"}

(* Nobody has prepared a supervision file, and somebody still may. *)
Early == {"inspect", "snapshot", "authorize", "check"}
Waits(x) == x.pc \in Early /\ ~x.checkpoint
Unbegun == db.log = "queued" \/ \E w \in Worker : Waits(h[w])

(* No Runner is alive and no supervisor could start one. *)
Dead == disk.runner # "alive" /\ disk.supervisor # "alive" /\ disk.proof # "prepared"

(* Somebody counts on that. *)
Counts(x) ==
  \/ x.stopped
  \/ x.pc \in {"judge", "gate", "verdict", "forget"}
  \/ x.pc \in {"authorize", "check"} /\ x.checkpoint
  \/ x.pc = "launch" /\ x.launched

Relied == db.stopped \/ db.replaced \/ \E w \in Worker : Counts(h[w])

(* One handler call begins the turn, none begins it again. *)
OneStarter ==
  /\ db.log = "queued" => \A w \in Worker : h[w].pc \notin Path
  /\ \A v, w \in Worker : h[v].pc \in Path /\ h[w].pc \in Path => v = w

(* Before the first file there is no process. *)
NothingYet ==
  Unbegun => disk.proof = "absent" /\ disk.supervisor = "none" /\ disk.runner = "absent"

Launches(x) == x.pc = "launch" /\ ~x.launched
FirstLaunch ==
  \A w \in Worker : Launches(h[w]) => disk.supervisor = "none" /\ disk.runner = "absent"

(* A handler that has launched has checkpointed, and not before it had approval. *)
Sound(x) ==
  /\ x.pc \in {"idle", "open", "inspect", "snapshot"} => ~x.checkpoint
  /\ x.pc \in {"launch", "watch", "judge", "gate"} => x.checkpoint
  /\ x.pc \in {"watch", "judge", "gate"} => x.launched
  /\ x.pc \in {"authorize", "check"} /\ x.checkpoint => x.launched
  /\ x.launched => x.checkpoint

Progress == \A w \in Worker : Sound(h[w])

(* The file that says "terminated" is true, and a supervisor starts one Runner. *)
FileIsTrue == ProvedStopped => disk.runner # "alive" /\ disk.supervisor # "alive"
SpawnedIsFirst == disk.supervisor = "spawned" => disk.runner # "alive"

(* The heart: reliance is never early. *)
ReliedIsDead == Relied => Dead /\ ~Unbegun

Machinery ==
  OneStarter /\ NothingYet /\ FirstLaunch /\ Progress /\ FileIsTrue /\ SpawnedIsFirst
    /\ ReliedIsDead

(* The handler of the turn that still has its lease is the first to bring a result;
   what is cancelled is not completed. *)
Bringing == (Path \ {"unwind"}) \cup {"await"}
FirstResult ==
  /\ \A w \in Worker : h[w].pc \in Bringing /\ Holds(w, "turn") => db.result = "none"
  /\ db.log = "queued" => db.result = "none" /\ \A w \in Worker : h[w].pc # "await"
CancelledInv == db.result = "cancelled" => db.exec # "completed"

IInv == TypeOK /\ Machinery /\ FirstResult /\ CancelledInv

USE CodingAssumption
-------------------------------------------------------------------------------
(* Types *)

LEMMA TypeInit == Init => TypeOK
<1> SUFFICES ASSUME Init PROVE TypeOK
  OBVIOUS
<1>1. [j \in Job |-> IF j = "turn" THEN "available" ELSE "absent"]
        \in [Job -> {"absent", "available", "done"} \cup Worker]
  OBVIOUS
<1>2. db \in Records
  BY <1>1 DEF Init, Records, Status, Outcome
<1>3. disk \in Machine
  BY DEF Init, Machine
<1>4. h \in [Worker -> Handler]
  BY DEF Init, Handler, Fresh, Place, Outcome
<1>5. faults \in 0 .. MaxFaults
  <2>1. MaxFaults \in Nat
    OBVIOUS
  <2> QED
    BY <2>1 DEF Init
<1> QED
  BY <1>2, <1>3, <1>4, <1>5 DEF Init, TypeOK

(* A handler goes from what it knows to x, and the others stay. *)
Becomes(w, x) == x \in Handler /\ h' = [h EXCEPT ![w] = x]

LEMMA BecomesTyped ==
  ASSUME TypeOK, NEW w \in Worker, NEW x, Becomes(w, x)
  PROVE  /\ h' \in [Worker -> Handler]
         /\ h'[w] = x
         /\ \A v \in Worker : v # w => h'[v] = h[v]
BY DEF TypeOK, Becomes

LEMMA FreshTyped == Fresh \in Handler
BY DEF Handler, Fresh, Place, Outcome

LEMMA LeaveBecomes ==
  ASSUME NEW w \in Worker, Leave(w)
  PROVE  Becomes(w, Fresh)
BY FreshTyped DEF Leave, Becomes

(* What it has done to the Runner, it remembers. *)
Keeps(x, y) ==
  y.checkpoint = x.checkpoint /\ y.launched = x.launched /\ y.stopped = x.stopped

LEMMA GoBecomes ==
  ASSUME TypeOK, NEW w \in Worker, NEW pc \in Place, Go(w, pc)
  PROVE  \E y : Becomes(w, y) /\ y.pc = pc /\ Keeps(h[w], y)
<1> DEFINE y == [h[w] EXCEPT !.pc = pc]
<1>1. Becomes(w, y)
  BY DEF TypeOK, Handler, Go, Becomes
<1>2. y.pc = pc /\ Keeps(h[w], y)
  BY DEF TypeOK, Handler, Keeps
<1> QED
  BY <1>1, <1>2

LEMMA ConcludeBecomes ==
  ASSUME TypeOK, NEW w \in Worker, NEW outcome \in Outcome, Conclude(w, outcome)
  PROVE  \E y : Becomes(w, y) /\ y.pc = "commit" /\ Keeps(h[w], y)
<1> DEFINE y == [h[w] EXCEPT !.pc = "commit", !.outcome = outcome]
<1>1. h[w] \in Handler /\ "commit" \in Place
  BY DEF TypeOK, Place
<1>2. y \in Handler /\ y.pc = "commit" /\ Keeps(h[w], y)
  BY <1>1 DEF Handler, Keeps
<1>3. h' = [h EXCEPT ![w] = y]
  BY DEF TypeOK, Handler, Conclude
<1> QED
  BY <1>2, <1>3 DEF Becomes

LEMMA AbortBecomes ==
  ASSUME TypeOK, NEW w \in Worker, NEW reason \in {"user", "stop", "late"}, Abort(w, reason)
  PROVE  /\ \E y : Becomes(w, y) /\ y.pc = h[w].pc /\ Keeps(h[w], y)
         /\ disk' \in {disk, Hangup}
<1> DEFINE y == [h[w] EXCEPT !.abort = reason]
<1>1. Becomes(w, y) /\ disk' \in {disk, Hangup}
  BY DEF TypeOK, Handler, Abort, Becomes
<1>2. y.pc = h[w].pc /\ Keeps(h[w], y)
  BY DEF TypeOK, Handler, Keeps
<1> QED
  BY <1>1, <1>2

LEMMA HangupTyped == TypeOK => Hangup \in Machine
BY DEF TypeOK, Hangup, Machine

LEMMA GoneTyped ==
  ASSUME TypeOK, NEW how \in {"exited", "refused", "lost"},
         NEW proof \in {"absent", "prepared", "running", "terminated", "unconfirmed"}
  PROVE  Gone(how, proof) \in Machine
BY DEF TypeOK, Gone, Machine

LEMMA JobTyped ==
  ASSUME TypeOK, NEW j \in Job, NEW s \in {"absent", "available", "done"} \cup Worker
  PROVE  [db EXCEPT !.job[j] = s] \in Records
BY DEF TypeOK, Records

LEMMA EndTurnTyped ==
  ASSUME TypeOK, NEW w \in Worker, NEW status \in Ended, EndTurn(w, status)
  PROVE  /\ db' \in Records
         /\ \E x : Becomes(w, x)
<1> DEFINE final == IF db.exec = "cancelled" THEN "cancelled" ELSE status
<1>1. CASE db.exec = "needs_reconciliation"
  BY <1>1, GoBecomes DEF EndTurn, TypeOK, Place
<1>2. CASE db.exec # "needs_reconciliation"
  <2>1. db' = [db EXCEPT !.log = "ended", !.job["turn"] = "done",
                         !.exec = IF @ = "running" THEN final ELSE @,
                         !.result = IF final = "cancelled" /\ @ # "none" THEN final ELSE @]
    BY <1>2 DEF EndTurn
  <2>2. final \in Status /\ final \in Outcome
    BY DEF Ended, Outcome, Status
  <2>3. db' \in Records
    <3> HIDE DEF final
    <3> QED
      BY <2>1, <2>2 DEF TypeOK, Records, Job
  <2> QED
    BY <1>2, <2>3, LeaveBecomes DEF EndTurn
<1> QED
  BY <1>1, <1>2

LEMMA PersistedTyped ==
  ASSUME TypeOK, NEW result \in Outcome, NEW stopped \in BOOLEAN
  PROVE  /\ Persisted(result, stopped) \in Records
         /\ Persisted(result, stopped).log = db.log
         /\ Persisted(result, stopped).replaced = db.replaced
         /\ Persisted(result, stopped).stopped => db.stopped \/ stopped
<1> DEFINE exec == IF /\ db.exec = "needs_reconciliation" /\ result = "cancelled"
                      /\ db.cancel /\ db.phase = "started" /\ stopped /\ db.unsettled = {}
                   THEN "cancelled" ELSE db.exec
           final == CASE exec = "cancelled" -> "cancelled"
                      [] exec = "needs_reconciliation" /\ result = "cancelled" -> "needs_reconciliation"
                      [] OTHER -> result
           invoked == db.phase = "started"
           phase == CASE ~invoked -> db.phase
                      [] final = "needs_reconciliation" -> "outcome_unknown"
                      [] OTHER -> "settled"
           clean == invoked /\ stopped /\ final # "needs_reconciliation"
           new == [db EXCEPT !.exec = exec, !.result = final, !.phase = phase,
                             !.stopped = invoked /\ stopped,
                             !.cleanup = IF clean THEN "pending" ELSE @,
                             !.job["cleanup"] = IF clean THEN "available" ELSE @]
           held == [db EXCEPT !.exec = exec]
<1>1. Persisted(result, stopped) \in {held, new}
  BY DEF Persisted, ExecutionAfter, ResultAfter
<1>2. exec \in Status
  <2>1. db.exec \in Status /\ "cancelled" \in Status
    BY DEF TypeOK, Records, Status, Ended
  <2> QED
    BY <2>1, Zenon
<1>3. final \in Outcome
  <2>1. "cancelled" \in Outcome /\ "needs_reconciliation" \in Outcome
    BY DEF Outcome, Ended
  <2> QED
    BY <2>1
<1>4. phase \in {"absent", "running", "started", "outcome_unknown", "settled"}
  BY DEF TypeOK, Records
<1>5. invoked \in BOOLEAN /\ clean \in BOOLEAN
  OBVIOUS
<1>6. new \in Records /\ held \in Records
  <2> HIDE DEF exec, final, phase, invoked, clean
  <2> QED
    BY <1>2, <1>3, <1>4, <1>5 DEF TypeOK, Records, Job
<1>7. /\ new.log = db.log /\ new.replaced = db.replaced
      /\ held.log = db.log /\ held.replaced = db.replaced /\ held.stopped = db.stopped
      /\ new.stopped = (invoked /\ stopped)
  <2> HIDE DEF exec, final, phase, invoked, clean
  <2> QED
    BY DEF TypeOK, Records
<1> QED
  <2> HIDE DEF new, held, exec, final, phase, clean
  <2> QED
    BY <1>1, <1>6, <1>7 DEF TypeOK

-------------------------------------------------------------------------------
(* Most steps are calm: they start nothing, and rely on the end of a Runner only where
   that was relied upon before, or is proved. *)
Known == Relied \/ ProvedStopped

CalmDb ==
  /\ db' \in Records
  /\ db'.log = "queued" => db.log = "queued"
  /\ db'.stopped \/ db'.replaced => Known

CalmDisk ==
  /\ disk' \in Machine
  /\ disk'.supervisor = disk.supervisor /\ disk'.runner = disk.runner
  /\ disk'.proof \in {disk.proof, "absent"}

(* Who comes to bring a result comes before there is one. *)
Joins(x, y) ==
  /\ y.pc \in Bringing => x.pc \in Bringing \/ db.result = "none"
  /\ y.pc = "await" => x.pc = "await" \/ db.log # "queued"

Onward(x, y) ==
  /\ y.pc \in Path => x.pc \in Path
  /\ Waits(y) => Waits(x)
  /\ Launches(y) => Launches(x)
  /\ Sound(y)
  /\ Counts(y) => Known
  /\ Joins(x, y)

CalmHandler(w) == \E x : Becomes(w, x) /\ Onward(h[w], x)

Calm == CalmDb /\ CalmDisk /\ (UNCHANGED h \/ \E w \in Worker : CalmHandler(w))

LEMMA CalmTyped == TypeOK /\ Calm => h' \in [Worker -> Handler]
BY BecomesTyped DEF Calm, CalmHandler, TypeOK

(* Calm steps keep the machinery. *)
LEMMA CalmKeeps == TypeOK /\ Machinery /\ Calm => Machinery'
<1> SUFFICES ASSUME TypeOK, Machinery, Calm PROVE Machinery'
  OBVIOUS
<1>1. \A w \in Worker : \/ h'[w] = h[w]
                        \/ Onward(h[w], h'[w])
  <2>1. CASE UNCHANGED h
    BY <2>1
  <2>2. CASE \E w \in Worker : CalmHandler(w)
    BY <2>2, BecomesTyped DEF CalmHandler
  <2> QED
    BY <2>1, <2>2 DEF Calm
<1>2. \A w \in Worker : /\ h'[w].pc \in Path => h[w].pc \in Path
                        /\ Waits(h'[w]) => Waits(h[w])
                        /\ Launches(h'[w]) => Launches(h[w])
                        /\ Sound(h'[w])
                        /\ Counts(h'[w]) => Known
  BY <1>1 DEF Onward, Machinery, Progress, Known, Relied
<1>3. Unbegun' => Unbegun
  BY <1>2 DEF Calm, CalmDb, Unbegun
<1>4. Relied' => Known
  BY <1>2 DEF Calm, CalmDb, Relied
<1>5. ProvedStopped => Dead /\ ~Unbegun
  BY DEF Machinery, FileIsTrue, NothingYet, ProvedStopped, Dead
<1>6. Known => Dead /\ ~Unbegun
  BY <1>5 DEF Known, Machinery, ReliedIsDead
<1>7. Dead => Dead'
  BY DEF Calm, CalmDisk, Dead
<1>8. OneStarter'
  BY <1>2 DEF Calm, CalmDb, Machinery, OneStarter
<1>9. NothingYet' /\ FirstLaunch'
  BY <1>2, <1>3 DEF Calm, CalmDisk, Machinery, NothingYet, FirstLaunch
<1>10. Progress'
  BY <1>2 DEF Progress
<1>11. FileIsTrue' /\ SpawnedIsFirst'
  BY DEF Calm, CalmDisk, Machinery, FileIsTrue, SpawnedIsFirst, ProvedStopped
<1>12. ReliedIsDead'
  BY <1>3, <1>4, <1>6, <1>7 DEF ReliedIsDead
<1> QED
  BY <1>8, <1>9, <1>10, <1>11, <1>12 DEF Machinery
-------------------------------------------------------------------------------
(* What makes a step calm *)

LEMMA SameDb == TypeOK /\ UNCHANGED db => CalmDb
BY DEF TypeOK, CalmDb, Known, Relied

LEMMA SameDisk == TypeOK /\ UNCHANGED disk => CalmDisk
BY DEF TypeOK, CalmDisk

LEMMA HangupCalm == TypeOK /\ disk' \in {disk, Hangup} => CalmDisk
BY HangupTyped DEF TypeOK, CalmDisk, Hangup, Machine

(* The records change in what the machinery does not look at. *)
LEMMA OtherFields ==
  ASSUME TypeOK, db' \in Records, db'.log = db.log, db'.stopped = db.stopped,
         db'.replaced = db.replaced
  PROVE  CalmDb
BY DEF CalmDb, Known, Relied

LEMMA OldCounts ==
  ASSUME NEW w \in Worker, Counts(h[w])
  PROVE  Known
BY DEF Known, Relied

(* Places at which a handler neither owns a Runner nor relies on one's end. *)
Parked == Place \ (Path \cup {"idle", "open", "verdict", "forget", "await"})

(* A handler that only goes elsewhere. *)
LEMMA KeepsOnward ==
  ASSUME TypeOK, Progress, NEW w \in Worker, NEW y, Keeps(h[w], y), Sound(y),
         y.pc \in Path => h[w].pc \in Path,
         Waits(y) => Waits(h[w]),
         Launches(y) => Launches(h[w]),
         Counts(y) => Counts(h[w]),
         Joins(h[w], y),
         Becomes(w, y)
  PROVE  CalmHandler(w)
BY OldCounts DEF CalmHandler, Onward

LEMMA GoCalm ==
  ASSUME TypeOK, Progress, NEW w \in Worker, NEW pc \in Place, Go(w, pc),
         \/ pc \in Parked
         \/ pc = "await" /\ db.result = "none" /\ db.log # "queued"
         \/ h[w].pc = "idle" /\ pc = "open"
         \/ h[w].pc = "inspect" /\ pc = "snapshot"
         \/ h[w].pc = "snapshot" /\ pc = "authorize"
         \/ h[w].pc = "authorize" /\ pc = "check"
         \/ h[w].pc \in {"judge", "gate"} /\ pc \in {"gate", "authorize"}
  PROVE  CalmHandler(w)
<1>1. PICK y : Becomes(w, y) /\ y.pc = pc /\ Keeps(h[w], y)
  BY GoBecomes
<1>2. Sound(h[w]) /\ h[w] \in Handler
  BY DEF Progress, TypeOK
<1>3. y.pc \in Path => h[w].pc \in Path
  BY <1>1 DEF Parked, Path
<1>4. Sound(y) /\ (Counts(y) => Counts(h[w]))
  BY <1>1, <1>2 DEF Sound, Counts, Keeps, Parked, Path
<1>5. (Waits(y) => Waits(h[w])) /\ (Launches(y) => Launches(h[w]))
  BY <1>1, <1>2 DEF Sound, Waits, Early, Launches, Keeps, Parked, Path
<1>6. Joins(h[w], y)
  BY <1>1 DEF Joins, Bringing, Parked, Path
<1> QED
  BY <1>1, <1>3, <1>4, <1>5, <1>6, KeepsOnward

LEMMA LeaveCalm ==
  ASSUME NEW w \in Worker, Leave(w)
  PROVE  CalmHandler(w)
<1>1. Onward(h[w], Fresh)
  BY DEF Onward, Fresh, Path, Waits, Early, Launches, Sound, Counts, Joins, Bringing
<1> QED
  BY <1>1, LeaveBecomes DEF CalmHandler

LEMMA ConcludeCalm ==
  ASSUME TypeOK, Progress, NEW w \in Worker, NEW outcome \in Outcome, Conclude(w, outcome),
         h[w].pc \in Path \ {"unwind"}
  PROVE  CalmHandler(w)
<1>1. PICK y : Becomes(w, y) /\ y.pc = "commit" /\ Keeps(h[w], y)
  BY ConcludeBecomes
<1>2. Sound(y) /\ ~Waits(y) /\ ~Launches(y) /\ (Counts(y) => Counts(h[w]))
  BY <1>1 DEF Progress, Sound, Waits, Early, Launches, Counts, Keeps
<1>3. Joins(h[w], y)
  BY <1>1 DEF Joins, Bringing
<1> QED
  BY <1>1, <1>2, <1>3, KeepsOnward

LEMMA AbortCalm ==
  ASSUME TypeOK, Progress, NEW w \in Worker, NEW reason \in {"user", "stop", "late"},
         Abort(w, reason)
  PROVE  CalmHandler(w) /\ CalmDisk
<1>1. PICK y : Becomes(w, y) /\ y.pc = h[w].pc /\ Keeps(h[w], y)
  BY AbortBecomes
<1>2. Sound(y) /\ (Waits(y) => Waits(h[w])) /\ (Launches(y) => Launches(h[w]))
        /\ (Counts(y) => Counts(h[w])) /\ Joins(h[w], y)
  BY <1>1 DEF Progress, Sound, Waits, Launches, Counts, Keeps, Joins
<1> QED
  BY <1>1, <1>2, KeepsOnward, AbortBecomes, HangupCalm

LEMMA EndTurnCalm ==
  ASSUME TypeOK, Progress, NEW w \in Worker, NEW status \in Ended, EndTurn(w, status)
  PROVE  CalmDb /\ CalmHandler(w)
<1>1. CASE db.exec = "needs_reconciliation"
  BY <1>1, SameDb, GoCalm DEF EndTurn, Parked, Place, Path
<1>2. CASE db.exec # "needs_reconciliation"
  <2>1. Leave(w)
    BY <1>2 DEF EndTurn
  <2>2. db'.log = "ended" /\ db'.stopped = db.stopped /\ db'.replaced = db.replaced
    BY <1>2 DEF EndTurn, TypeOK, Records
  <2>3. CalmDb
    BY <2>2, EndTurnTyped DEF CalmDb, Known, Relied
  <2> QED
    BY <2>1, <2>3, LeaveCalm
<1> QED
  BY <1>1, <1>2

LEMMA PersistedCalm ==
  ASSUME TypeOK, NEW result \in Outcome, NEW stopped \in BOOLEAN,
         db' \in {db, Persisted(result, stopped)}, stopped => Known
  PROVE  CalmDb
<1>1. /\ db' \in Records
      /\ db'.log = db.log /\ db'.replaced = db.replaced
      /\ db'.stopped => db.stopped \/ stopped
  BY PersistedTyped DEF TypeOK
<1> QED
  BY <1>1 DEF CalmDb, Known, Relied
-------------------------------------------------------------------------------
(* The calm steps of a turn *)

LEMMA ClaimTurnCalm ==
  ASSUME TypeOK, Progress, NEW w \in Worker, ClaimTurn(w)
  PROVE  Calm
<1>1. CASE db' = [db EXCEPT !.exec = "running", !.job["turn"] = w] /\ Go(w, "open")
  <2>1. db' \in Records
    BY <1>1 DEF TypeOK, Records, Status, Job
  <2>2. CalmDb
    BY <1>1, <2>1, OtherFields DEF TypeOK, Records
  <2>3. CalmHandler(w)
    BY <1>1, GoCalm DEF ClaimTurn, Fit, At, Place
  <2> QED
    BY <2>2, <2>3, SameDisk DEF Calm, ClaimTurn
<1>2. CASE db' = [db EXCEPT !.job["turn"] = "done"] /\ UNCHANGED h
  <2>1. db' \in Records
    BY <1>2, JobTyped DEF Job
  <2>2. CalmDb
    BY <1>2, <2>1, OtherFields DEF TypeOK, Records
  <2> QED
    BY <1>2, <2>2, SameDisk DEF Calm, ClaimTurn
<1> QED
  BY <1>1, <1>2 DEF ClaimTurn

LEMMA RecoverTurnCalm ==
  ASSUME TypeOK, Progress, NEW w \in Worker, RecoverTurn(w)
  PROVE  Calm
<1>1. CASE /\ UNCHANGED db
           /\ \/ \E pc \in {"fail", "settle", "drop", "report"} : Go(w, pc)
              \/ Go(w, "await") /\ db.result = "none" /\ db.log # "queued"
  <2>1. CalmHandler(w)
    BY <1>1, GoCalm DEF Parked, Place, Path
  <2> QED
    BY <1>1, <2>1, SameDb, SameDisk DEF Calm, RecoverTurn
<1>2. CASE EndTurn(w, "paused")
  BY <1>2, EndTurnCalm, SameDisk DEF Calm, RecoverTurn, Ended
<1>3. CASE db' = [db EXCEPT !.log = "interrupted"] /\ Go(w, "drop")
  <2>1. CalmDb
    BY <1>3 DEF TypeOK, Records, CalmDb, Known, Relied
  <2> QED
    BY <1>3, <2>1, SameDisk, GoCalm DEF Calm, RecoverTurn, Parked, Place, Path
<1> QED
  BY <1>1, <1>2, <1>3 DEF RecoverTurn

LEMMA InspectCalm ==
  ASSUME TypeOK, Progress, NEW w \in Worker, InspectRepository(w)
  PROVE  Calm
<1>1. CASE db' = [db EXCEPT !.unsettled = @ \cup {"inspect"}] /\ Go(w, "snapshot")
  <2>1. db' \in Records
    BY <1>1 DEF TypeOK, Records
  <2>2. CalmDb
    BY <1>1, <2>1, OtherFields DEF TypeOK, Records
  <2>3. CalmHandler(w)
    BY <1>1, GoCalm DEF InspectRepository, At, Place
  <2> QED
    BY <2>2, <2>3, SameDisk DEF Calm, InspectRepository
<1>2. CASE UNCHANGED db /\ Go(w, "fail")
  BY <1>2, SameDb, SameDisk, GoCalm DEF Calm, InspectRepository, Parked, Place, Path
<1> QED
  BY <1>1, <1>2 DEF InspectRepository

LEMMA PrepareCalm ==
  ASSUME TypeOK, Progress, NEW w \in Worker, PrepareSandbox(w)
  PROVE  Calm
<1>1. CASE UNCHANGED <<db, disk>> /\ Go(w, "fail")
  BY <1>1, SameDb, SameDisk, GoCalm DEF Calm, Parked, Place, Path
<1>2. CASE /\ db' = [db EXCEPT !.unsettled = @ \ {"inspect"}, !.phase = "running"]
           /\ \E copied \in BOOLEAN : disk' = [disk EXCEPT !.sandbox = copied]
           /\ Go(w, "authorize") \/ Conclude(w, "failed")
  <2>1. db' \in Records
    BY <1>2 DEF TypeOK, Records
  <2>2. CalmDb
    BY <1>2, <2>1, OtherFields DEF TypeOK, Records
  <2>3. CalmDisk
    BY <1>2 DEF CalmDisk, TypeOK, Machine
  <2>4. CalmHandler(w)
    BY <1>2, GoCalm, ConcludeCalm DEF PrepareSandbox, At, Place, Path, Outcome, Ended
  <2> QED
    BY <2>2, <2>3, <2>4 DEF Calm
<1> QED
  BY <1>1, <1>2 DEF PrepareSandbox

LEMMA AuthorizeCalm ==
  ASSUME TypeOK, Progress, NEW w \in Worker, Authorize(w)
  PROVE  Calm
<1>0. h[w].pc = "authorize" /\ CalmDisk
  BY SameDisk DEF Authorize, At
<1>1. CASE db' = [db EXCEPT !.unsettled = @ \cup {"runner"}] /\ Go(w, "check")
  <2>1. db' \in Records
    BY <1>1 DEF TypeOK, Records
  <2>2. CalmDb
    BY <1>1, <2>1, OtherFields DEF TypeOK, Records
  <2> QED
    BY <1>0, <1>1, <2>2, GoCalm DEF Calm, Place
<1>2. CASE db' \in {db, [db EXCEPT !.exec = "failed"]} /\ Conclude(w, "failed")
  <2>1. db' \in Records
    BY <1>2 DEF TypeOK, Records, Status, Ended
  <2>2. CalmDb
    BY <1>2, <2>1, OtherFields DEF TypeOK, Records
  <2> QED
    BY <1>0, <1>2, <2>2, ConcludeCalm DEF Calm, Path, Outcome, Ended
<1> QED
  BY <1>1, <1>2 DEF Authorize

(* A conclusion without a record. *)
LEMMA ConcludeOnly ==
  ASSUME TypeOK, Progress, NEW w \in Worker, NEW outcome \in Outcome, Conclude(w, outcome),
         h[w].pc \in Path \ {"unwind"}, UNCHANGED <<db, disk>>
  PROVE  Calm
BY SameDb, SameDisk, ConcludeCalm DEF Calm

LEMMA CheckFailsCalm ==
  ASSUME TypeOK, Progress, NEW w \in Worker, CheckFails(w)
  PROVE  Calm
BY ConcludeOnly DEF CheckFails, At, Path, Outcome, Ended

LEMMA EventsBreakCalm ==
  ASSUME TypeOK, Progress, NEW w \in Worker, EventsBreak(w)
  PROVE  Calm
BY ConcludeOnly DEF EventsBreak, At, Path, Outcome, Ended
LEMMA HarvestCalm ==
  ASSUME TypeOK, Progress, NEW w \in Worker, HarvestRunner(w)
  PROVE  Calm
<1>1. db' \in {db, [db EXCEPT !.unsettled = @ \ {"runner"}]} /\ CalmDisk
  <2>1. db' \in {db, [db EXCEPT !.unsettled = @ \ {"runner"}]} /\ UNCHANGED disk
    BY DEF HarvestRunner
  <2> QED
    BY <2>1, SameDisk
<1>2. CalmDb
  <2>1. db' \in Records
    BY <1>1 DEF TypeOK, Records
  <2> QED
    BY <1>1, <2>1, OtherFields DEF TypeOK, Records
<1>3. PICK end \in {"candidate", "completed", "failed", "cancelled", "needs_reconciliation"} :
        /\ end = "candidate" => ProvedStopped
        /\ h' = [h EXCEPT ![w].stopped = ProvedStopped,
                          ![w].pc = IF end = "candidate" THEN "judge" ELSE "commit",
                          ![w].outcome = IF end = "candidate" THEN @ ELSE end]
  BY DEF HarvestRunner, Reported
<1>4. h[w].pc = "watch" /\ h[w] \in Handler /\ Sound(h[w])
  BY DEF HarvestRunner, At, TypeOK, Progress
<1> DEFINE pc == IF end = "candidate" THEN "judge" ELSE "commit"
           outcome == IF end = "candidate" THEN h[w].outcome ELSE end
           y == [h[w] EXCEPT !.stopped = ProvedStopped, !.pc = pc, !.outcome = outcome]
<1>5. pc \in Place /\ outcome \in Outcome /\ ProvedStopped \in BOOLEAN
  BY <1>4 DEF Place, Outcome, Ended, Handler, ProvedStopped
<1>6. y \in Handler
  <2> HIDE DEF pc, outcome
  <2> QED
    BY <1>4, <1>5 DEF Handler
<1>7. h' = [h EXCEPT ![w] = y]
  BY <1>3 DEF TypeOK, Handler
<1>8. /\ y.pc = pc /\ y.checkpoint = h[w].checkpoint /\ y.launched = h[w].launched
      /\ y.stopped = ProvedStopped
  <2> HIDE DEF pc, outcome
  <2> QED
    BY <1>4 DEF Handler
<1>9. Onward(h[w], y)
  <2> HIDE DEF y
  <2> QED
    BY <1>3, <1>4, <1>8
    DEF Onward, Path, Waits, Early, Launches, Sound, Counts, Known, Joins, Bringing
<1> QED
  BY <1>1, <1>2, <1>6, <1>7, <1>9 DEF Calm, CalmHandler, Becomes

LEMMA StartGateCalm ==
  ASSUME TypeOK, Progress, NEW w \in Worker, StartGate(w)
  PROVE  Calm
<1>1. db' = [db EXCEPT !.unsettled = @ \cup {"gate"}]
  BY DEF StartGate
<1>2. db' \in Records
  BY <1>1 DEF TypeOK, Records
<1>3. CalmDb
  BY <1>1, <1>2, OtherFields DEF TypeOK, Records
<1> QED
  BY <1>3, SameDisk, GoCalm DEF Calm, StartGate, At, Place

(* The unwinding of a handler that is refused. *)
LEMMA UnwindBecomes ==
  ASSUME TypeOK, Progress, NEW w \in Worker, h[w].pc \in Path,
         NEW next \in {"settle", "fail"}, NEW keep \in BOOLEAN,
         h' = [h EXCEPT ![w] = [h[w] EXCEPT !.pc = "unwind", !.next = next, !.keep = keep]]
  PROVE  CalmHandler(w)
<1> DEFINE y == [h[w] EXCEPT !.pc = "unwind", !.next = next, !.keep = keep]
<1>1. h[w] \in Handler /\ "unwind" \in Place
  BY DEF TypeOK, Place
<1>2. y \in Handler /\ y.pc = "unwind" /\ Keeps(h[w], y)
  BY <1>1 DEF Handler, Keeps
<1>3. Becomes(w, y)
  BY <1>2 DEF Becomes
<1>4. Sound(y) /\ ~Waits(y) /\ ~Launches(y) /\ (Counts(y) => Counts(h[w])) /\ Joins(h[w], y)
  BY <1>2 DEF Progress, Sound, Waits, Early, Launches, Counts, Keeps, Joins, Bringing
<1> QED
  BY <1>2, <1>3, <1>4, KeepsOnward

LEMMA GateEndsCalm ==
  ASSUME TypeOK, Progress, NEW w \in Worker, GateEnds(w)
  PROVE  Calm
<1>1. db' \in {db, [db EXCEPT !.unsettled = @ \ {"gate"}]}
  BY DEF GateEnds
<1>2. CalmDb
  <2>1. db' \in Records
    BY <1>1 DEF TypeOK, Records
  <2> QED
    BY <1>1, <2>1, OtherFields DEF TypeOK, Records
<1>3. h[w].pc \in {"judge", "gate"} /\ UNCHANGED disk
  BY DEF GateEnds, At
<1>4. CalmHandler(w)
  <2>1. CASE \E outcome \in {"waiting_approval", "paused"} : Conclude(w, outcome)
    BY <1>3, <2>1, ConcludeCalm DEF Path, Outcome, Ended
  <2>2. CASE Go(w, "authorize")
    BY <1>3, <2>2, GoCalm DEF Place
  <2>3. CASE h' = [h EXCEPT ![w].pc = "unwind", ![w].next = "fail"]
    <3>1. h' = [h EXCEPT ![w] = [h[w] EXCEPT !.pc = "unwind", !.next = "fail",
                                             !.keep = h[w].keep]]
      BY <2>3 DEF TypeOK, Handler
    <3>2. h[w].keep \in BOOLEAN /\ h[w].pc \in Path
      BY <1>3 DEF TypeOK, Handler, Path
    <3> QED
      BY <3>1, <3>2, UnwindBecomes
  <2> QED
    BY <2>1, <2>2, <2>3 DEF GateEnds
<1> QED
  BY <1>2, <1>3, <1>4, SameDisk DEF Calm

LEMMA CommitCalm ==
  ASSUME TypeOK, Progress, NEW w \in Worker, CommitResult(w)
  PROVE  Calm
<1>1. h[w].pc = "commit" /\ h[w].pc \in Path /\ UNCHANGED disk
  BY DEF CommitResult, At, Path
<1> DEFINE result == IF h[w].abort = "user" /\ h[w].stopped THEN "cancelled" ELSE h[w].outcome
<1>2. result \in Outcome /\ h[w].stopped \in BOOLEAN
  <2>1. h[w].outcome \in Outcome /\ h[w].stopped \in BOOLEAN /\ "cancelled" \in Outcome
    BY DEF TypeOK, Handler, Outcome, Ended
  <2> QED
    BY <2>1
<1>3. db' \in {db, Persisted(result, h[w].stopped)}
  BY DEF CommitResult
<1>4. h[w].stopped => Known
  BY DEF Known, Relied, Counts
<1>5. CalmDb
  <2> HIDE DEF result
  <2> QED
    BY <1>2, <1>3, <1>4, PersistedCalm
<1>6. \E next \in {"settle", "fail"}, keep \in BOOLEAN :
         h' = [h EXCEPT ![w].pc = "unwind", ![w].next = next, ![w].keep = keep]
  BY DEF CommitResult
<1>7. \E next \in {"settle", "fail"}, keep \in BOOLEAN :
         h' = [h EXCEPT ![w] = [h[w] EXCEPT !.pc = "unwind", !.next = next, !.keep = keep]]
  BY <1>6 DEF TypeOK, Handler
<1> QED
  BY <1>1, <1>5, <1>7, UnwindBecomes, SameDisk DEF Calm
LEMMA AnewCalm ==
  ASSUME TypeOK, NEW w \in Worker, NEW pc \in {"settle", "fail"},
         h' = [h EXCEPT ![w] = [Fresh EXCEPT !.pc = pc, !.abort = h[w].abort]]
  PROVE  CalmHandler(w)
<1> DEFINE y == [Fresh EXCEPT !.pc = pc, !.abort = h[w].abort]
<1>1. pc \in Place /\ h[w].abort \in {"none", "user", "stop", "late"}
  BY DEF TypeOK, Handler, Place
<1>2. /\ y \in Handler /\ y.pc = pc
      /\ ~y.checkpoint /\ ~y.launched /\ ~y.stopped
  <2>1. /\ Fresh \in Handler /\ ~Fresh.checkpoint /\ ~Fresh.launched /\ ~Fresh.stopped
    BY FreshTyped DEF Fresh
  <2> HIDE DEF Fresh
  <2> QED
    BY <1>1, <2>1 DEF Handler
<1>3. Onward(h[w], y)
  <2> HIDE DEF y
  <2> QED
    BY <1>2 DEF Onward, Path, Waits, Early, Launches, Sound, Counts, Joins, Bringing
<1> QED
  BY <1>2, <1>3 DEF CalmHandler, Becomes

LEMMA UnwindCalm ==
  ASSUME TypeOK, Progress, NEW w \in Worker, Unwind(w)
  PROVE  Calm
<1> DEFINE Fails == IF h[w].next = "settle" THEN h' = [h EXCEPT ![w].next = "fail"]
                    ELSE h' = [h EXCEPT ![w] = [Fresh EXCEPT !.pc = "fail", !.abort = h[w].abort]]
<1>1. h[w].pc = "unwind" /\ UNCHANGED db
  BY DEF Unwind, At
<1>2. CASE UNCHANGED h /\ disk' = Hangup
  BY <1>1, <1>2, SameDb, HangupCalm DEF Calm
<1>3. ASSUME Fails PROVE CalmHandler(w)
  <2>1. CASE h' = [h EXCEPT ![w].next = "fail"]
    <3>1. h' = [h EXCEPT ![w] = [h[w] EXCEPT !.pc = "unwind", !.next = "fail",
                                             !.keep = h[w].keep]]
      BY <1>1, <2>1 DEF TypeOK, Handler
    <3>2. h[w].keep \in BOOLEAN /\ h[w].pc \in Path
      BY <1>1 DEF TypeOK, Handler, Path
    <3> QED
      BY <3>1, <3>2, UnwindBecomes
  <2> QED
    BY <1>3, <2>1, AnewCalm
<1> DEFINE gone == [disk EXCEPT !.sandbox = @ /\ h[w].keep /\ h[w].checkpoint]
<1>4. /\ gone \in Machine
      /\ gone.supervisor = disk.supervisor /\ gone.runner = disk.runner
      /\ gone.proof = disk.proof
      /\ [gone EXCEPT !.proof = "absent"] \in Machine
      /\ [gone EXCEPT !.proof = "absent"].supervisor = disk.supervisor
      /\ [gone EXCEPT !.proof = "absent"].runner = disk.runner
      /\ [gone EXCEPT !.proof = "absent"].proof = "absent"
  BY DEF TypeOK, Machine, Handler
<1>5. ASSUME disk' \in {disk, gone, [gone EXCEPT !.proof = "absent"], [gone EXCEPT !.proof = @]}
      PROVE  CalmDisk
  <2>1. [gone EXCEPT !.proof = @] = gone
    BY DEF TypeOK, Machine
  <2> HIDE DEF gone
  <2> QED
    BY <1>4, <1>5, <2>1 DEF CalmDisk, TypeOK
<1>6. CASE Fails /\ disk' \in {disk, gone}
  <2> HIDE DEF Fails, gone
  <2> QED
    BY <1>1, <1>3, <1>5, <1>6, SameDb DEF Calm
<1>7. CASE /\ disk' \in {[gone EXCEPT !.proof = "absent"], [gone EXCEPT !.proof = @]}
           /\ h' = [h EXCEPT ![w] = [Fresh EXCEPT !.pc = h[w].next, !.abort = h[w].abort]]
  <2>1. h[w].next \in {"settle", "fail"}
    BY DEF TypeOK, Handler
  <2>2. CalmHandler(w)
    BY <1>7, <2>1, AnewCalm
  <2> HIDE DEF gone
  <2> QED
    BY <1>1, <1>5, <1>7, <2>2, SameDb DEF Calm
<1>8. \/ UNCHANGED h /\ disk' = Hangup
      \/ Fails /\ disk' \in {disk, gone}
      \/ /\ disk' \in {[gone EXCEPT !.proof = "absent"], [gone EXCEPT !.proof = @]}
         /\ h' = [h EXCEPT ![w] = [Fresh EXCEPT !.pc = h[w].next, !.abort = h[w].abort]]
  BY DEF Unwind
<1> QED
  BY <1>2, <1>6, <1>7, <1>8

(* Nothing but a place changes. *)
LEMMA GoOnly ==
  ASSUME TypeOK, Progress, NEW w \in Worker, NEW pc \in Parked, Go(w, pc), UNCHANGED <<db, disk>>
  PROVE  Calm
BY SameDb, SameDisk, GoCalm DEF Calm, Parked

LEMMA EndCalm ==
  ASSUME TypeOK, Progress, NEW w \in Worker,
         \/ LoseLease(w) \/ SettleResult(w) \/ AbandonCandidate(w) \/ ReportUnknown(w)
  PROVE  Calm
<1>1. CASE LoseLease(w)
  BY <1>1, SameDb, SameDisk, LeaveCalm DEF LoseLease, Calm
<1>2. CASE SettleResult(w)
  <2>1. UNCHANGED disk /\ \E status \in Ended : EndTurn(w, status)
    BY <1>2 DEF SettleResult, Ended
  <2> QED
    BY <2>1, EndTurnCalm, SameDisk DEF Calm
<1>3. CASE AbandonCandidate(w)
  BY <1>3, GoOnly DEF AbandonCandidate, Parked, Place, Path
<1>4. CASE ReportUnknown(w)
  BY <1>4, GoOnly DEF ReportUnknown, Parked, Place, Path
<1> QED
  BY <1>1, <1>2, <1>3, <1>4

LEMMA SettleUnknownCalm ==
  ASSUME TypeOK, Progress, NEW w \in Worker, SettleUnknown(w)
  PROVE  Calm
<1>1. db' = [db EXCEPT !.log = "needs_reconciliation"]
  BY DEF SettleUnknown
<1>2. CalmDb
  BY <1>1 DEF TypeOK, Records, CalmDb, Known, Relied
<1>3. CalmHandler(w)
  BY GoCalm DEF SettleUnknown, Parked, Place, Path
<1> QED
  BY <1>2, <1>3, SameDisk DEF Calm, SettleUnknown

LEMMA RejectCalm ==
  ASSUME TypeOK, Progress, NEW w \in Worker, RejectCandidate(w) \/ ApproveCandidate(w)
  PROVE  Calm
<1>1. UNCHANGED <<disk, h>> /\ \E r \in {"cancelled", "completed"} : db' = [db EXCEPT !.result = r]
  BY DEF RejectCandidate, ApproveCandidate
<1>2. db' \in Records
  BY <1>1 DEF TypeOK, Records, Outcome, Ended
<1> QED
  BY <1>1, <1>2, OtherFields, SameDisk DEF Calm, TypeOK, Records

LEMMA FailTurnCalm ==
  ASSUME TypeOK, Progress, NEW w \in Worker, FailTurn(w)
  PROVE  Calm
<1>1. CASE db' = [db EXCEPT !.log = "interrupted"] /\ Go(w, "drop")
  <2>1. CalmDb
    BY <1>1 DEF TypeOK, Records, CalmDb, Known, Relied
  <2> QED
    BY <1>1, <2>1, GoCalm, SameDisk DEF Calm, FailTurn, Parked, Place, Path
<1>2. CASE \E status \in {"paused", "failed"} : EndTurn(w, status)
  <2>1. \E status \in Ended : EndTurn(w, status)
    BY <1>2 DEF Ended
  <2> QED
    BY <2>1, EndTurnCalm, SameDisk DEF Calm, FailTurn
<1> QED
  BY <1>1, <1>2 DEF FailTurn

LEMMA MarkUnknownCalm ==
  ASSUME TypeOK, Progress, NEW w \in Worker, MarkUnknown(w)
  PROVE  Calm
<1>1. db' = [db EXCEPT !.exec = "needs_reconciliation", !.job["turn"] = "done"]
  BY DEF MarkUnknown
<1>2. db' \in Records
  BY <1>1 DEF TypeOK, Records, Status, Job
<1>3. CalmDb
  BY <1>1, <1>2, OtherFields DEF TypeOK, Records
<1> QED
  BY <1>3, LeaveCalm, SameDisk DEF Calm, MarkUnknown

LEMMA DropTurnCalm ==
  ASSUME TypeOK, Progress, NEW w \in Worker, DropTurn(w)
  PROVE  Calm
<1>1. PICK e \in Status : db' \in {db, [db EXCEPT !.job["turn"] = "done", !.exec = e]}
  <2>1. \A stop \in BOOLEAN : Dropped(stop) \in Status
    BY DEF Dropped, TypeOK, Records, Status, Ended
  <2>2. (h[w].abort = "stop") \in BOOLEAN
    OBVIOUS
  <2> QED
    BY <2>1, <2>2 DEF DropTurn
<1>2. db' \in Records
  <2>1. [db EXCEPT !.job["turn"] = "done", !.exec = e] \in Records
    BY DEF TypeOK, Records, Job
  <2> QED
    BY <1>1, <2>1 DEF TypeOK
<1>3. CalmDb
  BY <1>1, <1>2, OtherFields DEF TypeOK, Records
<1> QED
  BY <1>3, LeaveCalm, SameDisk DEF Calm, DropTurn

LEMMA AwaitRunnerCalm ==
  ASSUME TypeOK, Progress, NEW w \in Worker, AwaitRunner(w)
  PROVE  Calm
<1>1. UNCHANGED disk /\ \E pc \in {"fail", "unknown"} : Go(w, pc)
  BY DEF AwaitRunner
<1>2. CalmHandler(w)
  BY <1>1, GoCalm DEF Parked, Place, Path
<1>3. CalmDb
  <2>1. CASE UNCHANGED db
    BY <2>1, SameDb
  <2>2. CASE \E stopped \in {FALSE, ProvedStopped} :
               db' = Persisted("needs_reconciliation", stopped)
    <3>1. \A stopped \in {FALSE, ProvedStopped} : stopped \in BOOLEAN /\ (stopped => Known)
      BY DEF ProvedStopped, Known
    <3> QED
      BY <2>2, <3>1, PersistedCalm DEF Outcome
  <2> QED
    BY <2>1, <2>2 DEF AwaitRunner
<1> QED
  BY <1>1, <1>2, <1>3, SameDisk DEF Calm
-------------------------------------------------------------------------------
(* The calm steps of the other jobs, of people, of time and of faults *)

LEMMA ClaimSideCalm ==
  ASSUME TypeOK, Progress, NEW w \in Worker, NEW j \in Job, ClaimSideJob(w, j)
  PROVE  Calm
<1>1. db' = [db EXCEPT !.job[j] = w]
  BY DEF ClaimSideJob
<1>2. db' \in Records
  BY <1>1, JobTyped
<1>3. CalmDb
  BY <1>1, <1>2, OtherFields DEF TypeOK, Records
<1>4. CalmHandler(w)
  BY GoCalm DEF ClaimSideJob, Parked, Place, Path
<1> QED
  BY <1>3, <1>4, SameDisk DEF Calm, ClaimSideJob

(* A handler goes where it relies on what the records confirm. *)
LEMMA RelyingCalm ==
  ASSUME TypeOK, Progress, NEW w \in Worker, NEW pc \in {"verdict", "forget"},
         NEW outcome \in Outcome, db.stopped,
         h' = [h EXCEPT ![w] = [h[w] EXCEPT !.pc = pc, !.outcome = outcome]]
  PROVE  CalmHandler(w)
<1> DEFINE y == [h[w] EXCEPT !.pc = pc, !.outcome = outcome]
<1>1. h[w] \in Handler /\ pc \in Place
  BY DEF TypeOK, Place
<1>2. y \in Handler /\ y.pc = pc /\ Keeps(h[w], y)
  BY <1>1 DEF Handler, Keeps
<1>3. Onward(h[w], y)
  <2> HIDE DEF y
  <2> QED
    BY <1>2 DEF Onward, Path, Waits, Early, Launches, Progress, Sound, Known, Relied, Keeps,
       Joins, Bringing
<1> QED
  BY <1>2, <1>3 DEF CalmHandler, Becomes

LEMMA VerifyCalm ==
  ASSUME TypeOK, Progress, NEW w \in Worker, VerifyCandidate(w)
  PROVE  Calm
<1>1. CASE Go(w, "close")
  BY <1>1, GoOnly DEF VerifyCandidate, Parked, Place, Path
<1>2. CASE db.stopped /\ \E verdict \in {"failed", "completed"} :
             h' = [h EXCEPT ![w].pc = "verdict", ![w].outcome = verdict]
  <2>1. \E verdict \in Outcome :
           h' = [h EXCEPT ![w] = [h[w] EXCEPT !.pc = "verdict", !.outcome = verdict]]
    BY <1>2 DEF TypeOK, Handler, Outcome, Ended
  <2> QED
    BY <1>2, <2>1, RelyingCalm, SameDb, SameDisk DEF Calm, VerifyCandidate
<1> QED
  BY <1>1, <1>2 DEF VerifyCandidate, MayDecide

LEMMA RecordVerdictCalm ==
  ASSUME TypeOK, Progress, NEW w \in Worker, RecordVerdict(w)
  PROVE  Calm
<1>1. db' \in {db, [db EXCEPT !.verification = "failed"],
               [db EXCEPT !.exec = "completed", !.result = "completed", !.phase = "settled",
                   !.verification = "passed", !.cleanup = "pending", !.job["cleanup"] = "available"]}
  BY DEF RecordVerdict
<1>2. db' \in Records
  <2>1. "completed" \in Status /\ "completed" \in Outcome
    BY DEF Status, Outcome, Ended
  <2>2. /\ [db EXCEPT !.verification = "failed"] \in Records
        /\ [db EXCEPT !.exec = "completed", !.result = "completed", !.phase = "settled",
               !.verification = "passed", !.cleanup = "pending", !.job["cleanup"] = "available"]
             \in Records
    BY <2>1 DEF TypeOK, Records, Job
  <2> QED
    BY <1>1, <2>2 DEF TypeOK
<1>3. CalmDb
  BY <1>1, <1>2, OtherFields DEF TypeOK, Records
<1>4. CalmHandler(w)
  BY GoCalm DEF RecordVerdict, Parked, Place, Path
<1> QED
  BY <1>3, <1>4, SameDisk DEF Calm, RecordVerdict

LEMMA DeleteSandboxCalm ==
  ASSUME TypeOK, Progress, NEW w \in Worker, DeleteSandbox(w)
  PROVE  Calm
<1>1. CASE UNCHANGED disk /\ Go(w, "close")
  BY <1>1, GoOnly DEF DeleteSandbox, Parked, Place, Path
<1>2. CASE db.stopped /\ disk' = [disk EXCEPT !.sandbox = FALSE] /\ Go(w, "forget")
  <2>1. CalmDisk
    BY <1>2 DEF CalmDisk, TypeOK, Machine
  <2>2. h' = [h EXCEPT ![w] = [h[w] EXCEPT !.pc = "forget", !.outcome = h[w].outcome]]
    BY <1>2 DEF Go, TypeOK, Handler
  <2>3. h[w].outcome \in Outcome
    BY DEF TypeOK, Handler
  <2> QED
    BY <1>2, <2>1, <2>2, <2>3, RelyingCalm, SameDb DEF Calm, DeleteSandbox
<1> QED
  BY <1>1, <1>2 DEF DeleteSandbox

LEMMA DeleteProofCalm ==
  ASSUME TypeOK, Progress, NEW w \in Worker, DeleteProof(w)
  PROVE  Calm
<1>1. disk' \in {disk, [disk EXCEPT !.proof = "absent"]}
  BY DEF DeleteProof
<1>2. CalmDisk
  BY <1>1 DEF CalmDisk, TypeOK, Machine
<1>3. CalmHandler(w)
  BY GoCalm DEF DeleteProof, Parked, Place, Path
<1> QED
  BY <1>2, <1>3, SameDb DEF Calm, DeleteProof

LEMMA RecordCleanedCalm ==
  ASSUME TypeOK, Progress, NEW w \in Worker, RecordCleaned(w)
  PROVE  Calm
<1>1. db' \in {db, [db EXCEPT !.cleanup = "cleaned"]}
  BY DEF RecordCleaned
<1>2. db' \in Records
  BY <1>1 DEF TypeOK, Records
<1>3. CalmDb
  BY <1>1, <1>2, OtherFields DEF TypeOK, Records
<1>4. CalmHandler(w)
  BY GoCalm DEF RecordCleaned, Parked, Place, Path
<1> QED
  BY <1>3, <1>4, SameDisk DEF Calm, RecordCleaned

LEMMA CloseSideCalm ==
  ASSUME TypeOK, Progress, NEW w \in Worker, CloseSideJob(w)
  PROVE  Calm
<1> DEFINE job == [j \in Job |-> IF j # "turn" /\ db.job[j] = w THEN "done" ELSE db.job[j]]
<1>1. db' = [db EXCEPT !.job = job]
  BY DEF CloseSideJob
<1>2. job \in [Job -> {"absent", "available", "done"} \cup Worker]
  BY DEF TypeOK, Records
<1>3. db' \in Records
  <2> HIDE DEF job
  <2> QED
    BY <1>1, <1>2 DEF TypeOK, Records
<1>4. CalmDb
  <2> HIDE DEF job
  <2> QED
    BY <1>1, <1>3, OtherFields DEF TypeOK, Records
<1> QED
  BY <1>4, LeaveCalm, SameDisk DEF Calm, CloseSideJob

LEMMA SignalCalm ==
  ASSUME TypeOK, Progress, NEW w \in Worker,
         SeeCancel(w) \/ SeeLostLease(w) \/ SeeDeadline(w) \/ StopWorker(w)
  PROVE  Calm
<1>1. UNCHANGED db /\ \E reason \in {"user", "stop", "late"} : Abort(w, reason)
  BY DEF SeeCancel, SeeLostLease, SeeDeadline, StopWorker
<1> QED
  BY <1>1, AbortCalm, SameDb DEF Calm

LEMMA CrashCalm ==
  ASSUME TypeOK, Progress, NEW w \in Worker, Crash(w)
  PROVE  Calm
BY SameDb, HangupCalm, LeaveCalm DEF Calm, Crash

LEMMA LeaseCalm ==
  ASSUME TypeOK, NEW j \in Job, LeaseExpires(j) \/ LeaseLapses(j)
  PROVE  Calm
<1>1. db' = [db EXCEPT !.job[j] = "available"] /\ UNCHANGED <<disk, h>>
  BY DEF LeaseExpires, LeaseLapses
<1>2. db' \in Records
  BY <1>1, JobTyped
<1> QED
  BY <1>1, <1>2, OtherFields, SameDisk DEF Calm, TypeOK, Records

LEMMA TimeCalm == TypeOK /\ RunOutOfTime => Calm
BY SameDb, SameDisk DEF Calm, RunOutOfTime

LEMMA PeopleCalm ==
  ASSUME TypeOK, CancelExecution \/ DenyCandidate \/ RequestVerification
  PROVE  Calm
<1>1. /\ UNCHANGED <<disk, h>>
      /\ \E e \in Status : db' \in {[db EXCEPT !.cancel = TRUE, !.exec = e], [db EXCEPT !.exec = e],
              [db EXCEPT !.verification = "pending", !.job["verify"] = "available"]}
  <2>1. {"failed", "cancelled", "needs_reconciliation"} \subseteq Status
    BY DEF Status, Ended
  <2> QED
    BY <2>1 DEF CancelExecution, DenyCandidate, RequestVerification
<1>2. PICK e \in Status :
        db' \in {[db EXCEPT !.cancel = TRUE, !.exec = e], [db EXCEPT !.exec = e],
              [db EXCEPT !.verification = "pending", !.job["verify"] = "available"]}
  BY <1>1
<1>3. db' \in Records
  <2>1. /\ [db EXCEPT !.cancel = TRUE, !.exec = e] \in Records
        /\ [db EXCEPT !.exec = e] \in Records
        /\ [db EXCEPT !.verification = "pending", !.job["verify"] = "available"] \in Records
    BY DEF TypeOK, Records, Job
  <2> QED
    BY <1>2, <2>1
<1> QED
  BY <1>1, <1>2, <1>3, OtherFields, SameDisk DEF Calm, TypeOK, Records

LEMMA TerminateCalm ==
  ASSUME TypeOK, NEW newCall \in BOOLEAN, Terminate(newCall)
  PROVE  Calm
<1> DEFINE v == IF db.verification = "pending" THEN "failed" ELSE db.verification
           s == IF db.verification = "pending" THEN "done" ELSE db.job["verify"]
           job == [db.job EXCEPT !["cleanup"] = "available", !["verify"] = s]
<1>1. db' = [db EXCEPT !.exec = "cancelled", !.result = "cancelled", !.phase = "settled",
                !.cleanup = "pending", !.replaced = newCall, !.verification = v, !.job = job]
  BY DEF Terminate, TypeOK, Records, Job
<1>2. v \in {"none", "pending", "passed", "failed"}
  BY DEF TypeOK, Records
<1>3. job \in [Job -> {"absent", "available", "done"} \cup Worker]
  <2>1. s \in {"absent", "available", "done"} \cup Worker
    BY DEF TypeOK, Records, Job
  <2> HIDE DEF s
  <2> QED
    BY <2>1 DEF TypeOK, Records, Job
<1>4. "cancelled" \in Status /\ "cancelled" \in Outcome
  BY DEF Status, Outcome, Ended
<1> HIDE DEF v, s, job
<1>5. db' \in Records
  BY <1>1, <1>2, <1>3, <1>4 DEF TypeOK, Records
<1>6. db'.log = db.log /\ db.stopped
  BY <1>1 DEF TypeOK, Records, Terminate, MayDecide
<1>7. CalmDb
  BY <1>5, <1>6 DEF CalmDb, Known, Relied
<1> QED
  BY <1>7, SameDisk DEF Calm, Terminate
-------------------------------------------------------------------------------
(* The steps that are not calm: the turn begins, a file is prepared, a supervisor is
   launched and goes its way. *)

LEMMA NobodyElse ==
  ASSUME Machinery, NEW w \in Worker, h[w].pc \in Path
  PROVE  db.log # "queued" /\ \A v \in Worker : v # w => h[v].pc \notin Path
BY DEF Machinery, OneStarter

LEMMA StartTurnKeeps ==
  ASSUME TypeOK, Machinery, NEW w \in Worker, StartTurn(w)
  PROVE  db' \in Records /\ h' \in [Worker -> Handler] /\ Machinery'
<1>1. PICK y : /\ Becomes(w, y) /\ Keeps(h[w], y)
               /\ y.pc \in {"inspect", "fail"}
  BY GoBecomes DEF StartTurn, Place
<1>2. /\ h' \in [Worker -> Handler] /\ h'[w] = y
      /\ \A v \in Worker : v # w => h'[v] = h[v]
  BY <1>1, BecomesTyped
<1>3. /\ db' \in Records /\ db'.log = "running"
      /\ db'.stopped = db.stopped /\ db'.replaced = db.replaced
  BY DEF StartTurn, TypeOK, Records
<1>4. Unbegun /\ ~Relied /\ \A v \in Worker : h[v].pc \notin Path
  BY DEF StartTurn, Unbegun, Machinery, ReliedIsDead, OneStarter
<1>5. Sound(h[w]) /\ ~Counts(h[w]) /\ h[w].pc = "open"
  BY <1>4 DEF Machinery, Progress, Relied, StartTurn, At
<1>6. Sound(y) /\ ~Counts(y) /\ ~Launches(y)
  BY <1>1, <1>5 DEF Sound, Counts, Keeps, Launches
<1>7. ~Relied'
  BY <1>2, <1>3, <1>4, <1>6 DEF Relied
<1>8. \A v \in Worker : h'[v].pc \in Path => v = w
  BY <1>2, <1>4
<1>9. OneStarter' /\ Progress'
  BY <1>2, <1>3, <1>6, <1>8 DEF OneStarter, Progress, Machinery
<1>10. UNCHANGED disk
  BY DEF StartTurn
<1>11. FirstLaunch' /\ NothingYet'
  BY <1>2, <1>4, <1>6, <1>10 DEF FirstLaunch, NothingYet, Machinery
<1> QED
  BY <1>2, <1>3, <1>7, <1>9, <1>10, <1>11
  DEF Machinery, FileIsTrue, SpawnedIsFirst, ReliedIsDead, ProvedStopped

LEMMA CheckpointKeeps ==
  ASSUME TypeOK, Machinery, NEW w \in Worker, Checkpoint(w)
  PROVE  db' \in Records /\ disk' \in Machine /\ h' \in [Worker -> Handler] /\ Machinery'
<1>1. /\ h[w] \in Handler /\ h[w].pc = "check" /\ h[w].pc \in Path /\ Sound(h[w])
  BY DEF Checkpoint, At, Path, TypeOK, Machinery, Progress
<1>2. db.log # "queued" /\ \A v \in Worker : v # w => h[v].pc \notin Path
  BY <1>1, NobodyElse
<1>3. PICK y : /\ Becomes(w, y) /\ y.launched = h[w].launched /\ y.stopped = h[w].stopped
               /\ \/ y.pc = "launch" /\ y.checkpoint
                  \/ y.pc = "commit" /\ y.checkpoint = h[w].checkpoint
  <2>1. CASE h' = [h EXCEPT ![w].pc = "launch", ![w].checkpoint = TRUE]
    <3> DEFINE y == [h[w] EXCEPT !.pc = "launch", !.checkpoint = TRUE]
    <3>1. "launch" \in Place
      BY DEF Place
    <3>2. /\ y \in Handler /\ y.launched = h[w].launched /\ y.stopped = h[w].stopped
          /\ y.pc = "launch" /\ y.checkpoint
      BY <1>1, <3>1 DEF Handler
    <3>3. h' = [h EXCEPT ![w] = y]
      BY <2>1 DEF TypeOK, Handler
    <3> QED
      BY <3>2, <3>3 DEF Becomes
  <2>2. CASE Conclude(w, "needs_reconciliation")
    BY <2>2, ConcludeBecomes DEF Outcome, Keeps
  <2> QED
    BY <2>1, <2>2 DEF Checkpoint
<1>4. /\ h' \in [Worker -> Handler] /\ h'[w] = y
      /\ \A v \in Worker : v # w => h'[v] = h[v]
  BY <1>3, BecomesTyped
<1>5. db' \in {db, [db EXCEPT !.phase = "started", !.stopped = FALSE]}
  BY DEF Checkpoint
<1>6. /\ db' \in Records /\ db'.log = db.log /\ db'.replaced = db.replaced
      /\ db'.stopped => db.stopped
  BY <1>5 DEF TypeOK, Records
<1>7. /\ disk' \in Machine
      /\ disk'.supervisor = disk.supervisor /\ disk'.runner = disk.runner
      /\ disk'.proof = IF h[w].checkpoint THEN disk.proof ELSE "prepared"
  BY DEF Checkpoint, TypeOK, Machine
<1>8. OneStarter' /\ ~Unbegun'
  BY <1>1, <1>2, <1>3, <1>4, <1>6 DEF OneStarter, Unbegun, Waits, Early, Path
<1>9. Sound(y)
  BY <1>1, <1>3 DEF Sound
<1>10. Progress'
  BY <1>4, <1>9 DEF Machinery, Progress
<1>11. \A v \in Worker : v # w => ~Launches(h[v])
  BY <1>2 DEF Launches, Path
<1>12. CASE h[w].checkpoint
  <2>1. Relied /\ h[w].launched
    BY <1>1, <1>12 DEF Relied, Counts, Sound
  <2>2. Dead /\ Dead'
    BY <1>7, <1>12, <2>1 DEF Machinery, ReliedIsDead, Dead
  <2>3. FirstLaunch'
    BY <1>3, <1>4, <1>11, <2>1 DEF FirstLaunch, Launches
  <2>4. FileIsTrue' /\ SpawnedIsFirst'
    BY <2>2 DEF Dead, FileIsTrue, SpawnedIsFirst
  <2> QED
    BY <1>4, <1>6, <1>7, <1>8, <1>10, <2>2, <2>3, <2>4 DEF Machinery, NothingYet, ReliedIsDead
<1>13. CASE ~h[w].checkpoint
  <2>1. Unbegun
    BY <1>1, <1>13 DEF Unbegun, Waits, Early
  <2>2. disk.supervisor = "none" /\ disk.runner = "absent" /\ ~Relied
    BY <2>1 DEF Machinery, NothingYet, ReliedIsDead
  <2>3. ~Counts(y)
    BY <1>1, <1>3, <1>13, <2>2 DEF Relied, Counts, Sound
  <2>4. ~Relied'
    BY <1>4, <1>6, <2>2, <2>3 DEF Relied
  <2>5. FirstLaunch' /\ FileIsTrue' /\ SpawnedIsFirst'
    BY <1>7, <2>2 DEF FirstLaunch, FileIsTrue, SpawnedIsFirst
  <2> QED
    BY <1>4, <1>6, <1>7, <1>8, <1>10, <2>4, <2>5 DEF Machinery, NothingYet, ReliedIsDead
<1> QED
  BY <1>1, <1>12, <1>13 DEF Handler

LEMMA LaunchKeeps ==
  ASSUME TypeOK, Machinery, NEW w \in Worker, Launch(w)
  PROVE  disk' \in Machine /\ h' \in [Worker -> Handler] /\ Machinery'
<1>1. /\ h[w] \in Handler /\ h[w].pc = "launch" /\ h[w].pc \in Path /\ Sound(h[w])
      /\ UNCHANGED db
  BY DEF Launch, At, Path, TypeOK, Machinery, Progress
<1>2. db.log # "queued" /\ \A v \in Worker : v # w => h[v].pc \notin Path
  BY <1>1, NobodyElse
<1>3. PICK y : /\ Becomes(w, y) /\ y.launched /\ y.checkpoint = h[w].checkpoint
               /\ y.stopped = h[w].stopped
               /\ \/ y.pc = "commit" /\ UNCHANGED disk
                  \/ /\ y.pc = "watch"
                     /\ \E pipe \in {"open", "closed"} :
                          disk' = [disk EXCEPT !.supervisor = "spawned", !.pipe = pipe]
  <2>0. "commit" \in Place /\ "watch" \in Place /\ "needs_reconciliation" \in Outcome
    BY DEF Place, Outcome
  <2>1. CASE /\ UNCHANGED disk
             /\ h' = [h EXCEPT ![w].pc = "commit", ![w].outcome = "needs_reconciliation",
                         ![w].launched = TRUE]
    <3> DEFINE y == [h[w] EXCEPT !.pc = "commit", !.outcome = "needs_reconciliation",
                                 !.launched = TRUE]
    <3>1. /\ y \in Handler /\ y.launched /\ y.checkpoint = h[w].checkpoint
          /\ y.stopped = h[w].stopped /\ y.pc = "commit"
      BY <1>1, <2>0 DEF Handler
    <3>2. h' = [h EXCEPT ![w] = y]
      BY <2>1 DEF TypeOK, Handler
    <3> QED
      BY <2>1, <3>1, <3>2 DEF Becomes
  <2>2. CASE /\ h' = [h EXCEPT ![w].pc = "watch", ![w].launched = TRUE]
             /\ \E pipe \in {"open", "closed"} :
                  disk' = [disk EXCEPT !.supervisor = "spawned", !.pipe = pipe]
    <3> DEFINE y == [h[w] EXCEPT !.pc = "watch", !.launched = TRUE]
    <3>1. /\ y \in Handler /\ y.launched /\ y.checkpoint = h[w].checkpoint
          /\ y.stopped = h[w].stopped /\ y.pc = "watch"
      BY <1>1, <2>0 DEF Handler
    <3>2. h' = [h EXCEPT ![w] = y]
      BY <2>2 DEF TypeOK, Handler
    <3> QED
      BY <2>2, <3>1, <3>2 DEF Becomes
  <2> QED
    BY <2>1, <2>2 DEF Launch
<1>4. /\ h' \in [Worker -> Handler] /\ h'[w] = y
      /\ \A v \in Worker : v # w => h'[v] = h[v]
  BY <1>3, BecomesTyped
<1>5. OneStarter' /\ ~Unbegun' /\ ~Unbegun
  BY <1>1, <1>2, <1>3, <1>4 DEF OneStarter, Unbegun, Waits, Early, Path
<1>6. Sound(y) /\ ~Launches(y) /\ (Counts(y) => Counts(h[w]))
  BY <1>1, <1>3 DEF Sound, Launches, Counts
<1>7. Progress' /\ (Relied' => Relied)
  BY <1>1, <1>4, <1>6 DEF Machinery, Progress, Relied
<1>8. FirstLaunch'
  BY <1>2, <1>4, <1>6 DEF FirstLaunch, Launches, Path
<1>9. disk.runner # "alive"
  <2>1. CASE h[w].launched
    BY <1>1, <2>1 DEF Machinery, ReliedIsDead, Relied, Counts, Dead
  <2>2. CASE ~h[w].launched
    BY <1>1, <2>2 DEF Machinery, FirstLaunch, Launches
  <2> QED
    BY <2>1, <2>2
<1>10. /\ disk' \in Machine
       /\ disk'.proof = disk.proof /\ disk'.runner = disk.runner
       /\ disk'.supervisor \in {disk.supervisor, "spawned"}
  BY <1>3 DEF TypeOK, Machine
<1>11. FileIsTrue' /\ SpawnedIsFirst'
  BY <1>9, <1>10 DEF Machinery, FileIsTrue, SpawnedIsFirst, ProvedStopped
<1>12. ReliedIsDead'
  BY <1>5, <1>7, <1>10 DEF Machinery, ReliedIsDead, Dead
<1> QED
  BY <1>4, <1>5, <1>7, <1>8, <1>10, <1>11, <1>12 DEF Machinery, NothingYet

MachineStep ==
  SupervisorStarts \/ RecordRunning \/ RunnerExits \/ StopRunner \/ FinishSupervision
    \/ OrphanRunner

(* Each part of the machine may go only these ways. *)
LEMMA MachineMoves ==
  ASSUME TypeOK, SpawnedIsFirst, FileIsTrue, MachineStep
  PROVE  /\ disk' \in Machine /\ UNCHANGED <<db, h>>
         /\ disk.supervisor # "none" \/ disk.runner = "alive"
         /\ Dead => Dead'
         /\ FileIsTrue' /\ SpawnedIsFirst'
<1>1. UNCHANGED <<db, h>>
  BY DEF MachineStep, SupervisorStarts, RecordRunning, RunnerExits, StopRunner,
         FinishSupervision, OrphanRunner
<1>2. CASE SupervisorStarts
  <2>1. CASE Prepared /\ disk' = [disk EXCEPT !.supervisor = "alive", !.runner = "alive"]
    BY <1>1, <1>2, <2>1 DEF TypeOK, Machine, SupervisorStarts, Prepared, Dead, FileIsTrue,
         SpawnedIsFirst, ProvedStopped
  <2>2. CASE Prepared /\ disk' = Gone("exited", "terminated")
    BY <1>1, <1>2, <2>2 DEF TypeOK, Machine, SupervisorStarts, Prepared, Gone, Dead,
         FileIsTrue, SpawnedIsFirst, ProvedStopped
  <2>3. CASE ~Prepared /\ disk' = Gone("refused", disk.proof)
    BY <1>1, <1>2, <2>3 DEF TypeOK, Machine, SupervisorStarts, Prepared, Gone, Dead,
         FileIsTrue, SpawnedIsFirst, ProvedStopped
  <2> QED
    BY <1>2, <2>1, <2>2, <2>3 DEF SupervisorStarts
<1>3. CASE RecordRunning
  BY <1>1, <1>3 DEF TypeOK, Machine, RecordRunning, Dead, FileIsTrue, SpawnedIsFirst, ProvedStopped
<1>4. CASE RunnerExits
  BY <1>1, <1>4 DEF TypeOK, Machine, RunnerExits, Dead, FileIsTrue, SpawnedIsFirst, ProvedStopped
<1>5. CASE StopRunner
  BY <1>1, <1>5 DEF TypeOK, Machine, StopRunner, Dead, FileIsTrue, SpawnedIsFirst, ProvedStopped
<1>6. CASE FinishSupervision
  BY <1>1, <1>6 DEF TypeOK, Machine, FinishSupervision, Gone, Dead, FileIsTrue,
       SpawnedIsFirst, ProvedStopped
<1>7. CASE OrphanRunner
  BY <1>1, <1>7 DEF TypeOK, Machine, OrphanRunner, Supervised, Gone, Dead, FileIsTrue,
       SpawnedIsFirst, ProvedStopped
<1> QED
  BY <1>2, <1>3, <1>4, <1>5, <1>6, <1>7 DEF MachineStep

LEMMA MachineKeeps ==
  ASSUME TypeOK, Machinery, MachineStep
  PROVE  disk' \in Machine /\ UNCHANGED <<db, h>> /\ Machinery'
<1>1. /\ disk' \in Machine /\ UNCHANGED <<db, h>>
      /\ disk.supervisor # "none" \/ disk.runner = "alive"
      /\ Dead => Dead'
      /\ FileIsTrue' /\ SpawnedIsFirst'
  BY MachineMoves DEF Machinery
<1>2. ~Unbegun /\ \A w \in Worker : ~Launches(h[w])
  BY <1>1 DEF Machinery, NothingYet, FirstLaunch
<1>3. Unbegun' = Unbegun /\ Relied' = Relied
  BY <1>1 DEF Unbegun, Relied
<1> QED
  BY <1>1, <1>2, <1>3
  DEF Machinery, OneStarter, NothingYet, FirstLaunch, Progress, ReliedIsDead
-------------------------------------------------------------------------------
(* Every step *)

LEMMA CountersTyped == TypeOK /\ Next => late' \in BOOLEAN /\ faults' \in 0 .. MaxFaults
<1> SUFFICES ASSUME TypeOK, Next PROVE late' \in BOOLEAN /\ faults' \in 0 .. MaxFaults
  OBVIOUS
<1>1. late' \in {late, TRUE} /\ (UNCHANGED faults \/ (faults < MaxFaults /\ faults' = faults + 1))
  <2>1. CASE \E w \in Worker : TurnStep(w)
    BY <2>1 DEF TurnStep, ClaimTurn, LoseLease, StartTurn, RecoverTurn, InspectRepository,
         PrepareSandbox, Authorize, CheckFails, Checkpoint, Launch, EventsBreak, HarvestRunner,
         StartGate, GateEnds, CommitResult, Unwind, SettleResult, SettleUnknown,
         RejectCandidate, AbandonCandidate, FailTurn, ReportUnknown, MarkUnknown, DropTurn,
         AwaitRunner
  <2>2. CASE \E w \in Worker : SideStep(w)
    BY <2>2 DEF SideStep, ClaimSideJob, VerifyCandidate, RecordVerdict, DeleteSandbox,
         DeleteProof, RecordCleaned, CloseSideJob
  <2>3. CASE \E w \in Worker : \/ SeeCancel(w) \/ SeeLostLease(w) \/ SeeDeadline(w)
                               \/ StopWorker(w) \/ Crash(w)
    BY <2>3 DEF SeeCancel, SeeLostLease, SeeDeadline, StopWorker, Crash
  <2>4. CASE \/ RunOutOfTime \/ SupervisorStep \/ RunnerExits \/ OrphanRunner \/ PersonStep
             \/ \E j \in Job : LeaseExpires(j) \/ LeaseLapses(j)
    BY <2>4 DEF RunOutOfTime, SupervisorStep, RunnerExits, OrphanRunner, PersonStep, LeaseExpires,
         LeaseLapses, SupervisorStarts, RecordRunning, StopRunner, FinishSupervision,
         CancelExecution, DenyCandidate, RequestVerification, Terminate, ApproveCandidate
  <2> QED
    BY <2>1, <2>2, <2>3, <2>4 DEF Next
<1>2. MaxFaults \in Nat /\ faults \in 0 .. MaxFaults
  BY DEF TypeOK
<1>3. faults' \in 0 .. MaxFaults
  BY <1>1, <1>2
<1> QED
  BY <1>1, <1>3 DEF TypeOK

LEMMA TurnStepCalm ==
  ASSUME TypeOK, Machinery, NEW w \in Worker, TurnStep(w)
  PROVE  Calm \/ StartTurn(w) \/ Checkpoint(w) \/ Launch(w)
<1>0. Progress
  BY DEF Machinery
<1>1. CASE ClaimTurn(w) \/ RecoverTurn(w) \/ InspectRepository(w) \/ PrepareSandbox(w)
             \/ Authorize(w) \/ CheckFails(w) \/ EventsBreak(w) \/ HarvestRunner(w)
             \/ StartGate(w) \/ GateEnds(w) \/ CommitResult(w) \/ Unwind(w)
  BY <1>0, <1>1, ClaimTurnCalm, RecoverTurnCalm, InspectCalm, PrepareCalm, AuthorizeCalm,
     CheckFailsCalm, EventsBreakCalm, HarvestCalm, StartGateCalm, GateEndsCalm, CommitCalm,
     UnwindCalm
<1>2. CASE LoseLease(w) \/ SettleResult(w) \/ AbandonCandidate(w) \/ ReportUnknown(w)
             \/ SettleUnknown(w) \/ RejectCandidate(w) \/ FailTurn(w) \/ MarkUnknown(w)
             \/ DropTurn(w) \/ AwaitRunner(w)
  BY <1>0, <1>2, EndCalm, SettleUnknownCalm, RejectCalm, FailTurnCalm, MarkUnknownCalm,
     DropTurnCalm, AwaitRunnerCalm
<1> QED
  BY <1>1, <1>2 DEF TurnStep

LEMMA TurnStepKeeps ==
  ASSUME TypeOK, Machinery, NEW w \in Worker, StartTurn(w) \/ Checkpoint(w) \/ Launch(w)
  PROVE  /\ db' \in Records /\ disk' \in Machine /\ h' \in [Worker -> Handler]
         /\ Machinery'
<1>1. CASE StartTurn(w)
  BY <1>1, StartTurnKeeps DEF StartTurn, TypeOK
<1>2. CASE Checkpoint(w)
  BY <1>2, CheckpointKeeps
<1>3. CASE Launch(w)
  BY <1>3, LaunchKeeps DEF Launch, TypeOK
<1> QED
  BY <1>1, <1>2, <1>3

LEMMA RestCalm ==
  ASSUME TypeOK, Machinery, Next, ~\E w \in Worker : TurnStep(w),
         ~(SupervisorStep \/ RunnerExits \/ OrphanRunner)
  PROVE  Calm
<1>0. Progress
  BY DEF Machinery
<1>1. CASE \E w \in Worker : SideStep(w)
  BY <1>0, <1>1, ClaimSideCalm, VerifyCalm, RecordVerdictCalm, DeleteSandboxCalm,
     DeleteProofCalm, RecordCleanedCalm, CloseSideCalm DEF SideStep
<1>2. CASE \E w \in Worker : \/ SeeCancel(w) \/ SeeLostLease(w) \/ SeeDeadline(w)
                             \/ StopWorker(w) \/ Crash(w)
  BY <1>0, <1>2, SignalCalm, CrashCalm
<1>3. CASE RunOutOfTime \/ \E j \in Job : LeaseExpires(j) \/ LeaseLapses(j)
  BY <1>3, TimeCalm, LeaseCalm
<1>4. CASE PersonStep
  BY <1>0, <1>4, PeopleCalm, TerminateCalm, RejectCalm DEF PersonStep
<1> QED
  BY <1>1, <1>2, <1>3, <1>4 DEF Next

LEMMA NextKeeps ==
  ASSUME TypeOK, Machinery, Next
  PROVE  TypeOK' /\ Machinery'
<1>1. \/ Calm
      \/ /\ db' \in Records /\ disk' \in Machine /\ h' \in [Worker -> Handler]
         /\ Machinery'
  <2>1. CASE \E w \in Worker : TurnStep(w)
    BY <2>1, TurnStepCalm, TurnStepKeeps
  <2>2. CASE SupervisorStep \/ RunnerExits \/ OrphanRunner
    <3>1. MachineStep
      BY <2>2 DEF SupervisorStep, MachineStep
    <3> QED
      BY <3>1, MachineKeeps DEF TypeOK
  <2>3. CASE /\ ~\E w \in Worker : TurnStep(w)
             /\ ~(SupervisorStep \/ RunnerExits \/ OrphanRunner)
    BY <2>3, RestCalm
  <2> QED
    BY <2>1, <2>2, <2>3
<1>2. db' \in Records /\ disk' \in Machine /\ h' \in [Worker -> Handler] /\ Machinery'
  BY <1>1, CalmKeeps, CalmTyped DEF Calm, CalmDb, CalmDisk
<1> QED
  BY <1>2, CountersTyped DEF TypeOK
-------------------------------------------------------------------------------
(* Results *)

(* A step that leaves the result as it is, and completes nothing. *)
SteadyDb ==
  /\ db'.result = db.result
  /\ db'.log = "queued" => db.log = "queued"
  /\ db'.job["turn"] \in {db.job["turn"], "done", "available"}
  /\ db'.exec = db.exec \/ db'.exec # "completed"

Joining == \A w \in Worker : Joins(h[w], h'[w])

Results ==
  /\ FirstResult' /\ CancelledInv'
  /\ db.result = "cancelled" => db'.result = "cancelled"

LEMMA CalmJoins == TypeOK /\ Calm => Joining
<1> SUFFICES ASSUME TypeOK, Calm PROVE Joining
  OBVIOUS
<1>1. CASE UNCHANGED h
  BY <1>1 DEF Joining, Joins
<1>2. CASE \E w \in Worker : CalmHandler(w)
  <2> PICK w \in Worker : CalmHandler(w)
    BY <1>2
  <2>1. PICK y : Becomes(w, y) /\ Joins(h[w], y)
    BY DEF CalmHandler, Onward
  <2>2. h'[w] = y /\ \A v \in Worker : v # w => h'[v] = h[v]
    BY <2>1, BecomesTyped
  <2> QED
    BY <2>1, <2>2 DEF Joining, Joins
<1> QED
  BY <1>1, <1>2 DEF Calm

LEMMA SteadyResults ==
  ASSUME FirstResult, CancelledInv, Joining, SteadyDb
  PROVE  Results
<1>1. \A w \in Worker : w \notin {"done", "available"}
  OBVIOUS
<1>2. FirstResult'
  BY <1>1 DEF FirstResult, Joining, Joins, SteadyDb, Holds
<1>3. CancelledInv'
  BY DEF CancelledInv, SteadyDb
<1> QED
  BY <1>2, <1>3 DEF Results, SteadyDb

(* Nobody who holds the lease is about to bring another result. *)
LEMMA LaterResults ==
  ASSUME FirstResult, Joining, db.result # "none", db'.log # "queued",
         db'.job["turn"] \in {db.job["turn"], "done"},
         db.result = "cancelled" => db'.result = "cancelled", CancelledInv'
  PROVE  Results
<1>1. \A w \in Worker : w # "done"
  OBVIOUS
<1>2. \A w \in Worker : ~(h'[w].pc \in Bringing /\ db'.job["turn"] = w)
  BY <1>1 DEF FirstResult, Joining, Joins, Holds
<1> QED
  BY <1>2 DEF Results, FirstResult, Holds

LEMMA EndTurnResults ==
  ASSUME TypeOK, FirstResult, CancelledInv, Joining, NEW w \in Worker,
         NEW status \in Ended, status = "completed" => db.result # "cancelled",
         status = "cancelled" => db.result = "cancelled", EndTurn(w, status)
  PROVE  Results
<1>1. CASE db.exec = "needs_reconciliation"
  BY <1>1, SteadyResults DEF EndTurn, SteadyDb
<1>2. CASE db.exec # "needs_reconciliation"
  <2> DEFINE final == IF db.exec = "cancelled" THEN "cancelled" ELSE status
  <2>1. db' = [db EXCEPT !.log = "ended", !.job["turn"] = "done",
                         !.exec = IF @ = "running" THEN final ELSE @,
                         !.result = IF final = "cancelled" /\ @ # "none" THEN final ELSE @]
    BY <1>2 DEF EndTurn
  <2>2. /\ db'.log = "ended" /\ db'.job["turn"] = "done"
        /\ db'.exec = IF db.exec = "running" THEN final ELSE db.exec
        /\ db'.result = IF final = "cancelled" /\ db.result # "none" THEN final ELSE db.result
    <3> HIDE DEF final
    <3> QED
      BY <2>1 DEF TypeOK, Records, Job
  <2>3. CancelledInv'
    BY <2>2 DEF CancelledInv
  <2>4. CASE db.result = "none"
    <3>1. db'.result = "none"
      BY <2>2, <2>4
    <3> QED
      BY <2>2, <2>3, <2>4, <3>1 DEF Results, FirstResult
  <2>5. CASE db.result # "none"
    BY <2>2, <2>3, <2>5, LaterResults
  <2> QED
    BY <2>4, <2>5
<1> QED
  BY <1>1, <1>2

LEMMA ClaimTurnResults ==
  ASSUME TypeOK, FirstResult, CancelledInv, Joining, NEW w \in Worker, ClaimTurn(w)
  PROVE  Results
<1>1. CASE db' = [db EXCEPT !.job["turn"] = "done"]
  <2>1. SteadyDb
    BY <1>1 DEF SteadyDb, TypeOK, Records, Job
  <2> QED
    BY <2>1, SteadyResults
<1>2. CASE db' = [db EXCEPT !.exec = "running", !.job["turn"] = w] /\ Go(w, "open")
  <2>1. PICK y : Becomes(w, y) /\ y.pc = "open"
    BY <1>2, GoBecomes DEF Place
  <2>2. h'[w].pc \notin Bringing
    BY <2>1, BecomesTyped DEF Bringing, Path
  <2>3. /\ db'.result = db.result /\ db'.log = db.log /\ db'.job["turn"] = w
        /\ db'.exec = "running"
    BY <1>2 DEF TypeOK, Records, Job
  <2> QED
    BY <2>2, <2>3 DEF Results, FirstResult, CancelledInv, Joining, Joins, Holds
<1> QED
  BY <1>1, <1>2 DEF ClaimTurn

LEMMA PersistedResult ==
  ASSUME TypeOK, db.result = "none", NEW result \in Outcome, NEW stopped \in BOOLEAN,
         Accepts(result, stopped)
  PROVE  LET p == Persisted(result, stopped) IN
         /\ p.log = db.log /\ p.job["turn"] = db.job["turn"]
         /\ p.result = "cancelled" => p.exec # "completed"
<1> DEFINE exec == IF /\ db.exec = "needs_reconciliation" /\ result = "cancelled"
                      /\ db.cancel /\ db.phase = "started" /\ stopped /\ db.unsettled = {}
                   THEN "cancelled" ELSE db.exec
           final == CASE exec = "cancelled" -> "cancelled"
                      [] exec = "needs_reconciliation" /\ result = "cancelled" -> "needs_reconciliation"
                      [] OTHER -> result
           invoked == db.phase = "started"
           phase == CASE ~invoked -> db.phase
                      [] final = "needs_reconciliation" -> "outcome_unknown"
                      [] OTHER -> "settled"
           clean == invoked /\ stopped /\ final # "needs_reconciliation"
           new == [db EXCEPT !.exec = exec, !.result = final, !.phase = phase,
                             !.stopped = invoked /\ stopped,
                             !.cleanup = IF clean THEN "pending" ELSE @,
                             !.job["cleanup"] = IF clean THEN "available" ELSE @]
<1>1. Persisted(result, stopped) = new /\ (final = "cancelled" => exec = "cancelled")
  BY DEF Persisted, ExecutionAfter, ResultAfter, Accepts
<1>2. /\ new.log = db.log /\ new.job["turn"] = db.job["turn"]
      /\ new.result = final /\ new.exec = exec
  <2> HIDE DEF exec, final, phase, invoked, clean
  <2> QED
    BY DEF TypeOK, Records, Job
<1> QED
  <2> HIDE DEF new, exec, final, phase, clean
  <2> QED
    BY <1>1, <1>2

(* The one step that brings a result, and the recovery that does so in its place. *)
LEMMA FirstResults ==
  ASSUME TypeOK, FirstResult, CancelledInv, Joining, NEW w \in Worker, NEW result \in Outcome,
         NEW stopped \in BOOLEAN, h[w].pc \in Bringing, db.log # "queued", Holds(w, "turn"),
         h'[w].pc \notin Bringing, Accepts(result, stopped), db' = Persisted(result, stopped)
  PROVE  Results
<1>1. db.result = "none"
  BY DEF FirstResult
<1>2. /\ db'.log = db.log /\ db'.job["turn"] = w
      /\ db'.result = "cancelled" => db'.exec # "completed"
  BY <1>1, PersistedResult DEF Holds
<1> QED
  BY <1>1, <1>2 DEF Results, FirstResult, CancelledInv, Holds

LEMMA CommitResults ==
  ASSUME TypeOK, Machinery, FirstResult, CancelledInv, Joining, NEW w \in Worker, CommitResult(w)
  PROVE  Results
<1>1. CASE db' = db
  BY <1>1, SteadyResults DEF SteadyDb
<1>2. CASE db' # db
  <2> DEFINE result == IF h[w].abort = "user" /\ h[w].stopped THEN "cancelled" ELSE h[w].outcome
  <2>1. result \in Outcome /\ h[w].stopped \in BOOLEAN
    <3>1. h[w].outcome \in Outcome /\ h[w].stopped \in BOOLEAN /\ "cancelled" \in Outcome
      BY DEF TypeOK, Handler, Outcome, Ended
    <3> QED
      BY <3>1
  <2>2. /\ db' = Persisted(result, h[w].stopped) /\ Holds(w, "turn")
        /\ Accepts(result, h[w].stopped)
    BY <1>2 DEF CommitResult
  <2>3. h[w].pc = "commit" /\ h[w].pc \in Bringing /\ db.log # "queued"
    BY NobodyElse DEF CommitResult, At, Bringing, Path
  <2>4. \E next \in {"settle", "fail"}, keep \in BOOLEAN :
           h' = [h EXCEPT ![w].pc = "unwind", ![w].next = next, ![w].keep = keep]
    BY DEF CommitResult
  <2>5. h'[w].pc \notin Bringing
    BY <2>4 DEF TypeOK, Handler, Bringing, Path
  <2> HIDE DEF result
  <2> QED
    BY <2>1, <2>2, <2>3, <2>5, FirstResults
<1> QED
  BY <1>1, <1>2

LEMMA AwaitResults ==
  ASSUME TypeOK, FirstResult, CancelledInv, Joining, NEW w \in Worker, AwaitRunner(w)
  PROVE  Results
<1>1. /\ h[w].pc = "await" /\ h[w].pc \in Bringing /\ Holds(w, "turn") /\ db.log # "queued"
  BY DEF AwaitRunner, At, Bringing, FirstResult
<1>2. PICK pc \in {"fail", "unknown"} : Go(w, pc)
  BY DEF AwaitRunner
<1>3. h'[w].pc \notin Bringing
  <2>1. PICK y : Becomes(w, y) /\ y.pc = pc
    BY <1>2, GoBecomes DEF Place
  <2> QED
    BY <2>1, BecomesTyped DEF Bringing, Path
<1>4. \/ db' = db
      \/ \E stopped \in BOOLEAN : /\ Accepts("needs_reconciliation", stopped)
                                 /\ db' = Persisted("needs_reconciliation", stopped)
  BY DEF AwaitRunner, ProvedStopped
<1>5. CASE db' = db
  BY <1>5, SteadyResults DEF SteadyDb
<1> QED
  BY <1>1, <1>3, <1>4, <1>5, FirstResults DEF Outcome

(* What a person decides comes after a result. *)
LEMMA DecisionResults ==
  ASSUME TypeOK, FirstResult, CancelledInv, Joining,
         \/ \E w \in Worker : ApproveCandidate(w) \/ RejectCandidate(w) \/ RecordVerdict(w)
         \/ \E newCall \in BOOLEAN : Terminate(newCall)
  PROVE  Results
<1>1. CASE db'.result = db.result
  <2>1. CASE \E w \in Worker : RecordVerdict(w)
    <3>1. db' \in {db, [db EXCEPT !.verification = "failed"]}
      BY <1>1, <2>1 DEF RecordVerdict, MayRecordVerdict, MayDecide, TypeOK, Records
    <3>2. SteadyDb
      BY <3>1 DEF SteadyDb, TypeOK, Records
    <3> QED
      BY <3>2, SteadyResults
  <2>2. CASE ~\E w \in Worker : RecordVerdict(w)
    <3>1. FALSE
      BY <1>1, <2>2 DEF ApproveCandidate, RejectCandidate, AwaitsDecision, Terminate, MayDecide,
         TypeOK, Records
    <3> QED
      BY <3>1
  <2> QED
    BY <2>1, <2>2
<1>2. CASE db'.result # db.result
  <2>1. /\ db.result \in {"waiting_approval", "needs_reconciliation"}
        /\ db'.log = db.log /\ db'.job["turn"] = db.job["turn"]
        /\ db'.result = "cancelled" => db'.exec # "completed"
    <3>1. CASE \E w \in Worker : ApproveCandidate(w) \/ RejectCandidate(w)
      BY <3>1 DEF ApproveCandidate, RejectCandidate, AwaitsDecision, TypeOK, Records
    <3>2. CASE \E w \in Worker : RecordVerdict(w)
      BY <1>2, <3>2 DEF RecordVerdict, MayRecordVerdict, MayDecide, TypeOK, Records, Job
    <3>3. CASE \E newCall \in BOOLEAN : Terminate(newCall)
      <4> PICK newCall \in BOOLEAN : Terminate(newCall)
        BY <3>3
      <4> DEFINE v == IF db.verification = "pending" THEN "failed" ELSE db.verification
                 s == IF db.verification = "pending" THEN "done" ELSE db.job["verify"]
                 job == [db.job EXCEPT !["cleanup"] = "available", !["verify"] = s]
      <4>1. db' = [db EXCEPT !.exec = "cancelled", !.result = "cancelled", !.phase = "settled",
                      !.cleanup = "pending", !.replaced = newCall, !.verification = v, !.job = job]
        BY DEF Terminate, TypeOK, Records, Job
      <4>2. job["turn"] = db.job["turn"] /\ db.result = "needs_reconciliation"
        BY DEF TypeOK, Records, Job, Terminate, MayDecide
      <4> HIDE DEF v, s, job
      <4> QED
        BY <4>1, <4>2 DEF TypeOK, Records
    <3> QED
      BY <3>1, <3>2, <3>3
  <2> QED
    BY <2>1, LaterResults DEF FirstResult, CancelledInv
<1> QED
  BY <1>1, <1>2

(* Every other step of a handler is steady, or ends the turn. *)
LEMMA TurnSteady ==
  ASSUME TypeOK, NEW w \in Worker,
         \/ LoseLease(w) \/ StartTurn(w) \/ InspectRepository(w) \/ PrepareSandbox(w)
         \/ Authorize(w) \/ CheckFails(w) \/ Checkpoint(w) \/ Launch(w) \/ EventsBreak(w)
         \/ HarvestRunner(w) \/ StartGate(w) \/ GateEnds(w) \/ Unwind(w)
  PROVE  SteadyDb
<1>1. CASE UNCHANGED db
  BY <1>1 DEF SteadyDb
<1>2. CASE StartTurn(w)
  BY <1>2 DEF StartTurn, SteadyDb, TypeOK, Records
<1>3. CASE InspectRepository(w) \/ StartGate(w) \/ GateEnds(w)
  <2>1. db' \in {db, [db EXCEPT !.unsettled = db.unsettled \cup {"inspect"}],
                 [db EXCEPT !.unsettled = db.unsettled \cup {"gate"}],
                 [db EXCEPT !.unsettled = db.unsettled \ {"gate"}]}
    BY <1>3 DEF InspectRepository, StartGate, GateEnds
  <2> QED
    BY <2>1 DEF SteadyDb, TypeOK, Records
<1>4. CASE PrepareSandbox(w) \/ Authorize(w) \/ Checkpoint(w) \/ HarvestRunner(w)
  <2>1. db' \in {db, [db EXCEPT !.unsettled = db.unsettled \ {"inspect"}, !.phase = "running"],
                 [db EXCEPT !.unsettled = db.unsettled \cup {"runner"}],
                 [db EXCEPT !.unsettled = db.unsettled \ {"runner"}],
                 [db EXCEPT !.exec = "failed"],
                 [db EXCEPT !.phase = "started", !.stopped = FALSE]}
    BY <1>4 DEF PrepareSandbox, Authorize, Checkpoint, HarvestRunner
  <2> QED
    BY <2>1 DEF SteadyDb, TypeOK, Records
<1>5. CASE LoseLease(w) \/ CheckFails(w) \/ Launch(w) \/ EventsBreak(w) \/ Unwind(w)
  <2>1. UNCHANGED db
    BY <1>5 DEF LoseLease, CheckFails, Launch, EventsBreak, Unwind
  <2> QED
    BY <1>1, <2>1
<1> QED
  BY <1>2, <1>3, <1>4, <1>5

LEMMA EndSteady ==
  ASSUME TypeOK, NEW w \in Worker,
         \/ SettleUnknown(w) \/ AbandonCandidate(w) \/ ReportUnknown(w) \/ MarkUnknown(w)
         \/ DropTurn(w)
  PROVE  SteadyDb
<1>1. CASE UNCHANGED db
  BY <1>1 DEF SteadyDb
<1>2. CASE SettleUnknown(w)
  BY <1>2 DEF SettleUnknown, SteadyDb, TypeOK, Records
<1>3. CASE MarkUnknown(w)
  BY <1>3 DEF MarkUnknown, SteadyDb, TypeOK, Records, Job
<1>4. CASE DropTurn(w) /\ db' # db
  <2>1. PICK stop \in BOOLEAN :
          db' = [db EXCEPT !.job["turn"] = "done", !.exec = Dropped(stop)]
    BY <1>4 DEF DropTurn
  <2>2. Dropped(stop) = db.exec \/ Dropped(stop) # "completed"
    BY DEF Dropped
  <2> HIDE DEF Dropped
  <2>3. /\ db'.result = db.result /\ db'.log = db.log /\ db'.job["turn"] = "done"
        /\ db'.exec = Dropped(stop)
    BY <2>1 DEF TypeOK, Records, Job
  <2> QED
    BY <2>2, <2>3 DEF SteadyDb
<1> QED
  BY <1>1, <1>2, <1>3, <1>4 DEF AbandonCandidate, ReportUnknown

LEMMA SideSteady ==
  ASSUME TypeOK, NEW w \in Worker,
         \/ \E j \in Job : ClaimSideJob(w, j)
         \/ VerifyCandidate(w) \/ DeleteSandbox(w) \/ DeleteProof(w) \/ RecordCleaned(w)
         \/ CloseSideJob(w)
  PROVE  SteadyDb
<1>1. CASE UNCHANGED db
  BY <1>1 DEF SteadyDb
<1>2. CASE \E j \in Job : ClaimSideJob(w, j)
  BY <1>2 DEF ClaimSideJob, SteadyDb, TypeOK, Records, Job
<1>3. CASE RecordCleaned(w)
  BY <1>3 DEF RecordCleaned, SteadyDb, TypeOK, Records
<1>4. CASE CloseSideJob(w)
  BY <1>4 DEF CloseSideJob, SteadyDb, TypeOK, Records, Job
<1> QED
  BY <1>1, <1>2, <1>3, <1>4 DEF VerifyCandidate, DeleteSandbox, DeleteProof

(* What a handler learns, what a person asks for, and time, change no result. *)
LEMMA OtherSteady ==
  ASSUME TypeOK,
         \/ \E w \in Worker : \/ SeeCancel(w) \/ SeeLostLease(w) \/ SeeDeadline(w)
                              \/ StopWorker(w) \/ Crash(w)
         \/ RunOutOfTime
         \/ CancelExecution \/ DenyCandidate \/ RequestVerification
         \/ \E j \in Job : LeaseExpires(j) \/ LeaseLapses(j)
  PROVE  SteadyDb
<1>1. CASE UNCHANGED db
  BY <1>1 DEF SteadyDb
<1>2. CASE CancelExecution
  <2>1. PICK exec \in {"needs_reconciliation", "cancelled"} :
          db' = [db EXCEPT !.cancel = TRUE, !.exec = exec]
    BY <1>2 DEF CancelExecution
  <2> QED
    BY <2>1 DEF SteadyDb, TypeOK, Records
<1>3. CASE DenyCandidate
  BY <1>3 DEF DenyCandidate, SteadyDb, TypeOK, Records
<1>4. CASE RequestVerification
  BY <1>4 DEF RequestVerification, SteadyDb, TypeOK, Records, Job
<1>5. CASE \E j \in Job : LeaseExpires(j) \/ LeaseLapses(j)
  BY <1>5 DEF LeaseExpires, LeaseLapses, SteadyDb, TypeOK, Records, Job
<1> QED
  BY <1>1, <1>2, <1>3, <1>4, <1>5
  DEF SeeCancel, SeeLostLease, SeeDeadline, StopWorker, Crash, RunOutOfTime

(* The steps that are not calm bring nobody nearer to a result who was not near. *)
LEMMA UncalmJoins ==
  ASSUME TypeOK, FirstResult, NEW w \in Worker, StartTurn(w) \/ Checkpoint(w) \/ Launch(w)
  PROVE  Joining
<1>1. CASE StartTurn(w)
  <2>1. PICK y : Becomes(w, y) /\ y.pc \in {"inspect", "fail"}
    BY <1>1, GoBecomes DEF StartTurn, Place
  <2>2. db.result = "none"
    BY <1>1 DEF StartTurn, FirstResult
  <2> QED
    BY <2>1, <2>2, BecomesTyped DEF Joining, Joins
<1>2. CASE Checkpoint(w) \/ Launch(w)
  <2>1. h[w].pc \in {"check", "launch"} /\ h[w].pc \in Bringing
    BY <1>2 DEF Checkpoint, Launch, At, Bringing, Path
  <2>2. /\ h'[w].pc # "await"
        /\ \A v \in Worker : v # w => h'[v] = h[v]
    BY <1>2 DEF Checkpoint, Launch, Conclude, TypeOK, Handler
  <2> QED
    BY <2>1, <2>2 DEF Joining, Joins
<1> QED
  BY <1>1, <1>2

LEMMA TurnResults ==
  ASSUME TypeOK, Machinery, FirstResult, CancelledInv, NEW w \in Worker, TurnStep(w)
  PROVE  Results
<1>0. Joining
  <2>1. Calm \/ StartTurn(w) \/ Checkpoint(w) \/ Launch(w)
    BY TurnStepCalm
  <2> QED
    BY <2>1, CalmJoins, UncalmJoins
<1>1. CASE ClaimTurn(w)
  BY <1>0, <1>1, ClaimTurnResults
<1>2. CASE RecoverTurn(w)
  <2>1. CASE EndTurn(w, "paused")
    BY <1>0, <2>1, EndTurnResults DEF Ended
  <2>2. CASE db' \in {db, [db EXCEPT !.log = "interrupted"]}
    <3>1. SteadyDb
      BY <2>2 DEF SteadyDb, TypeOK, Records
    <3> QED
      BY <1>0, <3>1, SteadyResults
  <2> QED
    BY <1>2, <2>1, <2>2 DEF RecoverTurn
<1>3. CASE CommitResult(w)
  BY <1>0, <1>3, CommitResults
<1>4. CASE SettleResult(w)
  <2>1. PICK status \in Ended : EndTurn(w, status) /\ status \in {"paused", db.result}
    BY <1>4 DEF SettleResult, Ended
  <2> QED
    BY <1>0, <2>1, EndTurnResults
<1>5. CASE FailTurn(w)
  <2>1. CASE db' = [db EXCEPT !.log = "interrupted"]
    <3>1. SteadyDb
      BY <2>1 DEF SteadyDb, TypeOK, Records
    <3> QED
      BY <1>0, <3>1, SteadyResults
  <2>2. CASE \E status \in {"paused", "failed"} : EndTurn(w, status)
    BY <1>0, <2>2, EndTurnResults DEF Ended
  <2> QED
    BY <1>5, <2>1, <2>2 DEF FailTurn
<1>6. CASE RejectCandidate(w)
  BY <1>0, <1>6, DecisionResults
<1>7. CASE AwaitRunner(w)
  BY <1>0, <1>7, AwaitResults
<1>8. CASE LoseLease(w) \/ StartTurn(w) \/ InspectRepository(w) \/ PrepareSandbox(w)
             \/ Authorize(w) \/ CheckFails(w) \/ Checkpoint(w) \/ Launch(w) \/ EventsBreak(w)
             \/ HarvestRunner(w) \/ StartGate(w) \/ GateEnds(w) \/ Unwind(w)
  BY <1>0, <1>8, TurnSteady, SteadyResults
<1>9. CASE SettleUnknown(w) \/ AbandonCandidate(w) \/ ReportUnknown(w) \/ MarkUnknown(w)
             \/ DropTurn(w)
  BY <1>0, <1>9, EndSteady, SteadyResults
<1> QED
  BY <1>1, <1>2, <1>3, <1>4, <1>5, <1>6, <1>7, <1>8, <1>9 DEF TurnStep

LEMMA NextResults ==
  ASSUME TypeOK, Machinery, FirstResult, CancelledInv, Next
  PROVE  Results
<1>1. CASE \E w \in Worker : TurnStep(w)
  BY <1>1, TurnResults
<1>2. CASE SupervisorStep \/ RunnerExits \/ OrphanRunner
  <2>1. MachineStep
    BY <1>2 DEF SupervisorStep, MachineStep
  <2>2. UNCHANGED <<db, h>>
    BY <2>1, MachineKeeps
  <2> QED
    BY <2>2 DEF Results, FirstResult, CancelledInv, Holds
<1>3. CASE ~(\E w \in Worker : TurnStep(w)) /\ ~(SupervisorStep \/ RunnerExits \/ OrphanRunner)
  <2>1. Joining
    BY <1>3, RestCalm, CalmJoins
  <2>2. CASE SteadyDb
    BY <2>1, <2>2, SteadyResults
  <2>3. CASE \/ \E w \in Worker : ApproveCandidate(w) \/ RecordVerdict(w)
             \/ \E newCall \in BOOLEAN : Terminate(newCall)
    BY <2>1, <2>3, DecisionResults
  <2>4. CASE ~SteadyDb /\ \E w \in Worker : SideStep(w)
    BY <2>3, <2>4, SideSteady DEF SideStep
  <2> QED
    BY <1>3, <2>2, <2>3, <2>4, OtherSteady DEF Next, PersonStep
<1> QED
  BY <1>1, <1>2, <1>3
-------------------------------------------------------------------------------
(* The invariant *)

LEMMA InitIInv == Init => IInv
<1> SUFFICES ASSUME Init PROVE IInv
  OBVIOUS
<1>1. \A w \in Worker : h[w] = Fresh
  BY DEF Init
<1>2. /\ db.log = "queued" /\ db.result = "none" /\ ~db.stopped /\ ~db.replaced
      /\ disk.proof = "absent" /\ disk.supervisor = "none" /\ disk.runner = "absent"
  BY DEF Init
<1>3. /\ Fresh.pc = "idle" /\ ~Fresh.checkpoint /\ ~Fresh.launched /\ ~Fresh.stopped
  BY DEF Fresh
<1>4. Machinery
  BY <1>1, <1>2, <1>3 DEF Machinery, OneStarter, NothingYet, FirstLaunch, Progress, Sound,
     FileIsTrue, SpawnedIsFirst, ReliedIsDead, Relied, Counts, Path, Launches, ProvedStopped
<1>5. FirstResult /\ CancelledInv
  BY <1>1, <1>2, <1>3 DEF FirstResult, CancelledInv, Bringing, Path
<1> QED
  BY <1>4, <1>5, TypeInit DEF IInv

LEMMA NextIInv == IInv /\ [Next]_vars => IInv'
<1> SUFFICES ASSUME IInv, [Next]_vars PROVE IInv'
  OBVIOUS
<1>1. CASE Next
  BY <1>1, NextKeeps, NextResults DEF IInv, Results
<1>2. CASE UNCHANGED vars
  <2>1. UNCHANGED <<db, disk, h, late, faults>>
    BY <1>2 DEF vars
  <2>2. TypeOK'
    BY <2>1 DEF IInv, TypeOK
  <2>3. Machinery'
    BY <2>1 DEF IInv, Machinery, OneStarter, NothingYet, FirstLaunch, Progress, FileIsTrue,
       SpawnedIsFirst, ReliedIsDead, Relied, Dead, Unbegun, ProvedStopped
  <2>4. FirstResult' /\ CancelledInv'
    BY <2>1 DEF IInv, FirstResult, CancelledInv, Holds
  <2> QED
    BY <2>2, <2>3, <2>4 DEF IInv
<1> QED
  BY <1>1, <1>2

LEMMA Invariance == Spec => []IInv
<1> QED
  BY InitIInv, NextIInv, PTL DEF Spec

(* The records, the files and what the handlers remember have their types, whatever is
   recovered, replaced and cut off (coding.ts, runner-supervisor.ts). *)
THEOREM TypeCorrect == Spec => []TypeOK
<1>1. IInv => TypeOK
  BY DEF IInv
<1> QED
  BY <1>1, Invariance, PTL

(* Whoever relies on the end of the Runner is right for good: the record "confirmed", the
   call that takes this one's place, the check of the candidate and the deletion of the
   proof all come when no Runner is alive and none can be started any more
   (confirmRunnerStopped, decideCodingReconciliation, deleteTerminatedSupervisionState). *)
THEOREM ConfirmationHolds == Spec => []ConfirmedIsStopped
<1>1. IInv => ConfirmedIsStopped
  BY DEF IInv, Machinery, ReliedIsDead, Relied, Counts, Dead, ConfirmedIsStopped, RunnerAlive
<1> QED
  BY <1>1, Invariance, PTL

(* A cancelled result is final: no verdict, no late handler and no recovery replaces it,
   and none completes its Execution (terminate, persistCodingResult,
   persistReconciliationVerification, finalizeCodingRuntime). *)
THEOREM CancellationStands == Spec => CancelledStands
<1>1. IInv /\ [Next]_vars
        => [db.result = "cancelled" => db'.result = "cancelled" /\ db'.exec # "completed"]_vars
  <2> SUFFICES ASSUME IInv, Next, db.result = "cancelled"
               PROVE  db'.result = "cancelled" /\ db'.exec # "completed"
    OBVIOUS
  <2>1. Results
    BY NextResults DEF IInv
  <2> QED
    BY <2>1 DEF Results, CancelledInv
<1> QED
  BY <1>1, Invariance, PTL DEF Spec, CancelledStands
-------------------------------------------------------------------------------
(* Nothing is left at work *)

(* A Runner is at work, or may yet be started. *)
MayRun ==
  \/ disk.runner = "alive"
  \/ disk.supervisor = "spawned" /\ disk.proof = "prepared"
  \/ \E w \in Worker : Launches(h[w])

Closed == {"completed", "failed", "cancelled"}

(* While that is so its files are there, its call is unsettled, for which a cancellation
   asks, and no result but an unknown one is on record. *)
Guarded ==
  /\ MayRun => /\ disk.sandbox /\ "runner" \in db.unsettled
               /\ \/ db.result = "none" /\ db.phase = "started"
                  \/ db.result = "needs_reconciliation"
               /\ db.exec \in Closed => faults > 2 /\ db.log = "interrupted"
  /\ db.cancel => db.exec \notin {"queued", "running"}
  /\ db.log # "queued" \/ db.job["turn"] \in Worker => db.exec # "queued"

(* What it takes that the Execution of such a Runner goes on without the handler that
   launched it: one fault to lose that; a second to stop the one that awaits the Runner,
   which writes "interrupted"; a third to lose that one before the job is settled. *)
Carried == \E w \in Worker : Holds(w, "turn") /\ h[w].pc \in Path
Drops(x) == x.pc = "drop" /\ x.abort = "stop"
Dropping == \E w \in Worker : Holds(w, "turn") /\ Drops(h[w])
Costly ==
  MayRun /\ db.exec = "running" =>
    /\ db.log = "running" /\ db.result = "none" => Carried \/ faults > 0
    /\ db.log = "interrupted" => faults > 2 \/ (faults > 1 /\ Dropping)

(* What a handler knows, with its lease or without. *)
Heeds(x) ==
  /\ x.abort = "user" => db.cancel
  /\ x.abort = "late" => late
  /\ x.pc \in {"idle", "open"} => x.abort = "none"
  /\ x.pc \in Path /\ ~x.launched => disk.supervisor = "none" /\ disk.runner = "absent"
  /\ Launches(x) => disk.proof = "prepared"
  /\ x.pc \in {"authorize", "check"} /\ ~x.checkpoint => disk.sandbox
  /\ x.pc = "check" /\ ~x.checkpoint => "runner" \in db.unsettled
  /\ x.pc = "commit" /\ MayRun => x.outcome = "needs_reconciliation"

(* What the handler that holds the turn knows: while it works the log says "running", it
   fails or drops over a Runner that may be at work only an Execution that is not running,
   or that a stop or the end of the time has its own way with. *)
Working == Bringing \cup {"unwind", "settle", "unknown", "fail"}
Minds(x) ==
  /\ x.pc \in Working => db.log = "running"
  /\ x.pc = "drop" => db.exec # "running" \/ x.abort = "stop" \/ db.log = "interrupted"
  /\ x.pc = "check" /\ ~x.checkpoint => db.exec \notin Closed
  /\ x.pc = "unwind" /\ MayRun => IF x.next = "settle" THEN x.keep /\ db.result # "none"
                                   ELSE db.exec # "running"
  /\ x.pc = "await" /\ MayRun /\ x.abort = "stop" => db.exec # "running" \/ faults > 1
  /\ x.pc = "fail" /\ MayRun => \/ db.exec # "running" \/ x.abort = "late"
                                \/ x.abort = "stop" /\ faults > 1

Attends(w) == Heeds(h[w]) /\ (Holds(w, "turn") => Minds(h[w]))
Attended == \A w \in Worker : Attends(w)

Ready == TypeOK /\ Machinery /\ FirstResult /\ Guarded /\ Costly /\ Attended

(* Where no Runner can be at work. *)
LEMMA RelianceIsCold ==
  ASSUME Ready, Known
  PROVE  ~MayRun /\ ~Unbegun
<1>1. ProvedStopped => Dead /\ ~Unbegun
  BY DEF Ready, Machinery, FileIsTrue, NothingYet, ProvedStopped, Dead
<1>2. Dead /\ ~Unbegun
  BY <1>1 DEF Known, Ready, Machinery, ReliedIsDead
<1>3. \A w \in Worker : ~Launches(h[w])
  BY <1>2 DEF Ready, Attended, Attends, Heeds, Dead
<1> QED
  BY <1>2, <1>3 DEF MayRun, Dead

LEMMA BeginningIsCold ==
  ASSUME Ready, Unbegun
  PROVE  ~MayRun /\ ~Known
<1>1. disk.proof = "absent" /\ disk.supervisor = "none" /\ disk.runner = "absent"
  BY DEF Ready, Machinery, NothingYet
<1>2. \A w \in Worker : ~Launches(h[w])
  BY <1>1 DEF Ready, Attended, Attends, Heeds
<1> QED
  BY <1>1, <1>2, RelianceIsCold DEF MayRun

LEMMA ColdPlaces ==
  ASSUME Ready, NEW w \in Worker,
         \/ h[w].pc \in {"inspect", "snapshot", "authorize", "check", "judge", "gate"}
         \/ h[w].stopped
  PROVE  ~MayRun
<1>1. Waits(h[w]) \/ Counts(h[w])
  BY DEF Ready, Machinery, Progress, Sound, Waits, Early, Counts
<1> QED
  BY <1>1, RelianceIsCold, BeginningIsCold DEF Unbegun, Known, Relied

(* A handler that is on its way and has not launched is alone with that. *)
LEMMA UnlaunchedIsCold ==
  ASSUME Ready, NEW w \in Worker, h[w].pc \in Path, ~h[w].launched, ~Launches(h[w])
  PROVE  ~MayRun
<1>1. disk.supervisor = "none" /\ disk.runner = "absent"
  BY DEF Ready, Attended, Attends, Heeds
<1>2. \A v \in Worker : ~Launches(h[v])
  BY NobodyElse DEF Ready, Launches, Path
<1> QED
  BY <1>1, <1>2 DEF MayRun

LEMMA CalmIsColder == Ready /\ Calm /\ MayRun' => MayRun
<1> SUFFICES ASSUME Ready, Calm, MayRun' PROVE MayRun
  OBVIOUS
<1>1. CASE \E w \in Worker : Launches(h'[w])
  <2>1. \E w \in Worker : Launches(h[w])
    BY <1>1, BecomesTyped DEF Calm, CalmHandler, Onward, Ready
  <2> QED
    BY <2>1 DEF MayRun
<1>2. CASE ~\E w \in Worker : Launches(h'[w])
  BY <1>2 DEF MayRun, Calm, CalmDisk
<1> QED
  BY <1>1, <1>2
-------------------------------------------------------------------------------
(* Handlers that a step is not about *)

(* The files and the call stay, or the step is one of a handler on its way, or of one that
   counts on the end of the Runner, and nothing is at work. *)
FilesStay ==
  disk'.sandbox = disk.sandbox /\ disk'.proof = disk.proof
    /\ ("runner" \in db.unsettled => "runner" \in db'.unsettled)
Alone(w) == ~MayRun /\ (h[w].pc \in Path \/ ~Unbegun)

(* The holder of the turn, if it is another one, sees nothing of it. *)
Undisturbed(v) ==
  Holds(v, "turn")' =>
    /\ Holds(v, "turn") /\ db'.log = db.log
    /\ db.result # "none" => db'.result # "none"
    /\ db'.exec = "running" => db.exec = "running"
    /\ h[v].pc = "check" /\ ~h[v].checkpoint /\ db'.exec \in Closed => db.exec \in Closed

(* Time and faults only add up. *)
Clocks == late' \in {late, TRUE} /\ faults' \in {faults, faults + 1}

LEMMA ClocksGrow ==
  ASSUME Ready, Clocks
  PROVE  /\ faults \in Nat /\ faults' \in Nat
         /\ faults > 0 => faults' > 0
         /\ faults > 1 => faults' > 1
         /\ faults > 2 => faults' > 2
         /\ late => late'
         /\ faults' > faults => faults' > 0
         /\ faults' > faults /\ faults > 1 => faults' > 2
<1>1. faults \in Nat
  <2>1. faults \in 0 .. MaxFaults /\ MaxFaults \in Nat
    BY DEF Ready, TypeOK
  <2> QED
    BY <2>1
<1>2. late' \in {late, TRUE} /\ (faults' = faults \/ faults' = faults + 1)
  BY DEF Clocks
<1>3. late => late'
  BY <1>2
<1> QED
  BY <1>1, <1>2, <1>3

Spared(v) ==
  /\ h[v].pc \in Path /\ ~h[v].launched
       => disk'.supervisor = disk.supervisor /\ disk'.runner = disk.runner
  /\ Launches(h[v]) => disk'.proof = disk.proof
  /\ h[v].pc \in {"authorize", "check"} /\ ~h[v].checkpoint
       => /\ disk.sandbox => disk'.sandbox
          /\ "runner" \in db.unsettled => "runner" \in db'.unsettled

LEMMA OthersAttend ==
  ASSUME Ready, NEW v \in Worker, h'[v] = h[v], Clocks,
         db.cancel => db'.cancel, MayRun' => MayRun, Spared(v), Undisturbed(v)
  PROVE  Attends(v)'
<1>1. Heeds(h[v]) /\ (Holds(v, "turn") => Minds(h[v]))
  BY DEF Ready, Attended, Attends
<1>2. Heeds(h[v])'
  BY <1>1, ClocksGrow DEF Heeds, Spared, Launches
<1>3. Holds(v, "turn")' => Minds(h[v])'
  BY <1>1, ClocksGrow DEF Minds, Undisturbed
<1> QED
  BY <1>2, <1>3 DEF Attends

LEMMA AloneSpares ==
  ASSUME Ready, NEW v \in Worker, NEW w \in Worker, w # v, CalmDisk, FilesStay \/ Alone(w)
  PROVE  Spared(v)
<1>1. CASE FilesStay
  BY <1>1 DEF Spared, FilesStay, CalmDisk
<1>2. CASE Alone(w)
  <2>1. ~Launches(h[v])
    BY <1>2 DEF Alone, MayRun
  <2>2. CASE h[w].pc \in Path
    BY <2>1, <2>2, NobodyElse DEF Ready, Path, Spared, CalmDisk
  <2>3. CASE ~Unbegun
    BY <2>1, <2>3 DEF Unbegun, Waits, Early, Spared, CalmDisk
  <2> QED
    BY <1>2, <2>2, <2>3 DEF Alone
<1> QED
  BY <1>1, <1>2

Kept == Guarded' /\ Costly' /\ Attended'

(* The handler that has the turn goes on with it, or a fault strikes. *)
Lasts(v) ==
  \/ faults' > faults
  \/ Holds(v, "turn") /\ MayRun /\ db.exec = "running" /\ h[v].pc \in Path \cup {"drop"} =>
       /\ Holds(v, "turn")'
       /\ h[v].pc \in Path => h'[v].pc \in Path \/ db.result # "none"
       /\ Drops(h[v]) => Drops(h'[v])

LEMMA CostsStay ==
  ASSUME Ready, Clocks, MayRun' => MayRun, db'.exec = "running" => db.exec = "running",
         db'.log = db.log, db.result # "none" => db'.result # "none",
         \A v \in Worker : Lasts(v)
  PROVE  Costly'
<1> SUFFICES ASSUME MayRun', db'.exec = "running" PROVE Costly'
  BY DEF Costly
<1>1. MayRun /\ db.exec = "running"
  OBVIOUS
<1>2. ASSUME Carried, db.result = "none" PROVE Carried' \/ faults' > 0
  <2> PICK v \in Worker : Holds(v, "turn") /\ h[v].pc \in Path
    BY <1>2 DEF Carried
  <2>1. Lasts(v)
    OBVIOUS
  <2>2. CASE faults' > faults
    BY <2>2, ClocksGrow
  <2>3. CASE ~(faults' > faults)
    <3>1. Holds(v, "turn")' /\ h'[v].pc \in Path
      BY <1>1, <1>2, <2>1, <2>3 DEF Lasts
    <3> QED
      BY <3>1 DEF Carried
  <2> QED
    BY <2>2, <2>3
<1>3. ASSUME Dropping, faults > 1 PROVE (faults' > 1 /\ Dropping') \/ faults' > 2
  <2> PICK v \in Worker : Holds(v, "turn") /\ Drops(h[v])
    BY <1>3 DEF Dropping
  <2>1. Lasts(v)
    OBVIOUS
  <2>2. CASE faults' > faults
    BY <1>3, <2>2, ClocksGrow
  <2>3. CASE ~(faults' > faults)
    <3>1. Holds(v, "turn")' /\ Drops(h'[v])
      BY <1>1, <2>1, <2>3 DEF Lasts, Drops
    <3> QED
      BY <1>3, <3>1, ClocksGrow DEF Dropping
  <2> QED
    BY <2>2, <2>3
<1> QED
  BY <1>1, <1>2, <1>3, ClocksGrow DEF Ready, Costly

(* A calm step of one handler keeps what it does not break itself. *)
LEMMA HandlerKeeps ==
  ASSUME Ready, Calm, Clocks, NEW w \in Worker, \A v \in Worker : v # w => h'[v] = h[v],
         db.cancel => db'.cancel, FilesStay \/ Alone(w),
         \A v \in Worker : v # w => Undisturbed(v),
         Attends(w)', Guarded', Costly'
  PROVE  Kept
<1>1. \A v \in Worker : v # w => Attends(v)'
  BY CalmIsColder, AloneSpares, OthersAttend DEF Calm
<1> QED
  BY <1>1 DEF Kept, Attended

(* The life of the Execution goes on as it is, and who has its turn keeps it: a lease is
   given up where nobody is at work, or by a fault. *)
SameLife ==
  /\ db'.exec = db.exec /\ db'.log = db.log /\ db'.result = db.result /\ db'.cancel = db.cancel
  /\ MayRun /\ db'.result = "none" => db'.phase = db.phase
  /\ \A v \in Worker : Holds(v, "turn")' => Holds(v, "turn")
SameHolder(v) ==
  \/ faults' > faults
  \/ MayRun /\ Holds(v, "turn") /\ h[v].pc \in Path \cup {"drop"} => Holds(v, "turn")'

LEMMA SameGuarded ==
  ASSUME Ready, Clocks, MayRun' => MayRun, SameLife, FilesStay \/ ~MayRun
  PROVE  Guarded'
BY ClocksGrow DEF Ready, Guarded, SameLife, FilesStay, Holds

LEMMA QuietKeeps ==
  ASSUME Ready, Calm, Clocks, NEW w \in Worker, \A v \in Worker : v # w => h'[v] = h[v],
         SameLife, FilesStay \/ Alone(w), Attends(w)',
         \A v \in Worker : SameHolder(v), Lasts(w)
  PROVE  Kept
<1>1. Guarded'
  BY CalmIsColder, SameGuarded DEF Alone
<1>2. \A v \in Worker : Undisturbed(v)
  BY DEF SameLife, Undisturbed
<1>3. \A v \in Worker : Lasts(v)
  BY DEF SameHolder, Lasts
<1>4. Costly'
  BY <1>3, CalmIsColder, CostsStay DEF SameLife
<1> QED
  BY <1>1, <1>2, <1>4, HandlerKeeps DEF SameLife

(* No handler moves. *)
LEMMA StillKeeps ==
  ASSUME Ready, Calm, Clocks, UNCHANGED h, db.cancel => db'.cancel, FilesStay, Guarded', Costly',
         \A v \in Worker : Undisturbed(v)
  PROVE  Kept
<1>1. \A v \in Worker : Spared(v)
  BY DEF Calm, CalmDisk, FilesStay, Spared
<1>2. \A v \in Worker : Attends(v)'
  BY <1>1, CalmIsColder, OthersAttend
<1> QED
  BY <1>2 DEF Kept, Attended

LEMMA QuietStillKeeps ==
  ASSUME Ready, Calm, Clocks, UNCHANGED h, FilesStay, SameLife,
         \A v \in Worker : SameHolder(v)
  PROVE  Kept
<1>1. Guarded'
  BY CalmIsColder, SameGuarded
<1>2. \A v \in Worker : Lasts(v)
  BY DEF SameHolder, Lasts
<1>3. Costly'
  BY <1>2, CalmIsColder, CostsStay DEF SameLife
<1> QED
  BY <1>1, <1>3, StillKeeps DEF SameLife, Undisturbed
-------------------------------------------------------------------------------
(* What a handler is after its own step *)

Others(w) == \A v \in Worker : v # w => h'[v] = h[v]

LEMMA GoSees ==
  ASSUME TypeOK, NEW w \in Worker, NEW pc, Go(w, pc)
  PROVE  /\ h'[w].pc = pc /\ h'[w].outcome = h[w].outcome /\ h'[w].next = h[w].next
         /\ h'[w].keep = h[w].keep /\ h'[w].checkpoint = h[w].checkpoint
         /\ h'[w].launched = h[w].launched /\ h'[w].stopped = h[w].stopped
         /\ h'[w].abort = h[w].abort
         /\ Others(w)
BY DEF Go, TypeOK, Handler, Others

LEMMA ConcludeSees ==
  ASSUME TypeOK, NEW w \in Worker, NEW outcome, Conclude(w, outcome)
  PROVE  /\ h'[w].pc = "commit" /\ h'[w].outcome = outcome
         /\ h'[w].checkpoint = h[w].checkpoint /\ h'[w].launched = h[w].launched
         /\ h'[w].abort = h[w].abort
         /\ Others(w)
BY DEF Conclude, TypeOK, Handler, Others

LEMMA LeaveSees ==
  ASSUME TypeOK, NEW w \in Worker, Leave(w)
  PROVE  h'[w].pc = "idle" /\ h'[w].abort = "none" /\ Others(w)
BY DEF Leave, TypeOK, Fresh, Others

(* Places where there is nothing to see to. *)
LEMMA RestAttends ==
  ASSUME Ready, NEW w \in Worker, h'[w].pc \notin Working, h'[w].pc # "drop",
         db.cancel => db'.cancel, Clocks,
         \/ h'[w].abort = "none"
         \/ /\ h'[w].abort = h[w].abort
            /\ h[w].pc \in {"idle", "open"} \/ h'[w].pc \notin {"idle", "open"}
  PROVE  Attends(w)'
<1>1. Heeds(h[w])
  BY DEF Ready, Attended, Attends
<1>2. h'[w].pc \notin {"fail", "await", "settle", "unknown", "drop"} \cup Path
  BY DEF Working, Bringing, Path
<1>3. Heeds(h[w])'
  BY <1>1, <1>2, ClocksGrow DEF Heeds, Launches, Path
<1>4. Minds(h[w])'
  BY <1>2 DEF Minds, Working, Bringing, Path
<1> QED
  BY <1>3, <1>4 DEF Attends

(* A handler at work goes on, or begins where the log says "running". *)
LEMMA WorkAttends ==
  ASSUME Ready, NEW w \in Worker, SameLife, Clocks, CalmDisk, MayRun' => MayRun,
         h'[w].abort = h[w].abort, h[w].pc \in Working \/ db.log = "running",
         h'[w].pc \in Path => h[w].pc \in Path /\ h'[w].launched = h[w].launched,
         ~Launches(h'[w]), h'[w].pc \notin {"drop", "idle", "open"},
         h'[w].pc \in {"authorize", "check"} /\ ~h'[w].checkpoint => disk'.sandbox,
         h'[w].pc = "check" /\ ~h'[w].checkpoint
           => "runner" \in db'.unsettled /\ db.exec \notin Closed,
         MayRun /\ h'[w].pc = "commit" => h'[w].outcome = "needs_reconciliation",
         MayRun /\ h'[w].pc = "unwind" /\ Holds(w, "turn")
           => IF h'[w].next = "settle" THEN h'[w].keep /\ db.result # "none"
                                      ELSE db.exec # "running",
         MayRun /\ h'[w].pc \in {"await", "fail"} /\ Holds(w, "turn")
           => \/ db.exec # "running"
              \/ h[w].abort = "stop" /\ faults > 1
              \/ IF h'[w].pc = "fail" THEN h[w].abort = "late" ELSE h[w].abort = "none"
  PROVE  Attends(w)'
<1>1. Heeds(h[w]) /\ (Holds(w, "turn") => Minds(h[w]))
  BY DEF Ready, Attended, Attends
<1>2. Heeds(h[w])'
  <2>1. h'[w].pc \in Path /\ ~h'[w].launched => disk.supervisor = "none" /\ disk.runner = "absent"
    BY <1>1 DEF Heeds
  <2> QED
    BY <1>1, <2>1, ClocksGrow DEF Heeds, SameLife, CalmDisk
<1>3. ASSUME Holds(w, "turn")' PROVE Minds(h[w])'
  <2>1. Holds(w, "turn") /\ db.log = "running"
    BY <1>1, <1>3 DEF SameLife, Minds
  <2> QED
    BY <2>1, ClocksGrow DEF SameLife, Minds
<1> QED
  BY <1>2, <1>3 DEF Attends
(* The same for a whole step: a handler comes to rest, ... *)
LEMMA RestKeeps ==
  ASSUME Ready, Calm, Clocks, NEW w \in Worker, Others(w), h'[w].pc \notin Working \cup {"drop"},
         \/ h'[w].abort = "none"
         \/ /\ h'[w].abort = h[w].abort
            /\ h[w].pc \in {"idle", "open"} \/ h'[w].pc \notin {"idle", "open"},
         SameLife, FilesStay \/ Alone(w), \A v \in Worker : SameHolder(v),
         faults' > faults \/ ~Holds(w, "turn") \/ h[w].pc \notin Path \cup {"drop"}
  PROVE  Kept
<1>1. Attends(w)'
  BY RestAttends DEF SameLife
<1>2. Lasts(w)
  BY DEF Lasts
<1> QED
  BY <1>1, <1>2, QuietKeeps DEF Others

(* ... or goes on with its work. *)
LEMMA WorkKeeps ==
  ASSUME Ready, Calm, Clocks, NEW w \in Worker, Others(w),
         SameLife, FilesStay \/ Alone(w), \A v \in Worker : SameHolder(v),
         h'[w].abort = h[w].abort, h[w].pc \in Working \/ db.log = "running",
         h[w].pc # "drop", h'[w].pc \notin {"drop", "idle", "open"},
         h'[w].pc \in Path => h[w].pc \in Path /\ h'[w].launched = h[w].launched,
         ~Launches(h'[w]),
         h'[w].pc \in {"authorize", "check"} /\ ~h'[w].checkpoint => disk'.sandbox,
         h'[w].pc = "check" /\ ~h'[w].checkpoint
           => "runner" \in db'.unsettled /\ db.exec \notin Closed,
         MayRun /\ h'[w].pc = "commit" => h'[w].outcome = "needs_reconciliation",
         MayRun /\ Holds(w, "turn") =>
           /\ h'[w].pc = "unwind" => IF h'[w].next = "settle" THEN h'[w].keep /\ db.result # "none"
                                     ELSE db.exec # "running"
           /\ h'[w].pc \in {"await", "fail"} =>
                \/ db.exec # "running"
                \/ h[w].abort = "stop" /\ faults > 1
                \/ IF h'[w].pc = "fail" THEN h[w].abort = "late" ELSE h[w].abort = "none"
           /\ h[w].pc \in Path =>
                h'[w].pc \in Path \/ db.result # "none" \/ db.exec # "running"
  PROVE  Kept
<1>1. Attends(w)'
  BY WorkAttends, CalmIsColder DEF Calm
<1>2. SameHolder(w)
  OBVIOUS
<1>3. Lasts(w)
  BY <1>2 DEF Lasts, SameHolder, Drops
<1> QED
  BY <1>1, <1>3, QuietKeeps DEF Others

(* Where no Runner can be at work, less has to be seen to. *)
LEMMA ColdKeeps ==
  ASSUME Ready, Calm, Clocks, NEW w \in Worker, Others(w), ~MayRun,
         SameLife, FilesStay \/ Alone(w),
         h'[w].abort = h[w].abort, h[w].pc \in Working \/ db.log = "running",
         h[w].pc # "drop", h'[w].pc \notin {"drop", "idle", "open"},
         h'[w].pc \in Path => h[w].pc \in Path /\ h'[w].launched = h[w].launched,
         h'[w].pc \in {"authorize", "check"} /\ ~h'[w].checkpoint => disk'.sandbox,
         h'[w].pc = "check" /\ ~h'[w].checkpoint
           => "runner" \in db'.unsettled /\ db.exec \notin Closed
  PROVE  Kept
<1>1. ~Launches(h'[w])
  BY CalmIsColder DEF MayRun
<1>2. \A v \in Worker : SameHolder(v)
  BY DEF SameHolder
<1> QED
  BY <1>1, <1>2, WorkKeeps

LEMMA SameRecords ==
  ASSUME UNCHANGED db
  PROVE  SameLife /\ \A v \in Worker : SameHolder(v)
BY DEF SameLife, SameHolder, Holds

LEMMA SameFiles == UNCHANGED <<db, disk>> => FilesStay
BY DEF FilesStay

(* What is unsettled besides the Runner's call is of no account. *)
LEMMA OtherCalls ==
  ASSUME TypeOK, NEW calls, db' = [db EXCEPT !.unsettled = calls]
  PROVE  /\ SameLife /\ \A v \in Worker : SameHolder(v)
         /\ db'.unsettled = calls
<1>1. /\ db'.exec = db.exec /\ db'.log = db.log /\ db'.result = db.result
      /\ db'.cancel = db.cancel /\ db'.phase = db.phase /\ db'.job = db.job
      /\ db'.unsettled = calls
  BY DEF TypeOK, Records
<1> QED
  BY <1>1 DEF SameLife, SameHolder, Holds
-------------------------------------------------------------------------------
(* The quiet steps of a turn *)

LEMMA LoseLeaseKeeps ==
  ASSUME Ready, Calm, Clocks, NEW w \in Worker, LoseLease(w)
  PROVE  Kept
<1>1. UNCHANGED <<db, disk>> /\ ~Holds(w, "turn") /\ Leave(w)
  BY DEF LoseLease
<1>2. h'[w].pc = "idle" /\ h'[w].abort = "none" /\ Others(w)
  BY <1>1, LeaveSees DEF Ready
<1> QED
  BY <1>1, <1>2, SameRecords, SameFiles, RestKeeps DEF Working, Bringing, Path

LEMMA InspectKeeps ==
  ASSUME Ready, Calm, Clocks, NEW w \in Worker, InspectRepository(w)
  PROVE  Kept
<1>1. h[w].pc = "inspect" /\ h[w].pc \in Path /\ h[w].pc \in Working /\ UNCHANGED disk
  BY DEF InspectRepository, At, Path, Working, Bringing
<1>2. ~MayRun
  BY <1>1, ColdPlaces
<1>3. PICK pc \in {"snapshot", "fail"} : Go(w, pc)
  BY DEF InspectRepository
<1>4. h'[w].pc = pc /\ h'[w].launched = h[w].launched /\ h'[w].abort = h[w].abort /\ Others(w)
  BY <1>3, GoSees DEF Ready
<1>5. SameLife /\ FilesStay
  <2>1. db' \in {db, [db EXCEPT !.unsettled = db.unsettled \cup {"inspect"}]}
    BY DEF InspectRepository
  <2>2. CASE db' = [db EXCEPT !.unsettled = db.unsettled \cup {"inspect"}]
    BY <1>1, <2>2, OtherCalls DEF Ready, FilesStay
  <2> QED
    BY <1>1, <2>1, <2>2, SameRecords, SameFiles
<1> QED
  BY <1>1, <1>2, <1>4, <1>5, ColdKeeps DEF Path

LEMMA PrepareKeeps ==
  ASSUME Ready, Calm, Clocks, NEW w \in Worker, PrepareSandbox(w)
  PROVE  Kept
<1>1. h[w].pc = "snapshot" /\ h[w].pc \in Path /\ h[w].pc \in Working
  BY DEF PrepareSandbox, At, Path, Working, Bringing
<1>2. ~MayRun /\ Alone(w)
  BY <1>1, ColdPlaces DEF Alone
<1>3. CASE UNCHANGED <<db, disk>> /\ Go(w, "fail")
  <2>1. h'[w].pc = "fail" /\ h'[w].abort = h[w].abort /\ Others(w)
    BY <1>3, GoSees DEF Ready
  <2> QED
    BY <1>1, <1>2, <1>3, <2>1, SameRecords, ColdKeeps DEF Path
<1>4. CASE /\ db' = [db EXCEPT !.unsettled = @ \ {"inspect"}, !.phase = "running"]
           /\ (disk'.sandbox /\ Go(w, "authorize")) \/ Conclude(w, "failed")
  <2>1. /\ db'.exec = db.exec /\ db'.log = db.log /\ db'.result = db.result
        /\ db'.cancel = db.cancel /\ db'.job = db.job
    BY <1>4 DEF Ready, TypeOK, Records
  <2>2. \/ h'[w].pc = "authorize" /\ disk'.sandbox
        \/ h'[w].pc = "commit"
    BY <1>4, GoSees, ConcludeSees DEF Ready
  <2>3. h'[w].launched = h[w].launched /\ h'[w].abort = h[w].abort /\ Others(w)
    BY <1>4, GoSees, ConcludeSees DEF Ready
  <2>4. SameLife
    BY <1>2, <2>1 DEF SameLife, Holds
  <2> QED
    BY <1>1, <1>2, <2>2, <2>3, <2>4, ColdKeeps
<1> QED
  BY <1>3, <1>4 DEF PrepareSandbox

LEMMA AuthorizeKeeps ==
  ASSUME Ready, Calm, Clocks, NEW w \in Worker, Authorize(w)
  PROVE  Kept
<1>1. /\ h[w].pc = "authorize" /\ h[w].pc \in Path /\ h[w].pc \in Working
      /\ UNCHANGED disk
  BY DEF Authorize, At, Path, Working, Bringing
<1>2. ~MayRun /\ ~MayRun'
  BY <1>1, ColdPlaces, CalmIsColder
<1>3. CASE /\ MayInvoke /\ db' = [db EXCEPT !.unsettled = db.unsettled \cup {"runner"}]
           /\ Go(w, "check")
  <2>1. /\ h'[w].pc = "check" /\ h'[w].checkpoint = h[w].checkpoint
        /\ h'[w].launched = h[w].launched /\ h'[w].abort = h[w].abort /\ Others(w)
    BY <1>3, GoSees DEF Ready
  <2>2. SameLife /\ "runner" \in db'.unsettled /\ FilesStay
    BY <1>1, <1>3, OtherCalls DEF Ready, FilesStay
  <2>3. ~h'[w].checkpoint => disk'.sandbox
    BY <1>1, <2>1 DEF Ready, Attended, Attends, Heeds
  <2>4. db.exec \notin Closed
    BY <1>3 DEF MayInvoke, Closed
  <2> QED
    BY <1>1, <1>2, <2>1, <2>2, <2>3, <2>4, ColdKeeps DEF Path
<1>4. ASSUME Conclude(w, "failed")
      PROVE  /\ h'[w].pc = "commit" /\ h'[w].launched = h[w].launched
             /\ h'[w].abort = h[w].abort /\ Others(w)
  BY <1>4, ConcludeSees DEF Ready
<1>5. CASE UNCHANGED db /\ Conclude(w, "failed")
  BY <1>1, <1>2, <1>4, <1>5, SameRecords, SameFiles, ColdKeeps
<1>6. CASE /\ db.exec = "running" /\ db' = [db EXCEPT !.exec = "failed"]
           /\ Conclude(w, "failed")
  <2>1. /\ db'.exec = "failed" /\ db'.log = db.log /\ db'.result = db.result
        /\ db'.cancel = db.cancel /\ db'.job = db.job /\ db'.unsettled = db.unsettled
    BY <1>6 DEF Ready, TypeOK, Records
  <2>2. Heeds(h[w]) /\ (Holds(w, "turn") => Minds(h[w]))
    BY DEF Ready, Attended, Attends
  <2>3. Heeds(h[w])'
    BY <1>1, <1>2, <1>4, <1>6, <2>1, <2>2, ClocksGrow DEF Heeds, Launches
  <2>4. Holds(w, "turn")' => Minds(h[w])'
    BY <1>1, <1>2, <1>4, <1>6, <2>1, <2>2 DEF Minds, Holds
  <2>5. Guarded' /\ Costly'
    BY <1>2, <2>1 DEF Guarded, Costly
  <2>6. \A v \in Worker : v # w => h[v].pc # "check"
    BY <1>1, NobodyElse DEF Ready, Path
  <2>7. \A v \in Worker : v # w => Undisturbed(v)
    BY <2>1, <2>6 DEF Undisturbed, Holds
  <2> QED
    BY <1>1, <1>4, <1>6, <2>1, <2>3, <2>4, <2>5, <2>7, HandlerKeeps
    DEF Attends, FilesStay, Others
<1> QED
  BY <1>3, <1>5, <1>6 DEF Authorize

LEMMA CheckFailsKeeps ==
  ASSUME Ready, Calm, Clocks, NEW w \in Worker, CheckFails(w)
  PROVE  Kept
<1>1. /\ h[w].pc = "check" /\ h[w].pc \in Path /\ h[w].pc \in Working
      /\ UNCHANGED <<db, disk>>
  BY DEF CheckFails, At, Path, Working, Bringing
<1>2. ~MayRun
  BY <1>1, ColdPlaces
<1>3. /\ h'[w].pc = "commit" /\ h'[w].launched = h[w].launched
      /\ h'[w].abort = h[w].abort /\ Others(w)
  BY ConcludeSees DEF CheckFails, Ready
<1> QED
  BY <1>1, <1>2, <1>3, SameRecords, SameFiles, ColdKeeps

LEMMA EventsBreakKeeps ==
  ASSUME Ready, Calm, Clocks, NEW w \in Worker, EventsBreak(w)
  PROVE  Kept
<1>1. /\ h[w].pc = "watch" /\ h[w].pc \in Path /\ h[w].pc \in Working
      /\ UNCHANGED <<db, disk>>
  BY DEF EventsBreak, At, Path, Working, Bringing
<1>2. /\ h'[w].pc = "commit" /\ h'[w].outcome = "needs_reconciliation"
      /\ h'[w].launched = h[w].launched /\ h'[w].abort = h[w].abort /\ Others(w)
  BY ConcludeSees DEF EventsBreak, Ready
<1> QED
  BY <1>1, <1>2, SameRecords, SameFiles, WorkKeeps DEF Launches, Path

LEMMA HarvestKeeps ==
  ASSUME Ready, Calm, Clocks, NEW w \in Worker, HarvestRunner(w)
  PROVE  Kept
<1>1. /\ h[w].pc = "watch" /\ h[w].pc \in Path /\ h[w].pc \in Working
      /\ UNCHANGED disk
  BY DEF HarvestRunner, At, Path, Working, Bringing
<1>2. PICK end \in {"candidate", "completed", "failed", "cancelled", "needs_reconciliation"} :
        /\ ProvedStopped \/ (end = "needs_reconciliation" /\ UNCHANGED db)
        /\ h' = [h EXCEPT ![w].stopped = ProvedStopped,
                          ![w].pc = IF end = "candidate" THEN "judge" ELSE "commit",
                          ![w].outcome = IF end = "candidate" THEN @ ELSE end]
  BY DEF HarvestRunner, Reported
<1>3. /\ h'[w].pc = IF end = "candidate" THEN "judge" ELSE "commit"
      /\ h'[w].outcome = IF end = "candidate" THEN h[w].outcome ELSE end
      /\ h'[w].launched = h[w].launched /\ h'[w].abort = h[w].abort /\ Others(w)
  BY <1>2 DEF Ready, TypeOK, Handler, Others
<1>4. CASE ProvedStopped
  <2>1. ~MayRun
    BY <1>4, RelianceIsCold DEF Known
  <2>2. SameLife
    <3>1. db' \in {db, [db EXCEPT !.unsettled = db.unsettled \ {"runner"}]}
      BY DEF HarvestRunner
    <3> QED
      BY <3>1, OtherCalls, SameRecords DEF Ready
  <2> QED
    BY <1>1, <1>3, <2>1, <2>2, ColdKeeps DEF Path, Alone
<1>5. CASE end = "needs_reconciliation" /\ UNCHANGED db
  BY <1>1, <1>3, <1>5, SameRecords, SameFiles, WorkKeeps DEF Launches, Path
<1> QED
  BY <1>2, <1>4, <1>5

LEMMA GateKeeps ==
  ASSUME Ready, Calm, Clocks, NEW w \in Worker, StartGate(w) \/ GateEnds(w)
  PROVE  Kept
<1>1. /\ h[w].pc \in {"judge", "gate"} /\ h[w].pc \in Path /\ h[w].pc \in Working
      /\ UNCHANGED disk
  BY DEF StartGate, GateEnds, At, Path, Working, Bringing
<1>2. ~MayRun /\ h[w].checkpoint
  BY <1>1, ColdPlaces DEF Ready, Machinery, Progress, Sound
<1>3. /\ h'[w].pc \in {"gate", "authorize", "commit", "unwind"}
      /\ h'[w].launched = h[w].launched /\ h'[w].checkpoint = h[w].checkpoint
      /\ h'[w].abort = h[w].abort /\ Others(w)
  <2>1. \/ \E pc \in {"gate", "authorize"} : Go(w, pc)
        \/ \E outcome \in {"waiting_approval", "paused"} : Conclude(w, outcome)
        \/ h' = [h EXCEPT ![w].pc = "unwind", ![w].next = "fail"]
    BY DEF StartGate, GateEnds
  <2>2. CASE h' = [h EXCEPT ![w].pc = "unwind", ![w].next = "fail"]
    BY <2>2 DEF Ready, TypeOK, Handler, Others
  <2> QED
    BY <2>1, <2>2, GoSees, ConcludeSees DEF Ready
<1>4. SameLife
  <2>1. db' \in {db, [db EXCEPT !.unsettled = db.unsettled \cup {"gate"}],
                 [db EXCEPT !.unsettled = db.unsettled \ {"gate"}]}
    BY DEF StartGate, GateEnds
  <2> QED
    BY <2>1, OtherCalls, SameRecords DEF Ready
<1> QED
  BY <1>1, <1>2, <1>3, <1>4, ColdKeeps DEF Path, Alone

(* What the transaction of a result leaves alone, and what it makes of an unknown one. *)
LEMMA PersistedKeeps ==
  ASSUME TypeOK, db.result = "none", NEW result \in Outcome, NEW stopped \in BOOLEAN
  PROVE  LET p == Persisted(result, stopped) IN
         /\ p.log = db.log /\ p.job["turn"] = db.job["turn"] /\ p.cancel = db.cancel
         /\ p.unsettled = db.unsettled
         /\ p.exec \in {db.exec, "cancelled"}
         /\ result = "needs_reconciliation" =>
              /\ p.exec = db.exec
              /\ db.exec = "cancelled" \/ p.result = "needs_reconciliation"
              /\ db.exec = "running" => Accepts(result, stopped)
<1> DEFINE exec == IF /\ db.exec = "needs_reconciliation" /\ result = "cancelled"
                      /\ db.cancel /\ db.phase = "started" /\ stopped /\ db.unsettled = {}
                   THEN "cancelled" ELSE db.exec
           final == CASE exec = "cancelled" -> "cancelled"
                      [] exec = "needs_reconciliation" /\ result = "cancelled" -> "needs_reconciliation"
                      [] OTHER -> result
           accepted == \/ final = "cancelled" /\ exec = "cancelled"
                       \/ final # "cancelled" /\ exec = "running"
                       \/ final \in {"failed", "needs_reconciliation"} /\ exec = final
           invoked == db.phase = "started"
           phase == CASE ~invoked -> db.phase
                      [] final = "needs_reconciliation" -> "outcome_unknown"
                      [] OTHER -> "settled"
           clean == invoked /\ stopped /\ final # "needs_reconciliation"
           new == [db EXCEPT !.exec = exec, !.result = final, !.phase = phase,
                             !.stopped = invoked /\ stopped,
                             !.cleanup = IF clean THEN "pending" ELSE @,
                             !.job["cleanup"] = IF clean THEN "available" ELSE @]
<1>1. Persisted(result, stopped) = new /\ Accepts(result, stopped) = accepted
  BY DEF Persisted, ExecutionAfter, ResultAfter, Accepts
<1>2. /\ new.log = db.log /\ new.job["turn"] = db.job["turn"] /\ new.cancel = db.cancel
      /\ new.unsettled = db.unsettled /\ new.result = final /\ new.exec = exec
  <2> HIDE DEF exec, final, phase, invoked, clean
  <2> QED
    BY DEF TypeOK, Records, Job
<1>3. exec \in {db.exec, "cancelled"}
  OBVIOUS
<1>4. ASSUME result = "needs_reconciliation"
      PROVE  /\ exec = db.exec
             /\ final = IF db.exec = "cancelled" THEN "cancelled" ELSE "needs_reconciliation"
             /\ db.exec = "running" => accepted
  BY <1>4
<1> QED
  <2> HIDE DEF new, exec, final, phase, clean, accepted
  <2> QED
    BY <1>1, <1>2, <1>3, <1>4

(* The handler that has the turn brings an unknown result, or any where no Runner can be
   at work. *)
LEMMA ResultKeeps ==
  ASSUME Ready, Calm, Clocks, NEW w \in Worker, Others(w), Holds(w, "turn"), UNCHANGED disk,
         h[w].pc \in Bringing, h[w].pc \in Path => h'[w].pc \in Path,
         NEW result \in Outcome, NEW stopped \in BOOLEAN, db' = Persisted(result, stopped),
         MayRun => result = "needs_reconciliation",
         Attends(w)'
  PROVE  Kept
<1>1. db.log = "running" /\ db.result = "none"
  BY DEF Ready, Attended, Attends, Minds, Working, FirstResult
<1>2. /\ db'.log = db.log /\ db'.job["turn"] = db.job["turn"] /\ db'.cancel = db.cancel
      /\ db'.unsettled = db.unsettled
      /\ db'.exec \in {db.exec, "cancelled"}
  BY <1>1, PersistedKeeps DEF Ready
<1>3. ASSUME MayRun
      PROVE  /\ db'.exec = db.exec /\ db.exec \notin Closed
             /\ db'.result = "needs_reconciliation"
  <2>1. db.exec \notin Closed
    BY <1>1, <1>3 DEF Ready, Guarded
  <2> QED
    BY <1>1, <1>3, <2>1, PersistedKeeps DEF Ready, Closed
<1>4. MayRun' => MayRun
  BY CalmIsColder
<1>5. Guarded'
  BY <1>2, <1>3, <1>4 DEF Guarded, Ready
<1>6. \A v \in Worker : v # w => ~Holds(v, "turn") /\ ~Holds(v, "turn")'
  BY <1>2 DEF Holds
<1>7. Costly'
  <2>1. CASE MayRun
    <3>1. \A v \in Worker : Lasts(v)
      BY <1>2, <1>6 DEF Lasts, Holds, Drops, Bringing, Path
    <3> QED
      BY <1>1, <1>2, <1>3, <1>4, <2>1, <3>1, CostsStay
  <2> QED
    BY <1>4, <2>1 DEF Costly
<1> QED
  BY <1>2, <1>5, <1>6, <1>7, HandlerKeeps DEF FilesStay, Undisturbed, Others

LEMMA CommitKeeps ==
  ASSUME Ready, Calm, Clocks, NEW w \in Worker, CommitResult(w)
  PROVE  Kept
<1> DEFINE result == IF h[w].abort = "user" /\ h[w].stopped THEN "cancelled" ELSE h[w].outcome
           given == h[w].abort \in {"stop", "late"} /\ h[w].outcome # "needs_reconciliation"
           refused == \/ given \/ ~Holds(w, "turn")
                      \/ ~Accepts(result, h[w].stopped)
<1>1. /\ h[w].pc = "commit" /\ h[w].pc \in Path /\ h[w].pc \in Bringing /\ h[w].pc \in Working
      /\ UNCHANGED disk
  BY DEF CommitResult, At, Path, Working, Bringing
<1>2. result \in Outcome /\ h[w].stopped \in BOOLEAN
  <2>1. h[w].outcome \in Outcome /\ h[w].stopped \in BOOLEAN /\ "cancelled" \in Outcome
    BY DEF Ready, TypeOK, Handler, Outcome, Ended
  <2> QED
    BY <2>1
<1>3. db' = IF refused THEN db ELSE Persisted(result, h[w].stopped)
  BY DEF CommitResult
<1>4. PICK keep \in BOOLEAN :
        /\ h' = [h EXCEPT ![w].pc = "unwind",
                          ![w].next = IF refused THEN "fail" ELSE "settle", ![w].keep = keep]
        /\ result = "needs_reconciliation" => keep
  BY DEF CommitResult
<1>5. /\ h'[w].pc = "unwind" /\ h'[w].pc \in Path
      /\ h'[w].next = IF refused THEN "fail" ELSE "settle"
      /\ h'[w].keep = keep /\ h'[w].launched = h[w].launched
      /\ h'[w].abort = h[w].abort /\ Others(w)
  <2> HIDE DEF refused
  <2> QED
    BY <1>4 DEF Ready, TypeOK, Handler, Others, Path
<1>6. ASSUME MayRun PROVE result = "needs_reconciliation" /\ ~given
  <2>1. h[w].outcome = "needs_reconciliation"
    BY <1>1, <1>6 DEF Ready, Attended, Attends, Heeds
  <2>2. ~h[w].stopped
    BY <1>6, ColdPlaces
  <2> QED
    BY <2>1, <2>2
<1>7. ASSUME Holds(w, "turn") PROVE db.log = "running" /\ db.result = "none"
  BY <1>1, <1>7 DEF Ready, Attended, Attends, Minds, FirstResult
<1> HIDE DEF result, given
<1>8. CASE refused
  <2>1. ASSUME MayRun, Holds(w, "turn") PROVE db.exec # "running"
    <3>1. ~Accepts(result, h[w].stopped) /\ result = "needs_reconciliation"
      BY <1>6, <1>8, <2>1
    <3> QED
      BY <1>2, <1>7, <2>1, <3>1, PersistedKeeps DEF Ready
  <2>2. UNCHANGED <<db, disk>>
    BY <1>1, <1>3, <1>8
  <2>3. h'[w].next = "fail"
    BY <1>5, <1>8
  <2> HIDE DEF refused
  <2> QED
    BY <1>1, <1>5, <2>1, <2>2, <2>3, SameRecords, SameFiles, WorkKeeps DEF Launches
<1>9. CASE ~refused
  <2>1. db' = Persisted(result, h[w].stopped) /\ Holds(w, "turn") /\ db.result = "none"
    BY <1>3, <1>7, <1>9
  <2>2. h'[w].next = "settle"
    BY <1>5, <1>9
  <2>3. /\ db'.log = db.log /\ db'.cancel = db.cancel
    BY <1>2, <2>1, PersistedKeeps DEF Ready
  <2>4. Heeds(h[w]) /\ Minds(h[w])
    BY <2>1 DEF Ready, Attended, Attends
  <2>5. Heeds(h[w])'
    BY <1>1, <1>5, <2>3, <2>4, ClocksGrow DEF Heeds, Launches
  <2>6. MayRun' => h'[w].keep /\ db'.result # "none"
    <3> SUFFICES ASSUME MayRun PROVE h'[w].keep /\ db'.result # "none"
      BY CalmIsColder
    <3>1. result = "needs_reconciliation"
      BY <1>6
    <3>2. db.exec # "cancelled"
      BY <1>7, <2>1 DEF Ready, Guarded, Closed
    <3>3. db'.result = "needs_reconciliation"
      BY <1>2, <2>1, <3>1, <3>2, PersistedKeeps DEF Ready
    <3> QED
      BY <1>4, <1>5, <3>1, <3>3
  <2>7. Minds(h[w])'
    BY <1>5, <1>7, <2>1, <2>2, <2>3, <2>6 DEF Minds
  <2> HIDE DEF refused
  <2> QED
    BY <1>1, <1>2, <1>5, <1>6, <2>1, <2>5, <2>7, ResultKeeps DEF Attends
<1> QED
  BY <1>8, <1>9

LEMMA AwaitKeeps ==
  ASSUME Ready, Calm, Clocks, NEW w \in Worker, AwaitRunner(w)
  PROVE  Kept
<1>1. /\ h[w].pc = "await" /\ h[w].pc \notin Path /\ h[w].pc \in Bringing /\ h[w].pc \in Working
      /\ UNCHANGED disk /\ Holds(w, "turn")
  BY DEF AwaitRunner, At, Path, Working, Bringing
<1>2. db.log = "running" /\ db.result = "none"
  BY <1>1 DEF Ready, Attended, Attends, Minds, FirstResult
<1>3. CASE /\ UNCHANGED db /\ Go(w, "fail")
           /\ h[w].abort # "none" \/ db.exec # "running"
  <2>1. h'[w].pc = "fail" /\ h'[w].abort = h[w].abort /\ Others(w)
    BY <1>3, GoSees DEF Ready
  <2>2. h[w].abort \in {"none", "user", "stop", "late"}
    BY DEF Ready, TypeOK, Handler
  <2>3. h[w].abort = "user" => db.exec # "running"
    BY DEF Ready, Attended, Attends, Heeds, Guarded
  <2>4. MayRun /\ h[w].abort = "stop" => db.exec # "running" \/ faults > 1
    BY <1>1 DEF Ready, Attended, Attends, Minds
  <2>5. MayRun => \/ db.exec # "running" \/ h[w].abort = "late"
                  \/ h[w].abort = "stop" /\ faults > 1
    BY <1>3, <2>2, <2>3, <2>4
  <2>6. ~Launches(h'[w]) /\ h'[w].pc \notin Path
    BY <2>1 DEF Launches, Path
  <2> QED
    BY <1>1, <1>3, <2>1, <2>5, <2>6, SameRecords, SameFiles, WorkKeeps
<1>4. CASE \E stopped \in BOOLEAN :
             IF Accepts("needs_reconciliation", stopped)
             THEN db' = Persisted("needs_reconciliation", stopped) /\ Go(w, "unknown")
             ELSE UNCHANGED db /\ Go(w, "fail")
  <2> PICK stopped \in BOOLEAN :
             IF Accepts("needs_reconciliation", stopped)
             THEN db' = Persisted("needs_reconciliation", stopped) /\ Go(w, "unknown")
             ELSE UNCHANGED db /\ Go(w, "fail")
    BY <1>4
  <2>1. "needs_reconciliation" \in Outcome
    BY DEF Outcome
  <2>2. CASE ~Accepts("needs_reconciliation", stopped)
    <3>1. db.exec # "running"
      BY <1>2, <2>1, <2>2, PersistedKeeps DEF Ready
    <3> QED
      BY <1>3, <2>2, <3>1
  <2>3. CASE Accepts("needs_reconciliation", stopped)
    <3>1. h'[w].pc = "unknown" /\ h'[w].abort = h[w].abort /\ Others(w)
      BY <2>3, GoSees DEF Ready
    <3>2. db'.log = db.log /\ db'.cancel = db.cancel /\ db' = Persisted("needs_reconciliation", stopped)
      BY <1>2, <2>1, <2>3, PersistedKeeps DEF Ready
    <3>3. Heeds(h[w])'
      BY <1>1, <3>1, <3>2, ClocksGrow DEF Ready, Attended, Attends, Heeds, Launches, Path
    <3>4. Minds(h[w])'
      BY <1>2, <3>1, <3>2 DEF Minds
    <3> QED
      BY <1>1, <2>1, <3>1, <3>2, <3>3, <3>4, ResultKeeps DEF Attends
  <2> QED
    BY <2>2, <2>3
<1> QED
  BY <1>3, <1>4 DEF AwaitRunner, ProvedStopped

(* Files are deleted only where no Runner can be at work. *)
LEMMA UnwindKeeps ==
  ASSUME Ready, Calm, Clocks, NEW w \in Worker, Unwind(w)
  PROVE  Kept
<1> DEFINE sure == h[w].stopped \/ ProvedStopped
           forget == disk.proof # "absent" /\ ~h[w].keep
           gone == [disk EXCEPT !.sandbox = @ /\ h[w].keep /\ h[w].checkpoint]
           Fails == IF h[w].next = "settle" THEN h' = [h EXCEPT ![w].next = "fail"]
                    ELSE h' = [h EXCEPT ![w] = [Fresh EXCEPT !.pc = "fail", !.abort = h[w].abort]]
           Goes == h' = [h EXCEPT ![w] = [Fresh EXCEPT !.pc = h[w].next, !.abort = h[w].abort]]
<1>1. /\ h[w].pc = "unwind" /\ h[w].pc \in Path /\ h[w].pc \in Working /\ UNCHANGED db
      /\ h[w] \in Handler
  BY DEF Unwind, At, Path, Working, Bringing, Ready, TypeOK
<1>2. ASSUME MayRun PROVE h[w].launched /\ h[w].checkpoint /\ ~sure
  <2>1. h[w].launched
    BY <1>1, <1>2, UnlaunchedIsCold DEF Launches
  <2>2. ~Known
    BY <1>2, RelianceIsCold
  <2> QED
    BY <2>1, <2>2 DEF Known, Relied, Counts, Ready, Machinery, Progress, Sound
<1>3. CASE UNCHANGED h /\ disk' = Hangup
  <2>1. FilesStay
    BY <1>1, <1>3 DEF Hangup, FilesStay, Ready, TypeOK, Machine
  <2> QED
    BY <1>1, <1>3, <2>1, SameRecords, QuietStillKeeps
<1>4. CASE /\ Fails \/ Goes
           /\ MayRun => (h[w].keep /\ Goes) \/ (~h[w].keep /\ Fails /\ UNCHANGED disk)
           /\ disk' \in {disk, gone, [gone EXCEPT !.proof = IF forget THEN "absent" ELSE @]}
  <2>1. FilesStay \/ Alone(w)
    <3>1. CASE MayRun /\ h[w].keep
      <4>1. h[w].keep /\ h[w].checkpoint /\ ~forget
        BY <1>2, <3>1
      <4>2. disk.sandbox \in BOOLEAN /\ disk \in Machine
        BY DEF Ready, TypeOK, Machine
      <4>3. gone = disk /\ [gone EXCEPT !.proof = @] = disk
        BY <4>1, <4>2 DEF Machine
      <4>4. disk' = disk
        <5> HIDE DEF gone, forget
        <5> QED
          BY <1>4, <4>1, <4>3
      <4> QED
        BY <1>1, <4>4 DEF FilesStay
    <3>2. CASE MayRun /\ ~h[w].keep
      <4> HIDE DEF gone, forget, Fails, Goes
      <4> QED
        BY <1>1, <1>4, <3>2 DEF FilesStay
    <3> QED
      BY <1>1, <3>1, <3>2 DEF Alone
  <2>2. Others(w)
    BY <1>4 DEF Others, Ready, TypeOK
  <2>3. Goes => h'[w].pc = h[w].next /\ h'[w].abort = h[w].abort
    BY DEF Fresh, Ready, TypeOK
  <2>4. Fails =>
          /\ h'[w].abort = h[w].abort
          /\ h'[w].pc = "fail" \/ (h'[w].pc = "unwind" /\ h'[w].launched = h[w].launched)
          /\ h[w].next = "fail" => h'[w].pc = "fail"
    <3>1. CASE h[w].next = "settle"
      BY <1>1, <3>1 DEF Ready, TypeOK, Handler
    <3>2. CASE h[w].next # "settle"
      BY <3>2 DEF Fresh, Ready, TypeOK
    <3> QED
      BY <3>1, <3>2
  <2> HIDE DEF Fails, Goes, gone, forget, sure
  <2>5. h[w].next \in {"settle", "fail"}
    BY <1>1 DEF Handler
  <2>6. MayRun /\ Holds(w, "turn") => /\ IF h[w].next = "settle"
                                         THEN h[w].keep /\ db.result # "none"
                                         ELSE db.exec # "running"
                                      /\ h'[w].pc = h[w].next
    <3>1. MayRun /\ Holds(w, "turn") => IF h[w].next = "settle"
                                        THEN h[w].keep /\ db.result # "none"
                                        ELSE db.exec # "running"
      BY <1>1 DEF Ready, Attended, Attends, Minds
    <3> QED
      BY <1>4, <2>3, <2>4, <2>5, <3>1
  <2>7. /\ h'[w].abort = h[w].abort
        /\ \/ h'[w].pc \in {"settle", "fail"}
           \/ h'[w].pc = "unwind" /\ h'[w].launched = h[w].launched
    BY <1>4, <2>3, <2>4, <2>5
  <2>8. /\ ~Launches(h'[w])
        /\ h'[w].pc \notin {"drop", "idle", "open", "authorize", "check", "commit", "await"}
        /\ h'[w].pc \in Path => h'[w].launched = h[w].launched
    BY <2>7 DEF Launches, Path
  <2> QED
    BY <1>1, <2>1, <2>2, <2>5, <2>6, <2>7, <2>8, SameRecords, WorkKeeps
<1>5. \/ UNCHANGED h /\ disk' = Hangup
      \/ h[w].launched /\ ~sure /\ ~h[w].keep /\ Fails /\ UNCHANGED disk
      \/ (h[w].launched => sure \/ h[w].keep) /\ forget /\ ~ProvedStopped /\ disk' = gone /\ Fails
      \/ /\ h[w].launched => sure \/ h[w].keep
         /\ disk' = [gone EXCEPT !.proof = IF forget THEN "absent" ELSE @]
         /\ Goes
  BY Zenon DEF Unwind
<1>6. MayRun /\ forget /\ (h[w].launched => sure \/ h[w].keep) => FALSE
  BY <1>2
<1>7. MayRun /\ (h[w].launched => sure \/ h[w].keep) => h[w].keep
  BY <1>2
<1> HIDE DEF Fails, Goes, gone, forget, sure
<1> QED
  BY <1>3, <1>4, <1>5, <1>6, <1>7

(* The handler that has the turn gives it up, with the record that goes with it. *)
LEMMA GivenUp ==
  ASSUME Ready, Calm, Clocks, NEW w \in Worker, Others(w), Holds(w, "turn"), UNCHANGED disk,
         h'[w].pc \notin Working \cup {"drop"}, h'[w].abort = "none",
         db'.cancel = db.cancel, db'.unsettled = db.unsettled, db'.exec # "queued",
         ~Holds(w, "turn")' \/ db'.job["turn"] = db.job["turn"],
         db'.exec # "running",
         MayRun =>
           /\ db'.result = db.result /\ db'.phase = db.phase
           /\ db'.exec \in Closed => faults > 2 /\ db'.log = "interrupted",
         db'.job["turn"] \in {db.job["turn"], "done"}
  PROVE  Kept
<1>1. Attends(w)'
  BY RestAttends
<1>2. Costly'
  BY DEF Costly
<1>3. Guarded'
  BY CalmIsColder, ClocksGrow DEF Ready, Guarded
<1>4. \A v \in Worker : v # w => Undisturbed(v)
  <2>1. "done" \notin Worker
    OBVIOUS
  <2> QED
    BY <2>1 DEF Undisturbed, Holds
<1> QED
  BY <1>1, <1>2, <1>3, <1>4, HandlerKeeps DEF FilesStay, Others

LEMMA EndTurnKeeps ==
  ASSUME Ready, Calm, Clocks, NEW w \in Worker, Holds(w, "turn"), UNCHANGED disk,
         h[w].pc \notin Path \cup {"drop"}, db.log = "running",
         NEW status \in Ended, EndTurn(w, status),
         MayRun => status = "paused" \/ (status = "failed" /\ db.exec # "running")
  PROVE  Kept
<1>1. CASE db.exec = "needs_reconciliation"
  <2>1. h'[w].pc = "report" /\ h'[w].abort = h[w].abort /\ Others(w) /\ UNCHANGED db
    BY <1>1, GoSees DEF EndTurn, Ready
  <2> QED
    BY <2>1, SameRecords, SameFiles, RestKeeps DEF Working, Bringing, Path
<1>2. CASE db.exec # "needs_reconciliation"
  <2> DEFINE final == IF db.exec = "cancelled" THEN "cancelled" ELSE status
  <2>1. /\ db' = [db EXCEPT !.log = "ended", !.job["turn"] = "done",
                            !.exec = IF @ = "running" THEN final ELSE @,
                            !.result = IF final = "cancelled" /\ @ # "none" THEN final ELSE @]
        /\ h'[w].pc = "idle" /\ h'[w].abort = "none" /\ Others(w)
    BY <1>2, LeaveSees DEF EndTurn, Ready
  <2>2. /\ db'.log = "ended" /\ db'.job["turn"] = "done" /\ db'.cancel = db.cancel
        /\ db'.unsettled = db.unsettled /\ db'.phase = db.phase
        /\ db'.exec = IF db.exec = "running" THEN final ELSE db.exec
        /\ db'.result = IF final = "cancelled" /\ db.result # "none" THEN final ELSE db.result
    <3> HIDE DEF final
    <3> QED
      BY <2>1 DEF Ready, TypeOK, Records, Job
  <2>3. final \notin {"queued", "running"}
    BY DEF Ended
  <2>4. db.exec # "queued"
    BY DEF Ready, Guarded
  <2>5. MayRun => db.exec \notin Closed
    BY DEF Ready, Guarded
  <2>6. MayRun => db'.result = db.result /\ db'.exec \notin Closed
    BY <2>2, <2>5 DEF Closed
  <2>7. "done" \notin Worker
    OBVIOUS
  <2> HIDE DEF final
  <2> QED
    BY <2>1, <2>2, <2>3, <2>4, <2>6, <2>7, GivenUp DEF Working, Bringing, Path, Holds
<1> QED
  BY <1>1, <1>2

(* The handler that has the turn writes the record and keeps it, or settles its job. *)
LEMMA HolderKeeps ==
  ASSUME Ready, Calm, Clocks, NEW w \in Worker, Others(w), Holds(w, "turn"), UNCHANGED disk,
         db'.job["turn"] \in {db.job["turn"], "done"}, db'.cancel = db.cancel,
         db'.unsettled = db.unsettled, Attends(w)', Guarded', Costly'
  PROVE  Kept
<1>1. \A v \in Worker : v # w => Undisturbed(v)
  <2>1. "done" \notin Worker
    OBVIOUS
  <2> QED
    BY <2>1 DEF Undisturbed, Holds
<1> QED
  BY <1>1, HandlerKeeps DEF FilesStay, Others

LEMMA LogFields ==
  ASSUME TypeOK, NEW log, db' = [db EXCEPT !.log = log]
  PROVE  /\ db'.log = log /\ db'.exec = db.exec /\ db'.result = db.result
         /\ db'.cancel = db.cancel /\ db'.phase = db.phase /\ db'.job = db.job
         /\ db'.unsettled = db.unsettled
BY DEF TypeOK, Records

LEMMA RecoverKeeps ==
  ASSUME Ready, Calm, Clocks, NEW w \in Worker, RecoverTurn(w)
  PROVE  Kept
<1>1. /\ h[w].pc = "open" /\ h[w].pc \notin Path \cup {"drop"} /\ Holds(w, "turn")
      /\ UNCHANGED disk
  BY DEF RecoverTurn, At, Path
<1>2. h[w].abort = "none"
  BY <1>1 DEF Ready, Attended, Attends, Heeds
<1>3. CASE /\ db.log = "running" /\ UNCHANGED db
           /\ Go(w, IF db.exec # "running" THEN "fail"
                    ELSE IF db.result # "none" THEN "settle" ELSE "await")
  <2>1. /\ h'[w].pc \in {"fail", "settle", "await"}
        /\ h'[w].pc = "fail" => db.exec # "running"
        /\ h'[w].abort = h[w].abort /\ Others(w)
    BY <1>3, GoSees DEF Ready
  <2>2. ~Launches(h'[w]) /\ h'[w].pc \notin Path
    BY <2>1 DEF Launches, Path
  <2> QED
    BY <1>1, <1>2, <1>3, <2>1, <2>2, SameRecords, SameFiles, WorkKeeps
<1>4. CASE db.log = "running" /\ EndTurn(w, "paused")
  BY <1>1, <1>4, EndTurnKeeps DEF Ended
<1>5. CASE /\ db.log = "running" /\ db.result = "none" /\ db.phase # "started"
           /\ db' = [db EXCEPT !.log = "interrupted"] /\ Go(w, "drop")
  <2>1. h'[w].pc = "drop" /\ h'[w].abort = "none" /\ Others(w)
    BY <1>2, <1>5, GoSees DEF Ready
  <2>2. /\ db'.log = "interrupted" /\ db'.exec = db.exec
        /\ db'.cancel = db.cancel /\ db'.job = db.job /\ db'.unsettled = db.unsettled
    BY <1>5, LogFields DEF Ready
  <2>3. ~MayRun /\ ~MayRun'
    BY <1>5, CalmIsColder DEF Ready, Guarded
  <2>4. Guarded' /\ Costly'
    BY <1>5, <2>2, <2>3 DEF Guarded, Costly, Ready
  <2>5. Attends(w)'
    BY <2>1, <2>2 DEF Attends, Heeds, Minds, Launches, Path, Working, Bringing
  <2> QED
    BY <1>1, <2>1, <2>2, <2>4, <2>5, HolderKeeps
<1>6. CASE db.log = "interrupted" /\ UNCHANGED db /\ Go(w, "drop")
  <2>1. h'[w].pc = "drop" /\ h'[w].abort = "none" /\ Others(w)
    BY <1>2, <1>6, GoSees DEF Ready
  <2>2. Attends(w)'
    BY <1>6, <2>1 DEF Attends, Heeds, Minds, Launches, Path, Working, Bringing
  <2>3. Lasts(w)
    BY <1>1 DEF Lasts, Drops
  <2> QED
    BY <1>1, <1>6, <2>1, <2>2, <2>3, SameRecords, SameFiles, QuietKeeps DEF Others
<1>7. CASE UNCHANGED db /\ Go(w, "report")
  <2>1. h'[w].pc = "report" /\ h'[w].abort = h[w].abort /\ Others(w)
    BY <1>7, GoSees DEF Ready
  <2> QED
    BY <1>1, <1>7, <2>1, SameRecords, SameFiles, RestKeeps DEF Working, Bringing, Path
<1> QED
  BY <1>3, <1>4, <1>5, <1>6, <1>7 DEF RecoverTurn

LEMMA SettleResultKeeps ==
  ASSUME Ready, Calm, Clocks, NEW w \in Worker, SettleResult(w)
  PROVE  Kept
<1>1. /\ h[w].pc = "settle" /\ h[w].pc \notin Path \cup {"drop"} /\ h[w].pc \in Working
      /\ Holds(w, "turn") /\ UNCHANGED disk /\ db.result \in Ended
  BY DEF SettleResult, At, Path, Working
<1>2. db.log = "running"
  BY <1>1 DEF Ready, Attended, Attends, Minds
<1>3. ~MayRun
  BY <1>1 DEF Ready, Guarded, Ended
<1>4. PICK status \in Ended : EndTurn(w, status)
  BY <1>1 DEF SettleResult, Ended
<1> QED
  BY <1>1, <1>2, <1>3, <1>4, EndTurnKeeps

LEMMA SettleUnknownKeeps ==
  ASSUME Ready, Calm, Clocks, NEW w \in Worker, SettleUnknown(w)
  PROVE  Kept
<1>1. /\ h[w].pc \in Working /\ h[w].pc \notin {"idle", "open"}
      /\ Holds(w, "turn") /\ UNCHANGED disk
      /\ db' = [db EXCEPT !.log = "needs_reconciliation"]
      /\ h'[w].pc = "report" /\ h'[w].abort = h[w].abort /\ Others(w)
  BY GoSees DEF SettleUnknown, At, Working, Ready
<1>2. db.log = "running"
  BY <1>1 DEF Ready, Attended, Attends, Minds
<1>3. /\ db'.log = "needs_reconciliation" /\ db'.exec = db.exec /\ db'.result = db.result
      /\ db'.cancel = db.cancel /\ db'.phase = db.phase /\ db'.job = db.job
      /\ db'.unsettled = db.unsettled
  BY <1>1, LogFields DEF Ready
<1>4. Guarded' /\ Costly'
  BY <1>1, <1>2, <1>3, CalmIsColder DEF Ready, Guarded, Costly
<1>5. Attends(w)'
  BY <1>1, <1>3, RestAttends DEF Working, Bringing, Path
<1> QED
  BY <1>1, <1>3, <1>4, <1>5, HolderKeeps

(* What a person says of a candidate: no Runner that made one can be at work. *)
LEMMA DecideKeeps ==
  ASSUME Ready, Calm, Clocks, UNCHANGED <<h, disk>>, db.result = "waiting_approval",
         \/ \E result \in {"completed", "cancelled"} : db' = [db EXCEPT !.result = result]
         \/ db.exec = "running" /\ db' = [db EXCEPT !.exec = "failed"]
  PROVE  Kept
<1>1. ~MayRun /\ ~MayRun'
  BY CalmIsColder DEF Ready, Guarded
<1>2. /\ db'.exec \in {db.exec, "failed"} /\ db'.cancel = db.cancel /\ db'.log = db.log
      /\ db'.job = db.job /\ db'.unsettled = db.unsettled /\ db'.result # "none"
      /\ db'.exec # db.exec => db'.exec = "failed"
  BY DEF Ready, TypeOK, Records
<1>3. Guarded' /\ Costly'
  BY <1>1, <1>2 DEF Ready, Guarded, Costly
<1>4. ASSUME NEW v \in Worker PROVE Undisturbed(v)
  <2>1. Holds(v, "turn") => h[v].pc # "check"
    BY DEF Ready, FirstResult, Bringing, Path
  <2> QED
    BY <1>2, <2>1 DEF Undisturbed, Holds
<1> QED
  BY <1>2, <1>3, <1>4, StillKeeps DEF FilesStay

LEMMA AbandonKeeps ==
  ASSUME Ready, Calm, Clocks, NEW w \in Worker, AbandonCandidate(w)
  PROVE  Kept
<1>1. /\ h[w].pc = "settle" /\ h[w].pc \in Working /\ db.result = "waiting_approval"
      /\ UNCHANGED <<db, disk>>
      /\ h'[w].pc = "fail" /\ h'[w].abort = h[w].abort /\ Others(w)
  BY GoSees DEF AbandonCandidate, AwaitsDecision, At, Working, Ready
<1>2. ~MayRun
  BY <1>1 DEF Ready, Guarded
<1> QED
  BY <1>1, <1>2, SameRecords, SameFiles, ColdKeeps DEF Path

LEMMA FailTurnKeeps ==
  ASSUME Ready, Calm, Clocks, NEW w \in Worker, FailTurn(w)
  PROVE  Kept
<1>1. /\ h[w].pc = "fail" /\ h[w].pc \notin Path \cup {"drop"} /\ h[w].pc \in Working
      /\ Holds(w, "turn") /\ UNCHANGED disk
  BY DEF FailTurn, At, Path, Working
<1>2. Heeds(h[w]) /\ Minds(h[w])
  BY <1>1 DEF Ready, Attended, Attends
<1>3. db.log = "running"
  BY <1>1, <1>2 DEF Minds
<1>4. MayRun => \/ db.exec # "running" \/ h[w].abort = "late"
                \/ h[w].abort = "stop" /\ faults > 1
  BY <1>1, <1>2 DEF Minds
<1>5. h[w].abort = "late" => late
  BY <1>2 DEF Heeds
<1>6. CASE /\ h[w].abort = "stop" /\ db' = [db EXCEPT !.log = "interrupted"] /\ Go(w, "drop")
  <2>1. h'[w].pc = "drop" /\ h'[w].abort = "stop" /\ Others(w)
    BY <1>6, GoSees DEF Ready
  <2>2. /\ db'.log = "interrupted" /\ db'.exec = db.exec /\ db'.result = db.result
        /\ db'.cancel = db.cancel /\ db'.phase = db.phase /\ db'.job = db.job
        /\ db'.unsettled = db.unsettled
    BY <1>6, LogFields DEF Ready
  <2>3. Guarded'
    BY <1>1, <1>3, <2>2, CalmIsColder DEF Ready, Guarded
  <2>4. Dropping'
    BY <1>1, <2>1, <2>2 DEF Dropping, Drops, Holds
  <2>5. MayRun /\ db.exec = "running" => faults > 1
    BY <1>4, <1>6
  <2>6. Costly'
    BY <2>2, <2>4, <2>5, CalmIsColder, ClocksGrow DEF Costly
  <2>7. Attends(w)'
    BY <2>1, <2>2 DEF Attends, Heeds, Minds, Launches, Path, Working, Bringing
  <2> QED
    BY <1>1, <2>1, <2>2, <2>3, <2>6, <2>7, HolderKeeps
<1>7. CASE /\ ~(h[w].abort = "stop" /\ ~late)
           /\ EndTurn(w, IF late THEN "paused" ELSE "failed")
  <2>1. CASE late
    BY <1>1, <1>3, <1>7, <2>1, EndTurnKeeps DEF Ended
  <2>2. CASE ~late
    <3>1. MayRun => db.exec # "running"
      BY <1>4, <1>5, <1>7, <2>2
    <3> QED
      BY <1>1, <1>3, <1>7, <2>2, <3>1, EndTurnKeeps DEF Ended
  <2> QED
    BY <2>1, <2>2
<1> QED
  BY <1>6, <1>7 DEF FailTurn

LEMMA ReportKeeps ==
  ASSUME Ready, Calm, Clocks, NEW w \in Worker, ReportUnknown(w)
  PROVE  Kept
<1>1. /\ h[w].pc = "report" /\ h[w].pc \notin Path \cup {"drop"} /\ UNCHANGED <<db, disk>>
      /\ \/ h'[w].pc = "mark"
         \/ h'[w].pc = "drop" /\ (h[w].abort = "stop" \/ db.exec = "cancelled")
      /\ h'[w].abort = h[w].abort /\ Others(w)
  BY GoSees DEF ReportUnknown, At, Path, Ready
<1>2. CASE h'[w].pc = "mark"
  BY <1>1, <1>2, SameRecords, SameFiles, RestKeeps DEF Working, Bringing, Path
<1>3. CASE h'[w].pc = "drop" /\ (h[w].abort = "stop" \/ db.exec = "cancelled")
  <2>1. Heeds(h[w])
    BY DEF Ready, Attended, Attends
  <2>2. Attends(w)'
    BY <1>1, <1>3, <2>1, ClocksGrow
    DEF Attends, Heeds, Minds, Launches, Path, Working, Bringing
  <2>3. Lasts(w)
    BY <1>1 DEF Lasts, Drops
  <2> QED
    BY <1>1, <1>3, <2>2, <2>3, SameRecords, SameFiles, QuietKeeps DEF Others
<1> QED
  BY <1>1, <1>2, <1>3

LEMMA MarkKeeps ==
  ASSUME Ready, Calm, Clocks, NEW w \in Worker, MarkUnknown(w)
  PROVE  Kept
<1>1. /\ Holds(w, "turn") /\ UNCHANGED disk
      /\ h'[w].pc = "idle" /\ h'[w].abort = "none" /\ Others(w)
      /\ db' = [db EXCEPT !.exec = "needs_reconciliation", !.job["turn"] = "done"]
  BY LeaveSees DEF MarkUnknown, Ready
<1>2. /\ db'.exec = "needs_reconciliation" /\ db'.job["turn"] = "done" /\ db'.log = db.log
      /\ db'.cancel = db.cancel /\ db'.unsettled = db.unsettled
      /\ db'.result = db.result /\ db'.phase = db.phase
  BY <1>1 DEF Ready, TypeOK, Records, Job
<1>3. "done" \notin Worker
  OBVIOUS
<1> QED
  BY <1>1, <1>2, <1>3, GivenUp DEF Working, Bringing, Path, Closed, Holds

LEMMA DropKeeps ==
  ASSUME Ready, Calm, Clocks, NEW w \in Worker, DropTurn(w)
  PROVE  Kept
<1> DEFINE stop == h[w].abort = "stop"
           status == Dropped(stop)
<1>1. /\ h[w].pc = "drop" /\ Holds(w, "turn") /\ UNCHANGED disk
      /\ h'[w].pc = "idle" /\ h'[w].abort = "none" /\ Others(w)
  BY LeaveSees DEF DropTurn, At, Ready
<1>2. "done" \notin Worker /\ db.exec # "queued"
  BY <1>1 DEF Ready, Guarded, Holds
<1>3. CASE UNCHANGED db /\ db.exec \in Ended
  BY <1>1, <1>2, <1>3, GivenUp DEF Working, Bringing, Path, Ended, Ready, Guarded
<1>4. CASE db' = [db EXCEPT !.job["turn"] = "done", !.exec = status]
  <2>1. /\ db'.exec = status /\ db'.job["turn"] = "done" /\ db'.log = db.log
        /\ db'.cancel = db.cancel /\ db'.unsettled = db.unsettled
        /\ db'.result = db.result /\ db'.phase = db.phase
    <3> HIDE DEF status
    <3> QED
      BY <1>4 DEF Ready, TypeOK, Records, Job
  <2>2. status \notin {"queued", "running"}
    BY <1>2 DEF Dropped
  <2>3. ASSUME MayRun, status \in Closed PROVE faults > 2 /\ db.log = "interrupted"
    <3>1. CASE db.exec # "running"
      BY <2>3, <3>1 DEF Ready, Guarded, Dropped
    <3>2. CASE db.exec = "running"
      <4>1. ~stop
        BY <2>3, <3>2 DEF Dropped, Closed
      <4>2. db.log = "interrupted"
        BY <1>1, <3>2, <4>1 DEF Ready, Attended, Attends, Minds
      <4>3. ~Dropping
        BY <1>1, <4>1 DEF Dropping, Drops, Holds
      <4> QED
        BY <2>3, <3>2, <4>2, <4>3 DEF Ready, Costly
    <3> QED
      BY <3>1, <3>2
  <2> HIDE DEF status
  <2> QED
    BY <1>1, <1>2, <2>1, <2>2, <2>3, GivenUp DEF Working, Bringing, Path, Holds
<1> QED
  BY <1>3, <1>4 DEF DropTurn

LEMMA ClaimKeeps ==
  ASSUME Ready, Calm, Clocks, NEW w \in Worker, ClaimTurn(w)
  PROVE  Kept
<1>1. /\ h[w].pc = "idle" /\ UNCHANGED disk /\ db.job["turn"] = "available"
      /\ \A v \in Worker : ~Holds(v, "turn")
  <2>1. "available" \notin Worker
    OBVIOUS
  <2> QED
    BY <2>1 DEF ClaimTurn, Fit, At, Holds
<1>2. CASE /\ db.exec \in {"queued", "running"} /\ Go(w, "open")
           /\ db' = [db EXCEPT !.exec = "running", !.job["turn"] = w]
  <2>1. /\ db'.exec = "running" /\ db'.job["turn"] = w /\ db'.log = db.log
        /\ db'.cancel = db.cancel /\ db'.unsettled = db.unsettled
        /\ db'.result = db.result /\ db'.phase = db.phase
    BY <1>2 DEF Ready, TypeOK, Records, Job
  <2>2. h'[w].pc = "open" /\ h'[w].abort = h[w].abort /\ Others(w)
    BY <1>2, GoSees DEF Ready
  <2>3. Attends(w)'
    BY <1>1, <2>1, <2>2, RestAttends DEF Working, Bringing, Path
  <2>4. MayRun => db.exec = "running"
    <3>1. ~Unbegun => db.exec # "queued"
      BY DEF Ready, Guarded, Unbegun
    <3> QED
      BY <1>2, <3>1, BeginningIsCold
  <2>5. Guarded'
    <3>1. ~db'.cancel
      BY <1>2, <2>1 DEF Ready, Guarded
    <3>2. disk'.sandbox = disk.sandbox /\ db'.exec \notin Closed \cup {"queued"}
      BY <1>1, <2>1 DEF Closed
    <3> QED
      BY <2>1, <3>1, <3>2, CalmIsColder DEF Ready, Guarded
  <2>6. ~Carried /\ ~Dropping
    BY <1>1 DEF Carried, Dropping
  <2>7. Costly'
    BY <2>1, <2>4, <2>6, CalmIsColder, ClocksGrow DEF Ready, Costly
  <2>8. \A v \in Worker : v # w => Undisturbed(v)
    BY <2>1 DEF Undisturbed, Holds
  <2> QED
    BY <1>1, <2>1, <2>2, <2>3, <2>5, <2>7, <2>8, HandlerKeeps DEF FilesStay, Others
<1>3. CASE db' = [db EXCEPT !.job["turn"] = "done"] /\ UNCHANGED h
  <2>1. /\ db'.exec = db.exec /\ db'.job["turn"] = "done" /\ db'.log = db.log
        /\ db'.cancel = db.cancel /\ db'.unsettled = db.unsettled
        /\ db'.result = db.result /\ db'.phase = db.phase
    BY <1>3 DEF Ready, TypeOK, Records, Job
  <2>2. "done" \notin Worker
    OBVIOUS
  <2>3. SameLife /\ FilesStay /\ \A v \in Worker : SameHolder(v)
    BY <1>1, <2>1, <2>2 DEF SameLife, FilesStay, SameHolder, Holds
  <2> QED
    BY <1>3, <2>3, QuietStillKeeps
<1> QED
  BY <1>2, <1>3 DEF ClaimTurn
-------------------------------------------------------------------------------
(* The other jobs *)

LEMMA ClaimSideKeeps ==
  ASSUME Ready, Calm, Clocks, NEW w \in Worker, NEW j \in Job, ClaimSideJob(w, j)
  PROVE  Kept
<1>1. /\ h[w].pc = "idle" /\ UNCHANGED disk /\ j # "turn" /\ db' = [db EXCEPT !.job[j] = w]
      /\ \E pc \in {"retain", "delete"} : Go(w, pc)
  BY DEF ClaimSideJob, Fit, At
<1>2. h'[w].pc \in {"retain", "delete"} /\ h'[w].abort = h[w].abort /\ Others(w)
  BY <1>1, GoSees DEF Ready
<1>3. /\ db'.exec = db.exec /\ db'.job["turn"] = db.job["turn"] /\ db'.log = db.log
      /\ db'.cancel = db.cancel /\ db'.unsettled = db.unsettled
      /\ db'.result = db.result /\ db'.phase = db.phase
  BY <1>1 DEF Ready, TypeOK, Records, Job
<1>4. SameLife /\ FilesStay /\ \A v \in Worker : SameHolder(v)
  BY <1>1, <1>3 DEF SameLife, FilesStay, SameHolder, Holds
<1> QED
  BY <1>1, <1>2, <1>4, RestKeeps DEF Working, Bringing, Path

LEMMA VerifyKeeps ==
  ASSUME Ready, Calm, Clocks, NEW w \in Worker, VerifyCandidate(w)
  PROVE  Kept
<1>1. /\ h[w].pc = "retain" /\ UNCHANGED <<db, disk>>
      /\ \/ \E verdict : h' = [h EXCEPT ![w].pc = "verdict", ![w].outcome = verdict]
         \/ Go(w, "close")
  BY DEF VerifyCandidate, At
<1>2. h'[w].pc \in {"verdict", "close"} /\ h'[w].abort = h[w].abort /\ Others(w)
  <2>1. CASE \E verdict : h' = [h EXCEPT ![w].pc = "verdict", ![w].outcome = verdict]
    BY <2>1 DEF Ready, TypeOK, Handler, Others
  <2> QED
    BY <1>1, <2>1, GoSees DEF Ready
<1> QED
  BY <1>1, <1>2, SameRecords, SameFiles, RestKeeps DEF Working, Bringing, Path

LEMMA VerdictKeeps ==
  ASSUME Ready, Calm, Clocks, NEW w \in Worker, RecordVerdict(w)
  PROVE  Kept
<1>1. h[w].pc = "verdict" /\ UNCHANGED disk /\ Go(w, "close")
  BY DEF RecordVerdict, At
<1>2. h'[w].pc = "close" /\ h'[w].abort = h[w].abort /\ Others(w)
  BY <1>1, GoSees DEF Ready
<1>3. ~MayRun /\ ~MayRun' /\ ~Unbegun
  <2>1. Known
    BY <1>1 DEF Known, Relied, Counts
  <2> QED
    BY <2>1, RelianceIsCold, CalmIsColder
<1>4. /\ db'.exec \in {db.exec, "completed"} /\ db'.log = db.log
      /\ db'.cancel = db.cancel /\ db'.unsettled = db.unsettled
      /\ db'.result \in {db.result, "completed"} /\ db'.job["turn"] = db.job["turn"]
  <2>1. \/ db' \in {db, [db EXCEPT !.verification = "failed"]}
        \/ db' = [db EXCEPT !.exec = "completed", !.result = "completed", !.phase = "settled",
                   !.verification = "passed", !.cleanup = "pending", !.job["cleanup"] = "available"]
    BY DEF RecordVerdict
  <2>2. CASE db' \in {db, [db EXCEPT !.verification = "failed"]}
    BY <2>2 DEF Ready, TypeOK, Records
  <2>3. CASE db' = [db EXCEPT !.exec = "completed", !.result = "completed", !.phase = "settled",
                     !.verification = "passed", !.cleanup = "pending",
                     !.job["cleanup"] = "available"]
    BY <2>3 DEF Ready, TypeOK, Records, Job
  <2> QED
    BY <2>1, <2>2, <2>3
<1>5. Guarded' /\ Costly'
  BY <1>3, <1>4 DEF Ready, Guarded, Costly, Holds
<1>6. ASSUME NEW v \in Worker PROVE Undisturbed(v)
  <2>1. ~Waits(h[v])
    BY <1>3 DEF Unbegun
  <2> QED
    BY <1>4, <2>1 DEF Undisturbed, Holds, Waits, Early
<1>7. Attends(w)'
  BY <1>1, <1>2, <1>4, RestAttends DEF Working, Bringing, Path
<1> QED
  BY <1>1, <1>2, <1>4, <1>5, <1>6, <1>7, HandlerKeeps DEF FilesStay, Others

LEMMA DeleteKeeps ==
  ASSUME Ready, Calm, Clocks, NEW w \in Worker, DeleteSandbox(w) \/ DeleteProof(w)
  PROVE  Kept
<1>1. /\ h[w].pc \in {"delete", "forget"} /\ UNCHANGED db
      /\ ProvedStopped \/ UNCHANGED disk
      /\ \E pc \in {"forget", "cleaned", "close"} : Go(w, pc)
  BY DEF DeleteSandbox, DeleteProof, At
<1>2. h'[w].pc \in {"forget", "cleaned", "close"} /\ h'[w].abort = h[w].abort /\ Others(w)
  BY <1>1, GoSees DEF Ready
<1>3. FilesStay \/ Alone(w)
  BY <1>1, SameFiles, RelianceIsCold DEF Alone, Known
<1> QED
  BY <1>1, <1>2, <1>3, SameRecords, RestKeeps DEF Working, Bringing, Path

LEMMA CleanedKeeps ==
  ASSUME Ready, Calm, Clocks, NEW w \in Worker, RecordCleaned(w) \/ CloseSideJob(w)
  PROVE  Kept
<1>1. /\ h[w].pc \in {"cleaned", "close"} /\ UNCHANGED disk
      /\ Go(w, "close") \/ Leave(w)
  BY DEF RecordCleaned, CloseSideJob, At
<1>2. /\ \/ h'[w].pc = "close" /\ h'[w].abort = h[w].abort
         \/ h'[w].pc = "idle" /\ h'[w].abort = "none"
      /\ Others(w)
  BY <1>1, GoSees, LeaveSees DEF Ready
<1>3. /\ db'.exec = db.exec /\ db'.job["turn"] = db.job["turn"] /\ db'.log = db.log
      /\ db'.cancel = db.cancel /\ db'.unsettled = db.unsettled
      /\ db'.result = db.result /\ db'.phase = db.phase
  <2>1. CASE RecordCleaned(w)
    BY <2>1 DEF RecordCleaned, Ready, TypeOK, Records
  <2>2. CASE CloseSideJob(w)
    BY <2>2 DEF CloseSideJob, Ready, TypeOK, Records, Job
  <2> QED
    BY <2>1, <2>2
<1>4. SameLife /\ FilesStay /\ \A v \in Worker : SameHolder(v)
  BY <1>1, <1>3 DEF SameLife, FilesStay, SameHolder, Holds
<1> QED
  BY <1>1, <1>2, <1>4, RestKeeps DEF Working, Bringing, Path
-------------------------------------------------------------------------------
(* What a handler learns, time, faults *)

LEMMA HangupStays ==
  ASSUME Ready, UNCHANGED db, disk' \in {disk, Hangup}
  PROVE  FilesStay
BY DEF FilesStay, Hangup, Ready, TypeOK, Machine

(* A signal that is aborted changes nothing but what the handler knows. *)
LEMMA AbortKeeps ==
  ASSUME Ready, Calm, Clocks, NEW w \in Worker, NEW reason \in {"user", "stop", "late"},
         Abort(w, reason), h[w].pc \in Interruptible \cup {"fail", "retain"}, UNCHANGED db,
         reason = "user" => db.cancel,
         reason = "late" => late,
         h[w].pc = "fail" => reason = "stop",
         reason = "stop" => faults' > faults \/ ~Holds(w, "turn")
  PROVE  Kept
<1>1. /\ h[w].abort = "none" /\ h' = [h EXCEPT ![w].abort = reason]
      /\ disk' \in {disk, Hangup}
  BY DEF Abort
<1>2. /\ h'[w].pc = h[w].pc /\ h'[w].outcome = h[w].outcome /\ h'[w].next = h[w].next
      /\ h'[w].keep = h[w].keep /\ h'[w].checkpoint = h[w].checkpoint
      /\ h'[w].launched = h[w].launched /\ h'[w].abort = reason
      /\ Others(w)
  BY <1>1 DEF Ready, TypeOK, Handler, Others
<1>3. FilesStay
  BY <1>1, HangupStays
<1>4. Heeds(h[w]) /\ (Holds(w, "turn") => Minds(h[w]))
  BY DEF Ready, Attended, Attends
<1>5. Heeds(h[w])'
  <2>1. h[w].pc \notin {"idle", "open"}
    BY DEF Interruptible
  <2> QED
    BY <1>2, <1>3, <1>4, <2>1, CalmIsColder, ClocksGrow
    DEF Heeds, Launches, FilesStay, Calm, CalmDisk
<1>6. ASSUME Holds(w, "turn"), MayRun, h[w].pc = "await", reason = "stop"
      PROVE  db.exec # "running" \/ faults' > 1
  <2>1. db.log = "running" /\ db.result = "none"
    BY <1>4, <1>6 DEF Minds, Working, Bringing, Ready, FirstResult
  <2>2. ~Carried
    BY <1>6 DEF Carried, Holds, Path
  <2> QED
    BY <1>6, <2>1, <2>2, ClocksGrow DEF Ready, Costly
<1>7. ASSUME Holds(w, "turn")' PROVE Minds(h[w])'
  <2>1. Holds(w, "turn") /\ Minds(h[w])
    BY <1>4, <1>7 DEF Holds
  <2>2. h[w].pc # "drop"
    BY DEF Interruptible
  <2>3. MayRun /\ h[w].pc = "fail" => db.exec # "running"
    BY <1>1, <2>1 DEF Minds
  <2> QED
    BY <1>2, <1>6, <2>1, <2>2, <2>3, CalmIsColder DEF Minds
<1>8. Lasts(w)
  BY <1>2 DEF Lasts, Holds, Drops, Interruptible
<1> QED
  BY <1>2, <1>3, <1>5, <1>7, <1>8, SameRecords, QuietKeeps DEF Attends, Others

LEMMA FaultCounts == Ready /\ faults' = faults + 1 => faults' > faults
<1>1. Ready => faults \in Nat
  <2>1. MaxFaults \in Nat
    OBVIOUS
  <2> QED
    BY <2>1 DEF Ready, TypeOK
<1> QED
  BY <1>1

LEMMA SignalKeeps ==
  ASSUME Ready, Calm, Clocks, NEW w \in Worker,
         SeeCancel(w) \/ SeeLostLease(w) \/ SeeDeadline(w) \/ StopWorker(w)
  PROVE  Kept
<1>1. CASE SeeCancel(w)
  BY <1>1, AbortKeeps DEF SeeCancel, Interruptible
<1>2. CASE SeeLostLease(w)
  BY <1>2, AbortKeeps DEF SeeLostLease
<1>3. CASE SeeDeadline(w)
  BY <1>3, AbortKeeps DEF SeeDeadline, Interruptible
<1>4. CASE StopWorker(w)
  BY <1>4, FaultCounts, AbortKeeps DEF StopWorker
<1> QED
  BY <1>1, <1>2, <1>3, <1>4

LEMMA CrashKeeps ==
  ASSUME Ready, Calm, Clocks, NEW w \in Worker, Crash(w)
  PROVE  Kept
<1>1. Leave(w) /\ disk' \in {disk, Hangup} /\ faults' = faults + 1 /\ UNCHANGED db
  BY DEF Crash
<1>2. h'[w].pc = "idle" /\ h'[w].abort = "none" /\ Others(w)
  BY <1>1, LeaveSees DEF Ready
<1> QED
  BY <1>1, <1>2, HangupStays, FaultCounts, SameRecords, RestKeeps DEF Working, Bringing, Path

LEMMA TimeKeeps ==
  ASSUME Ready, Calm, Clocks, RunOutOfTime
  PROVE  Kept
<1>1. UNCHANGED <<db, disk, h>>
  BY DEF RunOutOfTime
<1> QED
  BY <1>1, SameRecords, SameFiles, QuietStillKeeps

LEMMA LeaseKeeps ==
  ASSUME Ready, Calm, Clocks, NEW j \in Job, LeaseExpires(j) \/ LeaseLapses(j)
  PROVE  Kept
<1>1. /\ UNCHANGED <<disk, h>> /\ db' = [db EXCEPT !.job[j] = "available"]
      /\ faults' = faults + 1 \/ h[db.job[j]].pc = "idle"
  BY DEF LeaseExpires, LeaseLapses, At
<1>2. /\ db'.exec = db.exec /\ db'.log = db.log
      /\ db'.job["turn"] \in {db.job["turn"], "available"}
      /\ j # "turn" => db'.job["turn"] = db.job["turn"]
      /\ db'.cancel = db.cancel /\ db'.unsettled = db.unsettled
      /\ db'.result = db.result /\ db'.phase = db.phase
  BY <1>1 DEF Ready, TypeOK, Records, Job
<1>3. "available" \notin Worker
  OBVIOUS
<1>4. SameLife /\ FilesStay
  BY <1>1, <1>2, <1>3 DEF SameLife, FilesStay, Holds
<1>5. \A v \in Worker : SameHolder(v)
  BY <1>1, <1>2, FaultCounts DEF SameHolder, Holds, Path
<1> QED
  BY <1>1, <1>4, <1>5, QuietStillKeeps
-------------------------------------------------------------------------------
(* People *)

LEMMA CancelKeeps ==
  ASSUME Ready, Calm, Clocks, CancelExecution
  PROVE  Kept
<1> DEFINE exec == IF db.exec = "needs_reconciliation" \/ db.unsettled # {}
                   THEN "needs_reconciliation" ELSE "cancelled"
<1>1. UNCHANGED <<disk, h>> /\ db' = [db EXCEPT !.cancel = TRUE, !.exec = exec]
  BY DEF CancelExecution
<1>2. /\ db'.exec = exec /\ db'.log = db.log /\ db'.job = db.job /\ db'.cancel
      /\ db'.unsettled = db.unsettled /\ db'.result = db.result /\ db'.phase = db.phase
  <2> HIDE DEF exec
  <2> QED
    BY <1>1 DEF Ready, TypeOK, Records
<1>3. exec \in {"needs_reconciliation", "cancelled"}
  OBVIOUS
<1>4. "runner" \in db.unsettled => exec = "needs_reconciliation"
  OBVIOUS
<1> HIDE DEF exec
<1>5. Guarded' /\ Costly'
  <2>1. exec \notin {"queued", "running"}
    BY <1>3
  <2>2. MayRun => exec \notin Closed
    BY <1>4 DEF Ready, Guarded, Closed
  <2>3. Guarded'
    BY <1>1, <1>2, <2>1, <2>2, CalmIsColder DEF Ready, Guarded
  <2> QED
    BY <1>2, <2>1, <2>3 DEF Costly
<1>6. ASSUME NEW v \in Worker PROVE Undisturbed(v)
  <2>1. h[v].pc = "check" /\ ~h[v].checkpoint => "runner" \in db.unsettled
    BY DEF Ready, Attended, Attends, Heeds
  <2> QED
    BY <1>2, <1>3, <1>4, <2>1 DEF Undisturbed, Holds, Closed
<1> QED
  BY <1>1, <1>2, <1>5, <1>6, StillKeeps DEF FilesStay

LEMMA TerminateKeeps ==
  ASSUME Ready, Calm, Clocks, NEW newCall \in BOOLEAN, Terminate(newCall)
  PROVE  Kept
<1>1. /\ UNCHANGED <<disk, h>> /\ db.stopped
      /\ db' = [db EXCEPT !.exec = "cancelled", !.result = "cancelled", !.phase = "settled",
                  !.cleanup = "pending", !.replaced = newCall,
                  !.verification = IF @ = "pending" THEN "failed" ELSE @,
                  !.job["cleanup"] = "available",
                  !.job["verify"] = IF db.verification = "pending" THEN "done" ELSE @]
  BY DEF Terminate, MayDecide
<1>2. /\ db'.exec = "cancelled" /\ db'.log = db.log /\ db'.job["turn"] = db.job["turn"]
      /\ db'.cancel = db.cancel /\ db'.unsettled = db.unsettled /\ db'.result = "cancelled"
  BY <1>1 DEF Ready, TypeOK, Records, Job
<1>3. ~MayRun /\ ~MayRun' /\ ~Unbegun
  BY <1>1, RelianceIsCold, CalmIsColder DEF Known, Relied
<1>4. Guarded' /\ Costly'
  BY <1>2, <1>3 DEF Guarded, Costly
<1>5. ASSUME NEW v \in Worker PROVE Undisturbed(v)
  <2>1. ~Waits(h[v])
    BY <1>3 DEF Unbegun
  <2> QED
    BY <1>2, <2>1 DEF Undisturbed, Holds, Waits, Early
<1> QED
  BY <1>1, <1>2, <1>4, <1>5, StillKeeps DEF FilesStay

LEMMA RequestKeeps ==
  ASSUME Ready, Calm, Clocks, RequestVerification
  PROVE  Kept
<1>1. /\ UNCHANGED <<disk, h>>
      /\ db' = [db EXCEPT !.verification = "pending", !.job["verify"] = "available"]
  BY DEF RequestVerification
<1>2. /\ db'.exec = db.exec /\ db'.log = db.log /\ db'.job["turn"] = db.job["turn"]
      /\ db'.cancel = db.cancel /\ db'.unsettled = db.unsettled /\ db'.result = db.result
      /\ db'.phase = db.phase
  BY <1>1 DEF Ready, TypeOK, Records, Job
<1>3. SameLife /\ FilesStay /\ \A v \in Worker : SameHolder(v)
  BY <1>1, <1>2 DEF SameLife, FilesStay, SameHolder, Holds
<1> QED
  BY <1>1, <1>3, QuietStillKeeps
-------------------------------------------------------------------------------
(* The steps that are not calm *)

LEMMA LoudKeeps ==
  ASSUME Ready, Clocks, NEW w \in Worker, Others(w), db.cancel => db'.cancel, MayRun' => MayRun,
         \A v \in Worker : v # w => Spared(v) /\ Undisturbed(v),
         Attends(w)', Guarded', Costly'
  PROVE  Kept
<1>1. \A v \in Worker : v # w => Attends(v)'
  BY OthersAttend DEF Others
<1> QED
  BY <1>1 DEF Kept, Attended

LEMMA StartKeeps ==
  ASSUME Ready, Clocks, NEW w \in Worker, StartTurn(w)
  PROVE  Kept
<1>1. /\ h[w].pc = "open" /\ Holds(w, "turn") /\ db.log = "queued" /\ UNCHANGED disk
      /\ db' = [db EXCEPT !.log = "running"]
      /\ \E pc \in {"inspect", "fail"} : Go(w, pc)
  BY DEF StartTurn, At
<1>2. /\ h'[w].pc \in {"inspect", "fail"} /\ h'[w].abort = h[w].abort
      /\ h'[w].checkpoint = h[w].checkpoint /\ Others(w)
  BY <1>1, GoSees DEF Ready
<1>3. /\ db'.log = "running" /\ db'.exec = db.exec /\ db'.result = db.result
      /\ db'.cancel = db.cancel /\ db'.phase = db.phase /\ db'.job = db.job
      /\ db'.unsettled = db.unsettled
  BY <1>1, LogFields DEF Ready
<1>4. /\ ~MayRun /\ disk.supervisor = "none" /\ disk.runner = "absent"
  <2>1. Unbegun
    BY <1>1 DEF Unbegun
  <2> QED
    BY <2>1, BeginningIsCold DEF Ready, Machinery, NothingYet
<1>5. ~MayRun'
  BY <1>1, <1>2, <1>4 DEF MayRun, Launches, Others
<1>6. Guarded' /\ Costly'
  BY <1>1, <1>3, <1>5 DEF Ready, Guarded, Costly, Holds
<1>7. Attends(w)'
  <2>1. h[w].abort = "none"
    BY <1>1 DEF Ready, Attended, Attends, Heeds
  <2> QED
    BY <1>1, <1>2, <1>3, <1>4, <1>5, <2>1 DEF Attends, Heeds, Minds, Launches
<1>8. \A v \in Worker : v # w => Spared(v) /\ Undisturbed(v)
  BY <1>1, <1>3 DEF Spared, Undisturbed, Holds
<1> QED
  BY <1>2, <1>3, <1>5, <1>6, <1>7, <1>8, LoudKeeps

(* Somebody is about to launch: it has its approval and a sandbox, its call is unsettled,
   and it carries the turn. *)
LEMMA CheckpointAttended ==
  ASSUME Ready, Clocks, NEW w \in Worker, Checkpoint(w)
  PROVE  Kept
<1>1. /\ h[w].pc = "check" /\ h[w].pc \in Path /\ h[w].pc \in Working
      /\ disk' = [disk EXCEPT !.proof = IF h[w].checkpoint THEN @ ELSE "prepared"]
      /\ UNCHANGED <<late, faults>>
  BY DEF Checkpoint, At, Path, Working, Bringing
<1>2. ~MayRun
  BY <1>1, ColdPlaces
<1>3. Heeds(h[w]) /\ (Holds(w, "turn") => Minds(h[w]))
  BY DEF Ready, Attended, Attends
<1>4. h[w].launched <=> h[w].checkpoint
  BY <1>1 DEF Ready, Machinery, Progress, Sound
<1>5. /\ disk'.sandbox = disk.sandbox /\ disk'.supervisor = disk.supervisor
      /\ disk'.runner = disk.runner
      /\ disk'.proof = IF h[w].checkpoint THEN disk.proof ELSE "prepared"
  BY <1>1 DEF Ready, TypeOK, Machine
<1>6. ~h[w].launched => disk.supervisor = "none" /\ disk.runner = "absent"
  BY <1>1, <1>3 DEF Heeds
<1>7. \A v \in Worker : v # w => h[v].pc \notin Path
  BY <1>1, NobodyElse DEF Ready
<1>8. \A v \in Worker : v # w => Spared(v)
  BY <1>7 DEF Spared, Launches, Path
<1>9. CASE Conclude(w, "needs_reconciliation") /\ UNCHANGED db
  <2>1. /\ h'[w].pc = "commit" /\ h'[w].outcome = "needs_reconciliation"
        /\ h'[w].launched = h[w].launched /\ h'[w].abort = h[w].abort /\ Others(w)
    BY <1>9, ConcludeSees DEF Ready
  <2>2. ~MayRun'
    BY <1>2, <1>4, <1>5, <1>6, <2>1 DEF MayRun, Launches, Others
  <2>3. Guarded' /\ Costly'
    BY <1>9, <2>2 DEF Ready, Guarded, Costly
  <2>4. Attends(w)'
    BY <1>1, <1>3, <1>4, <1>5, <1>6, <1>9, <2>1, <2>2
    DEF Attends, Heeds, Minds, Launches, Holds, Working, Bringing
  <2>5. \A v \in Worker : Undisturbed(v)
    BY <1>9 DEF Undisturbed, Holds
  <2> QED
    BY <1>8, <1>9, <2>1, <2>2, <2>3, <2>4, <2>5, LoudKeeps
<1>10. CASE /\ MayCheckpoint(w)
            /\ db' = [db EXCEPT !.phase = "started", !.stopped = FALSE]
            /\ h' = [h EXCEPT ![w].pc = "launch", ![w].checkpoint = TRUE]
  <2>1. Holds(w, "turn") /\ db.result = "none" /\ db.log = "running"
    BY <1>1, <1>3, <1>10 DEF MayCheckpoint, Minds
  <2>2. /\ h'[w].pc = "launch" /\ h'[w].launched = h[w].launched
        /\ h'[w].abort = h[w].abort /\ Others(w)
    BY <1>10 DEF Ready, TypeOK, Handler, Others
  <2>3. /\ db'.log = db.log /\ db'.exec = db.exec /\ db'.result = db.result
        /\ db'.cancel = db.cancel /\ db'.phase = "started" /\ db'.job = db.job
        /\ db'.unsettled = db.unsettled
    BY <1>10 DEF Ready, TypeOK, Records
  <2>4. ~h[w].checkpoint => disk.sandbox /\ "runner" \in db.unsettled /\ db.exec \notin Closed
    BY <1>1, <1>3, <2>1 DEF Heeds, Minds
  <2>5. h[w].checkpoint => ~MayRun'
    BY <1>2, <1>4, <1>5, <2>2 DEF MayRun, Launches, Others
  <2>6. Guarded'
    BY <1>5, <2>1, <2>3, <2>4, <2>5 DEF Ready, Guarded
  <2>7. Carried'
    BY <2>1, <2>2, <2>3 DEF Carried, Holds, Path
  <2>8. Costly'
    BY <2>1, <2>3, <2>7 DEF Costly
  <2>9. Attends(w)'
    BY <1>1, <1>3, <1>4, <1>5, <1>6, <2>1, <2>2, <2>3
    DEF Attends, Heeds, Minds, Launches, Holds, Working, Bringing
  <2>10. ASSUME NEW v \in Worker, v # w PROVE Attends(v)'
    <3>1. h'[v] = h[v] /\ ~Holds(v, "turn")'
      BY <2>1, <2>2, <2>3, <2>10 DEF Others, Holds
    <3>2. Heeds(h[v])
      BY DEF Ready, Attended, Attends
    <3>3. Heeds(h[v])'
      BY <1>1, <1>7, <2>3, <2>10, <3>1, <3>2 DEF Heeds, Launches, Path
    <3> QED
      BY <3>1, <3>3 DEF Attends
  <2> QED
    BY <2>6, <2>8, <2>9, <2>10 DEF Kept, Attended
<1> QED
  BY <1>9, <1>10 DEF Checkpoint

LEMMA LaunchAttended ==
  ASSUME Ready, Clocks, NEW w \in Worker, Launch(w)
  PROVE  Kept
<1>1. /\ h[w].pc = "launch" /\ h[w].pc \in Path /\ h[w].pc \in Working /\ UNCHANGED db
      /\ UNCHANGED <<late, faults>>
  BY DEF Launch, At, Path, Working, Bringing
<1>2. Heeds(h[w]) /\ (Holds(w, "turn") => Minds(h[w]))
  BY DEF Ready, Attended, Attends
<1>3. \A v \in Worker : v # w => h[v].pc \notin Path
  BY <1>1, NobodyElse DEF Ready
<1>4. PICK pc \in {"commit", "watch"} :
        h'[w].pc = pc /\ (pc = "commit" => h'[w].outcome = "needs_reconciliation")
  BY DEF Launch, Ready, TypeOK, Handler
<1>5. h'[w].launched /\ h'[w].abort = h[w].abort /\ Others(w)
  BY DEF Launch, Ready, TypeOK, Handler, Others
<1>6. /\ disk'.sandbox = disk.sandbox /\ disk'.proof = disk.proof /\ disk'.runner = disk.runner
      /\ disk'.supervisor \in {disk.supervisor, "spawned"}
  BY DEF Launch, Ready, TypeOK, Machine
<1>7. MayRun' => MayRun
  <2>1. CASE ~h[w].launched
    BY <1>1, <2>1 DEF MayRun, Launches
  <2>2. CASE h[w].launched
    <3>1. Relied
      BY <1>1, <2>2 DEF Relied, Counts
    <3>2. Dead
      BY <3>1 DEF Ready, Machinery, ReliedIsDead
    <3> QED
      BY <1>4, <1>5, <1>6, <3>2 DEF MayRun, Dead, Launches, Others
  <2> QED
    BY <2>1, <2>2
<1>8. \A v \in Worker : v # w => Spared(v)
  BY <1>1, <1>3, <1>6 DEF Spared, Launches, Path
<1>9. \A v \in Worker : Undisturbed(v)
  BY <1>1 DEF Undisturbed, Holds
<1>10. FilesStay /\ SameLife
  BY <1>1, <1>6, SameRecords DEF FilesStay
<1>11. \A v \in Worker : Lasts(v)
  BY <1>1, <1>4, <1>5 DEF Lasts, Holds, Drops, Others, Path
<1>12. Guarded' /\ Costly'
  BY <1>1, <1>7, <1>10, <1>11, SameGuarded, CostsStay
<1>13. Attends(w)'
  BY <1>1, <1>2, <1>4, <1>5, <1>7 DEF Attends, Heeds, Minds, Launches, Holds, Path, Working
<1> QED
  BY <1>1, <1>5, <1>7, <1>8, <1>9, <1>12, <1>13, LoudKeeps

LEMMA MachineColder ==
  ASSUME Ready, MachineStep
  PROVE  (MayRun' => MayRun) /\ disk'.sandbox = disk.sandbox
<1>1. UNCHANGED h
  BY DEF MachineStep, SupervisorStarts, RecordRunning, RunnerExits, StopRunner,
         FinishSupervision, OrphanRunner
<1>2. /\ disk'.sandbox = disk.sandbox
      /\ disk'.runner = "alive" =>
           disk.runner = "alive" \/ (disk.supervisor = "spawned" /\ disk.proof = "prepared")
      /\ disk'.supervisor = "spawned" => disk.supervisor = "spawned" /\ disk'.proof = disk.proof
  <2>1. CASE SupervisorStarts
    BY <2>1 DEF Ready, TypeOK, Machine, SupervisorStarts, Prepared, Gone
  <2>2. CASE RecordRunning \/ RunnerExits \/ StopRunner
    BY <2>2 DEF Ready, TypeOK, Machine, RecordRunning, RunnerExits, StopRunner
  <2>3. CASE FinishSupervision \/ OrphanRunner
    BY <2>3 DEF Ready, TypeOK, Machine, FinishSupervision, OrphanRunner, Supervised, Gone
  <2> QED
    BY <2>1, <2>2, <2>3 DEF MachineStep
<1> QED
  BY <1>1, <1>2 DEF MayRun

LEMMA MachineAttended ==
  ASSUME Ready, Clocks, MachineStep
  PROVE  Kept
<1>1. UNCHANGED <<db, h>> /\ (disk.supervisor # "none" \/ disk.runner = "alive")
  BY MachineMoves DEF Ready, Machinery
<1>2. (MayRun' => MayRun) /\ disk'.sandbox = disk.sandbox
  BY MachineColder
<1>3. \A v \in Worker : ~(h[v].pc \in Path /\ ~h[v].launched)
  BY <1>1 DEF Ready, Attended, Attends, Heeds
<1>4. \A v \in Worker : Spared(v)
  BY <1>1, <1>2, <1>3 DEF Spared, Launches, Path
<1>5. \A v \in Worker : Undisturbed(v)
  BY <1>1 DEF Undisturbed, Holds
<1>6. \A v \in Worker : Attends(v)'
  BY <1>1, <1>2, <1>4, <1>5, OthersAttend
<1>7. Guarded'
  BY <1>1, <1>2, ClocksGrow DEF Ready, Guarded
<1>8. \A v \in Worker : Lasts(v)
  BY <1>1 DEF Lasts, Holds, Drops
<1>9. Costly'
  BY <1>1, <1>2, <1>8, CostsStay
<1> QED
  BY <1>6, <1>7, <1>9 DEF Kept, Attended
-------------------------------------------------------------------------------
(* Every step attends *)

LEMMA NextClocks == Next => Clocks
<1> SUFFICES ASSUME Next PROVE Clocks
  OBVIOUS
<1>1. CASE \E w \in Worker : TurnStep(w)
  BY <1>1 DEF Clocks, TurnStep, ClaimTurn, LoseLease, StartTurn, RecoverTurn, InspectRepository,
       PrepareSandbox, Authorize, CheckFails, Checkpoint, Launch, EventsBreak, HarvestRunner,
       StartGate, GateEnds, CommitResult, Unwind, SettleResult, SettleUnknown,
       RejectCandidate, AbandonCandidate, FailTurn, ReportUnknown, MarkUnknown, DropTurn,
       AwaitRunner
<1>2. CASE \E w \in Worker : SideStep(w)
  BY <1>2 DEF Clocks, SideStep, ClaimSideJob, VerifyCandidate, RecordVerdict, DeleteSandbox,
       DeleteProof, RecordCleaned, CloseSideJob
<1>3. CASE \E w \in Worker : \/ SeeCancel(w) \/ SeeLostLease(w) \/ SeeDeadline(w)
                             \/ StopWorker(w) \/ Crash(w)
  BY <1>3 DEF Clocks, SeeCancel, SeeLostLease, SeeDeadline, StopWorker, Crash
<1>4. CASE \/ RunOutOfTime \/ SupervisorStep \/ RunnerExits \/ OrphanRunner \/ PersonStep
           \/ \E j \in Job : LeaseExpires(j) \/ LeaseLapses(j)
  BY <1>4 DEF Clocks, RunOutOfTime, SupervisorStep, RunnerExits, OrphanRunner, PersonStep,
       LeaseExpires, LeaseLapses, SupervisorStarts, RecordRunning, StopRunner,
       FinishSupervision, CancelExecution, DenyCandidate, RequestVerification, Terminate,
       ApproveCandidate
<1> QED
  BY <1>1, <1>2, <1>3, <1>4 DEF Next

LEMMA TurnAttended ==
  ASSUME Ready, Clocks, NEW w \in Worker, TurnStep(w)
  PROVE  Kept
<1>1. CASE StartTurn(w) \/ Checkpoint(w) \/ Launch(w)
  BY <1>1, StartKeeps, CheckpointAttended, LaunchAttended
<1>2. CASE ~(StartTurn(w) \/ Checkpoint(w) \/ Launch(w))
  <2>1. Calm
    BY <1>2, TurnStepCalm DEF Ready
  <2>2. CASE ClaimTurn(w) \/ LoseLease(w) \/ RecoverTurn(w) \/ InspectRepository(w)
               \/ PrepareSandbox(w) \/ Authorize(w) \/ CheckFails(w) \/ EventsBreak(w)
               \/ HarvestRunner(w) \/ StartGate(w) \/ GateEnds(w) \/ CommitResult(w)
    BY <2>1, <2>2, ClaimKeeps, LoseLeaseKeeps, RecoverKeeps, InspectKeeps, PrepareKeeps,
       AuthorizeKeeps, CheckFailsKeeps, EventsBreakKeeps, HarvestKeeps, GateKeeps, CommitKeeps
  <2>3. CASE Unwind(w) \/ SettleResult(w) \/ SettleUnknown(w) \/ AbandonCandidate(w)
               \/ FailTurn(w) \/ ReportUnknown(w) \/ MarkUnknown(w) \/ DropTurn(w)
               \/ AwaitRunner(w)
    BY <2>1, <2>3, UnwindKeeps, SettleResultKeeps, SettleUnknownKeeps, AbandonKeeps,
       FailTurnKeeps, ReportKeeps, MarkKeeps, DropKeeps, AwaitKeeps
  <2>4. CASE RejectCandidate(w)
    BY <2>1, <2>4, DecideKeeps DEF RejectCandidate, AwaitsDecision
  <2> QED
    BY <1>2, <2>2, <2>3, <2>4 DEF TurnStep
<1> QED
  BY <1>1, <1>2

LEMMA RestAttended ==
  ASSUME Ready, Clocks, Next, ~\E w \in Worker : TurnStep(w),
         ~(SupervisorStep \/ RunnerExits \/ OrphanRunner)
  PROVE  Kept
<1>1. Calm
  BY RestCalm DEF Ready
<1>2. CASE \E w \in Worker : SideStep(w)
  BY <1>1, <1>2, ClaimSideKeeps, VerifyKeeps, VerdictKeeps, DeleteKeeps, CleanedKeeps
  DEF SideStep
<1>3. CASE \E w \in Worker : \/ SeeCancel(w) \/ SeeLostLease(w) \/ SeeDeadline(w)
                             \/ StopWorker(w) \/ Crash(w)
  BY <1>1, <1>3, SignalKeeps, CrashKeeps
<1>4. CASE RunOutOfTime \/ \E j \in Job : LeaseExpires(j) \/ LeaseLapses(j)
  BY <1>1, <1>4, TimeKeeps, LeaseKeeps
<1>5. CASE PersonStep
  <2>1. CASE DenyCandidate \/ \E w \in Worker : ApproveCandidate(w)
    BY <1>1, <2>1, DecideKeeps DEF DenyCandidate, ApproveCandidate, AwaitsDecision
  <2> QED
    BY <1>1, <1>5, <2>1, CancelKeeps, RequestKeeps, TerminateKeeps DEF PersonStep
<1> QED
  BY <1>2, <1>3, <1>4, <1>5 DEF Next

LEMMA NextAttended == Ready /\ Next => Kept
<1> SUFFICES ASSUME Ready, Next PROVE Kept
  OBVIOUS
<1>1. Clocks
  BY NextClocks
<1>2. CASE \E w \in Worker : TurnStep(w)
  BY <1>1, <1>2, TurnAttended
<1>3. CASE SupervisorStep \/ RunnerExits \/ OrphanRunner
  <2>1. MachineStep
    BY <1>3 DEF SupervisorStep, MachineStep
  <2> QED
    BY <1>1, <2>1, MachineAttended
<1> QED
  BY <1>1, <1>2, <1>3, RestAttended

Attention == Guarded /\ Costly /\ Attended

LEMMA InitAttention == Init => Attention
<1> SUFFICES ASSUME Init PROVE Attention
  OBVIOUS
<1>1. \A w \in Worker : h[w].pc = "idle" /\ h[w].abort = "none" /\ ~Launches(h[w])
  BY DEF Init, Fresh, Launches
<1>2. /\ db.log = "queued" /\ db.job["turn"] = "available" /\ ~db.cancel
      /\ disk.supervisor = "none" /\ disk.runner = "absent"
  BY DEF Init, Job
<1>3. ~MayRun
  BY <1>1, <1>2 DEF MayRun
<1>4. db.job["turn"] \notin Worker
  BY <1>2
<1>5. Guarded /\ Costly
  BY <1>2, <1>3, <1>4 DEF Guarded, Costly
<1>6. Attended
  BY <1>1, <1>2, <1>4 DEF Attended, Attends, Heeds, Path, Holds
<1> QED
  BY <1>5, <1>6 DEF Attention

LEMMA NextAttention == IInv /\ Attention /\ [Next]_vars => Attention'
<1> SUFFICES ASSUME IInv, Attention, [Next]_vars PROVE Attention'
  OBVIOUS
<1>1. CASE Next
  BY <1>1, NextAttended DEF IInv, Attention, Ready, Kept
<1>2. CASE UNCHANGED vars
  <2>1. UNCHANGED <<db, disk, h, late, faults>>
    BY <1>2 DEF vars
  <2>2. MayRun' = MayRun /\ Carried' = Carried /\ Dropping' = Dropping
    BY <2>1 DEF MayRun, Carried, Dropping, Holds
  <2>3. Guarded' /\ Costly'
    BY <2>1, <2>2 DEF Attention, Guarded, Costly
  <2>4. Attended'
    BY <2>1, <2>2 DEF Attention, Attended, Attends, Heeds, Minds, Holds
  <2> QED
    BY <2>3, <2>4 DEF Attention
<1> QED
  BY <1>1, <1>2

(* Nothing is left at work: a Runner that is alive has its files, and its Execution goes
   on or awaits a person, except where three faults meet the recovery of the turn
   (recoverSubmittedCoding, createCodingExecutionWorkerHandler). *)
THEOREM NothingLeftAtWork == Spec => []NoRunnerBehind
<1>1. Spec => []Attention
  BY Invariance, InitAttention, NextAttention, PTL DEF Spec
<1>2. Attention => NoRunnerBehind
  BY DEF Attention, Guarded, MayRun, Closed, NoRunnerBehind, RunnerAlive
<1> QED
  BY <1>1, <1>2, PTL
===============================================================================

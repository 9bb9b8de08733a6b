-------------------------- MODULE PluginInstallation --------------------------
(***************************************************************************)
(* Installing, updating, disabling and purging plug-ins while several      *)
(* Hosts serve requests and refresh themselves from the signed repository. *)
(*                                                                         *)
(* Every Host runs its installer's operations one after another, but an    *)
(* operation is several database transactions, and other Hosts, requests   *)
(* and Workers run between them.  Two records in the database keep them    *)
(* apart: the operation marker of a plug-in and the use leases of the      *)
(* requests that are using it.  Each action below is one transaction, with *)
(* the changes of the Host's memory that follow it.                        *)
(*                                                                         *)
(* The lifecycle record and the installation row are written together and  *)
(* are one variable here.  A package is its release number.  One workspace *)
(* and one Execution at a time stand for the users of a plug-in.           *)
(***************************************************************************)
EXTENDS Naturals, FiniteSets

CONSTANTS
  Host,        \* the Hosts of the tenant
  Admin,       \* those at which somebody installs, updates, disables or purges
  Front,       \* those that serve workspaces and turns
  Nobody,      \* no operation marker
  Gone,        \* the owner of what a crashed Host left behind
  Plugin,      \* the plug-ins of the repository
  MaxRelease,  \* the repository's releases are 1 .. MaxRelease; 0 is none
  MaxRevoked   \* bound on the releases it revokes

ASSUME PluginAssumption ==
  /\ Admin \subseteq Host /\ Front \subseteq Host
  /\ Nobody \notin Host /\ Gone \notin Host /\ Nobody # Gone
  /\ MaxRelease \in Nat /\ MaxRevoked \in Nat

VARIABLES
  revoked, \* the releases the signed repository revokes
  rec,     \* rec[p]: the installation of p; a purged one keeps its release as the floor
  lock,    \* lock[p]: the release of p in the plug-in lock
  marker,  \* marker[p]: who is changing p
  leases,  \* the use leases
  ws,      \* ws[p]: the workspace has p enabled
  exec,    \* exec[p]: the open Execution of p
  op,      \* op[h]: the installer operation h is in
  req,     \* req[h]: the request h is serving
  host     \* host[h]: the definitions h has loaded, and what it believes of them

durable == <<rec, lock, marker, leases, ws, exec>>
vars == <<revoked, durable, op, req, host>>

Release == 0 .. MaxRelease
Unusable == {"failed", "revoked"}

Rec == [release: Release, status: {"none", "installed", "active", "disabled"} \cup Unusable]

(* cleared and control belong to the generation at work: the Worker's       *)
(* resolver let it through, and a plug-in interrupt was requested for it.   *)
Exec == [status: {"none", "queued", "running", "interrupted"},
         pkg: Release, cleared: BOOLEAN, control: BOOLEAN]

(* fresh: no transaction wrote the row since the operation read its stream   *)
(* version.  plan: the lock it will write, or the releases a refresh found. *)
Op == [kind: {"none", "install", "update", "disable", "purge", "activate", "sync"},
       pc: {"idle", "begin", "drain", "commit", "verify", "load", "mark"},
       todo: SUBSET Plugin, fresh: BOOLEAN, plan: [Plugin -> Release],
       status: {"none", "installed", "active", "disabled"} \cup Unusable]

Req == [pc: {"idle", "asked", "admitted", "entered", "activating", "enable", "release"},
        todo: SUBSET Plugin, pkg: Release]

HostRow == [loaded: [Plugin -> Release], active: SUBSET Plugin, blocked: SUBSET Plugin]

TypeOK ==
  /\ revoked \subseteq Plugin \X Release
  /\ rec \in [Plugin -> Rec]
  /\ lock \in [Plugin -> Release]
  /\ marker \in [Plugin -> Host \cup {Nobody, Gone}]
  /\ leases \subseteq [host: Host \cup {Gone}, plugin: Plugin]
  /\ ws \in [Plugin -> BOOLEAN]
  /\ exec \in [Plugin -> Exec]
  /\ op \in [Host -> Op]
  /\ req \in [Host -> Req]
  /\ host \in [Host -> HostRow]

NothingPlanned == [p \in Plugin |-> 0]
IdleOp == [kind |-> "none", pc |-> "idle", todo |-> {}, fresh |-> FALSE,
           plan |-> NothingPlanned, status |-> "none"]
IdleReq == [pc |-> "idle", todo |-> {}, pkg |-> 0]
FreshHost == [loaded |-> NothingPlanned, active |-> {}, blocked |-> {}]
NoExec == [status |-> "none", pkg |-> 0, cleared |-> FALSE, control |-> FALSE]

Init ==
  /\ revoked = {}
  /\ rec = [p \in Plugin |-> [release |-> 0, status |-> "none"]]
  /\ lock = NothingPlanned
  /\ marker = [p \in Plugin |-> Nobody]
  /\ leases = {}
  /\ ws = [p \in Plugin |-> FALSE]
  /\ exec = [p \in Plugin |-> NoExec]
  /\ op = [h \in Host |-> IdleOp]
  /\ req = [h \in Host |-> IdleReq]
  /\ host = [h \in Host |-> FreshHost]

----------------------------------------------------------------------------
(* Helpers *)

Installed(p) == rec[p].status # "none"
Usable(p) == Installed(p) /\ rec[p].status \notin Unusable
InstalledRelease(p) == IF Installed(p) THEN rec[p].release ELSE 0

(* Not in a terminal status: activeExecutionIdsInTransaction. *)
Live(p) == exec[p].status # "none"

(* assertPersistedLock: the lock names the installed releases. *)
LockIntact == lock = [p \in Plugin |-> InstalledRelease(p)]

(* An upgrade keeps the status it found, except the unusable ones. *)
Kept(status) == IF status \in {"active", "disabled"} THEN status ELSE "installed"

(* A write of the row of p, and what it does to who read the row before. *)
WriteRec(p, r) == rec' = [rec EXCEPT ![p] = r]
Outdated(p) == [g \in Host |-> IF p \in op[g].todo THEN [op[g] EXCEPT !.fresh = FALSE] ELSE op[g]]

Idle(h) == op' = [op EXCEPT ![h] = IdleOp]
Goto(h, pc) == op' = [op EXCEPT ![h].pc = pc]
(* The same, in the transaction that writes the row of p. *)
WroteAndIdle(h, p) == op' = [Outdated(p) EXCEPT ![h] = IdleOp]
WroteAndGoto(h, p, pc) == op' = [Outdated(p) EXCEPT ![h].pc = pc]

(* The operation reads every row; its lock takes the others as it saw them. *)
Read(h, p, kind, pc, r, status) ==
  /\ h \in Admin /\ op[h].pc = "idle"
  /\ op' = [op EXCEPT ![h] = [kind |-> kind, pc |-> pc, todo |-> {p}, fresh |-> TRUE,
                              plan |-> [q \in Plugin |-> IF q = p THEN r ELSE InstalledRelease(q)],
                              status |-> status]]
  /\ UNCHANGED <<revoked, durable, req, host>>

(* h is at step pc of an operation of that kind on p. *)
At(h, p, kind, pc) == op[h].kind = kind /\ op[h].pc = pc /\ p \in op[h].todo

(* The Host itself refuses to start p: it changes p, or saw somebody who does. *)
Blocked(h, p) ==
  \/ p \in host[h].blocked
  \/ \E kind \in {"update", "disable", "purge"}, pc \in {"drain", "commit", "load"} : At(h, p, kind, pc)

Unblocked(h, p) == [host EXCEPT ![h].blocked = @ \ {p}]
Forgotten(h, p) == [host EXCEPT ![h].loaded[p] = 0, ![h].active = @ \ {p}]
Loaded(h, p, r, active) ==
  [host EXCEPT ![h].loaded[p] = r, ![h].blocked = @ \ {p},
               ![h].active = IF active THEN @ \cup {p} ELSE @ \ {p}]

(* What markLoadFailure does to an Execution of the plug-in. *)
Interrupted(e) ==
  CASE e.status = "queued" -> [e EXCEPT !.status = "interrupted"]
    [] e.status = "running" -> [e EXCEPT !.control = TRUE]
    [] OTHER -> e

(* markLoadFailure writes to whatever row of p is current by now, not to the *)
(* release that was found wanting.                                          *)
Marks(p, status) == Installed(p) /\ rec[p].status \notin {status, "revoked"}
MarkLoadFailure(p, status) ==
  IF Marks(p, status)
  THEN /\ WriteRec(p, [rec[p] EXCEPT !.status = status])
       /\ exec' = [exec EXCEPT ![p] = Interrupted(exec[p])]
  ELSE UNCHANGED <<rec, exec>>
MarkedOps(p, status) == IF Marks(p, status) THEN Outdated(p) ELSE op

----------------------------------------------------------------------------
(* The repository *)

(* The repository is signed again with one more release revoked. *)
Revoke(p, r) ==
  /\ Cardinality(revoked) < MaxRevoked
  /\ r # 0 /\ <<p, r>> \notin revoked
  /\ revoked' = revoked \cup {<<p, r>>}
  /\ UNCHANGED <<durable, op, req, host>>

----------------------------------------------------------------------------
(* What an operation reads first *)

ReadInstall(h, p, r) ==
  /\ ~Installed(p) /\ host[h].loaded[p] = 0
  /\ r # 0 /\ r >= rec[p].release /\ <<p, r>> \notin revoked
  /\ Read(h, p, "install", "commit", r, "installed")

ReadUpdate(h, p, r) ==
  /\ Installed(p) /\ rec[p].status # "revoked"
  /\ r > rec[p].release /\ <<p, r>> \notin revoked
  /\ Read(h, p, "update", "begin", r, Kept(rec[p].status))

ReadDisable(h, p) ==
  /\ Installed(p) /\ rec[p].status # "disabled"
  /\ Read(h, p, "disable", "begin", rec[p].release,
          IF rec[p].status = "revoked" THEN "revoked" ELSE "disabled")

ReadPurge(h, p) ==
  /\ Installed(p) /\ rec[p].status # "active"
  /\ Read(h, p, "purge", "begin", 0, "none")

----------------------------------------------------------------------------
(* Begin, drain, abort *)

(* Mutant: the requests that are using the plug-in are not looked at. *)
FreeOfMarkers(p) == marker[p] = Nobody
Free(p) == marker[p] = Nobody /\ \A l \in leases : l.plugin # p

(* beginOperation: nobody else changes p, and no request is using it. *)
Begin(h, p) ==
  /\ op[h].pc = "begin" /\ p \in op[h].todo
  /\ Free(p)
  /\ Installed(p) /\ op[h].fresh
  /\ marker' = [marker EXCEPT ![p] = h]
  /\ host' = [host EXCEPT ![h].blocked = @ \cup {p}]
  /\ Goto(h, "drain")
  /\ UNCHANGED <<revoked, rec, lock, leases, ws, exec, req>>

(* The operation gives up before it holds a marker: it found one, or a use,  *)
(* or the row changed under it.  An activation then fails its request.       *)
Refuse(h) ==
  /\ \/ op[h].pc = "begin"
     \/ op[h].pc = "commit" /\ op[h].kind \in {"install", "activate"}
  /\ req' = [req EXCEPT ![h].pc = IF op[h].kind = "activate" THEN "release" ELSE @]
  /\ Idle(h)
  /\ UNCHANGED <<revoked, durable, host>>

(* drain, and the checks before a purge: no Execution of p may be open. *)
Drain(h, p) ==
  /\ op[h].pc = "drain" /\ p \in op[h].todo
  /\ ~Live(p)
  /\ op[h].kind = "purge" => ~ws[p]
  /\ Goto(h, "commit")
  /\ UNCHANGED <<revoked, durable, req, host>>

(* abortOperation: the drain, the replay, the health check or the commit of  *)
(* the operation failed.  Its marker is taken back, nothing else changed; if *)
(* that fails too, the marker stays until somebody removes it by hand.      *)
Abort(h, p) ==
  /\ \E kind \in {"update", "disable", "purge"}, pc \in {"drain", "commit"} : At(h, p, kind, pc)
  /\ \/ /\ marker' = [marker EXCEPT ![p] = IF @ = h THEN Nobody ELSE @]
        /\ host' = Unblocked(h, p)
     \/ /\ marker' = [marker EXCEPT ![p] = IF @ = h THEN Gone ELSE @]
        /\ UNCHANGED host
  /\ Idle(h)
  /\ UNCHANGED <<revoked, rec, lock, leases, ws, exec, req>>

----------------------------------------------------------------------------
(* Commits *)

(* finishOperationInTransaction: a lost marker fails the transaction. *)
FinishOperation(h, p) ==
  /\ marker[p] = h
  /\ marker' = [marker EXCEPT ![p] = Nobody]

(* The row, and the lock whole, as the operation planned them. *)
WriteRows(h, p, r) ==
  /\ WriteRec(p, [release |-> r, status |-> op[h].status])
  /\ lock' = op[h].plan

(* Mutant: the record that a purge left behind is not compared. *)
StillAbsent(h, p) == ~Installed(p)
StillAsPurged(h, p) == ~Installed(p) /\ op[h].fresh

CommitInstall(h, p) ==
  /\ At(h, p, "install", "commit")
  /\ StillAsPurged(h, p)
  /\ WriteRows(h, p, op[h].plan[p])
  /\ host' = [host EXCEPT ![h].loaded[p] = op[h].plan[p]]
  /\ WroteAndIdle(h, p)
  /\ UNCHANGED <<revoked, marker, leases, ws, exec, req>>

(* The switch: row, lock and marker in one transaction, no second look at    *)
(* the Executions.  The Host loads the new definition afterwards.            *)
CommitUpdate(h, p) ==
  /\ At(h, p, "update", "commit")
  /\ Installed(p) /\ op[h].fresh
  /\ FinishOperation(h, p)
  /\ WriteRows(h, p, op[h].plan[p])
  /\ WroteAndGoto(h, p, "load")
  /\ UNCHANGED <<revoked, leases, ws, exec, req, host>>

CommitDisable(h, p) ==
  /\ At(h, p, "disable", "commit")
  /\ Installed(p) /\ op[h].fresh
  /\ ~Live(p)
  /\ FinishOperation(h, p)
  /\ WriteRows(h, p, rec[p].release)
  /\ ws' = [ws EXCEPT ![p] = FALSE]
  /\ host' = [host EXCEPT ![h].active = @ \ {p}, ![h].blocked = @ \ {p}]
  /\ WroteAndIdle(h, p)
  /\ UNCHANGED <<revoked, leases, exec, req>>

(* A purge leaves its stream version and the release it removed behind. *)
CommitPurge(h, p) ==
  /\ At(h, p, "purge", "commit")
  /\ Installed(p) /\ op[h].fresh
  /\ ~ws[p] /\ ~Live(p)
  /\ FinishOperation(h, p)
  /\ WriteRows(h, p, rec[p].release)
  /\ host' = [Forgotten(h, p) EXCEPT ![h].blocked = @ \ {p}]
  /\ WroteAndIdle(h, p)
  /\ UNCHANGED <<revoked, leases, ws, exec, req>>

(* The definition of a committed update is loaded, or cannot be. *)
LoadUpdate(h, p) ==
  /\ At(h, p, "update", "load")
  /\ \/ /\ host' = Loaded(h, p, op[h].plan[p], op[h].status = "active")
        /\ Idle(h)
        /\ UNCHANGED <<rec, exec>>
     \/ /\ host' = Loaded(h, p, 0, FALSE)
        /\ MarkLoadFailure(p, "failed")
        /\ op' = [MarkedOps(p, "failed") EXCEPT ![h] = IdleOp]
  /\ UNCHANGED <<revoked, lock, marker, leases, ws, req>>

----------------------------------------------------------------------------
(* The refresh every Host runs at its start, every 30 s and before requests *)

(* Mutant: only plug-ins that are active are looked up. *)
ActiveAndRevoked(p) == rec[p].status = "active" /\ <<p, rec[p].release>> \in revoked
(* What verifyPluginArtifact finds of the installed release. *)
Wanting(p) == <<p, rec[p].release>> \in revoked

(* initialize reads the rows, and the repository against them.  If the lock  *)
(* does not match the rows, or the repository cannot be read or verified,   *)
(* every plug-in fails; otherwise the revoked ones do.  plan keeps the       *)
(* releases that passed.                                                    *)
SyncRead(h) ==
  /\ op[h].pc = "idle"
  /\ \E failing \in BOOLEAN :
       LET usable == {p \in Plugin : Usable(p)}
           bad == {p \in usable : failing \/ Wanting(p)} IN
       /\ ~LockIntact => failing
       /\ op' = [op EXCEPT ![h] = [kind |-> "sync", pc |-> "verify", todo |-> bad, fresh |-> FALSE,
                   plan |-> [p \in Plugin |-> IF p \in usable \ bad THEN rec[p].release ELSE 0],
                   status |-> IF failing THEN "failed" ELSE "revoked"]]
       /\ host' = [host EXCEPT ![h].loaded = [p \in Plugin |-> IF p \in usable THEN @[p] ELSE 0],
                     ![h].active = @ \cap usable,
                     ![h].blocked = {p \in Plugin : marker[p] # Nobody}]
  /\ UNCHANGED <<revoked, durable, req>>

(* One plug-in that did not pass, or did not load, is marked. *)
SyncMark(h, p) ==
  /\ op[h].pc \in {"verify", "mark"} /\ p \in op[h].todo
  /\ MarkLoadFailure(p, op[h].status)
  /\ host' = Forgotten(h, p)
  /\ op' = [MarkedOps(p, op[h].status) EXCEPT ![h].todo = @ \ {p}]
  /\ UNCHANGED <<revoked, lock, marker, leases, ws, req>>

(* The rows are read again, and what is usable now is loaded.  A definition  *)
(* of another release than the one that passed fails to load, any other may. *)
SyncLoad(h) ==
  /\ op[h].pc = "verify" /\ op[h].todo = {} /\ op[h].status # "failed"
  /\ \A p \in Plugin : Usable(p) => op[h].plan[p] # 0
  /\ \E bad \in SUBSET {p \in Plugin : Usable(p)} :
       LET good == {p \in Plugin : Usable(p)} \ bad IN
       /\ \A p \in good : rec[p].release = op[h].plan[p]
       /\ host' = [host EXCEPT
            ![h].loaded = [p \in Plugin |-> IF p \in good THEN op[h].plan[p] ELSE @[p]],
            ![h].active = (@ \ good) \cup {p \in good : rec[p].status = "active"}]
       /\ op' = [op EXCEPT ![h] = [IdleOp EXCEPT !.kind = "sync", !.pc = "mark", !.todo = bad,
                                     !.status = "failed"]]
  /\ UNCHANGED <<revoked, durable, req>>

(* The refresh ends; it throws if a plug-in became usable while it ran. *)
SyncDone(h) ==
  /\ op[h].kind = "sync" /\ op[h].todo = {}
  /\ \/ op[h].pc = "mark"
     \/ op[h].status = "failed"
     \/ \E p \in Plugin : Usable(p) /\ op[h].plan[p] = 0
  /\ Idle(h)
  /\ UNCHANGED <<revoked, durable, req, host>>

----------------------------------------------------------------------------
(* Requests: a use lease around the activation of a plug-in or a new turn *)

Lease(h, p) == [host |-> h, plugin |-> p]

(* The request is at step pc with p. *)
Serving(h, p, pc) == req[h].pc = pc /\ p \in req[h].todo

(* A turn takes the package of the definition the Host has loaded. *)
Ask(h, p) ==
  /\ h \in Front /\ req[h].pc = "idle" /\ host[h].loaded[p] # 0
  /\ req' = [req EXCEPT ![h] = [pc |-> "asked", todo |-> {p}, pkg |-> host[h].loaded[p]]]
  /\ UNCHANGED <<revoked, durable, op, host>>

(* Mutant: a request enters while somebody changes the plug-in. *)
AdmissibleAnyway(p) == Usable(p)
(* acquireUseLease, for a turn and for an activation *)
Admissible(p) == marker[p] = Nobody /\ Usable(p)

AcquireForTurn(h, p) ==
  /\ Serving(h, p, "asked")
  /\ Admissible(p) /\ rec[p].status = "active"
  /\ leases' = leases \cup {Lease(h, p)}
  /\ req' = [req EXCEPT ![h].pc = "admitted"]
  /\ UNCHANGED <<revoked, rec, lock, marker, ws, exec, op, host>>

AcquireForActivation(h, p) ==
  /\ h \in Front /\ req[h].pc = "idle"
  /\ Admissible(p)
  /\ leases' = leases \cup {Lease(h, p)}
  /\ req' = [req EXCEPT ![h] = [pc |-> "entered", todo |-> {p}, pkg |-> 0]]
  /\ UNCHANGED <<revoked, rec, lock, marker, ws, exec, op, host>>

AcquireRefused(h) ==
  /\ req[h].pc = "asked"
  /\ req' = [req EXCEPT ![h] = IdleReq]
  /\ UNCHANGED <<revoked, durable, op, host>>

(* The workspace is created, or enables p, before or after p is activated. *)
EnableWorkspace(h, p) ==
  /\ Serving(h, p, "entered") \/ Serving(h, p, "enable")
  /\ ws' = [ws EXCEPT ![p] = TRUE]
  /\ req' = [req EXCEPT ![h].pc = IF @ = "enable" THEN "release" ELSE @]
  /\ UNCHANGED <<revoked, rec, lock, marker, leases, exec, op, host>>

(* activate waits for its turn in the installer and reads the rows. *)
ReadActivate(h, p) ==
  /\ Serving(h, p, "entered") /\ op[h].pc = "idle"
  /\ ~Blocked(h, p) /\ host[h].loaded[p] # 0
  /\ Usable(p)
  /\ IF rec[p].status = "active"
     THEN /\ host' = [host EXCEPT ![h].active = @ \cup {p}]
          /\ req' = [req EXCEPT ![h].pc = "enable"]
          /\ UNCHANGED op
     ELSE /\ op' = [op EXCEPT ![h] = [IdleOp EXCEPT !.kind = "activate", !.pc = "commit",
                                        !.todo = {p}, !.fresh = TRUE]]
          /\ req' = [req EXCEPT ![h].pc = "activating"]
          /\ UNCHANGED host
  /\ UNCHANGED <<revoked, durable>>

StillAsRead(h, p) == Installed(p) /\ op[h].fresh

CommitActivate(h, p) ==
  /\ At(h, p, "activate", "commit")
  /\ StillAsRead(h, p)
  /\ WriteRec(p, [rec[p] EXCEPT !.status = "active"])
  /\ host' = [host EXCEPT ![h].active = @ \cup {p}]
  /\ req' = [req EXCEPT ![h].pc = "enable"]
  /\ WroteAndIdle(h, p)
  /\ UNCHANGED <<revoked, lock, marker, leases, ws, exec>>

(* submitTurn inside its lease: what the Host believes, then the workspace. *)
SubmitTurn(h, p) ==
  /\ Serving(h, p, "admitted")
  /\ ~Blocked(h, p) /\ host[h].loaded[p] # 0 /\ p \in host[h].active
  /\ ws[p] /\ ~Live(p)
  /\ exec' = [exec EXCEPT ![p] = [status |-> "queued", pkg |-> req[h].pkg,
                                  cleared |-> FALSE, control |-> FALSE]]
  /\ req' = [req EXCEPT ![h].pc = "release"]
  /\ UNCHANGED <<revoked, rec, lock, marker, leases, ws, op, host>>

(* The work is over, or failed at any point: the lease goes either way. *)
ReleaseLease(h, p) ==
  /\ \E pc \in {"admitted", "entered", "enable", "release"} : Serving(h, p, pc)
  /\ leases' = leases \ {Lease(h, p)}
  /\ req' = [req EXCEPT ![h] = IdleReq]
  /\ UNCHANGED <<revoked, rec, lock, marker, ws, exec, op, host>>

(* One workspace stops using p; no lease and no drain are asked for. *)
DisableWorkspace(p) ==
  /\ ws[p]
  /\ ws' = [ws EXCEPT ![p] = FALSE]
  /\ UNCHANGED <<revoked, rec, lock, marker, leases, exec, op, req, host>>

----------------------------------------------------------------------------
(* The Execution of p, as its Worker and its user move it *)

SetExec(p, e) ==
  /\ exec' = [exec EXCEPT ![p] = e]
  /\ UNCHANGED <<revoked, rec, lock, marker, leases, ws, op, req, host>>

AtWork(p) == exec[p].status \in {"queued", "running"}

(* The signed Worker resolver: usable, locked at this release, same package. *)
Resolvable(p) ==
  /\ rec[p].status \in {"active", "installed"}
  /\ lock[p] = rec[p].release
  /\ rec[p].release = exec[p].pkg

(* A claimed job resolves its plug-in; a refusal fails the Execution. *)
Resolve(p) ==
  /\ AtWork(p)
  /\ SetExec(p, IF Resolvable(p) THEN [exec[p] EXCEPT !.cleared = TRUE] ELSE NoExec)

(* The turn may ask a model or dispatch a tool: assertModelInvocation. *)
Permitted(p) == AtWork(p) /\ exec[p].cleared /\ ~exec[p].control

StartTurn(p) ==
  /\ exec[p].status = "queued" /\ Permitted(p)
  /\ SetExec(p, [exec[p] EXCEPT !.status = "running"])

(* It completes, fails or is cancelled. *)
FinishTurn(p) ==
  /\ Live(p)
  /\ SetExec(p, NoExec)

(* The user pauses or interrupts it, or the Worker obeys the plug-in interrupt. *)
StopTurn(p) ==
  /\ exec[p].status = "running"
  /\ SetExec(p, [exec[p] EXCEPT !.status = "interrupted"])

(* A resumed turn is a new generation. *)
ResumeTurn(p) ==
  /\ exec[p].status = "interrupted"
  /\ SetExec(p, [exec[p] EXCEPT !.status = "queued", !.cleared = FALSE, !.control = FALSE])

----------------------------------------------------------------------------
(* A Host stops and starts again: its memory is gone, its marks are not *)

Crash(h) ==
  /\ op' = [op EXCEPT ![h] = IdleOp]
  /\ req' = [req EXCEPT ![h] = IdleReq]
  /\ host' = [host EXCEPT ![h] = FreshHost]
  /\ marker' = [p \in Plugin |-> IF marker[p] = h THEN Gone ELSE marker[p]]
  /\ leases' = {IF l.host = h THEN Lease(Gone, l.plugin) ELSE l : l \in leases}
  /\ UNCHANGED <<revoked, rec, lock, ws, exec>>

----------------------------------------------------------------------------
ReadOperation(h, p) ==
  \/ \E r \in Release : ReadInstall(h, p, r) \/ ReadUpdate(h, p, r)
  \/ ReadDisable(h, p) \/ ReadPurge(h, p)

Change(h, p) ==
  \/ Begin(h, p) \/ Drain(h, p) \/ Abort(h, p)
  \/ CommitInstall(h, p) \/ CommitUpdate(h, p) \/ CommitDisable(h, p) \/ CommitPurge(h, p)
  \/ LoadUpdate(h, p)

Sync(h) == SyncLoad(h) \/ SyncDone(h) \/ \E p \in Plugin : SyncMark(h, p)

Request(h, p) ==
  \/ Ask(h, p) \/ AcquireForTurn(h, p) \/ AcquireForActivation(h, p)
  \/ EnableWorkspace(h, p) \/ ReadActivate(h, p) \/ CommitActivate(h, p)
  \/ SubmitTurn(h, p) \/ ReleaseLease(h, p)

Turn(p) == Resolve(p) \/ StartTurn(p) \/ FinishTurn(p) \/ StopTurn(p) \/ ResumeTurn(p)

Next ==
  \/ \E p \in Plugin, r \in Release : Revoke(p, r)
  \/ \E h \in Host :
       \/ \E p \in Plugin : ReadOperation(h, p) \/ Change(h, p) \/ Request(h, p)
       \/ SyncRead(h) \/ Sync(h) \/ Refuse(h) \/ AcquireRefused(h) \/ Crash(h)
  \/ \E p \in Plugin : Turn(p) \/ DisableWorkspace(p)

Spec == Init /\ [][Next]_vars

(* The installer of a Host serves its callers in turn and every wait in it   *)
(* ends, so an operation that began ends and the 30 s refresh comes up       *)
(* again and again; a Host does not crash in every refresh.                 *)
Proceed(h) == Refuse(h) \/ \E p \in Plugin : Change(h, p) \/ CommitActivate(h, p)
FairSpec ==
  Spec /\ \A h \in Host : WF_vars(Proceed(h)) /\ SF_vars(Sync(h)) /\ SF_vars(SyncRead(h))

----------------------------------------------------------------------------
(* Properties *)

(* A turn that may ask a model or dispatch a tool runs the package of the    *)
(* installed release, and the plug-in is neither disabled, failed nor        *)
(* revoked: leases, drain, resolver and interrupt together see to it.       *)
PermittedRunsAreCurrent ==
  \A p \in Plugin : Permitted(p) =>
    rec[p].status \in {"active", "installed"} /\ rec[p].release = exec[p].pkg

(* A plug-in that is disabled or not installed has no open Execution, and    *)
(* no workspace enables one that is not installed: whoever entered before   *)
(* the change was drained, and nobody enters during it.                     *)
DisabledIsIdle ==
  \A p \in Plugin :
    /\ rec[p].status \in {"none", "disabled"} => ~Live(p)
    /\ ~Installed(p) => ~ws[p]

(* A revoked installation can only be purged: no activation, update or       *)
(* failure that was on its way when it was revoked brings it back.          *)
RevokedIsFinal ==
  [][\A p \in Plugin : rec[p].status = "revoked" => rec'[p].status \in {"revoked", "none"}]_vars

(* The release of a plug-in never goes down, not even through a purge and a  *)
(* new installation that another Host had begun before.                     *)
NeverDowngraded == [][\A p \in Plugin : rec'[p].release >= rec[p].release]_vars

(* A release that the repository revokes does not stay in use: the refresh   *)
(* marks its installation, unless somebody has replaced or removed it.      *)
RevocationReaches ==
  \A p \in Plugin, r \in Release :
    Usable(p) /\ rec[p].release = r /\ <<p, r>> \in revoked
      ~> ~(Usable(p) /\ rec[p].release = r)
=============================================================================

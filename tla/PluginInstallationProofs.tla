---------------------- MODULE PluginInstallationProofs ----------------------
(***************************************************************************)
(* The safety of PluginInstallation for any Hosts, plug-ins and releases.   *)
(* The argument: a marker and a use lease of one plug-in exclude each       *)
(* other, so between the drain and the commit of a change nobody submits a  *)
(* turn; and an operation whose stream version still matches found the row  *)
(* as it is now.  The lemmas first say which steps touch what; each part of *)
(* the invariant then looks only at the steps that touch it.                *)
(***************************************************************************)
EXTENDS PluginInstallation, TLAPS

Changes == {"update", "disable", "purge"}
Holding == {"admitted", "entered", "activating", "enable", "release"}

(* A request, and an operation other than a refresh, is about one plug-in. *)
OnePlugin ==
  /\ \A h \in Host : \A p, q \in req[h].todo : p = q
  /\ \A h \in Host : op[h].kind # "sync" => \A p, q \in op[h].todo : p = q

(* Who is past the admission of its request holds the lease. *)
HoldersLease ==
  \A h \in Host : req[h].pc \in Holding => \A p \in req[h].todo : Lease(h, p) \in leases

(* An activation in the installer is that of the request its Host serves. *)
ActivationHasRequest ==
  \A h \in Host : op[h].kind = "activate" => req[h].pc = "activating"

(* Nobody uses a plug-in that is being changed, or one that is not installed. *)
LeasesExclude ==
  \A l \in leases : marker[l.plugin] = Nobody /\ Installed(l.plugin)

(* A turn was admitted to an active plug-in, which may have failed since. *)
AdmittedToActive ==
  \A h \in Host : \A p \in req[h].todo :
    req[h].pc = "admitted" => rec[p].status \notin {"none", "disabled"}

(* From the drain to the commit under one's own marker no Execution is open. *)
DrainedStaysIdle ==
  \A h \in Host : \A p \in op[h].todo :
    op[h].pc = "commit" /\ op[h].kind \in Changes /\ marker[p] = h => ~Live(p)

(* What a fresh operation knows of the row. *)
KnowsRow(o, p) ==
  /\ o.kind = "install" => o.plan[p] >= rec[p].release
  /\ o.kind = "update" => o.plan[p] >= rec[p].release /\ rec[p].status # "revoked"
  /\ o.kind = "disable" /\ rec[p].status = "revoked" => o.status = "revoked"
  /\ o.kind = "activate" => rec[p].status \notin Unusable

Intends(o) ==
  /\ o.kind = "update" => o.status # "none"
  /\ o.kind = "purge" => o.status = "none"
  /\ o.pc \in {"verify", "mark"} => o.status \in Unusable

OperationsKnow ==
  \A h \in Host :
    /\ Intends(op[h])
    /\ op[h].fresh => \A p \in op[h].todo : KnowsRow(op[h], p)

IInv ==
  /\ TypeOK /\ OnePlugin /\ HoldersLease /\ ActivationHasRequest /\ LeasesExclude
  /\ AdmittedToActive /\ DrainedStaysIdle /\ OperationsKnow
  /\ PermittedRunsAreCurrent /\ DisabledIsIdle

(* The effect of marking p failed or revoked. *)
Marked(p) ==
  \E s \in Unusable :
    /\ Marks(p, s) /\ WriteRec(p, [rec[p] EXCEPT !.status = s])
    /\ exec' = [exec EXCEPT ![p] = Interrupted(exec[p])]
    /\ op' \in [Host -> Op]
    /\ \A h \in Host : p \in op'[h].todo => ~op'[h].fresh
    /\ UNCHANGED <<marker, leases, ws, req>>

----------------------------------------------------------------------------
(* Types *)

LEMMA IdleTypes ==
  /\ NothingPlanned \in [Plugin -> Release]
  /\ IdleOp \in Op /\ IdleReq \in Req /\ FreshHost \in HostRow /\ NoExec \in Exec
<1>1. NothingPlanned \in [Plugin -> Release]
  BY PluginAssumption DEF NothingPlanned, Release
<1> QED
  BY <1>1, PluginAssumption DEF IdleOp, Op, IdleReq, Req, FreshHost, HostRow, NoExec, Exec, Release, Unusable

LEMMA InitTypes == Init => TypeOK
BY IdleTypes, PluginAssumption DEF Init, TypeOK, Rec, Release, Unusable

(* A write of the row leaves the operations well typed, and nobody who has   *)
(* the plug-in in hand fresh.                                               *)
LEMMA OutdatedOps ==
  ASSUME TypeOK, NEW p \in Plugin
  PROVE  /\ Outdated(p) \in [Host -> Op]
         /\ \A h \in Host : /\ Outdated(p)[h].kind = op[h].kind /\ Outdated(p)[h].pc = op[h].pc
                            /\ Outdated(p)[h].todo = op[h].todo
                            /\ Outdated(p)[h].plan = op[h].plan /\ Outdated(p)[h].status = op[h].status
                            /\ Outdated(p)[h].fresh => op[h].fresh
                            /\ p \in op[h].todo => ~Outdated(p)[h].fresh
<1>1. ASSUME NEW h \in Host PROVE [op[h] EXCEPT !.fresh = FALSE] \in Op
  <2>1. op[h] \in Op
    BY DEF TypeOK
  <2> QED
    BY <2>1 DEF Op
<1>2. ASSUME NEW h \in Host PROVE op[h] \in Op
  BY DEF TypeOK
<1> QED
  BY <1>1, <1>2 DEF Outdated, Op

LEMMA MarkTypes ==
  ASSUME TypeOK, NEW p \in Plugin,
         NEW s \in {"none", "installed", "active", "disabled"} \cup Unusable, MarkLoadFailure(p, s)
  PROVE  rec' \in [Plugin -> Rec] /\ exec' \in [Plugin -> Exec]
<1>1. rec[p] \in Rec /\ exec[p] \in Exec
  BY DEF TypeOK
<1>2. [rec[p] EXCEPT !.status = s] \in Rec
  BY <1>1 DEF Rec, Unusable
<1>3. Interrupted(exec[p]) \in Exec
  BY <1>1 DEF Interrupted, Exec
<1> QED
  BY <1>2, <1>3 DEF MarkLoadFailure, WriteRec, TypeOK

LEMMA MarkedOpsTypes ==
  ASSUME TypeOK, NEW p \in Plugin, NEW s
  PROVE  MarkedOps(p, s) \in [Host -> Op]
BY OutdatedOps DEF MarkedOps, TypeOK

(* What the next operation of a Host, or its end, leaves behind. *)
LEMMA OpTypes ==
  ASSUME TypeOK, NEW h \in Host, NEW p \in Plugin
  PROVE  /\ Idle(h) \/ WroteAndIdle(h, p) => op' \in [Host -> Op]
         /\ \A pc \in {"drain", "commit", "load"} :
              Goto(h, pc) \/ WroteAndGoto(h, p, pc) => op' \in [Host -> Op]
<1>1. op \in [Host -> Op] /\ Outdated(p) \in [Host -> Op] /\ IdleOp \in Op
  BY OutdatedOps, IdleTypes DEF TypeOK
<1>2. ASSUME NEW f \in [Host -> Op], NEW pc \in {"drain", "commit", "load"}
      PROVE  [f EXCEPT ![h].pc = pc] \in [Host -> Op]
  <2>1. [f[h] EXCEPT !.pc = pc] \in Op
    BY DEF Op
  <2> QED
    BY <2>1
<1>3. ASSUME NEW f \in [Host -> Op] PROVE [f EXCEPT ![h] = IdleOp] \in [Host -> Op]
  BY <1>1
<1>4. Idle(h) \/ WroteAndIdle(h, p) => op' \in [Host -> Op]
  BY <1>1, <1>3 DEF Idle, WroteAndIdle
<1>5. ASSUME NEW pc \in {"drain", "commit", "load"}, Goto(h, pc) PROVE op' \in [Host -> Op]
  BY <1>1, <1>2, <1>5 DEF Goto
<1>6. ASSUME NEW pc \in {"drain", "commit", "load"}, WroteAndGoto(h, p, pc)
      PROVE  op' \in [Host -> Op]
  BY <1>1, <1>2, <1>6 DEF WroteAndGoto
<1> QED
  BY <1>4, <1>5, <1>6

LEMMA ReadTypes ==
  ASSUME TypeOK, NEW h \in Host, NEW p \in Plugin, ReadOperation(h, p)
  PROVE  TypeOK'
<1>1. PICK kind \in {"install", "update", "disable", "purge"}, pc \in {"begin", "commit"},
           r \in Release, status \in {"none", "installed", "active", "disabled", "revoked"} :
        Read(h, p, kind, pc, r, status)
  <2>1. rec[p] \in Rec /\ 0 \in Release
    BY PluginAssumption DEF TypeOK, Release
  <2> QED
    BY <2>1 DEF ReadOperation, ReadInstall, ReadUpdate, ReadDisable, ReadPurge, Kept, Rec
<1>2. [q \in Plugin |-> IF q = p THEN r ELSE InstalledRelease(q)] \in [Plugin -> Release]
  BY PluginAssumption DEF InstalledRelease, TypeOK, Rec, Release
<1>3. [kind |-> kind, pc |-> pc, todo |-> {p}, fresh |-> TRUE,
       plan |-> [q \in Plugin |-> IF q = p THEN r ELSE InstalledRelease(q)],
       status |-> status] \in Op
  BY <1>2 DEF Op, Unusable
<1>4. op' \in [Host -> Op]
  BY <1>1, <1>3 DEF Read, TypeOK
<1> QED
  BY <1>1, <1>4 DEF Read, durable, TypeOK

LEMMA HostTypes ==
  ASSUME TypeOK, NEW h \in Host, NEW p \in Plugin
  PROVE  /\ Unblocked(h, p) \in [Host -> HostRow]
         /\ Forgotten(h, p) \in [Host -> HostRow]
         /\ \A r \in Release, b \in BOOLEAN : Loaded(h, p, r, b) \in [Host -> HostRow]
<1>1. host[h] \in HostRow /\ host \in [Host -> HostRow]
  BY DEF TypeOK
<1>2. [host[h] EXCEPT !.blocked = @ \ {p}] \in HostRow
  BY <1>1 DEF HostRow
<1>3. [host[h] EXCEPT !.loaded[p] = 0, !.active = @ \ {p}] \in HostRow
  <2>1. 0 \in Release /\ host[h].loaded \in [Plugin -> Release]
    BY <1>1, PluginAssumption DEF HostRow, Release
  <2>2. [host[h].loaded EXCEPT ![p] = 0] \in [Plugin -> Release]
    BY <2>1
  <2> QED
    BY <1>1, <2>2 DEF HostRow
<1>4. ASSUME NEW r \in Release, NEW b \in BOOLEAN
      PROVE  [host[h] EXCEPT !.loaded[p] = r, !.blocked = @ \ {p},
                             !.active = IF b THEN @ \cup {p} ELSE @ \ {p}] \in HostRow
  BY <1>1 DEF HostRow
<1> QED
  BY <1>1, <1>2, <1>3, <1>4 DEF Unblocked, Forgotten, Loaded

LEMMA ChangeTypes ==
  ASSUME TypeOK, NEW h \in Host, NEW p \in Plugin, Change(h, p)
  PROVE  TypeOK'
<1>0. op[h] \in Op /\ rec[p] \in Rec /\ host[h] \in HostRow
  BY DEF TypeOK
<1>1. CASE Begin(h, p)
  <2>1. [host EXCEPT ![h].blocked = @ \cup {p}] \in [Host -> HostRow]
    BY <1>0 DEF HostRow, TypeOK
  <2> QED
    BY <1>1, <2>1, OpTypes DEF Begin, TypeOK
<1>2. CASE Drain(h, p)
  BY <1>2, OpTypes DEF Drain, TypeOK, durable
<1>3. CASE Abort(h, p)
  <2>1. op' \in [Host -> Op]
    BY <1>3, OpTypes DEF Abort
  <2>2. host' \in [Host -> HostRow]
    BY <1>3, HostTypes DEF Abort, TypeOK
  <2>3. marker' \in [Plugin -> Host \cup {Nobody, Gone}]
    BY <1>3 DEF Abort, TypeOK
  <2> QED
    BY <1>3, <2>1, <2>2, <2>3 DEF Abort, TypeOK
<1>4. ASSUME NEW r \in Release, WriteRows(h, p, r)
      PROVE  rec' \in [Plugin -> Rec] /\ lock' \in [Plugin -> Release]
  <2>1. [release |-> r, status |-> op[h].status] \in Rec
    BY <1>0 DEF Op, Rec
  <2>2. op[h].plan \in [Plugin -> Release]
    BY <1>0 DEF Op
  <2> QED
    BY <1>4, <2>1, <2>2 DEF WriteRows, WriteRec, TypeOK
<1>5. CASE CommitInstall(h, p)
  <2>1. op[h].plan[p] \in Release
    BY <1>0 DEF Op
  <2>2. rec' \in [Plugin -> Rec] /\ lock' \in [Plugin -> Release]
    BY <1>4, <1>5, <2>1 DEF CommitInstall
  <2>3. [host EXCEPT ![h].loaded[p] = op[h].plan[p]] \in [Host -> HostRow]
    BY <1>0, <2>1 DEF HostRow, TypeOK
  <2> QED
    BY <1>5, <2>2, <2>3, OpTypes DEF CommitInstall, TypeOK
<1>6. CASE CommitUpdate(h, p)
  <2>1. op[h].plan[p] \in Release
    BY <1>0 DEF Op
  <2>2. rec' \in [Plugin -> Rec] /\ lock' \in [Plugin -> Release]
    BY <1>4, <1>6, <2>1 DEF CommitUpdate
  <2> QED
    BY <1>6, <2>2, OpTypes DEF CommitUpdate, FinishOperation, TypeOK
<1>7. CASE CommitDisable(h, p)
  <2>1. rec[p].release \in Release
    BY <1>0 DEF Rec
  <2>2. rec' \in [Plugin -> Rec] /\ lock' \in [Plugin -> Release]
    BY <1>4, <1>7, <2>1 DEF CommitDisable
  <2>3. [host EXCEPT ![h].active = @ \ {p}, ![h].blocked = @ \ {p}] \in [Host -> HostRow]
    BY <1>0 DEF HostRow, TypeOK
  <2> QED
    BY <1>7, <2>2, <2>3, OpTypes DEF CommitDisable, FinishOperation, TypeOK
<1>8. CASE CommitPurge(h, p)
  <2>1. rec[p].release \in Release
    BY <1>0 DEF Rec
  <2>2. rec' \in [Plugin -> Rec] /\ lock' \in [Plugin -> Release]
    BY <1>4, <1>8, <2>1 DEF CommitPurge
  <2>3. [Forgotten(h, p) EXCEPT ![h].blocked = @ \ {p}] \in [Host -> HostRow]
    <3>1. Forgotten(h, p) \in [Host -> HostRow]
      BY HostTypes
    <3> QED
      BY <3>1 DEF HostRow
  <2> QED
    BY <1>8, <2>2, <2>3, OpTypes DEF CommitPurge, FinishOperation, TypeOK
<1>9. CASE LoadUpdate(h, p)
  <2>1. op[h].plan[p] \in Release /\ 0 \in Release
    BY <1>0, PluginAssumption DEF Op, Release
  <2>2. host' \in [Host -> HostRow]
    <3>1. ASSUME NEW r \in Release, NEW b \in BOOLEAN PROVE Loaded(h, p, r, b) \in [Host -> HostRow]
      BY HostTypes
    <3>2. Loaded(h, p, op[h].plan[p], op[h].status = "active") \in [Host -> HostRow]
      BY <2>1, <3>1
    <3>3. Loaded(h, p, 0, FALSE) \in [Host -> HostRow]
      BY <2>1, <3>1
    <3> QED
      BY <1>9, <3>2, <3>3 DEF LoadUpdate
  <2>3. rec' \in [Plugin -> Rec] /\ exec' \in [Plugin -> Exec]
    <3>1. CASE rec' = rec /\ exec' = exec
      BY <3>1 DEF TypeOK
    <3>2. CASE MarkLoadFailure(p, "failed")
      BY <3>2, MarkTypes DEF Unusable
    <3> QED
      BY <1>9, <3>1, <3>2 DEF LoadUpdate
  <2>4. op' \in [Host -> Op]
    <3>1. CASE Idle(h)
      BY <3>1, OpTypes
    <3>2. CASE op' = [MarkedOps(p, "failed") EXCEPT ![h] = IdleOp]
      BY <3>2, MarkedOpsTypes, IdleTypes
    <3> QED
      BY <1>9, <3>1, <3>2 DEF LoadUpdate
  <2> QED
    BY <1>9, <2>2, <2>3, <2>4 DEF LoadUpdate, TypeOK
<1> QED
  BY <1>1, <1>2, <1>3, <1>5, <1>6, <1>7, <1>8, <1>9 DEF Change

LEMMA SyncTypes ==
  ASSUME TypeOK, NEW h \in Host, SyncRead(h) \/ Sync(h)
  PROVE  TypeOK'
<1>0. op[h] \in Op /\ host[h] \in HostRow /\ rec \in [Plugin -> Rec]
  BY DEF TypeOK
<1>1. CASE SyncRead(h)
  <2>1. PICK failing \in BOOLEAN :
          /\ op' = [op EXCEPT ![h] = [kind |-> "sync", pc |-> "verify",
               todo |-> {p \in {q \in Plugin : Usable(q)} : failing \/ Wanting(p)}, fresh |-> FALSE,
               plan |-> [p \in Plugin |-> IF p \in {q \in Plugin : Usable(q)} \
                           {q \in {s \in Plugin : Usable(s)} : failing \/ Wanting(q)}
                         THEN rec[p].release ELSE 0],
               status |-> IF failing THEN "failed" ELSE "revoked"]]
    BY <1>1 DEF SyncRead
  <2>2. op' \in [Host -> Op]
    BY <1>0, <2>1, PluginAssumption DEF Op, Rec, Release, Unusable, TypeOK
  <2> DEFINE usable == {q \in Plugin : Usable(q)}
             loaded == [p \in Plugin |-> IF p \in usable THEN host[h].loaded[p] ELSE 0]
             active == host[h].active \cap usable
             blocked == {p \in Plugin : marker[p] # Nobody}
  <2>3. host' = [host EXCEPT ![h].loaded = loaded, ![h].active = active, ![h].blocked = blocked]
    BY <1>1 DEF SyncRead
  <2>4. host' \in [Host -> HostRow]
    <3>1. loaded \in [Plugin -> Release] /\ active \subseteq Plugin /\ blocked \subseteq Plugin
      BY <1>0, PluginAssumption DEF HostRow, Release
    <3> HIDE DEF loaded, active, blocked
    <3> QED
      BY <1>0, <2>3, <3>1 DEF HostRow, TypeOK
  <2> QED
    BY <1>1, <2>2, <2>4 DEF SyncRead, TypeOK, durable
<1>2. ASSUME NEW p \in Plugin, SyncMark(h, p) PROVE TypeOK'
  <2>1. op[h].status \in {"none", "installed", "active", "disabled"} \cup Unusable
    BY <1>0 DEF Op
  <2>2. rec' \in [Plugin -> Rec] /\ exec' \in [Plugin -> Exec]
    BY <1>2, <2>1, MarkTypes DEF SyncMark
  <2>3. MarkedOps(p, op[h].status) \in [Host -> Op]
    BY MarkedOpsTypes
  <2>4. op' \in [Host -> Op]
    <3>1. op' = [MarkedOps(p, op[h].status) EXCEPT ![h].todo = @ \ {p}]
      BY <1>2 DEF SyncMark
    <3>2. ASSUME NEW o \in Op PROVE [o EXCEPT !.todo = @ \ {p}] \in Op
      BY DEF Op
    <3> QED
      BY <2>3, <3>1, <3>2
  <2>5. host' \in [Host -> HostRow]
    BY <1>2, HostTypes DEF SyncMark
  <2> QED
    BY <1>2, <2>2, <2>4, <2>5 DEF SyncMark, TypeOK
<1>3. CASE SyncLoad(h)
  <2>1. PICK bad \in SUBSET {p \in Plugin : Usable(p)} :
          /\ host' = [host EXCEPT
               ![h].loaded = [p \in Plugin |-> IF p \in {q \in Plugin : Usable(q)} \ bad
                                               THEN op[h].plan[p] ELSE @[p]],
               ![h].active = (@ \ ({q \in Plugin : Usable(q)} \ bad))
                             \cup {p \in {q \in Plugin : Usable(q)} \ bad : rec[p].status = "active"}]
          /\ op' = [op EXCEPT ![h] = [IdleOp EXCEPT !.kind = "sync", !.pc = "mark", !.todo = bad,
                                        !.status = "failed"]]
    BY <1>3 DEF SyncLoad
  <2>2. op' \in [Host -> Op]
    BY <2>1, IdleTypes DEF Op, Unusable, TypeOK
  <2> DEFINE good == {q \in Plugin : Usable(q)} \ bad
             loaded == [p \in Plugin |-> IF p \in good THEN op[h].plan[p] ELSE host[h].loaded[p]]
             active == (host[h].active \ good) \cup {p \in good : rec[p].status = "active"}
  <2>3. loaded \in [Plugin -> Release] /\ active \subseteq Plugin
    BY <1>0 DEF Op, HostRow
  <2>4. host' = [host EXCEPT ![h] = [@ EXCEPT !.loaded = loaded, !.active = active]]
    BY <2>1
  <2>5. host' \in [Host -> HostRow]
    <3> HIDE DEF good, loaded, active
    <3> QED
      BY <1>0, <2>3, <2>4 DEF HostRow, TypeOK
  <2> QED
    BY <1>3, <2>2, <2>5 DEF SyncLoad, TypeOK, durable
<1>4. CASE SyncDone(h)
  BY <1>4, IdleTypes DEF SyncDone, Idle, TypeOK, durable
<1> QED
  BY <1>1, <1>2, <1>3, <1>4 DEF Sync

LEMMA RequestTypes ==
  ASSUME TypeOK, NEW h \in Host, NEW p \in Plugin, Request(h, p)
  PROVE  TypeOK'
<1>0. op[h] \in Op /\ rec[p] \in Rec /\ host[h] \in HostRow /\ req[h] \in Req /\ exec[p] \in Exec
  BY DEF TypeOK
<1>1. Lease(h, p) \in [host: Host \cup {Gone}, plugin: Plugin]
  BY DEF Lease
<1>2. ASSUME NEW pc \in {"admitted", "activating", "enable", "release"}
      PROVE  [req EXCEPT ![h].pc = pc] \in [Host -> Req]
  BY <1>0 DEF Req, TypeOK
<1>3. [host EXCEPT ![h].active = @ \cup {p}] \in [Host -> HostRow]
  BY <1>0 DEF HostRow, TypeOK
<1>4. CASE Ask(h, p)
  <2>1. [pc |-> "asked", todo |-> {p}, pkg |-> host[h].loaded[p]] \in Req
    BY <1>0 DEF HostRow, Req
  <2> QED
    BY <1>4, <2>1 DEF Ask, TypeOK, durable
<1>5. CASE AcquireForTurn(h, p)
  BY <1>1, <1>2, <1>5 DEF AcquireForTurn, TypeOK
<1>6. CASE AcquireForActivation(h, p)
  <2>1. [pc |-> "entered", todo |-> {p}, pkg |-> 0] \in Req
    BY PluginAssumption DEF Req, Release
  <2> QED
    BY <1>1, <1>6, <2>1 DEF AcquireForActivation, TypeOK
<1>7. CASE EnableWorkspace(h, p)
  <2>1. req' \in [Host -> Req]
    BY <1>0, <1>7 DEF EnableWorkspace, Req, TypeOK
  <2> QED
    BY <1>7, <2>1 DEF EnableWorkspace, TypeOK
<1>8. CASE ReadActivate(h, p)
  <2>1. [IdleOp EXCEPT !.kind = "activate", !.pc = "commit", !.todo = {p}, !.fresh = TRUE] \in Op
    BY IdleTypes DEF Op
  <2>2. op' \in [Host -> Op] /\ host' \in [Host -> HostRow] /\ req' \in [Host -> Req]
    BY <1>2, <1>3, <1>8, <2>1 DEF ReadActivate, TypeOK
  <2> QED
    BY <1>8, <2>2 DEF ReadActivate, TypeOK, durable
<1>9. CASE CommitActivate(h, p)
  <2>1. [rec[p] EXCEPT !.status = "active"] \in Rec
    BY <1>0 DEF Rec
  <2> QED
    BY <1>2, <1>3, <1>9, <2>1, OpTypes DEF CommitActivate, WriteRec, TypeOK
<1>10. CASE SubmitTurn(h, p)
  <2>1. [status |-> "queued", pkg |-> req[h].pkg, cleared |-> FALSE, control |-> FALSE] \in Exec
    BY <1>0 DEF Exec, Req
  <2> QED
    BY <1>2, <1>10, <2>1 DEF SubmitTurn, TypeOK
<1>11. CASE ReleaseLease(h, p)
  BY <1>11, IdleTypes DEF ReleaseLease, TypeOK
<1> QED
  BY <1>4, <1>5, <1>6, <1>7, <1>8, <1>9, <1>10, <1>11 DEF Request

LEMMA TurnTypes ==
  ASSUME TypeOK, NEW p \in Plugin, Turn(p)
  PROVE  TypeOK' /\ UNCHANGED <<revoked, rec, lock, marker, leases, ws, op, req, host>>
<1>1. exec[p] \in Exec /\ NoExec \in Exec
  BY IdleTypes DEF TypeOK
<1>2. PICK e \in Exec : SetExec(p, e)
  <2>1. [exec[p] EXCEPT !.cleared = TRUE] \in Exec
    BY <1>1 DEF Exec
  <2>2. ASSUME NEW s \in {"running", "interrupted"} PROVE [exec[p] EXCEPT !.status = s] \in Exec
    BY <1>1 DEF Exec
  <2>3. [exec[p] EXCEPT !.status = "queued", !.cleared = FALSE, !.control = FALSE] \in Exec
    BY <1>1 DEF Exec
  <2> QED
    BY <1>1, <2>1, <2>2, <2>3 DEF Turn, Resolve, StartTurn, FinishTurn, StopTurn, ResumeTurn
<1> QED
  BY <1>2 DEF SetExec, TypeOK

LEMMA OtherTypes ==
  ASSUME TypeOK,
         \/ \E p \in Plugin, r \in Release : Revoke(p, r)
         \/ \E h \in Host : Refuse(h) \/ AcquireRefused(h) \/ Crash(h)
         \/ \E p \in Plugin : DisableWorkspace(p)
  PROVE  TypeOK'
<1>1. ASSUME NEW p \in Plugin, NEW r \in Release, Revoke(p, r) PROVE TypeOK'
  BY <1>1 DEF Revoke, TypeOK, durable
<1>2. ASSUME NEW h \in Host, Refuse(h) PROVE TypeOK'
  BY <1>2, IdleTypes DEF Refuse, Idle, Req, TypeOK, durable
<1>3. ASSUME NEW h \in Host, AcquireRefused(h) PROVE TypeOK'
  BY <1>3, IdleTypes DEF AcquireRefused, TypeOK, durable
<1>4. ASSUME NEW h \in Host, Crash(h) PROVE TypeOK'
  <2>1. leases' \subseteq [host: Host \cup {Gone}, plugin: Plugin]
    BY <1>4 DEF Crash, Lease, TypeOK
  <2>2. marker' \in [Plugin -> Host \cup {Nobody, Gone}]
    BY <1>4 DEF Crash, TypeOK
  <2> QED
    BY <1>4, <2>1, <2>2, IdleTypes DEF Crash, TypeOK
<1>5. ASSUME NEW p \in Plugin, DisableWorkspace(p) PROVE TypeOK'
  BY <1>5 DEF DisableWorkspace, TypeOK
<1> QED
  BY <1>1, <1>2, <1>3, <1>4, <1>5

LEMMA TypesPreserved == TypeOK /\ [Next]_vars => TypeOK'
<1>1. TypeOK /\ UNCHANGED vars => TypeOK'
  BY DEF vars, durable, TypeOK
<1>2. TypeOK /\ Next => TypeOK'
  BY ReadTypes, ChangeTypes, SyncTypes, RequestTypes, TurnTypes, OtherTypes DEF Next
<1> QED
  BY <1>1, <1>2

(* Everything keeps its type: what a reader of the records, the markers, the *)
(* leases or a Host's memory finds there.                                   *)
THEOREM Types == Spec => []TypeOK
BY InitTypes, TypesPreserved, PTL DEF Spec

----------------------------------------------------------------------------
(* Who changes what *)

(* A failure to load is the effect Marked describes. *)
LEMMA MarkingSteps ==
  ASSUME TypeOK, OperationsKnow, NEW h \in Host, NEW p \in Plugin,
         LoadUpdate(h, p) \/ SyncMark(h, p)
  PROVE  (rec' = rec /\ exec' = exec) \/ Marked(p)
<1>1. \A g \in Host : p \in op[g].todo => ~Outdated(p)[g].fresh
  BY OutdatedOps
<1>2. \A g \in Host : Outdated(p)[g].todo = op[g].todo
  BY OutdatedOps
<1>3. Outdated(p) \in [Host -> Op] /\ IdleOp \in Op
  BY OutdatedOps, IdleTypes
<1>4. CASE LoadUpdate(h, p) /\ MarkLoadFailure(p, "failed") /\ Marks(p, "failed")
           /\ op' = [MarkedOps(p, "failed") EXCEPT ![h] = IdleOp]
  <2>1. op' = [Outdated(p) EXCEPT ![h] = IdleOp]
    BY <1>4 DEF MarkedOps
  <2>2. op' \in [Host -> Op]
    BY <1>3, <2>1
  <2>3. \A g \in Host : p \in op'[g].todo => ~op'[g].fresh
    BY <1>1, <1>2, <1>3, <2>1 DEF IdleOp
  <2> QED
    BY <1>4, <2>2, <2>3 DEF Marked, MarkLoadFailure, LoadUpdate, Unusable
<1>5. CASE SyncMark(h, p) /\ Marks(p, op[h].status)
  <2>1. op' = [Outdated(p) EXCEPT ![h].todo = @ \ {p}]
    BY <1>5 DEF SyncMark, MarkedOps
  <2>2. op' \in [Host -> Op]
    BY <1>3, <2>1 DEF Op
  <2>3. \A g \in Host : p \in op'[g].todo => ~op'[g].fresh
    BY <1>1, <1>2, <1>3, <2>1 DEF Op
  <2>4. op[h].status \in Unusable
    BY <1>5 DEF SyncMark, OperationsKnow, Intends
  <2> QED
    BY <1>5, <2>2, <2>3, <2>4 DEF Marked, MarkLoadFailure, SyncMark
<1> QED
  BY <1>4, <1>5 DEF LoadUpdate, SyncMark, MarkLoadFailure

(* The row of p is written by a commit of its own or by marking it. *)
LEMMA RowSteps ==
  ASSUME TypeOK, OperationsKnow, Next, NEW p \in Plugin
  PROVE  \/ rec'[p] = rec[p]
         \/ \E h \in Host : \/ CommitInstall(h, p) \/ CommitUpdate(h, p) \/ CommitDisable(h, p)
                            \/ CommitPurge(h, p) \/ CommitActivate(h, p)
         \/ Marked(p)
<1>0. rec \in [Plugin -> Rec]
  BY DEF TypeOK
<1>1. ASSUME NEW h \in Host, NEW q \in Plugin, ReadOperation(h, q) PROVE rec'[p] = rec[p]
  BY <1>1 DEF ReadOperation, ReadInstall, ReadUpdate, ReadDisable, ReadPurge, Read, durable
<1>2. ASSUME NEW h \in Host, NEW q \in Plugin, Begin(h, q) \/ Drain(h, q) \/ Abort(h, q)
      PROVE  rec'[p] = rec[p]
  BY <1>2 DEF Begin, Drain, Abort, durable
<1>3. ASSUME NEW h \in Host, NEW q \in Plugin, q # p,
             \/ CommitInstall(h, q) \/ CommitUpdate(h, q) \/ CommitDisable(h, q)
             \/ CommitPurge(h, q) \/ CommitActivate(h, q)
      PROVE  rec'[p] = rec[p]
  BY <1>0, <1>3 DEF CommitInstall, CommitUpdate, CommitDisable, CommitPurge, CommitActivate,
                    WriteRows, WriteRec
<1>4. ASSUME NEW h \in Host, NEW q \in Plugin, LoadUpdate(h, q) \/ SyncMark(h, q)
      PROVE  rec'[p] = rec[p] \/ Marked(p)
  BY <1>0, <1>4, MarkingSteps DEF Marked, WriteRec
<1>5. ASSUME NEW h \in Host, SyncRead(h) \/ SyncLoad(h) \/ SyncDone(h) PROVE rec'[p] = rec[p]
  BY <1>5 DEF SyncRead, SyncLoad, SyncDone, durable
<1>6. ASSUME NEW h \in Host, NEW q \in Plugin,
             \/ Ask(h, q) \/ AcquireForTurn(h, q) \/ AcquireForActivation(h, q)
             \/ EnableWorkspace(h, q) \/ ReadActivate(h, q) \/ SubmitTurn(h, q) \/ ReleaseLease(h, q)
      PROVE  rec'[p] = rec[p]
  BY <1>6 DEF Ask, AcquireForTurn, AcquireForActivation, EnableWorkspace, ReadActivate, SubmitTurn,
              ReleaseLease, durable
<1>7. ASSUME NEW q \in Plugin, Turn(q) PROVE rec'[p] = rec[p]
  BY <1>7, TurnTypes
<1>8. ASSUME \/ \E q \in Plugin, r \in Release : Revoke(q, r)
             \/ \E h \in Host : Refuse(h) \/ AcquireRefused(h) \/ Crash(h)
             \/ \E q \in Plugin : DisableWorkspace(q)
      PROVE  rec'[p] = rec[p]
  BY <1>8 DEF Revoke, Refuse, AcquireRefused, Crash, DisableWorkspace, durable
<1> QED
  BY <1>1, <1>2, <1>3, <1>4, <1>5, <1>6, <1>7, <1>8 DEF Next, Change, Sync, Request

(* An Execution of p moves by itself, is submitted, or is stopped with its plug-in. *)
LEMMA ExecSteps ==
  ASSUME TypeOK, OperationsKnow, Next, NEW p \in Plugin
  PROVE  \/ exec'[p] = exec[p]
         \/ \E h \in Host : SubmitTurn(h, p)
         \/ Turn(p)
         \/ Marked(p)
<1>0. exec \in [Plugin -> Exec]
  BY DEF TypeOK
<1>1. ASSUME NEW h \in Host, NEW q \in Plugin, ReadOperation(h, q) PROVE exec'[p] = exec[p]
  BY <1>1 DEF ReadOperation, ReadInstall, ReadUpdate, ReadDisable, ReadPurge, Read, durable
<1>2. ASSUME NEW h \in Host, NEW q \in Plugin, Begin(h, q) \/ Drain(h, q) \/ Abort(h, q)
      PROVE  exec'[p] = exec[p]
  BY <1>2 DEF Begin, Drain, Abort, durable
<1>3. ASSUME NEW h \in Host, NEW q \in Plugin,
             \/ CommitInstall(h, q) \/ CommitUpdate(h, q) \/ CommitDisable(h, q)
             \/ CommitPurge(h, q) \/ CommitActivate(h, q)
      PROVE  exec'[p] = exec[p]
  BY <1>3 DEF CommitInstall, CommitUpdate, CommitDisable, CommitPurge, CommitActivate
<1>4. ASSUME NEW h \in Host, NEW q \in Plugin, LoadUpdate(h, q) \/ SyncMark(h, q)
      PROVE  exec'[p] = exec[p] \/ Marked(p)
  BY <1>0, <1>4, MarkingSteps DEF Marked
<1>5. ASSUME NEW h \in Host, SyncRead(h) \/ SyncLoad(h) \/ SyncDone(h) PROVE exec'[p] = exec[p]
  BY <1>5 DEF SyncRead, SyncLoad, SyncDone, durable
<1>6. ASSUME NEW h \in Host, NEW q \in Plugin,
             \/ Ask(h, q) \/ AcquireForTurn(h, q) \/ AcquireForActivation(h, q)
             \/ EnableWorkspace(h, q) \/ ReadActivate(h, q) \/ ReleaseLease(h, q)
      PROVE  exec'[p] = exec[p]
  BY <1>6 DEF Ask, AcquireForTurn, AcquireForActivation, EnableWorkspace, ReadActivate,
              ReleaseLease, durable
<1>7. ASSUME NEW h \in Host, NEW q \in Plugin, q # p, SubmitTurn(h, q)
      PROVE  exec'[p] = exec[p]
  BY <1>0, <1>7 DEF SubmitTurn
<1>9. ASSUME NEW q \in Plugin, q # p, Turn(q) PROVE exec'[p] = exec[p]
  BY <1>0, <1>9 DEF Turn, Resolve, StartTurn, FinishTurn, StopTurn, ResumeTurn, SetExec
<1>10. ASSUME NEW h \in Host, NEW q \in Plugin, Request(h, q)
       PROVE  exec'[p] = exec[p] \/ \E g \in Host : SubmitTurn(g, p)
  BY <1>3, <1>6, <1>7, <1>10 DEF Request
<1>11. ASSUME NEW h \in Host, NEW q \in Plugin, Change(h, q)
       PROVE  exec'[p] = exec[p] \/ Marked(p)
  BY <1>2, <1>3, <1>4, <1>11 DEF Change
<1>12. ASSUME NEW h \in Host, Sync(h) \/ SyncRead(h) PROVE exec'[p] = exec[p] \/ Marked(p)
  BY <1>4, <1>5, <1>12 DEF Sync
<1>8. ASSUME \/ \E q \in Plugin, r \in Release : Revoke(q, r)
             \/ \E h \in Host : Refuse(h) \/ AcquireRefused(h) \/ Crash(h)
             \/ \E q \in Plugin : DisableWorkspace(q)
      PROVE  exec'[p] = exec[p]
  BY <1>8 DEF Revoke, Refuse, AcquireRefused, Crash, DisableWorkspace, durable
<1> QED
  BY <1>1, <1>8, <1>9, <1>10, <1>11, <1>12 DEF Next

(* A workspace starts to use p through a request, or stops using it. *)
LEMMA WsSteps ==
  ASSUME TypeOK, Next, NEW p \in Plugin
  PROVE  ws'[p] = ws[p] \/ (\E h \in Host : EnableWorkspace(h, p)) \/ ~ws'[p]
<1>0. ws \in [Plugin -> BOOLEAN]
  BY DEF TypeOK
<1>1. ASSUME NEW h \in Host, NEW q \in Plugin, ReadOperation(h, q) PROVE ws'[p] = ws[p]
  BY <1>1 DEF ReadOperation, ReadInstall, ReadUpdate, ReadDisable, ReadPurge, Read, durable
<1>2. ASSUME NEW h \in Host, NEW q \in Plugin, Change(h, q), ~CommitDisable(h, q)
      PROVE  ws'[p] = ws[p]
  BY <1>2 DEF Change, Begin, Drain, Abort, CommitInstall, CommitUpdate, CommitPurge, LoadUpdate, durable
<1>3. ASSUME NEW h \in Host, NEW q \in Plugin, CommitDisable(h, q) PROVE ws'[p] = ws[p] \/ ~ws'[p]
  BY <1>0, <1>3 DEF CommitDisable
<1>4. ASSUME NEW h \in Host, Sync(h) \/ SyncRead(h) PROVE ws'[p] = ws[p]
  BY <1>4 DEF Sync, SyncMark, SyncLoad, SyncDone, SyncRead, durable
<1>5. ASSUME NEW h \in Host, NEW q \in Plugin, Request(h, q), ~EnableWorkspace(h, q)
      PROVE  ws'[p] = ws[p]
  BY <1>5 DEF Request, Ask, AcquireForTurn, AcquireForActivation, ReadActivate, CommitActivate,
              SubmitTurn, ReleaseLease, durable
<1>6. ASSUME NEW h \in Host, NEW q \in Plugin, q # p, EnableWorkspace(h, q) PROVE ws'[p] = ws[p]
  BY <1>0, <1>6 DEF EnableWorkspace
<1>7. ASSUME NEW q \in Plugin, Turn(q) PROVE ws'[p] = ws[p]
  BY <1>7, TurnTypes
<1>8. ASSUME NEW q \in Plugin, DisableWorkspace(q) PROVE ws'[p] = ws[p] \/ ~ws'[p]
  BY <1>0, <1>8 DEF DisableWorkspace
<1>9. ASSUME \/ \E q \in Plugin, r \in Release : Revoke(q, r)
             \/ \E h \in Host : Refuse(h) \/ AcquireRefused(h) \/ Crash(h)
      PROVE  ws'[p] = ws[p]
  BY <1>9 DEF Revoke, Refuse, AcquireRefused, Crash, durable
<1> QED
  BY <1>1, <1>2, <1>3, <1>4, <1>5, <1>6, <1>7, <1>8, <1>9 DEF Next

(* A marker is set by beginning, and otherwise only removed or orphaned. *)
LEMMA MarkerSteps ==
  ASSUME TypeOK, Next, NEW p \in Plugin
  PROVE  \/ marker'[p] = marker[p]
         \/ \E h \in Host : Begin(h, p)
         \/ (marker[p] # Nobody /\ marker'[p] \in {Nobody, Gone})
<1>0. marker \in [Plugin -> Host \cup {Nobody, Gone}] /\ Nobody \notin Host
  BY PluginAssumption DEF TypeOK
<1>1. ASSUME NEW h \in Host, NEW q \in Plugin, ReadOperation(h, q) PROVE marker'[p] = marker[p]
  BY <1>1 DEF ReadOperation, ReadInstall, ReadUpdate, ReadDisable, ReadPurge, Read, durable
<1>2. ASSUME NEW h \in Host, NEW q \in Plugin, q # p, Begin(h, q) PROVE marker'[p] = marker[p]
  BY <1>0, <1>2 DEF Begin
<1>3. ASSUME NEW h \in Host, NEW q \in Plugin,
             Drain(h, q) \/ CommitInstall(h, q) \/ LoadUpdate(h, q)
      PROVE  marker'[p] = marker[p]
  BY <1>3 DEF Drain, CommitInstall, LoadUpdate, durable
<1>4. ASSUME NEW h \in Host, NEW q \in Plugin, Abort(h, q)
      PROVE  marker'[p] = marker[p] \/ (marker[p] # Nobody /\ marker'[p] \in {Nobody, Gone})
  <2>1. marker' = [marker EXCEPT ![q] = IF marker[q] = h THEN Nobody ELSE marker[q]]
        \/ marker' = [marker EXCEPT ![q] = IF marker[q] = h THEN Gone ELSE marker[q]]
    BY <1>4 DEF Abort
  <2> QED
    BY <1>0, <2>1
<1>5. ASSUME NEW h \in Host, NEW q \in Plugin,
             CommitUpdate(h, q) \/ CommitDisable(h, q) \/ CommitPurge(h, q)
      PROVE  marker'[p] = marker[p] \/ (marker[p] # Nobody /\ marker'[p] \in {Nobody, Gone})
  <2>1. marker[q] = h /\ marker' = [marker EXCEPT ![q] = Nobody]
    BY <1>5 DEF CommitUpdate, CommitDisable, CommitPurge, FinishOperation
  <2> QED
    BY <1>0, <2>1
<1>6. ASSUME NEW h \in Host, Sync(h) \/ SyncRead(h) PROVE marker'[p] = marker[p]
  BY <1>6 DEF Sync, SyncMark, SyncLoad, SyncDone, SyncRead, durable
<1>7. ASSUME NEW h \in Host, NEW q \in Plugin, Request(h, q) PROVE marker'[p] = marker[p]
  BY <1>7 DEF Request, Ask, AcquireForTurn, AcquireForActivation, EnableWorkspace, ReadActivate,
              CommitActivate, SubmitTurn, ReleaseLease, durable
<1>8. ASSUME NEW q \in Plugin, Turn(q) PROVE marker'[p] = marker[p]
  BY <1>8, TurnTypes
<1>9. ASSUME \/ \E q \in Plugin, r \in Release : Revoke(q, r)
             \/ \E h \in Host : Refuse(h) \/ AcquireRefused(h)
             \/ \E q \in Plugin : DisableWorkspace(q)
      PROVE  marker'[p] = marker[p]
  BY <1>9 DEF Revoke, Refuse, AcquireRefused, DisableWorkspace, durable
<1>10. ASSUME NEW h \in Host, Crash(h)
       PROVE  marker'[p] = marker[p] \/ (marker[p] # Nobody /\ marker'[p] \in {Nobody, Gone})
  <2>1. marker' = [q \in Plugin |-> IF marker[q] = h THEN Gone ELSE marker[q]]
    BY <1>10 DEF Crash
  <2> QED
    BY <1>0, <2>1
<1>11. ASSUME NEW h \in Host, NEW q \in Plugin, Change(h, q), ~Begin(h, p)
       PROVE  marker'[p] = marker[p] \/ (marker[p] # Nobody /\ marker'[p] \in {Nobody, Gone})
  <2>1. CASE q = p
    BY <1>3, <1>4, <1>5, <1>11, <2>1 DEF Change
  <2>2. CASE q # p
    BY <1>2, <1>3, <1>4, <1>5, <1>11, <2>2 DEF Change
  <2> QED
    BY <2>1, <2>2
<1> QED
  BY <1>1, <1>6, <1>7, <1>8, <1>9, <1>10, <1>11 DEF Next

(* A lease comes from an admission, or was there under another name. *)
LEMMA LeaseSteps ==
  ASSUME TypeOK, Next, NEW l \in leases'
  PROVE  \/ \E k \in leases : k.plugin = l.plugin
         \/ \E h \in Host, p \in Plugin :
              l = Lease(h, p) /\ (AcquireForTurn(h, p) \/ AcquireForActivation(h, p))
<1>1. ASSUME NEW h \in Host, NEW p \in Plugin, ReadOperation(h, p) PROVE leases' = leases
  BY <1>1 DEF ReadOperation, ReadInstall, ReadUpdate, ReadDisable, ReadPurge, Read, durable
<1>2. ASSUME NEW h \in Host, NEW p \in Plugin, Change(h, p) PROVE leases' = leases
  BY <1>2 DEF Change, Begin, Drain, Abort, CommitInstall, CommitUpdate, CommitDisable, CommitPurge,
              LoadUpdate, durable
<1>3. ASSUME NEW h \in Host, Sync(h) \/ SyncRead(h) PROVE leases' = leases
  BY <1>3 DEF Sync, SyncMark, SyncLoad, SyncDone, SyncRead, durable
<1>4. ASSUME NEW h \in Host, NEW p \in Plugin, Request(h, p),
             ~AcquireForTurn(h, p), ~AcquireForActivation(h, p)
      PROVE  leases' \subseteq leases
  BY <1>4 DEF Request, Ask, EnableWorkspace, ReadActivate, CommitActivate, SubmitTurn, ReleaseLease, durable
<1>5. ASSUME NEW h \in Host, NEW p \in Plugin, AcquireForTurn(h, p) \/ AcquireForActivation(h, p)
      PROVE  leases' = leases \cup {Lease(h, p)}
  BY <1>5 DEF AcquireForTurn, AcquireForActivation
<1>6. ASSUME NEW p \in Plugin, Turn(p) PROVE leases' = leases
  BY <1>6, TurnTypes
<1>7. ASSUME \/ \E p \in Plugin, r \in Release : Revoke(p, r)
             \/ \E h \in Host : Refuse(h) \/ AcquireRefused(h)
             \/ \E p \in Plugin : DisableWorkspace(p)
      PROVE  leases' = leases
  BY <1>7 DEF Revoke, Refuse, AcquireRefused, DisableWorkspace, durable
<1>8. ASSUME NEW h \in Host, Crash(h) PROVE \E k \in leases : k.plugin = l.plugin
  BY <1>8 DEF Crash, Lease
<1> QED
  BY <1>1, <1>2, <1>3, <1>4, <1>5, <1>6, <1>7, <1>8 DEF Next

(* An operation goes on with what it planned and what is left of it, ends,   *)
(* or is begun by reading.                                                  *)
GoesOn(o, n) ==
  /\ n.kind = o.kind /\ n.plan = o.plan /\ n.status = o.status
  /\ n.todo \subseteq o.todo
  /\ n.fresh => o.fresh
  /\ n.pc \in {"verify", "mark"} => o.pc \in {"verify", "mark"}
RefreshOp(n) == n.kind = "sync" /\ ~n.fresh /\ n.status \in Unusable

LEMMA GoesOnSteps ==
  ASSUME TypeOK, NEW h \in Host, NEW p \in Plugin
  PROVE  /\ GoesOn(op[h], op[h])
         /\ GoesOn(op[h], Outdated(p)[h])
         /\ \A pc \in {"drain", "commit", "load"} :
              /\ GoesOn(op[h], [op EXCEPT ![h].pc = pc][h])
              /\ GoesOn(op[h], [Outdated(p) EXCEPT ![h].pc = pc][h])
         /\ \A s \in Unusable : \A g \in Host :
              GoesOn(op[h], [MarkedOps(p, s) EXCEPT ![g].todo = @ \ {p}][h])
<1>1. op[h] \in Op /\ Outdated(p)[h] \in Op /\ op \in [Host -> Op] /\ Outdated(p) \in [Host -> Op]
  BY OutdatedOps DEF TypeOK
<1>2. GoesOn(op[h], op[h]) /\ GoesOn(op[h], Outdated(p)[h])
  BY OutdatedOps DEF GoesOn
<1>3. ASSUME NEW f \in [Host -> Op], GoesOn(op[h], f[h]), NEW pc \in {"drain", "commit", "load"}
      PROVE  GoesOn(op[h], [f EXCEPT ![h].pc = pc][h])
  BY <1>3 DEF GoesOn, Op
<1>4. ASSUME NEW f \in [Host -> Op], GoesOn(op[h], f[h]), NEW g \in Host
      PROVE  GoesOn(op[h], [f EXCEPT ![g].todo = @ \ {p}][h])
  BY <1>4 DEF GoesOn, Op
<1>5. ASSUME NEW s \in Unusable
      PROVE  MarkedOps(p, s) \in [Host -> Op] /\ GoesOn(op[h], MarkedOps(p, s)[h])
  BY <1>1, <1>2 DEF MarkedOps
<1> QED
  BY <1>1, <1>2, <1>3, <1>4, <1>5

LEMMA SyncReadSteps ==
  ASSUME TypeOK, NEW h \in Host, SyncRead(h)
  PROVE  /\ \A g \in Host : g # h => op'[g] = op[g]
         /\ op'[h].kind = "sync" /\ op'[h].pc = "verify" /\ ~op'[h].fresh
         /\ op'[h].status \in Unusable
<1>1. PICK bad, plan, s :
        /\ op' = [op EXCEPT ![h] = [kind |-> "sync", pc |-> "verify", todo |-> bad, fresh |-> FALSE,
                                    plan |-> plan, status |-> s]]
        /\ s \in Unusable
  BY Zenon DEF SyncRead, Unusable
<1> QED
  BY <1>1 DEF TypeOK

LEMMA OpSteps ==
  ASSUME TypeOK, OperationsKnow, Next, NEW h \in Host
  PROVE  \/ GoesOn(op[h], op'[h])
         \/ op'[h] = IdleOp
         \/ RefreshOp(op'[h])
         \/ \E p \in Plugin : ReadOperation(h, p) \/ ReadActivate(h, p)
<1>0. op \in [Host -> Op] /\ GoesOn(op[h], op[h])
  BY DEF TypeOK, GoesOn
<1>1. ASSUME NEW g \in Host, g # h, NEW p \in Plugin, ReadOperation(g, p) \/ ReadActivate(g, p)
      PROVE  op'[h] = op[h]
  BY <1>0, <1>1 DEF ReadOperation, ReadInstall, ReadUpdate, ReadDisable, ReadPurge, Read, ReadActivate
<1>2. ASSUME NEW g \in Host, NEW p \in Plugin, Begin(g, p) \/ Drain(g, p)
      PROVE  GoesOn(op[h], op'[h])
  <2>1. PICK pc \in {"drain", "commit"} : op' = [op EXCEPT ![g].pc = pc]
    BY <1>2 DEF Begin, Drain, Goto
  <2> QED
    BY <1>0, <2>1, GoesOnSteps
<1>3. ASSUME NEW g \in Host, NEW p \in Plugin,
             \/ CommitInstall(g, p) \/ CommitDisable(g, p) \/ CommitPurge(g, p)
             \/ CommitActivate(g, p) \/ Abort(g, p)
      PROVE  GoesOn(op[h], op'[h]) \/ op'[h] = IdleOp
  <2>1. op' = [op EXCEPT ![g] = IdleOp] \/ op' = [Outdated(p) EXCEPT ![g] = IdleOp]
    BY <1>3 DEF CommitInstall, CommitDisable, CommitPurge, CommitActivate, Abort, WroteAndIdle, Idle
  <2>2. Outdated(p) \in [Host -> Op]
    BY OutdatedOps
  <2> QED
    BY <1>0, <2>1, <2>2, GoesOnSteps
<1>4. ASSUME NEW g \in Host, NEW p \in Plugin, CommitUpdate(g, p)
      PROVE  GoesOn(op[h], op'[h])
  <2>1. op' = [Outdated(p) EXCEPT ![g].pc = "load"]
    BY <1>4 DEF CommitUpdate, WroteAndGoto
  <2>2. Outdated(p) \in [Host -> Op]
    BY OutdatedOps
  <2> QED
    BY <1>0, <2>1, <2>2, GoesOnSteps
<1>5. ASSUME NEW g \in Host, NEW p \in Plugin, LoadUpdate(g, p)
      PROVE  GoesOn(op[h], op'[h]) \/ op'[h] = IdleOp
  <2>1. \/ op' = [op EXCEPT ![g] = IdleOp] \/ op' = [Outdated(p) EXCEPT ![g] = IdleOp]
    BY <1>5 DEF LoadUpdate, MarkedOps, Idle
  <2>2. Outdated(p) \in [Host -> Op]
    BY OutdatedOps
  <2> QED
    BY <1>0, <2>1, <2>2, GoesOnSteps
<1>6. ASSUME NEW g \in Host, NEW p \in Plugin, SyncMark(g, p) PROVE GoesOn(op[h], op'[h])
  <2>1. op[g].status \in Unusable
    BY <1>6 DEF SyncMark, OperationsKnow, Intends
  <2>2. op' = [MarkedOps(p, op[g].status) EXCEPT ![g].todo = @ \ {p}]
    BY <1>6 DEF SyncMark
  <2> QED
    BY <2>1, <2>2, GoesOnSteps
<1>7. ASSUME NEW g \in Host, SyncRead(g) \/ SyncLoad(g)
      PROVE  GoesOn(op[h], op'[h]) \/ RefreshOp(op'[h])
  <2>1. CASE g = h
    <3>1. CASE SyncRead(h)
      BY <1>0, <3>1, SyncReadSteps DEF RefreshOp
    <3>2. CASE SyncLoad(h)
      <4>1. PICK bad : op' = [op EXCEPT ![h] = [IdleOp EXCEPT !.kind = "sync", !.pc = "mark",
                                                  !.todo = bad, !.status = "failed"]]
        BY <3>2 DEF SyncLoad
      <4> QED
        BY <1>0, <4>1 DEF RefreshOp, IdleOp, Unusable
    <3> QED
      BY <1>7, <2>1, <3>1, <3>2
  <2>2. CASE g # h
    BY <1>0, <1>7, <2>2, SyncReadSteps DEF SyncLoad
  <2> QED
    BY <2>1, <2>2
<1>8. ASSUME NEW g \in Host, SyncDone(g) \/ Refuse(g) \/ Crash(g)
      PROVE  GoesOn(op[h], op'[h]) \/ op'[h] = IdleOp
  BY <1>0, <1>8 DEF SyncDone, Refuse, Crash, Idle
<1>9. ASSUME NEW g \in Host, NEW p \in Plugin,
             \/ Ask(g, p) \/ AcquireForTurn(g, p) \/ AcquireForActivation(g, p)
             \/ EnableWorkspace(g, p) \/ SubmitTurn(g, p) \/ ReleaseLease(g, p)
      PROVE  op' = op
  BY <1>9 DEF Ask, AcquireForTurn, AcquireForActivation, EnableWorkspace, SubmitTurn, ReleaseLease, durable
<1>10. ASSUME NEW p \in Plugin, Turn(p) PROVE op' = op
  BY <1>10, TurnTypes
<1>11. ASSUME \/ \E p \in Plugin, r \in Release : Revoke(p, r)
              \/ \E g \in Host : AcquireRefused(g)
              \/ \E p \in Plugin : DisableWorkspace(p)
       PROVE  op' = op
  BY <1>11 DEF Revoke, AcquireRefused, DisableWorkspace, durable
<1>12. ASSUME NEW g \in Host, NEW p \in Plugin, Change(g, p)
       PROVE  GoesOn(op[h], op'[h]) \/ op'[h] = IdleOp
  BY <1>2, <1>3, <1>4, <1>5, <1>12 DEF Change
<1>13. ASSUME NEW g \in Host, NEW p \in Plugin, Request(g, p), ~ReadActivate(h, p)
       PROVE  GoesOn(op[h], op'[h]) \/ op'[h] = IdleOp
  <2>1. CASE ReadActivate(g, p)
    BY <1>0, <1>1, <1>13, <2>1
  <2>2. CASE ~ReadActivate(g, p)
    BY <1>0, <1>3, <1>9, <1>13, <2>2 DEF Request
  <2> QED
    BY <2>1, <2>2
<1>14. ASSUME NEW g \in Host, NEW p \in Plugin, ReadOperation(g, p), ~ReadOperation(h, p)
       PROVE  GoesOn(op[h], op'[h])
  BY <1>0, <1>1, <1>14
<1> QED
  BY <1>0, <1>6, <1>7, <1>8, <1>10, <1>11, <1>12, <1>13, <1>14 DEF Next, Sync

(* Who writes the row of p makes stale every operation that has p in hand. *)
LEMMA FreshSteps ==
  ASSUME TypeOK, OperationsKnow, Next, NEW p \in Plugin, rec'[p] # rec[p],
         NEW h \in Host, p \in op'[h].todo
  PROVE  ~op'[h].fresh
<1>1. /\ Outdated(p) \in [Host -> Op]
      /\ p \in Outdated(p)[h].todo => ~Outdated(p)[h].fresh
  BY OutdatedOps
<1>2. CASE Marked(p)
  BY <1>2 DEF Marked
<1>3. ASSUME NEW g \in Host,
             \/ CommitInstall(g, p) \/ CommitDisable(g, p) \/ CommitPurge(g, p) \/ CommitActivate(g, p)
      PROVE  ~op'[h].fresh
  <2>1. op' = [Outdated(p) EXCEPT ![g] = IdleOp]
    BY <1>3 DEF CommitInstall, CommitDisable, CommitPurge, CommitActivate, WroteAndIdle
  <2> QED
    BY <1>1, <2>1 DEF IdleOp
<1>4. ASSUME NEW g \in Host, CommitUpdate(g, p) PROVE ~op'[h].fresh
  <2>1. op' = [Outdated(p) EXCEPT ![g].pc = "load"]
    BY <1>4 DEF CommitUpdate, WroteAndGoto
  <2> QED
    BY <1>1, <2>1 DEF Op
<1> QED
  BY <1>2, <1>3, <1>4, RowSteps

(* An operation comes to its commit from the drain, unless it never drains. *)
LEMMA CommitSteps ==
  ASSUME TypeOK, OperationsKnow, Next, NEW h \in Host,
         op'[h].pc = "commit", op'[h].kind \in Changes
  PROVE  /\ op[h].kind = op'[h].kind /\ op'[h].todo \subseteq op[h].todo
         /\ op[h].pc = "commit" \/ \E p \in Plugin : Drain(h, p)
<1>0. op \in [Host -> Op]
  BY DEF TypeOK
<1>1. ~\E p \in Plugin : ReadOperation(h, p)
  <2>1. ASSUME NEW p \in Plugin, NEW r \in Release,
               ReadInstall(h, p, r) \/ ReadUpdate(h, p, r) \/ ReadDisable(h, p) \/ ReadPurge(h, p)
        PROVE  op'[h].pc = "begin" \/ op'[h].kind = "install"
    BY <1>0, <2>1 DEF ReadInstall, ReadUpdate, ReadDisable, ReadPurge, Read
  <2> QED
    BY <2>1, PluginAssumption DEF ReadOperation, Changes, Release
<1>2. ~\E p \in Plugin : ReadActivate(h, p)
  BY <1>0 DEF ReadActivate, IdleOp, Changes
<1>3. op'[h] # IdleOp /\ ~RefreshOp(op'[h])
  BY DEF IdleOp, RefreshOp, Changes
<1>4. GoesOn(op[h], op'[h])
  BY <1>1, <1>2, <1>3, OpSteps
<1>5. op[h].pc = "commit" \/ \E p \in Plugin : Drain(h, p)
  <2> SUFFICES ASSUME op[h].pc # "commit", \A p \in Plugin : ~Drain(h, p) PROVE FALSE
    OBVIOUS
  <2>1. ASSUME NEW g \in Host, NEW p \in Plugin, Begin(g, p) PROVE FALSE
    BY <1>0, <2>1 DEF Begin, Goto
  <2>2. ASSUME NEW g \in Host, NEW p \in Plugin, Drain(g, p), g # h PROVE FALSE
    BY <1>0, <2>2 DEF Drain, Goto
  <2>3. ASSUME NEW g \in Host, NEW p \in Plugin,
               \/ CommitInstall(g, p) \/ CommitDisable(g, p) \/ CommitPurge(g, p)
               \/ CommitActivate(g, p) \/ Abort(g, p) \/ LoadUpdate(g, p)
        PROVE  FALSE
    <3>1. op' = [op EXCEPT ![g] = IdleOp] \/ op' = [Outdated(p) EXCEPT ![g] = IdleOp]
      BY <2>3 DEF CommitInstall, CommitDisable, CommitPurge, CommitActivate, Abort, LoadUpdate,
                  MarkedOps, WroteAndIdle, Idle
    <3> QED
      BY <1>0, <1>3, <3>1, OutdatedOps
  <2>4. ASSUME NEW g \in Host, NEW p \in Plugin, CommitUpdate(g, p) PROVE FALSE
    <3>1. op' = [Outdated(p) EXCEPT ![g].pc = "load"]
      BY <2>4 DEF CommitUpdate, WroteAndGoto
    <3> QED
      BY <3>1, OutdatedOps DEF Op
  <2>5. ASSUME NEW g \in Host, NEW p \in Plugin, SyncMark(g, p) PROVE FALSE
    <3>1. op' = [op EXCEPT ![g].todo = @ \ {p}] \/ op' = [Outdated(p) EXCEPT ![g].todo = @ \ {p}]
      BY <2>5 DEF SyncMark, MarkedOps
    <3>2. ASSUME NEW f \in [Host -> Op], op' = [f EXCEPT ![g].todo = @ \ {p}]
          PROVE  op'[h].pc = f[h].pc
      BY <3>2 DEF Op
    <3>3. Outdated(p) \in [Host -> Op] /\ Outdated(p)[h].pc = op[h].pc
      BY OutdatedOps
    <3> QED
      BY <1>0, <3>1, <3>2, <3>3
  <2>6. ASSUME NEW g \in Host, SyncRead(g) \/ SyncLoad(g) PROVE FALSE
    <3>1. g # h
      <4>1. ASSUME SyncLoad(h) PROVE op'[h].pc = "mark"
        <5>1. PICK bad : op' = [op EXCEPT ![h] = [IdleOp EXCEPT !.kind = "sync", !.pc = "mark",
                                                    !.todo = bad, !.status = "failed"]]
          BY <4>1 DEF SyncLoad
        <5> QED
          BY <1>0, <5>1 DEF IdleOp
      <4> QED
        BY <2>6, <4>1, SyncReadSteps
    <3>2. op'[h] = op[h]
      BY <1>0, <2>6, <3>1, SyncReadSteps DEF SyncLoad
    <3> QED
      BY <3>2
  <2>7. ASSUME NEW g \in Host, SyncDone(g) \/ Refuse(g) \/ Crash(g) PROVE FALSE
    BY <1>0, <1>3, <2>7 DEF SyncDone, Refuse, Crash, Idle
  <2>8. ASSUME NEW g \in Host, NEW p \in Plugin, ReadOperation(g, p) \/ ReadActivate(g, p)
        PROVE  FALSE
    <3>1. g # h
      BY <1>1, <1>2, <2>8
    <3> QED
      BY <1>0, <2>8, <3>1 DEF ReadOperation, ReadInstall, ReadUpdate, ReadDisable, ReadPurge, Read,
                              ReadActivate
  <2>9. ASSUME op' = op PROVE FALSE
    BY <2>9
  <2>10. ASSUME NEW g \in Host, NEW p \in Plugin,
                \/ Ask(g, p) \/ AcquireForTurn(g, p) \/ AcquireForActivation(g, p)
                \/ EnableWorkspace(g, p) \/ SubmitTurn(g, p) \/ ReleaseLease(g, p)
         PROVE  FALSE
    BY <2>9, <2>10 DEF Ask, AcquireForTurn, AcquireForActivation, EnableWorkspace, SubmitTurn,
                       ReleaseLease, durable
  <2>11. ASSUME \/ \E p \in Plugin, r \in Release : Revoke(p, r)
                \/ \E g \in Host : AcquireRefused(g)
                \/ \E p \in Plugin : DisableWorkspace(p) \/ Turn(p)
         PROVE  FALSE
    BY <2>9, <2>11, TurnTypes DEF Revoke, AcquireRefused, DisableWorkspace, durable
  <2>12. ASSUME NEW g \in Host, NEW p \in Plugin, Change(g, p) PROVE FALSE
    BY <2>1, <2>2, <2>3, <2>4, <2>12 DEF Change
  <2>13. ASSUME NEW g \in Host, NEW p \in Plugin, Request(g, p) PROVE FALSE
    BY <2>3, <2>8, <2>10, <2>13 DEF Request
  <2> QED
    BY <2>5, <2>6, <2>7, <2>8, <2>11, <2>12, <2>13 DEF Next, Sync
<1> QED
  BY <1>4, <1>5 DEF GoesOn

LEMMA ReadSteps ==
  ASSUME TypeOK, NEW h \in Host, NEW p \in Plugin, ReadOperation(h, p)
  PROVE  op'[h].todo = {p} /\ op'[h].kind \in {"install", "update", "disable", "purge"}
<1>1. PICK kind \in {"install", "update", "disable", "purge"} :
        \E pc, r, status : Read(h, p, kind, pc, r, status)
  BY DEF ReadOperation, ReadInstall, ReadUpdate, ReadDisable, ReadPurge
<1>2. PICK pc, r, status : Read(h, p, kind, pc, r, status)
  BY <1>1
<1> QED
  BY <1>2 DEF Read, TypeOK

(* A request past its admission entered by it, or was there and kept its lease. *)
LEMMA ReqSteps ==
  ASSUME TypeOK, ActivationHasRequest, Next, NEW h \in Host
  PROVE  \/ /\ req'[h].todo = req[h].todo
            /\ req'[h].pc \in Holding => req[h].pc \in Holding
            /\ req'[h].pc = "admitted" => req[h].pc = "admitted"
            /\ \A p \in Plugin : req'[h].pc \in Holding /\ Lease(h, p) \in leases
                                   => Lease(h, p) \in leases'
         \/ req'[h] = IdleReq
         \/ \E p \in Plugin : AcquireForTurn(h, p) \/ AcquireForActivation(h, p) \/ Ask(h, p)
<1> DEFINE Same == req'[h] = req[h] /\ \A p \in Plugin : Lease(h, p) \in leases => Lease(h, p) \in leases'
           Goes == req'[h].todo = req[h].todo /\ leases' = leases
<1>0. req \in [Host -> Req]
  BY DEF TypeOK
<1>1. ASSUME NEW g \in Host, NEW p \in Plugin, ReadOperation(g, p) PROVE Same
  BY <1>1 DEF ReadOperation, ReadInstall, ReadUpdate, ReadDisable, ReadPurge, Read, durable
<1>2. ASSUME NEW g \in Host, NEW p \in Plugin, Change(g, p) PROVE Same
  BY <1>2 DEF Change, Begin, Drain, Abort, CommitInstall, CommitUpdate, CommitDisable, CommitPurge,
              LoadUpdate, durable
<1>3. ASSUME NEW g \in Host, Sync(g) \/ SyncRead(g) PROVE Same
  BY <1>3 DEF Sync, SyncMark, SyncLoad, SyncDone, SyncRead, durable
<1>4. ASSUME NEW g \in Host, g # h, NEW p \in Plugin, Request(g, p) PROVE Same
  <2>1. \A q \in Plugin : Lease(h, q) # Lease(g, p)
    BY <1>4 DEF Lease
  <2> QED
    BY <1>0, <1>4, <2>1 DEF Request, Ask, AcquireForTurn, AcquireForActivation, EnableWorkspace,
              ReadActivate, CommitActivate, SubmitTurn, ReleaseLease, durable
<1>5. ASSUME NEW p \in Plugin, Turn(p) PROVE Same
  BY <1>5, TurnTypes
<1>6. ASSUME \/ \E p \in Plugin, r \in Release : Revoke(p, r)
             \/ \E p \in Plugin : DisableWorkspace(p)
      PROVE  Same
  BY <1>6 DEF Revoke, DisableWorkspace, durable
<1>7. ASSUME NEW g \in Host, Crash(g) PROVE Same \/ req'[h] = IdleReq
  BY <1>0, <1>7 DEF Crash, Lease
<1>8. ASSUME NEW g \in Host, AcquireRefused(g) PROVE Same \/ req'[h] = IdleReq
  BY <1>0, <1>8 DEF AcquireRefused, durable
<1>9. ASSUME NEW g \in Host, Refuse(g)
      PROVE  /\ Goes
             /\ \/ req'[h].pc = req[h].pc
                \/ req[h].pc \in Holding /\ req'[h].pc # "admitted"
  <2>1. leases' = leases
    BY <1>9 DEF Refuse, durable
  <2> QED
    BY <1>0, <1>9, <2>1 DEF Refuse, Req, ActivationHasRequest, Holding
<1>10. ASSUME NEW p \in Plugin, EnableWorkspace(h, p)
       PROVE  Goes /\ req[h].pc \in Holding /\ req'[h].pc # "admitted"
  BY <1>0, <1>10 DEF EnableWorkspace, Serving, Req, Holding
<1>11. ASSUME NEW p \in Plugin, ReadActivate(h, p)
       PROVE  Goes /\ req[h].pc \in Holding /\ req'[h].pc # "admitted"
  BY <1>0, <1>11 DEF ReadActivate, Serving, Req, Holding, durable
<1>12. ASSUME NEW p \in Plugin, CommitActivate(h, p)
       PROVE  Goes /\ req[h].pc \in Holding /\ req'[h].pc # "admitted"
  BY <1>0, <1>12 DEF CommitActivate, At, ActivationHasRequest, Req, Holding
<1>13. ASSUME NEW p \in Plugin, SubmitTurn(h, p)
       PROVE  Goes /\ req[h].pc \in Holding /\ req'[h].pc # "admitted"
  BY <1>0, <1>13 DEF SubmitTurn, Serving, Req, Holding
<1>14. ASSUME NEW p \in Plugin, ReleaseLease(h, p) PROVE req'[h] = IdleReq
  BY <1>0, <1>14 DEF ReleaseLease
<1> DEFINE Stays == /\ req'[h].todo = req[h].todo
                    /\ req'[h].pc \in Holding => req[h].pc \in Holding
                    /\ req'[h].pc = "admitted" => req[h].pc = "admitted"
                    /\ \A p \in Plugin : req'[h].pc \in Holding /\ Lease(h, p) \in leases
                                           => Lease(h, p) \in leases'
<1>15. Same => Stays
  OBVIOUS
<1>16. Goes /\ req[h].pc \in Holding /\ req'[h].pc # "admitted" => Stays
  OBVIOUS
<1>17. ASSUME NEW g \in Host, Refuse(g) PROVE Stays
  BY <1>9, <1>17
<1>18. ASSUME NEW g \in Host, NEW p \in Plugin, Request(g, p),
              ~AcquireForTurn(h, p), ~AcquireForActivation(h, p), ~Ask(h, p)
       PROVE  Stays \/ req'[h] = IdleReq
  <2>1. CASE g # h
    BY <1>4, <1>15, <1>18, <2>1
  <2>2. CASE g = h
    BY <1>10, <1>11, <1>12, <1>13, <1>14, <1>16, <1>18, <2>2 DEF Request
  <2> QED
    BY <2>1, <2>2
<1> HIDE DEF Same, Goes, Stays
<1>19. Stays \/ req'[h] = IdleReq
       \/ \E p \in Plugin : AcquireForTurn(h, p) \/ AcquireForActivation(h, p) \/ Ask(h, p)
  BY <1>1, <1>2, <1>3, <1>5, <1>6, <1>7, <1>8, <1>15, <1>17, <1>18 DEF Next
<1> QED
  BY <1>19 DEF Stays

(* While an activation is in the installer, its request waits for it. *)
LEMMA ActivationSteps ==
  ASSUME TypeOK, Next, NEW h \in Host, req[h].pc = "activating"
  PROVE  req'[h].pc = "activating" \/ op'[h] = IdleOp
<1>0. req \in [Host -> Req] /\ op \in [Host -> Op] /\ req[h].pc # "idle"
  BY DEF TypeOK
<1>1. ASSUME NEW g \in Host, NEW p \in Plugin, ReadOperation(g, p) PROVE req' = req
  BY <1>1 DEF ReadOperation, ReadInstall, ReadUpdate, ReadDisable, ReadPurge, Read, durable
<1>2. ASSUME NEW g \in Host, NEW p \in Plugin, Change(g, p) PROVE req' = req
  BY <1>2 DEF Change, Begin, Drain, Abort, CommitInstall, CommitUpdate, CommitDisable, CommitPurge,
              LoadUpdate, durable
<1>3. ASSUME NEW g \in Host, Sync(g) \/ SyncRead(g) PROVE req' = req
  BY <1>3 DEF Sync, SyncMark, SyncLoad, SyncDone, SyncRead, durable
<1>4. ASSUME NEW g \in Host, NEW p \in Plugin, Request(g, p), ~CommitActivate(g, p)
      PROVE  req'[h] = req[h]
  BY <1>0, <1>4 DEF Request, Ask, AcquireForTurn, AcquireForActivation, EnableWorkspace,
             ReadActivate, SubmitTurn, ReleaseLease, Serving, durable
<1>5. ASSUME NEW g \in Host, NEW p \in Plugin, CommitActivate(g, p)
      PROVE  req'[h] = req[h] \/ op'[h] = IdleOp
  <2>1. Outdated(p) \in [Host -> Op]
    BY OutdatedOps
  <2> QED
    BY <1>0, <1>5, <2>1 DEF CommitActivate, WroteAndIdle
<1>6. ASSUME NEW p \in Plugin, Turn(p) PROVE req' = req
  BY <1>6, TurnTypes
<1>7. ASSUME \/ \E p \in Plugin, r \in Release : Revoke(p, r)
             \/ \E p \in Plugin : DisableWorkspace(p)
      PROVE  req' = req
  BY <1>7 DEF Revoke, DisableWorkspace, durable
<1>8. ASSUME NEW g \in Host, Crash(g) \/ Refuse(g) \/ AcquireRefused(g)
      PROVE  req'[h] = req[h] \/ op'[h] = IdleOp
  BY <1>0, <1>8 DEF Crash, Refuse, AcquireRefused, Idle
<1> QED
  BY <1>1, <1>2, <1>3, <1>4, <1>5, <1>6, <1>7, <1>8 DEF Next

----------------------------------------------------------------------------
(* The invariant *)

LEMMA OnePluginPreserved == ASSUME IInv, Next PROVE OnePlugin'
<1>0. TypeOK /\ OnePlugin /\ OperationsKnow /\ ActivationHasRequest
  BY DEF IInv
<1>1. ASSUME NEW h \in Host PROVE \A p, q \in req'[h].todo : p = q
  <2>1. ASSUME NEW p \in Plugin, AcquireForTurn(h, p) PROVE req'[h].todo = req[h].todo
    BY <1>0, <2>1 DEF AcquireForTurn, TypeOK, Req
  <2>2. ASSUME NEW p \in Plugin, AcquireForActivation(h, p) \/ Ask(h, p)
        PROVE  req'[h].todo = {p}
    BY <1>0, <2>2 DEF AcquireForActivation, Ask, TypeOK, durable
  <2> QED
    BY <1>0, <2>1, <2>2, ReqSteps DEF OnePlugin, IdleReq
<1>2. ASSUME NEW h \in Host, op'[h].kind # "sync" PROVE \A p, q \in op'[h].todo : p = q
  <2>1. ASSUME NEW p \in Plugin, ReadOperation(h, p) PROVE op'[h].todo = {p}
    BY <1>0, <2>1, ReadSteps
  <2>2. ASSUME NEW p \in Plugin, ReadActivate(h, p) PROVE op'[h].todo \subseteq {p} \/ op' = op
    <3>1. CASE op' = [op EXCEPT ![h] = [IdleOp EXCEPT !.kind = "activate", !.pc = "commit",
                                          !.todo = {p}, !.fresh = TRUE]]
      BY <1>0, <3>1 DEF IdleOp, TypeOK
    <3> QED
      BY <2>2, <3>1 DEF ReadActivate
  <2>3. GoesOn(op[h], op'[h]) => \A p, q \in op'[h].todo : p = q
    BY <1>0, <1>2 DEF GoesOn, OnePlugin
  <2> QED
    BY <1>0, <1>2, <2>1, <2>2, <2>3, OpSteps DEF OnePlugin, IdleOp, RefreshOp
<1> QED
  BY <1>1, <1>2 DEF OnePlugin

LEMMA HoldersLeasePreserved == ASSUME IInv, Next PROVE HoldersLease'
<1>0. TypeOK /\ OnePlugin /\ HoldersLease /\ ActivationHasRequest
  BY DEF IInv
<1> SUFFICES ASSUME NEW h \in Host, req'[h].pc \in Holding, NEW p \in req'[h].todo
             PROVE  Lease(h, p) \in leases'
  BY DEF HoldersLease, Lease
<1>1. ASSUME NEW q \in Plugin, AcquireForTurn(h, q) PROVE Lease(h, p) \in leases'
  <2>1. req'[h].todo = req[h].todo /\ q \in req[h].todo
    BY <1>0, <1>1 DEF AcquireForTurn, Serving, TypeOK, Req
  <2>2. p = q
    BY <1>0, <2>1 DEF OnePlugin
  <2> QED
    BY <1>1, <2>2 DEF AcquireForTurn
<1>2. ASSUME NEW q \in Plugin, AcquireForActivation(h, q) PROVE Lease(h, p) \in leases'
  <2>1. req'[h].todo = {q}
    BY <1>0, <1>2 DEF AcquireForActivation, TypeOK
  <2> QED
    BY <1>2, <2>1 DEF AcquireForActivation
<1>3. ASSUME NEW q \in Plugin, Ask(h, q) PROVE FALSE
  BY <1>0, <1>3 DEF Ask, Holding, TypeOK
<1>4. req'[h] # IdleReq
  BY DEF IdleReq, Holding
<1>5. p \in req[h].todo => p \in Plugin
  BY <1>0 DEF TypeOK, Req
<1> QED
  BY <1>0, <1>1, <1>2, <1>3, <1>4, <1>5, ReqSteps DEF HoldersLease

LEMMA ActivationHasRequestPreserved == ASSUME IInv, Next PROVE ActivationHasRequest'
<1>0. TypeOK /\ ActivationHasRequest /\ OperationsKnow
  BY DEF IInv
<1> SUFFICES ASSUME NEW h \in Host, op'[h].kind = "activate" PROVE req'[h].pc = "activating"
  BY DEF ActivationHasRequest
<1>1. op'[h] # IdleOp /\ ~RefreshOp(op'[h])
  BY DEF IdleOp, RefreshOp
<1>2. ASSUME NEW p \in Plugin, ReadOperation(h, p) PROVE FALSE
  BY <1>0, <1>2, ReadSteps
<1>3. ASSUME NEW p \in Plugin, ReadActivate(h, p), op[h].kind # "activate"
      PROVE  req'[h].pc = "activating"
  BY <1>0, <1>3 DEF ReadActivate, TypeOK, Req
<1>4. CASE op[h].kind = "activate"
  BY <1>0, <1>1, <1>4, ActivationSteps DEF ActivationHasRequest
<1>5. CASE op[h].kind # "activate"
  BY <1>0, <1>1, <1>2, <1>3, <1>5, OpSteps DEF GoesOn
<1> QED
  BY <1>4, <1>5

LEMMA LeasesExcludePreserved == ASSUME IInv, Next PROVE LeasesExclude'
<1>0. TypeOK /\ LeasesExclude /\ OperationsKnow
  BY DEF IInv
<1> SUFFICES ASSUME NEW l \in leases'
             PROVE  marker'[l.plugin] = Nobody /\ rec'[l.plugin].status # "none"
  BY DEF LeasesExclude, Installed
<1>1. ASSUME NEW k \in leases, k.plugin = l.plugin
      PROVE  marker'[l.plugin] = Nobody /\ rec'[l.plugin].status # "none"
  <2> DEFINE p == l.plugin
  <2>1. p \in Plugin /\ marker[p] = Nobody /\ Installed(p) /\ Nobody \notin Host
    BY <1>0, <1>1, PluginAssumption DEF LeasesExclude, TypeOK
  <2>2. \A h \in Host : ~Begin(h, p)
    BY <1>1 DEF Begin, Free
  <2> HIDE DEF p
  <2>3. marker'[p] = Nobody
    BY <1>0, <2>1, <2>2, MarkerSteps
  <2>4. ASSUME NEW h \in Host, \/ CommitInstall(h, p) \/ CommitUpdate(h, p)
                               \/ CommitDisable(h, p) \/ CommitPurge(h, p)
        PROVE  FALSE
    BY <2>1, <2>4 DEF CommitInstall, CommitUpdate, CommitDisable, CommitPurge, FinishOperation,
                      StillAsPurged
  <2>5. ASSUME NEW h \in Host, CommitActivate(h, p) PROVE rec'[p].status # "none"
    BY <1>0, <2>1, <2>5 DEF CommitActivate, WriteRec, TypeOK, Rec
  <2>6. ASSUME Marked(p) PROVE rec'[p].status # "none"
    BY <1>0, <2>1, <2>6 DEF Marked, WriteRec, TypeOK, Rec, Unusable
  <2>7. rec'[p].status # "none"
    BY <1>0, <2>1, <2>4, <2>5, <2>6, RowSteps DEF Installed
  <2> QED
    BY <2>3, <2>7 DEF p
<1>2. ASSUME NEW h \in Host, NEW p \in Plugin, l = Lease(h, p),
             AcquireForTurn(h, p) \/ AcquireForActivation(h, p)
      PROVE  marker'[l.plugin] = Nobody /\ rec'[l.plugin].status # "none"
  BY <1>2 DEF AcquireForTurn, AcquireForActivation, Admissible, Usable, Installed, Lease
<1> QED
  BY <1>0, <1>1, <1>2, LeaseSteps

(* Without a marker of its own no change of p commits. *)
LEMMA UsedRows ==
  ASSUME TypeOK, HoldersLease, LeasesExclude, OperationsKnow, Next, NEW p \in Plugin,
         NEW h \in Host, req[h].pc \in Holding, p \in req[h].todo
  PROVE  /\ marker[p] = Nobody /\ Installed(p)
         /\ rec'[p] = rec[p] \/ rec'[p].status = "active" \/ Marked(p)
<1>1. marker[p] = Nobody /\ Installed(p) /\ Nobody \notin Host
  <2>1. Lease(h, p) \in leases /\ Lease(h, p).plugin = p
    BY DEF HoldersLease, Lease
  <2> QED
    BY <2>1, PluginAssumption DEF LeasesExclude
<1>2. ASSUME NEW g \in Host, \/ CommitInstall(g, p) \/ CommitUpdate(g, p)
                             \/ CommitDisable(g, p) \/ CommitPurge(g, p)
      PROVE  FALSE
  BY <1>1, <1>2 DEF CommitInstall, CommitUpdate, CommitDisable, CommitPurge, FinishOperation,
                    StillAsPurged
<1>3. ASSUME NEW g \in Host, CommitActivate(g, p) PROVE rec'[p].status = "active"
  BY <1>3 DEF CommitActivate, WriteRec, TypeOK, Rec
<1> QED
  BY <1>1, <1>2, <1>3, RowSteps

LEMMA AdmittedToActivePreserved == ASSUME IInv, Next PROVE AdmittedToActive'
<1>0. /\ TypeOK /\ HoldersLease /\ LeasesExclude /\ AdmittedToActive /\ OperationsKnow
      /\ ActivationHasRequest
  BY DEF IInv
<1> SUFFICES ASSUME NEW h \in Host, NEW p \in req'[h].todo, req'[h].pc = "admitted"
             PROVE  rec'[p].status \notin {"none", "disabled"}
  BY DEF AdmittedToActive
<1>1. ASSUME NEW q \in Plugin, AcquireForActivation(h, q) \/ Ask(h, q) PROVE FALSE
  BY <1>0, <1>1 DEF AcquireForActivation, Ask, TypeOK, durable
<1>2. req'[h] # IdleReq
  BY DEF IdleReq
<1>3. ASSUME NEW q \in Plugin, AcquireForTurn(h, q)
      PROVE  rec'[p].status \notin {"none", "disabled"}
  <2>1. req'[h].todo = req[h].todo /\ q \in req[h].todo
    BY <1>0, <1>3 DEF AcquireForTurn, Serving, TypeOK, Req
  <2>2. p = q
    BY <2>1, OnePluginPreserved, <1>3 DEF IInv, OnePlugin
  <2> QED
    BY <1>3, <2>2 DEF AcquireForTurn
<1>4. CASE p \in req[h].todo /\ req[h].pc = "admitted"
  <2>1. p \in Plugin
    BY <1>0, <1>4 DEF TypeOK, Req
  <2>2. rec[p].status \notin {"none", "disabled"}
    BY <1>0, <1>4 DEF AdmittedToActive
  <2>3. Marked(p) => rec'[p].status \in Unusable
    BY <1>0, <2>1 DEF Marked, WriteRec, TypeOK, Rec
  <2> QED
    BY <1>0, <1>4, <2>1, <2>2, <2>3, UsedRows DEF Holding, Unusable
<1> QED
  BY <1>0, <1>1, <1>2, <1>3, <1>4, ReqSteps

LEMMA DrainedStaysIdlePreserved == ASSUME IInv, Next PROVE DrainedStaysIdle'
<1>0. /\ TypeOK /\ OnePlugin /\ HoldersLease /\ LeasesExclude /\ DrainedStaysIdle /\ OperationsKnow
  BY DEF IInv
<1> SUFFICES ASSUME NEW h \in Host, NEW p \in op'[h].todo,
                    op'[h].pc = "commit", op'[h].kind \in Changes, marker'[p] = h
             PROVE  ~Live(p)'
  BY DEF DrainedStaysIdle
<1>1. /\ op[h].kind = op'[h].kind /\ p \in op[h].todo
      /\ op[h].pc = "commit" \/ \E q \in Plugin : Drain(h, q)
  BY <1>0, CommitSteps
<1>2. p \in Plugin /\ op[h].kind # "sync" /\ Nobody \notin Host /\ Gone \notin Host
  BY <1>0, <1>1, PluginAssumption DEF TypeOK, Op, Changes
<1>3. ASSUME NEW q \in Plugin, Drain(h, q) PROVE ~Live(p)'
  <2>1. p = q
    BY <1>0, <1>1, <1>2, <1>3 DEF Drain, OnePlugin
  <2> QED
    BY <1>3, <2>1 DEF Drain, Live, durable
<1>4. CASE op[h].pc = "commit"
  <2>1. ASSUME NEW g \in Host, Begin(g, p) PROVE FALSE
    <3>1. marker'[p] = g
      BY <1>0, <1>2, <2>1 DEF Begin, TypeOK
    <3> QED
      BY <1>4, <2>1, <3>1 DEF Begin
  <2>2. marker[p] = h
    BY <1>0, <1>2, <2>1, MarkerSteps
  <2>3. ~Live(p)
    BY <1>0, <1>1, <1>4, <2>2 DEF DrainedStaysIdle
  <2>4. ASSUME NEW g \in Host, SubmitTurn(g, p) PROVE FALSE
    <3>1. req[g].pc \in Holding /\ p \in req[g].todo
      BY <2>4 DEF SubmitTurn, Serving, Holding
    <3> QED
      BY <1>0, <1>2, <2>2, <3>1, UsedRows
  <2>5. Turn(p) => FALSE
    BY <2>3 DEF Turn, Resolve, StartTurn, FinishTurn, StopTurn, ResumeTurn, AtWork, Live
  <2>6. Marked(p) => ~Live(p)'
    BY <1>0, <1>2, <2>3 DEF Marked, Interrupted, Live, TypeOK
  <2> QED
    BY <1>0, <1>2, <2>3, <2>4, <2>5, <2>6, ExecSteps DEF Live
<1> QED
  BY <1>1, <1>3, <1>4

LEMMA OperationsKnowPreserved == ASSUME IInv, Next PROVE OperationsKnow'
<1>0. TypeOK /\ OperationsKnow
  BY DEF IInv
<1> SUFFICES ASSUME NEW h \in Host
             PROVE  /\ Intends(op'[h])
                    /\ op'[h].fresh => \A p \in op'[h].todo : KnowsRow(op[h], p)'
  BY DEF OperationsKnow
<1>1. CASE GoesOn(op[h], op'[h])
  <2>1. Intends(op'[h])
    BY <1>0, <1>1 DEF GoesOn, OperationsKnow, Intends
  <2>2. ASSUME op'[h].fresh, NEW p \in op'[h].todo PROVE KnowsRow(op[h], p)'
    <3>1. op[h].fresh /\ p \in op[h].todo /\ p \in Plugin
      BY <1>0, <1>1, <2>2 DEF GoesOn, TypeOK, Op
    <3>2. rec'[p] = rec[p]
      BY <1>0, <2>2, <3>1, FreshSteps
    <3>3. KnowsRow(op[h], p)
      BY <1>0, <3>1 DEF OperationsKnow
    <3> QED
      BY <1>1, <3>2, <3>3 DEF GoesOn, KnowsRow
  <2> QED
    BY <2>1, <2>2
<1>2. CASE op'[h] = IdleOp \/ RefreshOp(op'[h])
  BY <1>2 DEF IdleOp, RefreshOp, Intends
<1>3. ASSUME NEW p \in Plugin, ReadOperation(h, p)
      PROVE  Intends(op'[h]) /\ \A q \in op'[h].todo : KnowsRow(op[h], q)'
  <2>1. rec' = rec /\ rec[p] \in Rec
    BY <1>0, <1>3 DEF ReadOperation, ReadInstall, ReadUpdate, ReadDisable, ReadPurge, Read,
                      durable, TypeOK
  <2>2. ASSUME NEW kind, NEW pc, NEW r, NEW status, Read(h, p, kind, pc, r, status)
        PROVE  /\ op'[h].kind = kind /\ op'[h].pc = pc /\ op'[h].plan[p] = r
               /\ op'[h].status = status /\ op'[h].todo = {p}
    BY <1>0, <2>2 DEF Read, TypeOK
  <2>3. ASSUME NEW r \in Release, ReadInstall(h, p, r)
        PROVE  Intends(op'[h]) /\ \A q \in op'[h].todo : KnowsRow(op[h], q)'
    BY <2>1, <2>2, <2>3 DEF ReadInstall, Intends, KnowsRow
  <2>4. ASSUME NEW r \in Release, ReadUpdate(h, p, r)
        PROVE  Intends(op'[h]) /\ \A q \in op'[h].todo : KnowsRow(op[h], q)'
    <3>1. /\ op'[h].kind = "update" /\ op'[h].pc = "begin" /\ op'[h].plan[p] = r
          /\ op'[h].status = Kept(rec[p].status) /\ op'[h].todo = {p}
      BY <2>2, <2>4 DEF ReadUpdate
    <3>2. r \in Nat /\ rec[p].release \in Nat
      BY <2>1, PluginAssumption DEF Release, Rec
    <3>3. r >= rec[p].release
      BY <2>4, <3>2 DEF ReadUpdate
    <3> QED
      BY <2>1, <2>4, <3>1, <3>3 DEF ReadUpdate, Intends, KnowsRow, Kept
  <2>5. ASSUME ReadDisable(h, p)
        PROVE  Intends(op'[h]) /\ \A q \in op'[h].todo : KnowsRow(op[h], q)'
    BY <2>1, <2>2, <2>5 DEF ReadDisable, Intends, KnowsRow
  <2>6. ASSUME ReadPurge(h, p)
        PROVE  Intends(op'[h]) /\ \A q \in op'[h].todo : KnowsRow(op[h], q)'
    BY <2>1, <2>2, <2>6 DEF ReadPurge, Intends, KnowsRow
  <2> QED
    BY <1>3, <2>3, <2>4, <2>5, <2>6 DEF ReadOperation
<1>4. ASSUME NEW p \in Plugin, ReadActivate(h, p)
      PROVE  \/ op' = op /\ rec' = rec
             \/ Intends(op'[h]) /\ \A q \in op'[h].todo : KnowsRow(op[h], q)'
  <2>1. rec' = rec /\ Usable(p)
    BY <1>4 DEF ReadActivate, durable
  <2>2. ASSUME op' = [op EXCEPT ![h] = [IdleOp EXCEPT !.kind = "activate", !.pc = "commit",
                                          !.todo = {p}, !.fresh = TRUE]]
        PROVE  Intends(op'[h]) /\ \A q \in op'[h].todo : KnowsRow(op[h], q)'
    BY <1>0, <2>1, <2>2 DEF Intends, KnowsRow, Usable, IdleOp, TypeOK
  <2> QED
    BY <1>4, <2>1, <2>2 DEF ReadActivate
<1>5. op' = op /\ rec' = rec => GoesOn(op[h], op'[h])
  BY DEF GoesOn
<1> QED
  BY <1>0, <1>1, <1>2, <1>3, <1>4, <1>5, OpSteps

LEMMA PermittedRunsAreCurrentPreserved == ASSUME IInv, Next PROVE PermittedRunsAreCurrent'
<1>0. /\ TypeOK /\ DrainedStaysIdle /\ OperationsKnow /\ PermittedRunsAreCurrent
  BY DEF IInv
<1> SUFFICES ASSUME NEW p \in Plugin, Permitted(p)'
             PROVE  rec'[p].status \in {"active", "installed"} /\ rec'[p].release = exec'[p].pkg
  BY DEF PermittedRunsAreCurrent
<1>1. rec[p] \in Rec /\ exec[p] \in Exec /\ rec \in [Plugin -> Rec] /\ exec \in [Plugin -> Exec]
  BY <1>0 DEF TypeOK
<1>2. ASSUME NEW h \in Host, SubmitTurn(h, p) PROVE FALSE
  BY <1>1, <1>2 DEF SubmitTurn, Permitted
<1>3. ASSUME Turn(p)
      PROVE  rec'[p].status \in {"active", "installed"} /\ rec'[p].release = exec'[p].pkg
  <2>1. rec' = rec
    BY <1>0, <1>3, TurnTypes
  <2>2. CASE Resolve(p)
    BY <1>1, <2>1, <2>2 DEF Resolve, Resolvable, SetExec, Permitted, AtWork, NoExec, Exec
  <2>3. CASE StartTurn(p)
    BY <1>0, <1>1, <2>1, <2>3 DEF StartTurn, SetExec, PermittedRunsAreCurrent, Exec
  <2>4. CASE FinishTurn(p) \/ StopTurn(p) \/ ResumeTurn(p)
    <3>1. exec'[p].status \in {"none", "interrupted"} \/ ~exec'[p].cleared
      <4>1. CASE FinishTurn(p)
        BY <1>1, <4>1 DEF FinishTurn, SetExec, NoExec
      <4>2. CASE StopTurn(p)
        BY <1>1, <4>2 DEF StopTurn, SetExec, Exec
      <4>3. CASE ResumeTurn(p)
        BY <1>1, <4>3 DEF ResumeTurn, SetExec, Exec
      <4> QED
        BY <2>4, <4>1, <4>2, <4>3
    <3> QED
      BY <3>1 DEF Permitted, AtWork
  <2> QED
    BY <1>3, <2>2, <2>3, <2>4 DEF Turn
<1>4. Marked(p) => FALSE
  <2>1. Marked(p) => exec'[p] = Interrupted(exec[p])
    BY <1>1 DEF Marked
  <2>2. \/ Interrupted(exec[p]).status \notin {"queued", "running"}
        \/ Interrupted(exec[p]).control
    <3>1. CASE exec[p].status = "queued"
      BY <1>1, <3>1 DEF Interrupted, Exec
    <3>2. CASE exec[p].status = "running"
      BY <1>1, <3>2 DEF Interrupted, Exec
    <3>3. CASE exec[p].status \notin {"queued", "running"}
      BY <3>3 DEF Interrupted
    <3> QED
      BY <3>1, <3>2, <3>3
  <2> QED
    BY <2>1, <2>2 DEF Permitted, AtWork
<1>5. CASE exec'[p] = exec[p]
  <2>1. /\ Permitted(p)
        /\ rec[p].status \in {"active", "installed"} /\ rec[p].release = exec[p].pkg
    BY <1>0, <1>5 DEF Permitted, AtWork, PermittedRunsAreCurrent
  <2>2. ASSUME NEW h \in Host, CommitUpdate(h, p) \/ CommitDisable(h, p) \/ CommitPurge(h, p)
        PROVE  FALSE
    <3>1. ~Live(p)
      BY <1>0, <2>2 DEF CommitUpdate, CommitDisable, CommitPurge, FinishOperation, At, Changes,
                        DrainedStaysIdle
    <3> QED
      BY <2>1, <3>1 DEF Permitted, AtWork, Live
  <2>3. ASSUME NEW h \in Host, CommitInstall(h, p) PROVE FALSE
    BY <2>1, <2>3 DEF CommitInstall, StillAsPurged, Installed
  <2>4. ASSUME NEW h \in Host, CommitActivate(h, p)
        PROVE  rec'[p].status = "active" /\ rec'[p].release = rec[p].release
    BY <1>1, <2>4 DEF CommitActivate, WriteRec, Rec
  <2> QED
    BY <1>0, <1>4, <1>5, <2>1, <2>2, <2>3, <2>4, RowSteps
<1> QED
  BY <1>0, <1>2, <1>3, <1>4, <1>5, ExecSteps

LEMMA DisabledIsIdlePreserved == ASSUME IInv, Next PROVE DisabledIsIdle'
<1>0. /\ TypeOK /\ HoldersLease /\ LeasesExclude /\ AdmittedToActive /\ DrainedStaysIdle
      /\ OperationsKnow /\ DisabledIsIdle
  BY DEF IInv
<1> SUFFICES ASSUME NEW p \in Plugin
             PROVE  /\ rec'[p].status \in {"none", "disabled"} => ~Live(p)'
                    /\ rec'[p].status = "none" => ~ws'[p]
  BY DEF DisabledIsIdle, Installed
<1>1. rec[p] \in Rec /\ rec \in [Plugin -> Rec] /\ exec \in [Plugin -> Exec] /\ ws \in [Plugin -> BOOLEAN]
  BY <1>0 DEF TypeOK
<1>2. CASE rec'[p] = rec[p]
  <2>1. ASSUME rec[p].status \in {"none", "disabled"} PROVE ~Live(p)'
    <3>1. ~Live(p)
      BY <1>0, <2>1 DEF DisabledIsIdle
    <3>2. ASSUME NEW h \in Host, SubmitTurn(h, p) PROVE FALSE
      BY <1>0, <2>1, <3>2 DEF SubmitTurn, Serving, AdmittedToActive
    <3>3. Turn(p) => FALSE
      BY <3>1 DEF Turn, Resolve, StartTurn, FinishTurn, StopTurn, ResumeTurn, AtWork, Live
    <3>4. Marked(p) => ~Live(p)'
      BY <1>1, <3>1 DEF Marked, Interrupted, Live
    <3> QED
      BY <1>0, <3>1, <3>2, <3>3, <3>4, ExecSteps DEF Live
  <2>2. ASSUME rec[p].status = "none" PROVE ~ws'[p]
    <3>1. ~ws[p]
      BY <1>0, <2>2 DEF DisabledIsIdle, Installed
    <3>2. ASSUME NEW h \in Host, EnableWorkspace(h, p) PROVE FALSE
      <4>1. req[h].pc \in Holding /\ p \in req[h].todo
        BY <3>2 DEF EnableWorkspace, Serving, Holding
      <4> QED
        BY <1>0, <2>2, <4>1, UsedRows DEF Installed
    <3> QED
      BY <1>0, <3>1, <3>2, WsSteps
  <2> QED
    BY <1>2, <2>1, <2>2
<1>3. ASSUME NEW h \in Host, CommitInstall(h, p) PROVE ~Live(p)' /\ ~ws'[p]
  BY <1>0, <1>3 DEF CommitInstall, StillAsPurged, Installed, DisabledIsIdle, Live
<1>4. ASSUME NEW h \in Host, CommitUpdate(h, p) PROVE ~Live(p)' /\ rec'[p].status # "none"
  <2>1. ~Live(p)
    BY <1>0, <1>4 DEF CommitUpdate, FinishOperation, At, Changes, DrainedStaysIdle
  <2>2. rec'[p].status = op[h].status /\ op[h].status # "none"
    BY <1>0, <1>1, <1>4 DEF CommitUpdate, At, WriteRows, WriteRec, OperationsKnow, Intends
  <2> QED
    BY <1>4, <2>1, <2>2 DEF CommitUpdate, Live
<1>5. ASSUME NEW h \in Host, CommitDisable(h, p) PROVE ~Live(p)' /\ ~ws'[p]
  BY <1>1, <1>5 DEF CommitDisable, Live
<1>6. ASSUME NEW h \in Host, CommitPurge(h, p) PROVE ~Live(p)' /\ ~ws'[p]
  BY <1>6 DEF CommitPurge, Live
<1>7. ASSUME NEW h \in Host, CommitActivate(h, p) PROVE rec'[p].status = "active"
  BY <1>1, <1>7 DEF CommitActivate, WriteRec, Rec
<1>8. Marked(p) => rec'[p].status \in Unusable
  BY <1>1 DEF Marked, WriteRec, Rec
<1> QED
  BY <1>0, <1>2, <1>3, <1>4, <1>5, <1>6, <1>7, <1>8, RowSteps DEF Unusable

LEMMA InitInv == Init => IInv
<1> SUFFICES ASSUME Init PROVE IInv
  OBVIOUS
<1>1. TypeOK
  BY InitTypes
<1>2. OnePlugin /\ HoldersLease /\ ActivationHasRequest /\ LeasesExclude /\ AdmittedToActive
  BY DEF Init, OnePlugin, HoldersLease, ActivationHasRequest, LeasesExclude, AdmittedToActive,
         IdleOp, IdleReq, Holding
<1>3. DrainedStaysIdle /\ OperationsKnow
  BY DEF Init, DrainedStaysIdle, OperationsKnow, Intends, IdleOp
<1>4. PermittedRunsAreCurrent /\ DisabledIsIdle
  BY DEF Init, PermittedRunsAreCurrent, DisabledIsIdle, Permitted, AtWork, Live, NoExec
<1> QED
  BY <1>1, <1>2, <1>3, <1>4 DEF IInv

LEMMA InvPreserved == IInv /\ [Next]_vars => IInv'
<1>1. IInv /\ UNCHANGED vars => IInv'
  <2> SUFFICES ASSUME IInv, UNCHANGED vars PROVE IInv'
    OBVIOUS
  <2>1. /\ rec' = rec /\ marker' = marker /\ leases' = leases /\ ws' = ws /\ exec' = exec
        /\ op' = op /\ req' = req
    BY DEF vars, durable
  <2>2. TypeOK'
    BY TypesPreserved DEF IInv
  <2>3. OnePlugin' /\ HoldersLease' /\ ActivationHasRequest' /\ LeasesExclude' /\ AdmittedToActive'
    BY <2>1 DEF IInv, OnePlugin, HoldersLease, ActivationHasRequest, LeasesExclude,
                AdmittedToActive, Installed
  <2>4. DrainedStaysIdle' /\ OperationsKnow'
    BY <2>1 DEF IInv, DrainedStaysIdle, OperationsKnow, KnowsRow, Live
  <2>5. PermittedRunsAreCurrent' /\ DisabledIsIdle'
    BY <2>1 DEF IInv, PermittedRunsAreCurrent, DisabledIsIdle, Permitted, AtWork, Live, Installed
  <2> QED
    BY <2>2, <2>3, <2>4, <2>5 DEF IInv
<1>2. IInv /\ Next => IInv'
  <2> SUFFICES ASSUME IInv, Next PROVE IInv'
    OBVIOUS
  <2>1. TypeOK'
    BY TypesPreserved DEF IInv
  <2> QED
    BY <2>1, OnePluginPreserved, HoldersLeasePreserved, ActivationHasRequestPreserved,
       LeasesExcludePreserved, AdmittedToActivePreserved, DrainedStaysIdlePreserved,
       OperationsKnowPreserved, PermittedRunsAreCurrentPreserved, DisabledIsIdlePreserved DEF IInv
<1> QED
  BY <1>1, <1>2

LEMMA Invariant == Spec => []IInv
BY InitInv, InvPreserved, PTL DEF Spec

----------------------------------------------------------------------------
(* The theorems *)

(* However many Hosts change, serve and refresh plug-ins, a turn that may    *)
(* ask a model or dispatch a tool runs the installed release of a plug-in   *)
(* that is neither disabled, failed nor revoked.                            *)
THEOREM RunsAreCurrent == Spec => []PermittedRunsAreCurrent
<1>1. IInv => PermittedRunsAreCurrent
  BY DEF IInv
<1> QED
  BY <1>1, Invariant, PTL

(* A disabled or removed plug-in has no open Execution, and a removed one is *)
(* enabled in no workspace.                                                 *)
THEOREM DisabledHasNoUse == Spec => []DisabledIsIdle
<1>1. IInv => DisabledIsIdle
  BY DEF IInv
<1> QED
  BY <1>1, Invariant, PTL

(* While a request uses a plug-in nobody holds its operation marker, and it  *)
(* stays installed: beginOperation and acquireUseLease look at each other.  *)
THEOREM UseExcludesChange == Spec => []LeasesExclude
<1>1. IInv => LeasesExclude
  BY DEF IInv
<1> QED
  BY <1>1, Invariant, PTL

(* No activation, update or load failure that was under way when a release   *)
(* was revoked brings its installation back.                                *)
THEOREM RevocationIsFinal == Spec => RevokedIsFinal
<1>1. ASSUME IInv, Next, NEW p \in Plugin, rec[p].status = "revoked"
      PROVE  rec'[p].status \in {"revoked", "none"}
  <2>1. /\ TypeOK /\ OperationsKnow /\ rec \in [Plugin -> Rec]
        /\ \A h \in Host : Intends(op[h])
    BY <1>1 DEF IInv, TypeOK, OperationsKnow
  <2>2. ASSUME NEW h \in Host, op[h].fresh, p \in op[h].todo PROVE KnowsRow(op[h], p)
    BY <2>1, <2>2 DEF OperationsKnow
  <2>3. ASSUME NEW h \in Host, CommitInstall(h, p) PROVE FALSE
    BY <1>1, <2>3 DEF CommitInstall, StillAsPurged, Installed
  <2>4. ASSUME NEW h \in Host, CommitUpdate(h, p) PROVE FALSE
    BY <1>1, <2>2, <2>4 DEF CommitUpdate, At, KnowsRow
  <2>5. ASSUME NEW h \in Host, CommitDisable(h, p) PROVE rec'[p].status = "revoked"
    BY <1>1, <2>1, <2>2, <2>5 DEF CommitDisable, At, KnowsRow, WriteRows, WriteRec
  <2>6. ASSUME NEW h \in Host, CommitPurge(h, p) PROVE rec'[p].status = "none"
    BY <2>1, <2>6 DEF CommitPurge, At, Intends, WriteRows, WriteRec
  <2>7. ASSUME NEW h \in Host, CommitActivate(h, p) PROVE FALSE
    BY <1>1, <2>2, <2>7 DEF CommitActivate, StillAsRead, At, KnowsRow, Unusable
  <2>8. ~Marked(p)
    BY <1>1 DEF Marked, Marks
  <2> QED
    BY <1>1, <2>1, <2>3, <2>4, <2>5, <2>6, <2>7, <2>8, RowSteps
<1>2. ASSUME IInv, [Next]_vars
      PROVE  [\A p \in Plugin : rec[p].status = "revoked" => rec'[p].status \in {"revoked", "none"}]_vars
  BY <1>1, <1>2
<1> QED
  BY <1>2, Invariant, PTL DEF Spec, RevokedIsFinal

(* The release of a plug-in never goes down, neither by an update nor by a   *)
(* purge and an installation that another Host had begun before it.         *)
THEOREM ReleasesGoUp == Spec => NeverDowngraded
<1>1. ASSUME IInv, Next, NEW p \in Plugin PROVE rec'[p].release >= rec[p].release
  <2>1. TypeOK /\ OperationsKnow /\ rec \in [Plugin -> Rec]
    BY <1>1 DEF IInv, TypeOK
  <2>2. rec[p].release \in Nat
    BY <2>1, PluginAssumption DEF Rec, Release
  <2>3. rec[p].release >= rec[p].release
    BY <2>2
  <2>4. ASSUME NEW h \in Host, op[h].fresh, p \in op[h].todo PROVE KnowsRow(op[h], p)
    BY <2>1, <2>4 DEF OperationsKnow
  <2>5. ASSUME NEW h \in Host, CommitInstall(h, p) \/ CommitUpdate(h, p)
        PROVE  rec'[p].release >= rec[p].release
    <3>1. op[h].plan[p] >= rec[p].release
      BY <2>4, <2>5 DEF CommitInstall, CommitUpdate, StillAsPurged, At, KnowsRow
    <3>2. rec'[p].release = op[h].plan[p]
      BY <2>1, <2>5 DEF CommitInstall, CommitUpdate, WriteRows, WriteRec
    <3> QED
      BY <3>1, <3>2
  <2>6. ASSUME NEW h \in Host, CommitDisable(h, p) \/ CommitPurge(h, p) \/ CommitActivate(h, p)
        PROVE  rec'[p].release = rec[p].release
    BY <2>1, <2>6 DEF CommitDisable, CommitPurge, CommitActivate, WriteRows, WriteRec, Rec
  <2>7. Marked(p) => rec'[p].release = rec[p].release
    BY <2>1 DEF Marked, WriteRec, Rec
  <2> QED
    BY <1>1, <2>1, <2>3, <2>5, <2>6, <2>7, RowSteps
<1>2. ASSUME IInv, [Next]_vars PROVE [\A p \in Plugin : rec'[p].release >= rec[p].release]_vars
  BY <1>1, <1>2
<1> QED
  BY <1>2, Invariant, PTL DEF Spec, NeverDowngraded
=============================================================================

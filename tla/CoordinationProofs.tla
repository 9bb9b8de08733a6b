------------------------- MODULE CoordinationProofs -------------------------
(***************************************************************************)
(* What a team plan keeps to, for any plan, budgets and bounds: an attempt *)
(* moves one way only, and what is closed, settled or complete stays so.   *)
(* Every step of the system is, attempt by attempt, such a move; the       *)
(* admission of an attempt is the one step that adds to them.              *)
(*                                                                         *)
(* The group's budget is an invariant of its own (CapInv): the bills and   *)
(* reservations of a run and its successors are within the run's cap, each *)
(* move lowers them, and an admission looks at all of them first.          *)
(***************************************************************************)
EXTENDS Coordination, SumLemmas, TLAPS

(* Only the latest run may go on, and only runs that were created have       *)
(* attempts.                                                                 *)
RunsInOrder ==
  /\ \A r \in Run : runs[r].status \in {"active", "paused"} => r = group.current
  /\ \A a \in Admitted : a[1] =< group.current

(* A row that was not admitted is empty, a bill is final, no request is made *)
(* after an overrun, an Execution that is over has no call, and its          *)
(* attempt's record agrees with it.                                          *)
RowInv(a) ==
  /\ att[a].exec = "none" => att[a] = NoAttempt
  /\ att[a].settled => Closed(a) /\ att[a].usage = att[a].spent
  /\ att[a].overrun => att[a].pending = 0
  /\ att[a].exec \in Over => ~att[a].call
  /\ att[a].meta \in Over => att[a].exec = att[a].meta /\ att[a].job = "closed"

Rows == \A a \in Attempt : RowInv(a)

(* The attempts at a node are numbered without a gap.                        *)
TriesInOrder ==
  \A r \in Run, n \in Node : \E k \in 0 .. MaxTry : Tries(r, n) = 1 .. k

IInv ==
  /\ TypeOK /\ RunsInOrder /\ Rows /\ TriesInOrder
  /\ RepeatsOnlyFailures /\ NothingBesideUnknown /\ StoppedPlansAreQuiet /\ DependenciesHold

(* How an attempt moves, other than by its admission. *)
Moves(a) ==
  /\ att'[a] \in AttemptRow
  /\ RowInv(a)'
  /\ att'[a].exec = "none" <=> att[a].exec = "none"
  /\ att[a].exec \in Over \cup {"needs_reconciliation"} => att'[a].exec = att[a].exec
  /\ att[a].meta \in Over => att'[a].meta = att[a].meta
  /\ att[a].job = "closed" =>
       /\ att'[a].job = "closed" /\ att'[a].call = att[a].call
       /\ att'[a].pending = att[a].pending
  /\ att[a].settled => att'[a].settled /\ att'[a].usage = att[a].usage
  /\ att'[a].exec = "needs_reconciliation" => att[a].exec = "needs_reconciliation" \/ att[a].call
  /\ att'[a].call => att[a].call \/ MayProceed(a)
  /\ att'[a].exec \in {"queued", "running"} => att[a].exec \in {"queued", "running"}
  /\ att[a].exec \in Closable => att'[a].exec \in Closable \cup {"needs_reconciliation"}

AllMove == /\ att' \in [Attempt -> AttemptRow]
           /\ \A a \in Attempt : Moves(a)

----------------------------------------------------------------------------
(* Attempts *)

LEMMA AttemptType ==
  ASSUME NEW a \in Attempt
  PROVE  /\ a[1] \in Run /\ a[2] \in Node /\ a[3] \in 1 .. MaxTry
         /\ a = <<a[1], a[2], a[3]>>
BY DEF Attempt

(* An attempt that does not change moves. *)
LEMMA StandsStill ==
  ASSUME IInv, NEW a \in Attempt, att'[a] = att[a]
  PROVE  Moves(a)
<1>1. att[a] \in AttemptRow /\ RowInv(a)
  BY DEF IInv, TypeOK, Rows
<1> QED BY <1>1 DEF Moves, RowInv, Closed, Closable, AttemptRow, ExecStatus

(* A step that changes one row only. *)
LEMMA OneMoves ==
  ASSUME IInv, NEW a \in Attempt, NEW row \in AttemptRow,
         att' = [att EXCEPT ![a] = row], att'[a] = row => Moves(a)
  PROVE  AllMove
<1>1. att \in [Attempt -> AttemptRow]
  BY DEF IInv, TypeOK
<1>2. att'[a] = row /\ att' \in [Attempt -> AttemptRow]
  BY <1>1
<1>3. ASSUME NEW b \in Attempt \ {a} PROVE Moves(b)
  BY <1>1, StandsStill
<1> QED BY <1>2, <1>3 DEF AllMove

(* Cancelling a run, and a revocation: some Executions stop, nothing else.   *)
LEMMA StopMoves ==
  ASSUME IInv, NEW S, NEW stopped \in {"cancelled", "interrupted"},
         att' = [a \in Attempt |->
                   IF a \notin S \/ a \notin Admitted \/ att[a].exec \in Over THEN att[a]
                   ELSE [att[a] EXCEPT !.exec =
                           IF att[a].exec = "needs_reconciliation" \/ att[a].call
                           THEN "needs_reconciliation" ELSE stopped]]
  PROVE  /\ AllMove
         /\ \A a \in Admitted \cap S :
              att'[a].exec \in Over \cup {"needs_reconciliation", stopped}
<1>1. ASSUME NEW a \in Attempt
      PROVE  /\ Moves(a)
             /\ a \in Admitted \cap S =>
                  att'[a].exec \in Over \cup {"needs_reconciliation", stopped}
  <2>1. att[a] \in AttemptRow /\ RowInv(a)
    BY DEF IInv, TypeOK, Rows
  <2>2. CASE a \notin S \/ a \notin Admitted \/ att[a].exec \in Over
    BY <2>2, StandsStill
  <2>3. CASE a \in S /\ a \in Admitted /\ att[a].exec \notin Over
    <3> DEFINE exec == IF att[a].exec = "needs_reconciliation" \/ att[a].call
                       THEN "needs_reconciliation" ELSE stopped
    <3>1. att'[a] = [att[a] EXCEPT !.exec = exec]
      BY <2>3
    <3>2. exec \in {"needs_reconciliation", "cancelled", "interrupted"}
      OBVIOUS
    <3>3. /\ att'[a].exec = exec /\ att'[a].meta = att[a].meta /\ att'[a].job = att[a].job
          /\ att'[a].call = att[a].call /\ att'[a].pending = att[a].pending
          /\ att'[a].spent = att[a].spent /\ att'[a].overrun = att[a].overrun
          /\ att'[a].settled = att[a].settled
          /\ att'[a].usage = att[a].usage /\ att'[a] \in AttemptRow
      BY <2>1, <3>1, <3>2 DEF AttemptRow, ExecStatus, Closable, Over
    <3>4. RowInv(a)'
      BY <2>1, <2>3, <3>2, <3>3 DEF RowInv, Closed, Closable, Over, Admitted
    <3>5. QED
      BY <2>1, <2>3, <3>2, <3>3, <3>4 DEF Moves, RowInv, Closed, Closable, Over, Admitted
  <2> QED BY <2>2, <2>3
<1>2. att' \in [Attempt -> AttemptRow]
  BY <1>1 DEF Moves
<1> QED BY <1>1, <1>2 DEF AllMove, Admitted

LEMMA CancelMoves ==
  ASSUME IInv, NEW r, att' = CancelAttempts(r)
  PROVE  /\ AllMove
         /\ \A a \in Admitted : a[1] = r => att'[a].exec \in Over \cup {"needs_reconciliation"}
<1> DEFINE S == {a \in Attempt : a[1] = r}
<1>1. att' = [a \in Attempt |->
                IF a \notin S \/ a \notin Admitted \/ att[a].exec \in Over THEN att[a]
                ELSE [att[a] EXCEPT !.exec =
                        IF att[a].exec = "needs_reconciliation" \/ att[a].call
                        THEN "needs_reconciliation" ELSE "cancelled"]]
  BY DEF CancelAttempts
<1>2. \A a \in Admitted : a[1] = r => a \in S
  BY DEF Admitted
<1> HIDE DEF S
<1>3. /\ AllMove
      /\ \A a \in Admitted \cap S : att'[a].exec \in Over \cup {"needs_reconciliation", "cancelled"}
  BY <1>1, StopMoves
<1> QED BY <1>2, <1>3 DEF Over

(* A revocation, like a cancellation, stops Executions.                      *)
LEMMA RevokeMoves ==
  ASSUME IInv, Revoke
  PROVE  /\ AllMove
         /\ \A a \in Admitted : att'[a].exec \notin {"queued", "running"}
<1>1. att' = [a \in Attempt |->
                IF a \notin Attempt \/ a \notin Admitted \/ att[a].exec \in Over THEN att[a]
                ELSE [att[a] EXCEPT !.exec =
                        IF att[a].exec = "needs_reconciliation" \/ att[a].call
                        THEN "needs_reconciliation" ELSE "interrupted"]]
  BY DEF Revoke
<1>2. /\ AllMove
      /\ \A a \in Admitted \cap Attempt :
           att'[a].exec \in Over \cup {"needs_reconciliation", "interrupted"}
  BY <1>1, StopMoves
<1> QED BY <1>2 DEF Admitted, Over

----------------------------------------------------------------------------
(* The steps of the Worker and of the host on one attempt *)

LEMMA ClaimMoves ==
  ASSUME IInv, NEW a \in Attempt, Claim(a)
  PROVE  AllMove
<1> DEFINE row == [att[a] EXCEPT !.job = "leased", !.exec = "running"]
<1>1. att \in [Attempt -> AttemptRow] /\ att[a] \in AttemptRow /\ RowInv(a)
  BY DEF IInv, TypeOK, Rows
<1>2. att' = [att EXCEPT ![a] = row]
  BY <1>1 DEF Claim
<1>3. /\ row \in AttemptRow /\ row.exec = "running" /\ row.meta = att[a].meta
      /\ row.job = "leased" /\ row.call = att[a].call /\ row.pending = att[a].pending
      /\ row.spent = att[a].spent /\ row.overrun = att[a].overrun
      /\ row.settled = att[a].settled /\ row.usage = att[a].usage
  BY <1>1 DEF AttemptRow, ExecStatus
<1> HIDE DEF row
<1>4. ASSUME att'[a] = row PROVE Moves(a)
  BY <1>1, <1>3, <1>4 DEF Claim, Moves, RowInv, Closed, Closable, Over
<1> QED BY <1>2, <1>3, <1>4, OneMoves

LEMMA CloseMoves ==
  ASSUME IInv, NEW a \in Attempt, CloseBeforeClaim(a)
  PROVE  AllMove
<1> DEFINE row == [att[a] EXCEPT !.job = "closed"]
<1>1. att \in [Attempt -> AttemptRow] /\ att[a] \in AttemptRow /\ RowInv(a)
  BY DEF IInv, TypeOK, Rows
<1>2. att' = [att EXCEPT ![a] = row]
  BY <1>1 DEF CloseBeforeClaim
<1>3. /\ row \in AttemptRow /\ row.exec = att[a].exec /\ row.meta = att[a].meta
      /\ row.job = "closed" /\ row.call = att[a].call /\ row.pending = att[a].pending
      /\ row.spent = att[a].spent /\ row.overrun = att[a].overrun
      /\ row.settled = att[a].settled /\ row.usage = att[a].usage
  BY <1>1 DEF AttemptRow
<1> HIDE DEF row
<1>4. ASSUME att'[a] = row PROVE Moves(a)
  BY <1>1, <1>3, <1>4
     DEF CloseBeforeClaim, Moves, RowInv, Closed, Closable, Over, AttemptRow, ExecStatus
<1> QED BY <1>2, <1>3, <1>4, OneMoves

LEMMA BillIsNatural ==
  ASSUME NEW a \in Attempt, NEW bill \in Bill(a[2])
  PROVE  bill \in Nat
BY DEF Bill

LEMMA RequestMoves ==
  ASSUME IInv, NEW a \in Attempt, NEW tokens \in Bill(a[2]), RequestModel(a, tokens)
  PROVE  AllMove
<1> DEFINE row == [att[a] EXCEPT !.pending = tokens]
<1>1. att \in [Attempt -> AttemptRow] /\ att[a] \in AttemptRow /\ RowInv(a)
  BY DEF IInv, TypeOK, Rows
<1>2. att' = [att EXCEPT ![a] = row]
  BY <1>1 DEF RequestModel
<1>3. tokens \in Nat
  BY BillIsNatural
<1>4. /\ row \in AttemptRow /\ row.exec = att[a].exec /\ row.meta = att[a].meta
      /\ row.job = att[a].job /\ row.call = att[a].call
      /\ row.spent = att[a].spent /\ row.overrun = att[a].overrun
      /\ row.settled = att[a].settled /\ row.usage = att[a].usage
  BY <1>1, <1>3 DEF AttemptRow
<1> HIDE DEF row
<1>5. ASSUME att'[a] = row PROVE Moves(a)
  BY <1>1, <1>4, <1>5
     DEF RequestModel, AtWork, Moves, RowInv, Closed, Closable, Over, AttemptRow, ExecStatus
<1> QED BY <1>2, <1>4, <1>5, OneMoves

LEMMA AnswerMoves ==
  ASSUME IInv, NEW a \in Attempt, NEW tokens \in Bill(a[2]), ModelAnswers(a, tokens)
  PROVE  AllMove
<1> DEFINE over == (tokens > att[a].pending)
           row == [att[a] EXCEPT !.pending = 0, !.spent = @ + tokens, !.overrun = over]
<1>1. att \in [Attempt -> AttemptRow] /\ att[a] \in AttemptRow /\ RowInv(a)
  BY DEF IInv, TypeOK, Rows
<1>2. att' = [att EXCEPT ![a] = row]
  BY <1>1 DEF ModelAnswers
<1>3. tokens \in Nat /\ att[a].spent \in Nat /\ att[a].spent + tokens \in Nat /\ over \in BOOLEAN
  BY <1>1, BillIsNatural DEF AttemptRow
<1> HIDE DEF over
<1>4. /\ row \in AttemptRow /\ row.exec = att[a].exec /\ row.meta = att[a].meta
      /\ row.job = att[a].job /\ row.call = att[a].call
      /\ row.pending = 0 /\ row.settled = att[a].settled /\ row.usage = att[a].usage
  BY <1>1, <1>3 DEF AttemptRow
<1> HIDE DEF row
<1>5. ASSUME att'[a] = row PROVE Moves(a)
  BY <1>1, <1>4, <1>5
     DEF ModelAnswers, Moves, RowInv, NoAttempt, Closed, Closable, Over, AttemptRow, ExecStatus
<1> QED BY <1>2, <1>4, <1>5, OneMoves

LEMMA StartMoves ==
  ASSUME IInv, NEW a \in Attempt, StartCall(a)
  PROVE  AllMove
<1> DEFINE row == [att[a] EXCEPT !.call = TRUE]
<1>1. att \in [Attempt -> AttemptRow] /\ att[a] \in AttemptRow /\ RowInv(a)
  BY DEF IInv, TypeOK, Rows
<1>2. att' = [att EXCEPT ![a] = row]
  BY <1>1 DEF StartCall
<1>3. /\ row \in AttemptRow /\ row.exec = att[a].exec /\ row.meta = att[a].meta
      /\ row.job = att[a].job /\ row.pending = att[a].pending
      /\ row.spent = att[a].spent /\ row.overrun = att[a].overrun
      /\ row.settled = att[a].settled /\ row.usage = att[a].usage
  BY <1>1 DEF AttemptRow
<1> HIDE DEF row
<1>4. ASSUME att'[a] = row PROVE Moves(a)
  BY <1>1, <1>3, <1>4
     DEF StartCall, AtWork, Moves, RowInv, Closed, Closable, Over, AttemptRow, ExecStatus
<1> QED BY <1>2, <1>3, <1>4, OneMoves

LEMMA ReturnMoves ==
  ASSUME IInv, NEW a \in Attempt, CallReturns(a)
  PROVE  AllMove
<1> DEFINE row == [att[a] EXCEPT !.call = FALSE]
<1>1. att \in [Attempt -> AttemptRow] /\ att[a] \in AttemptRow /\ RowInv(a)
  BY DEF IInv, TypeOK, Rows
<1>2. att' = [att EXCEPT ![a] = row]
  BY <1>1 DEF CallReturns
<1>3. /\ row \in AttemptRow /\ row.exec = att[a].exec /\ row.meta = att[a].meta
      /\ row.job = att[a].job /\ row.pending = att[a].pending /\ row.call = FALSE
      /\ row.spent = att[a].spent /\ row.overrun = att[a].overrun
      /\ row.settled = att[a].settled /\ row.usage = att[a].usage
  BY <1>1 DEF AttemptRow
<1>4. att[a].exec # "none" /\ ~att[a].settled /\ att[a].meta \notin Over
  BY <1>1 DEF CallReturns, RowInv, NoAttempt, Closed
<1> HIDE DEF row
<1>5. ASSUME att'[a] = row PROVE Moves(a)
  BY <1>1, <1>3, <1>4, <1>5
     DEF CallReturns, Moves, RowInv, Closed, Closable, Over, AttemptRow, ExecStatus
<1> QED BY <1>2, <1>3, <1>5, OneMoves

LEMMA DenyMoves ==
  ASSUME IInv, NEW a \in Attempt, DenyApproval(a)
  PROVE  AllMove
<1> DEFINE row == [att[a] EXCEPT !.exec = "failed"]
<1>1. att \in [Attempt -> AttemptRow] /\ att[a] \in AttemptRow /\ RowInv(a)
  BY DEF IInv, TypeOK, Rows
<1>2. att' = [att EXCEPT ![a] = row]
  BY <1>1 DEF DenyApproval
<1>3. /\ row \in AttemptRow /\ row.exec = "failed" /\ row.meta = att[a].meta
      /\ row.job = att[a].job /\ row.call = att[a].call /\ row.pending = att[a].pending
      /\ row.spent = att[a].spent /\ row.overrun = att[a].overrun
      /\ row.settled = att[a].settled /\ row.usage = att[a].usage
  BY <1>1 DEF AttemptRow, ExecStatus, Closable, Over
<1> HIDE DEF row
<1>4. ASSUME att'[a] = row PROVE Moves(a)
  BY <1>1, <1>3, <1>4 DEF DenyApproval, AtWork, Moves, RowInv, Closed, Closable, Over
<1> QED BY <1>2, <1>3, <1>4, OneMoves

LEMMA SettleMoves ==
  ASSUME IInv, NEW a \in Attempt,
         NEW outcome \in {"completed", "paused", "failed", "interrupted"},
         SettleAttempt(a, outcome)
  PROVE  AllMove
<1> DEFINE row == [att[a] EXCEPT !.job = "closed", !.exec = Final(a, outcome),
                                 !.meta = Final(a, outcome)]
<1>1. att \in [Attempt -> AttemptRow] /\ att[a] \in AttemptRow /\ RowInv(a)
  BY DEF IInv, TypeOK, Rows
<1>2. att' = [att EXCEPT ![a] = row]
  BY <1>1 DEF SettleAttempt
<1>3. att[a].exec # "none"
  BY <1>1 DEF SettleAttempt, RowInv, NoAttempt
<1>4. Final(a, outcome) \in ExecStatus
  BY <1>1, <1>3 DEF Final, AttemptRow, ExecStatus, Closable, Over
<1>5. /\ row \in AttemptRow /\ row.exec = Final(a, outcome) /\ row.meta = Final(a, outcome)
      /\ row.job = "closed" /\ row.call = att[a].call /\ row.pending = att[a].pending
      /\ row.spent = att[a].spent /\ row.overrun = att[a].overrun
      /\ row.settled = att[a].settled /\ row.usage = att[a].usage
  BY <1>1, <1>4 DEF AttemptRow
<1> HIDE DEF row
<1>6. ASSUME att'[a] = row PROVE Moves(a)
  BY <1>1, <1>3, <1>4, <1>5, <1>6
     DEF SettleAttempt, Final, Moves, RowInv, Closed, Closable, Over, AttemptRow, ExecStatus
<1> QED BY <1>2, <1>5, <1>6, OneMoves

LEMMA UsageMoves ==
  ASSUME IInv, NEW a \in Attempt, SettleUsage(a)
  PROVE  AllMove
<1> DEFINE row == [att[a] EXCEPT !.settled = TRUE, !.usage = att[a].spent]
<1>1. att \in [Attempt -> AttemptRow] /\ att[a] \in AttemptRow /\ RowInv(a)
  BY DEF IInv, TypeOK, Rows
<1>2. att' = [att EXCEPT ![a] = row]
  BY <1>1 DEF SettleUsage
<1>3. /\ row \in AttemptRow /\ row.exec = att[a].exec /\ row.meta = att[a].meta
      /\ row.job = att[a].job /\ row.call = att[a].call /\ row.pending = att[a].pending
      /\ row.spent = att[a].spent /\ row.settled /\ row.usage = att[a].spent
  BY <1>1 DEF AttemptRow
<1> HIDE DEF row
<1>4. ASSUME att'[a] = row PROVE Moves(a)
  BY <1>1, <1>3, <1>4
     DEF SettleUsage, Billable, Moves, RowInv, Closed, Closable, Over, AttemptRow, ExecStatus
<1> QED BY <1>2, <1>3, <1>4, OneMoves

LEMMA RecordMoves ==
  ASSUME IInv, NEW a \in Attempt, NEW bill \in Bill(a[2]), RecordBill(a, bill)
  PROVE  AllMove
<1> DEFINE over == (bill > Budget[a[2]])
           row == [att[a] EXCEPT !.meta = att[a].exec, !.spent = bill, !.overrun = over,
                                 !.settled = TRUE, !.usage = bill]
<1>1. att \in [Attempt -> AttemptRow] /\ att[a] \in AttemptRow /\ RowInv(a)
  BY DEF IInv, TypeOK, Rows
<1>2. att' = [att EXCEPT ![a] = row]
  BY <1>1 DEF RecordBill
<1>3. bill \in Nat /\ over \in BOOLEAN
  BY BillIsNatural
<1> HIDE DEF over
<1>4. /\ row \in AttemptRow /\ row.exec = att[a].exec /\ row.meta = att[a].exec
      /\ row.job = att[a].job /\ row.call = att[a].call /\ row.pending = att[a].pending
      /\ row.spent = bill /\ row.settled /\ row.usage = bill
  BY <1>1, <1>3 DEF AttemptRow, RecordBill, ExecStatus, Closable
<1> HIDE DEF row
<1>5. /\ Closed(a) /\ ~att[a].settled /\ att[a].exec \in Over
      /\ att[a].meta \in Over => att[a].meta = att[a].exec
  BY <1>1 DEF RecordBill, Billable, RowInv
<1>6. ASSUME att'[a] = row PROVE Moves(a)
  BY <1>1, <1>4, <1>5, <1>6
     DEF Moves, RowInv, Closed, Closable, Over, AttemptRow, ExecStatus
<1> QED BY <1>2, <1>4, <1>6, OneMoves

LEMMA ReconcileMoves ==
  ASSUME IInv, NEW a \in Attempt, Reconcile(a)
  PROVE  AllMove
<1> DEFINE status == IF att[a].call THEN "needs_reconciliation" ELSE att[a].exec
           row == [att[a] EXCEPT !.meta = status]
<1>1. att \in [Attempt -> AttemptRow] /\ att[a] \in AttemptRow /\ RowInv(a)
  BY DEF IInv, TypeOK, Rows
<1>2. att' = [att EXCEPT ![a] = row] /\ att[a].meta # status
  BY <1>1 DEF Reconcile
<1>3. status \in ExecStatus
  BY <1>1 DEF Reconcile, ExecStatus
<1>4. /\ row \in AttemptRow /\ row.exec = att[a].exec /\ row.meta = status
      /\ row.job = att[a].job /\ row.call = att[a].call /\ row.pending = att[a].pending
      /\ row.spent = att[a].spent /\ row.overrun = att[a].overrun
      /\ row.settled = att[a].settled /\ row.usage = att[a].usage
  BY <1>1, <1>3 DEF AttemptRow
<1>5. att[a].meta \notin Over
  BY <1>1, <1>2 DEF RowInv
<1>6. status \in Over => att[a].exec = status /\ att[a].job = "closed"
  BY DEF Over, Reconcile
<1> HIDE DEF row, status
<1>7. ASSUME att'[a] = row PROVE Moves(a)
  BY <1>1, <1>3, <1>4, <1>5, <1>6, <1>7
     DEF Reconcile, Moves, RowInv, Closed, Closable, Over, AttemptRow, ExecStatus
<1> QED BY <1>2, <1>4, <1>7, OneMoves

(* Each of the steps on one attempt, by whoever takes it.                    *)
Acts(a) ==
  \/ WorkerStep(a) \/ DenyApproval(a) \/ SettleUsage(a) \/ Reconcile(a)
  \/ \E bill \in Bill(a[2]) : RecordBill(a, bill)

LEMMA AttemptMoves ==
  ASSUME IInv, NEW a \in Attempt, Acts(a)
  PROVE  AllMove /\ UNCHANGED <<group, runs, gates>>
<1>1. CASE Claim(a)
  BY <1>1, ClaimMoves DEF Claim
<1>2. CASE CloseBeforeClaim(a)
  BY <1>2, CloseMoves DEF CloseBeforeClaim
<1>3. CASE \E tokens \in Bill(a[2]) : RequestModel(a, tokens)
  BY <1>3, RequestMoves DEF RequestModel
<1>4. CASE \E tokens \in Bill(a[2]) : ModelAnswers(a, tokens)
  BY <1>4, AnswerMoves DEF ModelAnswers
<1>5. CASE StartCall(a)
  BY <1>5, StartMoves DEF StartCall
<1>6. CASE CallReturns(a)
  BY <1>6, ReturnMoves DEF CallReturns
<1>7. CASE \E outcome \in {"completed", "paused", "failed", "interrupted"} :
             SettleAttempt(a, outcome)
  BY <1>7, SettleMoves DEF SettleAttempt
<1>8. CASE DenyApproval(a)
  BY <1>8, DenyMoves DEF DenyApproval
<1>9. CASE SettleUsage(a)
  BY <1>9, UsageMoves DEF SettleUsage
<1>10. CASE Reconcile(a)
  BY <1>10, ReconcileMoves DEF Reconcile
<1>11. CASE \E bill \in Bill(a[2]) : RecordBill(a, bill)
  BY <1>11, RecordMoves DEF RecordBill
<1> QED
  BY <1>1, <1>2, <1>3, <1>4, <1>5, <1>6, <1>7, <1>8, <1>9, <1>10, <1>11 DEF Acts, WorkerStep

----------------------------------------------------------------------------
(* What moves keep *)

LEMMA RowsKept ==
  ASSUME IInv, AllMove
  PROVE  /\ Rows' /\ TriesInOrder' /\ Admitted' = Admitted
         /\ \A r, n : Tries(r, n)' = Tries(r, n)
         /\ \A a \in Attempt : Closed(a) /\ Usable(a) => Closed(a)' /\ Usable(a)'
<1>1. Admitted' = Admitted
  BY DEF AllMove, Moves, Admitted
<1>2. \A r, n : Tries(r, n)' = Tries(r, n)
  BY <1>1 DEF Tries
<1>3. Rows'
  BY DEF AllMove, Moves, Rows
<1>4. TriesInOrder'
  BY <1>2 DEF IInv, TriesInOrder
<1>5. ASSUME NEW a \in Attempt, Closed(a), Usable(a)
      PROVE  Closed(a)' /\ Usable(a)'
  <2>1. Moves(a) /\ att[a] \in AttemptRow /\ att'[a] \in AttemptRow
    BY DEF IInv, TypeOK, AllMove, Moves
  <2> QED BY <1>5, <2>1 DEF Moves, Closed, Usable, Over, Closable, AttemptRow
<1> QED BY <1>1, <1>2, <1>3, <1>4, <1>5

(* A settled attempt is closed.                                              *)
LEMMA UsableIsClosed ==
  ASSUME IInv, NEW a \in Attempt, Usable(a)
  PROVE  Closed(a)
BY DEF IInv, Rows, RowInv, Usable

(* The last attempt at a node is one of them.                                *)
LEMMA LastTry ==
  ASSUME IInv, NEW r \in Run, NEW n \in Node, Tries(r, n) # {}
  PROVE  /\ Max(Tries(r, n)) \in 1 .. MaxTry
         /\ <<r, n, Max(Tries(r, n))>> \in Attempt
<1>1. PICK k \in 0 .. MaxTry : Tries(r, n) = 1 .. k
  BY DEF IInv, TriesInOrder
<1>2. k \in 1 .. MaxTry /\ k \in Tries(r, n) /\ \A i \in Tries(r, n) : k >= i
  BY <1>1
<1>3. Max(Tries(r, n)) \in Tries(r, n)
  BY <1>2 DEF Max
<1>4. Max(Tries(r, n)) \in 1 .. MaxTry
  <2>1. MaxTry \in Nat /\ 1 .. k \subseteq 1 .. MaxTry
    BY CoordinationAssumption DEF CoordinationAssumption
  <2> QED BY <1>1, <1>3, <2>1
<1> QED BY <1>4 DEF Attempt

(* What is complete stays complete, while no further attempt is made at it.  *)
LEMMA CompleteStays ==
  ASSUME IInv, NEW r \in Run, NEW x \in Node \cup Gate, Complete(r, x),
         runs'[r].reuse = runs[r].reuse,
         x \in Gate /\ gates[<<r, x>>] = "approved" => gates'[<<r, x>>] = "approved",
         x \in Node => Tries(r, x)' = Tries(r, x),
         \A a \in Attempt : Closed(a) /\ Usable(a) => Closed(a)' /\ Usable(a)'
  PROVE  Complete(r, x)'
<1>1. Reused(r)' = Reused(r)
  BY DEF Reused
<1>2. runs[r].reuse \subseteq Attempt
  BY DEF IInv, TypeOK, RunRow
<1>3. CASE x \in Gate
  BY <1>3 DEF Complete
<1>4. CASE x \notin Gate /\ x \in Reused(r)
  BY <1>1, <1>2, <1>4 DEF Complete
<1>5. CASE x \notin Gate /\ x \notin Reused(r)
  <2> DEFINE last == <<r, x, Max(Tries(r, x))>>
  <2>1. x \in Node /\ Tries(r, x) # {} /\ Usable(last)
    BY <1>5 DEF Complete
  <2>2. last \in Attempt
    BY <2>1, LastTry
  <2>3. PICK b \in Attempt : b = last
    BY <2>2
  <2>4. Closed(b) /\ Usable(b)
    BY <2>1, <2>3, UsableIsClosed
  <2>5. Closed(b)' /\ Usable(b)'
    BY <2>4
  <2>6. b = <<r, x, Max(Tries(r, x)')>> /\ Tries(r, x)' # {}
    BY <2>1, <2>3
  <2>7. ~att'[b].call
    BY <2>5 DEF Closed
  <2> HIDE DEF last
  <2> QED BY <1>1, <1>5, <2>5, <2>6, <2>7 DEF Complete
<1> QED BY <1>3, <1>4, <1>5

(* A step of moves that changes neither the group nor what its runs reuse    *)
(* and were granted keeps every part of the invariant about results.         *)
LEMMA MovesKeep ==
  ASSUME IInv, AllMove, TypeOK',
         group'.current >= group.current,
         \A r \in Run : r =< group.current => runs'[r].reuse = runs[r].reuse,
         \A x \in Run \X Gate : gates[x] = "approved" => gates'[x] = "approved"
  PROVE  /\ Rows' /\ TriesInOrder' /\ RepeatsOnlyFailures' /\ NothingBesideUnknown'
         /\ DependenciesHold'
         /\ \A a \in Admitted' : a[1] =< group'.current
<1>1. /\ Rows' /\ TriesInOrder' /\ Admitted' = Admitted
      /\ \A r, n : Tries(r, n)' = Tries(r, n)
      /\ \A a \in Attempt : Closed(a) /\ Usable(a) => Closed(a)' /\ Usable(a)'
  BY RowsKept
<1>2. group.current \in Nat /\ group'.current \in Nat /\ Run \subseteq Nat
  BY DEF IInv, TypeOK, Run
<1>3. \A a \in Admitted : a \in Attempt /\ a[1] \in Run /\ a[1] =< group.current
  BY AttemptType DEF IInv, RunsInOrder, Admitted
<1>4. \A a \in Admitted' : a[1] =< group'.current
  <2>1. ASSUME NEW a \in Admitted PROVE a[1] =< group'.current
    <3>1. a[1] \in Nat /\ a[1] =< group.current
      BY <1>2, <1>3
    <3> QED BY <1>2, <3>1
  <2> QED BY <1>1, <2>1
<1>5. RepeatsOnlyFailures'
  <2>1. ASSUME NEW a \in Admitted, <<a[1], a[2], a[3] + 1>> \in Admitted
        PROVE  att'[a].exec = "failed" /\ att'[a].settled /\ Closed(a)'
    <3>1. att[a].exec = "failed" /\ att[a].settled /\ Closed(a)
      BY <2>1 DEF IInv, RepeatsOnlyFailures
    <3>2. Moves(a)
      BY <1>3 DEF AllMove
    <3> QED BY <3>1, <3>2 DEF Moves, Closed, Over, Closable
  <2> QED BY <1>1, <2>1 DEF RepeatsOnlyFailures
<1>6. NothingBesideUnknown'
  <2>1. ASSUME NEW a \in Admitted, NEW b \in Admitted, a[1] < b[1]
        PROVE  att'[a].exec # "needs_reconciliation" /\ ~att'[a].call
    <3>1. att[a].exec # "needs_reconciliation" /\ ~att[a].call
      BY <2>1 DEF IInv, NothingBesideUnknown
    <3>2. Moves(a)
      BY <1>3 DEF AllMove
    <3>3. a[1] \in Nat /\ b[1] \in Nat /\ b[1] =< group.current
      BY <1>2, <1>3
    <3>4. ~MayProceed(a)
      BY <1>2, <2>1, <3>3 DEF MayProceed, IsCurrent
    <3> QED BY <3>1, <3>2, <3>4 DEF Moves
  <2> QED BY <1>1, <2>1 DEF NothingBesideUnknown
<1>7. DependenciesHold'
  <2>1. ASSUME NEW a \in Admitted, NEW d \in DependsOn[a[2]]
        PROVE  Complete(a[1], d)'
    <3>1. a[1] \in Run /\ a[2] \in Node /\ d \in Node \cup Gate
      BY <1>3, AttemptType, CoordinationAssumption DEF CoordinationAssumption
    <3>2. Complete(a[1], d)
      BY DEF IInv, DependenciesHold, DependenciesComplete
    <3>3. d \in Gate => <<a[1], d>> \in Run \X Gate
      BY <3>1
    <3>4. PICK r \in Run : r = a[1]
      BY <3>1
    <3>5. runs'[r].reuse = runs[r].reuse
      BY <1>3, <3>4
    <3>6. Complete(r, d)'
      BY <1>1, <3>1, <3>2, <3>3, <3>4, <3>5, CompleteStays
    <3> QED BY <3>4, <3>6
  <2> QED BY <1>1, <2>1 DEF DependenciesHold, DependenciesComplete
<1> QED BY <1>1, <1>4, <1>5, <1>6, <1>7

----------------------------------------------------------------------------
(* Every step keeps the invariant *)

(* A step on the attempts alone.                                             *)
LEMMA AttemptStep ==
  ASSUME IInv, AllMove, UNCHANGED <<group, runs, gates>>
  PROVE  IInv'
<1>1. TypeOK'
  BY DEF IInv, TypeOK, AllMove
<1>2. group.current \in Nat
  BY DEF IInv, TypeOK
<1>3. /\ Rows' /\ TriesInOrder' /\ RepeatsOnlyFailures' /\ NothingBesideUnknown'
      /\ DependenciesHold' /\ \A a \in Admitted' : a[1] =< group'.current
  BY <1>1, <1>2, MovesKeep
<1>4. RunsInOrder'
  BY <1>3 DEF IInv, RunsInOrder
<1>5. StoppedPlansAreQuiet'
  <2>1. Admitted' = Admitted
    BY RowsKept
  <2>2. ASSUME NEW a \in Admitted
        PROVE  /\ runs[a[1]].status \in {"cancelled", "superseded"} =>
                    att'[a].exec \in Over \cup {"needs_reconciliation"}
               /\ group.member = "revoked" => att'[a].exec \notin {"queued", "running"}
    <3>1. Moves(a)
      BY DEF AllMove, Admitted
    <3> QED BY <3>1 DEF Moves, IInv, StoppedPlansAreQuiet
  <2> QED BY <2>1, <2>2 DEF StoppedPlansAreQuiet
<1> QED BY <1>1, <1>3, <1>4, <1>5 DEF IInv

(* The runs keep what they reuse, and one that is not the group's last one   *)
(* keeps its attempts stopped.                                               *)
LEMMA CommandStep ==
  ASSUME IInv, NEW r \in Run, NEW status \in {"active", "paused", "cancelled"},
         IsCurrent(r, {"active", "paused"}),
         runs' = [runs EXCEPT ![r].status = status],
         att' = IF status = "cancelled" THEN CancelAttempts(r) ELSE att,
         gates' \in [Run \X Gate -> {"open", "approved", "rejected"}],
         \A x \in Run \X Gate : gates[x] = "approved" => gates'[x] = "approved",
         group' = group
  PROVE  IInv'
<1>1. /\ AllMove
      /\ status = "cancelled" =>
           \A a \in Admitted : a[1] = r => att'[a].exec \in Over \cup {"needs_reconciliation"}
  <2>1. CASE status = "cancelled"
    BY <2>1, CancelMoves
  <2>2. CASE status # "cancelled"
    BY <2>2, StandsStill DEF AllMove, IInv, TypeOK
  <2> QED BY <2>1, <2>2
<1>2. /\ runs \in [Run -> RunRow] /\ runs[r] \in RunRow /\ group.current \in Nat
      /\ r = group.current
  BY DEF IInv, TypeOK, IsCurrent
<1>3. /\ runs' \in [Run -> RunRow] /\ runs'[r].status = status
      /\ \A q \in Run : runs'[q].reuse = runs[q].reuse
      /\ \A q \in Run \ {r} : runs'[q] = runs[q]
  BY <1>2 DEF RunRow
<1>4. TypeOK'
  BY <1>1, <1>3 DEF IInv, TypeOK, AllMove
<1>5. /\ Rows' /\ TriesInOrder' /\ RepeatsOnlyFailures' /\ NothingBesideUnknown'
      /\ DependenciesHold' /\ \A a \in Admitted' : a[1] =< group'.current
  BY <1>1, <1>2, <1>3, <1>4, MovesKeep
<1>6. RunsInOrder'
  BY <1>2, <1>3, <1>5 DEF IInv, RunsInOrder
<1>7. StoppedPlansAreQuiet'
  <2>1. Admitted' = Admitted
    BY <1>1, RowsKept
  <2>2. ASSUME NEW a \in Admitted
        PROVE  /\ runs'[a[1]].status \in {"cancelled", "superseded"} =>
                    att'[a].exec \in Over \cup {"needs_reconciliation"}
               /\ group.member = "revoked" => att'[a].exec \notin {"queued", "running"}
    <3>1. Moves(a) /\ a[1] \in Run
      BY <1>1, AttemptType DEF AllMove, Admitted
    <3>2. CASE a[1] = r
      BY <1>1, <1>3, <3>1, <3>2 DEF Moves, IInv, StoppedPlansAreQuiet
    <3>3. CASE a[1] # r
      <4>1. runs'[a[1]] = runs[a[1]]
        BY <1>3, <3>1, <3>3
      <4> QED BY <3>1, <4>1 DEF Moves, IInv, StoppedPlansAreQuiet
    <3> QED BY <3>2, <3>3
  <2> QED BY <2>1, <2>2 DEF StoppedPlansAreQuiet
<1> QED BY <1>4, <1>5, <1>6, <1>7 DEF IInv

LEMMA DecideStep ==
  ASSUME IInv, NEW r \in Run, NEW g \in Gate, NEW decision \in {"approved", "rejected"},
         Decide(r, g, decision)
  PROVE  IInv'
<1>1. /\ gates \in [Run \X Gate -> {"open", "approved", "rejected"}]
      /\ <<r, g>> \in Run \X Gate /\ att \in [Attempt -> AttemptRow]
      /\ group.current \in Nat
  BY DEF IInv, TypeOK
<1>2. /\ gates' \in [Run \X Gate -> {"open", "approved", "rejected"}]
      /\ \A x \in Run \X Gate : gates[x] = "approved" => gates'[x] = "approved"
  BY <1>1 DEF Decide
<1>3. IsCurrent(r, {"active", "paused"}) /\ group' = group
  BY DEF Decide, IsCurrent
<1>4. CASE decision = "rejected"
  <2>1. runs' = [runs EXCEPT ![r].status = "cancelled"] /\ att' = CancelAttempts(r)
    BY <1>4 DEF Decide
  <2> QED BY <1>2, <1>3, <2>1, CommandStep
<1>5. CASE decision = "approved"
  <2>1. UNCHANGED <<group, runs, att>>
    BY <1>5 DEF Decide
  <2>2. TypeOK'
    BY <1>2, <2>1 DEF IInv, TypeOK
  <2>3. AllMove
    BY <1>1, <2>1, StandsStill DEF AllMove
  <2>4. /\ Rows' /\ TriesInOrder' /\ RepeatsOnlyFailures' /\ NothingBesideUnknown'
        /\ DependenciesHold'
    BY <1>1, <1>2, <2>1, <2>2, <2>3, MovesKeep
  <2>5. RunsInOrder' /\ StoppedPlansAreQuiet'
    BY <2>1 DEF IInv, RunsInOrder, StoppedPlansAreQuiet, Admitted
  <2> QED BY <2>2, <2>4, <2>5 DEF IInv
<1> QED BY <1>4, <1>5

LEMMA CreateStep ==
  ASSUME IInv, NEW cap \in 1 .. InitialCap, NEW rework \in BOOLEAN, NEW reuse \in SUBSET Admitted,
         Create(cap, rework, reuse)
  PROVE  IInv'
<1> DEFINE old == group.current
           new == group.current + 1
<1>1. /\ old \in Nat /\ new \in Run /\ new \in Nat /\ new > old /\ Run \subseteq Nat
      /\ runs \in [Run -> RunRow] /\ group.member = "same"
  BY DEF Create, IInv, TypeOK, Run
<1>2. /\ AllMove
      /\ \A a \in Admitted : a[1] = old => att'[a].exec \in Over \cup {"needs_reconciliation"}
  BY CancelMoves DEF Create
<1>3. reuse \subseteq Attempt /\ cap \in Nat
  BY CoordinationAssumption DEF Admitted, CoordinationAssumption
<1>4. /\ runs' \in [Run -> RunRow]
      /\ runs'[new].status = "active"
      /\ \A r \in Run \ {new} : runs'[r].reuse = runs[r].reuse
      /\ old \in Run => runs'[old].status = "superseded"
      /\ \A r \in Run \ {old, new} : runs'[r] = runs[r]
  <2>1. runs' = [r \in Run |->
                  IF r = new THEN [status |-> "active", cap |-> cap, reuse |-> reuse]
                  ELSE IF r = old THEN [runs[r] EXCEPT !.status = "superseded"]
                  ELSE runs[r]]
    BY DEF Create
  <2>2. [status |-> "active", cap |-> cap, reuse |-> reuse] \in RunRow
    BY <1>3 DEF RunRow
  <2>3. \A r \in Run : [runs[r] EXCEPT !.status = "superseded"] \in RunRow
    BY <1>1 DEF RunRow
  <2>4. runs' \in [Run -> RunRow]
    BY <1>1, <2>1, <2>2, <2>3
  <2>5. \A r \in Run : [runs[r] EXCEPT !.status = "superseded"].reuse = runs[r].reuse
    BY <1>1 DEF RunRow
  <2>6. \A r \in Run : [runs[r] EXCEPT !.status = "superseded"].status = "superseded"
    BY <1>1 DEF RunRow
  <2> QED BY <1>1, <2>1, <2>4, <2>5, <2>6
<1>5. /\ group' = [group EXCEPT !.current = new] /\ group'.current = new
      /\ group'.member = "same" /\ gates' = gates
  BY <1>1 DEF Create, IInv, TypeOK
<1>6. TypeOK'
  <2>1. new \in 0 .. MaxRun
    BY <1>1 DEF Run
  <2> HIDE DEF new
  <2> QED BY <1>2, <1>4, <1>5, <2>1 DEF IInv, TypeOK, AllMove
<1>7. \A r \in Run : r =< old => runs'[r].reuse = runs[r].reuse
  BY <1>1, <1>4
<1>8. /\ Rows' /\ TriesInOrder' /\ RepeatsOnlyFailures' /\ NothingBesideUnknown'
      /\ DependenciesHold' /\ \A a \in Admitted' : a[1] =< group'.current
  BY <1>1, <1>2, <1>5, <1>6, <1>7, MovesKeep
<1>9. RunsInOrder'
  BY <1>1, <1>4, <1>5, <1>8 DEF IInv, RunsInOrder
<1>10. StoppedPlansAreQuiet'
  <2>1. Admitted' = Admitted
    BY <1>2, RowsKept
  <2>2. ASSUME NEW a \in Admitted, runs'[a[1]].status \in {"cancelled", "superseded"}
        PROVE  att'[a].exec \in Over \cup {"needs_reconciliation"}
    <3>1. Moves(a) /\ a[1] \in Run
      BY <1>2, AttemptType DEF AllMove, Admitted
    <3>2. CASE a[1] = old
      BY <1>2, <3>2
    <3>3. CASE a[1] # old
      <4>1. a[1] # new
        BY <1>4, <2>2
      <4>2. runs'[a[1]] = runs[a[1]]
        BY <1>4, <3>1, <3>3, <4>1
      <4> QED BY <2>2, <3>1, <4>2 DEF Moves, IInv, StoppedPlansAreQuiet
    <3> QED BY <3>2, <3>3
  <2> QED BY <1>5, <2>1, <2>2 DEF StoppedPlansAreQuiet
<1> QED BY <1>6, <1>8, <1>9, <1>10 DEF IInv

(* The deadline, and what happens to the initiator's membership.             *)
LEMMA OutsideStep ==
  ASSUME IInv, DeadlinePasses \/ ChangeRole \/ Revoke
  PROVE  IInv'
<1>1. /\ group \in [plan: Plans, current: 0 .. MaxRun, expired: BOOLEAN,
                   member: {"same", "changed", "revoked"}]
      /\ att \in [Attempt -> AttemptRow] /\ group.current \in Nat
  BY DEF IInv, TypeOK
<1>2. /\ group' \in [plan: Plans, current: 0 .. MaxRun, expired: BOOLEAN,
                   member: {"same", "changed", "revoked"}]
      /\ group'.current = group.current /\ runs' = runs /\ gates' = gates
  BY <1>1 DEF DeadlinePasses, ChangeRole, Revoke
<1>3. /\ AllMove
      /\ group'.member = "revoked" =>
           \A a \in Admitted : att'[a].exec \notin {"queued", "running"}
  <2>1. CASE Revoke
    BY <2>1, RevokeMoves
  <2>2. CASE DeadlinePasses \/ ChangeRole
    <3>1. att' = att
      BY <2>2 DEF DeadlinePasses, ChangeRole
    <3>2. AllMove
      BY <1>1, <3>1, StandsStill DEF AllMove
    <3>3. group'.member = "revoked" => group.member = "revoked"
      BY <1>1, <2>2 DEF DeadlinePasses, ChangeRole
    <3> QED BY <3>1, <3>2, <3>3 DEF IInv, StoppedPlansAreQuiet
  <2> QED BY <2>1, <2>2
<1>4. TypeOK'
  BY <1>2, <1>3 DEF IInv, TypeOK, AllMove
<1>5. /\ Rows' /\ TriesInOrder' /\ RepeatsOnlyFailures' /\ NothingBesideUnknown'
      /\ DependenciesHold' /\ \A a \in Admitted' : a[1] =< group'.current
  BY <1>1, <1>2, <1>3, <1>4, MovesKeep
<1>6. RunsInOrder'
  BY <1>2, <1>5 DEF IInv, RunsInOrder
<1>7. StoppedPlansAreQuiet'
  <2>1. Admitted' = Admitted
    BY <1>3, RowsKept
  <2>2. ASSUME NEW a \in Admitted, runs[a[1]].status \in {"cancelled", "superseded"}
        PROVE  att'[a].exec \in Over \cup {"needs_reconciliation"}
    <3>1. Moves(a)
      BY <1>3 DEF AllMove, Admitted
    <3> QED BY <2>2, <3>1 DEF Moves, IInv, StoppedPlansAreQuiet
  <2> QED BY <1>2, <1>3, <2>1, <2>2 DEF StoppedPlansAreQuiet
<1> QED BY <1>4, <1>5, <1>6, <1>7 DEF IInv

(* The admission of an attempt: a row of its own, at a node that has no      *)
(* usable result, beside nothing whose outcome is unknown.                   *)
LEMMA AdmitStep ==
  ASSUME IInv, NEW r \in Run, NEW n \in Node, NEW k \in 1 .. MaxTry, Admit(r, n, k)
  PROVE  IInv'
<1> DEFINE fresh == [NoAttempt EXCEPT !.exec = "queued", !.meta = "queued", !.job = "available"]
<1>1. /\ att \in [Attempt -> AttemptRow] /\ runs \in [Run -> RunRow] /\ group.current \in Nat
      /\ r = group.current /\ group.member = "same" /\ runs[r].status = "active"
      /\ r \in Nat /\ k \in Nat /\ Run \subseteq Nat /\ n \notin Gate
      /\ UNCHANGED <<group, runs, gates>>
  BY CoordinationAssumption DEF Admit, IsCurrent, IInv, TypeOK, Run, CoordinationAssumption
<1>2. PICK new \in Attempt : new = <<r, n, k>>
  BY DEF Attempt
<1>3. new[1] = r /\ new[2] = n /\ new[3] = k
  BY <1>2
<1>4. att' = [att EXCEPT ![new] = fresh]
  BY <1>2 DEF Admit
<1>5. /\ fresh \in AttemptRow /\ fresh.exec = "queued" /\ fresh.meta = "queued"
      /\ fresh.job = "available" /\ fresh.call = FALSE /\ fresh.pending = 0
      /\ fresh.settled = FALSE
  BY DEF NoAttempt, AttemptRow, ExecStatus
<1> HIDE DEF fresh
<1>6. /\ att'[new] = fresh /\ att' \in [Attempt -> AttemptRow]
      /\ \A b \in Attempt \ {new} : att'[b] = att[b]
  BY <1>1, <1>4, <1>5
<1>7. /\ Tries(r, n) = 1 .. (k - 1) /\ new \notin Admitted
      /\ k > 1 => att[<<r, n, k - 1>>].meta = "failed" /\ att[<<r, n, k - 1>>].settled
  BY <1>1, <1>2 DEF Admit, NextTry, Tries
<1>8. Admitted' = Admitted \cup {new}
  BY <1>5, <1>6 DEF Admitted
<1>9. \A a \in Admitted : /\ a \in Attempt /\ a # new /\ att'[a] = att[a]
                          /\ a[1] \in Run /\ a[1] \in Nat /\ a[2] \in Node
  BY <1>1, <1>6, <1>7, AttemptType DEF Admitted
<1>10. TypeOK'
  BY <1>1, <1>6 DEF IInv, TypeOK
<1>11. RunsInOrder'
  BY <1>1, <1>3, <1>8 DEF IInv, RunsInOrder
<1>12. Rows'
  <2>1. RowInv(new)'
    BY <1>5, <1>6 DEF RowInv, Over
  <2>2. ASSUME NEW b \in Attempt \ {new} PROVE RowInv(b)'
    BY <1>6 DEF IInv, Rows, RowInv, Closed
  <2> QED BY <2>1, <2>2 DEF Rows
<1>13. \A q \in Run, m \in Node :
         Tries(q, m)' = IF q = r /\ m = n THEN 1 .. k ELSE Tries(q, m)
  <2>1. ASSUME NEW q \in Run, NEW m \in Node, q # r \/ m # n PROVE Tries(q, m)' = Tries(q, m)
    BY <1>2, <1>8, <2>1 DEF Tries
  <2>2. Tries(r, n)' = Tries(r, n) \cup {k}
    BY <1>2, <1>8 DEF Tries
  <2>3. (1 .. (k - 1)) \cup {k} = 1 .. k
    BY <1>1
  <2> QED BY <1>7, <2>1, <2>2, <2>3
<1>14. TriesInOrder'
  <2>1. k \in 0 .. MaxTry
    BY <1>1
  <2> QED BY <1>13, <2>1 DEF IInv, TriesInOrder
<1>15. \A b \in Attempt : Closed(b) /\ Usable(b) => Closed(b)' /\ Usable(b)'
  <2>1. ASSUME NEW b \in Attempt, Usable(b) PROVE b \in Admitted
    BY <2>1 DEF Usable, Admitted
  <2>2. ASSUME NEW b \in Attempt, Closed(b), Usable(b) PROVE Closed(b)' /\ Usable(b)'
    BY <1>9, <2>1, <2>2 DEF Closed, Usable
  <2> QED BY <2>2
<1>16. RepeatsOnlyFailures'
  <2>1. ASSUME NEW a \in Admitted', <<a[1], a[2], a[3] + 1>> \in Admitted'
        PROVE  att'[a].exec = "failed" /\ att'[a].settled /\ Closed(a)'
    <3>1. a \in Attempt /\ a[3] \in Nat /\ a = <<a[1], a[2], a[3]>>
      BY <1>8, <1>9, AttemptType
    <3>2. CASE a = new
      <4>1. <<r, n, k + 1>> \in Admitted
        BY <1>1, <1>2, <1>3, <1>8, <2>1, <3>2
      <4>2. k + 1 \in Tries(r, n)
        BY <1>1, <4>1 DEF Tries, Admitted, Attempt
      <4> QED BY <1>1, <1>7, <4>2
    <3>3. CASE a # new /\ <<a[1], a[2], a[3] + 1>> = new
      <4>1. a = <<r, n, k - 1>> /\ k > 1
        BY <1>1, <1>2, <3>1, <3>3, AttemptType
      <4>2. a \in Admitted /\ att[a].meta = "failed" /\ att[a].settled
        BY <1>7, <1>8, <3>3, <4>1
      <4>3. att[a].exec = "failed" /\ Closed(a)
        BY <3>1, <4>2 DEF IInv, Rows, RowInv, Over
      <4> QED BY <1>9, <4>2, <4>3 DEF Closed
    <3>4. CASE a # new /\ <<a[1], a[2], a[3] + 1>> # new
      <4>1. a \in Admitted /\ <<a[1], a[2], a[3] + 1>> \in Admitted
        BY <1>8, <2>1, <3>4
      <4>2. att[a].exec = "failed" /\ att[a].settled /\ Closed(a)
        BY <4>1 DEF IInv, RepeatsOnlyFailures
      <4> QED BY <1>9, <4>1, <4>2 DEF Closed
    <3> QED BY <3>2, <3>3, <3>4
  <2> QED BY <2>1 DEF RepeatsOnlyFailures
<1>17. NothingBesideUnknown'
  <2>1. \A a \in Admitted : att[a].exec # "needs_reconciliation" /\ ~att[a].call
    BY DEF Admit, NothingUnknown
  <2>2. \A a \in Admitted' : att'[a].exec # "needs_reconciliation" /\ ~att'[a].call
    BY <1>5, <1>6, <1>8, <1>9, <2>1
  <2> QED BY <2>2 DEF NothingBesideUnknown
<1>18. StoppedPlansAreQuiet'
  <2>1. runs[new[1]].status \notin {"cancelled", "superseded"} /\ group.member # "revoked"
    BY <1>1, <1>3
  <2> QED BY <1>1, <1>8, <1>9, <2>1 DEF IInv, StoppedPlansAreQuiet
<1>19. ASSUME NEW q \in Run, NEW x \in Node \cup Gate, Complete(q, x)
       PROVE  Complete(q, x)'
  <2>1. ~(q = r /\ x = n)
    <3>1. SUFFICES ASSUME q = r, x = n PROVE FALSE
      OBVIOUS
    <3>2. n \notin Reused(r)
      BY DEF Admit
    <3>3. Tries(r, n) # {} /\ Usable(<<r, n, Max(Tries(r, n))>>)
      BY <1>1, <1>19, <3>1, <3>2 DEF Complete
    <3>4. k > 1
      BY <1>1, <1>7, <3>3
    <3>5. Max(Tries(r, n)) = k - 1
      <4>1. k - 1 \in Tries(r, n) /\ \A i \in Tries(r, n) : k - 1 >= i
        BY <1>1, <1>7, <3>4
      <4>2. Max(Tries(r, n)) \in Tries(r, n) /\ \A i \in Tries(r, n) : Max(Tries(r, n)) >= i
        BY <4>1 DEF Max
      <4>3. Max(Tries(r, n)) \in Int
        BY <1>7, <4>2
      <4> QED BY <1>1, <4>1, <4>2, <4>3
    <3> QED BY <1>7, <3>3, <3>4, <3>5 DEF Usable
  <2>2. x \in Node => Tries(q, x)' = Tries(q, x)
    BY <1>13, <2>1
  <2> QED BY <1>1, <1>15, <1>19, <2>2, CompleteStays
<1>20. DependenciesHold'
  <2>1. ASSUME NEW a \in Admitted', NEW d \in DependsOn[a[2]] PROVE Complete(a[1], d)'
    <3>1. a[1] \in Run /\ a[2] \in Node
      BY <1>3, <1>8, <1>9
    <3>2. d \in Node \cup Gate
      BY <3>1, CoordinationAssumption DEF CoordinationAssumption
    <3>3. Complete(a[1], d)
      <4>1. CASE a = new
        BY <1>3, <4>1 DEF Admit, DependenciesComplete
      <4>2. CASE a # new
        BY <1>8, <4>2 DEF IInv, DependenciesHold, DependenciesComplete
      <4> QED BY <4>1, <4>2
    <3>4. PICK q \in Run : q = a[1]
      BY <3>1
    <3>5. Complete(q, d)'
      BY <1>19, <3>2, <3>3, <3>4
    <3> QED BY <3>4, <3>5
  <2> QED BY <2>1 DEF DependenciesHold, DependenciesComplete
<1> QED BY <1>10, <1>11, <1>12, <1>14, <1>16, <1>17, <1>18, <1>20 DEF IInv

LEMMA Initially == Init => IInv
<1> SUFFICES ASSUME Init PROVE IInv
  OBVIOUS
<1>1. NoAttempt \in AttemptRow
  BY DEF NoAttempt, AttemptRow
<1>2. TypeOK
  BY <1>1, CoordinationAssumption DEF Init, TypeOK, RunRow, CoordinationAssumption
<1>3. \A a \in Attempt : att[a] = NoAttempt
  BY DEF Init
<1>4. Admitted = {}
  BY <1>3 DEF Admitted, NoAttempt
<1>5. RunsInOrder
  BY <1>4 DEF RunsInOrder, Init
<1>6. Rows
  BY <1>3 DEF Rows, RowInv, NoAttempt, Over
<1>7. TriesInOrder
  <2>1. \A r, n : Tries(r, n) = 1 .. 0
    BY <1>4 DEF Tries
  <2>2. 0 \in 0 .. MaxTry
    BY CoordinationAssumption DEF CoordinationAssumption
  <2> QED BY <2>1, <2>2 DEF TriesInOrder
<1> QED
  BY <1>2, <1>4, <1>5, <1>6, <1>7
     DEF IInv, RepeatsOnlyFailures, NothingBesideUnknown, StoppedPlansAreQuiet, DependenciesHold

LEMMA Steps == IInv /\ [Next]_vars => IInv'
<1> SUFFICES ASSUME IInv, [Next]_vars PROVE IInv'
  OBVIOUS
<1>1. CASE PlanStep
  <2>1. CASE \E cap \in 1 .. InitialCap, rework \in BOOLEAN, reuse \in SUBSET Admitted :
               Create(cap, rework, reuse)
    BY <2>1, CreateStep
  <2>2. CASE \E r \in Run, status \in {"active", "paused", "cancelled"} : CommandRun(r, status)
    <3>1. PICK r \in Run, status \in {"active", "paused", "cancelled"} : CommandRun(r, status)
      BY <2>2
    <3>2. /\ gates' = gates /\ group' = group
          /\ gates \in [Run \X Gate -> {"open", "approved", "rejected"}]
      BY <3>1 DEF CommandRun, IInv, TypeOK
    <3> QED BY <3>1, <3>2, CommandStep DEF CommandRun
  <2>3. CASE \E r \in Run, g \in Gate, decision \in {"approved", "rejected"} :
               Decide(r, g, decision)
    BY <2>3, DecideStep
  <2> QED BY <1>1, <2>1, <2>2, <2>3 DEF PlanStep
<1>2. CASE HostStep
  <2>1. CASE \E r \in Run, n \in Node, k \in 1 .. MaxTry : Admit(r, n, k)
    BY <2>1, AdmitStep
  <2>2. CASE \E a \in Attempt : SettleUsage(a) \/ Reconcile(a)
    BY <2>2, AttemptMoves, AttemptStep DEF Acts
  <2> QED BY <1>2, <2>1, <2>2 DEF HostStep
<1>3. CASE \E a \in Attempt : \/ WorkerStep(a) \/ DenyApproval(a)
                             \/ \E bill \in Bill(a[2]) : RecordBill(a, bill)
  <2>1. PICK a \in Attempt : Acts(a)
    BY <1>3 DEF Acts
  <2> QED BY <2>1, AttemptMoves, AttemptStep
<1>4. CASE DeadlinePasses \/ ChangeRole \/ Revoke
  BY <1>4, OutsideStep
<1>5. CASE UNCHANGED vars
  <2>1. AllMove /\ UNCHANGED <<group, runs, gates>>
    BY <1>5, StandsStill DEF vars, AllMove, IInv, TypeOK
  <2> QED BY <2>1, AttemptStep
<1> QED BY <1>1, <1>2, <1>3, <1>4, <1>5 DEF Next

----------------------------------------------------------------------------
(* The budget of the group *)

(* What an attempt counts for in the argument: its reservation, and once it  *)
(* is settled its share of the bill.                                         *)
Due == [a \in Attempt |-> IF att[a].settled THEN Share[a] ELSE Budget[a[2]]]

(* No attempt uses more than was reserved for it, but for a bill that did.   *)
WithinReservation ==
  \A a \in Attempt : ~att[a].overrun => att[a].spent + att[a].pending <= Budget[a[2]]

(* The runs up to the current one exist, and no cap is above an earlier one. *)
CapsShrink ==
  /\ \A r \in Run : runs[r].status # "absent" <=> r <= group.current
  /\ \A q, r \in Run : q <= r /\ r <= group.current => runs[r].cap <= runs[q].cap

(* The bills and reservations of a run and its successors are within its cap. *)
CommittedWithinCap ==
  \A r \in Run : r <= group.current => SumFunctionOnSet(Due, Since(r)) <= runs[r].cap

CapInv == IsFiniteSet(Admitted) /\ WithinReservation /\ CapsShrink /\ CommittedWithinCap

(* How an attempt's use of the budget changes, other than by its admission.  *)
Pays(a) ==
  /\ ~att'[a].overrun => att'[a].spent + att'[a].pending <= Budget[a[2]]
  /\ Due'[a] <= Due[a]

AllPay == \A a \in Attempt : Pays(a)

(* The summands are natural numbers; what is used, as far as the group        *)
(* answers for it, is due; and what is due is part of what is committed.      *)
LEMMA Amounts ==
  ASSUME IInv, WithinReservation, NEW a \in Attempt
  PROVE  /\ Committed[a] \in Nat /\ Due[a] \in Nat /\ Share[a] \in Nat
         /\ Share[a] <= Due[a] /\ Due[a] <= Committed[a] /\ Share[a] <= Budget[a[2]]
         /\ Budget[a[2]] \in Nat /\ att[a].spent \in Nat /\ att[a].pending \in Nat
         /\ att[a].overrun \in BOOLEAN
<1>1. /\ att[a] \in AttemptRow /\ RowInv(a)
      /\ ~att[a].overrun => att[a].spent + att[a].pending <= Budget[a[2]]
  BY DEF IInv, TypeOK, Rows, WithinReservation
<1>2. Budget[a[2]] \in Nat
  BY AttemptType, CoordinationAssumption DEF CoordinationAssumption
<1>3. /\ att[a].spent \in Nat /\ att[a].pending \in Nat /\ att[a].usage \in Nat
      /\ att[a].settled \in BOOLEAN /\ att[a].overrun \in BOOLEAN
  BY <1>1 DEF AttemptRow
<1>4. /\ Committed[a] = IF att[a].settled THEN att[a].usage ELSE Budget[a[2]]
      /\ Due[a] = IF att[a].settled THEN Share[a] ELSE Budget[a[2]]
  BY DEF Committed, Due
<1>5. Share[a] = IF att[a].overrun /\ att[a].spent + att[a].pending > Budget[a[2]]
                 THEN Budget[a[2]] ELSE att[a].spent + att[a].pending
  BY DEF Share, Used
<1>6. att[a].settled => att[a].usage = att[a].spent /\ att[a].pending = 0
  BY <1>1 DEF RowInv, Closed
<1>7. /\ Share[a] \in Nat /\ Share[a] <= Budget[a[2]]
      /\ Share[a] <= att[a].spent + att[a].pending
  <2>1. att[a].spent + att[a].pending \in Nat
    BY <1>3
  <2>2. CASE att[a].overrun /\ att[a].spent + att[a].pending > Budget[a[2]]
    BY <1>2, <1>5, <2>1, <2>2
  <2>3. CASE ~(att[a].overrun /\ att[a].spent + att[a].pending > Budget[a[2]])
    BY <1>1, <1>2, <1>5, <2>1, <2>3
  <2> QED BY <2>2, <2>3
<1>8. CASE att[a].settled
  BY <1>2, <1>3, <1>4, <1>6, <1>7, <1>8
<1>9. CASE ~att[a].settled
  BY <1>2, <1>3, <1>4, <1>7, <1>9
<1> QED BY <1>8, <1>9

LEMMA DueAfter ==
  ASSUME NEW a \in Attempt
  PROVE  Due'[a] = IF att'[a].settled THEN Share'[a] ELSE Budget[a[2]]
BY DEF Due

LEMMA ShareAfter ==
  ASSUME NEW a \in Attempt, att'[a].spent \in Nat, att'[a].pending \in Nat, Budget[a[2]] \in Nat,
         ~att'[a].overrun => att'[a].spent + att'[a].pending <= Budget[a[2]]
  PROVE  Share'[a] \in Nat /\ Share'[a] <= Budget[a[2]]
<1>1. Share'[a] = IF att'[a].overrun /\ att'[a].spent + att'[a].pending > Budget[a[2]]
                  THEN Budget[a[2]] ELSE att'[a].spent + att'[a].pending
  BY DEF Share, Used
<1>2. CASE att'[a].overrun /\ att'[a].spent + att'[a].pending > Budget[a[2]]
  BY <1>1, <1>2
<1>3. CASE ~(att'[a].overrun /\ att'[a].spent + att'[a].pending > Budget[a[2]])
  BY <1>1, <1>3
<1> QED BY <1>2, <1>3

(* An attempt that has not been settled has all of its reservation to pay    *)
(* from, before and after its bill.                                          *)
LEMMA UnsettledPays ==
  ASSUME IInv, CapInv, NEW a \in Attempt, ~att[a].settled,
         att'[a].spent \in Nat, att'[a].pending \in Nat,
         ~att'[a].overrun => att'[a].spent + att'[a].pending <= Budget[a[2]]
  PROVE  Pays(a)
<1>1. Due[a] = Budget[a[2]] /\ Budget[a[2]] \in Nat
  BY Amounts DEF CapInv, Due
<1>2. Share'[a] \in Nat /\ Share'[a] <= Budget[a[2]]
  BY <1>1, ShareAfter
<1> QED BY <1>1, <1>2, DueAfter DEF Pays

LEMMA SameRowPays ==
  ASSUME IInv, CapInv, NEW a \in Attempt,
         att'[a].settled = att[a].settled, att'[a].overrun = att[a].overrun,
         att'[a].spent = att[a].spent, att'[a].pending = att[a].pending
  PROVE  Pays(a)
<1>1. Due'[a] = Due[a] /\ Due[a] \in Nat
  BY Amounts DEF CapInv, Due, Share, Used
<1> QED BY <1>1 DEF Pays, CapInv, WithinReservation

(* The steps that stop Executions bill nothing.                              *)
LEMMA StopPays ==
  ASSUME IInv, CapInv,
         \/ att' = att
         \/ \E r : att' = CancelAttempts(r)
         \/ Revoke
  PROVE  AllPay
<1> SUFFICES ASSUME NEW a \in Attempt PROVE Pays(a)
  BY DEF AllPay
<1>1. att[a] \in AttemptRow
  BY DEF IInv, TypeOK
<1>2. \A exec : LET row == [att[a] EXCEPT !.exec = exec]
                IN  /\ row.settled = att[a].settled /\ row.overrun = att[a].overrun
                    /\ row.spent = att[a].spent /\ row.pending = att[a].pending
  BY <1>1 DEF AttemptRow
<1>3. att'[a] = att[a] \/ \E exec : att'[a] = [att[a] EXCEPT !.exec = exec]
  BY DEF CancelAttempts, Revoke
<1> QED BY <1>2, <1>3, SameRowPays

(* A step that changes one row.                                              *)
LEMMA OnePays ==
  ASSUME IInv, CapInv, NEW a \in Attempt, NEW row, att' = [att EXCEPT ![a] = row],
         att'[a] = row => Pays(a)
  PROVE  AllPay
<1>1. att'[a] = row /\ \A b \in Attempt \ {a} : att'[b] = att[b]
  BY DEF IInv, TypeOK
<1>2. ASSUME NEW b \in Attempt \ {a} PROVE Pays(b)
  BY <1>1, SameRowPays
<1> QED BY <1>1, <1>2 DEF AllPay

(* The Worker's steps stay within the reservation, and the bill of a closed  *)
(* attempt replaces it.                                                      *)
LEMMA AttemptPays ==
  ASSUME IInv, CapInv, NEW a \in Attempt, Acts(a)
  PROVE  AllPay
<1>1. /\ att \in [Attempt -> AttemptRow] /\ att[a] \in AttemptRow
      /\ ~att[a].overrun => att[a].spent + att[a].pending <= Budget[a[2]]
      /\ att[a].spent \in Nat /\ att[a].pending \in Nat /\ Budget[a[2]] \in Nat
      /\ RowInv(a)
  BY Amounts DEF IInv, TypeOK, Rows, CapInv, WithinReservation
<1>2. CASE Claim(a)
  <2> DEFINE row == [att[a] EXCEPT !.job = "leased", !.exec = "running"]
  <2>1. att' = [att EXCEPT ![a] = row]
    BY <1>1, <1>2 DEF Claim
  <2>2. /\ row.settled = att[a].settled /\ row.overrun = att[a].overrun
        /\ row.spent = att[a].spent /\ row.pending = att[a].pending
    BY <1>1 DEF AttemptRow
  <2> HIDE DEF row
  <2> QED BY <2>1, <2>2, OnePays, SameRowPays
<1>3. CASE CloseBeforeClaim(a)
  <2> DEFINE row == [att[a] EXCEPT !.job = "closed"]
  <2>1. att' = [att EXCEPT ![a] = row]
    BY <1>1, <1>3 DEF CloseBeforeClaim
  <2>2. /\ row.settled = att[a].settled /\ row.overrun = att[a].overrun
        /\ row.spent = att[a].spent /\ row.pending = att[a].pending
    BY <1>1 DEF AttemptRow
  <2> HIDE DEF row
  <2> QED BY <2>1, <2>2, OnePays, SameRowPays
<1>4. ASSUME NEW tokens \in Bill(a[2]), RequestModel(a, tokens) PROVE AllPay
  <2> DEFINE row == [att[a] EXCEPT !.pending = tokens]
  <2>1. att' = [att EXCEPT ![a] = row] /\ att[a].spent + tokens <= Budget[a[2]] /\ ~att[a].settled
    BY <1>1, <1>4 DEF RequestModel, AtWork, RowInv, Closed
  <2>2. tokens \in Nat /\ row.spent = att[a].spent /\ row.pending = tokens
    BY <1>1, BillIsNatural DEF AttemptRow
  <2> HIDE DEF row
  <2>3. att'[a] = row => Pays(a)
    BY <1>1, <2>1, <2>2, UnsettledPays
  <2> QED BY <2>1, <2>3, OnePays
<1>5. ASSUME NEW tokens \in Bill(a[2]), ModelAnswers(a, tokens) PROVE AllPay
  <2> DEFINE over == (tokens > att[a].pending)
             row == [att[a] EXCEPT !.pending = 0, !.spent = @ + tokens, !.overrun = over]
  <2>1. att' = [att EXCEPT ![a] = row] /\ ~att[a].settled
    BY <1>1, <1>5 DEF ModelAnswers, RowInv, Closed
  <2>2. ~att[a].overrun
    BY <1>1, <1>5 DEF ModelAnswers, RowInv
  <2>3. row.spent = att[a].spent + tokens /\ row.pending = 0 /\ row.overrun = over
    BY <1>1 DEF AttemptRow
  <2> HIDE DEF row
  <2>4. row.spent \in Nat /\ row.pending \in Nat
    BY <1>1, <2>3, BillIsNatural
  <2>5. ~over => row.spent + row.pending <= Budget[a[2]]
    BY <1>1, <2>2, <2>3, BillIsNatural
  <2>6. att'[a] = row => Pays(a)
    BY <2>1, <2>3, <2>4, <2>5, UnsettledPays
  <2> QED BY <2>1, <2>6, OnePays
<1>6. CASE StartCall(a) \/ CallReturns(a)
  <2>1. PICK call \in BOOLEAN : att' = [att EXCEPT ![a].call = call]
    BY <1>6 DEF StartCall, CallReturns
  <2> DEFINE row == [att[a] EXCEPT !.call = call]
  <2>2. att' = [att EXCEPT ![a] = row]
    BY <1>1, <2>1
  <2>3. /\ row.settled = att[a].settled /\ row.overrun = att[a].overrun
        /\ row.spent = att[a].spent /\ row.pending = att[a].pending
    BY <1>1 DEF AttemptRow
  <2> HIDE DEF row
  <2> QED BY <2>2, <2>3, OnePays, SameRowPays
<1>7. ASSUME NEW outcome, SettleAttempt(a, outcome) PROVE AllPay
  <2> DEFINE row == [att[a] EXCEPT !.job = "closed", !.exec = Final(a, outcome),
                                   !.meta = Final(a, outcome)]
  <2>1. att' = [att EXCEPT ![a] = row]
    BY <1>1, <1>7 DEF SettleAttempt
  <2>2. /\ row.settled = att[a].settled /\ row.overrun = att[a].overrun
        /\ row.spent = att[a].spent /\ row.pending = att[a].pending
    BY <1>1 DEF AttemptRow
  <2> HIDE DEF row
  <2> QED BY <2>1, <2>2, OnePays, SameRowPays
<1>8. CASE DenyApproval(a)
  <2> DEFINE row == [att[a] EXCEPT !.exec = "failed"]
  <2>1. att' = [att EXCEPT ![a] = row]
    BY <1>1, <1>8 DEF DenyApproval
  <2>2. /\ row.settled = att[a].settled /\ row.overrun = att[a].overrun
        /\ row.spent = att[a].spent /\ row.pending = att[a].pending
    BY <1>1 DEF AttemptRow
  <2> HIDE DEF row
  <2> QED BY <2>1, <2>2, OnePays, SameRowPays
<1>9. CASE SettleUsage(a)
  <2> DEFINE row == [att[a] EXCEPT !.settled = TRUE, !.usage = att[a].spent]
  <2>1. att' = [att EXCEPT ![a] = row] /\ ~att[a].settled
    BY <1>1, <1>9 DEF SettleUsage
  <2>2. row.overrun = att[a].overrun /\ row.spent = att[a].spent /\ row.pending = att[a].pending
    BY <1>1 DEF AttemptRow
  <2> HIDE DEF row
  <2>3. att'[a] = row => Pays(a)
    BY <1>1, <2>1, <2>2, UnsettledPays
  <2> QED BY <2>1, <2>3, OnePays
<1>10. CASE Reconcile(a)
  <2>1. PICK status : att' = [att EXCEPT ![a].meta = status]
    BY <1>10 DEF Reconcile
  <2> DEFINE row == [att[a] EXCEPT !.meta = status]
  <2>2. att' = [att EXCEPT ![a] = row]
    BY <1>1, <2>1
  <2>3. /\ row.settled = att[a].settled /\ row.overrun = att[a].overrun
        /\ row.spent = att[a].spent /\ row.pending = att[a].pending
    BY <1>1 DEF AttemptRow
  <2> HIDE DEF row
  <2> QED BY <2>2, <2>3, OnePays, SameRowPays
<1>11. ASSUME NEW bill \in Bill(a[2]), RecordBill(a, bill) PROVE AllPay
  <2> DEFINE over == (bill > Budget[a[2]])
             row == [att[a] EXCEPT !.meta = att[a].exec, !.spent = bill, !.overrun = over,
                                   !.settled = TRUE, !.usage = bill]
  <2>1. att' = [att EXCEPT ![a] = row] /\ ~att[a].settled /\ att[a].pending = 0
    BY <1>1, <1>11 DEF RecordBill, Billable, Closed
  <2>2. row.overrun = over /\ row.spent = bill /\ row.pending = 0
    BY <1>1, <2>1 DEF AttemptRow
  <2>3. bill \in Nat /\ (~over => bill + 0 <= Budget[a[2]])
    BY <1>1, BillIsNatural
  <2> HIDE DEF row, over
  <2>4. att'[a] = row => Pays(a)
    BY <2>1, <2>2, <2>3, UnsettledPays
  <2> QED BY <2>1, <2>4, OnePays
<1> QED
  BY <1>2, <1>3, <1>4, <1>5, <1>6, <1>7, <1>8, <1>9, <1>10, <1>11 DEF Acts, WorkerStep

(* Moves that pay leave the group's attempts as they are and lower its sums. *)
LEMMA SumsFall ==
  ASSUME IInv, CapInv, AllMove, AllPay
  PROVE  /\ IsFiniteSet(Admitted') /\ WithinReservation'
         /\ \A r \in Run :
              /\ SumFunctionOnSet(Due, Since(r)) \in Nat
              /\ SumFunctionOnSet(Due', Since(r)') \in Nat
              /\ SumFunctionOnSet(Due', Since(r)') <= SumFunctionOnSet(Due, Since(r))
<1>1. Admitted' = Admitted
  BY RowsKept
<1>2. WithinReservation'
  BY DEF AllPay, Pays, WithinReservation
<1>3. ASSUME NEW a \in Attempt
      PROVE  Due[a] \in Nat /\ Due'[a] \in Nat /\ Due'[a] <= Due[a]
  <2>1. Due[a] \in Nat /\ Budget[a[2]] \in Nat
    BY Amounts DEF CapInv
  <2>2. att'[a] \in AttemptRow
    BY DEF AllMove, Moves
  <2>3. att'[a].spent \in Nat /\ att'[a].pending \in Nat
    BY <2>2 DEF AttemptRow
  <2>4. Pays(a)
    BY DEF AllPay
  <2>5. Share'[a] \in Nat
    BY <2>1, <2>3, <2>4, ShareAfter DEF Pays
  <2> QED BY <2>1, <2>4, <2>5, DueAfter DEF Pays
<1>4. ASSUME NEW r \in Run
      PROVE  /\ SumFunctionOnSet(Due, Since(r)) \in Nat
             /\ SumFunctionOnSet(Due', Since(r)') \in Nat
             /\ SumFunctionOnSet(Due', Since(r)') <= SumFunctionOnSet(Due, Since(r))
  <2>1. Since(r)' = Since(r) /\ Since(r) \subseteq Admitted /\ Since(r) \subseteq Attempt
    BY <1>1 DEF Since, Admitted
  <2>2. IsFiniteSet(Since(r))
    BY <2>1, FS_Subset DEF CapInv
  <2>3. \A a \in Since(r) : Due[a] \in Nat /\ Due'[a] \in Nat /\ Due'[a] <= Due[a]
    BY <1>3, <2>1
  <2> DEFINE before == Due
             after == Due'
             S == Since(r)
  <2> HIDE DEF before, after, S
  <2>4. /\ IsFiniteSet(S) /\ S \in SUBSET S
        /\ \A a \in S : before[a] \in Nat /\ after[a] \in Nat /\ after[a] <= before[a]
    BY <2>2, <2>3 DEF before, after, S
  <2>5. /\ SumFunctionOnSet(before, S) \in Nat /\ SumFunctionOnSet(after, S) \in Nat
        /\ SumFunctionOnSet(after, S) <= SumFunctionOnSet(before, S)
    BY <2>4, SumIsNatural, SumIsMonotone
  <2> QED BY <2>1, <2>5 DEF before, after, S
<1> QED BY <1>1, <1>2, <1>4 DEF CapInv

(* A step of the attempts, and of the status of runs that there are.         *)
LEMMA CapsStay ==
  ASSUME IInv, CapInv, AllMove, AllPay, group'.current = group.current,
         \A r \in Run : /\ runs'[r].cap = runs[r].cap
                        /\ runs'[r].status = "absent" <=> runs[r].status = "absent"
  PROVE  CapInv'
<1>1. /\ IsFiniteSet(Admitted') /\ WithinReservation'
      /\ \A r \in Run :
           /\ SumFunctionOnSet(Due, Since(r)) \in Nat
           /\ SumFunctionOnSet(Due', Since(r)') \in Nat
           /\ SumFunctionOnSet(Due', Since(r)') <= SumFunctionOnSet(Due, Since(r))
  BY SumsFall
<1>2. CapsShrink'
  BY DEF CapInv, CapsShrink
<1>3. CommittedWithinCap'
  <2> SUFFICES ASSUME NEW r \in Run, r <= group.current
               PROVE  SumFunctionOnSet(Due', Since(r)') <= runs[r].cap
    BY DEF CommittedWithinCap
  <2>1. SumFunctionOnSet(Due, Since(r)) <= runs[r].cap
    BY DEF CapInv, CommittedWithinCap
  <2>2. runs[r].cap \in Nat
    BY DEF IInv, TypeOK, RunRow
  <2> QED BY <1>1, <2>1, <2>2
<1> QED BY <1>1, <1>2, <1>3 DEF CapInv

(* A new revision starts with nothing reserved and no more than its          *)
(* predecessor may use in all.                                               *)
LEMMA CreateKeepsCaps ==
  ASSUME IInv, CapInv, NEW cap \in 1 .. InitialCap, NEW rework \in BOOLEAN, NEW reuse \in SUBSET Admitted,
         Create(cap, rework, reuse)
  PROVE  CapInv'
<1> DEFINE old == group.current
           new == group.current + 1
<1>1. /\ old \in Nat /\ new \in Run /\ new \in Nat /\ Run \subseteq Nat
      /\ runs \in [Run -> RunRow] /\ cap \in Nat
      /\ old # 0 => old \in Run /\ cap <= runs[old].cap
  BY CoordinationAssumption DEF Create, IInv, TypeOK, Run, CoordinationAssumption
<1>2. AllMove /\ AllPay /\ Admitted' = Admitted
  <2>1. att' = CancelAttempts(old)
    BY DEF Create
  <2>2. AllMove
    BY <2>1, CancelMoves
  <2> QED BY <2>1, <2>2, StopPays, RowsKept
<1>3. /\ IsFiniteSet(Admitted') /\ WithinReservation'
      /\ \A r \in Run :
           /\ SumFunctionOnSet(Due, Since(r)) \in Nat
           /\ SumFunctionOnSet(Due', Since(r)') \in Nat
           /\ SumFunctionOnSet(Due', Since(r)') <= SumFunctionOnSet(Due, Since(r))
  BY <1>2, SumsFall
<1>4. group'.current = new
  BY DEF Create, IInv, TypeOK
<1>5. /\ runs'[new].cap = cap /\ runs'[new].status = "active"
      /\ \A r \in Run : r # new => runs'[r].cap = runs[r].cap
      /\ \A r \in Run : r # new => (runs'[r].status # "absent" <=> runs[r].status # "absent" \/ r = old)
      /\ \A r \in Run : runs[r].cap \in Nat
  <2>1. runs' = [r \in Run |->
                  IF r = new THEN [status |-> "active", cap |-> cap, reuse |-> reuse]
                  ELSE IF r = old THEN [runs[r] EXCEPT !.status = "superseded"]
                  ELSE runs[r]]
    BY DEF Create
  <2>2. ASSUME NEW r \in Run
        PROVE  LET row == [runs[r] EXCEPT !.status = "superseded"]
               IN  row.cap = runs[r].cap /\ row.status = "superseded" /\ runs[r].cap \in Nat
    BY <1>1 DEF RunRow
  <2> QED BY <1>1, <2>1, <2>2
<1>6. /\ \A r \in Run : runs[r].status # "absent" <=> r <= old
      /\ \A q, r \in Run : q <= r /\ r <= old => runs[r].cap <= runs[q].cap
  BY DEF CapInv, CapsShrink
<1>7. \A r \in Run : r <= new <=> r <= old \/ r = new
  BY <1>1
<1>8. CapsShrink'
  <2>1. ASSUME NEW r \in Run PROVE runs'[r].status # "absent" <=> r <= new
    <3>1. CASE r = new
      BY <1>1, <1>5, <3>1
    <3>2. CASE r # new
      <4>1. r = old => runs[r].status # "absent"
        BY <1>1, <1>6
      <4> QED BY <1>5, <1>6, <1>7, <3>2, <4>1
    <3> QED BY <3>1, <3>2
  <2>2. ASSUME NEW q \in Run, NEW r \in Run, q <= r, r <= new PROVE runs'[r].cap <= runs'[q].cap
    <3>1. q \in Nat /\ r \in Nat /\ ~(new <= old)
      BY <1>1
    <3>2. CASE r # new
      <4>1. r <= old /\ q # new
        BY <1>1, <1>7, <2>2, <3>1, <3>2
      <4> QED BY <1>5, <1>6, <2>2, <3>2, <4>1
    <3>3. CASE r = new /\ q # new
      <4>1. q <= old /\ q \in Nat /\ q # 0 /\ old # 0
        BY <1>1, <1>7, <2>2, <3>3 DEF Run
      <4>2. old <= old /\ old \in Run /\ cap <= runs[old].cap
        BY <1>1, <4>1
      <4>3. runs[old].cap <= runs[q].cap /\ runs[old].cap \in Nat /\ runs[q].cap \in Nat
        BY <1>1, <1>6, <4>1, <4>2 DEF RunRow
      <4> QED BY <1>1, <1>5, <3>3, <4>2, <4>3
    <3>4. CASE q = new /\ r = new
      BY <1>1, <1>5, <3>4
    <3>5. q = new => r = new
      BY <1>1, <2>2, <3>1
    <3> QED BY <3>2, <3>3, <3>4, <3>5
  <2> HIDE DEF new
  <2> QED BY <1>4, <2>1, <2>2 DEF CapsShrink
<1>9. CommittedWithinCap'
  <2> SUFFICES ASSUME NEW r \in Run, r <= new
               PROVE  SumFunctionOnSet(Due', Since(r)') <= runs'[r].cap
    BY <1>4 DEF CommittedWithinCap
  <2>1. CASE r = new
    <3>1. Since(r) = {}
      <4>1. ASSUME NEW a \in Admitted, a[1] >= new PROVE FALSE
        BY <1>1, <4>1, AttemptType DEF IInv, RunsInOrder, Admitted
      <4> QED BY <2>1, <4>1 DEF Since
    <3>2. SumFunctionOnSet(Due, Since(r)) = 0
      BY <3>1, SumOfNothing
    <3> QED BY <1>1, <1>3, <1>5, <2>1, <3>2
  <2>2. CASE r # new
    <3>1. SumFunctionOnSet(Due, Since(r)) <= runs[r].cap
      BY <1>7, <2>2 DEF CapInv, CommittedWithinCap
    <3>2. runs[r].cap \in Nat /\ runs'[r].cap = runs[r].cap
      BY <1>5, <2>2
    <3> QED BY <1>3, <3>1, <3>2
  <2> QED BY <2>1, <2>2
<1> QED BY <1>3, <1>8, <1>9 DEF CapInv

(* An attempt is admitted when its reservation fits beside all that is       *)
(* committed, to every run the group ever had.                               *)
LEMMA AdmitKeepsCaps ==
  ASSUME IInv, CapInv, NEW r \in Run, NEW n \in Node, NEW k \in 1 .. MaxTry, Admit(r, n, k)
  PROVE  CapInv'
<1> DEFINE fresh == [NoAttempt EXCEPT !.exec = "queued", !.meta = "queued", !.job = "available"]
<1>1. /\ att \in [Attempt -> AttemptRow] /\ Run \subseteq Nat /\ group.current \in Nat
      /\ r = group.current /\ UNCHANGED <<group, runs, gates>>
      /\ TotalCommitted + Budget[n] <= runs[r].cap
  BY DEF Admit, IsCurrent, HasRoom, IInv, TypeOK, Run
<1>2. PICK new \in Attempt : new = <<r, n, k>>
  BY DEF Attempt
<1>3. new[1] = r /\ new[2] = n /\ att' = [att EXCEPT ![new] = fresh]
  BY <1>2 DEF Admit
<1>4. /\ fresh.exec = "queued" /\ fresh.spent = 0 /\ fresh.pending = 0
      /\ fresh.settled = FALSE /\ fresh.overrun = FALSE
  BY DEF NoAttempt
<1> HIDE DEF fresh
<1>5. att'[new] = fresh /\ \A b \in Attempt : b # new => att'[b] = att[b]
  BY <1>1, <1>3
<1>6. new \notin Admitted /\ Admitted' = Admitted \cup {new} /\ Admitted \subseteq Attempt
  <2>1. k \in Nat /\ k \notin Tries(r, n)
    BY DEF Admit, NextTry
  <2> QED BY <1>2, <1>4, <1>5, <2>1 DEF Tries, Admitted
<1>7. IsFiniteSet(Admitted) /\ IsFiniteSet(Admitted')
  BY <1>6, FS_AddElement DEF CapInv
<1>8. \A a \in Attempt : /\ Due[a] \in Nat /\ Committed[a] \in Nat /\ Due[a] <= Committed[a]
                         /\ Budget[a[2]] \in Nat
  BY Amounts DEF CapInv
<1>9. /\ Due'[new] = Budget[n] /\ Budget[n] \in Nat
      /\ \A a \in Attempt : a # new => Due'[a] = Due[a]
  <2>1. Due'[new] = Budget[n] /\ Budget[n] \in Nat
    BY <1>3, <1>4, <1>5, <1>8, DueAfter
  <2>2. ASSUME NEW a \in Attempt, a # new PROVE Due'[a] = Due[a]
    BY <1>5, <2>2 DEF Due, Share, Used
  <2> QED BY <2>1, <2>2
<1>10. WithinReservation'
  <2>1. ASSUME NEW a \in Attempt
        PROVE  ~att'[a].overrun => att'[a].spent + att'[a].pending <= Budget[a[2]]
    <3>1. CASE a = new
      BY <1>4, <1>5, <1>8, <3>1
    <3>2. CASE a # new
      BY <1>5, <3>2 DEF CapInv, WithinReservation
    <3> QED BY <3>1, <3>2
  <2> QED BY <2>1 DEF WithinReservation
<1>11. CapsShrink'
  BY <1>1 DEF CapInv, CapsShrink
<1>12. CommittedWithinCap'
  <2> SUFFICES ASSUME NEW q \in Run, q <= r
               PROVE  SumFunctionOnSet(Due', Since(q)') <= runs[q].cap
    BY <1>1 DEF CommittedWithinCap
  <2> DEFINE before == Committed
             after == Due'
             S == Since(q)
             T == Since(q)'
  <2>1. /\ T = S \cup {new} /\ new \notin S /\ S \subseteq Admitted /\ S \subseteq Attempt
        /\ T \subseteq Attempt /\ T \subseteq Admitted'
    BY <1>3, <1>6 DEF Since
  <2>2. IsFiniteSet(T) /\ IsFiniteSet(S)
    BY <1>7, <2>1, FS_Subset
  <2>3. \A a \in Attempt : after[a] \in Nat
    BY <1>8, <1>9
  <2>4. \A a \in Admitted : before[a] \in Nat /\ (a \in S => after[a] <= before[a])
    BY <1>6, <1>8, <1>9
  <2>5. after[new] = Budget[n]
    BY <1>9
  <2>6. TotalCommitted = SumFunctionOnSet(before, Admitted)
    BY DEF TotalCommitted
  <2> HIDE DEF before, after, S, T
  <2>7. T \ {new} = S /\ new \in T
    BY <2>1
  <2>8. SumFunctionOnSet(after, T) = after[new] + SumFunctionOnSet(after, S)
    BY <2>1, <2>2, <2>3, <2>7, SumWithout
  <2>9. SumFunctionOnSet(after, S) <= SumFunctionOnSet(before, Admitted)
    BY <1>7, <2>1, <2>3, <2>4, SumIsMonotone
  <2>10. SumFunctionOnSet(after, S) \in Nat /\ SumFunctionOnSet(before, Admitted) \in Nat
    BY <1>7, <2>1, <2>2, <2>3, <2>4, SumIsNatural
  <2>11. runs[r].cap <= runs[q].cap /\ runs[r].cap \in Nat /\ runs[q].cap \in Nat
    BY <1>1 DEF CapInv, CapsShrink, IInv, TypeOK, RunRow
  <2>12. SumFunctionOnSet(after, T) <= runs[q].cap
    BY <1>1, <1>9, <2>5, <2>6, <2>8, <2>9, <2>10, <2>11
  <2> QED BY <2>12 DEF after, T
<1> QED BY <1>7, <1>10, <1>11, <1>12 DEF CapInv

LEMMA CapsInitially == Init => CapInv
<1> SUFFICES ASSUME Init PROVE CapInv
  OBVIOUS
<1>1. Admitted = {}
  BY DEF Init, Admitted, NoAttempt
<1>2. IsFiniteSet(Admitted)
  BY <1>1, FS_EmptySet
<1>3. WithinReservation
  <2>1. ASSUME NEW a \in Attempt PROVE att[a].spent + att[a].pending <= Budget[a[2]]
    <3>1. Budget[a[2]] \in Nat
      BY AttemptType, CoordinationAssumption DEF CoordinationAssumption
    <3>2. att[a].spent = 0 /\ att[a].pending = 0
      BY DEF Init, NoAttempt
    <3> QED BY <3>1, <3>2
  <2> QED BY <2>1 DEF WithinReservation
<1>4. \A r \in Run : ~(r <= group.current) /\ runs[r].status = "absent"
  BY DEF Init, Run
<1> QED BY <1>2, <1>3, <1>4 DEF CapInv, CapsShrink, CommittedWithinCap

LEMMA CapsKept == IInv /\ CapInv /\ [Next]_vars => CapInv'
<1> SUFFICES ASSUME IInv, CapInv, [Next]_vars PROVE CapInv'
  OBVIOUS
<1>1. ASSUME AllMove, AllPay, UNCHANGED <<group, runs>> PROVE CapInv'
  BY <1>1, CapsStay
<1>2. ASSUME NEW r \in Run, NEW status \in {"active", "paused", "cancelled"}, CommandRun(r, status)
      PROVE  CapInv'
  <2>1. att' = att \/ att' = CancelAttempts(r)
    BY <1>2 DEF CommandRun
  <2>2. AllMove /\ AllPay
    BY <2>1, CancelMoves, StandsStill, StopPays DEF AllMove, IInv, TypeOK
  <2>3. /\ runs' = [runs EXCEPT ![r].status = status] /\ group' = group
        /\ runs \in [Run -> RunRow] /\ runs[r].status # "absent"
    BY <1>2 DEF CommandRun, IsCurrent, IInv, TypeOK
  <2>4. \A q \in Run : /\ runs'[q].cap = runs[q].cap
                       /\ runs'[q].status = "absent" <=> runs[q].status = "absent"
    <3>1. \A q \in Run : LET row == [runs[q] EXCEPT !.status = status]
                         IN  row.cap = runs[q].cap /\ row.status = status
      BY <2>3 DEF RunRow
    <3> QED BY <2>3, <3>1
  <2> QED BY <2>2, <2>3, <2>4, CapsStay
<1>3. ASSUME NEW r \in Run, NEW g \in Gate, NEW decision \in {"approved", "rejected"},
             Decide(r, g, decision)
      PROVE  CapInv'
  <2>1. att' = att \/ att' = CancelAttempts(r)
    BY <1>3 DEF Decide
  <2>2. AllMove /\ AllPay
    BY <2>1, CancelMoves, StandsStill, StopPays DEF AllMove, IInv, TypeOK
  <2>3. /\ runs' = runs \/ runs' = [runs EXCEPT ![r].status = "cancelled"]
        /\ group' = group /\ runs \in [Run -> RunRow] /\ runs[r].status # "absent"
    BY <1>3 DEF Decide, IsCurrent, IInv, TypeOK
  <2>4. \A q \in Run : /\ runs'[q].cap = runs[q].cap
                       /\ runs'[q].status = "absent" <=> runs[q].status = "absent"
    <3>1. \A q \in Run : LET row == [runs[q] EXCEPT !.status = "cancelled"]
                         IN  row.cap = runs[q].cap /\ row.status = "cancelled"
      BY <2>3 DEF RunRow
    <3> QED BY <2>3, <3>1
  <2> QED BY <2>2, <2>3, <2>4, CapsStay
<1>4. ASSUME NEW a \in Attempt, Acts(a)
      PROVE  CapInv'
  <2>1. AllPay
    BY <1>4, AttemptPays
  <2>2. AllMove /\ UNCHANGED <<group, runs>>
    BY <1>4, AttemptMoves
  <2> QED BY <1>1, <2>1, <2>2
<1>5. CASE DeadlinePasses \/ ChangeRole \/ Revoke
  <2>1. att' = att \/ Revoke
    BY <1>5 DEF DeadlinePasses, ChangeRole
  <2>2. AllMove
    BY <2>1, RevokeMoves, StandsStill DEF AllMove, IInv, TypeOK
  <2>3. group'.current = group.current /\ runs' = runs
    BY <1>5 DEF DeadlinePasses, ChangeRole, Revoke, IInv, TypeOK
  <2> QED BY <2>1, <2>2, <2>3, StopPays, CapsStay
<1>6. CASE UNCHANGED vars
  <2>1. AllMove /\ AllPay
    BY <1>6, StandsStill, StopPays DEF vars, AllMove, IInv, TypeOK
  <2> QED BY <1>1, <1>6, <2>1 DEF vars
<1> QED
  BY <1>2, <1>3, <1>4, <1>5, <1>6, CreateKeepsCaps, AdmitKeepsCaps
  DEF Next, PlanStep, HostStep, Acts

(* What is due covers what the group answers for.                            *)
LEMMA CapsBoundUse == IInv /\ CapInv => SpendWithinCap
<1> SUFFICES ASSUME IInv, CapInv, NEW r \in Run, runs[r].status # "absent"
             PROVE  SumFunctionOnSet(Share, Since(r)) <= runs[r].cap
  BY DEF SpendWithinCap
<1>1. Since(r) \subseteq Admitted /\ Since(r) \subseteq Attempt
  BY DEF Since, Admitted
<1>2. IsFiniteSet(Since(r))
  BY <1>1, FS_Subset DEF CapInv
<1>3. \A a \in Since(r) : Share[a] \in Nat /\ Due[a] \in Nat /\ Share[a] <= Due[a]
  BY <1>1, Amounts DEF CapInv
<1> DEFINE share == Share
           due == Due
           S == Since(r)
<1>4. /\ IsFiniteSet(S) /\ S \in SUBSET S
      /\ \A a \in S : share[a] \in Nat /\ due[a] \in Nat /\ share[a] <= due[a]
  BY <1>2, <1>3
<1>5. SumFunctionOnSet(due, S) <= runs[r].cap /\ runs[r].cap \in Nat
  BY DEF CapInv, CapsShrink, CommittedWithinCap, IInv, TypeOK, RunRow
<1> HIDE DEF share, due, S
<1>6. /\ SumFunctionOnSet(share, S) <= SumFunctionOnSet(due, S)
      /\ SumFunctionOnSet(share, S) \in Nat /\ SumFunctionOnSet(due, S) \in Nat
  BY <1>4, SumIsMonotone, SumIsNatural
<1>7. SumFunctionOnSet(share, S) <= runs[r].cap
  BY <1>5, <1>6
<1> QED BY <1>7 DEF share, S

----------------------------------------------------------------------------
(* Theorems *)

LEMMA Invariant == Spec => []IInv
BY Initially, Steps, PTL DEF Spec

(* Every step of the plan, its host and its workers keeps the rows of the    *)
(* group, its runs, gates and attempts well formed.                          *)
THEOREM TypeCorrect == Spec => []TypeOK
<1>1. IInv => TypeOK
  BY DEF IInv
<1> QED BY Invariant, <1>1, PTL

(* An attempt with a successor failed, was paid for and left nothing open    *)
(* (kernel/coordination.ts, admission of a further attempt), through every   *)
(* cancellation, rework, lost worker and late answer.                        *)
THEOREM OnlyFailuresAreRepeated == Spec => []RepeatsOnlyFailures
<1>1. IInv => RepeatsOnlyFailures
  BY DEF IInv
<1> QED BY Invariant, <1>1, PTL

(* No run has an attempt while an attempt of an earlier run has a call       *)
(* without result or an outcome nobody knows, and none arises afterwards.    *)
THEOREM NothingStartsBesideUnknown == Spec => []NothingBesideUnknown
<1>1. IInv => NothingBesideUnknown
  BY DEF IInv
<1> QED BY Invariant, <1>1, PTL

(* A cancelled or superseded plan, or one whose initiator was revoked, has   *)
(* no Execution that could go on.                                            *)
THEOREM StoppedPlansStayQuiet == Spec => []StoppedPlansAreQuiet
<1>1. IInv => StoppedPlansAreQuiet
  BY DEF IInv
<1> QED BY Invariant, <1>1, PTL

(* What the admission of a node relied on (dependencyComplete) stays         *)
(* complete and paid for, whatever is created, repeated or cancelled later.  *)
THEOREM DependenciesStay == Spec => []DependenciesHold
<1>1. IInv => DependenciesHold
  BY DEF IInv
<1> QED BY Invariant, <1>1, PTL

(* A settled reservation is the whole bill: no answer, retry or recovery     *)
(* adds to what the attempt used.                                            *)
THEOREM BillsStand == Spec => []BillsAreFinal
<1>1. IInv => BillsAreFinal
  BY DEF IInv, Rows, RowInv, Closed, BillsAreFinal, Admitted
<1> QED BY Invariant, <1>1, PTL

(* However attempts are retried, reworked, cancelled or lost, what those of  *)
(* a run and its successors use stays within the run's cap, but for what one *)
(* bill of an attempt exceeds that attempt's reservation by: an admission    *)
(* (kernel/coordination.ts) finds room for the whole reservation beside all  *)
(* that is committed, overruns included.  For any plan, budgets, bills and   *)
(* number of attempts.                                                       *)
THEOREM SpendingStaysWithinCap == Spec => []SpendWithinCap
<1>1. Spec => [](IInv /\ CapInv)
  <2>1. Init => IInv /\ CapInv
    BY Initially, CapsInitially
  <2>2. IInv /\ CapInv /\ [Next]_vars => (IInv /\ CapInv)'
    BY Steps, CapsKept
  <2> QED BY <2>1, <2>2, PTL DEF Spec
<1>2. IInv /\ CapInv => SpendWithinCap
  BY CapsBoundUse
<1> QED BY <1>1, <1>2, PTL
=============================================================================

------------------------- MODULE RuntimeRecordsProofs -------------------------
(***************************************************************************)
(* Theorems of the two parts of one Execution that are kept in its runtime *)
(* records: the model budget and the inbox.  Both read the records, decide *)
(* and commit, and both are sound for the same reason: a commit is refused *)
(* when anything was appended since the read.                              *)
(*                                                                         *)
(* Budget: records are only appended, so a caller that sees the last       *)
(* sequence unchanged has read the current records.                        *)
(*                                                                         *)
(* Inbox: what is accepted, begun and done is in the log, and each kind of *)
(* write keeps the log in good order (GoodLog).  The handler decides which *)
(* write comes next; what it needs for that is what holds at its program   *)
(* point (HandlerInv).                                                     *)
(***************************************************************************)
EXTENDS ModelBudget, Inbox, FiniteSetTheorems, SequenceTheorems, WellFoundedInduction, TLAPS

----------------------------------------------------------------------------
(* The model budget *)

(* What a caller has read is a past state of the records, and the present one *)
(* when nothing was appended since.                                           *)
ReadIsOld(c) ==
  calls[c].pc \in {"reserving", "settling", "spawning"} =>
    /\ calls[c].seen.last <= records.last
    /\ calls[c].seen.last = records.last => calls[c].seen = records
ReadsAreOld == \A c \in Caller : ReadIsOld(c)

AtMostOne == \A o, p \in records.open : o = p

(* What is open is part of what is allocated. *)
OpenIsAllocated == \A o \in records.open : Total(o) <= records.allocated

(* An overrun comes from the bill of the only request, so none is open after it. *)
OverrunIsLast == records.overrun => records.open = {}

(* What is true of the records after any append. *)
RecordsInv ==
  /\ records \in Records
  /\ AtMostOne
  /\ OpenIsAllocated
  /\ OverrunIsLast
  /\ WithinLimit

BudgetIInv ==
  /\ calls \in [Caller -> Call]
  /\ ReadsAreOld
  /\ RecordsInv

----------------------------------------------------------------------------
(* A step of one caller gives it a well typed call and leaves the others alone; when *)
(* the records stay, or grow, what the others have read is still old.                *)
LEMMA OneCallMoves ==
  ASSUME BudgetIInv, NEW c \in Caller, NEW call \in Call, Set(c, call),
         records' = records \/ (records' \in Records /\ records'.last = records.last + 1),
         ReadIsOld(c)'
  PROVE  calls' \in [Caller -> Call] /\ ReadsAreOld'
<1>1. calls' = [calls EXCEPT ![c] = call]
  BY DEF Set
<1>2. calls' \in [Caller -> Call]
  BY <1>1 DEF BudgetIInv
<1>3. ASSUME NEW d \in Caller, d # c PROVE ReadIsOld(d)'
  <2>1. calls'[d] = calls[d] /\ calls[d] \in Call
    BY <1>1, <1>3 DEF BudgetIInv
  <2>2. ReadIsOld(d)
    BY DEF BudgetIInv, ReadsAreOld
  <2>3. records \in Records
    BY DEF BudgetIInv, RecordsInv
  <2> QED
    BY <2>1, <2>2, <2>3 DEF ReadIsOld, Call, Records
<1> QED
  BY <1>2, <1>3 DEF ReadsAreOld

(* A caller moves and the records stay. *)
LEMMA RecordsStay ==
  ASSUME BudgetIInv, NEW c \in Caller, NEW call \in Call, Set(c, call), UNCHANGED records,
         \/ call.pc \notin {"reserving", "settling", "spawning"}
         \/ call.seen = records
  PROVE  BudgetIInv'
<1>1. calls'[c] = call
  BY DEF Set, BudgetIInv
<1>2. ReadIsOld(c)'
  BY <1>1 DEF ReadIsOld, BudgetIInv, RecordsInv, Records
<1>3. calls' \in [Caller -> Call] /\ ReadsAreOld'
  BY <1>2, OneCallMoves
<1>4. RecordsInv'
  BY DEF BudgetIInv, RecordsInv, AtMostOne, OpenIsAllocated, OverrunIsLast, WithinLimit
<1> QED
  BY <1>3, <1>4 DEF BudgetIInv

(* A caller that is current has read the records there are. *)
LEMMA CurrentReads ==
  ASSUME BudgetIInv, NEW c \in Caller, Current(c),
         CallAt(c, "reserving") \/ CallAt(c, "settling") \/ CallAt(c, "spawning")
  PROVE  calls[c].seen = records
BY DEF BudgetIInv, ReadsAreOld, ReadIsOld, Current, CallAt

(* The limit a decision went by is never above the frozen one. *)
LEMMA EffectiveIsLower ==
  ASSUME NEW r \in Records, NEW limit \in Nat
  PROVE  /\ Effective(r, limit) <= limit
         /\ r.frozen # NotFrozen => Effective(r, limit) <= r.frozen
BY DEF Effective, Records, NotFrozen

LEMMA TotalIsNat ==
  ASSUME NEW a, a.input \in Nat, a.output \in Nat
  PROVE  Total(a) \in Nat
BY DEF Total

LEMMA RecordsGrow ==
  ASSUME NEW r \in Records, NEW frozen \in Nat \cup {NotFrozen}, NEW allocated \in Nat,
         NEW open \in SUBSET [id: Nat, input: Nat, output: Nat], NEW overrun \in BOOLEAN
  PROVE  [r EXCEPT !.frozen = frozen, !.allocated = allocated, !.open = open,
                   !.overrun = overrun, !.last = @ + 1] \in Records
<1>1. r.last + 1 \in Nat
  BY DEF Records
<1> QED
  BY <1>1 DEF Records

LEMMA IdleIsCall == IdleCall \in Call
<1>1. NothingReserved \in Records
  BY DEF NothingReserved, Records, NotFrozen
<1>2. 0 \in 0 .. MaxUse
  BY BudgetAssumption
<1> QED
  BY <1>1, <1>2 DEF IdleCall, Call, NoAmount, Usage

----------------------------------------------------------------------------
(* The steps that leave the records alone: the new call is well typed, and a call *)
(* that has just read has read the present records.                               *)
LEMMA MovesPreserve ==
  ASSUME BudgetIInv, NEW c \in Caller,
         \/ Quote(c) \/ Bill(c) \/ RequestChild(c) \/ GiveUp(c) \/ Unknown(c)
         \/ \E from \in {"reserving", "spawning"} : Refuse(c, from)
         \/ ReadAt(c, "reserve", "reserving") \/ ReadAt(c, "settle", "settling")
         \/ ReadAt(c, "spawn", "spawning")
         \/ Again(c, "reserving", "reserve") \/ Again(c, "settling", "settle")
         \/ Again(c, "spawning", "spawn")
  PROVE  BudgetIInv'
<1>0. calls[c] \in Call /\ records \in Records
  BY DEF BudgetIInv, RecordsInv
<1>1. CASE Quote(c)
  <2>1. PICK q \in Quotes, l \in Limits :
          Set(c, [calls[c] EXCEPT !.pc = "reserve", !.amount = q, !.limit = l])
    BY <1>1 DEF Quote
  <2>2. [calls[c] EXCEPT !.pc = "reserve", !.amount = q, !.limit = l] \in Call
    BY <1>0, BudgetAssumption DEF Call
  <2> QED
    BY <1>0, <1>1, <2>1, <2>2, RecordsStay DEF Quote, Call
<1>2. CASE Bill(c)
  <2>1. PICK u \in Usage : Set(c, [calls[c] EXCEPT !.pc = "settle", !.used = u])
    BY <1>2 DEF Bill
  <2>2. [calls[c] EXCEPT !.pc = "settle", !.used = u] \in Call
    BY <1>0 DEF Call
  <2> QED
    BY <1>0, <1>2, <2>1, <2>2, RecordsStay DEF Bill, Call
<1>3. CASE RequestChild(c)
  <2>1. PICK b \in Children, l \in Limits :
          Set(c, [calls[c] EXCEPT !.pc = "spawn", !.amount = [input |-> b, output |-> 0],
                                  !.limit = l])
    BY <1>3 DEF RequestChild
  <2>2. [calls[c] EXCEPT !.pc = "spawn", !.amount = [input |-> b, output |-> 0], !.limit = l]
          \in Call
    BY <1>0, BudgetAssumption DEF Call
  <2> QED
    BY <1>0, <1>3, <2>1, <2>2, RecordsStay DEF RequestChild, Call
<1>4. CASE GiveUp(c) \/ Unknown(c) \/ \E from \in {"reserving", "spawning"} : Refuse(c, from)
  <2>1. Set(c, IdleCall) /\ UNCHANGED records
    BY <1>4 DEF GiveUp, Unknown, Refuse, Return
  <2> QED
    BY <2>1, IdleIsCall, RecordsStay DEF IdleCall
<1>5. ASSUME NEW from \in {"reserve", "settle", "spawn"},
             NEW to \in {"reserving", "settling", "spawning"}, ReadAt(c, from, to)
      PROVE BudgetIInv'
  <2>1. [calls[c] EXCEPT !.pc = to, !.seen = records] \in Call
    BY <1>0 DEF Call
  <2> QED
    BY <1>0, <1>5, <2>1, RecordsStay DEF ReadAt, Call
<1>6. ASSUME NEW from \in {"reserving", "settling", "spawning"},
             NEW to \in {"reserve", "settle", "spawn"}, Again(c, from, to)
      PROVE BudgetIInv'
  <2>1. [calls[c] EXCEPT !.pc = to] \in Call
    BY <1>0 DEF Call
  <2> QED
    BY <1>0, <1>6, <2>1, RecordsStay DEF Again, Call
<1> QED
  BY <1>1, <1>2, <1>3, <1>4, <1>5, <1>6

(* A reservation is decided on the present records: nothing is open, nothing was *)
(* overrun, and what it adds fits under the limit it freezes or finds.           *)
LEMMA ReservePreserves ==
  ASSUME BudgetIInv, NEW c \in Caller, Reserve(c)
  PROVE  BudgetIInv'
<1> DEFINE call == calls[c]
           new == [id |-> records.last + 1, input |-> call.amount.input,
                   output |-> call.amount.output]
<1>0. call \in Call /\ records \in Records
  BY DEF BudgetIInv, RecordsInv
<1>1. call.seen = records
  BY CurrentReads DEF Reserve
<1>2. /\ records.open = {} /\ ~records.overrun
      /\ records.allocated + Total(call.amount) <= Effective(records, call.limit)
  BY <1>1 DEF Reserve, MayReserve, Fits
<1>3. Total(call.amount) \in Nat /\ Total(new) = Total(call.amount)
  BY <1>0 DEF Total, Call
<1>4. records' = [records EXCEPT !.frozen = Freeze(@, call.limit),
                                 !.allocated = @ + Total(call.amount),
                                 !.open = {new}, !.last = @ + 1]
  BY <1>2 DEF Reserve, Allocated
<1>5. new \in [id: Nat, input: Nat, output: Nat]
  BY <1>0 DEF Call, Records
<1>6. records' \in Records /\ records'.last = records.last + 1
  <2>1. Freeze(records.frozen, call.limit) \in Nat \cup {NotFrozen}
    BY <1>0 DEF Freeze, Call, Records
  <2>2. records.allocated + Total(call.amount) \in Nat
    BY <1>0, <1>3 DEF Records
  <2>3. records' = [records EXCEPT !.frozen = Freeze(records.frozen, call.limit),
                      !.allocated = records.allocated + Total(call.amount),
                      !.open = {new}, !.overrun = records.overrun, !.last = @ + 1]
    BY <1>0, <1>4 DEF Records
  <2>4. records' \in Records
    BY <1>0, <1>5, <2>1, <2>2, <2>3, RecordsGrow DEF Records
  <2> QED
    BY <1>0, <1>4, <2>4 DEF Records
<1>7. records'.frozen = Freeze(records.frozen, call.limit)
      /\ records'.allocated = records.allocated + Total(call.amount)
      /\ records'.open = {new} /\ records'.overrun = records.overrun
  BY <1>0, <1>4 DEF Records
<1>8. records'.allocated <= records'.frozen
  BY <1>0, <1>2, <1>3, <1>7, EffectiveIsLower DEF Freeze, Records, Call, Effective, NotFrozen
<1>9. RecordsInv'
  BY <1>0, <1>2, <1>3, <1>6, <1>7, <1>8
     DEF RecordsInv, AtMostOne, OpenIsAllocated, OverrunIsLast, WithinLimit, Records
<1>10. [call EXCEPT !.pc = "sent", !.id = records.last + 1] \in Call
  <2>1. records.last + 1 \in Nat
    BY <1>0 DEF Records
  <2> QED
    BY <1>0, <2>1 DEF Call
<1>11. Set(c, [call EXCEPT !.pc = "sent", !.id = records.last + 1])
  BY DEF Reserve
<1>12. ReadIsOld(c)'
  BY <1>0, <1>11 DEF Set, BudgetIInv, ReadIsOld, Call
<1>13. calls' \in [Caller -> Call] /\ ReadsAreOld'
  BY <1>6, <1>10, <1>11, <1>12, OneCallMoves
<1> QED
  BY <1>9, <1>13 DEF BudgetIInv

(* A bill replaces the reservation of the only open request: within it, the total can *)
(* only shrink; above it, the records are marked and no request is open.              *)
LEMMA SettleRequestPreserves ==
  ASSUME BudgetIInv, NEW c \in Caller, SettleRequest(c)
  PROVE  BudgetIInv' /\ records.open # {}
<1> DEFINE used == calls[c].used
<1>0. /\ calls[c] \in Call /\ records \in Records
      /\ used.input \in Nat /\ used.output \in Nat
  BY DEF BudgetIInv, RecordsInv, Call, Usage
<1>1. PICK o \in records.open :
        records' = [records EXCEPT !.allocated = @ - Total(o) + Total(used),
                                   !.open = @ \ {o}, !.overrun = @ \/ Exceeds(used, o),
                                   !.last = @ + 1]
  BY DEF SettleRequest, Own
<1>2. records.open \ {o} = {}
  BY DEF BudgetIInv, RecordsInv, AtMostOne
<1>3. o.input \in Nat /\ o.output \in Nat /\ Total(o) <= records.allocated
  BY <1>0 DEF Records, BudgetIInv, RecordsInv, OpenIsAllocated
<1>4. Total(o) \in Nat /\ Total(used) \in Nat
  BY <1>0, <1>3 DEF Total
<1>5. /\ records'.frozen = records.frozen
      /\ records'.allocated = records.allocated - Total(o) + Total(used)
      /\ records'.open = {} /\ records'.overrun = (records.overrun \/ Exceeds(used, o))
      /\ records'.last = records.last + 1
  BY <1>0, <1>1, <1>2 DEF Records
<1>6. records'.allocated \in Nat
  BY <1>0, <1>3, <1>4, <1>5 DEF Records
<1>7. records' \in Records
  <2>1. records'.overrun \in BOOLEAN
    BY <1>0, <1>5 DEF Records
  <2>2. records' = [records EXCEPT !.frozen = records.frozen,
                      !.allocated = records'.allocated, !.open = {},
                      !.overrun = records'.overrun, !.last = @ + 1]
    BY <1>0, <1>1, <1>2, <1>5 DEF Records
  <2>3. /\ records.frozen \in Nat \cup {NotFrozen} /\ records.overrun \in BOOLEAN
        /\ records.open \in SUBSET [id: Nat, input: Nat, output: Nat]
    BY <1>0 DEF Records
  <2>4. {} \in SUBSET [id: Nat, input: Nat, output: Nat]
    OBVIOUS
  <2>5. ASSUME NEW allocated \in Nat, NEW overrun \in BOOLEAN
        PROVE  [records EXCEPT !.frozen = records.frozen, !.allocated = allocated, !.open = {},
                               !.overrun = overrun, !.last = @ + 1] \in Records
    BY <1>0, <2>3, <2>4, RecordsGrow
  <2> QED
    BY <1>6, <2>1, <2>2, <2>5, Zenon
<1>8. WithinLimit'
  <2>1. ~Exceeds(used, o) => Total(used) <= Total(o)
    BY <1>0, <1>3 DEF Exceeds, Total
  <2>2. WithinLimit
    BY DEF BudgetIInv, RecordsInv
  <2>3. records.allocated \in Nat /\ records.frozen \in Int
    BY <1>0 DEF Records, NotFrozen
  <2>4. CASE Exceeds(used, o)
    BY <1>5, <2>4 DEF WithinLimit
  <2>5. CASE ~Exceeds(used, o)
    <3>1. Total(used) <= Total(o) /\ records'.overrun = records.overrun
      BY <1>0, <1>5, <2>1, <2>5 DEF Records
    <3>2. records'.allocated <= records.allocated
      BY <1>4, <1>5, <2>3, <3>1
    <3> QED
      BY <1>5, <1>6, <2>2, <2>3, <3>1, <3>2 DEF WithinLimit
  <2> QED
    BY <2>4, <2>5
<1>9. RecordsInv'
  BY <1>5, <1>7, <1>8 DEF RecordsInv, AtMostOne, OpenIsAllocated, OverrunIsLast
<1>10. Set(c, IdleCall)
  BY DEF SettleRequest, Return
<1>11. ReadIsOld(c)'
  BY <1>10 DEF Set, BudgetIInv, ReadIsOld, IdleCall
<1>12. calls' \in [Caller -> Call] /\ ReadsAreOld'
  BY <1>5, <1>7, <1>10, <1>11, IdleIsCall, OneCallMoves
<1> QED
  BY <1>9, <1>12 DEF BudgetIInv

(* A child takes its budget from what is left. *)
LEMMA SpawnPreserves ==
  ASSUME BudgetIInv, NEW c \in Caller, Spawn(c)
  PROVE  BudgetIInv' /\ ~records.overrun
<1> DEFINE amount == calls[c].amount
<1>0. calls[c] \in Call /\ records \in Records
  BY DEF BudgetIInv, RecordsInv
<1>1. calls[c].seen = records
  BY CurrentReads DEF Spawn
<1>2. ~records.overrun
      /\ records.allocated + Total(amount) <= Effective(records, calls[c].limit)
  BY <1>1 DEF Spawn, MaySpawn, Fits
<1>3. Total(amount) \in Nat
  BY <1>0 DEF Total, Call
<1>4. /\ records' = [records EXCEPT !.allocated = @ + Total(amount), !.last = @ + 1]
      /\ Set(c, IdleCall)
  BY DEF Spawn, Allocated, Return
<1>5. records' \in Records /\ records'.last = records.last + 1
  <2>1. records.allocated + Total(amount) \in Nat
    BY <1>0, <1>3 DEF Records
  <2>2. records' = [records EXCEPT !.frozen = records.frozen,
                      !.allocated = records.allocated + Total(amount), !.open = records.open,
                      !.overrun = records.overrun, !.last = @ + 1]
    BY <1>0, <1>4 DEF Records
  <2>3. /\ records.frozen \in Nat \cup {NotFrozen} /\ records.overrun \in BOOLEAN
        /\ records.open \in SUBSET [id: Nat, input: Nat, output: Nat]
    BY <1>0 DEF Records
  <2>4. records' \in Records
    BY <1>0, <2>1, <2>2, <2>3, RecordsGrow
  <2> QED
    BY <1>0, <1>4, <2>4 DEF Records
<1>6. /\ records'.allocated = records.allocated + Total(amount)
      /\ records'.frozen = records.frozen /\ records'.open = records.open
      /\ records'.overrun = records.overrun
  BY <1>0, <1>4 DEF Records
<1>7. WithinLimit'
  <2>1. calls[c].limit \in Nat
    BY <1>0 DEF Call
  <2>2. records.frozen # NotFrozen => Effective(records, calls[c].limit) <= records.frozen
    BY <1>0, <2>1, EffectiveIsLower
  <2>3. Effective(records, calls[c].limit) \in Int /\ records.frozen \in Int
        /\ records.allocated \in Nat
    BY <1>0, <2>1 DEF Effective, Records, NotFrozen
  <2> QED
    BY <1>2, <1>3, <1>6, <2>2, <2>3 DEF WithinLimit
<1>8. OpenIsAllocated'
  <2>1. \A o \in records.open : Total(o) <= records.allocated /\ Total(o) \in Nat
    BY <1>0 DEF BudgetIInv, RecordsInv, OpenIsAllocated, Records, Total
  <2> QED
    BY <1>0, <1>3, <1>6, <2>1 DEF OpenIsAllocated, Records
<1>9. RecordsInv'
  BY <1>5, <1>6, <1>7, <1>8 DEF BudgetIInv, RecordsInv, AtMostOne, OverrunIsLast
<1>10. ReadIsOld(c)'
  BY <1>4 DEF Set, BudgetIInv, ReadIsOld, IdleCall
<1>11. calls' \in [Caller -> Call] /\ ReadsAreOld'
  BY <1>4, <1>5, <1>10, IdleIsCall, OneCallMoves
<1> QED
  BY <1>2, <1>9, <1>11 DEF BudgetIInv

(* Records of other kinds only move the last sequence. *)
LEMMA OtherRecordPreserves ==
  ASSUME BudgetIInv, OtherRecord
  PROVE  BudgetIInv'
<1>1. records \in Records /\ records' = [records EXCEPT !.last = @ + 1] /\ UNCHANGED calls
  BY DEF BudgetIInv, RecordsInv, OtherRecord
<1>2. records' \in Records
  BY <1>1 DEF Records
<1>3. /\ records'.allocated = records.allocated /\ records'.frozen = records.frozen
      /\ records'.open = records.open /\ records'.overrun = records.overrun
      /\ records'.last = records.last + 1
  BY <1>1 DEF Records
<1>4. RecordsInv'
  BY <1>2, <1>3 DEF BudgetIInv, RecordsInv, AtMostOne, OpenIsAllocated, OverrunIsLast, WithinLimit
<1>5. ReadsAreOld'
  BY <1>1, <1>3 DEF BudgetIInv, ReadsAreOld, ReadIsOld, Records, Call
<1> QED
  BY <1>1, <1>4, <1>5 DEF BudgetIInv

----------------------------------------------------------------------------

LEMMA BudgetInitially == BudgetInit => BudgetIInv
<1>1. NothingReserved \in Records
  BY DEF NothingReserved, Records, NotFrozen
<1> QED
  BY <1>1, IdleIsCall DEF BudgetInit, BudgetIInv, ReadsAreOld, ReadIsOld, IdleCall,
     RecordsInv, NothingReserved, AtMostOne, OpenIsAllocated, OverrunIsLast, WithinLimit

LEMMA BudgetInductive == BudgetIInv /\ [BudgetNext]_budgetVars => BudgetIInv'
<1> SUFFICES ASSUME BudgetIInv, [BudgetNext]_budgetVars PROVE BudgetIInv'
  OBVIOUS
<1>1. CASE OtherRecord
  BY <1>1, OtherRecordPreserves
<1>2. ASSUME NEW c \in Caller, Step(c) PROVE BudgetIInv'
  BY <1>2, MovesPreserve, ReservePreserves, SettleRequestPreserves, SpawnPreserves DEF Step
<1>3. CASE UNCHANGED budgetVars
  BY <1>3 DEF budgetVars, BudgetIInv, ReadsAreOld, ReadIsOld, RecordsInv, AtMostOne,
     OpenIsAllocated, OverrunIsLast, WithinLimit
<1> QED
  BY <1>1, <1>2, <1>3 DEF BudgetNext

LEMMA BudgetInvariance == BudgetSpec => []BudgetIInv
BY BudgetInitially, BudgetInductive, PTL DEF BudgetSpec

(* The totals are natural numbers and the calls well typed (reduceModelBudget). *)
THEOREM BudgetTypeCorrect == BudgetSpec => []BudgetTypeOK
<1>1. BudgetIInv => BudgetTypeOK
  BY DEF BudgetIInv, RecordsInv, BudgetTypeOK
<1> QED
  BY <1>1, BudgetInvariance, PTL

(* However many callers reserve and spawn at a time, what is allocated stays within the *)
(* frozen limit as long as no provider billed above a reservation.                      *)
THEOREM AllocationsStayWithinLimit == BudgetSpec => []WithinLimit
<1>1. BudgetIInv => WithinLimit
  BY DEF BudgetIInv, RecordsInv
<1> QED
  BY <1>1, BudgetInvariance, PTL

(* A request without a bill keeps every other request from being reserved. *)
THEOREM AtMostOneOpenRequest == BudgetSpec => []OneOpenRequest
<1>1. ASSUME BudgetIInv PROVE OneOpenRequest
  <2>1. CASE records.open = {}
    BY <2>1, FS_EmptySet DEF OneOpenRequest
  <2>2. CASE records.open # {}
    <3>1. PICK o \in records.open : records.open = {o}
      BY <1>1, <2>2 DEF BudgetIInv, RecordsInv, AtMostOne
    <3>2. Cardinality({o}) = 1
      BY FS_Singleton
    <3> QED
      BY <3>1, <3>2 DEF OneOpenRequest
  <2> QED
    BY <2>1, <2>2
<1> QED
  BY <1>1, BudgetInvariance, PTL

(* After a bill above its reservation nothing more is allocated, to requests or children. *)
THEOREM OverrunsStopSpending == BudgetSpec => OverrunStops
<1>1. ASSUME BudgetIInv, BudgetNext, records.overrun PROVE records'.allocated <= records.allocated
  <2>0. records.allocated \in Nat /\ records.open = {}
    BY <1>1 DEF BudgetIInv, RecordsInv, Records, OverrunIsLast
  <2>1. CASE UNCHANGED records
    BY <2>0, <2>1
  <2>2. CASE OtherRecord
    BY <1>1, <2>0, <2>2 DEF OtherRecord, BudgetIInv, RecordsInv, Records
  <2>3. ASSUME NEW c \in Caller, Step(c) PROVE UNCHANGED records
    <3>1. ~SettleRequest(c)
      BY <1>1, <2>0, SettleRequestPreserves
    <3>2. ~Spawn(c)
      BY <1>1, SpawnPreserves
    <3>3. ~Reserve(c)
      BY <1>1, CurrentReads DEF Reserve, MayReserve
    <3> QED
      BY <2>3, <3>1, <3>2, <3>3
         DEF Step, Quote, ReadAt, Again, Refuse, Bill, Unknown, RequestChild, GiveUp
  <2> QED
    BY <1>1, <2>1, <2>2, <2>3 DEF BudgetNext
<1>2. BudgetIInv /\ [BudgetNext]_budgetVars =>
        [records.overrun => records'.allocated <= records.allocated]_records
  BY <1>1 DEF budgetVars
<1> QED
  BY <1>2, BudgetInvariance, PTL DEF BudgetSpec, OverrunStops

----------------------------------------------------------------------------
(* The inbox: what is in order in a log, whatever its status *)

(* Whatever is older than a follow-up with a turn had its own turn. *)
OlderAreConsumed(l) ==
  \A t \in DOMAIN l.started :
    LET i == l.started[t]
    IN  l.items[i] = "follow_up" =>
          \A j \in DOMAIN l.items :
            l.items[j] = "follow_up" /\ j < i => j \in l.consumed

InOrder(l) ==
  \A t, u \in DOMAIN l.started :
    t < u /\ l.items[l.started[t]] = "follow_up" /\ l.items[l.started[u]] = "follow_up"
      => l.started[t] < l.started[u]

ResumeFirst(l) ==
  \A t \in DOMAIN l.started :
    t > 1 /\ l.items[l.started[t]] # "resume" => t - 1 \in l.done

GoodLog(l) == LogOK(l) /\ OlderAreConsumed(l) /\ InOrder(l) /\ ResumeFirst(l)

LastDone(l) == l.started # <<>> => Len(l.started) \in l.done
MayBegin(l) == LastDone(l) \/ Pending(l, {"resume"}) # {}

----------------------------------------------------------------------------
(* The next item *)

(* A set of naturals has a least element. *)
LEMMA LeastNatural ==
  ASSUME NEW S \in SUBSET Nat, S # {}
  PROVE  \E m \in S : \A n \in S : m <= n
<1>1. \E x \in S : \A y \in S : ~(<<y, x>> \in OpToRel(<, Nat))
  BY NatLessThanWellFounded, WFMin
<1>2. PICK x \in S : \A y \in S : ~(<<y, x>> \in OpToRel(<, Nat))
  BY <1>1
<1>3. ASSUME NEW y \in S PROVE x <= y
  <2>1. ~(y < x)
    BY <1>2, <1>3 DEF OpToRel
  <2> QED
    BY <2>1
<1> QED
  BY <1>3

LEMMA LogFields ==
  ASSUME NEW l \in Log
  PROVE  /\ l.items \in Seq(Kind) /\ l.started \in Seq(Nat)
         /\ Len(l.items) \in Nat /\ DOMAIN l.items = 1 .. Len(l.items)
         /\ Len(l.started) \in Nat /\ DOMAIN l.started = 1 .. Len(l.started)
         /\ \A i \in DOMAIN l.items : l.items[i] \in Kind
         /\ \A t \in DOMAIN l.started : l.started[t] \in Nat
<1>1. l.items \in Seq(Kind) /\ l.started \in Seq(Nat)
  BY DEF Log
<1> QED
  BY <1>1, LenProperties, ElementOfSeq

LEMMA PendingAreItems ==
  ASSUME NEW l \in Log, NEW kinds
  PROVE  Pending(l, kinds) \subseteq DOMAIN l.items /\ Pending(l, kinds) \subseteq Nat
BY LogFields DEF Pending

(* Among the items of one rank, the oldest; ranks are 0, 1 and 2. *)
LEMMA SomethingIsFirst ==
  ASSUME NEW l \in Log, Turns(l) # {}
  PROVE  \E i \in Turns(l) : \A j \in Turns(l) \ {i} : Before(l, i, j)
<1>1. Turns(l) \subseteq Nat
  BY PendingAreItems DEF Turns
<1>2. \A i : Rank(l, i) \in {0, 1, 2}
  BY DEF Rank
<1> DEFINE Of(r) == {i \in Turns(l) : Rank(l, i) = r}
<1>3. ASSUME NEW r \in {0, 1, 2}, Of(r) # {}, \A j \in Turns(l) : r <= Rank(l, j)
      PROVE  \E i \in Turns(l) : \A j \in Turns(l) \ {i} : Before(l, i, j)
  <2>1. Of(r) \in SUBSET Nat
    BY <1>1
  <2>2. PICK i \in Of(r) : \A j \in Of(r) : i <= j
    BY <2>1, <1>3, LeastNatural
  <2>3. i \in Turns(l) /\ Rank(l, i) = r /\ i \in Nat
    BY <2>2, <1>1
  <2>4. ASSUME NEW j \in Turns(l) \ {i} PROVE Before(l, i, j)
    <3>1. j \in Nat /\ Rank(l, j) \in {0, 1, 2} /\ r <= Rank(l, j)
      BY <1>1, <1>2, <1>3
    <3>2. CASE Rank(l, j) = r
      <4>1. i <= j
        BY <2>2, <3>2
      <4> QED
        BY <4>1, <3>2, <3>1, <2>3 DEF Before
    <3>3. CASE Rank(l, j) # r
      BY <3>1, <3>3, <2>3 DEF Before
    <3> QED
      BY <3>2, <3>3
  <2> QED
    BY <2>3, <2>4
<1>4. \/ Of(0) # {}
      \/ Of(0) = {} /\ Of(1) # {}
      \/ Of(0) = {} /\ Of(1) = {} /\ Of(2) # {}
  BY <1>2
<1>5. CASE Of(0) # {}
  <2>1. \A j \in Turns(l) : 0 <= Rank(l, j)
    BY <1>2
  <2> HIDE DEF Of
  <2> QED
    BY <2>1, <1>5, <1>3
<1>6. CASE Of(0) = {} /\ Of(1) # {}
  <2>1. \A j \in Turns(l) : 1 <= Rank(l, j)
    BY <1>2, <1>6
  <2> HIDE DEF Of
  <2> QED
    BY <2>1, <1>6, <1>3
<1>7. CASE Of(0) = {} /\ Of(1) = {} /\ Of(2) # {}
  <2>1. \A j \in Turns(l) : 2 <= Rank(l, j)
    BY <1>2, <1>7
  <2> HIDE DEF Of
  <2> QED
    BY <2>1, <1>7, <1>3
<1> QED
  BY <1>4, <1>5, <1>6, <1>7

LEMMA NextItemIsFirst ==
  ASSUME NEW l \in Log, Turns(l) # {}
  PROVE  /\ NextItem(l) \in Turns(l)
         /\ \A j \in Turns(l) \ {NextItem(l)} : Before(l, NextItem(l), j)
BY SomethingIsFirst DEF NextItem

(* A message is next only when no resume waits, and a follow-up only when it is the *)
(* oldest.                                                                          *)
LEMMA NextItemInOrder ==
  ASSUME NEW l \in Log, Turns(l) # {}, l.items[NextItem(l)] # "resume"
  PROVE  /\ Pending(l, {"resume"}) = {}
         /\ l.items[NextItem(l)] = "follow_up" =>
              \A j \in Pending(l, {"follow_up"}) : NextItem(l) <= j
<1> DEFINE n == NextItem(l)
<1>1. n \in Turns(l) /\ \A j \in Turns(l) \ {n} : Before(l, n, j)
  BY NextItemIsFirst
<1>2. n \in Nat /\ Turns(l) \subseteq Nat
  BY <1>1, PendingAreItems DEF Turns
<1> HIDE DEF n
<1>3. l.items[n] # "resume"
  BY DEF n
<1>4. ASSUME NEW j \in Pending(l, {"resume"}) PROVE FALSE
  <2>1. j \in Turns(l) /\ l.items[j] = "resume"
    BY <1>4 DEF Turns, Pending
  <2>2. Before(l, n, j)
    BY <1>1, <2>1, <1>3
  <2> QED
    BY <2>2, <2>1, <1>3 DEF Before, Rank
<1>5. ASSUME l.items[n] = "follow_up", NEW j \in Pending(l, {"follow_up"}) PROVE n <= j
  <2>1. j \in Turns(l) /\ l.items[j] = "follow_up" /\ j \in Nat
    BY <1>5, <1>2 DEF Turns, Pending, UserInput
  <2>2. CASE j = n
    BY <2>2, <1>2
  <2>3. CASE j # n
    <3>1. Before(l, n, j)
      BY <1>1, <2>1, <2>3
    <3>2. Rank(l, n) = 2 /\ Rank(l, j) = 2
      BY <1>5, <2>1 DEF Rank
    <3> QED
      BY <3>1, <3>2, <2>1, <1>2 DEF Before
  <2> QED
    BY <2>2, <2>3
<1> QED
  BY <1>4, <1>5 DEF n

----------------------------------------------------------------------------
(* What each write keeps *)

LEMMA StatusWrite ==
  ASSUME NEW l, GoodLog(l), NEW s \in LogStatus
  PROVE  /\ GoodLog(WithStatus(l, s))
         /\ LastDone(WithStatus(l, s)) = LastDone(l)
         /\ \A kinds : Pending(WithStatus(l, s), kinds) = Pending(l, kinds)
<1> DEFINE m == WithStatus(l, s)
<1>1. l \in Log
  BY DEF GoodLog, LogOK
<1>2. /\ m \in Log /\ m.items = l.items /\ m.consumed = l.consumed
      /\ m.started = l.started /\ m.done = l.done
  BY <1>1 DEF WithStatus, Log
<1> HIDE DEF m
<1>3. GoodLog(m)
  BY <1>2 DEF GoodLog, LogOK, OlderAreConsumed, InOrder, ResumeFirst
<1> QED
  BY <1>3, <1>2 DEF m, LastDone, Pending

LEMMA ItemWrite ==
  ASSUME NEW l, GoodLog(l), NEW kind \in Kind
  PROVE  /\ GoodLog(WithItem(l, kind))
         /\ WithItem(l, kind).started = l.started /\ WithItem(l, kind).done = l.done
         /\ WithItem(l, kind).consumed = l.consumed /\ WithItem(l, kind).status = l.status
         /\ \A i \in DOMAIN l.items : /\ i \in DOMAIN WithItem(l, kind).items
                                      /\ WithItem(l, kind).items[i] = l.items[i]
         /\ kind = "resume" => Pending(WithItem(l, kind), {"resume"}) # {}
<1> DEFINE m == WithItem(l, kind)
<1> DEFINE n == Len(l.items) + 1
<1>1. l \in Log /\ LogOK(l)
  BY DEF GoodLog, LogOK
<1>2. /\ l.items \in Seq(Kind) /\ Len(l.items) \in Nat /\ DOMAIN l.items = 1 .. Len(l.items)
      /\ DOMAIN l.started \subseteq Nat /\ l.started \in Seq(Nat)
  BY <1>1, LogFields
<1>3. /\ m.items = Append(l.items, kind) /\ m.consumed = l.consumed
      /\ m.started = l.started /\ m.done = l.done /\ m.status = l.status
  BY <1>1 DEF WithItem, Log
<1>4. /\ m.items \in Seq(Kind) /\ Len(m.items) = n
      /\ \A i \in 1 .. Len(l.items) : m.items[i] = l.items[i]
      /\ m.items[n] = kind
  BY <1>2, <1>3, AppendProperties
<1>5. m \in Log
  <2>1. m = [l EXCEPT !.items = Append(l.items, kind)]
    BY DEF WithItem
  <2> QED
    BY <2>1, <1>1, <1>3, <1>4 DEF Log
<1>6. DOMAIN m.items = 1 .. n
  BY <1>4, LenProperties
<1> HIDE DEF m
<1>7. \A i \in DOMAIN l.items : i \in DOMAIN m.items /\ m.items[i] = l.items[i] /\ i < n
  BY <1>2, <1>4, <1>6
<1>8. \A t \in DOMAIN l.started : l.started[t] \in l.consumed /\ l.started[t] \in DOMAIN l.items
  BY <1>1 DEF LogOK
<1>9. n \notin l.consumed /\ \A i \in DOMAIN m.items : i \in DOMAIN l.items \/ i = n
  BY <1>1, <1>2, <1>6 DEF LogOK
<1>10. LogOK(m)
  BY <1>1, <1>3, <1>5, <1>7 DEF LogOK
<1>11. OlderAreConsumed(m)
  <2> SUFFICES ASSUME NEW t \in DOMAIN m.started, m.items[m.started[t]] = "follow_up",
                      NEW j \in DOMAIN m.items, m.items[j] = "follow_up", j < m.started[t]
               PROVE  j \in m.consumed
    BY DEF OlderAreConsumed
  <2>1. l.started[t] \in DOMAIN l.items /\ m.started[t] = l.started[t] /\ t \in DOMAIN l.started
    BY <1>3, <1>8
  <2>2. j \in DOMAIN l.items
    <3>1. l.started[t] < n /\ l.started[t] \in Nat /\ n \in Nat
      BY <2>1, <1>2, <1>7
    <3> QED
      BY <3>1, <2>1, <1>9
  <2>3. l.items[l.started[t]] = "follow_up" /\ l.items[j] = "follow_up"
    BY <2>1, <2>2, <1>7
  <2>4. OlderAreConsumed(l)
    BY DEF GoodLog
  <2> QED
    BY <2>1, <2>2, <2>3, <2>4, <1>3 DEF OlderAreConsumed
<1>12. InOrder(m)
  <2>1. InOrder(l)
    BY DEF GoodLog
  <2>2. \A t \in DOMAIN l.started : m.items[m.started[t]] = l.items[l.started[t]]
    BY <1>3, <1>7, <1>8
  <2> QED
    BY <2>1, <2>2, <1>3 DEF InOrder
<1>13. ResumeFirst(m)
  <2>1. ResumeFirst(l)
    BY DEF GoodLog
  <2>2. \A t \in DOMAIN l.started : m.items[m.started[t]] = l.items[l.started[t]]
    BY <1>3, <1>7, <1>8
  <2> QED
    BY <2>1, <2>2, <1>3 DEF ResumeFirst
<1>14. kind = "resume" => n \in Pending(m, {"resume"})
  BY <1>2, <1>3, <1>4, <1>6, <1>9 DEF Pending
<1> QED
  BY <1>3, <1>7, <1>10, <1>11, <1>12, <1>13, <1>14 DEF GoodLog, m

LEMMA SteersWrite ==
  ASSUME NEW l, GoodLog(l), NEW items \in SUBSET DOMAIN l.items
  PROVE  /\ GoodLog(WithSteers(l, items))
         /\ WithSteers(l, items).started = l.started /\ WithSteers(l, items).status = l.status
<1> DEFINE m == WithSteers(l, items)
<1>1. l \in Log /\ LogOK(l)
  BY DEF GoodLog, LogOK
<1>2. items \subseteq Nat
  BY <1>1, LogFields
<1>3. /\ m.items = l.items /\ m.consumed = l.consumed \cup items
      /\ m.started = l.started /\ m.done = l.done /\ m.status = l.status /\ m \in Log
  BY <1>1, <1>2 DEF WithSteers, Log
<1> HIDE DEF m
<1>4. LogOK(m)
  BY <1>1, <1>3 DEF LogOK
<1>5. OlderAreConsumed(m) /\ InOrder(m) /\ ResumeFirst(m)
  BY <1>3 DEF GoodLog, OlderAreConsumed, InOrder, ResumeFirst
<1> QED
  BY <1>3, <1>4, <1>5 DEF GoodLog, m

LEMMA CompletionWrite ==
  ASSUME NEW l, GoodLog(l), l.started # <<>>
  PROVE  LET m == [l EXCEPT !.done = @ \cup {Len(l.started)}]
         IN  GoodLog(m) /\ LastDone(m) /\ m.started = l.started /\ m.status = l.status
<1> DEFINE m == [l EXCEPT !.done = @ \cup {Len(l.started)}]
<1>1. l \in Log /\ LogOK(l)
  BY DEF GoodLog, LogOK
<1>2. Len(l.started) \in Nat /\ DOMAIN l.started = 1 .. Len(l.started) /\ Len(l.started) # 0
  BY <1>1, LogFields, EmptySeq
<1>3. /\ m.items = l.items /\ m.consumed = l.consumed
      /\ m.started = l.started /\ m.done = l.done \cup {Len(l.started)} /\ m.status = l.status
      /\ m \in Log
  BY <1>1, <1>2 DEF Log
<1> HIDE DEF m
<1>4. LogOK(m)
  BY <1>1, <1>2, <1>3 DEF LogOK
<1>5. OlderAreConsumed(m) /\ InOrder(m) /\ ResumeFirst(m)
  BY <1>3 DEF GoodLog, OlderAreConsumed, InOrder, ResumeFirst
<1> QED
  BY <1>3, <1>4, <1>5 DEF GoodLog, m, LastDone

(* The turn of the next item, taken when the last turn is done or a resume waits. *)
LEMMA TurnWrite ==
  ASSUME NEW l, GoodLog(l), Turns(l) # {}, MayBegin(l)
  PROVE  LET m == WithTurn(l, NextItem(l))
         IN  GoodLog(m) /\ m.started # <<>> /\ m.status = l.status
<1> DEFINE i == NextItem(l)
<1> DEFINE m == WithTurn(l, i)
<1> DEFINE n == Len(l.started) + 1
<1>1. l \in Log /\ LogOK(l)
  BY DEF GoodLog, LogOK
<1>2. i \in Turns(l)
  BY <1>1, NextItemIsFirst
<1>3. i \in DOMAIN l.items /\ i \in Nat /\ i \notin l.consumed
  BY <1>1, <1>2, PendingAreItems DEF Turns, Pending
<1>4. /\ l.items[i] # "resume" => Pending(l, {"resume"}) = {}
      /\ l.items[i] = "follow_up" => \A j \in Pending(l, {"follow_up"}) : i <= j
  BY <1>1, NextItemInOrder
<1> HIDE DEF i
<1>5. /\ m.items = l.items /\ m.consumed = l.consumed \cup {i}
      /\ m.started = Append(l.started, i) /\ m.done = l.done /\ m.status = l.status
  BY <1>1 DEF WithTurn, Log
<1>6. /\ l.started \in Seq(Nat) /\ Len(l.started) \in Nat
      /\ DOMAIN l.started = 1 .. Len(l.started) /\ DOMAIN l.items \subseteq Nat
  BY <1>1, LogFields
<1>7. /\ m.started \in Seq(Nat) /\ Len(m.started) = n /\ m.started # <<>>
      /\ \A t \in 1 .. Len(l.started) : m.started[t] = l.started[t]
      /\ m.started[n] = i
  BY <1>3, <1>5, <1>6, AppendProperties
<1>8. DOMAIN m.started = 1 .. n
  BY <1>7, LenProperties
<1>9. m \in Log
  <2>1. m = [l EXCEPT !.consumed = l.consumed \cup {i}, !.started = Append(l.started, i)]
    BY DEF WithTurn
  <2> QED
    BY <2>1, <1>1, <1>3, <1>5, <1>7 DEF Log
<1> HIDE DEF m
<1>10. \A t \in DOMAIN m.started :
         \/ t = n /\ m.started[t] = i
         \/ t \in DOMAIN l.started /\ m.started[t] = l.started[t] /\ t < n
  BY <1>6, <1>7, <1>8
<1>11. \A t \in DOMAIN l.started : l.started[t] \in l.consumed /\ l.started[t] \in DOMAIN l.items
  BY <1>1 DEF LogOK
<1>12. LogOK(m)
  <2>1. m.consumed \subseteq DOMAIN m.items
    BY <1>1, <1>3, <1>5 DEF LogOK
  <2>2. \A t \in DOMAIN m.started : m.started[t] \in m.consumed
    BY <1>5, <1>10, <1>11
  <2>3. m.done \subseteq DOMAIN m.started
    BY <1>1, <1>5, <1>6, <1>8 DEF LogOK
  <2> QED
    BY <2>1, <2>2, <2>3, <1>9 DEF LogOK
<1>13. OlderAreConsumed(m)
  <2> SUFFICES ASSUME NEW t \in DOMAIN m.started, l.items[m.started[t]] = "follow_up",
                      NEW j \in DOMAIN l.items, l.items[j] = "follow_up", j < m.started[t]
               PROVE  j \in l.consumed \cup {i}
    BY <1>5 DEF OlderAreConsumed
  <2>1. CASE t = n /\ m.started[t] = i
    <3>1. j \in Pending(l, {"follow_up"}) \/ j \in l.consumed
      BY DEF Pending
    <3>2. j \in Nat /\ ~(i <= j)
      BY <2>1, <1>3, <1>6
    <3> QED
      BY <3>1, <3>2, <2>1, <1>4
  <2>2. CASE t \in DOMAIN l.started /\ m.started[t] = l.started[t]
    BY <2>2 DEF GoodLog, OlderAreConsumed
  <2> QED
    BY <1>10, <2>1, <2>2
<1>14. InOrder(m)
  <2> SUFFICES ASSUME NEW t \in DOMAIN m.started, NEW u \in DOMAIN m.started, t < u,
                      l.items[m.started[t]] = "follow_up", l.items[m.started[u]] = "follow_up"
               PROVE  m.started[t] < m.started[u]
    BY <1>5 DEF InOrder
  <2>1. t \in DOMAIN l.started /\ m.started[t] = l.started[t]
    <3>1. t \in Nat /\ u \in Nat /\ u <= n /\ n \in Nat
      BY <1>6, <1>8
    <3> QED
      BY <3>1, <1>10
  <2>2. CASE u = n /\ m.started[u] = i
    <3>1. l.started[t] \in Nat /\ l.started[t] # i
      BY <2>1, <1>11, <1>3, <1>6
    <3>2. CASE i < l.started[t]
      <4>1. i \in l.consumed
        BY <3>2, <2>1, <2>2, <1>3 DEF GoodLog, OlderAreConsumed
      <4> QED
        BY <4>1, <1>3
    <3> QED
      BY <3>1, <3>2, <2>1, <2>2, <1>3
  <2>3. CASE u \in DOMAIN l.started /\ m.started[u] = l.started[u]
    BY <2>1, <2>3 DEF GoodLog, InOrder
  <2> QED
    BY <1>10, <2>2, <2>3
<1>15. ResumeFirst(m)
  <2> SUFFICES ASSUME NEW t \in DOMAIN m.started, t > 1, l.items[m.started[t]] # "resume"
               PROVE  t - 1 \in l.done
    BY <1>5 DEF ResumeFirst
  <2>1. CASE t = n /\ m.started[t] = i
    <3>1. LastDone(l)
      BY <2>1, <1>4 DEF MayBegin
    <3>2. l.started # <<>>
      BY <2>1, <1>6, EmptySeq
    <3>3. Len(l.started) \in l.done /\ t - 1 = Len(l.started)
      BY <3>1, <3>2, <2>1, <1>6 DEF LastDone
    <3> QED
      BY <3>3
  <2>2. CASE t \in DOMAIN l.started /\ m.started[t] = l.started[t]
    BY <2>2 DEF GoodLog, ResumeFirst
  <2> QED
    BY <1>10, <2>1, <2>2
<1> QED
  BY <1>5, <1>7, <1>12, <1>13, <1>14, <1>15 DEF GoodLog, m, i
----------------------------------------------------------------------------
(* The invariant *)

(* A handler works for a running Execution only, and owes no record once it is gone. *)
HandlerRuns ==
  /\ h.pc # "none" => exec.status = "running"
  /\ h.pc = "none" => ~h.owed

(* A completion is decided on records in which no turn waits. *)
NothingSeen == h.pc = "finish" => Turns(h.seen) = {}

Starting == {"opened", "first", "kick", "starting"}
Resuming == {"resume", "queueing"}
Looping == {"loop", "begin", "empty", "finish"}
InTurn == {"boundary", "steer", "model", "answered", "aborted"}

(* A start job runs on records without a turn; queued records are behind a handler *)
(* that has reached its loop.                                                      *)
FirstRun ==
  /\ exec.command = "start" /\ (log.status = "queued" \/ h.pc \in Starting) => log.started = <<>>
  /\ h.pc \in Looping \cup InTurn => log.status # "queued"
  /\ h.pc = "first" => exec.command = "start"
  /\ h.pc \in Resuming => exec.command = "resume"

(* Turns change in the turn of a handler only: what a resume read of them is so still. *)
TurnsAsRead ==
  h.pc = "resume" =>
    /\ log.started = h.seen.started /\ log.done = h.seen.done
    /\ log.consumed = h.seen.consumed
    /\ \A i \in DOMAIN h.seen.items :
         i \in DOMAIN log.items /\ log.items[i] = h.seen.items[i]

(* A handler between two turns has the last one done, or a resume item to take. *)
BetweenTurns == h.pc \in {"queueing", "kick", "starting"} \cup Looping => MayBegin(log)
TurnBegun ==
  /\ h.pc \in InTurn => log.started # <<>>
  /\ h.pc = "steer" => h.boundary < MaxBoundary

HandlerInv ==
  /\ HandlerRuns
  /\ NothingSeen
  /\ FirstRun
  /\ TurnsAsRead
  /\ BetweenTurns
  /\ TurnBegun

IInv ==
  /\ TypeOK
  /\ GoodLog(log)
  /\ NothingLeftBehind
  /\ HandlerInv

LEMMA Initially == Init => IInv
<1> SUFFICES ASSUME Init PROVE IInv
  OBVIOUS
<1>1. /\ <<>> \in Seq(Kind) /\ <<>> \in Seq(Nat)
      /\ DOMAIN (<<>>) = {}
  BY EmptySeq, LenProperties
<1>2. LogOK(NoRecords)
  BY <1>1 DEF NoRecords, LogOK, Log, LogStatus
<1>3. NoHandler \in Handler /\ NoHandler.seen = NoRecords
  BY <1>2, InboxAssumption DEF NoHandler, Handler, LogOK, LogStatus
<1>4. TypeOK
  BY <1>2, <1>3, InboxAssumption DEF Init, TypeOK, LogStatus
<1>5. GoodLog(log)
  BY <1>1, <1>2 DEF Init, GoodLog, OlderAreConsumed, InOrder, ResumeFirst, NoRecords
<1>6. NothingLeftBehind /\ HandlerInv
  BY <1>1 DEF Init, NothingLeftBehind, HandlerInv, HandlerRuns, NothingSeen, FirstRun,
              TurnsAsRead, BetweenTurns, TurnBegun, NoHandler, NoRecords,
              Starting, Resuming, Looping, InTurn
<1> QED
  BY <1>4, <1>5, <1>6 DEF IInv

----------------------------------------------------------------------------
(* Users: an item more, or a job more. *)

LEMMA PostPreserves ==
  ASSUME IInv, NEW kind \in {"follow_up", "steer"}, Post(kind)
  PROVE  IInv'
<1>1. /\ log' = WithItem(log, kind) /\ exec' = exec /\ h' = h /\ exec.status = "running"
      /\ bound' = [bound EXCEPT !.posts = @ + 1] /\ bound.posts < MaxPosts
  BY DEF Post
<1>2. GoodLog(log) /\ kind \in Kind /\ LogOK(log) /\ log \in Log
  BY DEF IInv, GoodLog, LogOK, Kind
<1>3. /\ GoodLog(log') /\ log'.started = log.started /\ log'.done = log.done
      /\ log'.consumed = log.consumed /\ log'.status = log.status
      /\ \A i \in DOMAIN log.items : i \in DOMAIN log'.items /\ log'.items[i] = log.items[i]
  BY <1>1, <1>2, ItemWrite
<1>4. TypeOK'
  BY <1>1, <1>3, InboxAssumption DEF IInv, TypeOK, GoodLog
<1>5. MayBegin(log) => MayBegin(log')
  BY <1>3 DEF MayBegin, LastDone, Pending
<1>6. NothingLeftBehind'
  BY <1>1 DEF NothingLeftBehind
<1>7. HandlerInv'
  BY <1>1, <1>3, <1>5 DEF IInv, HandlerInv, HandlerRuns, NothingSeen, FirstRun,
              TurnsAsRead, BetweenTurns, TurnBegun
<1> QED
  BY <1>3, <1>4, <1>6, <1>7 DEF IInv

LEMMA ResumePreserves ==
  ASSUME IInv, Resume
  PROVE  IInv'
<1>1. /\ log' = log /\ h' = h /\ exec.status \in {"paused", "interrupted"}
      /\ exec' = [status |-> "queued", command |-> "resume"]
      /\ bound' = [bound EXCEPT !.resumes = @ + 1] /\ bound.resumes < MaxResumes
  BY DEF Resume
<1>2. TypeOK'
  BY <1>1, InboxAssumption DEF IInv, TypeOK, LogStatus
<1>3. h.pc = "none"
  BY <1>1 DEF IInv, HandlerInv, HandlerRuns
<1>4. HandlerInv'
  BY <1>1, <1>3 DEF IInv, HandlerInv, HandlerRuns, NothingSeen, FirstRun,
              TurnsAsRead, BetweenTurns, TurnBegun, Starting, Resuming, Looping, InTurn
<1> QED
  BY <1>1, <1>2, <1>4 DEF IInv, NothingLeftBehind

LEMMA NoHandlerIsTyped == NoHandler \in Handler /\ LogOK(NoHandler.seen)
<1>1. /\ <<>> \in Seq(Kind) /\ <<>> \in Seq(Nat) /\ DOMAIN (<<>>) = {}
  BY EmptySeq, LenProperties
<1>2. LogOK(NoRecords)
  BY <1>1 DEF NoRecords, LogOK, Log, LogStatus
<1> QED
  BY <1>2, InboxAssumption DEF NoHandler, Handler, LogOK, LogStatus

(* Without a handler little is left to show. *)
LEMMA HandlerGone ==
  ASSUME h' = NoHandler, exec'.command = "start" /\ log'.status = "queued" => log'.started = <<>>
  PROVE  HandlerInv'
BY DEF HandlerInv, HandlerRuns, NothingSeen, FirstRun, TurnsAsRead, BetweenTurns, TurnBegun,
       NoHandler, Starting, Resuming, Looping, InTurn

(* A record of another status keeps everything else. *)
LEMMA StatusRecord ==
  ASSUME IInv, NEW s \in LogStatus, log' = WithStatus(log, s)
  PROVE  /\ GoodLog(log') /\ LogOK(log') /\ log'.status = s
         /\ log'.items = log.items /\ log'.consumed = log.consumed
         /\ log'.started = log.started /\ log'.done = log.done
         /\ MayBegin(log') = MayBegin(log)
         /\ \A kinds : Pending(log', kinds) = Pending(log, kinds)
<1>1. GoodLog(log) /\ log \in Log
  BY DEF IInv, GoodLog, LogOK
<1>2. /\ GoodLog(log') /\ LastDone(log') = LastDone(log)
      /\ \A kinds : Pending(log', kinds) = Pending(log, kinds)
  BY <1>1, StatusWrite
<1>3. /\ log'.items = log.items /\ log'.consumed = log.consumed /\ log'.status = s
      /\ log'.started = log.started /\ log'.done = log.done
  BY <1>1 DEF WithStatus, Log
<1>4. MayBegin(log') = MayBegin(log)
  BY <1>2 DEF MayBegin
<1> QED
  BY <1>2, <1>3, <1>4 DEF GoodLog

LEMMA ClaimPreserves ==
  ASSUME IInv, Claim
  PROVE  IInv'
<1>1. /\ h.pc = "none" /\ bound' = bound /\ log' = WithStatus(log, Recovered)
      /\ exec.status \in {"queued", "running"}
  BY DEF Claim, At
<1>2. Recovered \in LogStatus /\ (Recovered = "queued" => log.status = "queued")
  BY DEF Recovered, IInv, TypeOK, LogOK, Log, LogStatus
<1>3. /\ GoodLog(log') /\ LogOK(log') /\ log'.status = Recovered /\ log'.started = log.started
  BY <1>1, <1>2, StatusRecord
<1>4. exec.command = "start" /\ log'.status = "queued" => log'.started = <<>>
  BY <1>2, <1>3 DEF IInv, HandlerInv, FirstRun
<1>5. exec \in [status: LogStatus, command: {"start", "resume"}]
  BY DEF IInv, TypeOK
<1>6. ASSUME NEW s \in {"interrupted", "failed"}, exec' = [exec EXCEPT !.status = s], h' = h
      PROVE  IInv'
  <2>1. TypeOK'
    BY <1>1, <1>3, <1>6 DEF IInv, TypeOK, LogStatus
  <2>2. HandlerInv'
    BY <1>1, <1>4, <1>5, <1>6 DEF IInv, HandlerInv, HandlerRuns, NothingSeen, FirstRun,
              TurnsAsRead, BetweenTurns, TurnBegun, Starting, Resuming, Looping, InTurn
  <2> QED
    BY <2>1, <2>2, <1>3, <1>5, <1>6 DEF IInv, NothingLeftBehind
<1>7. ASSUME (Recovered = "queued") = (exec.command = "start"),
             exec' = [exec EXCEPT !.status = "running"],
             h' = [NoHandler EXCEPT !.pc = "opened", !.st = Recovered]
      PROVE  IInv'
  <2>1. /\ h' \in Handler /\ h'.seen = NoHandler.seen /\ h'.pc = "opened"
    BY <1>2, <1>7, NoHandlerIsTyped DEF Handler
  <2>2. TypeOK'
    BY <1>1, <1>3, <1>5, <1>7, <2>1, NoHandlerIsTyped DEF IInv, TypeOK, LogStatus
  <2>3. HandlerInv'
    BY <1>2, <1>3, <1>4, <1>5, <1>7, <2>1
       DEF HandlerInv, HandlerRuns, NothingSeen, FirstRun,
           TurnsAsRead, BetweenTurns, TurnBegun, Starting, Resuming, Looping, InTurn
  <2> QED
    BY <2>2, <2>3, <1>3, <1>5, <1>7 DEF IInv, NothingLeftBehind
<1> QED
  BY <1>6, <1>7 DEF Claim
----------------------------------------------------------------------------
(* A handler's step keeps the Execution running; what is left to show is about the *)
(* program point it reaches and what it has read.                                  *)
LEMMA HandlerMoves ==
  ASSUME IInv, exec' = exec, bound' = bound, h.pc # "none", h'.pc # "none",
         h' \in Handler, LogOK(h'.seen), GoodLog(log'),
         NothingSeen', FirstRun', TurnsAsRead', BetweenTurns', TurnBegun'
  PROVE  IInv'
<1>1. TypeOK'
  BY DEF IInv, TypeOK, GoodLog
<1>2. exec.status = "running"
  BY DEF IInv, HandlerInv, HandlerRuns
<1> QED
  BY <1>1, <1>2 DEF IInv, HandlerInv, HandlerRuns, NothingLeftBehind

LEMMA Facts ==
  ASSUME IInv
  PROVE  /\ h \in Handler /\ LogOK(h.seen) /\ GoodLog(log) /\ LogOK(log) /\ log \in Log
         /\ exec \in [status: LogStatus, command: {"start", "resume"}]
BY DEF IInv, TypeOK, GoodLog, LogOK

LEMMA StartPreserves == ASSUME IInv, Start PROVE IInv'
<1>1. /\ h' = [h EXCEPT !.pc = "first", !.seen = log] /\ h.pc = "opened"
      /\ exec.command = "start" /\ exec' = exec /\ log' = log /\ bound' = bound
  BY DEF Start, At, Read
<1>2. h' \in Handler /\ h'.pc = "first" /\ h'.seen = log
  BY <1>1, Facts DEF Handler, LogOK
<1>3. NothingSeen' /\ FirstRun' /\ TurnsAsRead' /\ BetweenTurns' /\ TurnBegun'
  BY <1>1, <1>2 DEF IInv, HandlerInv, NothingSeen, FirstRun,
              TurnsAsRead, BetweenTurns, TurnBegun, Starting, Resuming, Looping, InTurn
<1> QED
  BY <1>1, <1>2, <1>3, Facts, HandlerMoves

(* Nothing has a turn, so one may begin. *)
LEMMA NoTurnMayBegin == ASSUME NEW l, l.started = <<>> PROVE MayBegin(l)
BY DEF MayBegin, LastDone

LEMMA EnqueueInitialPreserves == ASSUME IInv, EnqueueInitial PROVE IInv'
<1>1. h.pc = "first" /\ exec' = exec /\ bound' = bound
  BY DEF EnqueueInitial, At
<1> USE DEF Starting, Resuming, Looping, InTurn
<1>2. ASSUME exec.command = "start", log'.started = log.started, log'.status = log.status,
             GoodLog(log'), h' = [h EXCEPT !.pc = "kick"]
      PROVE  IInv'
  <2>1. h' \in Handler /\ h'.pc = "kick" /\ h'.seen = h.seen
    BY <1>2, Facts DEF Handler
  <2>2. log'.started = <<>>
    BY <1>1, <1>2 DEF IInv, HandlerInv, FirstRun
  <2>3. MayBegin(log')
    BY <2>2, NoTurnMayBegin
  <2>4. NothingSeen' /\ FirstRun' /\ TurnsAsRead' /\ BetweenTurns' /\ TurnBegun'
    BY <1>1, <1>2, <2>1, <2>2, <2>3
       DEF NothingSeen, FirstRun, TurnsAsRead, BetweenTurns, TurnBegun
  <2> QED
    BY <1>1, <1>2, <2>1, <2>4, Facts, HandlerMoves
<1>3. ASSUME log' = log, h' = [h EXCEPT !.pc = "first", !.seen = log]
      PROVE  IInv'
  <2>1. h' \in Handler /\ h'.pc = "first" /\ h'.seen = log
    BY <1>3, Facts DEF Handler, LogOK
  <2>2. NothingSeen' /\ FirstRun' /\ TurnsAsRead' /\ BetweenTurns' /\ TurnBegun'
    BY <1>1, <1>3, <2>1
       DEF IInv, HandlerInv, NothingSeen, FirstRun, TurnsAsRead, BetweenTurns, TurnBegun
  <2> QED
    BY <1>1, <1>3, <2>1, <2>2, Facts, HandlerMoves
<1>4. exec.command = "start"
  BY <1>1 DEF IInv, HandlerInv, FirstRun
<1>5. CASE log' = log /\ Goto("kick")
  BY <1>2, <1>4, <1>5, Facts DEF Goto
<1>6. CASE log' = WithItem(log, "initial") /\ Goto("kick")
  <2>1. GoodLog(log') /\ log'.started = log.started /\ log'.status = log.status
    BY <1>6, Facts, ItemWrite DEF Kind
  <2> QED
    BY <2>1, <1>2, <1>4, <1>6 DEF Goto
<1>7. CASE Retry("first")
  BY <1>3, <1>7 DEF Retry, Read
<1> QED
  BY <1>5, <1>6, <1>7 DEF EnqueueInitial

LEMMA ReadForResumePreserves == ASSUME IInv, ReadForResume PROVE IInv'
<1>1. /\ h' = [h EXCEPT !.pc = "resume", !.seen = log] /\ h.pc = "opened"
      /\ exec.command = "resume" /\ exec' = exec /\ log' = log /\ bound' = bound
  BY DEF ReadForResume, At, Read
<1>2. h' \in Handler /\ h'.pc = "resume" /\ h'.seen = log
  BY <1>1, Facts DEF Handler, LogOK
<1>3. NothingSeen' /\ FirstRun' /\ TurnsAsRead' /\ BetweenTurns' /\ TurnBegun'
  BY <1>1, <1>2 DEF IInv, HandlerInv, NothingSeen, FirstRun,
              TurnsAsRead, BetweenTurns, TurnBegun, Starting, Resuming, Looping, InTurn
<1> QED
  BY <1>1, <1>2, <1>3, Facts, HandlerMoves

(* Without a resume item to take, a resume writes one unless the last turn is done. *)
LEMMA ResumeMayBegin ==
  ASSUME IInv, h.pc = "resume", ~NeedsResumeItem(h.seen)
  PROVE  MayBegin(log)
<1>1. LogOK(h.seen) /\ h.seen \in Log
  BY Facts DEF LogOK
<1>2. /\ log.started = h.seen.started /\ log.done = h.seen.done
      /\ log.consumed = h.seen.consumed
      /\ \A i \in DOMAIN h.seen.items :
           i \in DOMAIN log.items /\ log.items[i] = h.seen.items[i]
  BY DEF IInv, HandlerInv, TurnsAsRead
<1>3. CASE Pending(h.seen, {"resume"}) # {}
  BY <1>2, <1>3 DEF Pending, MayBegin
<1>4. CASE ~IncompleteTurn(h.seen)
  <2>1. h.seen.started # <<>> => Len(h.seen.started) \in DOMAIN h.seen.started
    BY <1>1, LogFields, EmptySeq
  <2> QED
    BY <2>1, <1>2, <1>4 DEF IncompleteTurn, MayBegin, LastDone
<1> QED
  BY <1>3, <1>4 DEF NeedsResumeItem

LEMMA EnqueueResumePreserves == ASSUME IInv, EnqueueResume PROVE IInv'
<1>1. /\ h' = [h EXCEPT !.pc = "queueing", !.st = "queued"] /\ h.pc = "resume"
      /\ exec' = exec /\ bound' = bound
      /\ log' = IF NeedsResumeItem(h.seen) THEN WithItem(log, "resume") ELSE log
  BY DEF EnqueueResume, At
<1>2. h' \in Handler /\ h'.pc = "queueing" /\ h'.seen = h.seen
  BY <1>1, Facts DEF Handler, LogStatus
<1>3. GoodLog(log') /\ log'.started = log.started /\ log'.status = log.status /\ MayBegin(log')
  <2>1. CASE NeedsResumeItem(h.seen)
    <3>1. log' = WithItem(log, "resume")
      BY <1>1, <2>1
    <3> QED
      BY <3>1, Facts, ItemWrite DEF Kind, MayBegin
  <2>2. CASE ~NeedsResumeItem(h.seen)
    BY <1>1, <2>2, Facts, ResumeMayBegin
  <2> QED
    BY <2>1, <2>2
<1>4. exec.command = "resume"
  BY <1>1 DEF IInv, HandlerInv, FirstRun, Resuming
<1>5. NothingSeen' /\ FirstRun' /\ TurnsAsRead' /\ BetweenTurns' /\ TurnBegun'
  BY <1>1, <1>2, <1>3, <1>4 DEF NothingSeen, FirstRun,
              TurnsAsRead, BetweenTurns, TurnBegun, Starting, Resuming, Looping, InTurn
<1> QED
  BY <1>1, <1>2, <1>3, <1>5, Facts, HandlerMoves

(* Steps of the handler that write a status, or nothing, and do not read. *)
LEMMA WriteQueuedPreserves == ASSUME IInv, WriteQueued PROVE IInv'
<1>1. /\ h' = [h EXCEPT !.pc = "kick"] /\ h.pc = "queueing"
      /\ exec' = exec /\ bound' = bound /\ log' = WithStatus(log, "queued")
  BY DEF WriteQueued, At, Goto
<1>2. h' \in Handler /\ h'.pc = "kick" /\ h'.seen = h.seen
  BY <1>1, Facts DEF Handler
<1>3. GoodLog(log') /\ MayBegin(log') = MayBegin(log)
  BY <1>1, StatusRecord DEF LogStatus
<1>4. exec.command = "resume" /\ MayBegin(log)
  BY <1>1 DEF IInv, HandlerInv, FirstRun, BetweenTurns, Resuming
<1>5. NothingSeen' /\ FirstRun' /\ TurnsAsRead' /\ BetweenTurns' /\ TurnBegun'
  BY <1>1, <1>2, <1>3, <1>4 DEF NothingSeen, FirstRun,
              TurnsAsRead, BetweenTurns, TurnBegun, Starting, Resuming, Looping, InTurn
<1> QED
  BY <1>1, <1>2, <1>3, <1>5, Facts, HandlerMoves

LEMMA KickPreserves == ASSUME IInv, Kick PROVE IInv'
<1>1. /\ h' = [h EXCEPT !.pc = "starting", !.st = "running"] /\ h.pc = "kick"
      /\ exec' = exec /\ bound' = bound /\ log' = log
  BY DEF Kick, At
<1>2. h' \in Handler /\ h'.pc = "starting" /\ h'.seen = h.seen
  BY <1>1, Facts DEF Handler, LogStatus
<1>3. NothingSeen' /\ FirstRun' /\ TurnsAsRead' /\ BetweenTurns' /\ TurnBegun'
  BY <1>1, <1>2 DEF IInv, HandlerInv, NothingSeen, FirstRun,
              TurnsAsRead, BetweenTurns, TurnBegun, Starting, Resuming, Looping, InTurn
<1> QED
  BY <1>1, <1>2, <1>3, Facts, HandlerMoves

LEMMA WriteRunningPreserves == ASSUME IInv, WriteRunning PROVE IInv'
<1>1. /\ h' = [h EXCEPT !.pc = "loop"] /\ h.pc = "starting"
      /\ exec' = exec /\ bound' = bound /\ log' = WithStatus(log, "running")
  BY DEF WriteRunning, At, Goto
<1>2. h' \in Handler /\ h'.pc = "loop" /\ h'.seen = h.seen
  BY <1>1, Facts DEF Handler
<1>3. GoodLog(log') /\ MayBegin(log') = MayBegin(log) /\ log'.status = "running"
  BY <1>1, StatusRecord DEF LogStatus
<1>4. MayBegin(log)
  BY <1>1 DEF IInv, HandlerInv, BetweenTurns
<1>5. NothingSeen' /\ FirstRun' /\ TurnsAsRead' /\ BetweenTurns' /\ TurnBegun'
  BY <1>1, <1>2, <1>3, <1>4 DEF NothingSeen, FirstRun,
              TurnsAsRead, BetweenTurns, TurnBegun, Starting, Resuming, Looping, InTurn
<1> QED
  BY <1>1, <1>2, <1>3, <1>5, Facts, HandlerMoves

----------------------------------------------------------------------------
(* The drain loop *)

(* A move to or within the loop that reads or not and writes nothing. *)
LEMMA LoopMoves ==
  ASSUME IInv, h.pc \in Looping, exec' = exec, bound' = bound, log' = log,
         NEW pc \in Looping,
         h' = [h EXCEPT !.pc = pc] \/ h' = [h EXCEPT !.pc = pc, !.seen = log],
         pc = "finish" => Turns(h'.seen) = {}
  PROVE  IInv'
<1>1. h' \in Handler /\ h'.pc = pc /\ LogOK(h'.seen)
  BY Facts DEF Handler, LogOK, Looping
<1>2. NothingSeen' /\ FirstRun' /\ TurnsAsRead' /\ BetweenTurns' /\ TurnBegun'
  BY <1>1 DEF IInv, HandlerInv, NothingSeen, FirstRun,
              TurnsAsRead, BetweenTurns, TurnBegun, Starting, Resuming, Looping, InTurn
<1>3. h.pc # "none" /\ h'.pc # "none"
  BY <1>1 DEF Looping
<1> QED
  BY <1>1, <1>2, <1>3, Facts, HandlerMoves

LEMMA LoopPreserves == ASSUME IInv, Loop PROVE IInv'
BY LoopMoves DEF Loop, At, Read, Looping

LEMMA BeginTurnPreserves == ASSUME IInv, BeginTurn PROVE IInv'
<1>1. h.pc = "begin" /\ exec' = exec /\ bound' = bound
  BY DEF BeginTurn, At
<1>2. CASE log' = log /\ Goto("empty")
  BY <1>1, <1>2, LoopMoves DEF Goto, Looping
<1>3. CASE Retry("begin")
  BY <1>1, <1>3, LoopMoves DEF Retry, Read, Looping
<1>4. ASSUME Turns(h.seen) # {}, Unchanged(h.seen), log' = WithTurn(log, NextItem(h.seen)),
             h' = [h EXCEPT !.pc = "boundary", !.boundary = 0]
      PROVE  IInv'
  <2>1. h' \in Handler /\ h'.pc = "boundary" /\ h'.seen = h.seen
    <3>1. 0 \in 0 .. MaxBoundary
      BY InboxAssumption
    <3> QED
      BY <3>1, <1>4, Facts DEF Handler
  <2>2. h.seen = log /\ MayBegin(log) /\ log.status # "queued"
    BY <1>1, <1>4 DEF Unchanged, IInv, HandlerInv, BetweenTurns, FirstRun, Looping
  <2>3. GoodLog(log') /\ log'.started # <<>> /\ log'.status = log.status
    BY <2>2, <1>4, Facts, TurnWrite
  <2>4. NothingSeen' /\ FirstRun' /\ TurnsAsRead' /\ BetweenTurns' /\ TurnBegun'
    BY <1>1, <2>1, <2>2, <2>3 DEF NothingSeen, FirstRun,
              TurnsAsRead, BetweenTurns, TurnBegun, Starting, Resuming, Looping, InTurn
  <2> QED
    BY <1>1, <2>1, <2>3, <2>4, Facts, HandlerMoves
<1> QED
  BY <1>2, <1>3, <1>4 DEF BeginTurn

LEMMA CheckEmptyPreserves == ASSUME IInv, CheckEmpty PROVE IInv'
<1>1. h.pc = "empty" /\ exec' = exec /\ bound' = bound /\ log' = log
  BY DEF CheckEmpty, At
<1>2. CASE Turns(log) = {} /\ Read("finish")
  <2>1. h' = [h EXCEPT !.pc = "finish", !.seen = log] /\ h'.seen = log
    BY <1>2, Facts DEF Read, Handler
  <2> QED
    BY <1>1, <1>2, <2>1, LoopMoves DEF Looping
<1>3. CASE Goto("loop")
  BY <1>1, <1>3, LoopMoves DEF Goto, Looping
<1> QED
  BY <1>2, <1>3 DEF CheckEmpty

(* The handler writes the status that ends its job. *)
LEMMA SettlePreserves ==
  ASSUME IInv, NEW s \in {"completed", "paused", "failed"}, Settle(s), bound' = bound,
         s = "completed" => Pending(log, Kind) = {}
  PROVE  IInv'
<1>1. /\ log' = WithStatus(log, s) /\ exec' = [exec EXCEPT !.status = s] /\ h' = NoHandler
      /\ s \in LogStatus
  BY DEF Settle, LogStatus
<1>2. /\ GoodLog(log') /\ LogOK(log') /\ log'.status = s
      /\ Pending(log', Kind) = Pending(log, Kind)
  BY <1>1, StatusRecord
<1>3. exec' \in [status: LogStatus, command: {"start", "resume"}] /\ exec'.status = s
  BY <1>1, Facts
<1>4. TypeOK'
  BY <1>1, <1>2, <1>3, NoHandlerIsTyped DEF IInv, TypeOK
<1>5. HandlerInv'
  BY <1>1, <1>2, HandlerGone
<1> QED
  BY <1>2, <1>3, <1>4, <1>5 DEF IInv, NothingLeftBehind

LEMMA FinishPreserves == ASSUME IInv, Finish PROVE IInv'
<1>1. h.pc = "finish" /\ bound' = bound
  BY DEF Finish, At
<1>2. CASE Goto("loop") /\ exec' = exec /\ log' = log
  BY <1>1, <1>2, LoopMoves DEF Goto, Looping
<1>3. ASSUME Unchanged(h.seen),
             Settle(IF Pending(h.seen, {"steer"}) # {} THEN "paused" ELSE "completed")
      PROVE  IInv'
  <2>1. h.seen = log /\ Turns(log) = {}
    BY <1>1, <1>3 DEF Unchanged, IInv, HandlerInv, NothingSeen
  <2>2. CASE Pending(log, {"steer"}) # {}
    BY <2>1, <2>2, <1>1, <1>3, SettlePreserves
  <2>3. CASE Pending(log, {"steer"}) = {}
    <3>1. Pending(log, Kind) = {}
      BY <2>1, <2>3 DEF Pending, Turns, UserInput, Kind
    <3> QED
      BY <2>1, <2>3, <3>1, <1>1, <1>3, SettlePreserves
  <2> QED
    BY <2>2, <2>3
<1> QED
  BY <1>2, <1>3 DEF Finish

----------------------------------------------------------------------------
(* A turn *)

(* A move within a turn, which may apply steers. *)
LEMMA TurnMoves ==
  ASSUME IInv, h.pc \in InTurn, exec' = exec, bound' = bound, GoodLog(log'),
         log'.started = log.started, log'.status # "queued",
         h' \in Handler, h'.pc \in InTurn, LogOK(h'.seen),
         h'.pc = "steer" => h'.boundary < MaxBoundary
  PROVE  IInv'
<1>1. NothingSeen' /\ FirstRun' /\ TurnsAsRead' /\ BetweenTurns' /\ TurnBegun'
  BY DEF IInv, HandlerInv, NothingSeen, FirstRun,
              TurnsAsRead, BetweenTurns, TurnBegun, Starting, Resuming, Looping, InTurn
<1>2. h.pc # "none" /\ h'.pc # "none"
  BY DEF InTurn
<1> QED
  BY <1>1, <1>2, HandlerMoves

LEMMA NotQueuedInTurn == ASSUME IInv, h.pc \in InTurn PROVE log.status # "queued"
BY DEF IInv, HandlerInv, FirstRun

LEMMA ReadSteersPreserves == ASSUME IInv, ReadSteers PROVE IInv'
<1>1. /\ h' = [h EXCEPT !.pc = "steer", !.seen = log] /\ h.pc = "boundary"
      /\ h.boundary < MaxBoundary
      /\ exec' = exec /\ bound' = bound /\ log' = log
  BY DEF ReadSteers, At
<1>2. h' \in Handler /\ h'.pc = "steer" /\ h'.seen = log /\ h'.boundary = h.boundary
  BY <1>1, Facts DEF Handler, LogOK
<1> QED
  BY <1>1, <1>2, Facts, NotQueuedInTurn, TurnMoves DEF InTurn

LEMMA ApplySteersPreserves == ASSUME IInv, ApplySteers PROVE IInv'
<1>1. h.pc = "steer" /\ exec' = exec /\ bound' = bound /\ h.pc \in InTurn
  BY DEF ApplySteers, At, InTurn
<1>2. log.status # "queued"
  BY <1>1, NotQueuedInTurn
<1>3. ASSUME Request, GoodLog(log'), log'.started = log.started, log'.status = log.status
      PROVE  IInv'
  <2>1. h'.pc = "model" /\ h'.seen = h.seen
    BY <1>3, Facts DEF Request, Handler
  <2>2. h' \in Handler
    <3>1. h.boundary \in 0 .. MaxBoundary /\ h.boundary < MaxBoundary
      BY <1>1, Facts DEF IInv, HandlerInv, TurnBegun, Handler
    <3>2. h.boundary + 1 \in 0 .. MaxBoundary
      BY <3>1, InboxAssumption
    <3> QED
      BY <3>2, <1>3, Facts DEF Request, Handler
  <2> QED
    BY <2>1, <2>2, <1>1, <1>2, <1>3, Facts, TurnMoves DEF InTurn
<1>4. CASE Request /\ log' = log
  BY <1>3, <1>4, Facts
<1>5. CASE Unchanged(h.seen) /\ log' = WithSteers(log, Pending(h.seen, {"steer"})) /\ Request
  <2>1. Pending(log, {"steer"}) \in SUBSET DOMAIN log.items /\ h.seen = log
    BY <1>5 DEF Pending, Unchanged
  <2>2. GoodLog(log') /\ log'.started = log.started /\ log'.status = log.status
    BY <2>1, <1>5, Facts, SteersWrite
  <2> QED
    BY <2>2, <1>3, <1>5
<1>6. CASE Retry("steer")
  <2>1. h' = [h EXCEPT !.pc = "steer", !.seen = log] /\ log' = log
    BY <1>6 DEF Retry, Read
  <2>2. /\ h' \in Handler /\ h'.pc = "steer" /\ h'.seen = log /\ h'.boundary = h.boundary
        /\ h.boundary < MaxBoundary
    BY <1>1, <2>1, Facts DEF Handler, LogOK, IInv, HandlerInv, TurnBegun
  <2> QED
    BY <2>1, <2>2, <1>1, <1>2, Facts, TurnMoves DEF InTurn
<1> QED
  BY <1>4, <1>5, <1>6 DEF ApplySteers

LEMMA AnswerPreserves == ASSUME IInv, Answer PROVE IInv'
<1>1. /\ h.pc = "model" /\ exec' = exec /\ bound' = bound /\ log' = log /\ h.pc \in InTurn
      /\ h' = [h EXCEPT !.pc = "boundary"] \/ h' = [h EXCEPT !.pc = "answered"]
  BY DEF Answer, At, Goto, InTurn
<1>2. h' \in Handler /\ h'.pc \in {"boundary", "answered"} /\ h'.seen = h.seen
  BY <1>1, Facts DEF Handler
<1> QED
  BY <1>1, <1>2, Facts, NotQueuedInTurn, TurnMoves DEF InTurn

LEMMA CompleteTurnPreserves == ASSUME IInv, CompleteTurn PROVE IInv'
<1>1. /\ h.pc = "answered" /\ exec' = exec /\ bound' = bound /\ h' = [h EXCEPT !.pc = "loop"]
      /\ log' = [log EXCEPT !.done = @ \cup {Len(log.started)}] /\ h.pc \in InTurn
  BY DEF CompleteTurn, At, Goto, InTurn
<1>2. log.started # <<>> /\ log.status # "queued"
  BY <1>1, NotQueuedInTurn DEF IInv, HandlerInv, TurnBegun
<1>3. GoodLog(log') /\ LastDone(log') /\ log'.status = log.status
  BY <1>1, <1>2, Facts, CompletionWrite
<1>4. h' \in Handler /\ h'.pc = "loop" /\ h'.seen = h.seen
  BY <1>1, Facts DEF Handler
<1>5. NothingSeen' /\ FirstRun' /\ TurnsAsRead' /\ BetweenTurns' /\ TurnBegun'
  BY <1>2, <1>3, <1>4 DEF NothingSeen, FirstRun, MayBegin,
              TurnsAsRead, BetweenTurns, TurnBegun, Starting, Resuming, Looping, InTurn
<1> QED
  BY <1>1, <1>3, <1>4, <1>5, Facts, HandlerMoves

LEMMA FailPreserves == ASSUME IInv, Fail PROVE IInv'
<1>1. bound' = bound /\ (Settle("failed") \/ Settle("paused"))
  BY DEF Fail
<1> QED
  BY <1>1, SettlePreserves

----------------------------------------------------------------------------
(* Stops and crashes *)

(* Nothing but the handler's status changes: what was said of its program point stays. *)
LEMMA StopPreserves == ASSUME IInv, Stop PROVE IInv'
<1>1. /\ h.pc # "none" /\ exec' = exec /\ log' = log
      /\ bound' = [bound EXCEPT !.stops = @ + 1] /\ bound.stops < MaxStops
      /\ h' = IF h.st = "interrupted" THEN [h EXCEPT !.stopped = TRUE]
              ELSE [h EXCEPT !.stopped = TRUE, !.st = "interrupted", !.owed = TRUE]
  BY DEF Stop, At
<1>2. h' \in Handler /\ h'.pc = h.pc /\ h'.seen = h.seen /\ h'.boundary = h.boundary
  <2>1. CASE h.st = "interrupted"
    <3>1. h' = [h EXCEPT !.stopped = TRUE]
      BY <1>1, <2>1
    <3> QED
      BY <3>1, Facts DEF Handler
  <2>2. CASE h.st # "interrupted"
    <3>1. h' = [h EXCEPT !.stopped = TRUE, !.st = "interrupted", !.owed = TRUE]
      BY <1>1, <2>2
    <3> QED
      BY <3>1, Facts DEF Handler, LogStatus
  <2> QED
    BY <2>1, <2>2
<1>3. TypeOK'
  BY <1>1, <1>2, InboxAssumption DEF IInv, TypeOK
<1>4. HandlerInv'
  BY <1>1, <1>2 DEF IInv, HandlerInv, HandlerRuns, NothingSeen, FirstRun,
              TurnsAsRead, BetweenTurns, TurnBegun
<1> QED
  BY <1>1, <1>3, <1>4 DEF IInv, NothingLeftBehind

LEMMA WriteInterruptedPreserves == ASSUME IInv, WriteInterrupted PROVE IInv'
<1>1. /\ h.owed /\ exec' = exec /\ bound' = bound /\ log' = WithStatus(log, "interrupted")
      /\ h' = [h EXCEPT !.owed = FALSE, !.pc = IF @ = "model" THEN "aborted" ELSE @]
  BY DEF WriteInterrupted
<1>2. h.pc # "none"
  BY <1>1 DEF IInv, HandlerInv, HandlerRuns
<1>3. /\ GoodLog(log') /\ log'.status = "interrupted" /\ MayBegin(log') = MayBegin(log)
      /\ log'.items = log.items /\ log'.consumed = log.consumed
      /\ log'.started = log.started /\ log'.done = log.done
  BY <1>1, StatusRecord DEF LogStatus
<1>4. /\ h' \in Handler /\ h'.seen = h.seen /\ h'.boundary = h.boundary
      /\ \/ h.pc = "model" /\ h'.pc = "aborted"
         \/ h.pc # "model" /\ h'.pc = h.pc
  <2>1. CASE h.pc = "model"
    <3>1. h' = [h EXCEPT !.owed = FALSE, !.pc = "aborted"]
      BY <1>1, <2>1
    <3> QED
      BY <2>1, <3>1, Facts DEF Handler
  <2>2. CASE h.pc # "model"
    <3>1. h' = [h EXCEPT !.owed = FALSE, !.pc = h.pc]
      BY <1>1, <2>2
    <3> QED
      BY <2>2, <3>1, Facts DEF Handler
  <2> QED
    BY <2>1, <2>2
<1>5. NothingSeen' /\ TurnsAsRead' /\ BetweenTurns' /\ TurnBegun'
  BY <1>3, <1>4 DEF IInv, HandlerInv, NothingSeen,
              TurnsAsRead, BetweenTurns, TurnBegun, Looping, InTurn
<1>6. FirstRun'
  BY <1>1, <1>3, <1>4 DEF IInv, HandlerInv, FirstRun, Starting, Resuming
<1> QED
  BY <1>1, <1>2, <1>3, <1>4, <1>5, <1>6, Facts, HandlerMoves

LEMMA InterruptJobPreserves == ASSUME IInv, InterruptJob PROVE IInv'
<1>1. /\ h' = NoHandler /\ exec' = [exec EXCEPT !.status = "interrupted"]
      /\ log' = log /\ bound' = bound
  BY DEF InterruptJob
<1>2. exec' \in [status: LogStatus, command: {"start", "resume"}]
      /\ exec'.status = "interrupted" /\ exec'.command = exec.command
  BY <1>1, Facts DEF LogStatus
<1>3. TypeOK'
  BY <1>1, <1>2, NoHandlerIsTyped DEF IInv, TypeOK
<1>4. HandlerInv'
  <2>1. exec'.command = "start" /\ log'.status = "queued" => log'.started = <<>>
    BY <1>1, <1>2 DEF IInv, HandlerInv, FirstRun
  <2> QED
    BY <1>1, <2>1, HandlerGone
<1> QED
  BY <1>1, <1>2, <1>3, <1>4 DEF IInv, NothingLeftBehind

LEMMA CrashPreserves == ASSUME IInv, Crash PROVE IInv'
<1>1. /\ h' = NoHandler /\ exec' = exec /\ log' = log /\ bound.crashes < MaxCrashes
      /\ bound' = [bound EXCEPT !.crashes = @ + 1]
  BY DEF Crash
<1>2. TypeOK'
  BY <1>1, InboxAssumption, NoHandlerIsTyped DEF IInv, TypeOK
<1>3. HandlerInv'
  <2>1. exec'.command = "start" /\ log'.status = "queued" => log'.started = <<>>
    BY <1>1 DEF IInv, HandlerInv, FirstRun
  <2> QED
    BY <1>1, <2>1, HandlerGone
<1> QED
  BY <1>1, <1>2, <1>3 DEF IInv, NothingLeftBehind

----------------------------------------------------------------------------

LEMMA Inductive == IInv /\ [Next]_vars => IInv'
<1> SUFFICES ASSUME IInv, [Next]_vars PROVE IInv'
  OBVIOUS
<1>1. CASE \E kind \in {"follow_up", "steer"} : Post(kind)
  BY <1>1, PostPreserves
<1>2. CASE Resume \/ Claim \/ Stop \/ Crash
  BY <1>2, ResumePreserves, ClaimPreserves, StopPreserves, CrashPreserves
<1>3. CASE Work
  BY <1>3, StartPreserves, EnqueueInitialPreserves, ReadForResumePreserves,
     EnqueueResumePreserves, WriteQueuedPreserves, KickPreserves, WriteRunningPreserves,
     LoopPreserves, BeginTurnPreserves, CheckEmptyPreserves, FinishPreserves,
     ReadSteersPreserves, ApplySteersPreserves, AnswerPreserves, CompleteTurnPreserves,
     FailPreserves, WriteInterruptedPreserves, InterruptJobPreserves DEF Work
<1>4. CASE UNCHANGED vars
  BY <1>4 DEF vars, IInv, TypeOK, NothingLeftBehind, HandlerInv, HandlerRuns, NothingSeen,
              FirstRun, TurnsAsRead, BetweenTurns, TurnBegun
<1> QED
  BY <1>1, <1>2, <1>3, <1>4 DEF Next

LEMMA Invariance == Spec => []IInv
BY Initially, Inductive, PTL DEF Spec

(* Statuses, items, turns and the handler stay well typed; turns are of items that were *)
(* accepted and consumed, and only turns that began are done (readRecords, pendingItems). *)
THEOREM TypeCorrect == Spec => []TypeOK
<1>1. IInv => TypeOK
  BY DEF IInv
<1> QED
  BY <1>1, Invariance, PTL

(* However posts, stops, crashes and resumes fall between the last read and the commit of *)
(* a completion, a completed Execution has no item without a turn (completeIfEmpty).      *)
THEOREM NothingIsLeftBehind == Spec => []NothingLeftBehind
<1>1. IInv => NothingLeftBehind
  BY DEF IInv
<1> QED
  BY <1>1, Invariance, PTL

(* Any number of messages, in any number of jobs, get their turns in the order in which *)
(* they were accepted, and none gets two (beginTurn, pendingItems).                     *)
THEOREM FollowUpsBeginInOrder == Spec => []FollowUpsInOrder
<1>1. IInv => FollowUpsInOrder
  BY DEF IInv, GoodLog, InOrder, FollowUpsInOrder
<1> QED
  BY <1>1, Invariance, PTL

(* Whatever cuts a turn off, the next turn to begin is that of a resume item: no message *)
(* is answered from a history that ends in half a turn (resume, hasIncompleteTurn).      *)
THEOREM CutOffTurnsResumeFirst == Spec => []ResumeBeforeNext
<1>1. IInv => ResumeBeforeNext
  BY DEF IInv, GoodLog, ResumeFirst, ResumeBeforeNext
<1> QED
  BY <1>1, Invariance, PTL
=============================================================================

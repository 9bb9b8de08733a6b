----------------------------- MODULE ModelBudget -----------------------------
(***************************************************************************)
(* The token budget of one Execution, kept in its runtime records.  A      *)
(* caller reads the records, decides, and commits; the commit is refused   *)
(* when anything was appended since the read, and the caller reads again.  *)
(* A model request is reserved at its maximum before it is sent and is     *)
(* settled at what the provider bills; a request whose answer is lost      *)
(* stays reserved for good.  Budgets of child agents are taken from the    *)
(* same allowance.                                                         *)
(*                                                                         *)
(* One amount stands for tokens and cost, which are checked alike.  The    *)
(* sums of reduceModelBudget are kept as running totals.                   *)
(***************************************************************************)
EXTENDS Integers, FiniteSets

CONSTANTS
  Caller,      \* calls under way at the same time: model requests and child agents
  Limits,      \* limits a run may be configured with (authority.budget.maxTokens)
  Quotes,      \* what requests may reserve, [input, output]
  Children,    \* budgets of child agents
  MaxUse,      \* bound: input or output a provider bills
  MaxRecords   \* bound on the records

ASSUME BudgetAssumption ==
  /\ Limits \subseteq Nat /\ Children \subseteq Nat
  /\ Quotes \subseteq [input: Nat, output: Nat \ {0}]
  /\ MaxUse \in Nat /\ MaxRecords \in Nat

VARIABLES
  records,   \* what the runtime records say of the budget
  calls      \* what each caller is at

budgetVars == <<records, calls>>

NotFrozen == -1
Usage == [input: 0 .. MaxUse, output: 0 .. MaxUse]
NoAmount == [input |-> 0, output |-> 0]

(* The limit frozen by the first reservation, what is allocated to requests and  *)
(* children, the requests without a settlement, whether a bill exceeded its      *)
(* reservation, and the sequence of the last record.                             *)
Records == [frozen: Nat \cup {NotFrozen}, allocated: Nat,
            open: SUBSET [id: Nat, input: Nat, output: Nat], overrun: BOOLEAN, last: Nat]

Call == [pc: {"idle", "reserve", "reserving", "sent", "settle", "settling", "spawn", "spawning"},
         limit: Nat, amount: [input: Nat, output: Nat],
         used: Usage, id: Nat, seen: Records]

BudgetTypeOK ==
  /\ records \in Records
  /\ calls \in [Caller -> Call]

NothingReserved ==
  [frozen |-> NotFrozen, allocated |-> 0, open |-> {}, overrun |-> FALSE, last |-> 0]

IdleCall == [pc |-> "idle", limit |-> 0, amount |-> NoAmount, used |-> NoAmount,
             id |-> 0, seen |-> NothingReserved]

BudgetInit ==
  /\ records = NothingReserved
  /\ calls = [c \in Caller |-> IdleCall]

----------------------------------------------------------------------------
(* What the records allow *)

Total(a) == a.input + a.output

(* The configured limit, or the frozen one when that is lower. *)
Effective(r, limit) == IF r.frozen # NotFrozen /\ r.frozen < limit THEN r.frozen ELSE limit

Fits(r, limit, amount) == r.allocated + amount <= Effective(r, limit)

(* Mutant: reserve beside an open request. *)
MayReserveBeside(r, c) == ~r.overrun /\ Fits(r, c.limit, Total(c.amount))
MayReserve(r, c) ==
  /\ ~r.overrun
  /\ r.open = {}
  /\ Fits(r, c.limit, Total(c.amount))

MaySpawn(r, c) == ~r.overrun /\ Fits(r, c.limit, Total(c.amount))

----------------------------------------------------------------------------
(* Reading and committing *)

Set(c, call) == calls' = [calls EXCEPT ![c] = call]
CallAt(c, pc) == calls[c].pc = pc
Return(c) == Set(c, IdleCall)
HasRoom == records.last < MaxRecords

(* Mutant: commit whatever was appended since the read. *)
CurrentOrNot(c) == TRUE
Current(c) == records.last = calls[c].seen.last

ReadAt(c, from, to) ==
  /\ CallAt(c, from)
  /\ Set(c, [calls[c] EXCEPT !.pc = to, !.seen = records])
  /\ UNCHANGED records

(* The commit was refused: read again. *)
Again(c, from, to) ==
  /\ CallAt(c, from) /\ ~Current(c)
  /\ Set(c, [calls[c] EXCEPT !.pc = to])
  /\ UNCHANGED records

(* The decision on what was read throws. *)
Refuse(c, from) ==
  /\ CallAt(c, from)
  /\ Return(c)
  /\ UNCHANGED records

----------------------------------------------------------------------------
(* A model request *)

Quote(c) ==
  /\ CallAt(c, "idle")
  /\ \E q \in Quotes, l \in Limits :
       Set(c, [calls[c] EXCEPT !.pc = "reserve", !.amount = q, !.limit = l])
  /\ UNCHANGED records

(* The first reservation also writes the limit it was decided by. *)
Freeze(frozen, limit) == IF frozen = NotFrozen THEN limit ELSE frozen

(* A reservation counts from the moment it is recorded. *)
Allocated(r, amount) == r.allocated + amount

Reserve(c) ==
  /\ CallAt(c, "reserving") /\ Current(c) /\ MayReserve(calls[c].seen, calls[c])
  /\ HasRoom
  /\ LET id == records.last + 1
         call == calls[c]
     IN  /\ records' = [records EXCEPT
                          !.frozen = Freeze(@, call.limit),
                          !.allocated = Allocated(records, Total(call.amount)),
                          !.open = @ \cup {[id |-> id, input |-> call.amount.input,
                                            output |-> call.amount.output]},
                          !.last = id]
         /\ Set(c, [call EXCEPT !.pc = "sent", !.id = id])

(* The provider answers with its bill, or the answer is lost or has no bill. *)
Bill(c) ==
  /\ CallAt(c, "sent")
  /\ \E u \in Usage : Set(c, [calls[c] EXCEPT !.pc = "settle", !.used = u])
  /\ UNCHANGED records

Unknown(c) == Refuse(c, "sent")

Own(c) == {o \in records.open : o.id = calls[c].id}

Exceeds(u, o) == u.input > o.input \/ u.output > o.output

SettleRequest(c) ==
  /\ CallAt(c, "settling") /\ Current(c)
  /\ HasRoom
  /\ \E o \in Own(c) :
       records' = [records EXCEPT
                     !.allocated = @ - Total(o) + Total(calls[c].used),
                     !.open = @ \ {o},
                     !.overrun = @ \/ Exceeds(calls[c].used, o),
                     !.last = @ + 1]
  /\ Return(c)

----------------------------------------------------------------------------
(* A child agent *)

RequestChild(c) ==
  /\ CallAt(c, "idle")
  /\ \E b \in Children, l \in Limits :
       Set(c, [calls[c] EXCEPT !.pc = "spawn", !.amount = [input |-> b, output |-> 0], !.limit = l])
  /\ UNCHANGED records

Spawn(c) ==
  /\ CallAt(c, "spawning") /\ Current(c) /\ MaySpawn(calls[c].seen, calls[c])
  /\ HasRoom
  /\ records' = [records EXCEPT !.allocated = Allocated(records, Total(calls[c].amount)),
                               !.last = @ + 1]
  /\ Return(c)

----------------------------------------------------------------------------
(* Records of other kinds, and callers that die *)

OtherRecord ==
  /\ HasRoom
  /\ records' = [records EXCEPT !.last = @ + 1]
  /\ UNCHANGED calls

GiveUp(c) ==
  /\ ~CallAt(c, "idle")
  /\ Return(c)
  /\ UNCHANGED records

----------------------------------------------------------------------------

Step(c) ==
  \/ Quote(c) \/ ReadAt(c, "reserve", "reserving") \/ Again(c, "reserving", "reserve")
  \/ (~MayReserve(calls[c].seen, calls[c]) /\ Refuse(c, "reserving"))
  \/ Reserve(c) \/ Bill(c) \/ Unknown(c)
  \/ ReadAt(c, "settle", "settling") \/ Again(c, "settling", "settle") \/ SettleRequest(c)
  \/ RequestChild(c) \/ ReadAt(c, "spawn", "spawning") \/ Again(c, "spawning", "spawn")
  \/ (~MaySpawn(calls[c].seen, calls[c]) /\ Refuse(c, "spawning"))
  \/ Spawn(c) \/ GiveUp(c)

BudgetNext == OtherRecord \/ \E c \in Caller : Step(c)

BudgetSpec == BudgetInit /\ [][BudgetNext]_budgetVars

----------------------------------------------------------------------------
(* Properties *)

(* Requests at their maximum and children together stay within the frozen limit, whatever *)
(* callers do at the same time; only a bill above its reservation, which stops all        *)
(* further spending, can exceed it (reserve, settle, spawnSubagent).                      *)
WithinLimit ==
  records.frozen # NotFrozen /\ ~records.overrun => records.allocated <= records.frozen

(* At most one request is without a bill: a lost answer blocks every later request, of *)
(* any caller and after any restart, so it is never sent again (reserve).              *)
OneOpenRequest == Cardinality(records.open) <= 1

(* After a bill that exceeds its reservation nothing more is allocated. *)
OverrunStops ==
  [][records.overrun => records'.allocated <= records.allocated]_records

=============================================================================

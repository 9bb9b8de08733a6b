------------------------- MODULE DurableWorkProofs -------------------------
(***************************************************************************)
(* Proofs about the two durable records of work that several processes     *)
(* may take up at once and that only one of them may carry out:            *)
(*                                                                         *)
(*   - KeyRevocation: the record of a key to be deleted, which every drain *)
(*     guards by the version it read; for any number of drains, owners,    *)
(*     decisions and crashes;                                              *)
(*   - JobLease: the rows of the job queue, which every handler guards by  *)
(*     the fencing token of its lease; for every set of workers and jobs,  *)
(*     every lease length and every clock skew.  Its bounds MaxTime and    *)
(*     MaxFence only restrict the steps, so the theorems hold for all      *)
(*     their values.                                                       *)
(*                                                                         *)
(* The two share no state.  Each part has an inductive invariant of its    *)
(* own: IInv for the revocation, LeaseIInv for the queue.                  *)
(***************************************************************************)
EXTENDS KeyRevocation, JobLease, SequenceTheorems, TLAPS

----------------------------------------------------------------------------
(* The revocation of a key *)

(* What a drain holds is not newer than the store, and as long as it is the *)
(* record in the store, the status it was chosen by still stands.           *)
HeldRecords ==
  \A x \in Drainer :
    /\ drain[x].version <= rec.version
    /\ IsCurrent(x) /\ At(x, "start") => rec.status = "pending"
    /\ IsCurrent(x) /\ ~At(x, "start") /\ ~At(x, "idle") => rec.status # "pending"

(* A run waits for its call to be sent by one drain, and was decided upon.  *)
Senders ==
  \A x \in Drainer : At(x, "call") =>
    /\ Decided(drain[x].version - 1)
    /\ \A i \in 1..Len(calls) : calls[i].version # drain[x].version
    /\ \A y \in Drainer : At(y, "call") /\ drain[y].version = drain[x].version => y = x

PastCalls == \A i \in 1..Len(calls) : calls[i].version <= rec.version

PendingIsDecided == rec.status = "pending" => Decided(rec.version)

Confirmed == \A x \in Drainer : At(x, "finish") \/ At(x, "complete") => revoked

IInv ==
  /\ TypeOK
  /\ HeldRecords
  /\ Senders
  /\ PastCalls
  /\ PendingIsDecided
  /\ Confirmed
  /\ CallsAreDecided
  /\ RecordTellsTruth

LEMMA InitIInv == Init => IInv
<1> SUFFICES ASSUME Init PROVE IInv
  OBVIOUS
<1> USE DEF Init
<1>1. calls = <<>> /\ calls \in Seq(CallState) /\ Len(calls) = 0
  OBVIOUS
<1>2. TypeOK
  <2>1. rec \in [status : Status, version : Version, old : BOOLEAN]
    BY DEF Status, Version
  <2>2. inbox \in [status : {"none", "open", "resolved"}, version : Version]
    BY DEF Version
  <2>6. revoked \in BOOLEAN
    OBVIOUS
  <2>3. asked \subseteq Decision /\ receipts \subseteq RequestId
    OBVIOUS
  <2>4. drain \in [Drainer -> DrainState]
    BY DEF Idle, DrainState, Version
  <2>5. crashes \in 0..MaxCrashes
    BY RevocationAssumption
  <2> QED
    BY <1>1, <2>1, <2>2, <2>3, <2>4, <2>5, <2>6 DEF TypeOK, CallState
<1>3. HeldRecords /\ Senders /\ Confirmed
  BY DEF HeldRecords, Senders, Confirmed, At, IsCurrent, Idle
<1>4. PastCalls /\ CallsAreDecided
  BY <1>1 DEF PastCalls, CallsAreDecided
<1>5. PendingIsDecided /\ RecordTellsTruth
  BY DEF PendingIsDecided, Decided, RecordTellsTruth
<1> QED
  BY <1>2, <1>3, <1>4, <1>5 DEF IInv

LEMMA SameCalls ==
  ASSUME UNCHANGED <<calls, asked>>
  PROVE  /\ CallsAreDecided => CallsAreDecided'
         /\ \A v : Decided(v) <=> Decided(v)'
BY DEF CallsAreDecided, Decided

LEMMA StatusWritten ==
  ASSUME IInv, NEW status \in Status, Write(status), UNCHANGED <<calls, asked, revoked>>,
         status = "pending" => Decided(rec.version + 1),
         status = "completed" => revoked
  PROVE  /\ PastCalls' /\ PendingIsDecided' /\ CallsAreDecided' /\ RecordTellsTruth'
         /\ rec' \in [status : Status, version : Version, old : BOOLEAN]
         /\ inbox' \in [status : {"none", "open", "resolved"}, version : Version]
         /\ rec'.version = rec.version + 1 /\ rec'.status = status
<1> USE DEF IInv, Write
<1>1. rec' = [status |-> status, version |-> rec.version + 1, old |-> FALSE]
  OBVIOUS
<1>2. rec.version \in Nat /\ rec.version >= 1
  BY DEF TypeOK, Version
<1>3. rec' \in [status : Status, version : Version, old : BOOLEAN]
  BY <1>1, <1>2 DEF Version
<1>4. /\ inbox' = InboxOf(status)
      /\ inbox \in [status : {"none", "open", "resolved"}, version : Version]
  BY DEF TypeOK
<1>5. inbox' \in [status : {"none", "open", "resolved"}, version : Version]
  BY <1>2, <1>4 DEF InboxOf, Version
<1>6. PastCalls'
  <2>1. ASSUME NEW i \in 1..Len(calls)
        PROVE  calls[i].version <= rec.version /\ calls[i].version \in Nat
    <3>1. calls \in Seq(CallState)
      BY DEF TypeOK
    <3>2. calls[i] \in CallState
      BY <3>1
    <3> QED
      BY <3>2 DEF PastCalls, CallState, Version
  <2> QED
    BY <1>1, <1>2, <2>1 DEF PastCalls
<1>7. PendingIsDecided'
  BY <1>1, SameCalls DEF PendingIsDecided
<1>8. RecordTellsTruth'
  BY <1>1, <1>2, <1>4 DEF RecordTellsTruth, InboxOf
<1> QED
  BY <1>1, <1>3, <1>5, <1>6, <1>7, <1>8, SameCalls

(* A step of one drain that leaves the record alone and sends nothing. *)
LEMMA DrainMoves ==
  ASSUME IInv, NEW x \in Drainer, NEW s \in DrainState,
         drain' = [drain EXCEPT ![x] = s],
         UNCHANGED <<rec, inbox, asked, receipts, calls, revoked>>, crashes' \in 0..MaxCrashes,
         s.version <= rec.version, s.pc # "call",
         s.version = rec.version /\ s.pc = "start" => rec.status = "pending",
         s.version = rec.version /\ s.pc \notin {"start", "idle"} => rec.status # "pending",
         s.pc \in {"finish", "complete"} => revoked
  PROVE  IInv'
<1> USE DEF IInv
<1>1. /\ drain \in [Drainer -> DrainState]
      /\ \A y \in Drainer : drain'[y] = IF y = x THEN s ELSE drain[y]
  BY DEF TypeOK
<1>2. TypeOK'
  BY DEF TypeOK
<1>3. HeldRecords'
  BY <1>1 DEF HeldRecords, At, IsCurrent
<1>4. Senders'
  BY <1>1, SameCalls DEF Senders, At
<1>5. Confirmed'
  BY <1>1 DEF Confirmed, At
<1>6. PastCalls' /\ PendingIsDecided' /\ RecordTellsTruth' /\ CallsAreDecided'
  BY SameCalls DEF PastCalls, PendingIsDecided, RecordTellsTruth
<1> QED
  BY <1>2, <1>3, <1>4, <1>5, <1>6

LEMMA ReturnKeeps ==
  ASSUME IInv, NEW x \in Drainer, Return(x), crashes' \in 0..MaxCrashes,
         UNCHANGED <<rec, inbox, asked, receipts, calls, revoked>>
  PROVE  IInv'
<1>1. Idle \in DrainState /\ Idle.version <= rec.version /\ Idle.pc = "idle"
  BY DEF Idle, DrainState, Version, IInv, TypeOK
<1> QED
  BY <1>1, DrainMoves DEF Return

(* A drain that has nothing left to send goes on to pc. *)
LEMMA GotoKeeps ==
  ASSUME IInv, NEW x \in Drainer,
         NEW pc \in {"confirm", "caught", "finish", "complete", "give_up"}, NEW call \in Nat,
         ~At(x, "idle"), ~At(x, "start"),
         drain' = [drain EXCEPT ![x].pc = pc, ![x].call = call],
         UNCHANGED <<rec, inbox, asked, receipts, calls, revoked, crashes>>,
         pc \in {"finish", "complete"} => revoked
  PROVE  IInv'
<1> DEFINE s == [drain[x] EXCEPT !.pc = pc, !.call = call]
<1>1. drain \in [Drainer -> DrainState] /\ drain[x] \in DrainState
  BY DEF IInv, TypeOK
<1>2. s \in DrainState /\ s.pc = pc /\ s.version = drain[x].version
  BY <1>1 DEF DrainState
<1>3. drain' = [drain EXCEPT ![x] = s]
  BY <1>1
<1>4. s.version <= rec.version /\ (s.version = rec.version => rec.status # "pending")
  BY <1>2 DEF IInv, HeldRecords, IsCurrent
<1>5. crashes' \in 0..MaxCrashes
  BY DEF IInv, TypeOK
<1> QED
  BY <1>2, <1>3, <1>4, <1>5, DrainMoves

LEMMA GotoCall ==
  ASSUME IInv, NEW x \in Drainer, NEW pc, Goto(x, pc)
  PROVE  /\ drain[x].call \in Nat
         /\ drain' = [drain EXCEPT ![x].pc = pc, ![x].call = drain[x].call]
<1>1. drain \in [Drainer -> DrainState] /\ drain[x] \in DrainState
  BY DEF IInv, TypeOK
<1>2. [drain[x] EXCEPT !.pc = pc] = [drain[x] EXCEPT !.pc = pc, !.call = drain[x].call]
  BY <1>1 DEF DrainState
<1> QED
  BY <1>1, <1>2 DEF Goto, DrainState

(* The transactions that end a drain: overtaken, or written. *)
LEMMA TransitionKeeps ==
  ASSUME IInv, NEW x \in Drainer, NEW status \in {"completed", "needs_reconciliation"},
         ~At(x, "idle"), ~At(x, "start"), Transition(x, status),
         status = "completed" => revoked,
         UNCHANGED <<asked, receipts, calls, revoked, crashes>>
  PROVE  IInv' /\ (rec.status = "pending" => rec' = rec)
<1>1. CASE ~MayWrite(x)
  <2>1. crashes' \in 0..MaxCrashes /\ Return(x) /\ UNCHANGED <<rec, inbox>>
    BY <1>1 DEF Transition, IInv, TypeOK
  <2> QED
    BY <2>1, ReturnKeeps
<1>2. CASE MayWrite(x)
  <2>1. Write(status) /\ Return(x) /\ status \in Status /\ status # "pending"
    BY <1>2 DEF Transition, Status
  <2>2. /\ PastCalls' /\ PendingIsDecided' /\ CallsAreDecided' /\ RecordTellsTruth'
        /\ rec' \in [status : Status, version : Version, old : BOOLEAN]
        /\ inbox' \in [status : {"none", "open", "resolved"}, version : Version]
        /\ rec'.version = rec.version + 1 /\ rec'.status = status
    BY <2>1, StatusWritten
  <2>3. /\ drain \in [Drainer -> DrainState] /\ rec.version \in Nat /\ rec.version >= 1
        /\ Idle \in DrainState
    BY DEF IInv, TypeOK, Version, Idle, DrainState
  <2>4. \A y \in Drainer : drain'[y] = IF y = x THEN Idle ELSE drain[y]
    BY <2>1, <2>3 DEF Return
  <2>5. TypeOK'
    BY <2>1, <2>2, <2>3 DEF IInv, TypeOK, Return
  <2>6. ASSUME NEW y \in Drainer
        PROVE  drain'[y].version < rec'.version /\ drain'[y].version \in Nat
    BY <2>2, <2>3, <2>4 DEF IInv, HeldRecords, Idle, DrainState, Version
  <2>7. HeldRecords'
    BY <2>2, <2>3, <2>6 DEF HeldRecords, IsCurrent
  <2>8. Senders' /\ Confirmed'
    BY <2>4, SameCalls DEF IInv, Senders, Confirmed, At, Idle
  <2>9. rec.status # "pending"
    BY <1>2 DEF MayWrite, IInv, HeldRecords
  <2> QED
    BY <2>2, <2>5, <2>7, <2>8, <2>9 DEF IInv
<1> QED
  BY <1>1, <1>2

LEMMA BeginKeeps ==
  ASSUME IInv, NEW x \in Drainer, Begin(x)
  PROVE  IInv'
<1> DEFINE s == [pc |-> FirstStep, version |-> rec.version, call |-> 0]
<1>1. rec.version \in Version /\ rec.version <= rec.version
  BY DEF IInv, TypeOK, Version
<1>2. /\ FirstStep \in {"start", "inspect_run", "inspect_unknown"}
      /\ FirstStep = "start" <=> rec.status = "pending"
  BY DEF FirstStep
<1>3. s \in DrainState
  BY <1>1, <1>2 DEF DrainState
<1>4. crashes' \in 0..MaxCrashes
  BY DEF Begin, IInv, TypeOK
<1> HIDE DEF FirstStep
<1> QED
  BY <1>1, <1>2, <1>3, <1>4, DrainMoves DEF Begin

LEMMA StartRunKeeps ==
  ASSUME IInv, NEW x \in Drainer, StartRun(x)
  PROVE  IInv' /\ (rec.status = "pending" /\ rec' # rec => rec'.status = "running")
<1>1. CASE ~MayWrite(x)
  <2>1. crashes' \in 0..MaxCrashes /\ Return(x) /\ UNCHANGED <<rec, inbox>>
    BY <1>1 DEF StartRun, IInv, TypeOK
  <2> QED
    BY <2>1, ReturnKeeps DEF StartRun
<1>2. CASE MayWrite(x)
  <2>1. /\ Write("running") /\ "running" \in Status /\ UNCHANGED <<calls, asked, receipts, revoked, crashes>>
        /\ drain' = [drain EXCEPT ![x].pc = "call", ![x].version = rec.version + 1]
    BY <1>2 DEF StartRun, Status
  <2>2. /\ PastCalls' /\ PendingIsDecided' /\ CallsAreDecided' /\ RecordTellsTruth'
        /\ rec' \in [status : Status, version : Version, old : BOOLEAN]
        /\ inbox' \in [status : {"none", "open", "resolved"}, version : Version]
        /\ rec'.version = rec.version + 1 /\ rec'.status = "running"
    BY <2>1, StatusWritten
  <2>3. /\ drain \in [Drainer -> DrainState] /\ rec.version \in Nat /\ rec.version >= 1
        /\ \A y \in Drainer : drain[y].version \in Nat /\ drain[y].version <= rec.version
    BY DEF IInv, HeldRecords, TypeOK, Version, DrainState
  <2>4. \A y \in Drainer :
          /\ drain'[y].version = IF y = x THEN rec.version + 1 ELSE drain[y].version
          /\ drain'[y].pc = IF y = x THEN "call" ELSE drain[y].pc
    BY <2>1, <2>3 DEF DrainState
  <2>5. drain' \in [Drainer -> DrainState]
    BY <2>1, <2>3 DEF DrainState, Version
  <2>6. TypeOK'
    BY <2>1, <2>2, <2>5 DEF IInv, TypeOK
  <2>7. HeldRecords'
    BY <2>2, <2>3, <2>4 DEF HeldRecords, IsCurrent, At
  <2>8. Decided(rec.version)
    BY <1>2 DEF MayWrite, IInv, HeldRecords, PendingIsDecided, StartRun
  <2>9. \A i \in 1..Len(calls) : calls[i].version # rec.version + 1
    <3>1. ASSUME NEW i \in 1..Len(calls) PROVE calls[i].version <= rec.version /\ calls[i] \in CallState
      BY DEF IInv, PastCalls, TypeOK
    <3> QED
      BY <2>3, <3>1 DEF CallState, Version
  <2>10. Senders'
    <3> SUFFICES ASSUME NEW y \in Drainer, At(y, "call")'
                 PROVE  /\ Decided(drain'[y].version - 1)
                        /\ \A i \in 1..Len(calls) : calls[i].version # drain'[y].version
                        /\ \A z \in Drainer : At(z, "call")' /\ drain'[z].version = drain'[y].version
                                               => z = y
      BY <2>1, SameCalls DEF Senders
    <3>1. CASE y = x
      BY <2>3, <2>4, <2>8, <2>9, <3>1
    <3>2. CASE y # x
      BY <2>3, <2>4, <3>2 DEF IInv, Senders, At
    <3> QED
      BY <3>1, <3>2
  <2>11. Confirmed'
    BY <2>1, <2>4 DEF IInv, Confirmed, At
  <2> QED
    BY <2>2, <2>6, <2>7, <2>10, <2>11 DEF IInv
<1> QED
  BY <1>1, <1>2

(* Each run's call is sent by the drain that recorded the run. *)
LEMMA CallKeeps ==
  ASSUME IInv, NEW x \in Drainer, Call(x)
  PROVE  IInv'
<1> DEFINE c == [version |-> drain[x].version, fate |-> "sent"]
<1>1. /\ drain \in [Drainer -> DrainState] /\ rec.version \in Nat /\ calls \in Seq(CallState)
      /\ Len(calls) \in Nat
  BY DEF IInv, TypeOK, Version
<1>2. c \in CallState /\ drain[x].version \in Nat /\ drain[x].version <= rec.version
  BY <1>1 DEF CallState, DrainState, Version, IInv, HeldRecords
<1>3. /\ calls' = Append(calls, c) /\ calls' \in Seq(CallState) /\ Len(calls') = Len(calls) + 1
      /\ \A i \in 1..Len(calls') : calls'[i] = IF i = Len(calls) + 1 THEN c ELSE calls[i]
      /\ \A i \in 1..Len(calls') : i # Len(calls) + 1 => i \in 1..Len(calls)
  BY <1>1, <1>2 DEF Call
<1>4. \A y \in Drainer :
        /\ drain'[y].version = drain[y].version
        /\ drain'[y].pc = IF y = x THEN "called" ELSE drain[y].pc
  BY <1>1 DEF Call, DrainState
<1>5. drain' \in [Drainer -> DrainState]
  <2> DEFINE s == [drain[x] EXCEPT !.pc = "called", !.call = Len(calls) + 1]
  <2>1. s \in DrainState
    <3>1. drain[x] \in DrainState /\ Len(calls) + 1 \in Nat
      BY <1>1
    <3> HIDE DEF IInv
    <3> QED
      BY <3>1 DEF DrainState
  <2>2. drain' = [drain EXCEPT ![x] = s]
    BY <1>1 DEF Call
  <2> QED
    BY <1>1, <2>1, <2>2
<1>6. TypeOK'
  BY <1>3, <1>5 DEF Call, IInv, TypeOK
<1>7. HeldRecords' /\ Confirmed'
  <2>1. UNCHANGED <<rec, revoked>> /\ At(x, "call")
    BY DEF Call
  <2>2. ASSUME NEW y \in Drainer
        PROVE  /\ IsCurrent(y)' <=> IsCurrent(y)
               /\ At(y, "idle")' \/ At(y, "start")' => At(y, drain'[y].pc)
               /\ At(y, "finish")' \/ At(y, "complete")' => At(y, drain'[y].pc)
    BY <1>4, <2>1 DEF At, IsCurrent
  <2>3. HeldRecords'
    BY <1>4, <2>1, <2>2 DEF IInv, HeldRecords, At
  <2>4. Confirmed'
    BY <1>4, <2>1, <2>2 DEF IInv, Confirmed, At
  <2> QED
    BY <2>3, <2>4
<1>8. PastCalls'
  BY <1>2, <1>3 DEF Call, IInv, PastCalls
<1>9. \A v : Decided(v) <=> Decided(v)'
  BY DEF Call, Decided
<1>10. CallsAreDecided'
  <2>1. Decided(c.version - 1) /\ \A i \in 1..Len(calls) : calls[i].version # c.version
    BY DEF Call, IInv, Senders
  <2> HIDE DEF c
  <2> QED
    BY <1>3, <1>9, <2>1 DEF IInv, CallsAreDecided
<1>11. Senders'
  <2>1. ASSUME NEW y \in Drainer, At(y, "call")' PROVE y # x /\ At(y, "call") /\ drain[y].version # c.version
    BY <1>4, <2>1 DEF Call, IInv, Senders, At
  <2> QED
    BY <1>3, <1>4, <1>9, <2>1 DEF IInv, Senders, At
<1> QED
  BY <1>6, <1>7, <1>8, <1>10, <1>11 DEF Call, IInv, PendingIsDecided, Decided, RecordTellsTruth

(* What becomes of a call in flight. *)
LEMMA FateKeeps ==
  ASSUME IInv, NEW i \in 1..Len(calls), NEW fate \in {"done", "lost"},
         calls' = [calls EXCEPT ![i].fate = fate], revoked' \in BOOLEAN, revoked => revoked',
         UNCHANGED <<rec, inbox, asked, receipts, drain, crashes>>
  PROVE  IInv'
<1>1. calls \in Seq(CallState) /\ Len(calls) \in Nat
  BY DEF IInv, TypeOK
<1>2. /\ calls' \in Seq(CallState) /\ Len(calls') = Len(calls)
      /\ \A j \in 1..Len(calls) : calls'[j].version = calls[j].version
  <2> DEFINE c == [calls[i] EXCEPT !.fate = fate]
  <2>1. calls[i] \in CallState
    BY <1>1
  <2>2. c \in CallState /\ c.version = calls[i].version
    BY <2>1 DEF CallState
  <2>3. calls' = [calls EXCEPT ![i] = c]
    BY <1>1
  <2> HIDE DEF c
  <2> QED
    BY <1>1, <2>2, <2>3, ExceptSeq
<1>3. \A v : Decided(v) <=> Decided(v)'
  BY DEF Decided
<1>4. TypeOK'
  BY <1>2 DEF IInv, TypeOK
<1>5. CallsAreDecided' /\ Senders' /\ PastCalls'
  BY <1>2, <1>3 DEF IInv, CallsAreDecided, Senders, PastCalls, At
<1>6. HeldRecords' /\ PendingIsDecided' /\ Confirmed' /\ RecordTellsTruth'
  BY <1>3 DEF IInv, HeldRecords, PendingIsDecided, Confirmed, RecordTellsTruth, At, IsCurrent
<1> QED
  BY <1>4, <1>5, <1>6 DEF IInv

LEMMA AgeKeeps ==
  ASSUME IInv, Age
  PROVE  IInv'
<1>1. /\ rec'.status = rec.status /\ rec'.version = rec.version
      /\ rec' \in [status : Status, version : Version, old : BOOLEAN]
      /\ UNCHANGED <<inbox, asked, receipts, calls, revoked, drain, crashes>>
  BY DEF Age, IInv, TypeOK
<1>2. TypeOK' /\ PastCalls' /\ PendingIsDecided' /\ RecordTellsTruth' /\ CallsAreDecided'
  BY <1>1, SameCalls DEF Age, IInv, TypeOK, PastCalls, PendingIsDecided, RecordTellsTruth
<1>3. HeldRecords' /\ Senders' /\ Confirmed'
  BY <1>1, SameCalls DEF IInv, HeldRecords, Senders, Confirmed, At, IsCurrent
<1> QED
  BY <1>2, <1>3 DEF IInv

LEMMA AskKeeps ==
  ASSUME IInv, NEW id \in RequestId, Ask(id)
  PROVE  IInv'
<1>1. /\ asked \subseteq asked'
      /\ UNCHANGED <<rec, inbox, receipts, calls, revoked, drain, crashes>>
  BY DEF Ask
<1>2. \A v : Decided(v) => Decided(v)'
  BY <1>1 DEF Decided
<1>3. TypeOK'
  <2>1. inbox.version \in Version
    BY DEF Ask, IInv, TypeOK
  <2>2. asked' \subseteq Decision
    BY <2>1 DEF Ask, IInv, TypeOK, Decision
  <2> QED
    BY <1>1, <2>2 DEF IInv, TypeOK
<1>4. PastCalls' /\ PendingIsDecided' /\ RecordTellsTruth' /\ CallsAreDecided'
  BY <1>1, <1>2 DEF IInv, PastCalls, PendingIsDecided, RecordTellsTruth, CallsAreDecided
<1>5. HeldRecords' /\ Senders' /\ Confirmed'
  BY <1>1, <1>2 DEF IInv, HeldRecords, Senders, Confirmed, At, IsCurrent
<1> QED
  BY <1>3, <1>4, <1>5 DEF IInv

(* A decision makes the unknown outcome pending again, for the drains that come. *)
LEMMA RetryKeeps ==
  ASSUME IInv, NEW m \in asked, Retry(m)
  PROVE  IInv'
<1>1. /\ rec' = [status |-> "pending", version |-> rec.version + 1, old |-> FALSE]
      /\ UNCHANGED <<inbox, asked, calls, revoked, drain, crashes>>
      /\ m.version = rec.version /\ m.id \in RequestId
  BY DEF Retry, IInv, TypeOK, Decision
<1>2. /\ rec.version \in Nat /\ rec.version >= 1
      /\ \A y \in Drainer : drain[y].version \in Nat /\ drain[y].version <= rec.version
  BY DEF IInv, HeldRecords, TypeOK, Version, DrainState
<1>3. TypeOK'
  BY <1>1, <1>2 DEF Retry, IInv, TypeOK, Status, Version
<1>4. HeldRecords'
  BY <1>1, <1>2 DEF HeldRecords, IsCurrent
<1>5. PastCalls'
  <2>1. ASSUME NEW i \in 1..Len(calls) PROVE calls[i].version <= rec.version /\ calls[i] \in CallState
    BY DEF IInv, PastCalls, TypeOK
  <2> QED
    BY <1>1, <1>2, <2>1 DEF PastCalls, CallState, Version
<1>6. PendingIsDecided' /\ RecordTellsTruth' /\ CallsAreDecided'
  BY <1>1, SameCalls DEF IInv, PendingIsDecided, RecordTellsTruth, Decided
<1>7. Senders' /\ Confirmed'
  BY <1>1, SameCalls DEF IInv, Senders, Confirmed, At
<1> QED
  BY <1>3, <1>4, <1>5, <1>6, <1>7 DEF IInv

LEMMA DrainKeeps ==
  ASSUME IInv, NEW x \in Drainer, Drain(x)
  PROVE  IInv' /\ (rec.status = "pending" /\ rec' # rec => rec'.status = "running")
<1>0. crashes \in 0..MaxCrashes
  BY DEF IInv, TypeOK
<1>1. CASE Begin(x)
  BY <1>1, BeginKeeps DEF Begin
<1>2. CASE StartRun(x)
  BY <1>2, StartRunKeeps
<1>3. CASE Call(x)
  BY <1>3, CallKeeps DEF Call
<1>4. CASE CallReturns(x)
  BY <1>4, GotoKeeps DEF CallReturns, At
<1>5. CASE CallFails(x)
  BY <1>5, GotoKeeps DEF CallFails, At
<1>6. CASE Confirm(x)
  <2>1. PICK pc \in {"finish", "complete"} : Goto(x, pc)
    BY <1>6 DEF Confirm
  <2> QED
    BY <1>6, <2>1, GotoCall, GotoKeeps DEF Confirm, At
<1>7. CASE NotConfirmed(x)
  <2>1. CASE Return(x)
    BY <1>0, <1>7, <2>1, ReturnKeeps DEF NotConfirmed
  <2>2. CASE \E pc \in {"caught", "give_up"} : Goto(x, pc)
    <3>1. PICK pc \in {"caught", "give_up"} : Goto(x, pc)
      BY <2>2
    <3>2. /\ ~At(x, "idle") /\ ~At(x, "start")
          /\ UNCHANGED <<rec, inbox, asked, receipts, calls, revoked, crashes>>
      BY <1>7 DEF NotConfirmed, At
    <3>3. pc \in {"confirm", "caught", "finish", "complete", "give_up"} /\ pc \notin {"finish", "complete"}
      OBVIOUS
    <3>4. /\ drain[x].call \in Nat
          /\ drain' = [drain EXCEPT ![x].pc = pc, ![x].call = drain[x].call]
      BY <3>1, GotoCall
    <3> QED
      BY <3>2, <3>3, <3>4, GotoKeeps
  <2> QED
    BY <1>7, <2>1, <2>2 DEF NotConfirmed
<1>8. CASE Complete(x)
  BY <1>8, TransitionKeeps DEF Complete, At, IInv, Confirmed
<1>9. CASE CompletionFails(x)
  BY <1>9, GotoCall, GotoKeeps DEF CompletionFails, At
<1>10. CASE GiveUp(x)
  BY <1>10, TransitionKeeps DEF GiveUp, At
<1> QED
  BY <1>1, <1>2, <1>3, <1>4, <1>5, <1>6, <1>7, <1>8, <1>9, <1>10 DEF Drain

LEMMA NextKeeps ==
  ASSUME IInv, [Next]_vars
  PROVE  IInv' /\ (rec.status = "pending" /\ rec' # rec => rec'.status = "running")
<1>1. CASE \E x \in Drainer : Drain(x)
  BY <1>1, DrainKeeps
<1>2. CASE \E x \in Drainer : Crash(x)
  <2>1. PICK x \in Drainer : Crash(x)
    BY <1>2
  <2>2. crashes' \in 0..MaxCrashes
    BY <2>1, RevocationAssumption DEF Crash, IInv, TypeOK
  <2> QED
    BY <2>1, <2>2, ReturnKeeps DEF Crash
<1>3. CASE \E i \in 1..Len(calls) : Land(i) \/ Lose(i)
  <2>1. PICK i \in 1..Len(calls) : Land(i) \/ Lose(i)
    BY <1>3
  <2>2. revoked \in BOOLEAN
    BY DEF IInv, TypeOK
  <2>3. CASE Land(i)
    BY <2>2, <2>3, FateKeeps DEF Land
  <2>4. CASE Lose(i)
    BY <2>2, <2>4, FateKeeps DEF Lose
  <2> QED
    BY <2>1, <2>3, <2>4 DEF Land, Lose
<1>4. CASE Age
  BY <1>4, AgeKeeps DEF Age
<1>5. CASE \E id \in RequestId : Ask(id)
  BY <1>5, AskKeeps DEF Ask
<1>6. CASE \E m \in asked : Retry(m)
  BY <1>6, RetryKeeps DEF Retry
<1>7. CASE UNCHANGED vars
  <2> USE <1>7 DEF vars
  <2>1. TypeOK' /\ PastCalls' /\ PendingIsDecided' /\ RecordTellsTruth' /\ CallsAreDecided'
    BY SameCalls DEF IInv, TypeOK, PastCalls, PendingIsDecided, RecordTellsTruth
  <2>2. HeldRecords' /\ Senders' /\ Confirmed'
    BY SameCalls DEF IInv, HeldRecords, Senders, Confirmed, At, IsCurrent
  <2> QED
    BY <2>1, <2>2 DEF IInv
<1> QED
  BY <1>1, <1>2, <1>3, <1>4, <1>5, <1>6, <1>7 DEF Next, Environment

THEOREM Invariance == Spec => []IInv
<1>1. IInv /\ [Next]_vars => IInv'
  BY NextKeeps
<1> QED
  BY <1>1, InitIInv, PTL DEF Spec

(* Types, the record and the inbox, for every interleaving. *)
THEOREM TypeCorrect == Spec => []TypeOK
<1>1. IInv => TypeOK
  BY DEF IInv
<1> QED
  BY <1>1, Invariance, PTL

(* drainKeyRevocations never repeats a deletion that nobody decided to repeat: *)
(* every call that is ever sent to the provider has a run of its own, and each *)
(* run but the first a decision on the version before it.                      *)
THEOREM NoUndecidedCall == Spec => []CallsAreDecided
<1>1. IInv => CallsAreDecided
  BY DEF IInv
<1> QED
  BY <1>1, Invariance, PTL

(* The record is completed only over a deleted key, and an unknown outcome is  *)
(* in the inbox under the version that a decision has to name.                 *)
THEOREM RecordIsTrue == Spec => []RecordTellsTruth
<1>1. IInv => RecordTellsTruth
  BY DEF IInv
<1> QED
  BY <1>1, Invariance, PTL

(* No late outcome of an earlier run buries a decision that was accepted.      *)
THEOREM DecisionsStand == Spec => DecisionsAreServed
<1>1. IInv /\ [Next]_vars => [rec.status = "pending" /\ rec' # rec => rec'.status = "running"]_vars
  BY NextKeeps
<1> QED
  BY <1>1, Invariance, PTL DEF Spec, DecisionsAreServed

----------------------------------------------------------------------------
(* The job queue *)

USE JobLeaseAssumption

(* What the rows satisfy in every status, beyond their types. *)
RowInv ==
  \A j \in Job :
    /\ jobs[j].status = "absent" => jobs[j] = AbsentRow
    /\ jobs[j].status = "available" => jobs[j].owner = NoWorker /\ jobs[j].fence = 0
    /\ jobs[j].status = "leased" => jobs[j].owner \in Worker
    /\ jobs[j].status \in Settled => jobs[j].owner = NoWorker
    /\ jobs[j].status \notin Settled => jobs[j].result = 0

(* No write carries a token newer than its job's, and a result carries the newest. *)
NewestTokens ==
  \A j \in Job :
    /\ written[j] <= jobs[j].fence
    /\ jobs[j].result # 0 => jobs[j].result = jobs[j].fence

(* The inductive invariant: rows, handler tokens and written tokens together. *)
LeaseIInv == LeaseTypeOK /\ RowInv /\ TokensIdentifyAttempts /\ NewestTokens

LEMMA LeaseInitIInv == LeaseInit => LeaseIInv
  BY DEF LeaseInit, LeaseIInv, LeaseTypeOK, Row, AbsentRow, Settled, RowInv, TokensIdentifyAttempts,
         NewestTokens, Handlers, Handler

(* A handler is a record of the type Handler. *)
LEMMA HandlerType ==
  ASSUME LeaseTypeOK, NEW h \in Handlers
  PROVE  h \in Handler /\ h.worker \in Worker /\ h.job \in Job /\ h.fence \in Nat /\ h.since \in Nat
  BY DEF LeaseTypeOK, Handlers, Handler

(* Every stamp is a natural number. *)
LEMMA StampType ==
  ASSUME LeaseTypeOK
  PROVE  Stamp \subseteq Nat /\ \A h : StampOf(h) \subseteq Stamp
  BY DEF LeaseTypeOK, Stamp, StampOf

LEMMA PutJobIInv ==
  ASSUME LeaseIInv, NEW j \in Job, PutJob(j)
  PROVE  LeaseIInv'
<1> USE DEF LeaseIInv, PutJob, LeaseTypeOK
<1>0. 0 .. MaxTime \subseteq Nat
  BY DEF JobLeaseAssumption
<1>1. PICK at \in 0 .. MaxTime : jobs' = [jobs EXCEPT ![j] = [AbsentRow EXCEPT !.status = "available", !.availableAt = at]]
  OBVIOUS
<1>2. jobs'[j] \in Row /\ LeaseTypeOK'
  BY <1>0, <1>1 DEF Row, AbsentRow, Settled
<1>3. RowInv'
  BY <1>1, <1>2 DEF RowInv, AbsentRow, Settled, Row
<1>4. jobs[j].fence = 0 /\ jobs'[j].fence = 0 /\ jobs'[j].result = 0
  BY <1>1 DEF RowInv, AbsentRow
<1>5. TokensIdentifyAttempts'
  BY <1>1, <1>4, HandlerType DEF TokensIdentifyAttempts, Handlers
<1>6. NewestTokens'
  BY <1>1, <1>4 DEF NewestTokens
<1> QED BY <1>2, <1>3, <1>5, <1>6

LEMMA ClaimIInv ==
  ASSUME LeaseIInv, NEW w \in Worker, Claim(w)
  PROVE  LeaseIInv'
<1> USE DEF LeaseIInv
<1>1. PICK now \in Stamp, j \in Job :
        /\ Claimable(w, j, now)
        /\ jobs' = [jobs EXCEPT ![j].status = "leased", ![j].owner = w,
                                ![j].expires = now + LeaseTicks, ![j].fence = @ + 1]
        /\ active' = active \cup {[worker |-> w, job |-> j, fence |-> jobs[j].fence + 1, since |-> now]}
  BY DEF Claim, NextToken
<1>2. UNCHANGED <<time, detached, written>>
  BY DEF Claim, NextToken
<1>3. now \in Nat
  BY StampType
<1> DEFINE new == [worker |-> w, job |-> j, fence |-> jobs[j].fence + 1, since |-> now]
<1>4. jobs[j] \in Row /\ jobs[j].fence \in Nat /\ new \in Handler
  BY <1>3 DEF LeaseTypeOK, Row, Handler
<1>5. jobs' \in [Job -> Row]
  BY <1>1, <1>3, <1>4 DEF LeaseTypeOK, Row
<1>6. LeaseTypeOK'
  BY <1>1, <1>2, <1>4, <1>5 DEF LeaseTypeOK
<1>7. jobs[j].status \in {"available", "leased"}
  BY <1>1 DEF Claimable
<1>8. \A i \in Job : i # j => jobs'[i] = jobs[i]
  BY <1>1 DEF LeaseTypeOK
<1>9. /\ jobs'[j].status = "leased" /\ jobs'[j].owner = w /\ jobs'[j].fence = jobs[j].fence + 1
      /\ jobs'[j].result = jobs[j].result /\ jobs[j].result = 0
  BY <1>1, <1>4, <1>7 DEF LeaseTypeOK, Row, RowInv, Settled
<1>10. RowInv'
  BY <1>8, <1>9 DEF RowInv, Settled
<1>11. Handlers' = Handlers \cup {new}
  BY <1>1, <1>2 DEF Handlers
<1>12. TokensIdentifyAttempts'
  <2>1. \A h \in Handlers : h.fence \in 1 .. jobs[h.job].fence /\ h.job \in Job /\ h.fence \in Nat
    BY HandlerType DEF TokensIdentifyAttempts
  <2>2. \A h \in Handlers : h.job = j => h.fence < new.fence
    BY <2>1, <1>4
  <2>3. \A h \in Handlers' : h.fence \in 1 .. jobs'[h.job].fence
    <3> SUFFICES ASSUME NEW h \in Handlers' PROVE h.fence \in 1 .. jobs'[h.job].fence
      OBVIOUS
    <3>1. CASE h = new
      BY <3>1, <1>4, <1>9
    <3>2. CASE h \in Handlers /\ h.job = j
      BY <3>2, <2>1, <2>2, <1>4, <1>9
    <3>3. CASE h \in Handlers /\ h.job # j
      BY <3>3, <2>1, <1>8
    <3> QED BY <3>1, <3>2, <3>3, <1>11
  <2>4. \A h1, h2 \in Handlers' : h1.job = h2.job /\ h1.fence = h2.fence => h1 = h2
    BY <1>4, <1>11, <2>1, <2>2 DEF TokensIdentifyAttempts
  <2> QED BY <2>3, <2>4 DEF TokensIdentifyAttempts
<1>13. NewestTokens'
  BY <1>2, <1>4, <1>8, <1>9 DEF NewestTokens, LeaseTypeOK
<1> QED BY <1>6, <1>10, <1>12, <1>13

LEMMA RenewLeaseIInv ==
  ASSUME LeaseIInv, NEW h \in Handlers, RenewLease(h)
  PROVE  LeaseIInv'
<1> USE DEF LeaseIInv
<1>1. PICK now \in StampOf(h) :
        /\ Owns(h, now)
        /\ jobs' = [jobs EXCEPT ![h.job].expires = now + LeaseTicks]
  BY DEF RenewLease
<1>2. UNCHANGED <<time, active, detached, written>>
  BY DEF RenewLease
<1>3. now \in Nat /\ h.job \in Job
  BY StampType, HandlerType
<1>4. LeaseTypeOK'
  BY <1>1, <1>2, <1>3 DEF LeaseTypeOK, Row
<1>5. \A i \in Job : /\ jobs'[i].status = jobs[i].status /\ jobs'[i].owner = jobs[i].owner
                     /\ jobs'[i].fence = jobs[i].fence /\ jobs'[i].result = jobs[i].result
                     /\ i # h.job => jobs'[i] = jobs[i]
  <2>1. jobs \in [Job -> Row]
    BY DEF LeaseTypeOK
  <2>2. jobs' = [jobs EXCEPT ![h.job] = [jobs[h.job] EXCEPT !.expires = now + LeaseTicks]]
    BY <1>1
  <2>3. \A i \in Job : i # h.job => jobs'[i] = jobs[i]
    BY <2>1, <2>2
  <2>4. jobs'[h.job] = [jobs[h.job] EXCEPT !.expires = now + LeaseTicks] /\ jobs[h.job] \in Row
    BY <2>1, <2>2, <1>3
  <2>5. /\ jobs'[h.job].status = jobs[h.job].status /\ jobs'[h.job].owner = jobs[h.job].owner
        /\ jobs'[h.job].fence = jobs[h.job].fence /\ jobs'[h.job].result = jobs[h.job].result
    BY <2>4 DEF Row
  <2>6. ASSUME NEW i \in Job
        PROVE  /\ jobs'[i].status = jobs[i].status /\ jobs'[i].owner = jobs[i].owner
               /\ jobs'[i].fence = jobs[i].fence /\ jobs'[i].result = jobs[i].result
    <3>1. CASE i = h.job
      BY <2>5, <3>1
    <3>2. CASE i # h.job
      <4>1. jobs'[i] = jobs[i]
        BY <2>3, <3>2
      <4> QED
        BY <4>1
    <3> QED
      BY <3>1, <3>2
  <2> QED
    BY <2>3, <2>6
<1>6. jobs'[h.job].status = "leased"
  BY <1>1, <1>3, <1>5 DEF Owns
<1>7. RowInv'
  <2>1. ASSUME NEW i \in Job, i # h.job
        PROVE  /\ jobs'[i].status = "absent" => jobs'[i] = AbsentRow
               /\ jobs'[i].status = "available" => jobs'[i].owner = NoWorker /\ jobs'[i].fence = 0
               /\ jobs'[i].status = "leased" => jobs'[i].owner \in Worker
               /\ jobs'[i].status \in Settled => jobs'[i].owner = NoWorker
               /\ jobs'[i].status \notin Settled => jobs'[i].result = 0
    BY <1>5, <2>1 DEF RowInv
  <2>2. /\ jobs[h.job].status = "leased" /\ jobs[h.job].owner \in Worker
        /\ jobs[h.job].result = 0
    BY <1>3, <1>5, <1>6 DEF RowInv, Settled
  <2>3. /\ jobs'[h.job].status = "leased" /\ jobs'[h.job].owner \in Worker
        /\ jobs'[h.job].result = 0
    BY <1>3, <1>5, <2>2
  <2> QED
    BY <2>1, <2>3 DEF RowInv, Settled
<1>8. TokensIdentifyAttempts'
  BY <1>2, <1>5, HandlerType DEF TokensIdentifyAttempts, Handlers
<1>9. NewestTokens'
  BY <1>2, <1>5 DEF NewestTokens
<1> QED BY <1>4, <1>7, <1>8, <1>9

LEMMA SettleLeasedIInv ==
  ASSUME LeaseIInv, NEW h \in Handlers, NEW outcome \in Settled, SettleLeased(h, outcome)
  PROVE  LeaseIInv'
<1> USE DEF LeaseIInv
<1>1. jobs' = [jobs EXCEPT ![h.job].status = outcome, ![h.job].owner = NoWorker,
                           ![h.job].expires = 0, ![h.job].result = h.fence]
  BY DEF SettleLeased
<1>2. UNCHANGED <<time, active, detached, written>>
  BY DEF SettleLeased
<1>3. h.job \in Job /\ h.fence \in Nat /\ jobs[h.job].fence = h.fence
  BY HandlerType DEF SettleLeased, Owns
<1>4. LeaseTypeOK'
  BY <1>1, <1>2, <1>3 DEF LeaseTypeOK, Row, Settled
<1>5. /\ \A i \in Job : i # h.job => jobs'[i] = jobs[i]
      /\ jobs'[h.job].status = outcome /\ jobs'[h.job].owner = NoWorker
      /\ jobs'[h.job].fence = jobs[h.job].fence /\ jobs'[h.job].result = h.fence
  BY <1>1, <1>3 DEF LeaseTypeOK, Row
<1>6. RowInv'
  BY <1>5 DEF RowInv, Settled
<1>7. TokensIdentifyAttempts'
  BY <1>2, <1>3, <1>5, HandlerType DEF TokensIdentifyAttempts, Handlers
<1>8. NewestTokens'
  BY <1>2, <1>3, <1>5 DEF NewestTokens
<1> QED BY <1>4, <1>6, <1>7, <1>8

LEMMA FencedWriteIInv ==
  ASSUME LeaseIInv, NEW h \in Handlers, FencedWrite(h)
  PROVE  LeaseIInv'
<1> USE DEF LeaseIInv
<1>1. /\ written' = [written EXCEPT ![h.job] = h.fence]
      /\ UNCHANGED <<jobs, time, active, detached>>
      /\ jobs[h.job].fence = h.fence
  BY DEF FencedWrite, Owns
<1>2. h.job \in Job /\ h.fence \in Nat
  BY HandlerType
<1>3. LeaseTypeOK' /\ RowInv' /\ TokensIdentifyAttempts'
  BY <1>1, <1>2 DEF LeaseTypeOK, RowInv, TokensIdentifyAttempts, Handlers
<1>4. NewestTokens'
  BY <1>1, <1>2 DEF NewestTokens, LeaseTypeOK
<1> QED BY <1>3, <1>4

LEMMA InvalidateJobIInv ==
  ASSUME LeaseIInv, NEW j \in Job, InvalidateJob(j)
  PROVE  LeaseIInv'
<1> USE DEF LeaseIInv
<1>1. jobs' = [jobs EXCEPT ![j].status = "failed", ![j].owner = NoWorker, ![j].expires = 0,
                           ![j].fence = @ + 1, ![j].result = jobs[j].fence + 1]
  BY DEF InvalidateJob, NextToken
<1>2. UNCHANGED <<time, active, detached, written>>
  BY DEF InvalidateJob, NextToken
<1>3. LeaseTypeOK'
  BY <1>1, <1>2 DEF LeaseTypeOK, Row, Settled
<1>4. /\ \A i \in Job : i # j => jobs'[i] = jobs[i]
      /\ jobs'[j].status = "failed" /\ jobs'[j].owner = NoWorker
      /\ jobs'[j].fence = jobs[j].fence + 1 /\ jobs'[j].result = jobs'[j].fence
      /\ jobs[j].fence \in Nat
  BY <1>1 DEF LeaseTypeOK, Row
<1>5. RowInv'
  BY <1>4 DEF RowInv, Settled
<1>6. TokensIdentifyAttempts'
  <2>1. \A h \in Handlers : h.fence \in 1 .. jobs[h.job].fence /\ h.job \in Job
    BY HandlerType DEF TokensIdentifyAttempts
  <2>2. \A i \in Job : jobs[i].fence \in Nat /\ jobs'[i].fence \in Nat /\ jobs'[i].fence >= jobs[i].fence
    BY <1>4 DEF LeaseTypeOK, Row
  <2>3. ASSUME NEW h \in Handlers PROVE h.fence \in 1 .. jobs'[h.job].fence
    <3>1. h.job \in Job /\ h.fence \in 1 .. jobs[h.job].fence
      BY <2>1
    <3>2. jobs[h.job].fence \in Nat /\ jobs'[h.job].fence \in Nat /\ jobs'[h.job].fence >= jobs[h.job].fence
      BY <2>2, <3>1
    <3> HIDE DEF LeaseIInv
    <3> QED BY <3>1, <3>2
  <2> QED BY <2>3, <1>2 DEF TokensIdentifyAttempts, Handlers
<1>7. NewestTokens'
  <2>1. \A i \in Job : /\ written[i] \in Nat /\ jobs[i].fence \in Nat
                       /\ written[i] <= jobs[i].fence
                       /\ jobs[i].result # 0 => jobs[i].result = jobs[i].fence
    BY DEF LeaseTypeOK, Row, NewestTokens
  <2>2. \A i \in Job \ {j} : written'[i] = written[i] /\ jobs'[i] = jobs[i]
    BY <1>2, <1>4
  <2>3. written'[j] = written[j] /\ written[j] <= jobs[j].fence + 1
    BY <1>2, <2>1
  <2> HIDE DEF LeaseIInv
  <2> QED BY <1>4, <2>1, <2>2, <2>3 DEF NewestTokens
<1> QED BY <1>3, <1>5, <1>6, <1>7

(* Steps that only drop or move handlers, or advance time. *)
LEMMA HandlerStepIInv ==
  ASSUME LeaseIInv, Handlers' \subseteq Handlers, active' \subseteq Handlers, detached' \subseteq Handlers,
         UNCHANGED <<jobs, written>>, time' \in Nat
  PROVE  LeaseIInv'
<1>1. LeaseTypeOK'
  BY DEF LeaseIInv, LeaseTypeOK, Handlers
<1>2. RowInv' /\ TokensIdentifyAttempts' /\ NewestTokens'
  BY DEF LeaseIInv, RowInv, TokensIdentifyAttempts, NewestTokens
<1> QED BY <1>1, <1>2 DEF LeaseIInv

LEMMA NextIInv == LeaseIInv /\ [LeaseNext]_leaseVars => LeaseIInv'
<1> SUFFICES ASSUME LeaseIInv, [LeaseNext]_leaseVars PROVE LeaseIInv'
  OBVIOUS
<1>0. time \in Nat
  BY DEF LeaseIInv, LeaseTypeOK
<1>1. ASSUME NEW j \in Job, PutJob(j) PROVE LeaseIInv'
  BY <1>1, PutJobIInv
<1>2. ASSUME NEW j \in Job, InvalidateJob(j) PROVE LeaseIInv'
  BY <1>2, InvalidateJobIInv
<1>3. ASSUME NEW w \in Worker, Claim(w) PROVE LeaseIInv'
  BY <1>3, ClaimIInv
<1>4. ASSUME NEW w \in Worker, CrashWorker(w) PROVE LeaseIInv'
  BY <1>0, <1>4, HandlerStepIInv DEF CrashWorker, Handlers
<1>5. ASSUME NEW h \in Handlers, RenewLease(h) PROVE LeaseIInv'
  BY <1>5, RenewLeaseIInv
<1>6. ASSUME NEW h \in Handlers, FencedWrite(h) PROVE LeaseIInv'
  BY <1>6, FencedWriteIInv
<1>7. ASSUME NEW h \in Handlers, NEW outcome \in Settled, SettleLeased(h, outcome) PROVE LeaseIInv'
  BY <1>7, SettleLeasedIInv
<1>8. ASSUME NEW h \in Handlers, DetachHandler(h) PROVE LeaseIInv'
  BY <1>0, <1>8, HandlerStepIInv DEF DetachHandler, Handlers
<1>9. ASSUME NEW h \in Handlers, FinishHandler(h) PROVE LeaseIInv'
  BY <1>0, <1>9, HandlerStepIInv DEF FinishHandler, Handlers
<1>10. CASE Tick
  BY <1>0, <1>10, HandlerStepIInv DEF Tick, Handlers
<1>11. CASE UNCHANGED leaseVars
  BY <1>0, <1>11, HandlerStepIInv DEF leaseVars, Handlers
<1> QED BY <1>1, <1>2, <1>3, <1>4, <1>5, <1>6, <1>7, <1>8, <1>9, <1>10, <1>11 DEF LeaseNext

LEMMA Inductive == LeaseSpec => []LeaseIInv
  BY LeaseInitIInv, NextIInv, PTL DEF LeaseSpec

(* The variables keep their types: the bounds play no part. *)
THEOREM LeaseTypeCorrect == LeaseSpec => []LeaseTypeOK
  BY Inductive, PTL DEF LeaseIInv

(* Every token is given out once (claimJob). *)
THEOREM TokensAreUnique == LeaseSpec => []TokensIdentifyAttempts
  BY Inductive, PTL DEF LeaseIInv

(* Storage never accepts two running handlers for one job. *)
THEOREM OwnerIsUnique == LeaseSpec => []SingleOwner
<1>1. LeaseIInv => SingleOwner
  BY DEF LeaseIInv, TokensIdentifyAttempts, SingleOwner, Owns
<1> QED BY <1>1, Inductive, PTL

----------------------------------------------------------------------------
(* What one step may do to the part of the state the contract speaks of *)

LEMMA PutJobStep ==
  ASSUME LeaseIInv, NEW j \in Job, PutJob(j)
  PROVE  UNCHANGED Contract!vars
<1>1. PICK at \in 0 .. MaxTime : jobs' = [jobs EXCEPT ![j] = [AbsentRow EXCEPT !.status = "available", !.availableAt = at]]
  BY DEF PutJob
<1>2. jobs[j] = AbsentRow
  BY DEF PutJob, LeaseIInv, RowInv
<1>3. \A i \in Job : /\ jobs'[i].fence = jobs[i].fence /\ jobs'[i].owner = jobs[i].owner
                     /\ (i # j => jobs'[i] = jobs[i])
  BY <1>1, <1>2 DEF LeaseIInv, LeaseTypeOK, AbsentRow
<1>4. jobs'[j].status \notin Settled /\ jobs[j].status \notin Settled
  BY <1>1, <1>2 DEF LeaseIInv, LeaseTypeOK, AbsentRow, Settled
<1> QED BY <1>3, <1>4 DEF PutJob, Contract!vars

LEMMA ClaimStep ==
  ASSUME LeaseIInv, NEW w \in Worker, Claim(w)
  PROVE  \E j \in Job : Contract!Grant(w, j)
<1>1. PICK now \in Stamp, j \in Job :
        /\ Claimable(w, j, now)
        /\ jobs' = [jobs EXCEPT ![j].status = "leased", ![j].owner = w,
                                ![j].expires = now + LeaseTicks, ![j].fence = @ + 1]
  BY DEF Claim, NextToken
<1>2. jobs[j].status \notin Settled
  BY <1>1 DEF Claimable, Settled
<1>3. /\ \A i \in Job : i # j => jobs'[i] = jobs[i]
      /\ jobs'[j].status = "leased" /\ jobs'[j].owner = w /\ jobs'[j].fence = jobs[j].fence + 1
  BY <1>1 DEF LeaseIInv, LeaseTypeOK, Row
<1>4. written' = written
  BY DEF Claim, NextToken
<1> QED BY <1>2, <1>3, <1>4 DEF Contract!Grant, Settled

LEMMA RenewLeaseStep ==
  ASSUME LeaseIInv, NEW h \in Handlers, RenewLease(h)
  PROVE  UNCHANGED Contract!vars
<1>1. PICK now \in StampOf(h) : jobs' = [jobs EXCEPT ![h.job].expires = now + LeaseTicks]
  BY DEF RenewLease
<1>2. \A i \in Job : /\ jobs'[i].status = jobs[i].status
                     /\ jobs'[i].owner = jobs[i].owner /\ jobs'[i].fence = jobs[i].fence
  BY <1>1, HandlerType DEF LeaseIInv, LeaseTypeOK, Row
<1> QED BY <1>2 DEF RenewLease, Contract!vars

LEMMA SettleLeasedStep ==
  ASSUME LeaseIInv, NEW h \in Handlers, NEW outcome \in Settled, SettleLeased(h, outcome)
  PROVE  Contract!Close(h.job, outcome)
<1>1. h.job \in Job /\ jobs[h.job].status = "leased" /\ jobs[h.job].owner = h.worker /\ h.worker \in Worker
  BY HandlerType DEF LeaseIInv, SettleLeased, Owns
<1>2. /\ \A i \in Job : i # h.job => jobs'[i] = jobs[i]
      /\ jobs'[h.job].status = outcome /\ jobs'[h.job].owner = NoWorker
      /\ jobs'[h.job].fence = jobs[h.job].fence
  BY <1>1 DEF LeaseIInv, LeaseTypeOK, Row, SettleLeased
<1>3. written' = written
  BY DEF SettleLeased
<1> QED BY <1>1, <1>2, <1>3 DEF Contract!Close, Settled, JobLeaseAssumption

LEMMA FencedWriteStep ==
  ASSUME LeaseIInv, NEW h \in Handlers, FencedWrite(h)
  PROVE  Contract!Write(h.job)
<1>1. /\ h.job \in Job /\ jobs[h.job].owner = h.worker /\ h.worker \in Worker
      /\ jobs[h.job].fence = h.fence /\ jobs' = jobs
      /\ written' = [written EXCEPT ![h.job] = h.fence]
  BY HandlerType DEF LeaseIInv, FencedWrite, Owns
<1> QED BY <1>1 DEF Contract!Write, JobLeaseAssumption

LEMMA InvalidateJobStep ==
  ASSUME LeaseIInv, NEW j \in Job, InvalidateJob(j)
  PROVE  Contract!Withdraw(j)
<1>1. /\ \A i \in Job : i # j => jobs'[i] = jobs[i]
      /\ jobs'[j].status = "failed" /\ jobs'[j].owner = NoWorker
      /\ jobs'[j].fence = jobs[j].fence + 1
  BY DEF LeaseIInv, LeaseTypeOK, Row, InvalidateJob, NextToken
<1>2. jobs[j].status \notin Settled /\ written' = written
  BY DEF InvalidateJob, NextToken, Settled
<1> QED BY <1>1, <1>2 DEF Contract!Withdraw, Settled

(* Every step of the queue is a step of the contract or invisible to it. *)
LEMMA StepRefines == LeaseIInv /\ [LeaseNext]_leaseVars => [Contract!Next]_(Contract!vars)
<1> SUFFICES ASSUME LeaseIInv, [LeaseNext]_leaseVars PROVE [Contract!Next]_(Contract!vars)
  OBVIOUS
<1>1. ASSUME NEW j \in Job, PutJob(j) PROVE UNCHANGED Contract!vars
  BY <1>1, PutJobStep
<1>2. ASSUME NEW j \in Job, InvalidateJob(j) PROVE Contract!Next
  BY <1>2, InvalidateJobStep DEF Contract!Next
<1>3. ASSUME NEW w \in Worker, Claim(w) PROVE Contract!Next
  BY <1>3, ClaimStep DEF Contract!Next
<1>4. ASSUME NEW h \in Handlers, RenewLease(h) PROVE UNCHANGED Contract!vars
  BY <1>4, RenewLeaseStep
<1>5. ASSUME NEW h \in Handlers, FencedWrite(h) PROVE Contract!Next
  BY <1>5, FencedWriteStep, HandlerType DEF Contract!Next, LeaseIInv
<1>6. ASSUME NEW h \in Handlers, NEW outcome \in Settled, SettleLeased(h, outcome) PROVE Contract!Next
  BY <1>6, SettleLeasedStep, HandlerType DEF Contract!Next, LeaseIInv, Settled
<1>7. ASSUME UNCHANGED <<jobs, written>> PROVE UNCHANGED Contract!vars
  BY <1>7 DEF Contract!vars
<1> QED
  BY <1>1, <1>2, <1>3, <1>4, <1>5, <1>6, <1>7
  DEF LeaseNext, leaseVars, CrashWorker, DetachHandler, FinishHandler, Tick

(* The queue implements the contract of FencedJob: the claim, settlement and *)
(* invalidation code hands out growing tokens and honours only the newest.   *)
THEOREM Refinement == LeaseSpec => ImplementsFencedJob
<1>1. LeaseInit => Contract!Init
  BY DEF LeaseInit, Contract!Init, AbsentRow, Settled
<1>2. QED
  BY <1>1, StepRefines, Inductive, PTL DEF LeaseSpec, ImplementsFencedJob, Contract!Spec

----------------------------------------------------------------------------
(* Action properties *)

(* A settled job is never reopened and nothing is written under it any more. *)
THEOREM SettlementIsFinal == LeaseSpec => SettledIsFinal
<1> DEFINE Final == \A j \in Job : jobs[j].status \in Settled =>
                      jobs'[j] = jobs[j] /\ written'[j] = written[j]
<1>1. LeaseIInv /\ [LeaseNext]_leaseVars => Final
  <2> SUFFICES ASSUME LeaseIInv, [LeaseNext]_leaseVars, NEW j \in Job, jobs[j].status \in Settled
               PROVE  jobs'[j] = jobs[j] /\ written'[j] = written[j]
    OBVIOUS
  <2> USE DEF LeaseIInv, LeaseTypeOK, Settled
  <2>1. ASSUME NEW i \in Job, PutJob(i) PROVE jobs'[j] = jobs[j] /\ written'[j] = written[j]
    BY <2>1 DEF PutJob
  <2>2. ASSUME NEW i \in Job, InvalidateJob(i) PROVE jobs'[j] = jobs[j] /\ written'[j] = written[j]
    BY <2>2 DEF InvalidateJob, NextToken
  <2>3. ASSUME NEW w \in Worker, Claim(w) PROVE jobs'[j] = jobs[j] /\ written'[j] = written[j]
    BY <2>3 DEF Claim, NextToken, Claimable
  <2>4. ASSUME NEW h \in Handlers, RenewLease(h) PROVE jobs'[j] = jobs[j] /\ written'[j] = written[j]
    BY <2>4 DEF RenewLease, Owns
  <2>5. ASSUME NEW h \in Handlers, FencedWrite(h) PROVE jobs'[j] = jobs[j] /\ written'[j] = written[j]
    BY <2>5 DEF FencedWrite, Owns
  <2>6. ASSUME NEW h \in Handlers, NEW outcome \in Settled, SettleLeased(h, outcome)
        PROVE  jobs'[j] = jobs[j] /\ written'[j] = written[j]
    BY <2>6 DEF SettleLeased, Owns
  <2> QED
    BY <2>1, <2>2, <2>3, <2>4, <2>5, <2>6
    DEF LeaseNext, leaseVars, CrashWorker, DetachHandler, FinishHandler, Tick
<1>2. QED
  BY <1>1, Inductive, PTL DEF LeaseSpec, SettledIsFinal

(* A step writes and settles under the newest token, and no earlier write had a newer one. *)
LEMMA StepOrder ==
  ASSUME LeaseIInv, [LeaseNext]_leaseVars, NEW j \in Job
  PROVE  /\ written'[j] >= written[j]
         /\ jobs'[j].result # jobs[j].result => jobs'[j].result >= written[j]
<1> DEFINE Ordered == /\ written'[j] >= written[j]
                      /\ jobs'[j].result # jobs[j].result => jobs'[j].result >= written[j]
<1>1. /\ written[j] \in Nat /\ jobs[j].fence \in Nat /\ written[j] <= jobs[j].fence
      /\ jobs \in [Job -> Row] /\ written \in [Job -> Nat]
  BY DEF LeaseIInv, LeaseTypeOK, Row, NewestTokens
<1>2. ASSUME NEW h \in Handlers, FencedWrite(h) PROVE Ordered
  <2>1. h.job \in Job /\ h.fence \in Nat /\ jobs[h.job].fence = h.fence
    BY <1>2, HandlerType DEF LeaseIInv, FencedWrite, Owns
  <2>2. jobs' = jobs /\ written'[j] = IF j = h.job THEN h.fence ELSE written[j]
    BY <1>1, <1>2, <2>1 DEF FencedWrite
  <2> QED BY <1>1, <2>1, <2>2
<1>3. ASSUME NEW h \in Handlers, NEW outcome \in Settled, SettleLeased(h, outcome) PROVE Ordered
  <2>1. h.job \in Job /\ h.fence \in Nat /\ jobs[h.job].fence = h.fence
    BY <1>3, HandlerType DEF LeaseIInv, SettleLeased, Owns
  <2>2. written' = written /\ jobs'[j].result = IF j = h.job THEN h.fence ELSE jobs[j].result
    BY <1>1, <1>3, <2>1 DEF SettleLeased, Row
  <2> QED BY <1>1, <2>1, <2>2
<1>4. ASSUME NEW i \in Job, InvalidateJob(i) PROVE Ordered
  <2>1. written' = written /\ jobs'[j].result = IF j = i THEN jobs[j].fence + 1 ELSE jobs[j].result
    BY <1>1, <1>4 DEF InvalidateJob, NextToken, Row
  <2> QED BY <1>1, <2>1
<1>5. ASSUME NEW i \in Job, PutJob(i) PROVE Ordered
  <2>1. jobs[i] = AbsentRow
    BY <1>5 DEF PutJob, LeaseIInv, RowInv
  <2>2. written' = written /\ jobs'[j].result = jobs[j].result
    BY <1>1, <1>5, <2>1 DEF PutJob, AbsentRow
  <2> QED BY <1>1, <2>2
<1>6. ASSUME NEW w \in Worker, Claim(w) PROVE Ordered
  <2>1. written' = written /\ jobs'[j].result = jobs[j].result
    BY <1>1, <1>6 DEF Claim, NextToken, Row
  <2> QED BY <1>1, <2>1
<1>7. ASSUME NEW h \in Handlers, RenewLease(h) PROVE Ordered
  <2>1. written' = written /\ jobs'[j].result = jobs[j].result
    BY <1>1, <1>7 DEF RenewLease, Row
  <2> QED BY <1>1, <2>1
<1>8. ASSUME UNCHANGED <<jobs, written>> PROVE Ordered
  BY <1>1, <1>8
<1> QED
  BY <1>2, <1>3, <1>4, <1>5, <1>6, <1>7, <1>8
  DEF LeaseNext, leaseVars, CrashWorker, DetachHandler, FinishHandler, Tick

(* A handler whose token has been replaced neither writes over its successor *)
(* nor settles the job past it (fencedCodingStore, #settleLeasedJob).        *)
THEOREM WritesNeverGoBack == LeaseSpec => TokenOrderedWrites
<1>1. LeaseIInv /\ [LeaseNext]_leaseVars =>
        \A j \in Job : /\ written'[j] >= written[j]
                       /\ jobs'[j].result # jobs[j].result => jobs'[j].result >= written[j]
  BY StepOrder
<1>2. QED
  BY <1>1, Inductive, PTL DEF LeaseSpec, TokenOrderedWrites
=============================================================================

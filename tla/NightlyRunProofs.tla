-------------------------- MODULE NightlyRunProofs --------------------------
(***************************************************************************)
(* Proofs about NightlyRun, for any number of customers and workers: its   *)
(* type invariant, and that a run bills what the panel shows.              *)
(***************************************************************************)
EXTENDS NightlyRun, TLAPS

(* What the proofs need of the constants. *)
LEMMA Bounds == /\ \A l \in Lengths : l \in Nat /\ l > 0
                /\ MaxQueue \in Nat
<1>1. MaxQueue \in Nat /\ Lengths \subseteq Nat \ {0}
  BY NightlyRunAssumption
<1> QED BY <1>1

LEMMA ScheduleFields ==
    \A s \in Schedules : s.day \in Nat /\ s.rule \in {"", "FIRST", "LAST"}
<1>1. Schedules \subseteq [day : Nat, rule : {"", "FIRST", "LAST"}]
  BY NightlyRunAssumption
<1> QED BY <1>1

(* What a run can be. *)
RunsOK == /\ run \in [Workers -> {Idle} \cup BusyRuns]
          /\ \A w \in Workers : Busy(w) => (run[w].past => run[w].crossed)

(* One run moves on, or ends, the others stay as they are. *)
LEMMA OneRunMoves ==
    ASSUME RunsOK, NEW w \in Workers, NEW r \in {Idle} \cup BusyRuns,
           r.phase = "busy" => (r.past => r.crossed),
           run' = [run EXCEPT ![w] = r]
    PROVE  RunsOK'
<1>1. run' \in [Workers -> {Idle} \cup BusyRuns]
  BY DEF RunsOK
<1>2. ASSUME NEW v \in Workers, Busy(v)', run'[v].past PROVE run'[v].crossed
  <2>1. CASE v = w
    BY <1>2, <2>1 DEF RunsOK, Busy
  <2>2. CASE v # w
    BY <1>2, <2>2 DEF RunsOK, Busy
  <2> QED BY <2>1, <2>2
<1> QED BY <1>1, <1>2 DEF RunsOK

(* A customer is done, billed or not. *)
LEMMA OneCustomerDone ==
    ASSUME RunsOK, NEW w \in Workers, NEW c \in Customers, Visits(w, c),
           run' = [run EXCEPT ![w].todo = run[w].todo \ {c}]
    PROVE  RunsOK'
<1> DEFINE r == [run[w] EXCEPT !.todo = run[w].todo \ {c}]
<1>1. run[w] \in BusyRuns
  BY DEF RunsOK, Visits, Busy, Idle, BusyRuns
<1>2. r \in BusyRuns /\ r.past = run[w].past /\ r.crossed = run[w].crossed
  BY <1>1 DEF BusyRuns
<1>3. run' = [run EXCEPT ![w] = r]
  BY <1>1 DEF RunsOK
<1>4. run[w].past => run[w].crossed
  BY DEF RunsOK, Visits
<1> HIDE DEF r
<1> QED BY <1>2, <1>3, <1>4, OneRunMoves

(* At midnight every run goes on, and knows. *)
LEMMA RunsMeetMidnight == RunsOK /\ NextDay => RunsOK'
<1> SUFFICES ASSUME RunsOK, NextDay PROVE RunsOK'
  OBVIOUS
<1> DEFINE Later(w) == IF Busy(w) THEN [run[w] EXCEPT !.crossed = TRUE, !.past = LastDay]
                                  ELSE Idle
<1>1. run' = [w \in Workers |-> Later(w)]
  BY DEF NextDay
<1>2. ASSUME NEW w \in Workers
      PROVE  Later(w) = Idle \/ (Later(w) \in BusyRuns /\ Later(w).crossed)
  <2>1. CASE Busy(w)
    <3>1. run[w] \in BusyRuns
      BY <2>1 DEF RunsOK, Busy, Idle, BusyRuns
    <3>2. LastDay \in BOOLEAN
      BY DEF LastDay
    <3> QED BY <2>1, <3>1, <3>2 DEF BusyRuns
  <2>2. CASE ~Busy(w)
    BY <2>2
  <2> QED BY <2>1, <2>2
<1> HIDE DEF Later
<1>3. run' \in [Workers -> {Idle} \cup BusyRuns]
  BY <1>1, <1>2
<1>4. \A w \in Workers : Busy(w)' => (run'[w].past => run'[w].crossed)
  BY <1>1, <1>2 DEF Busy, Idle
<1> QED BY <1>3, <1>4 DEF RunsOK

(* A step of the nightly run keeps the variables within their types. *)
LEMMA StepKeepsTypes == TypeOK /\ [Next]_vars => TypeOK'
<1> SUFFICES ASSUME TypeOK, [Next]_vars PROVE TypeOK'
  OBVIOUS
<1> DEFINE Calendar == length \in Lengths /\ day \in 1 .. length
           Work == owed \in [Customers -> SUBSET Months]
           Messages == sent \in BOOLEAN /\ queue \in 0 .. MaxQueue
           Set == schedule \in [Customers -> Schedules]
<1>0. RunsOK /\ Calendar /\ Work /\ Messages /\ Set
  BY DEF TypeOK, RunsOK
<1>q. (RunsOK' /\ Calendar' /\ Work' /\ Messages' /\ Set') => TypeOK'
  BY DEF TypeOK, RunsOK
<1>1. CASE NextDay
  <2>1. Calendar'
    <3>0. length \in Nat /\ length > 0 /\ day \in Nat /\ 1 <= day /\ day <= length
      BY <1>0, Bounds
    <3>1. CASE LastDay
      <4>1. day' = 1 /\ length' \in Lengths
        BY <1>1, <3>1 DEF NextDay
      <4> QED BY <4>1, Bounds
    <3>2. CASE ~LastDay
      <4>1. day' = day + 1 /\ length' = length
        BY <1>1, <3>2 DEF NextDay
      <4>2. day # length
        BY <3>2 DEF LastDay
      <4> QED BY <1>0, <3>0, <4>1, <4>2
    <3> QED BY <3>1, <3>2
  <2>2. Work'
    BY <1>0, <1>1 DEF NextDay, Months
  <2>3. RunsOK'
    BY <1>0, <1>1, RunsMeetMidnight
  <2> QED BY <1>0, <1>1, <1>q, <2>1, <2>2, <2>3 DEF NextDay
<1>2. CASE Tick
  BY <1>0, <1>2, <1>q, Bounds DEF Tick, RunsOK, Busy
<1>3. ASSUME NEW c \in Customers, Earn(c) PROVE TypeOK'
  BY <1>0, <1>3, <1>q DEF Earn, RunsOK, Busy
<1>4. ASSUME NEW c \in Customers, Generate(c) PROVE TypeOK'
  BY <1>0, <1>4, <1>q DEF Generate, RunsOK, Busy
<1>5. ASSUME NEW c \in Customers, SetSchedule(c) PROVE TypeOK'
  BY <1>0, <1>5, <1>q DEF SetSchedule, RunsOK, Busy
<1>6. ASSUME NEW w \in Workers, Start(w) PROVE TypeOK'
  <2> DEFINE r == [phase |-> "busy", crossed |-> FALSE, past |-> FALSE,
                   todo |-> {c \in Customers : IsBillingDay(schedule[c], day, length)}]
  <2>1. r \in BusyRuns /\ ~r.past
    BY DEF BusyRuns
  <2>2. run' = [run EXCEPT ![w] = r]
    BY <1>6 DEF Start
  <2> HIDE DEF r
  <2>3. RunsOK'
    BY <1>0, <2>1, <2>2, OneRunMoves
  <2>4. Messages'
    BY <1>0, <1>6, Bounds DEF Start
  <2> QED BY <1>0, <1>6, <1>q, <2>3, <2>4 DEF Start
<1>7. ASSUME NEW w \in Workers, NEW c \in Customers, Bill(w, c) PROVE TypeOK'
  <2>1. Work'
    BY <1>0, <1>7 DEF Bill
  <2>2. RunsOK'
    BY <1>0, <1>7, OneCustomerDone DEF Bill
  <2> QED BY <1>0, <1>7, <1>q, <2>1, <2>2 DEF Bill
<1>8. ASSUME NEW w \in Workers, NEW c \in Customers, Fail(w, c) PROVE TypeOK'
  <2>1. RunsOK'
    BY <1>0, <1>8, OneCustomerDone DEF Fail, CarriesOn
  <2> QED BY <1>0, <1>8, <1>q, <2>1 DEF Fail
<1>9. ASSUME NEW w \in Workers, Finish(w) \/ Die(w) PROVE TypeOK'
  <2>1. RunsOK'
    <3>1. run' = [run EXCEPT ![w] = Idle] /\ Idle.phase # "busy"
      BY <1>9 DEF Finish, Die, Idle
    <3> QED BY <1>0, <3>1, OneRunMoves
  <2>2. Messages'
    BY <1>0, <1>9, Bounds DEF Finish, Die
  <2> QED BY <1>0, <1>9, <1>q, <2>1, <2>2 DEF Finish, Die
<1>10. CASE UNCHANGED vars
  BY <1>0, <1>10, <1>q DEF vars, RunsOK, Busy
<1> QED
  BY <1>1, <1>2, <1>3, <1>4, <1>5, <1>6, <1>7, <1>8, <1>9, <1>10 DEF Next, Continue

(* The day, the work owed, the queue and every run always have their types, *)
(* and a run only counts the month as over once it has met midnight.        *)
THEOREM TypeCorrect == Spec => []TypeOK
<1>1. Init => TypeOK
  <2> SUFFICES ASSUME Init PROVE TypeOK
    OBVIOUS
  <2>1. length \in Lengths /\ day \in 1 .. length
    BY Bounds DEF Init
  <2>2. owed \in [Customers -> SUBSET Months] /\ queue \in 0 .. MaxQueue
    BY Bounds DEF Init
  <2>3. run \in [Workers -> {Idle} \cup BusyRuns] /\ \A w \in Workers : ~Busy(w)
    BY DEF Init, Idle, Busy
  <2> QED BY <2>1, <2>2, <2>3 DEF Init, TypeOK
<1> QED BY <1>1, StepKeepsTypes, PTL DEF Spec, Safety

(* On a customer's billing day the panel's softer test says yes. *)
LEMMA BillingDayIsReached ==
    ASSUME NEW s \in Schedules, NEW d \in Nat \ {0}, NEW l \in Lengths, IsBillingDay(s, d, l)
    PROVE  BillingDayReached(s, d, l)
<1>1. s.day \in Nat /\ s.rule \in {"", "FIRST", "LAST"} /\ l \in Nat
  BY Bounds, ScheduleFields
<1>2. CASE s.day # 0
  <2>1. d = s.day
    BY <1>2 DEF IsBillingDay, BillingDay
  <2>2. d >= s.day
    <3> DEFINE n == s.day
    <3>1. n \in Nat /\ d = n
      BY <1>1, <2>1
    <3> HIDE DEF n
    <3>2. d >= n
      BY <3>1
    <3> QED BY <3>2 DEF n
  <2> QED BY <1>2, <2>2 DEF BillingDayReached
<1>3. CASE s.day = 0 /\ s.rule = "FIRST"
  BY <1>3 DEF BillingDayReached
<1>4. CASE s.day = 0 /\ s.rule = "LAST"
  <2>1. BillingDay(s, l) = l /\ BillingDayReached(s, d, l) = (d = l)
    BY <1>4 DEF BillingDay, BillingDayReached
  <2> QED BY <2>1 DEF IsBillingDay
<1>5. CASE s.day = 0 /\ s.rule = ""
  <2>1. BillingDay(s, l) = 0
    BY <1>5 DEF BillingDay
  <2> QED BY <2>1 DEF IsBillingDay
<1> QED BY <1>1, <1>2, <1>3, <1>4, <1>5

(* A run that has not met midnight leaves a customer it bills with nothing  *)
(* the panel calls outstanding, and only bills on days the panel calls due. *)
THEOREM RunAndPanelAgree == Spec => PanelAgrees
<1>1. ASSUME TypeOK, [Next]_vars,
             NEW w \in Workers, NEW c \in Customers, Bill(w, c), ~run[w].crossed
      PROVE  /\ owed'[c] \cap Outstanding = {}
             /\ BillingDayOf(c) => BillingDayReached(schedule[c], day, length)
  <2>1. run[w] \in BusyRuns /\ ~run[w].past
    BY <1>1 DEF TypeOK, Bill, Visits, Busy, Idle, BusyRuns
  <2>2. owed'[c] = owed[c] \ Outstanding
    BY <1>1, <2>1 DEF TypeOK, Bill, Through
  <2>3. BillingDayOf(c) => BillingDayReached(schedule[c], day, length)
    <3>1. schedule[c] \in Schedules /\ day \in Nat \ {0} /\ length \in Lengths
      <4>1. /\ length \in Lengths /\ day \in 1 .. length
            /\ schedule \in [Customers -> Schedules]
        BY <1>1 DEF TypeOK
      <4> QED BY <4>1, Bounds
    <3> QED BY <3>1, BillingDayIsReached DEF BillingDayOf
  <2> QED BY <2>2, <2>3
<1>2. TypeOK /\ [Next]_vars =>
        [\A w \in Workers, c \in Customers :
           Bill(w, c) /\ ~run[w].crossed =>
             /\ owed'[c] \cap Outstanding = {}
             /\ BillingDayOf(c) => BillingDayReached(schedule[c], day, length)]_vars
  BY <1>1
<1> QED BY <1>2, TypeCorrect, PTL DEF Spec, Safety, PanelAgrees
=============================================================================

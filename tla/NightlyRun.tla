----------------------------- MODULE NightlyRun -----------------------------
(***************************************************************************)
(* The daily invoice run.  Once a day beat sends a message; a worker that  *)
(* takes it bills every customer whose billing day it then is, one after   *)
(* the other, for all work billable in that month or before.  A day's      *)
(* message can be missing, wait until the next day, or be delivered again  *)
(* after the worker died; a run can be under way at midnight.  What is     *)
(* left is only looked at again on the customer's next billing day, a      *)
(* month later.                                                            *)
(*                                                                         *)
(* The generation of a customer's invoices is one step here, Invoicing has *)
(* its parts; the contracts at the end of a run are in ContractBilling.    *)
(***************************************************************************)
EXTENDS Naturals, FiniteSetsExt

CONSTANTS Last,      \* the last customer: customers are run by id, from 1
          Broken,    \* customers whose run raises every time
          Workers,
          Lengths,   \* how long a month can be
          Schedules, \* what an invoice_day_of_month, 0 for NULL, and an
                     \* invoice_day_rule can be set to
          MaxQueue   \* bound: messages waiting

ASSUME NightlyRunAssumption ==
    /\ Last \in Nat /\ MaxQueue \in Nat
    /\ Lengths \subseteq Nat \ {0}
    /\ Schedules \subseteq [day : Nat, rule : {"", "FIRST", "LAST"}]
    /\ \A s \in Schedules, l \in Lengths : s.day <= l

Customers == 1 .. Last

\* No schedule; also stands for a customer that is not active.
NoSchedule == [day |-> 0, rule |-> ""]

\* Unbilled work of a customer, by the month it is billable in.
Months == {"earlier", "this", "later"}

VARIABLES day, length,   \* today, and how long this month is
          schedule,      \* of each customer
          owed,          \* the months each customer has unbilled work from
          sent,          \* today's message has been sent
          queue,         \* messages waiting for a worker
          run            \* run_daily_invoice_run, per worker

vars == <<day, length, schedule, owed, sent, queue, run>>

-----------------------------------------------------------------------------
(* Whose billing day is it?                                                *)

\* effective_billing_day, 0 without a schedule.
BillingDay(s, l) ==
    CASE s.day # 0      -> s.day
      [] s.day = 0 /\ s.rule = "FIRST" -> 1
      [] s.day = 0 /\ s.rule = "LAST"  -> l
      [] OTHER -> 0

IsBillingDay(s, d, l) == d = BillingDay(s, l)

\* The panel's softer test.
BillingDayReached(s, d, l) ==
    CASE s.day # 0      -> d >= s.day
      [] s.day = 0 /\ s.rule = "FIRST" -> TRUE
      [] s.day = 0 /\ s.rule = "LAST"  -> d = l
      [] OTHER -> FALSE

\* What the panel counts as outstanding.
Outstanding == {"earlier", "this"}

-----------------------------------------------------------------------------
Idle == [phase |-> "idle"]
BusyRuns == [phase : {"busy"}, crossed : BOOLEAN, past : BOOLEAN, todo : SUBSET Customers]
Busy(w) == run[w].phase = "busy"

Init ==
    /\ day = 1 /\ length \in Lengths
    /\ schedule \in [Customers -> Schedules]
    /\ owed = [c \in Customers |-> {}]
    /\ sent = FALSE /\ queue = 0
    /\ run = [w \in Workers |-> Idle]

\* A month that is one day too long.
DayAfterLast == day > length

LastDay == day = length

\* Midnight.  A run is killed after two minutes, so it meets one at most.
NextDay ==
    /\ \A w \in Workers : Busy(w) => ~run[w].crossed
    /\ IF LastDay
       THEN /\ day' = 1 /\ length' \in Lengths
            /\ owed' = [c \in Customers |->
                          {m \in Months : \/ m = "earlier" /\ owed[c] \cap Outstanding # {}
                                          \/ m = "this" /\ "later" \in owed[c]}]
       ELSE day' = day + 1 /\ UNCHANGED <<length, owed>>
    /\ sent' = FALSE
    /\ run' = [w \in Workers |->
                 IF Busy(w) THEN [run[w] EXCEPT !.crossed = TRUE,
                                                !.past = LastDay]
                 ELSE Idle]
    /\ UNCHANGED <<schedule, queue>>

\* Work is finished, or released by a deleted draft, with any billing month.
Earn(c) ==
    /\ \E m \in Months \ owed[c] : owed' = [owed EXCEPT ![c] = owed[c] \cup {m}]
    /\ UNCHANGED <<day, length, schedule, sent, queue, run>>

\* The generate button.
Generate(c) ==
    /\ owed[c] \cap Outstanding # {}
    /\ owed' = [owed EXCEPT ![c] = owed[c] \ Outstanding]
    /\ UNCHANGED <<day, length, schedule, sent, queue, run>>

SetSchedule(c) ==
    /\ \E s \in Schedules \ {schedule[c]} : schedule' = [schedule EXCEPT ![c] = s]
    /\ UNCHANGED <<day, length, owed, sent, queue, run>>

-----------------------------------------------------------------------------
(* Beat and the workers.                                                   *)

Tick ==
    /\ ~sent /\ queue < MaxQueue
    /\ sent' = TRUE /\ queue' = queue + 1
    /\ UNCHANGED <<day, length, schedule, owed, run>>

\* The day and the candidates are read once.
Start(w) ==
    /\ ~Busy(w) /\ queue > 0
    /\ queue' = queue - 1
    /\ run' = [run EXCEPT ![w] =
                 [phase |-> "busy", crossed |-> FALSE, past |-> FALSE,
                  todo |-> {c \in Customers : IsBillingDay(schedule[c], day, length)}]]
    /\ UNCHANGED <<day, length, schedule, owed, sent>>

Visits(w, c) == Busy(w) /\ c \in run[w].todo /\ c = Min(run[w].todo)

\* A run for the work of its own month only.
ExactMonth(w) == IF run[w].past THEN {"earlier"} ELSE {"this"}

\* "this billing period OR ANY EARLIER one", as it was when the run started.
Through(w) == IF run[w].past THEN {"earlier"} ELSE Outstanding

\* A run that dies at the first problem.
StopsThere(w, c) == {}

CarriesOn(w, c) == run[w].todo \ {c}

Bill(w, c) ==
    /\ Visits(w, c) /\ c \notin Broken
    /\ owed' = [owed EXCEPT ![c] = owed[c] \ Through(w)]
    /\ run' = [run EXCEPT ![w].todo = run[w].todo \ {c}]
    /\ UNCHANGED <<day, length, schedule, sent, queue>>

\* An exception, or nobody whose scope the run could read through.
Fail(w, c) ==
    /\ Visits(w, c)
    /\ run' = [run EXCEPT ![w].todo = CarriesOn(w, c)]
    /\ UNCHANGED <<day, length, schedule, owed, sent, queue>>

\* The contracts are billed, or are not.
Finish(w) ==
    /\ Busy(w) /\ run[w].todo = {}
    /\ run' = [run EXCEPT ![w] = Idle]
    /\ UNCHANGED <<day, length, schedule, owed, sent, queue>>

\* The time limit, or a worker that goes down: acked late, the message can
\* be delivered again.
Die(w) ==
    /\ Busy(w)
    /\ run' = [run EXCEPT ![w] = Idle]
    /\ queue' \in {queue} \cup ({queue + 1} \cap 0 .. MaxQueue)
    /\ UNCHANGED <<day, length, schedule, owed, sent>>

-----------------------------------------------------------------------------
\* A run's next step, whatever it is.
Continue(w) == \/ Finish(w) \/ Die(w)
               \/ \E c \in Customers : Bill(w, c) \/ Fail(w, c)

Next ==
    \/ NextDay \/ Tick
    \/ \E c \in Customers : Earn(c) \/ Generate(c) \/ SetSchedule(c)
    \/ \E w \in Workers : Start(w) \/ Continue(w)

Safety == Init /\ [][Next]_vars

BillingDayOf(c) == IsBillingDay(schedule[c], day, length)

\* Days pass and runs come to an end.  Beat and the workers are down now and
\* then, not on every billing day of one customer; a run that has a customer
\* still to do dies now and then, not always at the same customer before it;
\* and a customer that is not broken is billed some time when it is its turn.
Fairness ==
    /\ WF_vars(NextDay)
    /\ \A w \in Workers : WF_vars(Continue(w))
    /\ \A c \in Customers \ Broken :
         /\ SF_vars(BillingDayOf(c) /\ Tick)
         /\ SF_vars(BillingDayOf(c) /\ \E w \in Workers : Start(w))
         /\ \A d \in 1 .. c - 1 :
              SF_vars(\E w \in Workers : /\ Busy(w) /\ c \in run[w].todo
                                         /\ Bill(w, d) \/ Fail(w, d))
         /\ SF_vars(\E w \in Workers : Bill(w, c))

Spec == Safety /\ Fairness

-----------------------------------------------------------------------------
(* Properties.                                                             *)

\* Every variable has its type; a run only has customers left that had a
\* schedule, and past midnight means the month can have ended.
TypeOK ==
    /\ length \in Lengths /\ day \in 1 .. length
    /\ schedule \in [Customers -> Schedules]
    /\ owed \in [Customers -> SUBSET Months]
    /\ sent \in BOOLEAN /\ queue \in 0 .. MaxQueue
    /\ run \in [Workers -> {Idle} \cup BusyRuns]
    /\ \A w \in Workers : Busy(w) => (run[w].past => run[w].crossed)

\* The panel and the run agree: what a run of today bills for a customer
\* whose schedule is still what it was is all that the panel shows as
\* outstanding, on a day the panel calls due.
PanelAgrees ==
    [][\A w \in Workers, c \in Customers :
          Bill(w, c) /\ ~run[w].crossed =>
              /\ owed'[c] \cap Outstanding = {}
              /\ BillingDayOf(c) => BillingDayReached(schedule[c], day, length)]_vars

\* Whoever keeps a billing day is billed for what has been left from earlier
\* months, by the next run or the one a month later: a night without a run
\* loses nothing, and another customer who fails every time holds nobody up.
CaughtUp ==
    \A c \in Customers \ Broken :
        <>[](schedule[c] # NoSchedule) /\ <>[][UNCHANGED schedule]_vars
            => ("earlier" \in owed[c] ~> "earlier" \notin owed[c])
=============================================================================

-------------------------- MODULE ContractBilling --------------------------
(***************************************************************************)
(* Contracts that bill by themselves.  A contract bills one draft invoice  *)
(* per calendar period it covers; which periods, and on what date, is      *)
(* computed from its header alone, every night, from its first day on.     *)
(* That a period has been billed is a row of its own, unique per contract  *)
(* and first day, which goes when its draft invoice is deleted.  Runs can  *)
(* overlap; each period is a transaction; the header a run works with is   *)
(* the one it read when it started.                                        *)
(*                                                                         *)
(* A date is a number of days; months and years have a fixed length here.  *)
(* Amounts, lines and the other things on an invoice are left out.         *)
(***************************************************************************)
EXTENDS Integers

CONSTANTS Contracts,
          Headers,     \* the terms a contract can be given
          Runs,        \* generator runs that can be under way
          MonthDays, YearMonths,
          Reruns,      \* days an operator runs the generator for, whatever the date
          Agreements,  \* days a revision can take effect on
          Days         \* bound: the days that are lived through, from 0

ASSUME ContractBillingAssumption ==
    /\ MonthDays \in Nat \ {0} /\ YearMonths \in Nat \ {0} /\ Days \in Nat
    /\ Reruns \subseteq Nat /\ Agreements \subseteq Nat
    /\ Headers \subseteq [start : Nat, end : Nat, months : Nat \ {0},
                          arrears : BOOLEAN, day : 0 .. MonthDays - 1]
    /\ \A h \in Headers : h.start <= h.end

VARIABLES today,
          header,   \* start_date, end_date, billing_period, billing_type, billing_day
          life,     \* lifecycle, or "deleted"
          agreed,   \* effective_from of the first revision
          patch,    \* the lifecycle a PATCH under way has read
          claims,   \* the ContractInvoice rows, and whether their invoice is live
          run,      \* generate_invoices
          moved     \* history: contracts whose periods were moved in use

vars == <<today, header, life, agreed, patch, claims, run, moved>>

Lesser(a, b) == IF a <= b THEN a ELSE b
Greater(a, b) == IF a >= b THEN a ELSE b

-----------------------------------------------------------------------------
(* The periods of a contract.                                              *)

MonthOf(d) == d \div MonthDays
YearOf(d) == MonthOf(d) \div YearMonths
FirstOfYear(y) == y * YearMonths * MonthDays

\* Periods are calendar-aligned, numbered from day 0.
PeriodIndex(d, months) == MonthOf(d) \div months
PeriodStart(i, months) == i * months * MonthDays
PeriodEnd(i, months) == PeriodStart(i + 1, months) - 1

\* The billing day of the period's first month, or of the month after it;
\* the first invoice is never dated before the contract.
InvoiceDate(h, i) ==
    LET month == IF h.arrears THEN MonthOf(PeriodEnd(i, h.months)) + 1
                 ELSE MonthOf(PeriodStart(i, h.months))
        day   == month * MonthDays + h.day
    IN  IF i = PeriodIndex(h.start, h.months) THEN Greater(day, h.start) ELSE day

\* A period, clipped to the contract's own life.
Row(h, i) == [start |-> Greater(PeriodStart(i, h.months), h.start),
              end   |-> Lesser(PeriodEnd(i, h.months), h.end),
              date  |-> InvoiceDate(h, i)]

Periods(h) == PeriodIndex(h.start, h.months) .. PeriodIndex(h.end, h.months)

\* A window that trusts a period to be billed in the year it is in.
WindowWithoutMargin(h, y) ==
    PeriodIndex(FirstOfYear(y), h.months) .. PeriodIndex(FirstOfYear(y + 1) - 1, h.months)

\* "the window is an optimisation, never the rule"
Window(h, y) ==
    PeriodIndex(FirstOfYear(y), h.months) - 1
        .. PeriodIndex(FirstOfYear(y + 1) - 1, h.months) + 1

\* What build_forecast schedules in a year, with the first invoice that its
\* preview leaves out.
ScheduledRows(h, y) ==
    {Row(h, i) : i \in {j \in Periods(h) \cap Window(h, y) : YearOf(InvoiceDate(h, j)) = y}}

\* The years are those of the contract's own dates, however late it bills.
DueRows(h, on) ==
    {row \in UNION {ScheduledRows(h, y) :
                      y \in YearOf(h.start) .. Lesser(YearOf(on), YearOf(h.end))} :
       row.date <= on}

-----------------------------------------------------------------------------
Lifecycles == {"DRAFT", "ACTIVE", "CANCELLED"}

\* A contract without a revision.
NoRevision == -1

\* active_revision: something was agreed for the row's first day.
InForce(c, row) == agreed[c] # NoRevision /\ agreed[c] <= row.start

Idle == [phase |-> "idle"]
Busy(r) == run[r].phase = "busy"

Init ==
    /\ today = 0
    /\ header \in [Contracts -> Headers]
    /\ life = [c \in Contracts |-> "DRAFT"]
    /\ agreed = [c \in Contracts |-> header[c].start]
    /\ patch = [c \in Contracts |-> "none"]
    /\ claims = {}
    /\ run = [r \in Runs |-> Idle]
    /\ moved = {}

\* The runs, with a contract noted as touched in those under way.
Touched(c) == [r \in Runs |-> IF Busy(r)
                              THEN [run[r] EXCEPT !.touched = run[r].touched \cup {c}]
                              ELSE run[r]]

-----------------------------------------------------------------------------
(* What the office does.                                                   *)

NextDay ==
    /\ today + 1 < Days
    /\ today' = today + 1
    /\ UNCHANGED <<header, life, agreed, patch, claims, run, moved>>

\* ALLOWED_TRANSITIONS.
Transition(c) ==
    /\ \/ life[c] = "DRAFT" /\ life' = [life EXCEPT ![c] = "ACTIVE"]
       \/ life[c] \in {"DRAFT", "ACTIVE"} /\ life' = [life EXCEPT ![c] = "CANCELLED"]
    /\ run' = Touched(c)
    /\ UNCHANGED <<today, header, agreed, patch, claims, moved>>

\* Some period of c is claimed, or a run holds one.
InUse(c) == \/ \E k \in claims : k.contract = c
            \/ \E r \in Runs : Busy(r) /\ run[r].rows[c] # {}

\* A PATCH reads the contract, is checked for the order of its dates, and
\* then saves every column, the lifecycle it has read included: whatever
\* happened meanwhile is undone, a deletion but for its revisions.
ReadForPatch(c) ==
    /\ patch[c] = "none" /\ life[c] # "deleted"
    /\ patch' = [patch EXCEPT ![c] = life[c]]
    /\ UNCHANGED <<today, header, life, agreed, claims, run, moved>>

Patch(c, h) ==
    /\ patch[c] # "none"
    /\ header' = [header EXCEPT ![c] = h]
    /\ life' = [life EXCEPT ![c] = patch[c]]
    /\ moved' = IF InUse(c) /\ (h.start # header[c].start \/ h.months # header[c].months)
                THEN moved \cup {c} ELSE moved
    /\ patch' = [patch EXCEPT ![c] = "none"]
    /\ run' = Touched(c)
    /\ UNCHANGED <<today, agreed, claims>>

\* A new revision for an earlier day, or another date for the first one
\* while it is not locked: still to come, or nothing billed yet.
Agree(c, d) ==
    /\ life[c] # "deleted"
    /\ d < agreed[c] \/ agreed[c] > today \/ \A k \in claims : k.contract # c
    /\ d # agreed[c]
    /\ agreed' = [agreed EXCEPT ![c] = d]
    /\ run' = Touched(c)
    /\ UNCHANGED <<today, header, life, patch, claims, moved>>

\* A contract that has invoices cannot be deleted; its revisions go with it.
Delete(c) ==
    /\ life[c] # "deleted"
    /\ \A k \in claims : k.contract # c
    /\ life' = [life EXCEPT ![c] = "deleted"]
    /\ agreed' = [agreed EXCEPT ![c] = NoRevision]
    /\ run' = Touched(c)
    /\ UNCHANGED <<today, header, patch, claims, moved>>

\* A claim that outlives its soft-deleted invoice.
KeepsClaim(k) == {[k EXCEPT !.live = FALSE]}

\* delete_draft_invoice releases the period with the invoice.
ReleasesClaim(k) == {}

\* Which invoices are still drafts is left out: each may be deleted, and
\* none has to be.
DeleteDraft(k) ==
    /\ k.live
    /\ claims' = (claims \ {k}) \cup ReleasesClaim(k)
    /\ run' = Touched(k.contract)
    /\ UNCHANGED <<today, header, life, agreed, patch, moved>>

-----------------------------------------------------------------------------
(* A run, by the daily job or by an operator for a day of their choice.    *)

StartRun(r, on) ==
    /\ run[r].phase = "idle"
    /\ run' = [run EXCEPT ![r] =
                 [phase |-> "busy", on |-> on, touched |-> {},
                  rows |-> [c \in Contracts |-> IF life[c] = "ACTIVE"
                                                THEN DueRows(header[c], on) ELSE {}]]]
    /\ UNCHANGED <<today, header, life, agreed, patch, claims, moved>>

\* No look at the claims at all.
NeverTaken(c, row) == FALSE

\* A claim on exactly this stretch of days.
TakenAsIs(c, row) == \E k \in claims : k.contract = c /\ k.start = row.start /\ k.end = row.end

\* uniq_contract_invoice_per_period
Taken(c, row) == \E k \in claims : k.contract = c /\ k.start = row.start

\* One period: skipped without an agreement, as that of a contract that is
\* gone, skipped when claimed, billed otherwise.
BillRow(r, c) ==
    /\ Busy(r)
    /\ \E row \in run[r].rows[c] :
         /\ \A other \in run[r].rows[c] : row.date <= other.date
         /\ run' = [run EXCEPT ![r].rows[c] = run[r].rows[c] \ {row}]
         /\ claims' = IF ~InForce(c, row) \/ Taken(c, row) THEN claims
                      ELSE claims \cup {[contract |-> c, start |-> row.start,
                                         end |-> row.end, live |-> TRUE]}
    /\ UNCHANGED <<today, header, life, agreed, patch, moved>>

Done(r) == Busy(r) /\ \A c \in Contracts : run[r].rows[c] = {}

Finish(r) ==
    /\ Done(r)
    /\ run' = [run EXCEPT ![r] = Idle]
    /\ UNCHANGED <<today, header, life, agreed, patch, claims, moved>>

\* An error other than a duplicate, as for a contract deleted between the look
\* at its agreement and the insert, the time limit, a restart.
Abort(r) ==
    /\ Busy(r) /\ ~Done(r)
    /\ run' = [run EXCEPT ![r] = Idle]
    /\ UNCHANGED <<today, header, life, agreed, patch, claims, moved>>

-----------------------------------------------------------------------------
Next ==
    \/ NextDay
    \/ \E c \in Contracts : \/ Transition(c) \/ Delete(c) \/ ReadForPatch(c)
                            \/ \E h \in Headers : Patch(c, h)
                            \/ \E d \in Agreements : Agree(c, d)
    \/ \E k \in claims : DeleteDraft(k)
    \/ \E r \in Runs : \/ \E on \in {today} \cup Reruns : StartRun(r, on)
                       \/ \E c \in Contracts : BillRow(r, c)
                       \/ Finish(r) \/ Abort(r)

Spec == Init /\ [][Next]_vars

-----------------------------------------------------------------------------
(* Properties.                                                             *)

\* Every variable has its type, and the claims respect their unique key.
TypeOK ==
    /\ today \in Nat
    /\ header \in [Contracts -> Headers]
    /\ life \in [Contracts -> Lifecycles \cup {"deleted"}]
    /\ agreed \in [Contracts -> Nat \cup {NoRevision}]
    /\ patch \in [Contracts -> Lifecycles \cup {"none"}]
    /\ claims \subseteq [contract : Contracts, start : Nat, end : Nat, live : {TRUE}]
    /\ \A j, k \in claims : j.contract = k.contract /\ j.start = k.start => j = k
    /\ \A r \in Runs :
         run[r] = Idle \/ /\ run[r].phase = "busy" /\ run[r].on \in Nat
                          /\ run[r].touched \subseteq Contracts
                          /\ DOMAIN run[r].rows = Contracts
    /\ moved \subseteq Contracts

\* No day of a contract is on two of its invoices, whichever runs overlap and
\* however its end, its billing day or its billing type is edited.  A first
\* day or a billing period that is edited in use moves the periods away from
\* their claims, and is excused.
BilledOnce ==
    \A j, k \in claims :
        j.contract = k.contract /\ j # k /\ j.contract \notin moved
            => j.end < k.start \/ k.end < j.start

\* A run that comes to its end leaves no period unbilled that is due on its
\* day and agreed upon, of a contract that nobody touched meanwhile; also
\* after an abort, a skipped night, or a deleted draft.  The code's years
\* leave out a period that is invoiced in a later year than the contract ends.
NothingDueLeft ==
    [][\A r \in Runs : Done(r) /\ run'[r] = Idle =>
          \A c \in Contracts \ run[r].touched :
              life[c] = "ACTIVE" =>
                  \A i \in Periods(header[c]) :
                      LET row == Row(header[c], i)
                      IN  /\ row.date <= run[r].on
                          /\ YearOf(row.date) <= YearOf(header[c].end)
                          /\ InForce(c, row)
                          => \E k \in claims : k.live /\ k.contract = c /\ k.start = row.start]_vars
=============================================================================

----------------------- MODULE ContractBillingProofs -----------------------
(***************************************************************************)
(* Proofs about ContractBilling, for any number of contracts, terms and    *)
(* runs and for months of any length: its type invariant, and that no day  *)
(* of a contract is billed twice.                                          *)
(***************************************************************************)
EXTENDS ContractBilling, TLAPS

RowRecord == [start : Nat, end : Nat, date : Nat]
ClaimRecord == [contract : Contracts, start : Nat, end : Nat, live : {TRUE}]
BusyRuns == [phase : {"busy"}, on : Nat, touched : SUBSET Contracts,
             rows : [Contracts -> SUBSET RowRecord]]

-----------------------------------------------------------------------------
(* The arithmetic of periods.                                              *)

LEMMA ConstantsTyped ==
    /\ MonthDays \in Nat \ {0} /\ YearMonths \in Nat \ {0} /\ Days \in Nat
    /\ Reruns \subseteq Nat /\ Agreements \subseteq Nat
BY ContractBillingAssumption

(* What a contract's terms are. *)
LEMMA HeaderFields ==
    ASSUME NEW h \in Headers
    PROVE  /\ h.start \in Nat /\ h.end \in Nat /\ h.months \in Nat \ {0}
           /\ h.arrears \in BOOLEAN /\ h.day \in Nat /\ h.start <= h.end
<1>1. Headers \subseteq [start : Nat, end : Nat, months : Nat \ {0},
                         arrears : BOOLEAN, day : 0 .. MonthDays - 1]
  BY ContractBillingAssumption
<1>2. h.start <= h.end
  BY ContractBillingAssumption
<1> QED BY <1>1, <1>2

(* A number of whole periods, or of days, is a natural number. *)
LEMMA Quotients ==
    ASSUME NEW a \in Nat, NEW b \in Nat \ {0}
    PROVE  a \div b \in Nat
OBVIOUS

LEMMA Products ==
    ASSUME NEW a \in Nat, NEW b \in Nat, NEW m \in Nat, a <= b
    PROVE  a * m \in Nat /\ a * m <= b * m
OBVIOUS

LEMMA PositiveProducts ==
    ASSUME NEW a \in Nat \ {0}, NEW b \in Nat \ {0}
    PROVE  a * b \in Nat \ {0}
OBVIOUS

LEMMA PeriodsTyped ==
    ASSUME NEW i \in Nat, NEW m \in Nat \ {0}
    PROVE  PeriodStart(i, m) \in Nat /\ PeriodEnd(i, m) \in Nat
<1>1. i * m \in Nat /\ (i + 1) * m \in Nat \ {0}
  BY Products, PositiveProducts
<1>2. i * m * MonthDays \in Nat /\ (i + 1) * m * MonthDays \in Nat \ {0}
  BY <1>1, ConstantsTyped, Products, PositiveProducts
<1> QED BY <1>2 DEF PeriodStart, PeriodEnd

(* A period ends before any later one starts. *)
LEMMA PeriodsApart ==
    ASSUME NEW i \in Nat, NEW j \in Nat, NEW m \in Nat \ {0}, i < j
    PROVE  PeriodEnd(i, m) < PeriodStart(j, m)
<1>1. (i + 1) * m \in Nat /\ j * m \in Nat /\ (i + 1) * m <= j * m
  BY Products
<1>2. /\ (i + 1) * m * MonthDays \in Nat /\ j * m * MonthDays \in Nat
      /\ (i + 1) * m * MonthDays <= j * m * MonthDays
  BY <1>1, ConstantsTyped, Products
<1> QED BY <1>2 DEF PeriodStart, PeriodEnd

(* The periods of a contract are natural numbers. *)
LEMMA PeriodsNatural ==
    ASSUME NEW h \in Headers, NEW i \in Periods(h)
    PROVE  i \in Nat
<1>1. /\ PeriodIndex(h.start, h.months) \in Nat
      /\ PeriodIndex(h.end, h.months) \in Nat
  BY HeaderFields, ConstantsTyped, Quotients DEF PeriodIndex, MonthOf
<1> QED BY <1>1 DEF Periods

(* What is due of a contract is periods of it. *)
LEMMA DueRowsArePeriods ==
    ASSUME NEW h \in Headers, NEW on, NEW row \in DueRows(h, on)
    PROVE  \E i \in Nat : i \in Periods(h) /\ row = Row(h, i)
<1>1. PICK y \in YearOf(h.start) .. Lesser(YearOf(on), YearOf(h.end)) : row \in ScheduledRows(h, y)
  BY DEF DueRows
<1>2. PICK i \in Periods(h) : row = Row(h, i)
  BY <1>1 DEF ScheduledRows
<1> QED BY <1>2, PeriodsNatural

LEMMA RowTyped ==
    ASSUME NEW h \in Headers, NEW i \in Nat
    PROVE  Row(h, i) \in RowRecord
<1>1. PeriodStart(i, h.months) \in Nat /\ PeriodEnd(i, h.months) \in Nat
  BY HeaderFields, PeriodsTyped
<1>2. InvoiceDate(h, i) \in Nat
  <2> DEFINE month == IF h.arrears THEN MonthOf(PeriodEnd(i, h.months)) + 1
                      ELSE MonthOf(PeriodStart(i, h.months))
             day   == month * MonthDays + h.day
  <2>1. month \in Nat
    BY <1>1, ConstantsTyped, Quotients DEF MonthOf
  <2>2. month * MonthDays \in Nat
    BY <2>1, ConstantsTyped, Products
  <2>3. day \in Nat
    BY <2>2, HeaderFields
  <2>4. InvoiceDate(h, i) = IF i = PeriodIndex(h.start, h.months)
                            THEN Greater(day, h.start) ELSE day
    BY DEF InvoiceDate
  <2> HIDE DEF day
  <2> QED BY <2>3, <2>4, HeaderFields DEF Greater
<1> QED BY <1>1, <1>2, HeaderFields DEF Row, RowRecord, Greater, Lesser

-----------------------------------------------------------------------------
(* The invariant.                                                          *)

Types ==
    /\ today \in Nat
    /\ header \in [Contracts -> Headers]
    /\ life \in [Contracts -> Lifecycles \cup {"deleted"}]
    /\ agreed \in [Contracts -> Nat \cup {NoRevision}]
    /\ patch \in [Contracts -> Lifecycles \cup {"none"}]
    /\ claims \subseteq ClaimRecord
    /\ run \in [Runs -> {Idle} \cup BusyRuns]
    /\ moved \subseteq Contracts

\* uniq_contract_invoice_per_period
UniqueKey == \A j, k \in claims : j.contract = k.contract /\ j.start = k.start => j = k

\* A stretch of days lies in one period of the contract, and starts with it.
OnGrid(c, x) == \E i \in Nat :
    /\ x.start = Greater(PeriodStart(i, header[c].months), header[c].start)
    /\ x.end <= PeriodEnd(i, header[c].months)

\* Claims, and what a run is about to bill, are on the grid of their contract
\* as long as it has not moved.
ClaimsSound == \A k \in claims : k.contract \notin moved => OnGrid(k.contract, k)
RowsSound == \A r \in Runs : Busy(r) => \A c \in Contracts : \A row \in run[r].rows[c] :
    c \notin moved => OnGrid(c, row)

IInv == Types /\ UniqueKey /\ ClaimsSound /\ RowsSound

LEMMA IdleIsNotBusy ==
    ASSUME Types, NEW r \in Runs
    PROVE  /\ Busy(r) => run[r] \in BusyRuns
           /\ ~Busy(r) => run[r] = Idle
BY DEF Types, Busy, Idle, BusyRuns

(* A change of a contract is noted in the runs, which keep their rows. *)
LEMMA TouchedRuns ==
    ASSUME Types, NEW c \in Contracts, run' = Touched(c)
    PROVE  /\ run' \in [Runs -> {Idle} \cup BusyRuns]
           /\ \A r \in Runs : Busy(r)' => Busy(r) /\ run'[r].rows = run[r].rows
<1>1. ASSUME NEW r \in Runs, Busy(r)
      PROVE  /\ run'[r] \in BusyRuns
             /\ run'[r].rows = run[r].rows
  <2>1. run[r] \in BusyRuns
    BY <1>1, IdleIsNotBusy
  <2>2. run'[r] = [run[r] EXCEPT !.touched = run[r].touched \cup {c}]
    BY <1>1 DEF Touched
  <2> QED BY <2>1, <2>2 DEF BusyRuns
<1>2. ASSUME NEW r \in Runs, ~Busy(r)
      PROVE  run'[r] = Idle /\ ~Busy(r)'
  <2>1. run[r] = Idle /\ run'[r] = run[r]
    BY <1>2, IdleIsNotBusy DEF Touched
  <2> QED BY <2>1 DEF Busy, Idle
<1>3. run' = [r \in Runs |-> run'[r]]
  BY DEF Touched
<1>4. run' \in [Runs -> {Idle} \cup BusyRuns]
  BY <1>1, <1>2, <1>3
<1> QED BY <1>1, <1>2, <1>4

(* Whoever leaves terms and the moved contracts alone, and claims and rows  *)
(* in place, keeps the rest. *)
LEMMA RowsKept ==
    ASSUME RowsSound, UNCHANGED <<header, moved>>,
           \A r \in Runs : Busy(r)' =>
               Busy(r) /\ \A c \in Contracts : run'[r].rows[c] \subseteq run[r].rows[c]
    PROVE  RowsSound'
BY DEF RowsSound, OnGrid

LEMMA ClaimsKept ==
    ASSUME ClaimsSound, UniqueKey, UNCHANGED <<header, moved>>, claims' \subseteq claims
    PROVE  ClaimsSound' /\ UniqueKey'
BY DEF ClaimsSound, UniqueKey, OnGrid

LEMMA InvInit == Init => IInv
<1> SUFFICES ASSUME Init PROVE IInv
  OBVIOUS
<1>1. \A c \in Contracts : header[c].start \in Nat
  BY HeaderFields DEF Init
<1>2. Types
  <2>1. agreed \in [Contracts -> Nat \cup {NoRevision}]
    BY <1>1 DEF Init
  <2>2. life \in [Contracts -> Lifecycles \cup {"deleted"}]
    BY DEF Init, Lifecycles
  <2> QED BY <2>1, <2>2 DEF Init, Types
<1>3. \A r \in Runs : ~Busy(r)
  BY DEF Init, Busy, Idle
<1> QED BY <1>2, <1>3 DEF Init, IInv, UniqueKey, ClaimsSound, RowsSound
-----------------------------------------------------------------------------
(* The steps.                                                              *)

\* What is done to a contract but for its terms leaves its periods alone.
LEMMA OfficeStep ==
    ASSUME IInv, NEW c \in Contracts, run' = Touched(c), UNCHANGED <<today, header, claims, moved>>,
           life' \in [Contracts -> Lifecycles \cup {"deleted"}],
           agreed' \in [Contracts -> Nat \cup {NoRevision}],
           patch' \in [Contracts -> Lifecycles \cup {"none"}]
    PROVE  IInv'
<1> USE DEF IInv
<1>1. /\ run' \in [Runs -> {Idle} \cup BusyRuns]
      /\ \A r \in Runs : Busy(r)' => Busy(r) /\ run'[r].rows = run[r].rows
  BY TouchedRuns
<1>2. Types'
  BY <1>1 DEF Types
<1> QED BY <1>1, <1>2, RowsKept, ClaimsKept

LEMMA TransitionStep == ASSUME IInv, NEW c \in Contracts, Transition(c) PROVE IInv'
<1>1. life' \in [Contracts -> Lifecycles \cup {"deleted"}]
  BY DEF Transition, IInv, Types, Lifecycles
<1> QED BY <1>1, OfficeStep DEF Transition, IInv, Types

LEMMA AgreeStep ==
    ASSUME IInv, NEW c \in Contracts, NEW d \in Agreements, Agree(c, d) PROVE IInv'
<1>1. agreed' \in [Contracts -> Nat \cup {NoRevision}]
  BY ConstantsTyped DEF Agree, IInv, Types
<1> QED BY <1>1, OfficeStep DEF Agree, IInv, Types

LEMMA DeleteStep == ASSUME IInv, NEW c \in Contracts, Delete(c) PROVE IInv'
<1>1. /\ life' \in [Contracts -> Lifecycles \cup {"deleted"}]
      /\ agreed' \in [Contracts -> Nat \cup {NoRevision}]
  BY DEF Delete, IInv, Types
<1> QED BY <1>1, OfficeStep DEF Delete, IInv, Types

LEMMA ReadForPatchStep == ASSUME IInv, NEW c \in Contracts, ReadForPatch(c) PROVE IInv'
<1>1. patch' \in [Contracts -> Lifecycles \cup {"none"}]
  BY DEF ReadForPatch, IInv, Types
<1> QED BY <1>1 DEF ReadForPatch, IInv, Types, UniqueKey, ClaimsSound, RowsSound, OnGrid, Busy

\* Terms that change while a period is claimed or about to be move the grid,
\* or keep it.
LEMMA PatchStep ==
    ASSUME IInv, NEW c \in Contracts, NEW h \in Headers, Patch(c, h) PROVE IInv'
<1> USE DEF IInv
<1>1. /\ header' = [header EXCEPT ![c] = h]
      /\ header' \in [Contracts -> Headers]
      /\ UNCHANGED <<today, agreed, claims>>
  BY DEF Patch, Types
<1>2. moved' \in SUBSET Contracts /\ moved \subseteq moved'
  BY DEF Patch, Types
<1>3. /\ life' \in [Contracts -> Lifecycles \cup {"deleted"}]
      /\ patch' \in [Contracts -> Lifecycles \cup {"none"}]
  BY DEF Patch, Types
<1>4. /\ run' \in [Runs -> {Idle} \cup BusyRuns]
      /\ \A r \in Runs : Busy(r)' => Busy(r) /\ run'[r].rows = run[r].rows
  BY TouchedRuns DEF Patch
<1>5. Types'
  BY <1>1, <1>2, <1>3, <1>4 DEF Types
<1>6. UniqueKey'
  BY <1>1 DEF UniqueKey
<1>7. \A x : \A d \in Contracts :
          InUse(d) /\ d \notin moved' /\ OnGrid(d, x) => OnGrid(d, x)'
  <2>1. \A d \in Contracts : InUse(d) /\ d \notin moved' =>
            /\ header'[d].start = header[d].start
            /\ header'[d].months = header[d].months
    BY <1>1 DEF Patch, Types
  <2> QED BY <2>1 DEF OnGrid
<1>8. ClaimsSound'
  <2> SUFFICES ASSUME NEW k \in claims, k.contract \notin moved'
               PROVE  OnGrid(k.contract, k)'
    BY <1>1 DEF ClaimsSound
  <2>1. k.contract \in Contracts /\ InUse(k.contract)
    BY DEF Types, ClaimRecord, InUse
  <2> QED BY <1>2, <1>7, <2>1 DEF ClaimsSound
<1>9. RowsSound'
  <2> SUFFICES ASSUME NEW r \in Runs, Busy(r)', NEW d \in Contracts, NEW row \in run'[r].rows[d],
                      d \notin moved'
               PROVE  OnGrid(d, row)'
    BY DEF RowsSound
  <2>1. Busy(r) /\ row \in run[r].rows[d]
    BY <1>4
  <2>2. InUse(d) /\ OnGrid(d, row)
    BY <1>2, <2>1 DEF RowsSound, InUse
  <2> QED BY <1>7, <2>2
<1> QED BY <1>5, <1>6, <1>8, <1>9

LEMMA DeleteDraftStep == ASSUME IInv, NEW k \in claims, DeleteDraft(k) PROVE IInv'
<1> USE DEF IInv
<1>1. claims' \subseteq claims /\ UNCHANGED <<today, header, life, agreed, patch, moved>>
  BY DEF DeleteDraft, ReleasesClaim
<1>2. k.contract \in Contracts
  BY DEF Types, ClaimRecord
<1>3. /\ run' \in [Runs -> {Idle} \cup BusyRuns]
      /\ \A r \in Runs : Busy(r)' => Busy(r) /\ run'[r].rows = run[r].rows
  BY <1>2, TouchedRuns DEF DeleteDraft
<1>4. Types'
  BY <1>1, <1>3 DEF Types
<1> QED BY <1>1, <1>3, <1>4, RowsKept, ClaimsKept

LEMMA StartRunStep ==
    ASSUME IInv, NEW r \in Runs, NEW on \in {today} \cup Reruns, StartRun(r, on) PROVE IInv'
<1> USE DEF IInv
<1> DEFINE due == [c \in Contracts |-> IF life[c] = "ACTIVE" THEN DueRows(header[c], on) ELSE {}]
           new == [phase |-> "busy", on |-> on, touched |-> {}, rows |-> due]
<1>1. run' = [run EXCEPT ![r] = new] /\ UNCHANGED <<today, header, life, agreed, patch, claims, moved>>
  BY DEF StartRun
<1>2. ASSUME NEW c \in Contracts, NEW row \in due[c]
      PROVE  row \in RowRecord /\ OnGrid(c, row)
  <2>1. row \in DueRows(header[c], on)
    BY <1>2
  <2>2. header[c] \in Headers
    BY DEF Types
  <2>3. PICK i \in Nat : row = Row(header[c], i)
    BY <2>1, <2>2, DueRowsArePeriods
  <2>4. row \in RowRecord
    BY <2>2, <2>3, RowTyped
  <2>5. row.start = Greater(PeriodStart(i, header[c].months), header[c].start)
    BY <2>3 DEF Row
  <2>6. row.end <= PeriodEnd(i, header[c].months)
    <3>1. PeriodEnd(i, header[c].months) \in Nat /\ header[c].end \in Nat
      BY <2>2, HeaderFields, PeriodsTyped
    <3> QED BY <2>3, <3>1 DEF Row, Lesser
  <2> QED BY <2>4, <2>5, <2>6 DEF OnGrid
<1>3. due \in [Contracts -> SUBSET RowRecord]
  BY <1>2
<1>4. on \in Nat
  BY ConstantsTyped DEF Types
<1> HIDE DEF due
<1>5. new \in BusyRuns
  BY <1>3, <1>4 DEF BusyRuns
<1>6. Types'
  BY <1>1, <1>5 DEF Types
<1>7. UniqueKey' /\ ClaimsSound'
  BY <1>1, ClaimsKept
<1>8. RowsSound'
  <2> SUFFICES ASSUME NEW s \in Runs, Busy(s)', NEW c \in Contracts, NEW row \in run'[s].rows[c]
               PROVE  c \notin moved' => OnGrid(c, row)'
    BY DEF RowsSound
  <2>1. CASE s = r
    <3>1. row \in due[c]
      BY <1>1, <2>1 DEF Types
    <3> QED BY <1>1, <1>2, <3>1 DEF OnGrid
  <2>2. CASE s # r
    <3>1. Busy(s) /\ row \in run[s].rows[c]
      BY <1>1, <2>2 DEF Busy, Types
    <3> QED BY <1>1, <3>1 DEF RowsSound, OnGrid
  <2> QED BY <2>1, <2>2
<1> QED BY <1>6, <1>7, <1>8

\* The heart of it: what is billed was on the grid, and its first day is new.
LEMMA BillRowStep ==
    ASSUME IInv, NEW r \in Runs, NEW c \in Contracts, BillRow(r, c) PROVE IInv'
<1> USE DEF IInv
<1>1. PICK row \in run[r].rows[c] :
        /\ run' = [run EXCEPT ![r].rows[c] = run[r].rows[c] \ {row}]
        /\ claims' = IF ~InForce(c, row) \/ Taken(c, row) THEN claims
                     ELSE claims \cup {[contract |-> c, start |-> row.start,
                                        end |-> row.end, live |-> TRUE]}
  BY DEF BillRow
<1>2. Busy(r) /\ UNCHANGED <<today, header, life, agreed, patch, moved>>
  BY DEF BillRow
<1>3. run[r] \in BusyRuns
  BY <1>2, IdleIsNotBusy
<1>4. row \in RowRecord
  BY <1>3 DEF BusyRuns
<1> DEFINE new == [run[r] EXCEPT !.rows[c] = run[r].rows[c] \ {row}]
<1>5. /\ new \in BusyRuns
      /\ \A d \in Contracts : new.rows[d] \subseteq run[r].rows[d]
  BY <1>3 DEF BusyRuns
<1>6. run' = [run EXCEPT ![r] = new]
  BY <1>1, <1>3 DEF BusyRuns, Types
<1> HIDE DEF new
<1>7. run' \in [Runs -> {Idle} \cup BusyRuns]
  BY <1>5, <1>6 DEF Types
<1>8. RowsSound'
  <2>1. ASSUME NEW s \in Runs, Busy(s)'
        PROVE  Busy(s) /\ \A d \in Contracts : run'[s].rows[d] \subseteq run[s].rows[d]
    BY <1>2, <1>5, <1>6, <2>1 DEF Busy, Types
  <2> QED BY <1>2, <2>1, RowsKept
<1>9. CASE UNCHANGED claims
  BY <1>2, <1>7, <1>8, <1>9, ClaimsKept DEF Types
<1>10. CASE ~Taken(c, row) /\ claims' = claims \cup {[contract |-> c, start |-> row.start,
                                                      end |-> row.end, live |-> TRUE]}
  <2> DEFINE k == [contract |-> c, start |-> row.start, end |-> row.end, live |-> TRUE]
  <2>1. k \in ClaimRecord /\ claims' = claims \cup {k}
    BY <1>4, <1>10 DEF ClaimRecord, RowRecord
  <2>2. Types'
    BY <1>2, <1>7, <2>1 DEF Types
  <2>3. \A j \in claims : ~(j.contract = c /\ j.start = row.start)
    BY <1>10 DEF Taken
  <2>4. UniqueKey'
    <3>1. k.contract = c /\ k.start = row.start
      OBVIOUS
    <3> HIDE DEF k
    <3> QED BY <1>1, <2>1, <2>3, <3>1, Zenon DEF IInv, UniqueKey
  <2>5. c \notin moved => OnGrid(c, row)
    BY <1>1, <1>2 DEF RowsSound
  <2>6. c \notin moved => OnGrid(c, k)
    BY <2>5 DEF OnGrid
  <2>7. ClaimsSound'
    <3> SUFFICES ASSUME NEW j \in claims'
                 PROVE  j.contract \notin moved' => OnGrid(j.contract, j)'
      BY DEF ClaimsSound
    <3>1. CASE j \in claims
      BY <1>2, <3>1 DEF ClaimsSound, OnGrid
    <3>2. CASE j = k
      BY <1>2, <2>5, <2>6, <3>2 DEF OnGrid
    <3> QED BY <2>1, <3>1, <3>2
  <2> QED BY <1>8, <2>2, <2>4, <2>7
<1> QED BY <1>1, <1>9, <1>10

LEMMA RunEndsStep ==
    ASSUME IInv, NEW r \in Runs, Finish(r) \/ Abort(r) PROVE IInv'
<1> USE DEF IInv
<1>1. /\ run' = [run EXCEPT ![r] = Idle]
      /\ UNCHANGED <<today, header, life, agreed, patch, claims, moved>>
  BY DEF Finish, Abort
<1>2. Types'
  BY <1>1 DEF Types
<1>3. \A s \in Runs : Busy(s)' => Busy(s) /\ run'[s].rows = run[s].rows
  BY <1>1 DEF Busy, Idle, Types
<1> QED BY <1>1, <1>2, <1>3, RowsKept, ClaimsKept

LEMMA InvNext == IInv /\ [Next]_vars => IInv'
<1> SUFFICES ASSUME IInv, [Next]_vars PROVE IInv'
  OBVIOUS
<1>1. CASE UNCHANGED vars
  BY <1>1 DEF vars, IInv, Types, UniqueKey, ClaimsSound, RowsSound, OnGrid, Busy
<1>2. CASE NextDay
  <2>1. today' \in Nat /\ UNCHANGED <<header, life, agreed, patch, claims, run, moved>>
    BY <1>2 DEF NextDay, IInv, Types
  <2> QED BY <2>1 DEF IInv, Types, UniqueKey, ClaimsSound, RowsSound, OnGrid, Busy
<1>3. ASSUME NEW c \in Contracts, Transition(c) \/ ReadForPatch(c) PROVE IInv'
  BY <1>3, TransitionStep, ReadForPatchStep
<1>4. ASSUME NEW c \in Contracts, Delete(c) PROVE IInv'
  BY <1>4, DeleteStep
<1>5. ASSUME NEW c \in Contracts, NEW h \in Headers, Patch(c, h) PROVE IInv'
  BY <1>5, PatchStep
<1>6. ASSUME NEW c \in Contracts, NEW d \in Agreements, Agree(c, d) PROVE IInv'
  BY <1>6, AgreeStep
<1>7. ASSUME NEW k \in claims, DeleteDraft(k) PROVE IInv'
  BY <1>7, DeleteDraftStep
<1>8. ASSUME NEW r \in Runs, NEW on \in {today} \cup Reruns, StartRun(r, on) PROVE IInv'
  BY <1>8, StartRunStep
<1>9. ASSUME NEW r \in Runs, NEW c \in Contracts, BillRow(r, c) PROVE IInv'
  BY <1>9, BillRowStep
<1>10. ASSUME NEW r \in Runs, Finish(r) \/ Abort(r) PROVE IInv'
  BY <1>10, RunEndsStep
<1> QED
  BY <1>1, <1>2, <1>3, <1>4, <1>5, <1>6, <1>7, <1>8, <1>9, <1>10 DEF Next

-----------------------------------------------------------------------------
(* Whatever the runs, the edits of end, billing day and type, and the      *)
(* deletions: claims are of known contracts, unique, and on the grid.      *)
THEOREM ClaimsInvariant == Spec => []IInv
<1>1. Init => IInv
  BY InvInit
<1>2. IInv /\ [Next]_vars => IInv'
  BY InvNext
<1> QED BY <1>1, <1>2, PTL DEF Spec

(* Every variable keeps its type, and no two claims of a contract start on *)
(* the same day (uniq_contract_invoice_per_period). *)
THEOREM TypeCorrect == Spec => []TypeOK
<1>1. ASSUME IInv PROVE TypeOK
  <2>1. ASSUME NEW r \in Runs
        PROVE  run[r] = Idle \/ /\ run[r].phase = "busy" /\ run[r].on \in Nat
                                /\ run[r].touched \subseteq Contracts
                                /\ DOMAIN run[r].rows = Contracts
    <3>1. run[r] = Idle \/ run[r] \in BusyRuns
      BY <1>1 DEF IInv, Types
    <3> QED BY <3>1 DEF BusyRuns
  <2>2. claims \subseteq [contract : Contracts, start : Nat, end : Nat, live : {TRUE}]
    BY <1>1 DEF IInv, Types, ClaimRecord
  <2> QED BY <1>1, <2>1, <2>2 DEF IInv, Types, UniqueKey, TypeOK
<1> QED BY <1>1, ClaimsInvariant, PTL

(* No day of a contract is on two of its invoices, for months of any       *)
(* length, any terms and any number of runs: the unique key on the first   *)
(* day is enough because the periods stay on one grid.                     *)
THEOREM NoDayTwice == Spec => []BilledOnce
<1>1. ASSUME IInv PROVE BilledOnce
  <2> SUFFICES ASSUME NEW j \in claims, NEW k \in claims, j.contract = k.contract,
                      j # k, j.contract \notin moved
               PROVE  j.end < k.start \/ k.end < j.start
    BY DEF BilledOnce
  <2> DEFINE h == header[j.contract]
  <2>1. /\ h \in Headers /\ j.start \in Nat /\ j.end \in Nat
        /\ k.start \in Nat /\ k.end \in Nat
    BY <1>1 DEF IInv, Types, ClaimRecord
  <2>2. h.months \in Nat \ {0} /\ h.start \in Nat
    BY <2>1, HeaderFields
  <2>3. OnGrid(j.contract, j) /\ OnGrid(j.contract, k)
    BY <1>1 DEF IInv, ClaimsSound
  <2> HIDE DEF h
  <2>4. PICK i \in Nat : /\ j.start = Greater(PeriodStart(i, h.months), h.start)
                         /\ j.end <= PeriodEnd(i, h.months)
    BY <2>3 DEF OnGrid, h
  <2>5. PICK l \in Nat : /\ k.start = Greater(PeriodStart(l, h.months), h.start)
                         /\ k.end <= PeriodEnd(l, h.months)
    BY <2>3 DEF OnGrid, h
  <2>6. i # l
    BY <1>1, <2>4, <2>5 DEF IInv, UniqueKey
  <2>7. /\ PeriodStart(i, h.months) \in Nat /\ PeriodEnd(i, h.months) \in Nat
        /\ PeriodStart(l, h.months) \in Nat /\ PeriodEnd(l, h.months) \in Nat
    BY <2>2, PeriodsTyped
  <2>8. CASE i < l
    <3>1. PeriodEnd(i, h.months) < PeriodStart(l, h.months)
      BY <2>2, <2>8, PeriodsApart
    <3> QED BY <2>1, <2>2, <2>4, <2>5, <2>7, <3>1 DEF Greater
  <2>9. CASE l < i
    <3>1. PeriodEnd(l, h.months) < PeriodStart(i, h.months)
      BY <2>2, <2>9, PeriodsApart
    <3> QED BY <2>1, <2>2, <2>4, <2>5, <2>7, <3>1 DEF Greater
  <2> QED BY <2>6, <2>8, <2>9
<1> QED BY <1>1, ClaimsInvariant, PTL
-----------------------------------------------------------------------------
(* The window around a year has every period that is invoiced in it.       *)

(* Division by a natural number. *)
LEMMA DivisionBounds ==
    ASSUME NEW a \in Nat, NEW n \in Nat \ {0}
    PROVE  a \div n \in Nat /\ (a \div n) * n <= a /\ a < (a \div n + 1) * n
OBVIOUS

LEMMA DivisionMonotone ==
    ASSUME NEW a \in Nat, NEW b \in Nat, NEW n \in Nat \ {0}, a <= b
    PROVE  a \div n <= b \div n
<1> DEFINE p == a \div n
           q == b \div n
<1>1. p \in Nat /\ q \in Nat /\ p * n <= a /\ b < (q + 1) * n
  BY DivisionBounds
<1> HIDE DEF p, q
<1>2. CASE p > q
  <2>1. q + 1 \in Nat /\ q + 1 <= p
    BY <1>1, <1>2
  <2>2. (q + 1) * n \in Nat /\ p * n \in Nat /\ (q + 1) * n <= p * n
    BY <1>1, <2>1, Products
  <2> QED BY <1>1, <2>2
<1> QED BY <1>1, <1>2 DEF p, q

LEMMA DivisionExact ==
    ASSUME NEW a \in Nat, NEW n \in Nat \ {0}, NEW r \in 0 .. n - 1
    PROVE  a * n + r \in Nat /\ (a * n + r) \div n = a
OBVIOUS

(* The day before a multiple belongs to the multiple before. *)
LEMMA DayBefore ==
    ASSUME NEW a \in Nat \ {0}, NEW n \in Nat \ {0}
    PROVE  a * n - 1 \in Nat /\ (a * n - 1) \div n = a - 1
<1>1. a - 1 \in Nat /\ n - 1 \in 0 .. n - 1
  OBVIOUS
<1>2. (a - 1) * n + (n - 1) \in Nat /\ ((a - 1) * n + (n - 1)) \div n = a - 1
  BY <1>1, DivisionExact
<1>3. (a - 1) * n + (n - 1) = a * n - 1
  OBVIOUS
<1> QED BY <1>2, <1>3

LEMMA MonthsOfPeriod ==
    ASSUME NEW i \in Nat, NEW m \in Nat \ {0}
    PROVE  /\ i * m \in Nat /\ (i + 1) * m \in Nat \ {0}
           /\ MonthOf(PeriodStart(i, m)) = i * m
           /\ MonthOf(PeriodEnd(i, m)) + 1 = (i + 1) * m
<1>1. i * m \in Nat /\ (i + 1) * m \in Nat \ {0}
  BY Products, PositiveProducts
<1>2. MonthOf(PeriodStart(i, m)) = i * m
  <2> DEFINE a == i * m
  <2>1. a \in Nat /\ 0 \in 0 .. MonthDays - 1
    BY <1>1, ConstantsTyped
  <2> HIDE DEF a
  <2>2. a * MonthDays + 0 \in Nat /\ (a * MonthDays + 0) \div MonthDays = a
    BY <2>1, ConstantsTyped, DivisionExact
  <2>3. a * MonthDays + 0 = a * MonthDays
    BY <2>1, ConstantsTyped
  <2> QED BY <2>2, <2>3 DEF MonthOf, PeriodStart, a
<1>3. MonthOf(PeriodEnd(i, m)) + 1 = (i + 1) * m
  <2> DEFINE a == (i + 1) * m
  <2>1. a \in Nat \ {0}
    BY <1>1
  <2> HIDE DEF a
  <2>2. (a * MonthDays - 1) \div MonthDays = a - 1
    BY <2>1, ConstantsTyped, DayBefore
  <2>3. PeriodEnd(i, m) = a * MonthDays - 1
    BY DEF PeriodEnd, PeriodStart, a
  <2> QED BY <2>1, <2>2, <2>3 DEF MonthOf, a
<1> QED BY <1>1, <1>2, <1>3

(* A day before period i is before its first day. *)
LEMMA BeforePeriod ==
    ASSUME NEW d \in Nat, NEW i \in Nat, NEW m \in Nat \ {0}, PeriodIndex(d, m) < i
    PROVE  d < PeriodStart(i, m)
<1> DEFINE month == d \div MonthDays
           index == month \div m
<1>1. month \in Nat /\ d < (month + 1) * MonthDays
  BY ConstantsTyped, DivisionBounds
<1>2. index < i
  BY DEF PeriodIndex, MonthOf
<1> HIDE DEF month
<1>3. index \in Nat /\ month < (index + 1) * m
  BY <1>1, DivisionBounds
<1> HIDE DEF index
<1>4. /\ index + 1 \in Nat /\ index + 1 <= i
      /\ (index + 1) * m \in Nat /\ i * m \in Nat /\ (index + 1) * m <= i * m
  BY <1>2, <1>3, Products
<1>5. month + 1 \in Nat /\ month + 1 <= i * m
  BY <1>1, <1>3, <1>4
<1>6. /\ (month + 1) * MonthDays \in Nat /\ i * m * MonthDays \in Nat
      /\ (month + 1) * MonthDays <= i * m * MonthDays
  BY <1>4, <1>5, ConstantsTyped, Products
<1> QED BY <1>1, <1>6 DEF PeriodStart

(* The period of a day is among those of the first to the last day of its year. *)
LEMMA PeriodInYear ==
    ASSUME NEW d \in Nat, NEW m \in Nat \ {0}
    PROVE  LET y == YearOf(d)
           IN /\ y \in Nat
              /\ PeriodIndex(FirstOfYear(y), m) \in Nat
              /\ PeriodIndex(FirstOfYear(y + 1) - 1, m) \in Nat
              /\ PeriodIndex(FirstOfYear(y), m) <= PeriodIndex(d, m)
              /\ PeriodIndex(d, m) <= PeriodIndex(FirstOfYear(y + 1) - 1, m)
<1> DEFINE month == MonthOf(d)
           y == YearOf(d)
           low == y * YearMonths
           high == (y + 1) * YearMonths
<1>1. month \in Nat
  BY ConstantsTyped, DivisionBounds DEF MonthOf
<1>2. y \in Nat /\ low <= month /\ month < high
  <2>1. y = month \div YearMonths
    BY DEF YearOf
  <2> HIDE DEF month
  <2> QED BY <1>1, <2>1, ConstantsTyped, DivisionBounds
<1> HIDE DEF month, y
<1>3. low \in Nat /\ high \in Nat \ {0}
  BY <1>2, ConstantsTyped, Products, PositiveProducts
<1>4. FirstOfYear(y) = low * MonthDays /\ FirstOfYear(y + 1) = high * MonthDays
  BY DEF FirstOfYear
<1> HIDE DEF low, high
<1>5. MonthOf(FirstOfYear(y)) = low
  <2>1. 0 \in 0 .. MonthDays - 1
    BY ConstantsTyped
  <2>2. (low * MonthDays + 0) \div MonthDays = low
    BY <1>3, <2>1, ConstantsTyped, DivisionExact
  <2>3. low * MonthDays + 0 = low * MonthDays
    BY <1>3, ConstantsTyped
  <2> QED BY <1>4, <2>2, <2>3 DEF MonthOf
<1>6. MonthOf(FirstOfYear(y + 1) - 1) = high - 1
  <2>1. (high * MonthDays - 1) \div MonthDays = high - 1
    BY <1>3, ConstantsTyped, DayBefore
  <2> QED BY <1>4, <2>1 DEF MonthOf
<1>7. high - 1 \in Nat /\ month <= high - 1
  BY <1>1, <1>2, <1>3
<1>8. low \div m <= month \div m /\ month \div m <= (high - 1) \div m
  BY <1>1, <1>2, <1>3, <1>7, DivisionMonotone
<1>9. low \div m \in Nat /\ (high - 1) \div m \in Nat
  BY <1>3, <1>7, DivisionBounds
<1>10. PeriodIndex(d, m) = month \div m
  BY DEF PeriodIndex, month
<1>11. /\ PeriodIndex(FirstOfYear(y), m) = low \div m
       /\ PeriodIndex(FirstOfYear(y + 1) - 1, m) = (high - 1) \div m
  BY <1>5, <1>6 DEF PeriodIndex
<1> QED BY <1>2, <1>8, <1>9, <1>10, <1>11 DEF y
(* A period is invoiced in itself or in the one after it, or on the first  *)
(* day of the contract, and never before the contract starts.              *)
LEMMA InvoicedNearby ==
    ASSUME NEW h \in Headers, NEW i \in Periods(h)
    PROVE  /\ InvoiceDate(h, i) \in Nat /\ h.start <= InvoiceDate(h, i)
           /\ PeriodIndex(InvoiceDate(h, i), h.months) \in {i, i + 1}
<1> DEFINE month == IF h.arrears THEN MonthOf(PeriodEnd(i, h.months)) + 1
                    ELSE MonthOf(PeriodStart(i, h.months))
           day   == month * MonthDays + h.day
<1>1. /\ h.start \in Nat /\ h.months \in Nat \ {0} /\ h.day \in 0 .. MonthDays - 1
      /\ h.arrears \in BOOLEAN
  BY HeaderFields, ContractBillingAssumption
<1>2. i \in Nat /\ PeriodIndex(h.start, h.months) <= i
  <2>1. PeriodIndex(h.start, h.months) \in Int /\ PeriodIndex(h.end, h.months) \in Int
    BY HeaderFields, ConstantsTyped, Quotients DEF PeriodIndex, MonthOf
  <2> QED BY <2>1, PeriodsNatural DEF Periods
<1>3. /\ i * h.months \in Nat /\ (i + 1) * h.months \in Nat
      /\ month = i * h.months \/ month = (i + 1) * h.months
      /\ month \in Nat
  <2>1. /\ i * h.months \in Nat /\ (i + 1) * h.months \in Nat \ {0}
        /\ MonthOf(PeriodStart(i, h.months)) = i * h.months
        /\ MonthOf(PeriodEnd(i, h.months)) + 1 = (i + 1) * h.months
    BY <1>1, <1>2, MonthsOfPeriod
  <2>2. CASE h.arrears
    BY <2>1, <2>2
  <2>3. CASE ~h.arrears
    BY <2>1, <2>3
  <2> QED BY <1>1, <2>2, <2>3
<1>4. day \in Nat /\ MonthOf(day) = month
  <2> HIDE DEF month
  <2> QED BY <1>1, <1>3, ConstantsTyped, DivisionExact DEF MonthOf
<1>5. PeriodIndex(day, h.months) \in {i, i + 1}
  <2>1. (i * h.months) \div h.months = i /\ ((i + 1) * h.months) \div h.months = i + 1
    <3>1. 0 \in 0 .. h.months - 1 /\ i + 1 \in Nat
      BY <1>1, <1>2
    <3>2. /\ (i * h.months + 0) \div h.months = i
          /\ ((i + 1) * h.months + 0) \div h.months = i + 1
      BY <1>1, <1>2, <3>1, DivisionExact
    <3>3. i * h.months + 0 = i * h.months /\ (i + 1) * h.months + 0 = (i + 1) * h.months
      BY <1>3
    <3> QED BY <3>2, <3>3
  <2>2. PeriodIndex(day, h.months) = month \div h.months
    BY <1>4 DEF PeriodIndex
  <2> HIDE DEF month, day
  <2> QED BY <1>3, <2>1, <2>2
<1>6. InvoiceDate(h, i) = IF i = PeriodIndex(h.start, h.months)
                          THEN Greater(day, h.start) ELSE day
  BY DEF InvoiceDate
<1>7. PeriodStart(i, h.months) <= day
  <2>1. i * h.months <= month
    <3>1. i * h.months <= (i + 1) * h.months
      BY <1>1, <1>2, Products
    <3> HIDE DEF month
    <3> QED BY <1>3, <3>1
  <2> DEFINE first == i * h.months
  <2>2. first \in Nat /\ first <= month
    BY <1>3, <2>1
  <2>3. PeriodStart(i, h.months) = first * MonthDays
    BY DEF PeriodStart
  <2> HIDE DEF month, first
  <2>4. first * MonthDays \in Nat /\ month * MonthDays \in Nat
        /\ first * MonthDays <= month * MonthDays
    BY <1>3, <2>2, ConstantsTyped, Products
  <2> QED BY <1>1, <2>3, <2>4, ConstantsTyped
<1> HIDE DEF month, day
<1>8. CASE i = PeriodIndex(h.start, h.months)
  BY <1>1, <1>4, <1>5, <1>6, <1>8 DEF Greater
<1>9. CASE i # PeriodIndex(h.start, h.months)
  <2>1. h.start < PeriodStart(i, h.months)
    <3>1. PeriodIndex(h.start, h.months) < i
      <4>1. PeriodIndex(h.start, h.months) \in Nat
        BY <1>1, ConstantsTyped, Quotients DEF PeriodIndex, MonthOf
      <4> QED BY <1>2, <1>9, <4>1
    <3> QED BY <1>1, <1>2, <3>1, BeforePeriod
  <2>2. PeriodStart(i, h.months) \in Nat
    BY <1>1, <1>2, PeriodsTyped
  <2> QED BY <1>1, <1>4, <1>5, <1>6, <1>7, <1>9, <2>1, <2>2
<1> QED BY <1>8, <1>9

LEMMA YearsMonotone ==
    ASSUME NEW a \in Nat, NEW b \in Nat, a <= b
    PROVE  YearOf(a) \in Nat /\ YearOf(b) \in Nat /\ YearOf(a) <= YearOf(b)
<1>1. MonthOf(a) \in Nat /\ MonthOf(b) \in Nat /\ MonthOf(a) <= MonthOf(b)
  BY ConstantsTyped, DivisionBounds, DivisionMonotone DEF MonthOf
<1> QED BY <1>1, ConstantsTyped, DivisionBounds, DivisionMonotone DEF YearOf

(* The window and the years leave out no period of the contract that is    *)
(* invoiced by the day of the run, in a year that the contract reaches.    *)
LEMMA DueRowsComplete ==
    ASSUME NEW h \in Headers, NEW on \in Nat, NEW i \in Periods(h),
           InvoiceDate(h, i) <= on, YearOf(InvoiceDate(h, i)) <= YearOf(h.end)
    PROVE  Row(h, i) \in DueRows(h, on)
<1> DEFINE date == InvoiceDate(h, i)
           y == YearOf(date)
<1>1. /\ date \in Nat /\ h.start <= date
      /\ PeriodIndex(date, h.months) \in {i, i + 1}
  BY InvoicedNearby
<1>2. h.start \in Nat /\ h.end \in Nat /\ h.months \in Nat \ {0} /\ i \in Nat
  BY HeaderFields, PeriodsNatural
<1> HIDE DEF date
<1>3. /\ YearOf(h.start) \in Nat /\ YearOf(h.start) <= y
      /\ YearOf(on) \in Nat /\ y <= YearOf(on)
      /\ YearOf(h.end) \in Nat /\ y \in Nat
  BY <1>1, <1>2, YearsMonotone DEF date
<1>4. y \in YearOf(h.start) .. Lesser(YearOf(on), YearOf(h.end))
  BY <1>3 DEF Lesser, date
<1>5. i \in Window(h, y)
  <2>1. /\ PeriodIndex(FirstOfYear(y), h.months) \in Nat
        /\ PeriodIndex(FirstOfYear(y + 1) - 1, h.months) \in Nat
        /\ PeriodIndex(FirstOfYear(y), h.months) <= PeriodIndex(date, h.months)
        /\ PeriodIndex(date, h.months) <= PeriodIndex(FirstOfYear(y + 1) - 1, h.months)
    BY <1>1, <1>2, PeriodInYear
  <2> QED BY <1>1, <1>2, <2>1 DEF Window
<1>6. Row(h, i) \in ScheduledRows(h, y)
  BY <1>5 DEF ScheduledRows, date
<1>7. Row(h, i).date <= on
  BY DEF Row
<1> QED BY <1>4, <1>6, <1>7 DEF DueRows

-----------------------------------------------------------------------------
(* What a run owes.  Until it is done, every period it has to bill is      *)
(* among its rows or claimed, unless somebody touches the contract.        *)

Owed(c, on) ==
    {row \in {Row(header[c], i) : i \in Periods(header[c])} :
        /\ row.date <= on
        /\ YearOf(row.date) <= YearOf(header[c].end)
        /\ InForce(c, row)}

Kept(r, c) ==
    life[c] = "ACTIVE" =>
        \A row \in Owed(c, run[r].on) : row \in run[r].rows[c] \/ Taken(c, row)

NothingLost ==
    \A r \in Runs : Busy(r) => \A c \in Contracts \ run[r].touched : Kept(r, c)

\* What a run owes stays kept while nobody touches the contract or its claims.
LEMMA KeptStays ==
    ASSUME NEW r \in Runs, NEW c \in Contracts, Kept(r, c),
           life'[c] = life[c], header'[c] = header[c], agreed'[c] = agreed[c],
           run'[r].on = run[r].on, run'[r].rows[c] = run[r].rows[c],
           \A k \in claims : k.contract = c => k \in claims'
    PROVE  Kept(r, c)'
BY DEF Kept, Owed, InForce, Taken

(* Whoever changes one contract leaves the others' periods alone, and is   *)
(* noted in the runs under way. *)
LEMMA OfficeKeeps ==
    ASSUME Types, NothingLost, NEW c \in Contracts, run' = Touched(c),
           \A d \in Contracts \ {c} :
               /\ life'[d] = life[d] /\ header'[d] = header[d] /\ agreed'[d] = agreed[d]
               /\ \A k \in claims : k.contract = d => k \in claims'
    PROVE  NothingLost'
<1> SUFFICES ASSUME NEW r \in Runs, Busy(r)', NEW d \in Contracts \ run'[r].touched
             PROVE  Kept(r, d)'
  BY DEF NothingLost
<1>1. Busy(r)
  BY TouchedRuns
<1>2. run[r] \in BusyRuns /\ run'[r] = [run[r] EXCEPT !.touched = run[r].touched \cup {c}]
  BY <1>1, IdleIsNotBusy DEF Touched
<1>3. /\ run'[r].on = run[r].on /\ run'[r].rows = run[r].rows
      /\ run'[r].touched = run[r].touched \cup {c}
  BY <1>2 DEF BusyRuns
<1>4. d # c /\ Kept(r, d)
  BY <1>1, <1>3 DEF NothingLost
<1> QED BY <1>3, <1>4, KeptStays

LEMMA StartKeeps ==
    ASSUME Types, NothingLost, NEW r \in Runs, NEW on \in {today} \cup Reruns, StartRun(r, on)
    PROVE  NothingLost'
<1> SUFFICES ASSUME NEW s \in Runs, Busy(s)', NEW c \in Contracts \ run'[s].touched
             PROVE  Kept(s, c)'
  BY DEF NothingLost
<1> DEFINE new == [phase |-> "busy", on |-> on, touched |-> {},
                   rows |-> [d \in Contracts |-> IF life[d] = "ACTIVE"
                                                 THEN DueRows(header[d], on) ELSE {}]]
<1>1. run' = [run EXCEPT ![r] = new] /\ UNCHANGED <<today, header, life, agreed, patch, claims, moved>>
  BY DEF StartRun
<1>2. CASE s # r
  <2>1. run'[s] = run[s]
    BY <1>1, <1>2 DEF Types
  <2>2. Kept(s, c)
    BY <2>1 DEF NothingLost, Busy
  <2> QED BY <1>1, <2>1, <2>2, KeptStays
<1>3. CASE s = r
  <2>1. run'[s].on = on
    BY <1>1, <1>3 DEF Types
  <2>2. life[c] = "ACTIVE" => run'[s].rows[c] = DueRows(header[c], on)
    BY <1>1, <1>3 DEF Types
  <2>3. on \in Nat /\ header[c] \in Headers
    BY ConstantsTyped DEF Types
  <2>4. ASSUME NEW row \in Owed(c, on) PROVE row \in DueRows(header[c], on)
    <3>1. PICK i \in Periods(header[c]) : row = Row(header[c], i)
      BY DEF Owed
    <3>2. /\ InvoiceDate(header[c], i) <= on
          /\ YearOf(InvoiceDate(header[c], i)) <= YearOf(header[c].end)
      BY <3>1 DEF Owed, Row
    <3> QED BY <2>3, <3>1, <3>2, DueRowsComplete
  <2>5. \A n : Owed(c, n)' = Owed(c, n)
    BY <1>1 DEF Owed, InForce
  <2> QED BY <1>1, <2>1, <2>2, <2>4, <2>5 DEF Kept, Owed, InForce
<1> QED BY <1>2, <1>3

\* The period a run bills is claimed from then on, and one it skips was claimed
\* or is not agreed upon.
LEMMA BillRowKeeps ==
    ASSUME Types, NothingLost, NEW r \in Runs, NEW c \in Contracts, BillRow(r, c)
    PROVE  NothingLost'
<1>1. PICK row \in run[r].rows[c] :
        /\ run' = [run EXCEPT ![r].rows[c] = run[r].rows[c] \ {row}]
        /\ claims' = IF ~InForce(c, row) \/ Taken(c, row) THEN claims
                     ELSE claims \cup {[contract |-> c, start |-> row.start,
                                        end |-> row.end, live |-> TRUE]}
  BY DEF BillRow
<1>2. Busy(r) /\ UNCHANGED <<today, header, life, agreed, patch, moved>> /\ claims \subseteq claims'
  BY <1>1 DEF BillRow
<1>3. run[r] \in BusyRuns
  BY <1>2, IdleIsNotBusy
<1>4. /\ run'[r].on = run[r].on /\ run'[r].touched = run[r].touched
      /\ run'[r].rows[c] = run[r].rows[c] \ {row}
      /\ \A d \in Contracts \ {c} : run'[r].rows[d] = run[r].rows[d]
      /\ \A s \in Runs \ {r} : run'[s] = run[s]
  BY <1>1, <1>3 DEF BusyRuns, Types
<1>5. InForce(c, row) => Taken(c, row)'
  <2>1. Taken(c, row) => Taken(c, row)'
    BY <1>2 DEF Taken
  <2> DEFINE k == [contract |-> c, start |-> row.start, end |-> row.end, live |-> TRUE]
  <2>2. k \in claims' => Taken(c, row)'
    BY DEF Taken
  <2> QED BY <1>1, <2>1, <2>2
<1> SUFFICES ASSUME NEW s \in Runs, Busy(s)', NEW d \in Contracts \ run'[s].touched
             PROVE  Kept(s, d)'
  BY DEF NothingLost
<1>6. Kept(s, d)
  BY <1>2, <1>4 DEF NothingLost, Busy
<1>7. CASE s # r \/ d # c
  BY <1>2, <1>4, <1>6, <1>7, KeptStays
<1>8. CASE s = r /\ d = c
  <2> SUFFICES ASSUME life[c] = "ACTIVE", NEW x \in Owed(c, run[r].on)
               PROVE  x \in run'[r].rows[c] \/ Taken(c, x)'
    BY <1>2, <1>4, <1>8 DEF Kept, Owed, InForce
  <2>1. x \in run[r].rows[c] \/ Taken(c, x)
    BY <1>6, <1>8 DEF Kept
  <2>2. Taken(c, x) => Taken(c, x)'
    BY <1>2 DEF Taken
  <2>3. x = row => Taken(c, x)'
    BY <1>5 DEF Owed
  <2> QED BY <1>4, <2>1, <2>2, <2>3
<1> QED BY <1>7, <1>8

LEMMA RunEndsKeeps ==
    ASSUME Types, NothingLost, NEW r \in Runs, Finish(r) \/ Abort(r)
    PROVE  NothingLost'
<1>1. /\ run' = [run EXCEPT ![r] = Idle]
      /\ UNCHANGED <<today, header, life, agreed, patch, claims, moved>>
  BY DEF Finish, Abort
<1> SUFFICES ASSUME NEW s \in Runs, Busy(s)', NEW c \in Contracts \ run'[s].touched
             PROVE  Kept(s, c)'
  BY DEF NothingLost
<1>2. run'[s] = run[s]
  BY <1>1 DEF Types, Busy, Idle
<1>3. Kept(s, c)
  BY <1>2 DEF NothingLost, Busy
<1> QED BY <1>1, <1>2, <1>3, KeptStays

LEMMA NothingLostNext ==
    ASSUME Types, NothingLost, [Next]_vars PROVE NothingLost'
<1>1. ASSUME UNCHANGED <<header, life, agreed, claims, run>> PROVE NothingLost'
  BY <1>1 DEF NothingLost, Kept, Owed, InForce, Taken, Busy
<1>2. ASSUME NEW c \in Contracts,
             Transition(c) \/ Delete(c) \/ (\E h \in Headers : Patch(c, h))
                 \/ \E d \in Agreements : Agree(c, d)
      PROVE  NothingLost'
  <2>1. /\ run' = Touched(c) /\ UNCHANGED claims
        /\ \A d \in Contracts \ {c} :
              life'[d] = life[d] /\ header'[d] = header[d] /\ agreed'[d] = agreed[d]
    BY <1>2 DEF Transition, Delete, Patch, Agree, Types
  <2> QED BY <2>1, OfficeKeeps
<1>3. ASSUME NEW k \in claims, DeleteDraft(k) PROVE NothingLost'
  <2>1. /\ run' = Touched(k.contract) /\ claims' = claims \ {k}
        /\ UNCHANGED <<life, header, agreed>> /\ k.contract \in Contracts
    BY <1>3 DEF DeleteDraft, ReleasesClaim, Types, ClaimRecord
  <2>2. \A d \in Contracts \ {k.contract} : \A j \in claims : j.contract = d => j \in claims'
    BY <2>1
  <2> DEFINE c == k.contract
  <2> HIDE DEF c
  <2>3. c \in Contracts /\ run' = Touched(c)
    BY <2>1 DEF c
  <2> QED BY <2>1, <2>2, <2>3, OfficeKeeps DEF c
<1>4. CASE Next
  BY <1>1, <1>2, <1>3, <1>4, StartKeeps, BillRowKeeps, RunEndsKeeps DEF Next, NextDay, ReadForPatch
<1> QED BY <1>1, <1>4 DEF vars

(* A run that comes to its end has billed every period that was due on its *)
(* day and agreed upon, of a contract nobody touched meanwhile, for terms  *)
(* of any shape and months and years of any length: the forecast's window  *)
(* and years miss none that is invoiced in a year the contract reaches.    *)
THEOREM RunsLeaveNothing == Spec => NothingDueLeft
<1>1. Init => NothingLost
  <2>1. Init => \A r \in Runs : ~Busy(r)
    BY DEF Init, Busy, Idle
  <2> QED BY <2>1 DEF NothingLost
<1>2. IInv /\ NothingLost /\ [Next]_vars => NothingLost'
  BY NothingLostNext DEF IInv
<1>3. IInv /\ NothingLost => \A r \in Runs : Done(r) =>
          \A c \in Contracts \ run[r].touched :
              life[c] = "ACTIVE" =>
                  \A i \in Periods(header[c]) :
                      LET row == Row(header[c], i)
                      IN  /\ row.date <= run[r].on
                          /\ YearOf(row.date) <= YearOf(header[c].end)
                          /\ InForce(c, row)
                          => \E k \in claims : k.live /\ k.contract = c /\ k.start = row.start
  <2> SUFFICES ASSUME IInv, NothingLost, NEW r \in Runs, Done(r),
                      NEW c \in Contracts \ run[r].touched, life[c] = "ACTIVE",
                      NEW i \in Periods(header[c]),
                      Row(header[c], i).date <= run[r].on,
                      YearOf(Row(header[c], i).date) <= YearOf(header[c].end),
                      InForce(c, Row(header[c], i))
               PROVE  \E k \in claims : /\ k.live /\ k.contract = c
                                        /\ k.start = Row(header[c], i).start
    OBVIOUS
  <2>1. Row(header[c], i) \in Owed(c, run[r].on)
    BY DEF Owed
  <2>2. Taken(c, Row(header[c], i))
    BY <2>1 DEF NothingLost, Kept, Done
  <2> QED BY <2>2 DEF Taken, IInv, Types, ClaimRecord
<1>4. IInv /\ NothingLost /\ [Next]_vars =>
        [\A r \in Runs : Done(r) /\ run'[r] = Idle =>
            \A c \in Contracts \ run[r].touched :
              life[c] = "ACTIVE" =>
                  \A i \in Periods(header[c]) :
                      LET row == Row(header[c], i)
                      IN  /\ row.date <= run[r].on
                          /\ YearOf(row.date) <= YearOf(header[c].end)
                          /\ InForce(c, row)
                          => \E k \in claims : k.live /\ k.contract = c
                                                 /\ k.start = row.start]_vars
  BY <1>3
<1> QED BY <1>1, <1>2, <1>4, ClaimsInvariant, PTL DEF Spec, NothingDueLeft
=============================================================================

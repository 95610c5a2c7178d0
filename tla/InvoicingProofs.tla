--------------------------- MODULE InvoicingProofs ---------------------------
(***************************************************************************)
(* Theorems about Invoicing for any number of invoices, requests, years    *)
(* and customers.                                                          *)
(***************************************************************************)
EXTENDS Sequences, Invoicing, FiniteSetTheorems, TLAPS

\* The sum a recompute or a reversal takes is an integer: an invoice has
\* lines for finitely many Extra Works.
LEMMA LineCountType ==
    ASSUME NEW S \in SUBSET EWs
    PROVE  Cardinality(S) \in Nat
  BY RowsAssumption, FS_Subset, FS_CardinalityType

\* Every step is the step of one request or of the environment.
LEMMA StepCases ==
    ASSUME Next
    PROVE  \/ \E e \in EWs : Earn(e)
           \/ \E b \in Buildings, s \in ShareSets : SetShares(b, s)
           \/ NewYear
           \/ \E r \in Requests :
                \/ Abandon(r)
                \/ \E i \in Invoices : \E l \in lines[i] \cup {None} : Fetch(r, i, l)
                \/ Issue(r)
                \/ Send(r)
                \/ Unissue(r)
                \/ Reverse(r)
                \/ DeleteDraft(r)
                \/ AddLine(r)
                \/ LowerLine(r)
                \/ RemoveLine(r)
                \/ CommitLine(r)
                \/ UpdateSummary(r)
                \/ \E f \in Fees : UpdateMeta(r, f)
                \/ \E c \in Customers, scope \in Windows, own \in SUBSET EWs :
                      Plan(r, c, scope, own)
                \/ ComputeFlags(r)
                \/ req[r].pc = "claiming" /\ \E draft \in [req[r].plan -> Unused] :
                                                CreateDrafts(r, draft)
  BY DEF Next, Environment, Reading, Lifecycle, DraftEdit, Generation

\* What a request's program counter says of the shape of its record.
LEMMA RequestShapes ==
    ASSUME TypeOK, NEW r \in Requests
    PROVE  /\ req[r].pc = "fetched" => req[r] \in Fetched
           /\ req[r].pc = "line" => req[r] \in Editing
           /\ req[r].pc = "planned" => req[r] \in Planned
           /\ req[r].pc = "claiming" => req[r] \in Claiming
  BY DEF TypeOK, Idle, Fetched, Editing, Planned, Claiming

-----------------------------------------------------------------------------
\* Type correctness: whatever requests interleave, rows and pending writes
\* keep their shape.

LEMMA InitType == Init => TypeOK
  BY NoneAssumption, NumbersAssumption
  DEF Init, TypeOK, Idle, Exists

LEMMA NextType == TypeOK /\ [Next]_vars => TypeOK'
<1> SUFFICES ASSUME TypeOK, [Next]_vars PROVE TypeOK'
  OBVIOUS
<1> USE NoneAssumption
<1>1. CASE UNCHANGED vars
  BY <1>1 DEF vars, TypeOK, Exists
<1>2. ASSUME NEW e \in EWs, Earn(e) PROVE TypeOK'
  BY <1>2 DEF Earn, invoiceVars, TypeOK, Exists
<1>3. ASSUME NEW b \in Buildings, NEW s \in ShareSets, SetShares(b, s) PROVE TypeOK'
  BY <1>3 DEF SetShares, invoiceVars, TypeOK, Exists
<1>4. CASE NewYear
  BY <1>4 DEF NewYear, invoiceVars, poolVars, TypeOK, Exists
<1>5. ASSUME NEW r \in Requests,
             Abandon(r) \/ Issue(r) \/ Unissue(r) \/ DeleteDraft(r)
      PROVE  TypeOK'
  <2>1. CASE Abandon(r)
    BY <2>1 DEF Abandon, invoiceVars, poolVars, TypeOK, Exists
  <2>2. CASE Issue(r)
    <3>1. req[r].inv \in Invoices
      BY <2>2, RequestShapes DEF Issue, Fetched
    <3>2. QED
      BY <2>2, <3>1 DEF Issue, MayIssue, Finish, numberVars, poolVars, TypeOK, Exists
  <2>3. CASE Unissue(r)
    <3>1. req[r].inv \in Invoices
      BY <2>3, RequestShapes DEF Unissue, Fetched
    <3>2. QED
      BY <2>3, <3>1 DEF Unissue, MayUnissue, Finish, numberVars, poolVars, TypeOK, Exists
  <2>4. CASE DeleteDraft(r)
    <3>1. req[r].inv \in Invoices
      BY <2>4, RequestShapes DEF DeleteDraft, Fetched
    <3>2. QED
      BY <2>4, <3>1 DEF DeleteDraft, Finish, numberVars, TypeOK, Exists
  <2>5. QED
    BY <1>5, <2>1, <2>2, <2>3, <2>4
<1>6. ASSUME NEW r \in Requests, NEW i \in Invoices, NEW l \in lines[i] \cup {None},
             Fetch(r, i, l)
      PROVE  TypeOK'
  <2>1. status[i] \in {"DRAFT", "ISSUED", "SENT"}
    BY <1>6 DEF Fetch, Exists, TypeOK
  <2>2. l \in EWs \cup {None} /\ fee[i] \in Int
    BY DEF TypeOK
  <2>3. [pc |-> "fetched", inv |-> i, seen |-> status[i], fee |-> fee[i], line |-> l]
            \in Fetched
    BY <2>1, <2>2 DEF Fetched
  <2>4. QED
    BY <1>6, <2>3 DEF Fetch, invoiceVars, poolVars, TypeOK, Exists
<1>7. ASSUME NEW r \in Requests, Send(r) PROVE TypeOK'
  <2>1. req[r].inv \in Invoices
    BY <1>7, RequestShapes DEF Send, Fetched
  <2>2. number' \in [Invoices -> Nat] /\ year' \in [Invoices -> Years \cup {0}]
        /\ seq' \in [Years -> Nat]
    BY <1>7, <2>1 DEF Send, AllocateFor, numberVars, TypeOK
  <2>3. QED
    BY <1>7, <2>1, <2>2 DEF Send, MaySend, Finish, poolVars, TypeOK, Exists
<1>8. ASSUME NEW r \in Requests, Reverse(r) PROVE TypeOK'
  <2> DEFINE i == req[r].inv
  <2>1. i \in Invoices
    BY <1>8, RequestShapes DEF Reverse, Fetched
  <2>2. PICK x \in Unused :
            /\ AllocateFor(x)
            /\ status'   = [status   EXCEPT ![x] = "ISSUED"]
            /\ customer' = [customer EXCEPT ![x] = customer[i]]
            /\ reverses' = [reverses EXCEPT ![x] = i]
            /\ hand'     = [hand     EXCEPT ![x] = -(Cardinality(lines[i]) + hand[i])]
            /\ fee'      = [fee      EXCEPT ![x] = -fee[i]]
            /\ total'    = [total    EXCEPT ![x] = -total[i]]
    BY <1>8 DEF Reverse
  <2>3. x \in Invoices /\ customer[i] \in Customers
    BY <1>8, <2>1 DEF Unused, Reverse, MayReverse, TypeOK, Exists
  <2>4. number' \in [Invoices -> Nat] /\ year' \in [Invoices -> Years \cup {0}]
        /\ seq' \in [Years -> Nat]
    BY <2>2, <2>3 DEF AllocateFor, TypeOK
  <2>5. Cardinality(lines[i]) \in Nat
    BY <2>1, LineCountType DEF TypeOK
  <2>6. -(Cardinality(lines[i]) + hand[i]) \in Int /\ -fee[i] \in Int /\ -total[i] \in Int
    BY <2>1, <2>5 DEF TypeOK
  <2>7. hand' \in [Invoices -> Int] /\ fee' \in [Invoices -> Int]
        /\ total' \in [Invoices -> Int]
    BY <2>2, <2>3, <2>6 DEF TypeOK
  <2>8. reverses' \in [Invoices -> Invoices \cup {None}]
    BY <2>1, <2>2, <2>3 DEF TypeOK
  <2>9. /\ status' \in [Invoices -> {"absent", "DRAFT", "ISSUED", "SENT"}]
        /\ customer' \in [Invoices -> Customers \cup {None}]
        /\ \A j \in Invoices : status'[j] # "absent" <=> customer'[j] # None
    BY <2>1, <2>2, <2>3 DEF TypeOK, Exists
  <2>10. UNCHANGED <<deleted, lines, now, earned, holders>> /\ isInvoiced' \subseteq EWs
         /\ req' = [req EXCEPT ![r] = Idle]
    BY <1>8 DEF Reverse, Finish, TypeOK
  <2>11. QED
    BY <2>4, <2>7, <2>8, <2>9, <2>10 DEF TypeOK, Exists
<1>9. ASSUME NEW r \in Requests, NEW add \in Int, NEW gone \in EWs \cup {None},
             NEW back \in EWs \cup {None},
             req[r].pc = "fetched", StartLineEdit(r, add, gone, back),
             UNCHANGED <<invoiceVars, seq, now, poolVars>>
      PROVE  TypeOK'
  <2> DEFINE i == req[r].inv
             left == (lines[i] \ {gone}) \cup ({back} \ {None})
             rec == [pc |-> "line", inv |-> i, add |-> add, line |-> gone, back |-> back,
                     total |-> Recomputed(left, hand[i] + add, req[r].fee)]
  <2>1. i \in Invoices /\ req[r].fee \in Int
    BY <1>9, RequestShapes DEF Fetched
  <2>2. left \subseteq EWs
    BY <2>1 DEF TypeOK
  <2> HIDE DEF left
  <2>3. Cardinality(left) \in Nat
    BY <2>2, LineCountType
  <2>4. Recomputed(left, hand[i] + add, req[r].fee) \in Int
    BY <2>1, <2>3 DEF Recomputed, TypeOK
  <2>5. rec \in Editing
    BY <2>1, <2>4 DEF Editing
  <2>6. req' = [req EXCEPT ![r] = rec]
    BY <1>9 DEF StartLineEdit, left
  <2> HIDE DEF rec
  <2>7. QED
    BY <1>9, <2>5, <2>6 DEF invoiceVars, poolVars, TypeOK, Exists
<1>10. ASSUME NEW r \in Requests, AddLine(r) \/ LowerLine(r) \/ RemoveLine(r)
       PROVE  TypeOK'
  <2>1. req[r].line \in EWs \cup {None} /\ LineBack(r) \in EWs \cup {None}
    BY <1>10, RequestShapes DEF AddLine, LowerLine, RemoveLine, LineBack, Fetched
  <2>2. 1 \in Int /\ -1 \in Int /\ 0 \in Int
    OBVIOUS
  <2>3. QED
    BY <1>9, <1>10, <2>1, <2>2 DEF AddLine, LowerLine, RemoveLine
<1>11. ASSUME NEW r \in Requests, CommitLine(r) PROVE TypeOK'
  <2>1. /\ req[r].inv \in Invoices /\ req[r].add \in Int /\ req[r].total \in Int
        /\ req[r].back \in EWs \cup {None}
    BY <1>11, RequestShapes DEF CommitLine, Editing
  <2>2. QED
    BY <1>11, <2>1 DEF CommitLine, Finish, numberVars, TypeOK, Exists
<1>12. ASSUME NEW r \in Requests, NEW f \in Fees, UpdateMeta(r, f) PROVE TypeOK'
  <2> DEFINE i == req[r].inv
  <2>1. i \in Invoices
    BY <1>12, RequestShapes DEF UpdateMeta, Fetched
  <2>2. Cardinality(lines[i]) \in Nat
    BY <2>1, LineCountType DEF TypeOK
  <2>3. f \in Int /\ Recomputed(lines[i], hand[i], f) \in Int
    BY <2>1, <2>2, NumbersAssumption DEF Recomputed, TypeOK
  <2>4. QED
    BY <1>12, <2>1, <2>3 DEF UpdateMeta, Finish, numberVars, poolVars, TypeOK, Exists
<1>13. ASSUME NEW r \in Requests, UpdateSummary(r) PROVE TypeOK'
  <2> DEFINE i == req[r].inv
  <2>1. i \in Invoices /\ req[r].fee \in Int
    BY <1>13, RequestShapes DEF UpdateSummary, Fetched
  <2>2. Cardinality(lines[i]) \in Nat
    BY <2>1, LineCountType DEF TypeOK
  <2>3. Recomputed(lines[i], hand[i], req[r].fee) \in Int
    BY <2>1, <2>2 DEF Recomputed, TypeOK
  <2>4. QED
    BY <1>13, <2>1, <2>3 DEF UpdateSummary, Finish, numberVars, poolVars, TypeOK, Exists
<1>14. ASSUME NEW r \in Requests, NEW c \in Customers, NEW scope \in Windows,
              NEW own \in SUBSET EWs, Plan(r, c, scope, own)
       PROVE  TypeOK'
  <2>1. Pool(c, scope) \subseteq EWs
    BY DEF Pool, TypeOK
  <2>2. Grouped(Pool(c, scope), own) \subseteq SUBSET EWs
    BY <2>1 DEF Grouped
  <2>3. [pc |-> "planned", cust |-> c, plan |-> Grouped(Pool(c, scope), own)] \in Planned
    BY <2>2 DEF Planned
  <2>4. QED
    BY <1>14, <2>3 DEF Plan, invoiceVars, poolVars, TypeOK, Exists
<1>15. ASSUME NEW r \in Requests, ComputeFlags(r) PROVE TypeOK'
  <2> DEFINE flags == {e \in UNION req[r].plan : Settles(req[r].cust, e)}
  <2>1. req[r].cust \in Customers /\ req[r].plan \in SUBSET SUBSET EWs
    BY <1>15, RequestShapes DEF ComputeFlags, Planned
  <2>2. flags \in SUBSET EWs
    BY <2>1
  <2>3. [pc |-> "claiming", cust |-> req[r].cust, plan |-> req[r].plan, settled |-> flags]
            \in Claiming
    BY <2>1, <2>2 DEF Claiming
  <2>4. QED
    BY <1>15, <2>3 DEF ComputeFlags, invoiceVars, poolVars, TypeOK, Exists
<1>16. ASSUME NEW r \in Requests, NEW draft \in [req[r].plan -> Unused],
              CreateDrafts(r, draft)
       PROVE  TypeOK'
  <2> DEFINE plan == req[r].plan
             made == {draft[g] : g \in plan}
             group(i) == CHOOSE g \in plan : draft[g] = i
  <2>1. req[r] \in Claiming
    BY <1>16, RequestShapes DEF CreateDrafts
  <2>2. plan \in SUBSET SUBSET EWs /\ req[r].cust \in Customers
        /\ req[r].settled \in SUBSET EWs
    BY <2>1 DEF Claiming
  <2>3. \A i \in made : group(i) \in SUBSET EWs
    BY <2>2
  <2>4. \A i \in made : Cardinality(group(i)) \in Int
    BY <2>3, LineCountType
  <2>5. /\ status' = [i \in Invoices |-> IF i \in made THEN "DRAFT" ELSE status[i]]
        /\ customer' = [i \in Invoices |-> IF i \in made THEN req[r].cust ELSE customer[i]]
        /\ lines' = [i \in Invoices |-> IF i \in made THEN group(i) ELSE lines[i]]
        /\ total' = [i \in Invoices |-> IF i \in made THEN Cardinality(group(i))
                                                     ELSE total[i]]
    BY <1>16 DEF CreateDrafts
  <2>6. lines' \in [Invoices -> SUBSET EWs] /\ total' \in [Invoices -> Int]
    <3> HIDE DEF made, group
    <3>1. \A i \in Invoices : /\ (IF i \in made THEN group(i) ELSE lines[i]) \in SUBSET EWs
                              /\ (IF i \in made THEN Cardinality(group(i)) ELSE total[i]) \in Int
      BY <2>3, <2>4 DEF TypeOK
    <3>2. QED
      BY <2>5, <3>1
  <2>7. /\ status' \in [Invoices -> {"absent", "DRAFT", "ISSUED", "SENT"}]
        /\ customer' \in [Invoices -> Customers \cup {None}]
        /\ \A j \in Invoices : status'[j] # "absent" <=> customer'[j] # None
    BY <2>2, <2>5 DEF TypeOK, Exists
  <2>8. /\ UNCHANGED <<deleted, reverses, numberVars, hand, fee, now, earned, holders>>
        /\ isInvoiced' \subseteq EWs
        /\ req' = [req EXCEPT ![r] = Idle]
    BY <1>16, <2>2 DEF CreateDrafts, Finish, TypeOK
  <2>9. QED
    BY <2>6, <2>7, <2>8 DEF numberVars, TypeOK, Exists
<1>17. CASE Next
  BY <1>17, StepCases, <1>2, <1>3, <1>4, <1>5, <1>6, <1>7, <1>8, <1>10, <1>11, <1>12, <1>13,
     <1>14, <1>15, <1>16
<1>18. QED
  BY <1>1, <1>17

\* Type correctness of every reachable state.
THEOREM TypeCorrect == Spec => []TypeOK
  BY InitType, NextType, PTL DEF Spec

-----------------------------------------------------------------------------
\* The numbering invariant.  The lemmas below give its parts for the steps
\* that can disturb them.

\* Allocating for a document that has no number keeps the numbers of every
\* year unique, in range and without a gap.
LEMMA AllocationKeepsBook ==
    ASSUME TypeOK, NumbersInRange, NumbersUnique, NumbersFilled,
           NEW x \in Invoices, number[x] = 0, AllocateFor(x)
    PROVE  NumbersInRange' /\ NumbersUnique' /\ NumbersFilled'
<1> DEFINE n0 == seq[now] + 1
<1>1. /\ now \in Years /\ seq[now] \in Nat /\ n0 \in Nat /\ n0 # 0
      /\ seq' \in [Years -> Nat] /\ seq'[now] = n0
      /\ \A y \in Years : y # now => seq'[y] = seq[y]
      /\ number'[x] = n0 /\ year'[x] = now
      /\ \A i \in Invoices : i # x => number'[i] = number[i] /\ year'[i] = year[i]
      /\ \A y \in Years : 1..seq[y] \subseteq 1..seq'[y]
  BY DEF AllocateFor, TypeOK
<1>2. NumbersInRange'
  BY <1>1 DEF NumbersInRange, TypeOK
<1>3. \A i \in Invoices : ~(number[i] = n0 /\ year[i] = now)
  BY <1>1 DEF NumbersInRange, TypeOK
<1>4. NumbersUnique'
  BY <1>1, <1>3 DEF NumbersUnique
<1>5. NumbersFilled'
  <2> SUFFICES ASSUME NEW y \in Years, NEW n \in 1..seq'[y]
               PROVE  \E i \in Invoices : number'[i] # 0 /\ year'[i] = y /\ number'[i] = n
    BY DEF NumbersFilled, Numbered
  <2>1. CASE y = now /\ n = n0
    BY <1>1, <2>1
  <2>2. CASE ~(y = now /\ n = n0)
    <3>1. n \in 1..seq[y]
      <4>1. seq[y] \in Nat /\ n \in Nat /\ 1 <= n /\ n <= seq'[y]
        BY <1>1 DEF TypeOK
      <4>2. CASE y = now
        BY <1>1, <2>2, <4>1, <4>2
      <4>3. CASE y # now
        BY <1>1, <4>1, <4>3
      <4>4. QED
        BY <4>2, <4>3
    <3>2. PICK i \in Invoices : number[i] # 0 /\ year[i] = y /\ number[i] = n
      BY <3>1 DEF NumbersFilled, Numbered
    <3>3. i # x
      BY <3>2
    <3>4. QED
      BY <1>1, <3>2, <3>3
  <2>3. QED
    BY <2>1, <2>2
<1>6. QED
  BY <1>2, <1>4, <1>5

\* A request that finishes leaves the others sound if the rows they hold
\* stay created and no reversal link changes.
LEMMA FinishKeepsRequests ==
    ASSUME TypeOK, RequestsSound, NEW r \in Requests, Finish(r),
           \A i \in Invoices : Exists(i) => /\ status'[i] # "absent"
                                            /\ reverses'[i] = reverses[i]
    PROVE  RequestsSound'
<1> SUFFICES ASSUME NEW q \in Requests
             PROVE  /\ req'[q].pc = "fetched" =>
                          /\ status'[req'[q].inv] # "absent"
                          /\ req'[q].seen = "DRAFT" => reverses'[req'[q].inv] = None
                    /\ req'[q].pc = "line" => status'[req'[q].inv] # "absent"
                    /\ req'[q].pc = "claiming" => req'[q].settled \subseteq UNION req'[q].plan
  BY DEF RequestsSound, Exists
<1>1. CASE q = r
  BY <1>1 DEF Finish, Idle, TypeOK
<1>2. CASE q # r
  <2>1. req'[q] = req[q]
    BY <1>2 DEF Finish, TypeOK
  <2>2. req[q].pc \in {"fetched", "line"} => req[q].inv \in Invoices
    BY RequestShapes DEF Fetched, Editing
  <2>3. QED
    BY <2>1, <2>2 DEF RequestsSound
<1>3. QED
  BY <1>1, <1>2

\* A step that leaves rows, links, numbers and lines alone keeps the
\* invariant if it keeps the requests sound.
LEMMA QuietStep ==
    ASSUME NumberingInv, RequestsSound',
           UNCHANGED <<status, deleted, reverses, number, year, seq, lines>>
    PROVE  NumberingInv'
  BY DEF NumberingInv, UnusedBlank, NumberedWhenCommitted, NumbersInRange, NumbersUnique,
         NumbersFilled, ReversalsSound, Unused, Exists, Reversals, Numbered

LEMMA InitNumbering == Init => NumberingInv
<1> SUFFICES ASSUME Init PROVE NumberingInv
  OBVIOUS
<1>1. UnusedBlank /\ NumbersInRange /\ NumbersUnique /\ ReversalsSound
  BY NoneAssumption
  DEF Init, UnusedBlank, NumbersInRange, NumbersUnique, ReversalsSound, Unused, Exists,
      Reversals
<1>2. NumberedWhenCommitted
  BY DEF Init, NumberedWhenCommitted
<1>3. NumbersFilled
  BY DEF Init, NumbersFilled
<1>4. RequestsSound
  BY DEF Init, RequestsSound, Idle
<1>5. QED
  BY <1>1, <1>2, <1>3, <1>4 DEF NumberingInv

LEMMA RequestStepNumbering ==
    ASSUME TypeOK, NumberingInv, NEW r \in Requests, NEW rec,
           req' = [req EXCEPT ![r] = rec],
           \/ rec = Idle
           \/ rec.pc = "fetched" /\ Exists(rec.inv)
                 /\ (rec.seen = "DRAFT" => reverses[rec.inv] = None)
           \/ rec.pc = "line" /\ Exists(rec.inv)
           \/ rec.pc = "planned"
           \/ rec.pc = "claiming" /\ rec.settled \subseteq UNION rec.plan,
           UNCHANGED <<status, deleted, reverses, number, year, seq, lines>>
    PROVE  NumberingInv'
<1>1. \A q \in Requests : req'[q] = IF q = r THEN rec ELSE req[q]
  BY DEF TypeOK
<1>2. RequestsSound'
  BY <1>1 DEF NumberingInv, RequestsSound, Exists, Idle
<1>3. QED
  BY <1>2, QuietStep

LEMMA NextNumbering == TypeOK /\ NumberingInv /\ [Next]_vars => NumberingInv'
<1> SUFFICES ASSUME TypeOK, NumberingInv, [Next]_vars PROVE NumberingInv'
  OBVIOUS
<1> USE NoneAssumption
<1>1. CASE UNCHANGED vars
  <2>1. RequestsSound'
    BY <1>1 DEF vars, NumberingInv, RequestsSound, Exists
  <2>2. QED
    BY <1>1, <2>1, QuietStep DEF vars
<1>2. ASSUME UNCHANGED <<invoiceVars, seq, req>> PROVE NumberingInv'
  <2>1. RequestsSound'
    BY <1>2 DEF invoiceVars, NumberingInv, RequestsSound, Exists
  <2>2. QED
    BY <1>2, <2>1, QuietStep DEF invoiceVars
<1>3. ASSUME (\E e \in EWs : Earn(e)) \/ (\E b \in Buildings, s \in ShareSets : SetShares(b, s))
             \/ NewYear
      PROVE  NumberingInv'
  BY <1>2, <1>3 DEF Earn, SetShares, NewYear
<1>4. ASSUME NEW r \in Requests, Abandon(r) PROVE NumberingInv'
  BY <1>4, RequestStepNumbering DEF Abandon, invoiceVars
<1>5. ASSUME NEW r \in Requests, NEW i \in Invoices, NEW l \in lines[i] \cup {None},
             Fetch(r, i, l)
      PROVE  NumberingInv'
  <2>1. status[i] = "DRAFT" => reverses[i] = None
    BY DEF NumberingInv, ReversalsSound
  <2>2. QED
    BY <1>5, <2>1, RequestStepNumbering DEF Fetch, Exists, invoiceVars
<1>6. ASSUME NEW r \in Requests, AddLine(r) \/ LowerLine(r) \/ RemoveLine(r)
      PROVE  NumberingInv'
  <2>1. Exists(req[r].inv)
    BY <1>6 DEF AddLine, LowerLine, RemoveLine, NumberingInv, RequestsSound
  <2>2. PICK add, gone, back : StartLineEdit(r, add, gone, back)
    BY <1>6 DEF AddLine, LowerLine, RemoveLine
  <2>3. QED
    BY <1>6, <2>1, <2>2, RequestStepNumbering
    DEF AddLine, LowerLine, RemoveLine, StartLineEdit, invoiceVars
<1>7. ASSUME NEW r \in Requests, UpdateSummary(r) \/ \E f \in Fees : UpdateMeta(r, f)
      PROVE  NumberingInv'
  BY <1>7, RequestStepNumbering DEF UpdateMeta, UpdateSummary, Finish, numberVars
<1>8. ASSUME NEW r \in Requests, NEW c \in Customers, NEW scope \in Windows,
             NEW own \in SUBSET EWs, Plan(r, c, scope, own)
      PROVE  NumberingInv'
  BY <1>8, RequestStepNumbering DEF Plan, invoiceVars
<1>9. ASSUME NEW r \in Requests, ComputeFlags(r) PROVE NumberingInv'
  <2> DEFINE flags == {e \in UNION req[r].plan : Settles(req[r].cust, e)}
             rec == [pc |-> "claiming", cust |-> req[r].cust, plan |-> req[r].plan,
                     settled |-> flags]
  <2>1. rec.pc = "claiming" /\ rec.settled \subseteq UNION rec.plan
    OBVIOUS
  <2>2. req' = [req EXCEPT ![r] = rec]
    BY <1>9 DEF ComputeFlags
  <2>3. QED
    BY <1>9, <2>1, <2>2, RequestStepNumbering DEF ComputeFlags, invoiceVars
<1>10. ASSUME NEW r \in Requests, CommitLine(r) PROVE NumberingInv'
  <2>1. req[r].inv \in Invoices /\ Exists(req[r].inv)
    BY <1>10, RequestShapes DEF CommitLine, Editing, NumberingInv, RequestsSound
  <2>2. UnusedBlank'
    BY <1>10, <2>1
    DEF CommitLine, numberVars, NumberingInv, UnusedBlank, Unused, Exists, Reversals, TypeOK
  <2>3. RequestsSound'
    BY <1>10, FinishKeepsRequests DEF CommitLine, NumberingInv, Exists
  <2>4. QED
    BY <1>10, <2>2, <2>3
    DEF CommitLine, numberVars, NumberingInv, NumberedWhenCommitted, NumbersInRange,
        NumbersUnique, NumbersFilled, ReversalsSound, Numbered
<1>11. ASSUME NEW r \in Requests, DeleteDraft(r) PROVE NumberingInv'
  <2>1. req[r].inv \in Invoices /\ Exists(req[r].inv) /\ reverses[req[r].inv] = None
    BY <1>11, RequestShapes DEF DeleteDraft, SeenDraft, Fetched, NumberingInv, RequestsSound
  <2>2. UnusedBlank' /\ ReversalsSound'
    BY <1>11, <2>1
    DEF DeleteDraft, numberVars, NumberingInv, UnusedBlank, ReversalsSound, Unused, Exists,
        Reversals, TypeOK
  <2>3. RequestsSound'
    BY <1>11, FinishKeepsRequests DEF DeleteDraft, NumberingInv, Exists
  <2>4. QED
    BY <1>11, <2>2, <2>3
    DEF DeleteDraft, numberVars, NumberingInv, NumberedWhenCommitted, NumbersInRange,
        NumbersUnique, NumbersFilled, Numbered
<1>12. ASSUME NEW r \in Requests, Issue(r) \/ Unissue(r) PROVE NumberingInv'
  <2> DEFINE i == req[r].inv
  <2>1. i \in Invoices
    BY <1>12, RequestShapes DEF Issue, Unissue, Fetched
  <2>2. /\ status[i] = "DRAFT" \/ (status[i] = "ISSUED" /\ reverses[i] = None /\ number[i] = 0)
        /\ status'[i] \in {"DRAFT", "ISSUED"}
        /\ \A j \in Invoices : j # i => status'[j] = status[j]
        /\ UNCHANGED <<deleted, reverses, lines, number, year, seq>>
        /\ Finish(r)
    BY <1>12, <2>1 DEF Issue, Unissue, MayIssue, MayUnissue, numberVars, TypeOK
  <2>3. reverses[i] = None /\ number[i] = 0 /\ Reversals(i) = {}
    BY <2>1, <2>2 DEF NumberingInv, ReversalsSound, NumberedWhenCommitted, Reversals
  <2>4. NumberedWhenCommitted' /\ ReversalsSound'
    BY <2>1, <2>2, <2>3
    DEF NumberingInv, NumberedWhenCommitted, ReversalsSound, Reversals, TypeOK
  <2>5. UnusedBlank'
    BY <2>1, <2>2 DEF NumberingInv, UnusedBlank, Unused, Exists, Reversals
  <2>6. RequestsSound'
    BY <2>1, <2>2, FinishKeepsRequests DEF NumberingInv, Exists
  <2>7. NumbersInRange' /\ NumbersUnique' /\ NumbersFilled'
    BY <2>2 DEF NumberingInv, NumbersInRange, NumbersUnique, NumbersFilled, Numbered
  <2>8. QED
    BY <2>4, <2>5, <2>6, <2>7 DEF NumberingInv
<1>13. ASSUME NEW r \in Requests, Send(r) PROVE NumberingInv'
  <2> DEFINE i == req[r].inv
  <2>1. i \in Invoices
    BY <1>13, RequestShapes DEF Send, Fetched
  <2>2. /\ status[i] = "ISSUED"
        /\ status'[i] = "SENT"
        /\ \A j \in Invoices : j # i => status'[j] = status[j]
        /\ UNCHANGED <<deleted, reverses, lines>>
        /\ Finish(r)
    BY <1>13, <2>1 DEF Send, MaySend, TypeOK
  <2>3. /\ NumbersInRange' /\ NumbersUnique' /\ NumbersFilled'
        /\ number'[i] # 0
        /\ \A j \in Invoices : j # i => number'[j] = number[j]
    <3>1. CASE number[i] = 0
      <4>1. AllocateFor(i)
        BY <1>13, <3>1 DEF Send, NeedsNumber
      <4>2. number'[i] # 0 /\ \A j \in Invoices : j # i => number'[j] = number[j]
        BY <2>1, <4>1 DEF AllocateFor, TypeOK
      <4>3. QED
        BY <2>1, <3>1, <4>1, <4>2, AllocationKeepsBook DEF NumberingInv
    <3>2. CASE number[i] # 0
      BY <1>13, <3>2
      DEF Send, NeedsNumber, numberVars, NumberingInv, NumbersInRange, NumbersUnique,
          NumbersFilled, Numbered
    <3>3. QED
      BY <3>1, <3>2
  <2>4. NumberedWhenCommitted' /\ ReversalsSound'
    BY <2>1, <2>2, <2>3
    DEF NumberingInv, NumberedWhenCommitted, ReversalsSound, TypeOK
  <2>5. UnusedBlank'
    BY <2>1, <2>2, <2>3 DEF NumberingInv, UnusedBlank, Unused, Exists, Reversals
  <2>6. RequestsSound'
    BY <2>1, <2>2, FinishKeepsRequests DEF NumberingInv, Exists
  <2>7. QED
    BY <2>3, <2>4, <2>5, <2>6 DEF NumberingInv
<1>14. ASSUME NEW r \in Requests, Reverse(r) PROVE NumberingInv'
  <2> DEFINE i == req[r].inv
  <2>1. i \in Invoices
    BY <1>14, RequestShapes DEF Reverse, Fetched
  <2>2. /\ status[i] = "SENT" /\ reverses[i] = None /\ Reversals(i) \subseteq deleted
        /\ UNCHANGED <<deleted, lines>>
        /\ Finish(r)
    BY <1>14 DEF Reverse, MayReverse
  <2>3. PICK x \in Unused : /\ AllocateFor(x)
                            /\ status'   = [status   EXCEPT ![x] = "ISSUED"]
                            /\ reverses' = [reverses EXCEPT ![x] = i]
    BY <1>14 DEF Reverse
  <2>4. /\ x \in Invoices /\ status[x] = "absent" /\ x # i
        /\ number[x] = 0 /\ lines[x] = {} /\ x \notin deleted
        /\ \A j \in Invoices : reverses[j] # x
    BY <2>2, <2>3 DEF Unused, Exists, NumberingInv, UnusedBlank, Reversals
  <2>5. Reversals(i) = {}
    BY <2>1, <2>2 DEF NumberingInv, ReversalsSound, Reversals, TypeOK
  <2>6. /\ status'[x] = "ISSUED" /\ reverses'[x] = i
        /\ \A j \in Invoices : j # x => status'[j] = status[j] /\ reverses'[j] = reverses[j]
    BY <2>3, <2>4 DEF TypeOK
  <2>7. number'[x] # 0 /\ \A j \in Invoices : j # x => number'[j] = number[j]
    BY <2>3, <2>4 DEF AllocateFor, TypeOK
  <2>8. NumbersInRange' /\ NumbersUnique' /\ NumbersFilled'
    BY <2>3, <2>4, AllocationKeepsBook DEF NumberingInv
  <2>9. NumberedWhenCommitted'
    BY <2>1, <2>4, <2>6, <2>7 DEF NumberingInv, NumberedWhenCommitted
  <2>10. ReversalsSound'
    BY <2>1, <2>2, <2>4, <2>5, <2>6 DEF NumberingInv, ReversalsSound, Reversals, TypeOK
  <2>11. UnusedBlank'
    BY <2>1, <2>2, <2>4, <2>6, <2>7
    DEF NumberingInv, UnusedBlank, Unused, Exists, Reversals
  <2>12. RequestsSound'
    BY <2>2, <2>4, <2>6, FinishKeepsRequests DEF NumberingInv, Exists
  <2>13. QED
    BY <2>8, <2>9, <2>10, <2>11, <2>12 DEF NumberingInv
<1>15. ASSUME NEW r \in Requests, NEW draft \in [req[r].plan -> Unused],
              CreateDrafts(r, draft)
       PROVE  NumberingInv'
  <2> DEFINE made == {draft[g] : g \in req[r].plan}
  <2>1. /\ made \subseteq Unused
        /\ \A j \in made : status'[j] = "DRAFT"
        /\ \A j \in Invoices : j \notin made =>
                status'[j] = status[j] /\ lines'[j] = lines[j]
        /\ UNCHANGED <<deleted, reverses, number, year, seq>>
        /\ Finish(r)
    BY <1>15 DEF CreateDrafts, numberVars, Unused
  <2>2. \A j \in made : j \in Invoices /\ status[j] = "absent" /\ number[j] = 0
                        /\ reverses[j] = None /\ \A k \in Invoices : reverses[k] # j
    BY <2>1 DEF Unused, Exists, NumberingInv, UnusedBlank, Reversals
  <2> HIDE DEF made
  <2>3. NumberedWhenCommitted'
    BY <2>1, <2>2 DEF NumberingInv, NumberedWhenCommitted
  <2>4. ReversalsSound'
    BY <2>1, <2>2 DEF NumberingInv, ReversalsSound, TypeOK
  <2>5. UnusedBlank'
    BY <2>1, <2>2 DEF NumberingInv, UnusedBlank, Unused, Exists, Reversals
  <2>6. RequestsSound'
    BY <2>1, <2>2, FinishKeepsRequests DEF NumberingInv, Exists
  <2>7. NumbersInRange' /\ NumbersUnique' /\ NumbersFilled'
    BY <2>1 DEF NumberingInv, NumbersInRange, NumbersUnique, NumbersFilled, Numbered
  <2>8. QED
    BY <2>3, <2>4, <2>5, <2>6, <2>7 DEF NumberingInv
<1>16. CASE Next
  BY <1>16, StepCases, <1>3, <1>4, <1>5, <1>6, <1>7, <1>8, <1>9, <1>10, <1>11, <1>12,
     <1>13, <1>14, <1>15
<1>17. QED
  BY <1>1, <1>16

\* The inductive invariant holds in every reachable state.
THEOREM NumberingInvariant == Spec => []NumberingInv
  BY InitType, NextType, InitNumbering, NextNumbering, PTL DEF Spec

-----------------------------------------------------------------------------
\* The numbers of every year are exactly 1 up to its counter, each on one
\* document, however sends, reversals and un-issues of any number of requests
\* interleave (GaplessNumbers of the runs).
THEOREM GaplessNumbering == Spec => []GaplessNumbers
<1>1. TypeOK /\ NumberingInv => GaplessNumbers
  <2> SUFFICES ASSUME TypeOK, NumberingInv, NEW y \in Years
               PROVE  /\ \A i, j \in Numbered(y) : number[i] = number[j] => i = j
                      /\ {number[i] : i \in Numbered(y)} = 1..seq[y]
    BY DEF GaplessNumbers
  <2>1. \A i, j \in Numbered(y) : number[i] = number[j] => i = j
    BY DEF NumberingInv, NumbersUnique, Numbered
  <2>2. {number[i] : i \in Numbered(y)} \subseteq 1..seq[y]
    BY DEF NumberingInv, NumbersInRange, Numbered
  <2>3. 1..seq[y] \subseteq {number[i] : i \in Numbered(y)}
    BY DEF NumberingInv, NumbersFilled
  <2>4. QED
    BY <2>1, <2>2, <2>3
<1>2. QED
  BY <1>1, TypeCorrect, NumberingInvariant, PTL

\* A number is carried exactly by what was sent and by reversals.
THEOREM NumbersOnlyOnCommitted == Spec => []NumberedWhenCommitted
<1>1. NumberingInv => NumberedWhenCommitted
  BY DEF NumberingInv
<1>2. QED
  BY <1>1, NumberingInvariant, PTL

\* An original has at most one reversal, and only a sent non-reversal has one.
THEOREM SingleReversal == Spec => []OneReversal
<1>1. TypeOK /\ NumberingInv => OneReversal
  <2> SUFFICES ASSUME TypeOK, NumberingInv, NEW i \in Invoices
               PROVE  /\ \A r, s \in Reversals(i) : r = s
                      /\ Reversals(i) # {} => status[i] = "SENT" /\ reverses[i] = None
    BY DEF OneReversal
  <2>1. i # None
    BY NoneAssumption
  <2>2. QED
    BY <2>1 DEF NumberingInv, ReversalsSound, Reversals
<1>2. QED
  BY <1>1, TypeCorrect, NumberingInvariant, PTL

\* Status changes follow the lifecycle, and a numbered document never returns
\* to draft.
THEOREM LifecycleHolds == Spec => LegalLifecycle
<1>1. TypeOK /\ [Next]_vars => [\A i \in Invoices : LifecycleStep(i)]_vars
  <2> SUFFICES ASSUME TypeOK, Next, NEW i \in Invoices PROVE LifecycleStep(i)
    OBVIOUS
  <2> USE DEF LifecycleStep
  <2>1. CASE UNCHANGED status
    BY <2>1
  <2>2. ASSUME NEW r \in Requests, Issue(r) \/ Send(r) \/ Unissue(r) PROVE LifecycleStep(i)
    BY <2>2 DEF Issue, Send, Unissue, MayIssue, MaySend, MayUnissue, TypeOK
  <2>3. ASSUME NEW r \in Requests, Reverse(r) PROVE LifecycleStep(i)
    BY <2>3 DEF Reverse, Unused, Exists, TypeOK
  <2>4. ASSUME NEW r \in Requests, NEW draft \in [req[r].plan -> Unused],
               CreateDrafts(r, draft)
        PROVE  LifecycleStep(i)
    <3>1. status'[i] = status[i] \/ (status'[i] = "DRAFT" /\ i \in Unused)
      BY <2>4 DEF CreateDrafts
    <3>2. QED
      BY <3>1 DEF Unused, Exists
  <2>5. QED
    BY <2>1, <2>2, <2>3, <2>4, StepCases
    DEF Earn, SetShares, NewYear, Abandon, Fetch, DeleteDraft, AddLine, LowerLine,
        RemoveLine, CommitLine, UpdateMeta, UpdateSummary, Plan, ComputeFlags, invoiceVars
<1>2. QED
  BY <1>1, TypeCorrect, PTL DEF Spec, LegalLifecycle

-----------------------------------------------------------------------------
\* Work never disappears.

\* The witness of an Extra Work marked invoiced survives a step that neither
\* deletes it, reverses it nor takes the line, and that marks nothing new.
LEMMA WitnessSurvives ==
    ASSUME NoHiddenWork, NEW gone,
           isInvoiced' = isInvoiced \ gone,
           \A i \in Invoices : \A e \in lines[i] \ gone :
                /\ e \in lines'[i]
                /\ i \notin deleted /\ Reversals(i) = {} =>
                        i \notin deleted' /\ Reversals(i)' = {}
    PROVE  NoHiddenWork'
  BY DEF NoHiddenWork, LiveClaims

LEMMA NextNoHiddenWork ==
    TypeOK /\ TypeOK' /\ NumberingInv /\ NoHiddenWork /\ [Next]_vars => NoHiddenWork'
<1> SUFFICES ASSUME TypeOK, TypeOK', NumberingInv, NoHiddenWork, [Next]_vars
             PROVE  NoHiddenWork'
  OBVIOUS
<1>1. ASSUME UNCHANGED <<isInvoiced, lines, deleted, reverses>> PROVE NoHiddenWork'
  BY <1>1 DEF NoHiddenWork, LiveClaims, Reversals
<1>2. ASSUME NEW r \in Requests, DeleteDraft(r) PROVE NoHiddenWork'
  <2> DEFINE i == req[r].inv
  <2>1. /\ i \in Invoices /\ isInvoiced' = isInvoiced \ lines[i]
        /\ deleted' = deleted \cup {i} /\ UNCHANGED <<lines, reverses>>
    BY <1>2, RequestShapes DEF DeleteDraft, Released, Fetched
  <2>2. \A j \in Invoices : \A e \in lines[j] \ lines[i] : j # i
    OBVIOUS
  <2>3. QED
    BY <2>1, <2>2, WitnessSurvives DEF Reversals
<1>3. ASSUME NEW r \in Requests, Reverse(r) PROVE NoHiddenWork'
  <2> DEFINE i == req[r].inv
  <2>1. i \in Invoices /\ isInvoiced' = isInvoiced \ lines[i] /\ UNCHANGED <<lines, deleted>>
    BY <1>3, RequestShapes DEF Reverse, Released, Fetched
  <2>2. PICK x \in Invoices : reverses' = [reverses EXCEPT ![x] = i]
    BY <1>3 DEF Reverse, Unused
  <2>3. \A j \in Invoices : j # i /\ Reversals(j) = {} => Reversals(j)' = {}
    BY <2>2 DEF Reversals, TypeOK
  <2>4. \A j \in Invoices : \A e \in lines[j] \ lines[i] : j # i
    OBVIOUS
  <2>5. QED
    BY <2>1, <2>3, <2>4, WitnessSurvives
<1>4. ASSUME NEW r \in Requests, CommitLine(r) PROVE NoHiddenWork'
  <2> DEFINE gone == {req[r].line}
  <2>1. /\ isInvoiced' = isInvoiced \ gone /\ UNCHANGED <<deleted, reverses>>
        /\ \A j \in Invoices : lines[j] \ gone \subseteq lines'[j]
    BY <1>4 DEF CommitLine, TypeOK
  <2>2. QED
    BY ZenonT(60), <2>1, WitnessSurvives DEF Reversals
<1>5. ASSUME NEW r \in Requests, NEW draft \in [req[r].plan -> Unused],
             CreateDrafts(r, draft)
      PROVE  NoHiddenWork'
  <2> DEFINE plan == req[r].plan
             made == {draft[g] : g \in plan}
             group(i) == CHOOSE g \in plan : draft[g] = i
  <2>1. /\ made \subseteq Unused
        /\ \A g, h \in plan : draft[g] = draft[h] => g = h
        /\ lines' = [i \in Invoices |-> IF i \in made THEN group(i) ELSE lines[i]]
        /\ isInvoiced' = (isInvoiced \ UNION plan) \cup req[r].settled
        /\ UNCHANGED <<deleted, reverses>>
        /\ req[r].settled \subseteq UNION plan
    BY <1>5 DEF CreateDrafts, NumberingInv, RequestsSound
  <2>2. \A g \in plan : draft[g] \in made /\ group(draft[g]) = g
    BY <2>1
  <2>3. \A i \in made : /\ i \in Invoices /\ i \notin deleted /\ Reversals(i) = {}
                        /\ lines[i] = {}
    BY <2>1 DEF Unused, NumberingInv, UnusedBlank
  <2>4. \A g \in plan : lines'[draft[g]] = g
    BY <2>1, <2>2, <2>3
  <2>5. SUFFICES ASSUME NEW e \in isInvoiced' PROVE LiveClaims(e)' # {}
    BY DEF NoHiddenWork
  <2>6. CASE e \in req[r].settled
    <3>1. PICK g \in plan : e \in g
      BY <2>1, <2>6
    <3>2. draft[g] \in LiveClaims(e)'
      BY <2>1, <2>2, <2>3, <2>4, <3>1 DEF LiveClaims, Reversals
    <3>3. QED
      BY <3>2
  <2>7. CASE e \in isInvoiced
    <3>1. PICK i \in Invoices : e \in lines[i] /\ i \notin deleted /\ Reversals(i) = {}
      BY <2>7 DEF NoHiddenWork, LiveClaims
    <3>2. i \notin made
      BY <2>3, <3>1
    <3>3. i \in LiveClaims(e)'
      BY <2>1, <3>1, <3>2 DEF LiveClaims, Reversals
    <3>4. QED
      BY <3>3
  <2>8. QED
    BY <2>1, <2>6, <2>7
<1>6. CASE Next
  BY <1>6, <1>1, <1>2, <1>3, <1>4, <1>5, StepCases
  DEF Earn, SetShares, NewYear, Abandon, Fetch, Issue, Send, Unissue, AddLine, LowerLine,
      RemoveLine, UpdateMeta, UpdateSummary, Plan, ComputeFlags, invoiceVars, poolVars
<1>7. CASE UNCHANGED vars
  BY <1>1, <1>7 DEF vars
<1>8. QED
  BY <1>6, <1>7

\* An Extra Work marked invoiced is on a line of a live, unreversed invoice,
\* for any interleaving and while cost shares are replaced: no earned work is
\* hidden from the pool by a flag nobody holds.
THEOREM WorkNeverHidden == Spec => []NoHiddenWork
<1>1. Init => NoHiddenWork
  BY DEF Init, NoHiddenWork
<1>2. QED
  BY <1>1, InitType, NextType, InitNumbering, NextNumbering, NextNoHiddenWork, PTL DEF Spec

-----------------------------------------------------------------------------
\* Numbering implements the append-only ledger.

\* Place n of a year's book holds the document with number n of that year.
BookPlaces ==
    \A y \in Years :
        /\ Book[y] \in Seq(Invoices)
        /\ Len(Book[y]) = seq[y]
        /\ \A n \in 1..seq[y] : /\ Book[y][n] \in Invoices
                                /\ number[Book[y][n]] = n
                                /\ year[Book[y][n]] = y

LEMMA BookHoldsNumbers == TypeOK /\ NumberingInv => BookPlaces
<1> SUFFICES ASSUME TypeOK, NumberingInv, NEW y \in Years
             PROVE  /\ Book[y] \in Seq(Invoices)
                    /\ Len(Book[y]) = seq[y]
                    /\ \A n \in 1..seq[y] : /\ Book[y][n] \in Invoices
                                            /\ number[Book[y][n]] = n
                                            /\ year[Book[y][n]] = y
  BY DEF BookPlaces
<1>1. \A n \in 1..seq[y] : /\ Holder(y, n) \in Invoices
                            /\ number[Holder(y, n)] = n
                            /\ year[Holder(y, n)] = y
  BY DEF NumberingInv, NumbersFilled, Numbered, Holder
<1>2. Book[y] = [n \in 1..seq[y] |-> Holder(y, n)]
  BY DEF Book
<1>3. seq[y] \in Nat
  BY DEF TypeOK
<1>4. QED
  BY <1>1, <1>2, <1>3

\* A step that allocates for a document without a number appends it.
LEMMA AllocationAppends ==
    ASSUME TypeOK, NumberingInv, BookPlaces, BookPlaces', NumbersUnique',
           NEW x \in Invoices, number[x] = 0, AllocateFor(x), UNCHANGED now
    PROVE  Ledger!Number(x)
<1>1. /\ now \in Years /\ seq[now] \in Nat
      /\ seq'[now] = seq[now] + 1
      /\ \A y \in Years : seq[y] \in Nat /\ (y # now => seq'[y] = seq[y])
      /\ number'[x] = seq[now] + 1 /\ year'[x] = now
      /\ \A i \in Invoices : i # x => number'[i] = number[i] /\ year'[i] = year[i]
  BY DEF AllocateFor, TypeOK
<1>2. \A y \in Years : \A n \in 1..seq[y] : Book'[y][n] = Book[y][n]
  <2> SUFFICES ASSUME NEW y \in Years, NEW n \in 1..seq[y] PROVE Book'[y][n] = Book[y][n]
    OBVIOUS
  <2>1. Book[y][n] \in Invoices /\ number[Book[y][n]] = n /\ year[Book[y][n]] = y
    BY DEF BookPlaces
  <2>2. n # 0 /\ n \in 1..seq'[y]
    BY <1>1
  <2>3. number'[Book[y][n]] = n /\ year'[Book[y][n]] = y
    BY <1>1, <2>1, <2>2
  <2>4. Book'[y][n] \in Invoices /\ number'[Book'[y][n]] = n /\ year'[Book'[y][n]] = y
    BY <2>2 DEF BookPlaces
  <2>5. QED
    BY <2>1, <2>2, <2>3, <2>4 DEF NumbersUnique
<1>3. Book'[now][seq[now] + 1] = x
  <2>1. /\ Book'[now][seq[now] + 1] \in Invoices
        /\ number'[Book'[now][seq[now] + 1]] = seq[now] + 1
        /\ year'[Book'[now][seq[now] + 1]] = now
    BY <1>1 DEF BookPlaces
  <2>2. QED
    BY <1>1, <2>1 DEF NumbersUnique
<1>4. ~Ledger!InBook(x)
  BY DEF Ledger!InBook, BookPlaces
<1>5. /\ DOMAIN Book = Years /\ DOMAIN Book' = Years
      /\ Book = [y \in Years |-> Book[y]] /\ Book' = [y \in Years |-> Book'[y]]
  BY DEF Book
<1>6. \A y \in Years : y # now => Book'[y] = Book[y]
  <2> SUFFICES ASSUME NEW y \in Years, y # now PROVE Book'[y] = Book[y]
    OBVIOUS
  <2>1. /\ Book[y] \in Seq(Invoices) /\ Book'[y] \in Seq(Invoices)
        /\ Len(Book'[y]) = Len(Book[y]) /\ Len(Book[y]) = seq[y]
    BY <1>1 DEF BookPlaces
  <2>2. QED
    BY <1>2, <2>1
<1>7. Book'[now] = Append(Book[now], x)
  <2>1. /\ Book[now] \in Seq(Invoices) /\ Book'[now] \in Seq(Invoices)
        /\ Len(Book'[now]) = seq[now] + 1 /\ Len(Book[now]) = seq[now]
    BY <1>1 DEF BookPlaces
  <2>2. QED
    BY <1>1, <1>2, <1>3, <2>1
<1>8. Book' = [Book EXCEPT ![now] = Append(@, x)]
  BY <1>1, <1>5, <1>6, <1>7
<1>9. QED
  BY <1>4, <1>8 DEF Ledger!Number

LEMMA LedgerStep ==
    ASSUME TypeOK, NumberingInv, BookPlaces, BookPlaces', NumberingInv', [Next]_vars
    PROVE  [Ledger!Next]_<<Book, now>>
<1>1. ASSUME UNCHANGED <<number, year, seq, now>> PROVE UNCHANGED <<Book, now>>
  BY <1>1 DEF Book, Holder, Numbered
<1>2. CASE NewYear
  <2>1. UNCHANGED Book
    BY <1>2 DEF NewYear, invoiceVars, Book, Holder, Numbered
  <2>2. Ledger!NewYear
    BY <1>2, <2>1 DEF NewYear, Ledger!NewYear
  <2>3. QED
    BY <2>2 DEF Ledger!Next
<1>3. ASSUME NEW r \in Requests, Send(r) PROVE [Ledger!Next]_<<Book, now>>
  <2>1. req[r].inv \in Invoices
    BY <1>3, RequestShapes DEF Send, Fetched
  <2>2. CASE number[req[r].inv] = 0
    <3>1. AllocateFor(req[r].inv) /\ UNCHANGED now
      BY <1>3, <2>2 DEF Send, NeedsNumber
    <3>2. Ledger!Number(req[r].inv)
      BY <2>1, <2>2, <3>1, AllocationAppends DEF NumberingInv
    <3>3. QED
      BY <2>1, <3>2 DEF Ledger!Next
  <2>3. CASE number[req[r].inv] # 0
    BY <1>1, <1>3, <2>3 DEF Send, NeedsNumber, numberVars
  <2>4. QED
    BY <2>2, <2>3
<1>4. ASSUME NEW r \in Requests, Reverse(r) PROVE [Ledger!Next]_<<Book, now>>
  <2>1. PICK x \in Invoices : number[x] = 0 /\ AllocateFor(x)
    BY <1>4 DEF Reverse, Unused, NumberingInv, UnusedBlank
  <2>2. Ledger!Number(x)
    BY <1>4, <2>1, AllocationAppends DEF Reverse, NumberingInv
  <2>3. QED
    BY <2>2 DEF Ledger!Next
<1>5. CASE UNCHANGED vars
  BY <1>1, <1>5 DEF vars
<1>6. CASE Next
  <2>1. NewYear \/ (\E r \in Requests : Send(r) \/ Reverse(r))
        \/ UNCHANGED <<number, year, seq, now>>
    BY <1>6, StepCases
    DEF Earn, SetShares, Abandon, Fetch, Issue, Unissue, DeleteDraft, AddLine, LowerLine,
        RemoveLine, CommitLine, UpdateMeta, UpdateSummary, Plan, ComputeFlags, CreateDrafts,
        invoiceVars, numberVars
  <2>2. QED
    BY <1>1, <1>2, <1>3, <1>4, <2>1
<1>7. QED
  BY <1>5, <1>6

LEMMA LedgerInit == Init => Ledger!Init
<1> SUFFICES ASSUME Init PROVE Ledger!Init
  OBVIOUS
<1>1. \A y \in Years : 1..seq[y] = {}
  BY DEF Init
<1>2. Book = [y \in Years |-> <<>>]
  BY <1>1 DEF Book
<1>3. now \in {y \in Years : \A z \in Years : y <= z}
  BY DEF Init
<1>4. QED
  BY <1>2, <1>3 DEF Ledger!Init

\* The invoices' numbers implement the append-only ledger: every send of an
\* unnumbered invoice and every reversal appends to the book of the current
\* year, and no step withdraws, moves or back-dates a number.
THEOREM ImplementsLedger == Spec => LedgerSpec
<1>1. TypeOK' /\ NumberingInv' => BookPlaces'
  BY BookHoldsNumbers, PTL
<1>2. TypeOK /\ NumberingInv /\ TypeOK' /\ NumberingInv' /\ [Next]_vars
        => [Ledger!Next]_<<Book, now>>
  BY <1>1, BookHoldsNumbers, LedgerStep
<1>3. QED
  BY <1>2, LedgerInit, TypeCorrect, NumberingInvariant, PTL DEF Spec, LedgerSpec, Ledger!Spec
=============================================================================

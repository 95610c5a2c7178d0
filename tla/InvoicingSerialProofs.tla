------------------------ MODULE InvoicingSerialProofs ------------------------
(***************************************************************************)
(* What the endpoints of Invoicing keep when each request is over before   *)
(* the next one starts, for any number of invoices, customers, years and   *)
(* amounts.  None of it survives two requests at a time.                   *)
(***************************************************************************)
EXTENDS InvoicingProofs

\* At most one request is under way.
OneAtATime == \A r, s \in Requests : r = s

-----------------------------------------------------------------------------
(* What a request has read stays true until it acts on it.                 *)

FetchedCurrent(q) ==
    q.pc = "fetched" => /\ q.inv \notin deleted
                        /\ q.seen = status[q.inv]
                        /\ q.fee = fee[q.inv]
                        /\ q.line \in lines[q.inv] \cup {None}

EditCurrent(q) ==
    q.pc = "line" => /\ q.inv \notin deleted
                     /\ status[q.inv] = "DRAFT"
                     /\ q.line \in lines[q.inv] \cup {None}
                     /\ q.back = None
                     /\ q.total = Recomputed(lines[q.inv] \ {q.line},
                                             hand[q.inv] + q.add, fee[q.inv])

ReadingsCurrent == \A r \in Requests : FetchedCurrent(req[r]) /\ EditCurrent(req[r])

BlankAmounts == \A i \in Unused : hand[i] = 0 /\ fee[i] = 0

DeletedDrafts == \A i \in deleted : status[i] = "DRAFT"

SerialInv ==
    /\ ReadingsCurrent
    /\ BlankAmounts
    /\ DeletedDrafts
    /\ TotalsMatchLines
    /\ ReversalCancels

\* What a generation has planned is still unbilled, and its groups share no row.
PlanCurrent(q) ==
    q.pc \in {"planned", "claiming"} =>
        /\ \A e \in UNION q.plan :
              /\ q.cust \notin ClaimedFor(e)
              /\ IF ShareHolders(e) = {} THEN LiveClaims(e) = {} ELSE q.cust \in ShareHolders(e)
        /\ \A g, h \in q.plan : g # h => g \cap h = {}
        /\ q.pc = "claiming" => q.settled = {e \in UNION q.plan : Settles(q.cust, e)}

PlansCurrent == \A r \in Requests : PlanCurrent(req[r])

\* Work on a shared building is billed to its share-holders only.
ClaimsByHolders ==
    \A e \in EWs : ShareHolders(e) # {} => ClaimedFor(e) \subseteq ShareHolders(e)

BillingInv ==
    /\ PlansCurrent
    /\ ClaimsByHolders
    /\ NoDoubleBilling
    /\ FlagMeansSettled

-----------------------------------------------------------------------------
(* The documents.                                                          *)

LEMMA EmptyCount == Cardinality({}) = 0
  BY FS_EmptySet

LEMMA InitSerial == Init => SerialInv
<1> SUFFICES ASSUME Init PROVE SerialInv
  OBVIOUS
<1>1. ReadingsCurrent
  BY DEF Init, ReadingsCurrent, FetchedCurrent, EditCurrent, Idle
<1>2. BlankAmounts /\ DeletedDrafts
  BY DEF Init, BlankAmounts, DeletedDrafts, Unused
<1>3. TotalsMatchLines
  BY EmptyCount DEF Init, TotalsMatchLines
<1>4. ReversalCancels
  BY DEF Init, ReversalCancels
<1>5. QED
  BY <1>1, <1>2, <1>3, <1>4 DEF SerialInv

\* When the only request ends, nobody has read anything.
LEMMA FinishCurrent ==
    ASSUME OneAtATime, TypeOK, NEW r \in Requests, Finish(r)
    PROVE  \A q \in Requests : req'[q] = Idle
  BY DEF OneAtATime, Finish, TypeOK

\* A step that leaves the documents alone keeps the invariant if the record
\* of the request is current.
LEMMA ReadingStep ==
    ASSUME OneAtATime, TypeOK, SerialInv, NEW r \in Requests, NEW rec,
           req' = [req EXCEPT ![r] = rec], FetchedCurrent(rec), EditCurrent(rec),
           UNCHANGED invoiceVars
    PROVE  SerialInv'
<1>1. \A q \in Requests : req'[q] = rec
  BY DEF OneAtATime, TypeOK
<1>2. /\ UNCHANGED <<status, deleted, reverses, lines, hand, fee, total>>
  BY DEF invoiceVars
<1>3. ReadingsCurrent'
  BY <1>1, <1>2 DEF ReadingsCurrent, FetchedCurrent, EditCurrent, Recomputed
<1>4. BlankAmounts' /\ DeletedDrafts' /\ TotalsMatchLines' /\ ReversalCancels'
  BY <1>2 DEF SerialInv, BlankAmounts, DeletedDrafts, TotalsMatchLines, ReversalCancels,
              Unused, Exists
<1>5. QED
  BY <1>3, <1>4 DEF SerialInv

\* No reading of a request that has ended is out of date.
LEMMA IdleCurrent ==
    ASSUME \A q \in Requests : req'[q] = Idle
    PROVE  ReadingsCurrent'
  BY DEF ReadingsCurrent, FetchedCurrent, EditCurrent, Idle

LEMMA NextSerial ==
    ASSUME OneAtATime, TypeOK, TypeOK', NumberingInv, SerialInv, [Next]_vars
    PROVE  SerialInv'
<1> USE NoneAssumption
<1>1. ASSUME UNCHANGED <<invoiceVars, req>> PROVE SerialInv'
  <2>1. UNCHANGED <<status, deleted, reverses, lines, hand, fee, total, req>>
    BY <1>1 DEF invoiceVars
  <2>2. ReadingsCurrent'
    BY <2>1 DEF SerialInv, ReadingsCurrent, FetchedCurrent, EditCurrent, Recomputed
  <2>3. BlankAmounts' /\ DeletedDrafts' /\ TotalsMatchLines' /\ ReversalCancels'
    BY <2>1 DEF SerialInv, BlankAmounts, DeletedDrafts, TotalsMatchLines, ReversalCancels,
                Unused, Exists
  <2>4. QED
    BY <2>2, <2>3 DEF SerialInv
<1>2. ASSUME NEW r \in Requests, Abandon(r) PROVE SerialInv'
  <2>1. FetchedCurrent(Idle) /\ EditCurrent(Idle)
    BY DEF FetchedCurrent, EditCurrent, Idle
  <2>2. QED
    BY <1>2, <2>1, ReadingStep DEF Abandon
<1>3. ASSUME NEW r \in Requests, NEW i \in Invoices, NEW l \in lines[i] \cup {None},
             Fetch(r, i, l)
      PROVE  SerialInv'
  <2> DEFINE rec == [pc |-> "fetched", inv |-> i, seen |-> status[i], fee |-> fee[i], line |-> l]
  <2>1. FetchedCurrent(rec) /\ EditCurrent(rec)
    BY <1>3 DEF Fetch, FetchedCurrent, EditCurrent
  <2>2. req' = [req EXCEPT ![r] = rec] /\ UNCHANGED invoiceVars
    BY <1>3 DEF Fetch
  <2> HIDE DEF rec
  <2>3. QED
    BY <2>1, <2>2, ReadingStep
<1>4. ASSUME NEW r \in Requests, NEW add \in Int, NEW gone \in {None, req[r].line},
             req[r].pc = "fetched", SeenDraft(r), StartLineEdit(r, add, gone, None),
             UNCHANGED invoiceVars
      PROVE  SerialInv'
  <2> DEFINE i == req[r].inv
             rec == [pc |-> "line", inv |-> i, add |-> add, line |-> gone, back |-> None,
                     total |-> Recomputed(lines[i] \ {gone}, hand[i] + add, req[r].fee)]
  <2>1. /\ i \notin deleted /\ status[i] = "DRAFT" /\ req[r].fee = fee[i]
        /\ req[r].line \in lines[i] \cup {None}
    BY <1>4 DEF SerialInv, ReadingsCurrent, FetchedCurrent, SeenDraft
  <2>2. FetchedCurrent(rec) /\ EditCurrent(rec)
    BY <2>1 DEF FetchedCurrent, EditCurrent
  <2>3. req' = [req EXCEPT ![r] = rec]
    <3>1. (lines[i] \ {gone}) \cup ({None} \ {None}) = lines[i] \ {gone}
      OBVIOUS
    <3>2. QED
      BY <1>4, <3>1 DEF StartLineEdit
  <2> HIDE DEF rec
  <2>4. QED
    BY <1>4, <2>2, <2>3, ReadingStep
<1>5. ASSUME NEW r \in Requests, AddLine(r) \/ LowerLine(r) \/ RemoveLine(r) PROVE SerialInv'
  <2>1. 1 \in Int /\ -1 \in Int /\ 0 \in Int
    OBVIOUS
  <2>2. LowerLine(r) => LineBack(r) = None
    BY DEF LowerLine, LineBack, SerialInv, ReadingsCurrent, FetchedCurrent
  <2>3. QED
    BY <1>4, <1>5, <2>1, <2>2 DEF AddLine, LowerLine, RemoveLine
<1>6. ASSUME NEW r \in Requests, NEW c \in Customers, NEW scope \in Windows,
             NEW own \in SUBSET EWs, Plan(r, c, scope, own)
      PROVE  SerialInv'
  <2> DEFINE rec == [pc |-> "planned", cust |-> c, plan |-> Grouped(Pool(c, scope), own)]
  <2>1. FetchedCurrent(rec) /\ EditCurrent(rec)
    BY DEF FetchedCurrent, EditCurrent
  <2>2. req' = [req EXCEPT ![r] = rec] /\ UNCHANGED invoiceVars
    BY <1>6 DEF Plan
  <2> HIDE DEF rec
  <2>3. QED
    BY <2>1, <2>2, ReadingStep
<1>7. ASSUME NEW r \in Requests, ComputeFlags(r) PROVE SerialInv'
  <2> DEFINE rec == [pc |-> "claiming", cust |-> req[r].cust, plan |-> req[r].plan,
                     settled |-> {e \in UNION req[r].plan : Settles(req[r].cust, e)}]
  <2>1. FetchedCurrent(rec) /\ EditCurrent(rec)
    BY DEF FetchedCurrent, EditCurrent
  <2>2. req' = [req EXCEPT ![r] = rec] /\ UNCHANGED invoiceVars
    BY <1>7 DEF ComputeFlags
  <2> HIDE DEF rec
  <2>3. QED
    BY <2>1, <2>2, ReadingStep
<1>8. ASSUME NEW r \in Requests, Issue(r) \/ Send(r) \/ Unissue(r) PROVE SerialInv'
  <2> DEFINE i == req[r].inv
  <2>1. i \in Invoices /\ i \notin deleted /\ Exists(i)
    BY <1>8, RequestShapes
    DEF Issue, Send, Unissue, Fetched, SerialInv, ReadingsCurrent, FetchedCurrent,
        NumberingInv, RequestsSound
  <2>2. /\ UNCHANGED <<deleted, reverses, lines, hand, fee, total>>
        /\ Finish(r)
        /\ status'[i] # "absent"
        /\ \A j \in Invoices : j # i => status'[j] = status[j]
    BY <1>8, <2>1 DEF Issue, Send, Unissue, TypeOK
  <2>3. ReadingsCurrent'
    BY <2>2, FinishCurrent, IdleCurrent
  <2>4. BlankAmounts' /\ DeletedDrafts'
    BY <2>1, <2>2 DEF SerialInv, BlankAmounts, DeletedDrafts, Unused, Exists, TypeOK
  <2>5. TotalsMatchLines' /\ ReversalCancels'
    BY <2>2 DEF SerialInv, TotalsMatchLines, ReversalCancels
  <2>6. QED
    BY <2>3, <2>4, <2>5 DEF SerialInv
<1>9. ASSUME NEW r \in Requests, DeleteDraft(r) PROVE SerialInv'
  <2>1. status[req[r].inv] = "DRAFT"
    BY <1>9 DEF DeleteDraft, SeenDraft, SerialInv, ReadingsCurrent, FetchedCurrent
  <2>2. /\ UNCHANGED <<status, reverses, lines, hand, fee, total>>
        /\ deleted' = deleted \cup {req[r].inv}
        /\ Finish(r)
    BY <1>9 DEF DeleteDraft
  <2>3. ReadingsCurrent'
    BY <2>2, FinishCurrent, IdleCurrent
  <2>4. BlankAmounts' /\ DeletedDrafts' /\ TotalsMatchLines' /\ ReversalCancels'
    BY <2>1, <2>2 DEF SerialInv, BlankAmounts, DeletedDrafts, TotalsMatchLines,
                      ReversalCancels, Unused, Exists
  <2>5. QED
    BY <2>3, <2>4 DEF SerialInv
<1>10. ASSUME NEW r \in Requests, NEW i \in Invoices, status[i] = "DRAFT", Finish(r),
              UNCHANGED <<status, deleted, reverses>>,
              \A j \in Invoices : j # i => /\ lines'[j] = lines[j] /\ hand'[j] = hand[j]
                                           /\ fee'[j] = fee[j] /\ total'[j] = total[j],
              total'[i] = Cardinality(lines'[i]) + hand'[i] + fee'[i]
       PROVE  SerialInv'
  <2>1. ReadingsCurrent'
    BY <1>10, FinishCurrent, IdleCurrent
  <2>2. BlankAmounts' /\ DeletedDrafts'
    BY <1>10 DEF SerialInv, BlankAmounts, DeletedDrafts, Unused, Exists
  <2>3. TotalsMatchLines'
    BY <1>10 DEF SerialInv, TotalsMatchLines
  <2>4. \A x \in Invoices : reverses[x] # None =>
            /\ x # i /\ reverses[x] \in Invoices /\ reverses[x] # i
    BY <1>10 DEF NumberingInv, ReversalsSound, TypeOK
  <2>5. ReversalCancels'
    BY <1>10, <2>4 DEF SerialInv, ReversalCancels
  <2>6. QED
    BY <2>1, <2>2, <2>3, <2>5 DEF SerialInv
<1>11. ASSUME NEW r \in Requests, CommitLine(r) PROVE SerialInv'
  <2> DEFINE i == req[r].inv
             gone == req[r].line
  <2>1. i \in Invoices /\ req[r].add \in Int
    BY <1>11, RequestShapes DEF CommitLine, Editing
  <2>2. /\ status[i] = "DRAFT" /\ req[r].back = None
        /\ req[r].total = Recomputed(lines[i] \ {gone}, hand[i] + req[r].add, fee[i])
    BY <1>11 DEF CommitLine, SerialInv, ReadingsCurrent, EditCurrent
  <2>3. /\ lines' = [lines EXCEPT ![i] = lines[i] \ {gone}]
        /\ hand' = [hand EXCEPT ![i] = hand[i] + req[r].add]
        /\ total' = [total EXCEPT ![i] = req[r].total]
        /\ Finish(r) /\ UNCHANGED <<status, deleted, reverses, fee>>
    BY <1>11, <2>2 DEF CommitLine
  <2>4. /\ lines'[i] = lines[i] \ {gone} /\ hand'[i] = hand[i] + req[r].add
        /\ fee'[i] = fee[i] /\ total'[i] = req[r].total
        /\ \A j \in Invoices : j # i => /\ lines'[j] = lines[j] /\ hand'[j] = hand[j]
                                        /\ fee'[j] = fee[j] /\ total'[j] = total[j]
    BY <2>1, <2>3 DEF TypeOK
  <2>5. total'[i] = Cardinality(lines'[i]) + hand'[i] + fee'[i]
    BY <2>2, <2>4 DEF Recomputed
  <2>6. QED
    BY <1>10, <2>1, <2>2, <2>3, <2>4, <2>5
<1>12. ASSUME NEW r \in Requests, UpdateSummary(r) \/ \E f \in Fees : UpdateMeta(r, f)
       PROVE  SerialInv'
  <2> DEFINE i == req[r].inv
  <2>1. i \in Invoices /\ status[i] = "DRAFT" /\ req[r].fee = fee[i]
    BY <1>12, RequestShapes
    DEF UpdateMeta, UpdateSummary, SeenDraft, Fetched, SerialInv, ReadingsCurrent,
        FetchedCurrent
  <2>2. PICK f : /\ fee' = [fee EXCEPT ![i] = f]
                 /\ total' = [total EXCEPT ![i] = Recomputed(lines[i], hand[i], f)]
    <3>1. CASE UpdateSummary(r)
      <4>1. fee' = [fee EXCEPT ![i] = fee[i]]
        BY <2>1, <3>1 DEF UpdateSummary, TypeOK
      <4>2. QED
        BY <2>1, <3>1, <4>1 DEF UpdateSummary
    <3>2. CASE \E f \in Fees : UpdateMeta(r, f)
      BY <3>2 DEF UpdateMeta
    <3>3. QED
      BY <1>12, <3>1, <3>2
  <2>3. Finish(r) /\ UNCHANGED <<status, deleted, reverses, lines, hand>>
    BY <1>12 DEF UpdateMeta, UpdateSummary
  <2>4. /\ fee'[i] = f /\ total'[i] = Recomputed(lines[i], hand[i], f)
        /\ \A j \in Invoices : j # i => fee'[j] = fee[j] /\ total'[j] = total[j]
    BY <2>1, <2>2 DEF TypeOK
  <2>5. total'[i] = Cardinality(lines'[i]) + hand'[i] + fee'[i]
    BY <2>3, <2>4 DEF Recomputed
  <2>6. QED
    BY <1>10, <2>1, <2>3, <2>4, <2>5
<1>13. ASSUME NEW r \in Requests, Reverse(r) PROVE SerialInv'
  <2> DEFINE i == req[r].inv
  <2>1. i \in Invoices /\ status[i] = "SENT"
    BY <1>13, RequestShapes DEF Reverse, MayReverse, Fetched
  <2>2. PICK x \in Unused :
            /\ status'   = [status   EXCEPT ![x] = "ISSUED"]
            /\ reverses' = [reverses EXCEPT ![x] = i]
            /\ hand'     = [hand     EXCEPT ![x] = -(Cardinality(lines[i]) + hand[i])]
            /\ fee'      = [fee      EXCEPT ![x] = -fee[i]]
            /\ total'    = [total    EXCEPT ![x] = -total[i]]
    BY <1>13 DEF Reverse
  <2>3. Finish(r) /\ UNCHANGED <<deleted, lines>>
    BY <1>13 DEF Reverse
  <2>4. /\ x \in Invoices /\ x # i /\ lines[x] = {} /\ x \notin deleted
        /\ \A j \in Invoices : reverses[j] # x
    BY <2>1, <2>2 DEF Unused, Exists, NumberingInv, UnusedBlank, Reversals
  <2>5. /\ status'[x] = "ISSUED" /\ reverses'[x] = i
        /\ hand'[x] = -(Cardinality(lines[i]) + hand[i]) /\ fee'[x] = -fee[i]
        /\ total'[x] = -total[i]
        /\ \A j \in Invoices : j # x =>
              /\ status'[j] = status[j] /\ reverses'[j] = reverses[j] /\ hand'[j] = hand[j]
              /\ fee'[j] = fee[j] /\ total'[j] = total[j]
    BY <2>2, <2>4 DEF TypeOK
  <2>6. ReadingsCurrent'
    BY <2>3, FinishCurrent, IdleCurrent
  <2>7. BlankAmounts'
    BY <2>5 DEF SerialInv, BlankAmounts, Unused, Exists
  <2>8. DeletedDrafts'
    BY <2>3, <2>4, <2>5 DEF SerialInv, DeletedDrafts, TypeOK
  <2>9. total'[x] = Cardinality(lines'[x]) + hand'[x] + fee'[x]
    <3>1. total[i] = Cardinality(lines[i]) + hand[i] + fee[i]
      BY <2>1 DEF SerialInv, TotalsMatchLines
    <3>2. Cardinality(lines'[x]) = 0
      BY <2>3, <2>4, EmptyCount
    <3>3. Cardinality(lines[i]) \in Int /\ hand[i] \in Int /\ fee[i] \in Int
      BY <2>1, LineCountType DEF TypeOK
    <3>4. QED
      BY <2>5, <3>1, <3>2, <3>3
  <2>10. TotalsMatchLines'
    BY <2>3, <2>5, <2>9 DEF SerialInv, TotalsMatchLines
  <2>11. ReversalCancels'
    <3> SUFFICES ASSUME NEW y \in Invoices, reverses'[y] # None
                 PROVE  total'[y] = -total'[reverses'[y]]
      BY DEF ReversalCancels
    <3>1. CASE y = x
      BY <2>1, <2>4, <2>5, <3>1
    <3>2. CASE y # x
      <4>1. reverses[y] \in Invoices /\ reverses[y] # x /\ reverses'[y] = reverses[y]
        BY <2>4, <2>5, <3>2 DEF TypeOK
      <4>2. QED
        BY <2>5, <3>2, <4>1 DEF SerialInv, ReversalCancels
    <3>3. QED
      BY <3>1, <3>2
  <2>12. QED
    BY <2>6, <2>7, <2>8, <2>10, <2>11 DEF SerialInv
<1>14. ASSUME NEW r \in Requests, NEW draft \in [req[r].plan -> Unused],
              CreateDrafts(r, draft)
       PROVE  SerialInv'
  <2> DEFINE made == {draft[g] : g \in req[r].plan}
             group(i) == CHOOSE g \in req[r].plan : draft[g] = i
  <2>1. /\ made \subseteq Unused
        /\ status' = [i \in Invoices |-> IF i \in made THEN "DRAFT" ELSE status[i]]
        /\ lines' = [i \in Invoices |-> IF i \in made THEN group(i) ELSE lines[i]]
        /\ total' = [i \in Invoices |-> IF i \in made THEN Cardinality(group(i))
                                                     ELSE total[i]]
        /\ UNCHANGED <<deleted, reverses, hand, fee>>
        /\ Finish(r)
    BY <1>14 DEF CreateDrafts
  <2>2. \A i \in made : /\ i \in Invoices /\ hand[i] = 0 /\ fee[i] = 0 /\ i \notin deleted
                        /\ \A j \in Invoices : reverses[j] # i
                        /\ reverses[i] = None
    BY <2>1 DEF Unused, NumberingInv, UnusedBlank, Reversals, SerialInv, BlankAmounts
  <2>3. \A i \in made : total'[i] = Cardinality(lines'[i])
    BY <2>1, <2>2
  <2>4. \A i \in made : status'[i] = "DRAFT"
    BY <2>1, <2>2
  <2>5. \A i \in Invoices \ made : /\ status'[i] = status[i] /\ lines'[i] = lines[i]
                                   /\ total'[i] = total[i]
    BY <2>1
  <2> HIDE DEF made, group
  <2>6. ReadingsCurrent'
    BY <2>1, FinishCurrent, IdleCurrent
  <2>7. BlankAmounts' /\ DeletedDrafts'
    BY <2>1, <2>2, <2>4, <2>5
    DEF SerialInv, BlankAmounts, DeletedDrafts, Unused, Exists, TypeOK
  <2>8. TotalsMatchLines'
    <3> SUFFICES ASSUME NEW i \in Invoices
                 PROVE  total'[i] = Cardinality(lines'[i]) + hand[i] + fee[i]
      BY <2>1 DEF TotalsMatchLines
    <3>1. CASE i \in made
      <4>1. Cardinality(lines'[i]) \in Nat
        BY LineCountType DEF TypeOK
      <4>2. QED
        BY <2>2, <2>3, <3>1, <4>1
    <3>2. CASE i \notin made
      BY <2>5, <3>2 DEF SerialInv, TotalsMatchLines
    <3>3. QED
      BY <3>1, <3>2
  <2>9. ReversalCancels'
    <3>1. \A y \in Invoices : reverses[y] # None =>
              y \notin made /\ reverses[y] \in Invoices \ made
      BY <2>2 DEF TypeOK
    <3>2. QED
      BY <2>1, <2>5, <3>1 DEF SerialInv, ReversalCancels
  <2>10. QED
    BY <2>6, <2>7, <2>8, <2>9 DEF SerialInv
<1>15. CASE Next
  BY <1>15, StepCases, <1>1, <1>2, <1>3, <1>5, <1>6, <1>7, <1>8, <1>9, <1>11, <1>12, <1>13,
     <1>14 DEF Earn, SetShares, NewYear
<1>16. CASE UNCHANGED vars
  BY <1>1, <1>16 DEF vars, invoiceVars
<1>17. QED
  BY <1>15, <1>16
LEMMA SerialInvariant == ASSUME OneAtATime PROVE Spec => []SerialInv
<1>1. TypeOK /\ TypeOK' /\ NumberingInv /\ SerialInv /\ [Next]_vars => SerialInv'
  BY NextSerial
<1>2. QED
  BY <1>1, InitSerial, TypeCorrect, NumberingInvariant, PTL DEF Spec

\* When requests run one after the other, the stored total of every invoice is
\* the sum of its lines and its fee, through line edits, fee changes, price
\* edits, generation and reversal (the recompute and the mirrored reversal).
THEOREM TotalsRight == ASSUME OneAtATime PROVE Spec => []TotalsMatchLines
<1>1. SerialInv => TotalsMatchLines
  BY DEF SerialInv
<1>2. QED
  BY <1>1, SerialInvariant, PTL

\* When requests run one after the other, a reversal cancels its original to
\* the cent: neither document is edited once the reversal exists.
THEOREM ReversalsCancel == ASSUME OneAtATime PROVE Spec => []ReversalCancels
<1>1. SerialInv => ReversalCancels
  BY DEF SerialInv
<1>2. QED
  BY <1>1, SerialInvariant, PTL

\* When requests run one after the other, no deletion ever takes a document
\* with a number: what delete_draft_invoice marks is still a draft, and a
\* draft holds no number.
THEOREM NumberedKept == ASSUME OneAtATime PROVE Spec => []NumberedNeverDeleted
<1>1. TypeOK /\ NumberingInv /\ SerialInv => NumberedNeverDeleted
  <2> SUFFICES ASSUME TypeOK, NumberingInv, SerialInv, NEW i \in deleted
               PROVE  number[i] = 0
    BY DEF NumberedNeverDeleted
  <2>1. i \in Invoices /\ status[i] = "DRAFT"
    BY DEF TypeOK, SerialInv, DeletedDrafts
  <2>2. reverses[i] = None
    BY <2>1 DEF NumberingInv, ReversalsSound
  <2>3. QED
    BY <2>1, <2>2 DEF NumberingInv, NumberedWhenCommitted
<1>2. QED
  BY <1>1, SerialInvariant, TypeCorrect, NumberingInvariant, PTL

LEMMA SentStep ==
    ASSUME OneAtATime, TypeOK, NumberingInv, SerialInv, Next,
           NEW i \in Invoices, status[i] = "SENT"
    PROVE  /\ lines'[i] = lines[i] /\ hand'[i] = hand[i]
           /\ fee'[i] = fee[i]     /\ total'[i] = total[i]
<1>1. CASE UNCHANGED <<lines, hand, fee, total>>
  BY <1>1
<1>2. ASSUME NEW r \in Requests, Reverse(r)
      PROVE  /\ lines'[i] = lines[i] /\ hand'[i] = hand[i]
             /\ fee'[i] = fee[i]     /\ total'[i] = total[i]
  <2>1. PICK x \in Unused :
            /\ hand'  = [hand  EXCEPT ![x] = -(Cardinality(lines[req[r].inv])
                                                + hand[req[r].inv])]
            /\ fee'   = [fee   EXCEPT ![x] = -fee[req[r].inv]]
            /\ total' = [total EXCEPT ![x] = -total[req[r].inv]]
    BY <1>2 DEF Reverse
  <2>2. x # i
    BY DEF Unused, Exists
  <2>3. QED
    BY <1>2, <2>1, <2>2 DEF Reverse, TypeOK
<1>3. ASSUME NEW r \in Requests, CommitLine(r)
      PROVE  /\ lines'[i] = lines[i] /\ hand'[i] = hand[i]
             /\ fee'[i] = fee[i]     /\ total'[i] = total[i]
  <2>1. req[r].inv # i
    BY <1>3 DEF CommitLine, SerialInv, ReadingsCurrent, EditCurrent
  <2>2. QED
    BY <1>3, <2>1 DEF CommitLine, TypeOK
<1>4. ASSUME NEW r \in Requests, UpdateSummary(r) \/ \E f \in Fees : UpdateMeta(r, f)
      PROVE  /\ lines'[i] = lines[i] /\ hand'[i] = hand[i]
             /\ fee'[i] = fee[i]     /\ total'[i] = total[i]
  <2>1. req[r].inv # i
    BY <1>4
    DEF UpdateMeta, UpdateSummary, SeenDraft, SerialInv, ReadingsCurrent, FetchedCurrent
  <2>2. QED
    BY <1>4, <2>1 DEF UpdateMeta, UpdateSummary, TypeOK
<1>5. ASSUME NEW r \in Requests, NEW draft \in [req[r].plan -> Unused], CreateDrafts(r, draft)
      PROVE  /\ lines'[i] = lines[i] /\ hand'[i] = hand[i]
             /\ fee'[i] = fee[i]     /\ total'[i] = total[i]
  <2>1. i \notin {draft[g] : g \in req[r].plan}
    BY <1>5 DEF CreateDrafts, Unused, Exists
  <2>2. QED
    BY <1>5, <2>1 DEF CreateDrafts
<1>6. QED
  BY StepCases, <1>1, <1>2, <1>3, <1>4, <1>5
  DEF Earn, SetShares, NewYear, Abandon, Fetch, Issue, Send, Unissue, DeleteDraft, AddLine,
      LowerLine, RemoveLine, Plan, ComputeFlags, invoiceVars

\* When requests run one after the other, a sent invoice is immutable: its
\* lines, hand-added amounts, fee and total stay as they were frozen at send.
THEOREM SentNeverChanges == ASSUME OneAtATime PROVE Spec => SentImmutable
<1>1. TypeOK /\ NumberingInv /\ SerialInv /\ [Next]_vars =>
        [\A i \in Invoices : status[i] = "SENT" =>
            /\ lines'[i] = lines[i] /\ hand'[i] = hand[i]
            /\ fee'[i] = fee[i]     /\ total'[i] = total[i]]_vars
  BY SentStep
<1>2. QED
  BY <1>1, SerialInvariant, TypeCorrect, NumberingInvariant, PTL DEF Spec, SentImmutable
-----------------------------------------------------------------------------
(* Billing.                                                                *)

LEMMA InitBilling == Init => BillingInv
<1> SUFFICES ASSUME Init PROVE BillingInv
  OBVIOUS
<1>1. \A e \in EWs : LiveClaims(e) = {} /\ ClaimedFor(e) = {}
  BY DEF Init, LiveClaims, ClaimedFor
<1>2. PlansCurrent
  BY DEF Init, PlansCurrent, PlanCurrent, Idle
<1>3. ClaimsByHolders /\ NoDoubleBilling /\ FlagMeansSettled
  BY <1>1 DEF ClaimsByHolders, NoDoubleBilling, FlagMeansSettled, Init
<1>4. QED
  BY <1>2, <1>3 DEF BillingInv

\* Nothing is claimed or released by a step that leaves the lines and who is
\* deleted, reversed or billed alone.
LEMMA QuietBilling ==
    ASSUME BillingInv, PlansCurrent',
           UNCHANGED <<lines, deleted, reverses, customer, isInvoiced, holders>>
    PROVE  BillingInv'
<1>1. \A e \in EWs : /\ LiveClaims(e)' = LiveClaims(e)
                     /\ ClaimedFor(e)' = ClaimedFor(e)
                     /\ ShareHolders(e)' = ShareHolders(e)
  BY DEF LiveClaims, ClaimedFor, Reversals, ShareHolders
<1>2. ClaimsByHolders' /\ NoDoubleBilling' /\ FlagMeansSettled'
  BY <1>1 DEF BillingInv, ClaimsByHolders, NoDoubleBilling, FlagMeansSettled
<1>3. QED
  BY <1>2 DEF BillingInv

\* A plan stays current as long as nobody touches the claims it was made from.
LEMMA PlanStays ==
    ASSUME NEW q, PlanCurrent(q), q.pc \in {"planned", "claiming"} => UNION q.plan \subseteq EWs,
           UNCHANGED <<lines, deleted, reverses, customer, holders>>
    PROVE  PlanCurrent(q)'
<1>1. \A e \in EWs : /\ LiveClaims(e)' = LiveClaims(e)
                     /\ ClaimedFor(e)' = ClaimedFor(e)
                     /\ ShareHolders(e)' = ShareHolders(e)
  BY DEF LiveClaims, ClaimedFor, Reversals, ShareHolders
<1>2. QED
  BY <1>1 DEF PlanCurrent, Settles

\* When the only request ends, no plan is left to go stale.
LEMMA IdlePlans ==
    ASSUME \A q \in Requests : req'[q] = Idle
    PROVE  PlansCurrent'
  BY DEF PlansCurrent, PlanCurrent, Idle

\* The only request's new record decides whether its plan is current.
LEMMA PlanOfRecord ==
    ASSUME OneAtATime, TypeOK, NEW r \in Requests, NEW rec, PlanCurrent(rec),
           rec.pc \in {"planned", "claiming"} => UNION rec.plan \subseteq EWs,
           req' = [req EXCEPT ![r] = rec], UNCHANGED <<invoiceVars, poolVars>>
    PROVE  PlansCurrent'
<1>1. \A q \in Requests : req'[q] = rec
  BY DEF OneAtATime, TypeOK
<1>2. PlanCurrent(rec)'
  BY PlanStays DEF invoiceVars, poolVars
<1>3. QED
  BY <1>1, <1>2 DEF PlansCurrent, PlanCurrent

\* When some of a live invoice's rows are released and their flags cleared,
\* what is left is billed and flagged as it must be.
LEMMA ReleaseKeepsBilling ==
    ASSUME TypeOK, BillingInv, NEW i \in Invoices, NEW gone \in SUBSET lines[i],
           i \notin deleted, Reversals(i) = {},
           \A e \in EWs : LiveClaims(e)' = IF e \in gone THEN LiveClaims(e) \ {i}
                                                       ELSE LiveClaims(e),
           \A e \in EWs : \A j \in LiveClaims(e) : customer'[j] = customer[j],
           isInvoiced' = isInvoiced \ gone,
           UNCHANGED holders,
           \A q \in Requests : req'[q] = Idle
    PROVE  BillingInv'
<1>1. \A e \in EWs : ShareHolders(e)' = ShareHolders(e)
  BY DEF ShareHolders
<1>2. \A e \in EWs : LiveClaims(e)' \subseteq LiveClaims(e)
  OBVIOUS
<1>3. \A e \in EWs : ClaimedFor(e)' = {customer[j] : j \in LiveClaims(e)'}
  BY <1>2 DEF ClaimedFor
<1>4. ClaimsByHolders'
  BY <1>1, <1>2, <1>3 DEF BillingInv, ClaimsByHolders, ClaimedFor
<1>5. NoDoubleBilling'
  <2> SUFFICES ASSUME NEW e \in EWs, NEW j \in LiveClaims(e)', NEW k \in LiveClaims(e)',
                      customer'[j] = customer'[k] \/ ShareHolders(e)' = {}
               PROVE  j = k
    BY DEF NoDoubleBilling
  <2>1. /\ j \in LiveClaims(e) /\ k \in LiveClaims(e)
        /\ customer[j] = customer[k] \/ ShareHolders(e) = {}
    BY <1>1, <1>2
  <2>2. QED
    BY <2>1 DEF BillingInv, NoDoubleBilling
<1>6. FlagMeansSettled'
  <2> SUFFICES ASSUME NEW e \in EWs
               PROVE  e \in isInvoiced' <=> /\ LiveClaims(e)' # {}
                                            /\ ShareHolders(e)' \subseteq ClaimedFor(e)'
    BY DEF FlagMeansSettled
  <2>1. CASE e \notin gone
    <3>1. LiveClaims(e)' = LiveClaims(e) /\ ClaimedFor(e)' = ClaimedFor(e)
      BY <1>3, <2>1 DEF ClaimedFor
    <3>2. QED
      BY <1>1, <2>1, <3>1 DEF BillingInv, FlagMeansSettled
  <2>2. CASE e \in gone
    <3>1. i \in LiveClaims(e) /\ LiveClaims(e)' = LiveClaims(e) \ {i}
      BY <2>2 DEF LiveClaims
    <3>2. CASE ShareHolders(e) = {}
      <4>1. LiveClaims(e)' = {}
        BY <3>1, <3>2 DEF BillingInv, NoDoubleBilling
      <4>2. QED
        BY <2>2, <4>1
    <3>3. CASE ShareHolders(e) # {}
      <4>1. customer[i] \in ShareHolders(e)
        BY <3>1, <3>3 DEF BillingInv, ClaimsByHolders, ClaimedFor
      <4>2. customer[i] \notin ClaimedFor(e)'
        BY <1>3, <3>1 DEF BillingInv, NoDoubleBilling
      <4>3. QED
        BY <1>1, <2>2, <4>1, <4>2
    <3>4. QED
      BY <3>2, <3>3
  <2>3. QED
    BY <2>1, <2>2
<1>7. QED
  BY <1>4, <1>5, <1>6, IdlePlans DEF BillingInv
\* The drafts of a generation claim exactly what was planned, for a customer
\* who was not billed for it, and set the flags that then hold.
LEMMA GenerationKeepsBilling ==
    ASSUME TypeOK, NumberingInv, BillingInv, OneAtATime, NEW r \in Requests,
           NEW draft \in [req[r].plan -> Unused], CreateDrafts(r, draft)
    PROVE  BillingInv'
<1> DEFINE plan == req[r].plan
           c == req[r].cust
           made == {draft[g] : g \in plan}
           group(i) == CHOOSE g \in plan : draft[g] = i
<1>1. /\ made \subseteq Unused
      /\ \A g, h \in plan : draft[g] = draft[h] => g = h
      /\ lines' = [i \in Invoices |-> IF i \in made THEN group(i) ELSE lines[i]]
      /\ customer' = [i \in Invoices |-> IF i \in made THEN c ELSE customer[i]]
      /\ isInvoiced' = (isInvoiced \ UNION plan) \cup req[r].settled
      /\ UNCHANGED <<deleted, reverses, holders>>
      /\ req[r].pc = "claiming" /\ Finish(r)
  BY DEF CreateDrafts
<1>2. plan \in SUBSET SUBSET EWs
  BY <1>1, RequestShapes DEF Claiming
<1>3. /\ \A e \in UNION plan :
            /\ c \notin ClaimedFor(e)
            /\ IF ShareHolders(e) = {} THEN LiveClaims(e) = {} ELSE c \in ShareHolders(e)
      /\ \A g, h \in plan : g # h => g \cap h = {}
      /\ req[r].settled = {e \in UNION plan : Settles(c, e)}
  BY <1>1 DEF BillingInv, PlansCurrent, PlanCurrent
<1>4. \A g \in plan : draft[g] \in made /\ group(draft[g]) = g
  BY <1>1
<1>5. \A i \in made : /\ i \in Invoices /\ i \notin deleted /\ Reversals(i) = {}
                      /\ lines[i] = {}
  BY <1>1 DEF Unused, NumberingInv, UnusedBlank
<1>6. \A g \in plan : lines'[draft[g]] = g /\ customer'[draft[g]] = c
  BY <1>1, <1>4, <1>5
<1>7. \A i \in Invoices \ made : lines'[i] = lines[i] /\ customer'[i] = customer[i]
  BY <1>1
<1>8. \A i \in Invoices : Reversals(i)' = Reversals(i)
  BY <1>1 DEF Reversals
<1>9. \A i \in made : \E g \in plan : i = draft[g]
  OBVIOUS
<1> HIDE DEF made, group
<1>10. ASSUME NEW e \in EWs
       PROVE  LiveClaims(e)' = LiveClaims(e) \cup {draft[g] : g \in {h \in plan : e \in h}}
  <2>1. ASSUME NEW i \in Invoices, i \in made
        PROVE  /\ i \notin LiveClaims(e)
               /\ i \in LiveClaims(e)' <=> i \in {draft[g] : g \in {h \in plan : e \in h}}
    <3>1. PICK g \in plan : i = draft[g]
      BY <1>9, <2>1
    <3>2. lines'[i] = g /\ i \notin deleted' /\ Reversals(i)' = {}
      BY <1>1, <1>5, <1>6, <1>8, <2>1, <3>1
    <3>3. i \in LiveClaims(e)' <=> e \in g
      BY <3>2 DEF LiveClaims
    <3>4. i \in {draft[h] : h \in {k \in plan : e \in k}} <=> e \in g
      BY <1>1, <3>1
    <3>5. QED
      BY <1>5, <2>1, <3>3, <3>4 DEF LiveClaims
  <2>2. ASSUME NEW i \in Invoices, i \notin made
        PROVE  /\ i \in LiveClaims(e)' <=> i \in LiveClaims(e)
               /\ i \notin {draft[g] : g \in {h \in plan : e \in h}}
    BY <1>1, <1>4, <1>7, <1>8, <2>2 DEF LiveClaims
  <2>3. LiveClaims(e) \subseteq Invoices /\ LiveClaims(e)' \subseteq Invoices
    BY DEF LiveClaims
  <2>4. {draft[g] : g \in {h \in plan : e \in h}} \subseteq Invoices
    BY <1>4, <1>5
  <2>5. QED
    BY <2>1, <2>2, <2>3, <2>4
<1>11. \A e \in EWs : \A j \in LiveClaims(e) : j \in Invoices \ made
  BY <1>5 DEF LiveClaims
<1>12. \A e \in EWs : ShareHolders(e)' = ShareHolders(e)
  BY <1>1 DEF ShareHolders
<1>13. ASSUME NEW e \in EWs, e \notin UNION plan
       PROVE  LiveClaims(e)' = LiveClaims(e) /\ ClaimedFor(e)' = ClaimedFor(e)
  <2>1. LiveClaims(e)' = LiveClaims(e)
    BY <1>10, <1>13
  <2>2. QED
    BY <1>7, <1>11, <2>1 DEF ClaimedFor
<1>14. ASSUME NEW e \in EWs, e \in UNION plan
       PROVE  \E d \in made : /\ LiveClaims(e)' = LiveClaims(e) \cup {d}
                              /\ ClaimedFor(e)' = ClaimedFor(e) \cup {c}
                              /\ customer'[d] = c
  <2>1. PICK g \in plan : e \in g
    BY <1>14
  <2>2. {h \in plan : e \in h} = {g}
    BY <1>3, <2>1
  <2>3. LiveClaims(e)' = LiveClaims(e) \cup {draft[g]}
    BY <1>10, <2>2
  <2>4. customer'[draft[g]] = c /\ \A j \in LiveClaims(e) : customer'[j] = customer[j]
    BY <1>6, <1>7, <1>11, <2>1
  <2>5. ClaimedFor(e)' = ClaimedFor(e) \cup {c}
    BY <2>3, <2>4 DEF ClaimedFor
  <2>6. QED
    BY <1>4, <2>1, <2>3, <2>4, <2>5
<1>15. ClaimsByHolders'
  <2> SUFFICES ASSUME NEW e \in EWs, ShareHolders(e)' # {}
               PROVE  ClaimedFor(e)' \subseteq ShareHolders(e)'
    BY DEF ClaimsByHolders
  <2>1. ClaimedFor(e) \subseteq ShareHolders(e)
    BY <1>12 DEF BillingInv, ClaimsByHolders
  <2>2. QED
    BY <1>3, <1>12, <1>13, <1>14, <2>1
<1>16. NoDoubleBilling'
  <2> SUFFICES ASSUME NEW e \in EWs, NEW j \in LiveClaims(e)', NEW k \in LiveClaims(e)',
                      customer'[j] = customer'[k] \/ ShareHolders(e)' = {}
               PROVE  j = k
    BY DEF NoDoubleBilling
  <2>1. \A m \in LiveClaims(e) : customer'[m] = customer[m] /\ customer[m] \in ClaimedFor(e)
    BY <1>7, <1>11 DEF ClaimedFor
  <2>2. CASE j \in LiveClaims(e) /\ k \in LiveClaims(e)
    BY <1>12, <2>1, <2>2 DEF BillingInv, NoDoubleBilling
  <2>3. CASE ~(j \in LiveClaims(e) /\ k \in LiveClaims(e))
    <3>1. e \in UNION plan
      BY <1>13, <2>3
    <3>2. PICK d \in made : LiveClaims(e)' = LiveClaims(e) \cup {d} /\ customer'[d] = c
      BY <1>14, <3>1
    <3>3. c \notin ClaimedFor(e) /\ (ShareHolders(e) = {} => LiveClaims(e) = {})
      BY <1>3, <3>1
    <3>4. QED
      BY <1>12, <2>1, <2>3, <3>2, <3>3
  <2>4. QED
    BY <2>2, <2>3
<1>17. FlagMeansSettled'
  <2> SUFFICES ASSUME NEW e \in EWs
               PROVE  e \in isInvoiced' <=> /\ LiveClaims(e)' # {}
                                            /\ ShareHolders(e)' \subseteq ClaimedFor(e)'
    BY DEF FlagMeansSettled
  <2>1. CASE e \notin UNION plan
    <3>1. e \in isInvoiced' <=> e \in isInvoiced
      BY <1>1, <1>3, <2>1
    <3>2. QED
      BY <1>12, <1>13, <2>1, <3>1 DEF BillingInv, FlagMeansSettled
  <2>2. CASE e \in UNION plan
    <3>1. e \in isInvoiced' <=> ShareHolders(e) \subseteq ClaimedFor(e) \cup {c}
      BY <1>1, <1>3, <2>2 DEF Settles
    <3>2. QED
      BY <1>12, <1>14, <2>2, <3>1
  <2>3. QED
    BY <2>1, <2>2
<1>18. PlansCurrent'
  BY <1>1, FinishCurrent, IdlePlans
<1>19. QED
  BY <1>15, <1>16, <1>17, <1>18 DEF BillingInv
\* A plan drawn from the pool is unbilled, and its groups are disjoint.
LEMMA FreshPlan ==
    ASSUME BillingInv, NEW c \in Customers, NEW scope \in Windows,
           NEW own \in SUBSET EWs
    PROVE  LET plan == Grouped(Pool(c, scope), own)
           IN /\ UNION plan \subseteq EWs
              /\ PlanCurrent([pc |-> "planned", cust |-> c, plan |-> plan])
<1> DEFINE plan == Grouped(Pool(c, scope), own)
<1>1. UNION plan \subseteq Pool(c, scope)
  BY DEF Grouped
<1>2. Pool(c, scope) \subseteq EWs
  BY RowsAssumption DEF Pool
<1>3. \A g, h \in plan : g # h => g \cap h = {}
  BY DEF Grouped
<1>4. ASSUME NEW e \in Pool(c, scope)
      PROVE  /\ c \notin ClaimedFor(e)
             /\ IF ShareHolders(e) = {} THEN LiveClaims(e) = {} ELSE c \in ShareHolders(e)
  <2>1. c \notin ClaimedFor(e) /\ (ShareHolders(e) # {} => c \in ShareHolders(e))
    BY DEF Pool
  <2>2. ASSUME ShareHolders(e) = {} PROVE LiveClaims(e) = {}
    <3>1. e \in EWs /\ e \notin isInvoiced
      BY <1>2, <2>2 DEF Pool
    <3>2. QED
      BY <2>2, <3>1 DEF BillingInv, FlagMeansSettled
  <2>3. QED
    BY <2>1, <2>2
<1>5. PlanCurrent([pc |-> "planned", cust |-> c, plan |-> plan])
  <2> HIDE DEF plan
  <2>1. QED
    BY <1>1, <1>3, <1>4 DEF PlanCurrent
<1>6. QED
  BY <1>1, <1>2, <1>5

LEMMA NextBilling ==
    ASSUME OneAtATime, ~ShareEdits, TypeOK, NumberingInv, SerialInv, BillingInv, [Next]_vars
    PROVE  BillingInv'
<1> USE NoneAssumption
<1>1. ASSUME UNCHANGED <<invoiceVars, isInvoiced, holders, req>> PROVE BillingInv'
  <2>1. UNCHANGED <<lines, deleted, reverses, customer, isInvoiced, holders>>
    BY <1>1 DEF invoiceVars
  <2>2. ASSUME NEW r \in Requests PROVE PlanCurrent(req[r])'
    <3>1. PlanCurrent(req[r])
      BY DEF BillingInv, PlansCurrent
    <3>2. req[r].pc \in {"planned", "claiming"} => UNION req[r].plan \subseteq EWs
      BY RequestShapes DEF Planned, Claiming
    <3>3. req'[r] = req[r]
      BY <1>1
    <3> DEFINE q == req[r]
    <3>4. \A p : PlanCurrent(p) /\ (p.pc \in {"planned", "claiming"} => UNION p.plan \subseteq EWs)
                => PlanCurrent(p)'
      BY <2>1, PlanStays
    <3>5. QED
      BY <3>1, <3>2, <3>3, <3>4 DEF PlanCurrent
  <2>3. PlansCurrent'
    BY <2>2 DEF PlansCurrent
  <2>4. QED
    BY <2>1, <2>3, QuietBilling
\* A request that ends without touching a claim.
<1>2. ASSUME NEW r \in Requests, Finish(r),
             UNCHANGED <<lines, deleted, reverses, customer, isInvoiced, holders>>
      PROVE  BillingInv'
  BY <1>2, FinishCurrent, IdlePlans, QuietBilling
\* A request that reads and plans nothing.
<1>3. ASSUME NEW r \in Requests, NEW rec, rec.pc \notin {"planned", "claiming"},
             req' = [req EXCEPT ![r] = rec], UNCHANGED <<invoiceVars, poolVars>>
      PROVE  BillingInv'
  <2>1. PlansCurrent'
    BY <1>3, PlanOfRecord DEF PlanCurrent
  <2>2. QED
    BY <1>3, <2>1, QuietBilling DEF invoiceVars, poolVars
<1>4. ASSUME NEW r \in Requests, Abandon(r) PROVE BillingInv'
  BY <1>2, <1>4 DEF Abandon, Finish, invoiceVars, poolVars
<1>5. ASSUME NEW r \in Requests, NEW i \in Invoices, NEW l \in lines[i] \cup {None},
             Fetch(r, i, l)
      PROVE  BillingInv'
  <2> DEFINE rec == [pc |-> "fetched", inv |-> i, seen |-> status[i], fee |-> fee[i], line |-> l]
  <2>1. rec.pc \notin {"planned", "claiming"}
    OBVIOUS
  <2>2. req' = [req EXCEPT ![r] = rec] /\ UNCHANGED <<invoiceVars, poolVars>>
    BY <1>5 DEF Fetch
  <2> HIDE DEF rec
  <2>3. QED
    BY <1>3, <2>1, <2>2
<1>6. ASSUME NEW r \in Requests, AddLine(r) \/ LowerLine(r) \/ RemoveLine(r)
      PROVE  BillingInv'
  <2>1. PICK add, gone, back : StartLineEdit(r, add, gone, back)
    BY <1>6 DEF AddLine, LowerLine, RemoveLine
  <2> DEFINE i == req[r].inv
             left == (lines[i] \ {gone}) \cup ({back} \ {None})
             rec == [pc |-> "line", inv |-> i, add |-> add, line |-> gone, back |-> back,
                     total |-> Recomputed(left, hand[i] + add, req[r].fee)]
  <2>2. rec.pc \notin {"planned", "claiming"}
    OBVIOUS
  <2>3. req' = [req EXCEPT ![r] = rec]
    BY <2>1 DEF StartLineEdit
  <2>4. UNCHANGED <<invoiceVars, poolVars>>
    BY <1>6 DEF AddLine, LowerLine, RemoveLine
  <2> HIDE DEF rec
  <2>5. QED
    BY <1>3, <2>2, <2>3, <2>4
<1>7. ASSUME NEW r \in Requests,
             \/ Issue(r) \/ Send(r) \/ Unissue(r) \/ UpdateSummary(r)
             \/ \E f \in Fees : UpdateMeta(r, f)
      PROVE  BillingInv'
  BY <1>2, <1>7 DEF Issue, Send, Unissue, UpdateMeta, UpdateSummary, poolVars
<1>8. ASSUME NEW r \in Requests, DeleteDraft(r) PROVE BillingInv'
  <2> DEFINE i == req[r].inv
  <2>1. /\ i \in Invoices /\ i \notin deleted /\ status[i] = "DRAFT"
    BY <1>8, RequestShapes
    DEF DeleteDraft, Fetched, SeenDraft, SerialInv, ReadingsCurrent, FetchedCurrent
  <2>2. Reversals(i) = {}
    BY <2>1 DEF NumberingInv, ReversalsSound, Reversals
  <2>3. /\ deleted' = deleted \cup {i} /\ isInvoiced' = isInvoiced \ lines[i]
        /\ UNCHANGED <<lines, reverses, customer, holders>> /\ Finish(r)
    BY <1>8 DEF DeleteDraft, Released
  <2>4. \A e \in EWs : LiveClaims(e)' = IF e \in lines[i] THEN LiveClaims(e) \ {i}
                                                        ELSE LiveClaims(e)
    BY <2>1, <2>3 DEF LiveClaims, Reversals
  <2>5. QED
    BY <2>1, <2>2, <2>3, <2>4, FinishCurrent, ReleaseKeepsBilling
<1>9. ASSUME NEW r \in Requests, CommitLine(r) PROVE BillingInv'
  <2> DEFINE i == req[r].inv
             gone == lines[i] \cap {req[r].line}
  <2>1. /\ i \in Invoices /\ i \notin deleted /\ status[i] = "DRAFT"
        /\ req[r].line \in lines[i] \cup {None} /\ req[r].back = None
    BY <1>9, RequestShapes DEF CommitLine, Editing, SerialInv, ReadingsCurrent, EditCurrent
  <2>2. Reversals(i) = {}
    BY <2>1 DEF NumberingInv, ReversalsSound, Reversals
  <2>3. /\ lines' = [lines EXCEPT ![i] = @ \ {req[r].line}]
        /\ isInvoiced' = isInvoiced \ {req[r].line}
        /\ UNCHANGED <<deleted, reverses, customer, holders>> /\ Finish(r)
    BY <1>9, <2>1 DEF CommitLine
  <2>4. isInvoiced' = isInvoiced \ gone
    BY <2>1, <2>3 DEF TypeOK
  <2>5. lines'[i] = lines[i] \ gone /\ \A j \in Invoices : j # i => lines'[j] = lines[j]
    BY <2>1, <2>3 DEF TypeOK
  <2>6. \A e \in EWs : LiveClaims(e)' = IF e \in gone THEN LiveClaims(e) \ {i}
                                                    ELSE LiveClaims(e)
    BY <2>1, <2>3, <2>5 DEF LiveClaims, Reversals
  <2>7. gone \in SUBSET lines[i] /\ \A e \in EWs : \A j \in LiveClaims(e) : customer'[j] = customer[j]
    BY <2>3
  <2>8. \A q \in Requests : req'[q] = Idle
    BY <2>3, FinishCurrent
  <2> HIDE DEF i, gone
  <2>9. QED
    BY <2>1, <2>2, <2>3, <2>4, <2>6, <2>7, <2>8, ReleaseKeepsBilling
<1>10. ASSUME NEW r \in Requests, Reverse(r) PROVE BillingInv'
  <2>1. PICK i \in Invoices : /\ i = req[r].inv /\ i \notin deleted
                             /\ Reversals(i) \subseteq deleted
    BY <1>10, RequestShapes
    DEF Reverse, MayReverse, Fetched, SerialInv, ReadingsCurrent, FetchedCurrent
  <2>2. Reversals(i) = {}
    BY <2>1 DEF NumberingInv, ReversalsSound, Reversals
  <2>3. PICK x \in Unused : /\ customer' = [customer EXCEPT ![x] = customer[i]]
                            /\ reverses' = [reverses EXCEPT ![x] = i]
    BY <1>10, <2>1 DEF Reverse
  <2>4. isInvoiced' = isInvoiced \ lines[i] /\ UNCHANGED <<deleted, lines, holders>> /\ Finish(r)
    BY <1>10, <2>1 DEF Reverse, Released
  <2>5. x \in Invoices /\ lines[x] = {} /\ reverses[x] = None
    BY <2>3 DEF Unused, NumberingInv, UnusedBlank
  <2>6. /\ Reversals(i)' # {}
        /\ \A j \in Invoices : j # i => Reversals(j)' = Reversals(j)
    BY <2>1, <2>3, <2>5 DEF Reversals, TypeOK
  <2>7. \A e \in EWs : LiveClaims(e)' = IF e \in lines[i] THEN LiveClaims(e) \ {i}
                                                        ELSE LiveClaims(e)
    BY <2>1, <2>4, <2>6 DEF LiveClaims
  <2>8. \A e \in EWs : \A j \in LiveClaims(e) : customer'[j] = customer[j]
    BY <2>3, <2>5 DEF LiveClaims, TypeOK
  <2>9. QED
    BY <2>1, <2>2, <2>4, <2>7, <2>8, FinishCurrent, ReleaseKeepsBilling
<1>11. ASSUME NEW r \in Requests, NEW c \in Customers, NEW scope \in Windows,
              NEW own \in SUBSET EWs, Plan(r, c, scope, own)
       PROVE  BillingInv'
  <2> DEFINE plan == Grouped(Pool(c, scope), own)
             rec == [pc |-> "planned", cust |-> c, plan |-> plan]
  <2>1. UNION plan \subseteq EWs /\ PlanCurrent(rec)
    BY FreshPlan
  <2>2. req' = [req EXCEPT ![r] = rec] /\ UNCHANGED <<invoiceVars, poolVars>>
    BY <1>11 DEF Plan
  <2>3. rec.plan = plan
    OBVIOUS
  <2> HIDE DEF rec, plan
  <2>4. PlansCurrent'
    BY <2>1, <2>2, <2>3, PlanOfRecord
  <2>5. QED
    BY <2>2, <2>4, QuietBilling DEF invoiceVars, poolVars
<1>12. ASSUME NEW r \in Requests, ComputeFlags(r) PROVE BillingInv'
  <2> DEFINE c == req[r].cust
             plan == req[r].plan
             rec == [pc |-> "claiming", cust |-> c, plan |-> plan,
                     settled |-> {e \in UNION plan : Settles(c, e)}]
  <2>1. req[r].pc = "planned" /\ req' = [req EXCEPT ![r] = rec]
        /\ UNCHANGED <<invoiceVars, poolVars>>
    BY <1>12 DEF ComputeFlags
  <2>2. PlanCurrent(req[r]) /\ UNION plan \subseteq EWs
    BY <2>1, RequestShapes DEF BillingInv, PlansCurrent, Planned
  <2>3. rec.plan = plan /\ PlanCurrent(rec)
    BY <2>1, <2>2 DEF PlanCurrent
  <2> HIDE DEF rec, plan
  <2>4. PlansCurrent'
    BY <2>1, <2>2, <2>3, PlanOfRecord
  <2>5. QED
    BY <2>1, <2>4, QuietBilling DEF invoiceVars, poolVars
<1>13. ASSUME NEW r \in Requests, NEW draft \in [req[r].plan -> Unused],
              CreateDrafts(r, draft)
       PROVE  BillingInv'
  BY <1>13, GenerationKeepsBilling
<1>14. CASE Next
  BY <1>14, StepCases, <1>1, <1>4, <1>5, <1>6, <1>7, <1>8, <1>9, <1>10, <1>11, <1>12, <1>13
  DEF Earn, SetShares, NewYear, poolVars
<1>15. CASE UNCHANGED vars
  BY <1>1, <1>15 DEF vars, invoiceVars
<1>16. QED
  BY <1>14, <1>15

LEMMA BillingInvariant == ASSUME OneAtATime, ~ShareEdits PROVE Spec => []BillingInv
<1>1. TypeOK /\ NumberingInv /\ SerialInv /\ BillingInv /\ [Next]_vars => BillingInv'
  BY NextBilling
<1>2. QED
  BY <1>1, InitBilling, SerialInvariant, TypeCorrect, NumberingInvariant, PTL DEF Spec

\* When requests run one after the other and the cost shares stay as they are,
\* no customer is billed twice for an Extra Work and work on a building without
\* shares is billed once: planning, deletion, reversal and line removal keep
\* claims and flags in step.
THEOREM BilledAtMostOnce == ASSUME OneAtATime, ~ShareEdits PROVE Spec => []NoDoubleBilling
<1>1. BillingInv => NoDoubleBilling
  BY DEF BillingInv
<1>2. QED
  BY <1>1, BillingInvariant, PTL

\* Under the same conditions is_invoiced says exactly that an Extra Work is
\* settled: billed to its owner, or to every share-holder of its building.
THEOREM FlagsRight == ASSUME OneAtATime, ~ShareEdits PROVE Spec => []FlagMeansSettled
<1>1. BillingInv => FlagMeansSettled
  BY DEF BillingInv
<1>2. QED
  BY <1>1, BillingInvariant, PTL
=============================================================================

------------------------------ MODULE Invoicing ------------------------------
(***************************************************************************)
(* The invoices of one provider company: generation out of the pool of     *)
(* unbilled Extra Work, editing of drafts, issue, send, un-issue, reversal *)
(* and deletion, and the gapless numbering of what was sent.               *)
(*                                                                         *)
(* Every endpoint and the nightly run are requests.  A request reads the   *)
(* invoice (or plans from the pool) outside any transaction and acts on    *)
(* that reading in a later step; other requests run in between.  The       *)
(* services that take the row with select_for_update look at the current   *)
(* row again; the others trust what the request read.  Between a line      *)
(* edit's recomputed totals and its commit, and between the claim flags a  *)
(* generation computes and its commit, other requests run too, since a     *)
(* READ COMMITTED transaction sees only what others committed.             *)
(*                                                                         *)
(* Amounts are counted in units: an Extra Work line is worth one.          *)
(***************************************************************************)
EXTENDS Integers, FiniteSets

CONSTANTS Invoices,   \* invoice primary keys, used and unused
          EWs,        \* Extra Work rows
          Buildings,
          Customers,
          BuildingOf, \* the building an Extra Work is done in
          OwnerOf,    \* the customer an Extra Work belongs to
          Windows,    \* sets of Extra Works a billing period may pick out
          ShareSets,  \* who may hold the cost shares of a building
          ShareEdits, \* TRUE when the shares may be replaced while invoices exist
          Requests,   \* concurrent HTTP requests and scheduled jobs
          Years,
          MaxHand,    \* bound on the net amount of hand-added lines and price edits
          Fees,       \* amounts the optional fee may take
          None

ASSUME RowsAssumption ==
    /\ IsFiniteSet(EWs)
    /\ BuildingOf \in [EWs -> Buildings]
    /\ OwnerOf \in [EWs -> Customers]
    /\ Windows \subseteq SUBSET EWs
    /\ ShareEdits \in BOOLEAN
    /\ ShareSets \subseteq SUBSET Customers

ASSUME NoneAssumption == None \notin Invoices \cup Customers \cup EWs

ASSUME NumbersAssumption ==
    /\ Years \subseteq Nat \ {0}
    /\ Years # {}
    /\ MaxHand \in Nat
    /\ 0 \in Fees
    /\ Fees \subseteq Int

VARIABLES
    status,     \* "absent" until the row is created
    deleted,    \* invoices with deleted_at set
    customer,
    reverses,   \* the original a reversal counters, None for an ordinary invoice
    number,     \* the sequence number, 0 until one is assigned
    year,       \* the numbering year, 0 until a number is assigned
    lines,      \* the Extra Works an invoice has a line for
    hand,       \* net amount of hand-added lines and price edits
    fee,        \* optional_fee_amount
    total,      \* the stored total_amount
    seq,        \* InvoiceNumberSequence.last_number per year
    now,        \* the current calendar year
    isInvoiced, \* Extra Works with is_invoiced set
    earned,     \* Extra Works that are billable
    holders,    \* who holds a cost share of a building; {} when it is not shared
    req         \* what each request has read and is about to write

invoiceVars == <<status, deleted, customer, reverses, number, year, lines, hand, fee, total>>
numberVars  == <<number, year, seq>>
poolVars    == <<isInvoiced, earned, holders>>
vars == <<status, deleted, customer, reverses, number, year, lines, hand, fee,
          total, seq, now, isInvoiced, earned, holders, req>>

Idle == [pc |-> "idle"]
Fetched == [pc : {"fetched"}, inv : Invoices, seen : {"DRAFT", "ISSUED", "SENT"},
            fee : Int, line : EWs \cup {None}]
Editing == [pc : {"line"}, inv : Invoices, add : Int, line : EWs \cup {None},
            back : EWs \cup {None}, total : Int]
Planned == [pc : {"planned"}, cust : Customers, plan : SUBSET SUBSET EWs]
Claiming == [pc : {"claiming"}, cust : Customers, plan : SUBSET SUBSET EWs,
             settled : SUBSET EWs]

Init ==
    /\ status   = [i \in Invoices |-> "absent"]
    /\ deleted  = {}
    /\ customer = [i \in Invoices |-> None]
    /\ reverses = [i \in Invoices |-> None]
    /\ number   = [i \in Invoices |-> 0]
    /\ year     = [i \in Invoices |-> 0]
    /\ lines    = [i \in Invoices |-> {}]
    /\ hand     = [i \in Invoices |-> 0]
    /\ fee      = [i \in Invoices |-> 0]
    /\ total    = [i \in Invoices |-> 0]
    /\ seq      = [y \in Years |-> 0]
    /\ now \in {y \in Years : \A z \in Years : y <= z}
    /\ isInvoiced = {}
    /\ earned   = {}
    /\ holders \in [Buildings -> ShareSets]
    /\ req      = [r \in Requests |-> Idle]

Exists(i) == status[i] # "absent"
Unused    == {i \in Invoices : ~Exists(i)}
Reversals(i) == {r \in Invoices : reverses[r] = i}

-----------------------------------------------------------------------------
(* Claims: which customers a live invoice line bills an Extra Work to.     *)

LiveClaims(e) == {i \in Invoices : /\ e \in lines[i]
                                   /\ i \notin deleted
                                   /\ Reversals(i) = {}}

ClaimedFor(e) == {customer[i] : i \in LiveClaims(e)}

ShareHolders(e) == holders[BuildingOf[e]]

\* A planner that trusts the flag and never looks at the claim lines.
PoolByFlagOnly(c, scope) ==
    {e \in scope \cap earned :
        IF ShareHolders(e) = {} THEN OwnerOf[e] = c /\ e \notin isInvoiced
                                ELSE c \in ShareHolders(e)}

\* The unbilled rows a plan for customer c picks out of the scope of a run.
Pool(c, scope) ==
    {e \in scope \cap earned :
        /\ c \notin ClaimedFor(e)
        /\ IF ShareHolders(e) = {} THEN OwnerOf[e] = c /\ e \notin isInvoiced
                                   ELSE c \in ShareHolders(e)}

\* One draft for the rows addressed to the customer, one per building for the
\* others; each row has its own address.
Grouped(rows, own) ==
    ({rows \cap own} \ {{}})
        \cup {{e \in rows \ own : BuildingOf[e] = b} : b \in {BuildingOf[e] : e \in rows \ own}}

\* The flag set at the first part billed.
SettlesAtFirstPart(c, e) == TRUE

\* is_invoiced as a generation for customer c computes it: on a shared
\* building only when every share-holder has been billed.
Settles(c, e) == ShareHolders(e) \subseteq ClaimedFor(e) \cup {c}

-----------------------------------------------------------------------------
(* Numbering.                                                              *)

\* The counter is read but its increment is lost.
AllocateWithoutBump(i) ==
    /\ number' = [number EXCEPT ![i] = seq[now] + 1]
    /\ year' = [year EXCEPT ![i] = now]
    /\ UNCHANGED seq

\* The document gets the counter's value from before the increment.
AllocateBeforeBump(i) ==
    /\ seq' = [seq EXCEPT ![now] = @ + 1]
    /\ number' = [number EXCEPT ![i] = seq[now]]
    /\ year' = [year EXCEPT ![i] = now]

\* The document is stamped with a year other than its counter's.
AllocateWrongYear(i) ==
    /\ seq' = [seq EXCEPT ![now] = @ + 1]
    /\ number' = [number EXCEPT ![i] = seq[now] + 1]
    /\ year' = [year EXCEPT ![i] = now + 1]

\* allocate_invoice_number: the counter row of the year is locked and bumped.
AllocateFor(i) ==
    /\ seq' = [seq EXCEPT ![now] = @ + 1]
    /\ number' = [number EXCEPT ![i] = seq[now] + 1]
    /\ year' = [year EXCEPT ![i] = now]

-----------------------------------------------------------------------------
(* A request on one invoice: get_object() answers only live rows, and a    *)
(* line endpoint also reads its line.                                      *)

Fetch(r, i, l) ==
    /\ req[r] = Idle
    /\ Exists(i) /\ i \notin deleted
    /\ req' = [req EXCEPT ![r] = [pc |-> "fetched", inv |-> i, seen |-> status[i],
                                  fee |-> fee[i], line |-> l]]
    /\ UNCHANGED <<invoiceVars, seq, now, poolVars>>

\* The request is refused, rolls back, or its worker dies.
Abandon(r) ==
    /\ req[r] # Idle
    /\ req' = [req EXCEPT ![r] = Idle]
    /\ UNCHANGED <<invoiceVars, seq, now, poolVars>>

Finish(r) == req' = [req EXCEPT ![r] = Idle]

-----------------------------------------------------------------------------
(* The lifecycle services, each on the row it locked.                      *)

\* Mutated guards: an un-issue that forgets reversals and numbers, a reversal
\* that forgets earlier ones, a send that always numbers, a release that
\* releases nothing.
MayUnissueAnything(i)   == status[i] = "ISSUED"
MayReverseAgain(i)      == status[i] = "SENT" /\ reverses[i] = None
NumbersAgain(i)         == TRUE
ReleasesNothing(i)      == {}

MayIssue(i)   == status[i] = "DRAFT"
MaySend(i)    == status[i] = "ISSUED"
MayUnissue(i) == status[i] = "ISSUED" /\ reverses[i] = None /\ number[i] = 0
MayReverse(i) == /\ status[i] = "SENT"
                 /\ reverses[i] = None
                 /\ Reversals(i) \subseteq deleted
NeedsNumber(i) == number[i] = 0

\* The Extra Works a deletion or a reversal of i gives back to the pool.
Released(i) == lines[i]

Issue(r) ==
    /\ req[r].pc = "fetched"
    /\ LET i == req[r].inv
       IN /\ MayIssue(i)
          /\ status' = [status EXCEPT ![i] = "ISSUED"]
    /\ Finish(r)
    /\ UNCHANGED <<deleted, customer, reverses, lines, hand, fee, total,
                   numberVars, now, poolVars>>

Send(r) ==
    /\ req[r].pc = "fetched"
    /\ LET i == req[r].inv
       IN /\ MaySend(i)
          /\ IF NeedsNumber(i) THEN AllocateFor(i) ELSE UNCHANGED numberVars
          /\ status' = [status EXCEPT ![i] = "SENT"]
    /\ Finish(r)
    /\ UNCHANGED <<deleted, customer, reverses, lines, hand, fee, total, now, poolVars>>

Unissue(r) ==
    /\ req[r].pc = "fetched"
    /\ LET i == req[r].inv
       IN /\ MayUnissue(i)
          /\ status' = [status EXCEPT ![i] = "DRAFT"]
    /\ Finish(r)
    /\ UNCHANGED <<deleted, customer, reverses, lines, hand, fee, total,
                   numberVars, now, poolVars>>

\* A reversal is born ISSUED with a number; it mirrors the amounts negated
\* and claims no Extra Work, and the original's Extra Works are released.
Reverse(r) ==
    /\ req[r].pc = "fetched"
    /\ LET i == req[r].inv
       IN /\ MayReverse(i)
          /\ \E x \in Unused :
                /\ AllocateFor(x)
                /\ status'   = [status   EXCEPT ![x] = "ISSUED"]
                /\ customer' = [customer EXCEPT ![x] = customer[i]]
                /\ reverses' = [reverses EXCEPT ![x] = i]
                /\ hand'     = [hand     EXCEPT ![x] = -(Cardinality(lines[i]) + hand[i])]
                /\ fee'      = [fee      EXCEPT ![x] = -fee[i]]
                /\ total'    = [total    EXCEPT ![x] = -total[i]]
          /\ isInvoiced' = isInvoiced \ Released(i)
    /\ Finish(r)
    /\ UNCHANGED <<deleted, lines, now, earned, holders>>

\* Mutated status checks of the services that edit and delete drafts.
SeenUnsent(r)  == req[r].seen # "SENT"
SeenAnything(r) == TRUE

\* The status check of those services, on the instance the request read.
SeenDraft(r) == req[r].seen = "DRAFT"

\* delete_draft_invoice trusts the status the request read.
DeleteDraft(r) ==
    /\ req[r].pc = "fetched"
    /\ SeenDraft(r)
    /\ LET i == req[r].inv
       IN /\ deleted' = deleted \cup {i}
          /\ isInvoiced' = isInvoiced \ Released(i)
    /\ Finish(r)
    /\ UNCHANGED <<status, customer, reverses, numberVars, lines, hand, fee, total,
                   now, earned, holders>>

-----------------------------------------------------------------------------
(* Draft editing.  The services trust the status and the fee the request   *)
(* read; the totals are recomputed from the committed lines and the        *)
(* request's own change, and written with it.                              *)

\* A recompute that forgets the fee.
RecomputedWithoutFee(ls, h, f) == Cardinality(ls) + h

\* What recompute_invoice_totals stores: the lines, and the fee in memory.
Recomputed(ls, h, f) == Cardinality(ls) + h + f

\* gone: the line removed; back: the line inserted again.
StartLineEdit(r, add, gone, back) ==
    LET i == req[r].inv
        left == (lines[i] \ {gone}) \cup ({back} \ {None})
    IN req' = [req EXCEPT ![r] =
                [pc |-> "line", inv |-> i, add |-> add, line |-> gone, back |-> back,
                 total |-> Recomputed(left, hand[i] + add, req[r].fee)]]

AddLine(r) ==
    /\ req[r].pc = "fetched" /\ SeenDraft(r)
    /\ hand[req[r].inv] < MaxHand
    /\ StartLineEdit(r, 1, None, None)
    /\ UNCHANGED <<invoiceVars, seq, now, poolVars>>

\* An edit saves the line whole: one that another request has removed since
\* is inserted again.
LineBack(r) == IF req[r].line \in lines[req[r].inv] THEN None ELSE req[r].line

\* A price edit of any line, or the removal of a hand-added one.  An edit of
\* the text alone matters here for a line that is gone: of any other it only
\* stores the total, as UpdateSummary does.
LowerLine(r) ==
    /\ req[r].pc = "fetched" /\ SeenDraft(r)
    /\ \/ /\ hand[req[r].inv] > -MaxHand
          /\ StartLineEdit(r, -1, None, LineBack(r))
       \/ /\ LineBack(r) # None
          /\ StartLineEdit(r, 0, None, LineBack(r))
    /\ UNCHANGED <<invoiceVars, seq, now, poolVars>>

RemoveLine(r) ==
    /\ req[r].pc = "fetched" /\ SeenDraft(r)
    /\ req[r].line # None
    /\ StartLineEdit(r, 0, req[r].line, None)
    /\ UNCHANGED <<invoiceVars, seq, now, poolVars>>

\* A line that two edits insert again fails the second on its primary key.
CommitLine(r) ==
    /\ req[r].pc = "line"
    /\ LET i == req[r].inv
       IN /\ req[r].back \notin lines[i]
          /\ lines' = [lines EXCEPT ![i] = (@ \ {req[r].line}) \cup ({req[r].back} \ {None})]
          /\ hand'  = [hand  EXCEPT ![i] = @ + req[r].add]
          /\ total' = [total EXCEPT ![i] = req[r].total]
    /\ isInvoiced' = isInvoiced \ {req[r].line}
    /\ Finish(r)
    /\ UNCHANGED <<status, deleted, customer, reverses, numberVars, fee, now,
                   earned, holders>>

UpdateMeta(r, f) ==
    /\ req[r].pc = "fetched" /\ SeenDraft(r)
    /\ LET i == req[r].inv
       IN /\ fee'   = [fee   EXCEPT ![i] = f]
          /\ total' = [total EXCEPT ![i] = Recomputed(lines[i], hand[i], f)]
    /\ Finish(r)
    /\ UNCHANGED <<status, deleted, customer, reverses, numberVars, lines, hand, now,
                   poolVars>>

\* An edit of the summary or the fee's label leaves the fee alone, and
\* recomputes the total with the fee the request read.
UpdateSummary(r) ==
    /\ req[r].pc = "fetched" /\ SeenDraft(r)
    /\ LET i == req[r].inv
       IN total' = [total EXCEPT ![i] = Recomputed(lines[i], hand[i], req[r].fee)]
    /\ Finish(r)
    /\ UNCHANGED <<status, deleted, customer, reverses, numberVars, lines, hand, fee, now,
                   poolVars>>

-----------------------------------------------------------------------------
(* Generation: the Generate button and the nightly run.                    *)

Plan(r, c, scope, own) ==
    /\ req[r] = Idle
    /\ Pool(c, scope) # {}
    /\ req' = [req EXCEPT ![r] = [pc |-> "planned", cust |-> c,
                                  plan |-> Grouped(Pool(c, scope), own)]]
    /\ UNCHANGED <<invoiceVars, seq, now, poolVars>>

\* Inside the transaction: the flags, from committed lines and its own.
ComputeFlags(r) ==
    /\ req[r].pc = "planned"
    /\ LET c == req[r].cust
       IN req' = [req EXCEPT ![r] =
                    [pc |-> "claiming", cust |-> c, plan |-> req[r].plan,
                     settled |-> {e \in UNION req[r].plan : Settles(c, e)}]]
    /\ UNCHANGED <<invoiceVars, seq, now, poolVars>>

\* draft: the fresh invoice of each group.
CreateDrafts(r, draft) ==
    LET plan == req[r].plan
        made == {draft[g] : g \in plan}
        group(i) == CHOOSE g \in plan : draft[g] = i
    IN /\ req[r].pc = "claiming"
       /\ made \subseteq Unused
       /\ \A g, h \in plan : draft[g] = draft[h] => g = h
       /\ status'   = [i \in Invoices |-> IF i \in made THEN "DRAFT" ELSE status[i]]
       /\ customer' = [i \in Invoices |-> IF i \in made THEN req[r].cust ELSE customer[i]]
       /\ lines'    = [i \in Invoices |-> IF i \in made THEN group(i) ELSE lines[i]]
       /\ total'    = [i \in Invoices |-> IF i \in made THEN Cardinality(group(i))
                                                        ELSE total[i]]
       /\ isInvoiced' = (isInvoiced \ UNION plan) \cup req[r].settled
       /\ Finish(r)
       /\ UNCHANGED <<deleted, reverses, numberVars, hand, fee, now, earned, holders>>

-----------------------------------------------------------------------------
(* The rest of the system.                                                 *)

\* The ticket of an Extra Work closes or goes out for customer approval; it is
\* reopened or rejected again, or the Extra Work is cancelled.
Earn(e) ==
    /\ earned' \in {earned \cup {e}, earned \ {e}}
    /\ earned' # earned
    /\ UNCHANGED <<invoiceVars, seq, now, isInvoiced, holders, req>>

\* The cost shares of a building are replaced as a set.
SetShares(b, s) ==
    /\ ShareEdits
    /\ holders[b] # s
    /\ holders' = [holders EXCEPT ![b] = s]
    /\ UNCHANGED <<invoiceVars, seq, now, isInvoiced, earned, req>>

NewYear ==
    /\ \E y \in Years : y > now
    /\ now' \in {y \in Years : y > now /\ \A z \in Years : z > now => y <= z}
    /\ UNCHANGED <<invoiceVars, seq, poolVars, req>>

Lifecycle(r) == Issue(r) \/ Send(r) \/ Unissue(r) \/ Reverse(r) \/ DeleteDraft(r)
DraftEdit(r) == \/ AddLine(r) \/ LowerLine(r) \/ RemoveLine(r) \/ CommitLine(r)
                \/ UpdateSummary(r) \/ \E f \in Fees : UpdateMeta(r, f)
Reading(r)   == Abandon(r) \/ \E i \in Invoices : \E l \in lines[i] \cup {None} : Fetch(r, i, l)
Generation(r) ==
    \/ \E c \in Customers, scope \in Windows, own \in SUBSET EWs : Plan(r, c, scope, own)
    \/ ComputeFlags(r)
    \/ req[r].pc = "claiming" /\ \E draft \in [req[r].plan -> Unused] : CreateDrafts(r, draft)
Environment ==
    \/ \E e \in EWs : Earn(e)
    \/ \E b \in Buildings, s \in ShareSets : SetShares(b, s)
    \/ NewYear

Next == Environment \/ \E r \in Requests :
            Reading(r) \/ Lifecycle(r) \/ DraftEdit(r) \/ Generation(r)

Spec == Init /\ [][Next]_vars
-----------------------------------------------------------------------------
(* Type invariant.                                                         *)

\* Every row and every pending request has the shape its model class and
\* its handler give it; a row exists exactly when it names a customer.
TypeOK ==
    /\ status   \in [Invoices -> {"absent", "DRAFT", "ISSUED", "SENT"}]
    /\ deleted  \subseteq Invoices
    /\ customer \in [Invoices -> Customers \cup {None}]
    /\ \A i \in Invoices : Exists(i) <=> customer[i] # None
    /\ reverses \in [Invoices -> Invoices \cup {None}]
    /\ number   \in [Invoices -> Nat]
    /\ year     \in [Invoices -> Years \cup {0}]
    /\ lines    \in [Invoices -> SUBSET EWs]
    /\ hand     \in [Invoices -> Int]
    /\ fee      \in [Invoices -> Int]
    /\ total    \in [Invoices -> Int]
    /\ seq      \in [Years -> Nat]
    /\ now      \in Years
    /\ isInvoiced \subseteq EWs
    /\ earned   \subseteq EWs
    /\ holders  \in [Buildings -> ShareSets]
    /\ req      \in [Requests -> {Idle} \cup Fetched \cup Editing \cup Planned \cup Claiming]

-----------------------------------------------------------------------------
(* What holds however the requests interleave.                             *)

Numbered(y) == {i \in Invoices : number[i] # 0 /\ year[i] = y}

\* No two documents of a year share a number, and the numbers given out in a
\* year are exactly 1 up to its counter, whatever un-issues, retries and
\* reversals raced with the sends.
GaplessNumbers ==
    \A y \in Years :
        /\ \A i, j \in Numbered(y) : number[i] = number[j] => i = j
        /\ {number[i] : i \in Numbered(y)} = 1..seq[y]

\* A number is born on a committed document: an invoice carries one exactly
\* when it was sent or is a reversal, so nothing that can still return to
\* draft holds a number.
NumberedWhenCommitted ==
    \A i \in Invoices :
        number[i] # 0 <=> (status[i] = "SENT" \/ reverses[i] # None)

\* Two reversals racing for one original: at most one is made, of an invoice
\* that was sent and is no reversal itself.
OneReversal ==
    \A i \in Invoices :
        /\ \A r, s \in Reversals(i) : r = s
        /\ Reversals(i) # {} => status[i] = "SENT" /\ reverses[i] = None

\* Work never disappears: an Extra Work marked invoiced is on a line of a
\* live, unreversed invoice, so whatever is on none can be planned again.
NoHiddenWork == \A e \in isInvoiced : LiveClaims(e) # {}

\* The lifecycle goes DRAFT, ISSUED, SENT with the one way back from ISSUED
\* to DRAFT, which no numbered document takes; SENT is final.
LifecycleStep(i) ==
    \/ status'[i] = status[i]
    \/ status[i] = "absent" /\ status'[i] \in {"DRAFT", "ISSUED"}
    \/ status[i] = "DRAFT"  /\ status'[i] = "ISSUED"
    \/ status[i] = "ISSUED" /\ status'[i] = "SENT"
    \/ status[i] = "ISSUED" /\ status'[i] = "DRAFT" /\ number[i] = 0
LegalLifecycle == [][\A i \in Invoices : LifecycleStep(i)]_vars

-----------------------------------------------------------------------------
(* The inductive invariant behind what holds under every interleaving.     *)

\* An unused row is blank and nothing points at it.
UnusedBlank ==
    \A i \in Unused : /\ number[i] = 0 /\ reverses[i] = None /\ lines[i] = {}
                      /\ i \notin deleted /\ Reversals(i) = {}

NumbersInRange ==
    \A i \in Invoices : number[i] # 0 => year[i] \in Years /\ number[i] \in 1..seq[year[i]]

NumbersUnique ==
    \A i, j \in Invoices :
        number[i] # 0 /\ number[i] = number[j] /\ year[i] = year[j] => i = j

NumbersFilled ==
    \A y \in Years : \A n \in 1..seq[y] : \E i \in Numbered(y) : number[i] = n

ReversalsSound ==
    \A i \in Invoices : reverses[i] # None =>
        /\ status[i] \in {"ISSUED", "SENT"}
        /\ i \notin deleted
        /\ status[reverses[i]] = "SENT" /\ reverses[reverses[i]] = None
        /\ \A j \in Invoices : reverses[j] = reverses[i] => j = i

\* A request acts on a row that was created, and no reversal was ever read
\* as a draft; a pending generation flags only what it planned.
RequestsSound ==
    \A r \in Requests :
        /\ req[r].pc = "fetched" => /\ Exists(req[r].inv)
                                    /\ req[r].seen = "DRAFT" => reverses[req[r].inv] = None
        /\ req[r].pc = "line" => Exists(req[r].inv)
        /\ req[r].pc = "claiming" => req[r].settled \subseteq UNION req[r].plan

NumberingInv ==
    /\ UnusedBlank
    /\ NumberedWhenCommitted
    /\ NumbersInRange
    /\ NumbersUnique
    /\ NumbersFilled
    /\ ReversalsSound
    /\ RequestsSound

-----------------------------------------------------------------------------
(* What holds when requests run one after the other.                       *)

\* No customer is billed twice for an Extra Work, and work on a building
\* without shares is billed to one customer only.
NoDoubleBilling ==
    \A e \in EWs : \A i, j \in LiveClaims(e) :
        (customer[i] = customer[j] \/ ShareHolders(e) = {}) => i = j

\* is_invoiced means settled: the owner, or every share-holder, was billed.
FlagMeansSettled ==
    \A e \in EWs :
        e \in isInvoiced <=> /\ LiveClaims(e) # {}
                             /\ ShareHolders(e) \subseteq ClaimedFor(e)

\* The stored total of every document, reversals included, is the sum of its
\* lines and its fee.
TotalsMatchLines ==
    \A i \in Invoices : total[i] = Cardinality(lines[i]) + hand[i] + fee[i]

\* A reversal cancels its original to the cent for as long as both stand.
ReversalCancels ==
    \A r \in Invoices : reverses[r] # None => total[r] = -total[reverses[r]]

\* A numbered document is never deleted, so the sent set has no visible gap.
NumberedNeverDeleted == \A i \in deleted : number[i] = 0

\* A sent invoice is immutable: its lines, amounts and fee stay as frozen.
SentImmutable ==
    [][\A i \in Invoices : status[i] = "SENT" =>
            /\ lines'[i] = lines[i] /\ hand'[i] = hand[i]
            /\ fee'[i] = fee[i]     /\ total'[i] = total[i]]_vars

-----------------------------------------------------------------------------
(* The numbering ledger this implements.                                   *)

\* A place whose number was lost holds None, which no ledger accepts.
Holder(y, n) == LET placed == {i \in Invoices : number[i] = n /\ year[i] = y}
                IN IF placed = {} THEN None ELSE CHOOSE i \in placed : TRUE

Book == [y \in Years |-> [n \in 1..seq[y] |-> Holder(y, n)]]

Ledger == INSTANCE NumberLedger WITH Docs <- Invoices, book <- Book

\* Numbers form an append-only book per year, written in the current year
\* only: sending and reversing append, nothing else touches it.
LedgerSpec == Ledger!Spec
=============================================================================

------------------------------ MODULE ExtraWork ------------------------------
(***************************************************************************)
(* One Extra Work from request to completion: its own status, the          *)
(* proposals quoted for it, and the operational tickets spawned by the     *)
(* customer's yes, which from then on drive the Extra Work's status.       *)
(*                                                                         *)
(* Three state machines call each other.  A request reads a row and checks *)
(* every precondition on that reading; inside a transaction it then locks  *)
(* the proposal or ticket and compares its status, reads the parent Extra  *)
(* Work afresh, writes the parent, looks for existing tickets, and commits *)
(* everything together.  Other requests run between these steps, and see   *)
(* only what was committed.  A request may be refused or die at any point. *)
(*                                                                         *)
(* Who may call an endpoint, prices, plans and notes are left out: a       *)
(* refusal on their account is an Abandon.                                 *)
(***************************************************************************)

CONSTANTS Proposals, Tickets,  \* primary keys, used and unused
          Requests,
          Spawning,            \* proposals with a line approved for spawn
          Jumps,               \* TRUE when a SUPER_ADMIN moves tickets at will
          None

ASSUME RowsAssumption ==
    /\ Spawning \subseteq Proposals
    /\ Jumps \in BOOLEAN
    /\ None \notin Proposals \cup Tickets
    /\ Proposals \cap Tickets = {}

VARIABLES ew,       \* ExtraWorkRequest.status, "absent" before it is submitted
          intent,   \* ExtraWorkRequest.request_intent
          approved, \* its status history has an entry into CUSTOMER_APPROVED
          prop,     \* Proposal.status
          ticket,   \* Ticket.status of the tickets of this Extra Work
          req       \* what each request has read and is about to commit

vars == <<ew, intent, approved, prop, ticket, req>>
rows == <<ew, intent, approved, prop, ticket>>

Intents == {"REQUEST_QUOTE", "AUTO_START_AFTER_PRICING", "DIRECT_AGREED_PRICE_ORDER"}

ExtraWorkStatus == {"REQUESTED", "UNDER_REVIEW", "PRICING_PROPOSED", "CUSTOMER_APPROVED",
                    "CUSTOMER_REJECTED", "IN_PROGRESS", "COMPLETED", "CANCELLED"}

ProposalStatus == {"DRAFT", "SENT", "CUSTOMER_APPROVED", "CUSTOMER_REJECTED", "CANCELLED"}

TicketStatus == {"OPEN", "ACKNOWLEDGED", "IN_PROGRESS", "ON_HOLD", "WAITING_MANAGER_REVIEW",
                 "WAITING_CUSTOMER_APPROVAL", "REJECTED", "APPROVED", "CLOSED",
                 "REOPENED_BY_ADMIN"}

SystemAuto == {<<"CUSTOMER_APPROVED", "IN_PROGRESS">>, <<"IN_PROGRESS", "COMPLETED">>}

SystemOnly == {<<"REQUESTED", "CUSTOMER_APPROVED">>}

ExtraWorkMoves ==
    SystemAuto \cup SystemOnly \cup
    ({"REQUESTED", "PRICING_PROPOSED", "CUSTOMER_REJECTED"} \X {"UNDER_REVIEW"}) \cup
    ({"REQUESTED", "UNDER_REVIEW", "PRICING_PROPOSED", "CUSTOMER_APPROVED", "IN_PROGRESS"}
        \X {"CANCELLED"}) \cup
    {<<"UNDER_REVIEW", "PRICING_PROPOSED">>, <<"PRICING_PROPOSED", "CUSTOMER_APPROVED">>,
     <<"PRICING_PROPOSED", "CUSTOMER_REJECTED">>, <<"COMPLETED", "IN_PROGRESS">>}

ProposalMoves ==
    {<<"DRAFT", "SENT">>} \cup ({"DRAFT", "SENT"} \X {"CANCELLED"}) \cup
    ({"SENT"} \X {"CUSTOMER_APPROVED", "CUSTOMER_REJECTED"})

\* The bulk park takes two moves in one transaction.
Park == {<<"OPEN", "ON_HOLD">>}

TicketMoves ==
    Park \cup
    {<<"OPEN", "ACKNOWLEDGED">>} \cup
    ({"OPEN", "ACKNOWLEDGED", "ON_HOLD", "WAITING_MANAGER_REVIEW", "REJECTED",
      "REOPENED_BY_ADMIN"} \X {"IN_PROGRESS"}) \cup
    ({"ACKNOWLEDGED", "IN_PROGRESS"} \X {"ON_HOLD"}) \cup
    {<<"IN_PROGRESS", "WAITING_MANAGER_REVIEW">>} \cup
    ({"IN_PROGRESS", "WAITING_MANAGER_REVIEW"} \X {"WAITING_CUSTOMER_APPROVAL"}) \cup
    ({"WAITING_CUSTOMER_APPROVAL"} \X {"APPROVED", "REJECTED"}) \cup
    {<<"APPROVED", "CLOSED">>, <<"CLOSED", "REOPENED_BY_ADMIN">>}

Terminal == {"APPROVED", "CLOSED"}

Spawned    == {t \in Tickets : ticket[t] # "absent"}
OpenQuotes == {p \in Proposals : prop[p] \in {"DRAFT", "SENT"}}
AllDone(ts) == \A t \in ts : ticket[t] \in Terminal

-----------------------------------------------------------------------------
(* Requests.                                                               *)

Ops == {"extraWork", "proposal", "ticket", "create", "retry"}

Idle == [phase |-> "idle"]

\* row: the proposal or ticket; seen: the status read; to: the one asked for.
\* was, next: the parent's status as read and as it will be written, equal
\* when it is left alone.  spawn: whether a ticket will be inserted.
Pending == [phase : {"read", "locked", "written"}, op : Ops,
            row : Proposals \cup Tickets \cup {None},
            seen : ExtraWorkStatus \cup ProposalStatus \cup TicketStatus,
            to : ExtraWorkStatus \cup ProposalStatus \cup TicketStatus,
            was : ExtraWorkStatus, next : ExtraWorkStatus, spawn : BOOLEAN]

Init ==
    /\ ew = "absent"
    /\ intent = "REQUEST_QUOTE"
    /\ approved = FALSE
    /\ prop = [p \in Proposals |-> "absent"]
    /\ ticket = [t \in Tickets |-> "absent"]
    /\ req = [r \in Requests |-> Idle]

\* The row lock of a proposal or ticket, and of the Extra Work once written.
RowFree(r, x) ==
    \A s \in Requests \ {r} : req[s].phase \in {"locked", "written"} => req[s].row # x
ParentFree(r) ==
    \A s \in Requests \ {r} : req[s].phase = "written" => req[s].next = req[s].was

Read(r, op, row, seen, to, next) ==
    /\ req[r] = Idle
    /\ req' = [req EXCEPT ![r] = [phase |-> "read", op |-> op, row |-> row, seen |-> seen,
                                  to |-> to, was |-> ew, next |-> next, spawn |-> FALSE]]
    /\ UNCHANGED rows

\* The customer orders.  At agreed prices the order is approved and its
\* ticket spawned in the transaction that creates it.
Submit(i) ==
    /\ ew = "absent"
    /\ intent' = i
    /\ IF i = "DIRECT_AGREED_PRICE_ORDER"
       THEN /\ ew' = "CUSTOMER_APPROVED"
            /\ approved' = TRUE
            /\ \E t \in Tickets : ticket' = [ticket EXCEPT ![t] = "OPEN"]
       ELSE /\ ew' = "REQUESTED"
            /\ UNCHANGED <<approved, ticket>>
    /\ UNCHANGED <<prop, req>>

\* A status that follows the tickets, blind to the tickets there are.
NeverDerived(from, to) == FALSE

\* The operational statuses follow the tickets as soon as there is one.
IsDerived(from, to) == <<from, to>> \in SystemAuto /\ Spawned # {}

\* A human asks for a transition of the Extra Work.
ReadExtraWork(r, to) ==
    /\ <<ew, to>> \in ExtraWorkMoves \ SystemOnly
    /\ ~IsDerived(ew, to)
    /\ Read(r, "extraWork", None, ew, to, to)

\* reconcile_extra_work_status --repair: the status the tickets imply.
Derived ==
    IF AllDone(Spawned) THEN "COMPLETED"
    ELSE IF \A t \in Spawned : ticket[t] = "OPEN" THEN "CUSTOMER_APPROVED"
    ELSE "IN_PROGRESS"

ReadReconcile(r) ==
    /\ Spawned # {}
    /\ LET to == IF ew = "COMPLETED" THEN "IN_PROGRESS" ELSE Derived
       IN /\ ew # Derived
          /\ <<ew, to>> \in SystemAuto \cup {<<"COMPLETED", "IN_PROGRESS">>,
                                             <<"CUSTOMER_APPROVED", "COMPLETED">>}
          /\ Read(r, "extraWork", None, ew, to, to)

\* What a proposal's transition comes to: a send the customer has authorised
\* in advance goes on to approval in the same transaction.
Outcome(to) ==
    IF to = "SENT" /\ intent = "AUTO_START_AFTER_PRICING" THEN "CUSTOMER_APPROVED" ELSE to

\* A transition of a proposal.
ReadProposal(r, p, to) ==
    /\ <<prop[p], to>> \in ProposalMoves
    /\ to = "SENT" => ew = "UNDER_REVIEW"
    /\ Read(r, "proposal", p, prop[p], Outcome(to), ew)

\* Direct publish: sent and approved in one transaction, overriding the quote.
ReadPublish(r, p) ==
    /\ intent = "REQUEST_QUOTE"
    /\ prop[p] = "DRAFT"
    /\ ew = "UNDER_REVIEW"
    /\ Read(r, "proposal", p, "DRAFT", "CUSTOMER_APPROVED", ew)

\* A new proposal, which starts the review.
ReadCreate(r, p) ==
    /\ ew \in {"REQUESTED", "UNDER_REVIEW"}
    /\ OpenQuotes = {}
    /\ prop[p] = "absent"
    /\ Read(r, "create", p, ew, "DRAFT", "UNDER_REVIEW")

ReadTicket(r, t, to) ==
    /\ ticket[t] # "absent" /\ to # ticket[t]
    /\ Jumps \/ <<ticket[t], to>> \in TicketMoves
    /\ Read(r, "ticket", t, ticket[t], to, ew)

\* The retry of a spawn without the status check.
MayRetryAnything == Spawned = {}

\* The retry of a spawn that is missing.
MayRetry == ew = "CUSTOMER_APPROVED" /\ Spawned = {}

ReadRetry(r) == ew # "absent" /\ MayRetry /\ Read(r, "retry", None, ew, ew, ew)

\* The request is refused, rolls back, or its worker dies.
Abandon(r) ==
    /\ req[r] # Idle
    /\ req' = [req EXCEPT ![r] = Idle]
    /\ UNCHANGED rows

-----------------------------------------------------------------------------
(* The transaction.                                                        *)

\* Mutated: a lock taken without comparing the status, a decision that does
\* not ask where the parent stands.
StillAnything(r) == TRUE
AdvancedFromAnywhere(seen, to) == IF to = "CANCELLED" THEN {} ELSE ExtraWorkStatus

\* The locked row still has the status the request read.
StillAsRead(r) ==
    IF req[r].op = "ticket" THEN ticket[req[r].row] = req[r].seen
                            ELSE prop[req[r].row] = req[r].seen

\* The parent statuses a proposal's move advances from; a publish or an
\* auto-start takes the send's advance and the decision's.
AdvancedFrom(seen, to) ==
    IF to = "CANCELLED" THEN {}
    ELSE (IF seen = "DRAFT" THEN {"UNDER_REVIEW"} ELSE {})
         \cup (IF to = "SENT" THEN {} ELSE {"PRICING_PROPOSED"})

ParentAfterProposal(seen, to) ==
    IF ew \notin AdvancedFrom(seen, to) THEN ew
    ELSE IF to = "SENT" THEN "PRICING_PROPOSED" ELSE to

\* A sync that copies the ticket's status.
SyncCopies(t, to) == to

\* The sync of the parent after a ticket's transition.
ParentAfterTicket(t, to) ==
    IF to = "IN_PROGRESS" /\ ew = "CUSTOMER_APPROVED" THEN "IN_PROGRESS"
    ELSE IF to \in Terminal /\ ew = "IN_PROGRESS" /\ AllDone(Spawned \ {t}) THEN "COMPLETED"
    ELSE ew

\* The proposal or ticket row is locked and the parent read afresh; an insert
\* waits for the one other proposal that may be open.
LockRow(r) ==
    /\ req[r].phase = "read"
    /\ req[r].op \in {"proposal", "ticket", "create"}
    /\ RowFree(r, req[r].row)
    /\ LET q == req[r]
           next == CASE q.op = "proposal" -> ParentAfterProposal(q.seen, q.to)
                     [] q.op = "ticket"   -> ParentAfterTicket(q.row, q.to)
                     [] q.op = "create"   -> q.next
       IN /\ IF q.op = "create"
             THEN /\ OpenQuotes = {} /\ prop[q.row] = "absent"
                  /\ \A s \in Requests \ {r} :
                        req[s].phase \in {"locked", "written"} => req[s].op # "create"
             ELSE StillAsRead(r)
          /\ req' = [req EXCEPT ![r].phase = "locked",
                                ![r].was   = IF q.op = "create" THEN q.was ELSE ew,
                                ![r].next  = next]
    /\ UNCHANGED rows

\* Mutated spawns: a second ticket for the same Extra Work, and a spawn that
\* happens only when the parent moved along.
SpawnsAgain(q, next) ==
    \/ q.op = "retry"
    \/ q.op = "extraWork" /\ q.seen = "PRICING_PROPOSED" /\ q.to = "CUSTOMER_APPROVED"
    \/ q.op = "proposal" /\ q.to = "CUSTOMER_APPROVED" /\ q.row \in Spawning
SpawnsWhenAdvanced(q, next) ==
    /\ Spawned = {}
    /\ \/ q.op = "retry"
       \/ next = "CUSTOMER_APPROVED" /\ q.was # next

\* A retry, the approval of the Extra Work and the approval of a proposal
\* spawn the ticket if there is none.
Spawns(q, next) ==
    /\ Spawned = {}
    /\ \/ q.op = "retry"
       \/ q.op = "extraWork" /\ q.seen = "PRICING_PROPOSED" /\ q.to = "CUSTOMER_APPROVED"
       \/ q.op = "proposal" /\ q.to = "CUSTOMER_APPROVED" /\ q.row \in Spawning

\* The parent is written.  A transition of the Extra Work itself is refused
\* when its status changed, a ticket's sync and a new proposal then leave it
\* alone, and a proposal's move writes what it decided on its reading.
WriteParent(r) ==
    LET q == req[r]
        next == IF q.op \in {"ticket", "create"} /\ ew # q.was THEN q.was ELSE q.next
    IN /\ \/ q.phase = "locked"
          \/ q.phase = "read" /\ q.op \in {"extraWork", "retry"}
       /\ q.next # q.was => ParentFree(r)
       /\ q.op = "extraWork" => ew = q.was
       /\ req' = [req EXCEPT ![r].phase = "written", ![r].next = next,
                             ![r].spawn = Spawns(q, next)]
       /\ UNCHANGED rows

\* A customer's approval of finished work closes the ticket in passing.
TicketAfter(seen, to) ==
    IF seen = "WAITING_CUSTOMER_APPROVAL" /\ to = "APPROVED" THEN "CLOSED" ELSE to

Commit(r) ==
    LET q == req[r]
        moved == IF q.op = "ticket"
                 THEN [ticket EXCEPT ![q.row] = TicketAfter(q.seen, q.to)]
                 ELSE ticket
    IN /\ q.phase = "written"
       /\ ew' = IF q.next # q.was THEN q.next ELSE ew
       /\ approved' = (approved \/ (q.next # q.was /\ q.next = "CUSTOMER_APPROVED"))
       /\ prop' = IF q.op \in {"proposal", "create"} THEN [prop EXCEPT ![q.row] = q.to]
                                                     ELSE prop
       /\ IF q.spawn
          THEN \E t \in Tickets \ Spawned : ticket' = [moved EXCEPT ![t] = "OPEN"]
          ELSE ticket' = moved
       /\ req' = [req EXCEPT ![r] = Idle]
       /\ UNCHANGED intent

Reading(r) ==
    \/ \E to \in ExtraWorkStatus : ReadExtraWork(r, to)
    \/ ReadReconcile(r)
    \/ \E p \in Proposals :
          \/ \E to \in ProposalStatus : ReadProposal(r, p, to)
          \/ ReadPublish(r, p)
          \/ ReadCreate(r, p)
    \/ \E t \in Tickets, to \in TicketStatus : ReadTicket(r, t, to)
    \/ ReadRetry(r)

Next ==
    \/ \E i \in Intents : Submit(i)
    \/ \E r \in Requests : Reading(r) \/ Abandon(r) \/ LockRow(r) \/ WriteParent(r) \/ Commit(r)

Spec == Init /\ [][Next]_vars
-----------------------------------------------------------------------------
(* Type invariant.                                                         *)

\* Every status column holds a status of its model class, and every pending
\* transaction has the shape its handler gives it.
TypeOK ==
    /\ ew \in ExtraWorkStatus \cup {"absent"}
    /\ intent \in Intents
    /\ approved \in BOOLEAN
    /\ prop \in [Proposals -> ProposalStatus \cup {"absent"}]
    /\ ticket \in [Tickets -> TicketStatus \cup {"absent"}]
    /\ req \in [Requests -> {Idle} \cup Pending]

-----------------------------------------------------------------------------
(* What holds however the requests interleave.                             *)

\* A proposal is decided once: whatever decisions, withdrawals and publishes
\* race for it, each is approved, rejected or cancelled at most once and
\* keeps that answer, and nothing is approved that was not sent or published.
ProposalSteps == ProposalMoves \cup {<<"DRAFT", "CUSTOMER_APPROVED">>}
ProposalStep(p) ==
    \/ prop'[p] = prop[p]
    \/ prop[p] = "absent" /\ prop'[p] = "DRAFT"
    \/ <<prop[p], prop'[p]>> \in ProposalSteps
ProposalDecidedOnce == [][\A p \in Proposals : ProposalStep(p)]_vars

\* An approved proposal is acted on: once the approval of a proposal with
\* work to spawn is committed there is a ticket for the Extra Work, whatever
\* state the parent was in and whatever became of it.
ApprovedHasTicket ==
    \A p \in Spawning : prop[p] = "CUSTOMER_APPROVED" => Spawned # {}

\* No work starts without a yes: if there is a ticket, then the Extra Work
\* was approved at some time or a proposal of it is, however late the
\* request that spawned the ticket had looked.
Yes == approved \/ \E p \in Proposals : prop[p] = "CUSTOMER_APPROVED"
NoWorkWithoutYes == Spawned # {} => Yes

-----------------------------------------------------------------------------
(* The inductive invariant behind what holds under every interleaving.     *)

\* What a pending request may ask for, whatever happened since it read.
Sound(q) ==
    /\ q.op = "proposal"  => q.row \in Proposals /\ <<q.seen, q.to>> \in ProposalSteps
    /\ q.op = "create"    => q.row \in Proposals /\ q.to = "DRAFT"
    /\ q.op = "ticket"    => q.row \in Tickets /\ {q.seen, q.to} \subseteq TicketStatus
    /\ q.op = "extraWork" => q.was = q.seen /\ q.next = q.to
    /\ q.op = "retry"     => approved
    /\ q.spawn => \/ q.op = "retry"
                  \/ q.op = "extraWork" /\ q.seen = "PRICING_PROPOSED"
                                        /\ q.to = "CUSTOMER_APPROVED"
                  \/ q.op = "proposal" /\ q.to = "CUSTOMER_APPROVED"
RequestsSound == \A r \in Requests : req[r] # Idle => Sound(req[r])

\* A locked row stays as it was read, and has one holder.
Holding(q) == q.phase \in {"locked", "written"} /\ q.op \in {"proposal", "create", "ticket"}
AsRead(q) ==
    /\ q.op = "proposal" => prop[q.row] = q.seen
    /\ q.op = "create"   => prop[q.row] = "absent"
    /\ q.op = "ticket"   => ticket[q.row] = q.seen
HeldRows == \A r \in Requests : Holding(req[r]) => AsRead(req[r])
OneHolder ==
    \A r, s \in Requests :
        Holding(req[r]) /\ Holding(req[s]) /\ req[r].row = req[s].row => r = s

\* An approval about to commit brings its ticket or has seen one.
Promised(q) ==
    q.phase = "written" /\ q.op = "proposal" /\ q.to = "CUSTOMER_APPROVED"
        /\ q.row \in Spawning /\ ~q.spawn => Spawned # {}
PromisedTicket == \A r \in Requests : Promised(req[r])

\* Nothing happens before the Extra Work is submitted.
Unsubmitted ==
    ew = "absent" => /\ \A p \in Proposals : prop[p] = "absent"
                     /\ Spawned = {}
                     /\ \A r \in Requests : req[r] = Idle

ApprovalRecorded == ew = "CUSTOMER_APPROVED" => approved

ApprovalInv ==
    /\ TypeOK
    /\ Unsubmitted
    /\ RequestsSound
    /\ HeldRows
    /\ OneHolder
    /\ PromisedTicket
    /\ ApprovalRecorded
    /\ ApprovedHasTicket
    /\ NoWorkWithoutYes

-----------------------------------------------------------------------------
(* What holds when requests run one after the other.                       *)

\* A step of the Extra Work is one of its moves or two in one transaction.
LegalStep(from, to) ==
    \/ from = "absent" /\ to \in {"REQUESTED", "CUSTOMER_APPROVED"}
    \/ <<from, to>> \in ExtraWorkMoves
    \/ \E mid \in ExtraWorkStatus : {<<from, mid>>, <<mid, to>>} \subseteq ExtraWorkMoves
          /\ mid = IF to = "COMPLETED" THEN "IN_PROGRESS" ELSE "PRICING_PROPOSED"

\* The status of an Extra Work takes only the moves of its transition table,
\* those the proposal flow writes past the table included: what is cancelled
\* or rejected is not approved after all.
LegalExtraWork == [][ew' # ew => LegalStep(ew, ew')]_vars

\* COMPLETED is derived: an Extra Work with tickets becomes completed only
\* when every one of them is approved or closed, whoever asks.
DerivedCompletion ==
    [][ew # "COMPLETED" /\ ew' = "COMPLETED" => \A t \in Tickets :
          ticket[t] # "absent" => ticket'[t] \in Terminal]_vars

\* One request, one ticket, by whichever of the four routes it was spawned.
OneTicket == \A t, u \in Spawned : t = u
=============================================================================

--------------------------- MODULE ExtraWorkProofs ---------------------------
(***************************************************************************)
(* What the locks and the one-transaction spawn of ExtraWork guarantee for *)
(* any number of requests, proposals and tickets.                          *)
(***************************************************************************)
EXTENDS ExtraWork, TLAPS

\* Every reading starts a request that asks for something sound.
LEMMA ReadingStarts ==
    ASSUME TypeOK, Unsubmitted, ApprovalRecorded, NEW r \in Requests, Reading(r)
    PROVE  /\ req[r] = Idle
           /\ UNCHANGED rows
           /\ \E q \in Pending : /\ q.phase = "read" /\ q.was = ew /\ Sound(q)
                                 /\ req' = [req EXCEPT ![r] = q]
<1> DEFINE Starts == /\ req[r] = Idle
                     /\ UNCHANGED rows
                     /\ \E q \in Pending : /\ q.phase = "read" /\ q.was = ew /\ Sound(q)
                                           /\ req' = [req EXCEPT ![r] = q]
           Row(op, row, seen, to, next) ==
               [phase |-> "read", op |-> op, row |-> row, seen |-> seen, to |-> to,
                was |-> ew, next |-> next, spawn |-> FALSE]
<1>1. ASSUME NEW op, NEW row, NEW seen, NEW to, NEW next,
             Read(r, op, row, seen, to, next),
             Row(op, row, seen, to, next) \in Pending,
             Sound(Row(op, row, seen, to, next))
      PROVE  Starts
  BY <1>1 DEF Read
<1>2. /\ None \notin Proposals \cup Tickets
      /\ \A to \in ExtraWorkStatus : ~(<<"absent", to>> \in ExtraWorkMoves)
      /\ \A s, to : <<s, to>> \in ProposalSteps => s \in ProposalStatus /\ to \in ProposalStatus
      /\ \A s, to : <<s, to>> \in ExtraWorkMoves => s \in ExtraWorkStatus
  BY RowsAssumption
  DEF ExtraWorkMoves, ExtraWorkStatus, SystemAuto, SystemOnly, ProposalSteps, ProposalMoves,
      ProposalStatus
<1>3. ASSUME NEW to \in ExtraWorkStatus, ReadExtraWork(r, to) PROVE Starts
  <2>1. <<ew, to>> \in ExtraWorkMoves /\ Read(r, "extraWork", None, ew, to, to)
    BY <1>3 DEF ReadExtraWork
  <2>2. ew \in ExtraWorkStatus
    BY <1>2, <2>1
  <2>3. Row("extraWork", None, ew, to, to) \in Pending
    BY <2>2 DEF Pending, Ops
  <2>4. Sound(Row("extraWork", None, ew, to, to))
    BY DEF Sound
  <2>5. QED
    BY <1>1, <2>1, <2>3, <2>4
<1>4. ASSUME ReadReconcile(r) PROVE Starts
  <2>1. PICK to \in ExtraWorkStatus : /\ ew \in ExtraWorkStatus
                                      /\ Read(r, "extraWork", None, ew, to, to)
    BY <1>4 DEF ReadReconcile, Derived, ExtraWorkStatus, SystemAuto
  <2>2. Row("extraWork", None, ew, to, to) \in Pending
    BY <2>1 DEF Pending, Ops
  <2>3. Sound(Row("extraWork", None, ew, to, to))
    BY DEF Sound
  <2>4. QED
    BY <1>1, <2>1, <2>2, <2>3
<1>5. ASSUME NEW p \in Proposals, NEW to,
             <<prop[p], to>> \in ProposalSteps,
             Read(r, "proposal", p, prop[p], to, ew)
      PROVE  Starts
  <2>1. prop[p] \in ProposalStatus /\ to \in ProposalStatus
    BY <1>2, <1>5
  <2>2. ew \in ExtraWorkStatus
    BY <2>1 DEF TypeOK, Unsubmitted, ProposalStatus
  <2>3. Row("proposal", p, prop[p], to, ew) \in Pending
    BY <2>1, <2>2 DEF Pending, Ops
  <2>4. Sound(Row("proposal", p, prop[p], to, ew))
    BY <1>5 DEF Sound
  <2>5. QED
    BY <1>1, <1>5, <2>3, <2>4
<1>6. ASSUME NEW p \in Proposals, NEW to \in ProposalStatus, ReadProposal(r, p, to)
      PROVE  Starts
  <2>1. CASE to = "SENT" /\ intent = "AUTO_START_AFTER_PRICING"
    <3>1. prop[p] = "DRAFT"
      BY <1>6, <2>1 DEF ReadProposal, ProposalMoves
    <3>2. QED
      BY <1>5, <1>6, <2>1, <3>1 DEF ReadProposal, ProposalSteps, Outcome
  <2>2. CASE ~(to = "SENT" /\ intent = "AUTO_START_AFTER_PRICING")
    BY <1>5, <1>6, <2>2 DEF ReadProposal, ProposalSteps, Outcome
  <2>3. QED
    BY <2>1, <2>2
<1>7. ASSUME NEW p \in Proposals, ReadPublish(r, p) PROVE Starts
  <2>1. <<prop[p], "CUSTOMER_APPROVED">> \in ProposalSteps
    BY <1>7 DEF ReadPublish, ProposalSteps
  <2>2. Read(r, "proposal", p, prop[p], "CUSTOMER_APPROVED", ew)
    BY <1>7 DEF ReadPublish
  <2>3. QED
    BY <1>5, <2>1, <2>2
<1>8. ASSUME NEW p \in Proposals, ReadCreate(r, p) PROVE Starts
  <2>1. ew \in ExtraWorkStatus /\ Read(r, "create", p, ew, "DRAFT", "UNDER_REVIEW")
    BY <1>8 DEF ReadCreate, ExtraWorkStatus
  <2>2. Row("create", p, ew, "DRAFT", "UNDER_REVIEW") \in Pending
    BY <2>1 DEF Pending, Ops, ExtraWorkStatus, ProposalStatus
  <2>3. Sound(Row("create", p, ew, "DRAFT", "UNDER_REVIEW"))
    BY DEF Sound
  <2>4. QED
    BY <1>1, <2>1, <2>2, <2>3
<1>9. ASSUME NEW t \in Tickets, NEW to \in TicketStatus, ReadTicket(r, t, to) PROVE Starts
  <2>1. ticket[t] \in TicketStatus /\ Read(r, "ticket", t, ticket[t], to, ew)
    BY <1>9 DEF ReadTicket, TypeOK
  <2>2. ew \in ExtraWorkStatus
    BY <1>9 DEF ReadTicket, TypeOK, Unsubmitted, Spawned
  <2>3. Row("ticket", t, ticket[t], to, ew) \in Pending
    BY <2>1, <2>2 DEF Pending, Ops
  <2>4. Sound(Row("ticket", t, ticket[t], to, ew))
    BY <2>1 DEF Sound
  <2>5. QED
    BY <1>1, <2>1, <2>3, <2>4
<1>10. ASSUME ReadRetry(r) PROVE Starts
  <2>1. ew \in ExtraWorkStatus /\ approved /\ Read(r, "retry", None, ew, ew, ew)
    BY <1>10 DEF ReadRetry, MayRetry, ApprovalRecorded, ExtraWorkStatus
  <2>2. Row("retry", None, ew, ew, ew) \in Pending
    BY <2>1 DEF Pending, Ops
  <2>3. Sound(Row("retry", None, ew, ew, ew))
    BY <2>1 DEF Sound
  <2>4. QED
    BY <1>1, <2>1, <2>2, <2>3
<1>11. QED
  BY <1>3, <1>4, <1>6, <1>7, <1>8, <1>9, <1>10 DEF Reading

-----------------------------------------------------------------------------
\* The steps that leave the rows alone and change one request's record.

LEMMA PendingFields ==
    ASSUME NEW q \in Pending
    PROVE  /\ q # Idle /\ q.phase \in {"read", "locked", "written"} /\ q.op \in Ops
           /\ q.row \in Proposals \cup Tickets \cup {None}
           /\ q.was \in ExtraWorkStatus /\ q.next \in ExtraWorkStatus
           /\ q.spawn \in BOOLEAN
<1>1. q.phase # Idle.phase
  BY DEF Pending, Idle
<1>2. QED
  BY <1>1 DEF Pending

\* What suffices of the new record q.
LEMMA RecordStep ==
    ASSUME ApprovalInv, NEW r \in Requests, NEW q \in {Idle} \cup Pending,
           UNCHANGED rows, req' = [req EXCEPT ![r] = q],
           q # Idle => Sound(q) /\ ew # "absent",
           Holding(q) => /\ AsRead(q)
                         /\ \A s \in Requests \ {r} : Holding(req[s]) => req[s].row # q.row,
           Promised(q)
    PROVE  ApprovalInv'
<1>1. req'[r] = q /\ \A s \in Requests \ {r} : req'[s] = req[s]
  BY DEF ApprovalInv, TypeOK
<1>2. /\ ew' = ew /\ intent' = intent /\ approved' = approved /\ prop' = prop
      /\ ticket' = ticket /\ Spawned' = Spawned
  BY DEF rows, Spawned
<1>3. TypeOK'
  BY <1>2 DEF ApprovalInv, TypeOK
<1>4. Unsubmitted'
  BY <1>1, <1>2 DEF ApprovalInv, Unsubmitted
<1>5. RequestsSound'
  BY <1>1, <1>2 DEF ApprovalInv, RequestsSound, Sound
<1>6. HeldRows'
  BY <1>1, <1>2 DEF ApprovalInv, HeldRows, AsRead
<1>7. OneHolder'
  BY <1>1, <1>2 DEF ApprovalInv, OneHolder
<1>8. PromisedTicket'
  BY <1>1, <1>2 DEF ApprovalInv, PromisedTicket, Promised
<1>9. ApprovalRecorded' /\ ApprovedHasTicket' /\ NoWorkWithoutYes'
  BY <1>2 DEF ApprovalInv, ApprovalRecorded, ApprovedHasTicket, NoWorkWithoutYes, Yes
<1>10. QED
  BY <1>3, <1>4, <1>5, <1>6, <1>7, <1>8, <1>9 DEF ApprovalInv

LEMMA ReadingKeeps ==
    ASSUME ApprovalInv, NEW r \in Requests, Reading(r)
    PROVE  ApprovalInv'
<1>1. UNCHANGED rows
  BY ReadingStarts DEF ApprovalInv
<1>2. PICK q \in Pending : /\ q.phase = "read" /\ q.was = ew /\ Sound(q)
                           /\ req' = [req EXCEPT ![r] = q]
  BY ReadingStarts DEF ApprovalInv
<1>3. ew # "absent"
  BY <1>2, PendingFields DEF ExtraWorkStatus
<1>4. ~Holding(q) /\ Promised(q)
  BY <1>2 DEF Holding, Promised
<1>5. QED
  BY <1>1, <1>2, <1>3, <1>4, RecordStep

LEMMA AbandonKeeps ==
    ASSUME ApprovalInv, NEW r \in Requests, Abandon(r)
    PROVE  ApprovalInv'
<1>1. ~Holding(Idle) /\ Promised(Idle)
  BY DEF Holding, Promised, Idle
<1>2. QED
  BY <1>1, RecordStep DEF Abandon

LEMMA LockKeeps ==
    ASSUME ApprovalInv, NEW r \in Requests, LockRow(r)
    PROVE  ApprovalInv'
<1> DEFINE q == req'[r]
<1>1. /\ req[r] \in Pending /\ req[r].phase = "read"
      /\ req[r].op \in {"proposal", "ticket", "create"}
      /\ Sound(req[r]) /\ RowFree(r, req[r].row)
  BY DEF LockRow, ApprovalInv, TypeOK, RequestsSound, Idle
<1>2. ew # "absent" /\ ew \in ExtraWorkStatus
  BY <1>1, PendingFields DEF ApprovalInv, Unsubmitted, TypeOK
<1>3. PICK was \in ExtraWorkStatus, next \in ExtraWorkStatus :
          req' = [req EXCEPT ![r] = [req[r] EXCEPT !.phase = "locked", !.was = was,
                                                   !.next = next]]
  <2>1. \A seen, to : <<seen, to>> \in ProposalSteps
          => ParentAfterProposal(seen, to) \in ExtraWorkStatus
    BY <1>2 DEF ParentAfterProposal, AdvancedFrom, ProposalSteps, ProposalMoves,
                ExtraWorkStatus
  <2>2. \A t, to : ParentAfterTicket(t, to) \in ExtraWorkStatus
    BY <1>2 DEF ParentAfterTicket, ExtraWorkStatus
  <2>3. CASE req[r].op = "proposal"
    BY <1>1, <1>2, <2>1, <2>3 DEF LockRow, Sound
  <2>4. CASE req[r].op = "ticket"
    BY ZenonT(60), <1>1, <1>2, <2>2, <2>4 DEF LockRow, Sound
  <2>5. CASE req[r].op = "create"
    <3>1. req[r].was \in ExtraWorkStatus /\ req[r].next \in ExtraWorkStatus
      BY <1>1 DEF Pending
    <3>2. req' = [req EXCEPT ![r] = [req[r] EXCEPT !.phase = "locked", !.was = req[r].was,
                                                   !.next = req[r].next]]
      BY <1>1, <2>5 DEF LockRow
    <3>3. QED
      BY <3>1, <3>2
  <2>6. QED
    BY <1>1, <2>3, <2>4, <2>5
<1>4. /\ q \in Pending /\ q.phase = "locked" /\ q.op = req[r].op /\ q.row = req[r].row
      /\ q.seen = req[r].seen /\ q.to = req[r].to /\ q.spawn = req[r].spawn
      /\ req' = [req EXCEPT ![r] = q]
  BY <1>1, <1>3 DEF ApprovalInv, TypeOK, Pending
<1>5. Sound(q)
  BY <1>1, <1>4 DEF Sound
<1>6. AsRead(q)
  BY <1>1, <1>4 DEF LockRow, StillAsRead, AsRead
<1>7. \A s \in Requests \ {r} : Holding(req[s]) => req[s].row # q.row
  BY <1>1, <1>4 DEF RowFree, Holding
<1>8. Promised(q)
  BY <1>4 DEF Promised
<1>9. UNCHANGED rows
  BY DEF LockRow
<1>10. QED
  BY <1>2, <1>4, <1>5, <1>6, <1>7, <1>8, <1>9, RecordStep

LEMMA WriteKeeps ==
    ASSUME ApprovalInv, NEW r \in Requests, WriteParent(r)
    PROVE  ApprovalInv'
<1> DEFINE q == req[r]
           n == req'[r]
<1>1. q \in Pending /\ Sound(q)
  BY DEF WriteParent, ApprovalInv, TypeOK, RequestsSound, Idle
<1>2. \/ q.phase = "locked"
      \/ q.phase = "read" /\ q.op \in {"extraWork", "retry"}
  BY DEF WriteParent
<1>3. ew # "absent"
  BY <1>1, PendingFields DEF ApprovalInv, Unsubmitted
<1>4. PICK next \in {q.was, q.next} :
          /\ req' = [req EXCEPT ![r].phase = "written", ![r].next = next,
                                ![r].spawn = Spawns(q, next)]
          /\ q.op = "extraWork" => next = q.next
  BY DEF WriteParent
<1>5. Spawns(q, next) \in BOOLEAN
  BY DEF Spawns
<1>6. q.was \in ExtraWorkStatus /\ next \in ExtraWorkStatus
  BY <1>1, PendingFields
<1>7. n = [q EXCEPT !.phase = "written", !.next = next, !.spawn = Spawns(q, next)]
  BY <1>4 DEF ApprovalInv, TypeOK
<1>8. /\ n \in Pending /\ n.phase = "written" /\ n.op = q.op /\ n.row = q.row
      /\ n.seen = q.seen /\ n.to = q.to /\ n.was = q.was /\ n.next = next
      /\ n.spawn = Spawns(q, next)
  BY <1>1, <1>5, <1>6, <1>7 DEF Pending
<1>9. req' = [req EXCEPT ![r] = n]
  BY <1>4, <1>7 DEF ApprovalInv, TypeOK
<1>10. Sound(n)
  BY <1>1, <1>4, <1>8 DEF Sound, Spawns
<1>11. Holding(n) => Holding(q)
  BY <1>2, <1>8 DEF Holding
<1>12. Holding(n) => AsRead(n)
  BY <1>8, <1>11 DEF ApprovalInv, HeldRows, AsRead
<1>13. Holding(n) => \A s \in Requests \ {r} : Holding(req[s]) => req[s].row # n.row
  BY <1>8, <1>11 DEF ApprovalInv, OneHolder
<1>14. Promised(n)
  BY <1>8 DEF Promised, Spawns
<1>15. UNCHANGED rows
  BY DEF WriteParent
<1>16. QED
  BY <1>3, <1>8, <1>9, <1>10, <1>12, <1>13, <1>14, <1>15, RecordStep

-----------------------------------------------------------------------------
\* The two steps that change rows.

LEMMA SubmitKeeps ==
    ASSUME ApprovalInv, NEW i \in Intents, Submit(i)
    PROVE  ApprovalInv'
<1>1. /\ ew = "absent" /\ ew' \in {"REQUESTED", "CUSTOMER_APPROVED"}
      /\ intent' = i /\ prop' = prop /\ req' = req
  BY DEF Submit
<1>2. /\ \A p \in Proposals : prop[p] = "absent"
      /\ \A r \in Requests : req[r] = Idle
      /\ Spawned = {}
  BY <1>1 DEF ApprovalInv, Unsubmitted
<1>3. \/ ew' = "CUSTOMER_APPROVED" /\ approved' = TRUE
         /\ ticket' \in [Tickets -> TicketStatus \cup {"absent"}]
      \/ ew' = "REQUESTED" /\ approved' = approved /\ ticket' = ticket
  BY DEF Submit, ApprovalInv, TypeOK, TicketStatus
<1>4. TypeOK'
  BY <1>1, <1>3 DEF ApprovalInv, TypeOK, ExtraWorkStatus
<1>5. Unsubmitted'
  BY <1>1 DEF Unsubmitted
<1>6. RequestsSound' /\ HeldRows' /\ OneHolder' /\ PromisedTicket'
  BY <1>1, <1>2 DEF RequestsSound, HeldRows, OneHolder, PromisedTicket, Promised, Holding, Idle
<1>7. ApprovalRecorded'
  BY <1>3 DEF ApprovalRecorded
<1>8. ApprovedHasTicket'
  BY <1>1, <1>2, RowsAssumption DEF ApprovedHasTicket
<1>9. NoWorkWithoutYes'
  BY <1>2, <1>3 DEF NoWorkWithoutYes, Yes, Spawned
<1>10. QED
  BY <1>4, <1>5, <1>6, <1>7, <1>8, <1>9 DEF ApprovalInv

\* What a commit does to each row, given that its locks kept them as read.
LEMMA CommitRows ==
    ASSUME ApprovalInv, NEW r \in Requests, Commit(r)
    PROVE  LET q == req[r]
           IN  /\ q \in Pending /\ q.phase = "written" /\ Sound(q)
               /\ ew # "absent" /\ ew' \in ExtraWorkStatus
               /\ \/ q.op \notin {"proposal", "create"} /\ prop' = prop
                  \/ /\ q.op \in {"proposal", "create"} /\ q.row \in Proposals
                     /\ q.to \in ProposalStatus
                     /\ prop' = [prop EXCEPT ![q.row] = q.to]
                     /\ \/ q.op = "create" /\ prop[q.row] = "absent" /\ q.to = "DRAFT"
                        \/ q.op = "proposal" /\ <<prop[q.row], q.to>> \in ProposalSteps
               /\ ticket' \in [Tickets -> TicketStatus \cup {"absent"}]
               /\ \A t \in Spawned : /\ t \in Spawned'
                                     /\ (q.op = "ticket" /\ q.row = t) \/ ticket'[t] = ticket[t]
               /\ IF q.spawn THEN Spawned' # {} ELSE Spawned' = Spawned
<1> DEFINE q == req[r]
           moved == IF q.op = "ticket"
                    THEN [ticket EXCEPT ![q.row] = TicketAfter(q.seen, q.to)] ELSE ticket
<1>1. q \in Pending /\ q.phase = "written" /\ Sound(q)
  BY DEF Commit, ApprovalInv, TypeOK, RequestsSound, Idle
<1>2. ew # "absent" /\ ew' \in ExtraWorkStatus
  <2>1. ew # "absent"
    BY <1>1, PendingFields DEF ApprovalInv, Unsubmitted
  <2>2. q.next \in ExtraWorkStatus /\ ew \in ExtraWorkStatus
    BY <1>1, <2>1, PendingFields DEF ApprovalInv, TypeOK
  <2>3. QED
    BY <2>1, <2>2 DEF Commit
<1>3. Holding(q) => AsRead(q)
  BY DEF ApprovalInv, HeldRows
<1>4. \/ q.op \notin {"proposal", "create"} /\ prop' = prop
      \/ /\ q.op \in {"proposal", "create"} /\ q.row \in Proposals
         /\ q.to \in ProposalStatus
         /\ prop' = [prop EXCEPT ![q.row] = q.to]
         /\ \/ q.op = "create" /\ prop[q.row] = "absent" /\ q.to = "DRAFT"
            \/ q.op = "proposal" /\ <<prop[q.row], q.to>> \in ProposalSteps
  <2>1. CASE q.op \notin {"proposal", "create"}
    BY <2>1 DEF Commit
  <2>2. CASE q.op \in {"proposal", "create"}
    <3>1. AsRead(q) /\ prop' = [prop EXCEPT ![q.row] = q.to]
      BY <1>1, <1>3, <2>2 DEF Commit, Holding
    <3>2. QED
      BY <1>1, <2>2, <3>1
      DEF Sound, AsRead, ProposalSteps, ProposalMoves, ProposalStatus
  <2>3. QED
    BY <2>1, <2>2
<1>5. /\ moved \in [Tickets -> TicketStatus \cup {"absent"}]
      /\ \A t \in Tickets : moved[t] = "absent" <=> ticket[t] = "absent"
      /\ \A t \in Tickets : (q.op = "ticket" /\ q.row = t) \/ moved[t] = ticket[t]
  <2>1. CASE q.op # "ticket"
    BY <2>1 DEF ApprovalInv, TypeOK
  <2>2. CASE q.op = "ticket"
    <3>1. q.row \in Tickets /\ ticket[q.row] \in TicketStatus
      BY <1>1, <1>3, <2>2 DEF Holding, AsRead, Sound
    <3>2. TicketAfter(q.seen, q.to) \in TicketStatus
      BY <1>1, <2>2 DEF Sound, TicketAfter, TicketStatus
    <3>3. QED
      BY <2>2, <3>1, <3>2 DEF ApprovalInv, TypeOK, TicketStatus
  <2>3. QED
    BY <2>1, <2>2
<1>6. /\ ticket' \in [Tickets -> TicketStatus \cup {"absent"}]
      /\ \A t \in Spawned : /\ t \in Spawned'
                            /\ (q.op = "ticket" /\ q.row = t) \/ ticket'[t] = ticket[t]
      /\ IF q.spawn THEN Spawned' # {} ELSE Spawned' = Spawned
  <2>1. CASE q.spawn
    <3>1. PICK t \in Tickets \ Spawned : ticket' = [moved EXCEPT ![t] = "OPEN"]
      BY <2>1 DEF Commit
    <3>2. t \in Spawned'
      BY <1>5, <3>1 DEF Spawned
    <3>3. QED
      BY <1>5, <2>1, <3>1, <3>2 DEF Spawned, TicketStatus
  <2>2. CASE ~q.spawn
    <3>1. ticket' = moved
      BY <2>2 DEF Commit
    <3>2. QED
      BY <1>5, <2>2, <3>1 DEF Spawned
  <2>3. QED
    BY <2>1, <2>2
<1>7. QED
  BY <1>1, <1>2, <1>4, <1>6

LEMMA CommitKeeps ==
    ASSUME ApprovalInv, NEW r \in Requests, Commit(r)
    PROVE  ApprovalInv'
<1> DEFINE q == req[r]
<1>1. /\ q \in Pending /\ q.phase = "written" /\ Sound(q)
      /\ ew # "absent" /\ ew' \in ExtraWorkStatus
      /\ \/ q.op \notin {"proposal", "create"} /\ prop' = prop
         \/ /\ q.op \in {"proposal", "create"} /\ q.row \in Proposals
            /\ q.to \in ProposalStatus
            /\ prop' = [prop EXCEPT ![q.row] = q.to]
            /\ \/ q.op = "create" /\ prop[q.row] = "absent" /\ q.to = "DRAFT"
               \/ q.op = "proposal" /\ <<prop[q.row], q.to>> \in ProposalSteps
      /\ ticket' \in [Tickets -> TicketStatus \cup {"absent"}]
      /\ \A t \in Spawned : /\ t \in Spawned'
                            /\ (q.op = "ticket" /\ q.row = t) \/ ticket'[t] = ticket[t]
      /\ IF q.spawn THEN Spawned' # {} ELSE Spawned' = Spawned
  BY CommitRows
<1>2. /\ req'[r] = Idle /\ \A s \in Requests \ {r} : req'[s] = req[s]
      /\ req' \in [Requests -> {Idle} \cup Pending]
      /\ intent' = intent
      /\ ew' = IF q.next # q.was THEN q.next ELSE ew
      /\ approved' = (approved \/ (q.next # q.was /\ q.next = "CUSTOMER_APPROVED"))
  BY DEF Commit, ApprovalInv, TypeOK
<1>3. approved => approved'
  BY <1>2
<1>4. ~Holding(Idle) /\ Promised(Idle)
  BY DEF Holding, Promised, Idle
<1>5. \A p \in Proposals : prop'[p] = prop[p] \/ (Holding(q) /\ q.op # "ticket" /\ q.row = p)
  BY <1>1 DEF ApprovalInv, TypeOK, Holding
<1>6. \A p \in Proposals : prop[p] = "CUSTOMER_APPROVED" => prop'[p] = "CUSTOMER_APPROVED"
  BY <1>1 DEF ApprovalInv, TypeOK, ProposalSteps, ProposalMoves
<1>7. \A p \in Proposals :
          prop'[p] = "CUSTOMER_APPROVED" =>
              \/ prop[p] = "CUSTOMER_APPROVED"
              \/ q.op = "proposal" /\ q.row = p /\ q.to = "CUSTOMER_APPROVED"
  BY <1>1 DEF ApprovalInv, TypeOK
<1>8. TypeOK'
  <2>1. prop' \in [Proposals -> ProposalStatus \cup {"absent"}]
    BY <1>1 DEF ApprovalInv, TypeOK
  <2>2. approved' \in BOOLEAN
    BY <1>2
  <2>3. QED
    BY <1>1, <1>2, <2>1, <2>2 DEF ApprovalInv, TypeOK
<1>9. Unsubmitted'
  BY <1>1 DEF Unsubmitted, ExtraWorkStatus
<1>10. RequestsSound'
  BY <1>2, <1>3 DEF ApprovalInv, RequestsSound, Sound
<1>11. HeldRows'
  <2> SUFFICES ASSUME NEW s \in Requests \ {r}, Holding(req[s]) PROVE AsRead(req[s])'
    BY <1>2, <1>4 DEF HeldRows
  <2>1. /\ req'[s] = req[s] /\ AsRead(req[s]) /\ req[s] # Idle /\ Sound(req[s])
        /\ Holding(q) => req[s].row # q.row
    BY <1>2, <1>4 DEF ApprovalInv, HeldRows, RequestsSound, OneHolder
  <2>2. CASE req[s].op \in {"proposal", "create"}
    BY <1>5, <2>1, <2>2 DEF Sound, AsRead
  <2>3. CASE req[s].op = "ticket"
    <3>1. req[s].row \in Spawned
      BY <2>1, <2>3 DEF Sound, AsRead, Spawned, TicketStatus
    <3>2. q.op = "ticket" => req[s].row # q.row
      BY <1>1, <2>1 DEF Holding
    <3>3. ticket'[req[s].row] = ticket[req[s].row]
      BY <1>1, <3>1, <3>2
    <3>4. QED
      BY <2>1, <2>3, <3>3 DEF AsRead
  <2>4. QED
    BY <2>1, <2>2, <2>3 DEF AsRead, Holding
<1>12. OneHolder'
  BY <1>2, <1>4 DEF ApprovalInv, OneHolder
<1>13. PromisedTicket'
  BY <1>1, <1>2, <1>4 DEF ApprovalInv, PromisedTicket, Promised
<1>14. ApprovalRecorded'
  BY <1>2 DEF ApprovalInv, ApprovalRecorded
<1>15. ApprovedHasTicket'
  <2> SUFFICES ASSUME NEW p \in Spawning, prop'[p] = "CUSTOMER_APPROVED" PROVE Spawned' # {}
    BY DEF ApprovedHasTicket
  <2>1. CASE prop[p] = "CUSTOMER_APPROVED"
    BY <1>1, <2>1 DEF ApprovalInv, ApprovedHasTicket
  <2>2. CASE q.op = "proposal" /\ q.row = p /\ q.to = "CUSTOMER_APPROVED"
    BY <1>1, <2>2 DEF ApprovalInv, PromisedTicket, Promised
  <2>3. QED
    BY <1>7, <2>1, <2>2, RowsAssumption
<1>16. NoWorkWithoutYes'
  <2>1. Yes => Yes'
    BY <1>3, <1>6 DEF Yes
  <2>2. CASE ~q.spawn
    BY <1>1, <2>1, <2>2 DEF ApprovalInv, NoWorkWithoutYes
  <2>3. CASE q.spawn
    <3> SUFFICES Yes'
      BY DEF NoWorkWithoutYes
    <3>1. CASE q.op = "retry"
      BY <1>1, <1>3, <3>1 DEF Sound, Yes
    <3>2. CASE /\ q.op = "extraWork" /\ q.seen = "PRICING_PROPOSED"
               /\ q.to = "CUSTOMER_APPROVED"
      BY <1>1, <1>2, <3>2 DEF Sound, Yes
    <3>3. CASE q.op = "proposal" /\ q.to = "CUSTOMER_APPROVED"
      <4>1. q.row \in Proposals /\ prop'[q.row] = "CUSTOMER_APPROVED"
        BY <1>1, <3>3 DEF ApprovalInv, TypeOK
      <4>2. QED
        BY <4>1 DEF Yes
    <3>4. QED
      BY <1>1, <2>3, <3>1, <3>2, <3>3 DEF Sound
  <2>4. QED
    BY <2>2, <2>3
<1>17. QED
  BY <1>8, <1>9, <1>10, <1>11, <1>12, <1>13, <1>14, <1>15, <1>16 DEF ApprovalInv

-----------------------------------------------------------------------------
\* The theorems.

\* Whatever requests interleave, die or are refused: a locked proposal or
\* ticket stays as its one holder read it, and every pending transaction asks
\* for something that was legal when its row was read.
THEOREM ApprovalInvariant == Spec => []ApprovalInv
<1>1. Init => ApprovalInv
  <2> SUFFICES ASSUME Init PROVE ApprovalInv
    OBVIOUS
  <2>1. TypeOK /\ Unsubmitted
    BY DEF Init, TypeOK, Unsubmitted, Spawned, Intents
  <2>2. RequestsSound /\ HeldRows /\ OneHolder /\ PromisedTicket
    BY DEF Init, RequestsSound, HeldRows, OneHolder, PromisedTicket, Promised, Holding, Idle
  <2>3. ApprovalRecorded /\ ApprovedHasTicket /\ NoWorkWithoutYes
    BY RowsAssumption
    DEF Init, ApprovalRecorded, ApprovedHasTicket, NoWorkWithoutYes, Spawned
  <2>4. QED
    BY <2>1, <2>2, <2>3 DEF ApprovalInv
<1>2. ApprovalInv /\ [Next]_vars => ApprovalInv'
  <2> SUFFICES ASSUME ApprovalInv, [Next]_vars PROVE ApprovalInv'
    OBVIOUS
  <2>1. ASSUME NEW i \in Intents, Submit(i) PROVE ApprovalInv'
    BY <2>1, SubmitKeeps
  <2>2. ASSUME NEW r \in Requests, Reading(r) PROVE ApprovalInv'
    BY <2>2, ReadingKeeps
  <2>3. ASSUME NEW r \in Requests, Abandon(r) PROVE ApprovalInv'
    BY <2>3, AbandonKeeps
  <2>4. ASSUME NEW r \in Requests, LockRow(r) PROVE ApprovalInv'
    BY <2>4, LockKeeps
  <2>5. ASSUME NEW r \in Requests, WriteParent(r) PROVE ApprovalInv'
    BY <2>5, WriteKeeps
  <2>6. ASSUME NEW r \in Requests, Commit(r) PROVE ApprovalInv'
    BY <2>6, CommitKeeps
  <2>7. CASE UNCHANGED vars
    BY <2>7
    DEF vars, ApprovalInv, TypeOK, Unsubmitted, RequestsSound, Sound, HeldRows, Holding, AsRead,
        OneHolder, PromisedTicket, Promised, ApprovalRecorded, ApprovedHasTicket,
        NoWorkWithoutYes, Yes, Spawned
  <2>8. QED
    BY <2>1, <2>2, <2>3, <2>4, <2>5, <2>6, <2>7 DEF Next
<1>3. QED
  BY <1>1, <1>2, PTL DEF Spec

\* The status columns hold only statuses of their model classes, and every
\* pending transaction has the shape its handler gives it.
THEOREM TypeCorrect == Spec => []TypeOK
BY ApprovalInvariant, PTL DEF ApprovalInv

\* The approval of a proposal with work to spawn and the ticket it promises
\* commit together, however far the parent had moved on meanwhile.
THEOREM ApprovalGetsTicket == Spec => []ApprovedHasTicket
BY ApprovalInvariant, PTL DEF ApprovalInv

\* None of the four routes to a ticket starts work on an Extra Work nobody
\* agreed to, the retry that looks at an unlocked row included.
THEOREM YesBeforeWork == Spec => []NoWorkWithoutYes
BY ApprovalInvariant, PTL DEF ApprovalInv

\* The comparison under the row lock is enough for a proposal to be decided
\* once and to keep its answer.
THEOREM DecidedOnce == Spec => ProposalDecidedOnce
<1>1. ApprovalInv /\ [Next]_vars => [\A p \in Proposals : ProposalStep(p)]_vars
  <2> SUFFICES ASSUME ApprovalInv, Next, NEW p \in Proposals PROVE ProposalStep(p)
    OBVIOUS
  <2>1. ASSUME NEW i \in Intents, Submit(i) PROVE ProposalStep(p)
    BY <2>1 DEF Submit, ProposalStep
  <2>2. ASSUME NEW r \in Requests, Reading(r) PROVE ProposalStep(p)
    BY <2>2, ReadingStarts DEF ApprovalInv, rows, ProposalStep
  <2>3. ASSUME NEW r \in Requests, Abandon(r) \/ LockRow(r) \/ WriteParent(r)
        PROVE  ProposalStep(p)
    BY <2>3 DEF Abandon, LockRow, WriteParent, rows, ProposalStep
  <2>4. ASSUME NEW r \in Requests, Commit(r) PROVE ProposalStep(p)
    BY <2>4, CommitRows DEF ApprovalInv, TypeOK, ProposalStep
  <2>5. QED
    BY <2>1, <2>2, <2>3, <2>4 DEF Next
<1>2. QED
  BY <1>1, ApprovalInvariant, PTL DEF Spec, ProposalDecidedOnce

-----------------------------------------------------------------------------
(* One request at a time.  What a request read of the parent and of the    *)
(* tickets is then still so when it commits.                               *)

\* At most one request is under way.
OneAtATime == \A r, s \in Requests : r = s

\* Whose request may complete the Extra Work, and when.
Completes(q) ==
    \/ q.op = "extraWork" /\ AllDone(Spawned)
    \/ q.op = "ticket" /\ q.to \in Terminal /\ AllDone(Spawned \ {q.row})

Current(q) ==
    q # Idle => /\ q.was = ew
                /\ q.next # q.was => LegalStep(q.was, q.next)
                /\ q.next # q.was /\ q.next = "COMPLETED" => Completes(q)
                /\ q.op = "ticket" => q.row \in Spawned
                /\ q.spawn => Spawned = {}

SerialInv == OneTicket /\ \A r \in Requests : Current(req[r])

\* The moves of the table that two-step transactions are made of.
LEMMA MoveTable ==
    /\ \A from, to : <<from, to>> \in ExtraWorkMoves => LegalStep(from, to)
    /\ <<"CUSTOMER_APPROVED", "IN_PROGRESS">> \in ExtraWorkMoves
    /\ <<"IN_PROGRESS", "COMPLETED">> \in ExtraWorkMoves
    /\ <<"COMPLETED", "IN_PROGRESS">> \in ExtraWorkMoves
    /\ <<"REQUESTED", "UNDER_REVIEW">> \in ExtraWorkMoves
    /\ <<"UNDER_REVIEW", "PRICING_PROPOSED">> \in ExtraWorkMoves
    /\ <<"PRICING_PROPOSED", "CUSTOMER_APPROVED">> \in ExtraWorkMoves
    /\ <<"PRICING_PROPOSED", "CUSTOMER_REJECTED">> \in ExtraWorkMoves
    /\ \A from : <<from, "COMPLETED">> \in ExtraWorkMoves => from = "IN_PROGRESS"
  BY DEF ExtraWorkMoves, SystemAuto, SystemOnly, LegalStep

\* The two-step moves: an approval straight from review, and the repair that
\* completes what was only approved.
LEMMA DoubleMoves ==
    /\ LegalStep("UNDER_REVIEW", "CUSTOMER_APPROVED")
    /\ LegalStep("CUSTOMER_APPROVED", "COMPLETED")
  BY MoveTable DEF LegalStep, ExtraWorkStatus

\* The only request's new record decides whether the invariant holds.
LEMMA RecordCurrent ==
    ASSUME OneAtATime, TypeOK, SerialInv, NEW r \in Requests, NEW q,
           req' = [req EXCEPT ![r] = q], UNCHANGED rows, Current(q)
    PROVE  SerialInv'
<1>1. \A s \in Requests : req'[s] = q
  BY DEF OneAtATime, TypeOK
<1>2. ew' = ew /\ ticket' = ticket /\ Spawned' = Spawned
  BY DEF rows, Spawned
<1>3. OneTicket'
  BY <1>2 DEF SerialInv, OneTicket
<1>4. \A s \in Requests : Current(req[s])'
  BY <1>1, <1>2 DEF Current, Completes, AllDone
<1>5. QED
  BY <1>3, <1>4 DEF SerialInv

LEMMA ReadCurrent ==
    ASSUME OneAtATime, TypeOK, SerialInv, NEW r \in Requests,
           NEW op, NEW row, NEW seen, NEW to, NEW next, Read(r, op, row, seen, to, next),
           next # ew => LegalStep(ew, next),
           next # ew /\ next = "COMPLETED" => op = "extraWork" /\ AllDone(Spawned),
           op = "ticket" => row \in Spawned
    PROVE  SerialInv'
<1> DEFINE q == [phase |-> "read", op |-> op, row |-> row, seen |-> seen, to |-> to,
                 was |-> ew, next |-> next, spawn |-> FALSE]
<1>1. Current(q)
  BY DEF Current, Completes
<1>2. req' = [req EXCEPT ![r] = q] /\ UNCHANGED rows
  BY DEF Read
<1> HIDE DEF q
<1>3. QED
  BY <1>1, <1>2, RecordCurrent

LEMMA ReadingSerial ==
    ASSUME OneAtATime, TypeOK, SerialInv, NEW r \in Requests, Reading(r)
    PROVE  SerialInv'
<1>1. ASSUME NEW to \in ExtraWorkStatus, ReadExtraWork(r, to) PROVE SerialInv'
  <2>1. <<ew, to>> \in ExtraWorkMoves /\ Read(r, "extraWork", None, ew, to, to)
    BY <1>1 DEF ReadExtraWork
  <2>2. LegalStep(ew, to)
    BY <2>1, MoveTable
  <2>3. ASSUME to = "COMPLETED" PROVE AllDone(Spawned)
    <3>1. ew = "IN_PROGRESS"
      BY <2>1, <2>3, MoveTable
    <3>2. Spawned = {}
      BY <1>1, <2>3, <3>1 DEF ReadExtraWork, IsDerived, SystemAuto
    <3>3. QED
      BY <3>2 DEF AllDone
  <2>4. QED
    BY <2>1, <2>2, <2>3, ReadCurrent
<1>2. ASSUME ReadReconcile(r) PROVE SerialInv'
  <2>1. PICK to : /\ to = IF ew = "COMPLETED" THEN "IN_PROGRESS" ELSE Derived
                  /\ <<ew, to>> \in SystemAuto \cup {<<"COMPLETED", "IN_PROGRESS">>,
                                                     <<"CUSTOMER_APPROVED", "COMPLETED">>}
                  /\ Read(r, "extraWork", None, ew, to, to)
    BY <1>2 DEF ReadReconcile
  <2>2. LegalStep(ew, to)
    BY <2>1, MoveTable, DoubleMoves DEF SystemAuto
  <2>3. to = "COMPLETED" => AllDone(Spawned)
    BY <2>1 DEF Derived
  <2>4. QED
    BY <2>1, <2>2, <2>3, ReadCurrent
<1>3. ASSUME NEW p \in Proposals,
             (\E to \in ProposalStatus : ReadProposal(r, p, to)) \/ ReadPublish(r, p)
      PROVE  SerialInv'
  <2>1. PICK seen, to : Read(r, "proposal", p, seen, to, ew)
    BY <1>3 DEF ReadProposal, ReadPublish
  <2>2. QED
    BY <2>1, ReadCurrent
<1>4. ASSUME NEW p \in Proposals, ReadCreate(r, p) PROVE SerialInv'
  <2>1. /\ ew \in {"REQUESTED", "UNDER_REVIEW"}
        /\ Read(r, "create", p, ew, "DRAFT", "UNDER_REVIEW")
    BY <1>4 DEF ReadCreate
  <2>2. "UNDER_REVIEW" # ew => LegalStep(ew, "UNDER_REVIEW")
    BY <2>1, MoveTable
  <2>3. QED
    BY <2>1, <2>2, ReadCurrent
<1>5. ASSUME NEW t \in Tickets, NEW to \in TicketStatus, ReadTicket(r, t, to) PROVE SerialInv'
  <2>1. t \in Spawned /\ Read(r, "ticket", t, ticket[t], to, ew)
    BY <1>5 DEF ReadTicket, Spawned
  <2>2. QED
    BY <2>1, ReadCurrent
<1>6. ASSUME ReadRetry(r) PROVE SerialInv'
  <2>1. Read(r, "retry", None, ew, ew, ew)
    BY <1>6 DEF ReadRetry
  <2>2. QED
    BY <2>1, ReadCurrent
<1>7. QED
  BY <1>1, <1>2, <1>3, <1>4, <1>5, <1>6 DEF Reading

\* The status a proposal's move writes to the parent is a legal step for it,
\* and never a completion.
LEMMA ParentStepLegal ==
    ASSUME NEW seen, NEW to, <<seen, to>> \in ProposalSteps, ParentAfterProposal(seen, to) # ew
    PROVE  /\ LegalStep(ew, ParentAfterProposal(seen, to))
           /\ ParentAfterProposal(seen, to) # "COMPLETED"
<1>1. ew \in AdvancedFrom(seen, to)
  BY DEF ParentAfterProposal
<1>2. ParentAfterProposal(seen, to) = IF to = "SENT" THEN "PRICING_PROPOSED" ELSE to
  BY <1>1 DEF ParentAfterProposal
<1>3. \/ to = "SENT" /\ ew = "UNDER_REVIEW"
      \/ to = "CUSTOMER_APPROVED" /\ ew \in {"UNDER_REVIEW", "PRICING_PROPOSED"}
      \/ to = "CUSTOMER_REJECTED" /\ ew = "PRICING_PROPOSED"
  BY <1>1 DEF AdvancedFrom, ProposalSteps, ProposalMoves
<1>4. QED
  BY <1>2, <1>3, MoveTable, DoubleMoves

LEMMA LockSerial ==
    ASSUME OneAtATime, ApprovalInv, SerialInv, NEW r \in Requests, LockRow(r)
    PROVE  SerialInv'
<1>1. /\ req[r] \in Pending /\ req[r] # Idle /\ Sound(req[r]) /\ Current(req[r])
      /\ req[r].phase = "read" /\ req[r].op \in {"proposal", "ticket", "create"}
      /\ UNCHANGED rows
  BY DEF LockRow, ApprovalInv, TypeOK, RequestsSound, Idle, SerialInv
<1> DEFINE next == CASE req[r].op = "proposal" -> ParentAfterProposal(req[r].seen, req[r].to)
                     [] req[r].op = "ticket"   -> ParentAfterTicket(req[r].row, req[r].to)
                     [] req[r].op = "create"   -> req[r].next
           q == [req[r] EXCEPT !.phase = "locked", !.was = ew, !.next = next]
<1>2. req[r].was = ew
  BY <1>1 DEF Current
<1>3. req' = [req EXCEPT ![r] = q]
  BY <1>2 DEF LockRow
<1>4. /\ q.op = req[r].op /\ q.row = req[r].row /\ q.to = req[r].to
      /\ q.spawn = req[r].spawn /\ q.was = ew /\ q.next = next
  BY <1>1 DEF Pending
<1> HIDE DEF q
<1>5. CASE req[r].op = "proposal"
  <2>1. next = ParentAfterProposal(req[r].seen, req[r].to)
    BY <1>5
  <2>2. next # ew => LegalStep(ew, next) /\ next # "COMPLETED"
    BY <1>1, <1>5, <2>1, ParentStepLegal DEF Sound
  <2>3. Current(q)
    BY <1>1, <1>4, <1>5, <2>2 DEF Current
  <2>4. QED
    BY <1>1, <1>3, <2>3, RecordCurrent DEF ApprovalInv
<1>6. CASE req[r].op = "ticket"
  <2>1. next = ParentAfterTicket(req[r].row, req[r].to)
    BY <1>6
  <2>2. next # ew =>
            \/ ew = "CUSTOMER_APPROVED" /\ next = "IN_PROGRESS"
            \/ /\ ew = "IN_PROGRESS" /\ next = "COMPLETED"
               /\ req[r].to \in Terminal /\ AllDone(Spawned \ {req[r].row})
    BY <2>1 DEF ParentAfterTicket
  <2>3. next # ew => LegalStep(ew, next)
    BY <2>2, MoveTable
  <2>4. Current(q)
    BY <1>1, <1>4, <1>6, <2>2, <2>3 DEF Current, Completes
  <2>5. QED
    BY <1>1, <1>3, <2>4, RecordCurrent DEF ApprovalInv
<1>7. CASE req[r].op = "create"
  <2>1. next = req[r].next
    BY <1>7
  <2>2. Current(q)
    BY <1>1, <1>2, <1>4, <1>7, <2>1 DEF Current, Completes
  <2>3. QED
    BY <1>1, <1>3, <2>2, RecordCurrent DEF ApprovalInv
<1>8. QED
  BY <1>1, <1>5, <1>6, <1>7

LEMMA WriteSerial ==
    ASSUME OneAtATime, ApprovalInv, SerialInv, NEW r \in Requests, WriteParent(r)
    PROVE  SerialInv'
<1>1. req[r] \in Pending /\ req[r] # Idle /\ Current(req[r]) /\ UNCHANGED rows
  BY DEF WriteParent, ApprovalInv, TypeOK, Idle, SerialInv
<1>2. req[r].was = ew
  BY <1>1 DEF Current
<1> DEFINE next == req[r].next
           q == [req[r] EXCEPT !.phase = "written", !.next = next,
                               !.spawn = Spawns(req[r], next)]
<1>3. req' = [req EXCEPT ![r] = q]
  BY <1>2 DEF WriteParent
<1>4. /\ q.op = req[r].op /\ q.row = req[r].row /\ q.to = req[r].to
      /\ q.was = req[r].was /\ q.next = req[r].next /\ q.spawn = Spawns(req[r], next)
  BY <1>1 DEF Pending
<1>5. q.spawn => Spawned = {}
  BY <1>4 DEF Spawns
<1> HIDE DEF q
<1>6. Current(q)
  BY <1>1, <1>4, <1>5 DEF Current, Completes
<1>7. QED
  BY <1>1, <1>3, <1>6, RecordCurrent DEF ApprovalInv

\* A commit writes the one ticket there is.
LEMMA CommitSerial ==
    ASSUME OneAtATime, ApprovalInv, SerialInv, NEW r \in Requests, Commit(r)
    PROVE  SerialInv'
<1> DEFINE q == req[r]
           moved == IF q.op = "ticket"
                    THEN [ticket EXCEPT ![q.row] = TicketAfter(q.seen, q.to)] ELSE ticket
<1>1. q \in Pending /\ q # Idle /\ Current(q)
  BY DEF Commit, ApprovalInv, TypeOK, Idle, SerialInv
<1>2. \A s \in Requests : req'[s] = Idle
  BY DEF Commit, OneAtATime, ApprovalInv, TypeOK
<1>3. \A s \in Requests : Current(req[s])'
  BY <1>2 DEF Current
<1>4. OneTicket'
  <2>1. CASE ~q.spawn
    <3>1. Spawned' = Spawned
      BY <2>1, CommitRows
    <3>2. QED
      BY <3>1 DEF SerialInv, OneTicket
  <2>2. CASE q.spawn
    <3>1. Spawned = {} /\ q.op # "ticket"
      BY <1>1, <2>2 DEF Current
    <3>2. PICK t \in Tickets : ticket' = [ticket EXCEPT ![t] = "OPEN"]
      BY <2>2, <3>1 DEF Commit
    <3>3. \A u \in Spawned' : u = t
      BY <3>1, <3>2 DEF Spawned
    <3>4. QED
      BY <3>3 DEF OneTicket
  <2>3. QED
    BY <2>1, <2>2
<1>5. QED
  BY <1>3, <1>4 DEF SerialInv

LEMMA SubmitSerial ==
    ASSUME ApprovalInv, NEW i \in Intents, Submit(i)
    PROVE  SerialInv'
<1>1. /\ Spawned = {} /\ \A r \in Requests : req'[r] = Idle
  BY DEF Submit, ApprovalInv, Unsubmitted
<1>2. OneTicket'
  <2>1. ticket' = ticket \/ \E t \in Tickets : ticket' = [ticket EXCEPT ![t] = "OPEN"]
    BY DEF Submit
  <2>2. \E t : Spawned' \subseteq {t}
    BY <1>1, <2>1 DEF Spawned, ApprovalInv, TypeOK
  <2>3. QED
    BY <2>2 DEF OneTicket
<1>3. \A r \in Requests : Current(req[r])'
  BY <1>1 DEF Current
<1>4. QED
  BY <1>2, <1>3 DEF SerialInv

LEMMA SerialInvariant == ASSUME OneAtATime PROVE Spec => []SerialInv
<1>1. Init => SerialInv
  BY DEF Init, SerialInv, OneTicket, Spawned, Current
<1>2. ApprovalInv /\ SerialInv /\ [Next]_vars => SerialInv'
  <2> SUFFICES ASSUME ApprovalInv, SerialInv, [Next]_vars PROVE SerialInv'
    OBVIOUS
  <2>1. ASSUME NEW r \in Requests, Abandon(r) PROVE SerialInv'
    <3>1. Current(Idle)
      BY DEF Current
    <3>2. QED
      BY <2>1, <3>1, RecordCurrent DEF Abandon, ApprovalInv
  <2>2. CASE UNCHANGED vars
    BY <2>2 DEF vars, SerialInv, OneTicket, Current, Completes, AllDone, Spawned
  <2>3. QED
    BY <2>1, <2>2, SubmitSerial, ReadingSerial, LockSerial, WriteSerial, CommitSerial
    DEF Next, ApprovalInv
<1>3. QED
  BY <1>1, <1>2, ApprovalInvariant, PTL DEF Spec

\* When requests run one after the other, an Extra Work never gets a second
\* ticket, by whichever of the four spawn routes the first one came.
THEOREM SpawnedOnce == ASSUME OneAtATime PROVE Spec => []OneTicket
<1>1. SerialInv => OneTicket
  BY DEF SerialInv
<1>2. QED
  BY <1>1, SerialInvariant, PTL

\* When requests run one after the other, the status of an Extra Work takes
\* only the moves of ALLOWED_TRANSITIONS, or two of them in one transaction,
\* although the proposal flow and the ticket sync write it past the table.
THEOREM StatusFollowsTable == ASSUME OneAtATime PROVE Spec => LegalExtraWork
<1>1. ApprovalInv /\ SerialInv /\ [Next]_vars => [ew' # ew => LegalStep(ew, ew')]_vars
  <2> SUFFICES ASSUME ApprovalInv, SerialInv, Next, ew' # ew PROVE LegalStep(ew, ew')
    OBVIOUS
  <2>1. ASSUME NEW i \in Intents, Submit(i) PROVE LegalStep(ew, ew')
    BY <2>1 DEF Submit, LegalStep
  <2>2. ASSUME NEW r \in Requests, Commit(r) PROVE LegalStep(ew, ew')
    BY <2>2 DEF Commit, SerialInv, Current, Idle
  <2>3. ASSUME NEW r \in Requests, Reading(r) \/ Abandon(r) \/ LockRow(r) \/ WriteParent(r)
        PROVE  ew' = ew
    BY <2>3, ReadingStarts DEF ApprovalInv, Abandon, LockRow, WriteParent, rows
  <2>4. QED
    BY <2>1, <2>2, <2>3 DEF Next
<1>2. QED
  BY <1>1, SerialInvariant, ApprovalInvariant, PTL DEF Spec, LegalExtraWork

\* When requests run one after the other, an Extra Work becomes completed
\* only when every ticket it has is approved or closed, whether a ticket's
\* sync, the reconcile command or a human completes it.
THEOREM CompletionDerived == ASSUME OneAtATime PROVE Spec => DerivedCompletion
<1>1. ApprovalInv /\ SerialInv /\ [Next]_vars =>
        [ew # "COMPLETED" /\ ew' = "COMPLETED" => \A t \in Tickets :
            ticket[t] # "absent" => ticket'[t] \in Terminal]_vars
  <2> SUFFICES ASSUME ApprovalInv, SerialInv, Next, ew # "COMPLETED", ew' = "COMPLETED",
                      NEW t \in Tickets, ticket[t] # "absent"
               PROVE  ticket'[t] \in Terminal
    OBVIOUS
  <2>1. ASSUME NEW i \in Intents, Submit(i) PROVE FALSE
    BY <2>1 DEF Submit
  <2>2. ASSUME NEW r \in Requests, Reading(r) \/ Abandon(r) \/ LockRow(r) \/ WriteParent(r)
        PROVE  ew' = ew
    BY <2>2, ReadingStarts DEF ApprovalInv, Abandon, LockRow, WriteParent, rows
  <2>3. ASSUME NEW r \in Requests, Commit(r) PROVE ticket'[t] \in Terminal
    <3> DEFINE q == req[r]
    <3>1. /\ q \in Pending /\ Sound(q) /\ t \in Spawned
          /\ (q.op = "ticket" /\ q.row = t) \/ ticket'[t] = ticket[t]
      BY <2>3, CommitRows DEF Spawned
    <3>2. Completes(q) /\ (q.spawn => Spawned = {})
      BY <2>3 DEF Commit, SerialInv, Current, Idle
    <3>3. CASE q.op = "extraWork"
      BY <3>1, <3>2, <3>3 DEF Completes, AllDone
    <3>4. CASE q.op = "ticket" /\ q.row # t
      BY <3>1, <3>2, <3>4 DEF Completes, AllDone
    <3>5. CASE q.op = "ticket" /\ q.row = t
      <4>1. ticket' = [ticket EXCEPT ![t] = TicketAfter(q.seen, q.to)]
        BY <2>3, <3>1, <3>2, <3>5 DEF Commit
      <4>2. q.to \in Terminal
        BY <3>2, <3>5 DEF Completes
      <4>3. QED
        BY <4>1, <4>2 DEF ApprovalInv, TypeOK, TicketAfter, Terminal
    <3>6. QED
      BY <3>2, <3>3, <3>4, <3>5 DEF Completes
  <2>4. QED
    BY <2>1, <2>2, <2>3 DEF Next
<1>2. QED
  BY <1>1, SerialInvariant, ApprovalInvariant, PTL DEF Spec, DerivedCompletion
=============================================================================

----------------------------- MODULE Timesheets -----------------------------
(***************************************************************************)
(* One person's hours on the server: the rows of each week, the lock a     *)
(* manager puts on a week, the fill that writes a week from the standing   *)
(* agreement, and the grid save.                                           *)
(*                                                                         *)
(* Fills and saves are transactions of several steps, and any number run   *)
(* at once: a page asks for a fill each time it shows a week.  A line is a *)
(* cell of the sheet (day, hour type, building and source): the            *)
(* agreement's, or one of the person's own.  A line can have several rows. *)
(***************************************************************************)
EXTENDS Naturals

CONSTANTS Weeks,
          OwnLines,   \* lines without the agreement as their source
          Contract,   \* the line the agreement fills
          Hours,      \* what a row can hold
          Keys,       \* bound: the primary keys in use for one line at a time
          Fills,      \* fill transactions that can be under way
          Saves,      \* grid saves that can be under way
          Reported    \* weeks the managers close and reopen

ASSUME TimesheetsAssumption == /\ Hours \subseteq Nat \ {0}
                               /\ 1 \in Hours
                               /\ Contract \notin OwnLines
                               /\ Weeks # {} /\ Reported \subseteq Weeks

VARIABLES rows,     \* TimeEntry: the rows of each line of each week
          closed,   \* WeekLock: the weeks that have one
          fill,     \* the fill transactions
          save      \* the save transactions

tsVars == <<rows, closed, fill, save>>

Lines == OwnLines \cup {Contract}

Row == [id : Keys, hours : Hours, filled : BOOLEAN]

\* The cells of a save: lines and their new hours, 0 for a cleared one.
NoCells == [l \in {} |-> 0]
Cells == UNION {[D -> Hours \cup {0}] : D \in SUBSET Lines}

NoneFound == [l \in {} |-> 0]
Found == UNION {[D -> Keys] : D \in SUBSET Lines}

\* "found": the rows the save looked up, of the lines that had one.  "late":
\* the week was closed after the transaction had found it open.
FillRecord == [phase : {"idle", "sent", "open", "locked"}, week : Weeks,
               taken : BOOLEAN, late : BOOLEAN]
SaveRecord == [phase : {"idle", "sent", "judged"}, week : Weeks,
               cells : Cells, found : Found, late : BOOLEAN]

\* A slot nobody uses; its week means nothing.
SomeWeek == CHOOSE w \in Weeks : TRUE
NoFill == [phase |-> "idle", week |-> SomeWeek, taken |-> FALSE, late |-> FALSE]
NoSave == [phase |-> "idle", week |-> SomeWeek, cells |-> NoCells, found |-> NoneFound, late |-> FALSE]

\* Before the worker first opens a week: managers may have closed some.
TSInit ==
    /\ rows = [w \in Weeks |-> [l \in Lines |-> {}]]
    /\ closed \in SUBSET Reported
    /\ fill = [f \in Fills |-> NoFill]
    /\ save = [s \in Saves |-> NoSave]

FillIdle(f) == fill[f].phase = "idle"

\* A key for a new row: no row of the line has it, nor one that a save has
\* looked up and that is gone by now.
FreeKeys(w, l) ==
    Keys \ ({row.id : row \in rows[w][l]}
              \cup {save[s].found[l] : s \in {t \in Saves : /\ save[t].week = w
                                                           /\ l \in DOMAIN save[t].found}})

NewKey(w, l) == CHOOSE k \in FreeKeys(w, l) : TRUE

\* What a fill writes, here an hour.
Agreed(k) == [id |-> k, hours |-> 1, filled |-> TRUE]

-----------------------------------------------------------------------------
(* Filling a week.                                                         *)

\* A page, or a wizard, asks for one.
FillFor(w) == [NoFill EXCEPT !.phase = "sent", !.week = w]

FillSent(f, w) ==
    /\ FillIdle(f)
    /\ fill' = [fill EXCEPT ![f] = FillFor(w)]
    /\ UNCHANGED <<rows, closed, save>>

\* A fill that does not wait for the one that holds the agreement.
LockIgnored(f) == TRUE

\* select_for_update on the agreement: one fill at a time beyond this point.
LockFree(f) == \A g \in Fills : fill[g].phase # "locked"

\* The week's lock is looked up before anything is locked.
FillLooks(f) ==
    /\ fill[f].phase = "sent"
    /\ fill' = IF fill[f].week \in closed
               THEN [fill EXCEPT ![f] = NoFill]
               ELSE [fill EXCEPT ![f].phase = "open"]
    /\ UNCHANGED <<rows, closed, save>>

\* The agreement is locked, and then the week's rows are read.
FillLocks(f) ==
    /\ fill[f].phase = "open"
    /\ LockFree(f)
    /\ fill' = [fill EXCEPT ![f].phase = "locked",
                            ![f].taken = \E l \in Lines : rows[fill[f].week][l] # {}]
    /\ UNCHANGED <<rows, closed, save>>

\* A week without a row gets the agreement's, and the transaction commits.
FillCommits(f) == LET w == fill[f].week IN
    /\ fill[f].phase = "locked"
    /\ FreeKeys(w, Contract) # {}
    /\ rows' = IF fill[f].taken THEN rows
               ELSE [rows EXCEPT ![w][Contract] = @ \cup {Agreed(NewKey(w, Contract))}]
    /\ fill' = [fill EXCEPT ![f] = NoFill]
    /\ UNCHANGED <<closed, save>>

\* The request is lost.  A fill that dies later is rolled back, as if lost.
FillDies(f) ==
    /\ fill[f].phase = "sent"
    /\ fill' = [fill EXCEPT ![f] = NoFill]
    /\ UNCHANGED <<rows, closed, save>>

-----------------------------------------------------------------------------
(* Saving a grid: one transaction over all its cells, which one refused    *)
(* cell rolls back.  The rows and the week's lock are looked up in one     *)
(* step, and the rows written in a later one.                              *)

\* Grids send cells whenever they like, whatever their page last showed.
SaveFor(w, cells) == [NoSave EXCEPT !.phase = "sent", !.week = w, !.cells = cells]

SaveIdle(s) == save[s].phase = "idle"

SaveSent(s, w, cells) ==
    /\ SaveIdle(s)
    /\ save' = [save EXCEPT ![s] = SaveFor(w, cells)]
    /\ UNCHANGED <<rows, closed, fill>>

\* Clearing a cell removes its row, whatever the week.
RefusesWrites(s) ==
    /\ save[s].week \in closed
    /\ \E l \in DOMAIN save[s].cells : save[s].cells[l] # 0

\* A closed week refuses a write, and the removal of a row that is there.
Refuses(s) == LET w == save[s].week IN
    /\ w \in closed
    /\ \E l \in DOMAIN save[s].cells : save[s].cells[l] # 0 \/ rows[w][l] # {}

\* The rows a save can look up.  first() is the newest; any will do here.
Lookups(s) == LET old == rows[save[s].week] IN
    {found \in [{l \in DOMAIN save[s].cells : old[l] # {}} -> Keys] :
        \A l \in DOMAIN found : \E row \in old[l] : row.id = found[l]}

SaveJudged(s) ==
    /\ save[s].phase = "sent"
    /\ IF Refuses(s)
       THEN save' = [save EXCEPT ![s] = NoSave]
       ELSE \E found \in Lookups(s) :
               save' = [save EXCEPT ![s].phase = "judged", ![s].found = found]
    /\ UNCHANGED <<rows, closed, fill>>

\* A line once a cell is applied under a key: the one looked up, or a new one.
\* A row that is gone by now is inserted again, as if the save had written it.
Applied(rs, h, k) ==
    {row \in rs : row.id # k}
        \cup IF h = 0 THEN {}
             ELSE {[id |-> k, hours |-> h,
                    filled |-> \E row \in rs : row.id = k /\ row.filled]}

KeyFor(s, l) == IF l \in DOMAIN save[s].found THEN save[s].found[l]
                ELSE NewKey(save[s].week, l)

\* The week once every cell is.
SavedRows(s) == LET old == rows[save[s].week] IN
    [l \in Lines |-> IF l \in DOMAIN save[s].cells
                     THEN Applied(old[l], save[s].cells[l], KeyFor(s, l))
                     ELSE old[l]]

SaveApplied(s) ==
    /\ save[s].phase = "judged"
    /\ \A l \in DOMAIN save[s].cells : FreeKeys(save[s].week, l) # {}
    /\ rows' = [rows EXCEPT ![save[s].week] = SavedRows(s)]
    /\ save' = [save EXCEPT ![s] = NoSave]
    /\ UNCHANGED <<closed, fill>>

\* The request is lost, or refused on other grounds.
SaveDies(s) ==
    /\ save[s].phase = "sent"
    /\ save' = [save EXCEPT ![s] = NoSave]
    /\ UNCHANGED <<rows, closed, fill>>

-----------------------------------------------------------------------------
(* A manager closes and reopens weeks.                                     *)

CloseWeek(w) ==
    /\ w \in Reported \ closed
    /\ closed' = closed \cup {w}
    /\ fill' = [f \in Fills |->
                   [fill[f] EXCEPT !.late = @ \/ (/\ fill[f].week = w
                                                  /\ fill[f].phase \in {"open", "locked"})]]
    /\ save' = [s \in Saves |->
                   [save[s] EXCEPT !.late = @ \/ (/\ save[s].week = w
                                                  /\ save[s].phase = "judged")]]
    /\ UNCHANGED <<rows>>

ReopenWeek(w) ==
    /\ w \in closed
    /\ closed' = closed \ {w}
    /\ UNCHANGED <<rows, fill, save>>

\* What the server does by itself.
TSStep ==
    \/ \E f \in Fills : FillLooks(f) \/ FillLocks(f) \/ FillCommits(f) \/ FillDies(f)
    \/ \E s \in Saves : SaveJudged(s) \/ SaveApplied(s) \/ SaveDies(s)
    \/ \E w \in Weeks : CloseWeek(w) \/ ReopenWeek(w)

TSNext ==
    \/ TSStep
    \/ \E f \in Fills, w \in Weeks : FillSent(f, w)
    \/ \E s \in Saves, w \in Weeks, cells \in Cells : SaveSent(s, w, cells)

TSSpec == TSInit /\ [][TSNext]_tsVars

-----------------------------------------------------------------------------
(* Properties.                                                             *)

\* Every variable has its type; one fill at a time holds the agreement, and
\* a week that was empty when it looked has no filled row until it commits.
TypeOK ==
    /\ rows \in [Weeks -> [Lines -> SUBSET Row]]
    /\ closed \subseteq Reported
    /\ fill \in [Fills -> FillRecord]
    /\ save \in [Saves -> SaveRecord]
    /\ \A f, g \in Fills : fill[f].phase = "locked" /\ fill[g].phase = "locked" => f = g
    /\ \A f \in Fills :
          fill[f].phase = "locked" /\ ~fill[f].taken
              => \A row \in rows[fill[f].week][Contract] : ~row.filled

\* However many fills of a week are under way at once, the week holds at most
\* one row a fill has written: a re-run never doubles a row.  A row that a
\* save inserts again is the save's.
FilledOnce ==
    \A w \in Weeks : \A row, other \in rows[w][Contract] :
        row.filled /\ other.filled => row = other

\* The hours of a closed week stay what they were reported as, but for a fill
\* or a save that found the week open and was overtaken by the close.
ClosedWeekFrozen ==
    [][\A w \in closed :
          rows'[w] # rows[w] =>
              \/ \E f \in Fills : fill[f].week = w /\ fill[f].late
              \/ \E s \in Saves : save[s].week = w /\ save[s].late]_tsVars
=============================================================================

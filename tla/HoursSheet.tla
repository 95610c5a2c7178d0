----------------------------- MODULE HoursSheet -----------------------------
(***************************************************************************)
(* "My hours": one worker's page over the timesheets.  It shows one week   *)
(* at a time.  To load a week it asks for a fill and then reads it; a grid *)
(* over the week holds what is typed until it is saved, and leaving the    *)
(* week with something typed asks first.  The grid is another instance for *)
(* each week, so it forgets what was typed in the last one; a save still   *)
(* under way goes on with the instance it was started from.                *)
(*                                                                         *)
(* The server can answer anything: any hours, an open or a closed week, a  *)
(* refusal.  A request can also end without an answer (the client has a    *)
(* timeout); what it then does on the server is the business of Timesheets.*)
(***************************************************************************)
EXTENDS Naturals

CONSTANTS Weeks,
          None,     \* no week
          Lines,    \* the cells of a grid
          Hours,    \* what a cell can hold, 0 for nothing
          Loads,    \* loads that can be under way
          Saves     \* saves that can be under way

ASSUME HoursSheetAssumption == /\ None \notin Weeks
                               /\ 0 \in Hours

VARIABLES week,        \* the week in view
          loaded,      \* loadedWeekKey: the week the last load was for, or None
          entries,     \* the week and the hours last read
          weekClosed,  \* what was read of its lock
          loadError,   \* the page shows an error
          edits,       \* the grid's unsaved cells
          dirty,       \* gridDirty: the page's idea of whether there are any
          pending,     \* the week the leave dialog is about, or None
          load,        \* the runs of the load effect
          save,        \* the runs of handleSave
          excuse       \* history: see LossIsAsked and WeekShown

shown == <<loaded, entries, weekClosed, loadError>>
typed == <<edits, dirty, pending>>
vars  == <<week, shown, typed, load, save, excuse>>

WeekOrNone == Weeks \cup {None}
NoEdits == [l \in {} |-> 0]
Cells == UNION {[D -> Hours] : D \in SUBSET Lines}

NoLoad == [phase |-> "idle", week |-> None, cancelled |-> FALSE]
NoSave == [phase |-> "idle", week |-> None, mine |-> FALSE]

\* "mine": started from the grid instance on the screen.
LoadRecord == [phase : {"idle", "filling", "reading"}, week : WeekOrNone, cancelled : BOOLEAN]
SaveRecord == [phase : {"idle", "saving", "refreshing"}, week : WeekOrNone, mine : BOOLEAN]

Init ==
    /\ week \in Weeks /\ loaded = None
    /\ entries = [week |-> None, hours |-> [l \in Lines |-> 0]]
    /\ weekClosed = FALSE /\ loadError = FALSE
    /\ edits = NoEdits /\ dirty = FALSE /\ pending = None
    /\ \E f \in Loads :
         load = [g \in Loads |->
                    IF g = f THEN [NoLoad EXCEPT !.phase = "filling", !.week = week]
                    ELSE NoLoad]
    /\ save = [s \in Saves |-> NoSave]
    /\ excuse = {}

\* Derived: true exactly while the week in view is not the week last loaded.
loading == loaded # week

\* busy: this grid's handleSave has not come to its end.
busy == \E s \in Saves : save[s].phase # "idle" /\ save[s].mine

\* What a cell of the grid showed before it was typed in.
CellOf(l) == IF entries.week = week THEN entries.hours[l] ELSE 0

-----------------------------------------------------------------------------
(* Loading a week.                                                         *)

\* setWeek, whatever the new week: the load effect is cleaned up and runs
\* again, and another week takes the grid with it.  Without a free slot the
\* page is not turned.
GoTo(w) == \E f \in Loads :
    /\ load[f].phase = "idle"
    /\ week' = w
    /\ load' = [g \in Loads |->
                   IF g = f THEN [phase |-> "filling", week |-> w, cancelled |-> FALSE]
                   ELSE [load[g] EXCEPT !.cancelled = load[g].phase # "idle"]]
    /\ IF w = week
       THEN UNCHANGED <<edits, save>>
       ELSE /\ edits' = NoEdits
            /\ save' = [s \in Saves |-> [save[s] EXCEPT !.mine = FALSE]]

\* The fill is answered, fails, or takes too long: the week is read.
FillOver(f) ==
    /\ load[f].phase = "filling"
    /\ load' = [load EXCEPT ![f].phase = "reading"]
    /\ UNCHANGED <<week, shown, typed, save, excuse>>

\* A load that does not look whether another has taken its place.
AnyLoad(f) == TRUE

\* if (cancelled) return
Current(f) == ~load[f].cancelled

LoadAnswers(f) ==
    /\ load[f].phase = "reading"
    /\ load' = [load EXCEPT ![f] = NoLoad]
    /\ IF Current(f)
       THEN /\ \E h \in [Lines -> Hours] : entries' = [week |-> load[f].week, hours |-> h]
            /\ weekClosed' \in BOOLEAN
            /\ loadError' = FALSE
            /\ loaded' = load[f].week
            /\ excuse' = excuse \ {"entries"}
       ELSE UNCHANGED <<shown, excuse>>
    /\ UNCHANGED <<week, typed, save>>

\* A failed load that leaves the spinner where it is.
StillLoading(f) == loaded

\* "so an error stops the spinner instead of leaving it up forever"
LoadedAnyway(f) == load[f].week

LoadFails(f) ==
    /\ load[f].phase = "reading"
    /\ load' = [load EXCEPT ![f] = NoLoad]
    /\ IF Current(f)
       THEN /\ loadError' = TRUE
            /\ loaded' = LoadedAnyway(f)
       ELSE UNCHANGED <<loadError, loaded>>
    /\ UNCHANGED <<week, entries, weekClosed, typed, save, excuse>>

-----------------------------------------------------------------------------
(* Typing and leaving.                                                     *)

\* setCell.  The dialog is modal, a busy grid is disabled.
Type(l, h) ==
    /\ ~loading /\ ~busy /\ ~weekClosed /\ pending = None
    /\ edits' = [k \in DOMAIN edits \cup {l} |-> IF k = l THEN h ELSE edits[k]]
    /\ dirty' = TRUE
    /\ excuse' = excuse \ {"edits"}
    /\ UNCHANGED <<week, shown, pending, load, save>>

\* requestWeek: with something typed the dialog is opened instead.
RequestWeek(w) ==
    /\ pending = None
    /\ IF dirty
       THEN /\ pending' = w
            /\ UNCHANGED <<week, edits, load, save>>
       ELSE /\ GoTo(w)
            /\ UNCHANGED pending
    /\ excuse' = IF edits' = NoEdits THEN excuse \ {"edits"} ELSE excuse
    /\ UNCHANGED <<shown, dirty>>

ConfirmLeave ==
    /\ pending # None
    /\ GoTo(pending)
    /\ pending' = None
    /\ dirty' = FALSE
    /\ excuse' = IF edits' = NoEdits THEN excuse \ {"edits"} ELSE excuse \cup {"edits"}
    /\ UNCHANGED shown

CancelLeave ==
    /\ pending # None
    /\ pending' = None
    /\ UNCHANGED <<week, shown, edits, dirty, load, save, excuse>>

-----------------------------------------------------------------------------
(* Saving.                                                                 *)

\* A sheet that counts as clean as soon as its hours are on their way.
CleanOnceSent == FALSE

\* A sheet stays dirty until its save has been answered.
DirtyWhileSaving == dirty

\* handleSave.  Only the changed cells are sent; with none, nothing is.
Save(s) ==
    /\ ~loading /\ ~busy /\ ~weekClosed /\ pending = None
    /\ \E l \in DOMAIN edits : edits[l] # CellOf(l)
    /\ save[s].phase = "idle"
    /\ save' = [save EXCEPT ![s] = [phase |-> "saving", week |-> week, mine |-> TRUE]]
    /\ dirty' = DirtyWhileSaving
    /\ UNCHANGED <<week, shown, edits, pending, load, excuse>>

\* Saved: the grid the save came from, if it is still there, forgets what
\* was typed; the page counts as clean whichever grid is there; and the
\* week the save was for is read again.
SaveAnswered(s) ==
    /\ save[s].phase = "saving"
    /\ save' = [save EXCEPT ![s].phase = "refreshing"]
    /\ edits' = IF save[s].mine THEN NoEdits ELSE edits
    /\ dirty' = FALSE
    /\ excuse' = IF edits' = NoEdits THEN excuse \ {"edits"} ELSE excuse \cup {"edits"}
    /\ UNCHANGED <<week, shown, pending, load>>

\* A grid that waits for the answer, whatever becomes of it.
SavesForever(s) == FALSE

\* finally: refused, failed, or not answered in time.
Ends(s) == save[s].phase = "saving"

SaveFails(s) ==
    /\ Ends(s)
    /\ save' = [save EXCEPT ![s] = NoSave]
    /\ UNCHANGED <<week, shown, typed, load, excuse>>

\* refresh() as it was when the save started: of that week, and unguarded.
RefreshAnswers(s) ==
    /\ save[s].phase = "refreshing"
    /\ save' = [save EXCEPT ![s] = NoSave]
    /\ \E h \in [Lines -> Hours] : entries' = [week |-> save[s].week, hours |-> h]
    /\ weekClosed' \in BOOLEAN
    /\ loadError' = FALSE
    /\ excuse' = IF save[s].mine THEN excuse \ {"entries"} ELSE excuse \cup {"entries"}
    /\ UNCHANGED <<week, loaded, typed, load>>

\* NEVER THROWS: an error over the page, and the grid is free again.
RefreshFails(s) ==
    /\ save[s].phase = "refreshing"
    /\ save' = [save EXCEPT ![s] = NoSave]
    /\ loadError' = TRUE
    /\ UNCHANGED <<week, loaded, entries, weekClosed, typed, load, excuse>>

-----------------------------------------------------------------------------
Leaves == ConfirmLeave \/ \E w \in Weeks : RequestWeek(w)

Next ==
    \/ Leaves \/ CancelLeave
    \/ \E f \in Loads : FillOver(f) \/ LoadAnswers(f) \/ LoadFails(f)
    \/ \E l \in Lines, h \in Hours : Type(l, h)
    \/ \E s \in Saves : \/ Save(s) \/ SaveAnswered(s) \/ SaveFails(s)
                        \/ RefreshAnswers(s) \/ RefreshFails(s)

Safety == Init /\ [][Next]_vars

\* The client's timeouts, thirty seconds on every request.
TimeoutsFire ==
    /\ \A f \in Loads : WF_vars(FillOver(f)) /\ WF_vars(LoadFails(f))
    /\ \A s \in Saves : WF_vars(SaveFails(s)) /\ WF_vars(RefreshFails(s))

Spec == Safety /\ TimeoutsFire

-----------------------------------------------------------------------------
(* Properties.                                                             *)

\* Every variable has its type; while the week in view is not loaded, a load
\* of it that nobody has cancelled is under way.
TypeOK ==
    /\ week \in Weeks /\ loaded \in WeekOrNone /\ pending \in WeekOrNone
    /\ entries \in [week : WeekOrNone, hours : [Lines -> Hours]]
    /\ weekClosed \in BOOLEAN /\ loadError \in BOOLEAN /\ dirty \in BOOLEAN
    /\ edits \in Cells
    /\ load \in [Loads -> LoadRecord]
    /\ save \in [Saves -> SaveRecord]
    /\ excuse \subseteq {"edits", "entries"}
    /\ loading => \E f \in Loads : load[f].phase # "idle" /\ Current(f) /\ load[f].week = week

\* Hours that were typed and not saved are never one click from being lost:
\* the page knows of them, and leaving the week asks.  Two ways around it are
\* the code's own, and excused: the answer to a save from the week before
\* calls the new sheet clean, and "this week", agreed to on this very week,
\* leaves the sheet as it is.
LossIsAsked == edits # NoEdits => dirty \/ "edits" \in excuse

\* The sheet on the screen is the sheet of the week in its title, however the
\* user pages and whichever load answers last; or there is an error over it,
\* or the refresh after a save in another week has come late.
WeekShown == entries.week = week \/ loading \/ loadError \/ "entries" \in excuse

\* Once nobody turns the page any more, the skeleton gives way to a sheet or
\* an error, whatever the network does.
WeekLoads == <>[][~Leaves]_vars => (loading ~> ~loading)

\* The grid does not stay locked behind a save.
SaveSettles == busy ~> ~busy
=============================================================================

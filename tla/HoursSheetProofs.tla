-------------------------- MODULE HoursSheetProofs --------------------------
(***************************************************************************)
(* Theorems of HoursSheet for any number of weeks, cells, loads and saves. *)
(***************************************************************************)
EXTENDS HoursSheet, TLAPS

\* Safety leaves the fairness out, which none of the proofs needs.
LEMMA SpecIsSafe == Spec => Safety
  BY PTL DEF Spec

-----------------------------------------------------------------------------
(* The inductive invariant.                                                *)

Types ==
    /\ week \in Weeks /\ loaded \in WeekOrNone /\ pending \in WeekOrNone
    /\ entries \in [week : WeekOrNone, hours : [Lines -> Hours]]
    /\ weekClosed \in BOOLEAN /\ loadError \in BOOLEAN /\ dirty \in BOOLEAN
    /\ edits \in Cells
    /\ load \in [Loads -> LoadRecord]
    /\ save \in [Saves -> SaveRecord]
    /\ excuse \subseteq {"edits", "entries"}

\* A load that was not cancelled is of the week in view, and there is one
\* whenever that week is not loaded.
LoadsInView ==
    /\ \A f \in Loads : load[f].phase # "idle" /\ Current(f) => load[f].week = week
    /\ loading => \E f \in Loads : load[f].phase # "idle" /\ Current(f)

\* A save of the grid on the screen is of the week in view, which is loaded.
SavesInView ==
    \A s \in Saves : save[s].phase # "idle" /\ save[s].mine =>
                        save[s].week = week /\ loaded = week

\* What is shown is what the last load was for.
ShownIsLoaded == entries.week = loaded \/ loadError \/ "entries" \in excuse

IInv == Types /\ LoadsInView /\ SavesInView /\ ShownIsLoaded /\ LossIsAsked

-----------------------------------------------------------------------------

LEMMA Records ==
    /\ NoLoad \in LoadRecord /\ NoLoad.phase = "idle"
    /\ NoSave \in SaveRecord /\ NoSave.phase = "idle"
    /\ \A w \in Weeks :
          /\ [phase |-> "filling", week |-> w, cancelled |-> FALSE] \in LoadRecord
          /\ [phase |-> "saving", week |-> w, mine |-> TRUE] \in SaveRecord
    /\ \A r \in LoadRecord : \A b \in BOOLEAN :
          /\ [r EXCEPT !.cancelled = b] \in LoadRecord
          /\ [r EXCEPT !.phase = "reading"] \in LoadRecord
    /\ \A r \in SaveRecord :
          /\ [r EXCEPT !.mine = FALSE] \in SaveRecord
          /\ [r EXCEPT !.phase = "refreshing"] \in SaveRecord
  BY DEF NoLoad, NoSave, LoadRecord, SaveRecord, WeekOrNone

LEMMA NoCells == NoEdits \in Cells
<1>1. NoEdits \in [{} -> Hours]
  BY DEF NoEdits
<1>2. QED
  BY <1>1 DEF Cells

LEMMA TypedCells ==
    ASSUME NEW e \in Cells, NEW l \in Lines, NEW h \in Hours
    PROVE  [k \in DOMAIN e \cup {l} |-> IF k = l THEN h ELSE e[k]] \in Cells
<1>1. PICK D \in SUBSET Lines : e \in [D -> Hours]
  BY DEF Cells
<1>2. [k \in D \cup {l} |-> IF k = l THEN h ELSE e[k]] \in [D \cup {l} -> Hours]
  BY <1>1
<1>3. DOMAIN e = D /\ D \cup {l} \in SUBSET Lines
  BY <1>1
<1>4. QED
  BY <1>2, <1>3 DEF Cells

LEMMA InvInit == Init => IInv
<1> SUFFICES ASSUME Init PROVE IInv
  OBVIOUS
<1>1. PICK f \in Loads : load = [g \in Loads |->
                            IF g = f THEN [NoLoad EXCEPT !.phase = "filling", !.week = week]
                            ELSE NoLoad]
  BY DEF Init
<1>2. /\ [NoLoad EXCEPT !.phase = "filling", !.week = week] \in LoadRecord
      /\ load[f].phase = "filling" /\ load[f].week = week /\ ~load[f].cancelled
      /\ \A g \in Loads \ {f} : load[g] = NoLoad
  BY <1>1 DEF Init, NoLoad, LoadRecord, WeekOrNone
<1>3. load \in [Loads -> LoadRecord]
  BY <1>1, <1>2, Records
<1>4. Types
  BY <1>3, Records, NoCells, HoursSheetAssumption DEF Init, Types, WeekOrNone
<1>5. LoadsInView
  BY <1>2, Records DEF Init, LoadsInView, Current, loading
<1>6. SavesInView /\ ShownIsLoaded /\ LossIsAsked
  BY Records DEF Init, SavesInView, ShownIsLoaded, LossIsAsked
<1>7. QED
  BY <1>4, <1>5, <1>6 DEF IInv

\* Turning the page, for its three callers.
LEMMA GoToStep ==
    ASSUME IInv, NEW w \in Weeks, GoTo(w), UNCHANGED shown
    PROVE  /\ week' \in Weeks /\ edits' \in Cells
           /\ load' \in [Loads -> LoadRecord] /\ save' \in [Saves -> SaveRecord]
           /\ LoadsInView' /\ SavesInView'
           /\ edits' = NoEdits \/ edits' = edits
<1> USE DEF IInv
<1>1. PICK f \in Loads :
        /\ week' = w
        /\ load' = [g \in Loads |->
                      IF g = f THEN [phase |-> "filling", week |-> w, cancelled |-> FALSE]
                      ELSE [load[g] EXCEPT !.cancelled = load[g].phase # "idle"]]
  BY DEF GoTo
<1>2. load' \in [Loads -> LoadRecord]
  BY <1>1, Records DEF Types
<1>3. /\ load'[f].phase = "filling" /\ load'[f].week = w /\ ~load'[f].cancelled
      /\ \A g \in Loads \ {f} : load'[g].phase # "idle" => load'[g].cancelled
  BY <1>1 DEF Types, LoadRecord
<1>4. LoadsInView'
  BY <1>1, <1>3 DEF LoadsInView, Current
<1>5. CASE w = week
  <2>1. UNCHANGED <<edits, save>>
    BY <1>5 DEF GoTo
  <2>2. SavesInView'
    BY <1>1, <1>5, <2>1 DEF SavesInView, shown
  <2>3. QED
    BY <1>1, <1>2, <1>4, <2>1, <2>2 DEF Types
<1>6. CASE w # week
  <2>1. /\ edits' = NoEdits
        /\ save' = [s \in Saves |-> [save[s] EXCEPT !.mine = FALSE]]
    BY <1>6 DEF GoTo
  <2>2. save' \in [Saves -> SaveRecord] /\ \A s \in Saves : ~save'[s].mine
    BY <2>1, Records DEF Types, SaveRecord
  <2>3. SavesInView'
    BY <2>2 DEF SavesInView
  <2>4. QED
    BY <1>1, <1>2, <1>4, <2>1, <2>2, <2>3, NoCells
<1>7. QED
  BY <1>5, <1>6

LEMMA LeaveStep ==
    ASSUME IInv, Leaves \/ CancelLeave
    PROVE  IInv'
<1> USE DEF IInv
<1>1. ASSUME NEW w \in Weeks, RequestWeek(w) PROVE IInv'
  <2>1. CASE dirty
    <3>1. pending' = w /\ UNCHANGED <<week, edits, load, save, shown, dirty>>
      BY <1>1, <2>1 DEF RequestWeek
    <3>2. excuse' \subseteq {"edits", "entries"} /\ ("entries" \in excuse => "entries" \in excuse')
      BY <1>1 DEF RequestWeek, Types
    <3>3. QED
      BY <2>1, <3>1, <3>2 DEF Types, LoadsInView, Current, loading, SavesInView, ShownIsLoaded,
                              LossIsAsked, shown, WeekOrNone
  <2>2. CASE ~dirty
    <3>1. GoTo(w) /\ UNCHANGED <<pending, shown, dirty>>
      BY <1>1, <2>2 DEF RequestWeek
    <3>2. /\ excuse' \subseteq {"edits", "entries"}
          /\ "entries" \in excuse => "entries" \in excuse'
          /\ edits' # NoEdits => excuse' = excuse
      BY <1>1 DEF RequestWeek, Types
    <3>3. LossIsAsked'
      BY <2>2, <3>1, <3>2, GoToStep DEF LossIsAsked
    <3>4. Types' /\ ShownIsLoaded'
      BY <3>1, <3>2, GoToStep DEF Types, ShownIsLoaded, shown
    <3>5. QED
      BY <3>1, <3>3, <3>4, GoToStep
  <2>3. QED
    BY <2>1, <2>2
<1>2. ASSUME ConfirmLeave PROVE IInv'
  <2>1. pending \in Weeks /\ GoTo(pending) /\ UNCHANGED shown
    BY <1>2 DEF ConfirmLeave, Types, WeekOrNone
  <2>2. /\ excuse' \subseteq {"edits", "entries"}
        /\ "entries" \in excuse => "entries" \in excuse'
        /\ edits' # NoEdits => "edits" \in excuse'
    BY <1>2 DEF ConfirmLeave, Types
  <2>3. /\ week' \in Weeks /\ load' \in [Loads -> LoadRecord] /\ save' \in [Saves -> SaveRecord]
        /\ edits' \in Cells /\ LoadsInView' /\ SavesInView'
    BY <2>1, GoToStep
  <2>4. pending' = None /\ dirty' = FALSE
    BY <1>2 DEF ConfirmLeave
  <2>5. UNCHANGED <<loaded, entries, weekClosed, loadError>>
    BY <2>1 DEF shown
  <2>6. Types'
    BY <2>2, <2>3, <2>4, <2>5 DEF Types, WeekOrNone
  <2>7. ShownIsLoaded'
    BY <2>2, <2>5 DEF ShownIsLoaded
  <2>8. LossIsAsked'
    BY <2>2 DEF LossIsAsked
  <2>9. QED
    BY <2>3, <2>6, <2>7, <2>8
<1>3. CASE CancelLeave
  BY <1>3 DEF CancelLeave, Types, LoadsInView, Current, loading, SavesInView, ShownIsLoaded,
              LossIsAsked, shown, WeekOrNone
<1>4. QED
  BY <1>1, <1>2, <1>3 DEF Leaves

LEMMA LoadStep ==
    ASSUME IInv, NEW f \in Loads, FillOver(f) \/ LoadAnswers(f) \/ LoadFails(f)
    PROVE  IInv'
<1> USE DEF IInv
<1>1. load[f] \in LoadRecord
  BY DEF Types
<1>2. CASE FillOver(f)
  <2>1. /\ load' = [load EXCEPT ![f] = [load[f] EXCEPT !.phase = "reading"]]
        /\ load[f].phase # "idle"
        /\ UNCHANGED <<week, shown, typed, save, excuse>>
    BY <1>2 DEF FillOver
  <2>2. /\ load' \in [Loads -> LoadRecord]
        /\ \A g \in Loads : /\ load'[g].week = load[g].week
                            /\ load'[g].cancelled = load[g].cancelled
                            /\ (load'[g].phase = "idle") = (load[g].phase = "idle")
    BY <1>1, <2>1, Records DEF Types, LoadRecord
  <2>3. Types'
    BY <2>1, <2>2 DEF Types, shown, typed
  <2>4. LoadsInView'
    BY <2>1, <2>2 DEF LoadsInView, Current, loading, shown
  <2>5. QED
    BY <2>1, <2>3, <2>4 DEF SavesInView, ShownIsLoaded, LossIsAsked, shown, typed
<1>3. CASE LoadAnswers(f) \/ LoadFails(f)
  <2>1. /\ load[f].phase # "idle"
        /\ load' = [load EXCEPT ![f] = NoLoad]
        /\ UNCHANGED <<week, typed, save>>
    BY <1>3 DEF LoadAnswers, LoadFails
  <2>2. /\ load' \in [Loads -> LoadRecord]
        /\ load'[f].phase = "idle"
        /\ \A g \in Loads \ {f} : load'[g] = load[g]
    BY <2>1, Records DEF Types
  <2>3. CASE ~Current(f)
    <3>1. UNCHANGED <<shown, excuse>>
      BY <1>3, <2>3 DEF LoadAnswers, LoadFails, shown
    <3>2. LoadsInView'
      BY <2>1, <2>2, <2>3, <3>1 DEF LoadsInView, Current, loading, shown
    <3>3. QED
      BY <2>1, <2>2, <3>1, <3>2 DEF Types, SavesInView, ShownIsLoaded, LossIsAsked, shown, typed
  <2>4. CASE Current(f)
    <3>1. load[f].week = week
      BY <2>1, <2>4 DEF LoadsInView
    <3>2. loaded' = week /\ week' = week
      BY <1>3, <2>1, <2>4, <3>1 DEF LoadAnswers, LoadFails, LoadedAnyway
    <3>3. LoadsInView'
      BY <2>2, <3>2 DEF LoadsInView, Current, loading
    <3>4. SavesInView'
      BY <2>1, <3>2 DEF SavesInView
    <3>5. LossIsAsked'
      BY <1>3, <2>1, <2>4 DEF LossIsAsked, typed, LoadAnswers, LoadFails
    <3>6. Types' /\ ShownIsLoaded'
      <4>1. CASE LoadAnswers(f)
        <5>1. PICK h \in [Lines -> Hours] : entries' = [week |-> load[f].week, hours |-> h]
          BY <2>4, <4>1 DEF LoadAnswers
        <5>2. /\ weekClosed' \in BOOLEAN /\ loadError' = FALSE
              /\ excuse' = excuse \ {"entries"}
          BY <2>4, <4>1 DEF LoadAnswers
        <5>3. entries' \in [week : WeekOrNone, hours : [Lines -> Hours]] /\ entries'.week = week
          BY <3>1, <5>1 DEF Types, WeekOrNone
        <5>4. QED
          BY <2>1, <2>2, <3>2, <5>2, <5>3 DEF Types, ShownIsLoaded, typed, WeekOrNone
      <4>2. CASE LoadFails(f)
        BY <2>1, <2>2, <2>4, <3>2, <4>2 DEF LoadFails, Types, ShownIsLoaded, typed, WeekOrNone
      <4>3. QED
        BY <1>3, <4>1, <4>2
    <3>7. QED
      BY <3>3, <3>4, <3>5, <3>6
  <2>5. QED
    BY <2>3, <2>4
<1>4. QED
  BY <1>2, <1>3

LEMMA TypeStep ==
    ASSUME IInv, NEW l \in Lines, NEW h \in Hours, Type(l, h)
    PROVE  IInv'
<1> USE DEF IInv
<1>1. edits' \in Cells
  BY TypedCells DEF Type, Types
<1>2. QED
  BY <1>1 DEF Type, Types, LoadsInView, Current, loading, SavesInView, ShownIsLoaded, LossIsAsked,
              shown

LEMMA SaveStep ==
    ASSUME IInv, NEW s \in Saves,
           Save(s) \/ SaveAnswered(s) \/ SaveFails(s) \/ RefreshAnswers(s) \/ RefreshFails(s)
    PROVE  IInv'
<1> USE DEF IInv
<1>1. save[s] \in SaveRecord
  BY DEF Types
<1>2. UNCHANGED <<week, load, loaded, pending>>
  BY DEF Save, SaveAnswered, SaveFails, RefreshAnswers, RefreshFails, shown, typed
<1>3. LoadsInView'
  BY <1>2 DEF LoadsInView, Current, loading
<1>4. CASE Save(s)
  <2>1. /\ save' \in [Saves -> SaveRecord]
        /\ save'[s].week = week /\ loaded = week
        /\ \A q \in Saves \ {s} : save'[q] = save[q]
    BY <1>4, Records DEF Save, Types, loading
  <2>2. SavesInView'
    BY <1>2, <2>1 DEF SavesInView
  <2>3. QED
    BY <1>2, <1>3, <1>4, <2>1, <2>2 DEF Save, DirtyWhileSaving, Types, ShownIsLoaded, LossIsAsked,
                                        shown
<1>5. CASE SaveAnswered(s)
  <2>1. save' = [save EXCEPT ![s] = [save[s] EXCEPT !.phase = "refreshing"]]
    BY <1>5 DEF SaveAnswered
  <2>2. /\ save' \in [Saves -> SaveRecord]
        /\ save'[s].week = save[s].week /\ save'[s].mine = save[s].mine
        /\ save[s].phase # "idle"
        /\ \A q \in Saves \ {s} : save'[q] = save[q]
    <3> DEFINE r == [save[s] EXCEPT !.phase = "refreshing"]
    <3>1. r \in SaveRecord /\ r.week = save[s].week /\ r.mine = save[s].mine
      BY <1>1 DEF SaveRecord
    <3>2. save' = [save EXCEPT ![s] = r]
      BY <2>1
    <3>3. save[s].phase # "idle"
      BY <1>5 DEF SaveAnswered
    <3> HIDE DEF r
    <3>4. QED
      BY <3>1, <3>2, <3>3 DEF Types
  <2>3. SavesInView'
    BY <1>2, <2>2 DEF SavesInView
  <2>4. /\ edits' \in Cells /\ dirty' = FALSE
        /\ excuse' \subseteq {"edits", "entries"}
        /\ "entries" \in excuse => "entries" \in excuse'
        /\ edits' # NoEdits => "edits" \in excuse'
    BY <1>5, NoCells DEF SaveAnswered, Types
  <2>5. QED
    BY <1>2, <1>3, <1>5, <2>2, <2>3, <2>4 DEF SaveAnswered, Types, ShownIsLoaded, LossIsAsked, shown
<1>6. CASE SaveFails(s) \/ RefreshAnswers(s) \/ RefreshFails(s)
  <2>1. save' = [save EXCEPT ![s] = NoSave] /\ UNCHANGED typed
    BY <1>6 DEF SaveFails, RefreshAnswers, RefreshFails
  <2>2. /\ save' \in [Saves -> SaveRecord]
        /\ save'[s].phase = "idle"
        /\ \A q \in Saves \ {s} : save'[q] = save[q]
    BY <2>1, Records DEF Types
  <2>3. SavesInView'
    BY <1>2, <2>2 DEF SavesInView
  <2>4. LossIsAsked'
    BY <1>6, <2>1 DEF SaveFails, RefreshAnswers, RefreshFails, LossIsAsked, typed
  <2>5. Types' /\ ShownIsLoaded'
    <3>1. CASE SaveFails(s)
      BY <1>2, <2>1, <2>2, <3>1 DEF SaveFails, Types, ShownIsLoaded, shown, typed
    <3>2. CASE RefreshAnswers(s)
      <4>1. PICK h \in [Lines -> Hours] : entries' = [week |-> save[s].week, hours |-> h]
        BY <3>2 DEF RefreshAnswers
      <4>2. entries' \in [week : WeekOrNone, hours : [Lines -> Hours]]
            /\ entries'.week = save[s].week
        BY <1>1, <4>1 DEF SaveRecord
      <4>3. save[s].mine => save[s].week = loaded
        BY <3>2 DEF RefreshAnswers, SavesInView
      <4>4. /\ weekClosed' \in BOOLEAN /\ loadError' = FALSE
            /\ excuse' \subseteq {"edits", "entries"}
            /\ ~save[s].mine => "entries" \in excuse'
        BY <3>2 DEF RefreshAnswers, Types
      <4>5. QED
        BY <1>2, <2>1, <2>2, <4>2, <4>3, <4>4 DEF Types, ShownIsLoaded, typed
    <3>3. CASE RefreshFails(s)
      BY <1>2, <2>1, <2>2, <3>3 DEF RefreshFails, Types, ShownIsLoaded, typed
    <3>4. QED
      BY <1>6, <3>1, <3>2, <3>3
  <2>6. QED
    BY <1>3, <2>3, <2>4, <2>5
<1>7. QED
  BY <1>4, <1>5, <1>6

LEMMA InvStep == IInv /\ [Next]_vars => IInv'
<1> SUFFICES ASSUME IInv, [Next]_vars PROVE IInv'
  OBVIOUS
<1>1. CASE UNCHANGED vars
  BY <1>1 DEF vars, shown, typed, IInv, Types, LoadsInView, Current, loading, SavesInView,
              ShownIsLoaded, LossIsAsked
<1>2. CASE Next
  BY <1>2, LeaveStep, LoadStep, TypeStep, SaveStep DEF Next
<1>3. QED
  BY <1>1, <1>2

LEMMA Invariant == Spec => []IInv
<1>1. Safety => []IInv
  BY InvInit, InvStep, PTL DEF Safety
<1>2. QED
  BY <1>1, SpecIsSafe, PTL

-----------------------------------------------------------------------------

\* Every variable has its type, and a week that is not loaded is on its way.
THEOREM TypeCorrect == Spec => []TypeOK
<1>1. IInv => TypeOK
  BY DEF IInv, Types, LoadsInView, TypeOK
<1>2. QED
  BY <1>1, Invariant, PTL

\* The page knows of every hour that is not saved, but for the two excuses that
\* LossIsAsked names.
THEOREM NothingSilentlyLost == Spec => []LossIsAsked
<1>1. IInv => LossIsAsked
  BY DEF IInv
<1>2. QED
  BY <1>1, Invariant, PTL

\* The sheet on the screen is the one its title names, unless it is loading,
\* shows an error, or was overtaken by the refresh after a save.
THEOREM TitleAndSheetAgree == Spec => []WeekShown
<1>1. IInv => WeekShown
  BY DEF IInv, ShownIsLoaded, WeekShown, loading
<1>2. QED
  BY <1>1, Invariant, PTL
=============================================================================

-------------------------- MODULE TimesheetsProofs --------------------------
(***************************************************************************)
(* Theorems of Timesheets for any number of weeks, lines, fills and saves. *)
(***************************************************************************)
EXTENDS Timesheets, TLAPS

Filled(rs) == \E row \in rs : row.filled

AtMostOneFilled(rs) == \A row, other \in rs : row.filled /\ other.filled => row = other

-----------------------------------------------------------------------------
(* What a write does to the rows of a line.                                *)

\* A key that is free is one nobody uses.
LEMMA NewKeyIsFree ==
    ASSUME NEW w, NEW l, FreeKeys(w, l) # {}
    PROVE  /\ NewKey(w, l) \in Keys
           /\ \A row \in rows[w][l] : row.id # NewKey(w, l)
  BY DEF NewKey, FreeKeys

\* After a cell was applied every row has its type, and a filled row stands for
\* one that was filled before: what is new nobody filled.
LEMMA AppliedRows ==
    ASSUME NEW rs \in SUBSET Row, NEW h \in Hours \cup {0}, NEW k \in Keys
    PROVE  /\ Applied(rs, h, k) \in SUBSET Row
           /\ Filled(Applied(rs, h, k)) => Filled(rs)
           /\ AtMostOneFilled(rs) => AtMostOneFilled(Applied(rs, h, k))
<1>1. CASE h = 0
  BY <1>1 DEF Applied, Filled, AtMostOneFilled
<1>2. CASE h # 0
  <2> DEFINE was == \E row \in rs : row.id = k /\ row.filled
             new == [id |-> k, hours |-> h, filled |-> was]
  <2>1. new \in Row /\ new.filled = was
    BY <1>2 DEF Row
  <2>2. Applied(rs, h, k) = {row \in rs : row.id # k} \cup {new}
    BY <1>2 DEF Applied
  <2> HIDE DEF new
  <2>3. QED
    BY <2>1, <2>2 DEF Filled, AtMostOneFilled
<1>3. QED
  BY <1>1, <1>2

\* A fill writes where no row was filled.
LEMMA AgreedRows ==
    ASSUME NEW rs \in SUBSET Row, NEW k \in Keys
    PROVE  /\ rs \cup {Agreed(k)} \in SUBSET Row
           /\ ~Filled(rs) => AtMostOneFilled(rs \cup {Agreed(k)})
<1>1. Agreed(k) \in Row
  BY TimesheetsAssumption DEF Agreed, Row
<1>2. QED
  BY <1>1 DEF Filled, AtMostOneFilled

-----------------------------------------------------------------------------
(* The inductive invariant.                                                *)

Types == /\ rows \in [Weeks -> [Lines -> SUBSET Row]]
         /\ closed \subseteq Reported
         /\ fill \in [Fills -> FillRecord]
         /\ save \in [Saves -> SaveRecord]

\* One fill at a time holds the agreement, and what it saw of the week's
\* filled rows is still so.
OneHolder == /\ \A f, g \in Fills : fill[f].phase = "locked" /\ fill[g].phase = "locked" => f = g
             /\ \A f \in Fills : fill[f].phase = "locked" /\ ~fill[f].taken =>
                                     ~Filled(rows[fill[f].week][Contract])

OneFilled == \A w \in Weeks : AtMostOneFilled(rows[w][Contract])

\* A transaction that is about to write in a closed week was overtaken, or
\* has nothing to write.
Overtaken ==
    /\ \A f \in Fills : /\ fill[f].phase \in {"open", "locked"}
                        /\ fill[f].week \in closed
                        => fill[f].late
    /\ \A s \in Saves : /\ save[s].phase = "judged"
                        /\ save[s].week \in closed
                        /\ ~save[s].late
                        => \A l \in DOMAIN save[s].cells :
                               save[s].cells[l] = 0 /\ l \notin DOMAIN save[s].found

IInv == Types /\ OneHolder /\ OneFilled /\ Overtaken

LEMMA Records ==
    /\ NoFill \in FillRecord /\ NoFill.phase = "idle"
    /\ \A w \in Weeks : /\ FillFor(w) \in FillRecord
                        /\ FillFor(w).phase = "sent" /\ FillFor(w).week = w
    /\ NoSave \in SaveRecord /\ NoSave.phase = "idle"
    /\ \A w \in Weeks, cells \in Cells : /\ SaveFor(w, cells) \in SaveRecord
                                         /\ SaveFor(w, cells).phase = "sent"
<1>1. SomeWeek \in Weeks
  BY TimesheetsAssumption DEF SomeWeek
<1>2. NoCells \in Cells /\ NoneFound \in Found
  <2>1. NoCells \in [{} -> Hours \cup {0}]
    BY DEF NoCells
  <2>2. NoneFound \in [{} -> Keys]
    BY DEF NoneFound
  <2>3. QED
    BY <2>1, <2>2 DEF Cells, Found
<1>3. NoFill \in FillRecord /\ NoFill.phase = "idle"
  BY <1>1 DEF NoFill, FillRecord
<1>4. \A w \in Weeks : /\ FillFor(w) \in FillRecord
                       /\ FillFor(w).phase = "sent" /\ FillFor(w).week = w
  BY <1>1 DEF NoFill, FillFor, FillRecord
<1>5. /\ NoSave \in SaveRecord /\ NoSave.phase = "idle"
  BY <1>1, <1>2 DEF NoSave, SaveRecord
<1>6. \A w \in Weeks, cells \in Cells : /\ SaveFor(w, cells) \in SaveRecord
                                        /\ SaveFor(w, cells).phase = "sent"
  BY <1>1, <1>2 DEF NoSave, SaveFor, SaveRecord
<1>7. QED
  BY <1>3, <1>4, <1>5, <1>6

LEMMA Cell == ASSUME NEW cells \in Cells
              PROVE  /\ DOMAIN cells \subseteq Lines
                     /\ \A l \in DOMAIN cells : cells[l] \in Hours \cup {0}
<1>1. PICK D \in SUBSET Lines : cells \in [D -> Hours \cup {0}]
  BY DEF Cells
<1>2. QED
  BY <1>1

LEMMA FoundKey == ASSUME NEW found \in Found, NEW l \in DOMAIN found
                  PROVE  found[l] \in Keys
<1>1. PICK D \in SUBSET Lines : found \in [D -> Keys]
  BY DEF Found
<1>2. QED
  BY <1>1

LEMMA InvInit == TSInit => IInv
<1> SUFFICES ASSUME TSInit PROVE IInv
  OBVIOUS
<1>1. Types
  BY Records DEF TSInit, Types
<1>2. OneHolder /\ Overtaken
  BY Records DEF TSInit, OneHolder, Overtaken
<1>3. OneFilled
  BY TimesheetsAssumption DEF TSInit, OneFilled, AtMostOneFilled, Lines
<1>4. QED
  BY <1>1, <1>2, <1>3 DEF IInv

-----------------------------------------------------------------------------
(* The fill transactions leave the invariant.                              *)

LEMMA FillStep ==
    ASSUME IInv, NEW f \in Fills,
           \/ \E w \in Weeks : FillSent(f, w)
           \/ FillLooks(f) \/ FillLocks(f) \/ FillCommits(f) \/ FillDies(f)
    PROVE  IInv'
<1> USE DEF IInv
<1>1. ASSUME NEW w \in Weeks, FillSent(f, w) PROVE IInv'
  <2>1. Types'
    BY <1>1, Records DEF FillSent, Types
  <2>2. OneHolder' /\ OneFilled' /\ Overtaken'
    BY <1>1, Records DEF FillSent, Types, OneHolder, OneFilled, Overtaken
  <2>3. QED
    BY <2>1, <2>2
<1>2. ASSUME FillLooks(f) PROVE IInv'
  <2>1. /\ fill[f] \in FillRecord /\ [fill[f] EXCEPT !.phase = "open"] \in FillRecord
        /\ [fill[f] EXCEPT !.phase = "open"].phase = "open"
        /\ [fill[f] EXCEPT !.phase = "open"].week = fill[f].week
    BY DEF Types, FillRecord
  <2>2. Types'
    BY <1>2, <2>1, Records DEF FillLooks, Types
  <2>3. OneHolder' /\ OneFilled' /\ Overtaken'
    BY <1>2, <2>1, Records DEF FillLooks, Types, OneHolder, OneFilled, Overtaken
  <2>4. QED
    BY <2>2, <2>3
<1>3. ASSUME FillLocks(f) PROVE IInv'
  <2> DEFINE full == \E l \in Lines : rows[fill[f].week][l] # {}
             r == [fill[f] EXCEPT !.phase = "locked", !.taken = full]
  <2>1. /\ fill[f] \in FillRecord /\ r \in FillRecord
        /\ r.phase = "locked" /\ r.week = fill[f].week
        /\ r.taken = full /\ r.late = fill[f].late
    BY DEF Types, FillRecord
  <2>2. fill' = [fill EXCEPT ![f] = r] /\ UNCHANGED <<rows, closed, save>>
    BY <1>3 DEF FillLocks
  <2>3. ~full => ~Filled(rows[fill[f].week][Contract])
    BY DEF Filled, Lines
  <2> HIDE DEF full, r
  <2>4. Types'
    BY <2>1, <2>2 DEF Types
  <2>5. OneHolder'
    BY ZenonT(60), <1>3, <2>1, <2>2, <2>3 DEF FillLocks, LockFree, Types, OneHolder
  <2>6. OneFilled' /\ Overtaken'
    BY <1>3, <2>1, <2>2 DEF FillLocks, Types, OneFilled, Overtaken
  <2>7. QED
    BY <2>4, <2>5, <2>6
<1>4. ASSUME FillCommits(f) PROVE IInv'
  <2> DEFINE w == fill[f].week
             rs == rows[w][Contract]
             new == rs \cup {Agreed(NewKey(w, Contract))}
  <2>1. w \in Weeks /\ Contract \in Lines /\ rs \in SUBSET Row
    BY DEF Types, FillRecord, Lines
  <2>2. new \in SUBSET Row /\ (~Filled(rs) => AtMostOneFilled(new))
    BY <1>4, <2>1, NewKeyIsFree, AgreedRows DEF FillCommits
  <2>3. rows' = rows \/ rows' = [rows EXCEPT ![w][Contract] = new]
    BY <1>4 DEF FillCommits
  <2>4. Types'
    BY <1>4, <2>1, <2>2, <2>3, Records DEF FillCommits, Types
  <2>5. OneHolder'
    BY <1>4, <2>1, Records DEF FillCommits, Types, OneHolder
  <2>6. ~fill[f].taken => AtMostOneFilled(new)
    BY <1>4, <2>2 DEF FillCommits, OneHolder
  <2>7. OneFilled'
    <3>1. CASE fill[f].taken
      BY <1>4, <3>1 DEF FillCommits, OneFilled
    <3>2. CASE ~fill[f].taken
      <4>1. rows' = [rows EXCEPT ![w] = [rows[w] EXCEPT ![Contract] = new]]
        BY <1>4, <3>2 DEF FillCommits
      <4>2. ASSUME NEW v \in Weeks
            PROVE  rows'[v][Contract] = IF v = w THEN new ELSE rows[v][Contract]
        BY <4>1, <2>1 DEF Types
      <4>3. QED
        BY <3>2, <4>2, <2>6 DEF OneFilled
    <3>3. QED
      BY <3>1, <3>2
  <2>8. Overtaken'
    BY <1>4, Records DEF FillCommits, Types, Overtaken
  <2>9. QED
    BY <2>4, <2>5, <2>7, <2>8
<1>5. ASSUME FillDies(f) PROVE IInv'
  <2>1. Types'
    BY <1>5, Records DEF FillDies, Types
  <2>2. OneHolder' /\ OneFilled' /\ Overtaken'
    BY <1>5, Records DEF FillDies, Types, OneHolder, OneFilled, Overtaken
  <2>3. QED
    BY <2>1, <2>2
<1>6. QED
  BY <1>1, <1>2, <1>3, <1>4, <1>5

-----------------------------------------------------------------------------
(* So do the saves.                                                        *)

\* The rows of one line after a save.
LEMMA SavedLine ==
    ASSUME IInv, NEW s \in Saves, NEW l \in Lines,
           \A c \in DOMAIN save[s].cells : FreeKeys(save[s].week, c) # {}
    PROVE  LET rs == rows[save[s].week][l]
           IN  /\ SavedRows(s)[l] \in SUBSET Row
               /\ Filled(SavedRows(s)[l]) => Filled(rs)
               /\ AtMostOneFilled(rs) => AtMostOneFilled(SavedRows(s)[l])
<1>1. /\ save[s].week \in Weeks /\ save[s].cells \in Cells /\ save[s].found \in Found
      /\ rows[save[s].week][l] \in SUBSET Row
  BY DEF IInv, Types, SaveRecord
<1>2. CASE l \notin DOMAIN save[s].cells
  BY <1>1, <1>2 DEF SavedRows
<1>3. CASE l \in DOMAIN save[s].cells
  <2>1. save[s].cells[l] \in Hours \cup {0}
    BY <1>1, <1>3, Cell
  <2>2. KeyFor(s, l) \in Keys
    BY <1>1, <1>3, NewKeyIsFree, FoundKey DEF KeyFor
  <2>3. SavedRows(s)[l] = Applied(rows[save[s].week][l], save[s].cells[l], KeyFor(s, l))
    BY <1>3 DEF SavedRows
  <2>4. QED
    BY <1>1, <2>1, <2>2, <2>3, AppliedRows
<1>4. QED
  BY <1>2, <1>3

LEMMA SaveStep ==
    ASSUME IInv, NEW s \in Saves,
           \/ \E w \in Weeks, cells \in Cells : SaveSent(s, w, cells)
           \/ SaveJudged(s) \/ SaveApplied(s) \/ SaveDies(s)
    PROVE  IInv'
<1> USE DEF IInv
<1>1. ASSUME NEW w \in Weeks, NEW cells \in Cells, SaveSent(s, w, cells) PROVE IInv'
  <2>1. Types'
    BY <1>1, Records DEF SaveSent, Types
  <2>2. OneHolder' /\ OneFilled' /\ Overtaken'
    BY <1>1, Records DEF SaveSent, Types, OneHolder, OneFilled, Overtaken
  <2>3. QED
    BY <2>1, <2>2
<1>2. ASSUME SaveJudged(s), Refuses(s) PROVE IInv'
  <2>1. save' = [save EXCEPT ![s] = NoSave] /\ UNCHANGED <<rows, closed, fill>>
    BY <1>2 DEF SaveJudged
  <2>2. QED
    BY <2>1, Records DEF Types, OneHolder, OneFilled, Overtaken
<1>3. ASSUME SaveJudged(s), ~Refuses(s) PROVE IInv'
  <2>1. PICK found \in Lookups(s) :
            save' = [save EXCEPT ![s] = [save[s] EXCEPT !.phase = "judged", !.found = found]]
    BY <1>3 DEF SaveJudged
  <2> DEFINE r == [save[s] EXCEPT !.phase = "judged", !.found = found]
             lines == {l \in DOMAIN save[s].cells : rows[save[s].week][l] # {}}
  <2>2. save[s] \in SaveRecord /\ save[s].cells \in Cells
    BY DEF Types, SaveRecord
  <2>3. lines \in SUBSET Lines /\ found \in [lines -> Keys]
    BY <2>2, Cell DEF Lookups
  <2>4. found \in Found /\ DOMAIN found = lines
    BY <2>3 DEF Found
  <2>5. /\ r \in SaveRecord
        /\ r.phase = "judged" /\ r.week = save[s].week /\ r.cells = save[s].cells
        /\ r.late = save[s].late /\ r.found = found
    BY <2>2, <2>4 DEF SaveRecord
  <2>6. \/ save[s].week \notin closed
        \/ \A l \in DOMAIN save[s].cells : save[s].cells[l] = 0 /\ l \notin lines
    BY <1>3 DEF Refuses
  <2>7. save' = [save EXCEPT ![s] = r] /\ UNCHANGED <<rows, closed, fill>>
    BY <1>3, <2>1 DEF SaveJudged
  <2> HIDE DEF r, lines
  <2>8. Types'
    BY <2>5, <2>7 DEF Types
  <2>9. OneHolder' /\ OneFilled'
    BY <2>7 DEF OneHolder, OneFilled
  <2>10. Overtaken'
    <3>1. \A f \in Fills : /\ fill'[f].phase \in {"open", "locked"}
                           /\ fill'[f].week \in closed'
                           => fill'[f].late
      BY <2>7 DEF Overtaken
    <3>2. ASSUME NEW q \in Saves, q # s PROVE save'[q] = save[q]
      BY <2>7, <3>2 DEF Types
    <3>3. save'[s] = r
      BY <2>7 DEF Types
    <3>4. QED
      BY <2>4, <2>5, <2>6, <2>7, <3>1, <3>2, <3>3 DEF Overtaken
  <2>11. QED
    BY <2>8, <2>9, <2>10
<1>4. ASSUME SaveApplied(s) PROVE IInv'
  <2> DEFINE w == save[s].week
  <2>1. w \in Weeks /\ Contract \in Lines
    BY DEF Types, SaveRecord, Lines
  <2>2. /\ rows' = [rows EXCEPT ![w] = SavedRows(s)] /\ UNCHANGED <<closed, fill>>
        /\ \A l \in DOMAIN save[s].cells : FreeKeys(w, l) # {}
    BY <1>4 DEF SaveApplied
  <2>3. SavedRows(s) \in [Lines -> SUBSET Row]
    <3>1. \A l \in Lines : SavedRows(s)[l] \in SUBSET Row
      BY <2>2, SavedLine
    <3>2. QED
      BY <3>1 DEF SavedRows
  <2>4. Types'
    BY <1>4, <2>1, <2>2, <2>3, Records DEF Types, SaveApplied
  <2>5. ASSUME NEW v \in Weeks
        PROVE  /\ Filled(rows'[v][Contract]) => Filled(rows[v][Contract])
               /\ AtMostOneFilled(rows[v][Contract]) => AtMostOneFilled(rows'[v][Contract])
    <3>1. CASE v # w
      BY <2>2, <3>1 DEF Types
    <3>2. CASE v = w
      <4>1. rows'[v] = SavedRows(s)
        BY <2>1, <2>2, <3>2 DEF Types
      <4>2. QED
        BY <2>1, <2>2, <3>2, <4>1, SavedLine
    <3>3. QED
      BY <3>1, <3>2
  <2>6. OneFilled'
    BY <2>5 DEF OneFilled
  <2>7. OneHolder'
    <3>1. ASSUME NEW f \in Fills, fill'[f].phase = "locked", ~fill'[f].taken
          PROVE  ~Filled(rows'[fill'[f].week][Contract])
      <4>1. fill[f].week \in Weeks
        BY DEF Types, FillRecord
      <4>2. QED
        BY <2>2, <2>5, <3>1, <4>1 DEF OneHolder
    <3>2. QED
      BY <2>2, <3>1 DEF OneHolder
  <2>8. Overtaken'
    BY <1>4, <2>2, Records DEF Overtaken, SaveApplied, Types
  <2>9. QED
    BY <2>4, <2>6, <2>7, <2>8
<1>5. ASSUME SaveDies(s) PROVE IInv'
  <2>1. Types'
    BY <1>5, Records DEF SaveDies, Types
  <2>2. OneHolder' /\ OneFilled' /\ Overtaken'
    BY <1>5, Records DEF SaveDies, Types, OneHolder, OneFilled, Overtaken
  <2>3. QED
    BY <2>1, <2>2
<1>6. QED
  BY <1>1, <1>2, <1>3, <1>4, <1>5

-----------------------------------------------------------------------------
(* And so does the manager.                                                *)

LEMMA ManagerStep ==
    ASSUME IInv, NEW w \in Weeks, CloseWeek(w) \/ ReopenWeek(w)
    PROVE  IInv'
<1> USE DEF IInv
<1>1. CASE CloseWeek(w)
  <2> DEFINE F(f) == [fill[f] EXCEPT !.late = @ \/ (/\ fill[f].week = w
                                                   /\ fill[f].phase \in {"open", "locked"})]
             S(s) == [save[s] EXCEPT !.late = @ \/ (/\ save[s].week = w
                                                   /\ save[s].phase = "judged")]
  <2>1. ASSUME NEW f \in Fills
        PROVE  /\ F(f) \in FillRecord /\ F(f).phase = fill[f].phase /\ F(f).week = fill[f].week
               /\ F(f).taken = fill[f].taken
               /\ fill[f].late => F(f).late
               /\ fill[f].week = w /\ fill[f].phase \in {"open", "locked"} => F(f).late
    BY DEF Types, FillRecord
  <2>2. ASSUME NEW s \in Saves
        PROVE  /\ S(s) \in SaveRecord /\ S(s).phase = save[s].phase /\ S(s).week = save[s].week
               /\ S(s).cells = save[s].cells /\ S(s).found = save[s].found
               /\ save[s].late => S(s).late
               /\ save[s].week = w /\ save[s].phase = "judged" => S(s).late
    BY DEF Types, SaveRecord
  <2>3. /\ \A f \in Fills : fill'[f] = F(f)
        /\ \A s \in Saves : save'[s] = S(s)
        /\ closed' = closed \cup {w} /\ rows' = rows
    BY <1>1 DEF CloseWeek
  <2>4. fill' = [f \in Fills |-> F(f)] /\ save' = [s \in Saves |-> S(s)]
    BY <1>1 DEF CloseWeek
  <2> HIDE DEF F, S
  <2>5. Types'
    <3>1. closed' \subseteq Reported /\ rows' \in [Weeks -> [Lines -> SUBSET Row]]
      BY <1>1, <2>3 DEF Types, CloseWeek
    <3>2. fill' \in [Fills -> FillRecord]
      BY <2>1, <2>4
    <3>3. save' \in [Saves -> SaveRecord]
      BY <2>2, <2>4
    <3>4. QED
      BY <3>1, <3>2, <3>3 DEF Types
  <2>6. OneHolder' /\ OneFilled'
    BY <2>1, <2>3 DEF OneHolder, OneFilled
  <2>7. Overtaken'
    <3>1. ASSUME NEW f \in Fills, fill'[f].phase \in {"open", "locked"}, fill'[f].week \in closed'
          PROVE  fill'[f].late
      BY <2>1, <2>3, <3>1 DEF Overtaken
    <3>2. ASSUME NEW s \in Saves, save'[s].phase = "judged", save'[s].week \in closed',
                 ~save'[s].late
          PROVE  \A l \in DOMAIN save'[s].cells : save'[s].cells[l] = 0 /\ l \notin DOMAIN save'[s].found
      BY <2>2, <2>3, <3>2 DEF Overtaken
    <3>3. QED
      BY <3>1, <3>2 DEF Overtaken
  <2>8. QED
    BY <2>5, <2>6, <2>7
<1>2. CASE ReopenWeek(w)
  BY <1>2 DEF ReopenWeek, Types, OneHolder, OneFilled, Overtaken
<1>3. QED
  BY <1>1, <1>2

LEMMA InvStep == IInv /\ [TSNext]_tsVars => IInv'
<1> SUFFICES ASSUME IInv, [TSNext]_tsVars PROVE IInv'
  OBVIOUS
<1>1. CASE UNCHANGED tsVars
  BY <1>1 DEF tsVars, IInv, Types, OneHolder, OneFilled, Overtaken
<1>2. CASE TSNext
  BY <1>2, FillStep, SaveStep, ManagerStep DEF TSNext, TSStep
<1>3. QED
  BY <1>1, <1>2

-----------------------------------------------------------------------------

LEMMA Invariant == TSSpec => []IInv
  BY InvInit, InvStep, PTL DEF TSSpec

\* Every variable has its type, and the agreement has one holder.
THEOREM TypeCorrect == TSSpec => []TypeOK
<1>1. IInv => TypeOK
  BY DEF IInv, Types, OneHolder, Filled, TypeOK
<1>2. QED
  BY <1>1, Invariant, PTL

\* Fills of one week, however many and however they overlap, write it once.
THEOREM NeverFilledTwice == TSSpec => []FilledOnce
<1>1. IInv => FilledOnce
  BY DEF IInv, OneFilled, AtMostOneFilled, FilledOnce
<1>2. QED
  BY <1>1, Invariant, PTL

\* What a manager reported does not change: only a transaction that was
\* overtaken by the close still writes in the week.
THEOREM ClosedWeeksStay == TSSpec => ClosedWeekFrozen
<1>1. ASSUME IInv, [TSNext]_tsVars, NEW w \in closed, rows'[w] # rows[w]
      PROVE  \/ \E f \in Fills : fill[f].week = w /\ fill[f].late
             \/ \E s \in Saves : save[s].week = w /\ save[s].late
  <2> USE DEF IInv
  <2>0. w \in Weeks
    BY <1>1, TimesheetsAssumption DEF Types
  <2>1. ASSUME NEW f \in Fills, FillCommits(f) PROVE fill[f].week = w /\ fill[f].late
    <3>1. fill[f].week \in Weeks
      BY <1>1 DEF Types, FillRecord
    <3>2. fill[f].week = w
      BY <1>1, <2>0, <2>1, <3>1 DEF FillCommits, Types
    <3>3. QED
      BY <1>1, <2>1, <3>2 DEF FillCommits, Overtaken
  <2>2. ASSUME NEW s \in Saves, SaveApplied(s) PROVE save[s].week = w /\ save[s].late
    <3>1. save[s].week \in Weeks
      BY <1>1 DEF Types, SaveRecord
    <3>2. save[s].week = w /\ rows'[w] = SavedRows(s)
      BY <1>1, <2>0, <2>2, <3>1 DEF SaveApplied, Types
    <3>3. SUFFICES ASSUME ~save[s].late PROVE rows'[w] = rows[w]
      BY <1>1, <3>2
    <3>4. \A l \in DOMAIN save[s].cells : save[s].cells[l] = 0 /\ l \notin DOMAIN save[s].found
      BY <1>1, <2>2, <3>2, <3>3 DEF SaveApplied, Overtaken
    <3>5. ASSUME NEW l \in Lines PROVE SavedRows(s)[l] = rows[w][l]
      <4>1. CASE l \in DOMAIN save[s].cells
        <5>1. SavedRows(s)[l] = Applied(rows[w][l], 0, NewKey(w, l))
          BY <3>2, <3>4, <4>1 DEF SavedRows, KeyFor
        <5>2. \A row \in rows[w][l] : row.id # NewKey(w, l)
          BY <2>2, <3>2, <4>1, NewKeyIsFree DEF SaveApplied
        <5>3. QED
          BY <5>1, <5>2 DEF Applied
      <4>2. CASE l \notin DOMAIN save[s].cells
        BY <3>2, <4>2 DEF SavedRows
      <4>3. QED
        BY <4>1, <4>2
    <3>6. QED
      BY <1>1, <2>0, <3>2, <3>5 DEF SavedRows, Types
  <2>3. \/ \E f \in Fills : FillCommits(f)
        \/ \E s \in Saves : SaveApplied(s)
    BY <1>1 DEF TSNext, TSStep, tsVars, FillSent, FillLooks, FillLocks, FillDies, SaveSent,
                SaveJudged, SaveDies, CloseWeek, ReopenWeek
  <2>4. QED
    BY <2>1, <2>2, <2>3
<1>2. IInv /\ [TSNext]_tsVars =>
        [\A w \in closed :
            rows'[w] # rows[w] =>
              \/ \E f \in Fills : fill[f].week = w /\ fill[f].late
              \/ \E s \in Saves : save[s].week = w /\ save[s].late]_tsVars
  BY <1>1
<1>3. QED
  BY <1>2, Invariant, PTL DEF TSSpec, ClosedWeekFrozen
=============================================================================

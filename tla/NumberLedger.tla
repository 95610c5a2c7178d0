----------------------------- MODULE NumberLedger -----------------------------
(***************************************************************************)
(* What gapless invoice numbering promises: for every year an append-only  *)
(* book of documents, a document's number being its place in the book.     *)
(* Nothing is withdrawn, renumbered or back-dated, and no document has two *)
(* numbers.                                                                *)
(***************************************************************************)
EXTENDS Integers, Sequences

CONSTANTS Docs, Years

VARIABLES book, \* the documents of each year in the order of their numbers
          now   \* the year numbers are given out in

Init ==
    /\ book = [y \in Years |-> <<>>]
    /\ now \in {y \in Years : \A z \in Years : y <= z}

InBook(d) == \E y \in Years : \E n \in 1..Len(book[y]) : book[y][n] = d

Number(d) ==
    /\ book' = [book EXCEPT ![now] = Append(@, d)]
    /\ ~InBook(d)
    /\ UNCHANGED now

NewYear ==
    /\ now' \in {y \in Years : y > now}
    /\ UNCHANGED book

Next == NewYear \/ \E d \in Docs : Number(d)

Spec == Init /\ [][Next]_<<book, now>>
=============================================================================

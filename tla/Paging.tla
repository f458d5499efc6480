------------------------------- MODULE Paging -------------------------------
(***************************************************************************)
(* ORDER BY, LIMIT and OFFSET.  Rows that tie in the order come in any     *)
(* order, and in another one each time.                                    *)
(***************************************************************************)
EXTENDS Integers, SequencesExt

\* The orders a statement may return the rows of R in.
Sorted(R, Before(_, _)) ==
  {s \in SetToSeqs(R) : \A m, n \in DOMAIN s : m < n => ~Before(s[n], s[m])}

\* The rows of R on a page, where no two tie.
RowsOnPage(R, first, skip, Before(_, _)) ==
  {r \in R : LET place == Cardinality({q \in R : Before(q, r)})
             IN  skip <= place /\ place < skip + first}

\* What a page may hold: each row has its turn, rows of one turn come in any order (all of
\* them, without ORDER BY), and a page takes the places from skip on.
PagesOf(R, first, skip, turn) ==
  LET place == [r \in R |-> Cardinality({q \in R : turn[q] < turn[r]})]
      tied == [r \in R |-> {q \in R : turn[q] = turn[r]}]
      taken == [r \in R |-> Cardinality((place[r] .. place[r] + Cardinality(tied[r]) - 1)
                                         \cap (skip .. skip + first - 1))]
  IN  {P \in SUBSET R : \A r \in R : Cardinality(P \cap tied[r]) = taken[r]}

Slice(s, first, skip) == SubSeq(s, skip + 1, IF skip + first < Len(s) THEN skip + first ELSE Len(s))
=============================================================================

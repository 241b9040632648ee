----------------------------- MODULE Selection ------------------------------
(* Rows of a sequence, chosen by their places or left out by their value. *)
EXTENDS Naturals, Sequences

(* The rows at these places, in their order. *)
Selected(rows, places) ==
    LET taken[i \in 0..Len(rows)] ==
            IF i = 0 THEN <<>>
            ELSE IF i \in places THEN Append(taken[i - 1], rows[i])
            ELSE taken[i - 1]
    IN  taken[Len(rows)]

Without(rows, gone) == Selected(rows, {i \in 1..Len(rows) : rows[i] \notin gone})

=============================================================================

---------------------------- MODULE MCEnrollment ----------------------------
(* Instances of Enrollment. *)
EXTENDS Enrollment

Of(migrations, ages, crashes) ==
    [migrations |-> migrations, ages |-> ages, crashes |-> crashes]

(* One renewal asked for by the backend, or the installed certificates     *)
(* coming of age, with crashes; never both, see the README.                *)
Renewals == {Of(1, 0, 2), Of(0, 2, 2)}

OneCrash == {Of(1, 0, 1)}
=============================================================================

--------------------------- MODULE MCEventIntake ---------------------------
(* Small instances of EventIntake: a chat c, or two chats c and d. *)
EXTENDS EventIntake

CONSTANTS c, d

NoChat == <<>>
OneChat == <<c>>
TwoChats == <<c, d>>

(* One queue is lost. *)
Loss == [losses |-> 1, changes |-> 0, deletes |-> 0, sends |-> 0, crashes |-> 0, faults |-> 0]
JustLoss == {Loss}
LossAndRestart == {[Loss EXCEPT !.crashes = 1]}
Troubles ==
    {[Loss EXCEPT !.deletes = 1, !.faults = 1], [Loss EXCEPT !.crashes = 1, !.changes = 1],
     [Loss EXCEPT !.sends = 1]}
=============================================================================

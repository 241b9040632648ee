---------------------------- MODULE MCDelivery -----------------------------
(* Instances of Delivery. *)
EXTENDS Delivery

CONSTANTS first, other

(* Two messages of one chat: the first is edited and deleted. *)
OneChat == [m \in Messages |-> CHOOSE c \in Chats : TRUE]
EditAndDelete == <<"message", "message", "update", "delete">>
FirstAndOther == <<first, other, first, first>>
Edit == <<"message", "update">>
OnlyFirst == <<first, first>>
Flags == {1}
Refusals == {<<1, "message">>, <<1, "topic">>}

Of(changes, accounts, crashes, faults) ==
    [changes |-> changes, accounts |-> accounts, crashes |-> crashes, faults |-> faults]
OneChange == {Of(1, 0, 0, 0)}
TwoChangesAndFailure == {Of(2, 0, 0, 1)}
Failures == {Of(0, 0, 1, 1)}
ChangesAndFailures == {Of(1, 0, 1, 1), Of(1, 1, 0, 1), Of(2, 0, 0, 0)}
=============================================================================

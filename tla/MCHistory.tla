----------------------------- MODULE MCHistory -----------------------------
(* Instances of History. *)
EXTENDS History

CONSTANTS w1, w2

Two == {1, 2}

Wish(depths) ==
    [a \in Accounts |-> [selected |-> TRUE, depth |-> depths[a], cursor |-> 1]]
Short == Wish(<<"recent", "recent">>)
Mixed == Wish(<<"all", "recent">>)
Long == Wish(<<"all", "all">>)
Partly == Wish(<<"recent", "new">>)
Unconnected ==
    [a \in Accounts |-> [selected |-> TRUE, depth |-> "recent", cursor |-> 0]]

Of(wish, kinds, changes, renames, crashes, faults) ==
    [wish |-> wish,
     budget |-> [kinds |-> kinds, changes |-> changes, renames |-> renames,
                 crashes |-> crashes, faults |-> faults]]

(* Every kind of change, on its own or with a failure; a rename, with so   *)
(* many failures that the directory pass stops; failures until a capture   *)
(* stops; a restart with a failure over two ranges; a first connection.    *)
Troubles ==
    {Of(Mixed, {"depth"}, 1, 0, 0, 0),
     Of(Short, {"select", "touch", "pause"}, 1, 0, 0, 1),
     Of(Short, {"reset"}, 1, 0, 0, 0),
     Of(Partly, {"reconnect", "queue"}, 1, 0, 0, 0),
     Of(Partly, {"reconnect"}, 1, 0, 0, 1),
     Of(Partly, {}, 0, 1, 0, 2),
     Of(Short, {}, 0, 0, 0, 2),
     Of(Long, {}, 0, 0, 1, 1),
     Of(Unconnected, {}, 0, 0, 0, 0)}

(* The second account's queue is registered after the first reconcile, and *)
(* its chat is deselected before the next.                                 *)
JoinsAndLeaves ==
    {Of([a \in Accounts |-> [selected |-> TRUE, depth |-> "recent", cursor |-> a % 2]],
        {"select"}, 1, 0, 0, 0)}

(* A batch fails for good; before the next reconcile a second account is    *)
(* selected, and its event queue is lost.                                   *)
JoinsAndDrops ==
    {Of([a \in Accounts |-> [selected |-> a = 1, depth |-> "recent", cursor |-> 1]],
        {"select", "queue"}, 2, 0, 0, 1)}
=============================================================================

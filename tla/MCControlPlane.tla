--------------------------- MODULE MCControlPlane ---------------------------
(* Instances of ControlPlane. *)
EXTENDS ControlPlane

(* One of each named thing happens.                                        *)
Once(counters) == [c \in Counters |-> IF c \in counters THEN 1 ELSE 0]

(* What happens together, in any order and at any moment.                  *)
Troubles ==
    {Once(counters) : counters \in
        {{"reconnects", "messages"},
         {"reconnects", "revokes"},
         {"reconnects", "faults"},
         {"resets", "joins"},
         {"resets", "expiries"},
         {"unsupported"},
         {"rejections", "messages"},
         {"losses", "messages"},
         {"withdrawals", "messages"},
         {"rejections", "losses", "joins"},
         {"crashes", "messages"},
         {"crashes", "joins"}}}

(* Zulip refuses the credentials while a message waits, and the account is *)
(* reconnected.                                                            *)
Reconnection == {Once({"revokes", "reconnects", "messages"})}
=============================================================================

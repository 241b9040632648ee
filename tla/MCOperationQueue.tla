-------------------------- MODULE MCOperationQueue --------------------------
(* Small instances of OperationQueue: operations a and b in one chat, each   *)
(* about a message of its own.                                               *)
EXTENDS OperationQueue

CONSTANTS a, b, chat

OneLane == [o \in Ops |-> chat]
OwnEntity == [o \in Ops |-> o]

CreateAll == [o \in Ops |-> "message.create"]
DeleteAll == [o \in Ops |-> "message.delete"]
CreateThenRead == [o \in Ops |-> IF o = a THEN "message.create" ELSE "read_state.set"]
=============================================================================

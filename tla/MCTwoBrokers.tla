----------------------------- MODULE MCTwoBrokers -----------------------------
(***************************************************************************)
(* A small instance of TwoBrokers: the same instance id, binding id and    *)
(* custom name in both deployments, so that nothing but the prefix tells   *)
(* their objects apart.                                                    *)
(***************************************************************************)
EXTENDS TwoBrokers, TLC

CONSTANTS i1, b1, alpha, small, Unnamed

MCMaximum == small :> 1
MCSanitized == Unnamed :> NoBase
MCHash == (i1 :> alpha) @@ (b1 :> alpha)

Call(op, plan) == [op |-> op, service |-> ServiceID, inst |-> i1, bind |-> b1,
                   plan |-> plan, name |-> Unnamed, conn |-> 0, gb |-> 0]

SharedCalls == {Call("provision", small)}
               \cup {Call(op, NoPlan) : op \in {"deprovision", "bind", "unbind"}}
=============================================================================

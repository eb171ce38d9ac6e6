------------------------------ MODULE MCBroker ------------------------------
(***************************************************************************)
(* Small instances of the broker for TLC.  The names are chosen so that    *)
(* they collide: "alpha" is the base name of instance i1 and binding b1,   *)
(* by their hash, and of every object with the custom name Custom.         *)
(***************************************************************************)
EXTENDS BrokerProperties, TLC

CONSTANTS s1, s2, s3, i1, i2, b1, b2, alpha, beta, small, large, Unnamed, Custom, otherService

MCMaxConn == (small :> 1) @@ (large :> 2)
MCMaxGB == (small :> 1) @@ (large :> 2)
MCSanitized == (Unnamed :> NoBase) @@ (Custom :> alpha)
MCShortHash == [x \in InstanceIds \cup BindingIds |-> IF x \in {i1, b1} THEN alpha ELSE beta]

Call(op, service, i, b, plan, name, conn, gb) ==
    [op |-> op, service |-> service, inst |-> i, bind |-> b,
     plan |-> plan, name |-> name, conn |-> conn, gb |-> gb]

ProvisionCall(i, plan, name, conn, gb) == Call("provision", ServiceID, i, b1, plan, name, conn, gb)
UpdateCall(i, plan, conn, gb) == Call("update", ServiceID, i, b1, plan, Unnamed, conn, gb)
DeprovisionCall(i) == Call("deprovision", ServiceID, i, b1, NoPlan, Unnamed, 0, 0)
BindCall(i, b, name) == Call("bind", ServiceID, i, b, NoPlan, name, 0, 0)
UnbindCall(i, b) == Call("unbind", ServiceID, i, b, NoPlan, Unnamed, 0, 0)

\* A request for a service the catalog does not have, one per operation.
ForeignCalls == {Call(op, otherService, i1, b1, NoPlan, Unnamed, 0, 0) : op \in Operations}

\* The life of one instance under both plans: quotas omitted, tightened, over the plan.
QuotaCalls ==
    {ProvisionCall(i1, p, Unnamed, c, 0) : p \in Plans \cup {NoPlan}, c \in {0, 1, 2}}
    \cup {UpdateCall(i1, p, c, g) : p \in {NoPlan, large}, c \in {0, 1, 2}, g \in {0, 1, 3}}
    \cup {DeprovisionCall(i1)}

\* Two instances that may ask for the same name.
NameCalls ==
    {ProvisionCall(i1, small, Unnamed, 0, 0)}
    \cup {ProvisionCall(i2, large, n, 0, 0) : n \in {Unnamed, Custom}}
    \cup {UpdateCall(i, NoPlan, c, c) : i \in {i1, i2}, c \in {1, 2}}
    \cup {DeprovisionCall(i) : i \in {i1, i2}}

\* Bindings on one tenant, whose users may ask for the same name.
BindingCalls ==
    {BindCall(i1, b1, Unnamed)} \cup {BindCall(i1, b2, n) : n \in {Unnamed, Custom}}
    \cup {UnbindCall(i1, b) : b \in {b1, b2}}

\* Everything that can be in flight at once on one tenant and on its name.
RacingCalls ==
    {ProvisionCall(i1, large, Unnamed, 0, 0), ProvisionCall(i2, large, Custom, 0, 0),
     UpdateCall(i1, NoPlan, 1, 1), DeprovisionCall(i1), DeprovisionCall(i2),
     BindCall(i1, b1, Unnamed), UnbindCall(i1, b1)}

\* Enough to wait for: a long operation, its repetition, and the way back.
WaitingCalls == {ProvisionCall(i1, large, Unnamed, 0, 0), DeprovisionCall(i1)}

QuotaAndForeignCalls == QuotaCalls \cup ForeignCalls
NameAndBindingCalls == NameCalls \cup BindingCalls
=============================================================================

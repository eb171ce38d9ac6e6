--------------------------- MODULE InstanceParams ---------------------------
(***************************************************************************)
(* The rules of params.go for the two quotas: what a request may ask for   *)
(* and what it resolves to.  compatibility and encoding are immutable like *)
(* the name and take no part in what the broker decides, so the name       *)
(* stands for the immutable parameters.                                    *)
(***************************************************************************)
EXTENDS Naturals

CONSTANTS
    Plans,        \* plan ids of the catalog
    NoPlan,       \* an unknown plan id, or none at all
    MaxConn,      \* [Plans -> Nat]: plan.MaxConnections
    MaxGB         \* [Plans -> Nat]: plan.StorageGB

\* LoadCatalog refuses a plan whose quotas are not positive.
ASSUME CatalogAssumption ==
    /\ NoPlan \notin Plans
    /\ MaxConn \in [Plans -> Nat \ {0}]
    /\ MaxGB \in [Plans -> Nat \ {0}]

\* The key is not in the parameters.
Omitted == 0

\* Variant: a bound off by one.
AcceptsOneMore(asked, maximum) == asked \in 0..(maximum + 1)

\* boundedInt: an omitted quota falls back to the plan, one that is present is bounded by it.
Accepts(asked, maximum) == asked = Omitted \/ asked \in 1..maximum

Resolved(asked, maximum) == IF asked = Omitted THEN maximum ELSE asked

ParamsOK(plan, conn, gb) == Accepts(conn, MaxConn[plan]) /\ Accepts(gb, MaxGB[plan])
=============================================================================

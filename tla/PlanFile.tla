------------------------------ MODULE PlanFile ------------------------------
(***************************************************************************)
(* plans.go: the checks of validatePlans on the [[plan]] entries of        *)
(* plans.toml, one entry after the other with the ids and names seen so    *)
(* far, and the lookup Broker.plan makes in what was accepted.             *)
(***************************************************************************)
EXTENDS Naturals, SequencesExt

CONSTANTS
    UUIDs,       \* ids that match uuidPattern
    Malformed,   \* an id that does not
    PlanNames,
    Empty        \* a field that is missing

\* The empty string is no UUID and no name.
ASSUME EmptyAssumption == Empty \notin UUIDs \cup PlanNames

\* An entry; its description is missing or not with its name.
Entry == [id : UUIDs \cup {Malformed, Empty}, name : PlanNames \cup {Empty},
          gb : {0, 1}, conn : {0, 1}]

Complete(e) == e.id # Empty /\ e.name # Empty

Refused(e, ids, names) ==
    \/ ~Complete(e)
    \/ e.id \notin UUIDs
    \/ e.id \in ids
    \/ e.name \in names
    \/ e.gb < 1 \/ e.conn < 1

\* Variant: the name is not remembered.
CheckEntryById(state, e) ==
    IF state.refused \/ Refused(e, state.ids, state.names)
    THEN [state EXCEPT !.refused = TRUE]
    ELSE [state EXCEPT !.ids = @ \cup {e.id}]

\* One turn of the loop.
CheckEntry(state, e) ==
    IF state.refused \/ Refused(e, state.ids, state.names)
    THEN [state EXCEPT !.refused = TRUE]
    ELSE [state EXCEPT !.ids = @ \cup {e.id}, !.names = @ \cup {e.name}]

\* The loop over the entries, seen[k] after k of them.
Checked(plans) ==
    LET seen[k \in 0..Len(plans)] ==
            IF k = 0 THEN [refused |-> FALSE, ids |-> {}, names |-> {}]
            ELSE CheckEntry(seen[k - 1], plans[k])
    IN  seen[Len(plans)]

\* validatePlans returns no error.
Accepted(plans) == plans # <<>> /\ ~Checked(plans).refused

\* Broker.plan: the first entry with the id.
PlanAt(plans, id) == SelectInSeq(plans, LAMBDA e : e.id = id)

-----------------------------------------------------------------------------
\* A catalog the platform can offer: complete plans with positive quotas, told
\* apart by id and by name.
Unambiguous(plans) ==
    /\ plans # <<>>
    /\ \A k \in DOMAIN plans :
          /\ plans[k].id \in UUIDs /\ plans[k].name \in PlanNames
          /\ plans[k].gb > 0 /\ plans[k].conn > 0
    /\ \A j, k \in DOMAIN plans :
          plans[j].id = plans[k].id \/ plans[j].name = plans[k].name => j = k
=============================================================================

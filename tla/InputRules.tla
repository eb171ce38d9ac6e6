----------------------------- MODULE InputRules -----------------------------
(***************************************************************************)
(* What the program is given as text, grown one piece at a time: a SQL     *)
(* template, a plans file, the parameters of a request, a custom name.     *)
(* TLC checks what the code makes of every input up to the bounds against  *)
(* the definition of what it should be.                                    *)
(***************************************************************************)
EXTENDS SqlText, PlanFile

CONSTANTS
    Maximum,     \* quota of the plan
    MaxTokens,   \* bound on the length of a template
    MaxPlans,    \* bound on the length of a plans file
    MaxName      \* bound on the length of a custom name

\* validatePlans accepts no plan without a positive quota.
ASSUME QuotaAssumption == Maximum \in Nat \ {0}

Schemas == INSTANCE ParameterSchemas
Lengths == INSTANCE IdentifierLengths

VARIABLES
    text,      \* a rendered template
    plans,     \* a plans file
    raw,       \* the parameters of a request: the JSON type, and
    params,    \*   the value of each key
    prefix,    \* length of GAUSSDB_NAME_PREFIX
    name       \* length of what is left of a custom name

vars == <<text, plans, raw, params, prefix, name>>

Init ==
    /\ text = <<>> /\ plans = <<>>
    /\ raw \in Schemas!Raws
    /\ params = [key \in Schemas!Keys |-> Schemas!Absent]
    /\ prefix = 1 /\ name = 0

\* One input is grown at a time, the others are as in Init.
NoText == text = <<>>
NoPlans == plans = <<>>
NoParams == params = [key \in Schemas!Keys |-> Schemas!Absent]
NoName == prefix = 1 /\ name = 0

Write(token) ==
    /\ NoPlans /\ NoParams /\ NoName /\ raw = "nothing"
    /\ Len(text) < MaxTokens
    /\ text' = Append(text, token)
    /\ UNCHANGED <<plans, raw, params, prefix, name>>

AddPlan(entry) ==
    /\ NoText /\ NoParams /\ NoName /\ raw = "nothing"
    /\ Len(plans) < MaxPlans
    /\ plans' = Append(plans, entry)
    /\ UNCHANGED <<text, raw, params, prefix, name>>

ValuesOf(key) == CASE key \in {"max_connections", "storage_gb"} -> Schemas!Quotas
                   [] key \in {"compatibility", "encoding"}     -> Schemas!Choices
                   [] key = "name"                              -> Schemas!Labels

GiveParameter(key, value) ==
    /\ NoText /\ NoPlans /\ NoName /\ raw = "object"
    /\ params[key] = Schemas!Absent /\ value # Schemas!Absent
    /\ params' = [params EXCEPT ![key] = value]
    /\ UNCHANGED <<text, plans, raw, prefix, name>>

LengthenPrefix ==
    /\ NoText /\ NoPlans /\ NoParams /\ raw = "nothing" /\ prefix + 1 \in Lengths!PrefixLengths
    /\ prefix' = prefix + 1
    /\ UNCHANGED <<text, plans, raw, params, name>>

LengthenName ==
    /\ NoText /\ NoPlans /\ NoParams /\ raw = "nothing" /\ name < MaxName
    /\ name' = name + 1
    /\ UNCHANGED <<text, plans, raw, params, prefix>>

Next ==
    \/ \E token \in Tokens : Write(token)
    \/ \E entry \in Entry : AddPlan(entry)
    \/ \E key \in Schemas!Keys : \E value \in ValuesOf(key) : GiveParameter(key, value)
    \/ LengthenPrefix
    \/ LengthenName

Spec == Init /\ [][Next]_vars

-----------------------------------------------------------------------------
(***************************************************************************)
(* The statements that reach the server are those of the template, for     *)
(* every layout the templates use and every generated literal, one with    *)
(* "--" in it included (templates.go:79).                                  *)
(***************************************************************************)
SplitsAsWritten == IsTemplate(text) => SplitSQL(text) = Lexed(text)

(***************************************************************************)
(* The loop of validatePlans accepts exactly the catalogs in which plans   *)
(* are told apart, and Broker.plan finds every plan of them (broker.go:40).*)
(***************************************************************************)
CatalogUnambiguous ==
    /\ Accepted(plans) <=> Unambiguous(plans)
    /\ Accepted(plans) => \A k \in DOMAIN plans : PlanAt(plans, plans[k].id) = k

(***************************************************************************)
(* "what the platform sees is what the broker enforces" (validate.go:3):   *)
(* Provision accepts what the published schema accepts, from a quota at    *)
(* the limit of the plan to a key with the value null, and the quotas it   *)
(* stores are within the plan.                                             *)
(***************************************************************************)
CreateSchemaIsEnforced ==
    LET accepted == Schemas!Accepts(Schemas!InstanceSchema, raw, params) IN
    /\ accepted <=> Schemas!SchemaAccepts(Schemas!InstanceSchema, raw, params)
    /\ accepted => \A key \in {"max_connections", "storage_gb"} :
                      Schemas!Resolved(raw, params, key) \in 1..Maximum

(***************************************************************************)
(* For Update the two differ: the published schema names the two quotas,   *)
(* yet a value of compatibility or encoding outside its list is refused.   *)
(* That is all they differ in (params.go:120, params.go:54).               *)
(***************************************************************************)
UpdateSchemaGap ==
    LET published == Schemas!SchemaAccepts(Schemas!UpdatableSchema, raw, params) IN
    /\ Schemas!Accepts(Schemas!UpdatableSchema, raw, params) => published
    /\ published =>
          (~Schemas!Accepts(Schemas!UpdatableSchema, raw, params)
             <=> /\ raw = "object"
                 /\ \E key \in {"compatibility", "encoding"} :
                       Schemas!Given(params[key]) /\ ~Schemas!Listed(params[key]))

\* Every derived name fits into the identifiers of openGauss (config.go:105),
\* whatever the custom name, and none is empty behind its prefix.
NamesFit == Lengths!Fit(prefix, name) /\ Lengths!NotBare(prefix, name)
=============================================================================

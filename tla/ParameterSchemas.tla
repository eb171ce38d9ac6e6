-------------------------- MODULE ParameterSchemas --------------------------
(***************************************************************************)
(* The two checks a request's parameters go through: the JSON schemas of   *)
(* params.go, published in the catalog and applied by validate.go, and the *)
(* rules of ResolveInstanceParams.  Numbers are counted in halves, so that *)
(* there are fractions.                                                    *)
(***************************************************************************)
EXTENDS Integers

CONSTANTS Maximum      \* plan.MaxConnections and plan.StorageGB

\* Values of one key: not given, or of one of the JSON types.
Absent == [type |-> "absent", halves |-> 0, text |-> "none"]
Null == [Absent EXCEPT !.type = "null"]
Number(halves) == [type |-> "number", halves |-> halves, text |-> "number"]
String(text) == [type |-> "string", halves |-> 0, text |-> text]

Given(value) == value.type # "absent"

Quotas == {Absent, Null, String("twenty")} \cup {Number(h) : h \in -1..(2 * Maximum + 2)}
Choices == {Absent, Null, Number(2), String("listed"), String("other")}
Labels == {Absent, Null, Number(2), String("orders")}

\* What arrives as raw JSON: nothing, null, another type, or an object.
Raws == {"nothing", "null", "array", "object"}

Keys == {"compatibility", "encoding", "max_connections", "storage_gb", "name"}

-----------------------------------------------------------------------------
\* The schemas.

QuotaSchema(value) ==
    /\ value.type = "number" /\ value.halves % 2 = 0
    /\ value.halves \in 2..(2 * Maximum)

EnumSchema(value) == value = String("listed")

NameSchema(value) == value.type = "string"

\* A key the schema does not name is not looked at.
Fits(key, value) ==
    /\ key \in {"max_connections", "storage_gb"} => QuotaSchema(value)
    /\ key \in {"compatibility", "encoding"} => EnumSchema(value)
    /\ key = "name" => NameSchema(value)

InstanceSchema == Keys

\* Variant: a quota is forgotten.
UpdatableSchemaWithoutStorage == {"max_connections"}

UpdatableSchema == {"max_connections", "storage_gb"}

\* ValidateParameters: "Empty or null parameters are always valid".
SchemaAccepts(schema, raw, params) ==
    \/ raw \in {"nothing", "null"}
    \/ /\ raw = "object"
       /\ \A key \in schema : Given(params[key]) => Fits(key, params[key])

-----------------------------------------------------------------------------
\* The rules.

\* rawParameters: what is left of the parameters.
Decoded(raw, params) == IF raw = "object" THEN params ELSE [key \in Keys |-> Absent]

\* Variant: the bound itself is refused.
InBoundsBelow(value) ==
    /\ value.type = "number" /\ value.halves % 2 = 0
    /\ value.halves >= 2 /\ value.halves < 2 * Maximum

\* boundedInt, for a key that is given.
InBounds(value) ==
    /\ value.type = "number" /\ value.halves % 2 = 0
    /\ value.halves >= 2 /\ value.halves <= 2 * Maximum

\* fmt.Sprint of the value is one of the list.
Listed(value) == value.text = "listed"

RulesAccept(params) ==
    /\ \A key \in {"compatibility", "encoding"} : Given(params[key]) => Listed(params[key])
    /\ \A key \in {"max_connections", "storage_gb"} : Given(params[key]) => InBounds(params[key])

\* parseParams and ResolveInstanceParams, for Provision and for Update.
Accepts(schema, raw, params) ==
    SchemaAccepts(schema, raw, params) /\ RulesAccept(Decoded(raw, params))

\* The quota that is stored.
Resolved(raw, params, key) ==
    LET value == Decoded(raw, params)[key] IN
    IF Given(value) THEN value.halves \div 2 ELSE Maximum
=============================================================================

----------------------------- MODULE ObjectNames -----------------------------
(***************************************************************************)
(* names.go: the base names from which every database object is derived.   *)
(* An instance's database is <prefix>_<base>, its group role adds _grp and *)
(* its tablespace _ts; a binding's user is <prefix>u_<base>.  The prefix   *)
(* is one setting of the process, so a base name tells the objects apart.  *)
(***************************************************************************)
CONSTANTS
    InstanceIds, BindingIds,
    Names,        \* the names a request can carry, the empty one included
    Bases,        \* what follows the prefix in a derived name
    NoBase,       \* a name of which sanitizeName leaves nothing
    Sanitized,    \* [Names -> Bases \cup {NoBase}]: sanitizeName
    ShortHash     \* [InstanceIds \cup BindingIds -> Bases]: shortHash

\* Nothing is assumed of the hash or of sanitizing: both may map two inputs to one base.
ASSUME NamesAssumption ==
    /\ NoBase \notin Bases
    /\ Sanitized \in [Names -> Bases \cup {NoBase}]
    /\ ShortHash \in [InstanceIds \cup BindingIds -> Bases]

\* Variant: no fallback for a name of which nothing is left.
BaseWithoutFallback(id, name) == Sanitized[name]

BaseOf(id, name) == IF Sanitized[name] # NoBase THEN Sanitized[name] ELSE ShortHash[id]

\* NamesFor: the base name of the database, group role and tablespace of an instance.
NamesFor(i, name) == BaseOf(i, name)

\* UserFor: the base name of a binding's user.
UserFor(b, name) == BaseOf(b, name)
=============================================================================

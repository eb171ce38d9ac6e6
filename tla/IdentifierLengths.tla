-------------------------- MODULE IdentifierLengths --------------------------
(***************************************************************************)
(* The lengths of the derived names of names.go, in characters: custom     *)
(* names are cut to a budget that leaves room for the prefix and for the   *)
(* suffixes _grp and _ts inside the 63 characters openGauss keeps.         *)
(***************************************************************************)
EXTENDS Integers

MaxIdentifier == 63

\* namePrefixPattern
PrefixLengths == 1..30

\* shortHash: six bytes in hexadecimal.
HashLength == 12

Cut(length, budget) == IF length > budget THEN budget ELSE length

\* Variant: room for the suffix, not for the separator.
InstanceBudgetWithoutSeparator(prefix) == MaxIdentifier - prefix - 4

InstanceBudget(prefix) == MaxIdentifier - prefix - 5
UserBudget(prefix) == MaxIdentifier - prefix - 2

\* What follows the separator: length is what sanitizePattern leaves of the name.
BaseLength(length, budget) == IF Cut(length, budget) # 0 THEN Cut(length, budget) ELSE HashLength

DatabaseLength(prefix, length) == prefix + 1 + BaseLength(length, InstanceBudget(prefix))
GroupRoleLength(prefix, length) == DatabaseLength(prefix, length) + 4
TablespaceLength(prefix, length) == DatabaseLength(prefix, length) + 3
UserLength(prefix, length) == prefix + 2 + BaseLength(length, UserBudget(prefix))

\* The server would cut a longer name and two objects could become one.
Fit(prefix, length) ==
    /\ GroupRoleLength(prefix, length) <= MaxIdentifier
    /\ TablespaceLength(prefix, length) <= MaxIdentifier
    /\ UserLength(prefix, length) <= MaxIdentifier

\* No name is the bare prefix.
NotBare(prefix, length) ==
    /\ DatabaseLength(prefix, length) > prefix + 1
    /\ UserLength(prefix, length) > prefix + 2
=============================================================================

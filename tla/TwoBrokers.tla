------------------------------ MODULE TwoBrokers ------------------------------
(***************************************************************************)
(* Two deployments of the broker over one openGauss server, as plans.go:3  *)
(* has in mind ("multiple broker deployments").  Each has its own process, *)
(* lock and state database; what they share is the server.  Neither knows  *)
(* of the other: a lock in one process does not stop the other between its *)
(* probes and its statements, and a rollback drops objects by name.  What  *)
(* keeps them apart is GAUSSDB_NAME_PREFIX.                                *)
(***************************************************************************)
EXTENDS Naturals

CONSTANTS
    Slots, Free, ServiceIds, ServiceID, Requests, NoRequest, NoRecord, NoJob, Faults,
    InstanceIds, BindingIds, Names, NoBase, Plans, NoPlan, MaxConn, MaxGB,
    Passwords, NoPassword,
    Prefix1, Prefix2,   \* GAUSSDB_NAME_PREFIX of the two
    RawBases,           \* what follows the prefix
    RawSanitized,       \* sanitizeName
    RawHash             \* shortHash

VARIABLES
    pg,         \* the server they share
    mu1, instances1, bindings1, pc1, req1, alive1, job1, faults1, result1,
    mu2, instances2, bindings2, pc2, req2, alive2, job2, faults2, result2

private1 == <<mu1, instances1, bindings1, pc1, req1, alive1, job1, faults1, result1>>
private2 == <<mu2, instances2, bindings2, pc2, req2, alive2, job2, faults2, result2>>
vars == <<pg, private1, private2>>

Bases == {Prefix1, Prefix2} \X RawBases

\* Variant: the prefix is left at its default in both deployments.
DerivedByDefault(prefix, raw) == <<Prefix1, raw>>

\* The names of an instance or of a user begin with the prefix.
Derived(prefix, raw) == <<prefix, raw>>

SanitizedBy(prefix) ==
    [n \in Names |-> IF RawSanitized[n] = NoBase THEN NoBase ELSE Derived(prefix, RawSanitized[n])]

HashBy(prefix) == [id \in InstanceIds \cup BindingIds |-> Derived(prefix, RawHash[id])]

First == INSTANCE BrokerProperties WITH
    Sanitized <- SanitizedBy(Prefix1), ShortHash <- HashBy(Prefix1),
    mu <- mu1, instances <- instances1, bindings <- bindings1, pc <- pc1, req <- req1,
    alive <- alive1, job <- job1, faults <- faults1, result <- result1

Second == INSTANCE BrokerProperties WITH
    Sanitized <- SanitizedBy(Prefix2), ShortHash <- HashBy(Prefix2),
    mu <- mu2, instances <- instances2, bindings <- bindings2, pc <- pc2, req <- req2,
    alive <- alive2, job <- job2, faults <- faults2, result <- result2

\* The two run the same code on the same catalog.  Their prefixes differ, and
\* neither extends the other: no derived name begins with both.
ASSUME TwoBrokersAssumption ==
    /\ Prefix1 # Prefix2
    /\ NoBase \notin Bases
    /\ RawSanitized \in [Names -> RawBases \cup {NoBase}]
    /\ RawHash \in [InstanceIds \cup BindingIds -> RawBases]
    /\ NoPassword \notin Passwords
    /\ NoPlan \notin Plans
    /\ MaxConn \in [Plans -> Nat \ {0}] /\ MaxGB \in [Plans -> Nat \ {0}]
    /\ Free \notin Slots
    /\ Requests \subseteq First!Calls /\ Faults \subseteq First!FaultKinds
    /\ NoRequest \notin First!Calls
    /\ NoRecord \notin First!InstanceRecord \cup First!BindingRecord
    /\ NoJob \notin First!Job

Init == First!Init /\ Second!Init

Next ==
    \/ First!Next /\ UNCHANGED private2
    \/ Second!Next /\ UNCHANGED private1

Spec == Init /\ [][Next]_vars

-----------------------------------------------------------------------------
\* A success one deployment reports is true, and stays so while it reports
\* it, whatever the other does on the server (broker.go:61).
BothTellTheTruth == First!SuccessMeansDone /\ Second!SuccessMeansDone

\* No deployment's rollback, removal or bind touches a recorded tenant or the
\* user of a recorded binding of the other (gaussdb.go:75).
BothKeepTheirTenants ==
    /\ First!NameStaysTaken /\ Second!NameStaysTaken
    /\ First!CredentialsWork /\ Second!CredentialsWork

\* A provision that failed partway in one deployment leaves nothing of its
\* own, with the other at work on the same server (gaussdb_test.go:84).
BothRollBack == First!FailedProvisionLeavesNothing /\ Second!FailedProvisionLeavesNothing
=============================================================================

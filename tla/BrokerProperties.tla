--------------------------- MODULE BrokerProperties ---------------------------
(***************************************************************************)
(* What makes the broker correct.  Each property names the faults under    *)
(* which it is checked; a fault left out is one that breaks it.            *)
(***************************************************************************)
EXTENDS Broker

TypeOK ==
    /\ mu \in Slots \cup {Free}
    /\ instances \in [InstanceIds -> InstanceRecord \cup {NoRecord}]
    /\ bindings \in [BindingIds -> BindingRecord \cup {NoRecord}]
    /\ pg \in Server
    /\ pc \in [Slots -> {"idle", "lock", "check", "probe", "exec", "store", "reply"}]
    /\ req \in [Slots -> Calls \cup {NoRequest}]
    /\ alive \in [Slots -> BOOLEAN]
    /\ job \in [Slots -> Job \cup {NoJob}]
    /\ faults \in [Slots -> Nat]
    /\ result \in [Slots -> Results]

\* Places where a handler holds mu, and where it has work to do.
Critical == {"check", "probe", "exec", "store", "reply"}
Working == {"probe", "exec", "store"}

BaseOfRecord(i) == NamesFor(i, instances[i].name)

(***************************************************************************)
(* What a handler found in the store when it checked its request is still  *)
(* so when it executes its statements and writes the store: the lock       *)
(* "removes every check-then-act race" (broker.go, Broker.mu).  All faults.*)
(***************************************************************************)
StillAsChecked(r) ==
    LET q == req[r]
        i == q.inst IN
    CASE q.op = "provision" ->
            /\ ~Recorded(i)
            /\ job[r].vars.base = NamesFor(i, q.name)
      [] q.op = "update" ->
            /\ Recorded(i)
            /\ job[r].record = Requota(instances[i], q)
            /\ job[r].vars.base = BaseOfRecord(i)
      [] q.op = "deprovision" ->
            /\ Recorded(i) /\ BindingsOf(i) = {}
            /\ job[r].vars.base = BaseOfRecord(i)
      [] q.op = "bind" ->
            /\ Recorded(i) /\ ~Bound(q.bind)
            /\ job[r].vars.base = BaseOfRecord(i)
      [] q.op = "unbind" ->
            /\ Recorded(i) /\ Bound(q.bind) /\ bindings[q.bind].inst = i
            /\ job[r].vars.user = bindings[q.bind].user
            /\ job[r].vars.base = BaseOfRecord(i)

NoCheckThenActRace == \A r \in Slots : pc[r] \in Working => StillAsChecked(r)

\* One mutating operation runs at a time, and nobody keeps Broker.mu behind
\* its answer or across a restart.  All faults.
OneAtATime == \A r \in Slots : pc[r] \in Critical <=> mu = r

\* A binding never outlives its instance: Deprovision refuses while one is
\* recorded, whatever Bind and Unbind do in between.  All faults.
BindingHasInstance == \A b \in BindingIds : Bound(b) => Recorded(bindings[b].inst)

-----------------------------------------------------------------------------
\* Answers.

Answered(r, op, answer) == pc[r] = "reply" /\ req[r].op = op /\ result[r] = answer

\* Nothing of a tenant, or of a user, is left on the server.
NoTenant(base) ==
    /\ base \notin pg.roles \cup pg.admin
    /\ pg.dbs[base] = Absent /\ pg.tss[base] = Absent
    /\ pg.acl[base] = {} /\ pg.defaults[base] = {}
    /\ \A m \in pg.member : m[2] # base

NoUser(user) ==
    /\ pg.users[user] = NoPassword
    /\ user \notin pg.schemas
    /\ \A m \in pg.member : m[1] # user
    /\ \A base \in Bases : \A d \in pg.defaults[base] : d[1] # user

\* The two quotas of a record are the ones the server enforces, and the
\* broker has given up the membership it took for the statement.
QuotasInForce(base, record) ==
    /\ pg.dbs[base] = record.conn /\ pg.tss[base] = record.gb
    /\ base \notin pg.admin

\* The credentials open the database, as a member of the tenant's group only.
Works(credentials) ==
    /\ pg.users[credentials.username] = credentials.password
    /\ {m \in pg.member : m[1] = credentials.username} = {<<credentials.username, credentials.database>>}

(***************************************************************************)
(* A success answer tells the truth about the server and the store: the    *)
(* tenant is complete and recorded, the quotas are in force, the objects   *)
(* are gone, the user can work.  All faults, other requests' ones included.*)
(***************************************************************************)
SuccessMeansDone ==
    \A r \in Slots :
        LET q == req[r]
            v == job[r].vars IN
        /\ Answered(r, "provision", "ok") =>
              /\ instances[q.inst] = Resolve(q)
              /\ v.base \in pg.roles /\ pg.acl[v.base] = Privileges
              /\ QuotasInForce(v.base, Resolve(q))
        /\ Answered(r, "update", "ok") =>
              /\ instances[q.inst] = job[r].record
              /\ QuotasInForce(v.base, job[r].record)
        /\ Answered(r, "deprovision", "ok") => ~Recorded(q.inst) /\ NoTenant(v.base)
        /\ Answered(r, "bind", "ok") =>
              /\ Bound(q.bind) /\ Works(bindings[q.bind].credentials)
              /\ \A d \in Defaults : <<v.user, d>> \in pg.defaults[v.base]
        /\ Answered(r, "unbind", "ok") => ~Bound(q.bind) /\ NoUser(v.user)

\* The handler got past its probes and failed later.
FailedMidway(r, op) ==
    /\ Answered(r, op, "error") /\ job[r] # NoJob
    /\ job[r].undo # "no" \/ job[r].template \in {"tenant-db/provision", "tenant-db/bind"}

(***************************************************************************)
(* "A provision that fails partway must roll back what it already          *)
(* created" (gaussdb_test.go:84).  Holds while a request meets one fault   *)
(* and keeps its context, and the store takes the record: faults "read",   *)
(* "refuse", "lost", "crash".                                              *)
(***************************************************************************)
FailedProvisionLeavesNothing ==
    \A r \in Slots : FailedMidway(r, "provision") /\ faults[r] <= 1 => NoTenant(job[r].vars.base)

(***************************************************************************)
(* "A bind that fails partway must roll back the user it already created"  *)
(* (gaussdb_test.go:98).  Unbind works on the tenant database, so it does  *)
(* nothing for an instance whose database a failed Deprovision has dropped.*)
(***************************************************************************)
FailedBindLeavesNothing ==
    \A r \in Slots : FailedMidway(r, "bind") /\ faults[r] <= 1 => NoUser(job[r].vars.user)

\* The same for an instance whose database is there.  Faults "read", "refuse",
\* "lost", "crash".
FailedBindOnTenantLeavesNothing ==
    \A r \in Slots :
        FailedMidway(r, "bind") /\ faults[r] <= 1 /\ pg.dbs[job[r].vars.base] # Absent
            => NoUser(job[r].vars.user)

-----------------------------------------------------------------------------
\* What a handler may do while it holds the lock.

\* How many statements a template makes, its second part included.
StatementsOf(t) == Len(Template(t)) + IF t \in TwoPart THEN Len(Template(SecondPart(t))) ELSE 0

\* What follows the last statement of an operation: the rollback if that fails,
\* the store write if it does not.
CallsAtEnd(r) ==
    CASE RollsBack(r) -> StatementsOf(Rollback(req[r].op))
      [] ~RollsBack(r) /\ job[r].undo = "no" -> 1
      [] OTHER -> 0

\* The calls to the server and the store that r, its checks done,
\* may still make before it answers.
CallsLeft(r) ==
    CASE pc[r] = "probe" -> Len(Probes(req[r].op)) - job[r].at + 1
                            + StatementsOf(job[r].template) + CallsAtEnd(r)
      [] pc[r] = "exec"  -> StatementsOf(job[r].template) - job[r].at + 1 + CallsAtEnd(r)
      [] pc[r] = "store" -> 1
      [] OTHER -> 0

\* Those of Provision: three probes, eleven statements, the six of the rollback.
MostCalls == 20

(***************************************************************************)
(* Nobody waits for mu behind more calls than an operation and its         *)
(* rollback take (broker.go:62): every call a handler makes leaves it      *)
(* fewer, whatever fails, and a rollback that fails is not begun again     *)
(* ("best-effort", gaussdb.go:75).  All faults.                            *)
(***************************************************************************)
WorkIsBounded ==
    [][\A r \in Slots : Proceed(r) =>
            CallsLeft(r)' < (IF pc[r] \in Working THEN CallsLeft(r) ELSE MostCalls + 1)]_vars

(***************************************************************************)
(* The statements of Provision and Bind, and the rollback that drops by    *)
(* name what they may have created (gaussdb.go:75, gaussdb.go:97), begin   *)
(* where nothing bears the name: they never remove what another request    *)
(* has made.  ensureAbsent asks for one name at a time, and its answers    *)
(* still hold together.  All faults.                                       *)
(***************************************************************************)
BeginsOnFreeName ==
    [][\A r \in Slots : pc[r] = "probe" /\ pc'[r] = "exec" =>
            IF req[r].op = "provision" THEN NoTenant(job[r].vars.base)
            ELSE NoUser(job[r].vars.user)]_vars

-----------------------------------------------------------------------------
\* The records and the server.

\* r has removed what record it is about to delete.
Removing(r, op) == pc[r] = "store" /\ req[r].op = op

(***************************************************************************)
(* Every recorded instance owns its database, tablespace and role alone    *)
(* (README.md:13), custom names that collide and half-done removals        *)
(* included.  The role is what keeps a name taken: DROP ROLE comes last.   *)
(* Faults "read", "refuse", "cancel".                                      *)
(***************************************************************************)
DedicatedTenant ==
    \A i, j \in InstanceIds :
        Recorded(i) /\ Recorded(j) /\ i # j => BaseOfRecord(i) # BaseOfRecord(j)

NameStaysTaken ==
    \A i \in InstanceIds : Recorded(i) =>
        \/ BaseOfRecord(i) \in pg.roles
        \/ \E r \in Slots : Removing(r, "deprovision") /\ req[r].inst = i

(***************************************************************************)
(* The credentials GetBinding hands out without the lock (broker.go:282),  *)
(* and an identical repeated bind returns (state.go:37), let the user into *)
(* the database at any moment before its Unbind ends, and no two bindings  *)
(* share a user.  Faults "read", "refuse", "cancel".                       *)
(***************************************************************************)
CredentialsWork ==
    \A b \in BindingIds : Bound(b) =>
        \/ /\ Works(GetBinding(b))
           /\ \A c \in BindingIds \ {b} : Bound(c) => bindings[c].user # bindings[b].user
        \/ \E r \in Slots : Removing(r, "unbind") /\ req[r].bind = b

(***************************************************************************)
(* last_operation "always reports success: every broker operation is       *)
(* synchronous" (broker.go:293).  It may be asked in the middle of another *)
(* operation, or after one that failed: unless a Deprovision has dropped   *)
(* the database, the tenant is complete.  Faults "read", "refuse",         *)
(* "cancel".                                                               *)
(***************************************************************************)
SucceededIsComplete ==
    \A i \in InstanceIds :
        LET base == BaseOfRecord(i) IN
        LastOperation(i) = "succeeded" /\ pg.dbs[base] # Absent =>
            base \in pg.roles /\ pg.tss[base] # Absent /\ pg.acl[base] = Privileges

\* No tenant ever gets more than its plan sells, failed updates and reused
\* names included.  Faults "read", "refuse", "cancel".
QuotaWithinPlan ==
    \A i \in InstanceIds : Recorded(i) =>
        /\ pg.dbs[BaseOfRecord(i)] <= MaxConn[instances[i].plan]
        /\ pg.tss[BaseOfRecord(i)] <= MaxGB[instances[i].plan]

(***************************************************************************)
(* A Deprovision or Unbind that meets no fault of its own never fails,     *)
(* whatever earlier attempts left half done: a removal can be retried.     *)
(* Faults "read", "refuse", "cancel".                                      *)
(***************************************************************************)
RemovalCanBeRetried ==
    \A r \in Slots :
        Answered(r, "deprovision", "error") \/ Answered(r, "unbind", "error")
            => faults[r] > 0 \/ ~alive[r]

-----------------------------------------------------------------------------
\* The contract, and liveness.

Contract == INSTANCE OsbContract

\* On its records the broker is the atomic service of OsbContract.  All faults.
ImplementsContract == Contract!Spec

(***************************************************************************)
(* Every request that reached the broker is answered, or dropped by a      *)
(* restart: no handler keeps mu, none waits for it for ever.               *)
(***************************************************************************)
EveryRequestAnswered == \A r \in Slots : (pc[r] # "idle") ~> (pc[r] = "idle")
=============================================================================

# A TLA+ model of osb-opengauss-go

The broker turns one openGauss server into a catalog of tenants: a platform
sends it the requests of the Open Service Broker API, it executes SQL on the
server and remembers in two tables what it did. There is no transaction across
the two. Every operation is a check of the tables, a probe of the server's
catalogs, up to eleven statements on two databases, and a write of one row;
each of these can fail, lose its answer, be abandoned by the client or be cut
off by a restart. The model is about what is left then.

## Inventory

| Component | State it keeps | Operations | Talks to | What makes it correct |
|---|---|---|---|---|
| Request handlers, `broker.go` | `Broker.mu` | Provision, Update, Deprovision, Bind, Unbind; four reads without the lock | Admin, Store | what was checked still holds when it is acted on; a success is true; a failure can be repeated; every request is answered |
| Admin, `gaussdb.go` | none | the same five on the server, `ensureAbsent`, rollback | DB, templates | a failed creation leaves nothing; a failed removal can be repeated |
| SQL templates, `templates.go`, `templates/` | none | load, render, split | Admin | order and idempotence of the statements |
| Driver, `driver.go` | none (a connection per call) | Exec, Exists, Ping | the server | a bounded call; an error says nothing about the effect |
| State store, `state.go` | tables `instance_records`, `binding_records` | get, put, delete, list, RotateBindings | SQLite or a SQL server | records agree with the server |
| Names, `names.go` | none | NamesFor, UserFor, randomPassword | | one tenant per name |
| Parameters, `params.go`, `validate.go` | none | ResolveInstanceParams, boundedInt, schemas | | never above the plan |
| Catalog, `plans.go` | plans, read once | LoadCatalog, Catalog | | positive quotas, unique ids |
| Encryption, `encrypt.go` | keys | Encrypt, Decrypt | Store | what was stored can be read, through a change of keys |
| Configuration, `config.go` | settings, read once | LoadConfig | all | |
| Process, `main.go` | the HTTP server | start, rotate, serve, shut down in 10 s | all | a restart leaves the tables and the server consistent |

The hard behaviours: handlers run concurrently and share the lock; a statement
can fail, or take effect without an answer; the client's departure cancels the
context under a running operation and under its rollback; the process can stop
between two statements; two instances can derive the same name; a removal that
failed in the middle must be repeated on what it left; the keys of the stored
credentials change between two starts, and the records are re-encrypted one by
one; two deployments share one server. `PROJECT.json` lists
these hazards one by one, at the line where each bites.

## Modules

    ObjectNames --> OpenGauss ----\
    InstanceParams -----------------> Broker --> BrokerProperties --> MCBroker
    SqlTemplates ------------------/    |             |    |
    OsbContract  <-- INSTANCE (refinement)            |    |
                                                      |    |
                     TwoBrokers == two INSTANCEs of --/    |
                       |    \--> MCTwoBrokers              |
                       |                                   v
                       |    BrokerProofs --> ServerProofs --> SuccessProofs
                       |                                          |
                       |              RollbackProofs <-- TenantProofs
                       v                     |
                     TwoBrokersProofs == two INSTANCEs of it

    CredentialVault  <-- INSTANCE ... WITH (refinement) -- KeyRotation --> KeyRotationProofs

    SqlText, PlanFile ------------------------\
    ParameterSchemas, IdentifierLengths --------> InputRules --> InputProofs

| Module | Models |
|---|---|
| `ObjectNames` | `names.go`: a base name comes from the custom name, or from the hash of the id when nothing of the name is left. `Sanitized` and `ShortHash` are arbitrary functions, so collisions of either are included. |
| `InstanceParams` | `params.go` and the guarantees of `plans.go`: quotas are bounded by the plan, an omitted one is the plan's. |
| `OpenGauss` | The server (external): roles, databases, tablespaces, privileges, memberships, users, schemas, default privileges; `Permits` says when a statement is accepted, `Effect` what it does. |
| `SqlTemplates` | The eight templates as sequences of statements. |
| `Broker` | One process: handlers, lock, tables, server, faults. |
| `OsbContract` | The abstract service: each operation is one atomic change of the two tables. |
| `BrokerProperties` | The properties of `Broker`. |
| `MCBroker` | Small instances and workloads for TLC. |
| `BrokerProofs` | Theorems about the lock, types, races and the contract, for every instance, checked by TLAPS. |
| `ServerProofs` | Lemmas about one statement: what it does, what it leaves alone, when the server accepts it. |
| `SuccessProofs` | A success answer is true; the work under the lock is bounded. |
| `TenantProofs` | Records and server agree. |
| `RollbackProofs` | Work begins on free names; a failed Provision or Bind leaves nothing. |
| `TwoBrokers` | Two processes, each with its lock, tables and prefix, on one server (`pg` is shared, everything else is not). |
| `TwoBrokersProofs` | The same of two deployments on one server. |
| `KeyRotation` | The key settings, the start with `RotateBindings`, the ciphertexts and the handlers that write them. |
| `CredentialVault` | The abstract store of credentials: put, delete, and nothing else. |
| `KeyRotationProofs` | Theorems about the two, checked by TLAPS. |
| `SqlText` | `splitSQL`, and the server's lexer to compare it with. |
| `PlanFile` | The loop of `validatePlans` over the entries, and `Broker.plan`. |
| `ParameterSchemas` | The published schemas under `ValidateParameters`, and `ResolveInstanceParams` behind them, for values of every JSON type. |
| `IdentifierLengths` | The length budgets of `NamesFor` and `UserFor`. |
| `InputRules` | Inputs for the four, grown piece by piece, and what should come of them. |
| `InputProofs` | Theorems about the four, for inputs of any size, checked by TLAPS. |

### State and actions of `Broker`

`mu` is `Broker.mu`; `instances` and `bindings` are the two tables; `pg` is the
server. Each slot `r` is a goroutine of `net/http`: `pc[r]` says where it is,
`req[r]` what it was asked, `job[r]` holds the local variables of the handler
and of Admin (template variables, the record it will write, the template and
statement it is at, whether it is rolling back), `alive[r]` is its context,
`result[r]` its answer, `faults[r]` counts what went wrong for this request
(it is reset when the request ends and lets properties say "one fault").

| Action | Code |
|---|---|
| `Receive`, `Lock` | the request arrives; `b.mu.Lock()` |
| `CheckProvision`, `CheckUpdate`, `CheckDeprovision`, `CheckBind`, `CheckUnbind` | the handler from its first line to the call of Admin: every early return, in the code's order, and the values it carries on. One step: it only reads rows that change under the lock |
| `ReadFails` | a store read returns an error (unreachable, or a record that cannot be decrypted) |
| `EnsureAbsent`, `ProbeFails` | one catalog probe of `ensureAbsent` |
| `StatementSucceeds` | one statement of a template, then on to the next statement, the next template, the store, or the end of a rollback |
| `StatementFails` | the server refuses it, the connection fails, or the context is dead: rollback for Provision and Bind, an error for the others |
| `ReplyLost` | the statement took effect and the handler sees an error |
| `StoreWrite`, `StoreFails` | PutInstance, DeleteInstance, PutBinding, DeleteBinding; a failing write may have changed the row |
| `Reply` | the answer and the deferred `Unlock` |
| `ClientGone` | `net/http` cancels the context |
| `Crash` | the process stops and starts again; the tables and the server remain |

`GetBinding` and `LastOperation` are what the reads without the lock answer.
They are operators on the state, not actions: they read one row, in any state,
between any two steps of the others, so a property that mentions them speaks of
every moment at which they could be called. `LastOperation(i)` stands for both
last_operation handlers.

What the data is reduced to: an id, a name, a password is a model value; a
quota a small number (0: omitted); a request an element of `Calls`; a
statement its name, with its meaning in `OpenGauss`. Compatibility and encoding
are stored and compared like the name and are represented by it. Ids and the
service id are compared, never parsed. Group roles and users cannot collide
(`<prefix>_..._grp` against `<prefix>u_...`) and are kept apart.

### State and actions of `KeyRotation`

`rows` is the table of bindings, each row with its instance and a ciphertext
(the key it was made with, and the secret); `instances` is the other table;
`config` holds `STATE_ENCRYPTION_KEY` and `STATE_ENCRYPTION_KEY_PREVIOUS`; `phase`
says whether the process is stopped, rotating or serving; `todo` is the slice
of records `RotateBindings` has read and not yet handled. Two history variables
say what the operator did: `started` (this configuration has served) and
`followed` (every change so far went by the procedure of `README.md:120`).

| Action | Code |
|---|---|
| `Configure` | the operator changes any of the two settings while the process is down |
| `Start` | `LoadConfig`'s check of the two, then the server, or the read of all records |
| `RotateRecord` | one turn of the loop: `continue` for a record on the current key, or decrypt with the previous key and rewrite the row |
| `FinishRotation` | the loop is done, the server starts |
| `RefuseRecord` | neither key reads the record: `must` exits |
| `RewriteFails` | the update returns an error, with or without effect: `must` exits |
| `Crash`, `Stop` | the process ends while it rotates, or serves |
| `Provision`, `Deprovision`, `Bind`, `Unbind` | what the handlers do with the tables; that they are atomic is what `ImplementsContract` says |

A wrong AES-256-GCM key is always noticed, an empty key never: `Decrypts` is true
of `NoopEncryptor`, and the JSON behind it tells (`Readable`). Records are handled
in any order, as the query has no `ORDER BY`.

### State and actions of `InputRules`

The four algorithms have no state. `InputRules` holds one input of each kind,
starts with empty ones and grows one of them by a token, an entry, a
parameter, a character; the invariants compare, in each state, what the
code makes of it with a definition that does not look at the code: the server's
lexer, pairwise distinct plans, the other of the two parameter checks, 63. Text
is a sequence of tokens: a word, a quote, `--`, a semicolon, a newline. The loops of
`splitSQL` and `validatePlans` are recursive functions over the number of turns
(`Split`, `Cleaned`, `Checked`), with one operator for the turn (`CutAt`, `KeepLine`,
`CheckEntry`), which is the form the proofs take them in.

### Faults

A run chooses the faults that can happen, anywhere and any number of times:
`read`, `refuse`, `lost`, `cancel`, `store`, `crash` (see `Broker.tla`). Each
property says under which it holds. A fault it is not checked under is one
that breaks it, and is explained below.

## Runs

The runs of the first table use `MCBroker`: two instances, two bindings, two plans (quotas 1 and 2),
two base names; `alpha` is at once the hash of `i1` and of `b1` and the
sanitized custom name, so every kind of collision happens.

| Run | Slots | Workload | Faults | What it shows |
|---|---|---|---|---|
| `broker_races` | 2 | the five operations on one tenant, and a second instance after its name | all | `OneAtATime`, `NoCheckThenActRace`, `BindingHasInstance`, `SuccessMeansDone`, `WorkIsBounded`, `BeginsOnFreeName`, `ImplementsContract` |
| `broker_quotas` | 1 | one instance, all quotas from omitted to above the plan, unknown plan, plan changes, foreign service id | all | `TypeOK`, `SuccessMeansDone`, `ImplementsContract` |
| `broker_tenants` | 1, 2 passwords | two instances and two bindings with colliding names | read, refuse, cancel | `DedicatedTenant`, `NameStaysTaken`, `CredentialsWork`, `SucceededIsComplete`, `QuotaWithinPlan`, `RemovalCanBeRetried` |
| `broker_rollback` | 1 | as `broker_races` | read, refuse, lost, crash | `FailedProvisionLeavesNothing`, `FailedBindOnTenantLeavesNothing` |
| `broker_liveness` | 3 | a provision and a deprovision, again and again | refuse, cancel | `EveryRequestAnswered` under `FairSpec` |
| `rollback_cancelled` | 1 | two instances | cancel | violates `FailedProvisionLeavesNothing` |
| `bind_half_removed` | 1 | as `broker_races` | refuse | violates `FailedBindLeavesNothing` |
| `shared_tenant` | 1 | two instances | store | violates `DedicatedTenant` |

| Run | Module | Bounds | What it shows |
|---|---|---|---|
| `two_brokers` | `MCTwoBrokers` | one handler each; the same ids, plan and hash in both; prefixes `gdb` and `tenants`; fault refuse | `BothTellTheTruth`, `BothKeepTheirTenants`, `BothRollBack` |
| `key_rotation` | `KeyRotation` | 3 keys, 2 instances, 2 bindings, 2 secrets, 2 interruptions per rotation | `TypeOK`, `PreviousKeyRetirable`, `ProcedureKeepsReadable`, `NoInvisibleBinding`, `KeepsCredentials`, `RotationCompletes` |
| `rotation_refuses` | `KeyRotation` | 3 keys, 1 instance, 2 bindings | violates `RefusesToStart` |
| `input_rules` | `InputRules` | templates of 6 tokens, 2 plan entries, quotas to 2 in steps of one half, names to 64 characters | `SplitsAsWritten`, `CatalogUnambiguous`, `CreateSchemaIsEnforced`, `UpdateSchemaGap`, `NamesFit` |

Bounds. In the runs of `MCBroker` and `MCTwoBrokers` the only bounds are the
constants: no counter is capped (`faults` ends
with its request, and a request has a bounded number of steps). Two slots are
enough for races because every property of a race relates one handler's check
to one other handler's write; three are used where waiting matters (one holds
the lock, two compete). Runs with one slot are about what one request leaves
for later ones; under the lock a second handler adds only waiting, which
`NoCheckThenActRace`, checked in `broker_races` and proved for any number of
handlers, establishes. Two instances and two bindings are the fewest that can
collide; two passwords tell a stale credential from the current one.

Three keys are the fewest for a record that is beyond both keys of a
configuration; two bindings for a rotation that has done one and not the other.
`MaxInterruptions` bounds crashes and failed writes of one rotation, so that a
rotation is not interrupted for ever; two of them give a rotation that resumes
one that had resumed. In `input_rules` the bounds are `MaxTokens` (six tokens hold
a statement, a quoted literal with `--` in it and a line around it),
`MaxPlans` (a duplicate is a pair), `Maximum` (with zero, one, two, three and the
halves between them on either side of the limits) and `MaxName` (one more than an
identifier has). These inputs end at their bounds, so the run does not check
for deadlock.

`two_brokers` gives both deployments the same hash for the same id, so that
nothing but the prefix tells their objects apart, and no fault but `refuse`, the
one that makes both roll back. It takes prefixes that do not extend each
other: `gdb` and `gdb_a` share the base `gdb_a_x`. `TwoBrokersAssumption` is the same
condition: no name belongs to both. What happens on a shared base is
the mutant of the three properties: both deployments probe and find nothing,
the second `CREATE ROLE` is refused, and the rollback of that provision drops the
database the first has reported as created.

Why the faults differ. `lost` and `crash` break `RemovalCanBeRetried` and
`NameStaysTaken`: after a `DROP ROLE` whose answer is lost the record remains,
and the next Deprovision fails at `GRANT` of a role that does not exist; the same
holds for a lost `DROP USER`, since `DROP OWNED BY` has no `IF EXISTS`. `store`
does the same one step later. A lost `DROP USER` also leaves a record whose
credentials open nothing (`CredentialsWork`), and a name that is given away while
its record remains ends in a shared tenant, possibly of another plan
(`DedicatedTenant`, `QuotaWithinPlan`). The rollback properties count the faults of
one request and exclude `cancel`, under which they fail (`rollback_cancelled`).
`SuccessMeansDone` and the contract hold under all faults.

Every property of a passing run comes with a change of the model, of the kind
a plausible mistake in the code would be, that makes TLC find it violated:
no mutex, no look for bindings, one probe in place of three, a template
without its last statement or in another order, a quota bound off by one, a
rollback that covers only the first template or is begun again, a handler that
returns without unlocking. The variants stand next to the definitions they change.

### Four disagreements with what the repository says

* `rollback_cancelled`. `gaussdb_test.go:84`: "A provision that fails partway
  must roll back what it already created." The rollback at `gaussdb.go:75`
  and `:79` uses the request's context. If the client has gone, it executes
  nothing: role, tablespace and database stay, no record names them, and the
  platform's retry is answered 409 by the probes.
* `bind_half_removed`. `gaussdb_test.go:98`: "A bind that fails partway must
  roll back the user it already created." `Unbind`, which is the rollback,
  starts on the tenant database. A Deprovision that failed behind `DROP
  DATABASE` leaves a record without a database; a Bind then creates its user,
  cannot connect for the default privileges, and cannot connect to roll back.
  With the database in place the property holds
  (`FailedBindOnTenantLeavesNothing`).
* `shared_tenant`. `README.md:13`: an instance is "a **logical database** +
  dedicated tablespace". Deprovision frees the name before `DeleteInstance`
  (`broker.go:181`); when that write fails the name can be taken by another
  instance, and two records point at one database. Repeating the failed
  Deprovision then drops the other's tenant.
* `rotation_refuses`. `state.go:246`: "rotation refuses to start on a state
  database it cannot fully decrypt". The loop decrypts and rewrites record by
  record; those before the unreadable one have moved to the new key when it
  stops. Nothing is lost by it (`KeepsCredentials`), but going back to the old
  key alone no longer reads everything.

Two more places where words and code part, stated as properties that hold:
`validate.go:3` says "what the platform sees is what the broker enforces". For
Provision that is `CreateSchemaIsEnforced`; for Update the broker enforces more,
and `UpdateSchemaGap` says exactly what. `templates.go:81` says "comments and
empty lines are removed": a comment behind a statement is not. It stays in the text
and, once the lines are joined, hides the rest of its statement from
the server; `SplitsAsWritten` therefore speaks of texts whose comments have lines
of their own (`IsTemplate`), as the embedded templates have.

## Fairness

`FairSpec` assumes weak fairness of `Proceed(r)`: a handler that holds the lock
takes its next step, because each call it makes returns. `Exec` has a deadline
(`driver.go:31`). `Exists` (`driver.go:49`) and the store have none: that they
return is an assumption about the driver, and a server that accepts a
connection and stays silent breaks it. It assumes strong fairness of `Lock(r)`:
`sync.Mutex` hands itself to a waiter that has waited for 1 ms, so no waiter
is overtaken for ever; weak fairness would not do, as the lock is taken again
and again between. No client has to send anything and nothing has to fail:
`Receive`, `ClientGone` and `Crash` have no fairness, and "is answered" covers
an error answer.

`KeyRotation!FairSpec` assumes weak fairness of `Start` (a supervisor starts the
process again) and of `Rotation` (the loop goes on: a statement returns). There is
none for the operator, the handlers, or anything that fails. `RotationCompletes`
needs the procedure: with keys that read nothing, every start refuses.

## Proofs

The proofs are checked by TLAPS for every value of the constants: any number
of handlers, instances, bindings and names, any `Requests`, any `Faults`, any
`Sanitized` and `ShortHash`. They assume what `NamesAssumption`,
`PasswordAssumption`, `CatalogAssumption` and `BrokerAssumption` state: ids map to
base names, `randomPassword` returns a password, the catalog has positive quotas,
the special values are distinct from the data.

### Lock, types, contract: `BrokerProofs`

| Theorem | States |
|---|---|
| `MutualExclusion` | `Spec => []OneAtATime` |
| `TypeCorrect` | `Spec => [](TypeOK /\ Engaged)` |
| `NoRaces` | `Spec => []NoCheckThenActRace` |
| `Implementation` | `Spec => ImplementsContract` |
| `BindingsHaveInstances` | `Spec => []BindingHasInstance` |

The argument. `OneAtATime` (a handler is between `Lock` and its answer if and only
if it holds the lock) is inductive once `pc` is known to hold a place for
every slot (`LockInv`): `ProceedMoves` reduces the many steps of a handler to the
three ways in which they move it, and only `Reply` and `Crash` release the lock.
`TypeOK` needs `Engaged` (a handler behind the lock has a request, one at work has
a job, with a record if its operation writes one), since what is stored next
comes from the request and the job. `NoCheckThenActRace`
says that a fact about the store, established in one step, survives until the
store is written; the invariant `RaceInv` is typing, the lock, and for every
working handler both `StillAsChecked` and `JobOfRequest` (the job is the one its
request asks for: the values that will be stored). Its step splits on who
moves: the handler itself establishes or carries its facts (`CheckedNow`,
`StoreStays`, `JobStays`), another working handler cannot exist
(`OthersStay`), so nobody else writes the store. `Implementation` uses `RaceInv`
in each state: a store write under the facts it carries is a step of the
contract (`StoreEffectIsContract`), and every other step leaves both tables
alone. `BindingsHaveInstances` is inductive in the contract
(`ContractKeepsBindings`) and reaches the broker through the refinement; the
guard that makes it so in the code is the look for bindings in Deprovision.

### One statement: `ServerProofs`

The properties below follow the SQL statements, and three sets of facts carry them.

* `Executes` is `Effect` read as a relation: a statement changes the tenant and
  the user it names, in the way its name says (`ChangesTenant`, `ChangesUser` and
  so on), and no other (`KeepsOtherTenants`, `KeepsOtherUsers`).
* `Sound` is what the server guarantees of its own catalogs: no database without
  its tablespace and role, no tablespace or membership without its role, no
  privilege without its database, no schema, membership or default privilege
  without its user. Every statement the server accepts keeps it; a base name without
  a role, or without a user, then has nothing at all.
* `Done(s, v, t, k)` says what the first `k` statements of template `t` have
  achieved for the values `v` (`ProvisionDone`, `UpdateDone`, `DeprovisionDone`,
  `BindDone`, `UnbindDone`). `TemplateStep`: when `Done` holds of `k - 1` and
  statement `k` is executed, it holds of `k`.

`ProvisionPermitted`, `BindPermitted`, `DeprovisionPermitted` and
`UnbindPermitted` say when the server accepts the next statement: that of a
Provision always, of a Bind if the database is there, of a Deprovision unless the
role is gone, of an Unbind if the database and the user are there.
`ExecutesLeavesAlone` and `DoneFramed` are for two deployments.

### Success answers and bounded work: `SuccessProofs`

| Theorem | States |
|---|---|
| `SuccessIsDone` | `Spec => []SuccessMeansDone`, under every fault |
| `WorkAlwaysBounded` | `Spec => WorkIsBounded`, under every fault |

`SuccessMeansDone` speaks of the moment of the answer. `ProgressInv` says where a
handler is before: at a probe nothing has been found so far (`Probing`), at a
statement those in front of it are `Done` (`Executing`), at the store write all of
them are (`Finished`), and after it the row holds what was meant (`Written`). It
adds `Sound(pg)` and `RaceInv`: that nothing is undone between two statements is
the lock, as nobody else touches the server. A fault sends the handler to
its rollback or its error answer, and neither claims anything, so no fault
need be excluded.

`WorkIsBounded` is the part of `EveryRequestAnswered` that needs no fairness:
`CallsLeft` is a variant. `ProgressInv` says at which probe or statement of which
template a handler can be, `CallsIn` counts from there (`StatementCounts`), and every
step of `Proceed` leaves less: the probes and statements one by one, a failure
because the rollback was already counted (`AfterLast`) and has none of its own.
What liveness adds is that each of the at most twenty calls returns, and that
`sync.Mutex` is fair.

### Tenants and credentials: `TenantProofs`

All six assume `NothingLost`, faults among `read`, `refuse` and `cancel`.

| Theorem | States |
|---|---|
| `TenantsAreDedicated` | `Spec => []DedicatedTenant` |
| `NamesStayTaken` | `Spec => []NameStaysTaken` |
| `QuotasWithinPlan` | `Spec => []QuotaWithinPlan` |
| `SucceededTenantsComplete` | `Spec => []SucceededIsComplete` |
| `CredentialsAlwaysWork` | `Spec => []CredentialsWork` |
| `RemovalsCanBeRetried` | `Spec => []RemovalCanBeRetried` |

The six hold each other up and are proved together, in `TenantInv`. Two recorded
instances never share a name because a Provision that stores one has seen, at
its probe, that the name has no role (`Claims`), and every record has its role
until the step before its own row goes (`NameStaysTaken`). That survives because
a Deprovision drops the role last, because a statement of one tenant touches
no other (`StatementKeepsTenant`), and because a rollback of Provision works on a
name that passed its probe. `UsersKept` and `PrivilegesKept` are added for the same
reason one level down: an Unbind that failed halfway can be repeated only
if the database is there and the user has its default privileges in no other;
and the role a removal grants itself at its first statement must exist
(`RemovalPermitted`). Where a fault is excluded, a run or the section on faults
shows what it breaks.

### Rollback: `RollbackProofs`

The last two assume `ContextsLive`, faults among `read`, `refuse`, `lost` and `crash`.

| Theorem | States |
|---|---|
| `WorkBeginsOnFreeName` | `Spec => BeginsOnFreeName`, under every fault |
| `FailedProvisionsRollBack` | `Spec => []FailedProvisionLeavesNothing` |
| `FailedBindsRollBack` | `Spec => []FailedBindOnTenantLeavesNothing` |

`BeginsOnFreeName` is about the three probes of Provision, which ask at three
moments and see only three of the names' traces. `Probing` keeps the second answer
until the third is in (the lock), and by `Sound(pg)` a server without the role
has no database, tablespace, privilege or membership of the tenant either
(`NothingLeft`), so the rollback, which drops by name, drops what the request made.

The other two properties speak of a request that met at most one fault. `RollbackInv` counts:
none while a statement of the operation itself is next, at least one once the
rollback runs (`Blameless`). So the rollback meets none, and its statements
are accepted unless what they name is gone (`RefusedRollback`), which is what the
property asks for. Without `cancel` the context is alive, so `Connect` succeeds. The one
refusal that is no fault is a Bind on a tenant whose database a failed
Deprovision has dropped; the last theorem leaves it out, as its property does,
and `bind_half_removed` shows it.

### Two deployments: `TwoBrokersProofs`

From `TwoBrokersAssumption`: two prefixes, no name of both, the assumptions above.

| Theorem | States |
|---|---|
| `TwoBrokersTellTheTruth` | `Spec => []BothTellTheTruth`, under every fault |
| `TwoBrokersKeepTheirTenants` | `Spec => []BothKeepTheirTenants`, given `NothingLost` |
| `TwoBrokersRollBack` | `Spec => []BothRollBack`, given `ContextsLive` |

The module takes the proofs of one deployment twice, by INSTANCE. `WorksIn(B)`
says that all names a deployment works on, in jobs and in bindings, are in `B`;
it is inductive because names are derived from the prefix (`NamesIn`). A step of
one therefore leaves alone every base name of the other (`StepLeavesAlone`), in
the second's eyes it is `Foreign`, and a `Foreign` step keeps `ProgressInv`, `TenantInv`
and `RollbackInv` (`ProgressFramed`, `TenantFramed`, `RollbackFramed`). None
of the three uses a lock between the two, which is what there is not.

### Keys: `KeyRotationProofs`

`KeyRotationProofs` assumes `RotationAssumption`: the special values are no keys,
secrets or rows.

| Theorem | States |
|---|---|
| `RotationTypes` | `Spec => []TypeOK` |
| `PreviousKeyCanGo` | `Spec => []PreviousKeyRetirable` |
| `ProcedureIsSafe` | `Spec => []ProcedureKeepsReadable` |
| `NoneInvisible` | `Spec => []NoInvisibleBinding` |
| `VaultImplemented` | `Spec => KeepsCredentials` |

`PreviousKeyRetirable` speaks of the moment the server starts, and what makes it
true is the loop before it. The invariant `RotInv` adds two facts about a process
that rotates: `Snapshot` (what is in `todo` is what its row holds, because no
handler runs yet) and `Handled` (a record that is not in `todo` is on the current
key). When `todo` is empty `Handled` is the property. `ProcedureInv` adds, for an
operator who follows the procedure, that the key of every record is one of the
two that are set: the new configuration keeps the old current key, and a
previous key is taken out only after a start that served, when by
`PreviousKeyRetirable` no record needs it. `VaultImplemented` maps each row to its
secret: `Reencrypt` changes the key and keeps the secret (`Resealed`).

### Inputs: `InputProofs`

From `QuotaAssumption` (plans have positive quotas) and `EmptyAssumption` (a missing
field is no UUID and no name):

| Theorem | States |
|---|---|
| `NamesAlwaysFit` | `Spec => []NamesFit`, names of any length |
| `CreateSchemaAlwaysEnforced` | `Spec => []CreateSchemaIsEnforced`, any maximum |
| `UpdateSchemaGapIsAll` | `Spec => []UpdateSchemaGap`, any maximum |
| `CatalogAlwaysUnambiguous` | `Spec => []CatalogUnambiguous`, any number of entries |
| `TemplatesSplitAsWritten` | `Spec => []SplitsAsWritten`, texts of any length |

The two of the schemas follow from `QuotasFollowSchema` (what the published schema
lets through is in bounds, and what is stored is in the plan). The last two are
about loops, and `MaxPlans` and `MaxTokens` may be any numbers.

Loops. What a loop computes takes induction over what it reads. The induction
theorems of the library have an operator as parameter and cannot be used, but a
subset of Nat has a least element without one (`WFMin`), which gives induction for a
set: `InductiveSet`. From it, once for all loops: a loop whose turns stay in a
set stays in it (`LoopTyped`), its values follow from each other (`LoopRuns`, in the
form `Turns`), and a loop over a longer input is the same loop and one more turn
(`LoopOfAppend`, the loops that start alike being equal). `CheckedTurns`, `SplitTurns`,
`CleanedTurns` and `ScannedTurns` are its uses: a turn of the code for the input with
one element more. `OpenTurns` does the same for the count of quotes.

The invariants are then inductive in the specification, whose steps append one
entry or one token. `PlansRead`: the loop refuses a plan that is unusable or whose
id or name it has met, and otherwise remembers exactly what it has read
(`LoopTells`); `LoopTellsNext` is its step, `FirstIsOnly` turns pairwise distinct ids
into "the lookup finds this plan". `TextRead` is the harder one: `splitSQL` cuts into
lines, drops lines and cuts again, the lexer passes once, and in the middle of
a line the two do not agree. `InStep` says how far apart they are: the lexer is where
the cleaned complete lines and the tokens of the current one would bring it, in
mode `literal` exactly if the line's quotes are odd, and in a comment exactly if the
line begins with one. `TokenInStep` and `NewlineInStep` keep it, and `BegunBefore`
shows that what `IsTemplate` asks of a finished text it asks of every beginning of
one, up to the line that is being written (`Begun`).

### What is only model-checked

Every invariant and action property of the passing runs is stated by a theorem. Liveness
is out of the prover's reach and stays with TLC: `EveryRequestAnswered` and
`RotationCompletes`, with the fairness they assume. So do the four runs that show a
violation.

## Not modelled

* Text beyond `SqlText`: `text/template`, the contents of `TEMPLATE_DIR` overrides,
  which characters `sanitizeName` keeps, the URI of credentials. They are functions of one
  string and well covered by the unit tests.
* TOML, the four checks of the service entry, the layout of `/v2/catalog`,
  `/healthz`, authentication, logging: no state.
* Two processes over one state database (`STATE_DSN`). `Broker.mu` is no lock
  between them, and nothing else is: the mutant `LockWithoutWaiting` of
  `NoCheckThenActRace` and `ImplementsContract` is that system. The same holds for
  an old process that still serves while a new one rotates: it would go on
  writing with the retired key. `KeyRotation` has one process.
* A change of `GAUSSDB_NAME_PREFIX` under existing records. Names are derived
  again from the record, so every operation would act on other objects; no
  code notices, and no comment promises anything.
* Statements that take effect after the handler has given up on them. Whether
  they do depends on the driver's cancel request and on the server.
* The server's own concurrency: tenants' sessions are not modelled, a `DROP
  DATABASE` they hold up is a statement that is refused.
* The nonce and the strength of AES-GCM: a ciphertext opens with its key only.

## Plan

Done: the broker process, its contract and its properties; key rotation with its
abstract vault; two deployments on one server; reads without the lock; the
rules for inputs. Each of their safety properties is checked on small instances
and proved for all.

What would come next:

* What the excluded faults can do. `NothingLost` is needed because a record can
  lose its role to a removal whose end was not seen, and its name then goes to
  another instance (`shared_tenant`). How far the damage of one such record can
  reach is said by no property.
* Statements that take effect after the handler has given up on them, once it is
  settled what the driver's cancel request promises.

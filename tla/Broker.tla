------------------------------- MODULE Broker -------------------------------
(***************************************************************************)
(* One broker process: the request handlers of broker.go, the Admin of     *)
(* gaussdb.go and driver.go they call under Broker.mu, and the two tables  *)
(* of state.go, next to the openGauss server the broker administers.       *)
(*                                                                         *)
(* A handler (a goroutine of net/http) takes a request, waits for mu,      *)
(* checks the request against the store, probes the server's catalogs,     *)
(* executes the statements of its templates one by one, writes the store   *)
(* and answers.  Nothing spans the server and the store: each statement    *)
(* and each store write is a step, and each can fail on its own.           *)
(***************************************************************************)
EXTENDS OpenGauss, InstanceParams, SqlTemplates

CONSTANTS
    Slots,       \* goroutines serving requests
    Free,        \* nobody holds mu
    ServiceIds,  \* service ids a request can carry
    ServiceID,   \* the one of the catalog
    Requests,    \* the requests the platform sends, a set of Calls
    NoRequest, NoRecord, NoJob,
    Faults       \* what can go wrong, see FaultKinds

(***************************************************************************)
(* "read":   a store read or a catalog probe returns an error              *)
(* "refuse": a statement, or the connection for it, fails with no effect   *)
(* "lost":   a statement takes effect and its answer never arrives         *)
(* "cancel": the client goes away and net/http cancels its context         *)
(* "store":  a store write returns an error, applied or not                *)
(* "crash":  the process stops and starts again                            *)
(***************************************************************************)
FaultKinds == {"read", "refuse", "lost", "cancel", "store", "crash"}

Operations == {"provision", "update", "deprovision", "bind", "unbind"}

\* A request; a field its operation does not use has any value.
Calls == [op : Operations, service : ServiceIds, inst : InstanceIds, bind : BindingIds,
          plan : Plans \cup {NoPlan}, name : Names, conn : Nat, gb : Nat]

InstanceRecord == [plan : Plans, name : Names, conn : Nat, gb : Nat]

Credentials == [database : Bases, username : Bases, password : Passwords \cup {NoPassword}]

BindingRecord == [inst : InstanceIds, user : Bases, name : Names, credentials : Credentials]

\* What buildVars hands to the templates.
TemplateVars == [base : Bases, user : Bases, conn : Nat, gb : Nat,
                 password : Passwords \cup {NoPassword}]

\* The work of a handler once its request is accepted: the record it will
\* write, the statement (or probe) it is at, and how far its rollback is.
Job == [vars : TemplateVars, record : InstanceRecord \cup {NoRecord},
        template : TemplateNames, at : Nat, undo : {"no", "yes", "done"}]

Results == {"none", "ok", "exists", "invalid", "conflict", "gone", "planchange", "error"}

ASSUME BrokerAssumption ==
    /\ Free \notin Slots
    /\ Requests \subseteq Calls
    /\ Faults \subseteq FaultKinds
    /\ NoRequest \notin Calls
    /\ NoRecord \notin InstanceRecord \cup BindingRecord
    /\ NoJob \notin Job

VARIABLES
    mu,         \* Broker.mu: who holds it
    instances,  \* table instance_records
    bindings,   \* table binding_records
    pg,         \* the openGauss server
    pc,         \* where each handler is
    req,        \* its request
    alive,      \* its context is not cancelled
    job,        \* its work
    faults,     \* how many of Faults its request met
    result      \* its answer

store == <<instances, bindings>>
vars == <<mu, instances, bindings, pg, pc, req, alive, job, faults, result>>

Init ==
    /\ mu = Free
    /\ instances = [i \in InstanceIds |-> NoRecord]
    /\ bindings = [b \in BindingIds |-> NoRecord]
    /\ pg = EmptyServer
    /\ pc = [r \in Slots |-> "idle"]
    /\ req = [r \in Slots |-> NoRequest]
    /\ alive = [r \in Slots |-> TRUE]
    /\ job = [r \in Slots |-> NoJob]
    /\ faults = [r \in Slots |-> 0]
    /\ result = [r \in Slots |-> "none"]

-----------------------------------------------------------------------------
\* Helpers.

Goto(r, place) == pc' = [pc EXCEPT ![r] = place]

\* The handler returns; the deferred Unlock follows.
Answer(r, answer) == Goto(r, "reply") /\ result' = [result EXCEPT ![r] = answer]

Suffer(r) == faults' = [faults EXCEPT ![r] = @ + 1]

Recorded(i) == instances[i] # NoRecord
Bound(b) == bindings[b] # NoRecord

\* Variant: Deprovision does not look for bindings.
NoBindingsOf(i) == {}

\* BindingsForInstance
BindingsOf(i) == {b \in BindingIds : Bound(b) /\ bindings[b].inst = i}

\* Variant: an omitted quota is stored, not the plan's.
RequotaWithoutPlan(record, q) == [record EXCEPT !.conn = q.conn, !.gb = q.gb]

\* The record Provision stores: ResolveInstanceParams over the plan.
Resolve(q) == [plan |-> q.plan, name |-> q.name,
               conn |-> Resolved(q.conn, MaxConn[q.plan]), gb |-> Resolved(q.gb, MaxGB[q.plan])]

\* Update changes the two quotas of the record it read, and nothing else.
Requota(record, q) == [record EXCEPT !.conn = Resolved(q.conn, MaxConn[record.plan]),
                                     !.gb = Resolved(q.gb, MaxGB[record.plan])]

\* buildVars; an instance template renders no user.
VarsOf(i, record) == [base |-> NamesFor(i, record.name), user |-> NamesFor(i, record.name),
                      conn |-> record.conn, gb |-> record.gb, password |-> NoPassword]

VarsOfUser(i, user) == [base |-> NamesFor(i, instances[i].name), user |-> user,
                        conn |-> 0, gb |-> 0, password |-> NoPassword]

NewJob(template, v, record) ==
    [vars |-> v, record |-> record, template |-> template, at |-> 1, undo |-> "no"]

Begin(r, place, work) == Goto(r, place) /\ job' = [job EXCEPT ![r] = work] /\ UNCHANGED result

-----------------------------------------------------------------------------
\* The reads.  They take no lock and change nothing: at any moment, in the
\* middle of any operation, the answer is what the store holds.

GetBinding(b) == IF Bound(b) THEN bindings[b].credentials ELSE "gone"

\* "synchronous operation": what is recorded has succeeded.
LastOperation(i) == IF Recorded(i) THEN "succeeded" ELSE "gone"

-----------------------------------------------------------------------------
\* From the request to the first statement.

Receive(r) ==
    /\ pc[r] = "idle"
    /\ \E q \in Requests : req' = [req EXCEPT ![r] = q]
    /\ Goto(r, "lock")
    /\ UNCHANGED <<mu, store, pg, alive, job, faults, result>>

\* Variant: no mutex.
LockWithoutWaiting(r) ==
    /\ pc[r] = "lock"
    /\ mu' = r
    /\ Goto(r, "check")
    /\ UNCHANGED <<store, pg, req, alive, job, faults, result>>

Lock(r) ==
    /\ pc[r] = "lock" /\ mu = Free
    /\ mu' = r
    /\ Goto(r, "check")
    /\ UNCHANGED <<store, pg, req, alive, job, faults, result>>

ValidProvision(q) ==
    q.service = ServiceID /\ q.plan \in Plans /\ ParamsOK(q.plan, q.conn, q.gb)

CheckProvision(r) ==
    LET q == req[r] IN
    /\ pc[r] = "check" /\ q.op = "provision"
    /\ \/ /\ ~ValidProvision(q)
          /\ Answer(r, "invalid") /\ UNCHANGED job
       \/ /\ ValidProvision(q) /\ Recorded(q.inst)
          /\ Answer(r, IF instances[q.inst] = Resolve(q) THEN "exists" ELSE "conflict")
          /\ UNCHANGED job
       \/ /\ ValidProvision(q) /\ ~Recorded(q.inst)
          /\ Begin(r, "probe", NewJob("admin-db/provision", VarsOf(q.inst, Resolve(q)), Resolve(q)))
    /\ UNCHANGED <<mu, store, pg, req, alive, faults>>

\* A request that names no plan, or the recorded one.
KeepsPlan(q) == q.plan \in {NoPlan, instances[q.inst].plan}

CheckUpdate(r) ==
    LET q == req[r]
        record == instances[q.inst] IN
    /\ pc[r] = "check" /\ q.op = "update"
    /\ \/ /\ q.service # ServiceID
          /\ Answer(r, "invalid") /\ UNCHANGED job
       \/ /\ q.service = ServiceID /\ ~Recorded(q.inst)
          /\ Answer(r, "gone") /\ UNCHANGED job
       \/ /\ q.service = ServiceID /\ Recorded(q.inst) /\ ~KeepsPlan(q)
          /\ Answer(r, "planchange") /\ UNCHANGED job
       \/ /\ q.service = ServiceID /\ Recorded(q.inst) /\ KeepsPlan(q)
          /\ ~ParamsOK(record.plan, q.conn, q.gb)
          /\ Answer(r, "invalid") /\ UNCHANGED job
       \/ /\ q.service = ServiceID /\ Recorded(q.inst) /\ KeepsPlan(q)
          /\ ParamsOK(record.plan, q.conn, q.gb)
          /\ Begin(r, "exec", NewJob("admin-db/update", VarsOf(q.inst, Requota(record, q)),
                                     Requota(record, q)))
    /\ UNCHANGED <<mu, store, pg, req, alive, faults>>

CheckDeprovision(r) ==
    LET q == req[r] IN
    /\ pc[r] = "check" /\ q.op = "deprovision"
    /\ \/ /\ q.service # ServiceID \/ (Recorded(q.inst) /\ BindingsOf(q.inst) # {})
          /\ Answer(r, "invalid") /\ UNCHANGED job
       \/ /\ q.service = ServiceID /\ ~Recorded(q.inst)
          /\ Answer(r, "gone") /\ UNCHANGED job
       \/ /\ q.service = ServiceID /\ Recorded(q.inst) /\ BindingsOf(q.inst) = {}
          /\ Begin(r, "exec", NewJob("admin-db/deprovision", VarsOf(q.inst, instances[q.inst]), NoRecord))
    /\ UNCHANGED <<mu, store, pg, req, alive, faults>>

\* The stored binding is what this request asks for.
SameBinding(q) == bindings[q.bind].inst = q.inst /\ bindings[q.bind].name = q.name

CheckBind(r) ==
    LET q == req[r] IN
    /\ pc[r] = "check" /\ q.op = "bind"
    /\ \/ /\ q.service # ServiceID
          /\ Answer(r, "invalid") /\ UNCHANGED job
       \/ /\ q.service = ServiceID /\ ~Recorded(q.inst)
          /\ Answer(r, "gone") /\ UNCHANGED job
       \/ /\ q.service = ServiceID /\ Recorded(q.inst) /\ Bound(q.bind)
          /\ Answer(r, IF SameBinding(q) THEN "exists" ELSE "conflict") /\ UNCHANGED job
       \/ /\ q.service = ServiceID /\ Recorded(q.inst) /\ ~Bound(q.bind)
          /\ \E password \in Passwords :
                Begin(r, "probe", NewJob("admin-db/bind",
                    [VarsOfUser(q.inst, UserFor(q.bind, q.name)) EXCEPT !.password = password],
                    NoRecord))
    /\ UNCHANGED <<mu, store, pg, req, alive, faults>>

CheckUnbind(r) ==
    LET q == req[r]
        known == Recorded(q.inst) /\ Bound(q.bind) /\ bindings[q.bind].inst = q.inst IN
    /\ pc[r] = "check" /\ q.op = "unbind"
    /\ \/ /\ q.service # ServiceID
          /\ Answer(r, "invalid") /\ UNCHANGED job
       \/ /\ q.service = ServiceID /\ ~known
          /\ Answer(r, "gone") /\ UNCHANGED job
       \/ /\ q.service = ServiceID /\ known
          /\ Begin(r, "exec", NewJob("tenant-db/unbind",
                VarsOfUser(q.inst, bindings[q.bind].user), NoRecord))
    /\ UNCHANGED <<mu, store, pg, req, alive, faults>>

\* GetInstance, GetBinding or BindingsForInstance returns an error; Provision
\* validates its parameters before it reads, the others look at the service first.
ReadFails(r) ==
    /\ pc[r] = "check" /\ "read" \in Faults
    /\ req[r].service = ServiceID
    /\ req[r].op = "provision" => ValidProvision(req[r])
    /\ Answer(r, "error") /\ Suffer(r)
    /\ UNCHANGED <<mu, store, pg, req, alive, job>>

\* Variant: only the database is probed.
ProbesOfDatabase(op) == IF op = "provision" THEN <<"database">> ELSE <<"user">>

\* What ensureAbsent looks up: Provision probes pg_database, pg_roles and
\* pg_tablespace, Bind probes pg_roles for the user.
Probes(op) == IF op = "provision" THEN <<"database", "role", "tablespace">> ELSE <<"user">>

Exists(s, v, object) ==
    \/ object = "database"   /\ s.dbs[v.base] # Absent
    \/ object = "role"       /\ v.base \in s.roles
    \/ object = "tablespace" /\ s.tss[v.base] # Absent
    \/ object = "user"       /\ s.users[v.user] # NoPassword

EnsureAbsent(r) ==
    LET probes == Probes(req[r].op)
        taken == Exists(pg, job[r].vars, probes[job[r].at]) IN
    /\ pc[r] = "probe" /\ alive[r]
    /\ \/ taken /\ Answer(r, "conflict") /\ UNCHANGED job
       \/ /\ ~taken /\ job[r].at < Len(probes)
          /\ job' = [job EXCEPT ![r].at = @ + 1] /\ UNCHANGED <<pc, result>>
       \/ /\ ~taken /\ job[r].at = Len(probes)
          /\ Begin(r, "exec", [job[r] EXCEPT !.at = 1])
    /\ UNCHANGED <<mu, store, pg, req, alive, faults>>

ProbeFails(r) ==
    /\ pc[r] = "probe"
    /\ ~alive[r] \/ "read" \in Faults
    /\ Answer(r, "error")
    /\ IF alive[r] THEN Suffer(r) ELSE UNCHANGED faults
    /\ UNCHANGED <<mu, store, pg, req, alive, job>>

-----------------------------------------------------------------------------
\* The statements of the templates.

Statement(r) == Template(job[r].template)[job[r].at]

\* After the last statement of the last template the handler writes the
\* store, or, if it was rolling back, returns the error that made it.
Advance(r) ==
    LET t == job[r].template IN
    \/ /\ job[r].at < Len(Template(t))
       /\ job' = [job EXCEPT ![r].at = @ + 1]
       /\ UNCHANGED <<pc, result>>
    \/ /\ job[r].at = Len(Template(t)) /\ t \in TwoPart
       /\ job' = [job EXCEPT ![r].template = SecondPart(t), ![r].at = 1]
       /\ UNCHANGED <<pc, result>>
    \/ /\ job[r].at = Len(Template(t)) /\ t \notin TwoPart /\ job[r].undo = "no"
       /\ Goto(r, "store")
       /\ UNCHANGED <<job, result>>
    \/ /\ job[r].at = Len(Template(t)) /\ t \notin TwoPart /\ job[r].undo = "yes"
       /\ job' = [job EXCEPT ![r].undo = "done"]
       /\ Answer(r, "error")

\* Variant: a failure of the second template is just returned.
RollsBackFirstPart(r) ==
    /\ req[r].op \in {"provision", "bind"} /\ job[r].undo = "no"
    /\ job[r].template \in TwoPart

\* Variant: a rollback that fails is begun again.
RollsBackAgain(r) == req[r].op \in {"provision", "bind"}

\* Provision rolls back with Deprovision and Bind with Unbind, on the same
\* context and without looking at the outcome; the others just return.
RollsBack(r) == req[r].op \in {"provision", "bind"} /\ job[r].undo = "no"

Rollback(op) == IF op = "provision" THEN "admin-db/deprovision" ELSE "tenant-db/unbind"

Fail(r) ==
    \/ /\ RollsBack(r)
       /\ job' = [job EXCEPT ![r].template = Rollback(req[r].op), ![r].at = 1, ![r].undo = "yes"]
       /\ UNCHANGED <<pc, result>>
    \/ ~RollsBack(r) /\ Answer(r, "error") /\ UNCHANGED job

StatementSucceeds(r) ==
    /\ pc[r] = "exec" /\ alive[r]
    /\ Permits(pg, job[r].vars, Statement(r))
    /\ pg' = Effect(pg, job[r].vars, Statement(r))
    /\ Advance(r)
    /\ UNCHANGED <<mu, store, req, alive, faults>>

\* The server rejects the statement, the context is dead (Connect and Exec
\* return at once), or the connection fails.
StatementFails(r) ==
    LET expected == ~alive[r] \/ ~Permits(pg, job[r].vars, Statement(r)) IN
    /\ pc[r] = "exec"
    /\ \/ expected /\ UNCHANGED faults
       \/ ~expected /\ "refuse" \in Faults /\ Suffer(r)
    /\ Fail(r)
    /\ UNCHANGED <<mu, store, pg, req, alive>>

\* The statement takes effect, but the connection or the request's context
\* ends before its answer is read.
ReplyLost(r) ==
    /\ pc[r] = "exec" /\ alive[r] /\ "lost" \in Faults
    /\ Permits(pg, job[r].vars, Statement(r))
    /\ pg' = Effect(pg, job[r].vars, Statement(r))
    /\ \/ UNCHANGED alive
       \/ "cancel" \in Faults /\ alive' = [alive EXCEPT ![r] = FALSE]
    /\ Suffer(r)
    /\ Fail(r)
    /\ UNCHANGED <<mu, store, req>>

-----------------------------------------------------------------------------
\* The store write and the answer.

CredentialsOf(r) == [database |-> job[r].vars.base, username |-> job[r].vars.user,
                     password |-> job[r].vars.password]

\* PutInstance, DeleteInstance, PutBinding and DeleteBinding.
StoreEffect(r) ==
    LET q == req[r] IN
    \/ /\ q.op \in {"provision", "update"}
       /\ instances' = [instances EXCEPT ![q.inst] = job[r].record]
       /\ UNCHANGED bindings
    \/ /\ q.op = "deprovision"
       /\ instances' = [instances EXCEPT ![q.inst] = NoRecord]
       /\ UNCHANGED bindings
    \/ /\ q.op = "bind"
       /\ bindings' = [bindings EXCEPT ![q.bind] =
             [inst |-> q.inst, user |-> job[r].vars.user, name |-> q.name,
              credentials |-> CredentialsOf(r)]]
       /\ UNCHANGED instances
    \/ /\ q.op = "unbind"
       /\ bindings' = [bindings EXCEPT ![q.bind] = NoRecord]
       /\ UNCHANGED instances

StoreWrite(r) ==
    /\ pc[r] = "store"
    /\ StoreEffect(r)
    /\ Answer(r, "ok")
    /\ UNCHANGED <<mu, pg, req, alive, job, faults>>

\* The write returns an error; over a network the row may have changed all the same.
StoreFails(r) ==
    /\ pc[r] = "store" /\ "store" \in Faults
    /\ StoreEffect(r) \/ UNCHANGED store
    /\ Answer(r, "error") /\ Suffer(r)
    /\ UNCHANGED <<mu, pg, req, alive, job>>

Forget(r) ==
    /\ req' = [req EXCEPT ![r] = NoRequest]
    /\ alive' = [alive EXCEPT ![r] = TRUE]
    /\ job' = [job EXCEPT ![r] = NoJob]
    /\ faults' = [faults EXCEPT ![r] = 0]
    /\ result' = [result EXCEPT ![r] = "none"]

\* Variant: a failed handler returns without unlocking.
ReplyHoldingLock(r) ==
    /\ pc[r] = "reply"
    /\ mu' = IF result[r] = "error" THEN mu ELSE Free
    /\ Goto(r, "idle") /\ Forget(r)
    /\ UNCHANGED <<store, pg>>

Reply(r) ==
    /\ pc[r] = "reply"
    /\ mu' = Free
    /\ Goto(r, "idle") /\ Forget(r)
    /\ UNCHANGED <<store, pg>>

-----------------------------------------------------------------------------
\* The client and the process.

\* net/http cancels the context of a request whose client disconnects.
ClientGone(r) ==
    /\ "cancel" \in Faults
    /\ pc[r] \notin {"idle", "reply"} /\ alive[r]
    /\ alive' = [alive EXCEPT ![r] = FALSE]
    /\ UNCHANGED <<mu, store, pg, pc, req, job, faults, result>>

\* The process stops (killed, or main returns when the 10 s of Shutdown are
\* over) and starts again: only the store and the server remain.
Crash ==
    /\ "crash" \in Faults
    /\ mu' = Free
    /\ pc' = [r \in Slots |-> "idle"]
    /\ req' = [r \in Slots |-> NoRequest]
    /\ alive' = [r \in Slots |-> TRUE]
    /\ job' = [r \in Slots |-> NoJob]
    /\ faults' = [r \in Slots |-> 0]
    /\ result' = [r \in Slots |-> "none"]
    /\ UNCHANGED <<store, pg>>

Check(r) ==
    \/ CheckProvision(r) \/ CheckUpdate(r) \/ CheckDeprovision(r)
    \/ CheckBind(r) \/ CheckUnbind(r) \/ ReadFails(r)

\* What a handler that holds mu does next.
Proceed(r) ==
    \/ Check(r)
    \/ EnsureAbsent(r) \/ ProbeFails(r)
    \/ StatementSucceeds(r) \/ StatementFails(r) \/ ReplyLost(r)
    \/ StoreWrite(r) \/ StoreFails(r)
    \/ Reply(r)

Next ==
    \/ \E r \in Slots : Receive(r) \/ Lock(r) \/ Proceed(r) \/ ClientGone(r)
    \/ Crash

Spec == Init /\ [][Next]_vars

(***************************************************************************)
(* A handler that holds mu goes on: every call it makes returns, with a    *)
(* result or an error (Exec has a deadline; that the probes and the store, *)
(* which have none, return is an assumption on their drivers).  sync.Mutex *)
(* hands itself to the longest waiter after 1 ms, so no handler waits for  *)
(* ever: strong fairness of Lock.  Nobody has to send a request, and       *)
(* nothing has to fail.                                                    *)
(***************************************************************************)
Fairness == \A r \in Slots : WF_vars(Proceed(r)) /\ SF_vars(Lock(r))

FairSpec == Spec /\ Fairness
=============================================================================

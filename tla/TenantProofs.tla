---------------------------- MODULE TenantProofs ----------------------------
(***************************************************************************)
(* The records and the server agree, for every workload, as long as every  *)
(* failure is reported and has had no effect: faults "read", "refuse" and  *)
(* "cancel".  A recorded tenant keeps its role, so no Provision gets past  *)
(* its probe on that name; a bound user exists, so no Bind takes its name; *)
(* and what a removal needs is there until its last statement.             *)
(***************************************************************************)
EXTENDS SuccessProofs

NothingLost == Faults \subseteq {"read", "refuse", "cancel"}

\* A recorded tenant whose database is there has all its privileges.
PrivilegesKept ==
    \A i \in InstanceIds :
        Recorded(i) /\ pg.dbs[BaseOfRecord(i)] # Absent => pg.acl[BaseOfRecord(i)] = Privileges

TenantsKept == DedicatedTenant /\ NameStaysTaken /\ QuotaWithinPlan /\ PrivilegesKept

\* What Unbind needs of a binding: its database is there, its user has
\* default privileges nowhere else.
UsersKept ==
    \A b \in BindingIds : Bound(b) =>
        LET user == bindings[b].user
            c == bindings[b].credentials
            base == BaseOfRecord(bindings[b].inst) IN
        /\ c.username = user /\ c.database = base /\ c.password # NoPassword
        /\ pg.dbs[base] # Absent
        /\ \A other \in Bases \ {base} : \A d \in pg.defaults[other] : d[1] # user

\* Past its probe of the role (the user), a Provision (Bind) has a name that
\* no record has.
Claims(r) ==
    LET w == job[r] IN
    /\ (pc[r] \in {"exec", "store"} \/ (pc[r] = "probe" /\ w.at = 3)) /\ req[r].op = "provision" =>
          \A i \in InstanceIds : Recorded(i) => BaseOfRecord(i) # w.vars.base
    /\ pc[r] \in {"exec", "store"} /\ req[r].op = "bind" =>
          \A b \in BindingIds : Bound(b) => bindings[b].user # w.vars.user

TenantInv ==
    /\ ProgressInv
    /\ BindingHasInstance
    /\ TenantsKept /\ UsersKept /\ CredentialsWork
    /\ RemovalCanBeRetried
    /\ \A r \in Slots : Claims(r)

-----------------------------------------------------------------------------
\* Which statements a task is made of.
LEMMA TaskStatements ==
    ASSUME NEW s, NEW q, NEW w \in Job, Executing(s, q, w)
    PROVE  LET op == Template(w.template)[w.at]
               task == Task(q, w) IN
           /\ task = "update" => op \in {"GRANT_ROLE_TO_ADMIN", "ALTER_DATABASE_LIMIT",
                                         "ALTER_TABLESPACE_MAXSIZE", "REVOKE_ROLE_FROM_ADMIN"}
           /\ task = "deprovision" => op \in {"GRANT_ROLE_TO_ADMIN", "TERMINATE_DATABASE",
                                              "DROP_DATABASE", "DROP_TABLESPACE",
                                              "REVOKE_ROLE_FROM_ADMIN", "DROP_ROLE"}
           /\ task = "bind" => op \in {"CREATE_USER", "GRANT_ROLE_TO_USER"} \cup Defaults
           /\ task = "unbind" => op \in {"TERMINATE_USER", "DROP_OWNED", "DROP_SCHEMA", "DROP_USER"}
           /\ task = "provision" =>
                 op \notin {"CREATE_USER", "GRANT_ROLE_TO_USER", "DROP_OWNED", "DROP_SCHEMA", "DROP_USER",
                            "DROP_ROLE", "DROP_DATABASE"} \cup Defaults
           /\ op \in {"DROP_ROLE", "DROP_USER"} =>
                 w.at = Len(Template(w.template)) /\ w.template \notin TwoPart
<1> DEFINE t == w.template
<1>1. t \in TemplateNames /\ BelongsTo(t, Task(q, w)) /\ w.at \in 1..Len(Template(t))
  BY DEF Job, Executing
<1> USE DEF BelongsTo, Template, Defaults, TwoPart
<1>2. CASE t = "admin-db/provision"
  BY <1>1, <1>2 DEF AdminProvision
<1>3. CASE t = "tenant-db/provision"
  BY <1>1, <1>3 DEF TenantProvision
<1>4. CASE t = "admin-db/update"
  BY <1>1, <1>4 DEF AdminUpdate
<1>5. CASE t = "admin-db/deprovision"
  BY <1>1, <1>5 DEF AdminDeprovision
<1>6. CASE t = "admin-db/bind"
  BY <1>1, <1>6 DEF AdminBind
<1>7. CASE t = "tenant-db/bind"
  BY <1>1, <1>7 DEF TenantBind
<1>8. CASE t = "tenant-db/unbind"
  BY <1>1, <1>8 DEF TenantUnbind
<1>9. CASE t = "admin-db/unbind"
  BY <1>1, <1>9 DEF AdminUnbind
<1>10. QED
  BY <1>1, <1>2, <1>3, <1>4, <1>5, <1>6, <1>7, <1>8, <1>9 DEF TemplateNames

-----------------------------------------------------------------------------
\* What is known of a handler that executes a statement.
LEMMA AtStatement ==
    ASSUME TenantInv, NEW r \in Slots, pc[r] = "exec"
    PROVE  /\ mu = r /\ pg \in Server /\ Sound(pg)
           /\ req[r] \in Calls /\ job[r] \in Job /\ job[r].vars \in TemplateVars
           /\ Filled(req[r], job[r]) /\ Executing(pg, req[r], job[r])
           /\ StillAsChecked(r) /\ JobOfRequest(r)
           /\ \A i \in InstanceIds : Recorded(i) =>
                 instances[i] \in InstanceRecord /\ BaseOfRecord(i) \in Bases
                 /\ BaseOfRecord(i) \in pg.roles
           /\ \A b \in BindingIds : Bound(b) =>
                 /\ bindings[b] \in BindingRecord /\ Recorded(bindings[b].inst)
                 /\ Works(bindings[b].credentials)
                 /\ \A c \in BindingIds \ {b} : Bound(c) => bindings[c].user # bindings[b].user
<1>1. mu = r /\ \A s \in Slots : pc[s] # "store"
  BY DEF TenantInv, ProgressInv, RaceInv, LockInv, OneAtATime, Critical
<1>2. /\ pg \in Server /\ Sound(pg)
      /\ req[r] \in Calls /\ job[r] \in Job /\ job[r].vars \in TemplateVars
      /\ Filled(req[r], job[r]) /\ Executing(pg, req[r], job[r])
      /\ StillAsChecked(r) /\ JobOfRequest(r)
  BY DEF TenantInv, ProgressInv, RaceInv, TypeInv, TypeOK, Progress, Working, Job
<1>3. ASSUME NEW i \in InstanceIds, Recorded(i)
      PROVE  instances[i] \in InstanceRecord /\ BaseOfRecord(i) \in Bases /\ BaseOfRecord(i) \in pg.roles
  <2>1. instances[i] \in InstanceRecord
    BY <1>3 DEF TenantInv, ProgressInv, RaceInv, TypeInv, TypeOK, Recorded
  <2>2. BaseOfRecord(i) \in Bases
    BY <2>1, NameTyped DEF InstanceRecord, BaseOfRecord
  <2>3. BaseOfRecord(i) \in pg.roles
    BY <1>1, <1>3 DEF TenantInv, TenantsKept, NameStaysTaken, Removing
  <2>4. QED
    BY <2>1, <2>2, <2>3
<1>4. ASSUME NEW b \in BindingIds, Bound(b)
      PROVE  /\ bindings[b] \in BindingRecord /\ Recorded(bindings[b].inst)
             /\ Works(bindings[b].credentials)
             /\ \A c \in BindingIds \ {b} : Bound(c) => bindings[c].user # bindings[b].user
  <2>1. bindings[b] \in BindingRecord
    BY <1>4 DEF TenantInv, ProgressInv, RaceInv, TypeInv, TypeOK, Bound
  <2>2. Recorded(bindings[b].inst)
    BY <1>4 DEF TenantInv, BindingHasInstance
  <2>3. /\ Works(bindings[b].credentials)
        /\ \A c \in BindingIds \ {b} : Bound(c) => bindings[c].user # bindings[b].user
    BY <1>1, <1>4 DEF TenantInv, CredentialsWork, Removing, GetBinding
  <2>4. QED
    BY <2>1, <2>2, <2>3
<1>5. QED
  BY <1>1, <1>2, <1>3, <1>4

\* No statement takes from a recorded tenant what its record promises, except
\* that the last one of Deprovision takes its role.
LEMMA StatementKeepsTenant ==
    ASSUME TenantInv, NEW r \in Slots, pc[r] = "exec",
           NEW e \in Server, Permits(pg, job[r].vars, Statement(r)),
           Executes(pg, job[r].vars, Statement(r), e),
           NEW i \in InstanceIds, Recorded(i)
    PROVE  LET base == BaseOfRecord(i) IN
           /\ base \in e.roles \/ (/\ Statement(r) = "DROP_ROLE" /\ req[r].op = "deprovision"
                                   /\ req[r].inst = i)
           /\ e.dbs[base] <= MaxConn[instances[i].plan]
           /\ e.tss[base] <= MaxGB[instances[i].plan]
           /\ e.dbs[base] # Absent => e.acl[base] = Privileges
           /\ pg.dbs[base] # Absent => \/ e.dbs[base] # Absent
                                       \/ req[r].op = "deprovision" /\ req[r].inst = i
<1> DEFINE q == req[r]
           w == job[r]
           v == w.vars
           op == Statement(r)
           base == BaseOfRecord(i)
<1>1. /\ pg \in Server /\ q \in Calls /\ q.inst \in InstanceIds /\ w \in Job /\ v \in TemplateVars
      /\ v.base \in Bases /\ Filled(q, w) /\ Executing(pg, q, w)
      /\ StillAsChecked(r) /\ JobOfRequest(r)
      /\ instances[i] \in InstanceRecord /\ base \in Bases /\ base \in pg.roles
  BY AtStatement DEF Calls, TemplateVars
<1>2. /\ pg.dbs[base] <= MaxConn[instances[i].plan]
      /\ pg.tss[base] <= MaxGB[instances[i].plan]
      /\ pg.dbs[base] # Absent => pg.acl[base] = Privileges
  BY DEF TenantInv, TenantsKept, QuotaWithinPlan, PrivilegesKept
<1>3. /\ KeepsOtherTenants(pg, v, e) /\ ChangesTenant(pg, v, op, e) /\ ChangesPrivileges(pg, v, op, e)
  BY DEF Executes
<1>4. CASE base # v.base
  BY <1>1, <1>2, <1>3, <1>4 DEF KeepsOtherTenants
<1>5. CASE base = v.base /\ q.op = "provision"
  BY <1>5 DEF TenantInv, Claims
<1>6. CASE base = v.base /\ q.op = "update"
  <2>1. w.undo = "no" /\ Task(q, w) = "update"
    BY <1>1, <1>6 DEF Executing, Task
  <2>2. op \in {"GRANT_ROLE_TO_ADMIN", "ALTER_DATABASE_LIMIT", "ALTER_TABLESPACE_MAXSIZE",
                "REVOKE_ROLE_FROM_ADMIN"}
    BY <1>1, <2>1, TaskStatements DEF Statement
  <2>3. q.inst = i
    BY <1>1, <1>6 DEF StillAsChecked, TenantInv, TenantsKept, DedicatedTenant
  <2>4. v.conn <= MaxConn[instances[i].plan] /\ v.gb <= MaxGB[instances[i].plan]
        /\ v.conn # Absent
    <3>1. ParamsOK(instances[i].plan, q.conn, q.gb) /\ instances[i].plan \in Plans
      BY <1>1, <1>6, <2>3 DEF JobOfRequest, InstanceRecord
    <3>2. w.record = Requota(instances[i], q)
      BY <1>1, <1>6, <2>3 DEF StillAsChecked
    <3>3. /\ w.record.conn = Resolved(q.conn, MaxConn[instances[i].plan])
          /\ w.record.gb = Resolved(q.gb, MaxGB[instances[i].plan])
      BY <1>1, <3>2 DEF Requota, InstanceRecord
    <3>4. v.conn = w.record.conn /\ v.gb = w.record.gb /\ v.conn # Absent
      BY <1>1, <1>6 DEF Filled
    <3>5. /\ Resolved(q.conn, MaxConn[instances[i].plan]) \in 1..MaxConn[instances[i].plan]
          /\ Resolved(q.gb, MaxGB[instances[i].plan]) \in 1..MaxGB[instances[i].plan]
      BY <1>1, <3>1, ResolvedInPlan, CatalogAssumption DEF ParamsOK, Calls
    <3>6. QED
      BY <3>1, <3>3, <3>4, <3>5, CatalogAssumption
  <2>5. e.acl[base] = pg.acl[base] /\ base \in e.roles
    BY <1>1, <1>3, <1>6, <2>2 DEF ChangesTenant, ChangesPrivileges, Privileges
  <2>6. /\ e.dbs[base] \in {pg.dbs[base], v.conn} /\ e.tss[base] \in {pg.tss[base], v.gb}
        /\ e.dbs[base] # Absent => pg.dbs[base] # Absent
        /\ pg.dbs[base] # Absent => e.dbs[base] # Absent
    BY <1>3, <1>6, <2>2, <2>4 DEF ChangesTenant, Permits, NamesDatabase
  <2>7. QED
    BY <1>2, <2>4, <2>5, <2>6
<1>7. CASE base = v.base /\ q.op = "deprovision"
  <2>1. w.undo = "no" /\ Task(q, w) = "deprovision"
    BY <1>1, <1>7 DEF Executing, Task
  <2>2. op \in {"GRANT_ROLE_TO_ADMIN", "TERMINATE_DATABASE", "DROP_DATABASE", "DROP_TABLESPACE",
                "REVOKE_ROLE_FROM_ADMIN", "DROP_ROLE"}
    BY <1>1, <2>1, TaskStatements DEF Statement
  <2>3. q.inst = i
    BY <1>1, <1>7 DEF StillAsChecked, TenantInv, TenantsKept, DedicatedTenant
  <2>4. MaxConn[instances[i].plan] \in Nat /\ MaxGB[instances[i].plan] \in Nat
    BY <1>1, CatalogAssumption DEF InstanceRecord
  <2>5. /\ e.dbs[base] \in {pg.dbs[base], Absent} /\ e.tss[base] \in {pg.tss[base], Absent}
        /\ e.dbs[base] # Absent => pg.dbs[base] # Absent /\ e.acl[base] = pg.acl[base]
        /\ op # "DROP_ROLE" => base \in e.roles
    BY <1>1, <1>3, <1>7, <2>2 DEF ChangesTenant, ChangesPrivileges, Privileges
  <2>6. QED
    BY <1>2, <1>7, <2>3, <2>4, <2>5 DEF Absent
<1>8. CASE base = v.base /\ q.op \in {"bind", "unbind"}
  <2>1. Task(q, w) \in {"bind", "unbind"}
    BY <1>8 DEF Task
  <2>2. op \in {"CREATE_USER", "GRANT_ROLE_TO_USER", "TERMINATE_USER", "DROP_OWNED", "DROP_SCHEMA",
                "DROP_USER"} \cup Defaults
    BY <1>1, <2>1, TaskStatements DEF Statement
  <2>3. /\ base \in e.roles /\ e.dbs[base] = pg.dbs[base] /\ e.tss[base] = pg.tss[base]
        /\ e.acl[base] = pg.acl[base]
    BY <1>1, <1>3, <1>8, <2>2 DEF ChangesTenant, ChangesPrivileges, Privileges, Defaults
  <2>4. QED
    BY <1>2, <2>3
<1>9. QED
  BY <1>1, <1>4, <1>5, <1>6, <1>7, <1>8 DEF Calls, Operations

\* Nor from a bound user, except that the last one of Unbind takes the user.
LEMMA StatementKeepsUser ==
    ASSUME TenantInv, NEW r \in Slots, pc[r] = "exec",
           NEW e \in Server, Permits(pg, job[r].vars, Statement(r)),
           Executes(pg, job[r].vars, Statement(r), e),
           NEW b \in BindingIds, Bound(b)
    PROVE  LET user == bindings[b].user
               base == BaseOfRecord(bindings[b].inst) IN
           /\ e.dbs[base] # Absent
           /\ \A other \in Bases \ {base} : \A d \in e.defaults[other] : d[1] # user
           /\ \/ /\ e.users[user] = pg.users[user]
                 /\ \A m \in e.member : m[1] = user => m \in pg.member
                 /\ \A m \in pg.member : m[1] = user => m \in e.member
              \/ Statement(r) = "DROP_USER" /\ req[r].op = "unbind" /\ req[r].bind = b
<1> DEFINE q == req[r]
           w == job[r]
           v == w.vars
           op == Statement(r)
           i == bindings[b].inst
           user == bindings[b].user
           base == BaseOfRecord(i)
           task == Task(q, w)
<1>1. /\ pg \in Server /\ q \in Calls /\ q.inst \in InstanceIds /\ w \in Job /\ v \in TemplateVars
      /\ v.base \in Bases /\ v.user \in Bases /\ Filled(q, w) /\ Executing(pg, q, w)
      /\ StillAsChecked(r) /\ JobOfRequest(r)
      /\ i \in InstanceIds /\ user \in Bases /\ Recorded(i) /\ base \in Bases
  BY AtStatement DEF Calls, TemplateVars, BindingRecord
<1>2. /\ pg.dbs[base] # Absent
      /\ \A other \in Bases \ {base} : \A d \in pg.defaults[other] : d[1] # user
      /\ bindings[b].credentials.username = user /\ bindings[b].credentials.database = base
      /\ Works(bindings[b].credentials)
  BY AtStatement DEF TenantInv, UsersKept
<1>3. q.op = "deprovision" => q.inst # i /\ v.base # base
  <2>1. q.op = "deprovision" => q.inst # i
    BY <1>1 DEF StillAsChecked, BindingsOf
  <2>2. q.op = "deprovision" => Recorded(q.inst) /\ v.base = BaseOfRecord(q.inst)
    BY <1>1 DEF StillAsChecked
  <2>3. QED
    BY <1>1, <2>1, <2>2 DEF TenantInv, TenantsKept, DedicatedTenant
<1>4. q.op = "provision" => v.base # base
  BY <1>1 DEF TenantInv, Claims
<1>5. task \in {"bind", "unbind"} => q.op \in {"bind", "unbind"}
  BY <1>1 DEF Executing, Task
<1>6. task = "deprovision" => q.op \in {"provision", "deprovision"}
  BY <1>1 DEF Executing, Task
<1>7. q.op = "bind" => v.user # user
  BY DEF TenantInv, Claims
<1>8. q.op = "unbind" => v.user # user \/ q.bind = b
  <2>1. q.op = "unbind" => q.bind \in BindingIds /\ Bound(q.bind) /\ v.user = bindings[q.bind].user
    BY <1>1 DEF StillAsChecked, Calls
  <2>2. QED
    BY <2>1, AtStatement
<1>9. e.dbs[base] # Absent
  BY <1>2, <1>3, StatementKeepsTenant, <1>1
<1>10. ASSUME NEW other \in Bases \ {base}, NEW d \in e.defaults[other] PROVE d[1] # user
  <2>1. CASE d \in pg.defaults[other]
    BY <1>2, <2>1
  <2>2. CASE d \notin pg.defaults[other]
    <3>1. other = v.base /\ op \in Defaults /\ d[1] = v.user
      BY <2>2 DEF Executes, KeepsOtherTenants, ChangesDefaults
    <3>2. task = "bind"
      <4>1. task \in Operations
        BY <1>1 DEF Task, Calls, Operations
      <4>2. QED
        BY <1>1, <3>1, <4>1, TaskStatements DEF Statement, Operations, Defaults
    <3>3. q.op = "bind"
      BY <1>1, <3>2 DEF Task, Executing
    <3>4. QED
      BY <1>7, <3>1, <3>3
  <2>3. QED
    BY <2>1, <2>2
<1>11. \/ /\ e.users[user] = pg.users[user]
          /\ \A m \in e.member : m[1] = user => m \in pg.member
          /\ \A m \in pg.member : m[1] = user => m \in e.member
       \/ op = "DROP_USER" /\ q.op = "unbind" /\ q.bind = b
  <2>0. task \in Operations
    BY <1>1 DEF Task, Calls, Operations
  <2>1. op \in {"CREATE_USER", "GRANT_ROLE_TO_USER", "DROP_USER"} => task \in {"bind", "unbind"}
    BY <1>1, <2>0, TaskStatements DEF Statement, Operations, Defaults
  <2>2. op = "DROP_ROLE" => task = "deprovision"
    BY <1>1, <2>0, TaskStatements DEF Statement, Operations, Defaults
  <2>3. op \in {"CREATE_USER", "GRANT_ROLE_TO_USER"} => task = "bind"
    BY <1>1, <2>0, TaskStatements DEF Statement, Operations, Defaults
  <2>4. op \in {"CREATE_USER", "GRANT_ROLE_TO_USER"} => v.user # user
    <3>1. task = "bind" => q.op = "bind"
      BY <1>1 DEF Task, Executing
    <3>2. QED
      BY <1>7, <2>3, <3>1
  <2>5. op = "DROP_USER" => v.user # user \/ (q.op = "unbind" /\ q.bind = b)
    BY <1>5, <1>7, <1>8, <2>1
  <2>6. op = "DROP_ROLE" => v.base # base
    BY <1>3, <1>4, <1>6, <2>2
  <2>7. \A m \in pg.member : m[1] = user => m[2] = base
    BY <1>2 DEF Works
  <2>8. CASE op = "DROP_USER" /\ q.op = "unbind" /\ q.bind = b
    BY <2>8
  <2>9. CASE ~(op = "DROP_USER" /\ q.op = "unbind" /\ q.bind = b)
    <3>1. e.users[user] = pg.users[user]
      BY <1>1, <2>4, <2>5, <2>9 DEF Executes, KeepsOtherUsers, ChangesUser
    <3>2. \A m \in e.member : m[1] = user => m \in pg.member
      BY <2>4 DEF Executes, ChangesMembers
    <3>3. \A m \in pg.member : m[1] = user => m \in e.member
      BY <2>5, <2>6, <2>7, <2>9 DEF Executes, ChangesMembers
    <3>4. QED
      BY <3>1, <3>2, <3>3
  <2>10. QED
    BY <2>8, <2>9
<1>12. QED
  BY <1>9, <1>10, <1>11

\* A step that touches neither store nor server, and takes no handler from the
\* store write it is about to make.
LEMMA QuietStep ==
    ASSUME TenantInv, UNCHANGED <<pg, instances, bindings>>,
           \A s \in Slots : pc[s] = "store" => pc'[s] = "store" /\ req'[s] = req[s]
    PROVE  TenantsKept' /\ UsersKept' /\ CredentialsWork'
<1> USE DEF TenantInv, Recorded, Bound, BaseOfRecord
<1>1. DedicatedTenant' /\ QuotaWithinPlan' /\ PrivilegesKept' /\ UsersKept'
  BY DEF TenantsKept, DedicatedTenant, QuotaWithinPlan, PrivilegesKept, UsersKept
<1>2. NameStaysTaken'
  BY DEF TenantsKept, NameStaysTaken, Removing
<1>3. CredentialsWork'
  BY DEF CredentialsWork, Works, GetBinding, Removing
<1>4. QED
  BY <1>1, <1>2, <1>3 DEF TenantsKept

LEMMA StatementKeepsAll ==
    ASSUME TenantInv, NEW r \in Slots, StatementSucceeds(r)
    PROVE  TenantsKept' /\ UsersKept' /\ CredentialsWork'
<1> DEFINE q == req[r]
           w == job[r]
           op == Statement(r)
<1>1. /\ pc[r] = "exec" /\ UNCHANGED <<instances, bindings, req>> /\ Advance(r)
      /\ Permits(pg, w.vars, op) /\ pg' = Effect(pg, w.vars, op)
  BY DEF StatementSucceeds, store
<1>2. pg' \in Server /\ Executes(pg, w.vars, op, pg')
  BY <1>1, StatementDone DEF TenantInv
<1>3. op \in {"DROP_ROLE", "DROP_USER"} /\ q.op \in {"deprovision", "unbind"} => pc'[r] = "store"
  <2>1. w \in Job /\ Executing(pg, q, w) /\ q \in Calls
    BY <1>1, AtStatement
  <2>2. q.op \in {"deprovision", "unbind"} => w.undo = "no"
    BY <2>1 DEF Executing
  <2>3. q.op = "deprovision" => Task(q, w) = "deprovision"
    BY <2>2 DEF Task
  <2>4. q.op = "unbind" => Task(q, w) = "unbind"
    BY <2>2 DEF Task
  <2>5. op \in {"DROP_ROLE", "DROP_USER"} => w.at = Len(Template(w.template)) /\ w.template \notin TwoPart
    BY <2>1, TaskStatements DEF Statement
  <2>6. Len(Template(w.template)) \in Nat
    BY <2>1 DEF Job, Template, TemplateNames, AdminProvision, TenantProvision, AdminUpdate,
       AdminDeprovision, AdminBind, TenantBind, TenantUnbind, AdminUnbind
  <2>7. QED
    BY <1>1, <2>2, <2>5, <2>6 DEF Advance, Goto, TenantInv, ProgressInv, RaceInv, TypeInv, TypeOK
<1>4. ASSUME NEW i \in InstanceIds, Recorded(i)
      PROVE  LET base == BaseOfRecord(i) IN
             /\ base \in pg'.roles \/ (pc'[r] = "store" /\ q.op = "deprovision" /\ q.inst = i)
             /\ pg'.dbs[base] <= MaxConn[instances[i].plan]
             /\ pg'.tss[base] <= MaxGB[instances[i].plan]
             /\ pg'.dbs[base] # Absent => pg'.acl[base] = Privileges
  BY <1>1, <1>2, <1>3, <1>4, StatementKeepsTenant
<1>5. ASSUME NEW b \in BindingIds, Bound(b)
      PROVE  LET user == bindings[b].user
                 base == BaseOfRecord(bindings[b].inst) IN
             /\ pg'.dbs[base] # Absent
             /\ \A other \in Bases \ {base} : \A d \in pg'.defaults[other] : d[1] # user
             /\ \/ /\ pg'.users[user] = pg.users[user]
                   /\ {m \in pg'.member : m[1] = user} = {m \in pg.member : m[1] = user}
                \/ pc'[r] = "store" /\ q.op = "unbind" /\ q.bind = b
  BY <1>1, <1>2, <1>3, <1>5, StatementKeepsUser
<1> USE DEF TenantInv, Recorded, Bound, BaseOfRecord
<1>6. DedicatedTenant'
  BY <1>1 DEF TenantsKept, DedicatedTenant
<1>7. QuotaWithinPlan' /\ PrivilegesKept'
  BY <1>1, <1>4 DEF QuotaWithinPlan, PrivilegesKept
<1>8. NameStaysTaken'
  BY <1>1, <1>4 DEF NameStaysTaken, Removing
<1>9. UsersKept'
  BY <1>1, <1>5 DEF UsersKept
<1>10. CredentialsWork'
  <2> SUFFICES ASSUME NEW b \in BindingIds, Bound(b), ~(pc'[r] = "store" /\ q.op = "unbind" /\ q.bind = b)
               PROVE  /\ Works(bindings[b].credentials)'
                      /\ \A c \in BindingIds \ {b} : Bound(c) => bindings[c].user # bindings[b].user
    BY <1>1 DEF CredentialsWork, GetBinding, Removing
  <2>1. /\ Works(bindings[b].credentials)
        /\ \A c \in BindingIds \ {b} : Bound(c) => bindings[c].user # bindings[b].user
    BY <1>1, AtStatement
  <2>2. bindings[b].credentials.username = bindings[b].user
    BY DEF UsersKept
  <2>3. /\ pg'.users[bindings[b].user] = pg.users[bindings[b].user]
        /\ {m \in pg'.member : m[1] = bindings[b].user} = {m \in pg.member : m[1] = bindings[b].user}
    BY <1>5
  <2>4. QED
    BY <1>1, <2>1, <2>2, <2>3 DEF Works
<1>11. QED
  BY <1>6, <1>7, <1>8, <1>9, <1>10 DEF TenantsKept

-----------------------------------------------------------------------------
\* What is known of a handler that is about to write the store.
LEMMA AtStore ==
    ASSUME TenantInv, NEW r \in Slots, pc[r] = "store"
    PROVE  LET q == req[r] IN
           /\ mu = r /\ \A s \in Slots : pc[s] = "store" => s = r
           /\ pg \in Server /\ Sound(pg)
           /\ q \in Calls /\ job[r] \in Job /\ job[r].vars \in TemplateVars
           /\ Filled(q, job[r]) /\ Finished(pg, q, job[r])
           /\ StillAsChecked(r) /\ JobOfRequest(r) /\ Claims(r)
           /\ \A i \in InstanceIds : Recorded(i) =>
                 /\ instances[i] \in InstanceRecord /\ BaseOfRecord(i) \in Bases
                 /\ BaseOfRecord(i) \in pg.roles \/ (q.op = "deprovision" /\ q.inst = i)
           /\ \A b \in BindingIds : Bound(b) =>
                 /\ bindings[b] \in BindingRecord /\ Recorded(bindings[b].inst)
                 /\ \/ q.op = "unbind" /\ q.bind = b
                    \/ /\ Works(bindings[b].credentials)
                       /\ \A c \in BindingIds \ {b} : Bound(c) => bindings[c].user # bindings[b].user
<1>1. mu = r /\ \A s \in Slots : pc[s] = "store" => s = r
  BY DEF TenantInv, ProgressInv, RaceInv, LockInv, OneAtATime, Critical
<1>2. /\ pg \in Server /\ Sound(pg)
      /\ req[r] \in Calls /\ job[r] \in Job /\ job[r].vars \in TemplateVars
      /\ Filled(req[r], job[r]) /\ Finished(pg, req[r], job[r])
      /\ StillAsChecked(r) /\ JobOfRequest(r) /\ Claims(r)
  BY DEF TenantInv, ProgressInv, RaceInv, TypeInv, TypeOK, Progress, Working, Job
<1>3. ASSUME NEW i \in InstanceIds, Recorded(i)
      PROVE  /\ instances[i] \in InstanceRecord /\ BaseOfRecord(i) \in Bases
             /\ BaseOfRecord(i) \in pg.roles \/ (req[r].op = "deprovision" /\ req[r].inst = i)
  <2>1. instances[i] \in InstanceRecord
    BY <1>3 DEF TenantInv, ProgressInv, RaceInv, TypeInv, TypeOK, Recorded
  <2>2. BaseOfRecord(i) \in Bases
    BY <2>1, NameTyped DEF InstanceRecord, BaseOfRecord
  <2>3. BaseOfRecord(i) \in pg.roles \/ (req[r].op = "deprovision" /\ req[r].inst = i)
    BY <1>1, <1>3 DEF TenantInv, TenantsKept, NameStaysTaken, Removing
  <2>4. QED
    BY <2>1, <2>2, <2>3
<1>4. ASSUME NEW b \in BindingIds, Bound(b)
      PROVE  /\ bindings[b] \in BindingRecord /\ Recorded(bindings[b].inst)
             /\ \/ req[r].op = "unbind" /\ req[r].bind = b
                \/ /\ Works(bindings[b].credentials)
                   /\ \A c \in BindingIds \ {b} : Bound(c) => bindings[c].user # bindings[b].user
  <2>1. bindings[b] \in BindingRecord
    BY <1>4 DEF TenantInv, ProgressInv, RaceInv, TypeInv, TypeOK, Bound
  <2>2. Recorded(bindings[b].inst)
    BY <1>4 DEF TenantInv, BindingHasInstance
  <2>3. \/ req[r].op = "unbind" /\ req[r].bind = b
        \/ /\ Works(bindings[b].credentials)
           /\ \A c \in BindingIds \ {b} : Bound(c) => bindings[c].user # bindings[b].user
    BY <1>1, <1>4 DEF TenantInv, CredentialsWork, Removing, GetBinding
  <2>4. QED
    BY <2>1, <2>2, <2>3
<1>5. QED
  BY <1>1, <1>2, <1>3, <1>4

\* The last statement of an operation was its last: what the server holds when
\* the record is written.
LEMMA FinishedAll ==
    ASSUME NEW s \in Server, NEW q \in Calls, NEW w \in Job, Finished(s, q, w)
    PROVE  /\ q.op = "provision" => ProvisionDone(s, w.vars, 11)
           /\ q.op = "bind" => BindDone(s, w.vars, 4)
BY DEF Finished, BelongsTo, TwoPart, Done, Template, TenantProvision, TenantBind

\* Provision writes the record of a complete tenant under a name no other record has.
LEMMA ProvisionWritten ==
    ASSUME TenantInv, NEW r \in Slots, StoreWrite(r), req[r].op = "provision"
    PROVE  TenantsKept' /\ UsersKept' /\ CredentialsWork'
<1> DEFINE q == req[r]
           w == job[r]
           v == w.vars
<1>0. PICK n \in InstanceIds : n = q.inst
  BY AtStore DEF StoreWrite, Calls
<1>1. /\ pc[r] = "store" /\ UNCHANGED <<pg, bindings>>
      /\ instances' = [instances EXCEPT ![n] = w.record]
  BY <1>0 DEF StoreWrite, StoreEffect
<1>2. /\ q \in Calls /\ w \in Job /\ v \in TemplateVars /\ v.base \in Bases
      /\ pg \in Server /\ Filled(q, w) /\ ProvisionDone(pg, v, 11)
      /\ ~Recorded(n) /\ v.base = NamesFor(n, q.name)
      /\ ValidProvision(q) /\ w.record = Resolve(q)
      /\ instances \in [InstanceIds -> InstanceRecord \cup {NoRecord}]
  BY <1>0, <1>1, AtStore, FinishedAll
  DEF StillAsChecked, JobOfRequest, Calls, TemplateVars, TenantInv, ProgressInv, RaceInv, TypeInv, TypeOK
<1>3. \A i \in InstanceIds : Recorded(i) => BaseOfRecord(i) # v.base
  BY <1>1, AtStore DEF Claims
<1>4. \A i \in InstanceIds : Recorded(i) => BaseOfRecord(i) \in pg.roles
  BY <1>1, AtStore
<1>5. \A b \in BindingIds : Bound(b) =>
         /\ bindings[b].inst \in InstanceIds \ {n}
         /\ Works(bindings[b].credentials)
         /\ \A c \in BindingIds \ {b} : Bound(c) => bindings[c].user # bindings[b].user
  BY <1>1, <1>2, AtStore DEF BindingRecord
<1>6. \A i \in InstanceIds \ {n} : instances'[i] = instances[i]
  BY <1>1, <1>2
<1>7. instances'[n] = Resolve(q) /\ Resolve(q).name = q.name /\ Resolve(q).plan = q.plan
  BY <1>1, <1>2 DEF Resolve
<1>8. \A i \in InstanceIds \ {n} : Recorded(i)' <=> Recorded(i)
  BY <1>6 DEF Recorded
<1>9. \A i \in InstanceIds \ {n} : BaseOfRecord(i)' = BaseOfRecord(i)
  BY <1>6 DEF BaseOfRecord
<1>10. BaseOfRecord(n)' = v.base
  BY <1>2, <1>7 DEF BaseOfRecord
<1>11. /\ v.base \in pg.roles /\ pg.acl[v.base] = Privileges
       /\ pg.dbs[v.base] = Resolve(q).conn /\ pg.tss[v.base] = Resolve(q).gb
  <2>1. pg.acl[v.base] = Privileges
    BY <1>2 DEF ProvisionDone, Privileges, Server
  <2>2. v.base \in pg.roles /\ pg.dbs[v.base] = v.conn /\ pg.tss[v.base] = v.gb
    BY <1>2 DEF ProvisionDone
  <2>3. v.conn = Resolve(q).conn /\ v.gb = Resolve(q).gb
    BY <1>2 DEF Filled
  <2>4. QED
    BY <2>1, <2>2, <2>3
<1>12. pg.dbs[v.base] <= MaxConn[q.plan] /\ pg.tss[v.base] <= MaxGB[q.plan]
  <2>1. ParamsOK(q.plan, q.conn, q.gb) /\ q.plan \in Plans /\ q.conn \in Nat /\ q.gb \in Nat
    BY <1>2 DEF ValidProvision, Calls
  <2>2. /\ Resolved(q.conn, MaxConn[q.plan]) \in 1..MaxConn[q.plan]
        /\ Resolved(q.gb, MaxGB[q.plan]) \in 1..MaxGB[q.plan]
    BY <2>1, ResolvedInPlan, CatalogAssumption DEF ParamsOK
  <2>3. QED
    BY <1>11, <2>1, <2>2, CatalogAssumption DEF Resolve
<1>13. DedicatedTenant'
  BY <1>3, <1>8, <1>9, <1>10 DEF DedicatedTenant, TenantInv, TenantsKept
<1>14. NameStaysTaken'
  BY <1>1, <1>4, <1>8, <1>9, <1>10, <1>11 DEF NameStaysTaken
<1>15. QuotaWithinPlan'
  <2>1. ASSUME NEW i \in InstanceIds, Recorded(i)'
        PROVE  /\ pg.dbs[BaseOfRecord(i)'] <= MaxConn[instances'[i].plan]
               /\ pg.tss[BaseOfRecord(i)'] <= MaxGB[instances'[i].plan]
    <3>1. CASE i = n
      BY <1>7, <1>10, <1>12, <3>1
    <3>2. CASE i # n
      BY <1>6, <1>8, <1>9, <2>1, <3>2 DEF TenantInv, TenantsKept, QuotaWithinPlan
    <3>3. QED
      BY <3>1, <3>2
  <2>2. QED
    BY <1>1, <2>1 DEF QuotaWithinPlan
<1>16. PrivilegesKept'
  BY <1>1, <1>8, <1>9, <1>10, <1>11 DEF PrivilegesKept, TenantInv, TenantsKept
<1>17. UsersKept'
  BY <1>1, <1>5, <1>9 DEF UsersKept, TenantInv, Bound
<1>18. CredentialsWork'
  BY <1>1, <1>5 DEF CredentialsWork, Works, Bound, GetBinding
<1>19. QED
  BY <1>13, <1>14, <1>15, <1>16, <1>17, <1>18 DEF TenantsKept

\* Update writes a record with the name and plan it had.
LEMMA UpdateWritten ==
    ASSUME TenantInv, NEW r \in Slots, StoreWrite(r), req[r].op = "update"
    PROVE  TenantsKept' /\ UsersKept' /\ CredentialsWork'
<1> DEFINE q == req[r]
           n == q.inst
<1>1. /\ pc[r] = "store" /\ UNCHANGED <<pg, bindings>>
      /\ instances' = [instances EXCEPT ![n] = job[r].record]
  BY DEF StoreWrite, StoreEffect
<1>2. /\ q \in Calls /\ n \in InstanceIds /\ Recorded(n)
      /\ job[r].record = Requota(instances[n], q)
      /\ instances \in [InstanceIds -> InstanceRecord \cup {NoRecord}]
  BY <1>1, AtStore DEF StillAsChecked, Calls, TenantInv, ProgressInv, RaceInv, TypeInv, TypeOK
<1>3. instances[n] \in InstanceRecord /\ Requota(instances[n], q) \in InstanceRecord
  BY <1>2, RequotaTyped DEF Recorded
<1>4. instances'[n].name = instances[n].name /\ instances'[n].plan = instances[n].plan
  BY <1>1, <1>2, <1>3 DEF Requota, InstanceRecord
<1>5. \A i \in InstanceIds \ {n} : instances'[i] = instances[i]
  BY <1>1, <1>2
<1>6. \A i \in InstanceIds : Recorded(i)' <=> Recorded(i)
  BY <1>1, <1>2, <1>3, <1>5, BrokerAssumption DEF Recorded
<1>7. \A i \in InstanceIds : BaseOfRecord(i)' = BaseOfRecord(i) /\ instances'[i].plan = instances[i].plan
  BY <1>4, <1>5 DEF BaseOfRecord
<1>8. \A i \in InstanceIds : Recorded(i) => BaseOfRecord(i) \in pg.roles
  BY <1>1, AtStore
<1>9. \A b \in BindingIds : Bound(b) =>
         /\ bindings[b].inst \in InstanceIds
         /\ Works(bindings[b].credentials)
         /\ \A c \in BindingIds \ {b} : Bound(c) => bindings[c].user # bindings[b].user
  BY <1>1, AtStore DEF BindingRecord
<1> HIDE DEF q, n
<1>10. DedicatedTenant' /\ NameStaysTaken' /\ QuotaWithinPlan' /\ PrivilegesKept'
  BY <1>1, <1>6, <1>7, <1>8 DEF DedicatedTenant, NameStaysTaken, QuotaWithinPlan, PrivilegesKept,
     TenantInv, TenantsKept
<1>11. UsersKept'
  BY <1>1, <1>7, <1>9 DEF UsersKept, TenantInv, Bound
<1>12. CredentialsWork'
  BY <1>1, <1>9 DEF CredentialsWork, Works, Bound, GetBinding
<1>13. QED
  BY <1>10, <1>11, <1>12 DEF TenantsKept

\* Deprovision deletes the record of an instance without bindings.
LEMMA DeprovisionWritten ==
    ASSUME TenantInv, NEW r \in Slots, StoreWrite(r), req[r].op = "deprovision"
    PROVE  TenantsKept' /\ UsersKept' /\ CredentialsWork'
<1> DEFINE q == req[r]
<1>0. PICK n \in InstanceIds : n = q.inst
  BY AtStore DEF StoreWrite, Calls
<1>1. /\ pc[r] = "store" /\ UNCHANGED <<pg, bindings>>
      /\ instances' = [instances EXCEPT ![n] = NoRecord]
  BY <1>0 DEF StoreWrite, StoreEffect
<1>2. /\ q \in Calls /\ BindingsOf(n) = {}
      /\ instances \in [InstanceIds -> InstanceRecord \cup {NoRecord}]
  BY <1>0, <1>1, AtStore DEF StillAsChecked, Calls, TenantInv, ProgressInv, RaceInv, TypeInv, TypeOK
<1>3. \A i \in InstanceIds \ {n} : instances'[i] = instances[i]
  BY <1>1, <1>2
<1>4. ~Recorded(n)' /\ \A i \in InstanceIds : Recorded(i)' => Recorded(i) /\ i # n
  BY <1>1, <1>2, <1>3 DEF Recorded
<1>5. \A i \in InstanceIds \ {n} : BaseOfRecord(i)' = BaseOfRecord(i)
  BY <1>3 DEF BaseOfRecord
<1>6. \A i \in InstanceIds \ {n} : Recorded(i) => BaseOfRecord(i) \in pg.roles
  BY <1>0, <1>1, AtStore
<1>7. \A b \in BindingIds : Bound(b) =>
         /\ bindings[b].inst \in InstanceIds \ {n}
         /\ Works(bindings[b].credentials)
         /\ \A c \in BindingIds \ {b} : Bound(c) => bindings[c].user # bindings[b].user
  BY <1>1, <1>2, AtStore DEF BindingRecord, BindingsOf
<1> HIDE DEF q
<1>8. DedicatedTenant' /\ NameStaysTaken' /\ QuotaWithinPlan' /\ PrivilegesKept'
  BY <1>1, <1>3, <1>4, <1>5, <1>6 DEF DedicatedTenant, NameStaysTaken, QuotaWithinPlan, PrivilegesKept,
     TenantInv, TenantsKept
<1>9. UsersKept'
  BY <1>1, <1>5, <1>7 DEF UsersKept, TenantInv, Bound
<1>10. CredentialsWork'
  BY <1>1, <1>7 DEF CredentialsWork, Works, Bound, GetBinding
<1>11. QED
  BY <1>8, <1>9, <1>10 DEF TenantsKept

\* Bind writes a binding whose credentials work and whose user nobody else has.
LEMMA BindWritten ==
    ASSUME TenantInv, NEW r \in Slots, StoreWrite(r), req[r].op = "bind"
    PROVE  TenantsKept' /\ UsersKept' /\ CredentialsWork'
<1> DEFINE q == req[r]
           v == job[r].vars
           n == q.bind
           record == [inst |-> q.inst, user |-> v.user, name |-> q.name, credentials |-> CredentialsOf(r)]
<1>1. /\ pc[r] = "store" /\ UNCHANGED <<pg, instances>>
      /\ bindings' = [bindings EXCEPT ![n] = record]
  BY DEF StoreWrite, StoreEffect
<1>2. /\ q \in Calls /\ n \in BindingIds /\ q.inst \in InstanceIds /\ ~Bound(n)
      /\ v \in TemplateVars /\ v.base \in Bases /\ v.user \in Bases
      /\ pg \in Server /\ v.password # NoPassword /\ BindDone(pg, v, 4)
      /\ v.base = BaseOfRecord(q.inst)
      /\ bindings \in [BindingIds -> BindingRecord \cup {NoRecord}]
  BY <1>1, AtStore, FinishedAll
  DEF StillAsChecked, Filled, Calls, TemplateVars, TenantInv, ProgressInv, RaceInv, TypeInv, TypeOK
<1>3. \A b \in BindingIds : Bound(b) => bindings[b].user # v.user
  BY <1>1, AtStore DEF Claims
<1>4. \A b \in BindingIds : Bound(b) =>
         /\ Works(bindings[b].credentials)
         /\ \A c \in BindingIds \ {b} : Bound(c) => bindings[c].user # bindings[b].user
  BY <1>1, AtStore
<1>5. \A i \in InstanceIds : Recorded(i) => BaseOfRecord(i) \in pg.roles
  BY <1>1, AtStore
<1>6. \A b \in BindingIds \ {n} : bindings'[b] = bindings[b]
  BY <1>1, <1>2
<1>7. bindings'[n] = record
  BY <1>1, <1>2
<1>8. /\ record.inst = q.inst /\ record.user = v.user /\ record.credentials.username = v.user
      /\ record.credentials.database = v.base /\ record.credentials.password = v.password
  BY DEF CredentialsOf
<1>9. Works(record.credentials)
  <2>1. {m \in pg.member : m[1] = v.user} = {<<v.user, v.base>>}
    <3>1. \A m \in pg.member : m[1] = v.user => m[2] = v.base
      BY <1>2 DEF BindDone
    <3>2. \A m \in pg.member : m = <<m[1], m[2]>>
      BY <1>2 DEF Server
    <3>3. <<v.user, v.base>> \in pg.member
      BY <1>2 DEF BindDone
    <3>4. QED
      BY <3>1, <3>2, <3>3
  <2>2. pg.users[v.user] = v.password
    BY <1>2 DEF BindDone
  <2> HIDE DEF record
  <2>3. QED
    BY <1>8, <2>1, <2>2 DEF Works
<1>10. pg.dbs[v.base] # Absent /\ \A other \in Bases \ {v.base} : \A d \in pg.defaults[other] : d[1] # v.user
  BY <1>2 DEF BindDone, DefaultsAtHome
<1> HIDE DEF q, v, n, record
<1>11. DedicatedTenant' /\ NameStaysTaken' /\ QuotaWithinPlan' /\ PrivilegesKept'
  BY <1>1, <1>5 DEF DedicatedTenant, NameStaysTaken, QuotaWithinPlan, PrivilegesKept,
     TenantInv, TenantsKept, Recorded, BaseOfRecord
<1>12. UsersKept'
  <2>1. ASSUME NEW b \in BindingIds, bindings'[b] # NoRecord
        PROVE  LET user == bindings'[b].user
                   c == bindings'[b].credentials
                   base == BaseOfRecord(bindings'[b].inst) IN
               /\ c.username = user /\ c.database = base /\ c.password # NoPassword
               /\ pg.dbs[base] # Absent
               /\ \A other \in Bases \ {base} : \A d \in pg.defaults[other] : d[1] # user
    <3>1. CASE b = n
      BY <1>2, <1>7, <1>8, <1>10, <3>1
    <3>2. CASE b # n
      BY <1>6, <2>1, <3>2 DEF TenantInv, UsersKept, Bound
    <3>3. QED
      BY <3>1, <3>2
  <2>2. QED
    BY <1>1, <2>1 DEF UsersKept, Bound, BaseOfRecord
<1>13. CredentialsWork'
  <2>1. ASSUME NEW b \in BindingIds, bindings'[b] # NoRecord
        PROVE  /\ Works(bindings'[b].credentials)
               /\ \A c \in BindingIds \ {b} : bindings'[c] # NoRecord => bindings'[c].user # bindings'[b].user
    <3>1. CASE b = n
      BY <1>3, <1>6, <1>7, <1>8, <1>9, <3>1 DEF Bound
    <3>2. CASE b # n
      BY <1>3, <1>4, <1>6, <1>7, <1>8, <2>1, <3>2 DEF Bound
    <3>3. QED
      BY <3>1, <3>2
  <2>2. QED
    BY <1>1, <2>1 DEF CredentialsWork, Works, Bound, GetBinding
<1>14. QED
  BY <1>11, <1>12, <1>13 DEF TenantsKept

\* Unbind deletes a binding.
LEMMA UnbindWritten ==
    ASSUME TenantInv, NEW r \in Slots, StoreWrite(r), req[r].op = "unbind"
    PROVE  TenantsKept' /\ UsersKept' /\ CredentialsWork'
<1> DEFINE q == req[r]
           n == q.bind
<1>1. /\ pc[r] = "store" /\ UNCHANGED <<pg, instances>>
      /\ bindings' = [bindings EXCEPT ![n] = NoRecord]
  BY DEF StoreWrite, StoreEffect
<1>2. q \in Calls /\ n \in BindingIds /\ bindings \in [BindingIds -> BindingRecord \cup {NoRecord}]
  BY <1>1, AtStore DEF Calls, TenantInv, ProgressInv, RaceInv, TypeInv, TypeOK
<1>3. \A b \in BindingIds : Bound(b)' => Bound(b) /\ b # n /\ bindings'[b] = bindings[b]
  BY <1>1, <1>2 DEF Bound
<1>4. \A b \in BindingIds \ {n} : Bound(b) =>
         /\ Works(bindings[b].credentials)
         /\ \A c \in BindingIds \ {b} : Bound(c) => bindings[c].user # bindings[b].user
  BY <1>1, AtStore
<1>5. \A i \in InstanceIds : Recorded(i) => BaseOfRecord(i) \in pg.roles
  BY <1>1, AtStore
<1> HIDE DEF q, n
<1>6. DedicatedTenant' /\ NameStaysTaken' /\ QuotaWithinPlan' /\ PrivilegesKept'
  BY <1>1, <1>5 DEF DedicatedTenant, NameStaysTaken, QuotaWithinPlan, PrivilegesKept,
     TenantInv, TenantsKept, Recorded, BaseOfRecord
<1>7. UsersKept'
  BY <1>1, <1>3 DEF UsersKept, TenantInv, BaseOfRecord
<1>8. CredentialsWork'
  BY <1>1, <1>3, <1>4 DEF CredentialsWork, Works, GetBinding
<1>9. QED
  BY <1>6, <1>7, <1>8 DEF TenantsKept

\* Whichever operation writes its record.
LEMMA StoreWriteKeepsAll ==
    ASSUME TenantInv, NEW r \in Slots, StoreWrite(r)
    PROVE  TenantsKept' /\ UsersKept' /\ CredentialsWork'
<1>1. req[r] \in Calls
  BY AtStore DEF StoreWrite
<1>2. QED
  BY <1>1, ProvisionWritten, UpdateWritten, DeprovisionWritten, BindWritten, UnbindWritten
  DEF Calls, Operations

-----------------------------------------------------------------------------
\* A handler that goes on with a claim it has.
LEMMA ClaimsDepend ==
    ASSUME NEW r \in Slots, UNCHANGED <<instances, bindings>>,
           req'[r] = req[r], job'[r].vars = job[r].vars,
           pc'[r] \in {"exec", "store"} \/ (pc'[r] = "probe" /\ job'[r].at = 3) =>
              pc[r] \in {"exec", "store"} \/ (pc[r] = "probe" /\ job[r].at = 3),
           pc'[r] \in {"exec", "store"} /\ req[r].op = "bind" => pc[r] \in {"exec", "store"},
           Claims(r)
    PROVE  Claims(r)'
BY DEF Claims, Recorded, Bound, BaseOfRecord

\* Names are claimed by the probes: a recorded tenant has its role, a bound
\* user exists.
LEMMA ProbeClaims ==
    ASSUME TenantInv, NEW r \in Slots, EnsureAbsent(r)
    PROVE  Claims(r)'
<1> DEFINE q == req[r]
           w == job[r]
           v == w.vars
<1>1. /\ pc[r] = "probe" /\ UNCHANGED <<req, instances, bindings>> /\ Claims(r)
      /\ mu = r /\ \A s \in Slots : pc[s] # "store"
  BY DEF EnsureAbsent, store, TenantInv, ProgressInv, RaceInv, LockInv, OneAtATime, Critical
<1>2. /\ TypeInv /\ w \in Job /\ v \in TemplateVars /\ Probing(pg, q, w) /\ q \in Calls
      /\ pc \in [Slots -> Places] /\ job \in [Slots -> Job \cup {NoJob}]
  BY <1>1 DEF TenantInv, ProgressInv, RaceInv, LockInv, TypeInv, TypeOK, Progress, Working, Job
<1>3. \A i \in InstanceIds : Recorded(i) => BaseOfRecord(i) \in pg.roles
  BY <1>1 DEF TenantInv, TenantsKept, NameStaysTaken, Removing
<1>4. \A b \in BindingIds : Bound(b) => pg.users[bindings[b].user] # NoPassword
  <2> SUFFICES ASSUME NEW b \in BindingIds, Bound(b) PROVE pg.users[bindings[b].user] # NoPassword
    OBVIOUS
  <2>1. Works(bindings[b].credentials)
    BY <1>1 DEF TenantInv, CredentialsWork, Removing, GetBinding
  <2>2. bindings[b].credentials.username = bindings[b].user /\ bindings[b].credentials.password # NoPassword
    BY DEF TenantInv, UsersKept
  <2>3. QED
    BY <2>1, <2>2 DEF Works
<1>5. CASE Answer(r, "conflict")
  BY <1>2, <1>5 DEF Answer, Goto, Claims
<1>6. CASE /\ ~Exists(pg, v, Probes(q.op)[w.at]) /\ w.at < Len(Probes(q.op))
           /\ job' = [job EXCEPT ![r].at = @ + 1] /\ UNCHANGED <<pc, result>>
  <2>1. job'[r].vars = v /\ job'[r].at = w.at + 1
    BY <1>2, <1>6 DEF Job
  <2>2. pc'[r] = "probe" /\ q.op = "provision" /\ w.at \in 1..2
    BY <1>1, <1>2, <1>6 DEF Probing, Probes
  <2>3. w.at = 2 => v.base \notin pg.roles
    BY <1>6, <2>2 DEF Probes, Exists
  <2>4. QED
    BY <1>1, <1>3, <2>1, <2>2, <2>3 DEF Claims, Recorded, BaseOfRecord
<1>7. CASE /\ ~Exists(pg, v, Probes(q.op)[w.at]) /\ w.at = Len(Probes(q.op))
           /\ Begin(r, "exec", [w EXCEPT !.at = 1])
  <2>1. job'[r].vars = v /\ pc'[r] = "exec"
    BY <1>2, <1>7 DEF Job, Begin, Goto
  <2>2. CASE q.op = "provision"
    <3>1. w.at = 3
      BY <1>7, <2>2 DEF Probes
    <3>2. QED
      BY <1>1, <2>1, <2>2, <3>1 DEF Claims, Recorded, BaseOfRecord
  <2>3. CASE q.op = "bind"
    <3>1. pg.users[v.user] = NoPassword
      BY <1>2, <1>7, <2>3 DEF Probing, Probes, Exists
    <3>2. QED
      BY <1>1, <1>4, <2>1, <2>3, <3>1 DEF Claims, Bound
  <2>4. QED
    BY <1>2, <2>2, <2>3 DEF Probing
<1>8. QED
  BY <1>5, <1>6, <1>7 DEF EnsureAbsent

\* The check has the first probe or, for the other three, the first statement next.
LEMMA CheckClaims ==
    ASSUME TypeInv, NEW r \in Slots, Check(r)
    PROVE  Claims(r)'
<1>1. UNCHANGED req /\ pc \in [Slots -> Places] /\ job \in [Slots -> Job \cup {NoJob}]
  BY DEF Check, CheckProvision, CheckUpdate, CheckDeprovision, CheckBind, CheckUnbind, ReadFails,
     TypeInv, TypeOK, Places
<1>2. ASSUME NEW answer, Answer(r, answer) PROVE Claims(r)'
  BY <1>1, <1>2 DEF Answer, Goto, Claims
<1>3. ASSUME NEW t, NEW v, NEW record, Begin(r, "probe", NewJob(t, v, record)) PROVE Claims(r)'
  BY <1>1, <1>3 DEF Begin, Goto, NewJob, Claims
<1>4. ASSUME NEW t, NEW v, NEW record, Begin(r, "exec", NewJob(t, v, record)),
             req[r].op \notin {"provision", "bind"}
      PROVE  Claims(r)'
  BY <1>1, <1>4 DEF Begin, Goto, Claims
<1>5. CASE CheckProvision(r)
  BY <1>2, <1>3, <1>5 DEF CheckProvision
<1>6. CASE CheckUpdate(r)
  BY <1>2, <1>4, <1>6 DEF CheckUpdate
<1>7. CASE CheckDeprovision(r)
  BY <1>2, <1>4, <1>7 DEF CheckDeprovision
<1>8. CASE CheckBind(r)
  BY <1>2, <1>3, <1>8 DEF CheckBind
<1>9. CASE CheckUnbind(r)
  BY <1>2, <1>4, <1>9 DEF CheckUnbind
<1>10. CASE ReadFails(r)
  BY <1>2, <1>10 DEF ReadFails
<1>11. QED
  BY <1>5, <1>6, <1>7, <1>8, <1>9, <1>10 DEF Check

LEMMA ClaimsStep ==
    ASSUME TenantInv, NEW r \in Slots, Receive(r) \/ Lock(r) \/ Proceed(r) \/ ClientGone(r),
           NEW s \in Slots
    PROVE  Claims(s)'
<1>1. TypeInv /\ RaceInv /\ Claims(s) /\ pc \in [Slots -> Places]
  BY DEF TenantInv, ProgressInv, RaceInv, TypeInv, LockInv
<1>2. CASE s # r
  <2>1. pc'[s] = pc[s] /\ job'[s] = job[s] /\ req'[s] = req[s]
    BY <1>1, <1>2, OthersStay
  <2>2. CASE pc[s] \in Critical
    <3>1. UNCHANGED <<instances, bindings>>
      BY <1>1, <1>2, <2>2, OnlyHolderActs
    <3>2. QED
      BY <1>1, <2>1, <3>1, ClaimsDepend
  <2>3. CASE pc[s] \notin Critical
    BY <2>1, <2>3 DEF Claims, Critical
  <2>4. QED
    BY <2>2, <2>3
<1>3. CASE s = r
  <2>1. CASE Receive(r) \/ Lock(r) \/ Reply(r) \/ ProbeFails(r) \/ StoreWrite(r) \/ StoreFails(r)
    <3>1. pc'[r] \notin {"probe", "exec", "store"}
      BY <1>1, <2>1 DEF Receive, Lock, Reply, ProbeFails, StoreWrite, StoreFails, Answer, Goto
    <3>2. QED
      BY <1>3, <3>1 DEF Claims
  <2>2. CASE ClientGone(r)
    <3>1. UNCHANGED <<pc, req, job, instances, bindings>>
      BY <2>2 DEF ClientGone, store
    <3>2. QED
      BY <1>1, <1>3, <3>1, ClaimsDepend
  <2>3. CASE Check(r)
    BY <1>1, <1>3, <2>3, CheckClaims
  <2>4. CASE EnsureAbsent(r)
    BY <1>3, <2>4, ProbeClaims
  <2>5. CASE StatementSucceeds(r) \/ StatementFails(r) \/ ReplyLost(r)
    <3>1. pc[r] = "exec" /\ ~Check(r)
      BY <2>5 DEF StatementSucceeds, StatementFails, ReplyLost, Check, CheckProvision, CheckUpdate,
         CheckDeprovision, CheckBind, CheckUnbind, ReadFails
    <3>2. CASE pc'[r] \in Working
      <4>1. UNCHANGED <<instances, bindings>> /\ req'[r] = req[r] /\ job'[r].vars = job[r].vars
        BY <1>1, <2>5, <3>1, <3>2, JobStays DEF Proceed, store
      <4>2. QED
        BY <1>1, <1>3, <3>1, <4>1, ClaimsDepend
    <3>3. CASE pc'[r] \notin Working
      BY <1>3, <3>3 DEF Claims, Working
    <3>4. QED
      BY <3>2, <3>3
  <2>6. QED
    BY <2>1, <2>2, <2>3, <2>4, <2>5 DEF Proceed
<1>4. QED
  BY <1>2, <1>3

-----------------------------------------------------------------------------
\* The server cannot refuse a statement of Deprovision or Unbind: the recorded
\* tenant has its role, the bound user exists, and an earlier attempt that
\* stopped halfway has left nothing in the way.
LEMMA RemovalPermitted ==
    ASSUME TenantInv, NEW r \in Slots, pc[r] = "exec", req[r].op \in {"deprovision", "unbind"}
    PROVE  Permits(pg, job[r].vars, Statement(r))
<1> DEFINE q == req[r]
           w == job[r]
           v == w.vars
<1>1. /\ pg \in Server /\ Sound(pg) /\ q \in Calls /\ q.inst \in InstanceIds /\ q.bind \in BindingIds
      /\ v \in TemplateVars /\ Executing(pg, q, w) /\ StillAsChecked(r)
  BY AtStatement DEF Calls
<1>2. w.undo = "no" /\ BelongsTo(w.template, q.op) /\ w.at \in 1..Len(Template(w.template))
      /\ Done(pg, v, w.template, w.at - 1)
  BY <1>1 DEF Executing, Task
<1>3. CASE q.op = "deprovision"
  <2>1. w.template = "admin-db/deprovision" /\ w.at \in 1..6 /\ DeprovisionDone(pg, v, w.at - 1)
    BY <1>2, <1>3 DEF BelongsTo, Template, AdminDeprovision, Done
  <2>2. Recorded(q.inst) /\ v.base = BaseOfRecord(q.inst)
    BY <1>1, <1>3 DEF StillAsChecked
  <2>3. v.base \in pg.roles
    BY <1>1, <2>2, AtStatement
  <2>4. QED
    BY <1>1, <2>1, <2>3, DeprovisionPermitted DEF Statement, Template
<1>4. CASE q.op = "unbind"
  <2>1. /\ Recorded(q.inst) /\ Bound(q.bind) /\ bindings[q.bind].inst = q.inst
        /\ v.user = bindings[q.bind].user /\ v.base = BaseOfRecord(q.inst)
    BY <1>1, <1>4 DEF StillAsChecked
  <2>2. Works(bindings[q.bind].credentials)
    BY <1>1, <2>1, AtStatement
  <2>3. pg.dbs[v.base] # Absent /\ pg.users[v.user] # NoPassword /\ DefaultsAtHome(pg, v)
    BY <1>1, <2>1, <2>2 DEF TenantInv, UsersKept, Works, DefaultsAtHome
  <2>4. w.template \in {"tenant-db/unbind", "admin-db/unbind"}
    BY <1>2, <1>4 DEF BelongsTo
  <2>5. QED
    BY <1>1, <1>2, <2>3, <2>4, UnbindPermitted DEF Statement
<1>5. QED
  BY <1>3, <1>4

\* A removal fails only by a fault of its own or a client that is gone.
LEMMA RemovalStep ==
    ASSUME TenantInv, NEW r \in Slots, Receive(r) \/ Lock(r) \/ Proceed(r) \/ ClientGone(r)
    PROVE  RemovalCanBeRetried'
<1> DEFINE q == req[r]
           Failing(s) == pc[s] = "reply" /\ result[s] = "error" /\ req[s].op \in {"deprovision", "unbind"}
<1>1. /\ TypeInv /\ pc \in [Slots -> Places] /\ result \in [Slots -> Results]
      /\ faults \in [Slots -> Nat]
      /\ \A s \in Slots : Failing(s) => faults[s] > 0 \/ ~alive[s]
  BY DEF TenantInv, ProgressInv, RaceInv, LockInv, TypeInv, TypeOK, RemovalCanBeRetried, Answered
<1>2. Suffer(r) => faults'[r] > 0
  BY <1>1 DEF Suffer
<1>3. ASSUME Failing(r)' PROVE faults'[r] > 0 \/ ~alive'[r]
  <2>1. CASE Receive(r) \/ Lock(r) \/ Reply(r) \/ StoreWrite(r)
    BY <1>1, <1>3, <2>1 DEF Receive, Lock, Reply, Forget, StoreWrite, Answer, Goto
  <2>2. CASE ClientGone(r)
    BY <1>1, <1>3, <2>2 DEF ClientGone
  <2>3. CASE StoreFails(r) \/ ReadFails(r) \/ ReplyLost(r)
    BY <1>2, <2>3 DEF StoreFails, ReadFails, ReplyLost
  <2>4. CASE CheckProvision(r) \/ CheckUpdate(r) \/ CheckDeprovision(r) \/ CheckBind(r) \/ CheckUnbind(r)
    BY <1>1, <1>3, <2>4
    DEF CheckProvision, CheckUpdate, CheckDeprovision, CheckBind, CheckUnbind, Answer, Goto, Begin
  <2>5. CASE EnsureAbsent(r)
    BY <1>1, <1>3, <2>5 DEF EnsureAbsent, Answer, Goto, Begin
  <2>6. CASE ProbeFails(r)
    BY <1>2, <2>6 DEF ProbeFails
  <2>7. CASE StatementSucceeds(r)
    <3>1. pc[r] = "exec" /\ req'[r] = q /\ Advance(r)
      BY <2>7 DEF StatementSucceeds
    <3>2. job[r].undo = "yes"
      BY <1>1, <1>3, <3>1 DEF Advance, Goto
    <3>3. q.op \in {"provision", "bind"}
      BY <3>1, <3>2, AtStatement DEF Executing
    <3>4. QED
      BY <1>3, <3>1, <3>3
  <2>8. CASE StatementFails(r)
    <3>1. pc[r] = "exec" /\ req'[r] = q /\ alive'[r] = alive[r]
      BY <2>8 DEF StatementFails
    <3>2. Permits(pg, job[r].vars, Statement(r))
      BY <1>3, <3>1, RemovalPermitted
    <3>3. QED
      BY <1>2, <2>8, <3>1, <3>2 DEF StatementFails
  <2>9. QED
    BY <2>1, <2>2, <2>3, <2>4, <2>5, <2>6, <2>7, <2>8 DEF Proceed, Check
<1>4. ASSUME NEW s \in Slots, s # r, Failing(s)' PROVE faults'[s] > 0 \/ ~alive'[s]
  <2>1. /\ pc'[s] = pc[s] /\ req'[s] = req[s] /\ result'[s] = result[s]
        /\ faults'[s] = faults[s] /\ alive'[s] = alive[s]
    BY <1>1, <1>4, OthersStay
  <2>2. QED
    BY <1>1, <1>4, <2>1
<1>5. QED
  BY <1>3, <1>4 DEF RemovalCanBeRetried, Answered

LEMMA TenantsStep ==
    ASSUME NothingLost, TenantInv, NEW r \in Slots, Receive(r) \/ Lock(r) \/ Proceed(r) \/ ClientGone(r)
    PROVE  TenantsKept' /\ UsersKept' /\ CredentialsWork'
<1>1. TypeInv /\ pc \in [Slots -> Places]
  BY DEF TenantInv, ProgressInv, RaceInv, LockInv
<1>2. ASSUME NEW s \in Slots, s # r PROVE pc'[s] = pc[s] /\ req'[s] = req[s]
  BY <1>1, <1>2, OthersStay
<1>3. CASE Receive(r) \/ Lock(r) \/ Check(r) \/ EnsureAbsent(r) \/ ProbeFails(r)
           \/ StatementFails(r) \/ Reply(r)
  <2>1. UNCHANGED <<pg, instances, bindings>> /\ pc[r] # "store"
    BY <1>3 DEF Receive, Lock, Check, CheckProvision, CheckUpdate, CheckDeprovision, CheckBind,
       CheckUnbind, ReadFails, EnsureAbsent, ProbeFails, StatementFails, Reply, store
  <2>2. QED
    BY <1>2, <2>1, QuietStep
<1>4. CASE ClientGone(r)
  <2>1. UNCHANGED <<pg, instances, bindings, pc, req>>
    BY <1>4 DEF ClientGone, store
  <2>2. QED
    BY <2>1, QuietStep
<1>5. CASE StatementSucceeds(r)
  BY <1>5, StatementKeepsAll
<1>6. CASE StoreWrite(r)
  BY <1>6, StoreWriteKeepsAll
<1>7. ~ReplyLost(r) /\ ~StoreFails(r)
  BY DEF NothingLost, ReplyLost, StoreFails
<1>8. QED
  BY <1>3, <1>4, <1>5, <1>6, <1>7 DEF Proceed

\* TenantInv is inductive.
LEMMA TenantStep == NothingLost => (TenantInv /\ [Next]_vars => TenantInv')
<1> SUFFICES ASSUME NothingLost, TenantInv, [Next]_vars PROVE TenantInv'
  OBVIOUS
<1>1. ProgressInv'
  BY ProgressStep DEF TenantInv
<1>2. BindingHasInstance'
  BY ContractStep, ContractKeepsBindings DEF TenantInv, ProgressInv, RaceInv
<1>3. ASSUME NEW r \in Slots, Receive(r) \/ Lock(r) \/ Proceed(r) \/ ClientGone(r)
      PROVE  TenantInv'
  <2>1. TenantsKept' /\ UsersKept' /\ CredentialsWork'
    BY <1>3, TenantsStep
  <2>2. RemovalCanBeRetried'
    BY <1>3, RemovalStep
  <2>3. \A s \in Slots : Claims(s)'
    BY <1>3, ClaimsStep
  <2>4. QED
    BY <1>1, <1>2, <2>1, <2>2, <2>3 DEF TenantInv
<1>4. ~Crash
  BY DEF NothingLost, Crash
<1>5. CASE UNCHANGED vars
  <2>1. UNCHANGED <<pg, instances, bindings, pc, req, job, result, faults, alive>>
    BY <1>5 DEF vars
  <2>2. TenantsKept' /\ UsersKept' /\ CredentialsWork'
    BY <2>1, QuietStep
  <2>3. RemovalCanBeRetried'
    BY <2>1 DEF TenantInv, RemovalCanBeRetried, Answered
  <2>4. \A s \in Slots : Claims(s)'
    BY <2>1, ClaimsDepend DEF TenantInv
  <2>5. QED
    BY <1>1, <1>2, <2>2, <2>3, <2>4 DEF TenantInv
<1>6. QED
  BY <1>3, <1>4, <1>5 DEF Next

LEMMA TenantInit == Init => TenantInv
<1> SUFFICES ASSUME Init PROVE TenantInv
  OBVIOUS
<1>1. \A i \in InstanceIds : ~Recorded(i)
  BY DEF Init, Recorded
<1>2. \A b \in BindingIds : ~Bound(b)
  BY DEF Init, Bound
<1>3. \A r \in Slots : pc[r] = "idle"
  BY DEF Init
<1>4. QED
  BY <1>1, <1>2, <1>3, ProgressInit
  DEF TenantInv, BindingHasInstance, TenantsKept, DedicatedTenant, NameStaysTaken, QuotaWithinPlan,
      PrivilegesKept, UsersKept, CredentialsWork, RemovalCanBeRetried, Answered, Claims

\* A recorded tenant whose database is there is complete.
LEMMA KeptIsComplete == TenantInv => SucceededIsComplete
<1> SUFFICES ASSUME TenantInv, NEW i \in InstanceIds, Recorded(i), pg.dbs[BaseOfRecord(i)] # Absent
             PROVE  LET base == BaseOfRecord(i) IN
                    base \in pg.roles /\ pg.tss[base] # Absent /\ pg.acl[base] = Privileges
  BY DEF SucceededIsComplete, LastOperation
<1>1. instances[i] \in InstanceRecord /\ Sound(pg)
  BY DEF TenantInv, ProgressInv, RaceInv, TypeInv, TypeOK, Recorded
<1>2. BaseOfRecord(i) \in Bases
  BY <1>1, NameTyped DEF InstanceRecord, BaseOfRecord
<1>3. QED
  BY <1>1, <1>2 DEF Sound, SoundTenants, TenantInv, TenantsKept, PrivilegesKept

LEMMA TenantAlways == ASSUME NothingLost PROVE Spec => []TenantInv
BY TenantInit, TenantStep, PTL DEF Spec

\* "Every instance gets its own dedicated database" (README.md:13): no two
\* records ever name the same database, tablespace and role.
THEOREM TenantsAreDedicated == ASSUME NothingLost PROVE Spec => []DedicatedTenant
<1>1. TenantInv => DedicatedTenant
  BY DEF TenantInv, TenantsKept
<1>2. QED
  BY <1>1, TenantAlways, PTL

\* A recorded name stays taken on the server until its record is deleted, so
\* no Provision (broker.go) gets past ensureAbsent with it.
THEOREM NamesStayTaken == ASSUME NothingLost PROVE Spec => []NameStaysTaken
<1>1. TenantInv => NameStaysTaken
  BY DEF TenantInv, TenantsKept
<1>2. QED
  BY <1>1, TenantAlways, PTL

\* No tenant ever gets more connections or storage than its plan sells, in the
\* middle of an Update (gaussdb.go) or after a failed one.
THEOREM QuotasWithinPlan == ASSUME NothingLost PROVE Spec => []QuotaWithinPlan
<1>1. TenantInv => QuotaWithinPlan
  BY DEF TenantInv, TenantsKept
<1>2. QED
  BY <1>1, TenantAlways, PTL

\* What LastOperation (broker.go) reports as succeeded is a complete tenant.
THEOREM SucceededTenantsComplete == ASSUME NothingLost PROVE Spec => []SucceededIsComplete
BY KeptIsComplete, TenantAlways, PTL

\* The credentials GetBinding (broker.go) hands out without the lock work until
\* the Unbind that removes them ends.
THEOREM CredentialsAlwaysWork == ASSUME NothingLost PROVE Spec => []CredentialsWork
<1>1. TenantInv => CredentialsWork
  BY DEF TenantInv
<1>2. QED
  BY <1>1, TenantAlways, PTL

\* A Deprovision or Unbind (broker.go) that failed halfway can be sent again:
\* the server refuses none of its statements.
THEOREM RemovalsCanBeRetried == ASSUME NothingLost PROVE Spec => []RemovalCanBeRetried
<1>1. TenantInv => RemovalCanBeRetried
  BY DEF TenantInv
<1>2. QED
  BY <1>1, TenantAlways, PTL

-----------------------------------------------------------------------------
\* Two deployments on one server: a step of the other one keeps TenantInv.
LEMMA TenantFramed ==
    ASSUME TenantInv, NEW B, NamesIn(B), WorksIn(B), Foreign(B)
    PROVE  TenantInv' /\ WorksIn(B)'
<1>1. ProgressInv' /\ WorksIn(B)'
  BY ProgressFramed DEF TenantInv, NamesIn
<1>2. /\ LeavesAlone(pg, pg', B)
      /\ UNCHANGED <<mu, instances, bindings, pc, req, alive, job, faults, result>>
  BY DEF Foreign
<1>3. BindingHasInstance' /\ RemovalCanBeRetried' /\ \A r \in Slots : Claims(r)'
  BY <1>2 DEF TenantInv, BindingHasInstance, Bound, Recorded, RemovalCanBeRetried, Answered, Claims,
     BaseOfRecord
<1>4. ASSUME NEW i \in InstanceIds, Recorded(i)
      PROVE  /\ BaseOfRecord(i) \in B
             /\ BaseOfRecord(i) \in pg'.roles <=> BaseOfRecord(i) \in pg.roles
             /\ pg'.dbs[BaseOfRecord(i)] = pg.dbs[BaseOfRecord(i)]
             /\ pg'.tss[BaseOfRecord(i)] = pg.tss[BaseOfRecord(i)]
             /\ pg'.acl[BaseOfRecord(i)] = pg.acl[BaseOfRecord(i)]
  <2>1. instances[i].name \in Names
    BY <1>4 DEF TenantInv, ProgressInv, RaceInv, TypeInv, TypeOK, Recorded, InstanceRecord
  <2>2. BaseOfRecord(i) \in B
    BY <2>1, NamesInB DEF BaseOfRecord
  <2>3. QED
    BY <1>2, <2>2 DEF LeavesAlone
<1>5. \A i \in InstanceIds : /\ Recorded(i)' <=> Recorded(i)
                             /\ BaseOfRecord(i)' = BaseOfRecord(i)
  BY <1>2 DEF Recorded, BaseOfRecord
<1>6. TenantsKept'
  <2>1. DedicatedTenant'
    BY <1>5 DEF TenantInv, TenantsKept, DedicatedTenant
  <2>2. NameStaysTaken'
    BY <1>2, <1>4, <1>5 DEF TenantInv, TenantsKept, NameStaysTaken, Removing
  <2>3. QuotaWithinPlan'
    BY <1>2, <1>4, <1>5 DEF TenantInv, TenantsKept, QuotaWithinPlan
  <2>4. PrivilegesKept'
    BY <1>4, <1>5 DEF TenantInv, TenantsKept, PrivilegesKept
  <2>5. QED
    BY <2>1, <2>2, <2>3, <2>4 DEF TenantsKept
<1>7. ASSUME NEW b \in BindingIds, Bound(b)
      PROVE  LET c == bindings[b].credentials IN
             /\ bindings[b].inst \in InstanceIds /\ Recorded(bindings[b].inst)
             /\ bindings[b].user \in B /\ BaseOfRecord(bindings[b].inst) \in B
             /\ c.username = bindings[b].user /\ c.database = BaseOfRecord(bindings[b].inst)
  <2>1. bindings[b].inst \in InstanceIds /\ Recorded(bindings[b].inst)
    BY <1>7 DEF TenantInv, BindingHasInstance, ProgressInv, RaceInv, TypeInv, TypeOK, Bound, BindingRecord
  <2>2. bindings[b].user \in B
    BY <1>7 DEF WorksIn
  <2>3. QED
    BY <1>4, <1>7, <2>1, <2>2 DEF TenantInv, UsersKept
<1>8. UsersKept'
  <2> SUFFICES ASSUME NEW b \in BindingIds, Bound(b)
               PROVE  LET user == bindings[b].user
                          c == bindings[b].credentials
                          base == BaseOfRecord(bindings[b].inst) IN
                      /\ c.username = user /\ c.database = base /\ c.password # NoPassword
                      /\ pg'.dbs[base] # Absent
                      /\ \A other \in Bases \ {base} : \A d \in pg'.defaults[other] : d[1] # user
    <3>1. \A b \in BindingIds : Bound(b) => bindings[b].inst \in InstanceIds
      BY <1>7
    <3>2. QED
      BY <1>2, <1>5, <3>1 DEF UsersKept, Bound
  <2> DEFINE base == BaseOfRecord(bindings[b].inst)
  <2>1. /\ bindings[b].credentials.password # NoPassword
        /\ pg.dbs[base] # Absent
        /\ \A other \in Bases \ {base} : \A d \in pg.defaults[other] : d[1] # bindings[b].user
    BY DEF TenantInv, UsersKept
  <2>2. pg'.dbs[base] = pg.dbs[base]
    BY <1>4, <1>7
  <2>3. ASSUME NEW other \in Bases \ {base}, NEW d \in pg'.defaults[other] PROVE d[1] # bindings[b].user
    BY <1>2, <1>7, <2>1, <2>3 DEF LeavesAlone
  <2>4. QED
    BY <1>7, <2>1, <2>2, <2>3
<1>9. CredentialsWork'
  <2>1. ASSUME NEW b \in BindingIds, Bound(b), Works(bindings[b].credentials)
        PROVE  Works(bindings[b].credentials)'
    <3> DEFINE c == bindings[b].credentials
    <3>1. c.username \in B /\ c.database \in B /\ c' = c
      BY <1>2, <1>7, <2>1
    <3>2. pg'.users[c.username] = c.password
      BY <1>2, <2>1, <3>1 DEF Works, LeavesAlone
    <3>3. \A m : m \in pg'.member /\ m[1] = c.username => m \in pg.member
      BY <1>2, <3>1 DEF LeavesAlone
    <3>4. {m \in pg.member : m[1] = c.username} = {<<c.username, c.database>>}
      BY <2>1 DEF Works
    <3>5. <<c.username, c.database>> \in pg'.member
      <4>1. <<c.username, c.database>>[1] = c.username /\ <<c.username, c.database>>[2] = c.database
        OBVIOUS
      <4>2. QED
        BY <1>2, <3>1, <3>4, <4>1 DEF LeavesAlone
    <3>6. {m \in pg'.member : m[1] = c.username} = {<<c.username, c.database>>}
      <4>1. \A m : m \in pg'.member /\ m[1] = c.username => m = <<c.username, c.database>>
        BY <3>3, <3>4
      <4>2. QED
        BY <3>5, <4>1
    <3>7. QED
      BY <3>1, <3>2, <3>6 DEF Works
  <2>2. ASSUME NEW b \in BindingIds, Bound(b)
        PROVE  \/ /\ Works(bindings[b].credentials)'
                  /\ \A c \in BindingIds \ {b} : Bound(c) => bindings[c].user # bindings[b].user
               \/ \E r \in Slots : Removing(r, "unbind") /\ req[r].bind = b
    BY <2>1, <2>2 DEF TenantInv, CredentialsWork, GetBinding
  <2>3. QED
    BY <1>2, <2>2 DEF CredentialsWork, GetBinding, Bound, Removing, Works
<1>10. QED
  BY <1>1, <1>3, <1>6, <1>8, <1>9 DEF TenantInv
=============================================================================

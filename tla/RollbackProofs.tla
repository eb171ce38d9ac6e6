---------------------------- MODULE RollbackProofs ----------------------------
(***************************************************************************)
(* A failed Provision or Bind leaves nothing on the server, for every      *)
(* workload in which no client goes away and the store takes its writes:   *)
(* faults "read", "refuse", "lost" and "crash".  A rollback starts after   *)
(* the one fault the request may meet, and none of its own statements can  *)
(* then be refused, unless there is nothing to remove.                     *)
(***************************************************************************)
EXTENDS TenantProofs

ContextsLive == Faults \subseteq {"read", "refuse", "lost", "crash"}

(***************************************************************************)
(* How many faults r has met: none until a statement of its operation      *)
(* fails, and a rollback has had its one, except when Bind was refused     *)
(* because a failed Deprovision has dropped the database.                  *)
(***************************************************************************)
Blameless(r) ==
    LET q == req[r]
        w == job[r] IN
    /\ alive[r]
    /\ pc[r] \in {"idle", "lock", "check"} => job[r] = NoJob
    /\ pc[r] \in {"idle", "lock", "check", "probe"} => faults[r] = 0
    /\ pc[r] = "exec" /\ q.op \in {"provision", "bind"} =>
          /\ w.undo = "no" => faults[r] = 0
          /\ w.undo = "yes" => faults[r] >= 1 \/ (q.op = "bind" /\ pg.dbs[w.vars.base] = Absent)
          /\ q.op = "bind" => DefaultsAtHome(pg, w.vars)

\* What is left when r answers an error.
RolledBack(r) ==
    /\ FailedMidway(r, "provision") /\ faults[r] <= 1 => TenantGone(pg, job[r].vars.base)
    /\ FailedMidway(r, "bind") /\ faults[r] <= 1 /\ pg.dbs[job[r].vars.base] # Absent
          => UserGone(pg, job[r].vars.user)

RollbackInv == ProgressInv /\ \A r \in Slots : Blameless(r) /\ RolledBack(r)

-----------------------------------------------------------------------------
\* A server on which no statement went wrong twice: without its role a tenant
\* has nothing, without itself a user has nothing.
LEMMA NothingLeft ==
    ASSUME NEW s \in Server, Sound(s)
    PROVE  /\ \A b \in Bases : b \notin s.roles => TenantGone(s, b)
           /\ \A u \in Bases : s.users[u] = NoPassword => UserGone(s, u)
BY DEF Sound, SoundTenants, SoundUsers, TenantGone, UserGone, Absent

\* The last probe of Provision has found no tablespace, the one before it no role:
\* a server without the role has nothing of the tenant.  Bind has found no user.
LEMMA ProbedNothing ==
    ASSUME ProgressInv, NEW r \in Slots, EnsureAbsent(r), pc'[r] = "exec"
    PROVE  IF req[r].op = "provision" THEN NoTenant(job[r].vars.base) ELSE NoUser(job[r].vars.user)
<1> DEFINE q == req[r]
           w == job[r]
           v == w.vars
<1>1. TypeInv /\ pg \in Server /\ Sound(pg) /\ pc[r] = "probe"
  BY DEF EnsureAbsent, ProgressInv, RaceInv, TypeInv, TypeOK
<1>2. w \in Job /\ v.base \in Bases /\ v.user \in Bases /\ Probing(pg, q, w)
  BY <1>1 DEF ProgressInv, Progress, Working, Job, TemplateVars
<1>3. ~Exists(pg, v, Probes(q.op)[w.at]) /\ w.at = Len(Probes(q.op))
  BY <1>1 DEF EnsureAbsent, Answer, Goto, TypeInv, TypeOK
<1>4. CASE q.op = "provision"
  <2>1. v.base \notin pg.roles
    BY <1>2, <1>3, <1>4 DEF Probing, Probes
  <2>2. TenantGone(pg, v.base)
    BY <1>1, <1>2, <2>1, NothingLeft
  <2>3. QED
    BY <1>4, <2>2 DEF TenantGone, NoTenant
<1>5. CASE q.op = "bind"
  <2>1. pg.users[v.user] = NoPassword
    BY <1>3, <1>5 DEF Probes, Exists
  <2>2. UserGone(pg, v.user)
    BY <1>1, <1>2, <2>1, NothingLeft
  <2>3. QED
    BY <1>5, <2>2 DEF UserGone, NoUser
<1>6. QED
  BY <1>2, <1>4, <1>5 DEF Probing

LEMMA BeginsFree ==
    ASSUME ProgressInv, Next, NEW r \in Slots, pc[r] = "probe", pc'[r] = "exec"
    PROVE  IF req[r].op = "provision" THEN NoTenant(job[r].vars.base) ELSE NoUser(job[r].vars.user)
<1>1. TypeInv
  BY DEF ProgressInv, RaceInv
<1>2. PICK s \in Slots : Receive(s) \/ Lock(s) \/ Proceed(s) \/ ClientGone(s)
  BY DEF Next, Crash
<1>3. s = r
  BY <1>1, <1>2, OthersStay
<1>4. EnsureAbsent(r)
  BY <1>1, <1>2, <1>3 DEF Receive, Lock, ClientGone, Proceed, Check, CheckProvision, CheckUpdate,
     CheckDeprovision, CheckBind, CheckUnbind, ReadFails, ProbeFails, StatementSucceeds, StatementFails,
     ReplyLost, StoreWrite, StoreFails, Reply, Answer, Goto, TypeInv, TypeOK
<1>5. QED
  BY <1>4, ProbedNothing

\* What ensureAbsent (gaussdb.go:136) is for: the statements of Provision and Bind
\* and their rollback meet no object of anybody else, under every fault.
THEOREM WorkBeginsOnFreeName == Spec => BeginsOnFreeName
<1>1. ProgressInv /\ [Next]_vars =>
          [\A r \in Slots : pc[r] = "probe" /\ pc'[r] = "exec" =>
              IF req[r].op = "provision" THEN NoTenant(job[r].vars.base)
              ELSE NoUser(job[r].vars.user)]_vars
  BY BeginsFree
<1>2. QED
  BY <1>1, ProgressInit, ProgressStep, PTL DEF Spec, BeginsOnFreeName

\* What is known of a handler that executes a statement.
LEMMA AtRollback ==
    ASSUME RollbackInv, NEW r \in Slots, pc[r] = "exec"
    PROVE  /\ TypeInv /\ pg \in Server /\ Sound(pg)
           /\ req[r] \in Calls /\ job[r] \in Job /\ job[r].vars \in TemplateVars
           /\ job[r].vars.base \in Bases /\ job[r].vars.user \in Bases
           /\ Filled(req[r], job[r]) /\ Executing(pg, req[r], job[r])
           /\ alive[r] /\ faults[r] \in Nat
BY DEF RollbackInv, ProgressInv, RaceInv, TypeInv, TypeOK, Progress, Working, Job, TemplateVars, Blameless

\* A statement of Provision or Bind is never refused, except on a tenant that
\* has lost its database.
LEMMA OwnStatementPermitted ==
    ASSUME RollbackInv, NEW r \in Slots, pc[r] = "exec", job[r].undo = "no",
           \/ req[r].op = "provision"
           \/ req[r].op = "bind" /\ pg.dbs[job[r].vars.base] # Absent
    PROVE  Permits(pg, job[r].vars, Statement(r))
<1> DEFINE q == req[r]
           w == job[r]
           v == w.vars
<1>1. /\ pg \in Server /\ Sound(pg) /\ v \in TemplateVars /\ Filled(q, w)
      /\ BelongsTo(w.template, q.op) /\ w.at \in 1..Len(Template(w.template))
      /\ Done(pg, v, w.template, w.at - 1)
  BY AtRollback DEF Executing, Task
<1>2. CASE q.op = "provision"
  <2>1. w.template \in {"admin-db/provision", "tenant-db/provision"} /\ v.conn # Absent /\ v.gb # Absent
    BY <1>1, <1>2 DEF BelongsTo, Filled
  <2>2. QED
    BY <1>1, <2>1, ProvisionPermitted DEF Statement
<1>3. CASE q.op = "bind"
  <2>1. w.template \in {"admin-db/bind", "tenant-db/bind"} /\ v.password # NoPassword
    BY <1>1, <1>3 DEF BelongsTo, Filled
  <2>2. QED
    BY <1>1, <1>3, <2>1, BindPermitted DEF Statement
<1>4. QED
  BY <1>2, <1>3

\* A statement of a rollback that is refused had nothing left to remove.
LEMMA RefusedRollback ==
    ASSUME RollbackInv, NEW r \in Slots, pc[r] = "exec", job[r].undo = "yes",
           ~Permits(pg, job[r].vars, Statement(r))
    PROVE  /\ req[r].op = "provision" => TenantGone(pg, job[r].vars.base)
           /\ req[r].op = "bind" /\ pg.dbs[job[r].vars.base] # Absent => UserGone(pg, job[r].vars.user)
<1> DEFINE q == req[r]
           w == job[r]
           v == w.vars
<1>1. /\ pg \in Server /\ Sound(pg) /\ v \in TemplateVars /\ v.base \in Bases /\ v.user \in Bases
      /\ BelongsTo(w.template, Task(q, w)) /\ w.at \in 1..Len(Template(w.template))
      /\ Done(pg, v, w.template, w.at - 1)
  BY AtRollback DEF Executing
<1>2. ASSUME q.op = "provision" PROVE TenantGone(pg, v.base)
  <2>1. w.template = "admin-db/deprovision" /\ w.at \in 1..6 /\ DeprovisionDone(pg, v, w.at - 1)
    BY <1>1, <1>2 DEF Task, BelongsTo, Template, AdminDeprovision, Done
  <2>2. ~Permits(pg, v, AdminDeprovision[w.at])
    BY <2>1 DEF Statement, Template
  <2>3. v.base \notin pg.roles
    BY <1>1, <2>1, <2>2, DeprovisionPermitted
  <2>4. QED
    BY <1>1, <2>3, NothingLeft
<1>3. ASSUME q.op = "bind", pg.dbs[v.base] # Absent PROVE UserGone(pg, v.user)
  <2>1. w.template \in {"tenant-db/unbind", "admin-db/unbind"}
    BY <1>1, <1>3 DEF Task, BelongsTo
  <2>2. DefaultsAtHome(pg, v)
    BY <1>3 DEF RollbackInv, Blameless
  <2>3. pg.users[v.user] = NoPassword
    BY <1>1, <1>3, <2>1, <2>2, UnbindPermitted DEF Statement
  <2>4. QED
    BY <1>1, <2>3, NothingLeft
<1>4. QED
  BY <1>2, <1>3

\* Executing a statement of Bind or of its rollback leaves the user's default
\* privileges in the tenant's database, and that database as it was.
LEMMA StatementKeepsHome ==
    ASSUME RollbackInv, NEW r \in Slots, pc[r] = "exec", req[r].op = "bind",
           Executes(pg, job[r].vars, Statement(r), pg')
    PROVE  /\ DefaultsAtHome(pg', job[r].vars)
           /\ pg'.dbs[job[r].vars.base] = pg.dbs[job[r].vars.base]
<1> DEFINE q == req[r]
           w == job[r]
           v == w.vars
<1>1. w.template \in TemplateNames /\ BelongsTo(w.template, Task(q, w))
      /\ w.at \in 1..Len(Template(w.template)) /\ DefaultsAtHome(pg, v)
  BY AtRollback DEF Executing, Job, RollbackInv, Blameless
<1>2. w.template \in {"admin-db/bind", "tenant-db/bind", "tenant-db/unbind", "admin-db/unbind"}
  BY <1>1 DEF BelongsTo, Task
<1>3. Statement(r) \notin {"CREATE_DATABASE", "ALTER_DATABASE_LIMIT", "DROP_DATABASE"}
  BY <1>1, <1>2 DEF Statement, Template, AdminBind, TenantBind, TenantUnbind, AdminUnbind
<1>4. QED
  BY <1>1, <1>3 DEF Executes, KeepsOtherTenants, ChangesTenant, DefaultsAtHome

\* The end of a rollback has removed everything.
LEMMA CompleteRollback ==
    ASSUME RollbackInv, NEW r \in Slots, pc[r] = "exec", job[r].undo = "yes",
           job[r].at = Len(Template(job[r].template)), job[r].template \notin TwoPart,
           Done(pg', job[r].vars, job[r].template, job[r].at)
    PROVE  /\ req[r].op = "provision" => TenantGone(pg', job[r].vars.base)
           /\ req[r].op = "bind" => UserGone(pg', job[r].vars.user)
<1>1. BelongsTo(job[r].template, Task(req[r], job[r]))
  BY AtRollback DEF Executing
<1>2. req[r].op = "provision" => DeprovisionDone(pg', job[r].vars, 6)
  BY <1>1 DEF Task, BelongsTo, Done, Template, AdminDeprovision
<1>3. req[r].op = "bind" => UnbindDone(pg', job[r].vars, 4)
  BY <1>1 DEF Task, BelongsTo, Done, Template, AdminUnbind, TwoPart
<1>4. QED
  BY <1>2, <1>3 DEF DeprovisionDone, UnbindDone

-----------------------------------------------------------------------------
LEMMA StatementSucceedsBlameless ==
    ASSUME RollbackInv, NEW r \in Slots, StatementSucceeds(r)
    PROVE  Blameless(r)' /\ RolledBack(r)'
<1> DEFINE q == req[r]
           w == job[r]
           t == w.template
<1>1. /\ pc[r] = "exec" /\ req'[r] = q /\ faults'[r] = faults[r] /\ alive'[r] = alive[r]
      /\ Permits(pg, w.vars, Statement(r)) /\ pg' = Effect(pg, w.vars, Statement(r)) /\ Advance(r)
  BY DEF StatementSucceeds
<1>2. /\ TypeInv /\ w \in Job /\ Executing(pg, q, w) /\ alive[r]
      /\ pc \in [Slots -> Places] /\ job \in [Slots -> Job \cup {NoJob}] /\ result \in [Slots -> Results]
  BY <1>1, AtRollback DEF TypeInv, TypeOK, Places
<1>3. Done(pg', w.vars, t, w.at) /\ Executes(pg, w.vars, Statement(r), pg')
  BY <1>1, StatementDone DEF RollbackInv
<1>4. Blameless(r)
  BY DEF RollbackInv
<1>5. CASE pc'[r] = "exec" /\ job'[r].vars = w.vars /\ job'[r].undo = w.undo
  <2>1. q.op = "bind" => DefaultsAtHome(pg', w.vars) /\ pg'.dbs[w.vars.base] = pg.dbs[w.vars.base]
    BY <1>1, <1>3, StatementKeepsHome
  <2>2. Blameless(r)'
    BY <1>1, <1>4, <1>5, <2>1 DEF Blameless
  <2>3. QED
    BY <1>5, <2>2 DEF RolledBack, FailedMidway, Answered
<1>6. CASE pc'[r] = "store"
  BY <1>1, <1>2, <1>6 DEF Blameless, RolledBack, FailedMidway, Answered
<1>7. CASE /\ w.at = Len(Template(t)) /\ t \notin TwoPart /\ w.undo = "yes"
           /\ pc'[r] = "reply" /\ job'[r].vars = w.vars
  <2>1. /\ q.op = "provision" => TenantGone(pg', w.vars.base)
        /\ q.op = "bind" => UserGone(pg', w.vars.user)
    BY <1>1, <1>3, <1>7, CompleteRollback
  <2>2. RolledBack(r)'
    BY <1>1, <1>7, <2>1 DEF RolledBack, FailedMidway, Answered
  <2>3. QED
    BY <1>1, <1>2, <1>7, <2>2 DEF Blameless
<1>8. Advance(r) => \/ pc'[r] = "exec" /\ job'[r].vars = w.vars /\ job'[r].undo = w.undo
                    \/ pc'[r] = "store"
                    \/ /\ w.at = Len(Template(t)) /\ t \notin TwoPart /\ w.undo = "yes"
                       /\ pc'[r] = "reply" /\ job'[r].vars = w.vars
  BY <1>1, <1>2 DEF Advance, Goto, Answer, Job
<1>9. QED
  BY <1>1, <1>5, <1>6, <1>7, <1>8

\* A statement that fails, with (ReplyLost) or without effect.
LEMMA FailBlameless ==
    ASSUME RollbackInv, NEW r \in Slots, pc[r] = "exec", UNCHANGED req, alive'[r] = alive[r], Fail(r),
           \/ Suffer(r)
           \/ faults' = faults /\ pg' = pg /\ ~Permits(pg, job[r].vars, Statement(r)),
           pg' = pg \/ Executes(pg, job[r].vars, Statement(r), pg')
    PROVE  Blameless(r)' /\ RolledBack(r)'
<1> DEFINE q == req[r]
           w == job[r]
           v == w.vars
<1>1. /\ TypeInv /\ w \in Job /\ Executing(pg, q, w) /\ alive[r] /\ faults[r] \in Nat
      /\ pc \in [Slots -> Places] /\ job \in [Slots -> Job \cup {NoJob}] /\ result \in [Slots -> Results]
      /\ faults \in [Slots -> Nat]
  BY AtRollback DEF TypeInv, TypeOK, Places
<1>2. Blameless(r)
  BY DEF RollbackInv
<1>3. q.op = "bind" => DefaultsAtHome(pg', v) /\ pg'.dbs[v.base] = pg.dbs[v.base]
  BY <1>2, StatementKeepsHome DEF Blameless
<1>4. Suffer(r) => faults'[r] = faults[r] + 1
  BY <1>1 DEF Suffer
<1>5. CASE RollsBack(r) /\ pc'[r] = "exec" /\ job'[r].vars = v /\ job'[r].undo = "yes"
  <2>1. faults'[r] >= 1 \/ (q.op = "bind" /\ pg'.dbs[v.base] = Absent)
    <3>1. CASE Suffer(r)
      BY <1>1, <1>4, <3>1
    <3>2. CASE pg' = pg /\ ~Permits(pg, v, Statement(r))
      BY <1>5, <3>2, OwnStatementPermitted DEF RollsBack
    <3>3. QED
      BY <3>1, <3>2
  <2>2. Blameless(r)'
    BY <1>1, <1>3, <1>5, <2>1 DEF Blameless
  <2>3. QED
    BY <1>5, <2>2 DEF RolledBack, FailedMidway, Answered
<1>6. CASE ~RollsBack(r) /\ pc'[r] = "reply" /\ job'[r] = w
  <2>1. q.op \in {"provision", "bind"} => w.undo = "yes"
    BY <1>1, <1>6 DEF RollsBack, Executing
  <2>2. q.op \in {"provision", "bind"} => faults[r] >= 1 \/ (q.op = "bind" /\ pg'.dbs[v.base] = Absent)
    BY <1>2, <1>3, <2>1 DEF Blameless
  <2>3. RolledBack(r)'
    <3>1. CASE Suffer(r)
      <4>1. q.op \in {"provision", "bind"} =>
               ~(faults'[r] <= 1) \/ (q.op = "bind" /\ pg'.dbs[v.base] = Absent)
        BY <1>1, <1>4, <2>2, <3>1
      <4>2. QED
        BY <1>6, <4>1 DEF RolledBack, FailedMidway, Answered
    <3>2. CASE pg' = pg /\ ~Permits(pg, v, Statement(r))
      <4>1. /\ q.op = "provision" => TenantGone(pg, v.base)
            /\ q.op = "bind" /\ pg.dbs[v.base] # Absent => UserGone(pg, v.user)
        BY <2>1, <3>2, RefusedRollback
      <4>2. QED
        BY <1>6, <3>2, <4>1 DEF RolledBack, FailedMidway, Answered
    <3>3. QED
      BY <3>1, <3>2
  <2>4. QED
    BY <1>1, <1>6, <2>3 DEF Blameless
<1>7. Fail(r) => \/ RollsBack(r) /\ pc'[r] = "exec" /\ job'[r].vars = v /\ job'[r].undo = "yes"
                 \/ ~RollsBack(r) /\ pc'[r] = "reply" /\ job'[r] = w
  BY <1>1 DEF Fail, Answer, Goto, Job
<1>8. QED
  BY <1>5, <1>6, <1>7

LEMMA StatementBlameless ==
    ASSUME ContextsLive, RollbackInv, NEW r \in Slots,
           StatementSucceeds(r) \/ StatementFails(r) \/ ReplyLost(r)
    PROVE  Blameless(r)' /\ RolledBack(r)'
<1>1. CASE StatementSucceeds(r)
  BY <1>1, StatementSucceedsBlameless
<1>2. CASE StatementFails(r)
  <2>1. alive[r] /\ pc[r] = "exec" /\ pg' = pg /\ UNCHANGED req /\ alive'[r] = alive[r] /\ Fail(r)
    BY <1>2, AtRollback DEF StatementFails
  <2>2. Suffer(r) \/ (faults' = faults /\ ~Permits(pg, job[r].vars, Statement(r)))
    BY <1>2, <2>1 DEF StatementFails
  <2>3. QED
    BY <2>1, <2>2, FailBlameless
<1>3. CASE ReplyLost(r)
  <2>1. /\ pc[r] = "exec" /\ UNCHANGED req /\ alive'[r] = alive[r] /\ Fail(r) /\ Suffer(r)
        /\ Permits(pg, job[r].vars, Statement(r)) /\ pg' = Effect(pg, job[r].vars, Statement(r))
    BY <1>3 DEF ReplyLost, ContextsLive
  <2>2. Executes(pg, job[r].vars, Statement(r), pg')
    BY <2>1, StatementDone DEF RollbackInv
  <2>3. QED
    BY <2>1, <2>2, FailBlameless
<1>4. QED
  BY <1>1, <1>2, <1>3

\* Up to the first statement a request meets no fault it goes on from, and an
\* error before it is not a failure midway.
LEMMA BeginBlameless ==
    ASSUME RollbackInv, NEW r \in Slots, Check(r) \/ EnsureAbsent(r) \/ ProbeFails(r)
    PROVE  Blameless(r)' /\ RolledBack(r)'
<1> DEFINE q == req[r]
           w == job[r]
<1>1. /\ TypeInv /\ Blameless(r) /\ pg \in Server /\ Sound(pg)
      /\ pc \in [Slots -> Places] /\ job \in [Slots -> Job \cup {NoJob}] /\ result \in [Slots -> Results]
  BY DEF RollbackInv, ProgressInv, RaceInv, TypeInv, TypeOK, Places
<1>2. UNCHANGED <<req, alive, pg>> /\ pc[r] \in {"check", "probe"} /\ alive[r] /\ faults[r] = 0
  BY <1>1 DEF Check, CheckProvision, CheckUpdate, CheckDeprovision, CheckBind, CheckUnbind, ReadFails,
     EnsureAbsent, ProbeFails, Blameless
<1>3. pc[r] = "probe" => w \in Job /\ Probing(pg, q, w) /\ w.vars \in TemplateVars
  BY DEF RollbackInv, ProgressInv, Progress, Working, Job
<1>4. ASSUME NEW answer, Answer(r, answer), UNCHANGED job PROVE Blameless(r)' /\ RolledBack(r)'
  <2>1. pc'[r] = "reply" /\ job'[r] = w
    BY <1>1, <1>4 DEF Answer, Goto
  <2>2. w = NoJob \/ (w.undo = "no" /\ w.template \in {"admin-db/provision", "admin-db/bind"})
    BY <1>1, <1>2, <1>3 DEF Blameless, Probing
  <2>3. RolledBack(r)'
    BY <2>1, <2>2 DEF RolledBack, FailedMidway
  <2>4. QED
    BY <1>2, <2>1, <2>3 DEF Blameless
<1>5. ASSUME pc'[r] = "probe", UNCHANGED faults PROVE Blameless(r)' /\ RolledBack(r)'
  BY <1>2, <1>5 DEF Blameless, RolledBack, FailedMidway, Answered
<1>6. ASSUME pc'[r] = "exec", UNCHANGED faults,
             q.op \in {"provision", "bind"} =>
                job'[r].undo = "no" /\ (q.op = "bind" => DefaultsAtHome(pg, job'[r].vars))
      PROVE  Blameless(r)' /\ RolledBack(r)'
  BY <1>2, <1>6 DEF Blameless, RolledBack, FailedMidway, Answered
<1>7. ASSUME NEW place, NEW work, Begin(r, place, work) PROVE pc'[r] = place /\ job'[r] = work
  BY <1>1, <1>7 DEF Begin, Goto
<1>8. CASE CheckProvision(r)
  BY <1>4, <1>5, <1>7, <1>8 DEF CheckProvision
<1>9. CASE CheckUpdate(r)
  BY <1>4, <1>6, <1>7, <1>9 DEF CheckUpdate
<1>10. CASE CheckDeprovision(r)
  BY <1>4, <1>6, <1>7, <1>10 DEF CheckDeprovision
<1>11. CASE CheckBind(r)
  BY <1>4, <1>5, <1>7, <1>11 DEF CheckBind
<1>12. CASE CheckUnbind(r)
  BY <1>4, <1>6, <1>7, <1>12 DEF CheckUnbind
<1>13. CASE ReadFails(r) \/ ProbeFails(r)
  BY <1>4, <1>13 DEF ReadFails, ProbeFails
<1>14. CASE EnsureAbsent(r)
  <2>1. pc[r] = "probe" /\ UNCHANGED faults
    BY <1>14 DEF EnsureAbsent
  <2>2. CASE UNCHANGED pc
    BY <1>5, <2>1, <2>2
  <2>3. CASE /\ ~Exists(pg, w.vars, Probes(q.op)[w.at]) /\ w.at = Len(Probes(q.op))
             /\ Begin(r, "exec", [w EXCEPT !.at = 1])
    <3>1. pc'[r] = "exec" /\ job'[r].vars = w.vars /\ job'[r].undo = "no"
      BY <1>3, <1>7, <2>1, <2>3 DEF Probing, Job
    <3>2. q.op = "bind" => DefaultsAtHome(pg, w.vars)
      <4>1. q.op = "bind" => pg.users[w.vars.user] = NoPassword
        BY <1>3, <2>1, <2>3 DEF Probing, Probes, Exists
      <4>2. QED
        BY <1>1, <1>3, <2>1, <4>1, NothingLeft DEF UserGone, DefaultsAtHome, TemplateVars
    <3>3. QED
      BY <1>6, <2>1, <3>1, <3>2
  <2>4. QED
    BY <1>4, <1>14, <2>2, <2>3 DEF EnsureAbsent
<1>15. QED
  BY <1>8, <1>9, <1>10, <1>11, <1>12, <1>13, <1>14 DEF Check

\* Blameless and RolledBack speak of these parts of the state only.
LEMMA BlamelessDepends ==
    ASSUME NEW r \in Slots, Blameless(r), RolledBack(r),
           pc'[r] = pc[r], job'[r] = job[r], req'[r] = req[r], result'[r] = result[r],
           faults'[r] = faults[r], alive'[r] = alive[r],
           pc[r] \in Critical => UNCHANGED pg
    PROVE  Blameless(r)' /\ RolledBack(r)'
<1>1. CASE pc[r] \in Critical
  BY <1>1 DEF Blameless, RolledBack, FailedMidway, Answered
<1>2. CASE pc[r] \notin Critical
  BY <1>2 DEF Blameless, RolledBack, FailedMidway, Answered, Critical
<1>3. QED
  BY <1>1, <1>2

\* RollbackInv is inductive.
LEMMA RollbackStep == ContextsLive => (RollbackInv /\ [Next]_vars => RollbackInv')
<1> SUFFICES ASSUME ContextsLive, RollbackInv, [Next]_vars PROVE RollbackInv'
  OBVIOUS
<1>1. ProgressInv' /\ RaceInv /\ TypeInv
  BY ProgressStep DEF RollbackInv, ProgressInv, RaceInv
<1>2. /\ pc \in [Slots -> Places] /\ job \in [Slots -> Job \cup {NoJob}] /\ result \in [Slots -> Results]
      /\ alive \in [Slots -> BOOLEAN] /\ faults \in [Slots -> Nat]
  BY <1>1 DEF TypeInv, TypeOK, Places
<1>3. ASSUME NEW r \in Slots, Receive(r) \/ Lock(r) \/ Proceed(r) \/ ClientGone(r), NEW s \in Slots
      PROVE  Blameless(s)' /\ RolledBack(s)'
  <2>1. CASE s # r
    <3>1. /\ pc'[s] = pc[s] /\ job'[s] = job[s] /\ req'[s] = req[s] /\ result'[s] = result[s]
          /\ faults'[s] = faults[s] /\ alive'[s] = alive[s]
      BY <1>1, <1>3, <2>1, OthersStay
    <3>2. pc[s] \in Critical => UNCHANGED pg
      BY <1>1, <1>3, <2>1, OnlyHolderActs
    <3>3. QED
      BY <3>1, <3>2, BlamelessDepends DEF RollbackInv
  <2>2. CASE s = r
    <3>1. CASE Receive(r) \/ Lock(r)
      <4>1. /\ pc[r] \in {"idle", "lock"} /\ pc'[r] \in {"lock", "check"}
            /\ job'[r] = job[r] /\ faults'[r] = faults[r] /\ alive'[r] = alive[r]
        BY <1>2, <3>1 DEF Receive, Lock, Goto
      <4>2. QED
        BY <2>2, <4>1 DEF RollbackInv, Blameless, RolledBack, FailedMidway, Answered
    <3>2. CASE Check(r) \/ EnsureAbsent(r) \/ ProbeFails(r)
      BY <2>2, <3>2, BeginBlameless
    <3>3. CASE StatementSucceeds(r) \/ StatementFails(r) \/ ReplyLost(r)
      BY <2>2, <3>3, StatementBlameless
    <3>4. CASE StoreWrite(r)
      <4>1. pc'[r] = "reply" /\ result'[r] = "ok" /\ alive'[r] = alive[r]
        BY <1>2, <3>4 DEF StoreWrite, Answer, Goto
      <4>2. QED
        BY <2>2, <4>1 DEF RollbackInv, Blameless, RolledBack, FailedMidway, Answered
    <3>5. CASE Reply(r)
      <4>1. pc'[r] = "idle" /\ job'[r] = NoJob /\ faults'[r] = 0 /\ alive'[r]
        BY <1>2, <3>5 DEF Reply, Forget, Goto
      <4>2. QED
        BY <2>2, <4>1 DEF Blameless, RolledBack, FailedMidway, Answered
    <3>6. ~StoreFails(r) /\ ~ClientGone(r)
      BY DEF ContextsLive, StoreFails, ClientGone
    <3>7. QED
      BY <1>3, <3>1, <3>2, <3>3, <3>4, <3>5, <3>6 DEF Proceed
  <2>3. QED
    BY <2>1, <2>2
<1>4. ASSUME Crash, NEW s \in Slots PROVE Blameless(s)' /\ RolledBack(s)'
  BY <1>4 DEF Crash, Blameless, RolledBack, FailedMidway, Answered
<1>5. ASSUME UNCHANGED vars, NEW s \in Slots PROVE Blameless(s)' /\ RolledBack(s)'
  BY <1>5, BlamelessDepends DEF vars, RollbackInv
<1>6. QED
  BY <1>1, <1>3, <1>4, <1>5 DEF Next, RollbackInv

LEMMA RollbackInit == Init => RollbackInv
BY ProgressInit DEF Init, RollbackInv, Blameless, RolledBack, FailedMidway, Answered

LEMMA RollbackAlways == ASSUME ContextsLive PROVE Spec => []RollbackInv
BY RollbackInit, RollbackStep, PTL DEF Spec

\* "A provision that fails partway must roll back what it already created"
\* (gaussdb_test.go:84), whichever of its statements or probes fails.
THEOREM FailedProvisionsRollBack == ASSUME ContextsLive PROVE Spec => []FailedProvisionLeavesNothing
<1>1. RollbackInv => FailedProvisionLeavesNothing
  BY DEF RollbackInv, RolledBack, FailedProvisionLeavesNothing, TenantGone, NoTenant
<1>2. QED
  BY <1>1, RollbackAlways, PTL

\* "A bind that fails partway must roll back the user it already created"
\* (gaussdb_test.go:98), on a tenant whose database is there.
THEOREM FailedBindsRollBack == ASSUME ContextsLive PROVE Spec => []FailedBindOnTenantLeavesNothing
<1>1. RollbackInv => FailedBindOnTenantLeavesNothing
  BY DEF RollbackInv, RolledBack, FailedBindOnTenantLeavesNothing, UserGone, NoUser
<1>2. QED
  BY <1>1, RollbackAlways, PTL

-----------------------------------------------------------------------------
\* Two deployments on one server: a step of the other one keeps RollbackInv.
LEMMA RollbackFramed ==
    ASSUME RollbackInv, NEW B, B \subseteq Bases, WorksIn(B), Foreign(B)
    PROVE  RollbackInv' /\ WorksIn(B)'
<1>1. ProgressInv' /\ WorksIn(B)'
  BY ProgressFramed DEF RollbackInv
<1>2. /\ LeavesAlone(pg, pg', B) /\ pg \in Server /\ pg' \in Server
      /\ job \in [Slots -> Job \cup {NoJob}]
      /\ UNCHANGED <<mu, instances, bindings, pc, req, alive, job, faults, result>>
  BY DEF Foreign, RollbackInv, ProgressInv, RaceInv, TypeInv, TypeOK
<1>3. ASSUME NEW r \in Slots, job[r] # NoJob
      PROVE  LET v == job[r].vars IN
             /\ pg'.dbs[v.base] = pg.dbs[v.base]
             /\ DefaultsAtHome(pg, v) => DefaultsAtHome(pg', v)
             /\ TenantGone(pg, v.base) => TenantGone(pg', v.base)
             /\ UserGone(pg, v.user) => UserGone(pg', v.user)
  <2>1. job[r].vars \in TemplateVars /\ job[r].vars.base \in B /\ job[r].vars.user \in B
    BY <1>2, <1>3 DEF Job, WorksIn
  <2>2. QED
    BY <1>2, <2>1, DoneFramed DEF LeavesAlone
<1>4. ASSUME NEW r \in Slots PROVE Blameless(r)' /\ RolledBack(r)'
  <2>1. Blameless(r) /\ RolledBack(r)
    BY DEF RollbackInv
  <2>2. pc[r] = "exec" => job[r] # NoJob
    BY BrokerAssumption, AtRollback
  <2>3. Blameless(r)'
    BY <1>2, <1>3, <2>1, <2>2 DEF Blameless
  <2>4. RolledBack(r)'
    BY <1>2, <1>3, <2>1 DEF RolledBack, FailedMidway, Answered
  <2>5. QED
    BY <2>3, <2>4
<1>5. QED
  BY <1>1, <1>4 DEF RollbackInv
=============================================================================

---------------------------- MODULE SuccessProofs ----------------------------
(***************************************************************************)
(* A success answer is true, for every workload and every set of faults.   *)
(* The invariant says where in its templates a handler is: what the        *)
(* statements behind it have done to its tenant or user still holds,       *)
(* because nobody else touches the server while it holds mu.               *)
(***************************************************************************)
EXTENDS ServerProofs

\* The operation a handler is executing: its own, or the one that undoes it.
Task(q, w) ==
    IF w.undo = "no" THEN q.op
    ELSE IF q.op = "provision" THEN "deprovision" ELSE "unbind"

BelongsTo(t, op) ==
    \/ op = "provision" /\ t \in {"admin-db/provision", "tenant-db/provision"}
    \/ op = "update" /\ t = "admin-db/update"
    \/ op = "deprovision" /\ t = "admin-db/deprovision"
    \/ op = "bind" /\ t \in {"admin-db/bind", "tenant-db/bind"}
    \/ op = "unbind" /\ t \in {"tenant-db/unbind", "admin-db/unbind"}

\* The values the check filled into the templates.
Filled(q, w) ==
    /\ q.op \in {"provision", "update"} =>
          /\ w.vars.conn = w.record.conn /\ w.vars.conn # Absent
          /\ w.vars.gb = w.record.gb /\ w.vars.gb # Absent
    /\ q.op = "bind" => w.vars.password # NoPassword

\* At a probe.  The second one of Provision has found no role.
Probing(s, q, w) ==
    /\ w.undo = "no"
    /\ \/ q.op = "provision" /\ w.template = "admin-db/provision" /\ w.at \in 1..3
       \/ q.op = "bind" /\ w.template = "admin-db/bind" /\ w.at = 1
    /\ w.at = 3 => w.vars.base \notin s.roles

\* At a statement, the ones before it executed.
Executing(s, q, w) ==
    /\ BelongsTo(w.template, Task(q, w))
    /\ w.undo = "no" \/ (w.undo = "yes" /\ q.op \in {"provision", "bind"})
    /\ w.at \in 1..Len(Template(w.template))
    /\ Done(s, w.vars, w.template, w.at - 1)

\* All statements of the operation executed.
Finished(s, q, w) ==
    /\ w.undo = "no"
    /\ BelongsTo(w.template, q.op) /\ w.template \notin TwoPart
    /\ Done(s, w.vars, w.template, Len(Template(w.template)))

\* What the store write has left in the store.
Written(r) ==
    LET q == req[r] IN
    /\ q.op = "provision" => job[r].record = Resolve(q)
    /\ q.op \in {"provision", "update"} => instances[q.inst] = job[r].record
    /\ q.op = "deprovision" => ~Recorded(q.inst)
    /\ q.op = "bind" => Bound(q.bind) /\ bindings[q.bind].credentials = CredentialsOf(r)
    /\ q.op = "unbind" => ~Bound(q.bind)

Succeeded(r) == pc[r] = "reply" /\ result[r] = "ok"

Progress(r) ==
    /\ pc[r] \in Working \/ Succeeded(r) => req[r] \in Calls /\ job[r] \in Job /\ Filled(req[r], job[r])
    /\ pc[r] = "probe" => Probing(pg, req[r], job[r])
    /\ pc[r] = "exec" => Executing(pg, req[r], job[r])
    /\ pc[r] = "store" => Finished(pg, req[r], job[r])
    /\ Succeeded(r) => Finished(pg, req[r], job[r]) /\ Written(r)

ProgressInv == RaceInv /\ Sound(pg) /\ \A r \in Slots : Progress(r)

-----------------------------------------------------------------------------
\* Quotas of at least 1 and a password where a statement needs them.
LEMMA FitsTask ==
    ASSUME NEW s, NEW q, NEW w \in Job, Filled(q, w), Executing(s, q, w)
    PROVE  Fits(w.vars, Template(w.template)[w.at])
<1> DEFINE t == w.template
           op == Template(t)[w.at]
<1>1. t \in TemplateNames /\ BelongsTo(t, Task(q, w)) /\ w.at \in 1..Len(Template(t))
  BY DEF Job, Executing
<1>2. CASE t \in {"admin-db/provision", "tenant-db/provision", "admin-db/update"}
  <2>1. q.op \in {"provision", "update"}
    BY <1>1, <1>2 DEF BelongsTo, Task
  <2>2. op # "CREATE_USER"
    BY <1>1, <1>2 DEF Template, AdminProvision, TenantProvision, AdminUpdate
  <2>3. QED
    BY <2>1, <2>2 DEF Filled, Fits
<1>3. CASE t \in {"admin-db/bind", "tenant-db/bind"}
  <2>1. q.op = "bind"
    BY <1>1, <1>3 DEF BelongsTo, Task
  <2>2. op \in {"CREATE_USER", "GRANT_ROLE_TO_USER", "DEFAULT_PRIVILEGES_ON_TABLES",
                "DEFAULT_PRIVILEGES_ON_SEQUENCES"}
    BY <1>1, <1>3 DEF Template, AdminBind, TenantBind
  <2>3. QED
    BY <2>1, <2>2 DEF Filled, Fits
<1>4. CASE t \in {"admin-db/deprovision", "tenant-db/unbind", "admin-db/unbind"}
  BY <1>1, <1>4 DEF Template, AdminDeprovision, TenantUnbind, AdminUnbind, Fits
<1>5. QED
  BY <1>1, <1>2, <1>3, <1>4 DEF TemplateNames

\* A handler that answers anything but success promises nothing.
LEMMA AnsweredProgress ==
    ASSUME TypeInv, NEW r \in Slots, NEW answer, answer # "ok", Answer(r, answer)
    PROVE  Progress(r)'
BY DEF TypeInv, TypeOK, Progress, Succeeded, Working, Answer, Goto

\* A handler that goes on with its work.
LEMMA BegunProgress ==
    ASSUME TypeInv, TypeInv', NEW r \in Slots, NEW place \in Working, NEW work, Begin(r, place, work),
           Filled(req'[r], work),
           place = "probe" => Probing(pg', req'[r], work),
           place = "exec" => Executing(pg', req'[r], work),
           place = "store" => Finished(pg', req'[r], work)
    PROVE  Progress(r)'
<1>1. pc'[r] = place /\ job'[r] = work
  BY DEF TypeInv, TypeOK, Begin, Goto
<1>2. req'[r] \in Calls /\ work \in Job
  BY <1>1 DEF TypeInv, Engaged, Working
<1>3. QED
  BY <1>1, <1>2 DEF Progress, Succeeded, Working

\* The check starts the work of each operation at its first probe or statement.
LEMMA CheckProgress ==
    ASSUME ProgressInv, RaceInv', NEW r \in Slots, Check(r)
    PROVE  Progress(r)' /\ UNCHANGED pg
<1> DEFINE q == req[r]
<1>1. UNCHANGED <<req, pg>>
  BY DEF Check, CheckProvision, CheckUpdate, CheckDeprovision, CheckBind, CheckUnbind, ReadFails
<1>2. TypeInv /\ TypeInv' /\ Sound(pg) /\ pg \in Server
  BY DEF ProgressInv, RaceInv, TypeInv, TypeOK
<1>3. /\ q \in Calls /\ q.inst \in InstanceIds
      /\ instances[q.inst] \in InstanceRecord \cup {NoRecord}
  BY <1>2 DEF TypeInv, TypeOK, Engaged, Calls, Check, CheckProvision, CheckUpdate,
     CheckDeprovision, CheckBind, CheckUnbind, ReadFails
<1>4. ASSUME NEW answer \in {"exists", "conflict", "gone", "invalid", "planchange", "error"},
             Answer(r, answer)
      PROVE  Progress(r)'
  BY <1>2, <1>4, AnsweredProgress
<1>5. ASSUME NEW t \in {"admin-db/update", "admin-db/deprovision", "tenant-db/unbind"},
             NEW v, NEW record, Begin(r, "exec", NewJob(t, v, record)),
             BelongsTo(t, q.op), Filled(q, NewJob(t, v, record))
      PROVE  Progress(r)'
  <2> DEFINE work == NewJob(t, v, record)
  <2>1. work.vars = v /\ work.template = t /\ work.at = 1 /\ work.undo = "no"
    BY DEF NewJob
  <2>2. v \in TemplateVars
    <3>1. job'[r] = work /\ pc'[r] = "exec"
      BY <1>2, <1>5 DEF Begin, Goto, TypeInv, TypeOK
    <3>2. QED
      BY <1>2, <2>1, <3>1 DEF TypeInv, Engaged, Working, Job
  <2>3. Done(pg, v, t, 0)
    BY <1>2, <2>2, NothingDone
  <2>4. 1 \in 1..Len(Template(t))
    BY DEF Template, AdminUpdate, AdminDeprovision, TenantUnbind
  <2> HIDE DEF work
  <2>5. Executing(pg', req'[r], work)
    BY <1>1, <1>5, <2>1, <2>3, <2>4 DEF Executing, Task
  <2>6. QED
    BY <1>1, <1>2, <1>5, <2>5, BegunProgress DEF Working, work
<1>6. CASE CheckProvision(r)
  <2>1. CASE Begin(r, "probe", NewJob("admin-db/provision", VarsOf(q.inst, Resolve(q)), Resolve(q)))
             /\ ValidProvision(q) /\ q.op = "provision"
    <3> DEFINE work == NewJob("admin-db/provision", VarsOf(q.inst, Resolve(q)), Resolve(q))
    <3>1. Resolve(q).conn # Absent /\ Resolve(q).gb # Absent
      BY <1>3, <2>1, ResolvedInPlan, CatalogAssumption DEF ValidProvision, ParamsOK, Resolve, Calls, Absent
    <3>2. Filled(q, work)
      BY <2>1, <3>1 DEF Filled, NewJob, VarsOf
    <3>3. Probing(pg, q, work)
      BY <2>1 DEF Probing, NewJob
    <3> HIDE DEF work
    <3>4. QED
      BY <1>1, <1>2, <2>1, <3>2, <3>3, BegunProgress DEF Working, work
  <2>2. QED
    BY <1>4, <1>6, <2>1 DEF CheckProvision
<1>7. CASE CheckUpdate(r)
  <2>1. CASE /\ Begin(r, "exec", NewJob("admin-db/update", VarsOf(q.inst, Requota(instances[q.inst], q)),
                                        Requota(instances[q.inst], q)))
             /\ q.op = "update" /\ Recorded(q.inst) /\ ParamsOK(instances[q.inst].plan, q.conn, q.gb)
    <3> DEFINE record == Requota(instances[q.inst], q)
    <3>1. instances[q.inst] \in InstanceRecord
      BY <1>3, <2>1 DEF Recorded
    <3>2. record.conn # Absent /\ record.gb # Absent
      BY <1>3, <2>1, <3>1, ResolvedInPlan, CatalogAssumption
      DEF ParamsOK, Requota, Calls, Absent, InstanceRecord
    <3> HIDE DEF record
    <3>3. Filled(q, NewJob("admin-db/update", VarsOf(q.inst, record), record))
      BY <2>1, <3>2 DEF Filled, NewJob, VarsOf
    <3>4. QED
      BY <1>1, <1>5, <2>1, <3>3 DEF BelongsTo, record
  <2>2. QED
    BY <1>1, <1>4, <1>7, <2>1 DEF CheckUpdate
<1>8. CASE CheckDeprovision(r)
  <2>1. q.op = "deprovision"
    BY <1>8 DEF CheckDeprovision
  <2>2. QED
    BY <1>4, <1>5, <1>8, <2>1 DEF CheckDeprovision, BelongsTo, Filled
<1>9. CASE CheckBind(r)
  <2>1. ASSUME NEW password \in Passwords,
               Begin(r, "probe", NewJob("admin-db/bind",
                   [VarsOfUser(q.inst, UserFor(q.bind, q.name)) EXCEPT !.password = password],
                   NoRecord))
        PROVE  Progress(r)'
    <3> DEFINE work == NewJob("admin-db/bind",
                   [VarsOfUser(q.inst, UserFor(q.bind, q.name)) EXCEPT !.password = password],
                   NoRecord)
    <3>1. q.op = "bind"
      BY <1>9 DEF CheckBind
    <3>2. Filled(q, work)
      BY <3>1, PasswordAssumption DEF Filled, NewJob, VarsOfUser
    <3>3. Probing(pg, q, work)
      BY <3>1 DEF Probing, NewJob
    <3> HIDE DEF work
    <3>4. QED
      BY <1>1, <1>2, <2>1, <3>2, <3>3, BegunProgress DEF Working, work
  <2>2. QED
    BY <1>4, <1>9, <2>1 DEF CheckBind
<1>10. CASE CheckUnbind(r)
  <2>1. q.op = "unbind"
    BY <1>10 DEF CheckUnbind
  <2>2. QED
    BY <1>4, <1>5, <1>10, <2>1 DEF CheckUnbind, BelongsTo, Filled
<1>11. CASE ReadFails(r)
  BY <1>4, <1>11 DEF ReadFails
<1>12. QED
  BY <1>1, <1>6, <1>7, <1>8, <1>9, <1>10, <1>11 DEF Check

\* The probes: when the last one has found nothing, the templates start on
\* a clean place.
LEMMA ProbeProgress ==
    ASSUME ProgressInv, RaceInv', NEW r \in Slots, EnsureAbsent(r) \/ ProbeFails(r)
    PROVE  Progress(r)' /\ UNCHANGED pg
<1> DEFINE q == req[r]
           w == job[r]
           v == w.vars
<1>1. UNCHANGED <<req, pg>> /\ pc[r] = "probe"
  BY DEF EnsureAbsent, ProbeFails
<1>2. TypeInv /\ TypeInv' /\ Sound(pg) /\ pg \in Server
  BY DEF ProgressInv, RaceInv, TypeInv, TypeOK
<1>3. w \in Job /\ v \in TemplateVars /\ Filled(q, w) /\ Probing(pg, q, w)
  BY <1>1 DEF ProgressInv, Progress, Working, Job
<1>4. CASE Answer(r, "conflict") \/ Answer(r, "error")
  BY <1>1, <1>2, <1>4, AnsweredProgress
<1>5. CASE /\ ~Exists(pg, v, Probes(q.op)[w.at]) /\ w.at < Len(Probes(q.op))
           /\ job' = [job EXCEPT ![r].at = @ + 1] /\ UNCHANGED <<pc, result>>
  <2> DEFINE next == [w EXCEPT !.at = @ + 1]
  <2>1. next.vars = v /\ next.record = w.record /\ next.template = w.template
        /\ next.at = w.at + 1 /\ next.undo = w.undo
    BY <1>3 DEF Job
  <2>2. Begin(r, "probe", next)
    BY <1>1, <1>2, <1>5 DEF Begin, Goto, TypeInv, TypeOK
  <2> HIDE DEF next
  <2>3. Filled(q, next)
    BY <1>3, <2>1 DEF Filled
  <2>4. q.op = "provision" /\ w.at \in 1..2
    BY <1>3, <1>5 DEF Probing, Probes
  <2>5. w.at = 2 => v.base \notin pg.roles
    BY <1>5, <2>4 DEF Probes, Exists
  <2>6. Probing(pg, q, next)
    BY <1>3, <2>1, <2>4, <2>5 DEF Probing
  <2>7. QED
    BY <1>1, <1>2, <2>2, <2>3, <2>6, BegunProgress DEF Working
<1>6. CASE /\ ~Exists(pg, v, Probes(q.op)[w.at]) /\ w.at = Len(Probes(q.op))
           /\ Begin(r, "exec", [w EXCEPT !.at = 1])
  <2> DEFINE first == [w EXCEPT !.at = 1]
  <2>1. first.vars = v /\ first.record = w.record /\ first.template = w.template
        /\ first.at = 1 /\ first.undo = w.undo
    BY <1>3 DEF Job
  <2>2. Begin(r, "exec", first)
    BY <1>6
  <2> HIDE DEF first
  <2>3. Filled(q, first)
    BY <1>3, <2>1 DEF Filled
  <2>4. Done(pg, v, w.template, 0) /\ BelongsTo(w.template, q.op)
    <3>1. CASE q.op = "provision"
      <4>1. v.base \notin pg.roles /\ w.template = "admin-db/provision"
        BY <1>3, <1>6, <3>1 DEF Probing, Probes
      <4>2. QED
        BY <1>2, <1>3, <3>1, <4>1, NothingDone DEF BelongsTo
    <3>2. CASE q.op = "bind"
      <4>1. pg.users[v.user] = NoPassword /\ w.template = "admin-db/bind"
        BY <1>3, <1>6, <3>2 DEF Probing, Probes, Exists
      <4>2. QED
        BY <1>2, <1>3, <3>2, <4>1, NothingDone DEF BelongsTo
    <3>3. QED
      BY <1>3, <3>1, <3>2 DEF Probing
  <2>5. 1 \in 1..Len(Template(w.template)) /\ w.undo = "no"
    BY <1>3 DEF Probing, Template, AdminProvision, AdminBind
  <2>6. Executing(pg, q, first)
    BY <2>1, <2>4, <2>5 DEF Executing, Task
  <2>7. QED
    BY <1>1, <1>2, <2>2, <2>3, <2>6, BegunProgress DEF Working
<1>7. QED
  BY <1>1, <1>4, <1>5, <1>6 DEF EnsureAbsent, ProbeFails

\* What a statement that takes effect leaves: one more of the template done.
LEMMA StatementDone ==
    ASSUME ProgressInv, NEW r \in Slots, pc[r] = "exec",
           Permits(pg, job[r].vars, Statement(r)), pg' = Effect(pg, job[r].vars, Statement(r))
    PROVE  /\ pg' \in Server /\ Sound(pg')
           /\ Done(pg', job[r].vars, job[r].template, job[r].at)
           /\ Executes(pg, job[r].vars, Statement(r), pg')
<1> DEFINE w == job[r]
           v == w.vars
           op == Statement(r)
<1>1. pg \in Server /\ Sound(pg)
  BY DEF ProgressInv, RaceInv, TypeInv, TypeOK
<1>2. w \in Job /\ Filled(req[r], w) /\ Executing(pg, req[r], w)
  BY DEF ProgressInv, Progress, Working
<1>3. v \in TemplateVars /\ w.template \in TemplateNames
  BY <1>2 DEF Job
<1>4. pg' \in Server /\ Executes(pg, v, op, pg')
  BY <1>1, <1>3, EffectTyped, EffectExecutes
<1>5. Fits(v, op)
  BY <1>2, FitsTask DEF Statement
<1>6. Sound(pg')
  BY <1>1, <1>3, <1>4, <1>5, SoundStep
<1>7. w.at \in 1..Len(Template(w.template)) /\ Done(pg, v, w.template, w.at - 1)
  BY <1>2 DEF Executing
<1>8. Runs(pg, v, Template(w.template)[w.at], pg')
  BY <1>4 DEF Runs, Statement
<1>9. Done(pg', v, w.template, w.at)
  BY <1>1, <1>3, <1>4, <1>7, <1>8, TemplateStep
<1>10. QED
  BY <1>4, <1>6, <1>9

\* On to the next statement, the second template, or the store.
LEMMA AdvanceProgress ==
    ASSUME ProgressInv, RaceInv', NEW r \in Slots, pc[r] = "exec", UNCHANGED req, Advance(r),
           Done(pg', job[r].vars, job[r].template, job[r].at)
    PROVE  Progress(r)'
<1> DEFINE q == req[r]
           w == job[r]
           t == w.template
<1>1. TypeInv /\ TypeInv' /\ pc \in [Slots -> Places] /\ job \in [Slots -> Job \cup {NoJob}]
  BY DEF ProgressInv, RaceInv, LockInv, TypeInv, TypeOK
<1>2. w \in Job /\ Filled(q, w) /\ Executing(pg, q, w)
  BY DEF ProgressInv, Progress, Working
<1>3. w.at \in 1..Len(Template(t)) /\ BelongsTo(t, Task(q, w)) /\ t \in TemplateNames
  BY <1>2 DEF Executing, Job
<1>4. Len(Template(t)) \in Nat \ {0}
  BY <1>3 DEF Template, TemplateNames, AdminProvision, TenantProvision, AdminUpdate,
     AdminDeprovision, AdminBind, TenantBind, TenantUnbind, AdminUnbind
<1>5. CASE w.at < Len(Template(t)) /\ job' = [job EXCEPT ![r].at = @ + 1] /\ UNCHANGED <<pc, result>>
  <2> DEFINE next == [w EXCEPT !.at = @ + 1]
  <2>1. next.vars = w.vars /\ next.record = w.record /\ next.template = t
        /\ next.at = w.at + 1 /\ next.undo = w.undo
    BY <1>2 DEF Job
  <2>2. Begin(r, "exec", next)
    BY <1>1, <1>5 DEF Begin, Goto
  <2> HIDE DEF next
  <2>3. Filled(q, next) /\ Task(q, next) = Task(q, w)
    BY <1>2, <2>1 DEF Filled, Task
  <2>4. next.at - 1 = w.at /\ next.at \in 1..Len(Template(t))
    BY <1>3, <1>4, <1>5, <2>1
  <2>5. Executing(pg', q, next)
    BY <1>2, <2>1, <2>3, <2>4 DEF Executing
  <2>6. QED
    BY <1>1, <2>2, <2>3, <2>5, BegunProgress DEF Working
<1>6. CASE /\ w.at = Len(Template(t)) /\ t \in TwoPart
           /\ job' = [job EXCEPT ![r].template = SecondPart(t), ![r].at = 1]
           /\ UNCHANGED <<pc, result>>
  <2> DEFINE second == [w EXCEPT !.template = SecondPart(t), !.at = 1]
  <2>1. second.vars = w.vars /\ second.record = w.record /\ second.template = SecondPart(t)
        /\ second.at = 1 /\ second.undo = w.undo
    BY <1>2 DEF Job
  <2>2. Begin(r, "exec", second)
    BY <1>1, <1>6 DEF Begin, Goto
  <2> HIDE DEF second
  <2>3. Filled(q, second) /\ Task(q, second) = Task(q, w)
    BY <1>2, <2>1 DEF Filled, Task
  <2>4. BelongsTo(SecondPart(t), Task(q, w)) /\ 1 \in 1..Len(Template(SecondPart(t)))
    BY <1>3, <1>6 DEF BelongsTo, SecondPart, TwoPart, Template, TenantProvision, TenantBind, AdminUnbind
  <2>5. Done(pg', w.vars, SecondPart(t), 0)
    BY <1>6, SecondPartFollows
  <2>6. Executing(pg', q, second)
    BY <1>2, <2>1, <2>3, <2>4, <2>5 DEF Executing
  <2>7. QED
    BY <1>1, <2>2, <2>3, <2>6, BegunProgress DEF Working
<1>7. CASE /\ w.at = Len(Template(t)) /\ t \notin TwoPart /\ w.undo = "no"
           /\ Goto(r, "store") /\ UNCHANGED <<job, result>>
  <2>1. Begin(r, "store", w)
    BY <1>1, <1>7 DEF Begin
  <2>2. Finished(pg', q, w)
    BY <1>3, <1>7 DEF Finished, Task
  <2>3. QED
    BY <1>1, <1>2, <2>1, <2>2, BegunProgress DEF Working
<1>8. CASE Answer(r, "error")
  BY <1>1, <1>8, AnsweredProgress
<1>9. QED
  BY <1>5, <1>6, <1>7, <1>8 DEF Advance

\* Into the rollback, or out with an error.
LEMMA FailProgress ==
    ASSUME ProgressInv, RaceInv', NEW r \in Slots, pc[r] = "exec", UNCHANGED req, Fail(r),
           pg' \in Server, Sound(pg')
    PROVE  Progress(r)'
<1> DEFINE q == req[r]
           w == job[r]
           undoing == [w EXCEPT !.template = Rollback(q.op), !.at = 1, !.undo = "yes"]
<1>1. TypeInv /\ TypeInv' /\ job \in [Slots -> Job \cup {NoJob}]
  BY DEF ProgressInv, RaceInv, TypeInv, TypeOK
<1>2. w \in Job /\ Filled(q, w) /\ w.vars \in TemplateVars
  BY DEF ProgressInv, Progress, Working, Job
<1>3. CASE Answer(r, "error")
  BY <1>1, <1>3, AnsweredProgress
<1>4. CASE RollsBack(r) /\ job' = [job EXCEPT ![r] = undoing] /\ UNCHANGED <<pc, result>>
  <2>1. undoing.vars = w.vars /\ undoing.record = w.record /\ undoing.template = Rollback(q.op)
        /\ undoing.at = 1 /\ undoing.undo = "yes"
    BY <1>2 DEF Job
  <2>2. Begin(r, "exec", undoing)
    BY <1>1, <1>4 DEF Begin, Goto, TypeInv, TypeOK
  <2> HIDE DEF undoing
  <2>3. Filled(q, undoing)
    BY <1>2, <2>1 DEF Filled
  <2>4. q.op \in {"provision", "bind"}
    BY <1>4 DEF RollsBack
  <2>5. /\ Rollback(q.op) \in {"admin-db/deprovision", "tenant-db/unbind"}
        /\ BelongsTo(Rollback(q.op), Task(q, undoing))
        /\ 1 \in 1..Len(Template(Rollback(q.op)))
    BY <2>1, <2>4 DEF Rollback, BelongsTo, Task, Template, AdminDeprovision, TenantUnbind
  <2>6. Done(pg', w.vars, Rollback(q.op), 0)
    BY <1>2, <2>5, NothingDone
  <2>7. Executing(pg', q, undoing)
    BY <2>1, <2>4, <2>5, <2>6 DEF Executing
  <2>8. QED
    BY <1>1, <2>2, <2>3, <2>7, BegunProgress DEF Working
<1>5. QED
  BY <1>3, <1>4 DEF Fail

LEMMA StatementProgress ==
    ASSUME ProgressInv, RaceInv', NEW r \in Slots,
           StatementSucceeds(r) \/ StatementFails(r) \/ ReplyLost(r)
    PROVE  Progress(r)' /\ Sound(pg')
<1>1. pc[r] = "exec" /\ UNCHANGED req /\ pg \in Server /\ Sound(pg)
  BY DEF StatementSucceeds, StatementFails, ReplyLost, ProgressInv, RaceInv, TypeInv, TypeOK
<1>2. CASE StatementSucceeds(r)
  BY <1>1, <1>2, StatementDone, AdvanceProgress DEF StatementSucceeds
<1>3. CASE StatementFails(r)
  BY <1>1, <1>3, FailProgress DEF StatementFails
<1>4. CASE ReplyLost(r)
  BY <1>1, <1>4, StatementDone, FailProgress DEF ReplyLost
<1>5. QED
  BY <1>2, <1>3, <1>4

LEMMA StoreProgress ==
    ASSUME ProgressInv, RaceInv', NEW r \in Slots, StoreWrite(r) \/ StoreFails(r)
    PROVE  Progress(r)' /\ UNCHANGED pg
<1> DEFINE q == req[r]
           w == job[r]
<1>1. TypeInv /\ pc[r] = "store" /\ UNCHANGED <<pg, req, job>>
  BY DEF ProgressInv, RaceInv, StoreWrite, StoreFails
<1>2. q \in Calls /\ w \in Job /\ Filled(q, w) /\ Finished(pg, q, w)
  BY <1>1 DEF ProgressInv, Progress, Working
<1>3. CASE StoreFails(r)
  BY <1>1, <1>3, AnsweredProgress DEF StoreFails
<1>4. CASE StoreWrite(r)
  <2>1. pc'[r] = "reply" /\ result'[r] = "ok" /\ StoreEffect(r)
    BY <1>1, <1>4 DEF StoreWrite, Answer, Goto, TypeInv, TypeOK
  <2>2. q.op = "provision" => w.record = Resolve(q)
    BY <1>1 DEF ProgressInv, RaceInv, JobOfRequest, Working
  <2>3. q.inst \in InstanceIds /\ q.bind \in BindingIds /\ instances' \in [InstanceIds -> InstanceRecord \cup {NoRecord}]
        /\ bindings' \in [BindingIds -> BindingRecord \cup {NoRecord}]
    BY <1>2 DEF Calls, RaceInv, TypeInv, TypeOK
  <2>4. Written(r)'
    <3>1. q.op \in {"provision", "update"} => instances'[q.inst] = w.record
      BY <1>1, <2>1, <2>3 DEF StoreEffect, TypeInv, TypeOK
    <3>2. q.op = "deprovision" => instances'[q.inst] = NoRecord
      BY <1>1, <2>1, <2>3 DEF StoreEffect, TypeInv, TypeOK
    <3>3. q.op = "bind" => bindings'[q.bind] = [inst |-> q.inst, user |-> w.vars.user, name |-> q.name,
                                                credentials |-> CredentialsOf(r)]
      BY <1>1, <2>1, <2>3 DEF StoreEffect, TypeInv, TypeOK
    <3>4. q.op = "bind" => bindings'[q.bind] \in BindingRecord
      BY <1>2, <2>3, <3>3 DEF Job, TemplateVars, BindingRecord, Credentials, CredentialsOf, Calls
    <3>5. q.op = "unbind" => bindings'[q.bind] = NoRecord
      BY <1>1, <2>1, <2>3 DEF StoreEffect, TypeInv, TypeOK
    <3>6. CredentialsOf(r)' = CredentialsOf(r)
      BY <1>1 DEF CredentialsOf
    <3>7. QED
      BY <1>1, <2>2, <3>1, <3>2, <3>3, <3>4, <3>5, <3>6, BrokerAssumption DEF Written, Recorded, Bound, Resolve
  <2>5. QED
    BY <1>1, <1>2, <2>1, <2>4 DEF Progress, Succeeded, Working
<1>5. QED
  BY <1>3, <1>4

\* While a handler is past its lock, the steps of the others leave server and store alone.
LEMMA OnlyHolderActs ==
    ASSUME RaceInv, NEW r \in Slots, NEW s \in Slots, s # r, pc[s] \in Critical,
           Receive(r) \/ Lock(r) \/ Proceed(r) \/ ClientGone(r)
    PROVE  UNCHANGED <<pg, instances, bindings>>
<1>1. mu = s /\ pc[r] \notin Critical
  BY DEF RaceInv, LockInv, OneAtATime
<1>2. ~Proceed(r)
  BY <1>1, ProceedMoves DEF RaceInv
<1>3. QED
  BY <1>2 DEF Receive, Lock, ClientGone, store

\* Progress speaks of these parts of the state only.
LEMMA ProgressDepends ==
    ASSUME NEW r \in Slots, Progress(r), UNCHANGED <<pg, instances, bindings>>,
           pc'[r] = pc[r], job'[r] = job[r], req'[r] = req[r], result'[r] = result[r]
    PROVE  Progress(r)'
BY DEF Progress, Succeeded, Written, Recorded, Bound, CredentialsOf, Resolve

LEMMA ProgressStep == ProgressInv /\ [Next]_vars => ProgressInv'
<1> SUFFICES ASSUME ProgressInv, [Next]_vars PROVE ProgressInv'
  OBVIOUS
<1>1. RaceInv /\ RaceInv' /\ TypeInv
  BY RaceStep DEF ProgressInv, RaceInv
<1>2. ASSUME NEW r \in Slots, Receive(r) \/ Lock(r) \/ Proceed(r) \/ ClientGone(r)
      PROVE  Sound(pg') /\ \A s \in Slots : Progress(s)'
  <2>1. Sound(pg') /\ Progress(r)'
    <3>1. CASE Receive(r) \/ Lock(r)
      <4>1. pc'[r] \in {"lock", "check"} /\ UNCHANGED pg
        BY <1>1, <3>1 DEF Receive, Lock, Goto, TypeInv, TypeOK
      <4>2. QED
        BY <4>1 DEF ProgressInv, Progress, Succeeded, Working
    <3>2. CASE ClientGone(r)
      <4>1. UNCHANGED <<pg, instances, bindings, pc, job, req, result>>
        BY <3>2 DEF ClientGone, store
      <4>2. QED
        BY <4>1, ProgressDepends DEF ProgressInv
    <3>3. CASE Check(r)
      BY <1>1, <3>3, CheckProgress DEF ProgressInv
    <3>4. CASE EnsureAbsent(r) \/ ProbeFails(r)
      BY <1>1, <3>4, ProbeProgress DEF ProgressInv
    <3>5. CASE StatementSucceeds(r) \/ StatementFails(r) \/ ReplyLost(r)
      BY <1>1, <3>5, StatementProgress
    <3>6. CASE StoreWrite(r) \/ StoreFails(r)
      BY <1>1, <3>6, StoreProgress DEF ProgressInv
    <3>7. CASE Reply(r)
      <4>1. pc'[r] = "idle" /\ UNCHANGED pg
        BY <1>1, <3>7 DEF Reply, Goto, TypeInv, TypeOK
      <4>2. QED
        BY <4>1 DEF ProgressInv, Progress, Succeeded, Working
    <3>8. QED
      BY <1>2, <3>1, <3>2, <3>3, <3>4, <3>5, <3>6, <3>7 DEF Proceed
  <2>2. ASSUME NEW s \in Slots, s # r PROVE Progress(s)'
    <3>1. /\ pc'[s] = pc[s] /\ job'[s] = job[s] /\ req'[s] = req[s] /\ result'[s] = result[s]
      BY <1>1, <1>2, <2>2, OthersStay
    <3>2. CASE pc[s] \in Critical
      BY <1>1, <1>2, <2>2, <3>1, <3>2, OnlyHolderActs, ProgressDepends DEF ProgressInv
    <3>3. CASE pc[s] \notin Critical
      BY <3>1, <3>3 DEF Progress, Succeeded, Working, Critical
    <3>4. QED
      BY <3>2, <3>3
  <2>3. QED
    BY <2>1, <2>2
<1>3. CASE Crash
  BY <1>1, <1>3 DEF Crash, ProgressInv, Progress, Succeeded, Working
<1>4. CASE UNCHANGED vars
  BY <1>1, <1>4, ProgressDepends DEF vars, ProgressInv
<1>5. QED
  BY <1>1, <1>2, <1>3, <1>4 DEF Next, ProgressInv

LEMMA ProgressInit == Init => ProgressInv
<1> SUFFICES ASSUME Init PROVE ProgressInv
  OBVIOUS
<1>1. RaceInv
  BY TypeInit, LockInit DEF Init, RaceInv, Working
<1>2. Sound(pg)
  BY DEF Init, EmptyServer, Sound, SoundTenants, SoundUsers, Absent
<1>3. QED
  BY <1>1, <1>2 DEF Init, ProgressInv, Progress, Succeeded, Working

-----------------------------------------------------------------------------
LEMMA SuccessIsTrue == ProgressInv => SuccessMeansDone
<1> SUFFICES ASSUME ProgressInv, NEW r \in Slots, Succeeded(r)
             PROVE  LET q == req[r]
                        v == job[r].vars IN
                    /\ q.op = "provision" =>
                          /\ instances[q.inst] = Resolve(q)
                          /\ v.base \in pg.roles /\ pg.acl[v.base] = Privileges
                          /\ QuotasInForce(v.base, Resolve(q))
                    /\ q.op = "update" =>
                          /\ instances[q.inst] = job[r].record
                          /\ QuotasInForce(v.base, job[r].record)
                    /\ q.op = "deprovision" => ~Recorded(q.inst) /\ NoTenant(v.base)
                    /\ q.op = "bind" =>
                          /\ Bound(q.bind) /\ Works(bindings[q.bind].credentials)
                          /\ \A d \in Defaults : <<v.user, d>> \in pg.defaults[v.base]
                    /\ q.op = "unbind" => ~Bound(q.bind) /\ NoUser(v.user)
  BY DEF SuccessMeansDone, Answered, Succeeded
<1> DEFINE q == req[r]
           w == job[r]
           v == w.vars
           t == w.template
<1>1. /\ w \in Job /\ Filled(q, w) /\ Written(r) /\ q \in Calls
      /\ BelongsTo(t, q.op) /\ t \notin TwoPart /\ Done(pg, v, t, Len(Template(t)))
  BY DEF ProgressInv, Progress, Finished
<1>2. pg \in Server /\ v \in TemplateVars /\ v.base \in Bases /\ v.user \in Bases
  BY <1>1 DEF ProgressInv, RaceInv, TypeInv, TypeOK, Job, TemplateVars
<1>3. CASE q.op = "provision"
  <2>1. ProvisionDone(pg, v, 11)
    BY <1>1, <1>3 DEF BelongsTo, TwoPart, Done, Template, TenantProvision
  <2>2. pg.acl[v.base] = Privileges
    BY <1>2, <2>1 DEF ProvisionDone, Privileges, Server
  <2>3. v.base \in pg.roles /\ v.base \notin pg.admin /\ pg.dbs[v.base] = v.conn /\ pg.tss[v.base] = v.gb
    BY <2>1 DEF ProvisionDone
  <2>4. instances[q.inst] = Resolve(q) /\ v.conn = Resolve(q).conn /\ v.gb = Resolve(q).gb
    BY <1>1, <1>3 DEF Written, Filled
  <2>5. QED
    BY <1>3, <2>2, <2>3, <2>4 DEF QuotasInForce
<1>4. CASE q.op = "update"
  <2>1. UpdateDone(pg, v, 4)
    BY <1>1, <1>4 DEF BelongsTo, Done, Template, AdminUpdate
  <2>2. QED
    BY <1>1, <1>4, <2>1 DEF UpdateDone, QuotasInForce, Written, Filled
<1>5. CASE q.op = "deprovision"
  <2>1. DeprovisionDone(pg, v, 6)
    BY <1>1, <1>5 DEF BelongsTo, Done, Template, AdminDeprovision
  <2>2. QED
    BY <1>1, <1>5, <2>1 DEF DeprovisionDone, TenantGone, NoTenant, Written
<1>6. CASE q.op = "bind"
  <2>1. BindDone(pg, v, 4)
    BY <1>1, <1>6 DEF BelongsTo, TwoPart, Done, Template, TenantBind
  <2>2. bindings[q.bind].credentials = [database |-> v.base, username |-> v.user, password |-> v.password]
        /\ Bound(q.bind)
    BY <1>1, <1>6 DEF Written, CredentialsOf
  <2>3. pg.users[v.user] = v.password
    BY <2>1 DEF BindDone
  <2>4. {m \in pg.member : m[1] = v.user} = {<<v.user, v.base>>}
    <3>1. \A m \in pg.member : m[1] = v.user => m[2] = v.base
      BY <2>1 DEF BindDone
    <3>2. \A m \in pg.member : m = <<m[1], m[2]>>
      BY <1>2 DEF Server
    <3>3. <<v.user, v.base>> \in pg.member
      BY <2>1 DEF BindDone
    <3>4. QED
      BY <3>1, <3>2, <3>3
  <2>5. \A d \in Defaults : <<v.user, d>> \in pg.defaults[v.base]
    BY <2>1 DEF BindDone, Defaults
  <2>6. QED
    BY <1>6, <2>2, <2>3, <2>4, <2>5 DEF Works
<1>7. CASE q.op = "unbind"
  <2>1. UnbindDone(pg, v, 4)
    BY <1>1, <1>7 DEF BelongsTo, TwoPart, Done, Template, AdminUnbind
  <2>2. QED
    BY <1>1, <1>7, <2>1 DEF UnbindDone, UserGone, NoUser, Written
<1>8. QED
  BY <1>1, <1>3, <1>4, <1>5, <1>6, <1>7 DEF Calls, Operations

\* A 2xx answer of Provision, Update, Deprovision, Bind or Unbind (broker.go) tells
\* the truth about server and store, whatever has failed before and elsewhere.
THEOREM SuccessIsDone == Spec => []SuccessMeansDone
BY ProgressInit, ProgressStep, SuccessIsTrue, PTL DEF Spec

-----------------------------------------------------------------------------
(***************************************************************************)
(* The work under the lock is bounded: the invariant says at which probe   *)
(* or statement of which template a handler can be, and CallsLeft counts   *)
(* down from there.                                                        *)
(***************************************************************************)
LEMMA StatementCounts ==
    /\ StatementsOf("admin-db/provision") = 11 /\ Len(Template("admin-db/provision")) = 8
    /\ StatementsOf("tenant-db/provision") = 3 /\ Len(Template("tenant-db/provision")) = 3
    /\ StatementsOf("admin-db/update") = 4 /\ Len(Template("admin-db/update")) = 4
    /\ StatementsOf("admin-db/deprovision") = 6 /\ Len(Template("admin-db/deprovision")) = 6
    /\ StatementsOf("admin-db/bind") = 4 /\ Len(Template("admin-db/bind")) = 2
    /\ StatementsOf("tenant-db/bind") = 2 /\ Len(Template("tenant-db/bind")) = 2
    /\ StatementsOf("tenant-db/unbind") = 4 /\ Len(Template("tenant-db/unbind")) = 2
    /\ StatementsOf("admin-db/unbind") = 2 /\ Len(Template("admin-db/unbind")) = 2
BY DEF StatementsOf, TwoPart, SecondPart, Template, AdminProvision, TenantProvision, AdminUpdate,
   AdminDeprovision, AdminBind, TenantBind, TenantUnbind, AdminUnbind

LEMMA CountsTyped ==
    ASSUME NEW t \in TemplateNames
    PROVE  /\ StatementsOf(t) \in Nat /\ Len(Template(t)) \in Nat
           /\ StatementsOf(t) >= Len(Template(t))
           /\ t \in TwoPart => /\ SecondPart(t) \in TemplateNames
                               /\ StatementsOf(t) = Len(Template(t)) + StatementsOf(SecondPart(t))
<1> DEFINE all == StatementsOf(t)
           first == Len(Template(t))
           second == StatementsOf(SecondPart(t))
<1>1. CASE t \in TwoPart
  <2>1. /\ SecondPart("admin-db/provision") = "tenant-db/provision"
        /\ SecondPart("admin-db/bind") = "tenant-db/bind"
        /\ SecondPart("tenant-db/unbind") = "admin-db/unbind"
    BY DEF SecondPart
  <2>2. \/ all = 11 /\ first = 8 /\ second = 3
        \/ all = 4 /\ first = 2 /\ second = 2
    BY <1>1, <2>1, StatementCounts, Zenon DEF TwoPart
  <2>3. SecondPart(t) \in TemplateNames
    BY <1>1, <2>1, Zenon DEF TwoPart, TemplateNames
  <2> HIDE DEF all, first, second
  <2>4. all \in Nat /\ first \in Nat /\ all >= first /\ all = first + second
    BY <2>2
  <2>5. QED
    BY <2>3, <2>4, Zenon DEF all, first, second
<1>2. CASE t \notin TwoPart
  <2>1. \/ all = 3 /\ first = 3
        \/ all = 4 /\ first = 4
        \/ all = 6 /\ first = 6
        \/ all = 2 /\ first = 2
    BY <1>2, StatementCounts, Zenon DEF TwoPart, TemplateNames
  <2> HIDE DEF all, first
  <2>2. all \in Nat /\ first \in Nat /\ all >= first
    BY <2>1
  <2>3. QED
    BY <1>2, <2>2, Zenon DEF all, first
<1>3. QED
  BY <1>1, <1>2, Zenon

\* The rollback of Provision or Bind, the store write, or nothing after a rollback.
AfterLast(q, w) ==
    CASE w.undo = "no" /\ q.op = "provision" -> 6
      [] w.undo = "no" /\ q.op = "bind" -> 4
      [] w.undo = "no" /\ q.op \notin {"provision", "bind"} -> 1
      [] OTHER -> 0

CallsIn(place, q, w) ==
    CASE place = "probe" -> Len(Probes(q.op)) - w.at + 1 + StatementsOf(w.template) + AfterLast(q, w)
      [] place = "exec"  -> StatementsOf(w.template) - w.at + 1 + AfterLast(q, w)
      [] place = "store" -> 1
      [] OTHER -> 0

LEMMA CallsLeftIs ==
    ASSUME NEW r \in Slots
    PROVE  /\ CallsLeft(r) = CallsIn(pc[r], req[r], job[r])
           /\ CallsLeft(r)' = CallsIn(pc'[r], req'[r], job'[r])
<1>1. /\ CallsAtEnd(r) = AfterLast(req[r], job[r])
      /\ CallsAtEnd(r)' = AfterLast(req'[r], job'[r])
  BY StatementCounts DEF CallsAtEnd, AfterLast, RollsBack, Rollback
<1>2. QED
  BY <1>1 DEF CallsLeft, CallsIn

LEMMA AfterLastIs ==
    ASSUME NEW q, NEW w
    PROVE  /\ AfterLast(q, w) \in 0..6
           /\ w.undo = "no" => AfterLast(q, w) >= 1
           /\ w.undo = "no" /\ q.op = "provision" => AfterLast(q, w) = 6
           /\ w.undo = "no" /\ q.op = "bind" => AfterLast(q, w) = 4
           /\ w.undo = "no" /\ q.op \notin {"provision", "bind"} => AfterLast(q, w) = 1
           /\ w.undo # "no" => AfterLast(q, w) = 0
BY DEF AfterLast

\* The calls left at a probe, and at a statement.
LEMMA CallsAtProbe ==
    ASSUME NEW s, NEW q, NEW w, Probing(s, q, w)
    PROVE  /\ q.op \in {"provision", "bind"} /\ w.undo = "no"
           /\ q.op = "provision" =>
                 w.at \in 1..3 /\ w.template = "admin-db/provision" /\ CallsIn("probe", q, w) = 21 - w.at
           /\ q.op = "bind" =>
                 w.at = 1 /\ w.template = "admin-db/bind" /\ CallsIn("probe", q, w) = 9
<1>1. q.op \in {"provision", "bind"} /\ w.undo = "no"
  BY DEF Probing
<1>2. CASE q.op = "provision"
  <2>1. /\ w.at \in 1..3 /\ w.template = "admin-db/provision" /\ StatementsOf(w.template) = 11
        /\ AfterLast(q, w) = 6 /\ Len(Probes(q.op)) = 3
    BY <1>1, <1>2, StatementCounts, AfterLastIs DEF Probing, Probes
  <2>2. CallsIn("probe", q, w) = 3 - w.at + 1 + 11 + 6
    BY <2>1 DEF CallsIn
  <2>3. QED
    BY <1>1, <1>2, <2>1, <2>2
<1>3. CASE q.op = "bind"
  <2>1. /\ w.at = 1 /\ w.template = "admin-db/bind" /\ StatementsOf(w.template) = 4
        /\ AfterLast(q, w) = 4 /\ Len(Probes(q.op)) = 1
    BY <1>1, <1>3, StatementCounts, AfterLastIs DEF Probing, Probes
  <2>2. CallsIn("probe", q, w) = 1 - 1 + 1 + 4 + 4
    BY <2>1 DEF CallsIn
  <2>3. QED
    BY <1>1, <1>3, <2>1, <2>2
<1>4. QED
  BY <1>1, <1>2, <1>3

LEMMA CallsAtStatement ==
    ASSUME NEW q, NEW w, w.template \in TemplateNames, w.at \in 1..Len(Template(w.template))
    PROVE  /\ CallsIn("exec", q, w) = StatementsOf(w.template) - w.at + 1 + AfterLast(q, w)
           /\ CallsIn("exec", q, w) \in Nat
           /\ CallsIn("exec", q, w) >= 1 + AfterLast(q, w)
<1>1. CallsIn("exec", q, w) = StatementsOf(w.template) - w.at + 1 + AfterLast(q, w)
  BY DEF CallsIn
<1>2. StatementsOf(w.template) \in Nat /\ Len(Template(w.template)) \in Nat
      /\ StatementsOf(w.template) >= Len(Template(w.template))
  BY CountsTyped
<1>3. AfterLast(q, w) \in 0..6
  BY AfterLastIs
<1>4. QED
  BY <1>1, <1>2, <1>3

\* The check admits a handler to at most MostCalls calls.
LEMMA CheckBounds ==
    ASSUME TypeInv, NEW r \in Slots, Check(r)
    PROVE  CallsLeft(r)' < MostCalls + 1
<1> DEFINE q == req[r]
<1>1. req' = req
  BY DEF Check, CheckProvision, CheckUpdate, CheckDeprovision, CheckBind, CheckUnbind, ReadFails
<1>2. CallsLeft(r)' = CallsIn(pc'[r], q, job'[r])
  BY <1>1, CallsLeftIs
<1>3. ASSUME NEW answer, Answer(r, answer) PROVE CallsLeft(r)' < MostCalls + 1
  <2>1. pc'[r] = "reply"
    BY <1>3 DEF Answer, Goto, TypeInv, TypeOK
  <2>2. QED
    BY <1>2, <2>1 DEF CallsIn, MostCalls
<1>4. ASSUME NEW place, NEW t, NEW v, NEW record, Begin(r, place, NewJob(t, v, record)),
             \/ q.op = "provision" /\ place = "probe" /\ t = "admin-db/provision"
             \/ q.op = "bind" /\ place = "probe" /\ t = "admin-db/bind"
             \/ /\ q.op \in {"update", "deprovision", "unbind"} /\ place = "exec"
                /\ t \in {"admin-db/update", "admin-db/deprovision", "tenant-db/unbind"}
      PROVE  CallsLeft(r)' < MostCalls + 1
  <2> DEFINE w == job'[r]
  <2>1. pc'[r] = place /\ w.template = t /\ w.at = 1 /\ w.undo = "no"
    BY <1>4 DEF Begin, Goto, NewJob, TypeInv, TypeOK
  <2> HIDE DEF w
  <2>2. CASE q.op = "provision"
    <3>1. AfterLast(q, w) = 6 /\ StatementsOf(t) = 11 /\ Len(Probes(q.op)) = 3 /\ place = "probe"
      BY <1>4, <2>1, <2>2, AfterLastIs, StatementCounts DEF Probes
    <3>2. CallsIn(place, q, w) = 3 - 1 + 1 + 11 + 6
      BY <2>1, <3>1 DEF CallsIn
    <3>3. QED
      BY <1>2, <2>1, <3>2 DEF MostCalls, w
  <2>3. CASE q.op = "bind"
    <3>1. AfterLast(q, w) = 4 /\ StatementsOf(t) = 4 /\ Len(Probes(q.op)) = 1 /\ place = "probe"
      BY <1>4, <2>1, <2>3, AfterLastIs, StatementCounts DEF Probes
    <3>2. CallsIn(place, q, w) = 1 - 1 + 1 + 4 + 4
      BY <2>1, <3>1 DEF CallsIn
    <3>3. QED
      BY <1>2, <2>1, <3>2 DEF MostCalls, w
  <2>4. CASE q.op \in {"update", "deprovision", "unbind"}
    <3>1. AfterLast(q, w) = 1 /\ StatementsOf(t) \in {4, 6} /\ place = "exec"
      BY <1>4, <2>1, <2>4, AfterLastIs, StatementCounts
    <3>2. CallsIn(place, q, w) = StatementsOf(t) - 1 + 1 + 1
      BY <2>1, <3>1 DEF CallsIn
    <3>3. QED
      BY <1>2, <2>1, <3>1, <3>2 DEF MostCalls, w
  <2>5. QED
    BY <1>4, <2>2, <2>3, <2>4
<1>5. CASE CheckProvision(r)
  BY <1>3, <1>4, <1>5 DEF CheckProvision
<1>6. CASE CheckUpdate(r)
  BY <1>3, <1>4, <1>6 DEF CheckUpdate
<1>7. CASE CheckDeprovision(r)
  BY <1>3, <1>4, <1>7 DEF CheckDeprovision
<1>8. CASE CheckBind(r)
  BY <1>3, <1>4, <1>8 DEF CheckBind
<1>9. CASE CheckUnbind(r)
  BY <1>3, <1>4, <1>9 DEF CheckUnbind
<1>10. CASE ReadFails(r)
  BY <1>3, <1>10 DEF ReadFails
<1>11. QED
  BY <1>5, <1>6, <1>7, <1>8, <1>9, <1>10 DEF Check

\* A probe.
LEMMA ProbeCounts ==
    ASSUME ProgressInv, NEW r \in Slots, EnsureAbsent(r) \/ ProbeFails(r)
    PROVE  CallsLeft(r)' < CallsLeft(r)
<1> DEFINE q == req[r]
           w == job[r]
           after == job'[r]
<1>1. TypeInv /\ pc[r] = "probe" /\ req' = req /\ w \in Job /\ Probing(pg, q, w)
  BY DEF EnsureAbsent, ProbeFails, ProgressInv, RaceInv, Progress, Working
<1>2. /\ CallsLeft(r) = CallsIn("probe", q, w)
      /\ CallsLeft(r)' = CallsIn(pc'[r], q, after)
  BY <1>1, CallsLeftIs
<1>3. CASE Answer(r, "conflict") \/ Answer(r, "error")
  <2>1. CallsLeft(r)' = 0
    BY <1>1, <1>2, <1>3 DEF Answer, Goto, TypeInv, TypeOK, CallsIn
  <2>2. CallsLeft(r) >= 9
    BY <1>1, <1>2, CallsAtProbe
  <2>3. QED
    BY <1>1, <1>2, <2>1, <2>2, CallsAtProbe
<1>4. CASE w.at < Len(Probes(q.op)) /\ job' = [job EXCEPT ![r].at = @ + 1] /\ UNCHANGED pc
  <2>1. q.op = "provision" /\ w.at \in 1..2
    BY <1>1, <1>4, CallsAtProbe DEF Probes
  <2>2. after.template = w.template /\ after.undo = w.undo /\ after.at = w.at + 1
    BY <1>1, <1>4 DEF TypeInv, TypeOK, Job
  <2>3. CallsIn("probe", q, w) = 3 - w.at + 1 + 11 + 6
    BY <1>1, <2>1, CallsAtProbe
  <2> HIDE DEF after
  <2>4. AfterLast(q, after) = 6 /\ StatementsOf(after.template) = 11 /\ Len(Probes(q.op)) = 3
    BY <1>1, <2>1, <2>2, AfterLastIs, StatementCounts, CallsAtProbe DEF Probes
  <2>5. CallsIn("probe", q, after) = 3 - (w.at + 1) + 1 + 11 + 6
    BY <2>2, <2>4 DEF CallsIn
  <2>6. QED
    BY <1>1, <1>2, <1>4, <2>1, <2>3, <2>5
<1>5. CASE w.at = Len(Probes(q.op)) /\ Begin(r, "exec", [w EXCEPT !.at = 1])
  <2>1. pc'[r] = "exec" /\ after.template = w.template /\ after.undo = w.undo /\ after.at = 1
    BY <1>1, <1>5 DEF Begin, Goto, TypeInv, TypeOK, Job
  <2> HIDE DEF after
  <2>2. CallsIn("exec", q, after) = StatementsOf(after.template) - 1 + 1 + AfterLast(q, after)
    BY <2>1 DEF CallsIn
  <2>3. CASE q.op = "provision"
    <3>1. AfterLast(q, after) = 6 /\ StatementsOf(after.template) = 11 /\ CallsIn("probe", q, w) = 21 - 3
      BY <1>1, <1>5, <2>1, <2>3, AfterLastIs, StatementCounts, CallsAtProbe DEF Probes
    <3>2. QED
      BY <1>2, <2>1, <2>2, <3>1
  <2>4. CASE q.op = "bind"
    <3>1. AfterLast(q, after) = 4 /\ StatementsOf(after.template) = 4 /\ CallsIn("probe", q, w) = 9
      BY <1>1, <2>1, <2>4, AfterLastIs, StatementCounts, CallsAtProbe
    <3>2. QED
      BY <1>2, <2>1, <2>2, <3>1
  <2>5. QED
    BY <1>1, <2>3, <2>4, CallsAtProbe
<1>6. QED
  BY <1>3, <1>4, <1>5 DEF EnsureAbsent, ProbeFails

\* A statement.
LEMMA StatementCountsDown ==
    ASSUME ProgressInv, NEW r \in Slots, StatementSucceeds(r) \/ StatementFails(r) \/ ReplyLost(r)
    PROVE  CallsLeft(r)' < CallsLeft(r)
<1> DEFINE q == req[r]
           w == job[r]
           t == w.template
           after == job'[r]
<1>1. TypeInv /\ pc[r] = "exec" /\ req' = req /\ w \in Job /\ Executing(pg, q, w)
  BY DEF StatementSucceeds, StatementFails, ReplyLost, ProgressInv, RaceInv, Progress, Working
<1>2. /\ CallsLeft(r) = CallsIn("exec", q, w)
      /\ CallsLeft(r)' = CallsIn(pc'[r], q, after)
  BY <1>1, CallsLeftIs
<1>3. t \in TemplateNames /\ w.at \in 1..Len(Template(t)) /\ StatementsOf(t) \in Nat
  BY <1>1, CountsTyped DEF Executing, Job
<1>4. /\ CallsIn("exec", q, w) = StatementsOf(t) - w.at + 1 + AfterLast(q, w)
      /\ CallsIn("exec", q, w) >= 1 + AfterLast(q, w) /\ CallsIn("exec", q, w) \in Nat
      /\ AfterLast(q, w) \in 0..6
  BY <1>3, CallsAtStatement, AfterLastIs
<1>5. CASE pc'[r] = "reply"
  <2>1. CallsIn(pc'[r], q, after) = 0
    BY <1>5 DEF CallsIn
  <2>2. QED
    BY <1>2, <1>4, <2>1
<1>6. CASE w.at < Len(Template(t)) /\ job' = [job EXCEPT ![r].at = @ + 1] /\ UNCHANGED pc
  <2>1. after.template = t /\ after.undo = w.undo /\ after.at = w.at + 1
    BY <1>1, <1>6 DEF TypeInv, TypeOK, Job
  <2> HIDE DEF after
  <2>2. AfterLast(q, after) = AfterLast(q, w)
    BY <2>1 DEF AfterLast
  <2>3. CallsIn("exec", q, after) = StatementsOf(t) - (w.at + 1) + 1 + AfterLast(q, w)
    BY <2>1, <2>2 DEF CallsIn
  <2>4. CallsLeft(r)' = CallsIn("exec", q, after)
    BY <1>1, <1>2, <1>6
  <2>5. w.at \in Nat
    BY <1>1 DEF Job
  <2>6. QED
    BY <1>2, <1>3, <1>4, <2>3, <2>4, <2>5
<1>7. CASE /\ w.at = Len(Template(t)) /\ t \in TwoPart
           /\ job' = [job EXCEPT ![r].template = SecondPart(t), ![r].at = 1] /\ UNCHANGED pc
  <2>1. after.template = SecondPart(t) /\ after.undo = w.undo /\ after.at = 1
    BY <1>1, <1>7 DEF TypeInv, TypeOK, Job
  <2> HIDE DEF after
  <2>2. AfterLast(q, after) = AfterLast(q, w)
    BY <2>1 DEF AfterLast
  <2>3. StatementsOf(t) = Len(Template(t)) + StatementsOf(SecondPart(t)) /\ Len(Template(t)) \in Nat
        /\ StatementsOf(SecondPart(t)) \in Nat
    BY <1>3, <1>7, CountsTyped
  <2>4. CallsIn("exec", q, after) = StatementsOf(SecondPart(t)) - 1 + 1 + AfterLast(q, w)
    BY <2>1, <2>2 DEF CallsIn
  <2>5. CallsLeft(r)' = CallsIn("exec", q, after)
    BY <1>1, <1>2, <1>7
  <2> DEFINE first == Len(Template(t))
             second == StatementsOf(SecondPart(t))
             all == StatementsOf(t)
             at == w.at
  <2>6. CallsIn("exec", q, w) = all - at + 1 + AfterLast(q, w) /\ all = first + second /\ at = first
    BY <1>4, <1>7, <2>3, Zenon
  <2>7. first \in Nat /\ second \in Nat
    BY <2>3
  <2>8. CallsIn("exec", q, after) = second - 1 + 1 + AfterLast(q, w)
    BY <2>4
  <2> HIDE DEF first, second, all, at
  <2>9. CallsIn("exec", q, after) < CallsIn("exec", q, w)
    BY <1>4, <2>6, <2>7, <2>8
  <2>10. QED
    BY <1>2, <2>5, <2>9
<1>8. CASE /\ w.at = Len(Template(t)) /\ w.undo = "no" /\ Goto(r, "store")
  <2>1. CallsIn(pc'[r], q, after) = 1
    BY <1>1, <1>8 DEF Goto, TypeInv, TypeOK, CallsIn
  <2>2. AfterLast(q, w) >= 1
    BY <1>8, AfterLastIs
  <2>3. QED
    BY <1>2, <1>4, <2>1, <2>2
<1>9. CASE /\ RollsBack(r) /\ UNCHANGED pc
           /\ job' = [job EXCEPT ![r].template = Rollback(q.op), ![r].at = 1, ![r].undo = "yes"]
  <2>1. after.template = Rollback(q.op) /\ after.undo = "yes" /\ after.at = 1
    BY <1>1, <1>9 DEF TypeInv, TypeOK, Job
  <2> HIDE DEF after
  <2>2. AfterLast(q, after) = 0 /\ AfterLast(q, w) = StatementsOf(after.template)
    BY <1>9, <2>1, AfterLastIs, StatementCounts DEF RollsBack, Rollback
  <2>3. CallsIn("exec", q, after) = StatementsOf(after.template) - 1 + 1 + 0
    BY <2>1, <2>2 DEF CallsIn
  <2>4. QED
    BY <1>1, <1>2, <1>4, <1>9, <2>2, <2>3
<1>10. ASSUME NEW answer, Answer(r, answer) PROVE pc'[r] = "reply"
  BY <1>1, <1>10 DEF Answer, Goto, TypeInv, TypeOK
<1>11. CASE Advance(r)
  BY <1>5, <1>6, <1>7, <1>8, <1>10, <1>11 DEF Advance
<1>12. CASE Fail(r)
  BY <1>5, <1>9, <1>10, <1>12 DEF Fail
<1>13. QED
  BY <1>11, <1>12 DEF StatementSucceeds, StatementFails, ReplyLost

LEMMA WorkBounded ==
    ASSUME ProgressInv, NEW r \in Slots, Proceed(r)
    PROVE  CallsLeft(r)' < (IF pc[r] \in Working THEN CallsLeft(r) ELSE MostCalls + 1)
<1>1. TypeInv
  BY DEF ProgressInv, RaceInv
<1>2. CASE Check(r)
  <2>1. pc[r] = "check" /\ CallsLeft(r)' < MostCalls + 1
    BY <1>1, <1>2, CheckBounds DEF Check, CheckProvision, CheckUpdate, CheckDeprovision, CheckBind,
       CheckUnbind, ReadFails
  <2>2. QED
    BY <2>1 DEF Working
<1>3. CASE EnsureAbsent(r) \/ ProbeFails(r)
  BY <1>3, ProbeCounts DEF EnsureAbsent, ProbeFails, Working
<1>4. CASE StatementSucceeds(r) \/ StatementFails(r) \/ ReplyLost(r)
  BY <1>4, StatementCountsDown DEF StatementSucceeds, StatementFails, ReplyLost, Working
<1>5. CASE StoreWrite(r) \/ StoreFails(r) \/ Reply(r)
  <2>1. pc[r] \in {"store", "reply"} /\ pc'[r] \in {"reply", "idle"}
    BY <1>1, <1>5 DEF StoreWrite, StoreFails, Reply, Answer, Goto, TypeInv, TypeOK
  <2>2. CallsLeft(r)' = 0 /\ (pc[r] = "store" => CallsLeft(r) = 1)
    BY <2>1 DEF CallsLeft
  <2>3. QED
    BY <2>1, <2>2 DEF Working, MostCalls
<1>6. QED
  BY <1>2, <1>3, <1>4, <1>5 DEF Proceed

\* What the requests behind a handler wait for: at most twenty calls, whatever fails
\* and however many of them there are.
THEOREM WorkAlwaysBounded == Spec => WorkIsBounded
<1>1. ProgressInv /\ [Next]_vars =>
          [\A r \in Slots : Proceed(r) =>
              CallsLeft(r)' < (IF pc[r] \in Working THEN CallsLeft(r) ELSE MostCalls + 1)]_vars
  BY WorkBounded
<1>2. QED
  BY <1>1, ProgressInit, ProgressStep, PTL DEF Spec, WorkIsBounded

-----------------------------------------------------------------------------
(***************************************************************************)
(* Two deployments on one server: all names of this one are in B, which is *)
(* what its GAUSSDB_NAME_PREFIX is for.                                    *)
(***************************************************************************)
NamesIn(B) ==
    /\ B \subseteq Bases
    /\ ShortHash \in [InstanceIds \cup BindingIds -> B]
    /\ Sanitized \in [Names -> B \cup {NoBase}]

WorksIn(B) ==
    /\ \A r \in Slots : job[r] # NoJob => job[r].vars.base \in B /\ job[r].vars.user \in B
    /\ \A b \in BindingIds : Bound(b) => bindings[b].user \in B

LEMMA NamesInB ==
    ASSUME NEW B, NamesIn(B), NEW n \in Names
    PROVE  /\ \A i \in InstanceIds : NamesFor(i, n) \in B
           /\ \A b \in BindingIds : UserFor(b, n) \in B
BY NamesAssumption DEF NamesIn, NamesFor, UserFor, BaseOf

\* A job is made by the check, with names of this deployment, and keeps them.
LEMMA JobIn ==
    ASSUME NEW B, NamesIn(B), TypeInv, WorksIn(B),
           NEW r \in Slots, Receive(r) \/ Lock(r) \/ Proceed(r) \/ ClientGone(r)
    PROVE  job'[r] # NoJob => job'[r].vars.base \in B /\ job'[r].vars.user \in B
<1> DEFINE q == req[r]
           w == job[r]
           InB(work) == work.vars.base \in B /\ work.vars.user \in B
<1>1. /\ job \in [Slots -> Job \cup {NoJob}]
      /\ instances \in [InstanceIds -> InstanceRecord \cup {NoRecord}]
      /\ bindings \in [BindingIds -> BindingRecord \cup {NoRecord}]
      /\ pc[r] # "idle" => q \in Calls
      /\ pc[r] \in Working => w \in Job /\ w # NoJob
      /\ w # NoJob => InB(w)
  BY BrokerAssumption DEF TypeInv, TypeOK, Engaged, WorksIn
<1>2. CASE Receive(r) \/ Lock(r) \/ ClientGone(r) \/ ReadFails(r) \/ ProbeFails(r)
           \/ StoreWrite(r) \/ StoreFails(r)
  BY <1>1, <1>2 DEF Receive, Lock, ClientGone, ReadFails, ProbeFails, StoreWrite, StoreFails
<1>3. CASE Reply(r)
  BY <1>1, <1>3 DEF Reply, Forget
<1>4. ASSUME NEW place, NEW t, NEW v, NEW record, v.base \in B, v.user \in B,
             Begin(r, place, NewJob(t, v, record))
      PROVE  InB(job'[r])
  <2>1. job'[r] = NewJob(t, v, record)
    BY <1>1, <1>4 DEF Begin
  <2>2. QED
    BY <1>4, <2>1 DEF NewJob
<1>5. ASSUME NEW i \in InstanceIds, NEW record, record.name \in Names
      PROVE  VarsOf(i, record).base \in B /\ VarsOf(i, record).user \in B
  BY <1>5, NamesInB DEF VarsOf
<1>6. ASSUME NEW i \in InstanceIds, Recorded(i), NEW user \in B
      PROVE  VarsOfUser(i, user).base \in B /\ VarsOfUser(i, user).user \in B
  <2>1. instances[i].name \in Names
    BY <1>1, <1>6 DEF Recorded, InstanceRecord
  <2>2. QED
    BY <2>1, NamesInB DEF VarsOfUser
<1>7. CASE CheckProvision(r)
  <2>1. q \in Calls /\ Resolve(q).name \in Names /\ q.inst \in InstanceIds
    BY <1>1, <1>7 DEF CheckProvision, Calls, Resolve
  <2>2. QED
    BY <1>1, <1>4, <1>5, <1>7, <2>1 DEF CheckProvision
<1>8. CASE CheckUpdate(r)
  <2>1. q \in Calls /\ q.inst \in InstanceIds
    BY <1>1, <1>8 DEF CheckUpdate, Calls
  <2>2. Recorded(q.inst) => Requota(instances[q.inst], q).name \in Names
    BY <1>1, <2>1 DEF Recorded, Requota, InstanceRecord
  <2>3. QED
    BY <1>1, <1>4, <1>5, <1>8, <2>1, <2>2 DEF CheckUpdate
<1>9. CASE CheckDeprovision(r)
  <2>1. q \in Calls /\ q.inst \in InstanceIds
    BY <1>1, <1>9 DEF CheckDeprovision, Calls
  <2>2. Recorded(q.inst) => instances[q.inst].name \in Names
    BY <1>1, <2>1 DEF Recorded, InstanceRecord
  <2>3. QED
    BY <1>1, <1>4, <1>5, <1>9, <2>1, <2>2 DEF CheckDeprovision
<1>10. CASE CheckBind(r)
  <2>1. q \in Calls /\ q.inst \in InstanceIds /\ UserFor(q.bind, q.name) \in B
    BY <1>1, <1>10, NamesInB DEF CheckBind, Calls
  <2>2. ASSUME NEW password,
               Recorded(q.inst),
               Begin(r, "probe", NewJob("admin-db/bind",
                   [VarsOfUser(q.inst, UserFor(q.bind, q.name)) EXCEPT !.password = password], NoRecord))
        PROVE  InB(job'[r])
    <3> DEFINE v == VarsOfUser(q.inst, UserFor(q.bind, q.name))
    <3>1. v.base \in B /\ v.user \in B
      BY <1>6, <2>1, <2>2
    <3>2. [v EXCEPT !.password = password].base = v.base /\ [v EXCEPT !.password = password].user = v.user
      BY DEF VarsOfUser
    <3> HIDE DEF v
    <3>3. QED
      BY <1>4, <2>2, <3>1, <3>2 DEF v
  <2>3. QED
    BY <1>1, <1>10, <2>2 DEF CheckBind
<1>11. CASE CheckUnbind(r)
  <2>1. q \in Calls /\ q.inst \in InstanceIds /\ q.bind \in BindingIds
    BY <1>1, <1>11 DEF CheckUnbind, Calls
  <2>2. Bound(q.bind) => bindings[q.bind].user \in B
    BY <2>1 DEF WorksIn
  <2>3. QED
    BY <1>1, <1>4, <1>6, <1>11, <2>1, <2>2 DEF CheckUnbind
<1>12. CASE EnsureAbsent(r)
  BY <1>1, <1>12 DEF EnsureAbsent, Begin, Working, Job
<1>13. CASE StatementSucceeds(r) \/ StatementFails(r) \/ ReplyLost(r)
  <2>1. w \in Job /\ w # NoJob /\ (Advance(r) \/ Fail(r))
    BY <1>1, <1>13 DEF StatementSucceeds, StatementFails, ReplyLost, Working
  <2>2. job'[r].vars = w.vars
    BY <1>1, <2>1 DEF Advance, Fail, Job
  <2>3. QED
    BY <1>1, <2>1, <2>2
<1>14. QED
  BY <1>2, <1>3, <1>7, <1>8, <1>9, <1>10, <1>11, <1>12, <1>13 DEF Proceed, Check

LEMMA WorksInInit == ASSUME NEW B, Init PROVE WorksIn(B)
BY DEF Init, WorksIn, Bound

LEMMA WorksInStep ==
    ASSUME NEW B, NamesIn(B), RaceInv, WorksIn(B), [Next]_vars
    PROVE  WorksIn(B)'
<1>1. TypeInv
  BY DEF RaceInv
<1>2. ASSUME NEW r \in Slots, Receive(r) \/ Lock(r) \/ Proceed(r) \/ ClientGone(r)
      PROVE  WorksIn(B)'
  <2>1. ASSUME NEW s \in Slots
        PROVE  job'[s] # NoJob => job'[s].vars.base \in B /\ job'[s].vars.user \in B
    <3>1. CASE s = r
      BY <1>1, <1>2, <3>1, JobIn
    <3>2. CASE s # r
      <4>1. job'[s] = job[s]
        BY <1>1, <1>2, <3>2, OthersStay
      <4>2. QED
        BY <4>1 DEF WorksIn
    <3>3. QED
      BY <3>1, <3>2
  <2>2. ASSUME NEW b \in BindingIds PROVE Bound(b)' => bindings'[b].user \in B
    <3>1. CASE UNCHANGED store
      BY <3>1 DEF store, WorksIn, Bound
    <3>2. CASE pc[r] = "store" /\ StoreEffect(r)
      <4>1. job[r].vars.user \in B
        BY <1>1, <3>2, BrokerAssumption DEF TypeInv, Engaged, Working, WorksIn
      <4>2. bindings \in [BindingIds -> BindingRecord \cup {NoRecord}]
        BY <1>1 DEF TypeInv, TypeOK
      <4>3. \/ bindings'[b] = bindings[b] \/ bindings'[b] = NoRecord
            \/ bindings'[b].user = job[r].vars.user
        BY <3>2, <4>2 DEF StoreEffect
      <4>4. QED
        BY <4>1, <4>3 DEF WorksIn, Bound
    <3>3. QED
      BY <1>1, <1>2, <3>1, <3>2, StoreStays
  <2>3. QED
    BY <2>1, <2>2 DEF WorksIn
<1>3. CASE Crash
  BY <1>3 DEF Crash, WorksIn, Bound, store
<1>4. CASE UNCHANGED vars
  BY <1>4 DEF vars, WorksIn, Bound
<1>5. QED
  BY <1>2, <1>3, <1>4 DEF Next

\* What the other deployment sees of a step of this one.
LEMMA StepLeavesAlone ==
    ASSUME ProgressInv, NEW B, NamesIn(B), WorksIn(B), [Next]_vars,
           NEW C \in SUBSET Bases, C \cap B = {}
    PROVE  LeavesAlone(pg, pg', C) /\ pg' \in Server /\ Sound(pg')
<1>1. pg \in Server /\ pg' \in Server /\ Sound(pg')
  BY ProgressStep DEF ProgressInv, RaceInv, TypeInv, TypeOK
<1>2. CASE pg' = pg
  BY <1>1, <1>2 DEF LeavesAlone
<1>3. CASE \E r \in Slots : StatementSucceeds(r) \/ ReplyLost(r)
  <2>1. PICK r \in Slots : pc[r] = "exec" /\ Permits(pg, job[r].vars, Statement(r))
                           /\ pg' = Effect(pg, job[r].vars, Statement(r))
    BY <1>3 DEF StatementSucceeds, ReplyLost
  <2>2. Executes(pg, job[r].vars, Statement(r), pg')
    BY <2>1, StatementDone
  <2>3. job[r] \in Job /\ job[r].vars \in TemplateVars
    BY <2>1 DEF ProgressInv, Progress, Working, Job
  <2>4. job[r].vars.base \notin C /\ job[r].vars.user \notin C
    BY <2>3, BrokerAssumption DEF WorksIn
  <2>5. QED
    BY <1>1, <2>2, <2>3, <2>4, ExecutesLeavesAlone
<1>4. pg' = pg \/ \E r \in Slots : StatementSucceeds(r) \/ ReplyLost(r)
  <2>1. ASSUME NEW r \in Slots, Receive(r) \/ Lock(r) \/ Proceed(r) \/ ClientGone(r)
        PROVE  pg' = pg \/ StatementSucceeds(r) \/ ReplyLost(r)
    BY <2>1 DEF Receive, Lock, ClientGone, Proceed, Check, CheckProvision, CheckUpdate, CheckDeprovision,
       CheckBind, CheckUnbind, ReadFails, EnsureAbsent, ProbeFails, StatementFails, StoreWrite, StoreFails,
       Reply
  <2>2. QED
    BY <2>1 DEF Next, Crash, vars
<1>5. QED
  BY <1>1, <1>2, <1>3, <1>4

\* A step of the other deployment: nothing of this one but the server changes.
Foreign(B) ==
    /\ LeavesAlone(pg, pg', B) /\ pg' \in Server /\ Sound(pg')
    /\ UNCHANGED <<mu, instances, bindings, pc, req, alive, job, faults, result>>

LEMMA ProgressFramed ==
    ASSUME ProgressInv, NEW B, B \subseteq Bases, WorksIn(B), Foreign(B)
    PROVE  ProgressInv' /\ WorksIn(B)'
<1>1. /\ pg \in Server /\ pg' \in Server /\ Sound(pg') /\ LeavesAlone(pg, pg', B)
      /\ UNCHANGED <<mu, instances, bindings, pc, req, alive, job, faults, result>>
  BY DEF Foreign, ProgressInv, RaceInv, TypeInv, TypeOK
<1>2. WorksIn(B)'
  BY <1>1 DEF WorksIn, Bound
<1>3. TypeInv' /\ LockInv'
  BY <1>1 DEF ProgressInv, RaceInv, TypeInv, TypeOK, Engaged, LockInv, OneAtATime
<1>4. ASSUME NEW r \in Slots, pc'[r] \in Working PROVE StillAsChecked(r)' /\ JobOfRequest(r)'
  <2>1. StillAsChecked(r) /\ JobOfRequest(r)
    BY <1>1, <1>4 DEF ProgressInv, RaceInv
  <2>2. QED
    BY <1>1, <2>1, CheckedDepends DEF store
<1>5. ASSUME NEW r \in Slots PROVE Progress(r)'
  <2> DEFINE w == job[r]
  <2>1. Progress(r)
    BY DEF ProgressInv
  <2>2. CASE pc[r] \in Working \/ Succeeded(r)
    <3>1. w \in Job /\ w.vars \in TemplateVars /\ w.vars.base \in B /\ w.vars.user \in B
      BY <2>1, <2>2, BrokerAssumption DEF Progress, Job, WorksIn
    <3>2. \A t, k : Done(pg, w.vars, t, k) => Done(pg', w.vars, t, k)
      BY <1>1, <3>1, DoneFramed
    <3>3. Probing(pg, req[r], w) => Probing(pg', req[r], w)
      BY <1>1, <3>1 DEF Probing, LeavesAlone
    <3>4. Executing(pg, req[r], w) => Executing(pg', req[r], w)
      BY <3>2 DEF Executing
    <3>5. Finished(pg, req[r], w) => Finished(pg', req[r], w)
      BY <3>2 DEF Finished
    <3>6. Written(r) => Written(r)'
      BY <1>1 DEF Written, Recorded, Bound, CredentialsOf, Resolve
    <3>7. QED
      BY <1>1, <2>1, <3>3, <3>4, <3>5, <3>6 DEF Progress, Succeeded
  <2>3. CASE ~(pc[r] \in Working \/ Succeeded(r))
    BY <1>1, <2>3 DEF Progress, Succeeded, Working
  <2>4. QED
    BY <2>2, <2>3
<1>6. QED
  BY <1>1, <1>2, <1>3, <1>4, <1>5 DEF ProgressInv, RaceInv
=============================================================================

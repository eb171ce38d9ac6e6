----------------------------- MODULE BrokerProofs -----------------------------
(***************************************************************************)
(* Proofs about Broker, for every number of handlers, instances, bindings  *)
(* and plans, every workload and every set of faults.                      *)
(***************************************************************************)
EXTENDS BrokerProperties, TLAPS

USE DEF store

-----------------------------------------------------------------------------
(***************************************************************************)
(* One operation at a time.  Lock takes mu only when it is free, a handler *)
(* at a critical place keeps it, and only Reply and Crash release it.      *)
(***************************************************************************)
Places == {"idle", "lock", "check", "probe", "exec", "store", "reply"}

LockInv ==
    /\ pc \in [Slots -> Places]
    /\ OneAtATime

\* A handler moves itself from one critical place to another.
Moves(r) == \E place \in Critical : pc' = [pc EXCEPT ![r] = place]

LEMMA ProceedMoves ==
    ASSUME LockInv, NEW r \in Slots, Proceed(r)
    PROVE  /\ pc[r] \in Critical
           /\ \/ Moves(r) /\ mu' = mu
              \/ pc' = pc /\ mu' = mu
              \/ pc' = [pc EXCEPT ![r] = "idle"] /\ mu' = Free
<1> USE DEF Moves, Critical, Goto, Answer, Begin
<1>1. CASE Check(r)
  BY <1>1 DEF Check, CheckProvision, CheckUpdate, CheckDeprovision, CheckBind, CheckUnbind, ReadFails
<1>2. CASE EnsureAbsent(r) \/ ProbeFails(r)
  BY <1>2 DEF EnsureAbsent, ProbeFails
<1>3. CASE StatementSucceeds(r)
  BY <1>3 DEF StatementSucceeds, Advance
<1>4. CASE StatementFails(r) \/ ReplyLost(r)
  BY <1>4 DEF StatementFails, ReplyLost, Fail
<1>5. CASE StoreWrite(r) \/ StoreFails(r)
  BY <1>5 DEF StoreWrite, StoreFails
<1>6. CASE Reply(r)
  BY <1>6 DEF Reply
<1>7. QED
  BY <1>1, <1>2, <1>3, <1>4, <1>5, <1>6 DEF Proceed

LEMMA LockStep == LockInv /\ [Next]_vars => LockInv'
<1> SUFFICES ASSUME LockInv, [Next]_vars PROVE LockInv'
  OBVIOUS
<1> USE DEF LockInv, OneAtATime, Places, Critical
<1>1. ASSUME NEW r \in Slots, Receive(r) PROVE LockInv'
  BY <1>1 DEF Receive, Goto
<1>2. ASSUME NEW r \in Slots, Lock(r) PROVE LockInv'
  BY <1>2, BrokerAssumption DEF Lock, Goto
<1>3. ASSUME NEW r \in Slots, Proceed(r) PROVE LockInv'
  BY <1>3, ProceedMoves, BrokerAssumption DEF Moves
<1>4. ASSUME NEW r \in Slots, ClientGone(r) PROVE LockInv'
  BY <1>4 DEF ClientGone
<1>5. CASE Crash
  BY <1>5, BrokerAssumption DEF Crash
<1>6. CASE UNCHANGED vars
  BY <1>6 DEF vars
<1>7. QED
  BY <1>1, <1>2, <1>3, <1>4, <1>5, <1>6 DEF Next

LEMMA LockInit == Init => LockInv
BY BrokerAssumption DEF Init, LockInv, OneAtATime, Places, Critical

\* Broker.mu: "one mutating operation run[s] at a time", crashes included.
THEOREM MutualExclusion == Spec => []OneAtATime
<1>1. Init => LockInv
  BY LockInit
<1>2. LockInv => OneAtATime
  BY DEF LockInv
<1>3. QED
  BY <1>1, <1>2, LockStep, PTL DEF Spec

-----------------------------------------------------------------------------
(***************************************************************************)
(* Types.  What the helpers build is of its type; a handler past the lock  *)
(* has a request, and one at work has a job, with a record to write if its *)
(* operation writes one.                                                   *)
(***************************************************************************)
LEMMA NameTyped ==
    ASSUME NEW n \in Names
    PROVE  /\ \A i \in InstanceIds : NamesFor(i, n) \in Bases
           /\ \A b \in BindingIds : UserFor(b, n) \in Bases
BY NamesAssumption DEF NamesFor, UserFor, BaseOf

LEMMA ResolveTyped ==
    ASSUME NEW q \in Calls, q.plan \in Plans
    PROVE  Resolve(q) \in InstanceRecord
BY CatalogAssumption DEF Resolve, Resolved, Calls, InstanceRecord

LEMMA RequotaTyped ==
    ASSUME NEW q \in Calls, NEW record \in InstanceRecord
    PROVE  Requota(record, q) \in InstanceRecord
BY CatalogAssumption DEF Requota, Resolved, Calls, InstanceRecord

LEMMA VarsOfTyped ==
    ASSUME NEW i \in InstanceIds, NEW record \in InstanceRecord
    PROVE  VarsOf(i, record) \in TemplateVars
BY NameTyped DEF VarsOf, TemplateVars, InstanceRecord

LEMMA VarsOfUserTyped ==
    ASSUME NEW i \in InstanceIds, instances[i] \in InstanceRecord, NEW user \in Bases
    PROVE  VarsOfUser(i, user) \in TemplateVars
BY NameTyped DEF VarsOfUser, TemplateVars, InstanceRecord

LEMMA NewJobTyped ==
    ASSUME NEW template \in TemplateNames, NEW v \in TemplateVars,
           NEW record \in InstanceRecord \cup {NoRecord}
    PROVE  NewJob(template, v, record) \in Job
BY DEF NewJob, Job

LEMMA EffectTyped ==
    ASSUME NEW s \in Server, NEW v \in TemplateVars, NEW op
    PROVE  Effect(s, v, op) \in Server
<1> DEFINE e == Effect(s, v, op)
<1>1. e.roles \in SUBSET Bases
  BY DEF Effect, Server, TemplateVars
<1>2. e.dbs \in [Bases -> Nat] /\ e.tss \in [Bases -> Nat]
  BY DEF Effect, Server, TemplateVars, Absent
<1>3. e.acl \in [Bases -> SUBSET Privileges]
  BY DEF Effect, Server, TemplateVars
<1>4. e.admin \in SUBSET Bases
  BY DEF Effect, Server, TemplateVars
<1>5. e.users \in [Bases -> Passwords \cup {NoPassword}]
  BY DEF Effect, Server, TemplateVars
<1>6. e.schemas \in SUBSET Bases
  BY DEF Effect, Server, TemplateVars
<1>7. e.member \in SUBSET (Bases \X Bases)
  <2>1. s.member \subseteq Bases \X Bases /\ <<v.user, v.base>> \in Bases \X Bases
    BY DEF Server, TemplateVars
  <2>2. \/ e.member = s.member \cup {<<v.user, v.base>>}
        \/ e.member \subseteq s.member
    BY DEF Effect
  <2>3. QED
    BY <2>1, <2>2
<1>8. e.defaults \in [Bases -> SUBSET (Bases \X Defaults)]
  <2>1. s.defaults \in [Bases -> SUBSET (Bases \X Defaults)]
    BY DEF Server
  <2>2. \A d \in Defaults : <<v.user, d>> \in Bases \X Defaults
    BY DEF TemplateVars
  <2>3. CASE op \in Defaults
    <3>1. e.defaults = [s.defaults EXCEPT ![v.base] = @ \cup {<<v.user, op>>}]
      BY <2>3 DEF Effect, Defaults
    <3>2. s.defaults[v.base] \cup {<<v.user, op>>} \in SUBSET (Bases \X Defaults)
      BY <2>1, <2>2, <2>3 DEF TemplateVars
    <3>3. QED
      BY <2>1, <3>1, <3>2
  <2>4. CASE op \notin Defaults
    <3>1. \/ e.defaults = [s.defaults EXCEPT ![v.base] = {d \in @ : d[1] # v.user}]
          \/ e.defaults = [s.defaults EXCEPT ![v.base] = {}]
          \/ e.defaults = s.defaults
      BY <2>4 DEF Effect
    <3>2. {d \in s.defaults[v.base] : d[1] # v.user} \in SUBSET (Bases \X Defaults)
      BY <2>1 DEF TemplateVars
    <3>3. QED
      BY <2>1, <3>1, <3>2
  <2>5. QED
    BY <2>3, <2>4
<1>9. e = [roles |-> e.roles, dbs |-> e.dbs, tss |-> e.tss, acl |-> e.acl, admin |-> e.admin,
           users |-> e.users, schemas |-> e.schemas, member |-> e.member, defaults |-> e.defaults]
  BY DEF Effect
<1>10. QED
  BY <1>1, <1>2, <1>3, <1>4, <1>5, <1>6, <1>7, <1>8, <1>9 DEF Server

LEMMA StatementTyped ==
    ASSUME NEW r \in Slots, pg \in Server, job[r] \in Job
    PROVE  Effect(pg, job[r].vars, Statement(r)) \in Server
BY EffectTyped DEF Job

Engaged ==
    \A r \in Slots :
        /\ pc[r] # "idle" => req[r] \in Calls
        /\ pc[r] \in Working =>
              /\ job[r] \in Job
              /\ req[r].op \in {"provision", "update"} => job[r].record \in InstanceRecord

TypeInv == TypeOK /\ Engaged

\* The variables a handler shares with the others, and its context.
SharedTyped ==
    /\ mu \in Slots \cup {Free}
    /\ instances \in [InstanceIds -> InstanceRecord \cup {NoRecord}]
    /\ bindings \in [BindingIds -> BindingRecord \cup {NoRecord}]
    /\ pg \in Server
    /\ alive \in [Slots -> BOOLEAN]

\* A handler that goes on with a job, or answers, keeps the types.
LEMMA Continues ==
    ASSUME TypeInv, NEW r \in Slots, pc[r] # "idle",
           SharedTyped', UNCHANGED req,
           faults' = faults \/ Suffer(r),
           \/ /\ job' = job \/ \E work \in Job : job' = [job EXCEPT ![r] = work]
              /\ \E answer \in Results : Answer(r, answer)
           \/ \E place \in Working, work \in Job :
                /\ req[r].op \in {"provision", "update"} => work.record \in InstanceRecord
                /\ Begin(r, place, work)
    PROVE  TypeInv'
<1> USE DEF TypeInv, TypeOK, SharedTyped, Engaged, Working, Suffer
<1>1. CASE /\ job' = job \/ \E work \in Job : job' = [job EXCEPT ![r] = work]
           /\ \E answer \in Results : Answer(r, answer)
  BY <1>1 DEF Answer, Goto
<1>2. CASE \E place \in Working, work \in Job :
             /\ req[r].op \in {"provision", "update"} => work.record \in InstanceRecord
             /\ Begin(r, place, work)
  <2>1. PICK place \in Working, work \in Job :
             /\ req[r].op \in {"provision", "update"} => work.record \in InstanceRecord
             /\ Begin(r, place, work)
    BY <1>2
  <2>2. pc' = [pc EXCEPT ![r] = place] /\ job' = [job EXCEPT ![r] = work] /\ result' = result
    BY <2>1 DEF Begin, Goto
  <2>3. TypeOK'
    BY <2>2
  <2>4. Engaged'
    BY <2>1, <2>2
  <2>5. QED
    BY <2>3, <2>4
<1>3. QED
  BY <1>1, <1>2

LEMMA CheckContinues ==
    ASSUME TypeInv, NEW r \in Slots, Check(r)
    PROVE  TypeInv'
<1> DEFINE q == req[r]
           answers == UNCHANGED job /\ \E answer \in Results : Answer(r, answer)
<1> USE DEF Results, Working
<1>1. q \in Calls /\ pc[r] # "idle"
  BY DEF TypeInv, Engaged, Check, CheckProvision, CheckUpdate, CheckDeprovision, CheckBind,
         CheckUnbind, ReadFails
<1>2. SharedTyped' /\ UNCHANGED req
  BY DEF TypeInv, TypeOK, SharedTyped, Check, CheckProvision, CheckUpdate, CheckDeprovision,
         CheckBind, CheckUnbind, ReadFails
<1>3. instances[q.inst] \in InstanceRecord \cup {NoRecord} /\ q.inst \in InstanceIds
  BY <1>1 DEF TypeInv, TypeOK, Calls
<1>4. CASE CheckProvision(r)
  <2>1. CASE ~ValidProvision(q) \/ Recorded(q.inst)
    BY <1>1, <1>2, <1>4, <2>1, Continues DEF CheckProvision
  <2>2. CASE ValidProvision(q) /\ ~Recorded(q.inst)
    <3>1. Resolve(q) \in InstanceRecord
      BY <1>1, <2>2, ResolveTyped DEF ValidProvision
    <3>2. NewJob("admin-db/provision", VarsOf(q.inst, Resolve(q)), Resolve(q)) \in Job
      BY <1>3, <3>1, VarsOfTyped, NewJobTyped DEF TemplateNames
    <3>3. QED
      BY <1>1, <1>2, <1>4, <2>2, <3>1, <3>2, Continues DEF CheckProvision, NewJob
  <2>3. QED
    BY <2>1, <2>2
<1>5. CASE CheckUpdate(r)
  <2>1. CASE answers
    BY <1>1, <1>2, <1>5, <2>1, Continues DEF CheckUpdate
  <2>2. CASE Recorded(q.inst) /\ ~answers
    <3>1. Requota(instances[q.inst], q) \in InstanceRecord
      BY <1>1, <1>3, <2>2, RequotaTyped DEF Recorded
    <3>2. NewJob("admin-db/update", VarsOf(q.inst, Requota(instances[q.inst], q)),
                 Requota(instances[q.inst], q)) \in Job
      BY <1>3, <3>1, VarsOfTyped, NewJobTyped DEF TemplateNames
    <3>3. QED
      BY <1>1, <1>2, <1>5, <2>2, <3>1, <3>2, Continues DEF CheckUpdate, NewJob
  <2>3. QED
    BY <1>5, <2>1, <2>2 DEF CheckUpdate
<1>6. CASE CheckDeprovision(r)
  <2>1. CASE ~Recorded(q.inst)
    BY <1>1, <1>2, <1>6, <2>1, Continues DEF CheckDeprovision
  <2>2. CASE Recorded(q.inst)
    <3>1. NewJob("admin-db/deprovision", VarsOf(q.inst, instances[q.inst]), NoRecord) \in Job
      BY <1>3, <2>2, VarsOfTyped, NewJobTyped DEF TemplateNames, Recorded
    <3>2. QED
      BY <1>1, <1>2, <1>6, <2>2, <3>1, Continues DEF CheckDeprovision, NewJob
  <2>3. QED
    BY <2>1, <2>2
<1>7. CASE CheckBind(r)
  <2>1. CASE answers
    BY <1>1, <1>2, <1>7, <2>1, Continues DEF CheckBind
  <2>2. CASE Recorded(q.inst) /\ ~answers
    <3>1. PICK password \in Passwords :
             Begin(r, "probe", NewJob("admin-db/bind",
                 [VarsOfUser(q.inst, UserFor(q.bind, q.name)) EXCEPT !.password = password],
                 NoRecord))
      BY <1>7, <2>2 DEF CheckBind
    <3>2. VarsOfUser(q.inst, UserFor(q.bind, q.name)) \in TemplateVars
      BY <1>1, <1>3, <2>2, NameTyped, VarsOfUserTyped DEF Recorded, Calls
    <3>3. [VarsOfUser(q.inst, UserFor(q.bind, q.name)) EXCEPT !.password = password] \in TemplateVars
      BY <3>2 DEF TemplateVars
    <3>4. NewJob("admin-db/bind",
                 [VarsOfUser(q.inst, UserFor(q.bind, q.name)) EXCEPT !.password = password],
                 NoRecord) \in Job
      BY <3>3, NewJobTyped DEF TemplateNames
    <3>5. QED
      BY <1>1, <1>2, <1>7, <3>1, <3>4, Continues DEF CheckBind, NewJob
  <2>3. QED
    BY <1>7, <2>1, <2>2 DEF CheckBind
<1>8. CASE CheckUnbind(r)
  <2>1. CASE answers
    BY <1>1, <1>2, <1>8, <2>1, Continues DEF CheckUnbind
  <2>2. CASE Recorded(q.inst) /\ Bound(q.bind) /\ ~answers
    <3>1. bindings[q.bind].user \in Bases
      BY <1>1, <2>2 DEF TypeInv, TypeOK, Bound, Calls, BindingRecord
    <3>2. NewJob("tenant-db/unbind", VarsOfUser(q.inst, bindings[q.bind].user), NoRecord) \in Job
      BY <1>3, <2>2, <3>1, VarsOfUserTyped, NewJobTyped DEF Recorded, TemplateNames
    <3>3. QED
      BY <1>1, <1>2, <1>8, <2>2, <3>2, Continues DEF CheckUnbind, NewJob
  <2>3. QED
    BY <1>8, <2>1, <2>2 DEF CheckUnbind
<1>9. CASE ReadFails(r)
  BY <1>1, <1>2, <1>9, Continues DEF ReadFails
<1>10. QED
  BY <1>4, <1>5, <1>6, <1>7, <1>8, <1>9 DEF Check

LEMMA ProceedTyped ==
    ASSUME TypeInv, NEW r \in Slots, Proceed(r)
    PROVE  TypeInv'
<1> USE DEF Results, Working
<1>1. CASE Check(r)
  BY <1>1, CheckContinues
<1>2. ASSUME pc[r] \in Working
      PROVE  /\ req[r] \in Calls /\ job[r] \in Job
             /\ req[r].op \in {"provision", "update"} => job[r].record \in InstanceRecord
  BY <1>2 DEF TypeInv, Engaged
<1>3. CASE EnsureAbsent(r) \/ ProbeFails(r)
  <2>1. SharedTyped' /\ UNCHANGED req /\ pc[r] = "probe"
    BY <1>3 DEF TypeInv, TypeOK, SharedTyped, EnsureAbsent, ProbeFails
  <2>2. faults' = faults \/ Suffer(r)
    BY <1>3 DEF EnsureAbsent, ProbeFails
  <2>3. CASE UNCHANGED job /\ \E answer \in Results : Answer(r, answer)
    BY <2>1, <2>2, <2>3, Continues
  <2>4. CASE Begin(r, "exec", [job[r] EXCEPT !.at = 1])
    <3> DEFINE first == [job[r] EXCEPT !.at = 1]
    <3>1. first \in Job /\ first.record = job[r].record
      BY <1>2, <2>1 DEF Job
    <3>2. Begin(r, "exec", first)
      BY <2>4
    <3> HIDE DEF first
    <3>3. QED
      BY <1>2, <2>1, <2>2, <3>1, <3>2, Continues
  <2>5. CASE job' = [job EXCEPT ![r].at = @ + 1] /\ UNCHANGED <<pc, result>>
    <3> DEFINE next == [job[r] EXCEPT !.at = @ + 1]
    <3>1. job[r].at + 1 \in Nat
      BY <1>2, <2>1 DEF Job
    <3>2. next \in Job /\ next.record = job[r].record
      BY <1>2, <2>1, <3>1 DEF Job
    <3>3. Begin(r, "probe", next)
      BY <2>1, <2>5 DEF Begin, Goto, TypeInv, TypeOK
    <3> HIDE DEF next
    <3>4. QED
      BY <1>2, <2>1, <2>2, <3>2, <3>3, Continues
  <2>6. QED
    BY <1>3, <2>3, <2>4, <2>5 DEF EnsureAbsent, ProbeFails
<1>4. CASE StatementSucceeds(r) \/ StatementFails(r) \/ ReplyLost(r)
  <2> DEFINE t == job[r].template
             next == [job[r] EXCEPT !.at = @ + 1]
             second == [job[r] EXCEPT !.template = SecondPart(t), !.at = 1]
             undone == [job[r] EXCEPT !.undo = "done"]
             undoing == [job[r] EXCEPT !.template = Rollback(req[r].op), !.at = 1, !.undo = "yes"]
  <2>1. SharedTyped' /\ UNCHANGED req /\ pc[r] = "exec"
    BY <1>2, <1>4, StatementTyped
    DEF TypeInv, TypeOK, SharedTyped, StatementSucceeds, StatementFails, ReplyLost
  <2>2. faults' = faults \/ Suffer(r)
    BY <1>4 DEF StatementSucceeds, StatementFails, ReplyLost
  <2>3. next \in Job /\ next.record = job[r].record
    <3>1. job[r].at + 1 \in Nat
      BY <1>2, <2>1 DEF Job
    <3>2. QED
      BY <1>2, <2>1, <3>1 DEF Job
  <2>4. t \in TwoPart => second \in Job /\ second.record = job[r].record
    BY <1>2, <2>1 DEF Job, TwoPart, SecondPart, TemplateNames
  <2>5. undone \in Job
    BY <1>2, <2>1 DEF Job
  <2>6. undoing \in Job /\ undoing.record = job[r].record
    BY <1>2, <2>1 DEF Job, Rollback, TemplateNames
  <2>7. \/ Begin(r, "exec", next)
        \/ t \in TwoPart /\ Begin(r, "exec", second)
        \/ Begin(r, "store", job[r])
        \/ job' = [job EXCEPT ![r] = undone] /\ Answer(r, "error")
        \/ Begin(r, "exec", undoing)
        \/ UNCHANGED job /\ Answer(r, "error")
    <3>1. CASE Advance(r)
      BY <2>1, <3>1 DEF Advance, Begin, Goto, TypeInv, TypeOK
    <3>2. CASE Fail(r)
      BY <2>1, <3>2 DEF Fail, Begin, Goto, TypeInv, TypeOK
    <3>3. QED
      BY <1>4, <3>1, <3>2 DEF StatementSucceeds, StatementFails, ReplyLost
  <2> HIDE DEF t, next, second, undone, undoing
  <2>8. QED
    BY <1>2, <2>1, <2>2, <2>3, <2>4, <2>5, <2>6, <2>7, Continues
<1>5. CASE StoreWrite(r) \/ StoreFails(r)
  <2>1. pc[r] = "store"
    BY <1>5 DEF StoreWrite, StoreFails
  <2>2. SharedTyped'
    <3> USE DEF TypeInv, TypeOK, SharedTyped, StoreWrite, StoreFails
    <3>1. CASE req[r].op # "bind" \/ UNCHANGED store
      BY <1>2, <1>5, <2>1, <3>1 DEF StoreEffect
    <3>2. CASE req[r].op = "bind" /\ StoreEffect(r)
      <4>1. [inst |-> req[r].inst, user |-> job[r].vars.user, name |-> req[r].name,
             credentials |-> CredentialsOf(r)] \in BindingRecord
        BY <1>2, <2>1 DEF Calls, Job, TemplateVars, BindingRecord, Credentials, CredentialsOf
      <4>2. QED
        BY <1>5, <3>2, <4>1 DEF StoreEffect
    <3>3. QED
      BY <1>5, <3>1, <3>2
  <2>3. QED
    BY <1>2, <1>5, <2>1, <2>2, Continues DEF StoreWrite, StoreFails
<1>6. CASE Reply(r)
  BY <1>6 DEF Reply, Goto, Forget, TypeInv, TypeOK, Engaged
<1>7. QED
  BY <1>1, <1>3, <1>4, <1>5, <1>6 DEF Proceed

LEMMA TypeStep == TypeInv /\ [Next]_vars => TypeInv'
<1> SUFFICES ASSUME TypeInv, [Next]_vars PROVE TypeInv'
  OBVIOUS
<1> USE DEF TypeInv, TypeOK, Engaged, Working
<1>1. ASSUME NEW r \in Slots, Receive(r) PROVE TypeInv'
  BY <1>1, BrokerAssumption DEF Receive, Goto
<1>2. ASSUME NEW r \in Slots, Lock(r) PROVE TypeInv'
  BY <1>2 DEF Lock, Goto
<1>3. ASSUME NEW r \in Slots, Proceed(r) PROVE TypeInv'
  BY <1>3, ProceedTyped
<1>4. ASSUME NEW r \in Slots, ClientGone(r) PROVE TypeInv'
  BY <1>4 DEF ClientGone
<1>5. CASE Crash
  BY <1>5 DEF Crash, Results
<1>6. CASE UNCHANGED vars
  BY <1>6 DEF vars
<1>7. QED
  BY <1>1, <1>2, <1>3, <1>4, <1>5, <1>6 DEF Next

LEMMA TypeInit == Init => TypeInv
<1> SUFFICES ASSUME Init PROVE TypeInv
  OBVIOUS
<1>1. EmptyServer \in Server
  BY DEF EmptyServer, Server, Absent
<1>2. QED
  BY <1>1 DEF Init, TypeInv, TypeOK, Engaged, Working, Results

\* Every variable keeps its type, and a handler has what its place needs.
THEOREM TypeCorrect == Spec => [](TypeOK /\ Engaged)
<1>1. Init => TypeInv
  BY TypeInit
<1>2. TypeInv => TypeOK /\ Engaged
  BY DEF TypeInv
<1>3. QED
  BY <1>1, <1>2, TypeStep, PTL DEF Spec

-----------------------------------------------------------------------------
(***************************************************************************)
(* What was checked stays so.  The store changes only under mu, and only   *)
(* as the last thing its holder does; everything else a handler has read   *)
(* is in its own job.                                                      *)
(***************************************************************************)

\* The part of a job that comes from the request alone.
JobOfRequest(r) ==
    LET q == req[r] IN
    CASE q.op = "provision" -> ValidProvision(q) /\ job[r].record = Resolve(q)
      [] q.op = "update" -> ParamsOK(instances[q.inst].plan, q.conn, q.gb)
      [] q.op = "bind" -> /\ job[r].vars.user = UserFor(q.bind, q.name)
                          /\ job[r].vars.password \in Passwords
      [] OTHER -> TRUE

RaceInv ==
    /\ TypeInv
    /\ LockInv
    /\ \A r \in Slots : pc[r] \in Working => StillAsChecked(r) /\ JobOfRequest(r)

LEMMA CheckedNow ==
    ASSUME RaceInv, NEW r \in Slots, Check(r)
    PROVE  pc'[r] \in Working => StillAsChecked(r)' /\ JobOfRequest(r)'
<1> DEFINE q == req[r]
<1>1. /\ q \in Calls /\ req' = req /\ UNCHANGED store
      /\ pc \in [Slots -> Places] /\ job \in [Slots -> Job \cup {NoJob}]
      /\ instances[q.inst] \in InstanceRecord \cup {NoRecord}
      /\ bindings[q.bind] \in BindingRecord \cup {NoRecord}
  BY DEF RaceInv, LockInv, TypeInv, TypeOK, Engaged, Check, CheckProvision, CheckUpdate,
         CheckDeprovision, CheckBind, CheckUnbind, ReadFails, Calls
<1>2. ASSUME NEW answer, Answer(r, answer) PROVE pc'[r] \notin Working
  BY <1>1, <1>2 DEF Answer, Goto, Working
<1>3. ASSUME NEW place, NEW work, Begin(r, place, work) PROVE job'[r] = work
  BY <1>1, <1>3 DEF Begin
<1>4. CASE CheckProvision(r) /\ pc'[r] \in Working
  BY <1>1, <1>2, <1>3, <1>4
  DEF CheckProvision, StillAsChecked, JobOfRequest, NewJob, VarsOf, Resolve, Recorded
<1>5. CASE CheckUpdate(r) /\ pc'[r] \in Working
  BY <1>1, <1>2, <1>3, <1>5
  DEF CheckUpdate, StillAsChecked, JobOfRequest, NewJob, VarsOf, BaseOfRecord, Requota, Recorded,
      InstanceRecord
<1>6. CASE CheckDeprovision(r) /\ pc'[r] \in Working
  BY <1>1, <1>2, <1>3, <1>6
  DEF CheckDeprovision, StillAsChecked, JobOfRequest, NewJob, VarsOf, BaseOfRecord, Recorded, BindingsOf, Bound
<1>7. CASE CheckBind(r) /\ pc'[r] \in Working
  <2>1. q.op = "bind" /\ Recorded(q.inst) /\ ~Bound(q.bind)
    BY <1>2, <1>7 DEF CheckBind
  <2>2. PICK password \in Passwords :
          Begin(r, "probe", NewJob("admin-db/bind",
              [VarsOfUser(q.inst, UserFor(q.bind, q.name)) EXCEPT !.password = password], NoRecord))
    BY <1>2, <1>7 DEF CheckBind
  <2>3. job'[r].vars = [base |-> BaseOfRecord(q.inst), user |-> UserFor(q.bind, q.name),
                        conn |-> 0, gb |-> 0, password |-> password]
    BY <1>3, <2>2 DEF NewJob, VarsOfUser, BaseOfRecord
  <2>4. QED
    BY <1>1, <2>1, <2>3 DEF StillAsChecked, JobOfRequest, BaseOfRecord, Recorded, Bound
<1>8. CASE CheckUnbind(r) /\ pc'[r] \in Working
  BY <1>1, <1>2, <1>3, <1>8
  DEF CheckUnbind, StillAsChecked, JobOfRequest, NewJob, VarsOfUser, BaseOfRecord, Recorded, Bound
<1>9. CASE ReadFails(r)
  BY <1>2, <1>9 DEF ReadFails
<1>10. QED
  BY <1>4, <1>5, <1>6, <1>7, <1>8, <1>9 DEF Check

\* A step of one handler leaves the others where they are.
LEMMA OthersStay ==
    ASSUME TypeInv, NEW r \in Slots, NEW s \in Slots, s # r,
           Receive(r) \/ Lock(r) \/ Proceed(r) \/ ClientGone(r)
    PROVE  /\ pc'[s] = pc[s] /\ job'[s] = job[s] /\ req'[s] = req[s]
           /\ result'[s] = result[s] /\ faults'[s] = faults[s] /\ alive'[s] = alive[s]
<1> USE DEF TypeInv, TypeOK, Goto, Answer, Begin, Suffer
<1>1. CASE Receive(r) \/ Lock(r) \/ ClientGone(r)
  BY <1>1 DEF Receive, Lock, ClientGone
<1>2. CASE Check(r)
  BY <1>2 DEF Check, CheckProvision, CheckUpdate, CheckDeprovision, CheckBind, CheckUnbind, ReadFails
<1>3. CASE EnsureAbsent(r) \/ ProbeFails(r)
  BY <1>3 DEF EnsureAbsent, ProbeFails
<1>4. CASE StatementSucceeds(r)
  BY <1>4 DEF StatementSucceeds, Advance
<1>5. CASE StatementFails(r) \/ ReplyLost(r)
  BY <1>5 DEF StatementFails, ReplyLost, Fail
<1>6. CASE StoreWrite(r) \/ StoreFails(r)
  BY <1>6 DEF StoreWrite, StoreFails
<1>7. CASE Reply(r)
  BY <1>7 DEF Reply, Forget
<1>8. QED
  BY <1>1, <1>2, <1>3, <1>4, <1>5, <1>6, <1>7 DEF Proceed

\* Only the store write touches the store, and it is the end of the work.
LEMMA StoreStays ==
    ASSUME TypeInv, NEW r \in Slots,
           Receive(r) \/ Lock(r) \/ Proceed(r) \/ ClientGone(r)
    PROVE  UNCHANGED store \/ (pc[r] = "store" /\ pc'[r] = "reply" /\ StoreEffect(r))
<1>1. CASE StoreWrite(r) \/ StoreFails(r)
  BY <1>1 DEF StoreWrite, StoreFails, Answer, Goto, TypeInv, TypeOK
<1>2. CASE ~(StoreWrite(r) \/ StoreFails(r))
  BY <1>2 DEF Receive, Lock, ClientGone, Proceed, Check, CheckProvision, CheckUpdate, CheckDeprovision,
     CheckBind, CheckUnbind, ReadFails, EnsureAbsent, ProbeFails, StatementSucceeds, StatementFails,
     ReplyLost, Reply
<1>3. QED
  BY <1>1, <1>2

\* A handler at work carries its variables and its record along unchanged.
LEMMA JobStays ==
    ASSUME TypeInv, NEW r \in Slots,
           Receive(r) \/ Lock(r) \/ Proceed(r) \/ ClientGone(r), ~Check(r), pc'[r] \in Working
    PROVE  /\ UNCHANGED store /\ req'[r] = req[r] /\ pc[r] \in Working
           /\ job'[r].vars = job[r].vars /\ job'[r].record = job[r].record
<1> USE DEF TypeInv, TypeOK, Engaged, Working, Goto, Answer, Begin
<1>1. pc[r] \in Working => job[r] \in Job
  OBVIOUS
<1>2. CASE Receive(r) \/ Lock(r) \/ ClientGone(r)
  BY <1>2 DEF Receive, Lock, ClientGone
<1>3. CASE EnsureAbsent(r) \/ ProbeFails(r)
  BY <1>1, <1>3 DEF EnsureAbsent, ProbeFails, Job
<1>4. CASE StatementSucceeds(r)
  BY <1>1, <1>4 DEF StatementSucceeds, Advance, Job
<1>5. CASE StatementFails(r) \/ ReplyLost(r)
  BY <1>1, <1>5 DEF StatementFails, ReplyLost, Fail, Job
<1>6. CASE StoreWrite(r) \/ StoreFails(r) \/ Reply(r)
  BY <1>6 DEF StoreWrite, StoreFails, Reply
<1>7. QED
  BY <1>2, <1>3, <1>4, <1>5, <1>6 DEF Proceed

\* What StillAsChecked and JobOfRequest say depends on the store, the request
\* and those two parts of the job only.
LEMMA CheckedDepends ==
    ASSUME NEW r \in Slots, UNCHANGED store, req'[r] = req[r],
           job'[r].vars = job[r].vars, job'[r].record = job[r].record,
           StillAsChecked(r), JobOfRequest(r)
    PROVE  StillAsChecked(r)' /\ JobOfRequest(r)'
BY DEF StillAsChecked, JobOfRequest, Recorded, Bound, BindingsOf, BaseOfRecord, Requota, Resolve

LEMMA RaceStep == RaceInv /\ [Next]_vars => RaceInv'
<1> SUFFICES ASSUME RaceInv, [Next]_vars PROVE RaceInv'
  OBVIOUS
<1>1. TypeInv' /\ LockInv'
  BY TypeStep, LockStep DEF RaceInv
<1>2. ASSUME NEW r \in Slots, Receive(r) \/ Lock(r) \/ Proceed(r) \/ ClientGone(r),
             NEW s \in Slots, pc'[s] \in Working
      PROVE  StillAsChecked(s)' /\ JobOfRequest(s)'
  <2>1. CASE s = r /\ Check(r)
    BY <1>2, <2>1, CheckedNow
  <2>2. CASE s = r /\ ~Check(r)
    BY <1>2, <2>2, JobStays, CheckedDepends DEF RaceInv
  <2>3. CASE s # r
    <3>1. pc'[s] = pc[s] /\ job'[s] = job[s] /\ req'[s] = req[s]
      BY <1>2, <2>3, OthersStay DEF RaceInv
    <3>2. mu = s
      BY <1>2, <3>1 DEF RaceInv, LockInv, OneAtATime, Working, Critical
    <3>3. pc[r] # "store"
      BY <2>3, <3>2 DEF RaceInv, LockInv, OneAtATime, Critical
    <3>4. UNCHANGED store
      BY <1>2, <3>3, StoreStays DEF RaceInv
    <3>5. QED
      BY <1>2, <3>1, <3>4, CheckedDepends DEF RaceInv
  <2>4. QED
    BY <2>1, <2>2, <2>3
<1>3. CASE Crash
  BY <1>1, <1>3 DEF Crash, RaceInv, Working
<1>4. CASE UNCHANGED vars
  BY <1>1, <1>4, CheckedDepends DEF vars, RaceInv
<1>5. QED
  BY <1>1, <1>2, <1>3, <1>4 DEF Next, RaceInv

\* "This single lock removes every check-then-act race" (broker.go:30), within
\* one broker process: what was checked holds until the store is written.
THEOREM NoRaces == Spec => []NoCheckThenActRace
<1>1. Init => RaceInv
  BY TypeInit, LockInit DEF Init, RaceInv, Working
<1>2. RaceInv => NoCheckThenActRace
  BY DEF RaceInv, NoCheckThenActRace
<1>3. QED
  BY <1>1, <1>2, RaceStep, PTL DEF Spec

-----------------------------------------------------------------------------
(***************************************************************************)
(* The broker implements OsbContract: a step that changes the store is the *)
(* store write of a handler, and what that handler has checked makes it    *)
(* the atomic operation of the contract.                                   *)
(***************************************************************************)
LEMMA ResolvedInPlan ==
    ASSUME NEW maximum \in Nat \ {0}, NEW asked \in Nat, Accepts(asked, maximum)
    PROVE  Resolved(asked, maximum) \in 1..maximum
BY DEF Accepts, Resolved, Omitted

LEMMA StoreEffectIsContract ==
    ASSUME RaceInv, NEW r \in Slots, pc[r] = "store", StoreEffect(r)
    PROVE  Contract!Next
<1> DEFINE q == req[r]
<1>1. /\ q \in Calls /\ q.inst \in InstanceIds /\ q.bind \in BindingIds /\ q.name \in Names
      /\ StillAsChecked(r) /\ JobOfRequest(r)
      /\ instances[q.inst] \in InstanceRecord \cup {NoRecord}
  BY DEF RaceInv, TypeInv, TypeOK, Engaged, Working, Calls
<1>2. CASE q.op = "provision"
  <2>1. ~Recorded(q.inst) /\ ValidProvision(q) /\ job[r].record = Resolve(q)
    BY <1>1, <1>2 DEF StillAsChecked, JobOfRequest
  <2>2. /\ Resolved(q.conn, MaxConn[q.plan]) \in 1..MaxConn[q.plan]
        /\ Resolved(q.gb, MaxGB[q.plan]) \in 1..MaxGB[q.plan]
    BY <1>1, <2>1, ResolvedInPlan, CatalogAssumption DEF ValidProvision, ParamsOK, Calls
  <2>3. Contract!Provision(q.inst)
    BY <1>1, <1>2, <2>1, <2>2 DEF StoreEffect, Contract!Provision, Recorded, Resolve, ValidProvision
  <2>4. QED
    BY <1>1, <2>3 DEF Contract!Next
<1>3. CASE q.op = "update"
  <2>1. Recorded(q.inst) /\ job[r].record = Requota(instances[q.inst], q)
    BY <1>1, <1>3 DEF StillAsChecked
  <2>2. ParamsOK(instances[q.inst].plan, q.conn, q.gb) /\ instances[q.inst].plan \in Plans
    BY <1>1, <1>3, <2>1 DEF JobOfRequest, Recorded, InstanceRecord
  <2>3. /\ Resolved(q.conn, MaxConn[instances[q.inst].plan]) \in 1..MaxConn[instances[q.inst].plan]
        /\ Resolved(q.gb, MaxGB[instances[q.inst].plan]) \in 1..MaxGB[instances[q.inst].plan]
    BY <1>1, <2>2, ResolvedInPlan, CatalogAssumption DEF ParamsOK, Calls
  <2>4. Contract!Update(q.inst)
    <3> DEFINE c == Resolved(q.conn, MaxConn[instances[q.inst].plan])
               g == Resolved(q.gb, MaxGB[instances[q.inst].plan])
    <3>1. instances' = [instances EXCEPT ![q.inst] = Requota(instances[q.inst], q)]
          /\ UNCHANGED bindings
      BY <1>3, <2>1 DEF StoreEffect
    <3>2. Requota(instances[q.inst], q) = [instances[q.inst] EXCEPT !.conn = c, !.gb = g]
      BY DEF Requota
    <3>3. instances \in [InstanceIds -> InstanceRecord \cup {NoRecord}]
      BY DEF RaceInv, TypeInv, TypeOK
    <3> HIDE DEF c, g
    <3>4. instances' = [instances EXCEPT ![q.inst].conn = c, ![q.inst].gb = g]
      BY <1>1, <3>1, <3>2, <3>3
    <3>5. c \in 1..MaxConn[instances[q.inst].plan] /\ g \in 1..MaxGB[instances[q.inst].plan]
      BY <2>3 DEF c, g
    <3>6. QED
      BY <2>1, <3>1, <3>4, <3>5 DEF Contract!Update, Recorded
  <2>5. QED
    BY <1>1, <2>4 DEF Contract!Next
<1>4. CASE q.op = "deprovision"
  <2>1. Contract!Deprovision(q.inst)
    BY <1>1, <1>4 DEF StillAsChecked, StoreEffect, Contract!Deprovision, Recorded, BindingsOf, Bound
  <2>2. QED
    BY <1>1, <2>1 DEF Contract!Next
<1>5. CASE q.op = "bind"
  <2>1. Contract!Bind(q.inst, q.bind)
    <3> DEFINE v == job[r].vars
    <3>1. Recorded(q.inst) /\ ~Bound(q.bind) /\ v.base = NamesFor(q.inst, instances[q.inst].name)
      BY <1>1, <1>5 DEF StillAsChecked, BaseOfRecord
    <3>2. v.user = UserFor(q.bind, q.name) /\ v.password \in Passwords
      BY <1>1, <1>5 DEF JobOfRequest
    <3>3. /\ bindings' = [bindings EXCEPT ![q.bind] =
                [inst |-> q.inst, user |-> v.user, name |-> q.name,
                 credentials |-> [database |-> v.base, username |-> v.user,
                                  password |-> v.password]]]
          /\ UNCHANGED instances
      BY <1>5 DEF StoreEffect, CredentialsOf
    <3> HIDE DEF v
    <3>4. QED
      BY <1>1, <3>1, <3>2, <3>3 DEF Contract!Bind, Recorded, Bound, NamesFor, UserFor, BaseOf,
         Contract!NamesFor, Contract!UserFor, Contract!BaseOf
  <2>2. QED
    BY <1>1, <2>1 DEF Contract!Next
<1>6. CASE q.op = "unbind"
  <2>1. Contract!Unbind(q.bind)
    BY <1>1, <1>6 DEF StillAsChecked, StoreEffect, Contract!Unbind, Bound
  <2>2. QED
    BY <1>1, <2>1 DEF Contract!Next
<1>7. QED
  BY <1>1, <1>2, <1>3, <1>4, <1>5, <1>6 DEF Calls, Operations

LEMMA ContractStep == RaceInv /\ [Next]_vars => [Contract!Next]_<<instances, bindings>>
<1> SUFFICES ASSUME RaceInv, [Next]_vars PROVE [Contract!Next]_<<instances, bindings>>
  OBVIOUS
<1>1. ASSUME NEW r \in Slots, Receive(r) \/ Lock(r) \/ Proceed(r) \/ ClientGone(r)
      PROVE  Contract!Next \/ UNCHANGED <<instances, bindings>>
  BY <1>1, StoreStays, StoreEffectIsContract DEF RaceInv
<1>2. CASE Crash \/ UNCHANGED vars
  BY <1>2 DEF Crash, vars
<1>3. QED
  BY <1>1, <1>2 DEF Next

\* Whatever fails, the records of the broker behave like the atomic service.
THEOREM Implementation == Spec => ImplementsContract
<1>1. Init => RaceInv
  BY TypeInit, LockInit DEF Init, RaceInv, Working
<1>2. Init => Contract!Init
  BY DEF Init, Contract!Init
<1>3. QED
  BY <1>1, <1>2, RaceStep, ContractStep, PTL DEF Spec, ImplementsContract, Contract!Spec

LEMMA ContractKeepsBindings ==
    ASSUME TypeInv, BindingHasInstance, [Contract!Next]_<<instances, bindings>>
    PROVE  BindingHasInstance'
<1> USE DEF TypeInv, TypeOK, BindingHasInstance, Recorded, Bound
<1>1. ASSUME NEW i \in InstanceIds, Contract!Provision(i) PROVE BindingHasInstance'
  BY <1>1, BrokerAssumption, CatalogAssumption DEF Contract!Provision, InstanceRecord
<1>2. ASSUME NEW i \in InstanceIds, Contract!Update(i) PROVE BindingHasInstance'
  <2>1. instances[i] \in InstanceRecord
    BY <1>2 DEF Contract!Update
  <2>2. PICK c \in 1..MaxConn[instances[i].plan], g \in 1..MaxGB[instances[i].plan] :
          instances' = [instances EXCEPT ![i].conn = c, ![i].gb = g]
    BY <1>2 DEF Contract!Update
  <2>3. c \in Nat /\ g \in Nat
    OBVIOUS
  <2>4. [instances[i] EXCEPT !.conn = c, !.gb = g] \in InstanceRecord
    BY <2>1, <2>3 DEF InstanceRecord
  <2>5. instances' = [instances EXCEPT ![i] = [instances[i] EXCEPT !.conn = c, !.gb = g]]
    BY <2>2
  <2>6. \A j \in InstanceIds : Recorded(j) => Recorded(j)'
    BY <2>4, <2>5, BrokerAssumption
  <2>7. bindings' = bindings
    BY <1>2 DEF Contract!Update
  <2>8. \A b \in BindingIds : Bound(b) => bindings[b].inst \in InstanceIds
    BY DEF BindingRecord
  <2>9. QED
    BY <2>6, <2>7, <2>8
<1>3. ASSUME NEW i \in InstanceIds, Contract!Deprovision(i) PROVE BindingHasInstance'
  BY <1>3 DEF Contract!Deprovision
<1>4. ASSUME NEW i \in InstanceIds, NEW b \in BindingIds, Contract!Bind(i, b) PROVE BindingHasInstance'
  BY <1>4 DEF Contract!Bind
<1>5. ASSUME NEW b \in BindingIds, Contract!Unbind(b) PROVE BindingHasInstance'
  BY <1>5 DEF Contract!Unbind
<1>6. QED
  BY <1>1, <1>2, <1>3, <1>4, <1>5 DEF Contract!Next

\* No binding outlives its instance, under every fault.
THEOREM BindingsHaveInstances == Spec => []BindingHasInstance
<1>1. Init => RaceInv /\ BindingHasInstance
  BY TypeInit, LockInit DEF Init, RaceInv, Working, BindingHasInstance, Bound
<1>2. RaceInv /\ BindingHasInstance /\ [Next]_vars => (RaceInv /\ BindingHasInstance)'
  BY RaceStep, ContractStep, ContractKeepsBindings DEF RaceInv
<1>3. QED
  BY <1>1, <1>2, PTL DEF Spec
=============================================================================

--------------------------- MODULE TwoBrokersProofs ---------------------------
(***************************************************************************)
(* What is proved of one deployment stays true with another one at work on *)
(* the same server, for every workload: every statement names objects of   *)
(* the deployment that executes it, and the two name spaces are disjoint.  *)
(***************************************************************************)
EXTENDS TwoBrokers, TLAPS

P1 == INSTANCE RollbackProofs WITH
    Sanitized <- SanitizedBy(Prefix1), ShortHash <- HashBy(Prefix1),
    mu <- mu1, instances <- instances1, bindings <- bindings1, pc <- pc1, req <- req1,
    alive <- alive1, job <- job1, faults <- faults1, result <- result1

P2 == INSTANCE RollbackProofs WITH
    Sanitized <- SanitizedBy(Prefix2), ShortHash <- HashBy(Prefix2),
    mu <- mu2, instances <- instances2, bindings <- bindings2, pc <- pc2, req <- req2,
    alive <- alive2, job <- job2, faults <- faults2, result <- result2

\* The base names of each.
Own1 == {Prefix1} \X RawBases
Own2 == {Prefix2} \X RawBases

-----------------------------------------------------------------------------
\* The proofs and the properties are instantiated apart; both speak of one broker.
LEMMA SameFirst ==
    /\ First!Init => P1!Init
    /\ First!Next => P1!Next
<1>1. First!Init => P1!Init
  BY Zenon DEF
     First!Init, First!EmptyServer, First!Absent,
     P1!Init, P1!EmptyServer, P1!Absent
<1>2. First!Next => P1!Next
  BY ZenonT(60) DEF
     First!Next, First!Receive, First!Lock, First!Proceed, First!ClientGone, First!Crash,
     First!Goto, First!store, First!Check, First!EnsureAbsent, First!ProbeFails,
     First!StatementSucceeds, First!StatementFails, First!ReplyLost, First!StoreWrite,
     First!StoreFails, First!Reply, First!CheckProvision, First!CheckUpdate, First!CheckDeprovision,
     First!CheckBind, First!CheckUnbind, First!ReadFails, First!Probes, First!Exists, First!Answer,
     First!Begin, First!Suffer, First!Permits, First!Statement, First!Effect, First!Advance,
     First!Fail, First!StoreEffect, First!Forget, First!ValidProvision, First!Recorded,
     First!Resolve, First!NewJob, First!VarsOf, First!KeepsPlan, First!ParamsOK, First!Requota,
     First!BindingsOf, First!Bound, First!SameBinding, First!VarsOfUser, First!UserFor,
     First!Absent, First!OnTenant, First!NamesDatabase, First!NamesRole, First!NamesUser,
     First!NeedsOwner, First!Template, First!Privileges, First!Defaults, First!TwoPart,
     First!SecondPart, First!RollsBack, First!Rollback, First!CredentialsOf, First!Resolved,
     First!vars, First!NamesFor, First!Accepts, First!BaseOf, First!AdminProvision,
     First!TenantProvision, First!AdminUpdate, First!AdminDeprovision, First!AdminBind,
     First!TenantBind, First!TenantUnbind, First!AdminUnbind, First!Omitted,
     P1!Next, P1!Receive, P1!Lock, P1!Proceed, P1!ClientGone, P1!Crash, P1!Goto, P1!store, P1!Check,
     P1!EnsureAbsent, P1!ProbeFails, P1!StatementSucceeds, P1!StatementFails, P1!ReplyLost,
     P1!StoreWrite, P1!StoreFails, P1!Reply, P1!CheckProvision, P1!CheckUpdate, P1!CheckDeprovision,
     P1!CheckBind, P1!CheckUnbind, P1!ReadFails, P1!Probes, P1!Exists, P1!Answer, P1!Begin,
     P1!Suffer, P1!Permits, P1!Statement, P1!Effect, P1!Advance, P1!Fail, P1!StoreEffect, P1!Forget,
     P1!ValidProvision, P1!Recorded, P1!Resolve, P1!NewJob, P1!VarsOf, P1!KeepsPlan, P1!ParamsOK,
     P1!Requota, P1!BindingsOf, P1!Bound, P1!SameBinding, P1!VarsOfUser, P1!UserFor, P1!Absent,
     P1!OnTenant, P1!NamesDatabase, P1!NamesRole, P1!NamesUser, P1!NeedsOwner, P1!Template,
     P1!Privileges, P1!Defaults, P1!TwoPart, P1!SecondPart, P1!RollsBack, P1!Rollback,
     P1!CredentialsOf, P1!Resolved, P1!vars, P1!NamesFor, P1!Accepts, P1!BaseOf, P1!AdminProvision,
     P1!TenantProvision, P1!AdminUpdate, P1!AdminDeprovision, P1!AdminBind, P1!TenantBind,
     P1!TenantUnbind, P1!AdminUnbind, P1!Omitted
<1>3. QED
  BY <1>1, <1>2

LEMMA SameSecond ==
    /\ Second!Init => P2!Init
    /\ Second!Next => P2!Next
<1>1. Second!Init => P2!Init
  BY Zenon DEF
     Second!Init, Second!EmptyServer, Second!Absent,
     P2!Init, P2!EmptyServer, P2!Absent
<1>2. Second!Next => P2!Next
  BY ZenonT(60) DEF
     Second!Next, Second!Receive, Second!Lock, Second!Proceed, Second!ClientGone, Second!Crash,
     Second!Goto, Second!store, Second!Check, Second!EnsureAbsent, Second!ProbeFails,
     Second!StatementSucceeds, Second!StatementFails, Second!ReplyLost, Second!StoreWrite,
     Second!StoreFails, Second!Reply, Second!CheckProvision, Second!CheckUpdate,
     Second!CheckDeprovision, Second!CheckBind, Second!CheckUnbind, Second!ReadFails, Second!Probes,
     Second!Exists, Second!Answer, Second!Begin, Second!Suffer, Second!Permits, Second!Statement,
     Second!Effect, Second!Advance, Second!Fail, Second!StoreEffect, Second!Forget,
     Second!ValidProvision, Second!Recorded, Second!Resolve, Second!NewJob, Second!VarsOf,
     Second!KeepsPlan, Second!ParamsOK, Second!Requota, Second!BindingsOf, Second!Bound,
     Second!SameBinding, Second!VarsOfUser, Second!UserFor, Second!Absent, Second!OnTenant,
     Second!NamesDatabase, Second!NamesRole, Second!NamesUser, Second!NeedsOwner, Second!Template,
     Second!Privileges, Second!Defaults, Second!TwoPart, Second!SecondPart, Second!RollsBack,
     Second!Rollback, Second!CredentialsOf, Second!Resolved, Second!vars, Second!NamesFor,
     Second!Accepts, Second!BaseOf, Second!AdminProvision, Second!TenantProvision,
     Second!AdminUpdate, Second!AdminDeprovision, Second!AdminBind, Second!TenantBind,
     Second!TenantUnbind, Second!AdminUnbind, Second!Omitted,
     P2!Next, P2!Receive, P2!Lock, P2!Proceed, P2!ClientGone, P2!Crash, P2!Goto, P2!store, P2!Check,
     P2!EnsureAbsent, P2!ProbeFails, P2!StatementSucceeds, P2!StatementFails, P2!ReplyLost,
     P2!StoreWrite, P2!StoreFails, P2!Reply, P2!CheckProvision, P2!CheckUpdate, P2!CheckDeprovision,
     P2!CheckBind, P2!CheckUnbind, P2!ReadFails, P2!Probes, P2!Exists, P2!Answer, P2!Begin,
     P2!Suffer, P2!Permits, P2!Statement, P2!Effect, P2!Advance, P2!Fail, P2!StoreEffect, P2!Forget,
     P2!ValidProvision, P2!Recorded, P2!Resolve, P2!NewJob, P2!VarsOf, P2!KeepsPlan, P2!ParamsOK,
     P2!Requota, P2!BindingsOf, P2!Bound, P2!SameBinding, P2!VarsOfUser, P2!UserFor, P2!Absent,
     P2!OnTenant, P2!NamesDatabase, P2!NamesRole, P2!NamesUser, P2!NeedsOwner, P2!Template,
     P2!Privileges, P2!Defaults, P2!TwoPart, P2!SecondPart, P2!RollsBack, P2!Rollback,
     P2!CredentialsOf, P2!Resolved, P2!vars, P2!NamesFor, P2!Accepts, P2!BaseOf, P2!AdminProvision,
     P2!TenantProvision, P2!AdminUpdate, P2!AdminDeprovision, P2!AdminBind, P2!TenantBind,
     P2!TenantUnbind, P2!AdminUnbind, P2!Omitted
<1>3. QED
  BY <1>1, <1>2
-----------------------------------------------------------------------------
\* What the modules of one deployment assume holds of both.
LEMMA Assumed ==
    /\ NoPassword \notin Passwords /\ NoBase \notin Bases
    /\ NoPlan \notin Plans /\ MaxConn \in [Plans -> Nat \ {0}] /\ MaxGB \in [Plans -> Nat \ {0}]
    /\ Free \notin Slots
BY TwoBrokersAssumption

LEMMA NameSpaces ==
    /\ Own1 \subseteq Bases /\ Own2 \subseteq Bases /\ Own1 \cap Own2 = {}
    /\ HashBy(Prefix1) \in [InstanceIds \cup BindingIds -> Own1]
    /\ HashBy(Prefix2) \in [InstanceIds \cup BindingIds -> Own2]
    /\ SanitizedBy(Prefix1) \in [Names -> Own1 \cup {NoBase}]
    /\ SanitizedBy(Prefix2) \in [Names -> Own2 \cup {NoBase}]
BY TwoBrokersAssumption DEF Own1, Own2, Bases, HashBy, SanitizedBy, Derived

LEMMA Names1 ==
    /\ SanitizedBy(Prefix1) \in [Names -> Bases \cup {NoBase}]
    /\ HashBy(Prefix1) \in [InstanceIds \cup BindingIds -> Bases]
    /\ P1!NamesIn(Own1)
BY NameSpaces DEF P1!NamesIn

LEMMA Names2 ==
    /\ SanitizedBy(Prefix2) \in [Names -> Bases \cup {NoBase}]
    /\ HashBy(Prefix2) \in [InstanceIds \cup BindingIds -> Bases]
    /\ P2!NamesIn(Own2)
BY NameSpaces DEF P2!NamesIn

LEMMA Assumed1 ==
    /\ Requests \subseteq P1!Calls /\ Faults \subseteq P1!FaultKinds
    /\ NoRequest \notin P1!Calls
    /\ NoRecord \notin P1!InstanceRecord \cup P1!BindingRecord
    /\ NoJob \notin P1!Job
BY TwoBrokersAssumption DEF First!Calls, P1!Calls, First!Operations, P1!Operations,
   First!FaultKinds, P1!FaultKinds, First!InstanceRecord, P1!InstanceRecord,
   First!BindingRecord, P1!BindingRecord, First!Credentials, P1!Credentials,
   First!Job, P1!Job, First!TemplateVars, P1!TemplateVars, First!TemplateNames, P1!TemplateNames

LEMMA Assumed2 ==
    /\ Requests \subseteq P2!Calls /\ Faults \subseteq P2!FaultKinds
    /\ NoRequest \notin P2!Calls
    /\ NoRecord \notin P2!InstanceRecord \cup P2!BindingRecord
    /\ NoJob \notin P2!Job
BY TwoBrokersAssumption DEF First!Calls, P2!Calls, First!Operations, P2!Operations,
   First!FaultKinds, P2!FaultKinds, First!InstanceRecord, P2!InstanceRecord,
   First!BindingRecord, P2!BindingRecord, First!Credentials, P2!Credentials,
   First!Job, P2!Job, First!TemplateVars, P2!TemplateVars, First!TemplateNames, P2!TemplateNames

-----------------------------------------------------------------------------
\* A step of either one is Foreign to the other.
LEMMA FirstMoves ==
    ASSUME P1!ProgressInv, P1!WorksIn(Own1), P2!ProgressInv, P1!Next, UNCHANGED private2
    PROVE  P1!ProgressInv' /\ P1!WorksIn(Own1)' /\ P2!Foreign(Own2)
<1>1. P1!RaceInv
  BY DEF P1!ProgressInv
<1>2. P1!ProgressInv'
  BY P1!ProgressStep, Assumed, Assumed1, Names1
<1>3. P1!WorksIn(Own1)'
  BY <1>1, P1!WorksInStep, Assumed, Assumed1, Names1
<1>4. P1!LeavesAlone(pg, pg', Own2) /\ pg' \in P1!Server /\ P1!Sound(pg')
  <2>1. Own2 \in SUBSET Bases /\ Own2 \cap Own1 = {}
    BY NameSpaces
  <2>2. QED
    BY <2>1, P1!StepLeavesAlone, Assumed, Assumed1, Names1
<1>5. P2!LeavesAlone(pg, pg', Own2)
  BY <1>4 DEF P1!LeavesAlone, P2!LeavesAlone
<1>6. pg' \in P2!Server
  BY <1>4 DEF P1!Server, P2!Server, P1!Privileges, P2!Privileges, P1!Defaults, P2!Defaults
<1>7. P2!Sound(pg')
  BY <1>4 DEF P1!Sound, P2!Sound, P1!SoundTenants, P2!SoundTenants, P1!SoundUsers, P2!SoundUsers,
     P1!Absent, P2!Absent
<1>8. QED
  BY <1>2, <1>3, <1>5, <1>6, <1>7 DEF P2!Foreign, private2

LEMMA SecondMoves ==
    ASSUME P2!ProgressInv, P2!WorksIn(Own2), P1!ProgressInv, P2!Next, UNCHANGED private1
    PROVE  P2!ProgressInv' /\ P2!WorksIn(Own2)' /\ P1!Foreign(Own1)
<1>1. P2!RaceInv
  BY DEF P2!ProgressInv
<1>2. P2!ProgressInv'
  BY P2!ProgressStep, Assumed, Assumed2, Names2
<1>3. P2!WorksIn(Own2)'
  BY <1>1, P2!WorksInStep, Assumed, Assumed2, Names2
<1>4. P2!LeavesAlone(pg, pg', Own1) /\ pg' \in P2!Server /\ P2!Sound(pg')
  <2>1. Own1 \in SUBSET Bases /\ Own1 \cap Own2 = {}
    BY NameSpaces
  <2>2. QED
    BY <2>1, P2!StepLeavesAlone, Assumed, Assumed2, Names2
<1>5. P1!LeavesAlone(pg, pg', Own1)
  BY <1>4 DEF P2!LeavesAlone, P1!LeavesAlone
<1>6. pg' \in P1!Server
  BY <1>4 DEF P2!Server, P1!Server, P2!Privileges, P1!Privileges, P2!Defaults, P1!Defaults
<1>7. P1!Sound(pg')
  BY <1>4 DEF P2!Sound, P1!Sound, P2!SoundTenants, P1!SoundTenants, P2!SoundUsers, P1!SoundUsers,
     P2!Absent, P1!Absent
<1>8. QED
  BY <1>2, <1>3, <1>5, <1>6, <1>7 DEF P1!Foreign, private1

\* Each deployment's handlers are where their templates say, on names of its own.
TruthInv ==
    /\ P1!ProgressInv /\ P1!WorksIn(Own1)
    /\ P2!ProgressInv /\ P2!WorksIn(Own2)

LEMMA TruthInit == Init => TruthInv
<1> SUFFICES ASSUME Init PROVE TruthInv
  OBVIOUS
<1>1. P1!Init /\ P2!Init
  BY SameFirst, SameSecond DEF Init
<1>2. P1!ProgressInv
  BY <1>1, P1!ProgressInit, Assumed, Assumed1, Names1
<1>3. P2!ProgressInv
  BY <1>1, P2!ProgressInit, Assumed, Assumed2, Names2
<1>4. P1!WorksIn(Own1)
  BY <1>1, P1!WorksInInit, Assumed, Assumed1, Names1
<1>5. P2!WorksIn(Own2)
  BY <1>1, P2!WorksInInit, Assumed, Assumed2, Names2
<1>6. QED
  BY <1>2, <1>3, <1>4, <1>5 DEF TruthInv

LEMMA TruthStep == TruthInv /\ [Next]_vars => TruthInv'
<1> SUFFICES ASSUME TruthInv, [Next]_vars PROVE TruthInv'
  OBVIOUS
<1>1. CASE First!Next /\ UNCHANGED private2
  <2>1. P1!ProgressInv' /\ P1!WorksIn(Own1)' /\ P2!Foreign(Own2)
    BY <1>1, SameFirst, FirstMoves DEF TruthInv
  <2>2. P2!ProgressInv' /\ P2!WorksIn(Own2)'
    BY <2>1, NameSpaces, P2!ProgressFramed, Assumed, Assumed2, Names2 DEF TruthInv
  <2>3. QED
    BY <2>1, <2>2 DEF TruthInv
<1>2. CASE Second!Next /\ UNCHANGED private1
  <2>1. P2!ProgressInv' /\ P2!WorksIn(Own2)' /\ P1!Foreign(Own1)
    BY <1>2, SameSecond, SecondMoves DEF TruthInv
  <2>2. P1!ProgressInv' /\ P1!WorksIn(Own1)'
    BY <2>1, NameSpaces, P1!ProgressFramed, Assumed, Assumed1, Names1 DEF TruthInv
  <2>3. QED
    BY <2>1, <2>2 DEF TruthInv
<1>3. CASE UNCHANGED vars
  <2>1. UNCHANGED P1!vars /\ UNCHANGED P2!vars
    BY <1>3 DEF vars, private1, private2, P1!vars, P2!vars, P1!store, P2!store
  <2>2. P1!RaceInv /\ P2!RaceInv
    BY DEF TruthInv, P1!ProgressInv, P2!ProgressInv
  <2>3. P1!ProgressInv'
    BY <2>1, P1!ProgressStep, Assumed, Assumed1, Names1 DEF TruthInv
  <2>4. P1!WorksIn(Own1)'
    BY <2>1, <2>2, P1!WorksInStep, Assumed, Assumed1, Names1 DEF TruthInv
  <2>5. P2!ProgressInv'
    BY <2>1, P2!ProgressStep, Assumed, Assumed2, Names2 DEF TruthInv
  <2>6. P2!WorksIn(Own2)'
    BY <2>1, <2>2, P2!WorksInStep, Assumed, Assumed2, Names2 DEF TruthInv
  <2>7. QED
    BY <2>3, <2>4, <2>5, <2>6 DEF TruthInv
<1>4. QED
  BY <1>1, <1>2, <1>3 DEF Next

-----------------------------------------------------------------------------
\* Both keep their tenants and users.
TenantsInv == TruthInv /\ P1!TenantInv /\ P2!TenantInv

LEMMA TenantsInit == Init => TenantsInv
<1> SUFFICES ASSUME Init PROVE TenantsInv
  OBVIOUS
<1>1. TruthInv /\ P1!Init /\ P2!Init
  BY TruthInit, SameFirst, SameSecond DEF Init
<1>2. P1!TenantInv
  BY <1>1, P1!TenantInit, Assumed, Assumed1, Names1
<1>3. P2!TenantInv
  BY <1>1, P2!TenantInit, Assumed, Assumed2, Names2
<1>4. QED
  BY <1>1, <1>2, <1>3 DEF TenantsInv

LEMMA TenantsStep == P1!NothingLost => (TenantsInv /\ [Next]_vars => TenantsInv')
<1> SUFFICES ASSUME P1!NothingLost, TenantsInv, [Next]_vars PROVE TenantsInv'
  OBVIOUS
<1>1. TruthInv' /\ P2!NothingLost
  BY TruthStep DEF TenantsInv, P1!NothingLost, P2!NothingLost
<1>2. CASE First!Next /\ UNCHANGED private2
  <2>1. P1!Next /\ P2!Foreign(Own2)
    BY <1>2, SameFirst, FirstMoves DEF TenantsInv, TruthInv
  <2>2. P1!TenantInv'
    BY <2>1, P1!TenantStep, Assumed, Assumed1, Names1 DEF TenantsInv
  <2>3. P2!TenantInv'
    BY <2>1, NameSpaces, P2!TenantFramed, Assumed, Assumed2, Names2 DEF TenantsInv, TruthInv
  <2>4. QED
    BY <1>1, <2>2, <2>3 DEF TenantsInv
<1>3. CASE Second!Next /\ UNCHANGED private1
  <2>1. P2!Next /\ P1!Foreign(Own1)
    BY <1>3, SameSecond, SecondMoves DEF TenantsInv, TruthInv
  <2>2. P2!TenantInv'
    BY <1>1, <2>1, P2!TenantStep, Assumed, Assumed2, Names2 DEF TenantsInv
  <2>3. P1!TenantInv'
    BY <2>1, NameSpaces, P1!TenantFramed, Assumed, Assumed1, Names1 DEF TenantsInv, TruthInv
  <2>4. QED
    BY <1>1, <2>2, <2>3 DEF TenantsInv
<1>4. CASE UNCHANGED vars
  <2>1. UNCHANGED P1!vars /\ UNCHANGED P2!vars
    BY <1>4 DEF vars, private1, private2, P1!vars, P2!vars, P1!store, P2!store
  <2>2. P1!TenantInv'
    BY <2>1, P1!TenantStep, Assumed, Assumed1, Names1 DEF TenantsInv
  <2>3. P2!TenantInv'
    BY <1>1, <2>1, P2!TenantStep, Assumed, Assumed2, Names2 DEF TenantsInv
  <2>4. QED
    BY <1>1, <2>2, <2>3 DEF TenantsInv
<1>5. QED
  BY <1>2, <1>3, <1>4 DEF Next

\* Both roll back what they fail to do.
RollbacksInv == TruthInv /\ P1!RollbackInv /\ P2!RollbackInv

LEMMA RollbacksInit == Init => RollbacksInv
<1> SUFFICES ASSUME Init PROVE RollbacksInv
  OBVIOUS
<1>1. TruthInv /\ P1!Init /\ P2!Init
  BY TruthInit, SameFirst, SameSecond DEF Init
<1>2. P1!RollbackInv
  BY <1>1, P1!RollbackInit, Assumed, Assumed1, Names1
<1>3. P2!RollbackInv
  BY <1>1, P2!RollbackInit, Assumed, Assumed2, Names2
<1>4. QED
  BY <1>1, <1>2, <1>3 DEF RollbacksInv

LEMMA RollbacksStep == P1!ContextsLive => (RollbacksInv /\ [Next]_vars => RollbacksInv')
<1> SUFFICES ASSUME P1!ContextsLive, RollbacksInv, [Next]_vars PROVE RollbacksInv'
  OBVIOUS
<1>1. TruthInv' /\ P2!ContextsLive
  BY TruthStep DEF RollbacksInv, P1!ContextsLive, P2!ContextsLive
<1>2. CASE First!Next /\ UNCHANGED private2
  <2>1. P1!Next /\ P2!Foreign(Own2)
    BY <1>2, SameFirst, FirstMoves DEF RollbacksInv, TruthInv
  <2>2. P1!RollbackInv'
    BY <2>1, P1!RollbackStep, Assumed, Assumed1, Names1 DEF RollbacksInv
  <2>3. P2!RollbackInv'
    BY <2>1, NameSpaces, P2!RollbackFramed, Assumed, Assumed2, Names2 DEF RollbacksInv, TruthInv
  <2>4. QED
    BY <1>1, <2>2, <2>3 DEF RollbacksInv
<1>3. CASE Second!Next /\ UNCHANGED private1
  <2>1. P2!Next /\ P1!Foreign(Own1)
    BY <1>3, SameSecond, SecondMoves DEF RollbacksInv, TruthInv
  <2>2. P2!RollbackInv'
    BY <1>1, <2>1, P2!RollbackStep, Assumed, Assumed2, Names2 DEF RollbacksInv
  <2>3. P1!RollbackInv'
    BY <2>1, NameSpaces, P1!RollbackFramed, Assumed, Assumed1, Names1 DEF RollbacksInv, TruthInv
  <2>4. QED
    BY <1>1, <2>2, <2>3 DEF RollbacksInv
<1>4. CASE UNCHANGED vars
  <2>1. UNCHANGED P1!vars /\ UNCHANGED P2!vars
    BY <1>4 DEF vars, private1, private2, P1!vars, P2!vars, P1!store, P2!store
  <2>2. P1!RollbackInv'
    BY <2>1, P1!RollbackStep, Assumed, Assumed1, Names1 DEF RollbacksInv
  <2>3. P2!RollbackInv'
    BY <1>1, <2>1, P2!RollbackStep, Assumed, Assumed2, Names2 DEF RollbacksInv
  <2>4. QED
    BY <1>1, <2>2, <2>3 DEF RollbacksInv
<1>5. QED
  BY <1>2, <1>3, <1>4 DEF Next

-----------------------------------------------------------------------------
\* A success one deployment reports is true while it reports it, whatever the
\* other does on the server (broker.go:61).  All faults.
THEOREM TwoBrokersTellTheTruth == Spec => []BothTellTheTruth
<1>1. TruthInv => BothTellTheTruth
  <2> SUFFICES ASSUME TruthInv PROVE BothTellTheTruth
    OBVIOUS
  <2>1. P1!SuccessMeansDone
    BY P1!SuccessIsTrue, Assumed, Assumed1, Names1 DEF TruthInv
  <2>2. First!SuccessMeansDone
    BY Zenon, <2>1 DEF
     P1!SuccessMeansDone, P1!Answered, P1!Resolve, P1!Privileges, P1!QuotasInForce, P1!Recorded,
     P1!NoTenant, P1!Bound, P1!Works, P1!Defaults, P1!NoUser, P1!Resolved, P1!Absent, P1!Omitted,
     First!SuccessMeansDone, First!Answered, First!Resolve, First!Privileges, First!QuotasInForce,
     First!Recorded, First!NoTenant, First!Bound, First!Works, First!Defaults, First!NoUser,
     First!Resolved, First!Absent, First!Omitted
  <2>3. P2!SuccessMeansDone
    BY P2!SuccessIsTrue, Assumed, Assumed2, Names2 DEF TruthInv
  <2>4. Second!SuccessMeansDone
    BY Zenon, <2>3 DEF
     P2!SuccessMeansDone, P2!Answered, P2!Resolve, P2!Privileges, P2!QuotasInForce, P2!Recorded,
     P2!NoTenant, P2!Bound, P2!Works, P2!Defaults, P2!NoUser, P2!Resolved, P2!Absent, P2!Omitted,
     Second!SuccessMeansDone, Second!Answered, Second!Resolve, Second!Privileges,
     Second!QuotasInForce, Second!Recorded, Second!NoTenant, Second!Bound, Second!Works,
     Second!Defaults, Second!NoUser, Second!Resolved, Second!Absent, Second!Omitted
  <2>5. QED
    BY <2>2, <2>4 DEF BothTellTheTruth
<1>2. Spec => []TruthInv
  BY TruthInit, TruthStep, PTL DEF Spec
<1>3. QED
  BY <1>1, <1>2, PTL

\* No statement of one deployment, those of its rollbacks included, touches a
\* recorded tenant or a bound user of the other (gaussdb.go:75).  Faults
\* "read", "refuse", "cancel", in both.
THEOREM TwoBrokersKeepTheirTenants == ASSUME P1!NothingLost PROVE Spec => []BothKeepTheirTenants
<1>1. TenantsInv => BothKeepTheirTenants
  <2> SUFFICES ASSUME TenantsInv PROVE BothKeepTheirTenants
    OBVIOUS
  <2>1. P1!NameStaysTaken
    BY DEF TenantsInv, P1!TenantInv, P1!TenantsKept
  <2>2. First!NameStaysTaken
    BY Zenon, <2>1 DEF
     P1!NameStaysTaken, P1!Recorded, P1!BaseOfRecord, P1!Removing, P1!NamesFor, P1!BaseOf,
     First!NameStaysTaken, First!Recorded, First!BaseOfRecord, First!Removing, First!NamesFor,
     First!BaseOf
  <2>3. P1!CredentialsWork
    BY DEF TenantsInv, P1!TenantInv
  <2>4. First!CredentialsWork
    BY Zenon, <2>3 DEF
     P1!CredentialsWork, P1!Bound, P1!Works, P1!GetBinding, P1!Removing,
     First!CredentialsWork, First!Bound, First!Works, First!GetBinding, First!Removing
  <2>5. P2!NameStaysTaken
    BY DEF TenantsInv, P2!TenantInv, P2!TenantsKept
  <2>6. Second!NameStaysTaken
    BY Zenon, <2>5 DEF
     P2!NameStaysTaken, P2!Recorded, P2!BaseOfRecord, P2!Removing, P2!NamesFor, P2!BaseOf,
     Second!NameStaysTaken, Second!Recorded, Second!BaseOfRecord, Second!Removing, Second!NamesFor,
     Second!BaseOf
  <2>7. P2!CredentialsWork
    BY DEF TenantsInv, P2!TenantInv
  <2>8. Second!CredentialsWork
    BY Zenon, <2>7 DEF
     P2!CredentialsWork, P2!Bound, P2!Works, P2!GetBinding, P2!Removing,
     Second!CredentialsWork, Second!Bound, Second!Works, Second!GetBinding, Second!Removing
  <2>9. QED
    BY <2>2, <2>4, <2>6, <2>8 DEF BothKeepTheirTenants
<1>2. Spec => []TenantsInv
  BY TenantsInit, TenantsStep, PTL DEF Spec
<1>3. QED
  BY <1>1, <1>2, PTL

\* A failed provision leaves nothing of its own on the server they share, and
\* is not hindered by the other one (gaussdb_test.go:84).  Faults "read",
\* "refuse", "lost", "crash", in both.
THEOREM TwoBrokersRollBack == ASSUME P1!ContextsLive PROVE Spec => []BothRollBack
<1>1. RollbacksInv => BothRollBack
  <2> SUFFICES ASSUME RollbacksInv PROVE BothRollBack
    OBVIOUS
  <2>1. P1!FailedProvisionLeavesNothing
    BY DEF RollbacksInv, P1!RollbackInv, P1!RolledBack, P1!FailedProvisionLeavesNothing, P1!TenantGone, P1!NoTenant
  <2>2. First!FailedProvisionLeavesNothing
    BY Zenon, <2>1 DEF
     P1!FailedProvisionLeavesNothing, P1!FailedMidway, P1!NoTenant, P1!Answered, P1!Absent,
     First!FailedProvisionLeavesNothing, First!FailedMidway, First!NoTenant, First!Answered,
     First!Absent
  <2>3. P2!FailedProvisionLeavesNothing
    BY DEF RollbacksInv, P2!RollbackInv, P2!RolledBack, P2!FailedProvisionLeavesNothing, P2!TenantGone, P2!NoTenant
  <2>4. Second!FailedProvisionLeavesNothing
    BY Zenon, <2>3 DEF
     P2!FailedProvisionLeavesNothing, P2!FailedMidway, P2!NoTenant, P2!Answered, P2!Absent,
     Second!FailedProvisionLeavesNothing, Second!FailedMidway, Second!NoTenant, Second!Answered,
     Second!Absent
  <2>5. QED
    BY <2>2, <2>4 DEF BothRollBack
<1>2. Spec => []RollbacksInv
  BY RollbacksInit, RollbacksStep, PTL DEF Spec
<1>3. QED
  BY <1>1, <1>2, PTL
=============================================================================

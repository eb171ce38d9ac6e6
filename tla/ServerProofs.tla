---------------------------- MODULE ServerProofs ----------------------------
(***************************************************************************)
(* What the templates do to the server, for every server state and every   *)
(* value rendered into them: what each statement changes, what every       *)
(* statement keeps true of the whole server, and how far an operation is   *)
(* after the first k statements of a template.                             *)
(***************************************************************************)
EXTENDS BrokerProofs

-----------------------------------------------------------------------------
(***************************************************************************)
(* Effect read as a relation: executing op with the values v takes the     *)
(* server from s to e.  What it may change is the tenant v.base and the    *)
(* user v.user; the rest of the server is left as it was.                  *)
(***************************************************************************)
KeepsOtherTenants(s, v, e) ==
    \A b \in Bases \ {v.base} :
        /\ b \in e.roles <=> b \in s.roles
        /\ b \in e.admin <=> b \in s.admin
        /\ e.dbs[b] = s.dbs[b] /\ e.tss[b] = s.tss[b]
        /\ e.acl[b] = s.acl[b] /\ e.defaults[b] = s.defaults[b]

KeepsOtherUsers(s, v, e) ==
    \A u \in Bases \ {v.user} :
        /\ e.users[u] = s.users[u]
        /\ u \in e.schemas <=> u \in s.schemas

ChangesTenant(s, v, op, e) ==
    /\ v.base \in e.roles <=> op = "CREATE_ROLE" \/ (v.base \in s.roles /\ op # "DROP_ROLE")
    /\ v.base \in e.admin <=> \/ op = "GRANT_ROLE_TO_ADMIN"
                              \/ /\ v.base \in s.admin
                                 /\ op \notin {"REVOKE_ROLE_FROM_ADMIN", "DROP_ROLE"}
    /\ e.dbs[v.base] = IF op \in {"CREATE_DATABASE", "ALTER_DATABASE_LIMIT"} THEN v.conn
                       ELSE IF op = "DROP_DATABASE" THEN Absent ELSE s.dbs[v.base]
    /\ e.tss[v.base] = IF op \in {"CREATE_TABLESPACE", "ALTER_TABLESPACE_MAXSIZE"} THEN v.gb
                       ELSE IF op = "DROP_TABLESPACE" THEN Absent ELSE s.tss[v.base]

ChangesPrivileges(s, v, op, e) ==
    /\ op \in Privileges => op \in e.acl[v.base]
    /\ op # "DROP_DATABASE" => s.acl[v.base] \subseteq e.acl[v.base]
    /\ op \notin Privileges => e.acl[v.base] = IF op = "DROP_DATABASE" THEN {} ELSE s.acl[v.base]

ChangesUser(s, v, op, e) ==
    /\ e.users[v.user] = IF op = "CREATE_USER" THEN v.password
                         ELSE IF op = "DROP_USER" THEN NoPassword ELSE s.users[v.user]
    /\ v.user \in e.schemas <=> op = "CREATE_USER" \/ (v.user \in s.schemas /\ op # "DROP_SCHEMA")

ChangesMembers(s, v, op, e) ==
    /\ \A m \in e.member :
          m \in s.member \/ (op = "GRANT_ROLE_TO_USER" /\ m[1] = v.user /\ m[2] = v.base)
    /\ \A m \in s.member :
          m \in e.member \/ (op = "DROP_USER" /\ m[1] = v.user) \/ (op = "DROP_ROLE" /\ m[2] = v.base)
    /\ op = "GRANT_ROLE_TO_USER" => <<v.user, v.base>> \in e.member
    /\ op \notin {"DROP_USER", "DROP_ROLE"} => s.member \subseteq e.member
    /\ op = "DROP_USER" => \A m \in e.member : m[1] # v.user
    /\ op = "DROP_ROLE" => \A m \in e.member : m[2] # v.base

ChangesDefaults(s, v, op, e) ==
    /\ \A d \in e.defaults[v.base] : d \in s.defaults[v.base] \/ (op \in Defaults /\ d[1] = v.user)
    /\ \A d \in s.defaults[v.base] :
          d \in e.defaults[v.base] \/ op = "DROP_DATABASE" \/ (op = "DROP_OWNED" /\ d[1] = v.user)
    /\ op \in Defaults => <<v.user, op>> \in e.defaults[v.base]
    /\ op \notin {"DROP_DATABASE", "DROP_OWNED"} => s.defaults[v.base] \subseteq e.defaults[v.base]
    /\ op = "DROP_DATABASE" => e.defaults[v.base] = {}
    /\ op = "DROP_OWNED" => \A d \in e.defaults[v.base] : d[1] # v.user

Executes(s, v, op, e) ==
    /\ KeepsOtherTenants(s, v, e) /\ KeepsOtherUsers(s, v, e)
    /\ ChangesTenant(s, v, op, e) /\ ChangesPrivileges(s, v, op, e) /\ ChangesUser(s, v, op, e)
    /\ ChangesMembers(s, v, op, e) /\ ChangesDefaults(s, v, op, e)

LEMMA EffectExecutes ==
    ASSUME NEW s \in Server, NEW v \in TemplateVars, NEW op
    PROVE  Executes(s, v, op, Effect(s, v, op))
<1> DEFINE e == Effect(s, v, op)
<1>1. v.base \in Bases /\ v.user \in Bases
  BY DEF TemplateVars
<1>2. KeepsOtherTenants(s, v, e)
  BY <1>1 DEF KeepsOtherTenants, Effect, Server
<1>3. KeepsOtherUsers(s, v, e)
  BY <1>1 DEF KeepsOtherUsers, Effect, Server
<1>4. ChangesTenant(s, v, op, e)
  <2>1. /\ v.base \in e.roles <=> op = "CREATE_ROLE" \/ (v.base \in s.roles /\ op # "DROP_ROLE")
        /\ v.base \in e.admin <=> \/ op = "GRANT_ROLE_TO_ADMIN"
                                  \/ /\ v.base \in s.admin
                                     /\ op \notin {"REVOKE_ROLE_FROM_ADMIN", "DROP_ROLE"}
    BY <1>1 DEF Effect, Server
  <2>2. e.dbs[v.base] = IF op \in {"CREATE_DATABASE", "ALTER_DATABASE_LIMIT"} THEN v.conn
                        ELSE IF op = "DROP_DATABASE" THEN Absent ELSE s.dbs[v.base]
    BY <1>1 DEF Effect, Server
  <2>3. e.tss[v.base] = IF op \in {"CREATE_TABLESPACE", "ALTER_TABLESPACE_MAXSIZE"} THEN v.gb
                        ELSE IF op = "DROP_TABLESPACE" THEN Absent ELSE s.tss[v.base]
    BY <1>1 DEF Effect, Server
  <2>4. QED
    BY <2>1, <2>2, <2>3 DEF ChangesTenant
<1>5. ChangesPrivileges(s, v, op, e)
  <2>1. s.acl \in [Bases -> SUBSET Privileges]
    BY DEF Server
  <2>2. CASE op \in Privileges
    <3>1. e.acl = [s.acl EXCEPT ![v.base] = @ \cup {op}]
      BY <2>2 DEF Effect, Privileges
    <3>2. e.acl[v.base] = s.acl[v.base] \cup {op}
      BY <1>1, <2>1, <3>1
    <3>3. op # "DROP_DATABASE"
      BY <2>2 DEF Privileges
    <3> HIDE DEF e
    <3>4. QED
      BY <2>2, <3>2, <3>3 DEF ChangesPrivileges
  <2>3. CASE op \notin Privileges
    <3>1. e.acl = IF op = "DROP_DATABASE" THEN [s.acl EXCEPT ![v.base] = {}] ELSE s.acl
      BY <2>3 DEF Effect
    <3>2. e.acl[v.base] = IF op = "DROP_DATABASE" THEN {} ELSE s.acl[v.base]
      BY <1>1, <2>1, <3>1
    <3> HIDE DEF e
    <3>3. QED
      BY <2>3, <3>2 DEF ChangesPrivileges
  <2>4. QED
    BY <2>2, <2>3
<1>6. ChangesUser(s, v, op, e)
  BY <1>1 DEF ChangesUser, Effect, Server
<1>7. ChangesMembers(s, v, op, e)
  <2>1. e.member = IF op = "GRANT_ROLE_TO_USER" THEN s.member \cup {<<v.user, v.base>>}
                   ELSE IF op = "DROP_USER" THEN {m \in s.member : m[1] # v.user}
                   ELSE IF op = "DROP_ROLE" THEN {m \in s.member : m[2] # v.base} ELSE s.member
    BY DEF Effect
  <2> HIDE DEF e
  <2>2. op = "GRANT_ROLE_TO_USER" => \A m \in e.member : m \in s.member \/ (m[1] = v.user /\ m[2] = v.base)
    <3> SUFFICES ASSUME op = "GRANT_ROLE_TO_USER", NEW m \in e.member, m \notin s.member
                 PROVE  m[1] = v.user /\ m[2] = v.base
      OBVIOUS
    <3>1. m = <<v.user, v.base>>
      BY <2>1
    <3>2. QED
      BY <3>1
  <2>3. QED
    BY <2>1, <2>2 DEF ChangesMembers
<1>8. ChangesDefaults(s, v, op, e)
  <2>1. s.defaults \in [Bases -> SUBSET (Bases \X Defaults)]
    BY DEF Server
  <2>2. CASE op \in Defaults
    <3>1. e.defaults = [s.defaults EXCEPT ![v.base] = @ \cup {<<v.user, op>>}]
      BY <2>2 DEF Effect, Defaults
    <3>2. e.defaults[v.base] = s.defaults[v.base] \cup {<<v.user, op>>}
      BY <1>1, <2>1, <3>1
    <3>3. op # "DROP_DATABASE" /\ op # "DROP_OWNED"
      BY <2>2 DEF Defaults
    <3> HIDE DEF e
    <3>4. \A d \in e.defaults[v.base] : d \in s.defaults[v.base] \/ d[1] = v.user
      <4> SUFFICES ASSUME NEW d \in e.defaults[v.base], d \notin s.defaults[v.base]
                   PROVE  d[1] = v.user
        OBVIOUS
      <4>1. d = <<v.user, op>>
        BY <3>2
      <4>2. QED
        BY <4>1
    <3>5. QED
      BY <2>2, <3>2, <3>3, <3>4 DEF ChangesDefaults
  <2>3. CASE op \notin Defaults
    <3>1. e.defaults = IF op = "DROP_OWNED" THEN [s.defaults EXCEPT ![v.base] = {d \in @ : d[1] # v.user}]
                       ELSE IF op = "DROP_DATABASE" THEN [s.defaults EXCEPT ![v.base] = {}]
                       ELSE s.defaults
      BY <2>3 DEF Effect
    <3>2. e.defaults[v.base] = IF op = "DROP_OWNED" THEN {d \in s.defaults[v.base] : d[1] # v.user}
                               ELSE IF op = "DROP_DATABASE" THEN {} ELSE s.defaults[v.base]
      BY <1>1, <2>1, <3>1
    <3> HIDE DEF e
    <3>3. QED
      BY <2>3, <3>2 DEF ChangesDefaults
  <2>4. QED
    BY <2>2, <2>3
<1>9. QED
  BY <1>2, <1>3, <1>4, <1>5, <1>6, <1>7, <1>8 DEF Executes

-----------------------------------------------------------------------------
(***************************************************************************)
(* What every statement the server accepts keeps true of the server: a     *)
(* database lies in its tablespace and belongs to its role, privileges and *)
(* default privileges go with their database, memberships with their user  *)
(* and role.  The broker relies on it where it probes for one object and   *)
(* means the whole tenant.                                                 *)
(***************************************************************************)
SoundTenants(s) ==
    /\ s.admin \subseteq s.roles
    /\ \A b \in Bases :
          /\ s.tss[b] # Absent => b \in s.roles
          /\ s.dbs[b] # Absent => b \in s.roles /\ s.tss[b] # Absent
          /\ s.acl[b] # {} => s.dbs[b] # Absent
          /\ s.defaults[b] # {} => s.dbs[b] # Absent

SoundUsers(s) ==
    /\ \A u \in s.schemas : s.users[u] # NoPassword
    /\ \A m \in s.member : s.users[m[1]] # NoPassword /\ m[2] \in s.roles
    /\ \A b \in Bases : \A d \in s.defaults[b] : s.users[d[1]] # NoPassword

Sound(s) == SoundTenants(s) /\ SoundUsers(s)

\* The values a statement is rendered with: quotas of at least 1, a password.
Fits(v, op) ==
    /\ op \in {"CREATE_DATABASE", "ALTER_DATABASE_LIMIT"} => v.conn # Absent
    /\ op \in {"CREATE_TABLESPACE", "ALTER_TABLESPACE_MAXSIZE"} => v.gb # Absent
    /\ op = "CREATE_USER" => v.password # NoPassword

LEMMA SoundStep ==
    ASSUME NEW s \in Server, NEW e \in Server, NEW v \in TemplateVars, NEW op,
           Sound(s), Fits(v, op), Permits(s, v, op), Executes(s, v, op, e)
    PROVE  Sound(e)
<1> USE DEF Executes
<1>1. v.base \in Bases /\ v.user \in Bases
  BY DEF TemplateVars
<1>2. SoundTenants(e)
  <2>1. e.admin \subseteq Bases /\ s.roles \subseteq Bases /\ s.admin \subseteq Bases
    BY DEF Server
  <2>2. \A b \in Bases : b \in e.admin => b \in e.roles
    BY <2>1 DEF Sound, SoundTenants, KeepsOtherTenants, ChangesTenant, Permits, NamesRole
  <2>3. \A b \in Bases \ {v.base} :
           /\ e.tss[b] # Absent => b \in e.roles
           /\ e.dbs[b] # Absent => b \in e.roles /\ e.tss[b] # Absent
           /\ e.acl[b] # {} => e.dbs[b] # Absent
           /\ e.defaults[b] # {} => e.dbs[b] # Absent
    BY DEF Sound, SoundTenants, KeepsOtherTenants
  <2>4. e.tss[v.base] # Absent => v.base \in e.roles
    BY <1>1 DEF Sound, SoundTenants, ChangesTenant, Permits, NeedsOwner
  <2>5. e.dbs[v.base] # Absent => v.base \in e.roles /\ e.tss[v.base] # Absent
    BY <1>1 DEF Sound, SoundTenants, ChangesTenant, Permits, NamesDatabase, NamesRole, Fits
  <2>6. e.acl[v.base] # {} => e.dbs[v.base] # Absent
    <3>1. CASE op \in Privileges
      BY <1>1, <3>1 DEF Sound, SoundTenants, ChangesTenant, Permits, NamesDatabase, Privileges, Fits
    <3>2. CASE op \notin Privileges
      BY <1>1, <3>2 DEF Sound, SoundTenants, ChangesTenant, ChangesPrivileges, Fits
    <3>3. QED
      BY <3>1, <3>2
  <2>7. e.defaults[v.base] # {} => e.dbs[v.base] # Absent
    BY <1>1 DEF Sound, SoundTenants, ChangesTenant, ChangesDefaults, Permits, OnTenant, NamesDatabase, Defaults, Fits
  <2>8. QED
    BY <2>1, <2>2, <2>3, <2>4, <2>5, <2>6, <2>7 DEF SoundTenants
<1>3. SoundUsers(e)
  <2>1. e.schemas \subseteq Bases /\ e.member \subseteq Bases \X Bases
        /\ s.schemas \subseteq Bases /\ s.member \subseteq Bases \X Bases
    BY DEF Server
  <2>2. \A u \in e.schemas : e.users[u] # NoPassword
    BY <1>1, <2>1 DEF Sound, SoundUsers, KeepsOtherUsers, ChangesUser, Permits, Fits
  <2>3. \A u \in Bases : u # v.user \/ op # "DROP_USER" =>
           (s.users[u] # NoPassword => e.users[u] # NoPassword)
    BY <1>1 DEF KeepsOtherUsers, ChangesUser, Fits
  <2>4. \A b \in Bases : b # v.base \/ op # "DROP_ROLE" => (b \in s.roles => b \in e.roles)
    BY <1>1 DEF KeepsOtherTenants, ChangesTenant
  <2>5. ASSUME NEW m \in e.member PROVE e.users[m[1]] # NoPassword /\ m[2] \in e.roles
    <3>1. m[1] \in Bases /\ m[2] \in Bases
      BY <2>1
    <3>2. CASE m \in s.member
      <4>1. s.users[m[1]] # NoPassword /\ m[2] \in s.roles
        BY <3>2 DEF Sound, SoundUsers
      <4>2. (op = "DROP_USER" => m[1] # v.user) /\ (op = "DROP_ROLE" => m[2] # v.base)
        BY DEF ChangesMembers
      <4>3. QED
        BY <2>3, <2>4, <3>1, <4>1, <4>2
    <3>3. CASE m \notin s.member
      <4>1. op = "GRANT_ROLE_TO_USER" /\ m[1] = v.user /\ m[2] = v.base
        BY <3>3 DEF ChangesMembers
      <4>2. s.users[v.user] # NoPassword /\ v.base \in s.roles
        BY <4>1 DEF Permits, NamesUser, NamesRole
      <4>3. QED
        BY <1>1, <2>3, <2>4, <4>1, <4>2
    <3>4. QED
      BY <3>2, <3>3
  <2>6. ASSUME NEW b \in Bases, NEW d \in e.defaults[b] PROVE e.users[d[1]] # NoPassword
    <3>1. d[1] \in Bases
      BY DEF Server
    <3>2. CASE d \in s.defaults[b]
      <4>1. s.users[d[1]] # NoPassword
        BY <3>2 DEF Sound, SoundUsers
      <4>2. op = "DROP_USER" => d[1] # v.user
        BY <3>2 DEF Permits
      <4>3. QED
        BY <2>3, <3>1, <4>1, <4>2
    <3>3. CASE d \notin s.defaults[b]
      <4>1. b = v.base
        BY <3>3 DEF KeepsOtherTenants
      <4>2. op \in Defaults /\ d[1] = v.user
        BY <3>3, <4>1 DEF ChangesDefaults
      <4>3. s.users[v.user] # NoPassword /\ op # "DROP_USER"
        BY <4>2 DEF Permits, NamesUser, Defaults
      <4>4. QED
        BY <1>1, <2>3, <4>2, <4>3
    <3>4. QED
      BY <3>2, <3>3
  <2>7. QED
    BY <2>2, <2>5, <2>6 DEF SoundUsers
<1>4. QED
  BY <1>2, <1>3 DEF Sound

-----------------------------------------------------------------------------
(***************************************************************************)
(* How far an operation is: what holds of its tenant or user once n        *)
(* statements of it are executed.                                          *)
(***************************************************************************)
ProvisionDone(s, v, n) ==
    /\ v.base \in s.roles <=> n >= 1
    /\ v.base \in s.admin <=> n \in 2..7
    /\ s.tss[v.base] = IF n >= 3 THEN v.gb ELSE Absent
    /\ s.dbs[v.base] = IF n >= 4 THEN v.conn ELSE Absent
    /\ n >= 5 => "REVOKE_CONNECT_FROM_PUBLIC" \in s.acl[v.base]
    /\ n >= 6 => "GRANT_CONNECT_TO_ROLE" \in s.acl[v.base]
    /\ n >= 7 => "GRANT_CONNECT_TO_ADMIN" \in s.acl[v.base]
    /\ n >= 9 => "ENABLE_PRIVATE_OBJECT" \in s.acl[v.base]
    /\ n >= 10 => "GRANT_ON_SCHEMA_PUBLIC" \in s.acl[v.base]
    /\ n >= 11 => "GRANT_CREATE_ON_DATABASE" \in s.acl[v.base]

UpdateDone(s, v, n) ==
    /\ n \in 1..3 => v.base \in s.admin
    /\ n >= 2 => s.dbs[v.base] = v.conn
    /\ n >= 3 => s.tss[v.base] = v.gb
    /\ n >= 4 => v.base \notin s.admin

\* Nothing of a tenant, or of a user, is left on s.
TenantGone(s, b) ==
    /\ b \notin s.roles /\ b \notin s.admin
    /\ s.dbs[b] = Absent /\ s.tss[b] = Absent
    /\ s.acl[b] = {} /\ s.defaults[b] = {}
    /\ \A m \in s.member : m[2] # b

UserGone(s, u) ==
    /\ s.users[u] = NoPassword
    /\ u \notin s.schemas
    /\ \A m \in s.member : m[1] # u
    /\ \A b \in Bases : \A d \in s.defaults[b] : d[1] # u

DeprovisionDone(s, v, n) ==
    /\ n \in 1..4 => v.base \in s.admin
    /\ n >= 3 => s.dbs[v.base] = Absent /\ s.acl[v.base] = {} /\ s.defaults[v.base] = {}
    /\ n >= 4 => s.tss[v.base] = Absent
    /\ n >= 5 => v.base \notin s.admin
    /\ n >= 6 => TenantGone(s, v.base)

\* The user has default privileges in its own database only.
DefaultsAtHome(s, v) == \A b \in Bases \ {v.base} : \A d \in s.defaults[b] : d[1] # v.user

BindDone(s, v, n) ==
    /\ s.users[v.user] = IF n >= 1 THEN v.password ELSE NoPassword
    /\ \A m \in s.member : m[1] = v.user => n >= 2 /\ m[2] = v.base
    /\ n >= 2 => <<v.user, v.base>> \in s.member
    /\ n >= 3 => s.dbs[v.base] # Absent /\ <<v.user, "DEFAULT_PRIVILEGES_ON_TABLES">> \in s.defaults[v.base]
    /\ n >= 4 => <<v.user, "DEFAULT_PRIVILEGES_ON_SEQUENCES">> \in s.defaults[v.base]
    /\ DefaultsAtHome(s, v)

UnbindDone(s, v, n) ==
    /\ n >= 2 => \A d \in s.defaults[v.base] : d[1] # v.user
    /\ n >= 3 => v.user \notin s.schemas
    /\ n >= 4 => UserGone(s, v.user)

\* k statements of template t are executed; a second template counts on from the first.
Done(s, v, t, k) ==
    /\ t = "admin-db/provision" => ProvisionDone(s, v, k)
    /\ t = "tenant-db/provision" => ProvisionDone(s, v, k + 8)
    /\ t = "admin-db/update" => UpdateDone(s, v, k)
    /\ t = "admin-db/deprovision" => DeprovisionDone(s, v, k)
    /\ t = "admin-db/bind" => BindDone(s, v, k)
    /\ t = "tenant-db/bind" => BindDone(s, v, k + 2)
    /\ t = "tenant-db/unbind" => UnbindDone(s, v, k)
    /\ t = "admin-db/unbind" => UnbindDone(s, v, k + 2)

\* The server accepts op and executes it.
Runs(s, v, op, e) == Permits(s, v, op) /\ Executes(s, v, op, e)

LEMMA ProvisionStep ==
    ASSUME NEW s \in Server, NEW e \in Server, NEW v \in TemplateVars
    PROVE  /\ ProvisionDone(s, v, 0) /\ Executes(s, v, "CREATE_ROLE", e) => ProvisionDone(e, v, 1)
           /\ ProvisionDone(s, v, 1) /\ Executes(s, v, "GRANT_ROLE_TO_ADMIN", e) => ProvisionDone(e, v, 2)
           /\ ProvisionDone(s, v, 2) /\ Executes(s, v, "CREATE_TABLESPACE", e) => ProvisionDone(e, v, 3)
           /\ ProvisionDone(s, v, 3) /\ Executes(s, v, "CREATE_DATABASE", e) => ProvisionDone(e, v, 4)
           /\ ProvisionDone(s, v, 4) /\ Executes(s, v, "REVOKE_CONNECT_FROM_PUBLIC", e) => ProvisionDone(e, v, 5)
           /\ ProvisionDone(s, v, 5) /\ Executes(s, v, "GRANT_CONNECT_TO_ROLE", e) => ProvisionDone(e, v, 6)
           /\ ProvisionDone(s, v, 6) /\ Executes(s, v, "GRANT_CONNECT_TO_ADMIN", e) => ProvisionDone(e, v, 7)
           /\ ProvisionDone(s, v, 7) /\ Executes(s, v, "REVOKE_ROLE_FROM_ADMIN", e) => ProvisionDone(e, v, 8)
           /\ ProvisionDone(s, v, 8) /\ Executes(s, v, "ENABLE_PRIVATE_OBJECT", e) => ProvisionDone(e, v, 9)
           /\ ProvisionDone(s, v, 9) /\ Executes(s, v, "GRANT_ON_SCHEMA_PUBLIC", e) => ProvisionDone(e, v, 10)
           /\ ProvisionDone(s, v, 10) /\ Executes(s, v, "GRANT_CREATE_ON_DATABASE", e) => ProvisionDone(e, v, 11)
<1> USE DEF ProvisionDone, Executes, KeepsOtherTenants, ChangesTenant, ChangesPrivileges, ChangesUser, ChangesMembers, ChangesDefaults,
           Privileges, Defaults, Absent
<1>1. ProvisionDone(s, v, 0) /\ Executes(s, v, "CREATE_ROLE", e) => ProvisionDone(e, v, 1)
  OBVIOUS
<1>2. ProvisionDone(s, v, 1) /\ Executes(s, v, "GRANT_ROLE_TO_ADMIN", e) => ProvisionDone(e, v, 2)
  OBVIOUS
<1>3. ProvisionDone(s, v, 2) /\ Executes(s, v, "CREATE_TABLESPACE", e) => ProvisionDone(e, v, 3)
  OBVIOUS
<1>4. ProvisionDone(s, v, 3) /\ Executes(s, v, "CREATE_DATABASE", e) => ProvisionDone(e, v, 4)
  OBVIOUS
<1>5. ProvisionDone(s, v, 4) /\ Executes(s, v, "REVOKE_CONNECT_FROM_PUBLIC", e) => ProvisionDone(e, v, 5)
  OBVIOUS
<1>6. ProvisionDone(s, v, 5) /\ Executes(s, v, "GRANT_CONNECT_TO_ROLE", e) => ProvisionDone(e, v, 6)
  OBVIOUS
<1>7. ProvisionDone(s, v, 6) /\ Executes(s, v, "GRANT_CONNECT_TO_ADMIN", e) => ProvisionDone(e, v, 7)
  OBVIOUS
<1>8. ProvisionDone(s, v, 7) /\ Executes(s, v, "REVOKE_ROLE_FROM_ADMIN", e) => ProvisionDone(e, v, 8)
  OBVIOUS
<1>9. ProvisionDone(s, v, 8) /\ Executes(s, v, "ENABLE_PRIVATE_OBJECT", e) => ProvisionDone(e, v, 9)
  OBVIOUS
<1>10. ProvisionDone(s, v, 9) /\ Executes(s, v, "GRANT_ON_SCHEMA_PUBLIC", e) => ProvisionDone(e, v, 10)
  OBVIOUS
<1>11. ProvisionDone(s, v, 10) /\ Executes(s, v, "GRANT_CREATE_ON_DATABASE", e) => ProvisionDone(e, v, 11)
  OBVIOUS
<1>12. QED
  BY <1>1, <1>2, <1>3, <1>4, <1>5, <1>6, <1>7, <1>8, <1>9, <1>10, <1>11

LEMMA UpdateStep ==
    ASSUME NEW s \in Server, NEW e \in Server, NEW v \in TemplateVars
    PROVE  /\ UpdateDone(s, v, 0) /\ Executes(s, v, "GRANT_ROLE_TO_ADMIN", e) => UpdateDone(e, v, 1)
           /\ UpdateDone(s, v, 1) /\ Executes(s, v, "ALTER_DATABASE_LIMIT", e) => UpdateDone(e, v, 2)
           /\ UpdateDone(s, v, 2) /\ Executes(s, v, "ALTER_TABLESPACE_MAXSIZE", e) => UpdateDone(e, v, 3)
           /\ UpdateDone(s, v, 3) /\ Executes(s, v, "REVOKE_ROLE_FROM_ADMIN", e) => UpdateDone(e, v, 4)
<1> USE DEF UpdateDone, Executes, KeepsOtherTenants, ChangesTenant, ChangesPrivileges, ChangesUser, ChangesMembers, ChangesDefaults,
           Privileges, Defaults, Absent
<1>1. UpdateDone(s, v, 0) /\ Executes(s, v, "GRANT_ROLE_TO_ADMIN", e) => UpdateDone(e, v, 1)
  OBVIOUS
<1>2. UpdateDone(s, v, 1) /\ Executes(s, v, "ALTER_DATABASE_LIMIT", e) => UpdateDone(e, v, 2)
  OBVIOUS
<1>3. UpdateDone(s, v, 2) /\ Executes(s, v, "ALTER_TABLESPACE_MAXSIZE", e) => UpdateDone(e, v, 3)
  OBVIOUS
<1>4. UpdateDone(s, v, 3) /\ Executes(s, v, "REVOKE_ROLE_FROM_ADMIN", e) => UpdateDone(e, v, 4)
  OBVIOUS
<1>5. QED
  BY <1>1, <1>2, <1>3, <1>4

LEMMA DeprovisionStep ==
    ASSUME NEW s \in Server, NEW e \in Server, NEW v \in TemplateVars
    PROVE  /\ DeprovisionDone(s, v, 0) /\ Executes(s, v, "GRANT_ROLE_TO_ADMIN", e) => DeprovisionDone(e, v, 1)
           /\ DeprovisionDone(s, v, 1) /\ Executes(s, v, "TERMINATE_DATABASE", e) => DeprovisionDone(e, v, 2)
           /\ DeprovisionDone(s, v, 2) /\ Executes(s, v, "DROP_DATABASE", e) => DeprovisionDone(e, v, 3)
           /\ DeprovisionDone(s, v, 3) /\ Executes(s, v, "DROP_TABLESPACE", e) => DeprovisionDone(e, v, 4)
           /\ DeprovisionDone(s, v, 4) /\ Executes(s, v, "REVOKE_ROLE_FROM_ADMIN", e) => DeprovisionDone(e, v, 5)
           /\ DeprovisionDone(s, v, 5) /\ Executes(s, v, "DROP_ROLE", e) => DeprovisionDone(e, v, 6)
<1> USE DEF DeprovisionDone, TenantGone, Executes, KeepsOtherTenants, ChangesTenant, ChangesPrivileges, ChangesUser, ChangesMembers, ChangesDefaults,
           Privileges, Defaults, Absent
<1>1. DeprovisionDone(s, v, 0) /\ Executes(s, v, "GRANT_ROLE_TO_ADMIN", e) => DeprovisionDone(e, v, 1)
  OBVIOUS
<1>2. DeprovisionDone(s, v, 1) /\ Executes(s, v, "TERMINATE_DATABASE", e) => DeprovisionDone(e, v, 2)
  OBVIOUS
<1>3. DeprovisionDone(s, v, 2) /\ Executes(s, v, "DROP_DATABASE", e) => DeprovisionDone(e, v, 3)
  OBVIOUS
<1>4. DeprovisionDone(s, v, 3) /\ Executes(s, v, "DROP_TABLESPACE", e) => DeprovisionDone(e, v, 4)
  OBVIOUS
<1>5. DeprovisionDone(s, v, 4) /\ Executes(s, v, "REVOKE_ROLE_FROM_ADMIN", e) => DeprovisionDone(e, v, 5)
  OBVIOUS
<1>6. DeprovisionDone(s, v, 5) /\ Executes(s, v, "DROP_ROLE", e) => DeprovisionDone(e, v, 6)
  OBVIOUS
<1>7. QED
  BY <1>1, <1>2, <1>3, <1>4, <1>5, <1>6

LEMMA BindStep ==
    ASSUME NEW s \in Server, NEW e \in Server, NEW v \in TemplateVars
    PROVE  /\ BindDone(s, v, 0) /\ Runs(s, v, "CREATE_USER", e) => BindDone(e, v, 1)
           /\ BindDone(s, v, 1) /\ Runs(s, v, "GRANT_ROLE_TO_USER", e) => BindDone(e, v, 2)
           /\ BindDone(s, v, 2) /\ Runs(s, v, "DEFAULT_PRIVILEGES_ON_TABLES", e) => BindDone(e, v, 3)
           /\ BindDone(s, v, 3) /\ Runs(s, v, "DEFAULT_PRIVILEGES_ON_SEQUENCES", e) => BindDone(e, v, 4)
<1> USE DEF BindDone, DefaultsAtHome, Runs, Executes, KeepsOtherTenants, ChangesTenant, ChangesPrivileges, ChangesUser, ChangesMembers, ChangesDefaults,
           Privileges, Defaults, Absent,
           Permits, OnTenant, NamesRole, NamesUser, NamesDatabase, NeedsOwner
<1>1. BindDone(s, v, 0) /\ Runs(s, v, "CREATE_USER", e) => BindDone(e, v, 1)
  OBVIOUS
<1>2. BindDone(s, v, 1) /\ Runs(s, v, "GRANT_ROLE_TO_USER", e) => BindDone(e, v, 2)
  OBVIOUS
<1>3. BindDone(s, v, 2) /\ Runs(s, v, "DEFAULT_PRIVILEGES_ON_TABLES", e) => BindDone(e, v, 3)
  OBVIOUS
<1>4. BindDone(s, v, 3) /\ Runs(s, v, "DEFAULT_PRIVILEGES_ON_SEQUENCES", e) => BindDone(e, v, 4)
  OBVIOUS
<1>5. QED
  BY <1>1, <1>2, <1>3, <1>4

LEMMA UnbindStep ==
    ASSUME NEW s \in Server, NEW e \in Server, NEW v \in TemplateVars
    PROVE  /\ UnbindDone(s, v, 0) /\ Runs(s, v, "TERMINATE_USER", e) => UnbindDone(e, v, 1)
           /\ UnbindDone(s, v, 1) /\ Runs(s, v, "DROP_OWNED", e) => UnbindDone(e, v, 2)
           /\ UnbindDone(s, v, 2) /\ Runs(s, v, "DROP_SCHEMA", e) => UnbindDone(e, v, 3)
           /\ UnbindDone(s, v, 3) /\ Runs(s, v, "DROP_USER", e) => UnbindDone(e, v, 4)
<1> USE DEF UnbindDone, UserGone, Runs, Executes, KeepsOtherTenants, ChangesTenant, ChangesPrivileges, ChangesUser, ChangesMembers, ChangesDefaults,
           Privileges, Defaults, Absent,
           Permits, OnTenant, NamesRole, NamesUser, NamesDatabase, NeedsOwner
<1>1. UnbindDone(s, v, 0) /\ Runs(s, v, "TERMINATE_USER", e) => UnbindDone(e, v, 1)
  OBVIOUS
<1>2. UnbindDone(s, v, 1) /\ Runs(s, v, "DROP_OWNED", e) => UnbindDone(e, v, 2)
  OBVIOUS
<1>3. UnbindDone(s, v, 2) /\ Runs(s, v, "DROP_SCHEMA", e) => UnbindDone(e, v, 3)
  OBVIOUS
<1>4. UnbindDone(s, v, 3) /\ Runs(s, v, "DROP_USER", e) => UnbindDone(e, v, 4)
  OBVIOUS
<1>5. QED
  BY <1>1, <1>2, <1>3, <1>4

\* One more statement of any template.
LEMMA TemplateStep ==
    ASSUME NEW s \in Server, NEW e \in Server, NEW v \in TemplateVars,
           NEW t \in TemplateNames, NEW k \in 1..Len(Template(t)),
           Done(s, v, t, k - 1), Runs(s, v, Template(t)[k], e)
    PROVE  Done(e, v, t, k)
<1>1. CASE t = "admin-db/provision"
  <2>1. Template(t) = AdminProvision /\ ProvisionDone(s, v, k - 1) /\ k \in 1..8
    BY <1>1 DEF Template, Done, AdminProvision
  <2>2. ProvisionDone(e, v, k)
    BY <2>1, ProvisionStep DEF AdminProvision, Runs
  <2>3. QED
    BY <1>1, <2>2 DEF Done
<1>2. CASE t = "tenant-db/provision"
  <2>1. Template(t) = TenantProvision /\ ProvisionDone(s, v, (k - 1) + 8) /\ k \in 1..3
    BY <1>2 DEF Template, Done, TenantProvision
  <2>2. ProvisionDone(e, v, k + 8)
    BY <2>1, ProvisionStep DEF TenantProvision, Runs
  <2>3. QED
    BY <1>2, <2>2 DEF Done
<1>3. CASE t = "admin-db/update"
  <2>1. Template(t) = AdminUpdate /\ UpdateDone(s, v, k - 1) /\ k \in 1..4
    BY <1>3 DEF Template, Done, AdminUpdate
  <2>2. UpdateDone(e, v, k)
    BY <2>1, UpdateStep DEF AdminUpdate, Runs
  <2>3. QED
    BY <1>3, <2>2 DEF Done
<1>4. CASE t = "admin-db/deprovision"
  <2>1. Template(t) = AdminDeprovision /\ DeprovisionDone(s, v, k - 1) /\ k \in 1..6
    BY <1>4 DEF Template, Done, AdminDeprovision
  <2>2. DeprovisionDone(e, v, k)
    BY <2>1, DeprovisionStep DEF AdminDeprovision, Runs
  <2>3. QED
    BY <1>4, <2>2 DEF Done
<1>5. CASE t = "admin-db/bind"
  <2>1. Template(t) = AdminBind /\ BindDone(s, v, k - 1) /\ k \in 1..2
    BY <1>5 DEF Template, Done, AdminBind
  <2>2. BindDone(e, v, k)
    BY <2>1, BindStep DEF AdminBind, Runs
  <2>3. QED
    BY <1>5, <2>2 DEF Done
<1>6. CASE t = "tenant-db/bind"
  <2>1. Template(t) = TenantBind /\ BindDone(s, v, (k - 1) + 2) /\ k \in 1..2
    BY <1>6 DEF Template, Done, TenantBind
  <2>2. BindDone(e, v, k + 2)
    BY <2>1, BindStep DEF TenantBind, Runs
  <2>3. QED
    BY <1>6, <2>2 DEF Done
<1>7. CASE t = "tenant-db/unbind"
  <2>1. Template(t) = TenantUnbind /\ UnbindDone(s, v, k - 1) /\ k \in 1..2
    BY <1>7 DEF Template, Done, TenantUnbind
  <2>2. UnbindDone(e, v, k)
    BY <2>1, UnbindStep DEF TenantUnbind, Runs
  <2>3. QED
    BY <1>7, <2>2 DEF Done
<1>8. CASE t = "admin-db/unbind"
  <2>1. Template(t) = AdminUnbind /\ UnbindDone(s, v, (k - 1) + 2) /\ k \in 1..2
    BY <1>8 DEF Template, Done, AdminUnbind
  <2>2. UnbindDone(e, v, k + 2)
    BY <2>1, UnbindStep DEF AdminUnbind, Runs
  <2>3. QED
    BY <1>8, <2>2 DEF Done
<1>9. QED
  BY <1>1, <1>2, <1>3, <1>4, <1>5, <1>6, <1>7, <1>8 DEF TemplateNames

\* The second template of an operation goes on where the first one ends.
LEMMA SecondPartFollows ==
    ASSUME NEW s, NEW v, NEW t \in TwoPart, Done(s, v, t, Len(Template(t)))
    PROVE  Done(s, v, SecondPart(t), 0)
BY DEF TwoPart, SecondPart, Done, Template, AdminProvision, AdminBind, TenantUnbind

\* The probes find enough: without its role a tenant has nothing, and without
\* the user itself a user has nothing.
LEMMA NothingDone ==
    ASSUME NEW s \in Server, NEW v \in TemplateVars, Sound(s)
    PROVE  /\ v.base \notin s.roles => Done(s, v, "admin-db/provision", 0)
           /\ s.users[v.user] = NoPassword => Done(s, v, "admin-db/bind", 0)
           /\ \A t \in {"admin-db/update", "admin-db/deprovision", "tenant-db/unbind"} : Done(s, v, t, 0)
BY DEF Done, ProvisionDone, UpdateDone, DeprovisionDone, BindDone, UnbindDone, DefaultsAtHome,
       Sound, SoundTenants, SoundUsers, TemplateVars, Absent

-----------------------------------------------------------------------------
(***************************************************************************)
(* Which statements the server cannot refuse.                              *)
(***************************************************************************)

\* Deprovision needs the role for its first statement and nothing else: the
\* objects it drops may be gone (the templates say IF EXISTS).
LEMMA DeprovisionPermitted ==
    ASSUME NEW s \in Server, NEW v \in TemplateVars, Sound(s), NEW k \in 1..6,
           DeprovisionDone(s, v, k - 1), k = 1 => v.base \in s.roles
    PROVE  Permits(s, v, AdminDeprovision[k])
<1> USE DEF Permits, OnTenant, NamesRole, NamesUser, NamesDatabase, NeedsOwner, Privileges, Defaults
<1>1. k \in 3..5 => v.base \in s.admin /\ v.base \in s.roles
  BY DEF DeprovisionDone, Sound, SoundTenants
<1>2. k \in 2..6 => k - 1 \in 1..5
  OBVIOUS
<1>3. QED
  BY <1>1, <1>2 DEF DeprovisionDone, AdminDeprovision

\* Unbind needs the user and the database, and the user's default privileges
\* to be in that database only.
LEMMA UnbindPermitted ==
    ASSUME NEW s \in Server, NEW v \in TemplateVars,
           NEW t \in {"tenant-db/unbind", "admin-db/unbind"}, NEW k \in 1..Len(Template(t)),
           Done(s, v, t, k - 1),
           s.dbs[v.base] # Absent, s.users[v.user] # NoPassword, DefaultsAtHome(s, v)
    PROVE  Permits(s, v, Template(t)[k])
<1> USE DEF Permits, OnTenant, NamesRole, NamesUser, NamesDatabase, NeedsOwner, Privileges, Defaults,
            UnbindDone, DefaultsAtHome, Done, Template
<1>1. CASE t = "tenant-db/unbind"
  BY <1>1 DEF TenantUnbind
<1>2. CASE t = "admin-db/unbind" /\ k = 1
  BY <1>2 DEF AdminUnbind
<1>3. CASE t = "admin-db/unbind" /\ k = 2
  BY <1>3 DEF AdminUnbind
<1>4. QED
  BY <1>1, <1>2, <1>3 DEF AdminUnbind

\* Nothing in the way of Provision once its probe has found no role: each
\* statement finds what the ones before it have made.
LEMMA ProvisionPermitted ==
    ASSUME NEW s \in Server, NEW v \in TemplateVars,
           NEW t \in {"admin-db/provision", "tenant-db/provision"}, NEW k \in 1..Len(Template(t)),
           Done(s, v, t, k - 1), v.conn # Absent, v.gb # Absent
    PROVE  Permits(s, v, Template(t)[k])
<1> USE DEF Permits, OnTenant, NamesRole, NamesUser, NamesDatabase, NeedsOwner, Privileges, Defaults,
            ProvisionDone, Done, Template
<1>1. CASE t = "tenant-db/provision"
  BY <1>1 DEF TenantProvision
<1>2. CASE t = "admin-db/provision"
  BY <1>2 DEF AdminProvision
<1>3. QED
  BY <1>1, <1>2

\* Nor of Bind, when its probe has found no user and the tenant has its database.
LEMMA BindPermitted ==
    ASSUME NEW s \in Server, NEW v \in TemplateVars, Sound(s),
           NEW t \in {"admin-db/bind", "tenant-db/bind"}, NEW k \in 1..Len(Template(t)),
           Done(s, v, t, k - 1), v.password # NoPassword, s.dbs[v.base] # Absent
    PROVE  Permits(s, v, Template(t)[k])
<1> USE DEF Permits, OnTenant, NamesRole, NamesUser, NamesDatabase, NeedsOwner, Privileges, Defaults,
            BindDone, Done, Template
<1>1. v.base \in s.roles
  BY DEF Sound, SoundTenants, TemplateVars
<1>2. CASE t = "admin-db/bind"
  BY <1>1, <1>2 DEF AdminBind
<1>3. CASE t = "tenant-db/bind"
  BY <1>1, <1>3 DEF TenantBind
<1>4. QED
  BY <1>2, <1>3

-----------------------------------------------------------------------------
(***************************************************************************)
(* Two deployments on one server.  B are the base names of one of them: a  *)
(* statement of the other leaves alone what bears these names.             *)
(***************************************************************************)
LeavesAlone(s, e, B) ==
    /\ \A b \in B :
          /\ b \in e.roles <=> b \in s.roles
          /\ b \in e.admin <=> b \in s.admin
          /\ e.dbs[b] = s.dbs[b] /\ e.tss[b] = s.tss[b]
          /\ e.acl[b] = s.acl[b] /\ e.defaults[b] = s.defaults[b]
          /\ e.users[b] = s.users[b]
          /\ b \in e.schemas <=> b \in s.schemas
    /\ \A m \in e.member : m \in s.member \/ (m[1] \notin B /\ m[2] \notin B)
    /\ \A m \in s.member : m \in e.member \/ m[1] \notin B \/ m[2] \notin B
    /\ \A b \in Bases : \A d \in e.defaults[b] : d \in s.defaults[b] \/ d[1] \notin B

LEMMA ExecutesLeavesAlone ==
    ASSUME NEW s \in Server, NEW e \in Server, NEW v \in TemplateVars, NEW op, Executes(s, v, op, e),
           NEW B \in SUBSET Bases, v.base \notin B, v.user \notin B
    PROVE  LeavesAlone(s, e, B)
<1>1. \A b \in B : b \in Bases \ {v.base} /\ b \in Bases \ {v.user}
  OBVIOUS
<1>2. \A b \in B :
         /\ b \in e.roles <=> b \in s.roles
         /\ b \in e.admin <=> b \in s.admin
         /\ e.dbs[b] = s.dbs[b] /\ e.tss[b] = s.tss[b]
         /\ e.acl[b] = s.acl[b] /\ e.defaults[b] = s.defaults[b]
         /\ e.users[b] = s.users[b]
         /\ b \in e.schemas <=> b \in s.schemas
  BY <1>1 DEF Executes, KeepsOtherTenants, KeepsOtherUsers
<1>3. /\ \A m \in e.member : m \in s.member \/ (m[1] \notin B /\ m[2] \notin B)
      /\ \A m \in s.member : m \in e.member \/ m[1] \notin B \/ m[2] \notin B
  BY DEF Executes, ChangesMembers
<1>4. ASSUME NEW b \in Bases, NEW d \in e.defaults[b] PROVE d \in s.defaults[b] \/ d[1] \notin B
  <2>1. CASE b = v.base
    BY <1>4, <2>1 DEF Executes, ChangesDefaults
  <2>2. CASE b # v.base
    BY <1>4, <2>2 DEF Executes, KeepsOtherTenants
  <2>3. QED
    BY <2>1, <2>2
<1>5. QED
  BY <1>2, <1>3, <1>4 DEF LeavesAlone

\* What an operation has done so far is not undone by the other deployment.
LEMMA DoneFramed ==
    ASSUME NEW s \in Server, NEW e \in Server, NEW B \in SUBSET Bases, LeavesAlone(s, e, B),
           NEW v \in TemplateVars, v.base \in B, v.user \in B
    PROVE  /\ TenantGone(s, v.base) => TenantGone(e, v.base)
           /\ UserGone(s, v.user) => UserGone(e, v.user)
           /\ DefaultsAtHome(s, v) => DefaultsAtHome(e, v)
           /\ \A t, k : Done(s, v, t, k) => Done(e, v, t, k)
<1>1. TenantGone(s, v.base) => TenantGone(e, v.base)
  BY DEF TenantGone, LeavesAlone
<1>2. UserGone(s, v.user) => UserGone(e, v.user)
  BY DEF UserGone, LeavesAlone
<1>3. DefaultsAtHome(s, v) => DefaultsAtHome(e, v)
  BY DEF DefaultsAtHome, LeavesAlone
<1>4. ASSUME NEW n, ProvisionDone(s, v, n) PROVE ProvisionDone(e, v, n)
  BY <1>4 DEF ProvisionDone, LeavesAlone
<1>5. ASSUME NEW n, UpdateDone(s, v, n) PROVE UpdateDone(e, v, n)
  BY <1>5 DEF UpdateDone, LeavesAlone
<1>6. ASSUME NEW n, DeprovisionDone(s, v, n) PROVE DeprovisionDone(e, v, n)
  BY <1>1, <1>6 DEF DeprovisionDone, LeavesAlone
<1>7. ASSUME NEW n, BindDone(s, v, n) PROVE BindDone(e, v, n)
  <2>1. <<v.user, v.base>>[1] = v.user /\ <<v.user, v.base>>[2] = v.base
    OBVIOUS
  <2>2. <<v.user, v.base>> \in s.member => <<v.user, v.base>> \in e.member
    BY <2>1 DEF LeavesAlone
  <2>3. \A m \in e.member : m[1] = v.user => m \in s.member
    BY DEF LeavesAlone
  <2>4. e.users[v.user] = s.users[v.user] /\ e.dbs[v.base] = s.dbs[v.base]
        /\ e.defaults[v.base] = s.defaults[v.base]
    BY DEF LeavesAlone
  <2>5. QED
    BY <1>3, <1>7, <2>2, <2>3, <2>4 DEF BindDone
<1>8. ASSUME NEW n, UnbindDone(s, v, n) PROVE UnbindDone(e, v, n)
  BY <1>2, <1>8 DEF UnbindDone, LeavesAlone
<1>9. ASSUME NEW t, NEW k, Done(s, v, t, k) PROVE Done(e, v, t, k)
  BY <1>4, <1>5, <1>6, <1>7, <1>8, <1>9 DEF Done
<1>10. QED
  BY <1>1, <1>2, <1>3, <1>9
=============================================================================

----------------------------- MODULE OpenGauss -----------------------------
(***************************************************************************)
(* The openGauss server the broker administers, as far as the broker's SQL *)
(* templates touch it: the catalogs pg_roles, pg_database, pg_tablespace,  *)
(* the memberships, the privileges and default privileges, and what one    *)
(* statement needs and does.  The server is not part of the repository:    *)
(* its behaviour is taken from the templates and the comments in them.     *)
(*                                                                         *)
(* A tenant's database, group role and tablespace share one base name; a   *)
(* binding user has a base name of its own.  The two kinds of role never   *)
(* share a name (names.go derives <prefix>_<base>_grp and <prefix>u_<base>)*)
(* so group roles and users are kept apart.                                *)
(***************************************************************************)
EXTENDS Naturals, ObjectNames

CONSTANTS
    Passwords,   \* what randomPassword can return
    NoPassword   \* a user that does not exist

\* randomPassword returns a password or panics.
ASSUME PasswordAssumption == NoPassword \notin Passwords

\* CONNECTION LIMIT and MAXSIZE are at least 1: 0 stands for "no such object".
Absent == 0

\* The statements that record one privilege on a tenant database.
Privileges == {"REVOKE_CONNECT_FROM_PUBLIC", "GRANT_CONNECT_TO_ROLE",
               "GRANT_CONNECT_TO_ADMIN", "ENABLE_PRIVATE_OBJECT",
               "GRANT_ON_SCHEMA_PUBLIC", "GRANT_CREATE_ON_DATABASE"}

\* The statements that add default privileges for a user in a tenant database.
Defaults == {"DEFAULT_PRIVILEGES_ON_TABLES", "DEFAULT_PRIVILEGES_ON_SEQUENCES"}

Server == [roles    : SUBSET Bases,                    \* group roles
           dbs      : [Bases -> Nat],                  \* connection limit of each database
           tss      : [Bases -> Nat],                  \* MAXSIZE of each tablespace
           acl      : [Bases -> SUBSET Privileges],    \* privileges set up on each database
           admin    : SUBSET Bases,                    \* group roles the admin user belongs to
           users    : [Bases -> Passwords \cup {NoPassword}],
           schemas  : SUBSET Bases,                    \* same-named schemas of the users
           member   : SUBSET (Bases \X Bases),         \* <<user, group role>>
           defaults : [Bases -> SUBSET (Bases \X Defaults)]] \* per database, of which user

EmptyServer == [roles |-> {}, dbs |-> [b \in Bases |-> Absent], tss |-> [b \in Bases |-> Absent],
                acl |-> [b \in Bases |-> {}], admin |-> {},
                users |-> [b \in Bases |-> NoPassword], schemas |-> {}, member |-> {},
                defaults |-> [b \in Bases |-> {}]]

\* Executed on the tenant database: the connection needs the database to exist.
OnTenant == Defaults \cup {"ENABLE_PRIVATE_OBJECT", "GRANT_ON_SCHEMA_PUBLIC",
                           "GRANT_CREATE_ON_DATABASE", "TERMINATE_USER", "DROP_OWNED"}
NamesRole == Defaults \cup {"GRANT_ROLE_TO_ADMIN", "REVOKE_ROLE_FROM_ADMIN",
                            "GRANT_ROLE_TO_USER", "CREATE_TABLESPACE", "CREATE_DATABASE",
                            "GRANT_CONNECT_TO_ROLE", "GRANT_ON_SCHEMA_PUBLIC",
                            "GRANT_CREATE_ON_DATABASE"}
NamesUser == Defaults \cup {"GRANT_ROLE_TO_USER", "DROP_OWNED"}
NamesDatabase == Privileges \cup {"ALTER_DATABASE_LIMIT"}
\* CREATE and ALTER need membership in the owner role (comments in the templates).
NeedsOwner == {"CREATE_TABLESPACE", "CREATE_DATABASE", "ALTER_DATABASE_LIMIT",
               "ALTER_TABLESPACE_MAXSIZE"}

(***************************************************************************)
(* v carries the values rendered into the template: base and user are the  *)
(* names, conn and gb the quotas, password the generated secret.           *)
(***************************************************************************)
\* The server accepts statement op.
Permits(s, v, op) ==
    /\ op \in OnTenant \cup NamesDatabase => s.dbs[v.base] # Absent
    /\ op \in NamesRole => v.base \in s.roles
    /\ op \in NamesUser => s.users[v.user] # NoPassword
    /\ op \in NeedsOwner => v.base \in s.admin
    /\ op = "CREATE_ROLE" => v.base \notin s.roles
    /\ op = "CREATE_TABLESPACE" => s.tss[v.base] = Absent
    /\ op = "CREATE_DATABASE" => s.dbs[v.base] = Absent /\ s.tss[v.base] # Absent
    /\ op = "ALTER_TABLESPACE_MAXSIZE" => s.tss[v.base] # Absent
    /\ op = "CREATE_USER" => s.users[v.user] = NoPassword
    /\ op = "DROP_DATABASE" => s.dbs[v.base] = Absent \/ v.base \in s.admin
    /\ op = "DROP_TABLESPACE" => /\ s.tss[v.base] = Absent \/ v.base \in s.admin
                                 /\ s.dbs[v.base] = Absent
    /\ op = "DROP_ROLE" => s.dbs[v.base] = Absent /\ s.tss[v.base] = Absent
    /\ op = "DROP_USER" => /\ v.user \notin s.schemas
                           /\ \A b \in Bases : \A d \in s.defaults[b] : d[1] # v.user

\* What the server holds once it has executed op.
Effect(s, v, op) ==
    [roles    |-> CASE op = "CREATE_ROLE" -> s.roles \cup {v.base}
                    [] op = "DROP_ROLE"   -> s.roles \ {v.base}
                    [] OTHER              -> s.roles,
     dbs      |-> CASE op \in {"CREATE_DATABASE", "ALTER_DATABASE_LIMIT"}
                                            -> [s.dbs EXCEPT ![v.base] = v.conn]
                    [] op = "DROP_DATABASE" -> [s.dbs EXCEPT ![v.base] = Absent]
                    [] OTHER                -> s.dbs,
     tss      |-> CASE op \in {"CREATE_TABLESPACE", "ALTER_TABLESPACE_MAXSIZE"}
                                              -> [s.tss EXCEPT ![v.base] = v.gb]
                    [] op = "DROP_TABLESPACE" -> [s.tss EXCEPT ![v.base] = Absent]
                    [] OTHER                  -> s.tss,
     acl      |-> CASE op \in Privileges      -> [s.acl EXCEPT ![v.base] = @ \cup {op}]
                    [] op = "DROP_DATABASE"   -> [s.acl EXCEPT ![v.base] = {}]
                    [] OTHER                  -> s.acl,
     admin    |-> CASE op = "GRANT_ROLE_TO_ADMIN" -> s.admin \cup {v.base}
                    [] op \in {"REVOKE_ROLE_FROM_ADMIN", "DROP_ROLE"} -> s.admin \ {v.base}
                    [] OTHER -> s.admin,
     users    |-> CASE op = "CREATE_USER" -> [s.users EXCEPT ![v.user] = v.password]
                    [] op = "DROP_USER"   -> [s.users EXCEPT ![v.user] = NoPassword]
                    [] OTHER              -> s.users,
     schemas  |-> CASE op = "CREATE_USER" -> s.schemas \cup {v.user}
                    [] op = "DROP_SCHEMA" -> s.schemas \ {v.user}
                    [] OTHER              -> s.schemas,
     member   |-> CASE op = "GRANT_ROLE_TO_USER" -> s.member \cup {<<v.user, v.base>>}
                    [] op = "DROP_USER"          -> {m \in s.member : m[1] # v.user}
                    [] op = "DROP_ROLE"          -> {m \in s.member : m[2] # v.base}
                    [] OTHER                     -> s.member,
     defaults |-> CASE op \in Defaults -> [s.defaults EXCEPT ![v.base] = @ \cup {<<v.user, op>>}]
                    [] op = "DROP_OWNED" ->
                          [s.defaults EXCEPT ![v.base] = {d \in @ : d[1] # v.user}]
                    [] op = "DROP_DATABASE" -> [s.defaults EXCEPT ![v.base] = {}]
                    [] OTHER                -> s.defaults]
=============================================================================

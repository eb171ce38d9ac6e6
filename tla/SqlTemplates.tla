---------------------------- MODULE SqlTemplates ----------------------------
(***************************************************************************)
(* The SQL templates under templates/opengauss, as the sequence of         *)
(* statements splitSQL makes of each.  gaussdb.go executes the statements  *)
(* of one template over one connection, in order, outside any transaction. *)
(* A statement is named by what it does, in one word.                      *)
(***************************************************************************)
EXTENDS Sequences

\* Variants the properties must tell from the templates: the membership is
\* kept, the role goes before the membership, the user goes before its part,
\* the tenant's schema is left closed to its users.
AdminProvisionWithoutRevoke ==
    <<"CREATE_ROLE", "GRANT_ROLE_TO_ADMIN", "CREATE_TABLESPACE", "CREATE_DATABASE",
      "REVOKE_CONNECT_FROM_PUBLIC", "GRANT_CONNECT_TO_ROLE", "GRANT_CONNECT_TO_ADMIN">>
AdminUpdateConnectionsOnly ==
    <<"GRANT_ROLE_TO_ADMIN", "ALTER_DATABASE_LIMIT", "REVOKE_ROLE_FROM_ADMIN">>
AdminDeprovisionRoleFirst ==
    <<"GRANT_ROLE_TO_ADMIN", "TERMINATE_DATABASE", "DROP_DATABASE", "DROP_TABLESPACE",
      "DROP_ROLE", "REVOKE_ROLE_FROM_ADMIN">>
TenantProvisionClosed == <<"ENABLE_PRIVATE_OBJECT", "GRANT_CREATE_ON_DATABASE">>
TenantUnbindWholeUser == <<"TERMINATE_USER", "DROP_OWNED", "DROP_SCHEMA", "DROP_USER">>

AdminProvision ==
    <<"CREATE_ROLE", "GRANT_ROLE_TO_ADMIN", "CREATE_TABLESPACE", "CREATE_DATABASE",
      "REVOKE_CONNECT_FROM_PUBLIC", "GRANT_CONNECT_TO_ROLE", "GRANT_CONNECT_TO_ADMIN",
      "REVOKE_ROLE_FROM_ADMIN">>

TenantProvision ==
    <<"ENABLE_PRIVATE_OBJECT", "GRANT_ON_SCHEMA_PUBLIC", "GRANT_CREATE_ON_DATABASE">>

AdminUpdate ==
    <<"GRANT_ROLE_TO_ADMIN", "ALTER_DATABASE_LIMIT", "ALTER_TABLESPACE_MAXSIZE",
      "REVOKE_ROLE_FROM_ADMIN">>

AdminDeprovision ==
    <<"GRANT_ROLE_TO_ADMIN", "TERMINATE_DATABASE", "DROP_DATABASE", "DROP_TABLESPACE",
      "REVOKE_ROLE_FROM_ADMIN", "DROP_ROLE">>

AdminBind == <<"CREATE_USER", "GRANT_ROLE_TO_USER">>

TenantBind == <<"DEFAULT_PRIVILEGES_ON_TABLES", "DEFAULT_PRIVILEGES_ON_SEQUENCES">>

TenantUnbind == <<"TERMINATE_USER", "DROP_OWNED">>

AdminUnbind == <<"DROP_SCHEMA", "DROP_USER">>

TemplateNames == {"admin-db/provision", "tenant-db/provision", "admin-db/update",
                  "admin-db/deprovision", "admin-db/bind", "tenant-db/bind",
                  "tenant-db/unbind", "admin-db/unbind"}

Template(t) ==
    CASE t = "admin-db/provision"   -> AdminProvision
      [] t = "tenant-db/provision"  -> TenantProvision
      [] t = "admin-db/update"      -> AdminUpdate
      [] t = "admin-db/deprovision" -> AdminDeprovision
      [] t = "admin-db/bind"        -> AdminBind
      [] t = "tenant-db/bind"       -> TenantBind
      [] t = "tenant-db/unbind"     -> TenantUnbind
      [] t = "admin-db/unbind"      -> AdminUnbind

\* gaussdb.go calls execTemplate twice for provision, bind and unbind.
TwoPart == {"admin-db/provision", "admin-db/bind", "tenant-db/unbind"}

SecondPart(t) ==
    CASE t = "admin-db/provision" -> "tenant-db/provision"
      [] t = "admin-db/bind"      -> "tenant-db/bind"
      [] t = "tenant-db/unbind"   -> "admin-db/unbind"
=============================================================================

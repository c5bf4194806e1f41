---------------------------- MODULE ReadOnlyRole ----------------------------
(***************************************************************************)
(* The account for inspecting the database (storage/readonly.go): what a   *)
(* role is to PostgreSQL, and what the statements of EnsureReadOnlyRole do *)
(* to it.  "superuser" stands for the attributes the code takes away by    *)
(* name; the grants are those the statements are about: connect on the     *)
(* database, usage and create on the schema, select on its tables and      *)
(* select on tables to come.  A right to write that somebody gave an       *)
(* existing role on a table is not touched by any statement and left out.  *)
(***************************************************************************)
EXTENDS Integers

CONSTANTS
  RoleNames,    \* safe identifiers, see postgresIdentifierPattern
  Passwords,
  NoRole        \* the role does not exist

Grants == {"connect", "usage", "create", "select", "future"}
Roles  == [password : Passwords, superuser : BOOLEAN, grants : SUBSET Grants]

\* What an account for inspection has of these.
ReadGrants == Grants \ {"create"}

ReadOnly(role, password) ==
  /\ role # NoRole
  /\ role.password = password
  /\ ~role.superuser
  /\ role.grants = ReadGrants

CreatedRole(password) == [password |-> password, superuser |-> FALSE, grants |-> {}]

\* Fault variant: an existing account keeps its password.
LeftAsItIs(role, password) == [role EXCEPT !.superuser = FALSE]

AlteredRole(role, password) ==
  [role EXCEPT !.password = password, !.superuser = FALSE]

\* The statements that follow, each on its own.
Statements == 5

Execute(number, grants) ==
  CASE number = 1 -> grants \cup {"connect"}
    [] number = 2 -> grants \cup {"usage"}
    [] number = 3 -> grants \ {"create"}
    [] number = 4 -> grants \cup {"select"}
    [] number = 5 -> grants \cup {"future"}
=============================================================================

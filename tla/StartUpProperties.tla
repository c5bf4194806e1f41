-------------------------- MODULE StartUpProperties --------------------------
(***************************************************************************)
(* What makes start-up correct, stated over StartUp.                       *)
(***************************************************************************)
EXTENDS StartUp

MainSteps ==
  { "down", "loadConfig", "initRedis", "openPostgres", "migrate",
    "roleOptions", "databaseName", "quotePassword", "roleExists",
    "alterRole", "createRole", "grant", "listen", "serving" }

\* The steps at which EnsureReadOnlyRole has a name and a password.
RoleSteps ==
  { "databaseName", "quotePassword", "roleExists", "alterRole", "createRole", "grant" }

\* Every variable has the type of its Go or SQL counterpart; nth points at a
\* script or a statement that exists, and the role steps have a safe name.
TypeOK ==
  /\ setting \in Settings
  /\ pc \in MainSteps
  /\ nth \in 1 .. Statements
  /\ pc = "migrate" => nth <= Scripts
  /\ pc \notin {"down", "loadConfig"} => Config # Rejected
  /\ pc \in RoleSteps => User \in RoleNames /\ Password \in Passwords
  /\ table \in Tables \cup {None}
  /\ roles \in [RoleNames -> Roles \cup {NoRole}]
  /\ redisUp \in BOOLEAN /\ postgresUp \in BOOLEAN /\ portFree \in BOOLEAN
  /\ troubles \in 0 .. MaxTroubles
  /\ probe \in [ step : {"idle", "redis", "postgres", "done"},
                 left : 0 .. ProbeTimeout,
                 heard : SUBSET {"redis", "postgres"},
                 status : {0, 200, 503} ]

-----------------------------------------------------------------------------
(* The schema. *)

HasColumns(columns) == table # None /\ columns \subseteq DOMAIN table

\* Three, when every column is there that the statements of snapshots.go name.
Level ==
  IF table = None THEN 0
  ELSE 1 + (IF HasColumns({"danmaku_count"}) THEN 1 ELSE 0)
         + (IF HasColumns({"access_stats"}) THEN 1 ELSE 0)

\* What the rows of an earlier version hold where this one looks.
CountColumn == IF HasColumns({"danmaku_count"}) THEN "danmaku_count" ELSE "comment_count"
Counts == IF table = None THEN "none" ELSE table[CountColumn]

Upgrade ==
  INSTANCE UpgradeContract WITH
    Complete <- 3, level <- Level, counts <- Counts, open <- (pc = "serving")

\* What an upgrade owes the operator, wherever the scripts are cut short and
\* started again, on a table of any earlier version; see UpgradeContract.
UpgradePromise == Upgrade!Spec

-----------------------------------------------------------------------------
(* The read-only account. *)

\* A process serves only when the account of its settings, if they name one,
\* is there with the password they give, reads every table now and later and
\* neither creates tables nor administers, whatever an earlier life left half
\* done: a start cut short between two grants, an account with another
\* password, one made by hand as an administrator.  One of the two options alone never serves.
AccountIsReadOnly ==
  pc = "serving" =>
    \/ User = Unset /\ Password = Unset
    \/ User \in RoleNames /\ ReadOnly(roles[User], Password)

\* The list of credentials wins over the single pair (README:59), entry for
\* entry; a list that is all commas, or that has a malformed entry, never serves.
KeysTakePrecedence ==
  LET keys == Entries(Getenv(Environment(setting.environment, setting.file), "DANDANPLAY_KEYS"))
      used == {Config.DandanplayCredentials[i] : i \in DOMAIN Config.DandanplayCredentials}
  IN pc = "serving" /\ keys # <<>> =>
       /\ used = {keys[i] : i \in DOMAIN keys} \ {Blank}
       /\ used # {}
       /\ Malformed \notin used

-----------------------------------------------------------------------------
(* The probe. *)

\* A probe that is answered says ready exactly if both dependencies answered
\* it before its timeout (README:177), also when the one that failed was
\* checked first and the other one is well.
ReadyIsTrue ==
  probe.step = "done" =>
    (probe.status = 200 <=> probe.heard = {"redis", "postgres"})

-----------------------------------------------------------------------------
(* Failed starts and liveness. *)

\* Settings that the program accepts.
Accepted ==
  LET loaded == LoadConfig(setting.environment, setting.file)
  IN /\ loaded # Rejected
     /\ Usable(loaded.DatabaseURL) /\ Usable(loaded.ServerPort)
     /\ \/ /\ loaded.DatabaseReadOnlyUser = Unset
           /\ loaded.DatabaseReadOnlyPassword = Unset
        \/ /\ loaded.DatabaseReadOnlyUser \in RoleNames
           /\ loaded.DatabaseReadOnlyPassword # Unset
           /\ SafeDatabase /\ MayManageRoles

\* What the step that main is at needs from outside.
Needed ==
  IF pc = "initRedis" THEN redisUp
  ELSE IF pc \in {"openPostgres", "migrate"} \cup RoleSteps THEN postgresUp
  ELSE pc = "listen" => portFree

\* A start fails only because of settings that the program does not accept, or
\* because the very thing the failing step calls is not there: Redis, PostgreSQL
\* or the port to listen on. Never because of a script, a grant or an account
\* that an earlier start has left behind, wherever it was cut short, nor because
\* of a table that an earlier version made.
FailsOnlyForCause ==
  [][MainStep /\ pc' = "down" => ~Accepted \/ ~Needed]_vars

\* With settings that it accepts the process comes to serve and stays, once
\* nothing goes wrong any more: no point at which an earlier start was cut
\* short, and no earlier version of table and account, makes every later start
\* fail.
ComesUp == <>[]Accepted => <>[](pc = "serving")
=============================================================================

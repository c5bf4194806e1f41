------------------------------- MODULE StartUp -------------------------------
(***************************************************************************)
(* The life of the process (main.go): it loads its configuration, reaches  *)
(* Redis and PostgreSQL, runs the migrations, makes the read-only account, *)
(* serves, and ends at the first error on the way (log.Fatalf) or at any   *)
(* moment.  Docker starts it again.  Between two lives the operator may    *)
(* change the settings.  While it serves, /readyz probes Redis and         *)
(* PostgreSQL (handlers/health.go).                                        *)
(*                                                                         *)
(* One step is one call on Redis or PostgreSQL with the local computation  *)
(* that follows it.  A statement that was executed and whose answer was    *)
(* lost is the statement followed by Crash.                                *)
(***************************************************************************)
EXTENDS Configuration, Migrations, ReadOnlyRole

CONSTANTS
  Settings,        \* what the operator may set: environment and .env file
  FirstTables,     \* the table as an earlier version may have left it
  FirstRoles,      \* the roles before the first start
  SafeDatabase,    \* the name of the database is a safe identifier
  MayManageRoles,  \* the account of DATABASE_URL may create and alter roles
  ProbeTimeout,    \* the two seconds of Readyz, in ticks
  MaxTroubles      \* bound: outages, crashes and changes of the settings

ASSUME StartUpAssumption ==
  /\ FirstTables \subseteq Tables \cup {None}
  /\ FirstRoles \subseteq [RoleNames -> Roles \cup {NoRole}]
  /\ None \notin Tables /\ Broken \notin Tables \cup {None}
  /\ NoRole \notin Roles
  /\ Unset \notin RoleNames
  /\ SafeDatabase \in BOOLEAN /\ MayManageRoles \in BOOLEAN
  /\ ProbeTimeout \in Nat /\ MaxTroubles \in Nat
  /\ \A first \in FirstTables \ {None} :
       /\ "snapshot" \in DOMAIN first
       /\ {"comment_count", "danmaku_count"} \cap DOMAIN first # {}
  /\ \A s \in Settings :
       LET loaded == LoadConfig(s.environment, s.file)
           keys == Entries(Getenv(Environment(s.environment, s.file), "DANDANPLAY_KEYS"))
       IN \/ loaded = Rejected
          \/ /\ loaded.DatabaseReadOnlyPassword \in Passwords \cup {Unset}
             /\ keys \in Seq({keys[i] : i \in DOMAIN keys})

VARIABLES
  setting,     \* the settings of the container
  pc,          \* main: what it does next
  nth,         \* main: the script or the statement that is next
  Config,      \* the loaded configuration, Rejected before
  table,       \* danmaku_snapshots
  roles,       \* pg_roles
  redisUp,     \* Redis answers at the address that is configured
  postgresUp,  \* PostgreSQL does
  portFree,    \* no other program listens on the configured port
  troubles,    \* how many so far
  probe        \* a /readyz request

settings     == <<setting, troubles>>
main         == <<pc, nth, Config>>
database     == <<table, roles>>
dependencies == <<redisUp, postgresUp, portFree>>
vars         == <<settings, main, database, dependencies, probe>>

NoProbe == [ step |-> "idle", left |-> ProbeTimeout, heard |-> {}, status |-> 0 ]

Init ==
  /\ setting \in Settings
  /\ pc = "down" /\ nth = 1 /\ Config = Rejected
  /\ table \in FirstTables
  /\ roles \in FirstRoles
  /\ redisUp \in BOOLEAN /\ postgresUp \in BOOLEAN /\ portFree \in BOOLEAN
  /\ troubles = 0
  /\ probe = NoProbe

-----------------------------------------------------------------------------
(* The steps of main. *)

Goto(step) == pc' = step /\ nth' = 1 /\ UNCHANGED Config

\* The process ends, with all it had in memory.
End == pc' = "down" /\ nth' = 1 /\ Config' = Rejected /\ probe' = NoProbe

Boot ==
  /\ pc = "down"
  /\ Goto("loadConfig")
  /\ UNCHANGED <<settings, database, dependencies, probe>>

LoadSettings ==
  /\ pc = "loadConfig"
  /\ LET loaded == LoadConfig(setting.environment, setting.file)
     IN IF loaded = Rejected
          THEN End
          ELSE pc' = "initRedis" /\ nth' = 1 /\ Config' = loaded /\ UNCHANGED probe
  /\ UNCHANGED <<settings, database, dependencies>>

InitRedis ==
  /\ pc = "initRedis"
  /\ IF redisUp THEN Goto("openPostgres") /\ UNCHANGED probe ELSE End
  /\ UNCHANGED <<settings, database, dependencies>>

OpenPostgres ==
  /\ pc = "openPostgres"
  /\ IF Usable(Config.DatabaseURL) /\ postgresUp THEN Goto("migrate") /\ UNCHANGED probe ELSE End
  /\ UNCHANGED <<settings, database, dependencies>>

\* Fault variant: one statement too many.
FollowingOneMore(count, step) ==
  IF nth <= count THEN nth' = nth + 1 /\ UNCHANGED <<pc, Config>> ELSE Goto(step)

\* The next of count statements, then the step after them.
Following(count, step) ==
  IF nth < count THEN nth' = nth + 1 /\ UNCHANGED <<pc, Config>> ELSE Goto(step)

Migrate ==
  /\ pc = "migrate"
  /\ IF postgresUp /\ RunScript(nth, table) # Broken
       THEN table' = RunScript(nth, table) /\ Following(Scripts, "roleOptions") /\ UNCHANGED probe
       ELSE End /\ UNCHANGED table
  /\ UNCHANGED <<settings, roles, dependencies>>

User     == Config.DatabaseReadOnlyUser
Password == Config.DatabaseReadOnlyPassword

RoleOptions ==
  /\ pc = "roleOptions"
  /\ IF User = Unset /\ Password = Unset THEN Goto("listen") /\ UNCHANGED probe
     ELSE IF User \in RoleNames /\ Password # Unset THEN Goto("databaseName") /\ UNCHANGED probe
     ELSE End
  /\ UNCHANGED <<settings, database, dependencies>>

DatabaseName ==
  /\ pc = "databaseName"
  /\ IF postgresUp /\ SafeDatabase THEN Goto("quotePassword") /\ UNCHANGED probe ELSE End
  /\ UNCHANGED <<settings, database, dependencies>>

QuotePassword ==
  /\ pc = "quotePassword"
  /\ IF postgresUp THEN Goto("roleExists") /\ UNCHANGED probe ELSE End
  /\ UNCHANGED <<settings, database, dependencies>>

\* Fault variant: the account is made as on the first start.
RoleTakenAsNew ==
  /\ pc = "roleExists"
  /\ IF postgresUp THEN Goto("createRole") /\ UNCHANGED probe ELSE End
  /\ UNCHANGED <<settings, database, dependencies>>

RoleExists ==
  /\ pc = "roleExists"
  /\ IF postgresUp
       THEN Goto(IF roles[User] # NoRole THEN "alterRole" ELSE "createRole") /\ UNCHANGED probe
       ELSE End
  /\ UNCHANGED <<settings, database, dependencies>>

AlterRole ==
  /\ pc = "alterRole"
  /\ IF postgresUp /\ MayManageRoles /\ roles[User] # NoRole
       THEN roles' = [roles EXCEPT ![User] = AlteredRole(@, Password)]
            /\ Goto("grant") /\ UNCHANGED probe
       ELSE End /\ UNCHANGED roles
  /\ UNCHANGED <<settings, table, dependencies>>

CreateRole ==
  /\ pc = "createRole"
  /\ IF postgresUp /\ MayManageRoles /\ roles[User] = NoRole
       THEN roles' = [roles EXCEPT ![User] = CreatedRole(Password)]
            /\ Goto("grant") /\ UNCHANGED probe
       ELSE End /\ UNCHANGED roles
  /\ UNCHANGED <<settings, table, dependencies>>

Grant ==
  /\ pc = "grant"
  /\ IF postgresUp
       THEN roles' = [roles EXCEPT ![User].grants = Execute(nth, @)]
            /\ Following(Statements, "listen") /\ UNCHANGED probe
       ELSE End /\ UNCHANGED roles
  /\ UNCHANGED <<settings, table, dependencies>>

\* The services are built and the routes registered; r.Run returns at once if
\* it cannot listen, and if it returns later that is a Crash.
Listen ==
  /\ pc = "listen"
  /\ IF Usable(Config.ServerPort) /\ portFree THEN Goto("serving") /\ UNCHANGED probe ELSE End
  /\ UNCHANGED <<settings, database, dependencies>>

MainStep ==
  \/ Boot \/ LoadSettings \/ InitRedis \/ OpenPostgres \/ Migrate
  \/ RoleOptions \/ DatabaseName \/ QuotePassword \/ RoleExists
  \/ AlterRole \/ CreateRole \/ Grant \/ Listen

-----------------------------------------------------------------------------
(* Readyz: both checks within one timeout, whatever the first one finds. *)

Probing(step) == pc = "serving" /\ probe.step = step

ProbeStart ==
  /\ pc = "serving" /\ probe.step \in {"idle", "done"}
  /\ probe' = [ step |-> "redis", left |-> ProbeTimeout, heard |-> {}, status |-> 200 ]
  /\ UNCHANGED <<settings, main, database, dependencies>>

\* The dependency answers before the context ends.
CheckAnswered(name, up, step) ==
  /\ up
  /\ \E left \in 1 .. probe.left :
       probe' = [probe EXCEPT !.step = step, !.left = left, !.heard = @ \cup {name}]

\* Fault variant: the second check makes up for the first one.
LastOneCounts(up, step) ==
  \E left \in (IF up THEN {0} ELSE 0 .. probe.left) :
    probe' = [probe EXCEPT !.step = step, !.left = left,
                           !.status = IF step = "done" THEN 503 ELSE 200]

\* It refuses at some time, or the context ends before it answers.
CheckFailed(up, step) ==
  \E left \in (IF up THEN {0} ELSE 0 .. probe.left) :
    probe' = [probe EXCEPT !.step = step, !.left = left, !.status = 503]

ProbeRedis ==
  /\ Probing("redis")
  /\ CheckAnswered("redis", redisUp, "postgres") \/ CheckFailed(redisUp, "postgres")
  /\ UNCHANGED <<settings, main, database, dependencies>>

ProbePostgres ==
  /\ Probing("postgres")
  /\ CheckAnswered("postgres", postgresUp, "done") \/ CheckFailed(postgresUp, "done")
  /\ UNCHANGED <<settings, main, database, dependencies>>

-----------------------------------------------------------------------------
(* What may go wrong, MaxTroubles times. *)

Trouble == troubles < MaxTroubles /\ troubles' = troubles + 1

\* The process is killed or the host restarts, also between a statement and
\* the next one.
Crash ==
  /\ Trouble /\ pc # "down"
  /\ End
  /\ UNCHANGED <<setting, database, dependencies>>

\* The container is made anew with other settings.
Reconfigure ==
  /\ Trouble /\ pc = "down"
  /\ setting' \in Settings \ {setting}
  /\ UNCHANGED <<main, database, dependencies, probe>>

RedisFails ==
  /\ Trouble /\ redisUp
  /\ redisUp' = FALSE
  /\ UNCHANGED <<setting, main, database, postgresUp, portFree, probe>>

PostgresFails ==
  /\ Trouble /\ postgresUp
  /\ postgresUp' = FALSE
  /\ UNCHANGED <<setting, main, database, redisUp, portFree, probe>>

\* Another program takes the port, while it is not this one's.
PortTaken ==
  /\ Trouble /\ portFree /\ pc # "serving"
  /\ portFree' = FALSE
  /\ UNCHANGED <<setting, main, database, redisUp, postgresUp, probe>>

RedisRecovers ==
  /\ ~redisUp /\ redisUp' = TRUE
  /\ UNCHANGED <<settings, main, database, postgresUp, portFree, probe>>

PostgresRecovers ==
  /\ ~postgresUp /\ postgresUp' = TRUE
  /\ UNCHANGED <<settings, main, database, redisUp, portFree, probe>>

PortFreed ==
  /\ ~portFree /\ portFree' = TRUE
  /\ UNCHANGED <<settings, main, database, redisUp, postgresUp, probe>>

-----------------------------------------------------------------------------
Next ==
  \/ MainStep
  \/ ProbeStart \/ ProbeRedis \/ ProbePostgres
  \/ Crash \/ Reconfigure \/ RedisFails \/ PostgresFails \/ PortTaken
  \/ RedisRecovers \/ PostgresRecovers \/ PortFreed

Spec == Init /\ [][Next]_vars

\* Docker starts a process that ended (restart: unless-stopped), a running one
\* goes on, and what is down or taken comes back.
FairSpec ==
  /\ Spec /\ WF_vars(MainStep)
  /\ WF_vars(RedisRecovers) /\ WF_vars(PostgresRecovers) /\ WF_vars(PortFreed)
=============================================================================

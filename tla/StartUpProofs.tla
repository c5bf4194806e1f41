---------------------------- MODULE StartUpProofs ----------------------------
(***************************************************************************)
(* Start-up: proofs for any settings, any table and any roles that an      *)
(* earlier version or an operator may have left, and any number of crashes *)
(* and outages.                                                            *)
(*                                                                         *)
(* StartUpInv says what is done so far at each step of main: the           *)
(* configuration is that of the settings, the scripts before the next one  *)
(* have left their columns, the statements before the next one their       *)
(* grants.  A crash starts again at the first of them, so that nothing     *)
(* else has to be known of earlier lives.                                  *)
(***************************************************************************)
EXTENDS StartUpProperties, WellFoundedInduction, SequenceTheorems, TLAPS

-----------------------------------------------------------------------------
(* The scripts. *)

LEMMA TableIsFunction ==
  ASSUME NEW t \in Tables
  PROVE  /\ t = [column \in DOMAIN t |-> t[column]]
         /\ DOMAIN t \subseteq Columns
         /\ \A column \in DOMAIN t : t[column] \in Contents
BY DEF Tables

LEMMA FunctionIsTable ==
  ASSUME NEW names \in SUBSET Columns, NEW t \in [names -> Contents]
  PROVE  t \in Tables
BY DEF Tables

\* A table that some version of the program can have made.
Sound(t) ==
  t # None => /\ "snapshot" \in DOMAIN t
              /\ {"comment_count", "danmaku_count"} \cap DOMAIN t # {}

\* 001 makes a table if there is none, and touches no other.
LEMMA CreateTableMakes ==
  ASSUME NEW t \in Tables \cup {None}, Sound(t)
  PROVE  /\ CreateTable(t) \in Tables /\ Sound(CreateTable(t))
         /\ IF t = None
              THEN /\ DOMAIN CreateTable(t) = {"snapshot", "danmaku_count"}
                   /\ CreateTable(t)["danmaku_count"] = "default"
              ELSE CreateTable(t) = t
<1>1. CASE t = None
  <2> DEFINE new == [column \in {"snapshot", "danmaku_count"} |-> "default"]
  <2>1. {"snapshot", "danmaku_count"} \in SUBSET Columns
    BY DEF Columns
  <2>2. new \in Tables
    BY <2>1, FunctionIsTable DEF Contents
  <2>3. CreateTable(t) = new
    BY <1>1 DEF CreateTable
  <2>4. QED
    BY <1>1, <2>2, <2>3 DEF Sound
<1>2. CASE t # None
  BY <1>2 DEF CreateTable
<1>3. QED
  BY <1>1, <1>2

\* 002 leaves the counts of the rows under their new name.
LEMMA RenameKeepsCounts ==
  ASSUME NEW t \in Tables, Sound(t), t # None
  PROVE  LET renamed == RenameCommentCount(t)
         IN /\ renamed \in Tables /\ Sound(renamed)
            /\ "danmaku_count" \in DOMAIN renamed
            /\ "access_stats" \in DOMAIN renamed <=> "access_stats" \in DOMAIN t
            /\ IF "danmaku_count" \in DOMAIN t
                 THEN renamed = t
                 ELSE renamed["danmaku_count"] = t["comment_count"]
<1>1. CASE "danmaku_count" \in DOMAIN t
  BY <1>1 DEF RenameCommentCount
<1>2. CASE "danmaku_count" \notin DOMAIN t
  <2>1. "comment_count" \in DOMAIN t /\ "snapshot" \in DOMAIN t
    BY <1>2 DEF Sound
  <2> DEFINE names == (DOMAIN t \ {"comment_count"}) \cup {"danmaku_count"}
             renamed == [column \in names |->
                           IF column = "danmaku_count" THEN t["comment_count"] ELSE t[column]]
  <2>2. RenameCommentCount(t) = renamed
    BY <1>2, <2>1 DEF RenameCommentCount, Renamed
  <2>3. names \in SUBSET Columns
    BY TableIsFunction DEF Columns
  <2>4. renamed \in [names -> Contents]
    BY <2>1, TableIsFunction
  <2>5. renamed \in Tables
    BY <2>3, <2>4, FunctionIsTable
  <2>6. /\ DOMAIN renamed = names
        /\ renamed["danmaku_count"] = t["comment_count"]
    OBVIOUS
  <2>7. QED
    BY <1>2, <2>1, <2>2, <2>5, <2>6 DEF Sound
<1>3. QED
  BY <1>1, <1>2

\* 003 adds what is missing.
LEMMA AccessStatsAdded ==
  ASSUME NEW t \in Tables, Sound(t), t # None
  PROVE  LET added == AddAccessStats(t)
         IN /\ added \in Tables /\ Sound(added)
            /\ DOMAIN added = DOMAIN t \cup {"access_stats"}
            /\ \A column \in DOMAIN t : added[column] = t[column]
<1> DEFINE names == DOMAIN t \cup {"access_stats"}
           added == [column \in names |-> IF column \in DOMAIN t THEN t[column] ELSE "default"]
<1>1. AddAccessStats(t) = added
  BY DEF AddAccessStats
<1>2. names \in SUBSET Columns
  BY TableIsFunction DEF Columns
<1>3. added \in [names -> Contents]
  BY TableIsFunction DEF Contents
<1>4. added \in Tables
  BY <1>2, <1>3, FunctionIsTable
<1>5. QED
  BY <1>1, <1>4 DEF Sound

-----------------------------------------------------------------------------
(* What is done so far. *)

Running       == MainSteps \ {"down", "loadConfig"}
AfterMigrate  == Running \ {"initRedis", "openPostgres", "migrate"}
AfterAccount  == {"listen", "serving"}

ConfigIsLoaded ==
  pc \in Running =>
    /\ Config = LoadConfig(setting.environment, setting.file)
    /\ Config # Rejected

SchemaSoFar ==
  /\ Sound(table)
  /\ pc = "migrate" /\ nth > 1 => table # None
  /\ pc = "migrate" /\ nth > 2 => HasColumns({"danmaku_count"})
  /\ pc \in AfterMigrate => HasColumns({"danmaku_count", "access_stats"})

\* The grants of the statements before the n-th.
GrantedBefore(n) ==
  { g \in ReadGrants : \/ g = "connect" /\ n > 1
                       \/ g = "usage" /\ n > 2
                       \/ g = "select" /\ n > 4
                       \/ g = "future" /\ n > 5 }

AccountSoFar ==
  /\ pc = "grant" =>
       /\ roles[User] # NoRole
       /\ roles[User].password = Password
       /\ roles[User].superuser = FALSE
       /\ GrantedBefore(nth) \subseteq roles[User].grants
       /\ nth > 3 => "create" \notin roles[User].grants
  /\ pc \in AfterAccount =>
       \/ User = Unset /\ Password = Unset
       \/ User \in RoleNames /\ ReadOnly(roles[User], Password)

\* What RoleExists found is so still when the next statement relies on it.
RoleSeen ==
  /\ pc = "alterRole" => roles[User] # NoRole
  /\ pc = "createRole" => roles[User] = NoRole

ProbeSoFar ==
  /\ probe.step = "redis" => probe.heard = {} /\ probe.status = 200
  /\ probe.step = "postgres" =>
       /\ probe.heard \subseteq {"redis"}
       /\ probe.status = 200 <=> probe.heard = {"redis"}
  /\ ReadyIsTrue

StartUpInv ==
  TypeOK /\ ConfigIsLoaded /\ SchemaSoFar /\ RoleSeen /\ AccountSoFar /\ ProbeSoFar

LEMMA InitInv == Init => StartUpInv
<1> SUFFICES ASSUME Init PROVE StartUpInv
  OBVIOUS
<1> USE StartUpAssumption DEF Init
<1>1. TypeOK
  BY DEF TypeOK, MainSteps, RoleSteps, NoProbe, Statements
<1>2. ConfigIsLoaded /\ RoleSeen /\ AccountSoFar
  BY DEF ConfigIsLoaded, RoleSeen, AccountSoFar, Running, AfterAccount
<1>3. SchemaSoFar
  BY DEF SchemaSoFar, Sound, Running, AfterMigrate
<1>4. ProbeSoFar
  BY DEF ProbeSoFar, ReadyIsTrue, NoProbe
<1>5. QED
  BY <1>1, <1>2, <1>3, <1>4 DEF StartUpInv

-----------------------------------------------------------------------------
(* Types. *)

MainTyped ==
  /\ setting \in Settings
  /\ pc \in MainSteps
  /\ nth \in 1 .. Statements
  /\ pc = "migrate" => nth <= Scripts
  /\ pc \in Running => Config # Rejected
  /\ pc \in RoleSteps => User \in RoleNames /\ Password \in Passwords

DataTyped ==
  /\ table \in Tables \cup {None}
  /\ roles \in [RoleNames -> Roles \cup {NoRole}]

Probes ==
  [ step : {"idle", "redis", "postgres", "done"}, left : 0 .. ProbeTimeout,
    heard : SUBSET {"redis", "postgres"}, status : {0, 200, 503} ]

OutsideTyped ==
  /\ redisUp \in BOOLEAN /\ postgresUp \in BOOLEAN /\ portFree \in BOOLEAN
  /\ troubles \in 0 .. MaxTroubles
  /\ probe \in Probes

LEMMA TypeParts == TypeOK <=> MainTyped /\ DataTyped /\ OutsideTyped
<1>1. \A step \in MainSteps : step \in Running <=> step \notin {"down", "loadConfig"}
  BY DEF Running
<1>2. QED
  BY <1>1 DEF TypeOK, MainTyped, DataTyped, OutsideTyped, Probes

\* main goes on to another step, or ends.
LEMMA GotoTyped ==
  ASSUME MainTyped, NEW step \in MainSteps, Goto(step), setting' = setting,
         step \in Running => Config # Rejected,
         step \in RoleSteps => User \in RoleNames /\ Password \in Passwords
  PROVE  MainTyped'
<1>1. pc' = step /\ nth' = 1 /\ Config' = Config
  BY DEF Goto
<1>2. 1 \in 1 .. Statements /\ 1 <= Scripts
  BY DEF Statements, Scripts
<1>3. QED
  BY <1>1, <1>2 DEF MainTyped, User, Password

LEMMA EndTyped ==
  ASSUME End, setting' \in Settings
  PROVE  MainTyped' /\ probe' \in Probes
<1>1. pc' = "down" /\ nth' = 1 /\ probe' = NoProbe
  BY DEF End
<1>2. MainTyped'
  BY <1>1 DEF MainTyped, MainSteps, Running, RoleSteps, Statements
<1>3. NoProbe \in Probes
  BY StartUpAssumption DEF NoProbe, Probes
<1>4. QED
  BY <1>1, <1>2, <1>3

LEMMA FollowingTyped ==
  ASSUME MainTyped, NEW count \in 1 .. Statements, NEW step \in AfterAccount \cup {"roleOptions"},
         Following(count, step), setting' = setting, pc \in {"migrate", "grant"},
         pc = "migrate" => count = Scripts
  PROVE  MainTyped'
<1>1. Config # Rejected
  BY DEF MainTyped, Running, MainSteps
<1>2. CASE nth < count
  <2>1. nth' = nth + 1 /\ pc' = pc /\ Config' = Config
    BY <1>2 DEF Following
  <2>2. nth' \in 1 .. Statements /\ (pc = "migrate" => nth' <= Scripts)
    BY <1>2, <2>1 DEF MainTyped, Statements
  <2>3. QED
    BY <2>1, <2>2 DEF MainTyped, User, Password
<1>3. CASE ~(nth < count)
  <2>1. Goto(step) /\ step \in MainSteps /\ step \notin RoleSteps
    BY <1>3 DEF Following, MainSteps, RoleSteps, AfterAccount
  <2>2. QED
    BY <1>1, <2>1, GotoTyped
<1>4. QED
  BY <1>2, <1>3

LEMMA MainTypesKept ==
  ASSUME StartUpInv, Next
  PROVE  MainTyped' /\ probe' \in Probes
<1>1. MainTyped /\ OutsideTyped /\ setting \in Settings /\ probe \in Probes
  BY TypeParts DEF StartUpInv, MainTyped, OutsideTyped
<1>2. CASE Boot
  <2>1. Goto("loadConfig") /\ setting' = setting /\ probe' = probe
    BY <1>2 DEF Boot, settings
  <2>2. "loadConfig" \in MainSteps /\ "loadConfig" \notin Running \cup RoleSteps
    BY DEF MainSteps, Running, RoleSteps
  <2>3. QED
    BY <1>1, <2>1, <2>2, GotoTyped
<1>3. CASE LoadSettings
  <2>1. setting' = setting
    BY <1>3 DEF LoadSettings, settings
  <2>2. CASE End
    BY <1>1, <2>1, <2>2, EndTyped
  <2>3. CASE ~End
    <3>1. /\ pc' = "initRedis" /\ nth' = 1 /\ probe' = probe
          /\ Config' # Rejected
      BY <1>3, <2>3 DEF LoadSettings
    <3>2. QED
      BY <1>1, <2>1, <3>1 DEF MainTyped, MainSteps, RoleSteps, Statements
  <2>4. QED
    BY <2>2, <2>3
\* A call that fails ends the process; one that succeeds leads to a later step.
<1>4. ASSUME setting' = setting, pc \in Running,
             NEW step \in Running \ RoleSteps, End \/ (Goto(step) /\ probe' = probe)
      PROVE  MainTyped' /\ probe' \in Probes
  <2>1. Config # Rejected /\ step \in MainSteps
    BY <1>1, <1>4 DEF MainTyped, Running
  <2>2. QED
    BY <1>1, <1>4, <2>1, EndTyped, GotoTyped
<1>5. ASSUME setting' = setting, pc \in RoleSteps,
             NEW step \in RoleSteps, End \/ (Goto(step) /\ probe' = probe)
      PROVE  MainTyped' /\ probe' \in Probes
  <2>1. /\ Config # Rejected /\ step \in MainSteps
        /\ User \in RoleNames /\ Password \in Passwords
    BY <1>1, <1>5 DEF MainTyped, Running, RoleSteps, MainSteps
  <2>2. QED
    BY <1>1, <1>5, <2>1, EndTyped, GotoTyped
<1>6. CASE InitRedis
  <2>1. /\ setting' = setting /\ pc = "initRedis"
        /\ End \/ (Goto("openPostgres") /\ probe' = probe)
    BY <1>6 DEF InitRedis, settings
  <2>2. QED
    BY <1>4, <2>1 DEF Running, MainSteps, RoleSteps
<1>7. CASE OpenPostgres
  <2>1. /\ setting' = setting /\ pc = "openPostgres"
        /\ End \/ (Goto("migrate") /\ probe' = probe)
    BY <1>7 DEF OpenPostgres, settings
  <2>2. QED
    BY <1>4, <2>1 DEF Running, MainSteps, RoleSteps
<1>8. CASE Migrate
  <2>1. setting' = setting /\ pc = "migrate" /\ Scripts \in 1 .. Statements
    BY <1>8 DEF Migrate, settings, Scripts, Statements
  <2>2. CASE End
    BY <1>1, <2>1, <2>2, EndTyped
  <2>3. CASE ~End
    <3>1. Following(Scripts, "roleOptions") /\ probe' = probe
      BY <1>8, <2>3 DEF Migrate
    <3>2. QED
      BY <1>1, <2>1, <3>1, FollowingTyped
  <2>4. QED
    BY <2>2, <2>3
<1>9. CASE RoleOptions
  <2>1. setting' = setting /\ pc = "roleOptions" /\ pc \in Running
    BY <1>9 DEF RoleOptions, settings, Running, MainSteps
  <2>2. CASE End \/ (Goto("listen") /\ probe' = probe)
    BY <1>4, <2>1, <2>2 DEF Running, MainSteps, RoleSteps
  <2>3. CASE ~End /\ ~Goto("listen")
    <3>1. Goto("databaseName") /\ probe' = probe /\ User \in RoleNames /\ Password # Unset
      BY <1>9, <2>3 DEF RoleOptions
    <3>2. Password \in Passwords \cup {Unset}
      <4>1. Config = LoadConfig(setting.environment, setting.file) /\ Config # Rejected
        BY <2>1 DEF StartUpInv, ConfigIsLoaded
      <4>2. QED
        BY <1>1, <4>1, StartUpAssumption DEF Password
    <3>3. Config # Rejected /\ "databaseName" \in MainSteps
      BY <1>1, <2>1 DEF MainTyped, MainSteps
    <3>4. QED
      BY <1>1, <2>1, <3>1, <3>2, <3>3, GotoTyped
  <2>4. QED
    BY <1>9, <2>2, <2>3 DEF RoleOptions
<1>10. CASE DatabaseName
  <2>1. /\ setting' = setting /\ pc = "databaseName"
        /\ End \/ (Goto("quotePassword") /\ probe' = probe)
    BY <1>10 DEF DatabaseName, settings
  <2>2. QED
    BY <1>5, <2>1 DEF RoleSteps
<1>11. CASE QuotePassword
  <2>1. /\ setting' = setting /\ pc = "quotePassword"
        /\ End \/ (Goto("roleExists") /\ probe' = probe)
    BY <1>11 DEF QuotePassword, settings
  <2>2. QED
    BY <1>5, <2>1 DEF RoleSteps
<1>12. CASE RoleExists
  <2>1. /\ setting' = setting /\ pc = "roleExists"
        /\ \/ End
           \/ Goto("alterRole") /\ probe' = probe
           \/ Goto("createRole") /\ probe' = probe
    BY <1>12 DEF RoleExists, settings
  <2>2. QED
    BY <1>5, <2>1 DEF RoleSteps
<1>13. CASE AlterRole
  <2>1. /\ setting' = setting /\ pc = "alterRole"
        /\ End \/ (Goto("grant") /\ probe' = probe)
    BY <1>13 DEF AlterRole, settings
  <2>2. QED
    BY <1>5, <2>1 DEF RoleSteps
<1>14. CASE CreateRole
  <2>1. /\ setting' = setting /\ pc = "createRole"
        /\ End \/ (Goto("grant") /\ probe' = probe)
    BY <1>14 DEF CreateRole, settings
  <2>2. QED
    BY <1>5, <2>1 DEF RoleSteps
<1>15. CASE Grant
  <2>1. /\ setting' = setting /\ pc = "grant" /\ Statements \in 1 .. Statements
        /\ "listen" \in AfterAccount
    BY <1>15 DEF Grant, settings, Statements, AfterAccount
  <2>2. CASE End
    BY <1>1, <2>1, <2>2, EndTyped
  <2>3. CASE ~End
    <3>1. Following(Statements, "listen") /\ probe' = probe
      BY <1>15, <2>3 DEF Grant
    <3>2. QED
      BY <1>1, <2>1, <3>1, FollowingTyped
  <2>4. QED
    BY <2>2, <2>3
<1>16. CASE Listen
  <2>1. /\ setting' = setting /\ pc = "listen"
        /\ End \/ (Goto("serving") /\ probe' = probe)
    BY <1>16 DEF Listen, settings
  <2>2. QED
    BY <1>4, <2>1 DEF Running, MainSteps, RoleSteps
<1>17. CASE Crash
  BY <1>1, <1>17, EndTyped DEF Crash
\* The other steps leave main alone.
<1>18. ASSUME setting' \in Settings, UNCHANGED main
       PROVE  MainTyped'
  BY <1>1, <1>18 DEF MainTyped, User, Password, main
<1>19. CASE ProbeStart
  <2>1. probe' \in Probes
    BY <1>19, StartUpAssumption DEF ProbeStart, Probes
  <2>2. QED
    BY <1>1, <1>18, <1>19, <2>1 DEF ProbeStart, settings
<1>20. ASSUME NEW name \in {"redis", "postgres"}, NEW up, NEW step \in {"postgres", "done"},
              CheckAnswered(name, up, step) \/ CheckFailed(up, step)
       PROVE  probe' \in Probes
  <2>1. /\ probe.heard \in SUBSET {"redis", "postgres"} /\ probe.status \in {0, 200, 503}
        /\ probe = [step |-> probe.step, left |-> probe.left, heard |-> probe.heard,
                     status |-> probe.status]
        /\ probe.left \in 0 .. ProbeTimeout /\ ProbeTimeout \in Nat
    BY <1>1, StartUpAssumption DEF Probes
  <2>2. 1 .. probe.left \subseteq 0 .. ProbeTimeout /\ 0 .. probe.left \subseteq 0 .. ProbeTimeout
        /\ 0 \in 0 .. ProbeTimeout
    BY <2>1
  <2>3. CASE CheckAnswered(name, up, step)
    <3>1. PICK left \in 0 .. ProbeTimeout :
            probe' = [probe EXCEPT !.step = step, !.left = left, !.heard = @ \cup {name}]
      BY <2>2, <2>3 DEF CheckAnswered
    <3>2. probe' = [step |-> step, left |-> left, heard |-> probe.heard \cup {name},
                    status |-> probe.status]
      BY <2>1, <3>1
    <3>3. probe.heard \cup {name} \in SUBSET {"redis", "postgres"}
      BY <2>1
    <3>4. QED
      BY <2>1, <3>2, <3>3 DEF Probes
  <2>4. CASE CheckFailed(up, step)
    <3>1. PICK left \in 0 .. ProbeTimeout :
            probe' = [probe EXCEPT !.step = step, !.left = left, !.status = 503]
      BY <2>2, <2>4 DEF CheckFailed
    <3>2. probe' = [step |-> step, left |-> left, heard |-> probe.heard, status |-> 503]
      BY <2>1, <3>1
    <3>3. QED
      BY <2>1, <3>2 DEF Probes
  <2>5. QED
    BY <1>20, <2>3, <2>4
<1>21. CASE ProbeRedis
  BY <1>1, <1>18, <1>20, <1>21 DEF ProbeRedis, settings
<1>22. CASE ProbePostgres
  BY <1>1, <1>18, <1>20, <1>22 DEF ProbePostgres, settings
<1>23. CASE Reconfigure
  BY <1>1, <1>18, <1>23 DEF Reconfigure
<1>24. CASE RedisFails \/ PostgresFails \/ PortTaken
  BY <1>1, <1>18, <1>24 DEF RedisFails, PostgresFails, PortTaken
<1>25. CASE RedisRecovers \/ PostgresRecovers \/ PortFreed
  BY <1>1, <1>18, <1>25 DEF RedisRecovers, PostgresRecovers, PortFreed, settings
<1>26. QED
  BY <1>2, <1>3, <1>6, <1>7, <1>8, <1>9, <1>10, <1>11, <1>12, <1>13, <1>14, <1>15, <1>16,
     <1>17, <1>19, <1>21, <1>22, <1>23, <1>24, <1>25 DEF Next, MainStep

LEMMA OutsideTypesKept ==
  ASSUME StartUpInv, Next
  PROVE  OutsideTyped'
<1>1. OutsideTyped /\ probe' \in Probes
  BY TypeParts, MainTypesKept DEF StartUpInv
<1>2. troubles' \in 0 .. MaxTroubles
  <2>1. CASE Trouble
    BY <1>1, <2>1, StartUpAssumption DEF Trouble, OutsideTyped
  <2>2. CASE ~Trouble
    <3>1. troubles' = troubles
      BY <2>2 DEF Next, MainStep, Boot, LoadSettings, InitRedis, OpenPostgres, Migrate,
                  RoleOptions, DatabaseName, QuotePassword, RoleExists, AlterRole, CreateRole,
                  Grant, Listen, ProbeStart, ProbeRedis, ProbePostgres, Crash, Reconfigure,
                  RedisFails, PostgresFails, PortTaken, RedisRecovers, PostgresRecovers, PortFreed,
                  settings
    <3>2. QED
      BY <1>1, <3>1 DEF OutsideTyped
  <2>3. QED
    BY <2>1, <2>2
<1>3. redisUp' \in BOOLEAN /\ postgresUp' \in BOOLEAN /\ portFree' \in BOOLEAN
  <2>1. \/ UNCHANGED dependencies
        \/ RedisFails \/ PostgresFails \/ PortTaken
        \/ RedisRecovers \/ PostgresRecovers \/ PortFreed
    BY DEF Next, MainStep, Boot, LoadSettings, InitRedis, OpenPostgres, Migrate,
           RoleOptions, DatabaseName, QuotePassword, RoleExists, AlterRole, CreateRole,
           Grant, Listen, ProbeStart, ProbeRedis, ProbePostgres, Crash, Reconfigure
  <2>2. QED
    BY <1>1, <2>1 DEF dependencies, OutsideTyped, RedisFails, PostgresFails, PortTaken,
                      RedisRecovers, PostgresRecovers, PortFreed
<1>4. QED
  BY <1>1, <1>2, <1>3 DEF OutsideTyped

-----------------------------------------------------------------------------
(* The schema. *)

\* Only Migrate comes to the steps after it, and only it touches the table.
LEMMA MigrateOnly ==
  ASSUME StartUpInv, Next, ~Migrate
  PROVE  /\ table' = table
         /\ pc' = "migrate" => nth' = 1 \/ UNCHANGED <<pc, nth>>
         /\ pc' \in AfterMigrate => pc \in AfterMigrate
<1> USE DEF AfterMigrate, Running, MainSteps
<1>1. CASE Boot
  BY <1>1 DEF Boot, Goto, database
<1>2. CASE LoadSettings
  BY <1>2 DEF LoadSettings, End, database
<1>3. CASE InitRedis \/ OpenPostgres
  BY <1>3 DEF InitRedis, OpenPostgres, Goto, End, database
<1>4. CASE RoleOptions
  BY <1>4 DEF RoleOptions, Goto, End, database
<1>5. CASE DatabaseName \/ QuotePassword \/ RoleExists
  <2>1. pc \in {"databaseName", "quotePassword", "roleExists"} /\ table' = table
    BY <1>5 DEF DatabaseName, QuotePassword, RoleExists, database
  <2>2. End \/ \E step \in MainSteps : step # "migrate" /\ Goto(step)
    BY <1>5 DEF DatabaseName, QuotePassword, RoleExists
  <2>3. QED
    BY <2>1, <2>2 DEF Goto, End
<1>6. CASE AlterRole \/ CreateRole
  BY <1>6 DEF AlterRole, CreateRole, Goto, End
<1>7. CASE Grant
  BY <1>7 DEF Grant, Following, Goto, End
<1>8. CASE Listen
  BY <1>8 DEF Listen, Goto, End, database
<1>9. CASE ProbeStart \/ ProbeRedis \/ ProbePostgres
  BY <1>9 DEF ProbeStart, ProbeRedis, ProbePostgres, main, database
<1>10. CASE Crash
  BY <1>10 DEF Crash, End, database
<1>11. CASE \/ Reconfigure \/ RedisFails \/ PostgresFails \/ PortTaken
            \/ RedisRecovers \/ PostgresRecovers \/ PortFreed
  BY <1>11 DEF Reconfigure, RedisFails, PostgresFails, PortTaken, RedisRecovers,
               PostgresRecovers, PortFreed, main, database
<1>12. QED
  BY <1>1, <1>2, <1>3, <1>4, <1>5, <1>6, <1>7, <1>8, <1>9, <1>10, <1>11 DEF Next, MainStep

\* The scripts do what the later ones and the program need.
LEMMA SchemaKept ==
  ASSUME StartUpInv, Next
  PROVE  SchemaSoFar' /\ table' \in Tables \cup {None}
<1>1. SchemaSoFar /\ table \in Tables \cup {None} /\ Sound(table) /\ nth \in 1 .. Statements
  BY DEF StartUpInv, TypeOK, SchemaSoFar
<1>2. CASE ~Migrate
  BY <1>1, <1>2, MigrateOnly DEF SchemaSoFar, Sound, HasColumns
<1>3. CASE Migrate /\ table' = table /\ End
  BY <1>1, <1>3 DEF End, SchemaSoFar, Sound, AfterMigrate, Running, MainSteps
<1>4. CASE Migrate /\ ~(table' = table /\ End)
  <2>1. /\ pc = "migrate" /\ table' = RunScript(nth, table)
        /\ Following(Scripts, "roleOptions") /\ nth \in 1 .. Scripts
    BY <1>1, <1>4 DEF Migrate, StartUpInv, TypeOK, Scripts, Statements
  <2>2. CASE nth = 1
    <3>1. table' = CreateTable(table) /\ pc' = "migrate" /\ nth' = 2
      BY <2>1, <2>2 DEF RunScript, Following, Scripts
    <3>2. table' \in Tables /\ Sound(table')
      BY <1>1, <3>1, CreateTableMakes
    <3>3. QED
      BY <3>1, <3>2, StartUpAssumption DEF SchemaSoFar, Sound, AfterMigrate, Running
  <2>3. CASE nth = 2
    <3>1. table' = RenameCommentCount(table) /\ pc' = "migrate" /\ nth' = 3
      BY <2>1, <2>3 DEF RunScript, Following, Scripts
    <3>2. table # None
      BY <1>1, <2>1, <2>3 DEF SchemaSoFar
    <3>3. table' \in Tables /\ Sound(table') /\ "danmaku_count" \in DOMAIN table'
      BY <1>1, <3>1, <3>2, RenameKeepsCounts
    <3>4. QED
      BY <3>1, <3>3, StartUpAssumption DEF SchemaSoFar, Sound, HasColumns, AfterMigrate, Running
  <2>4. CASE nth = 3
    <3>1. table' = AddAccessStats(table) /\ pc' = "roleOptions"
      BY <2>1, <2>4 DEF RunScript, Following, Scripts, Goto
    <3>2. table # None /\ "danmaku_count" \in DOMAIN table
      BY <1>1, <2>1, <2>4 DEF SchemaSoFar, HasColumns
    <3>3. /\ table' \in Tables /\ Sound(table')
          /\ "danmaku_count" \in DOMAIN table' /\ "access_stats" \in DOMAIN table'
      BY <1>1, <3>1, <3>2, AccessStatsAdded
    <3>4. QED
      BY <3>1, <3>3, StartUpAssumption DEF SchemaSoFar, Sound, HasColumns, AfterMigrate, Running
  <2>5. QED
    BY <2>1, <2>2, <2>3, <2>4 DEF Scripts
<1>5. QED
  BY <1>2, <1>3, <1>4

-----------------------------------------------------------------------------
(* The configuration and the account. *)

\* The settings change only while no process runs.
LEMMA ConfigKept ==
  ASSUME StartUpInv, Next
  PROVE  ConfigIsLoaded'
<1> USE DEF Running, MainSteps
<1>1. CASE LoadSettings
  BY <1>1 DEF LoadSettings, ConfigIsLoaded, End, settings
<1>2. CASE Reconfigure
  BY <1>2 DEF Reconfigure, ConfigIsLoaded, main
<1>3. CASE ~LoadSettings /\ ~Reconfigure
  <2>1. setting' = setting
    BY <1>3 DEF Next, MainStep, Boot, InitRedis, OpenPostgres, Migrate, RoleOptions,
                DatabaseName, QuotePassword, RoleExists, AlterRole, CreateRole, Grant, Listen,
                ProbeStart, ProbeRedis, ProbePostgres, Crash, RedisFails, PostgresFails,
                PortTaken, RedisRecovers, PostgresRecovers, PortFreed, settings
  <2>2. \/ pc' \notin Running
        \/ pc \in Running /\ Config' = Config
    BY <1>3 DEF Next, MainStep, Boot, InitRedis, OpenPostgres, Migrate, RoleOptions,
                DatabaseName, QuotePassword, RoleExists, AlterRole, CreateRole, Grant, Listen,
                ProbeStart, ProbeRedis, ProbePostgres, Crash, RedisFails, PostgresFails,
                PortTaken, RedisRecovers, PostgresRecovers, PortFreed, Goto, End, Following, main
  <2>3. QED
    BY <2>1, <2>2 DEF StartUpInv, ConfigIsLoaded
<1>4. QED
  BY <1>1, <1>2, <1>3

\* Statement n adds its grant to those before it; the third takes create away
\* and none gives it back.
LEMMA StatementAddsGrant ==
  ASSUME NEW n \in 1 .. Statements, NEW grants \in SUBSET Grants,
         GrantedBefore(n) \subseteq grants, n > 3 => "create" \notin grants
  PROVE  /\ Execute(n, grants) \in SUBSET Grants
         /\ GrantedBefore(n + 1) \subseteq Execute(n, grants)
         /\ n + 1 > 3 => "create" \notin Execute(n, grants)
<1>1. n \in {1, 2, 3, 4, 5}
  BY DEF Statements
<1>2. CASE n = 1
  BY <1>2 DEF Execute, GrantedBefore, ReadGrants, Grants
<1>3. CASE n = 2
  BY <1>3 DEF Execute, GrantedBefore, ReadGrants, Grants
<1>4. CASE n = 3
  BY <1>4 DEF Execute, GrantedBefore, ReadGrants, Grants
<1>5. CASE n = 4
  BY <1>5 DEF Execute, GrantedBefore, ReadGrants, Grants
<1>6. CASE n = 5
  BY <1>6 DEF Execute, GrantedBefore, ReadGrants, Grants
<1>7. QED
  BY <1>1, <1>2, <1>3, <1>4, <1>5, <1>6

\* After the last statement the account has what it is for.
LEMMA AllGranted ==
  ASSUME NEW grants \in SUBSET Grants, GrantedBefore(6) \subseteq grants, "create" \notin grants
  PROVE  grants = ReadGrants
<1>1. ReadGrants = {"connect", "usage", "select", "future"}
  BY DEF ReadGrants, Grants
<1>2. ReadGrants \subseteq GrantedBefore(6)
  BY <1>1 DEF GrantedBefore
<1>3. grants \subseteq ReadGrants
  BY DEF ReadGrants
<1>4. QED
  BY <1>2, <1>3

\* Only the statements about the account come to what follows them, but for a
\* process that is to have none, and only they touch the roles.
LEMMA AccountOnly ==
  ASSUME StartUpInv, Next, ~AlterRole, ~CreateRole, ~Grant, ~RoleOptions
  PROVE  /\ roles' = roles
         /\ pc' = "grant" => UNCHANGED <<pc, nth, Config>>
         /\ pc' \in AfterAccount => pc \in AfterAccount /\ Config' = Config
<1> USE DEF AfterAccount
<1>1. CASE Boot
  BY <1>1 DEF Boot, Goto, database
<1>2. CASE LoadSettings
  BY <1>2 DEF LoadSettings, End, database
<1>3. CASE InitRedis \/ OpenPostgres
  BY <1>3 DEF InitRedis, OpenPostgres, Goto, End, database
<1>4. CASE Migrate
  BY <1>4 DEF Migrate, Following, Goto, End
<1>5. CASE DatabaseName \/ QuotePassword \/ RoleExists
  <2>1. roles' = roles
    BY <1>5 DEF DatabaseName, QuotePassword, RoleExists, database
  <2>2. End \/ \E step \in {"quotePassword", "roleExists", "alterRole", "createRole"} : Goto(step)
    BY <1>5 DEF DatabaseName, QuotePassword, RoleExists
  <2>3. QED
    BY <2>1, <2>2 DEF Goto, End
<1>6. CASE Listen
  BY <1>6 DEF Listen, Goto, End, database
<1>7. CASE ProbeStart \/ ProbeRedis \/ ProbePostgres
  BY <1>7 DEF ProbeStart, ProbeRedis, ProbePostgres, main, database
<1>8. CASE Crash
  BY <1>8 DEF Crash, End, database
<1>9. CASE \/ Reconfigure \/ RedisFails \/ PostgresFails \/ PortTaken
           \/ RedisRecovers \/ PostgresRecovers \/ PortFreed
  BY <1>9 DEF Reconfigure, RedisFails, PostgresFails, PortTaken, RedisRecovers,
              PostgresRecovers, PortFreed, main, database
<1>10. QED
  BY <1>1, <1>2, <1>3, <1>4, <1>5, <1>6, <1>7, <1>8, <1>9 DEF Next, MainStep

\* An account on the way to its grants.
LEMMA OnTheWay ==
  ASSUME pc' = "grant", NEW role \in Roles, roles'[User'] = role, role.password = Password',
         role.superuser = FALSE, GrantedBefore(nth') \subseteq role.grants,
         nth' > 3 => "create" \notin role.grants
  PROVE  AccountSoFar'
<1>1. role # NoRole
  BY StartUpAssumption
<1>2. QED
  BY <1>1 DEF AccountSoFar, AfterAccount

LEMMA NewRole ==
  ASSUME NEW password \in Passwords
  PROVE  /\ CreatedRole(password) \in Roles
         /\ CreatedRole(password).password = password
         /\ CreatedRole(password).superuser = FALSE
         /\ \A role \in Roles : /\ AlteredRole(role, password) \in Roles
                                /\ AlteredRole(role, password).password = password
                                /\ AlteredRole(role, password).superuser = FALSE
<1>1. /\ CreatedRole(password) \in Roles
      /\ CreatedRole(password).password = password
      /\ CreatedRole(password).superuser = FALSE
  BY DEF CreatedRole, Roles
<1>2. ASSUME NEW role \in Roles
      PROVE  /\ AlteredRole(role, password) \in Roles
             /\ AlteredRole(role, password).password = password
             /\ AlteredRole(role, password).superuser = FALSE
  BY DEF AlteredRole, Roles
<1>3. QED
  BY <1>1, <1>2

LEMMA RoleSeenKept ==
  ASSUME StartUpInv, Next
  PROVE  RoleSeen'
<1>1. CASE RoleExists
  BY <1>1 DEF RoleExists, RoleSeen, Goto, End, User, database
<1>2. CASE ~RoleExists
  <2>1. pc' \in {"alterRole", "createRole"} => UNCHANGED <<pc, roles, Config>>
    BY <1>2 DEF Next, MainStep, Boot, LoadSettings, InitRedis, OpenPostgres, Migrate,
                RoleOptions, DatabaseName, QuotePassword, AlterRole, CreateRole, Grant, Listen,
                ProbeStart, ProbeRedis, ProbePostgres, Crash, Reconfigure, RedisFails,
                PostgresFails, PortTaken, RedisRecovers, PostgresRecovers, PortFreed, Goto, End,
                Following, main, database
  <2>2. QED
    BY <2>1 DEF StartUpInv, RoleSeen, User
<1>3. QED
  BY <1>1, <1>2

LEMMA AccountKept ==
  ASSUME StartUpInv, Next
  PROVE  AccountSoFar' /\ roles' \in [RoleNames -> Roles \cup {NoRole}]
<1>1. AccountSoFar /\ roles \in [RoleNames -> Roles \cup {NoRole}] /\ nth \in 1 .. Statements
  BY DEF StartUpInv, TypeOK
<1>2. pc \in RoleSteps => User \in RoleNames /\ Password \in Passwords
  BY DEF StartUpInv, TypeOK
<1>3. ASSUME End, roles' = roles
      PROVE  AccountSoFar' /\ roles' \in [RoleNames -> Roles \cup {NoRole}]
  BY <1>1, <1>3 DEF End, AccountSoFar, AfterAccount
<1>4. CASE ~AlterRole /\ ~CreateRole /\ ~Grant /\ ~RoleOptions
  BY <1>1, <1>4, AccountOnly DEF AccountSoFar, User, Password
<1>5. CASE RoleOptions
  BY <1>1, <1>3, <1>5 DEF RoleOptions, Goto, AccountSoFar, AfterAccount, User, Password, database
<1>6. CASE AlterRole
  <2>1. CASE roles' = roles /\ End
    BY <1>3, <2>1
  <2>2. CASE ~(roles' = roles /\ End)
    <3>1. /\ roles[User] # NoRole /\ Goto("grant") /\ pc = "alterRole"
          /\ roles' = [roles EXCEPT ![User] = AlteredRole(@, Password)]
      BY <1>6, <2>2 DEF AlterRole
    <3>2. /\ User \in RoleNames /\ Password \in Passwords /\ roles[User] \in Roles
          /\ User' = User /\ Password' = Password /\ pc' = "grant" /\ nth' = 1
      BY <1>1, <1>2, <3>1 DEF RoleSteps, Goto, User, Password
    <3>3. /\ AlteredRole(roles[User], Password) \in Roles
          /\ AlteredRole(roles[User], Password).password = Password
          /\ AlteredRole(roles[User], Password).superuser = FALSE
      BY <3>2, NewRole
    <3>4. /\ roles'[User] = AlteredRole(roles[User], Password)
          /\ roles' \in [RoleNames -> Roles \cup {NoRole}]
      BY <1>1, <3>1, <3>2, <3>3
    <3>5. GrantedBefore(nth') = {} /\ ~(nth' > 3)
      BY <3>2 DEF GrantedBefore
    <3>6. QED
      BY <3>2, <3>3, <3>4, <3>5, OnTheWay
  <2>3. QED
    BY <2>1, <2>2
<1>7. CASE CreateRole
  <2>1. CASE roles' = roles /\ End
    BY <1>3, <2>1
  <2>2. CASE ~(roles' = roles /\ End)
    <3>1. /\ Goto("grant") /\ pc = "createRole"
          /\ roles' = [roles EXCEPT ![User] = CreatedRole(Password)]
      BY <1>7, <2>2 DEF CreateRole
    <3>2. /\ User \in RoleNames /\ Password \in Passwords
          /\ User' = User /\ Password' = Password /\ pc' = "grant" /\ nth' = 1
      BY <1>2, <3>1 DEF RoleSteps, Goto, User, Password
    <3>3. /\ CreatedRole(Password) \in Roles
          /\ CreatedRole(Password).password = Password
          /\ CreatedRole(Password).superuser = FALSE
      BY <3>2, NewRole
    <3>4. /\ roles'[User] = CreatedRole(Password)
          /\ roles' \in [RoleNames -> Roles \cup {NoRole}]
      BY <1>1, <3>1, <3>2, <3>3
    <3>5. GrantedBefore(nth') = {} /\ ~(nth' > 3)
      BY <3>2 DEF GrantedBefore
    <3>6. QED
      BY <3>2, <3>3, <3>4, <3>5, OnTheWay
  <2>3. QED
    BY <2>1, <2>2
<1>8. CASE Grant
  <2>1. CASE roles' = roles /\ End
    BY <1>3, <2>1
  <2>2. CASE ~(roles' = roles /\ End)
    <3> DEFINE role == roles[User]
               granted == Execute(nth, role.grants)
    <3>1. /\ pc = "grant" /\ Following(Statements, "listen")
          /\ roles' = [roles EXCEPT ![User].grants = Execute(nth, @)]
      BY <1>8, <2>2 DEF Grant
    <3>2. /\ User \in RoleNames /\ Password \in Passwords /\ role \in Roles
          /\ role.password = Password /\ role.superuser = FALSE
          /\ GrantedBefore(nth) \subseteq role.grants
          /\ nth > 3 => "create" \notin role.grants
      BY <1>1, <1>2, <3>1 DEF RoleSteps, AccountSoFar
    <3>3. /\ granted \in SUBSET Grants
          /\ GrantedBefore(nth + 1) \subseteq granted
          /\ nth + 1 > 3 => "create" \notin granted
      BY <1>1, <3>2, StatementAddsGrant DEF Roles
    <3>4. roles'[User] = [password |-> Password, superuser |-> FALSE, grants |-> granted]
      BY <1>1, <3>1, <3>2 DEF Roles
    <3>5. roles'[User] \in Roles /\ roles' \in [RoleNames -> Roles \cup {NoRole}]
      <4>1. roles'[User] \in Roles
        BY <3>2, <3>3, <3>4 DEF Roles
      <4>2. QED
        BY <1>1, <3>1, <4>1
    <3>6. User' = User /\ Password' = Password
      BY <3>1 DEF Following, Goto, User, Password
    <3>7. CASE nth < Statements
      <4>1. pc' = "grant" /\ nth' = nth + 1
        BY <3>1, <3>7 DEF Following
      <4> DEFINE account == [password |-> Password, superuser |-> FALSE, grants |-> granted]
      <4>2. /\ account \in Roles /\ roles'[User'] = account
            /\ account.password = Password' /\ account.superuser = FALSE
        BY <3>4, <3>5, <3>6
      <4>3. account.grants = granted
        OBVIOUS
      <4>4. /\ GrantedBefore(nth') \subseteq account.grants
            /\ nth' > 3 => "create" \notin account.grants
        BY <3>3, <4>1, <4>3
      <4>5. QED
        BY <3>5, <4>1, <4>2, <4>4, OnTheWay
    <3>8. CASE ~(nth < Statements)
      <4>1. pc' = "listen" /\ nth = 5
        BY <1>1, <3>1, <3>8 DEF Following, Goto, Statements
      <4>2. granted = ReadGrants
        BY <3>3, <4>1, AllGranted
      <4>3. roles'[User'] # NoRole /\ ReadOnly(roles'[User'], Password')
        BY <3>4, <3>5, <3>6, <4>2, StartUpAssumption DEF ReadOnly
      <4>4. QED
        BY <3>2, <3>5, <3>6, <4>1, <4>3 DEF AccountSoFar, AfterAccount
    <3>9. QED
      BY <3>7, <3>8
  <2>3. QED
    BY <2>1, <2>2
<1>9. QED
  BY <1>4, <1>5, <1>6, <1>7, <1>8

-----------------------------------------------------------------------------
(* The probe. *)

\* A check that is answered is heard, any other one makes the status 503.
LEMMA CheckEffect ==
  ASSUME probe \in Probes, NEW name, NEW up, NEW step,
         CheckAnswered(name, up, step) \/ CheckFailed(up, step)
  PROVE  /\ probe'.step = step
         /\ \/ probe'.heard = probe.heard \cup {name} /\ probe'.status = probe.status
            \/ probe'.heard = probe.heard /\ probe'.status = 503
<1>1. CASE CheckAnswered(name, up, step)
  <2>1. PICK left : probe' = [probe EXCEPT !.step = step, !.left = left, !.heard = @ \cup {name}]
    BY <1>1 DEF CheckAnswered
  <2>2. QED
    BY <2>1 DEF Probes
<1>2. CASE CheckFailed(up, step)
  <2>1. PICK left : probe' = [probe EXCEPT !.step = step, !.left = left, !.status = 503]
    BY <1>2 DEF CheckFailed
  <2>2. QED
    BY <2>1 DEF Probes
<1>3. QED
  BY <1>1, <1>2

LEMMA ProbeKept ==
  ASSUME StartUpInv, Next
  PROVE  ProbeSoFar'
<1>1. ProbeSoFar /\ probe \in Probes
  BY TypeParts DEF StartUpInv, OutsideTyped
<1>2. CASE ProbeStart
  BY <1>2 DEF ProbeStart, ProbeSoFar, ReadyIsTrue
<1>3. CASE ProbeRedis
  <2>1. probe.step = "redis" /\ probe.heard = {} /\ probe.status = 200
    BY <1>1, <1>3 DEF ProbeRedis, Probing, ProbeSoFar
  <2>2. \/ CheckAnswered("redis", redisUp, "postgres")
        \/ CheckFailed(redisUp, "postgres")
    BY <1>3 DEF ProbeRedis
  <2>3. /\ probe'.step = "postgres"
        /\ \/ probe'.heard = {"redis"} /\ probe'.status = 200
           \/ probe'.heard = {} /\ probe'.status = 503
    <3>1. /\ probe'.step = "postgres"
          /\ \/ probe'.heard = probe.heard \cup {"redis"} /\ probe'.status = probe.status
             \/ probe'.heard = probe.heard /\ probe'.status = 503
      BY <1>1, <2>2, CheckEffect
    <3>2. QED
      BY <2>1, <3>1
  <2>4. QED
    BY <2>3 DEF ProbeSoFar, ReadyIsTrue
<1>4. CASE ProbePostgres
  <2>1. /\ probe.heard \in {{}, {"redis"}}
        /\ probe.status = 200 <=> probe.heard = {"redis"}
    BY <1>1, <1>4 DEF ProbePostgres, Probing, ProbeSoFar
  <2>2. \/ CheckAnswered("postgres", postgresUp, "done")
        \/ CheckFailed(postgresUp, "done")
    BY <1>4 DEF ProbePostgres
  <2>3. /\ probe'.step = "done"
        /\ \/ probe'.heard = probe.heard \cup {"postgres"} /\ probe'.status = probe.status
           \/ probe'.heard = probe.heard /\ probe'.status = 503
    BY <1>1, <2>2, CheckEffect
  <2>4. QED
    BY <2>1, <2>3 DEF ProbeSoFar, ReadyIsTrue
<1>5. CASE ~ProbeStart /\ ~ProbeRedis /\ ~ProbePostgres
  <2>1. probe' = probe \/ probe' = NoProbe
    BY <1>5 DEF Next, MainStep, Boot, LoadSettings, InitRedis, OpenPostgres, Migrate,
                RoleOptions, DatabaseName, QuotePassword, RoleExists, AlterRole, CreateRole,
                Grant, Listen, Crash, Reconfigure, RedisFails, PostgresFails, PortTaken,
                RedisRecovers, PostgresRecovers, PortFreed, End
  <2>2. QED
    BY <1>1, <2>1 DEF ProbeSoFar, ReadyIsTrue, NoProbe
<1>6. QED
  BY <1>2, <1>3, <1>4, <1>5

-----------------------------------------------------------------------------
(* The invariant. *)

LEMMA StepInv == StartUpInv /\ [Next]_vars => StartUpInv'
<1>1. ASSUME StartUpInv, Next
      PROVE  StartUpInv'
  <2>1. MainTyped' /\ OutsideTyped'
    BY <1>1, MainTypesKept, OutsideTypesKept
  <2>2. DataTyped'
    BY <1>1, SchemaKept, AccountKept DEF DataTyped
  <2>3. TypeOK'
    BY <2>1, <2>2, TypeParts, PTL
  <2>4. QED
    BY <1>1, <2>3, ConfigKept, SchemaKept, RoleSeenKept, AccountKept, ProbeKept
       DEF StartUpInv
<1>2. ASSUME StartUpInv, UNCHANGED vars
      PROVE  StartUpInv'
  BY <1>2 DEF StartUpInv, TypeOK, ConfigIsLoaded, SchemaSoFar, RoleSeen, AccountSoFar,
              ProbeSoFar, ReadyIsTrue, HasColumns, User, Password, vars, settings, main, database,
              dependencies
<1>3. QED
  BY <1>1, <1>2

LEMMA Invariant == Spec => []StartUpInv
  BY InitInv, StepInv, PTL DEF Spec

\* At every step main has a script or a statement to go on with, and a safe
\* name and a password for the account.
THEOREM StartUpTyped == Spec => []TypeOK
<1>1. StartUpInv => TypeOK
  BY DEF StartUpInv
<1>2. QED
  BY <1>1, Invariant, PTL

\* A process serves only with the read-only account of its settings as they
\* ask for it, whatever earlier lives and versions left of it.
THEOREM AccountsAreReadOnly == Spec => []AccountIsReadOnly
<1>1. StartUpInv => AccountIsReadOnly
  BY DEF StartUpInv, AccountSoFar, AfterAccount, AccountIsReadOnly
<1>2. QED
  BY <1>1, Invariant, PTL

\* /readyz never hides that a dependency did not answer it, and never calls
\* one that did unready, for any timeout.
THEOREM ReadyIsAlwaysTrue == Spec => []ReadyIsTrue
<1>1. StartUpInv => ReadyIsTrue
  BY DEF StartUpInv, ProbeSoFar
<1>2. QED
  BY <1>1, Invariant, PTL

-----------------------------------------------------------------------------
(* The list of credentials. *)

\* Induction over a bounded range: without a predicate as a parameter, over the
\* set of the numbers that have the property.
LEMMA SetInduction ==
  ASSUME NEW last \in Nat, NEW Good, 0 \in Good,
         \A n \in 1 .. last : n - 1 \in Good => n \in Good
  PROVE  0 .. last \subseteq Good
<1> DEFINE Bad == (0 .. last) \ Good
           Less == {pair \in Nat \X Nat : pair[1] < pair[2]}
<1>1. SUFFICES ASSUME Bad # {} PROVE FALSE
  OBVIOUS
<1>2. IsWellFoundedOn(Less, Nat)
  BY NatLessThanWellFounded DEF OpToRel
<1>3. PICK least \in Bad : \A n \in Bad : <<n, least>> \notin Less
  BY <1>1, <1>2, WFMin
<1>4. least \in 1 .. last
  OBVIOUS
<1>5. least - 1 \in Bad
  BY <1>4
<1>6. <<least - 1, least>> \in Less
  BY <1>4
<1>7. QED
  BY <1>3, <1>5, <1>6

\* What the loop of parseDandanplayCredentials has kept after n entries.
Skip(entries, n, kept) == IF entries[n] = Blank THEN kept ELSE Append(kept, entries[n])

IsLoop(f, entries, last) ==
  f = [n \in 0 .. last |-> IF n = 0 THEN <<>> ELSE Skip(entries, n, f[n - 1])]

LEMMA LoopExists ==
  ASSUME NEW Texts, NEW entries \in Seq(Texts)
  PROVE  \E f : IsLoop(f, entries, Len(entries))
<1> DEFINE Good == {last \in Nat : \E f : IsLoop(f, entries, last)}
<1>1. 0 \in Good
  <2>1. IsLoop([n \in 0 .. 0 |-> <<>>], entries, 0)
    BY DEF IsLoop
  <2>2. QED
    BY <2>1
<1>2. ASSUME NEW last \in 1 .. Len(entries), last - 1 \in Good
      PROVE  last \in Good
  <2>1. PICK f : IsLoop(f, entries, last - 1)
    BY <1>2
  <2> DEFINE g == [n \in 0 .. last |-> IF n < last THEN f[n] ELSE Skip(entries, n, f[n - 1])]
  <2>2. ASSUME NEW n \in 0 .. last
        PROVE  g[n] = IF n = 0 THEN <<>> ELSE Skip(entries, n, g[n - 1])
    <3>1. CASE n = last
      <4>1. n # 0 /\ n - 1 \in 0 .. last /\ n - 1 < last /\ ~(n < last)
        BY <1>2, <3>1
      <4>2. QED
        BY <4>1
    <3>2. CASE n # last
      <4>1. n \in 0 .. last - 1 /\ n < last
        BY <1>2, <3>2
      <4>2. g[n] = IF n = 0 THEN <<>> ELSE Skip(entries, n, f[n - 1])
        BY <2>1, <4>1 DEF IsLoop
      <4>3. n # 0 => n - 1 \in 0 .. last /\ n - 1 < last
        BY <4>1
      <4>4. QED
        BY <4>2, <4>3
    <3>3. QED
      BY <3>1, <3>2
  <2>3. IsLoop(g, entries, last)
    BY <2>2 DEF IsLoop
  <2>4. QED
    BY <1>2, <2>3
<1>3. Len(entries) \in Nat
  OBVIOUS
<1>4. 0 .. Len(entries) \subseteq Good
  BY <1>1, <1>2, <1>3, SetInduction
<1>5. QED
  BY <1>3, <1>4

Elements(list) == {list[i] : i \in DOMAIN list}

LEMMA SkipElements ==
  ASSUME NEW Texts, NEW entries \in Seq(Texts), NEW n \in 1 .. Len(entries),
         NEW kept \in Seq(Texts)
  PROVE  /\ Skip(entries, n, kept) \in Seq(Texts)
         /\ Elements(Skip(entries, n, kept))
              = IF entries[n] = Blank THEN Elements(kept) ELSE Elements(kept) \cup {entries[n]}
<1> DEFINE longer == Append(kept, entries[n])
<1>1. entries[n] \in Texts
  OBVIOUS
<1>2. /\ longer \in Seq(Texts)
      /\ DOMAIN longer = DOMAIN kept \cup {Len(kept) + 1}
      /\ \A i \in DOMAIN kept : longer[i] = kept[i]
      /\ longer[Len(kept) + 1] = entries[n]
  BY <1>1
<1>3. Elements(longer) = Elements(kept) \cup {entries[n]}
  BY <1>2, Zenon DEF Elements
<1>4. QED
  BY <1>2, <1>3 DEF Skip

\* The loop keeps exactly the entries that are not blank.
LEMMA LoopKeeps ==
  ASSUME NEW Texts, NEW entries \in Seq(Texts), NEW loop,
         IsLoop(loop, entries, Len(entries))
  PROVE  /\ loop[Len(entries)] \in Seq(Texts)
         /\ Elements(loop[Len(entries)]) = Elements(entries) \ {Blank}
<1> DEFINE Before(n) == {entries[i] : i \in 1 .. n} \ {Blank}
           Good == {n \in 0 .. Len(entries) :
                      loop[n] \in Seq(Texts) /\ Elements(loop[n]) = Before(n)}
<1>1. Len(entries) \in Nat /\ DOMAIN entries = 1 .. Len(entries)
  OBVIOUS
<1>2. \A n \in 0 .. Len(entries) :
        loop[n] = IF n = 0 THEN <<>> ELSE Skip(entries, n, loop[n - 1])
  <2>1. loop = [n \in 0 .. Len(entries) |->
                  IF n = 0 THEN <<>> ELSE Skip(entries, n, loop[n - 1])]
    BY DEF IsLoop
  <2>2. QED
    BY <2>1, Zenon
<1>3. 0 \in Good
  <2>1. 0 \in 0 .. Len(entries)
    BY <1>1
  <2>2. loop[0] = <<>>
    BY <1>2, <2>1
  <2>3. <<>> \in Seq(Texts) /\ Elements(<<>>) = {}
    BY DEF Elements
  <2>4. Before(0) = {}
    OBVIOUS
  <2>5. QED
    BY <2>1, <2>2, <2>3, <2>4
<1>4. ASSUME NEW n \in 1 .. Len(entries), n - 1 \in Good
      PROVE  n \in Good
  <2>1. n \in 0 .. Len(entries) /\ n # 0
    BY <1>1
  <2>2. loop[n] = Skip(entries, n, loop[n - 1])
    BY <1>2, <2>1
  <2>3. loop[n - 1] \in Seq(Texts) /\ Elements(loop[n - 1]) = Before(n - 1)
    BY <1>4
  <2>4. /\ loop[n] \in Seq(Texts)
        /\ Elements(loop[n]) = IF entries[n] = Blank THEN Before(n - 1)
                                                     ELSE Before(n - 1) \cup {entries[n]}
    <3> DEFINE kept == loop[n - 1]
    <3>1. kept \in Seq(Texts)
      BY <2>3
    <3> HIDE DEF kept
    <3>2. /\ Skip(entries, n, kept) \in Seq(Texts)
          /\ Elements(Skip(entries, n, kept))
               = IF entries[n] = Blank THEN Elements(kept)
                                       ELSE Elements(kept) \cup {entries[n]}
      BY <3>1, SkipElements
    <3>3. QED
      BY <2>2, <2>3, <3>2 DEF kept
  <2>5. 1 .. n = (1 .. n - 1) \cup {n}
    BY <1>1
  <2>6. Before(n) = IF entries[n] = Blank THEN Before(n - 1) ELSE Before(n - 1) \cup {entries[n]}
    BY <2>5
  <2>7. QED
    BY <2>1, <2>4, <2>6
<1>5. 0 .. Len(entries) \subseteq Good
  BY <1>1, <1>3, <1>4, SetInduction
<1>6. Len(entries) \in Good
  <2> HIDE DEF Good
  <2>1. QED
    BY <1>1, <1>5
<1>7. QED
  BY <1>1, <1>6 DEF Elements

LEMMA GivenEntries ==
  ASSUME NEW Texts, NEW entries \in Seq(Texts)
  PROVE  /\ Given(entries) \in Seq(Texts)
         /\ Elements(Given(entries)) = Elements(entries) \ {Blank}
<1> DEFINE loop == CHOOSE f : IsLoop(f, entries, Len(entries))
<1>1. IsLoop(loop, entries, Len(entries))
  BY LoopExists
<1>2. Given(entries) = loop[Len(entries)]
  BY DEF Given, IsLoop, Skip
<1>3. QED
  BY <1>1, <1>2, LoopKeeps

\* A process serves with every entry of DANDANPLAY_KEYS that is not blank and
\* no other, for lists of any length, and with the single pair only without a
\* list; no process serves with a list that has a malformed entry or none at all.
THEOREM KeysAreServed == Spec => []KeysTakePrecedence
<1> DEFINE Keys == Entries(Getenv(Environment(setting.environment, setting.file),
                                  "DANDANPLAY_KEYS"))
           Used == Elements(Config.DandanplayCredentials)
<1>1. ASSUME StartUpInv, pc = "serving", Keys # <<>>
      PROVE  Used = Elements(Keys) \ {Blank} /\ Used # {} /\ Malformed \notin Used
  <2>1. /\ setting \in Settings
        /\ Config = LoadConfig(setting.environment, setting.file)
        /\ Config # Rejected
    BY <1>1 DEF StartUpInv, TypeOK, ConfigIsLoaded, Running, MainSteps
  <2>2. Keys \in Seq(Elements(Keys))
    BY <2>1, StartUpAssumption DEF Elements
  <2>3. /\ Config.DandanplayCredentials = Given(Keys)
        /\ Given(Keys) # <<>>
        /\ \A i \in DOMAIN Given(Keys) : Given(Keys)[i] # Malformed
    BY <1>1, <2>1 DEF LoadConfig, parseDandanplayCredentials
  <2>4. Given(Keys) \in Seq(Elements(Keys)) /\ Elements(Given(Keys)) = Elements(Keys) \ {Blank}
    BY <2>2, GivenEntries
  <2> DEFINE given == Given(Keys)
  <2>5. Elements(given) # {} /\ Malformed \notin Elements(given)
    <3>1. given \in Seq(Elements(Keys)) /\ given # <<>> /\ \A i \in DOMAIN given : given[i] # Malformed
      BY <2>3, <2>4
    <3> HIDE DEF given, Keys
    <3>2. 1 \in DOMAIN given
      BY <3>1
    <3>3. QED
      BY <3>1, <3>2 DEF Elements
  <2>6. QED
    BY <2>3, <2>4, <2>5
<1>2. StartUpInv => KeysTakePrecedence
  BY <1>1 DEF KeysTakePrecedence, Elements
<1>3. QED
  BY <1>2, Invariant, PTL

-----------------------------------------------------------------------------
(* Failed starts. *)

\* A script ends with a table, whatever the table was when it started.
LEMMA ScriptsSucceed ==
  ASSUME StartUpInv, pc = "migrate"
  PROVE  RunScript(nth, table) # Broken
<1>1. /\ SchemaSoFar /\ table \in Tables \cup {None} /\ Sound(table)
      /\ nth \in 1 .. Statements /\ nth <= Scripts
  BY DEF StartUpInv, TypeOK, SchemaSoFar
<1>2. CASE nth = 1
  BY <1>1, <1>2, CreateTableMakes, StartUpAssumption DEF RunScript
<1>3. CASE nth = 2
  <2>1. table # None /\ table \in Tables /\ RunScript(nth, table) = RenameCommentCount(table)
    BY <1>1, <1>3 DEF RunScript, SchemaSoFar
  <2>2. QED
    BY <1>1, <2>1, RenameKeepsCounts, StartUpAssumption
<1>4. CASE nth = 3
  <2>1. table # None /\ table \in Tables /\ RunScript(nth, table) = AddAccessStats(table)
    BY <1>1, <1>4 DEF RunScript, SchemaSoFar, HasColumns
  <2>2. QED
    BY <1>1, <2>1, AccessStatsAdded, StartUpAssumption
<1>5. nth \in {1, 2, 3}
  BY <1>1 DEF Statements, Scripts
<1>6. QED
  BY <1>2, <1>3, <1>4, <1>5

\* With accepted settings and what it calls there, no step of main ends it.
LEMMA NoStepFails ==
  ASSUME StartUpInv, MainStep, Accepted, Needed
  PROVE  pc' # "down"
<1> USE DEF Needed
<1> DEFINE loaded == LoadConfig(setting.environment, setting.file)
<1>1. loaded # Rejected
  BY DEF Accepted
<1>2. /\ pc \in Running => Config = loaded
      /\ pc \in RoleSteps => User \in RoleNames /\ Password \in Passwords
  BY DEF StartUpInv, TypeOK, ConfigIsLoaded
<1>3. pc \in RoleSteps => SafeDatabase /\ MayManageRoles
  <2>1. SUFFICES ASSUME pc \in RoleSteps PROVE SafeDatabase /\ MayManageRoles
    OBVIOUS
  <2>2. User = loaded.DatabaseReadOnlyUser /\ User \in RoleNames
    BY <1>2, <2>1 DEF RoleSteps, Running, MainSteps, User
  <2>3. QED
    BY <2>2, StartUpAssumption DEF Accepted
<1>4. CASE Boot
  BY <1>4 DEF Boot, Goto
<1>5. CASE LoadSettings
  BY <1>1, <1>5 DEF LoadSettings
<1>6. CASE InitRedis
  BY <1>6 DEF InitRedis, Goto
<1>7. CASE OpenPostgres
  <2>1. Config.DatabaseURL = loaded.DatabaseURL
    BY <1>2, <1>7 DEF OpenPostgres, Running, MainSteps
  <2>2. QED
    BY <1>7, <2>1 DEF OpenPostgres, Goto, Accepted
<1>8. CASE Migrate
  <2>1. pc = "migrate" /\ Following(Scripts, "roleOptions")
    BY <1>8, ScriptsSucceed DEF Migrate
  <2>2. QED
    BY <2>1 DEF Following, Goto
<1>9. CASE RoleOptions
  <2>1. /\ User = loaded.DatabaseReadOnlyUser
        /\ Password = loaded.DatabaseReadOnlyPassword
    BY <1>2, <1>9 DEF RoleOptions, Running, MainSteps, User, Password
  <2>2. \/ User = Unset /\ Password = Unset
        \/ User \in RoleNames /\ Password # Unset
    BY <2>1 DEF Accepted
  <2>3. QED
    BY <1>9, <2>2 DEF RoleOptions, Goto
<1>10. CASE DatabaseName
  BY <1>3, <1>10 DEF DatabaseName, RoleSteps, Goto
<1>11. CASE QuotePassword
  BY <1>11 DEF QuotePassword, RoleSteps, Goto
<1>12. CASE RoleExists
  BY <1>12 DEF RoleExists, RoleSteps, Goto
<1>13. CASE AlterRole
  BY <1>3, <1>13 DEF AlterRole, RoleSteps, Goto, StartUpInv, RoleSeen
<1>14. CASE CreateRole
  BY <1>3, <1>14 DEF CreateRole, RoleSteps, Goto, StartUpInv, RoleSeen
<1>15. CASE Grant
  BY <1>15 DEF Grant, RoleSteps, Following, Goto
<1>16. CASE Listen
  <2>1. Config.ServerPort = loaded.ServerPort
    BY <1>2, <1>16 DEF Listen, Running, MainSteps
  <2>2. QED
    BY <1>16, <2>1 DEF Listen, RoleSteps, Goto, Accepted
<1>17. QED
  BY <1>4, <1>5, <1>6, <1>7, <1>8, <1>9, <1>10, <1>11, <1>12, <1>13, <1>14, <1>15, <1>16
     DEF MainStep

\* However often and wherever earlier starts were cut short, and whatever
\* version of the table and of the account they found, a later start fails
\* only over its settings or because what the failing step calls is not there.
THEOREM StartsFailForCause == Spec => FailsOnlyForCause
<1>1. StartUpInv /\ [Next]_vars =>
        [MainStep /\ pc' = "down" => ~Accepted \/ ~Needed]_vars
  BY NoStepFails
<1>2. QED
  BY <1>1, Invariant, PTL DEF Spec, FailsOnlyForCause

-----------------------------------------------------------------------------
(* The upgrade. *)

LEMMA UpgradeStarts == Init => Upgrade!Init
<1> SUFFICES ASSUME Init PROVE Upgrade!Init
  OBVIOUS
<1>1. table \in Tables \cup {None} /\ Sound(table) /\ pc = "down"
  BY StartUpAssumption DEF Init, Sound
<1>2. CASE table = None
  BY <1>1, <1>2 DEF Upgrade!Init, Level, Counts
<1>3. CASE table # None
  <2>1. CountColumn \in DOMAIN table
    BY <1>1, <1>3 DEF CountColumn, HasColumns, Sound
  <2>2. Counts \in {"kept", "default"}
    BY <1>1, <1>3, <2>1, TableIsFunction DEF Counts, Contents
  <2>3. Level \in 1 .. 3
    BY <1>3 DEF Level
  <2>4. QED
    BY <1>1, <2>2, <2>3 DEF Upgrade!Init
<1>4. QED
  BY <1>2, <1>3

\* A step that leaves the table alone opens or closes the service.
LEMMA TableStands ==
  ASSUME StartUpInv, Next, table' = table
  PROVE  Upgrade!Next
<1>1. Level' = Level /\ Counts' = Counts
  BY DEF Level, Counts, CountColumn, HasColumns
<1>2. CASE pc' = "serving"
  <2>1. HasColumns({"danmaku_count", "access_stats"})'
    BY <1>2, SchemaKept DEF SchemaSoFar, AfterMigrate, Running, MainSteps
  <2>2. Level = 3
    BY <2>1 DEF Level, HasColumns
  <2>3. QED
    BY <1>1, <1>2, <2>2 DEF Upgrade!Next, Upgrade!Open
<1>3. CASE pc' # "serving"
  BY <1>1, <1>3 DEF Upgrade!Next, Upgrade!Close
<1>4. QED
  BY <1>2, <1>3

\* Every script brings the schema forward or stutters.
LEMMA ScriptAdvances ==
  ASSUME StartUpInv, Next, Migrate, table' # table
  PROVE  Upgrade!Advance
<1>1. /\ SchemaSoFar /\ table \in Tables \cup {None} /\ Sound(table)
      /\ nth \in 1 .. Statements
  BY DEF StartUpInv, TypeOK, SchemaSoFar
<1>2. /\ pc = "migrate" /\ table' = RunScript(nth, table)
      /\ Following(Scripts, "roleOptions") /\ nth \in 1 .. Scripts
  BY <1>1 DEF Migrate, StartUpInv, TypeOK, Scripts, Statements
<1>3. pc # "serving" /\ pc' # "serving"
  BY <1>2 DEF Following, Goto
<1>4. CASE nth = 1
  <2>1. table' = CreateTable(table)
    BY <1>2, <1>4 DEF RunScript
  <2>2. /\ table = None /\ table' # None
        /\ DOMAIN table' = {"snapshot", "danmaku_count"} /\ table'["danmaku_count"] = "default"
    BY <1>1, <2>1, CreateTableMakes
  <2>3. Level = 0 /\ Level' = 2 /\ Counts' = "default"
    BY <2>2 DEF Level, Counts, CountColumn, HasColumns
  <2>4. QED
    BY <1>3, <2>3 DEF Upgrade!Advance
<1>5. CASE nth = 2
  <2>1. table' = RenameCommentCount(table) /\ table # None
    BY <1>1, <1>2, <1>5 DEF RunScript, SchemaSoFar
  <2>2. /\ table' \in Tables /\ "danmaku_count" \notin DOMAIN table
        /\ "danmaku_count" \in DOMAIN table'
        /\ "access_stats" \in DOMAIN table' <=> "access_stats" \in DOMAIN table
        /\ table'["danmaku_count"] = table["comment_count"]
    BY <1>1, <2>1, RenameKeepsCounts
  <2>3. Counts' = Counts
    BY <2>1, <2>2, StartUpAssumption DEF Counts, CountColumn, HasColumns
  <2>4. Level \in {1, 2} /\ Level' = Level + 1
    BY <2>1, <2>2, StartUpAssumption DEF Level, HasColumns
  <2>5. QED
    BY <1>3, <2>3, <2>4 DEF Upgrade!Advance
<1>6. CASE nth = 3
  <2>1. /\ table' = AddAccessStats(table) /\ table # None
        /\ "danmaku_count" \in DOMAIN table
    BY <1>1, <1>2, <1>6 DEF RunScript, SchemaSoFar, HasColumns
  <2>2. /\ table' \in Tables
        /\ DOMAIN table' = DOMAIN table \cup {"access_stats"}
        /\ \A column \in DOMAIN table : table'[column] = table[column]
    BY <1>1, <2>1, AccessStatsAdded
  <2>3. "access_stats" \notin DOMAIN table
    <3>1. SUFFICES ASSUME "access_stats" \in DOMAIN table
                   PROVE  table' = table
      OBVIOUS
    <3>2. DOMAIN table' = DOMAIN table
      BY <2>2, <3>1
    <3>3. /\ table' = [column \in DOMAIN table' |-> table'[column]]
          /\ table = [column \in DOMAIN table |-> table[column]]
      BY <1>1, <2>1, <2>2, TableIsFunction
    <3>4. QED
      BY <2>2, <3>2, <3>3
  <2>4. Counts' = Counts
    BY <2>1, <2>2, StartUpAssumption DEF Counts, CountColumn, HasColumns
  <2>5. Level = 2 /\ Level' = 3
    BY <2>1, <2>2, <2>3, StartUpAssumption DEF Level, HasColumns
  <2>6. QED
    BY <1>3, <2>4, <2>5 DEF Upgrade!Advance
<1>7. QED
  BY <1>2, <1>4, <1>5, <1>6 DEF Scripts

LEMMA UpgradeGoesOn == StartUpInv /\ [Next]_vars => [Upgrade!Next]_Upgrade!vars
<1>1. ASSUME StartUpInv, Next
      PROVE  Upgrade!Next
  <2>1. CASE table' = table
    BY <1>1, <2>1, TableStands
  <2>2. CASE table' # table
    <3>1. Migrate
      BY <1>1, <2>2, MigrateOnly
    <3>2. QED
      BY <1>1, <2>2, <3>1, ScriptAdvances DEF Upgrade!Next
  <2>3. QED
    BY <2>1, <2>2
<1>2. ASSUME UNCHANGED vars
      PROVE  UNCHANGED Upgrade!vars
  BY <1>2 DEF Upgrade!vars, vars, main, database, Level, Counts, CountColumn, HasColumns
<1>3. QED
  BY <1>1, <1>2

\* An upgrade from any earlier table, cut short anywhere and any number of
\* times, moves the schema forward only, keeps the counts of the rows, and is
\* complete before the process serves.
THEOREM UpgradeIsSafe == Spec => UpgradePromise
<1>1. Spec => Upgrade!Spec
  BY UpgradeStarts, UpgradeGoesOn, Invariant, PTL DEF Spec, Upgrade!Spec
<1>2. QED
  BY <1>1 DEF UpgradePromise
=============================================================================

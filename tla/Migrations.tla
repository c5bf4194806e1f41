----------------------------- MODULE Migrations -----------------------------
(***************************************************************************)
(* The table danmaku_snapshots and the scripts that storage.Migrate runs   *)
(* over it on every start, each in one implicit transaction.  A table is   *)
(* a function from its columns to what they hold for the rows that were    *)
(* there before: the values written then, or the column default.           *)
(* "snapshot" stands for the columns that every version has,               *)
(* "access_stats" for the four that script 003 adds.                       *)
(***************************************************************************)
EXTENDS Integers

CONSTANTS
  None,    \* the table does not exist
  Broken   \* a script returned an error

Columns  == {"snapshot", "comment_count", "danmaku_count", "access_stats"}
Contents == {"kept", "default"}
Tables   == UNION {[names -> Contents] : names \in SUBSET Columns}

\* Fault variant: the script adds the column an old table misses.
CreateTableAndCount(table) ==
  IF table = None
    THEN [column \in {"snapshot", "danmaku_count"} |-> "default"]
    ELSE [column \in DOMAIN table \cup {"danmaku_count"} |->
            IF column \in DOMAIN table THEN table[column] ELSE "default"]

\* 001_danmaku_snapshots.sql: an older table is left as it is.
CreateTable(table) ==
  IF table = None
    THEN [column \in {"snapshot", "danmaku_count"} |-> "default"]
    ELSE table

Renamed(table) ==
  [column \in (DOMAIN table \ {"comment_count"}) \cup {"danmaku_count"} |->
     IF column = "danmaku_count" THEN table["comment_count"] ELSE table[column]]

\* Fault variant: a script for the first start only.
RenameOnce(table) ==
  IF table = None \/ "comment_count" \notin DOMAIN table THEN Broken ELSE Renamed(table)

\* 002_rename_comment_count.sql
RenameCommentCount(table) ==
  IF /\ table # None
     /\ "comment_count" \in DOMAIN table
     /\ "danmaku_count" \notin DOMAIN table
    THEN Renamed(table)
    ELSE table

\* 003_snapshot_access_stats.sql
AddAccessStats(table) ==
  IF table = None
    THEN Broken
    ELSE [column \in DOMAIN table \cup {"access_stats"} |->
            IF column \in DOMAIN table THEN table[column] ELSE "default"]

\* The scripts in the order of their names.
Scripts == 3

RunScript(number, table) ==
  CASE number = 1 -> CreateTable(table)
    [] number = 2 -> RenameCommentCount(table)
    [] number = 3 -> AddAccessStats(table)
=============================================================================

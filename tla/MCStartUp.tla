------------------------------ MODULE MCStartUp ------------------------------
(***************************************************************************)
(* A small instance of start-up for TLC.                                   *)
(***************************************************************************)
EXTENDS StartUpProperties

CONSTANTS reader, unsafe, p1, p2, c1, c2, id, secret

\* Two entries, one of them between stray commas, beside a single pair that is
\* not used; a file adds the account.
MCListed ==
  [ environment |->
      [ DANDANPLAY_KEYS |-> <<Blank, c1, c2>>, APP_ID |-> id, APP_SECRET |-> secret ],
    file |->
      [ DATABASE_READONLY_USER |-> reader, DATABASE_READONLY_PASSWORD |-> p1 ] ]

\* The environment wins over the file.
MCPasswordChanged ==
  [ environment |->
      [ DANDANPLAY_KEYS |-> Unset, APP_ID |-> id, APP_SECRET |-> secret,
        DATABASE_READONLY_USER |-> reader, DATABASE_READONLY_PASSWORD |-> p2 ],
    file |-> [ DATABASE_READONLY_PASSWORD |-> p1 ] ]

MCNoAccount == [ environment |-> [ APP_ID |-> id ], file |-> NoFile ]

MCHalfAccount ==
  [ environment |-> [ DATABASE_READONLY_USER |-> reader, DATABASE_READONLY_PASSWORD |-> Blank ],
    file |-> NoFile ]

MCUnsafeAccount ==
  [ environment |-> [ DATABASE_READONLY_USER |-> unsafe, DATABASE_READONLY_PASSWORD |-> p1 ],
    file |-> NoFile ]

MCMalformedKeys ==
  [ environment |-> [ DANDANPLAY_KEYS |-> <<c1, Malformed>> ], file |-> NoFile ]

MCOnlyCommas ==
  [ environment |-> [ DANDANPLAY_KEYS |-> <<Blank, Blank>>, APP_ID |-> id, APP_SECRET |-> secret ],
    file |-> NoFile ]

MCBadDatabase == [ environment |-> [ DATABASE_URL |-> Malformed ], file |-> NoFile ]
MCBadPort     == [ environment |-> [ SERVER_PORT |-> Blank ], file |-> NoFile ]

MCSettings ==
  { MCListed, MCPasswordChanged, MCNoAccount, MCHalfAccount, MCUnsafeAccount,
    MCMalformedKeys, MCOnlyCommas, MCBadDatabase, MCBadPort }

Kept(columns) == [column \in columns |-> "kept"]

\* No table; one of before the renaming; one of before the statistics.
MCTables ==
  { None, Kept({"snapshot", "comment_count"}), Kept({"snapshot", "danmaku_count"}) }

\* No account, or one that was made by hand as an administrator.
MCRoles ==
  { [role \in RoleNames |-> NoRole],
    [role \in RoleNames |-> [ password |-> p2, superuser |-> TRUE, grants |-> {"connect", "create"} ]] }
=============================================================================

---------------------------- MODULE Configuration ----------------------------
(***************************************************************************)
(* What the process reads from its environment (config/config.go).  A      *)
(* variable is not set, or has a text: Unset is the empty text, Blank one  *)
(* of spaces only, Malformed one that does not parse; any other value      *)
(* stands for a text by what it parses to, spaces around it trimmed.  The  *)
(* text of DANDANPLAY_KEYS is a sequence of entries; of every other        *)
(* variable it is one value.                                               *)
(***************************************************************************)
EXTENDS Integers, Sequences

CONSTANTS
  Unset, Blank, Malformed,  \* texts, see above
  NoFile,                   \* the .env file is missing
  Rejected                  \* LoadConfig returned an error

\* Duration texts that are not read as a number of seconds.
Unparsed == {Unset, Blank, Malformed}

\* godotenv.Load: the file adds what the environment does not have, set to the
\* empty text or not.
Environment(environment, file) ==
  [name \in DOMAIN environment \cup (IF file = NoFile THEN {} ELSE DOMAIN file) |->
     IF name \in DOMAIN environment THEN environment[name] ELSE file[name]]

Getenv(environment, name) ==
  IF name \in DOMAIN environment THEN environment[name] ELSE Unset

TrimSpace(text) == IF text = Blank THEN Unset ELSE text

\* A database URL or a port that its library can read; it takes the empty text
\* for its own default.
Usable(text) == text \notin {Blank, Malformed}

\* Fault variant: a text that does not parse is a zero.
parseDurationOrZero(text, default) ==
  IF text = Unset THEN default ELSE IF text \in Unparsed THEN 0 ELSE text

\* No TrimSpace here: spaces alone are a text that does not parse.
parseDuration(text, default) == IF text \in Unparsed THEN default ELSE text

Entries(keys) == IF TrimSpace(keys) = Unset THEN <<>> ELSE keys

\* The loop over the entries: blank ones are skipped, the others kept in order.
Given(entries) ==
  LET upTo[n \in 0 .. Len(entries)] ==
        IF n = 0 THEN <<>>
        ELSE IF entries[n] = Blank THEN upTo[n - 1] ELSE Append(upTo[n - 1], entries[n])
  IN upTo[Len(entries)]

\* Fault variant: the single pair wins over the list.
LegacyFirst(keys, appID, appSecret) ==
  IF Unset \notin {TrimSpace(appID), TrimSpace(appSecret)}
    THEN << <<appID, appSecret>> >>
    ELSE Given(Entries(keys))

\* DANDANPLAY_KEYS if it is set, the single pair otherwise, or nothing.
parseDandanplayCredentials(keys, appID, appSecret) ==
  LET entries == Entries(keys)
      given   == Given(entries)
  IN IF entries = <<>>
       THEN IF Unset \in {TrimSpace(appID), TrimSpace(appSecret)}
              THEN <<>>
              ELSE << <<appID, appSecret>> >>
       ELSE IF given = <<>> \/ \E i \in DOMAIN given : given[i] = Malformed
              THEN Rejected
              ELSE given

\* The part of Configuration that start-up and credentials depend on.
LoadConfig(environment, file) ==
  LET env == Environment(environment, file)
      credentials == parseDandanplayCredentials(
                       Getenv(env, "DANDANPLAY_KEYS"),
                       Getenv(env, "APP_ID"), Getenv(env, "APP_SECRET"))
  IN IF file = Malformed \/ credentials = Rejected
       THEN Rejected
       ELSE [ DandanplayCredentials |-> credentials,
              DatabaseURL |-> Getenv(env, "DATABASE_URL"),
              ServerPort |-> Getenv(env, "SERVER_PORT"),
              DatabaseReadOnlyUser |->
                TrimSpace(Getenv(env, "DATABASE_READONLY_USER")),
              DatabaseReadOnlyPassword |->
                TrimSpace(Getenv(env, "DATABASE_READONLY_PASSWORD")) ]
=============================================================================

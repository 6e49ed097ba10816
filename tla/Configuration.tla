---------------------------- MODULE Configuration ----------------------------
(***************************************************************************)
(* What the configuration files say of where an operator keeps its data:   *)
(* the home directory, the database, and the two secrets, with the names   *)
(* of their files.  OperatorConfigService takes the first candidate file   *)
(* that it can read and that the schema accepts, and a default             *)
(* configuration if there is none.                                         *)
(***************************************************************************)
EXTENDS Naturals

CONSTANTS
    Homes, DefaultHome,              \* the home directories; ./operator
    Servers,                         \* databases of a server: its url, port and name
    DatabaseNames, DefaultDatabase,  \* files of SQLite; operator.db
    KeyNames, DefaultKeyName,        \* files of the encryption key; db-encryption-key.txt
    JwtNames, DefaultJwtName,        \* files of the JWT secret; jwt-secret.txt
    GivenKeys, GivenSecrets,         \* keys and secrets written into a configuration
    Omitted,     \* a section or an entry left out, or a secret that is blank
    Absent,      \* a file that is not there
    Invalid      \* a file that cannot be read, parsed, or that the schema refuses

ASSUME DefaultsAssumption ==
    /\ DefaultHome \in Homes /\ DefaultDatabase \in DatabaseNames
    /\ DefaultKeyName \in KeyNames /\ DefaultJwtName \in JwtNames
ASSUME OmittedAssumption ==
    Omitted \notin Homes \cup Servers \cup DatabaseNames \cup KeyNames \cup JwtNames
                   \cup GivenKeys \cup GivenSecrets

\* The sections operator.database, with the key in operator.database.encryption,
\* operator.paths, and operator.admin.jwt with the other secret.
Drivers == {"postgresql", "mysql", "sqlite"}
Section == [postgresql : Servers \cup {Omitted}, mysql : Servers \cup {Omitted},
            sqlite : DatabaseNames \cup {Omitted},
            key : GivenKeys \cup {Omitted}, mayGenerate : BOOLEAN]
Content == [home : Homes \cup {Omitted}, keyName : KeyNames \cup {Omitted},
            jwtName : JwtNames \cup {Omitted},
            database : Section \cup {Omitted}, jwt : GivenSecrets \cup {Omitted}]

\* What the schema makes of a file.  A database section left out is one with
\* SQLite, but a section that names no driver stays without one.
Config == [home : Homes, keyName : KeyNames, jwtName : JwtNames,
           database : Section, jwt : GivenSecrets \cup {Omitted}]

DefaultSection == [postgresql |-> Omitted, mysql |-> Omitted, sqlite |-> DefaultDatabase,
                   key |-> Omitted, mayGenerate |-> TRUE]
Given(entry, default) == IF entry = Omitted THEN default ELSE entry

Parse(c) ==
    [home |-> Given(c.home, DefaultHome), keyName |-> Given(c.keyName, DefaultKeyName),
     jwtName |-> Given(c.jwtName, DefaultJwtName),
     database |-> Given(c.database, DefaultSection), jwt |-> c.jwt]

DefaultConfig == Parse([home |-> Omitted, keyName |-> Omitted, jwtName |-> Omitted,
                        database |-> Omitted, jwt |-> Omitted])

\* files is the sequence of the candidates, by their priority: the path given by
\* the environment, and then the names tried in the working directory.
Readable(files) == {i \in DOMAIN files : files[i] \notin {Absent, Invalid}}

LoadConfigFile(files) ==
    IF Readable(files) = {} THEN DefaultConfig
    ELSE Parse(files[CHOOSE i \in Readable(files) : \A j \in Readable(files) : i <= j])

\* The database is that of a server, or a file in the home directory; a server
\* goes before a file, and PostgreSQL before MySQL.
NoDatabase == [driver |-> "none", home |-> Omitted, name |-> Omitted]
Databases == [driver : Drivers \cup {"none"}, home : Homes \cup {Omitted},
              name : Servers \cup DatabaseNames \cup {Omitted}]

DatabaseOf(config) ==
    LET section == config.database IN
    CASE section.postgresql # Omitted ->
             [driver |-> "postgresql", home |-> Omitted, name |-> section.postgresql]
      [] section.postgresql = Omitted /\ section.mysql # Omitted ->
             [driver |-> "mysql", home |-> Omitted, name |-> section.mysql]
      [] section.postgresql = Omitted /\ section.mysql = Omitted /\ section.sqlite # Omitted ->
             [driver |-> "sqlite", home |-> config.home, name |-> section.sqlite]
      [] OTHER -> NoDatabase
=============================================================================

----------------------------- MODULE StartupKeys -----------------------------
(***************************************************************************)
(* The two secrets an operator keeps in files of its home directory: the   *)
(* key that encrypts columns of the database, and the secret that signs    *)
(* the tokens.  Each start takes them from the configuration, or reads     *)
(* them, or draws them if it can do neither; a key is always written back, *)
(* a secret only if it was drawn.                                          *)
(*                                                                         *)
(* EnvService is instantiated twice, by OperatorConfigModule and by        *)
(* OperatorApiModule, and each instance loads the key when its module is   *)
(* initialised; EncryptionService uses one of them.  Several processes may *)
(* share a home directory, since a second one only takes the next port.    *)
(*                                                                         *)
(* A start reads the configuration twice: DataSourceOptions, when it is    *)
(* imported, for the database, and OperatorConfigService, once it is       *)
(* injected, for everything else.  The files may be edited at any time.    *)
(***************************************************************************)
EXTENDS Configuration

CONSTANTS
    Processes,  \* the operators that share the configuration files
    Candidates, \* how many configuration files are looked for
    Contents,   \* what an administrator writes into them
    MalformedKeys, \* the given keys that are not 32 bytes in hexadecimal
    MaxStarts,  \* bound on the starts
    MaxEdits    \* bound on the edits of the files

ASSUME TextsAssumption ==
    /\ Absent \notin Nat \cup GivenKeys \cup GivenSecrets
    /\ \A t \in GivenKeys \cup GivenSecrets : t \notin Nat
    /\ MalformedKeys \subseteq GivenKeys
ASSUME ContentsAssumption == Contents \subseteq Content
ASSUME BoundsAssumption == Candidates \in Nat /\ MaxStarts \in Nat /\ MaxEdits \in Nat

VARIABLES
    candidates, \* the configuration files, by their priority
    keyFile,    \* keyFile[f]: the content of the file f of a key
    jwtFile,    \* jwtFile[f]: the content of the file f of a JWT secret
    proc,       \* proc[p]: process p
    uses,       \* which of its EnvServices EncryptionService is built with
    encrypted,  \* history: the keys under which columns were encrypted, and where
    signed,     \* history: the secrets under which tokens were signed, and where
    drawn,      \* the last secret drawn
    starts,     \* how many processes were started
    edits,      \* how many times a file was edited
    mishaps     \* history: what happened that the code does not provide for

files == <<keyFile, jwtFile>>
setting == <<candidates, uses, edits>>
vars == <<candidates, keyFile, jwtFile, proc, uses, encrypted, signed, drawn, starts, edits,
          mishaps>>

-----------------------------------------------------------------------------
(* Data.  A secret is the text the configuration gives, or a number: 0 is   *)
(* the empty string, which an opened and not yet written file holds, the    *)
(* larger numbers are random draws.  Texts that stand for the same key are  *)
(* one, and a configuration gives no text that was drawn.                   *)

Empty == 0
KeyTexts == Nat \cup GivenKeys
Secrets == Nat \cup GivenSecrets

\* The files of keys, and those of JWT secrets, are different ones.
KeyPaths == [home : Homes, name : KeyNames]
JwtPaths == [home : Homes, name : JwtNames]

\* Buffer.from(text, 'hex') stops at the first character that is no digit: of a
\* malformed text it makes a buffer that no cipher takes, as of the empty one.
FromHex(text) == IF text \in MalformedKeys THEN Empty ELSE text

\* db: the database of the first read; config: what the second read found;
\* loads: which instance is loading the key; loaded: what it loads; key, jwt:
\* what the process works with
Process == [pc : {"stopped", "readConfig", "readJwt", "openJwt", "writeJwt",
                  "readKey", "openKey", "writeKey", "running"},
            db : Databases, config : Config, loads : 1..2,
            loaded : KeyTexts, key : KeyTexts, jwt : Secrets]
Stopped == [pc |-> "stopped", db |-> NoDatabase, config |-> DefaultConfig, loads |-> 1,
            loaded |-> Empty, key |-> Empty, jwt |-> Empty]

\* A file that exists could not be read; a process died inside writeFile; two
\* processes were starting at the same time; the configuration changed between
\* the two reads of a start; a configured key was written over another one; a
\* configured key is malformed.
Mishaps == {"readError", "tornWrite", "overlap", "editDuringStart", "keyReplaced",
            "malformedKey"}

IsRunning(p) == proc[p].pc = "running"
IsStarting(p) == proc[p].pc \notin {"stopped", "running"}
KeyPathOf(p) == [home |-> proc[p].config.home, name |-> proc[p].config.keyName]
JwtPathOf(p) == [home |-> proc[p].config.home, name |-> proc[p].config.jwtName]

TypeOK ==
    /\ candidates \in [1..Candidates -> Contents \cup {Absent, Invalid}]
    /\ keyFile \in [KeyPaths -> KeyTexts \cup {Absent}]
    /\ jwtFile \in [JwtPaths -> Secrets \cup {Absent}]
    /\ proc \in [Processes -> Process]
    /\ uses \in 1..2
    /\ encrypted \subseteq [db : Databases, path : KeyPaths, key : KeyTexts]
    /\ signed \subseteq [path : JwtPaths, given : GivenSecrets \cup {Omitted}, secret : Secrets]
    /\ drawn \in Nat /\ starts \in 0..MaxStarts /\ edits \in 0..MaxEdits
    /\ mishaps \subseteq Mishaps

Init ==
    /\ candidates \in [1..Candidates -> Contents \cup {Absent}]
    /\ keyFile = [f \in KeyPaths |-> Absent] /\ jwtFile = [f \in JwtPaths |-> Absent]
    /\ proc = [p \in Processes |-> Stopped]
    /\ uses \in 1..2
    /\ encrypted = {} /\ signed = {}
    /\ drawn = 0
    /\ starts = 0 /\ edits = 0 /\ mishaps = {}

Goto(p, q) == proc' = [proc EXCEPT ![p] = q]
SameData == UNCHANGED <<setting, encrypted, signed>>
Happens(condition, mishap) == mishaps' = IF condition THEN mishaps \cup {mishap} ELSE mishaps

-----------------------------------------------------------------------------
(* The configuration is edited, and read twice.                             *)

Edit(i, content) ==
    /\ edits < MaxEdits /\ edits' = edits + 1
    /\ candidates[i] # content
    /\ candidates' = [candidates EXCEPT ![i] = content]
    /\ Happens(/\ LoadConfigFile(candidates') # LoadConfigFile(candidates)
               /\ \E p \in Processes : proc[p].pc = "readConfig", "editDuringStart")
    /\ UNCHANGED <<files, proc, uses, encrypted, signed, drawn, starts>>

\* getDatabaseConfig throws if there is no driver, and the process ends.
Start(p) ==
    /\ proc[p].pc = "stopped"
    /\ starts < MaxStarts /\ starts' = starts + 1
    /\ Happens(\E q \in Processes : IsStarting(q), "overlap")
    /\ LET db == DatabaseOf(LoadConfigFile(candidates)) IN
         Goto(p, IF db = NoDatabase THEN Stopped
                 ELSE [Stopped EXCEPT !.pc = "readConfig", !.db = db])
    /\ SameData /\ UNCHANGED <<files, drawn>>

ReadConfig(p) ==
    /\ proc[p].pc = "readConfig"
    /\ Goto(p, [proc[p] EXCEPT !.pc = "readJwt", !.config = LoadConfigFile(candidates)])
    /\ SameData /\ UNCHANGED <<files, drawn, starts, mishaps>>

\* A file that is not there, or that readFile fails on for another reason.
Unreadable(file) == Happens(file # Absent, "readError")

-----------------------------------------------------------------------------
(* getOrCreateJwtSecret, when the JwtModule is built.                       *)

UseJwtSecret(p, secret) == Goto(p, [proc[p] EXCEPT !.pc = "readKey", !.jwt = secret])

GetJwtSecretNotReturned(p) ==  \* Mutant: nothing is returned after the secret is stored.
    /\ proc[p].pc = "readJwt"
    /\ proc[p].config.jwt = Omitted
    /\ Unreadable(jwtFile[JwtPathOf(p)])
    /\ UseJwtSecret(p, Absent)
    /\ SameData /\ UNCHANGED <<files, drawn, starts>>

GetJwtSecret(p) ==
    /\ proc[p].pc = "readJwt"
    /\ \/ /\ proc[p].config.jwt # Omitted
          /\ UseJwtSecret(p, proc[p].config.jwt)
       \/ /\ proc[p].config.jwt = Omitted /\ jwtFile[JwtPathOf(p)] # Absent
          /\ UseJwtSecret(p, jwtFile[JwtPathOf(p)])
    /\ SameData /\ UNCHANGED <<files, drawn, starts, mishaps>>

CreateJwtSecret(p) ==
    /\ proc[p].pc = "readJwt"
    /\ proc[p].config.jwt = Omitted
    /\ Unreadable(jwtFile[JwtPathOf(p)])
    /\ drawn' = drawn + 1
    /\ Goto(p, [proc[p] EXCEPT !.pc = "openJwt", !.jwt = drawn'])
    /\ SameData /\ UNCHANGED <<files, starts>>

OpenJwtFile(p) ==
    /\ proc[p].pc = "openJwt"
    /\ jwtFile' = [jwtFile EXCEPT ![JwtPathOf(p)] = Empty]
    /\ Goto(p, [proc[p] EXCEPT !.pc = "writeJwt"])
    /\ SameData /\ UNCHANGED <<keyFile, drawn, starts, mishaps>>

WriteNoJwtFile(p) ==  \* Mutant: the write fails, and nobody looks.
    /\ proc[p].pc = "writeJwt"
    /\ UseJwtSecret(p, proc[p].jwt)
    /\ SameData /\ UNCHANGED <<files, drawn, starts, mishaps>>

WriteJwtFile(p) ==
    /\ proc[p].pc = "writeJwt"
    /\ jwtFile' = [jwtFile EXCEPT ![JwtPathOf(p)] = proc[p].jwt]
    /\ UseJwtSecret(p, proc[p].jwt)
    /\ SameData /\ UNCHANGED <<keyFile, drawn, starts, mishaps>>

-----------------------------------------------------------------------------
(* EnvService.onModuleInit, by the one instance and then by the other.  The *)
(* key is written even if it was just read.                                 *)

Load(p, key) == Goto(p, [proc[p] EXCEPT !.pc = "openKey", !.loaded = key])

ReadKey(p) ==
    /\ proc[p].pc = "readKey"
    /\ \/ LET given == proc[p].config.database.key IN
          /\ given # Omitted
          /\ Load(p, given)
          /\ mishaps' = mishaps
               \cup {m \in {"keyReplaced"} : keyFile[KeyPathOf(p)] \notin {Absent, Empty, given}}
               \cup {m \in {"malformedKey"} : given \in MalformedKeys}
       \/ /\ proc[p].config.database.key = Omitted /\ keyFile[KeyPathOf(p)] # Absent
          /\ Load(p, keyFile[KeyPathOf(p)])
          /\ UNCHANGED mishaps
    /\ SameData /\ UNCHANGED <<files, drawn, starts>>

GenerateNoKey(p) ==  \* Mutant: without a key there is none.
    /\ proc[p].pc = "readKey" /\ proc[p].config.database.key = Omitted
    /\ Unreadable(keyFile[KeyPathOf(p)])
    /\ proc[p].config.database.mayGenerate /\ drawn' = drawn /\ Load(p, Empty)
    /\ SameData /\ UNCHANGED <<files, starts>>

GenerateKeyAlways(p) ==  \* Mutant: a key is drawn whether or not there is one.
    /\ proc[p].pc = "readKey" /\ proc[p].config.database.key = Omitted
    /\ proc[p].config.database.mayGenerate /\ drawn' = drawn + 1 /\ Load(p, drawn')
    /\ SameData /\ UNCHANGED <<files, starts, mishaps>>

\* Without a key to read one is drawn, or the start fails.
GenerateKey(p) ==
    /\ proc[p].pc = "readKey"
    /\ proc[p].config.database.key = Omitted
    /\ Unreadable(keyFile[KeyPathOf(p)])
    /\ \/ proc[p].config.database.mayGenerate /\ drawn' = drawn + 1 /\ Load(p, drawn')
       \/ ~proc[p].config.database.mayGenerate /\ Goto(p, Stopped) /\ UNCHANGED drawn
    /\ SameData /\ UNCHANGED <<files, starts>>

\* writeFile empties the file, and then fills it.
OpenKeyFile(p) ==
    /\ proc[p].pc = "openKey"
    /\ keyFile' = [keyFile EXCEPT ![KeyPathOf(p)] = Empty]
    /\ Goto(p, [proc[p] EXCEPT !.pc = "writeKey"])
    /\ SameData /\ UNCHANGED <<jwtFile, drawn, starts, mishaps>>

Initialised(p) ==
    [proc[p] EXCEPT !.pc = IF proc[p].loads = 1 THEN "readKey" ELSE "running",
                    !.loads = 2, !.loaded = Empty,
                    !.key = IF proc[p].loads = uses THEN FromHex(proc[p].loaded) ELSE proc[p].key]

WriteNoKeyFile(p) ==  \* Mutant: the write fails, and nobody looks.
    /\ proc[p].pc = "writeKey"
    /\ Goto(p, Initialised(p))
    /\ SameData /\ UNCHANGED <<files, drawn, starts, mishaps>>

WriteKeyFile(p) ==
    /\ proc[p].pc = "writeKey"
    /\ keyFile' = [keyFile EXCEPT ![KeyPathOf(p)] = proc[p].loaded]
    /\ Goto(p, Initialised(p))
    /\ SameData /\ UNCHANGED <<jwtFile, drawn, starts, mishaps>>

-----------------------------------------------------------------------------
(* A running operator encrypts columns and signs tokens; it cannot do so    *)
(* with an empty or malformed key, or an empty secret.                      *)

Encrypt(p) ==
    /\ IsRunning(p) /\ proc[p].key # Empty
    /\ encrypted' = encrypted \cup {[db |-> proc[p].db, path |-> KeyPathOf(p), key |-> proc[p].key]}
    /\ UNCHANGED <<setting, files, proc, signed, drawn, starts, mishaps>>

Sign(p) ==
    /\ IsRunning(p) /\ proc[p].jwt # Empty
    /\ signed' = signed \cup
         {[path |-> JwtPathOf(p), given |-> proc[p].config.jwt, secret |-> proc[p].jwt]}
    /\ UNCHANGED <<setting, files, proc, encrypted, drawn, starts, mishaps>>

Crash(p) ==
    /\ proc[p].pc # "stopped"
    /\ Happens(proc[p].pc \in {"writeJwt", "writeKey"}, "tornWrite")
    /\ Goto(p, Stopped)
    /\ SameData /\ UNCHANGED <<files, drawn, starts>>

Step(p) ==
    \/ ReadConfig(p)
    \/ GetJwtSecret(p) \/ CreateJwtSecret(p) \/ OpenJwtFile(p) \/ WriteJwtFile(p)
    \/ ReadKey(p) \/ GenerateKey(p) \/ OpenKeyFile(p) \/ WriteKeyFile(p)
    \/ Encrypt(p) \/ Sign(p)

Next ==
    \/ \E p \in Processes : Start(p) \/ Step(p) \/ Crash(p)
    \/ \E i \in 1..Candidates, content \in Contents \cup {Absent, Invalid} : Edit(i, content)

Spec == Init /\ [][Next]_vars

-----------------------------------------------------------------------------
(* Properties, each with the mishaps it does not survive.  A process that    *)
(* starts while another one writes, or after one died in a write, reads an  *)
(* empty file; one that cannot read a file replaces it by a new secret.     *)

Spared(M) == mishaps \cap M = {}

\* A running operator can encrypt, and sign tokens, whatever processes died
\* before it, whether or not its files could be read, and whichever keys were
\* configured, replaced and taken out of the configuration again; but a key that
\* is not hexadecimal is taken without a complaint.
RunningHasSecrets ==
    Spared({"tornWrite", "overlap", "malformedKey"}) =>
        \A p \in Processes : IsRunning(p) => proc[p].key # Empty /\ proc[p].jwt # Empty

\* Whatever any operator encrypted, before any number of restarts, a running one
\* has the key for, also after that key was taken out of the configuration or
\* put into it, as long as no other one was configured in its place and the file
\* of the key has the same name: in a SQLite file, and in the database of a server
\* if the operators that use it have the same home directory.
StoredIsReadable ==
    Spared(Mishaps \ {"malformedKey"}) =>
        \A p \in Processes, e \in encrypted :
            /\ IsRunning(p) /\ e.db = proc[p].db /\ e.path.name = KeyPathOf(p).name
            /\ e.db.driver = "sqlite" \/ e.path.home = KeyPathOf(p).home
            => e.key = proc[p].key

\* No restart takes the tokens of the administrators away, unless the secret in
\* the configuration changes, or the name of its file: the file is written once,
\* so that it does not matter if a process died while writing a key, nor which
\* secrets were configured in between.
TokensSurvive ==
    Spared({"readError", "overlap"}) =>
        \A p \in Processes, t \in signed :
            IsRunning(p) /\ t.path = JwtPathOf(p) /\ t.given = proc[p].config.jwt
                => t.secret = proc[p].jwt

\* The key a running operator works with is the one in its file, though the file
\* is written by another instance of EnvService and by other processes, and also
\* if it is one that nothing can be encrypted with.
RunningKeyIsStored ==
    /\ Spared(Mishaps \ {"editDuringStart", "malformedKey"})
    /\ \A p \in Processes : ~IsStarting(p)
    => \A p \in Processes : IsRunning(p) => FromHex(keyFile[KeyPathOf(p)]) = proc[p].key
=============================================================================

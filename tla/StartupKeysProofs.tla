-------------------------- MODULE StartupKeysProofs --------------------------
(***************************************************************************)
(* Proofs about StartupKeys, for any number of processes, homes, names of  *)
(* files, configured keys and secrets, starts and edits, and for any       *)
(* configuration files the schema accepts.                                 *)
(***************************************************************************)
EXTENDS StartupKeys, TLAPS, WellFoundedInduction

(***************************************************************************)
(* The inductive invariant.                                                *)
(***************************************************************************)

\* Unless two starts overlapped, one process at most is starting: what it found
\* in a file is still there when it writes.
OneStarts ==
    Spared({"overlap"}) =>
        \A p, q \in Processes : IsStarting(p) /\ IsStarting(q) => p = q

\* Before the keys are read neither EnvService was initialised, and when the
\* process runs both were.
LoadsInOrder ==
    \A p \in Processes :
        /\ proc[p].pc \in {"readConfig", "readJwt", "openJwt", "writeJwt"} => proc[p].loads = 1
        /\ IsRunning(p) => proc[p].loads = 2

HasJwt(p) == proc[p].pc \in {"readKey", "openKey", "writeKey", "running"}
HasLoaded(p) == proc[p].pc \in {"openKey", "writeKey"}
HasKey(p) == proc[p].loads = 2 /\ (uses = 1 \/ IsRunning(p))

\* An empty file is one that a process is about to fill; so no process reads one.
EmptyIsBeingWritten ==
    Spared({"tornWrite", "overlap"}) =>
        /\ \A f \in JwtPaths : jwtFile[f] = Empty =>
               \E p \in Processes : proc[p].pc = "writeJwt" /\ JwtPathOf(p) = f
        /\ \A f \in KeyPaths : keyFile[f] = Empty =>
               \E p \in Processes : proc[p].pc = "writeKey" /\ KeyPathOf(p) = f

\* Unless one was configured, no malformed key is in a file or on its way there.
MalformedIsConfigured ==
    Spared({"malformedKey"}) =>
        /\ \A f \in KeyPaths : keyFile[f] \notin MalformedKeys
        /\ \A p \in Processes : proc[p].loaded \notin MalformedKeys

SecretsAreNotEmpty ==
    Spared({"tornWrite", "overlap"}) =>
        \A p \in Processes :
            /\ HasJwt(p) \/ proc[p].pc \in {"openJwt", "writeJwt"} => proc[p].jwt # Empty
            /\ HasLoaded(p) => proc[p].loaded # Empty
            /\ HasKey(p) /\ Spared({"malformedKey"}) => proc[p].key # Empty

\* The secret of every process, and of every token, is the one its configuration
\* gave, or else the content of the file: that is only written where there was
\* none, and then no process works with it.
JwtFileIsKept ==
    Spared({"readError", "overlap"}) =>
        /\ \A p \in Processes : HasJwt(p) =>
               proc[p].jwt = Given(proc[p].config.jwt, jwtFile[JwtPathOf(p)])
        /\ \A t \in signed :
               t.secret # Empty /\ t.secret = Given(t.given, jwtFile[t.path])
        /\ \A p \in Processes :
               proc[p].pc \in {"openJwt", "writeJwt"} => proc[p].config.jwt = Omitted
        /\ \A p \in Processes : proc[p].pc = "openJwt" => jwtFile[JwtPathOf(p)] = Absent
        /\ \A p, q \in Processes :
               proc[p].pc = "writeJwt" /\ HasJwt(q) /\ JwtPathOf(q) = JwtPathOf(p)
                   => proc[q].config.jwt # Omitted
        /\ \A p \in Processes : proc[p].pc = "writeJwt" => jwtFile[JwtPathOf(p)] = Empty

\* Text k is in file f, or a process that found it there, or got it from its
\* configuration, has emptied the file and is about to write it.
Holds(f, k) ==
    \/ keyFile[f] = k
    \/ /\ keyFile[f] = Empty
       /\ \E q \in Processes :
              proc[q].pc = "writeKey" /\ KeyPathOf(q) = f /\ proc[q].loaded = k

KeyIsSafe == Spared({"readError", "tornWrite", "overlap", "keyReplaced"})

\* The key of every process is made of the text its file holds, and the key of
\* every column is held by the file it came from; a text is written where there
\* was none or where it already was.
KeyFileIsKept ==
    KeyIsSafe =>
        /\ \A p \in Processes : HasKey(p) =>
               \E k \in KeyTexts :
                   k # Empty /\ Holds(KeyPathOf(p), k) /\ proc[p].key = FromHex(k)
        /\ \A e \in encrypted :
               e.key # Empty /\ e.key \notin MalformedKeys /\ Holds(e.path, e.key)
        /\ \A p \in Processes :
               proc[p].pc = "openKey" => keyFile[KeyPathOf(p)] \in {Absent, proc[p].loaded}
        /\ \A p \in Processes : proc[p].pc = "writeKey" => keyFile[KeyPathOf(p)] = Empty

\* The database of the first read of the configuration is that of the second, so
\* that an SQLite file lies in the home directory its key is kept in.
DatabaseIsOfConfig ==
    Spared({"editDuringStart"}) =>
        /\ \A p \in Processes : proc[p].pc # "stopped" =>
               proc[p].db = DatabaseOf(IF proc[p].pc = "readConfig" THEN LoadConfigFile(candidates)
                                       ELSE proc[p].config)
        /\ \A e \in encrypted : e.db.driver = "sqlite" => e.db.home = e.path.home

IInv ==
    /\ TypeOK
    /\ OneStarts /\ LoadsInOrder
    /\ EmptyIsBeingWritten /\ MalformedIsConfigured /\ SecretsAreNotEmpty
    /\ JwtFileIsKept /\ KeyFileIsKept /\ DatabaseIsOfConfig

-----------------------------------------------------------------------------
(* The configuration.                                                       *)

\* A set of numbers that is not empty has a smallest one.
LEMMA SmallestExists ==
    ASSUME NEW T, T \subseteq Nat, T # {}
    PROVE  \E m \in T : \A n \in T : m <= n
<1>. DEFINE Less == {ss \in Nat \X Nat : ss[1] < ss[2]}
<1>1. IsWellFoundedOn(Less, Nat)
  BY NatLessThanWellFounded DEF OpToRel
<1>. HIDE DEF Less
<1>2. PICK m \in T : \A n \in T : ~(<<n, m>> \in Less)
  BY <1>1, WFMin
<1>3. \A n \in T : ~(n < m)
  BY <1>2 DEF Less
<1>. QED
  BY <1>3

LEMMA ParseTyped ==
    ASSUME NEW c \in Content
    PROVE  Parse(c) \in Config
<1>1. DefaultSection \in Section
  BY DefaultsAssumption DEF DefaultSection, Section
<1>2. /\ Given(c.home, DefaultHome) \in Homes
      /\ Given(c.keyName, DefaultKeyName) \in KeyNames
      /\ Given(c.jwtName, DefaultJwtName) \in JwtNames
  BY DefaultsAssumption DEF Content, Given
<1>3. /\ Given(c.database, DefaultSection) \in Section
      /\ c.jwt \in GivenSecrets \cup {Omitted}
  BY <1>1 DEF Content, Given
<1>. QED
  BY <1>2, <1>3 DEF Parse, Config

LEMMA DefaultTyped == DefaultConfig \in Config
<1>1. [home |-> Omitted, keyName |-> Omitted, jwtName |-> Omitted,
       database |-> Omitted, jwt |-> Omitted] \in Content
  BY DEF Content
<1>. QED
  BY <1>1, ParseTyped DEF DefaultConfig

\* Whatever the files are, the configuration that is read is one.
LEMMA LoadedTyped ==
    ASSUME NEW cand \in [1..Candidates -> Contents \cup {Absent, Invalid}]
    PROVE  LoadConfigFile(cand) \in Config
<1>. DEFINE R == Readable(cand)
<1>1. CASE R = {}
  BY <1>1, DefaultTyped DEF LoadConfigFile
<1>2. CASE R # {}
  <2>1. R \subseteq Nat
    BY BoundsAssumption DEF Readable
  <2>. DEFINE i == CHOOSE i \in R : \A j \in R : i <= j
  <2>2. i \in R
    BY <1>2, <2>1, SmallestExists
  <2>3. cand[i] \in Content
    BY <2>2, ContentsAssumption DEF Readable
  <2>. QED
    BY <1>2, <2>3, ParseTyped DEF LoadConfigFile
<1>. QED
  BY <1>1, <1>2

LEMMA DatabaseTyped ==
    ASSUME NEW c \in Config
    PROVE  /\ DatabaseOf(c) \in Databases
           /\ DatabaseOf(c).driver = "sqlite" => DatabaseOf(c).home = c.home
<1>. PICK d : d = c.database
  OBVIOUS
<1>1. /\ c.home \in Homes
      /\ d.postgresql \in Servers \cup {Omitted} /\ d.mysql \in Servers \cup {Omitted}
      /\ d.sqlite \in DatabaseNames \cup {Omitted}
  BY DEF Config, Section
<1>2. NoDatabase \in Databases /\ NoDatabase.driver # "sqlite"
  BY DEF NoDatabase, Databases
<1>3. CASE d.postgresql # Omitted
  BY <1>1, <1>3 DEF DatabaseOf, Databases, Drivers
<1>4. CASE d.postgresql = Omitted /\ d.mysql # Omitted
  BY <1>1, <1>4 DEF DatabaseOf, Databases, Drivers
<1>5. CASE d.postgresql = Omitted /\ d.mysql = Omitted /\ d.sqlite # Omitted
  BY <1>1, <1>5 DEF DatabaseOf, Databases, Drivers
<1>6. CASE d.postgresql = Omitted /\ d.mysql = Omitted /\ d.sqlite = Omitted
  BY <1>2, <1>6 DEF DatabaseOf
<1>. QED
  BY <1>3, <1>4, <1>5, <1>6

-----------------------------------------------------------------------------
(* Types.                                                                   *)

LEMMA StoppedTyped ==
    /\ Stopped \in Process /\ Stopped.pc = "stopped" /\ Stopped.loads = 1
    /\ NoDatabase \in Databases
<1>1. NoDatabase \in Databases
  BY DEF NoDatabase, Databases
<1>. QED
  BY <1>1, DefaultTyped DEF Stopped, Process, Empty, KeyTexts, Secrets

\* A step that gives process p the state q.
LEMMA GotoTyped ==
    ASSUME proc \in [Processes -> Process], NEW p \in Processes, NEW q \in Process, Goto(p, q)
    PROVE  /\ proc' \in [Processes -> Process] /\ proc'[p] = q
           /\ \A o \in Processes : o # p => proc'[o] = proc[o]
BY DEF Goto

LEMMA PathsTyped ==
    ASSUME TypeOK, NEW p \in Processes
    PROVE  KeyPathOf(p) \in KeyPaths /\ JwtPathOf(p) \in JwtPaths
<1>1. proc[p].config \in Config
  BY DEF TypeOK, Process
<1>. QED
  BY <1>1 DEF Config, KeyPathOf, JwtPathOf, KeyPaths, JwtPaths

\* What is left of the loading of one instance.
LEMMA InitialisedTyped ==
    ASSUME proc \in [Processes -> Process], NEW p \in Processes
    PROVE  /\ Initialised(p) \in Process
           /\ Initialised(p).pc = IF proc[p].loads = 1 THEN "readKey" ELSE "running"
           /\ Initialised(p).loads = 2 /\ Initialised(p).loaded = Empty
           /\ Initialised(p).key =
                  IF proc[p].loads = uses THEN FromHex(proc[p].loaded) ELSE proc[p].key
           /\ Initialised(p).jwt = proc[p].jwt /\ Initialised(p).config = proc[p].config
           /\ Initialised(p).db = proc[p].db
<1>. DEFINE pc == IF proc[p].loads = 1 THEN "readKey" ELSE "running"
            key == IF proc[p].loads = uses THEN FromHex(proc[p].loaded) ELSE proc[p].key
<1>1. proc[p] \in Process
  OBVIOUS
<1>2. pc \in {"readKey", "running"} /\ key \in KeyTexts
  BY <1>1 DEF Process, FromHex, KeyTexts, Empty
<1>3. Initialised(p) = [proc[p] EXCEPT !.pc = pc, !.loads = 2, !.loaded = Empty, !.key = key]
  BY DEF Initialised
<1>. HIDE DEF pc, key
<1>4. Initialised(p) \in Process
  <2>1. \A r \in Process : [r EXCEPT !.pc = pc] \in Process
    BY <1>2 DEF Process
  <2>2. \A r \in Process : [r EXCEPT !.loads = 2] \in Process
    BY DEF Process
  <2>3. \A r \in Process : [r EXCEPT !.loaded = Empty, !.key = key] \in Process
    BY <1>2 DEF Process, Empty, KeyTexts
  <2>. QED
    BY <1>1, <1>3, <2>1, <2>2, <2>3
<1>5. /\ Initialised(p).pc = pc /\ Initialised(p).loads = 2 /\ Initialised(p).key = key
      /\ Initialised(p).loaded = Empty
      /\ Initialised(p).jwt = proc[p].jwt /\ Initialised(p).config = proc[p].config
      /\ Initialised(p).db = proc[p].db
  BY <1>1, <1>3 DEF Process
<1>. QED
  BY <1>4, <1>5 DEF pc, key

LEMMA TypeInit == Init => TypeOK
BY StoppedTyped, BoundsAssumption DEF Init, TypeOK

LEMMA TypeNext == TypeOK /\ [Next]_vars => TypeOK'
<1>. SUFFICES ASSUME TypeOK, [Next]_vars PROVE TypeOK'
  OBVIOUS
<1>. USE BoundsAssumption
<1>1. ASSUME NEW p \in Processes, Start(p) PROVE TypeOK'
  <2>. DEFINE db == DatabaseOf(LoadConfigFile(candidates))
  <2>1. db \in Databases
    BY LoadedTyped, DatabaseTyped DEF TypeOK
  <2>. HIDE DEF db
  <2>2. /\ Stopped \in Process
        /\ [Stopped EXCEPT !.pc = "readConfig", !.db = db] \in Process
    BY <2>1, StoppedTyped DEF Process
  <2>3. proc' \in [Processes -> Process]
    BY <1>1, <2>2 DEF Start, Goto, TypeOK, db
  <2>4. mishaps' \subseteq Mishaps /\ starts' \in 0..MaxStarts
    BY <1>1 DEF Start, Happens, TypeOK, Mishaps
  <2>. QED
    BY <1>1, <2>3, <2>4 DEF Start, TypeOK, SameData, setting, files
<1>2. ASSUME NEW p \in Processes, ReadConfig(p) PROVE TypeOK'
  <2>1. LoadConfigFile(candidates) \in Config
    BY LoadedTyped DEF TypeOK
  <2>2. [proc[p] EXCEPT !.pc = "readJwt", !.config = LoadConfigFile(candidates)] \in Process
    BY <2>1 DEF TypeOK, Process
  <2>3. proc' \in [Processes -> Process]
    BY <1>2, <2>2 DEF ReadConfig, Goto, TypeOK
  <2>. QED
    BY <1>2, <2>3 DEF ReadConfig, TypeOK, SameData, setting, files
<1>3. ASSUME NEW p \in Processes, GetJwtSecret(p) \/ CreateJwtSecret(p) PROVE TypeOK'
  <2>0. JwtPathOf(p) \in JwtPaths /\ proc[p].config.jwt \in GivenSecrets \cup {Omitted}
    BY PathsTyped DEF TypeOK, Process, Config
  <2>1. \A s \in Secrets : \A pc \in {"readKey", "openJwt"} :
          [proc[p] EXCEPT !.pc = pc, !.jwt = s] \in Process
    BY DEF TypeOK, Process
  <2>2. jwtFile[JwtPathOf(p)] # Absent => jwtFile[JwtPathOf(p)] \in Secrets
    BY <2>0 DEF TypeOK
  <2>3. drawn' \in Nat
    BY <1>3 DEF GetJwtSecret, CreateJwtSecret, TypeOK
  <2>4. PICK q \in Process : Goto(p, q)
    <3>1. CASE CreateJwtSecret(p)
      BY <2>1, <2>3, <3>1 DEF CreateJwtSecret, Secrets
    <3>2. CASE GetJwtSecret(p)
      <4>1. PICK s \in Secrets : UseJwtSecret(p, s)
        BY <2>0, <2>2, <3>2 DEF GetJwtSecret, Secrets
      <4>. QED
        BY <2>1, <4>1 DEF UseJwtSecret
    <3>. QED
      BY <1>3, <3>1, <3>2
  <2>5. proc' \in [Processes -> Process]
    BY <2>4, GotoTyped DEF TypeOK
  <2>6. mishaps' \subseteq Mishaps
    BY <1>3 DEF GetJwtSecret, CreateJwtSecret, Unreadable, Happens, TypeOK, Mishaps
  <2>. QED
    BY <1>3, <2>3, <2>5, <2>6 DEF GetJwtSecret, CreateJwtSecret, TypeOK, SameData, setting, files
<1>4. ASSUME NEW p \in Processes, OpenJwtFile(p) \/ WriteJwtFile(p) PROVE TypeOK'
  <2>1. /\ [proc[p] EXCEPT !.pc = "writeJwt"] \in Process
        /\ [proc[p] EXCEPT !.pc = "readKey", !.jwt = proc[p].jwt] \in Process
        /\ proc[p].jwt \in Secrets /\ Empty \in Secrets
    BY DEF TypeOK, Process, Empty, Secrets
  <2>2. proc' \in [Processes -> Process]
    BY <1>4, <2>1 DEF OpenJwtFile, WriteJwtFile, UseJwtSecret, Goto, TypeOK
  <2>3. jwtFile' \in [JwtPaths -> Secrets \cup {Absent}]
    BY <1>4, <2>1 DEF OpenJwtFile, WriteJwtFile, TypeOK
  <2>. QED
    BY <1>4, <2>2, <2>3 DEF OpenJwtFile, WriteJwtFile, TypeOK, SameData, setting, files
<1>5. ASSUME NEW p \in Processes, ReadKey(p) \/ GenerateKey(p) PROVE TypeOK'
  <2>0. /\ KeyPathOf(p) \in KeyPaths
        /\ proc[p].config.database.key \in GivenKeys \cup {Omitted}
    BY PathsTyped DEF TypeOK, Process, Config, Section
  <2>1. \A k \in KeyTexts : [proc[p] EXCEPT !.pc = "openKey", !.loaded = k] \in Process
    BY DEF TypeOK, Process
  <2>2. keyFile[KeyPathOf(p)] # Absent => keyFile[KeyPathOf(p)] \in KeyTexts
    BY <2>0 DEF TypeOK
  <2>3. drawn' \in Nat
    BY <1>5 DEF ReadKey, GenerateKey, TypeOK
  <2>4. PICK q \in Process : Goto(p, q)
    <3>1. Goto(p, Stopped) \/ \E k \in KeyTexts : Load(p, k)
      BY <1>5, <2>0, <2>2, <2>3 DEF ReadKey, GenerateKey, KeyTexts
    <3>. QED
      BY <2>1, <3>1, StoppedTyped DEF Load
  <2>5. proc' \in [Processes -> Process]
    BY <2>4, GotoTyped DEF TypeOK
  <2>6. mishaps' \subseteq Mishaps
    BY <1>5 DEF ReadKey, GenerateKey, Unreadable, Happens, TypeOK, Mishaps
  <2>. QED
    BY <1>5, <2>3, <2>5, <2>6 DEF ReadKey, GenerateKey, TypeOK, SameData, setting, files
<1>6. ASSUME NEW p \in Processes, OpenKeyFile(p) \/ WriteKeyFile(p) PROVE TypeOK'
  <2>1. /\ [proc[p] EXCEPT !.pc = "writeKey"] \in Process
        /\ proc[p].loaded \in KeyTexts /\ Empty \in KeyTexts
    BY DEF TypeOK, Process, Empty, KeyTexts
  <2>2. Initialised(p) \in Process
    BY InitialisedTyped DEF TypeOK
  <2>3. proc' \in [Processes -> Process]
    BY <1>6, <2>1, <2>2 DEF OpenKeyFile, WriteKeyFile, Goto, TypeOK
  <2>4. keyFile' \in [KeyPaths -> KeyTexts \cup {Absent}]
    BY <1>6, <2>1 DEF OpenKeyFile, WriteKeyFile, TypeOK
  <2>. QED
    BY <1>6, <2>3, <2>4 DEF OpenKeyFile, WriteKeyFile, TypeOK, SameData, setting, files
<1>7. ASSUME NEW p \in Processes, Encrypt(p) \/ Sign(p) PROVE TypeOK'
  <2>1. /\ proc[p].db \in Databases /\ proc[p].key \in KeyTexts /\ proc[p].jwt \in Secrets
        /\ KeyPathOf(p) \in KeyPaths /\ JwtPathOf(p) \in JwtPaths
        /\ proc[p].config.jwt \in GivenSecrets \cup {Omitted}
    BY PathsTyped DEF TypeOK, Process, Config
  <2>2. /\ encrypted' \subseteq [db : Databases, path : KeyPaths, key : KeyTexts]
        /\ signed' \subseteq [path : JwtPaths, given : GivenSecrets \cup {Omitted},
                              secret : Secrets]
    BY <1>7, <2>1 DEF Encrypt, Sign, TypeOK
  <2>. QED
    BY <1>7, <2>2 DEF Encrypt, Sign, TypeOK, setting, files
<1>8. ASSUME NEW p \in Processes, Crash(p) PROVE TypeOK'
  <2>1. proc' \in [Processes -> Process]
    BY <1>8, StoppedTyped DEF Crash, Goto, TypeOK
  <2>2. mishaps' \subseteq Mishaps
    BY <1>8 DEF Crash, Happens, TypeOK, Mishaps
  <2>. QED
    BY <1>8, <2>1, <2>2 DEF Crash, TypeOK, SameData, setting, files
<1>9. ASSUME NEW i \in 1..Candidates, NEW content \in Contents \cup {Absent, Invalid},
             Edit(i, content)
      PROVE  TypeOK'
  <2>1. mishaps' \subseteq Mishaps
    BY <1>9 DEF Edit, Happens, TypeOK, Mishaps
  <2>. QED
    BY <1>9, <2>1 DEF Edit, TypeOK, files
<1>10. CASE UNCHANGED vars
  BY <1>10 DEF vars, TypeOK
<1>. QED
  BY <1>1, <1>2, <1>3, <1>4, <1>5, <1>6, <1>7, <1>8, <1>9, <1>10 DEF Next, Step

\* Every variable has its type, in every reachable state.
THEOREM TypeCorrect == Spec => []TypeOK
<1>. QED
  BY TypeInit, TypeNext, PTL DEF Spec

-----------------------------------------------------------------------------
(* What every step does to the processes: process p goes on, and the others *)
(* stay as they are.                                                        *)

Acts(p) == Start(p) \/ Step(p) \/ Crash(p)

LEMMA OthersStay ==
    ASSUME TypeOK, NEW p \in Processes, Acts(p)
    PROVE  \A o \in Processes : o # p => proc'[o] = proc[o]
BY DEF Acts, TypeOK, Goto, Start, Crash, Step, ReadConfig, GetJwtSecret, CreateJwtSecret,
       OpenJwtFile, WriteJwtFile, ReadKey, GenerateKey, OpenKeyFile, WriteKeyFile, Encrypt, Sign,
       UseJwtSecret, Load

LEMMA UsesStay ==
    ASSUME NEW p \in Processes, Acts(p)
    PROVE  uses' = uses
BY DEF Acts, Start, Crash, Step, ReadConfig, GetJwtSecret, CreateJwtSecret, OpenJwtFile,
       WriteJwtFile, ReadKey, GenerateKey, OpenKeyFile, WriteKeyFile, Encrypt, Sign, SameData,
       setting

LEMMA MishapsStay ==
    ASSUME [Next]_vars, NEW M, Spared(M)'
    PROVE  Spared(M)
<1>1. mishaps \subseteq mishaps'
  BY DEF Next, Step, Start, Crash, Edit, ReadConfig, GetJwtSecret, CreateJwtSecret,
         OpenJwtFile, WriteJwtFile, ReadKey, GenerateKey, OpenKeyFile, WriteKeyFile, Encrypt, Sign,
         Unreadable, Happens, vars
<1>. QED
  BY <1>1 DEF Spared

\* The part of a process that no step but the reads of the configuration changes.
SameConfig(p) ==
    /\ proc'[p].db = proc[p].db /\ proc'[p].config = proc[p].config
    /\ KeyPathOf(p)' = KeyPathOf(p) /\ JwtPathOf(p)' = JwtPathOf(p)

\* What each step does to the process that takes it.
LEMMA StartEffect ==
    ASSUME TypeOK, NEW p \in Processes, Start(p)
    PROVE  /\ proc[p].pc = "stopped"
           /\ \/ proc'[p] = Stopped
              \/ /\ proc'[p].pc = "readConfig" /\ proc'[p].loads = 1
                 /\ proc'[p].db = DatabaseOf(LoadConfigFile(candidates))
BY StoppedTyped DEF Start, Goto, TypeOK, Process

LEMMA ReadConfigEffect ==
    ASSUME TypeOK, NEW p \in Processes, ReadConfig(p)
    PROVE  /\ proc'[p].loaded = proc[p].loaded
           /\ proc[p].pc = "readConfig" /\ proc'[p].pc = "readJwt"
           /\ proc'[p].config = LoadConfigFile(candidates)
           /\ proc'[p].db = proc[p].db /\ proc'[p].loads = proc[p].loads
BY DEF ReadConfig, Goto, TypeOK, Process

LEMMA GetJwtSecretEffect ==
    ASSUME TypeOK, NEW p \in Processes, GetJwtSecret(p)
    PROVE  /\ proc'[p].loaded = proc[p].loaded
           /\ SameConfig(p)
           /\ proc'[p].loads = proc[p].loads /\ proc'[p].key = proc[p].key
           /\ proc[p].pc = "readJwt" /\ proc'[p].pc = "readKey"
           /\ proc'[p].jwt = Given(proc[p].config.jwt, jwtFile[JwtPathOf(p)])
           /\ proc[p].config.jwt = Omitted => jwtFile[JwtPathOf(p)] # Absent
<1>1. PICK s : /\ proc' = [proc EXCEPT ![p] = [proc[p] EXCEPT !.pc = "readKey", !.jwt = s]]
               /\ s = Given(proc[p].config.jwt, jwtFile[JwtPathOf(p)])
               /\ proc[p].config.jwt = Omitted => jwtFile[JwtPathOf(p)] # Absent
  BY DEF GetJwtSecret, UseJwtSecret, Goto, Given
<1>2. proc[p].pc = "readJwt"
  BY DEF GetJwtSecret
<1>. QED
  BY <1>1, <1>2 DEF TypeOK, Process, SameConfig, KeyPathOf, JwtPathOf

LEMMA CreateJwtSecretEffect ==
    ASSUME TypeOK, NEW p \in Processes, CreateJwtSecret(p)
    PROVE  /\ proc'[p].loaded = proc[p].loaded
           /\ SameConfig(p)
           /\ proc'[p].loads = proc[p].loads /\ proc'[p].key = proc[p].key
           /\ proc[p].pc = "readJwt" /\ proc'[p].pc = "openJwt"
           /\ proc'[p].jwt = drawn + 1
BY DEF CreateJwtSecret, Goto, TypeOK, Process, SameConfig, KeyPathOf, JwtPathOf

LEMMA OpenJwtFileEffect ==
    ASSUME TypeOK, NEW p \in Processes, OpenJwtFile(p)
    PROVE  /\ proc'[p].loaded = proc[p].loaded
           /\ SameConfig(p)
           /\ proc'[p].loads = proc[p].loads /\ proc'[p].key = proc[p].key
           /\ proc'[p].jwt = proc[p].jwt
           /\ proc[p].pc = "openJwt" /\ proc'[p].pc = "writeJwt"
BY DEF OpenJwtFile, Goto, TypeOK, Process, SameConfig, KeyPathOf, JwtPathOf

LEMMA WriteJwtFileEffect ==
    ASSUME TypeOK, NEW p \in Processes, WriteJwtFile(p)
    PROVE  /\ proc'[p].loaded = proc[p].loaded
           /\ SameConfig(p)
           /\ proc'[p].loads = proc[p].loads /\ proc'[p].key = proc[p].key
           /\ proc'[p].jwt = proc[p].jwt
           /\ proc[p].pc = "writeJwt" /\ proc'[p].pc = "readKey"
BY DEF WriteJwtFile, UseJwtSecret, Goto, TypeOK, Process, SameConfig, KeyPathOf, JwtPathOf

LEMMA LoadEffect ==
    ASSUME TypeOK, NEW p \in Processes, NEW k, Load(p, k)
    PROVE  /\ SameConfig(p) /\ proc'[p].jwt = proc[p].jwt
           /\ proc'[p].pc = "openKey" /\ proc'[p].loaded = k
           /\ proc'[p].loads = proc[p].loads /\ proc'[p].key = proc[p].key
BY DEF Load, Goto, TypeOK, Process, SameConfig, KeyPathOf, JwtPathOf

LEMMA OpenKeyFileEffect ==
    ASSUME TypeOK, NEW p \in Processes, OpenKeyFile(p)
    PROVE  /\ SameConfig(p) /\ proc'[p].jwt = proc[p].jwt
           /\ proc[p].pc = "openKey" /\ proc'[p].pc = "writeKey"
           /\ proc'[p].loads = proc[p].loads /\ proc'[p].key = proc[p].key
           /\ proc'[p].loaded = proc[p].loaded
BY DEF OpenKeyFile, Goto, TypeOK, Process, SameConfig, KeyPathOf, JwtPathOf

LEMMA WriteKeyFileEffect ==
    ASSUME TypeOK, NEW p \in Processes, WriteKeyFile(p)
    PROVE  /\ SameConfig(p) /\ proc'[p].jwt = proc[p].jwt
           /\ proc[p].pc = "writeKey"
           /\ proc'[p].pc = IF proc[p].loads = 1 THEN "readKey" ELSE "running"
           /\ proc'[p].loads = 2
           /\ proc'[p].key = IF proc[p].loads = uses THEN FromHex(proc[p].loaded) ELSE proc[p].key
<1>1. proc'[p] = Initialised(p)
  BY InitialisedTyped DEF TypeOK, WriteKeyFile, Goto
<1>. QED
  BY <1>1, InitialisedTyped DEF WriteKeyFile, TypeOK, SameConfig, KeyPathOf, JwtPathOf

\* A process that stops.
LEMMA StopEffect ==
    ASSUME TypeOK, NEW p \in Processes, Goto(p, Stopped)
    PROVE  proc'[p] = Stopped
BY DEF Goto, TypeOK

-----------------------------------------------------------------------------
(* The parts of the invariant.                                              *)

LEMMA InvInit == Init => IInv
<1>. SUFFICES ASSUME Init PROVE IInv
  OBVIOUS
<1>1. TypeOK
  BY TypeInit
<1>2. \A p \in Processes : proc[p] = Stopped
  BY DEF Init
<1>3. Absent # Empty
  BY TextsAssumption DEF Empty
<1>4. Absent \notin MalformedKeys /\ Stopped.loaded \notin MalformedKeys
  BY TextsAssumption DEF Empty, Stopped
<1>. QED
  BY <1>1, <1>2, <1>3, <1>4, StoppedTyped
  DEF Init, IInv, OneStarts, LoadsInOrder, EmptyIsBeingWritten, MalformedIsConfigured,
      SecretsAreNotEmpty, JwtFileIsKept, KeyFileIsKept, DatabaseIsOfConfig, IsStarting, IsRunning,
      HasJwt, HasLoaded, HasKey

\* Only a start makes a process one that is starting.
LEMMA StartingWas ==
    ASSUME TypeOK, NEW p \in Processes, Step(p) \/ Crash(p), IsStarting(p)'
    PROVE  IsStarting(p)
<1>1. proc[p].pc = "stopped" => FALSE
  BY DEF Step, Crash, ReadConfig, GetJwtSecret, CreateJwtSecret, OpenJwtFile, WriteJwtFile, ReadKey,
         GenerateKey, OpenKeyFile, WriteKeyFile, Encrypt, Sign, IsRunning
<1>2. proc[p].pc = "running" => proc'[p] \in {proc[p], Stopped}
  BY StopEffect
  DEF Step, Crash, ReadConfig, GetJwtSecret, CreateJwtSecret, OpenJwtFile, WriteJwtFile, ReadKey,
      GenerateKey, OpenKeyFile, WriteKeyFile, Encrypt, Sign
<1>. QED
  BY <1>1, <1>2, StoppedTyped DEF IsStarting

LEMMA OneStartsNext ==
    ASSUME TypeOK, OneStarts, [Next]_vars
    PROVE  OneStarts'
<1>. SUFFICES ASSUME Spared({"overlap"})',
                     NEW p \in Processes, NEW q \in Processes, IsStarting(p)', IsStarting(q)'
              PROVE  p = q
  BY DEF OneStarts
<1>. \A r, s \in Processes : IsStarting(r) /\ IsStarting(s) => r = s
  BY MishapsStay DEF OneStarts
<1>1. ASSUME NEW r \in Processes, Start(r) PROVE p = q
  <2>1. \A s \in Processes : ~IsStarting(s)
    BY <1>1 DEF Start, Happens, Spared
  <2>2. \A s \in Processes : s # r => ~IsStarting(s)'
    BY <1>1, <2>1, OthersStay DEF Acts, IsStarting
  <2>. QED
    BY <2>2
<1>2. ASSUME NEW r \in Processes, Step(r) \/ Crash(r) PROVE p = q
  <2>1. \A s \in Processes : IsStarting(s)' => IsStarting(s)
    BY <1>2, OthersStay, StartingWas DEF Acts, IsStarting
  <2>. QED
    BY <2>1
<1>3. CASE UNCHANGED proc
  BY <1>3 DEF IsStarting
<1>. QED
  BY <1>1, <1>2, <1>3 DEF Next, Edit, vars

LEMMA LoadsInOrderNext ==
    ASSUME TypeOK, LoadsInOrder, [Next]_vars
    PROVE  LoadsInOrder'
<1>. DEFINE Ok(p) ==
       /\ proc[p].pc \in {"readConfig", "readJwt", "openJwt", "writeJwt"} => proc[p].loads = 1
       /\ IsRunning(p) => proc[p].loads = 2
<1>1. ASSUME NEW p \in Processes, Acts(p) PROVE Ok(p)'
  <2>0. Ok(p) /\ proc[p] \in Process
    BY DEF LoadsInOrder, TypeOK
  <2>1. CASE Start(p)
    BY <2>1, StartEffect, StoppedTyped DEF IsRunning
  <2>2. CASE ReadConfig(p)
    BY <2>0, <2>2, ReadConfigEffect DEF IsRunning
  <2>3. CASE GetJwtSecret(p)
    BY <2>3, GetJwtSecretEffect DEF IsRunning
  <2>4. CASE CreateJwtSecret(p)
    BY <2>0, <2>4, CreateJwtSecretEffect DEF IsRunning
  <2>5. CASE OpenJwtFile(p)
    BY <2>0, <2>5, OpenJwtFileEffect DEF IsRunning
  <2>6. CASE WriteJwtFile(p)
    BY <2>6, WriteJwtFileEffect DEF IsRunning
  <2>7. CASE ReadKey(p) \/ GenerateKey(p)
    BY <2>7, LoadEffect, StopEffect, StoppedTyped DEF ReadKey, GenerateKey, IsRunning
  <2>8. CASE OpenKeyFile(p)
    BY <2>8, OpenKeyFileEffect DEF IsRunning
  <2>9. CASE WriteKeyFile(p)
    BY <2>9, WriteKeyFileEffect DEF IsRunning
  <2>10. CASE Encrypt(p) \/ Sign(p)
    BY <2>0, <2>10 DEF Encrypt, Sign, IsRunning
  <2>11. CASE Crash(p)
    BY <2>11, StopEffect, StoppedTyped DEF Crash, IsRunning
  <2>. QED
    BY <1>1, <2>1, <2>2, <2>3, <2>4, <2>5, <2>6, <2>7, <2>8, <2>9, <2>10, <2>11 DEF Acts, Step
<1>2. ASSUME NEW p \in Processes, Acts(p) PROVE LoadsInOrder'
  BY <1>1, <1>2, OthersStay DEF LoadsInOrder, IsRunning
<1>3. CASE UNCHANGED proc
  BY <1>3 DEF LoadsInOrder, IsRunning
<1>. QED
  BY <1>2, <1>3 DEF Next, Acts, Edit, vars

\* Who writes the files, and what ends the writing.
LEMMA FileEffect ==
    ASSUME TypeOK, NEW p \in Processes, Acts(p)
    PROVE  /\ ~(OpenJwtFile(p) \/ WriteJwtFile(p)) => jwtFile' = jwtFile
           /\ ~(OpenKeyFile(p) \/ WriteKeyFile(p)) => keyFile' = keyFile
           /\ proc[p].pc = "writeJwt" =>
                  WriteJwtFile(p) \/ (proc'[p].pc = "stopped" /\ "tornWrite" \in mishaps')
           /\ proc[p].pc = "writeKey" =>
                  WriteKeyFile(p) \/ (proc'[p].pc = "stopped" /\ "tornWrite" \in mishaps')
<1>1. ~(OpenJwtFile(p) \/ WriteJwtFile(p)) => jwtFile' = jwtFile
  BY DEF Acts, Start, Crash, Step, ReadConfig, GetJwtSecret, CreateJwtSecret, ReadKey,
         GenerateKey, OpenKeyFile, WriteKeyFile, Encrypt, Sign, files
<1>2. ~(OpenKeyFile(p) \/ WriteKeyFile(p)) => keyFile' = keyFile
  BY DEF Acts, Start, Crash, Step, ReadConfig, GetJwtSecret, CreateJwtSecret, OpenJwtFile,
         WriteJwtFile, ReadKey, GenerateKey, Encrypt, Sign, files
<1>3. proc[p].pc \in {"writeJwt", "writeKey"} =>
          WriteJwtFile(p) \/ WriteKeyFile(p) \/ Crash(p)
  BY DEF Acts, Start, Step, ReadConfig, GetJwtSecret, CreateJwtSecret, OpenJwtFile, ReadKey,
         GenerateKey, OpenKeyFile, Encrypt, Sign, IsRunning
<1>4. Crash(p) /\ proc[p].pc \in {"writeJwt", "writeKey"} =>
          proc'[p].pc = "stopped" /\ "tornWrite" \in mishaps'
  BY StopEffect, StoppedTyped DEF Crash, Happens
<1>. QED
  BY <1>1, <1>2, <1>3, <1>4, WriteJwtFileEffect, WriteKeyFileEffect

LEMMA EmptyIsBeingWrittenNext ==
    ASSUME IInv, [Next]_vars
    PROVE  EmptyIsBeingWritten'
<1>. SUFFICES ASSUME Spared({"tornWrite", "overlap"})'
              PROVE  /\ \A f \in JwtPaths : jwtFile'[f] = Empty =>
                            \E q \in Processes : proc'[q].pc = "writeJwt" /\ JwtPathOf(q)' = f
                     /\ \A f \in KeyPaths : keyFile'[f] = Empty =>
                            \E q \in Processes : proc'[q].pc = "writeKey" /\ KeyPathOf(q)' = f
  BY DEF EmptyIsBeingWritten
<1>1. Spared({"tornWrite", "overlap"}) /\ TypeOK
  BY MishapsStay DEF IInv
<1>2. "tornWrite" \notin mishaps'
  BY DEF Spared
<1>3. ASSUME NEW p \in Processes, Acts(p), NEW f \in JwtPaths, jwtFile'[f] = Empty
      PROVE  \E q \in Processes : proc'[q].pc = "writeJwt" /\ JwtPathOf(q)' = f
  <2>1. CASE OpenJwtFile(p) /\ JwtPathOf(p) = f
    BY <1>1, <2>1, OpenJwtFileEffect DEF SameConfig
  <2>2. CASE WriteJwtFile(p) /\ JwtPathOf(p) = f
    <3>1. jwtFile'[f] = proc[p].jwt
      BY <1>1, <2>2 DEF WriteJwtFile, TypeOK
    <3>2. proc[p].jwt # Empty
      BY <1>1, <2>2 DEF WriteJwtFile, IInv, SecretsAreNotEmpty
    <3>. QED
      BY <1>3, <3>1, <3>2
  <2>3. CASE ~((OpenJwtFile(p) \/ WriteJwtFile(p)) /\ JwtPathOf(p) = f)
    <3>1. jwtFile[f] = Empty
      BY <1>1, <1>3, <2>3, FileEffect DEF OpenJwtFile, WriteJwtFile, TypeOK
    <3>2. PICK q \in Processes : proc[q].pc = "writeJwt" /\ JwtPathOf(q) = f
      BY <1>1, <3>1 DEF IInv, EmptyIsBeingWritten
    <3>3. q # p
      BY <1>1, <1>2, <1>3, <2>3, <3>2, FileEffect
    <3>. QED
      BY <1>1, <1>3, <3>2, <3>3, OthersStay DEF JwtPathOf
  <2>. QED
    BY <2>1, <2>2, <2>3
<1>4. ASSUME NEW p \in Processes, Acts(p), NEW f \in KeyPaths, keyFile'[f] = Empty
      PROVE  \E q \in Processes : proc'[q].pc = "writeKey" /\ KeyPathOf(q)' = f
  <2>1. CASE OpenKeyFile(p) /\ KeyPathOf(p) = f
    BY <1>1, <2>1, OpenKeyFileEffect DEF SameConfig
  <2>2. CASE WriteKeyFile(p) /\ KeyPathOf(p) = f
    <3>1. keyFile'[f] = proc[p].loaded
      BY <1>1, <2>2 DEF WriteKeyFile, TypeOK
    <3>2. proc[p].loaded # Empty
      BY <1>1, <2>2 DEF WriteKeyFile, IInv, SecretsAreNotEmpty, HasLoaded
    <3>. QED
      BY <1>4, <3>1, <3>2
  <2>3. CASE ~((OpenKeyFile(p) \/ WriteKeyFile(p)) /\ KeyPathOf(p) = f)
    <3>1. keyFile[f] = Empty
      BY <1>1, <1>4, <2>3, FileEffect DEF OpenKeyFile, WriteKeyFile, TypeOK
    <3>2. PICK q \in Processes : proc[q].pc = "writeKey" /\ KeyPathOf(q) = f
      BY <1>1, <3>1 DEF IInv, EmptyIsBeingWritten
    <3>3. q # p
      BY <1>1, <1>2, <1>4, <2>3, <3>2, FileEffect
    <3>. QED
      BY <1>1, <1>4, <3>2, <3>3, OthersStay DEF KeyPathOf
  <2>. QED
    BY <2>1, <2>2, <2>3
<1>5. CASE UNCHANGED <<files, proc>>
  BY <1>1, <1>5 DEF IInv, EmptyIsBeingWritten, KeyPathOf, JwtPathOf, files
<1>. QED
  BY <1>3, <1>4, <1>5 DEF Next, Acts, Edit, vars, files

\* A process that reads a file does not find it empty: it would be the one that
\* is writing it.
LEMMA ReadIsNotEmpty ==
    ASSUME IInv, Spared({"tornWrite", "overlap"}), NEW p \in Processes
    PROVE  /\ proc[p].pc = "readJwt" => jwtFile[JwtPathOf(p)] # Empty
           /\ proc[p].pc = "readKey" => keyFile[KeyPathOf(p)] # Empty
<1>1. KeyPathOf(p) \in KeyPaths /\ JwtPathOf(p) \in JwtPaths
  BY PathsTyped DEF IInv
<1>2. \A q \in Processes : IsStarting(p) /\ IsStarting(q) => p = q
  BY DEF IInv, OneStarts, Spared
<1>. QED
  BY <1>1, <1>2 DEF IInv, EmptyIsBeingWritten, IsStarting

LEMMA MalformedIsConfiguredNext ==
    ASSUME IInv, [Next]_vars
    PROVE  MalformedIsConfigured'
<1>. SUFFICES ASSUME Spared({"malformedKey"})'
              PROVE  /\ \A f \in KeyPaths : keyFile'[f] \notin MalformedKeys
                     /\ \A q \in Processes : proc'[q].loaded \notin MalformedKeys
  BY DEF MalformedIsConfigured
<1>1. Spared({"malformedKey"}) /\ TypeOK /\ "malformedKey" \notin mishaps'
  BY MishapsStay DEF IInv, Spared
<1>2. /\ \A f \in KeyPaths : keyFile[f] \notin MalformedKeys
      /\ \A q \in Processes : proc[q].loaded \notin MalformedKeys
  BY <1>1 DEF IInv, MalformedIsConfigured
<1>3. Empty \notin MalformedKeys /\ drawn + 1 \notin MalformedKeys
  BY <1>1, TextsAssumption DEF TypeOK, Empty
<1>4. ASSUME NEW p \in Processes, Acts(p)
      PROVE  /\ \A f \in KeyPaths : keyFile'[f] \notin MalformedKeys
             /\ proc'[p].loaded \notin MalformedKeys
  <2>0. proc[p] \in Process /\ KeyPathOf(p) \in KeyPaths
    BY <1>1, PathsTyped DEF TypeOK
  <2>1. \A f \in KeyPaths : keyFile'[f] \notin MalformedKeys
    <3>1. CASE OpenKeyFile(p)
      BY <1>1, <1>2, <1>3, <3>1 DEF OpenKeyFile, TypeOK
    <3>2. CASE WriteKeyFile(p)
      BY <1>1, <1>2, <3>2 DEF WriteKeyFile, TypeOK
    <3>. QED
      BY <1>1, <1>2, <1>4, <3>1, <3>2, FileEffect
  <2>2. proc'[p].loaded \notin MalformedKeys
    <3>0. Stopped.loaded = Empty
      BY DEF Stopped
    <3>1. CASE ReadKey(p)
      <4>1. PICK k : Load(p, k) /\ k \notin MalformedKeys
        BY <1>1, <1>2, <2>0, <3>1 DEF ReadKey
      <4>. QED
        BY <1>1, <4>1, LoadEffect
    <3>2. CASE GenerateKey(p)
      BY <1>1, <1>3, <3>0, <3>2, LoadEffect, StopEffect DEF GenerateKey
    <3>3. CASE WriteKeyFile(p)
      <4>1. proc'[p] = Initialised(p)
        BY <1>1, <3>3, InitialisedTyped DEF WriteKeyFile, Goto, TypeOK
      <4>2. Initialised(p).loaded = Empty
        BY <2>0, InitialisedTyped, <1>1 DEF TypeOK
      <4>. QED
        BY <1>3, <4>1, <4>2
    <3>4. CASE Start(p)
      <4>1. \A d : [Stopped EXCEPT !.pc = "readConfig", !.db = d].loaded = Empty
        BY <3>0, StoppedTyped DEF Process
      <4>2. proc'[p].loaded = Empty
        BY <1>1, <3>0, <3>4, <4>1 DEF Start, Goto, TypeOK
      <4>. QED
        BY <1>3, <4>2
    <3>5. CASE Crash(p)
      BY <1>1, <1>3, <3>0, <3>5, StopEffect DEF Crash
    <3>6. CASE OpenKeyFile(p)
      BY <1>1, <1>2, <3>6, OpenKeyFileEffect
    <3>7. CASE \/ ReadConfig(p) \/ GetJwtSecret(p) \/ CreateJwtSecret(p)
               \/ OpenJwtFile(p) \/ WriteJwtFile(p)
      BY <1>1, <1>2, <3>7, ReadConfigEffect, GetJwtSecretEffect, CreateJwtSecretEffect,
         OpenJwtFileEffect, WriteJwtFileEffect
    <3>8. CASE Encrypt(p) \/ Sign(p)
      BY <1>2, <3>8 DEF Encrypt, Sign
    <3>. QED
      BY <1>4, <3>1, <3>2, <3>3, <3>4, <3>5, <3>6, <3>7, <3>8 DEF Acts, Step
  <2>. QED
    BY <2>1, <2>2
<1>5. ASSUME NEW p \in Processes, Acts(p), NEW o \in Processes, o # p
      PROVE  proc'[o].loaded \notin MalformedKeys
  BY <1>1, <1>2, <1>5, OthersStay
<1>6. CASE UNCHANGED <<files, proc>>
  BY <1>2, <1>6 DEF files
<1>. QED
  BY <1>4, <1>5, <1>6 DEF Next, Acts, Edit, vars, files

LEMMA SecretsAreNotEmptyNext ==
    ASSUME IInv, [Next]_vars
    PROVE  SecretsAreNotEmpty'
<1>. DEFINE Ok(p) ==
       /\ HasJwt(p) \/ proc[p].pc \in {"openJwt", "writeJwt"} => proc[p].jwt # Empty
       /\ HasLoaded(p) => proc[p].loaded # Empty
       /\ HasKey(p) /\ Spared({"malformedKey"}) => proc[p].key # Empty
<1>. SUFFICES ASSUME Spared({"tornWrite", "overlap"})'
              PROVE  \A p \in Processes : Ok(p)'
  BY DEF SecretsAreNotEmpty
<1>1. Spared({"tornWrite", "overlap"}) /\ TypeOK /\ drawn \in Nat /\ drawn + 1 # Empty
  BY MishapsStay DEF IInv, TypeOK, Empty
<1>8. Spared({"malformedKey"})' => Spared({"malformedKey"})
  BY MishapsStay
<1>9. (\A k \in GivenKeys : k # Empty) /\ (\A t \in GivenSecrets : t # Empty)
  BY TextsAssumption DEF Empty
<1>2. \A p \in Processes : Ok(p)
  BY <1>1 DEF IInv, SecretsAreNotEmpty
<1>3. \A p \in Processes :
        /\ proc[p].pc = "readJwt" => jwtFile[JwtPathOf(p)] # Empty
        /\ proc[p].pc = "readKey" => keyFile[KeyPathOf(p)] # Empty
  BY <1>1, ReadIsNotEmpty
<1>4. \A p \in Processes :
        /\ proc[p] \in Process
        /\ proc[p].config.jwt \in GivenSecrets \cup {Omitted}
        /\ proc[p].config.database.key \in GivenKeys \cup {Omitted}
        /\ proc[p].pc \in {"readConfig", "readJwt", "openJwt", "writeJwt"} => proc[p].loads = 1
        /\ IsRunning(p) => proc[p].loads = 2
  BY DEF IInv, LoadsInOrder, TypeOK, Process, Config, Section
<1>. USE DEF HasJwt, HasLoaded, HasKey, IsRunning
<1>5. ASSUME NEW p \in Processes, Acts(p) PROVE Ok(p)'
  <2>0. uses' = uses /\ uses \in 1..2
    BY <1>5, UsesStay DEF IInv, TypeOK
  <2>12. proc'[p] = Stopped => Ok(p)'
    BY StoppedTyped
  <2>1. CASE Start(p)
    BY <1>1, <2>1, <2>12, StartEffect
  <2>2. CASE ReadConfig(p)
    BY <1>1, <1>4, <2>2, ReadConfigEffect
  <2>3. CASE GetJwtSecret(p)
    BY <1>1, <1>3, <1>4, <1>9, <2>3, GetJwtSecretEffect DEF Given
  <2>4. CASE CreateJwtSecret(p)
    BY <1>1, <1>4, <2>4, CreateJwtSecretEffect
  <2>5. CASE OpenJwtFile(p)
    BY <1>1, <1>2, <1>4, <2>5, OpenJwtFileEffect
  <2>6. CASE WriteJwtFile(p)
    BY <1>1, <1>2, <1>4, <2>6, WriteJwtFileEffect
  <2>7. CASE ReadKey(p) \/ GenerateKey(p)
    <3>1. proc[p].pc = "readKey"
      BY <2>7 DEF ReadKey, GenerateKey
    <3>2. proc'[p] = Stopped \/ \E k : k # Empty /\ Load(p, k)
      BY <1>1, <1>3, <1>4, <1>9, <2>7, <3>1, StopEffect DEF ReadKey, GenerateKey
    <3>. QED
      BY <1>1, <1>2, <1>8, <2>0, <2>12, <3>1, <3>2, LoadEffect
  <2>8. CASE OpenKeyFile(p)
    BY <1>1, <1>2, <1>8, <2>0, <2>8, OpenKeyFileEffect
  <2>9. CASE WriteKeyFile(p)
    <3>1. Spared({"malformedKey"})' => FromHex(proc[p].loaded) = proc[p].loaded
      BY <1>8 DEF IInv, MalformedIsConfigured, FromHex
    <3>. QED
      BY <1>1, <1>2, <1>4, <1>8, <2>0, <2>9, <3>1, WriteKeyFileEffect DEF Process
  <2>10. CASE Encrypt(p) \/ Sign(p)
    BY <1>2, <1>8, <2>0, <2>10 DEF Encrypt, Sign
  <2>11. CASE Crash(p)
    BY <1>1, <2>11, <2>12, StopEffect DEF Crash
  <2>. QED
    BY <1>5, <2>1, <2>2, <2>3, <2>4, <2>5, <2>6, <2>7, <2>8, <2>9, <2>10, <2>11 DEF Acts, Step
<1>6. ASSUME NEW p \in Processes, Acts(p), NEW o \in Processes, o # p PROVE Ok(o)'
  <2>1. proc'[o] = proc[o]
    BY <1>1, <1>6, OthersStay
  <2>2. uses' = uses
    BY <1>6, UsesStay
  <2>. QED
    BY <1>2, <1>8, <2>1, <2>2
<1>7. CASE UNCHANGED <<uses, proc>>
  BY <1>2, <1>7, <1>8
<1>. QED
  BY <1>5, <1>6, <1>7 DEF Next, Acts, Edit, vars

\* While a process is starting no other one is.
LEMMA OthersDoNotStart ==
    ASSUME IInv, Spared({"overlap"}), NEW p \in Processes, IsStarting(p)
    PROVE  \A o \in Processes : o # p => proc[o].pc = "stopped" \/ proc[o].pc = "running"
BY DEF IInv, OneStarts, IsStarting

\* Once a process has the secret of its tokens it keeps it, until it stops.
LEMMA JwtStays ==
    ASSUME IInv, NEW p \in Processes, Acts(p),
           ~GetJwtSecret(p), ~CreateJwtSecret(p), ~OpenJwtFile(p), ~WriteJwtFile(p)
    PROVE  /\ proc'[p].pc \notin {"openJwt", "writeJwt"}
           /\ HasJwt(p)' => HasJwt(p) /\ SameConfig(p) /\ proc'[p].jwt = proc[p].jwt
<1>. USE DEF HasJwt
<1>0. TypeOK
  BY DEF IInv
<1>1. CASE Start(p)
  BY <1>0, <1>1, StartEffect, StoppedTyped
<1>2. CASE ReadConfig(p)
  BY <1>0, <1>2, ReadConfigEffect
<1>3. CASE ReadKey(p) \/ GenerateKey(p)
  <2>1. proc[p].pc = "readKey"
    BY <1>3 DEF ReadKey, GenerateKey
  <2>2. proc'[p] = Stopped \/ \E k : Load(p, k)
    BY <1>0, <1>3, StopEffect DEF ReadKey, GenerateKey
  <2>. QED
    BY <1>0, <2>1, <2>2, LoadEffect, StoppedTyped
<1>4. CASE OpenKeyFile(p)
  BY <1>0, <1>4, OpenKeyFileEffect
<1>5. CASE WriteKeyFile(p)
  BY <1>0, <1>5, WriteKeyFileEffect
<1>6. CASE Encrypt(p) \/ Sign(p)
  BY <1>6 DEF Encrypt, Sign, IsRunning, SameConfig, KeyPathOf, JwtPathOf
<1>7. CASE Crash(p)
  BY <1>0, <1>7, StopEffect, StoppedTyped DEF Crash
<1>. QED
  BY <1>1, <1>2, <1>3, <1>4, <1>5, <1>6, <1>7 DEF Acts, Step

LEMMA JwtFileIsKeptNext ==
    ASSUME IInv, [Next]_vars
    PROVE  JwtFileIsKept'
<1>. DEFINE Kept(p) == HasJwt(p) =>
              proc[p].jwt = Given(proc[p].config.jwt, jwtFile[JwtPathOf(p)])
            NotGiven(p) == proc[p].pc \in {"openJwt", "writeJwt"} => proc[p].config.jwt = Omitted
            OpensNone(p) == proc[p].pc = "openJwt" => jwtFile[JwtPathOf(p)] = Absent
            Alone(p, q) == proc[p].pc = "writeJwt" /\ HasJwt(q) /\ JwtPathOf(q) = JwtPathOf(p) =>
                               proc[q].config.jwt # Omitted
            FillsEmpty(p) == proc[p].pc = "writeJwt" => jwtFile[JwtPathOf(p)] = Empty
            Token(t) == t.secret # Empty /\ t.secret = Given(t.given, jwtFile[t.path])
            Good(p) == Kept(p) /\ NotGiven(p) /\ OpensNone(p) /\ FillsEmpty(p)
<1>. SUFFICES ASSUME Spared({"readError", "overlap"})'
              PROVE  /\ \A p \in Processes : Good(p)'
                     /\ \A p, q \in Processes : Alone(p, q)'
                     /\ \A t \in signed' : Token(t)'
  BY DEF JwtFileIsKept
<1>1. Spared({"readError", "overlap"}) /\ Spared({"overlap"}) /\ TypeOK
  BY MishapsStay DEF IInv, Spared
<1>2. /\ \A p \in Processes : Good(p)
      /\ \A p, q \in Processes : Alone(p, q)
      /\ \A t \in signed : Token(t)
  BY <1>1 DEF IInv, JwtFileIsKept
<1>3. \A p \in Processes :
        /\ proc[p] \in Process /\ JwtPathOf(p) \in JwtPaths /\ proc[p].jwt \in Secrets
        /\ jwtFile[JwtPathOf(p)] = Absent => jwtFile[JwtPathOf(p)] \notin Secrets
  BY TextsAssumption, PathsTyped DEF IInv, TypeOK, Process, Secrets
<1>4. \A t \in signed : t.secret \in Secrets
  BY DEF IInv, TypeOK
<1>. USE DEF HasJwt, Given
<1>. HIDE DEF Good, Alone, Token
<1>5. ASSUME NEW p \in Processes, OpenJwtFile(p)
      PROVE  /\ \A q \in Processes : Good(q)'
             /\ \A q, r \in Processes : Alone(q, r)'
             /\ \A t \in signed : Token(t)'
  <2>1. /\ jwtFile' = [jwtFile EXCEPT ![JwtPathOf(p)] = Empty]
        /\ SameConfig(p) /\ proc[p].pc = "openJwt" /\ proc'[p].pc = "writeJwt"
        /\ jwtFile[JwtPathOf(p)] = Absent /\ proc[p].config.jwt = Omitted
    BY <1>1, <1>2, <1>5, OpenJwtFileEffect DEF OpenJwtFile, Good
  <2>2. \A q \in Processes : q # p =>
          proc'[q] = proc[q] /\ (proc[q].pc = "stopped" \/ proc[q].pc = "running")
    BY <1>1, <1>5, <2>1, OthersStay, OthersDoNotStart DEF Acts, Step, IsStarting
  <2>3. /\ jwtFile'[JwtPathOf(p)] = Empty
        /\ \A f \in JwtPaths : f # JwtPathOf(p) => jwtFile'[f] = jwtFile[f]
    BY <1>3, <2>1 DEF IInv, TypeOK
  <2>4. \A q \in Processes :
          HasJwt(q) /\ JwtPathOf(q) = JwtPathOf(p) => proc[q].config.jwt # Omitted
    BY <1>2, <1>3, <2>1 DEF Good
  <2>5. \A q \in Processes : Good(q)'
    <3>1. Good(p)'
      BY <2>1, <2>3 DEF Good, SameConfig
    <3>2. ASSUME NEW q \in Processes, q # p PROVE Good(q)'
      BY <1>2, <1>3, <2>2, <2>3, <2>4, <3>2 DEF Good, JwtPathOf
    <3>. QED
      BY <3>1, <3>2
  <2>6. \A q, r \in Processes : Alone(q, r)'
    BY <2>1, <2>2, <2>4 DEF Alone, SameConfig, KeyPathOf, JwtPathOf
  <2>7. \A t \in signed : Token(t)'
    <3>1. \A t \in signed : t.path \in JwtPaths
      BY DEF IInv, TypeOK
    <3>. QED
      BY <1>2, <1>3, <1>4, <2>1, <2>3, <3>1 DEF Token
  <2>. QED
    BY <2>5, <2>6, <2>7
<1>6. ASSUME NEW p \in Processes, WriteJwtFile(p)
      PROVE  /\ \A q \in Processes : Good(q)'
             /\ \A q, r \in Processes : Alone(q, r)'
             /\ \A t \in signed : Token(t)'
  <2>1. /\ jwtFile' = [jwtFile EXCEPT ![JwtPathOf(p)] = proc[p].jwt]
        /\ SameConfig(p) /\ proc[p].pc = "writeJwt" /\ proc'[p].pc = "readKey"
        /\ proc'[p].jwt = proc[p].jwt
        /\ jwtFile[JwtPathOf(p)] = Empty /\ proc[p].config.jwt = Omitted
    BY <1>1, <1>2, <1>6, WriteJwtFileEffect DEF WriteJwtFile, Good
  <2>2. \A q \in Processes : q # p =>
          proc'[q] = proc[q] /\ (proc[q].pc = "stopped" \/ proc[q].pc = "running")
    BY <1>1, <1>6, <2>1, OthersStay, OthersDoNotStart DEF Acts, Step, IsStarting
  <2>3. /\ jwtFile'[JwtPathOf(p)] = proc[p].jwt
        /\ \A f \in JwtPaths : f # JwtPathOf(p) => jwtFile'[f] = jwtFile[f]
    BY <1>3, <2>1 DEF IInv, TypeOK
  <2>4. \A q \in Processes :
          HasJwt(q) /\ JwtPathOf(q) = JwtPathOf(p) => proc[q].config.jwt # Omitted
    BY <1>2, <2>1 DEF Alone
  <2>5. \A q \in Processes : Good(q)'
    <3>1. Good(p)'
      BY <2>1, <2>3 DEF Good, SameConfig
    <3>2. ASSUME NEW q \in Processes, q # p PROVE Good(q)'
      BY <1>2, <1>3, <2>2, <2>3, <2>4, <3>2 DEF Good, JwtPathOf
    <3>. QED
      BY <3>1, <3>2
  <2>6. \A q, r \in Processes : Alone(q, r)'
    BY <2>1, <2>2 DEF Alone
  <2>7. \A t \in signed : Token(t)'
    <3>1. \A t \in signed : t.path \in JwtPaths
      BY DEF IInv, TypeOK
    <3>. QED
      BY <1>2, <2>1, <2>3, <3>1 DEF Token
  <2>. QED
    BY <2>5, <2>6, <2>7
<1>7. ASSUME NEW p \in Processes, Acts(p), ~OpenJwtFile(p), ~WriteJwtFile(p)
      PROVE  /\ \A q \in Processes : Good(q)'
             /\ \A q, r \in Processes : Alone(q, r)'
  <2>1. jwtFile' = jwtFile
    BY <1>1, <1>7, FileEffect
  <2>2. \A q \in Processes : q # p => proc'[q] = proc[q]
    BY <1>1, <1>7, OthersStay
  <2>3. Good(p)' /\ proc'[p].pc # "writeJwt"
    <3>1. CASE GetJwtSecret(p)
      BY <1>1, <2>1, <3>1, GetJwtSecretEffect DEF Good, SameConfig
    <3>2. CASE CreateJwtSecret(p)
      <4>1. jwtFile[JwtPathOf(p)] = Absent /\ proc[p].config.jwt = Omitted
        BY <3>2 DEF CreateJwtSecret, Unreadable, Happens, Spared
      <4>. QED
        BY <1>1, <2>1, <3>2, <4>1, CreateJwtSecretEffect DEF Good, SameConfig
    <3>3. CASE ~GetJwtSecret(p) /\ ~CreateJwtSecret(p)
      BY <1>2, <1>7, <2>1, <3>3, JwtStays DEF Good, SameConfig
    <3>. QED
      BY <3>1, <3>2, <3>3
  <2>4. \A q \in Processes : Good(q)'
    BY <1>2, <2>1, <2>2, <2>3 DEF Good, JwtPathOf
  <2>5. ASSUME NEW q \in Processes PROVE Alone(q, p)'
    <3>1. CASE GetJwtSecret(p)
      <4>1. \A o \in Processes : o # p => proc[o].pc # "writeJwt"
        BY <1>1, <3>1, GetJwtSecretEffect, OthersDoNotStart DEF IsStarting
      <4>. QED
        BY <2>2, <2>3, <4>1 DEF Alone
    <3>2. CASE CreateJwtSecret(p)
      BY <1>1, <3>2, CreateJwtSecretEffect DEF Alone
    <3>3. CASE ~GetJwtSecret(p) /\ ~CreateJwtSecret(p)
      <4>1. CASE HasJwt(p)'
        BY <1>2, <1>7, <2>2, <2>3, <3>3, <4>1, JwtStays DEF Alone, SameConfig, KeyPathOf, JwtPathOf
      <4>2. CASE ~HasJwt(p)'
        BY <4>2 DEF Alone
      <4>. QED
        BY <4>1, <4>2
    <3>. QED
      BY <3>1, <3>2, <3>3
  <2>6. \A q, r \in Processes : Alone(q, r)'
    BY <1>2, <2>2, <2>3, <2>5 DEF Alone, JwtPathOf
  <2>. QED
    BY <2>4, <2>6
<1>8. ASSUME NEW p \in Processes, Acts(p), ~OpenJwtFile(p), ~WriteJwtFile(p),
             NEW t \in signed'
      PROVE  Token(t)'
  <2>1. jwtFile' = jwtFile
    BY <1>1, <1>8, FileEffect
  <2>2. CASE t \in signed
    BY <1>2, <2>1, <2>2 DEF Token
  <2>3. CASE t \notin signed
    <3>1. Sign(p)
      BY <1>8, <2>3
      DEF Acts, Step, Start, Crash, ReadConfig, GetJwtSecret, CreateJwtSecret, ReadKey, GenerateKey,
          OpenKeyFile, WriteKeyFile, Encrypt, SameData
    <3>2. /\ t = [path |-> JwtPathOf(p), given |-> proc[p].config.jwt, secret |-> proc[p].jwt]
          /\ proc[p].jwt # Empty /\ HasJwt(p)
      BY <1>8, <2>3, <3>1 DEF Sign, IsRunning
    <3>. QED
      BY <1>2, <2>1, <3>2 DEF Good, Token
  <2>. QED
    BY <2>2, <2>3
<1>9. CASE UNCHANGED <<files, proc, signed>>
  BY <1>2, <1>9 DEF Good, Alone, Token, JwtPathOf, files
<1>10. ASSUME NEW p \in Processes, OpenJwtFile(p) \/ WriteJwtFile(p) PROVE signed' = signed
  BY <1>10 DEF OpenJwtFile, WriteJwtFile, SameData
<1>. QED
  BY <1>5, <1>6, <1>7, <1>8, <1>9, <1>10 DEF Next, Acts, Edit, vars, files

LEMMA SafeIsSpared ==
    /\ KeyIsSafe => Spared({"overlap"}) /\ Spared({"tornWrite", "overlap"})
    /\ KeyIsSafe => "readError" \notin mishaps /\ "keyReplaced" \notin mishaps
BY DEF KeyIsSafe, Spared

\* A home that holds a key keeps it: it is emptied by a process that has loaded
\* what was there, and filled again by the same one.
LEMMA HoldsStays ==
    ASSUME IInv, [Next]_vars, KeyIsSafe', NEW f \in KeyPaths, NEW k \in KeyTexts, k # Empty,
           Holds(f, k)
    PROVE  Holds(f, k)'
<1>1. KeyIsSafe /\ TypeOK
  BY MishapsStay DEF KeyIsSafe, IInv
<1>2. /\ Spared({"overlap"}) /\ Spared({"tornWrite", "overlap"})
      /\ "tornWrite" \notin mishaps'
  BY <1>1, SafeIsSpared DEF KeyIsSafe, Spared, Mishaps
<1>3. \A q \in Processes :
        /\ proc[q].pc = "openKey" =>
               /\ proc[q].loaded # Empty /\ keyFile[KeyPathOf(q)] \in {Absent, proc[q].loaded}
        /\ proc[q].pc = "writeKey" => keyFile[KeyPathOf(q)] = Empty
  BY <1>1, <1>2 DEF IInv, KeyFileIsKept, KeyIsSafe, SecretsAreNotEmpty, HasLoaded
<1>4. k # Absent /\ Empty # Absent
  BY TextsAssumption DEF Empty, KeyTexts
<1>5. ASSUME NEW p \in Processes, OpenKeyFile(p) PROVE Holds(f, k)'
  <2>1. /\ keyFile' = [keyFile EXCEPT ![KeyPathOf(p)] = Empty]
        /\ proc[p].pc = "openKey" /\ proc'[p].pc = "writeKey"
        /\ KeyPathOf(p)' = KeyPathOf(p) /\ proc'[p].loaded = proc[p].loaded
    BY <1>1, <1>5, OpenKeyFileEffect DEF OpenKeyFile, SameConfig
  <2>2. CASE f = KeyPathOf(p)
    <3>1. k = proc[p].loaded
      BY <1>3, <1>4, <2>1, <2>2 DEF Holds
    <3>2. keyFile'[f] = Empty
      BY <1>1, <2>1, <2>2 DEF TypeOK
    <3>. QED
      BY <2>1, <2>2, <3>1, <3>2 DEF Holds
  <2>3. CASE f # KeyPathOf(p)
    <3>1. keyFile'[f] = keyFile[f]
      BY <1>1, <2>1, <2>3 DEF TypeOK
    <3>2. \A q \in Processes : proc[q].pc = "writeKey" => proc'[q] = proc[q]
      BY <1>1, <1>5, <2>1, OthersStay DEF Acts, Step
    <3>. QED
      BY <3>1, <3>2 DEF Holds, KeyPathOf
  <2>. QED
    BY <2>2, <2>3
<1>6. ASSUME NEW p \in Processes, WriteKeyFile(p) PROVE Holds(f, k)'
  <2>1. /\ keyFile' = [keyFile EXCEPT ![KeyPathOf(p)] = proc[p].loaded]
        /\ proc[p].pc = "writeKey" /\ KeyPathOf(p)' = KeyPathOf(p)
    BY <1>1, <1>6, WriteKeyFileEffect DEF WriteKeyFile, SameConfig
  <2>2. CASE f = KeyPathOf(p)
    <3>1. PICK q \in Processes : proc[q].pc = "writeKey" /\ proc[q].loaded = k
      BY <1>3, <2>1, <2>2 DEF Holds
    <3>2. q = p
      BY <1>2, <2>1, <3>1 DEF IInv, OneStarts, IsStarting
    <3>. QED
      BY <1>1, <2>1, <2>2, <3>1, <3>2 DEF Holds, TypeOK
  <2>3. CASE f # KeyPathOf(p)
    <3>1. keyFile'[f] = keyFile[f]
      BY <1>1, <2>1, <2>3 DEF TypeOK
    <3>2. \A q \in Processes : q # p => proc'[q] = proc[q]
      BY <1>1, <1>6, OthersStay DEF Acts, Step
    <3>. QED
      BY <2>3, <3>1, <3>2 DEF Holds, KeyPathOf
  <2>. QED
    BY <2>2, <2>3
<1>7. ASSUME NEW p \in Processes, Acts(p), ~OpenKeyFile(p), ~WriteKeyFile(p) PROVE Holds(f, k)'
  <2>1. keyFile' = keyFile /\ proc[p].pc # "writeKey"
    BY <1>1, <1>2, <1>7, FileEffect
  <2>2. \A q \in Processes : q # p => proc'[q] = proc[q]
    BY <1>1, <1>7, OthersStay
  <2>. QED
    BY <2>1, <2>2 DEF Holds, KeyPathOf
<1>8. CASE UNCHANGED <<files, proc>>
  BY <1>8 DEF Holds, KeyPathOf, files
<1>. QED
  BY <1>5, <1>6, <1>7, <1>8 DEF Next, Acts, Edit, vars, files

\* Once a process has its key it keeps it, until it stops; and only the steps of
\* onModuleInit bring it to the writing of the file.
LEMMA KeyStays ==
    ASSUME IInv, NEW p \in Processes, Acts(p), ~WriteKeyFile(p)
    PROVE  /\ HasKey(p)' => HasKey(p) /\ SameConfig(p) /\ proc'[p].key = proc[p].key
           /\ proc'[p].pc = "openKey" => ReadKey(p) \/ GenerateKey(p)
           /\ proc'[p].pc = "writeKey" => OpenKeyFile(p)
<1>. USE DEF HasKey, IsRunning
<1>0. TypeOK /\ uses' = uses
  BY UsesStay DEF IInv
<1>. DEFINE Loading == proc[p].pc \in {"readConfig", "readJwt", "openJwt", "writeJwt"}
<1>1. Loading => proc[p].loads = 1
  BY DEF IInv, LoadsInOrder
<1>2. CASE Start(p)
  BY <1>0, <1>2, StartEffect, StoppedTyped
<1>3. CASE ReadConfig(p)
  BY <1>0, <1>1, <1>3, ReadConfigEffect
<1>4. CASE GetJwtSecret(p)
  BY <1>0, <1>4, GetJwtSecretEffect
<1>5. CASE CreateJwtSecret(p)
  BY <1>0, <1>5, CreateJwtSecretEffect
<1>6. CASE OpenJwtFile(p)
  BY <1>0, <1>6, OpenJwtFileEffect
<1>7. CASE WriteJwtFile(p)
  BY <1>0, <1>7, WriteJwtFileEffect
<1>8. CASE ReadKey(p) \/ GenerateKey(p)
  <2>1. proc'[p] = Stopped \/ \E k : Load(p, k)
    BY <1>0, <1>8, StopEffect DEF ReadKey, GenerateKey
  <2>. QED
    BY <1>0, <1>8, <2>1, LoadEffect, StoppedTyped
<1>9. CASE OpenKeyFile(p)
  BY <1>0, <1>9, OpenKeyFileEffect
<1>10. CASE Encrypt(p) \/ Sign(p)
  BY <1>0, <1>10 DEF Encrypt, Sign, SameConfig, KeyPathOf, JwtPathOf
<1>11. CASE Crash(p)
  BY <1>0, <1>11, StopEffect, StoppedTyped DEF Crash
<1>. QED
  BY <1>2, <1>3, <1>4, <1>5, <1>6, <1>7, <1>8, <1>9, <1>10, <1>11 DEF Acts, Step

LEMMA KeyFileIsKeptNext ==
    ASSUME IInv, [Next]_vars
    PROVE  KeyFileIsKept'
<1>. DEFINE Held(p) == HasKey(p) =>
                \E k \in KeyTexts :
                    k # Empty /\ Holds(KeyPathOf(p), k) /\ proc[p].key = FromHex(k)
            Opens(p) == proc[p].pc = "openKey" => keyFile[KeyPathOf(p)] \in {Absent, proc[p].loaded}
            Fills(p) == proc[p].pc = "writeKey" => keyFile[KeyPathOf(p)] = Empty
            Column(e) == e.key # Empty /\ e.key \notin MalformedKeys /\ Holds(e.path, e.key)
<1>. SUFFICES ASSUME KeyIsSafe'
              PROVE  /\ \A p \in Processes : Held(p)' /\ Opens(p)' /\ Fills(p)'
                     /\ \A e \in encrypted' : Column(e)'
  BY DEF KeyFileIsKept, KeyIsSafe
<1>1. KeyIsSafe /\ TypeOK
  BY MishapsStay DEF KeyIsSafe, IInv
<1>2. /\ \A p \in Processes : Held(p) /\ Opens(p) /\ Fills(p)
      /\ \A e \in encrypted : Column(e)
  BY <1>1 DEF IInv, KeyFileIsKept, KeyIsSafe
<1>3. /\ Spared({"overlap"}) /\ Spared({"tornWrite", "overlap"})
      /\ "readError" \notin mishaps' /\ "keyReplaced" \notin mishaps'
  BY <1>1, SafeIsSpared DEF KeyIsSafe, Spared, Mishaps
<1>4. \A p \in Processes :
        /\ proc[p] \in Process /\ KeyPathOf(p) \in KeyPaths /\ proc[p].loaded \in KeyTexts
        /\ HasLoaded(p) => proc[p].loaded # Empty
        /\ IsRunning(p) => HasKey(p)
  BY <1>3, PathsTyped
  DEF IInv, TypeOK, Process, SecretsAreNotEmpty, LoadsInOrder, HasKey
<1>5. \A f \in KeyPaths, k \in KeyTexts : k # Empty /\ Holds(f, k) => Holds(f, k)'
  BY HoldsStays
<1>6. ASSUME NEW p \in Processes, HasKey(p), KeyPathOf(p)' = KeyPathOf(p),
             proc'[p].key = proc[p].key
      PROVE  Held(p)'
  <2>1. PICK k \in KeyTexts : k # Empty /\ Holds(KeyPathOf(p), k) /\ proc[p].key = FromHex(k)
    BY <1>2, <1>6
  <2>2. Holds(KeyPathOf(p), k)'
    <3>. PICK f : f = KeyPathOf(p)
      OBVIOUS
    <3>1. Holds(f, k)'
      BY <1>4, <1>5, <2>1
    <3>. QED
      BY <1>6, <3>1 DEF Holds
  <2>. QED
    BY <1>6, <2>1, <2>2
<1>7. ASSUME NEW p \in Processes, Acts(p) PROVE Held(p)' /\ Opens(p)' /\ Fills(p)'
  <2>1. CASE WriteKeyFile(p)
    <3>1. /\ SameConfig(p) /\ proc'[p].loads = 2 /\ proc[p].pc = "writeKey" /\ uses' = uses
          /\ proc'[p].pc = IF proc[p].loads = 1 THEN "readKey" ELSE "running"
          /\ proc'[p].key = IF proc[p].loads = uses THEN FromHex(proc[p].loaded) ELSE proc[p].key
          /\ keyFile' = [keyFile EXCEPT ![KeyPathOf(p)] = proc[p].loaded]
      BY <1>1, <1>7, <2>1, WriteKeyFileEffect, UsesStay DEF WriteKeyFile
    <3>2. proc[p].loads \in 1..2 /\ uses \in 1..2
      BY <1>1, <1>4 DEF Process, TypeOK
    <3>3. CASE proc[p].loads = uses
      <4>1. keyFile'[KeyPathOf(p)] = proc[p].loaded
        BY <1>1, <1>4, <3>1 DEF TypeOK
      <4>. QED
        BY <1>4, <3>1, <3>3, <4>1 DEF Holds, SameConfig, HasLoaded
    <3>4. CASE proc[p].loads # uses /\ HasKey(p)'
      <4>1. HasKey(p)
        BY <3>1, <3>2, <3>4 DEF HasKey, IsRunning
      <4>. QED
        BY <1>6, <3>1, <3>4, <4>1 DEF SameConfig
    <3>. QED
      BY <3>1, <3>3, <3>4
  <2>2. CASE ~WriteKeyFile(p)
    <3>1. Held(p)'
      BY <1>6, <1>7, <2>2, KeyStays DEF SameConfig
    <3>2. Opens(p)'
      <4>1. CASE ReadKey(p)
        <5>1. proc[p].pc = "readKey" /\ keyFile[KeyPathOf(p)] # Empty /\ keyFile' = keyFile
          BY <1>3, <4>1, ReadIsNotEmpty DEF ReadKey, files
        <5>2. PICK k : Load(p, k) /\ keyFile[KeyPathOf(p)] \in {Absent, k}
          BY <1>3, <4>1, <5>1 DEF ReadKey, Happens
        <5>. QED
          BY <1>1, <5>1, <5>2, LoadEffect DEF SameConfig
      <4>2. CASE GenerateKey(p) /\ proc'[p] # Stopped
        <5>1. keyFile[KeyPathOf(p)] = Absent /\ keyFile' = keyFile
          BY <1>3, <4>2 DEF GenerateKey, Unreadable, Happens, files
        <5>2. Load(p, drawn + 1)
          BY <1>1, <4>2, StopEffect DEF GenerateKey
        <5>. QED
          BY <1>1, <5>1, <5>2, LoadEffect DEF SameConfig
      <4>. QED
        BY <1>7, <2>2, <4>1, <4>2, KeyStays, StoppedTyped
    <3>3. Fills(p)'
      <4>1. CASE OpenKeyFile(p)
        BY <1>1, <1>4, <4>1, OpenKeyFileEffect DEF OpenKeyFile, TypeOK, SameConfig
      <4>. QED
        BY <1>7, <2>2, <4>1, KeyStays
    <3>. QED
      BY <3>1, <3>2, <3>3
  <2>. QED
    BY <2>1, <2>2
<1>8. ASSUME NEW p \in Processes, Acts(p), NEW o \in Processes, o # p
      PROVE  Held(o)' /\ Opens(o)' /\ Fills(o)'
  <2>1. proc'[o] = proc[o] /\ uses' = uses
    BY <1>1, <1>8, OthersStay, UsesStay
  <2>2. Held(o)'
    BY <1>6, <2>1 DEF HasKey, IsRunning, KeyPathOf
  <2>3. proc[o].pc \in {"openKey", "writeKey"} => keyFile' = keyFile
    <3>1. proc[o].pc \in {"openKey", "writeKey"} =>
              proc[p].pc = "stopped" \/ proc[p].pc = "running"
      BY <1>3, <1>8, OthersDoNotStart DEF IsStarting
    <3>. QED
      BY <1>1, <1>8, <3>1, FileEffect DEF OpenKeyFile, WriteKeyFile
  <2>. QED
    BY <1>2, <2>1, <2>2, <2>3 DEF KeyPathOf
<1>9. ASSUME NEW e \in encrypted' PROVE Column(e)'
  <2>1. CASE e \in encrypted
    <3>1. e.path \in KeyPaths /\ e.key \in KeyTexts
      BY <1>1, <2>1 DEF TypeOK
    <3>. QED
      BY <1>2, <1>5, <2>1, <3>1
  <2>2. CASE e \notin encrypted
    <3>1. PICK p \in Processes : Encrypt(p)
      BY <2>2
      DEF Next, Step, Start, Crash, Edit, ReadConfig, GetJwtSecret, CreateJwtSecret, OpenJwtFile,
          WriteJwtFile, ReadKey, GenerateKey, OpenKeyFile, WriteKeyFile, Sign, SameData, vars
    <3>2. /\ e = [db |-> proc[p].db, path |-> KeyPathOf(p), key |-> proc[p].key]
          /\ proc[p].key # Empty /\ HasKey(p) /\ proc' = proc
      BY <1>4, <2>2, <3>1 DEF Encrypt
    <3>3. PICK k \in KeyTexts : k # Empty /\ Holds(KeyPathOf(p), k) /\ proc[p].key = FromHex(k)
      BY <1>2, <3>2
    <3>4. k \notin MalformedKeys /\ e.key = k /\ e.path = KeyPathOf(p)
      BY <3>2, <3>3 DEF FromHex
    <3>. QED
      BY <1>4, <1>5, <3>3, <3>4
  <2>. QED
    BY <2>1, <2>2
<1>10. CASE UNCHANGED <<uses, files, proc>>
  <2>1. \A p \in Processes : Held(p)' /\ Opens(p)' /\ Fills(p)'
    BY <1>2, <1>10 DEF HasKey, IsRunning, Holds, KeyPathOf, files
  <2>. QED
    BY <1>9, <2>1
<1>11. (\E p \in Processes : Acts(p)) \/ UNCHANGED <<uses, files, proc>>
  BY DEF Next, Acts, Edit, vars, files
<1>. HIDE DEF Held, Opens, Fills, Column
<1>. QED
  BY <1>7, <1>8, <1>9, <1>10, <1>11

\* The database was chosen by the configuration the process works with, as long
\* as no edit comes between the two reads.
LEMMA DatabaseIsOfConfigNext ==
    ASSUME IInv, [Next]_vars
    PROVE  DatabaseIsOfConfig'
<1>. DEFINE Read(p) == IF proc[p].pc = "readConfig" THEN LoadConfigFile(candidates)
                       ELSE proc[p].config
            Ok(p) == proc[p].pc # "stopped" => proc[p].db = DatabaseOf(Read(p))
            Column(e) == e.db.driver = "sqlite" => e.db.home = e.path.home
<1>. SUFFICES ASSUME Spared({"editDuringStart"})'
              PROVE  /\ \A p \in Processes : Ok(p)'
                     /\ \A e \in encrypted' : Column(e)
  BY DEF DatabaseIsOfConfig
<1>1. Spared({"editDuringStart"}) /\ "editDuringStart" \notin mishaps' /\ TypeOK
  BY MishapsStay DEF IInv, Spared
<1>2. (\A p \in Processes : Ok(p)) /\ \A e \in encrypted : Column(e)
  BY <1>1 DEF IInv, DatabaseIsOfConfig
<1>3. ASSUME NEW p \in Processes, Acts(p) PROVE Ok(p)'
  <2>0. proc'[p] = Stopped => Ok(p)'
    BY StoppedTyped
  <2>1. candidates' = candidates
    BY <1>3 DEF Acts, Start, Crash, Step, ReadConfig, GetJwtSecret, CreateJwtSecret, OpenJwtFile,
                WriteJwtFile, ReadKey, GenerateKey, OpenKeyFile, WriteKeyFile, Encrypt, Sign,
                SameData, setting
  <2>2. CASE Start(p)
    BY <1>1, <2>0, <2>1, <2>2, StartEffect
  <2>3. CASE ReadConfig(p)
    BY <1>1, <1>2, <2>3, ReadConfigEffect
  <2>4. CASE GetJwtSecret(p) \/ CreateJwtSecret(p) \/ OpenJwtFile(p) \/ WriteJwtFile(p)
    BY <1>1, <1>2, <2>4, GetJwtSecretEffect, CreateJwtSecretEffect, OpenJwtFileEffect,
       WriteJwtFileEffect DEF SameConfig
  <2>5. CASE ReadKey(p) \/ GenerateKey(p)
    <3>1. proc[p].pc = "readKey" /\ (proc'[p] = Stopped \/ \E k : Load(p, k))
      BY <1>1, <2>5, StopEffect DEF ReadKey, GenerateKey
    <3>. QED
      BY <1>1, <1>2, <2>0, <3>1, LoadEffect DEF SameConfig
  <2>6. CASE OpenKeyFile(p) \/ WriteKeyFile(p)
    BY <1>1, <1>2, <2>6, OpenKeyFileEffect, WriteKeyFileEffect DEF SameConfig
  <2>7. CASE Encrypt(p) \/ Sign(p)
    BY <1>2, <2>1, <2>7 DEF Encrypt, Sign
  <2>8. CASE Crash(p)
    BY <1>1, <2>0, <2>8, StopEffect DEF Crash
  <2>. QED
    BY <1>3, <2>2, <2>3, <2>4, <2>5, <2>6, <2>7, <2>8 DEF Acts, Step
<1>4. ASSUME NEW p \in Processes, Acts(p), NEW o \in Processes, o # p PROVE Ok(o)'
  <2>1. candidates' = candidates
    BY <1>4 DEF Acts, Start, Crash, Step, ReadConfig, GetJwtSecret, CreateJwtSecret, OpenJwtFile,
                WriteJwtFile, ReadKey, GenerateKey, OpenKeyFile, WriteKeyFile, Encrypt, Sign,
                SameData, setting
  <2>. QED
    BY <1>1, <1>2, <1>4, <2>1, OthersStay
<1>5. ASSUME NEW i \in 1..Candidates, NEW content, Edit(i, content), NEW o \in Processes
      PROVE  Ok(o)'
  <2>1. proc' = proc /\ (proc[o].pc = "readConfig" =>
                             LoadConfigFile(candidates)' = LoadConfigFile(candidates))
    BY <1>1, <1>5 DEF Edit, Happens
  <2>. QED
    BY <1>2, <2>1
<1>6. ASSUME NEW e \in encrypted' PROVE Column(e)
  <2>1. CASE e \notin encrypted
    <3>1. PICK p \in Processes : Encrypt(p)
      BY <2>1
      DEF Next, Step, Start, Crash, Edit, ReadConfig, GetJwtSecret, CreateJwtSecret, OpenJwtFile,
          WriteJwtFile, ReadKey, GenerateKey, OpenKeyFile, WriteKeyFile, Sign, SameData, vars
    <3>2. /\ e = [db |-> proc[p].db, path |-> KeyPathOf(p), key |-> proc[p].key]
          /\ proc[p].pc = "running"
      BY <2>1, <3>1 DEF Encrypt, IsRunning
    <3>3. proc[p].db = DatabaseOf(proc[p].config) /\ proc[p].config \in Config
      BY <1>1, <1>2, <3>2 DEF TypeOK, Process
    <3>. QED
      BY <3>2, <3>3, DatabaseTyped DEF KeyPathOf
  <2>. QED
    BY <1>2, <2>1
<1>7. CASE UNCHANGED vars
  BY <1>2, <1>7 DEF vars
<1>. QED
  BY <1>3, <1>4, <1>5, <1>6, <1>7 DEF Next, Acts

LEMMA InvNext == IInv /\ [Next]_vars => IInv'
<1>. SUFFICES ASSUME IInv, [Next]_vars PROVE IInv'
  OBVIOUS
<1>1. TypeOK /\ OneStarts /\ LoadsInOrder
  BY DEF IInv
<1>. QED
  BY <1>1, TypeNext, OneStartsNext, LoadsInOrderNext, EmptyIsBeingWrittenNext,
     MalformedIsConfiguredNext, SecretsAreNotEmptyNext, JwtFileIsKeptNext, KeyFileIsKeptNext,
     DatabaseIsOfConfigNext
  DEF IInv

\* The strengthened invariant holds in every reachable state, whatever keys,
\* secrets and names of files the configurations give and however they are edited:
\* an unfinished write is that of a process still starting, the secret of every
\* process and token is the configured one or the content of the file it is named
\* for, and the key of every process and column is held by its own file.
THEOREM InvHolds == Spec => []IInv
<1>. QED
  BY InvInit, InvNext, PTL DEF Spec

-----------------------------------------------------------------------------
(* What the invariant gives.                                                *)

\* A running operator has a key and a secret that are not empty, unless a process
\* died while it wrote a file, two of them started at the same time, or a key was
\* configured that is not hexadecimal.
THEOREM RunningHasSecretsHolds == Spec => []RunningHasSecrets
<1>1. IInv => RunningHasSecrets
  <2>. SUFFICES ASSUME IInv, Spared({"tornWrite", "overlap", "malformedKey"}),
                       NEW p \in Processes, IsRunning(p)
                PROVE  proc[p].key # Empty /\ proc[p].jwt # Empty
    BY DEF RunningHasSecrets
  <2>1. Spared({"tornWrite", "overlap"}) /\ Spared({"malformedKey"})
    BY DEF Spared
  <2>. QED
    BY <2>1 DEF IInv, LoadsInOrder, SecretsAreNotEmpty, HasJwt, HasKey, IsRunning
<1>. QED
  BY <1>1, InvHolds, PTL

\* Whatever the configurations give, a token signed by an operator is one that
\* every later operator accepts whose secret is configured alike, or comes from
\* the file of the same home and name.
THEOREM TokensSurviveHolds == Spec => []TokensSurvive
<1>1. IInv => TokensSurvive
  <2>. SUFFICES ASSUME IInv, Spared({"readError", "overlap"}),
                       NEW p \in Processes, NEW t \in signed,
                       IsRunning(p), t.path = JwtPathOf(p), t.given = proc[p].config.jwt
                PROVE  t.secret = proc[p].jwt
    BY DEF TokensSurvive
  <2>. QED
    BY DEF IInv, JwtFileIsKept, HasJwt, IsRunning
<1>. QED
  BY <1>1, InvHolds, PTL

\* A file holds one key.
LEMMA HoldsOne ==
    ASSUME IInv, Spared({"overlap"}), NEW f \in KeyPaths,
           NEW k, NEW l, k # Empty, l # Empty, Holds(f, k), Holds(f, l)
    PROVE  k = l
<1>1. \A p, q \in Processes : proc[p].pc = "writeKey" /\ proc[q].pc = "writeKey" => p = q
  BY DEF IInv, OneStarts, IsStarting
<1>. QED
  BY <1>1 DEF Holds

\* The key of a running operator is made of the text its file holds.
LEMMA RunningKeyIsHeld ==
    ASSUME IInv, KeyIsSafe, NEW p \in Processes, IsRunning(p)
    PROVE  \E k \in KeyTexts : k # Empty /\ Holds(KeyPathOf(p), k) /\ proc[p].key = FromHex(k)
<1>1. HasKey(p)
  BY DEF IInv, LoadsInOrder, HasKey
<1>. QED
  BY <1>1 DEF IInv, KeyFileIsKept

\* As long as no configured key goes over another one, what one operator encrypted
\* every later one can decrypt that has the same SQLite file, or the same server
\* and home, and the same name for the file of the key.
THEOREM StoredIsReadableHolds == Spec => []StoredIsReadable
<1>1. IInv => StoredIsReadable
  <2>. SUFFICES ASSUME IInv, Spared(Mishaps \ {"malformedKey"}),
                       NEW p \in Processes, NEW e \in encrypted,
                       IsRunning(p), e.db = proc[p].db, e.path.name = KeyPathOf(p).name,
                       e.db.driver = "sqlite" \/ e.path.home = KeyPathOf(p).home
                PROVE  e.key = proc[p].key
    BY DEF StoredIsReadable
  <2>1. KeyIsSafe /\ Spared({"overlap"}) /\ Spared({"editDuringStart"})
    BY DEF KeyIsSafe, Spared, Mishaps
  <2>2. proc[p].config \in Config /\ KeyPathOf(p) \in KeyPaths /\ e.path \in KeyPaths
    BY PathsTyped DEF IInv, TypeOK, Process
  <2>3. e.path.home = KeyPathOf(p).home
    <3>1. proc[p].db = DatabaseOf(proc[p].config)
      BY <2>1 DEF IInv, DatabaseIsOfConfig, IsRunning
    <3>2. e.db.driver = "sqlite" => e.db.home = e.path.home
      BY <2>1 DEF IInv, DatabaseIsOfConfig
    <3>. QED
      BY <2>2, <3>1, <3>2, DatabaseTyped DEF KeyPathOf
  <2>4. e.path = KeyPathOf(p)
    BY <2>2, <2>3 DEF KeyPaths
  <2>5. e.key # Empty /\ e.key \notin MalformedKeys /\ Holds(e.path, e.key)
    BY <2>1 DEF IInv, KeyFileIsKept
  <2>6. PICK k \in KeyTexts : k # Empty /\ Holds(KeyPathOf(p), k) /\ proc[p].key = FromHex(k)
    BY <2>1, RunningKeyIsHeld
  <2>7. e.key = k
    BY <2>1, <2>2, <2>4, <2>5, <2>6, HoldsOne
  <2>. QED
    BY <2>5, <2>6, <2>7 DEF FromHex
<1>. QED
  BY <1>1, InvHolds, PTL

\* When no process is starting, the key each running one works with is made of the
\* text in the file it is configured with, whichever EnvService or process wrote
\* it, as long as no configured key goes over another one.
THEOREM RunningKeyIsStoredHolds == Spec => []RunningKeyIsStored
<1>1. IInv => RunningKeyIsStored
  <2>. SUFFICES ASSUME IInv, KeyIsSafe, \A q \in Processes : ~IsStarting(q),
                       NEW p \in Processes, IsRunning(p)
                PROVE  FromHex(keyFile[KeyPathOf(p)]) = proc[p].key
    BY DEF RunningKeyIsStored, KeyIsSafe, Spared, Mishaps
  <2>1. PICK k \in KeyTexts : k # Empty /\ Holds(KeyPathOf(p), k) /\ proc[p].key = FromHex(k)
    BY RunningKeyIsHeld
  <2>2. keyFile[KeyPathOf(p)] = k
    BY <2>1 DEF Holds, IsStarting, IsRunning
  <2>. QED
    BY <2>1, <2>2
<1>. QED
  BY <1>1, InvHolds, PTL
=============================================================================

--------------------------- MODULE MCStartupKeys ---------------------------
(* Instances of StartupKeys for TLC. *)
EXTENDS StartupKeys, FiniteSets, TLC

CONSTANTS OtherHome, OtherKeyName, OtherJwtName, Server, Key1, Key2, NoHex, Secret1, Secret2

\* Processes are interchangeable.
Symmetry == Permutations(Processes)

\* Files that differ in what matters: two that give different secrets, another
\* home directory with a server, other names of the two files of secrets in the
\* same home, a key that is not hexadecimal for the server, no permission to draw
\* a key, and a database section without a driver.  With no file there is the
\* default configuration.
Sqlite == [DefaultSection EXCEPT !.key = Key1]
File(home, database, jwt) ==
    [home |-> home, keyName |-> Omitted, jwtName |-> Omitted, database |-> database, jwt |-> jwt]
Elsewhere == File(OtherHome, [DefaultSection EXCEPT !.postgresql = Server], Omitted)
MCContents == {
    File(Omitted, Sqlite, Secret1),
    File(Omitted, [Sqlite EXCEPT !.key = Key2], Secret2),
    Elsewhere,
    File(OtherHome, [DefaultSection EXCEPT !.postgresql = Server, !.key = NoHex], Omitted),
    [File(Omitted, Omitted, Omitted) EXCEPT !.keyName = OtherKeyName, !.jwtName = OtherJwtName],
    File(Omitted, [DefaultSection EXCEPT !.mayGenerate = FALSE], Omitted),
    File(Omitted, [Sqlite EXCEPT !.sqlite = Omitted], Omitted) }

\* After these mishaps every property is silent: TLC does not go on from there.
\* At the start there is one file at most, the last candidate; an edit changes it,
\* or brings one that goes before it: that of the other home, or an invalid one.
\* No property compares two columns, two tokens, or a column with a token, and no
\* action depends on them: to follow one at a time, and only as long as the
\* property about it is not silent, misses nothing.
StillClaimed ==
    /\ Cardinality(encrypted) + Cardinality(signed) <= 1
    /\ encrypted # {} => mishaps \subseteq {"malformedKey"}
    /\ signed # {} => "readError" \notin mishaps
    /\ "overlap" \notin mishaps
    /\ ~("readError" \in mishaps /\ mishaps \cap {"tornWrite", "malformedKey"} # {})
    /\ edits = 0 => candidates[1] = Absent
    /\ candidates[1] \in {Absent, Invalid, Elsewhere}
=============================================================================

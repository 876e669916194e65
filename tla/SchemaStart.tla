---------------------------- MODULE SchemaStart ----------------------------
(***************************************************************************)
(* Database.initialize (database.py): every process that opens the library *)
(* brings the schema to the newest version first.  It reads user_version   *)
(* once, outside a transaction, and then runs the scripts after it, each   *)
(* in a transaction of its own that also sets user_version.                *)
(*                                                                         *)
(* The API, the gateway and the command line may start together.           *)
(***************************************************************************)
EXTENDS Naturals

CONSTANTS Process,
          Newest   \* SCHEMA_VERSION

ASSUME NewestAssumption == Newest \in Nat \ {0}

VARIABLES version,  \* PRAGMA user_version
          level,    \* the last script whose tables and columns are there
          starts,   \* [Process -> where its start is]
          empty     \* history: the processes found no database

schemaVars == <<version, level, starts, empty>>

Down == [at |-> "down", next |-> 1]

\* next: the script that comes next for the process
StartType == [at : {"down", "migrates", "up", "failed"}, next : 1 .. Newest + 1]

SchemaTypeOK ==
    /\ version \in 0 .. Newest /\ level \in 0 .. Newest
    /\ starts \in [Process -> StartType] /\ empty \in BOOLEAN

\* No database, or one of an older version of the program.
SchemaInit ==
    /\ version \in 0 .. Newest - 1 /\ level = version /\ empty = (version = 0)
    /\ starts = [p \in Process |-> Down]

Turn(p, s) == starts' = [starts EXCEPT ![p] = s] /\ UNCHANGED empty

-----------------------------------------------------------------------------
ReadsVersion(p) ==
    /\ starts[p].at = "down"
    /\ Turn(p, [at |-> "migrates", next |-> version + 1])
    /\ UNCHANGED <<version, level>>

\* The first script creates what is not there yet; the others add columns, which
\* fails where they are.
CanRun(n) == n = 1 \/ level < n

\* Mutant of AfterScript: the version is left to the scripts that follow.
AfterUnnumbered(n) == level' = (IF level < n THEN n ELSE level) /\ version' = version

\* what a script leaves behind
AfterScript(n) == level' = (IF level < n THEN n ELSE level) /\ version' = n

RunsScript(p) ==
    LET n == starts[p].next IN
    /\ starts[p].at = "migrates" /\ n <= Newest /\ CanRun(n)
    /\ AfterScript(n) /\ Turn(p, [starts[p] EXCEPT !.next = n + 1])

\* A script that cannot be applied, or waits too long for the lock, is rolled
\* back when the connection is closed; its error ends the process.
ScriptFails(p) ==
    /\ starts[p].at = "migrates" /\ starts[p].next <= Newest
    /\ Turn(p, [starts[p] EXCEPT !.at = "failed"])
    /\ UNCHANGED <<version, level>>

IsUp(p) ==
    /\ starts[p].at = "migrates" /\ starts[p].next = Newest + 1
    /\ Turn(p, [starts[p] EXCEPT !.at = "up"])
    /\ UNCHANGED <<version, level>>

\* It is ended or killed, and may be started again.
EndsProcess(p) ==
    /\ starts[p].at # "down" /\ Turn(p, Down)
    /\ UNCHANGED <<version, level>>

SchemaNext ==
    \E p \in Process : \/ ReadsVersion(p) \/ RunsScript(p) \/ ScriptFails(p)
                       \/ IsUp(p) \/ EndsProcess(p)

SchemaSpec == SchemaInit /\ [][SchemaNext]_schemaVars

-----------------------------------------------------------------------------
(* Properties.                                                             *)

\* A database that was there before the processes started keeps the version of
\* its schema, however many of them migrate it together, fail and are killed.
\* On one that was not, user_version never claims more than there is.
SchemaIsRecorded ==
    /\ version <= level
    /\ ~empty => version = level

\* What the documentation of the migrations says (they set user_version only
\* when they are complete and are idempotent once it is registered): the version
\* is that of the schema, so that the next start finds out what is left to do.
VersionTellsSchema == version = level
=============================================================================

-------------------------- MODULE SchemaMigrations --------------------------
(***************************************************************************)
(* The migrations SqliteStore::open applies, version after version: each   *)
(* changes the schema, fills what older rows lack, records its version and *)
(* checks the recorded checksum.  Every statement is a transaction of its  *)
(* own, and the process may die between two of them.                       *)
(*                                                                         *)
(* Abstractions.  The tables, columns and indexes of a version are one     *)
(* change, for the code adds only what is missing; so are the updates that *)
(* fill them.  MaxOpens bounds the model.                                  *)
(***************************************************************************)
EXTENDS Naturals

CONSTANTS
    LastVersion,    \* RETENTION_INDEX_SCHEMA_VERSION
    Filling,        \* versions that fill older rows: 5, 6 and 8
    MaxOpens        \* bound: times the store is opened

ASSUME MigrationsAssumption ==
    LastVersion \in Nat \ {0} /\ Filling \subseteq 1..LastVersion /\ MaxOpens \in Nat

VARIABLES
    changed,        \* durable: versions whose change is there
    filled,         \* durable: versions whose older rows are filled
    recorded,       \* durable: rows of schema_migrations
    foreign,        \* durable: rows with another checksum
    opening,        \* the version and the statement under way
    opens           \* bound

migrationVars == <<changed, filled, recorded, foreign, opening, opens>>

-----------------------------------------------------------------------------

Version == 1..LastVersion
Closed == [version |-> 0, next |-> "closed"]
Doing(v, what) == opening = [version |-> v, next |-> what]
Then(v, what) == opening' = [version |-> v, next |-> what]

\* A database written by an earlier version of the program, or none yet, perhaps
\* with a history that is not this program's.
MigrationsInit ==
    /\ \E v \in 0..LastVersion : changed = 1..v
    /\ filled = changed \cap Filling
    /\ recorded = changed
    /\ \E v \in Version : foreign \in {{}, recorded \cap {v}}
    /\ opening = Closed /\ opens = 0

Open ==
    /\ opening = Closed
    /\ opens < MaxOpens
    /\ opens' = opens + 1
    /\ Then(1, "change")
    /\ UNCHANGED <<changed, filled, recorded, foreign>>

\* Mutant: rows are filled by the statement that adds the column, or not at all.
ChangeSchemaFillsOnce(v) ==
    /\ Doing(v, "change")
    /\ changed' = changed \cup {v}
    /\ Then(v, IF v \in Filling /\ v \notin changed THEN "fill" ELSE "record")
    /\ UNCHANGED <<filled, recorded, foreign, opens>>

\* CREATE ... IF NOT EXISTS, ensure_column, or ALTER TABLE and its fallback.
ChangeSchema(v) ==
    /\ Doing(v, "change")
    /\ changed' = changed \cup {v}
    /\ Then(v, IF v \in Filling THEN "fill" ELSE "record")
    /\ UNCHANGED <<filled, recorded, foreign, opens>>

\* UPDATE ... WHERE the column has its default: it runs at every start.
FillRows(v) ==
    /\ Doing(v, "fill")
    /\ filled' = filled \cup {v}
    /\ Then(v, "record")
    /\ UNCHANGED <<changed, recorded, foreign, opens>>

\* INSERT OR IGNORE.
RecordVersion(v) ==
    /\ Doing(v, "record")
    /\ recorded' = recorded \cup {v}
    /\ Then(v, "verify")
    /\ UNCHANGED <<changed, filled, foreign, opens>>

VerifyChecksum(v) ==
    /\ Doing(v, "verify")
    /\ IF v \in foreign THEN opening' = Closed
       ELSE IF v = LastVersion THEN Then(v, "check") ELSE Then(v + 1, "change")
    /\ UNCHANGED <<changed, filled, recorded, foreign, opens>>

\* PRAGMA integrity_check, which may fail.
CheckIntegrity ==
    /\ Doing(LastVersion, "check")
    /\ Then(LastVersion, "serve") \/ opening' = Closed
    /\ UNCHANGED <<changed, filled, recorded, foreign, opens>>

\* The process dies, or a statement fails.
DieOpening ==
    /\ opening # Closed
    /\ opening' = Closed
    /\ UNCHANGED <<changed, filled, recorded, foreign, opens>>

MigrationsNext ==
    \/ Open \/ CheckIntegrity \/ DieOpening
    \/ \E v \in Version : ChangeSchema(v) \/ FillRows(v) \/ RecordVersion(v) \/ VerifyChecksum(v)

MigrationsSpec == MigrationsInit /\ [][MigrationsNext]_migrationVars

-----------------------------------------------------------------------------
(* Properties. *)

MigrationsTypeOK ==
    /\ changed \subseteq Version /\ recorded \subseteq Version /\ foreign \subseteq Version
    /\ filled \subseteq Filling
    /\ opening \in [version : 0..LastVersion,
                    next : {"closed", "change", "fill", "record", "verify", "check", "serve"}]
    /\ opens \in 0..MaxOpens

\* Although no migration is a transaction: wherever earlier starts died, a
\* version on record has its schema and its rows, versions are recorded in their
\* order, and a server that serves has all of them and a history of its own.
MigrationsConverge ==
    /\ recorded \subseteq changed /\ recorded \cap Filling \subseteq filled
    /\ \A v \in recorded : 1..v \subseteq recorded
    /\ opening.next = "serve" =>
          changed = Version /\ filled = Filling /\ recorded = Version /\ foreign = {}
=============================================================================

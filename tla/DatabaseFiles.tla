---------------------------- MODULE DatabaseFiles ----------------------------
(***************************************************************************)
(* The files of the store: the database and its write-ahead log, the       *)
(* archives of create_snapshot, and the offline restore of one of them     *)
(* (verify, copy, check, set the database aside, put the copy in place).   *)
(* Server and restore hold the same lock; either may die at any step.      *)
(*                                                                         *)
(* Abstractions.  The content of a file is the set of transactions in it.  *)
(* Of SQLite (external): a commit goes to the log, a checkpoint moves it   *)
(* to the database, and a log found beside a database is replayed into it, *)
(* whichever database it was written for; beside a database that has just  *)
(* been created it is deleted.  The server never closes its connection,    *)
(* its threads hold the store until the process ends.  Damage is of a kind *)
(* the integrity check sees.  Set aside files, named by the second, have   *)
(* distinct names; a copy left behind is not used again.  MaxCommits and   *)
(* MaxRestores bound the model.                                            *)
(***************************************************************************)
EXTENDS Naturals

CONSTANTS
    Archive,        \* names of snapshots
    MaxCommits,     \* bound: transactions committed
    MaxRestores     \* bound: databases ever set in place

ASSUME FilesAssumption == MaxCommits \in Nat /\ MaxRestores \in Nat

VARIABLES
    process,        \* who holds the lock, and how far it is
    database,       \* robine.sqlite3
    log,            \* robine.sqlite3-wal
    aside,          \* robine-pre-restore-*: databases set aside
    copy,           \* .robine-restore-*: the copy a restore works on
    archives,       \* backups/: snapshots and their manifests
    commits,        \* history: transactions committed
    checkpointed,   \* history: transactions that have reached a database
    identity,       \* history: databases created
    started         \* history: what the last server found

fileVars == <<process, database, log, aside, copy, archives, commits, checkpointed,
              identity, started>>

-----------------------------------------------------------------------------

Commit == 1..MaxCommits
FileOf(id, content, state) == [id |-> id, content |-> content, state |-> state]
NoFile == FileOf(0, {}, "absent")
NoLog == [of |-> 0, content |-> {}]
NoArchive == [content |-> {}, manifest |-> FALSE, state |-> "absent"]
Free == [at |-> "free", archive |-> "none"]
At(place) == process.at = place
GoTo(place) == process' = [process EXCEPT !.at = place]

FilesInit ==
    /\ process = Free
    /\ database = NoFile /\ log = NoLog /\ copy = NoFile
    /\ aside = {}
    /\ archives = [a \in Archive |-> NoArchive]
    /\ commits = 0 /\ checkpointed = {} /\ identity = 0
    /\ started = "never"

-----------------------------------------------------------------------------
(* The server. *)

\* SqliteStore::open creates a database where there is none, or replays the log
\* it finds beside the one that is there.
OpenDatabase ==
    /\ At("free")
    /\ identity < MaxRestores
    /\ process' = [at |-> "serving", archive |-> "none"]
    /\ \/ /\ database = NoFile
          /\ database' = FileOf(identity + 1, {}, "whole")
          /\ identity' = identity + 1
          /\ started' = IF commits = 0 THEN "whole" ELSE "empty"
          /\ UNCHANGED checkpointed
       \/ /\ database # NoFile
          /\ LET replayed == database.content \cup log.content
                 own == log = NoLog \/ log.of = database.id
             IN  /\ database' = FileOf(database.id, replayed,
                                       IF own THEN database.state ELSE "mixed")
                 /\ started' = IF own THEN database.state ELSE "mixed"
          /\ checkpointed' = checkpointed \cup log.content
          /\ UNCHANGED identity
    /\ log' = NoLog
    /\ UNCHANGED <<aside, copy, archives, commits>>

CommitOne ==
    /\ At("serving")
    /\ commits < MaxCommits
    /\ commits' = commits + 1
    /\ log' = [of |-> database.id, content |-> log.content \cup {commits + 1}]
    /\ UNCHANGED <<process, database, aside, copy, archives, checkpointed, identity, started>>

Checkpoint ==
    /\ At("serving")
    /\ log # NoLog
    /\ database' = [database EXCEPT !.content = @ \cup log.content]
    /\ checkpointed' = checkpointed \cup log.content
    /\ log' = NoLog
    /\ UNCHANGED <<process, aside, copy, archives, commits, identity, started>>

\* create_snapshot: a consistent copy of what is committed ...
CopySnapshot(a) ==
    /\ At("serving")
    /\ archives[a] = NoArchive
    /\ archives' = [archives EXCEPT ![a] =
          [content |-> database.content \cup log.content, manifest |-> FALSE,
           state |-> database.state]]
    /\ UNCHANGED <<process, database, log, aside, copy, commits, checkpointed, identity, started>>

\* ... and then its manifest, without which the copy is of no use.
WriteManifest(a) ==
    /\ At("serving")
    /\ archives[a] # NoArchive /\ ~archives[a].manifest
    /\ archives' = [archives EXCEPT ![a].manifest = TRUE]
    /\ UNCHANGED <<process, database, log, aside, copy, commits, checkpointed, identity, started>>

\* An archive is damaged where it lies.
DamageArchive(a) ==
    /\ archives[a] # NoArchive
    /\ archives' = [archives EXCEPT ![a].state = "damaged"]
    /\ UNCHANGED <<process, database, log, aside, copy, commits, checkpointed, identity, started>>

-----------------------------------------------------------------------------
(* restore --manifest ... --confirm. *)

\* verify_snapshot: size, checksum and integrity.
Verified(a) == archives[a].manifest /\ archives[a].state # "damaged"

BeginRestore(a) ==
    /\ At("free")
    /\ identity < MaxRestores
    /\ Verified(a)
    /\ process' = [at |-> "verified", archive |-> a]
    /\ UNCHANGED <<database, log, aside, copy, archives, commits, checkpointed, identity, started>>

StageCopy ==
    /\ At("verified")
    /\ copy' = FileOf(identity + 1, archives[process.archive].content,
                      archives[process.archive].state)
    /\ identity' = identity + 1
    /\ GoTo("staged")
    /\ UNCHANGED <<database, log, aside, archives, commits, checkpointed, started>>

\* The integrity of the copy is checked; a damaged one is removed.
CheckCopy ==
    /\ At("staged")
    /\ \/ copy.state # "damaged" /\ GoTo("checked") /\ UNCHANGED copy
       \/ copy.state = "damaged" /\ process' = Free /\ copy' = NoFile
    /\ UNCHANGED <<database, log, aside, archives, commits, checkpointed, identity, started>>

\* Mutant: the database is overwritten.
LeaveInPlace == UNCHANGED <<database, aside>>

\* The database, without its log, gets another name.
SetAside ==
    /\ database' = NoFile
    /\ aside' = IF database = NoFile THEN aside ELSE aside \cup {database}

MoveAside ==
    /\ At("checked")
    /\ SetAside
    /\ GoTo(IF database = NoFile THEN "vacant" ELSE "aside")
    /\ UNCHANGED <<log, copy, archives, commits, checkpointed, identity, started>>

PutInPlace ==
    /\ At("aside") \/ At("vacant")
    /\ database' = copy
    /\ copy' = NoFile
    /\ process' = Free
    /\ UNCHANGED <<log, aside, archives, commits, checkpointed, identity, started>>

\* The copy cannot be put in place: the database gets its name back.
PutBack(previous) ==
    /\ At("aside")
    /\ previous \in aside
    /\ \A other \in aside : other.id <= previous.id
    /\ database' = previous
    /\ aside' = aside \ {previous}
    /\ process' = Free
    /\ UNCHANGED <<log, copy, archives, commits, checkpointed, identity, started>>

\* Any other step may fail, and the process may die: the files stay as they are.
Abandon ==
    /\ ~At("free")
    /\ process' = Free
    /\ copy' = NoFile
    /\ UNCHANGED <<database, log, aside, archives, commits, checkpointed, identity, started>>

FilesNext ==
    \/ OpenDatabase \/ CommitOne \/ Checkpoint
    \/ \E a \in Archive : CopySnapshot(a) \/ WriteManifest(a) \/ DamageArchive(a) \/ BeginRestore(a)
    \/ StageCopy \/ CheckCopy \/ MoveAside \/ PutInPlace
    \/ \E previous \in aside : PutBack(previous)
    \/ Abandon

FilesSpec == FilesInit /\ [][FilesNext]_fileVars

-----------------------------------------------------------------------------
(* Properties. *)

FileRecord == [id : 0..MaxRestores, content : SUBSET Commit,
               state : {"absent", "whole", "damaged", "mixed"}]

FilesTypeOK ==
    /\ process \in [at : {"free", "serving", "verified", "staged", "checked", "aside", "vacant"},
                    archive : Archive \cup {"none"}]
    /\ {database, copy} \cup aside \subseteq FileRecord
    /\ log.of \in 0..MaxRestores /\ log.content \subseteq Commit
    /\ archives \in [Archive -> [content : SUBSET Commit, manifest : BOOLEAN,
                                 state : {"absent", "whole", "damaged", "mixed"}]]
    /\ commits \in 0..MaxCommits /\ checkpointed \subseteq Commit
    /\ identity \in 0..MaxRestores
    /\ started \in {"never", "whole", "empty", "mixed"}

\* storage/0001: restoring a damaged archive does not alter the database.
\* Wherever a restore fails or dies, and however often restores follow each
\* other: no damaged archive becomes the database, and every transaction that
\* had reached a database is still in the database or in one set aside, until a
\* server replays a log that is not its own.
RestoreKeepsData ==
    /\ database.state # "damaged"
    /\ (\A file \in aside \cup {database} : file.state # "mixed") =>
          checkpointed \subseteq database.content \cup UNION {file.content : file \in aside}

-----------------------------------------------------------------------------
(* What the documentation says and the code does not keep. *)

\* storage/0001: Robine does not start on a state that is restored in part.
NeverStartsHalfRestored == started \in {"never", "whole"}
=============================================================================

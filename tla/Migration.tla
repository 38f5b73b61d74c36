------------------------------ MODULE Migration ------------------------------
(***************************************************************************)
(* prepare_database (db.rs): at every start the daemon brings the SQLite   *)
(* file, which an older release may have left, to the newest schema.  Each *)
(* migration runs its statements and then notes itself in the table        *)
(* ilagent; every statement is a transaction of its own.                   *)
(*                                                                         *)
(* The schema is the set of the tables, and of the columns of event_items  *)
(* that a migration touches.                                               *)
(***************************************************************************)
EXTENDS Naturals, Sequences, SequencesExt

CONSTANTS
  QueuesLeft,    \* whether older releases may have left events: in BOOLEAN
  MaxCrashes,    \* bound on crashes
  MaxUnreadable  \* bound on notes that cannot be read

ASSUME MigrationAssumption ==
  /\ QueuesLeft \subseteq BOOLEAN
  /\ MaxCrashes \in Nat
  /\ MaxUnreadable \in Nat

(* What a statement expects to find, removes and adds; "computed" says that *)
(* the default of a new column is an expression, which SQLite accepts only   *)
(* for a table without rows.                                                 *)
CreateTable(adds) ==
  [needs |-> {}, drops |-> {}, adds |-> adds, computed |-> FALSE]
RenameColumn(old, new) ==
  [needs |-> {"event_items", old}, drops |-> {old}, adds |-> {new}, computed |-> FALSE]
AddColumn(column, computed) ==
  [needs |-> {"event_items"}, drops |-> {}, adds |-> {column}, computed |-> computed]

(* Mutant: the name of the first table is kept when the statement is copied. *)
CreateMisnamed == CreateTable({"event_items"})

CreateMqttQueue == CreateTable({"mqtt_queue"})

RenameIncident == RenameColumn("incident_key", "alert_key")
AddInserted == AddColumn("inserted_at", TRUE)

Migrations ==
  << <<CreateTable({"event_items", "api_key", "incident_key"})>>,
     <<RenameIncident, AddInserted>>,
     <<AddColumn("event_api_path", FALSE)>>,
     <<RenameColumn("api_key", "integration_key")>>,
     <<CreateMqttQueue>> >>

Version == 1..Len(Migrations)

(* The statements of the migrations up to v. *)
UpTo(v) == UNION {Range(Migrations[w]) : w \in 1..v}

Names == UNION {s.adds : s \in UpTo(Len(Migrations))}

Executed(s, on) == (on \ s.drops) \cup s.adds

(* The schema after the migrations up to v: no name that was dropped is     *)
(* added again.                                                             *)
SchemaOf[v \in 0..Len(Migrations)] ==
  (UNION {s.adds : s \in UpTo(v)}) \ (UNION {s.drops : s \in UpTo(v)})

VARIABLES
  schema,    \* what is in the file
  queued,    \* event_items has rows
  notes,     \* the migrations noted in the table ilagent
  pc,        \* "down", "check", "apply" or "ready"
  version,   \* the migration that is looked at
  todo,      \* its statements still to be executed
  conflict,  \* history: SQLite refused a statement
  crashes,   \* crashes so far
  unreadable \* notes so far that could not be read

boundVars == <<crashes, unreadable>>
vars == <<schema, queued, notes, pc, version, todo, conflict, boundVars>>

TypeOK ==
  /\ schema \subseteq Names
  /\ queued \in BOOLEAN
  /\ notes \subseteq Version
  /\ pc \in {"down", "check", "apply", "ready"}
  /\ version \in Version
  /\ \E k \in 1..Len(Migrations[version]) + 1 :
       todo = SubSeq(Migrations[version], k, Len(Migrations[version]))
  /\ conflict \in BOOLEAN
  /\ crashes \in 0..MaxCrashes
  /\ unreadable \in 0..MaxUnreadable

(* A file is new, or was left by a release that knew the migrations up to v. *)
Between(v) == schema = SchemaOf[v] /\ notes = 1..v

Init ==
  /\ \E v \in 0..Len(Migrations) : Between(v)
  /\ queued \in QueuesLeft
  /\ "event_items" \notin schema => ~queued
  /\ pc = "down"
  /\ version = 1
  /\ todo = << >>
  /\ conflict = FALSE
  /\ crashes = 0
  /\ unreadable = 0

(* SQLite takes the statement. *)
Executable(s) ==
  /\ s.needs \subseteq schema
  /\ s.adds \cap schema = {}
  /\ s.computed => ~queued

Bootstrap ==
  /\ pc = "down"
  /\ pc' = "check"
  /\ version' = 1
  /\ todo' = << >>
  /\ UNCHANGED <<schema, queued, notes, conflict, boundVars>>

(* Mutant: the last migration is not recognised as such. *)
NextUnbounded == pc' = "check" /\ version' = version + 1

NextVersion ==
  IF version < Len(Migrations)
  THEN pc' = "check" /\ version' = version + 1
  ELSE pc' = "ready" /\ UNCHANGED version

SkipMigration ==
  /\ pc = "check"
  /\ version \in notes
  /\ NextVersion
  /\ UNCHANGED <<schema, queued, notes, todo, conflict, boundVars>>

(* Mutant: the migration is noted before its statements have run. *)
NotedAtOnce == notes \cup {version}

NotedBefore == notes

BeginMigration ==
  /\ pc = "check"
  /\ version \notin notes
  /\ notes' = NotedBefore
  /\ todo' = Migrations[version]
  /\ pc' = "apply"
  /\ UNCHANGED <<schema, queued, version, conflict, boundVars>>

(* get_il_value reads a note that cannot be read as one that is not there. *)
BeginUnreadable ==
  /\ pc = "check"
  /\ unreadable < MaxUnreadable
  /\ unreadable' = unreadable + 1
  /\ todo' = Migrations[version]
  /\ pc' = "apply"
  /\ UNCHANGED <<schema, queued, notes, version, conflict, crashes>>

Apply ==
  /\ pc = "apply"
  /\ todo # << >>
  /\ Executable(Head(todo))
  /\ schema' = Executed(Head(todo), schema)
  /\ todo' = Tail(todo)
  /\ UNCHANGED <<queued, notes, pc, version, conflict, boundVars>>

(* SQLite refuses the statement and expect() ends the process. *)
ApplyRefused ==
  /\ pc = "apply"
  /\ todo # << >>
  /\ ~Executable(Head(todo))
  /\ conflict' = TRUE
  /\ pc' = "down"
  /\ todo' = << >>
  /\ UNCHANGED <<schema, queued, notes, version, boundVars>>

(* set_il_val reads the note again and inserts or updates it. *)
NoteMigration ==
  /\ pc = "apply"
  /\ todo = << >>
  /\ notes' = notes \cup {version}
  /\ NextVersion
  /\ UNCHANGED <<schema, queued, todo, conflict, boundVars>>

Crash ==
  /\ pc # "down"
  /\ crashes < MaxCrashes
  /\ crashes' = crashes + 1
  /\ pc' = "down"
  /\ todo' = << >>
  /\ UNCHANGED <<schema, queued, notes, version, conflict, unreadable>>

Prepare ==
  \/ Bootstrap
  \/ SkipMigration
  \/ BeginMigration
  \/ Apply
  \/ ApplyRefused
  \/ NoteMigration

(* The daemon runs on; events come and go. *)
Serve ==
  /\ pc = "ready"
  /\ queued' \in BOOLEAN
  /\ UNCHANGED <<schema, notes, pc, version, todo, conflict, boundVars>>

Next == Prepare \/ BeginUnreadable \/ Crash \/ Serve

Spec == Init /\ [][Next]_vars

(* The daemon is started again whenever it has ended. *)
FairSpec == Spec /\ WF_vars(Prepare)

--------------------------------------------------------------------------------
(* Whatever interrupted the starts before, a daemon that gets past          *)
(* prepare_database works on the newest schema: after a crash between the    *)
(* statements of a migration and its note, which they do not survive being   *)
(* repeated, every start fails, and none passes it over.                     *)
ReadyMeansMigrated ==
  pc = "ready" => notes = Version /\ schema = SchemaOf[Len(Migrations)]

(* A start from between two migrations, with no fault to come, completes    *)
(* from whichever release the file is; one without inserted_at must have no  *)
(* events left.                                                              *)
Clean ==
  /\ pc = "down" /\ crashes = MaxCrashes /\ unreadable = MaxUnreadable
  /\ \E v \in 0..Len(Migrations) : Between(v)
  /\ queued => 2 \in notes

CleanStartCompletes == Clean ~> pc = "ready"

(* Without crashes and unreadable notes a start fails only for a file of    *)
(* the first release that has events left: the first such start at the       *)
(* column inserted_at (db.rs:95-97), each one after it already at the column  *)
(* that the first has renamed (db.rs:89-93).                                  *)
OnlyLeftEventsConflict ==
  [][pc = "apply" /\ pc' = "down" /\ crashes' = 0 /\ unreadable' = 0
       => /\ queued /\ notes = {1}
          /\ Head(todo) = IF conflict THEN RenameIncident ELSE AddInserted]_vars

(* CHANGELOG.md:87 "will migrate incident_key -> alert_key in code and db": *)
(* without any fault a start migrates what an older release has left.        *)
UpgradeCompletes == crashes = 0 /\ unreadable = 0 => ~conflict
================================================================================

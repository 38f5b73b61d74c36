--------------------------- MODULE MigrationProofs ---------------------------
(***************************************************************************)
(* What Migration promises for files of every release, with or without     *)
(* events in them, and any number of crashes and unreadable notes.          *)
(***************************************************************************)
EXTENDS Migration, TLAPS

(***************************************************************************)
(* The migrations spelled out, and the schema after each of them.          *)
(***************************************************************************)
FirstTable == {"event_items", "api_key", "incident_key"}
Half == {"event_items", "api_key", "alert_key"}
Timed == Half \cup {"inserted_at"}
Pathed == Timed \cup {"event_api_path"}
Integrated == {"event_items", "integration_key", "alert_key", "inserted_at",
               "event_api_path"}
Newest == Integrated \cup {"mqtt_queue"}

CreateEvents == CreateTable(FirstTable)
AddPath == AddColumn("event_api_path", FALSE)
RenameKey == RenameColumn("api_key", "integration_key")

LEMMA TheMigrations ==
  /\ Len(Migrations) = 5
  /\ DOMAIN Migrations = 1..5
  /\ Migrations[1] = <<CreateEvents>>
  /\ Migrations[2] = <<RenameIncident, AddInserted>>
  /\ Migrations[3] = <<AddPath>>
  /\ Migrations[4] = <<RenameKey>>
  /\ Migrations[5] = <<CreateMqttQueue>>
<1>1. Migrations = << <<CreateEvents>>, <<RenameIncident, AddInserted>>, <<AddPath>>,
                      <<RenameKey>>, <<CreateMqttQueue>> >>
  BY DEF Migrations, CreateEvents, RenameIncident, AddInserted, AddPath, RenameKey,
         FirstTable
<1> HIDE DEF Migrations
<1> QED
  BY <1>1

LEMMA UpToFact ==
  /\ UpTo(0) = {}
  /\ UpTo(1) = {CreateEvents}
  /\ UpTo(2) = UpTo(1) \cup {RenameIncident, AddInserted}
  /\ UpTo(3) = UpTo(2) \cup {AddPath}
  /\ UpTo(4) = UpTo(3) \cup {RenameKey}
  /\ UpTo(5) = UpTo(4) \cup {CreateMqttQueue}
<1>1. ASSUME NEW v \in 1..5
      PROVE  UpTo(v) = UpTo(v - 1) \cup Range(Migrations[v])
  <2>1. 1..v = (1..(v - 1)) \cup {v}
    OBVIOUS
  <2> QED
    BY <2>1 DEF UpTo
<1>2. /\ Range(Migrations[1]) = {CreateEvents}
      /\ Range(Migrations[2]) = {RenameIncident, AddInserted}
      /\ Range(Migrations[3]) = {AddPath}
      /\ Range(Migrations[4]) = {RenameKey}
      /\ Range(Migrations[5]) = {CreateMqttQueue}
  <2>1. \A a : Range(<<a>>) = {a}
    BY DEF Range
  <2>2. \A a, b : Range(<<a, b>>) = {a, b}
    BY DEF Range
  <2> QED
    BY <2>1, <2>2, TheMigrations
<1>3. UpTo(0) = {}
  BY DEF UpTo
<1>4. UpTo(1) = UpTo(0) \cup Range(Migrations[1])
  BY <1>1
<1>5. UpTo(2) = UpTo(1) \cup Range(Migrations[2])
  BY <1>1
<1>6. UpTo(3) = UpTo(2) \cup Range(Migrations[3])
  BY <1>1
<1>7. UpTo(4) = UpTo(3) \cup Range(Migrations[4])
  BY <1>1
<1>8. UpTo(5) = UpTo(4) \cup Range(Migrations[5])
  BY <1>1
<1> QED
  BY <1>2, <1>3, <1>4, <1>5, <1>6, <1>7, <1>8

(* What the statements need, drop and add. *)
LEMMA TheStatements ==
  /\ CreateEvents.needs = {} /\ CreateEvents.drops = {}
  /\ CreateEvents.adds = FirstTable
  /\ RenameIncident.needs = {"event_items", "incident_key"}
  /\ RenameIncident.drops = {"incident_key"}
  /\ RenameIncident.adds = {"alert_key"}
  /\ AddInserted.needs = {"event_items"} /\ AddInserted.drops = {}
  /\ AddInserted.adds = {"inserted_at"}
  /\ AddPath.needs = {"event_items"} /\ AddPath.drops = {}
  /\ AddPath.adds = {"event_api_path"}
  /\ RenameKey.needs = {"event_items", "api_key"}
  /\ RenameKey.drops = {"api_key"}
  /\ RenameKey.adds = {"integration_key"}
  /\ CreateMqttQueue.needs = {} /\ CreateMqttQueue.drops = {}
  /\ CreateMqttQueue.adds = {"mqtt_queue"}
  BY DEF CreateEvents, RenameIncident, AddInserted, AddPath, RenameKey, CreateMqttQueue,
         CreateTable, RenameColumn, AddColumn

LEMMA SchemaFact ==
  /\ SchemaOf[0] = {}
  /\ SchemaOf[1] = FirstTable
  /\ SchemaOf[2] = Timed
  /\ SchemaOf[3] = Pathed
  /\ SchemaOf[4] = Integrated
  /\ SchemaOf[5] = Newest
<1> DEFINE Added(v) == UNION {s.adds : s \in UpTo(v)}
           Dropped(v) == UNION {s.drops : s \in UpTo(v)}
<1>1. ASSUME NEW v \in 0..5
      PROVE  SchemaOf[v] = Added(v) \ Dropped(v)
  BY TheMigrations, Zenon DEF SchemaOf
<1>2. /\ Added(0) = {} /\ Added(1) = Added(0) \cup FirstTable
      /\ Added(2) = Added(1) \cup {"alert_key", "inserted_at"}
      /\ Added(3) = Added(2) \cup {"event_api_path"}
      /\ Added(4) = Added(3) \cup {"integration_key"}
      /\ Added(5) = Added(4) \cup {"mqtt_queue"}
  BY UpToFact, TheStatements
<1>3. /\ Dropped(0) = {} /\ Dropped(1) = Dropped(0)
      /\ Dropped(2) = Dropped(1) \cup {"incident_key"}
      /\ Dropped(3) = Dropped(2)
      /\ Dropped(4) = Dropped(3) \cup {"api_key"}
      /\ Dropped(5) = Dropped(4)
  BY UpToFact, TheStatements
<1> HIDE DEF Added, Dropped
<1>4. SchemaOf[0] = {}
  BY <1>1, <1>2, <1>3
<1>5. SchemaOf[1] = FirstTable
  BY <1>1, <1>2, <1>3
<1>6. SchemaOf[2] = Timed
  BY <1>1, <1>2, <1>3 DEF FirstTable, Timed, Half
<1>7. SchemaOf[3] = Pathed
  BY <1>1, <1>2, <1>3 DEF FirstTable, Pathed, Timed, Half
<1>8. SchemaOf[4] = Integrated
  BY <1>1, <1>2, <1>3 DEF FirstTable, Integrated
<1>9. SchemaOf[5] = Newest
  BY <1>1, <1>2, <1>3 DEF FirstTable, Newest, Integrated
<1> QED
  BY <1>4, <1>5, <1>6, <1>7, <1>8, <1>9

LEMMA NamesFact ==
  /\ \A v \in 0..5 : SchemaOf[v] \subseteq Names
  /\ Half \subseteq Names
<1> DEFINE Added(v) == UNION {s.adds : s \in UpTo(v)}
<1>1. Names = Added(5)
  BY TheMigrations DEF Names
<1>2. \A v \in 0..5 : SchemaOf[v] \subseteq Added(v)
  BY TheMigrations, Zenon DEF SchemaOf
<1>3. /\ Added(0) \subseteq Added(1) /\ Added(1) \subseteq Added(2)
      /\ Added(2) \subseteq Added(3) /\ Added(3) \subseteq Added(4)
      /\ Added(4) \subseteq Added(5)
  BY UpToFact
<1>4. Half \subseteq Added(2)
  BY UpToFact, TheStatements DEF Half, FirstTable
<1> HIDE DEF Added
<1>5. \A v \in 0..5 : Added(v) \subseteq Added(5)
  BY <1>3
<1> QED
  BY <1>1, <1>2, <1>4, <1>5

(* What is left of a migration is one of its ends. *)
LEMMA RestFact ==
  ASSUME NEW w \in 1..5, NEW rest,
         \/ rest = Migrations[w] \/ rest = << >>
         \/ w = 2 /\ rest = <<AddInserted>>
  PROVE  \E k \in 1..Len(Migrations[w]) + 1 :
           rest = SubSeq(Migrations[w], k, Len(Migrations[w]))
<1>1. \A a : /\ Len(<<a>>) = 1 /\ <<a>> = SubSeq(<<a>>, 1, 1)
             /\ << >> = SubSeq(<<a>>, 2, 1)
  OBVIOUS
<1>2. \A a, b : /\ Len(<<a, b>>) = 2 /\ <<a, b>> = SubSeq(<<a, b>>, 1, 2)
                /\ <<b>> = SubSeq(<<a, b>>, 2, 2)
                /\ << >> = SubSeq(<<a, b>>, 3, 2)
  OBVIOUS
<1>3. CASE w # 2
  <2>1. PICK a : Migrations[w] = <<a>>
    BY <1>3, TheMigrations
  <2>2. 1 \in 1..Len(Migrations[w]) + 1 /\ 2 \in 1..Len(Migrations[w]) + 1
    BY <1>1, <2>1
  <2>3. rest = SubSeq(<<a>>, 1, 1) \/ rest = SubSeq(<<a>>, 2, 1)
    BY <1>1, <1>3, <2>1
  <2>4. Len(Migrations[w]) = 1
    BY <1>1, <2>1
  <2> QED
    BY <2>1, <2>2, <2>3, <2>4
<1>4. CASE w = 2
  <2>1. PICK a, b : Migrations[w] = <<a, b>> /\ b = AddInserted
    BY <1>4, TheMigrations
  <2>2. Len(Migrations[w]) = 2
    BY <1>2, <2>1
  <2>3. \/ rest = SubSeq(Migrations[w], 1, 2)
        \/ rest = SubSeq(Migrations[w], 2, 2)
        \/ rest = SubSeq(Migrations[w], 3, 2)
    <3>1. /\ <<a, b>> = SubSeq(<<a, b>>, 1, 2)
          /\ <<b>> = SubSeq(<<a, b>>, 2, 2)
          /\ << >> = SubSeq(<<a, b>>, 3, 2)
      BY <1>2
    <3>2. rest = <<a, b>> \/ rest = <<b>> \/ rest = << >>
      BY <2>1
    <3> QED
      BY <2>1, <3>1, <3>2
  <2>4. \E k \in 1..3 : rest = SubSeq(Migrations[w], k, 2)
    BY <2>3
  <2> QED
    BY <2>2, <2>4
<1> QED
  BY <1>3, <1>4

(* SQLite accepts a statement as far as the schema goes. *)
Fits(s) == s.needs \subseteq schema /\ s.adds \cap schema = {}

(* A migration can only begin on the schema the one before it has left: on  *)
(* any later one its first statement is refused.                            *)
LEMMA FitsFact ==
  ASSUME NEW w \in 1..5, Fits(Head(Migrations[w])),
         \/ \E x \in (w - 1)..5 : schema = SchemaOf[x]
         \/ w <= 2 /\ schema = Half
  PROVE  schema = SchemaOf[w - 1]
<1>1. CASE w = 1
  <2>1. Fits(CreateEvents)
    BY <1>1, TheMigrations
  <2>2. schema \cap FirstTable = {}
    BY <2>1, TheStatements DEF Fits
  <2>3. schema \in {{}, FirstTable, Half, Timed, Pathed, Integrated, Newest}
    <3>1. \A x \in 0..5 : x = 0 \/ x = 1 \/ x = 2 \/ x = 3 \/ x = 4 \/ x = 5
      OBVIOUS
    <3> QED
      BY <1>1, <3>1, SchemaFact
  <2>4. schema = {}
    BY <2>2, <2>3 DEF FirstTable, Half, Timed, Pathed, Integrated, Newest
  <2> QED
    BY <1>1, <2>4, SchemaFact
<1>2. CASE w = 2
  <2>1. Fits(RenameIncident)
    BY <1>2, TheMigrations
  <2>2. "incident_key" \in schema
    BY <2>1, TheStatements DEF Fits
  <2>3. schema \in {FirstTable, Half, Timed, Pathed, Integrated, Newest}
    <3>1. \A x \in 1..5 : x = 1 \/ x = 2 \/ x = 3 \/ x = 4 \/ x = 5
      OBVIOUS
    <3> QED
      BY <1>2, <3>1, SchemaFact
  <2>4. schema = FirstTable
    BY <2>2, <2>3 DEF FirstTable, Half, Timed, Pathed, Integrated, Newest
  <2> QED
    BY <1>2, <2>4, SchemaFact
<1>3. CASE w = 3
  <2>1. Fits(AddPath)
    BY <1>3, TheMigrations
  <2>2. "event_api_path" \notin schema
    BY <2>1, TheStatements DEF Fits
  <2>3. schema \in {Timed, Pathed, Integrated, Newest}
    <3>1. \A x \in 2..5 : x = 2 \/ x = 3 \/ x = 4 \/ x = 5
      OBVIOUS
    <3> QED
      BY <1>3, <3>1, SchemaFact
  <2>4. schema = Timed
    BY <2>2, <2>3 DEF Pathed, Integrated, Newest
  <2> QED
    BY <1>3, <2>4, SchemaFact
<1>4. CASE w = 4
  <2>1. Fits(RenameKey)
    BY <1>4, TheMigrations
  <2>2. "api_key" \in schema
    BY <2>1, TheStatements DEF Fits
  <2>3. schema \in {Pathed, Integrated, Newest}
    <3>1. \A x \in 3..5 : x = 3 \/ x = 4 \/ x = 5
      OBVIOUS
    <3> QED
      BY <1>4, <3>1, SchemaFact
  <2>4. schema = Pathed
    BY <2>2, <2>3 DEF Integrated, Newest
  <2> QED
    BY <1>4, <2>4, SchemaFact
<1>5. CASE w = 5
  <2>1. Fits(CreateMqttQueue)
    BY <1>5, TheMigrations
  <2>2. "mqtt_queue" \notin schema
    BY <2>1, TheStatements DEF Fits
  <2>3. schema \in {Integrated, Newest}
    <3>1. \A x \in 4..5 : x = 4 \/ x = 5
      OBVIOUS
    <3> QED
      BY <1>5, <3>1, SchemaFact
  <2>4. schema = Integrated
    BY <2>2, <2>3 DEF Newest
  <2> QED
    BY <1>5, <2>4, SchemaFact
<1> QED
  BY <1>1, <1>2, <1>3, <1>4, <1>5

(* What the statements of the migrations make of the schema. *)
LEMMA ExecutedFact ==
  /\ \A w \in 1..5 : Migrations[w] # << >>
  /\ \A w \in 1..5 \ {2} : /\ Tail(Migrations[w]) = << >>
                           /\ Executed(Head(Migrations[w]), SchemaOf[w - 1]) = SchemaOf[w]
  /\ Tail(Migrations[2]) = <<AddInserted>>
  /\ Executed(Head(Migrations[2]), SchemaOf[1]) = Half
  /\ Executed(AddInserted, Half) = SchemaOf[2]
<1>1. \A w \in 1..5 : Migrations[w] # << >>
  BY TheMigrations
<1>2. ASSUME NEW w \in 1..5 \ {2}
      PROVE  /\ Tail(Migrations[w]) = << >>
             /\ Executed(Head(Migrations[w]), SchemaOf[w - 1]) = SchemaOf[w]
  <2>1. \A a : Tail(<<a>>) = << >> /\ Head(<<a>>) = a
    OBVIOUS
  <2>2. CASE w = 1
    <3>1. Migrations[w] = <<CreateEvents>> /\ SchemaOf[w - 1] = {} /\ SchemaOf[w] = FirstTable
      BY <2>2, TheMigrations, SchemaFact
    <3> QED
      BY <2>1, <3>1, TheStatements DEF Executed
  <2>3. CASE w = 3
    <3>1. Migrations[w] = <<AddPath>> /\ SchemaOf[w - 1] = Timed /\ SchemaOf[w] = Pathed
      BY <2>3, TheMigrations, SchemaFact
    <3> QED
      BY <2>1, <3>1, TheStatements DEF Executed, Pathed
  <2>4. CASE w = 4
    <3>1. Migrations[w] = <<RenameKey>> /\ SchemaOf[w - 1] = Pathed /\ SchemaOf[w] = Integrated
      BY <2>4, TheMigrations, SchemaFact
    <3> QED
      BY <2>1, <3>1, TheStatements DEF Executed, Pathed, Timed, Half, Integrated
  <2>5. CASE w = 5
    <3>1. /\ Migrations[w] = <<CreateMqttQueue>>
          /\ SchemaOf[w - 1] = Integrated /\ SchemaOf[w] = Newest
      BY <2>5, TheMigrations, SchemaFact
    <3> QED
      BY <2>1, <3>1, TheStatements DEF Executed, Newest
  <2> QED
    BY <2>2, <2>3, <2>4, <2>5
<1>3. Tail(Migrations[2]) = <<AddInserted>> /\ Head(Migrations[2]) = RenameIncident
  BY TheMigrations
<1>4. Executed(RenameIncident, SchemaOf[1]) = Half
  BY SchemaFact, TheStatements DEF Executed, FirstTable, Half
<1>5. Executed(AddInserted, Half) = SchemaOf[2]
  BY SchemaFact, TheStatements DEF Executed, Timed
<1> QED
  BY <1>1, <1>2, <1>3, <1>4, <1>5

--------------------------------------------------------------------------------
(***************************************************************************)
(* The inductive invariant: v migrations are noted, and the schema is that *)
(* of v, that of the next one, which a crash kept from being noted, or in   *)
(* between the two statements of the second.  Where the note is missing the *)
(* first statement is refused at every start, for ever.                     *)
(***************************************************************************)
Plain ==
  /\ queued \in BOOLEAN
  /\ pc \in {"down", "check", "apply", "ready"}
  /\ version \in 1..5
  /\ conflict \in BOOLEAN
  /\ crashes \in 0..MaxCrashes
  /\ unreadable \in 0..MaxUnreadable
  /\ pc # "apply" => todo = << >>

Stored(v) ==
  /\ notes = 1..v
  /\ \/ schema = SchemaOf[v]
     \/ v < 5 /\ schema = SchemaOf[v + 1]
     \/ v = 1 /\ schema = Half

Stuck == todo = Migrations[version] /\ ~Fits(Head(todo))

Under(v) ==
  /\ version = v + 1
  /\ \/ schema = SchemaOf[v] /\ todo = Migrations[version]
     \/ schema = SchemaOf[version] /\ todo = << >>
     \/ v = 1 /\ schema = Half /\ todo = <<AddInserted>>

Progress(v) ==
  /\ Stored(v)
  /\ pc = "check" => version <= v + 1
  /\ pc = "ready" => v = 5
  /\ pc = "apply" => Stuck \/ Under(v)

Stepwise == \E v \in 0..5 : Progress(v)

IInv == Plain /\ Stepwise

LEMMA IInvIsTyped == IInv => TypeOK
<1> SUFFICES ASSUME Plain, NEW v \in 0..5, Progress(v) PROVE TypeOK
  BY DEF IInv, Stepwise
<1>1. schema \subseteq Names
  BY NamesFact DEF Progress, Stored
<1>2. Version = 1..5 /\ notes \subseteq Version
  BY TheMigrations DEF Version, Progress, Stored
<1>3. \E k \in 1..Len(Migrations[version]) + 1 :
        todo = SubSeq(Migrations[version], k, Len(Migrations[version]))
  <2>1. \/ todo = Migrations[version] \/ todo = << >>
        \/ version = 2 /\ todo = <<AddInserted>>
    BY DEF Plain, Progress, Stuck, Under
  <2>2. version \in 1..5
    BY DEF Plain
  <2> QED
    BY <2>1, <2>2, RestFact
<1> QED
  BY <1>1, <1>2, <1>3 DEF TypeOK, Plain

LEMMA IInvInit == Init => IInv
<1> SUFFICES ASSUME Init PROVE IInv
  OBVIOUS
<1>1. PICK v \in 0..5 : Between(v)
  BY TheMigrations DEF Init
<1>2. pc = "down"
  BY DEF Init
<1>3. Progress(v)
  BY <1>1, <1>2 DEF Between, Progress, Stored
<1>4. conflict \in BOOLEAN
  BY Zenon DEF Init
<1>5. queued \in BOOLEAN
  BY MigrationAssumption DEF Init
<1>6. Plain
  BY <1>4, <1>5, MigrationAssumption DEF Init, Plain
<1> QED
  BY <1>3, <1>6 DEF IInv, Stepwise

(* Each migration leaves a schema of its own. *)
LEMMA SchemasDiffer ==
  /\ \A a, b \in 0..5 : SchemaOf[a] = SchemaOf[b] => a = b
  /\ \A a \in 0..5 : SchemaOf[a] # Half
<1>1. ASSUME NEW v \in 0..5
      PROVE  /\ "event_items" \in SchemaOf[v] <=> v >= 1
             /\ "alert_key" \in SchemaOf[v] <=> v >= 2
             /\ "inserted_at" \in SchemaOf[v] <=> v >= 2
             /\ "event_api_path" \in SchemaOf[v] <=> v >= 3
             /\ "integration_key" \in SchemaOf[v] <=> v >= 4
             /\ "mqtt_queue" \in SchemaOf[v] <=> v >= 5
  <2>1. v = 0 \/ v = 1 \/ v = 2 \/ v = 3 \/ v = 4 \/ v = 5
    OBVIOUS
  <2>2. CASE v \in {0, 1, 2}
    BY <2>2, SchemaFact DEF FirstTable, Timed, Half
  <2>3. CASE v = 3
    BY <2>3, SchemaFact DEF Pathed, Timed, Half
  <2>4. CASE v \in {4, 5}
    BY <2>4, SchemaFact DEF Integrated, Newest
  <2> QED
    BY <2>1, <2>2, <2>3, <2>4
<1>2. ASSUME NEW a \in 0..5, NEW b \in 0..5, SchemaOf[a] = SchemaOf[b]
      PROVE  a = b
  <2>1. /\ a >= 1 <=> b >= 1
        /\ a >= 2 <=> b >= 2
        /\ a >= 3 <=> b >= 3
        /\ a >= 4 <=> b >= 4
        /\ a >= 5 <=> b >= 5
    BY <1>1, <1>2
  <2> QED
    BY <2>1
<1>3. ASSUME NEW a \in 0..5
      PROVE  SchemaOf[a] # Half
  BY <1>1 DEF Half
<1> QED
  BY <1>2, <1>3

(* A migration begins: on the schema it is meant for, or stuck. *)
LEMMA BeginFact ==
  ASSUME Plain, NEW v \in 0..5, Progress(v), pc = "check",
         todo' = Migrations[version], UNCHANGED <<schema, notes, version>>
  PROVE  Stuck' \/ Under(v)'
<1>1. version \in 1..5 /\ version <= v + 1
  BY DEF Plain, Progress
<1>2. CASE ~Fits(Head(Migrations[version]))
  BY <1>2 DEF Stuck, Fits
<1>3. CASE Fits(Head(Migrations[version]))
  <2>1. \/ \E x \in (version - 1)..5 : schema = SchemaOf[x]
        \/ version <= 2 /\ schema = Half
    <3>1. v \in (version - 1)..5 /\ (v < 5 => v + 1 \in (version - 1)..5)
      BY <1>1
    <3> QED
      BY <1>1, <3>1 DEF Progress, Stored
  <2>2. schema = SchemaOf[version - 1]
    BY <1>1, <1>3, <2>1, FitsFact
  <2>3. version = v + 1
    BY <1>1, <2>2, SchemasDiffer DEF Progress, Stored
  <2> QED
    BY <2>2, <2>3 DEF Under
<1> QED
  BY <1>2, <1>3

LEMMA IInvNext == IInv /\ [Next]_vars => IInv'
<1> SUFFICES ASSUME Plain, NEW v \in 0..5, Progress(v), [Next]_vars
             PROVE  Plain' /\ Stepwise'
  BY DEF IInv, Stepwise
<1>1. CASE Bootstrap
  <2>1. Plain'
    BY <1>1 DEF Plain, Bootstrap, boundVars
  <2>2. Progress(v)'
    BY <1>1 DEF Progress, Stored, Bootstrap
  <2> QED
    BY <2>1, <2>2 DEF Stepwise
<1>2. CASE SkipMigration
  <2>1. version <= v /\ version \in 1..5
    BY <1>2 DEF Plain, Progress, Stored, SkipMigration
  <2>2. Plain'
    BY <1>2, <2>1, TheMigrations DEF Plain, SkipMigration, NextVersion, boundVars
  <2>3. Progress(v)'
    BY <1>2, <2>1, TheMigrations DEF Progress, Stored, SkipMigration, NextVersion
  <2> QED
    BY <2>2, <2>3 DEF Stepwise
<1>3. CASE BeginMigration \/ BeginUnreadable
  <2>1. /\ pc = "check" /\ pc' = "apply"
        /\ todo' = Migrations[version]
        /\ UNCHANGED <<schema, queued, notes, version, conflict, crashes>>
    BY <1>3 DEF BeginMigration, BeginUnreadable, NotedBefore, boundVars
  <2>2. unreadable' \in 0..MaxUnreadable
    BY <1>3, MigrationAssumption DEF Plain, BeginMigration, BeginUnreadable, boundVars
  <2>3. Stuck' \/ Under(v)'
    BY <2>1, BeginFact
  <2>4. Plain'
    BY <2>1, <2>2 DEF Plain
  <2>5. Progress(v)'
    BY <2>1, <2>3 DEF Progress, Stored
  <2> QED
    BY <2>4, <2>5 DEF Stepwise
<1>4. CASE Apply
  <2>1. /\ todo # << >> /\ Fits(Head(todo))
        /\ schema' = Executed(Head(todo), schema) /\ todo' = Tail(todo)
        /\ pc = "apply" /\ UNCHANGED <<queued, notes, pc, version, conflict, boundVars>>
    BY <1>4 DEF Apply, Executable, Fits
  <2>2. Under(v) /\ version \in 1..5
    BY <2>1 DEF Plain, Progress, Stuck
  <2>3. Plain'
    BY <2>1 DEF Plain, boundVars
  <2>4. ASSUME schema = SchemaOf[v], todo = Migrations[version]
        PROVE  Progress(v)'
    <3>1. version = v + 1 /\ version - 1 = v
      BY <2>2 DEF Under
    <3>2. CASE version # 2
      <4>1. schema' = SchemaOf[version] /\ todo' = << >>
        BY <2>1, <2>2, <2>4, <3>1, <3>2, ExecutedFact
      <4> QED
        BY <2>1, <2>2, <3>1, <4>1 DEF Progress, Stored, Under
    <3>3. CASE version = 2
      <4>1. schema' = Half /\ todo' = <<AddInserted>> /\ v = 1
        BY <2>1, <2>4, <3>1, <3>3, ExecutedFact
      <4> QED
        BY <2>1, <3>1, <4>1 DEF Progress, Stored, Under
    <3> QED
      BY <3>2, <3>3
  <2>5. ASSUME v = 1, schema = Half, todo = <<AddInserted>>
        PROVE  Progress(v)'
    <3>1. Head(todo) = AddInserted /\ Tail(todo) = << >>
      BY <2>5
    <3>2. schema' = SchemaOf[2] /\ todo' = << >> /\ version = 2
      BY <2>1, <2>2, <2>5, <3>1, ExecutedFact DEF Under
    <3> QED
      BY <2>1, <2>5, <3>2 DEF Progress, Stored, Under
  <2>6. Progress(v)'
    BY <2>1, <2>2, <2>4, <2>5 DEF Under
  <2> QED
    BY <2>3, <2>6 DEF Stepwise
<1>5. CASE ApplyRefused
  <2>1. conflict' \in BOOLEAN
    BY <1>5, Zenon DEF ApplyRefused
  <2>2. Plain'
    BY <1>5, <2>1 DEF Plain, ApplyRefused, boundVars
  <2>3. Progress(v)'
    BY <1>5 DEF Progress, Stored, ApplyRefused
  <2> QED
    BY <2>2, <2>3 DEF Stepwise
<1>6. CASE NoteMigration
  <2>1. \A w \in 1..5 : Migrations[w] # << >>
    BY ExecutedFact
  <2>2. version = v + 1 /\ version \in 1..5 /\ schema = SchemaOf[version]
    BY <1>6, <2>1 DEF Plain, Progress, Stuck, Under, NoteMigration
  <2>3. notes' = 1..(v + 1) /\ v + 1 \in 0..5
    BY <1>6, <2>2 DEF Progress, Stored, NoteMigration
  <2>4. Plain'
    BY <1>6, <2>2, TheMigrations DEF Plain, NoteMigration, NextVersion, boundVars
  <2>5. Progress(v + 1)'
    BY <1>6, <2>2, <2>3, TheMigrations DEF Progress, Stored, NoteMigration, NextVersion
  <2> QED
    BY <2>3, <2>4, <2>5 DEF Stepwise
<1>7. CASE Crash
  <2>1. Plain'
    BY <1>7, MigrationAssumption DEF Plain, Crash
  <2>2. Progress(v)'
    BY <1>7 DEF Progress, Stored, Crash
  <2> QED
    BY <2>1, <2>2 DEF Stepwise
<1>8. CASE Serve \/ UNCHANGED vars
  <2>1. Plain'
    BY <1>8 DEF Plain, Serve, vars, boundVars
  <2>2. Progress(v)'
    BY <1>8 DEF Progress, Stored, Stuck, Under, Fits, Serve, vars
  <2> QED
    BY <2>1, <2>2 DEF Stepwise
<1> QED
  BY <1>1, <1>2, <1>3, <1>4, <1>5, <1>6, <1>7, <1>8 DEF Next, Prepare

LEMMA IInvIsMigrated == IInv => ReadyMeansMigrated
<1> SUFFICES ASSUME NEW v \in 0..5, Progress(v), pc = "ready"
             PROVE  notes = Version /\ schema = SchemaOf[Len(Migrations)]
  BY DEF IInv, Stepwise, ReadyMeansMigrated
<1>1. v = 5
  BY DEF Progress
<1> QED
  BY <1>1, TheMigrations DEF Progress, Stored, Version

(* For a file of any release and any number of crashes and unreadable notes *)
(* the variables keep their types: no name but those of the migrations       *)
(* enters the schema (db.rs:46-168).                                         *)
THEOREM TypeCorrect == Spec => []TypeOK
  BY IInvInit, IInvNext, IInvIsTyped, PTL DEF Spec

(* A daemon that gets past prepare_database works on the newest schema,     *)
(* however often it was interrupted before (db.rs:46-168).                   *)
THEOREM OnlyMigratedIsReady == Spec => []ReadyMeansMigrated
  BY IInvInit, IInvNext, IInvIsMigrated, PTL DEF Spec

--------------------------------------------------------------------------------
(***************************************************************************)
(* Without crashes and unreadable notes nothing is ever half done, except  *)
(* by the statement that is refused: then the first statement of its         *)
(* migration has been executed, and is refused itself from then on.          *)
(***************************************************************************)
Refused ==
  /\ conflict /\ queued
  /\ notes = 1..1 /\ schema = Half
  /\ pc # "ready"
  /\ pc = "check" => version <= 2
  /\ pc = "apply" => version = 2 /\ todo = Migrations[2]

Smooth(v) ==
  /\ ~conflict
  /\ notes = 1..v
  /\ pc = "check" => version <= v + 1
  /\ IF pc = "apply" THEN Under(v) ELSE schema = SchemaOf[v]

Faultless ==
  crashes = 0 /\ unreadable = 0 => Refused \/ \E v \in 0..5 : Smooth(v)

(* A statement that is due fits the schema, and only one has a computed     *)
(* default.                                                                  *)
LEMMA DueFits ==
  ASSUME NEW v \in 0..4, Under(v), todo # << >>
  PROVE  /\ Fits(Head(todo))
         /\ Head(todo).computed => v = 1 /\ schema = Half
<1>1. \A a, b : Head(<<a>>) = a /\ Head(<<a, b>>) = a
  OBVIOUS
<1>2. /\ CreateEvents.computed = FALSE /\ RenameIncident.computed = FALSE
      /\ AddPath.computed = FALSE /\ RenameKey.computed = FALSE
      /\ CreateMqttQueue.computed = FALSE
  BY Zenon
  DEF CreateEvents, RenameIncident, AddPath, RenameKey, CreateMqttQueue, CreateTable,
      RenameColumn, AddColumn
<1>3. CASE schema = Half /\ todo = <<AddInserted>> /\ v = 1
  <2>1. Head(todo) = AddInserted
    BY <1>1, <1>3
  <2> QED
    BY <1>3, <2>1, TheStatements DEF Fits, Half
<1>4. CASE schema = SchemaOf[v] /\ todo = Migrations[v + 1]
  <2>1. CASE v = 0
    <3>1. schema = {} /\ Head(todo) = CreateEvents
      BY <1>1, <1>4, <2>1, TheMigrations, SchemaFact
    <3> QED
      BY <1>2, <3>1, TheStatements DEF Fits
  <2>2. CASE v = 1
    <3>1. schema = FirstTable /\ Head(todo) = RenameIncident
      BY <1>1, <1>4, <2>2, TheMigrations, SchemaFact
    <3> QED
      BY <1>2, <3>1, TheStatements DEF Fits, FirstTable
  <2>3. CASE v = 2
    <3>1. schema = Timed /\ Head(todo) = AddPath
      BY <1>1, <1>4, <2>3, TheMigrations, SchemaFact
    <3> QED
      BY <1>2, <3>1, TheStatements DEF Fits, Timed, Half
  <2>4. CASE v = 3
    <3>1. schema = Pathed /\ Head(todo) = RenameKey
      BY <1>1, <1>4, <2>4, TheMigrations, SchemaFact
    <3> QED
      BY <1>2, <3>1, TheStatements DEF Fits, Pathed, Timed, Half
  <2>5. CASE v = 4
    <3>1. schema = Integrated /\ Head(todo) = CreateMqttQueue
      BY <1>1, <1>4, <2>5, TheMigrations, SchemaFact
    <3> QED
      BY <1>2, <3>1, TheStatements DEF Fits, Integrated
  <2> QED
    BY <2>1, <2>2, <2>3, <2>4, <2>5
<1> QED
  BY <1>3, <1>4 DEF Under

LEMMA FaultlessInit == Init => Faultless
<1> SUFFICES ASSUME Init PROVE Faultless
  OBVIOUS
<1>1. PICK v \in 0..5 : Between(v)
  BY TheMigrations DEF Init
<1>2. pc = "down" /\ ~conflict
  BY Zenon DEF Init
<1>3. Smooth(v)
  BY <1>1, <1>2 DEF Between, Smooth
<1> QED
  BY <1>3 DEF Faultless

(* A refused upgrade stays refused at every start. *)
LEMMA RefusedNext ==
  ASSUME Plain, Refused, Prepare \/ Serve \/ UNCHANGED vars
  PROVE  Refused'
<1>1. version \in 1..5
  BY DEF Plain
<1>2. ~Serve /\ ~NoteMigration
  <2>1. Migrations[2] # << >>
    BY TheMigrations
  <2> QED
    BY <2>1 DEF Refused, Serve, NoteMigration
<1>3. CASE Bootstrap
  BY <1>3 DEF Refused, Bootstrap
<1>9. CASE UNCHANGED vars
  BY <1>9 DEF Refused, vars
<1>4. CASE SkipMigration
  <2>1. version = 1
    BY <1>1, <1>4 DEF Refused, SkipMigration
  <2> QED
    BY <1>4, <2>1, TheMigrations DEF Refused, SkipMigration, NextVersion
<1>5. CASE BeginMigration
  <2>1. version = 2
    BY <1>1, <1>5 DEF Refused, BeginMigration
  <2> QED
    BY <1>5, <2>1 DEF Refused, BeginMigration, NotedBefore
<1>6. CASE Apply \/ ApplyRefused
  <2>1. todo = Migrations[2] /\ schema = Half
    BY <1>6 DEF Refused, Apply, ApplyRefused
  <2>2. Head(todo) = RenameIncident
    BY <2>1, TheMigrations
  <2>3. ~Executable(Head(todo))
    BY <2>1, <2>2, TheStatements DEF Executable, Half
  <2>4. ApplyRefused
    BY <1>6, <2>3 DEF Apply
  <2>5. conflict'
    BY <2>4, Zenon DEF ApplyRefused
  <2> QED
    BY <2>4, <2>5 DEF Refused, ApplyRefused
<1> QED
  BY <1>2, <1>3, <1>4, <1>5, <1>6, <1>9 DEF Prepare

LEMMA SmoothNext ==
  ASSUME Plain, NEW v \in 0..5, Smooth(v), Prepare \/ Serve \/ UNCHANGED vars
  PROVE  Refused' \/ \E w \in 0..5 : Smooth(w)'
<1>1. version \in 1..5
  BY DEF Plain
<1>2. CASE Bootstrap
  BY <1>2 DEF Smooth, Bootstrap
<1>3. CASE SkipMigration
  <2>1. version <= v
    BY <1>1, <1>3 DEF Smooth, SkipMigration
  <2>2. Smooth(v)'
    BY <1>1, <1>3, <2>1, TheMigrations DEF Smooth, SkipMigration, NextVersion
  <2> QED
    BY <2>2
<1>4. CASE BeginMigration
  <2>1. version = v + 1
    BY <1>1, <1>4 DEF Smooth, BeginMigration
  <2>2. Smooth(v)'
    BY <1>4, <2>1 DEF Smooth, BeginMigration, NotedBefore, Under
  <2> QED
    BY <2>2
<1>5. CASE Apply
  <2>1. /\ todo # << >> /\ schema' = Executed(Head(todo), schema)
        /\ todo' = Tail(todo)
        /\ pc = "apply" /\ UNCHANGED <<notes, pc, version, conflict>>
    BY <1>5 DEF Apply
  <2>2. Under(v) /\ version = v + 1 /\ version - 1 = v
    BY <2>1 DEF Smooth, Under
  <2>3. Under(v)'
    <3>1. CASE schema = SchemaOf[v] /\ todo = Migrations[version] /\ version # 2
      <4>1. schema' = SchemaOf[version] /\ todo' = << >>
        BY <1>1, <2>1, <2>2, <3>1, ExecutedFact
      <4> QED
        BY <2>1, <2>2, <4>1 DEF Under
    <3>2. CASE schema = SchemaOf[v] /\ todo = Migrations[version] /\ version = 2
      <4>1. schema' = Half /\ todo' = <<AddInserted>> /\ v = 1
        BY <2>1, <2>2, <3>2, ExecutedFact
      <4> QED
        BY <2>1, <2>2, <4>1 DEF Under
    <3>3. CASE v = 1 /\ schema = Half /\ todo = <<AddInserted>>
      <4>1. Head(todo) = AddInserted /\ Tail(todo) = << >>
        BY <3>3
      <4>2. schema' = SchemaOf[2] /\ todo' = << >> /\ version = 2
        BY <2>1, <2>2, <3>3, <4>1, ExecutedFact
      <4> QED
        BY <2>1, <2>2, <4>2 DEF Under
    <3> QED
      BY <2>1, <2>2, <3>1, <3>2, <3>3 DEF Under
  <2>4. Smooth(v)'
    BY <2>1, <2>3 DEF Smooth
  <2> QED
    BY <2>4
<1>6. CASE ApplyRefused
  <2>1. Under(v) /\ v \in 0..4 /\ todo # << >> /\ ~Executable(Head(todo))
    BY <1>1, <1>6 DEF Smooth, Under, ApplyRefused
  <2>2. v = 1 /\ schema = Half /\ queued
    BY <2>1, DueFits DEF Executable, Fits
  <2>3. conflict'
    BY <1>6, Zenon DEF ApplyRefused
  <2> QED
    BY <1>6, <2>2, <2>3 DEF Smooth, Refused, ApplyRefused
<1>7. CASE NoteMigration
  <2>1. Under(v) /\ todo = << >>
    BY <1>7 DEF Smooth, NoteMigration
  <2>2. version = v + 1 /\ schema = SchemaOf[version] /\ v + 1 \in 0..5
    BY <1>1, <2>1, ExecutedFact DEF Under
  <2>3. notes' = 1..(v + 1)
    BY <1>7, <2>2 DEF Smooth, NoteMigration
  <2>4. Smooth(v + 1)'
    BY <1>7, <2>2, <2>3, TheMigrations DEF Smooth, NoteMigration, NextVersion
  <2> QED
    BY <2>2, <2>4
<1>8. CASE Serve \/ UNCHANGED vars
  BY <1>8 DEF Smooth, Under, Serve, vars
<1> QED
  BY <1>2, <1>3, <1>4, <1>5, <1>6, <1>7, <1>8 DEF Prepare

LEMMA FaultlessNext == IInv /\ Faultless /\ [Next]_vars => Faultless'
<1> SUFFICES ASSUME Plain, Faultless, [Next]_vars, crashes' = 0, unreadable' = 0
             PROVE  Refused' \/ \E v \in 0..5 : Smooth(v)'
  BY DEF IInv, Faultless
<1>1. crashes \in Nat /\ unreadable \in Nat
  BY MigrationAssumption DEF Plain
<1>2. ~Crash /\ ~BeginUnreadable
  BY <1>1 DEF Crash, BeginUnreadable
<1>3. Prepare \/ Serve \/ UNCHANGED vars
  BY <1>2 DEF Next
<1>4. crashes = 0 /\ unreadable = 0
  BY <1>3
  DEF Prepare, Bootstrap, SkipMigration, BeginMigration, Apply, ApplyRefused,
      NoteMigration, Serve, vars, boundVars
<1> QED
  BY <1>3, <1>4, RefusedNext, SmoothNext DEF Faultless

(* The statement at which a step ends a start that no crash has ended.      *)
RefusedAt ==
  pc = "apply" /\ pc' = "down" /\ crashes' = 0 /\ unreadable' = 0
    => /\ queued /\ notes = {1}
       /\ Head(todo) = IF conflict THEN RenameIncident ELSE AddInserted

LEMMA RefusalIsOfLeftEvents ==
  ASSUME Plain, Faultless, ApplyRefused
  PROVE  RefusedAt
<1> SUFFICES ASSUME crashes' = 0, unreadable' = 0
             PROVE  /\ queued /\ notes = {1}
                    /\ Head(todo) = IF conflict THEN RenameIncident ELSE AddInserted
  BY DEF RefusedAt
<1>1. /\ pc = "apply" /\ todo # << >> /\ ~Executable(Head(todo))
      /\ crashes = 0 /\ unreadable = 0
  BY DEF ApplyRefused, boundVars
<1>2. 1..1 = {1}
  OBVIOUS
<1>3. CASE Refused
  <2>1. todo = Migrations[2] /\ queued /\ notes = {1} /\ conflict
    BY <1>1, <1>2, <1>3 DEF Refused
  <2>2. Head(todo) = RenameIncident
    BY <2>1, TheMigrations
  <2> QED
    BY <2>1, <2>2
<1>4. ASSUME NEW v \in 0..5, Smooth(v)
      PROVE  queued /\ notes = {1} /\ ~conflict /\ Head(todo) = AddInserted
  <2>1. Under(v) /\ v \in 0..4 /\ notes = 1..v /\ ~conflict
    BY <1>1, <1>4 DEF Plain, Smooth, Under
  <2>2. Fits(Head(todo)) /\ (Head(todo).computed => v = 1 /\ schema = Half)
    BY <1>1, <2>1, DueFits
  <2>3. queued /\ v = 1 /\ schema = Half
    BY <1>1, <2>2 DEF Executable, Fits
  <2>4. Half # SchemaOf[1]
    BY SchemaFact DEF Half, FirstTable
  <2>5. todo = <<AddInserted>>
    BY <1>1, <2>1, <2>3, <2>4 DEF Under
  <2> QED
    BY <1>2, <2>1, <2>3, <2>5
<1> QED
  BY <1>1, <1>3, <1>4 DEF Faultless

(* For a file of any release, without crashes and unreadable notes: the     *)
(* first start that fails does so at the statement that adds inserted_at     *)
(* (db.rs:95-97), every later one at the statement before it, which the first *)
(* has executed (db.rs:89-93), and both only because of events an older       *)
(* release has left.                                                          *)
THEOREM OnlyLeftEventsAreRefused == Spec => OnlyLeftEventsConflict
<1> DEFINE Inv == IInv /\ Faultless
<1>1. Init => Inv
  BY IInvInit, FaultlessInit
<1>2. Inv /\ [Next]_vars => Inv'
  BY IInvNext, FaultlessNext
<1>3. Inv /\ [Next]_vars => [RefusedAt]_vars
  <2> SUFFICES ASSUME Inv, Next, pc = "apply", pc' = "down", crashes' = 0,
                      unreadable' = 0
               PROVE  ApplyRefused
    BY RefusalIsOfLeftEvents DEF IInv, RefusedAt
  <2>1. ~Crash
    BY MigrationAssumption DEF Crash, IInv, Plain
  <2> QED
    BY <2>1
    DEF Next, Prepare, Bootstrap, SkipMigration, BeginMigration, BeginUnreadable,
        Apply, NoteMigration, NextVersion, Serve
<1> QED
  BY <1>1, <1>2, <1>3, PTL DEF Spec, OnlyLeftEventsConflict, RefusedAt
================================================================================

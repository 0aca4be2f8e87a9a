---------------------------- MODULE MigrationsProofs ----------------------------
(***************************************************************************)
(* Theorems about Migrations: the schema at every point of the script, and *)
(* the order in which the revisions reach the database and the services.   *)
(***************************************************************************)
EXTENDS Migrations, SequenceTheorems, TLAPS

\* Every upgrade runs a part of this one script.
Script == UpgradeInitial \o UpgradeSplit

Operations == {Script[i] : i \in 1 .. 9}

\* The operations a database of revision r has behind it.
Position(r) == CASE r = "none" -> 0 [] r = "initial" -> 2 [] r = "split" -> 9

Column == [check : SUBSET Values, width : Nat, rows : SUBSET Values]

Assets == "generated_assets"
Jobs == "processing_jobs"

\* The column of each table after n operations.
AssetsAt(c, n) ==
    /\ n = 0 => c = NoTable
    /\ n \in {1, 2} => c.check = Known["initial"].generated_assets /\ c.width = 9
    /\ n \in {3, 4} => c.check = NoCheck /\ c.width = IF n = 3 THEN 9 ELSE 13
    /\ n \in 5 .. 9 => c.check = Known["split"].generated_assets /\ c.width = 13
    /\ c.rows \subseteq IF n = 9 THEN Known["split"].generated_assets ELSE {"thumbnail"}

JobsAt(c, n) ==
    /\ n \in {0, 1} => c = NoTable
    /\ n \in 2 .. 5 => c.check = Known["initial"].processing_jobs /\ c.width = 22
    /\ n \in 6 .. 8 => c.check = NoCheck /\ c.width = IF n = 8 THEN 9 ELSE 22
    /\ n = 9 => c.check = Known["split"].processing_jobs /\ c.width = 9
    /\ c.rows \subseteq CASE n < 7 -> {"metadata_and_thumbnail"}
                          [] n \in {7, 8} -> {"metadata"}
                          [] n = 9 -> Known["split"].processing_jobs

\* How far the open transaction has got.
Reached == Position(target) - Len(migration.todo)

MigrationTypeOK ==
    /\ version \in {"none"} \cup Revisions
    /\ columns \in [Tables -> Column]
    /\ migration = [open |-> migration.open, todo |-> migration.todo, draft |-> migration.draft]
    /\ migration.open \in BOOLEAN
    /\ migration.todo \in Seq(Operations)
    /\ stage \in {"idle", "migrate", "api", "api rollout", "worker rollout", "failed"}
    /\ target \in Revisions
    /\ desired \in [Services -> {"none"} \cup Revisions]
    /\ running \in [Services -> SUBSET Revisions]
    /\ refused \in SUBSET Revisions

\* The committed schema is that of its version.
SchemaOK ==
    /\ AssetsAt(columns[Assets], Position(version))
    /\ JobsAt(columns[Jobs], Position(version))

\* The open transaction is at a point of the script from which the rest of it leads to
\* the target, on columns as that point has them.  The worker may have written to the
\* tables it has not touched yet; the rows of assets stay as they are committed.
TransactionOK ==
    /\ ~migration.open => migration = Closed
    /\ migration.open =>
          /\ stage = "migrate"
          /\ Reached \in Position(version) .. Position(target)
          /\ \A i \in 1 .. Len(migration.todo) : migration.todo[i] = Script[Reached + i]
          /\ \A t \in Tables : Seen(t) \in Column
          /\ AssetsAt(Seen(Assets), Reached)
          /\ JobsAt(Seen(Jobs), Reached)
          /\ Seen(Assets).rows = columns[Assets].rows

\* There are rows that only the split revision writes.
NewAssets == ~(columns[Assets].rows \subseteq {"thumbnail"})

\* A deployment past its migration has its schema; code of the split revision comes
\* after the split, its worker and the rows it writes after the last API task of the old.
DeployOK ==
    /\ stage \in {"api", "api rollout", "worker rollout", "failed"} => version = target
    /\ stage \in {"api rollout", "worker rollout"} => desired["api"] = target
    /\ \A svc \in Services :
          desired[svc] = "split" \/ "split" \in running[svc] => version = "split"
    /\ desired["worker"] = "split" \/ "split" \in running["worker"] \/ NewAssets =>
          desired["api"] = "split" /\ "initial" \notin running["api"]
    /\ "split" \notin refused

MigrationInv == MigrationTypeOK /\ SchemaOK /\ TransactionOK /\ DeployOK

-------------------------------------------------------------------------------
\* The values the two revisions know, one by one.
LEMMA ValuesAre ==
    Values = {"thumbnail", "preview_1080p", "preview_720p", "preview_480p",
              "metadata_and_thumbnail", "metadata", "transcode"}
<1>1. /\ Known["initial"]["generated_assets"] = {"thumbnail"}
      /\ Known["initial"]["processing_jobs"] = {"metadata_and_thumbnail"}
      /\ Known["split"]["generated_assets"] =
            {"thumbnail", "preview_1080p", "preview_720p", "preview_480p"}
      /\ Known["split"]["processing_jobs"] = {"metadata", "thumbnail", "transcode"}
  BY DEF Known
<1>2. \A v : v \in Values <=> \E r \in Revisions, t \in Tables : v \in Known[r][t]
  BY DEF Values
<1>3. \A v : v \in Values <=> v \in Known["initial"]["generated_assets"] \cup
         Known["initial"]["processing_jobs"] \cup Known["split"]["generated_assets"] \cup
         Known["split"]["processing_jobs"]
  BY <1>2 DEF Revisions, Tables
<1> QED
  BY <1>1, <1>3

\* Their lengths.
LEMMA LengthsAre ==
    /\ Length["metadata"] = 8 /\ Length["thumbnail"] = 9 /\ Length["transcode"] = 9
    /\ Length["preview_1080p"] = 13 /\ Length["preview_720p"] = 12 /\ Length["preview_480p"] = 12
    /\ Length["metadata_and_thumbnail"] = 22
BY ValuesAre DEF Length

\* The operations, in order.
LEMMA ScriptIs ==
    /\ UpgradeInitial \in Seq(Operations) /\ Len(UpgradeInitial) = 2
    /\ UpgradeSplit \in Seq(Operations) /\ Len(UpgradeSplit) = 7
    /\ Len(Script) = 9
    /\ \A i \in 1 .. 2 : UpgradeInitial[i] = Script[i]
    /\ \A i \in 1 .. 7 : UpgradeSplit[i] = Script[i + 2]
    /\ Script[1] = CreateTable("generated_assets", 9, {"thumbnail"})
    /\ Script[2] = CreateTable("processing_jobs", 22, {"metadata_and_thumbnail"})
    /\ Script[3] = DropCheck("generated_assets")
    /\ Script[4] = AlterWidth("generated_assets", 13)
    /\ Script[5] = AddCheck("generated_assets",
                      {"thumbnail", "preview_1080p", "preview_720p", "preview_480p"})
    /\ Script[6] = DropCheck("processing_jobs")
    /\ Script[7] = RenameRows
    /\ Script[8] = AlterWidth("processing_jobs", 9)
    /\ Script[9] = AddCheck("processing_jobs", {"metadata", "thumbnail", "transcode"})
<1>1. /\ UpgradeInitial[1] = CreateTable("generated_assets", 9, {"thumbnail"})
      /\ UpgradeInitial[2] = CreateTable("processing_jobs", 22, {"metadata_and_thumbnail"})
      /\ Len(UpgradeInitial) = 2
  BY DEF UpgradeInitial
<1>2. /\ UpgradeSplit[1] = DropCheck("generated_assets")
      /\ UpgradeSplit[2] = AlterWidth("generated_assets", 13)
      /\ UpgradeSplit[3] = AddCheck("generated_assets",
                              {"thumbnail", "preview_1080p", "preview_720p", "preview_480p"})
      /\ UpgradeSplit[4] = DropCheck("processing_jobs")
      /\ UpgradeSplit[5] = RenameRows
      /\ UpgradeSplit[6] = AlterWidth("processing_jobs", 9)
      /\ UpgradeSplit[7] = AddCheck("processing_jobs", {"metadata", "thumbnail", "transcode"})
      /\ Len(UpgradeSplit) = 7
  BY DEF UpgradeSplit
<1> DEFINE T == {UpgradeInitial[1], UpgradeInitial[2], UpgradeSplit[1], UpgradeSplit[2],
                 UpgradeSplit[3], UpgradeSplit[4], UpgradeSplit[5], UpgradeSplit[6],
                 UpgradeSplit[7]}
<1>3. UpgradeInitial \in Seq(T) /\ UpgradeSplit \in Seq(T)
  <2>1. UpgradeInitial \in Seq(T)
    BY DEF UpgradeInitial
  <2>2. UpgradeSplit \in Seq(T)
    BY DEF UpgradeSplit
  <2> QED
    BY <2>1, <2>2
<1> HIDE DEF T
<1>4. /\ Len(Script) = 9
      /\ \A i \in 1 .. 9 : Script[i] = IF i =< 2 THEN UpgradeInitial[i] ELSE UpgradeSplit[i - 2]
  <2>1. /\ Len(UpgradeInitial \o UpgradeSplit) = Len(UpgradeInitial) + Len(UpgradeSplit)
        /\ \A i \in 1 .. Len(UpgradeInitial) + Len(UpgradeSplit) :
              (UpgradeInitial \o UpgradeSplit)[i] =
                 IF i =< Len(UpgradeInitial) THEN UpgradeInitial[i]
                 ELSE UpgradeSplit[i - Len(UpgradeInitial)]
    BY <1>3, ConcatProperties
  <2>2. /\ Len(Script) = 2 + 7
        /\ \A i \in 1 .. 2 + 7 : Script[i] =
              IF i =< 2 THEN UpgradeInitial[i] ELSE UpgradeSplit[i - 2]
    BY <1>1, <1>2, <2>1, Zenon DEF Script
  <2> QED
    BY <2>2
<1>5. /\ Script[1] = UpgradeInitial[1] /\ Script[2] = UpgradeInitial[2]
      /\ Script[3] = UpgradeSplit[1] /\ Script[4] = UpgradeSplit[2]
      /\ Script[5] = UpgradeSplit[3] /\ Script[6] = UpgradeSplit[4]
      /\ Script[7] = UpgradeSplit[5] /\ Script[8] = UpgradeSplit[6]
      /\ Script[9] = UpgradeSplit[7]
  BY <1>4
<1>6. T \subseteq Operations
  BY <1>5 DEF T, Operations
<1>7. UpgradeInitial \in Seq(Operations) /\ UpgradeSplit \in Seq(Operations)
  <2>1. \A q \in Seq(T) : q \in Seq(Operations)
    BY <1>6
  <2> QED
    BY <1>3, <2>1
<1>8. \A i \in 1 .. 2 : UpgradeInitial[i] = Script[i]
  BY <1>5
<1>9. \A i \in 1 .. 7 : UpgradeSplit[i] = Script[i + 2]
  BY <1>4
<1> QED
  BY <1>1, <1>2, <1>4, <1>5, <1>7, <1>8, <1>9

\* The columns a revision knows, with their tables written as strings.
LEMMA KnownAre ==
    /\ Known["initial"].generated_assets = {"thumbnail"}
    /\ Known["initial"].processing_jobs = {"metadata_and_thumbnail"}
    /\ Known["split"].generated_assets =
          {"thumbnail", "preview_1080p", "preview_720p", "preview_480p"}
    /\ Known["split"].processing_jobs = {"metadata", "thumbnail", "transcode"}
    /\ Assets = "generated_assets" /\ Jobs = "processing_jobs" /\ Assets # Jobs
    /\ Tables = {Assets, Jobs}
    /\ \A r \in Revisions : /\ Known[r][Assets] = Known[r].generated_assets
                            /\ Known[r][Jobs] = Known[r].processing_jobs
BY DEF Known, Assets, Jobs, Tables, Revisions

\* No operation on the assets is rejected, and each leads to the next point.
LEMMA AssetsStep ==
    ASSUME NEW n \in {0, 2, 3, 4}, NEW o, o = Script[n + 1],
           Seen(Assets) \in Column, AssetsAt(Seen(Assets), n)
    PROVE  /\ o.table = Assets /\ ~Rejected(o)
           /\ Applied(o) \in Column /\ AssetsAt(Applied(o), n + 1)
           /\ Applied(o).rows = Seen(Assets).rows
<1> PICK c : c = Seen(Assets)
  OBVIOUS
<1>1. /\ c \in Column /\ c = [check |-> c.check, width |-> c.width, rows |-> c.rows]
      /\ AssetsAt(c, n)
  BY DEF Column
<1>2. CASE n = 0
  <2>1. o.op = "create" /\ o.table = Assets /\ o.width = 9 /\ o.check = {"thumbnail"}
    BY <1>2, ScriptIs DEF CreateTable, Assets
  <2>2. c = NoTable
    BY <1>1, <1>2 DEF AssetsAt
  <2>3. ~Rejected(o)
    BY <2>1, <2>2 DEF Rejected
  <2>4. Applied(o) = [check |-> {"thumbnail"}, width |-> 9, rows |-> {}]
    BY <2>1 DEF Applied
  <2>5. Applied(o) \in Column
    BY <2>4, ValuesAre DEF Column
  <2>6. AssetsAt(Applied(o), 1)
    BY <2>4, KnownAre DEF AssetsAt
  <2>7. Applied(o).rows = c.rows
    BY <2>2, <2>4 DEF NoTable
  <2> QED
    BY <1>2, <2>1, <2>3, <2>5, <2>6, <2>7
<1>3. CASE n = 2
  <2>1. o.op = "drop" /\ o.table = Assets
    BY <1>3, ScriptIs DEF DropCheck, Assets
  <2>2. c.check = {"thumbnail"} /\ c.width = 9 /\ c.rows \subseteq {"thumbnail"}
    BY <1>1, <1>3, KnownAre DEF AssetsAt
  <2>3. ~Rejected(o)
    BY <2>1, <2>2, ValuesAre DEF Rejected, NoCheck
  <2>4. Applied(o) = [c EXCEPT !.check = NoCheck]
    BY <2>1 DEF Applied
  <2>5. Applied(o) = [check |-> Values, width |-> c.width, rows |-> c.rows]
    BY <1>1, <2>4 DEF NoCheck
  <2>6. Applied(o) \in Column /\ Applied(o).rows = c.rows
    BY <1>1, <2>5 DEF Column
  <2>7. AssetsAt(Applied(o), 3)
    BY <2>2, <2>5 DEF AssetsAt, NoCheck
  <2> QED
    BY <1>3, <2>1, <2>3, <2>6, <2>7
<1>4. CASE n = 3
  <2>1. o.op = "alter" /\ o.table = Assets /\ o.width = 13
    BY <1>4, ScriptIs DEF AlterWidth, Assets
  <2>2. c.check = NoCheck /\ c.rows \subseteq {"thumbnail"}
    BY <1>1, <1>4 DEF AssetsAt
  <2>3. ~Rejected(o)
    BY <2>1, <2>2, LengthsAre DEF Rejected
  <2>4. Applied(o) = [c EXCEPT !.width = 13]
    BY <2>1 DEF Applied
  <2>5. Applied(o) = [check |-> c.check, width |-> 13, rows |-> c.rows]
    BY <1>1, <2>4
  <2>6. Applied(o) \in Column /\ Applied(o).rows = c.rows
    BY <1>1, <2>5 DEF Column
  <2>7. AssetsAt(Applied(o), 4)
    BY <2>2, <2>5 DEF AssetsAt
  <2> QED
    BY <1>4, <2>1, <2>3, <2>6, <2>7
<1>5. CASE n = 4
  <2>1. o.op = "check" /\ o.table = Assets /\ o.check = Known["split"].generated_assets
    BY <1>5, ScriptIs, KnownAre DEF AddCheck, Assets
  <2>2. c.check = NoCheck /\ c.rows \subseteq {"thumbnail"} /\ c.width = 13
    BY <1>1, <1>5 DEF AssetsAt
  <2>3. ~Rejected(o)
    BY <2>1, <2>2, KnownAre DEF Rejected
  <2>4. Applied(o) = [c EXCEPT !.check = o.check]
    BY <2>1 DEF Applied
  <2>5. Applied(o) = [check |-> Known["split"].generated_assets, width |-> 13, rows |-> c.rows]
    BY <1>1, <2>1, <2>2, <2>4
  <2>6. Applied(o) \in Column /\ Applied(o).rows = c.rows
    BY <1>1, <2>5, KnownAre, ValuesAre DEF Column
  <2>7. AssetsAt(Applied(o), 5)
    BY <2>2, <2>5 DEF AssetsAt
  <2> QED
    BY <1>5, <2>1, <2>3, <2>6, <2>7
<1> QED
  BY <1>2, <1>3, <1>4, <1>5

\* The same of the operations on the jobs: the rows are renamed while no constraint
\* refuses either name, and fit before the column is narrowed.
LEMMA JobsStep ==
    ASSUME NEW n \in {1, 5, 6, 7, 8}, NEW o, o = Script[n + 1],
           Seen(Jobs) \in Column, JobsAt(Seen(Jobs), n)
    PROVE  /\ o.table = Jobs /\ ~Rejected(o)
           /\ Applied(o) \in Column /\ JobsAt(Applied(o), n + 1)
<1> PICK c : c = Seen(Jobs)
  OBVIOUS
<1>1. /\ c \in Column /\ c = [check |-> c.check, width |-> c.width, rows |-> c.rows]
      /\ JobsAt(c, n)
  BY DEF Column
<1>2. CASE n = 1
  <2>1. /\ o.op = "create" /\ o.table = Jobs /\ o.width = 22
        /\ o.check = {"metadata_and_thumbnail"}
    BY <1>2, ScriptIs DEF CreateTable, Jobs
  <2>2. c = NoTable
    BY <1>1, <1>2 DEF JobsAt
  <2>3. ~Rejected(o)
    BY <2>1, <2>2 DEF Rejected
  <2>4. Applied(o) = [check |-> {"metadata_and_thumbnail"}, width |-> 22, rows |-> {}]
    BY <2>1 DEF Applied
  <2>5. Applied(o) \in Column
    BY <2>4, ValuesAre DEF Column
  <2>6. JobsAt(Applied(o), 2)
    BY <2>4, KnownAre DEF JobsAt
  <2> QED
    BY <1>2, <2>1, <2>3, <2>5, <2>6
<1>3. CASE n = 5
  <2>1. o.op = "drop" /\ o.table = Jobs
    BY <1>3, ScriptIs DEF DropCheck, Jobs
  <2>2. /\ c.check = {"metadata_and_thumbnail"} /\ c.width = 22
        /\ c.rows \subseteq {"metadata_and_thumbnail"}
    BY <1>1, <1>3, KnownAre DEF JobsAt
  <2>3. ~Rejected(o)
    BY <2>1, <2>2, ValuesAre DEF Rejected, NoCheck
  <2>4. Applied(o) = [c EXCEPT !.check = NoCheck]
    BY <2>1 DEF Applied
  <2>5. Applied(o) = [check |-> Values, width |-> c.width, rows |-> c.rows]
    BY <1>1, <2>4 DEF NoCheck
  <2>6. Applied(o) \in Column
    BY <1>1, <2>5 DEF Column
  <2>7. JobsAt(Applied(o), 6)
    BY <2>2, <2>5 DEF JobsAt, NoCheck
  <2> QED
    BY <1>3, <2>1, <2>3, <2>6, <2>7
<1>4. CASE n = 6
  <2>1. o.op = "rename" /\ o.table = Jobs
    BY <1>4, ScriptIs DEF RenameRows, Jobs
  <2>2. c.check = Values /\ c.width = 22 /\ c.rows \subseteq {"metadata_and_thumbnail"}
    BY <1>1, <1>4 DEF JobsAt, NoCheck
  <2>3. ~Rejected(o)
    BY <2>1, <2>2, ValuesAre DEF Rejected
  <2> DEFINE renamed == {IF v = "metadata_and_thumbnail" THEN "metadata" ELSE v : v \in c.rows}
  <2>4. Applied(o) = [c EXCEPT !.rows = renamed]
    BY <2>1 DEF Applied
  <2>5. renamed \subseteq {"metadata"}
    BY <2>2
  <2> HIDE DEF renamed
  <2>6. Applied(o) = [check |-> c.check, width |-> c.width, rows |-> renamed]
    BY <1>1, <2>4
  <2>7. Applied(o) \in Column
    BY <1>1, <2>5, <2>6, ValuesAre DEF Column
  <2>8. JobsAt(Applied(o), 7)
    BY <2>2, <2>5, <2>6 DEF JobsAt, NoCheck
  <2> QED
    BY <1>4, <2>1, <2>3, <2>7, <2>8
<1>5. CASE n = 7
  <2>1. o.op = "alter" /\ o.table = Jobs /\ o.width = 9
    BY <1>5, ScriptIs DEF AlterWidth, Jobs
  <2>2. c.check = NoCheck /\ c.rows \subseteq {"metadata"}
    BY <1>1, <1>5 DEF JobsAt
  <2>3. ~Rejected(o)
    BY <2>1, <2>2, LengthsAre DEF Rejected
  <2>4. Applied(o) = [c EXCEPT !.width = 9]
    BY <2>1 DEF Applied
  <2>5. Applied(o) = [check |-> c.check, width |-> 9, rows |-> c.rows]
    BY <1>1, <2>4
  <2>6. Applied(o) \in Column
    BY <1>1, <2>5 DEF Column
  <2>7. JobsAt(Applied(o), 8)
    BY <2>2, <2>5 DEF JobsAt
  <2> QED
    BY <1>5, <2>1, <2>3, <2>6, <2>7
<1>6. CASE n = 8
  <2>1. o.op = "check" /\ o.table = Jobs /\ o.check = Known["split"].processing_jobs
    BY <1>6, ScriptIs, KnownAre DEF AddCheck, Jobs
  <2>2. c.check = NoCheck /\ c.rows \subseteq {"metadata"} /\ c.width = 9
    BY <1>1, <1>6 DEF JobsAt
  <2>3. ~Rejected(o)
    BY <2>1, <2>2, KnownAre DEF Rejected
  <2>4. Applied(o) = [c EXCEPT !.check = o.check]
    BY <2>1 DEF Applied
  <2>5. Applied(o) = [check |-> Known["split"].processing_jobs, width |-> 9, rows |-> c.rows]
    BY <1>1, <2>1, <2>2, <2>4
  <2>6. Applied(o) \in Column
    BY <1>1, <2>5, KnownAre, ValuesAre DEF Column
  <2>7. JobsAt(Applied(o), 9)
    BY <2>2, <2>5, KnownAre DEF JobsAt
  <2> QED
    BY <1>6, <2>1, <2>3, <2>6, <2>7
<1> QED
  BY <1>2, <1>3, <1>4, <1>5, <1>6

\* Between the operations on one table the shape of the other is that of the next point.
LEMMA OtherTable ==
    ASSUME NEW c \in Column, NEW n \in 0 .. 8
    PROVE  /\ n \in {1, 5, 6, 7, 8} /\ AssetsAt(c, n) => AssetsAt(c, n + 1)
           /\ n \in {0, 2, 3, 4} /\ JobsAt(c, n) => JobsAt(c, n + 1)
BY KnownAre DEF AssetsAt, JobsAt, NoCheck

\* A row the constraint takes leaves the column at its point, where the point is also
\* that of a committed schema.
LEMMA RowsStay ==
    ASSUME NEW c \in Column, NEW v \in c.check, NEW d, d = [c EXCEPT !.rows = @ \cup {v}],
           NEW p \in {0, 2, 9}, NEW n \in p .. 9
    PROVE  /\ d \in Column
           /\ AssetsAt(c, p) /\ AssetsAt(c, n) => AssetsAt(d, n) /\ p # 0
           /\ JobsAt(c, p) /\ JobsAt(c, n) => JobsAt(d, n) /\ p # 0
<1>1. /\ d = [check |-> c.check, width |-> c.width, rows |-> c.rows \cup {v}]
      /\ d.check = c.check /\ d.width = c.width /\ d.rows = c.rows \cup {v}
      /\ c.check \subseteq Values
  BY DEF Column
<1>2. d \in Column
  BY <1>1 DEF Column
<1>3. ASSUME AssetsAt(c, p), AssetsAt(c, n) PROVE AssetsAt(d, n) /\ p # 0
  <2>1. p # 0
    BY <1>3 DEF AssetsAt, NoTable
  <2>2. p = 2 => n = 2
    BY <1>3, KnownAre, ValuesAre DEF AssetsAt, NoCheck
  <2>3. CASE n = 2
    BY <1>1, <1>3, <2>1, <2>3, KnownAre DEF AssetsAt
  <2>4. CASE n = 9
    BY <1>1, <1>3, <2>1, <2>4, KnownAre DEF AssetsAt
  <2> QED
    BY <2>1, <2>2, <2>3, <2>4
<1>4. ASSUME JobsAt(c, p), JobsAt(c, n) PROVE JobsAt(d, n) /\ p # 0
  <2>1. p # 0
    BY <1>4 DEF JobsAt, NoTable
  <2>2. p = 2 => n \in 2 .. 5
    BY <1>4, KnownAre, ValuesAre DEF JobsAt, NoCheck
  <2>3. CASE n \in 2 .. 5
    BY <1>1, <1>4, <2>1, <2>3, KnownAre DEF JobsAt
  <2>4. CASE n = 9
    BY <1>1, <1>4, <2>1, <2>4, KnownAre DEF JobsAt
  <2> QED
    BY <2>1, <2>2, <2>3, <2>4
<1> QED
  BY <1>2, <1>3, <1>4

\* The points of the revisions.
LEMMA PositionsAre ==
    /\ Position("none") = 0 /\ Position("initial") = 2 /\ Position("split") = 9
    /\ \A r \in {"none"} \cup Revisions : Position(r) \in {0, 2, 9}
BY DEF Position, Revisions

\* What `alembic upgrade head` has to run is the script from where the database is to
\* where the image's revision is.
LEMMA ScriptsAre ==
    ASSUME target \in Revisions, version \in {"none"} \cup Revisions,
           version = "split" => target = "split"
    PROVE  /\ Scripts(target) \in Seq(Operations)
           /\ Len(Scripts(target)) = Position(target) - Position(version)
           /\ \A i \in 1 .. Len(Scripts(target)) :
                 Scripts(target)[i] = Script[Position(version) + i]
           /\ Position(version) =< Position(target)
<1>0. /\ UpgradeInitial \in Seq(Operations) /\ Len(UpgradeInitial) = 2
      /\ UpgradeSplit \in Seq(Operations) /\ Len(UpgradeSplit) = 7
      /\ \A i \in 1 .. 2 : UpgradeInitial[i] = Script[i]
      /\ \A i \in 1 .. 7 : UpgradeSplit[i] = Script[i + 2]
      /\ <<>> \in Seq(Operations) /\ Len(<<>>) = 0
      /\ Len(Script) = 9
  BY ScriptIs
<1>1. CASE version = "none" /\ target = "initial"
  <2>1. Scripts(target) = UpgradeInitial \o <<>>
    BY <1>1 DEF Scripts
  <2>2. Scripts(target) = UpgradeInitial
    BY <1>0, <2>1, ConcatEmptySeq
  <2>3. Position(version) = 0 /\ Position(target) = 2
    BY <1>1, PositionsAre
  <2>4. \A i \in 1 .. Len(UpgradeInitial) : UpgradeInitial[i] = Script[0 + i]
    BY <1>0
  <2>5. \A i \in 1 .. Len(Scripts(target)) : Scripts(target)[i] = Script[Position(version) + i]
    BY <2>2, <2>3, <2>4, Zenon
  <2>6. Scripts(target) \in Seq(Operations) /\ Len(Scripts(target)) = 2
    BY <1>0, <2>2, Zenon
  <2> QED
    BY <2>3, <2>5, <2>6
<1>2. CASE version = "none" /\ target = "split"
  <2>1. Scripts(target) = UpgradeInitial \o UpgradeSplit
    BY <1>2 DEF Scripts
  <2>2. Scripts(target) \in Seq(Operations)
    BY <1>0, <2>1, ConcatProperties
  <2>3. Scripts(target) = Script
    BY <2>1 DEF Script
  <2>4. Position(version) = 0 /\ Position(target) = 9
    BY <1>2, PositionsAre
  <2> QED
    BY <1>0, <2>2, <2>3, <2>4
<1>3. CASE version = target
  <2>1. Scripts(target) = <<>> \o <<>>
    BY <1>3 DEF Scripts, Revisions
  <2>2. Scripts(target) = <<>>
    BY <1>0, <2>1, ConcatEmptySeq
  <2>3. Position(version) = Position(target) /\ Position(target) \in {0, 2, 9}
    BY <1>3, PositionsAre
  <2> QED
    BY <1>0, <2>2, <2>3
<1>4. CASE version = "initial" /\ target = "split"
  <2>1. Scripts(target) = <<>> \o UpgradeSplit
    BY <1>4 DEF Scripts
  <2>2. Scripts(target) = UpgradeSplit
    BY <1>0, <2>1, ConcatEmptySeq
  <2>3. Position(version) = 2 /\ Position(target) = 9
    BY <1>4, PositionsAre
  <2>4. \A i \in 1 .. Len(UpgradeSplit) : UpgradeSplit[i] = Script[2 + i]
    BY <1>0
  <2>5. \A i \in 1 .. Len(Scripts(target)) : Scripts(target)[i] = Script[Position(version) + i]
    BY <2>2, <2>3, <2>4, Zenon
  <2>6. Scripts(target) \in Seq(Operations) /\ Len(Scripts(target)) = 7
    BY <1>0, <2>2, Zenon
  <2> QED
    BY <2>3, <2>5, <2>6
<1> QED
  BY <1>1, <1>2, <1>3, <1>4 DEF Revisions

-------------------------------------------------------------------------------
\* An empty database, nothing deployed.
LEMMA MigrationInitially == MigrationInit => MigrationInv
<1> SUFFICES ASSUME MigrationInit PROVE MigrationInv
  OBVIOUS
<1> USE DEF MigrationInit
<1>1. MigrationTypeOK
  <2>1. columns \in [Tables -> Column]
    BY ValuesAre DEF NoTable, Column
  <2>2. /\ migration = [open |-> migration.open, todo |-> migration.todo,
                        draft |-> migration.draft]
        /\ migration.open \in BOOLEAN /\ migration.todo \in Seq(Operations)
    BY DEF Closed
  <2> QED
    BY <2>1, <2>2 DEF MigrationTypeOK, Revisions, Services
<1>2. SchemaOK
  <2>1. columns[Assets] = NoTable /\ columns[Jobs] = NoTable /\ Position(version) = 0
    BY KnownAre, PositionsAre
  <2>2. AssetsAt(NoTable, 0) /\ JobsAt(NoTable, 0)
    BY DEF AssetsAt, JobsAt, NoTable
  <2> QED
    BY <2>1, <2>2, Zenon DEF SchemaOK
<1>3. TransactionOK
  BY DEF TransactionOK, Closed
<1>4. DeployOK
  <2>1. ~NewAssets
    BY KnownAre DEF NewAssets, NoTable
  <2> QED
    BY <2>1 DEF DeployOK, Services
<1> QED
  BY <1>1, <1>2, <1>3, <1>4 DEF MigrationInv

\* Where neither the columns nor the transaction changes, tables are seen as before.
LEMMA SeenStays ==
    ASSUME NEW t, UNCHANGED <<columns, migration>>
    PROVE  Seen(t)' = Seen(t)
BY DEF Seen

\* The types of the transaction after a step that leaves it alone or closes it.
LEMMA ClosedIsTyped ==
    ASSUME migration' = Closed
    PROVE  /\ ~migration.open' /\ TransactionOK'
           /\ migration' = [open |-> migration'.open, todo |-> migration'.todo,
                            draft |-> migration'.draft]
           /\ migration'.open \in BOOLEAN /\ migration'.todo \in Seq(Operations)
BY DEF Closed, TransactionOK

\* The transaction begins at the committed columns.
LEMMA BeginKeeps == MigrationInv /\ BeginMigration => MigrationInv'
<1> SUFFICES ASSUME MigrationInv, BeginMigration PROVE MigrationInv'
  OBVIOUS
<1>1. MigrationTypeOK /\ SchemaOK /\ TransactionOK /\ DeployOK
  BY DEF MigrationInv
<1>2. /\ stage = "migrate" /\ (version = "split" => target = "split")
      /\ migration' = [Closed EXCEPT !.open = TRUE, !.todo = Scripts(target)]
      /\ UNCHANGED <<version, columns, stage, target, desired, running, refused>>
  BY DEF BeginMigration, database, deployment
<1> PICK todo : todo = Scripts(target)
  OBVIOUS
<1>3. migration' = [open |-> TRUE, todo |-> todo, draft |-> <<>>]
  BY <1>2 DEF Closed
<1>4. /\ todo \in Seq(Operations) /\ Len(todo) = Position(target) - Position(version)
      /\ \A i \in 1 .. Len(todo) : todo[i] = Script[Position(version) + i]
      /\ Position(version) =< Position(target)
      /\ Position(version) \in {0, 2, 9} /\ Position(target) \in {0, 2, 9}
  <2>1. target \in Revisions /\ version \in {"none"} \cup Revisions
    BY <1>1 DEF MigrationTypeOK
  <2> QED
    BY <1>2, <2>1, ScriptsAre, PositionsAre
<1>5. MigrationTypeOK'
  BY <1>1, <1>2, <1>3, <1>4 DEF MigrationTypeOK
<1>6. SchemaOK'
  BY <1>1, <1>2 DEF SchemaOK
<1>7. \A t \in Tables : Seen(t)' = columns[t]
  <2>1. DOMAIN migration'.draft = {}
    BY <1>3
  <2> QED
    BY <1>2, <2>1 DEF Seen
<1>8. Reached' = Position(version) /\ Len(migration.todo)' = Len(todo)
  BY <1>2, <1>3, <1>4 DEF Reached
<1>9. TransactionOK'
  <2>1. \A t \in Tables : Seen(t)' \in Column
    BY <1>1, <1>7 DEF MigrationTypeOK
  <2>2. Seen(Assets)' = columns[Assets] /\ Seen(Jobs)' = columns[Jobs]
    BY <1>7, KnownAre
  <2>3. AssetsAt(columns[Assets], Position(version)) /\ JobsAt(columns[Jobs], Position(version))
    BY <1>1 DEF SchemaOK
  <2>4. AssetsAt(Seen(Assets), Reached)' /\ JobsAt(Seen(Jobs), Reached)'
    BY <1>8, <2>2, <2>3, Zenon
  <2>5. Reached' \in Position(version)' .. Position(target)'
    BY <1>2, <1>4, <1>8
  <2>6. \A i \in 1 .. Len(migration'.todo) : migration'.todo[i] = Script[Reached' + i]
    BY <1>3, <1>4, <1>8
  <2>7. Seen(Assets)'.rows = columns'[Assets].rows /\ migration'.open /\ stage' = "migrate"
    BY <1>2, <1>3, <2>2
  <2> QED
    BY <2>1, <2>4, <2>5, <2>6, <2>7 DEF TransactionOK
<1>10. DeployOK'
  BY <1>1, <1>2 DEF DeployOK, NewAssets
<1> QED
  BY <1>5, <1>6, <1>9, <1>10 DEF MigrationInv

\* What a transaction with operations left is at.
LEMMA NextOperation ==
    ASSUME MigrationInv, migration.open, migration.todo # <<>>,
           NEW o, o = Head(migration.todo)
    PROVE  /\ Reached \in 0 .. 8 /\ Reached + 1 =< Position(target) /\ o = Script[Reached + 1]
           /\ Tail(migration.todo) \in Seq(Operations)
           /\ Len(Tail(migration.todo)) = Len(migration.todo) - 1
           /\ \A i \in 1 .. Len(Tail(migration.todo)) :
                 Tail(migration.todo)[i] = Script[Reached + 1 + i]
           /\ ~Rejected(o)
<1>1. MigrationTypeOK /\ TransactionOK
  BY DEF MigrationInv
<1> PICK todo : todo = migration.todo
  OBVIOUS
<1>2. todo \in Seq(Operations) /\ todo # <<>>
  BY <1>1 DEF MigrationTypeOK
<1>3. /\ Tail(todo) \in Seq(Operations) /\ Len(Tail(todo)) = Len(todo) - 1
      /\ \A i \in 1 .. Len(Tail(todo)) : Tail(todo)[i] = todo[i + 1]
  BY <1>2, HeadTailProperties
<1>4. o = todo[1] /\ Len(todo) \in Nat \ {0}
  BY <1>2
<1>5. /\ Position(target) \in {2, 9} /\ Position(version) \in {0, 2, 9}
  BY <1>1, PositionsAre DEF MigrationTypeOK, Revisions
<1>6. /\ Reached = Position(target) - Len(todo)
      /\ Reached \in Position(version) .. Position(target)
      /\ \A i \in 1 .. Len(todo) : todo[i] = Script[Reached + i]
  BY <1>1 DEF TransactionOK, Reached
<1>7. Reached \in 0 .. 8 /\ Reached + 1 =< Position(target)
  BY <1>4, <1>5, <1>6
<1>8. o = Script[Reached + 1]
  BY <1>4, <1>6
<1>9. ASSUME NEW i \in 1 .. Len(Tail(todo))
      PROVE  Tail(todo)[i] = Script[Reached + 1 + i]
  <2>1. i + 1 \in 1 .. Len(todo) /\ Reached + (i + 1) = Reached + 1 + i
    BY <1>3, <1>4, <1>7
  <2> QED
    BY <1>3, <1>6, <2>1
<1>10. ~Rejected(o)
  <2>1. /\ Seen(Assets) \in Column /\ AssetsAt(Seen(Assets), Reached)
        /\ Seen(Jobs) \in Column /\ JobsAt(Seen(Jobs), Reached)
    BY <1>1, KnownAre DEF TransactionOK
  <2>2. Reached \in {0, 2, 3, 4} \/ Reached \in {1, 5, 6, 7, 8}
    BY <1>7
  <2> QED
    BY <1>8, <2>1, <2>2, AssetsStep, JobsStep
<1> QED
  BY <1>3, <1>7, <1>8, <1>9, <1>10

\* An operation takes the transaction's columns to the next point of the script.
LEMMA StepKeeps == MigrationInv /\ Step => MigrationInv'
<1> SUFFICES ASSUME MigrationInv, Step PROVE MigrationInv'
  OBVIOUS
<1>1. MigrationTypeOK /\ SchemaOK /\ TransactionOK /\ DeployOK
  BY DEF MigrationInv
<1> PICK o : o = Head(migration.todo)
  OBVIOUS
<1> PICK a : a = Applied(o)
  OBVIOUS
<1> PICK todo : todo = Tail(migration.todo)
  OBVIOUS
<1> PICK draft : draft = [t \in DOMAIN migration.draft \cup {o.table} |->
                             IF t = o.table THEN a ELSE migration.draft[t]]
  OBVIOUS
<1>2. /\ migration.open /\ migration.todo # <<>>
      /\ migration' = [migration EXCEPT !.todo = todo, !.draft = draft]
      /\ UNCHANGED <<version, columns, stage, target, desired, running, refused>>
  BY DEF Step, database, deployment
<1>3. migration' = [open |-> TRUE, todo |-> todo, draft |-> draft]
  BY <1>1, <1>2 DEF MigrationTypeOK
<1>4. /\ Reached \in 0 .. 8 /\ Reached + 1 =< Position(target) /\ o = Script[Reached + 1]
      /\ todo \in Seq(Operations) /\ Len(todo) = Len(migration.todo) - 1
      /\ \A i \in 1 .. Len(todo) : todo[i] = Script[Reached + 1 + i]
  BY <1>2, NextOperation
<1>5. /\ stage = "migrate" /\ Reached \in Position(version) .. Position(target)
      /\ Seen(Assets) \in Column /\ AssetsAt(Seen(Assets), Reached)
      /\ Seen(Jobs) \in Column /\ JobsAt(Seen(Jobs), Reached)
      /\ Seen(Assets).rows = columns[Assets].rows
  BY <1>1, <1>2, KnownAre DEF TransactionOK
<1>6. MigrationTypeOK'
  BY <1>1, <1>2, <1>3, <1>4 DEF MigrationTypeOK
<1>7. SchemaOK'
  BY <1>1, <1>2 DEF SchemaOK
<1>8. ASSUME NEW t \in Tables
      PROVE  Seen(t)' = IF t = o.table THEN a ELSE Seen(t)
  <2>1. /\ DOMAIN draft = DOMAIN migration.draft \cup {o.table}
        /\ t \in DOMAIN draft => draft[t] = IF t = o.table THEN a ELSE migration.draft[t]
    OBVIOUS
  <2>2. migration'.draft = draft /\ columns' = columns
    BY <1>2, <1>3
  <2> HIDE <1>3
  <2> QED
    BY <2>1, <2>2 DEF Seen
<1>9. Reached' = Reached + 1
  <2>1. Reached' = Position(target) - Len(todo) /\ Reached = Position(target) - Len(migration.todo)
    <3>1. migration'.todo = todo /\ target' = target
      BY <1>2, <1>3
    <3> QED
      BY <3>1, Zenon DEF Reached
  <2>2. Len(migration.todo) \in Nat /\ Position(target) \in Nat
    <3>1. migration.todo \in Seq(Operations) /\ target \in Revisions
      BY <1>1 DEF MigrationTypeOK
    <3>2. Position(target) \in {0, 2, 9}
      BY <3>1, PositionsAre
    <3>3. \A q \in Seq(Operations) : Len(q) \in Nat
      OBVIOUS
    <3> QED
      BY <3>1, <3>2, <3>3
  <2> QED
    BY <1>4, <2>1, <2>2
<1>10. /\ Seen(Assets)' \in Column /\ Seen(Jobs)' \in Column
       /\ AssetsAt(Seen(Assets), Reached)' /\ JobsAt(Seen(Jobs), Reached)'
       /\ Seen(Assets)'.rows = columns[Assets].rows
  <2>1. CASE Reached \in {0, 2, 3, 4}
    <3>1. /\ o.table = Assets /\ a \in Column /\ AssetsAt(a, Reached + 1)
          /\ a.rows = Seen(Assets).rows
      BY <1>4, <1>5, <2>1, AssetsStep
    <3>2. JobsAt(Seen(Jobs), Reached + 1)
      BY <1>4, <1>5, <2>1, OtherTable
    <3>3. Seen(Assets)' = a /\ Seen(Jobs)' = Seen(Jobs)
      BY <1>8, <3>1, KnownAre
    <3> QED
      BY <1>5, <1>9, <3>1, <3>2, <3>3, Zenon
  <2>2. CASE Reached \in {1, 5, 6, 7, 8}
    <3>1. o.table = Jobs /\ a \in Column /\ JobsAt(a, Reached + 1)
      BY <1>4, <1>5, <2>2, JobsStep
    <3>2. AssetsAt(Seen(Assets), Reached + 1)
      BY <1>4, <1>5, <2>2, OtherTable
    <3>3. Seen(Jobs)' = a /\ Seen(Assets)' = Seen(Assets)
      BY <1>8, <3>1, KnownAre
    <3> QED
      BY <1>5, <1>9, <3>1, <3>2, <3>3, Zenon
  <2> QED
    BY <1>4, <2>1, <2>2
<1>11. TransactionOK'
  <2>1. migration'.open /\ stage' = "migrate" /\ migration'.todo = todo
    BY <1>2, <1>3, <1>5
  <2>2. Reached' \in Position(version)' .. Position(target)'
    <3>1. Position(version)' = Position(version) /\ Position(target)' = Position(target)
      BY <1>2
    <3>2. Position(version) \in {0, 2, 9} /\ Position(target) \in {0, 2, 9}
      BY <1>1, PositionsAre DEF MigrationTypeOK
    <3> QED
      BY <1>4, <1>5, <1>9, <3>1, <3>2
  <2>3. \A i \in 1 .. Len(migration'.todo) : migration'.todo[i] = Script[Reached' + i]
    BY <1>4, <1>9, <2>1
  <2>4. \A t \in Tables : Seen(t)' \in Column
    BY <1>10, KnownAre
  <2>5. Seen(Assets)'.rows = columns'[Assets].rows
    BY <1>2, <1>10
  <2> QED
    BY <1>10, <2>1, <2>2, <2>3, <2>4, <2>5 DEF TransactionOK
<1>12. DeployOK'
  BY <1>1, <1>2 DEF DeployOK, NewAssets
<1> QED
  BY <1>6, <1>7, <1>11, <1>12 DEF MigrationInv

\* The end of the script is the target's schema, which the commit makes the database's.
LEMMA CommitKeeps == MigrationInv /\ CommitMigration => MigrationInv'
<1> SUFFICES ASSUME MigrationInv, CommitMigration PROVE MigrationInv'
  OBVIOUS
<1>1. MigrationTypeOK /\ SchemaOK /\ TransactionOK /\ DeployOK
  BY DEF MigrationInv
<1>2. /\ migration.open /\ migration.todo = <<>>
      /\ version' = IF target = "initial" /\ version # "none" THEN version ELSE target
      /\ columns' = [t \in Tables |-> Seen(t)]
      /\ migration' = Closed /\ stage' = "api"
      /\ UNCHANGED <<target, desired, running, refused>>
  BY DEF CommitMigration
<1>3. Reached = Position(target) /\ Position(version) =< Position(target)
  <2>1. Len(migration.todo) = 0 /\ Position(target) \in {0, 2, 9}
    BY <1>1, <1>2, PositionsAre DEF MigrationTypeOK
  <2>2. Position(version) \in {0, 2, 9}
    BY <1>1, PositionsAre DEF MigrationTypeOK
  <2> QED
    BY <1>1, <1>2, <2>1, <2>2 DEF TransactionOK, Reached
<1>4. version = "split" => target = "split"
  <2>1. target \in {"initial", "split"}
    BY <1>1 DEF MigrationTypeOK, Revisions
  <2> QED
    BY <1>3, <2>1, PositionsAre
<1>5. version' = target
  BY <1>1, <1>2, <1>4 DEF MigrationTypeOK, Revisions
<1>6. /\ \A t \in Tables : Seen(t) \in Column
      /\ AssetsAt(Seen(Assets), Position(target)) /\ JobsAt(Seen(Jobs), Position(target))
      /\ Seen(Assets).rows = columns[Assets].rows
  BY <1>1, <1>2, <1>3 DEF TransactionOK
<1>7. columns'[Assets] = Seen(Assets) /\ columns'[Jobs] = Seen(Jobs)
  BY <1>2, KnownAre
<1>8. MigrationTypeOK'
  <2>1. columns' \in [Tables -> Column]
    BY <1>2, <1>6
  <2> QED
    BY <1>1, <1>2, <1>5, <2>1, ClosedIsTyped DEF MigrationTypeOK
<1>9. SchemaOK'
  BY <1>5, <1>6, <1>7 DEF SchemaOK
<1>10. NewAssets' <=> NewAssets
  BY <1>6, <1>7 DEF NewAssets
<1>11. DeployOK'
  BY <1>1, <1>2, <1>4, <1>5, <1>10 DEF DeployOK
<1> QED
  BY <1>2, <1>8, <1>9, <1>11, ClosedIsTyped DEF MigrationInv

\* What is left of a failed migration is the committed schema.
LEMMA FailKeeps == MigrationInv /\ MigrationFails => MigrationInv'
<1> SUFFICES ASSUME MigrationInv, MigrationFails PROVE MigrationInv'
  OBVIOUS
<1>1. MigrationTypeOK /\ SchemaOK /\ TransactionOK /\ DeployOK
  BY DEF MigrationInv
<1>2. /\ migration' = Closed /\ stage' = "idle"
      /\ UNCHANGED <<version, columns, target, desired, running, refused>>
  BY DEF MigrationFails, database
<1>3. MigrationTypeOK'
  BY <1>1, <1>2, ClosedIsTyped DEF MigrationTypeOK
<1>4. SchemaOK' /\ DeployOK'
  BY <1>1, <1>2 DEF SchemaOK, DeployOK, NewAssets
<1> QED
  BY <1>2, <1>3, <1>4, ClosedIsTyped DEF MigrationInv

\* A step of a deployment past its migration, of a service or of its tasks touches
\* neither the database nor the migration.
LEMMA DeploymentKeeps ==
    ASSUME MigrationInv, UNCHANGED <<version, columns, migration, refused>>,
           \/ UNCHANGED <<stage, target>>
           \/ /\ stage # "migrate" /\ target' \in Revisions
              /\ stage' \in {"idle", "migrate", "api", "api rollout", "worker rollout", "failed"},
           desired' \in [Services -> {"none"} \cup Revisions],
           running' \in [Services -> SUBSET Revisions], DeployOK'
    PROVE  MigrationInv'
<1>1. MigrationTypeOK /\ SchemaOK /\ TransactionOK
  BY DEF MigrationInv
<1>2. MigrationTypeOK'
  BY <1>1 DEF MigrationTypeOK
<1>3. SchemaOK'
  BY <1>1 DEF SchemaOK
<1>4. CASE UNCHANGED <<stage, target>>
  <2>1. Reached' = Reached /\ \A t \in Tables : Seen(t)' = Seen(t)
    BY <1>4 DEF Seen, Reached
  <2>2. Seen(Assets)' = Seen(Assets) /\ Seen(Jobs)' = Seen(Jobs)
    BY <2>1, KnownAre
  <2> QED
    BY <1>1, <1>2, <1>3, <1>4, <2>1, <2>2 DEF TransactionOK, MigrationInv
<1>5. CASE stage # "migrate"
  <2>1. ~migration.open /\ migration = Closed
    BY <1>1, <1>5 DEF TransactionOK
  <2> QED
    BY <1>2, <1>3, <2>1, ClosedIsTyped DEF MigrationInv
<1> QED
  BY <1>4, <1>5

\* Each step of the pipeline after the push: the API before the worker.
LEMMA PipelineKeeps ==
    ASSUME MigrationInv,
           \/ \E r \in Revisions : Push(r)
           \/ UpdateApi \/ UpdateWorker \/ DeployFails \/ RerunDeploy \/ EndDeployment
    PROVE  MigrationInv'
<1>1. MigrationTypeOK /\ SchemaOK /\ TransactionOK /\ DeployOK
  BY DEF MigrationInv
<1>2. CASE \E r \in Revisions : Push(r)
  <2>1. /\ stage # "migrate" /\ stage' = "migrate" /\ target' \in Revisions
        /\ UNCHANGED <<version, columns, migration, desired, running, refused>>
    BY <1>2 DEF Push, database
  <2>2. DeployOK'
    BY <1>1, <2>1 DEF DeployOK, NewAssets
  <2> QED
    BY <1>1, <2>1, <2>2, DeploymentKeeps DEF MigrationTypeOK
<1>3. CASE UpdateApi
  <2>1. /\ stage = "api" /\ desired' = [desired EXCEPT !["api"] = target]
        /\ stage' = "api rollout"
        /\ UNCHANGED <<version, columns, migration, target, running, refused>>
    BY <1>3 DEF UpdateApi, database
  <2>2. target \in Revisions /\ desired \in [Services -> {"none"} \cup Revisions]
    BY <1>1 DEF MigrationTypeOK
  <2>3. /\ desired' \in [Services -> {"none"} \cup Revisions]
        /\ desired'["api"] = target /\ desired'["worker"] = desired["worker"]
    BY <2>1, <2>2 DEF Services
  <2>4. version = target
    BY <1>1, <2>1 DEF DeployOK
  <2>5. desired["api"] = "split" => target = "split"
    BY <1>1, <2>4 DEF DeployOK, Services
  <2>6. NewAssets' <=> NewAssets
    BY <2>1 DEF NewAssets
  <2>7. ASSUME NEW svc \in Services, desired'[svc] = "split" \/ "split" \in running[svc]
        PROVE  version = "split"
    BY <1>1, <2>3, <2>4, <2>7 DEF DeployOK, Services
  <2>8. DeployOK'
    BY <1>1, <2>1, <2>3, <2>4, <2>5, <2>6, <2>7 DEF DeployOK
  <2> QED
    BY <1>1, <2>1, <2>2, <2>3, <2>8, DeploymentKeeps DEF MigrationTypeOK
<1>4. CASE UpdateWorker
  <2>1. /\ stage = "api rollout" /\ desired' = [desired EXCEPT !["worker"] = target]
        /\ stage' = "worker rollout" /\ running["api"] = {desired["api"]}
        /\ UNCHANGED <<version, columns, migration, target, running, refused>>
    BY <1>4 DEF UpdateWorker, database, Stable
  <2>2. target \in Revisions /\ desired \in [Services -> {"none"} \cup Revisions]
    BY <1>1 DEF MigrationTypeOK
  <2>3. /\ desired' \in [Services -> {"none"} \cup Revisions]
        /\ desired'["worker"] = target /\ desired'["api"] = desired["api"]
    BY <2>1, <2>2 DEF Services
  <2>4. version = target /\ desired["api"] = target
    BY <1>1, <2>1 DEF DeployOK
  <2>5. NewAssets' <=> NewAssets
    BY <2>1 DEF NewAssets
  <2>6. ASSUME NEW svc \in Services, desired'[svc] = "split" \/ "split" \in running[svc]
        PROVE  version = "split"
    BY <1>1, <2>3, <2>4, <2>6 DEF DeployOK, Services
  <2>7. desired'["worker"] = "split" => desired["api"] = "split" /\ "initial" \notin running["api"]
    BY <2>1, <2>3, <2>4
  <2>8. DeployOK'
    BY <1>1, <2>1, <2>3, <2>4, <2>5, <2>6, <2>7 DEF DeployOK
  <2> QED
    BY <1>1, <2>1, <2>2, <2>3, <2>8, DeploymentKeeps DEF MigrationTypeOK
<1>5. CASE EndDeployment
  <2>1. /\ stage # "migrate" /\ stage' = "idle"
        /\ UNCHANGED <<version, columns, migration, target, desired, running, refused>>
    BY <1>5 DEF EndDeployment, database
  <2>2. DeployOK'
    BY <1>1, <2>1 DEF DeployOK, NewAssets
  <2> QED
    BY <1>1, <2>1, <2>2, DeploymentKeeps DEF MigrationTypeOK
<1>6. CASE DeployFails \/ RerunDeploy
  <2>1. /\ stage \in {"api", "api rollout", "worker rollout", "failed"}
        /\ stage' \in {"api", "failed"}
        /\ UNCHANGED <<version, columns, migration, target, desired, running, refused>>
    BY <1>6 DEF DeployFails, RerunDeploy, database
  <2>2. DeployOK'
    BY <1>1, <2>1 DEF DeployOK, NewAssets
  <2> QED
    BY <1>1, <2>1, <2>2, DeploymentKeeps DEF MigrationTypeOK
<1> QED
  BY <1>2, <1>3, <1>4, <1>5, <1>6

\* Tasks start only under the desired definition, and may stop at any time.
LEMMA TasksKeep ==
    ASSUME MigrationInv, NEW svc \in Services,
           \/ TaskStarts(svc)
           \/ \E r \in Revisions : OldTaskStops(svc, r) \/ TaskDies(svc, r)
    PROVE  MigrationInv'
<1>1. MigrationTypeOK /\ DeployOK
  BY DEF MigrationInv
<1>2. running \in [Services -> SUBSET Revisions]
  BY <1>1 DEF MigrationTypeOK
<1>3. UNCHANGED <<version, columns, migration, stage, target, desired, refused>>
  BY DEF TaskStarts, OldTaskStops, TaskDies, database, deployment
<1>4. /\ running' \in [Services -> SUBSET Revisions]
      /\ \A s \in Services : running'[s] \subseteq running[s] \cup ({desired[s]} \cap Revisions)
  <2>1. CASE TaskStarts(svc)
    <3>1. /\ desired[svc] \in Revisions
          /\ running' = [running EXCEPT ![svc] = running[svc] \cup {desired[svc]}]
      BY <2>1 DEF TaskStarts
    <3> QED
      BY <1>2, <3>1
  <2>2. ASSUME NEW r \in Revisions, OldTaskStops(svc, r) \/ TaskDies(svc, r)
        PROVE  /\ running' \in [Services -> SUBSET Revisions]
               /\ \A s \in Services : running'[s] \subseteq running[s]
    <3>1. running' = [running EXCEPT ![svc] = running[svc] \ {r}]
      BY <2>2 DEF OldTaskStops, TaskDies
    <3> QED
      BY <1>2, <3>1
  <2> QED
    BY <2>1, <2>2
<1>5. NewAssets' <=> NewAssets
  BY <1>3 DEF NewAssets
<1>6. \A s \in Services : desired[s] = "split" \/ "split" \in running'[s] => version = "split"
  BY <1>1, <1>4 DEF DeployOK
<1>7. /\ "split" \in running'["worker"] => "split" \in running["worker"] \/ desired["worker"] = "split"
      /\ desired["api"] = "split" /\ "initial" \notin running["api"]
            => "initial" \notin running'["api"]
  BY <1>4 DEF Services
<1>8. DeployOK'
  BY <1>1, <1>3, <1>5, <1>6, <1>7 DEF DeployOK
<1> QED
  BY <1>1, <1>3, <1>4, <1>8, DeploymentKeeps DEF MigrationTypeOK

\* A row of a running worker: taken, it leaves every column at its point; the split
\* revision's are always taken.
LEMMA WriteKeeps ==
    ASSUME MigrationInv, NEW r \in Revisions, NEW t \in Tables, NEW v \in Values,
           WriteRow(r, t, v)
    PROVE  MigrationInv'
<1>1. MigrationTypeOK /\ SchemaOK /\ TransactionOK /\ DeployOK
  BY DEF MigrationInv
<1>2. /\ r \in running["worker"] /\ v \in Known[r][t] /\ t \notin DOMAIN migration.draft
      /\ UNCHANGED <<version, migration, stage, target, desired, running>>
  BY DEF WriteRow, deployment
<1>3. /\ Position(version) \in {0, 2, 9} /\ Position(target) \in {0, 2, 9}
      /\ version \in {"none", "initial", "split"}
      /\ columns[t] \in Column /\ Seen(t) = columns[t]
      /\ AssetsAt(columns[Assets], Position(version)) /\ JobsAt(columns[Jobs], Position(version))
  BY <1>1, <1>2, PositionsAre DEF MigrationTypeOK, Revisions, SchemaOK, Seen
<1>4. CASE v \in columns[t].check /\ Length[v] =< columns[t].width
  <2> DEFINE d == [columns[t] EXCEPT !.rows = @ \cup {v}]
  <2>1. columns' = [columns EXCEPT ![t] = d] /\ refused' = refused
    BY <1>4 DEF WriteRow
  <2>2. d \in Column
    BY <1>3, <1>4, RowsStay
  <2>3. d.rows = columns[t].rows \cup {v}
    BY <1>3 DEF Column
  <2> HIDE DEF d
  <2>4. columns \in [Tables -> Column]
    BY <1>1 DEF MigrationTypeOK
  <2>5. /\ columns' \in [Tables -> Column] /\ columns'[t] = d
        /\ \A u \in Tables : u # t => columns'[u] = columns[u]
    BY <2>1, <2>2, <2>4
  <2>6. \A n \in Position(version) .. 9 :
           /\ t = Assets /\ AssetsAt(columns[t], n) => AssetsAt(d, n)
           /\ t = Jobs /\ JobsAt(columns[t], n) => JobsAt(d, n)
    BY <1>3, <1>4, RowsStay DEF d
  <2>7. Seen(t)' = d /\ \A u \in Tables : u # t => Seen(u)' = Seen(u)
    BY <1>2, <2>5 DEF Seen
  <2>8. MigrationTypeOK'
    BY <1>1, <1>2, <2>1, <2>5 DEF MigrationTypeOK
  <2>9. SchemaOK'
    <3>1. Position(version) \in Position(version) .. 9
      BY <1>3
    <3>2. CASE t = Assets
      BY <1>2, <1>3, <2>5, <2>6, <3>1, <3>2, KnownAre DEF SchemaOK
    <3>3. CASE t = Jobs
      BY <1>2, <1>3, <2>5, <2>6, <3>1, <3>3, KnownAre DEF SchemaOK
    <3> QED
      BY <3>2, <3>3, KnownAre
  <2>10. TransactionOK'
    <3>1. CASE ~migration.open
      BY <1>1, <1>2, <3>1 DEF TransactionOK
    <3>2. CASE migration.open
      <4>1. Reached \in Position(version) .. 9
        BY <1>1, <1>3, <3>2 DEF TransactionOK
      <4>2. Reached' = Reached
        BY <1>2 DEF Reached
      <4>3. AssetsAt(Seen(Assets), Reached) /\ JobsAt(Seen(Jobs), Reached)
        BY <1>1, <3>2 DEF TransactionOK
      <4>4. /\ AssetsAt(Seen(Assets), Reached)' /\ JobsAt(Seen(Jobs), Reached)'
            /\ Seen(Assets)'.rows = columns'[Assets].rows
        <5>1. CASE t = Assets
          <6>1. Seen(Assets)' = d /\ Seen(Jobs)' = Seen(Jobs) /\ columns'[Assets] = d
            BY <2>5, <2>7, <5>1, KnownAre
          <6>2. AssetsAt(d, Reached)
            BY <1>3, <2>6, <4>1, <4>3, <5>1
          <6> QED
            BY <4>2, <4>3, <6>1, <6>2, Zenon
        <5>2. CASE t = Jobs
          <6>1. Seen(Jobs)' = d /\ Seen(Assets)' = Seen(Assets) /\ columns'[Assets] = columns[Assets]
            BY <2>5, <2>7, <5>2, KnownAre
          <6>2. JobsAt(d, Reached)
            BY <1>3, <2>6, <4>1, <4>3, <5>2
          <6>3. Seen(Assets).rows = columns[Assets].rows
            BY <1>1, <3>2 DEF TransactionOK
          <6> QED
            BY <4>2, <4>3, <6>1, <6>2, <6>3, Zenon
        <5> QED
          BY <5>1, <5>2, KnownAre
      <4>5. \A u \in Tables : Seen(u)' \in Column
        BY <1>1, <2>2, <2>7, <3>2 DEF TransactionOK
      <4> QED
        BY <1>1, <1>2, <3>2, <4>2, <4>4, <4>5 DEF TransactionOK
    <3> QED
      BY <1>1, <3>1, <3>2 DEF MigrationTypeOK
  <2>11. NewAssets' => NewAssets \/ r = "split"
    <3>1. r = "initial" /\ t = Assets => v = "thumbnail"
      BY <1>2, KnownAre
    <3>2. t # Assets => columns'[Assets] = columns[Assets]
      BY <2>5, KnownAre
    <3> QED
      BY <2>3, <2>5, <3>1, <3>2 DEF NewAssets, Revisions
  <2>12. DeployOK'
    BY <1>1, <1>2, <2>1, <2>11 DEF DeployOK
  <2> QED
    BY <2>8, <2>9, <2>10, <2>12 DEF MigrationInv
<1>5. CASE ~(v \in columns[t].check /\ Length[v] =< columns[t].width)
  <2>1. columns' = columns /\ refused' = refused \cup {r}
    BY <1>5 DEF WriteRow
  <2>2. r # "split"
    <3> SUFFICES ASSUME r = "split" PROVE FALSE
      OBVIOUS
    <3>1. Position(version) = 9
      BY <1>1, <1>2, PositionsAre DEF DeployOK, Services
    <3>2. AssetsAt(columns[Assets], 9) /\ JobsAt(columns[Jobs], 9)
      BY <1>3, <3>1
    <3>3. CASE t = Assets
      <4>1. columns[t].check = Known["split"].generated_assets /\ columns[t].width = 13
        BY <3>2, <3>3 DEF AssetsAt
      <4>2. v \in {"thumbnail", "preview_1080p", "preview_720p", "preview_480p"}
        BY <1>2, <3>3, KnownAre DEF Revisions
      <4> QED
        BY <1>5, <4>1, <4>2, KnownAre, LengthsAre
    <3>4. CASE t = Jobs
      <4>1. columns[t].check = Known["split"].processing_jobs /\ columns[t].width = 9
        BY <3>2, <3>4 DEF JobsAt
      <4>2. v \in {"metadata", "thumbnail", "transcode"}
        BY <1>2, <3>4, KnownAre DEF Revisions
      <4> QED
        BY <1>5, <4>1, <4>2, KnownAre, LengthsAre
    <3> QED
      BY <3>3, <3>4, KnownAre
  <2>3. MigrationTypeOK' /\ SchemaOK' /\ DeployOK'
    BY <1>1, <1>2, <2>1, <2>2 DEF MigrationTypeOK, SchemaOK, DeployOK, NewAssets
  <2>4. TransactionOK'
    <3>1. Reached' = Reached /\ \A u \in Tables : Seen(u)' = Seen(u)
      BY <1>2, <2>1 DEF Seen, Reached
    <3>2. Seen(Assets)' = Seen(Assets) /\ Seen(Jobs)' = Seen(Jobs)
      BY <3>1, KnownAre
    <3> QED
      BY <1>1, <1>2, <2>1, <3>1, <3>2 DEF TransactionOK
  <2> QED
    BY <2>3, <2>4 DEF MigrationInv
<1> QED
  BY <1>4, <1>5

\* MigrationInv is inductive.
LEMMA MigrationKeeps == MigrationInv /\ [MigrationNext]_migrationVars => MigrationInv'
<1> SUFFICES ASSUME MigrationInv, [MigrationNext]_migrationVars PROVE MigrationInv'
  OBVIOUS
<1>1. CASE UNCHANGED migrationVars
  <2>1. MigrationTypeOK /\ SchemaOK /\ TransactionOK /\ DeployOK
    BY DEF MigrationInv
  <2>2. UNCHANGED <<version, columns, migration, stage, target, desired, running, refused>>
    BY <1>1 DEF migrationVars, database, deployment
  <2>3. DeployOK'
    BY <2>1, <2>2 DEF DeployOK, NewAssets
  <2> QED
    BY <2>1, <2>2, <2>3, DeploymentKeeps DEF MigrationTypeOK
<1>2. CASE BeginMigration
  BY <1>2, BeginKeeps
<1>3. CASE Step
  BY <1>3, StepKeeps
<1>4. CASE CommitMigration
  BY <1>4, CommitKeeps
<1>5. CASE MigrationFails
  BY <1>5, FailKeeps
<1>6. CASE \/ \E r \in Revisions : Push(r)
           \/ UpdateApi \/ UpdateWorker \/ DeployFails \/ RerunDeploy \/ EndDeployment
  BY <1>6, PipelineKeeps
<1>7. ASSUME NEW svc \in Services,
             \/ TaskStarts(svc)
             \/ \E r \in Revisions : OldTaskStops(svc, r) \/ TaskDies(svc, r)
      PROVE  MigrationInv'
  BY <1>7, TasksKeep
<1>8. ASSUME NEW r \in Revisions, NEW t \in Tables, NEW v \in Values, WriteRow(r, t, v)
      PROVE  MigrationInv'
  BY <1>8, WriteKeeps
<1> QED
  BY <1>1, <1>2, <1>3, <1>4, <1>5, <1>6, <1>7, <1>8 DEF MigrationNext

\* It holds in every state.
LEMMA MigrationInvariant == MigrationSpec => []MigrationInv
<1>1. MigrationInit => MigrationInv
  BY MigrationInitially
<1>2. MigrationInv /\ [MigrationNext]_migrationVars => MigrationInv'
  BY MigrationKeeps
<1> QED
  BY <1>1, <1>2, PTL DEF MigrationSpec

\* Whenever a migration or a task stops, what is committed is a schema some version of
\* the code was written for, with rows that satisfy it (env.py's one transaction).
THEOREM SchemaStaysWhole == MigrationSpec => []SchemaIsWhole
<1>1. MigrationInv => SchemaIsWhole
  <2> SUFFICES ASSUME MigrationInv PROVE SchemaIsWhole
    OBVIOUS
  <2>1. /\ version \in {"none", "initial", "split"}
        /\ AssetsAt(columns[Assets], Position(version))
        /\ JobsAt(columns[Jobs], Position(version))
    BY DEF MigrationInv, MigrationTypeOK, SchemaOK, Revisions
  <2>2. CASE version = "none"
    <3>1. AssetsAt(columns[Assets], 0) /\ JobsAt(columns[Jobs], 0)
      BY <2>1, <2>2, PositionsAre
    <3>2. columns[Assets] = NoTable /\ columns[Jobs] = NoTable
      BY <3>1 DEF AssetsAt, JobsAt
    <3> QED
      BY <2>2, <3>2, KnownAre DEF SchemaIsWhole
  <2>3. CASE version = "initial"
    <3>1. AssetsAt(columns[Assets], 2) /\ JobsAt(columns[Jobs], 2)
      BY <2>1, <2>3, PositionsAre
    <3>2. /\ columns[Assets].check = {"thumbnail"} /\ columns[Assets].width = 9
          /\ columns[Assets].rows \subseteq {"thumbnail"}
          /\ columns[Jobs].check = {"metadata_and_thumbnail"} /\ columns[Jobs].width = 22
          /\ columns[Jobs].rows \subseteq {"metadata_and_thumbnail"}
      BY <3>1, KnownAre DEF AssetsAt, JobsAt
    <3>3. /\ Known[version][Assets] = Known["initial"].generated_assets
          /\ Known[version][Jobs] = Known["initial"].processing_jobs
      BY <2>3, KnownAre DEF Revisions
    <3>4. /\ \A v \in Known["initial"].generated_assets : Length[v] =< columns[Assets].width
          /\ \A v \in Known["initial"].processing_jobs : Length[v] =< columns[Jobs].width
      BY <3>2, KnownAre, LengthsAre
    <3> QED
      BY <2>3, <3>2, <3>3, <3>4, KnownAre DEF SchemaIsWhole
  <2>4. CASE version = "split"
    <3>1. AssetsAt(columns[Assets], 9) /\ JobsAt(columns[Jobs], 9)
      BY <2>1, <2>4, PositionsAre
    <3>2. /\ columns[Assets].check = Known["split"].generated_assets
          /\ columns[Assets].width = 13 /\ columns[Assets].rows \subseteq columns[Assets].check
          /\ columns[Jobs].check = Known["split"].processing_jobs
          /\ columns[Jobs].width = 9 /\ columns[Jobs].rows \subseteq columns[Jobs].check
      BY <3>1 DEF AssetsAt, JobsAt
    <3>3. /\ Known[version][Assets] = Known["split"].generated_assets
          /\ Known[version][Jobs] = Known["split"].processing_jobs
      BY <2>4, KnownAre DEF Revisions
    <3>4. /\ \A v \in Known["split"].generated_assets : Length[v] =< columns[Assets].width
          /\ \A v \in Known["split"].processing_jobs : Length[v] =< columns[Jobs].width
      BY <3>2, KnownAre, LengthsAre
    <3> QED
      BY <2>4, <3>2, <3>3, <3>4, KnownAre DEF SchemaIsWhole
  <2> QED
    BY <2>1, <2>2, <2>3, <2>4
<1> QED
  BY <1>1, MigrationInvariant, PTL

\* The split upgrade is never stopped by rows of the platform: they are renamed between
\* the constraints and fit the narrower column, whichever a running worker has added.
THEOREM UpgradesGoThrough == MigrationSpec => []UpgradeGoesThrough
<1>1. MigrationInv => UpgradeGoesThrough
  BY NextOperation DEF UpgradeGoesThrough
<1> QED
  BY <1>1, MigrationInvariant, PTL

\* The worker of the split revision comes after its migration, so the database takes
\* every row it writes (deploy.yml: deploy needs migrate).
THEOREM NewCodeIsAccepted == MigrationSpec => []NewCodeIsNotRefused
<1>1. MigrationInv => NewCodeIsNotRefused
  BY DEF MigrationInv, DeployOK, NewCodeIsNotRefused
<1> QED
  BY <1>1, MigrationInvariant, PTL

\* The last API task of the old revision is gone before the first preview is recorded,
\* so no request meets an asset type its code cannot read (deploy.yml's order of the two
\* services).
THEOREM ApiReadsWhatIsWritten == MigrationSpec => []ApiKnowsAssets
<1>1. MigrationInv => ApiKnowsAssets
  <2> SUFFICES ASSUME MigrationInv, NEW r \in running["api"]
               PROVE  columns["generated_assets"].rows \subseteq Known[r].generated_assets
    BY DEF ApiKnowsAssets
  <2>1. MigrationTypeOK /\ SchemaOK /\ DeployOK
    BY DEF MigrationInv
  <2>2. r \in Revisions
    BY <2>1 DEF MigrationTypeOK, Services
  <2>3. CASE NewAssets
    <3>1. r = "split" /\ version = "split"
      BY <2>1, <2>2, <2>3 DEF DeployOK, Services, Revisions
    <3>2. AssetsAt(columns[Assets], 9)
      BY <2>1, <3>1, PositionsAre DEF SchemaOK
    <3> QED
      BY <3>1, <3>2, KnownAre DEF AssetsAt
  <2>4. CASE ~NewAssets
    BY <2>2, <2>4, KnownAre DEF NewAssets, Revisions
  <2> QED
    BY <2>3, <2>4
<1> QED
  BY <1>1, MigrationInvariant, PTL
===============================================================================

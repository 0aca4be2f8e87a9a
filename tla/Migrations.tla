------------------------------- MODULE Migrations -------------------------------
(***************************************************************************)
(* The schema migrations (migrations/env.py, migrations/versions) and the  *)
(* pipeline that runs them and then replaces the tasks of both services    *)
(* (.github/workflows/deploy.yml, infra/services_stack.py), while the      *)
(* tasks of the revision before go on writing rows.                        *)
(*                                                                         *)
(* Of the schema it has the two columns the migrations change: their CHECK *)
(* constraint, their width and the values in their rows.  The code before  *)
(* the split of the job types is known by the schema it was written for.   *)
(* A task may fail to start for ever: the worker's command names a module  *)
(* this commit no longer has (ARCHITECTURE.md, Known gap).                 *)
(***************************************************************************)
EXTENDS Naturals, Sequences

\* "initial" is 6765fb435cbe, "split" is 530ddff684ef.
Revisions == {"initial", "split"}

Services == {"api", "worker"}

Tables == {"generated_assets", "processing_jobs"}

\* The members of AssetType and JobType as each revision knows them.
Known ==
    [initial |-> [generated_assets |-> {"thumbnail"},
                  processing_jobs  |-> {"metadata_and_thumbnail"}],
     split   |-> [generated_assets |-> {"thumbnail", "preview_1080p", "preview_720p",
                                        "preview_480p"},
                  processing_jobs  |-> {"metadata", "thumbnail", "transcode"}]]

Values == UNION {Known[r][t] : r \in Revisions, t \in Tables}

Length == [v \in Values |->
    CASE v = "metadata" -> 8           [] v \in {"thumbnail", "transcode"} -> 9
      [] v = "preview_1080p" -> 13     [] v \in {"preview_720p", "preview_480p"} -> 12
      [] v = "metadata_and_thumbnail" -> 22]

VARIABLES
    version,    \* alembic_version, "none" before the first migration
    columns,    \* of each table: its column's check, width and values
    migration,  \* the open transaction of the migration task
    stage,      \* how far the running deployment has got
    target,     \* the revision being deployed
    desired,    \* the revision in each service's task definition
    running,    \* the revisions each service has healthy tasks of
    refused     \* the revisions that had a row of theirs rejected

database == <<version, columns>>
deployment == <<stage, target, desired>>
migrationVars == <<database, migration, deployment, running, refused>>

\* A table without its CHECK takes every value.
NoCheck == Values

NoTable == [check |-> {}, width |-> 0, rows |-> {}]

\* The operations of the scripts.
CreateTable(t, w, values) == [op |-> "create", table |-> t, width |-> w, check |-> values]
DropCheck(t)      == [op |-> "drop", table |-> t]
AlterWidth(t, w)  == [op |-> "alter", table |-> t, width |-> w]
AddCheck(t, values) == [op |-> "check", table |-> t, check |-> values]
RenameRows        == [op |-> "rename", table |-> "processing_jobs"]

UpgradeInitial == <<
    CreateTable("generated_assets", 9, {"thumbnail"}),
    CreateTable("processing_jobs", 22, {"metadata_and_thumbnail"}) >>

\* Mutant of UpgradeSplit: what autogenerate proposed, the old constraint is left.
UpgradeSplitKeepingCheck == <<
    AlterWidth("generated_assets", 13),
    AddCheck("generated_assets", Known["split"].generated_assets),
    DropCheck("processing_jobs"), RenameRows, AlterWidth("processing_jobs", 9),
    AddCheck("processing_jobs", Known["split"].processing_jobs) >>

UpgradeSplit == <<
    DropCheck("generated_assets"),
    AlterWidth("generated_assets", 13),
    AddCheck("generated_assets", {"thumbnail", "preview_1080p", "preview_720p", "preview_480p"}),
    DropCheck("processing_jobs"),
    RenameRows,
    AlterWidth("processing_jobs", 9),
    AddCheck("processing_jobs", {"metadata", "thumbnail", "transcode"}) >>

\* `alembic upgrade head` in the image of revision r: what is left to run.
Scripts(r) ==
    (IF version = "none" THEN UpgradeInitial ELSE <<>>)
    \o (IF r = "split" /\ version # "split" THEN UpgradeSplit ELSE <<>>)

-------------------------------------------------------------------------------
Closed == [open |-> FALSE, todo |-> <<>>, draft |-> <<>>]

\* The table as the transaction sees it: its own version of what it has touched.
Seen(t) == IF t \in DOMAIN migration.draft THEN migration.draft[t] ELSE columns[t]

\* The operation is rejected by the database.
Rejected(o) ==
    LET c == Seen(o.table) IN
    CASE o.op = "create" -> c # NoTable
      [] o.op = "drop"   -> c.check = NoCheck
      [] o.op = "alter"  -> \E v \in c.rows : Length[v] > o.width
      [] o.op = "check"  -> c.check # NoCheck \/ ~(c.rows \subseteq o.check)
      [] o.op = "rename" -> "metadata_and_thumbnail" \in c.rows /\ "metadata" \notin c.check

Applied(o) ==
    LET c == Seen(o.table) IN
    CASE o.op = "create" -> [check |-> o.check, width |-> o.width, rows |-> {}]
      [] o.op = "drop"   -> [c EXCEPT !.check = NoCheck]
      [] o.op = "alter"  -> [c EXCEPT !.width = o.width]
      [] o.op = "check"  -> [c EXCEPT !.check = o.check]
      [] o.op = "rename" -> [c EXCEPT !.rows =
            {IF v = "metadata_and_thumbnail" THEN "metadata" ELSE v : v \in @}]

\* The migration task starts.  An image that does not know the database's version
\* cannot find its script, and fails.
BeginMigration ==
    /\ stage = "migrate"
    /\ ~migration.open
    /\ version = "split" => target = "split"
    /\ migration' = [Closed EXCEPT !.open = TRUE, !.todo = Scripts(target)]
    /\ UNCHANGED <<database, deployment, running, refused>>

\* Mutant of Step: every operation is committed by itself.
StepAutocommit ==
    /\ migration.open
    /\ migration.todo # <<>>
    /\ ~Rejected(Head(migration.todo))
    /\ columns' = [columns EXCEPT ![Head(migration.todo).table] = Applied(Head(migration.todo))]
    /\ migration' = [migration EXCEPT !.todo = Tail(@)]
    /\ UNCHANGED <<version, deployment, running, refused>>

\* The first operation on a table locks it until the transaction ends.
Step ==
    LET o == Head(migration.todo) IN
    /\ migration.open
    /\ migration.todo # <<>>
    /\ ~Rejected(o)
    /\ migration' = [migration EXCEPT !.todo = Tail(@),
          !.draft = [t \in DOMAIN @ \cup {o.table} |-> IF t = o.table THEN Applied(o) ELSE @[t]]]
    /\ UNCHANGED <<database, deployment, running, refused>>

\* One transaction for all scripts and their version; the task exits with 0.
CommitMigration ==
    /\ migration.open
    /\ migration.todo = <<>>
    /\ version' = IF target = "initial" /\ version # "none" THEN version ELSE target
    /\ columns' = [t \in Tables |-> Seen(t)]
    /\ migration' = Closed
    /\ stage' = "api"
    /\ UNCHANGED <<target, desired, running, refused>>

\* An operation is rejected, the image does not know the version, or the task dies:
\* nothing is committed and the pipeline stops.
MigrationFails ==
    /\ stage = "migrate"
    /\ migration' = Closed
    /\ stage' = "idle"
    /\ UNCHANGED <<database, target, desired, running, refused>>

-------------------------------------------------------------------------------
\* A push to main, or a run started again as a whole.  Deployments wait for each other
\* (concurrency group), so the image tagged latest is the one being deployed.
Push(r) ==
    /\ stage \in {"idle", "failed"}
    /\ stage' = "migrate"
    /\ target' = r
    /\ UNCHANGED <<database, migration, desired, running, refused>>

Stable(svc) == running[svc] = {desired[svc]}

\* Mutant of UpdateApi: the deploy job does not need the migrate job.
UpdateApiUnmigrated ==
    /\ stage \in {"migrate", "api"}
    /\ desired' = [desired EXCEPT !["api"] = target]
    /\ stage' = "api rollout"
    /\ migration' = Closed
    /\ UNCHANGED <<database, target, running, refused>>

\* Each service gets its new task definition once the step before is done.
UpdateApi ==
    /\ stage = "api"
    /\ desired' = [desired EXCEPT !["api"] = target]
    /\ stage' = "api rollout"
    /\ UNCHANGED <<database, migration, target, running, refused>>

\* Mutant of UpdateWorker: the API's rollout is not waited for.
UpdateWorkerEarly ==
    /\ stage = "api rollout"
    /\ desired' = [desired EXCEPT !["worker"] = target]
    /\ stage' = "worker rollout"
    /\ UNCHANGED <<database, migration, target, running, refused>>

UpdateWorker ==
    /\ stage = "api rollout"
    /\ Stable("api")
    /\ desired' = [desired EXCEPT !["worker"] = target]
    /\ stage' = "worker rollout"
    /\ UNCHANGED <<database, migration, target, running, refused>>

\* The deploy job fails: a rollout was waited for in vain, or the smoke test fails.
DeployFails ==
    /\ stage \in {"api", "api rollout", "worker rollout"}
    /\ stage' = "failed"
    /\ UNCHANGED <<database, migration, target, desired, running, refused>>

\* "Re-run failed jobs" of the latest run: its migration has passed and is not repeated.
\* The same of an older run, after a later one, is left out: it would put that run's
\* image on whatever schema there is by then.
RerunDeploy ==
    /\ stage = "failed"
    /\ stage' = "api"
    /\ UNCHANGED <<database, migration, target, desired, running, refused>>

\* The worker's rollout is waited for as well, and the smoke test passes.
EndDeployment ==
    /\ stage = "worker rollout"
    /\ Stable("worker")
    /\ stage' = "idle"
    /\ UNCHANGED <<database, migration, target, desired, running, refused>>

\* ECS: a task of the current definition is healthy.  /health/ready asks for a
\* connection, never for the schema.
TaskStarts(svc) ==
    /\ desired[svc] \in Revisions
    /\ running' = [running EXCEPT ![svc] = @ \cup {desired[svc]}]
    /\ UNCHANGED <<database, migration, deployment, refused>>

\* min_healthy_percent=100 of one task: an old one stops beside a healthy new one.
OldTaskStops(svc, r) ==
    /\ {r, desired[svc]} \subseteq running[svc]
    /\ r # desired[svc]
    /\ running' = [running EXCEPT ![svc] = @ \ {r}]
    /\ UNCHANGED <<database, migration, deployment, refused>>

TaskDies(svc, r) ==
    /\ r \in running[svc]
    /\ running' = [running EXCEPT ![svc] = @ \ {r}]
    /\ UNCHANGED <<database, migration, deployment, refused>>

\* A worker task writes a row of a type it knows; a locked table makes it wait.
WriteRow(r, t, v) ==
    /\ r \in running["worker"]
    /\ v \in Known[r][t]
    /\ t \notin DOMAIN migration.draft
    /\ IF v \in columns[t].check /\ Length[v] =< columns[t].width
       THEN /\ columns' = [columns EXCEPT ![t].rows = @ \cup {v}]
            /\ UNCHANGED refused
       ELSE /\ refused' = refused \cup {r}
            /\ UNCHANGED columns
    /\ UNCHANGED <<version, migration, deployment, running>>

-------------------------------------------------------------------------------
\* The first run of the pipeline finds both services created, waiting for an image under
\* the tag latest.  What they start between its build and its own deployment is left
\* out: before the migration no video, and so no row, can be written.
MigrationInit ==
    /\ version = "none"
    /\ columns = [t \in Tables |-> NoTable]
    /\ migration = Closed
    /\ stage = "idle"
    /\ target = "initial"
    /\ desired = [svc \in Services |-> "none"]
    /\ running = [svc \in Services |-> {}]
    /\ refused = {}

MigrationNext ==
    \/ BeginMigration \/ Step \/ CommitMigration \/ MigrationFails
    \/ \E r \in Revisions : Push(r)
    \/ UpdateApi \/ UpdateWorker \/ DeployFails \/ RerunDeploy \/ EndDeployment
    \/ \E svc \in Services :
          \/ TaskStarts(svc)
          \/ \E r \in Revisions : OldTaskStops(svc, r) \/ TaskDies(svc, r)
    \/ \E r \in Revisions, t \in Tables, v \in Values : WriteRow(r, t, v)

MigrationSpec == MigrationInit /\ [][MigrationNext]_migrationVars

-------------------------------------------------------------------------------
\* What is committed is the schema of its version, whenever a task dies: the checks,
\* the widths, and rows that satisfy them.
SchemaIsWhole ==
    \A t \in Tables :
        IF version = "none"
        THEN columns[t] = NoTable
        ELSE /\ columns[t].rows \subseteq columns[t].check
             /\ columns[t].check = Known[version][t]
             /\ \A v \in columns[t].check : Length[v] =< columns[t].width

\* No upgrade stops half way on rows the platform has written, whichever were written
\* while it ran.
UpgradeGoesThrough ==
    migration.open /\ migration.todo # <<>> => ~Rejected(Head(migration.todo))

\* The code of a deployed revision is never started on a schema older than its own, so
\* it has no row rejected.
NewCodeIsNotRefused == "split" \notin refused

\* An API task knows every asset type in the rows it reads: the worker that writes new
\* ones comes after the API has been replaced.
ApiKnowsAssets ==
    \A r \in running["api"] : columns["generated_assets"].rows \subseteq Known[r].generated_assets
===============================================================================

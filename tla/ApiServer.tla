------------------------------- MODULE ApiServer -------------------------------
(***************************************************************************)
(* The API process (api/main.py, api/routes, api/services): requests about *)
(* one video, served side by side on the event loop, each with a session   *)
(* of its own on one connection pool.  The rows they read are moved        *)
(* meanwhile by the worker side, which is that of VideoLifecycle.          *)
(*                                                                         *)
(* Every statement, commit, signature and SQS call of a handler is a step. *)
(* Bodies are reduced to what is shown of the results.                     *)
(***************************************************************************)
EXTENDS VideoLifecycle, ConnectionPool

CONSTANT Requests   \* requests the process may be serving at once

\* Every request has a session of its own (get_db_session).
ASSUME RequestsAssumption == IsFiniteSet(Requests) /\ Requests \subseteq Sessions

VARIABLES
    request,    \* each request's handler
    told        \* the results that answers have shown so far

api == <<request, told, holding>>
apiServerVars == <<lifecycle, api>>

Kinds == {"live", "malformed", "ready", "create", "get", "retry"}

\* sign     create: about to sign the upload URL
\* open     about to wait for a connection
\* query    about to run its first statement
\* assets   get: has read the video, about to read the assets
\* links    get: about to sign the download links
\* send     retry: has found the video failed, about to publish
\* commit   retry: about to commit the status
\* close    answered, its session is still open
Phases == {"idle", "sign", "open", "query", "assets", "links", "send", "commit", "close"}

\* before is what answers had shown when the request came in.
Handler == [kind : Kinds, pc : Phases, code : {0, 200, 201, 404, 409, 422, 500, 503},
            status : {"absent", "pending_upload", "processing", "completed", "failed"},
            shown : SUBSET JobTypes, before : SUBSET JobTypes]

NoHandler == [kind |-> "live", pc |-> "idle", code |-> 0, status |-> "absent",
              shown |-> {}, before |-> {}]

-------------------------------------------------------------------------------
At(r, pc) == request[r].pc = pc

Goto(r, pc) == request' = [request EXCEPT ![r].pc = pc]

Answer(r, code) == request' = [request EXCEPT ![r].pc = "close", ![r].code = code]

\* A request comes in.  /health/live and a body or ID that fails validation are
\* answered without the database.
Arrive(r, k) ==
    /\ At(r, "idle")
    /\ request' = [request EXCEPT ![r] =
          [NoHandler EXCEPT !.kind = k, !.before = told,
             !.code = CASE k = "live" -> 200 [] k = "malformed" -> 422 [] OTHER -> 0,
             !.pc = CASE k \in {"live", "malformed"} -> "close"
                      [] k = "create" -> "sign"
                      [] OTHER -> "open"]]
    /\ UNCHANGED <<lifecycle, told, holding>>

\* create_video signs before it touches the database.
SignUpload(r) ==
    /\ At(r, "sign")
    /\ Goto(r, "open") \/ Answer(r, 500)
    /\ UNCHANGED <<lifecycle, told, holding>>

Connect(r) ==
    /\ At(r, "open")
    /\ CheckOut(r)
    /\ Goto(r, "query")
    /\ UNCHANGED <<lifecycle, told>>


\* handle_pool_timeout; /health/ready catches the same exception itself, as if the
\* database could not be reached.
Overload(r) ==
    /\ At(r, "open")
    /\ PoolTimeout(r)
    /\ Answer(r, 503)
    /\ UNCHANGED <<lifecycle, told>>

Ping(r) ==
    /\ At(r, "query")
    /\ request[r].kind = "ready"
    /\ Answer(r, 200)
    /\ UNCHANGED <<lifecycle, told, holding>>

\* Every create makes a video; the one followed here is the first.
CommitVideo(r) ==
    /\ At(r, "query")
    /\ request[r].kind = "create"
    /\ Create \/ (status # "absent" /\ UNCHANGED lifecycle)
    /\ Answer(r, 201)
    /\ Return(r)
    /\ UNCHANGED told

\* get_video and the metadata of the answer, shown if all its columns are set.
ReadVideo(r) ==
    /\ At(r, "query")
    /\ request[r].kind = "get"
    /\ IF status = "absent"
       THEN Answer(r, 404)
       ELSE request' = [request EXCEPT ![r].pc = "assets", ![r].status = status,
                            ![r].shown = finished \cap {"metadata"}]
    /\ UNCHANGED <<lifecycle, told, holding>>

\* Mutant of ReadAssets: the status is refreshed, the metadata is not.
ReadAssetsRefreshed(r) ==
    /\ At(r, "assets")
    /\ request' = [request EXCEPT ![r].pc = "links", ![r].status = status,
                        ![r].shown = @ \cup (finished \ {"metadata"})]
    /\ UNCHANGED <<lifecycle, told, holding>>

\* get_asset_downloads: by now the worker may have got further than the status read.
ReadAssets(r) ==
    /\ At(r, "assets")
    /\ request' = [request EXCEPT ![r].pc = "links",
                        ![r].shown = @ \cup (finished \ {"metadata"})]
    /\ UNCHANGED <<lifecycle, told, holding>>

\* The links are signed inside the transaction the reads began.
SignLinks(r) ==
    /\ At(r, "links")
    /\ \/ /\ Answer(r, 200)
          /\ told' = told \cup request[r].shown
       \/ /\ Answer(r, 500)
          /\ UNCHANGED told
    /\ UNCHANGED <<lifecycle, holding>>

ReadForRetry(r) ==
    /\ At(r, "query")
    /\ request[r].kind = "retry"
    /\ \/ status = "absent" /\ Answer(r, 404)
       \/ status \notin {"absent", "failed"} /\ Answer(r, 409)
       \/ status = "failed" /\ Goto(r, "send")
    /\ UNCHANGED <<lifecycle, told, holding>>

\* send_message, with the connection still held.
Publish(r) ==
    /\ At(r, "send")
    /\ Goto(r, "commit") \/ Answer(r, 500)
    /\ UNCHANGED <<lifecycle, told, holding>>

\* Mutant of CommitRetry: the results are dropped to be made again.
CommitRetryFromScratch(r) ==
    /\ At(r, "commit")
    /\ status' = "processing"
    /\ finished' = {}
    /\ UNCHANGED execution
    /\ Answer(r, 200)
    /\ Return(r)
    /\ UNCHANGED told

CommitRetry(r) ==
    /\ At(r, "commit")
    /\ Retry
    /\ Answer(r, 200)
    /\ Return(r)
    /\ UNCHANGED told

\* A statement or commit fails; a commit may have been applied all the same.
DatabaseFails(r) ==
    /\ request[r].pc \in {"query", "assets", "commit"}
    /\ Answer(r, IF request[r].kind = "ready" THEN 503 ELSE 500)
    /\ \/ UNCHANGED lifecycle
       \/ At(r, "query") /\ request[r].kind = "create" /\ Create
       \/ At(r, "commit") /\ Retry
    /\ UNCHANGED <<told, holding>>

\* Mutant of CloseSession: the session is closed on the way of success only.
CloseSessionOnSuccess(r) ==
    /\ At(r, "close")
    /\ request' = [request EXCEPT ![r] = NoHandler]
    /\ IF request[r].code = 500 THEN UNCHANGED holding ELSE Return(r)
    /\ UNCHANGED <<lifecycle, told>>

\* get_db_session is left, whatever the outcome.
CloseSession(r) ==
    /\ At(r, "close")
    /\ request' = [request EXCEPT ![r] = NoHandler]
    /\ Return(r)
    /\ UNCHANGED <<lifecycle, told>>

-------------------------------------------------------------------------------
Serve(r) ==
    \/ SignUpload(r) \/ Connect(r)    \/ Overload(r)     \/ Ping(r)
    \/ CommitVideo(r) \/ ReadVideo(r) \/ ReadAssets(r)   \/ SignLinks(r)
    \/ ReadForRetry(r) \/ Publish(r)  \/ CommitRetry(r)  \/ DatabaseFails(r)
    \/ CloseSession(r)

ApiInit ==
    /\ LifecycleInit
    /\ status = "absent"
    /\ PoolInit
    /\ request = [r \in Requests |-> NoHandler]
    /\ told = {}

ApiNext ==
    \/ \E r \in Requests :
          \/ Serve(r)
          \/ \E k \in Kinds : Arrive(r, k)
    \/ /\ status # "absent"
       /\ Start \/ WorkerNext
       /\ UNCHANGED api

\* The event loop runs every handler on, and a wait for a connection is limited.
ApiSpec ==
    /\ ApiInit
    /\ [][ApiNext]_apiServerVars
    /\ \A r \in Requests : WF_apiServerVars(Serve(r))

-------------------------------------------------------------------------------
Answered(r, code) == At(r, "close") /\ request[r].code = code

\* Every variable keeps its type, and the pool stays within its size.
ApiTypeOK ==
    /\ status \in {"absent", "pending_upload", "processing", "completed", "failed"}
    /\ finished \in SUBSET JobTypes
    /\ execution \in {"none", "running", "completed", "failed"}
    /\ request \in [Requests -> Handler]
    /\ told \in SUBSET JobTypes
    /\ WithinCapacity

\* An answer that reads "completed" shows the metadata and every asset, though the two
\* queries of get_video see different moments: a client stops polling at that answer.
CompletedAnswerIsWhole ==
    \A r \in Requests :
        Answered(r, 200) /\ request[r].kind = "get" /\ request[r].status = "completed"
        => request[r].shown = JobTypes

\* No client is shown less than what any answer showed before it asked, whatever
\* failed or was retried in between.
AnswersOnlyGrow ==
    \A r \in Requests :
        Answered(r, 200) /\ request[r].kind = "get" => request[r].before \subseteq request[r].shown

\* "a capacity limit, not a bug": a request is turned away only while others, still
\* being served, use every connection, so no error path leaks one.
OverloadMeansLoad ==
    [][\A r \in Requests : At(r, "open") /\ request'[r].code = 503 =>
          Capacity =< Cardinality({q \in Requests \ {r} : ~At(q, "idle")})]_apiServerVars

===============================================================================

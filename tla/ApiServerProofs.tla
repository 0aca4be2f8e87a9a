---------------------------- MODULE ApiServerProofs ----------------------------
(***************************************************************************)
(* Theorems about ApiServer, for any requests and any size of the          *)
(* connection pool.                                                        *)
(***************************************************************************)
EXTENDS ApiServer, FiniteSetTheorems, TLAPS

\* The pool of the process, as numbers can be reasoned about.
PoolInv == WithinCapacity /\ IsFiniteSet(holding)

Statuses == {"absent", "pending_upload", "processing", "completed", "failed"}

Codes == {0, 200, 201, 404, 409, 422, 500, 503}

\* The rows of the video.
RowInv ==
    /\ status \in Statuses
    /\ finished \in SUBSET JobTypes
    /\ execution \in {"none", "running", "completed", "failed"}
    /\ CompletedIsFinished

\* What a handler has read, against the results stored (f) and told (t) by now: of
\* metadata first, of everything after its second query.
Fits(h, f, t) ==
    /\ h.before \subseteq t
    /\ h.pc \in {"sign", "open"} => h.code = 0
    /\ h.pc \in {"send", "commit"} => h.kind = "retry"
    /\ h.pc = "assets" =>
          /\ h.before \cap {"metadata"} \subseteq h.shown
          /\ h.shown \subseteq f
          /\ h.status = "completed" => /\ f = JobTypes
                                       /\ JobTypes \cap {"metadata"} \subseteq h.shown
    /\ h.pc = "links" \/ (h.pc = "close" /\ h.code = 200 /\ h.kind = "get") =>
          /\ h.before \subseteq h.shown
          /\ h.shown \subseteq f
          /\ h.status = "completed" => h.shown = JobTypes

Connected == {"query", "assets", "links", "send", "commit", "close"}

ApiInv ==
    /\ RowInv
    /\ request \in [Requests -> Handler]
    /\ told \subseteq finished
    /\ \A r \in Requests : Fits(request[r], finished, told)
    /\ PoolInv
    /\ holding \subseteq Requests
    /\ \A r \in holding : request[r].pc \in Connected

-------------------------------------------------------------------------------
\* A step of the video, under retries too, keeps what is finished and never shows it
\* completed before everything is.
LEMMA RowsMove ==
    ASSUME RowInv, [LifecycleNext \/ Retry]_lifecycle
    PROVE  RowInv' /\ finished \subseteq finished'
<1>1. CASE Create \/ Start \/ Claim \/ Fail \/ Retry \/ UNCHANGED lifecycle
  BY <1>1 DEF RowInv, Statuses, CompletedIsFinished, Create, Start, Claim, Fail, Retry,
              lifecycle
<1>2. CASE \E j \in JobTypes : Finish(j)
  BY <1>2 DEF RowInv, Statuses, CompletedIsFinished, Finish
<1>3. CASE Close
  BY <1>3 DEF RowInv, Statuses, CompletedIsFinished, Close
<1> QED
  BY <1>1, <1>2, <1>3 DEF LifecycleNext, WorkerNext

\* What a handler has read stays right while more is finished and told.
LEMMA FitsStays ==
    ASSUME NEW h, NEW f, NEW t, NEW g, NEW u, Fits(h, f, t),
           f \subseteq g, g \subseteq JobTypes, t \subseteq u
    PROVE  Fits(h, g, u)
BY DEF Fits

\* The process starts without requests.
LEMMA ApiStarts == ApiInit => ApiInv
<1> SUFFICES ASSUME ApiInit PROVE ApiInv
  OBVIOUS
<1>1. PoolInv /\ holding = {}
  <2>1. IsFiniteSet({}) /\ Cardinality({}) = 0
    BY FS_EmptySet
  <2> QED
    BY <2>1, PoolAssumption DEF ApiInit, PoolInit, PoolInv, WithinCapacity, Capacity
<1>2. RowInv
  BY DEF ApiInit, LifecycleInit, RowInv, Statuses, CompletedIsFinished
<1>3. NoHandler \in Handler /\ Fits(NoHandler, {}, {})
  BY DEF NoHandler, Handler, Kinds, Phases, Fits
<1> QED
  BY <1>1, <1>2, <1>3 DEF ApiInit, LifecycleInit, ApiInv

\* A step of one handler keeps the invariant if what it has now fits what is stored.
LEMMA OneRequestMoves ==
    ASSUME ApiInv, NEW r \in Requests, NEW h \in Handler,
           request' = [request EXCEPT ![r] = h],
           RowInv', finished \subseteq finished',
           told \subseteq told', told' \subseteq finished',
           PoolInv', holding' \subseteq holding \cup {r},
           r \in holding' => h.pc \in Connected,
           Fits(h, finished', told')
    PROVE  ApiInv'
<1>1. request' \in [Requests -> Handler]
  BY DEF ApiInv
<1>2. request'[r] = h /\ \A q \in Requests \ {r} : request'[q] = request[q]
  BY DEF ApiInv
<1>3. \A q \in Requests : Fits(request'[q], finished', told')
  <2> SUFFICES ASSUME NEW q \in Requests \ {r}
               PROVE  Fits(request'[q], finished', told')
    BY <1>2
  <2>1. Fits(request[q], finished, told) /\ finished' \subseteq JobTypes
    BY DEF ApiInv, RowInv
  <2> QED
    BY <1>2, <2>1, FitsStays
<1>4. holding' \subseteq Requests /\ \A q \in holding' : request'[q].pc \in Connected
  BY <1>2 DEF ApiInv
<1> QED
  BY <1>1, <1>3, <1>4 DEF ApiInv

\* Nobody but the handler moves: the worker side or nothing at all.
LEMMA WorkerKeepsInv ==
    ASSUME ApiInv, [LifecycleNext \/ Retry]_lifecycle, UNCHANGED api
    PROVE  ApiInv'
<1>1. RowInv' /\ finished \subseteq finished'
  BY RowsMove DEF ApiInv
<1>2. PoolInv'
  BY DEF ApiInv, api, PoolInv, WithinCapacity, Capacity
<1>3. \A r \in Requests : Fits(request'[r], finished', told')
  <2> SUFFICES ASSUME NEW r \in Requests PROVE Fits(request[r], finished', told)
    BY DEF api
  <2>1. Fits(request[r], finished, told) /\ finished' \subseteq JobTypes
    BY <1>1 DEF ApiInv, RowInv
  <2> QED
    BY <1>1, <2>1, FitsStays
<1> QED
  BY <1>1, <1>2, <1>3 DEF ApiInv, api

\* The pool along the ways a handler's step can touch it.
LEMMA PoolMoves ==
    ASSUME ApiInv, NEW r \in Requests,
           CheckOut(r) \/ Return(r) \/ PoolTimeout(r) \/ UNCHANGED holding
    PROVE  PoolInv' /\ holding' \subseteq holding \cup {r}
<1>1. /\ holding \subseteq Sessions /\ r \in Sessions
      /\ IsFiniteSet(holding) /\ Cardinality(holding) \in Nat
      /\ Capacity \in Nat /\ Cardinality(holding) =< Capacity
  BY RequestsAssumption, PoolAssumption, FS_CardinalityType DEF ApiInv, PoolInv, WithinCapacity, Capacity
<1>2. CASE CheckOut(r)
  <2>1. IsFiniteSet(holding \cup {r}) /\ Cardinality(holding \cup {r}) = Cardinality(holding) + 1
    BY <1>1, <1>2, FS_AddElement DEF CheckOut
  <2> QED
    BY <1>1, <1>2, <2>1 DEF CheckOut, Exhausted, PoolInv, WithinCapacity, Capacity
<1>3. CASE Return(r)
  <2>1. /\ IsFiniteSet(holding \ {r})
        /\ Cardinality(holding \ {r}) \in {Cardinality(holding), Cardinality(holding) - 1}
    BY <1>1, FS_RemoveElement
  <2> QED
    BY <1>1, <1>3, <2>1 DEF Return, PoolInv, WithinCapacity, Capacity
<1>4. CASE PoolTimeout(r) \/ UNCHANGED holding
  BY <1>1, <1>4 DEF PoolTimeout, PoolInv, WithinCapacity, Capacity
<1> QED
  BY <1>2, <1>3, <1>4 DEF CheckOut, Return, PoolTimeout

\* An assignment to one field leaves a handler behind.
LEMMA HandlerField ==
    ASSUME NEW h \in Handler
    PROVE  /\ \A k \in Kinds : [h EXCEPT !.kind = k] \in Handler
           /\ \A p \in Phases : [h EXCEPT !.pc = p] \in Handler
           /\ \A c \in Codes : [h EXCEPT !.code = c] \in Handler
           /\ \A s \in Statuses : [h EXCEPT !.status = s] \in Handler
           /\ \A x \in SUBSET JobTypes : [h EXCEPT !.shown = x] \in Handler
           /\ \A x \in SUBSET JobTypes : [h EXCEPT !.before = x] \in Handler
<1>1. \A k \in Kinds : [h EXCEPT !.kind = k] \in Handler
  BY DEF Handler
<1>2. \A p \in Phases : [h EXCEPT !.pc = p] \in Handler
  BY DEF Handler
<1>3. \A c \in Codes : [h EXCEPT !.code = c] \in Handler
  BY DEF Handler, Codes
<1>4. \A s \in Statuses : [h EXCEPT !.status = s] \in Handler
  BY DEF Handler, Statuses
<1>5. \A x \in SUBSET JobTypes : [h EXCEPT !.shown = x] \in Handler
  BY DEF Handler
<1>6. \A x \in SUBSET JobTypes : [h EXCEPT !.before = x] \in Handler
  BY DEF Handler
<1> QED
  BY <1>1, <1>2, <1>3, <1>4, <1>5, <1>6

\* The handler an answer leaves behind.
LEMMA AnsweredHandler ==
    ASSUME request \in [Requests -> Handler], NEW r \in Requests, NEW c \in Codes,
           Answer(r, c)
    PROVE  \E h \in Handler :
              /\ request' = [request EXCEPT ![r] = h]
              /\ h.pc = "close" /\ h.code = c
              /\ h.kind = request[r].kind /\ h.status = request[r].status
              /\ h.shown = request[r].shown /\ h.before = request[r].before
<1> DEFINE g == [request[r] EXCEPT !.pc = "close"]
           h == [request[r] EXCEPT !.pc = "close", !.code = c]
<1>1. request[r] \in Handler /\ "close" \in Phases
  BY DEF Phases
<1>2. request' = [request EXCEPT ![r] = h]
  BY DEF Answer
<1>3. g \in Handler
  BY <1>1, HandlerField
<1> HIDE DEF g
<1>4. [g EXCEPT !.code = c] \in Handler
  BY <1>3, HandlerField
<1>5. h \in Handler
  BY <1>4 DEF g
<1>6. /\ h.pc = "close" /\ h.code = c
      /\ h.kind = request[r].kind /\ h.status = request[r].status
      /\ h.shown = request[r].shown /\ h.before = request[r].before
  BY <1>1 DEF Handler
<1> QED
  BY <1>2, <1>5, <1>6

\* The handler a query leaves behind.
LEMMA ReadHandler ==
    ASSUME NEW h \in Handler, NEW p \in Phases, NEW s \in Statuses,
           NEW x \in SUBSET JobTypes
    PROVE  /\ [h EXCEPT !.pc = p, !.status = s, !.shown = x] \in Handler
           /\ [h EXCEPT !.pc = p, !.shown = x] \in Handler
<1> DEFINE g == [h EXCEPT !.pc = p]
<1>1. g \in Handler
  BY HandlerField
<1> HIDE DEF g
<1> DEFINE i == [g EXCEPT !.status = s]
<1>2. i \in Handler
  BY <1>1, HandlerField
<1> HIDE DEF i
<1>3. [i EXCEPT !.shown = x] \in Handler /\ [g EXCEPT !.shown = x] \in Handler
  BY <1>1, <1>2, HandlerField
<1> QED
  BY <1>3 DEF g, i

\* The handler of a new request.
LEMMA ArrivedHandler ==
    ASSUME NEW k \in Kinds, NEW x \in SUBSET JobTypes, NEW c \in Codes, NEW p \in Phases
    PROVE  [NoHandler EXCEPT !.kind = k, !.before = x, !.code = c, !.pc = p] \in Handler
<1> DEFINE g == [NoHandler EXCEPT !.kind = k]
<1>1. NoHandler \in Handler
  BY DEF NoHandler, Handler, Kinds, Phases
<1>2. g \in Handler
  BY <1>1, HandlerField
<1> HIDE DEF g
<1> DEFINE i == [g EXCEPT !.before = x]
<1>3. i \in Handler
  BY <1>2, HandlerField
<1> HIDE DEF i
<1> DEFINE j == [i EXCEPT !.code = c]
<1>4. j \in Handler
  BY <1>3, HandlerField
<1> HIDE DEF j
<1>5. [j EXCEPT !.pc = p] \in Handler
  BY <1>4, HandlerField
<1> QED
  BY <1>5 DEF g, i, j

\* A handler that answers anything but a read video.
LEMMA AnswerMoves ==
    ASSUME ApiInv, NEW r \in Requests, NEW c \in {200, 201, 404, 409, 422, 500, 503},
           Answer(r, c), c # 200 \/ request[r].kind # "get",
           RowInv', finished \subseteq finished', told' = told,
           PoolInv', holding' \subseteq holding \cup {r}
    PROVE  ApiInv'
<1>1. request[r].before \subseteq told /\ request \in [Requests -> Handler]
      /\ told \subseteq finished
  BY DEF ApiInv, Fits
<1>2. PICK h \in Handler :
         /\ request' = [request EXCEPT ![r] = h]
         /\ h.pc = "close" /\ h.code = c
         /\ h.kind = request[r].kind /\ h.before = request[r].before
  BY <1>1, AnsweredHandler DEF Codes
<1>3. Fits(h, finished', told') /\ h.pc \in Connected /\ told' \subseteq finished'
  BY <1>1, <1>2 DEF Fits, Connected
<1> QED
  BY <1>2, <1>3, OneRequestMoves

\* A handler that goes on without having read the video.
LEMMA GotoMoves ==
    ASSUME ApiInv, NEW r \in Requests, NEW p \in {"open", "query", "send", "commit"},
           Goto(r, p),
           p = "open" => request[r].code = 0 /\ r \notin holding',
           p \in {"send", "commit"} => request[r].kind = "retry",
           UNCHANGED <<lifecycle, told>>,
           PoolInv', holding' \subseteq holding \cup {r}
    PROVE  ApiInv'
<1> DEFINE h == [request[r] EXCEPT !.pc = p]
<1>1. request[r] \in Handler /\ request[r].before \subseteq told
  BY DEF ApiInv, Fits
<1>2. h \in Handler
  BY <1>1 DEF Handler, Phases
<1>3. request' = [request EXCEPT ![r] = h]
  BY DEF Goto
<1>4. h.before = request[r].before /\ h.kind = request[r].kind /\ h.pc = p
      /\ h.code = request[r].code
  BY <1>1 DEF Handler
<1>5. Fits(h, finished', told')
  BY <1>1, <1>4 DEF Fits, lifecycle
<1>6. r \in holding' => h.pc \in Connected
  BY <1>4 DEF Connected
<1>7. RowInv' /\ finished' = finished /\ told' = told /\ told' \subseteq finished'
  BY DEF ApiInv, RowInv, CompletedIsFinished, lifecycle
<1> QED
  BY <1>2, <1>3, <1>5, <1>6, <1>7, OneRequestMoves

\* The rows of a step that leaves the video alone.
LEMMA RowsRest ==
    ASSUME ApiInv, UNCHANGED lifecycle
    PROVE  RowInv' /\ finished' = finished
BY DEF ApiInv, RowInv, CompletedIsFinished, lifecycle

-------------------------------------------------------------------------------
\* A request comes in with what has been told so far.
LEMMA ArriveKeepsInv ==
    ASSUME ApiInv, NEW r \in Requests, NEW k \in Kinds, Arrive(r, k)
    PROVE  ApiInv'
<1> DEFINE c == CASE k = "live" -> 200 [] k = "malformed" -> 422 [] OTHER -> 0
           p == CASE k \in {"live", "malformed"} -> "close"
                  [] k = "create" -> "sign"
                  [] OTHER -> "open"
           h == [NoHandler EXCEPT !.kind = k, !.before = told, !.code = c, !.pc = p]
<1>1. c \in {0, 200, 422} /\ p \in {"close", "sign", "open"}
      /\ (p # "close" => c = 0) /\ (p = "close" => k # "get")
  BY DEF Kinds
<1>2. told \in SUBSET JobTypes
  BY DEF ApiInv, RowInv
<1>3. h.kind = k /\ h.before = told /\ h.code = c /\ h.pc = p
  BY DEF NoHandler
<1>4. h \in Handler
  <2>1. p \in Phases /\ c \in Codes
    BY <1>1 DEF Phases, Codes
  <2> HIDE DEF p, c
  <2> QED
    BY <1>2, <2>1, ArrivedHandler
<1>5. request' = [request EXCEPT ![r] = h] /\ told' = told /\ UNCHANGED lifecycle
  BY DEF Arrive
<1>6. Fits(h, finished', told')
  BY <1>1, <1>3, <1>5 DEF Fits
<1>7. PoolInv' /\ holding' = holding /\ r \notin holding'
  BY PoolMoves DEF Arrive, ApiInv, At, Connected
<1>8. RowInv' /\ finished' = finished /\ told \subseteq finished
  BY <1>5, RowsRest DEF ApiInv
<1>9. PICK g \in Handler : request' = [request EXCEPT ![r] = g] /\ Fits(g, finished', told')
  BY <1>4, <1>5, <1>6
<1> QED
  BY <1>5, <1>7, <1>8, <1>9, OneRequestMoves

\* On the way to a connection nothing is read yet.
LEMMA ConnectingKeepsInv ==
    ASSUME ApiInv, NEW r \in Requests, SignUpload(r) \/ Connect(r) \/ Overload(r)
    PROVE  ApiInv'
<1>1. PoolInv' /\ holding' \subseteq holding \cup {r}
  BY PoolMoves DEF SignUpload, Connect, Overload
<1>2. RowInv' /\ finished' = finished /\ told' = told /\ UNCHANGED lifecycle
  BY RowsRest DEF SignUpload, Connect, Overload
<1>3. request[r].pc \in {"sign", "open"} /\ request[r].code = 0
  BY DEF ApiInv, Fits, SignUpload, Connect, Overload, At
<1>4. CASE SignUpload(r)
  <2>1. r \notin holding'
    BY <1>3, <1>4 DEF ApiInv, Connected, SignUpload
  <2>2. CASE Goto(r, "open")
    BY <1>1, <1>2, <1>3, <2>1, <2>2, GotoMoves
  <2>3. CASE Answer(r, 500)
    BY <1>1, <1>2, <2>3, AnswerMoves
  <2> QED
    BY <1>4, <2>2, <2>3 DEF SignUpload
<1>5. CASE Connect(r)
  BY <1>1, <1>2, <1>5, GotoMoves DEF Connect
<1>6. CASE Overload(r)
  BY <1>1, <1>2, <1>6, AnswerMoves DEF Overload
<1> QED
  BY <1>4, <1>5, <1>6

\* The handlers that do not show results.
LEMMA WritingKeepsInv ==
    ASSUME ApiInv, NEW r \in Requests,
           Ping(r) \/ CommitVideo(r) \/ ReadForRetry(r) \/ Publish(r) \/ CommitRetry(r)
             \/ DatabaseFails(r)
    PROVE  ApiInv'
<1>1. PoolInv' /\ holding' \subseteq holding \cup {r} /\ told' = told
  BY PoolMoves DEF Ping, CommitVideo, ReadForRetry, Publish, CommitRetry, DatabaseFails
<1>2. RowInv' /\ finished \subseteq finished'
  <2>1. UNCHANGED lifecycle \/ Create \/ Retry
    BY DEF Ping, CommitVideo, ReadForRetry, Publish, CommitRetry, DatabaseFails
  <2> QED
    BY <2>1, RowsMove DEF ApiInv, LifecycleNext
<1>3. request[r].pc \in {"send", "commit"} => request[r].kind = "retry"
  BY DEF ApiInv, Fits
<1>4. CASE \E code \in {201, 404, 409, 500, 503} : Answer(r, code)
  <2>1. PICK code \in {201, 404, 409, 500, 503} : Answer(r, code)
    BY <1>4
  <2> QED
    BY <1>1, <1>2, <2>1, AnswerMoves
<1>5. CASE Answer(r, 200) /\ request[r].kind # "get"
  BY <1>1, <1>2, <1>5, AnswerMoves
<1>6. CASE /\ Goto(r, "send") \/ Goto(r, "commit")
           /\ request[r].kind = "retry"
           /\ UNCHANGED <<lifecycle, told>>
  BY <1>1, <1>6, GotoMoves
<1> QED
  BY <1>3, <1>4, <1>5, <1>6
     DEF Ping, CommitVideo, ReadForRetry, Publish, CommitRetry, DatabaseFails, At

\* get_video: the metadata is read with the status, the assets after it.
LEMMA ReadingKeepsInv ==
    ASSUME ApiInv, NEW r \in Requests,
           ReadVideo(r) \/ ReadAssets(r) \/ SignLinks(r) \/ CloseSession(r)
    PROVE  ApiInv'
<1>1. PoolInv' /\ holding' \subseteq holding \cup {r}
  BY PoolMoves DEF ReadVideo, ReadAssets, SignLinks, CloseSession
<1>2. RowInv' /\ finished' = finished /\ status' = status
  BY RowsRest DEF ReadVideo, ReadAssets, SignLinks, CloseSession, lifecycle
<1>3. request[r] \in Handler /\ Fits(request[r], finished, told)
      /\ told \subseteq finished /\ RowInv
  BY DEF ApiInv
<1>4. CASE ReadVideo(r)
  <2>1. CASE Answer(r, 404)
    BY <1>1, <1>2, <1>4, <2>1, AnswerMoves DEF ReadVideo
  <2>2. CASE ~Answer(r, 404)
    <3> DEFINE h == [request[r] EXCEPT !.pc = "assets", !.status = status,
                                       !.shown = finished \cap {"metadata"}]
    <3>1. request' = [request EXCEPT ![r] = h]
      BY <1>4, <2>2 DEF ReadVideo
    <3>2. h.pc = "assets" /\ h.status = status
          /\ h.shown = finished \cap {"metadata"} /\ h.before = request[r].before
      BY <1>3 DEF Handler
    <3>3. h \in Handler
      BY <1>3, ReadHandler DEF Phases, RowInv
    <3>4. told' = told
      BY <1>4 DEF ReadVideo
    <3>5. Fits(h, finished', told')
      BY <1>2, <1>3, <3>2, <3>4 DEF Fits, RowInv, CompletedIsFinished
    <3> QED
      BY <1>1, <1>2, <1>3, <3>1, <3>2, <3>3, <3>4, <3>5, OneRequestMoves DEF Connected
  <2> QED
    BY <2>1, <2>2
<1>5. CASE ReadAssets(r)
  <2> DEFINE h == [request[r] EXCEPT !.pc = "links",
                                     !.shown = request[r].shown \cup (finished \ {"metadata"})]
  <2>1. request' = [request EXCEPT ![r] = h] /\ told' = told /\ request[r].pc = "assets"
    BY <1>5 DEF ReadAssets, At
  <2>2. h \in Handler
    <3>1. request[r].shown \cup (finished \ {"metadata"}) \in SUBSET JobTypes
      BY <1>3 DEF Handler, RowInv
    <3> QED
      BY <1>3, <3>1, ReadHandler DEF Phases, Statuses
  <2>3. h.pc = "links" /\ h.status = request[r].status
        /\ h.shown = request[r].shown \cup (finished \ {"metadata"})
        /\ h.before = request[r].before
    BY <1>3 DEF Handler
  <2>4. Fits(h, finished', told')
    BY <1>2, <1>3, <2>1, <2>3 DEF Fits, RowInv
  <2> QED
    BY <1>1, <1>2, <1>3, <2>1, <2>2, <2>3, <2>4, OneRequestMoves DEF Connected
<1>6. CASE SignLinks(r)
  <2>1. CASE Answer(r, 500) /\ UNCHANGED told
    BY <1>1, <1>2, <2>1, AnswerMoves
  <2>2. CASE Answer(r, 200) /\ told' = told \cup request[r].shown
    <3>1. request \in [Requests -> Handler] /\ request[r].pc = "links"
      BY <1>6 DEF ApiInv, SignLinks, At
    <3>2. PICK h \in Handler :
             /\ request' = [request EXCEPT ![r] = h]
             /\ h.pc = "close" /\ h.status = request[r].status
             /\ h.shown = request[r].shown /\ h.before = request[r].before
      BY <2>2, <3>1, AnsweredHandler DEF Codes
    <3>3. Fits(h, finished', told') /\ told' \subseteq finished' /\ told \subseteq told'
      BY <1>2, <1>3, <2>2, <3>1, <3>2 DEF Fits
    <3> QED
      BY <1>1, <1>2, <3>2, <3>3, OneRequestMoves DEF Connected
  <2> QED
    BY <1>6, <2>1, <2>2 DEF SignLinks
<1>7. CASE CloseSession(r)
  <2>1. request' = [request EXCEPT ![r] = NoHandler] /\ told' = told /\ r \notin holding'
    BY <1>7 DEF CloseSession, Return
  <2>2. NoHandler \in Handler /\ Fits(NoHandler, finished', told')
    BY DEF NoHandler, Handler, Kinds, Phases, Fits
  <2> QED
    BY <1>1, <1>2, <1>3, <2>1, <2>2, OneRequestMoves
<1> QED
  BY <1>4, <1>5, <1>6, <1>7

\* Every step of the process keeps the invariant.
LEMMA ApiStepKeepsInv == ApiInv /\ [ApiNext]_apiServerVars => ApiInv'
<1> SUFFICES ASSUME ApiInv, [ApiNext]_apiServerVars PROVE ApiInv'
  OBVIOUS
<1>1. CASE \E r \in Requests : Serve(r)
  BY <1>1, ConnectingKeepsInv, WritingKeepsInv, ReadingKeepsInv DEF Serve
<1>2. CASE \E r \in Requests : \E k \in Kinds : Arrive(r, k)
  BY <1>2, ArriveKeepsInv
<1>3. CASE (Start \/ WorkerNext) /\ UNCHANGED api
  BY <1>3, WorkerKeepsInv DEF LifecycleNext
<1>4. CASE UNCHANGED apiServerVars
  BY <1>4, WorkerKeepsInv DEF apiServerVars
<1> QED
  BY <1>1, <1>2, <1>3, <1>4 DEF ApiNext

\* The invariant holds in every state the process can reach.
LEMMA ApiInvariant == ApiSpec => []ApiInv
BY ApiStarts, ApiStepKeepsInv, PTL DEF ApiSpec

-------------------------------------------------------------------------------
\* Every variable keeps its type, and the handlers never hold more connections than
\* pool_size + max_overflow.
THEOREM ApiTypeCorrect == ApiSpec => []ApiTypeOK
<1>1. ApiInv => ApiTypeOK
  BY DEF ApiInv, RowInv, Statuses, PoolInv, ApiTypeOK
<1> QED
  BY <1>1, ApiInvariant, PTL

\* get_video answers "completed" only with every result, however the worker side moves
\* between its two queries.
THEOREM CompletedIsWhole == ApiSpec => []CompletedAnswerIsWhole
<1>1. ApiInv => CompletedAnswerIsWhole
  BY DEF ApiInv, CompletedAnswerIsWhole, Answered, At, Fits
<1> QED
  BY <1>1, ApiInvariant, PTL

\* No answer takes back a result that an earlier one has shown.
THEOREM NothingIsTakenBack == ApiSpec => []AnswersOnlyGrow
<1>1. ApiInv => AnswersOnlyGrow
  BY DEF ApiInv, AnswersOnlyGrow, Answered, At, Fits
<1> QED
  BY <1>1, ApiInvariant, PTL

\* A handler's step changes no other handler.
LEMMA OthersRest ==
    ASSUME request \in [Requests -> Handler], NEW q \in Requests, NEW r \in Requests \ {q},
           Serve(q) \/ \E k \in Kinds : Arrive(q, k)
    PROVE  request'[r] = request[r]
<1>1. ASSUME NEW p, Goto(q, p) PROVE request'[r] = request[r]
  BY <1>1 DEF Goto
<1>2. ASSUME NEW c, Answer(q, c) PROVE request'[r] = request[r]
  BY <1>2 DEF Answer
<1>3. CASE \E k \in Kinds : Arrive(q, k)
  BY <1>3 DEF Arrive
<1>4. CASE SignUpload(q) \/ Connect(q) \/ Overload(q) \/ Ping(q) \/ CommitVideo(q)
  BY <1>1, <1>2, <1>4 DEF SignUpload, Connect, Overload, Ping, CommitVideo
<1>5. CASE ReadVideo(q)
  BY <1>2, <1>5 DEF ReadVideo
<1>6. CASE ReadAssets(q)
  BY <1>6 DEF ReadAssets
<1>7. CASE SignLinks(q) \/ ReadForRetry(q) \/ Publish(q) \/ CommitRetry(q)
  BY <1>1, <1>2, <1>7 DEF SignLinks, ReadForRetry, Publish, CommitRetry
<1>8. CASE DatabaseFails(q)
  BY <1>2, <1>8 DEF DatabaseFails
<1>9. CASE CloseSession(q)
  BY <1>9 DEF CloseSession
<1> QED
  BY <1>3, <1>4, <1>5, <1>6, <1>7, <1>8, <1>9 DEF Serve

\* A step that turns a request away does so with as many others being served as the
\* pool has connections.
LEMMA TurnedAwayByLoad ==
    ASSUME ApiInv, ApiNext, NEW r \in Requests, At(r, "open"), request'[r].code = 503
    PROVE  Capacity =< Cardinality({q \in Requests \ {r} : ~At(q, "idle")})
<1> DEFINE busy == {q \in Requests \ {r} : ~At(q, "idle")}
<1>1. request \in [Requests -> Handler] /\ request[r].code = 0 /\ r \notin holding
  BY DEF ApiInv, Fits, At, Connected
<1>2. request'[r] # request[r]
  BY <1>1
<1>3. Exhausted
  <2>1. PICK q \in Requests : Serve(q) \/ \E k \in Kinds : Arrive(q, k)
    BY <1>2 DEF ApiNext, api
  <2>2. CASE q # r
    BY <1>1, <1>2, <2>1, <2>2, OthersRest
  <2>3. CASE q = r
    <3>1. Connect(r) \/ Overload(r)
      BY <2>1, <2>3
         DEF At, Serve, SignUpload, Ping, CommitVideo, ReadVideo, ReadAssets, SignLinks,
             ReadForRetry, Publish, CommitRetry, DatabaseFails, CloseSession, Arrive
    <3>2. ~Connect(r)
      <4> SUFFICES ASSUME Connect(r) PROVE request'[r].code = request[r].code
        BY <1>1
      <4>1. request'[r] = [request[r] EXCEPT !.pc = "query"]
        BY <1>1 DEF Connect, Goto
      <4> QED
        BY <1>1, <4>1 DEF Handler
    <3> QED
      BY <3>1, <3>2 DEF Overload, PoolTimeout
  <2> QED
    BY <2>2, <2>3
<1>4. holding \subseteq busy
  BY <1>1 DEF ApiInv, At, Connected
<1>5. IsFiniteSet(busy) /\ Cardinality(holding) =< Cardinality(busy)
  <2>1. IsFiniteSet(Requests) /\ busy \subseteq Requests
    BY RequestsAssumption
  <2>2. IsFiniteSet(busy)
    BY <2>1, FS_Subset
  <2> HIDE DEF busy
  <2> QED
    BY <1>4, <2>2, FS_Subset
<1>6. Cardinality(holding) \in Nat /\ Cardinality(busy) \in Nat /\ Capacity \in Nat
  BY <1>5, FS_CardinalityType, PoolAssumption DEF ApiInv, PoolInv, Capacity
<1> HIDE DEF busy
<1>7. Capacity =< Cardinality(busy)
  BY <1>3, <1>5, <1>6 DEF Exhausted
<1> QED
  BY <1>7 DEF busy

\* The pool leaks no connection: a 503 means load.
THEOREM NothingLeaks == ApiSpec => OverloadMeansLoad
<1> DEFINE A == \A r \in Requests : At(r, "open") /\ request'[r].code = 503 =>
                    Capacity =< Cardinality({q \in Requests \ {r} : ~At(q, "idle")})
<1>1. ApiInv /\ [ApiNext]_apiServerVars => [A]_apiServerVars
  BY TurnedAwayByLoad
<1> QED
  BY <1>1, ApiInvariant, PTL DEF ApiSpec, OverloadMeansLoad

\* The video as ApiServer and RetriedSpec move it is never delivered without its
\* results, whatever is retried.
THEOREM DeliveredIsFinished == RetriedSpec => []CompletedIsFinished
<1>1. LifecycleInit => RowInv
  BY DEF LifecycleInit, RowInv, Statuses, CompletedIsFinished
<1>2. RowInv /\ [LifecycleNext \/ Retry]_lifecycle => RowInv'
  BY RowsMove
<1>3. RowInv => CompletedIsFinished
  BY DEF RowInv
<1> QED
  BY <1>1, <1>2, <1>3, PTL DEF RetriedSpec
===============================================================================

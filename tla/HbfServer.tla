----------------------------- MODULE HbfServer -----------------------------
(***************************************************************************)
(* The running process: main (src/hbf/shell/main.c), CivetWeb's pool of    *)
(* worker threads with the handlers of src/hbf/http/server.c, and the      *)
(* QuickJS request handler (src/hbf/http/handler.c), which builds a        *)
(* JavaScript runtime per request (src/hbf/qjs/engine.c) under one mutex,  *)
(* on one SQLite connection that every request and every thread shares.    *)
(*                                                                         *)
(* A runtime is named by the request it was made for. The application's    *)
(* JavaScript is any sequence of statements with any end: it is the        *)
(* content of a database. What CivetWeb, SQLite and QuickJS do is modelled *)
(* from how the handlers use them.                                         *)
(***************************************************************************)
EXTENDS Integers, Sequences, FiniteSets

CONSTANTS
  Workers,   \* CivetWeb's worker threads (num_threads)
  Reqs,      \* requests, each to any path
  Statuses,  \* codes a handler may leave in response.status_code
  Sql,       \* kinds of statements the application executes, each once per request
  NoWorker, NoReq

ASSUME NoneAssumption == NoReq \notin Reqs /\ NoWorker \notin Workers
ASSUME StatusesAssumption == Statuses \subseteq Int
ASSUME SqlAssumption == Sql \subseteq {"begin", "insert", "commit", "rollback"}

VARIABLES
  main,      \* what the main thread does next
  routes,    \* kinds of requests that have a handler registered
  pc, job,   \* worker -> its next step, the request it works on
  code,      \* worker -> status that its handler will return
  mutex,     \* worker that holds handler_mutex
  live,      \* JavaScript runtimes that exist
  classId,   \* runtime that hbf_response_class_id was allocated in, NoReq for 0
  app,       \* what the evaluated server.js left in globalThis.app
  rejected,  \* TRUE when the promise of its module was rejected
  replies,   \* request -> status lines sent
  open,      \* parts of the process that are initialised: engine, database
  committed, \* requests whose INSERT is committed
  pending,   \* requests whose INSERT waits in the connection's transaction
  inTx,      \* TRUE inside a transaction of the connection
  did        \* request -> statements that succeeded for it

server == <<main, routes, open>>
script == <<app, rejected, did>>
database == <<committed, pending, inTx>>
vars == <<main, routes, pc, job, code, mutex, live, classId, app, rejected,
          replies, open, committed, pending, inTx, did>>

Init ==
  /\ main = "start"
  /\ routes = {}
  /\ pc = [w \in Workers |-> "idle"]
  /\ job = [w \in Workers |-> NoReq]
  /\ code = [w \in Workers |-> 0]
  /\ mutex = NoWorker
  /\ live = {} /\ classId = NoReq
  /\ app = "undefined" /\ rejected = FALSE
  /\ replies = [q \in Reqs |-> <<>>]
  /\ open = {"engine", "db"}
  /\ committed = {} /\ pending = {} /\ inTx = FALSE
  /\ did = [q \in Reqs |-> {}]

-----------------------------------------------------------------------------
(* The main thread *)

\* mg_start: the workers accept from now on. When it fails (the port is taken)
\* main destroys the server and cleans up.
StartServer ==
  /\ main = "start"
  /\ main' \in {"register", "engine"}
  /\ UNCHANGED <<routes, pc, job, code, mutex, live, classId, replies, open,
                 script, database>>

RouteOrder == <<"health", "static", "dynamic">>

\* mg_set_request_handler, three times, while the workers already serve.
Register ==
  /\ main = "register"
  /\ routes' = routes \cup {RouteOrder[Cardinality(routes) + 1]}
  /\ main' = IF Cardinality(routes) = 2 THEN "running" ELSE main
  /\ UNCHANGED <<pc, job, code, mutex, live, classId, replies, open, script, database>>

\* SIGINT or SIGTERM: running = 0, and the main loop ends.
Signal ==
  /\ main = "running"
  /\ main' = "stopping"
  /\ UNCHANGED <<routes, pc, job, code, mutex, live, classId, replies, open,
                 script, database>>

\* hbf_server_stop waits in mg_stop for the workers, which first finish what
\* they serve; mutant: it only asks them to stop.
NobodyWaitedFor == TRUE
WorkersDone == \A w \in Workers : pc[w] = "idle"

StopServer ==
  /\ main = "stopping"
  /\ WorkersDone
  /\ main' = "engine"
  /\ UNCHANGED <<routes, pc, job, code, mutex, live, classId, replies, open,
                 script, database>>

ShutdownEngine ==
  /\ main = "engine"
  /\ main' = "db"
  /\ open' = open \ {"engine"}
  /\ UNCHANGED <<routes, pc, job, code, mutex, live, classId, replies, script, database>>

\* sqlite3_close rolls an open transaction back.
CloseDb ==
  /\ main = "db"
  /\ main' = "exited"
  /\ open' = open \ {"db"}
  /\ pending' = {} /\ inTx' = FALSE
  /\ UNCHANGED <<routes, pc, job, code, mutex, live, classId, replies, script, committed>>

-----------------------------------------------------------------------------
(* CivetWeb and the C handlers *)

Goto(w, step) == pc' = [pc EXCEPT ![w] = step]

\* A worker takes a request and calls the handler of its route (/health,
\* /static/** or **); without one CivetWeb answers itself (there is no document
\* root).
Accept(w, q) ==
  /\ main \in {"register", "running"}
  /\ pc[w] = "idle"
  /\ replies[q] = <<>>
  /\ \A v \in Workers : job[v] # q
  /\ job' = [job EXCEPT ![w] = q]
  /\ \E route \in {RouteOrder[i] : i \in DOMAIN RouteOrder} :
       Goto(w, IF route \notin routes THEN "fallback"
               ELSE IF route = "dynamic" THEN "lock" ELSE route)
  /\ UNCHANGED <<code, mutex, live, classId, replies, server, script, database>>

Reply(w, status) == replies' = [replies EXCEPT ![job[w]] = Append(@, status)]

Answer(w, status) ==
  /\ Reply(w, status)
  /\ Goto(w, "idle")
  /\ job' = [job EXCEPT ![w] = NoReq]
  /\ code' = [code EXCEPT ![w] = 0]
  /\ UNCHANGED <<mutex, live, classId, server, script, database>>

Fallback(w) == pc[w] = "fallback" /\ Answer(w, 404)
ServeHealth(w) == pc[w] = "health" /\ Answer(w, 200)

\* overlay_fs_read_file without the mutex: found or not.
ServeStatic(w) == pc[w] = "static" /\ \E status \in {200, 404} : Answer(w, status)

\* CivetWeb takes a positive result for an answered request and treats any
\* other as not handled.
HandlerReturns(w) ==
  /\ pc[w] = "return"
  /\ code' = [code EXCEPT ![w] = 0]
  /\ IF code[w] > 0
       THEN Goto(w, "idle") /\ job' = [job EXCEPT ![w] = NoReq]
       ELSE Goto(w, "fallback") /\ UNCHANGED job
  /\ UNCHANGED <<mutex, live, classId, replies, server, script, database>>

-----------------------------------------------------------------------------
(* The QuickJS request handler *)

\* pthread_mutex_lock; mutant: a fresh context is isolated, so no lock is taken.
NoLock == TRUE
MutexFree == mutex = NoWorker

Lock(w) ==
  /\ pc[w] = "lock"
  /\ MutexFree
  /\ mutex' = w
  /\ Goto(w, "create")
  /\ UNCHANGED <<job, code, live, classId, replies, server, script, database>>

\* An error path of the handler: it destroys the context if there is one, unlocks
\* and only then sends the error page.
FailWith(w, status) ==
  /\ code' = [code EXCEPT ![w] = status]
  /\ Goto(w, IF job[w] \in live THEN "destroy" ELSE "unlock")

\* Mutant: the class of an earlier runtime is kept.
KeepClassId == classId
ResetClassId == NoReq

\* hbf_qjs_ctx_create_with_db up to the reset of hbf_response_class_id. It fails
\* when memory is short and when the engine is not initialised.
CreateContext(w) ==
  /\ pc[w] = "create"
  /\ \/ /\ "engine" \in open
        /\ live' = live \cup {job[w]}
        /\ classId' = ResetClassId
        /\ app' = "undefined"
        /\ Goto(w, "class")
        /\ UNCHANGED code
     \/ FailWith(w, 500) /\ UNCHANGED <<live, classId, app>>
  /\ UNCHANGED <<job, mutex, replies, server, rejected, did, database>>

\* JS_NewClassID allocates only when the variable is 0.
InitClass(w) ==
  /\ pc[w] = "class"
  /\ classId' = IF classId = NoReq THEN job[w] ELSE classId
  /\ Goto(w, "load")
  /\ UNCHANGED <<job, code, mutex, live, replies, server, script, database>>

\* overlay_fs_read_file("hbf/server.js")
LoadServerJs(w) ==
  /\ pc[w] = "load"
  /\ \/ Goto(w, "module") /\ UNCHANGED code
     \/ FailWith(w, 503)
  /\ UNCHANGED <<job, mutex, live, classId, replies, server, script, database>>

\* What a statement of the application does to the connection and whether it
\* succeeds. Nothing in the handler begins, ends or resets a transaction.
Execute(w, sql) ==
  LET q == job[w] IN
    /\ pc[w] \in {"module", "handle"}
    /\ sql \notin did[q]
    /\ \/ /\ sql = "begin" /\ ~inTx
          /\ inTx' = TRUE
          /\ UNCHANGED <<committed, pending>>
       \/ /\ sql = "insert"
          /\ IF inTx THEN pending' = pending \cup {q} /\ UNCHANGED committed
                     ELSE committed' = committed \cup {q} /\ UNCHANGED pending
          /\ UNCHANGED inTx
       \/ /\ sql \in {"commit", "rollback"} /\ inTx
          /\ committed' = IF sql = "commit" THEN committed \cup pending ELSE committed
          /\ pending' = {} /\ inTx' = FALSE
    /\ did' = [did EXCEPT ![q] = @ \cup {sql}]
    /\ UNCHANGED <<pc, job, code, mutex, live, classId, app, rejected, replies, server>>

Apps == {"undefined", "no handle", "ready"}

\* hbf_qjs_eval_module: an exception (the source does not parse, an import is
\* missing, a job fails) is an error; the promise that JS_Eval returns is freed
\* without a look at its state, so a module that throws is evaluated.
ModuleDone(w) ==
  /\ pc[w] = "module"
  /\ \/ \E a \in Apps, throws \in BOOLEAN :
          /\ app' = a
          /\ rejected' = throws
          /\ Goto(w, "request")
          /\ UNCHANGED code
     \/ FailWith(w, 500) /\ UNCHANGED <<app, rejected>>
  /\ UNCHANGED <<job, mutex, live, classId, replies, server, did, database>>

\* hbf_qjs_create_request: waits for the body, until CivetWeb's timeout.
CreateRequest(w) ==
  /\ pc[w] = "request"
  /\ \/ Goto(w, "response") /\ UNCHANGED code
     \/ FailWith(w, 500)
  /\ UNCHANGED <<job, mutex, live, classId, replies, server, script, database>>

\* hbf_qjs_create_response: status_code = 200
CreateResponse(w) ==
  /\ pc[w] = "response"
  /\ \/ Goto(w, "lookup") /\ code' = [code EXCEPT ![w] = 200]
     \/ FailWith(w, 500)
  /\ UNCHANGED <<job, mutex, live, classId, replies, server, script, database>>

\* global.app and app.handle
Lookup(w) ==
  /\ pc[w] = "lookup"
  /\ \/ app = "undefined" /\ FailWith(w, 503)
     \/ app = "no handle" /\ FailWith(w, 500)
     \/ app = "ready" /\ Goto(w, "handle") /\ UNCHANGED code
  /\ UNCHANGED <<job, mutex, live, classId, replies, server, script, database>>

\* app.handle returns, having set any status or none.
HandleReturns(w) ==
  /\ pc[w] = "handle"
  /\ \E status \in Statuses : code' = [code EXCEPT ![w] = status]
  /\ Goto(w, "send")
  /\ UNCHANGED <<job, mutex, live, classId, replies, server, script, database>>

\* It throws, or the interrupt handler stops it after the time limit.
HandleThrows(w) ==
  /\ pc[w] = "handle"
  /\ FailWith(w, 500)
  /\ UNCHANGED <<job, mutex, live, classId, replies, server, script, database>>

\* hbf_send_response, still under the mutex
SendResponse(w) ==
  /\ pc[w] = "send"
  /\ Reply(w, code[w])
  /\ Goto(w, "destroy")
  /\ UNCHANGED <<job, code, mutex, live, classId, server, script, database>>

DestroyContext(w) ==
  /\ pc[w] = "destroy"
  /\ live' = live \ {job[w]}
  /\ app' = "undefined" /\ rejected' = FALSE
  /\ Goto(w, "unlock")
  /\ UNCHANGED <<job, code, mutex, classId, replies, server, did, database>>

\* Mutant: an early return before pthread_mutex_unlock.
StillLocked(w) == mutex
Unlocked(w) == NoWorker

Unlock(w) ==
  /\ pc[w] = "unlock"
  /\ mutex' = Unlocked(w)
  /\ Goto(w, IF replies[job[w]] = <<>> THEN "error" ELSE "return")
  /\ UNCHANGED <<job, code, live, classId, replies, server, script, database>>

\* Mutant: the error paths report "not handled".
NotHandled(status) == 0
ErrorResult(status) == status

\* mg_send_http_error; return status
SendError(w) ==
  /\ pc[w] = "error"
  /\ Reply(w, code[w])
  /\ code' = [code EXCEPT ![w] = ErrorResult(@)]
  /\ Goto(w, "return")
  /\ UNCHANGED <<job, mutex, live, classId, server, script, database>>

-----------------------------------------------------------------------------

MainStep == StartServer \/ Register \/ StopServer \/ ShutdownEngine \/ CloseDb

\* The steps that run JavaScript: accessors of globalThis may, too.
ScriptStep(w) == ModuleDone(w) \/ Lookup(w) \/ HandleReturns(w) \/ HandleThrows(w)

CodeStep(w) ==
  \/ Fallback(w) \/ ServeHealth(w) \/ ServeStatic(w) \/ HandlerReturns(w)
  \/ Lock(w) \/ CreateContext(w) \/ InitClass(w) \/ LoadServerJs(w)
  \/ CreateRequest(w) \/ CreateResponse(w) \/ SendResponse(w)
  \/ DestroyContext(w) \/ Unlock(w) \/ SendError(w)

WorkerStep(w) == CodeStep(w) \/ ScriptStep(w)

Next ==
  \/ MainStep
  \/ Signal
  \/ \E w \in Workers :
       \/ \E q \in Reqs : Accept(w, q)
       \/ \E sql \in Sql : Execute(w, sql)
       \/ WorkerStep(w)

\* The process is gone; any other state without a next step is a deadlock.
Exited == main = "exited" /\ UNCHANGED vars

Spec == Init /\ [][Next \/ Exited]_vars

\* The operating system runs every thread, and CivetWeb ends the wait for a
\* client. JavaScript need not end: it can hide the interruption at the time
\* limit, or sit in a statement of SQL (Script).
FairSpec ==
  /\ Init /\ [][Next \/ Exited]_vars
  /\ WF_vars(MainStep)
  /\ \A w \in Workers : WF_vars(CodeStep(w))

-----------------------------------------------------------------------------
(* Properties *)

Locked == {"create", "class", "load", "module", "request", "response", "lookup",
           "handle", "send", "destroy", "unlock"}
Scripted == {"load", "module", "request", "response", "lookup", "handle", "send"}
Unlocks == {"idle", "health", "static", "fallback", "lock", "error", "return"}

\* Type invariant; a worker has a request exactly while it is not idle and the
\* mutex exactly between Lock and Unlock.
TypeOK ==
  /\ main \in {"start", "register", "running", "stopping", "engine", "db", "exited"}
  /\ routes \subseteq {"health", "static", "dynamic"}
  /\ pc \in [Workers -> Locked \cup Unlocks]
  /\ job \in [Workers -> Reqs \cup {NoReq}]
  /\ code \in [Workers -> Int]
  /\ mutex \in Workers \cup {NoWorker}
  /\ live \subseteq Reqs
  /\ classId \in Reqs \cup {NoReq}
  /\ app \in Apps
  /\ rejected \in BOOLEAN
  /\ replies \in [Reqs -> Seq(Int)]
  /\ open \subseteq {"engine", "db"}
  /\ committed \subseteq Reqs /\ pending \subseteq Reqs
  /\ inTx \in BOOLEAN
  /\ did \in [Reqs -> SUBSET Sql]
  /\ \A w \in Workers : pc[w] = "idle" <=> job[w] = NoReq
  /\ \A w \in Workers : mutex = w <=> pc[w] \in Locked

\* "serializing the entire lifecycle of QuickJS context creation and
\* destruction" (handler.c:346): there is never more than one runtime, and the
\* worker that made it holds the mutex, on every error path too.
OneRuntime ==
  /\ Cardinality(live) <= 1
  /\ \A w \in Workers : job[w] \in live => mutex = w

\* Whenever C code uses the global hbf_response_class_id, it is the id that was
\* allocated in the runtime of this request.
ClassIsCurrent == \A w \in Workers : pc[w] \in Scripted => classId = job[w]

\* No worker reads a file, runs a script or holds a runtime after main has shut
\* the engine down or closed the connection.
NothingAfterClose ==
  \A w \in Workers : pc[w] # "idle" => open = {"engine", "db"}

\* A request is answered once. The exception is a handler that left a status
\* CivetWeb takes for "not handled": there the 404 page follows the response.
AnsweredOnce ==
  \A q \in Reqs : Len(replies[q]) > 1 =>
    Len(replies[q]) = 2 /\ replies[q][1] <= 0

\* Requests that opened a transaction, never closed it, and whose script is over.
Leaked ==
  {q \in Reqs : /\ "begin" \in did[q] /\ did[q] \cap {"commit", "rollback"} = {}
                /\ \A w \in Workers : job[w] = q => pc[w] \notin Scripted}

\* Two scripts that run never share a transaction of the connection they share:
\* a write by a request that opened none is committed at once, unless an earlier
\* request ended and left its transaction open.
IsolatedUnlessLeaked ==
  \A q \in Reqs : "insert" \in did[q] /\ "begin" \notin did[q] =>
    q \in committed \/ \E r \in Leaked : r # q

\* Every script comes to an end.
ScriptsEnd == \A w \in Workers : []<>(pc[w] \notin {"module", "lookup", "handle"})

\* Every request that a worker has taken is answered, as long as every script
\* comes to an end: the mutex is given back on every path of the handler.
EveryRequestAnswered ==
  ScriptsEnd =>
    \A q \in Reqs : (\E w \in Workers : job[w] = q) ~> replies[q] # <<>>

\* After a signal the process closes the database and exits, as long as every
\* script comes to an end: mg_stop waits for those that run.
ShutsDown == ScriptsEnd => (main = "stopping" ~> main = "exited")

\* "each db.execute() runs in a transaction" (DOCS/custom_content.md:396) and
\* contexts "ensure complete isolation" between requests (handler.c:62): the
\* INSERT of a request that opened no transaction is committed when it is done.
EachExecuteIsATransaction ==
  \A q \in Reqs :
    "insert" \in did[q] /\ "begin" \notin did[q] => q \in committed

\* "If evaluation of hbf/server.js fails [...] a 5xx is returned"
\* (DOCS/hbf_spec.md:132).
FailedModuleIs5xx ==
  \A w \in Workers : mutex = w /\ rejected =>
    \A i \in DOMAIN replies[job[w]] : replies[job[w]][i] >= 500

=============================================================================

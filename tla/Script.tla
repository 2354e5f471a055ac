------------------------------- MODULE Script -------------------------------
(***************************************************************************)
(* The JavaScript of one request, between the creation of its runtime and  *)
(* its reply: hbf/server.js is loaded with what it imports, evaluated,     *)
(* app.handle(req, res) is called, the job queue is drained, the response  *)
(* is sent (src/hbf/http/handler.c, src/hbf/qjs/engine.c). HbfServer has   *)
(* the same steps among many requests, without what happens inside.        *)
(*                                                                         *)
(* QuickJS is external: while it runs it calls the interrupt handler again *)
(* after at most Step, and an interruption unwinds the script, whatever    *)
(* that tries to catch, up to the C code that called it. Some of that code *)
(* hides it from its own caller. A statement of SQL is not interrupted at  *)
(* all. The conversion of an argument may itself run script, which may     *)
(* call the same methods again.                                            *)
(***************************************************************************)
EXTENDS Integers, Sequences, Response, ModuleName

CONSTANTS
  Apps,      \* contents of the database: module -> the imports in its source
  Timeout,   \* g_qjs_config.timeout_ms
  Step,      \* longest time between two calls of the interrupt handler
  MaxJobs,   \* bound: jobs pending at a time
  Depth      \* bound: method calls inside conversions

Main == <<"hbf", "server.js">>

ASSUME TimeAssumption == Timeout \in Nat \ {0} /\ Step \in Nat \ {0}
ASSUME BoundsAssumption == MaxJobs \in Nat /\ Depth \in Nat
ASSUME AppsAssumption ==
  \A db \in Apps :
    /\ Main \in DOMAIN db
    /\ \A m \in DOMAIN db : m \in Name /\ Plain(m) /\ db[m] \subseteq Name

VARIABLES
  pc,          \* where the handler is
  app,         \* the modules in the database
  loaded,      \* modules loaded into the runtime
  elapsed,     \* now - ctx->start_time_ms
  spent,       \* history: time since the module, or handle, began
  waited,      \* history: the part of it that statements of SQL ran
  unpolled,    \* script time since the interrupt handler was last called
  sql,         \* TRUE inside sqlite3_step, called by db.query or db.execute
  jobs,        \* jobs in QuickJS's queue
  outcome,     \* of app.handle: "none", "value", "exception", "interrupted"
  broken,      \* history: the job loop ended at a failing job
  stack,       \* methods of res waiting for the conversion of an argument
  res,         \* the response
  first,       \* history: the body of the first send or json
  reentered,   \* history: a conversion called a method of res
  hidden       \* history: an interruption ended less than the handler's call

vars == <<pc, app, loaded, elapsed, spent, waited, unpolled, sql, jobs, outcome,
          broken, stack, res, first, reentered, hidden>>

clock == <<elapsed, spent, waited, unpolled, sql>>
answer == <<stack, res, first, reentered, hidden>>

Init ==
  /\ pc = "load"
  /\ app \in Apps
  /\ loaded = {Main}
  /\ elapsed = 0 /\ spent = 0 /\ waited = 0 /\ unpolled = 0 /\ sql = FALSE
  /\ jobs = 0 /\ outcome = "none" /\ broken = FALSE
  /\ stack = <<>> /\ res = Fresh /\ first = NoBody
  /\ reentered = FALSE /\ hidden = FALSE

-----------------------------------------------------------------------------
(* Loading: QuickJS resolves all static imports before it runs anything.   *)

\* Imports of loaded modules, and the names they are normalized to.
Requested == UNION {{Normalize(m, spec) : spec \in app[m]} : m \in loaded}

\* hbf_qjs_get_module_source; mutant: the loader does not test for NULL.
AnySource(name) == TRUE
HasSource(name) == name \in DOMAIN app

\* hbf_qjs_module_normalize and hbf_qjs_module_loader for one import that is
\* not loaded yet: no name, or no such file, is an error of hbf_qjs_eval_module.
Import ==
  /\ pc = "load"
  /\ \E name \in Requested \ loaded :
       IF HasSource(name)
         THEN loaded' = loaded \cup {name} /\ pc' = pc
         ELSE loaded' = loaded /\ pc' = "failed"
  /\ UNCHANGED <<app, clock, jobs, outcome, broken, answer>>

Linked ==
  /\ pc = "load"
  /\ Requested \subseteq loaded
  /\ pc' = "module"
  /\ UNCHANGED <<app, loaded, clock, jobs, outcome, broken, answer>>

-----------------------------------------------------------------------------
(* Script running *)

\* "lookup": the handler makes req and res and reads app and app.handle, which
\* may have accessors. "describe": it makes a string of an exception.
Running == pc \in {"module", "moduleJob", "lookup", "handle", "job", "describe"}
Executing == Running /\ ~sql

\* Bound: past it only scripts go that hide interruptions, and SQL.
MaxTime == Timeout + 4 * Step

Tick ==
  /\ Running
  /\ elapsed < MaxTime
  /\ IF sql
       THEN waited' = waited + 1 /\ UNCHANGED unpolled
       ELSE unpolled < Step /\ unpolled' = unpolled + 1 /\ UNCHANGED waited
  /\ elapsed' = elapsed + 1 /\ spent' = spent + 1
  /\ UNCHANGED <<pc, app, loaded, sql, jobs, outcome, broken, answer>>

\* db.query and db.execute step a statement; nothing interrupts it, and nothing
\* makes it end.
Statement ==
  /\ Running
  /\ sql' = ~sql
  /\ UNCHANGED <<pc, app, loaded, elapsed, spent, waited, unpolled, jobs, outcome,
                 broken, answer>>

\* A promise is resolved, an async function continues.
Enqueue ==
  /\ Executing
  /\ jobs < MaxJobs
  /\ jobs' = jobs + 1
  /\ UNCHANGED <<pc, app, loaded, clock, outcome, broken, answer>>

\* The loop after app.handle. Mutants: one job only; a failing job is ignored.
AfterOneJob(result) == "respond"
AfterEveryJob(result) == "jobs"
AfterJob(result) == IF result = "value" THEN "jobs" ELSE "respond"

\* The piece of script that runs ends, and the handler goes on. A module that
\* fails may just reject its promise, which hbf_qjs_eval_module does not see.
Ends(result) ==
  \/ /\ pc = "module"
     /\ pc' \in IF result = "value" THEN {"moduleJobs"} ELSE {"moduleJobs", "describe"}
     /\ UNCHANGED <<outcome, broken>>
  \/ /\ pc = "moduleJob"
     /\ pc' = IF result = "value" THEN "moduleJobs" ELSE "describe"
     /\ UNCHANGED <<outcome, broken>>
  \/ /\ pc = "handle"
     /\ pc' = "jobs" /\ outcome' = result
     /\ UNCHANGED broken
  \/ /\ pc = "job"
     /\ pc' = AfterJob(result)
     /\ broken' = (broken \/ result # "value")
     /\ UNCHANGED outcome
  \/ /\ pc = "describe" \/ (pc = "lookup" /\ result # "value")
     /\ pc' = "failed"
     /\ UNCHANGED <<outcome, broken>>

Return ==
  /\ stack = <<>> /\ ~sql
  /\ \E result \in {"value", "exception"} : Ends(result)
  /\ UNCHANGED <<app, loaded, clock, jobs, answer>>

\* hbf_qjs_interrupt_handler.
Overdue == elapsed > Timeout

\* The interruption unwinds the script up to the innermost C code that takes it
\* for something else: res.set and console.* return undefined whatever became of
\* their arguments, db.* throws an exception that can be caught or ignores a
\* parameter it cannot read, a promise is rejected, an accessor the handler calls
\* counts as absent, and so does the string it wants of an exception. Only the
\* methods of res are on the stack, the others may be called by any of them or by
\* none; but nothing goes past a res.set.
Sets == {i \in DOMAIN stack : stack[i] = "set"}

Interrupted ==
  \/ Sets = {} /\ stack' = <<>> /\ Ends("interrupted") /\ UNCHANGED hidden
  \/ Sets = {} /\ stack' = <<>> /\ Ends("value") /\ hidden' = TRUE
  \/ /\ \E k \in 0 .. Len(stack) :
          (\A i \in Sets : i <= k + 1) /\ stack' = SubSeq(stack, 1, k)
     /\ hidden' = TRUE
     /\ UNCHANGED <<pc, outcome, broken>>

Poll ==
  /\ Executing
  /\ unpolled' = 0
  /\ IF Overdue THEN Interrupted
     ELSE UNCHANGED <<pc, outcome, broken, stack, hidden>>
  /\ UNCHANGED <<app, loaded, elapsed, spent, waited, sql, jobs, res, first, reentered>>

-----------------------------------------------------------------------------
(* The methods of res, which the script has once app.handle is called.     *)

HasRes == pc \in {"handle", "job"} \/ (pc = "describe" /\ outcome # "none")

Enter ==
  /\ HasRes /\ ~sql
  /\ Len(stack) < Depth
  /\ \E call \in Calls : Open(res, call) /\ stack' = Append(stack, call)
  /\ reentered' = (reentered \/ stack # <<>>)
  /\ UNCHANGED <<pc, app, loaded, clock, jobs, outcome, broken, res, first, hidden>>

Finish ==
  /\ stack # <<>> /\ ~sql
  /\ res' \in Results(res, Last(stack))
  /\ first' = IF first = NoBody THEN res'.body ELSE first
  /\ stack' = Front(stack)
  /\ UNCHANGED <<pc, app, loaded, clock, jobs, outcome, broken, reentered, hidden>>

\* The conversion throws: send, json and status throw in turn, set returns.
\* What the caller does then is script like any other.
ConversionFails ==
  /\ stack # <<>> /\ ~sql
  /\ stack' = Front(stack)
  /\ UNCHANGED <<pc, app, loaded, clock, jobs, outcome, broken, res, first,
                 reentered, hidden>>

-----------------------------------------------------------------------------
(* The handler between the pieces of script *)

\* hbf_qjs_begin_exec; mutant: the call is missing.
NoReset == elapsed
BeginExec == 0
\* JS_ExecutePendingJob keeps the start time; mutant: every job gets its own.
FreshClock == 0
JobClock == elapsed

\* The loop in hbf_qjs_eval_module, and the one after app.handle returned.
TakeJob ==
  /\ jobs > 0
  /\ \/ pc = "moduleJobs" /\ pc' = "moduleJob"
     \/ pc = "jobs" /\ pc' = "job"
  /\ jobs' = jobs - 1
  /\ elapsed' = JobClock
  /\ UNCHANGED <<app, loaded, spent, waited, unpolled, sql, outcome, broken, answer>>

Lookup ==
  /\ pc = "moduleJobs" /\ jobs = 0
  /\ pc' = "lookup"
  /\ UNCHANGED <<app, loaded, clock, jobs, outcome, broken, answer>>

\* All is found, and app.handle called; or something is missing.
CallHandle ==
  /\ pc = "lookup" /\ ~sql
  /\ \/ pc' = "handle" /\ elapsed' = BeginExec /\ spent' = 0 /\ waited' = 0
     \/ pc' = "failed" /\ UNCHANGED <<elapsed, spent, waited>>
  /\ res' = Fresh
  /\ UNCHANGED <<app, loaded, unpolled, sql, jobs, outcome, broken, stack, first,
                 reentered, hidden>>

JobsDone ==
  /\ pc = "jobs" /\ jobs = 0
  /\ pc' = "respond"
  /\ UNCHANGED <<app, loaded, clock, jobs, outcome, broken, answer>>

\* An exception of app.handle is written to the log and is a 500, anything else
\* sends res.
Respond ==
  /\ pc = "respond"
  /\ pc' = IF outcome = "value" THEN "answered" ELSE "describe"
  /\ UNCHANGED <<app, loaded, clock, jobs, outcome, broken, answer>>

Handler == Import \/ Linked \/ TakeJob \/ Lookup \/ JobsDone \/ Respond

Next ==
  \/ Handler \/ CallHandle
  \/ Tick \/ Statement \/ Enqueue \/ Return \/ Poll
  \/ Enter \/ Finish \/ ConversionFails

\* The handler's own steps are C code that runs on; a running script lets
\* time pass and QuickJS polls. Nothing makes a script or a statement return.
Spec == Init /\ [][Next]_vars /\ WF_vars(Handler) /\ SF_vars(Tick) /\ SF_vars(Poll)

-----------------------------------------------------------------------------
(* Properties *)

\* Types; methods of res are only pending while script runs that has it, and so
\* is a statement.
TypeOK ==
  /\ pc \in {"load", "module", "moduleJobs", "moduleJob", "lookup", "handle", "jobs",
             "job", "respond", "describe", "answered", "failed"}
  /\ app \in Apps /\ loaded \subseteq DOMAIN app
  /\ elapsed \in 0 .. MaxTime /\ spent \in Nat /\ waited \in Nat
  /\ unpolled \in 0 .. Step
  /\ sql \in BOOLEAN /\ (sql => Running)
  /\ jobs \in 0 .. MaxJobs
  /\ outcome \in {"none", "value", "exception", "interrupted"}
  /\ stack \in Seq(Calls) /\ Len(stack) <= Depth
  /\ stack # <<>> => HasRes
  /\ res \in ResponseType /\ first \in {NoBody, "text", "json"}
  /\ broken \in BOOLEAN /\ reentered \in BOOLEAN /\ hidden \in BOOLEAN

\* The files the imports of loaded modules mean.
Meant == UNION {{Meaning(m, spec) : spec \in app[m]} : m \in loaded}

\* Every import of every module that is loaded is bound to the file it means,
\* as seen from the importing module, and nothing else is loaded: an import that
\* the normalizer does not resolve fails the request, it never finds another
\* file of the database.
LoadsWhatItMeans ==
  pc \notin {"load", "failed"} => loaded \ {Main} = Meant \ {Main}

\* The imports that DOCS/custom_content.md:264 lists as supported, "./" and "../",
\* are resolved: the loading only fails over one that means no file. The code
\* does not resolve "../".
RelativeIsResolved ==
  pc = "failed" /\ ~(Requested \subseteq loaded) => ~(Meant \subseteq DOMAIN app)

\* "Flag to prevent double-send" (response.h): the body that is sent is the
\* first one the script gave, by whatever mixture of send, json, status and
\* set in the handler and its jobs; unless a conversion called res again, when
\* the flag was tested before and set after.
FirstSendWins == res.sent /\ ~reentered => res.body = first

\* A JSON body goes out with its Content-Type unless the table is full or the
\* copy of that header could not be allocated (the table has a NULL entry then);
\* a text body never does.
JsonIsTyped ==
  ~reentered =>
    /\ res.body = "json" =>
         \/ Range(res.headers) \cap {"json", "null"} # {}
         \/ Len(res.headers) = HeaderSlots
    /\ res.body = "text" => Range(res.headers) \cap {"json", "null"} = {}

\* The table is never overrun, by set and json together, in the handler and
\* its jobs; unless a conversion called res again.
HeadersFit == Len(res.headers) <= HeaderSlots \/ reentered

\* "5s execution timeout" (README.md:12), which the code keeps only if nothing
\* hides an interruption: then script outside of SQL holds the handler's mutex
\* for a bounded time, jobs that make jobs included: once for the module and
\* once for app.handle, the limit, the time to notice, once more for a job that is
\* in the queue and once more for the description of the exception.
HoldBound == hidden \/ spent - waited <= Timeout + 3 * Step

\* app.handle and its jobs are not interrupted before they had the whole
\* limit for themselves, however long the module took.
FullBudget == outcome = "interrupted" => spent > Timeout

\* An answer leaves no continuation of the script behind, unless a job failed
\* and the loop was left for it.
NoJobLost == pc = "answered" /\ jobs > 0 => broken

\* Every request's script comes to an end, with an answer or an error, even one
\* that loops or keeps making jobs; unless it hides an interruption, or stays in
\* a statement of SQL.
ScriptEnds == <>(pc \in {"answered", "failed"} \/ hidden) \/ <>[]sql

=============================================================================

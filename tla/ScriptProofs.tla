---------------------------- MODULE ScriptProofs ----------------------------
(***************************************************************************)
(* What holds of one request's script for every time limit, polling        *)
(* interval, header table and number of jobs.                              *)
(***************************************************************************)
EXTENDS Script, SequenceTheorems, WellFoundedInduction, TLAPS

-----------------------------------------------------------------------------
(* Types *)

\* What a method does to a response leaves a response.
LEMMA ResultType ==
  ASSUME NEW r \in ResponseType, NEW call \in Calls, NEW s \in Results(r, call)
  PROVE  s \in ResponseType
  <1>1. \A h \in {"set", "json", "null"}, q \in ResponseType :
          WithHeader(q, h) \in ResponseType
    <2> TAKE h \in {"set", "json", "null"}, q \in ResponseType
    <2>1. q.headers \in Seq({"set", "json", "null"})
      BY DEF ResponseType
    <2>2. Append(q.headers, h) \in Seq({"set", "json", "null"})
      BY <2>1
    <2> QED BY <2>2 DEF ResponseType, WithHeader
  <1>2. \A b \in {"text", "json"} : WithBody(r, b) \in ResponseType
    BY DEF ResponseType, WithBody
  <1>3. \A q \in ResponseType : Typed(q) \in ResponseType /\ Untyped(q) \in ResponseType
    BY <1>1 DEF Typed, Untyped
  <1>4. [r EXCEPT !.body = NoBody] \in ResponseType
    BY DEF ResponseType
  <1>5. \A code \in Codes : WithStatus(r, code) \in ResponseType
    BY DEF ResponseType, WithStatus
  <1>6. CASE call = "status"
    BY <1>5, <1>6 DEF Results
  <1>7. CASE call = "send"
    BY <1>2, <1>4, <1>7 DEF Results
  <1>8. CASE call = "json"
    BY <1>2, <1>3, <1>4, <1>8 DEF Results
  <1>9. CASE call = "set"
    BY <1>1, <1>9 DEF Results
  <1> QED BY <1>6, <1>7, <1>8, <1>9 DEF Calls

\* Without its last call the stack is a stack, one shorter.
LEMMA Popped ==
  ASSUME NEW s \in Seq(Calls), s # <<>>
  PROVE  /\ Len(s) \in Nat \ {0}
         /\ Last(s) \in Calls
         /\ Front(s) \in Seq(Calls) /\ Len(Front(s)) = Len(s) - 1
         /\ Len(s) = 1 => Front(s) = <<>> /\ s = <<Last(s)>>
  <1>1. Len(s) \in Nat \ {0} /\ \A i \in 1 .. Len(s) : s[i] \in Calls
    OBVIOUS
  <1>2. Front(s) \in Seq(Calls) /\ Len(Front(s)) = Len(s) - 1
    <2> DEFINE n == Len(s) - 1
               t == SubSeq(s, 1, n)
    <2>1. n \in Nat /\ \A i \in 1 .. n : s[i] \in Calls
      BY <1>1
    <2> HIDE DEF n
    <2>2. t \in Seq(Calls) /\ Len(t) = IF 1 <= n THEN n - 1 + 1 ELSE 0
      BY <2>1, SubSeqProperties
    <2> HIDE DEF t
    <2>3. Len(t) = n
      BY <2>1, <2>2
    <2> QED BY <2>2, <2>3 DEF Front, t, n
  <1>3. Last(s) \in Calls
    BY <1>1 DEF Last
  <1>4. Len(s) = 1 => Front(s) = <<>> /\ s = <<Last(s)>>
    BY <1>1, <1>2 DEF Last
  <1> QED BY <1>1, <1>2, <1>3, <1>4

\* So is what is left of the stack when its last calls are gone.
LEMMA Cut ==
  ASSUME NEW s \in Seq(Calls), NEW k \in 0 .. Len(s)
  PROVE  /\ SubSeq(s, 1, k) \in Seq(Calls)
         /\ Len(SubSeq(s, 1, k)) = k /\ k <= Len(s)
         /\ SubSeq(s, 1, k) # <<>> => s # <<>>
  <1>1. Len(s) \in Nat /\ \A i \in 1 .. Len(s) : s[i] \in Calls
    OBVIOUS
  <1>2. k \in Nat /\ k <= Len(s) /\ \A i \in 1 .. k : s[i] \in Calls
    BY <1>1
  <1>3. SubSeq(s, 1, k) \in Seq(Calls) /\ Len(SubSeq(s, 1, k)) = k
    <2> DEFINE t == SubSeq(s, 1, k)
    <2>1. t \in Seq(Calls) /\ Len(t) = IF 1 <= k THEN k - 1 + 1 ELSE 0
      BY <1>2, SubSeqProperties
    <2> HIDE DEF t
    <2>2. Len(t) = k
      BY <1>2, <2>1
    <2> QED BY <2>1, <2>2 DEF t
  <1>4. CASE s = <<>>
    <2>1. k = 0
      BY <1>2, <1>4
    <2> QED BY <1>2, <1>3, <2>1, SubSeqEmpty
  <1> QED BY <1>2, <1>3, <1>4

\* A script that ends leaves no call pending, and the handler at a step of its
\* own.
LEMMA EndsType ==
  ASSUME TypeOK, NEW result \in {"value", "exception", "interrupted"}, Ends(result)
  PROVE  /\ pc' \in {"moduleJobs", "jobs", "respond", "describe", "failed"}
         /\ outcome' \in {"none", "value", "exception", "interrupted"}
         /\ broken' \in BOOLEAN
  BY DEF Ends, TypeOK, AfterJob

LEMMA TypeInit == Init => TypeOK
  <1> SUFFICES ASSUME Init PROVE TypeOK
    OBVIOUS
  <1>1. Fresh \in ResponseType
    BY DEF Fresh, ResponseType
  <1>2. stack \in Seq(Calls) /\ Len(stack) <= Depth /\ stack = <<>>
    BY BoundsAssumption DEF Init
  <1>3. 0 \in 0 .. MaxTime /\ 0 \in 0 .. Step /\ 0 \in 0 .. MaxJobs
    BY TimeAssumption, BoundsAssumption DEF MaxTime
  <1> QED BY <1>1, <1>2, <1>3, AppsAssumption DEF Init, TypeOK

LEMMA TypeStep == TypeOK /\ [Next]_vars => TypeOK'
  <1> SUFFICES ASSUME TypeOK, [Next]_vars PROVE TypeOK'
    OBVIOUS
  <1> USE TimeAssumption, BoundsAssumption
  <1>1. CASE Import
    BY <1>1 DEF TypeOK, Import, HasSource, clock, answer, HasRes, Running
  <1>2. CASE Linked \/ Lookup \/ JobsDone \/ Respond
    BY <1>2 DEF TypeOK, Linked, Lookup, JobsDone, Respond, clock, answer, HasRes, Running
  <1>3. CASE TakeJob
    BY <1>3 DEF TypeOK, TakeJob, JobClock, answer, HasRes, Running
  <1>4. CASE CallHandle
    <2>1. stack = <<>> /\ stack' = <<>> /\ sql = FALSE /\ sql' = FALSE
      BY <1>4 DEF TypeOK, CallHandle, HasRes
    <2>2. res' \in ResponseType
      BY <1>4 DEF CallHandle, Fresh, ResponseType
    <2>3. elapsed' \in 0 .. MaxTime /\ spent' \in Nat /\ waited' \in Nat
      BY <1>4 DEF TypeOK, CallHandle, BeginExec, MaxTime
    <2> QED BY <1>4, <2>1, <2>2, <2>3 DEF TypeOK, CallHandle
  <1>5. CASE Tick
    BY <1>5 DEF TypeOK, Tick, answer, MaxTime, HasRes, Running
  <1>6. CASE Statement
    BY <1>6 DEF TypeOK, Statement, answer, HasRes, Running
  <1>7. CASE Enqueue
    BY <1>7 DEF TypeOK, Enqueue, clock, answer, HasRes, Running
  <1>8. CASE Return
    <2>1. PICK result \in {"value", "exception"} : Ends(result)
      BY <1>8 DEF Return
    <2>2. stack = <<>> /\ stack' = <<>> /\ sql = FALSE /\ sql' = FALSE
      BY <1>8 DEF Return, clock, answer, TypeOK
    <2> QED BY <1>8, <2>1, <2>2, EndsType DEF TypeOK, Return, clock, answer
  <1>9. CASE Poll
    <2>0. sql = FALSE /\ sql' = FALSE
      BY <1>9 DEF TypeOK, Poll, Executing
    <2>1. CASE ~Overdue
      BY <1>9, <2>0, <2>1 DEF TypeOK, Poll, HasRes
    <2>2. ASSUME NEW result \in {"value", "interrupted"},
                 stack' = <<>>, Ends(result), hidden' \in BOOLEAN
          PROVE  TypeOK'
      BY <1>9, <2>0, <2>2, EndsType DEF TypeOK, Poll
    <2>3. ASSUME NEW k \in 0 .. Len(stack), stack' = SubSeq(stack, 1, k),
                 hidden' = TRUE, UNCHANGED <<pc, outcome, broken>>
          PROVE  TypeOK'
      <3>1. stack' \in Seq(Calls) /\ Len(stack') <= Len(stack) /\ (stack' # <<>> => stack # <<>>)
        BY <2>3, Cut DEF TypeOK
      <3>2. stack' # <<>> => HasRes'
        BY <2>3, <3>1 DEF TypeOK, HasRes
      <3>3. Len(stack') <= Depth
        <4>1. Len(stack) \in Nat /\ Len(stack') \in Nat /\ Len(stack) <= Depth
          BY <3>1 DEF TypeOK
        <4> QED BY <3>1, <4>1
      <3> QED BY <1>9, <2>0, <2>3, <3>1, <3>2, <3>3 DEF TypeOK, Poll
    <2>4. hidden \in BOOLEAN
      BY DEF TypeOK
    <2> QED BY <1>9, <2>1, <2>2, <2>3, <2>4 DEF Poll, Interrupted
  <1>10. CASE Enter
    <2>1. stack' \in Seq(Calls) /\ Len(stack') <= Depth
      BY <1>10 DEF TypeOK, Enter
    <2> QED BY <1>10, <2>1 DEF TypeOK, Enter, clock, HasRes
  <1>11. CASE Finish
    <2>1. stack # <<>> /\ stack \in Seq(Calls) /\ res \in ResponseType
      BY <1>11 DEF Finish, TypeOK
    <2>2. res' \in ResponseType /\ stack' \in Seq(Calls) /\ Len(stack') <= Depth
      BY <1>11, <2>1, Popped, ResultType DEF Finish, TypeOK
    <2>3. first' \in {NoBody, "text", "json"}
      BY <1>11, <2>2 DEF Finish, TypeOK, ResponseType
    <2> QED BY <1>11, <2>1, <2>2, <2>3 DEF TypeOK, Finish, clock, HasRes, Running
  <1>12. CASE ConversionFails
    BY <1>12, Popped DEF TypeOK, ConversionFails, clock, HasRes, Running
  <1>13. CASE UNCHANGED vars
    BY <1>13 DEF TypeOK, vars, HasRes, Running
  <1> QED BY <1>1, <1>2, <1>3, <1>4, <1>5, <1>6, <1>7, <1>8, <1>9, <1>10, <1>11,
             <1>12, <1>13 DEF Next, Handler

\* The state of a request's script stays in its type: no call outlives the
\* piece of script that made it.
THEOREM Typing == Spec => []TypeOK
  BY TypeInit, TypeStep, PTL DEF Spec

-----------------------------------------------------------------------------
(* Time and the job queue *)

\* Before res exists, and in the description of a module's exception.
Early ==
  \/ pc \in {"load", "module", "moduleJobs", "moduleJob", "lookup"}
  \/ pc = "describe" /\ outcome = "none"

\* The time the clock counts and SQL does not take.
Held == spent - waited

\* How far that can be at each place: a first piece of script runs Step past the
\* limit, and when it was interrupted the ones after it run until the next poll.
HeldInv ==
  /\ pc \in {"module", "handle"} => Held <= Timeout + unpolled
  /\ pc \in {"moduleJobs", "moduleJob", "lookup", "jobs", "job"} =>
       Held <= Timeout + Step + unpolled
  /\ pc \in {"respond", "describe"} => Held <= Timeout + 2 * Step + unpolled
  /\ Held <= Timeout + 3 * Step

\* app.handle has an outcome once it has returned.
OutcomeInv ==
  /\ pc \in {"load", "module", "moduleJobs", "moduleJob", "lookup", "handle"} =>
       outcome = "none"
  /\ pc \in {"jobs", "job", "respond"} => outcome # "none"

TimeInv ==
  /\ elapsed = spent
  /\ pc = "load" => spent = 0 /\ waited = 0
  /\ waited <= spent
  /\ outcome = "interrupted" => spent > Timeout
  /\ hidden \/ HeldInv

\* Once the loop is left, the queue is empty or a job failed.
QueueInv == pc \in {"respond", "answered"} => jobs = 0 \/ broken

HandlerInv == OutcomeInv /\ TimeInv /\ QueueInv

LEMMA HandlerInit == Init => HandlerInv
  BY TimeAssumption
  DEF Init, HandlerInv, OutcomeInv, TimeInv, HeldInv, Held, QueueInv

\* A piece of script that ends within the time of its place leaves the handler
\* within the time of the next, also when it was interrupted.
LEMMA HeldEnds ==
  ASSUME TypeOK, HeldInv, NEW result \in {"value", "exception", "interrupted"},
         Ends(result), UNCHANGED <<spent, waited>>,
         unpolled' = unpolled \/ (unpolled' = 0 /\ result # "value")
  PROVE  HeldInv'
  <1> DEFINE h == Held
             u == unpolled
             k == Held'
             v == unpolled'
  <1>1. /\ h \in Int /\ u \in Nat /\ u <= Step /\ k = h
        /\ v \in Nat /\ (v = u \/ result # "value")
        /\ Timeout \in Nat /\ Step \in Nat
    BY TimeAssumption DEF TypeOK, Held
  <1> HIDE DEF h, u, k, v
  <1>2. /\ pc \in {"module", "handle"} => h <= Timeout + u
        /\ pc \in {"moduleJobs", "moduleJob", "lookup", "jobs", "job"} =>
             h <= Timeout + Step + u
        /\ pc \in {"respond", "describe"} => h <= Timeout + 2 * Step + u
        /\ h <= Timeout + 3 * Step
    BY DEF HeldInv, h, u
  <1>a. k \in Int /\ h <= k /\ k <= h /\ k <= Timeout + 3 * Step
    BY <1>1, <1>2
  <1>b. h <= Timeout + u =>
          /\ k <= Timeout + Step + v
          /\ k <= Timeout + 2 * Step + v
    BY <1>1, <1>a
  <1>c. h <= Timeout + Step + u => k <= Timeout + 2 * Step + v
    BY <1>1, <1>a
  <1>3. CASE pc = "module"
    <2>1. pc' \in {"moduleJobs", "describe"}
      BY <1>3 DEF Ends
    <2> QED BY <1>a, <1>b, <1>2, <1>3, <2>1 DEF HeldInv, k, v
  <1>4. CASE pc = "moduleJob"
    <2>1. pc' = "describe" \/ (pc' = "moduleJobs" /\ result = "value")
      BY <1>4 DEF Ends
    <2>2. result = "value" => k <= Timeout + Step + v
      BY <1>1, <1>2, <1>4
    <2> QED BY <1>a, <1>c, <1>2, <1>4, <2>1, <2>2 DEF HeldInv, k, v
  <1>5. CASE pc = "handle"
    <2>1. pc' = "jobs"
      BY <1>5 DEF Ends
    <2> QED BY <1>a, <1>b, <1>2, <1>5, <2>1 DEF HeldInv, k, v
  <1>6. CASE pc = "job"
    <2>1. pc' = "respond" \/ (pc' = "jobs" /\ result = "value")
      BY <1>6 DEF Ends, AfterJob
    <2>2. result = "value" => k <= Timeout + Step + v
      BY <1>1, <1>2, <1>6
    <2> QED BY <1>a, <1>c, <1>2, <1>6, <2>1, <2>2 DEF HeldInv, k, v
  <1>7. CASE pc \in {"lookup", "describe"}
    <2>1. pc' = "failed"
      BY <1>7 DEF Ends
    <2> QED BY <1>1, <1>2, <1>7, <2>1 DEF HeldInv, k, v
  <1> QED BY <1>3, <1>4, <1>5, <1>6, <1>7 DEF Ends

\* The steps of the handler's C code keep what is held.
LEMMA HeldKept ==
  ASSUME TypeOK, HeldInv, UNCHANGED <<spent, waited, unpolled>>,
         \/ pc' = pc
         \/ pc = "load" /\ Held = 0
         \/ {pc, pc'} \subseteq {"moduleJobs", "moduleJob", "lookup", "jobs", "job"}
         \/ pc \in {"jobs", "respond"} /\ pc' \in {"respond", "describe"}
         \/ pc' \in {"answered", "failed"}
  PROVE  HeldInv'
  <1> DEFINE h == Held
             u == unpolled
             v == unpolled'
  <1>1. /\ h \in Int /\ u \in Nat /\ u <= Step /\ h' = h /\ v = u
        /\ Timeout \in Nat /\ Step \in Nat /\ Step > 0
    BY TimeAssumption DEF TypeOK, Held
  <1>2. pc = "load" /\ Held = 0 => h = 0
    OBVIOUS
  <1> HIDE DEF h, u, v
  <1>3. /\ pc \in {"module", "handle"} => h <= Timeout + u
        /\ pc \in {"moduleJobs", "moduleJob", "lookup", "jobs", "job"} =>
             h <= Timeout + Step + u
        /\ pc \in {"respond", "describe"} => h <= Timeout + 2 * Step + u
        /\ h <= Timeout + 3 * Step
    BY DEF HeldInv, h, u
  <1>4. CASE pc' = pc
    BY <1>1, <1>3, <1>4 DEF HeldInv, h, u, v
  <1>5. CASE pc = "load" /\ Held = 0
    BY <1>1, <1>2, <1>5 DEF HeldInv, h, u, v
  <1>6. CASE {pc, pc'} \subseteq {"moduleJobs", "moduleJob", "lookup", "jobs", "job"}
    BY <1>1, <1>3, <1>6 DEF HeldInv, h, u, v
  <1>7. CASE pc' \in {"answered", "failed"}
    BY <1>1, <1>3, <1>7 DEF HeldInv, h, u, v
  <1>8. CASE pc \in {"jobs", "respond"} /\ pc' \in {"respond", "describe"}
    BY <1>1, <1>3, <1>8 DEF HeldInv, h, u, v
  <1> QED BY <1>4, <1>5, <1>6, <1>7, <1>8

\* Where the handler goes from a piece of script, and with what.
LEMMA EndsTo ==
  ASSUME OutcomeInv, QueueInv, NEW result \in {"value", "exception", "interrupted"},
         Ends(result), jobs' = jobs
  PROVE  /\ OutcomeInv' /\ QueueInv'
         /\ pc # "load" /\ pc' # "load"
         /\ outcome' = outcome \/ outcome' = result
  <1> USE DEF OutcomeInv, QueueInv
  <1>1. CASE pc = "module"
    BY <1>1 DEF Ends
  <1>2. CASE pc = "moduleJob"
    BY <1>2 DEF Ends
  <1>3. CASE pc = "handle"
    BY <1>3 DEF Ends
  <1>4. CASE pc = "job"
    <2>1. /\ outcome' = outcome
          /\ pc' = "jobs" \/ (pc' = "respond" /\ broken' = TRUE)
      BY <1>4 DEF Ends, AfterJob
    <2> QED BY <1>4, <2>1
  <1>5. CASE pc \in {"lookup", "describe"}
    BY <1>5 DEF Ends
  <1> QED BY <1>1, <1>2, <1>3, <1>4, <1>5 DEF Ends

LEMMA HandlerStep == TypeOK /\ HandlerInv /\ [Next]_vars => HandlerInv'
  <1> SUFFICES ASSUME TypeOK, OutcomeInv, TimeInv, QueueInv, [Next]_vars
               PROVE  OutcomeInv' /\ TimeInv' /\ QueueInv'
    BY DEF HandlerInv
  <1>0. /\ elapsed \in Nat /\ spent \in Nat /\ waited \in Nat
        /\ unpolled \in Nat /\ unpolled <= Step
        /\ Timeout \in Nat /\ Timeout > 0 /\ Step \in Nat /\ Step > 0
    BY TimeAssumption DEF TypeOK, MaxTime
  <1>1. ASSUME UNCHANGED <<elapsed, spent, waited, outcome>>, pc' = "load" => pc = "load",
               hidden \/ HeldInv => hidden' \/ HeldInv'
        PROVE  TimeInv'
    BY <1>1 DEF TimeInv
  <1>2. CASE Import \/ Linked \/ TakeJob \/ Lookup \/ JobsDone \/ Respond
    <2>1. UNCHANGED <<elapsed, spent, waited, unpolled, outcome, hidden, broken>>
      BY <1>2
      DEF Import, Linked, TakeJob, JobClock, Lookup, JobsDone, Respond, clock, answer
    <2>2. OutcomeInv'
      BY <1>2, <2>1 DEF OutcomeInv, Import, Linked, TakeJob, Lookup, JobsDone, Respond
    <2>3. QueueInv'
      BY <1>2, <2>1 DEF QueueInv, Import, Linked, TakeJob, Lookup, JobsDone, Respond
    <2>4. pc' = "load" => pc = "load"
      BY <1>2 DEF Import, Linked, TakeJob, Lookup, JobsDone, Respond
    <2>5. \/ pc = "load"
          \/ {pc, pc'} \subseteq {"moduleJobs", "moduleJob", "lookup", "jobs", "job"}
          \/ pc \in {"jobs", "respond"} /\ pc' \in {"respond", "describe"}
          \/ pc' \in {"answered", "failed"}
      BY <1>2 DEF Import, Linked, TakeJob, Lookup, JobsDone, Respond
    <2>6. pc = "load" => Held = 0
      BY DEF TimeInv, Held
    <2>7. HeldInv => HeldInv'
      <3>1. UNCHANGED <<spent, waited, unpolled>>
        BY <2>1
      <3> QED BY <2>5, <2>6, <3>1, HeldKept
    <2> QED BY <1>1, <2>1, <2>2, <2>3, <2>4, <2>7
  <1>3. CASE CallHandle
    <2>1. OutcomeInv' /\ QueueInv' /\ outcome' = "none" /\ pc' # "load" /\ hidden' = hidden
      BY <1>3 DEF OutcomeInv, QueueInv, CallHandle
    <2>2. CASE pc' = "handle" /\ elapsed' = 0 /\ spent' = 0 /\ waited' = 0
      <3>1. HeldInv'
        BY <1>0, <1>3, <2>2 DEF HeldInv, Held, CallHandle
      <3> QED BY <2>1, <2>2, <3>1 DEF TimeInv
    <2>3. CASE pc' = "failed" /\ UNCHANGED <<elapsed, spent, waited>>
      <3>1. UNCHANGED <<unpolled, outcome>>
        BY <1>3 DEF CallHandle
      <3> QED BY <1>1, <2>1, <2>3, <3>1, HeldKept
    <2> QED BY <1>3, <2>1, <2>2, <2>3 DEF CallHandle, BeginExec
  <1>4. CASE Tick
    <2>1. /\ elapsed' = elapsed + 1 /\ spent' = spent + 1
          /\ UNCHANGED <<pc, sql, jobs, outcome, broken, hidden>>
          /\ pc # "load" /\ Running
      BY <1>4 DEF Tick, Running, answer
    <2>2. OutcomeInv' /\ QueueInv'
      BY <2>1 DEF OutcomeInv, QueueInv
    <2>3. CASE sql
      <3>1. waited' = waited + 1 /\ unpolled' = unpolled
        BY <1>4, <2>3 DEF Tick
      <3>2. Held' = Held
        BY <1>0, <2>1, <3>1 DEF Held
      <3> QED BY <1>0, <2>1, <2>2, <3>1, <3>2 DEF TimeInv, HeldInv
    <2>4. CASE ~sql
      <3>1. waited' = waited /\ unpolled' = unpolled + 1 /\ unpolled' <= Step
        BY <1>0, <1>4, <2>4 DEF Tick
      <3>2. Held' = Held + 1 /\ Held \in Int
        BY <1>0, <2>1, <3>1 DEF Held
      <3>3. HeldInv => HeldInv'
        <4> DEFINE h == Held
                   k == Held'
        <4>1. h \in Int /\ k = h + 1
          BY <3>2
        <4> HIDE DEF h, k
        <4> QED BY <1>0, <2>1, <3>1, <4>1 DEF HeldInv, Running, h, k
      <3> QED BY <1>0, <2>1, <2>2, <3>1, <3>3 DEF TimeInv
    <2> QED BY <2>3, <2>4
  <1>5. CASE Statement \/ Enqueue \/ Enter \/ Finish \/ ConversionFails
    <2>1. /\ UNCHANGED <<pc, elapsed, spent, waited, unpolled, outcome, broken, hidden>>
          /\ pc \notin {"respond", "answered"}
      BY <1>5
      DEF Statement, Enqueue, Enter, Finish, ConversionFails, Running, Executing, HasRes,
          clock, answer, TypeOK
    <2>2. HeldInv => HeldInv'
      <3>1. UNCHANGED <<spent, waited, unpolled>> /\ pc' = pc
        BY <2>1
      <3> QED BY <3>1, HeldKept
    <2>3. OutcomeInv' /\ QueueInv'
      BY <2>1 DEF OutcomeInv, QueueInv
    <2> QED BY <1>1, <2>1, <2>2, <2>3
  <1>6. CASE Return
    <2>1. PICK result \in {"value", "exception"} : Ends(result)
      BY <1>6 DEF Return
    <2>2. UNCHANGED <<elapsed, spent, waited, unpolled, jobs, hidden>>
      BY <1>6 DEF Return, clock, answer
    <2>3. HeldInv => HeldInv'
      BY <2>1, <2>2, HeldEnds
    <2>4. /\ OutcomeInv' /\ QueueInv' /\ pc' # "load"
          /\ outcome' = outcome \/ outcome' # "interrupted"
      BY <2>1, <2>2, EndsTo
    <2> QED BY <2>2, <2>3, <2>4 DEF TimeInv
  <1>7. CASE Poll
    <2>1. UNCHANGED <<elapsed, spent, waited, jobs>> /\ unpolled' = 0
      BY <1>7 DEF Poll
    <2>2. Executing
      BY <1>7 DEF Poll
    <2>3. CASE ~Overdue
      <3>1. UNCHANGED <<pc, outcome, broken, hidden>>
        BY <1>7, <2>3 DEF Poll
      <3>2. Held \in Int /\ Held' = Held /\ Held <= Timeout
        BY <1>0, <2>1, <2>3 DEF Held, Overdue, TimeInv
      <3>3. HeldInv'
        BY <1>0, <2>1, <3>1, <3>2 DEF HeldInv
      <3> QED BY <1>1, <2>1, <3>1, <3>3 DEF OutcomeInv, QueueInv
    <2>4. CASE Overdue /\ Ends("interrupted") /\ hidden' = hidden
      <3>1. HeldInv => HeldInv'
        BY <2>1, <2>4, HeldEnds
      <3>2. OutcomeInv' /\ QueueInv' /\ pc' # "load"
        BY <2>1, <2>4, EndsTo
      <3>3. spent' > Timeout
        BY <1>0, <2>1, <2>4 DEF Overdue, TimeInv
      <3> QED BY <2>1, <2>4, <3>1, <3>2, <3>3 DEF TimeInv
    <2>5. CASE Overdue /\ Ends("value") /\ hidden' = TRUE
      <3>1. OutcomeInv' /\ QueueInv' /\ pc' # "load"
        BY <2>1, <2>5, EndsTo
      <3>2. spent' > Timeout
        BY <1>0, <2>1, <2>5 DEF Overdue, TimeInv
      <3> QED BY <2>1, <2>5, <3>1, <3>2 DEF TimeInv
    <2>6. CASE Overdue /\ hidden' = TRUE /\ UNCHANGED <<pc, outcome, broken>>
      <3>1. pc # "load"
        BY <2>2 DEF Executing, Running
      <3> QED BY <1>1, <2>1, <2>6, <3>1 DEF OutcomeInv, QueueInv
    <2> QED BY <1>7, <2>3, <2>4, <2>5, <2>6 DEF Poll, Interrupted
  <1>8. CASE UNCHANGED vars
    <2>1. UNCHANGED <<pc, elapsed, spent, waited, unpolled, jobs, outcome, broken, hidden>>
      BY <1>8 DEF vars
    <2>2. HeldInv => HeldInv'
      <3>1. UNCHANGED <<spent, waited, unpolled>> /\ pc' = pc
        BY <2>1
      <3> QED BY <3>1, HeldKept
    <2>3. OutcomeInv' /\ QueueInv'
      BY <2>1 DEF OutcomeInv, QueueInv
    <2> QED BY <1>1, <2>1, <2>2, <2>3
  <1> QED BY <1>2, <1>3, <1>4, <1>5, <1>6, <1>7, <1>8 DEF Next, Handler

LEMMA HandlerSafe == Spec => [](TypeOK /\ HandlerInv)
  BY TypeInit, TypeStep, HandlerInit, HandlerStep, PTL DEF Spec

\* Script that is not hidden from its interruptions, SQL left aside, holds the
\* mutex for at most the limit and three polling intervals in each half of the
\* request, whatever the limit, the interval and the number of jobs.
THEOREM HoldBounded == Spec => []HoldBound
  <1>1. TypeOK /\ HandlerInv => HoldBound
    BY DEF HandlerInv, TimeInv, HeldInv, Held, HoldBound
  <1> QED BY HandlerSafe, <1>1, PTL

\* The handler is only interrupted after its own full limit.
THEOREM BudgetIsFull == Spec => []FullBudget
  <1>1. HandlerInv => FullBudget
    BY DEF HandlerInv, TimeInv, FullBudget
  <1> QED BY HandlerSafe, <1>1, PTL

\* Jobs are left in the queue only behind a failing job.
THEOREM JobsAreRun == Spec => []NoJobLost
  <1>1. HandlerInv => NoJobLost
    BY DEF HandlerInv, QueueInv, NoJobLost
  <1> QED BY HandlerSafe, <1>1, PTL

-----------------------------------------------------------------------------
(* The response *)

\* What a response and the first body f given to it promise.
Promise(r, f) ==
  /\ Len(r.headers) <= HeaderSlots
  /\ ~r.sent => r.body = NoBody /\ f = NoBody /\ Range(r.headers) \cap {"json", "null"} = {}
  /\ r.sent => r.body = f /\ f # NoBody
  /\ r.body = "json" =>
       Range(r.headers) \cap {"json", "null"} # {} \/ Len(r.headers) = HeaderSlots
  /\ r.body = "text" => Range(r.headers) \cap {"json", "null"} = {}

\* Without calls from conversions at most one call is pending, and what it
\* tested on entry is still so when it acts.
ResponseInv ==
  /\ Early => res = Fresh /\ first = NoBody /\ stack = <<>>
  /\ \/ reentered
     \/ /\ Len(stack) <= 1
        /\ stack # <<>> => Open(res, Last(stack))
        /\ Promise(res, first)

LEMMA RangeOfAppend ==
  ASSUME NEW S, NEW s \in Seq(S), NEW e \in S
  PROVE  Range(Append(s, e)) = Range(s) \cup {e}
  <1>1. /\ DOMAIN Append(s, e) = 1 .. Len(s) + 1
        /\ DOMAIN s = 1 .. Len(s) /\ Len(s) \in Nat
        /\ \A i \in 1 .. Len(s) : Append(s, e)[i] = s[i]
        /\ Append(s, e)[Len(s) + 1] = e
    OBVIOUS
  <1> QED BY <1>1 DEF Range

\* A call that was open acts: the response keeps its promise.
LEMMA ActStep ==
  ASSUME NEW r \in ResponseType, NEW call \in Calls, NEW s \in Results(r, call), NEW f,
         Open(r, call), Promise(r, f)
  PROVE  Promise(s, IF f = NoBody THEN s.body ELSE f)
  <1> DEFINE g == IF f = NoBody THEN s.body ELSE f
  <1> SUFFICES Promise(s, g)
    OBVIOUS
  <1> USE DEF Promise
  <1>1. /\ r.headers \in Seq({"set", "json", "null"}) /\ Len(r.headers) \in Nat
        /\ HeaderSlots \in Nat
    BY HeaderSlotsAssumption DEF ResponseType
  <1>2. \A h \in {"set", "json", "null"} :
          /\ Len(Append(r.headers, h)) = Len(r.headers) + 1
          /\ Range(Append(r.headers, h)) = Range(r.headers) \cup {h}
    BY <1>1, RangeOfAppend
  <1>3. CASE call = "status"
    <2>1. s.headers = r.headers /\ s.body = r.body /\ s.sent = r.sent
      BY <1>3 DEF Results, WithStatus, ResponseType
    <2> QED BY <2>1
  <1>4. CASE call = "set"
    <2>1. s.body = r.body /\ s.sent = r.sent
      BY <1>4 DEF Results, WithHeader, ResponseType
    <2>2. s.headers = r.headers \/ s.headers = Append(r.headers, "set")
      BY <1>4 DEF Results, WithHeader, ResponseType
    <2>3. Len(r.headers) < HeaderSlots
      BY <1>4 DEF Open
    <2>4. Len(s.headers) <= HeaderSlots
      BY <1>1, <1>2, <2>2, <2>3
    <2>5. Range(s.headers) \cap {"json", "null"} = Range(r.headers) \cap {"json", "null"}
      <3>1. CASE s.headers = Append(r.headers, "set")
        <4>1. Range(s.headers) = Range(r.headers) \cup {"set"}
          BY <1>2, <3>1
        <4> QED BY <4>1
      <3> QED BY <2>2, <3>1
    <2> QED BY <1>1, <2>1, <2>3, <2>4, <2>5
  <1>5. CASE call = "send"
    <2>1. ~r.sent
      BY <1>5 DEF Open
    <2>2. CASE s = [r EXCEPT !.body = NoBody]
      <3>1. s.headers = r.headers /\ s.body = NoBody /\ s.sent = r.sent
        BY <2>2 DEF ResponseType
      <3> QED BY <2>1, <3>1 DEF NoBody
    <2>3. CASE s = WithBody(r, "text")
      <3>1. s.headers = r.headers /\ s.body = "text" /\ s.sent = TRUE
        BY <2>3 DEF WithBody, ResponseType
      <3> QED BY <2>1, <3>1 DEF NoBody
    <2> QED BY <1>5, <2>2, <2>3 DEF Results
  <1>6. CASE call = "json"
    <2>1. ~r.sent
      BY <1>6 DEF Open
    <2>2. CASE s = [r EXCEPT !.body = NoBody]
      <3>1. s.headers = r.headers /\ s.body = NoBody /\ s.sent = r.sent
        BY <2>2 DEF ResponseType
      <3> QED BY <2>1, <3>1 DEF NoBody
    <2>3. ASSUME NEW h \in {"json", "null"},
                 s = IF Len(r.headers) < HeaderSlots
                       THEN WithHeader(WithBody(r, "json"), h) ELSE WithBody(r, "json")
          PROVE  Promise(s, g)
      <3> DEFINE q == WithBody(r, "json")
      <3>1. q.headers = r.headers /\ q.body = "json" /\ q.sent = TRUE /\ q \in ResponseType
        BY DEF WithBody, ResponseType
      <3> HIDE DEF q
      <3>2. s = IF Len(r.headers) < HeaderSlots THEN WithHeader(q, h) ELSE q
        BY <2>3 DEF q
      <3>3. s.body = "json" /\ s.sent = TRUE
        BY <3>1, <3>2 DEF WithHeader, ResponseType
      <3>4. s.headers = IF Len(r.headers) < HeaderSlots
                          THEN Append(r.headers, h) ELSE r.headers
        BY <3>1, <3>2 DEF WithHeader, ResponseType
      <3>5. Len(r.headers) < HeaderSlots => h \in Range(s.headers)
        BY <1>2, <2>3, <3>4
      <3>6. /\ Len(s.headers) <= HeaderSlots
            /\ Range(s.headers) \cap {"json", "null"} # {} \/ Len(s.headers) = HeaderSlots
        <4>1. CASE Len(r.headers) < HeaderSlots
          <5>1. s.headers = Append(r.headers, h) /\ Len(s.headers) = Len(r.headers) + 1
            BY <1>2, <3>4, <4>1
          <5> QED BY <1>1, <3>5, <4>1, <5>1
        <4>2. CASE ~(Len(r.headers) < HeaderSlots)
          BY <1>1, <3>4, <4>2
        <4> QED BY <4>1, <4>2
      <3> QED BY <2>1, <3>3, <3>6 DEF NoBody
    <2>4. Typed(WithBody(r, "json")) =
            IF Len(r.headers) < HeaderSlots
              THEN WithHeader(WithBody(r, "json"), "json") ELSE WithBody(r, "json")
      BY DEF Typed, WithBody, ResponseType
    <2>5. Untyped(WithBody(r, "json")) =
            IF Len(r.headers) < HeaderSlots
              THEN WithHeader(WithBody(r, "json"), "null") ELSE WithBody(r, "json")
      BY DEF Untyped, WithBody, ResponseType
    <2> QED BY <1>6, <2>2, <2>3, <2>4, <2>5 DEF Results
  <1> QED BY <1>3, <1>4, <1>5, <1>6 DEF Calls

LEMMA ResponseInit == Init => ResponseInv
  <1> SUFFICES ASSUME Init PROVE ResponseInv
    OBVIOUS
  <1>1. Early /\ res = Fresh /\ first = NoBody /\ stack = <<>>
    BY DEF Init, Early
  <1>2. Len(stack) <= 1 /\ ~res.sent /\ res.body = NoBody
    BY <1>1 DEF Fresh
  <1>3. Range(res.headers) = {} /\ Len(res.headers) <= HeaderSlots
    BY <1>1, HeaderSlotsAssumption DEF Fresh, Range
  <1> QED BY <1>1, <1>2, <1>3 DEF ResponseInv, Promise, NoBody

\* Steps that leave the response alone and add no call.
LEMMA ResponseKept ==
  ASSUME ResponseInv, UNCHANGED <<res, first, reentered>>, stack' = stack \/ stack' = <<>>,
         Early' => Early
  PROVE  ResponseInv'
  BY DEF ResponseInv

\* No script that has res ends before app.handle was called.
LEMMA EndsEarly ==
  ASSUME OutcomeInv, NEW result \in {"value", "exception", "interrupted"}, Ends(result),
         Early'
  PROVE  Early
  <1>1. CASE pc = "job"
    BY <1>1 DEF OutcomeInv, Ends, AfterJob, Early
  <1>2. CASE pc = "handle"
    BY <1>2 DEF Ends, Early
  <1>3. CASE pc \in {"lookup", "describe"}
    BY <1>3 DEF Ends, Early
  <1>4. CASE pc \in {"module", "moduleJob"}
    BY <1>4 DEF Early
  <1> QED BY <1>1, <1>2, <1>3, <1>4 DEF Ends

LEMMA ResponseStep == TypeOK /\ HandlerInv /\ ResponseInv /\ [Next]_vars => ResponseInv'
  <1> SUFFICES ASSUME TypeOK, OutcomeInv, ResponseInv, [Next]_vars PROVE ResponseInv'
    BY DEF HandlerInv
  <1>0. stack \in Seq(Calls) /\ res \in ResponseType /\ (stack # <<>> => ~Early)
    BY DEF TypeOK, Early, HasRes
  <1>1. CASE \/ Import \/ Linked \/ TakeJob \/ Lookup \/ JobsDone \/ Respond
             \/ Tick \/ Statement \/ Enqueue
    <2>1. UNCHANGED <<res, first, reentered, stack>>
      BY <1>1
      DEF Import, Linked, TakeJob, Lookup, JobsDone, Respond, Tick, Statement, Enqueue, answer
    <2>2. Early' => Early
      BY <1>1
      DEF Import, Linked, TakeJob, Lookup, JobsDone, Respond, Tick, Statement, Enqueue, Early,
          OutcomeInv
    <2> QED BY <2>1, <2>2, ResponseKept
  <1>2. CASE CallHandle
    <2>1. Early /\ res = Fresh /\ res' = Fresh /\ UNCHANGED <<stack, first, reentered>>
      BY <1>2 DEF CallHandle, Early, ResponseInv
    <2> QED BY <2>1, ResponseKept DEF ResponseInv
  <1>3. CASE Return
    <2>1. Early' => Early
      <3>1. PICK result \in {"value", "exception"} : Ends(result)
        BY <1>3 DEF Return
      <3> QED BY <3>1, EndsEarly
    <2> QED BY <1>3, <2>1, ResponseKept DEF Return, answer
  <1>4. CASE Poll
    <2>1. UNCHANGED <<res, first, reentered>>
      BY <1>4 DEF Poll
    <2>2. CASE ~Overdue
      BY <1>4, <2>1, <2>2, ResponseKept DEF Poll, Early
    <2>3. ASSUME NEW result \in {"value", "interrupted"}, stack' = <<>>, Ends(result)
          PROVE  ResponseInv'
      <3>1. Early' => Early
        BY <2>3, EndsEarly
      <3> QED BY <2>1, <2>3, <3>1, ResponseKept
    <2>4. ASSUME NEW k \in 0 .. Len(stack), stack' = SubSeq(stack, 1, k),
                 UNCHANGED <<pc, outcome>>
          PROVE  ResponseInv'
      <3>1. Early' => Early
        BY <2>4 DEF Early
      <3>2. CASE reentered
        <4>1. Early => stack = <<>> /\ stack' = <<>>
          BY <1>0, <2>4, Cut
        <4> QED BY <2>1, <3>1, <3>2, <4>1 DEF ResponseInv
      <3>3. CASE ~reentered
        <4>0. Len(stack) <= 1
          BY <3>3 DEF ResponseInv
        <4>1. k \in Nat /\ (k = 0 \/ k = Len(stack))
          BY <1>0, <2>4, <4>0
        <4>2. stack' = <<>> \/ stack' = stack
          BY <1>0, <2>4, <4>1, SubSeqEmpty, SubSeqFull
        <4> QED BY <2>1, <3>1, <4>2, ResponseKept
      <3> QED BY <3>2, <3>3
    <2> QED BY <1>4, <2>2, <2>3, <2>4 DEF Poll, Interrupted
  <1>5. CASE Enter
    <2>1. ~Early /\ ~Early' /\ UNCHANGED <<res, first>>
      BY <1>5 DEF Enter, Early, HasRes
    <2>2. CASE stack # <<>>
      BY <1>5, <2>1, <2>2 DEF Enter, ResponseInv
    <2>3. CASE stack = <<>>
      <3>1. PICK call \in Calls : Open(res, call) /\ stack' = Append(stack, call)
        BY <1>5 DEF Enter
      <3>2. Len(stack') = 1 /\ stack'[1] = call
        BY <2>3, <3>1
      <3>3. Len(stack') <= 1 /\ Open(res', Last(stack'))
        BY <2>1, <3>1, <3>2 DEF Last
      <3>4. reentered' = reentered
        BY <1>5, <2>3 DEF Enter, TypeOK
      <3> QED BY <2>1, <3>3, <3>4 DEF ResponseInv
    <2> QED BY <2>2, <2>3
  <1>6. CASE Finish \/ ConversionFails
    <2>1. /\ stack # <<>> /\ stack' = Front(stack) /\ ~Early /\ ~Early'
          /\ reentered' = reentered
      BY <1>0, <1>6 DEF Finish, ConversionFails, Early
    <2>2. CASE reentered
      BY <2>1, <2>2 DEF ResponseInv
    <2>3. CASE ~reentered
      <3>0. Len(stack) <= 1 /\ Open(res, Last(stack))
        BY <2>1, <2>3 DEF ResponseInv
      <3>1. Len(stack) = 1 /\ Open(res, Last(stack)) /\ Last(stack) \in Calls
        <4>1. Last(stack) \in Calls
          BY <1>0, <2>1, Popped
        <4>2. Len(stack) = 1
          <5>1. Len(stack) \in Nat \ {0}
            BY <1>0, <2>1, Popped
          <5> QED BY <3>0, <5>1
        <4> QED BY <3>0, <4>1, <4>2
      <3>2. stack' = <<>> /\ Len(stack') <= 1
        BY <1>0, <2>1, <3>1, Popped
      <3>3. CASE ConversionFails
        BY <2>1, <3>2, <3>3, ResponseKept DEF ConversionFails
      <3>4. CASE Finish
        <4>1. res' \in Results(res, Last(stack)) /\ first' = IF first = NoBody THEN res'.body ELSE first
          BY <3>4 DEF Finish
        <4>2. Promise(res, first)
          BY <2>3 DEF ResponseInv
        <4>3. Promise(res', first')
          BY <1>0, <3>1, <4>1, <4>2, ActStep
        <4> QED BY <2>1, <3>2, <4>3 DEF ResponseInv
      <3> QED BY <1>6, <3>3, <3>4
    <2> QED BY <2>2, <2>3
  <1>7. CASE UNCHANGED vars
    BY <1>7, ResponseKept DEF vars, Early
  <1> QED BY <1>1, <1>2, <1>3, <1>4, <1>5, <1>6, <1>7 DEF Next, Handler

LEMMA ResponseSafe == Spec => []ResponseInv
  BY TypeInit, TypeStep, HandlerInit, HandlerStep, ResponseInit, ResponseStep, PTL DEF Spec

\* The first body is the one that is sent, for any sequence of calls.
THEOREM FirstBodySent == Spec => []FirstSendWins
  <1>1. ResponseInv => FirstSendWins
    BY DEF ResponseInv, Promise, FirstSendWins
  <1> QED BY ResponseSafe, <1>1, PTL

\* JSON is typed as JSON, and nothing else is.
THEOREM TypedAsSent == Spec => []JsonIsTyped
  <1>1. ResponseInv => JsonIsTyped
    BY DEF ResponseInv, Promise, JsonIsTyped
  <1> QED BY ResponseSafe, <1>1, PTL

\* No sequence of calls overruns the header table, whatever its size.
THEOREM TableHolds == Spec => []HeadersFit
  <1>1. ResponseInv => HeadersFit
    BY DEF ResponseInv, Promise, HeadersFit
  <1> QED BY ResponseSafe, <1>1, PTL

-----------------------------------------------------------------------------
(* Names of modules *)

\* A set of numbers has a least one: what an induction starts from.
LEMMA LeastNumber ==
  ASSUME NEW T \in SUBSET Nat, T # {}
  PROVE  \E m \in T : \A k \in T : m <= k
  <1> DEFINE R == {ss \in Nat \X Nat : ss[1] < ss[2]}
  <1>1. IsWellFoundedOn(R, Nat)
    BY NatLessThanWellFounded DEF OpToRel
  <1>2. \A k, m \in Nat : k < m => <<k, m>> \in R
    OBVIOUS
  <1> HIDE DEF R
  <1>3. PICK m \in T : \A k \in T : ~(<<k, m>> \in R)
    BY <1>1, WFMin
  <1>4. m \in Nat /\ \A k \in T : k \in Nat /\ ~(k < m)
    BY <1>2, <1>3
  <1> QED BY <1>3, <1>4

\* A walk is the only function that goes from step to step.
LEMMA WalkIs ==
  ASSUME NEW s, Len(s) \in Nat, NEW g,
         g = [i \in 0 .. Len(s) |-> IF i = 0 THEN <<>> ELSE Walk(g[i - 1], s[i])]
  PROVE  Walked(s) = g[Len(s)]
  <1> DEFINE n == Len(s)
             w == CHOOSE f : f = [i \in 0 .. n |-> IF i = 0 THEN <<>>
                                                    ELSE Walk(f[i - 1], s[i])]
  <1>1. w = [i \in 0 .. n |-> IF i = 0 THEN <<>> ELSE Walk(w[i - 1], s[i])]
    OBVIOUS
  <1>2. Walked(s) = w[n]
    BY DEF Walked
  <1>3. n \in Nat
    OBVIOUS
  <1>4. \A i \in 0 .. n : g[i] = IF i = 0 THEN <<>> ELSE Walk(g[i - 1], s[i])
    OBVIOUS
  <1> HIDE DEF w, n
  <1>5. \A i \in 0 .. n : w[i] = IF i = 0 THEN <<>> ELSE Walk(w[i - 1], s[i])
    BY <1>1
  <1>6. \A i \in 0 .. n : w[i] = g[i]
    <2> DEFINE T == {i \in 0 .. n : w[i] # g[i]}
    <2> SUFFICES ASSUME T # {} PROVE FALSE
      OBVIOUS
    <2>1. PICK m \in T : \A k \in T : m <= k
      <3>1. T \in SUBSET Nat
        BY <1>3
      <3> QED BY <3>1, LeastNumber
    <2>2. m \in 0 .. n /\ w[m] # g[m]
      OBVIOUS
    <2>3. w[0] = g[0]
      BY <1>3, <1>4, <1>5
    <2> HIDE DEF T
    <2>4. m \in 1 .. n
      BY <1>3, <2>2, <2>3
    <2>5. m - 1 \in 0 .. n /\ ~(m <= m - 1)
      BY <1>3, <2>4
    <2>6. m - 1 \notin T
      BY <2>1, <2>5
    <2>7. w[m - 1] = g[m - 1]
      BY <2>5, <2>6 DEF T
    <2>8. w[m] = Walk(w[m - 1], s[m]) /\ g[m] = Walk(g[m - 1], s[m])
      <3>1. m # 0
        BY <1>3, <2>4
      <3> QED BY <1>4, <1>5, <2>2, <3>1
    <2> QED BY <2>2, <2>7, <2>8
  <1> QED BY <1>2, <1>3, <1>6 DEF n

\* Segments that are no dots are appended; one dot stays where it is.
LEMMA WalkPlain ==
  ASSUME NEW d \in Seq(STRING), NEW t \in Seq(STRING), Plain(d), Plain(t),
         "." \in STRING
  PROVE  Walked(d \o (<<".">> \o t)) = d \o t
  <1> DEFINE a == Len(d)
             b == Len(t)
             n == a + b + 1
             s == d \o (<<".">> \o t)
             g == [i \in 0 .. n |-> IF i <= a THEN SubSeq(d, 1, i)
                                    ELSE d \o SubSeq(t, 1, i - a - 1)]
  <1>1. a \in Nat /\ b \in Nat /\ n \in Nat
    OBVIOUS
  <1>2. /\ s \in Seq(STRING) /\ Len(s) = n
        /\ \A i \in 1 .. a : s[i] = d[i]
        /\ s[a + 1] = "."
        /\ \A j \in 1 .. b : s[a + 1 + j] = t[j]
    <2> DEFINE u == <<".">> \o t
    <2>1. <<".">> \in Seq(STRING) /\ Len(<<".">>) = 1 /\ (<<".">>)[1] = "."
      <3>1. \A S : \A x \in S : <<x>> \in Seq(S) /\ Len(<<x>>) = 1 /\ (<<x>>)[1] = x
        OBVIOUS
      <3> QED BY <3>1
    <2>2. /\ u \in Seq(STRING) /\ Len(u) = b + 1
          /\ \A i \in 1 .. b + 1 : u[i] = IF i <= 1 THEN (<<".">>)[i] ELSE t[i - 1]
      BY <2>1, ConcatProperties
    <2>3. u[1] = "." /\ \A j \in 1 .. b : u[j + 1] = t[j]
      BY <1>1, <2>1, <2>2
    <2> HIDE DEF u
    <2>4. /\ d \o u \in Seq(STRING) /\ Len(d \o u) = a + Len(u)
          /\ \A i \in 1 .. a + Len(u) : (d \o u)[i] = IF i <= a THEN d[i] ELSE u[i - a]
      BY <2>2, ConcatProperties
    <2>5. s = d \o u
      BY DEF u
    <2> HIDE DEF s
    <2>6. \A j \in 1 .. b : s[a + 1 + j] = u[j + 1]
      BY <1>1, <2>2, <2>4, <2>5
    <2> QED BY <1>1, <2>2, <2>3, <2>4, <2>5, <2>6
  <1>3. \A i \in 1 .. a : d[i] \in STRING /\ d[i] \notin {".", ".."}
    BY DEF Plain
  <1>4. \A i \in 1 .. b : t[i] \in STRING /\ t[i] \notin {".", ".."}
    BY DEF Plain
  <1>5. \A path, x : x \notin {".", ".."} => Walk(path, x) = Append(path, x)
    BY DEF Walk
  <1>6. \A path : Walk(path, ".") = path
    BY DEF Walk
  <1>7. ASSUME NEW v \in Seq(STRING), NEW i \in 1 .. Len(v)
        PROVE  /\ SubSeq(v, 1, i - 1) \in Seq(STRING)
               /\ Append(SubSeq(v, 1, i - 1), v[i]) = SubSeq(v, 1, i)
    <2>1. /\ SubSeq(v, 1, i - 1) \in Seq(STRING) /\ v[i] \in STRING
      <3>1. i - 1 \in Int /\ \A j \in 1 .. i - 1 : v[j] \in STRING
        OBVIOUS
      <3> QED BY <3>1, SubSeqProperties
    <2>2. SubSeq(v, 1, i) = SubSeq(v, 1, i - 1) \o <<v[i]>>
      <3>1. 1 \in 1 .. Len(v) /\ i \in 1 .. Len(v)
        OBVIOUS
      <3> QED BY <3>1, SubSeqRecursiveSecond
    <2> QED BY <2>1, <2>2, AppendIsConcat
  <1>8. \A v : SubSeq(v, 1, 0) = <<>>
    BY SubSeqEmpty
  <1> HIDE DEF s, a, b, n
  <1>9. \A i \in 0 .. n : g[i] = IF i = 0 THEN <<>> ELSE Walk(g[i - 1], s[i])
    <2> TAKE i \in 0 .. n
    <2>1. CASE i = 0
      BY <1>1, <1>8, <2>1
    <2>2. CASE i \in 1 .. a
      <3>1. g[i] = SubSeq(d, 1, i) /\ g[i - 1] = SubSeq(d, 1, i - 1)
        BY <1>1, <2>2
      <3>2. Walk(SubSeq(d, 1, i - 1), d[i]) = SubSeq(d, 1, i)
        BY <1>3, <1>5, <1>7, <2>2 DEF a
      <3>3. i # 0 /\ s[i] = d[i]
        BY <1>1, <1>2, <2>2
      <3> HIDE DEF g
      <3> QED BY <3>1, <3>2, <3>3
    <2>3. CASE i = a + 1
      <3>1. g[i] = d \o SubSeq(t, 1, 0) /\ g[i - 1] = SubSeq(d, 1, a)
        BY <1>1, <2>3
      <3>2. d \o SubSeq(t, 1, 0) = d
        BY <1>8, ConcatEmptySeq
      <3>3. SubSeq(d, 1, a) = d
        BY SubSeqFull DEF a
      <3>4. i # 0 /\ s[i] = "."
        BY <1>1, <1>2, <2>3
      <3> HIDE DEF g
      <3> QED BY <1>6, <3>1, <3>2, <3>3, <3>4
    <2>4. CASE i > a + 1
      <3> DEFINE j == i - a - 1
      <3>1. j \in 1 .. b /\ i = a + 1 + j
        BY <1>1, <2>4 DEF n
      <3>2. s[i] = t[j]
        BY <1>2, <3>1
      <3>3. g[i] = d \o SubSeq(t, 1, j) /\ g[i - 1] = d \o SubSeq(t, 1, j - 1)
        <4>1. i - 1 \in 0 .. n /\ ~(i <= a) /\ ~(i - 1 <= a) /\ i - 1 - a - 1 = j - 1
          BY <1>1, <2>4
        <4> QED BY <4>1
      <3> HIDE DEF j, g
      <3>4. /\ SubSeq(t, 1, j - 1) \in Seq(STRING) /\ t[j] \in STRING
            /\ Append(SubSeq(t, 1, j - 1), t[j]) = SubSeq(t, 1, j)
        BY <1>4, <1>7, <3>1 DEF b
      <3>5. Append(d \o SubSeq(t, 1, j - 1), t[j]) = d \o Append(SubSeq(t, 1, j - 1), t[j])
        <4> DEFINE u == SubSeq(t, 1, j - 1)
                   x == t[j]
        <4> HIDE DEF u, x
        <4>1. u \in Seq(STRING) /\ x \in STRING /\ <<x>> \in Seq(STRING)
          BY <3>4 DEF u, x
        <4>2. d \o u \in Seq(STRING)
          BY <4>1, ConcatProperties
        <4>3. Append(d \o u, x) = (d \o u) \o <<x>> /\ Append(u, x) = u \o <<x>>
          BY <4>1, <4>2, AppendIsConcat
        <4>4. (d \o u) \o <<x>> = d \o (u \o <<x>>)
          BY <4>1, ConcatAssociative
        <4> QED BY <4>3, <4>4 DEF u, x
      <3>6. Walk(g[i - 1], s[i]) = Append(g[i - 1], s[i])
        BY <1>4, <1>5, <3>1, <3>2
      <3>7. i # 0
        BY <1>1, <2>4
      <3> QED BY <3>2, <3>3, <3>4, <3>5, <3>6, <3>7
    <2> QED BY <1>1, <2>1, <2>2, <2>3, <2>4
  <1>10. g = [i \in 0 .. Len(s) |-> IF i = 0 THEN <<>> ELSE Walk(g[i - 1], s[i])]
    <2>1. g = [i \in 0 .. n |-> g[i]]
      OBVIOUS
    <2> HIDE DEF g
    <2> QED BY <1>2, <1>9, <2>1
  <1>11. g[n] = d \o t
    <2>1. g[n] = d \o SubSeq(t, 1, b)
      <3>1. n \in 0 .. n /\ ~(n <= a) /\ n - a - 1 = b
        BY <1>1 DEF n
      <3> QED BY <3>1
    <2>2. SubSeq(t, 1, b) = t
      BY SubSeqFull DEF b
    <2> QED BY <2>1, <2>2
  <1> HIDE DEF g
  <1> QED BY <1>1, <1>2, <1>10, <1>11, WalkIs DEF s

\* The directory of a plain name is plain, and so is what a relative name that
\* leads to a plain name adds to it.
LEMMA PlainFront ==
  ASSUME NEW m \in Seq(STRING), m # <<>>
  PROVE  Front(m) \in Seq(STRING) /\ (Plain(m) => Plain(Front(m)))
  <1> DEFINE n == Len(m) - 1
             t == SubSeq(m, 1, n)
  <1>1. n \in Nat /\ \A i \in 1 .. n : m[i] \in STRING /\ i \in DOMAIN m
    OBVIOUS
  <1> HIDE DEF n
  <1>2. /\ t \in Seq(STRING) /\ Len(t) = IF 1 <= n THEN n - 1 + 1 ELSE 0
        /\ \A i \in 1 .. n - 1 + 1 : t[i] = m[1 + i - 1]
    BY <1>1, SubSeqProperties
  <1> HIDE DEF t
  <1>3. DOMAIN t = 1 .. n /\ \A i \in 1 .. n : t[i] = m[i]
    BY <1>1, <1>2
  <1>4. t = Front(m)
    BY DEF t, n, Front
  <1> QED BY <1>1, <1>2, <1>3, <1>4 DEF Plain

LEMMA PlainPart ==
  ASSUME NEW d \in Seq(STRING), NEW t \in Seq(STRING), Plain(d \o t)
  PROVE  Plain(t)
  <1> DEFINE u == d \o t
  <1>1. /\ u \in Seq(STRING) /\ Len(u) = Len(d) + Len(t)
        /\ \A i \in 1 .. Len(d) + Len(t) : u[i] = IF i <= Len(d) THEN d[i] ELSE t[i - Len(d)]
    BY ConcatProperties
  <1>2. Plain(u)
    OBVIOUS
  <1> HIDE DEF u
  <1>3. Len(d) \in Nat /\ Len(t) \in Nat /\ DOMAIN t = 1 .. Len(t)
    OBVIOUS
  <1>4. \A i \in 1 .. Len(t) : Len(d) + i \in DOMAIN u /\ u[Len(d) + i] = t[i]
    <2>1. DOMAIN u = 1 .. Len(d) + Len(t)
      BY <1>1
    <2> TAKE i \in 1 .. Len(t)
    <2>2. /\ Len(d) + i \in 1 .. Len(d) + Len(t)
          /\ ~(Len(d) + i <= Len(d)) /\ Len(d) + i - Len(d) = i
      BY <1>3
    <2> QED BY <1>1, <2>1, <2>2
  <1> QED BY <1>2, <1>3, <1>4 DEF Plain

\* A name that is normalized to a file of the database is the name of what the
\* import means. That is what "../" and a full buffer could spoil: they leave
\* names no file has.
LEMMA NormalizeMeans ==
  ASSUME NEW m \in Name, Plain(m), NEW spec \in Name,
         Normalize(m, spec) \in Name, Plain(Normalize(m, spec))
  PROVE  Normalize(m, spec) = Meaning(m, spec)
  <1>1. /\ m \in Seq(STRING) /\ m # <<>>
        /\ spec \in Seq(STRING) /\ spec # <<>> /\ 1 \in DOMAIN spec
    BY DEF Name
  <1>2. CASE spec[1] # "." \/ Len(spec) = 1
    <2>1. Normalize(m, spec) = spec
      BY <1>2 DEF Normalize
    <2>2. spec[1] \notin {".", ".."}
      BY <1>1, <2>1 DEF Plain
    <2> QED BY <2>1, <2>2 DEF Meaning, IsRelative
  <1>3. CASE spec[1] = "." /\ Len(spec) # 1
    <2> DEFINE d == Directory(m)
               t == Tail(spec)
               u == <<".">> \o t
    <2>1. d \in Seq(STRING) /\ Plain(d)
      BY <1>1, PlainFront DEF Directory
    <2>2. t \in Seq(STRING) /\ Len(t) = Len(spec) - 1
          /\ \A i \in 1 .. Len(t) : t[i] = spec[i + 1]
      BY <1>1, HeadTailProperties
    <2>3. "." \in STRING
      <3>1. \A S : \A x \in Seq(S) : \A i \in DOMAIN x : x[i] \in S
        OBVIOUS
      <3> QED BY <1>1, <1>3, <3>1
    <2> HIDE DEF d, t
    <2>4. spec = u
      <3>1. \A S : \A x \in S : <<x>> \in Seq(S) /\ Len(<<x>>) = 1 /\ (<<x>>)[1] = x
        OBVIOUS
      <3>2. <<".">> \in Seq(STRING) /\ Len(<<".">>) = 1 /\ (<<".">>)[1] = "."
        BY <2>3, <3>1
      <3>3. /\ u \in Seq(STRING) /\ Len(u) = 1 + Len(t)
            /\ \A i \in 1 .. 1 + Len(t) : u[i] = IF i <= 1 THEN (<<".">>)[i] ELSE t[i - 1]
        BY <2>2, <3>2, ConcatProperties
      <3> HIDE DEF u
      <3>4. Len(spec) \in Nat \ {0} /\ Len(u) = Len(spec)
        BY <1>1, <2>2, <3>3
      <3>5. \A i \in 1 .. Len(spec) : spec[i] = u[i]
        <4> TAKE i \in 1 .. Len(spec)
        <4>1. CASE i = 1
          BY <1>3, <2>2, <3>2, <3>3, <3>4, <4>1
        <4>2. CASE i # 1
          <5>1. i - 1 \in 1 .. Len(t) /\ (i - 1) + 1 = i /\ ~(i <= 1)
            BY <2>2, <3>4, <4>2
          <5>2. t[i - 1] = spec[i]
            BY <2>2, <5>1
          <5>3. u[i] = t[i - 1]
            BY <3>3, <3>4, <5>1
          <5> QED BY <5>2, <5>3
        <4> QED BY <4>1, <4>2
      <3> QED BY <1>1, <3>3, <3>4, <3>5, SeqEqual
    <2> HIDE DEF u
    <2>5. Normalize(m, spec) = d \o t
      <3>1. CASE d = <<>>
        <4>1. Normalize(m, spec) = t
          BY <1>3, <3>1 DEF Normalize, d, t
        <4>2. d \o t = t
          BY <2>2, <3>1, ConcatEmptySeq
        <4> QED BY <4>1, <4>2
      <3>2. CASE d # <<>>
        <4>1. Normalize(m, spec) \in {d \o t, NoName}
          BY <1>3, <3>2 DEF Normalize, d, t
        <4>2. Normalize(m, spec) # NoName
          BY DEF Name, NoName
        <4> QED BY <4>1, <4>2
      <3> QED BY <3>1, <3>2
    <2>6. Plain(t)
      BY <2>1, <2>2, <2>5, PlainPart
    <2>7. Walked(d \o u) = d \o t
      BY <2>1, <2>2, <2>3, <2>6, WalkPlain DEF u
    <2>8. Meaning(m, spec) = Walked(d \o u)
      BY <1>3, <2>4 DEF Meaning, IsRelative, d
    <2> QED BY <2>5, <2>7, <2>8
  <1> QED BY <1>2, <1>3

-----------------------------------------------------------------------------
(* What is loaded *)

\* Only requested files of the database are loaded, and past the loading all
\* that are requested: with NormalizeMeans, the files the imports mean.
LoadInv ==
  /\ Main \in loaded /\ loaded \ {Main} \subseteq Requested
  /\ pc \notin {"load", "failed"} => Requested \subseteq loaded

\* More modules request more.
LEMMA RequestedGrows ==
  ASSUME NEW a, NEW l, NEW k, l \subseteq k
  PROVE  UNION {{Normalize(m, spec) : spec \in a[m]} : m \in l}
           \subseteq UNION {{Normalize(m, spec) : spec \in a[m]} : m \in k}
  OBVIOUS

LEMMA LoadInit == Init => LoadInv
  BY DEF Init, LoadInv

LEMMA LoadStep == LoadInv /\ [Next]_vars => LoadInv'
  <1> SUFFICES ASSUME LoadInv, [Next]_vars PROVE LoadInv'
    OBVIOUS
  <1>1. CASE Import
    <2>1. /\ pc = "load" /\ app' = app
          /\ \E name \in Requested : loaded' \in {loaded, loaded \cup {name}}
          /\ pc' \in {"load", "failed"}
      BY <1>1 DEF Import
    <2>2. Requested \subseteq Requested'
      BY <2>1, RequestedGrows DEF Requested
    <2> QED BY <2>1, <2>2 DEF LoadInv
  <1>2. CASE Linked
    <2>1. Requested' = Requested
      BY <1>2 DEF Linked, Requested
    <2> QED BY <1>2, <2>1 DEF Linked, LoadInv
  <1>3. ASSUME loaded' = loaded, app' = app,
               pc' \notin {"load", "failed"} => pc \notin {"load", "failed"}
        PROVE  LoadInv'
    <2>1. Requested' = Requested
      BY <1>3 DEF Requested
    <2> QED BY <1>3, <2>1 DEF LoadInv
  <1>4. CASE Tick \/ Statement \/ Enqueue \/ Enter \/ Finish \/ ConversionFails
    BY <1>3, <1>4 DEF Tick, Statement, Enqueue, Enter, Finish, ConversionFails
  <1>5. \A result : Ends(result) => pc \notin {"load", "failed"}
    BY DEF Ends
  <1>6. CASE Return
    BY <1>3, <1>5, <1>6 DEF Return
  <1>7. CASE Poll
    BY <1>3, <1>5, <1>7 DEF Poll, Interrupted
  <1>8. CASE TakeJob \/ Lookup \/ CallHandle \/ JobsDone \/ Respond
    BY <1>3, <1>8 DEF TakeJob, Lookup, CallHandle, JobsDone, Respond
  <1>9. CASE UNCHANGED vars
    BY <1>3, <1>9 DEF vars
  <1> QED BY <1>1, <1>2, <1>4, <1>6, <1>7, <1>8, <1>9 DEF Next, Handler

\* Every import of every module that is loaded is bound to the file it means.
THEOREM ImportsMeanWhatTheySay == Spec => []LoadsWhatItMeans
  <1>1. TypeOK /\ LoadInv => LoadsWhatItMeans
    <2> SUFFICES ASSUME TypeOK, LoadInv, pc \notin {"load", "failed"}
                 PROVE  loaded \ {Main} = Meant \ {Main}
      BY DEF LoadsWhatItMeans
    <2>1. /\ loaded \subseteq DOMAIN app
          /\ \A m \in DOMAIN app : m \in Name /\ Plain(m) /\ app[m] \subseteq Name
      BY AppsAssumption DEF TypeOK
    <2>2. loaded \ {Main} = Requested \ {Main} /\ Requested \subseteq loaded
      BY DEF LoadInv
    <2>3. \A m \in loaded : \A spec \in app[m] : Normalize(m, spec) \in loaded
      BY <2>2 DEF Requested
    <2>4. \A m \in loaded : \A spec \in app[m] : Normalize(m, spec) = Meaning(m, spec)
      BY <2>1, <2>3, NormalizeMeans
    <2>5. Requested = Meant
      BY <2>4 DEF Requested, Meant
    <2> QED BY <2>2, <2>5
  <1> QED BY <1>1, LoadInit, LoadStep, Typing, PTL DEF Spec

=============================================================================

--------------------------- MODULE HbfServerProofs ---------------------------
(***************************************************************************)
(* What holds of the running process for any number of workers and         *)
(* requests, whatever statements the scripts execute.                      *)
(***************************************************************************)
EXTENDS HbfServer, FiniteSetTheorems, SequenceTheorems, TLAPS

-----------------------------------------------------------------------------
(* Types, who has a request and who has the mutex *)

Steps == Locked \cup Unlocks
Busy == \A w \in Workers : pc[w] = "idle" <=> job[w] = NoReq
Holds == \A w \in Workers : mutex = w <=> pc[w] \in Locked

Fields ==
  /\ main \in {"start", "register", "running", "stopping", "engine", "db", "exited"}
  /\ routes \subseteq {"health", "static", "dynamic"}
  /\ mutex \in Workers \cup {NoWorker}
  /\ live \subseteq Reqs
  /\ classId \in Reqs \cup {NoReq}
  /\ app \in Apps
  /\ rejected \in BOOLEAN
  /\ open \subseteq {"engine", "db"}
  /\ committed \subseteq Reqs /\ pending \subseteq Reqs
  /\ inTx \in BOOLEAN
  /\ did \in [Reqs -> SUBSET Sql]

Maps ==
  /\ pc \in [Workers -> Steps]
  /\ job \in [Workers -> Reqs \cup {NoReq}]
  /\ code \in [Workers -> Int]
  /\ replies \in [Reqs -> Seq(Int)]

LEMMA TypeParts == TypeOK <=> Fields /\ Maps /\ Busy /\ Holds
  BY DEF TypeOK, Fields, Maps, Busy, Holds, Steps

\* A worker that moves under the mutex keeps it and its request.
LEMMA MovesLocked ==
  ASSUME Maps, Busy, Holds, NEW w \in Workers, NEW s \in Locked, pc[w] \in Locked,
         Goto(w, s), UNCHANGED <<job, mutex>>
  PROVE  pc' \in [Workers -> Steps] /\ Busy' /\ Holds'
  BY DEF Maps, Busy, Holds, Goto, Locked, Unlocks, Steps

\* An error path stays under the mutex and leaves an integer.
LEMMA FailsLocked ==
  ASSUME Maps, NEW w \in Workers, NEW n \in Int, FailWith(w, n)
  PROVE  /\ \E s \in {"destroy", "unlock"} : Goto(w, s)
         /\ code' \in [Workers -> Int]
  <1>1. code' \in [Workers -> Int]
    BY DEF FailWith, Maps
  <1>2. CASE job[w] \in live
    BY <1>1, <1>2 DEF FailWith
  <1>3. CASE job[w] \notin live
    BY <1>1, <1>3 DEF FailWith
  <1> QED BY <1>2, <1>3

LEMMA AppendsReply ==
  ASSUME Maps, NEW w \in Workers, job[w] \in Reqs, NEW n \in Int, Reply(w, n)
  PROVE  replies' \in [Reqs -> Seq(Int)]
  <1>1. Append(replies[job[w]], n) \in Seq(Int)
    BY AppendProperties DEF Maps
  <1> QED BY <1>1 DEF Reply, Maps

LEMMA TypeInit == Init => TypeOK
  <1> SUFFICES ASSUME Init PROVE TypeOK
    OBVIOUS
  <1>1. <<>> \in Seq(Int)
    BY EmptySeq
  <1>2. Maps
    BY <1>1 DEF Init, Maps, Steps, Unlocks
  <1>3. Fields
    BY DEF Init, Fields, Apps
  <1>4. Busy /\ Holds
    BY NoneAssumption DEF Init, Busy, Holds, Locked
  <1> QED BY <1>2, <1>3, <1>4, TypeParts

\* Handlers are registered one after the other, in this order.
Registered ==
  /\ main = "start" => routes = {}
  /\ main = "register" => routes \in {{}, {"health"}, {"health", "static"}}

LEMMA NextRoute ==
  ASSUME Registered, Register
  PROVE  \/ main' = "register" /\ routes' \in {{"health"}, {"health", "static"}}
         \/ main' = "running" /\ routes' = {"health", "static", "dynamic"}
  <1>1. Cardinality({}) = 0
    BY FS_EmptySet
  <1>2. IsFiniteSet({"health"}) /\ Cardinality({"health"}) = 1
    BY FS_Singleton
  <1>3. Cardinality({"health", "static"}) = 2
    <2>1. {"health", "static"} = {"health"} \cup {"static"}
      OBVIOUS
    <2>2. Cardinality({"health"} \cup {"static"}) = Cardinality({"health"}) + 1
      BY <1>2, FS_AddElement, "static" \notin {"health"}
    <2> QED BY <1>2, <2>1, <2>2
  <1> QED BY <1>1, <1>2, <1>3 DEF Registered, Register, RouteOrder

LEMMA RegisteredNext == Registered /\ [Next \/ Exited]_vars => Registered'
  <1> SUFFICES ASSUME Registered, [Next \/ Exited]_vars PROVE Registered'
    OBVIOUS
  <1>1. CASE Register
    BY <1>1, NextRoute DEF Registered
  <1>2. CASE StartServer \/ StopServer \/ ShutdownEngine \/ CloseDb \/ Signal
    BY <1>2 DEF StartServer, StopServer, ShutdownEngine, CloseDb, Signal, Registered
  <1>3. CASE UNCHANGED <<main, routes>>
    BY <1>3 DEF Registered
  <1>4. ASSUME NEW w \in Workers, WorkerStep(w) PROVE UNCHANGED <<main, routes>>
    BY <1>4 DEF WorkerStep, CodeStep, ScriptStep, Fallback, ServeHealth, ServeStatic,
                Answer, HandlerReturns, Lock, CreateContext, InitClass, LoadServerJs, ModuleDone, CreateRequest,
                CreateResponse, Lookup, HandleReturns, HandleThrows, SendResponse,
                DestroyContext, Unlock, SendError, server
  <1>5. ASSUME NEW w \in Workers, NEW q \in Reqs, Accept(w, q)
        PROVE  UNCHANGED <<main, routes>>
    BY <1>5 DEF Accept, server
  <1>6. ASSUME NEW w \in Workers, NEW sql \in Sql, Execute(w, sql)
        PROVE  UNCHANGED <<main, routes>>
    BY <1>6 DEF Execute, server
  <1> QED BY <1>1, <1>2, <1>3, <1>4, <1>5, <1>6 DEF Next, MainStep, Exited, vars

LEMMA TypeNext == TypeOK /\ Registered /\ [Next \/ Exited]_vars => TypeOK'
  <1> SUFFICES ASSUME Fields, Maps, Busy, Holds, Registered, [Next \/ Exited]_vars
               PROVE  Fields' /\ Maps' /\ Busy' /\ Holds'
    BY DEF TypeOK, Fields, Maps, Busy, Holds, Steps
  <1> USE NoneAssumption
  <1>1. CASE MainStep \/ Signal
    <2>1. UNCHANGED <<pc, job, code, mutex, live, classId, app, rejected, replies, did>>
      BY <1>1 DEF MainStep, StartServer, Register, StopServer, ShutdownEngine,
                  CloseDb, Signal, script, database
    <2>2. Maps' /\ Busy' /\ Holds'
      BY <2>1 DEF Maps, Busy, Holds
    <2>3. CASE Register
      <3>1. routes' \subseteq {"health", "static", "dynamic"}
        BY <2>3, NextRoute DEF Register, Fields
      <3> QED BY <2>1, <2>2, <2>3, <3>1 DEF Register, Fields, database
    <2>4. CASE StartServer \/ StopServer \/ ShutdownEngine \/ CloseDb \/ Signal
      BY <2>1, <2>2, <2>4 DEF StartServer, StopServer, ShutdownEngine, CloseDb, Signal,
                              Fields, database
    <2> QED BY <1>1, <2>3, <2>4 DEF MainStep
  <1>2. ASSUME NEW w \in Workers, NEW q \in Reqs, Accept(w, q)
        PROVE  Fields' /\ Maps' /\ Busy' /\ Holds'
    <2>1. PICK s \in {"health", "static", "lock", "fallback"} : Goto(w, s)
      BY <1>2 DEF Accept, RouteOrder
    <2>2. Maps'
      BY <1>2, <2>1 DEF Accept, Maps, Goto, Steps, Unlocks
    <2>3. Busy' /\ Holds'
      BY <1>2, <2>1 DEF Accept, Goto, Busy, Holds, Maps, Locked
    <2> QED BY <1>2, <2>2, <2>3 DEF Accept, Fields, server, script, database
  <1>3. ASSUME NEW w \in Workers, NEW sql \in Sql, Execute(w, sql)
        PROVE  Fields' /\ Maps' /\ Busy' /\ Holds'
    <2>1. job[w] \in Reqs
      BY <1>3 DEF Execute, Busy, Maps
    <2>2. did' \in [Reqs -> SUBSET Sql]
      BY <1>3, <2>1 DEF Execute, Fields
    <2>3. /\ committed' \subseteq Reqs /\ pending' \subseteq Reqs
          /\ inTx' \in BOOLEAN
      BY <1>3, <2>1 DEF Execute, Fields
    <2> QED BY <1>3, <2>2, <2>3 DEF Execute, Fields, Maps, Busy, Holds, server
  <1>4. ASSUME NEW w \in Workers, WorkerStep(w)
        PROVE  Fields' /\ Maps' /\ Busy' /\ Holds'
    <2>1. CASE Fallback(w) \/ ServeHealth(w) \/ ServeStatic(w)
      <3>1. PICK n \in {200, 404} : Answer(w, n)
        BY <2>1 DEF Fallback, ServeHealth, ServeStatic
      <3>2. pc[w] \in {"fallback", "health", "static"}
        BY <2>1 DEF Fallback, ServeHealth, ServeStatic
      <3>3. job[w] \in Reqs
        BY <3>2 DEF Busy, Maps
      <3>4. replies' \in [Reqs -> Seq(Int)]
        BY <3>1, <3>3, AppendsReply DEF Answer
      <3>5. Maps'
        BY <3>1, <3>4 DEF Answer, Goto, Maps, Steps, Unlocks
      <3>6. Busy' /\ Holds'
        BY <3>1, <3>2 DEF Answer, Goto, Maps, Busy, Holds, Locked
      <3> QED BY <3>1, <3>5, <3>6 DEF Answer, Fields, server, script, database
    <2>2. CASE HandlerReturns(w)
      <3>1. code' \in [Workers -> Int] /\ UNCHANGED <<replies, mutex>>
        BY <2>2 DEF HandlerReturns, Maps
      <3>2. CASE code[w] > 0
        <4>1. Goto(w, "idle") /\ job' = [job EXCEPT ![w] = NoReq] /\ pc[w] = "return"
          BY <2>2, <3>2 DEF HandlerReturns
        <4>2. Maps'
          BY <3>1, <4>1 DEF Goto, Maps, Unlocks, Steps
        <4>3. Busy' /\ Holds'
          BY <3>1, <4>1 DEF Goto, Maps, Busy, Holds, Locked
        <4> QED BY <2>2, <4>2, <4>3 DEF HandlerReturns, Fields, server, script, database
      <3>3. CASE ~ (code[w] > 0)
        <4>1. Maps' /\ Busy' /\ Holds'
          BY <2>2, <3>1, <3>3 DEF HandlerReturns, Goto, Maps, Busy, Holds, Locked, Unlocks,
                                  Steps
        <4> QED BY <2>2, <4>1 DEF HandlerReturns, Fields, server, script, database
      <3> QED BY <3>2, <3>3
    <2>3. CASE Lock(w)
      BY <2>3 DEF Lock, MutexFree, Goto, Maps, Busy, Holds, Fields, Locked, Unlocks,
                  Steps, server, script, database
    <2>4. CASE CreateContext(w)
      <3>0. /\ live' \subseteq live \cup {job[w]}
            /\ classId' \in {classId, NoReq} /\ app' \in {app, "undefined"}
            /\ UNCHANGED <<job, replies, server, rejected, did, database>>
        BY <2>4 DEF CreateContext, ResetClassId
      <3>1. \E s \in {"class", "destroy", "unlock"} : Goto(w, s)
        BY <2>4, FailsLocked DEF CreateContext
      <3>2. pc' \in [Workers -> Steps] /\ Busy' /\ Holds'
        BY <2>4, <3>1, MovesLocked DEF CreateContext, Locked
      <3>3. code' \in [Workers -> Int]
        BY <2>4, FailsLocked DEF CreateContext, Maps
      <3>4. job[w] \in Reqs
        BY <2>4 DEF CreateContext, Busy, Maps
      <3>5. Fields'
        <4>1. live' \subseteq Reqs /\ classId' \in Reqs \cup {NoReq} /\ app' \in Apps
          BY <3>0, <3>4 DEF Fields, Apps
        <4>2. mutex' = mutex
          BY <2>4 DEF CreateContext
        <4> QED BY <3>0, <4>1, <4>2 DEF Fields, server, database
      <3> QED BY <3>0, <3>2, <3>3, <3>5 DEF Maps
    <2>5. CASE InitClass(w)
      <3>1. job[w] \in Reqs
        BY <2>5 DEF InitClass, Busy, Maps
      <3>2. pc' \in [Workers -> Steps] /\ Busy' /\ Holds'
        BY <2>5, MovesLocked DEF InitClass, Locked
      <3> QED BY <2>5, <3>1, <3>2 DEF InitClass, Fields, Maps, server, script, database
    <2>6. CASE LoadServerJs(w) \/ CreateRequest(w) \/ CreateResponse(w)
      <3>1. \E s \in {"module", "response", "lookup", "destroy", "unlock"} : Goto(w, s)
        BY <2>6, FailsLocked DEF LoadServerJs, CreateRequest, CreateResponse
      <3>2. code' \in [Workers -> Int]
        BY <2>6, FailsLocked DEF LoadServerJs, CreateRequest, CreateResponse, Maps
      <3>3. /\ pc[w] \in Locked
            /\ UNCHANGED <<job, mutex, live, classId, replies, server, script, database>>
        BY <2>6 DEF LoadServerJs, CreateRequest, CreateResponse, Locked
      <3>4. pc' \in [Workers -> Steps] /\ Busy' /\ Holds'
        BY <3>1, <3>3, MovesLocked DEF Locked
      <3> QED BY <3>2, <3>3, <3>4 DEF Fields, Maps, server, script, database
    <2>7. CASE ModuleDone(w)
      <3>1. \E s \in {"request", "destroy", "unlock"} : Goto(w, s)
        BY <2>7, FailsLocked DEF ModuleDone
      <3>2. code' \in [Workers -> Int]
        BY <2>7, FailsLocked DEF ModuleDone, Maps
      <3>3. pc' \in [Workers -> Steps] /\ Busy' /\ Holds'
        BY <2>7, <3>1, MovesLocked DEF ModuleDone, Locked
      <3> QED BY <2>7, <3>2, <3>3 DEF ModuleDone, Fields, Maps, server, database
    <2>8. CASE Lookup(w)
      <3>1. \/ FailWith(w, 503)
            \/ FailWith(w, 500)
            \/ Goto(w, "handle") /\ UNCHANGED code
        BY <2>8, Zenon DEF Lookup
      <3>2. \E s \in {"handle", "destroy", "unlock"} : Goto(w, s)
        <4>1. CASE FailWith(w, 503)
          BY <4>1, FailsLocked
        <4>2. CASE FailWith(w, 500)
          BY <4>2, FailsLocked
        <4> QED BY <3>1, <4>1, <4>2
      <3>3. code' \in [Workers -> Int]
        <4>1. CASE FailWith(w, 503)
          BY <4>1, FailsLocked
        <4>2. CASE FailWith(w, 500)
          BY <4>2, FailsLocked
        <4> QED BY <3>1, <4>1, <4>2 DEF Maps
      <3>4. pc' \in [Workers -> Steps] /\ Busy' /\ Holds'
        BY <2>8, <3>2, MovesLocked DEF Lookup, Locked
      <3> QED BY <2>8, <3>3, <3>4 DEF Lookup, Fields, Maps, server, script, database
    <2>9. CASE HandleReturns(w)
      <3>1. code' \in [Workers -> Int]
        BY <2>9, StatusesAssumption DEF HandleReturns, Maps
      <3>2. pc' \in [Workers -> Steps] /\ Busy' /\ Holds'
        BY <2>9, MovesLocked DEF HandleReturns, Locked
      <3> QED BY <2>9, <3>1, <3>2 DEF HandleReturns, Fields, Maps, server, script, database
    <2>10. CASE HandleThrows(w)
      <3>1. \E s \in {"destroy", "unlock"} : Goto(w, s)
        BY <2>10, FailsLocked DEF HandleThrows
      <3>2. code' \in [Workers -> Int]
        BY <2>10, FailsLocked DEF HandleThrows
      <3>3. pc' \in [Workers -> Steps] /\ Busy' /\ Holds'
        BY <2>10, <3>1, MovesLocked DEF HandleThrows, Locked
      <3> QED BY <2>10, <3>2, <3>3 DEF HandleThrows, Fields, Maps, server, script, database
    <2>11. CASE SendResponse(w)
      <3>1. job[w] \in Reqs /\ code[w] \in Int
        BY <2>11 DEF SendResponse, Busy, Maps
      <3>2. replies' \in [Reqs -> Seq(Int)]
        BY <2>11, <3>1, AppendsReply DEF SendResponse
      <3>3. pc' \in [Workers -> Steps] /\ Busy' /\ Holds'
        BY <2>11, MovesLocked DEF SendResponse, Locked
      <3> QED BY <2>11, <3>2, <3>3 DEF SendResponse, Fields, Maps, server, script, database
    <2>12. CASE DestroyContext(w)
      <3>1. pc' \in [Workers -> Steps] /\ Busy' /\ Holds'
        BY <2>12, MovesLocked DEF DestroyContext, Locked
      <3> QED BY <2>12, <3>1 DEF DestroyContext, Fields, Maps, Apps, server, database
    <2>13. CASE Unlock(w)
      <3>1. \E s \in {"error", "return"} : Goto(w, s)
        BY <2>13 DEF Unlock
      <3>2. pc' \in [Workers -> Steps] /\ Busy' /\ Holds'
        BY <2>13, <3>1 DEF Unlock, Unlocked, Goto, Maps, Busy, Holds, Locked, Unlocks, Steps
      <3> QED BY <2>13, <3>2 DEF Unlock, Unlocked, Fields, Maps, server, script, database
    <2>14. CASE SendError(w)
      <3>1. job[w] \in Reqs /\ code[w] \in Int
        BY <2>14 DEF SendError, Busy, Maps
      <3>2. replies' \in [Reqs -> Seq(Int)]
        BY <2>14, <3>1, AppendsReply DEF SendError
      <3>3. pc' \in [Workers -> Steps] /\ Busy' /\ Holds'
        BY <2>14 DEF SendError, Goto, Maps, Busy, Holds, Locked, Unlocks, Steps
      <3> QED BY <2>14, <3>2, <3>3 DEF SendError, ErrorResult, Fields, Maps, server,
                                       script, database
    <2> QED BY <1>4, <2>1, <2>2, <2>3, <2>4, <2>5, <2>6, <2>7, <2>8, <2>9, <2>10,
               <2>11, <2>12, <2>13, <2>14 DEF WorkerStep, CodeStep, ScriptStep
  <1>5. CASE UNCHANGED vars
    BY <1>5 DEF vars, Fields, Maps, Busy, Holds
  <1> QED BY <1>1, <1>2, <1>3, <1>4, <1>5 DEF Next, Exited

-----------------------------------------------------------------------------
(* The steps of a worker, by what they do to the request, the mutex, the      *)
(* runtime and the reply *)

Others(w) ==
  \A v \in Workers \ {w} : pc'[v] = pc[v] /\ job'[v] = job[v] /\ code'[v] = code[v]

\* The C handlers answer, or report the answer to CivetWeb.
Answers(w) ==
  /\ pc[w] \in {"health", "static", "fallback"} /\ pc'[w] = "idle"
  /\ job'[w] = NoReq /\ \E n \in Int : Reply(w, n)
  /\ UNCHANGED <<mutex, live, classId>>
Reports(w) ==
  /\ pc[w] = "return"
  /\ \/ code[w] > 0 /\ pc'[w] = "idle" /\ job'[w] = NoReq
     \/ code[w] <= 0 /\ pc'[w] = "fallback" /\ job'[w] = job[w]
  /\ UNCHANGED <<mutex, live, classId, replies>>

\* The request handler takes the mutex, builds a runtime, runs the script in it,
\* destroys it and gives the mutex back.
Enters(w) ==
  /\ pc[w] = "lock" /\ pc'[w] = "create"
  /\ mutex = NoWorker /\ mutex' = w
  /\ UNCHANGED <<job, code, live, classId, replies>>
Creates(w) ==
  /\ pc[w] = "create" /\ pc'[w] = "class"
  /\ live' = live \cup {job[w]} /\ classId' = NoReq
  /\ UNCHANGED <<job, code, mutex, replies>>
Allocates(w) ==
  /\ pc[w] = "class" /\ pc'[w] = "load"
  /\ classId' = IF classId = NoReq THEN job[w] ELSE classId
  /\ UNCHANGED <<job, code, mutex, live, replies>>
Proceeds(w) ==
  /\ pc[w] \in Scripted \ {"send"} /\ pc'[w] \in Scripted
  /\ UNCHANGED <<job, mutex, live, classId, replies>>
Fails(w) ==
  /\ pc[w] \in {"create"} \cup (Scripted \ {"send"})
  /\ \/ pc'[w] = "destroy" /\ job[w] \in live
     \/ pc'[w] = "unlock" /\ job[w] \notin live
  /\ UNCHANGED <<job, mutex, live, classId, replies>>
Sends(w) ==
  /\ pc[w] = "send" /\ pc'[w] = "destroy" /\ Reply(w, code[w])
  /\ UNCHANGED <<job, code, mutex, live, classId>>
Destroys(w) ==
  /\ pc[w] = "destroy" /\ pc'[w] = "unlock" /\ live' = live \ {job[w]}
  /\ UNCHANGED <<job, code, mutex, classId, replies>>
Leaves(w) ==
  /\ pc[w] = "unlock" /\ mutex' = NoWorker
  /\ \/ pc'[w] = "error" /\ replies[job[w]] = <<>>
     \/ pc'[w] = "return" /\ replies[job[w]] # <<>>
  /\ UNCHANGED <<job, code, live, classId, replies>>
SendsError(w) ==
  /\ pc[w] = "error" /\ pc'[w] = "return" /\ Reply(w, code[w])
  /\ UNCHANGED <<job, code, mutex, live, classId>>

LEMMA FailsOrMoves ==
  ASSUME Maps, NEW w \in Workers, NEW n \in Int, FailWith(w, n),
         pc[w] \in {"create"} \cup (Scripted \ {"send"}),
         UNCHANGED <<job, mutex, live, classId, replies>>
  PROVE  Fails(w) /\ Others(w)
  <1>1. Others(w)
    BY DEF FailWith, Goto, Others, Maps
  <1>2. CASE job[w] \in live
    BY <1>1, <1>2 DEF FailWith, Goto, Fails, Maps
  <1>3. CASE job[w] \notin live
    BY <1>1, <1>3 DEF FailWith, Goto, Fails, Maps
  <1> QED BY <1>2, <1>3

LEMMA Turns ==
  ASSUME Maps, NEW w \in Workers, WorkerStep(w)
  PROVE  /\ Others(w)
         /\ \/ Answers(w) \/ Reports(w) \/ Enters(w) \/ Creates(w) \/ Allocates(w)
            \/ Proceeds(w) \/ Fails(w) \/ Sends(w) \/ Destroys(w) \/ Leaves(w)
            \/ SendsError(w)
         /\ UNCHANGED <<main, routes, open, committed, pending, inTx, did>>
  <1> USE DEF server, database
  <1>1. CASE Fallback(w) \/ ServeHealth(w) \/ ServeStatic(w)
    <2>1. PICK n \in {200, 404} : Answer(w, n)
      BY <1>1 DEF Fallback, ServeHealth, ServeStatic
    <2>2. pc[w] \in {"fallback", "health", "static"}
      BY <1>1 DEF Fallback, ServeHealth, ServeStatic
    <2>3. Others(w) /\ pc'[w] = "idle" /\ job'[w] = NoReq
      BY <2>1 DEF Answer, Goto, Others, Maps
    <2> QED BY <2>1, <2>2, <2>3 DEF Answer, Answers, script
  <1>2. CASE HandlerReturns(w)
    <2>1. CASE code[w] > 0
      BY <1>2, <2>1 DEF HandlerReturns, Goto, Others, Reports, Maps, script
    <2>2. CASE ~ (code[w] > 0)
      <3>1. code[w] <= 0
        BY <2>2 DEF Maps
      <3> QED BY <1>2, <2>2, <3>1 DEF HandlerReturns, Goto, Others, Reports, Maps, script
    <2> QED BY <2>1, <2>2
  <1>3. CASE Lock(w)
    BY <1>3 DEF Lock, MutexFree, Goto, Others, Enters, Maps, script
  <1>4. CASE CreateContext(w)
    <2>1. CASE FailWith(w, 500) /\ UNCHANGED <<live, classId, app>>
      BY <1>4, <2>1, FailsOrMoves DEF CreateContext
    <2>2. CASE Goto(w, "class") /\ UNCHANGED code /\ classId' = NoReq
               /\ live' = live \cup {job[w]}
      BY <1>4, <2>2 DEF CreateContext, Goto, Others, Creates, Maps
    <2> QED BY <1>4, <2>1, <2>2 DEF CreateContext, ResetClassId
  <1>5. CASE InitClass(w)
    BY <1>5 DEF InitClass, Goto, Others, Allocates, Maps, script
  <1>6. ASSUME NEW s \in Scripted, Goto(w, s), UNCHANGED code,
               pc[w] \in Scripted \ {"send"},
               UNCHANGED <<job, mutex, live, classId, replies>>
        PROVE  Proceeds(w) /\ Others(w)
    BY <1>6 DEF Goto, Others, Proceeds, Maps, Scripted
  <1>7. CASE LoadServerJs(w)
    BY <1>6, <1>7, FailsOrMoves DEF LoadServerJs, Scripted, script
  <1>8. CASE ModuleDone(w)
    BY <1>6, <1>8, FailsOrMoves DEF ModuleDone, Scripted
  <1>9. CASE CreateRequest(w)
    BY <1>6, <1>9, FailsOrMoves DEF CreateRequest, Scripted, script
  <1>10. CASE CreateResponse(w)
    <2>1. CASE FailWith(w, 500)
      BY <1>10, <2>1, FailsOrMoves DEF CreateResponse, Scripted, script
    <2>2. CASE Goto(w, "lookup") /\ code' = [code EXCEPT ![w] = 200]
      BY <1>10, <2>2 DEF CreateResponse, Goto, Others, Proceeds, Maps, Scripted, script
    <2> QED BY <1>10, <2>1, <2>2 DEF CreateResponse
  <1>11. CASE Lookup(w)
    <2>1. /\ pc[w] \in Scripted \ {"send"}
          /\ UNCHANGED <<job, mutex, live, classId, replies>>
          /\ UNCHANGED <<main, routes, open, committed, pending, inTx, did>>
      BY <1>11 DEF Lookup, Scripted, script
    <2>2. CASE FailWith(w, 503)
      BY <2>1, <2>2, FailsOrMoves
    <2>3. CASE FailWith(w, 500)
      BY <2>1, <2>3, FailsOrMoves
    <2>4. CASE Goto(w, "handle") /\ UNCHANGED code
      BY <1>6, <2>1, <2>4 DEF Scripted
    <2>5. FailWith(w, 503) \/ FailWith(w, 500) \/ (Goto(w, "handle") /\ UNCHANGED code)
      BY <1>11, Zenon DEF Lookup
    <2> QED BY <2>1, <2>2, <2>3, <2>4, <2>5
  <1>12. CASE HandleReturns(w)
    <2>1. Others(w)
      BY <1>12 DEF HandleReturns, Goto, Others, Maps
    <2> QED BY <1>12, <2>1 DEF HandleReturns, Goto, Proceeds, Maps, Scripted, script
  <1>13. CASE HandleThrows(w)
    BY <1>13, FailsOrMoves DEF HandleThrows, Scripted, script
  <1>14. CASE SendResponse(w)
    BY <1>14 DEF SendResponse, Goto, Others, Sends, Maps, script
  <1>15. CASE DestroyContext(w)
    BY <1>15 DEF DestroyContext, Goto, Others, Destroys, Maps
  <1>16. CASE Unlock(w)
    <2>1. CASE replies[job[w]] = <<>>
      BY <1>16, <2>1 DEF Unlock, Unlocked, Goto, Others, Leaves, Maps, script
    <2>2. CASE replies[job[w]] # <<>>
      BY <1>16, <2>2 DEF Unlock, Unlocked, Goto, Others, Leaves, Maps, script
    <2> QED BY <2>1, <2>2
  <1>17. CASE SendError(w)
    <2>1. UNCHANGED code
      BY <1>17 DEF SendError, ErrorResult, Maps
    <2> QED BY <1>17, <2>1 DEF SendError, Goto, Others, SendsError, Maps, script
  <1> QED BY <1>1, <1>2, <1>3, <1>4, <1>5, <1>7, <1>8, <1>9, <1>10, <1>11, <1>12, <1>13,
             <1>14, <1>15, <1>16, <1>17 DEF WorkerStep, CodeStep, ScriptStep

-----------------------------------------------------------------------------
(* One runtime, whose class is the current one *)

OneWorker ==
  \A v, w \in Workers : job[v] = job[w] /\ job[v] # NoReq => v = w

\* A runtime belongs to the request of the worker that holds the mutex.
HasRuntime == Scripted \cup {"class", "destroy"}
Owned ==
  \A q \in live : mutex \in Workers /\ job[mutex] = q /\ pc[mutex] \in HasRuntime

ClassIsFresh == \A w \in Workers : pc[w] = "class" => classId = NoReq

LEMMA OneWorkerNext ==
  ASSUME TypeOK, OneWorker, [Next \/ Exited]_vars
  PROVE  OneWorker'
  <1> USE NoneAssumption
  <1>0. Maps
    BY TypeParts
  <1>1. ASSUME NEW w \in Workers, WorkerStep(w) PROVE OneWorker'
    <2>1. Others(w) /\ job'[w] \in {job[w], NoReq}
      BY <1>0, <1>1, Turns DEF Answers, Reports, Enters, Creates, Allocates, Proceeds,
                               Fails, Sends, Destroys, Leaves, SendsError
    <2> QED BY <2>1 DEF Others, OneWorker
  <1>2. ASSUME NEW w \in Workers, NEW q \in Reqs, Accept(w, q) PROVE OneWorker'
    BY <1>0, <1>2 DEF Accept, OneWorker, Maps
  <1>3. CASE UNCHANGED job
    BY <1>3 DEF OneWorker
  <1>4. ASSUME NEW w \in Workers, NEW sql \in Sql, Execute(w, sql) PROVE UNCHANGED job
    BY <1>4 DEF Execute
  <1>5. MainStep \/ Signal => UNCHANGED job
    BY DEF MainStep, StartServer, Register, StopServer, ShutdownEngine, CloseDb, Signal
  <1> QED BY <1>1, <1>2, <1>3, <1>4, <1>5 DEF Next, Exited, vars

LEMMA OwnedNext ==
  ASSUME TypeOK, TypeOK', OneWorker, Owned, [Next \/ Exited]_vars
  PROVE  Owned'
  <1> USE NoneAssumption
  <1>0. Maps /\ Busy /\ Holds /\ live \subseteq Reqs
    BY TypeParts DEF Fields
  <1>1. ASSUME NEW w \in Workers, WorkerStep(w) PROVE Owned'
    <2>1. Others(w)
      BY <1>0, <1>1, Turns
    <2>2. CASE Answers(w) \/ Reports(w) \/ SendsError(w)
      <3>1. mutex # w /\ UNCHANGED <<mutex, live>>
        BY <1>0, <2>2 DEF Answers, Reports, SendsError, Holds, Locked
      <3> QED BY <2>1, <3>1 DEF Owned, Others
    <2>3. CASE Enters(w)
      BY <2>3 DEF Enters, Owned
    <2>4. CASE Creates(w)
      <3>1. mutex = w /\ live = {}
        BY <1>0, <2>4 DEF Creates, Holds, Owned, Locked, HasRuntime, Scripted
      <3> QED BY <2>4, <3>1 DEF Creates, Owned, HasRuntime
    <2>5. CASE Allocates(w) \/ Proceeds(w) \/ Sends(w)
      <3>1. mutex = w /\ UNCHANGED <<mutex, live, job>> /\ pc'[w] \in HasRuntime
        BY <1>0, <2>5 DEF Allocates, Proceeds, Sends, Holds, Locked, HasRuntime, Scripted
      <3> QED BY <3>1 DEF Owned
    <2>6. CASE Fails(w)
      <3>1. mutex = w /\ UNCHANGED <<mutex, live, job>>
        BY <1>0, <2>6 DEF Fails, Holds, Locked, Scripted
      <3>2. pc'[w] \in HasRuntime \/ live = {}
        BY <2>6, <3>1 DEF Fails, Owned, HasRuntime
      <3> QED BY <3>1, <3>2 DEF Owned
    <2>7. CASE Destroys(w)
      <3>1. mutex = w
        BY <1>0, <2>7 DEF Destroys, Holds, Locked
      <3>2. live' = {}
        BY <2>7, <3>1 DEF Destroys, Owned
      <3> QED BY <3>2 DEF Owned
    <2>8. CASE Leaves(w)
      <3>1. mutex = w
        BY <1>0, <2>8 DEF Leaves, Holds, Locked
      <3>2. live' = {}
        BY <2>8, <3>1 DEF Leaves, Owned, HasRuntime, Scripted
      <3> QED BY <3>2 DEF Owned
    <2> QED BY <1>0, <1>1, <2>2, <2>3, <2>4, <2>5, <2>6, <2>7, <2>8, Turns
  <1>2. ASSUME NEW w \in Workers, NEW q \in Reqs, Accept(w, q) PROVE Owned'
    <2>1. mutex # w /\ UNCHANGED <<mutex, live>>
      BY <1>0, <1>2 DEF Accept, Holds, Locked
    <2>2. \A v \in Workers \ {w} : pc'[v] = pc[v] /\ job'[v] = job[v]
      BY <1>0, <1>2 DEF Accept, Goto, Maps
    <2> QED BY <2>1, <2>2 DEF Owned
  <1>3. CASE UNCHANGED <<pc, job, mutex, live>>
    BY <1>3 DEF Owned
  <1>4. ASSUME NEW w \in Workers, NEW sql \in Sql, Execute(w, sql)
        PROVE  UNCHANGED <<pc, job, mutex, live>>
    BY <1>4 DEF Execute
  <1>5. MainStep \/ Signal => UNCHANGED <<pc, job, mutex, live>>
    BY DEF MainStep, StartServer, Register, StopServer, ShutdownEngine, CloseDb, Signal
  <1> QED BY <1>1, <1>2, <1>3, <1>4, <1>5 DEF Next, Exited, vars

LEMMA OwnedIsOneRuntime ==
  ASSUME TypeOK, OneWorker, Owned
  PROVE  OneRuntime
  <1>1. Maps /\ live \subseteq Reqs
    BY TypeParts DEF Fields
  <1>2. ASSUME NEW w \in Workers, job[w] \in live PROVE mutex = w
    BY <1>1, <1>2, NoneAssumption DEF Owned, OneWorker
  <1>3. live = {} \/ live = {job[mutex]}
    BY DEF Owned
  <1>4. Cardinality(live) <= 1
    <2>1. CASE live = {}
      BY <2>1, FS_EmptySet
    <2>2. CASE live = {job[mutex]}
      BY <2>2, FS_Singleton
    <2> QED BY <1>3, <2>1, <2>2
  <1> QED BY <1>2, <1>4 DEF OneRuntime

LEMMA ClassNext ==
  ASSUME TypeOK, TypeOK', ClassIsCurrent, ClassIsFresh, [Next \/ Exited]_vars
  PROVE  ClassIsCurrent' /\ ClassIsFresh'
  <1> USE NoneAssumption
  <1>0. Maps /\ Busy /\ Holds /\ Holds'
    BY TypeParts DEF TypeOK, Holds
  <1>1. ASSUME NEW w \in Workers, WorkerStep(w) PROVE ClassIsCurrent' /\ ClassIsFresh'
    <2>1. Others(w)
      BY <1>0, <1>1, Turns
    <2>2. CASE Answers(w) \/ Reports(w) \/ SendsError(w) \/ Enters(w) \/ Leaves(w)
      <3>1. UNCHANGED classId /\ pc'[w] \notin Scripted \cup {"class"}
        BY <2>2 DEF Answers, Reports, SendsError, Enters, Leaves, Scripted
      <3> QED BY <2>1, <3>1 DEF ClassIsCurrent, ClassIsFresh, Others
    <2>3. CASE Creates(w) \/ Allocates(w) \/ Proceeds(w) \/ Fails(w) \/ Sends(w)
               \/ Destroys(w)
      <3>1. mutex = w /\ mutex' = w /\ UNCHANGED job
        BY <1>0, <2>3 DEF Creates, Allocates, Proceeds, Fails, Sends, Destroys, Holds,
                          Locked, Scripted
      <3>2. \A v \in Workers \ {w} : pc'[v] \notin Scripted \cup {"class"}
        BY <1>0, <3>1 DEF Holds, Locked, Scripted
      <3>3. pc'[w] \in Scripted => classId' = job[w]
        BY <2>3 DEF Creates, Allocates, Proceeds, Fails, Sends, Destroys, ClassIsCurrent,
                    ClassIsFresh, Scripted
      <3>4. pc'[w] = "class" => classId' = NoReq
        BY <2>3 DEF Creates, Allocates, Proceeds, Fails, Sends, Destroys, Scripted
      <3> QED BY <3>1, <3>2, <3>3, <3>4 DEF ClassIsCurrent, ClassIsFresh
    <2> QED BY <1>0, <1>1, <2>2, <2>3, Turns
  <1>2. ASSUME NEW w \in Workers, NEW q \in Reqs, Accept(w, q)
        PROVE  ClassIsCurrent' /\ ClassIsFresh'
    <2>1. \A v \in Workers \ {w} : pc'[v] = pc[v] /\ job'[v] = job[v]
      BY <1>0, <1>2 DEF Accept, Goto, Maps
    <2>2. mutex # w /\ UNCHANGED <<mutex, classId>>
      BY <1>0, <1>2 DEF Accept, Holds, Locked
    <2>3. pc'[w] \notin Scripted \cup {"class"}
      BY <1>0, <2>2 DEF Holds, Locked, Scripted
    <2> QED BY <2>1, <2>2, <2>3 DEF ClassIsCurrent, ClassIsFresh
  <1>3. CASE UNCHANGED <<pc, job, classId>>
    BY <1>3 DEF ClassIsCurrent, ClassIsFresh
  <1>4. ASSUME NEW w \in Workers, NEW sql \in Sql, Execute(w, sql)
        PROVE  UNCHANGED <<pc, job, classId>>
    BY <1>4 DEF Execute
  <1>5. MainStep \/ Signal => UNCHANGED <<pc, job, classId>>
    BY DEF MainStep, StartServer, Register, StopServer, ShutdownEngine, CloseDb, Signal
  <1> QED BY <1>1, <1>2, <1>3, <1>4, <1>5 DEF Next, Exited, vars

-----------------------------------------------------------------------------
(* Nothing is used after it is closed *)

\* The workers serve while the server runs; everything is open until it stops.
Serving == {"register", "running", "stopping"}
OpenWhileServing ==
  /\ main \in Serving \cup {"start"} => open = {"engine", "db"}
  /\ main \notin Serving => WorkersDone

LEMMA ServingNext ==
  ASSUME TypeOK, OpenWhileServing, Registered, [Next \/ Exited]_vars
  PROVE  OpenWhileServing'
  <1>0. Maps
    BY TypeParts
  <1>1. ASSUME NEW w \in Workers, WorkerStep(w) PROVE OpenWhileServing'
    <2>1. UNCHANGED <<main, open>>
      BY <1>0, <1>1, Turns
    <2>2. pc[w] # "idle"
      BY <1>0, <1>1, Turns DEF Answers, Reports, Enters, Creates, Allocates, Proceeds,
                               Fails, Sends, Destroys, Leaves, SendsError, Scripted
    <2> QED BY <2>1, <2>2 DEF OpenWhileServing, WorkersDone
  <1>2. ASSUME NEW w \in Workers, NEW q \in Reqs, Accept(w, q) PROVE OpenWhileServing'
    BY <1>2 DEF Accept, OpenWhileServing, Serving, server
  <1>3. CASE MainStep \/ Signal
    <2>1. CASE Register
      <3>1. main \in Serving /\ main' \in Serving /\ UNCHANGED <<open, pc>>
        BY <2>1, NextRoute DEF Register, Serving
      <3> QED BY <3>1 DEF OpenWhileServing
    <2>2. CASE StartServer \/ StopServer \/ ShutdownEngine \/ CloseDb \/ Signal
      BY <2>2 DEF StartServer, StopServer, ShutdownEngine, CloseDb, Signal,
                  OpenWhileServing, Serving, WorkersDone
    <2> QED BY <1>3, <2>1, <2>2 DEF MainStep
  <1>4. CASE UNCHANGED <<main, open, pc>>
    BY <1>4 DEF OpenWhileServing, WorkersDone
  <1>5. ASSUME NEW w \in Workers, NEW sql \in Sql, Execute(w, sql)
        PROVE  UNCHANGED <<main, open, pc>>
    BY <1>5 DEF Execute, server
  <1> QED BY <1>1, <1>2, <1>3, <1>4, <1>5 DEF Next, Exited, vars

-----------------------------------------------------------------------------
(* One answer per request *)

Unanswered == {"health", "static", "lock", "create", "class", "error"}
                \cup Scripted
Sent(q, w) == Len(replies[q]) = 1 /\ replies[q][1] = code[w]

\* What has been sent for a worker's request at each of its steps.
Progress(w) ==
  LET q == job[w] IN
    /\ pc[w] \in Unanswered => replies[q] = <<>>
    /\ pc[w] \in {"destroy", "unlock"} => replies[q] = <<>> \/ Sent(q, w)
    /\ pc[w] = "return" => Sent(q, w)
    /\ pc[w] = "fallback" =>
         replies[q] = <<>> \/ (Len(replies[q]) = 1 /\ replies[q][1] <= 0)

InProgress == \A w \in Workers : pc[w] # "idle" => Progress(w)

\* A status line for one request is no reply to another.
LEMMA RepliesToOne ==
  ASSUME Maps, NEW w \in Workers, job[w] \in Reqs, NEW n \in Int, Reply(w, n)
  PROVE  /\ \A q \in Reqs : q # job[w] => replies'[q] = replies[q]
         /\ replies'[job[w]] # <<>>
         /\ replies[job[w]] = <<>> =>
              Len(replies'[job[w]]) = 1 /\ replies'[job[w]][1] = n
         /\ Len(replies[job[w]]) = 1 =>
              Len(replies'[job[w]]) = 2 /\ replies'[job[w]][1] = replies[job[w]][1]
  <1> DEFINE r == replies[job[w]]
  <1>1. r \in Seq(Int)
    BY DEF Maps
  <1>2. replies'[job[w]] = Append(r, n) /\ \A q \in Reqs : q # job[w] => replies'[q] = replies[q]
    BY DEF Reply, Maps
  <1>3. /\ Len(Append(r, n)) = Len(r) + 1 /\ Append(r, n) # <<>>
        /\ Append(r, n)[Len(r) + 1] = n
        /\ \A i \in 1 .. Len(r) : Append(r, n)[i] = r[i]
    BY <1>1, AppendProperties
  <1>4. r = <<>> => Len(r) = 0
    BY EmptySeq
  <1>5. r = <<>> => Len(Append(r, n)) = 1 /\ Append(r, n)[1] = n
    BY <1>3, <1>4
  <1>6. Len(r) = 1 => Len(Append(r, n)) = 2 /\ Append(r, n)[1] = r[1]
    BY <1>3
  <1> QED BY <1>2, <1>3, <1>5, <1>6

LEMMA ProgressNext ==
  ASSUME TypeOK, TypeOK', OneWorker, InProgress, AnsweredOnce, [Next \/ Exited]_vars
  PROVE  InProgress' /\ AnsweredOnce'
  <1> USE NoneAssumption
  <1>0. Maps /\ Busy /\ Maps' /\ Busy'
    BY TypeParts DEF TypeOK, Maps, Busy, Steps
  <1>1. ASSUME NEW w \in Workers, WorkerStep(w) PROVE InProgress' /\ AnsweredOnce'
    <2>1. Others(w)
      BY <1>0, <1>1, Turns
    <2>2. pc[w] # "idle" /\ job[w] \in Reqs /\ Progress(w)
      <3>1. pc[w] # "idle"
        BY <1>0, <1>1, Turns DEF Answers, Reports, Enters, Creates, Allocates, Proceeds,
                                 Fails, Sends, Destroys, Leaves, SendsError, Scripted
      <3> QED BY <1>0, <3>1 DEF Busy, Maps, InProgress
    <2>3. SUFFICES ASSUME \A q \in Reqs : q # job[w] => replies'[q] = replies[q]
                   PROVE  /\ pc'[w] # "idle" => Progress(w)'
                          /\ Len(replies'[job[w]]) > 1 =>
                               Len(replies'[job[w]]) = 2 /\ replies'[job[w]][1] <= 0
      <3>1. \A q \in Reqs : q # job[w] => replies'[q] = replies[q]
        <4>1. CASE \E n \in Int : Reply(w, n)
          BY <1>0, <2>2, <4>1, RepliesToOne
        <4>2. CASE UNCHANGED replies
          BY <4>2
        <4>3. code[w] \in Int
          BY <1>0 DEF Maps
        <4> QED BY <1>0, <1>1, <4>1, <4>2, <4>3, Turns
                DEF Answers, Reports, Enters, Creates, Allocates, Proceeds, Fails, Sends,
                    Destroys, Leaves, SendsError
      <3>2. /\ pc'[w] # "idle" => Progress(w)'
            /\ Len(replies'[job[w]]) > 1 =>
                 Len(replies'[job[w]]) = 2 /\ replies'[job[w]][1] <= 0
        BY <2>3, <3>1
      <3>3. AnsweredOnce'
        BY <3>1, <3>2 DEF AnsweredOnce
      <3>4. ASSUME NEW v \in Workers, v # w, pc'[v] # "idle" PROVE Progress(v)'
        <4>1. pc'[v] = pc[v] /\ job'[v] = job[v] /\ code'[v] = code[v]
          BY <2>1, <3>4 DEF Others
        <4>2. job[v] \in Reqs /\ job[v] # job[w]
          BY <1>0, <2>2, <3>4, <4>1 DEF Busy, Maps, OneWorker
        <4>3. replies'[job[v]] = replies[job[v]]
          BY <3>1, <4>2
        <4>4. Progress(v)
          BY <3>4, <4>1 DEF InProgress
        <4> QED BY <4>1, <4>3, <4>4 DEF Progress, Sent
      <3> QED BY <3>2, <3>3, <3>4 DEF InProgress
    <2>4. CASE Answers(w)
      <3>1. replies[job[w]] = <<>> \/
              (Len(replies[job[w]]) = 1 /\ replies[job[w]][1] <= 0)
        BY <2>2, <2>4 DEF Answers, Progress, Unanswered
      <3>2. PICK n \in Int : Reply(w, n)
        BY <2>4 DEF Answers
      <3>3. /\ replies[job[w]] = <<>> => Len(replies'[job[w]]) = 1
            /\ Len(replies[job[w]]) = 1 =>
                 Len(replies'[job[w]]) = 2 /\ replies'[job[w]][1] = replies[job[w]][1]
        BY <1>0, <2>2, <3>2, RepliesToOne
      <3>4. CASE replies[job[w]] = <<>>
        <4>1. Len(replies'[job[w]]) = 1
          BY <3>3, <3>4
        <4>2. ~ (Len(replies'[job[w]]) > 1)
          BY <4>1
        <4> QED BY <2>4, <4>2 DEF Answers
      <3>5. CASE Len(replies[job[w]]) = 1 /\ replies[job[w]][1] <= 0
        BY <2>4, <3>3, <3>5 DEF Answers
      <3> QED BY <3>1, <3>4, <3>5
    <2>5. CASE Sends(w) \/ SendsError(w)
      <3>1. replies[job[w]] = <<>> /\ code[w] \in Int /\ Reply(w, code[w])
            /\ UNCHANGED <<job, code>> /\ pc'[w] \in {"destroy", "return"}
        BY <1>0, <2>2, <2>5 DEF Sends, SendsError, Progress, Unanswered, Scripted, Maps
      <3>2. Len(replies'[job[w]]) = 1 /\ replies'[job[w]][1] = code[w]
        BY <1>0, <2>2, <3>1, RepliesToOne
      <3> QED BY <3>1, <3>2 DEF Progress, Sent, Unanswered, Scripted
    <2>6. CASE Enters(w) \/ Creates(w) \/ Allocates(w) \/ Proceeds(w) \/ Fails(w)
      <3>1. replies[job[w]] = <<>> /\ UNCHANGED <<job, replies>>
            /\ pc'[w] \in Unanswered \cup {"destroy", "unlock"}
        BY <2>2, <2>6 DEF Enters, Creates, Allocates, Proceeds, Fails, Progress,
                          Unanswered, Scripted
      <3>2. Len(<<>>) = 0
        OBVIOUS
      <3> QED BY <3>1, <3>2 DEF Progress, Unanswered, Scripted
    <2>7. CASE Destroys(w) \/ Leaves(w)
      <3>1. UNCHANGED <<job, code, replies>> /\ (replies[job[w]] = <<>> \/ Sent(job[w], w))
        BY <2>2, <2>7 DEF Destroys, Leaves, Progress
      <3>2. \/ pc'[w] = "unlock"
            \/ pc'[w] = "error" /\ replies[job[w]] = <<>>
            \/ pc'[w] = "return" /\ replies[job[w]] # <<>>
        BY <2>7 DEF Destroys, Leaves
      <3>3. ~ (Len(replies[job[w]]) > 1)
        <4>1. CASE replies[job[w]] = <<>>
          BY <4>1, EmptySeq
        <4>2. CASE Sent(job[w], w)
          BY <4>2 DEF Sent
        <4> QED BY <3>1, <4>1, <4>2
      <3>4. Progress(w)'
        BY <3>1, <3>2 DEF Progress, Sent, Unanswered, Scripted
      <3> QED BY <3>1, <3>3, <3>4
    <2>8. CASE Reports(w)
      <3>1. Len(replies[job[w]]) = 1 /\ replies[job[w]][1] = code[w] /\ UNCHANGED replies
        BY <2>2, <2>8 DEF Reports, Progress, Sent
      <3>2. pc'[w] # "idle" => Progress(w)'
        BY <2>8, <3>1 DEF Reports, Progress, Unanswered, Scripted
      <3>3. Len(replies'[job[w]]) = 1
        BY <3>1
      <3>4. ~ (Len(replies'[job[w]]) > 1)
        BY <3>3
      <3> QED BY <3>2, <3>4
    <2> QED BY <1>0, <1>1, <2>4, <2>5, <2>6, <2>7, <2>8, Turns
  <1>2. ASSUME NEW w \in Workers, NEW q \in Reqs, Accept(w, q)
        PROVE  InProgress' /\ AnsweredOnce'
    <2>1. job'[w] = q /\ replies[q] = <<>> /\ UNCHANGED <<replies, code>>
          /\ pc'[w] \in {"health", "static", "lock", "fallback"}
      BY <1>0, <1>2 DEF Accept, Goto, Maps, RouteOrder
    <2>2. Progress(w)'
      BY <2>1 DEF Progress, Unanswered, Scripted
    <2>3. \A v \in Workers \ {w} : pc'[v] = pc[v] /\ job'[v] = job[v]
      BY <1>0, <1>2 DEF Accept, Goto, Maps
    <2>4. ASSUME NEW v \in Workers, v # w, pc'[v] # "idle" PROVE Progress(v)'
      BY <2>1, <2>3, <2>4 DEF InProgress, Progress, Sent
    <2> QED BY <2>1, <2>2, <2>4 DEF InProgress, AnsweredOnce
  <1>3. CASE UNCHANGED <<pc, job, code, replies>>
    BY <1>3 DEF InProgress, Progress, Sent, AnsweredOnce
  <1>4. ASSUME NEW w \in Workers, NEW sql \in Sql, Execute(w, sql)
        PROVE  UNCHANGED <<pc, job, code, replies>>
    BY <1>4 DEF Execute
  <1>5. MainStep \/ Signal => UNCHANGED <<pc, job, code, replies>>
    BY DEF MainStep, StartServer, Register, StopServer, ShutdownEngine, CloseDb, Signal
  <1> QED BY <1>1, <1>2, <1>3, <1>4, <1>5 DEF Next, Exited, vars

-----------------------------------------------------------------------------
(* Transactions *)

Fresh == {"health", "static", "lock", "create", "class"}

\* A request has executed nothing before its script runs.
DidNothing ==
  /\ \A w \in Workers : pc[w] \in Fresh => did[job[w]] = {}
  /\ \A q \in Reqs : replies[q] = <<>> /\ (\A w \in Workers : job[w] # q) => did[q] = {}

Enders == {"commit", "rollback"}
Unended == {q \in Reqs : "begin" \in did[q] /\ did[q] \cap Enders = {}}

\* Somebody's transaction is never ended by its own request when a transaction
\* is open, or when a request has ended one that it did not begin.
Blame ==
  /\ inTx => Unended # {}
  /\ \A q \in Reqs : did[q] \cap Enders # {} /\ "begin" \notin did[q] =>
       \E r \in Leaked : r # q

LEMMA DidNothingNext ==
  ASSUME TypeOK, OneWorker, InProgress, DidNothing, [Next \/ Exited]_vars
  PROVE  DidNothing'
  <1> USE NoneAssumption
  <1>0. Maps /\ Busy /\ did \in [Reqs -> SUBSET Sql]
    BY TypeParts DEF Fields
  <1>1. ASSUME NEW w \in Workers, WorkerStep(w) PROVE DidNothing'
    <2>1. Others(w) /\ UNCHANGED did
      BY <1>0, <1>1, Turns
    <2>2. pc[w] # "idle" /\ job[w] \in Reqs /\ Progress(w)
      <3>1. pc[w] # "idle"
        BY <1>0, <1>1, Turns DEF Answers, Reports, Enters, Creates, Allocates, Proceeds,
                                 Fails, Sends, Destroys, Leaves, SendsError, Scripted
      <3> QED BY <1>0, <3>1 DEF Busy, Maps, InProgress
    <2>3. pc'[w] \in Fresh => pc[w] \in Fresh /\ job'[w] = job[w]
      BY <1>0, <1>1, Turns DEF Answers, Reports, Enters, Creates, Allocates, Proceeds,
                               Fails, Sends, Destroys, Leaves, SendsError, Scripted, Fresh
    <2>4. \A v \in Workers : pc'[v] \in Fresh => did'[job'[v]] = {}
      BY <2>1, <2>3 DEF Others, DidNothing
    <2>5. /\ \A q \in Reqs : replies'[q] = <<>> => replies[q] = <<>>
          /\ job'[w] # job[w] => replies'[job[w]] # <<>>
      <3>1. CASE Reports(w)
        BY <2>2, <3>1, EmptySeq DEF Reports, Progress, Sent
      <3>2. ASSUME NEW n \in Int, Reply(w, n)
            PROVE  /\ \A q \in Reqs : replies'[q] = <<>> => replies[q] = <<>>
                   /\ replies'[job[w]] # <<>>
        BY <1>0, <2>2, <3>2, RepliesToOne
      <3>3. CASE UNCHANGED <<job, replies>>
        BY <3>3
      <3>4. code[w] \in Int
        BY <1>0 DEF Maps
      <3> QED BY <1>0, <1>1, <3>1, <3>2, <3>3, <3>4, Turns
              DEF Answers, Enters, Creates, Allocates, Proceeds, Fails, Sends, Destroys,
                  Leaves, SendsError
    <2>6. ASSUME NEW q \in Reqs, replies'[q] = <<>>, \A v \in Workers : job'[v] # q
          PROVE  did'[q] = {}
      <3>1. \A v \in Workers : job[v] # q
        BY <2>1, <2>5, <2>6 DEF Others
      <3> QED BY <2>1, <2>5, <2>6, <3>1 DEF DidNothing
    <2> QED BY <2>4, <2>6 DEF DidNothing
  <1>2. ASSUME NEW w \in Workers, NEW q \in Reqs, Accept(w, q) PROVE DidNothing'
    <2>1. did[q] = {}
      BY <1>2 DEF Accept, DidNothing
    <2>2. job'[w] = q /\ job[w] = NoReq /\ UNCHANGED <<did, replies>>
      BY <1>0, <1>2 DEF Accept, Maps, Busy, script
    <2>3. \A v \in Workers \ {w} : pc'[v] = pc[v] /\ job'[v] = job[v]
      BY <1>0, <1>2 DEF Accept, Goto, Maps
    <2>4. \A v \in Workers : pc'[v] \in Fresh => did'[job'[v]] = {}
      BY <2>1, <2>2, <2>3 DEF DidNothing
    <2>5. \A r \in Reqs : (\A v \in Workers : job'[v] # r) => \A v \in Workers : job[v] # r
      BY <2>2, <2>3
    <2> QED BY <2>2, <2>4, <2>5 DEF DidNothing
  <1>3. ASSUME NEW w \in Workers, NEW sql \in Sql, Execute(w, sql) PROVE DidNothing'
    <2>1. pc[w] \notin Fresh /\ pc[w] # "idle" /\ UNCHANGED <<pc, job, replies>>
      BY <1>3 DEF Execute, Fresh
    <2>2. \A q \in Reqs : q # job[w] => did'[q] = did[q]
      BY <1>0, <1>3 DEF Execute
    <2>3. \A v \in Workers : pc[v] \in Fresh => job[v] \in Reqs /\ job[v] # job[w]
      BY <1>0, <2>1 DEF OneWorker, Busy, Maps, Fresh
    <2>4. \A v \in Workers : pc'[v] \in Fresh => did'[job'[v]] = {}
      BY <2>1, <2>2, <2>3 DEF DidNothing
    <2>5. \A q \in Reqs : replies'[q] = <<>> /\ (\A v \in Workers : job'[v] # q)
                            => did'[q] = {}
      BY <2>1, <2>2 DEF DidNothing
    <2> QED BY <2>4, <2>5 DEF DidNothing
  <1>4. CASE UNCHANGED <<pc, job, replies, did>>
    BY <1>4 DEF DidNothing
  <1>5. MainStep \/ Signal => UNCHANGED <<pc, job, replies, did>>
    BY DEF MainStep, StartServer, Register, StopServer, ShutdownEngine, CloseDb, Signal,
           script
  <1> QED BY <1>1, <1>2, <1>3, <1>4, <1>5 DEF Next, Exited, vars

\* Only the script that runs can end its transaction.
LEMMA LeakedStays ==
  ASSUME TypeOK, DidNothing, [Next \/ Exited]_vars
  PROVE  Leaked \subseteq Leaked'
  <1> USE NoneAssumption
  <1>0. Maps /\ did \in [Reqs -> SUBSET Sql]
    BY TypeParts DEF Fields
  <1> SUFFICES ASSUME NEW r \in Leaked
               PROVE  did'[r] = did[r] /\
                      \A v \in Workers : job'[v] = r => pc'[v] \notin Scripted
    BY DEF Leaked
  <1>1. /\ r \in Reqs /\ "begin" \in did[r]
        /\ \A v \in Workers : job[v] = r => pc[v] \notin Scripted
    BY DEF Leaked
  <1>2. ASSUME NEW w \in Workers, WorkerStep(w)
        PROVE  did'[r] = did[r] /\
               \A v \in Workers : job'[v] = r => pc'[v] \notin Scripted
    <2>1. Others(w) /\ UNCHANGED did
      BY <1>0, <1>2, Turns
    <2>2. ASSUME job'[w] = r, pc'[w] \in Scripted PROVE FALSE
      <3>1. job[w] = r /\ (pc[w] \in Scripted \/ pc[w] = "class")
        BY <1>0, <1>1, <1>2, <2>2, Turns
           DEF Answers, Reports, Enters, Creates, Allocates, Proceeds, Fails, Sends,
               Destroys, Leaves, SendsError, Scripted
      <3> QED BY <1>1, <3>1 DEF DidNothing, Fresh
    <2> QED BY <1>1, <2>1, <2>2 DEF Others
  <1>3. ASSUME NEW w \in Workers, NEW q \in Reqs, Accept(w, q)
        PROVE  did'[r] = did[r] /\
               \A v \in Workers : job'[v] = r => pc'[v] \notin Scripted
    <2>1. pc'[w] \in {"health", "static", "lock", "fallback"} /\ UNCHANGED did
      BY <1>0, <1>3 DEF Accept, Goto, Maps, RouteOrder, script
    <2>2. \A v \in Workers \ {w} : pc'[v] = pc[v] /\ job'[v] = job[v]
      BY <1>0, <1>3 DEF Accept, Goto, Maps
    <2> QED BY <1>1, <2>1, <2>2 DEF Scripted
  <1>4. ASSUME NEW w \in Workers, NEW sql \in Sql, Execute(w, sql)
        PROVE  did'[r] = did[r] /\
               \A v \in Workers : job'[v] = r => pc'[v] \notin Scripted
    <2>1. job[w] # r /\ UNCHANGED <<pc, job>>
      BY <1>1, <1>4 DEF Execute, Scripted
    <2> QED BY <1>0, <1>1, <1>4, <2>1 DEF Execute
  <1>5. CASE UNCHANGED <<pc, job, did>>
    BY <1>1, <1>5
  <1>6. MainStep \/ Signal => UNCHANGED <<pc, job, did>>
    BY DEF MainStep, StartServer, Register, StopServer, ShutdownEngine, CloseDb, Signal,
           script
  <1> QED BY <1>2, <1>3, <1>4, <1>5, <1>6 DEF Next, Exited, vars

\* While one script runs, no other does.
LEMMA OthersAreOver ==
  ASSUME TypeOK, NEW w \in Workers, pc[w] \in {"module", "handle"},
         NEW r \in Unended, r # job[w]
  PROVE  r \in Leaked
  <1>1. Holds
    BY TypeParts
  <1>2. \A v \in Workers : pc[v] \in Scripted => v = w
    BY <1>1 DEF Holds, Locked, Scripted
  <1> QED BY <1>2 DEF Unended, Leaked, Enders, Scripted

LEMMA BlameNext ==
  ASSUME TypeOK, DidNothing, Blame, IsolatedUnlessLeaked, [Next \/ Exited]_vars
  PROVE  Blame' /\ IsolatedUnlessLeaked'
  <1>0. Maps /\ Busy /\ did \in [Reqs -> SUBSET Sql]
    BY TypeParts DEF Fields
  <1>1. Leaked \subseteq Leaked'
    BY LeakedStays
  <1>2. CASE UNCHANGED did /\ committed \subseteq committed' /\ (inTx' => inTx)
    <2>1. Unended' = Unended
      BY <1>2 DEF Unended
    <2>2. Blame'
      BY <1>1, <1>2, <2>1 DEF Blame
    <2> QED BY <1>1, <1>2, <2>2 DEF IsolatedUnlessLeaked
  <1>3. ASSUME NEW w \in Workers, NEW sql \in Sql, Execute(w, sql)
        PROVE  Blame' /\ IsolatedUnlessLeaked'
    <2> DEFINE q == job[w]
    <2>1. q \in Reqs /\ pc[w] \in {"module", "handle"} /\ q' = q
      BY <1>0, <1>3, NoneAssumption DEF Execute, Busy, Maps
    <2>2. /\ did'[q] = did[q] \cup {sql} /\ sql \notin did[q]
          /\ \A r \in Reqs : r # q => did'[r] = did[r]
      BY <1>0, <1>3, <2>1 DEF Execute
    <2>3. \A r \in Unended : r # q => r \in Leaked /\ r \in Unended' /\ r \in Leaked'
      BY <1>1, <2>1, <2>2, OthersAreOver DEF Unended
    <2>4. CASE sql = "begin"
      <3>1. ~inTx /\ UNCHANGED committed
        BY <1>3, <2>4 DEF Execute
      <3>2. Unended' # {}
        <4>1. CASE did[q] \cap Enders = {}
          BY <2>1, <2>2, <2>4, <4>1 DEF Unended, Enders
        <4>2. CASE did[q] \cap Enders # {}
          <5>1. PICK r \in Leaked : r # q
            BY <2>1, <2>2, <2>4, <4>2 DEF Blame
          <5> QED BY <2>3, <5>1 DEF Leaked, Unended, Enders
        <4> QED BY <4>1, <4>2
      <3>3. \A r \in Reqs : did'[r] \cap Enders # {} /\ "begin" \notin did'[r] =>
              \E s \in Leaked' : s # r
        BY <1>1, <2>1, <2>2, <2>4 DEF Blame
      <3>4. IsolatedUnlessLeaked'
        BY <1>1, <2>1, <2>2, <2>4, <3>1 DEF IsolatedUnlessLeaked
      <3> QED BY <3>2, <3>3, <3>4 DEF Blame
    <2>5. CASE sql = "insert"
      <3>1. /\ inTx' = inTx /\ committed \subseteq committed'
            /\ ~inTx => q \in committed'
        BY <1>3, <2>5 DEF Execute
      <3>2. \A r \in Reqs : /\ did'[r] \cap Enders = did[r] \cap Enders
                            /\ "begin" \in did'[r] <=> "begin" \in did[r]
        BY <2>1, <2>2, <2>5 DEF Enders
      <3>3. Unended' = Unended
        BY <3>2 DEF Unended
      <3>4. Blame'
        BY <1>1, <3>1, <3>2, <3>3 DEF Blame
      <3>5. ASSUME "begin" \notin did'[q], inTx PROVE \E r \in Leaked' : r # q
        <4>1. PICK r \in Unended : TRUE
          BY <3>5 DEF Blame
        <4>2. r # q
          BY <2>2, <3>5 DEF Unended
        <4> QED BY <2>3, <4>1, <4>2
      <3>6. IsolatedUnlessLeaked'
        BY <1>1, <2>1, <2>2, <3>1, <3>5 DEF IsolatedUnlessLeaked
      <3> QED BY <3>4, <3>6
    <2>6. CASE sql \in Enders
      <3>1. inTx /\ ~inTx' /\ committed \subseteq committed'
        BY <1>3, <2>6 DEF Execute, Enders
      <3>2. ASSUME "begin" \notin did'[q] PROVE \E r \in Leaked' : r # q
        <4>1. PICK r \in Unended : TRUE
          BY <3>1 DEF Blame
        <4>2. r # q
          BY <2>2, <3>2 DEF Unended
        <4> QED BY <2>3, <4>1, <4>2
      <3>3. \A r \in Reqs : did'[r] \cap Enders # {} /\ "begin" \notin did'[r] =>
              \E s \in Leaked' : s # r
        BY <1>1, <2>2, <3>2 DEF Blame
      <3>4. IsolatedUnlessLeaked'
        BY <1>1, <2>1, <2>2, <2>6, <3>1 DEF IsolatedUnlessLeaked, Enders
      <3> QED BY <3>1, <3>3, <3>4 DEF Blame
    <2> QED BY <2>4, <2>5, <2>6, SqlAssumption DEF Enders
  <1>4. ASSUME NEW w \in Workers, WorkerStep(w) PROVE UNCHANGED <<did, committed, inTx>>
    BY <1>0, <1>4, Turns
  <1>5. ASSUME NEW w \in Workers, NEW q \in Reqs, Accept(w, q)
        PROVE  UNCHANGED <<did, committed, inTx>>
    BY <1>5 DEF Accept, script, database
  <1>6. MainStep \/ Signal =>
          UNCHANGED did /\ committed \subseteq committed' /\ (inTx' => inTx)
    BY DEF MainStep, StartServer, Register, StopServer, ShutdownEngine, CloseDb, Signal,
           script, database
  <1> QED BY <1>2, <1>3, <1>4, <1>5, <1>6 DEF Next, Exited, vars

-----------------------------------------------------------------------------
(* The theorems *)

IInv ==
  /\ TypeOK /\ Registered
  /\ OneWorker /\ Owned
  /\ ClassIsCurrent /\ ClassIsFresh
  /\ OpenWhileServing
  /\ InProgress /\ AnsweredOnce
  /\ DidNothing /\ Blame /\ IsolatedUnlessLeaked

LEMMA Inductive == Spec => []IInv
  <1>1. Init => IInv
    <2>1. ASSUME Init PROVE TypeOK
      BY <2>1, TypeInit
    <2>2. ASSUME Init PROVE /\ Registered /\ OneWorker /\ Owned
                            /\ ClassIsCurrent /\ ClassIsFresh
      BY <2>2, NoneAssumption
         DEF Init, Registered, OneWorker, Owned, ClassIsCurrent, ClassIsFresh, Scripted
    <2>3. ASSUME Init PROVE OpenWhileServing /\ InProgress
      BY <2>3 DEF Init, OpenWhileServing, Serving, WorkersDone, InProgress
    <2>4. ASSUME Init PROVE AnsweredOnce
      <3>1. Len(<<>>) = 0
        BY EmptySeq
      <3> QED BY <2>4, <3>1 DEF Init, AnsweredOnce
    <2>5. ASSUME Init PROVE DidNothing /\ Blame /\ IsolatedUnlessLeaked
      BY <2>5 DEF Init, DidNothing, Blame, IsolatedUnlessLeaked, Fresh
    <2> QED BY <2>1, <2>2, <2>3, <2>4, <2>5 DEF IInv
  <1>2. IInv /\ [Next \/ Exited]_vars => IInv'
    <2> SUFFICES ASSUME IInv, [Next \/ Exited]_vars PROVE IInv'
      OBVIOUS
    <2> USE DEF IInv
    <2>1. TypeOK' /\ Registered'
      BY TypeNext, RegisteredNext
    <2>2. OneWorker' /\ Owned'
      BY <2>1, OneWorkerNext, OwnedNext
    <2>3. ClassIsCurrent' /\ ClassIsFresh'
      BY <2>1, ClassNext
    <2>4. OpenWhileServing'
      BY ServingNext
    <2>5. InProgress' /\ AnsweredOnce'
      BY <2>1, ProgressNext
    <2>6. DidNothing' /\ Blame' /\ IsolatedUnlessLeaked'
      BY DidNothingNext, BlameNext
    <2> QED BY <2>1, <2>2, <2>3, <2>4, <2>5, <2>6
  <1> QED BY <1>1, <1>2, PTL DEF Spec

\* The type invariant holds for any number of workers and requests: a worker
\* has a request while it is not idle and the mutex between Lock and Unlock.
THEOREM Typing == Spec => []TypeOK
  BY Inductive, PTL DEF IInv

\* The mutex serialises the life of a runtime, on the error paths too: there is
\* at most one, and its worker holds handler_mutex.
THEOREM RuntimesSerialised == Spec => []OneRuntime
  <1>1. IInv => OneRuntime
    BY OwnedIsOneRuntime DEF IInv
  <1> QED BY <1>1, Inductive, PTL

\* hbf_response_class_id, a global that every runtime overwrites, belongs to the
\* runtime of the request whenever its script and its C bindings run.
THEOREM ClassSerialised == Spec => []ClassIsCurrent
  BY Inductive, PTL DEF IInv

\* hbf_server_stop waits for the workers before main shuts down the engine and
\* closes the database: no request sees either gone.
THEOREM ShutdownIsLast == Spec => []NothingAfterClose
  <1>1. IInv => NothingAfterClose
    BY DEF IInv, OpenWhileServing, NothingAfterClose, WorkersDone
  <1> QED BY <1>1, Inductive, PTL

\* Every path of the handlers sends at most one status line, but for a status
\* that CivetWeb takes for "not handled".
THEOREM RepliesOnce == Spec => []AnsweredOnce
  BY Inductive, PTL DEF IInv

\* A request that opened no transaction has its write committed at once, unless
\* another request ended without closing the transaction it had opened.
THEOREM IsolationUnlessLeaked == Spec => []IsolatedUnlessLeaked
  BY Inductive, PTL DEF IInv

=============================================================================

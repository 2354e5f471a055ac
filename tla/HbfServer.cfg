SPECIFICATION FairSpec
CONSTANTS
  Workers = {w1, w2}
  NoWorker = NoWorker
  NoReq = NoReq
  Reqs = {r1, r2}
  Statuses = {0, 200}
  Sql = {"begin", "insert", "commit", "rollback"}
INVARIANTS TypeOK OneRuntime ClassIsCurrent AnsweredOnce IsolatedUnlessLeaked NothingAfterClose
PROPERTIES EveryRequestAnswered ShutsDown

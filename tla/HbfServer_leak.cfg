SPECIFICATION Spec
CONSTANTS
  Workers = {w1, w2}
  NoWorker = NoWorker
  NoReq = NoReq
  Reqs = {r1, r2}
  Statuses = {200}
  Sql = {"begin", "insert"}
INVARIANT EachExecuteIsATransaction

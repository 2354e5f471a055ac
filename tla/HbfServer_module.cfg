SPECIFICATION Spec
CONSTANTS
  Workers = {w1, w2}
  NoWorker = NoWorker
  NoReq = NoReq
  Reqs = {r1}
  Statuses = {200}
  Sql = {}
INVARIANT FailedModuleIs5xx

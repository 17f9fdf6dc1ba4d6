SPECIFICATION Spec
CONSTANTS
  Users = {u1}
  Handlers = {h1, h2, h3}
  Jobs <- LegalJobs
  Threshold <- WarnThresholds
  CanFail = TRUE
  CanLeave = TRUE
  NoJob = NoJob
INVARIANTS CaseNumbersDense CasesMatchSanctions NeverEscalatedEarly
SYMMETRY HandlerSymmetry
CHECK_DEADLOCK FALSE

CONSTANTS
  r1 = r1
  r2 = r2
  bad = bad
  Repos = {r1, r2, bad}
  BadRepos = {bad}
  Changes = {"none", "read"}
  Ttl = 1
  MaxTime = 2
  MaxOps = 2
  MaxFaults = 1
SYMMETRY RepoSymmetry
SPECIFICATION Spec
INVARIANTS TypeOK ScopesFresh
PROPERTIES RecordsMoveForward ProbeKeepsDescription
CHECK_DEADLOCK FALSE

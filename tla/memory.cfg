SPECIFICATION Spec
CONSTANTS
  outcome = outcome
  rule = rule
  alike = alike
  good = good
  bad = bad
  disk = disk
  nginx = nginx
  Nothing = Nothing
  Probe = probe
  Stored <- MCStored
  Asked = {alike}
  Outcomes = {outcome}
  Directives = {rule}
  Values = {good, bad}
  Healthy = good
  Tokens = {disk, nginx}
  Paths <- MCStored
  PathOf <- MCPathOf
  Words <- MCWords
  r1 = r1
  r2 = r2
  Requests = {r1, r2}
SYMMETRY RequestSymmetry
INVARIANTS
  TypeOK
  SearchSeesFiles
  CountsDoNotDrift
  SessionIsCurrent
  ProbeIsGone

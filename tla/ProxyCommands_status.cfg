CONSTANTS
  p1 = p1
  p2 = p2
  q1 = q1
  q2 = q2
  low = low
  high = high
  off = off
  on = on
  dir = dir
  project = project
  sub = sub
  user = user
  sys = sys
  None = None
  Missing = Missing
  Broken = Broken
  Key = {"port", "https", "state_dir"}
  Section = {"proxy", "paths"}
  SectionOf <- Sections
  Value = {low, high, on, off, dir}
  Default <- Defaults
  EnvKey = {"port", "https", "state_dir"}
  Procs = {p1, p2}
  Proxies = {q1, q2}
  Place = {project, sub}
  Up <- Ways
  User = user
  Sys = sys
  Custom = {dir}
  Privileged = {low}
  On = on
  Contents <- Texts
  Envs <- Variables
  Flags <- Options
  MaxRuns = 3
SYMMETRY Symmetry
SPECIFICATION Spec
 
PROPERTIES PriorityByKey
CHECK_DEADLOCK FALSE

SPECIFICATION ControlSpec
SYMMETRY Symmetry
CONSTANTS
  MaxEdits = 2
  MaxHash = 3
  MaxReloads = 3
  Admins = {q1, q2}
  DReqs = {r1}
  Sess = {s1, s2}
  Ips = {i1, i2}
  NoIp = NoIp
  NoSess = NoSess
\* Files are edited and requests are made up to a bound.
CHECK_DEADLOCK FALSE
INVARIANTS
  ControlTypeOK LiveConfigCoherent SyncExact GroupsAgree 
   TunnelsDeclared
PROPERTIES GrantsGrow

\* Two concurrent requests on one policy.
SPECIFICATION AdminSpec
CONSTANTS
  AdminHandler = {h1, h2}
  Id = {i1}
  Body = {b1, b2}
  Rollout = {0, 50}
  Absent = absent
  MaxAudits = 4
INVARIANTS AuditTrail VersionsMatchAudits RollbackRestores

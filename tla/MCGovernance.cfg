SPECIFICATION Spec
CONSTANTS
  c1 = c1
  c2 = c2
  a1 = a1
  Agents = {a1}
  Callers = {c1, c2}
  AgentOf <- MCAgentOf
  Sids = {0, 1}
  Values <- MCValues
  Absent = Absent
  Rules <- MCRules
  DefaultBudget = 24
  Ops = {"write", "get", "query"}
  MaxHits = 2
  MaxCalls = 3
SYMMETRY CallerSymmetry
INVARIANTS
  TypeOK
  NothingLeaks
  AuditAccountsForAll
PROPERTIES
  WritesAreAuthorizedAndLogged
\* Every call is answered: the callers rest.
CHECK_DEADLOCK FALSE

SPECIFICATION Spec
CONSTANTS
  c1 = c1
  c2 = c2
  a1 = a1
  Agents = {a1}
  Callers = {c1, c2}
  AgentOf <- MCAgentOf
  Sids = {0}
  Values <- MCPublicValues
  Absent = Absent
  Rules <- MCRules
  DefaultBudget = 24
  Ops = {"get"}
  MaxHits = 2
  MaxCalls = 3
INVARIANTS
  BudgetIsNeverExceeded
\* Every call is answered: the callers rest.
CHECK_DEADLOCK FALSE

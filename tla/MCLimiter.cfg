SPECIFICATION Spec
CONSTANTS
  a = a
  b = b
  c = c
  t1 = t1
  t2 = t2
  t3 = t3
  Kinds = {"Command"}
  Callers = {a, b, c}
  Tenants = {t1, t2, t3}
  tenant_of <- ThreeTenants
  WebSockets = {a}
  ws_max_commands_per_second = 1
  global_limit <- GlobalLimit
  principal_limit <- PrincipalLimit
  max_rate_limit_principals = 2
  Second = 4
SYMMETRY MCSymmetry
INVARIANTS
  PrincipalsWithinGlobal
  RatesBounded

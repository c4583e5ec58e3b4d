SPECIFICATION MCSpec
CONSTANTS
  Customers = {c1, c2}
  Keys = {k1, k2}
  None = None
  Unset = Unset
  Addresses = {a1}
  Sockets = {s1, s2, s3}
  Messages = {m1, m2, m3}
  Flags = {0, 8, 80}
  Requests = {"tracking"}
  Rc4Keys = {k1, k2}
  CrashOnRejection = FALSE
  Second = c2
SYMMETRY Symmetry
INVARIANTS TypeOK KeyAndPersonaAgree KeylessConnectsAreUnflagged
PROPERTIES LoneClientInStep ImplementsKeyService

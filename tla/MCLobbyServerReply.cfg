SPECIFICATION Spec
CONSTANTS
  Customers = {c1}
  Keys = {k1}
  None = None
  Unset = Unset
  Addresses = {a1}
  Sockets = {s1}
  Requests = {r1}
  DesKeys = {k1}
  CrashOnRejection = TRUE
INVARIANTS CommandReplyIsWhole

SPECIFICATION Spec
CONSTANTS
  Customers = {c1}
  Keys = {k1}
  None = None
  Unset = Unset
  Addresses = {a1}
  Sockets = {s1}
  Messages = {m1, m2}
  Flags = {0, 8}
  Requests = {"options", "tracking"}
  Rc4Keys = {k1}
  Second = c1
  CrashOnRejection = FALSE
INVARIANTS EncryptedReplySurvives

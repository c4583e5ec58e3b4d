SPECIFICATION Spec
CONSTANTS
  Customers = {c1, c2}
  SignedCustomers = {c1}
  Keys = {k1}
  None = None
  Logins = {l1}
  CrashOnRejection = FALSE
INVARIANT StoredLoginIsAnswered

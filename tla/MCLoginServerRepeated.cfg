SPECIFICATION Spec
CONSTANTS
  Customers = {c1}
  SignedCustomers = {c1}
  Keys = {k1, k2}
  None = None
  Logins = {l1, l2}
  CrashOnRejection = FALSE
INVARIANT RepeatedLoginIsHandled

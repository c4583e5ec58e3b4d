SPECIFICATION FairSpec
CONSTANTS
  Customers = {c1, c2}
  SignedCustomers = {c1}
  Keys = {k1, k2}
  None = None
  Logins = {l1, l2, l3}
  CrashOnRejection = FALSE
INVARIANTS TypeOK AnsweredIsStored OneLoginPerCustomer
PROPERTIES WritesOnce ImplementsLoginService LoginSettles

SPECIFICATION FairSpec
CONSTANTS
  Customers = {c1, c2}
  Keys = {k1, k2, k3}
  None = None
  Unset = Unset
  Addresses = {a1}
  Sockets = {s1, s2}
  Requests = {r1, r2}
  DesKeys = {k1, k2}
  CrashOnRejection = FALSE
INVARIANTS TypeOK OwnerRepliesMatchCipher
PROPERTIES ImplementsKeyService CiphersNeverReplaced ConnectSettles

SPECIFICATION Spec
CONSTANTS
  Sockets = {s1, s2, s3, s4, s5, s6}
  Addresses = {a1}
  Ports = {7003, 6660}
  RoutedPorts = {7003}
  AwaitingPorts = {7003}
  LobbyPort = 7003
  None = None
  MaxData = 1
  LookupThrows = TRUE
  CrashOnRejection = TRUE
INVARIANTS ThrowingLookupServesNobody

SPECIFICATION Spec
CONSTANTS
  Sockets = {s1, s2}
  Addresses = {a1}
  Ports = {7003, 6660}
  RoutedPorts = {7003}
  AwaitingPorts = {7003}
  LobbyPort = 7003
  None = None
  MaxData = 1
  LookupThrows = TRUE
  CrashOnRejection = TRUE
INVARIANTS UnknownClientIsAdded

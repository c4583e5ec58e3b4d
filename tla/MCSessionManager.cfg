SPECIFICATION FairSpec
CONSTANTS
  Sockets = {s1, s2, s3}
  Addresses = {a1}
  Ports = {7003, 43300, 6660}
  RoutedPorts = {7003, 43300}
  AwaitingPorts = {7003, 43300}
  LobbyPort = 7003
  None = None
  MaxData = 1
  LookupThrows = FALSE
  CrashOnRejection = FALSE
INVARIANTS TypeOK EndpointsUnique RegistrySize CapturedRegistered RepliesStayAtAddress
  SocketsMatchObjects
PROPERTIES QueueLeftByLobbyConnectOnly ImplementsTable ImplementsPorts AwaitingSettles

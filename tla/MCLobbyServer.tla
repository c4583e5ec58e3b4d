---------------------------- MODULE MCLobbyServer ----------------------------
\* LobbyServer on one address with two customers behind it and a reconnect.
EXTENDS LobbyServer
==============================================================================

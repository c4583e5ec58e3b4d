--------------------------- MODULE MCSessionManager ---------------------------
\* SessionManager on small sets of sockets, addresses and ports.
EXTENDS SessionManager
===============================================================================

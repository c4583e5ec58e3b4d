---------------------------- MODULE MCLoginServer ----------------------------
\* LoginServer on a few login packets of the two customers the server knows,
\* one of whom has an id that does not fit in 32 signed bits.
EXTENDS LoginServer
==============================================================================

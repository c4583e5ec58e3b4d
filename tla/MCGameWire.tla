----------------------------- MODULE MCGameWire -----------------------------
\* GameWire with the three kinds of request the replies tell apart; the lengths
\* are those of packets.txt where it has them.
EXTENDS GameWire

Lengths == [login |-> 39, stockcar |-> 10, logout |-> 10]
=============================================================================

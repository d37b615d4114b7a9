---------------------------- MODULE MCTxRegistry ----------------------------
EXTENDS TxRegistry

CONSTANTS c1, c2, b1, h1, h2

OwnCallbacks == [c \in Consumers |-> c]
OneCallback == [c \in Consumers |-> c1]
NoIds == [c \in Durable |-> None]
MatchAll == [b \in Bulks |-> Hashes]
Leftover == {[status |-> 0, persisted |-> <<"sub", "sub">>]}
=============================================================================

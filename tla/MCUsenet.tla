------------------------------ MODULE MCUsenet ------------------------------
EXTENDS Usenet, TLC
CONSTANTS NPosts, NStats
Cmd(k, n) == [kind |-> k, piece |-> n]
MCPieces == 1..NPosts
MCScript == [i \in 1..NPosts |-> Cmd("post", i)] \o [i \in 1..NStats |-> Cmd("stat", i)]
MCSymmetry == Permutations(Conns) \cup Permutations(Threads)
=============================================================================

---------------------------- MODULE MCPost2Usenet ----------------------------
EXTENDS Post2Usenet, TLC

\* Connections are interchangeable; pieces are numbers.
MCSymmetry == Permutations(Conns)
=============================================================================

---------------------------- MODULE MCFileStore ----------------------------
EXTENDS FileStore, TLC
CONSTANTS w1, w2, s1, p1

MCCasts == {{w1, w2, p1}, {w1, s1, p1}}
=============================================================================

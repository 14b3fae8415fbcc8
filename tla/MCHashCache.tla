---------------------------- MODULE MCHashCache ----------------------------
EXTENDS HashCache, TLC
=============================================================================

----------------------------- MODULE MCEntropyCoder -----------------------------
EXTENDS EntropyCoder, TLC
=============================================================================

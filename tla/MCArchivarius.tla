----------------------------- MODULE MCArchivarius -----------------------------
EXTENDS Archivarius, TLC

CONSTANTS w1, w2, p1, p2

FeedSymmetry == Permutations({w1, w2}) \cup Permutations({p1, p2})
================================================================================

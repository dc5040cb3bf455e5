--------------------------- MODULE MCCommitFence ---------------------------
\* CommitFence on small sets of handles and keys.
EXTENDS CommitFence

CONSTANTS t1, k1, k2
=============================================================================

---------------------------- MODULE MCPipeStorage ----------------------------
\* PipeStorage for TLC: sizes 2 and 4 come from the pool, the others grow by
\* doubling.
EXTENDS PipeStorage

MCBuckets == {2, 4}
=============================================================================

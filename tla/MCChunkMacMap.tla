---------------------------- MODULE MCChunkMacMap ----------------------------
EXTENDS ChunkMacMap

CONSTANTS c1, c2

MCConns == {c1, c2}

Perms == Permutations(MCConns)
=============================================================================

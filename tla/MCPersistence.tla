---------------------------- MODULE MCPersistence ----------------------------
EXTENDS Persistence

CONSTANTS k1, v1, v2, Nil
=============================================================================

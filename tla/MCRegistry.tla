----------------------------- MODULE MCRegistry -----------------------------
EXTENDS Registry

CONSTANTS w1, w2, x1, x2

MCKinds == {"pods", "nodes"}
MCNames == {"a"}
=============================================================================

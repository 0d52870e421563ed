------------------------- MODULE MCEphemeralMetaDB -------------------------
(* Model-checking instance of EphemeralMetaDB.                            *)
EXTENDS EphemeralMetaDB, TLC

CONSTANTS c1, c2, h1, mk, mv

MCClients == {c1, c2}
MCKeys    == {1, 2}

\* Clients are only compared for equality.  One host suffices: no
\* property tells hosts apart (UnreferencedSectors only groups by host).
MCSymmetry == Permutations(MCClients)
=============================================================================

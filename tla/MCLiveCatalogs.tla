--------------------------- MODULE MCLiveCatalogs ---------------------------
(* Instances of LiveCatalogs for TLC.                                       *)
EXTENDS LiveCatalogs, TLC
CONSTANTS k1, k2, main, tenant, pg, dsn1, dsn2

\* The config file declares pg.
PgInFile == [n \in Names |-> IF n = pg THEN dsn1 ELSE None]
ClientSymmetry == Permutations(Clients)
=============================================================================

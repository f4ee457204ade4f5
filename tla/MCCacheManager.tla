--------------------------- MODULE MCCacheManager ---------------------------
(***************************************************************************)
(* Small instances of CacheManager.                                        *)
(***************************************************************************)
EXTENDS CacheManager

CONSTANTS t1, t2, k1, k2, x

=============================================================================

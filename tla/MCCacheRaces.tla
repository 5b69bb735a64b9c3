----------------------------- MODULE MCCacheRaces -----------------------------
(* CacheRaces over the tables of MCCachedService. *)
EXTENDS MCCachedService, CacheRaces
=============================================================================

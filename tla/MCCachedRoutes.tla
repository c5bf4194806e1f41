--------------------------- MODULE MCCachedRoutes ---------------------------
(***************************************************************************)
(* A small instance of the cached routes for TLC.                          *)
(***************************************************************************)
EXTENDS CachedRoutesProperties

CONSTANTS credential1, credential2, credential3, q, r1, r2, comments, page

MCCredentials == <<credential1, credential2, credential3>>
=============================================================================

---------------------------- MODULE MCCrossOrigin ----------------------------
(***************************************************************************)
(* A small instance of the CORS middleware for TLC.                        *)
(***************************************************************************)
EXTENDS CrossOriginProperties

CONSTANTS page, subpage, other, cookies, program, frame, sandbox

\* A listed origin, one below a wildcard, the wildcard's own host, opaque ones.
MCOrigin ==
  [ c \in Clients |->
      CASE c = page    -> <<"https://player", "net">>
        [] c = subpage -> <<"https://a", "example", "com">>
        [] c = cookies -> <<"https://a", "example", "com">>
        [] c = other   -> <<"https://example", "com">>
        [] c = program -> NoOrigin
        [] c \in {frame, sandbox} -> Null ]

MCList == << <<"https://player", "net">>, <<"*", "example", "com">> >>

MCConfigurations ==
  { [AllowOrigins |-> list, AllowCredentials |-> credentials] :
      list \in {<<>>, <<Star>>, MCList}, credentials \in BOOLEAN }
=============================================================================

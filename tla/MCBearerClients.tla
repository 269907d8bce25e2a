-------------------------- MODULE MCBearerClients --------------------------
(***************************************************************************)
(* BearerClients for TLC.  Alice has a session, an ID token that expires   *)
(* early and one that outlives maxClientTTL; bob has an opaque token.      *)
(***************************************************************************)
EXTENDS BearerClients, TLC

CONSTANTS alice, bob, session, early, late, opaque

MCOwner == session :> alice @@ early :> alice @@ late :> alice @@ opaque :> bob
MCExp == early :> 2 @@ late :> 9 @@ opaque :> 0

RequestSymmetry == Permutations(Requests)
=============================================================================

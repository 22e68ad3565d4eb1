--------------------------- MODULE MCSessionClient --------------------------
(***************************************************************************)
(* An instance of SessionClient with two tabs: both sign in and check the  *)
(* session, one reads the user again, the other signs out.                 *)
(***************************************************************************)
EXTENDS SessionClient, TLC

CONSTANTS t1, t2

MCCallers == t1 :> {"login", "checkAuth", "refreshUser"} @@ t2 :> {"checkAuth", "logout"}
=============================================================================

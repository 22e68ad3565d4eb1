--------------------------- MODULE MCRealtimeHub ----------------------------
(* RealtimeHub for TLC: two connections of different organizations.  One     *)
(* name, the one they subscribe to, stands for the channel of a type and of  *)
(* an entity.  The event of an entity is about a workspace whose client      *)
(* names the other organization.                                             *)
EXTENDS RealtimeHub, TLC

CONSTANTS c1, c2, toUser, toOrg, toEntity

MCProfile ==
  (c1 :> [user |-> "u1", org |-> "o1", workspace |-> "w1"]) @@
  (c2 :> [user |-> "u2", org |-> "o2", workspace |-> None])

MCRoute ==
  (toUser :> [users |-> {"u1"}, org |-> "o2", workspace |-> None,
              channel |-> "vessel", entity |-> None]) @@
  (toOrg :> [users |-> {}, org |-> "o1", workspace |-> None,
             channel |-> "vessel", entity |-> None]) @@
  (toEntity :> [users |-> {}, org |-> "o2", workspace |-> "w1",
                channel |-> "vessel", entity |-> "vessel"])
=============================================================================

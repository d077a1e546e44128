----------------------- MODULE MCSponsoredTransaction -----------------------
(* Instances of SponsoredTransaction: the sponsor, one other account, and every *)
(* transaction of at most MaxCommands commands.                                 *)
EXTENDS SponsoredTransaction

CONSTANTS sponsor, user, object
=============================================================================

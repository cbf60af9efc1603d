---------------------------- MODULE MCRoleCache ----------------------------
(***************************************************************************)
(* A small Azure tenant for RoleCache: two subscriptions; the first one's  *)
(* listing takes two pages and mixes two roles, a user, a group and a      *)
(* principal of unknown kind.                                              *)
(***************************************************************************)
EXTENDS RoleCache, TLC

CONSTANTS w1, w2, sub1, sub2, reader, owner, a1, a2, a3, a4

TwoSubscriptions == {sub1, sub2}
TwoRoles == {reader, owner}

FourAssignments == {a1, a2, a3, a4}
SubOfFour == (a1 :> sub1) @@ (a2 :> sub1) @@ (a3 :> sub1) @@ (a4 :> sub2)
RoleOfFour == (a1 :> reader) @@ (a2 :> reader) @@ (a3 :> owner) @@ (a4 :> reader)
PageOfFour == (a1 :> 1) @@ (a2 :> 2) @@ (a3 :> 2) @@ (a4 :> 1)
KindOfFour == (a1 :> "user") @@ (a2 :> "group") @@ (a3 :> "other")
                @@ (a4 :> "ManagedIdentity")

\* One subscription with an assignment on each page, for two workers.
OneSubscription == {sub1}
OneRole == {reader}
TwoAssignments == {a1, a2}
SubOfTwo == (a1 :> sub1) @@ (a2 :> sub1)
RoleOfTwo == (a1 :> reader) @@ (a2 :> reader)
PageOfTwo == (a1 :> 1) @@ (a2 :> 2)
KindOfTwo == (a1 :> "user") @@ (a2 :> "group")
=============================================================================

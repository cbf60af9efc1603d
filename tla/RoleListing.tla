---------------------------- MODULE RoleListing ----------------------------
(***************************************************************************)
(* What a caller may rely on when it asks the connector for the grants of  *)
(* an Azure role, whatever cache, paging or interleaving lies behind the   *)
(* answer.  Azure's role assignments change under administrators' hands; a *)
(* call is answered in one step, with grants or with an error.             *)
(*                                                                         *)
(*   - an answer only holds assignments of the role and the subscription   *)
(*     that was asked for, each of which Azure had at some moment since    *)
(*     the connector process started (it may be stale, never invented);    *)
(*   - when Complete holds, an answer without error holds every such       *)
(*     assignment that Azure has had ever since the process started.       *)
(*                                                                         *)
(* RoleCache implements this specification.                                *)
(***************************************************************************)

CONSTANTS
  Workers,        \* goroutines of the connector process that serve a sync
  Subscriptions,
  Roles,          \* role definitions
  Assignments,    \* every role assignment that may ever exist
  SubOf, RoleOf,  \* subscription and role definition of an assignment
  PrincipalTypes, \* resource types under which a principal is reported
  NoCall,         \* the worker serves no call
  Complete        \* TRUE: answers must be complete, not only sound

VARIABLES
  azure,          \* the role assignments that exist in Azure
  seen,           \* those that existed at some moment since process start
  steady,         \* those that have existed ever since process start
  call,           \* call[w]: the role resource whose Grants worker w serves
  answer          \* answer[w]: what the last call of w returned

vars == <<azure, seen, steady, call, answer>>

Silence == [result |-> "none", grants |-> {}]

\* The assignments in S that make a grant of role r of subscription s.
Matching(S, s, r) == {a \in S : SubOf[a] = s /\ RoleOf[a] = r}

Init ==
  /\ azure \in SUBSET Assignments
  /\ seen = azure
  /\ steady = azure
  /\ call = [w \in Workers |-> NoCall]
  /\ answer = [w \in Workers |-> Silence]

Assign(a) ==
  /\ a \notin azure
  /\ azure' = azure \union {a}
  /\ seen' = seen \union {a}
  /\ UNCHANGED <<steady, call, answer>>

Unassign(a) ==
  /\ a \in azure
  /\ azure' = azure \ {a}
  /\ steady' = steady \ {a}
  /\ UNCHANGED <<seen, call, answer>>

Ask(w, s, r) ==
  /\ call[w] = NoCall
  /\ call' = [call EXCEPT ![w] = [sub |-> s, role |-> r]]
  /\ answer' = [answer EXCEPT ![w] = Silence]
  /\ UNCHANGED <<azure, seen, steady>>

ReturnGrants(w) ==
  /\ call[w] # NoCall
  /\ \E G \in SUBSET (Matching(seen, call[w].sub, call[w].role) \X PrincipalTypes) :
       /\ Complete =>
            Matching(steady, call[w].sub, call[w].role) \subseteq {g[1] : g \in G}
       /\ answer' = [answer EXCEPT ![w] = [result |-> "grants", grants |-> G]]
  /\ call' = [call EXCEPT ![w] = NoCall]
  /\ UNCHANGED <<azure, seen, steady>>

ReturnError(w) ==
  /\ call[w] # NoCall
  /\ answer' = [answer EXCEPT ![w] = [result |-> "error", grants |-> {}]]
  /\ call' = [call EXCEPT ![w] = NoCall]
  /\ UNCHANGED <<azure, seen, steady>>

\* The connector process ends and a new one starts.
Restart ==
  /\ call' = [w \in Workers |-> NoCall]
  /\ answer' = [w \in Workers |-> Silence]
  /\ seen' = azure
  /\ steady' = azure
  /\ UNCHANGED azure

Next ==
  \/ \E a \in Assignments : Assign(a) \/ Unassign(a)
  \/ \E w \in Workers, s \in Subscriptions, r \in Roles : Ask(w, s, r)
  \/ \E w \in Workers : ReturnGrants(w) \/ ReturnError(w)
  \/ Restart

Spec == Init /\ [][Next]_vars
=============================================================================

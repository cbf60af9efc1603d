----------------------------- MODULE TenantSync -----------------------------
(***************************************************************************)
(* What whoever uses a sync may rely on, whatever phases, pages,           *)
(* checkpoints, retries and processes it is made of.  A sync collects      *)
(* facts about a tenant: its resources, their entitlements, their grants;  *)
(* a collection is a record with the set of each.                          *)
(*                                                                         *)
(*   - a run begins with nothing or with what an interrupted one left, and *)
(*     never loses a fact;                                                 *)
(*   - a fact is collected with or after the facts that it needs, such as  *)
(*     a grant after its entitlement;                                      *)
(*   - a sync is delivered only when it has every fact that it owes and    *)
(*     every one that follows from a resource it has, and, if it ran in    *)
(*     one go, every resource of the hierarchy below;                      *)
(*   - what is left for another run to resume is what this one collected,  *)
(*     or, if its process was killed, what it had been given; only a       *)
(*     resumed run may panic.                                              *)
(*                                                                         *)
(* SyncRun implements this specification.                                  *)
(***************************************************************************)

CONSTANTS
  Groups,      \* the groups, which may be deleted from the tenant
  Owed(_),     \* Owed(S): what a sync must have when S are deleted
  Follows(_),  \* Follows(r): what it must have as soon as it has resource r
  Needs(_, _), \* Needs(kind, f): that without which it never has f
  Hierarchy    \* the resources below the subscriptions

VARIABLES
  running,     \* a sync runs
  resumed,     \* it resumed an interrupted one
  facts,       \* what it has collected
  left,        \* what the last run left behind
  open,        \* it was interrupted: the next run may resume it
  gone,        \* the groups deleted so far
  outcome      \* how the last run ended

Kinds == {"resources", "entitlements", "grants"}
Nothing == [kind \in Kinds |-> {}]
Within(part, whole) == \A kind \in Kinds : part[kind] \subseteq whole[kind]

vars == <<running, resumed, facts, left, open, gone, outcome>>

Init ==
  /\ running = FALSE
  /\ resumed = FALSE
  /\ facts = Nothing
  /\ left = Nothing
  /\ open = FALSE
  /\ gone = {}
  /\ outcome = "none"

Begin ==
  /\ ~running
  /\ running' = TRUE
  /\ \/ open /\ facts' = left /\ resumed' = TRUE
     \/ facts' = Nothing /\ resumed' = FALSE
  /\ outcome' = "none"
  /\ UNCHANGED <<left, open, gone>>

Collect ==
  /\ running
  /\ UNCHANGED <<running, resumed, left, open, gone, outcome>>
  /\ Within(facts, facts')
  /\ \A kind \in Kinds : \A f \in facts'[kind] \ facts[kind] :
       Within(Needs(kind, f), facts')

Complete ==
  /\ Within(Owed(gone), facts)
  /\ \A r \in facts.resources : Within(Follows(r), facts)
  /\ ~resumed => Hierarchy \subseteq facts.resources

\* What a run that has ended leaves: its facts, or nothing at all when the
\* process goes on with other tasks.
Leave(resumable) ==
  \/ left' = facts /\ open' = resumable
  \/ left' = Nothing /\ open' = FALSE

Deliver ==
  /\ running /\ Complete
  /\ running' = FALSE /\ outcome' = "done"
  /\ Leave(FALSE)
  /\ UNCHANGED <<resumed, facts, gone>>

GiveUp ==
  /\ running
  /\ running' = FALSE
  /\ outcome' = "failed" \/ (outcome' = "panic" /\ resumed)
  /\ Leave(TRUE)
  /\ UNCHANGED <<resumed, facts, gone>>

Die ==
  /\ running
  /\ running' = FALSE /\ outcome' = "failed"
  /\ UNCHANGED <<resumed, facts, left, open, gone>>

Delete(g) ==
  /\ gone' = gone \union {g}
  /\ UNCHANGED <<running, resumed, facts, left, open, outcome>>

Next ==
  \/ Begin \/ Collect \/ Deliver \/ GiveUp \/ Die
  \/ \E g \in Groups : Delete(g)

Spec == Init /\ [][Next]_vars
=============================================================================

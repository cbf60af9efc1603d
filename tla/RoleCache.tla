----------------------------- MODULE RoleCache -----------------------------
(***************************************************************************)
(* roleBuilder.Grants (src/pkg/connector/role.go): the grants of an Azure  *)
(* role, computed from a per-subscription cache of role assignments.       *)
(*                                                                         *)
(* The cache is a Go map behind a read-write mutex.  cacheGet and cacheSet *)
(* each hold the mutex; a fill is a loop of "fetch a page, cacheGet,       *)
(* cacheSet of the appended list" that holds it across none of the three,  *)
(* so every one of them is an action here and the workers interleave.      *)
(* Nothing ever deletes a key: Connector has no Cleanup of its own, and    *)
(* the SDK's clears HTTP caches only, so entries live until the process    *)
(* ends (Restart).                                                         *)
(*                                                                         *)
(* Abstractions.  A cached list is the set of its elements: order and      *)
(* repetition only change the order of grants and repeat a grant id, which *)
(* the store writes once.  Azure serves assignment a on page PageOf[a] of  *)
(* its subscription's listing; a page may be empty.  append may write into *)
(* a backing array that two workers share; the pages it can lose are among *)
(* those the stale cacheSet already loses.  The four Graph lookups of      *)
(* getPrincipalType read no connector state, so a worker's whole loop over *)
(* its private slice is one action.                                        *)
(***************************************************************************)
EXTENDS Naturals

CONSTANTS
  Workers,        \* goroutines of the connector process that serve a sync
  Subscriptions,
  Roles,
  Assignments,    \* every role assignment that may ever exist
  SubOf, RoleOf,  \* subscription and role definition of an assignment
  PageOf,         \* the page of the listing that holds an assignment
  LastPage,       \* number of pages of a subscription's listing
  KindOf,         \* what Microsoft Graph says the assignment's principal is
  Failures,       \* which requests may fail: subset of {"page", "principal"}
  NoCall

Kinds == {"user", "group", "Application", "ManagedIdentity", "other"}

PrincipalTypes ==
  {"user", "group", "resource_group", "enterprise_application", "managed_identity"}

ASSUME WorldAssumption ==
  /\ LastPage \in Nat \ {0}
  /\ SubOf \in [Assignments -> Subscriptions]
  /\ RoleOf \in [Assignments -> Roles]
  /\ PageOf \in [Assignments -> 1 .. LastPage]
  /\ KindOf \in [Assignments -> Kinds]
  /\ Failures \subseteq {"page", "principal"}
  /\ NoCall \notin [sub : Subscriptions, role : Roles]

VARIABLES
  azure,          \* the role assignments that exist in Azure
  seen,           \* those that existed at some moment since process start
  steady,         \* those that have existed ever since process start
  keys,           \* keys of subIdRoleAssignmentsCache
  cached,         \* cached[s]: its value at s ({} when s is no key)
  pc,             \* where worker w stands in Grants / cacheRoleAssignments
  call,           \* the role resource that w serves, or NoCall
  page,           \* the page w fetches next or has just fetched
  batch,          \* page.Value: the assignments on that page
  base,           \* assignments: what w's last cacheGet in the loop returned
  answer          \* what the last call of w returned

world == <<azure, seen, steady>>
cache == <<keys, cached>>
locals == <<pc, call, page, batch, base>>
vars == <<azure, seen, steady, keys, cached, pc, call, page, batch, base, answer>>

Silence == [result |-> "none", grants |-> {}]
Error == [result |-> "error", grants |-> {}]

InSub(S, s) == {a \in S : SubOf[a] = s}
Matching(S, s, r) == {a \in S : SubOf[a] = s /\ RoleOf[a] = r}
OnPage(S, s, n) == {a \in S : SubOf[a] = s /\ PageOf[a] = n}

-----------------------------------------------------------------------------
(* State transitions *)

Init ==
  /\ azure \in SUBSET Assignments
  /\ seen = azure
  /\ steady = azure
  /\ keys = {}
  /\ cached = [s \in Subscriptions |-> {}]
  /\ pc = [w \in Workers |-> "idle"]
  /\ call = [w \in Workers |-> NoCall]
  /\ page = [w \in Workers |-> 1]
  /\ batch = [w \in Workers |-> {}]
  /\ base = [w \in Workers |-> {}]
  /\ answer = [w \in Workers |-> Silence]

Assign(a) ==
  /\ a \notin azure
  /\ azure' = azure \union {a}
  /\ seen' = seen \union {a}
  /\ UNCHANGED <<steady, keys, cached, pc, call, page, batch, base, answer>>

Unassign(a) ==
  /\ a \in azure
  /\ azure' = azure \ {a}
  /\ steady' = steady \ {a}
  /\ UNCHANGED <<seen, keys, cached, pc, call, page, batch, base, answer>>

AskWithoutCache(w, s, r) ==   \* mutant: the listing is fetched for every role
  /\ pc[w] = "idle"
  /\ call' = [call EXCEPT ![w] = [sub |-> s, role |-> r]]
  /\ pc' = [pc EXCEPT ![w] = "list"]
  /\ page' = [page EXCEPT ![w] = 1]
  /\ answer' = [answer EXCEPT ![w] = Silence]
  /\ UNCHANGED <<azure, seen, steady, keys, cached, batch, base>>

(* Grants splits the resource id in role and subscription; the first       *)
(* cacheGet of cacheRoleAssignments decides whether the listing is needed. *)
Ask(w, s, r) ==
  /\ pc[w] = "idle"
  /\ call' = [call EXCEPT ![w] = [sub |-> s, role |-> r]]
  /\ pc' = [pc EXCEPT ![w] = IF s \in keys THEN "answer" ELSE "list"]
  /\ page' = [page EXCEPT ![w] = 1]
  /\ answer' = [answer EXCEPT ![w] = Silence]
  /\ UNCHANGED <<azure, seen, steady, keys, cached, batch, base>>

FetchPage(w) ==
  /\ pc[w] = "list"
  /\ batch' = [batch EXCEPT ![w] = OnPage(azure, call[w].sub, page[w])]
  /\ pc' = [pc EXCEPT ![w] = "merge"]
  /\ UNCHANGED <<azure, seen, steady, keys, cached, call, page, base, answer>>

ListAgain(w) ==   \* mutant: a failed page starts the listing over
  /\ pc[w] = "list"
  /\ "page" \in Failures
  /\ page' = [page EXCEPT ![w] = 1]
  /\ UNCHANGED <<azure, seen, steady, keys, cached, pc, call, batch, base, answer>>

(* NextPage fails: Grants returns the error; what earlier pages put in the *)
(* cache stays there.                                                      *)
FetchFails(w) ==
  /\ pc[w] = "list"
  /\ "page" \in Failures
  /\ pc' = [pc EXCEPT ![w] = "idle"]
  /\ call' = [call EXCEPT ![w] = NoCall]
  /\ answer' = [answer EXCEPT ![w] = Error]
  /\ UNCHANGED <<azure, seen, steady, keys, cached, page, batch, base>>

LoadCached(w) ==
  /\ pc[w] = "merge"
  /\ base' = [base EXCEPT ![w] = cached[call[w].sub]]
  /\ pc' = [pc EXCEPT ![w] = "store"]
  /\ UNCHANGED <<azure, seen, steady, keys, cached, call, page, batch, answer>>

\* append(assignments, page.Value...), and its mutant that forgets the list.
AppendedNothing(w) == batch[w]
Appended(w) == base[w] \union batch[w]

\* pagerRoles.More(), and its mutant that asks for one page too many.
MoreOrDone(w) == page[w] <= LastPage
More(w) == page[w] < LastPage

StorePage(w) ==
  /\ pc[w] = "store"
  /\ keys' = keys \union {call[w].sub}
  /\ cached' = [cached EXCEPT ![call[w].sub] = Appended(w)]
  /\ IF More(w)
       THEN /\ page' = [page EXCEPT ![w] = @ + 1]
            /\ pc' = [pc EXCEPT ![w] = "list"]
       ELSE /\ page' = page
            /\ pc' = [pc EXCEPT ![w] = "answer"]
  /\ UNCHANGED <<azure, seen, steady, call, batch, base, answer>>

(* getPrincipalIDResource: the resource type a principal is reported under *)
(* ("nil" when the switch has no case for what Graph answered).            *)
PrincipalType(kind) ==
  CASE kind = "user" -> "user"
    [] kind = "group" -> "resource_group"
    [] kind = "Application" -> "enterprise_application"
    [] kind = "ManagedIdentity" -> "managed_identity"
    [] OTHER -> "nil"

RespondAnyRole(w) ==   \* mutant: the role definition is not compared
  /\ pc[w] = "answer"
  /\ LET matched == cached[call[w].sub] IN
     answer' = [answer EXCEPT ![w] =
       [result |-> "grants",
        grants |-> {<<a, PrincipalType(KindOf[a])>> : a \in matched}]]
  /\ pc' = [pc EXCEPT ![w] = "idle"]
  /\ call' = [call EXCEPT ![w] = NoCall]
  /\ UNCHANGED <<azure, seen, steady, keys, cached, page, batch, base>>

(* The final cacheGet and the loop over its result.  An assignment whose   *)
(* principal cannot be looked up is skipped; a principal of no known type  *)
(* makes NewGrant panic, which the gRPC interceptor turns into an error.   *)
Respond(w) ==
  /\ pc[w] = "answer"
  /\ LET matched == Matching(cached[call[w].sub], call[w].sub, call[w].role) IN
     \E skipped \in SUBSET matched :
       /\ skipped # {} => "principal" \in Failures
       /\ LET reported == matched \ skipped IN
          answer' = [answer EXCEPT ![w] =
            IF \E a \in reported : PrincipalType(KindOf[a]) = "nil"
              THEN Error
              ELSE [result |-> "grants",
                    grants |-> {<<a, PrincipalType(KindOf[a])>> : a \in reported}]]
  /\ pc' = [pc EXCEPT ![w] = "idle"]
  /\ call' = [call EXCEPT ![w] = NoCall]
  /\ UNCHANGED <<azure, seen, steady, keys, cached, page, batch, base>>

RestartWithCache ==   \* mutant: the cache outlives the process
  /\ seen' = azure
  /\ steady' = azure
  /\ pc' = [w \in Workers |-> "idle"]
  /\ call' = [w \in Workers |-> NoCall]
  /\ page' = [w \in Workers |-> 1]
  /\ batch' = [w \in Workers |-> {}]
  /\ base' = [w \in Workers |-> {}]
  /\ answer' = [w \in Workers |-> Silence]
  /\ UNCHANGED <<azure, keys, cached>>

(* The process ends at any moment and newRoleBuilder makes an empty map.   *)
Restart ==
  /\ seen' = azure
  /\ steady' = azure
  /\ keys' = {}
  /\ cached' = [s \in Subscriptions |-> {}]
  /\ pc' = [w \in Workers |-> "idle"]
  /\ call' = [w \in Workers |-> NoCall]
  /\ page' = [w \in Workers |-> 1]
  /\ batch' = [w \in Workers |-> {}]
  /\ base' = [w \in Workers |-> {}]
  /\ answer' = [w \in Workers |-> Silence]
  /\ UNCHANGED azure

Work(w) ==
  \/ FetchPage(w)
  \/ FetchFails(w)
  \/ LoadCached(w)
  \/ StorePage(w)
  \/ Respond(w)

Next ==
  \/ \E a \in Assignments : Assign(a) \/ Unassign(a)
  \/ \E w \in Workers, s \in Subscriptions, r \in Roles : Ask(w, s, r)
  \/ \E w \in Workers : Work(w)
  \/ Restart

Spec == Init /\ [][Next]_vars

(* A goroutine that is inside Grants keeps running; nobody is obliged to   *)
(* call Grants, to change Azure or to restart the process.                 *)
FairSpec == Spec /\ \A w \in Workers : WF_vars(Work(w))

-----------------------------------------------------------------------------
(* Properties *)

(* The types of the state of roleBuilder and of its callers. *)
TypeOK ==
  /\ azure \subseteq Assignments
  /\ seen \subseteq Assignments
  /\ steady \subseteq Assignments
  /\ keys \subseteq Subscriptions
  /\ cached \in [Subscriptions -> SUBSET Assignments]
  /\ pc \in [Workers -> {"idle", "list", "merge", "store", "answer"}]
  /\ call \in [Workers -> [sub : Subscriptions, role : Roles] \union {NoCall}]
  /\ \A w \in Workers : (pc[w] = "idle") <=> (call[w] = NoCall)
  /\ page \in [Workers -> 1 .. LastPage]
  /\ batch \in [Workers -> SUBSET Assignments]
  /\ base \in [Workers -> SUBSET Assignments]
  /\ answer \in [Workers -> [result : {"none", "grants", "error"},
                             grants : SUBSET (Assignments \X PrincipalTypes)]]

Filling(s) ==
  \E w \in Workers : pc[w] \in {"list", "merge", "store"} /\ call[w].sub = s

(* The cache may be stale, but every assignment it holds under a           *)
(* subscription belongs to that subscription and existed in Azure at some  *)
(* moment of this process's life, however the fills of the workers, the    *)
(* failures and the changes in Azure interleave (role.go:292-316).         *)
CacheSound ==
  \A s \in Subscriptions : cached[s] \subseteq InSub(seen, s)

(* Once some fill of a subscription has ended without leaving another one  *)
(* running, the entry holds every assignment that has been in Azure since  *)
(* process start: role.go:26-27 calls the value the "array of role         *)
(* assignments for that subscriptionID" and cacheRoleAssignments treats    *)
(* the key's presence as proof of it.                                      *)
FilledEntryComplete ==
  \A s \in keys : ~Filling(s) => InSub(steady, s) \subseteq cached[s]

(* An answer without error holds every assignment of the role that has     *)
(* been in Azure since process start ("Iterate over all role assignments", *)
(* role.go:303).  Reading the answer one step later would see a different  *)
(* "steady", so the claim is about the step that answers.                  *)
AnswerCompleteStep ==
  \A w \in Workers :
    /\ pc[w] = "answer"
    /\ answer'[w].result = "grants"
    => Matching(steady, call[w].sub, call[w].role)
         \subseteq {g[1] : g \in answer'[w].grants}

AnswersComplete == [][AnswerCompleteStep]_vars

(* The cache spares Azure the listing: an entry that exists and that       *)
(* nobody is filling is neither listed nor touched again while the process *)
(* lives, so every later answer of the process rests on the same listing.  *)
EntryFrozenStep ==
  \A s \in keys :
    ~Filling(s) /\ ~Restart => /\ s \in keys'
                              /\ cached'[s] = cached[s]
                              /\ ~Filling(s)'

EntryFrozen == [][EntryFrozenStep]_vars

(* Every call is answered: the fill's loop ends, whatever the other        *)
(* workers store meanwhile (role.go:303-313).                              *)
CallsReturn == \A w \in Workers : pc[w] # "idle" ~> pc[w] = "idle"

(* What the callers rely on.  Completeness is promised only when one sync  *)
(* runs at a time and no request fails; soundness is promised always.      *)
OneWorker == \A v, w \in Workers : v = w
Undisturbed == OneWorker /\ Failures = {}

Listing == INSTANCE RoleListing WITH Complete <- Undisturbed

ImplementsListing == Listing!Spec
=============================================================================

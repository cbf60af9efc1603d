------------------------------ MODULE SyncRun ------------------------------
(***************************************************************************)
(* A full sync: the SDK's syncer drives the builders by a stack of         *)
(* actions, and a sync that failed is resumed from the saved stack.        *)
(*                                                                         *)
(* The syncer is one goroutine; an iteration of its loop is one action     *)
(* here.  An iteration begins with Checkpoint, which writes the stack to   *)
(* the database unless it did so less than ten seconds ago (time is not    *)
(* modelled: either may be), handles the action on top and ends with the   *)
(* stack changed in memory.  In local mode a process runs one sync; the    *)
(* database is saved to the .c1z file when the syncer is closed, after an  *)
(* error too, and the next process resumes it from there.  In service mode *)
(* the process goes on and every sync starts on an empty file.             *)
(*                                                                         *)
(* Abstractions.  The store's list of resources fits a page.  Graph's      *)
(* objects stay as they are but for groups that are deleted.  Grant        *)
(* expansion (module GrantExpansion) and the HTTP cache (module Service)   *)
(* are left out.                                                           *)
(***************************************************************************)
EXTENDS Builders

CONSTANTS
  Local,         \* TRUE: a process per sync; FALSE: service mode
  WarningLimit,  \* the loop gives up on more warnings than these
  Faults,        \* subset of {"unavailable", "fatal", "deletion", "crash"}
  MaxFaults      \* bound: faults in a behaviour

ASSUME SyncRunAssumption ==
  /\ Local \in BOOLEAN
  /\ WarningLimit \in Nat
  /\ MaxFaults \in Nat
  /\ Faults \subseteq {"unavailable", "fatal", "deletion", "crash"}

VARIABLES
  running,     \* a sync runs
  stack,       \* state: its actions, the current one last
  token,       \* sync_token of the run in the database (<<>>: none)
  fresh,       \* this run has not reached a checkpoint yet
  store,       \* what the database holds of this sync
  file,        \* the .c1z file that the next process opens
  cache,       \* keys of enterpriseApplicationsBuilder.cache
  warnings,    \* number of warnings of this run
  resumed,     \* history: this run has resumed an earlier one
  gone,        \* groups deleted from Graph
  faults,      \* number of faults so far
  outcome      \* how the last run ended: "none", "done", "failed", "panic"

vars == <<running, stack, token, fresh, store, file, cache, warnings, resumed, gone,
          faults, outcome>>

NoAction == <<>>
NoType == "none"

\* An action on a resource, and one on the resources of a type and a parent.
ActionOn(op, t, id) == [op |-> op, type |-> t, id |-> id, parent |-> NoId, pages |-> NoPages]
ListAction(t, parent) ==
  [op |-> "resources", type |-> t, id |-> NoId, parent |-> parent, pages |-> NoPages]
RootAction(op) == ActionOn(op, NoType, NoId)

EmptyStore == [resources |-> <<>>, entitlements |-> {}, grants |-> {}]
EmptyFile == [token |-> NoAction, store |-> EmptyStore, open |-> FALSE]

Init ==
  /\ running = FALSE
  /\ stack = NoAction
  /\ token = NoAction
  /\ fresh = TRUE
  /\ store = EmptyStore
  /\ file = EmptyFile
  /\ cache = {}
  /\ warnings = 0
  /\ resumed = FALSE
  /\ gone = {}
  /\ faults = 0
  /\ outcome = "none"

\* The ids of the listing of a type, and the names below a subscription.
Listed(t) == IF t \in ToSet(Types) THEN ToSet(FlattenSeq(ListPages[t])) ELSE {}
NamesBelow(t, s) == IF t \in ToSet(Types) THEN ToSet(FlattenSeq(Below[t][s])) ELSE {}

-----------------------------------------------------------------------------
(* A run starts and ends *)

(* Opening the file, StartSync and state.Unmarshal of the sync token.  A   *)
(* sync that has not ended is resumed unless it began over a week ago.     *)
ResumeEmpty ==   \* mutant
  file.open /\ token' = file.token /\ store' = EmptyStore /\ resumed' = TRUE
Resume == file.open /\ token' = file.token /\ store' = file.store /\ resumed' = TRUE
StartNewSync == token' = NoAction /\ store' = EmptyStore /\ resumed' = FALSE

Start ==
  /\ ~running
  /\ running' = TRUE
  /\ Resume \/ StartNewSync
  /\ stack' = IF token' = NoAction THEN <<RootAction("init")>> ELSE token'
  /\ fresh' = TRUE
  /\ warnings' = 0
  /\ outcome' = "none"
  /\ UNCHANGED <<file, cache, gone, faults>>

(* Sync returns and the syncer is closed.  Uses token' and store'.         *)
Close(how) ==
  /\ running' = FALSE
  /\ outcome' = how
  /\ file' = IF Local THEN [token |-> token', store |-> store', open |-> how # "done"]
                      ELSE EmptyFile
  /\ cache' = IF Local THEN {} ELSE cache

(* The process is killed: the database of the run was a temporary file.    *)
Crash ==
  /\ running
  /\ "crash" \in Faults /\ faults < MaxFaults
  /\ faults' = faults + 1
  /\ running' = FALSE
  /\ outcome' = "failed"
  /\ cache' = {}
  /\ UNCHANGED <<stack, token, fresh, store, file, warnings, resumed, gone>>

Delete(g) ==
  /\ "deletion" \in Faults
  /\ g \notin gone
  /\ gone' = gone \union {g}
  /\ UNCHANGED <<running, stack, token, fresh, store, file, cache, warnings, resumed,
                 faults, outcome>>

-----------------------------------------------------------------------------
(* The loop of syncer.Sync *)

Current == stack[Len(stack)]
Popped == SubSeq(stack, 1, Len(stack) - 1)

Checkpoint ==
  /\ token' \in (IF fresh THEN {stack} ELSE {token, stack})
  /\ fresh' = FALSE

(* An iteration that handles the current action if it is an op.            *)
Handles(op) ==
  /\ running
  /\ stack # NoAction
  /\ warnings <= WarningLimit
  /\ Current.op = op
  /\ Checkpoint

AtRoot == Current.id = NoId /\ Current.type = NoType

GoOn == UNCHANGED <<running, file, resumed, gone, faults, outcome>>

\* state.NextPage, or FinishAction after the last page.
AdvancedOnce(next) == Popped   \* mutant: a listing is one page
Advanced(next) ==
  IF next = NoPages THEN Popped ELSE Append(Popped, [Current EXCEPT !.pages = next])
Advance(next) == stack' = Advanced(next)

(* FinishAction of a root, and the actions it stands for. *)
Unfold(actions) == stack' = Popped \o actions

BeginSwapped ==   \* mutant: grants before entitlements
  /\ Handles("init")
  /\ stack' = Popped \o <<RootAction("expansion"), RootAction("entitlements"),
                          RootAction("grants"), RootAction("resources"),
                          RootAction("types")>>
  /\ UNCHANGED <<store, cache, warnings>> /\ GoOn

Begin ==
  /\ Handles("init")
  /\ stack' = Popped \o <<RootAction("expansion"), RootAction("grants"),
                          RootAction("entitlements"), RootAction("resources"),
                          RootAction("types")>>
  /\ UNCHANGED <<store, cache, warnings>> /\ GoOn

(* SyncResourceTypes, and SyncGrantExpansion. *)
PassOver ==
  /\ Handles("types") \/ Handles("expansion")
  /\ Advance(NoPages)
  /\ UNCHANGED <<store, cache, warnings>> /\ GoOn

SyncTypes ==
  /\ Handles("resources") /\ AtRoot
  /\ Unfold([n \in DOMAIN Types |-> ListAction(Types[n], NoId)])
  /\ UNCHANGED <<store, cache, warnings>> /\ GoOn

(* Resources that the store already has are skipped.  The others are put,  *)
(* and for each of its child types an action is pushed above the rest.     *)
ChildActions(r) ==
  [n \in DOMAIN Children(r) |-> ListAction(Children(r)[n], IdOf(r))]
PushChildren(list) == FlattenSeq([n \in DOMAIN list |-> ChildActions(list[n])])

Stored == ToSet(store.resources)
NewOf(answer) == Without(answer.list, Stored)
AppsOf(answer) ==
  {IdOf(r) : r \in {q \in ToSet(answer.list) : TypeOf(q) = "enterprise_application"}}

SyncUncached ==   \* mutant: List does not fill the cache
  /\ Handles("resources") /\ ~AtRoot
  /\ LET answer == ListResources(Current.type, Current.parent, Current.pages, gone) IN
       /\ stack' = Advanced(answer.next) \o PushChildren(NewOf(answer))
       /\ store' = [store EXCEPT !.resources = @ \o NewOf(answer)]
  /\ UNCHANGED <<cache, warnings>> /\ GoOn

SyncEarlyPush ==   \* mutant: the children are pushed before the action is finished
  /\ Handles("resources") /\ ~AtRoot
  /\ LET answer == ListResources(Current.type, Current.parent, Current.pages, gone)
         pushed == stack \o PushChildren(NewOf(answer)) IN
       /\ stack' = IF answer.next = NoPages THEN SubSeq(pushed, 1, Len(pushed) - 1)
                   ELSE Advanced(answer.next) \o PushChildren(NewOf(answer))
       /\ store' = [store EXCEPT !.resources = @ \o NewOf(answer)]
       /\ cache' = cache \union AppsOf(answer)
  /\ UNCHANGED warnings /\ GoOn

SyncResources ==
  /\ Handles("resources") /\ ~AtRoot
  /\ LET answer == ListResources(Current.type, Current.parent, Current.pages, gone) IN
       /\ stack' = Advanced(answer.next) \o PushChildren(NewOf(answer))
       /\ store' = [store EXCEPT !.resources = @ \o NewOf(answer)]
       /\ cache' = cache \union AppsOf(answer)
  /\ UNCHANGED warnings /\ GoOn

SyncEach(op) ==
  /\ Handles(op) /\ AtRoot
  /\ LET each == Only(store.resources, {r \in Stored : ~SkipsGrants(TypeOf(r))})
     IN Unfold([n \in DOMAIN each |-> ActionOn(op, TypeOf(each[n]), IdOf(each[n]))])
  /\ UNCHANGED <<store, cache, warnings>> /\ GoOn

\* The resource of the current action.
Resource == <<Current.type, Current.id>>

(* Both methods of the enterprise application builder dereference what     *)
(* cacheGet returns.                                                       *)
NotCached(r) == TypeOf(r) = "enterprise_application" /\ IdOf(r) \notin cache

Deleted(r) == TypeOf(r) = "group" /\ IdOf(r) \in gone

SyncEntitlements ==
  /\ Handles("entitlements") /\ ~AtRoot
  /\ ~NotCached(Resource)
  /\ Advance(NoPages)
  /\ store' = [store EXCEPT !.entitlements = @ \union ListEntitlements(Resource)]
  /\ UNCHANGED <<cache, warnings>> /\ GoOn

SyncGrants ==
  /\ Handles("grants") /\ ~AtRoot
  /\ ~Deleted(Resource)
  /\ ~NotCached(Resource)
  /\ LET answer == ListGrants(Resource, Current.pages) IN
       /\ Advance(answer.next)
       /\ store' = [store EXCEPT !.grants = @ \union answer.list]
  /\ UNCHANGED <<cache, warnings>> /\ GoOn

(* The panic comes back as codes.Internal, which ends the sync.            *)
NilApp ==
  /\ Handles("entitlements") \/ Handles("grants")
  /\ ~AtRoot
  /\ NotCached(Resource)
  /\ store' = store
  /\ Close("panic")
  /\ UNCHANGED <<stack, warnings, resumed, gone, faults>>

(* Graph answers 404: the connector's error keeps the code NotFound (the   *)
(* builder's test for ErrNotFound fails), and the loop takes it for a      *)
(* warning and drops the action with the pages it still had.               *)
GroupNotFound ==
  /\ Handles("grants") /\ ~AtRoot
  /\ Deleted(Resource)
  /\ stack' = Popped
  /\ warnings' = warnings + 1
  /\ UNCHANGED <<store, cache>> /\ GoOn

TooManyWarnings ==
  /\ running /\ stack # NoAction
  /\ warnings > WarningLimit
  /\ Checkpoint
  /\ store' = store
  /\ Close("failed")
  /\ UNCHANGED <<stack, warnings, resumed, gone, faults>>

\* An action whose handler asks Graph.
AsksGraph ==
  \/ Current.op = "resources" /\ Current.type \in GraphTypes
  \/ Current.op = "grants" /\ Current.type = "group"

(* shouldWaitAndRetry: Unavailable and DeadlineExceeded are tried again.   *)
Retry ==
  /\ Handles(Current.op) /\ AsksGraph
  /\ "unavailable" \in Faults /\ faults < MaxFaults
  /\ faults' = faults + 1
  /\ UNCHANGED <<running, stack, store, file, cache, warnings, resumed, gone, outcome>>

(* Any other error, or the end of the run's time.                          *)
Fail ==
  /\ Handles(Current.op)
  /\ "fatal" \in Faults /\ faults < MaxFaults
  /\ faults' = faults + 1
  /\ store' = store
  /\ Close("failed")
  /\ UNCHANGED <<stack, warnings, resumed, gone>>

\* EndSync.
Finish ==
  /\ running /\ stack = NoAction
  /\ UNCHANGED <<token, store>>
  /\ Close("done")
  /\ UNCHANGED <<stack, fresh, warnings, resumed, gone, faults>>

Iterate ==
  \/ Begin \/ PassOver \/ SyncTypes \/ SyncResources
  \/ SyncEach("entitlements") \/ SyncEach("grants")
  \/ SyncEntitlements \/ SyncGrants \/ NilApp \/ GroupNotFound
  \/ TooManyWarnings \/ Finish

Next ==
  \/ Start \/ Iterate
  \/ Retry \/ Fail \/ Crash
  \/ \E g \in Listed("group") : Delete(g)

Spec == Init /\ [][Next]_vars

(* The loop goes on, and whoever starts syncs (cron, the service's task    *)
(* queue) starts another one.                                              *)
FairSpec == Spec /\ WF_vars(Start) /\ WF_vars(Iterate)

-----------------------------------------------------------------------------
(* Properties *)

\* What a group's pages hold for a complete sync of it.
Edges(g) ==
  UNION {UNION {{Grant(<<"group", g>>, l, p) : p \in {q \in page.who : Granted(l, q)}}
                : page \in Range(LinkPages[l][g])} : l \in {"owners", "members"}}

Listings == ToSet(Types) \union {"owners", "members", "assignment"}
Parents == {NoId} \union Listed("subscription")
ActionTyped(a) ==
  /\ a.op \in {"init", "types", "resources", "entitlements", "grants", "expansion"}
  /\ a.type \in ToSet(Types) \union {NoType}
  /\ a.parent \in Parents
  /\ a.parent # NoId => a.type \in ChildTypes
  /\ \A n \in DOMAIN a.pages : a.pages[n].listing \in Listings /\ a.pages[n].page \in Nat
TokenTyped(t) == \A n \in DOMAIN t : ActionTyped(t[n])

Foreign(r) == TypeOf(r) = "enterprise_application" /\ IdOf(r) \notin OwnedApps

(* The types of the syncer's state and of what it persists. *)
TypeOK ==
  /\ running \in BOOLEAN /\ fresh \in BOOLEAN /\ resumed \in BOOLEAN
  /\ TokenTyped(stack) /\ TokenTyped(token) /\ TokenTyped(file.token)
  /\ \A r \in Stored : TypeOf(r) \in ToSet(Types) /\ ~Foreign(r)
  /\ \A g \in store.grants : g.on \in Stored /\ g.who \in Principals
  /\ cache \subseteq OwnedApps
  /\ warnings \in 0 .. WarningLimit + 1
  /\ gone \subseteq Listed("group")
  /\ faults \in 0 .. MaxFaults
  /\ outcome \in {"none", "done", "failed", "panic"}

(* A page of owners or members that another one follows is not a short     *)
(* one, whose link groupBuilder.Grants would drop.                         *)
PagesAreFull ==
  \A l \in {"owners", "members"} : \A g \in Listed("group") :
    \A n \in 1 .. Len(LinkPages[l][g]) - 1 : ~ShortPage(LinkPages[l][g][n])

(* A sync that ends without error has stored every listed resource that    *)
(* still exists, the entitlements of every stored one, every grant of      *)
(* every such group and every assignment of every application, whatever    *)
(* was retried, failed, killed and resumed on the way (syncer.go:276-279:  *)
(* the checkpoint "allows for graceful resumes if a sync is interrupted"). *)
(* PagesAreFull is supposed (getGroupGrants drops the links of others).    *)
FinishedComplete ==
  outcome = "done" =>
    /\ \A t \in ToSet(Types) \ ChildTypes : \A i \in Listed(t) \ gone :
         <<t, i>> \in Stored \/ Foreign(<<t, i>>)
    /\ \A r \in Stored : ListEntitlements(r) \subseteq store.entitlements
    /\ \A g \in Listed("group") \ gone : Edges(g) \subseteq store.grants
    /\ \A r \in Stored : TypeOf(r) = "enterprise_application" =>
         \A x \in Assigned[IdOf(r)] : Grant(r, x[2], x[1]) \in store.grants

(* What is below the subscriptions: every resource group under its name    *)
(* and every role of every subscription as a resource of its own, although *)
(* subscriptions share the built-in roles (helper.go:516-525).             *)
ChildrenStored ==
  \A s \in Listed("subscription") :
    /\ \A name \in NamesBelow("resource_group", s) : <<"resource_group", name>> \in Stored
    /\ \A name \in NamesBelow("role", s) : <<"role", <<name, s>>>> \in Stored

(* A sync that ran in one go has stored what is below every subscription,  *)
(* whatever was pushed above or below the actions that list it.            *)
HierarchyComplete == outcome = "done" /\ ~resumed => ChildrenStored

(* "This allows for graceful resumes if a sync is interrupted" (syncer.go: *)
(* 279): a resumed sync that ends stores what is below subscriptions, too. *)
ChildrenSurviveResume == outcome = "done" => ChildrenStored

(* No grant is stored before its entitlement: the grants phase begins when *)
(* the last entitlement is in the store, in a resumed run too.  Excepted   *)
(* are app roles that users cannot hold, which have grants but never an    *)
(* entitlement (enterprise_applications.go:152-154, 233-268).              *)
EntitlementsFirst ==
  \A x \in store.grants :
    \/ <<x.on, x.slug>> \in store.entitlements
    \/ TypeOf(x.on) = "enterprise_application" /\ x.slug \notin Slugs(x.on)

(* A sync that is interrupted resumes gracefully (syncer.go:276-279): it   *)
(* never fails but for a request that failed in that same run.             *)
ResumesGracefully == outcome # "panic"

(* It may fail so only if it is resumed: a run from the beginning has      *)
(* cached every application that it asks for, since List of this process   *)
(* put it into the cache before the syncer stored it.                      *)
OnlyResumedPanic == outcome = "panic" => resumed

\* Collections of TenantSync, and what a store holds as one of them.
Collection(resources, entitlements, grants) ==
  [resources |-> resources, entitlements |-> entitlements, grants |-> grants]
Facts(st) == Collection(ToSet(st.resources), st.entitlements, st.grants)

\* An entitlement needs its resource, a grant its resource and, but for the
\* exception of EntitlementsFirst, its entitlement.
NeedsOf(kind, f) ==
  CASE kind = "resources" -> Collection({}, {}, {})
    [] kind = "entitlements" -> Collection({f[1]}, {}, {})
    [] kind = "grants" ->
         Collection({f.on}, {e \in {<<f.on, f.slug>>} :
                               TypeOf(f.on) = "enterprise_application" => f.slug \in Slugs(f.on)}, {})

\* A resource's entitlements and, of an application, its assignments.
FollowsFrom(r) ==
  Collection({}, ListEntitlements(r),
             {Grant(r, x[2], x[1]) :
                x \in IF TypeOf(r) = "enterprise_application" THEN Assigned[IdOf(r)] ELSE {}})

\* What is owed in any case: the listed resources and the groups' edges.
OwedBut(deleted) ==
  LET listed == UNION {{t} \X (Listed(t) \ deleted) : t \in ToSet(Types) \ ChildTypes}
  IN Collection({r \in listed : ~Foreign(r)}, {},
                UNION {Edges(g) : g \in Listed("group") \ deleted})

BelowAs(t) ==
  UNION {{<<t, ChildId(t, name, s)>> : name \in NamesBelow(t, s)} : s \in Listed("subscription")}
ResourcesBelow == UNION {BelowAs(t) : t \in ChildTypes}

Contract == INSTANCE TenantSync WITH
  Groups <- Listed("group"), Owed <- OwedBut, Follows <- FollowsFrom, Needs <- NeedsOf,
  Hierarchy <- ResourcesBelow,
  facts <- Facts(store), left <- Facts(file.store), open <- file.open

(* Whatever phases, pages, checkpoints and processes a sync is made of, it *)
(* does what TenantSync promises: runs begin with nothing or with what an  *)
(* interrupted one left, lose nothing, store nothing without what it       *)
(* needs, and are handed on only when complete.                            *)
ImplementsTenantSync == Contract!Spec

(* In service mode, when the faults are over, every sync is completed.     *)
EventuallyDone == []<>(outcome = "done")

(* A run ends, whatever is deleted or refused meanwhile.                   *)
RunsEnd == running ~> ~running
=============================================================================

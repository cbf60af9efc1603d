# A TLA+ model of baton-azure-infrastructure

`baton-azure-infrastructure` is a connector: it reads users, groups, roles,
applications and the access between them out of Azure, hands them to the Baton
SDK as resources, entitlements and grants, and grants or revokes access on
request. This directory models the parts of it that keep state or race with
something, checks them with TLC, and proves with TLAPS, for tenants of any size,
every safety property that these checks find to hold.

Source paths are relative to the repository's source; `SDK/` stands for
`vendor/github.com/conductorone/baton-sdk/pkg/`.

## The system

| part | state it keeps | operations | hard because | what makes it correct |
|---|---|---|---|---|
| role builder, `pkg/connector/role.go` | a map from subscription to its role assignments, behind an RWMutex, for the life of the process | List, Entitlements, Grants (fills the map), Grant, Revoke | several SDK workers call it; get and set are separate critical sections; a page may fail half way; nothing empties the map | cached lists are sound; entries are complete once filled; answers follow |
| resource group role assignments, `resource_group_role_assignment.go` | none | List, Entitlements, Grants, Grant, Revoke | never registered; looks a name up, then deletes it | a call touches only its own assignment |
| groups, `group.go` | none; the page token is a stack of listings | List, Entitlements, Grants, Grant, Revoke | two listings in one token; the short page rule; 404s; error decoding | every page is read; grant and revoke say what they did |
| enterprise applications, `enterprise_applications.go` | a map from application to its record, filled by List only | as groups | Entitlements and Grants need List to have run in the same process | as groups |
| users, managed identities, tenants, subscriptions, resource groups | none | List | resource groups and roles hang below subscriptions | everything listed is stored |
| Graph client, `client_graph.go` over `SDK/uhttp` | none of its own | query | when an answer is an error, and which | callers can tell what happened |
| HTTP cache, `SDK/uhttp/gocache.go`, `wrapper.go` | GET answers by request, an hour, shared by the process | Get, Set, Clear | the three are separate; cleared only after a successful sync | a cached answer does not outlive the syncs that share it |
| dispatch, `SDK/connectorbuilder`, `connector.go` | registered builders | Grant, Revoke, List... | which types have a provisioner | what is documented is registered |
| syncer, `SDK/sync`, and sync file, `SDK/dotc1z` | action stack in memory, its checkpoint and the synced objects in SQLite, saved as .c1z | a full sync; resume | interruption at any step, checkpoints ten seconds apart, retries, warnings, children pushed on the same stack | a sync that ends is complete; syncs end |
| grant expansion, `SDK/sync/syncer.go`, `SDK/sync/expand` | entitlement graph in memory and in the checkpoint, sources in the store | load, merge cycles, expand | cycles, diamonds, order, resume in the middle | exactly the closure, with true sources |
| task runner, `SDK/connectorrunner`, `SDK/tasks/c1api` | a semaphore of three slots, task goroutines, `stopForLoop` | poll, dispatch, finish, stop | every path through the loop must give its slot back | the service goes on polling |
| page tokens, `SDK/pagination` | none | Push, NextToken, Current | order of a stack | no listing is lost |
| formatting helpers, configuration, command line | none | | nothing runs concurrently with set-up | not modelled, or only what properties tell apart |

The parts interact by calls only. In service mode the task runner gives full
syncs and grant and revoke tasks a goroutine each. A syncer (one goroutine per
sync) calls the builders through gRPC in one process; provisioning tasks call
Grant and Revoke at the same time. The builders call Azure Resource Manager
through the Azure SDK and Microsoft Graph through the Graph client; all requests
to Graph share the HTTP cache, which a sync that has succeeded clears. Azure,
Graph and their administrators are external and modelled from how the code uses
them. A panic in a builder is turned into `codes.Internal` by the gRPC
interceptor (`SDK/ugrpc/interceptors.go:44-57`).

## Modules

| module | what it models |
|---|---|
| `RoleListing` | abstract: what a caller of a role's Grants may rely on |
| `RoleCache` | `roleBuilder.Grants` and its cache, workers interleaving; implements `RoleListing` |
| `RoleCacheProofs` | the proofs about `RoleCache` |
| `GraphClient` | operators: how a Graph response becomes an error (`Connector.query`, `uhttp.Do`), what a body is sent as |
| `Provisioning` | Grant and Revoke of the four provisioning builders, the dispatch, Azure's access edges; extends `GraphClient` |
| `ProvisioningProofs` | the proofs about `Provisioning` |
| `PageBag` | operators: `pagination.Bag` |
| `TenantSync` | abstract: what whoever uses a sync may rely on |
| `Builders` | operators: List, Entitlements and Grants of all eight registered resource types (the grants of roles apart, which are RoleCache's); extends `PageBag` |
| `BuildersProofs` | lemmas about the operators of `PageBag` and `Builders` |
| `SyncRun` | the syncer's loop over `Builders`, child resources, checkpoint, crash, resume; composes the two, implements `TenantSync` |
| `SyncRunInvariant` | the inductive invariant of `SyncRun`, which a run checks and the proofs use |
| `SyncRunProofs` | the proofs about `SyncRun` |
| `SyncContractProofs` | the proof that `SyncRun` implements `TenantSync` |
| `GrantExpansion` | the last phase of a sync: graph, cycles, expansion with sources, interruption and resume |
| `GrantExpansionProofs` | the proofs about `GrantExpansion` |
| `TaskRunner` | `connectorRunner.run`: the loop, its semaphore, its goroutines |
| `HttpCache` | the cache of GET answers: Get, the request, Set, Clear, expiry as separate steps |
| `Service` | service mode: syncs and writes under `TaskRunner`, reading from Graph through `HttpCache` and role assignments from the role builder's map; composes the two |
| `ServiceProofs` | the proofs about `Service` |
| `MCRoleCache`, `MCProvisioning`, `MCSyncRun`, `MCGrantExpansion`, `MCService` | small instances for TLC |

Some modules hold definitions marked `mutant:`. Each is a plausible bug in the
definition that follows it; putting one in the place of that definition makes
TLC find a property violated, which shows that the property depends on the code.

### RoleCache

`keys` and `cached` are the Go map: which keys exist, and the list at a key as
a set. `pc[w]` is where worker `w` stands:

| `pc` | in the code |
|---|---|
| `idle` | not in Grants |
| `list` | before `pagerRoles.NextPage` (role.go:305-306) |
| `merge` | between NextPage and cacheGet (311) |
| `store` | between cacheGet and cacheSet (312) |
| `answer` | cacheRoleAssignments has returned nil; before the cacheGet of line 119 |

`Ask` does the first cacheGet, `FetchPage`/`FetchFails` a page request,
`LoadCached` and `StorePage` the two locked accesses, `Respond` the final
cacheGet and the loop over its result. `Assign`/`Unassign` are administrators
in Azure, `Restart` the end of the process at any moment. `seen` and `steady` are
history variables: what Azure held at some moment, and ever since, process start;
soundness and completeness are stated with them.

Left out: the order and repetition of a cached list (they change the order of
grants and repeat grant ids, which the store writes once), the backing array that
two `append`s may share (what it can lose, the stale cacheSet loses as well), and
the four Graph lookups of `getPrincipalType`, which touch no connector state: a
lookup may fail and the assignment is then skipped.

### Provisioning

`access` is the set of access edges in Azure: principal, object, relation, scope
and the name Azure gave the edge (an assignment's uuid, an app role assignment's
id, or `Ref` for a `$ref` link, which has none). `ever` are all the edges there
were; a Revoke starts from a grant that a sync once stored. A call of worker `w`
goes from `idle` to `create` (ARM) or `post` (Graph) for Grant, and to `lookup`,
`delete` (ARM) or `remove` (Graph) for Revoke; one action per request it makes.
`reply[w]` is how it ended, with `lost` for an answer that never came. A call comes
through the SDK, which knows the registered `Provisioners` only, or straight from a
test of the builder. `held[w]` and `lacked[w]` are history variables:
whether the edge existed, or was missing, at some moment of the call; a statement
about what a reply means can only be about the time the call took.

`Faults` chooses what the environment does: `deny` (a request is refused), `lose`
(the answer is lost, with the effect or without), `admin` (administrators change
the same edges).

### Builders and SyncRun

`Builders` answers List, Entitlements and Grants as the builders do, given what
Graph and Azure hold: `ListPages` the pages of a type's listing, `Below` what is
below a subscription, `LinkPages` a group's owners and members as pages with
their number of entries, which need not be full. Ids are what the code makes
them: a resource group's is its name (helper.go:423), a role's the pair of its
name and its subscription. `BuildersAssumption` types the listings; every
listing has a page, an empty one if there is nothing to list. `Only` and
`Without` filter a list by a set; they are recursive functions, about which
lemmas can be proved.

In `SyncRun`, `stack` is the syncer's state, `token` the checkpointed copy in the
database, `store` the objects in the database, `file` the .c1z file the next
process opens, `cache` the keys of the enterprise applications cache. Every
iteration of the loop at syncer.go:330-435 is one action; its checkpoint is
inside (`Checkpoint`: always the first of a run, later either written or skipped,
because whether ten seconds have passed is not modelled). `SyncResources` puts
what the store lacks and pushes, on the stack its own action was just advanced or
finished on, an action for each child type of what it put. `Close` ends a run,
with an error too, and in local mode saves the database; `Crash` loses it.
`Start` resumes an unfinished sync or, when it is over a week old, begins anew.

### GrantExpansion

`edges` is the entitlement graph. A node is the set of its entitlements, one each
until cycles are merged (`FixCycles`, taken to its fixed point), so that an edge
is a pair of such sets with its `shallow` flag and resource types. `LoadPage`
reads a page of the store's grants into the graph, `Queue` makes actions of the
edges whose source has nothing left to wait for and counts `depth`, `Expand` does
one page of one action, `Finish` and `TooDeep` end the phase. `sources` are the
grants in the store with their `GrantSources`. What survives an interruption is
what the code restores: the action's page token and the store, not the graph.
`dir` is the directory, chosen once from `Directories`; `began` remembers whether
this run has loaded the graph from its first page.

### TaskRunner, HttpCache, Service

| `loop` | in runner.go |
|---|---|
| `wait` | in the select (132-135) |
| `acquire` | in `sem.Acquire` (138) |
| `next` | holding a slot, in `tasks.Next` (147) |
| `returned`, `crashed` | `run` has returned; the process has died |

`held` is the semaphore's count, `running` the tasks whose goroutines run.
`Hello` is the task the manager queues for itself at its start. A goroutine's
unsynchronised write of `stopForLoop` is taken with the Release that follows it:
a loop that does not see it yet is one that comes before both.

`HttpCache` gives every answer as the version of the tenant it shows, the number
of changes before it. `Get`, `Answer` and `Set` are the three steps of `Do`; an
answer found in the cache is stored again, as in the code (wrapper.go:386).
`Evict` is an entry's time to live and the bound on the cache's size at once: an
entry may vanish at any moment.

`Service` runs `Order`, the reads of a sync, for each of `Syncs`, then the
cleanup, then the upload; `EndWrite` is a provisioning task that changes the
tenant. There are two memories a read may be answered from:

- a request to Graph goes through the HTTP cache (`LookUp`, `Reply`, `Keep`), which
  the cleanup of a sync that has succeeded clears;
- the role assignments of a subscription come from the role builder's map (`roles`),
  which is filled through the Azure SDK, past the HTTP cache (`ListRoles`,
  `StoreRoles`, `AnswerRoles`: role.go:293, 305, 311-312, 119). Neither a cleanup nor
  a grant or revoke touches it; only a new process (`StartAgain`) has an empty one.
  `RoleCache` has its pages and what may go wrong between them; here a listing is one
  page and `roles[b]` is the age of the entry's oldest.

`CleanUp` may fail when its context is cancelled; `Sync` logs that and succeeds
(syncer.go:449-452), and the cache keeps its answers. `began`, `oldest`, `shown`,
`clean`, `cleaned` and `started` are history variables for the statements about
freshness; `oldest` and `shown` keep the two sources of answers apart. The request
of a sync that is given up ends with it.

## Runs

| run | shows | bounds |
|---|---|---|
| `RoleCacheSync` | one worker, no failures: types, `CacheSound`, `FilledEntryComplete`, `AnswersComplete`, `EntryFrozen`, and that RoleCache implements RoleListing with complete answers | two subscriptions, two roles, four assignments, listings of two pages |
| `RoleCacheConcurrent` | two workers, failing pages and lookups: `CacheSound`, `EntryFrozen`, RoleListing with sound answers; every call returns | one subscription, two assignments on two pages |
| `Provisioning` | two workers, all faults: types, `RevokeHonest`, `OnlyTarget`, `RoleRegrantSucceeds`, and that only the refusal of a role assignment makes a grant report access that was never there (`UnheldOnlyIfRefused`) | a role at a subscription and at a resource group of it, a group, an app role and an app's owners; a user and a service principal; three names |
| `SyncLocal` | a process per sync, with transient and fatal errors, kills and deletions: types, `FinishedComplete`, `EntitlementsFirst`, `OnlyResumedPanic`, and that SyncRun implements TenantSync | two groups (members on two pages), two applications of which one is foreign; two faults, a warning limit of 1 |
| `SyncService` | service mode: `FinishedComplete`, `HierarchyComplete`, and the inductive invariant `IInv` they are proved from; SyncRun implements TenantSync; every run ends, and syncs are completed once faults are over; groups are deleted meanwhile, so that the grants phase drops actions | all eight types, two subscriptions that share a role's name, one with two resource groups; two faults, a warning limit of 1 |
| `GrantExpansion` | interrupted and killed at any point: types, `SourcesTrue`, `ExpandedExactly`, `AncestorsFirst`, `DepthLimit`; a run ends | six directories: a diamond, a cycle of two, a ring of three, a shallow edge above a nested group, the same with a group that was not synced, a way that is too deep; a depth limit of 2; two interruptions |
| `Service` | two overlapping syncs and a grant task under failures and interrupts: types, `SlotsAccounted`, `CleanAtRest`; the service goes on polling; Graph's answers are fresh for a clean sync (`FreshWhenClean`) and what is uploaded of them catches up (`SyncsCatchUp`); role assignments are of this process (`RolesOfThisProcess`) and catch up after a restart (`RolesCatchUp`) | two slots, a subscription's roles and a request to Graph in each sync, one change of the tenant, two faults |
| `RoleCacheRace`, `ProvisioningRefused`, `SyncResume`, `SyncChildrenLost`, `ExpansionResume` | violations, below | as above; `ProvisioningRefused` has roles only and loses no answer; `SyncChildrenLost` syncs subscriptions, resource groups and roles |

Why the bounds are enough. The hazards of the cache need two workers inside one
entry and a page boundary between their accesses: two workers, one subscription
and two pages have them, and the proofs cover every number. The provisioning
hazards need one call's lookup and delete with another call or an administrator
between them, and an assignment that is deleted and made anew; three names allow
both twice. Workers differ in nothing but their names, so `Provisioning` counts
them up to symmetry; it checks safety only. The sync hazards need a fault in each
phase and one more on the resumed run; the warning limit, ten in the code, is one
so that the run passes it with two groups. The expansion's depth limit, eight in
the code, is two so that a directory of four entitlements is past it while the
others are at it or below; each of the six directories is a case of its own of
the graph code, and interrupts may fall on any step of each. The semaphore has
three slots in the code; two are enough for both to be taken by syncs while the
loop waits for one, and the slot accounting is the same for each. One change of
the tenant tells old answers from new ones; it is made in the middle of either
sync or before both. `MCSyncRun` assumes
`PagesAreFull` of its tenants, the condition of the theorem on `FinishedComplete`.
`IInv` also holds of `SyncLocal`'s instance, where it takes four minutes and is not
checked each time. `Spare` in Provisioning bounds grants by the names that are
left; `MaxFaults`, `MaxInterrupts` and `MaxChanges` bound what they name.
CHECK_DEADLOCK is never turned off.

### What the violations show

Each of these runs checks one property that a comment or a test of the repository
states;
`findings` in PROJECT.json quotes it.

- `RoleCacheRace`: two fills of one entry lose assignments; a caller that finds
  the key while it is being filled answers from a part (role.go:293, 311-312).
- `ProvisioningRefused`: Azure refuses to create a role assignment and the grant
  reports success, since every `azcore.ResponseError` is dropped (role.go:190-204;
  resource_group_role_assignment.go:209-226 is the same). `UnheldOnlyIfRefused` is
  the other half: nothing else makes a grant report access that was never there.
- `SyncResume`: a resumed sync dereferences a nil application
  (enterprise_applications.go:142, 233). `OnlyResumedPanic` is the other half: no
  sync that ran in one go does, since it lists, and so caches, the applications
  that it asks about.
- `SyncChildrenLost`: a resumed sync skips a subscription that the store already
  has, and so never lists its resource groups and roles, if the interruption fell
  between the store and the next checkpoint (syncer.go:638-658).
- `ExpansionResume`: the entitlement graph is written to the checkpoint but not
  read back (state.go:193-195, 220), so a sync that is interrupted while it loads
  the graph's second page or a later one expands those pages' edges only.

The models follow the code in these other points, which need no exploration to
see and have no run:

- a failed page leaves a partial list in the role cache, and the key's presence
  makes every later call take it for the whole (role.go:293-313; `FetchFails`);
- after the first sync of a service process no later one shows a change of role
  assignments, one that a task of the same process granted included, while their
  memberships and app roles are fresh (role.go:293; `AnswerRoles`, `RolesCatchUp`);
- a cleanup that fails, because its context is done, does not fail the sync, and
  the cached answers stay for the next one (syncer.go:449-452; `CleanUp`);
- revoking a group membership twice fails, because the `ErrNotFound` that
  group.go:255 tests for is never produced: uhttp has turned the 404 into an error
  before (client_graph.go:119-143; `Query`, `RevokeReply`);
- a group's role assignment is reported as a resource group's
  (helper.go:693-697; `PrincipalType` in RoleCache);
- a group grant (an app owner's too) sends `{}` (group.go:208-213), which Graph
  refuses (`GrantBody`, `NamesPrincipal`);
- the 201 of an app role assignment is decoded into nil and reported as an error
  (enterprise_applications.go:449; `DecodeError`);
- a resource group's assignment is reported as the subscription role's grant
  (role.go:304 lists the whole subscription), and revoking that grant deletes at
  the wrong scope (role.go:267; `ReportedUnder`, `Deletable`);
- resource_group_role_assignment, which README.md:65 of the repository
  introduces for provisioning, has no provisioner (connector.go:31-43;
  `Provisioners`);
- a page of exactly fifty members ends a listing (group.go:162; `ShortPage`);
- the owners of applications are never read: the token after the assignments is
  empty (enterprise_applications.go:272; `AppGrants`);
- resource groups of one name in two subscriptions are one resource, since the
  name is the id (helper.go:423; `ChildId`);
- a mailbox request that fails leaves a room or a shared mailbox reported as a
  human (users.go:69-78; not modelled further);
- merging a cycle does not expand its members into one another, drops `Shallow`,
  and takes the union of the resource types of parallel edges, so that an edge
  without a limit becomes one with a limit (cycle.go:112-210; `FixCycles`);
- the depth limit is tested before whether the graph is expanded: a way of one
  edge more than maxDepth is refused though all its edges have been expanded
  (syncer.go:1572-1580; `TooDeep`);
- a failed Acquire releases a slot it does not hold, which may panic the process
  that is being stopped (runner.go:139-145; `AcquireFails`), and a task that was
  handed out when the loop stops is left (`Restart`);
- every hit of the HTTP cache stores the answer again and renews its hour
  (wrapper.go:386; `Set`), and only a sync that succeeds clears the cache
  (syncer.go:449), although connectorbuilder.go:867 says "at the end of a sync":
  a sync after a failed one may miss changes made before it, which is why
  `FreshWhenClean` asks for no failed sync or cleanup since the last cleanup. Syncs that overlap
  for ever may keep an old answer for ever, which is why `SyncsCatchUp` asks that
  they do not.

The passing runs are set beside these defects, not around them: `RoleCacheSync`
is the sequential, failure-free case for which completeness holds (the same
condition stands in the theorem); `SyncLocal` has pages of other sizes than
fifty, and a resumed sync may panic in it, which `FinishedComplete` allows, since
it is about syncs that end without error; `HierarchyComplete` and
`ExpandedExactly` are about runs that were not resumed behind the point where the
two resume defects bite, while `SourcesTrue` and `AncestorsFirst` hold in those,
too; `Provisioning` has every fault and claims of grants what is left of
`GrantHonest`, that the refused role assignment alone breaks it; `Service` has the
role map in it, and its statements of freshness are about what comes from Graph.

## Fairness

| run | fair | why |
|---|---|---|
| `RoleCacheConcurrent` | WF of `Work(w)` for each worker | a goroutine inside Grants keeps running; nobody is obliged to call, to restart or to change Azure |
| `SyncService` | WF of `Iterate` and of `Start` | the syncer's goroutine runs; whoever schedules syncs goes on |
| `GrantExpansion` | WF of `Iterate` | the syncer's goroutine runs; nobody is obliged to start |
| `Service` | WF of the loop, of each sync's steps, of the end of each other task, of `StartAgain`; SF of `BeginSync` | goroutines run; the service is kept up; the task service goes on offering syncs, so that one of the polls that can take one does |

Faults, crashes, interrupts, changes and expiry are never fair.

## Proofs

### RoleCacheProofs

For any number of workers, subscriptions, roles, pages and assignments, from
`WorldAssumption` (types of the constants, at least one page per listing, `NoCall`
is no call):

| theorem | states |
|---|---|
| `TypeCorrect` | `Spec => []TypeOK` |
| `CacheIsSound` | `Spec => []CacheSound` |
| `EntryIsComplete` | `Spec => []FilledEntryComplete`, for one worker and no failing page |
| `EntriesFreeze` | `Spec => EntryFrozen` |
| `AnswersAreComplete` | `Spec => AnswersComplete`, for one worker and no failing request |
| `ImplementsRoleListing` | `Spec => Listing!Spec` |

`CacheSound` is not inductive: what a worker stores was in its `batch` and `base`
before, so `SoundInv` says the same of these. `seen` only grows, except at
`Restart`, which empties cache, batches and bases with it.

`FilledEntryComplete` is not inductive either: in the middle of a fill the entry
holds only the pages that were read. `FillInv` says which: while the one worker is
about to list page n, everything steady on the pages before n is cached; while it
merges, the page is in its batch; while it stores, its base is the entry. With
`More` false the pages are all of them, and the entry is complete. This is where
the assumption of one worker is used: `base` is the entry as long as nobody else
writes it. `Failures = {}` is needed because `FetchFails` leaves the fill.

The refinement maps the variables of `RoleListing` to those of the same name and
lets `Complete` be "one worker and no failures": `Respond` is `ReturnGrants` or
`ReturnError`, `FetchFails` is `ReturnError`, the other steps of a fill stutter.

### ProvisioningProofs

For any number of workers, principals, entitlements and names, from
`ProvisioningAssumption`. Beside types it assumes that an object is of one kind
(an object id names a role, a group or an application), that a listing of a scope
shows the scope's own assignments, and that Azure starts with unique names and at
most one edge for a principal and a relation.

| theorem | states |
|---|---|
| `ProvisioningTypes` | `Spec => []TypeOK` |
| `CallsTouchOnlyTheirTarget` | `Spec => OnlyTarget` |
| `RevokesAreHonest` | `Spec => []RevokeHonest` |
| `GrantsAreHonestUnlessRefused` | `Spec => UnheldOnlyIfRefused` |
| `RoleRegrantsSucceed` | `Spec => []RoleRegrantSucceeds` |

A revoke acts on a name that was read earlier, from a listing or from a synced
grant, and the world may have changed since. `CallInv` says what that name still
means: some edge that there once was, of the call's principal and object, bears it.
Names are never given twice (in `TypeOK`), so if the name exists now it is that edge;
an ARM delete adds the scope, which makes it the call's own edge. So a
delete removes only what the call is about (`OnlyTarget`). `OneEdge`, that a
principal has a relation at most once, makes it all of it, so after a successful
delete the principal lacks the access (`RevokeHonest`). `QueryRefused` is what the
replies rest on: no refusal comes back as success or as `ErrNotFound`, and it speaks
of an existing object only if Graph did. `GrantHonest` itself is false
(`ProvisioningRefused`); `UnheldOnlyIfRefused` says of every step that lets a grant
report success without the access that it is `CreateDenied`, whatever faults there
are, so that a build which reported that refusal would have `GrantHonest`.

### ServiceProofs

For any number of slots, tasks, reads of a sync, subscriptions and changes, from
`RunnerAssumption`, `CacheAssumption` and `ServiceAssumption` (types of the
constants; a sync makes at least one read; a task is a sync or a write):

| theorem | states |
|---|---|
| `ServiceTypes` | `Spec => []TypeOK` |
| `SlotsAreAccounted` | `Spec => []SlotsAccounted` |
| `CacheCleanAtRest` | `Spec => []CleanAtRest` |
| `GraphAnswersAreFresh` | `Spec => []FreshWhenClean` |
| `RolesAreOfThisProcess` | `Spec => []RolesOfThisProcess` |

`SlotsAccounted` says nothing of the time after the loop has returned, when
goroutines still give slots back and might do so once too often; `SlotInv` counts
on for a loop that returned without an interrupt, and remembers that nothing runs
before the first task was taken. It is the interrupt that gives a slot too much
back (`AcquireFails`), which is why the theorem allows an interrupted process to
crash.

`CleanAtRest` speaks of a moment; `ReaderInv` of all: as long as no sync and no
cleanup has failed, an answer in the cache means that a sync runs whose cleanup is still to come. A
cleanup empties the cache, and an answer that another sync stores after it is that
sync's to sweep. `FreshInv` then carries `FreshWhenClean`: a clean sync finds the
cache empty and no request under way (`SyncInv`: requests belong to running
syncs), so whatever is stored or held afterwards was answered after it began.
It is about `oldest`, the answers of Graph. For role assignments nothing of the kind
holds: `RolesInv` says of the map's entries, of the listings under way and of what
the running syncs were answered that none is older than `started`. The start of the
process is all there is to say of their age, since nothing renews an entry.
`TypeOK` itself needs `SyncInv`, which says that a request under way has an answer to
store.

### GrantExpansionProofs

For any set of entitlements and principals, finite or not, any directories and any
depth limit, from `GrantExpansionAssumption` (types; a directory's grants lie on
its pages, and a principal has one grant on an entitlement):

| theorem | states |
|---|---|
| `TypesCorrect` | `Spec => []TypeOK` |
| `SourcesAreTrue` | `Spec => []SourcesTrue` |
| `AncestorsComeFirst` | `Spec => []AncestorsFirst` |
| `DepthIsLimited` | `Spec => []DepthLimit` |
| `ExpansionIsExact` | `Spec => []ExpandedExactly` |

`SourcesAreTrue` holds in resumed runs as well, so also in those of the
`ExpansionResume` defect; `Honest` adds what its induction needs, that the
directory's own grants are never lost.

`ExpansionIsExact` takes the rest of the module. A run that began at the first page
loads the whole graph (`GraphInv`), whose nodes are the classes of an equivalence,
so that two of them are equal or disjoint (`NodesAreClasses`). `AncestorsFirst`
says of a queued edge that what leads to its source is expanded, but an edge is
marked expanded when the first of its actions ends; `AncestorsInv` adds that none of
these has an action left. Hence no action adds to the source of an edge under
expansion (`SourceIsFinal`), a page that is done stays done, and `ProgressInv`
holds: what a queued edge is to bring has been brought, or an action for it is left
and the pages before that action's are done. When nothing is left, the grants are
closed under the edges, so they include the closure, which is the least such set
(`ClosureIsLeast`). `WithinInv` is the other half: a step adds nothing that the
closure does not have. `DepthInv` relates the counter of rounds to the ways in the
graph: so many rounds have begun every edge that ends no longer way, and an edge
that has not begun is at the end of a way that long.

### BuildersProofs and SyncRunProofs

For any tenant (any number of resources, pages, subscriptions, principals), any
warning limit and any number of faults, from `BuildersAssumption` and
`SyncRunAssumption`:

| theorem | states |
|---|---|
| `IInvAlways` | `Spec => []IInv` |
| `TypesCorrect` | `Spec => []TypeOK` |
| `FinishedRunsAreComplete` | `Spec => []FinishedComplete`, if `PagesAreFull` |
| `HierarchyIsComplete` | `Spec => []HierarchyComplete` |
| `EntitlementsComeFirst` | `Spec => []EntitlementsFirst` |
| `PanicsOnlyWhenResumed` | `Spec => []OnlyResumedPanic` |

`PagesAreFull` says that a page of owners or members which another one follows has
more than fifty entries. Graph does not promise it; without it the code drops the
link (group.go:162) and the property is false.

What a finished sync has stored is decided by steps far back, so the invariant
`IInv` (module `SyncRunInvariant`) says of every state what the store still lacks
and who looks after it:

- `StackOK`: the actions on the stack are in the order of the phases, later ones
  below, and each is a phase's root, the listing of a type from some page on, or
  concerns one resource of the store with the pages it has still to read;
- `AllDue`, `ChildrenDue`: a listed resource that is not stored, an entitlement, a
  membership, an assignment or a child listing that is missing is due from an
  action on the stack: a root of a phase that has not begun, or the very action
  whose remaining pages have it;
- the same of the token and the store (`TokenOK`) and of the token and the store in
  the file (`FileOK`), which is what a crash or an error goes back to. A token may
  be older than its store, by several checkpoints skipped, so that it has to be kept
  that what the store has gained since is looked after, too: `Behind` says that a
  token is not past a phase that the stack is still before, and a store only grows.

`ChildrenDue` is claimed of the stack of a run that was not resumed, and not of
tokens: that is the defect `SyncChildrenLost` shows. A finished run has an empty
stack, from which nothing is due, so nothing is lacking. A panic needs the grants or
entitlements of an application that is not cached; in a run that was not resumed
every stored application was listed by this process (`AppsCached`).

`SyncContractProofs` proves the refinement:

| theorem | states |
|---|---|
| `ImplementsContract` | `Spec => ImplementsTenantSync`, if `PagesAreFull` |

`TenantSync` knows neither phases nor pages, stacks, checkpoints or warnings. A
sync is a collection of facts (resources, entitlements, grants), and a step begins
it, with nothing or with what an interrupted run left; adds to it, each fact with
those it needs; delivers it, when it has what it owes; gives it up; or loses it with
its process. The mapping reads the facts off `store`, what is left off the file.
The steps of the loop that store something are `Collect`: nothing is lost from
the store, and `IInv` gives what each new fact needs. `Finish` is `Deliver`, by the
argument above; `NilApp`, `TooManyWarnings` and `Fail` are `GiveUp`, the first one
by `AppsCached`; the other steps of the loop stutter.

`Only` and `FlattenSeq` are recursive functions. `BuildersProofs` shows that
they exist and which members their values have by `Induct`: a set of numbers that
holds 0 and the successor of each of its members holds every number. This form of
induction takes a set and no operator, which is why it can be used here.

### Not proved

Every safety property and action property that a passing run checks is proved, and
so are both refinements. Liveness (`CallsReturn`, `EventuallyDone`, `PollsOn`,
`SyncsCatchUp`, `RolesCatchUp` and both `RunsEnd`) needs fairness and ENABLED, which are out of the
prover's reach; TLC checks it on the small instances only. The violation runs are
counterexamples and leave nothing to prove. The modules with proofs have no
RECURSIVE operators.

## Not modelled

- Heartbeats of tasks (`SDK/tasks/c1api/task_helpers.go`): they matter by
  their intervals; what they do to a task, cancel its context, is `EndFailed`.
- The reporting of a task's result to the service, and its retries: the service
  is not in the repository, and the connector keeps no state about it.
- One-shot mode of the runner: a sequential loop over one task.
- Etags, assets and skipped full syncs in the syncer: the connector uses none.
- The database backend of the HTTP cache, which is off by default, and the
  construction of its keys.
- List and Entitlements of the resource group role assignment builder, which is
  not registered, so that nobody calls them.
- Profiles, traits and names of resources (`model.go` and most of `helper.go`):
  formatting that no state or property depends on.
- Configuration, command line and set-up of clients: sequential, and done before
  anything else runs.

## Plan

1. Done: all modules above, their runs, and the proofs of every safety property the
   passing runs check.
2. Next: an abstract specification of the expansion, which only adds grants and
   sources of the closure and ends when none is missing, and the proof that
   `GrantExpansion` implements it where it was not resumed behind the first page.

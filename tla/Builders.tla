------------------------------ MODULE Builders ------------------------------
(***************************************************************************)
(* What the connector's builders answer to List, Entitlements and Grants   *)
(* of a sync (the files of src/pkg/connector named after the types), given *)
(* what Azure and Microsoft Graph hold.                                    *)
(*                                                                         *)
(* Azure and Graph are external: a listing is a sequence of pages, a page  *)
(* of resources the sequence of their ids, and a page of principals their  *)
(* set with the number of entries, which may be less than $top asks for.   *)
(* A resource is <<type, id>>, the SDK's ResourceId.  An answer is a list  *)
(* and the bag that the next page token stands for; a token is read back   *)
(* as it was written.  The grants of roles are RoleCache's matter.         *)
(***************************************************************************)
EXTENDS PageBag, FiniteSets, SequencesExt

CONSTANTS
  NoId,          \* no resource id
  Types,         \* the resource types of which there are objects, in order
  ListPages,     \* ListPages[t]: pages of the ids of t's objects
  Below,         \* Below[t][s]: pages of the names of t's objects in s
  OwnedApps,     \* apps whose AppOwnerOrganizationId is one of organizationIDs
  Principals,
  KindOf,        \* @odata.type, and servicePrincipalType, of a principal
  LinkPages,     \* LinkPages[listing][g]: pages of a group's owners or members
  UserRoles,     \* UserRoles[a]: the app roles of a that allow "User" members
  Assigned,      \* Assigned[a]: <<principal, app role>> in its appRoleAssignedTo
  OwnerPages     \* OwnerPages[a]: pages of an app's owners

GraphTypes == {"user", "group", "managed_identity", "enterprise_application"}
ArmTypes == {"tenant", "subscription"}
ChildTypes == {"resource_group", "role"}
Kinds == {"user", "group", "Application", "ManagedIdentity", "other"}

\* A listing, which has a page even when it is empty.
IdsOn(pages) == UNION {ToSet(pages[n]) : n \in DOMAIN pages}
IsListing(pages) == pages # <<>> /\ pages \in Seq(Seq(IdsOn(pages)))
PrincipalPage == [who : SUBSET Principals, size : Nat]

ASSUME BuildersAssumption ==
  /\ Types \in Seq(GraphTypes \union ArmTypes \union ChildTypes)
  /\ \A t \in ToSet(Types) \ ChildTypes : IsListing(ListPages[t])
  /\ "subscription" \in ToSet(Types) =>
       /\ NoId \notin IdsOn(ListPages["subscription"])
       /\ \A t \in ToSet(Types) \intersect ChildTypes :
            \A s \in IdsOn(ListPages["subscription"]) : IsListing(Below[t][s])
  /\ KindOf \in [Principals -> Kinds]
  /\ "group" \in ToSet(Types) =>
       \A l \in {"owners", "members"} : \A g \in IdsOn(ListPages["group"]) :
         LinkPages[l][g] # <<>> /\ LinkPages[l][g] \in Seq(PrincipalPage)
  /\ \A a \in OwnedApps : \A x \in Assigned[a] : x[1] \in Principals

TypeOf(r) == r[1]
IdOf(r) == r[2]
OfType(t, ids) == [n \in DOMAIN ids |-> <<t, ids[n]>>]

\* SelectSeq by set instead of test: what a sequence has in S, and out of it.
Only(seq, S) ==
  LET only[n \in 0 .. Len(seq)] ==
        IF n = 0 THEN <<>>
        ELSE IF seq[n] \in S THEN Append(only[n - 1], seq[n]) ELSE only[n - 1]
  IN only[Len(seq)]
Without(seq, S) == Only(seq, ToSet(seq) \ S)

Answer(list, next) == [list |-> list, next |-> next]

\* The link that Graph puts on page n of a listing of so many pages; mutant:
\* the last page links back to the first.
LinkAround(n, pages) == IF n < pages THEN n + 1 ELSE 1
LinkAfter(n, pages) == IF n < pages THEN n + 1 ELSE NoLink

-----------------------------------------------------------------------------
(* List *)

(* Users, groups, managed identities and applications: a page per call.    *)
(* The enterprise application builder keeps the apps of the tenant's       *)
(* organizations, and caches them.                                         *)
ReportableAll(t, ids) == ids   \* mutant: no filter
Reportable(t, ids) == IF t = "enterprise_application" THEN Only(ids, OwnedApps) ELSE ids

ListPage(t, bag, gone) ==
  LET n == Top(bag).page
  IN Answer(OfType(t, Reportable(t, Without(ListPages[t][n], gone))),
            NextToken(bag, LinkAfter(n, Len(ListPages[t]))))

(* Tenants and subscriptions: all the pages in one call. *)
ListAll(t) == Answer(OfType(t, FlattenSeq(ListPages[t])), NoPages)

(* Resource groups and roles of a subscription, again in one call; without *)
(* a parent there are none.  The id of a resource group is its name, that  *)
(* of a role also names the subscription.                                  *)
ChildId(t, name, s) == IF t = "role" THEN <<name, s>> ELSE name

ListBelow(t, parent) ==
  LET names == IF parent = NoId THEN <<>> ELSE FlattenSeq(Below[t][parent])
  IN Answer([n \in DOMAIN names |-> <<t, ChildId(t, names[n], parent)>>], NoPages)

ListResources(t, parent, token, gone) ==
  IF t \in GraphTypes
    THEN ListPage(t, IF token = NoPages THEN Push(NoPages, t) ELSE token, gone)
  ELSE IF t \in ArmTypes THEN ListAll(t) ELSE ListBelow(t, parent)

\* The ChildResourceType annotations of a resource, in their order.
Children(r) ==
  IF TypeOf(r) = "subscription"
    THEN Only(<<"resource_group", "role">>, ToSet(Types))
    ELSE <<>>

-----------------------------------------------------------------------------
(* Entitlements and Grants *)

\* The types whose resources get no entitlement and grant actions.
SkipsGrants(t) == t = "managed_identity"

\* The default role of an application is always among its entitlements.
DefaultRole == "assignment"
Slugs(r) ==
  CASE TypeOf(r) \in {"group", "subscription"} -> {"owners", "members"}
    [] TypeOf(r) = "role" -> {"owners", "assigned"}
    [] TypeOf(r) = "enterprise_application" ->
         {"owners", DefaultRole} \union UserRoles[IdOf(r)]
    [] OTHER -> {}
ListEntitlements(r) == {<<r, slug>> : slug \in Slugs(r)}

(* getGroupGrants: which principals of a page become grants.  The owners   *)
(* are asked for with $select=id, so a service principal among them comes  *)
(* without the servicePrincipalType that would make it a grant.            *)
Granted(listing, p) ==
  \/ KindOf[p] \in {"user", "group"}
  \/ KindOf[p] \in {"Application", "ManagedIdentity"} /\ listing = "members"

Grant(r, listing, p) == [on |-> r, slug |-> listing, who |-> p]

(* groupBuilder.Grants: owners and members are pushed, members are read    *)
(* first.  The link of a page of at most 50 entries is dropped.            *)
ShortPage(page) == page.size <= 50

GroupBag(token) ==
  IF token = NoPages THEN Push(Push(NoPages, "owners"), "members") ELSE token

GroupGrants(g, token) ==
  LET bag == GroupBag(token)
      ps == Top(bag)
      pages == LinkPages[ps.listing][IdOf(g)]
      page == pages[ps.page]
      link == IF ShortPage(page) THEN NoLink ELSE LinkAfter(ps.page, Len(pages))
  IN Answer({Grant(g, ps.listing, p) : p \in {q \in page.who : Granted(ps.listing, q)}},
            NextToken(bag, link))

(* enterpriseApplicationsBuilder.Grants: owners and assignments are        *)
(* pushed; the assignments, read first from the cached app, come with no   *)
(* next token, those of roles that Entitlements leaves out too.  The       *)
(* owners must be users or service principals.                             *)
AppBag(token) ==
  IF token = NoPages THEN Push(Push(NoPages, "owners"), "assignment") ELSE token

AppGrants(a, token) ==
  LET bag == AppBag(token)
      ps == Top(bag)
      page == OwnerPages[IdOf(a)][ps.page]
  IN IF ps.listing = "assignment"
       THEN Answer({Grant(a, x[2], x[1]) : x \in Assigned[IdOf(a)]}, NoPages)
       ELSE Answer({Grant(a, "owners", p) : p \in {q \in page.who : KindOf[q] = "user"}},
                   NextToken(bag, LinkAfter(ps.page, Len(OwnerPages[IdOf(a)]))))

(* The other types report no grants. *)
ListGrants(r, token) ==
  CASE TypeOf(r) = "group" -> GroupGrants(r, token)
    [] TypeOf(r) = "enterprise_application" -> AppGrants(r, token)
    [] OTHER -> Answer({}, NoPages)
=============================================================================

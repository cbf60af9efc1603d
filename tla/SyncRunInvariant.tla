-------------------------- MODULE SyncRunInvariant --------------------------
(***************************************************************************)
(* The inductive invariant of SyncRun.                                     *)
(*                                                                         *)
(* Completeness at the end of a run is not inductive: it has to be said of *)
(* every state of a run what the store still lacks and which action looks  *)
(* after it.  The stack is in the order of the phases, the ones to come    *)
(* below (StackOK); and whatever the store lacks is due: an action of the  *)
(* stack lists it (AllDue, ChildrenDue).  A crash or an error goes back to *)
(* the token of the last checkpoint, which is older than the store that is *)
(* saved with it; so the same is said of the token and the store, and of   *)
(* the token and the store in the file.  A resource stored after the       *)
(* checkpoint is looked after by phases that the token, being behind the   *)
(* stack, has not begun either (Behind).                                   *)
(*                                                                         *)
(* The parameters: s a stack, A a set of actions, st a store, gn the       *)
(* groups that are gone.                                                   *)
(***************************************************************************)
EXTENDS SyncRun

-----------------------------------------------------------------------------
(* What there is: the ids, the resources and the actions of a sync *)

IdsBelow(t) ==
  UNION {{ChildId(t, name, s) : name \in NamesBelow(t, s)} : s \in Listed("subscription")}
Ids ==
  {NoId} \union (UNION {Listed(t) : t \in ToSet(Types) \ ChildTypes})
         \union (UNION {IdsBelow(t) : t \in ToSet(Types) \intersect ChildTypes})
Objects == ToSet(Types) \X Ids
Ops == {"init", "types", "resources", "entitlements", "grants", "expansion"}
PageState == [listing : Listings, page : Nat]
Actions == [op : Ops, type : ToSet(Types) \union {NoType}, id : Ids, parent : Parents,
            pages : Seq(PageState)]

\* The resources of a store.
In(st) == ToSet(st.resources)

\* What is stored was listed; each grant is on a resource of the store and
\* comes after its entitlement.
StoreOK(st) ==
  /\ st = [resources |-> st.resources, entitlements |-> st.entitlements, grants |-> st.grants]
  /\ st.resources \in Seq(Objects)
  /\ \A r \in In(st) :
       ~Foreign(r) /\ (TypeOf(r) \notin ChildTypes => IdOf(r) \in Listed(TypeOf(r)))
  /\ \A x \in st.grants : x.on \in In(st) /\ x.who \in Principals
  /\ \A x \in st.grants :
       \/ <<x.on, x.slug>> \in st.entitlements
       \/ TypeOf(x.on) = "enterprise_application" /\ x.slug \notin Slugs(x.on)

-----------------------------------------------------------------------------
(* The actions of a stack *)

\* An action is a root (a whole phase), the listing of a type from some page
\* on, or what concerns one stored resource.
IsListAction(a) ==
  /\ a.op = "resources" /\ a.id = NoId /\ a.type \in ToSet(Types)
  /\ a.parent # NoId => a.type \in ChildTypes
  /\ \/ a.pages = NoPages
     \/ /\ a.type \in GraphTypes
        /\ \E n \in 1 .. Len(ListPages[a.type]) : a.pages = <<PageOf(a.type, n)>>
GroupPlace(bag, g) ==
  \/ bag = NoPages
  \/ \E n \in 1 .. Len(LinkPages["members"][g]) :
       bag = <<PageOf("owners", 1), PageOf("members", n)>>
  \/ \E n \in 1 .. Len(LinkPages["owners"][g]) : bag = <<PageOf("owners", n)>>
IsEachAction(a, st) ==
  /\ a.op \in {"entitlements", "grants"} /\ a.parent = NoId
  /\ <<a.type, a.id>> \in In(st)
  /\ \/ a.pages = NoPages
     \/ a.op = "grants" /\ a.type = "group" /\ GroupPlace(a.pages, a.id)
ActionOK(a, st) == a = RootAction(a.op) \/ IsListAction(a) \/ IsEachAction(a, st)

\* The phases, the later ones lower on the stack.
Rank(op) ==
  IF op = "expansion" THEN 1 ELSE IF op = "grants" THEN 2 ELSE IF op = "entitlements" THEN 3
  ELSE IF op = "resources" THEN 4 ELSE IF op = "types" THEN 5 ELSE 6
InOrder(s) == \A m, n \in 1 .. Len(s) : m <= n => Rank(s[m].op) <= Rank(s[n].op)
InitAlone(s) ==
  \A n \in 1 .. Len(s) : s[n].op = "init" => Len(s) = 1 /\ s[n] = RootAction("init")

\* While resources are listed, the phases that go over all of them are ahead.
Begun(A) == RootAction("init") \in A
PhasesAhead(A) ==
  (\E a \in A : a.op = "resources") =>
     RootAction("entitlements") \in A /\ RootAction("grants") \in A
Ahead(A) == Begun(A) \/ (RootAction("entitlements") \in A /\ RootAction("grants") \in A)

StackOK(s, st) ==
  /\ s \in Seq(Actions)
  /\ InOrder(s) /\ InitAlone(s)
  /\ PhasesAhead(ToSet(s))
  /\ \A a \in ToSet(s) : ActionOK(a, st)

-----------------------------------------------------------------------------
(* What is due *)

\* A listed object that is not stored is on a page still to be listed.
FirstPage(a) == IF a.pages = NoPages THEN 1 ELSE Top(a.pages).page
Covers(a, t, i) ==
  /\ a.op = "resources" /\ a.type = t
  /\ \E n \in 1 .. Len(ListPages[t]) : FirstPage(a) <= n /\ i \in ToSet(ListPages[t][n])
ResourcesDue(A, st, gn) ==
  \A t \in ToSet(Types) \ ChildTypes : \A i \in Listed(t) :
    \/ t \in GraphTypes /\ i \in gn
    \/ <<t, i>> \in In(st) \/ Foreign(<<t, i>>)
    \/ Begun(A) \/ RootAction("resources") \in A
    \/ \E a \in A : Covers(a, t, i)

EntitlementsDue(A, st) ==
  \A r \in In(st) :
    \/ ListEntitlements(r) \subseteq st.entitlements
    \/ Begun(A) \/ RootAction("entitlements") \in A
    \/ ActionOn("entitlements", TypeOf(r), IdOf(r)) \in A

\* The bag comes to page n of a listing, if every page but the last is full.
Reads(bag, l, n) == \E k \in DOMAIN bag : bag[k].listing = l /\ bag[k].page <= n
StillReads(a, g, l, n) ==
  /\ a.op = "grants" /\ a.type = "group" /\ a.id = g
  /\ Reads(GroupBag(a.pages), l, n)
LinksDue(A, st, gn) ==
  \A g \in Listed("group") \ gn : \A l \in {"owners", "members"} :
    \A n \in 1 .. Len(LinkPages[l][g]) : \A p \in LinkPages[l][g][n].who :
      (<<"group", g>> \in In(st) /\ Granted(l, p)) =>
        \/ Grant(<<"group", g>>, l, p) \in st.grants
        \/ Begun(A) \/ RootAction("grants") \in A
        \/ \E a \in A : StillReads(a, g, l, n)

AssignmentsDue(A, st) ==
  \A r \in In(st) : TypeOf(r) = "enterprise_application" =>
    \/ \A x \in Assigned[IdOf(r)] : Grant(r, x[2], x[1]) \in st.grants
    \/ Begun(A) \/ RootAction("grants") \in A
    \/ ActionOn("grants", TypeOf(r), IdOf(r)) \in A

AllDue(A, st, gn) ==
  /\ ResourcesDue(A, st, gn) /\ EntitlementsDue(A, st) /\ AssignmentsDue(A, st)
  /\ PagesAreFull => LinksDue(A, st, gn)

\* What is below a stored subscription: not so of the token and the store,
\* where a subscription may be stored and its children's actions lost.
ChildrenDue(A, st) ==
  \A s \in Listed("subscription") : <<"subscription", s>> \in In(st) =>
    \A t \in ToSet(Types) \intersect ChildTypes :
      \/ ListAction(t, s) \in A
      \/ \A name \in NamesBelow(t, s) : <<t, ChildId(t, name, s)>> \in In(st)

-----------------------------------------------------------------------------
(* The invariant *)

\* The stack that a resumed run begins with.
Saved(t) == IF t = NoAction THEN <<RootAction("init")>> ELSE t

Behind(s, t) == Ahead(ToSet(s)) => Ahead(ToSet(Saved(t)))

RestOK ==
  /\ running \in BOOLEAN /\ fresh \in BOOLEAN /\ resumed \in BOOLEAN
  /\ cache \subseteq OwnedApps
  /\ warnings \in 0 .. WarningLimit + 1
  /\ gone \subseteq Listed("group")
  /\ faults \in 0 .. MaxFaults
  /\ outcome \in {"none", "done", "failed", "panic"}
  /\ running => outcome = "none"

FileOK ==
  /\ file = [token |-> file.token, store |-> file.store, open |-> file.open]
  /\ StoreOK(file.store)
  /\ StackOK(Saved(file.token), file.store)
  /\ AllDue(ToSet(Saved(file.token)), file.store, gone)

TokenOK ==
  /\ StackOK(Saved(token), store)
  /\ AllDue(ToSet(Saved(token)), store, gone)
  /\ Behind(stack, token)

StackInv ==
  /\ StackOK(stack, store)
  /\ running => AllDue(ToSet(stack), store, gone)
  /\ running /\ ~resumed => ChildrenDue(ToSet(stack), store)

(* The store holds what Azure and Graph list, and what it lacks is owed by *)
(* the stack, by the token and by the file's token: TLC checks on small    *)
(* tenants what SyncRunProofs proves for all.                              *)
IInv == RestOK /\ StoreOK(store) /\ FileOK /\ TokenOK /\ StackInv
=============================================================================

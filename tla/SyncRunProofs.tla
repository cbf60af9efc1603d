--------------------------- MODULE SyncRunProofs ---------------------------
(***************************************************************************)
(* Theorems about SyncRun, for every tenant, every number and size of      *)
(* pages, every limit of warnings and any number of faults.                *)
(*                                                                         *)
(* The argument.  SyncRunInvariant says of the stack, of the saved token   *)
(* and of the token in the file that the actions are in the order of the   *)
(* phases and that they owe what the store lacks.  An answer of List or    *)
(* Grants and its next token together hold what the action was to list     *)
(* (ListAnswer, GrantsAnswer), so an iteration moves what is due from the  *)
(* stack to the store (IterationStep).  It may leave the old token, whose  *)
(* stack then owes no less than before; only a resource stored since could *)
(* be owed more, its entitlements and grants, and the token is as far      *)
(* behind as the phases that look after them (SavedToken, StaysBehind).    *)
(* A run that starts takes a stack and a store that go together, and a     *)
(* stack that is empty owes nothing: the store is complete.                *)
(***************************************************************************)
EXTENDS SyncRunInvariant, BuildersProofs

-----------------------------------------------------------------------------
(* What is listed *)

(* What is listed at the top: the ids of the listing of a type of Graph or *)
(* ARM.                                                                    *)
LEMMA ListedTypes ==
  ASSUME NEW t \in ToSet(Types) \ ChildTypes
  PROVE  /\ IsListing(ListPages[t])
         /\ Listed(t) = IdsOn(ListPages[t])
         /\ t \in GraphTypes \union ArmTypes
<1>1. IsListing(ListPages[t])
  BY BuildersAssumption
<1>2. Listed(t) = IdsOn(ListPages[t])
  BY <1>1, ListingMembers DEF Listed
<1>3. t \in GraphTypes \union ArmTypes
  BY TypesKnown
<1> QED BY <1>1, <1>2, <1>3

(* What is listed below a subscription, whose id is an id.                 *)
LEMMA NamesOfChildren ==
  ASSUME NEW t \in ToSet(Types) \intersect ChildTypes, NEW s \in Listed("subscription")
  PROVE  /\ IsListing(Below[t][s])
         /\ NamesBelow(t, s) = IdsOn(Below[t][s])
         /\ s # NoId
<1>1. "subscription" \in ToSet(Types) /\ "subscription" \notin ChildTypes
  BY DEF Listed, ChildTypes
<1>2. s \in IdsOn(ListPages["subscription"])
  BY <1>1, ListedTypes
<1>3. IsListing(Below[t][s]) /\ s # NoId
  BY <1>1, <1>2, BuildersAssumption
<1>4. NamesBelow(t, s) = IdsOn(Below[t][s])
  BY <1>3, ListingMembers DEF NamesBelow
<1> QED BY <1>3, <1>4

(* A group's owners and members come on at least one page each.            *)
LEMMA LinkPagesTyped ==
  ASSUME NEW l \in {"owners", "members"}, NEW g \in Listed("group")
  PROVE  /\ LinkPages[l][g] # <<>> /\ LinkPages[l][g] \in Seq(PrincipalPage)
         /\ Len(LinkPages[l][g]) \in Nat \ {0}
         /\ \A n \in 1 .. Len(LinkPages[l][g]) : LinkPages[l][g][n] \in PrincipalPage
         /\ DOMAIN LinkPages[l][g] = 1 .. Len(LinkPages[l][g])
<1>1. "group" \in ToSet(Types) /\ "group" \notin ChildTypes
  BY DEF Listed, ChildTypes
<1>2. g \in IdsOn(ListPages["group"])
  BY <1>1, ListedTypes
<1>3. LinkPages[l][g] # <<>> /\ LinkPages[l][g] \in Seq(PrincipalPage)
  BY <1>1, <1>2, BuildersAssumption
<1> DEFINE p == LinkPages[l][g]
<1> HIDE DEF p
<1>4. p # <<>> /\ p \in Seq(PrincipalPage)
  BY <1>3 DEF p
<1>5. Len(p) \in Nat \ {0} /\ (\A n \in 1 .. Len(p) : p[n] \in PrincipalPage)
      /\ DOMAIN p = 1 .. Len(p)
  BY <1>4
<1> QED BY <1>4, <1>5 DEF p

-----------------------------------------------------------------------------
(* The order of the stack *)

(* The phases are numbered.                                                *)
LEMMA RankNat == \A op : Rank(op) \in 1 .. 6
BY DEF Rank

(* An action stays in order when resources are stored.                     *)
LEMMA ActionGrows ==
  ASSUME NEW a, NEW st, NEW st2, ActionOK(a, st), In(st) \subseteq In(st2)
  PROVE  ActionOK(a, st2)
BY DEF ActionOK, IsEachAction

(* So does a stack.                                                        *)
LEMMA StackGrows ==
  ASSUME NEW s, NEW st, NEW st2, StackOK(s, st), In(st) \subseteq In(st2)
  PROVE  StackOK(s, st2)
BY ActionGrows DEF StackOK

(* Actions of the same phase may take the place of the top: a listing's    *)
(* next page, a type's listings, a subscription's children.                *)
LEMMA InOrderStep ==
  ASSUME NEW s \in Seq(Actions), s # <<>>, InOrder(s), NEW L \in Seq(Actions),
         \A a \in ToSet(L) : a.op = Top(s).op
  PROVE  InOrder(Rest(s) \o L)
<1> DEFINE r == Rest(s)
           k == Len(r)
           q == r \o L
<1>1. /\ r \in Seq(Actions) /\ k \in Nat /\ Len(s) = k + 1
      /\ \A i \in 1 .. k : r[i] = s[i]
      /\ Top(s) = s[k + 1]
  <2>1. r \in Seq(Actions) /\ Len(r) = Len(s) - 1 /\ Len(s) \in Nat \ {0}
        /\ (\A i \in 1 .. Len(s) - 1 : r[i] = s[i]) /\ Top(s) = s[Len(s)]
    BY SeqParts
  <2>2. k = Len(s) - 1 /\ k \in Nat /\ Len(s) = k + 1
    BY <2>1
  <2> QED BY <2>1, <2>2
<1> HIDE DEF r
<1>2. /\ Len(L) \in Nat /\ Len(q) = k + Len(L)
      /\ \A i \in 1 .. k : q[i] = r[i]
      /\ \A i \in 1 .. k + Len(L) : ~(i <= k) => q[i] = L[i - k]
  BY <1>1, ConcatProperties
<1>3. \A i \in 1 .. Len(L) : L[i].op = Top(s).op
  BY DEF ToSet
<1> HIDE DEF k, q
<1> SUFFICES ASSUME NEW m \in 1 .. Len(q), NEW n \in 1 .. Len(q), m <= n
             PROVE  Rank(q[m].op) <= Rank(q[n].op)
  BY DEF InOrder, q, r
<1>4. \A i \in 1 .. k + 1 : \A j \in 1 .. k + 1 : i <= j => Rank(s[i].op) <= Rank(s[j].op)
  BY <1>1 DEF InOrder
<1>5. ASSUME NEW i \in 1 .. Len(q), i <= k
      PROVE  q[i] = s[i] /\ i \in 1 .. k + 1 /\ i <= k + 1
  <2>1. i \in 1 .. k /\ i \in 1 .. k + 1
    BY <1>1, <1>5
  <2> QED BY <1>1, <1>2, <2>1
<1>6. ASSUME NEW i \in 1 .. Len(q), ~(i <= k)
      PROVE  q[i].op = Top(s).op
  <2>1. i - k \in 1 .. Len(L) /\ i \in 1 .. k + Len(L)
    BY <1>1, <1>2, <1>6
  <2>2. q[i] = L[i - k]
    BY <1>2, <1>6, <2>1
  <2> QED BY <1>3, <2>1, <2>2
<1>7. CASE n <= k
  <2>1. m <= k
    BY <1>1, <1>7
  <2>2. q[m] = s[m] /\ q[n] = s[n] /\ m \in 1 .. k + 1 /\ n \in 1 .. k + 1
    BY <1>5, <1>7, <2>1
  <2> QED BY <1>4, <2>2
<1>8. CASE ~(n <= k) /\ m <= k
  <2>1. q[m] = s[m] /\ m \in 1 .. k + 1 /\ m <= k + 1
    BY <1>5, <1>8
  <2>2. q[n].op = s[k + 1].op
    BY <1>1, <1>6, <1>8
  <2>3. k + 1 \in 1 .. k + 1
    BY <1>1
  <2> QED BY <1>4, <2>1, <2>2, <2>3
<1>9. CASE ~(n <= k) /\ ~(m <= k)
  <2>1. q[m].op = q[n].op
    BY <1>6, <1>9
  <2> QED BY <2>1, RankNat
<1> QED BY <1>7, <1>8, <1>9

(* The top of a stack in order is of the earliest phase.                   *)
LEMMA TopRank ==
  ASSUME NEW s \in Seq(Actions), s # <<>>, InOrder(s), NEW a \in ToSet(s)
  PROVE  Rank(a.op) <= Rank(Top(s).op)
<1>1. Len(s) \in Nat \ {0} /\ Top(s) = s[Len(s)] /\ DOMAIN s = 1 .. Len(s)
  <2>1. Len(s) \in Nat \ {0} /\ Top(s) = s[Len(s)]
    BY SeqParts
  <2>2. DOMAIN s = 1 .. Len(s)
    OBVIOUS
  <2> QED BY <2>1, <2>2
<1>2. PICK i \in 1 .. Len(s) : a = s[i]
  BY <1>1 DEF ToSet
<1>3. i <= Len(s) /\ Len(s) \in 1 .. Len(s)
  BY <1>1
<1> QED BY <1>1, <1>2, <1>3 DEF InOrder

(* A stack with an init action has no other.                               *)
LEMMA InitOnTop ==
  ASSUME NEW s \in Seq(Actions), s # <<>>, InitAlone(s), NEW a \in ToSet(s), a.op = "init"
  PROVE  Top(s) = a /\ a = RootAction("init") /\ ToSet(Rest(s)) = {} /\ Rest(s) = <<>>
<1>1. Len(s) \in Nat \ {0} /\ Top(s) = s[Len(s)] /\ DOMAIN s = 1 .. Len(s)
      /\ Rest(s) \in Seq(Actions) /\ Len(Rest(s)) = Len(s) - 1
  BY SeqParts
<1>2. PICK i \in 1 .. Len(s) : a = s[i]
  BY <1>1 DEF ToSet
<1>3. Len(s) = 1 /\ s[i] = RootAction("init")
  BY <1>2 DEF InitAlone
<1>4. i = 1 /\ Len(Rest(s)) = 0
  BY <1>1, <1>3
<1>5. Rest(s) = <<>>
  BY <1>1, <1>4
<1> QED BY <1>1, <1>2, <1>3, <1>4, <1>5 DEF ToSet

(* What every iteration but the first one does to the stack: the top gives *)
(* way to actions of its phase, and the stack stays in order.              *)
LEMMA StackStep ==
  ASSUME NEW st, NEW st2, In(st) \subseteq In(st2),
         NEW s, StackOK(s, st), s # <<>>, Top(s).op # "init",
         NEW L \in Seq(Actions), \A a \in ToSet(L) : a.op = Top(s).op /\ ActionOK(a, st2)
  PROVE  /\ StackOK(Rest(s) \o L, st2)
         /\ ToSet(Rest(s) \o L) = ToSet(Rest(s)) \union ToSet(L)
         /\ ToSet(s) = ToSet(Rest(s)) \union {Top(s)}
<1> DEFINE q == Rest(s) \o L
<1>1. s \in Seq(Actions) /\ InOrder(s) /\ InitAlone(s) /\ PhasesAhead(ToSet(s))
      /\ \A a \in ToSet(s) : ActionOK(a, st)
  BY DEF StackOK
<1>2. /\ q \in Seq(Actions) /\ ToSet(q) = ToSet(Rest(s)) \union ToSet(L)
      /\ ToSet(s) = ToSet(Rest(s)) \union {Top(s)}
  BY <1>1, Replaced
<1>3. InOrder(q)
  BY <1>1, InOrderStep
<1> HIDE DEF q
<1>4. \A a \in ToSet(q) : a.op # "init"
  <2>1. \A a \in ToSet(s) : a.op # "init"
    BY <1>1, InitOnTop
  <2> QED BY <1>2, <2>1
<1>5. InitAlone(q)
  <2>1. \A n \in 1 .. Len(q) : q[n] \in ToSet(q)
    BY <1>2 DEF ToSet
  <2> QED BY <1>4, <2>1 DEF InitAlone
<1>6. PhasesAhead(ToSet(q))
  <2> SUFFICES ASSUME NEW a \in ToSet(q), a.op = "resources"
               PROVE  RootAction("entitlements") \in ToSet(q) /\ RootAction("grants") \in ToSet(q)
    BY DEF PhasesAhead
  <2>1. \E b \in ToSet(s) : b.op = "resources"
    BY <1>2
  <2>2. RootAction("entitlements") \in ToSet(s) /\ RootAction("grants") \in ToSet(s)
    BY <1>1, <2>1 DEF PhasesAhead
  <2>3. Rank(Top(s).op) >= 4
    <3>1. PICK b \in ToSet(s) : b.op = "resources"
      BY <2>1
    <3>2. Rank(b.op) <= Rank(Top(s).op) /\ Rank(b.op) = 4 /\ Rank(Top(s).op) \in 1 .. 6
      BY <1>1, <3>1, TopRank, RankNat DEF Rank
    <3> QED BY <3>2
  <2>4. RootAction("entitlements").op = "entitlements" /\ RootAction("grants").op = "grants"
    BY DEF RootAction, ActionOn
  <2>5. Top(s) # RootAction("entitlements") /\ Top(s) # RootAction("grants")
    BY <2>3, <2>4 DEF Rank
  <2> QED BY <1>2, <2>2, <2>5
<1>7. \A a \in ToSet(q) : ActionOK(a, st2)
  BY <1>1, <1>2, ActionGrows
<1>8. StackOK(q, st2)
  BY <1>2, <1>3, <1>5, <1>6, <1>7 DEF StackOK
<1> QED BY <1>2, <1>8 DEF q

-----------------------------------------------------------------------------
(* What is due *)

\* A store that has become larger.
Grows(st, st2) ==
  /\ In(st) \subseteq In(st2)
  /\ st.entitlements \subseteq st2.entitlements
  /\ st.grants \subseteq st2.grants

(* What is owed stays owed or is stored when the store grows, provided the *)
(* phases that look after new resources are ahead.                         *)
LEMMA DueGrows ==
  ASSUME NEW A, NEW st, NEW st2, NEW gn, AllDue(A, st, gn), Grows(st, st2),
         In(st2) # In(st) => Ahead(A)
  PROVE  AllDue(A, st2, gn)
<1>1. ResourcesDue(A, st2, gn)
  BY DEF AllDue, ResourcesDue, Grows
<1>2. EntitlementsDue(A, st2)
  <2> SUFFICES ASSUME NEW r \in In(st2)
               PROVE  \/ ListEntitlements(r) \subseteq st2.entitlements
                      \/ Begun(A) \/ RootAction("entitlements") \in A
                      \/ ActionOn("entitlements", TypeOf(r), IdOf(r)) \in A
    BY DEF EntitlementsDue
  <2>1. CASE r \in In(st)
    BY <2>1 DEF AllDue, EntitlementsDue, Grows
  <2>2. CASE r \notin In(st)
    BY <2>2 DEF Ahead
  <2> QED BY <2>1, <2>2
<1>3. AssignmentsDue(A, st2)
  <2> SUFFICES ASSUME NEW r \in In(st2), TypeOf(r) = "enterprise_application"
               PROVE  \/ \A x \in Assigned[IdOf(r)] : Grant(r, x[2], x[1]) \in st2.grants
                      \/ Begun(A) \/ RootAction("grants") \in A
                      \/ ActionOn("grants", TypeOf(r), IdOf(r)) \in A
    BY DEF AssignmentsDue
  <2>1. CASE r \in In(st)
    BY <2>1 DEF AllDue, AssignmentsDue, Grows
  <2>2. CASE r \notin In(st)
    BY <2>2 DEF Ahead
  <2> QED BY <2>1, <2>2
<1>4. ASSUME LinksDue(A, st, gn) PROVE LinksDue(A, st2, gn)
  <2> SUFFICES ASSUME NEW g \in Listed("group") \ gn, NEW l \in {"owners", "members"},
                      NEW n \in 1 .. Len(LinkPages[l][g]), NEW p \in LinkPages[l][g][n].who,
                      <<"group", g>> \in In(st2), Granted(l, p)
               PROVE  \/ Grant(<<"group", g>>, l, p) \in st2.grants
                      \/ Begun(A) \/ RootAction("grants") \in A
                      \/ \E a \in A : StillReads(a, g, l, n)
    BY DEF LinksDue
  <2>1. CASE <<"group", g>> \in In(st)
    BY <1>4, <2>1 DEF LinksDue, Grows
  <2>2. CASE <<"group", g>> \notin In(st)
    BY <2>2 DEF Ahead
  <2> QED BY <2>1, <2>2
<1> QED BY <1>1, <1>2, <1>3, <1>4 DEF AllDue

(* A deletion owes nothing new.                                            *)
LEMMA DueDeletion ==
  ASSUME NEW A, NEW st, NEW gn, NEW gn2, AllDue(A, st, gn), gn \subseteq gn2
  PROVE  AllDue(A, st, gn2)
<1>1. ResourcesDue(A, st, gn2)
  BY DEF AllDue, ResourcesDue
<1>2. LinksDue(A, st, gn) => LinksDue(A, st, gn2)
  BY DEF LinksDue
<1> QED BY <1>1, <1>2 DEF AllDue

(* An action owes only what its op is about: dropping one of another phase *)
(* owes no resource.                                                       *)
LEMMA ResourcesKept ==
  ASSUME NEW A, NEW B, NEW x, NEW st, NEW gn, ResourcesDue(A, st, gn),
         A \subseteq B \union {x}, x.op \notin {"init", "resources"}
  PROVE  ResourcesDue(B, st, gn)
<1>1. RootAction("init").op = "init" /\ RootAction("resources").op = "resources"
  BY DEF RootAction, ActionOn
<1>2. (Begun(A) => Begun(B)) /\ (RootAction("resources") \in A => RootAction("resources") \in B)
  BY <1>1 DEF Begun
<1>3. \A t, i : (\E a \in A : Covers(a, t, i)) => \E a \in B : Covers(a, t, i)
  BY DEF Covers
<1> QED BY <1>2, <1>3 DEF ResourcesDue

(* Dropping an action of another phase owes no entitlement.                *)
LEMMA EntitlementsKept ==
  ASSUME NEW A, NEW B, NEW x, NEW st, EntitlementsDue(A, st),
         A \subseteq B \union {x}, x.op \notin {"init", "entitlements"}
  PROVE  EntitlementsDue(B, st)
<1>1. RootAction("init").op = "init"
      /\ \A t, i : ActionOn("entitlements", t, i).op = "entitlements"
  BY DEF RootAction, ActionOn
<1>2. /\ Begun(A) => Begun(B)
      /\ RootAction("entitlements") \in A => RootAction("entitlements") \in B
      /\ \A t, i : ActionOn("entitlements", t, i) \in A => ActionOn("entitlements", t, i) \in B
  BY <1>1 DEF Begun, RootAction
<1> QED BY <1>2 DEF EntitlementsDue

(* Dropping an action of another phase owes no grant.                      *)
LEMMA GrantsKept ==
  ASSUME NEW A, NEW B, NEW x, NEW st, NEW gn,
         A \subseteq B \union {x}, x.op \notin {"init", "grants"}
  PROVE  /\ AssignmentsDue(A, st) => AssignmentsDue(B, st)
         /\ LinksDue(A, st, gn) => LinksDue(B, st, gn)
<1>1. RootAction("init").op = "init" /\ \A t, i : ActionOn("grants", t, i).op = "grants"
  BY DEF RootAction, ActionOn
<1>2. /\ Begun(A) => Begun(B)
      /\ RootAction("grants") \in A => RootAction("grants") \in B
      /\ \A t, i : ActionOn("grants", t, i) \in A => ActionOn("grants", t, i) \in B
  BY <1>1 DEF Begun, RootAction
<1>3. \A g, l, n : (\E a \in A : StillReads(a, g, l, n)) => \E a \in B : StillReads(a, g, l, n)
  BY DEF StillReads
<1>4. AssignmentsDue(A, st) => AssignmentsDue(B, st)
  BY <1>2 DEF AssignmentsDue
<1>5. LinksDue(A, st, gn) => LinksDue(B, st, gn)
  BY <1>2, <1>3 DEF LinksDue
<1> QED BY <1>4, <1>5

(* Dropping an action that is no listing owes no child.                    *)
LEMMA ChildrenKept ==
  ASSUME NEW A, NEW B, NEW x, NEW st, ChildrenDue(A, st),
         A \subseteq B \union {x}, x.op # "resources"
  PROVE  ChildrenDue(B, st)
<1>1. \A t, s : ListAction(t, s).op = "resources"
  BY DEF ListAction
<1> QED BY <1>1 DEF ChildrenDue

(* The token after a checkpoint, the old one or the stack: the stack that  *)
(* it stands for is in order and owes what the store lacks, though the     *)
(* iteration's results are stored with it.                                 *)
LEMMA SavedToken ==
  ASSUME NEW s, NEW tk, NEW tk2 \in {tk, s}, NEW st, NEW st2, NEW gn,
         s # NoAction, StackOK(s, st), StackOK(Saved(tk), st),
         AllDue(ToSet(s), st, gn), AllDue(ToSet(Saved(tk)), st, gn), Behind(s, tk),
         Grows(st, st2), In(st2) # In(st) => Ahead(ToSet(s))
  PROVE  /\ StackOK(Saved(tk2), st2)
         /\ AllDue(ToSet(Saved(tk2)), st2, gn)
         /\ Behind(s, tk2)
<1>1. Saved(s) = s
  BY DEF Saved
<1>2. StackOK(Saved(tk2), st) /\ AllDue(ToSet(Saved(tk2)), st, gn) /\ Behind(s, tk2)
  BY <1>1 DEF Behind
<1>3. In(st2) # In(st) => Ahead(ToSet(Saved(tk2)))
  BY <1>2 DEF Behind
<1>4. StackOK(Saved(tk2), st2)
  BY <1>2, StackGrows DEF Grows
<1>5. AllDue(ToSet(Saved(tk2)), st2, gn)
  BY <1>2, <1>3, DueGrows
<1> QED BY <1>2, <1>4, <1>5

(* While resources are listed, entitlements and grants are ahead.          *)
LEMMA AheadOfResources ==
  ASSUME NEW s, NEW st, StackOK(s, st), s # NoAction, Top(s).op = "resources"
  PROVE  Ahead(ToSet(s))
<1>1. Top(s) \in ToSet(s)
  BY SeqParts DEF StackOK, NoAction
<1> QED BY <1>1 DEF StackOK, PhasesAhead, Ahead

(* A step that is not the first leaves the roots as far ahead: the token   *)
(* stays behind the stack.                                                 *)
LEMMA StaysBehind ==
  ASSUME NEW s, NEW q, NEW tk, Behind(s, tk), NEW L,
         ToSet(q) = ToSet(Rest(s)) \union ToSet(L), ToSet(Rest(s)) \subseteq ToSet(s),
         \A op : RootAction(op) \notin ToSet(L)
  PROVE  Behind(q, tk)
<1>1. Ahead(ToSet(q)) => Ahead(ToSet(s))
  BY DEF Ahead, Begun
<1> QED BY <1>1 DEF Behind

-----------------------------------------------------------------------------
(* What List answers *)

(* Every listed id is an id, and so is every child's.                      *)
LEMMA ObjectsOf ==
  /\ \A t \in ToSet(Types) \ ChildTypes : \A i \in Listed(t) : i \in Ids /\ <<t, i>> \in Objects
  /\ \A t \in ToSet(Types) \intersect ChildTypes : \A s \in Listed("subscription") :
       \A name \in NamesBelow(t, s) :
         ChildId(t, name, s) \in Ids /\ <<t, ChildId(t, name, s)>> \in Objects
<1>1. \A t \in ToSet(Types) \ ChildTypes : \A i \in Listed(t) : i \in Ids
  BY DEF Ids
<1>2. ASSUME NEW t \in ToSet(Types) \intersect ChildTypes, NEW s \in Listed("subscription"),
             NEW name \in NamesBelow(t, s)
      PROVE  ChildId(t, name, s) \in Ids
  <2>1. ChildId(t, name, s) \in {ChildId(t, nm, s) : nm \in NamesBelow(t, s)}
    OBVIOUS
  <2>2. ChildId(t, name, s) \in IdsBelow(t)
    BY <2>1 DEF IdsBelow
  <2>3. UNION {IdsBelow(k) : k \in ToSet(Types) \intersect ChildTypes} \subseteq Ids
    BY DEF Ids
  <2>4. IdsBelow(t) \in {IdsBelow(k) : k \in ToSet(Types) \intersect ChildTypes}
    OBVIOUS
  <2> QED BY <2>2, <2>3, <2>4
<1>3. \A t \in ToSet(Types), i \in Ids : <<t, i>> \in Objects
  BY DEF Objects
<1> QED BY <1>1, <1>2, <1>3

(* The resources made of a list of ids.                                    *)
LEMMA TypedIds ==
  ASSUME NEW t \in ToSet(Types) \ ChildTypes, NEW ids \in Seq(Listed(t))
  PROVE  /\ OfType(t, ids) \in Seq(Objects)
         /\ ToSet(OfType(t, ids)) = {<<t, i>> : i \in ToSet(ids)}
<1> DEFINE G == [i \in ToSet(ids) |-> <<t, i>>]
<1>1. \A i \in ToSet(ids) : i \in Listed(t)
  BY DEF ToSet
<1>2. \A i \in ToSet(ids) : G[i] = <<t, i>> /\ G[i] \in Objects
  BY <1>1, ObjectsOf
<1>3. \A n \in DOMAIN ids : ids[n] \in ToSet(ids)
  BY DEF ToSet
<1> DEFINE q == OfType(t, ids)
<1>4. /\ q = [n \in DOMAIN ids |-> q[n]]
      /\ \A n \in DOMAIN ids : q[n] = G[ids[n]] /\ q[n] \in Objects
  BY <1>2, <1>3 DEF OfType
<1> HIDE DEF G, q
<1>5. /\ q \in Seq(Objects)
      /\ \A r \in ToSet(q) : \E i \in ToSet(ids) : r = G[i]
      /\ \A i \in ToSet(ids) : G[i] \in ToSet(q)
  BY <1>4, Mapped
<1>6. ToSet(q) = {<<t, i>> : i \in ToSet(ids)}
  BY <1>2, <1>5
<1> QED BY <1>5, <1>6 DEF q

\* An action at another page.
Moved(a, next) == [a EXCEPT !.pages = next]

\* What List answers to an action.
AnswerTo(a, gn) == ListResources(a.type, a.parent, a.pages, gn)

(* An action that is moved to another page is still one.                   *)
LEMMA MovedAction ==
  ASSUME NEW a \in Actions, NEW next \in Seq(PageState)
  PROVE  /\ Moved(a, next) \in Actions
         /\ Moved(a, next).op = a.op /\ Moved(a, next).type = a.type
         /\ Moved(a, next).id = a.id /\ Moved(a, next).parent = a.parent
         /\ Moved(a, next).pages = next
BY DEF Moved, Actions

(* What a page of a Graph listing answers: the page's ids that Graph still *)
(* has and that are not of a foreign application, and the token of the     *)
(* next page while there is one.                                           *)
LEMMA GraphAnswer ==
  ASSUME NEW a \in Actions, IsListAction(a), a.type \in GraphTypes, NEW gn
  PROVE  LET t == a.type
             n == FirstPage(a)
             pages == ListPages[t]
             page == Reportable(t, Without(pages[n], gn))
         IN /\ n \in 1 .. Len(pages)
            /\ page \in Seq(Listed(t))
            /\ ToSet(page) = {i \in ToSet(pages[n]) \ gn : ~Foreign(<<t, i>>)}
            /\ AnswerTo(a, gn) = Answer(OfType(t, page),
                  IF n < Len(pages) THEN <<PageOf(t, n + 1)>> ELSE NoPages)
<1> DEFINE t == a.type
           n == FirstPage(a)
           pages == ListPages[t]
           page == Reportable(t, Without(pages[n], gn))
<1>1. t \in ToSet(Types) \ ChildTypes
  BY DEF IsListAction, GraphTypes, ChildTypes
<1>2. /\ Len(pages) \in Nat /\ Len(pages) # 0
      /\ \A m \in 1 .. Len(pages) : pages[m] \in Seq(Listed(t))
  BY <1>1, ListedTypes, ListingMembers
<1>3. n \in 1 .. Len(pages)
      /\ (IF a.pages = NoPages THEN Push(NoPages, t) ELSE a.pages) = <<PageOf(t, n)>>
  <2>1. CASE a.pages = NoPages
    <3>1. n = 1
      BY <2>1 DEF FirstPage
    <3>2. Push(NoPages, t) = <<PageOf(t, 1)>>
      BY Pushed
    <3> QED BY <1>2, <2>1, <3>1, <3>2
  <2>2. CASE a.pages # NoPages
    <3>1. PICK m \in 1 .. Len(pages) : a.pages = <<PageOf(t, m)>>
      BY <2>2 DEF IsListAction
    <3>2. Top(a.pages) = PageOf(t, m)
      BY <3>1, OnePage
    <3>3. n = m
      BY <2>2, <3>2 DEF FirstPage, PageOf
    <3> QED BY <2>2, <3>1, <3>3
  <2> QED BY <2>1, <2>2
<1>4. pages[n] \in Seq(Listed(t))
  BY <1>2, <1>3
<1>5. page \in Seq(Listed(t)) /\ ToSet(page) = {i \in ToSet(pages[n]) \ gn : ~Foreign(<<t, i>>)}
  <2> DEFINE here == Without(pages[n], gn)
  <2>1. here \in Seq(Listed(t)) /\ ToSet(here) = ToSet(pages[n]) \ gn
    BY <1>4, WithoutMembers
  <2> HIDE DEF here
  <2>2. \A i : Foreign(<<t, i>>) <=> t = "enterprise_application" /\ i \notin OwnedApps
    BY DEF Foreign, TypeOf, IdOf
  <2>3. CASE t = "enterprise_application"
    <3>1. Reportable(t, here) = Only(here, OwnedApps)
      BY <2>3 DEF Reportable
    <3>2. Only(here, OwnedApps) \in Seq(Listed(t))
          /\ ToSet(Only(here, OwnedApps)) = ToSet(here) \intersect OwnedApps
      BY <2>1, OnlyMembers
    <3> QED BY <2>1, <2>2, <2>3, <3>1, <3>2 DEF here
  <2>4. CASE t # "enterprise_application"
    <3>1. Reportable(t, here) = here
      BY <2>4 DEF Reportable
    <3> QED BY <2>1, <2>2, <2>4, <3>1 DEF here
  <2> QED BY <2>3, <2>4
<1>6. AnswerTo(a, gn) = Answer(OfType(t, page),
                  IF n < Len(pages) THEN <<PageOf(t, n + 1)>> ELSE NoPages)
  <2> DEFINE bag == <<PageOf(t, n)>>
             link == LinkAfter(n, Len(pages))
  <2>1. AnswerTo(a, gn) = ListPage(t, bag, gn)
    BY <1>3 DEF AnswerTo, ListResources
  <2>2. n \in Nat /\ link \in Nat /\ link = IF n < Len(pages) THEN n + 1 ELSE 0
    <3> HIDE DEF n
    <3> QED BY <1>2, <1>3 DEF LinkAfter, NoLink
  <2>3. Top(bag) = PageOf(t, n)
        /\ NextToken(bag, link) = IF link = NoLink THEN NoPages ELSE <<PageOf(t, link)>>
    <3> HIDE DEF n, link
    <3> QED BY <2>2, OnePage
  <2>4. Top(bag).page = n
    BY <2>3 DEF PageOf
  <2>5. ListPage(t, bag, gn) = Answer(OfType(t, page), NextToken(bag, link))
    <3> HIDE DEF bag
    <3> QED BY <2>4 DEF ListPage
  <2>6. NextToken(bag, link) = IF n < Len(pages) THEN <<PageOf(t, n + 1)>> ELSE NoPages
    <3> HIDE DEF bag, link, n, pages
    <3>1. n + 1 # 0
      BY <2>2
    <3> QED BY <2>2, <2>3, <3>1 DEF NoLink
  <2> QED BY <2>1, <2>5, <2>6
<1> QED BY <1>3, <1>5, <1>6

(* Tenants and subscriptions come in one answer.                           *)
LEMMA ArmAnswer ==
  ASSUME NEW a \in Actions, IsListAction(a), a.type \in ArmTypes, NEW gn
  PROVE  LET t == a.type IN
         /\ FlattenSeq(ListPages[t]) \in Seq(Listed(t))
         /\ ToSet(FlattenSeq(ListPages[t])) = Listed(t)
         /\ AnswerTo(a, gn) = Answer(OfType(t, FlattenSeq(ListPages[t])), NoPages)
<1> DEFINE t == a.type
<1>1. t \in ToSet(Types) \ ChildTypes /\ t \notin GraphTypes
  BY DEF IsListAction, ArmTypes, GraphTypes, ChildTypes
<1>2. /\ FlattenSeq(ListPages[t]) \in Seq(Listed(t))
      /\ ToSet(FlattenSeq(ListPages[t])) = Listed(t)
  BY <1>1, ListedTypes, ListingMembers
<1>3. AnswerTo(a, gn) = Answer(OfType(t, FlattenSeq(ListPages[t])), NoPages)
  BY <1>1 DEF AnswerTo, ListResources, ListAll
<1> QED BY <1>2, <1>3

(* So do the children of a subscription, under ids of their own.           *)
LEMMA ChildAnswer ==
  ASSUME NEW a \in Actions, IsListAction(a), a.type \in ChildTypes, NEW gn
  PROVE  LET t == a.type
             ans == AnswerTo(a, gn)
         IN /\ ans = Answer(ans.list, NoPages)
            /\ ans.list \in Seq(Objects)
            /\ \A r \in ToSet(ans.list) : TypeOf(r) = t
            /\ a.parent # NoId => \A name \in NamesBelow(t, a.parent) :
                 <<t, ChildId(t, name, a.parent)>> \in ToSet(ans.list)
<1> DEFINE t == a.type
           s == a.parent
           ans == AnswerTo(a, gn)
           names == IF s = NoId THEN <<>> ELSE FlattenSeq(Below[t][s])
           list == [n \in DOMAIN names |-> <<t, ChildId(t, names[n], s)>>]
<1>1. t \in ToSet(Types) \intersect ChildTypes /\ t \notin GraphTypes /\ t \notin ArmTypes
  BY DEF IsListAction, ArmTypes, GraphTypes, ChildTypes
<1>2. ans = Answer(list, NoPages)
  BY <1>1 DEF AnswerTo, ListResources, ListBelow
<1>3. ans.list = list /\ ans = Answer(ans.list, NoPages)
  BY <1>2 DEF Answer
<1>4. CASE s = NoId
  <2>1. list = <<>>
    BY <1>4
  <2>2. <<>> \in Seq(Objects) /\ ToSet(<<>>) = {}
    BY DEF ToSet
  <2> QED BY <1>3, <1>4, <2>1, <2>2
<1>5. CASE s # NoId
  <2>1. s \in Listed("subscription")
    BY <1>5 DEF Actions, Parents
  <2>2. names = FlattenSeq(Below[t][s])
    BY <1>5
  <2>3. names \in Seq(NamesBelow(t, s)) /\ ToSet(names) = NamesBelow(t, s)
    BY <1>1, <2>1, <2>2, NamesOfChildren, ListingMembers
  <2> DEFINE G == [name \in NamesBelow(t, s) |-> <<t, ChildId(t, name, s)>>]
  <2>4. \A name \in NamesBelow(t, s) : G[name] = <<t, ChildId(t, name, s)>> /\ G[name] \in Objects
    BY <1>1, <2>1, ObjectsOf
  <2>5. \A n \in DOMAIN names : names[n] \in NamesBelow(t, s)
    BY <2>3 DEF ToSet
  <2> DEFINE T == NamesBelow(t, s)
  <2> HIDE DEF names
  <2>6. /\ list = [n \in DOMAIN names |-> list[n]]
        /\ \A n \in DOMAIN names : list[n] = G[names[n]] /\ list[n] \in Objects
    BY <2>4, <2>5
  <2> HIDE DEF list, G, T
  <2>7. /\ list \in Seq(Objects)
        /\ \A r \in ToSet(list) : \E i \in ToSet(names) : r = G[i]
        /\ \A i \in ToSet(names) : G[i] \in ToSet(list)
    <3>1. names \in Seq(T)
      BY <2>3 DEF T
    <3> QED BY <2>6, <3>1, Mapped
  <2>8. \A r \in ToSet(list) : TypeOf(r) = t
    BY <2>3, <2>4, <2>7 DEF TypeOf
  <2>9. \A name \in NamesBelow(t, s) : <<t, ChildId(t, name, s)>> \in ToSet(list)
    BY <2>3, <2>4, <2>7
  <2> QED BY <1>3, <2>7, <2>8, <2>9
<1> QED BY <1>4, <1>5

(* What an answer to List leaves out of what its action covers, the moved  *)
(* action covers: no page of a listing is skipped.                         *)
LEMMA ListAnswer ==
  ASSUME NEW a \in Actions, IsListAction(a), NEW gn
  PROVE  LET ans == AnswerTo(a, gn) IN
         /\ ans.list \in Seq(Objects)
         /\ \A r \in ToSet(ans.list) :
              /\ TypeOf(r) = a.type /\ ~Foreign(r)
              /\ TypeOf(r) \notin ChildTypes => IdOf(r) \in Listed(TypeOf(r))
         /\ ans.next \in Seq(PageState)
         /\ ans.next # NoPages => IsListAction(Moved(a, ans.next))
         /\ a.type \notin ChildTypes => \A i : Covers(a, a.type, i) =>
              \/ a.type \in GraphTypes /\ i \in gn
              \/ <<a.type, i>> \in ToSet(ans.list) \/ Foreign(<<a.type, i>>)
              \/ ans.next # NoPages /\ Covers(Moved(a, ans.next), a.type, i)
         /\ a.type \in ChildTypes /\ a.parent # NoId =>
              /\ ans.next = NoPages
              /\ \A name \in NamesBelow(a.type, a.parent) :
                   <<a.type, ChildId(a.type, name, a.parent)>> \in ToSet(ans.list)
<1> DEFINE t == a.type
           ans == AnswerTo(a, gn)
           pages == ListPages[t]
<1>0. t \in ToSet(Types)
  BY DEF IsListAction
<1>p. \A i : TypeOf(<<t, i>>) = t /\ IdOf(<<t, i>>) = i
  BY DEF TypeOf, IdOf
<1>e. NoPages \in Seq(PageState)
  BY DEF NoPages
<1>1. CASE t \in GraphTypes
  <2> DEFINE n == FirstPage(a)
             page == Reportable(t, Without(pages[n], gn))
             next == IF n < Len(pages) THEN <<PageOf(t, n + 1)>> ELSE NoPages
  <2>1. /\ n \in 1 .. Len(pages) /\ page \in Seq(Listed(t))
        /\ ToSet(page) = {i \in ToSet(pages[n]) \ gn : ~Foreign(<<t, i>>)}
        /\ ans = Answer(OfType(t, page), next)
    BY <1>1, GraphAnswer
  <2>2. t \in ToSet(Types) \ ChildTypes
    BY <1>0, <1>1 DEF GraphTypes, ChildTypes
  <2>3. /\ Len(pages) \in Nat
        /\ \A m \in 1 .. Len(pages) : pages[m] \in Seq(Listed(t))
    BY <2>2, ListedTypes, ListingMembers
  <2> HIDE DEF page, n, next
  <2>4. OfType(t, page) \in Seq(Objects)
        /\ ToSet(OfType(t, page)) = {<<t, i>> : i \in ToSet(page)}
    BY <2>1, <2>2, TypedIds
  <2>5. ans.list = OfType(t, page) /\ ans.next = next
    BY <2>1 DEF Answer
  <2>6. \A i \in ToSet(page) : i \in Listed(t) /\ ~Foreign(<<t, i>>)
    BY <2>1 DEF ToSet
  <2>7. \A r \in ToSet(ans.list) :
           /\ TypeOf(r) = a.type /\ ~Foreign(r)
           /\ TypeOf(r) \notin ChildTypes => IdOf(r) \in Listed(TypeOf(r))
    BY <1>p, <2>4, <2>5, <2>6
  <2>8. next \in Seq(PageState) /\ (next # NoPages => IsListAction(Moved(a, next)))
    <3>1. CASE n < Len(pages)
      <4>1. n + 1 \in 1 .. Len(pages) /\ n + 1 \in Nat
        BY <2>1, <2>3, <3>1
      <4>2. next = <<PageOf(t, n + 1)>>
        BY <3>1 DEF next
      <4>3. PageOf(t, n + 1) \in PageState
        BY <1>0, <4>1 DEF PageOf, PageState, Listings
      <4>4. next \in Seq(PageState)
        BY <4>2, <4>3
      <4>5. IsListAction(Moved(a, next))
        <5>1. /\ Moved(a, next).op = a.op /\ Moved(a, next).type = a.type
              /\ Moved(a, next).id = a.id /\ Moved(a, next).parent = a.parent
              /\ Moved(a, next).pages = next
          BY <4>4, MovedAction
        <5> QED BY <1>1, <4>1, <4>2, <5>1 DEF IsListAction
      <4> QED BY <4>4, <4>5
    <3>2. CASE ~(n < Len(pages))
      BY <1>e, <3>2 DEF next
    <3> QED BY <3>1, <3>2
  <2>9. ASSUME NEW i, Covers(a, t, i), ~(i \in gn), ~Foreign(<<t, i>>),
               <<t, i>> \notin ToSet(ans.list)
        PROVE  next # NoPages /\ Covers(Moved(a, next), t, i)
    <3>1. PICK m \in 1 .. Len(pages) : n <= m /\ i \in ToSet(pages[m])
      BY <2>9 DEF Covers, n
    <3>2. i \notin ToSet(page)
      BY <2>4, <2>5, <2>9
    <3>3. m # n
      BY <2>1, <2>9, <3>1, <3>2
    <3>4. n < Len(pages) /\ n + 1 <= m
      BY <2>1, <2>3, <3>1, <3>3
    <3>5. next = <<PageOf(t, n + 1)>>
      BY <3>4 DEF next
    <3>6. next # NoPages /\ Top(next) = PageOf(t, n + 1)
      <4>1. n + 1 \in Nat
        BY <2>1
      <4>2. Top(<<PageOf(t, n + 1)>>) = PageOf(t, n + 1)
        BY <4>1, OnePage
      <4>3. next # NoPages
        BY <3>5 DEF NoPages
      <4> QED BY <3>5, <4>2, <4>3
    <3>7. /\ Moved(a, next).op = a.op /\ Moved(a, next).type = a.type
          /\ Moved(a, next).pages = next
      BY <2>8, MovedAction
    <3>8. FirstPage(Moved(a, next)) = n + 1
      BY <3>6, <3>7 DEF FirstPage, PageOf
    <3> QED BY <2>9, <3>1, <3>4, <3>6, <3>7, <3>8 DEF Covers
  <2>10. t \notin ChildTypes
    BY <2>2
  <2>11. \A i : Covers(a, t, i) =>
              \/ t \in GraphTypes /\ i \in gn
              \/ <<t, i>> \in ToSet(ans.list) \/ Foreign(<<t, i>>)
              \/ ans.next # NoPages /\ Covers(Moved(a, ans.next), t, i)
    <3> HIDE DEF ans
    <3> QED BY <1>1, <2>5, <2>9
  <2>12. ans.list \in Seq(Objects)
    BY <2>4, <2>5
  <2>13. ans.next \in Seq(PageState) /\ (ans.next # NoPages => IsListAction(Moved(a, ans.next)))
    <3> HIDE DEF ans
    <3> QED BY <2>5, <2>8
  <2> QED BY <2>7, <2>10, <2>11, <2>12, <2>13
<1>2. CASE t \in ArmTypes
  <2> DEFINE ids == FlattenSeq(ListPages[t])
  <2>1. ids \in Seq(Listed(t)) /\ ToSet(ids) = Listed(t)
        /\ ans = Answer(OfType(t, ids), NoPages)
    BY <1>2, ArmAnswer
  <2>2. t \in ToSet(Types) \ ChildTypes
    BY <1>0, <1>2 DEF ArmTypes, ChildTypes
  <2> HIDE DEF ids
  <2>3. OfType(t, ids) \in Seq(Objects)
        /\ ToSet(OfType(t, ids)) = {<<t, i>> : i \in ToSet(ids)}
    BY <2>1, <2>2, TypedIds
  <2>4. ans.list = OfType(t, ids) /\ ans.next = NoPages
    BY <2>1 DEF Answer
  <2>5. \A r \in ToSet(ans.list) :
           /\ TypeOf(r) = a.type /\ ~Foreign(r)
           /\ TypeOf(r) \notin ChildTypes => IdOf(r) \in Listed(TypeOf(r))
    BY <1>2, <1>p, <2>1, <2>3, <2>4 DEF Foreign, ArmTypes
  <2>6. ASSUME NEW i, Covers(a, t, i) PROVE <<t, i>> \in ToSet(ans.list)
    <3>1. /\ DOMAIN pages = 1 .. Len(pages) /\ Listed(t) = IdsOn(pages)
      BY <2>2, ListedTypes, ListingMembers
    <3>2. i \in Listed(t)
      BY <2>6, <3>1 DEF Covers, IdsOn
    <3> QED BY <2>1, <2>3, <2>4, <3>2
  <2> QED BY <1>e, <2>2, <2>3, <2>4, <2>5, <2>6
<1>3. CASE t \in ChildTypes
  <2>1. /\ ans = Answer(ans.list, NoPages)
        /\ ans.list \in Seq(Objects)
        /\ \A r \in ToSet(ans.list) : TypeOf(r) = t
        /\ a.parent # NoId => \A name \in NamesBelow(t, a.parent) :
             <<t, ChildId(t, name, a.parent)>> \in ToSet(ans.list)
    BY <1>3, ChildAnswer
  <2>2. ans.next = NoPages
    BY <2>1 DEF Answer
  <2>3. \A r \in ToSet(ans.list) : ~Foreign(r)
    BY <1>3, <2>1 DEF Foreign, ChildTypes
  <2> QED BY <1>3, <1>e, <2>1, <2>2, <2>3
<1>4. t \in GraphTypes \union ArmTypes \union ChildTypes
  BY <1>0, TypesKnown
<1> QED BY <1>1, <1>2, <1>3, <1>4

(* A listing action is one.                                                *)
LEMMA ListActions ==
  ASSUME NEW t \in ToSet(Types), NEW p \in Parents, p # NoId => t \in ChildTypes
  PROVE  /\ ListAction(t, p) \in Actions
         /\ IsListAction(ListAction(t, p))
         /\ ListAction(t, p).op = "resources" /\ ListAction(t, p).type = t
         /\ ListAction(t, p).pages = NoPages
<1>1. NoPages \in Seq(PageState)
  BY DEF NoPages
<1>2. NoId \in Ids
  BY DEF Ids
<1> QED BY <1>1, <1>2 DEF ListAction, Actions, IsListAction, Ops

(* A subscription's child types are those that have objects; no other      *)
(* resource has any.                                                       *)
LEMMA ChildrenOf ==
  ASSUME NEW r
  PROVE  /\ Children(r) \in Seq(ToSet(Types) \intersect ChildTypes)
         /\ TypeOf(r) = "subscription" =>
              ToSet(Children(r)) = ToSet(Types) \intersect ChildTypes
         /\ TypeOf(r) # "subscription" => Children(r) = <<>>
<1> DEFINE both == <<"resource_group", "role">>
           T == ToSet(Types) \intersect ChildTypes
<1>1. CASE TypeOf(r) = "subscription"
  <2>1. both \in Seq(ChildTypes) /\ ToSet(both) = ChildTypes
    BY DEF ToSet, ChildTypes
  <2>2. Children(r) = Only(both, ToSet(Types))
    BY <1>1 DEF Children
  <2> HIDE DEF both
  <2>3. Children(r) \in Seq(ChildTypes) /\ ToSet(Children(r)) = T
    BY <2>1, <2>2, OnlyMembers
  <2>4. Children(r) \in Seq(T)
    <3> DEFINE c == Children(r)
    <3> HIDE DEF c, T
    <3>1. c \in Seq(ChildTypes) /\ ToSet(c) = T
      BY <2>3 DEF c
    <3>2. \A n \in 1 .. Len(c) : c[n] \in T
      BY <3>1 DEF ToSet
    <3>3. c \in Seq(T)
      BY <3>1, <3>2
    <3> QED BY <3>3 DEF c
  <2> QED BY <1>1, <2>3, <2>4
<1>2. CASE TypeOf(r) # "subscription"
  BY <1>2 DEF Children
<1> QED BY <1>1, <1>2

(* For every subscription of an answer, PushChildren has an action for     *)
(* each child type.                                                        *)
LEMMA ChildrenPushed ==
  ASSUME NEW list \in Seq(Objects),
         \A r \in ToSet(list) : TypeOf(r) \notin ChildTypes => IdOf(r) \in Listed(TypeOf(r))
  PROVE  /\ PushChildren(list) \in Seq(Actions)
         /\ \A a \in ToSet(PushChildren(list)) :
              a.op = "resources" /\ IsListAction(a) /\ a.type # NoType
         /\ \A s : <<"subscription", s>> \in ToSet(list) =>
              \A t \in ToSet(Types) \intersect ChildTypes :
                ListAction(t, s) \in ToSet(PushChildren(list))
<1> DEFINE T == ToSet(Types) \intersect ChildTypes
           Fresh == {b \in Actions : b.op = "resources" /\ IsListAction(b) /\ b.type # NoType}
           each == [n \in DOMAIN list |-> ChildActions(list[n])]
<1>1. DOMAIN list = 1 .. Len(list) /\ Len(list) \in Nat
      /\ \A n \in 1 .. Len(list) : list[n] \in ToSet(list)
  BY DEF ToSet
<1>2. ASSUME NEW r \in ToSet(list)
      PROVE  /\ ChildActions(r) \in Seq(Fresh)
             /\ TypeOf(r) = "subscription" =>
                  \A t \in T : ListAction(t, IdOf(r)) \in ToSet(ChildActions(r))
  <2>1. CASE TypeOf(r) # "subscription"
    <3>1. Children(r) = <<>>
      BY <2>1, ChildrenOf
    <3>2. ChildActions(r) = <<>>
      BY <3>1 DEF ChildActions
    <3> QED BY <2>1, <3>2
  <2>2. CASE TypeOf(r) = "subscription"
    <3> DEFINE c == Children(r)
               s == IdOf(r)
               G == [t \in T |-> ListAction(t, s)]
               q == ChildActions(r)
    <3>1. c \in Seq(T) /\ ToSet(c) = T
      BY <2>2, ChildrenOf
    <3>2. s \in Parents
      BY <2>2 DEF Parents, ChildTypes
    <3>3. \A t \in T : G[t] = ListAction(t, s) /\ G[t] \in Fresh
      <4>1. ASSUME NEW t \in T
            PROVE  ListAction(t, s) \in Actions /\ IsListAction(ListAction(t, s))
                   /\ ListAction(t, s).op = "resources" /\ ListAction(t, s).type = t
        BY <3>2, ListActions
      <4>2. \A t \in T : t # NoType
        BY DEF NoType, ChildTypes
      <4> QED BY <4>1, <4>2
    <3> HIDE DEF Fresh, T, c
    <3>4. \A n \in DOMAIN c : c[n] \in T
      BY <3>1
    <3>5. /\ q = [n \in DOMAIN c |-> q[n]]
          /\ \A n \in DOMAIN c : q[n] = G[c[n]] /\ q[n] \in Fresh
      BY <3>3, <3>4 DEF ChildActions, c
    <3> HIDE DEF q, G
    <3>6. /\ q \in Seq(Fresh)
          /\ \A r2 \in ToSet(q) : \E i \in ToSet(c) : r2 = G[i]
          /\ \A i \in ToSet(c) : G[i] \in ToSet(q)
      BY <3>1, <3>5, Mapped
    <3> QED BY <3>1, <3>3, <3>6 DEF q
  <2> QED BY <2>1, <2>2
<1> HIDE DEF Fresh
<1>3. each \in Seq(Seq(Fresh)) /\ DOMAIN each = 1 .. Len(list)
      /\ \A n \in 1 .. Len(list) : each[n] = ChildActions(list[n])
  <2>1. \A n \in 1 .. Len(list) : each[n] \in Seq(Fresh)
    BY <1>1, <1>2
  <2>2. DOMAIN each = 1 .. Len(list) /\ each \in [1 .. Len(list) -> Seq(Fresh)]
    BY <1>1, <2>1
  <2> DEFINE U == Seq(Fresh)
  <2> HIDE DEF each, U
  <2>3. each \in [1 .. Len(list) -> U]
    BY <2>2 DEF U
  <2>4. each \in Seq(U)
    BY <1>1, <2>3, SeqDef
  <2>5. \A n \in 1 .. Len(list) : each[n] = ChildActions(list[n])
    BY <1>1 DEF each
  <2> QED BY <2>2, <2>4, <2>5 DEF U
<1>4. PushChildren(list) = FlattenSeq(each)
  BY DEF PushChildren
<1> HIDE DEF each
<1>5. /\ FlattenSeq(each) \in Seq(Fresh)
      /\ ToSet(FlattenSeq(each)) = UNION {ToSet(each[n]) : n \in DOMAIN each}
  BY <1>3, FlattenMembers
<1>6. PushChildren(list) \in Seq(Actions)
  BY <1>4, <1>5 DEF Fresh
<1>7. \A a \in ToSet(PushChildren(list)) :
         a.op = "resources" /\ IsListAction(a) /\ a.type # NoType
  <2>1. ToSet(PushChildren(list)) \subseteq Fresh
    BY <1>4, <1>5 DEF ToSet
  <2> QED BY <2>1 DEF Fresh
<1>8. ASSUME NEW s, <<"subscription", s>> \in ToSet(list), NEW t \in T
      PROVE  ListAction(t, s) \in ToSet(PushChildren(list))
  <2>1. PICK n \in 1 .. Len(list) : list[n] = <<"subscription", s>>
    BY <1>1, <1>8 DEF ToSet
  <2>2. ListAction(t, s) \in ToSet(ChildActions(list[n]))
    <3>1. TypeOf(<<"subscription", s>>) = "subscription" /\ IdOf(<<"subscription", s>>) = s
      BY DEF TypeOf, IdOf
    <3> QED BY <1>2, <1>8, <2>1, <3>1
  <2>3. ListAction(t, s) \in ToSet(each[n]) /\ n \in DOMAIN each
    BY <1>3, <2>2
  <2> QED BY <1>4, <1>5, <2>3
<1> QED BY <1>6, <1>7, <1>8

-----------------------------------------------------------------------------
(* What Grants answers *)

(* The pages that a bag of one listing comes to.                           *)
LEMMA ReadsOne ==
  ASSUME NEW l, NEW m, NEW x, NEW n
  PROVE  Reads(<<PageOf(l, m)>>, x, n) <=> l = x /\ m <= n
<1>1. DOMAIN <<PageOf(l, m)>> = {1} /\ <<PageOf(l, m)>>[1].listing = l
      /\ <<PageOf(l, m)>>[1].page = m
  BY DEF PageOf
<1> QED BY <1>1 DEF Reads

(* The pages that a bag of two listings comes to.                          *)
LEMMA ReadsTwo ==
  ASSUME NEW l, NEW m, NEW k, NEW j, NEW x, NEW n
  PROVE  Reads(<<PageOf(k, j), PageOf(l, m)>>, x, n) <=> (k = x /\ j <= n) \/ (l = x /\ m <= n)
<1> DEFINE b == <<PageOf(k, j), PageOf(l, m)>>
<1>1. DOMAIN b = {1, 2} /\ b[1].listing = k /\ b[1].page = j /\ b[2].listing = l /\ b[2].page = m
  BY DEF PageOf
<1> HIDE DEF b
<1>2. Reads(b, x, n) <=> (k = x /\ j <= n) \/ (l = x /\ m <= n)
  BY <1>1 DEF Reads
<1> QED BY <1>2 DEF b

(* The bag of a group: its owners alone, or below its members.             *)
LEMMA GroupBags ==
  ASSUME NEW g \in Listed("group"), NEW bag, GroupPlace(bag, g)
  PROVE  \/ \E m \in 1 .. Len(LinkPages["members"][g]) :
              GroupBag(bag) = <<PageOf("owners", 1), PageOf("members", m)>>
         \/ \E m \in 1 .. Len(LinkPages["owners"][g]) : GroupBag(bag) = <<PageOf("owners", m)>>
<1>1. Push(Push(NoPages, "owners"), "members") = <<PageOf("owners", 1), PageOf("members", 1)>>
  BY Pushed
<1>2. 1 \in 1 .. Len(LinkPages["members"][g])
  BY LinkPagesTyped
<1>3. CASE bag = NoPages
  BY <1>1, <1>2, <1>3 DEF GroupBag
<1>4. CASE bag # NoPages
  BY <1>4 DEF GroupBag, GroupPlace
<1> QED BY <1>3, <1>4

\* The link that getGroupGrants keeps after page m.
LinkOf(page, m, len) == IF ShortPage(page) THEN NoLink ELSE LinkAfter(m, len)

(* The link that getGroupGrants keeps leads to the next page; a page that  *)
(* is followed by another one has a link if it has more than 50 entries.   *)
LEMMA Links ==
  ASSUME NEW l \in {"owners", "members"}, NEW g \in Listed("group"),
         NEW m \in 1 .. Len(LinkPages[l][g])
  PROVE  LET len == Len(LinkPages[l][g])
             link == LinkOf(LinkPages[l][g][m], m, len)
         IN /\ link \in Nat
            /\ link # NoLink => link = m + 1 /\ link \in 1 .. len
            /\ PagesAreFull => \A n \in 1 .. len : m <= n /\ n # m => link # NoLink /\ link <= n
<1> DEFINE len == Len(LinkPages[l][g])
           short == ShortPage(LinkPages[l][g][m])
           link == LinkOf(LinkPages[l][g][m], m, len)
<1>1. len \in Nat \ {0}
  BY LinkPagesTyped
<1>2. link = IF short THEN 0 ELSE IF m < len THEN m + 1 ELSE 0
  BY DEF LinkOf, LinkAfter, NoLink
<1>3. PagesAreFull => (m \in 1 .. len - 1 => ~short)
  BY DEF PagesAreFull
<1> HIDE DEF len, short, link
<1>4. m \in 1 .. len
  BY DEF len
<1>5. link \in Nat /\ (link # NoLink => link = m + 1 /\ link \in 1 .. len)
  BY <1>1, <1>2, <1>4 DEF NoLink
<1>6. ASSUME PagesAreFull, NEW n \in 1 .. len, m <= n, n # m PROVE link # NoLink /\ link <= n
  <2>1. m \in 1 .. len - 1 /\ m < len
    BY <1>1, <1>4, <1>6
  <2>2. link = m + 1 /\ m + 1 # 0 /\ m + 1 <= n
    BY <1>2, <1>3, <1>4, <1>6, <2>1
  <2> QED BY <2>2 DEF NoLink
<1> QED BY <1>5, <1>6 DEF len, link

(* What groupBuilder.Grants leaves out of what its bag comes to, the next  *)
(* bag comes to: changing from members to owners and from page to page     *)
(* loses no link.                                                          *)
LEMMA GroupAnswer ==
  ASSUME NEW g \in Listed("group"), NEW bag, GroupPlace(bag, g)
  PROVE  LET ans == GroupGrants(<<"group", g>>, bag) IN
         /\ \A x \in ans.list :
              x.on = <<"group", g>> /\ x.slug \in {"owners", "members"} /\ x.who \in Principals
         /\ ans.next \in Seq(PageState)
         /\ ans.next # NoPages => GroupPlace(ans.next, g)
         /\ PagesAreFull =>
              \A l \in {"owners", "members"} : \A n \in 1 .. Len(LinkPages[l][g]) :
                \A p \in LinkPages[l][g][n].who :
                  Granted(l, p) /\ Reads(GroupBag(bag), l, n) =>
                    \/ Grant(<<"group", g>>, l, p) \in ans.list
                    \/ ans.next # NoPages /\ Reads(GroupBag(ans.next), l, n)
<1> DEFINE r == <<"group", g>>
           ans == GroupGrants(r, bag)
           b == GroupBag(bag)
<1>1. IdOf(r) = g
  BY DEF IdOf
<1>2. \A l, m : PageOf(l, m).listing = l /\ PageOf(l, m).page = m
  BY DEF PageOf
<1>3. \A l \in {"owners", "members"} : \A m \in Nat : PageOf(l, m) \in PageState
  BY DEF PageOf, PageState, Listings
<1>4. \A l \in {"owners", "members"} : Len(LinkPages[l][g]) \in Nat \ {0}
        /\ \A m \in 1 .. Len(LinkPages[l][g]) : LinkPages[l][g][m] \in PrincipalPage
  BY LinkPagesTyped
<1>5. ASSUME NEW l \in {"owners", "members"}, NEW m \in 1 .. Len(LinkPages[l][g]),
             Top(b) = PageOf(l, m)
      PROVE  LET page == LinkPages[l][g][m]
             IN /\ ans.list = {Grant(r, l, p) : p \in {q \in page.who : Granted(l, q)}}
                /\ ans.next = NextToken(b, LinkOf(page, m, Len(LinkPages[l][g])))
                /\ \A x \in ans.list : x.on = r /\ x.slug = l /\ x.who \in Principals
  <2> DEFINE page == LinkPages[l][g][m]
  <2>1. ans = Answer({Grant(r, l, p) : p \in {q \in page.who : Granted(l, q)}},
                     NextToken(b, LinkOf(page, m, Len(LinkPages[l][g]))))
    <3> HIDE DEF r
    <3> QED BY <1>1, <1>2, <1>5 DEF GroupGrants, LinkOf
  <2>2. /\ ans.list = {Grant(r, l, p) : p \in {q \in page.who : Granted(l, q)}}
        /\ ans.next = NextToken(b, LinkOf(page, m, Len(LinkPages[l][g])))
    BY <2>1 DEF Answer
  <2>3. page.who \subseteq Principals
    BY <1>4 DEF PrincipalPage
  <2>4. \A p : Grant(r, l, p).on = r /\ Grant(r, l, p).slug = l /\ Grant(r, l, p).who = p
    BY DEF Grant
  <2>5. \A x \in ans.list : x.on = r /\ x.slug = l /\ x.who \in Principals
    <3> HIDE DEF ans, page, r
    <3> QED BY <2>2, <2>3, <2>4
  <2> QED BY <2>2, <2>5
<1> HIDE DEF ans, b
<1>6. ASSUME NEW m \in 1 .. Len(LinkPages["members"][g]),
             b = <<PageOf("owners", 1), PageOf("members", m)>>
      PROVE  /\ \A x \in ans.list : x.on = r /\ x.slug = "members" /\ x.who \in Principals
             /\ ans.next \in Seq(PageState) /\ GroupPlace(ans.next, g) /\ ans.next # NoPages
             /\ PagesAreFull =>
              \A l \in {"owners", "members"} : \A n \in 1 .. Len(LinkPages[l][g]) :
                \A p \in LinkPages[l][g][n].who :
                  Granted(l, p) /\ Reads(b, l, n) =>
                    \/ Grant(r, l, p) \in ans.list
                    \/ Reads(GroupBag(ans.next), l, n)
  <2> DEFINE len == Len(LinkPages["members"][g])
             page == LinkPages["members"][g][m]
             link == LinkOf(page, m, len)
  <2>0. m \in Nat /\ 1 \in 1 .. Len(LinkPages["owners"][g])
    BY <1>4
  <2>1. link \in Nat /\ (link # NoLink => link = m + 1 /\ link \in 1 .. len)
        /\ (PagesAreFull => \A n \in 1 .. len : m <= n /\ n # m => link # NoLink /\ link <= n)
    BY Links
  <2> HIDE DEF link
  <2>2. Top(b) = PageOf("members", m)
        /\ NextToken(b, link) = IF link = NoLink THEN <<PageOf("owners", 1)>>
                                ELSE <<PageOf("owners", 1), PageOf("members", link)>>
    <3>1. 1 \in Nat
      OBVIOUS
    <3>2. Top(<<PageOf("owners", 1), PageOf("members", m)>>) = PageOf("members", m)
          /\ NextToken(<<PageOf("owners", 1), PageOf("members", m)>>, link) =
               IF link = NoLink THEN <<PageOf("owners", 1)>>
               ELSE <<PageOf("owners", 1), PageOf("members", link)>>
      BY <2>0, <2>1, <3>1, TwoPages
    <3> QED BY <1>6, <3>2
  <2>3. /\ ans.list = {Grant(r, "members", p) : p \in {q \in page.who : Granted("members", q)}}
        /\ ans.next = NextToken(b, link)
        /\ \A x \in ans.list : x.on = r /\ x.slug = "members" /\ x.who \in Principals
    BY <1>5, <2>2 DEF link
  <2>4. /\ ans.next \in Seq(PageState) /\ GroupPlace(ans.next, g) /\ ans.next # NoPages
        /\ GroupBag(ans.next) = ans.next
    <3>1. CASE link = NoLink
      <4>1. ans.next = <<PageOf("owners", 1)>>
        BY <2>2, <2>3, <3>1
      <4>2. ans.next \in Seq(PageState) /\ ans.next # NoPages
        BY <1>3, <4>1 DEF NoPages
      <4>3. GroupPlace(ans.next, g)
        BY <2>0, <4>1 DEF GroupPlace
      <4> QED BY <4>2, <4>3 DEF GroupBag
    <3>2. CASE link # NoLink
      <4>1. ans.next = <<PageOf("owners", 1), PageOf("members", link)>>
        BY <2>2, <2>3, <3>2
      <4>2. ans.next \in Seq(PageState) /\ ans.next # NoPages
        BY <1>3, <2>1, <4>1 DEF NoPages
      <4>3. GroupPlace(ans.next, g)
        BY <2>1, <3>2, <4>1 DEF GroupPlace
      <4> QED BY <4>2, <4>3 DEF GroupBag
    <3> QED BY <3>1, <3>2
  <2>5. ASSUME PagesAreFull, NEW l \in {"owners", "members"}, NEW n \in 1 .. Len(LinkPages[l][g]),
               NEW p \in LinkPages[l][g][n].who, Granted(l, p), Reads(b, l, n)
        PROVE  \/ Grant(r, l, p) \in ans.list
               \/ Reads(ans.next, l, n)
    <3>1. ("owners" = l /\ 1 <= n) \/ ("members" = l /\ m <= n)
      BY <1>6, <2>5, ReadsTwo
    <3>2. CASE l = "owners"
      <4>1. 1 <= n
        BY <1>4
      <4>2. Reads(<<PageOf("owners", 1)>>, l, n)
            /\ Reads(<<PageOf("owners", 1), PageOf("members", link)>>, l, n)
        BY <3>2, <4>1, ReadsOne, ReadsTwo
      <4> QED BY <2>2, <2>3, <4>2
    <3>3. CASE l = "members" /\ n = m
      BY <2>3, <2>5, <3>3
    <3>4. CASE l = "members" /\ n # m
      <4>1. m <= n /\ n \in 1 .. len
        BY <3>1, <3>4
      <4>2. link # NoLink /\ link <= n
        BY <2>1, <2>5, <3>4, <4>1
      <4>3. Reads(<<PageOf("owners", 1), PageOf("members", link)>>, l, n)
        BY <3>4, <4>2, ReadsTwo
      <4> QED BY <2>2, <2>3, <4>2, <4>3
    <3> QED BY <3>2, <3>3, <3>4
  <2> QED BY <2>3, <2>4, <2>5
<1>7. ASSUME NEW m \in 1 .. Len(LinkPages["owners"][g]), b = <<PageOf("owners", m)>>
      PROVE  /\ \A x \in ans.list : x.on = r /\ x.slug = "owners" /\ x.who \in Principals
             /\ ans.next \in Seq(PageState)
             /\ ans.next # NoPages => GroupPlace(ans.next, g)
             /\ PagesAreFull =>
              \A l \in {"owners", "members"} : \A n \in 1 .. Len(LinkPages[l][g]) :
                \A p \in LinkPages[l][g][n].who :
                  Granted(l, p) /\ Reads(b, l, n) =>
                    \/ Grant(r, l, p) \in ans.list
                    \/ ans.next # NoPages /\ Reads(GroupBag(ans.next), l, n)
  <2> DEFINE len == Len(LinkPages["owners"][g])
             page == LinkPages["owners"][g][m]
             link == LinkOf(page, m, len)
  <2>0. m \in Nat
    BY <1>4
  <2>1. link \in Nat /\ (link # NoLink => link = m + 1 /\ link \in 1 .. len)
        /\ (PagesAreFull => \A n \in 1 .. len : m <= n /\ n # m => link # NoLink /\ link <= n)
    BY Links
  <2> HIDE DEF link
  <2>2. Top(b) = PageOf("owners", m)
        /\ NextToken(b, link) = IF link = NoLink THEN NoPages ELSE <<PageOf("owners", link)>>
    BY <1>7, <2>0, <2>1, OnePage
  <2>3. /\ ans.list = {Grant(r, "owners", p) : p \in {q \in page.who : Granted("owners", q)}}
        /\ ans.next = NextToken(b, link)
        /\ \A x \in ans.list : x.on = r /\ x.slug = "owners" /\ x.who \in Principals
    BY <1>5, <2>2 DEF link
  <2>4. /\ ans.next \in Seq(PageState)
        /\ ans.next # NoPages => GroupPlace(ans.next, g) /\ GroupBag(ans.next) = ans.next
        /\ link # NoLink => ans.next # NoPages /\ ans.next = <<PageOf("owners", link)>>
    <3>1. CASE link = NoLink
      <4>1. ans.next = NoPages
        BY <2>2, <2>3, <3>1
      <4> QED BY <3>1, <4>1 DEF NoPages
    <3>2. CASE link # NoLink
      <4>1. ans.next = <<PageOf("owners", link)>>
        BY <2>2, <2>3, <3>2
      <4>2. ans.next \in Seq(PageState) /\ ans.next # NoPages
        BY <1>3, <2>1, <4>1 DEF NoPages
      <4>3. GroupPlace(ans.next, g)
        BY <2>1, <3>2, <4>1 DEF GroupPlace
      <4> QED BY <4>1, <4>2, <4>3 DEF GroupBag
    <3> QED BY <3>1, <3>2
  <2>5. ASSUME PagesAreFull, NEW l \in {"owners", "members"}, NEW n \in 1 .. Len(LinkPages[l][g]),
               NEW p \in LinkPages[l][g][n].who, Granted(l, p), Reads(b, l, n)
        PROVE  \/ Grant(r, l, p) \in ans.list
               \/ ans.next # NoPages /\ Reads(ans.next, l, n)
    <3>1. l = "owners" /\ m <= n
      BY <1>7, <2>5, ReadsOne
    <3>2. CASE n = m
      BY <2>3, <2>5, <3>1, <3>2
    <3>3. CASE n # m
      <4>1. link # NoLink /\ link <= n
        BY <2>1, <2>5, <3>1, <3>3
      <4>2. Reads(<<PageOf("owners", link)>>, l, n)
        BY <3>1, <4>1, ReadsOne
      <4> QED BY <2>4, <4>1, <4>2
    <3> QED BY <3>2, <3>3
  <2> QED BY <2>3, <2>4, <2>5
<1>8. \/ \E m \in 1 .. Len(LinkPages["members"][g]) :
           b = <<PageOf("owners", 1), PageOf("members", m)>>
      \/ \E m \in 1 .. Len(LinkPages["owners"][g]) : b = <<PageOf("owners", m)>>
  BY GroupBags DEF b
<1>9. CASE \E m \in 1 .. Len(LinkPages["members"][g]) :
           b = <<PageOf("owners", 1), PageOf("members", m)>>
  <2> HIDE DEF r
  <2> QED BY <1>6, <1>9 DEF b, ans, r
<1>10. CASE \E m \in 1 .. Len(LinkPages["owners"][g]) : b = <<PageOf("owners", m)>>
  <2> HIDE DEF r
  <2> QED BY <1>7, <1>10 DEF b, ans, r
<1> QED BY <1>8, <1>9, <1>10

(* What Grants answers for a resource of the store: grants on it, of       *)
(* entitlements that it has (but for roles of applications that            *)
(* Entitlements leaves out); and what is left, by type.                    *)
LEMMA GrantsAnswer ==
  ASSUME NEW a \in Actions, NEW st, StoreOK(st), IsEachAction(a, st), a.op = "grants"
  PROVE  LET r == <<a.type, a.id>>
             ans == ListGrants(r, a.pages)
         IN /\ \A x \in ans.list :
                 /\ x.on = r /\ x.who \in Principals
                 /\ \/ <<r, x.slug>> \in ListEntitlements(r)
                    \/ TypeOf(r) = "enterprise_application" /\ x.slug \notin Slugs(r)
            /\ ans.next \in Seq(PageState)
            /\ ans.next # NoPages => IsEachAction(Moved(a, ans.next), st)
            /\ a.type = "enterprise_application" =>
                 /\ ans.next = NoPages
                 /\ \A x \in Assigned[a.id] : Grant(r, x[2], x[1]) \in ans.list
            /\ PagesAreFull /\ a.type = "group" =>
                 \A l \in {"owners", "members"} : \A n \in 1 .. Len(LinkPages[l][a.id]) :
                   \A p \in LinkPages[l][a.id][n].who :
                     Granted(l, p) /\ Reads(GroupBag(a.pages), l, n) =>
                       \/ Grant(r, l, p) \in ans.list
                       \/ ans.next # NoPages /\ Reads(GroupBag(ans.next), l, n)
<1> DEFINE r == <<a.type, a.id>>
           ans == ListGrants(r, a.pages)
<1>1. TypeOf(r) = a.type /\ IdOf(r) = a.id
  BY DEF TypeOf, IdOf
<1>2. r \in In(st) /\ ~Foreign(r) /\ (TypeOf(r) \notin ChildTypes => IdOf(r) \in Listed(TypeOf(r)))
  BY DEF IsEachAction, StoreOK
<1>e. NoPages \in Seq(PageState)
  BY DEF NoPages
<1>3. CASE a.type = "group"
  <2>1. a.id \in Listed("group")
    BY <1>1, <1>2, <1>3 DEF ChildTypes
  <2>2. GroupPlace(a.pages, a.id)
    BY DEF IsEachAction, GroupPlace
  <2>3. ans = GroupGrants(<<"group", a.id>>, a.pages) /\ r = <<"group", a.id>>
    BY <1>1, <1>3, GrantsByType
  <2>4. /\ \A x \in ans.list :
             x.on = <<"group", a.id>> /\ x.slug \in {"owners", "members"} /\ x.who \in Principals
        /\ ans.next \in Seq(PageState)
        /\ ans.next # NoPages => GroupPlace(ans.next, a.id)
        /\ PagesAreFull =>
             \A l \in {"owners", "members"} : \A n \in 1 .. Len(LinkPages[l][a.id]) :
               \A p \in LinkPages[l][a.id][n].who :
                 Granted(l, p) /\ Reads(GroupBag(a.pages), l, n) =>
                   \/ Grant(<<"group", a.id>>, l, p) \in ans.list
                   \/ ans.next # NoPages /\ Reads(GroupBag(ans.next), l, n)
    <3> DEFINE g == a.id
               bag == a.pages
    <3> HIDE DEF g, bag, ans
    <3>1. LET ga == GroupGrants(<<"group", g>>, bag) IN
          /\ \A x \in ga.list :
               x.on = <<"group", g>> /\ x.slug \in {"owners", "members"} /\ x.who \in Principals
          /\ ga.next \in Seq(PageState)
          /\ ga.next # NoPages => GroupPlace(ga.next, g)
          /\ PagesAreFull =>
               \A l \in {"owners", "members"} : \A n \in 1 .. Len(LinkPages[l][g]) :
                 \A p \in LinkPages[l][g][n].who :
                   Granted(l, p) /\ Reads(GroupBag(bag), l, n) =>
                     \/ Grant(<<"group", g>>, l, p) \in ga.list
                     \/ ga.next # NoPages /\ Reads(GroupBag(ga.next), l, n)
      <4>1. g \in Listed("group") /\ GroupPlace(bag, g)
        BY <2>1, <2>2 DEF g, bag
      <4> QED BY <4>1, GroupAnswer
    <3>2. ans = GroupGrants(<<"group", g>>, bag)
      BY <2>3 DEF g, bag
    <3> QED BY <3>1, <3>2 DEF g, bag
  <2>5. \A slug \in {"owners", "members"} : <<r, slug>> \in ListEntitlements(r)
    BY <1>1, <1>3, GroupSlugs DEF ListEntitlements
  <2>6. ASSUME ans.next # NoPages PROVE IsEachAction(Moved(a, ans.next), st)
    <3> DEFINE next == ans.next
    <3>1. /\ Moved(a, next).op = a.op /\ Moved(a, next).type = a.type
          /\ Moved(a, next).id = a.id /\ Moved(a, next).parent = a.parent
          /\ Moved(a, next).pages = next
      BY <2>4, MovedAction
    <3>2. GroupPlace(next, a.id)
      BY <2>4, <2>6
    <3> HIDE DEF next
    <3> QED BY <1>3, <3>1, <3>2 DEF IsEachAction, next
  <2> HIDE DEF ans
  <2> QED BY <1>3, <2>3, <2>4, <2>5, <2>6 DEF ans
<1>4. CASE a.type = "enterprise_application"
  <2>1. a.pages = NoPages
    BY <1>4 DEF IsEachAction
  <2>2. ans = Answer({Grant(r, x[2], x[1]) : x \in Assigned[a.id]}, NoPages)
    BY <1>1, <1>4, <2>1, GrantsByType, AppAnswer
  <2>3. ans.list = {Grant(r, x[2], x[1]) : x \in Assigned[a.id]} /\ ans.next = NoPages
    BY <2>2 DEF Answer
  <2>4. a.id \in OwnedApps
    BY <1>1, <1>2, <1>4 DEF Foreign
  <2>5. \A x \in Assigned[a.id] : x[1] \in Principals
    BY <2>4, BuildersAssumption
  <2>6. \A s, p : Grant(r, s, p).on = r /\ Grant(r, s, p).slug = s /\ Grant(r, s, p).who = p
    BY DEF Grant
  <2> HIDE DEF ans, r
  <2>7. \A x \in ans.list : x.on = r /\ x.who \in Principals
    BY <2>3, <2>5, <2>6
  <2>8. \A x \in ans.list : x.slug \in Slugs(r) => <<r, x.slug>> \in ListEntitlements(r)
    BY DEF ListEntitlements
  <2>9. \A x \in Assigned[a.id] : Grant(r, x[2], x[1]) \in ans.list
    BY <2>3
  <2>10. a.type # "group"
    BY <1>4
  <2>11. TypeOf(r) = "enterprise_application"
    BY <1>1, <1>4 DEF r
  <2> QED BY <1>e, <2>3, <2>7, <2>8, <2>9, <2>10, <2>11 DEF ans, r
<1>5. CASE a.type \notin {"group", "enterprise_application"}
  <2>1. ans = Answer({}, NoPages)
    BY <1>1, <1>5, GrantsByType
  <2>2. ans.list = {} /\ ans.next = NoPages
    BY <2>1 DEF Answer
  <2> HIDE DEF ans
  <2> QED BY <1>5, <1>e, <2>2 DEF ans
<1> QED BY <1>3, <1>4, <1>5

\* What Advance puts in the place of the top.
NextPlace(next) == IF next = NoPages THEN <<>> ELSE <<Moved(Current, next)>>

(* Advancing replaces the top by its next place, or by nothing.            *)
LEMMA AdvancedStack ==
  ASSUME stack \in Seq(Actions), stack # NoAction, NEW next \in Seq(PageState)
  PROVE  /\ Current = Top(stack) /\ Popped = Rest(stack) /\ Current \in Actions
         /\ Current \in ToSet(stack)
         /\ NextPlace(next) \in Seq(Actions)
         /\ ToSet(NextPlace(next)) = IF next = NoPages THEN {} ELSE {Moved(Current, next)}
         /\ Advanced(next) = Rest(stack) \o NextPlace(next)
<1>1. Current = Top(stack) /\ Popped = Rest(stack)
  BY DEF Current, Popped, Top, Rest
<1>2. Current \in Actions /\ Current \in ToSet(stack) /\ Popped \in Seq(Actions)
  BY <1>1, SeqParts DEF NoAction
<1>3. Moved(Current, next) \in Actions
  BY <1>2, MovedAction
<1>4. CASE next = NoPages
  <2>1. NextPlace(next) = <<>> /\ Advanced(next) = Popped
    BY <1>4 DEF NextPlace, Advanced
  <2>2. Popped \o <<>> = Popped /\ <<>> \in Seq(Actions)
    BY <1>2, ConcatEmptySeq
  <2>3. ToSet(<<>>) = {}
    BY DEF ToSet
  <2> QED BY <1>1, <1>2, <1>4, <2>1, <2>2, <2>3
<1>5. CASE next # NoPages
  <2> DEFINE x == Moved(Current, next)
  <2>1. NextPlace(next) = <<x>> /\ Advanced(next) = Append(Popped, x)
    BY <1>5 DEF NextPlace, Advanced, Moved
  <2> HIDE DEF x
  <2>2. Append(Popped, x) = Popped \o <<x>> /\ <<x>> \in Seq(Actions)
    BY <1>2, <1>3, AppendIsConcat DEF x
  <2>3. ToSet(<<x>>) = {x}
    BY DEF ToSet
  <2> QED BY <1>1, <1>2, <1>5, <2>1, <2>2, <2>3 DEF x
<1> QED BY <1>4, <1>5

-----------------------------------------------------------------------------
(* The invariant at the beginning, and an iteration that goes on *)

(* A root is an action.                                                    *)
LEMMA Roots ==
  ASSUME NEW op \in Ops
  PROVE  /\ RootAction(op) \in Actions
         /\ RootAction(op).op = op /\ RootAction(op).type = NoType /\ RootAction(op).id = NoId
         /\ \A st : ActionOK(RootAction(op), st)
<1>1. NoPages \in Seq(PageState) /\ NoId \in Ids /\ NoId \in Parents
  BY DEF NoPages, Ids, Parents
<1>2. RootAction(op) \in Actions /\ RootAction(op).op = op /\ RootAction(op).type = NoType
      /\ RootAction(op).id = NoId
  BY <1>1 DEF RootAction, ActionOn, Actions
<1> QED BY <1>2 DEF ActionOK

(* The stack that a run begins with owes everything.                       *)
LEMMA FreshStack ==
  ASSUME NEW st, NEW gn
  PROVE  LET s == <<RootAction("init")>> IN
         StackOK(s, st) /\ AllDue(ToSet(s), st, gn) /\ Ahead(ToSet(s))
<1> DEFINE x == RootAction("init")
           s == <<x>>
<1>1. x \in Actions /\ x.op = "init" /\ ActionOK(x, st)
  BY Roots DEF Ops
<1>2. x = RootAction("init")
  OBVIOUS
<1> HIDE DEF x
<1>3. s \in Seq(Actions) /\ Len(s) = 1 /\ s[1] = x /\ ToSet(s) = {x}
  BY <1>1 DEF ToSet
<1> HIDE DEF s
<1>4. \A n \in 1 .. Len(s) : s[n] = x
  BY <1>3
<1>5. InOrder(s)
  BY <1>4, RankNat DEF InOrder
<1>6. InitAlone(s)
  BY <1>2, <1>3, <1>4 DEF InitAlone
<1>7. PhasesAhead(ToSet(s))
  BY <1>1, <1>3 DEF PhasesAhead
<1>8. StackOK(s, st)
  BY <1>1, <1>3, <1>5, <1>6, <1>7 DEF StackOK
<1>9. Begun(ToSet(s))
  BY <1>2, <1>3 DEF Begun
<1>10. AllDue(ToSet(s), st, gn)
  BY <1>9 DEF AllDue, ResourcesDue, EntitlementsDue, AssignmentsDue, LinksDue
<1> QED BY <1>8, <1>9, <1>10 DEF Ahead, s, x

(* The empty store has nothing, so nothing is due on it but what init      *)
(* owes.                                                                   *)
LEMMA EmptyStoreOK ==
  /\ StoreOK(EmptyStore) /\ In(EmptyStore) = {}
  /\ \A A : ChildrenDue(A, EmptyStore)
<1>1. EmptyStore.resources = <<>> /\ EmptyStore.grants = {}
  BY DEF EmptyStore
<1>2. In(EmptyStore) = {}
  BY <1>1 DEF In, ToSet
<1>3. <<>> \in Seq(Objects)
  OBVIOUS
<1>4. EmptyStore = [resources |-> EmptyStore.resources, entitlements |-> EmptyStore.entitlements,
                    grants |-> EmptyStore.grants]
  BY DEF EmptyStore
<1> QED BY <1>1, <1>2, <1>3, <1>4 DEF StoreOK, ChildrenDue

(* An empty file is in order.                                              *)
LEMMA EmptyFileOK ==
  ASSUME NEW gn
  PROVE  /\ EmptyFile =
              [token |-> EmptyFile.token, store |-> EmptyFile.store, open |-> EmptyFile.open]
         /\ StoreOK(EmptyFile.store)
         /\ StackOK(Saved(EmptyFile.token), EmptyFile.store)
         /\ AllDue(ToSet(Saved(EmptyFile.token)), EmptyFile.store, gn)
<1>1. EmptyFile.token = NoAction /\ EmptyFile.store = EmptyStore
  BY DEF EmptyFile
<1>2. Saved(NoAction) = <<RootAction("init")>>
  BY DEF Saved
<1>3. EmptyFile = [token |-> EmptyFile.token, store |-> EmptyFile.store, open |-> EmptyFile.open]
  BY DEF EmptyFile
<1> QED BY <1>1, <1>2, <1>3, FreshStack, EmptyStoreOK

(* The invariant holds at the beginning.                                   *)
LEMMA InitInv == Init => IInv
<1> SUFFICES ASSUME Init PROVE IInv
  OBVIOUS
<1> USE DEF Init
<1>1. RestOK
  <2>1. running \in BOOLEAN /\ fresh \in BOOLEAN /\ resumed \in BOOLEAN /\ ~running
    OBVIOUS
  <2>2. warnings \in 0 .. WarningLimit + 1 /\ faults \in 0 .. MaxFaults
    BY SyncRunAssumption
  <2>3. cache \subseteq OwnedApps /\ gone \subseteq Listed("group")
    OBVIOUS
  <2>4. outcome \in {"none", "done", "failed", "panic"}
    OBVIOUS
  <2> QED BY <2>1, <2>2, <2>3, <2>4 DEF RestOK
<1>2. StoreOK(store)
  BY EmptyStoreOK
<1>3. FileOK
  BY EmptyFileOK DEF FileOK
<1>4. StackOK(stack, store)
  <2>1. stack \in Seq(Actions) /\ Len(stack) = 0 /\ ToSet(stack) = {}
    BY DEF NoAction, ToSet
  <2> QED BY <2>1 DEF StackOK, InOrder, InitAlone, PhasesAhead
<1>5. StackInv
  BY <1>4 DEF StackInv
<1>6. TokenOK
  <2>1. Saved(token) = <<RootAction("init")>>
    BY DEF Saved
  <2> QED BY <2>1, FreshStack DEF TokenOK, Behind
<1> QED BY <1>1, <1>2, <1>3, <1>5, <1>6 DEF IInv

(* An iteration that goes on: the top of the stack gives way to others of  *)
(* its phase, and the store grows. The token may be the old one or the     *)
(* stack before the step; both stay behind.                                *)
LEMMA IterationStep ==
  ASSUME IInv, running, stack # NoAction, Current.op # "init", Checkpoint, GoOn,
         NEW L \in Seq(Actions), stack' = Rest(stack) \o L,
         \A a \in ToSet(L) : a.op = Current.op /\ ActionOK(a, store') /\ a.type # NoType,
         StoreOK(store'), Grows(store, store'),
         In(store') # In(store) => Current.op = "resources",
         cache' \subseteq OwnedApps, warnings' \in 0 .. WarningLimit + 1,
         AllDue(ToSet(Rest(stack)) \union ToSet(L), store', gone),
         ~resumed => ChildrenDue(ToSet(Rest(stack)) \union ToSet(L), store')
  PROVE  IInv'
<1>1. Current = Top(stack)
  BY DEF Current, Top
<1>2. StackOK(stack, store) /\ AllDue(ToSet(stack), store, gone)
  BY DEF IInv, StackInv
<1>3. In(store) \subseteq In(store')
  BY DEF Grows
<1>4. /\ StackOK(stack', store')
      /\ ToSet(stack') = ToSet(Rest(stack)) \union ToSet(L)
      /\ ToSet(stack) = ToSet(Rest(stack)) \union {Top(stack)}
  <2> DEFINE s == stack
             st == store
             st2 == store'
  <2>1. s # <<>> /\ Top(s).op # "init" /\ StackOK(s, st) /\ In(st) \subseteq In(st2)
    BY <1>1, <1>2, <1>3 DEF NoAction
  <2>2. \A a \in ToSet(L) : a.op = Top(s).op /\ ActionOK(a, st2)
    BY <1>1
  <2> HIDE DEF s, st, st2
  <2>3. /\ StackOK(Rest(s) \o L, st2)
        /\ ToSet(Rest(s) \o L) = ToSet(Rest(s)) \union ToSet(L)
        /\ ToSet(s) = ToSet(Rest(s)) \union {Top(s)}
    BY <2>1, <2>2, StackStep
  <2> QED BY <2>3 DEF s, st2
<1>5. In(store') # In(store) => Ahead(ToSet(stack))
  BY <1>1, <1>2, AheadOfResources
<1>6. token' \in {token, stack} /\ fresh' = FALSE
  BY DEF Checkpoint
<1>7. /\ StackOK(Saved(token'), store')
      /\ AllDue(ToSet(Saved(token')), store', gone)
      /\ Behind(stack, token')
  <2>1. StackOK(Saved(token), store) /\ AllDue(ToSet(Saved(token)), store, gone)
        /\ Behind(stack, token)
    BY DEF IInv, TokenOK
  <2> QED BY <1>2, <1>5, <1>6, <2>1, SavedToken
<1>8. Behind(stack', token')
  <2>1. \A op : RootAction(op) \notin ToSet(L)
    BY DEF RootAction, ActionOn
  <2> QED BY <1>4, <1>7, <2>1, StaysBehind
<1>9. RestOK'
  BY <1>6 DEF IInv, RestOK, GoOn
<1>10. FileOK'
  BY DEF IInv, FileOK, GoOn
<1>11. TokenOK'
  BY <1>7, <1>8 DEF TokenOK, GoOn
<1>12. StackInv'
  BY <1>4 DEF StackInv, GoOn
<1> QED BY <1>9, <1>10, <1>11, <1>12 DEF IInv

(* What the invariant says of the action that is handled.                  *)
LEMMA Handling ==
  ASSUME IInv, running, stack # NoAction
  PROVE  /\ Current = Top(stack) /\ Popped = Rest(stack)
         /\ Current \in Actions /\ Current \in ToSet(stack) /\ ActionOK(Current, store)
         /\ stack \in Seq(Actions) /\ Rest(stack) \in Seq(Actions)
         /\ ToSet(stack) = ToSet(Rest(stack)) \union {Current}
         /\ ToSet(stack) \subseteq ToSet(Rest(stack)) \union {Current}
         /\ StackOK(stack, store) /\ StoreOK(store)
         /\ ResourcesDue(ToSet(stack), store, gone) /\ EntitlementsDue(ToSet(stack), store)
         /\ AssignmentsDue(ToSet(stack), store)
         /\ PagesAreFull => LinksDue(ToSet(stack), store, gone)
         /\ ~resumed => ChildrenDue(ToSet(stack), store)
         /\ cache \subseteq OwnedApps /\ warnings \in 0 .. WarningLimit + 1
<1>1. StackOK(stack, store) /\ StoreOK(store) /\ AllDue(ToSet(stack), store, gone)
      /\ (~resumed => ChildrenDue(ToSet(stack), store))
      /\ cache \subseteq OwnedApps /\ warnings \in 0 .. WarningLimit + 1
  BY DEF IInv, StackInv, RestOK
<1>2. stack \in Seq(Actions) /\ \A a \in ToSet(stack) : ActionOK(a, store)
  BY <1>1 DEF StackOK
<1>3. NoPages \in Seq(PageState)
  BY DEF NoPages
<1>4. Current = Top(stack) /\ Popped = Rest(stack) /\ Current \in Actions
      /\ Current \in ToSet(stack)
  BY <1>2, <1>3, AdvancedStack
<1>5. Rest(stack) \in Seq(Actions) /\ ToSet(stack) = ToSet(Rest(stack)) \union {Top(stack)}
  BY <1>2, SeqParts DEF NoAction
<1> QED BY <1>1, <1>2, <1>4, <1>5 DEF AllDue

(* What an action that is handled is, by its op.                           *)
LEMMA HandledKind ==
  ASSUME IInv, running, stack # NoAction
  PROVE  /\ AtRoot => Current = RootAction(Current.op)
         /\ ~AtRoot /\ Current.op = "resources" => IsListAction(Current)
         /\ ~AtRoot /\ Current.op \in {"entitlements", "grants"} => IsEachAction(Current, store)
         /\ Current.op \notin {"resources", "entitlements", "grants"} => AtRoot
         /\ Current.type = NoType <=> AtRoot
<1>1. ActionOK(Current, store) /\ Current \in Actions
  BY Handling
<1>2. NoType \notin ToSet(Types)
  BY TypesKnown DEF NoType, GraphTypes, ArmTypes, ChildTypes
<1>3. Current.op \in Ops
  BY <1>1 DEF Actions
<1>4. CASE Current = RootAction(Current.op)
  <2>1. Current.type = NoType /\ Current.id = NoId
    BY <1>3, <1>4, Roots
  <2> QED BY <1>4, <2>1 DEF AtRoot
<1>5. CASE IsListAction(Current)
  <2>1. Current.op = "resources" /\ Current.type # NoType
    BY <1>2, <1>5 DEF IsListAction
  <2> QED BY <1>5, <2>1 DEF AtRoot
<1>6. CASE IsEachAction(Current, store)
  <2>1. Current.op \in {"entitlements", "grants"} /\ <<Current.type, Current.id>> \in Objects
    <3>1. StoreOK(store)
      BY Handling
    <3>2. In(store) \subseteq Objects
      BY <3>1 DEF StoreOK, In, ToSet
    <3> QED BY <1>6, <3>2 DEF IsEachAction
  <2>2. Current.type # NoType
    BY <1>2, <2>1 DEF Objects
  <2> QED BY <1>6, <2>1, <2>2 DEF AtRoot
<1> QED BY <1>1, <1>4, <1>5, <1>6 DEF ActionOK

(* A step that leaves the store alone.                                     *)
LEMMA SameStore ==
  ASSUME IInv, UNCHANGED store
  PROVE  StoreOK(store') /\ Grows(store, store') /\ In(store') = In(store)
BY DEF IInv, Grows

(* The empty sequence of actions.                                          *)
LEMMA EmptyList ==
  <<>> \in Seq(Actions) /\ ToSet(<<>>) = {}
BY DEF ToSet

(* Finishing an action: nothing takes its place.                           *)
LEMMA PopStep ==
  ASSUME IInv, running, stack # NoAction, Advance(NoPages)
  PROVE  stack' = Rest(stack) \o <<>>
<1>1. stack \in Seq(Actions)
  BY Handling
<1>2. NoPages \in Seq(PageState)
  BY DEF NoPages
<1>3. Advanced(NoPages) = Rest(stack) \o NextPlace(NoPages)
  BY <1>1, <1>2, AdvancedStack
<1> QED BY <1>3 DEF Advance, NextPlace

-----------------------------------------------------------------------------
(* Every step keeps the invariant *)

(* The invariant is kept by SyncResourceTypes and SyncGrantExpansion.      *)
LEMMA PassOverInv == ASSUME IInv, PassOver PROVE IInv'
<1>1. running /\ stack # NoAction /\ Checkpoint /\ Current.op \in {"types", "expansion"}
  BY DEF PassOver, Handles
<1>2. Advance(NoPages) /\ UNCHANGED <<store, cache, warnings>> /\ GoOn
  BY DEF PassOver
<1>3. stack' = Rest(stack) \o <<>>
  BY <1>1, <1>2, PopStep
<1>4. StoreOK(store') /\ Grows(store, store') /\ In(store') = In(store)
  BY <1>2, SameStore
<1>5. ToSet(stack) \subseteq ToSet(Rest(stack)) \union {Current}
  BY <1>1, Handling
<1>6. AllDue(ToSet(Rest(stack)), store, gone)
  BY <1>1, <1>5, Handling, ResourcesKept, EntitlementsKept, GrantsKept DEF AllDue
<1>7. ~resumed => ChildrenDue(ToSet(Rest(stack)), store)
  BY <1>1, <1>5, Handling, ChildrenKept
<1>8. cache' \subseteq OwnedApps /\ warnings' \in 0 .. WarningLimit + 1
  BY <1>1, <1>2, Handling
<1>9. ToSet(Rest(stack)) \union ToSet(<<>>) = ToSet(Rest(stack)) /\ <<>> \in Seq(Actions)
      /\ ToSet(<<>>) = {}
  BY EmptyList
<1>10. store' = store
  BY <1>2
<1> QED BY <1>1, <1>2, <1>3, <1>4, <1>6, <1>7, <1>8, <1>9, <1>10, IterationStep

(* By the unfolding of the resources phase: each type is listed from its   *)
(* first page on.                                                          *)
LEMMA SyncTypesInv == ASSUME IInv, SyncTypes PROVE IInv'
<1> DEFINE L == [n \in DOMAIN Types |-> ListAction(Types[n], NoId)]
           T == ToSet(Types)
           G == [t \in T |-> ListAction(t, NoId)]
           Lists == {a \in Actions : a.op = "resources" /\ IsListAction(a) /\ a.type \in T
                                     /\ a.pages = NoPages}
<1>1. running /\ stack # NoAction /\ Checkpoint /\ Current.op = "resources" /\ AtRoot
  BY DEF SyncTypes, Handles
<1>2. stack' = Rest(stack) \o L /\ UNCHANGED <<store, cache, warnings>> /\ GoOn
  BY DEF SyncTypes, Unfold, Popped, Rest
<1>3. \A t \in T : G[t] = ListAction(t, NoId) /\ G[t] \in Lists
  <2>1. NoId \in Parents
    BY DEF Parents
  <2> QED BY <2>1, ListActions
<1>4. Types \in Seq(T) /\ \A n \in DOMAIN Types : Types[n] \in T
  <2> DEFINE K == GraphTypes \union ArmTypes \union ChildTypes
  <2>1. Types \in Seq(K)
    BY BuildersAssumption
  <2> HIDE DEF K
  <2>2. \A n \in DOMAIN Types : Types[n] \in T
    BY DEF ToSet
  <2> HIDE DEF T
  <2> QED BY <2>1, <2>2
<1>5. /\ L = [n \in DOMAIN Types |-> L[n]]
      /\ \A n \in DOMAIN Types : L[n] = G[Types[n]] /\ L[n] \in Lists
  BY <1>3, <1>4
<1> HIDE DEF L, G, Lists, T
<1>6. /\ L \in Seq(Lists)
      /\ \A r \in ToSet(L) : \E i \in ToSet(Types) : r = G[i]
      /\ \A i \in ToSet(Types) : G[i] \in ToSet(L)
  BY <1>4, <1>5, Mapped
<1>7. L \in Seq(Actions) /\ ToSet(L) \subseteq Lists
  BY <1>6 DEF Lists, ToSet
<1>8. NoType \notin T
  BY TypesKnown DEF NoType, GraphTypes, ArmTypes, ChildTypes, T
<1>9. \A a \in ToSet(L) : a.op = Current.op /\ ActionOK(a, store') /\ a.type # NoType
  BY <1>1, <1>7, <1>8 DEF Lists, ActionOK
<1> DEFINE B == ToSet(Rest(stack)) \union ToSet(L)
<1>10. ToSet(stack) \subseteq B \union {Current}
  BY <1>1, Handling
<1>11. ResourcesDue(B, store, gone)
  <2> SUFFICES ASSUME NEW t \in ToSet(Types) \ ChildTypes, NEW i \in Listed(t)
               PROVE  \E a \in B : Covers(a, t, i)
    BY DEF ResourcesDue
  <2>1. G[t] \in B /\ G[t] = ListAction(t, NoId)
    BY <1>3, <1>6 DEF T
  <2>2. DOMAIN ListPages[t] = 1 .. Len(ListPages[t]) /\ Len(ListPages[t]) \in Nat
        /\ Listed(t) = IdsOn(ListPages[t])
    BY ListedTypes, ListingMembers
  <2>3. PICK n \in 1 .. Len(ListPages[t]) : i \in ToSet(ListPages[t][n])
    BY <2>2 DEF IdsOn
  <2>4. 1 <= n
    OBVIOUS
  <2>5. /\ ListAction(t, NoId).op = "resources" /\ ListAction(t, NoId).type = t
        /\ FirstPage(ListAction(t, NoId)) = 1
    BY DEF ListAction, FirstPage
  <2> QED BY <2>1, <2>3, <2>4, <2>5 DEF Covers
<1>12. EntitlementsDue(B, store) /\ AssignmentsDue(B, store)
       /\ (PagesAreFull => LinksDue(B, store, gone))
  <2> HIDE DEF B
  <2> QED BY <1>1, <1>10, Handling, EntitlementsKept, GrantsKept
<1>13. ~resumed => ChildrenDue(B, store)
  <2>1. Current.type = NoType
    BY <1>1, HandledKind
  <2>2. \A t \in ToSet(Types) \intersect ChildTypes : \A s : ListAction(t, s) # Current
    BY <1>8, <2>1 DEF ListAction, T
  <2>3. ~resumed => ChildrenDue(ToSet(stack), store)
    BY <1>1, Handling
  <2> QED BY <1>10, <2>2, <2>3 DEF ChildrenDue
<1>14. AllDue(B, store, gone)
  BY <1>11, <1>12 DEF AllDue
<1>15. StoreOK(store') /\ Grows(store, store') /\ In(store') = In(store)
  BY <1>2, SameStore
<1>16. cache' \subseteq OwnedApps /\ warnings' \in 0 .. WarningLimit + 1
  BY <1>1, <1>2, Handling
<1>17. store' = store /\ Current.op # "init"
  BY <1>1, <1>2
<1> QED BY <1>1, <1>2, <1>7, <1>9, <1>13, <1>14, <1>15, <1>16, <1>17, IterationStep

(* By init: what it owes is owed by the phases that it pushes.             *)
LEMMA BeginInv == ASSUME IInv, Begin PROVE IInv'
<1> DEFINE q == <<RootAction("expansion"), RootAction("grants"), RootAction("entitlements"),
                  RootAction("resources"), RootAction("types")>>
           R == {"expansion", "grants", "entitlements", "resources", "types"}
<1>1. running /\ stack # NoAction /\ Checkpoint /\ Current.op = "init"
  BY DEF Begin, Handles
<1>2. stack' = Popped \o q /\ UNCHANGED <<store, cache, warnings>> /\ GoOn
  BY DEF Begin
<1>3. R \subseteq Ops
  BY DEF Ops
<1>4. \A op \in R : RootAction(op) \in Actions /\ RootAction(op).op = op
                    /\ \A st : ActionOK(RootAction(op), st)
  BY <1>3, Roots
<1>5. stack \in Seq(Actions) /\ InitAlone(stack) /\ Current \in ToSet(stack)
  BY <1>1, Handling DEF StackOK
<1>6. Current = RootAction("init") /\ Popped = <<>>
  BY <1>1, <1>5, InitOnTop, Handling DEF NoAction
<1>7. q \in Seq(Actions) /\ Len(q) = 5 /\ ToSet(q) = {RootAction(op) : op \in R}
      /\ q[1].op = "expansion" /\ q[2].op = "grants" /\ q[3].op = "entitlements"
      /\ q[4].op = "resources" /\ q[5].op = "types"
  BY <1>4 DEF ToSet
<1> HIDE DEF q
<1>8. stack' = q
  BY <1>2, <1>6, <1>7, ConcatEmptySeq
<1>9. InOrder(q)
  <2>1. \A n \in 1 .. 5 : n \in {1, 2, 3, 4, 5}
    OBVIOUS
  <2>2. \A n \in 1 .. 5 : Rank(q[n].op) = n
    BY <1>7, <2>1 DEF Rank
  <2> QED BY <1>7, <2>2 DEF InOrder
<1>10. InitAlone(q)
  <2>1. \A n \in 1 .. 5 : n \in {1, 2, 3, 4, 5}
    OBVIOUS
  <2> QED BY <1>7, <2>1 DEF InitAlone
<1>11. /\ RootAction("entitlements") \in ToSet(q) /\ RootAction("grants") \in ToSet(q)
       /\ RootAction("resources") \in ToSet(q)
  BY <1>7
<1>12. \A st : \A a \in ToSet(q) : ActionOK(a, st)
  BY <1>4, <1>7
<1>13. StackOK(q, store)
  BY <1>7, <1>9, <1>10, <1>11, <1>12 DEF StackOK, PhasesAhead
<1>14. AllDue(ToSet(q), store, gone)
  BY <1>11 DEF AllDue, ResourcesDue, EntitlementsDue, AssignmentsDue, LinksDue
<1>15. ~resumed => ChildrenDue(ToSet(q), store)
  <2>1. ~resumed => ChildrenDue(ToSet(stack), store)
    BY <1>1, Handling
  <2>2. ToSet(stack) = {Current}
    <3>1. ToSet(stack) = ToSet(Rest(stack)) \union {Current} /\ Popped = Rest(stack)
      BY <1>1, Handling
    <3>2. ToSet(<<>>) = {}
      BY EmptyList
    <3> QED BY <1>6, <3>1, <3>2
  <2>3. \A t, s : ListAction(t, s) \notin ToSet(stack)
    BY <1>1, <2>2 DEF ListAction
  <2> QED BY <2>1, <2>3 DEF ChildrenDue
<1>16. token' \in {token, stack} /\ fresh' = FALSE
  BY <1>1 DEF Checkpoint
<1>17. /\ StackOK(Saved(token'), store)
       /\ AllDue(ToSet(Saved(token')), store, gone)
       /\ Behind(stack, token')
  <2>1. StackOK(Saved(token), store) /\ AllDue(ToSet(Saved(token)), store, gone)
        /\ Behind(stack, token)
    BY DEF IInv, TokenOK
  <2>2. StackOK(stack, store) /\ AllDue(ToSet(stack), store, gone)
    BY <1>1, Handling DEF AllDue
  <2>3. Grows(store, store)
    BY DEF Grows
  <2> QED BY <1>1, <1>16, <2>1, <2>2, <2>3, SavedToken
<1>18. Behind(q, token')
  <2>1. Ahead(ToSet(stack))
    BY <1>5, <1>6 DEF Ahead, Begun
  <2> QED BY <1>17, <2>1 DEF Behind
<1>19. RestOK'
  BY <1>2, <1>16 DEF IInv, RestOK, GoOn
<1>20. FileOK'
  BY <1>2 DEF IInv, FileOK, GoOn
<1>21. TokenOK'
  BY <1>2, <1>8, <1>17, <1>18 DEF TokenOK, GoOn
<1>22. StackInv'
  BY <1>2, <1>8, <1>13, <1>14, <1>15 DEF StackInv, GoOn
<1> QED BY <1>2, <1>19, <1>20, <1>21, <1>22 DEF IInv

(* By a page of List: what it covered is stored, is gone or foreign, or is *)
(* covered by its next page; and the children of the subscriptions that    *)
(* are new are pushed.                                                     *)
LEMMA SyncResourcesInv == ASSUME IInv, SyncResources PROVE IInv'
<1> DEFINE x == Current
           ans == AnswerTo(Current, gone)
           new == NewOf(ans)
           next == ans.next
           M == NextPlace(next)
           P == PushChildren(new)
           L == M \o P
           B == ToSet(Rest(stack)) \union ToSet(L)
<1>1. running /\ stack # NoAction /\ Checkpoint /\ x.op = "resources" /\ ~AtRoot
  BY DEF SyncResources, Handles
<1>2. /\ stack' = Advanced(next) \o P
      /\ store' = [store EXCEPT !.resources = @ \o new]
      /\ cache' = cache \union AppsOf(ans)
      /\ warnings' = warnings /\ GoOn
  BY DEF SyncResources, AnswerTo
<1>3. IsListAction(x) /\ x \in Actions
  BY <1>1, HandledKind, Handling
<1>4. /\ ans.list \in Seq(Objects)
      /\ \A r \in ToSet(ans.list) :
           /\ TypeOf(r) = x.type /\ ~Foreign(r)
           /\ TypeOf(r) \notin ChildTypes => IdOf(r) \in Listed(TypeOf(r))
      /\ next \in Seq(PageState)
      /\ next # NoPages => IsListAction(Moved(x, next))
      /\ x.type \notin ChildTypes => \A i : Covers(x, x.type, i) =>
           \/ x.type \in GraphTypes /\ i \in gone
           \/ <<x.type, i>> \in ToSet(ans.list) \/ Foreign(<<x.type, i>>)
           \/ next # NoPages /\ Covers(Moved(x, next), x.type, i)
      /\ x.type \in ChildTypes /\ x.parent # NoId =>
           /\ next = NoPages
           /\ \A name \in NamesBelow(x.type, x.parent) :
                <<x.type, ChildId(x.type, name, x.parent)>> \in ToSet(ans.list)
  BY <1>3, ListAnswer
<1> HIDE DEF ans, x
<1>5. new \in Seq(Objects) /\ ToSet(new) = ToSet(ans.list) \ Stored
  BY <1>4, WithoutMembers DEF NewOf
<1> HIDE DEF new, next
<1>6. /\ P \in Seq(Actions)
      /\ \A a \in ToSet(P) : a.op = "resources" /\ IsListAction(a) /\ a.type # NoType
      /\ \A s : <<"subscription", s>> \in ToSet(new) =>
           \A t \in ToSet(Types) \intersect ChildTypes : ListAction(t, s) \in ToSet(P)
  BY <1>4, <1>5, ChildrenPushed
<1>7. stack \in Seq(Actions) /\ Rest(stack) \in Seq(Actions)
  BY <1>1, Handling
<1>8. /\ M \in Seq(Actions) /\ ToSet(M) = IF next = NoPages THEN {} ELSE {Moved(x, next)}
      /\ Advanced(next) = Rest(stack) \o M
  BY <1>1, <1>4, <1>7, AdvancedStack DEF x
<1>9. next # NoPages => /\ Moved(x, next).op = "resources" /\ Moved(x, next).type = x.type
                        /\ Moved(x, next).id = x.id /\ Moved(x, next).parent = x.parent
  BY <1>1, <1>3, <1>4, MovedAction
<1> HIDE DEF M, P
<1>10. L \in Seq(Actions) /\ ToSet(L) = ToSet(M) \union ToSet(P) /\ stack' = Rest(stack) \o L
  BY <1>2, <1>6, <1>7, <1>8, ConcatMembers, ConcatAssociative
<1> HIDE DEF L
<1>11. x.type # NoType
  BY <1>1, HandledKind DEF x
<1>12. \A a \in ToSet(L) : a.op = x.op /\ IsListAction(a) /\ a.type # NoType
  BY <1>1, <1>4, <1>6, <1>8, <1>9, <1>10, <1>11
<1>13. \A a \in ToSet(L) : a.op = x.op /\ ActionOK(a, store') /\ a.type # NoType
  BY <1>12 DEF ActionOK
<1>14. StoreOK(store)
  BY <1>1, Handling
<1>15. /\ store'.resources = store.resources \o new
       /\ store'.entitlements = store.entitlements /\ store'.grants = store.grants
       /\ store' = [resources |-> store'.resources, entitlements |-> store'.entitlements,
                    grants |-> store'.grants]
  BY <1>2, <1>14 DEF StoreOK
<1>16. Stored = In(store)
  BY DEF Stored, In
<1>17. store'.resources \in Seq(Objects) /\ In(store') = In(store) \union ToSet(ans.list)
  <2>1. store.resources \in Seq(Objects)
    BY <1>14 DEF StoreOK
  <2>2. store.resources \o new \in Seq(Objects)
        /\ ToSet(store.resources \o new) = ToSet(store.resources) \union ToSet(new)
    BY <1>5, <2>1, ConcatMembers
  <2> QED BY <1>5, <1>15, <1>16, <2>2 DEF In
<1>18. StoreOK(store')
  BY <1>4, <1>14, <1>15, <1>17 DEF StoreOK
<1>19. Grows(store, store')
  BY <1>15, <1>17 DEF Grows
<1>20. cache' \subseteq OwnedApps
  <2>1. \A r \in ToSet(ans.list) : TypeOf(r) = "enterprise_application" => IdOf(r) \in OwnedApps
    BY <1>4 DEF Foreign
  <2>2. AppsOf(ans) \subseteq OwnedApps
    BY <2>1 DEF AppsOf
  <2> QED BY <1>1, <1>2, <2>2, Handling
<1>21. warnings' \in 0 .. WarningLimit + 1
  BY <1>1, <1>2, Handling
<1>22. ToSet(stack) \subseteq B \union {x}
  BY <1>1, Handling DEF x
<1>23. AllDue(ToSet(stack), store', gone)
  <2>1. AllDue(ToSet(stack), store, gone)
    BY <1>1, Handling DEF AllDue
  <2>2. Ahead(ToSet(stack))
    BY <1>1, Handling, AheadOfResources DEF x
  <2> QED BY <1>19, <2>1, <2>2, DueGrows
<1>24. ResourcesDue(B, store', gone)
  <2> SUFFICES ASSUME NEW t \in ToSet(Types) \ ChildTypes, NEW i \in Listed(t),
                      ~(t \in GraphTypes /\ i \in gone), <<t, i>> \notin In(store'),
                      ~Foreign(<<t, i>>), ~Begun(B), RootAction("resources") \notin B
               PROVE  \E a \in B : Covers(a, t, i)
    BY DEF ResourcesDue
  <2>1. RootAction("init").op = "init" /\ RootAction("resources").type = NoType
    BY DEF RootAction, ActionOn
  <2>2. ~Begun(ToSet(stack)) /\ RootAction("resources") \notin ToSet(stack)
    BY <1>1, <1>11, <1>22, <2>1 DEF Begun
  <2>3. PICK a \in ToSet(stack) : Covers(a, t, i)
    BY <1>23, <2>2 DEF AllDue, ResourcesDue
  <2>4. CASE a \in B
    BY <2>3, <2>4
  <2>5. CASE a = x
    <3>1. Covers(x, x.type, i) /\ x.type = t
      BY <2>3, <2>5 DEF Covers
    <3>2. next # NoPages /\ Covers(Moved(x, next), x.type, i)
      BY <1>4, <1>17, <3>1
    <3>3. Moved(x, next) \in B
      BY <1>8, <1>10, <3>2
    <3> QED BY <3>1, <3>2, <3>3
  <2> QED BY <1>22, <2>4, <2>5
<1>25. EntitlementsDue(B, store') /\ AssignmentsDue(B, store')
       /\ (PagesAreFull => LinksDue(B, store', gone))
  <2> HIDE DEF B
  <2> QED BY <1>1, <1>22, <1>23, EntitlementsKept, GrantsKept DEF AllDue
<1>26. AllDue(B, store', gone)
  BY <1>24, <1>25 DEF AllDue
<1>27. ~resumed => ChildrenDue(B, store')
  <2> SUFFICES ASSUME ~resumed, NEW s \in Listed("subscription"),
                      <<"subscription", s>> \in In(store'),
                      NEW t \in ToSet(Types) \intersect ChildTypes, ListAction(t, s) \notin B
               PROVE  \A name \in NamesBelow(t, s) : <<t, ChildId(t, name, s)>> \in In(store')
    BY DEF ChildrenDue
  <2>1. <<"subscription", s>> \notin ToSet(new)
    BY <1>6, <1>10
  <2>2. <<"subscription", s>> \in In(store)
    BY <1>5, <1>16, <1>17, <2>1
  <2>3. ChildrenDue(ToSet(stack), store)
    BY <1>1, Handling
  <2>4. CASE ListAction(t, s) # x
    <3>1. ListAction(t, s) \notin ToSet(stack)
      BY <1>22, <2>4
    <3> QED BY <1>17, <2>2, <2>3, <3>1 DEF ChildrenDue
  <2>5. CASE ListAction(t, s) = x
    <3>1. x.type = t /\ x.parent = s
      BY <2>5 DEF ListAction
    <3>2. s # NoId
      BY NamesOfChildren
    <3> QED BY <1>4, <1>17, <3>1, <3>2
  <2> QED BY <2>4, <2>5
<1>28. /\ running /\ stack # NoAction /\ Current.op # "init" /\ Checkpoint /\ GoOn
       /\ \A a \in ToSet(L) : a.op = Current.op /\ ActionOK(a, store') /\ a.type # NoType
       /\ Current.op = "resources"
  BY <1>1, <1>2, <1>13 DEF x
<1> QED BY <1>10, <1>18, <1>19, <1>20, <1>21, <1>26, <1>27, <1>28, IterationStep

(* A stored resource is its type and its id.                               *)
LEMMA ResourceParts ==
  ASSUME IInv, NEW r \in In(store)
  PROVE  /\ r \in Objects /\ r = <<TypeOf(r), IdOf(r)>>
         /\ TypeOf(r) \in ToSet(Types) /\ IdOf(r) \in Ids
<1>1. store.resources \in Seq(Objects)
  BY DEF IInv, StoreOK
<1>2. r \in Objects
  BY <1>1 DEF In, ToSet
<1> QED BY <1>2 DEF Objects, TypeOf, IdOf

(* The action of a phase on a stored resource.                             *)
LEMMA EachActions ==
  ASSUME IInv, NEW op \in {"entitlements", "grants"}, NEW r \in In(store)
  PROVE  LET a == ActionOn(op, TypeOf(r), IdOf(r)) IN
         /\ a \in Actions /\ a.op = op /\ a.type = TypeOf(r) /\ a.id = IdOf(r) /\ a.pages = NoPages
         /\ a.type # NoType /\ IsEachAction(a, store)
<1>1. r = <<TypeOf(r), IdOf(r)>> /\ TypeOf(r) \in ToSet(Types) /\ IdOf(r) \in Ids
  BY ResourceParts
<1>2. NoType \notin ToSet(Types)
  BY TypesKnown DEF NoType, GraphTypes, ArmTypes, ChildTypes
<1>3. NoPages \in Seq(PageState) /\ NoId \in Parents
  BY DEF NoPages, Parents
<1> DEFINE a == ActionOn(op, TypeOf(r), IdOf(r))
<1>4. a \in Actions /\ a.op = op /\ a.type = TypeOf(r) /\ a.id = IdOf(r) /\ a.pages = NoPages
      /\ a.parent = NoId
  BY <1>1, <1>3 DEF ActionOn, Actions, Ops
<1> HIDE DEF a
<1>5. a.type # NoType /\ IsEachAction(a, store)
  BY <1>1, <1>2, <1>4 DEF IsEachAction
<1> QED BY <1>4, <1>5 DEF a

(* By the unfolding of the entitlements and the grants phase: each stored  *)
(* resource that has any gets an action.                                   *)
LEMMA SyncEachInv ==
  ASSUME IInv, NEW op \in {"entitlements", "grants"}, SyncEach(op)
  PROVE  IInv'
<1> DEFINE S == {r \in In(store) : ~SkipsGrants(TypeOf(r))}
           each == Only(store.resources, S)
           L == [n \in DOMAIN each |-> ActionOn(op, TypeOf(each[n]), IdOf(each[n]))]
           G == [r \in S |-> ActionOn(op, TypeOf(r), IdOf(r))]
           Each == {a \in Actions : a.op = op /\ IsEachAction(a, store) /\ a.type # NoType}
           B == ToSet(Rest(stack)) \union ToSet(L)
<1>1. running /\ stack # NoAction /\ Checkpoint /\ Current.op = op /\ AtRoot
  BY DEF SyncEach, Handles
<1>2. stack' = Rest(stack) \o L /\ UNCHANGED <<store, cache, warnings>> /\ GoOn
  BY DEF SyncEach, Unfold, Popped, Rest, Stored, In
<1>3. \A r \in S : G[r] = ActionOn(op, TypeOf(r), IdOf(r)) /\ G[r] \in Each
  BY EachActions
<1>4. each \in Seq(Objects) /\ ToSet(each) = S
  <2>1. store.resources \in Seq(Objects)
    BY DEF IInv, StoreOK
  <2> HIDE DEF S
  <2>2. each \in Seq(Objects) /\ ToSet(each) = ToSet(store.resources) \intersect S
    BY <2>1, OnlyMembers
  <2>3. S \subseteq ToSet(store.resources)
    BY DEF S, In
  <2> QED BY <2>2, <2>3
<1> HIDE DEF each
<1>5. /\ L = [n \in DOMAIN each |-> L[n]]
      /\ \A n \in DOMAIN each : L[n] = G[each[n]] /\ L[n] \in Each
  <2>1. \A n \in DOMAIN each : each[n] \in S
    BY <1>4 DEF ToSet
  <2> HIDE DEF S
  <2> QED BY <1>3, <2>1
<1> HIDE DEF L, G, Each, S
<1>6. /\ L \in Seq(Each)
      /\ \A r \in ToSet(L) : \E i \in ToSet(each) : r = G[i]
      /\ \A i \in ToSet(each) : G[i] \in ToSet(L)
  BY <1>4, <1>5, Mapped
<1>7. L \in Seq(Actions) /\ ToSet(L) \subseteq Each
  BY <1>6 DEF Each, ToSet
<1>8. \A r \in S : ActionOn(op, TypeOf(r), IdOf(r)) \in ToSet(L)
  BY <1>3, <1>4, <1>6
<1>9. \A a \in ToSet(L) : a.op = Current.op /\ ActionOK(a, store') /\ a.type # NoType
  BY <1>1, <1>2, <1>7 DEF Each, ActionOK
<1>10. ToSet(stack) \subseteq B \union {Current}
  BY <1>1, Handling
<1>11. Current = RootAction(op)
  BY <1>1, HandledKind
<1>12. ResourcesDue(B, store, gone)
  <2> HIDE DEF B
  <2> QED BY <1>1, <1>10, Handling, ResourcesKept
<1>13. EntitlementsDue(B, store)
  <2>1. CASE op = "entitlements"
    <3> SUFFICES ASSUME NEW r \in In(store), ~(ListEntitlements(r) \subseteq store.entitlements)
                 PROVE  ActionOn("entitlements", TypeOf(r), IdOf(r)) \in B
      BY DEF EntitlementsDue
    <3>1. ~SkipsGrants(TypeOf(r))
      BY NoSlugs
    <3>2. r \in S
      BY <3>1 DEF S
    <3> QED BY <1>8, <2>1, <3>2
  <2>2. CASE op # "entitlements"
    <3> HIDE DEF B
    <3>1. Current.op \notin {"init", "entitlements"}
      BY <1>1, <2>2
    <3> QED BY <1>1, <1>10, <3>1, Handling, EntitlementsKept
  <2> QED BY <2>1, <2>2
<1>14. AssignmentsDue(B, store) /\ (PagesAreFull => LinksDue(B, store, gone))
  <2>1. CASE op = "grants"
    <3>1. AssignmentsDue(B, store)
      <4> SUFFICES ASSUME NEW r \in In(store), TypeOf(r) = "enterprise_application"
                   PROVE  ActionOn("grants", TypeOf(r), IdOf(r)) \in B
        BY DEF AssignmentsDue
      <4>1. r \in S
        BY DEF S, SkipsGrants
      <4> QED BY <1>8, <2>1, <4>1
    <3>2. LinksDue(B, store, gone)
      <4> SUFFICES ASSUME NEW g \in Listed("group") \ gone, NEW l \in {"owners", "members"},
                          NEW n \in 1 .. Len(LinkPages[l][g]), <<"group", g>> \in In(store)
                   PROVE  \E a \in B : StillReads(a, g, l, n)
        BY DEF LinksDue
      <4> DEFINE r == <<"group", g>>
                 a == ActionOn("grants", TypeOf(r), IdOf(r))
      <4>1. TypeOf(r) = "group" /\ IdOf(r) = g
        BY DEF TypeOf, IdOf
      <4>2. r \in S
        BY <4>1 DEF S, SkipsGrants
      <4>3. a \in B
        BY <1>8, <2>1, <4>2
      <4>4. a.op = "grants" /\ a.type = "group" /\ a.id = g /\ a.pages = NoPages
        BY <4>1 DEF ActionOn
      <4>5. GroupBag(NoPages) = <<PageOf("owners", 1), PageOf("members", 1)>>
        BY Pushed DEF GroupBag
      <4>6. 1 <= n
        BY LinkPagesTyped
      <4>7. Reads(GroupBag(a.pages), l, n)
        BY <4>4, <4>5, <4>6, ReadsTwo
      <4> QED BY <4>3, <4>4, <4>7 DEF StillReads
    <3> QED BY <3>1, <3>2
  <2>2. CASE op # "grants"
    <3> HIDE DEF B
    <3>1. Current.op \notin {"init", "grants"}
      BY <1>1, <2>2
    <3> QED BY <1>1, <1>10, <3>1, Handling, GrantsKept
  <2> QED BY <2>1, <2>2
<1>15. ~resumed => ChildrenDue(B, store)
  <2> HIDE DEF B
  <2>1. Current.op # "resources"
    BY <1>1
  <2> QED BY <1>1, <1>10, <2>1, Handling, ChildrenKept
<1>16. AllDue(B, store, gone)
  BY <1>12, <1>13, <1>14 DEF AllDue
<1>17. StoreOK(store') /\ Grows(store, store') /\ In(store') = In(store)
  BY <1>2, SameStore
<1>18. cache' \subseteq OwnedApps /\ warnings' \in 0 .. WarningLimit + 1
  BY <1>1, <1>2, Handling
<1>19. store' = store /\ Current.op # "init"
  BY <1>1, <1>2
<1> QED BY <1>1, <1>2, <1>7, <1>9, <1>15, <1>16, <1>17, <1>18, <1>19, IterationStep

(* By Entitlements of a resource: they are stored and the action is        *)
(* dropped.                                                                *)
LEMMA SyncEntitlementsInv == ASSUME IInv, SyncEntitlements PROVE IInv'
<1> DEFINE B == ToSet(Rest(stack)) \union ToSet(<<>>)
<1>1. running /\ stack # NoAction /\ Checkpoint /\ Current.op = "entitlements" /\ ~AtRoot
  BY DEF SyncEntitlements, Handles
<1>2. /\ Advance(NoPages) /\ UNCHANGED <<cache, warnings>> /\ GoOn
      /\ store' = [store EXCEPT !.entitlements = @ \union ListEntitlements(Resource)]
  BY DEF SyncEntitlements
<1>3. stack' = Rest(stack) \o <<>>
  BY <1>1, <1>2, PopStep
<1>4. StoreOK(store)
  BY <1>1, Handling
<1>5. /\ store'.resources = store.resources /\ store'.grants = store.grants
      /\ store'.entitlements = store.entitlements \union ListEntitlements(Resource)
      /\ store' = [resources |-> store'.resources, entitlements |-> store'.entitlements,
                   grants |-> store'.grants]
  BY <1>2, <1>4 DEF StoreOK
<1>6. In(store') = In(store)
  BY <1>5 DEF In
<1>7. StoreOK(store')
  BY <1>4, <1>5, <1>6 DEF StoreOK
<1>8. Grows(store, store')
  BY <1>5, <1>6 DEF Grows
<1>9. ToSet(<<>>) = {} /\ <<>> \in Seq(Actions)
  BY EmptyList
<1>10. ToSet(stack) \subseteq B \union {Current}
  BY <1>1, Handling
<1>11. AllDue(ToSet(stack), store', gone)
  BY <1>1, <1>6, <1>8, Handling, DueGrows DEF AllDue
<1>12. ResourcesDue(B, store', gone) /\ AssignmentsDue(B, store')
       /\ (PagesAreFull => LinksDue(B, store', gone))
  <2> HIDE DEF B
  <2>1. Current.op \notin {"init", "resources"} /\ Current.op \notin {"init", "grants"}
    BY <1>1
  <2> QED BY <1>10, <1>11, <2>1, ResourcesKept, GrantsKept DEF AllDue
<1>13. EntitlementsDue(B, store')
  <2> SUFFICES ASSUME NEW r \in In(store'), ~(ListEntitlements(r) \subseteq store'.entitlements)
               PROVE  \/ Begun(B) \/ RootAction("entitlements") \in B
                      \/ ActionOn("entitlements", TypeOf(r), IdOf(r)) \in B
    BY DEF EntitlementsDue
  <2>1. r # Resource
    BY <1>5
  <2>2. r = <<TypeOf(r), IdOf(r)>>
    BY <1>6, ResourceParts
  <2>3. ActionOn("entitlements", TypeOf(r), IdOf(r)) # Current
    BY <2>1, <2>2 DEF ActionOn, Resource
  <2>4. Current # RootAction("init") /\ Current # RootAction("entitlements")
    <3>1. Current.type # NoType
      BY <1>1, HandledKind
    <3> QED BY <3>1 DEF RootAction, ActionOn
  <2>5. \/ Begun(ToSet(stack)) \/ RootAction("entitlements") \in ToSet(stack)
        \/ ActionOn("entitlements", TypeOf(r), IdOf(r)) \in ToSet(stack)
    BY <1>11 DEF AllDue, EntitlementsDue
  <2> QED BY <1>10, <2>3, <2>4, <2>5 DEF Begun
<1>14. ~resumed => ChildrenDue(B, store')
  <2> HIDE DEF B
  <2>1. ~resumed => ChildrenDue(B, store)
    BY <1>1, <1>10, Handling, ChildrenKept
  <2> QED BY <1>6, <2>1 DEF ChildrenDue
<1>15. AllDue(B, store', gone)
  BY <1>12, <1>13 DEF AllDue
<1>16. cache' \subseteq OwnedApps /\ warnings' \in 0 .. WarningLimit + 1
  BY <1>1, <1>2, Handling
<1> QED BY <1>1, <1>2, <1>3, <1>6, <1>7, <1>8, <1>9, <1>14, <1>15, <1>16, IterationStep

(* When grants are handled, every entitlement is stored: no action of the  *)
(* entitlements phase is left.                                             *)
LEMMA EntitlementsThere ==
  ASSUME IInv, running, stack # NoAction, Current.op = "grants", NEW r \in In(store)
  PROVE  ListEntitlements(r) \subseteq store.entitlements
<1>1. /\ Current = Top(stack) /\ stack \in Seq(Actions) /\ InOrder(stack)
      /\ EntitlementsDue(ToSet(stack), store)
  BY Handling DEF StackOK
<1>2. \A a \in ToSet(stack) : Rank(a.op) <= 2
  BY <1>1, TopRank DEF NoAction, Rank
<1>3. \A a \in ToSet(stack) : a.op # "entitlements" /\ a.op # "init"
  BY <1>2 DEF Rank
<1>4. /\ RootAction("init").op = "init" /\ RootAction("entitlements").op = "entitlements"
      /\ ActionOn("entitlements", TypeOf(r), IdOf(r)).op = "entitlements"
  BY DEF RootAction, ActionOn
<1> QED BY <1>1, <1>3, <1>4 DEF EntitlementsDue, Begun

(* By a page of Grants: the grants of what is read are stored, the moved   *)
(* action owes the rest.                                                   *)
LEMMA SyncGrantsInv == ASSUME IInv, SyncGrants PROVE IInv'
<1> DEFINE x == Current
           r == <<x.type, x.id>>
           ans == ListGrants(r, x.pages)
           next == ans.next
           L == NextPlace(next)
           B == ToSet(Rest(stack)) \union ToSet(L)
<1>1. running /\ stack # NoAction /\ Checkpoint /\ x.op = "grants" /\ ~AtRoot
  BY DEF SyncGrants, Handles
<1>2. /\ stack' = Advanced(next) /\ UNCHANGED <<cache, warnings>> /\ GoOn
      /\ store' = [store EXCEPT !.grants = @ \union ans.list]
  BY DEF SyncGrants, Advance, Resource
<1>3. IsEachAction(x, store) /\ x \in Actions /\ StoreOK(store)
  BY <1>1, HandledKind, Handling
<1>4. /\ \A y \in ans.list :
           /\ y.on = r /\ y.who \in Principals
           /\ \/ <<r, y.slug>> \in ListEntitlements(r)
              \/ TypeOf(r) = "enterprise_application" /\ y.slug \notin Slugs(r)
      /\ next \in Seq(PageState)
      /\ next # NoPages => IsEachAction(Moved(x, next), store)
      /\ x.type = "enterprise_application" =>
           /\ next = NoPages
           /\ \A y \in Assigned[x.id] : Grant(r, y[2], y[1]) \in ans.list
      /\ PagesAreFull /\ x.type = "group" =>
           \A l \in {"owners", "members"} : \A n \in 1 .. Len(LinkPages[l][x.id]) :
             \A p \in LinkPages[l][x.id][n].who :
               Granted(l, p) /\ Reads(GroupBag(x.pages), l, n) =>
                 \/ Grant(r, l, p) \in ans.list
                 \/ next # NoPages /\ Reads(GroupBag(next), l, n)
  BY <1>1, <1>3, GrantsAnswer
<1> HIDE DEF ans, x
<1>5. r \in In(store) /\ ListEntitlements(r) \subseteq store.entitlements
  <2>1. r \in In(store)
    BY <1>3 DEF IsEachAction
  <2> QED BY <1>1, <2>1, EntitlementsThere DEF x
<1>6. TypeOf(r) = x.type /\ IdOf(r) = x.id
  BY DEF TypeOf, IdOf
<1> HIDE DEF next
<1>7. /\ L \in Seq(Actions) /\ ToSet(L) = IF next = NoPages THEN {} ELSE {Moved(x, next)}
      /\ stack' = Rest(stack) \o L
  <2>1. stack \in Seq(Actions)
    BY <1>1, Handling
  <2> QED BY <1>1, <1>2, <1>4, <2>1, AdvancedStack DEF x
<1> HIDE DEF L
<1>8. next # NoPages => /\ Moved(x, next).op = "grants" /\ Moved(x, next).type = x.type
                        /\ Moved(x, next).id = x.id /\ Moved(x, next).pages = next
  BY <1>1, <1>3, <1>4, MovedAction
<1>9. /\ store'.resources = store.resources /\ store'.entitlements = store.entitlements
      /\ store'.grants = store.grants \union ans.list
      /\ store' = [resources |-> store'.resources, entitlements |-> store'.entitlements,
                   grants |-> store'.grants]
  BY <1>2, <1>3 DEF StoreOK
<1>10. In(store') = In(store)
  BY <1>9 DEF In
<1>11. StoreOK(store')
  <2>1. \A y \in store'.grants : y.on \in In(store') /\ y.who \in Principals
    <3> HIDE DEF r
    <3> QED BY <1>3, <1>4, <1>5, <1>9, <1>10 DEF StoreOK
  <2>2. \A y \in store'.grants :
          \/ <<y.on, y.slug>> \in store'.entitlements
          \/ TypeOf(y.on) = "enterprise_application" /\ y.slug \notin Slugs(y.on)
    <3> HIDE DEF r
    <3> QED BY <1>3, <1>4, <1>5, <1>9 DEF StoreOK
  <2> QED BY <1>3, <1>9, <1>10, <2>1, <2>2 DEF StoreOK
<1>12. Grows(store, store')
  BY <1>9, <1>10 DEF Grows
<1>13. x.type # NoType
  BY <1>1, HandledKind DEF x
<1>14. \A a \in ToSet(L) : a.op = x.op /\ ActionOK(a, store') /\ a.type # NoType
  <2>1. \A a \in ToSet(L) : a.op = x.op /\ IsEachAction(a, store) /\ a.type # NoType
    BY <1>1, <1>4, <1>7, <1>8, <1>13
  <2> QED BY <1>10, <2>1 DEF ActionOK, IsEachAction
<1>15. ToSet(stack) \subseteq B \union {x}
  BY <1>1, Handling DEF x
<1>16. AllDue(ToSet(stack), store', gone)
  BY <1>1, <1>10, <1>12, Handling, DueGrows DEF AllDue
<1>17. ResourcesDue(B, store', gone) /\ EntitlementsDue(B, store')
  <2> HIDE DEF B
  <2>1. x.op \notin {"init", "resources"} /\ x.op \notin {"init", "entitlements"}
    BY <1>1
  <2> QED BY <1>15, <1>16, <2>1, ResourcesKept, EntitlementsKept DEF AllDue
<1>18. x # RootAction("init") /\ x # RootAction("grants")
  BY <1>13 DEF RootAction, ActionOn
<1>19. AssignmentsDue(B, store')
  <2> SUFFICES ASSUME NEW q \in In(store'), TypeOf(q) = "enterprise_application",
                      ~(\A y \in Assigned[IdOf(q)] : Grant(q, y[2], y[1]) \in store'.grants)
               PROVE  \/ Begun(B) \/ RootAction("grants") \in B
                      \/ ActionOn("grants", TypeOf(q), IdOf(q)) \in B
    BY DEF AssignmentsDue
  <2>1. q # r
    BY <1>4, <1>6, <1>9
  <2>2. q = <<TypeOf(q), IdOf(q)>>
    BY <1>10, ResourceParts
  <2>3. ActionOn("grants", TypeOf(q), IdOf(q)) # x
    BY <2>1, <2>2 DEF ActionOn
  <2>4. \/ Begun(ToSet(stack)) \/ RootAction("grants") \in ToSet(stack)
        \/ ActionOn("grants", TypeOf(q), IdOf(q)) \in ToSet(stack)
    BY <1>16 DEF AllDue, AssignmentsDue
  <2> QED BY <1>15, <1>18, <2>3, <2>4 DEF Begun
<1>20. ASSUME PagesAreFull PROVE LinksDue(B, store', gone)
  <2> SUFFICES ASSUME NEW g \in Listed("group") \ gone, NEW l \in {"owners", "members"},
                      NEW n \in 1 .. Len(LinkPages[l][g]), NEW p \in LinkPages[l][g][n].who,
                      <<"group", g>> \in In(store'), Granted(l, p),
                      Grant(<<"group", g>>, l, p) \notin store'.grants,
                      ~Begun(B), RootAction("grants") \notin B
               PROVE  \E a \in B : StillReads(a, g, l, n)
    BY DEF LinksDue
  <2>1. ~Begun(ToSet(stack)) /\ RootAction("grants") \notin ToSet(stack)
    BY <1>15, <1>18 DEF Begun
  <2>2. PICK a \in ToSet(stack) : StillReads(a, g, l, n)
    BY <1>16, <1>20, <2>1 DEF AllDue, LinksDue
  <2>3. CASE a \in B
    BY <2>2, <2>3
  <2>4. CASE a = x
    <3>1. x.type = "group" /\ x.id = g /\ Reads(GroupBag(x.pages), l, n)
      BY <2>2, <2>4 DEF StillReads
    <3>2. Grant(r, l, p) \notin ans.list
      BY <1>9, <3>1
    <3>3. next # NoPages /\ Reads(GroupBag(next), l, n)
      BY <1>4, <1>20, <3>1, <3>2
    <3>4. StillReads(Moved(x, next), g, l, n)
      BY <1>8, <3>1, <3>3 DEF StillReads
    <3>5. Moved(x, next) \in B
      BY <1>7, <3>3
    <3> QED BY <3>4, <3>5
  <2> QED BY <1>15, <2>3, <2>4
<1>21. AllDue(B, store', gone)
  BY <1>17, <1>19, <1>20 DEF AllDue
<1>22. ~resumed => ChildrenDue(B, store')
  <2> HIDE DEF B
  <2>1. ~resumed => ChildrenDue(B, store)
    BY <1>1, <1>15, Handling, ChildrenKept
  <2> QED BY <1>10, <2>1 DEF ChildrenDue
<1>23. cache' \subseteq OwnedApps /\ warnings' \in 0 .. WarningLimit + 1
  BY <1>1, <1>2, Handling
<1>24. Current.op # "init"
       /\ \A a \in ToSet(L) : a.op = Current.op /\ ActionOK(a, store') /\ a.type # NoType
  BY <1>1, <1>14 DEF x
<1> QED BY <1>1, <1>2, <1>7, <1>10, <1>11, <1>12, <1>21, <1>22, <1>23, <1>24, IterationStep

(* By the warning that drops an action: the group is gone, and nothing is  *)
(* due for it.                                                             *)
LEMMA GroupNotFoundInv == ASSUME IInv, GroupNotFound PROVE IInv'
<1> DEFINE x == Current
           B == ToSet(Rest(stack)) \union ToSet(<<>>)
<1>1. running /\ stack # NoAction /\ Checkpoint /\ x.op = "grants" /\ ~AtRoot
      /\ warnings <= WarningLimit
  BY DEF GroupNotFound, Handles
<1>2. /\ stack' = Popped /\ UNCHANGED <<store, cache>> /\ GoOn
      /\ warnings' = warnings + 1
  BY DEF GroupNotFound
<1>3. x.type = "group" /\ x.id \in gone
  BY DEF GroupNotFound, Deleted, Resource, TypeOf, IdOf
<1>4. stack' = Rest(stack) \o <<>>
  <2>1. Popped = Rest(stack) /\ Rest(stack) \in Seq(Actions)
    BY <1>1, Handling
  <2> QED BY <1>2, <2>1, ConcatEmptySeq
<1>5. StoreOK(store') /\ Grows(store, store') /\ In(store') = In(store)
  BY <1>2, SameStore
<1>6. ToSet(stack) \subseteq B \union {x}
  BY <1>1, Handling
<1>7. x.type # NoType
  BY <1>1, HandledKind
<1>8. x # RootAction("init") /\ x # RootAction("grants")
  BY <1>7 DEF RootAction, ActionOn
<1> HIDE DEF x
<1>9. ResourcesDue(B, store, gone) /\ EntitlementsDue(B, store)
  <2> HIDE DEF B
  <2>1. x.op \notin {"init", "resources"} /\ x.op \notin {"init", "entitlements"}
    BY <1>1
  <2> QED BY <1>1, <1>6, <2>1, Handling, ResourcesKept, EntitlementsKept
<1>10. AssignmentsDue(B, store)
  <2>1. \A t, i : ActionOn("grants", t, i).type = t
    BY DEF ActionOn
  <2>2. AssignmentsDue(ToSet(stack), store)
    BY <1>1, Handling
  <2> QED BY <1>3, <1>6, <1>8, <2>1, <2>2 DEF AssignmentsDue, Begun
<1>11. PagesAreFull => LinksDue(B, store, gone)
  <2>1. \A g \in Listed("group") \ gone : \A l, n : ~StillReads(x, g, l, n)
    BY <1>3 DEF StillReads
  <2>2. PagesAreFull => LinksDue(ToSet(stack), store, gone)
    BY <1>1, Handling
  <2>3. /\ Begun(ToSet(stack)) => Begun(B)
        /\ RootAction("grants") \in ToSet(stack) => RootAction("grants") \in B
    BY <1>6, <1>8 DEF Begun
  <2>4. \A g \in Listed("group") \ gone : \A l, n :
           (\E a \in ToSet(stack) : StillReads(a, g, l, n)) => \E a \in B : StillReads(a, g, l, n)
    BY <1>6, <2>1
  <2> HIDE DEF B
  <2> QED BY <2>2, <2>3, <2>4 DEF LinksDue
<1>12. AllDue(B, store', gone)
  BY <1>2, <1>9, <1>10, <1>11 DEF AllDue
<1>13. ~resumed => ChildrenDue(B, store')
  <2> HIDE DEF B
  <2> QED BY <1>1, <1>2, <1>6, Handling, ChildrenKept
<1>14. cache' \subseteq OwnedApps /\ warnings' \in 0 .. WarningLimit + 1
  <2>1. warnings \in 0 .. WarningLimit + 1 /\ cache \subseteq OwnedApps
    BY <1>1, Handling
  <2> QED BY <1>1, <1>2, <2>1, SyncRunAssumption
<1>15. ToSet(<<>>) = {} /\ <<>> \in Seq(Actions) /\ Current.op # "init"
  BY <1>1, EmptyList DEF x
<1> QED BY <1>1, <1>2, <1>4, <1>5, <1>12, <1>13, <1>14, <1>15, IterationStep

(* By the start of a run, which resumes the file or begins anew.           *)
LEMMA StartInv == ASSUME IInv, Start PROVE IInv'
<1>1. UNCHANGED <<file, cache, gone, faults>> /\ fresh' = TRUE /\ warnings' = 0
      /\ running' = TRUE /\ outcome' = "none" /\ stack' = Saved(token')
  BY DEF Start, Saved
<1>2. RestOK'
  <2>1. resumed' \in BOOLEAN
    BY DEF Start, Resume, StartNewSync
  <2>2. 0 \in 0 .. WarningLimit + 1
    BY SyncRunAssumption
  <2> QED BY <1>1, <2>1, <2>2 DEF IInv, RestOK
<1>3. FileOK'
  BY <1>1 DEF IInv, FileOK
<1>4. /\ StoreOK(store')
      /\ StackOK(Saved(token'), store')
      /\ AllDue(ToSet(Saved(token')), store', gone')
      /\ ~resumed' => ChildrenDue(ToSet(Saved(token')), store')
  <2>1. CASE Resume
    BY <1>1, <2>1 DEF Resume, IInv, FileOK
  <2>2. CASE StartNewSync
    <3>1. Saved(token') = <<RootAction("init")>> /\ store' = EmptyStore
      BY <2>2 DEF StartNewSync, Saved
    <3> QED BY <3>1, FreshStack, EmptyStoreOK
  <2> QED BY <2>1, <2>2 DEF Start
<1>5. TokenOK'
  BY <1>1, <1>4 DEF TokenOK, Behind
<1>6. StackInv'
  BY <1>1, <1>4 DEF StackInv
<1> QED BY <1>2, <1>3, <1>4, <1>5, <1>6 DEF IInv

(* By a crash, which leaves the file as it is.                             *)
LEMMA CrashInv == ASSUME IInv, Crash PROVE IInv'
<1>1. UNCHANGED <<stack, token, fresh, store, file, warnings, resumed, gone>>
  BY DEF Crash
<1>2. RestOK'
  <2>1. faults' \in 0 .. MaxFaults
    BY SyncRunAssumption DEF Crash, IInv, RestOK
  <2> QED BY <1>1, <2>1 DEF Crash, IInv, RestOK
<1>3. FileOK' /\ TokenOK' /\ StoreOK(store')
  BY <1>1 DEF IInv, FileOK, TokenOK
<1>4. StackInv'
  BY <1>1 DEF IInv, StackInv, Crash
<1> QED BY <1>2, <1>3, <1>4 DEF IInv

(* By a deletion in Graph.                                                 *)
LEMMA DeleteInv == ASSUME IInv, NEW g \in Listed("group"), Delete(g) PROVE IInv'
<1>1. /\ UNCHANGED <<running, stack, token, fresh, store, file, cache, warnings, resumed,
                     faults, outcome>>
      /\ gone' = gone \union {g}
  BY DEF Delete
<1>2. gone \subseteq gone'
  BY <1>1
<1>3. RestOK'
  BY <1>1 DEF IInv, RestOK
<1>4. FileOK'
  <2>1. AllDue(ToSet(Saved(file.token)), file.store, gone')
    BY <1>2, DueDeletion DEF IInv, FileOK
  <2> QED BY <1>1, <2>1 DEF IInv, FileOK
<1>5. TokenOK'
  <2>1. AllDue(ToSet(Saved(token)), store, gone')
    BY <1>2, DueDeletion DEF IInv, TokenOK
  <2> QED BY <1>1, <2>1 DEF IInv, TokenOK
<1>6. StackInv'
  <2>1. running => AllDue(ToSet(stack), store, gone')
    BY <1>2, DueDeletion DEF IInv, StackInv
  <2> QED BY <1>1, <2>1 DEF IInv, StackInv
<1> QED BY <1>1, <1>3, <1>4, <1>5, <1>6 DEF IInv

(* After a checkpoint of a step that changes neither stack nor store, the  *)
(* token is in order.                                                      *)
LEMMA CheckpointInv ==
  ASSUME IInv, running, stack # NoAction, Checkpoint, UNCHANGED <<stack, store, gone>>
  PROVE  TokenOK' /\ fresh' \in BOOLEAN
<1>1. StackOK(stack, store) /\ AllDue(ToSet(stack), store, gone)
  BY DEF IInv, StackInv
<1>2. StackOK(Saved(token), store) /\ AllDue(ToSet(Saved(token)), store, gone)
      /\ Behind(stack, token)
  BY DEF IInv, TokenOK
<1>3. token' \in {token, stack} /\ fresh' = FALSE
  BY DEF Checkpoint
<1>4. Grows(store, store)
  BY DEF Grows
<1>5. /\ StackOK(Saved(token'), store)
      /\ AllDue(ToSet(Saved(token')), store, gone)
      /\ Behind(stack, token')
  BY <1>1, <1>2, <1>3, <1>4, SavedToken
<1> QED BY <1>3, <1>5 DEF TokenOK

(* By the end of a run: the file gets the token and the store, or is empty *)
(* again.                                                                  *)
LEMMA CloseInv ==
  ASSUME IInv, TokenOK', fresh' \in BOOLEAN, faults' \in 0 .. MaxFaults,
         UNCHANGED <<stack, store, warnings, resumed, gone>>,
         NEW how \in {"done", "failed", "panic"}, Close(how)
  PROVE  IInv'
<1>1. running' = FALSE /\ outcome' = how /\ cache' \subseteq OwnedApps
  BY DEF Close, IInv, RestOK
<1>2. RestOK'
  BY <1>1 DEF IInv, RestOK
<1>3. StoreOK(store')
  BY DEF IInv
<1>4. FileOK'
  <2>1. CASE Local
    <3>1. file' = [token |-> token', store |-> store', open |-> how # "done"]
      BY <2>1 DEF Close
    <3> QED BY <1>3, <3>1 DEF FileOK, TokenOK
  <2>2. CASE ~Local
    <3>1. file' = EmptyFile
      BY <2>2 DEF Close
    <3> QED BY <3>1, EmptyFileOK DEF FileOK
  <2> QED BY <2>1, <2>2
<1>5. StackInv'
  BY <1>1 DEF IInv, StackInv
<1> QED BY <1>2, <1>3, <1>4, <1>5 DEF IInv

(* By the panic on an application that is not cached.                      *)
LEMMA NilAppInv == ASSUME IInv, NilApp PROVE IInv'
<1>1. running /\ stack # NoAction /\ Checkpoint /\ Close("panic")
      /\ UNCHANGED <<stack, store, warnings, resumed, gone, faults>>
  BY DEF NilApp, Handles
<1>2. TokenOK' /\ fresh' \in BOOLEAN
  BY <1>1, CheckpointInv
<1>3. faults' \in 0 .. MaxFaults
  BY <1>1 DEF IInv, RestOK
<1> QED BY <1>1, <1>2, <1>3, CloseInv

(* By the end after too many warnings.                                     *)
LEMMA TooManyWarningsInv == ASSUME IInv, TooManyWarnings PROVE IInv'
<1>1. running /\ stack # NoAction /\ Checkpoint /\ Close("failed")
      /\ UNCHANGED <<stack, store, warnings, resumed, gone, faults>>
  BY DEF TooManyWarnings
<1>2. TokenOK' /\ fresh' \in BOOLEAN
  BY <1>1, CheckpointInv
<1>3. faults' \in 0 .. MaxFaults
  BY <1>1 DEF IInv, RestOK
<1> QED BY <1>1, <1>2, <1>3, CloseInv

(* By an error.                                                            *)
LEMMA FailInv == ASSUME IInv, Fail PROVE IInv'
<1>1. running /\ stack # NoAction /\ Checkpoint /\ Close("failed")
      /\ UNCHANGED <<stack, store, warnings, resumed, gone>>
  BY DEF Fail, Handles
<1>2. TokenOK' /\ fresh' \in BOOLEAN
  BY <1>1, CheckpointInv
<1>3. faults' \in 0 .. MaxFaults
  BY SyncRunAssumption DEF Fail, IInv, RestOK
<1> QED BY <1>1, <1>2, <1>3, CloseInv

(* By a request that is tried again.                                       *)
LEMMA RetryInv == ASSUME IInv, Retry PROVE IInv'
<1>1. running /\ stack # NoAction /\ Checkpoint
      /\ UNCHANGED <<running, stack, store, file, cache, warnings, resumed, gone, outcome>>
  BY DEF Retry, Handles
<1>2. TokenOK' /\ fresh' \in BOOLEAN
  BY <1>1, CheckpointInv
<1>3. faults' \in 0 .. MaxFaults
  BY SyncRunAssumption DEF Retry, IInv, RestOK
<1>4. RestOK' /\ FileOK' /\ StoreOK(store') /\ StackInv'
  BY <1>1, <1>2, <1>3 DEF IInv, RestOK, FileOK, StackInv
<1> QED BY <1>2, <1>4 DEF IInv

(* By the end of a sync.                                                   *)
LEMMA FinishInv == ASSUME IInv, Finish PROVE IInv'
<1>1. Close("done") /\ UNCHANGED <<stack, token, store, fresh, warnings, resumed, gone, faults>>
  BY DEF Finish
<1>2. TokenOK' /\ fresh' \in BOOLEAN /\ faults' \in 0 .. MaxFaults
  BY <1>1 DEF IInv, TokenOK, RestOK
<1> QED BY <1>1, <1>2, CloseInv

(* Every step keeps the invariant.                                         *)
LEMMA IInvInductive == IInv /\ [Next]_vars => IInv'
<1> SUFFICES ASSUME IInv, [Next]_vars PROVE IInv'
  OBVIOUS
<1>1. CASE Start BY <1>1, StartInv
<1>2. CASE Begin BY <1>2, BeginInv
<1>3. CASE PassOver BY <1>3, PassOverInv
<1>4. CASE SyncTypes BY <1>4, SyncTypesInv
<1>5. CASE SyncResources BY <1>5, SyncResourcesInv
<1>6. CASE SyncEach("entitlements") BY <1>6, SyncEachInv
<1>7. CASE SyncEach("grants") BY <1>7, SyncEachInv
<1>8. CASE SyncEntitlements BY <1>8, SyncEntitlementsInv
<1>9. CASE SyncGrants BY <1>9, SyncGrantsInv
<1>10. CASE NilApp BY <1>10, NilAppInv
<1>11. CASE GroupNotFound BY <1>11, GroupNotFoundInv
<1>12. CASE TooManyWarnings BY <1>12, TooManyWarningsInv
<1>13. CASE Finish BY <1>13, FinishInv
<1>14. CASE Retry BY <1>14, RetryInv
<1>15. CASE Fail BY <1>15, FailInv
<1>16. CASE Crash BY <1>16, CrashInv
<1>17. ASSUME NEW g \in Listed("group"), Delete(g) PROVE IInv'
  BY <1>17, DeleteInv
<1>18. CASE UNCHANGED vars
  BY <1>18 DEF vars, IInv, RestOK, FileOK, TokenOK, StackInv
<1> QED
  BY <1>1, <1>2, <1>3, <1>4, <1>5, <1>6, <1>7, <1>8, <1>9, <1>10, <1>11, <1>12, <1>13,
     <1>14, <1>15, <1>16, <1>17, <1>18 DEF Next, Iterate

(* At every moment the stack, the saved token and the file's token are in  *)
(* the order of the phases, and their actions owe whatever the store that  *)
(* belongs to them lacks (syncer.Sync's loop and Checkpoint).              *)
THEOREM IInvAlways == Spec => []IInv
<1>1. Init => IInv
  BY InitInv
<1>2. IInv /\ [Next]_vars => IInv'
  BY IInvInductive
<1> QED BY <1>1, <1>2, PTL DEF Spec

-----------------------------------------------------------------------------
(* What follows from the invariant *)

(* A stack in order is of typed actions.                                   *)
LEMMA ActionsTyped ==
  ASSUME NEW s, NEW st, StackOK(s, st)
  PROVE  TokenTyped(s)
<1>1. s \in Seq(Actions) /\ \A a \in ToSet(s) : ActionOK(a, st)
  BY DEF StackOK
<1>2. \A n \in DOMAIN s : s[n] \in Actions /\ ActionOK(s[n], st)
  BY <1>1 DEF ToSet
<1>3. ASSUME NEW a \in Actions, ActionOK(a, st) PROVE ActionTyped(a)
  <2>1. a.op \in Ops /\ a.type \in ToSet(Types) \union {NoType} /\ a.parent \in Parents
        /\ a.pages \in Seq(PageState)
    BY DEF Actions
  <2>2. a.parent # NoId => a.type \in ChildTypes
    <3>1. CASE a = RootAction(a.op)
      BY <3>1 DEF RootAction, ActionOn
    <3>2. CASE IsListAction(a)
      BY <3>2 DEF IsListAction
    <3>3. CASE IsEachAction(a, st)
      BY <3>3 DEF IsEachAction
    <3> QED BY <1>3, <3>1, <3>2, <3>3 DEF ActionOK
  <2>3. \A n \in DOMAIN a.pages : a.pages[n] \in PageState
    BY <2>1
  <2>4. \A n \in DOMAIN a.pages : a.pages[n].listing \in Listings /\ a.pages[n].page \in Nat
    BY <2>3 DEF PageState
  <2> QED BY <2>1, <2>2, <2>4 DEF ActionTyped, Ops
<1> QED BY <1>2, <1>3 DEF TokenTyped

(* So is a token.                                                          *)
LEMMA TokensTyped ==
  ASSUME NEW tk, NEW st, StackOK(Saved(tk), st)
  PROVE  TokenTyped(tk)
<1>1. CASE tk = NoAction
  BY <1>1 DEF TokenTyped, NoAction
<1>2. CASE tk # NoAction
  <2>1. Saved(tk) = tk
    BY <1>2 DEF Saved
  <2> QED BY <2>1, ActionsTyped
<1> QED BY <1>1, <1>2

(* Whatever is retried, killed, resumed and deleted, the actions on the    *)
(* stack, in the token and in the file are ones that the loop can handle   *)
(* (no listing of a top type below a parent, no page of an unknown         *)
(* listing), every stored resource is of a known type and of this tenant,  *)
(* and every grant is on a stored resource.                                *)
THEOREM TypesCorrect == Spec => []TypeOK
<1>1. IInv => TypeOK
  <2> SUFFICES ASSUME IInv PROVE TypeOK
    OBVIOUS
  <2>1. TokenTyped(stack) /\ TokenTyped(token) /\ TokenTyped(file.token)
    BY ActionsTyped, TokensTyped DEF IInv, StackInv, TokenOK, FileOK
  <2>2. \A r \in Stored : TypeOf(r) \in ToSet(Types) /\ ~Foreign(r)
    <3>1. store.resources \in Seq(Objects) /\ \A r \in In(store) : ~Foreign(r)
      BY DEF IInv, StoreOK
    <3>2. In(store) = Stored
      BY DEF In, Stored
    <3>3. Stored \subseteq Objects
      BY <3>1 DEF Stored, ToSet
    <3> QED BY <3>1, <3>2, <3>3 DEF Objects, TypeOf
  <2>3. \A g \in store.grants : g.on \in Stored /\ g.who \in Principals
    BY DEF IInv, StoreOK, In, Stored
  <2> QED BY <2>1, <2>2, <2>3 DEF IInv, RestOK, TypeOK
<1> QED BY <1>1, IInvAlways, PTL

(* No grant is stored before its entitlement, in a resumed run either: the *)
(* grants phase begins when no action of the entitlements phase is left    *)
(* (the order in which syncer.Sync pushes the phases, and FinishAction's   *)
(* stack).                                                                 *)
THEOREM EntitlementsComeFirst == Spec => []EntitlementsFirst
<1>1. IInv => EntitlementsFirst
  BY DEF IInv, StoreOK, EntitlementsFirst
<1> QED BY <1>1, IInvAlways, PTL

(* When the stack is empty, nothing is due.                                *)
LEMMA NothingDue ==
  ASSUME IInv, Finish
  PROVE  AllDue({}, store, gone) /\ (~resumed => ChildrenDue({}, store))
<1>1. running /\ stack = NoAction
  BY DEF Finish
<1>2. ToSet(stack) = {}
  BY <1>1 DEF NoAction, ToSet
<1> QED BY <1>1, <1>2 DEF IInv, StackInv

(* Then every listed resource is stored, gone or foreign.                  *)
LEMMA AllListed ==
  ASSUME NEW gn, ResourcesDue({}, store, gn)
  PROVE  \A t \in ToSet(Types) \ ChildTypes : \A i \in Listed(t) :
           \/ t \in GraphTypes /\ i \in gn
           \/ <<t, i>> \in Stored \/ Foreign(<<t, i>>)
BY DEF ResourcesDue, Begun, In, Stored

(* What nothing being due means: the store is complete.                    *)
LEMMA FinishComplete ==
  ASSUME IInv, Finish, PagesAreFull
  PROVE  FinishedComplete'
<1>1. /\ ResourcesDue({}, store, gone) /\ EntitlementsDue({}, store)
      /\ AssignmentsDue({}, store) /\ LinksDue({}, store, gone)
  BY NothingDue DEF AllDue
<1>2. UNCHANGED <<store, gone>>
  BY DEF Finish
<1>3. \A t \in ToSet(Types) \ ChildTypes : \A i \in Listed(t) \ gone :
        <<t, i>> \in Stored \/ Foreign(<<t, i>>)
  BY <1>1, AllListed
<1>4. \A r \in Stored : ListEntitlements(r) \subseteq store.entitlements
  BY <1>1 DEF EntitlementsDue, Begun, In, Stored
<1>5. ASSUME NEW g \in Listed("group") \ gone PROVE Edges(g) \subseteq store.grants
  <2>1. "group" \in ToSet(Types) \ ChildTypes
    BY DEF Listed, ChildTypes
  <2>2. <<"group", g>> \in In(store)
    BY <1>3, <2>1 DEF Foreign, TypeOf, In, Stored
  <2> SUFFICES ASSUME NEW x \in Edges(g) PROVE x \in store.grants
    OBVIOUS
  <2>3. PICK l \in {"owners", "members"} :
          \E page \in Range(LinkPages[l][g]) :
             x \in {Grant(<<"group", g>>, l, p) : p \in {q \in page.who : Granted(l, q)}}
    BY DEF Edges
  <2>4. PICK page \in Range(LinkPages[l][g]) :
             x \in {Grant(<<"group", g>>, l, p) : p \in {q \in page.who : Granted(l, q)}}
    BY <2>3
  <2>5. PICK p \in page.who : Granted(l, p) /\ x = Grant(<<"group", g>>, l, p)
    BY <2>4
  <2>6. PICK n \in DOMAIN LinkPages[l][g] : page = LinkPages[l][g][n]
    BY <2>4 DEF Range
  <2>7. DOMAIN LinkPages[l][g] = 1 .. Len(LinkPages[l][g])
    BY LinkPagesTyped
  <2>8. n \in 1 .. Len(LinkPages[l][g]) /\ p \in LinkPages[l][g][n].who
    BY <2>5, <2>6, <2>7
  <2> QED BY <1>1, <2>2, <2>5, <2>8 DEF LinksDue, Begun
<1>6. \A r \in Stored : TypeOf(r) = "enterprise_application" =>
        \A x \in Assigned[IdOf(r)] : Grant(r, x[2], x[1]) \in store.grants
  BY <1>1 DEF AssignmentsDue, Begun, In, Stored
<1> QED BY <1>2, <1>3, <1>4, <1>5, <1>6 DEF FinishedComplete, Stored

(* And a run in one go has stored what is below the subscriptions.         *)
LEMMA FinishHierarchy ==
  ASSUME IInv, Finish
  PROVE  HierarchyComplete'
<1>1. UNCHANGED <<store, gone, resumed>>
  BY DEF Finish
<1> SUFFICES ASSUME ~resumed PROVE ChildrenStored
  BY <1>1 DEF HierarchyComplete, ChildrenStored, Stored
<1>2. ResourcesDue({}, store, gone) /\ ChildrenDue({}, store)
  BY NothingDue DEF AllDue
<1>3. \A s \in Listed("subscription") : <<"subscription", s>> \in In(store)
  <2>1. Listed("subscription") # {} => "subscription" \in ToSet(Types) \ ChildTypes
    BY DEF Listed, ChildTypes
  <2>2. "subscription" \notin GraphTypes /\ \A s : ~Foreign(<<"subscription", s>>)
    BY DEF GraphTypes, Foreign, TypeOf
  <2> QED BY <1>2, <2>1, <2>2, AllListed DEF In, Stored
<1>4. ASSUME NEW s \in Listed("subscription"), NEW t \in ChildTypes, NEW name \in NamesBelow(t, s)
      PROVE  <<t, ChildId(t, name, s)>> \in Stored
  <2>1. t \in ToSet(Types) \intersect ChildTypes
    BY DEF NamesBelow
  <2> QED BY <1>2, <1>3, <2>1 DEF ChildrenDue, In, Stored
<1>5. \A s, name : /\ ChildId("resource_group", name, s) = name
                   /\ ChildId("role", name, s) = <<name, s>>
  BY DEF ChildId
<1>6. "resource_group" \in ChildTypes /\ "role" \in ChildTypes
  BY DEF ChildTypes
<1>7. \A s \in Listed("subscription") : \A name \in NamesBelow("resource_group", s) :
        <<"resource_group", name>> \in Stored
  <2> TAKE s \in Listed("subscription")
  <2> TAKE name \in NamesBelow("resource_group", s)
  <2>1. <<"resource_group", ChildId("resource_group", name, s)>> \in Stored
    BY <1>4, <1>6
  <2> QED BY <1>5, <2>1
<1>8. \A s \in Listed("subscription") : \A name \in NamesBelow("role", s) :
        <<"role", <<name, s>>>> \in Stored
  <2> TAKE s \in Listed("subscription")
  <2> TAKE name \in NamesBelow("role", s)
  <2>1. <<"role", ChildId("role", name, s)>> \in Stored
    BY <1>4, <1>6
  <2> QED BY <1>5, <2>1
<1> QED BY <1>7, <1>8 DEF ChildrenStored

(* After the end of a sync, or a panic, nothing but a deletion happens     *)
(* until the next run starts.                                              *)
LEMMA StaysEnded ==
  ASSUME IInv, [Next]_vars
  PROVE  \/ Finish
         \/ NilApp /\ outcome' = "panic"
         \/ outcome' \notin {"done", "panic"}
         \/ UNCHANGED <<store, outcome, resumed>> /\ gone \subseteq gone'
<1> SUFFICES ASSUME ~Finish, outcome' \in {"done", "panic"}
             PROVE  \/ NilApp /\ outcome' = "panic"
                    \/ UNCHANGED <<store, outcome, resumed>> /\ gone \subseteq gone'
  OBVIOUS
<1>1. CASE UNCHANGED vars
  BY <1>1 DEF vars
<1>2. ASSUME NEW g, Delete(g) PROVE UNCHANGED <<store, outcome, resumed>> /\ gone \subseteq gone'
  BY <1>2 DEF Delete
<1>3. running => outcome = "none"
  BY DEF IInv, RestOK
<1>4. ~Start /\ ~Crash
  BY DEF Start, Crash
<1>5. ~TooManyWarnings /\ ~Fail
  BY DEF TooManyWarnings, Fail, Close
<1>6. ~Retry
  BY <1>3 DEF Retry, Handles
<1>7. ~Begin /\ ~PassOver /\ ~SyncTypes /\ ~SyncResources
  BY <1>3 DEF Begin, PassOver, SyncTypes, SyncResources, Handles, GoOn
<1>8. ~SyncEach("entitlements") /\ ~SyncEach("grants")
  BY <1>3 DEF SyncEach, Handles, GoOn
<1>9. ~SyncEntitlements /\ ~SyncGrants /\ ~GroupNotFound
  BY <1>3 DEF SyncEntitlements, SyncGrants, GroupNotFound, Handles, GoOn
<1>10. NilApp => outcome' = "panic"
  BY DEF NilApp, Close
<1> QED BY <1>1, <1>2, <1>4, <1>5, <1>6, <1>7, <1>8, <1>9, <1>10 DEF Next, Iterate

(* A deletion leaves a complete store complete.                            *)
LEMMA CompletenessKept ==
  ASSUME UNCHANGED <<store, outcome, resumed>>, gone \subseteq gone'
  PROVE  /\ FinishedComplete => FinishedComplete'
         /\ HierarchyComplete => HierarchyComplete'
BY DEF FinishedComplete, HierarchyComplete, ChildrenStored, Stored

(* A sync that ends without error has stored every listed resource that    *)
(* still exists, the entitlements of every stored one, every grant of      *)
(* every such group and every assignment of every application, whatever    *)
(* was retried, failed, killed and resumed on the way, for every number of *)
(* objects and pages, as long as every page of owners or members that      *)
(* another one follows has more than 50 entries (getGroupGrants drops the  *)
(* link of a shorter one).                                                 *)
THEOREM FinishedRunsAreComplete ==
  ASSUME PagesAreFull
  PROVE  Spec => []FinishedComplete
<1>1. Init => FinishedComplete
  BY DEF Init, FinishedComplete
<1>2. IInv /\ FinishedComplete /\ [Next]_vars => FinishedComplete'
  <2> SUFFICES ASSUME IInv, FinishedComplete, [Next]_vars PROVE FinishedComplete'
    OBVIOUS
  <2>1. CASE Finish
    BY <2>1, FinishComplete
  <2>2. CASE ~Finish /\ outcome' = "done"
    BY <2>2, StaysEnded, CompletenessKept
  <2>3. CASE outcome' # "done"
    BY <2>3 DEF FinishedComplete
  <2> QED BY <2>1, <2>2, <2>3
<1> QED BY <1>1, <1>2, IInvAlways, PTL DEF Spec

(* A sync that ran in one go has stored every resource group and every     *)
(* role of every subscription: the actions that SyncResources pushes for   *)
(* the children of what it stores are handled before the phase ends.       *)
THEOREM HierarchyIsComplete == Spec => []HierarchyComplete
<1>1. Init => HierarchyComplete
  BY DEF Init, HierarchyComplete
<1>2. IInv /\ HierarchyComplete /\ [Next]_vars => HierarchyComplete'
  <2> SUFFICES ASSUME IInv, HierarchyComplete, [Next]_vars PROVE HierarchyComplete'
    OBVIOUS
  <2>1. CASE Finish
    BY <2>1, FinishHierarchy
  <2>2. CASE ~Finish /\ outcome' = "done"
    BY <2>2, StaysEnded, CompletenessKept
  <2>3. CASE outcome' # "done"
    BY <2>3 DEF HierarchyComplete
  <2> QED BY <2>1, <2>2, <2>3
<1> QED BY <1>1, <1>2, IInvAlways, PTL DEF Spec

-----------------------------------------------------------------------------
(* Panics *)

\* In a run from the beginning, the applications of the store are cached.
AppsCached ==
  running /\ ~resumed =>
    \A r \in In(store) : TypeOf(r) = "enterprise_application" => IdOf(r) \in cache

(* What SyncResources stores was in the answer, or in the store before.    *)
LEMMA StoredByList ==
  ASSUME IInv, SyncResources
  PROVE  In(store') \subseteq In(store) \union ToSet(AnswerTo(Current, gone).list)
<1> DEFINE ans == AnswerTo(Current, gone)
           new == NewOf(ans)
<1>1. running /\ stack # NoAction /\ Current.op = "resources" /\ ~AtRoot
      /\ store' = [store EXCEPT !.resources = @ \o new]
  BY DEF SyncResources, Handles, AnswerTo
<1>2. StoreOK(store) /\ IsListAction(Current) /\ Current \in Actions
  BY <1>1, Handling, HandledKind
<1>3. ans.list \in Seq(Objects)
  BY <1>2, ListAnswer
<1> HIDE DEF ans
<1>4. new \in Seq(Objects) /\ ToSet(new) \subseteq ToSet(ans.list)
  BY <1>3, WithoutMembers DEF NewOf
<1> HIDE DEF new
<1>5. store.resources \in Seq(Objects) /\ store'.resources = store.resources \o new
  BY <1>1, <1>2 DEF StoreOK
<1>6. ToSet(store.resources \o new) = ToSet(store.resources) \union ToSet(new)
  BY <1>4, <1>5, ConcatMembers
<1> QED BY <1>4, <1>5, <1>6 DEF In, ans

(* List caches the applications before the syncer stores them.             *)
LEMMA AppsStayCached ==
  ASSUME IInv, AppsCached, [Next]_vars
  PROVE  AppsCached'
<1>1. CASE Start
  <2>1. ~resumed' => store' = EmptyStore
    BY <1>1 DEF Start, Resume, StartNewSync
  <2> QED BY <2>1, EmptyStoreOK DEF AppsCached
<1>2. CASE SyncResources
  <2> DEFINE ans == AnswerTo(Current, gone)
  <2>1. running /\ GoOn /\ cache' = cache \union AppsOf(ans)
    BY <1>2 DEF SyncResources, Handles, AnswerTo
  <2>2. In(store') \subseteq In(store) \union ToSet(ans.list)
    BY <1>2, StoredByList
  <2> HIDE DEF ans
  <2>3. \A r \in ToSet(ans.list) : TypeOf(r) = "enterprise_application" => IdOf(r) \in cache'
    BY <2>1 DEF AppsOf
  <2> QED BY <2>1, <2>2, <2>3 DEF AppsCached, GoOn
<1>3. CASE Begin \/ PassOver \/ SyncTypes \/ SyncEach("entitlements") \/ SyncEach("grants")
           \/ SyncEntitlements \/ SyncGrants \/ GroupNotFound
  <2>1. GoOn /\ UNCHANGED cache
    BY <1>3 DEF Begin, PassOver, SyncTypes, SyncEach, SyncEntitlements, SyncGrants, GroupNotFound
  <2>2. In(store') = In(store)
    <3>1. CASE SyncEntitlements
      BY <3>1 DEF SyncEntitlements, In, IInv, StoreOK
    <3>2. CASE SyncGrants
      BY <3>2 DEF SyncGrants, In, IInv, StoreOK
    <3>3. CASE Begin \/ PassOver \/ SyncTypes \/ SyncEach("entitlements") \/ SyncEach("grants")
               \/ GroupNotFound
      BY <3>3 DEF Begin, PassOver, SyncTypes, SyncEach, GroupNotFound
    <3> QED BY <1>3, <3>1, <3>2, <3>3
  <2> QED BY <2>1, <2>2 DEF AppsCached, GoOn
<1>4. CASE NilApp \/ TooManyWarnings \/ Finish \/ Fail \/ Crash
  <2>1. running' = FALSE
    BY <1>4 DEF NilApp, TooManyWarnings, Finish, Fail, Crash, Close
  <2> QED BY <2>1 DEF AppsCached
<1>5. CASE Retry
  BY <1>5 DEF Retry, AppsCached
<1>6. ASSUME NEW g, Delete(g) PROVE AppsCached'
  BY <1>6 DEF Delete, AppsCached
<1>7. CASE UNCHANGED vars
  BY <1>7 DEF vars, AppsCached
<1> QED BY <1>1, <1>2, <1>3, <1>4, <1>5, <1>6, <1>7 DEF Next, Iterate

(* The resource of an entitlements or grants action is stored.             *)
LEMMA PanicIsResumed ==
  ASSUME IInv, AppsCached, NilApp
  PROVE  resumed /\ UNCHANGED resumed
<1>1. running /\ stack # NoAction /\ ~AtRoot /\ Current.op \in {"entitlements", "grants"}
  BY DEF NilApp, Handles
<1>2. Resource \in In(store)
  BY <1>1, HandledKind DEF IsEachAction, Resource
<1>3. TypeOf(Resource) = "enterprise_application" /\ IdOf(Resource) \notin cache
  BY DEF NilApp, NotCached
<1> QED BY <1>1, <1>2, <1>3 DEF AppsCached, NilApp

(* The nil that cacheGet may return is met in resumed runs alone: whoever  *)
(* starts from the beginning never asks for entitlements or grants of an   *)
(* application that its own process has not listed, however often requests *)
(* fail, runs end and processes are killed.                                *)
THEOREM PanicsOnlyWhenResumed == Spec => []OnlyResumedPanic
<1> DEFINE Inv == AppsCached /\ OnlyResumedPanic
<1>1. Init => Inv
  BY DEF Init, AppsCached, OnlyResumedPanic
<1>2. IInv /\ Inv /\ [Next]_vars => Inv'
  <2> SUFFICES ASSUME IInv, Inv, [Next]_vars PROVE Inv'
    OBVIOUS
  <2>1. AppsCached'
    BY AppsStayCached
  <2>2. OnlyResumedPanic'
    BY StaysEnded, PanicIsResumed DEF OnlyResumedPanic, Finish, Close
  <2> QED BY <2>1, <2>2
<1>3. Inv => OnlyResumedPanic
  OBVIOUS
<1> QED BY <1>1, <1>2, <1>3, IInvAlways, PTL DEF Spec
=============================================================================

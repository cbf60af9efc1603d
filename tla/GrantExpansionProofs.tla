------------------------ MODULE GrantExpansionProofs ------------------------
(***************************************************************************)
(* Theorems about GrantExpansion, for every set of entitlements and        *)
(* principals, finite or not, every directory and every maximal depth.     *)
(*                                                                         *)
(* The argument.  The nodes of the graph are disjoint once cycles are      *)
(* merged, and what leads to the source of an edge is finished before the  *)
(* edge is queued (AncestorsInv): so the grants that an action takes do    *)
(* not change while it goes from page to page, and a page that is done     *)
(* stays done (ProgressInv).  At the end the grants are closed under the   *)
(* edges; since a step adds only what the closure has (WithinInv), they    *)
(* are the closure.                                                        *)
(***************************************************************************)
EXTENDS GrantExpansion, TLAPS

-----------------------------------------------------------------------------
(* The nodes that FixCycles makes *)

(* An entitlement reaches itself.                                          *)
LEMMA ReachableRefl ==
  ASSUME NEW E, NEW e \in Entitlements
  PROVE  e \in Reachable(E)[e]
BY DEF Reachable

(* What is reached from what is reached is reached.                        *)
LEMMA ReachableTrans ==
  ASSUME NEW E, NEW e \in Entitlements, NEW f \in Reachable(E)[e], NEW g \in Reachable(E)[f]
  PROVE  g \in Reachable(E)[e]
BY DEF Reachable

(* More edges reach no less.                                               *)
LEMMA ReachableMonotonic ==
  ASSUME NEW E, NEW F, E \subseteq F, NEW e \in Entitlements
  PROVE  Reachable(E)[e] \subseteq Reachable(F)[e]
BY DEF Reachable, ClosedUnder

(* Who is in a node: the entitlements of a cycle with this one.            *)
LEMMA NodeMembers ==
  ASSUME NEW E, NEW e \in Entitlements, NEW f
  PROVE  f \in NodeOf(E)[e] <=>
           f \in Entitlements /\ f \in Reachable(E)[e] /\ e \in Reachable(E)[f]
BY DEF NodeOf, Reachable

(* The nodes are the classes of an equivalence: each entitlement is in its *)
(* own, and is in no other.                                                *)
LEMMA NodesAreClasses ==
  ASSUME NEW E, NEW e \in Entitlements
  PROVE  /\ e \in NodeOf(E)[e]
         /\ NodeOf(E)[e] \subseteq Entitlements
         /\ \A f \in NodeOf(E)[e] : NodeOf(E)[f] = NodeOf(E)[e]
<1>1. e \in NodeOf(E)[e] /\ NodeOf(E)[e] \subseteq Entitlements
  BY ReachableRefl, NodeMembers
<1>2. ASSUME NEW f \in NodeOf(E)[e]
      PROVE  NodeOf(E)[f] = NodeOf(E)[e]
  <2>1. f \in Entitlements /\ f \in Reachable(E)[e] /\ e \in Reachable(E)[f]
    BY NodeMembers
  <2>2. ASSUME NEW g PROVE g \in NodeOf(E)[f] <=> g \in NodeOf(E)[e]
    <3>1. g \in NodeOf(E)[f] <=>
            g \in Entitlements /\ g \in Reachable(E)[f] /\ f \in Reachable(E)[g]
      BY <2>1, NodeMembers
    <3>2. g \in NodeOf(E)[e] <=>
            g \in Entitlements /\ g \in Reachable(E)[e] /\ e \in Reachable(E)[g]
      BY NodeMembers
    <3>3. QED BY <2>1, <3>1, <3>2, ReachableTrans
  <2>3. QED BY <2>2 DEF NodeOf
<1>3. QED BY <1>1, <1>2

(* More edges merge no less.                                               *)
LEMMA NodesMonotonic ==
  ASSUME NEW E, NEW F, E \subseteq F, NEW e \in Entitlements
  PROVE  NodeOf(E)[e] \subseteq NodeOf(F)[e]
BY NodeMembers, ReachableMonotonic

(* Before cycles are merged, an edge leads from one entitlement to one.    *)
Pairs(E) ==
  \A x \in E : /\ \E e \in Entitlements : x.from = {e}
               /\ \E f \in Entitlements : x.to = {f}

(* It is so of all the edges that are loaded.                              *)
LEMMA EdgesArePairs ==
  ASSUME NEW d, DirectoryTyped(d), NEW grants \in SUBSET d.grants
  PROVE  Pairs(EdgesOf(d, grants))
BY DEF DirectoryTyped, EdgesOf, Edge, Pairs

(* The edge x that FixCycles leaves stands for y of E, from e to f.        *)
Merged(E, x, y, e, f) ==
  /\ y.from = {e} /\ y.to = {f}
  /\ x.from = NodeOf(E)[e] /\ x.to = NodeOf(E)[f]

(* An edge that FixCycles leaves leads from a node to another, stands for  *)
(* an edge that was loaded, and is relevant to a principal only if one     *)
(* such edge is.                                                           *)
LEMMA FixedEdges ==
  ASSUME NEW E, Pairs(E), NEW x \in FixCycles(E)
  PROVE  /\ x.from # x.to
         /\ \E y \in E : \E e, f \in Entitlements : Merged(E, x, y, e, f)
         /\ \A p : Relevant(x, p) =>
              \E y \in E : Relevant(y, p) /\ \E e, f \in Entitlements : Merged(E, x, y, e, f)
<1> DEFINE at(set) == UNION {NodeOf(E)[e] : e \in set}
           alike(z) == {y \in E : at(y.from) = at(z.from) /\ at(y.to) = at(z.to)}
<1>1. PICK z \in E : /\ at(z.from) # at(z.to)
                     /\ x.from = at(z.from) /\ x.to = at(z.to)
                     /\ x.kinds = UNION {y.kinds : y \in alike(z)}
  <2> DEFINE cyclic(n) == \E y \in E : y.from \subseteq n /\ y.to \subseteq n
             fixed(z) == [from |-> at(z.from), to |-> at(z.to),
                          shallow |-> z.shallow /\ ~cyclic(at(z.from)) /\ ~cyclic(at(z.to)),
                          kinds |-> UNION {y.kinds : y \in alike(z)}]
  <2>1. FixCycles(E) = {fixed(z) : z \in {y \in E : at(y.from) # at(y.to)}}
    BY DEF FixCycles
  <2>2. PICK z \in E : at(z.from) # at(z.to) /\ x = fixed(z)
    BY <2>1
  <2>3. QED BY <2>2
<1>2. ASSUME NEW y \in alike(z)
      PROVE  \E e, f \in Entitlements : Merged(E, x, y, e, f)
  <2>1. PICK e \in Entitlements, f \in Entitlements : y.from = {e} /\ y.to = {f}
    BY DEF Pairs
  <2>2. at(y.from) = NodeOf(E)[e] /\ at(y.to) = NodeOf(E)[f]
    BY <2>1
  <2>3. QED BY <1>1, <2>1, <2>2 DEF Merged
<1>3. z \in alike(z)
  OBVIOUS
<1>4. ASSUME NEW p, Relevant(x, p)
      PROVE  \E y \in alike(z) : Relevant(y, p)
  BY <1>1, <1>3, <1>4 DEF Relevant
<1>5. QED BY <1>1, <1>2, <1>3, <1>4

(* The nodes that the edges lead from and to are not empty, and equal or   *)
(* disjoint.                                                               *)
LEMMA NodesOfEdges ==
  ASSUME NEW E, Pairs(E), NEW x \in FixCycles(E), NEW y \in FixCycles(E)
  PROVE  /\ x.from \subseteq Entitlements /\ x.to \subseteq Entitlements
         /\ x.from # {} /\ x.to # {}
         /\ x.from \cap x.to = {}
         /\ x.from = y.to \/ x.from \cap y.to = {}
<1>1. PICK e \in Entitlements, f \in Entitlements :
        x.from = NodeOf(E)[e] /\ x.to = NodeOf(E)[f] /\ x.from # x.to
  BY FixedEdges DEF Merged
<1>2. PICK h \in Entitlements : y.to = NodeOf(E)[h]
  BY FixedEdges DEF Merged
<1>3. QED BY <1>1, <1>2, NodesAreClasses

(* A run that begins at a later page has part of the annotations.          *)
LEMMA LoadedIsPart ==
  ASSUME NEW d, DirectoryTyped(d), NEW n
  PROVE  LoadedFrom(d, n) \subseteq AllEdges(d) /\ Pairs(LoadedFrom(d, n)) /\ Pairs(AllEdges(d))
BY EdgesArePairs DEF LoadedFrom, AllEdges, EdgesOf

(* One that begins at the first page has them all.                         *)
LEMMA LoadedFromFirst ==
  ASSUME NEW d, DirectoryTyped(d)
  PROVE  LoadedFrom(d, 1) = AllEdges(d)
<1>1. \A g \in d.grants : g.page >= 1
  BY DEF DirectoryTyped
<1>2. {g \in d.grants : g.page >= 1} = d.grants
  BY <1>1
<1>3. QED BY <1>2 DEF LoadedFrom, AllEdges

(* Reaches allows all that an edge can bring to a principal, of a run that *)
(* begins at any page.                                                     *)
LEMMA EdgesReach ==
  ASSUME NEW d \in Directories, NEW n, NEW x \in FixCycles(LoadedFrom(d, n)),
         NEW e \in x.from, NEW f \in x.to, NEW p \in Principals, Relevant(x, p)
  PROVE  <<e, f, p>> \in Reaches[d]
<1>1. DirectoryTyped(d)
  BY GrantExpansionAssumption
<1>2. LoadedFrom(d, n) \subseteq AllEdges(d) /\ Pairs(LoadedFrom(d, n))
  BY <1>1, LoadedIsPart
<1>3. PICK y \in LoadedFrom(d, n), s \in Entitlements, t \in Entitlements :
        Relevant(y, p) /\ Merged(LoadedFrom(d, n), x, y, s, t)
  BY <1>2, FixedEdges
<1>4. e \in NodeOf(AllEdges(d))[s] /\ f \in NodeOf(AllEdges(d))[t]
  BY <1>2, <1>3, NodesMonotonic DEF Merged
<1>5. e \in Entitlements /\ f \in Entitlements /\ s \in NodeOf(AllEdges(d))[e]
      /\ t \in NodeOf(AllEdges(d))[f]
  BY <1>4, NodesAreClasses
<1>6. QED BY <1>2, <1>3, <1>5 DEF Reaches, Merged

-----------------------------------------------------------------------------
(* The closure of a directory *)

(* What a principal has been granted is in the closure.                    *)
LEMMA ClosureOfBase ==
  ASSUME NEW d, DirectoryTyped(d)
  PROVE  Base(d) \subseteq ClosureOf(d)
BY DEF ClosureOf, Suffices, Base, DirectoryTyped

(* What an edge brings to a grant of the closure is in the closure.        *)
LEMMA ClosureIsClosed ==
  ASSUME NEW d, DirectoryTyped(d), NEW x \in FixCycles(AllEdges(d)), 
         NEW e \in x.from, NEW f \in x.to, NEW p \in Principals,
         Relevant(x, p), <<e, p>> \in Sources(d, x, ClosureOf(d))
  PROVE  <<f, p>> \in ClosureOf(d)
<1>1. x.from \subseteq Entitlements /\ x.to \subseteq Entitlements
  BY LoadedIsPart, NodesOfEdges
<1>2. ASSUME NEW S \in SUBSET Entitlements, Suffices(d, p, S) PROVE f \in S
  <2>1. <<e, p>> \in Base(d) \/ e \in S
    BY <1>1, <1>2 DEF Sources, ClosureOf
  <2>2. e \in S
    BY <2>1, <1>1, <1>2 DEF Suffices
  <2>3. <<e, p>> \in Sources(d, x, S \X {p})
    BY <2>2 DEF Sources
  <2>4. QED BY <2>3, <1>2 DEF Suffices
<1>3. QED BY <1>1, <1>2 DEF ClosureOf

(* No less has the grants and is closed under the edges.                   *)
LEMMA ClosureIsLeast ==
  ASSUME NEW d, NEW H, H \subseteq Entitlements \X Principals, Base(d) \subseteq H,
         \A x \in FixCycles(AllEdges(d)) : \A e \in x.from, f \in x.to : \A p \in Principals :
           Relevant(x, p) /\ <<e, p>> \in Sources(d, x, H) => <<f, p>> \in H
  PROVE  ClosureOf(d) \subseteq H
<1> SUFFICES ASSUME NEW e \in Entitlements, NEW p \in Principals, <<e, p>> \in ClosureOf(d)
             PROVE  <<e, p>> \in H
  BY DEF ClosureOf
<1> DEFINE S == {f \in Entitlements : <<f, p>> \in H}
<1>1. \A x \in FixCycles(AllEdges(d)) : \A g :
        <<g, p>> \in Sources(d, x, S \X {p}) => <<g, p>> \in Sources(d, x, H)
  BY DEF Sources
<1>2. Suffices(d, p, S)
  BY <1>1 DEF Suffices
<1>3. \A T \in SUBSET Entitlements : Suffices(d, p, T) => e \in T
  BY DEF ClosureOf
<1>4. S \in SUBSET Entitlements
  OBVIOUS
<1>5. e \in S
  BY <1>2, <1>3, <1>4
<1>6. QED BY <1>5

-----------------------------------------------------------------------------
(* The graph of a run *)

(* The edges that have been queued, and those of them that are finished:   *)
(* an edge is marked as expanded by the first of its actions to end.       *)
Begun == expanded \union {a.edge : a \in actions}
Complete(x) == x \in expanded /\ \A a \in actions : a.edge # x

(* The graph that a run has at each moment, and where it goes on: one that *)
(* began at a later page has a later page in its checkpoint.               *)
GraphInv ==
  /\ dir \in Directories
  /\ running \in BOOLEAN /\ loaded \in BOOLEAN
  /\ began \in 1 .. dir.pages /\ page \in 1 .. dir.pages /\ began <= page
  /\ token \in 0 .. dir.pages /\ file.page \in 0 .. dir.pages
  /\ began >= 2 => token >= 2
  /\ ~loaded => /\ actions = {} /\ expanded = {} /\ depth = 0
                /\ edges = EdgesOf(dir, {g \in dir.grants : began <= g.page /\ g.page < page})
  /\ loaded => edges = FixCycles(LoadedFrom(dir, began))

(* What is assumed of a directory.                                         *)
LEMMA DirTyped ==
  ASSUME NEW d \in Directories
  PROVE  DirectoryTyped(d) /\ d.pages \in Nat /\ d.pages >= 1
<1>1. DirectoryTyped(d)
  BY GrantExpansionAssumption
<1>2. QED BY <1>1 DEF DirectoryTyped

(* At first nothing is loaded.                                             *)
LEMMA GraphInit == Init => GraphInv
<1> SUFFICES ASSUME Init PROVE GraphInv
  OBVIOUS
<1>1. dir \in Directories /\ dir.pages \in Nat /\ dir.pages >= 1
  BY DirTyped DEF Init
<1>2. {g \in dir.grants : began <= g.page /\ g.page < page} = {}
  <2>1. ASSUME NEW g \in dir.grants PROVE g.page \in Nat
    BY <1>1, DirTyped DEF DirectoryTyped
  <2>2. QED BY <2>1 DEF Init
<1>3. edges = EdgesOf(dir, {g \in dir.grants : began <= g.page /\ g.page < page})
  BY <1>2 DEF Init, EdgesOf
<1>4. running \in BOOLEAN /\ loaded \in BOOLEAN /\ ~loaded
  BY DEF Init
<1>5. actions = {} /\ expanded = {} /\ depth = 0 /\ began = 1 /\ page = 1 /\ token = 0
      /\ file.page = 0
  BY DEF Init
<1>6. QED BY <1>1, <1>3, <1>4, <1>5 DEF GraphInv

(* A run begins with an empty graph at the page of its token.              *)
LEMMA GraphStart == GraphInv /\ Start => GraphInv'
<1> SUFFICES ASSUME GraphInv, Start PROVE GraphInv'
  OBVIOUS
<1>1. dir \in Directories /\ dir.pages \in Nat /\ dir.pages >= 1
  BY DirTyped DEF GraphInv
<1>2. token' \in 0 .. dir.pages /\ (token' = 0 \/ token' >= 1)
  BY <1>1 DEF GraphInv, Start, Resume, StartNewSync
<1>3. page' \in 1 .. dir.pages /\ began' = page' /\ (began' >= 2 => token' >= 2)
  BY <1>1, <1>2 DEF Start
<1>4. \A g \in dir.grants : g.page \in Nat
  BY <1>1, DirTyped DEF DirectoryTyped
<1>5. {g \in dir.grants : began' <= g.page /\ g.page < page'} = {}
  BY <1>1, <1>3, <1>4
<1>6. EdgesOf(dir, {}) = {}
  BY DEF EdgesOf
<1>7. dir' = dir /\ file' = file /\ loaded' = FALSE /\ running' = TRUE
      /\ edges' = {} /\ expanded' = {} /\ actions' = {} /\ depth' = 0
  BY DEF Start
<1>8. edges' = EdgesOf(dir', {g \in dir'.grants : began' <= g.page /\ g.page < page'})
  BY <1>5, <1>6, <1>7
<1>9. file'.page \in 0 .. dir'.pages
  BY <1>7 DEF GraphInv
<1>10. running' \in BOOLEAN /\ loaded' \in BOOLEAN /\ ~loaded'
  BY <1>7
<1>11. began' \in 1 .. dir'.pages /\ page' \in 1 .. dir'.pages /\ began' <= page'
       /\ token' \in 0 .. dir'.pages
  BY <1>1, <1>2, <1>3, <1>7
<1>12. QED BY <1>1, <1>3, <1>7, <1>8, <1>9, <1>10, <1>11 DEF GraphInv

(* The page that is loaded is the next, and after the last one all the     *)
(* pages from the first one of the run on are.                             *)
LEMMA PagesInTurn == 
  ASSUME GraphInv, ~loaded
  PROVE  /\ edges \union ThisPage = 
              EdgesOf(dir, {g \in dir.grants : began <= g.page /\ g.page < page + 1})
         /\ page = dir.pages => edges \union ThisPage = LoadedFrom(dir, began)
<1>1. dir \in Directories /\ dir.pages \in Nat /\ page \in Nat /\ began \in Nat /\ began <= page
  BY DirTyped DEF GraphInv
<1>2. \A g \in dir.grants : g.page \in Nat /\ g.page <= dir.pages
  BY <1>1, DirTyped DEF DirectoryTyped
<1>3. edges \union ThisPage = 
        EdgesOf(dir, {g \in dir.grants : (began <= g.page /\ g.page < page) \/ g.page = page})
  BY DEF GraphInv, ThisPage, EdgesOf
<1>4. {g \in dir.grants : (began <= g.page /\ g.page < page) \/ g.page = page} =
        {g \in dir.grants : began <= g.page /\ g.page < page + 1}
  BY <1>1, <1>2
<1>5. ASSUME page = dir.pages 
      PROVE  {g \in dir.grants : began <= g.page /\ g.page < page + 1} =
               {g \in dir.grants : g.page >= began}
  BY <1>1, <1>2, <1>5
<1>6. QED BY <1>3, <1>4, <1>5 DEF LoadedFrom

(* The table of the graphs without cycles has an entry for each.           *)
LEMMA LoadedGraph ==
  ASSUME GraphInv, NEW E, E = LoadedFrom(dir, began)
  PROVE  WithoutCycles[E] = FixCycles(E)
BY DEF GraphInv, WithoutCycles

(* A page is loaded.                                                       *)
LEMMA GraphLoadPage == GraphInv /\ LoadPage => GraphInv'
<1> SUFFICES ASSUME GraphInv, LoadPage PROVE GraphInv'
  OBVIOUS
<1>1. dir \in Directories /\ dir.pages \in Nat /\ dir.pages >= 1
  BY DirTyped DEF GraphInv
<1>2. UNCHANGED <<dir, running, began, file, expanded, actions, depth>>
      /\ token' \in {token, page} /\ running /\ ~loaded
  BY DEF LoadPage, GoOn, Stay, Checkpoint
<1>3. loaded' \in BOOLEAN /\ (loaded' <=> page = dir.pages)
  BY DEF LoadPage
<1>4. page' = IF page = dir.pages THEN page ELSE page + 1
  BY <1>3 DEF LoadPage
<1>5. /\ page' \in 1 .. dir'.pages /\ began' <= page' /\ began' \in 1 .. dir'.pages
      /\ token' \in 0 .. dir'.pages /\ file'.page \in 0 .. dir'.pages
      /\ began' >= 2 => token' >= 2
  BY <1>1, <1>2, <1>4 DEF GraphInv
<1>6. CASE page = dir.pages
  <2>1. edges' = WithoutCycles[LoadedFrom(dir, began)]
    BY <1>2, <1>3, <1>6, PagesInTurn DEF LoadPage
  <2>2. edges' = FixCycles(LoadedFrom(dir', began'))
    BY <1>2, <2>1, LoadedGraph
  <2>3. QED BY <1>1, <1>2, <1>3, <1>5, <1>6, <2>2 DEF GraphInv
<1>7. CASE page # dir.pages
  <2>1. edges' = edges \union ThisPage /\ page' = page + 1
    BY <1>3, <1>4, <1>7 DEF LoadPage
  <2>2. edges' = EdgesOf(dir', {g \in dir'.grants : began' <= g.page /\ g.page < page'})
    BY <1>2, <2>1, PagesInTurn
  <2>3. QED BY <1>1, <1>2, <1>3, <1>5, <1>7, <2>2 DEF GraphInv
<1>8. QED BY <1>6, <1>7

(* The other steps leave the loaded graph alone, and save a token of this  *)
(* run or none.                                                            *)
LEMMA GraphOther ==
  ASSUME GraphInv, UNCHANGED <<dir, loaded, edges, page, began>>, 
         ~loaded => UNCHANGED <<actions, expanded, depth>>,
         running' \in BOOLEAN, token' \in {token, page}, 
         file'.page = file.page \/ file'.page = token'
  PROVE  GraphInv'
<1>1. dir \in Directories /\ dir.pages \in Nat /\ dir.pages >= 1
  BY DirTyped DEF GraphInv
<1>2. token' \in 0 .. dir'.pages /\ file'.page \in 0 .. dir'.pages
      /\ (began' >= 2 => token' >= 2)
  BY <1>1 DEF GraphInv
<1>3. QED BY <1>1, <1>2 DEF GraphInv

(* GraphInv is inductive.                                                  *)
LEMMA GraphNext == GraphInv /\ [Next]_vars => GraphInv'
<1> SUFFICES ASSUME GraphInv, [Next]_vars PROVE GraphInv'
  OBVIOUS
<1> USE DEF Checkpoint, GoOn, Stay, Close, graph
<1>1. CASE Start
  BY <1>1, GraphStart
<1>2. CASE LoadPage
  BY <1>2, GraphLoadPage
<1>3. CASE Queue
  BY <1>3, GraphOther DEF Queue, GraphInv
<1>4. CASE Finish
  BY <1>4, GraphOther DEF Finish, GraphInv
<1>5. CASE TooDeep
  BY <1>5, GraphOther DEF TooDeep, GraphInv
<1>6. ASSUME NEW a \in actions, Expand(a) PROVE GraphInv'
  BY <1>6, GraphOther DEF Expand, GraphInv
<1>7. CASE Stop
  BY <1>7, GraphOther DEF Stop, GraphInv
<1>8. CASE Kill
  BY <1>8, GraphOther DEF Kill, GraphInv
<1>9. CASE UNCHANGED vars
  BY <1>9, GraphOther DEF vars, GraphInv
<1>10. QED BY <1>1, <1>2, <1>3, <1>4, <1>5, <1>6, <1>7, <1>8, <1>9 DEF Next, Iterate

-----------------------------------------------------------------------------
(* The order of the edges *)

(* An action is of an edge of the graph.                                   *)
ActionsInv ==
  /\ expanded \subseteq edges
  /\ actions \subseteq [src : Entitlements, dst : Entitlements, edge : edges, page : Nat \ {0}]
  /\ \A a \in actions : a.src \in a.edge.from /\ a.dst \in a.edge.to

(* What leads to the source of an edge that has been queued is finished:   *)
(* not only marked as expanded, but without an action that is left. This   *)
(* is more than AncestorsFirst says, and keeps itself.                     *)
AncestorsInv == \A x \in Begun, y \in edges : y.to = x.from => Complete(y)

(* The action of the next page.                                            *)
Advanced(a) == [a EXCEPT !.page = @ + 1]

(* NodesOfEdges for the graph of a run.                                    *)
LEMMA EdgeNodes ==
  ASSUME GraphInv, loaded, NEW x \in edges
  PROVE  /\ x.from \subseteq Entitlements /\ x.to \subseteq Entitlements
         /\ x.from # {} /\ x.to # {}
         /\ x.from \cap x.to = {}
         /\ \A y \in edges : x.from = y.to \/ x.from \cap y.to = {}
<1>1. DirectoryTyped(dir) /\ edges = FixCycles(LoadedFrom(dir, began))
  BY DirTyped DEF GraphInv
<1>2. Pairs(LoadedFrom(dir, began))
  BY <1>1, LoadedIsPart
<1>3. QED BY <1>1, <1>2, NodesOfEdges

(* What Queue does: an action for each pair of entitlements of each edge   *)
(* that does not wait.                                                     *)
LEMMA QueueActions ==
  ASSUME GraphInv, ActionsInv, Queue
  PROVE  /\ actions' \subseteq [src : Entitlements, dst : Entitlements, edge : edges, page : Nat \ {0}]
         /\ \A a \in actions' : /\ a.src \in a.edge.from /\ a.dst \in a.edge.to /\ a.page = 1
                                /\ a.edge \in Unexpanded /\ ~Waiting(a.edge.from)
         /\ \A x \in Unexpanded : ~Waiting(x.from) =>
              \A e \in x.from, f \in x.to : 
                \E a \in actions' : a.src = e /\ a.dst = f /\ a.edge = x
         /\ \A x \in Unexpanded : x \in Begun' <=> ~Waiting(x.from)
         /\ expanded' = expanded /\ edges' = edges /\ actions = {} /\ depth' = depth + 1
         /\ sources' = sources
         /\ loaded /\ depth <= MaxDepth /\ Unexpanded # {} /\ dir' = dir /\ began' = began
         /\ file' = file
<1>1. /\ loaded /\ actions = {} /\ expanded' = expanded /\ edges' = edges /\ dir' = dir
      /\ sources' = sources
      /\ depth' = depth + 1 /\ depth <= MaxDepth /\ Unexpanded # {} /\ began' = began
      /\ file' = file
  BY DEF Queue, GoOn, Stay
<1>2. actions' = UNION {{[src |-> e, dst |-> f, edge |-> x, page |-> 1] :
                           e \in x.from, f \in x.to} :
                          x \in {y \in Unexpanded : ~Waiting(y.from)}}
  BY DEF Queue
<1>3. ASSUME NEW a \in actions'
      PROVE  \E x \in Unexpanded : ~Waiting(x.from) /\ \E e \in x.from, f \in x.to :
                a = [src |-> e, dst |-> f, edge |-> x, page |-> 1]
  BY <1>2
<1>4. ASSUME NEW x \in Unexpanded, ~Waiting(x.from), NEW e \in x.from, NEW f \in x.to
      PROVE  [src |-> e, dst |-> f, edge |-> x, page |-> 1] \in actions'
  BY <1>2, <1>4
<1>5. \A x \in Unexpanded : x \in edges
  BY DEF Unexpanded
<1>6. ASSUME NEW a \in actions'
      PROVE  /\ a \in [src : Entitlements, dst : Entitlements, edge : edges, page : Nat \ {0}]
             /\ a.src \in a.edge.from /\ a.dst \in a.edge.to /\ a.page = 1
             /\ a.edge \in Unexpanded /\ ~Waiting(a.edge.from)
  <2>1. PICK x \in Unexpanded : ~Waiting(x.from) /\ \E e \in x.from, f \in x.to :
                a = [src |-> e, dst |-> f, edge |-> x, page |-> 1]
    BY <1>3
  <2>2. PICK e \in x.from, f \in x.to : a = [src |-> e, dst |-> f, edge |-> x, page |-> 1]
    BY <2>1
  <2>3. x \in edges /\ e \in Entitlements /\ f \in Entitlements
    BY <1>1, <1>5, EdgeNodes
  <2>4. QED BY <2>1, <2>2, <2>3
<1>7. ASSUME NEW x \in Unexpanded, ~Waiting(x.from), NEW e \in x.from, NEW f \in x.to
      PROVE  \E a \in actions' : a.src = e /\ a.dst = f /\ a.edge = x
  BY <1>4, <1>7
<1>8. ASSUME NEW x \in Unexpanded PROVE x \in Begun' <=> ~Waiting(x.from)
  <2>1. ASSUME ~Waiting(x.from) PROVE x \in Begun'
    <3>1. PICK e \in x.from, f \in x.to : TRUE
      BY <1>1, <1>5, EdgeNodes
    <3>2. PICK a \in actions' : a.edge = x
      BY <1>7, <2>1, <3>1
    <3>3. QED BY <3>2 DEF Begun
  <2>2. ASSUME x \in Begun' PROVE ~Waiting(x.from)
    <3>1. x \notin expanded'
      BY <1>1 DEF Unexpanded
    <3>2. PICK a \in actions' : a.edge = x
      BY <2>2, <3>1 DEF Begun
    <3>3. QED BY <1>6, <3>2
  <2>3. QED BY <2>1, <2>2
<1>9. QED BY <1>1, <1>6, <1>7, <1>8

(* What Expand does to the graph: the edge remains begun, and what is      *)
(* finished remains so.                                                    *)
LEMMA ExpandActions ==
  ASSUME ActionsInv, NEW a \in actions, Expand(a)
  PROVE  /\ edges' = edges /\ dir' = dir /\ loaded /\ depth' = depth /\ began' = began /\ file' = file
         /\ a \in [src : Entitlements, dst : Entitlements, edge : edges, page : Nat \ {0}]
         /\ Advanced(a) \in [src : Entitlements, dst : Entitlements, edge : edges, page : Nat \ {0}]
         /\ Advanced(a).src = a.src /\ Advanced(a).dst = a.dst
         /\ Advanced(a).edge = a.edge /\ Advanced(a).page = a.page + 1
         /\ \/ /\ HasMorePages(a) /\ expanded' = expanded
               /\ actions' = (actions \ {a}) \union {Advanced(a)}
            \/ /\ ~HasMorePages(a) /\ expanded' = expanded \union {a.edge}
               /\ actions' = actions \ {a}
         /\ Begun' = Begun
         /\ \A x : Complete(x) => Complete(x)'
<1>1. edges' = edges /\ dir' = dir /\ loaded /\ depth' = depth /\ began' = began /\ file' = file
  BY DEF Expand, GoOn, Stay
<1>2. a \in [src : Entitlements, dst : Entitlements, edge : edges, page : Nat \ {0}]
  BY DEF ActionsInv
<1>3. /\ Advanced(a) \in [src : Entitlements, dst : Entitlements, edge : edges, page : Nat \ {0}]
      /\ Advanced(a).src = a.src /\ Advanced(a).dst = a.dst
      /\ Advanced(a).edge = a.edge /\ Advanced(a).page = a.page + 1
  BY <1>2 DEF Advanced
<1>4. \/ /\ HasMorePages(a) /\ expanded' = expanded
         /\ actions' = (actions \ {a}) \union {Advanced(a)}
      \/ /\ ~HasMorePages(a) /\ expanded' = expanded \union {a.edge}
         /\ actions' = actions \ {a}
  BY DEF Expand, Advanced
<1>5. Begun' = Begun
  BY <1>3, <1>4 DEF Begun
<1>6. \A x : Complete(x) => Complete(x)'
  BY <1>3, <1>4 DEF Complete
<1>7. QED BY <1>1, <1>2, <1>3, <1>4, <1>5, <1>6

(* Both are inductive. At Queue, a parent of an edge that does not wait is *)
(* expanded, and no action is left; at Expand no edge becomes begun.       *)
LEMMA ActionsNext ==
  GraphInv /\ ActionsInv /\ AncestorsInv /\ [Next]_vars => ActionsInv' /\ AncestorsInv'
<1> SUFFICES ASSUME GraphInv, ActionsInv, AncestorsInv, [Next]_vars
             PROVE ActionsInv' /\ AncestorsInv'
  OBVIOUS
<1> DEFINE Idle == actions' = {} /\ expanded' = {}
           Same == UNCHANGED <<edges, actions, expanded>>
<1>1. CASE Idle
  BY <1>1 DEF ActionsInv, AncestorsInv, Begun
<1>2. CASE Same
  BY <1>2 DEF ActionsInv, AncestorsInv, Begun, Complete
<1>3. CASE Queue
  <2>1. ActionsInv'
    BY <1>3, QueueActions DEF ActionsInv
  <2>2. ASSUME NEW x \in Begun', NEW y \in edges', y.to = x.from
        PROVE  Complete(y)'
    <3>1. y \in expanded
      <4>1. CASE x \in expanded
        BY <1>3, <2>2, <4>1, QueueActions DEF AncestorsInv, Begun, Complete
      <4>2. CASE x \notin expanded
        <5>1. x \in Unexpanded
          BY <1>3, <2>1, <4>2, QueueActions DEF Begun, Unexpanded, ActionsInv
        <5>2. ~Waiting(x.from) /\ y \in edges
          BY <1>3, <5>1, QueueActions
        <5>3. QED BY <2>2, <5>2 DEF Waiting, Unexpanded
      <4>3. QED BY <4>1, <4>2
    <3>2. \A a \in actions' : a.edge # y
      BY <1>3, <3>1, QueueActions DEF Unexpanded
    <3>3. QED BY <1>3, <3>1, <3>2, QueueActions DEF Complete
  <2>3. QED BY <2>1, <2>2 DEF AncestorsInv
<1>4. ASSUME NEW a \in actions, Expand(a) PROVE ActionsInv' /\ AncestorsInv'
  <2>1. expanded' \subseteq edges'
    BY <1>4, ExpandActions DEF ActionsInv
  <2>2. ASSUME NEW b \in actions'
        PROVE  /\ b \in [src : Entitlements, dst : Entitlements, edge : edges', page : Nat \ {0}]
               /\ b.src \in b.edge.from /\ b.dst \in b.edge.to
    <3>1. b \in actions \/ b = Advanced(a)
      BY <1>4, ExpandActions
    <3>2. CASE b \in actions
      BY <1>4, <3>2, ExpandActions DEF ActionsInv
    <3>3. CASE b = Advanced(a)
      BY <1>4, <3>3, ExpandActions DEF ActionsInv
    <3>4. QED BY <3>1, <3>2, <3>3
  <2>3. AncestorsInv'
    BY <1>4, ExpandActions DEF AncestorsInv
  <2>4. QED BY <2>1, <2>2, <2>3 DEF ActionsInv
<1>5. CASE Start
  BY <1>1, <1>5 DEF Start
<1>6. CASE LoadPage
  BY <1>1, <1>6 DEF LoadPage, GraphInv
<1>7. CASE Finish
  BY <1>2, <1>7 DEF Finish, graph
<1>8. CASE TooDeep
  BY <1>2, <1>8 DEF TooDeep, graph
<1>9. CASE Stop
  BY <1>2, <1>9 DEF Stop, graph
<1>10. CASE Kill
  BY <1>2, <1>10 DEF Kill, graph
<1>11. CASE UNCHANGED vars
  BY <1>2, <1>11 DEF vars, graph
<1>12. QED BY <1>3, <1>4, <1>5, <1>6, <1>7, <1>8, <1>9, <1>10, <1>11 DEF Next, Iterate

-----------------------------------------------------------------------------
(* The truth of the sources *)

(* SourcesTrue of the grants s of a directory d, with what its induction   *)
(* needs: the grants of the directory are never lost.                      *)
Honest(d, s) ==
  /\ s \in [DOMAIN s -> SUBSET Entitlements]
  /\ DOMAIN s \subseteq Entitlements \X Principals
  /\ Base(d) \subseteq DOMAIN s
  /\ \A x \in DOMAIN s :
    /\ s[x] = {} \/ x[1] \in s[x] <=> x \in Base(d)
    /\ \A e \in s[x] \ {x[1]} :
         <<e, x[2]>> \in DOMAIN s /\ <<e, x[1], x[2]>> \in Reaches[d]
(* It is true of the open database and of the file.                        *)
SourcesInv == Honest(dir, sources) /\ Honest(dir, file.sources)

(* The directory's grants as the sync stores them, alone or over what      *)
(* there was.                                                              *)
LEMMA DirectIsHonest ==
  ASSUME NEW d \in Directories
  PROVE  /\ Honest(d, Direct(d)) 
         /\ \A s : Honest(d, s) => Honest(d, Over(Direct(d), s))
<1>1. Base(d) \subseteq Entitlements \X Principals
  BY DirTyped DEF Base, DirectoryTyped
<1>2. DOMAIN Direct(d) = Base(d) /\ \A x \in Base(d) : Direct(d)[x] = {}
  BY DEF Direct
<1>3. Honest(d, Direct(d))
  <2>1. Direct(d) \in [DOMAIN Direct(d) -> SUBSET Entitlements]
    BY DEF Direct
  <2>2. QED BY <1>1, <1>2, <2>1 DEF Honest
<1>4. ASSUME NEW s, Honest(d, s) PROVE Honest(d, Over(Direct(d), s))
  <2> DEFINE t == Over(Direct(d), s)
  <2>1. DOMAIN t = DOMAIN s
    BY <1>2, <1>4 DEF Over, Honest
  <2>2. \A x \in DOMAIN s : t[x] = IF x \in Base(d) THEN {} ELSE s[x]
    BY <1>2, <1>4 DEF Over, Honest
  <2>3. t \in [DOMAIN t -> SUBSET Entitlements]
    <3>1. t = [x \in DOMAIN t |-> t[x]]
      BY DEF Over
    <3>2. \A x \in DOMAIN t : t[x] \in SUBSET Entitlements
      BY <1>4, <2>1, <2>2 DEF Honest
    <3>3. QED BY <3>1, <3>2
  <2>4. ASSUME NEW x \in DOMAIN t
        PROVE  /\ t[x] = {} \/ x[1] \in t[x] <=> x \in Base(d)
               /\ \A e \in t[x] \ {x[1]} :
                    <<e, x[2]>> \in DOMAIN t /\ <<e, x[1], x[2]>> \in Reaches[d]
    BY <1>4, <2>1, <2>2 DEF Honest
  <2>5. DOMAIN t \subseteq Entitlements \X Principals /\ Base(d) \subseteq DOMAIN t
    BY <1>4, <2>1 DEF Honest
  <2>6. Honest(d, t)
    <3> HIDE DEF t
    <3> QED BY <2>3, <2>4, <2>5 DEF Honest
  <2>7. QED BY <2>6
<1>5. QED BY <1>3, <1>4

(* The grants that Expand writes.                                          *)
Gained(a) == {<<a.dst, p>> : p \in ToExpand(a)}

(* What Expand does to the grants.                                         *)
LEMMA ExpandSources ==
  ASSUME NEW a, Expand(a), sources \in [DOMAIN sources -> SUBSET Entitlements],
         a.src \in Entitlements, a.dst \in Entitlements
  PROVE  /\ DOMAIN sources' = DOMAIN sources \union Gained(a)
         /\ \A x \in Gained(a) : sources'[x] = WithSource(x, a.src)
         /\ \A x \in DOMAIN sources : x \notin Gained(a) => sources'[x] = sources[x]
         /\ \A x \in DOMAIN sources : sources[x] \subseteq sources'[x]
         /\ sources' \in [DOMAIN sources' -> SUBSET Entitlements]
<1>1. sources' = Over([x \in Gained(a) |-> WithSource(x, a.src)], sources)
  BY DEF Expand, Gained
<1>2. DOMAIN sources' = DOMAIN sources \union Gained(a)
  BY <1>1 DEF Over
<1>3. \A x \in Gained(a) : sources'[x] = WithSource(x, a.src)
  BY <1>1 DEF Over
<1>4. \A x \in DOMAIN sources : x \notin Gained(a) => sources'[x] = sources[x]
  BY <1>1 DEF Over
<1>5. \A x \in DOMAIN sources : sources[x] \subseteq WithSource(x, a.src)
  BY DEF WithSource
<1>6. ASSUME NEW x \in DOMAIN sources' PROVE sources'[x] \in SUBSET Entitlements
  <2>1. CASE x \in Gained(a)
    <3>1. PICK p : x = <<a.dst, p>>
      BY <2>1 DEF Gained
    <3>2. x[1] \in Entitlements
      BY <3>1
    <3>3. WithSource(x, a.src) \in SUBSET Entitlements
      BY <3>2 DEF WithSource
    <3>4. QED BY <1>3, <2>1, <3>3
  <2>2. CASE x \notin Gained(a)
    BY <1>2, <1>4, <2>2
  <2>3. QED BY <2>1, <2>2
<1>7. sources' = [x \in DOMAIN sources' |-> sources'[x]]
  BY <1>1 DEF Over
<1>8. QED BY <1>2, <1>3, <1>4, <1>5, <1>6, <1>7

(* A page of grants is expanded: the source is one that the principal      *)
(* holds, an edge leads from it, and it is not the grant's own             *)
(* entitlement, the nodes of the edge being disjoint.                      *)
LEMMA ExpandIsHonest ==
  ASSUME GraphInv, ActionsInv, Honest(dir, sources), NEW a \in actions, Expand(a)
  PROVE  Honest(dir, sources')
<1> DEFINE e == a.src
           f == a.dst
<1>1. /\ a.edge \in edges /\ e \in a.edge.from /\ f \in a.edge.to
      /\ e \in Entitlements /\ f \in Entitlements
  BY DEF ActionsInv
<1>2. loaded /\ dir \in Directories /\ edges = FixCycles(LoadedFrom(dir, began))
  BY DEF Expand, GraphInv
<1>3. e # f
  BY <1>1, <1>2, EdgeNodes
<1>4. sources \in [DOMAIN sources -> SUBSET Entitlements]
  BY DEF Honest
<1>5. ASSUME NEW x \in Gained(a)
      PROVE  \E p \in Principals :
               x = <<f, p>> /\ <<e, p>> \in DOMAIN sources /\ <<e, f, p>> \in Reaches[dir]
  <2>1. PICK p \in ToExpand(a) : x = <<f, p>>
    BY DEF Gained
  <2>2. p \in Principals /\ Relevant(a.edge, p) /\ <<e, p>> \in DOMAIN sources
    BY DEF ToExpand, Holders
  <2>3. <<e, f, p>> \in Reaches[dir]
    BY <1>1, <1>2, <2>2, EdgesReach
  <2>4. QED BY <2>1, <2>2, <2>3
<1>6. ASSUME NEW x \in DOMAIN sources'
      PROVE  /\ sources'[x] = {} \/ x[1] \in sources'[x] <=> x \in Base(dir)
             /\ \A h \in sources'[x] \ {x[1]} :
                  <<h, x[2]>> \in DOMAIN sources' /\ <<h, x[1], x[2]>> \in Reaches[dir]
  <2>1. CASE x \in Gained(a)
    <3>1. PICK p \in Principals :
            x = <<f, p>> /\ <<e, p>> \in DOMAIN sources /\ <<e, f, p>> \in Reaches[dir]
      BY <1>5, <2>1
    <3>2. sources'[x] = WithSource(x, e)
      BY <1>1, <1>4, <2>1, ExpandSources
    <3>3. DOMAIN sources \subseteq DOMAIN sources'
      BY <1>1, <1>4, ExpandSources
    <3>4. CASE x \notin DOMAIN sources
      <4>1. sources'[x] = {e} /\ x \notin Base(dir)
        BY <3>2, <3>4 DEF WithSource, Honest
      <4>2. QED BY <1>3, <3>1, <3>3, <4>1
    <3>5. CASE x \in DOMAIN sources /\ sources[x] = {}
      <4>1. sources'[x] = {f, e} /\ x \in Base(dir)
        BY <3>1, <3>2, <3>5 DEF WithSource, Honest
      <4>2. QED BY <1>3, <3>1, <3>3, <4>1
    <3>6. CASE x \in DOMAIN sources /\ sources[x] # {}
      <4>1. sources'[x] = sources[x] \union {e}
        BY <3>2, <3>6 DEF WithSource
      <4>2. x[1] = f /\ x[2] = p
        BY <3>1
      <4>3. sources[x] = {} \/ f \in sources[x] <=> x \in Base(dir)
        BY <3>6, <4>2 DEF Honest
      <4>4. sources'[x] = {} \/ f \in sources'[x] <=> x \in Base(dir)
        BY <1>3, <3>6, <4>1, <4>3
      <4>5. \A h \in sources[x] \ {f} :
              <<h, p>> \in DOMAIN sources /\ <<h, f, p>> \in Reaches[dir]
        BY <3>6, <4>2 DEF Honest
      <4>6. QED BY <3>1, <3>3, <4>1, <4>2, <4>4, <4>5
    <3>7. QED BY <3>4, <3>5, <3>6
  <2>2. CASE x \notin Gained(a)
    <3>1. x \in DOMAIN sources /\ sources'[x] = sources[x]
          /\ DOMAIN sources \subseteq DOMAIN sources'
      BY <1>1, <1>4, <2>2, ExpandSources
    <3>2. QED BY <3>1 DEF Honest
  <2>3. QED BY <2>1, <2>2
<1>7. /\ DOMAIN sources' = DOMAIN sources \union Gained(a)
      /\ sources' \in [DOMAIN sources' -> SUBSET Entitlements]
  BY <1>1, <1>4, ExpandSources
<1>8. DOMAIN sources' \subseteq Entitlements \X Principals
      /\ Base(dir) \subseteq DOMAIN sources'
  <2>1. ASSUME NEW x \in Gained(a) PROVE x \in Entitlements \X Principals
    <3>1. PICK p \in Principals : x = <<f, p>>
      BY <1>5
    <3>2. QED BY <1>1, <3>1
  <2>2. DOMAIN sources \subseteq Entitlements \X Principals
        /\ Base(dir) \subseteq DOMAIN sources
    BY DEF Honest
  <2>3. QED BY <1>7, <2>1, <2>2
<1>9. QED BY <1>6, <1>7, <1>8 DEF Honest

(* SourcesInv is inductive.                                                *)
LEMMA SourcesNext ==
  GraphInv /\ ActionsInv /\ SourcesInv /\ [Next]_vars => SourcesInv'
<1> SUFFICES ASSUME GraphInv, ActionsInv, SourcesInv, [Next]_vars PROVE SourcesInv'
  OBVIOUS
<1>0. Honest(dir, sources) /\ Honest(dir, file.sources) /\ dir \in Directories
  BY DEF SourcesInv, GraphInv
<1> DEFINE Kept == dir' = dir /\ sources' = sources /\ (file' = file \/ file'.sources = sources')
<1>1. CASE Kept
  BY <1>0, <1>1 DEF SourcesInv
<1>2. CASE Start
  <2>1. dir' = dir /\ file' = file
    BY <1>2 DEF Start
  <2>2. \/ sources' = file.sources \/ sources' = Over(Direct(dir), file.sources)
        \/ sources' = Direct(dir)
    BY <1>2 DEF Start, Resume, StartNewSync
  <2>3. Honest(dir, sources')
    BY <1>0, <2>2, DirectIsHonest
  <2>4. QED BY <1>0, <2>1, <2>3 DEF SourcesInv
<1>3. ASSUME NEW a \in actions, Expand(a) PROVE SourcesInv'
  <2>1. dir' = dir /\ file' = file
    BY <1>3, ExpandActions
  <2>2. Honest(dir, sources')
    BY <1>0, <1>3, ExpandIsHonest
  <2>3. QED BY <1>0, <2>1, <2>2 DEF SourcesInv
<1>4. CASE LoadPage
  BY <1>1, <1>4 DEF LoadPage, GoOn, Stay
<1>5. CASE Queue
  BY <1>1, <1>5 DEF Queue, GoOn, Stay
<1>6. CASE Finish
  BY <1>1, <1>6 DEF Finish, Close, Stay
<1>7. CASE TooDeep
  BY <1>1, <1>7 DEF TooDeep, Close, Stay
<1>8. CASE Stop
  BY <1>1, <1>8 DEF Stop, Close
<1>9. CASE Kill
  BY <1>1, <1>9 DEF Kill
<1>10. CASE UNCHANGED vars
  BY <1>1, <1>10 DEF vars
<1>11. QED BY <1>2, <1>3, <1>4, <1>5, <1>6, <1>7, <1>8, <1>9, <1>10 DEF Next, Iterate

-----------------------------------------------------------------------------
(* No more than the expansion *)

(* The grants s have no more than the expansion of d.                      *)
Within(d, s) ==
  /\ DOMAIN s \subseteq ClosureOf(d)
  /\ \A x \in DOMAIN s : s[x] \subseteq ExpansionOf(d)[x]
(* It is so in a run from the first page on, and in a file that leads to   *)
(* one.                                                                    *)
WithinInv ==
  /\ began = 1 => Within(dir, sources)
  /\ file.page <= 1 => Within(dir, file.sources)

(* The sources that a grant has by the closure.                            *)
Gives(d, x) ==
  {e \in Entitlements :
     \E edge \in FixCycles(AllEdges(d)) :
       /\ e \in edge.from /\ x[1] \in edge.to /\ Relevant(edge, x[2])
       /\ <<e, x[2]>> \in Sources(d, edge, ClosureOf(d))}

(* ExpansionOf in these words.                                             *)
LEMMA ExpansionSources ==
  ASSUME NEW d
  PROVE  ExpansionOf(d) = [x \in ClosureOf(d) |->
           Gives(d, x) \union (IF x \in Base(d) /\ Gives(d, x) # {} THEN {x[1]} ELSE {})]
BY DEF ExpansionOf, Gives

(* The directory's grants as the sync stores them.                         *)
LEMMA DirectIsWithin ==
  ASSUME NEW d \in Directories
  PROVE  /\ Within(d, Direct(d))
         /\ \A s : Within(d, s) => Within(d, Over(Direct(d), s))
<1>1. Base(d) \subseteq ClosureOf(d)
  BY DirTyped, ClosureOfBase
<1>2. DOMAIN Direct(d) = Base(d) /\ \A x \in Base(d) : Direct(d)[x] = {}
  BY DEF Direct
<1>3. Within(d, Direct(d))
  BY <1>1, <1>2 DEF Within
<1>4. ASSUME NEW s, Within(d, s) PROVE Within(d, Over(Direct(d), s))
  <2>1. DOMAIN Over(Direct(d), s) = Base(d) \union DOMAIN s
    BY <1>2 DEF Over
  <2>2. \A x \in Base(d) \union DOMAIN s :
           Over(Direct(d), s)[x] = IF x \in Base(d) THEN {} ELSE s[x]
    BY <1>2 DEF Over
  <2>3. QED BY <1>1, <1>4, <2>1, <2>2 DEF Within
<1>5. QED BY <1>3, <1>4

(* A page of grants is expanded: a grant that a shallow edge takes is one  *)
(* of the directory's, by SourcesTrue, and the closure is closed.          *)
LEMMA ExpandIsWithin ==
  ASSUME GraphInv, ActionsInv, Honest(dir, sources), began = 1, Within(dir, sources),
         NEW a \in actions, Expand(a)
  PROVE  Within(dir, sources')
<1> DEFINE e == a.src
           f == a.dst
<1>1. /\ a.edge \in edges /\ e \in a.edge.from /\ f \in a.edge.to
      /\ e \in Entitlements /\ f \in Entitlements
  BY DEF ActionsInv
<1>2. loaded /\ dir \in Directories /\ DirectoryTyped(dir) /\ edges = FixCycles(AllEdges(dir))
  BY DirTyped, LoadedFromFirst DEF Expand, GraphInv
<1>3. sources \in [DOMAIN sources -> SUBSET Entitlements]
  BY DEF Honest
<1>4. ASSUME NEW x \in Gained(a)
      PROVE  x \in ClosureOf(dir) /\ e \in Gives(dir, x) /\ x[1] = f
  <2>1. PICK p \in ToExpand(a) : x = <<f, p>>
    BY DEF Gained
  <2>2. /\ p \in Principals /\ Relevant(a.edge, p) /\ <<e, p>> \in DOMAIN sources
        /\ a.edge.shallow => IsDirect(<<e, p>>)
    BY DEF ToExpand, Holders
  <2>3. <<e, p>> \in Sources(dir, a.edge, ClosureOf(dir))
    <3>1. CASE a.edge.shallow
      <4>1. sources[<<e, p>>] = {} \/ e \in sources[<<e, p>>]
        BY <2>2, <3>1 DEF IsDirect
      <4>2. <<e, p>> \in Base(dir)
        BY <2>2, <4>1 DEF Honest
      <4>3. QED BY <3>1, <4>2 DEF Sources
    <3>2. CASE ~a.edge.shallow
      BY <2>2, <3>2 DEF Sources, Within
    <3>3. QED BY <3>1, <3>2
  <2>4. <<f, p>> \in ClosureOf(dir)
    BY <1>1, <1>2, <2>2, <2>3, ClosureIsClosed
  <2>5. e \in Gives(dir, <<f, p>>)
    BY <1>1, <1>2, <2>2, <2>3 DEF Gives
  <2>6. QED BY <2>1, <2>4, <2>5
<1>5. DOMAIN sources' = DOMAIN sources \union Gained(a)
  BY <1>1, <1>3, ExpandSources
<1>6. DOMAIN sources' \subseteq ClosureOf(dir)
  BY <1>4, <1>5 DEF Within
<1>7. ASSUME NEW x \in DOMAIN sources' PROVE sources'[x] \subseteq ExpansionOf(dir)[x]
  <2>1. CASE x \in Gained(a)
    <3>1. sources'[x] = WithSource(x, e)
      BY <1>1, <1>3, <2>1, ExpandSources
    <3>2. e \in ExpansionOf(dir)[x]
      BY <1>4, <2>1, ExpansionSources
    <3>3. x \in Base(dir) => x[1] \in ExpansionOf(dir)[x]
      BY <1>4, <2>1, ExpansionSources
    <3>4. CASE x \notin DOMAIN sources
      BY <3>1, <3>2, <3>4 DEF WithSource
    <3>5. CASE x \in DOMAIN sources /\ sources[x] = {}
      <4>1. x \in Base(dir)
        BY <3>5 DEF Honest
      <4>2. QED BY <3>1, <3>2, <3>3, <3>5, <4>1 DEF WithSource
    <3>6. CASE x \in DOMAIN sources /\ sources[x] # {}
      BY <3>1, <3>2, <3>6 DEF WithSource, Within
    <3>7. QED BY <3>4, <3>5, <3>6
  <2>2. CASE x \notin Gained(a)
    <3>1. x \in DOMAIN sources /\ sources'[x] = sources[x]
      BY <1>1, <1>3, <1>5, <2>2, ExpandSources
    <3>2. QED BY <3>1 DEF Within
  <2>3. QED BY <2>1, <2>2
<1>8. QED BY <1>6, <1>7 DEF Within

(* WithinInv is inductive: a token of 0 or 1 is only saved by a run that   *)
(* began at the first page.                                                *)
LEMMA WithinNext ==
  GraphInv /\ ActionsInv /\ SourcesInv /\ WithinInv /\ [Next]_vars => WithinInv'
<1> SUFFICES ASSUME GraphInv, ActionsInv, SourcesInv, WithinInv, [Next]_vars PROVE WithinInv'
  OBVIOUS
<1>0. /\ dir \in Directories /\ dir.pages \in Nat
      /\ began \in Nat /\ began >= 1 /\ token \in Nat /\ page \in Nat /\ page >= began
      /\ began >= 2 => token >= 2
      /\ file.page \in Nat
  BY DirTyped DEF GraphInv
<1> DEFINE Kept == UNCHANGED <<dir, sources, began, file>>
           Saved == /\ UNCHANGED <<dir, sources, began>> /\ token' \in {token, page}
                    /\ file'.page = token' /\ file'.sources = sources'
<1>1. CASE Kept
  BY <1>1 DEF WithinInv, Within
<1>2. CASE Saved
  <2>1. token' <= 1 => began = 1
    BY <1>0, <1>2
  <2>2. QED BY <1>2, <2>1 DEF WithinInv
<1>3. CASE Start
  <2>1. dir' = dir /\ file' = file
    BY <1>3 DEF Start
  <2>2. began' = 1 => Within(dir, sources')
    <3>1. began' = IF token' = 0 THEN 1 ELSE token'
      BY <1>3 DEF Start
    <3>2. CASE StartNewSync
      BY <1>0, <3>2, DirectIsWithin DEF StartNewSync
    <3>3. CASE Resume
      <4>1. token' = file.page
        BY <3>3 DEF Resume
      <4>2. ASSUME began' = 1 PROVE Within(dir, file.sources)
        <5>1. file.page <= 1
          BY <1>0, <3>1, <4>1, <4>2
        <5>2. QED BY <5>1 DEF WithinInv
      <4>3. sources' = file.sources \/ sources' = Over(Direct(dir), file.sources)
        BY <3>3 DEF Resume
      <4>4. QED BY <1>0, <4>2, <4>3, DirectIsWithin
    <3>4. QED BY <1>3, <3>2, <3>3 DEF Start
  <2>3. QED BY <2>1, <2>2 DEF WithinInv
<1>4. ASSUME NEW a \in actions, Expand(a) PROVE WithinInv'
  <2>1. UNCHANGED <<dir, file, began>>
    BY <1>4, ExpandActions
  <2>2. began = 1 => Within(dir, sources')
    BY <1>4, ExpandIsWithin DEF SourcesInv, WithinInv
  <2>3. QED BY <2>1, <2>2 DEF WithinInv
<1>5. CASE LoadPage
  BY <1>1, <1>5 DEF LoadPage, GoOn, Stay
<1>6. CASE Queue
  BY <1>1, <1>6 DEF Queue, GoOn, Stay
<1>7. CASE Finish
  BY <1>2, <1>7 DEF Finish, Close, Stay, Checkpoint
<1>8. CASE TooDeep
  BY <1>2, <1>8 DEF TooDeep, Close, Stay, Checkpoint
<1>9. CASE Stop
  BY <1>2, <1>9 DEF Stop, Close, Checkpoint
<1>10. CASE Kill
  BY <1>1, <1>10 DEF Kill
<1>11. CASE UNCHANGED vars
  BY <1>1, <1>11 DEF vars
<1>12. QED BY <1>3, <1>4, <1>5, <1>6, <1>7, <1>8, <1>9, <1>10, <1>11 DEF Next, Iterate

-----------------------------------------------------------------------------
(* No less than the expansion *)

(* The edge x is to bring the grant of e to p to its target.               *)
Moves(s, x, e, p) ==
  /\ <<e, p>> \in DOMAIN s
  /\ Relevant(x, p)
  /\ x.shallow => s[<<e, p>>] = {} \/ e \in s[<<e, p>>]
(* Grants of e to p have reached f.                                        *)
Moved(s, e, f, p) == <<f, p>> \in DOMAIN s /\ e \in s[<<f, p>>]
(* There is still an action for it.                                        *)
Left(x, e, f) == \E a \in actions : a.edge = x /\ a.src = e /\ a.dst = f

(* What an edge that has been queued is to bring has been brought, or an   *)
(* action for it is left, the pages before the action's being done.        *)
ProgressInv ==
  /\ \A x \in Begun : \A e \in x.from, f \in x.to :
       Left(x, e, f) \/ \A p \in Principals : Moves(sources, x, e, p) => Moved(sources, e, f, p)
  /\ \A a \in actions : \A p \in Principals :
       PageOf[p] < a.page /\ Moves(sources, a.edge, a.src, p) => Moved(sources, a.src, a.dst, p)

(* No action adds grants to the source of an edge that has been queued.    *)
LEMMA SourceIsFinal ==
  ASSUME GraphInv, ActionsInv, AncestorsInv, loaded,
         NEW x \in Begun, NEW e \in x.from, NEW a \in actions
  PROVE  e # a.dst
<1>1. a.edge \in edges /\ a.dst \in a.edge.to
  BY DEF ActionsInv
<1>2. x \in edges
  BY DEF Begun, ActionsInv
<1>3. ASSUME e = a.dst PROVE FALSE
  <2>1. x.from = a.edge.to
    BY <1>1, <1>2, <1>3, EdgeNodes
  <2>2. Complete(a.edge)
    BY <1>1, <2>1 DEF AncestorsInv
  <2>3. QED BY <2>2 DEF Complete
<1>4. QED BY <1>3

(* A page of grants is expanded: the grants that are to be taken are the   *)
(* same before and after, SourceIsFinal.                                   *)
LEMMA ExpandProgress ==
  ASSUME GraphInv, ActionsInv, AncestorsInv, SourcesInv, ProgressInv,
         NEW a \in actions, Expand(a)
  PROVE  ProgressInv'
<1>1. /\ a.edge \in edges /\ a.src \in a.edge.from /\ a.dst \in a.edge.to
      /\ a.src \in Entitlements /\ a.dst \in Entitlements /\ a.page \in Nat
  BY DEF ActionsInv
<1>2. loaded /\ a.edge \in Begun
  BY DEF Expand, Begun
<1>3. /\ DOMAIN sources' = DOMAIN sources \union Gained(a)
      /\ \A x \in Gained(a) : sources'[x] = WithSource(x, a.src)
      /\ \A x \in DOMAIN sources : x \notin Gained(a) => sources'[x] = sources[x]
      /\ \A x \in DOMAIN sources : sources[x] \subseteq sources'[x]
  BY <1>1, ExpandSources DEF SourcesInv, Honest
<1>4. PageOf \in [Principals -> Nat]
  BY GrantExpansionAssumption
<1>5. ASSUME NEW x \in Begun, NEW e \in x.from, NEW p, Moves(sources', x, e, p)
      PROVE  Moves(sources, x, e, p)
  <2>1. e # a.dst
    BY <1>2, SourceIsFinal
  <2>2. <<e, p>> \notin Gained(a)
    BY <2>1 DEF Gained
  <2>3. QED BY <1>3, <1>5, <2>2 DEF Moves
<1>6. ASSUME NEW e, NEW f, NEW p, Moved(sources, e, f, p)
      PROVE  Moved(sources', e, f, p)
  BY <1>3, <1>6 DEF Moved
<1>7. ASSUME NEW p \in Principals, PageOf[p] = a.page, Moves(sources, a.edge, a.src, p)
      PROVE  Moved(sources', a.src, a.dst, p)
  <2>1. p \in ToExpand(a)
    BY <1>7 DEF ToExpand, Holders, Moves, IsDirect
  <2>2. <<a.dst, p>> \in Gained(a)
    BY <2>1 DEF Gained
  <2>3. a.src \in WithSource(<<a.dst, p>>, a.src)
    BY DEF WithSource
  <2>4. QED BY <1>3, <2>2, <2>3 DEF Moved
<1>8. ASSUME NEW p \in Principals, PageOf[p] <= a.page, Moves(sources', a.edge, a.src, p)
      PROVE  Moved(sources', a.src, a.dst, p)
  <2>1. Moves(sources, a.edge, a.src, p)
    BY <1>1, <1>2, <1>5, <1>8
  <2>2. CASE PageOf[p] = a.page
    BY <1>7, <2>1, <2>2
  <2>3. CASE PageOf[p] < a.page
    BY <1>6, <2>1, <2>3 DEF ProgressInv
  <2>4. QED BY <1>1, <1>4, <1>8, <2>2, <2>3
<1>9. ASSUME NEW x \in Begun', NEW e \in x.from, NEW f \in x.to
      PROVE  \/ Left(x, e, f)'
             \/ \A p \in Principals : Moves(sources', x, e, p) => Moved(sources', e, f, p)
  <2>0. x \in Begun
    BY ExpandActions
  <2>1. CASE \A p \in Principals : Moves(sources, x, e, p) => Moved(sources, e, f, p)
    BY <1>5, <1>6, <2>0, <2>1
  <2>2. CASE Left(x, e, f)
    <3>1. PICK b \in actions : b.edge = x /\ b.src = e /\ b.dst = f
      BY <2>2 DEF Left
    <3>2. CASE b # a
      <4>1. b \in actions'
        BY <3>2, ExpandActions
      <4>2. QED BY <3>1, <4>1 DEF Left
    <3>3. CASE b = a /\ HasMorePages(a)
      <4>1. Advanced(a) \in actions'
        BY <3>3, ExpandActions
      <4>2. QED BY <3>1, <3>3, <4>1, ExpandActions DEF Left
    <3>4. CASE b = a /\ ~HasMorePages(a)
      <4>1. ASSUME NEW p \in Principals, Moves(sources', x, e, p) PROVE Moved(sources', e, f, p)
        <5>1. Moves(sources, x, e, p)
          BY <1>5, <2>0, <4>1
        <5>2. p \in Holders(a)
          BY <3>1, <3>4, <5>1 DEF Moves, Holders
        <5>3. PageOf[p] <= a.page
          BY <1>1, <1>4, <3>4, <5>2 DEF HasMorePages
        <5>4. QED BY <1>8, <3>1, <3>4, <4>1, <5>3
      <4>2. QED BY <4>1
    <3>5. QED BY <3>2, <3>3, <3>4
  <2>3. QED BY <2>0, <2>1, <2>2 DEF ProgressInv
<1>10. ASSUME NEW b \in actions', NEW p \in Principals,
              PageOf[p] < b.page, Moves(sources', b.edge, b.src, p)
       PROVE  Moved(sources', b.src, b.dst, p)
  <2>1. CASE b \in actions
    <3>1. b.edge \in Begun /\ b.src \in b.edge.from
      BY <2>1 DEF Begun, ActionsInv
    <3>2. Moves(sources, b.edge, b.src, p)
      BY <1>5, <1>10, <3>1
    <3>3. Moved(sources, b.src, b.dst, p)
      BY <1>10, <2>1, <3>2 DEF ProgressInv
    <3>4. QED BY <1>6, <3>3
  <2>2. CASE b = Advanced(a)
    <3>1. b.edge = a.edge /\ b.src = a.src /\ b.dst = a.dst /\ b.page = a.page + 1
      BY <2>2, ExpandActions
    <3>2. PageOf[p] <= a.page
      BY <1>1, <1>4, <1>10, <3>1
    <3>3. QED BY <1>8, <1>10, <3>1, <3>2
  <2>3. QED BY <2>1, <2>2, ExpandActions
<1>11. QED BY <1>9, <1>10 DEF ProgressInv

(* Each new edge has all its actions, at their first page.                 *)
LEMMA QueueProgress ==
  ASSUME GraphInv, ActionsInv, ProgressInv, Queue
  PROVE  ProgressInv'
<1>1. sources' = sources /\ expanded' = expanded /\ actions = {} /\ edges' = edges
  BY QueueActions
<1>2. ASSUME NEW x \in Begun', NEW e \in x.from, NEW f \in x.to
      PROVE  \/ Left(x, e, f)'
             \/ \A p \in Principals : Moves(sources', x, e, p) => Moved(sources', e, f, p)
  <2>1. CASE x \in expanded
    <3>1. ~Left(x, e, f) /\ x \in Begun
      BY <1>1, <2>1 DEF Left, Begun
    <3>2. QED BY <1>1, <3>1 DEF ProgressInv
  <2>2. CASE x \notin expanded
    <3>1. PICK b \in actions' : b.edge = x
      BY <1>1, <1>2, <2>2 DEF Begun
    <3>2. x \in Unexpanded /\ ~Waiting(x.from)
      BY <3>1, QueueActions
    <3>3. QED BY <3>2, QueueActions DEF Left
  <2>3. QED BY <2>1, <2>2
<1>3. ASSUME NEW b \in actions', NEW p \in Principals PROVE ~(PageOf[p] < b.page)
  <2>1. b.page = 1 /\ PageOf[p] \in Nat /\ PageOf[p] # 0
    BY QueueActions, GrantExpansionAssumption
  <2>2. QED BY <2>1
<1>4. QED BY <1>2, <1>3 DEF ProgressInv

(* ProgressInv is inductive.                                               *)
LEMMA ProgressNext ==
  GraphInv /\ ActionsInv /\ AncestorsInv /\ SourcesInv /\ ProgressInv /\ [Next]_vars
    => ProgressInv'
<1> SUFFICES ASSUME GraphInv, ActionsInv, AncestorsInv, SourcesInv, ProgressInv, [Next]_vars
             PROVE ProgressInv'
  OBVIOUS
<1> DEFINE Idle == actions' = {} /\ expanded' = {}
           Same == UNCHANGED <<actions, expanded, sources>>
<1>1. CASE Idle
  BY <1>1 DEF ProgressInv, Begun
<1>2. CASE Same
  BY <1>2 DEF ProgressInv, Begun, Left
<1>3. CASE Queue
  BY <1>3, QueueProgress
<1>4. ASSUME NEW a \in actions, Expand(a) PROVE ProgressInv'
  BY <1>4, ExpandProgress
<1>5. CASE Start
  BY <1>1, <1>5 DEF Start
<1>6. CASE LoadPage
  BY <1>1, <1>6 DEF LoadPage, GraphInv
<1>7. CASE Finish
  BY <1>2, <1>7 DEF Finish, graph
<1>8. CASE TooDeep
  BY <1>2, <1>8 DEF TooDeep, graph
<1>9. CASE Stop
  BY <1>2, <1>9 DEF Stop, graph
<1>10. CASE Kill
  BY <1>2, <1>10 DEF Kill, graph
<1>11. CASE UNCHANGED vars
  BY <1>2, <1>11 DEF vars, graph
<1>12. QED BY <1>3, <1>4, <1>5, <1>6, <1>7, <1>8, <1>9, <1>10, <1>11 DEF Next, Iterate

-----------------------------------------------------------------------------
(* The depth *)

(* After so many rounds, no edge has begun that ends a longer way, and one *)
(* that has not begun is at the end of a way of as many edges.             *)
DepthInv ==
  /\ depth \in 0 .. MaxDepth + 1
  /\ \A n \in Nat \ {0} : \A w \in Ways(edges, n) : w[n] \in Begun => n <= depth
  /\ depth > 0 => Ways(edges, depth) # {}
  /\ \A x \in edges \ Begun :
       depth > 0 => \E w \in Ways(edges, depth) : w[depth].to = x.from

(* An edge is a way.                                                       *)
LEMMA FirstEdge ==
  ASSUME NEW E, NEW x \in E
  PROVE  \E w \in Ways(E, 1) : w[1] = x
<1> DEFINE w == [i \in 1 .. 1 |-> x]
<1>1. w \in Ways(E, 1)
  BY DEF Ways
<1>2. w[1] = x
  OBVIOUS
<1>3. QED BY <1>1, <1>2

(* A way without its last edge is one that leads to that edge.             *)
LEMMA WayWithoutLast ==
  ASSUME NEW E, NEW n \in Nat \ {0}, NEW w \in Ways(E, n + 1)
  PROVE  \E v \in Ways(E, n) : v[n] \in E /\ v[n].to = w[n + 1].from
<1> DEFINE v == [i \in 1 .. n |-> w[i]]
<1>1. w \in [1 .. n + 1 -> E] /\ \A i \in 1 .. n : w[i].to = w[i + 1].from
  BY DEF Ways
<1>2. v \in [1 .. n -> E]
  BY <1>1
<1>3. \A i \in 1 .. n - 1 : i \in 1 .. n /\ i + 1 \in 1 .. n
  OBVIOUS
<1>4. \A i \in 1 .. n - 1 : v[i].to = v[i + 1].from
  BY <1>1, <1>3
<1>5. v \in Ways(E, n)
  BY <1>2, <1>4 DEF Ways
<1>6. v[n] = w[n] /\ w[n].to = w[n + 1].from /\ v[n] \in E
  BY <1>1, <1>2
<1>7. QED BY <1>5, <1>6

(* A way can be continued by an edge from its end.                         *)
LEMMA LongerWay ==
  ASSUME NEW E, NEW n \in Nat \ {0}, NEW w \in Ways(E, n), NEW x \in E, w[n].to = x.from
  PROVE  \E v \in Ways(E, n + 1) : v[n + 1] = x
<1> DEFINE v == [i \in 1 .. n + 1 |-> IF i <= n THEN w[i] ELSE x]
<1>1. w \in [1 .. n -> E] /\ \A i \in 1 .. n - 1 : w[i].to = w[i + 1].from
  BY DEF Ways
<1>2. v \in [1 .. n + 1 -> E]
  BY <1>1
<1>3. ASSUME NEW i \in 1 .. n PROVE v[i].to = v[i + 1].from
  <2>1. v[i] = w[i]
    OBVIOUS
  <2>2. CASE i = n
    BY <2>1, <2>2
  <2>3. CASE i # n
    <3>1. i \in 1 .. n - 1 /\ v[i + 1] = w[i + 1]
      BY <2>3
    <3>2. QED BY <1>1, <2>1, <3>1
  <2>4. QED BY <2>2, <2>3
<1>4. v[n + 1] = x
  OBVIOUS
<1>5. v \in Ways(E, n + 1)
  BY <1>2, <1>3 DEF Ways
<1>6. QED BY <1>4, <1>5

(* A round: the edge before the last of a way is finished when the last    *)
(* begins, AncestorsInv; and an edge that waits has a parent behind one    *)
(* that has not begun.                                                     *)
LEMMA QueueDepth ==
  ASSUME GraphInv, ActionsInv, AncestorsInv, DepthInv, Queue
  PROVE  DepthInv'
<1>1. /\ actions = {} /\ expanded' = expanded /\ edges' = edges /\ depth' = depth + 1
      /\ depth <= MaxDepth /\ Unexpanded # {}
      /\ depth \in Nat /\ MaxDepth \in Nat
  BY QueueActions, GrantExpansionAssumption DEF DepthInv
<1>2. Begun = expanded /\ Begun' \subseteq edges /\ ActionsInv' /\ AncestorsInv'
  <2>1. ActionsInv' /\ AncestorsInv'
    BY ActionsNext DEF Next, Iterate
  <2>2. QED BY <1>1, <2>1 DEF Begun, ActionsInv
<1>3. depth' \in 0 .. MaxDepth + 1
  BY <1>1
<1>4. ASSUME NEW n \in Nat \ {0}, NEW w \in Ways(edges, n), w[n] \in Begun'
      PROVE  n <= depth'
  <2>1. CASE n = 1
    BY <1>1, <2>1
  <2>2. CASE n # 1
    <3>1. PICK m \in Nat \ {0} : n = m + 1
      <4>1. n - 1 \in Nat \ {0} /\ n = (n - 1) + 1
        BY <2>2
      <4>2. QED BY <4>1
    <3>2. PICK v \in Ways(edges, m) : v[m] \in edges /\ v[m].to = w[n].from
      BY <3>1, WayWithoutLast
    <3>3. Complete(v[m])'
      BY <1>1, <1>2, <1>4, <3>2 DEF AncestorsInv
    <3>4. v[m] \in Begun
      BY <1>1, <1>2, <3>3 DEF Complete
    <3>5. m <= depth
      BY <3>2, <3>4 DEF DepthInv
    <3>6. QED BY <1>1, <3>1, <3>5
  <2>3. QED BY <2>1, <2>2
<1>5. ASSUME NEW x \in Unexpanded
      PROVE  \E w \in Ways(edges, depth + 1) : w[depth + 1] = x
  <2>1. x \in edges \ Begun
    BY <1>2 DEF Unexpanded
  <2>2. CASE depth = 0
    BY <2>1, <2>2, FirstEdge
  <2>3. CASE depth # 0
    <3>1. PICK w \in Ways(edges, depth) : w[depth].to = x.from
      BY <1>1, <2>1, <2>3 DEF DepthInv
    <3>2. QED BY <1>1, <2>1, <2>3, <3>1, LongerWay
  <2>4. QED BY <2>2, <2>3
<1>6. Ways(edges', depth') # {}
  BY <1>1, <1>5
<1>7. ASSUME NEW x \in edges \ Begun'
      PROVE  \E w \in Ways(edges, depth + 1) : w[depth + 1].to = x.from
  <2>1. x \in Unexpanded /\ Waiting(x.from)
    <3>1. x \in Unexpanded
      BY <1>1, <1>7 DEF Begun, Unexpanded
    <3>2. QED BY <1>7, <3>1, QueueActions
  <2>2. PICK y \in edges : y.to = x.from /\ \E z \in Unexpanded : z.from = y.from
    BY <2>1 DEF Waiting
  <2>3. PICK z \in Unexpanded : z.from = y.from
    BY <2>2
  <2>4. z \in edges \ Begun
    BY <1>2 DEF Unexpanded
  <2>5. CASE depth = 0
    <3>1. PICK w \in Ways(edges, 1) : w[1] = y
      BY FirstEdge
    <3>2. QED BY <2>2, <2>5, <3>1
  <2>6. CASE depth # 0
    <3>1. PICK w \in Ways(edges, depth) : w[depth].to = y.from
      BY <1>1, <2>3, <2>4, <2>6 DEF DepthInv
    <3>2. PICK v \in Ways(edges, depth + 1) : v[depth + 1] = y
      BY <1>1, <2>6, <3>1, LongerWay
    <3>3. QED BY <2>2, <3>2
  <2>7. QED BY <2>5, <2>6
<1>8. QED BY <1>1, <1>3, <1>4, <1>6, <1>7 DEF DepthInv

(* DepthInv is inductive.                                                  *)
LEMMA DepthNext ==
  GraphInv /\ ActionsInv /\ AncestorsInv /\ DepthInv /\ [Next]_vars => DepthInv'
<1> SUFFICES ASSUME GraphInv, ActionsInv, AncestorsInv, DepthInv, [Next]_vars
             PROVE DepthInv'
  OBVIOUS
<1> DEFINE Idle == actions' = {} /\ expanded' = {} /\ depth' = 0
           Same == UNCHANGED <<edges, actions, expanded, depth>>
<1>1. CASE Idle
  <2>1. depth' \in 0 .. MaxDepth + 1 /\ ~(depth' > 0)
    BY <1>1, GrantExpansionAssumption
  <2>2. QED BY <1>1, <2>1 DEF DepthInv, Begun
<1>2. CASE Same
  BY <1>2 DEF DepthInv, Begun
<1>3. CASE Queue
  BY <1>3, QueueDepth
<1>4. ASSUME NEW a \in actions, Expand(a) PROVE DepthInv'
  <2>1. edges' = edges /\ depth' = depth /\ Begun' = Begun
    BY <1>4, ExpandActions
  <2>2. QED BY <2>1 DEF DepthInv
<1>5. CASE Start
  BY <1>1, <1>5 DEF Start
<1>6. CASE LoadPage
  BY <1>1, <1>6 DEF LoadPage, GraphInv
<1>7. CASE Finish
  BY <1>2, <1>7 DEF Finish, graph
<1>8. CASE TooDeep
  BY <1>2, <1>8 DEF TooDeep, graph
<1>9. CASE Stop
  BY <1>2, <1>9 DEF Stop, graph
<1>10. CASE Kill
  BY <1>2, <1>10 DEF Kill, graph
<1>11. CASE UNCHANGED vars
  BY <1>2, <1>11 DEF vars, graph
<1>12. QED BY <1>3, <1>4, <1>5, <1>6, <1>7, <1>8, <1>9, <1>10, <1>11 DEF Next, Iterate

-----------------------------------------------------------------------------
(* The end of a run *)

(* How a run ends.                                                         *)
OutcomeInv ==
  /\ running => outcome = "none"
  /\ interrupts \in 0 .. MaxInterrupts
  /\ outcome \in {"none", "done", "deep", "stopped"}
  /\ ExpandedExactly /\ DepthLimit

(* The inductive invariant.                                                *)
Inv == /\ GraphInv /\ ActionsInv /\ AncestorsInv /\ SourcesInv 
       /\ WithinInv /\ ProgressInv /\ DepthInv /\ OutcomeInv

(* When all edges are expanded and no action is left, the grants are       *)
(* closed under the edges, so that they have the closure, and no more by   *)
(* WithinInv.                                                              *)
LEMMA FinishedExpansion ==
  ASSUME GraphInv, ActionsInv, SourcesInv, WithinInv, ProgressInv, began = 1, Finish
  PROVE  sources = ExpansionOf(dir)
<1>1. /\ dir \in Directories /\ DirectoryTyped(dir) /\ loaded /\ actions = {}
      /\ edges = FixCycles(AllEdges(dir)) /\ edges \ expanded = {}
  BY DirTyped, LoadedFromFirst DEF Finish, GraphInv, Unexpanded
<1>2. Honest(dir, sources) /\ Within(dir, sources)
  BY DEF SourcesInv, WithinInv
<1>3. ASSUME NEW x \in edges, NEW e \in x.from, NEW f \in x.to, NEW p \in Principals,
             Moves(sources, x, e, p)
      PROVE  Moved(sources, e, f, p)
  <2>1. x \in Begun /\ ~Left(x, e, f)
    BY <1>1 DEF Begun, Left
  <2>2. QED BY <1>3, <2>1 DEF ProgressInv
<1>4. ASSUME NEW x \in edges, NEW e \in x.from, NEW f \in x.to, NEW p \in Principals,
             Relevant(x, p), <<e, p>> \in Sources(dir, x, DOMAIN sources)
      PROVE  <<f, p>> \in DOMAIN sources /\ e \in sources[<<f, p>>]
  <2>1. <<e, p>> \in DOMAIN sources
    BY <1>2, <1>4 DEF Sources, Honest
  <2>2. x.shallow => sources[<<e, p>>] = {} \/ e \in sources[<<e, p>>]
    <3>1. <<e, p>>[1] = e
      OBVIOUS
    <3>2. x.shallow => <<e, p>> \in Base(dir)
      BY <1>4 DEF Sources
    <3>3. QED BY <1>2, <2>1, <3>1, <3>2 DEF Honest
  <2>3. Moves(sources, x, e, p)
    BY <1>4, <2>1, <2>2 DEF Moves
  <2>4. QED BY <1>3, <2>3 DEF Moved
<1>5. DOMAIN sources = ClosureOf(dir)
  <2>1. ClosureOf(dir) \subseteq DOMAIN sources
    BY <1>1, <1>2, <1>4, ClosureIsLeast DEF Honest
  <2>2. QED BY <1>2, <2>1 DEF Within
<1>6. ASSUME NEW x \in ClosureOf(dir) PROVE sources[x] = ExpansionOf(dir)[x]
  <2>1. sources[x] \subseteq ExpansionOf(dir)[x]
    BY <1>2, <1>5 DEF Within
  <2>2. PICK f \in Entitlements, p \in Principals : x = <<f, p>>
    BY DEF ClosureOf
  <2>3. Gives(dir, x) \subseteq sources[x]
    BY <1>1, <1>4, <1>5, <2>2 DEF Gives
  <2>4. x \in Base(dir) /\ Gives(dir, x) # {} => x[1] \in sources[x]
    BY <1>2, <1>5, <2>3 DEF Honest
  <2>5. ExpansionOf(dir)[x] \subseteq sources[x]
    BY <2>3, <2>4, ExpansionSources
  <2>6. QED BY <2>1, <2>5
<1>7. sources = [x \in ClosureOf(dir) |-> sources[x]]
  BY <1>2, <1>5 DEF Honest
<1>8. ExpansionOf(dir) = [x \in ClosureOf(dir) |-> ExpansionOf(dir)[x]]
  BY ExpansionSources
<1>9. QED BY <1>6, <1>7, <1>8

(* A graph that is expanded within MaxDepth rounds has no longer way.      *)
LEMMA FinishedDepth ==
  ASSUME GraphInv, DepthInv, began = 1, Finish
  PROVE  ~HasLongerWay(dir, MaxDepth)
<1>1. /\ dir \in Directories /\ DirectoryTyped(dir) /\ loaded /\ depth <= MaxDepth
      /\ edges = FixCycles(AllEdges(dir)) /\ edges \subseteq expanded
  BY DirTyped, LoadedFromFirst DEF Finish, GraphInv, Unexpanded
<1>2. MaxDepth \in Nat /\ depth \in Nat
  BY GrantExpansionAssumption DEF DepthInv
<1>3. ASSUME NEW w \in Ways(edges, MaxDepth + 1) PROVE FALSE
  <2>1. w[MaxDepth + 1] \in Begun
    BY <1>1, <1>2 DEF Ways, Begun
  <2>2. MaxDepth + 1 <= depth
    BY <1>2, <2>1 DEF DepthInv
  <2>3. QED BY <1>1, <1>2, <2>2
<1>4. QED BY <1>1, <1>3 DEF HasLongerWay

(* A graph that is refused has one.                                        *)
LEMMA RefusedDepth ==
  ASSUME GraphInv, DepthInv, began = 1, TooDeep
  PROVE  HasLongerWay(dir, MaxDepth)
<1>1. /\ dir \in Directories /\ DirectoryTyped(dir) /\ loaded /\ depth > MaxDepth
      /\ edges = FixCycles(AllEdges(dir))
  BY DirTyped, LoadedFromFirst DEF TooDeep, GraphInv
<1>2. MaxDepth \in Nat /\ depth = MaxDepth + 1
  BY <1>1, GrantExpansionAssumption DEF DepthInv
<1>3. Ways(edges, MaxDepth + 1) # {}
  BY <1>2 DEF DepthInv
<1>4. QED BY <1>1, <1>3 DEF HasLongerWay

(* OutcomeInv is kept.                                                     *)
LEMMA OutcomeNext ==
  Inv /\ [Next]_vars => OutcomeInv'
<1> SUFFICES ASSUME Inv, [Next]_vars PROVE OutcomeInv'
  OBVIOUS
<1>0. /\ OutcomeInv /\ GraphInv /\ dir \in Directories /\ running \in BOOLEAN
      /\ MaxInterrupts \in Nat /\ interrupts \in 0 .. MaxInterrupts
  BY GrantExpansionAssumption DEF Inv, GraphInv, OutcomeInv
<1> DEFINE Quiet == /\ outcome' \in {"none", "stopped"} /\ (running' => outcome' = "none")
                    /\ interrupts' \in 0 .. MaxInterrupts
           Same == UNCHANGED <<dir, running, outcome, sources, began, interrupts>>
<1>1. CASE Quiet
  BY <1>1 DEF OutcomeInv, ExpandedExactly, DepthLimit
<1>2. CASE Same
  BY <1>0, <1>2 DEF OutcomeInv, ExpandedExactly, DepthLimit
<1>3. CASE Finish
  <2>1. /\ running' = FALSE /\ outcome' = "done" /\ interrupts' = interrupts
        /\ UNCHANGED <<dir, began, sources>>
    BY <1>3 DEF Finish, Close, Stay
  <2>2. began = 1 => sources = Expansion[dir]
    BY <1>0, <1>3, FinishedExpansion DEF Inv, Expansion
  <2>3. began = 1 => ~TooDeepFor[dir]
    BY <1>0, <1>3, FinishedDepth DEF Inv, TooDeepFor
  <2>4. QED BY <1>0, <2>1, <2>2, <2>3 DEF OutcomeInv, ExpandedExactly, DepthLimit
<1>4. CASE TooDeep
  <2>1. /\ running' = FALSE /\ outcome' = "deep" /\ interrupts' = interrupts
        /\ UNCHANGED <<dir, began>>
    BY <1>4 DEF TooDeep, Close, Stay
  <2>2. began = 1 => TooDeepFor[dir]
    BY <1>0, <1>4, RefusedDepth DEF Inv, TooDeepFor
  <2>3. QED BY <1>0, <2>1, <2>2 DEF OutcomeInv, ExpandedExactly, DepthLimit
<1>5. ASSUME NEW a \in actions, Expand(a) PROVE OutcomeInv'
  BY <1>0, <1>1, <1>5 DEF Expand, GoOn, Stay, OutcomeInv
<1>6. CASE Start
  BY <1>0, <1>1, <1>6 DEF Start
<1>7. CASE LoadPage
  BY <1>2, <1>7 DEF LoadPage, GoOn, Stay
<1>8. CASE Queue
  BY <1>2, <1>8 DEF Queue, GoOn, Stay
<1>9. CASE Stop
  BY <1>0, <1>1, <1>9 DEF Stop, Close
<1>10. CASE Kill
  BY <1>0, <1>1, <1>10 DEF Kill
<1>11. CASE UNCHANGED vars
  BY <1>2, <1>11 DEF vars
<1>12. QED BY <1>3, <1>4, <1>5, <1>6, <1>7, <1>8, <1>9, <1>10, <1>11 DEF Next, Iterate

-----------------------------------------------------------------------------
(* The theorems *)

(* The invariant holds at first.                                           *)
LEMMA InvInit == Init => Inv
<1> SUFFICES ASSUME Init PROVE Inv
  OBVIOUS
<1>1. GraphInv
  BY GraphInit
<1>2. dir \in Directories /\ MaxDepth \in Nat /\ MaxInterrupts \in Nat
  BY GrantExpansionAssumption DEF Init
<1>3. Begun = {} /\ actions = {} /\ expanded = {} /\ depth = 0
  BY DEF Init, Begun
<1>4. ActionsInv /\ AncestorsInv /\ ProgressInv
  BY <1>3 DEF ActionsInv, AncestorsInv, ProgressInv
<1>5. sources = Direct(dir) /\ file.sources = Direct(dir)
  BY DEF Init
<1>6. SourcesInv /\ WithinInv
  BY <1>2, <1>5, DirectIsHonest, DirectIsWithin DEF SourcesInv, WithinInv
<1>7. DepthInv
  <2>1. depth \in 0 .. MaxDepth + 1 /\ ~(depth > 0)
    BY <1>2, <1>3
  <2>2. QED BY <1>3, <2>1 DEF DepthInv
<1>8. OutcomeInv
  BY <1>2 DEF Init, OutcomeInv, ExpandedExactly, DepthLimit
<1>9. QED BY <1>1, <1>4, <1>6, <1>7, <1>8 DEF Inv

(* Each step keeps it.                                                     *)
LEMMA InvNext == Inv /\ [Next]_vars => Inv'
BY GraphNext, ActionsNext, SourcesNext, WithinNext, ProgressNext, DepthNext, OutcomeNext DEF Inv

(* The invariant that the theorems below come from.                        *)
THEOREM SpecInv == Spec => []Inv
BY InvInit, InvNext, PTL DEF Spec

(* The phase's state and what it persists have their types                 *)
(* (SyncGrantExpansion and the checkpoint).                                *)
THEOREM TypesCorrect == Spec => []TypeOK
<1>1. Inv => TypeOK
  <2> SUFFICES ASSUME Inv PROVE TypeOK
    OBVIOUS
  <2>1. Begun \subseteq edges
    BY DEF Inv, ActionsInv, Begun
  <2>2. ASSUME NEW x \in edges PROVE x.from \subseteq Entitlements /\ x.to \subseteq Entitlements
    <3>1. CASE loaded
      BY <2>2, <3>1, EdgeNodes DEF Inv
    <3>2. CASE ~loaded
      <4>1. /\ DirectoryTyped(dir)
            /\ edges = EdgesOf(dir, {g \in dir.grants : began <= g.page /\ g.page < page})
        BY <3>2, DirTyped DEF Inv, GraphInv
      <4>2. Pairs(edges)
        BY <4>1, EdgesArePairs
      <4>3. QED BY <4>2 DEF Pairs
    <3>3. QED BY <3>1, <3>2
  <2>3. \A a \in actions : a.edge \in edges /\ a.src \in a.edge.from /\ a.dst \in a.edge.to
    BY DEF Inv, ActionsInv
  <2>4. sources \in [DOMAIN sources -> SUBSET Entitlements]
    BY DEF Inv, SourcesInv, Honest
  <2>5. depth \in 0 .. MaxDepth + 1
    BY DEF Inv, DepthInv
  <2>6. expanded \subseteq edges
    BY DEF Inv, ActionsInv
  <2>7. QED BY <2>2, <2>3, <2>4, <2>5, <2>6 DEF Inv, GraphInv, OutcomeInv, TypeOK
<1>2. QED BY <1>1, SpecInv, PTL

(* However a sync is interrupted, killed and resumed, GrantSources names   *)
(* only entitlements that the principal holds and an edge leads from, and  *)
(* tells a direct grant from one that is not (runGrantExpandActions).      *)
THEOREM SourcesAreTrue == Spec => []SourcesTrue
<1>1. Inv => SourcesTrue
  BY DEF Inv, GraphInv, SourcesInv, Honest, SourcesTrue, BaseGrants
<1>2. QED BY <1>1, SpecInv, PTL

(* For every directory, with cycles or without, a run that has read all    *)
(* annotations and ends leaves exactly the closure, each grant with        *)
(* exactly its sources.                                                    *)
THEOREM ExpansionIsExact == Spec => []ExpandedExactly
<1>1. Inv => ExpandedExactly
  BY DEF Inv, OutcomeInv
<1>2. QED BY <1>1, SpecInv, PTL

(* An edge is worked on only when all edges to its source are expanded     *)
(* (HasUnexpandedAncestors).                                               *)
THEOREM AncestorsComeFirst == Spec => []AncestorsFirst
<1>1. Inv => AncestorsFirst
  BY DEF Inv, AncestorsInv, Begun, Complete, AncestorsFirst
<1>2. QED BY <1>1, SpecInv, PTL

(* A directory is refused exactly if it has a way of more than MaxDepth    *)
(* edges (maxDepth).                                                       *)
THEOREM DepthIsLimited == Spec => []DepthLimit
<1>1. Inv => DepthLimit
  BY DEF Inv, OutcomeInv
<1>2. QED BY <1>1, SpecInv, PTL
=============================================================================

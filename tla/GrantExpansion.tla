--------------------------- MODULE GrantExpansion ---------------------------
(***************************************************************************)
(* The last phase of a full sync: grants to groups become grants to their  *)
(* members (syncer.SyncGrantExpansion and package expand).                 *)
(*                                                                         *)
(* A grant to a group carries a GrantExpandable annotation: who holds the  *)
(* source entitlement (the group's membership) is to hold the grant's own  *)
(* entitlement as well.  The phase loads these annotations from the store  *)
(* into a graph, page by page, merges the nodes of a cycle into one, and   *)
(* works through the edges from the ancestors down.  It starts on the      *)
(* grants that the phases before it have stored, SyncRun's matter; an      *)
(* interrupted sync is resumed from the file that was saved, and one that  *)
(* is killed from the file before.                                         *)
(*                                                                         *)
(* Abstractions.  A principal has one grant of an entitlement.  The source *)
(* entitlement of an annotation belongs to the grant's principal, as the   *)
(* connector builds it.  Maps are iterated in any order.                   *)
(***************************************************************************)
EXTENDS Naturals

CONSTANTS
  Entitlements, Principals,
  KindOf,         \* the resource type of a principal
  PageOf,         \* the page of a source entitlement's grants a principal is on
  Directories,    \* the directories to choose from, see DirectoryTyped
  MaxDepth,       \* maxDepth, 8 in the code
  MaxInterrupts   \* bound: interruptions and kills in a behaviour

(* A directory: which entitlements are stored, and the grants the sync has *)
(* stored, each with the page of the store's listing it comes on and the   *)
(* annotation it carries: source is {} or the one source entitlement, and  *)
(* kinds the resource types it is limited to, {} being no limit.           *)
DirectoryTyped(d) ==
  /\ d.stored \subseteq Entitlements
  /\ d.pages \in Nat \ {0}
  /\ \A g \in d.grants :
       /\ g.on \in d.stored /\ g.who \in Principals
       /\ g.source = {} \/ \E e \in Entitlements : g.source = {e}
       /\ g.shallow \in BOOLEAN
       /\ g.page \in 1 .. d.pages
  /\ \A g, h \in d.grants : g.on = h.on /\ g.who = h.who => g = h

ASSUME GrantExpansionAssumption ==
  /\ MaxDepth \in Nat /\ MaxInterrupts \in Nat
  /\ PageOf \in [Principals -> Nat \ {0}]
  /\ \A d \in Directories : DirectoryTyped(d)

VARIABLES
  dir,         \* the directory of this sync
  running,     \* the phase runs
  page,        \* PageToken of the expansion action: the page to load
  loaded,      \* graph.Loaded
  edges,       \* graph.Edges
  expanded,    \* those that are IsExpanded
  actions,     \* graph.Actions
  depth,       \* graph.Depth
  sources,     \* the store's grants, <<entitlement, principal>>, and their sources
  token,       \* PageToken in the database's checkpoint (0: of an earlier phase)
  file,        \* the file that the next process opens
  began,       \* history: the page this run began to load at
  interrupts,  \* number of interruptions so far
  outcome      \* "none", "done", "deep" (exceeded max depth), "stopped"

graph == <<loaded, edges, expanded, actions, depth>>
vars == <<dir, running, page, graph, sources, token, file, began, interrupts, outcome>>

Base(d) == {<<g.on, g.who>> : g \in d.grants}
Direct(d) == [x \in Base(d) |-> {}]
\* Grants put into the store replace the ones with the same id.
Over(new, old) ==
  [x \in DOMAIN new \union DOMAIN old |-> IF x \in DOMAIN new THEN new[x] ELSE old[x]]

-----------------------------------------------------------------------------
(* The graph: an edge leads from a node to a node, and a node is the set   *)
(* of its entitlements, one until cycles are merged.                       *)

Edge(g) == [from |-> g.source, to |-> {g.on}, shallow |-> g.shallow, kinds |-> g.kinds]

\* AddEdge for each annotation whose source entitlement is in the store.
EdgesOf(d, grants) == {Edge(g) : g \in {h \in grants : h.source # {} /\ h.source \subseteq d.stored}}

\* The entitlements that edges lead to from each one, itself included: the
\* least that contains it and all that they lead to.
ClosedUnder(E, S) == \A x \in E : \A e \in x.from : e \in S => x.to \subseteq S
Reachable(E) ==
  [e \in Entitlements |->
    {f \in Entitlements : \A S \in SUBSET Entitlements : e \in S /\ ClosedUnder(E, S) => f \in S}]

\* The nodes that the nodes of cycles are merged into.
NodeOf(E) ==
  LET reachable == Reachable(E)
  IN [e \in Entitlements |-> {f \in reachable[e] : e \in reachable[f]}]

(* FixCycles, once there are no more cycles.  The edges to and from a      *)
(* merged node are new: they are not shallow, and limited to the union of  *)
(* the resource types.  Those inside it are gone.                          *)
FixCycles(E) ==
  LET node == NodeOf(E)
      at(set) == UNION {node[e] : e \in set}
      cyclic(n) == \E x \in E : x.from \subseteq n /\ x.to \subseteq n
  IN {[from |-> at(x.from), to |-> at(x.to),
       shallow |-> x.shallow /\ ~cyclic(at(x.from)) /\ ~cyclic(at(x.to)),
       kinds |-> UNION {y.kinds : y \in {z \in E : at(z.from) = at(x.from) /\ at(z.to) = at(x.to)}}]
       : x \in {y \in E : at(y.from) # at(y.to)}}

\* FixCycles of all the graphs that are ever loaded (a table, so that TLC
\* computes it once).
LoadedFrom(d, n) == EdgesOf(d, {g \in d.grants : g.page >= n})
WithoutCycles ==
  [E \in UNION {{LoadedFrom(d, n) : n \in 1 .. d.pages} : d \in Directories} |-> FixCycles(E)]

Relevant(edge, p) == edge.kinds = {} \/ KindOf[p] \in edge.kinds

-----------------------------------------------------------------------------
(* A run of the phase *)

Init ==
  /\ dir \in Directories
  /\ running = FALSE
  /\ page = 1
  /\ loaded = FALSE /\ edges = {} /\ expanded = {} /\ actions = {} /\ depth = 0
  /\ sources = Direct(dir)
  /\ token = 0
  /\ file = [open |-> FALSE, page |-> 0, sources |-> sources]
  /\ began = 1
  /\ interrupts = 0
  /\ outcome = "none"

(* A sync that has not ended is resumed from the file, with the action's   *)
(* page token but an empty graph, or after a week begun anew.  One whose   *)
(* checkpoint is of an earlier phase may store the directory's grants once *)
(* more, without sources.                                                  *)
Resume ==
  /\ file.open
  /\ token' = file.page
  /\ \/ sources' = file.sources
     \/ file.page = 0 /\ sources' = Over(Direct(dir), file.sources)
StartNewSync == token' = 0 /\ sources' = Direct(dir)

Start ==
  /\ ~running
  /\ running' = TRUE
  /\ Resume \/ StartNewSync
  /\ page' = IF token' = 0 THEN 1 ELSE token'
  /\ loaded' = FALSE /\ edges' = {} /\ expanded' = {} /\ actions' = {} /\ depth' = 0
  /\ began' = page'
  /\ outcome' = "none"
  /\ UNCHANGED <<dir, file, interrupts>>

\* Every iteration of the sync's loop begins with it.
Checkpoint == token' \in {token, page}

\* The sync returns and its database is saved.  Uses token' and sources'.
Close(how) ==
  /\ running' = FALSE
  /\ outcome' = how
  /\ file' = [open |-> how # "done", page |-> token', sources |-> sources']

Stay == UNCHANGED <<dir, began, interrupts>>
GoOn == UNCHANGED <<running, file, outcome>> /\ Stay

(* One page of the store's grants is loaded.  After the last one cycles    *)
(* are merged: at the beginning of the next iteration, but nobody reads    *)
(* the graph before.                                                       *)
ThisPage == EdgesOf(dir, {g \in dir.grants : g.page = page})

LoadForever ==   \* mutant: Loaded is not set
  /\ running /\ ~loaded
  /\ Checkpoint
  /\ edges' = edges \union ThisPage
  /\ page' = IF page < dir.pages THEN page + 1 ELSE page
  /\ UNCHANGED <<loaded, expanded, actions, depth, sources>> /\ GoOn

LoadPast ==   \* mutant: the token moves past the last page
  /\ running /\ ~loaded
  /\ Checkpoint
  /\ loaded' = (page = dir.pages)
  /\ edges' = IF loaded' THEN WithoutCycles[edges \union ThisPage] ELSE edges \union ThisPage
  /\ page' = page + 1
  /\ UNCHANGED <<expanded, actions, depth, sources>> /\ GoOn

LoadPage ==
  /\ running /\ ~loaded
  /\ Checkpoint
  /\ loaded' = (page = dir.pages)
  /\ edges' = IF loaded' THEN WithoutCycles[edges \union ThisPage] ELSE edges \union ThisPage
  /\ page' = IF loaded' THEN page ELSE page + 1
  /\ UNCHANGED <<expanded, actions, depth, sources>> /\ GoOn

-----------------------------------------------------------------------------
(* expandGrantsForEntitlements *)

Unexpanded == edges \ expanded

\* The edges to expand next: those from nodes with no parent that has an
\* edge left.
NeverWaiting(node) == FALSE   \* mutant: no HasUnexpandedAncestors
Waiting(node) == \E x \in edges : x.to = node /\ \E y \in Unexpanded : y.from = x.from

Queue ==
  /\ running /\ loaded /\ actions = {}
  /\ Checkpoint
  /\ depth <= MaxDepth
  /\ Unexpanded # {}
  /\ actions' = UNION {{[src |-> e, dst |-> f, edge |-> x, page |-> 1] :
                          e \in x.from, f \in x.to} :
                         x \in {y \in Unexpanded : ~Waiting(y.from)}}
  /\ depth' = depth + 1
  /\ UNCHANGED <<page, loaded, edges, expanded, sources>> /\ GoOn

\* The graph is expanded and the sync, this being its last phase, ends.
Finish ==
  /\ running /\ loaded /\ actions = {}
  /\ Checkpoint
  /\ depth <= MaxDepth
  /\ Unexpanded = {}
  /\ UNCHANGED <<page, graph, sources>>
  /\ Close("done")
  /\ Stay

\* The test of the depth comes first, whether the graph is expanded or not.
TooDeepEarly ==   \* mutant: the limit is reached, not passed
  /\ running /\ loaded /\ actions = {}
  /\ Checkpoint
  /\ depth >= MaxDepth
  /\ UNCHANGED <<page, graph, sources>>
  /\ Close("deep")
  /\ Stay

TooDeep ==
  /\ running /\ loaded /\ actions = {}
  /\ Checkpoint
  /\ depth > MaxDepth
  /\ UNCHANGED <<page, graph, sources>>
  /\ Close("deep")
  /\ Stay

(* runGrantExpandActions: which of a page's source grants are expanded,    *)
(* and the sources of a grant of the descendant entitlement afterwards.    *)
IsDirect(x) == sources[x] = {} \/ x[1] \in sources[x]

Holders(a) == {p \in Principals : <<a.src, p>> \in DOMAIN sources}
ToExpandDeep(a) ==   \* mutant: Shallow is not looked at
  {p \in Holders(a) : PageOf[p] = a.page /\ Relevant(a.edge, p)}
ToExpand(a) ==
  {p \in Holders(a) :
     /\ PageOf[p] = a.page
     /\ Relevant(a.edge, p)
     /\ a.edge.shallow => IsDirect(<<a.src, p>>)}

WithSourceOnly(x, src) ==   \* mutant: a direct grant forgets that it is direct
  IF x \notin DOMAIN sources THEN {src} ELSE sources[x] \union {src}
WithSource(x, src) ==
  IF x \notin DOMAIN sources THEN {src}
  ELSE IF sources[x] = {} THEN {x[1], src}
  ELSE sources[x] \union {src}

HasMorePages(a) == \E p \in Holders(a) : PageOf[p] > a.page

\* The action that was begun stays at the head of the list.
AtHead(a) == a \in actions /\ \A b \in actions : b.page > 1 => b = a

Expand(a) ==
  /\ running /\ loaded
  /\ AtHead(a)
  /\ Checkpoint
  /\ LET gained == {<<a.dst, p>> : p \in ToExpand(a)}
     IN sources' = Over([x \in gained |-> WithSource(x, a.src)], sources)
  /\ IF HasMorePages(a)
       THEN /\ actions' = (actions \ {a}) \union {[a EXCEPT !.page = @ + 1]}
            /\ expanded' = expanded
       ELSE /\ actions' = actions \ {a}
            /\ expanded' = expanded \union {a.edge}
  /\ UNCHANGED <<page, loaded, edges, depth>> /\ GoOn

-----------------------------------------------------------------------------
(* Interruptions *)

(* The run's time is over, or the store fails. *)
Stop ==
  /\ running
  /\ interrupts < MaxInterrupts
  /\ interrupts' = interrupts + 1
  /\ Checkpoint
  /\ UNCHANGED <<dir, page, graph, sources, began>>
  /\ Close("stopped")

(* The process is killed, and its database with it. *)
Kill ==
  /\ running
  /\ interrupts < MaxInterrupts
  /\ interrupts' = interrupts + 1
  /\ running' = FALSE
  /\ outcome' = "stopped"
  /\ UNCHANGED <<dir, page, graph, sources, token, file, began>>

Iterate == LoadPage \/ Queue \/ Finish \/ TooDeep \/ \E a \in actions : Expand(a)

Next == Start \/ Iterate \/ Stop \/ Kill

Spec == Init /\ [][Next]_vars /\ WF_vars(Iterate)

-----------------------------------------------------------------------------
(* What the expansion of a directory is *)

AllEdges(d) == EdgesOf(d, d.grants)
Sources(d, edge, have) == IF edge.shallow THEN Base(d) ELSE have

(* Who holds what: the least that a principal has been granted and the     *)
(* edges lead to.                                                          *)
Suffices(d, p, S) ==
  /\ \A e \in Entitlements : <<e, p>> \in Base(d) => e \in S
  /\ \A edge \in FixCycles(AllEdges(d)) :
       Relevant(edge, p) =>
         \A e \in edge.from : <<e, p>> \in Sources(d, edge, S \X {p}) => edge.to \subseteq S
ClosureOf(d) ==
  {x \in Entitlements \X Principals :
     \A S \in SUBSET Entitlements : Suffices(d, x[2], S) => x[1] \in S}

\* The closure with the sources that its grants have by it.
ExpansionOf(d) ==
  LET E == FixCycles(AllEdges(d))
      closure == ClosureOf(d)
      from(x) == {e \in Entitlements :
                    \E edge \in E : /\ e \in edge.from /\ x[1] \in edge.to
                                    /\ Relevant(edge, x[2])
                                    /\ <<e, x[2]>> \in Sources(d, edge, closure)}
  IN [x \in closure |->
        from(x) \union (IF x \in Base(d) /\ from(x) # {} THEN {x[1]} ELSE {})]

\* The ways of n edges through a graph.
Ways(E, n) == {w \in [1 .. n -> E] : \A i \in 1 .. n - 1 : w[i].to = w[i + 1].from}
HasLongerWay(d, n) == Ways(FixCycles(AllEdges(d)), n + 1) # {}

\* The same for each directory.
BaseGrants == [d \in Directories |-> Base(d)]
Expansion == [d \in Directories |-> ExpansionOf(d)]
TooDeepFor == [d \in Directories |-> HasLongerWay(d, MaxDepth)]
\* <<e, f, p>>: grants of e to p are to reach f by some edge, perhaps inside a cycle.
Reaches == [d \in Directories |->
  LET node == NodeOf(AllEdges(d))
  IN {r \in Entitlements \X Entitlements \X Principals :
        \E x \in AllEdges(d) :
          x.from \subseteq node[r[1]] /\ x.to \subseteq node[r[2]] /\ Relevant(x, r[3])}]

-----------------------------------------------------------------------------
(* Properties *)

(* The types of the phase's state and of what it persists. *)
TypeOK ==
  /\ dir \in Directories
  /\ running \in BOOLEAN /\ loaded \in BOOLEAN
  /\ page \in 1 .. dir.pages /\ token \in 0 .. dir.pages /\ began \in 1 .. dir.pages
  /\ \A x \in edges : x.from \subseteq Entitlements /\ x.to \subseteq Entitlements
  /\ expanded \subseteq edges
  /\ \A a \in actions : a.edge \in edges /\ a.src \in a.edge.from /\ a.dst \in a.edge.to
  /\ depth \in 0 .. MaxDepth + 1
  /\ sources \in [DOMAIN sources -> SUBSET Entitlements]
  /\ file.page \in 0 .. dir.pages
  /\ interrupts \in 0 .. MaxInterrupts
  /\ outcome \in {"none", "done", "deep", "stopped"}

(* GrantSources tells the truth at every moment, in the middle of a run    *)
(* and after any number of interruptions: the grants that have no sources  *)
(* or name their own entitlement are the directory's, and for every other  *)
(* source the principal holds that one and an edge leads from it here,     *)
(* directly or through merged nodes.                                       *)
SourcesTrue ==
  \A x \in DOMAIN sources :
    /\ sources[x] = {} \/ x[1] \in sources[x] <=> x \in BaseGrants[dir]
    /\ \A e \in sources[x] \ {x[1]} :
         <<e, x[2]>> \in DOMAIN sources /\ <<e, x[1], x[2]>> \in Reaches[dir]

(* A run that has read the annotations from the first page on and ends     *)
(* leaves exactly the closure, each grant with exactly its sources.        *)
ExpandedExactly == outcome = "done" /\ began = 1 => sources = Expansion[dir]

(* An edge is worked on only when everything above it has been: what its   *)
(* source entitlements have is final.                                      *)
AncestorsFirst ==
  \A a \in actions : \A x \in edges : x.to = a.edge.from => x \in expanded

(* The limit of the depth refuses the directories that have a way of more  *)
(* than MaxDepth edges, however many edges there are, and no other.        *)
DepthLimit ==
  began = 1 => /\ outcome = "deep" => TooDeepFor[dir]
               /\ outcome = "done" => ~TooDeepFor[dir]

(* A run of the phase ends, cycles or not. *)
RunsEnd == running ~> ~running

(* "This allows for graceful resumes if a sync is interrupted" (syncer.go: *)
(* 279), and the graph's JSON tags are there "when checkpointing"          *)
(* (graph.go:11): a resumed sync expands as much as an uninterrupted one.  *)
ResumedExactly == outcome = "done" => sources = Expansion[dir]
=============================================================================

------------------------- MODULE SyncContractProofs -------------------------
(***************************************************************************)
(* SyncRun implements TenantSync, for every tenant: each of its steps is   *)
(* one of TenantSync's or changes nothing that TenantSync speaks of.       *)
(***************************************************************************)
EXTENDS SyncRunProofs

(* The facts of a store, by kind.                                          *)
LEMMA FactsOf ==
  ASSUME NEW st
  PROVE  /\ Facts(st).resources = In(st)
         /\ Facts(st).entitlements = st.entitlements
         /\ Facts(st).grants = st.grants
BY DEF Facts, Collection, In

(* One collection is within another.                                       *)
LEMMA WithinByKind ==
  ASSUME NEW a, NEW b,
         a.resources \subseteq b.resources,
         a.entitlements \subseteq b.entitlements, a.grants \subseteq b.grants
  PROVE  Contract!Within(a, b)
BY DEF Contract!Within, Contract!Kinds

(* Nothing is stored at first.                                             *)
LEMMA NothingInEmptyStore == Facts(EmptyStore) = Contract!Nothing
<1>1. In(EmptyStore) = {}
  BY EmptyStoreOK
<1>2. EmptyStore.entitlements = {} /\ EmptyStore.grants = {}
  BY DEF EmptyStore
<1>3. Contract!Nothing = [resources |-> {}, entitlements |-> {}, grants |-> {}]
  BY DEF Contract!Nothing, Contract!Kinds
<1> QED BY <1>1, <1>2, <1>3 DEF Facts, Collection, In

(* The initial states are initial states of TenantSync.                    *)
LEMMA ContractInit == Init => Contract!Init
BY NothingInEmptyStore DEF Init, EmptyFile, Contract!Init

(* A run starts with what was left, or with nothing.                       *)
LEMMA ContractStart == Start => Contract!Begin
BY NothingInEmptyStore DEF Start, Resume, StartNewSync, Contract!Begin

(* A killed run leaves what it was given.                                  *)
LEMMA ContractCrash == Crash => Contract!Die
BY DEF Crash, Contract!Die

(* A deletion is one.                                                      *)
LEMMA ContractDelete == ASSUME NEW g PROVE Delete(g) => Contract!Delete(g)
BY DEF Delete, Contract!Delete

(* Whatever does not touch the store, the file and the run's state is      *)
(* nothing to TenantSync: checkpoints and stacks are not seen.             *)
LEMMA ContractStutter ==
  ASSUME UNCHANGED <<running, store, file, resumed, gone, outcome>>
  PROVE  UNCHANGED Contract!vars
BY DEF Contract!vars

(* What a run leaves when it is closed.                                    *)
LEMMA ContractLeave ==
  ASSUME NEW how, Close(how), store' = store
  PROVE  /\ how = "done" => Contract!Leave(FALSE)
         /\ how # "done" => Contract!Leave(TRUE)
<1>1. \/ file' = [token |-> token', store |-> store', open |-> how # "done"]
      \/ file' = EmptyFile
  BY DEF Close
<1>2. CASE file' = EmptyFile
  BY <1>2, NothingInEmptyStore DEF EmptyFile, Contract!Leave
<1>3. CASE file' = [token |-> token', store |-> store', open |-> how # "done"]
  BY <1>3 DEF Contract!Leave
<1> QED BY <1>1, <1>2, <1>3

(* A run that fails, or panics, is given up.                               *)
LEMMA ContractGiveUp ==
  ASSUME IInv, AppsCached, NilApp \/ TooManyWarnings \/ Fail
  PROVE  Contract!GiveUp
<1>1. running /\ UNCHANGED <<store, resumed, gone>>
  BY DEF NilApp, TooManyWarnings, Fail, Handles
<1>2. Close("failed") \/ (Close("panic") /\ resumed)
  BY PanicIsResumed DEF TooManyWarnings, Fail, NilApp
<1>3. Contract!Leave(TRUE)
  <2>1. store' = store /\ "failed" # "done" /\ "panic" # "done"
    BY <1>1
  <2>2. CASE Close("failed")
    BY <2>1, <2>2, ContractLeave
  <2>3. CASE Close("panic")
    BY <2>1, <2>3, ContractLeave
  <2> QED BY <1>2, <2>2, <2>3
<1>4. running' = FALSE /\ (outcome' = "failed" \/ (outcome' = "panic" /\ resumed))
  BY <1>2 DEF Close
<1> QED BY <1>1, <1>3, <1>4 DEF Contract!GiveUp

(* A store grows by facts that have what they need.                        *)
LEMMA ContractCollect ==
  ASSUME running, GoOn, In(store) \subseteq In(store'),
         store.entitlements \subseteq store'.entitlements, store.grants \subseteq store'.grants,
         \A e \in store'.entitlements \ store.entitlements : e[1] \in In(store'),
         \A x \in store'.grants \ store.grants :
           /\ x.on \in In(store')
           /\ \/ <<x.on, x.slug>> \in store'.entitlements
              \/ TypeOf(x.on) = "enterprise_application" /\ x.slug \notin Slugs(x.on)
  PROVE  Contract!Collect
<1>1. Contract!Within(Facts(store), Facts(store'))
  BY FactsOf, WithinByKind
<1>2. ASSUME NEW e \in store'.entitlements \ store.entitlements
      PROVE  Contract!Within(NeedsOf("entitlements", e), Facts(store'))
  <2>1. NeedsOf("entitlements", e) = Collection({e[1]}, {}, {})
    BY Zenon DEF NeedsOf
  <2> QED BY <2>1, FactsOf, WithinByKind DEF Collection
<1>3. ASSUME NEW x \in store'.grants \ store.grants
      PROVE  Contract!Within(NeedsOf("grants", x), Facts(store'))
  <2> DEFINE needed == {e \in {<<x.on, x.slug>>} :
                          TypeOf(x.on) = "enterprise_application" => x.slug \in Slugs(x.on)}
  <2>1. NeedsOf("grants", x) = Collection({x.on}, needed, {})
    BY Zenon DEF NeedsOf
  <2>2. needed \subseteq store'.entitlements
    OBVIOUS
  <2> HIDE DEF needed
  <2> DEFINE need == Collection({x.on}, needed, {})
  <2>3. need.resources = {x.on} /\ need.entitlements = needed /\ need.grants = {}
    BY DEF Collection
  <2>4. x.on \in In(store')
    OBVIOUS
  <2> HIDE DEF need
  <2>5. Contract!Within(need, Facts(store'))
    BY <2>2, <2>3, <2>4, FactsOf, WithinByKind
  <2> QED BY <2>1, <2>5 DEF need
<1>4. \A r : Contract!Within(NeedsOf("resources", r), Facts(store'))
  <2> TAKE r
  <2>1. NeedsOf("resources", r) = Collection({}, {}, {})
    BY Zenon DEF NeedsOf
  <2> QED BY <2>1, WithinByKind DEF Collection
<1>5. UNCHANGED <<running, resumed, Facts(file.store), file.open, gone, outcome>>
  BY DEF GoOn
<1> QED BY <1>1, <1>2, <1>3, <1>4, <1>5, FactsOf DEF Contract!Collect, Contract!Kinds

(* Every list handler stores what the answer has anew.                     *)
LEMMA ContractResources ==
  ASSUME IInv, SyncResources
  PROVE  Contract!Collect
<1> DEFINE ans == AnswerTo(Current, gone)
           new == NewOf(ans)
<1>1. running /\ GoOn /\ stack # NoAction /\ Current.op = "resources" /\ ~AtRoot
      /\ store' = [store EXCEPT !.resources = @ \o new]
  BY DEF SyncResources, Handles, AnswerTo
<1>2. StoreOK(store) /\ IsListAction(Current) /\ Current \in Actions
  BY <1>1, Handling, HandledKind
<1>3. ans.list \in Seq(Objects)
  BY <1>2, ListAnswer
<1> HIDE DEF ans
<1>4. new \in Seq(Objects)
  BY <1>3, WithoutMembers DEF NewOf
<1> HIDE DEF new
<1>5. /\ store.resources \in Seq(Objects) /\ store'.resources = store.resources \o new
      /\ store'.entitlements = store.entitlements /\ store'.grants = store.grants
  BY <1>1, <1>2 DEF StoreOK
<1>6. ToSet(store.resources \o new) = ToSet(store.resources) \union ToSet(new)
  BY <1>4, <1>5, ConcatMembers
<1>7. In(store) \subseteq In(store')
  BY <1>5, <1>6 DEF In
<1> QED BY <1>1, <1>5, <1>7, ContractCollect

(* Entitlements are stored of a resource that is.                          *)
LEMMA ContractEntitlements ==
  ASSUME IInv, SyncEntitlements
  PROVE  Contract!Collect
<1>1. /\ running /\ GoOn /\ stack # NoAction /\ Current.op = "entitlements" /\ ~AtRoot
      /\ store' = [store EXCEPT !.entitlements = @ \union ListEntitlements(Resource)]
  BY DEF SyncEntitlements, Handles
<1>2. StoreOK(store) /\ IsEachAction(Current, store)
  BY <1>1, Handling, HandledKind
<1>3. Resource \in In(store)
  BY <1>2 DEF IsEachAction, Resource
<1>4. /\ store'.resources = store.resources /\ store'.grants = store.grants
      /\ store'.entitlements = store.entitlements \union ListEntitlements(Resource)
  BY <1>1, <1>2 DEF StoreOK
<1>5. \A e \in ListEntitlements(Resource) : e[1] = Resource
  BY DEF ListEntitlements
<1>6. In(store') = In(store)
  BY <1>4 DEF In
<1>7. \A e \in store'.entitlements \ store.entitlements : e[1] \in In(store')
  BY <1>3, <1>4, <1>5, <1>6
<1> QED BY <1>1, <1>4, <1>6, <1>7, ContractCollect

(* Grants are stored after their entitlements: the invariant says so.      *)
LEMMA ContractGrants ==
  ASSUME IInv, SyncGrants
  PROVE  Contract!Collect
<1>1. running /\ GoOn /\ \E new : store' = [store EXCEPT !.grants = @ \union new]
  BY DEF SyncGrants, Handles
<1>2. StoreOK(store)
  BY DEF IInv
<1>3. StoreOK(store')
  <2>1. IInv'
    BY SyncGrantsInv
  <2> QED BY <2>1 DEF IInv
<1>4. /\ store'.resources = store.resources /\ store'.entitlements = store.entitlements
      /\ store.grants \subseteq store'.grants
  BY <1>1, <1>2 DEF StoreOK
<1>5. In(store') = In(store)
  BY <1>4 DEF In
<1>6. \A x \in store'.grants :
        /\ x.on \in In(store')
        /\ \/ <<x.on, x.slug>> \in store'.entitlements
           \/ TypeOf(x.on) = "enterprise_application" /\ x.slug \notin Slugs(x.on)
  BY <1>3 DEF StoreOK
<1> QED BY <1>1, <1>4, <1>5, <1>6, ContractCollect

(* What is delivered is complete: nothing is due when the stack is empty.  *)
LEMMA ContractComplete ==
  ASSUME IInv, Finish, PagesAreFull
  PROVE  Contract!Complete
<1>1. outcome' = "done" /\ UNCHANGED <<store, gone, resumed>>
  BY DEF Finish, Close
<1>2. /\ \A t \in ToSet(Types) \ ChildTypes : \A i \in Listed(t) \ gone :
           <<t, i>> \in In(store) \/ Foreign(<<t, i>>)
      /\ \A r \in In(store) : ListEntitlements(r) \subseteq store.entitlements
      /\ \A g \in Listed("group") \ gone : Edges(g) \subseteq store.grants
      /\ \A r \in In(store) : TypeOf(r) = "enterprise_application" =>
           \A x \in Assigned[IdOf(r)] : Grant(r, x[2], x[1]) \in store.grants
  BY <1>1, FinishComplete DEF FinishedComplete, Stored, In
<1>3. Contract!Within(OwedBut(gone), Facts(store))
  <2> DEFINE listed == UNION {{t} \X (Listed(t) \ gone) : t \in ToSet(Types) \ ChildTypes}
             edges == UNION {Edges(g) : g \in Listed("group") \ gone}
  <2>1. OwedBut(gone) = Collection({r \in listed : ~Foreign(r)}, {}, edges)
    BY DEF OwedBut
  <2>2. \A r \in listed : r \in In(store) \/ Foreign(r)
    <3> SUFFICES ASSUME NEW r \in listed PROVE r \in In(store) \/ Foreign(r)
      OBVIOUS
    <3>1. PICK t \in ToSet(Types) \ ChildTypes : r \in {t} \X (Listed(t) \ gone)
      OBVIOUS
    <3>2. PICK i \in Listed(t) \ gone : r = <<t, i>>
      BY <3>1
    <3> QED BY <1>2, <3>2
  <2>3. edges \subseteq store.grants
    BY <1>2
  <2> HIDE DEF listed, edges
  <2> QED BY <2>1, <2>2, <2>3, FactsOf, WithinByKind DEF Collection
<1>4. ASSUME NEW r \in In(store) PROVE Contract!Within(FollowsFrom(r), Facts(store))
  <2> DEFINE assigned == {Grant(r, x[2], x[1]) : x \in IF TypeOf(r) = "enterprise_application"
                                                      THEN Assigned[IdOf(r)] ELSE {}}
  <2>1. FollowsFrom(r) = Collection({}, ListEntitlements(r), assigned)
    BY DEF FollowsFrom
  <2>2. assigned \subseteq store.grants
    BY <1>2
  <2> HIDE DEF assigned
  <2> QED BY <1>2, <2>1, <2>2, FactsOf, WithinByKind DEF Collection
<1>5. ~resumed => ResourcesBelow \subseteq In(store)
  <2> SUFFICES ASSUME ~resumed, NEW t \in ChildTypes, NEW s \in Listed("subscription"),
                      NEW name \in NamesBelow(t, s)
               PROVE  <<t, ChildId(t, name, s)>> \in In(store)
    BY DEF ResourcesBelow, BelowAs
  <2>1. ChildrenStored
    BY <1>1, FinishHierarchy DEF HierarchyComplete, ChildrenStored, Stored
  <2>2. t = "resource_group" \/ t = "role"
    BY DEF ChildTypes
  <2> QED BY <2>1, <2>2 DEF ChildrenStored, ChildId, In, Stored
<1> QED BY <1>3, <1>4, <1>5, FactsOf DEF Contract!Complete

(* So the end of a sync is a delivery.                                     *)
LEMMA ContractFinish ==
  ASSUME IInv, Finish, PagesAreFull
  PROVE  Contract!Deliver
<1>1. running /\ Close("done") /\ UNCHANGED <<store, resumed, gone>>
  BY DEF Finish
<1>2. Contract!Complete
  BY ContractComplete
<1>3. Contract!Leave(FALSE)
  BY <1>1, ContractLeave
<1>4. running' = FALSE /\ outcome' = "done"
  BY <1>1 DEF Close
<1> QED BY <1>1, <1>2, <1>3, <1>4 DEF Contract!Deliver

(* Each step is a step of TenantSync or leaves its variables alone.        *)
LEMMA ContractStep ==
  ASSUME IInv, AppsCached, [Next]_vars, PagesAreFull
  PROVE  [Contract!Next]_Contract!vars
<1>1. CASE Start
  BY <1>1, ContractStart DEF Contract!Next
<1>2. CASE SyncResources \/ SyncEntitlements \/ SyncGrants
  BY <1>2, ContractResources, ContractEntitlements, ContractGrants DEF Contract!Next
<1>3. CASE NilApp \/ TooManyWarnings \/ Fail
  BY <1>3, ContractGiveUp DEF Contract!Next
<1>4. CASE Finish
  BY <1>4, ContractFinish DEF Contract!Next
<1>5. CASE Crash
  BY <1>5, ContractCrash DEF Contract!Next
<1>6. ASSUME NEW g \in Listed("group"), Delete(g) PROVE Contract!Next
  BY <1>6, ContractDelete DEF Contract!Next
<1>7. CASE Begin \/ PassOver \/ SyncTypes \/ SyncEach("entitlements") \/ SyncEach("grants")
           \/ GroupNotFound
  <2>1. GoOn /\ UNCHANGED store
    BY <1>7 DEF Begin, PassOver, SyncTypes, SyncEach, GroupNotFound
  <2>2. UNCHANGED <<running, store, file, resumed, gone, outcome>>
    BY <2>1 DEF GoOn
  <2> QED BY <2>2, ContractStutter
<1>8. CASE Retry
  BY <1>8, ContractStutter DEF Retry
<1>9. CASE UNCHANGED vars
  BY <1>9, ContractStutter DEF vars
<1> QED BY <1>1, <1>2, <1>3, <1>4, <1>5, <1>6, <1>7, <1>8, <1>9 DEF Next, Iterate

(* SyncRun implements TenantSync: whatever phases, pages, checkpoints and  *)
(* processes a sync is made of (syncer.Sync, its checkpoints and resumes), *)
(* a run begins with nothing or with what an interrupted one left, loses   *)
(* nothing, stores nothing without what it needs, and is handed on only    *)
(* when complete; if every page of owners or members that another one      *)
(* follows has more than 50 entries, for getGroupGrants drops the link of  *)
(* a shorter one.                                                          *)
THEOREM ImplementsContract ==
  ASSUME PagesAreFull
  PROVE  Spec => ImplementsTenantSync
<1>1. Init => Contract!Init
  BY ContractInit
<1>2. Init => AppsCached
  BY DEF Init, AppsCached
<1>3. IInv /\ AppsCached /\ [Next]_vars => AppsCached'
  BY AppsStayCached
<1>4. IInv /\ AppsCached /\ [Next]_vars => [Contract!Next]_Contract!vars
  BY ContractStep
<1> QED BY <1>1, <1>2, <1>3, <1>4, IInvAlways, PTL DEF Spec, ImplementsTenantSync, Contract!Spec
=============================================================================

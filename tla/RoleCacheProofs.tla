-------------------------- MODULE RoleCacheProofs --------------------------
(***************************************************************************)
(* Theorems about RoleCache, for every number of workers, subscriptions,   *)
(* roles, assignments and pages.                                           *)
(*                                                                         *)
(* Soundness (no phantom assignment) needs what the workers carry between  *)
(* two lock acquisitions: SoundInv.  Completeness needs one worker and     *)
(* listings that do not fail, and a loop invariant: what lies on the pages *)
(* already fetched is in the entry: FillInv.                               *)
(***************************************************************************)
EXTENDS RoleCache, TLAPS

USE DEF InSub, Matching, OnPage

-----------------------------------------------------------------------------
(* Type correctness *)

LEMMA InitTypeOK == Init => TypeOK
BY WorldAssumption DEF Init, TypeOK, Silence

LEMMA NextTypeOK == TypeOK /\ [Next]_vars => TypeOK'
<1> SUFFICES ASSUME TypeOK, [Next]_vars PROVE TypeOK'
  OBVIOUS
<1> USE WorldAssumption DEF TypeOK
<1>1. ASSUME NEW a \in Assignments, Assign(a) PROVE TypeOK'
  BY <1>1 DEF Assign
<1>2. ASSUME NEW a \in Assignments, Unassign(a) PROVE TypeOK'
  BY <1>2 DEF Unassign
<1>3. ASSUME NEW w \in Workers, NEW s \in Subscriptions, NEW r \in Roles, Ask(w, s, r)
      PROVE TypeOK'
  BY <1>3 DEF Ask, Silence
<1>4. ASSUME NEW w \in Workers, FetchPage(w) PROVE TypeOK'
  BY <1>4 DEF FetchPage
<1>5. ASSUME NEW w \in Workers, FetchFails(w) PROVE TypeOK'
  BY <1>5 DEF FetchFails, Error
<1>6. ASSUME NEW w \in Workers, LoadCached(w) PROVE TypeOK'
  BY <1>6 DEF LoadCached
<1>7. ASSUME NEW w \in Workers, StorePage(w) PROVE TypeOK'
  <2>1. call[w].sub \in Subscriptions
    BY <1>7 DEF StorePage, Appended, More
  <2>2. keys' \subseteq Subscriptions /\ cached' \in [Subscriptions -> SUBSET Assignments]
    BY <1>7, <2>1 DEF StorePage, Appended, More
  <2>3. CASE page[w] < LastPage
    <3>1. page' \in [Workers -> 1 .. LastPage]
      BY <1>7, <2>3 DEF StorePage, Appended, More
    <3>2. pc' = [pc EXCEPT ![w] = "list"] /\ call' = call
      BY <1>7, <2>3 DEF StorePage, Appended, More
    <3>3. \A v \in Workers : (pc'[v] = "idle") <=> (call'[v] = NoCall)
      BY <1>7, <3>2 DEF StorePage, Appended, More
    <3>4. QED
      BY <1>7, <2>2, <3>1, <3>2, <3>3 DEF StorePage, Appended, More
  <2>4. CASE ~(page[w] < LastPage)
    <3>1. pc' = [pc EXCEPT ![w] = "answer"] /\ call' = call /\ page' = page
      BY <1>7, <2>4 DEF StorePage, Appended, More
    <3>2. \A v \in Workers : (pc'[v] = "idle") <=> (call'[v] = NoCall)
      BY <1>7, <3>1 DEF StorePage, Appended, More
    <3>3. QED
      BY <1>7, <2>2, <3>1, <3>2 DEF StorePage, Appended, More
  <2>5. QED
    BY <2>3, <2>4
<1>8. ASSUME NEW w \in Workers, Respond(w) PROVE TypeOK'
  <2>1. PICK skipped \in SUBSET Matching(cached[call[w].sub], call[w].sub, call[w].role) :
          LET reported == Matching(cached[call[w].sub], call[w].sub, call[w].role) \ skipped
          IN  answer' = [answer EXCEPT ![w] =
                IF \E a \in reported : PrincipalType(KindOf[a]) = "nil"
                  THEN Error
                  ELSE [result |-> "grants",
                        grants |-> {<<a, PrincipalType(KindOf[a])>> : a \in reported}]]
    BY <1>8 DEF Respond
  <2> DEFINE reported == Matching(cached[call[w].sub], call[w].sub, call[w].role) \ skipped
             grants == {<<a, PrincipalType(KindOf[a])>> : a \in reported}
  <2>2. reported \subseteq Assignments
    BY <1>8 DEF Respond
  <2>3. (~ \E a \in reported : PrincipalType(KindOf[a]) = "nil")
          => grants \subseteq Assignments \X PrincipalTypes
    BY <2>2 DEF PrincipalType, PrincipalTypes, Kinds
  <2>4. answer' \in [Workers -> [result : {"none", "grants", "error"},
                                 grants : SUBSET (Assignments \X PrincipalTypes)]]
    BY <2>1, <2>3 DEF Error
  <2>5. QED
    BY <1>8, <2>4 DEF Respond
<1>9. CASE Restart
  BY <1>9 DEF Restart, Silence
<1>10. CASE UNCHANGED vars
  BY <1>10 DEF vars
<1>11. QED
  BY <1>1, <1>2, <1>3, <1>4, <1>5, <1>6, <1>7, <1>8, <1>9, <1>10 DEF Next, Work

(* The state of roleBuilder and of its callers keeps its types, for every  *)
(* number of workers and every world of assignments.                       *)
THEOREM TypeCorrect == Spec => []TypeOK
BY InitTypeOK, NextTypeOK, PTL DEF Spec

-----------------------------------------------------------------------------
(* Soundness *)

(* What makes CacheSound inductive: a page in flight and the value of the  *)
(* last cacheGet are sound too, whoever has changed the entry since.       *)
SoundInv ==
  /\ TypeOK
  /\ CacheSound
  /\ azure \subseteq seen
  /\ \A w \in Workers :
       pc[w] \in {"merge", "store"} => batch[w] \subseteq InSub(seen, call[w].sub)
  /\ \A w \in Workers :
       pc[w] = "store" => base[w] \subseteq InSub(seen, call[w].sub)

LEMMA InitSound == Init => SoundInv
BY InitTypeOK DEF Init, SoundInv, CacheSound

LEMMA NextSound == SoundInv /\ [Next]_vars => SoundInv'
<1> SUFFICES ASSUME SoundInv, [Next]_vars PROVE SoundInv'
  OBVIOUS
<1>0. TypeOK /\ TypeOK'
  BY NextTypeOK DEF SoundInv
<1> USE WorldAssumption, <1>0 DEF SoundInv, CacheSound
<1>1. ASSUME NEW a \in Assignments, Assign(a) PROVE SoundInv'
  BY <1>1 DEF Assign
<1>2. ASSUME NEW a \in Assignments, Unassign(a) PROVE SoundInv'
  BY <1>2 DEF Unassign
<1>3. ASSUME NEW w \in Workers, NEW s \in Subscriptions, NEW r \in Roles, Ask(w, s, r)
      PROVE SoundInv'
  BY <1>3 DEF Ask, TypeOK
<1>4. ASSUME NEW w \in Workers, FetchPage(w) PROVE SoundInv'
  BY <1>4 DEF FetchPage, TypeOK
<1>5. ASSUME NEW w \in Workers, FetchFails(w) PROVE SoundInv'
  BY <1>5 DEF FetchFails, TypeOK
<1>6. ASSUME NEW w \in Workers, LoadCached(w) PROVE SoundInv'
  BY <1>6 DEF LoadCached, TypeOK
<1>7. ASSUME NEW w \in Workers, StorePage(w) PROVE SoundInv'
  <2>1. call[w].sub \in Subscriptions
    BY <1>7 DEF StorePage, Appended, More, TypeOK
  <2>2. \A s \in Subscriptions : cached'[s] \subseteq InSub(seen', s)
    BY <1>7, <2>1 DEF StorePage, Appended, More, TypeOK
  <2>3. \A v \in Workers : pc'[v] \in {"merge", "store"} => v # w /\ pc'[v] = pc[v]
    BY <1>7 DEF StorePage, Appended, More, TypeOK
  <2>4. QED
    BY <1>7, <2>2, <2>3 DEF StorePage, Appended, More
<1>8. ASSUME NEW w \in Workers, Respond(w) PROVE SoundInv'
  BY <1>8 DEF Respond, TypeOK
<1>9. CASE Restart
  BY <1>9 DEF Restart
<1>10. CASE UNCHANGED vars
  BY <1>10 DEF vars
<1>11. QED
  BY <1>1, <1>2, <1>3, <1>4, <1>5, <1>6, <1>7, <1>8, <1>9, <1>10 DEF Next, Work

LEMMA SoundInvariant == Spec => []SoundInv
BY InitSound, NextSound, PTL DEF Spec

(* The cache never holds an assignment that Azure did not have during this *)
(* process's life, or one of another subscription, for any number of       *)
(* concurrent fills, failed or not.                                        *)
THEOREM CacheIsSound == Spec => []CacheSound
<1>1. SoundInv => CacheSound
  BY DEF SoundInv
<1>2. QED
  BY SoundInvariant, <1>1, PTL

-----------------------------------------------------------------------------
(* Completeness *)

(* The loop invariant of cacheRoleAssignments when nobody else fills: the  *)
(* pages before page[w] are in the entry, the page in flight is in batch,  *)
(* and the value of the last cacheGet is still the entry.  A call that     *)
(* runs has not answered.                                                  *)
FillInv ==
  /\ steady \subseteq azure
  /\ \A w \in Workers :
       /\ pc[w] \in {"list", "merge", "store"} =>
            {a \in InSub(steady, call[w].sub) : PageOf[a] < page[w]} \subseteq cached[call[w].sub]
       /\ pc[w] \in {"merge", "store"} =>
            OnPage(steady, call[w].sub, page[w]) \subseteq batch[w]
       /\ pc[w] = "store" => base[w] = cached[call[w].sub]
       /\ pc[w] = "answer" => call[w].sub \in keys
       /\ pc[w] # "idle" => answer[w] = Silence
  /\ FilledEntryComplete

LEMMA InitFill == Init => FillInv
BY DEF Init, FillInv, FilledEntryComplete

LEMMA NextFill ==
  ASSUME OneWorker, "page" \notin Failures, TypeOK, FillInv, [Next]_vars
  PROVE  FillInv'
<1>0. TypeOK'
  BY NextTypeOK
<1> USE WorldAssumption DEF FillInv, FilledEntryComplete, Filling
<1>1. ASSUME NEW a \in Assignments, Assign(a) PROVE FillInv'
  BY <1>1 DEF Assign
<1>2. ASSUME NEW a \in Assignments, Unassign(a) PROVE FillInv'
  BY <1>2 DEF Unassign
<1>3. ASSUME NEW w \in Workers, NEW s \in Subscriptions, NEW r \in Roles, Ask(w, s, r)
      PROVE FillInv'
  <2>1. \A v \in Workers : v = w
    BY DEF OneWorker
  <2>2. /\ pc'[w] \in {"list", "answer"} /\ call'[w].sub = s /\ page'[w] = 1
        /\ answer'[w] = Silence
    BY <1>3 DEF Ask, TypeOK
  <2>3. pc'[w] = "answer" => s \in keys'
    BY <1>3 DEF Ask, TypeOK
  <2>4. {a \in InSub(steady', s) : PageOf[a] < page'[w]} = {}
    BY <1>3, <2>2 DEF Ask, TypeOK
  <2>5. \A t \in keys' : InSub(steady', t) \subseteq cached'[t]
    BY <1>3, <2>1 DEF Ask
  <2>6. steady' \subseteq azure'
    BY <1>3 DEF Ask
  <2>7. QED
    BY <2>1, <2>2, <2>3, <2>4, <2>5, <2>6
<1>4. ASSUME NEW w \in Workers, FetchPage(w) PROVE FillInv'
  <2>1. \A v \in Workers : v = w
    BY DEF OneWorker
  <2>2. pc[w] = "list" /\ pc'[w] = "merge" /\ batch'[w] = OnPage(azure, call[w].sub, page[w])
    BY <1>4 DEF FetchPage, TypeOK
  <2>3. UNCHANGED <<azure, steady, keys, cached, call, page, answer>>
    BY <1>4 DEF FetchPage
  <2>4. QED
    BY <2>1, <2>2, <2>3
<1>5. ASSUME NEW w \in Workers, FetchFails(w) PROVE FillInv'
  BY <1>5 DEF FetchFails
<1>6. ASSUME NEW w \in Workers, LoadCached(w) PROVE FillInv'
  <2>1. \A v \in Workers : v = w
    BY DEF OneWorker
  <2>2. pc[w] = "merge" /\ pc'[w] = "store" /\ base'[w] = cached[call[w].sub]
    BY <1>6 DEF LoadCached, TypeOK
  <2>3. UNCHANGED <<azure, steady, keys, cached, call, page, batch, answer>>
    BY <1>6 DEF LoadCached
  <2>4. QED
    BY <2>1, <2>2, <2>3
<1>7. ASSUME NEW w \in Workers, StorePage(w) PROVE FillInv'
  <2> DEFINE s == call[w].sub
  <2>1. \A v \in Workers : v = w
    BY DEF OneWorker
  <2>2. s \in Subscriptions
    BY <1>7 DEF StorePage, Appended, More, TypeOK
  <2>3. UNCHANGED <<azure, steady, call, answer>> /\ keys' = keys \union {s} /\ pc[w] = "store"
    BY <1>7 DEF StorePage, Appended, More
  <2>4. cached'[s] = cached[s] \union batch[w]
    BY <1>7, <2>2 DEF StorePage, Appended, More, TypeOK
  <2>5. \A t \in Subscriptions : t # s => cached'[t] = cached[t]
    BY <1>7, <2>2 DEF StorePage, Appended, More, TypeOK
  <2>6. {a \in InSub(steady, s) : PageOf[a] < page[w] + 1} \subseteq cached'[s]
    <3>1. SUFFICES ASSUME NEW a \in InSub(steady, s), PageOf[a] < page[w] + 1
                   PROVE  a \in cached'[s]
      OBVIOUS
    <3>2. PageOf[a] \in Nat /\ page[w] \in Nat
      BY DEF TypeOK
    <3>3. PageOf[a] < page[w] \/ PageOf[a] = page[w]
      BY <3>1, <3>2
    <3>4. QED
      BY <3>3, <2>3, <2>4
  <2>7. \A t \in keys : t # s => InSub(steady, t) \subseteq cached'[t]
    BY <2>1, <2>5 DEF TypeOK
  <2>8. CASE page[w] < LastPage
    <3>1. pc'[w] = "list" /\ page'[w] = page[w] + 1
      BY <1>7, <2>8 DEF StorePage, Appended, More, TypeOK
    <3>2. Filling(s)'
      BY <3>1, <2>3
    <3>3. FilledEntryComplete'
      BY <3>2, <2>3, <2>7
    <3>4. QED
      BY <3>1, <3>3, <2>1, <2>3, <2>6
  <2>9. CASE ~(page[w] < LastPage)
    <3>1. pc'[w] = "answer" /\ page'[w] = page[w]
      BY <1>7, <2>9 DEF StorePage, Appended, More, TypeOK
    <3>2. InSub(steady, s) \subseteq cached'[s]
      <4>1. SUFFICES ASSUME NEW a \in InSub(steady, s) PROVE PageOf[a] < page[w] + 1
        BY <2>6
      <4>2. PageOf[a] \in 1 .. LastPage /\ page[w] \in 1 .. LastPage
        BY DEF TypeOK
      <4>3. QED
        BY <4>2, <2>9
    <3>3. FilledEntryComplete'
      BY <3>2, <2>3, <2>7
    <3>4. QED
      BY <3>1, <3>3, <2>1, <2>3
  <2>10. QED
    BY <2>8, <2>9
<1>8. ASSUME NEW w \in Workers, Respond(w) PROVE FillInv'
  <2>1. \A v \in Workers : v = w
    BY DEF OneWorker
  <2>2. pc[w] = "answer" /\ pc'[w] = "idle"
    BY <1>8 DEF Respond, TypeOK
  <2>3. UNCHANGED <<azure, steady, keys, cached>>
    BY <1>8 DEF Respond
  <2>4. QED
    BY <2>1, <2>2, <2>3
<1>9. CASE Restart
  BY <1>9 DEF Restart
<1>10. CASE UNCHANGED vars
  BY <1>10 DEF vars
<1>11. QED
  BY <1>1, <1>2, <1>3, <1>4, <1>5, <1>6, <1>7, <1>8, <1>9, <1>10 DEF Next, Work

(* With one worker and listings that do not fail, an entry that nobody is  *)
(* filling holds everything Azure has had since process start.  Both       *)
(* conditions are needed: the runs RoleCachePartial and RoleCacheRace drop *)
(* one each and find the entry or the answer incomplete.                   *)
THEOREM EntryIsComplete ==
  ASSUME OneWorker, "page" \notin Failures
  PROVE  Spec => []FilledEntryComplete
<1>1. TypeOK /\ FillInv /\ [Next]_vars => FillInv'
  BY NextFill
<1>2. FillInv => FilledEntryComplete
  BY DEF FillInv
<1>3. QED
  BY <1>1, <1>2, InitFill, TypeCorrect, PTL DEF Spec

-----------------------------------------------------------------------------
(* Action properties *)

LEMMA FrozenStep == TypeOK /\ [Next]_vars => [EntryFrozenStep]_vars
<1> SUFFICES ASSUME TypeOK, Next, NEW s \in keys, ~Filling(s), ~Restart
             PROVE  s \in keys' /\ cached'[s] = cached[s] /\ ~Filling(s)'
  BY DEF EntryFrozenStep, vars
<1>1. ASSUME NEW w \in Workers, StorePage(w) PROVE s \in keys' /\ cached'[s] = cached[s]
  <2>1. call[w].sub # s
    BY <1>1 DEF StorePage, Appended, More, Filling
  <2>2. QED
    BY <1>1, <2>1 DEF StorePage, Appended, More, TypeOK
<1>2. ASSUME ~ \E w \in Workers : StorePage(w) PROVE s \in keys' /\ cached'[s] = cached[s]
  BY <1>2 DEF Next, Work, Assign, Unassign, Ask, FetchPage, FetchFails, LoadCached, Respond
<1>3. \A v \in Workers :
        pc'[v] \in {"list", "merge", "store"} => call'[v].sub # s
  <2>1. CASE \E a \in Assignments : Assign(a) \/ Unassign(a)
    BY <2>1 DEF Assign, Unassign, Filling
  <2>2. ASSUME NEW w \in Workers, NEW t \in Subscriptions, NEW r \in Roles, Ask(w, t, r)
        PROVE  \A v \in Workers : pc'[v] \in {"list", "merge", "store"} => call'[v].sub # s
    BY <2>2 DEF Ask, TypeOK, Filling
  <2>3. ASSUME NEW w \in Workers, Work(w)
        PROVE  \A v \in Workers : pc'[v] \in {"list", "merge", "store"} => call'[v].sub # s
    BY <2>3 DEF Work, FetchPage, FetchFails, LoadCached, StorePage, Respond, TypeOK, Filling
  <2>4. QED
    BY <2>1, <2>2, <2>3 DEF Next
<1>4. QED
  BY <1>1, <1>2, <1>3 DEF Filling

(* Once filled, an entry is never read from Azure again in this process:   *)
(* no step of any worker but a running fill of that subscription changes   *)
(* it, so staleness lasts until the process ends.                          *)
THEOREM EntriesFreeze == Spec => EntryFrozen
<1>1. TypeOK /\ [Next]_vars => [EntryFrozenStep]_vars
  BY FrozenStep
<1>2. QED
  BY <1>1, TypeCorrect, PTL DEF Spec, EntryFrozen

LEMMA CompleteAnswerStep ==
  ASSUME OneWorker, Failures = {}, TypeOK, FillInv, [Next]_vars
  PROVE  [AnswerCompleteStep]_vars
<1> SUFFICES ASSUME Next, NEW w \in Workers, pc[w] = "answer", answer'[w].result = "grants"
             PROVE  Matching(steady, call[w].sub, call[w].role)
                      \subseteq {g[1] : g \in answer'[w].grants}
  BY DEF AnswerCompleteStep, vars
<1>1. \A v \in Workers : v = w
  BY DEF OneWorker
<1>2. CASE Respond(w)
  <2> DEFINE matched == Matching(cached[call[w].sub], call[w].sub, call[w].role)
             types == {<<a, PrincipalType(KindOf[a])>> : a \in matched}
  <2>1. PICK skipped \in SUBSET matched :
          /\ skipped # {} => "principal" \in Failures
          /\ answer' = [answer EXCEPT ![w] =
               IF \E a \in matched \ skipped : PrincipalType(KindOf[a]) = "nil"
                 THEN Error
                 ELSE [result |-> "grants",
                       grants |-> {<<a, PrincipalType(KindOf[a])>> : a \in matched \ skipped}]]
    BY <1>2 DEF Respond
  <2>2. matched \ skipped = matched
    BY <2>1
  <2>3. answer'[w] = IF \E a \in matched \ skipped : PrincipalType(KindOf[a]) = "nil"
                       THEN Error
                       ELSE [result |-> "grants", grants |-> types]
    BY <2>1, <2>2 DEF TypeOK
  <2>4. answer'[w].grants = types
    BY <2>3 DEF Error
  <2>5. matched \subseteq {g[1] : g \in types}
    <3>1. SUFFICES ASSUME NEW a \in matched PROVE \E g \in types : a = g[1]
      OBVIOUS
    <3>2. <<a, PrincipalType(KindOf[a])>> \in types
      OBVIOUS
    <3>3. QED
      BY <3>2
  <2>6. call[w].sub \in keys /\ ~Filling(call[w].sub)
    BY <1>1 DEF FillInv, Filling
  <2>7. InSub(steady, call[w].sub) \subseteq cached[call[w].sub]
    BY <2>6 DEF FillInv, FilledEntryComplete
  <2>8. QED
    BY <2>4, <2>5, <2>7
<1>3. CASE ~Respond(w)
  <2>1. \A v \in Workers : ~Work(v)
    BY <1>1, <1>3 DEF Work, FetchPage, FetchFails, LoadCached, StorePage
  <2>2. \A s \in Subscriptions, r \in Roles : ~Ask(w, s, r)
    BY DEF Ask
  <2>3. CASE Restart
    BY <2>3 DEF Restart, Silence
  <2>4. CASE \E a \in Assignments : Assign(a) \/ Unassign(a)
    <3>1. answer' = answer
      BY <2>4 DEF Assign, Unassign
    <3>2. answer[w].result # "grants"
      BY DEF FillInv, Silence
    <3>3. QED
      BY <3>1, <3>2
  <2>5. QED
    BY <1>1, <2>1, <2>2, <2>3, <2>4 DEF Next
<1>4. QED
  BY <1>2, <1>3

(* With one worker and no failing request, an answer holds every           *)
(* assignment of the role that Azure has had since process start.          *)
THEOREM AnswersAreComplete ==
  ASSUME OneWorker, Failures = {}
  PROVE  Spec => AnswersComplete
<1>1. TypeOK /\ FillInv /\ [Next]_vars => FillInv'
  BY NextFill
<1>2. TypeOK /\ FillInv /\ [Next]_vars => [AnswerCompleteStep]_vars
  BY CompleteAnswerStep
<1>3. QED
  BY <1>1, <1>2, InitFill, TypeCorrect, PTL DEF Spec, AnswersComplete

-----------------------------------------------------------------------------
(* Refinement *)

ListingInv == SoundInv /\ (Undisturbed => FillInv)

LEMMA ListingInvariant == Spec => []ListingInv
<1>1. Init => ListingInv
  BY InitSound, InitFill DEF ListingInv
<1>2. ListingInv /\ [Next]_vars => ListingInv'
  <2>1. ListingInv /\ [Next]_vars => SoundInv'
    BY NextSound DEF ListingInv
  <2>2. ASSUME ListingInv, [Next]_vars, Undisturbed PROVE FillInv'
    BY <2>2, NextFill DEF ListingInv, Undisturbed, SoundInv
  <2>3. QED
    BY <2>1, <2>2 DEF ListingInv
<1>3. QED
  BY <1>1, <1>2, PTL DEF Spec

LEMMA RespondImplements ==
  ASSUME ListingInv, NEW w \in Workers, Respond(w)
  PROVE  Listing!ReturnGrants(w) \/ Listing!ReturnError(w)
<1> DEFINE matched == Matching(cached[call[w].sub], call[w].sub, call[w].role)
<1>1. PICK skipped \in SUBSET matched :
        /\ skipped # {} => "principal" \in Failures
        /\ answer' = [answer EXCEPT ![w] =
             IF \E a \in matched \ skipped : PrincipalType(KindOf[a]) = "nil"
               THEN Error
               ELSE [result |-> "grants",
                     grants |-> {<<a, PrincipalType(KindOf[a])>> : a \in matched \ skipped}]]
  BY DEF Respond
<1> DEFINE reported == matched \ skipped
           grants == {<<a, PrincipalType(KindOf[a])>> : a \in reported}
           wanted == Listing!Matching(steady, call[w].sub, call[w].role)
<1>2. pc[w] = "answer" /\ TypeOK
  BY DEF Respond, ListingInv, SoundInv
<1>3. call[w] # NoCall /\ call[w].sub \in Subscriptions
  BY <1>2, WorldAssumption DEF TypeOK
<1>4. call' = [call EXCEPT ![w] = NoCall] /\ UNCHANGED <<azure, seen, steady>>
  BY DEF Respond
<1>5. CASE \E a \in reported : PrincipalType(KindOf[a]) = "nil"
  BY <1>1, <1>3, <1>4, <1>5 DEF Listing!ReturnError, Error
<1>6. CASE ~ \E a \in reported : PrincipalType(KindOf[a]) = "nil"
  <2>1. answer' = [answer EXCEPT ![w] = [result |-> "grants", grants |-> grants]]
    BY <1>1, <1>6
  <2>2. reported \subseteq Listing!Matching(seen, call[w].sub, call[w].role)
    BY <1>3 DEF ListingInv, SoundInv, CacheSound, Listing!Matching
  <2>3. \A a \in reported : PrincipalType(KindOf[a]) \in PrincipalTypes
    BY <1>2, <1>3, <1>6, WorldAssumption DEF PrincipalType, PrincipalTypes, Kinds, TypeOK
  <2>4. grants \in SUBSET (Listing!Matching(seen, call[w].sub, call[w].role) \X PrincipalTypes)
    BY <2>2, <2>3
  <2>5. ASSUME Undisturbed PROVE wanted \subseteq {g[1] : g \in grants}
    <3>1. reported = matched
      BY <1>1, <2>5 DEF Undisturbed
    <3>2. call[w].sub \in keys /\ ~Filling(call[w].sub)
      BY <1>2, <2>5 DEF ListingInv, FillInv, Filling, Undisturbed, OneWorker
    <3>3. InSub(steady, call[w].sub) \subseteq cached[call[w].sub]
      BY <2>5, <3>2 DEF ListingInv, FillInv, FilledEntryComplete
    <3>4. wanted \subseteq matched
      BY <3>3 DEF Listing!Matching
    <3>5. SUFFICES ASSUME NEW a \in wanted PROVE \E g \in grants : a = g[1]
      OBVIOUS
    <3>6. <<a, PrincipalType(KindOf[a])>> \in grants
      BY <3>1, <3>4
    <3>7. QED
      BY <3>6
  <2>6. QED
    BY <1>3, <1>4, <2>1, <2>4, <2>5 DEF Listing!ReturnGrants
<1>7. QED
  BY <1>5, <1>6

LEMMA StepImplements == ListingInv /\ [Next]_vars => [Listing!Next]_(Listing!vars)
<1> SUFFICES ASSUME ListingInv, [Next]_vars PROVE [Listing!Next]_(Listing!vars)
  OBVIOUS
<1>0. TypeOK
  BY DEF ListingInv, SoundInv
<1>1. ASSUME NEW a \in Assignments, Assign(a) PROVE Listing!Next
  BY <1>1 DEF Assign, Listing!Assign, Listing!Next
<1>2. ASSUME NEW a \in Assignments, Unassign(a) PROVE Listing!Next
  BY <1>2 DEF Unassign, Listing!Unassign, Listing!Next
<1>3. ASSUME NEW w \in Workers, NEW s \in Subscriptions, NEW r \in Roles, Ask(w, s, r)
      PROVE Listing!Next
  <2>1. Listing!Ask(w, s, r)
    BY <1>0, <1>3 DEF Ask, Listing!Ask, TypeOK, Silence, Listing!Silence
  <2>2. QED
    BY <2>1 DEF Listing!Next
<1>4. ASSUME NEW w \in Workers, FetchPage(w) \/ LoadCached(w) \/ StorePage(w)
      PROVE UNCHANGED Listing!vars
  BY <1>4 DEF FetchPage, LoadCached, StorePage, Listing!vars
<1>5. ASSUME NEW w \in Workers, FetchFails(w) PROVE Listing!Next
  <2>1. Listing!ReturnError(w)
    BY <1>0, <1>5 DEF FetchFails, Error, Listing!ReturnError, TypeOK
  <2>2. QED
    BY <2>1 DEF Listing!Next
<1>6. ASSUME NEW w \in Workers, Respond(w) PROVE Listing!Next
  BY <1>6, RespondImplements DEF Listing!Next
<1>7. CASE Restart
  BY <1>7 DEF Restart, Silence, Listing!Restart, Listing!Silence, Listing!Next
<1>8. CASE UNCHANGED vars
  BY <1>8 DEF vars, Listing!vars
<1>9. QED
  BY <1>1, <1>2, <1>3, <1>4, <1>5, <1>6, <1>7, <1>8 DEF Next, Work

(* roleBuilder.Grants implements what its callers rely on: sound answers   *)
(* for any number of workers and any failures, complete ones when a single *)
(* sync runs and no request fails.                                         *)
THEOREM ImplementsRoleListing == Spec => ImplementsListing
<1>1. Init => Listing!Init
  BY DEF Init, Listing!Init, Silence, Listing!Silence
<1>2. QED
  BY <1>1, ListingInvariant, StepImplements, PTL DEF Spec, ImplementsListing, Listing!Spec
=============================================================================

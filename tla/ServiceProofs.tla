---------------------------- MODULE ServiceProofs ----------------------------
(***************************************************************************)
(* Theorems about Service, for every number of slots, tasks, reads of a    *)
(* sync, subscriptions and changes of the tenant.                          *)
(*                                                                         *)
(* Three arguments.  The slots: SlotInv counts them, after the loop has    *)
(* returned as well, as long as nothing was interrupted.  The HTTP cache:  *)
(* what is in it was stored by a sync (ReaderInv), which clears it before  *)
(* it is uploaded; so a sync that begins alone begins with nothing in the  *)
(* cache, and everything that is stored while it runs was answered after   *)
(* its beginning (FreshInv).  The role map: whatever page is on its way    *)
(* into the map, or out of it, was listed by this process (RolesInv).      *)
(***************************************************************************)
EXTENDS Service, FiniteSetTheorems, TLAPS

-----------------------------------------------------------------------------
(* The invariants *)

SlotInv ==
  /\ ~(Over /\ cancelled) =>
       held = Cardinality(running) + (IF loop = "next" THEN 1 ELSE 0)
  /\ loop = "crashed" => cancelled
  /\ ~greeted => running = {}

(* A sync that does not run holds nothing; a request belongs to a sync     *)
(* that asks Graph, and what has been answered is an answer.               *)
SyncInv ==
  \A s \in Syncs :
    /\ s \notin running =>
         next[s] = 1 /\ oldest[s] = Missing /\ ~clean[s] /\ at[s] = "idle"
    /\ at[s] # "idle" => AsksGraph(s)
    /\ at[s] = "set" => got[s] \in Versions
    /\ began[s] <= tenant

\* An answer that outlives a cleanup is one that a running sync sweeps.
ReaderInv ==
  cleaned /\ answers # Nothing => \E s \in Reading : next[s] <= Len(Order) + 1

\* No answer that a clean sync can still be given is older than the sync.
FreshInv ==
  \A s \in Syncs : clean[s] =>
    /\ began[s] <= oldest[s]
    /\ \A u \in Urls : began[s] <= answers[u]
    /\ \A c \in Syncs : at[c] = "set" => began[s] <= got[c]

\* No listing in the map, or on its way there, is older than the process.
RolesInv ==
  /\ started <= tenant
  /\ \A b \in Subs : started <= roles[b]
  /\ \A s \in Syncs : started <= page[s] /\ started <= shown[s]

ServiceInv == TypeOK /\ SlotInv /\ SyncInv /\ ReaderInv /\ FreshInv /\ RolesInv

-----------------------------------------------------------------------------
(* The slots *)

RunnerStep ==
  \/ Poll
  \/ \E t \in Tasks : NextTask(t)
  \/ \E t \in Tasks, closing \in BOOLEAN : Finish(t, closing)
  \/ Cancel
  \/ Restart
  \/ UNCHANGED runner

(* Every step of the service is one of the runner's, or none of them.      *)
LEMMA NextIsRunnerStep == [Next]_vars => RunnerStep
<1> USE DEF RunnerStep
<1> SUFFICES ASSUME [Next]_vars PROVE RunnerStep
  OBVIOUS
<1>1. CASE Idle
  BY <1>1 DEF Idle
<1>2. ASSUME NEW t \in Tasks, Claim(t) \/ EndOther(t) \/ EndWrite(t) PROVE RunnerStep
  BY <1>2 DEF Claim, EndOther, EndWrite
<1>3. ASSUME NEW s \in Syncs, BeginSync(s) \/ SyncStep(s) \/ EndFailed(s) PROVE RunnerStep
  <2>1. s \in Tasks
    BY ServiceAssumption
  <2>2. QED
    BY <1>3, <2>1 DEF BeginSync, SyncStep, EndFailed, LookUp, Reply, Keep, ListRoles,
                   StoreRoles, AnswerRoles, CleanUp, Upload
<1>4. CASE \E u \in Urls : Expire(u)
  BY <1>4 DEF Expire
<1>5. CASE Interrupt
  BY <1>5 DEF Interrupt
<1>6. CASE StartAgain
  BY <1>6 DEF StartAgain
<1>7. CASE UNCHANGED vars
  BY <1>7 DEF vars
<1>8. QED
  BY <1>1, <1>2, <1>3, <1>4, <1>5, <1>6, <1>7 DEF Next

LEMMA RunningFinite ==
  ASSUME RunnerTypeOK
  PROVE  /\ IsFiniteSet(running)
         /\ Cardinality(running) \in Nat
         /\ running # {} => Cardinality(running) > 0
         /\ \A t : t \notin running => Cardinality(running \union {t}) = Cardinality(running) + 1
         /\ \A t \in running : Cardinality(running \ {t}) = Cardinality(running) - 1
<1>1. IsFiniteSet(running)
  BY RunnerAssumption, FS_Subset DEF RunnerTypeOK
<1>2. Cardinality(running) \in Nat
  BY <1>1, FS_CardinalityType
<1>3. running # {} => Cardinality(running) > 0
  BY <1>1, <1>2, FS_EmptySet
<1>4. \A t : t \notin running => Cardinality(running \union {t}) = Cardinality(running) + 1
  BY <1>1, FS_AddElement
<1>5. \A t \in running : Cardinality(running \ {t}) = Cardinality(running) - 1
  BY <1>1, FS_RemoveElement
<1>6. QED
  BY <1>1, <1>2, <1>3, <1>4, <1>5

LEMMA RunnerTypes == RunnerTypeOK /\ RunnerStep => RunnerTypeOK'
<1> SUFFICES ASSUME RunnerTypeOK, RunnerStep PROVE RunnerTypeOK'
  OBVIOUS
<1> USE RunnerAssumption DEF RunnerTypeOK, Around
<1>1. CASE Poll
  BY <1>1 DEF Poll, Wake, SeeCancel, Acquire, AcquireFails, NextEmpty, Release
<1>2. CASE \E t \in Tasks : NextTask(t)
  BY <1>2 DEF NextTask
<1>3. CASE \E t \in Tasks, closing \in BOOLEAN : Finish(t, closing)
  BY <1>3 DEF Finish, Release
<1>4. CASE Cancel
  BY <1>4 DEF Cancel
<1>5. CASE Restart
  <2>1. 0 \in 0 .. Slots
    OBVIOUS
  <2>2. QED
    BY <1>5, <2>1, Zenon DEF Restart
<1>6. CASE UNCHANGED runner
  BY <1>6 DEF runner
<1>7. QED
  BY <1>1, <1>2, <1>3, <1>4, <1>5, <1>6 DEF RunnerStep

LEMMA SlotStep == RunnerTypeOK /\ SlotInv /\ RunnerStep => SlotInv'
<1> SUFFICES ASSUME RunnerTypeOK, SlotInv, RunnerStep PROVE SlotInv'
  OBVIOUS
<1> USE DEF SlotInv, Over
<1>0. held \in Nat /\ Cardinality(running) \in Nat
  BY RunningFinite, RunnerAssumption DEF RunnerTypeOK
<1>1. CASE Wake \/ SeeCancel \/ Acquire
  BY <1>0, <1>1 DEF Wake, SeeCancel, Acquire
<1>2. CASE AcquireFails
  BY <1>0, <1>2 DEF AcquireFails, Release
<1>3. CASE NextEmpty
  <2>1. held > 0
    BY <1>0, <1>3 DEF NextEmpty
  <2>2. QED
    BY <1>0, <1>3, <2>1 DEF NextEmpty, Release, Around
<1>4. ASSUME NEW t \in Tasks, NextTask(t) PROVE SlotInv'
  <2>1. t \notin running
    BY <1>4 DEF NextTask
  <2>2. Cardinality(running') = Cardinality(running) + 1
    BY <1>4, <2>1, RunningFinite DEF NextTask
  <2>3. QED
    BY <1>0, <1>4, <2>2 DEF NextTask, Around
<1>5. ASSUME NEW t \in Tasks, NEW closing \in BOOLEAN, Finish(t, closing) PROVE SlotInv'
  <2>1. /\ Cardinality(running) > 0
        /\ Cardinality(running') = Cardinality(running) - 1
    BY <1>5, RunningFinite DEF Finish
  <2>2. ~(Over /\ cancelled) => held > 0
    BY <1>0, <2>1
  <2>3. greeted' = greeted /\ cancelled' = cancelled /\ loop # "crashed" /\ running' \subseteq running
    BY <1>5 DEF Finish
  <2>4. CASE held > 0
    <3>1. held' = held - 1 /\ loop' = loop
      BY <1>5, <2>4 DEF Finish, Release
    <3>2. QED
      BY <1>0, <2>1, <2>3, <3>1
  <2>5. CASE ~(held > 0)
    <3>1. loop' = "crashed"
      BY <1>5, <2>5 DEF Finish, Release
    <3>2. QED
      BY <2>2, <2>3, <2>5, <3>1
  <2>6. QED
    BY <2>4, <2>5
<1>6. CASE Cancel
  BY <1>6 DEF Cancel
<1>7. CASE Restart
  BY <1>7, FS_EmptySet DEF Restart
<1>8. CASE UNCHANGED runner
  BY <1>8 DEF runner
<1>9. QED
  BY <1>1, <1>2, <1>3, <1>4, <1>5, <1>6, <1>7, <1>8 DEF RunnerStep, Poll

LEMMA SlotInit == Init => RunnerTypeOK /\ SlotInv
<1> SUFFICES ASSUME RunnerInit PROVE RunnerTypeOK /\ SlotInv
  BY DEF Init
<1>1. RunnerTypeOK
  <2>1. 0 \in 0 .. Slots
    BY RunnerAssumption
  <2>2. QED
    BY <2>1, Zenon DEF RunnerInit, RunnerTypeOK
<1>2. SlotInv
  BY FS_EmptySet DEF RunnerInit, SlotInv, Over
<1>3. QED
  BY <1>1, <1>2

(* While the loop runs the slots are accounted for (runner.go:141-203),    *)
(* and the slot that a failed Acquire gives back too much kills only a     *)
(* process that was interrupted.                                           *)
THEOREM SlotsAreAccounted == Spec => []SlotsAccounted
<1>1. Init => RunnerTypeOK /\ SlotInv
  BY SlotInit
<1>2. RunnerTypeOK /\ SlotInv /\ [Next]_vars => (RunnerTypeOK /\ SlotInv)'
  BY NextIsRunnerStep, RunnerTypes, SlotStep
<1>3. SlotInv => SlotsAccounted
  BY DEF SlotInv, SlotsAccounted
<1>4. QED
  BY <1>1, <1>2, <1>3, PTL DEF Spec

-----------------------------------------------------------------------------
(* Types, and what belongs to the syncs *)

LEMMA Bounds ==
  /\ Len(Order) \in Nat /\ Len(Order) > 0
  /\ Versions \subseteq Nat /\ Missing \in Nat /\ Missing \notin Versions
  /\ \A v \in Versions \union {Missing} : v \in Nat /\ v <= Missing
  /\ \A v, w \in Versions \union {Missing} :
       /\ Minimum(v, w) \in Versions \union {Missing}
       /\ Minimum(v, w) <= v /\ Minimum(v, w) <= w
       /\ Minimum(v, w) \in {v, w}
BY CacheAssumption, ServiceAssumption DEF Versions, Missing, Minimum

SyncsTypeOK ==
  /\ next \in [Syncs -> 1 .. Len(Order) + 2]
  /\ oldest \in [Syncs -> Versions \union {Missing}]
  /\ began \in [Syncs -> Versions]
  /\ clean \in [Syncs -> BOOLEAN]
  /\ cleaned \in BOOLEAN
  /\ uploaded \in Versions \union {Missing}
  /\ faults \in 0 .. MaxFaults

RolesTypeOK ==
  /\ shown \in [Syncs -> Versions \union {Missing}]
  /\ roleUploaded \in Versions \union {Missing}
  /\ roles \in [Subs -> Versions \union {Missing}]
  /\ page \in [Syncs -> Versions \union {Missing}]
  /\ started \in Versions

LEMMA TypeParts == TypeOK <=> RunnerTypeOK /\ CacheTypeOK /\ SyncsTypeOK /\ RolesTypeOK
BY Zenon DEF TypeOK, SyncsTypeOK, RolesTypeOK

LEMMA CacheTypes == CacheTypeOK /\ SyncsTypeOK /\ SyncInv /\ [Next]_vars => CacheTypeOK'
<1> SUFFICES ASSUME CacheTypeOK, SyncsTypeOK, SyncInv, [Next]_vars PROVE CacheTypeOK'
  OBVIOUS
<1> USE DEF CacheTypeOK
<1>0. Clients = Syncs
  BY ServiceAssumption
<1>1. ASSUME NEW s \in Syncs, LookUp(s) PROVE CacheTypeOK'
  <2>1. Asked(s) \in Urls /\ Get(s, Asked(s))
    BY <1>1 DEF LookUp, AsksGraph
  <2>2. answers[Asked(s)] \in Versions \union {Missing}
    BY <2>1
  <2>3. QED
    BY <1>0, <2>1, <2>2 DEF Get
<1>2. ASSUME NEW s \in Syncs, Reply(s) PROVE CacheTypeOK'
  BY <1>0, <1>2 DEF Reply, Answer
<1>3. ASSUME NEW s \in Syncs, Keep(s) PROVE CacheTypeOK'
  <2>1. Set(s, Asked(s))
    BY <1>3 DEF Keep
  <2>2. Asked(s) \in Urls
    BY <2>1 DEF Set, SyncInv, AsksGraph
  <2>3. QED
    BY <1>0, <2>1, <2>2 DEF Set
<1>4. ASSUME NEW s \in Syncs, CleanUp(s) PROVE CacheTypeOK'
  <2>1. answers' = Nothing \/ answers' = answers
    BY <1>4 DEF CleanUp, Clear, http
  <2>2. UNCHANGED <<tenant, at, got>>
    BY <1>4 DEF CleanUp, Clear, http
  <2>3. QED
    BY <2>1, <2>2 DEF Nothing
<1>5. ASSUME NEW s \in Syncs, Upload(s) PROVE CacheTypeOK'
  BY <1>5 DEF Upload, http
<1>6. ASSUME NEW s \in Syncs, EndFailed(s) PROVE CacheTypeOK'
  BY <1>0, <1>6 DEF EndFailed, Drop
<1>7. ASSUME NEW s \in Syncs, BeginSync(s) PROVE CacheTypeOK'
  BY <1>7 DEF BeginSync, http
<1>8. ASSUME NEW t \in Tasks, EndWrite(t) PROVE CacheTypeOK'
  BY <1>8, CacheAssumption DEF EndWrite, Change, Versions
<1>9. ASSUME NEW u \in Urls, Expire(u) PROVE CacheTypeOK'
  BY <1>9 DEF Expire, Evict
<1>10. CASE StartAgain
  BY <1>10 DEF StartAgain, CacheRestart, Nothing
<1>11. ASSUME UNCHANGED http PROVE CacheTypeOK'
  BY <1>11 DEF http
<1>12. CASE Idle \/ Interrupt \/ UNCHANGED vars
  BY <1>11, <1>12 DEF Idle, Interrupt, vars
<1>13. ASSUME NEW t \in Tasks, Claim(t) \/ EndOther(t) PROVE CacheTypeOK'
  BY <1>11, <1>13 DEF Claim, EndOther
<1>14. ASSUME NEW s \in Syncs, ListRoles(s) \/ StoreRoles(s) \/ AnswerRoles(s) PROVE CacheTypeOK'
  BY <1>11, <1>14 DEF ListRoles, StoreRoles, AnswerRoles
<1>15. QED
  BY <1>1, <1>2, <1>3, <1>4, <1>5, <1>6, <1>7, <1>8, <1>9, <1>10, <1>12, <1>13, <1>14
     DEF Next, SyncStep

LEMMA SyncsTypes == CacheTypeOK /\ SyncsTypeOK /\ SyncInv /\ [Next]_vars => SyncsTypeOK'
<1> SUFFICES ASSUME CacheTypeOK, SyncsTypeOK, SyncInv, [Next]_vars PROVE SyncsTypeOK'
  OBVIOUS
<1> USE DEF SyncsTypeOK
<1>0. /\ MaxFaults \in Nat /\ 0 \in Versions
      /\ 1 \in 1 .. Len(Order) + 2
  BY ServiceAssumption, CacheAssumption, Bounds DEF Versions
<1>f. ASSUME NEW s \in Syncs, Forget(s)
      PROVE  /\ next' \in [Syncs -> 1 .. Len(Order) + 2]
             /\ oldest' \in [Syncs -> Versions \union {Missing}]
             /\ began' \in [Syncs -> Versions]
             /\ clean' \in [Syncs -> BOOLEAN]
  BY <1>0, <1>f DEF Forget
<1>1. ASSUME NEW s \in Syncs, Keep(s) PROVE SyncsTypeOK'
  <2>1. at[s] = "set" /\ Asking(s) /\ got[s] \in Versions
    BY <1>1 DEF Keep, Set, SyncInv, AsksGraph
  <2>2. Minimum(oldest[s], got[s]) \in Versions \union {Missing}
    BY <2>1, Bounds
  <2>3. next[s] + 1 \in 1 .. Len(Order) + 2
    BY <2>1, Bounds DEF Asking
  <2>4. /\ next' = [next EXCEPT ![s] = next[s] + 1]
        /\ oldest' = [oldest EXCEPT ![s] = Minimum(oldest[s], got[s])]
        /\ UNCHANGED <<began, clean, cleaned, uploaded, faults>>
    BY <1>1 DEF Keep
  <2>5. QED
    BY <2>2, <2>3, <2>4
<1>2. ASSUME NEW s \in Syncs, CleanUp(s) PROVE SyncsTypeOK'
  <2>1. next[s] + 1 \in 1 .. Len(Order) + 2
    BY <1>2, Bounds DEF CleanUp
  <2>2. /\ next' = [next EXCEPT ![s] = next[s] + 1]
        /\ cleaned' \in BOOLEAN
        /\ UNCHANGED <<oldest, began, clean, uploaded, faults>>
    BY <1>2 DEF CleanUp
  <2>3. QED
    BY <2>1, <2>2
<1>3. ASSUME NEW s \in Syncs, Upload(s) PROVE SyncsTypeOK'
  <2>1. oldest[s] \in Versions \union {Missing}
    OBVIOUS
  <2>2. Forget(s) /\ uploaded' = oldest[s] /\ UNCHANGED <<cleaned, faults>>
    BY <1>3 DEF Upload
  <2>3. QED
    BY <1>f, <2>1, <2>2
<1>4. ASSUME NEW s \in Syncs, EndFailed(s) PROVE SyncsTypeOK'
  <2>1. Forget(s) /\ uploaded' = uploaded /\ cleaned' \in BOOLEAN
    BY <1>4 DEF EndFailed
  <2>2. faults' \in 0 .. MaxFaults
    BY <1>0, <1>4 DEF EndFailed, Fault
  <2>3. QED
    BY <1>f, <2>1, <2>2
<1>5. ASSUME NEW s \in Syncs, BeginSync(s) PROVE SyncsTypeOK'
  <2>1. /\ began' = [began EXCEPT ![s] = tenant]
        /\ clean' = [clean EXCEPT ![s] = cleaned /\ Reading = {}]
        /\ UNCHANGED <<next, oldest, cleaned, uploaded, faults>>
    BY <1>5 DEF BeginSync
  <2>2. tenant \in Versions
    BY DEF CacheTypeOK
  <2>3. QED
    BY <2>1, <2>2
<1>6. CASE StartAgain
  <2>1. /\ AtRest /\ cleaned' = TRUE /\ UNCHANGED <<uploaded, faults>>
    BY <1>6 DEF StartAgain
  <2>2. QED
    BY <1>0, <2>1 DEF AtRest
<1>7. CASE Interrupt
  BY <1>0, <1>7 DEF Interrupt, Fault, syncs
<1>8. ASSUME UNCHANGED syncs, UNCHANGED faults PROVE SyncsTypeOK'
  BY <1>8 DEF syncs
<1>9. CASE Idle \/ UNCHANGED vars
  BY <1>8, <1>9 DEF Idle, vars
<1>10. ASSUME NEW t \in Tasks, Claim(t) \/ EndOther(t) \/ EndWrite(t) PROVE SyncsTypeOK'
  BY <1>8, <1>10 DEF Claim, EndOther, EndWrite
<1>11. ASSUME NEW s \in Syncs, LookUp(s) \/ Reply(s) PROVE SyncsTypeOK'
  BY <1>8, <1>11 DEF LookUp, Reply
<1>12. ASSUME NEW u \in Urls, Expire(u) PROVE SyncsTypeOK'
  BY <1>8, <1>12 DEF Expire
<1>13. ASSUME NEW s \in Syncs, ListRoles(s) \/ StoreRoles(s) PROVE SyncsTypeOK'
  BY <1>8, <1>13 DEF ListRoles, StoreRoles
<1>14. ASSUME NEW s \in Syncs, AnswerRoles(s) PROVE SyncsTypeOK'
  <2>1. next[s] + 1 \in 1 .. Len(Order) + 2
    BY <1>14, Bounds DEF AnswerRoles, AsksRoles, Asking
  <2>2. /\ next' = [next EXCEPT ![s] = next[s] + 1]
        /\ UNCHANGED <<oldest, began, clean, cleaned, uploaded, faults>>
    BY <1>14 DEF AnswerRoles
  <2>3. QED
    BY <2>1, <2>2
<1>15. QED
  BY <1>1, <1>2, <1>3, <1>4, <1>5, <1>6, <1>7, <1>9, <1>10, <1>11, <1>12, <1>13, <1>14
     DEF Next, SyncStep

(* What happens beside the reads from Graph: nothing of theirs changes.    *)
Beside ==
  /\ UNCHANGED <<next, oldest, began, clean, cleaned, at, got>>
  /\ tenant' \in Nat /\ tenant <= tenant'
  /\ answers' = answers \/ \E u \in Urls : answers' = [answers EXCEPT ![u] = Missing]
  /\ running' \intersect Syncs = running \intersect Syncs

LEMMA BesideSteps ==
  ASSUME CacheTypeOK,
         \/ Idle \/ Interrupt \/ UNCHANGED vars
         \/ \E t \in Tasks : Claim(t) \/ EndOther(t) \/ EndWrite(t)
         \/ \E u \in Urls : Expire(u)
         \/ \E s \in Syncs : ListRoles(s) \/ StoreRoles(s)
  PROVE  Beside
<1> USE DEF Beside
<1>0. tenant \in Nat
  BY Bounds DEF CacheTypeOK
<1>1. CASE Idle
  <2>1. running' = running
    BY <1>1 DEF Idle, Poll, Wake, SeeCancel, Acquire, AcquireFails, NextEmpty
  <2>2. UNCHANGED <<http, syncs>>
    BY <1>1 DEF Idle
  <2>3. QED
    BY <1>0, <2>1, <2>2 DEF http, syncs
<1>2. CASE Interrupt
  BY <1>0, <1>2 DEF Interrupt, Cancel, http, syncs
<1>3. CASE UNCHANGED vars
  BY <1>0, <1>3 DEF vars, runner, http, syncs
<1>4. ASSUME NEW t \in Tasks, Claim(t) PROVE Beside
  <2>1. running' = running \union {t} /\ t \notin Syncs
    BY <1>4 DEF Claim, NextTask
  <2>2. QED
    BY <1>0, <1>4, <2>1 DEF Claim, http, syncs
<1>5. ASSUME NEW t \in Tasks, EndOther(t) PROVE Beside
  <2>1. running' = running \ {t} /\ t \notin Syncs
    BY <1>5 DEF EndOther, Finish
  <2>2. QED
    BY <1>0, <1>5, <2>1 DEF EndOther, http, syncs
<1>6. ASSUME NEW t \in Tasks, EndWrite(t) PROVE Beside
  <2>1. running' = running \ {t} /\ t \notin Syncs
    BY <1>6, ServiceAssumption DEF EndWrite, Finish
  <2>2. tenant' = tenant + 1 /\ UNCHANGED <<answers, at, got>>
    BY <1>6 DEF EndWrite, Change
  <2>3. QED
    BY <1>0, <1>6, <2>1, <2>2 DEF EndWrite, syncs
<1>7. ASSUME NEW u \in Urls, Expire(u) PROVE Beside
  <2>1. answers' = [answers EXCEPT ![u] = Missing] /\ UNCHANGED <<tenant, at, got>>
    BY <1>7 DEF Expire, Evict
  <2>2. UNCHANGED <<running, next, oldest, began, clean, cleaned>>
    BY <1>7 DEF Expire, runner, syncs
  <2>3. answers' = answers \/ \E v \in Urls : answers' = [answers EXCEPT ![v] = Missing]
    BY <2>1
  <2>4. tenant' \in Nat /\ tenant <= tenant'
    BY <1>0, <2>1
  <2>5. QED
    BY <2>1, <2>2, <2>3, <2>4
<1>8. ASSUME NEW s \in Syncs, ListRoles(s) \/ StoreRoles(s) PROVE Beside
  BY <1>0, <1>8 DEF ListRoles, StoreRoles, runner, http, syncs
<1>9. QED
  BY <1>1, <1>2, <1>3, <1>4, <1>5, <1>6, <1>7, <1>8

LEMMA SyncInvStep ==
  CacheTypeOK /\ SyncsTypeOK /\ SlotInv /\ SyncInv /\ [Next]_vars => SyncInv'
<1> SUFFICES ASSUME CacheTypeOK, SyncsTypeOK, SlotInv, SyncInv, [Next]_vars PROVE SyncInv'
  OBVIOUS
<1>0. /\ Clients = Syncs /\ tenant \in Versions
      /\ Len(Order) \in Nat /\ Len(Order) > 0
      /\ \A v \in Versions : v <= v
      /\ \A s \in Syncs : next[s] \in Nat /\ next[s] >= 1
  BY ServiceAssumption, Bounds DEF CacheTypeOK, SyncsTypeOK
<1>1. ASSUME Beside PROVE SyncInv'
  <2>1. \A s \in Syncs : began[s] <= tenant'
    <3>1. \A s \in Syncs : began[s] \in Nat /\ began[s] <= tenant
      BY Bounds DEF SyncInv, SyncsTypeOK
    <3>2. tenant \in Nat /\ tenant' \in Nat /\ tenant <= tenant'
      BY <1>0, <1>1, Bounds DEF Beside
    <3>3. QED
      BY <3>1, <3>2
  <2>2. \A s \in Syncs : s \in running' <=> s \in running
    BY <1>1 DEF Beside
  <2>3. QED
    BY <1>1, <2>1, <2>2 DEF Beside, SyncInv, AsksGraph, Asking, Asked
<1>2. ASSUME NEW s \in Syncs, BeginSync(s) PROVE SyncInv'
  <2>1. /\ running' = running \union {s}
        /\ began' = [began EXCEPT ![s] = tenant]
        /\ clean' = [clean EXCEPT ![s] = cleaned /\ Reading = {}]
        /\ UNCHANGED <<tenant, answers, at, got, next, oldest>>
    BY <1>2 DEF BeginSync, NextTask, http
  <2>2. tenant <= tenant
    BY <1>0
  <2>3. \A c \in Syncs : began'[c] = (IF c = s THEN tenant ELSE began[c])
    BY <2>1 DEF SyncsTypeOK
  <2>4. \A c \in Syncs : c # s => clean'[c] = clean[c]
    BY <2>1 DEF SyncsTypeOK
  <2>5. QED
    BY <2>1, <2>2, <2>3, <2>4 DEF SyncInv, AsksGraph, Asking, Asked
<1>3. ASSUME NEW s \in Syncs, LookUp(s) PROVE SyncInv'
  <2>1. /\ s \in running /\ AsksGraph(s) /\ at[s] = "idle"
        /\ Asked(s) \in Urls
        /\ answers[Asked(s)] \in Versions \union {Missing}
    BY <1>3 DEF LookUp, Goes, Get, CacheTypeOK, AsksGraph
  <2>2. /\ at' = [at EXCEPT ![s] = IF answers[Asked(s)] = Missing THEN "ask" ELSE "set"]
        /\ got' = [got EXCEPT ![s] = answers[Asked(s)]]
        /\ UNCHANGED <<tenant, running, next, oldest, began, clean>>
    BY <1>3 DEF LookUp, Get, runner, syncs
  <2>3. \A c \in Syncs : c # s => at'[c] = at[c] /\ got'[c] = got[c]
    BY <1>0, <2>2 DEF CacheTypeOK
  <2>4. at'[s] = "set" => got'[s] \in Versions
    BY <1>0, <2>1, <2>2 DEF CacheTypeOK
  <2>5. QED
    BY <2>1, <2>2, <2>3, <2>4 DEF SyncInv, AsksGraph, Asking, Asked
<1>4. ASSUME NEW s \in Syncs, Reply(s) PROVE SyncInv'
  <2>1. /\ s \in running /\ at[s] = "ask"
        /\ at' = [at EXCEPT ![s] = "set"]
        /\ got' = [got EXCEPT ![s] = tenant]
        /\ UNCHANGED <<tenant, running, next, oldest, began, clean>>
    BY <1>4 DEF Reply, Goes, Answer, runner, syncs
  <2>2. /\ \A c \in Syncs : c # s => at'[c] = at[c] /\ got'[c] = got[c]
        /\ got'[s] \in Versions
    BY <1>0, <2>1 DEF CacheTypeOK
  <2>3. QED
    BY <2>1, <2>2 DEF SyncInv, AsksGraph, Asking, Asked
<1>5. ASSUME NEW s \in Syncs, Keep(s) PROVE SyncInv'
  <2>1. /\ s \in running /\ at[s] = "set"
        /\ at' = [at EXCEPT ![s] = "idle"]
        /\ got' = [got EXCEPT ![s] = Missing]
        /\ next' = [next EXCEPT ![s] = next[s] + 1]
        /\ oldest' = [oldest EXCEPT ![s] = Minimum(oldest[s], got[s])]
        /\ UNCHANGED <<tenant, running, began, clean>>
    BY <1>5 DEF Keep, Goes, Set, runner
  <2>2. got[s] \in Versions /\ oldest[s] \in Versions \union {Missing}
    BY <2>1 DEF SyncInv, SyncsTypeOK
  <2>3. Minimum(oldest[s], got[s]) \in Versions
    BY <2>2, CacheAssumption DEF Minimum, Versions, Missing
  <2>4. /\ at'[s] = "idle" /\ oldest'[s] \in Versions
        /\ \A c \in Syncs : c # s =>
             at'[c] = at[c] /\ got'[c] = got[c] /\ next'[c] = next[c] /\ oldest'[c] = oldest[c]
    BY <1>0, <2>1, <2>3 DEF CacheTypeOK, SyncsTypeOK
  <2>5. QED
    BY <2>1, <2>4 DEF SyncInv, AsksGraph, Asking, Asked
<1>6. ASSUME NEW s \in Syncs, CleanUp(s) PROVE SyncInv'
  <2>1. /\ s \in running /\ next[s] = Len(Order) + 1
        /\ next' = [next EXCEPT ![s] = next[s] + 1]
        /\ UNCHANGED <<tenant, at, got, running, oldest, began, clean>>
    BY <1>6 DEF CleanUp, Goes, Clear, runner, http
  <2>2. \A c \in Syncs : c # s => next'[c] = next[c]
    BY <2>1 DEF SyncsTypeOK
  <2>3. at[s] = "idle"
    BY <1>0, <2>1 DEF SyncInv, AsksGraph, Asking, Asked
  <2>4. QED
    BY <2>1, <2>2, <2>3 DEF SyncInv, AsksGraph, Asking, Asked
<1>7. ASSUME NEW s \in Syncs, Forget(s), at' = [at EXCEPT ![s] = "idle"] \/ (at' = at /\ at[s] = "idle"),
             \A c \in Syncs : c # s => got'[c] = got[c],
             running' = running \ {s}, tenant' = tenant
      PROVE SyncInv'
  <2>1. /\ next'[s] = 1 /\ oldest'[s] = Missing /\ ~clean'[s] /\ began'[s] = 0
        /\ \A c \in Syncs : c # s => /\ next'[c] = next[c] /\ oldest'[c] = oldest[c]
                                    /\ clean'[c] = clean[c] /\ began'[c] = began[c]
    BY <1>7 DEF Forget, SyncsTypeOK
  <2>2. at'[s] = "idle" /\ \A c \in Syncs : c # s => at'[c] = at[c]
    BY <1>0, <1>7 DEF CacheTypeOK
  <2>3. 0 <= tenant
    BY <1>0, Bounds
  <2>4. QED
    BY <1>7, <2>1, <2>2, <2>3 DEF SyncInv, AsksGraph, Asking, Asked
<1>8. ASSUME NEW s \in Syncs, Upload(s) PROVE SyncInv'
  <2>1. at[s] = "idle"
    BY <1>0, <1>8 DEF Upload, Synced, SyncInv, AsksGraph, Asking
  <2>2. /\ Forget(s) /\ running' = running \ {s}
        /\ UNCHANGED <<at, got, tenant>>
    BY <1>8 DEF Upload, Finish, http
  <2>3. QED
    BY <1>7, <2>1, <2>2
<1>9. ASSUME NEW s \in Syncs, EndFailed(s) PROVE SyncInv'
  <2>1. /\ Forget(s) /\ running' = running \ {s} /\ tenant' = tenant
        /\ at' = [at EXCEPT ![s] = "idle"]
        /\ got' = [got EXCEPT ![s] = Missing]
    BY <1>9 DEF EndFailed, Finish, Drop
  <2>2. \A c \in Syncs : c # s => got'[c] = got[c]
    BY <1>0, <2>1 DEF CacheTypeOK
  <2>3. QED
    BY <1>7, <2>1, <2>2
<1>10. CASE StartAgain
  <2>1. /\ running' = {} /\ AtRest /\ tenant' = tenant
        /\ at' = [c \in Clients |-> "idle"]
    BY <1>10 DEF StartAgain, Restart, CacheRestart
  <2>2. \A s \in Syncs : /\ next'[s] = 1 /\ oldest'[s] = Missing /\ ~clean'[s]
                        /\ began'[s] = 0 /\ at'[s] = "idle"
    BY <1>0, <2>1 DEF AtRest
  <2>3. 0 <= tenant
    BY <1>0, Bounds
  <2>4. QED
    BY <2>1, <2>2, <2>3 DEF SyncInv
<1>11. ASSUME NEW s \in Syncs, AnswerRoles(s) PROVE SyncInv'
  <2>1. /\ s \in running /\ AsksRoles(s)
        /\ next' = [next EXCEPT ![s] = next[s] + 1]
        /\ UNCHANGED <<tenant, at, got, running, oldest, began, clean>>
    BY <1>11 DEF AnswerRoles, Goes, runner, http
  <2>2. \A c \in Syncs : c # s => next'[c] = next[c]
    BY <2>1 DEF SyncsTypeOK
  <2>3. at[s] = "idle"
    BY <2>1, ServiceAssumption DEF SyncInv, AsksGraph, AsksRoles
  <2>4. QED
    BY <2>1, <2>2, <2>3 DEF SyncInv, AsksGraph, Asking, Asked
<1>12. QED
  BY <1>1, <1>2, <1>3, <1>4, <1>5, <1>6, <1>8, <1>9, <1>10, <1>11, BesideSteps DEF Next, SyncStep

-----------------------------------------------------------------------------
(* The cache *)

LEMMA ReaderInvStep ==
  CacheTypeOK /\ SyncsTypeOK /\ SyncInv /\ ReaderInv /\ [Next]_vars => ReaderInv'
<1> SUFFICES ASSUME CacheTypeOK, SyncsTypeOK, SyncInv, ReaderInv, [Next]_vars,
                    cleaned', answers' # Nothing
             PROVE  \E s \in Syncs : s \in running' /\ next'[s] <= Len(Order) + 1
  BY DEF ReaderInv, Reading, Nothing
<1>0. /\ Clients = Syncs /\ Len(Order) \in Nat
      /\ \A s \in Syncs : next[s] \in Nat
  BY ServiceAssumption, Bounds DEF SyncsTypeOK
<1>1. ASSUME cleaned, answers # Nothing
      PROVE  \E s \in Syncs : s \in running /\ next[s] <= Len(Order) + 1
  BY <1>1 DEF ReaderInv, Reading
<1>2. CASE Beside
  <2>1. answers # Nothing
    BY <1>2 DEF Beside, Nothing, CacheTypeOK
  <2>2. PICK s \in Syncs : s \in running /\ next[s] <= Len(Order) + 1
    BY <1>1, <1>2, <2>1 DEF Beside
  <2>3. s \in running' /\ next'[s] <= Len(Order) + 1
    BY <1>2, <2>2 DEF Beside
  <2>4. QED
    BY <2>3
<1>3. ASSUME NEW s \in Syncs, BeginSync(s) \/ LookUp(s) \/ Reply(s)
      PROVE  \E c \in Syncs : c \in running' /\ next'[c] <= Len(Order) + 1
  <2>1. /\ running \subseteq running'
        /\ UNCHANGED <<next, cleaned, answers>>
    BY <1>3 DEF BeginSync, NextTask, LookUp, Get, Reply, Answer, http, runner, syncs
  <2>2. QED
    BY <1>1, <2>1
<1>4. ASSUME NEW s \in Syncs, Keep(s)
      PROVE  \E c \in Syncs : c \in running' /\ next'[c] <= Len(Order) + 1
  <2>1. /\ s \in running' /\ Asking(s)
        /\ next' = [next EXCEPT ![s] = next[s] + 1]
    BY <1>4 DEF Keep, Goes, Set, SyncInv, AsksGraph, runner
  <2>2. next'[s] = next[s] + 1
    BY <2>1 DEF SyncsTypeOK
  <2>3. QED
    BY <1>0, <2>1, <2>2 DEF Asking
<1>5. ASSUME NEW s \in Syncs, CleanUp(s) PROVE FALSE
  BY <1>5 DEF CleanUp, Clear, Nothing
<1>6. ASSUME NEW s \in Syncs, Forget(s), running' = running \ {s}, answers' = answers,
             cleaned, Synced(s)
      PROVE  \E c \in Syncs : c \in running' /\ next'[c] <= Len(Order) + 1
  <2>1. PICK c \in Syncs : c \in running /\ next[c] <= Len(Order) + 1
    BY <1>1, <1>6 DEF Nothing
  <2>2. c # s
    BY <1>0, <1>6, <2>1 DEF Synced
  <2>3. next'[c] = next[c]
    BY <1>6, <2>2 DEF Forget, SyncsTypeOK
  <2>4. QED
    BY <1>6, <2>1, <2>2, <2>3
<1>7. ASSUME NEW s \in Syncs, Upload(s)
      PROVE  \E c \in Syncs : c \in running' /\ next'[c] <= Len(Order) + 1
  <2>1. /\ Forget(s) /\ running' = running \ {s} /\ answers' = answers
        /\ cleaned /\ Synced(s)
    BY <1>7 DEF Upload, Finish, http
  <2>2. QED
    BY <1>6, <2>1
<1>8. ASSUME NEW s \in Syncs, EndFailed(s)
      PROVE  \E c \in Syncs : c \in running' /\ next'[c] <= Len(Order) + 1
  <2>1. /\ Forget(s) /\ running' = running \ {s} /\ answers' = answers
        /\ cleaned /\ Synced(s)
    BY <1>8 DEF EndFailed, Finish, Drop
  <2>2. QED
    BY <1>6, <2>1
<1>9. ASSUME StartAgain PROVE FALSE
  BY <1>9 DEF StartAgain, CacheRestart, Nothing
<1>10. ASSUME NEW s \in Syncs, AnswerRoles(s)
       PROVE  \E c \in Syncs : c \in running' /\ next'[c] <= Len(Order) + 1
  <2>1. /\ s \in running' /\ Asking(s)
        /\ next' = [next EXCEPT ![s] = next[s] + 1]
    BY <1>10 DEF AnswerRoles, AsksRoles, Goes, runner
  <2>2. next'[s] = next[s] + 1
    BY <2>1 DEF SyncsTypeOK
  <2>3. QED
    BY <1>0, <2>1, <2>2 DEF Asking
<1>11. QED
  BY <1>2, <1>3, <1>4, <1>5, <1>7, <1>8, <1>9, <1>10, BesideSteps DEF Next, SyncStep

\* What FreshInv says of a sync d that began at b.
FreshFor(d, b) ==
  /\ b <= oldest[d]
  /\ \A u \in Urls : b <= answers[u]
  /\ \A c \in Syncs : at[c] = "set" => b <= got[c]

LEMMA FreshInvStep ==
  CacheTypeOK /\ SyncsTypeOK /\ SlotInv /\ SyncInv /\ ReaderInv /\ FreshInv /\ [Next]_vars
    => FreshInv'
<1> SUFFICES ASSUME CacheTypeOK, SyncsTypeOK, SlotInv, SyncInv, ReaderInv, FreshInv,
                    [Next]_vars, NEW d \in Syncs, clean'[d]
             PROVE  /\ began'[d] <= oldest'[d]
                    /\ \A u \in Urls : began'[d] <= answers'[u]
                    /\ \A c \in Syncs : at'[c] = "set" => began'[d] <= got'[c]
  BY DEF FreshInv
<1> DEFINE b == began[d]
           Fresh == /\ began'[d] <= oldest'[d]
                    /\ \A u \in Urls : began'[d] <= answers'[u]
                    /\ \A c \in Syncs : at'[c] = "set" => began'[d] <= got'[c]
<1>0. /\ Clients = Syncs /\ Missing \in Nat
      /\ tenant \in Nat /\ tenant <= Missing
      /\ b \in Nat /\ b <= Missing /\ b <= tenant
  BY ServiceAssumption, Bounds DEF CacheTypeOK, SyncsTypeOK, SyncInv
<1>1. clean[d] => FreshFor(d, b)
  BY DEF FreshInv, FreshFor
<1>2. ASSUME Beside PROVE Fresh
  <2>1. FreshFor(d, b) /\ began'[d] = b /\ UNCHANGED <<oldest, at, got>>
    BY <1>1, <1>2 DEF Beside
  <2>2. \A u \in Urls : answers'[u] \in {answers[u], Missing}
    BY <1>2 DEF Beside, CacheTypeOK
  <2>3. QED
    BY <1>0, <2>1, <2>2 DEF FreshFor
<1>3. ASSUME NEW s \in Syncs, BeginSync(s) PROVE Fresh
  <2>1. /\ began' = [began EXCEPT ![s] = tenant]
        /\ clean' = [clean EXCEPT ![s] = cleaned /\ Reading = {}]
        /\ UNCHANGED <<tenant, answers, at, got, oldest>>
    BY <1>3 DEF BeginSync, http
  <2>2. CASE d # s
    <3>1. began'[d] = b /\ clean[d]
      BY <2>1, <2>2 DEF SyncsTypeOK
    <3>2. QED
      BY <1>1, <2>1, <3>1 DEF FreshFor
  <2>3. CASE d = s
    <3>1. /\ began'[d] = tenant
          /\ cleaned /\ Reading = {}
      BY <2>1, <2>3 DEF SyncsTypeOK
    <3>2. answers = Nothing
      BY <3>1 DEF ReaderInv
    <3>3. \A c \in Syncs : c \notin running
      BY <3>1 DEF Reading
    <3>4. oldest[d] = Missing /\ \A c \in Syncs : at[c] = "idle"
      BY <3>3 DEF SyncInv
    <3>5. \A u \in Urls : answers'[u] = Missing
      BY <2>1, <3>2 DEF Nothing
    <3>6. QED
      BY <1>0, <2>1, <3>1, <3>4, <3>5
  <2>4. QED
    BY <2>2, <2>3
<1>4. ASSUME NEW s \in Syncs, LookUp(s) PROVE Fresh
  <2>1. /\ Asked(s) \in Urls
        /\ at' = [at EXCEPT ![s] = IF answers[Asked(s)] = Missing THEN "ask" ELSE "set"]
        /\ got' = [got EXCEPT ![s] = answers[Asked(s)]]
        /\ UNCHANGED <<answers, oldest, began, clean>>
    BY <1>4 DEF LookUp, Get, syncs, AsksGraph
  <2>2. \A c \in Syncs : IF c = s THEN got'[c] = answers[Asked(s)]
                        ELSE at'[c] = at[c] /\ got'[c] = got[c]
    BY <1>0, <2>1 DEF CacheTypeOK
  <2>3. QED
    BY <1>1, <2>1, <2>2 DEF FreshFor
<1>5. ASSUME NEW s \in Syncs, Reply(s) PROVE Fresh
  <2>1. /\ at' = [at EXCEPT ![s] = "set"]
        /\ got' = [got EXCEPT ![s] = tenant]
        /\ UNCHANGED <<answers, oldest, began, clean>>
    BY <1>5 DEF Reply, Answer, syncs
  <2>2. \A c \in Syncs : IF c = s THEN got'[c] = tenant
                        ELSE at'[c] = at[c] /\ got'[c] = got[c]
    BY <1>0, <2>1 DEF CacheTypeOK
  <2>3. QED
    BY <1>0, <1>1, <2>1, <2>2 DEF FreshFor
<1>6. ASSUME NEW s \in Syncs, Keep(s) PROVE Fresh
  <2>1. /\ at[s] = "set" /\ Asked(s) \in Urls
        /\ answers' = [answers EXCEPT ![Asked(s)] = got[s]]
        /\ at' = [at EXCEPT ![s] = "idle"]
        /\ got' = [got EXCEPT ![s] = Missing]
        /\ oldest' = [oldest EXCEPT ![s] = Minimum(oldest[s], got[s])]
        /\ UNCHANGED <<began, clean>>
    BY <1>6 DEF Keep, Set, SyncInv, AsksGraph
  <2>2. clean[d] /\ began'[d] = b
    BY <2>1
  <2>3. FreshFor(d, b) /\ b <= got[s]
    BY <1>1, <2>1, <2>2 DEF FreshFor
  <2>4. \A u \in Urls : answers'[u] \in {answers[u], got[s]}
    BY <2>1 DEF CacheTypeOK
  <2>5. \A c \in Syncs : at'[c] = "set" => at[c] = "set" /\ got'[c] = got[c]
    BY <1>0, <2>1 DEF CacheTypeOK
  <2>6. Minimum(oldest[s], got[s]) \in {oldest[s], got[s]}
    BY DEF Minimum
  <2>7. oldest'[d] \in {oldest[d], got[s]}
    BY <2>1, <2>6 DEF SyncsTypeOK
  <2>8. QED
    BY <2>2, <2>3, <2>4, <2>5, <2>7 DEF FreshFor
<1>7. ASSUME NEW s \in Syncs, CleanUp(s) PROVE Fresh
  <2>1. /\ answers' = Nothing \/ answers' = answers
        /\ UNCHANGED <<at, got, oldest, began, clean>>
    BY <1>7 DEF CleanUp, Clear, http
  <2>2. QED
    BY <1>0, <1>1, <2>1 DEF FreshFor, Nothing
<1>8. ASSUME NEW s \in Syncs, Forget(s), answers' = answers,
             \A c \in Syncs : at'[c] = "set" => at[c] = "set" /\ got'[c] = got[c]
      PROVE Fresh
  <2>1. d # s /\ oldest'[d] = oldest[d] /\ clean[d] /\ began'[d] = b
    BY <1>8 DEF Forget, SyncsTypeOK
  <2>2. QED
    BY <1>1, <1>8, <2>1 DEF FreshFor
<1>9. ASSUME NEW s \in Syncs, Upload(s) PROVE Fresh
  BY <1>8, <1>9 DEF Upload, http
<1>10. ASSUME NEW s \in Syncs, EndFailed(s) PROVE Fresh
  <2>1. /\ Forget(s) /\ answers' = answers
        /\ at' = [at EXCEPT ![s] = "idle"]
        /\ got' = [got EXCEPT ![s] = Missing]
    BY <1>10 DEF EndFailed, Drop
  <2>2. \A c \in Syncs : at'[c] = "set" => at[c] = "set" /\ got'[c] = got[c]
    BY <1>0, <2>1 DEF CacheTypeOK
  <2>3. QED
    BY <1>8, <2>1, <2>2
<1>11. ASSUME StartAgain PROVE Fresh
  BY <1>11 DEF StartAgain, AtRest
<1>12. ASSUME NEW s \in Syncs, AnswerRoles(s) PROVE Fresh
  <2>1. UNCHANGED <<answers, at, got, oldest, began, clean>>
    BY <1>12 DEF AnswerRoles, http
  <2>2. QED
    BY <1>1, <2>1 DEF FreshFor
<1>13. QED
  BY <1>2, <1>3, <1>4, <1>5, <1>6, <1>7, <1>9, <1>10, <1>11, <1>12, BesideSteps DEF Next, SyncStep

-----------------------------------------------------------------------------
(* The role map *)

\* A step that neither fills the map nor answers from it.
RolesSame == UNCHANGED <<shown, roleUploaded, roles, page, started>> /\ tenant' \in {tenant, tenant + 1}

LEMMA RolesSameSteps ==
  ASSUME \/ Idle \/ Interrupt \/ UNCHANGED vars
         \/ \E t \in Tasks : Claim(t) \/ EndOther(t) \/ EndWrite(t)
         \/ \E s \in Syncs : BeginSync(s) \/ LookUp(s) \/ Reply(s) \/ Keep(s) \/ CleanUp(s)
         \/ \E u \in Urls : Expire(u)
  PROVE  RolesSame
<1> USE DEF RolesSame, syncs, roleMap, http
<1>1. CASE Idle \/ Interrupt \/ UNCHANGED vars
  BY <1>1 DEF Idle, Interrupt, vars
<1>2. ASSUME NEW t \in Tasks, Claim(t) \/ EndOther(t) PROVE RolesSame
  BY <1>2 DEF Claim, EndOther
<1>3. ASSUME NEW t \in Tasks, EndWrite(t) PROVE RolesSame
  BY <1>3 DEF EndWrite, Change
<1>4. ASSUME NEW s \in Syncs, BeginSync(s) \/ LookUp(s) \/ Reply(s) \/ Keep(s) PROVE RolesSame
  BY <1>4 DEF BeginSync, LookUp, Reply, Keep, Get, Answer, Set
<1>5. ASSUME NEW s \in Syncs, CleanUp(s) PROVE RolesSame
  BY <1>5 DEF CleanUp, Clear
<1>6. ASSUME NEW u \in Urls, Expire(u) PROVE RolesSame
  BY <1>6 DEF Expire, Evict
<1>7. QED
  BY <1>1, <1>2, <1>3, <1>4, <1>5, <1>6

LEMMA RolesTypes == CacheTypeOK /\ RolesTypeOK /\ [Next]_vars => RolesTypeOK'
<1> SUFFICES ASSUME CacheTypeOK, RolesTypeOK, [Next]_vars PROVE RolesTypeOK'
  OBVIOUS
<1> USE DEF RolesTypeOK
<1>0. tenant \in Versions
  BY DEF CacheTypeOK
<1>1. CASE RolesSame
  BY <1>1 DEF RolesSame
<1>2. ASSUME NEW s \in Syncs, ListRoles(s) PROVE RolesTypeOK'
  <2>1. /\ page' = [page EXCEPT ![s] = tenant]
        /\ UNCHANGED <<shown, roleUploaded, roles, started>>
    BY <1>2 DEF ListRoles, syncs
  <2>2. QED
    BY <1>0, <2>1
<1>3. ASSUME NEW s \in Syncs, StoreRoles(s) PROVE RolesTypeOK'
  <2>1. /\ roles' = [roles EXCEPT ![Asked(s)] = Minimum(roles[Asked(s)], page[s])]
        /\ page' = [page EXCEPT ![s] = Missing]
        /\ UNCHANGED <<shown, roleUploaded, started>>
    BY <1>3 DEF StoreRoles, syncs
  <2>2. \A b \in Subs : Minimum(roles[b], page[s]) \in Versions \union {Missing}
    BY Bounds
  <2>3. QED
    BY <2>1, <2>2
<1>4. ASSUME NEW s \in Syncs, AnswerRoles(s) PROVE RolesTypeOK'
  <2>1. /\ Asked(s) \in Subs
        /\ shown' = [shown EXCEPT ![s] = Minimum(shown[s], roles[Asked(s)])]
        /\ UNCHANGED <<roleUploaded, roles, page, started>>
    BY <1>4 DEF AnswerRoles, AsksRoles, roleMap
  <2>2. Minimum(shown[s], roles[Asked(s)]) \in Versions \union {Missing}
    BY <2>1, Bounds
  <2>3. QED
    BY <2>1, <2>2
<1>5. ASSUME NEW s \in Syncs, Upload(s) PROVE RolesTypeOK'
  <2>1. /\ shown' = [shown EXCEPT ![s] = Missing] /\ roleUploaded' = shown[s]
        /\ UNCHANGED <<roles, page, started>>
    BY <1>5 DEF Upload, Forget, roleMap
  <2>2. QED
    BY <2>1
<1>6. ASSUME NEW s \in Syncs, EndFailed(s) PROVE RolesTypeOK'
  <2>1. /\ shown' = [shown EXCEPT ![s] = Missing]
        /\ page' = [page EXCEPT ![s] = Missing]
        /\ UNCHANGED <<roleUploaded, roles, started>>
    BY <1>6 DEF EndFailed, Forget
  <2>2. QED
    BY <2>1
<1>7. CASE StartAgain
  <2>1. /\ shown' = [s \in Syncs |-> Missing] /\ page' = [s \in Syncs |-> Missing]
        /\ roles' = NoRoles /\ started' = tenant /\ roleUploaded' = roleUploaded
    BY <1>7 DEF StartAgain, AtRest
  <2>2. QED
    BY <1>0, <2>1 DEF NoRoles
<1>8. QED
  BY <1>1, <1>2, <1>3, <1>4, <1>5, <1>6, <1>7, RolesSameSteps DEF Next, SyncStep

LEMMA RolesInvStep == CacheTypeOK /\ RolesTypeOK /\ RolesInv /\ [Next]_vars => RolesInv'
<1> SUFFICES ASSUME CacheTypeOK, RolesTypeOK, RolesInv, [Next]_vars PROVE RolesInv'
  OBVIOUS
<1> USE DEF RolesInv
<1>0. /\ tenant \in Nat /\ started \in Nat /\ Missing \in Nat
      /\ tenant <= Missing /\ started <= Missing
  BY Bounds DEF CacheTypeOK, RolesTypeOK
<1>1. CASE RolesSame
  <2>1. started <= tenant'
    BY <1>0, <1>1 DEF RolesSame
  <2>2. QED
    BY <1>1, <2>1 DEF RolesSame
<1>2. ASSUME NEW s \in Syncs, ListRoles(s) PROVE RolesInv'
  <2>1. /\ page' = [page EXCEPT ![s] = tenant]
        /\ UNCHANGED <<tenant, shown, roles, started>>
    BY <1>2 DEF ListRoles, syncs, http
  <2>2. QED
    BY <2>1 DEF RolesTypeOK
<1>3. ASSUME NEW s \in Syncs, StoreRoles(s) PROVE RolesInv'
  <2>1. /\ roles' = [roles EXCEPT ![Asked(s)] = Minimum(roles[Asked(s)], page[s])]
        /\ page' = [page EXCEPT ![s] = Missing]
        /\ UNCHANGED <<tenant, shown, started>>
    BY <1>3 DEF StoreRoles, syncs, http
  <2>2. \A b \in Subs : Minimum(roles[b], page[s]) \in {roles[b], page[s]}
    BY Bounds DEF RolesTypeOK
  <2>3. \A b \in Subs : roles'[b] \in {roles[b], page[s]}
    BY <2>1, <2>2 DEF RolesTypeOK
  <2>4. \A c \in Syncs : page'[c] \in {page[c], Missing}
    BY <2>1 DEF RolesTypeOK
  <2>5. QED
    BY <1>0, <2>1, <2>3, <2>4
<1>4. ASSUME NEW s \in Syncs, AnswerRoles(s) PROVE RolesInv'
  <2>1. /\ Asked(s) \in Subs
        /\ shown' = [shown EXCEPT ![s] = Minimum(shown[s], roles[Asked(s)])]
        /\ UNCHANGED <<tenant, roles, page, started>>
    BY <1>4 DEF AnswerRoles, AsksRoles, roleMap, http
  <2>2. Minimum(shown[s], roles[Asked(s)]) \in {shown[s], roles[Asked(s)]}
    BY <2>1, Bounds DEF RolesTypeOK
  <2>3. \A c \in Syncs : shown'[c] \in {shown[c], roles[Asked(s)]}
    BY <2>1, <2>2 DEF RolesTypeOK
  <2>4. QED
    BY <2>1, <2>3
<1>5. ASSUME NEW s \in Syncs, shown' = [shown EXCEPT ![s] = Missing],
             page' = page \/ page' = [page EXCEPT ![s] = Missing],
             UNCHANGED <<tenant, roles, started>>
      PROVE  RolesInv'
  <2>1. \A c \in Syncs : shown'[c] \in {shown[c], Missing} /\ page'[c] \in {page[c], Missing}
    BY <1>5 DEF RolesTypeOK
  <2>2. QED
    BY <1>0, <1>5, <2>1
<1>6. ASSUME NEW s \in Syncs, Upload(s) PROVE RolesInv'
  BY <1>5, <1>6 DEF Upload, Forget, roleMap, http
<1>7. ASSUME NEW s \in Syncs, EndFailed(s) PROVE RolesInv'
  BY <1>5, <1>7 DEF EndFailed, Forget, Drop
<1>8. CASE StartAgain
  <2>1. /\ shown' = [s \in Syncs |-> Missing] /\ page' = [s \in Syncs |-> Missing]
        /\ roles' = NoRoles /\ started' = tenant /\ tenant' = tenant
    BY <1>8 DEF StartAgain, AtRest, CacheRestart
  <2>2. QED
    BY <1>0, <2>1 DEF NoRoles
<1>9. QED
  BY <1>1, <1>2, <1>3, <1>4, <1>6, <1>7, <1>8, RolesSameSteps DEF Next, SyncStep

-----------------------------------------------------------------------------
(* Theorems *)

LEMMA InitServiceInv == Init => ServiceInv
<1> SUFFICES ASSUME Init PROVE ServiceInv
  OBVIOUS
<1>0. /\ Clients = Syncs /\ MaxFaults \in Nat
      /\ 0 \in Versions /\ 0 <= 0 /\ 1 \in 1 .. Len(Order) + 2
  BY ServiceAssumption, CacheAssumption, Bounds DEF Versions
<1>1. RunnerTypeOK /\ SlotInv
  BY SlotInit
<1>2. CacheTypeOK
  BY <1>0 DEF Init, CacheInit, CacheTypeOK, Nothing
<1>3. SyncsTypeOK
  BY <1>0 DEF Init, SyncsTypeOK
<1>4. SyncInv
  BY <1>0 DEF Init, CacheInit, SyncInv
<1>5. ReaderInv
  BY DEF Init, CacheInit, ReaderInv
<1>6. FreshInv
  BY DEF Init, FreshInv
<1>7. RolesTypeOK
  BY <1>0 DEF Init, RolesTypeOK, NoRoles
<1>8. RolesInv
  BY <1>0, Bounds DEF Init, CacheInit, RolesInv, NoRoles
<1>9. QED
  BY <1>1, <1>2, <1>3, <1>4, <1>5, <1>6, <1>7, <1>8, TypeParts DEF ServiceInv

LEMMA NextServiceInv == ServiceInv /\ [Next]_vars => ServiceInv'
<1> SUFFICES ASSUME ServiceInv, [Next]_vars PROVE ServiceInv'
  OBVIOUS
<1>1. /\ RunnerTypeOK /\ CacheTypeOK /\ SyncsTypeOK /\ RolesTypeOK
      /\ SlotInv /\ SyncInv /\ ReaderInv /\ FreshInv /\ RolesInv
  BY TypeParts DEF ServiceInv
<1>2. RunnerTypeOK' /\ SlotInv'
  BY <1>1, NextIsRunnerStep, RunnerTypes, SlotStep
<1>3. CacheTypeOK' /\ SyncsTypeOK'
  BY <1>1, CacheTypes, SyncsTypes
<1>4. SyncInv' /\ ReaderInv' /\ FreshInv'
  BY <1>1, SyncInvStep, ReaderInvStep, FreshInvStep
<1>5. RolesTypeOK' /\ RolesInv'
  BY <1>1, RolesTypes, RolesInvStep
<1>6. TypeOK'
  BY <1>2, <1>3, <1>5, Zenon DEF TypeOK, SyncsTypeOK, RolesTypeOK
<1>7. QED
  BY <1>2, <1>4, <1>5, <1>6 DEF ServiceInv

(* The state of the service keeps its types.                               *)
THEOREM ServiceTypes == Spec => []TypeOK
<1>1. ServiceInv => TypeOK
  BY DEF ServiceInv
<1>2. QED
  BY <1>1, InitServiceInv, NextServiceInv, PTL DEF Spec

(* When no sync runs and neither a sync nor a cleanup has failed since the *)
(* last cleanup, nothing is left in the cache (wrapper.go:386-391,         *)
(* syncer.go:449).                                                         *)
THEOREM CacheCleanAtRest == Spec => []CleanAtRest
<1>1. ServiceInv => CleanAtRest
  BY DEF ServiceInv, ReaderInv, CleanAtRest
<1>2. QED
  BY <1>1, InitServiceInv, NextServiceInv, PTL DEF Spec

(* What Graph answers a sync that begins then shows every change made      *)
(* before it began (wrapper.go:296-306); its role assignments do not come  *)
(* from Graph.                                                             *)
THEOREM GraphAnswersAreFresh == Spec => []FreshWhenClean
<1>1. ServiceInv => FreshWhenClean
  <2> SUFFICES ASSUME ServiceInv PROVE FreshWhenClean
    OBVIOUS
  <2>2. SyncsTypeOK /\ FreshInv
    BY TypeParts DEF ServiceInv
  <2>3. \A s \in Syncs : began[s] \in Nat /\ oldest[s] \in Nat
    BY <2>2, Bounds DEF SyncsTypeOK
  <2>4. \A s \in Syncs : clean[s] => began[s] <= oldest[s]
    BY <2>2 DEF FreshInv
  <2>5. QED
    BY <2>3, <2>4 DEF FreshWhenClean
<1>2. QED
  BY <1>1, InitServiceInv, NextServiceInv, PTL DEF Spec

(* The role assignments that a sync shows were listed by this process: at  *)
(* worst they are as old as its start (role.go:293, 311-312).              *)
THEOREM RolesAreOfThisProcess == Spec => []RolesOfThisProcess
<1>1. ServiceInv => RolesOfThisProcess
  <2> SUFFICES ASSUME ServiceInv PROVE RolesOfThisProcess
    OBVIOUS
  <2>1. RolesTypeOK /\ RolesInv
    BY TypeParts DEF ServiceInv
  <2>2. \A s \in Syncs : shown[s] \in Nat /\ started \in Nat
    BY <2>1, Bounds DEF RolesTypeOK
  <2>3. QED
    BY <2>1, <2>2 DEF RolesInv, RolesOfThisProcess
<1>2. QED
  BY <1>1, InitServiceInv, NextServiceInv, PTL DEF Spec
=============================================================================

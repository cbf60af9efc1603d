------------------------------ MODULE Service ------------------------------
(***************************************************************************)
(* Service mode: the task runner (TaskRunner) runs full syncs, which read  *)
(* the tenant and upload what they read, and grant and revoke tasks, which *)
(* change the tenant.  All of them share one connector process with two    *)
(* memories of earlier reads:                                              *)
(*                                                                         *)
(*  - the HTTP cache (HttpCache) of what Microsoft Graph answered.  A sync *)
(*    clears it when it has succeeded (syncer.Sync, SDK/sync/syncer.go);   *)
(*  - the role builder's map of role assignments (src/pkg/connector/       *)
(*    role.go), filled through the Azure SDK, which does not use the HTTP  *)
(*    cache.  Nothing empties it while the process lives.  RoleCache takes *)
(*    its filling apart, page by page; here a listing is one page, and     *)
(*    what matters is how old it is.                                       *)
(*                                                                         *)
(* A sync is reduced to the reads it makes: Order, each of them again when *)
(* it fails; SyncRun models the rest of it.  A request whose sync was      *)
(* given up ends with it: its context is cancelled.                        *)
(***************************************************************************)
EXTENDS TaskRunner, HttpCache, Sequences

CONSTANTS
  Syncs,      \* full sync tasks: the cache's clients
  Writers,    \* grant and revoke tasks
  Subs,       \* subscriptions: the keys of the role builder's map
  Order,      \* the reads of a sync: Graph's Urls, and the roles of Subs
  MaxFaults   \* bound: failed syncs, failed uploads, closed connections, interrupts

ASSUME ServiceAssumption ==
  /\ Tasks = Syncs \union Writers \union {Hello}
  /\ Syncs \intersect Writers = {}
  /\ Clients = Syncs
  /\ Urls \intersect Subs = {}
  /\ Order \in Seq(Urls \union Subs)
  /\ Len(Order) > 0
  /\ MaxFaults \in Nat

VARIABLES
  next,       \* next[s]: the read of Order that sync s makes next
  oldest,     \* the oldest answer of Graph's that s was given
  shown,      \* the oldest listing that s took role assignments from
  began,      \* the version of the tenant when s began
  clean,      \* s began with no other sync running and none failed since a cleanup
  cleaned,    \* no sync and no cleanup has failed since the last cleanup
  uploaded,   \* oldest of the last sync whose file was uploaded
  roleUploaded,  \* shown of that sync
  roles,      \* roles[b]: the oldest page in the map's entry for subscription b
  page,       \* the listing that s has received and not stored yet
  started,    \* the version of the tenant when the process started
  faults

syncs == <<next, oldest, shown, began, clean, cleaned, uploaded, roleUploaded>>
roleMap == <<roles, page, started>>
vars == <<runner, http, syncs, roleMap, faults>>

Reading == running \intersect Syncs
NoRoles == [b \in Subs |-> Missing]

AtRest ==
  /\ next' = [s \in Syncs |-> 1]
  /\ oldest' = [s \in Syncs |-> Missing]
  /\ shown' = [s \in Syncs |-> Missing]
  /\ began' = [s \in Syncs |-> 0]
  /\ clean' = [s \in Syncs |-> FALSE]

Init ==
  /\ RunnerInit
  /\ CacheInit
  /\ next = [s \in Syncs |-> 1]
  /\ oldest = [s \in Syncs |-> Missing]
  /\ shown = [s \in Syncs |-> Missing]
  /\ began = [s \in Syncs |-> 0]
  /\ clean = [s \in Syncs |-> FALSE]
  /\ cleaned = TRUE
  /\ uploaded = 0
  /\ roleUploaded = 0
  /\ roles = NoRoles
  /\ page = [s \in Syncs |-> Missing]
  /\ started = 0
  /\ faults = 0

Fault == faults < MaxFaults /\ faults' = faults + 1

-----------------------------------------------------------------------------
(* The runner *)

Idle == Poll /\ UNCHANGED <<http, syncs, roleMap, faults>>

Claim(t) ==
  /\ NextTask(t)
  /\ t \notin Syncs
  /\ UNCHANGED <<http, syncs, roleMap, faults>>

BeginSync(s) ==
  /\ NextTask(s)
  /\ began' = [began EXCEPT ![s] = tenant]
  /\ clean' = [clean EXCEPT ![s] = cleaned /\ Reading = {}]
  /\ UNCHANGED <<http, next, oldest, shown, cleaned, uploaded, roleUploaded, roleMap, faults>>

Interrupt == Fault /\ Cancel /\ UNCHANGED <<http, syncs, roleMap>>

StartWithRoles ==   \* mutant: the map outlives the process
  /\ Restart
  /\ CacheRestart
  /\ AtRest
  /\ cleaned' = TRUE
  /\ page' = [s \in Syncs |-> Missing]
  /\ started' = tenant
  /\ UNCHANGED <<uploaded, roleUploaded, roles, faults>>

\* A new process: both memories are empty.
StartAgain ==
  /\ Restart
  /\ CacheRestart
  /\ AtRest
  /\ cleaned' = TRUE
  /\ roles' = NoRoles
  /\ page' = [s \in Syncs |-> Missing]
  /\ started' = tenant
  /\ UNCHANGED <<uploaded, roleUploaded, faults>>

-----------------------------------------------------------------------------
(* A full sync: what it reads from Microsoft Graph *)

Goes(s) == s \in running /\ loop # "crashed"
Asking(s) == next[s] <= Len(Order)
Asked(s) == Order[next[s]]
AsksGraph(s) == Asking(s) /\ Asked(s) \in Urls
AsksRoles(s) == Asking(s) /\ Asked(s) \in Subs
Minimum(v, w) == IF v < w THEN v ELSE w

LookUp(s) ==
  /\ Goes(s)
  /\ AsksGraph(s)
  /\ Get(s, Asked(s))
  /\ UNCHANGED <<runner, syncs, roleMap, faults>>

Reply(s) ==
  /\ Goes(s)
  /\ Answer(s)
  /\ UNCHANGED <<runner, syncs, roleMap, faults>>

Keep(s) ==
  /\ Goes(s)
  /\ Set(s, Asked(s))
  /\ next' = [next EXCEPT ![s] = @ + 1]
  /\ oldest' = [oldest EXCEPT ![s] = Minimum(@, got[s])]
  /\ UNCHANGED <<runner, shown, began, clean, cleaned, uploaded, roleUploaded, roleMap, faults>>

-----------------------------------------------------------------------------
(* What it reads of role assignments: cacheRoleAssignments lists them if   *)
(* the map has no entry, appends what it lists to the entry, which another *)
(* sync may have made meanwhile, and Grants answers from the entry.        *)

ListRoles(s) ==
  /\ Goes(s)
  /\ AsksRoles(s)
  /\ roles[Asked(s)] = Missing
  /\ page[s] = Missing
  /\ page' = [page EXCEPT ![s] = tenant]
  /\ UNCHANGED <<runner, http, syncs, roles, started, faults>>

StoreRoles(s) ==
  /\ Goes(s)
  /\ page[s] # Missing
  /\ roles' = [roles EXCEPT ![Asked(s)] = Minimum(@, page[s])]
  /\ page' = [page EXCEPT ![s] = Missing]
  /\ UNCHANGED <<runner, http, syncs, started, faults>>

AnswerRoles(s) ==
  /\ Goes(s)
  /\ AsksRoles(s)
  /\ roles[Asked(s)] # Missing
  /\ page[s] = Missing
  /\ shown' = [shown EXCEPT ![s] = Minimum(@, roles[Asked(s)])]
  /\ next' = [next EXCEPT ![s] = @ + 1]
  /\ UNCHANGED <<runner, http, oldest, began, clean, cleaned, uploaded, roleUploaded,
                 roleMap, faults>>

-----------------------------------------------------------------------------
(* How a sync ends *)

CleanUpEarly(s) ==   \* mutant: before the last read
  /\ Goes(s)
  /\ next[s] \in {Len(Order), Len(Order) + 1}
  /\ at[s] = "idle"
  /\ IF next[s] = Len(Order)
       THEN Clear /\ next' = next /\ answers # Nothing
       ELSE UNCHANGED http /\ next' = [next EXCEPT ![s] = @ + 1]
  /\ cleaned' = TRUE
  /\ UNCHANGED <<runner, oldest, shown, began, clean, uploaded, roleUploaded, roleMap, faults>>

(* The last step of Sync; the position after Order and it is where Sync    *)
(* has returned.  Sync swallows an error of Cleanup.  Clearing itself has  *)
(* none; the call fails when its context is done.                          *)
CleanUp(s) ==
  /\ Goes(s)
  /\ next[s] = Len(Order) + 1
  /\ \/ Clear /\ cleaned' = TRUE
     \/ cancelled /\ UNCHANGED http /\ cleaned' = FALSE
  /\ next' = [next EXCEPT ![s] = @ + 1]
  /\ UNCHANGED <<runner, oldest, shown, began, clean, uploaded, roleUploaded, roleMap, faults>>

Forget(s) ==
  /\ next' = [next EXCEPT ![s] = 1]
  /\ oldest' = [oldest EXCEPT ![s] = Missing]
  /\ shown' = [shown EXCEPT ![s] = Missing]
  /\ began' = [began EXCEPT ![s] = 0]
  /\ clean' = [clean EXCEPT ![s] = FALSE]

Synced(s) == next[s] = Len(Order) + 2

Upload(s) ==
  /\ Synced(s)
  /\ Finish(s, FALSE)
  /\ uploaded' = oldest[s]
  /\ roleUploaded' = shown[s]
  /\ Forget(s)
  /\ UNCHANGED <<http, cleaned, roleMap, faults>>

(* A sync, or the upload of its file, ends with an error: its own, that of *)
(* a closed connection, or the cancelled context's.                        *)
EndFailed(s) ==
  /\ \E closing \in BOOLEAN : Finish(s, closing)
  /\ IF cancelled THEN faults' = faults ELSE Fault
  /\ Drop(s)
  /\ page' = [page EXCEPT ![s] = Missing]
  /\ Forget(s)
  /\ cleaned' = (cleaned /\ Synced(s))
  /\ UNCHANGED <<uploaded, roleUploaded, roles, started>>

-----------------------------------------------------------------------------
(* The other tasks *)

\* Hello, and a write that Azure refuses.
EndOther(t) ==
  /\ t \notin Syncs
  /\ Finish(t, FALSE)
  /\ UNCHANGED <<http, syncs, roleMap, faults>>

\* Grant and Revoke touch neither memory.
EndWrite(t) ==
  /\ t \in Writers
  /\ Finish(t, FALSE)
  /\ Change
  /\ UNCHANGED <<syncs, roleMap, faults>>

Expire(u) == Evict(u) /\ UNCHANGED <<runner, syncs, roleMap, faults>>

-----------------------------------------------------------------------------

SyncStep(s) ==
  \/ LookUp(s) \/ Reply(s) \/ Keep(s)
  \/ ListRoles(s) \/ StoreRoles(s) \/ AnswerRoles(s)
  \/ CleanUp(s) \/ Upload(s)

Next ==
  \/ Idle
  \/ \E t \in Tasks : Claim(t) \/ EndOther(t) \/ EndWrite(t)
  \/ \E s \in Syncs : BeginSync(s) \/ SyncStep(s) \/ EndFailed(s)
  \/ \E u \in Urls : Expire(u)
  \/ Interrupt
  \/ StartAgain

Spec == Init /\ [][Next]_vars

(* The loop's goroutine runs, and so do those of the tasks; the service is *)
(* kept up; and whoever schedules syncs goes on offering them.             *)
Fairness ==
  /\ WF_vars(Idle \/ \E t \in Tasks : Claim(t) \/ BeginSync(t))
  /\ \A s \in Syncs : WF_vars(SyncStep(s))
  /\ \A t \in Tasks : WF_vars(EndOther(t) \/ EndWrite(t))
  /\ WF_vars(StartAgain)
  /\ SF_vars(\E s \in Syncs : BeginSync(s))

FairSpec == Spec /\ Fairness

-----------------------------------------------------------------------------
(* Properties *)

TypeOK ==
  /\ RunnerTypeOK
  /\ CacheTypeOK
  /\ next \in [Syncs -> 1 .. Len(Order) + 2]
  /\ oldest \in [Syncs -> Versions \union {Missing}]
  /\ shown \in [Syncs -> Versions \union {Missing}]
  /\ began \in [Syncs -> Versions]
  /\ clean \in [Syncs -> BOOLEAN]
  /\ cleaned \in BOOLEAN
  /\ uploaded \in Versions \union {Missing}
  /\ roleUploaded \in Versions \union {Missing}
  /\ roles \in [Subs -> Versions \union {Missing}]
  /\ page \in [Syncs -> Versions \union {Missing}]
  /\ started \in Versions
  /\ faults \in 0 .. MaxFaults

(* When no sync runs and neither a sync nor a cleanup has failed since the *)
(* last cleanup, no answer is left for the next one: a request of another  *)
(* sync that is answered before a cleanup and stored after it is swept by  *)
(* that sync's own (wrapper.go:386-391, syncer.go:449).                    *)
CleanAtRest == Reading = {} /\ cleaned => answers = Nothing

(* What Graph answers a sync that begins then shows every change made      *)
(* before it began, memberships and app roles that another task granted    *)
(* too, though the cache does not hear of writes and syncs that begin      *)
(* later run beside it (wrapper.go:296-306).  It says nothing of role      *)
(* assignments, which do not come from Graph.                              *)
FreshWhenClean == \A s \in Syncs : clean[s] => oldest[s] >= began[s]

(* What a sync shows of role assignments may be as old as the process: its *)
(* first listing of a subscription is kept for all later syncs, whatever   *)
(* is granted meanwhile (role.go:293, 311-312).  It is not older, however  *)
(* the syncs that fill an entry overlap or fail.                           *)
RolesOfThisProcess == \A s \in Syncs : shown[s] >= started

(* Once changes and faults are over, what was uploaded last of Graph's     *)
(* answers is the tenant as it is, for good, if syncs do not overlap for   *)
(* ever: old answers do not outlive the syncs that go on reading, and      *)
(* thereby renewing, them (wrapper.go:386, syncer.go:449).                 *)
SyncsCatchUp == []<>(Reading = {}) => <>[](uploaded = tenant)

(* Role assignments catch up with the tenant when the service is started   *)
(* again after the last change, and then for good; without a restart they  *)
(* need not (role.go:293).                                                 *)
RolesCatchUp == <>[](started = tenant) => <>[](roleUploaded = tenant)
=============================================================================

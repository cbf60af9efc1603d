----------------------------- MODULE HttpCache -----------------------------
(***************************************************************************)
(* The HTTP client's cache of GET answers (SDK/uhttp/wrapper.go and        *)
(* gocache.go), read and written by all the requests of the connector      *)
(* process.  Do looks an answer up, asks the service if there is none,     *)
(* and stores what it has, also an answer that came from the cache.  The   *)
(* three are separate steps and other requests, and Clear, come between.   *)
(*                                                                         *)
(* The answer to a GET is the version of the tenant it shows: the number   *)
(* of changes made before it was given.  An entry may vanish at any        *)
(* moment: by its time to live, which every hit renews, or for room.       *)
(***************************************************************************)
EXTENDS Naturals

CONSTANTS
  Clients,      \* who sends requests: one at a time each
  Urls,         \* the requests' cache keys
  MaxChanges    \* bound: changes of the tenant

ASSUME CacheAssumption == MaxChanges \in Nat

Missing == MaxChanges + 1   \* no answer; newer than all of them in a minimum
Versions == 0 .. MaxChanges

VARIABLES
  tenant,       \* the version of the tenant in Azure
  answers,      \* the cache
  at,           \* where client c stands in Do: "idle", "ask" or "set"
  got           \* the answer c has

http == <<tenant, answers, at, got>>

Nothing == [u \in Urls |-> Missing]

CacheInit ==
  /\ tenant = 0
  /\ answers = Nothing
  /\ at = [c \in Clients |-> "idle"]
  /\ got = [c \in Clients |-> Missing]

Get(c, u) ==
  /\ at[c] = "idle"
  /\ at' = [at EXCEPT ![c] = IF answers[u] = Missing THEN "ask" ELSE "set"]
  /\ got' = [got EXCEPT ![c] = answers[u]]
  /\ UNCHANGED <<tenant, answers>>

\* The service answers the request as things stand now.
Answer(c) ==
  /\ at[c] = "ask"
  /\ at' = [at EXCEPT ![c] = "set"]
  /\ got' = [got EXCEPT ![c] = tenant]
  /\ UNCHANGED <<tenant, answers>>

Set(c, u) ==
  /\ at[c] = "set"
  /\ answers' = [answers EXCEPT ![u] = got[c]]
  /\ at' = [at EXCEPT ![c] = "idle"]
  /\ got' = [got EXCEPT ![c] = Missing]
  /\ UNCHANGED tenant

\* The request fails or its client goes away.
Drop(c) ==
  /\ at' = [at EXCEPT ![c] = "idle"]
  /\ got' = [got EXCEPT ![c] = Missing]
  /\ UNCHANGED <<tenant, answers>>

Evict(u) ==
  /\ answers[u] # Missing
  /\ answers' = [answers EXCEPT ![u] = Missing]
  /\ UNCHANGED <<tenant, at, got>>

ClearNothing == UNCHANGED http   \* mutant: Cleanup does not reach the cache
Clear ==
  /\ answers' = Nothing
  /\ UNCHANGED <<tenant, at, got>>

(* A write: not a GET, so it neither reads the cache nor touches it.       *)
Change ==
  /\ tenant < MaxChanges
  /\ tenant' = tenant + 1
  /\ UNCHANGED <<answers, at, got>>

\* The process starts with an empty cache.
CacheRestart ==
  /\ answers' = Nothing
  /\ at' = [c \in Clients |-> "idle"]
  /\ got' = [c \in Clients |-> Missing]
  /\ UNCHANGED tenant

CacheTypeOK ==
  /\ tenant \in Versions
  /\ answers \in [Urls -> Versions \union {Missing}]
  /\ at \in [Clients -> {"idle", "ask", "set"}]
  /\ got \in [Clients -> Versions \union {Missing}]
=============================================================================

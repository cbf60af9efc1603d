------------------------- MODULE ProvisioningProofs -------------------------
(***************************************************************************)
(* Theorems about Provisioning, for every number of workers, principals,   *)
(* entitlements and assignment names.                                      *)
(*                                                                         *)
(* A revoke acts on a name that was read earlier: from a synced grant or   *)
(* from a listing.  What makes it safe is that Azure never gives a name    *)
(* twice (TypeOK), so that the name still stands for the access it was     *)
(* read for, and that a principal has a relation at most once.  CallInv    *)
(* says so of the calls that run.                                          *)
(***************************************************************************)
EXTENDS Provisioning, TLAPS

-----------------------------------------------------------------------------
(* What the Graph client makes of an answer *)

Refused(resp) ==
  /\ resp.status \in {400, 401, 403, 404, 429, 503}
  /\ resp.json
  /\ resp.body \in {"error", "exists"}

(* A refusal comes back as an error that is not ErrNotFound, whatever its  *)
(* status, and speaks of an existing object only if Graph did.             *)
LEMMA QueryRefused ==
  ASSUME NEW resp, Refused(resp)
  PROVE  /\ Query(resp, FALSE) # NoError
         /\ "ErrNotFound" \notin Query(resp, FALSE)
         /\ "exists" \in Query(resp, FALSE) => resp.body = "exists"
<1> DEFINE s == resp.status
           b == resp.body
           err == {StatusCode(s)} \union {"unmarshal", b}
<1>1. s \in {400, 401, 403, 404, 429, 503}
  BY DEF Refused
<1>2. StatusCode(s) \notin {"ErrNotFound", "exists"}
  BY <1>1 DEF StatusCode
<1>3. resp.json /\ b \in {"error", "exists"}
  BY DEF Refused
<1>4. DecodeError(resp, FALSE) = {"unmarshal", b}
  BY <1>3 DEF DecodeError
<1>5. s \notin 200 .. 299
  BY <1>1
<1>6. Do(resp, FALSE) = err
  BY <1>3, <1>4, <1>5 DEF Do
<1>7. err # NoError
  BY DEF NoError
<1>8. Query(resp, FALSE) = err
  BY <1>6, <1>7 DEF Query
<1>9. QED
  BY <1>2, <1>3, <1>7, <1>8

LEMMA RefusalsRefused == \A resp \in Refusals : Refused(resp)
BY DEF Refusals, Refused, Response

-----------------------------------------------------------------------------
(* Type correctness *)

LEMMA InitTypeOK == Init => TypeOK
BY ProvisioningAssumption DEF Init, TypeOK, AccessOK, CallsOK, Running

(* A new edge keeps the identities unique: its name is unused or Ref.      *)
LEMMA AddAccessOK ==
  ASSUME AccessOK, NEW p \in Principals, NEW e \in Entitlements,
         NEW n \in FreshNames(e), Add(Edge(p, e, n))
  PROVE  AccessOK'
<1>1. /\ Edge(p, e, n).who = p
      /\ Edge(p, e, n).name = n
      /\ OnTarget(Edge(p, e, n), e)
  BY DEF Edge, OnTarget
<1>2. n \in Names \union {Ref} /\ (n = Ref <=> ~Named(e))
  BY ProvisioningAssumption DEF FreshNames, Unused
<1>3. n = Ref \/ \A x \in ever : x.name # n
  BY <1>2 DEF FreshNames, Unused
<1>4. access' = access \union {Edge(p, e, n)} /\ ever' = ever \union {Edge(p, e, n)}
  BY DEF Add
<1>5. QED
  BY <1>1, <1>2, <1>3, <1>4 DEF AccessOK, OnTarget

LEMMA RemoveAccessOK ==
  ASSUME AccessOK, access' \subseteq access, ever' = ever
  PROVE  AccessOK'
BY DEF AccessOK, OnTarget

(* A step of a running call leaves its arguments alone but for the name.   *)
LEMMA ObserveTypes ==
  ASSUME CallsOK, Observe
  PROVE  held' \in [Workers -> BOOLEAN] /\ lacked' \in [Workers -> BOOLEAN]
BY DEF CallsOK, Observe

LEMMA FinishCallsOK ==
  ASSUME CallsOK, NEW w \in Workers, NEW how \in {"ok", "error", "lost"},
         Finish(w, how), Observe, op' = op
  PROVE  CallsOK'
BY ObserveTypes DEF CallsOK, Finish, Running

LEMMA AdminCallsOK ==
  ASSUME CallsOK, Observe, UNCHANGED <<pc, op, reply>>
  PROVE  CallsOK'
BY ObserveTypes DEF CallsOK, Running

LEMMA BeginCallsOK ==
  ASSUME CallsOK, NEW w \in Workers, NEW o \in Op, NEW ok,
         NEW start \in {"create", "lookup", "post", "remove"}, Begin(w, o, ok, start)
  PROVE  CallsOK'
<1>1. /\ pc' \in [Workers -> {"idle", "create", "lookup", "delete", "post", "remove"}]
      /\ reply' \in [Workers -> {"none", "ok", "error", "lost", "unregistered"}]
      /\ \A v \in Workers : v # w => pc'[v] = pc[v]
  BY DEF CallsOK, Begin
<1>2. op' = [op EXCEPT ![w] = o]
  BY DEF Begin
<1>3. held' \in [Workers -> BOOLEAN] /\ lacked' \in [Workers -> BOOLEAN]
  BY DEF CallsOK, Begin
<1>4. QED
  BY <1>1, <1>2, <1>3 DEF CallsOK, Running

LEMMA NextTypeOK == TypeOK /\ [Next]_vars => TypeOK'
<1> SUFFICES ASSUME TypeOK, [Next]_vars PROVE TypeOK'
  OBVIOUS
<1>0. AccessOK /\ CallsOK
  BY DEF TypeOK
<1>e. ASSUME NEW w \in Workers, Running(w)
      PROVE  op[w] \in Op /\ op[w].who \in Principals /\ op[w].ent \in Entitlements
  BY <1>0, <1>e DEF CallsOK, Op
<1>k. ASSUME Keep PROVE AccessOK'
  BY <1>0, <1>k, RemoveAccessOK DEF Keep
<1>1. ASSUME NEW p \in Principals, NEW e \in Entitlements, AdminAdd(p, e) PROVE TypeOK'
  BY <1>0, <1>1, AddAccessOK, AdminCallsOK DEF AdminAdd, TypeOK
<1>2. ASSUME NEW x \in access, AdminRemove(x) PROVE TypeOK'
  BY <1>0, <1>2, RemoveAccessOK, AdminCallsOK DEF AdminRemove, TypeOK
<1>3. ASSUME NEW w \in Workers, NEW p \in Principals, NEW e \in Entitlements,
             BeginGrant(w, p, e)
      PROVE  TypeOK'
  <2> DEFINE o == [kind |-> "grant", who |-> p, ent |-> e, name |-> Ref]
  <2>1. o \in Op
    BY DEF Op
  <2>2. Keep
    BY <1>3 DEF BeginGrant, Begin
  <2>3. Begin(w, o, p \in Users, IF e.type \in ArmTypes THEN "create" ELSE "post")
    BY <1>3 DEF BeginGrant
  <2>4. CallsOK'
    BY <1>0, <2>1, <2>3, BeginCallsOK
  <2>5. QED
    BY <1>k, <2>2, <2>4 DEF TypeOK
<1>4. ASSUME NEW w \in Workers, NEW x \in ever, NEW e \in Entitlements,
             BeginRevoke(w, x, e)
      PROVE  TypeOK'
  <2> DEFINE o == [kind |-> "revoke", who |-> x.who, ent |-> e, name |-> x.name]
  <2>1. o \in Op
    BY <1>0 DEF Op, AccessOK
  <2>2. Keep
    BY <1>4 DEF BeginRevoke, Begin
  <2>3. CallsOK'
    BY <1>0, <1>4, <2>1, BeginCallsOK DEF BeginRevoke
  <2>4. QED
    BY <1>k, <2>2, <2>3 DEF TypeOK
<1>5. ASSUME NEW w \in Workers, CreateAssignment(w) PROVE TypeOK'
  <2>1. Running(w)
    BY <1>5 DEF CreateAssignment, Running
  <2>2. AccessOK'
    BY <1>0, <1>5, <1>e, <1>k, <2>1, AddAccessOK DEF CreateAssignment
  <2>3. CallsOK'
    BY <1>0, <1>5, FinishCallsOK DEF CreateAssignment, CreateReply
  <2>4. QED
    BY <2>2, <2>3 DEF TypeOK
<1>6. ASSUME NEW w \in Workers, CreateDenied(w) PROVE TypeOK'
  BY <1>0, <1>6, <1>k, FinishCallsOK DEF CreateDenied, CreateReply, TypeOK
<1>7. ASSUME NEW w \in Workers, CreateLost(w) PROVE TypeOK'
  <2>1. Running(w)
    BY <1>7 DEF CreateLost, Running
  <2>2. AccessOK'
    BY <1>0, <1>7, <1>e, <1>k, <2>1, AddAccessOK DEF CreateLost
  <2>3. CallsOK'
    BY <1>0, <1>7, FinishCallsOK DEF CreateLost, CreateReply
  <2>4. QED
    BY <2>2, <2>3 DEF TypeOK
<1>8. ASSUME NEW w \in Workers, FindAssignment(w) PROVE TypeOK'
  <2>1. PICK x \in Listed(op[w]) : op' = [op EXCEPT ![w].name = x.name]
    BY <1>8 DEF FindAssignment
  <2>2. x \in access
    BY DEF Listed
  <2>3. x.name \in Names \union {Ref}
    BY <1>0, <2>2 DEF AccessOK
  <2>4. op[w] \in Op
    BY <1>8, <1>e DEF FindAssignment, Running
  <2>5. [op[w] EXCEPT !.name = x.name] \in Op
    BY <2>3, <2>4 DEF Op
  <2>6. /\ op' \in [Workers -> Op \union {NoOp}]
        /\ op'[w] \in Op
        /\ \A v \in Workers : v # w => op'[v] = op[v]
    BY <1>0, <2>1, <2>5 DEF CallsOK
  <2>7. /\ pc' \in [Workers -> {"idle", "create", "lookup", "delete", "post", "remove"}]
        /\ \A v \in Workers : v # w => pc'[v] = pc[v]
    BY <1>0, <1>8 DEF FindAssignment, CallsOK
  <2>8. \A v \in Workers : Running(v)' => op'[v] \in Op
    BY <1>0, <2>6, <2>7 DEF CallsOK, Running
  <2>9. CallsOK'
    BY <1>0, <1>8, <2>6, <2>7, <2>8, ObserveTypes DEF FindAssignment, CallsOK
  <2>10. QED
    BY <1>8, <1>k, <2>9 DEF FindAssignment, TypeOK
<1>9. ASSUME NEW w \in Workers, FindNothing(w) PROVE TypeOK'
  BY <1>0, <1>9, <1>k, FinishCallsOK DEF FindNothing, TypeOK
<1>10. ASSUME NEW w \in Workers, DeleteAssignment(w) PROVE TypeOK'
  BY <1>0, <1>10, RemoveAccessOK, FinishCallsOK DEF DeleteAssignment, DeleteReply, TypeOK
<1>11. ASSUME NEW w \in Workers, DeleteFails(w) PROVE TypeOK'
  <2>1. access' \subseteq access
    BY <1>11 DEF DeleteFails
  <2>2. QED
    BY <1>0, <1>11, <2>1, RemoveAccessOK, FinishCallsOK DEF DeleteFails, TypeOK
<1>12. ASSUME NEW w \in Workers, PostEdge(w) PROVE TypeOK'
  <2>1. Running(w)
    BY <1>12 DEF PostEdge, Running
  <2>2. AccessOK'
    BY <1>0, <1>12, <1>e, <1>k, <2>1, AddAccessOK DEF PostEdge
  <2>3. CallsOK'
    BY <1>0, <1>12, FinishCallsOK DEF PostEdge, GrantReply
  <2>4. QED
    BY <2>2, <2>3 DEF TypeOK
<1>13. ASSUME NEW w \in Workers, PostFails(w) PROVE TypeOK'
  <2>1. Running(w)
    BY <1>13 DEF PostFails, Running
  <2>2. AccessOK'
    BY <1>0, <1>13, <1>e, <1>k, <2>1, AddAccessOK DEF PostFails
  <2>3. CallsOK'
    BY <1>0, <1>13, FinishCallsOK DEF PostFails, GrantReply
  <2>4. QED
    BY <2>2, <2>3 DEF TypeOK
<1>14. ASSUME NEW w \in Workers, RemoveEdge(w) PROVE TypeOK'
  BY <1>0, <1>14, RemoveAccessOK, FinishCallsOK DEF RemoveEdge, RevokeReply, TypeOK
<1>15. ASSUME NEW w \in Workers, RemoveFails(w) PROVE TypeOK'
  <2>1. access' \subseteq access
    BY <1>15 DEF RemoveFails
  <2>2. CallsOK'
    BY <1>0, <1>15, FinishCallsOK DEF RemoveFails, RevokeReply
  <2>3. QED
    BY <1>0, <1>15, <2>1, <2>2, RemoveAccessOK DEF RemoveFails, TypeOK
<1>16. CASE UNCHANGED vars
  BY <1>0, <1>16 DEF vars, TypeOK, AccessOK, CallsOK, Running, OnTarget
<1>17. Users \subseteq Principals
  BY DEF Principals
<1>18. QED
  BY <1>1, <1>2, <1>3, <1>4, <1>5, <1>6, <1>7, <1>8, <1>9, <1>10, <1>11, <1>12, <1>13,
     <1>14, <1>15, <1>16, <1>17 DEF Next, Serve

(* Azure's edges and the calls keep their types, and Azure's identities    *)
(* stay unique, for every number of workers and every tenant.              *)
THEOREM ProvisioningTypes == Spec => []TypeOK
BY InitTypeOK, NextTypeOK, PTL DEF Spec

-----------------------------------------------------------------------------
(* What the running calls know *)

Asks(w, kind, types) == op[w].kind = kind /\ op[w].ent.type \in types

(* The kind of call that stands at each place, and what the name it holds  *)
(* stands for: an assignment of the role to the principal, at whatever     *)
(* scope (ARM), or an edge that the call is about (Graph).                 *)
CallOK(w) ==
  /\ pc[w] = "create" => Asks(w, "grant", ArmTypes)
  /\ pc[w] = "post" => Asks(w, "grant", GraphTypes)
  /\ pc[w] \in {"lookup", "delete"} => Asks(w, "revoke", ArmTypes)
  /\ pc[w] = "remove" => Asks(w, "revoke", GraphTypes)
  /\ pc[w] = "delete" =>
       \E x \in ever : /\ x.name = op[w].name /\ x.name # Ref
                       /\ x.slug = "assigned"
                       /\ SameRoleAndPrincipal(x, op[w])
  /\ pc[w] = "remove" /\ Named(op[w].ent) =>
       \E x \in EdgesOf(ever, op[w]) : x.name = op[w].name /\ x.name # Ref

OneEdge == \A x, y \in access : SameAccess(x, y) => x = y

CallInv == OneEdge /\ \A w \in Workers : CallOK(w)

LEMMA InitCallInv == Init => CallInv
BY ProvisioningAssumption DEF Init, CallInv, OneEdge, CallOK

LEMMA AddOneEdge ==
  ASSUME OneEdge, NEW o, NEW n, EdgesOf(access, o) = {}, Add(Edge(o.who, o.ent, n))
  PROVE  OneEdge'
<1> DEFINE new == Edge(o.who, o.ent, n)
<1>1. new.who = o.who /\ OnTarget(new, o.ent)
  BY DEF Edge, OnTarget
<1>2. \A x \in access : ~SameAccess(x, new) /\ ~SameAccess(new, x)
  BY <1>1 DEF EdgesOf, OnTarget, SameAccess
<1>3. access' = access \union {new}
  BY DEF Add
<1> HIDE DEF new
<1>4. QED
  BY <1>2, <1>3 DEF OneEdge, SameAccess

LEMMA RemoveOneEdge ==
  ASSUME OneEdge, access' \subseteq access
  PROVE  OneEdge'
BY DEF OneEdge, SameAccess

LEMMA CallKept ==
  ASSUME NEW w \in Workers, CallOK(w), pc'[w] \in {pc[w], "idle"}, op'[w] = op[w],
         ever \subseteq ever'
  PROVE  CallOK(w)'
<1>1. EdgesOf(ever, op[w]) \subseteq EdgesOf(ever', op'[w])
  BY DEF EdgesOf, OnTarget
<1>2. QED
  BY <1>1 DEF CallOK, Asks, SameRoleAndPrincipal

LEMMA FinishCallOK ==
  ASSUME TypeOK, CallInv, NEW w \in Workers, NEW how, Finish(w, how), op' = op,
         ever \subseteq ever'
  PROVE  \A v \in Workers : CallOK(v)'
<1>1. \A v \in Workers : pc'[v] \in {pc[v], "idle"}
  BY DEF Finish, TypeOK, CallsOK
<1>2. QED
  BY <1>1, CallKept DEF CallInv

(* Graph makes an edge only where there is none. *)
LEMMA PostAccepted ==
  ASSUME NEW o, NEW resp \in PostAnswers(o), resp.status \in 200 .. 299
  PROVE  EdgesOf(access, o) = {}
BY DEF PostAnswers, Response

(* The edges of one object and relation have names, or none has.           *)
LEMMA NamedAlike ==
  ASSUME AccessOK, NEW x \in ever, NEW e \in Entitlements, x.object = e.object,
         e.type \in ArmTypes \/ (OnTarget(x, e) /\ Named(e))
  PROVE  x.name # Ref
<1>1. PICK f \in Entitlements : OnTarget(x, f) /\ (x.name = Ref <=> ~Named(f))
  BY DEF AccessOK
<1>2. SameKind(e, f)
  BY <1>1, ProvisioningAssumption DEF OnTarget
<1>3. CASE e.type \in ArmTypes
  BY <1>1, <1>2, <1>3 DEF SameKind, Named
<1>4. CASE e.type \notin ArmTypes /\ OnTarget(x, e) /\ Named(e)
  <2>1. e.type = f.type
    BY <1>2, <1>4 DEF SameKind
  <2>2. e.slug = f.slug
    BY <1>1, <1>4, <2>1 DEF OnTarget, TargetSlug
  <2>3. QED
    BY <1>1, <1>4, <2>1, <2>2 DEF Named
<1>5. QED
  BY <1>3, <1>4

LEMMA NextCallInv ==
  ASSUME TypeOK, CallInv, [Next]_vars
  PROVE  CallInv'
<1>0. AccessOK /\ CallsOK /\ OneEdge
  BY DEF TypeOK, CallInv
<1>k. ASSUME Keep PROVE OneEdge' /\ ever \subseteq ever'
  BY <1>0, <1>k, RemoveOneEdge DEF Keep
<1>a. ASSUME NEW o, NEW n, EdgesOf(access, o) = {}, Add(Edge(o.who, o.ent, n))
      PROVE  OneEdge' /\ ever \subseteq ever'
  BY <1>0, <1>a, AddOneEdge DEF Add
<1>1. ASSUME NEW p \in Principals, NEW e \in Entitlements, AdminAdd(p, e) PROVE CallInv'
  <2> DEFINE o == [who |-> p, ent |-> e]
  <2>1. PICK n \in FreshNames(e) : Add(Edge(o.who, o.ent, n))
    BY <1>1 DEF AdminAdd
  <2>2. OneEdge' /\ ever \subseteq ever'
    BY <1>1, <1>a, <2>1 DEF AdminAdd
  <2>3. QED
    BY <1>1, <2>2, CallKept DEF AdminAdd, CallInv
<1>2. ASSUME NEW x \in access, AdminRemove(x) PROVE CallInv'
  <2>1. OneEdge'
    BY <1>0, <1>2, RemoveOneEdge DEF AdminRemove
  <2>2. QED
    BY <1>2, <2>1, CallKept DEF AdminRemove, CallInv
<1>b. ASSUME NEW w \in Workers, NEW o, NEW ok, NEW start, Begin(w, o, ok, start),
             NEW v \in Workers, v # w
      PROVE  CallOK(v)'
  <2>1. pc'[v] = pc[v] /\ op'[v] = op[v] /\ ever' = ever
    BY <1>0, <1>b DEF Begin, Keep, CallsOK
  <2>2. QED
    BY <2>1, CallKept DEF CallInv
<1>3. ASSUME NEW w \in Workers, NEW p \in Principals, NEW e \in Entitlements,
             BeginGrant(w, p, e)
      PROVE  CallInv'
  <2> DEFINE o == [kind |-> "grant", who |-> p, ent |-> e, name |-> Ref]
             start == IF e.type \in ArmTypes THEN "create" ELSE "post"
  <2>1. Begin(w, o, p \in Users, start)
    BY <1>3 DEF BeginGrant
  <2>2. op'[w] = o /\ pc'[w] \in {"idle", start} /\ Keep
    BY <1>0, <2>1 DEF Begin, CallsOK
  <2>3. CallOK(w)'
    BY <2>2, ProvisioningAssumption DEF CallOK, Asks
  <2>4. QED
    BY <1>b, <1>k, <2>1, <2>2, <2>3 DEF CallInv
<1>4. ASSUME NEW w \in Workers, NEW x \in ever, NEW e \in Entitlements,
             BeginRevoke(w, x, e)
      PROVE  CallInv'
  <2> DEFINE o == [kind |-> "revoke", who |-> x.who, ent |-> e, name |-> x.name]
             start == IF e.type \in ArmTypes THEN "lookup" ELSE "remove"
             ok == x.who \in Users \/ e.type = "enterprise_application"
  <2>1. Begin(w, o, ok, start)
    BY <1>4 DEF BeginRevoke
  <2>2. op'[w] = o /\ pc'[w] \in {"idle", start} /\ Keep
    BY <1>0, <2>1 DEF Begin, CallsOK
  <2>3. ASSUME e.type \notin ArmTypes, Named(e)
        PROVE  x \in EdgesOf(ever', o) /\ x.name # Ref
    <3>1. OnTarget(x, e)
      BY <1>4, <2>3 DEF BeginRevoke, ReportedUnder
    <3>2. x.name # Ref
      BY <1>0, <2>3, <3>1, NamedAlike DEF OnTarget
    <3>3. QED
      BY <2>2, <3>1, <3>2 DEF EdgesOf, Keep
  <2>4. CallOK(w)'
    BY <2>2, <2>3, ProvisioningAssumption DEF CallOK, Asks
  <2>5. QED
    BY <1>b, <1>k, <2>1, <2>2, <2>4 DEF CallInv
<1>5. ASSUME NEW w \in Workers, CreateAssignment(w) PROVE CallInv'
  <2>1. OneEdge' /\ ever \subseteq ever'
    BY <1>5, <1>a, <1>k DEF CreateAssignment
  <2>2. QED
    BY <1>5, <2>1, FinishCallOK DEF CreateAssignment, CallInv
<1>6. ASSUME NEW w \in Workers, CreateDenied(w) PROVE CallInv'
  BY <1>6, <1>k, FinishCallOK DEF CreateDenied, CallInv
<1>7. ASSUME NEW w \in Workers, CreateLost(w) PROVE CallInv'
  <2>1. OneEdge' /\ ever \subseteq ever'
    BY <1>7, <1>a, <1>k DEF CreateLost
  <2>2. QED
    BY <1>7, <2>1, FinishCallOK DEF CreateLost, CallInv
<1>8. ASSUME NEW w \in Workers, FindAssignment(w) PROVE CallInv'
  <2>1. PICK x \in Listed(op[w]) : op' = [op EXCEPT ![w].name = x.name]
    BY <1>8 DEF FindAssignment
  <2>2. x \in ever /\ x.slug = "assigned" /\ SameRoleAndPrincipal(x, op[w])
    BY <1>0 DEF Listed, AccessOK
  <2>3. op[w] \in Op /\ Asks(w, "revoke", ArmTypes)
    BY <1>0, <1>8 DEF FindAssignment, CallsOK, Running, CallInv, CallOK
  <2>4. x.name # Ref
    BY <1>0, <2>2, <2>3, NamedAlike DEF SameRoleAndPrincipal, Asks, Op
  <2>5. op'[w] = [op[w] EXCEPT !.name = x.name] /\ pc'[w] = "delete"
    BY <1>0, <1>8, <2>1 DEF FindAssignment, CallsOK
  <2>6. /\ op'[w].kind = op[w].kind /\ op'[w].who = op[w].who
        /\ op'[w].ent = op[w].ent /\ op'[w].name = x.name
    BY <2>3, <2>5 DEF Op
  <2>7. CallOK(w)'
    BY <1>8, <2>2, <2>3, <2>4, <2>5, <2>6
    DEF CallOK, Asks, SameRoleAndPrincipal, FindAssignment, Keep
  <2>8. ASSUME NEW v \in Workers, v # w PROVE CallOK(v)'
    <3>1. pc'[v] = pc[v] /\ op'[v] = op[v] /\ ever' = ever
      BY <1>0, <1>8, <2>1, <2>8 DEF FindAssignment, Keep, CallsOK
    <3>2. QED
      BY <3>1, CallKept DEF CallInv
  <2>9. QED
    BY <1>8, <1>k, <2>7, <2>8 DEF FindAssignment, CallInv
<1>9. ASSUME NEW w \in Workers, FindNothing(w) PROVE CallInv'
  BY <1>9, <1>k, FinishCallOK DEF FindNothing, CallInv
<1>10. ASSUME NEW w \in Workers, DeleteAssignment(w) PROVE CallInv'
  BY <1>0, <1>10, RemoveOneEdge, FinishCallOK DEF DeleteAssignment, CallInv
<1>11. ASSUME NEW w \in Workers, DeleteFails(w) PROVE CallInv'
  <2>1. access' \subseteq access
    BY <1>11 DEF DeleteFails
  <2>2. QED
    BY <1>0, <1>11, <2>1, RemoveOneEdge, FinishCallOK DEF DeleteFails, CallInv
<1>12. ASSUME NEW w \in Workers, PostEdge(w) PROVE CallInv'
  <2>1. OneEdge' /\ ever \subseteq ever'
    BY <1>12, <1>a, <1>k, PostAccepted DEF PostEdge
  <2>2. QED
    BY <1>12, <2>1, FinishCallOK DEF PostEdge, CallInv
<1>13. ASSUME NEW w \in Workers, PostFails(w) PROVE CallInv'
  <2>1. OneEdge' /\ ever \subseteq ever'
    BY <1>13, <1>a, <1>k, PostAccepted DEF PostFails
  <2>2. QED
    BY <1>13, <2>1, FinishCallOK DEF PostFails, CallInv
<1>14. ASSUME NEW w \in Workers, RemoveEdge(w) PROVE CallInv'
  BY <1>0, <1>14, RemoveOneEdge, FinishCallOK DEF RemoveEdge, CallInv
<1>15. ASSUME NEW w \in Workers, RemoveFails(w) PROVE CallInv'
  <2>1. access' \subseteq access
    BY <1>15 DEF RemoveFails
  <2>2. \A v \in Workers : CallOK(v)'
    BY <1>15, FinishCallOK DEF RemoveFails
  <2>3. QED
    BY <1>0, <2>1, <2>2, RemoveOneEdge DEF CallInv
<1>16. CASE UNCHANGED vars
  <2>1. OneEdge'
    BY <1>0, <1>16, RemoveOneEdge DEF vars
  <2>2. QED
    BY <1>16, <2>1, CallKept DEF vars, CallInv
<1>17. Users \subseteq Principals
  BY DEF Principals
<1>18. QED
  BY <1>1, <1>2, <1>3, <1>4, <1>5, <1>6, <1>7, <1>8, <1>9, <1>10, <1>11, <1>12, <1>13,
     <1>14, <1>15, <1>16, <1>17 DEF Next, Serve

LEMMA CallInvariant == Spec => [](TypeOK /\ CallInv)
<1>1. TypeOK /\ CallInv /\ [Next]_vars => TypeOK' /\ CallInv'
  BY NextTypeOK, NextCallInv
<1>2. QED
  BY InitTypeOK, InitCallInv, <1>1, PTL DEF Spec

-----------------------------------------------------------------------------
(* A call touches only what it was asked about *)

LEMMA DeletableIsTarget ==
  ASSUME TypeOK, CallInv, NEW w \in Workers, pc[w] = "delete"
  PROVE  Deletable(op[w]) \subseteq EdgesOf(access, op[w])
<1>1. PICK x \in ever : /\ x.name = op[w].name /\ x.name # Ref
                       /\ x.slug = "assigned"
                       /\ SameRoleAndPrincipal(x, op[w])
  BY DEF CallInv, CallOK
<1>2. op[w].ent.type \in ArmTypes
  BY DEF CallInv, CallOK, Asks
<1>3. ASSUME NEW y \in Deletable(op[w]) PROVE y \in EdgesOf(access, op[w])
  <2>1. y \in access /\ y.name = op[w].name /\ y.scope = op[w].ent.scope
    BY <1>3 DEF Deletable
  <2>2. y = x
    BY <1>1, <2>1 DEF TypeOK, AccessOK
  <2>3. QED
    BY <1>1, <1>2, <2>1, <2>2 DEF EdgesOf, OnTarget, TargetSlug, SameRoleAndPrincipal
<1>4. QED
  BY <1>3

LEMMA DeletedIsTarget ==
  ASSUME TypeOK, CallInv, NEW w \in Workers, pc[w] = "remove"
  PROVE  Deleted(op[w]) \subseteq EdgesOf(access, op[w])
<1>1. CASE Named(op[w].ent)
  <2>1. PICK x \in EdgesOf(ever, op[w]) : x.name = op[w].name /\ x.name # Ref
    BY <1>1 DEF CallInv, CallOK
  <2>2. ASSUME NEW y \in Deleted(op[w]) PROVE y \in EdgesOf(access, op[w])
    <3>1. y \in access /\ y.name = op[w].name
      BY <1>1, <2>2 DEF Deleted
    <3>2. y = x
      BY <2>1, <3>1 DEF TypeOK, AccessOK, EdgesOf
    <3>3. QED
      BY <3>1, <3>2 DEF EdgesOf
  <2>3. QED
    BY <2>2
<1>2. CASE ~Named(op[w].ent)
  BY <1>2 DEF Deleted
<1>3. QED
  BY <1>1, <1>2

LEMMA EdgeIsTarget ==
  ASSUME NEW w \in Workers, NEW n, Add(Edge(op[w].who, op[w].ent, n)), op'[w] = op[w]
  PROVE  /\ access' \ access \subseteq EdgesOf(access', op[w])
         /\ access \ access' = {}
         /\ EdgesOf(access', op[w]) # {}
<1> DEFINE new == Edge(op[w].who, op[w].ent, n)
<1>1. new.who = op[w].who /\ OnTarget(new, op[w].ent)
  BY DEF Edge, OnTarget
<1>2. access' = access \union {new}
  BY DEF Add
<1>3. new \in EdgesOf(access', op[w])
  BY <1>1, <1>2 DEF EdgesOf
<1>4. QED
  BY <1>2, <1>3

LEMMA ServeOnlyTarget ==
  ASSUME TypeOK, CallInv, NEW w \in Workers, Serve(w)
  PROVE  /\ access' \ access \subseteq
               (IF op[w].kind = "grant" THEN EdgesOf(access', op[w]) ELSE {})
         /\ access \ access' \subseteq
               (IF op[w].kind = "revoke" THEN EdgesOf(access, op[w]) ELSE {})
<1> DEFINE Goal == /\ access' \ access \subseteq
                        (IF op[w].kind = "grant" THEN EdgesOf(access', op[w]) ELSE {})
                   /\ access \ access' \subseteq
                        (IF op[w].kind = "revoke" THEN EdgesOf(access, op[w]) ELSE {})
<1>k. ASSUME access' = access PROVE Goal
  BY <1>k
<1>a. ASSUME NEW n, Add(Edge(op[w].who, op[w].ent, n)), op' = op, op[w].kind = "grant"
      PROVE  Goal
  BY <1>a, EdgeIsTarget
<1>r. ASSUME op[w].kind = "revoke", NEW D \in SUBSET EdgesOf(access, op[w]),
             access' \in {access, access \ D}
      PROVE  Goal
  BY <1>r
<1>g. pc[w] \in {"create", "post"} => op[w].kind = "grant"
  BY DEF CallInv, CallOK, Asks
<1>v. pc[w] \in {"delete", "remove"} => op[w].kind = "revoke"
  BY DEF CallInv, CallOK, Asks
<1> HIDE DEF Goal
<1>1. CASE CreateAssignment(w)
  <2>1. op' = op /\ op[w].kind = "grant"
    BY <1>1, <1>g DEF CreateAssignment
  <2>2. Keep \/ \E n \in FreshNames(op[w].ent) : Add(Edge(op[w].who, op[w].ent, n))
    BY <1>1 DEF CreateAssignment
  <2>3. CASE Keep
    BY <1>k, <2>3 DEF Keep
  <2>4. ASSUME NEW n, Add(Edge(op[w].who, op[w].ent, n)) PROVE Goal
    BY <1>a, <2>1, <2>4
  <2>5. QED
    BY <2>2, <2>3, <2>4 DEF Goal
<1>2. CASE CreateDenied(w)
  BY <1>2, <1>k DEF CreateDenied, Keep
<1>3. CASE CreateLost(w)
  <2>1. op' = op /\ op[w].kind = "grant"
    BY <1>3, <1>g DEF CreateLost
  <2>2. Keep \/ \E n \in FreshNames(op[w].ent) : Add(Edge(op[w].who, op[w].ent, n))
    BY <1>3 DEF CreateLost
  <2>3. CASE Keep
    BY <1>k, <2>3 DEF Keep
  <2>4. ASSUME NEW n, Add(Edge(op[w].who, op[w].ent, n)) PROVE Goal
    BY <1>a, <2>1, <2>4
  <2>5. QED
    BY <2>2, <2>3, <2>4 DEF Goal
<1>4. CASE FindAssignment(w) \/ FindNothing(w)
  BY <1>4, <1>k DEF FindAssignment, FindNothing, Keep
<1>5. CASE DeleteAssignment(w)
  BY <1>5, <1>r, <1>v, DeletableIsTarget DEF DeleteAssignment
<1>6. CASE DeleteFails(w)
  <2>1. pc[w] = "delete" /\ access' \in {access, access \ Deletable(op[w])}
    BY <1>6 DEF DeleteFails
  <2>2. QED
    BY <1>r, <1>v, <2>1, DeletableIsTarget
<1>7. CASE PostEdge(w)
  <2>1. op' = op /\ op[w].kind = "grant"
    BY <1>7, <1>g DEF PostEdge
  <2>2. Keep \/ \E n \in FreshNames(op[w].ent) : Add(Edge(op[w].who, op[w].ent, n))
    BY <1>7 DEF PostEdge
  <2>3. CASE Keep
    BY <1>k, <2>3 DEF Keep
  <2>4. ASSUME NEW n, Add(Edge(op[w].who, op[w].ent, n)) PROVE Goal
    BY <1>a, <2>1, <2>4
  <2>5. QED
    BY <2>2, <2>3, <2>4 DEF Goal
<1>8. CASE PostFails(w)
  <2>1. op' = op /\ op[w].kind = "grant"
    BY <1>8, <1>g DEF PostFails
  <2>2. Keep \/ \E n \in FreshNames(op[w].ent) : Add(Edge(op[w].who, op[w].ent, n))
    BY <1>8 DEF PostFails
  <2>3. CASE Keep
    BY <1>k, <2>3 DEF Keep
  <2>4. ASSUME NEW n, Add(Edge(op[w].who, op[w].ent, n)) PROVE Goal
    BY <1>a, <2>1, <2>4
  <2>5. QED
    BY <2>2, <2>3, <2>4 DEF Goal
<1>9. CASE RemoveEdge(w)
  BY <1>9, <1>r, <1>v, DeletedIsTarget DEF RemoveEdge
<1>10. CASE RemoveFails(w)
  <2>1. pc[w] = "remove" /\ access' \in {access, access \ Deleted(op[w])}
    BY <1>10 DEF RemoveFails
  <2>2. QED
    BY <1>r, <1>v, <2>1, DeletedIsTarget
<1>11. QED
  BY <1>1, <1>2, <1>3, <1>4, <1>5, <1>6, <1>7, <1>8, <1>9, <1>10 DEF Serve, Goal

(* No call adds or removes access that it was not asked about, whatever    *)
(* other workers and administrators do between its lookup and its delete.  *)
THEOREM CallsTouchOnlyTheirTarget == Spec => OnlyTarget
<1>1. TypeOK /\ CallInv /\ [Next]_vars => [OnlyTargetStep]_vars
  BY ServeOnlyTarget DEF OnlyTargetStep
<1>2. QED
  BY CallInvariant, <1>1, PTL DEF Spec, OnlyTarget

-----------------------------------------------------------------------------
(* What a reply means *)

LEMMA TakesTheEdge ==
  ASSUME OneEdge, NEW o, NEW D \in SUBSET EdgesOf(access, o), D # {},
         access' = access \ D
  PROVE  EdgesOf(access', o) = {}
<1>1. \A x, y \in EdgesOf(access, o) : x = y
  BY DEF EdgesOf, OnTarget, OneEdge, SameAccess
<1>2. D = EdgesOf(access, o)
  BY <1>1
<1>3. EdgesOf(access', o) \subseteq EdgesOf(access, o) \ D
  BY DEF EdgesOf
<1>4. QED
  BY <1>2, <1>3

\* The step replies success to worker w's revoke, or to its grant.
RevokedNow(w) == pc[w] # "idle" /\ op[w].kind = "revoke" /\ reply'[w] = "ok"
GrantedNow(w) == pc[w] # "idle" /\ op[w].kind = "grant" /\ reply'[w] = "ok"

LEMMA RevokeReplies ==
  ASSUME TypeOK, CallInv, NEW w \in Workers, Serve(w), RevokedNow(w), pc'[w] = "idle"
  PROVE  EdgesOf(access', op[w]) = {} /\ Observe /\ op' = op
<1>0. OneEdge /\ \A how : Finish(w, how) => reply'[w] = how
  BY DEF CallInv, Finish, TypeOK, CallsOK
<1>1. pc[w] \notin {"create", "post"}
  BY DEF CallInv, CallOK, Asks, RevokedNow
<1>2. ~FindAssignment(w) /\ ~FindNothing(w) /\ ~DeleteFails(w)
  BY <1>0 DEF FindAssignment, FindNothing, DeleteFails, RevokedNow, TypeOK, CallsOK
<1>3. CASE DeleteAssignment(w)
  <2>1. Deletable(op[w]) # {}
    BY <1>0, <1>3 DEF DeleteAssignment, DeleteReply, RevokedNow
  <2>2. access' = access \ Deletable(op[w]) /\ pc[w] = "delete"
    BY <1>3 DEF DeleteAssignment
  <2>3. QED
    BY <1>0, <1>3, <2>1, <2>2, DeletableIsTarget, TakesTheEdge DEF DeleteAssignment
<1>4. CASE RemoveEdge(w)
  <2>1. PICK resp \in DeleteAnswers(op[w]) :
          Finish(w, RevokeReply(op[w].ent, Query(resp, FALSE)))
    BY <1>4 DEF RemoveEdge
  <2>2. RevokeReply(op[w].ent, Query(resp, FALSE)) = "ok"
    BY <1>0, <2>1 DEF RevokedNow
  <2>3. Deleted(op[w]) # {}
    <3>1. SUFFICES ASSUME Deleted(op[w]) = {} PROVE FALSE
      OBVIOUS
    <3>2. Refused(resp)
      BY <3>1 DEF DeleteAnswers, Refused, Response
    <3>3. QED
      BY <2>2, <3>2, QueryRefused DEF RevokeReply
  <2>4. access' = access \ Deleted(op[w]) /\ pc[w] = "remove"
    BY <1>4 DEF RemoveEdge
  <2>5. QED
    BY <1>0, <1>4, <2>3, <2>4, DeletedIsTarget, TakesTheEdge DEF RemoveEdge
<1>5. CASE RemoveFails(w)
  <2>1. PICK resp \in Refusals : Finish(w, RevokeReply(op[w].ent, Query(resp, FALSE)))
    BY <1>0, <1>5 DEF RemoveFails, RevokedNow
  <2>2. RevokeReply(op[w].ent, Query(resp, FALSE)) = "ok"
    BY <1>0, <2>1 DEF RevokedNow
  <2>3. QED
    BY <2>2, QueryRefused, RefusalsRefused DEF RevokeReply
<1>6. QED
  BY <1>1, <1>2, <1>3, <1>4, <1>5
     DEF Serve, CreateAssignment, CreateDenied, CreateLost, PostEdge, PostFails

LEMMA GrantReplies ==
  ASSUME TypeOK, CallInv, NEW w \in Workers, Serve(w),
         GrantedNow(w), pc'[w] = "idle", ~CreateDenied(w)
  PROVE  EdgesOf(access', op[w]) # {} /\ Observe /\ op' = op
<1>0. \A how : Finish(w, how) => reply'[w] = how
  BY DEF Finish, TypeOK, CallsOK
<1>1. pc[w] \in {"create", "post"}
  BY DEF CallInv, CallOK, Asks, GrantedNow, TypeOK, CallsOK
<1>2. ~CreateLost(w)
  BY <1>0 DEF CreateLost, CreateReply, GrantedNow
<1>6. ASSUME PostFails(w) PROVE FALSE
  <2>1. PICK resp \in Refusals : Finish(w, GrantReply(op[w].ent, Query(resp, FALSE)))
    BY <1>0, <1>6 DEF PostFails, GrantedNow
  <2>2. GrantReply(op[w].ent, Query(resp, FALSE)) = "ok"
    BY <1>0, <2>1 DEF GrantedNow
  <2>3. resp.body = "error" /\ Refused(resp)
    BY RefusalsRefused DEF Refusals, Response
  <2>4. QED
    BY <2>2, <2>3, QueryRefused DEF GrantReply
<1>3. CASE CreateAssignment(w)
  <2>1. op' = op /\ Observe
    BY <1>3 DEF CreateAssignment
  <2>2. CASE EdgesOf(access, op[w]) = {}
    <3>1. PICK n \in FreshNames(op[w].ent) : Add(Edge(op[w].who, op[w].ent, n))
      BY <1>3, <2>2 DEF CreateAssignment
    <3>2. QED
      BY <2>1, <3>1, EdgeIsTarget
  <2>3. CASE EdgesOf(access, op[w]) # {}
    BY <1>3, <2>1, <2>3 DEF CreateAssignment, Keep, EdgesOf
  <2>4. QED
    BY <2>2, <2>3
<1>4. CASE PostEdge(w)
  <2>1. op' = op /\ Observe
    BY <1>4 DEF PostEdge
  <2>2. PICK resp \in PostAnswers(op[w]) :
          /\ IF resp.status \in 200 .. 299
               THEN \E n \in FreshNames(op[w].ent) : Add(Edge(op[w].who, op[w].ent, n))
               ELSE Keep
          /\ Finish(w, GrantReply(op[w].ent, Query(resp, FALSE)))
    BY <1>4 DEF PostEdge
  <2>3. CASE resp.status \in 200 .. 299
    <3>1. PICK n \in FreshNames(op[w].ent) : Add(Edge(op[w].who, op[w].ent, n))
      BY <2>2, <2>3
    <3>2. QED
      BY <2>1, <3>1, EdgeIsTarget
  <2>4. CASE resp.status \notin 200 .. 299
    <3>1. GrantReply(op[w].ent, Query(resp, FALSE)) = "ok"
      BY <1>0, <2>2 DEF GrantedNow
    <3>2. /\ Refused(resp)
          /\ resp.body = "exists" => EdgesOf(access, op[w]) # {}
      BY <2>4 DEF PostAnswers, Response, Refused
    <3>3. resp.body = "exists"
      BY <3>1, <3>2, QueryRefused DEF GrantReply
    <3>4. access' = access
      BY <2>2, <2>4 DEF Keep
    <3>5. EdgesOf(access', op[w]) # {}
      BY <3>2, <3>3, <3>4
    <3>6. QED
      BY <2>1, <3>5
  <2>5. QED
    BY <2>3, <2>4
<1>5. QED
  BY <1>1, <1>2, <1>3, <1>4, <1>6
     DEF Serve, FindAssignment, FindNothing, DeleteAssignment, DeleteFails, RemoveEdge, RemoveFails

(* A step serves worker w, gives it a new call, or leaves it alone.        *)
Kept(w) ==
  /\ pc'[w] = pc[w] /\ op'[w] = op[w] /\ reply'[w] = reply[w]
  /\ held[w] => held'[w]
  /\ lacked[w] => lacked'[w]

Begun(w) ==
  /\ reply'[w] # "ok"
  /\ op'[w].kind = "grant" /\ op'[w].who \in Users => reply'[w] # "error"

LEMMA ObserveKeeps ==
  ASSUME TypeOK, Observe, NEW w \in Workers
  PROVE  (held[w] => held'[w]) /\ (lacked[w] => lacked'[w])
BY DEF Observe, TypeOK, CallsOK

LEMMA FinishKeeps ==
  ASSUME TypeOK, NEW v \in Workers, NEW how, Finish(v, how), Observe, op' = op,
         NEW w \in Workers, v # w
  PROVE  Kept(w)
<1>1. pc'[w] = pc[w] /\ reply'[w] = reply[w]
  BY DEF Finish, TypeOK, CallsOK
<1>2. QED
  BY <1>1, ObserveKeeps DEF Kept

LEMMA StepKinds ==
  ASSUME TypeOK, [Next]_vars, NEW w \in Workers
  PROVE  Kept(w) \/ Begun(w) \/ Serve(w)
<1>0. CallsOK
  BY DEF TypeOK
<1>1. ASSUME NEW p \in Principals, NEW e \in Entitlements, AdminAdd(p, e) PROVE Kept(w)
  BY <1>1, ObserveKeeps DEF AdminAdd, Kept
<1>2. ASSUME NEW x \in access, AdminRemove(x) PROVE Kept(w)
  BY <1>2, ObserveKeeps DEF AdminRemove, Kept
<1>b. ASSUME NEW v \in Workers, NEW o, NEW ok, NEW start, Begin(v, o, ok, start), v # w
      PROVE  Kept(w)
  BY <1>0, <1>b DEF Begin, CallsOK, Kept
<1>c. ASSUME NEW o, NEW ok, NEW start, Begin(w, o, ok, start)
      PROVE  op'[w] = o /\ reply'[w] # "ok" /\ (reply'[w] = "error" => ~ok)
  BY <1>0, <1>c DEF Begin, CallsOK
<1>3. ASSUME NEW v \in Workers, NEW p \in Principals, NEW e \in Entitlements,
             BeginGrant(v, p, e)
      PROVE  Kept(w) \/ Begun(w)
  <2> DEFINE o == [kind |-> "grant", who |-> p, ent |-> e, name |-> Ref]
             start == IF e.type \in ArmTypes THEN "create" ELSE "post"
  <2>1. Begin(v, o, p \in Users, start)
    BY <1>3 DEF BeginGrant
  <2>2. CASE v # w
    BY <1>b, <2>1, <2>2
  <2>3. CASE v = w
    <3>1. op'[w] = o /\ reply'[w] # "ok" /\ (reply'[w] = "error" => p \notin Users)
      BY <1>c, <2>1, <2>3
    <3>2. QED
      BY <3>1 DEF Begun
  <2>4. QED
    BY <2>2, <2>3
<1>4. ASSUME NEW v \in Workers, NEW x \in ever, NEW e \in Entitlements,
             BeginRevoke(v, x, e)
      PROVE  Kept(w) \/ Begun(w)
  <2> DEFINE o == [kind |-> "revoke", who |-> x.who, ent |-> e, name |-> x.name]
             start == IF e.type \in ArmTypes THEN "lookup" ELSE "remove"
             ok == x.who \in Users \/ e.type = "enterprise_application"
  <2>1. Begin(v, o, ok, start)
    BY <1>4 DEF BeginRevoke
  <2>2. CASE v # w
    BY <1>b, <2>1, <2>2
  <2>3. CASE v = w
    <3>1. op'[w] = o /\ reply'[w] # "ok"
      BY <1>c, <2>1, <2>3
    <3>2. QED
      BY <3>1 DEF Begun
  <2>4. QED
    BY <2>2, <2>3
<1>5. ASSUME NEW v \in Workers, Serve(v), v # w PROVE Kept(w)
  <2>1. CASE FindAssignment(v)
    BY <1>0, <1>5, <2>1, ObserveKeeps DEF FindAssignment, Kept, CallsOK
  <2>2. CASE ~FindAssignment(v)
    <3>1. Observe /\ op' = op /\ \E how : Finish(v, how)
      BY <1>5, <2>2
         DEF Serve, CreateAssignment, CreateDenied, CreateLost, FindNothing,
             DeleteAssignment, DeleteFails, PostEdge, PostFails, RemoveEdge, RemoveFails
    <3>2. QED
      BY <1>5, <3>1, FinishKeeps
  <2>3. QED
    BY <2>1, <2>2
<1>6. CASE UNCHANGED vars
  BY <1>6 DEF vars, Kept
<1>7. Users \subseteq Principals
  BY DEF Principals
<1>8. QED
  BY <1>1, <1>2, <1>3, <1>4, <1>5, <1>6, <1>7 DEF Next

(* What a served call has observed of its edge when it ends.               *)
LEMMA ServeObserves ==
  ASSUME TypeOK, NEW w \in Workers, pc[w] # "idle", Observe
  PROVE  /\ EdgesOf(access', op[w]) = {} => lacked'[w]
         /\ EdgesOf(access', op[w]) # {} => held'[w]
BY DEF Observe, Running

LEMMA ServeRuns ==
  ASSUME NEW w \in Workers, Serve(w)
  PROVE  pc[w] # "idle"
BY DEF Serve, CreateAssignment, CreateDenied, CreateLost, FindAssignment, FindNothing,
       DeleteAssignment, DeleteFails, PostEdge, PostFails, RemoveEdge, RemoveFails

LEMMA ServeKind ==
  ASSUME TypeOK, NEW w \in Workers, Serve(w)
  PROVE  op'[w].kind = op[w].kind
<1>1. CASE FindAssignment(w)
  <2>1. op[w] \in Op /\ \E x : op'[w] = [op[w] EXCEPT !.name = x]
    BY <1>1 DEF FindAssignment, TypeOK, CallsOK, Running
  <2>2. QED
    BY <2>1 DEF Op
<1>2. CASE ~FindAssignment(w)
  BY <1>2 DEF Serve, CreateAssignment, CreateDenied, CreateLost, FindNothing,
              DeleteAssignment, DeleteFails, PostEdge, PostFails, RemoveEdge, RemoveFails
<1>3. QED
  BY <1>1, <1>2

(* A revoke that reports success left an instant during the call without   *)
(* the access, whatever was lost, refused or granted anew meanwhile.       *)
THEOREM RevokesAreHonest == Spec => []RevokeHonest
<1>1. Init => RevokeHonest
  BY DEF Init, RevokeHonest, Answered
<1>2. ASSUME TypeOK, CallInv, RevokeHonest, [Next]_vars PROVE RevokeHonest'
  <2>1. SUFFICES ASSUME NEW w \in Workers, Answered(w, "revoke", "ok")' PROVE lacked'[w]
    BY DEF RevokeHonest
  <2>2. pc'[w] = "idle" /\ op'[w].kind = "revoke" /\ reply'[w] = "ok"
    BY <2>1 DEF Answered, Running
  <2>3. CASE Kept(w)
    BY <1>2, <2>2, <2>3 DEF Kept, RevokeHonest, Answered, Running
  <2>4. CASE Serve(w)
    <3>1. RevokedNow(w)
      BY <1>2, <2>2, <2>4, ServeRuns, ServeKind DEF RevokedNow
    <3>2. EdgesOf(access', op[w]) = {} /\ Observe
      BY <1>2, <2>2, <2>4, <3>1, RevokeReplies
    <3>3. QED
      BY <1>2, <2>4, <3>2, ServeRuns, ServeObserves
  <2>5. QED
    BY <1>2, <2>2, <2>3, <2>4, StepKinds DEF Begun
<1>3. QED
  BY <1>1, <1>2, CallInvariant, PTL DEF Spec

(* Whatever is lost, refused, repeated or changed by others, a grant that  *)
(* reports success means that the access was there at some instant of the  *)
(* call, but for one case: Azure refused to create the role assignment     *)
(* (role.go:190-204).                                                      *)
THEOREM GrantsAreHonestUnlessRefused == Spec => UnheldOnlyIfRefused
<1>1. ASSUME TypeOK, CallInv, [Next]_vars PROVE [UnheldOnlyIfRefusedStep]_vars
  <2>1. SUFFICES ASSUME NEW w \in Workers, Serve(w), Answered(w, "grant", "ok")',
                        ~CreateDenied(w)
                 PROVE  held'[w]
    BY DEF UnheldOnlyIfRefusedStep
  <2>2. pc'[w] = "idle" /\ op'[w].kind = "grant" /\ reply'[w] = "ok"
    BY <2>1 DEF Answered, Running
  <2>3. GrantedNow(w)
    BY <1>1, <2>1, <2>2, ServeRuns, ServeKind DEF GrantedNow
  <2>4. EdgesOf(access', op[w]) # {} /\ Observe
    BY <1>1, <2>1, <2>2, <2>3, GrantReplies
  <2>5. QED
    BY <1>1, <2>1, <2>4, ServeRuns, ServeObserves
<1>2. QED
  BY <1>1, CallInvariant, PTL DEF Spec, UnheldOnlyIfRefused

(* Granting a user a role that it holds throughout the call fails only if  *)
(* the answer is lost: Create's refusal of a second assignment counts as   *)
(* success.                                                                *)
THEOREM RoleRegrantsSucceed == Spec => []RoleRegrantSucceeds
<1>1. Init => RoleRegrantSucceeds
  BY DEF Init, RoleRegrantSucceeds, Answered
<1>2. ASSUME TypeOK, CallInv, RoleRegrantSucceeds, [Next]_vars PROVE RoleRegrantSucceeds'
  <2>1. SUFFICES ASSUME NEW w \in Workers, op'[w].kind = "grant",
                        op'[w].ent.type \in ArmTypes, op'[w].who \in Users, ~lacked'[w],
                        pc'[w] = "idle", reply'[w] = "error"
                 PROVE  FALSE
    BY DEF RoleRegrantSucceeds, Answered, Running
  <2>2. CASE Kept(w)
    BY <1>2, <2>1, <2>2 DEF Kept, RoleRegrantSucceeds, Answered, Running
  <2>3. CASE Serve(w)
    <3>1. op[w].kind = "grant"
      BY <1>2, <2>1, <2>3, ServeKind
    <3>2. pc[w] \in {"create", "post"}
      BY <1>2, <2>3, <3>1, ServeRuns DEF CallInv, CallOK, Asks, TypeOK, CallsOK
    <3>3. op'[w] = op[w]
      BY <2>3, <3>2
         DEF Serve, CreateAssignment, CreateDenied, CreateLost, FindAssignment, FindNothing,
             DeleteAssignment, DeleteFails, PostEdge, PostFails, RemoveEdge, RemoveFails
    <3>4. pc[w] = "create"
      BY <1>2, <2>1, <3>2, <3>3 DEF CallInv, CallOK, Asks, ArmTypes, GraphTypes
    <3>5. \A how : Finish(w, how) => reply'[w] = how
      BY <1>2 DEF Finish, TypeOK, CallsOK
    <3>6. CreateAssignment(w) \/ CreateDenied(w) \/ CreateLost(w)
      BY <2>3, <3>4
         DEF Serve, FindAssignment, FindNothing, DeleteAssignment, DeleteFails,
             PostEdge, PostFails, RemoveEdge, RemoveFails
    <3>7. reply'[w] \in {"ok", "lost"}
      BY <3>5, <3>6 DEF CreateAssignment, CreateDenied, CreateLost, CreateReply
    <3>8. QED
      BY <2>1, <3>7
  <2>4. QED
    BY <1>2, <2>1, <2>2, <2>3, StepKinds DEF Begun
<1>3. QED
  BY <1>1, <1>2, CallInvariant, PTL DEF Spec
=============================================================================

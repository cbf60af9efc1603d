---------------------------- MODULE Provisioning ----------------------------
(***************************************************************************)
(* Granting and revoking access: the Grant and Revoke of the role, the     *)
(* resource group role assignment, the group and the enterprise            *)
(* application builders (src/pkg/connector), as the SDK's task workers run *)
(* them, several at a time, while administrators change Azure directly.    *)
(*                                                                         *)
(* Azure and Microsoft Graph are external.  Their state is the set of      *)
(* access edges; a request applies its effect and answers, or is refused   *)
(* ("deny"), or its answer is lost with the effect applied or not          *)
(* ("lose").  The Azure SDK's pipeline retries a request up to three times *)
(* and a retry repeats the same assignment name, so a call with retries    *)
(* has the outcomes of one attempt or of a lost one.                       *)
(*                                                                         *)
(* ARM lists the assignments of a scope unfiltered: those at, above and    *)
(* below it (the Filter comments of armauthorization's list options).      *)
(***************************************************************************)
EXTENDS GraphClient, FiniteSets

CONSTANTS
  Workers,       \* the SDK's task goroutines
  Users,
  NonUsers,      \* principals of another resource type
  Entitlements,  \* records [type, slug, object, scope]
  Visible,       \* Visible[s]: the scopes whose assignments a listing of s shows
  Names,         \* identities Azure gives to assignments, never given twice
  Initial,       \* the edges that Azure holds at first
  Faults         \* subset of {"deny", "lose", "admin"}

ArmTypes == {"role", "resource_group_role_assignment"}
GraphTypes == {"group", "enterprise_application"}

(* The resource types of Connector.ResourceSyncers whose builder has Grant *)
(* and Revoke; NewConnector registers no other provisioner.                *)
Provisioners == {"group", "enterprise_application", "role"}

Principals == Users \union NonUsers

\* The name of a relation that has none: a $ref link of Graph.
Ref == "ref"

(* The relation that a builder changes for an entitlement.  The ARM        *)
(* builders read role and scope only: every entitlement of a role, owners  *)
(* too, stands for the assignment of the role itself.                      *)
TargetSlug(e) == IF e.type \in ArmTypes THEN "assigned" ELSE e.slug
OnTarget(x, e) ==
  x.object = e.object /\ x.slug = TargetSlug(e) /\ x.scope = e.scope

(* $ref links have no identity of their own; assignments have.             *)
Named(e) == e.type \in ArmTypes \/ (e.type = "enterprise_application" /\ e.slug # "owners")

(* Azure keeps at most one edge for a principal and a relation.            *)
SameAccess(x, y) ==
  x.who = y.who /\ x.object = y.object /\ x.slug = y.slug /\ x.scope = y.scope

(* An object is of one kind: its id names a role, a group or an            *)
(* application, and the two ARM types both speak of roles.                 *)
SameKind(e, f) == e.type = f.type \/ {e.type, f.type} \subseteq ArmTypes

ASSUME ProvisioningAssumption ==
  /\ Users \intersect NonUsers = {}
  /\ Ref \notin Names
  /\ \A e \in Entitlements : e.type \in ArmTypes \union GraphTypes
  /\ \A e \in Entitlements : e.type \in ArmTypes => e.scope \in Visible[e.scope]
  /\ \A e, f \in Entitlements : e.object = f.object => SameKind(e, f)
  /\ \A x \in Initial : /\ x.who \in Principals
                        /\ \E e \in Entitlements :
                             OnTarget(x, e) /\ x.name \in (IF Named(e) THEN Names ELSE {Ref})
  /\ \A x, y \in Initial : x.name = y.name => x = y \/ x.name = Ref
  /\ \A x, y \in Initial : SameAccess(x, y) => x = y
  /\ Faults \subseteq {"deny", "lose", "admin"}

VARIABLES
  access,    \* the access edges [who, object, slug, scope, name] in Azure
  ever,      \* every edge there has been
  pc,        \* where worker w stands
  op,        \* what w is asked to do, and the name its lookup found
  reply,     \* how w's last call ended: "none", "ok", "unregistered", "lost" for the
             \* error of an answer that did not arrive, "error" for any other
  held,      \* held[w]: the edge of w's call existed at some moment of it
  lacked     \* lacked[w]: it was missing at some moment of it

vars == <<access, ever, pc, op, reply, held, lacked>>

Edge(p, e, n) ==
  [who |-> p, object |-> e.object, slug |-> TargetSlug(e), scope |-> e.scope, name |-> n]

\* The edges in A that the call o is about.
EdgesOf(A, o) == {x \in A : x.who = o.who /\ OnTarget(x, o.ent)}

Unused == Names \ {x.name : x \in ever}

\* uuid.New for a role, Graph's new id for an app role; mutant: a fixed name.
AnyName(e) == IF Named(e) THEN Names ELSE {Ref}
FreshNames(e) == IF Named(e) THEN Unused ELSE {Ref}

(* Bound: an edge is only asked for while a name is left for every grant   *)
(* that runs (Azure's supply does not end).                                *)
Spare(e) ==
  Named(e) => Cardinality({w \in Workers : pc[w] \in {"create", "post"}}) < Cardinality(Unused)

(* A synced grant of edge x is stored under e: the Grants methods report a *)
(* role assignment under every scope whose listing shows it.               *)
ReportedUnder(x, e) ==
  IF e.type \in ArmTypes
    THEN /\ x.object = e.object
         /\ e.slug = "assigned"
         /\ x.slug = "assigned"
         /\ x.scope \in Visible[e.scope]
    ELSE OnTarget(x, e)

NoOp == [kind |-> "none", who |-> "none", ent |-> "none", name |-> Ref]

Running(w) == pc[w] # "idle"

(* Every step keeps, for the calls that run, whether their edge was there  *)
(* and whether it was missing.                                             *)
Observe ==
  /\ held' = [w \in Workers |->
       held[w] \/ (Running(w) /\ EdgesOf(access', op[w]) # {})]
  /\ lacked' = [w \in Workers |->
       lacked[w] \/ (Running(w) /\ EdgesOf(access', op[w]) = {})]

Finish(w, how) ==
  /\ pc' = [pc EXCEPT ![w] = "idle"]
  /\ reply' = [reply EXCEPT ![w] = how]

Add(x) == access' = access \union {x} /\ ever' = ever \union {x}
Keep == UNCHANGED <<access, ever>>

Init ==
  /\ access = Initial
  /\ ever = Initial
  /\ pc = [w \in Workers |-> "idle"]
  /\ op = [w \in Workers |-> NoOp]
  /\ reply = [w \in Workers |-> "none"]
  /\ held = [w \in Workers |-> FALSE]
  /\ lacked = [w \in Workers |-> FALSE]

-----------------------------------------------------------------------------
(* Administrators, who also assign roles at scopes of their own *)

AdminAdd(p, e) ==
  /\ "admin" \in Faults
  /\ Spare(e)
  /\ EdgesOf(access, [who |-> p, ent |-> e]) = {}
  /\ \E n \in FreshNames(e) : Add(Edge(p, e, n))
  /\ Observe
  /\ UNCHANGED <<pc, op, reply>>

AdminRemove(x) ==
  /\ "admin" \in Faults
  /\ x \in access
  /\ access' = access \ {x}
  /\ ever' = ever
  /\ Observe
  /\ UNCHANGED <<pc, op, reply>>

-----------------------------------------------------------------------------
(* A call arrives: through the SDK, which knows Provisioners only, or      *)
(* straight from a test of the builder.                                    *)

Begin(w, o, ok, start) ==
  /\ pc[w] = "idle"
  /\ op' = [op EXCEPT ![w] = o]
  /\ held' = [held EXCEPT ![w] = EdgesOf(access, o) # {}]
  /\ lacked' = [lacked EXCEPT ![w] = EdgesOf(access, o) = {}]
  /\ Keep
  /\ \/ /\ o.ent.type \notin Provisioners
        /\ pc' = pc
        /\ reply' = [reply EXCEPT ![w] = "unregistered"]
     \/ IF ok
          THEN pc' = [pc EXCEPT ![w] = start] /\ reply' = [reply EXCEPT ![w] = "none"]
          ELSE pc' = pc /\ reply' = [reply EXCEPT ![w] = "error"]

(* Grant: the builder checks that the principal is a user.                 *)
BeginGrant(w, p, e) ==
  /\ Spare(e)
  /\ Begin(w, [kind |-> "grant", who |-> p, ent |-> e, name |-> Ref], p \in Users,
           IF e.type \in ArmTypes THEN "create" ELSE "post")

(* Revoke of a synced grant of x.  The enterprise application builder does *)
(* not look at the principal's type; it deletes by the grant's id.         *)
BeginRevoke(w, x, e) ==
  /\ ReportedUnder(x, e)
  /\ Begin(w, [kind |-> "revoke", who |-> x.who, ent |-> e, name |-> x.name],
           x.who \in Users \/ e.type = "enterprise_application",
           IF e.type \in ArmTypes THEN "lookup" ELSE "remove")

-----------------------------------------------------------------------------
(* Azure Resource Manager: role and resource group role assignments *)

(* How Grant replies to the outcome of Create: it drops every              *)
(* azcore.ResponseError, whatever its status.  The mutant returns a 409.   *)
CreateReplyStrict(outcome) ==
  IF outcome = "lost" THEN "lost" ELSE IF outcome = "conflict" THEN "error" ELSE "ok"
CreateReply(outcome) == IF outcome = "lost" THEN "lost" ELSE "ok"

(* RoleAssignmentsClient.Create under a new uuid.  Azure answers 409 when  *)
(* the principal has the role at the scope already.                        *)
CreateAssignment(w) ==
  /\ pc[w] = "create"
  /\ IF EdgesOf(access, op[w]) = {}
       THEN /\ \E n \in FreshNames(op[w].ent) : Add(Edge(op[w].who, op[w].ent, n))
            /\ Finish(w, CreateReply("created"))
       ELSE Keep /\ Finish(w, CreateReply("conflict"))
  /\ Observe
  /\ UNCHANGED op

CreateDenied(w) ==
  /\ pc[w] = "create"
  /\ "deny" \in Faults
  /\ Keep
  /\ Finish(w, CreateReply("denied"))
  /\ Observe
  /\ UNCHANGED op

CreateLost(w) ==
  /\ pc[w] = "create"
  /\ "lose" \in Faults
  /\ \/ Keep
     \/ /\ EdgesOf(access, op[w]) = {}
        /\ \E n \in FreshNames(op[w].ent) : Add(Edge(op[w].who, op[w].ent, n))
  /\ Finish(w, CreateReply("lost"))
  /\ Observe
  /\ UNCHANGED op

(* getAssignmentID: the first assignment of the role to the principal in   *)
(* the listing of the scope.  The listing's order is Azure's.              *)
SameRoleAndPrincipal(x, o) == x.who = o.who /\ x.object = o.ent.object
Listed(o) ==
  {x \in access : /\ x.scope \in Visible[o.ent.scope]
                  /\ x.slug = "assigned"
                  /\ SameRoleAndPrincipal(x, o)}

FindAssignment(w) ==
  /\ pc[w] = "lookup"
  /\ \E x \in Listed(op[w]) : op' = [op EXCEPT ![w].name = x.name]
  /\ pc' = [pc EXCEPT ![w] = "delete"]
  /\ Keep
  /\ Observe
  /\ UNCHANGED reply

FindNothing(w) ==
  /\ pc[w] = "lookup"
  /\ \/ Listed(op[w]) = {} /\ Finish(w, "error")
     \/ "deny" \in Faults /\ Finish(w, "error")
     \/ "lose" \in Faults /\ Finish(w, "lost")
  /\ Keep
  /\ Observe
  /\ UNCHANGED op

(* RoleAssignmentsClient.Delete at the entitlement's scope.  Azure answers *)
(* 200 with the deleted assignment, or 204 and no body when the scope has  *)
(* none of that name; Revoke takes the missing ID for a failure.           *)
DeletableAnywhere(o) == {x \in access : x.name = o.name}   \* mutant: no scope in the URL
Deletable(o) == {x \in access : x.name = o.name /\ x.scope = o.ent.scope}

DeleteReply(o) == IF Deletable(o) # {} THEN "ok" ELSE "error"

DeleteAssignment(w) ==
  /\ pc[w] = "delete"
  /\ access' = access \ Deletable(op[w])
  /\ ever' = ever
  /\ Finish(w, DeleteReply(op[w]))
  /\ Observe
  /\ UNCHANGED op

DeleteFails(w) ==
  /\ pc[w] = "delete"
  /\ \/ "deny" \in Faults /\ access' = access /\ Finish(w, "error")
     \/ /\ "lose" \in Faults
        /\ access' \in {access, access \ Deletable(op[w])}
        /\ Finish(w, "lost")
  /\ ever' = ever
  /\ Observe
  /\ UNCHANGED op

-----------------------------------------------------------------------------
(* Microsoft Graph: groups and enterprise applications *)

\* The request body that Grant hands to query.
GrantBody(e) == IF Named(e) THEN "map" ELSE "reader"

(* Graph's answer to the POST: refused when the body names no principal or *)
(* the edge exists, else the edge is made.  A 204 may state a content type *)
(* or not; a refusal and a created object are JSON.                        *)
PostAnswers(o) ==
  IF ~NamesPrincipal(GrantBody(o.ent)) THEN {Response(400, TRUE, "error")}
  ELSE IF EdgesOf(access, o) # {} THEN {Response(400, TRUE, "exists")}
  ELSE IF Named(o.ent) THEN {Response(201, TRUE, "object")}
  ELSE {Response(204, json, "none") : json \in BOOLEAN}

Refusals == {Response(s, TRUE, "error") : s \in {401, 403, 429, 503}}

(* groupBuilder.Grant takes the "already exist" text for success; the      *)
(* enterprise application builder returns every error.  The mutant takes   *)
(* every error on a group for success.                                     *)
GrantReplyLenient(e, err) == IF err = NoError \/ e.type = "group" THEN "ok" ELSE "error"
GrantReply(e, err) ==
  IF err = NoError \/ (e.type = "group" /\ "exists" \in err) THEN "ok" ELSE "error"

PostEdge(w) ==
  /\ pc[w] = "post"
  /\ \E resp \in PostAnswers(op[w]) :
       /\ IF resp.status \in 200 .. 299
            THEN \E n \in FreshNames(op[w].ent) : Add(Edge(op[w].who, op[w].ent, n))
            ELSE Keep
       /\ Finish(w, GrantReply(op[w].ent, Query(resp, FALSE)))
  /\ Observe
  /\ UNCHANGED op

PostFails(w) ==
  /\ pc[w] = "post"
  /\ \/ /\ "deny" \in Faults
        /\ \E resp \in Refusals : Finish(w, GrantReply(op[w].ent, Query(resp, FALSE)))
        /\ Keep
     \/ /\ "lose" \in Faults
        /\ Finish(w, "lost")
        /\ \/ Keep
           \/ \E resp \in PostAnswers(op[w]) : \E n \in FreshNames(op[w].ent) :
                resp.status \in 200 .. 299 /\ Add(Edge(op[w].who, op[w].ent, n))
  /\ Observe
  /\ UNCHANGED op

(* The edge a DELETE names: group and owner links by object and principal, *)
(* app role assignments by object and id.                                  *)
Deleted(o) ==
  IF Named(o.ent)
    THEN {x \in access : x.object = o.ent.object /\ x.name = o.name}
    ELSE EdgesOf(access, o)

DeleteAnswers(o) ==
  IF Deleted(o) = {} THEN {Response(404, TRUE, "error")}
  ELSE {Response(204, json, "none") : json \in BOOLEAN}

(* groupBuilder.Revoke takes ErrNotFound for success.  The mutant takes    *)
(* every error on a group for success.                                     *)
RevokeReplyLenient(e, err) == IF err = NoError \/ e.type = "group" THEN "ok" ELSE "error"
RevokeReply(e, err) ==
  IF err = NoError \/ (e.type = "group" /\ "ErrNotFound" \in err) THEN "ok" ELSE "error"

RemoveEdge(w) ==
  /\ pc[w] = "remove"
  /\ \E resp \in DeleteAnswers(op[w]) :
       Finish(w, RevokeReply(op[w].ent, Query(resp, FALSE)))
  /\ access' = access \ Deleted(op[w])
  /\ ever' = ever
  /\ Observe
  /\ UNCHANGED op

RemoveFails(w) ==
  /\ pc[w] = "remove"
  /\ \/ /\ "deny" \in Faults
        /\ \E resp \in Refusals : Finish(w, RevokeReply(op[w].ent, Query(resp, FALSE)))
        /\ access' = access
     \/ /\ "lose" \in Faults
        /\ Finish(w, "lost")
        /\ access' \in {access, access \ Deleted(op[w])}
  /\ ever' = ever
  /\ Observe
  /\ UNCHANGED op

-----------------------------------------------------------------------------

Serve(w) ==
  \/ CreateAssignment(w) \/ CreateDenied(w) \/ CreateLost(w)
  \/ FindAssignment(w) \/ FindNothing(w) \/ DeleteAssignment(w) \/ DeleteFails(w)
  \/ PostEdge(w) \/ PostFails(w) \/ RemoveEdge(w) \/ RemoveFails(w)

(* Bound: administrators give access to users only; what other principals  *)
(* have, they have at first.                                               *)
Next ==
  \/ \E p \in Users, e \in Entitlements : AdminAdd(p, e)
  \/ \E x \in access : AdminRemove(x)
  \/ \E w \in Workers, p \in Principals, e \in Entitlements : BeginGrant(w, p, e)
  \/ \E w \in Workers, x \in ever, e \in Entitlements : BeginRevoke(w, x, e)
  \/ \E w \in Workers : Serve(w)

Spec == Init /\ [][Next]_vars

-----------------------------------------------------------------------------
(* Properties *)

Op == [kind : {"grant", "revoke"}, who : Principals, ent : Entitlements,
       name : Names \union {Ref}]

\* Azure's identities are never given twice.
AccessOK ==
  /\ access \subseteq ever
  /\ \A x \in ever : /\ x.who \in Principals
                     /\ x.name \in Names \union {Ref}
                     /\ \E e \in Entitlements :
                          OnTarget(x, e) /\ (x.name = Ref <=> ~Named(e))
  /\ \A x, y \in ever : x.name = y.name => x = y \/ x.name = Ref

CallsOK ==
  /\ pc \in [Workers -> {"idle", "create", "lookup", "delete", "post", "remove"}]
  /\ op \in [Workers -> Op \union {NoOp}]
  /\ \A w \in Workers : Running(w) => op[w] \in Op
  /\ reply \in [Workers -> {"none", "ok", "error", "lost", "unregistered"}]
  /\ held \in [Workers -> BOOLEAN]
  /\ lacked \in [Workers -> BOOLEAN]

(* Types: of Azure's edges, and of the calls of the builders.              *)
TypeOK == AccessOK /\ CallsOK

Answered(w, kind, how) == ~Running(w) /\ op[w].kind = kind /\ reply[w] = how

(* No call touches access it was not asked about: a step of a call adds    *)
(* only its own edge and only for a grant, removes only its own edge and   *)
(* only for a revoke.  The revoke of a role works on an assignment name    *)
(* looked up earlier, while other workers and administrators go on         *)
(* (role.go:249-267, helper.go:743-771).                                   *)
OnlyTargetStep ==
  \A w \in Workers : Serve(w) =>
    /\ access' \ access \subseteq
         (IF op[w].kind = "grant" THEN EdgesOf(access', op[w]) ELSE {})
    /\ access \ access' \subseteq
         (IF op[w].kind = "revoke" THEN EdgesOf(access, op[w]) ELSE {})

OnlyTarget == [][OnlyTargetStep]_vars

(* A revoke that reports success left an instant during the call at which  *)
(* the principal did not have the access, whatever request was lost or     *)
(* refused and whoever else granted it meanwhile (role.go:272,             *)
(* group.go:253-263, enterprise_applications.go:488-493).                  *)
RevokeHonest == \A w \in Workers : Answered(w, "revoke", "ok") => lacked[w]

(* A grant that reports success means that the access was there at some    *)
(* instant of the call: src/test/grant-revoke.sh:21-26 expects to find it  *)
(* after the grant command has succeeded.                                  *)
GrantHonest == \A w \in Workers : Answered(w, "grant", "ok") => held[w]

(* One answer alone breaks that: the refusal of a role assignment's        *)
(* creation (role.go:190-204).  No lost answer, no refused or repeated     *)
(* membership or app role, no call of another worker makes a grant report  *)
(* access that was never there (group.go:213-223,                          *)
(* enterprise_applications.go:441-455, client_graph.go:119-171).           *)
UnheldOnlyIfRefusedStep ==
  \A w \in Workers :
    Serve(w) /\ Answered(w, "grant", "ok")' /\ ~held'[w] => CreateDenied(w)

UnheldOnlyIfRefused == [][UnheldOnlyIfRefusedStep]_vars

(* Granting a user the role it holds throughout the call succeeds unless   *)
(* its answer is lost (role.go:190-204, src/test/grant-revoke.sh:28-29).   *)
RoleRegrantSucceeds ==
  \A w \in Workers :
    /\ op[w].kind = "grant" /\ op[w].ent.type \in ArmTypes /\ op[w].who \in Users
    /\ ~lacked[w]
    => ~Answered(w, "grant", "error")
=============================================================================

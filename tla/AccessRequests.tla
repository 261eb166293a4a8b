---------------------------- MODULE AccessRequests ----------------------------
(***************************************************************************)
(* Temporary cluster grants of auth-service: the rows of                   *)
(* user_cluster_roles, the rows of access_requests that create temporary   *)
(* ones, the admin's and the identity provider's changes to the same rows  *)
(* and the sweeper that reverts what has expired.                          *)
(*                                                                         *)
(* One action is one statement, or one transaction, that Postgres runs at  *)
(* READ COMMITTED.  What a handler read before it wrote is kept in op[p],  *)
(* the record of the HTTP request that process p is serving, so that every *)
(* interleaving of two handlers and the sweeper is a behaviour.            *)
(***************************************************************************)
EXTENDS Naturals, FiniteSets

CONSTANTS
    Users, Clusters,
    Roles,          \* rows of the roles table
    Requestable,    \* ACCESS_REQUESTS roles that stay within the Write ceiling
    Namespaces,     \* a scope is a set of these; {} is the whole cluster
    Admins,         \* users that hold admin.users.update
    Requests,       \* ids that access_requests rows can get
    Procs,          \* HTTP requests served at the same time
    Durations,      \* how long a request may ask for, in clock units
    PendingTTL,     \* how long a request waits for a decision
    SyncRoles,      \* cfg.OIDC.SyncRoles
    HandlersDie,    \* whether a handler may stop half way
    Horizon,        \* bound: requests are filed and grants changed by hand up to here
    MaxVersion,     \* bound: no change by hand once token_version is here
    None

Pairs  == Users \X Clusters
Access == [role : Roles, ns : SUBSET Namespaces]

\* A row of user_cluster_roles.  restore stands for the two columns
\* restore_role_id and restore_namespaces, which are written together.
Grant == [access : Access, expires : Nat \cup {None},
          restore : Access \cup {None}, request : Requests \cup {None}]

Status == {"pending", "approved", "rejected", "cancelled", "expired"}

\* A row of access_requests.
Request == [pair : Pairs, access : Access, dur : Durations, status : Status,
            created : Nat, expires : Nat \cup {None}]

ASSUME TimeAssumption ==
    Durations \subseteq Nat \ {0} /\ PendingTTL \in Nat /\ Horizon \in Nat /\ MaxVersion \in Nat

ASSUME ConfigAssumption == SyncRoles \in BOOLEAN /\ HandlersDie \in BOOLEAN

ASSUME RolesAssumption == Requestable \subseteq Roles

ASSUME ClustersAssumption == IsFiniteSet(Clusters)

ASSUME NoneAssumption ==
    /\ None \notin Nat /\ None \notin Requests /\ None \notin Roles
    /\ None \notin Access /\ None \notin Grant /\ None \notin Request

VARIABLES
    now,      \* the clock of the database
    grant,    \* user_cluster_roles by (user, cluster), None without a row
    req,      \* access_requests by id, None without a row
    tv,       \* auth_users.token_version
    op,       \* the handler each process is in
    base,     \* history: the permanent access last given, None after a revoke
    lost      \* history: pairs whose base an approval failed to remember

vars == <<now, grant, req, tv, op, base, lost>>

Idle == [kind |-> "idle"]

RoleMap == [Clusters -> Roles \cup {None}]

Ops ==
    {Idle}
    \cup [kind : {"asked", "checked"}, pair : Pairs, access : Access, dur : Durations]
    \cup [kind : {"approve"}, request : Requests]
    \cup [kind : {"end"}, pair : Pairs]
    \cup [kind : {"synchave"}, user : Users, want : RoleMap, have : RoleMap]
    \cup [kind : {"sync"}, user : Users, want : RoleMap, have : RoleMap,
          todo : SUBSET Clusters, taken : SUBSET Clusters]

TypeOK ==
    /\ now \in Nat
    /\ grant \in [Pairs -> Grant \cup {None}]
    /\ req \in [Requests -> Request \cup {None}]
    /\ tv \in [Users -> Nat]
    /\ op \in [Procs -> Ops]
    /\ base \in [Pairs -> Access \cup {None}]
    /\ lost \in SUBSET Pairs

-----------------------------------------------------------------------------
(* What the queries see.                                                   *)

IsTemporary(g) == g # None /\ g.expires # None

\* activeGrant: expires_at IS NULL OR expires_at > NOW().
ActiveGrant(pr) == grant[pr] # None /\ (grant[pr].expires # None => grant[pr].expires > now)

\* WHERE expires_at IS NOT NULL AND expires_at <= now.
Expired(pr) == IsTemporary(grant[pr]) /\ grant[pr].expires <= now

Permanent(a) == [access |-> a, expires |-> None, restore |-> None, request |-> None]

\* Mutants of RestoreOf: the role without its namespaces, and the role of the
\* temporary grant instead of what that one would restore.
RestoreRoleOnly(g) == IF g.restore = None THEN g.access.role ELSE g.restore
RestoreCurrent(g) == g.access

\* COALESCE(restore_role_id, role_id), and the namespaces along with it.
RestoreOf(g) == IF g.restore = None THEN g.access ELSE g.restore

\* The active role on each cluster, None without one.
RoleNames(u) == [c \in Clusters |-> IF ActiveGrant(<<u, c>>) THEN grant[<<u, c>>].access.role ELSE None]

\* requestWithinGrant: a scoped grant asks within its own namespaces.
WithinGrant(g, ns) == g.access.ns = {} \/ (ns # {} /\ ns \subseteq g.access.ns)

HasStatus(r, s) == req[r] # None /\ req[r].status = s

HasPending(pr) == \E r \in Requests : HasStatus(r, "pending") /\ req[r].pair = pr

\* Mutant of Locked: the request is read without FOR UPDATE.
NeverLocked(r) == FALSE

\* The row of r is locked by the open transaction of an approval.
Locked(r) == \E p \in Procs : op[p].kind = "approve" /\ op[p].request = r

\* Nobody changes, and nobody decides on, their own access.
AnotherAdmin(u) == \E d \in Admins : d # u

EndTokens(u) == tv' = [tv EXCEPT ![u] = @ + 1]

SetStatus(r, s) == req' = [req EXCEPT ![r].status = s]

Goto(p, o) == op' = [op EXCEPT ![p] = o]

-----------------------------------------------------------------------------
Init ==
    /\ now = 0
    /\ base \in [Pairs -> Access \cup {None}]
    /\ grant = [pr \in Pairs |-> IF base[pr] = None THEN None ELSE Permanent(base[pr])]
    /\ req = [r \in Requests |-> None]
    /\ tv = [u \in Users |-> 0]
    /\ op = [p \in Procs |-> Idle]
    /\ lost = {}

\* Time passes, up to where everything that can expire has expired.
Tick ==
    /\ \/ now < Horizon
       \/ \E pr \in Pairs : IsTemporary(grant[pr]) /\ ~Expired(pr)
       \/ \E r \in Requests : HasStatus(r, "pending") /\ now <= req[r].created + PendingTTL
    /\ now' = now + 1
    /\ UNCHANGED <<grant, req, tv, op, base, lost>>

-----------------------------------------------------------------------------
(* The requester: file (three statements) and cancel.                      *)

\* CreateAccessRequest up to the query of the grant that is to be escalated.
Ask(p, pr, a, d) ==
    /\ op[p] = Idle
    /\ now <= Horizon
    /\ a.role \in Requestable
    /\ ActiveGrant(pr)
    /\ grant[pr].access.role # a.role
    /\ WithinGrant(grant[pr], a.ns)
    /\ Goto(p, [kind |-> "asked", pair |-> pr, access |-> a, dur |-> d])
    /\ UNCHANGED <<now, grant, req, tv, base, lost>>

\* HasPendingAccessRequest: 409 when one is pending, else on to the INSERT.
CheckPending(p) ==
    /\ op[p].kind = "asked"
    /\ Goto(p, IF HasPending(op[p].pair) THEN Idle ELSE [op[p] EXCEPT !.kind = "checked"])
    /\ UNCHANGED <<now, grant, req, tv, base, lost>>

InsertRequest(p) ==
    /\ op[p].kind = "checked"
    /\ \E r \in Requests :
         /\ req[r] = None
         /\ req' = [req EXCEPT ![r] = [pair |-> op[p].pair, access |-> op[p].access, dur |-> op[p].dur,
                                       status |-> "pending", created |-> now, expires |-> None]]
    /\ Goto(p, Idle)
    /\ UNCHANGED <<now, grant, tv, base, lost>>

CancelAccessRequest(r) ==
    /\ HasStatus(r, "pending") /\ ~Locked(r)
    /\ SetStatus(r, "cancelled")
    /\ UNCHANGED <<now, grant, tv, op, base, lost>>

-----------------------------------------------------------------------------
(* The approver.                                                           *)

\* Mutant of RejectAccessRequest: the UPDATE without status = 'pending'.
RejectInAnyStatus(r) ==
    /\ req[r] # None /\ ~Locked(r)
    /\ AnotherAdmin(req[r].pair[1])
    /\ SetStatus(r, "rejected")
    /\ UNCHANGED <<now, grant, tv, op, base, lost>>

RejectAccessRequest(r) ==
    /\ HasStatus(r, "pending") /\ ~Locked(r)
    /\ AnotherAdmin(req[r].pair[1])
    /\ SetStatus(r, "rejected")
    /\ UNCHANGED <<now, grant, tv, op, base, lost>>

\* Mutant of ApplyApproval: the request is not told when its grant expires.
ApplyWithoutExpiry(r, restore) ==
    LET pr == req[r].pair IN
    /\ grant' = [grant EXCEPT ![pr] = [access |-> req[r].access, expires |-> now + req[r].dur,
                                       restore |-> restore, request |-> r]]
    /\ req' = [req EXCEPT ![r].status = "approved"]
    /\ EndTokens(pr[1])

\* The upsert of the grant, the update of the request and of token_version.
ApplyApproval(r, restore) ==
    LET pr == req[r].pair
        until == now + req[r].dur IN
    /\ grant' = [grant EXCEPT ![pr] = [access |-> req[r].access, expires |-> until,
                                       restore |-> restore, request |-> r]]
    /\ req' = [req EXCEPT ![r].status = "approved", ![r].expires = until]
    /\ EndTokens(pr[1])

\* The pair has a row: SELECT ... FOR UPDATE locks it and the rest of the
\* transaction runs undisturbed.
ApproveWithGrant(p, r) ==
    LET pr == req[r].pair IN
    /\ HasStatus(r, "pending") /\ ~Locked(r)
    /\ op[p] = Idle
    /\ AnotherAdmin(pr[1])
    /\ grant[pr] # None
    /\ ApplyApproval(r, RestoreOf(grant[pr]))
    /\ lost' = IF IsTemporary(grant[pr]) /\ grant[pr].restore = None THEN lost \cup {pr} ELSE lost
    /\ UNCHANGED <<now, op, base>>

\* The pair has no row: there is nothing to lock, and another transaction may
\* insert one before this one's upsert.
ApproveFindsNoGrant(p, r) ==
    /\ HasStatus(r, "pending") /\ ~Locked(r)
    /\ op[p] = Idle
    /\ AnotherAdmin(req[r].pair[1])
    /\ grant[req[r].pair] = None
    /\ Goto(p, [kind |-> "approve", request |-> r])
    /\ UNCHANGED <<now, grant, req, tv, base, lost>>

ApproveWithoutGrant(p) ==
    LET r == op[p].request
        pr == req[r].pair IN
    /\ op[p].kind = "approve"
    /\ ApplyApproval(r, None)
    /\ lost' = IF grant[pr] # None THEN lost \cup {pr} ELSE lost
    /\ Goto(p, Idle)
    /\ UNCHANGED <<now, base>>

-----------------------------------------------------------------------------
(* The admin's own grants: one transaction for the row and the tokens,     *)
(* then a second statement for the requests.                               *)

\* Mutant of SetUserClusterRole: the tokens of before go on working.
SetRoleKeepingTokens(p, pr, a) ==
    /\ op[p] = Idle
    /\ now <= Horizon
    /\ AnotherAdmin(pr[1])
    /\ grant' = [grant EXCEPT ![pr] = Permanent(a)]
    /\ base' = [base EXCEPT ![pr] = a]
    /\ lost' = lost \ {pr}
    /\ Goto(p, [kind |-> "end", pair |-> pr])
    /\ UNCHANGED <<now, req, tv>>

SetUserClusterRole(p, pr, a) ==
    /\ op[p] = Idle
    /\ now <= Horizon /\ tv[pr[1]] < MaxVersion
    /\ AnotherAdmin(pr[1])
    /\ grant' = [grant EXCEPT ![pr] = Permanent(a)]
    /\ base' = [base EXCEPT ![pr] = a]
    /\ lost' = lost \ {pr}
    /\ EndTokens(pr[1])
    /\ Goto(p, [kind |-> "end", pair |-> pr])
    /\ UNCHANGED <<now, req>>

DeleteUserClusterRole(p, pr) ==
    /\ op[p] = Idle
    /\ now <= Horizon /\ tv[pr[1]] < MaxVersion
    /\ AnotherAdmin(pr[1])
    /\ grant[pr] # None
    /\ grant' = [grant EXCEPT ![pr] = None]
    /\ base' = [base EXCEPT ![pr] = None]
    /\ lost' = lost \ {pr}
    /\ EndTokens(pr[1])
    /\ Goto(p, [kind |-> "end", pair |-> pr])
    /\ UNCHANGED <<now, req>>

EndApprovedRequests(p) ==
    /\ op[p].kind = "end"
    /\ req' = [r \in Requests |-> IF HasStatus(r, "approved") /\ req[r].pair = op[p].pair
                                  THEN [req[r] EXCEPT !.status = "expired"] ELSE req[r]]
    /\ Goto(p, Idle)
    /\ UNCHANGED <<now, grant, tv, base, lost>>

-----------------------------------------------------------------------------
(* syncClusterGrants at an OIDC sign-in: two queries, one statement per    *)
(* cluster, and the tokens at the end if something was taken away.         *)

SyncReadRoles(p, u, want) ==
    /\ SyncRoles
    /\ op[p] = Idle
    /\ now <= Horizon /\ tv[u] < MaxVersion
    /\ Goto(p, [kind |-> "synchave", user |-> u, want |-> want, have |-> RoleNames(u)])
    /\ UNCHANGED <<now, grant, req, tv, base, lost>>

SyncReadTemporary(p) ==
    LET o == op[p] IN
    /\ o.kind = "synchave"
    /\ LET temporary == {c \in Clusters : ActiveGrant(<<o.user, c>>) /\ grant[<<o.user, c>>].expires # None}
           todo == {c \in Clusters \ temporary : o.have[c] # o.want[c]}
       IN Goto(p, [kind |-> "sync", user |-> o.user, want |-> o.want, have |-> o.have,
                   todo |-> todo, taken |-> {}])
    /\ UNCHANGED <<now, grant, req, tv, base, lost>>

\* SetUserClusterRole (the wanted clusters first) or DeleteUserClusterRole,
\* neither of which ends tokens or closes requests.
SyncWrite(p, c) ==
    LET o == op[p]
        pr == <<o.user, c>>
        a == [role |-> o.want[c], ns |-> {}] IN
    /\ o.kind = "sync"
    /\ c \in o.todo
    /\ \/ /\ o.want[c] # None
          /\ grant' = [grant EXCEPT ![pr] = Permanent(a)]
          /\ base' = [base EXCEPT ![pr] = a]
       \/ /\ \A d \in o.todo : o.want[d] = None
          /\ grant' = [grant EXCEPT ![pr] = None]
          /\ base' = [base EXCEPT ![pr] = None]
    /\ lost' = lost \ {pr}
    /\ Goto(p, [o EXCEPT !.todo = @ \ {c}, !.taken = IF o.have[c] = None THEN @ ELSE @ \cup {c}])
    /\ UNCHANGED <<now, req, tv>>

\* The deferred endTokens, after the last cluster or after a statement that
\* failed with clusters still to do.
SyncDone(p) ==
    /\ op[p].kind = "sync"
    /\ IF op[p].taken # {} THEN EndTokens(op[p].user) ELSE UNCHANGED tv
    /\ Goto(p, Idle)
    /\ UNCHANGED <<now, grant, req, base, lost>>

-----------------------------------------------------------------------------
\* The connection, the request's context or the process goes: what was
\* committed stays, an open transaction rolls back.
HandlerDies(p) ==
    /\ HandlersDie
    /\ op[p] # Idle
    /\ Goto(p, Idle)
    /\ UNCHANGED <<now, grant, req, tv, base, lost>>

-----------------------------------------------------------------------------
(* The sweeper.                                                            *)

\* Mutant of ExpireGrants: an inner join on the role to restore leaves out the
\* grants that have none.
ExpireRestorable(S) ==
    /\ S # {} /\ \A pr \in S : Expired(pr) /\ grant[pr].restore # None
    /\ grant' = [pr \in Pairs |-> IF pr \in S THEN Permanent(grant[pr].restore) ELSE grant[pr]]
    /\ req' = [r \in Requests |-> IF HasStatus(r, "approved") /\ \E pr \in S : grant[pr].request = r
                                  THEN [req[r] EXCEPT !.status = "expired"] ELSE req[r]]
    /\ tv' = [u \in Users |-> tv[u] + Cardinality({c \in Clusters : <<u, c>> \in S})]
    /\ UNCHANGED <<now, op, base, lost>>

\* One transaction over the expired rows, SKIP LOCKED leaving out the ones
\* another transaction holds.
ExpireGrants(S) ==
    /\ S # {} /\ \A pr \in S : Expired(pr)
    /\ grant' = [pr \in Pairs |-> IF pr \notin S THEN grant[pr]
                                  ELSE IF grant[pr].restore = None THEN None
                                  ELSE Permanent(grant[pr].restore)]
    /\ req' = [r \in Requests |-> IF HasStatus(r, "approved") /\ \E pr \in S : grant[pr].request = r
                                  THEN [req[r] EXCEPT !.status = "expired"] ELSE req[r]]
    /\ tv' = [u \in Users |-> tv[u] + Cardinality({c \in Clusters : <<u, c>> \in S})]
    /\ UNCHANGED <<now, op, base, lost>>

\* Mutant of Lapsed: it looks at expires_at, which a pending request lacks.
LapsedByExpiry(r) == HasStatus(r, "pending") /\ req[r].expires # None /\ req[r].expires < now

\* created_at < now - PendingTTL; the statement waits for a locked row.
Lapsed(r) == HasStatus(r, "pending") /\ req[r].created + PendingTTL < now

ExpirePendingRequests ==
    /\ \E r \in Requests : Lapsed(r)
    /\ \A r \in Requests : Lapsed(r) => ~Locked(r)
    /\ req' = [r \in Requests |-> IF Lapsed(r) THEN [req[r] EXCEPT !.status = "expired"] ELSE req[r]]
    /\ UNCHANGED <<now, grant, tv, op, base, lost>>

-----------------------------------------------------------------------------
Handler(p) ==
    \/ \E pr \in Pairs, a \in Access, d \in Durations : Ask(p, pr, a, d)
    \/ CheckPending(p)
    \/ InsertRequest(p)
    \/ \E r \in Requests : ApproveWithGrant(p, r) \/ ApproveFindsNoGrant(p, r)
    \/ ApproveWithoutGrant(p)
    \/ \E pr \in Pairs, a \in Access : SetUserClusterRole(p, pr, a)
    \/ \E pr \in Pairs : DeleteUserClusterRole(p, pr)
    \/ EndApprovedRequests(p)
    \/ \E u \in Users, want \in RoleMap : SyncReadRoles(p, u, want)
    \/ SyncReadTemporary(p)
    \/ \E c \in Clusters : SyncWrite(p, c)
    \/ SyncDone(p)
    \/ HandlerDies(p)

Sweep ==
    \/ \E S \in SUBSET Pairs : ExpireGrants(S)
    \/ ExpirePendingRequests

Next ==
    \/ Tick
    \/ \E p \in Procs : Handler(p)
    \/ \E r \in Requests : CancelAccessRequest(r) \/ RejectAccessRequest(r)
    \/ Sweep

Spec == Init /\ [][Next]_vars

-----------------------------------------------------------------------------
(* Properties.                                                             *)

\* Where the pair stands once everything temporary has run out.
ReturnsTo(pr) == IF IsTemporary(grant[pr]) THEN grant[pr].restore
                 ELSE IF grant[pr] = None THEN None ELSE grant[pr].access

\* Approvals, expiries and their interleavings never change what the user
\* comes back to: the permanent access that an admin or the group sync gave
\* last.  The pairs in lost are the exceptions: an approval over a temporary
\* grant with nothing to restore, and one that found no row to lock and then
\* overwrote a row another transaction had inserted (ApproveAccessRequest).
ReturnsToBase == \A pr \in Pairs \ lost : ReturnsTo(pr) = base[pr]

\* A temporary grant is the one its request asked for, on that user and
\* cluster, with the expiry the request shows, whatever happened to the
\* request since; and a grant without expiry carries no temporary field
\* (ApproveAccessRequest, setClusterRoleSQL, ExpireGrants).
GrantFollowsRequest ==
    \A pr \in Pairs : grant[pr] # None =>
        LET g == grant[pr] IN
        IF g.expires = None THEN g = Permanent(g.access)
        ELSE /\ g.request # None
             /\ req[g.request] # None
             /\ req[g.request].pair = pr
             /\ req[g.request].access = g.access
             /\ req[g.request].expires = g.expires
             /\ req[g.request].status \in {"approved", "expired"}

\* An approval in progress still decides a pending request: no cancel, reject
\* or lapse slips in between its read and its commit (the FOR UPDATE of
\* ApproveAccessRequest).
ApprovalHoldsRequest ==
    \A p \in Procs : op[p].kind = "approve" => HasStatus(op[p].request, "pending")

\* What each request has come to is never revised: a request is decided once,
\* a request is only ever granted from pending, and an ended one stays ended.
\* Sweeper, approver, requester and admin all race for the same row.
DecidedOnce ==
    [][\A r \in Requests : req[r] # None =>
         /\ req'[r] # None
         /\ req[r].status # req'[r].status =>
              \/ req[r].status = "pending"
              \/ req[r].status = "approved" /\ req'[r].status = "expired"
         /\ \A pr \in Pairs :
              (grant'[pr] # None /\ grant'[pr].request = r /\ grant'[pr] # grant[pr])
                => req[r].status = "pending" /\ req'[r].status = "approved"]_vars

\* The change of a cluster grant and the end of the tokens that carry it are
\* one step (SetUserClusterRoleEndingTokens, ApproveAccessRequest,
\* ExpireGrants); only the group sync ends them later.
ChangeEndsTokens ==
    [][~SyncRoles =>
         \A pr \in Pairs : grant[pr] # None /\ grant'[pr] # grant[pr] => tv'[pr[1]] > tv[pr[1]]]_vars

-----------------------------------------------------------------------------
(* Liveness.                                                               *)

\* The sweeper runs on a ticker in every replica and time goes on.  A handler
\* runs its next statement or dies with its connection: the rest of an approval,
\* and after an admin's change the end of the requests behind the grant.  The UPDATE that lapses
\* requests waits in the queue of a locked row, so approvals that come and go
\* do not keep it out for ever: strong fairness.
Fairness ==
    /\ WF_vars(Tick)
    /\ WF_vars(\E S \in SUBSET Pairs : ExpireGrants(S))
    /\ SF_vars(ExpirePendingRequests)
    /\ \A p \in Procs :
         /\ WF_vars(ApproveWithoutGrant(p) \/ (op[p].kind = "approve" /\ HandlerDies(p)))
         /\ WF_vars(EndApprovedRequests(p) \/ (op[p].kind = "end" /\ HandlerDies(p)))

FairSpec == Spec /\ Fairness

\* No request waits for ever: it is decided, withdrawn, or the sweeper lapses
\* it (PendingTTL), even while approvals hold row locks.
PendingEnds ==
    \A r \in Requests : HasStatus(r, "pending") ~> ~HasStatus(r, "pending")

\* A temporary grant does not outlive its time for good: the row goes back.
TemporaryEnds ==
    \A pr \in Pairs : IsTemporary(grant[pr]) ~> ~IsTemporary(grant[pr])

\* A request that was approved is closed some time after its grant ran out.
ApprovedEnds ==
    \A r \in Requests : HasStatus(r, "approved") ~> ~HasStatus(r, "approved")

\* After a revoke, an approval is temporary: nothing stays behind it.
NothingAfterRevoke == \A pr \in Pairs : base[pr] = None => ReturnsTo(pr) = None
===============================================================================

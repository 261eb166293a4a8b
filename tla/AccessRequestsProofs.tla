------------------------- MODULE AccessRequestsProofs -------------------------
(***************************************************************************)
(* Theorems about AccessRequests for every set of users, clusters, roles,  *)
(* requests and concurrent handlers.                                       *)
(***************************************************************************)
EXTENDS AccessRequests, FiniteSetTheorems, TLAPS

\* One approval at a time has the row of a request locked.
LockIsExclusive ==
    \A p, q \in Procs :
        op[p].kind = "approve" /\ op[q].kind = "approve" /\ op[p].request = op[q].request => p = q

\* The inductive invariant.
IInv ==
    /\ TypeOK
    /\ ReturnsToBase
    /\ GrantFollowsRequest
    /\ ApprovalHoldsRequest
    /\ LockIsExclusive

-----------------------------------------------------------------------------
(* Facts about the operators of the module.                                *)

\* The columns of a permanent row.
LEMMA PermanentType ==
    ASSUME NEW a \in Access
    PROVE  Permanent(a) \in Grant /\ Permanent(a) # None /\ Permanent(a).expires = None
           /\ Permanent(a).access = a /\ Permanent(a).restore = None /\ Permanent(a).request = None
BY NoneAssumption DEF Permanent, Grant

\* A record of an approval in progress names a request.
LEMMA ApproveOpType ==
    ASSUME NEW o \in Ops, o.kind = "approve"
    PROVE  o.request \in Requests /\ o # Idle
BY DEF Ops, Idle

\* A handler that files a request carries what is asked for.
LEMMA CreateOpType ==
    ASSUME NEW o \in Ops, o.kind = "asked" \/ o.kind = "checked"
    PROVE  /\ o.pair \in Pairs /\ o.access \in Access /\ o.dur \in Durations
           /\ [o EXCEPT !.kind = "checked"] \in Ops
           /\ [o EXCEPT !.kind = "checked"].kind = "checked"
BY DEF Ops, Idle

\* A handler that is to close requests names a user and a cluster.
LEMMA EndOpType ==
    ASSUME NEW o \in Ops, o.kind = "end"
    PROVE  o.pair \in Pairs
BY DEF Ops, Idle

\* A group sync carries the wanted and the present roles.
LEMMA SyncOpType ==
    ASSUME NEW o \in Ops, o.kind = "synchave" \/ o.kind = "sync"
    PROVE  o.user \in Users /\ o.want \in RoleMap /\ o.have \in RoleMap
BY DEF Ops, Idle

\* A group sync stays one when it crosses a cluster off its list.
LEMMA SyncTodoType ==
    ASSUME NEW o \in Ops, o.kind = "sync"
    PROVE  /\ o.todo \in SUBSET Clusters /\ o.taken \in SUBSET Clusters
           /\ \A T, L \in SUBSET Clusters :
                [o EXCEPT !.todo = T, !.taken = L] \in Ops /\ [o EXCEPT !.todo = T, !.taken = L].kind = "sync"
<1> DEFINE SyncOps == [kind : {"sync"}, user : Users, want : RoleMap, have : RoleMap,
                       todo : SUBSET Clusters, taken : SUBSET Clusters]
<1>1. o \in SyncOps
  BY DEF Ops, Idle
<1>2. ASSUME NEW T \in SUBSET Clusters, NEW L \in SUBSET Clusters
      PROVE  [o EXCEPT !.todo = T, !.taken = L] \in SyncOps
  BY <1>1
<1>3. \A s \in SyncOps : s \in Ops /\ s.kind = "sync"
  BY DEF Ops
<1> QED
  BY <1>1, <1>2, <1>3

\* Setting the status, and the expiry, of a row keeps it a row.
LEMMA RequestStatusType ==
    ASSUME NEW q \in Request, NEW s \in Status
    PROVE  /\ [q EXCEPT !.status = s] \in Request /\ [q EXCEPT !.status = s] # None
           /\ [q EXCEPT !.status = s].status = s
           /\ [q EXCEPT !.status = s].pair = q.pair /\ [q EXCEPT !.status = s].access = q.access
           /\ [q EXCEPT !.status = s].expires = q.expires
BY NoneAssumption DEF Request

\* The row of access_requests that an approval writes.
LEMMA ApprovedRowType ==
    ASSUME NEW q \in Request, NEW t \in Nat
    PROVE  LET w == [q EXCEPT !.status = "approved", !.expires = t] IN
           /\ w \in Request /\ w # None /\ w.status = "approved" /\ w.expires = t
           /\ w.pair = q.pair /\ w.access = q.access
BY NoneAssumption DEF Request, Status

\* Closing a row keeps it a row.
LEMMA ClosedType ==
    ASSUME NEW q \in Request
    PROVE  [q EXCEPT !.status = "expired"] \in Request
BY RequestStatusType DEF Status

-----------------------------------------------------------------------------
(* Type correctness.                                                       *)

\* The initial states have the types.
LEMMA InitType == Init => TypeOK
<1> SUFFICES ASSUME Init PROVE TypeOK
  OBVIOUS
<1>1. \A pr \in Pairs : grant[pr] \in Grant \cup {None}
  BY PermanentType DEF Init
<1>2. Idle \in Ops
  BY DEF Ops
<1> QED
  BY <1>1, <1>2 DEF Init, TypeOK

\* The upsert of an approval keeps the types.
LEMMA ApplyApprovalType ==
    ASSUME TypeOK, NEW r \in Requests, req[r] # None, NEW restore \in Access \cup {None},
           ApplyApproval(r, restore)
    PROVE  /\ grant' \in [Pairs -> Grant \cup {None}]
           /\ req' \in [Requests -> Request \cup {None}]
           /\ tv' \in [Users -> Nat]
           /\ req[r].pair \in Pairs /\ req[r].access \in Access /\ now + req[r].dur \in Nat
           /\ [access |-> req[r].access, expires |-> now + req[r].dur, restore |-> restore, request |-> r] \in Grant
<1>1. req[r] \in Request
  BY DEF TypeOK
<1>2. req[r].pair \in Pairs /\ req[r].access \in Access /\ now + req[r].dur \in Nat
  <2>1. req[r].pair \in Pairs /\ req[r].access \in Access /\ req[r].dur \in Durations
    BY <1>1 DEF Request
  <2>2. \A d \in Durations : d \in Nat
    BY TimeAssumption
  <2>3. now \in Nat
    BY DEF TypeOK
  <2> QED
    BY <2>1, <2>2, <2>3
<1>3. [access |-> req[r].access, expires |-> now + req[r].dur, restore |-> restore, request |-> r] \in Grant
  BY <1>2 DEF Grant
<1>4. [req[r] EXCEPT !.status = "approved", !.expires = now + req[r].dur] \in Request
  BY <1>1, <1>2, ApprovedRowType
<1>5. req' \in [Requests -> Request \cup {None}]
  BY <1>4 DEF ApplyApproval, TypeOK
<1>6. tv' \in [Users -> Nat]
  BY <1>2 DEF ApplyApproval, EndTokens, TypeOK, Pairs
<1> QED
  BY <1>2, <1>3, <1>5, <1>6 DEF ApplyApproval, TypeOK


\* A sweep keeps the types; the number of rows of one user is a number.
LEMMA ExpireGrantsType ==
    ASSUME TypeOK, NEW S \in SUBSET Pairs, ExpireGrants(S)
    PROVE  TypeOK'
<1>1. ASSUME NEW u \in Users
      PROVE  Cardinality({c \in Clusters : <<u, c>> \in S}) \in Nat
  BY ClustersAssumption, FS_Subset, FS_CardinalityType
<1>2. tv' \in [Users -> Nat]
  BY <1>1 DEF ExpireGrants, TypeOK
<1>3. ASSUME NEW pr \in Pairs
      PROVE  grant'[pr] \in Grant \cup {None}
  <2>1. CASE pr \notin S
    BY <2>1 DEF ExpireGrants, TypeOK
  <2>2. CASE pr \in S
    <3>1. grant[pr] \in Grant
      BY <2>2 DEF ExpireGrants, Expired, IsTemporary, TypeOK
    <3>2. grant[pr].restore # None => grant[pr].restore \in Access
      BY <3>1 DEF Grant
    <3> QED
      BY <2>2, <3>2, PermanentType DEF ExpireGrants, TypeOK
  <2> QED
    BY <2>1, <2>2
<1>4. ASSUME NEW r \in Requests
      PROVE  req'[r] \in Request \cup {None}
  <2>1. req'[r] = req[r] \/ (req[r] # None /\ req'[r] = [req[r] EXCEPT !.status = "expired"])
    BY DEF ExpireGrants, HasStatus
  <2>2. req[r] \in Request \cup {None}
    BY DEF TypeOK
  <2> QED
    BY <2>1, <2>2, ClosedType
<1> QED
  BY <1>2, <1>3, <1>4 DEF ExpireGrants, TypeOK

\* The role names of the active grants.
LEMMA RoleNamesType ==
    ASSUME TypeOK, NEW u \in Users
    PROVE  RoleNames(u) \in RoleMap
<1>1. ASSUME NEW c \in Clusters, ActiveGrant(<<u, c>>)
      PROVE  grant[<<u, c>>].access.role \in Roles
  <2>1. <<u, c>> \in Pairs
    BY DEF Pairs
  <2>2. grant[<<u, c>>] \in Grant
    BY <2>1, <1>1 DEF TypeOK, ActiveGrant
  <2> QED
    BY <2>2 DEF Grant, Access
<1> QED
  BY <1>1 DEF RoleNames, RoleMap

\* One statement of the group sync.
LEMMA SyncWriteType ==
    ASSUME TypeOK, NEW p \in Procs, NEW c \in Clusters, SyncWrite(p, c)
    PROVE  TypeOK' /\ op'[p].kind = "sync"
<1> DEFINE o == op[p]  pr == <<o.user, c>>  a == [role |-> o.want[c], ns |-> {}]
<1>1. o \in Ops /\ o.kind = "sync"
  BY DEF SyncWrite, TypeOK
<1>2. o.user \in Users /\ o.want \in RoleMap /\ o.have \in RoleMap /\ o.todo \in SUBSET Clusters /\ o.taken \in SUBSET Clusters
  BY <1>1, SyncOpType, SyncTodoType
<1>3. pr \in Pairs
  BY <1>2 DEF Pairs
<1>4. o.want[c] # None => a \in Access
  BY <1>2 DEF RoleMap, Access
<1>5. grant' \in [Pairs -> Grant \cup {None}] /\ base' \in [Pairs -> Access \cup {None}]
  <2>1. CASE o.want[c] # None /\ grant' = [grant EXCEPT ![pr] = Permanent(a)] /\ base' = [base EXCEPT ![pr] = a]
    BY <2>1, <1>3, <1>4, PermanentType DEF TypeOK
  <2>2. CASE grant' = [grant EXCEPT ![pr] = None] /\ base' = [base EXCEPT ![pr] = None]
    BY <2>2, <1>3 DEF TypeOK
  <2> QED
    BY <2>1, <2>2 DEF SyncWrite
<1> DEFINE L == IF o.have[c] = None THEN o.taken ELSE o.taken \cup {c}
<1>6. L \in SUBSET Clusters /\ (o.todo \ {c}) \in SUBSET Clusters
  BY <1>2
<1>7. op' = [op EXCEPT ![p] = [o EXCEPT !.todo = o.todo \ {c}, !.taken = L]]
  BY DEF SyncWrite, Goto
<1>8. op' \in [Procs -> Ops] /\ op'[p].kind = "sync"
  <2> HIDE DEF L
  <2> QED
    BY <1>1, <1>6, <1>7, SyncTodoType DEF TypeOK
<1> QED
  BY <1>5, <1>8 DEF SyncWrite, TypeOK


\* SetStatus on a row that exists.
LEMMA SetStatusType ==
    ASSUME TypeOK, NEW r \in Requests, NEW s \in Status, req[r] # None, SetStatus(r, s)
    PROVE  req' \in [Requests -> Request \cup {None}]
<1>1. req[r] \in Request
  BY DEF TypeOK
<1> QED
  BY <1>1, RequestStatusType DEF SetStatus, TypeOK

\* A change of one user's token_version.
LEMMA EndTokensType ==
    ASSUME TypeOK, NEW u \in Users, EndTokens(u)
    PROVE  tv' \in [Users -> Nat]
BY DEF EndTokens, TypeOK

\* The first part of a pair is its user.
LEMMA PairUser == ASSUME NEW pr \in Pairs PROVE pr[1] \in Users
BY DEF Pairs

\* A process that goes on to another point of its handler.
LEMMA GotoType ==
    ASSUME TypeOK, NEW p \in Procs, NEW o \in Ops, Goto(p, o)
    PROVE  op' \in [Procs -> Ops] /\ op'[p] = o /\ \A q \in Procs \ {p} : op'[q] = op[q]
BY DEF Goto, TypeOK

\* Every step keeps the types.  The row an approval has locked must exist, so
\* the invariant on approvals in progress is needed as well.
LEMMA NextType == TypeOK /\ ApprovalHoldsRequest /\ [Next]_vars => TypeOK'
<1> SUFFICES ASSUME TypeOK, ApprovalHoldsRequest, [Next]_vars PROVE TypeOK'
  OBVIOUS
<1>idle. Idle \in Ops
  BY DEF Ops
<1>1. CASE Tick
  BY <1>1 DEF Tick, TypeOK
<1>2. ASSUME NEW p \in Procs, NEW pr \in Pairs, NEW a \in Access, NEW d \in Durations, Ask(p, pr, a, d)
      PROVE  TypeOK'
  <2>1. [kind |-> "asked", pair |-> pr, access |-> a, dur |-> d] \in Ops
    BY DEF Ops
  <2> QED
    BY <1>2, <2>1, GotoType DEF Ask, TypeOK
<1>3. ASSUME NEW p \in Procs, CheckPending(p)
      PROVE  TypeOK'
  <2>1. op[p] \in Ops
    BY DEF TypeOK
  <2>2. (IF HasPending(op[p].pair) THEN Idle ELSE [op[p] EXCEPT !.kind = "checked"]) \in Ops
    BY <1>3, <1>idle, <2>1, CreateOpType DEF CheckPending
  <2> QED
    BY <1>3, <2>2, GotoType DEF CheckPending, TypeOK
<1>4. ASSUME NEW p \in Procs, InsertRequest(p)
      PROVE  TypeOK'
  <2>1. op[p] \in Ops /\ now \in Nat
    BY DEF TypeOK
  <2>2. [pair |-> op[p].pair, access |-> op[p].access, dur |-> op[p].dur,
         status |-> "pending", created |-> now, expires |-> None] \in Request
    BY <1>4, <2>1, CreateOpType DEF InsertRequest, Request, Status
  <2>3. req' \in [Requests -> Request \cup {None}]
    BY <1>4, <2>2 DEF InsertRequest, TypeOK
  <2> QED
    BY <1>4, <1>idle, <2>3, GotoType DEF InsertRequest, TypeOK
<1>5. ASSUME NEW r \in Requests, CancelAccessRequest(r) \/ RejectAccessRequest(r)
      PROVE  TypeOK'
  <2>1. req' \in [Requests -> Request \cup {None}]
    BY <1>5, SetStatusType DEF CancelAccessRequest, RejectAccessRequest, HasStatus, Status
  <2> QED
    BY <1>5, <2>1 DEF CancelAccessRequest, RejectAccessRequest, TypeOK
<1>6. ASSUME NEW p \in Procs, NEW r \in Requests, ApproveWithGrant(p, r)
      PROVE  TypeOK'
  <2>1. req[r] \in Request /\ req[r] # None
    BY <1>6 DEF ApproveWithGrant, HasStatus, TypeOK
  <2>2. req[r].pair \in Pairs
    BY <2>1 DEF Request
  <2>3. grant[req[r].pair] \in Grant
    BY <1>6, <2>2 DEF ApproveWithGrant, TypeOK
  <2>4. RestoreOf(grant[req[r].pair]) \in Access
    BY <2>3 DEF RestoreOf, Grant
  <2>5. /\ grant' \in [Pairs -> Grant \cup {None}]
        /\ req' \in [Requests -> Request \cup {None}] /\ tv' \in [Users -> Nat]
    BY <1>6, <2>1, <2>4, ApplyApprovalType DEF ApproveWithGrant
  <2> QED
    BY <1>6, <2>2, <2>5 DEF ApproveWithGrant, TypeOK
<1>7. ASSUME NEW p \in Procs, NEW r \in Requests, ApproveFindsNoGrant(p, r)
      PROVE  TypeOK'
  <2>1. [kind |-> "approve", request |-> r] \in Ops
    BY DEF Ops
  <2> QED
    BY <1>7, <2>1, GotoType DEF ApproveFindsNoGrant, TypeOK
<1>8. ASSUME NEW p \in Procs, ApproveWithoutGrant(p)
      PROVE  TypeOK'
  <2> DEFINE r == op[p].request
  <2>1. op[p] \in Ops /\ op[p].kind = "approve"
    BY <1>8 DEF ApproveWithoutGrant, TypeOK
  <2>2. r \in Requests
    BY <2>1, ApproveOpType
  <2>3. req[r] \in Request /\ req[r] # None
    BY <2>1, <2>2 DEF ApprovalHoldsRequest, HasStatus, TypeOK
  <2>4. req[r].pair \in Pairs
    BY <2>3 DEF Request
  <2>5. /\ grant' \in [Pairs -> Grant \cup {None}]
        /\ req' \in [Requests -> Request \cup {None}] /\ tv' \in [Users -> Nat]
    BY <1>8, <2>2, <2>3, ApplyApprovalType DEF ApproveWithoutGrant
  <2> QED
    BY <1>8, <1>idle, <2>4, <2>5, GotoType DEF ApproveWithoutGrant, TypeOK
<1>9. ASSUME NEW p \in Procs, NEW pr \in Pairs, NEW a \in Access, SetUserClusterRole(p, pr, a)
      PROVE  TypeOK'
  <2>1. [kind |-> "end", pair |-> pr] \in Ops
    BY DEF Ops
  <2>2. tv' \in [Users -> Nat]
    BY <1>9, PairUser, EndTokensType DEF SetUserClusterRole
  <2>3. grant' \in [Pairs -> Grant \cup {None}] /\ base' \in [Pairs -> Access \cup {None}]
    BY <1>9, PermanentType DEF SetUserClusterRole, TypeOK
  <2> QED
    BY <1>9, <2>1, <2>2, <2>3, GotoType DEF SetUserClusterRole, TypeOK
<1>10. ASSUME NEW p \in Procs, NEW pr \in Pairs, DeleteUserClusterRole(p, pr)
       PROVE  TypeOK'
  <2>1. [kind |-> "end", pair |-> pr] \in Ops
    BY DEF Ops
  <2>2. tv' \in [Users -> Nat]
    BY <1>10, PairUser, EndTokensType DEF DeleteUserClusterRole
  <2> QED
    BY <1>10, <2>1, <2>2, GotoType DEF DeleteUserClusterRole, TypeOK
<1>11. ASSUME NEW p \in Procs, EndApprovedRequests(p)
       PROVE  TypeOK'
  <2>1. ASSUME NEW r \in Requests
        PROVE  req'[r] \in Request \cup {None}
    <3>1. req'[r] = req[r] \/ (req[r] # None /\ req'[r] = [req[r] EXCEPT !.status = "expired"])
      BY <1>11 DEF EndApprovedRequests, HasStatus
    <3> QED
      BY <3>1, ClosedType DEF TypeOK
  <2>2. req' \in [Requests -> Request \cup {None}]
    BY <1>11, <2>1 DEF EndApprovedRequests
  <2> QED
    BY <1>11, <1>idle, <2>2, GotoType DEF EndApprovedRequests, TypeOK
<1>12. ASSUME NEW p \in Procs, NEW u \in Users, NEW want \in RoleMap, SyncReadRoles(p, u, want)
       PROVE  TypeOK'
  <2>1. [kind |-> "synchave", user |-> u, want |-> want, have |-> RoleNames(u)] \in Ops
    BY RoleNamesType DEF Ops
  <2> QED
    BY <1>12, <2>1, GotoType DEF SyncReadRoles, TypeOK
<1>13. ASSUME NEW p \in Procs, SyncReadTemporary(p)
       PROVE  TypeOK'
  <2>1. op[p] \in Ops /\ op[p].kind = "synchave"
    BY <1>13 DEF SyncReadTemporary, TypeOK
  <2>2. op[p].user \in Users /\ op[p].want \in RoleMap /\ op[p].have \in RoleMap
    BY <2>1, SyncOpType
  <2>3. \A T \in SUBSET Clusters :
          [kind |-> "sync", user |-> op[p].user, want |-> op[p].want, have |-> op[p].have,
           todo |-> T, taken |-> {}] \in Ops
    BY <2>2 DEF Ops
  <2>4. \E T \in SUBSET Clusters :
          Goto(p, [kind |-> "sync", user |-> op[p].user, want |-> op[p].want, have |-> op[p].have,
                   todo |-> T, taken |-> {}])
    BY <1>13 DEF SyncReadTemporary
  <2> QED
    BY <1>13, <2>3, <2>4, GotoType DEF SyncReadTemporary, TypeOK
<1>14. ASSUME NEW p \in Procs, NEW c \in Clusters, SyncWrite(p, c)
       PROVE  TypeOK'
  BY <1>14, SyncWriteType
<1>15. ASSUME NEW p \in Procs, SyncDone(p)
       PROVE  TypeOK'
  <2>1. op[p] \in Ops /\ op[p].kind = "sync"
    BY <1>15 DEF SyncDone, TypeOK
  <2>2. tv' \in [Users -> Nat]
    BY <1>15, <2>1, SyncOpType, EndTokensType DEF SyncDone, TypeOK
  <2> QED
    BY <1>15, <1>idle, <2>2, GotoType DEF SyncDone, TypeOK
<1>16. ASSUME NEW p \in Procs, HandlerDies(p)
       PROVE  TypeOK'
  BY <1>16, <1>idle, GotoType DEF HandlerDies, TypeOK
<1>17. ASSUME NEW S \in SUBSET Pairs, ExpireGrants(S)
       PROVE  TypeOK'
  BY <1>17, ExpireGrantsType
<1>18. CASE ExpirePendingRequests
  <2>1. ASSUME NEW r \in Requests
        PROVE  req'[r] \in Request \cup {None}
    <3>1. req'[r] = req[r] \/ (req[r] # None /\ req'[r] = [req[r] EXCEPT !.status = "expired"])
      BY <1>18 DEF ExpirePendingRequests, Lapsed, HasStatus
    <3> QED
      BY <3>1, ClosedType DEF TypeOK
  <2>2. req' \in [Requests -> Request \cup {None}]
    BY <1>18, <2>1 DEF ExpirePendingRequests
  <2> QED
    BY <1>18, <2>2 DEF ExpirePendingRequests, TypeOK
<1>19. CASE UNCHANGED vars
  BY <1>19 DEF vars, TypeOK
<1> QED
  BY <1>1, <1>2, <1>3, <1>4, <1>5, <1>6, <1>7, <1>8, <1>9, <1>10, <1>11, <1>12, <1>13, <1>14,
     <1>15, <1>16, <1>17, <1>18, <1>19
     DEF Next, Handler, Sweep

-----------------------------------------------------------------------------
(* What the user comes back to.                                            *)

\* The row an approval writes, and what it remembers.
LEMMA ApprovedGrant ==
    ASSUME TypeOK, NEW r \in Requests, req[r] # None, NEW restore \in Access \cup {None},
           ApplyApproval(r, restore), NEW pr \in Pairs
    PROVE  IF pr = req[r].pair
           THEN /\ grant'[pr] = [access |-> req[r].access, expires |-> now + req[r].dur,
                                 restore |-> restore, request |-> r]
                /\ grant'[pr] # None /\ grant'[pr].expires # None
                /\ grant'[pr].restore = restore /\ grant'[pr].access = req[r].access
                /\ grant'[pr].expires = now + req[r].dur /\ grant'[pr].request = r
           ELSE grant'[pr] = grant[pr]
<1> DEFINE g == [access |-> req[r].access, expires |-> now + req[r].dur, restore |-> restore, request |-> r]
<1>1. g \in Grant /\ now + req[r].dur \in Nat
  BY ApplyApprovalType
<1>2. grant'[pr] = IF pr = req[r].pair THEN g ELSE grant[pr]
  BY DEF ApplyApproval, TypeOK
<1>3. g # None /\ g.expires # None
  BY <1>1, NoneAssumption
<1> QED
  BY <1>2, <1>3

\* A row without expiry has nothing to restore.
LEMMA PermanentRow ==
    ASSUME GrantFollowsRequest, NEW pr \in Pairs, grant[pr] # None, ~IsTemporary(grant[pr])
    PROVE  grant[pr].restore = None
<1>1. grant[pr] = Permanent(grant[pr].access)
  BY DEF GrantFollowsRequest, IsTemporary
<1> QED
  BY <1>1 DEF Permanent

\* Every step keeps what a user comes back to.
LEMMA NextReturnsToBase == IInv /\ [Next]_vars => ReturnsToBase'
<1> SUFFICES ASSUME TypeOK, ApprovalHoldsRequest, GrantFollowsRequest, ReturnsToBase, [Next]_vars,
                    NEW pr \in Pairs, pr \notin lost'
             PROVE  ReturnsTo(pr)' = base'[pr]
  BY DEF ReturnsToBase, IInv
<1>1. CASE UNCHANGED <<grant, base, lost>>
  BY <1>1 DEF ReturnsToBase, ReturnsTo, IsTemporary
<1>2. ASSUME NEW p \in Procs, NEW r \in Requests, ApproveWithGrant(p, r)
      PROVE  ReturnsTo(pr)' = base'[pr]
  <2>1. req[r] \in Request /\ req[r] # None
    BY <1>2 DEF ApproveWithGrant, HasStatus, TypeOK
  <2>a. req[r].pair \in Pairs
    BY <2>1 DEF Request
  <2>2. grant[req[r].pair] \in Grant /\ grant[req[r].pair] # None
    BY <1>2, <2>a DEF ApproveWithGrant, TypeOK
  <2>3. RestoreOf(grant[req[r].pair]) \in Access
    BY <2>2 DEF RestoreOf, Grant
  <2>4. pr \notin lost /\ base' = base
    BY <1>2 DEF ApproveWithGrant
  <2>b. ApplyApproval(r, RestoreOf(grant[req[r].pair]))
    BY <1>2 DEF ApproveWithGrant
  <2>5. CASE pr = req[r].pair
    <3>1. ReturnsTo(pr)' = RestoreOf(grant[pr])
      BY <2>b, <2>1, <2>3, <2>5, ApprovedGrant DEF ReturnsTo, IsTemporary
    <3>2. IsTemporary(grant[pr]) => grant[pr].restore # None
      BY <1>2, <2>5 DEF ApproveWithGrant
    <3>3. grant[pr] # None /\ (~IsTemporary(grant[pr]) => grant[pr].restore = None)
      BY <2>2, <2>5, PermanentRow
    <3> QED
      BY <2>4, <3>1, <3>2, <3>3 DEF ReturnsToBase, ReturnsTo, RestoreOf
  <2>6. CASE pr # req[r].pair
    <3>1. grant'[pr] = grant[pr]
      BY <2>b, <2>a, <2>6 DEF ApplyApproval, TypeOK
    <3> QED
      BY <2>4, <3>1 DEF ReturnsToBase, ReturnsTo, IsTemporary
  <2> QED
    BY <2>5, <2>6
<1>3. ASSUME NEW p \in Procs, ApproveWithoutGrant(p)
      PROVE  ReturnsTo(pr)' = base'[pr]
  <2> DEFINE r == op[p].request
  <2>1. op[p] \in Ops /\ op[p].kind = "approve"
    BY <1>3 DEF ApproveWithoutGrant, TypeOK
  <2>2. r \in Requests
    BY <2>1, ApproveOpType
  <2>3. req[r] # None
    BY <2>1 DEF ApprovalHoldsRequest, HasStatus
  <2>4. ApplyApproval(r, None) /\ base' = base /\ pr \notin lost
    BY <1>3 DEF ApproveWithoutGrant
  <2>5. CASE pr = req[r].pair
    <3>1. grant[pr] = None
      BY <1>3, <2>5 DEF ApproveWithoutGrant
    <3>2. ReturnsTo(pr)' = None
      BY <2>2, <2>3, <2>4, <2>5, ApprovedGrant DEF ReturnsTo, IsTemporary
    <3> QED
      BY <2>4, <3>1, <3>2 DEF ReturnsToBase, ReturnsTo, IsTemporary
  <2>6. CASE pr # req[r].pair
    <3>1. grant'[pr] = grant[pr]
      BY <2>2, <2>3, <2>4, <2>6, ApprovedGrant
    <3> QED
      BY <2>4, <3>1 DEF ReturnsToBase, ReturnsTo, IsTemporary
  <2> QED
    BY <2>5, <2>6
<1>4. ASSUME NEW p \in Procs, NEW q \in Pairs, NEW a \in Access, SetUserClusterRole(p, q, a)
      PROVE  ReturnsTo(pr)' = base'[pr]
  <2>1. grant' = [grant EXCEPT ![q] = Permanent(a)] /\ base' = [base EXCEPT ![q] = a] /\ lost' = lost \ {q}
    BY <1>4 DEF SetUserClusterRole
  <2> QED
    BY <2>1, PermanentType DEF ReturnsToBase, ReturnsTo, IsTemporary, TypeOK
<1>5. ASSUME NEW p \in Procs, NEW q \in Pairs, DeleteUserClusterRole(p, q)
      PROVE  ReturnsTo(pr)' = base'[pr]
  <2>1. grant' = [grant EXCEPT ![q] = None] /\ base' = [base EXCEPT ![q] = None] /\ lost' = lost \ {q}
    BY <1>5 DEF DeleteUserClusterRole
  <2> QED
    BY <2>1 DEF ReturnsToBase, ReturnsTo, IsTemporary, TypeOK
<1>6. ASSUME NEW p \in Procs, NEW c \in Clusters, SyncWrite(p, c)
      PROVE  ReturnsTo(pr)' = base'[pr]
  <2> DEFINE q == <<op[p].user, c>>  a == [role |-> op[p].want[c], ns |-> {}]
  <2>1. op[p] \in Ops /\ op[p].kind = "sync"
    BY <1>6 DEF SyncWrite, TypeOK
  <2>2. q \in Pairs /\ (op[p].want[c] # None => a \in Access)
    BY <2>1, SyncOpType DEF Pairs, RoleMap, Access
  <2>3. CASE op[p].want[c] # None /\ grant' = [grant EXCEPT ![q] = Permanent(a)]
             /\ base' = [base EXCEPT ![q] = a] /\ lost' = lost \ {q}
    <3> HIDE DEF q, a
    <3> QED
      BY <2>2, <2>3, PermanentType DEF ReturnsToBase, ReturnsTo, IsTemporary, TypeOK
  <2>4. CASE grant' = [grant EXCEPT ![q] = None] /\ base' = [base EXCEPT ![q] = None] /\ lost' = lost \ {q}
    <3> HIDE DEF q
    <3> QED
      BY <2>2, <2>4 DEF ReturnsToBase, ReturnsTo, IsTemporary, TypeOK
  <2> QED
    BY <1>6, <2>3, <2>4 DEF SyncWrite
<1>7. ASSUME NEW S \in SUBSET Pairs, ExpireGrants(S)
      PROVE  ReturnsTo(pr)' = base'[pr]
  <2>1. base' = base /\ pr \notin lost
    BY <1>7 DEF ExpireGrants
  <2>2. CASE pr \notin S
    <3>1. grant'[pr] = grant[pr]
      BY <1>7, <2>2 DEF ExpireGrants
    <3> QED
      BY <2>1, <3>1 DEF ReturnsToBase, ReturnsTo, IsTemporary
  <2>3. CASE pr \in S
    <3>1. IsTemporary(grant[pr]) /\ grant[pr] \in Grant
      BY <1>7, <2>3 DEF ExpireGrants, Expired, IsTemporary, TypeOK
    <3>2. grant'[pr] = IF grant[pr].restore = None THEN None ELSE Permanent(grant[pr].restore)
      BY <1>7, <2>3 DEF ExpireGrants
    <3>3. grant[pr].restore \in Access \cup {None}
      BY <3>1 DEF Grant
    <3> QED
      BY <2>1, <3>1, <3>2, <3>3, PermanentType DEF ReturnsToBase, ReturnsTo, IsTemporary
  <2> QED
    BY <2>2, <2>3
<1>8. [Next]_vars => \/ UNCHANGED <<grant, base, lost>>
                     \/ \E p \in Procs : \/ \E r \in Requests : ApproveWithGrant(p, r)
                                         \/ ApproveWithoutGrant(p)
                                         \/ \E q \in Pairs, a \in Access : SetUserClusterRole(p, q, a)
                                         \/ \E q \in Pairs : DeleteUserClusterRole(p, q)
                                         \/ \E c \in Clusters : SyncWrite(p, c)
                     \/ \E S \in SUBSET Pairs : ExpireGrants(S)
  BY ZenonT(60) DEF Next, Handler, Sweep, vars, Tick, Ask, CheckPending, InsertRequest, CancelAccessRequest,
         RejectAccessRequest, ApproveFindsNoGrant, EndApprovedRequests, SyncReadRoles, SyncReadTemporary,
         SyncDone, HandlerDies, ExpirePendingRequests
<1> QED
  BY <1>1, <1>2, <1>3, <1>4, <1>5, <1>6, <1>7, <1>8

-----------------------------------------------------------------------------
(* Grants and the requests behind them.                                    *)

\* The part of GrantFollowsRequest that speaks of one row.
Follows(g, pr) ==
    IF g.expires = None THEN g = Permanent(g.access)
    ELSE /\ g.request # None
         /\ req[g.request] # None
         /\ req[g.request].pair = pr
         /\ req[g.request].access = g.access
         /\ req[g.request].expires = g.expires
         /\ req[g.request].status \in {"approved", "expired"}

\* GrantFollowsRequest, row by row.
LEMMA FollowsRows == GrantFollowsRequest <=> \A pr \in Pairs : grant[pr] # None => Follows(grant[pr], pr)
BY DEF GrantFollowsRequest, Follows

\* A grant whose row and whose request's decided part do not change.
LEMMA FollowsKept ==
    ASSUME NEW pr \in Pairs, NEW g, Follows(g, pr),
           g.expires # None =>
               /\ req'[g.request] # None
               /\ req'[g.request].pair = req[g.request].pair
               /\ req'[g.request].access = req[g.request].access
               /\ req'[g.request].expires = req[g.request].expires
               /\ req'[g.request].status \in {"approved", "expired"}
    PROVE  IF g.expires = None THEN g = Permanent(g.access)
           ELSE /\ g.request # None
                /\ req'[g.request] # None
                /\ req'[g.request].pair = pr
                /\ req'[g.request].access = g.access
                /\ req'[g.request].expires = g.expires
                /\ req'[g.request].status \in {"approved", "expired"}
BY DEF Follows

\* What a step may do to a row of access_requests that is already decided:
\* at most close it.
LEMMA DecidedKept ==
    ASSUME TypeOK, ApprovalHoldsRequest, [Next]_vars, NEW r \in Requests, req[r] # None,
           req[r].status # "pending"
    PROVE  req'[r] = req[r] \/ (req[r].status = "approved" /\ req'[r] = [req[r] EXCEPT !.status = "expired"])
<1>1. CASE UNCHANGED req
  BY <1>1
<1>2. ASSUME NEW p \in Procs, InsertRequest(p)
      PROVE  req'[r] = req[r]
  BY <1>2 DEF InsertRequest, TypeOK
<1>3. ASSUME NEW q \in Requests, CancelAccessRequest(q) \/ RejectAccessRequest(q)
      PROVE  req'[r] = req[r]
  BY <1>3 DEF CancelAccessRequest, RejectAccessRequest, SetStatus, HasStatus, TypeOK
<1>4. ASSUME NEW p \in Procs, NEW q \in Requests, ApproveWithGrant(p, q)
      PROVE  req'[r] = req[r]
  BY <1>4 DEF ApproveWithGrant, ApplyApproval, HasStatus, TypeOK
<1>5. ASSUME NEW p \in Procs, ApproveWithoutGrant(p)
      PROVE  req'[r] = req[r]
  <2>1. r # op[p].request
    BY <1>5 DEF ApproveWithoutGrant, ApprovalHoldsRequest, HasStatus
  <2> QED
    BY <1>5, <2>1 DEF ApproveWithoutGrant, ApplyApproval, TypeOK
<1>6. ASSUME NEW p \in Procs, EndApprovedRequests(p)
      PROVE  req'[r] = req[r] \/ (req[r].status = "approved" /\ req'[r] = [req[r] EXCEPT !.status = "expired"])
  BY <1>6 DEF EndApprovedRequests, HasStatus
<1>7. ASSUME NEW S \in SUBSET Pairs, ExpireGrants(S)
      PROVE  req'[r] = req[r] \/ (req[r].status = "approved" /\ req'[r] = [req[r] EXCEPT !.status = "expired"])
  BY <1>7 DEF ExpireGrants, HasStatus
<1>8. CASE ExpirePendingRequests
  BY <1>8 DEF ExpirePendingRequests, Lapsed, HasStatus
<1>9. [Next]_vars => \/ UNCHANGED req
                     \/ \E p \in Procs : \/ \E q \in Requests : ApproveWithGrant(p, q)
                                         \/ ApproveWithoutGrant(p)
                                         \/ InsertRequest(p)
                                         \/ EndApprovedRequests(p)
                     \/ \E q \in Requests : CancelAccessRequest(q) \/ RejectAccessRequest(q)
                     \/ \E S \in SUBSET Pairs : ExpireGrants(S)
                     \/ ExpirePendingRequests
  BY ZenonT(60) DEF Next, Handler, Sweep, vars, Tick, Ask, CheckPending, ApproveFindsNoGrant, SetUserClusterRole,
         DeleteUserClusterRole, SyncReadRoles, SyncReadTemporary, SyncWrite, SyncDone, HandlerDies
<1> QED
  BY <1>1, <1>2, <1>3, <1>4, <1>5, <1>6, <1>7, <1>8, <1>9

\* How a row of user_cluster_roles that is there after a step came to be: it
\* was there, it is permanent, or an approval wrote it for a pending request.
ApprovedBy(r, pr) ==
    /\ HasStatus(r, "pending")
    /\ pr = req[r].pair
    /\ grant'[pr].request = r
    /\ grant'[pr].access = req[r].access
    /\ grant'[pr].expires = now + req[r].dur
    /\ grant'[pr].expires # None
    /\ req'[r] = [req[r] EXCEPT !.status = "approved", !.expires = now + req[r].dur]

\* Every row there is after a step came to be in one of these three ways.
LEMMA RowAfterStep ==
    ASSUME TypeOK, ApprovalHoldsRequest, [Next]_vars, NEW pr \in Pairs, grant'[pr] # None
    PROVE  \/ grant'[pr] = grant[pr]
           \/ \E a \in Access : grant'[pr] = Permanent(a)
           \/ \E r \in Requests : ApprovedBy(r, pr)
<1> DEFINE Goal == \/ grant'[pr] = grant[pr]
                   \/ \E a \in Access : grant'[pr] = Permanent(a)
                   \/ \E r \in Requests : ApprovedBy(r, pr)
<1>1. CASE UNCHANGED grant
  BY <1>1
<1>2. ASSUME NEW r \in Requests, NEW restore \in Access \cup {None}, HasStatus(r, "pending"), ApplyApproval(r, restore)
      PROVE  Goal
  <2>1. req[r] # None
    BY <1>2 DEF HasStatus
  <2>2. CASE pr # req[r].pair
    BY <1>2, <2>2 DEF ApplyApproval, TypeOK
  <2>3. CASE pr = req[r].pair
    <3>1. /\ grant'[pr].expires # None /\ grant'[pr].access = req[r].access
          /\ grant'[pr].expires = now + req[r].dur /\ grant'[pr].request = r
      BY <1>2, <2>1, <2>3, ApprovedGrant
    <3>2. req'[r] = [req[r] EXCEPT !.status = "approved", !.expires = now + req[r].dur]
      BY <1>2 DEF ApplyApproval, TypeOK
    <3> QED
      BY <1>2, <2>3, <3>1, <3>2 DEF ApprovedBy
  <2> QED
    BY <2>2, <2>3
<1>3. ASSUME NEW p \in Procs, NEW r \in Requests, ApproveWithGrant(p, r)
      PROVE  Goal
  <2>1. req[r] \in Request
    BY <1>3 DEF ApproveWithGrant, HasStatus, TypeOK
  <2>2. req[r].pair \in Pairs
    BY <2>1 DEF Request
  <2>3. grant[req[r].pair] \in Grant
    BY <1>3, <2>2 DEF ApproveWithGrant, TypeOK
  <2>4. RestoreOf(grant[req[r].pair]) \in Access \cup {None}
    BY <2>3 DEF RestoreOf, Grant
  <2>5. HasStatus(r, "pending") /\ ApplyApproval(r, RestoreOf(grant[req[r].pair]))
    BY <1>3 DEF ApproveWithGrant
  <2> QED
    BY <1>2, <2>4, <2>5
<1>4. ASSUME NEW p \in Procs, ApproveWithoutGrant(p)
      PROVE  Goal
  <2>1. op[p] \in Ops /\ op[p].kind = "approve" /\ ApplyApproval(op[p].request, None)
    BY <1>4 DEF ApproveWithoutGrant, TypeOK
  <2>2. op[p].request \in Requests /\ HasStatus(op[p].request, "pending")
    BY <2>1, ApproveOpType DEF ApprovalHoldsRequest
  <2> QED
    BY <1>2, <2>1, <2>2
<1>5. ASSUME NEW p \in Procs, NEW q \in Pairs, NEW a \in Access, SetUserClusterRole(p, q, a)
      PROVE  Goal
  BY <1>5 DEF SetUserClusterRole, TypeOK
<1>6. ASSUME NEW p \in Procs, NEW q \in Pairs, DeleteUserClusterRole(p, q)
      PROVE  Goal
  BY <1>6 DEF DeleteUserClusterRole, TypeOK
<1>7. ASSUME NEW p \in Procs, NEW c \in Clusters, SyncWrite(p, c)
      PROVE  Goal
  <2> DEFINE q == <<op[p].user, c>>  a == [role |-> op[p].want[c], ns |-> {}]
  <2>1. op[p] \in Ops /\ op[p].kind = "sync"
    BY <1>7 DEF SyncWrite, TypeOK
  <2>2. q \in Pairs /\ (op[p].want[c] # None => a \in Access)
    BY <2>1, SyncOpType DEF Pairs, RoleMap, Access
  <2>3. \/ op[p].want[c] # None /\ grant' = [grant EXCEPT ![q] = Permanent(a)]
        \/ grant' = [grant EXCEPT ![q] = None]
    BY <1>7 DEF SyncWrite
  <2> HIDE DEF q, a
  <2> QED
    BY <2>2, <2>3 DEF TypeOK
<1>8. ASSUME NEW S \in SUBSET Pairs, ExpireGrants(S)
      PROVE  Goal
  <2>1. CASE pr \notin S
    BY <1>8, <2>1 DEF ExpireGrants
  <2>2. CASE pr \in S
    <3>1. grant[pr] \in Grant
      BY <1>8, <2>2 DEF ExpireGrants, Expired, IsTemporary, TypeOK
    <3>2. grant[pr].restore # None => grant[pr].restore \in Access
      BY <3>1 DEF Grant
    <3> QED
      BY <1>8, <2>2, <3>2 DEF ExpireGrants
  <2> QED
    BY <2>1, <2>2
<1>9. [Next]_vars => \/ UNCHANGED grant
                     \/ \E p \in Procs : \/ \E r \in Requests : ApproveWithGrant(p, r)
                                         \/ ApproveWithoutGrant(p)
                                         \/ \E q \in Pairs, a \in Access : SetUserClusterRole(p, q, a)
                                         \/ \E q \in Pairs : DeleteUserClusterRole(p, q)
                                         \/ \E c \in Clusters : SyncWrite(p, c)
                     \/ \E S \in SUBSET Pairs : ExpireGrants(S)
  BY DEF Next, Handler, Sweep, vars, Tick, Ask, CheckPending, InsertRequest, CancelAccessRequest,
         RejectAccessRequest, ApproveFindsNoGrant, EndApprovedRequests, SyncReadRoles, SyncReadTemporary,
         SyncDone, HandlerDies, ExpirePendingRequests
<1> QED
  BY <1>1, <1>3, <1>4, <1>5, <1>6, <1>7, <1>8, <1>9

\* Every step keeps temporary grants in line with their requests.
LEMMA NextGrantFollowsRequest == IInv /\ [Next]_vars => GrantFollowsRequest'
<1> SUFFICES ASSUME TypeOK, ApprovalHoldsRequest, GrantFollowsRequest, [Next]_vars,
                    NEW pr \in Pairs, grant'[pr] # None
             PROVE  LET g == grant'[pr] IN
                    IF g.expires = None THEN g = Permanent(g.access)
                    ELSE /\ g.request # None
                         /\ req'[g.request] # None
                         /\ req'[g.request].pair = pr
                         /\ req'[g.request].access = g.access
                         /\ req'[g.request].expires = g.expires
                         /\ req'[g.request].status \in {"approved", "expired"}
  BY DEF IInv, GrantFollowsRequest, Permanent
<1>1. CASE grant'[pr] = grant[pr]
  <2> DEFINE g == grant[pr]
  <2>1. g # None /\ Follows(g, pr) /\ g \in Grant
    BY <1>1, FollowsRows DEF TypeOK
  <2>2. ASSUME g.expires # None
        PROVE  /\ req'[g.request] # None
               /\ req'[g.request].pair = req[g.request].pair
               /\ req'[g.request].access = req[g.request].access
               /\ req'[g.request].expires = req[g.request].expires
               /\ req'[g.request].status \in {"approved", "expired"}
    <3>1. g.request \in Requests /\ req[g.request] # None /\ req[g.request].status \in {"approved", "expired"}
      BY <2>1, <2>2 DEF Follows, Grant
    <3>2. req[g.request] \in Request
      BY <3>1 DEF TypeOK
    <3>3. req'[g.request] = req[g.request] \/ req'[g.request] = [req[g.request] EXCEPT !.status = "expired"]
      BY <3>1, DecidedKept
    <3> DEFINE w == [req[g.request] EXCEPT !.status = "expired"]
    <3>4. /\ w # None /\ w.status = "expired" /\ w.pair = req[g.request].pair
          /\ w.access = req[g.request].access /\ w.expires = req[g.request].expires
      BY <3>2, RequestStatusType DEF Status
    <3> HIDE DEF w, g
    <3>5. req'[g.request] = req[g.request] \/ req'[g.request] = w
      BY <3>3 DEF w
    <3> QED
      BY <3>1, <3>4, <3>5
  <2> QED
    BY <1>1, <2>1, <2>2, FollowsKept
<1>2. ASSUME NEW a \in Access, grant'[pr] = Permanent(a)
      PROVE  grant'[pr].expires = None /\ grant'[pr] = Permanent(grant'[pr].access)
  BY <1>2, PermanentType
<1>3. ASSUME NEW r \in Requests, ApprovedBy(r, pr)
      PROVE  LET g == grant'[pr] IN
             /\ g.expires # None
             /\ g.request # None
             /\ req'[g.request] # None
             /\ req'[g.request].pair = pr
             /\ req'[g.request].access = g.access
             /\ req'[g.request].expires = g.expires
             /\ req'[g.request].status \in {"approved", "expired"}
  <2>1. req[r] \in Request
    BY <1>3 DEF ApprovedBy, HasStatus, TypeOK
  <2>2. now + req[r].dur \in Nat
    <3>1. req[r].dur \in Durations
      BY <2>1 DEF Request
    <3>2. \A d \in Durations : d \in Nat
      BY TimeAssumption
    <3> QED
      BY <3>1, <3>2 DEF TypeOK
  <2>3. grant'[pr].request = r /\ r # None
    BY <1>3, NoneAssumption DEF ApprovedBy
  <2>5. /\ req'[r] # None /\ req'[r].status = "approved" /\ req'[r].expires = now + req[r].dur
        /\ req'[r].pair = req[r].pair /\ req'[r].access = req[r].access
    <3> DEFINE w == [req[r] EXCEPT !.status = "approved", !.expires = now + req[r].dur]
    <3>1. /\ w # None /\ w.status = "approved" /\ w.expires = now + req[r].dur
          /\ w.pair = req[r].pair /\ w.access = req[r].access
      BY <2>1, <2>2, ApprovedRowType
    <3>2. req'[r] = w
      BY <1>3 DEF ApprovedBy
    <3> HIDE DEF w
    <3> QED
      BY <3>1, <3>2
  <2> QED
    BY <1>3, <2>3, <2>5 DEF ApprovedBy
<1> QED
  BY <1>1, <1>2, <1>3, RowAfterStep

-----------------------------------------------------------------------------
(* Approvals in progress.                                                  *)

\* A process that is in an approval after a step was in it before, or has just
\* locked a pending request.
LEMMA ApproveOpAfterStep ==
    ASSUME TypeOK, [Next]_vars, NEW p \in Procs, op'[p].kind = "approve"
    PROVE  \/ op'[p] = op[p]
           \/ \E r \in Requests : ApproveFindsNoGrant(p, r) /\ op'[p] = [kind |-> "approve", request |-> r]
<1> DEFINE Goal == \/ op'[p] = op[p]
                   \/ \E r \in Requests : ApproveFindsNoGrant(p, r) /\ op'[p] = [kind |-> "approve", request |-> r]
<1>1. CASE UNCHANGED op
  BY <1>1
<1>2. ASSUME NEW q \in Procs, NEW o \in Ops, Goto(q, o), o.kind # "approve"
      PROVE  Goal
  BY <1>2, GotoType
<1>idle. Idle \in Ops /\ Idle.kind # "approve"
  BY DEF Ops, Idle
<1>3. ASSUME NEW q \in Procs, NEW r \in Requests, ApproveFindsNoGrant(q, r)
      PROVE  Goal
  <2>1. [kind |-> "approve", request |-> r] \in Ops
    BY DEF Ops
  <2>2. Goto(q, [kind |-> "approve", request |-> r])
    BY <1>3 DEF ApproveFindsNoGrant
  <2>3. op'[q] = [kind |-> "approve", request |-> r] /\ \A s \in Procs \ {q} : op'[s] = op[s]
    BY <2>1, <2>2, GotoType
  <2> QED
    BY <1>3, <2>3
<1>4. ASSUME NEW q \in Procs, NEW pr \in Pairs, NEW a \in Access, NEW d \in Durations, Ask(q, pr, a, d)
      PROVE  Goal
  <2>1. [kind |-> "asked", pair |-> pr, access |-> a, dur |-> d] \in Ops
    BY DEF Ops
  <2> QED
    BY <1>2, <1>4, <2>1 DEF Ask
<1>5. ASSUME NEW q \in Procs, CheckPending(q)
      PROVE  Goal
  <2>1. op[q] \in Ops
    BY DEF TypeOK
  <2>2. [op[q] EXCEPT !.kind = "checked"] \in Ops /\ [op[q] EXCEPT !.kind = "checked"].kind # "approve"
    BY <1>5, <2>1, CreateOpType DEF CheckPending
  <2> QED
    BY <1>2, <1>5, <1>idle, <2>2 DEF CheckPending
<1>6. ASSUME NEW q \in Procs, Goto(q, Idle)
      PROVE  Goal
  BY <1>2, <1>6, <1>idle
<1>7. ASSUME NEW q \in Procs, NEW pr \in Pairs, Goto(q, [kind |-> "end", pair |-> pr])
      PROVE  Goal
  <2>1. [kind |-> "end", pair |-> pr] \in Ops
    BY DEF Ops
  <2> QED
    BY <1>2, <1>7, <2>1
<1>8. ASSUME NEW q \in Procs, NEW u \in Users, NEW want \in RoleMap, SyncReadRoles(q, u, want)
      PROVE  Goal
  <2>1. [kind |-> "synchave", user |-> u, want |-> want, have |-> RoleNames(u)] \in Ops
    BY RoleNamesType DEF Ops
  <2> QED
    BY <1>2, <1>8, <2>1 DEF SyncReadRoles
<1>9. ASSUME NEW q \in Procs, SyncReadTemporary(q)
      PROVE  Goal
  <2>1. op[q] \in Ops /\ op[q].kind = "synchave"
    BY <1>9 DEF SyncReadTemporary, TypeOK
  <2>2. op[q].user \in Users /\ op[q].want \in RoleMap /\ op[q].have \in RoleMap
    BY <2>1, SyncOpType
  <2>3. \A T \in SUBSET Clusters :
          [kind |-> "sync", user |-> op[q].user, want |-> op[q].want, have |-> op[q].have,
           todo |-> T, taken |-> {}] \in Ops
    BY <2>2 DEF Ops
  <2>4. PICK T \in SUBSET Clusters :
          Goto(q, [kind |-> "sync", user |-> op[q].user, want |-> op[q].want, have |-> op[q].have,
                   todo |-> T, taken |-> {}])
    BY <1>9 DEF SyncReadTemporary
  <2> QED
    BY <1>2, <2>3, <2>4
<1>10. ASSUME NEW q \in Procs, NEW c \in Clusters, SyncWrite(q, c)
       PROVE  Goal
  <2>1. op'[q].kind = "sync"
    BY <1>10, SyncWriteType
  <2>2. \A s \in Procs \ {q} : op'[s] = op[s]
    BY <1>10 DEF SyncWrite, Goto, TypeOK
  <2> QED
    BY <2>1, <2>2
<1>11. ASSUME NEW q \in Procs, Handler(q)
       PROVE  Goal
  BY <1>1, <1>3, <1>4, <1>5, <1>6, <1>7, <1>8, <1>9, <1>10, <1>11
     DEF Handler, InsertRequest, ApproveWithGrant, ApproveWithoutGrant, SetUserClusterRole,
         DeleteUserClusterRole, EndApprovedRequests, SyncDone, HandlerDies
<1>12. [Next]_vars => UNCHANGED op \/ \E q \in Procs : Handler(q)
  BY DEF Next, Sweep, vars, Tick, CancelAccessRequest, RejectAccessRequest, ExpireGrants, ExpirePendingRequests
<1> QED
  BY <1>1, <1>11, <1>12

\* The row an approval has locked does not change under it.
LEMMA LockedRowKept ==
    ASSUME TypeOK, ApprovalHoldsRequest, LockIsExclusive, [Next]_vars,
           NEW p \in Procs, op[p].kind = "approve", op'[p] = op[p]
    PROVE  req'[op[p].request] = req[op[p].request]
<1> DEFINE r == op[p].request
<1>0. r \in Requests /\ HasStatus(r, "pending") /\ Locked(r) /\ op[p] # Idle
  <2>1. op[p] \in Ops
    BY DEF TypeOK
  <2> QED
    BY <2>1, ApproveOpType DEF ApprovalHoldsRequest, Locked
<1> HIDE DEF r
<1>1. CASE UNCHANGED req
  BY <1>1 DEF r
<1>2. ASSUME NEW q \in Procs, InsertRequest(q)
      PROVE  req'[r] = req[r]
  BY <1>0, <1>2 DEF InsertRequest, HasStatus, TypeOK
<1>3. ASSUME NEW q \in Requests, CancelAccessRequest(q) \/ RejectAccessRequest(q)
      PROVE  req'[r] = req[r]
  BY <1>0, <1>3 DEF CancelAccessRequest, RejectAccessRequest, SetStatus, TypeOK
<1>4. ASSUME NEW q \in Procs, NEW s \in Requests, ApproveWithGrant(q, s)
      PROVE  req'[r] = req[r]
  BY <1>0, <1>4 DEF ApproveWithGrant, ApplyApproval, TypeOK
<1>5. ASSUME NEW q \in Procs, ApproveWithoutGrant(q)
      PROVE  req'[r] = req[r]
  <2>1. q # p
    <3>1. op'[q] = Idle
      BY <1>5 DEF ApproveWithoutGrant, Goto, TypeOK
    <3> QED
      BY <1>0, <3>1
  <2>2. op[q].request # r
    BY <1>5, <2>1 DEF ApproveWithoutGrant, LockIsExclusive, r
  <2> QED
    BY <1>0, <1>5, <2>2 DEF ApproveWithoutGrant, ApplyApproval, TypeOK
<1>6. ASSUME NEW q \in Procs, EndApprovedRequests(q)
      PROVE  req'[r] = req[r]
  BY <1>0, <1>6 DEF EndApprovedRequests, HasStatus
<1>7. ASSUME NEW S \in SUBSET Pairs, ExpireGrants(S)
      PROVE  req'[r] = req[r]
  BY <1>0, <1>7 DEF ExpireGrants, HasStatus
<1>8. CASE ExpirePendingRequests
  BY <1>0, <1>8 DEF ExpirePendingRequests, r
<1>9. [Next]_vars => \/ UNCHANGED req
                     \/ \E q \in Procs : \/ \E s \in Requests : ApproveWithGrant(q, s)
                                         \/ ApproveWithoutGrant(q)
                                         \/ InsertRequest(q)
                                         \/ EndApprovedRequests(q)
                     \/ \E q \in Requests : CancelAccessRequest(q) \/ RejectAccessRequest(q)
                     \/ \E S \in SUBSET Pairs : ExpireGrants(S)
                     \/ ExpirePendingRequests
  BY ZenonT(60) DEF Next, Handler, Sweep, vars, Tick, Ask, CheckPending, ApproveFindsNoGrant, SetUserClusterRole,
         DeleteUserClusterRole, SyncReadRoles, SyncReadTemporary, SyncWrite, SyncDone, HandlerDies
<1> QED
  BY <1>1, <1>2, <1>3, <1>4, <1>5, <1>6, <1>7, <1>8, <1>9 DEF r

\* Every step keeps the row locks of the approvals in progress.
LEMMA NextApprovalHoldsRequest == IInv /\ [Next]_vars => ApprovalHoldsRequest' /\ LockIsExclusive'
<1> SUFFICES ASSUME TypeOK, ApprovalHoldsRequest, LockIsExclusive, [Next]_vars
             PROVE  ApprovalHoldsRequest' /\ LockIsExclusive'
  BY DEF IInv
<1>1. ASSUME NEW p \in Procs, op'[p].kind = "approve"
      PROVE  req'[op'[p].request] # None /\ req'[op'[p].request].status = "pending"
  <2>1. CASE op'[p] = op[p]
    BY <1>1, <2>1, LockedRowKept DEF ApprovalHoldsRequest, HasStatus
  <2>2. ASSUME NEW r \in Requests, ApproveFindsNoGrant(p, r), op'[p] = [kind |-> "approve", request |-> r]
        PROVE  req'[op'[p].request] # None /\ req'[op'[p].request].status = "pending"
    BY <2>2 DEF ApproveFindsNoGrant, HasStatus
  <2> QED
    BY <1>1, <2>1, <2>2, ApproveOpAfterStep
<1>2. ASSUME NEW p \in Procs, NEW q \in Procs, op'[p].kind = "approve", op'[q].kind = "approve",
             op'[p].request = op'[q].request, p # q
      PROVE  FALSE
  <2>1. ASSUME NEW s \in Procs, NEW u \in Procs, s # u, NEW r \in Requests, ApproveFindsNoGrant(s, r),
               op'[s] = [kind |-> "approve", request |-> r], op'[u].kind = "approve", op'[u].request = r
        PROVE  FALSE
    <3>1. op'[u] = op[u]
      BY <2>1 DEF ApproveFindsNoGrant, Goto, TypeOK
    <3> QED
      BY <2>1, <3>1 DEF ApproveFindsNoGrant, Locked
  <2>2. CASE op'[p] = op[p] /\ op'[q] = op[q]
    BY <1>2, <2>2 DEF LockIsExclusive
  <2>3. op'[p] = op[p] \/ \E r \in Requests : ApproveFindsNoGrant(p, r) /\ op'[p] = [kind |-> "approve", request |-> r]
    BY <1>2, ApproveOpAfterStep
  <2>4. op'[q] = op[q] \/ \E r \in Requests : ApproveFindsNoGrant(q, r) /\ op'[q] = [kind |-> "approve", request |-> r]
    BY <1>2, ApproveOpAfterStep
  <2>5. ASSUME NEW r \in Requests, ApproveFindsNoGrant(p, r), op'[p] = [kind |-> "approve", request |-> r]
        PROVE  FALSE
    BY <1>2, <2>1, <2>5
  <2>6. ASSUME NEW r \in Requests, ApproveFindsNoGrant(q, r), op'[q] = [kind |-> "approve", request |-> r]
        PROVE  FALSE
    BY <1>2, <2>1, <2>6
  <2> QED
    BY <2>2, <2>3, <2>4, <2>5, <2>6
<1>3. ApprovalHoldsRequest'
  BY <1>1 DEF ApprovalHoldsRequest, HasStatus
<1>4. LockIsExclusive'
  BY <1>2 DEF LockIsExclusive
<1> QED
  BY <1>3, <1>4

-----------------------------------------------------------------------------
(* Decisions are final.                                                    *)

\* No step deletes a row of access_requests.
LEMMA RowStays ==
    ASSUME TypeOK, ApprovalHoldsRequest, [Next]_vars, NEW r \in Requests, req[r] # None
    PROVE  req'[r] # None
<1>0. req[r] \in Request
  BY DEF TypeOK
<1>2. ASSUME NEW q \in Requests, NEW s \in Status, SetStatus(q, s)
      PROVE  req'[r] # None
  BY <1>0, <1>2, RequestStatusType DEF SetStatus, TypeOK
<1>3. ASSUME NEW q \in Requests, NEW restore, ApplyApproval(q, restore), now + req[q].dur \in Nat
      PROVE  req'[r] # None
  <2>1. CASE q # r
    BY <1>3, <2>1 DEF ApplyApproval, TypeOK
  <2>2. CASE q = r
    <3>1. req'[r] = [req[r] EXCEPT !.status = "approved", !.expires = now + req[r].dur]
      BY <1>3, <2>2 DEF ApplyApproval, TypeOK
    <3> QED
      BY <1>0, <1>3, <2>2, <3>1, ApprovedRowType
  <2> QED
    BY <2>1, <2>2
<1>4. ASSUME NEW q \in Requests, HasStatus(q, "pending")
      PROVE  now + req[q].dur \in Nat
  <2>1. req[q] \in Request /\ now \in Nat
    BY <1>4 DEF HasStatus, TypeOK
  <2>2. req[q].dur \in Nat
    BY <2>1, TimeAssumption DEF Request
  <2> QED
    BY <2>1, <2>2
<1>5. ASSUME NEW p \in Procs, InsertRequest(p)
      PROVE  req'[r] # None
  BY <1>5 DEF InsertRequest, TypeOK
<1>6. ASSUME NEW q \in Requests, CancelAccessRequest(q) \/ RejectAccessRequest(q)
      PROVE  req'[r] # None
  BY <1>2, <1>6 DEF CancelAccessRequest, RejectAccessRequest, Status
<1>7. ASSUME NEW p \in Procs, NEW q \in Requests, ApproveWithGrant(p, q)
      PROVE  req'[r] # None
  BY <1>3, <1>4, <1>7 DEF ApproveWithGrant
<1>8. ASSUME NEW p \in Procs, ApproveWithoutGrant(p)
      PROVE  req'[r] # None
  <2>1. op[p] \in Ops /\ op[p].kind = "approve" /\ ApplyApproval(op[p].request, None)
    BY <1>8 DEF ApproveWithoutGrant, TypeOK
  <2>2. op[p].request \in Requests /\ HasStatus(op[p].request, "pending")
    BY <2>1, ApproveOpType DEF ApprovalHoldsRequest
  <2> QED
    BY <1>3, <1>4, <2>1, <2>2
<1>9. ASSUME NEW p \in Procs, EndApprovedRequests(p)
      PROVE  req'[r] # None
  BY <1>0, <1>9, RequestStatusType DEF EndApprovedRequests, Status
<1>10. ASSUME NEW S \in SUBSET Pairs, ExpireGrants(S)
       PROVE  req'[r] # None
  BY <1>0, <1>10, RequestStatusType DEF ExpireGrants, Status
<1>11. CASE ExpirePendingRequests
  BY <1>0, <1>11, RequestStatusType DEF ExpirePendingRequests, Status
<1>12. [Next]_vars => \/ UNCHANGED req
                      \/ \E p \in Procs : \/ \E q \in Requests : ApproveWithGrant(p, q)
                                          \/ ApproveWithoutGrant(p)
                                          \/ InsertRequest(p)
                                          \/ EndApprovedRequests(p)
                      \/ \E q \in Requests : CancelAccessRequest(q) \/ RejectAccessRequest(q)
                      \/ \E S \in SUBSET Pairs : ExpireGrants(S)
                      \/ ExpirePendingRequests
  BY ZenonT(60) DEF Next, Handler, Sweep, vars, Tick, Ask, CheckPending, ApproveFindsNoGrant, SetUserClusterRole,
         DeleteUserClusterRole, SyncReadRoles, SyncReadTemporary, SyncWrite, SyncDone, HandlerDies
<1> QED
  BY <1>5, <1>6, <1>7, <1>8, <1>9, <1>10, <1>11, <1>12

\* A grant that carries a request's id appears only when that request goes
\* from pending to approved.
LEMMA GrantedFromPending ==
    ASSUME TypeOK, ApprovalHoldsRequest, [Next]_vars, NEW r \in Requests, NEW pr \in Pairs,
           grant'[pr] # None, grant'[pr].request = r, grant'[pr] # grant[pr]
    PROVE  req[r].status = "pending" /\ req'[r].status = "approved"
<1>1. ASSUME NEW a \in Access, grant'[pr] = Permanent(a)
      PROVE  FALSE
  BY <1>1, PermanentType, NoneAssumption
<1>2. ASSUME NEW q \in Requests, ApprovedBy(q, pr)
      PROVE  req[r].status = "pending" /\ req'[r].status = "approved"
  <2>1. q = r /\ HasStatus(r, "pending")
    BY <1>2 DEF ApprovedBy
  <2>2. req'[r] = [req[r] EXCEPT !.status = "approved", !.expires = now + req[r].dur]
    BY <1>2, <2>1 DEF ApprovedBy
  <2>3. req[r] \in Request /\ req[r] # None /\ now \in Nat
    BY <2>1 DEF HasStatus, TypeOK
  <2>4. req[r].dur \in Nat
    BY <2>3, TimeAssumption DEF Request
  <2>5. now + req[r].dur \in Nat
    BY <2>3, <2>4
  <2>6. [req[r] EXCEPT !.status = "approved", !.expires = now + req[r].dur].status = "approved"
    BY <2>3, <2>5, ApprovedRowType
  <2>7. req'[r].status = "approved"
    BY <2>2, <2>6
  <2> QED
    BY <2>1, <2>7 DEF HasStatus
<1> QED
  BY <1>1, <1>2, RowAfterStep

-----------------------------------------------------------------------------
(* The theorems.                                                           *)

\* The inductive invariant holds at the start.
LEMMA InitIInv == Init => IInv
<1> SUFFICES ASSUME Init PROVE IInv
  OBVIOUS
<1>1. TypeOK
  BY InitType
<1>2. \A pr \in Pairs : grant[pr] = IF base[pr] = None THEN None ELSE Permanent(base[pr])
  BY DEF Init
<1>3. \A pr \in Pairs : base[pr] # None => base[pr] \in Access
  BY <1>1 DEF TypeOK
<1>4. ReturnsToBase
  BY <1>2, <1>3, PermanentType DEF ReturnsToBase, ReturnsTo, IsTemporary
<1>5. GrantFollowsRequest
  BY <1>2, <1>3, PermanentType DEF GrantFollowsRequest
<1>6. ApprovalHoldsRequest /\ LockIsExclusive
  BY DEF Init, Idle, ApprovalHoldsRequest, LockIsExclusive
<1> QED
  BY <1>1, <1>4, <1>5, <1>6 DEF IInv

\* The inductive invariant holds in every state: types, the relation between
\* grants and requests, the base, and the row locks of approvals.
THEOREM Invariant == Spec => []IInv
<1>1. IInv /\ [Next]_vars => IInv'
  BY NextType, NextReturnsToBase, NextGrantFollowsRequest, NextApprovalHoldsRequest DEF IInv
<1> QED
  BY <1>1, InitIInv, PTL DEF Spec

\* Every variable keeps its type.
THEOREM TypeCorrect == Spec => []TypeOK
BY Invariant, PTL DEF IInv

\* Whatever is interleaved, a user comes back to the permanent access that was
\* given last, except after one of the two approvals that lost records.
THEOREM ComesBack == Spec => []ReturnsToBase
BY Invariant, PTL DEF IInv

\* A temporary grant is always what its request asked for and shows.
THEOREM GrantMatchesRequest == Spec => []GrantFollowsRequest
BY Invariant, PTL DEF IInv

\* No cancel, reject or lapse slips in between an approval's read and commit.
THEOREM ApprovalIsExclusive == Spec => []ApprovalHoldsRequest
BY Invariant, PTL DEF IInv

\* A request is decided once, whoever races for its row: a decided one only
\* ever goes from approved to expired, and only a pending one is granted.
THEOREM DecisionsAreFinal == Spec => DecidedOnce
<1> DEFINE Final(r) ==
      req[r] # None =>
         /\ req'[r] # None
         /\ req[r].status # req'[r].status =>
              \/ req[r].status = "pending"
              \/ req[r].status = "approved" /\ req'[r].status = "expired"
         /\ \A pr \in Pairs :
              (grant'[pr] # None /\ grant'[pr].request = r /\ grant'[pr] # grant[pr])
                => req[r].status = "pending" /\ req'[r].status = "approved"
<1>1. ASSUME IInv, [Next]_vars, NEW r \in Requests
      PROVE  Final(r)
  <2>1. TypeOK /\ ApprovalHoldsRequest
    BY <1>1 DEF IInv
  <2>2. req[r] # None => req[r] \in Request
    BY <2>1 DEF TypeOK
  <2>3. req[r] # None => req'[r] # None
    BY <1>1, <2>1, RowStays
  <2>4. ASSUME req[r] # None, req[r].status # "pending", req[r].status # req'[r].status
        PROVE  req[r].status = "approved" /\ req'[r].status = "expired"
    <3>1. req[r] \in Request /\ "expired" \in Status
      BY <2>2, <2>4 DEF Status
    <3>2. req[r].status = "approved" /\ req'[r] = [req[r] EXCEPT !.status = "expired"]
      BY <1>1, <2>1, <2>4, DecidedKept
    <3> QED
      BY <3>1, <3>2, RequestStatusType
  <2>5. \A pr \in Pairs :
          (grant'[pr] # None /\ grant'[pr].request = r /\ grant'[pr] # grant[pr])
             => req[r].status = "pending" /\ req'[r].status = "approved"
    BY <1>1, <2>1, GrantedFromPending
  <2> QED
    BY <2>3, <2>4, <2>5
<1>2. IInv /\ [Next]_vars => [\A r \in Requests : Final(r)]_vars
  BY <1>1
<1> QED
  BY <1>2, Invariant, PTL DEF Spec, DecidedOnce

===============================================================================

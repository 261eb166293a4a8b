------------------------- MODULE ClusterTokensProofs -------------------------
(***************************************************************************)
(* For every set of users, clusters, roles, requests, handlers and         *)
(* devices: without the group sync, a token that is accepted shows the     *)
(* grants as they stand.                                                   *)
(***************************************************************************)
EXTENDS ClusterTokens, AccessRequestsProofs

\* Without cfg.OIDC.SyncRoles no handler is a group sync.
NoSync == ~SyncRoles => \A p \in Procs : op[p].kind # "synchave" /\ op[p].kind # "sync"

\* What was read under a version that is still the current one is still so.
RolesHold(u, role) ==
    \A c \in Clusters : role[c] # None =>
        grant[<<u, c>>] # None /\ grant[<<u, c>>].access.role = role[c]

ScopesHold(u, role, ns) ==
    \A c \in Clusters : role[c] # None =>
        ns[c] = grant[<<u, c>>].access.ns \/ Expired(<<u, c>>)

SignInCurrent(s) ==
    s # NoSignIn =>
        /\ s.tv <= tv[s.user]
        /\ s.step = "roles" /\ s.tv = tv[s.user] => RolesHold(s.user, s.role)

TokenCurrent(t) ==
    t # None =>
        /\ t.tv <= tv[t.user]
        /\ t.tv = tv[t.user] => RolesHold(t.user, t.role) /\ ScopesHold(t.user, t.role, t.ns)

\* The inductive invariant.
TInv ==
    /\ IInv
    /\ NoSync
    /\ TokensTypeOK
    /\ ~SyncRoles => \A d \in Devices : SignInCurrent(signin[d]) /\ TokenCurrent(token[d])

-----------------------------------------------------------------------------
(* What a step of AccessRequests may do to a user's grants.                *)

\* Versions only grow, and a row that changes takes the version along.
Kept(u) ==
    /\ tv'[u] >= tv[u]
    /\ tv'[u] = tv[u] => \A c \in Clusters : grant[<<u, c>>] # None => grant'[<<u, c>>] = grant[<<u, c>>]

\* A pair is the pair of its two parts.
LEMMA PairParts == ASSUME NEW pr \in Pairs PROVE pr = <<pr[1], pr[2]>> /\ pr[1] \in Users /\ pr[2] \in Clusters
BY DEF Pairs

\* A change of one row together with its user's version.
LEMMA ChangeWithVersion ==
    ASSUME TypeOK, NEW pr \in Pairs, NEW g, NEW u \in Users,
           grant' = [grant EXCEPT ![pr] = g], EndTokens(pr[1])
    PROVE  Kept(u)
<1>1. pr[1] \in Users
  BY PairParts
<1>2. tv \in [Users -> Nat]
  BY DEF TypeOK
<1>3. CASE u = pr[1]
  BY <1>1, <1>2, <1>3 DEF EndTokens, Kept
<1>4. CASE u # pr[1]
  <2>1. tv'[u] = tv[u]
    BY <1>1, <1>2, <1>4 DEF EndTokens
  <2>2. \A c \in Clusters : <<u, c>> \in Pairs /\ <<u, c>> # pr
    BY <1>4, PairParts DEF Pairs
  <2>3. \A c \in Clusters : grant'[<<u, c>>] = grant[<<u, c>>]
    BY <2>2 DEF TypeOK
  <2> QED
    BY <1>2, <2>1, <2>3 DEF Kept
<1> QED
  BY <1>3, <1>4

\* The sweep raises the version of every user it takes a grant from.
LEMMA SweepWithVersion ==
    ASSUME TypeOK, NEW S \in SUBSET Pairs, ExpireGrants(S), NEW u \in Users
    PROVE  Kept(u)
<1> DEFINE C == {c \in Clusters : <<u, c>> \in S}
<1>1. IsFiniteSet(C)
  BY ClustersAssumption, FS_Subset
<1>2. Cardinality(C) \in Nat
  BY <1>1, FS_CardinalityType
<1>3. tv'[u] = tv[u] + Cardinality(C) /\ tv[u] \in Nat
  BY DEF ExpireGrants, TypeOK
<1>4. CASE C = {}
  <2>1. \A c \in Clusters : <<u, c>> \in Pairs /\ <<u, c>> \notin S
    BY <1>4 DEF Pairs
  <2>2. \A c \in Clusters : grant'[<<u, c>>] = grant[<<u, c>>]
    BY <2>1 DEF ExpireGrants
  <2> HIDE DEF C
  <2> QED
    BY <1>2, <1>3, <2>2 DEF Kept
<1>5. CASE C # {}
  <2>1. Cardinality(C) # 0
    BY <1>1, <1>5, FS_EmptySet
  <2> HIDE DEF C
  <2> QED
    BY <1>2, <1>3, <2>1 DEF Kept
<1> QED
  BY <1>4, <1>5

\* Every step, without the group sync, either leaves a user's rows alone or
\* ends the user's tokens.
LEMMA StepKeeps ==
    ASSUME IInv, NoSync, ~SyncRoles, [Next]_vars, NEW u \in Users
    PROVE  Kept(u)
<1>0. TypeOK /\ ApprovalHoldsRequest
  BY DEF IInv
<1>1. CASE UNCHANGED <<grant, tv>>
  BY <1>0, <1>1 DEF Kept, TypeOK
<1>2. ASSUME NEW r \in Requests, HasStatus(r, "pending"), NEW restore, ApplyApproval(r, restore)
      PROVE  Kept(u)
  <2>1. req[r] \in Request
    BY <1>0, <1>2 DEF HasStatus, TypeOK
  <2>2. req[r].pair \in Pairs
    BY <2>1 DEF Request
  <2> QED
    BY <1>0, <1>2, <2>2, ChangeWithVersion DEF ApplyApproval
<1>3. ASSUME NEW p \in Procs, NEW r \in Requests, ApproveWithGrant(p, r)
      PROVE  Kept(u)
  BY <1>2, <1>3 DEF ApproveWithGrant
<1>4. ASSUME NEW p \in Procs, ApproveWithoutGrant(p)
      PROVE  Kept(u)
  <2>1. op[p] \in Ops /\ op[p].kind = "approve" /\ ApplyApproval(op[p].request, None)
    BY <1>0, <1>4 DEF ApproveWithoutGrant, TypeOK
  <2>2. op[p].request \in Requests /\ HasStatus(op[p].request, "pending")
    BY <1>0, <2>1, ApproveOpType DEF ApprovalHoldsRequest
  <2> QED
    BY <1>2, <2>1, <2>2
<1>5. ASSUME NEW p \in Procs, NEW pr \in Pairs, NEW a \in Access, SetUserClusterRole(p, pr, a)
      PROVE  Kept(u)
  BY <1>0, <1>5, ChangeWithVersion DEF SetUserClusterRole
<1>6. ASSUME NEW p \in Procs, NEW pr \in Pairs, DeleteUserClusterRole(p, pr)
      PROVE  Kept(u)
  BY <1>0, <1>6, ChangeWithVersion DEF DeleteUserClusterRole
<1>7. ASSUME NEW S \in SUBSET Pairs, ExpireGrants(S)
      PROVE  Kept(u)
  BY <1>0, <1>7, SweepWithVersion
<1>8. [Next]_vars => \/ UNCHANGED <<grant, tv>>
                     \/ \E p \in Procs : \/ \E r \in Requests : ApproveWithGrant(p, r)
                                         \/ ApproveWithoutGrant(p)
                                         \/ \E pr \in Pairs, a \in Access : SetUserClusterRole(p, pr, a)
                                         \/ \E pr \in Pairs : DeleteUserClusterRole(p, pr)
                     \/ \E S \in SUBSET Pairs : ExpireGrants(S)
  BY ZenonT(60) DEF Next, Handler, Sweep, vars, Tick, Ask, CheckPending, InsertRequest, CancelAccessRequest,
         RejectAccessRequest, ApproveFindsNoGrant, EndApprovedRequests, SyncReadRoles, SyncReadTemporary,
         SyncWrite, SyncDone, HandlerDies, ExpirePendingRequests, NoSync
<1> QED
  BY <1>1, <1>3, <1>4, <1>5, <1>6, <1>7, <1>8

\* The clock does not go back.
LEMMA ClockGoesOn == TypeOK /\ [Next]_vars => now' >= now
<1> SUFFICES ASSUME TypeOK, [Next]_vars PROVE now' >= now
  OBVIOUS
<1>1. now \in Nat
  BY DEF TypeOK
<1>2. now' = now \/ now' = now + 1
  BY ZenonT(60) DEF Next, Handler, Sweep, vars, Tick, Ask, CheckPending, InsertRequest, CancelAccessRequest,
         RejectAccessRequest, ApproveWithGrant, ApproveFindsNoGrant, ApproveWithoutGrant, SetUserClusterRole,
         DeleteUserClusterRole, EndApprovedRequests, SyncReadRoles, SyncReadTemporary,
         SyncWrite, SyncDone, HandlerDies, ExpireGrants, ExpirePendingRequests
<1> QED
  BY <1>1, <1>2

\* No step starts a group sync when it is off.
LEMMA NextNoSync == TypeOK /\ NoSync /\ [Next]_vars => NoSync'
<1> SUFFICES ASSUME TypeOK, NoSync, [Next]_vars, ~SyncRoles, NEW p \in Procs
             PROVE  op'[p].kind # "synchave" /\ op'[p].kind # "sync"
  BY DEF NoSync
<1>0. op[p].kind # "synchave" /\ op[p].kind # "sync"
  BY DEF NoSync
<1>1. ASSUME NEW q \in Procs, NEW o, Goto(q, o), o.kind # "synchave" /\ o.kind # "sync"
      PROVE  op'[p].kind # "synchave" /\ op'[p].kind # "sync"
  BY <1>0, <1>1 DEF Goto, TypeOK
<1>2. CASE UNCHANGED op
  BY <1>0, <1>2
<1>3. ASSUME NEW q \in Procs, CheckPending(q)
      PROVE  op'[p].kind # "synchave" /\ op'[p].kind # "sync"
  <2>1. op[q] \in Ops
    BY DEF TypeOK
  <2>2. [op[q] EXCEPT !.kind = "checked"].kind = "checked"
    BY <1>3, <2>1, CreateOpType DEF CheckPending
  <2> QED
    BY <1>1, <1>3, <2>2 DEF CheckPending, Idle
<1>4. ASSUME NEW q \in Procs, \/ \E pr \in Pairs, a \in Access, d \in Durations : Ask(q, pr, a, d)
                              \/ InsertRequest(q)
                              \/ \E r \in Requests : ApproveFindsNoGrant(q, r)
                              \/ ApproveWithoutGrant(q)
                              \/ \E pr \in Pairs, a \in Access : SetUserClusterRole(q, pr, a)
                              \/ \E pr \in Pairs : DeleteUserClusterRole(q, pr)
                              \/ EndApprovedRequests(q)
                              \/ SyncDone(q)
                              \/ HandlerDies(q)
      PROVE  op'[p].kind # "synchave" /\ op'[p].kind # "sync"
  BY <1>1, <1>4 DEF Ask, InsertRequest, ApproveFindsNoGrant, ApproveWithoutGrant, SetUserClusterRole,
                    DeleteUserClusterRole, EndApprovedRequests, SyncDone, HandlerDies, Idle
<1>5. [Next]_vars => \/ UNCHANGED op
                     \/ \E q \in Procs : \/ CheckPending(q)
                                         \/ \E pr \in Pairs, a \in Access, d \in Durations : Ask(q, pr, a, d)
                                         \/ InsertRequest(q)
                                         \/ \E r \in Requests : ApproveFindsNoGrant(q, r)
                                         \/ ApproveWithoutGrant(q)
                                         \/ \E pr \in Pairs, a \in Access : SetUserClusterRole(q, pr, a)
                                         \/ \E pr \in Pairs : DeleteUserClusterRole(q, pr)
                                         \/ EndApprovedRequests(q)
                                         \/ SyncDone(q)
                                         \/ HandlerDies(q)
  BY DEF Next, Handler, Sweep, vars, Tick, CancelAccessRequest, RejectAccessRequest, ApproveWithGrant,
         ExpireGrants, ExpirePendingRequests, SyncReadRoles, SyncReadTemporary, SyncWrite, NoSync
<1> QED
  BY <1>2, <1>3, <1>4, <1>5

-----------------------------------------------------------------------------
(* What was read stays so while the version does not move.                 *)

RolesHoldNext(u, role) ==
    \A c \in Clusters : role[c] # None =>
        grant'[<<u, c>>] # None /\ grant'[<<u, c>>].access.role = role[c]

ScopesHoldNext(u, role, ns) ==
    \A c \in Clusters : role[c] # None =>
        \/ ns[c] = grant'[<<u, c>>].access.ns
        \/ /\ grant'[<<u, c>>] # None /\ grant'[<<u, c>>].expires # None
           /\ grant'[<<u, c>>].expires <= now'

\* The roles and the scopes of a user whose version stays.
LEMMA ReadStays ==
    ASSUME TypeOK, now' \in Nat, now' >= now, NEW u \in Users, Kept(u), tv'[u] = tv[u],
           NEW role, NEW ns, RolesHold(u, role)
    PROVE  /\ RolesHoldNext(u, role)
           /\ ScopesHold(u, role, ns) => ScopesHoldNext(u, role, ns)
<1>1. ASSUME NEW c \in Clusters, role[c] # None
      PROVE  /\ grant[<<u, c>>] # None /\ grant[<<u, c>>].access.role = role[c]
             /\ grant'[<<u, c>>] = grant[<<u, c>>]
  BY <1>1 DEF RolesHold, Kept
<1>2. RolesHoldNext(u, role)
  BY <1>1 DEF RolesHoldNext
<1>3. ASSUME ScopesHold(u, role, ns), NEW c \in Clusters, role[c] # None
      PROVE  \/ ns[c] = grant'[<<u, c>>].access.ns
             \/ /\ grant'[<<u, c>>] # None /\ grant'[<<u, c>>].expires # None
                /\ grant'[<<u, c>>].expires <= now'
  <2>1. grant'[<<u, c>>] = grant[<<u, c>>] /\ grant[<<u, c>>] # None
    BY <1>1, <1>3
  <2>2. <<u, c>> \in Pairs /\ now \in Nat
    BY DEF Pairs, TypeOK
  <2>3. grant[<<u, c>>].expires \in Nat \cup {None}
    BY <2>1, <2>2 DEF TypeOK, Grant
  <2>4. CASE Expired(<<u, c>>)
    BY <2>1, <2>2, <2>3, <2>4 DEF Expired, IsTemporary
  <2> QED
    BY <1>3, <2>1, <2>4 DEF ScopesHold
<1>4. ScopesHold(u, role, ns) => ScopesHoldNext(u, role, ns)
  BY <1>3 DEF ScopesHoldNext
<1> QED
  BY <1>2, <1>4


\* A sign-in or a token that a step leaves alone stays current, if the step
\* moves the version with every change of a grant.
LEMMA CurrentStays ==
    ASSUME TypeOK, TypeOK', TokensTypeOK, now' >= now, \A u \in Users : Kept(u), NEW d \in Devices
    PROVE  /\ SignInCurrent(signin[d]) /\ signin'[d] = signin[d] => SignInCurrent(signin[d])'
           /\ TokenCurrent(token[d]) /\ token'[d] = token[d] => TokenCurrent(token[d])'
<1>0. now' \in Nat /\ \A u \in Users : tv[u] \in Nat /\ tv'[u] \in Nat /\ tv'[u] >= tv[u]
  BY DEF TypeOK, Kept
<1>1. ASSUME SignInCurrent(signin[d]), signin'[d] = signin[d], signin[d] # NoSignIn
      PROVE  /\ signin[d].tv <= tv'[signin[d].user]
             /\ signin[d].step = "roles" /\ signin[d].tv = tv'[signin[d].user]
                  => RolesHoldNext(signin[d].user, signin[d].role)
  <2>1. signin[d].user \in Users /\ signin[d].tv \in Nat
    BY <1>1 DEF TokensTypeOK, SignIns
  <2>2. signin[d].tv <= tv[signin[d].user]
    BY <1>1 DEF SignInCurrent
  <2>3. ASSUME signin[d].step = "roles", signin[d].tv = tv'[signin[d].user]
        PROVE  RolesHoldNext(signin[d].user, signin[d].role)
    <3>1. tv'[signin[d].user] = tv[signin[d].user]
      BY <1>0, <2>1, <2>2, <2>3
    <3>2. RolesHold(signin[d].user, signin[d].role)
      BY <1>1, <2>3, <3>1 DEF SignInCurrent
    <3> QED
      BY <1>0, <2>1, <3>1, <3>2, ReadStays
  <2> QED
    BY <1>0, <2>1, <2>2, <2>3
<1>2. ASSUME TokenCurrent(token[d]), token'[d] = token[d], token[d] # None
      PROVE  /\ token[d].tv <= tv'[token[d].user]
             /\ token[d].tv = tv'[token[d].user] =>
                  /\ RolesHoldNext(token[d].user, token[d].role)
                  /\ ScopesHoldNext(token[d].user, token[d].role, token[d].ns)
  <2>1. token[d].user \in Users /\ token[d].tv \in Nat
    BY <1>2 DEF TokensTypeOK, Tokens
  <2>2. token[d].tv <= tv[token[d].user]
    BY <1>2 DEF TokenCurrent
  <2>3. ASSUME token[d].tv = tv'[token[d].user]
        PROVE  /\ RolesHoldNext(token[d].user, token[d].role)
               /\ ScopesHoldNext(token[d].user, token[d].role, token[d].ns)
    <3>1. tv'[token[d].user] = tv[token[d].user]
      BY <1>0, <2>1, <2>2, <2>3
    <3>2. RolesHold(token[d].user, token[d].role) /\ ScopesHold(token[d].user, token[d].role, token[d].ns)
      BY <1>2, <2>3, <3>1 DEF TokenCurrent
    <3> QED
      BY <1>0, <2>1, <3>1, <3>2, ReadStays
  <2> QED
    BY <1>0, <2>1, <2>2, <2>3
<1>3. SignInCurrent(signin[d]) /\ signin'[d] = signin[d] => SignInCurrent(signin[d])'
  BY <1>1 DEF SignInCurrent, RolesHold, RolesHoldNext, NoSignIn
<1>4. TokenCurrent(token[d]) /\ token'[d] = token[d] => TokenCurrent(token[d])'
  BY <1>2 DEF TokenCurrent, RolesHold, RolesHoldNext, ScopesHold, ScopesHoldNext, Expired, IsTemporary
<1> QED
  BY <1>3, <1>4

\* What the two queries of a sign-in read holds when they read it.
LEMMA ReadHolds ==
    ASSUME TypeOK, NEW u \in Users
    PROVE  /\ RoleNames(u) \in RoleMap
           /\ ScopesOf(u) \in [Clusters -> SUBSET Namespaces]
           /\ RolesHold(u, RoleNames(u))
           /\ \A role : RolesHold(u, role) => ScopesHold(u, role, ScopesOf(u))
<1>1. ASSUME NEW c \in Clusters
      PROVE  /\ <<u, c>> \in Pairs
             /\ grant[<<u, c>>] # None => /\ grant[<<u, c>>].access.role \in Roles
                                          /\ grant[<<u, c>>].access.ns \in SUBSET Namespaces
                                          /\ grant[<<u, c>>].expires \in Nat \cup {None}
  <2>1. <<u, c>> \in Pairs
    BY DEF Pairs
  <2>2. grant[<<u, c>>] # None => grant[<<u, c>>] \in Grant
    BY <2>1 DEF TypeOK
  <2>3. grant[<<u, c>>] # None => grant[<<u, c>>].access \in Access /\ grant[<<u, c>>].expires \in Nat \cup {None}
    BY <2>2 DEF Grant
  <2> QED
    BY <2>1, <2>3 DEF Access
<1>2. RoleNames(u) \in RoleMap
  BY <1>1 DEF RoleNames, RoleMap, ActiveGrant
<1>3. ScopesOf(u) \in [Clusters -> SUBSET Namespaces]
  BY <1>1 DEF ScopesOf, ActiveGrant
<1>4. RolesHold(u, RoleNames(u))
  BY DEF RoleNames, RolesHold, ActiveGrant
<1>5. ASSUME NEW role, RolesHold(u, role), NEW c \in Clusters, role[c] # None
      PROVE  ScopesOf(u)[c] = grant[<<u, c>>].access.ns \/ Expired(<<u, c>>)
  <2>1. grant[<<u, c>>] # None /\ now \in Nat
    BY <1>5 DEF RolesHold, TypeOK
  <2>2. CASE ActiveGrant(<<u, c>>)
    BY <2>2 DEF ScopesOf
  <2>3. CASE ~ActiveGrant(<<u, c>>)
    BY <1>1, <2>1, <2>3 DEF ActiveGrant, Expired, IsTemporary
  <2> QED
    BY <2>2, <2>3
<1> QED
  BY <1>2, <1>3, <1>4, <1>5 DEF ScopesHold

\* Signing out everywhere touches nothing but the version.
LEMMA SignOutKeeps ==
    ASSUME IInv, NEW u \in Users, SignOutEverywhere(u)
    PROVE  IInv' /\ now' = now /\ UNCHANGED tokenVars /\ op' = op /\ \A v \in Users : Kept(v)
<1>1. TypeOK /\ EndTokens(u) /\ UNCHANGED <<now, grant, req, op, base, lost, tokenVars>>
  BY DEF IInv, SignOutEverywhere
<1>2. tv' \in [Users -> Nat] /\ tv \in [Users -> Nat]
  BY <1>1, EndTokensType DEF TypeOK
<1>3. TypeOK'
  BY <1>1, <1>2 DEF TypeOK
<1>4. ReturnsToBase' /\ GrantFollowsRequest' /\ ApprovalHoldsRequest' /\ LockIsExclusive'
  BY <1>1 DEF IInv, ReturnsToBase, ReturnsTo, IsTemporary, GrantFollowsRequest, ApprovalHoldsRequest,
              LockIsExclusive, HasStatus
<1>5. \A v \in Users : Kept(v)
  BY <1>1, <1>2 DEF Kept, EndTokens
<1> QED
  BY <1>1, <1>3, <1>4, <1>5 DEF IInv


\* A step of AccessRequests keeps the invariant.
LEMMA GrantStep == TInv /\ [Next]_vars /\ UNCHANGED tokenVars => TInv'
<1> SUFFICES ASSUME TInv, [Next]_vars, UNCHANGED tokenVars PROVE TInv'
  OBVIOUS
<1>1. IInv /\ NoSync /\ TokensTypeOK /\ TypeOK
  BY DEF TInv, IInv
<1>2. IInv' /\ TypeOK'
  BY <1>1, NextType, NextReturnsToBase, NextGrantFollowsRequest, NextApprovalHoldsRequest DEF IInv
<1>3. NoSync'
  BY <1>1, NextNoSync
<1>4. TokensTypeOK'
  BY <1>1 DEF TokensTypeOK, tokenVars
<1>5. ASSUME ~SyncRoles, NEW d \in Devices
      PROVE  SignInCurrent(signin[d])' /\ TokenCurrent(token[d])'
  <2>1. SignInCurrent(signin[d]) /\ TokenCurrent(token[d])
    BY <1>5 DEF TInv
  <2>2. now' >= now
    BY <1>1, ClockGoesOn
  <2>3. \A u \in Users : Kept(u)
    BY <1>1, <1>5, StepKeeps
  <2> QED
    BY <1>1, <1>2, <2>1, <2>2, <2>3, CurrentStays DEF tokenVars
<1> QED
  BY <1>2, <1>3, <1>4, <1>5 DEF TInv

\* Nothing of AccessRequests moves: what is not touched stays current.
LEMMA SignInStep ==
    ASSUME TInv, NEW d \in Devices, SignIn(d)
    PROVE  TInv'
<1>1. IInv /\ NoSync /\ TokensTypeOK /\ TypeOK
  BY DEF TInv, IInv
<1>2. UNCHANGED vars
  BY DEF SignIn, ReadUser, ReadMatrix, IssueToken, SignInFails
<1>3. IInv' /\ NoSync'
  BY <1>1, <1>2 DEF vars, IInv, TypeOK, ReturnsToBase, ReturnsTo, IsTemporary, GrantFollowsRequest,
                    ApprovalHoldsRequest, LockIsExclusive, HasStatus, NoSync
<1>4. \A u \in Users : tv[u] \in Nat
  BY <1>1 DEF TypeOK
<1> DEFINE SignInHolds(x) == x # NoSignIn =>
             /\ x.tv <= tv[x.user]
             /\ x.step = "roles" /\ x.tv = tv[x.user] => RolesHold(x.user, x.role)
           TokenHolds(x) == x # None =>
             /\ x.tv <= tv[x.user]
             /\ x.tv = tv[x.user] => RolesHold(x.user, x.role) /\ ScopesHold(x.user, x.role, x.ns)
           Good == /\ signin' \in [Devices -> SignIns]
                   /\ token' \in [Devices -> Tokens \cup {None}]
                   /\ ~SyncRoles => \A e \in Devices : SignInHolds(signin'[e]) /\ TokenHolds(token'[e])
<1>5. /\ signin \in [Devices -> SignIns] /\ token \in [Devices -> Tokens \cup {None}]
      /\ ~SyncRoles => \A e \in Devices : SignInHolds(signin[e]) /\ TokenHolds(token[e])
  BY <1>1 DEF TInv, TokensTypeOK, SignInCurrent, TokenCurrent
<1>6. ASSUME NEW u \in Users, ReadUser(d, u)
      PROVE  Good
  <2> DEFINE new == [step |-> "user", user |-> u, tv |-> tv[u]]
  <2>1. new \in SignIns /\ new.tv = tv[new.user] /\ new.step # "roles"
    BY <1>4 DEF SignIns
  <2>2. new.user \in Users
    OBVIOUS
  <2>3. signin' = [signin EXCEPT ![d] = new] /\ token' = token
    BY <1>6 DEF ReadUser
  <2> HIDE DEF new
  <2>4. SignInHolds(new)
    BY <1>4, <2>1, <2>2
  <2> HIDE DEF SignInHolds, TokenHolds
  <2> QED
    BY <1>5, <2>1, <2>3, <2>4
<1>7. ASSUME ReadMatrix(d)
      PROVE  Good
  <2> DEFINE u == signin[d].user
             new == [step |-> "roles", user |-> u, tv |-> signin[d].tv, role |-> RoleNames(u)]
  <2>1. signin[d] \in SignIns /\ signin[d].step = "user" /\ signin[d] # NoSignIn
    BY <1>5, <1>7 DEF ReadMatrix, NoSignIn
  <2>2. u \in Users /\ signin[d].tv \in Nat
    BY <2>1 DEF SignIns, NoSignIn
  <2>3. ~SyncRoles => signin[d].tv <= tv[u]
    BY <1>5, <2>1
  <2>4. RoleNames(u) \in RoleMap /\ RolesHold(u, RoleNames(u))
    BY <1>1, <2>2, ReadHolds
  <2>5. signin' = [signin EXCEPT ![d] = new] /\ token' = token
    BY <1>7 DEF ReadMatrix
  <2> HIDE DEF u
  <2>6. new \in SignIns /\ new.tv = signin[d].tv /\ new.user = u /\ new.role = RoleNames(u)
    BY <2>2, <2>4 DEF SignIns
  <2> HIDE DEF new
  <2>7. ~SyncRoles => SignInHolds(new)
    BY <2>3, <2>4, <2>6
  <2> HIDE DEF SignInHolds, TokenHolds
  <2> QED
    BY <1>5, <2>5, <2>6, <2>7
<1>8. ASSUME IssueToken(d)
      PROVE  Good
  <2> DEFINE u == signin[d].user
             role == signin[d].role
             new == [user |-> u, tv |-> signin[d].tv, role |-> role, ns |-> ScopesOf(u)]
  <2>1. signin[d] \in SignIns /\ signin[d].step = "roles" /\ signin[d] # NoSignIn
    BY <1>5, <1>8 DEF IssueToken, NoSignIn
  <2>2. u \in Users /\ signin[d].tv \in Nat /\ role \in RoleMap
    BY <2>1 DEF SignIns, NoSignIn
  <2>3. ~SyncRoles => signin[d].tv <= tv[u] /\ (signin[d].tv = tv[u] => RolesHold(u, role))
    BY <1>5, <2>1
  <2>4. ScopesOf(u) \in [Clusters -> SUBSET Namespaces] /\ (RolesHold(u, role) => ScopesHold(u, role, ScopesOf(u)))
    BY <1>1, <2>2, ReadHolds
  <2>5. token' = [token EXCEPT ![d] = new] /\ signin' = [signin EXCEPT ![d] = NoSignIn]
    BY <1>8 DEF IssueToken
  <2> HIDE DEF u, role
  <2>6. new \in Tokens /\ new.tv = signin[d].tv /\ new.user = u /\ new.role = role /\ new.ns = ScopesOf(u)
    BY <2>2, <2>4 DEF Tokens
  <2> HIDE DEF new
  <2>7. ~SyncRoles => TokenHolds(new)
    BY <2>3, <2>4, <2>6
  <2>8. NoSignIn \in SignIns /\ SignInHolds(NoSignIn)
    BY DEF SignIns
  <2> HIDE DEF SignInHolds, TokenHolds
  <2> QED
    BY <1>5, <2>5, <2>6, <2>7, <2>8
<1>9. ASSUME SignInFails(d)
      PROVE  Good
  <2>1. NoSignIn \in SignIns /\ SignInHolds(NoSignIn)
    BY DEF SignIns
  <2>2. signin' = [signin EXCEPT ![d] = NoSignIn] /\ token' = token
    BY <1>9 DEF SignInFails
  <2> HIDE DEF SignInHolds, TokenHolds
  <2> QED
    BY <1>5, <2>1, <2>2
<1>10. Good
  BY <1>6, <1>7, <1>8, <1>9 DEF SignIn
<1>11. TokensTypeOK'
  BY <1>10 DEF TokensTypeOK
<1>12. ASSUME ~SyncRoles, NEW e \in Devices
       PROVE  SignInCurrent(signin[e])' /\ TokenCurrent(token[e])'
  BY <1>2, <1>10, <1>12 DEF vars, SignInCurrent, TokenCurrent, RolesHold, ScopesHold, Expired, IsTemporary, NoSignIn
<1> QED
  BY <1>3, <1>11, <1>12 DEF TInv

\* Signing out everywhere keeps the invariant.
LEMMA SignOutStep ==
    ASSUME TInv, NEW u \in Users, SignOutEverywhere(u)
    PROVE  TInv'
<1>1. IInv /\ NoSync /\ TokensTypeOK /\ TypeOK
  BY DEF TInv, IInv
<1>2. IInv' /\ now' = now /\ UNCHANGED tokenVars /\ op' = op /\ \A v \in Users : Kept(v)
  BY <1>1, SignOutKeeps
<1>3. TypeOK' /\ now' >= now
  BY <1>1, <1>2 DEF IInv, TypeOK
<1>4. NoSync' /\ TokensTypeOK'
  BY <1>1, <1>2 DEF NoSync, TokensTypeOK, tokenVars
<1>5. ASSUME ~SyncRoles, NEW d \in Devices
      PROVE  SignInCurrent(signin[d])' /\ TokenCurrent(token[d])'
  <2>1. SignInCurrent(signin[d]) /\ TokenCurrent(token[d])
    BY <1>5 DEF TInv
  <2> QED
    BY <1>1, <1>2, <1>3, <2>1, CurrentStays DEF tokenVars
<1> QED
  BY <1>2, <1>4, <1>5 DEF TInv

-----------------------------------------------------------------------------
(* The theorems.                                                           *)

\* The inductive invariant holds in every state.
THEOREM TokensInvariant == TokensSpec => []TInv
<1>1. TokensInit => TInv
  <2> SUFFICES ASSUME TokensInit PROVE TInv
    OBVIOUS
  <2>1. IInv
    BY InitIInv DEF TokensInit
  <2>2. NoSync
    BY DEF TokensInit, Init, Idle, NoSync
  <2>3. \A d \in Devices : signin[d] = NoSignIn /\ token[d] = None
    BY DEF TokensInit
  <2>4. TokensTypeOK
    BY DEF TokensInit, TokensTypeOK, SignIns
  <2> QED
    BY <2>1, <2>2, <2>3, <2>4 DEF TInv, SignInCurrent, TokenCurrent
<1>2. TInv /\ [TokensNext]_allVars => TInv'
  <2> SUFFICES ASSUME TInv, [TokensNext]_allVars PROVE TInv'
    OBVIOUS
  <2>1. CASE Next /\ UNCHANGED tokenVars
    BY <2>1, GrantStep
  <2>2. CASE \E d \in Devices : SignIn(d)
    BY <2>2, SignInStep
  <2>3. CASE \E u \in Users : SignOutEverywhere(u)
    BY <2>3, SignOutStep
  <2>4. CASE UNCHANGED allVars
    <3>1. UNCHANGED vars /\ UNCHANGED tokenVars
      BY <2>4 DEF allVars, vars, tokenVars
    <3> QED
      BY <3>1, GrantStep
  <2> QED
    BY <2>1, <2>2, <2>3, <2>4 DEF TokensNext
<1> QED
  BY <1>1, <1>2, PTL DEF TokensSpec

\* Sign-ins, tokens and token versions hold values of their types.
THEOREM TokensTypes == TokensSpec => []TokensTypeOK
<1>1. TInv => TokensTypeOK
  BY DEF TInv
<1> QED
  BY <1>1, TokensInvariant, PTL

\* A token that is still accepted shows the roles and the namespaces of the
\* grants as they stand, however sign-ins and changes are interleaved.
THEOREM TokensShowGrants == TokensSpec => []AcceptedTokenShowsGrants
<1>1. TInv => AcceptedTokenShowsGrants
  BY DEF TInv, AcceptedTokenShowsGrants, Accepted, TokenCurrent, RolesHold, ScopesHold
<1> QED
  BY <1>1, TokensInvariant, PTL

\* Without the group sync, no change of a grant stands while the tokens made
\* from the old one still work.
THEOREM ChangesEndTokens == TokensSpec => ChangeEndsTokens
<1> DEFINE Ends == ~SyncRoles =>
         \A pr \in Pairs : grant[pr] # None /\ grant'[pr] # grant[pr] => tv'[pr[1]] > tv[pr[1]]
<1>1. ASSUME TInv, TInv', ~SyncRoles, [TokensNext]_allVars, NEW pr \in Pairs, grant[pr] # None, grant'[pr] # grant[pr]
      PROVE  tv'[pr[1]] > tv[pr[1]]
  <2>1. IInv /\ NoSync /\ TypeOK /\ TypeOK'
    BY <1>1 DEF TInv, IInv
  <2>2. [Next]_vars
    BY <1>1 DEF TokensNext, SignIn, ReadUser, ReadMatrix, IssueToken, SignInFails, SignOutEverywhere, allVars, vars
  <2>3. Kept(pr[1]) /\ pr[1] \in Users /\ pr[2] \in Clusters /\ pr = <<pr[1], pr[2]>>
    BY <1>1, <2>1, <2>2, StepKeeps, PairParts
  <2>4. tv[pr[1]] \in Nat /\ tv'[pr[1]] \in Nat
    BY <2>1, <2>3 DEF TypeOK
  <2> QED
    BY <1>1, <2>3, <2>4 DEF Kept
<1>2. TInv /\ TInv' /\ [TokensNext]_allVars => [Ends]_vars
  BY <1>1
<1> QED
  BY <1>2, TokensInvariant, PTL DEF TokensSpec, ChangeEndsTokens

===============================================================================

----------------------------- MODULE ClusterTokens -----------------------------
(***************************************************************************)
(* Sign-in and token refresh of auth-service, composed with the changes of *)
(* cluster grants that AccessRequests models.  A token is a snapshot: the  *)
(* user's token_version, the role on each cluster and the namespaces of    *)
(* each grant, read one query after the other while grants change.         *)
(***************************************************************************)
EXTENDS AccessRequests

CONSTANT Devices      \* where a user signs in; each keeps the last token

VARIABLES
    signin,           \* the sign-in that is under way on each device
    token             \* the token each device holds

tokenVars == <<signin, token>>
allVars   == <<vars, tokenVars>>

NoSignIn == [step |-> "none"]

SignIns ==
    {NoSignIn}
    \cup [step : {"user"}, user : Users, tv : Nat]
    \cup [step : {"roles"}, user : Users, tv : Nat, role : RoleMap]

Tokens == [user : Users, tv : Nat, role : RoleMap, ns : [Clusters -> SUBSET Namespaces]]

TokensTypeOK ==
    /\ signin \in [Devices -> SignIns]
    /\ token \in [Devices -> Tokens \cup {None}]

-----------------------------------------------------------------------------
TokensInit ==
    /\ Init
    /\ signin = [d \in Devices |-> NoSignIn]
    /\ token = [d \in Devices |-> None]

\* GetUserByEmail: the row of the user with its token_version.
ReadUser(d, u) ==
    /\ signin[d] = NoSignIn
    /\ signin' = [signin EXCEPT ![d] = [step |-> "user", user |-> u, tv |-> tv[u]]]
    /\ UNCHANGED <<vars, token>>

\* buildPermissionMatrix: the active grants and the permissions of their roles.
ReadMatrix(d) ==
    LET s == signin[d] IN
    /\ s.step = "user"
    /\ signin' = [signin EXCEPT ![d] = [step |-> "roles", user |-> s.user, tv |-> s.tv, role |-> RoleNames(s.user)]]
    /\ UNCHANGED <<vars, token>>

\* Mutant of ScopesOf: a cluster without a grant gets the NULL of an outer join.
ScopesOrNull(u) ==
    [c \in Clusters |-> IF ActiveGrant(<<u, c>>) THEN grant[<<u, c>>].access.ns ELSE {None}]

\* ListUserClusterNamespaces: the scopes of the active grants; absent is {}.
ScopesOf(u) ==
    [c \in Clusters |-> IF ActiveGrant(<<u, c>>) THEN grant[<<u, c>>].access.ns ELSE {}]

\* Mutant of IssueToken: the version is read when the token is made.
IssueWithLateVersion(d) ==
    LET s == signin[d] IN
    /\ s.step = "roles"
    /\ token' = [token EXCEPT ![d] = [user |-> s.user, tv |-> tv[s.user], role |-> s.role, ns |-> ScopesOf(s.user)]]
    /\ signin' = [signin EXCEPT ![d] = NoSignIn]
    /\ UNCHANGED vars

\* The namespaces, and CreateToken with the version read at the start.
IssueToken(d) ==
    LET s == signin[d] IN
    /\ s.step = "roles"
    /\ token' = [token EXCEPT ![d] = [user |-> s.user, tv |-> s.tv, role |-> s.role, ns |-> ScopesOf(s.user)]]
    /\ signin' = [signin EXCEPT ![d] = NoSignIn]
    /\ UNCHANGED vars

\* A failed query or a dropped connection: no token.
SignInFails(d) ==
    /\ signin[d] # NoSignIn
    /\ signin' = [signin EXCEPT ![d] = NoSignIn]
    /\ UNCHANGED <<vars, token>>

\* BumpTokenVersion: sign out everywhere, or a password reset.
SignOutEverywhere(u) ==
    /\ tv[u] < MaxVersion
    /\ EndTokens(u)
    /\ UNCHANGED <<now, grant, req, op, base, lost, tokenVars>>

SignIn(d) ==
    \/ \E u \in Users : ReadUser(d, u)
    \/ ReadMatrix(d)
    \/ IssueToken(d)
    \/ SignInFails(d)

TokensNext ==
    \/ Next /\ UNCHANGED tokenVars
    \/ \E d \in Devices : SignIn(d)
    \/ \E u \in Users : SignOutEverywhere(u)

TokensSpec == TokensInit /\ [][TokensNext]_allVars

-----------------------------------------------------------------------------
\* tokenMiddleware: the claimed version is the user's current one.
Accepted(d) == token[d] # None /\ token[d].tv = tv[token[d].user]

\* A token that is still accepted shows the grants as they stand: the role of
\* the row, and its namespaces unless the grant has run out and waits for the
\* sweeper.  Neither a change of the grants during the sign-in nor one after
\* it leaves a working token with the old matrix ("the change never stands
\* while they still work").  With the group sync, tokens end only afterwards.
AcceptedTokenShowsGrants ==
    ~SyncRoles =>
    \A d \in Devices : Accepted(d) =>
        \A c \in Clusters : token[d].role[c] # None =>
            LET pr == <<token[d].user, c>> IN
            /\ grant[pr] # None
            /\ grant[pr].access.role = token[d].role[c]
            /\ token[d].ns[c] = grant[pr].access.ns \/ Expired(pr)
===============================================================================

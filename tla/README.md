# Kubeast: a TLA+ verification project

Kubeast is a multi-cluster Kubernetes console: a React frontend, a set of Go services over one Postgres
database, a Python AI service and a CI/CD pair (ci-controller, deploy-service). This directory models the parts
of it in which several actors share state, checks them with TLC and proves the central results with TLAPS.
`PROJECT.json` maps every definition to the lines it stands for.

## 1. Inventory

| component | state | operations | interacts with | what is hard |
| --- | --- | --- | --- | --- |
| access requests, cluster grants (`auth-service-go`) | `user_cluster_roles`, `access_requests`, `auth_users.token_version` | file, cancel, approve, reject, set, revoke, group sync, sweep | each other through rows of Postgres; token issue; the audit log | READ COMMITTED interleavings, rows that are not there to be locked, handlers that stop half way, expiry |
| session tokens (`handler/auth_user.go`, `permission_builder.go`, `security/middleware.go`) | the token of each device | sign in, refresh, check, sign out everywhere | reads the grants one query after the other | a snapshot made of several reads |
| audit hash chain (`auditchain`) | chain columns of `auth_audit_logs`, `audit_anchors` | seal, anchor, verify | the retention purge, every writer of audit rows | late commits, two replicas, crash between sink and table |
| audit sinks (`auditsink`) | `audit_sink_cursors`, advisory lock, one loop per sink | lock, ensure cursor, read a page, send a chunk, advance | writers, retention (floor) | at-least-once delivery, a leader that does not know it lost the lock |
| retention (`retention`) | none of its own | read chain floor, read sink floor, batched DELETEs | chain, anchors, sinks | floors that are stale when used |
| build queue (`ci-controller-go/internal/queue`) | running, waiting, three indexes | Submit, Finish, Remove, Restore | Jobs in the cluster through the controller | crash in the middle of a decision, late ends, starvation |
| token version cache, live sessions (`pkg/auth`) | version cache per service | check, hold, refresh | auth-service | racing lookups, outages, TTLs |
| watch multiplexer (`k8s-service-go/internal/ws`, `frontend/src/services/watchMultiplexer.ts`, `watchProblemStore.ts`) | browser: listeners by key, socket, reconnect timer, problems; server: the places of each connection, one goroutine per watch | subscribe, unsubscribe, open, close, reconnect; REQUEST, CLOSE, watch, resync, forget | Kubernetes watches, live sessions, every list on screen | two ends that notice a broken connection in their own time, replaced watches that end late, limits, a second socket while the first closes |
| chat stream (`frontend/src/services/chatStreamManager.ts`) | text on screen, queue of letters, timer, positions of tool blocks, failed turns | text, call, outcome, approval, [DONE], tick, stop, failure, next question | the event stream of ai-service, the chat screens | a timer that races the end of the stream, outcomes out of order written into a moving text |
| session recording (`k8s-service-go/internal/recording`) | recordings and their uploads | start, append, finish, recover | object store, retention | interruption and restart |
| fail-closed audit gate (`pkg/audit`) | none | write before or after the guarded action | database | the record must exist although the action fails |
| webhooks, polling (`ci-controller-go`) | seen deliveries, poll plan | deliver, poll | build queue | duplicates |
| promotion (`deploy-service-go`) | branches of a GitOps repository | plan, promote | Git, Argo CD | retries |
| AI assistant, tool server, investigations | sessions, tool approvals, investigations | ask, approve, run a tool | LLM, Kubernetes | approval of exactly the call that runs |
| everything else | rows or caches of one service | one statement per request | | little: pure functions, rendering, screens |

What makes each modelled component correct:

* grants: a temporary grant is what was approved, ends, and gives way to exactly the access that was permanent;
  a request is decided once; a change of access takes effect on tokens that are already out.
* chain: what is inside the retention window verifies; anchors agree with the chain and leave out no kept row between the first and the last position they speak of.
* sinks: no row is skipped; no row is purged before every sink has it.
* watch socket: a list on screen is followed by a watch or says that it is not; the places counted against the
  limits are those of the running watches; after a broken connection the lists come back.
* chat stream: the screen shows in order what the server told, each outcome in the block of its own call, and all
  of it once the answer ends, however it ends.
* queue: the indexes agree with the lists; no place is idle while a build could use it; every Job is accounted
  for after a crash; nothing waits for ever.

## 2. Modules

| module | models | extends |
| --- | --- | --- |
| `AccessRequests` | grants, requests, approver, admin, group sync, sweeper | |
| `ClusterTokens` | sign-in, refresh and the token check, composed with the above | `AccessRequests` |
| `AccessRequestsProofs` | theorems about `AccessRequests` | `AccessRequests` |
| `ClusterTokensProofs` | theorems about `ClusterTokens` | `ClusterTokens`, `AccessRequestsProofs` |
| `AuditLog` | audit table, sealer, purge, anchorer, dispatcher | |
| `BuildQueue` | queue of ci-controller, controller and Jobs | |
| `WatchSocket` | the browser's and the server's multiplexer and the sockets between them | |
| `Answer` | abstract: what the chat promises about the answer on screen | |
| `ChatStream` | the page's chat stream; implements `Answer` (`KeepsPromise`) | instantiates `Answer` |
| `AuditLogProofs` | theorems about `AuditLog` | `AuditLog`, `NumberLemmas` |
| `BuildQueueProofs` | theorems about `BuildQueue` | `BuildQueue`, `NumberLemmas` |
| `WatchSocketProofs` | theorems about `WatchSocket` | `WatchSocket` |
| `ChatStreamProofs` | theorems about `ChatStream` | `ChatStream`, `NumberLemmas` |
| `NumberLemmas` | least and largest numbers, induction along a sequence, the states of a loop | |
| `MC...` | instances for TLC | the module they are named after |

Definitions whose comment begins with "Mutant of" are deliberately wrong variants of the definition that follows
them. Nothing uses them in the specifications; putting one in place of its original makes the property named in
`PROJECT.json` fail, which shows that the property depends on that line of the code.

### AccessRequests

State: `grant` (rows of `user_cluster_roles` by user and cluster; `restore_role_id` and `restore_namespaces`, which
are always written together, are one field), `req` (rows of `access_requests`), `tv` (`token_version`), `now`, and
`op`, the HTTP request each process serves with what it has read so far. `base` and `lost` are history variables.

One action is one statement or one transaction. A transaction that locks what it read with `FOR UPDATE` is one
action. `ApproveAccessRequest` is one action when the grant row exists; when it does not exist there is nothing to
lock, and the approval is two actions (`ApproveFindsNoGrant`, `ApproveWithoutGrant`) with the lock of the request
in between. `CreateAccessRequest` is three (grant, pending check, insert). The admin's set and revoke are the
transaction and then the update of the requests. The group sync is two reads, a statement per cluster and the
deferred end of the tokens. `HandlerDies` stops any of them between two statements.

Data: a role, a cluster and a namespace are model values; a role is requestable or not (the configured list and
the `Write` ceiling together); a scope is a set of namespaces, empty for the whole cluster. The permission ceiling
of the grantor only refuses and is abstracted to "some other admin acts". The clock of auth-service and of the
database are one.

### ClusterTokens

`ReadUser`, `ReadMatrix` and `IssueToken` are the queries of `issueToken`, `Login` and `Refresh` in their order:
the user with `token_version`, the roles, the namespaces; the token carries the version of the first. The matrix
and the list of role names are read in one step. `Accepted` is the comparison of `tokenMiddleware`.

### AuditLog

Inserting takes an id and `created_at` (`InsertRecord`); the row is visible when it commits (`CommitRecord`), at
most `MaxOpen` later. A hash is the sequence of ids it covers, so that equal hashes mean equal chains.
`SealBatch` is one transaction: rows that vanish between its statements make it roll back, and a purge that runs
between them has the effect of one that runs after it. The purge reads the oldest kept position, then the floor of
the sinks, and then deletes batch after batch with those values. The anchorer reads the head, then the last anchor,
puts the digest into the sink and inserts the anchor. The dispatcher's loops run in the replica that got the
advisory lock; `LoseLock` lets the lock go on the server, `NoticeLost` is the replica's ping finding out.

Abstractions: id and `created_at` are taken in the same step (in Postgres they can be inverted by less than a clock
unit); the `SELECT` inside a `DELETE` and the deletion are one step (see the hazard at `retention.go:183`); the
`INSERT` and the `SELECT` of `EnsureCursor` are one step; so are the anchorer's read of the last anchor and of the bounds
and its put (`AnchorPutsObject`), since nobody reads the digest back: it is only put or not put.

### BuildQueue

`q` is the struct `Queue`. Every method runs under its mutex and is a function of `q` (`SubmitTo`, `Fill`,
`Release`, `RestoreOf`); the loops of `fill` and of `Restore` are recursive functions over the positions of the list
they walk. The actions add what the controller gets to do (`toStart`, `toCancel`). The controller
creates and deletes Jobs one at a time, may stop in between (`Crash`) and makes the queue again from the unfinished
Jobs (`Restore`); these are modelled from the comments of `queue.go` and `restore.go` and from `RunningBuilds`. `ErrDuplicate` and `ErrFull` change nothing.
The errors of `Restore` for a build without id, ref or with an id given twice are left out: the Jobs of the model are
those the controller made, each with its own id. Jobs are restored in the order of their creation; ties
within the resolution of `CreationTimestamp` are not modelled.

### WatchSocket

A key stands for (cluster, path, query). The browser keeps `listeners`, `socket` (`this.socket`), `ready` (the
`readyState` of every WebSocket that exists, not only of the current one), `timer`, `asking` (calls of
`liveSessionEnded` that wait for an answer) and `problem`. The server keeps per connection the `place` of each key
(`m.subs` and `connSubs`, which are written together under the mutex) and the goroutines that run (`watches`):
`runWatch` in its phases, and then `forgetSubscription`. `up` and `down` are the frames on their way; `Cut` breaks
a connection, and each end finds out later (`ClosedAbnormally`, `Disconnected`). `SessionEnds` is the end of the
session the connection hangs off: the writer sends the close code and drops what is queued. `live` says that the
context of a watch is not cancelled. Whether the path names a kind that is watched at all (`parsePath`, `resourceToGVR`)
is a property of the key: `Unsupported` are the keys for which it does not. Their watch sends an ERROR with the reason
`unsupported`, which the page ignores (`SILENT` in `watchProblemStore.ts`), and returns (`WatchUnsupported`). The other
silent reason, `not_served`, is one of the failures after which a watch tries again (`WatchFails`). Subscriptions of
one key are told apart by the first number that none of its running goroutines has; there may be any number of them. A
cancelled watch can still queue the frame in its hand, as both cases of the `select` in `send` are ready (`late`).

`subscribe` waits for `connect`; its continuation on a socket that was open before runs before any other event, so
it is one step, and on one that was not it does nothing, because the socket asks for every subscription when it
opens. Several calls of `subscribe` and `unsubscribe` inside one JavaScript task, before the continuations of the first
ones, are not covered: each call is a step of its own. The pause between two tries of a watch and the backoff of the reconnect are left to the scheduler.
`wasOpenBefore` is taken before `connect`, which is why a socket in CLOSING leads to a second one.

What is not claimed, because the code does not have it: `onclose` clears `this.socket` whichever socket closed, so a
list asked for while a session ends can leave a socket that the page no longer knows, with its watches, until it is
closed by the server; and a late frame of a closed watch, or a frame of such a socket, can clear the problem of a key
or set it. `ListsFollowedOrTold` leaves out keys last heard of in that way (`old`). It also leaves out the `Unsupported`
keys, whose list is neither followed nor told about, on purpose: "a kind with no live updates ... never had any to lose"
(`watchProblemStore.ts:2`). A watch that the cluster answers with `not_served` counts as following, since it goes on
trying; the same comment says that its page says so itself. The rows themselves are not
modelled: a watch that starts again from no version without a RESYNC (a reconnect) leaves deleted rows until the list
is read again.

### Answer and ChatStream

Text is a sequence of cells: letters, and the pieces the page writes. The words that stand where a result will go
(`RESULT_PLACEHOLDER`) are a cell that text, arguments and results can hold as well, and white space is a cell, since
`appendToolBlock` trims it. `Answer` draws a list of parts as `answer_markdown` of ai-service does for the saved
answer and says that the screen is, up to white space, that drawing of a growing prefix of what was told. It has no
queue, no timer and no positions. `ChatStream` has all three, with `told`, `parked` and `over` as history variables;
the mapping is `shown <- Len(told) - Len(queue)`, `screen <- content` and `past <- failedTurns` without white space.
Its actions are the branches of the read loop, the tick, `stop`, `_fail` and `startSessionChat`. JavaScript runs each
of them to its end; the rejection caused by `stop` runs before any other event and changes nothing more, so it is
part of `Stop`. A call has one outcome, but outcomes come in any order (Claude Code runs calls at once and numbers
them when they start, `claude_code.py:452`). An approval names the tool and not the call, so its card may hang on
another call of that tool; the card reads its arguments by the approval's id (`ApprovalCard.tsx`), and `ApprovalsShown`
says that no card gets lost.

## 3. Runs

| run | shows | instance |
| --- | --- | --- |
| `access_requests` | `TypeOK`, `ReturnsToBase`, `GrantFollowsRequest`, `ApprovalHoldsRequest`, `DecidedOnce` | one user and cluster, two roles, two requests, two handlers that may die, group sync on |
| `access_requests_live` | `PendingEnds`, `TemporaryEnds` | the same with one handler, group sync off, fairness |
| `cluster_tokens` | `TokensTypeOK`, `AcceptedTokenShowsGrants`, `ChangeEndsTokens` | one device, one namespace, so that grants may be scoped |
| `audit_chain` | `TypeOK`, `WindowVerifies`, `ChainLinked`, `AnchorsMatch` | one replica, two overlapping calls of `AnchorOnce` (schedule and admin), two anchors, three ids, no sinks, batches of two and of one |
| `audit_sinks` | `CursorMeansSent`, `PurgedWereSent` | two replicas, one filtered sink, three ids, chain off |
| `build_queue` | `TypeOK`, `IndexesAgree`, `NoIdlePlace`, `JobsAccountedFor`, `StartsWithinCaps`, `WaitingEnds` | two repositories with two branches, three builds at a time, two places, one per repository |
| `watch_socket` | `TypeOK`, `ListsFollowedOrTold`, `PlacesOnlyForScreen`, `LiveWatchHoldsPlace`, `NoPlaceLeaks`, `SocketWillReopen`, `ListsComeBack` | a key that is watched and one that is not supported, two listeners, two sockets, one place, one broken or ended connection |
| `chat_stream` | `TypeOK`, `TypewriterRuns`, `BlocksPointHome`, `ApprovalsShown`, `KeepsPromise` (the refinement of `Answer`), `AnswerEnds` | two questions in one or two conversations, two calls, five events |

Runs that disagree with a sentence of the repository (the findings of `PROJECT.json`):

* `approved_requests_close` (`ApprovedEnds`): a second approval over a temporary grant replaces `request_id`;
  nothing closes the first request when the grant ends.
* `revoke_is_final` (`NothingAfterRevoke`): an approval that finds no row restores nothing; a further approval over
  it takes the temporary role for the permanent one (`COALESCE(restore_role_id, role_id)`) and the expiry makes it
  permanent. `ReturnsToBase` excludes exactly the pairs to which this, or the overwriting of a row that was
  inserted in the meantime, has happened (`lost`).
* `audit_purge_prefix` (`OnlyPrefixGoes`): positions follow the order of commits and the sink floor the order of
  ids, so with a sink behind the purge can leave a gap. `WindowVerifies` is the part that holds.
* `audit_anchors_evidence` (`AnchorsStayEvidence`): once the purge has taken every sealed row, positions start
  again at 1 and old anchors contradict the new rows. `AnchorsMatch` is the part that holds.

Bounds. `Horizon` ends the filing of requests and the changes by hand, not the clock, so that everything filed can
run out; `MaxVersion` bounds changes by hand. Two requests and two handlers are enough for each pair of statements
to meet, for an approval over an approval, and for a third actor (the sweeper) to come in between. Three audit ids
give one row committed late between two others; `AuditDays = 2`, `Settle = MaxOpen = 1` and `Horizon = 3` let rows
settle, be sent and be purged. `CursorMeansSent` and `PurgedWereSent` assume `MaxOpen <= Settle`, which is what
the five seconds of `settleDelay` are for, and `WindowVerifies` assumes `MaxOpen <= AuditDays` (see section 4). Three build ids with two places give every relation of running,
waiting and replaced builds; an id is used again when its build is over, so that histories are unbounded.
In `watch_socket` one watched key is
enough for a watch and its successor, since watches of different keys meet only at the limits; the second key is of
a kind that is not supported, and its watch holds the one place until it has returned; that place makes
the limit refuse a key that comes too early after the other's or after another socket's; two subscribe calls give a list that leaves and
comes back in every phase of the first, and one drop gives a reconnect, a second socket and both kinds of end.
Safety was also checked with two watched keys, with three subscribe calls, and with three sockets and two drops, without
a violation. In `build_queue` one place per repository hides the reason "the branch is
busy" behind the limit of the repository; the theorem `PlacesAreFilled` covers it for every limit.
In `chat_stream` a chunk of five letters makes a tick take two, one ends in white space and one is the placeholder's
words; five events are two calls, text between them and both outcomes in either order, or a turn that fails and
the next one. Symmetry is used only in runs without liveness. The runs do not check deadlock: a system in which nobody asks for
anything may rest, and the bounded ones end.

Fairness. `AccessRequests`: time passes; the sweeper runs on a ticker in every replica (`accessrequests.Run`), so
reverting is weakly fair, and lapsing is strongly fair because its UPDATE queues for the lock of a row instead of
looking again; a handler runs its next statement or dies with its connection, which is asked of the rest of an approval
(it holds a row lock) and of `EndApprovedRequests`, the statement after an admin's change. In
`approved_requests_close` handlers do not die, so what violates `ApprovedEnds` there is the replaced `request_id`
alone: with an approval that also closes the request it replaces, the same run finds no violation. `BuildQueue`: the controller
gets round to each Job it has to create, delete or finish, and a build ends (`ActiveDeadlineSeconds` in
`jobspec.go`). `WatchSocket`: timers
fire, the browser delivers events and answers arrive (weak fairness); a read loop or a goroutine that waits for room
on the connection's channel gets it in its turn, as Go serves blocked senders in order (strong fairness). A watch
that is on need not have events, and no fairness is asked of the network to hold or to break. `ChatStream`: the
browser's interval ticks. No fairness is asked of people or of pushes.

## 4. Proofs

Every invariant and every action property of the passing runs is also a theorem, for every value of the constants
that meets the assumptions named in the modules (numbers are numbers, `None` is none of the values, requestable roles
are roles and the like). Each component has one inductive invariant; TLC checked it on the instance of the run, or on
a larger one, before it was proved. There is a lemma per action for the conjuncts that the action can disturb.

* `AccessRequestsProofs`: `TypeCorrect`, `ComesBack`, `GrantMatchesRequest`, `ApprovalIsExclusive` and
  `DecisionsAreFinal`. The inductive invariant `IInv` is the conjunction of the checked invariants with
  `LockIsExclusive`: one approval at a time holds the row of a request. Without it the invariant is not inductive:
  if two approvals held one request, the commit of the first would leave the second deciding an approved request.
  `GrantFollowsRequest` is in turn needed by `DecisionsAreFinal`, and `ApprovalHoldsRequest` by both.
* `ClusterTokensProofs`: `TokensTypes`, `TokensShowGrants` and `ChangesEndTokens`. `TInv` adds to `IInv` that, without
  the group sync, a sign-in or token whose version is still current shows the roles and scopes in the table. Its step
  case rests on one fact about every action of `AccessRequests`: versions never shrink, and a user whose version stays
  has no existing row changed (`Kept`).
* `AuditLogProofs`: `AuditTypes`, `ChainStaysLinked`, `WindowStaysWhole`, `AnchorsAgree`, `DeliveryAtLeastOnce` and
  `PurgeWaitsForSinks`. `AuditInv` has a part per promise over a common base (`RowsInOrder`: ids follow `created_at`,
  an insert is open for `MaxOpen` at most).
  - Chain: `ChainLinked` needs `HashesRight`, that the hash of a row extends what it recorded as the previous hash.
  - Anchors: while the head was never purged, the head's hash covers every sealed row (`WholeChain`), so that a head
    read some time ago is a prefix of the head now (`CallsOnChain`), and an anchor about to be inserted starts at or
    before the oldest row or right after another anchor (`Joins`); that is why overlapping calls leave no gap.
  - Sinks: a cursor being right is not inductive. What every loop has read has to be right too (`LoopsOK`): up to the
    end of its page all inserts are decided, and what is not sent is still in the page. An advance by a leader that
    lost the lock is then harmless.
  - Window: a purge that read `minKept` long ago holds back the rows of that time by their position; for rows sealed
    since, nothing older comes after them in the chain, and nothing can (`PurgesKnow`).
    `WindowVerifies` was first stated without a hypothesis. The proof of this part failed for inserts that are open for
    longer than the retention window: such a row is sealed after younger rows and is purged from between them. It now
    says `MaxOpen <= AuditDays`, which any real window of days meets.
* `BuildQueueProofs`: `QueueTypes`, `QueueIndexes`, `PlacesAreFilled`, `JobsFollowBuilds` and `CapsHoldStarts`. `BInv`
  says of the queue that the running builds, the line and their indexes agree and are apart (`QueueOK`) and that no
  one in line could start (`LineIdle`), and of the controller that an id names one build wherever it is (`IdsOnce`), that
  waiting builds have no Job, and that a cancelled build runs no longer (`Books`). The loops of `fill` and `Restore` have loop
  invariants (`Walked`, `Restored`) with a lemma each for their start, their step and their end. `LineIdle` survives
  `fill` because starting a build only takes room from those that were passed over.
* `WatchSocketProofs`: `WatchTypes`, `WatchHoldsPlace`, `PlacesReturn`, `SocketReturns`, `PlacesFollowScreen` and
  `ListsFollowed`. The last two speak of a system at rest; `WInv` says what holds on the way there. In the frames going
  up, REQUEST and CLOSE of a key alternate (`AsksAlternate`), and the last of them agrees with the screen
  (`AsksForScreen`). A list on screen is asked for in a frame on its way, watched, or will be told of by a frame that
  comes down last (`ScreenFollowed`, `FramesFollowed`). `AskingPaid` bounds the questions about the session
  by the connections that ended, without which `asking` has no type.
* `ChatStreamProofs`: `ChatTypes`, `TypewriterGoesOn`, `BlocksStayHome` and `CardsShown`. `CInv` says of a block also
  after its outcome is in that its head is where `_toolBlocks` says (`Home`), since `_withToolOutcome` decides by that position
  which blocks move; and of the cards that they are of waiting calls of the same tool and no two of the same call
  (`Cards`), from which the call that `ApprovalTarget` looks for exists, by counting.

Induction over data. The library's induction theorems take an operator as a parameter and cannot be used, so
`NumberLemmas` has induction for sets (`IndexInduction`: a set with 0 and with every index its successor holds all
indexes) from the well-foundedness of the numbers, and `LoopStates`: the recursive function of a loop over a
sequence goes through the states it is written to go through.

Only model-checked: liveness under fairness (`PendingEnds`, `TemporaryEnds`, `WaitingEnds`, `ListsComeBack`,
`AnswerEnds`), which is outside the prover's reach, and the refinement of `Answer` (`KeepsPromise`), whose
drawing of the parts is a fold and whose mapping a selection, neither of which the provers can unfold as they stand.
No module declares a RECURSIVE operator.

## 5. Not modelled, and the plan

Not modelled on purpose: rendering, manifests, dashboards and pipelines (pure functions), request handlers that
are one statement, the language model. In `AccessRequests`: the deletion of users and
clusters, the grant given to every user of a global role when a cluster is registered, unknown roles and
unregistered clusters in the group sync. In `AuditLog`: the digest objects, the other tables of the purge.

Most lines of the repository are the frontend's, and most of those are screens: React components that lay out what
one query returned, types of the API, tables and forms with state of one component. They have no second actor and
nothing to be consistent with beyond their own props, and a model of them would restate their assignments. The parts
of the frontend with a protocol are the watch socket and the chat stream, which are modelled, the session keepalive in
`auth.ts`, of which `WatchSocket` has the end of a session, and the switch of clusters, of which the cached rows are
the hard part: they belong to the query library, which is not in the repository.

`pkg/auth`'s version cache and live sessions promise bounds in time; they need a model with a clock in every
service, and `WatchSocket` only takes their verdict as an input.

Seen while modelling and not run, since no text of the repository decides them: a stop while the last letters of a
finished answer are typed makes the page save it a second time, as stopped (`useChatHandlers.ts:76`); after a second
session end within a minute the page signs out without asking whether the cookie still stands (`auth.ts:160`).

In order:

1. The refinement of `Answer` as a theorem: the drawing of the parts and the removal of white space as recursive
   functions, their behaviour on concatenations by `IndexInduction`, and then a case per action of `ChatStream`; an
   outcome's case splits text and parts at the one head of its block.
2. The runs of `WatchSocket` with liveness on two watched keys, if the state space can be cut, and a run for the
   comment at `oidc.go:621` (an approval outlives the group sync) in the race in which the sync has already read the grants.
3. `AuditDelivery`, an abstract log that every sink gets in full at least once, refined by the dispatcher of
   `AuditLog`.
4. `TokenVersionCache`, webhooks and polling as the environment of `BuildQueue`, session recording, tool approvals,
   investigations.

------------------------------ MODULE WatchSocket ------------------------------
(***************************************************************************)
(* The watch socket, both ends: the browser's multiplexer, which keeps one *)
(* WebSocket for every live list on screen and opens it again after it     *)
(* closes, and the multiplexer of k8s-service, which runs one Kubernetes   *)
(* watch per REQUEST and counts the places they take.  Frames travel in    *)
(* order on each socket and are lost when it is cut; the two ends notice   *)
(* that in their own time.  A key stands for (cluster, path, query).       *)
(***************************************************************************)
EXTENDS Integers, FiniteSets, Sequences, SequencesExt

CONSTANTS
    Keys,           \* the (cluster, path, query) a list on screen can watch
    Unsupported,    \* those whose path names no kind that this socket watches
    Sockets,        \* names for the WebSockets that exist at one time
    MaxListeners,   \* bound: components that listen to one key
    MaxSubscribes,  \* bound: subscribe calls
    MaxPerConn,     \* MaxSubscriptionsPerConn
    MaxTotal,       \* MaxSubscriptions
    MaxUp, MaxDown, \* bounds: frames on their way to the server, to the browser
    MaxDrops,       \* bound: connections that fail, break or are ended
    None

ASSUME WatchAssumption ==
    /\ Unsupported \subseteq Keys
    /\ MaxListeners \in Nat \ {0}
    /\ MaxSubscribes \in Nat
    /\ MaxPerConn \in Nat \ {0}
    /\ MaxTotal \in Nat \ {0}
    /\ MaxUp \in Nat \ {0} /\ MaxDown \in Nat \ {0}
    /\ MaxDrops \in Nat
    /\ None \notin Sockets

VARIABLES
    listeners,      \* components listening to each key; subscriptions are the keys with some
    socket,         \* this.socket
    ready,          \* readyState of each WebSocket; "free" once its close event ran
    timer,          \* reconnectTimer is set
    asking,         \* liveSessionEnded calls that wait for /auth/me
    signedOut,      \* handleUnauthorized left for the sign-in page
    problem,        \* keys with a watch problem on screen
    old,            \* keys last heard of from a closed watch or an abandoned socket
    link,           \* frames put on the socket reach the other end
    up, down,       \* frames on their way to the server, to the browser
    conn,           \* the server's end: "none", "up", or "ended" by its session
    place,          \* connSubs: the subscription that holds the key's place
    watches,        \* the running goroutines of HandleWebSocket's REQUESTs
    drops,          \* connections broken so far
    calls           \* subscribe calls so far

clientVars == <<listeners, socket, ready, timer, asking, signedOut, problem, old>>
wireVars   == <<link, up, down>>
serverVars == <<conn, place, watches>>
vars       == <<clientVars, wireVars, serverVars, drops, calls>>

\* Subscriptions are told apart by address: a number that no other goroutine
\* of the key has.
SubIds == Nat \ {0}

\* The close frame with SESSION_ENDED_CLOSE_CODE.
SessionEnd == [type |-> "4401"]

Requests == [type : {"REQUEST", "CLOSE"}, key : Keys]
Frames   == [type : {"DATA", "ERROR", "SILENT", "RESYNC"}, key : Keys, late : BOOLEAN] \cup {SessionEnd}
Watches  == [sock : Sockets, key : Keys, id : SubIds, at : {"start", "on", "done"}, resync : BOOLEAN, live : BOOLEAN]

TypeOK ==
    /\ listeners \in [Keys -> 0 .. MaxListeners]
    /\ socket \in Sockets \cup {None}
    /\ ready \in [Sockets -> {"free", "connecting", "open", "closing"}]
    /\ timer \in BOOLEAN /\ signedOut \in BOOLEAN
    /\ asking \in 0 .. MaxDrops
    /\ problem \subseteq Keys /\ old \subseteq Keys
    /\ link \in [Sockets -> BOOLEAN]
    /\ up \in [Sockets -> Seq(Requests)]
    /\ down \in [Sockets -> Seq(Frames)]
    /\ conn \in [Sockets -> {"none", "up", "ended"}]
    /\ place \in [Sockets -> [Keys -> SubIds \cup {0}]]
    /\ watches \subseteq Watches
    /\ drops \in 0 .. MaxDrops /\ calls \in 0 .. MaxSubscribes

Init ==
    /\ listeners = [k \in Keys |-> 0]
    /\ socket = None
    /\ ready = [s \in Sockets |-> "free"]
    /\ timer = FALSE /\ asking = 0 /\ signedOut = FALSE
    /\ problem = {} /\ old = {}
    /\ link = [s \in Sockets |-> FALSE]
    /\ up = [s \in Sockets |-> <<>>]
    /\ down = [s \in Sockets |-> <<>>]
    /\ conn = [s \in Sockets |-> "none"]
    /\ place = [s \in Sockets |-> [k \in Keys |-> 0]]
    /\ watches = {}
    /\ drops = 0 /\ calls = 0

-----------------------------------------------------------------------------
(* The browser.                                                            *)

Subscriptions == {k \in Keys : listeners[k] > 0}

\* connect() answers at once on an open socket and waits on a connecting one.
HasSocket == socket # None /\ ready[socket] \in {"connecting", "open"}
IsOpen    == socket # None /\ ready[socket] = "open"

\* A name that no socket, connection or goroutine uses any more.
Unused(s) == ready[s] = "free" /\ conn[s] = "none" /\ \A w \in watches : w.sock # s

\* new WebSocket(...) in connect(): it becomes this.socket before it is open.
NewSocket(s) ==
    /\ Unused(s)
    /\ socket' = s
    /\ ready' = [ready EXCEPT ![s] = "connecting"]
    /\ link' = [link EXCEPT ![s] = TRUE]
    /\ up' = [up EXCEPT ![s] = <<>>]
    /\ down' = [down EXCEPT ![s] = <<>>]

Connect ==
    IF HasSocket THEN UNCHANGED <<socket, ready, wireVars>>
    ELSE \E s \in Sockets : NewSocket(s)

\* socket.send: a frame put on a broken connection goes nowhere.
Sent(s, msgs) == IF link[s] THEN [up EXCEPT ![s] = @ \o msgs] ELSE up

\* subscribe: only a new key on a socket that was open before asks by itself;
\* a socket that opens later asks for every subscription.
Subscribe(k) ==
    /\ ~signedOut
    /\ listeners[k] < MaxListeners /\ calls < MaxSubscribes
    /\ calls' = calls + 1
    /\ listeners' = [listeners EXCEPT ![k] = @ + 1]
    /\ IF IsOpen
       THEN /\ Len(up[socket]) < MaxUp
            /\ up' = IF listeners[k] = 0 THEN Sent(socket, <<[type |-> "REQUEST", key |-> k]>>) ELSE up
            /\ UNCHANGED <<socket, ready, link, down>>
       ELSE Connect
    /\ UNCHANGED <<timer, asking, signedOut, problem, old, serverVars, drops>>

\* Mutant of Unsubscribe: the last listener leaves without a CLOSE.
UnsubscribeQuietly(k) ==
    /\ listeners[k] > 0
    /\ listeners' = [listeners EXCEPT ![k] = @ - 1]
    /\ IF listeners[k] > 1
       THEN UNCHANGED <<problem, old>>
       ELSE problem' = problem \ {k} /\ old' = old \ {k}
    /\ UNCHANGED <<up, socket, ready, timer, asking, signedOut, link, down, serverVars, drops, calls>>

\* Mutant of Unsubscribe: a key nobody listens to any more is left once again.
UnsubscribeAgain(k) ==
    /\ calls > 0
    /\ listeners' = [listeners EXCEPT ![k] = @ - 1]
    /\ problem' = problem \ {k} /\ old' = old \ {k}
    /\ IsOpen => Len(up[socket]) < MaxUp
    /\ up' = IF IsOpen THEN Sent(socket, <<[type |-> "CLOSE", key |-> k]>>) ELSE up
    /\ UNCHANGED <<socket, ready, timer, asking, signedOut, link, down, serverVars, drops, calls>>

\* unsubscribe: the last listener of a key takes the subscription with it.
Unsubscribe(k) ==
    /\ listeners[k] > 0
    /\ listeners' = [listeners EXCEPT ![k] = @ - 1]
    /\ IF listeners[k] > 1
       THEN UNCHANGED <<problem, old, up>>
       ELSE /\ problem' = problem \ {k} /\ old' = old \ {k}
            /\ IsOpen => Len(up[socket]) < MaxUp
            /\ up' = IF IsOpen THEN Sent(socket, <<[type |-> "CLOSE", key |-> k]>>) ELSE up
    /\ UNCHANGED <<socket, ready, timer, asking, signedOut, link, down, serverVars, drops, calls>>

\* The open event: the problems shown are taken back, and every subscription
\* is asked for on the socket that opened.
Opened(s) ==
    /\ ready[s] = "connecting" /\ conn[s] # "none"
    /\ ready' = [ready EXCEPT ![s] = "open"]
    /\ problem' = problem \ Subscriptions
    /\ old' = old \ Subscriptions
    /\ up' = Sent(s, SetToSeq({[type |-> "REQUEST", key |-> k] : k \in Subscriptions}))
    /\ UNCHANGED <<listeners, socket, timer, asking, signedOut, link, down, serverVars, drops, calls>>

\* The reconnect timer.
TimerFires ==
    /\ timer /\ ~signedOut
    /\ timer' = FALSE
    /\ Connect
    /\ UNCHANGED <<listeners, asking, signedOut, problem, old, serverVars, drops, calls>>

\* scheduleReconnect: one timer, and none when nobody listens.
Scheduled == timer \/ Subscriptions # {}

\* Mutant of ClosedAbnormally: it leaves the reconnect to the next subscribe.
ClosedWithoutTimer(s) ==
    /\ ready[s] \in {"connecting", "open"} /\ ~link[s]
    /\ socket' = None
    /\ ready' = [ready EXCEPT ![s] = "free"]
    /\ down' = [down EXCEPT ![s] = <<>>]
    /\ UNCHANGED <<timer, listeners, asking, signedOut, problem, old, link, up, serverVars, drops, calls>>

\* onclose of a connection that failed or broke.  this.socket is dropped
\* whichever socket closed.
ClosedAbnormally(s) ==
    /\ ready[s] \in {"connecting", "open"} /\ ~link[s]
    /\ socket' = None
    /\ ready' = [ready EXCEPT ![s] = "free"]
    /\ timer' = Scheduled
    /\ down' = [down EXCEPT ![s] = <<>>]
    /\ UNCHANGED <<listeners, asking, signedOut, problem, old, link, up, serverVars, drops, calls>>

\* onclose with SESSION_ENDED_CLOSE_CODE: liveSessionEnded decides.
ClosedBySession(s) ==
    /\ ready[s] = "closing"
    /\ socket' = None
    /\ ready' = [ready EXCEPT ![s] = "free"]
    /\ asking' = asking + 1
    /\ link' = [link EXCEPT ![s] = FALSE]
    /\ down' = [down EXCEPT ![s] = <<>>]
    /\ UNCHANGED <<listeners, timer, signedOut, problem, old, up, serverVars, drops, calls>>

\* liveSessionEnded resolves to true: the cookie still stands, or nobody knows.
SessionStands ==
    /\ asking > 0 /\ ~signedOut
    /\ asking' = asking - 1
    /\ timer' = Scheduled
    /\ UNCHANGED <<listeners, socket, ready, signedOut, problem, old, wireVars, serverVars, drops, calls>>

\* handleUnauthorized: the page leaves, and the browser closes its sockets.
SessionOver ==
    /\ asking > 0 /\ ~signedOut
    /\ signedOut' = TRUE
    /\ asking' = 0 /\ timer' = FALSE /\ socket' = None
    /\ listeners' = [k \in Keys |-> 0]
    /\ problem' = {} /\ old' = {}
    /\ ready' = [s \in Sockets |-> "free"]
    /\ link' = [s \in Sockets |-> FALSE]
    /\ down' = [s \in Sockets |-> <<>>]
    /\ UNCHANGED <<up, serverVars, drops, calls>>

\* recordWatchFrame: an ERROR sets the problem of its key, a reason the page
\* does not show changes nothing, any other frame clears it.
Recorded(f) ==
    CASE f.type = "ERROR"  -> problem \cup {f.key}
      [] f.type = "SILENT" -> problem
      [] OTHER             -> problem \ {f.key}

\* onmessage and dispatch: a frame goes to the listeners of the key it names.
Receive(s) ==
    /\ ready[s] = "open" /\ down[s] # <<>>
    /\ down' = [down EXCEPT ![s] = Tail(@)]
    /\ LET f == Head(down[s]) IN
       IF f.type = "4401"
       THEN /\ ready' = [ready EXCEPT ![s] = "closing"]
            /\ UNCHANGED <<problem, old>>
       ELSE /\ problem' = IF listeners[f.key] > 0 THEN Recorded(f) ELSE problem
            /\ old' = IF listeners[f.key] > 0 /\ (f.late \/ s # socket) THEN old \cup {f.key} ELSE old \ {f.key}
            /\ UNCHANGED ready
    /\ UNCHANGED <<listeners, socket, timer, asking, signedOut, link, up, serverVars, drops, calls>>

-----------------------------------------------------------------------------
(* The server.                                                             *)

\* The handshake passed and the connection is upgraded.
Accept(s) ==
    /\ ready[s] = "connecting" /\ link[s] /\ conn[s] = "none"
    /\ conn' = [conn EXCEPT ![s] = "up"]
    /\ UNCHANGED <<clientVars, wireVars, place, watches, drops, calls>>

Places(s) == {k \in Keys : place[s][k] # 0}
AllPlaces == {p \in Sockets \X Keys : place[p[1]][p[2]] # 0}

Full(s) == Cardinality(Places(s)) >= MaxPerConn \/ Cardinality(AllPlaces) >= MaxTotal

Frame(type, k) == [type |-> type, key |-> k, late |-> FALSE]

\* send: a frame queued for a connection that ended never leaves.
Queued(s, f) == IF link[s] /\ conn[s] = "up" THEN [down EXCEPT ![s] = Append(@, f)] ELSE down

Running(s, k) == {w \in watches : w.sock = s /\ w.key = k}

\* A REQUEST that is refused: no access, a protected namespace, or a limit.
Refused(s, k) ==
    /\ down' = Queued(s, Frame("ERROR", k))
    /\ UNCHANGED <<place, watches>>

\* REQUEST: refused, already there, over a limit, or a new watch.
Request(s, k) ==
    \/ Refused(s, k)
    \/ /\ place[s][k] # 0
       /\ UNCHANGED <<down, place, watches>>
    \/ /\ place[s][k] = 0 /\ ~Full(s)
       /\ \E i \in 1 .. Cardinality(Running(s, k)) + 1 :
            /\ \A w \in Running(s, k) : w.id # i
            /\ \A j \in 1 .. i - 1 : \E w \in Running(s, k) : w.id = j
            /\ place' = [place EXCEPT ![s][k] = i]
            /\ watches' = watches \cup
                 {[sock |-> s, key |-> k, id |-> i, at |-> "start", resync |-> FALSE, live |-> conn[s] = "up"]}
       /\ UNCHANGED down

Cancelled(S) == {IF w \in S THEN [w EXCEPT !.live = FALSE] ELSE w : w \in watches}

\* Mutant of Close: the goroutine gives the place back when it gets round to it.
CloseLater(s, k) ==
    /\ watches' = Cancelled({w \in Running(s, k) : w.id = place[s][k]})
    /\ UNCHANGED <<place, down>>

\* CLOSE: the watch is cancelled and its place is free at once.
Close(s, k) ==
    /\ watches' = Cancelled({w \in Running(s, k) : w.id = place[s][k]})
    /\ place' = [place EXCEPT ![s][k] = 0]
    /\ UNCHANGED down

\* One turn of HandleWebSocket's read loop.
Serve(s) ==
    /\ conn[s] # "none" /\ up[s] # <<>> /\ Len(down[s]) < MaxDown
    /\ up' = [up EXCEPT ![s] = Tail(@)]
    /\ IF Head(up[s]).type = "REQUEST" THEN Request(s, Head(up[s]).key) ELSE Close(s, Head(up[s]).key)
    /\ UNCHANGED <<clientVars, link, conn, drops, calls>>

\* The read loop ends: every watch of the connection is cancelled and its
\* place freed (the deferred cleanup).
Disconnected(s) ==
    /\ conn[s] = "ended" \/ (conn[s] = "up" /\ ~link[s])
    /\ conn' = [conn EXCEPT ![s] = "none"]
    /\ watches' = Cancelled({w \in watches : w.sock = s})
    /\ place' = [place EXCEPT ![s] = [k \in Keys |-> 0]]
    /\ link' = [link EXCEPT ![s] = FALSE]
    /\ up' = [up EXCEPT ![s] = <<>>]
    /\ UNCHANGED <<clientVars, down, drops, calls>>

\* LiveSessions ends the held context: the watches hang off it, and the writer
\* sends the close frame and no queued frame after it.
SessionEnds(s) ==
    /\ conn[s] = "up" /\ drops < MaxDrops
    /\ drops' = drops + 1
    /\ conn' = [conn EXCEPT ![s] = "ended"]
    /\ watches' = Cancelled({w \in watches : w.sock = s})
    /\ \E n \in 0 .. Len(down[s]) :
          down' = IF link[s] THEN [down EXCEPT ![s] = Append(SubSeq(@, 1, n), SessionEnd)] ELSE down
    /\ UNCHANGED <<clientVars, link, up, place, calls>>

\* The network, a proxy or a restart breaks the connection, or it never opens.
Cut(s) ==
    /\ link[s] /\ drops < MaxDrops
    /\ drops' = drops + 1
    /\ link' = [link EXCEPT ![s] = FALSE]
    /\ UNCHANGED <<clientVars, up, down, serverVars, calls>>

-----------------------------------------------------------------------------
(* One goroutine of a REQUEST: runWatch, then forgetSubscription.          *)

Becomes(w, x) == watches' = (watches \ {w}) \cup {x}

Room(w) == Len(down[w.sock]) < MaxDown

\* The watch is on; a list the browser was told about, or whose version
\* expired, is announced as to be read again.
WatchStarts(w) ==
    /\ w.at = "start" /\ w.live /\ Room(w)
    /\ w.key \notin Unsupported
    /\ down' = IF w.resync THEN Queued(w.sock, Frame("RESYNC", w.key)) ELSE down
    /\ Becomes(w, [w EXCEPT !.at = "on", !.resync = FALSE])

\* The cluster refuses or does not answer: the browser is told, and the watch
\* tries again after a pause.
WatchFails(w) ==
    /\ w.at = "start" /\ w.live /\ Room(w)
    /\ w.key \notin Unsupported
    /\ \E reason \in {"ERROR", "SILENT"} : down' = Queued(w.sock, Frame(reason, w.key))
    /\ Becomes(w, [w EXCEPT !.resync = TRUE])

\* The path names no kind that is watched here: the browser is told so, with a
\* reason the page does not show, and runWatch returns.
WatchUnsupported(w) ==
    /\ w.at = "start" /\ w.live /\ Room(w)
    /\ w.key \in Unsupported
    /\ down' = Queued(w.sock, Frame("SILENT", w.key))
    /\ Becomes(w, [w EXCEPT !.at = "done"])

\* The kubeconfig of the cluster is not loaded: runWatch returns.
WatchImpossible(w) ==
    /\ w.at = "start" /\ w.live /\ Room(w)
    /\ w.key \notin Unsupported
    /\ down' = Queued(w.sock, Frame("ERROR", w.key))
    /\ Becomes(w, [w EXCEPT !.at = "done"])

\* forwardEvents: an event.  (A bookmark sends nothing.)
WatchEvent(w) ==
    /\ w.at = "on" /\ w.live /\ Room(w)
    /\ down' = Queued(w.sock, Frame("DATA", w.key))
    /\ UNCHANGED watches

\* The watch ends, after five minutes or because its version expired (then, or
\* when it is resumed), and starts again after a pause.
WatchEnds(w) ==
    /\ w.at = "on" /\ w.live
    /\ \E expired \in BOOLEAN : Becomes(w, [w EXCEPT !.at = "start", !.resync = expired])
    /\ UNCHANGED down

\* A cancelled goroutine returns; send may still queue the frame it had in
\* hand, since both cases of its select are ready.
WatchStops(w) ==
    /\ ~w.live /\ w.at # "done" /\ Room(w)
    /\ \/ UNCHANGED down
       \/ \E t \in {"DATA", "ERROR", "SILENT", "RESYNC"} :
            /\ t = "DATA" => w.at = "on"
            /\ t = "ERROR" => w.at = "start" /\ w.key \notin Unsupported
            /\ t = "SILENT" => w.at = "start"
            /\ t = "RESYNC" => w.at = "start" /\ w.resync
            /\ down' = Queued(w.sock, [type |-> t, key |-> w.key, late |-> TRUE])
    /\ Becomes(w, [w EXCEPT !.at = "done"])

\* Mutant of forgetSubscription: the key's place goes, whoever holds it.
ForgetKey(w) ==
    /\ w.at = "done"
    /\ watches' = watches \ {w}
    /\ place' = [place EXCEPT ![w.sock][w.key] = 0]

\* Mutant of forgetSubscription: a watch that ended by itself keeps its place.
ForgetCancelled(w) ==
    /\ w.at = "done"
    /\ watches' = watches \ {w}
    /\ place' = IF place[w.sock][w.key] = w.id /\ ~w.live THEN [place EXCEPT ![w.sock][w.key] = 0] ELSE place

\* forgetSubscription: unless a later REQUEST of the key already holds the place.
forgetSubscription(w) ==
    /\ w.at = "done"
    /\ watches' = watches \ {w}
    /\ place' = IF place[w.sock][w.key] = w.id THEN [place EXCEPT ![w.sock][w.key] = 0] ELSE place

runWatch(w) ==
    \/ WatchStarts(w) \/ WatchFails(w) \/ WatchUnsupported(w) \/ WatchImpossible(w)
    \/ WatchEvent(w) \/ WatchEnds(w) \/ WatchStops(w)

Goroutine(w) ==
    \/ runWatch(w) /\ UNCHANGED <<clientVars, link, up, conn, place, drops, calls>>
    \/ forgetSubscription(w) /\ UNCHANGED <<clientVars, wireVars, conn, drops, calls>>

Browser(s) == Opened(s) \/ ClosedAbnormally(s) \/ ClosedBySession(s) \/ Receive(s)
Server(s)  == Accept(s) \/ Serve(s) \/ Disconnected(s)

Next ==
    \/ \E k \in Keys : Subscribe(k) \/ Unsubscribe(k)
    \/ TimerFires \/ SessionStands \/ SessionOver
    \/ \E s \in Sockets : Browser(s) \/ Server(s) \/ SessionEnds(s) \/ Cut(s)
    \/ \E w \in watches : Goroutine(w)

\* Timers fire, events are delivered, answers arrive and goroutines run; who
\* waits to queue a frame gets its turn, as Go's channels serve in order.
Fairness ==
    /\ WF_vars(TimerFires \/ SessionStands \/ SessionOver)
    /\ \A s \in Sockets :
         /\ WF_vars(Browser(s))
         /\ SF_vars(Server(s))
         /\ SF_vars(\E w \in watches : w.sock = s /\ ~(w.at = "on" /\ w.live) /\ Goroutine(w))

Spec == Init /\ [][Next]_vars /\ Fairness

-----------------------------------------------------------------------------
\* Nothing is on its way and no connection is broken.
Quiet ==
    \A s \in Sockets : ready[s] # "free" \/ conn[s] # "none" =>
        /\ ready[s] = "open" /\ conn[s] = "up" /\ link[s]
        /\ up[s] = <<>> /\ down[s] = <<>>

Watched(k) == \E w \in watches : w.key = k /\ w.live /\ w.at # "done" /\ ready[w.sock] = "open"

\* Once nothing is on its way, every list on screen is followed by a watch of
\* the server or says why it is not ("the page has to say they may be old"):
\* neither a reconnect nor the end of an older watch of the same key loses it.
\* One exception is a key whose last frame came from a watch the browser had
\* closed before, or on a socket it had given up.  The other is a kind this
\* socket does not watch, about which the page is silent on purpose ("a kind
\* with no live updates ... never had any to lose").  A watch that the cluster
\* answers with "not served" counts as following: it keeps trying.
ListsFollowedOrTold ==
    Quiet /\ IsOpen =>
        \A k \in Subscriptions \ Unsupported : Watched(k) \/ k \in problem \cup old

\* Once nothing is on its way, the current socket holds places only for lists
\* on screen: CLOSE and REQUEST of one key never end up in the wrong order.
PlacesOnlyForScreen ==
    Quiet /\ IsOpen => Places(socket) \subseteq Subscriptions

\* A running watch holds the place of its key, so the limits count every watch
\* and one connection never runs two for one key: a goroutine that ends late
\* does not take the place of its successor.
LiveWatchHoldsPlace ==
    \A w \in watches : w.live => conn[w.sock] = "up" /\ place[w.sock][w.key] = w.id

\* A place that is taken belongs to a goroutine that will give it back.
NoPlaceLeaks ==
    \A s \in Sockets : \A k \in Places(s) :
        conn[s] # "none" /\ \E w \in Running(s, k) : w.id = place[s][k]

\* While a list is on screen and no socket is open or opening, something will
\* open one: the timer, the answer about the session, or the close event of a
\* socket that is going.
SocketWillReopen ==
    Subscriptions # {} /\ ~HasSocket =>
        timer \/ asking > 0 \/ \E s \in Sockets : ready[s] = "closing"

\* A list on screen, of a kind this socket watches, comes to have a watch on the
\* server, says why it has none, or leaves the screen: after broken connections
\* the socket is back and has asked again.
ListsComeBack ==
    \A k \in Keys \ Unsupported :
        k \in Subscriptions ~> Watched(k) \/ k \in problem \cup old \/ k \notin Subscriptions
===============================================================================

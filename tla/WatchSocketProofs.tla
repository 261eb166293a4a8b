--------------------------- MODULE WatchSocketProofs ---------------------------
(***************************************************************************)
(* For every set of keys and sockets, every limit and every bound: the     *)
(* safety properties of the watch socket.                                  *)
(***************************************************************************)
EXTENDS WatchSocket, FiniteSetTheorems, FunctionTheorems, TLAPS

-----------------------------------------------------------------------------
(* Where two elements of a sequence stand.                                 *)

Has(u, a) == \E i \in 1 .. Len(u) : u[i] = a

\* Some a has no b after it.
LastIs(u, a, b) == \E i \in 1 .. Len(u) : u[i] = a /\ \A j \in i + 1 .. Len(u) : u[j] # b

\* Every a has a b before it.
Preceded(u, a, b) == \A i \in 1 .. Len(u) : u[i] = a => \E m \in 1 .. i - 1 : u[m] = b

\* Between two a's there is a b.
Alternates(u, a, b) ==
    \A i \in 1 .. Len(u) : \A j \in 1 .. i - 1 :
        u[i] = a /\ u[j] = a => \E m \in j + 1 .. i - 1 : u[m] = b

-----------------------------------------------------------------------------
(* The parts of the inductive invariant.                                   *)

Ask(k)   == [type |-> "REQUEST", key |-> k]
Leave(k) == [type |-> "CLOSE", key |-> k]

\* The goroutines of one key of one connection are told apart.
OneOfEach ==
    \A v, w \in watches : v.sock = w.sock /\ v.key = w.key /\ v.id = w.id => v = w

\* The end of a session that the browser has yet to act on.
EndPending(s) == ready[s] = "closing" \/ Has(down[s], SessionEnd)

\* Every question about the session was paid for by a connection that ended.
AskingPaid ==
    LET E == {s \in Sockets : EndPending(s)}
    IN  IsFiniteSet(E) /\ asking + Cardinality(E) <= drops

\* The close frame of a session comes last, and before it the session ends.
EndsOnce ==
    \A s \in Sockets :
        /\ conn[s] = "up" => ~EndPending(s)
        /\ link[s] /\ conn[s] = "none" /\ ready[s] = "connecting" => down[s] = <<>>

\* A socket that is not open yet has asked for nothing.
NothingAsked ==
    \A s \in Sockets : ready[s] = "connecting" =>
        up[s] = <<>> /\ Places(s) = {} /\ \A w \in watches : w.sock # s

\* REQUEST of a key is sent again only after its CLOSE.
AsksAlternate ==
    \A s \in Sockets, k \in Keys :
        /\ Alternates(up[s], Ask(k), Leave(k))
        /\ place[s][k] # 0 => Preceded(up[s], Ask(k), Leave(k))

\* What the current socket has asked for, once all is served, is what is on screen.
AsksForScreen ==
    IsOpen /\ link[socket] =>
        \A k \in Keys :
            IF k \in Subscriptions
            THEN Has(up[socket], Leave(k)) => LastIs(up[socket], Ask(k), Leave(k))
            ELSE Has(up[socket], Ask(k)) \/ place[socket][k] # 0
                   => LastIs(up[socket], Leave(k), Ask(k))

OfKey(f, k) == f # SessionEnd /\ f.key = k

AnyOf(d, k) == \E i \in 1 .. Len(d) : OfKey(d[i], k)

\* A frame after which the browser says that the list of its key may be old.
Warns(f) == f.type = "ERROR" \/ f.late

LastWarns(d, k) ==
    \E i \in 1 .. Len(d) :
        OfKey(d[i], k) /\ Warns(d[i]) /\ \A j \in i + 1 .. Len(d) : ~OfKey(d[j], k)

\* The frames on their way say that the list of the key may be old; on a
\* socket that was given up every frame does.
Tells(s, k) == (s # socket /\ AnyOf(down[s], k)) \/ LastWarns(down[s], k)

Watching(s, k) ==
    /\ \E w \in Running(s, k) : w.live /\ w.at # "done"
    /\ ~Has(up[s], Leave(k))

\* The key is asked for, watched, or told about, or has no live updates to lose.
Follows(s, k) ==
    \/ LastIs(up[s], Ask(k), Leave(k)) \/ Watching(s, k) \/ Tells(s, k)
    \/ k \in Unsupported

Good(s)   == ready[s] = "open" /\ link[s] /\ conn[s] = "up"
Broken(s) == ready[s] = "closing" \/ (ready[s] = "open" /\ ~Good(s))

\* A list on screen is followed or told of on some socket, or a close event is due.
ScreenFollowed ==
    IsOpen => \A k \in Subscriptions :
        \/ \E s \in Sockets : Broken(s)
        \/ \E s \in Sockets : Good(s) /\ Follows(s, k)
        \/ k \in problem \cup old

\* A frame on its way on the current socket is not the last that is heard of its key.
FramesFollowed ==
    IsOpen /\ Good(socket) => \A k \in Subscriptions :
        AnyOf(down[socket], k) => Follows(socket, k)

\* TypeOK before it is known how often the browser can ask about its session.
BasicTypes ==
    /\ listeners \in [Keys -> 0 .. MaxListeners] /\ IsFiniteSet(Subscriptions)
    /\ socket \in Sockets \cup {None}
    /\ ready \in [Sockets -> {"free", "connecting", "open", "closing"}]
    /\ timer \in BOOLEAN /\ signedOut \in BOOLEAN
    /\ asking \in Nat
    /\ problem \subseteq Keys /\ old \subseteq Keys
    /\ link \in [Sockets -> BOOLEAN]
    /\ up \in [Sockets -> Seq(Requests)]
    /\ down \in [Sockets -> Seq(Frames)]
    /\ conn \in [Sockets -> {"none", "up", "ended"}]
    /\ place \in [Sockets -> [Keys -> SubIds \cup {0}]]
    /\ watches \subseteq Watches
    /\ drops \in 0 .. MaxDrops /\ calls \in 0 .. MaxSubscribes

\* The inductive invariant.
WInv ==
    /\ BasicTypes /\ OneOfEach /\ LiveWatchHoldsPlace /\ NoPlaceLeaks
    /\ AskingPaid /\ EndsOnce /\ SocketWillReopen
    /\ NothingAsked /\ AsksAlternate /\ AsksForScreen
    /\ ScreenFollowed /\ FramesFollowed

-----------------------------------------------------------------------------
(* Facts about sequences: one element more at the end, one less in front.  *)

\* An appended element is the last one; the others stay where they are.
LEMMA AppendAt ==
    ASSUME NEW S, NEW u \in Seq(S), NEW e \in S
    PROVE  /\ Append(u, e) \in Seq(S) /\ Len(Append(u, e)) = Len(u) + 1 /\ Len(u) \in Nat
           /\ \A i \in 1 .. Len(u) : Append(u, e)[i] = u[i]
           /\ Append(u, e)[Len(u) + 1] = e
           /\ u \o <<e>> = Append(u, e)
OBVIOUS

\* What the head leaves behind is one place further in front.
LEMMA TailAt ==
    ASSUME NEW S, NEW u \in Seq(S), u # <<>>
    PROVE  /\ Tail(u) \in Seq(S) /\ Len(Tail(u)) = Len(u) - 1 /\ Len(u) \in Nat \ {0}
           /\ \A i \in 1 .. Len(u) - 1 : Tail(u)[i] = u[i + 1]
           /\ Head(u) = u[1] /\ Head(u) \in S
OBVIOUS

\* What an appended element changes.
LEMMA AppendFacts ==
    ASSUME NEW S, NEW u \in Seq(S), NEW e \in S, NEW a, NEW b, a # b
    PROVE  LET v == Append(u, e) IN
           /\ Has(v, a) <=> Has(u, a) \/ e = a
           /\ e = a => LastIs(v, a, b)
           /\ e # b /\ LastIs(u, a, b) => LastIs(v, a, b)
           /\ e # a /\ Alternates(u, a, b) => Alternates(v, a, b)
           /\ e # a /\ Preceded(u, a, b) => Preceded(v, a, b)
           /\ Alternates(u, a, b) /\ (Has(u, a) => LastIs(u, b, a)) => Alternates(v, a, b)
           /\ Preceded(u, a, b) /\ LastIs(u, b, a) => Preceded(v, a, b)
<1> DEFINE v == Append(u, e)
           n == Len(u)
<1>0. /\ n \in Nat /\ Len(v) = n + 1 /\ v[n + 1] = e
      /\ \A i \in 1 .. n : v[i] = u[i]
  BY AppendAt
<1> HIDE DEF v, n
<1>1. 1 .. n + 1 = (1 .. n) \cup {n + 1}
  BY <1>0
<1>2. Has(v, a) <=> Has(u, a) \/ e = a
  BY <1>0, <1>1 DEF Has, n
<1>3. e = a => LastIs(v, a, b)
  BY <1>0 DEF LastIs
<1>4. e # b /\ LastIs(u, a, b) => LastIs(v, a, b)
  <2> SUFFICES ASSUME e # b, LastIs(u, a, b) PROVE LastIs(v, a, b)
    OBVIOUS
  <2>1. PICK i \in 1 .. n : u[i] = a /\ \A j \in i + 1 .. n : u[j] # b
    BY DEF LastIs, n
  <2>2. \A j \in i + 1 .. n + 1 : v[j] # b
    BY <1>0, <2>1
  <2> QED
    BY <1>0, <2>1, <2>2 DEF LastIs
<1>5. e # a /\ Alternates(u, a, b) => Alternates(v, a, b)
  <2> SUFFICES ASSUME e # a, Alternates(u, a, b),
                      NEW i \in 1 .. n + 1, NEW j \in 1 .. i - 1, v[i] = a, v[j] = a
               PROVE  \E m \in j + 1 .. i - 1 : v[m] = b
    BY <1>0 DEF Alternates
  <2>1. i \in 1 .. n /\ u[i] = a /\ u[j] = a
    BY <1>0
  <2>2. PICK m \in j + 1 .. i - 1 : u[m] = b
    BY <2>1 DEF Alternates, n
  <2> QED
    BY <1>0, <2>1, <2>2
<1>6. e # a /\ Preceded(u, a, b) => Preceded(v, a, b)
  <2> SUFFICES ASSUME e # a, Preceded(u, a, b), NEW i \in 1 .. n + 1, v[i] = a
               PROVE  \E m \in 1 .. i - 1 : v[m] = b
    BY <1>0 DEF Preceded
  <2>1. i \in 1 .. n /\ u[i] = a
    BY <1>0
  <2>2. PICK m \in 1 .. i - 1 : u[m] = b
    BY <2>1 DEF Preceded, n
  <2> QED
    BY <1>0, <2>1, <2>2
<1>7. Alternates(u, a, b) /\ (Has(u, a) => LastIs(u, b, a)) => Alternates(v, a, b)
  <2> SUFFICES ASSUME Alternates(u, a, b), Has(u, a) => LastIs(u, b, a),
                      NEW i \in 1 .. n + 1, NEW j \in 1 .. i - 1, v[i] = a, v[j] = a
               PROVE  \E m \in j + 1 .. i - 1 : v[m] = b
    BY <1>0 DEF Alternates
  <2>1. j \in 1 .. n /\ u[j] = a
    BY <1>0
  <2>2. CASE i \in 1 .. n
    <3>1. u[i] = a
      BY <1>0, <2>2
    <3>2. PICK m \in j + 1 .. i - 1 : u[m] = b
      BY <2>1, <2>2, <3>1 DEF Alternates, n
    <3> QED
      BY <1>0, <2>1, <2>2, <3>2
  <2>3. CASE i = n + 1
    <3>1. Has(u, a)
      BY <2>1 DEF Has, n
    <3>2. PICK m \in 1 .. n : u[m] = b /\ \A l \in m + 1 .. n : u[l] # a
      BY <3>1 DEF LastIs, n
    <3>3. j < m
      BY <1>0, <2>1, <3>2
    <3> QED
      BY <1>0, <2>1, <2>3, <3>2, <3>3
  <2> QED
    BY <1>1, <2>2, <2>3
<1>8. Preceded(u, a, b) /\ LastIs(u, b, a) => Preceded(v, a, b)
  <2> SUFFICES ASSUME Preceded(u, a, b), LastIs(u, b, a), NEW i \in 1 .. n + 1, v[i] = a
               PROVE  \E m \in 1 .. i - 1 : v[m] = b
    BY <1>0 DEF Preceded
  <2>1. CASE i \in 1 .. n
    <3>1. u[i] = a
      BY <1>0, <2>1
    <3>2. PICK m \in 1 .. i - 1 : u[m] = b
      BY <2>1, <3>1 DEF Preceded, n
    <3> QED
      BY <1>0, <2>1, <3>2
  <2>2. CASE i = n + 1
    BY <1>0, <2>2 DEF LastIs, n
  <2> QED
    BY <1>1, <2>1, <2>2
<1> QED
  BY <1>2, <1>3, <1>4, <1>5, <1>6, <1>7, <1>8 DEF v

\* What taking the head away changes.
LEMMA TailFacts ==
    ASSUME NEW S, NEW u \in Seq(S), u # <<>>, NEW a, NEW b, a # b
    PROVE  LET v == Tail(u) IN
           /\ Has(u, a) <=> Has(v, a) \/ Head(u) = a
           /\ LastIs(u, a, b) => LastIs(v, a, b) \/ (Head(u) = a /\ ~Has(v, b))
           /\ Alternates(u, a, b) => Alternates(v, a, b)
           /\ Preceded(u, a, b) => Head(u) # a
           /\ Preceded(u, a, b) /\ Head(u) # b => Preceded(v, a, b)
           /\ Alternates(u, a, b) /\ Head(u) = a => Preceded(v, a, b)
<1> DEFINE v == Tail(u)
           n == Len(u)
<1>0. /\ n \in Nat /\ n > 0 /\ Len(v) = n - 1 /\ Head(u) = u[1]
      /\ \A i \in 1 .. n - 1 : v[i] = u[i + 1]
  BY TailAt
<1> HIDE DEF v, n
<1>1. \A i \in 2 .. n : i - 1 \in 1 .. n - 1 /\ v[i - 1] = u[i]
  BY <1>0
<1>2. Has(u, a) <=> Has(v, a) \/ Head(u) = a
  BY <1>0, <1>1 DEF Has, n
<1>3. LastIs(u, a, b) => LastIs(v, a, b) \/ (Head(u) = a /\ ~Has(v, b))
  <2> SUFFICES ASSUME NEW i \in 1 .. n, u[i] = a, \A j \in i + 1 .. n : u[j] # b
               PROVE  LastIs(v, a, b) \/ (Head(u) = a /\ ~Has(v, b))
    BY DEF LastIs, n
  <2>1. CASE i = 1
    BY <1>0, <2>1 DEF Has
  <2>2. CASE i > 1
    <3>1. i - 1 \in 1 .. Len(v) /\ v[i - 1] = a
      BY <1>0, <1>1, <2>2
    <3>2. \A j \in (i - 1) + 1 .. Len(v) : v[j] # b
      BY <1>0, <2>2
    <3> QED
      BY <3>1, <3>2 DEF LastIs
  <2> QED
    BY <1>0, <2>1, <2>2
<1>4. Alternates(u, a, b) => Alternates(v, a, b)
  <2> SUFFICES ASSUME Alternates(u, a, b), NEW i \in 1 .. n - 1, NEW j \in 1 .. i - 1, v[i] = a, v[j] = a
               PROVE  \E m \in j + 1 .. i - 1 : v[m] = b
    BY <1>0 DEF Alternates
  <2>1. u[i + 1] = a /\ u[j + 1] = a /\ i + 1 \in 1 .. n /\ j + 1 \in 1 .. (i + 1) - 1
    BY <1>0
  <2>2. PICK m \in (j + 1) + 1 .. (i + 1) - 1 : u[m] = b
    BY <2>1 DEF Alternates, n
  <2>3. m \in 2 .. n /\ m - 1 \in j + 1 .. i - 1
    BY <1>0, <2>2
  <2> QED
    BY <1>1, <2>2, <2>3
<1>5. Preceded(u, a, b) => Head(u) # a
  BY <1>0 DEF Preceded, n
<1>6. Preceded(u, a, b) /\ Head(u) # b => Preceded(v, a, b)
  <2> SUFFICES ASSUME Preceded(u, a, b), Head(u) # b, NEW i \in 1 .. n - 1, v[i] = a
               PROVE  \E m \in 1 .. i - 1 : v[m] = b
    BY <1>0 DEF Preceded
  <2>1. u[i + 1] = a /\ i + 1 \in 1 .. n
    BY <1>0
  <2>2. PICK m \in 1 .. (i + 1) - 1 : u[m] = b
    BY <2>1 DEF Preceded, n
  <2>3. m # 1
    BY <1>0, <2>2
  <2>4. m \in 2 .. n /\ m - 1 \in 1 .. i - 1
    BY <1>0, <2>2, <2>3
  <2> QED
    BY <1>1, <2>2, <2>4
<1>7. Alternates(u, a, b) /\ Head(u) = a => Preceded(v, a, b)
  <2> SUFFICES ASSUME Alternates(u, a, b), Head(u) = a, NEW i \in 1 .. n - 1, v[i] = a
               PROVE  \E m \in 1 .. i - 1 : v[m] = b
    BY <1>0 DEF Preceded
  <2>1. u[i + 1] = a /\ u[1] = a /\ i + 1 \in 1 .. n /\ 1 \in 1 .. (i + 1) - 1
    BY <1>0
  <2>2. PICK m \in 1 + 1 .. (i + 1) - 1 : u[m] = b
    BY <2>1 DEF Alternates, n
  <2>3. m \in 2 .. n /\ m - 1 \in 1 .. i - 1
    BY <1>0, <2>2
  <2> QED
    BY <1>1, <2>2, <2>3
<1> QED
  BY <1>2, <1>3, <1>4, <1>5, <1>6, <1>7 DEF v

\* The elements of a longer sequence are the old ones and the new one.
LEMMA HasAppend ==
    ASSUME NEW S, NEW u \in Seq(S), NEW e \in S, NEW a
    PROVE  Has(Append(u, e), a) <=> Has(u, a) \/ e = a
<1> DEFINE n == Len(u)
<1>1. /\ n \in Nat /\ Len(Append(u, e)) = n + 1 /\ Append(u, e)[n + 1] = e
      /\ \A i \in 1 .. n : Append(u, e)[i] = u[i]
  BY AppendAt
<1>2. 1 .. n + 1 = (1 .. n) \cup {n + 1}
  BY <1>1
<1> QED
  BY <1>1, <1>2 DEF Has

\* The elements of a sequence are its head and the elements of its tail.
LEMMA HasTail ==
    ASSUME NEW S, NEW u \in Seq(S), u # <<>>, NEW a
    PROVE  Has(u, a) <=> Has(Tail(u), a) \/ Head(u) = a
<1> DEFINE n == Len(u)
<1>1. /\ n \in Nat \ {0} /\ Len(Tail(u)) = n - 1 /\ Head(u) = u[1]
      /\ \A i \in 1 .. n - 1 : Tail(u)[i] = u[i + 1]
  BY TailAt
<1>2. \A i \in 2 .. n : i - 1 \in 1 .. n - 1 /\ Tail(u)[i - 1] = u[i]
  BY <1>1
<1>3. ASSUME Has(u, a) PROVE Has(Tail(u), a) \/ Head(u) = a
  <2>1. PICK i \in 1 .. n : u[i] = a
    BY <1>3 DEF Has
  <2>2. CASE i = 1
    BY <1>1, <2>1, <2>2
  <2>3. CASE i # 1
    BY <1>1, <1>2, <2>1, <2>3 DEF Has
  <2> QED
    BY <2>2, <2>3
<1>4. ASSUME Has(Tail(u), a) \/ Head(u) = a PROVE Has(u, a)
  BY <1>1, <1>4 DEF Has
<1> QED
  BY <1>3, <1>4

\* SetToSeq lists the elements of a finite set, each once.
LEMMA SetToSeqFacts ==
    ASSUME NEW S, IsFiniteSet(S)
    PROVE  LET q == SetToSeq(S) IN
           /\ q \in Seq(S)
           /\ \A e \in S : Has(q, e)
           /\ \A i, j \in 1 .. Len(q) : q[i] = q[j] => i = j
<1> DEFINE n == Cardinality(S)
           q == SetToSeq(S)
<1>1. n \in Nat /\ \E f \in [1 .. n -> S] : IsInjective(f)
  BY FS_CardinalityType DEF ExistsBijection, Bijection, Injection
<1>2. q \in [1 .. n -> S] /\ IsInjective(q)
  BY <1>1 DEF SetToSeq
<1> HIDE DEF q
<1>3. q \in Injection(1 .. n, S)
  BY <1>2 DEF Injection
<1>4. q \in Bijection(1 .. n, Range(q))
  BY <1>3, Fun_InjMeansBijImage DEF Range
<1>5. IsFiniteSet(1 .. n) /\ Cardinality(1 .. n) = n
  BY <1>1, FS_Interval
<1>6. Cardinality(Range(q)) = n /\ Range(q) \subseteq S
  BY <1>2, <1>4, <1>5, FS_Bijection DEF ExistsBijection, Range
<1>7. Range(q) = S
  BY <1>6, FS_Subset
<1>8. q \in Seq(S) /\ Len(q) = n
  BY <1>1, <1>2
<1> QED
  BY <1>2, <1>7, <1>8 DEF Has, Range, IsInjective, q

-----------------------------------------------------------------------------
(* Type correctness.                                                       *)

\* What is sent and queued keeps its type.
LEMMA SentType ==
    ASSUME BasicTypes, NEW s \in Sockets, NEW q \in Seq(Requests)
    PROVE  Sent(s, q) \in [Sockets -> Seq(Requests)]
BY DEF Sent, BasicTypes

LEMMA QueuedType ==
    ASSUME BasicTypes, NEW s \in Sockets, NEW f \in Frames
    PROVE  Queued(s, f) \in [Sockets -> Seq(Frames)]
BY DEF Queued, BasicTypes

\* The frames that the server builds.
LEMMA FrameType ==
    ASSUME NEW k \in Keys, NEW t \in {"DATA", "ERROR", "SILENT", "RESYNC"}
    PROVE  /\ Frame(t, k) \in Frames /\ Frame(t, k) # SessionEnd
           /\ Frame(t, k).type = t /\ Frame(t, k).key = k
<1>1. Frame(t, k).type # SessionEnd.type
  BY DEF SessionEnd, Frame
<1> QED
  BY <1>1 DEF Frames, Frame

LEMMA LateFrameType ==
    ASSUME NEW k \in Keys, NEW t \in {"DATA", "ERROR", "SILENT", "RESYNC"}
    PROVE  \E f \in Frames : /\ f = [type |-> t, key |-> k, late |-> TRUE]
                            /\ f # SessionEnd /\ f.key = k /\ f.late
<1> DEFINE f == [type |-> t, key |-> k, late |-> TRUE]
<1>1. f.type # SessionEnd.type
  BY DEF SessionEnd
<1>2. f \in Frames /\ f.key = k /\ f.late
  BY DEF Frames
<1> QED
  BY <1>1, <1>2

\* A frame that is not the end of the session names a key.
LEMMA FrameShape ==
    ASSUME NEW f \in Frames
    PROVE  /\ f.type = "4401" <=> f = SessionEnd
           /\ f # SessionEnd => f.key \in Keys /\ f.late \in BOOLEAN
                                /\ f.type \in {"DATA", "ERROR", "SILENT", "RESYNC"}
BY DEF Frames, SessionEnd

LEMMA AskType ==
    ASSUME NEW k \in Keys
    PROVE  /\ Ask(k) \in Requests /\ Leave(k) \in Requests /\ Ask(k) # Leave(k)
           /\ <<Ask(k)>> \in Seq(Requests) /\ <<Leave(k)>> \in Seq(Requests)
BY DEF Ask, Leave, Requests

\* A message to the server is a REQUEST or a CLOSE of its key.
LEMMA RequestShape ==
    ASSUME NEW m \in Requests
    PROVE  /\ m.key \in Keys
           /\ m.type = "REQUEST" => m = Ask(m.key)
           /\ m.type # "REQUEST" => m = Leave(m.key)
BY DEF Ask, Leave, Requests

\* The cancelled watches are the watches, some of them no longer live.
LEMMA CancelledFacts ==
    ASSUME BasicTypes, NEW S
    PROVE  /\ Cancelled(S) \subseteq Watches
           /\ \A x \in Cancelled(S) : \E w \in watches :
                /\ x.sock = w.sock /\ x.key = w.key /\ x.id = w.id /\ x.at = w.at
                /\ x = IF w \in S THEN [w EXCEPT !.live = FALSE] ELSE w
                /\ x.live => w.live /\ w \notin S
           /\ \A w \in watches : \E x \in Cancelled(S) :
                /\ x.sock = w.sock /\ x.key = w.key /\ x.id = w.id /\ x.at = w.at
                /\ w \notin S => x = w
<1>1. \A w \in watches : /\ w \in Watches
                         /\ [w EXCEPT !.live = FALSE] \in Watches
                         /\ [w EXCEPT !.live = FALSE].sock = w.sock
                         /\ [w EXCEPT !.live = FALSE].key = w.key
                         /\ [w EXCEPT !.live = FALSE].id = w.id
                         /\ [w EXCEPT !.live = FALSE].at = w.at
                         /\ [w EXCEPT !.live = FALSE].live = FALSE
  BY DEF BasicTypes, Watches
<1> QED
  BY <1>1 DEF Cancelled

\* The messages with which a socket that opens asks for every subscription.
LEMMA AskAllFacts ==
    ASSUME BasicTypes
    PROVE  LET q == SetToSeq({[type |-> "REQUEST", key |-> k] : k \in Subscriptions}) IN
           /\ q \in Seq(Requests)
           /\ \A k \in Keys : Has(q, Ask(k)) <=> k \in Subscriptions
           /\ \A k \in Keys : ~Has(q, Leave(k)) /\ Alternates(q, Ask(k), Leave(k))
<1> DEFINE A == {[type |-> "REQUEST", key |-> k] : k \in Subscriptions}
           q == SetToSeq(A)
<1>1. IsFiniteSet(Subscriptions) /\ Subscriptions \subseteq Keys
  BY DEF BasicTypes, Subscriptions
<1>2. A \subseteq Requests /\ \A k \in Keys : (Ask(k) \in A <=> k \in Subscriptions) /\ Leave(k) \notin A
  <2>1. A \subseteq Requests /\ \A e \in A : e.type = "REQUEST" /\ e.key \in Subscriptions
    BY <1>1 DEF Requests
  <2>2. \A k \in Subscriptions : Ask(k) \in A
    BY DEF Ask
  <2>3. \A k \in Keys : Ask(k).key = k /\ Leave(k).type # "REQUEST"
    BY DEF Ask, Leave
  <2> QED
    BY <2>1, <2>2, <2>3
<1>3. IsFiniteSet(A)
  <2>1. [k \in Subscriptions |-> [type |-> "REQUEST", key |-> k]] \in Surjection(Subscriptions, A)
    BY DEF Surjection
  <2> QED
    BY <1>1, <2>1, FS_Surjection DEF ExistsSurjection
<1> HIDE DEF A
<1>4. /\ q \in Seq(A) /\ \A e \in A : Has(q, e)
      /\ \A i, j \in 1 .. Len(q) : q[i] = q[j] => i = j
  BY <1>3, SetToSeqFacts
<1> HIDE DEF q
<1>5. Len(q) \in Nat /\ \A i \in 1 .. Len(q) : q[i] \in A
  BY <1>4
<1>6. q \in Seq(Requests)
  BY <1>2, <1>4, <1>5
<1>7. \A k \in Keys : (Has(q, Ask(k)) <=> k \in Subscriptions) /\ ~Has(q, Leave(k))
  BY <1>2, <1>4, <1>5 DEF Has
<1>8. \A k \in Keys : Alternates(q, Ask(k), Leave(k))
  <2> SUFFICES ASSUME NEW k \in Keys, NEW i \in 1 .. Len(q), NEW j \in 1 .. i - 1, q[i] = Ask(k), q[j] = Ask(k)
               PROVE  FALSE
    BY DEF Alternates
  <2>1. j \in 1 .. Len(q) /\ j # i
    BY <1>5
  <2> QED
    BY <1>4, <2>1
<1> QED
  BY <1>6, <1>7, <1>8 DEF q, A

\* Connecting is of the right type, and so is what it leaves of the wire.
LEMMA ConnectTypes ==
    ASSUME BasicTypes, Connect
    PROVE  /\ socket' \in Sockets \cup {None}
           /\ ready' \in [Sockets -> {"free", "connecting", "open", "closing"}]
           /\ link' \in [Sockets -> BOOLEAN]
           /\ up' \in [Sockets -> Seq(Requests)]
           /\ down' \in [Sockets -> Seq(Frames)]
<1>1. CASE UNCHANGED <<socket, ready, wireVars>>
  BY <1>1 DEF BasicTypes, wireVars
<1>2. ASSUME NEW s \in Sockets, NewSocket(s)
      PROVE  /\ socket' \in Sockets \cup {None}
             /\ ready' \in [Sockets -> {"free", "connecting", "open", "closing"}]
             /\ link' \in [Sockets -> BOOLEAN]
             /\ up' \in [Sockets -> Seq(Requests)]
             /\ down' \in [Sockets -> Seq(Frames)]
  BY <1>2 DEF NewSocket, BasicTypes
<1> QED
  BY <1>1, <1>2 DEF Connect

\* Subscriptions grow and shrink by one key at a time.
LEMMA SubscriptionsFinite ==
    ASSUME BasicTypes, NEW k \in Keys, NEW n \in 0 .. MaxListeners,
           listeners' = [listeners EXCEPT ![k] = n]
    PROVE  /\ listeners' \in [Keys -> 0 .. MaxListeners] /\ IsFiniteSet(Subscriptions')
           /\ Subscriptions' = IF n > 0 THEN Subscriptions \cup {k} ELSE Subscriptions \ {k}
<1>1. listeners' \in [Keys -> 0 .. MaxListeners]
  BY DEF BasicTypes
<1>2. Subscriptions' = IF n > 0 THEN Subscriptions \cup {k} ELSE Subscriptions \ {k}
  BY DEF Subscriptions, BasicTypes
<1>3. IsFiniteSet(Subscriptions \cup {k}) /\ IsFiniteSet(Subscriptions \ {k})
  BY FS_AddElement, FS_RemoveElement DEF BasicTypes
<1> QED
  BY <1>1, <1>2, <1>3

\* A goroutine keeps its socket, its key and its number.
LEMMA BecomesType ==
    ASSUME BasicTypes, NEW w \in watches, NEW x \in Watches, Becomes(w, x)
    PROVE  watches' \subseteq Watches
BY DEF Becomes, BasicTypes

\* The goroutines' steps, as seen by the others: frames of their key are
\* queued on their socket, and their own state moves on.
GoroutineStep(w) ==
    /\ w.sock \in Sockets /\ w.key \in Keys
    /\ UNCHANGED <<clientVars, link, up, conn, drops, calls>>
    /\ \/ /\ UNCHANGED place
          /\ \/ UNCHANGED down
             \/ \E f \in Frames : /\ f # SessionEnd /\ f.key = w.key
                                  /\ w.live \/ f.late
                                  /\ down' = Queued(w.sock, f)
          /\ \/ UNCHANGED watches /\ w.live /\ w.at # "done"
             \/ \E x \in Watches :
                  /\ Becomes(w, x) /\ x.sock = w.sock /\ x.key = w.key /\ x.id = w.id /\ x.live = w.live
                  /\ \/ w.live /\ x.at # "done" /\ w.at # "done"
                     \/ ~w.live
                     \/ w.live /\ (w.key \in Unsupported \/ down' = Queued(w.sock, Frame("ERROR", w.key)))
       \/ forgetSubscription(w) /\ UNCHANGED down

LEMMA GoroutineFacts ==
    ASSUME BasicTypes, NEW w \in watches, Goroutine(w)
    PROVE  GoroutineStep(w)
<1>0. w \in Watches /\ w.sock \in Sockets /\ w.key \in Keys /\ w.live \in BOOLEAN
  BY DEF BasicTypes, Watches
<1>1. CASE forgetSubscription(w) /\ UNCHANGED <<clientVars, wireVars, conn, drops, calls>>
  BY <1>0, <1>1 DEF GoroutineStep, wireVars
<1>2. CASE runWatch(w) /\ UNCHANGED <<clientVars, link, up, conn, place, drops, calls>>
  <2>0. UNCHANGED <<clientVars, link, up, conn, drops, calls>> /\ UNCHANGED place
    BY <1>2
  <2>1. \A t \in {"DATA", "ERROR", "SILENT", "RESYNC"} :
           Frame(t, w.key) \in Frames /\ Frame(t, w.key) # SessionEnd /\ Frame(t, w.key).key = w.key
    BY <1>0, FrameType
  <2>2. CASE WatchStarts(w)
    <3>1. [w EXCEPT !.at = "on", !.resync = FALSE] \in Watches
      BY <1>0 DEF Watches
    <3>2. LET x == [w EXCEPT !.at = "on", !.resync = FALSE] IN
          /\ x.sock = w.sock /\ x.key = w.key /\ x.id = w.id /\ x.live = w.live /\ x.at = "on"
      BY <1>0 DEF Watches
    <3>3. w.live /\ w.at # "done" /\ Becomes(w, [w EXCEPT !.at = "on", !.resync = FALSE])
      BY <2>2 DEF WatchStarts
    <3>4. UNCHANGED down \/ down' = Queued(w.sock, Frame("RESYNC", w.key))
      BY <2>2 DEF WatchStarts
    <3> QED
      BY <1>0, <2>0, <2>1, <3>1, <3>2, <3>3, <3>4 DEF GoroutineStep
  <2>3. CASE WatchFails(w)
    <3>1. [w EXCEPT !.resync = TRUE] \in Watches
      BY <1>0 DEF Watches
    <3>2. LET x == [w EXCEPT !.resync = TRUE] IN
          /\ x.sock = w.sock /\ x.key = w.key /\ x.id = w.id /\ x.live = w.live /\ x.at = w.at
      BY <1>0 DEF Watches
    <3>3. w.live /\ w.at # "done" /\ Becomes(w, [w EXCEPT !.resync = TRUE])
      BY <2>3 DEF WatchFails
    <3>4. down' = Queued(w.sock, Frame("ERROR", w.key)) \/ down' = Queued(w.sock, Frame("SILENT", w.key))
      BY <2>3 DEF WatchFails
    <3> QED
      BY <1>0, <2>0, <2>1, <3>1, <3>2, <3>3, <3>4 DEF GoroutineStep
  <2>4. CASE WatchImpossible(w)
    <3>1. [w EXCEPT !.at = "done"] \in Watches
      BY <1>0 DEF Watches
    <3>2. LET x == [w EXCEPT !.at = "done"] IN
          /\ x.sock = w.sock /\ x.key = w.key /\ x.id = w.id /\ x.live = w.live
      BY <1>0 DEF Watches
    <3> QED
      BY <1>0, <2>0, <2>1, <2>4, <3>1, <3>2 DEF GoroutineStep, WatchImpossible
  <2>4a. CASE WatchUnsupported(w)
    <3>1. [w EXCEPT !.at = "done"] \in Watches
      BY <1>0 DEF Watches
    <3>2. LET x == [w EXCEPT !.at = "done"] IN
          /\ x.sock = w.sock /\ x.key = w.key /\ x.id = w.id /\ x.live = w.live
      BY <1>0 DEF Watches
    <3> QED
      BY <1>0, <2>0, <2>1, <2>4a, <3>1, <3>2 DEF GoroutineStep, WatchUnsupported
  <2>5. CASE WatchEvent(w)
    BY <1>0, <2>0, <2>1, <2>5 DEF GoroutineStep, WatchEvent
  <2>6. CASE WatchEnds(w)
    <3>1. PICK expired \in BOOLEAN : Becomes(w, [w EXCEPT !.at = "start", !.resync = expired])
      BY <2>6 DEF WatchEnds
    <3>2. [w EXCEPT !.at = "start", !.resync = expired] \in Watches
      BY <1>0 DEF Watches
    <3>3. LET x == [w EXCEPT !.at = "start", !.resync = expired] IN
          /\ x.sock = w.sock /\ x.key = w.key /\ x.id = w.id /\ x.live = w.live /\ x.at = "start"
      BY <1>0 DEF Watches
    <3>4. w.live /\ w.at # "done" /\ UNCHANGED down
      BY <2>6 DEF WatchEnds
    <3> QED
      BY <1>0, <2>0, <3>1, <3>2, <3>3, <3>4 DEF GoroutineStep
  <2>7. CASE WatchStops(w)
    <3>1. [w EXCEPT !.at = "done"] \in Watches
      BY <1>0 DEF Watches
    <3>2. LET x == [w EXCEPT !.at = "done"] IN
          /\ x.sock = w.sock /\ x.key = w.key /\ x.id = w.id /\ x.live = w.live
      BY <1>0 DEF Watches
    <3>3. ~w.live /\ Becomes(w, [w EXCEPT !.at = "done"])
      BY <2>7 DEF WatchStops
    <3>4. UNCHANGED down \/ \E t \in {"DATA", "ERROR", "SILENT", "RESYNC"} :
                              down' = Queued(w.sock, [type |-> t, key |-> w.key, late |-> TRUE])
      BY <2>7 DEF WatchStops
    <3>5. UNCHANGED down \/ \E f \in Frames : f # SessionEnd /\ f.key = w.key /\ f.late /\ down' = Queued(w.sock, f)
      <4>1. ASSUME NEW t \in {"DATA", "ERROR", "SILENT", "RESYNC"},
                   down' = Queued(w.sock, [type |-> t, key |-> w.key, late |-> TRUE])
            PROVE  \E f \in Frames : f # SessionEnd /\ f.key = w.key /\ f.late /\ down' = Queued(w.sock, f)
        <5>1. PICK f \in Frames : /\ f = [type |-> t, key |-> w.key, late |-> TRUE]
                                 /\ f # SessionEnd /\ f.key = w.key /\ f.late
          BY <1>0, LateFrameType
        <5> QED
          BY <4>1, <5>1
      <4> QED
        BY <3>4, <4>1
    <3> QED
      BY <1>0, <2>0, <3>1, <3>2, <3>3, <3>5 DEF GoroutineStep
  <2> QED
    BY <1>2, <2>2, <2>3, <2>4, <2>4a, <2>5, <2>6, <2>7 DEF runWatch
<1> QED
  BY <1>1, <1>2 DEF Goroutine

\* Every step keeps the types.
LEMMA TypesStep ==
    ASSUME BasicTypes, [Next]_vars
    PROVE  BasicTypes'
<1> USE WatchAssumption
<1>1. ASSUME NEW k \in Keys, Subscribe(k) PROVE BasicTypes'
  <2>1. listeners[k] + 1 \in 0 .. MaxListeners /\ calls' \in 0 .. MaxSubscribes
    BY <1>1 DEF Subscribe, BasicTypes
  <2>2. listeners' \in [Keys -> 0 .. MaxListeners] /\ IsFiniteSet(Subscriptions')
    <3>1. listeners' = [listeners EXCEPT ![k] = listeners[k] + 1]
      BY <1>1 DEF Subscribe
    <3> QED
      BY <2>1, <3>1, SubscriptionsFinite
  <2>3. CASE IsOpen
    <3>1. socket \in Sockets /\ Sent(socket, <<[type |-> "REQUEST", key |-> k]>>) \in [Sockets -> Seq(Requests)]
      BY <2>3, SentType, AskType DEF IsOpen, BasicTypes, Ask
    <3>2. up' \in [Sockets -> Seq(Requests)]
      BY <1>1, <2>3, <3>1 DEF Subscribe, BasicTypes
    <3> QED
      BY <1>1, <2>1, <2>2, <2>3, <3>2 DEF Subscribe, BasicTypes, serverVars
  <2>4. CASE ~IsOpen
    <3>1. Connect
      BY <1>1, <2>4 DEF Subscribe
    <3> QED
      BY <1>1, <2>1, <2>2, <3>1, ConnectTypes DEF Subscribe, BasicTypes, serverVars
  <2> QED
    BY <2>3, <2>4
<1>2. ASSUME NEW k \in Keys, Unsubscribe(k) PROVE BasicTypes'
  <2>1. listeners[k] - 1 \in 0 .. MaxListeners
    BY <1>2 DEF Unsubscribe, BasicTypes
  <2>2. listeners' \in [Keys -> 0 .. MaxListeners] /\ IsFiniteSet(Subscriptions')
    <3>1. listeners' = [listeners EXCEPT ![k] = listeners[k] - 1]
      BY <1>2 DEF Unsubscribe
    <3> QED
      BY <2>1, <3>1, SubscriptionsFinite
  <2>3. IsOpen => Sent(socket, <<[type |-> "CLOSE", key |-> k]>>) \in [Sockets -> Seq(Requests)]
    BY SentType, AskType DEF IsOpen, BasicTypes, Leave
  <2>4. up' \in [Sockets -> Seq(Requests)] /\ problem' \subseteq Keys /\ old' \subseteq Keys
    BY <1>2, <2>3 DEF Unsubscribe, BasicTypes
  <2> QED
    BY <1>2, <2>2, <2>4 DEF Unsubscribe, BasicTypes, serverVars
<1>3. CASE TimerFires
  BY <1>3, ConnectTypes DEF TimerFires, BasicTypes, serverVars, Subscriptions
<1>4. CASE SessionStands
  BY <1>4 DEF SessionStands, BasicTypes, serverVars, wireVars, Subscriptions, Scheduled
<1>5. CASE SessionOver
  <2>1. Subscriptions' = {} /\ IsFiniteSet({})
    BY <1>5, FS_EmptySet DEF SessionOver, Subscriptions
  <2>2. listeners' \in [Keys -> 0 .. MaxListeners] /\ down' \in [Sockets -> Seq(Frames)]
    BY <1>5 DEF SessionOver
  <2>3. link' \in [Sockets -> BOOLEAN] /\ ready' \in [Sockets -> {"free", "connecting", "open", "closing"}]
    BY <1>5 DEF SessionOver
  <2> QED
    BY <1>5, <2>1, <2>2, <2>3 DEF SessionOver, BasicTypes, serverVars
<1>6. ASSUME NEW s \in Sockets, Opened(s) PROVE BasicTypes'
  <2>1. up' \in [Sockets -> Seq(Requests)]
    BY <1>6, AskAllFacts, SentType DEF Opened
  <2> QED
    BY <1>6, <2>1 DEF Opened, BasicTypes, serverVars, Subscriptions
<1>7. ASSUME NEW s \in Sockets, ClosedAbnormally(s) PROVE BasicTypes'
  <2>1. Scheduled \in BOOLEAN /\ Subscriptions' = Subscriptions
    BY <1>7 DEF ClosedAbnormally, Subscriptions, Scheduled, BasicTypes
  <2> QED
    BY <1>7, <2>1 DEF ClosedAbnormally, BasicTypes, serverVars
<1>7a. ASSUME NEW s \in Sockets, ClosedBySession(s) PROVE BasicTypes'
  <2>1. Subscriptions' = Subscriptions
    BY <1>7a DEF ClosedBySession, Subscriptions
  <2> QED
    BY <1>7a, <2>1 DEF ClosedBySession, BasicTypes, serverVars
<1>8. ASSUME NEW s \in Sockets, Receive(s) PROVE BasicTypes'
  <2>1. Head(down[s]) \in Frames /\ Tail(down[s]) \in Seq(Frames)
    BY <1>8, TailAt DEF Receive, BasicTypes
  <2>2. down' \in [Sockets -> Seq(Frames)]
    BY <1>8, <2>1 DEF Receive, BasicTypes
  <2>3. problem' \subseteq Keys /\ old' \subseteq Keys
    BY <1>8, <2>1, FrameShape DEF Receive, BasicTypes, Recorded
  <2> QED
    BY <1>8, <2>2, <2>3 DEF Receive, BasicTypes, serverVars, Subscriptions
<1>9. ASSUME NEW s \in Sockets, Accept(s) PROVE BasicTypes'
  <2>1. Subscriptions' = Subscriptions
    BY <1>9 DEF Accept, Subscriptions, clientVars
  <2> QED
    BY <1>9, <2>1 DEF Accept, BasicTypes, clientVars, wireVars
<1>9a. ASSUME NEW s \in Sockets, Cut(s) PROVE BasicTypes'
  <2>1. Subscriptions' = Subscriptions
    BY <1>9a DEF Cut, Subscriptions, clientVars
  <2> QED
    BY <1>9a, <2>1 DEF Cut, BasicTypes, clientVars, serverVars
<1>10. ASSUME NEW s \in Sockets, Serve(s) PROVE BasicTypes'
  <2>0. up[s] # <<>> /\ up' = [up EXCEPT ![s] = Tail(up[s])]
    BY <1>10 DEF Serve
  <2>1. Head(up[s]) \in Requests /\ Tail(up[s]) \in Seq(Requests)
    BY <2>0, TailAt DEF BasicTypes
  <2>2. up' \in [Sockets -> Seq(Requests)]
    BY <2>0, <2>1 DEF BasicTypes
  <2> DEFINE k == Head(up[s]).key
  <2>3. k \in Keys
    BY <2>1, RequestShape
  <2> HIDE DEF k
  <2>5. ASSUME NEW i \in SubIds,
               place' = [place EXCEPT ![s][k] = i],
               watches' = watches \cup {[sock |-> s, key |-> k, id |-> i, at |-> "start", resync |-> FALSE,
                                         live |-> conn[s] = "up"]}
        PROVE  place' \in [Sockets -> [Keys -> SubIds \cup {0}]] /\ watches' \subseteq Watches
    <3>1. watches' \subseteq Watches
      <4> DEFINE live == conn[s] = "up"
      <4>1. live \in BOOLEAN /\ watches \subseteq Watches
        BY DEF BasicTypes
      <4> HIDE DEF live
      <4>2. [sock |-> s, key |-> k, id |-> i, at |-> "start", resync |-> FALSE, live |-> live] \in Watches
        BY <2>3, <4>1 DEF Watches
      <4> QED
        BY <2>5, <4>1, <4>2 DEF live
    <3>2. place' \in [Sockets -> [Keys -> SubIds \cup {0}]]
      <4>1. i \in SubIds \cup {0} /\ place \in [Sockets -> [Keys -> SubIds \cup {0}]]
        BY DEF BasicTypes
      <4>2. [place[s] EXCEPT ![k] = i] \in [Keys -> SubIds \cup {0}]
        BY <2>3, <4>1
      <4> QED
        BY <2>5, <4>1, <4>2
    <3> QED
      BY <3>1, <3>2
  <2>7. Refused(s, k) \/ UNCHANGED <<down, place, watches>> \/ Close(s, k)
        \/ (UNCHANGED down /\ \E i \in SubIds :
               /\ place' = [place EXCEPT ![s][k] = i]
               /\ watches' = watches \cup {[sock |-> s, key |-> k, id |-> i, at |-> "start", resync |-> FALSE,
                                            live |-> conn[s] = "up"]})
    BY <1>10 DEF Serve, Request, SubIds, k
  <2>8. /\ place' \in [Sockets -> [Keys -> SubIds \cup {0}]] /\ watches' \subseteq Watches
        /\ down' \in [Sockets -> Seq(Frames)]
    <3>1. CASE Refused(s, k)
      BY <2>3, <3>1, FrameType, QueuedType DEF Refused, BasicTypes
    <3>2. CASE Close(s, k)
      BY <2>3, <3>2, CancelledFacts DEF Close, BasicTypes
    <3>3. CASE UNCHANGED <<down, place, watches>>
      BY <3>3 DEF BasicTypes
    <3> QED
      BY <2>5, <2>7, <3>1, <3>2, <3>3 DEF BasicTypes
  <2> QED
    BY <1>10, <2>2, <2>8 DEF Serve, BasicTypes, clientVars, Subscriptions
<1>11. ASSUME NEW s \in Sockets, Disconnected(s) PROVE BasicTypes'
  BY <1>11, CancelledFacts, SMTT(30) DEF Disconnected, BasicTypes, clientVars, Subscriptions
<1>12. ASSUME NEW s \in Sockets, SessionEnds(s) PROVE BasicTypes'
  <2>1. SessionEnd \in Frames /\ \A n \in 0 .. Len(down[s]) : Append(SubSeq(down[s], 1, n), SessionEnd) \in Seq(Frames)
    BY DEF Frames, BasicTypes
  <2>2. down' \in [Sockets -> Seq(Frames)]
    BY <1>12, <2>1 DEF SessionEnds, BasicTypes
  <2>3. drops' \in 0 .. MaxDrops
    BY <1>12 DEF SessionEnds, BasicTypes
  <2>4. Subscriptions' = Subscriptions
    BY <1>12 DEF SessionEnds, Subscriptions, clientVars
  <2>5. watches' \subseteq Watches
    BY <1>12, CancelledFacts DEF SessionEnds
  <2> QED
    BY <1>12, <2>2, <2>3, <2>4, <2>5 DEF SessionEnds, BasicTypes, clientVars
<1>13. ASSUME NEW w \in watches, Goroutine(w) PROVE BasicTypes'
  <2>1. GoroutineStep(w)
    BY <1>13, GoroutineFacts
  <2>2. w.sock \in Sockets
    BY <2>1 DEF GoroutineStep
  <2>3. down' \in [Sockets -> Seq(Frames)]
    BY <2>1, <2>2, QueuedType, FrameType DEF GoroutineStep, BasicTypes
  <2>4. watches' \subseteq Watches
    BY <2>1, BecomesType DEF GoroutineStep, forgetSubscription, BasicTypes
  <2>5. place' \in [Sockets -> [Keys -> SubIds \cup {0}]]
    <3>1. place \in [Sockets -> [Keys -> SubIds \cup {0}]] /\ w.key \in Keys
      BY <2>1 DEF GoroutineStep, BasicTypes
    <3>2. place' = place \/ place' = [place EXCEPT ![w.sock][w.key] = 0]
      BY <2>1 DEF GoroutineStep, forgetSubscription
    <3>3. [place[w.sock] EXCEPT ![w.key] = 0] \in [Keys -> SubIds \cup {0}]
      BY <2>2, <3>1
    <3> QED
      BY <2>2, <3>1, <3>2, <3>3
  <2> QED
    BY <2>1, <2>3, <2>4, <2>5 DEF GoroutineStep, BasicTypes, clientVars, Subscriptions
<1>14. CASE UNCHANGED vars
  BY <1>14 DEF vars, clientVars, wireVars, serverVars, BasicTypes, Subscriptions
<1> QED
  BY <1>1, <1>2, <1>3, <1>4, <1>5, <1>6, <1>7, <1>7a, <1>8, <1>9, <1>9a, <1>10, <1>11, <1>12, <1>13, <1>14
  DEF Next, Browser, Server

-----------------------------------------------------------------------------
(* Places and goroutines.                                                  *)

\* A REQUEST that is granted: goroutine i of its key holds the place.
Granted(s, k, i) ==
    /\ place[s][k] = 0
    /\ \A w \in Running(s, k) : w.id # i
    /\ place' = [place EXCEPT ![s][k] = i]
    /\ \E x \in Watches : /\ x.sock = s /\ x.key = k /\ x.id = i /\ x.at = "start"
                          /\ x.live <=> conn[s] = "up"
                          /\ watches' = watches \cup {x}
    /\ UNCHANGED down

\* One turn of the read loop.
LEMMA ServeFacts ==
    ASSUME BasicTypes, NEW s \in Sockets, Serve(s)
    PROVE  /\ conn[s] # "none" /\ up[s] # <<>> /\ up' = [up EXCEPT ![s] = Tail(up[s])]
           /\ up'[s] = Tail(up[s]) /\ \A t \in Sockets \ {s} : up'[t] = up[t]
           /\ UNCHANGED <<listeners, socket, ready, timer, asking, signedOut, problem, old>>
           /\ UNCHANGED <<link, conn, drops, calls>>
           /\ \E k \in Keys :
                \/ Head(up[s]) = Ask(k) /\ Refused(s, k)
                \/ Head(up[s]) = Ask(k) /\ place[s][k] # 0 /\ UNCHANGED <<down, place, watches>>
                \/ Head(up[s]) = Ask(k) /\ \E i \in SubIds : Granted(s, k, i)
                \/ Head(up[s]) = Leave(k) /\ Close(s, k)
<1>1. /\ conn[s] # "none" /\ up[s] # <<>> /\ up' = [up EXCEPT ![s] = Tail(up[s])]
      /\ UNCHANGED <<clientVars, link, conn, drops, calls>>
  BY DEF Serve
<1>2. up'[s] = Tail(up[s]) /\ \A t \in Sockets \ {s} : up'[t] = up[t]
  BY <1>1 DEF BasicTypes
<1>3. Head(up[s]) \in Requests
  BY <1>1, TailAt DEF BasicTypes
<1> DEFINE k == Head(up[s]).key
<1>4. /\ k \in Keys
      /\ Head(up[s]).type = "REQUEST" => Head(up[s]) = Ask(k)
      /\ Head(up[s]).type # "REQUEST" => Head(up[s]) = Leave(k)
  BY <1>3, RequestShape
<1>5. IF Head(up[s]).type = "REQUEST" THEN Request(s, k) ELSE Close(s, k)
  BY DEF Serve
<1> HIDE DEF k
<1>6. ASSUME NEW i \in SubIds, place[s][k] = 0, UNCHANGED down,
             \A w \in Running(s, k) : w.id # i,
             place' = [place EXCEPT ![s][k] = i],
             watches' = watches \cup {[sock |-> s, key |-> k, id |-> i, at |-> "start", resync |-> FALSE,
                                       live |-> conn[s] = "up"]}
      PROVE  Granted(s, k, i)
  <2> DEFINE live == conn[s] = "up"
             x == [sock |-> s, key |-> k, id |-> i, at |-> "start", resync |-> FALSE, live |-> live]
  <2>1. live \in BOOLEAN /\ (live <=> conn[s] = "up") /\ watches' = watches \cup {x}
    BY <1>6
  <2> HIDE DEF live
  <2>2. x \in Watches /\ x.sock = s /\ x.key = k /\ x.id = i /\ x.at = "start" /\ x.live = live
    BY <1>4, <2>1 DEF Watches
  <2> HIDE DEF x
  <2> QED
    BY <1>6, <2>1, <2>2 DEF Granted
<1>7. Request(s, k) => \/ Refused(s, k)
                       \/ place[s][k] # 0 /\ UNCHANGED <<down, place, watches>>
                       \/ \E i \in SubIds : Granted(s, k, i)
  BY <1>6 DEF Request, SubIds
<1>8. \/ Head(up[s]) = Ask(k) /\ Refused(s, k)
      \/ Head(up[s]) = Ask(k) /\ place[s][k] # 0 /\ UNCHANGED <<down, place, watches>>
      \/ Head(up[s]) = Ask(k) /\ \E i \in SubIds : Granted(s, k, i)
      \/ Head(up[s]) = Leave(k) /\ Close(s, k)
  BY <1>4, <1>5, <1>7
<1> QED
  BY <1>1, <1>2, <1>4, <1>8 DEF clientVars

\* The steps that touch connections, places or goroutines.
LEMMA ServerSteps ==
    ASSUME BasicTypes, [Next]_vars
    PROVE  \/ UNCHANGED <<conn, place, watches>>
           \/ \E s \in Sockets : Accept(s) \/ Serve(s) \/ Disconnected(s) \/ SessionEnds(s)
           \/ \E w \in watches : GoroutineStep(w)
BY GoroutineFacts DEF Next, Browser, Server, vars, serverVars, Subscribe, Unsubscribe, TimerFires, SessionStands,
       SessionOver, Opened, ClosedAbnormally, ClosedBySession, Receive, Cut

\* The places and goroutines after some goroutines were cancelled.
LEMMA CancelKeeps ==
    ASSUME BasicTypes, OneOfEach, NEW S, watches' = Cancelled(S)
    PROVE  OneOfEach'
<1> SUFFICES ASSUME NEW v \in watches', NEW w \in watches',
                    v.sock = w.sock, v.key = w.key, v.id = w.id
             PROVE  v = w
  BY DEF OneOfEach
<1>1. PICK v0 \in watches : /\ v.sock = v0.sock /\ v.key = v0.key /\ v.id = v0.id
                            /\ v = IF v0 \in S THEN [v0 EXCEPT !.live = FALSE] ELSE v0
  BY CancelledFacts
<1>2. PICK w0 \in watches : /\ w.sock = w0.sock /\ w.key = w0.key /\ w.id = w0.id
                            /\ w = IF w0 \in S THEN [w0 EXCEPT !.live = FALSE] ELSE w0
  BY CancelledFacts
<1>3. v0 = w0
  BY <1>1, <1>2 DEF OneOfEach
<1> QED
  BY <1>1, <1>2, <1>3

\* A place that is looked up after an assignment to one of them.
LEMMA PlaceAt ==
    ASSUME BasicTypes, NEW s \in Sockets, NEW k \in Keys, NEW i,
           place' = [place EXCEPT ![s][k] = i]
    PROVE  \A t \in Sockets, l \in Keys : place'[t][l] = IF t = s /\ l = k THEN i ELSE place[t][l]
BY DEF BasicTypes

\* Every step keeps places and goroutines in order.
LEMMA PlacesStep ==
    ASSUME BasicTypes, OneOfEach, LiveWatchHoldsPlace, NoPlaceLeaks, [Next]_vars
    PROVE  OneOfEach' /\ LiveWatchHoldsPlace' /\ NoPlaceLeaks'
<1> DEFINE Goal == OneOfEach' /\ LiveWatchHoldsPlace' /\ NoPlaceLeaks'
<1>0. \A w \in watches : w.sock \in Sockets /\ w.key \in Keys /\ w.id \in Nat \ {0} /\ w.live \in BOOLEAN
  BY DEF BasicTypes, Watches, SubIds
<1>1. CASE UNCHANGED <<conn, place, watches>>
  BY <1>1 DEF OneOfEach, LiveWatchHoldsPlace, NoPlaceLeaks, Running, Places
<1>2. ASSUME NEW s \in Sockets, Accept(s) PROVE Goal
  <2>1. UNCHANGED <<place, watches>> /\ conn[s] = "none" /\ \A t \in Sockets \ {s} : conn'[t] = conn[t]
    BY <1>2 DEF Accept, BasicTypes
  <2>2. \A w \in watches : w.live => w.sock # s
    BY <2>1 DEF LiveWatchHoldsPlace
  <2>3. Places(s) = {}
    BY <2>1 DEF NoPlaceLeaks
  <2> QED
    BY <1>0, <2>1, <2>2, <2>3 DEF OneOfEach, LiveWatchHoldsPlace, NoPlaceLeaks, Running, Places
<1>3. ASSUME NEW s \in Sockets, Serve(s) PROVE Goal
  <2>1. conn[s] # "none" /\ UNCHANGED conn
    BY <1>3, ServeFacts
  <2>2. PICK k \in Keys :
                \/ Refused(s, k)
                \/ UNCHANGED <<place, watches>>
                \/ \E i \in SubIds : Granted(s, k, i)
                \/ Close(s, k)
    BY <1>3, ServeFacts
  <2>3. CASE UNCHANGED <<place, watches>>
    BY <1>1, <2>1, <2>3
  <2>4. ASSUME NEW i \in SubIds, Granted(s, k, i) PROVE Goal
    <3>1. PICK x \in Watches : /\ x.sock = s /\ x.key = k /\ x.id = i
                               /\ x.live <=> conn[s] = "up"
                               /\ watches' = watches \cup {x}
      BY <2>4 DEF Granted
    <3>2. \A t \in Sockets, l \in Keys : place'[t][l] = IF t = s /\ l = k THEN i ELSE place[t][l]
      <4>1. place' = [place EXCEPT ![s][k] = i] /\ place \in [Sockets -> [Keys -> SubIds \cup {0}]]
        BY <2>4 DEF Granted, BasicTypes
      <4> QED
        BY <4>1
    <3>3. place[s][k] = 0 /\ \A w \in watches : w.sock = s /\ w.key = k => w.id # i /\ ~w.live
      BY <1>0, <2>4 DEF Granted, Running, LiveWatchHoldsPlace
    <3>4. OneOfEach'
      BY <3>1, <3>3 DEF OneOfEach
    <3>5. LiveWatchHoldsPlace'
      BY <1>0, <2>1, <3>1, <3>2, <3>3 DEF LiveWatchHoldsPlace
    <3>6. NoPlaceLeaks'
      <4> SUFFICES ASSUME NEW t \in Sockets, NEW l \in Keys, place'[t][l] # 0
                   PROVE  conn[t] # "none" /\ \E w \in watches' : w.sock = t /\ w.key = l /\ w.id = place'[t][l]
        BY <2>1 DEF NoPlaceLeaks, Places, Running
      <4>1. CASE t = s /\ l = k
        BY <2>1, <3>1, <3>2, <4>1
      <4>2. CASE ~(t = s /\ l = k)
        BY <3>1, <3>2, <4>2 DEF NoPlaceLeaks, Places, Running
      <4> QED
        BY <4>1, <4>2
    <3> QED
      BY <3>4, <3>5, <3>6
  <2>5. CASE Close(s, k)
    <3> DEFINE S == {w \in Running(s, k) : w.id = place[s][k]}
    <3>1. watches' = Cancelled(S) /\ place' = [place EXCEPT ![s][k] = 0]
      BY <2>5 DEF Close
    <3>2. \A t \in Sockets, l \in Keys : place'[t][l] = IF t = s /\ l = k THEN 0 ELSE place[t][l]
      <4>1. place \in [Sockets -> [Keys -> SubIds \cup {0}]]
        BY DEF BasicTypes
      <4> HIDE DEF S
      <4> QED
        BY <3>1, <4>1
    <3>3. OneOfEach'
      BY <3>1, CancelKeeps
    <3>4. LiveWatchHoldsPlace'
      <4> SUFFICES ASSUME NEW x \in watches', x.live PROVE conn[x.sock] = "up" /\ place'[x.sock][x.key] = x.id
        BY <2>1 DEF LiveWatchHoldsPlace
      <4>1. PICK w \in watches : x.sock = w.sock /\ x.key = w.key /\ x.id = w.id /\ w.live /\ w \notin S
        BY <3>1, CancelledFacts
      <4>2. conn[w.sock] = "up" /\ place[w.sock][w.key] = w.id
        BY <4>1 DEF LiveWatchHoldsPlace
      <4>3. ~(w.sock = s /\ w.key = k)
        BY <4>1, <4>2 DEF Running
      <4> QED
        BY <1>0, <3>2, <4>1, <4>2, <4>3
    <3>5. NoPlaceLeaks'
      <4> SUFFICES ASSUME NEW t \in Sockets, NEW l \in Keys, place'[t][l] # 0
                   PROVE  conn[t] # "none" /\ \E x \in watches' : x.sock = t /\ x.key = l /\ x.id = place'[t][l]
        BY <2>1 DEF NoPlaceLeaks, Places, Running
      <4>1. place[t][l] = place'[t][l]
        BY <3>2
      <4>2. PICK w \in watches : w.sock = t /\ w.key = l /\ w.id = place[t][l] /\ conn[t] # "none"
        BY <4>1 DEF NoPlaceLeaks, Places, Running
      <4>3. PICK x \in Cancelled(S) : x.sock = w.sock /\ x.key = w.key /\ x.id = w.id
        <5> HIDE DEF S
        <5>1. \A v \in watches : \E x \in Cancelled(S) : x.sock = v.sock /\ x.key = v.key /\ x.id = v.id
          BY CancelledFacts
        <5> QED
          BY <4>2, <5>1
      <4> QED
        BY <3>1, <4>1, <4>2, <4>3
    <3> QED
      BY <3>3, <3>4, <3>5
  <2> QED
    BY <2>2, <2>3, <2>4, <2>5 DEF Refused
<1>4. ASSUME NEW s \in Sockets, Disconnected(s) \/ SessionEnds(s) PROVE Goal
  <2> DEFINE S == {w \in watches : w.sock = s}
  <2>1. watches' = Cancelled(S) /\ \A t \in Sockets \ {s} : conn'[t] = conn[t] /\ place'[t] = place[t]
    BY <1>4 DEF Disconnected, SessionEnds, BasicTypes
  <2>2. place'[s] = [k \in Keys |-> 0] \/ (place' = place /\ conn'[s] # "none" /\ conn[s] # "none")
    BY <1>4 DEF Disconnected, SessionEnds, BasicTypes
  <2>3. OneOfEach'
    BY <2>1, CancelKeeps
  <2>4. LiveWatchHoldsPlace'
    <3> SUFFICES ASSUME NEW x \in watches', x.live PROVE conn'[x.sock] = "up" /\ place'[x.sock][x.key] = x.id
      BY DEF LiveWatchHoldsPlace
    <3>1. PICK w \in watches : x.sock = w.sock /\ x.key = w.key /\ x.id = w.id /\ w.live /\ w \notin S
      BY <2>1, CancelledFacts
    <3> QED
      BY <1>0, <2>1, <3>1 DEF LiveWatchHoldsPlace
  <2>5. NoPlaceLeaks'
    <3> SUFFICES ASSUME NEW t \in Sockets, NEW l \in Keys, place'[t][l] # 0
                 PROVE  conn'[t] # "none" /\ \E x \in watches' : x.sock = t /\ x.key = l /\ x.id = place'[t][l]
      BY DEF NoPlaceLeaks, Places, Running
    <3>1. place'[t][l] = place[t][l] /\ (t = s => conn'[t] # "none")
      BY <2>1, <2>2
    <3>2. PICK w \in watches : w.sock = t /\ w.key = l /\ w.id = place[t][l] /\ conn[t] # "none"
      BY <3>1 DEF NoPlaceLeaks, Places, Running
    <3>3. PICK x \in Cancelled(S) : x.sock = w.sock /\ x.key = w.key /\ x.id = w.id
      <4> HIDE DEF S
      <4>1. \A v \in watches : \E x \in Cancelled(S) : x.sock = v.sock /\ x.key = v.key /\ x.id = v.id
        BY CancelledFacts
      <4> QED
        BY <3>2, <4>1
    <3> QED
      BY <2>1, <3>1, <3>2, <3>3
  <2> QED
    BY <2>3, <2>4, <2>5
<1>5. ASSUME NEW w \in watches, GoroutineStep(w) PROVE Goal
  <2>0. UNCHANGED conn
    BY <1>5 DEF GoroutineStep
  <2>1. CASE UNCHANGED <<place, watches>>
    BY <1>1, <2>0, <2>1
  <2>2. ASSUME UNCHANGED place, NEW x \in Watches,
               Becomes(w, x), x.sock = w.sock, x.key = w.key, x.id = w.id, x.live = w.live
        PROVE  Goal
    <3>1. watches' = (watches \ {w}) \cup {x}
      BY <2>2 DEF Becomes
    <3>2. OneOfEach'
      BY <2>2, <3>1 DEF OneOfEach
    <3>3. LiveWatchHoldsPlace'
      BY <2>0, <2>2, <3>1 DEF LiveWatchHoldsPlace
    <3>4. NoPlaceLeaks'
      BY <2>0, <2>2, <3>1 DEF NoPlaceLeaks, Places, Running
    <3> QED
      BY <3>2, <3>3, <3>4
  <2>3. CASE forgetSubscription(w)
    <3>1. watches' = watches \ {w}
      BY <2>3 DEF forgetSubscription
    <3>2. \A t \in Sockets, l \in Keys :
             place'[t][l] = IF t = w.sock /\ l = w.key /\ place[w.sock][w.key] = w.id THEN 0 ELSE place[t][l]
      <4>0. w.sock \in Sockets /\ w.key \in Keys
        BY <1>0
      <4>1. CASE place[w.sock][w.key] = w.id
        <5>1. place' = [place EXCEPT ![w.sock][w.key] = 0]
          BY <2>3, <4>1 DEF forgetSubscription
        <5>2. place \in [Sockets -> [Keys -> SubIds \cup {0}]]
          BY DEF BasicTypes
        <5>3. \A t \in Sockets, l \in Keys :
                 place'[t][l] = IF t = w.sock /\ l = w.key THEN 0 ELSE place[t][l]
          BY <4>0, <5>1, <5>2
        <5> QED
          BY <4>1, <5>3
      <4>2. CASE place[w.sock][w.key] # w.id
        <5>1. place' = place
          BY <2>3, <4>2 DEF forgetSubscription
        <5> QED
          BY <4>2, <5>1
      <4> QED
        BY <4>1, <4>2
    <3>3. OneOfEach'
      BY <3>1 DEF OneOfEach
    <3>4. LiveWatchHoldsPlace'
      BY <1>0, <2>0, <3>1, <3>2 DEF LiveWatchHoldsPlace, OneOfEach
    <3>5. NoPlaceLeaks'
      <4> SUFFICES ASSUME NEW t \in Sockets, NEW l \in Keys, place'[t][l] # 0
                   PROVE  conn[t] # "none" /\ \E x \in watches' : x.sock = t /\ x.key = l /\ x.id = place'[t][l]
        BY <2>0 DEF NoPlaceLeaks, Places, Running
      <4>1. place'[t][l] = place[t][l] /\ ~(t = w.sock /\ l = w.key /\ place[t][l] = w.id)
        BY <3>2
      <4>2. PICK v \in watches : v.sock = t /\ v.key = l /\ v.id = place[t][l] /\ conn[t] # "none"
        BY <4>1 DEF NoPlaceLeaks, Places, Running
      <4> QED
        BY <3>1, <4>1, <4>2
    <3> QED
      BY <3>3, <3>4, <3>5
  <2> QED
    BY <1>5, <2>1, <2>2, <2>3 DEF GoroutineStep
<1> QED
  BY <1>1, <1>2, <1>3, <1>4, <1>5, ServerSteps

-----------------------------------------------------------------------------
(* The questions about the session.                                        *)

\* Where a frame goes that the server queues.
LEMMA QueuedFacts ==
    ASSUME BasicTypes, NEW s \in Sockets, NEW f \in Frames, f # SessionEnd, down' = Queued(s, f)
    PROVE  /\ \A t \in Sockets \ {s} : down'[t] = down[t]
           /\ link[s] /\ conn[s] = "up" => down'[s] = Append(down[s], f)
           /\ ~(link[s] /\ conn[s] = "up") => down' = down
           /\ \A t \in Sockets : Has(down'[t], SessionEnd) <=> Has(down[t], SessionEnd)
<1>1. /\ \A t \in Sockets \ {s} : down'[t] = down[t]
      /\ link[s] /\ conn[s] = "up" => down'[s] = Append(down[s], f)
      /\ ~(link[s] /\ conn[s] = "up") => down' = down
  BY DEF Queued, BasicTypes
<1>2. Has(Append(down[s], f), SessionEnd) <=> Has(down[s], SessionEnd)
  <2>1. down[s] \in Seq(Frames)
    BY DEF BasicTypes
  <2> QED
    BY <2>1, AppendFacts
<1> QED
  BY <1>1, <1>2

LEMMA EmptyHas == ASSUME NEW a PROVE ~Has(<<>>, a)
BY DEF Has

\* A step after which the browser has no more to act on.
Calm ==
    /\ \A t \in Sockets : EndPending(t)' => EndPending(t)
    /\ asking' <= asking /\ drops' >= drops

\* A new socket starts from nothing.
LEMMA ConnectFacts ==
    ASSUME BasicTypes, Connect
    PROVE  \/ HasSocket /\ UNCHANGED <<socket, ready, link, up, down>>
           \/ \E s \in Sockets :
                /\ ~HasSocket /\ Unused(s) /\ socket' = s
                /\ ready'[s] = "connecting" /\ link'[s] /\ up'[s] = <<>> /\ down'[s] = <<>>
                /\ \A t \in Sockets \ {s} :
                     ready'[t] = ready[t] /\ link'[t] = link[t] /\ up'[t] = up[t] /\ down'[t] = down[t]
BY DEF Connect, NewSocket, BasicTypes, wireVars

LEMMA ConnectCalm ==
    ASSUME BasicTypes, Connect, UNCHANGED <<asking, drops>>
    PROVE  Calm
<1>1. asking' <= asking /\ drops' >= drops
  BY DEF BasicTypes
<1> QED
  BY <1>1, ConnectFacts, EmptyHas DEF Calm, EndPending

\* The steps that end a session, and the others.
LEMMA SessionSteps ==
    ASSUME BasicTypes, [Next]_vars
    PROVE  Calm \/ \E s \in Sockets : ClosedBySession(s) \/ SessionEnds(s)
<1>0. asking <= asking /\ drops >= drops /\ asking \in Nat /\ drops \in Nat
  BY WatchAssumption DEF BasicTypes
<1>1. ASSUME NEW k \in Keys, Subscribe(k) PROVE Calm
  BY <1>0, <1>1, ConnectCalm DEF Subscribe, Calm, EndPending, serverVars
<1>2. CASE TimerFires
  BY <1>2, ConnectCalm DEF TimerFires
<1>3. ASSUME UNCHANGED <<ready, down, asking, drops>> PROVE Calm
  BY <1>0, <1>3 DEF Calm, EndPending
<1>4. CASE SessionStands
  BY <1>0, <1>4 DEF SessionStands, Calm, EndPending, wireVars
<1>5. CASE SessionOver
  <2>1. \A t \in Sockets : ready'[t] = "free" /\ down'[t] = <<>>
    BY <1>5 DEF SessionOver
  <2>2. asking' <= asking /\ drops' >= drops
    BY <1>0, <1>5 DEF SessionOver
  <2> QED
    BY <2>1, <2>2, EmptyHas DEF Calm, EndPending
<1>6. ASSUME NEW s \in Sockets, Opened(s) \/ ClosedAbnormally(s) PROVE Calm
  <2>1. /\ \A t \in Sockets : ready'[t] = "closing" => ready[t] = "closing"
        /\ \A t \in Sockets : down'[t] = down[t] \/ down'[t] = <<>>
        /\ UNCHANGED <<asking, drops>>
    BY <1>6 DEF Opened, ClosedAbnormally, BasicTypes
  <2> QED
    BY <1>0, <2>1, EmptyHas DEF Calm, EndPending
<1>7. ASSUME NEW s \in Sockets, Receive(s) PROVE Calm
  <2>1. /\ \A t \in Sockets \ {s} : ready'[t] = ready[t] /\ down'[t] = down[t]
        /\ down'[s] = Tail(down[s]) /\ down[s] # <<>> /\ down[s] \in Seq(Frames)
        /\ ready'[s] = "closing" => Head(down[s]).type = "4401" \/ ready[s] = "closing"
        /\ UNCHANGED <<asking, drops>>
    BY <1>7 DEF Receive, BasicTypes
  <2>2. Has(down[s], SessionEnd) <=> Has(Tail(down[s]), SessionEnd) \/ Head(down[s]) = SessionEnd
    BY <2>1, HasTail
  <2>3. Head(down[s]).type = "4401" => Head(down[s]) = SessionEnd
    BY <2>1, TailAt, FrameShape
  <2> QED
    BY <1>0, <2>1, <2>2, <2>3 DEF Calm, EndPending
<1>9. ASSUME NEW s \in Sockets, Serve(s) PROVE Calm
  <2>1. UNCHANGED <<ready, asking, drops>>
    BY <1>9, ServeFacts
  <2>2. PICK k \in Keys : Refused(s, k) \/ UNCHANGED down
    BY <1>9, ServeFacts DEF Granted, Close
  <2>3. CASE Refused(s, k)
    <3>1. PICK f \in Frames : f # SessionEnd /\ f = Frame("ERROR", k)
      BY FrameType
    <3> QED
      BY <1>0, <2>1, <2>3, <3>1, QueuedFacts DEF Refused, Calm, EndPending
  <2> QED
    BY <1>3, <2>1, <2>2, <2>3
<1>10. ASSUME NEW w \in watches, Goroutine(w) PROVE Calm
  <2>1. GoroutineStep(w)
    BY <1>10, GoroutineFacts
  <2>2. UNCHANGED <<ready, asking, drops>> /\ w.sock \in Sockets
    BY <2>1 DEF GoroutineStep, clientVars
  <2>3. UNCHANGED down \/ \E f \in Frames : f # SessionEnd /\ down' = Queued(w.sock, f)
    BY <2>1 DEF GoroutineStep
  <2>4. ASSUME NEW f \in Frames, f # SessionEnd, down' = Queued(w.sock, f) PROVE Calm
    BY <1>0, <2>2, <2>4, QueuedFacts DEF Calm, EndPending
  <2> QED
    BY <1>3, <2>2, <2>3, <2>4
<1>11. ASSUME NEW s \in Sockets, Cut(s) PROVE Calm
  BY <1>0, <1>11 DEF Cut, Calm, EndPending, clientVars
<1>12. [Next]_vars => \/ UNCHANGED <<ready, down, asking, drops>>
                      \/ \E k \in Keys : Subscribe(k)
                      \/ TimerFires \/ SessionStands \/ SessionOver
                      \/ \E s \in Sockets : Opened(s) \/ ClosedAbnormally(s) \/ ClosedBySession(s) \/ Receive(s)
                                            \/ Serve(s) \/ SessionEnds(s) \/ Cut(s)
                      \/ \E w \in watches : Goroutine(w)
  BY DEF Next, Browser, Server, Unsubscribe, Accept, Disconnected, vars, clientVars, wireVars
<1> QED
  BY <1>1, <1>2, <1>3, <1>4, <1>5, <1>6, <1>7, <1>9, <1>10, <1>11, <1>12

\* Every step keeps the count of the questions.
LEMMA AskingStep ==
    ASSUME BasicTypes, AskingPaid, EndsOnce, [Next]_vars
    PROVE  AskingPaid'
<1> DEFINE E == {s \in Sockets : EndPending(s)}
<1>1. IsFiniteSet(E) /\ asking + Cardinality(E) <= drops /\ Cardinality(E) \in Nat /\ asking \in Nat /\ drops \in Nat
  BY FS_CardinalityType, WatchAssumption DEF AskingPaid, BasicTypes
<1>2. BasicTypes'
  BY TypesStep
<1>3. asking' \in Nat /\ drops' \in Nat
  BY <1>2, WatchAssumption DEF BasicTypes
<1>4. CASE Calm
  <2>1. E' \subseteq E
    BY <1>4 DEF Calm
  <2>2. IsFiniteSet(E') /\ Cardinality(E') <= Cardinality(E) /\ Cardinality(E') \in Nat
    BY <1>1, <2>1, FS_Subset, FS_CardinalityType
  <2> HIDE DEF E
  <2>3. asking' + Cardinality(E') <= drops'
    BY <1>1, <1>3, <1>4, <2>2 DEF Calm
  <2> QED
    BY <2>2, <2>3 DEF AskingPaid, E
<1>5. ASSUME NEW s \in Sockets, ClosedBySession(s) PROVE AskingPaid'
  <2>1. /\ ready[s] = "closing" /\ ready'[s] = "free" /\ down'[s] = <<>>
        /\ \A t \in Sockets \ {s} : ready'[t] = ready[t] /\ down'[t] = down[t]
        /\ asking' = asking + 1 /\ drops' = drops
    BY <1>5 DEF ClosedBySession, BasicTypes
  <2>2. E' = E \ {s} /\ s \in E
    BY <2>1, EmptyHas DEF EndPending
  <2> HIDE DEF E
  <2>3. IsFiniteSet(E') /\ Cardinality(E') = Cardinality(E) - 1
    BY <1>1, <2>2, FS_RemoveElement
  <2>4. asking' + Cardinality(E') <= drops'
    BY <1>1, <2>1, <2>3
  <2> QED
    BY <2>3, <2>4 DEF AskingPaid, E
<1>6. ASSUME NEW s \in Sockets, SessionEnds(s) PROVE AskingPaid'
  <2>1. /\ \A t \in Sockets \ {s} : ready'[t] = ready[t] /\ down'[t] = down[t]
        /\ asking' = asking /\ drops' = drops + 1
    BY <1>6 DEF SessionEnds, BasicTypes, clientVars
  <2>2. E' \subseteq E \cup {s}
    BY <2>1 DEF EndPending
  <2> HIDE DEF E
  <2>3. IsFiniteSet(E \cup {s}) /\ Cardinality(E \cup {s}) <= Cardinality(E) + 1 /\ Cardinality(E \cup {s}) \in Nat
    <3>1. IsFiniteSet(E \cup {s}) /\ (Cardinality(E \cup {s}) = Cardinality(E) \/ Cardinality(E \cup {s}) = Cardinality(E) + 1)
      BY <1>1, FS_AddElement
    <3> QED
      BY <1>1, <3>1
  <2>4. IsFiniteSet(E') /\ Cardinality(E') <= Cardinality(E \cup {s}) /\ Cardinality(E') \in Nat
    BY <2>2, <2>3, FS_Subset, FS_CardinalityType
  <2>5. asking' + Cardinality(E') <= drops'
    BY <1>1, <2>1, <2>3, <2>4
  <2> QED
    BY <2>4, <2>5 DEF AskingPaid, E
<1> QED
  BY <1>4, <1>5, <1>6, SessionSteps

\* Every step keeps the close frame the last one.
LEMMA EndsOnceStep ==
    ASSUME BasicTypes, EndsOnce, [Next]_vars
    PROVE  EndsOnce'
<1> DEFINE Quiescent(s) == link[s] /\ conn[s] = "none" /\ ready[s] = "connecting"
<1>0. SUFFICES ASSUME NEW s \in Sockets
               PROVE  /\ conn'[s] = "up" => ~EndPending(s)'
                      /\ Quiescent(s)' => down'[s] = <<>>
  BY DEF EndsOnce
<1>1. conn'[s] = "up" => ~EndPending(s)'
  <2> SUFFICES ASSUME conn'[s] = "up" PROVE ~EndPending(s)'
    OBVIOUS
  <2>1. conn[s] = "up" \/ Accept(s)
    <3>1. ASSUME NEW t \in Sockets, Accept(t) PROVE conn[s] = "up" \/ Accept(s)
      BY <3>1 DEF Accept, BasicTypes
    <3>2. ASSUME NEW t \in Sockets, Serve(t) \/ Disconnected(t) \/ SessionEnds(t) PROVE conn[s] = "up"
      BY <3>2 DEF Serve, Disconnected, SessionEnds, BasicTypes
    <3>3. ASSUME NEW w \in watches, GoroutineStep(w) PROVE conn[s] = "up"
      BY <3>3 DEF GoroutineStep
    <3> QED
      BY <3>1, <3>2, <3>3, ServerSteps
  <2>2. CASE Accept(s)
    BY <2>2, EmptyHas DEF Accept, EndsOnce, EndPending, clientVars, wireVars
  <2>3. CASE conn[s] = "up" /\ Calm
    BY <2>3 DEF EndsOnce, Calm
  <2>4. ASSUME NEW t \in Sockets, ClosedBySession(t), conn[s] = "up" PROVE ~EndPending(s)'
    <3>1. t # s /\ ready'[s] = ready[s] /\ down'[s] = down[s]
      BY <2>4 DEF ClosedBySession, EndsOnce, EndPending, BasicTypes
    <3> QED
      BY <2>4, <3>1 DEF EndsOnce, EndPending
  <2>5. ASSUME NEW t \in Sockets, SessionEnds(t), conn[s] = "up" PROVE ~EndPending(s)'
    <3>1. t # s /\ ready'[s] = ready[s] /\ down'[s] = down[s]
      BY <2>5 DEF SessionEnds, BasicTypes, clientVars
    <3> QED
      BY <2>5, <3>1 DEF EndsOnce, EndPending
  <2> QED
    BY <2>1, <2>2, <2>3, <2>4, <2>5, SessionSteps
<1>2. Quiescent(s)' => down'[s] = <<>>
  <2> SUFFICES ASSUME Quiescent(s)' PROVE down'[s] = <<>>
    OBVIOUS
  <2>1. CASE Connect /\ UNCHANGED conn
    BY <2>1, ConnectFacts DEF EndsOnce
  <2>2. ASSUME UNCHANGED <<conn, ready, link, down>> PROVE down'[s] = <<>>
    BY <2>2 DEF EndsOnce
  <2>3. ASSUME UNCHANGED <<conn, ready, link>>, NEW t \in Sockets, NEW f \in Frames, f # SessionEnd, down' = Queued(t, f)
        PROVE  down'[s] = <<>>
    BY <2>3, QueuedFacts DEF EndsOnce
  <2>4. ASSUME NEW k \in Keys, Subscribe(k) PROVE down'[s] = <<>>
    BY <2>1, <2>2, <2>4 DEF Subscribe, serverVars
  <2>5. CASE TimerFires
    BY <2>1, <2>5 DEF TimerFires, serverVars
  <2>6. CASE SessionOver
    BY <2>6 DEF SessionOver
  <2>7. ASSUME NEW t \in Sockets, Opened(t) \/ ClosedAbnormally(t) \/ ClosedBySession(t) \/ Cut(t)
        PROVE  down'[s] = <<>>
    BY <2>7 DEF Opened, ClosedAbnormally, ClosedBySession, Cut, EndsOnce, BasicTypes, clientVars, serverVars
  <2>8. ASSUME NEW t \in Sockets, Receive(t) PROVE down'[s] = <<>>
    BY <2>8 DEF Receive, EndsOnce, BasicTypes, serverVars
  <2>9. ASSUME NEW t \in Sockets, Serve(t) PROVE down'[s] = <<>>
    <3>1. UNCHANGED <<conn, ready, link>> /\ \E k \in Keys : Refused(t, k) \/ UNCHANGED down
      BY <2>9, ServeFacts DEF Granted, Close
    <3> QED
      BY <2>2, <2>3, <3>1, FrameType DEF Refused
  <2>10. ASSUME NEW t \in Sockets, Disconnected(t) \/ SessionEnds(t) PROVE down'[s] = <<>>
    BY <2>10 DEF Disconnected, SessionEnds, EndsOnce, BasicTypes, clientVars
  <2>11. ASSUME NEW w \in watches, Goroutine(w) PROVE down'[s] = <<>>
    <3>1. GoroutineStep(w)
      BY <2>11, GoroutineFacts
    <3> QED
      BY <2>2, <2>3, <3>1 DEF GoroutineStep, clientVars
  <2>12. ASSUME NEW t \in Sockets, Accept(t) PROVE down'[s] = <<>>
    BY <2>12 DEF Accept, EndsOnce, BasicTypes, clientVars, wireVars
  <2>13. [Next]_vars => \/ UNCHANGED <<conn, ready, link, down>>
                        \/ \E k \in Keys : Subscribe(k)
                        \/ TimerFires \/ SessionOver
                        \/ \E t \in Sockets : Opened(t) \/ ClosedAbnormally(t) \/ ClosedBySession(t) \/ Cut(t)
                                              \/ Receive(t) \/ Serve(t) \/ Disconnected(t) \/ SessionEnds(t) \/ Accept(t)
                        \/ \E w \in watches : Goroutine(w)
    BY DEF Next, Browser, Server, Unsubscribe, SessionStands, vars, clientVars, wireVars, serverVars
  <2> QED
    BY <2>2, <2>4, <2>5, <2>6, <2>7, <2>8, <2>9, <2>10, <2>11, <2>12, <2>13
<1> QED
  BY <1>1, <1>2

-----------------------------------------------------------------------------
(* What the browser has asked for.                                         *)

LEMMA AskDistinct ==
    ASSUME NEW k \in Keys, NEW l \in Keys
    PROVE  Ask(k) # Leave(l) /\ (Ask(k) = Ask(l) => k = l) /\ (Leave(k) = Leave(l) => k = l)
<1>1. Ask(k).type # Leave(l).type /\ Ask(k).key = k /\ Ask(l).key = l /\ Leave(k).key = k /\ Leave(l).key = l
  BY DEF Ask, Leave
<1> QED
  BY <1>1

LEMMA EmptyFacts ==
    ASSUME NEW a, NEW b
    PROVE  ~Has(<<>>, a) /\ ~LastIs(<<>>, a, b) /\ Preceded(<<>>, a, b) /\ Alternates(<<>>, a, b)
BY DEF Has, LastIs, Preceded, Alternates

\* A step that asks for nothing and opens no socket.
NothingNew ==
    /\ \A t \in Sockets :
         \/ up'[t] = up[t] /\ \A k \in Keys : place'[t][k] \in {place[t][k], 0}
         \/ up'[t] = <<>> /\ \A k \in Keys : place'[t][k] = 0
    /\ \A t \in Sockets : ready'[t] = "connecting" => ready[t] = "connecting"
    /\ \A x \in watches' : \E w \in watches : w.sock = x.sock
    /\ \/ socket' = None
       \/ /\ UNCHANGED <<socket, listeners>>
          /\ socket # None => /\ ready'[socket] = "open" => ready[socket] = "open"
                              /\ link'[socket] => link[socket]

AsksInv == NothingAsked /\ AsksAlternate /\ AsksForScreen

LEMMA NothingNewKeeps ==
    ASSUME BasicTypes, AsksInv, NothingNew
    PROVE  AsksInv'
<1>1. NothingAsked'
  BY DEF NothingNew, AsksInv, NothingAsked, Places
<1>2. AsksAlternate'
  <2> SUFFICES ASSUME NEW s \in Sockets, NEW k \in Keys
               PROVE  /\ Alternates(up'[s], Ask(k), Leave(k))
                      /\ place'[s][k] # 0 => Preceded(up'[s], Ask(k), Leave(k))
    BY DEF AsksAlternate
  <2>1. CASE up'[s] = up[s] /\ place'[s][k] \in {place[s][k], 0}
    BY <2>1 DEF AsksInv, AsksAlternate
  <2>2. CASE up'[s] = <<>> /\ place'[s][k] = 0
    BY <2>2, EmptyFacts
  <2> QED
    BY <2>1, <2>2 DEF NothingNew
<1>3. AsksForScreen'
  <2> SUFFICES ASSUME IsOpen', link'[socket'], NEW k \in Keys
               PROVE  IF k \in Subscriptions'
                      THEN Has(up'[socket'], Leave(k)) => LastIs(up'[socket'], Ask(k), Leave(k))
                      ELSE Has(up'[socket'], Ask(k)) \/ place'[socket'][k] # 0
                             => LastIs(up'[socket'], Leave(k), Ask(k))
    BY DEF AsksForScreen
  <2>1. socket' = socket /\ socket \in Sockets /\ IsOpen /\ link[socket] /\ Subscriptions' = Subscriptions
    BY DEF IsOpen, NothingNew, BasicTypes, Subscriptions
  <2>2. IF k \in Subscriptions
        THEN Has(up[socket], Leave(k)) => LastIs(up[socket], Ask(k), Leave(k))
        ELSE Has(up[socket], Ask(k)) \/ place[socket][k] # 0 => LastIs(up[socket], Leave(k), Ask(k))
    BY <2>1 DEF AsksInv, AsksForScreen
  <2>3. CASE up'[socket] = up[socket] /\ place'[socket][k] \in {place[socket][k], 0}
    BY <2>1, <2>2, <2>3
  <2>4. CASE up'[socket] = <<>> /\ place'[socket][k] = 0
    BY <2>1, <2>4, EmptyFacts
  <2> QED
    BY <2>1, <2>3, <2>4 DEF NothingNew
<1> QED
  BY <1>1, <1>2, <1>3 DEF AsksInv

\* A socket that is being opened has asked for nothing.
LEMMA ConnectKeeps ==
    ASSUME BasicTypes, NoPlaceLeaks, AsksInv, ~IsOpen, Connect, UNCHANGED <<place, watches>>
    PROVE  AsksInv'
<1>1. CASE HasSocket /\ UNCHANGED <<socket, ready, link, up, down>>
  <2>1. ~IsOpen'
    BY <1>1 DEF IsOpen
  <2> QED
    BY <1>1, <2>1 DEF AsksInv, NothingAsked, AsksAlternate, AsksForScreen, Places
<1>2. ASSUME NEW s \in Sockets, Unused(s), socket' = s, ready'[s] = "connecting", up'[s] = <<>>,
             \A t \in Sockets \ {s} : ready'[t] = ready[t] /\ up'[t] = up[t]
      PROVE  AsksInv'
  <2>1. Places(s) = {} /\ \A k \in Keys : place[s][k] = 0
    BY <1>2 DEF Unused, NoPlaceLeaks, Places
  <2>2. NothingAsked'
    BY <1>2, <2>1 DEF AsksInv, NothingAsked, Places, Unused
  <2>3. AsksAlternate'
    BY <1>2, <2>1, EmptyFacts DEF AsksInv, AsksAlternate
  <2>4. ~IsOpen'
    BY <1>2 DEF IsOpen
  <2> QED
    BY <2>2, <2>3, <2>4 DEF AsksInv, AsksForScreen
<1> QED
  BY <1>1, <1>2, ConnectFacts

\* Where a message goes that the browser sends.
LEMMA SentFacts ==
    ASSUME BasicTypes, NEW s \in Sockets, NEW m \in Requests
    PROVE  /\ ~link[s] => Sent(s, <<m>>) = up
           /\ link[s] => Sent(s, <<m>>)[s] = Append(up[s], m)
           /\ \A t \in Sockets \ {s} : Sent(s, <<m>>)[t] = up[t]
<1>1. up \in [Sockets -> Seq(Requests)] /\ up[s] \in Seq(Requests)
  BY DEF BasicTypes
<1>2. up[s] \o <<m>> = Append(up[s], m)
  BY <1>1, AppendAt
<1> QED
  BY <1>1, <1>2 DEF Sent

LEMMA SubscribeKeeps ==
    ASSUME BasicTypes, NoPlaceLeaks, AsksInv, NEW k \in Keys, Subscribe(k)
    PROVE  AsksInv'
<1>1. CASE ~IsOpen
  BY <1>1, ConnectKeeps DEF Subscribe, serverVars
<1>2. CASE IsOpen
  <2>1. /\ UNCHANGED <<socket, ready, link, place, watches>> /\ socket \in Sockets /\ ready[socket] = "open"
        /\ up[socket] \in Seq(Requests) /\ IsOpen'
    BY <1>2 DEF Subscribe, IsOpen, BasicTypes, serverVars
  <2>2. Subscriptions' = Subscriptions \cup {k}
    BY <1>2 DEF Subscribe, Subscriptions, BasicTypes
  <2>3. CASE up' = up /\ (k \in Subscriptions \/ ~link[socket])
    <3>1. NothingAsked' /\ AsksAlternate'
      BY <2>1, <2>3 DEF AsksInv, NothingAsked, AsksAlternate, Places
    <3>2. link'[socket'] => Subscriptions' = Subscriptions
      BY <2>1, <2>2, <2>3
    <3>3. AsksForScreen'
      BY <1>2, <2>1, <2>3, <3>2 DEF AsksInv, AsksForScreen
    <3> QED
      BY <3>1, <3>3 DEF AsksInv
  <2>4. CASE k \notin Subscriptions /\ link[socket] /\ up' = Sent(socket, <<Ask(k)>>)
    <3>1. up'[socket] = Append(up[socket], Ask(k)) /\ \A t \in Sockets \ {socket} : up'[t] = up[t]
      BY <2>1, <2>4, SentFacts, AskType
    <3>2. NothingAsked'
      BY <2>1, <3>1 DEF AsksInv, NothingAsked, Places
    <3>3. Has(up[socket], Ask(k)) \/ place[socket][k] # 0 => LastIs(up[socket], Leave(k), Ask(k))
      BY <1>2, <2>4 DEF AsksInv, AsksForScreen
    <3>4. AsksAlternate'
      <4> SUFFICES ASSUME NEW l \in Keys
                   PROVE  /\ Alternates(up'[socket], Ask(l), Leave(l))
                          /\ place'[socket][l] # 0 => Preceded(up'[socket], Ask(l), Leave(l))
        BY <2>1, <3>1 DEF AsksAlternate, AsksInv
      <4>1. /\ Alternates(up[socket], Ask(l), Leave(l))
            /\ place[socket][l] # 0 => Preceded(up[socket], Ask(l), Leave(l))
        BY <2>1 DEF AsksAlternate, AsksInv
      <4>2. CASE l # k
        <5>1. Ask(k) # Ask(l) /\ Ask(l) # Leave(l) /\ Ask(k) \in Requests
          BY <4>2, AskDistinct, AskType
        <5> QED
          BY <2>1, <3>1, <4>1, <5>1, AppendFacts
      <4>3. CASE l = k
        <5>1. Ask(k) # Leave(k) /\ Ask(k) \in Requests
          BY AskType
        <5> QED
          BY <2>1, <3>1, <3>3, <4>1, <4>3, <5>1, AppendFacts
      <4> QED
        BY <4>2, <4>3
    <3>5. AsksForScreen'
      <4> SUFFICES ASSUME NEW l \in Keys
                   PROVE  IF l \in Subscriptions'
                          THEN Has(up'[socket], Leave(l)) => LastIs(up'[socket], Ask(l), Leave(l))
                          ELSE Has(up'[socket], Ask(l)) \/ place[socket][l] # 0
                                 => LastIs(up'[socket], Leave(l), Ask(l))
        BY <2>1 DEF AsksForScreen
      <4>1. Ask(k) # Leave(l) /\ Ask(l) # Leave(l) /\ Ask(k) \in Requests /\ (l # k => Ask(k) # Ask(l))
        BY AskDistinct, AskType
      <4>2. CASE l = k
        BY <2>1, <2>2, <3>1, <4>1, <4>2, AppendFacts
      <4>3. CASE l # k /\ l \in Subscriptions
        <5>1. Has(up[socket], Leave(l)) => LastIs(up[socket], Ask(l), Leave(l))
          BY <1>2, <2>4, <4>3 DEF AsksInv, AsksForScreen
        <5>2. Has(up'[socket], Leave(l)) <=> Has(up[socket], Leave(l))
          BY <2>1, <3>1, <4>1, HasAppend
        <5> QED
          BY <2>1, <2>2, <3>1, <4>1, <4>3, <5>1, <5>2, AppendFacts
      <4>4. CASE l # k /\ l \notin Subscriptions
        <5>1. Has(up[socket], Ask(l)) \/ place[socket][l] # 0 => LastIs(up[socket], Leave(l), Ask(l))
          BY <1>2, <2>4, <4>4 DEF AsksInv, AsksForScreen
        <5>2. Has(up'[socket], Ask(l)) <=> Has(up[socket], Ask(l))
          BY <2>1, <3>1, <4>1, <4>4, HasAppend
        <5> QED
          BY <2>1, <2>2, <3>1, <4>1, <4>4, <5>1, <5>2, AppendFacts
      <4> QED
        BY <4>2, <4>3, <4>4
    <3> QED
      BY <3>2, <3>4, <3>5 DEF AsksInv
  <2>5. CASE ~link[socket] /\ up' = Sent(socket, <<Ask(k)>>)
    <3>1. up' = up
      BY <2>1, <2>5, SentFacts, AskType
    <3> QED
      BY <2>3, <2>5, <3>1
  <2>6. \/ up' = up /\ k \in Subscriptions
        \/ k \notin Subscriptions /\ up' = Sent(socket, <<Ask(k)>>)
    BY <1>2 DEF Subscribe, Subscriptions, BasicTypes, Ask
  <2> QED
    BY <2>3, <2>4, <2>5, <2>6
<1> QED
  BY <1>1, <1>2

LEMMA UnsubscribeKeeps ==
    ASSUME BasicTypes, AsksInv, NEW k \in Keys, Unsubscribe(k)
    PROVE  AsksInv'
<1>1. UNCHANGED <<socket, ready, link, place, watches>>
  BY DEF Unsubscribe, serverVars
<1>2. CASE up' = up /\ (Subscriptions' = Subscriptions \/ ~IsOpen \/ ~link[socket])
  BY <1>1, <1>2 DEF AsksInv, NothingAsked, AsksAlternate, AsksForScreen, Places, IsOpen
<1>3. CASE IsOpen /\ link[socket] /\ Subscriptions' = Subscriptions \ {k} /\ up' = Sent(socket, <<Leave(k)>>)
  <2>1. socket \in Sockets /\ ready[socket] = "open" /\ up[socket] \in Seq(Requests) /\ Leave(k) \in Requests
    BY <1>3, AskType DEF IsOpen, BasicTypes
  <2>2. up'[socket] = Append(up[socket], Leave(k)) /\ \A t \in Sockets \ {socket} : up'[t] = up[t]
    BY <1>3, <2>1, SentFacts
  <2>3. NothingAsked'
    BY <1>1, <2>1, <2>2 DEF AsksInv, NothingAsked, Places
  <2>4. AsksAlternate'
    <3> SUFFICES ASSUME NEW l \in Keys
                 PROVE  /\ Alternates(up'[socket], Ask(l), Leave(l))
                        /\ place[socket][l] # 0 => Preceded(up'[socket], Ask(l), Leave(l))
      BY <1>1, <2>2 DEF AsksAlternate, AsksInv
    <3>1. Ask(l) # Leave(l) /\ Leave(k) # Ask(l)
      BY AskDistinct
    <3>2. /\ Alternates(up[socket], Ask(l), Leave(l))
          /\ place[socket][l] # 0 => Preceded(up[socket], Ask(l), Leave(l))
      BY <2>1 DEF AsksAlternate, AsksInv
    <3> QED
      BY <2>1, <2>2, <3>1, <3>2, AppendFacts
  <2>5. AsksForScreen'
    <3> SUFFICES ASSUME NEW l \in Keys
                 PROVE  IF l \in Subscriptions'
                        THEN Has(up'[socket], Leave(l)) => LastIs(up'[socket], Ask(l), Leave(l))
                        ELSE Has(up'[socket], Ask(l)) \/ place[socket][l] # 0
                               => LastIs(up'[socket], Leave(l), Ask(l))
      BY <1>1 DEF AsksForScreen
    <3>1. Ask(l) # Leave(l) /\ Leave(k) # Ask(l) /\ (l # k => Leave(k) # Leave(l))
      BY AskDistinct
    <3>2. CASE l = k
      <4>1. LastIs(up'[socket], Leave(l), Ask(l))
        BY <2>1, <2>2, <3>1, <3>2, AppendFacts
      <4>2. l \notin Subscriptions'
        BY <1>3, <3>2
      <4> QED
        BY <4>1, <4>2
    <3>3. CASE l # k /\ l \in Subscriptions
      <4>1. Has(up[socket], Leave(l)) => LastIs(up[socket], Ask(l), Leave(l))
        BY <1>3, <3>3 DEF AsksInv, AsksForScreen
      <4>2. Has(up'[socket], Leave(l)) <=> Has(up[socket], Leave(l))
        BY <2>1, <2>2, <3>1, <3>3, HasAppend
      <4>3. LastIs(up[socket], Ask(l), Leave(l)) => LastIs(up'[socket], Ask(l), Leave(l))
        BY <2>1, <2>2, <3>1, <3>3, AppendFacts
      <4>4. l \in Subscriptions'
        BY <1>3, <3>3
      <4> QED
        BY <4>1, <4>2, <4>3, <4>4
    <3>4. CASE l # k /\ l \notin Subscriptions
      <4>1. Has(up[socket], Ask(l)) \/ place[socket][l] # 0 => LastIs(up[socket], Leave(l), Ask(l))
        BY <1>3, <3>4 DEF AsksInv, AsksForScreen
      <4>2. Has(up'[socket], Ask(l)) <=> Has(up[socket], Ask(l))
        BY <2>1, <2>2, <3>1, HasAppend
      <4>3. LastIs(up[socket], Leave(l), Ask(l)) => LastIs(up'[socket], Leave(l), Ask(l))
        BY <2>1, <2>2, <3>1, AppendFacts
      <4>4. l \notin Subscriptions'
        BY <1>3, <3>4
      <4> QED
        BY <4>1, <4>2, <4>3, <4>4
    <3> QED
      BY <3>2, <3>3, <3>4
  <2> QED
    BY <2>3, <2>4, <2>5 DEF AsksInv
<1>4. \/ up' = up /\ (Subscriptions' = Subscriptions \/ ~IsOpen \/ ~link[socket])
      \/ IsOpen /\ link[socket] /\ Subscriptions' = Subscriptions \ {k} /\ up' = Sent(socket, <<Leave(k)>>)
  <2>1. CASE listeners[k] > 1
    <3>1. up' = up /\ listeners' = [listeners EXCEPT ![k] = @ - 1]
      BY <2>1 DEF Unsubscribe
    <3>2. Subscriptions' = Subscriptions
      BY <2>1, <3>1 DEF Subscriptions, BasicTypes
    <3> QED
      BY <3>1, <3>2
  <2>2. CASE ~(listeners[k] > 1)
    <3>1. listeners[k] = 1 /\ listeners' = [listeners EXCEPT ![k] = @ - 1]
      BY <2>2 DEF Unsubscribe, BasicTypes
    <3>2. Subscriptions' = Subscriptions \ {k}
      BY <3>1 DEF Subscriptions, BasicTypes
    <3>3. up' = IF IsOpen THEN Sent(socket, <<Leave(k)>>) ELSE up
      BY <2>2 DEF Unsubscribe, Leave
    <3>4. IsOpen /\ ~link[socket] => Sent(socket, <<Leave(k)>>) = up
      BY DEF Sent
    <3> QED
      BY <3>2, <3>3, <3>4
  <2> QED
    BY <2>1, <2>2
<1> QED
  BY <1>2, <1>3, <1>4

\* A socket that opens asks for exactly what is on screen.
LEMMA OpenedFacts ==
    ASSUME BasicTypes, AsksInv, NEW s \in Sockets, Opened(s)
    PROVE  /\ \A t \in Sockets \ {s} : up'[t] = up[t] /\ ready'[t] = ready[t]
           /\ ready'[s] = "open" /\ Places(s) = {} /\ \A w \in watches : w.sock # s
           /\ ~link[s] => up' = up
           /\ up[s] = <<>>
           /\ link[s] => \A k \in Keys : /\ Has(up'[s], Ask(k)) <=> k \in Subscriptions
                                         /\ ~Has(up'[s], Leave(k)) /\ Alternates(up'[s], Ask(k), Leave(k))
<1> DEFINE q == SetToSeq({[type |-> "REQUEST", key |-> k] : k \in Subscriptions})
<1>1. up' = Sent(s, q) /\ ready' = [ready EXCEPT ![s] = "open"] /\ ready[s] = "connecting"
  BY DEF Opened
<1>2. /\ q \in Seq(Requests)
      /\ \A k \in Keys : Has(q, Ask(k)) <=> k \in Subscriptions
      /\ \A k \in Keys : ~Has(q, Leave(k)) /\ Alternates(q, Ask(k), Leave(k))
  BY AskAllFacts
<1> HIDE DEF q
<1>3. up[s] = <<>> /\ Places(s) = {} /\ \A w \in watches : w.sock # s
  BY <1>1 DEF AsksInv, NothingAsked
<1>4. up[s] \o q = q
  BY <1>2, <1>3
<1>5. link[s] => up'[s] = q
  BY <1>1, <1>4 DEF Sent, BasicTypes
<1>6. /\ \A t \in Sockets \ {s} : up'[t] = up[t] /\ ready'[t] = ready[t]
      /\ ready'[s] = "open" /\ (~link[s] => up' = up)
  BY <1>1 DEF Sent, BasicTypes
<1> QED
  BY <1>2, <1>3, <1>5, <1>6

LEMMA OpenedKeeps ==
    ASSUME BasicTypes, AsksInv, NEW s \in Sockets, Opened(s)
    PROVE  AsksInv'
<1>1. UNCHANGED <<listeners, socket, link, place, watches>>
  BY DEF Opened, serverVars
<1>2. \A k \in Keys : place[s][k] = 0
  BY OpenedFacts DEF Places
<1>3. NothingAsked'
  BY <1>1, OpenedFacts DEF AsksInv, NothingAsked, Places
<1>4. AsksAlternate'
  <2> SUFFICES ASSUME NEW t \in Sockets, NEW k \in Keys
               PROVE  /\ Alternates(up'[t], Ask(k), Leave(k))
                      /\ place[t][k] # 0 => Preceded(up'[t], Ask(k), Leave(k))
    BY <1>1 DEF AsksAlternate
  <2>1. CASE t # s \/ ~link[s]
    BY <2>1, OpenedFacts DEF AsksInv, AsksAlternate
  <2>2. CASE t = s /\ link[s]
    BY <1>2, <2>2, OpenedFacts
  <2> QED
    BY <2>1, <2>2
<1>5. AsksForScreen'
  <2> SUFFICES ASSUME IsOpen', link[socket], NEW k \in Keys
               PROVE  IF k \in Subscriptions
                      THEN Has(up'[socket], Leave(k)) => LastIs(up'[socket], Ask(k), Leave(k))
                      ELSE Has(up'[socket], Ask(k)) \/ place[socket][k] # 0
                             => LastIs(up'[socket], Leave(k), Ask(k))
    BY <1>1 DEF AsksForScreen, Subscriptions
  <2>1. socket \in Sockets
    BY <1>1 DEF IsOpen, BasicTypes
  <2>2. CASE socket = s
    BY <1>2, <2>2, OpenedFacts
  <2>3. CASE socket # s
    <3>1. up'[socket] = up[socket] /\ IsOpen
      BY <1>1, <2>1, <2>3, OpenedFacts DEF IsOpen
    <3> QED
      BY <3>1 DEF AsksInv, AsksForScreen
  <2> QED
    BY <2>2, <2>3
<1> QED
  BY <1>3, <1>4, <1>5 DEF AsksInv

\* A REQUEST that the server takes up finds the place of its key free.
LEMMA RequestFindsFree ==
    ASSUME BasicTypes, AsksInv, NEW s \in Sockets, NEW k \in Keys, up[s] # <<>>, Head(up[s]) = Ask(k)
    PROVE  place[s][k] = 0
<1>1. up[s] \in Seq(Requests) /\ Ask(k) # Leave(k)
  BY AskType DEF BasicTypes
<1>2. Preceded(up[s], Ask(k), Leave(k)) => Head(up[s]) # Ask(k)
  BY <1>1, TailFacts
<1> QED
  BY <1>2 DEF AsksInv, AsksAlternate

LEMMA ServeKeeps ==
    ASSUME BasicTypes, AsksInv, NEW s \in Sockets, Serve(s)
    PROVE  AsksInv'
<1>1. /\ up[s] # <<>> /\ up'[s] = Tail(up[s]) /\ \A t \in Sockets \ {s} : up'[t] = up[t]
      /\ UNCHANGED <<listeners, socket, ready, link>> /\ up[s] \in Seq(Requests)
  BY ServeFacts DEF BasicTypes
<1>2. PICK k \in Keys :
        \/ Head(up[s]) = Ask(k) /\ Refused(s, k)
        \/ Head(up[s]) = Ask(k) /\ place[s][k] # 0 /\ UNCHANGED <<down, place, watches>>
        \/ Head(up[s]) = Ask(k) /\ \E i \in SubIds : Granted(s, k, i)
        \/ Head(up[s]) = Leave(k) /\ Close(s, k)
  BY ServeFacts
<1>3. /\ \A t \in Sockets, l \in Keys : t # s \/ l # k => place'[t][l] = place[t][l]
      /\ Head(up[s]) = Leave(k) => place'[s][k] = 0
      /\ Head(up[s]) \in {Ask(k), Leave(k)} /\ Ask(k) # Leave(k)
      /\ \A x \in watches' : x.sock = s \/ \E w \in watches : w.sock = x.sock
  <2>1. CASE UNCHANGED <<place, watches>> /\ Head(up[s]) = Ask(k)
    BY <2>1, AskType
  <2>2. ASSUME NEW i \in SubIds, Granted(s, k, i), Head(up[s]) = Ask(k)
        PROVE  /\ \A t \in Sockets, l \in Keys : t # s \/ l # k => place'[t][l] = place[t][l]
               /\ \A x \in watches' : x.sock = s \/ \E w \in watches : w.sock = x.sock
    <3>1. place' = [place EXCEPT ![s][k] = i] /\ place \in [Sockets -> [Keys -> SubIds \cup {0}]]
      BY <2>2 DEF Granted, BasicTypes
    <3>2. \A t \in Sockets, l \in Keys : t # s \/ l # k => place'[t][l] = place[t][l]
      BY <3>1
    <3> QED
      BY <2>2, <3>2 DEF Granted
  <2>3. CASE Close(s, k) /\ Head(up[s]) = Leave(k)
    <3>1. place' = [place EXCEPT ![s][k] = 0] /\ place \in [Sockets -> [Keys -> SubIds \cup {0}]]
      BY <2>3 DEF Close, BasicTypes
    <3>2. \A t \in Sockets, l \in Keys : t # s \/ l # k => place'[t][l] = place[t][l]
      BY <3>1
    <3>3. place'[s][k] = 0
      BY <3>1
    <3>4. \A x \in watches' : \E w \in watches : w.sock = x.sock
      BY <2>3, CancelledFacts DEF Close
    <3> QED
      BY <2>3, <3>2, <3>3, <3>4, AskType
  <2> QED
    BY <1>2, <2>1, <2>2, <2>3, AskType DEF Refused
<1>4. NothingAsked'
  <2> SUFFICES ASSUME NEW t \in Sockets, ready[t] = "connecting"
               PROVE  up'[t] = <<>> /\ (\A l \in Keys : place'[t][l] = 0) /\ \A w \in watches' : w.sock # t
    BY <1>1 DEF NothingAsked, Places
  <2>1. up[t] = <<>> /\ Places(t) = {} /\ \A w \in watches : w.sock # t
    BY DEF AsksInv, NothingAsked
  <2>2. t # s
    BY <1>1, <2>1
  <2> QED
    BY <1>1, <1>3, <2>1, <2>2 DEF Places
<1>5. AsksAlternate'
  <2> SUFFICES ASSUME NEW l \in Keys
               PROVE  /\ Alternates(up'[s], Ask(l), Leave(l))
                      /\ place'[s][l] # 0 => Preceded(up'[s], Ask(l), Leave(l))
    BY <1>1, <1>3 DEF AsksAlternate, AsksInv
  <2>1. /\ Alternates(up[s], Ask(l), Leave(l))
        /\ place[s][l] # 0 => Preceded(up[s], Ask(l), Leave(l))
    BY DEF AsksAlternate, AsksInv
  <2>2. Ask(l) # Leave(l) /\ (l # k => Head(up[s]) # Ask(l) /\ Head(up[s]) # Leave(l))
    BY <1>3, AskDistinct
  <2>3. Alternates(up'[s], Ask(l), Leave(l))
    BY <1>1, <2>1, <2>2, TailFacts
  <2>4. ASSUME place'[s][l] # 0 PROVE Preceded(up'[s], Ask(l), Leave(l))
    <3>1. CASE l # k
      BY <1>1, <1>3, <2>1, <2>2, <2>4, <3>1, TailFacts
    <3>2. CASE l = k
      <4>1. Head(up[s]) = Ask(k)
        BY <1>3, <2>4, <3>2
      <4> QED
        BY <1>1, <2>1, <2>2, <3>2, <4>1, TailFacts
    <3> QED
      BY <3>1, <3>2
  <2> QED
    BY <2>3, <2>4
<1>6. AsksForScreen'
  <2> SUFFICES ASSUME IsOpen, link[socket], NEW l \in Keys
               PROVE  IF l \in Subscriptions
                      THEN Has(up'[socket], Leave(l)) => LastIs(up'[socket], Ask(l), Leave(l))
                      ELSE Has(up'[socket], Ask(l)) \/ place'[socket][l] # 0
                             => LastIs(up'[socket], Leave(l), Ask(l))
    BY <1>1 DEF AsksForScreen, IsOpen, Subscriptions
  <2>0. socket \in Sockets
    BY DEF IsOpen, BasicTypes
  <2>1. /\ l \in Subscriptions => (Has(up[socket], Leave(l)) => LastIs(up[socket], Ask(l), Leave(l)))
        /\ l \notin Subscriptions => (Has(up[socket], Ask(l)) \/ place[socket][l] # 0
                                        => LastIs(up[socket], Leave(l), Ask(l)))
    BY DEF AsksInv, AsksForScreen
  <2>2. CASE socket # s
    BY <1>1, <1>3, <2>0, <2>1, <2>2
  <2>3. CASE socket = s
    <3>1. Ask(l) # Leave(l) /\ (l # k => Head(up[s]) # Ask(l) /\ Head(up[s]) # Leave(l))
      BY <1>3, AskDistinct
    <3>2. Has(up[s], Leave(l)) <=> Has(up'[s], Leave(l)) \/ Head(up[s]) = Leave(l)
      BY <1>1, HasTail
    <3>3. Has(up[s], Ask(l)) <=> Has(up'[s], Ask(l)) \/ Head(up[s]) = Ask(l)
      BY <1>1, HasTail
    <3>4. /\ LastIs(up[s], Ask(l), Leave(l))
               => LastIs(up'[s], Ask(l), Leave(l)) \/ (Head(up[s]) = Ask(l) /\ ~Has(up'[s], Leave(l)))
          /\ LastIs(up[s], Leave(l), Ask(l))
               => LastIs(up'[s], Leave(l), Ask(l)) \/ (Head(up[s]) = Leave(l) /\ ~Has(up'[s], Ask(l)))
      BY <1>1, <3>1, TailFacts
    <3>5. CASE l \in Subscriptions
      BY <2>1, <2>3, <3>2, <3>4, <3>5
    <3>6. ASSUME l \notin Subscriptions, Has(up'[s], Ask(l)) \/ place'[s][l] # 0
          PROVE  LastIs(up'[s], Leave(l), Ask(l))
      <4>1. Has(up[s], Ask(l)) \/ place[s][l] # 0
        BY <1>3, <2>3, <3>3, <3>6, AskDistinct
      <4>2. LastIs(up[s], Leave(l), Ask(l))
        BY <2>1, <2>3, <3>6, <4>1
      <4>3. CASE Head(up[s]) = Leave(l) /\ ~Has(up'[s], Ask(l))
        <5>1. l = k
          BY <1>3, <4>3, AskDistinct
        <5> QED
          BY <1>3, <3>6, <4>3, <5>1
      <4> QED
        BY <3>4, <4>2, <4>3
    <3> QED
      BY <2>3, <3>5, <3>6
  <2> QED
    BY <2>2, <2>3
<1> QED
  BY <1>4, <1>5, <1>6 DEF AsksInv

\* Every step keeps what was asked for in line with the screen.
LEMMA AsksStep ==
    ASSUME BasicTypes, NoPlaceLeaks, AsksInv, [Next]_vars
    PROVE  AsksInv'
<1>1. ASSUME NEW k \in Keys, Subscribe(k) \/ Unsubscribe(k) PROVE AsksInv'
  BY <1>1, SubscribeKeeps, UnsubscribeKeeps
<1>2. CASE TimerFires
  <2>1. Connect /\ UNCHANGED <<place, watches, listeners>>
    BY <1>2 DEF TimerFires, serverVars
  <2>2. CASE ~IsOpen
    BY <2>1, <2>2, ConnectKeeps
  <2>3. CASE IsOpen
    <3>1. HasSocket /\ UNCHANGED <<socket, ready, link, up>>
      BY <2>1, <2>3 DEF Connect, HasSocket, IsOpen, wireVars
    <3>2. NothingNew
      BY <2>1, <3>1 DEF NothingNew
    <3> QED
      BY <3>2, NothingNewKeeps
  <2> QED
    BY <2>2, <2>3
<1>3. ASSUME NEW s \in Sockets, Opened(s) \/ Serve(s) PROVE AsksInv'
  BY <1>3, OpenedKeeps, ServeKeeps
<1>4. CASE UNCHANGED <<up, place, watches, ready, socket, listeners, link>>
  <2>1. NothingNew
    BY <1>4 DEF NothingNew
  <2> QED
    BY <2>1, NothingNewKeeps
<1>5. CASE SessionOver
  <2>1. NothingNew
    BY <1>5 DEF SessionOver, NothingNew, serverVars
  <2> QED
    BY <2>1, NothingNewKeeps
<1>6. ASSUME NEW s \in Sockets, ClosedAbnormally(s) \/ ClosedBySession(s) \/ Receive(s) \/ Cut(s) PROVE AsksInv'
  <2>1. UNCHANGED <<up, place, watches>>
    BY <1>6 DEF ClosedAbnormally, ClosedBySession, Receive, Cut, serverVars
  <2>2. \A t \in Sockets : /\ ready'[t] = "connecting" => ready[t] = "connecting"
                           /\ ready'[t] = "open" => ready[t] = "open"
                           /\ link'[t] => link[t]
    BY <1>6 DEF ClosedAbnormally, ClosedBySession, Receive, Cut, BasicTypes, clientVars
  <2>3. socket' = None \/ UNCHANGED <<socket, listeners>>
    BY <1>6 DEF ClosedAbnormally, ClosedBySession, Receive, Cut, clientVars
  <2>4. NothingNew
    BY <2>1, <2>2, <2>3 DEF NothingNew, BasicTypes
  <2> QED
    BY <2>4, NothingNewKeeps
<1>7. ASSUME NEW s \in Sockets, Accept(s) PROVE AsksInv'
  BY <1>4, <1>7 DEF Accept, clientVars, wireVars
<1>8. ASSUME NEW s \in Sockets, Disconnected(s) PROVE AsksInv'
  <2>1. /\ \A t \in Sockets \ {s} : up'[t] = up[t] /\ place'[t] = place[t]
        /\ up'[s] = <<>> /\ \A k \in Keys : place'[s][k] = 0
        /\ \A t \in Sockets : link'[t] => link[t]
        /\ UNCHANGED <<ready, socket, listeners>>
    BY <1>8 DEF Disconnected, BasicTypes, clientVars
  <2>2. \A x \in watches' : \E w \in watches : w.sock = x.sock
    BY <1>8, CancelledFacts DEF Disconnected
  <2>3. NothingNew
    BY <2>1, <2>2 DEF NothingNew, BasicTypes
  <2> QED
    BY <2>3, NothingNewKeeps
<1>9. ASSUME NEW s \in Sockets, SessionEnds(s) PROVE AsksInv'
  <2>1. UNCHANGED <<up, place, ready, socket, listeners, link>>
    BY <1>9 DEF SessionEnds, clientVars
  <2>2. \A x \in watches' : \E w \in watches : w.sock = x.sock
    BY <1>9, CancelledFacts DEF SessionEnds
  <2>3. NothingNew
    BY <2>1, <2>2 DEF NothingNew
  <2> QED
    BY <2>3, NothingNewKeeps
<1>10. ASSUME NEW w \in watches, Goroutine(w) PROVE AsksInv'
  <2>1. GoroutineStep(w)
    BY <1>10, GoroutineFacts
  <2>2. UNCHANGED <<up, ready, socket, listeners, link>>
    BY <2>1 DEF GoroutineStep, clientVars
  <2>3. \A x \in watches' : \E v \in watches : v.sock = x.sock
    BY <2>1 DEF GoroutineStep, Becomes, forgetSubscription
  <2>4. place' = place \/ place' = [place EXCEPT ![w.sock][w.key] = 0]
    BY <2>1 DEF GoroutineStep, forgetSubscription
  <2>5. \A t \in Sockets, k \in Keys : place'[t][k] \in {place[t][k], 0}
    <3>1. place \in [Sockets -> [Keys -> SubIds \cup {0}]] /\ w.sock \in Sockets /\ w.key \in Keys
      BY <2>1 DEF GoroutineStep, BasicTypes
    <3> QED
      BY <2>4, <3>1
  <2>6. NothingNew
    BY <2>2, <2>3, <2>5 DEF NothingNew
  <2> QED
    BY <2>6, NothingNewKeeps
<1>11. CASE SessionStands \/ UNCHANGED vars
  BY <1>4, <1>11 DEF SessionStands, vars, clientVars, wireVars, serverVars
<1> QED
  BY <1>1, <1>2, <1>3, <1>5, <1>6, <1>7, <1>8, <1>9, <1>10, <1>11 DEF Next, Browser, Server

-----------------------------------------------------------------------------
(* The socket comes back.                                                  *)

\* Every step leaves something that will open a socket.
LEMMA ReopenStep ==
    ASSUME BasicTypes, SocketWillReopen, [Next]_vars
    PROVE  SocketWillReopen'
<1>0. asking \in Nat
  BY DEF BasicTypes
<1>1. CASE Connect
  <2>1. HasSocket'
    BY <1>1, ConnectFacts, WatchAssumption DEF HasSocket
  <2> QED
    BY <2>1 DEF SocketWillReopen
<1>2. ASSUME NEW k \in Keys, Subscribe(k) PROVE SocketWillReopen'
  BY <1>1, <1>2 DEF Subscribe, SocketWillReopen, IsOpen, HasSocket
<1>3. CASE TimerFires
  BY <1>1, <1>3 DEF TimerFires
<1>4. ASSUME NEW k \in Keys, Unsubscribe(k) PROVE SocketWillReopen'
  <2>1. Subscriptions' \subseteq Subscriptions
    BY <1>4 DEF Unsubscribe, Subscriptions, BasicTypes
  <2> QED
    BY <1>4, <2>1 DEF Unsubscribe, SocketWillReopen, HasSocket
<1>5. CASE SessionStands
  BY <1>5 DEF SessionStands, SocketWillReopen, Scheduled, Subscriptions
<1>6. CASE SessionOver
  BY <1>6 DEF SessionOver, SocketWillReopen, Subscriptions
<1>7. ASSUME NEW s \in Sockets, Opened(s) PROVE SocketWillReopen'
  <2>1. /\ HasSocket => HasSocket'
        /\ \A t \in Sockets : ready[t] = "closing" => ready'[t] = "closing"
        /\ UNCHANGED <<listeners, timer, asking>>
    BY <1>7 DEF Opened, HasSocket, BasicTypes
  <2> QED
    BY <2>1 DEF SocketWillReopen, Subscriptions
<1>8. ASSUME NEW s \in Sockets, ClosedAbnormally(s) PROVE SocketWillReopen'
  BY <1>8 DEF ClosedAbnormally, SocketWillReopen, Scheduled, Subscriptions
<1>9. ASSUME NEW s \in Sockets, ClosedBySession(s) PROVE SocketWillReopen'
  BY <1>0, <1>9 DEF ClosedBySession, SocketWillReopen
<1>10. ASSUME NEW s \in Sockets, Receive(s) PROVE SocketWillReopen'
  <2>1. CASE ready'[s] = "closing"
    BY <2>1 DEF SocketWillReopen
  <2>2. CASE UNCHANGED ready
    BY <1>10, <2>2 DEF Receive, SocketWillReopen, HasSocket, Subscriptions
  <2>3. ready'[s] = "closing" \/ UNCHANGED ready
    BY <1>10 DEF Receive, BasicTypes
  <2> QED
    BY <2>1, <2>2, <2>3
<1>11. CASE UNCHANGED clientVars
  BY <1>11 DEF clientVars, SocketWillReopen, HasSocket, Subscriptions
<1>12. [Next]_vars => \/ UNCHANGED clientVars
                      \/ \E k \in Keys : Subscribe(k) \/ Unsubscribe(k)
                      \/ TimerFires \/ SessionStands \/ SessionOver
                      \/ \E s \in Sockets : Opened(s) \/ ClosedAbnormally(s) \/ ClosedBySession(s) \/ Receive(s)
  BY DEF Next, Browser, Server, Accept, Serve, Disconnected, SessionEnds, Cut, Goroutine, vars
<1> QED
  BY <1>2, <1>3, <1>4, <1>5, <1>6, <1>7, <1>8, <1>9, <1>10, <1>11, <1>12

-----------------------------------------------------------------------------
(* Lists on screen are followed or told of.                                *)

\* Frames at the end of the queue.
LEMMA AppendFrame ==
    ASSUME NEW d \in Seq(Frames), NEW f \in Frames, NEW k \in Keys
    PROVE  /\ AnyOf(Append(d, f), k) <=> AnyOf(d, k) \/ OfKey(f, k)
           /\ OfKey(f, k) /\ Warns(f) => LastWarns(Append(d, f), k)
           /\ ~OfKey(f, k) /\ LastWarns(d, k) => LastWarns(Append(d, f), k)
<1> DEFINE n == Len(d)
           v == Append(d, f)
<1>1. n \in Nat /\ Len(v) = n + 1 /\ v[n + 1] = f /\ \A i \in 1 .. n : v[i] = d[i]
  BY AppendAt
<1> HIDE DEF n, v
<1>2. 1 .. n + 1 = (1 .. n) \cup {n + 1}
  BY <1>1
<1>3. AnyOf(v, k) <=> AnyOf(d, k) \/ OfKey(f, k)
  BY <1>1, <1>2 DEF AnyOf, n
<1>4. OfKey(f, k) /\ Warns(f) => LastWarns(v, k)
  BY <1>1 DEF LastWarns
<1>5. ASSUME ~OfKey(f, k), LastWarns(d, k) PROVE LastWarns(v, k)
  <2>1. PICK i \in 1 .. n : OfKey(d[i], k) /\ Warns(d[i]) /\ \A j \in i + 1 .. n : ~OfKey(d[j], k)
    BY <1>5 DEF LastWarns, n
  <2>2. \A j \in i + 1 .. n + 1 : ~OfKey(v[j], k)
    BY <1>1, <1>2, <1>5, <2>1
  <2> QED
    BY <1>1, <2>1, <2>2 DEF LastWarns
<1> QED
  BY <1>3, <1>4, <1>5 DEF v

\* Frames in front of the queue.
LEMMA TailFrame ==
    ASSUME NEW d \in Seq(Frames), d # <<>>, NEW k \in Keys
    PROVE  /\ AnyOf(d, k) <=> AnyOf(Tail(d), k) \/ OfKey(Head(d), k)
           /\ LastWarns(d, k) => LastWarns(Tail(d), k)
                                 \/ (OfKey(Head(d), k) /\ Warns(Head(d)) /\ ~AnyOf(Tail(d), k))
<1> DEFINE n == Len(d)
           v == Tail(d)
<1>1. n \in Nat \ {0} /\ Len(v) = n - 1 /\ Head(d) = d[1] /\ \A i \in 1 .. n - 1 : v[i] = d[i + 1]
  BY TailAt
<1> HIDE DEF n, v
<1>2. \A i \in 2 .. n : i - 1 \in 1 .. n - 1 /\ v[i - 1] = d[i]
  BY <1>1
<1>3. ASSUME AnyOf(d, k) PROVE AnyOf(v, k) \/ OfKey(Head(d), k)
  <2>1. PICK i \in 1 .. n : OfKey(d[i], k)
    BY <1>3 DEF AnyOf, n
  <2>2. CASE i = 1
    BY <1>1, <2>1, <2>2
  <2>3. CASE i # 1
    BY <1>1, <1>2, <2>1, <2>3 DEF AnyOf
  <2> QED
    BY <2>2, <2>3
<1>4. ASSUME AnyOf(v, k) \/ OfKey(Head(d), k) PROVE AnyOf(d, k)
  BY <1>1, <1>4 DEF AnyOf, n
<1>5. ASSUME LastWarns(d, k)
      PROVE  LastWarns(v, k) \/ (OfKey(Head(d), k) /\ Warns(Head(d)) /\ ~AnyOf(v, k))
  <2>1. PICK i \in 1 .. n : OfKey(d[i], k) /\ Warns(d[i]) /\ \A j \in i + 1 .. n : ~OfKey(d[j], k)
    BY <1>5 DEF LastWarns, n
  <2>2. CASE i = 1
    BY <1>1, <2>1, <2>2 DEF AnyOf
  <2>3. CASE i # 1
    <3>1. i - 1 \in 1 .. Len(v) /\ v[i - 1] = d[i]
      BY <1>1, <1>2, <2>1, <2>3
    <3>2. \A j \in (i - 1) + 1 .. Len(v) : ~OfKey(v[j], k)
      BY <1>1, <2>1
    <3> QED
      BY <2>1, <3>1, <3>2 DEF LastWarns
  <2> QED
    BY <2>2, <2>3
<1> QED
  BY <1>3, <1>4, <1>5 DEF v

\* An element that is there, and none of the other kind.
LEMMA HasNotHas ==
    ASSUME NEW S, NEW u \in Seq(S), NEW a, NEW b, Has(u, a), ~Has(u, b)
    PROVE  LastIs(u, a, b)
BY DEF Has, LastIs

FollowInv == ScreenFollowed /\ FramesFollowed

\* Enough for a step that neither opens nor closes a socket: a socket that
\* follows a key goes on to, and so does the current one after a new frame
\* of the key or a new subscription.
LEMMA FollowsKept ==
    ASSUME BasicTypes, FollowInv, UNCHANGED <<socket, ready>>,
           \A s \in Sockets : Broken(s) => Broken(s)',
           \A s \in Sockets : Good(s)' => Good(s),
           \A s \in Sockets, k \in Subscriptions' :
              Good(s) /\ Follows(s, k) => Broken(s)' \/ (Good(s)' /\ Follows(s, k)'),
           \A k \in Subscriptions' :
              /\ k \in problem \cup old => k \in problem' \cup old'
              /\ IsOpen /\ k \notin Subscriptions => Broken(socket)' \/ (Good(socket)' /\ Follows(socket, k)')
              /\ IsOpen /\ Good(socket)' /\ AnyOf(down'[socket], k) => AnyOf(down[socket], k) \/ Follows(socket, k)'
    PROVE  FollowInv'
<1>1. IsOpen' <=> IsOpen
  BY DEF IsOpen
<1>2. ScreenFollowed'
  <2> SUFFICES ASSUME IsOpen, NEW k \in Subscriptions'
               PROVE  \/ \E s \in Sockets : Broken(s)'
                      \/ \E s \in Sockets : Good(s)' /\ Follows(s, k)'
                      \/ k \in problem' \cup old'
    BY <1>1 DEF ScreenFollowed
  <2>1. CASE k \in Subscriptions
    <3>1. \/ \E s \in Sockets : Broken(s)
          \/ \E s \in Sockets : Good(s) /\ Follows(s, k)
          \/ k \in problem \cup old
      BY <2>1 DEF FollowInv, ScreenFollowed
    <3> QED
      BY <3>1
  <2>2. CASE k \notin Subscriptions
    <3>1. socket \in Sockets
      BY DEF IsOpen, BasicTypes
    <3> QED
      BY <2>2, <3>1
  <2> QED
    BY <2>1, <2>2
<1>3. FramesFollowed'
  <2> SUFFICES ASSUME IsOpen, Good(socket)', NEW k \in Subscriptions', AnyOf(down'[socket], k)
               PROVE  Follows(socket, k)'
    BY <1>1 DEF FramesFollowed
  <2>1. socket \in Sockets /\ Good(socket) /\ ~Broken(socket)'
    BY DEF IsOpen, BasicTypes, Broken, Good
  <2>2. k \in Subscriptions => (AnyOf(down[socket], k) => Follows(socket, k))
    BY <2>1 DEF FollowInv, FramesFollowed
  <2> QED
    BY <2>1, <2>2
<1> QED
  BY <1>2, <1>3 DEF FollowInv

\* A socket that is not open when the step is over promises nothing.
LEMMA FollowsNothing == ASSUME ~IsOpen' PROVE FollowInv'
BY DEF FollowInv, ScreenFollowed, FramesFollowed

\* Nothing that the invariant speaks of changes.
LEMMA FollowsSame ==
    ASSUME FollowInv,
           UNCHANGED <<listeners, socket, ready, problem, old, link, up, down, watches>>,
           UNCHANGED conn \/ (\E s \in Sockets : ready[s] = "connecting" /\ conn' = [conn EXCEPT ![s] = "up"]),
           BasicTypes
    PROVE  FollowInv'
<1>1. \A s \in Sockets : (Good(s)' <=> Good(s)) /\ (Broken(s)' <=> Broken(s))
  BY DEF Good, Broken, BasicTypes
<1>2. \A s \in Sockets, k \in Keys : Follows(s, k)' <=> Follows(s, k)
  BY DEF Follows, Watching, Tells, Running
<1>3. Subscriptions' = Subscriptions /\ Subscriptions \subseteq Keys
  BY DEF Subscriptions
<1> QED
  BY <1>1, <1>2, <1>3, FollowsKept

LEMMA SubscribeFollows ==
    ASSUME BasicTypes, AsksInv, FollowInv, NEW k \in Keys, Subscribe(k)
    PROVE  FollowInv'
<1>1. CASE ~IsOpen
  <2>1. Connect
    BY <1>1 DEF Subscribe
  <2>2. ~IsOpen'
    BY <1>1, <2>1, ConnectFacts DEF IsOpen
  <2> QED
    BY <2>2, FollowsNothing
<1>2. CASE IsOpen
  <2>1. /\ UNCHANGED <<socket, ready, link, down, conn, watches, problem, old>> /\ socket \in Sockets
        /\ ready[socket] = "open" /\ up[socket] \in Seq(Requests)
    BY <1>2 DEF Subscribe, IsOpen, BasicTypes, serverVars
  <2>2. Subscriptions' = Subscriptions \cup {k} /\ Subscriptions' \subseteq Keys
    BY <1>2 DEF Subscribe, Subscriptions, BasicTypes
  <2>3. \A s \in Sockets : (Good(s)' <=> Good(s)) /\ (Broken(s)' <=> Broken(s))
    BY <2>1 DEF Good, Broken
  <2>4. Ask(k) \in Requests /\ \A l \in Keys : Ask(k) # Leave(l) /\ Ask(l) # Leave(l)
    BY AskType, AskDistinct
  <2>5. \/ up' = up /\ (k \in Subscriptions \/ ~link[socket])
        \/ /\ link[socket] /\ up'[socket] = Append(up[socket], Ask(k))
           /\ \A t \in Sockets \ {socket} : up'[t] = up[t]
    <3>1. \/ up' = up /\ k \in Subscriptions
          \/ up' = Sent(socket, <<Ask(k)>>)
      BY <1>2 DEF Subscribe, Subscriptions, BasicTypes, Ask
    <3> QED
      BY <2>1, <2>4, <3>1, SentFacts
  <2>6. \A s \in Sockets, l \in Keys : LastIs(up[s], Ask(l), Leave(l)) => LastIs(up'[s], Ask(l), Leave(l))
    <3>1. \A l \in Keys : LastIs(up[socket], Ask(l), Leave(l)) => LastIs(Append(up[socket], Ask(k)), Ask(l), Leave(l))
      BY <2>1, <2>4, AppendFacts
    <3> QED
      BY <2>5, <3>1
  <2>7. \A s \in Sockets, l \in Keys : Has(up'[s], Leave(l)) => Has(up[s], Leave(l))
    <3>1. \A l \in Keys : Has(Append(up[socket], Ask(k)), Leave(l)) => Has(up[socket], Leave(l))
      BY <2>1, <2>4, HasAppend
    <3> QED
      BY <2>5, <3>1
  <2>8. \A s \in Sockets, l \in Keys : Follows(s, l) => Follows(s, l)'
    BY <2>1, <2>6, <2>7 DEF Follows, Watching, Tells, Running
  <2>9. k \notin Subscriptions => Broken(socket)' \/ (Good(socket)' /\ Follows(socket, k)')
    <3>1. CASE ~link[socket]
      BY <2>1, <3>1 DEF Broken, Good
    <3>2. CASE link[socket] /\ up'[socket] = Append(up[socket], Ask(k))
      <4>1. LastIs(up'[socket], Ask(k), Leave(k))
        BY <2>1, <2>4, <3>2, AppendFacts
      <4>2. Follows(socket, k)'
        BY <2>1, <4>1 DEF Follows
      <4> QED
        BY <2>1, <4>2 DEF Broken, Good
    <3> QED
      BY <2>5, <3>1, <3>2
  <2> QED
    BY <1>2, <2>1, <2>2, <2>3, <2>8, <2>9, FollowsKept
<1> QED
  BY <1>1, <1>2

LEMMA UnsubscribeFollows ==
    ASSUME BasicTypes, AsksInv, FollowInv, NEW k \in Keys, Unsubscribe(k)
    PROVE  FollowInv'
<1>1. UNCHANGED <<socket, ready, link, down, conn, watches>>
  BY DEF Unsubscribe, serverVars
<1>2. \A s \in Sockets : (Good(s)' <=> Good(s)) /\ (Broken(s)' <=> Broken(s))
  BY <1>1 DEF Good, Broken
<1>3. CASE listeners[k] > 1
  <2>1. UNCHANGED <<up, problem, old>> /\ Subscriptions' = Subscriptions /\ Subscriptions \subseteq Keys
    BY <1>3 DEF Unsubscribe, Subscriptions, BasicTypes
  <2>2. \A s \in Sockets, l \in Keys : Follows(s, l)' <=> Follows(s, l)
    BY <1>1, <2>1 DEF Follows, Watching, Tells, Running
  <2> QED
    BY <1>1, <1>2, <2>1, <2>2, FollowsKept
<1>4. CASE ~(listeners[k] > 1)
  <2>1. Subscriptions' = Subscriptions \ {k} /\ Subscriptions \subseteq Keys
    <3>1. listeners[k] = 1 /\ listeners' = [listeners EXCEPT ![k] = @ - 1]
      BY <1>4 DEF Unsubscribe, BasicTypes
    <3> QED
      BY <3>1 DEF Subscriptions, BasicTypes
  <2>2. problem' = problem \ {k} /\ old' = old \ {k} /\ up' = IF IsOpen THEN Sent(socket, <<Leave(k)>>) ELSE up
    BY <1>4 DEF Unsubscribe, Leave
  <2>3. \/ up' = up
        \/ /\ socket \in Sockets /\ up[socket] \in Seq(Requests)
           /\ up'[socket] = Append(up[socket], Leave(k)) /\ \A t \in Sockets \ {socket} : up'[t] = up[t]
    BY <2>2, SentFacts, AskType DEF IsOpen, BasicTypes
  <2>4. \A s \in Sockets, l \in Keys \ {k} :
           /\ LastIs(up[s], Ask(l), Leave(l)) => LastIs(up'[s], Ask(l), Leave(l))
           /\ Has(up'[s], Leave(l)) => Has(up[s], Leave(l))
    <3>1. CASE up' = up
      BY <3>1
    <3>2. CASE /\ socket \in Sockets /\ up[socket] \in Seq(Requests)
               /\ up'[socket] = Append(up[socket], Leave(k)) /\ \A t \in Sockets \ {socket} : up'[t] = up[t]
      <4> SUFFICES ASSUME NEW l \in Keys \ {k}
                   PROVE  /\ LastIs(up[socket], Ask(l), Leave(l)) => LastIs(Append(up[socket], Leave(k)), Ask(l), Leave(l))
                          /\ Has(Append(up[socket], Leave(k)), Leave(l)) => Has(up[socket], Leave(l))
        BY <3>2
      <4>1. Leave(k) # Leave(l) /\ Ask(l) # Leave(l) /\ Leave(k) \in Requests
        BY AskDistinct, AskType
      <4> QED
        BY <3>2, <4>1, AppendFacts, HasAppend
    <3> QED
      BY <2>3, <3>1, <3>2
  <2>5. \A s \in Sockets, l \in Keys \ {k} : Follows(s, l) => Follows(s, l)'
    BY <1>1, <2>4 DEF Follows, Watching, Tells, Running
  <2> QED
    BY <1>1, <1>2, <2>1, <2>2, <2>5, FollowsKept
<1> QED
  BY <1>3, <1>4

LEMMA OpenedFollows ==
    ASSUME BasicTypes, AsksInv, FollowInv, NEW s \in Sockets, Opened(s)
    PROVE  FollowInv'
<1>1. /\ UNCHANGED <<listeners, socket, link, down, conn, watches>> /\ conn[s] # "none"
      /\ Subscriptions' = Subscriptions /\ Subscriptions \subseteq Keys
  BY DEF Opened, serverVars, Subscriptions
<1>2. BasicTypes'
  BY TypesStep DEF Next, Browser
<1>3. \A k \in Subscriptions : Broken(s)' \/ (Good(s)' /\ LastIs(up'[s], Ask(k), Leave(k)))
  <2> SUFFICES ASSUME NEW k \in Subscriptions, link[s], conn[s] = "up"
               PROVE  LastIs(up'[s], Ask(k), Leave(k))
    BY <1>1, OpenedFacts DEF Broken, Good
  <2>1. Has(up'[s], Ask(k)) /\ ~Has(up'[s], Leave(k)) /\ up'[s] \in Seq(Requests)
    BY <1>1, <1>2, OpenedFacts DEF BasicTypes
  <2> QED
    BY <2>1, HasNotHas
<1>4. ScreenFollowed'
  BY <1>1, <1>3 DEF ScreenFollowed, Follows
<1>5. FramesFollowed'
  <2> SUFFICES ASSUME IsOpen', Good(socket)', NEW k \in Subscriptions, AnyOf(down[socket], k)
               PROVE  Follows(socket, k)'
    BY <1>1 DEF FramesFollowed
  <2>1. socket \in Sockets
    BY <1>1 DEF IsOpen, BasicTypes
  <2>2. CASE socket = s
    <3>1. LastIs(up'[s], Ask(k), Leave(k))
      BY <1>1, <1>3, <2>2 DEF Broken, Good
    <3> QED
      BY <1>1, <2>2, <3>1 DEF Follows
  <2>3. CASE socket # s
    <3>1. up'[socket] = up[socket] /\ ready'[socket] = ready[socket]
      BY <2>1, <2>3, OpenedFacts
    <3>2. IsOpen /\ Good(socket)
      BY <1>1, <3>1 DEF IsOpen, Good
    <3>3. Follows(socket, k)
      BY <3>2 DEF FollowInv, FramesFollowed
    <3> QED
      BY <1>1, <3>1, <3>3 DEF Follows, Watching, Tells, Running
  <2> QED
    BY <2>2, <2>3
<1> QED
  BY <1>4, <1>5 DEF FollowInv

LEMMA ReceiveFollows ==
    ASSUME BasicTypes, FollowInv, NEW s \in Sockets, Receive(s)
    PROVE  FollowInv'
<1> DEFINE f == Head(down[s])
<1>1. /\ ready[s] = "open" /\ down[s] # <<>> /\ down[s] \in Seq(Frames) /\ f \in Frames
      /\ down'[s] = Tail(down[s]) /\ \A t \in Sockets \ {s} : down'[t] = down[t]
      /\ UNCHANGED <<listeners, socket, link, up, conn, watches>>
      /\ Subscriptions' = Subscriptions /\ Subscriptions \subseteq Keys
  BY TailAt DEF Receive, BasicTypes, serverVars, Subscriptions
<1>2. CASE f = SessionEnd
  <2>1. ready' = [ready EXCEPT ![s] = "closing"] /\ UNCHANGED <<problem, old>>
    BY <1>2 DEF Receive, SessionEnd
  <2>2. Broken(s)'
    BY <2>1 DEF Broken, BasicTypes
  <2>3. ScreenFollowed'
    BY <2>2 DEF ScreenFollowed
  <2>4. FramesFollowed'
    <3> SUFFICES ASSUME IsOpen', Good(socket)', NEW k \in Subscriptions, AnyOf(down'[socket], k)
                 PROVE  Follows(socket, k)'
      BY <1>1 DEF FramesFollowed
    <3>1. socket \in Sockets /\ socket # s
      BY <1>1, <2>1 DEF IsOpen, BasicTypes
    <3>2. ready'[socket] = ready[socket] /\ down'[socket] = down[socket]
      BY <1>1, <2>1, <3>1 DEF BasicTypes
    <3>3. Follows(socket, k)
      BY <1>1, <3>2 DEF IsOpen, Good, FollowInv, FramesFollowed
    <3> QED
      BY <1>1, <3>2, <3>3 DEF Follows, Watching, Tells, Running
  <2> QED
    BY <2>3, <2>4 DEF FollowInv
<1>3. CASE f # SessionEnd
  <2>1. /\ UNCHANGED ready /\ f.type # "4401" /\ f.key \in Keys /\ f.late \in BOOLEAN
        /\ problem' = IF listeners[f.key] > 0 THEN Recorded(f) ELSE problem
        /\ old' = IF listeners[f.key] > 0 /\ (f.late \/ s # socket) THEN old \cup {f.key} ELSE old \ {f.key}
    <3>1. f.type # "4401" /\ f.key \in Keys /\ f.late \in BOOLEAN
      BY <1>1, <1>3, FrameShape
    <3> QED
      BY <3>1 DEF Receive
  <2> HIDE DEF f
  <2>2. \A t \in Sockets : (Good(t)' <=> Good(t)) /\ (Broken(t)' <=> Broken(t))
    BY <1>1, <2>1 DEF Good, Broken
  <2>3. IsOpen' <=> IsOpen
    BY <1>1, <2>1 DEF IsOpen
  <2>4. \A t \in Sockets, k \in Keys : Follows(t, k) => Follows(t, k)' \/ (t = s /\ OfKey(f, k) /\ (Warns(f) \/ s # socket))
    <3> SUFFICES ASSUME NEW t \in Sockets, NEW k \in Keys, Tells(t, k)
                 PROVE  Tells(t, k)' \/ (t = s /\ OfKey(f, k) /\ (Warns(f) \/ s # socket))
      BY <1>1 DEF Follows, Watching, Running
    <3>1. CASE t # s
      BY <1>1, <3>1 DEF Tells
    <3>2. CASE t = s
      <4>1. /\ AnyOf(down[s], k) => AnyOf(down'[s], k) \/ OfKey(f, k)
            /\ LastWarns(down[s], k) => LastWarns(down'[s], k) \/ (OfKey(f, k) /\ Warns(f))
        BY <1>1, TailFrame DEF f
      <4> QED
        BY <1>1, <3>2, <4>1 DEF Tells
    <3> QED
      BY <3>1, <3>2
  <2>5. \A k \in Subscriptions : OfKey(f, k) /\ (Warns(f) \/ s # socket) => k \in problem' \cup old'
    <3> SUFFICES ASSUME NEW k \in Subscriptions, OfKey(f, k), Warns(f) \/ s # socket
                 PROVE  k \in problem' \cup old'
      OBVIOUS
    <3>1. f.key = k /\ listeners[f.key] > 0
      BY DEF OfKey, Subscriptions
    <3>2. CASE f.late \/ s # socket
      BY <2>1, <3>1, <3>2
    <3>3. CASE f.type = "ERROR"
      BY <2>1, <3>1, <3>3 DEF Recorded
    <3> QED
      BY <3>2, <3>3 DEF Warns
  <2>6. \A k \in Subscriptions : ~OfKey(f, k) => (k \in problem \cup old => k \in problem' \cup old')
    <3> SUFFICES ASSUME NEW k \in Subscriptions, f.key # k, k \in problem \cup old
                 PROVE  k \in problem' \cup old'
      BY <1>3 DEF OfKey
    <3>1. k \in problem => k \in problem'
      BY <2>1 DEF Recorded
    <3>2. k \in old => k \in old'
      BY <2>1
    <3> QED
      BY <3>1, <3>2
  <2>7. ScreenFollowed'
    <3> SUFFICES ASSUME IsOpen, NEW k \in Subscriptions
                 PROVE  \/ \E t \in Sockets : Broken(t)
                        \/ \E t \in Sockets : Good(t) /\ Follows(t, k)'
                        \/ k \in problem' \cup old'
      BY <1>1, <2>2, <2>3 DEF ScreenFollowed
    <3>1. \/ \E t \in Sockets : Broken(t)
          \/ \E t \in Sockets : Good(t) /\ Follows(t, k)
          \/ k \in problem \cup old
      BY DEF FollowInv, ScreenFollowed
    <3>2. CASE \E t \in Sockets : Good(t) /\ Follows(t, k)
      BY <1>1, <2>4, <2>5, <3>2
    <3>3. CASE k \in problem \cup old /\ ~OfKey(f, k)
      BY <2>6, <3>3
    <3>4. CASE OfKey(f, k) /\ (Warns(f) \/ s # socket)
      BY <2>5, <3>4
    <3>5. CASE OfKey(f, k) /\ ~Warns(f) /\ s = socket
      <4>1. CASE ~Good(s)
        BY <1>1, <4>1 DEF Broken
      <4>2. CASE Good(s)
        <5>1. AnyOf(down[s], k)
          BY <1>1, <3>5, TailFrame DEF f
        <5>2. Follows(s, k)
          BY <3>5, <4>2, <5>1 DEF FollowInv, FramesFollowed
        <5> QED
          BY <1>1, <2>4, <3>5, <4>2, <5>2
      <4> QED
        BY <4>1, <4>2
    <3> QED
      BY <3>1, <3>2, <3>3, <3>4, <3>5
  <2>8. FramesFollowed'
    <3> SUFFICES ASSUME IsOpen, Good(socket), NEW k \in Subscriptions, AnyOf(down'[socket], k)
                 PROVE  Follows(socket, k)'
      BY <1>1, <2>2, <2>3 DEF FramesFollowed, IsOpen, BasicTypes
    <3>0. socket \in Sockets
      BY DEF IsOpen, BasicTypes
    <3>1. AnyOf(down[socket], k)
      BY <1>1, <3>0, TailFrame
    <3>2. Follows(socket, k)
      BY <3>1 DEF FollowInv, FramesFollowed
    <3>3. CASE socket # s
      BY <1>1, <2>4, <3>0, <3>2, <3>3
    <3>4. CASE socket = s
      <4>1. LastWarns(down[s], k) => LastWarns(down'[s], k)
        BY <1>1, <3>4, TailFrame
      <4> QED
        BY <1>1, <3>2, <3>4, <4>1 DEF Follows, Watching, Running, Tells
    <3> QED
      BY <3>3, <3>4
  <2> QED
    BY <2>7, <2>8 DEF FollowInv
<1> QED
  BY <1>2, <1>3

\* A message that is served leaves its key asked for, watched or told about.
LEMMA ServeFollows ==
    ASSUME BasicTypes, AsksInv, FollowInv, NEW s \in Sockets, Serve(s)
    PROVE  FollowInv'
<1>1. /\ up[s] # <<>> /\ up'[s] = Tail(up[s]) /\ \A t \in Sockets \ {s} : up'[t] = up[t]
      /\ UNCHANGED <<listeners, socket, ready, problem, old, link, conn>> /\ up[s] \in Seq(Requests)
      /\ Subscriptions' = Subscriptions /\ Subscriptions \subseteq Keys
  BY ServeFacts DEF BasicTypes, Subscriptions
<1>2. PICK k \in Keys :
        \/ Head(up[s]) = Ask(k) /\ Refused(s, k)
        \/ Head(up[s]) = Ask(k) /\ \E i \in SubIds : Granted(s, k, i)
        \/ Head(up[s]) = Leave(k) /\ Close(s, k)
  BY <1>1, ServeFacts, RequestFindsFree
<1>3. \A t \in Sockets : (Good(t)' <=> Good(t)) /\ (Broken(t)' <=> Broken(t))
  BY <1>1 DEF Good, Broken
<1>4. Ask(k) # Leave(k) /\ \A l \in Keys \ {k} : Head(up[s]) # Ask(l) /\ Head(up[s]) # Leave(l)
  BY <1>2, AskDistinct
\* The keys and sockets that the message is not about.
<1>5. \A t \in Sockets, l \in Keys : t # s \/ l # k =>
        /\ LastIs(up[t], Ask(l), Leave(l)) => LastIs(up'[t], Ask(l), Leave(l))
        /\ Has(up'[t], Leave(l)) => Has(up[t], Leave(l))
  <2> SUFFICES ASSUME NEW l \in Keys \ {k}
               PROVE  /\ LastIs(up[s], Ask(l), Leave(l)) => LastIs(up'[s], Ask(l), Leave(l))
                      /\ Has(up'[s], Leave(l)) => Has(up[s], Leave(l))
    BY <1>1
  <2>1. Ask(l) # Leave(l)
    BY AskDistinct
  <2> QED
    BY <1>1, <1>4, <2>1, TailFacts, HasTail
<1>6. \A t \in Sockets, l \in Keys : t # s \/ l # k =>
        ((\E w \in Running(t, l) : w.live /\ w.at # "done") => (\E w \in Running(t, l)' : w.live /\ w.at # "done"))
  <2>1. CASE Close(s, k)
    <3> DEFINE S == {w \in Running(s, k) : w.id = place[s][k]}
    <3>1. watches' = Cancelled(S)
      BY <2>1 DEF Close
    <3>2. \A w \in S : w.sock = s /\ w.key = k
      BY DEF Running
    <3> HIDE DEF S
    <3>3. \A w \in watches : w.sock # s \/ w.key # k => w \in watches'
      BY <3>1, <3>2, CancelledFacts
    <3> QED
      BY <3>3 DEF Running
  <2>2. CASE Refused(s, k)
    BY <2>2 DEF Refused, Running
  <2>3. ASSUME NEW i \in SubIds, Granted(s, k, i) PROVE watches \subseteq watches'
    BY <2>3 DEF Granted
  <2> QED
    BY <1>2, <2>1, <2>2, <2>3 DEF Running
<1>7. /\ \A t \in Sockets \ {s} : down'[t] = down[t]
      /\ UNCHANGED down \/ (Good(s) => down'[s] = Append(down[s], Frame("ERROR", k)))
      /\ Head(up[s]) = Leave(k) => UNCHANGED down
      /\ Frame("ERROR", k) \in Frames /\ Frame("ERROR", k) # SessionEnd
      /\ Frame("ERROR", k).key = k /\ Warns(Frame("ERROR", k)) /\ down[s] \in Seq(Frames)
  <2>1. /\ Frame("ERROR", k) \in Frames /\ Frame("ERROR", k) # SessionEnd
        /\ Frame("ERROR", k).key = k /\ Warns(Frame("ERROR", k)) /\ down[s] \in Seq(Frames)
    BY FrameType DEF Warns, BasicTypes
  <2>2. CASE Refused(s, k) /\ Head(up[s]) = Ask(k)
    <3>1. down' = Queued(s, Frame("ERROR", k))
      BY <2>2 DEF Refused
    <3> QED
      BY <1>4, <2>1, <2>2, <3>1, QueuedFacts DEF Good
  <2>3. CASE UNCHANGED down
    BY <2>1, <2>3
  <2> QED
    BY <1>2, <2>2, <2>3 DEF Granted, Close
<1>8. Good(s) => \A l \in Keys :
        /\ LastWarns(down[s], l) => LastWarns(down'[s], l)
        /\ AnyOf(down[s], l) => AnyOf(down'[s], l)
        /\ AnyOf(down'[s], l) => AnyOf(down[s], l) \/ (l = k /\ LastWarns(down'[s], l))
        /\ ~UNCHANGED down => LastWarns(down'[s], k)
  <2> SUFFICES ASSUME Good(s), ~UNCHANGED down, NEW l \in Keys
               PROVE  /\ LastWarns(down[s], l) => LastWarns(down'[s], l)
                      /\ AnyOf(down[s], l) => AnyOf(down'[s], l)
                      /\ AnyOf(down'[s], l) => AnyOf(down[s], l) \/ (l = k /\ LastWarns(down'[s], l))
                      /\ LastWarns(down'[s], k)
    OBVIOUS
  <2>1. down'[s] = Append(down[s], Frame("ERROR", k)) /\ (OfKey(Frame("ERROR", k), l) <=> l = k)
    BY <1>7 DEF OfKey
  <2>2. LastWarns(down'[s], k)
    BY <1>7, <2>1, AppendFrame DEF OfKey
  <2> QED
    BY <1>7, <2>1, <2>2, AppendFrame
<1>9. ASSUME NEW t \in Sockets, NEW l \in Keys, t # s \/ l # k, Good(t), Follows(t, l)
      PROVE  Follows(t, l)'
  <2>1. Tells(t, l) => Tells(t, l)'
    BY <1>1, <1>7, <1>8, <1>9 DEF Tells
  <2>2. Watching(t, l) => Watching(t, l)'
    BY <1>5, <1>6, <1>9 DEF Watching
  <2> QED
    BY <1>5, <1>9, <2>1, <2>2 DEF Follows
<1>10. ASSUME Good(s), Follows(s, k) PROVE Follows(s, k)'
  <2>0. Tells(s, k) => Tells(s, k)'
    BY <1>1, <1>8, <1>10 DEF Tells
  <2>1. LastIs(up[s], Ask(k), Leave(k))
          => LastIs(up'[s], Ask(k), Leave(k)) \/ (Head(up[s]) = Ask(k) /\ ~Has(up'[s], Leave(k)))
    BY <1>1, <1>4, TailFacts
  <2>2. Has(up[s], Leave(k)) <=> Has(up'[s], Leave(k)) \/ Head(up[s]) = Leave(k)
    BY <1>1, HasTail
  <2>3. CASE Refused(s, k)
    <3>1. LastWarns(down'[s], k)
      <4>1. down'[s] = Append(down[s], Frame("ERROR", k))
        BY <1>7, <1>10, <2>3, QueuedFacts DEF Refused, Good
      <4> QED
        BY <1>7, <4>1, AppendFrame DEF OfKey
    <3> QED
      BY <3>1 DEF Follows, Tells
  <2>4. ASSUME NEW i \in SubIds, Granted(s, k, i), Head(up[s]) = Ask(k) PROVE Follows(s, k)'
    <3>1. PICK x \in Watches : /\ x.sock = s /\ x.key = k /\ x.at = "start" /\ x.live
                               /\ watches' = watches \cup {x}
      BY <1>10, <2>4 DEF Granted, Good
    <3>2. \E w \in Running(s, k)' : w.live /\ w.at # "done"
      BY <3>1 DEF Running
    <3> QED
      BY <1>10, <2>0, <2>1, <2>2, <2>4, <3>2 DEF Follows, Watching
  <2>5. CASE Head(up[s]) = Leave(k)
    BY <1>4, <1>10, <2>0, <2>1, <2>2, <2>5 DEF Follows, Watching
  <2> QED
    BY <1>2, <2>3, <2>4, <2>5
<1>11. ASSUME NEW l \in Subscriptions, IsOpen, Good(socket), AnyOf(down'[socket], l)
       PROVE  AnyOf(down[socket], l) \/ Follows(socket, l)'
  <2>1. socket \in Sockets
    BY <1>11 DEF IsOpen, BasicTypes
  <2> QED
    BY <1>1, <1>7, <1>8, <1>11, <2>1 DEF Follows, Tells
<1>12. \A t \in Sockets, l \in Keys : Good(t) /\ Follows(t, l) => Follows(t, l)'
  BY <1>9, <1>10
<1>13. \A t \in Sockets : Good(t)' => Good(t)
  BY <1>3
<1>14. \A t \in Sockets, l \in Subscriptions' : Good(t) /\ Follows(t, l) => Broken(t)' \/ (Good(t)' /\ Follows(t, l)')
  BY <1>1, <1>3, <1>12
<1>15. \A l \in Subscriptions' :
         /\ l \in problem \cup old => l \in problem' \cup old'
         /\ IsOpen /\ l \notin Subscriptions => Broken(socket)' \/ (Good(socket)' /\ Follows(socket, l)')
         /\ IsOpen /\ Good(socket)' /\ AnyOf(down'[socket], l) => AnyOf(down[socket], l) \/ Follows(socket, l)'
  <2>1. IsOpen => socket \in Sockets
    BY DEF IsOpen, BasicTypes
  <2> QED
    BY <1>1, <1>3, <1>11, <2>1
<1> QED
  BY <1>1, <1>3, <1>13, <1>14, <1>15, FollowsKept

\* A connection that ends leaves a close event behind, or was not open.
LEMMA LinkFollows ==
    ASSUME BasicTypes, FollowInv, NEW s \in Sockets, Disconnected(s) \/ SessionEnds(s) \/ Cut(s)
    PROVE  FollowInv'
<1>1. /\ UNCHANGED <<listeners, socket, ready, problem, old>>
      /\ Subscriptions' = Subscriptions /\ Subscriptions \subseteq Keys
  BY DEF Disconnected, SessionEnds, Cut, clientVars, Subscriptions
<1>2. \A t \in Sockets \ {s} : link'[t] = link[t] /\ conn'[t] = conn[t] /\ up'[t] = up[t] /\ down'[t] = down[t]
  BY DEF Disconnected, SessionEnds, Cut, BasicTypes, serverVars
<1>3. ~Good(s)' /\ (Broken(s) => Broken(s)') /\ (Good(s) => Broken(s)')
  <2>1. ~link'[s] \/ conn'[s] # "up"
    BY DEF Disconnected, SessionEnds, Cut, BasicTypes
  <2> QED
    BY <1>1, <2>1 DEF Good, Broken
<1>4. \A t \in Sockets \ {s} : (Good(t)' <=> Good(t)) /\ (Broken(t)' <=> Broken(t))
  BY <1>1, <1>2 DEF Good, Broken
<1>5. \A w \in watches : w.sock # s => w \in watches'
  <2>1. CASE UNCHANGED watches
    BY <2>1
  <2>2. CASE watches' = Cancelled({w \in watches : w.sock = s})
    <3> DEFINE S == {w \in watches : w.sock = s}
    <3>1. watches' = Cancelled(S) /\ \A w \in watches : w.sock # s => w \notin S
      BY <2>2
    <3> HIDE DEF S
    <3> QED
      BY <3>1, CancelledFacts
  <2> QED
    BY <2>1, <2>2 DEF Disconnected, SessionEnds, Cut, serverVars
<1>6. \A t \in Sockets \ {s}, l \in Keys : Follows(t, l) => Follows(t, l)'
  BY <1>1, <1>2, <1>5 DEF Follows, Watching, Tells, Running
<1>7. \A t \in Sockets : (Broken(t) => Broken(t)') /\ (Good(t)' => Good(t))
  BY <1>3, <1>4
<1>8. \A t \in Sockets, l \in Subscriptions' : Good(t) /\ Follows(t, l) => Broken(t)' \/ (Good(t)' /\ Follows(t, l)')
  BY <1>1, <1>3, <1>4, <1>6
<1>9. \A l \in Subscriptions' :
         /\ l \in problem \cup old => l \in problem' \cup old'
         /\ IsOpen /\ l \notin Subscriptions => Broken(socket)' \/ (Good(socket)' /\ Follows(socket, l)')
         /\ IsOpen /\ Good(socket)' /\ AnyOf(down'[socket], l) => AnyOf(down[socket], l) \/ Follows(socket, l)'
  <2>1. IsOpen /\ Good(socket)' => down'[socket] = down[socket]
    BY <1>1, <1>2, <1>3 DEF IsOpen, BasicTypes
  <2> QED
    BY <1>1, <2>1
<1> QED
  BY <1>1, <1>7, <1>8, <1>9, FollowsKept

\* A goroutine that ends tells the browser, or was no longer live.
LEMMA GoroutineFollows ==
    ASSUME BasicTypes, AsksInv, FollowInv, NEW w \in watches, GoroutineStep(w)
    PROVE  FollowInv'
<1> DEFINE s == w.sock
           k == w.key
<1>1. /\ UNCHANGED <<listeners, socket, ready, problem, old, link, up, conn>>
      /\ Subscriptions' = Subscriptions /\ Subscriptions \subseteq Keys
      /\ s \in Sockets /\ k \in Keys /\ w.live \in BOOLEAN
  BY DEF GoroutineStep, clientVars, Subscriptions, BasicTypes, Watches
<1>2. \A t \in Sockets : (Good(t)' <=> Good(t)) /\ (Broken(t)' <=> Broken(t))
  BY <1>1 DEF Good, Broken
<1>3. \A v \in watches : v # w => v \in watches'
  BY DEF GoroutineStep, Becomes, forgetSubscription
<1>4. \/ UNCHANGED down
      \/ \E f \in Frames : f # SessionEnd /\ f.key = k /\ (w.live \/ f.late) /\ down' = Queued(s, f)
  BY DEF GoroutineStep
<1>5. \A t \in Sockets \ {s} : down'[t] = down[t]
  BY <1>1, <1>4, QueuedFacts
<1> HIDE DEF s, k
<1>6. Good(s) => \A l \in Keys \ {k} :
        /\ AnyOf(down'[s], l) <=> AnyOf(down[s], l)
        /\ LastWarns(down[s], l) => LastWarns(down'[s], l)
  <2> SUFFICES ASSUME Good(s), NEW l \in Keys \ {k}, NEW f \in Frames, f # SessionEnd, f.key = k, down' = Queued(s, f)
               PROVE  /\ AnyOf(down'[s], l) <=> AnyOf(down[s], l)
                      /\ LastWarns(down[s], l) => LastWarns(down'[s], l)
    BY <1>4
  <2>1. down'[s] = Append(down[s], f) /\ ~OfKey(f, l) /\ down[s] \in Seq(Frames)
    BY <1>1, QueuedFacts DEF Good, OfKey, BasicTypes
  <2> QED
    BY <2>1, AppendFrame
<1>7. \A t \in Sockets, l \in Keys : Good(t) /\ (t # s \/ l # k) /\ Follows(t, l) => Follows(t, l)'
  <2> SUFFICES ASSUME NEW t \in Sockets, NEW l \in Keys, Good(t), t # s \/ l # k
               PROVE  (Watching(t, l) => Watching(t, l)') /\ (Tells(t, l) => Tells(t, l)')
    BY <1>1 DEF Follows
  <2>1. Watching(t, l) => Watching(t, l)'
    BY <1>1, <1>3 DEF Watching, Running, s, k
  <2>2. Tells(t, l) => Tells(t, l)'
    BY <1>1, <1>5, <1>6 DEF Tells
  <2> QED
    BY <2>1, <2>2
\* What is left of a live goroutine.
<1>8. ASSUME Good(s), w.live, w.at # "done", k \in Subscriptions \/ ~Has(up[s], Leave(k)), s = socket \/ ~Has(up[s], Leave(k))
      PROVE  Follows(s, k)'
  <2>1. CASE down' = Queued(s, Frame("ERROR", k))
    <3>1. /\ Frame("ERROR", k) \in Frames /\ Frame("ERROR", k) # SessionEnd
          /\ OfKey(Frame("ERROR", k), k) /\ Warns(Frame("ERROR", k)) /\ down[s] \in Seq(Frames)
      BY <1>1, FrameType DEF OfKey, Warns, BasicTypes
    <3>2. down'[s] = Append(down[s], Frame("ERROR", k))
      BY <1>1, <1>8, <2>1, <3>1, QueuedFacts DEF Good
    <3>3. LastWarns(down'[s], k)
      BY <1>1, <3>1, <3>2, AppendFrame
    <3> QED
      BY <3>3 DEF Follows, Tells
  <2>1a. CASE k \in Unsupported
    BY <2>1a DEF Follows
  <2>2. CASE down' # Queued(s, Frame("ERROR", k)) /\ k \notin Unsupported
    <3>1. \E x \in watches' : x.sock = s /\ x.key = k /\ x.live /\ x.at # "done"
      BY <1>8, <2>2 DEF GoroutineStep, Becomes, forgetSubscription, s, k
    <3>2. CASE ~Has(up[s], Leave(k))
      BY <1>1, <3>1, <3>2 DEF Follows, Watching, Running
    <3>3. CASE Has(up[s], Leave(k)) /\ s = socket /\ k \in Subscriptions
      <4>1. LastIs(up[s], Ask(k), Leave(k))
        BY <1>1, <1>8, <3>3, WatchAssumption DEF AsksInv, AsksForScreen, IsOpen, Good
      <4> QED
        BY <1>1, <4>1 DEF Follows
    <3> QED
      BY <1>8, <3>2, <3>3
  <2> QED
    BY <2>1, <2>1a, <2>2
\* A frame of the goroutine's key.
<1>9. ASSUME Good(s), k \in Subscriptions, ~UNCHANGED down PROVE Follows(s, k)'
  <2>1. PICK f \in Frames : f # SessionEnd /\ f.key = k /\ (w.live \/ f.late) /\ down' = Queued(s, f)
    BY <1>4, <1>9
  <2>2. down'[s] = Append(down[s], f) /\ OfKey(f, k) /\ down[s] \in Seq(Frames)
    BY <1>1, <1>9, <2>1, QueuedFacts DEF Good, OfKey, BasicTypes
  <2>3. CASE f.late
    <3>1. LastWarns(down'[s], k)
      BY <1>1, <2>2, <2>3, AppendFrame DEF Warns
    <3> QED
      BY <3>1 DEF Follows, Tells
  <2>4. CASE s # socket
    <3>1. AnyOf(down'[s], k)
      BY <1>1, <2>2, AppendFrame
    <3> QED
      BY <1>1, <2>4, <3>1 DEF Follows, Tells
  <2>5. CASE w.live /\ s = socket
    <3>1. CASE w.at # "done"
      BY <1>8, <1>9, <2>5, <3>1
    <3>1a. CASE k \in Unsupported
      BY <3>1a DEF Follows
    <3>2. CASE w.at = "done" /\ k \notin Unsupported
      <4>1. down' = Queued(s, Frame("ERROR", k))
        BY <1>9, <2>5, <3>2 DEF GoroutineStep, s, k
      <4>2. /\ Frame("ERROR", k) \in Frames /\ Frame("ERROR", k) # SessionEnd
            /\ OfKey(Frame("ERROR", k), k) /\ Warns(Frame("ERROR", k))
        BY <1>1, FrameType DEF OfKey, Warns
      <4>3. down'[s] = Append(down[s], Frame("ERROR", k))
        BY <1>1, <1>9, <4>1, <4>2, QueuedFacts DEF Good
      <4>4. LastWarns(down'[s], k)
        BY <1>1, <2>2, <4>2, <4>3, AppendFrame
      <4> QED
        BY <4>4 DEF Follows, Tells
    <3> QED
      BY <3>1, <3>1a, <3>2
  <2> QED
    BY <2>1, <2>3, <2>4, <2>5
<1>10. ASSUME Good(s), k \in Subscriptions, Follows(s, k) PROVE Follows(s, k)'
  <2>1. CASE UNCHANGED down
    <3>1. Tells(s, k) => Tells(s, k)'
      BY <1>1, <2>1 DEF Tells
    <3>2. ASSUME Watching(s, k) PROVE Follows(s, k)'
      <4>1. PICK v \in watches : v.sock = s /\ v.key = k /\ v.live /\ v.at # "done" /\ ~Has(up[s], Leave(k))
        BY <3>2 DEF Watching, Running
      <4>2. CASE v = w
        BY <1>8, <1>10, <4>1, <4>2
      <4>3. CASE v # w
        BY <1>1, <1>3, <4>1, <4>3 DEF Follows, Watching, Running
      <4> QED
        BY <4>2, <4>3
    <3> QED
      BY <1>1, <1>10, <3>1, <3>2 DEF Follows
  <2> QED
    BY <1>9, <1>10, <2>1
<1>11. \A t \in Sockets, l \in Subscriptions' : Good(t) /\ Follows(t, l) => Broken(t)' \/ (Good(t)' /\ Follows(t, l)')
  BY <1>1, <1>2, <1>7, <1>10
<1>12. \A l \in Subscriptions' :
         /\ l \in problem \cup old => l \in problem' \cup old'
         /\ IsOpen /\ l \notin Subscriptions => Broken(socket)' \/ (Good(socket)' /\ Follows(socket, l)')
         /\ IsOpen /\ Good(socket)' /\ AnyOf(down'[socket], l) => AnyOf(down[socket], l) \/ Follows(socket, l)'
  <2> SUFFICES ASSUME NEW l \in Subscriptions, IsOpen, Good(socket), AnyOf(down'[socket], l)
               PROVE  AnyOf(down[socket], l) \/ Follows(socket, l)'
    <3>1. IsOpen => socket \in Sockets
      BY DEF IsOpen, BasicTypes
    <3> QED
      BY <1>1, <1>2, <3>1
  <2>1. socket \in Sockets
    BY DEF IsOpen, BasicTypes
  <2>2. CASE socket # s \/ l # k
    BY <1>1, <1>5, <1>6, <2>1, <2>2
  <2>3. CASE socket = s /\ l = k
    <3>1. CASE UNCHANGED down
      BY <3>1
    <3>2. CASE ~UNCHANGED down
      <4>1. Good(s) /\ k \in Subscriptions
        BY <2>3
      <4>2. Follows(s, k)'
        BY <1>9, <3>2, <4>1
      <4> QED
        BY <1>1, <2>3, <4>2
    <3> QED
      BY <3>1, <3>2
  <2> QED
    BY <2>2, <2>3
<1>13. \A t \in Sockets : (Broken(t) => Broken(t)') /\ (Good(t)' => Good(t))
  BY <1>2
<1> QED
  BY <1>1, <1>11, <1>12, <1>13, FollowsKept

\* Every step keeps the lists on screen followed or told of.
LEMMA FollowStep ==
    ASSUME BasicTypes, AsksInv, FollowInv, [Next]_vars
    PROVE  FollowInv'
<1>1. ASSUME NEW k \in Keys, Subscribe(k) \/ Unsubscribe(k) PROVE FollowInv'
  BY <1>1, SubscribeFollows, UnsubscribeFollows
<1>2. CASE TimerFires
  <2>1. Connect /\ UNCHANGED <<listeners, problem, old, conn, watches>>
    BY <1>2 DEF TimerFires, serverVars
  <2>2. CASE HasSocket
    <3>1. UNCHANGED <<socket, ready, link, up, down>>
      BY <2>1, <2>2 DEF Connect, wireVars
    <3> QED
      BY <2>1, <3>1, FollowsSame
  <2>3. CASE ~HasSocket
    <3>1. ~IsOpen'
      BY <2>1, <2>3, ConnectFacts DEF IsOpen
    <3> QED
      BY <3>1, FollowsNothing
  <2> QED
    BY <2>2, <2>3
<1>3. CASE SessionOver
  BY <1>3, FollowsNothing DEF SessionOver, IsOpen
<1>4. ASSUME NEW s \in Sockets, ClosedAbnormally(s) \/ ClosedBySession(s) PROVE FollowInv'
  BY <1>4, FollowsNothing DEF ClosedAbnormally, ClosedBySession, IsOpen
<1>5. ASSUME NEW s \in Sockets, Accept(s) PROVE FollowInv'
  BY <1>5, FollowsSame DEF Accept, clientVars, wireVars
<1>6. CASE SessionStands \/ UNCHANGED vars
  BY <1>6, FollowsSame DEF SessionStands, vars, clientVars, wireVars, serverVars
<1> QED
  BY <1>1, <1>2, <1>3, <1>4, <1>5, <1>6, OpenedFollows, ReceiveFollows, ServeFollows, LinkFollows,
     GoroutineFollows, GoroutineFacts DEF Next, Browser, Server

-----------------------------------------------------------------------------
(* The theorems.                                                           *)

\* The invariant holds at the start and is kept by every step.
THEOREM WatchInvariant == Spec => []WInv
<1>1. Init => WInv
  <2> SUFFICES ASSUME Init PROVE WInv
    OBVIOUS
  <2>0. Subscriptions = {} /\ IsFiniteSet({}) /\ Cardinality({}) = 0
    BY FS_EmptySet DEF Init, Subscriptions
  <2>1. BasicTypes
    <3>1. /\ up \in [Sockets -> Seq(Requests)] /\ down \in [Sockets -> Seq(Frames)]
          /\ place \in [Sockets -> [Keys -> SubIds \cup {0}]] /\ listeners \in [Keys -> 0 .. MaxListeners]
      BY WatchAssumption DEF Init
    <3>2. /\ ready \in [Sockets -> {"free", "connecting", "open", "closing"}]
          /\ link \in [Sockets -> BOOLEAN] /\ conn \in [Sockets -> {"none", "up", "ended"}]
      BY DEF Init
    <3>3. IsFiniteSet(Subscriptions)
      BY <2>0
    <3>4. /\ socket \in Sockets \cup {None} /\ timer \in BOOLEAN /\ signedOut \in BOOLEAN
          /\ problem \subseteq Keys /\ old \subseteq Keys /\ watches \subseteq Watches
      BY DEF Init
    <3>5. asking \in Nat /\ drops \in 0 .. MaxDrops /\ calls \in 0 .. MaxSubscribes
      BY WatchAssumption DEF Init
    <3> QED
      BY <3>1, <3>2, <3>3, <3>4, <3>5 DEF BasicTypes
  <2>2. OneOfEach /\ LiveWatchHoldsPlace /\ NoPlaceLeaks
    BY DEF Init, OneOfEach, LiveWatchHoldsPlace, NoPlaceLeaks, Places
  <2>3. \A s \in Sockets : ~EndPending(s)
    BY EmptyHas DEF Init, EndPending
  <2>4. AskingPaid
    <3> DEFINE E == {s \in Sockets : EndPending(s)}
    <3>1. E = {}
      BY <2>3
    <3> HIDE DEF E
    <3>2. IsFiniteSet(E) /\ Cardinality(E) = 0
      BY <2>0, <3>1
    <3>3. asking + Cardinality(E) <= drops
      BY <3>2 DEF Init
    <3> QED
      BY <3>2, <3>3 DEF AskingPaid, E
  <2>5. EndsOnce
    BY <2>3 DEF Init, EndsOnce
  <2>6. SocketWillReopen
    BY <2>0 DEF SocketWillReopen
  <2>7. AsksAlternate
    BY EmptyFacts DEF Init, AsksAlternate
  <2>8. NothingAsked
    BY DEF Init, NothingAsked
  <2>9. ~IsOpen
    BY DEF Init, IsOpen
  <2> QED
    BY <2>1, <2>2, <2>4, <2>5, <2>6, <2>7, <2>8, <2>9 DEF WInv, AsksForScreen, ScreenFollowed, FramesFollowed
<1>2. WInv /\ [Next]_vars => WInv'
  <2> SUFFICES ASSUME WInv, [Next]_vars PROVE WInv'
    OBVIOUS
  <2>1. BasicTypes'
    BY TypesStep DEF WInv
  <2>2. OneOfEach' /\ LiveWatchHoldsPlace' /\ NoPlaceLeaks'
    BY PlacesStep DEF WInv
  <2>3. AskingPaid' /\ EndsOnce'
    BY AskingStep, EndsOnceStep DEF WInv
  <2>4. SocketWillReopen'
    BY ReopenStep DEF WInv
  <2>5. AsksInv /\ FollowInv
    BY DEF WInv, AsksInv, FollowInv
  <2>6. NothingAsked' /\ AsksAlternate' /\ AsksForScreen'
    BY <2>5, AsksStep DEF WInv, AsksInv
  <2>7. ScreenFollowed' /\ FramesFollowed'
    BY <2>5, FollowStep DEF WInv, FollowInv
  <2> QED
    BY <2>1, <2>2, <2>3, <2>4, <2>6, <2>7 DEF WInv
<1> QED
  BY <1>1, <1>2, PTL DEF Spec

\* Type correctness, and with it that the browser asks about its session no
\* more often than connections ended (liveSessionEnded).
THEOREM WatchTypes == Spec => []TypeOK
<1>1. WInv => TypeOK
  <2> SUFFICES ASSUME WInv PROVE asking \in 0 .. MaxDrops
    BY DEF WInv, BasicTypes, TypeOK
  <2> DEFINE E == {s \in Sockets : EndPending(s)}
  <2>1. asking + Cardinality(E) <= drops /\ IsFiniteSet(E) /\ asking \in Nat /\ drops \in 0 .. MaxDrops
    BY DEF WInv, AskingPaid, BasicTypes
  <2>2. Cardinality(E) \in Nat
    BY <2>1, FS_CardinalityType
  <2> HIDE DEF E
  <2> QED
    BY <2>1, <2>2, WatchAssumption
<1> QED
  BY <1>1, WatchInvariant, PTL

\* A running watch holds the place of its key on a connection that is up
\* (forgetSubscription, CLOSE and the deferred cleanup of HandleWebSocket).
THEOREM WatchHoldsPlace == Spec => []LiveWatchHoldsPlace
<1>1. WInv => LiveWatchHoldsPlace
  BY DEF WInv
<1> QED
  BY <1>1, WatchInvariant, PTL

\* A place that is taken belongs to a goroutine that will give it back.
THEOREM PlacesReturn == Spec => []NoPlaceLeaks
<1>1. WInv => NoPlaceLeaks
  BY DEF WInv
<1> QED
  BY <1>1, WatchInvariant, PTL

\* Something will open a socket while a list is on screen (scheduleReconnect).
THEOREM SocketReturns == Spec => []SocketWillReopen
<1>1. WInv => SocketWillReopen
  BY DEF WInv
<1> QED
  BY <1>1, WatchInvariant, PTL

\* Once all is served, the current socket holds places for lists on screen only.
THEOREM PlacesFollowScreen == Spec => []PlacesOnlyForScreen
<1>1. WInv => PlacesOnlyForScreen
  <2> SUFFICES ASSUME WInv, Quiet, IsOpen, NEW k \in Keys, place[socket][k] # 0 PROVE k \in Subscriptions
    BY DEF PlacesOnlyForScreen, Places
  <2>1. socket \in Sockets /\ link[socket] /\ up[socket] = <<>>
    BY DEF WInv, BasicTypes, IsOpen, Quiet
  <2>2. k \notin Subscriptions => LastIs(up[socket], Leave(k), Ask(k))
    BY <2>1 DEF WInv, AsksForScreen
  <2> QED
    BY <2>1, <2>2, EmptyFacts
<1> QED
  BY <1>1, WatchInvariant, PTL

\* Once nothing is on its way, every list on screen, but for the kinds this
\* socket does not watch, has a live watch or says that it may be old, after
\* any number of reconnects.
THEOREM ListsFollowed == Spec => []ListsFollowedOrTold
<1>1. WInv => ListsFollowedOrTold
  <2> SUFFICES ASSUME WInv, Quiet, IsOpen, NEW k \in Subscriptions \ Unsupported
               PROVE  Watched(k) \/ k \in problem \cup old
    BY DEF ListsFollowedOrTold
  <2>1. \A s \in Sockets : ~Broken(s) /\ (Good(s) => up[s] = <<>> /\ down[s] = <<>>)
    BY DEF Quiet, Broken, Good
  <2>2. ASSUME NEW s \in Sockets, Good(s), Follows(s, k) PROVE Watched(k)
    <3>1. up[s] = <<>> /\ down[s] = <<>>
      BY <2>1, <2>2
    <3>2. ~LastIs(up[s], Ask(k), Leave(k)) /\ ~Tells(s, k)
      BY <3>1 DEF LastIs, Tells, AnyOf, LastWarns
    <3>3. Watching(s, k)
      BY <2>2, <3>2 DEF Follows
    <3> QED
      BY <2>2, <3>3 DEF Watching, Running, Watched, Good
  <2> QED
    BY <2>1, <2>2 DEF WInv, ScreenFollowed
<1> QED
  BY <1>1, WatchInvariant, PTL
=============================================================================

------------------------------- MODULE AuditLog -------------------------------
(***************************************************************************)
(* The audit log of auth-service (table auth_audit_logs) and what works on *)
(* it in the background, in every replica: the sealer that chains rows,    *)
(* the anchorer that writes the head of the chain to a sink, the           *)
(* dispatcher that copies rows to sinks, and the purge of old rows.        *)
(*                                                                         *)
(* One action is one statement, or one transaction, of the database, or    *)
(* one call of a sink.  A hash is the sequence of row ids it covers: the   *)
(* canonical form starts with the id, so equal hashes mean equal chains.   *)
(***************************************************************************)
EXTENDS Naturals, Sequences, FiniteSets, SequencesExt

CONSTANTS
    Replicas,       \* processes of auth-service
    Calls,          \* AnchorOnce calls of a replica: its schedule, and admins by hand
    Sinks,          \* the configured sinks
    FromStart,      \* the ones that send from the beginning of the log
    Integrity,      \* cfg.AuditIntegrity.Enabled: rows are sealed and anchored
    Kept(_),        \* the ids whose rows a sink's filter keeps
    SealLimit,      \* rows in one sealing transaction
    BatchSize,      \* rows in one DELETE of the purge
    ReadPage,       \* rows in one page of the dispatcher
    MaxEvents,      \* events in one send
    AuditDays,      \* the retention window, in clock units; 0 keeps everything
    Settle,         \* the dispatcher reads rows older than this
    MaxOpen,        \* bound: how long an insert can take to commit
    MaxId,          \* bound: ids that the table can get
    MaxAnchors,     \* bound: anchors, those of the calls under way included
    Horizon,        \* bound: the clock
    None

Ids == 1..MaxId

ASSUME LimitsAssumption ==
    /\ SealLimit \in Nat \ {0} /\ BatchSize \in Nat \ {0}
    /\ ReadPage \in Nat \ {0} /\ MaxEvents \in Nat \ {0}

ASSUME WindowsAssumption ==
    /\ AuditDays \in Nat /\ Settle \in Nat /\ MaxOpen \in Nat
    /\ MaxId \in Nat /\ MaxAnchors \in Nat /\ Horizon \in Nat

ASSUME SinksAssumption ==
    /\ Integrity \in BOOLEAN
    /\ FromStart \subseteq Sinks
    /\ \A s \in Sinks : Kept(s) \subseteq Ids

Hash    == Seq(Ids)
Genesis == <<>>

\* The columns chain_seq (0 for NULL), prev_hash and row_hash.
Row == [created : Nat, seq : Nat, prev : Hash, hash : Hash]

Anchor == [from : Nat, to : Nat, rows : Nat, head : Hash]

ASSUME NoneAssumption ==
    /\ None \notin Nat /\ None \notin Row /\ None \notin Replicas

VARIABLES
    now,
    nextId,     \* the sequence of the id column
    open,       \* created_at of the rows inserted but not committed
    log,        \* the committed rows by id, None without one
    anchors,    \* audit_anchors, in the order of id
    cursor,     \* audit_sink_cursors.last_id by sink, None without a row
    lock,       \* who holds the dispatcher's advisory lock
    run,        \* the dispatcher's loop for each replica and sink
    purge,      \* the purge each replica is in
    anchoring,  \* how far each replica's calls of AnchorOnce are
    sent,       \* history: ids that each sink has taken
    start,      \* history: the cursor each sink began with
    purged,     \* history: ids that a purge deleted
    cut         \* history: a purge deleted the head of the chain

tableVars  == <<now, nextId, open, log>>
sinkVars   == <<cursor, lock, run, sent, start>>
vars == <<tableVars, anchors, sinkVars, purge, anchoring, purged, cut>>

Off      == [at |-> "off"]
Starting == [at |-> "start"]

Loops ==
    {Off, Starting}
    \cup [at : {"cursor"}, first : Nat]
    \cup [at : {"wait"}, cursor : Nat]
    \cup [at : {"send"}, cursor : Nat, last : Ids, todo : Seq(Ids)]

Purges ==
    {Off}
    \cup [at : {"floor"}, cutoff : Nat, minKept : Nat]
    \cup [at : {"delete"}, cutoff : Nat, minKept : Nat, floor : Nat]
    \cup [at : {"record"}]

ChainEnd == [seq : Nat, hash : Hash]

Anchorings ==
    {Off}
    \cup [at : {"head"}, head : ChainEnd]
    \cup [at : {"insert"}, anchor : Anchor]
    \cup [at : {"record"}]

TypeOK ==
    /\ now \in Nat /\ nextId \in Nat \ {0}
    /\ open \in [Ids -> Nat \cup {None}]
    /\ log \in [Ids -> Row \cup {None}]
    /\ anchors \in Seq(Anchor)
    /\ cursor \in [Sinks -> Nat \cup {None}]
    /\ lock \in Replicas \cup {None}
    /\ run \in [Replicas \X Sinks -> Loops]
    /\ purge \in [Replicas -> Purges]
    /\ anchoring \in [Replicas \X Calls -> Anchorings]
    /\ sent \in [Sinks -> SUBSET Ids]
    /\ start \in [Sinks -> Nat]
    /\ purged \in SUBSET Ids
    /\ cut \in BOOLEAN

-----------------------------------------------------------------------------
(* What the queries see.                                                   *)

Committed == {i \in Ids : log[i] # None}
Sealed    == {i \in Committed : log[i].seq # 0}
Unsealed  == Committed \ Sealed

\* The ids of S in order, at most n of them: the one sequence that ORDER BY id
\* LIMIT n gives, as a set.
FirstIds(S, n) ==
    {q \in [1..(IF Cardinality(S) < n THEN Cardinality(S) ELSE n) -> S] :
        /\ \A j, k \in DOMAIN q : j < k => q[j] < q[k]
        /\ \A i \in S \ Range(q), k \in DOMAIN q : q[k] < i}

MaxSeq == Max({0} \cup {log[i].seq : i \in Sealed})
MinSeq == IF Sealed = {} THEN 0 ELSE Min({log[i].seq : i \in Sealed})

At(p) == CHOOSE i \in Sealed : log[i].seq = p

\* readHead.
ChainHead == IF Sealed = {} THEN [seq |-> 0, hash |-> Genesis]
             ELSE [seq |-> MaxSeq, hash |-> log[At(MaxSeq)].hash]

\* now - AuditDays; no row is older than time 0.
Cutoff == IF now > AuditDays THEN now - AuditDays ELSE 0

\* COALESCE(MIN(chain_seq), MaxInt64) over the rows that stay; MaxId + 1 is
\* above every position.
MinKept(cutoff) ==
    LET kept == {log[i].seq : i \in {j \in Sealed : log[j].created >= cutoff}}
    IN IF kept = {} THEN MaxId + 1 ELSE Min(kept)

\* Mutant of Floor: a sink without a cursor yet holds nothing back.
FloorOfCursors ==
    LET known == {s \in Sinks : cursor[s] # None}
    IN IF known = {} THEN MaxId ELSE Min({cursor[s] : s \in known})

\* auditsink.Floor, or no limit without sinks.
Floor == IF Sinks = {} THEN MaxId
         ELSE IF \E s \in Sinks : cursor[s] = None THEN 0
         ELSE Min({cursor[s] : s \in Sinks})

MaxID == Max({0} \cup Committed)

-----------------------------------------------------------------------------
Init ==
    /\ now = 0 /\ nextId = 1
    /\ open = [i \in Ids |-> None]
    /\ log = [i \in Ids |-> None]
    /\ anchors = <<>>
    /\ cursor = [s \in Sinks |-> None]
    /\ lock = None
    /\ run = [k \in Replicas \X Sinks |-> Off]
    /\ purge = [r \in Replicas |-> Off]
    /\ anchoring = [k \in Replicas \X Calls |-> Off]
    /\ sent = [s \in Sinks |-> {}]
    /\ start = [s \in Sinks |-> 0]
    /\ purged = {} /\ cut = FALSE

\* Inserts do not stay open for longer than MaxOpen.
Tick ==
    /\ now < Horizon
    /\ \A i \in Ids : open[i] # None => now < open[i] + MaxOpen
    /\ now' = now + 1
    /\ UNCHANGED <<nextId, open, log, anchors, sinkVars, purge, anchoring, purged, cut>>

NewRow(t) == [created |-> t, seq |-> 0, prev |-> Genesis, hash |-> Genesis]

\* A service inserts a record: the id is taken and created_at set now, the
\* row is there for others when the transaction commits.
InsertRecord ==
    /\ nextId <= MaxId
    /\ open' = [open EXCEPT ![nextId] = now]
    /\ nextId' = nextId + 1
    /\ UNCHANGED <<now, log, anchors, sinkVars, purge, anchoring, purged, cut>>

CommitRecord(i) ==
    /\ open[i] # None
    /\ log' = [log EXCEPT ![i] = NewRow(open[i])]
    /\ open' = [open EXCEPT ![i] = None]
    /\ UNCHANGED <<now, nextId, anchors, sinkVars, purge, anchoring, purged, cut>>

\* The transaction rolls back: its id is never used.
AbortRecord(i) ==
    /\ open[i] # None
    /\ open' = [open EXCEPT ![i] = None]
    /\ UNCHANGED <<now, nextId, log, anchors, sinkVars, purge, anchoring, purged, cut>>

\* The record that a background job writes of its own run; failing to write
\* it is logged and nothing more.
WriteOwnRecord ==
    \/ /\ nextId <= MaxId
       /\ open' = [open EXCEPT ![nextId] = now]
       /\ nextId' = nextId + 1
    \/ UNCHANGED <<open, nextId>>

-----------------------------------------------------------------------------
(* The sealer: SealBatch, one transaction under an advisory lock.          *)

\* Mutant of SealRow: every row of the batch is chained to the old head.
SealRowOntoHead(head, q, k) ==
    [created |-> log[q[k]].created, seq |-> head.seq + k,
     prev |-> head.hash, hash |-> Append(head.hash, q[k])]

\* sealRows: q chained onto head, the row at index k of q.
SealRow(head, q, k) ==
    [created |-> log[q[k]].created, seq |-> head.seq + k,
     prev |-> head.hash \o SubSeq(q, 1, k - 1), hash |-> head.hash \o SubSeq(q, 1, k)]

SealBatch ==
    /\ Integrity
    /\ Unsealed # {}
    /\ \E q \in FirstIds(Unsealed, SealLimit) :
         log' = [i \in Ids |-> IF \E k \in DOMAIN q : q[k] = i
                              THEN SealRow(ChainHead, q, CHOOSE k \in DOMAIN q : q[k] = i)
                              ELSE log[i]]
    /\ UNCHANGED <<now, nextId, open, anchors, sinkVars, purge, anchoring, purged, cut>>

-----------------------------------------------------------------------------
(* The purge: the oldest position that stays, the floor of the sinks, and  *)
(* DELETEs until one deletes less than a batch.                            *)

PurgeReadsMinKept(r) ==
    /\ AuditDays > 0
    /\ purge[r] = Off
    /\ purge' = [purge EXCEPT ![r] = [at |-> "floor", cutoff |-> Cutoff, minKept |-> MinKept(Cutoff)]]
    /\ UNCHANGED <<tableVars, anchors, sinkVars, anchoring, purged, cut>>

PurgeReadsFloor(r) ==
    /\ purge[r].at = "floor"
    /\ purge' = [purge EXCEPT ![r] = [at |-> "delete", cutoff |-> purge[r].cutoff,
                                      minKept |-> purge[r].minKept, floor |-> Floor]]
    /\ UNCHANGED <<tableVars, anchors, sinkVars, anchoring, purged, cut>>

\* Mutant of Doomed: the chain does not hold a row back.
DoomedByAge(p) == {i \in Committed : log[i].created < p.cutoff /\ i <= p.floor}

\* The rows a DELETE of this purge may take.
Doomed(p) == {i \in Committed : /\ log[i].created < p.cutoff
                                /\ i <= p.floor
                                /\ log[i].seq < p.minKept}

PurgeDeletes(r) ==
    /\ purge[r].at = "delete"
    /\ \E q \in FirstIds(Doomed(purge[r]), BatchSize) :
         /\ log' = [i \in Ids |-> IF i \in Range(q) THEN None ELSE log[i]]
         /\ purged' = purged \cup Range(q)
         /\ cut' = (cut \/ \E i \in Range(q) \cap Sealed : log[i].seq = MaxSeq)
         /\ purge' = IF Len(q) < BatchSize THEN [purge EXCEPT ![r] = [at |-> "record"]] ELSE purge
    /\ UNCHANGED <<now, nextId, open, anchors, sinkVars, anchoring>>

PurgeRecords(r) ==
    /\ purge[r].at = "record"
    /\ WriteOwnRecord
    /\ purge' = [purge EXCEPT ![r] = Off]
    /\ UNCHANGED <<now, log, anchors, sinkVars, anchoring, purged, cut>>

\* A statement fails: the run ends with its record.
PurgeFails(r) ==
    /\ purge[r].at \in {"floor", "delete"}
    /\ purge' = [purge EXCEPT ![r] = [at |-> "record"]]
    /\ UNCHANGED <<tableVars, anchors, sinkVars, anchoring, purged, cut>>

-----------------------------------------------------------------------------
(* The anchorer: AnchorOnce, scheduled in every replica and by hand; k is   *)
(* the replica and the call.                                               *)

AnchorReadsHead(k) ==
    /\ Integrity
    /\ Len(anchors) + Cardinality({j \in Replicas \X Calls : anchoring[j].at \in {"head", "insert"}}) < MaxAnchors
    /\ anchoring[k] = Off
    /\ anchoring' = [anchoring EXCEPT ![k] = [at |-> "head", head |-> ChainHead]]
    /\ UNCHANGED <<tableVars, anchors, sinkVars, purge, purged, cut>>

\* Mutant of AnchorFrom: one position is left out after the last anchor.
AnchorFromNext == IF anchors # <<>> THEN anchors[Len(anchors)].to + 2
                  ELSE IF MinSeq > 0 THEN MinSeq ELSE 1

\* From the end of the last anchor, or from the oldest sealed row.
AnchorFrom == IF anchors # <<>> THEN anchors[Len(anchors)].to + 1
              ELSE IF MinSeq > 0 THEN MinSeq ELSE 1

\* Mutant of AnchorOf: a head below the last anchor is not looked for.
AnchorToHead(from, head) ==
    [from |-> from, to |-> head.seq, rows |-> (head.seq + 1) - from, head |-> head.hash]

\* A head below the last anchor gives an empty digest that ends where that
\* anchor ended.
AnchorOf(from, head) ==
    LET to == IF head.seq + 1 < from THEN from - 1 ELSE head.seq
    IN [from |-> from, to |-> to, rows |-> (to + 1) - from, head |-> head.hash]

\* LastAnchor (and Bounds when there is none), and the digest is put into the
\* sink.
AnchorPutsObject(k) ==
    /\ anchoring[k].at = "head"
    /\ anchoring' = [anchoring EXCEPT ![k] = [at |-> "insert", anchor |-> AnchorOf(AnchorFrom, anchoring[k].head)]]
    /\ UNCHANGED <<tableVars, anchors, sinkVars, purge, purged, cut>>

InsertAnchor(k) ==
    /\ anchoring[k].at = "insert"
    /\ anchors' = Append(anchors, anchoring[k].anchor)
    /\ anchoring' = [anchoring EXCEPT ![k] = [at |-> "record"]]
    /\ UNCHANGED <<tableVars, sinkVars, purge, purged, cut>>

AnchorRecords(k) ==
    /\ anchoring[k].at = "record"
    /\ WriteOwnRecord
    /\ anchoring' = [anchoring EXCEPT ![k] = Off]
    /\ UNCHANGED <<now, log, anchors, sinkVars, purge, purged, cut>>

\* A query or the sink fails: no anchor, but a record of the failure.
AnchorFails(k) ==
    /\ anchoring[k].at \in {"head", "insert"}
    /\ anchoring' = [anchoring EXCEPT ![k] = [at |-> "record"]]
    /\ UNCHANGED <<tableVars, anchors, sinkVars, purge, purged, cut>>

-----------------------------------------------------------------------------
(* The dispatcher.                                                         *)

\* The leader starts one loop per sink.
TryLock(r) ==
    /\ Sinks # {}
    /\ lock = None
    /\ \A s \in Sinks : run[<<r, s>>] = Off
    /\ lock' = r
    /\ run' = [k \in Replicas \X Sinks |-> IF k[1] = r THEN Starting ELSE run[k]]
    /\ UNCHANGED <<tableVars, anchors, cursor, sent, start, purge, anchoring, purged, cut>>

\* The connection that holds the lock breaks: the server lets the lock go.
LoseLock ==
    /\ lock # None
    /\ lock' = None
    /\ UNCHANGED <<tableVars, anchors, cursor, run, sent, start, purge, anchoring, purged, cut>>

\* The replica notices, by the next ping, and stops its loops.  Until then it
\* goes on, next to the new leader.
NoticeLost(r) ==
    /\ lock # r
    /\ \E s \in Sinks : run[<<r, s>>] # Off
    /\ run' = [k \in Replicas \X Sinks |-> IF k[1] = r THEN Off ELSE run[k]]
    /\ UNCHANGED <<tableVars, anchors, cursor, lock, sent, start, purge, anchoring, purged, cut>>

\* Where a new cursor is to start: behind the rows there are, or at 0 for a
\* sink that sends everything and also when the query fails.
FirstCursor(r, s) ==
    /\ run[<<r, s>>] = Starting
    /\ \E first \in {0} \cup (IF s \in FromStart THEN {} ELSE {MaxID}) :
         run' = [run EXCEPT ![<<r, s>>] = [at |-> "cursor", first |-> first]]
    /\ UNCHANGED <<tableVars, anchors, cursor, lock, sent, start, purge, anchoring, purged, cut>>

\* INSERT ... ON CONFLICT DO NOTHING and the SELECT; repeated until it succeeds.
EnsureCursor(r, s) ==
    LET k == <<r, s>>
        at == IF cursor[s] = None THEN run[k].first ELSE cursor[s] IN
    /\ run[k].at = "cursor"
    /\ cursor' = [cursor EXCEPT ![s] = at]
    /\ start' = IF cursor[s] = None THEN [start EXCEPT ![s] = at] ELSE start
    /\ run' = [run EXCEPT ![k] = [at |-> "wait", cursor |-> at]]
    /\ UNCHANGED <<tableVars, anchors, lock, sent, purge, anchoring, purged, cut>>

\* After: past the cursor and older than the settle delay, in order of id.
Page(from) == FirstIds({i \in Committed : i > from /\ log[i].created + Settle < now}, ReadPage)

\* What the filter of the sink keeps of the page is to be sent.
ReadRows(r, s) ==
    LET k == <<r, s>> IN
    /\ run[k].at = "wait"
    /\ \E page \in Page(run[k].cursor) :
         /\ page # <<>>
         /\ \E todo \in FirstIds(Range(page) \cap Kept(s), ReadPage) :
              run' = [run EXCEPT ![k] = [at |-> "send", cursor |-> run[k].cursor,
                                         last |-> page[Len(page)], todo |-> todo]]
    /\ UNCHANGED <<tableVars, anchors, cursor, lock, sent, start, purge, anchoring, purged, cut>>

\* The next chunk goes out.
SendChunk(r, s) ==
    LET k == <<r, s>>
        todo == run[k].todo
        n == IF Len(todo) < MaxEvents THEN Len(todo) ELSE MaxEvents IN
    /\ run[k].at = "send"
    /\ todo # <<>>
    /\ sent' = [sent EXCEPT ![s] = @ \cup Range(SubSeq(todo, 1, n))]
    /\ run' = [run EXCEPT ![k].todo = SubSeq(todo, n + 1, Len(todo))]
    /\ UNCHANGED <<tableVars, anchors, cursor, lock, start, purge, anchoring, purged, cut>>

\* UPDATE ... WHERE last_id < $2, and the loop goes on from there.
AdvanceTo(r, s, id) ==
    /\ cursor' = [cursor EXCEPT ![s] = IF @ < id THEN id ELSE @]
    /\ run' = [run EXCEPT ![<<r, s>>] = [at |-> "wait", cursor |-> id]]

\* Mutant of SendFails: the cursor stops on the event that failed.
SendFailsPastEvent(r, s) ==
    LET k == <<r, s>> IN
    /\ run[k].at = "send"
    /\ run[k].todo # <<>>
    /\ AdvanceTo(r, s, run[k].todo[1])
    /\ UNCHANGED <<tableVars, anchors, lock, sent, start, purge, anchoring, purged, cut>>

\* A chunk fails: the cursor stops just before its first event.
SendFails(r, s) ==
    LET k == <<r, s>>
        upTo == run[k].todo[1] - 1 IN
    /\ run[k].at = "send"
    /\ run[k].todo # <<>>
    /\ IF upTo > run[k].cursor
         THEN AdvanceTo(r, s, upTo)
         ELSE /\ run' = [run EXCEPT ![k] = [at |-> "wait", cursor |-> run[k].cursor]]
              /\ UNCHANGED cursor
    /\ UNCHANGED <<tableVars, anchors, lock, sent, start, purge, anchoring, purged, cut>>

\* Every chunk went out: the cursor moves past the whole page.
Advance(r, s) ==
    /\ run[<<r, s>>].at = "send"
    /\ run[<<r, s>>].todo = <<>>
    /\ AdvanceTo(r, s, run[<<r, s>>].last)
    /\ UNCHANGED <<tableVars, anchors, lock, sent, start, purge, anchoring, purged, cut>>

\* The update of the cursor fails: the same page is read again.
AdvanceFails(r, s) ==
    /\ run[<<r, s>>].at = "send"
    /\ run' = [run EXCEPT ![<<r, s>>] = [at |-> "wait", cursor |-> run[<<r, s>>].cursor]]
    /\ UNCHANGED <<tableVars, anchors, cursor, lock, sent, start, purge, anchoring, purged, cut>>

-----------------------------------------------------------------------------
\* The replica stops and starts again: its jobs and its lock are gone.
Restart(r) ==
    /\ lock' = IF lock = r THEN None ELSE lock
    /\ run' = [k \in Replicas \X Sinks |-> IF k[1] = r THEN Off ELSE run[k]]
    /\ purge' = [purge EXCEPT ![r] = Off]
    /\ anchoring' = [k \in Replicas \X Calls |-> IF k[1] = r THEN Off ELSE anchoring[k]]
    /\ UNCHANGED <<tableVars, anchors, cursor, sent, start, purged, cut>>

Table == InsertRecord \/ (\E i \in Ids : CommitRecord(i) \/ AbortRecord(i))

Purger(r) ==
    \/ PurgeReadsMinKept(r)
    \/ PurgeReadsFloor(r)
    \/ PurgeDeletes(r)
    \/ PurgeRecords(r)
    \/ PurgeFails(r)

Anchorer(r) ==
    \E c \in Calls :
        \/ AnchorReadsHead(<<r, c>>)
        \/ AnchorPutsObject(<<r, c>>)
        \/ InsertAnchor(<<r, c>>)
        \/ AnchorRecords(<<r, c>>)
        \/ AnchorFails(<<r, c>>)

Dispatcher(r) ==
    \/ TryLock(r)
    \/ NoticeLost(r)
    \/ \E s \in Sinks :
         \/ FirstCursor(r, s)
         \/ EnsureCursor(r, s)
         \/ ReadRows(r, s)
         \/ SendChunk(r, s)
         \/ SendFails(r, s)
         \/ Advance(r, s)
         \/ AdvanceFails(r, s)

Next ==
    \/ Tick
    \/ Table
    \/ SealBatch
    \/ LoseLock
    \/ \E r \in Replicas : Purger(r) \/ Anchorer(r) \/ Dispatcher(r) \/ Restart(r)

Spec == Init /\ [][Next]_vars

-----------------------------------------------------------------------------
(* Properties.                                                             *)

\* Verifier.Verify over the positions from..to: what it finds first.
Verify(from, to) ==
    LET there == {log[i].seq : i \in {j \in Sealed : log[j].seq \in from..to}} IN
    IF \E p \in there : log[At(p)].hash # Append(log[At(p)].prev, At(p)) THEN "hash_mismatch"
    ELSE IF there # {} /\ there # Min(there)..Max(there) THEN "gap"
    ELSE IF \E p \in there : p + 1 \in there /\ log[At(p + 1)].prev # log[At(p)].hash THEN "chain_break"
    ELSE "ok"

\* The rows inside the retention window verify, from the oldest of them to the
\* head, whatever was sealed late, purged or purged half way: what the minKept
\* of the purge is for.  It takes inserts that commit within the window: one
\* that was open for longer is sealed after younger rows and purged from
\* between them.
WindowVerifies ==
    LET fresh == {log[i].seq : i \in {j \in Sealed : log[j].created >= Cutoff}} IN
    MaxOpen <= AuditDays /\ fresh # {} => Verify(Min(fresh), MaxSeq) = "ok"

\* No two rows share a position, and a row that follows another one in the
\* chain carries its hash: purging, even of the head, never makes a chain
\* break among the rows that are left.
ChainLinked ==
    \A i, j \in Sealed :
        /\ log[i].seq = log[j].seq => i = j
        /\ log[j].seq = log[i].seq + 1 => log[j].prev = log[i].hash

\* An anchor speaks of the chain that is there: the row at its last position,
\* when it is still kept, has the hash the anchor recorded, and the anchors
\* leave out no kept row between the first position they speak of and the last,
\* whichever replica took them and however its reads interleaved with seals
\* and purges.  A purge that took the head of the chain is the exception, see
\* AnchorsStayEvidence.
AnchorsMatch ==
    ~cut =>
        \A k \in 1..Len(anchors), i \in Sealed :
            /\ anchors[k].rows > 0 /\ log[i].seq = anchors[k].to => log[i].hash = anchors[k].head
            /\ log[i].seq \in anchors[1].from..anchors[k].to =>
                 \E l \in 1..Len(anchors) : log[i].seq \in anchors[l].from..anchors[l].to

\* Delivery is at least once: a sink's cursor never passes a row the sink has
\* to get and has not got, while two replicas send, sends fail and inserts
\* commit late, but within the settle delay.
CursorMeansSent ==
    MaxOpen <= Settle =>
    \A s \in Sinks : cursor[s] # None =>
        \A i \in Kept(s) : (i \in Committed \cup purged /\ start[s] < i /\ i <= cursor[s]) => i \in sent[s]

\* The purge takes no row that a sink still has to copy.
PurgedWereSent ==
    MaxOpen <= Settle =>
    \A s \in Sinks : \A i \in Kept(s) \cap purged : start[s] < i => i \in sent[s]

\* Retention deletes a prefix of the chain: what is left has no gap.
OnlyPrefixGoes == Verify(MinSeq, MaxSeq) = "ok"

\* Anchors stay evidence for the range they were taken of.
AnchorsStayEvidence ==
    \A k \in 1..Len(anchors), i \in Sealed :
        anchors[k].rows > 0 /\ log[i].seq = anchors[k].to => log[i].hash = anchors[k].head
===============================================================================

---------------------------- MODULE AuditLogProofs ----------------------------
(***************************************************************************)
(* For every number of replicas, calls and sinks, every limit and every    *)
(* bound: the chain, the anchors, the cursors and the purge of the audit   *)
(* log.                                                                    *)
(***************************************************************************)
EXTENDS AuditLog, NumberLemmas, FiniteSetTheorems, SequenceTheorems

-----------------------------------------------------------------------------
(* The parts of the inductive invariant.                                   *)

Known(i) == open[i] # None \/ log[i] # None
Born(i)  == IF open[i] # None THEN open[i] ELSE log[i].created

\* What is known of the rows: ids are given out in the order of created_at,
\* and an insert does not stay open for long.
RowsInOrder ==
    /\ \A i \in Ids : Known(i) => i < nextId /\ Born(i) <= now
    /\ \A i \in Ids : open[i] # None => log[i] = None /\ now <= open[i] + MaxOpen
    /\ \A i, j \in Ids : i < j /\ Known(i) /\ Known(j) => Born(i) <= Born(j)

SeqsBounded == \E b \in Nat : \A i \in Sealed : log[i].seq <= b

HashesRight == \A i \in Sealed : log[i].hash = Append(log[i].prev, i)

ChainInv == SeqsBounded /\ HashesRight /\ ChainLinked

-----------------------------------------------------------------------------
(* The rows.                                                               *)

\* The columns of a committed row.
LEMMA RowType ==
    ASSUME TypeOK, NEW i \in Committed
    PROVE  /\ i \in Ids /\ log[i] \in Row
           /\ log[i].created \in Nat /\ log[i].seq \in Nat
           /\ log[i].prev \in Seq(Ids) /\ log[i].hash \in Seq(Ids)
<1>1. i \in Ids /\ log[i] \in Row
  BY NoneAssumption DEF TypeOK, Committed
<1> QED
  BY <1>1 DEF Row, Hash

\* Sealed rows are the committed ones with a position.
LEMMA SealedType ==
    ASSUME TypeOK, NEW i \in Sealed
    PROVE  /\ i \in Ids /\ i \in Committed /\ i \in Nat
           /\ log[i].created \in Nat /\ log[i].seq \in Nat \ {0}
           /\ log[i].prev \in Seq(Ids) /\ log[i].hash \in Seq(Ids)
<1>1. i \in Committed /\ log[i].seq # 0
  BY DEF Sealed
<1> QED
  BY <1>1, RowType DEF Ids

\* The largest position is the position of a row, unless there is none.
LEMMA MaxSeqFacts ==
    ASSUME TypeOK, SeqsBounded
    PROVE  /\ MaxSeq \in Nat
           /\ \A i \in Sealed : log[i].seq <= MaxSeq
           /\ Sealed = {} => MaxSeq = 0
           /\ Sealed # {} => \E i \in Sealed : log[i].seq = MaxSeq
<1> DEFINE T == {0} \cup {log[i].seq : i \in Sealed}
<1>1. PICK b \in Nat : \A i \in Sealed : log[i].seq <= b
  BY DEF SeqsBounded
<1>2. \A i \in Sealed : log[i].seq \in Nat \ {0}
  BY SealedType
<1>3. T \in SUBSET Nat /\ T # {} /\ \A t \in T : t <= b
  BY <1>1, <1>2
<1>4. Max(T) \in T /\ \A t \in T : Max(T) >= t
  BY <1>3, MaxFacts
<1>5. MaxSeq = Max(T)
  BY DEF MaxSeq
<1> HIDE DEF T
<1>6. MaxSeq \in T /\ MaxSeq \in Nat /\ \A t \in T : MaxSeq >= t
  BY <1>3, <1>4, <1>5
<1>7. \A i \in Sealed : log[i].seq <= MaxSeq
  BY <1>2, <1>6 DEF T
<1>8. MaxSeq = 0 \/ \E i \in Sealed : log[i].seq = MaxSeq
  BY <1>6 DEF T
<1>9. Sealed # {} => MaxSeq # 0
  BY <1>2, <1>6, <1>7
<1> QED
  BY <1>6, <1>7, <1>8, <1>9

\* The smallest position, likewise.
LEMMA MinSeqFacts ==
    ASSUME TypeOK
    PROVE  /\ MinSeq \in Nat
           /\ Sealed = {} => MinSeq = 0
           /\ Sealed # {} => MinSeq > 0 /\ \A i \in Sealed : MinSeq <= log[i].seq
<1> DEFINE T == {log[i].seq : i \in Sealed}
<1>1. \A i \in Sealed : log[i].seq \in Nat \ {0}
  BY SealedType
<1>2. CASE Sealed = {}
  BY <1>2 DEF MinSeq
<1>3. CASE Sealed # {}
  <2>1. T \in SUBSET Nat /\ T # {}
    BY <1>1, <1>3
  <2>2. Min(T) \in T /\ \A t \in T : Min(T) <= t
    BY <2>1, MinFacts
  <2>3. MinSeq = Min(T)
    BY <1>3 DEF MinSeq
  <2> QED
    BY <1>1, <1>3, <2>2, <2>3
<1> QED
  BY <1>2, <1>3

\* readHead finds the row with the largest position.
LEMMA HeadFacts ==
    ASSUME TypeOK, ChainInv
    PROVE  /\ ChainHead \in ChainEnd /\ ChainHead.seq = MaxSeq /\ ChainHead.seq \in Nat
           /\ ChainHead.hash \in Seq(Ids)
           /\ Sealed = {} => ChainHead.seq = 0 /\ ChainHead.hash = <<>>
           /\ \A i \in Sealed : log[i].seq <= ChainHead.seq
           /\ \A i \in Sealed : log[i].seq = ChainHead.seq => log[i].hash = ChainHead.hash
           /\ Sealed # {} => \E i \in Sealed : log[i].seq = ChainHead.seq
<1>1. /\ MaxSeq \in Nat
      /\ \A i \in Sealed : log[i].seq <= MaxSeq
      /\ Sealed = {} => MaxSeq = 0
      /\ Sealed # {} => \E i \in Sealed : log[i].seq = MaxSeq
  BY MaxSeqFacts DEF ChainInv
<1>2. CASE Sealed = {}
  <2>1. ChainHead = [seq |-> 0, hash |-> <<>>]
    BY <1>2 DEF ChainHead, Genesis
  <2> QED
    BY <1>1, <1>2, <2>1 DEF ChainEnd, Hash
<1>3. CASE Sealed # {}
  <2>1. ChainHead = [seq |-> MaxSeq, hash |-> log[At(MaxSeq)].hash]
    BY <1>3 DEF ChainHead
  <2>2. At(MaxSeq) \in Sealed /\ log[At(MaxSeq)].seq = MaxSeq
    BY <1>1, <1>3 DEF At
  <2>3. log[At(MaxSeq)].hash \in Seq(Ids)
    BY <2>2, SealedType
  <2>4. \A i \in Sealed : log[i].seq = MaxSeq => i = At(MaxSeq)
    BY <2>2 DEF ChainInv, ChainLinked
  <2> QED
    BY <1>1, <1>3, <2>1, <2>2, <2>3, <2>4 DEF ChainEnd, Hash
<1> QED
  BY <1>2, <1>3

\* The same, as a formula, for the state after a step.
LEMMA HeadFormula ==
    TypeOK /\ ChainInv =>
           /\ ChainHead.seq = MaxSeq /\ ChainHead.seq \in Nat /\ ChainHead.hash \in Seq(Ids)
           /\ \A i \in Sealed : log[i].seq <= ChainHead.seq
           /\ \A i \in Sealed : log[i].seq = ChainHead.seq => log[i].hash = ChainHead.hash
           /\ Sealed = {} => ChainHead.seq = 0 /\ ChainHead.hash = <<>>
           /\ Sealed # {} => \E i \in Sealed : log[i].seq = ChainHead.seq
  BY HeadFacts

LEMMA HeadNext ==
    ASSUME TypeOK', ChainInv'
    PROVE  /\ ChainHead'.seq = MaxSeq' /\ ChainHead'.seq \in Nat /\ ChainHead'.hash \in Seq(Ids)
           /\ \A i \in Sealed' : log'[i].seq <= ChainHead'.seq
           /\ \A i \in Sealed' : log'[i].seq = ChainHead'.seq => log'[i].hash = ChainHead'.hash
           /\ Sealed' = {} => ChainHead'.seq = 0 /\ ChainHead'.hash = <<>>
           /\ Sealed' # {} => \E i \in Sealed' : log'[i].seq = ChainHead'.seq
<1>1. (TypeOK /\ ChainInv =>
           /\ ChainHead.seq = MaxSeq /\ ChainHead.seq \in Nat /\ ChainHead.hash \in Seq(Ids)
           /\ \A i \in Sealed : log[i].seq <= ChainHead.seq
           /\ \A i \in Sealed : log[i].seq = ChainHead.seq => log[i].hash = ChainHead.hash
           /\ Sealed = {} => ChainHead.seq = 0 /\ ChainHead.hash = <<>>
           /\ Sealed # {} => \E i \in Sealed : log[i].seq = ChainHead.seq)'
  BY HeadFormula, PTL
<1> QED
  BY <1>1

-----------------------------------------------------------------------------
(* ORDER BY id LIMIT n.                                                    *)

\* Sets of ids are finite.
LEMMA IdsFinite ==
    ASSUME NEW S \in SUBSET Ids
    PROVE  IsFiniteSet(S) /\ Cardinality(S) \in Nat
<1>1. IsFiniteSet(Ids)
  BY WindowsAssumption, FS_Interval DEF Ids
<1> QED
  BY <1>1, FS_Subset, FS_CardinalityType

\* The rows come in order, none with a smaller id is left out, and there is
\* one if there can be.
LEMMA FirstIdsFacts ==
    ASSUME NEW S \in SUBSET Ids, NEW n \in Nat \ {0}, NEW q \in FirstIds(S, n)
    PROVE  /\ q \in Seq(S) /\ q \in Seq(Ids) /\ Len(q) \in Nat /\ Len(q) <= n
           /\ DOMAIN q = 1..Len(q) /\ Range(q) = {q[k] : k \in 1..Len(q)}
           /\ \A j, k \in 1..Len(q) : j < k => q[j] < q[k]
           /\ \A i \in S \ Range(q), k \in 1..Len(q) : q[k] < i
           /\ S # {} => Len(q) > 0
           /\ Range(q) \subseteq S
<1> DEFINE m == IF Cardinality(S) < n THEN Cardinality(S) ELSE n
<1>1. Cardinality(S) \in Nat /\ (S # {} => Cardinality(S) # 0)
  BY IdsFinite, FS_EmptySet
<1>2. m \in Nat /\ m <= n /\ (S # {} => m > 0)
  BY <1>1
<1>3. /\ q \in [1..m -> S]
      /\ \A j, k \in DOMAIN q : j < k => q[j] < q[k]
      /\ \A i \in S \ Range(q), k \in DOMAIN q : q[k] < i
  BY DEF FirstIds
<1> HIDE DEF m
<1>4. q \in Seq(S) /\ Len(q) = m /\ DOMAIN q = 1..m
  BY <1>2, <1>3
<1>5. Range(q) = {q[k] : k \in 1..m}
  BY <1>4 DEF Range
<1>6. q \in Seq(Ids) /\ Range(q) \subseteq S
  BY <1>3, <1>4, <1>5
<1> QED
  BY <1>2, <1>3, <1>4, <1>5, <1>6

\* A set that is small enough is listed whole.
LEMMA AllIdsListed ==
    ASSUME NEW S \in SUBSET Ids, NEW n \in Nat \ {0}, NEW q \in FirstIds(S, n), Cardinality(S) <= n
    PROVE  Range(q) = S
<1> DEFINE m == Cardinality(S)
<1>1. IsFiniteSet(S) /\ m \in Nat /\ S \subseteq Nat
  BY IdsFinite DEF Ids
<1>2. q \in [1..m -> S] /\ \A j, k \in DOMAIN q : j < k => q[j] < q[k]
  BY <1>1 DEF FirstIds
<1> HIDE DEF m
<1>3. \A j, k \in 1..m : j # k => q[j] # q[k]
  <2> SUFFICES ASSUME NEW j \in 1..m, NEW k \in 1..m, j # k PROVE q[j] # q[k]
    OBVIOUS
  <2>1. q[j] \in S /\ q[k] \in S /\ j \in DOMAIN q /\ k \in DOMAIN q
    BY <1>2
  <2>2. q[j] \in Nat /\ q[k] \in Nat
    BY <1>1, <2>1
  <2>3. j < k \/ k < j
    BY <1>1
  <2> QED
    BY <1>2, <2>1, <2>2, <2>3
<1>4. q \in Injection(1..m, S)
  BY <1>2, <1>3 DEF Injection, IsInjective
<1>5. IsFiniteSet(1..m) /\ Cardinality(1..m) = m
  BY <1>1, FS_Interval
<1>6. q \in Surjection(1..m, S)
  BY <1>1, <1>4, <1>5, FS_Injection DEF m
<1> QED
  BY <1>6 DEF Surjection, Range

-----------------------------------------------------------------------------
(* What the statements read.                                               *)

LEMMA CutoffFacts ==
    ASSUME TypeOK
    PROVE  Cutoff \in Nat /\ Cutoff <= now /\ (Cutoff # 0 => Cutoff = now - AuditDays /\ now > AuditDays)
  BY WindowsAssumption DEF TypeOK, Cutoff

\* No row that stays is below the position the purge stops at.
LEMMA MinKeptFacts ==
    ASSUME TypeOK, NEW c \in Nat
    PROVE  /\ MinKept(c) \in Nat
           /\ \A i \in Sealed : log[i].created >= c => log[i].seq >= MinKept(c)
<1> DEFINE kept == {log[i].seq : i \in {j \in Sealed : log[j].created >= c}}
<1>1. kept \in SUBSET Nat /\ \A i \in Sealed : log[i].created >= c => log[i].seq \in kept
  BY SealedType
<1>2. MinKept(c) = IF kept = {} THEN MaxId + 1 ELSE Min(kept)
  BY DEF MinKept
<1> HIDE DEF kept
<1>3. CASE kept = {}
  BY <1>1, <1>2, <1>3, WindowsAssumption
<1>4. CASE kept # {}
  <2>1. Min(kept) \in kept /\ \A t \in kept : Min(kept) <= t
    BY <1>1, <1>4, MinFacts
  <2>2. MinKept(c) \in Nat /\ \A t \in kept : t >= MinKept(c)
    BY <1>1, <1>2, <1>4, <2>1
  <2> QED
    BY <1>1, <2>2
<1> QED
  BY <1>3, <1>4

\* The floor is behind every sink.
LEMMA FloorFacts ==
    ASSUME TypeOK
    PROVE  /\ Floor \in Nat
           /\ \A s \in Sinks : Floor > 0 => cursor[s] \in Nat /\ Floor <= cursor[s]
<1>1. CASE Sinks = {}
  BY <1>1, WindowsAssumption DEF Floor
<1>2. CASE \E s \in Sinks : cursor[s] = None
  BY <1>2 DEF Floor
<1>3. CASE Sinks # {} /\ \A s \in Sinks : cursor[s] # None
  <2> DEFINE T == {cursor[s] : s \in Sinks}
  <2>1. \A s \in Sinks : cursor[s] \in Nat
    BY <1>3 DEF TypeOK
  <2>2. T \in SUBSET Nat /\ T # {}
    BY <1>3, <2>1
  <2>3. Min(T) \in T /\ \A t \in T : Min(T) <= t
    BY <2>2, MinFacts
  <2>4. Floor = Min(T)
    BY <1>3 DEF Floor
  <2> QED
    BY <2>1, <2>3, <2>4
<1> QED
  BY <1>1, <1>2, <1>3

\* SELECT MAX(id).
LEMMA MaxIDFacts ==
    ASSUME TypeOK
    PROVE  MaxID \in Nat /\ (MaxID = 0 \/ MaxID \in Committed)
<1> DEFINE T == {0} \cup Committed
<1>1. T \in SUBSET Nat /\ T # {} /\ \A t \in T : t <= MaxId
  BY WindowsAssumption DEF Committed, Ids
<1>2. Max(T) \in T
  BY <1>1, WindowsAssumption, MaxFacts
<1>3. MaxID = Max(T)
  BY DEF MaxID
<1> QED
  BY <1>1, <1>2, <1>3

-----------------------------------------------------------------------------
(* What the two statements that change rows do.                            *)

\* The rows of q are chained onto the head.
SealedBy(q) ==
    /\ q \in Seq(Ids) /\ Len(q) \in Nat \ {0}
    /\ \A k \in 1..Len(q) : q[k] \in Unsealed /\ log'[q[k]] = SealRow(ChainHead, q, k)
    /\ \A j, k \in 1..Len(q) : j < k => q[j] < q[k]
    /\ \A i \in Unsealed : (\A k \in 1..Len(q) : q[k] # i) => \A k \in 1..Len(q) : q[k] < i
    /\ \A i \in Ids : (\A k \in 1..Len(q) : q[k] # i) => log'[i] = log[i]
    /\ DOMAIN log' = Ids
    /\ UNCHANGED <<now, nextId, open, anchors, sinkVars, purge, anchoring, purged, cut>>

LEMMA SealFacts ==
    ASSUME TypeOK, SealBatch
    PROVE  \E q : SealedBy(q)
<1>1. PICK q \in FirstIds(Unsealed, SealLimit) :
         log' = [i \in Ids |-> IF \E k \in DOMAIN q : q[k] = i
                              THEN SealRow(ChainHead, q, CHOOSE k \in DOMAIN q : q[k] = i)
                              ELSE log[i]]
  BY DEF SealBatch
<1>2. Unsealed \in SUBSET Ids /\ Unsealed # {} /\ Ids \subseteq Nat
  BY DEF Unsealed, Committed, SealBatch, Ids
<1> HIDE DEF Unsealed
<1>3. /\ q \in Seq(Ids) /\ Len(q) \in Nat \ {0} /\ DOMAIN q = 1..Len(q) /\ q \in Seq(Unsealed)
      /\ \A j, k \in 1..Len(q) : j < k => q[j] < q[k]
      /\ \A i \in Unsealed \ Range(q), k \in 1..Len(q) : q[k] < i
      /\ Range(q) = {q[k] : k \in 1..Len(q)}
  <2>1. SealLimit \in Nat \ {0}
    BY LimitsAssumption
  <2>2. /\ q \in Seq(Ids) /\ Len(q) \in Nat /\ DOMAIN q = 1..Len(q) /\ q \in Seq(Unsealed)
        /\ \A j, k \in 1..Len(q) : j < k => q[j] < q[k]
        /\ \A i \in Unsealed \ Range(q), k \in 1..Len(q) : q[k] < i
        /\ Range(q) = {q[k] : k \in 1..Len(q)}
        /\ Unsealed # {} => Len(q) > 0
    BY <1>1, <1>2, <2>1, FirstIdsFacts, SMTT(30)
  <2> QED
    BY <1>2, <2>2
<1>4. ASSUME NEW k \in 1..Len(q) PROVE q[k] \in Unsealed /\ log'[q[k]] = SealRow(ChainHead, q, k)
  <2>1. q[k] \in Unsealed /\ q[k] \in Ids
    BY <1>2, <1>3
  <2> DEFINE l == CHOOSE l \in DOMAIN q : q[l] = q[k]
  <2>2. log'[q[k]] = SealRow(ChainHead, q, l)
    BY <1>1, <1>3, <2>1
  <2>3. l \in 1..Len(q) /\ q[l] = q[k]
    BY <1>3
  <2> HIDE DEF l
  <2>4. \A x \in 1..Len(q) : q[x] \in Nat
    BY <1>2, <1>3, ElementOfSeq
  <2>5. l = k
    BY <1>3, <2>3, <2>4
  <2> QED
    BY <2>1, <2>2, <2>5
<1>5. \A i \in Ids : (\A k \in 1..Len(q) : q[k] # i) => log'[i] = log[i]
  BY <1>1, <1>3
<1>6. \A i \in Unsealed : (\A k \in 1..Len(q) : q[k] # i) => \A k \in 1..Len(q) : q[k] < i
  BY <1>3
<1>7. SealedBy(q)
  BY <1>1, <1>3, <1>4, <1>5, <1>6 DEF SealedBy, SealBatch
<1> QED
  BY <1>7

\* A hash covers one row more than the one before it.
LEMMA OneRowMore ==
    ASSUME NEW h \in Seq(Ids), NEW q \in Seq(Ids), NEW k \in 1..Len(q)
    PROVE  /\ SubSeq(q, 1, k - 1) \in Seq(Ids) /\ SubSeq(q, 1, k) \in Seq(Ids)
           /\ Len(SubSeq(q, 1, k)) = k
           /\ h \o SubSeq(q, 1, k) = Append(h \o SubSeq(q, 1, k - 1), q[k])
<1> DEFINE p == SubSeq(q, 1, k - 1)
<1>1. Len(q) \in Nat /\ \A i \in 1..Len(q) : q[i] \in Ids
  BY ElementOfSeq, LenProperties
<1>2. k \in Nat \ {0} /\ k - 1 \in Int /\ q[k] \in Ids
  BY <1>1
<1>3. p \in Seq(Ids) /\ SubSeq(q, 1, k) \in Seq(Ids) /\ Len(SubSeq(q, 1, k)) = k
  BY <1>1, <1>2, SubSeqProperties
<1>4. SubSeq(q, 1, k) = p \o <<q[k]>>
  BY <1>1, <1>2, SubSeqRecursiveSecond
<1> HIDE DEF p
<1>5. h \o (p \o <<q[k]>>) = (h \o p) \o <<q[k]>>
  BY <1>2, <1>3, ConcatAssociative
<1>6. (h \o p) \o <<q[k]>> = Append(h \o p, q[k])
  BY <1>2, <1>3, ConcatProperties, AppendIsConcat
<1> QED
  BY <1>3, <1>4, <1>5, <1>6 DEF p

\* The columns that a sealed row gets.
LEMMA SealRowFacts ==
    ASSUME TypeOK, ChainInv, NEW q, SealedBy(q), NEW k \in 1..Len(q)
    PROVE  /\ log'[q[k]] \in Row
           /\ log'[q[k]].created = log[q[k]].created
           /\ log'[q[k]].seq = ChainHead.seq + k
           /\ log'[q[k]].prev = ChainHead.hash \o SubSeq(q, 1, k - 1)
           /\ log'[q[k]].hash = ChainHead.hash \o SubSeq(q, 1, k)
           /\ log'[q[k]].hash = Append(log'[q[k]].prev, q[k])
<1>1. log'[q[k]] = SealRow(ChainHead, q, k) /\ q[k] \in Committed /\ q \in Seq(Ids) /\ Len(q) \in Nat
  BY DEF SealedBy, Unsealed
<1>2. log[q[k]].created \in Nat
  BY <1>1, RowType
<1>3. ChainHead.seq \in Nat /\ ChainHead.hash \in Seq(Ids)
  BY HeadFacts
<1> DEFINE h == ChainHead.hash
           old == SubSeq(q, 1, k - 1)
           new == SubSeq(q, 1, k)
<1>4. old \in Seq(Ids) /\ new \in Seq(Ids) /\ h \o new = Append(h \o old, q[k])
  BY <1>1, <1>3, OneRowMore
<1>5. log'[q[k]] = [created |-> log[q[k]].created, seq |-> ChainHead.seq + k, prev |-> h \o old, hash |-> h \o new]
  BY <1>1 DEF SealRow
<1>6. k \in Nat
  BY <1>1
<1> HIDE DEF h, old, new
<1>7. h \o old \in Seq(Ids) /\ h \o new \in Seq(Ids)
  BY <1>3, <1>4, ConcatProperties DEF h
<1>8. log'[q[k]] \in Row
  BY <1>2, <1>3, <1>5, <1>6, <1>7 DEF Row, Hash
<1>9. /\ log'[q[k]].created = log[q[k]].created /\ log'[q[k]].seq = ChainHead.seq + k
      /\ log'[q[k]].prev = h \o old /\ log'[q[k]].hash = h \o new
  BY <1>5
<1>10. log'[q[k]].hash = Append(log'[q[k]].prev, q[k])
  BY <1>4, <1>9
<1> QED
  BY <1>8, <1>9, <1>10 DEF h, old, new

\* The rows of D are gone.
Deleted(D) ==
    /\ D \subseteq Committed
    /\ log' = [i \in Ids |-> IF i \in D THEN None ELSE log[i]]
    /\ purged' = purged \cup D
    /\ cut' = (cut \/ \E i \in D \cap Sealed : log[i].seq = MaxSeq)
    /\ UNCHANGED <<now, nextId, open, anchors, sinkVars, anchoring>>

LEMMA DeleteFacts ==
    ASSUME TypeOK, NEW r \in Replicas, PurgeDeletes(r)
    PROVE  \E D \in SUBSET Doomed(purge[r]) :
              /\ Deleted(D) /\ purge[r].at = "delete"
              /\ purge' = [purge EXCEPT ![r] = [at |-> "record"]] \/ purge' = purge
<1>1. PICK q \in FirstIds(Doomed(purge[r]), BatchSize) :
         /\ log' = [i \in Ids |-> IF i \in Range(q) THEN None ELSE log[i]]
         /\ purged' = purged \cup Range(q)
         /\ cut' = (cut \/ \E i \in Range(q) \cap Sealed : log[i].seq = MaxSeq)
         /\ purge' = IF Len(q) < BatchSize THEN [purge EXCEPT ![r] = [at |-> "record"]] ELSE purge
  BY DEF PurgeDeletes
<1>2. Doomed(purge[r]) \in SUBSET Ids /\ Doomed(purge[r]) \subseteq Committed
  BY DEF Doomed, Committed
<1>3. Range(q) \subseteq Doomed(purge[r])
  BY <1>2, LimitsAssumption, FirstIdsFacts
<1> QED
  BY <1>1, <1>2, <1>3 DEF Deleted, PurgeDeletes

-----------------------------------------------------------------------------
(* Types.                                                                  *)

\* The loop of a sink, by where it is.
LEMMA LoopType ==
    ASSUME TypeOK, NEW r \in Replicas, NEW s \in Sinks
    PROVE  /\ <<r, s>> \in Replicas \X Sinks /\ run[<<r, s>>] \in Loops
           /\ run[<<r, s>>].at = "cursor" => run[<<r, s>>].first \in Nat
           /\ run[<<r, s>>].at = "wait" => run[<<r, s>>].cursor \in Nat
           /\ run[<<r, s>>].at = "send" => /\ run[<<r, s>>].cursor \in Nat /\ run[<<r, s>>].last \in Ids
                                           /\ run[<<r, s>>].todo \in Seq(Ids)
<1>1. <<r, s>> \in Replicas \X Sinks /\ run[<<r, s>>] \in Loops
  BY DEF TypeOK
<1> QED
  BY <1>1 DEF Loops, Off, Starting

LEMMA LoopsAre ==
    ASSUME NEW c \in Nat, NEW l \in Ids, NEW t \in Seq(Ids)
    PROVE  /\ Off \in Loops /\ Starting \in Loops
           /\ [at |-> "cursor", first |-> c] \in Loops
           /\ [at |-> "wait", cursor |-> c] \in Loops
           /\ [at |-> "send", cursor |-> c, last |-> l, todo |-> t] \in Loops
  BY DEF Loops

\* A purge, by where it is.
LEMMA PurgeType ==
    ASSUME TypeOK, NEW r \in Replicas
    PROVE  /\ purge[r] \in Purges
           /\ purge[r].at \in {"floor", "delete"} => purge[r].cutoff \in Nat /\ purge[r].minKept \in Nat
           /\ purge[r].at = "delete" => purge[r].floor \in Nat
<1>1. purge[r] \in Purges
  BY DEF TypeOK
<1> QED
  BY <1>1 DEF Purges, Off

\* A call of AnchorOnce, by where it is.
LEMMA AnchoringType ==
    ASSUME TypeOK, NEW k \in Replicas \X Calls
    PROVE  /\ anchoring[k] \in Anchorings
           /\ anchoring[k].at = "head" => /\ anchoring[k].head \in ChainEnd
                                          /\ anchoring[k].head.seq \in Nat /\ anchoring[k].head.hash \in Seq(Ids)
           /\ anchoring[k].at = "insert" => anchoring[k].anchor \in Anchor
<1>1. anchoring[k] \in Anchorings
  BY DEF TypeOK
<1>2. anchoring[k].at = "head" => anchoring[k].head \in ChainEnd
  BY <1>1 DEF Anchorings, Off
<1>3. anchoring[k].at = "insert" => anchoring[k].anchor \in Anchor
  BY <1>1 DEF Anchorings, Off
<1> QED
  BY <1>1, <1>2, <1>3 DEF ChainEnd, Hash

\* The record of a job is an insert like any other.
LEMMA RecordType ==
    ASSUME TypeOK, WriteOwnRecord
    PROVE  open' \in [Ids -> Nat \cup {None}] /\ nextId' \in Nat \ {0}
  BY WindowsAssumption DEF TypeOK, WriteOwnRecord, Ids

\* A digest: from the end of the last anchor, or from the oldest row.
LEMMA AnchorOfFacts ==
    ASSUME TypeOK, NEW head \in ChainEnd
    PROVE  /\ AnchorFrom \in Nat \ {0}
           /\ AnchorOf(AnchorFrom, head) \in Anchor
           /\ AnchorOf(AnchorFrom, head).from = AnchorFrom
           /\ AnchorOf(AnchorFrom, head).to = IF head.seq + 1 < AnchorFrom THEN AnchorFrom - 1 ELSE head.seq
           /\ AnchorOf(AnchorFrom, head).rows > 0 => AnchorOf(AnchorFrom, head).to = head.seq
           /\ AnchorOf(AnchorFrom, head).head = head.hash
<1>1. anchors # <<>> => anchors[Len(anchors)].to \in Nat
  <2> SUFFICES ASSUME anchors # <<>> PROVE anchors[Len(anchors)].to \in Nat
    OBVIOUS
  <2>1. anchors \in Seq(Anchor) /\ Len(anchors) \in Nat \ {0}
    BY EmptySeq DEF TypeOK
  <2>2. anchors[Len(anchors)] \in Anchor
    BY <2>1, ElementOfSeq
  <2> QED
    BY <2>2 DEF Anchor
<1>2. AnchorFrom \in Nat \ {0}
  BY <1>1, MinSeqFacts DEF AnchorFrom
<1>3. head.seq \in Nat /\ head.hash \in Hash
  BY DEF ChainEnd
<1> DEFINE f == AnchorFrom
           to == IF head.seq + 1 < f THEN f - 1 ELSE head.seq
<1>4. AnchorOf(f, head) = [from |-> f, to |-> to, rows |-> (to + 1) - f, head |-> head.hash]
  BY DEF AnchorOf
<1> HIDE DEF f
<1>5. f \in Nat \ {0} /\ to \in Nat /\ (to + 1) - f \in Nat /\ ((to + 1) - f > 0 => to = head.seq)
  BY <1>2, <1>3 DEF f
<1> HIDE DEF to
<1>6. AnchorOf(f, head) \in Anchor
  BY <1>3, <1>4, <1>5 DEF Anchor
<1>7. /\ AnchorOf(f, head).from = f /\ AnchorOf(f, head).to = to
      /\ AnchorOf(f, head).rows > 0 => to = head.seq
      /\ AnchorOf(f, head).head = head.hash
  BY <1>4, <1>5
<1> QED
  BY <1>2, <1>6, <1>7 DEF f, to

\* Three statements change rows.
LEMMA RowSteps ==
    ASSUME [Next]_vars
    PROVE  \/ \E i \in Ids : CommitRecord(i)
           \/ SealBatch
           \/ \E r \in Replicas : PurgeDeletes(r)
           \/ UNCHANGED <<log, purged, cut>>
<1>1. ASSUME NEW r \in Replicas, Purger(r) PROVE PurgeDeletes(r) \/ UNCHANGED <<log, purged, cut>>
  BY <1>1 DEF Purger, PurgeReadsMinKept, PurgeReadsFloor, PurgeRecords, PurgeFails, tableVars
<1>2. ASSUME NEW r \in Replicas, Anchorer(r) PROVE UNCHANGED <<log, purged, cut>>
  BY <1>2 DEF Anchorer, AnchorReadsHead, AnchorPutsObject, InsertAnchor, AnchorRecords, AnchorFails, tableVars
<1>3. ASSUME NEW r \in Replicas, Dispatcher(r) PROVE UNCHANGED <<log, purged, cut>>
  BY <1>3 DEF Dispatcher, TryLock, NoticeLost, FirstCursor, EnsureCursor, ReadRows, SendChunk, SendFails,
     Advance, AdvanceFails, tableVars
<1>4. ASSUME NEW r \in Replicas, Restart(r) PROVE UNCHANGED <<log, purged, cut>>
  BY <1>4 DEF Restart, tableVars
<1>5. Tick \/ LoseLock \/ UNCHANGED vars => UNCHANGED <<log, purged, cut>>
  BY DEF Tick, LoseLock, vars, tableVars
<1>6. Table => (\E i \in Ids : CommitRecord(i)) \/ UNCHANGED <<log, purged, cut>>
  BY DEF Table, InsertRecord, AbortRecord
<1> QED
  BY <1>1, <1>2, <1>3, <1>4, <1>5, <1>6 DEF Next

\* The rows of the table keep their columns.
LEMMA LogType ==
    ASSUME TypeOK, ChainInv, [Next]_vars
    PROVE  log' \in [Ids -> Row \cup {None}]
<1>1. ASSUME NEW i \in Ids, CommitRecord(i) PROVE log' \in [Ids -> Row \cup {None}]
  <2>1. open[i] \in Nat
    BY <1>1 DEF CommitRecord, TypeOK
  <2>2. NewRow(open[i]) \in Row
    BY <2>1 DEF NewRow, Row, Genesis, Hash
  <2> QED
    BY <1>1, <2>2 DEF CommitRecord, TypeOK
<1>2. CASE SealBatch
  <2>1. PICK q : SealedBy(q)
    BY <1>2, SealFacts
  <2>2. \A k \in 1..Len(q) : log'[q[k]] \in Row
    BY <2>1, SealRowFacts
  <2>3. \A i \in Ids : log'[i] \in Row \cup {None}
    <3> SUFFICES ASSUME NEW i \in Ids PROVE log'[i] \in Row \cup {None}
      OBVIOUS
    <3>1. CASE \E k \in 1..Len(q) : q[k] = i
      BY <2>2, <3>1
    <3>2. CASE \A k \in 1..Len(q) : q[k] # i
      BY <2>1, <3>2 DEF SealedBy, TypeOK
    <3> QED
      BY <3>1, <3>2
  <2>4. log' = [i \in Ids |-> log'[i]]
    BY <1>2 DEF SealBatch
  <2> QED
    BY <2>3, <2>4
<1>3. ASSUME NEW r \in Replicas, PurgeDeletes(r) PROVE log' \in [Ids -> Row \cup {None}]
  BY <1>3, DeleteFacts DEF Deleted, TypeOK
<1>4. CASE UNCHANGED log
  BY <1>4 DEF TypeOK
<1> QED
  BY <1>1, <1>2, <1>3, <1>4, RowSteps

\* Every step keeps the types.
LEMMA TypesStep ==
    ASSUME TypeOK, ChainInv, [Next]_vars
    PROVE  TypeOK'
<1>1. log' \in [Ids -> Row \cup {None}]
  BY LogType
<1>2. ASSUME Tick \/ LoseLock \/ UNCHANGED vars PROVE TypeOK'
  BY <1>1, <1>2 DEF Tick, LoseLock, vars, tableVars, sinkVars, TypeOK
<1>3. CASE Table
  <2>1. CASE InsertRecord
    <3>1. WriteOwnRecord
      BY <2>1 DEF InsertRecord, WriteOwnRecord
    <3> QED
      BY <1>1, <2>1, <3>1, RecordType DEF InsertRecord, sinkVars, TypeOK
  <2>2. ASSUME NEW i \in Ids, CommitRecord(i) \/ AbortRecord(i) PROVE TypeOK'
    BY <1>1, <2>2 DEF CommitRecord, AbortRecord, sinkVars, TypeOK
  <2> QED
    BY <1>3, <2>1, <2>2 DEF Table
<1>4. CASE SealBatch
  BY <1>1, <1>4 DEF SealBatch, sinkVars, TypeOK
<1>5. ASSUME NEW r \in Replicas, Purger(r) PROVE TypeOK'
  <2>1. CASE PurgeReadsMinKept(r)
    <3>1. Cutoff \in Nat /\ MinKept(Cutoff) \in Nat
      BY CutoffFacts, MinKeptFacts
    <3>2. [at |-> "floor", cutoff |-> Cutoff, minKept |-> MinKept(Cutoff)] \in Purges
      BY <3>1 DEF Purges
    <3> QED
      BY <1>1, <2>1, <3>2 DEF PurgeReadsMinKept, tableVars, sinkVars, TypeOK
  <2>2. CASE PurgeReadsFloor(r)
    <3>1. [at |-> "delete", cutoff |-> purge[r].cutoff, minKept |-> purge[r].minKept, floor |-> Floor] \in Purges
      BY <2>2, PurgeType, FloorFacts DEF Purges, PurgeReadsFloor
    <3> QED
      BY <1>1, <2>2, <3>1 DEF PurgeReadsFloor, tableVars, sinkVars, TypeOK
  <2>3. Off \in Purges /\ [at |-> "record"] \in Purges
    BY DEF Purges
  <2>4. CASE PurgeDeletes(r)
    <3>1. PICK D \in SUBSET Doomed(purge[r]) :
              /\ Deleted(D)
              /\ purge' = [purge EXCEPT ![r] = [at |-> "record"]] \/ purge' = purge
      BY <2>4, DeleteFacts
    <3>2. purged' \subseteq Ids /\ cut' \in BOOLEAN
      BY <3>1 DEF Deleted, Committed, TypeOK
    <3>3. purge' \in [Replicas -> Purges]
      BY <2>3, <3>1 DEF TypeOK
    <3> QED
      BY <1>1, <3>1, <3>2, <3>3 DEF Deleted, sinkVars, TypeOK
  <2>5. CASE PurgeRecords(r)
    <3>1. open' \in [Ids -> Nat \cup {None}] /\ nextId' \in Nat \ {0}
      BY <2>5, RecordType DEF PurgeRecords
    <3> QED
      BY <1>1, <2>3, <2>5, <3>1 DEF PurgeRecords, sinkVars, TypeOK
  <2>6. CASE PurgeFails(r)
    BY <1>1, <2>3, <2>6 DEF PurgeFails, tableVars, sinkVars, TypeOK
  <2> QED
    BY <1>5, <2>1, <2>2, <2>4, <2>5, <2>6 DEF Purger
<1>6. ASSUME NEW r \in Replicas, NEW c \in Calls,
             \/ AnchorReadsHead(<<r, c>>) \/ AnchorPutsObject(<<r, c>>) \/ InsertAnchor(<<r, c>>)
             \/ AnchorRecords(<<r, c>>) \/ AnchorFails(<<r, c>>)
      PROVE  TypeOK'
  <2> DEFINE k == <<r, c>>
  <2>0. k \in Replicas \X Calls
    OBVIOUS
  <2> HIDE DEF k
  <2>1. CASE AnchorReadsHead(k)
    <3>1. [at |-> "head", head |-> ChainHead] \in Anchorings
      BY HeadFacts DEF Anchorings
    <3> QED
      BY <1>1, <2>0, <2>1, <3>1 DEF AnchorReadsHead, tableVars, sinkVars, TypeOK
  <2>2. CASE AnchorPutsObject(k)
    <3>1. anchoring[k].head \in ChainEnd
      BY <2>0, <2>2, AnchoringType DEF AnchorPutsObject
    <3>2. AnchorOf(AnchorFrom, anchoring[k].head) \in Anchor
      BY <3>1, AnchorOfFacts
    <3>3. [at |-> "insert", anchor |-> AnchorOf(AnchorFrom, anchoring[k].head)] \in Anchorings
      BY <3>2 DEF Anchorings
    <3> QED
      BY <1>1, <2>0, <2>2, <3>3 DEF AnchorPutsObject, tableVars, sinkVars, TypeOK
  <2>3. [at |-> "record"] \in Anchorings /\ Off \in Anchorings
    BY DEF Anchorings
  <2>4. CASE InsertAnchor(k)
    <3>1. anchoring[k].anchor \in Anchor
      BY <2>0, <2>4, AnchoringType DEF InsertAnchor
    <3>2. anchors' \in Seq(Anchor)
      BY <2>4, <3>1, AppendProperties DEF InsertAnchor, TypeOK
    <3> QED
      BY <1>1, <2>0, <2>3, <2>4, <3>2 DEF InsertAnchor, tableVars, sinkVars, TypeOK
  <2>5. CASE AnchorRecords(k)
    <3>1. open' \in [Ids -> Nat \cup {None}] /\ nextId' \in Nat \ {0}
      BY <2>5, RecordType DEF AnchorRecords
    <3> QED
      BY <1>1, <2>0, <2>3, <2>5, <3>1 DEF AnchorRecords, sinkVars, TypeOK
  <2>6. CASE AnchorFails(k)
    BY <1>1, <2>0, <2>3, <2>6 DEF AnchorFails, tableVars, sinkVars, TypeOK
  <2> QED
    BY <1>6, <2>1, <2>2, <2>4, <2>5, <2>6 DEF k
<1>7. ASSUME NEW r \in Replicas, TryLock(r) \/ NoticeLost(r) \/ Restart(r) PROVE TypeOK'
  <2>1. Off \in Loops /\ Starting \in Loops /\ Off \in Purges /\ Off \in Anchorings
    BY DEF Loops, Purges, Anchorings
  <2>2. CASE TryLock(r)
    BY <1>1, <2>1, <2>2 DEF TryLock, tableVars, TypeOK
  <2>3. CASE NoticeLost(r)
    BY <1>1, <2>1, <2>3 DEF NoticeLost, tableVars, TypeOK
  <2>4. CASE Restart(r)
    BY <1>1, <2>1, <2>4 DEF Restart, tableVars, TypeOK
  <2> QED
    BY <1>7, <2>2, <2>3, <2>4
<1>8. ASSUME NEW r \in Replicas, NEW s \in Sinks,
             \/ FirstCursor(r, s) \/ EnsureCursor(r, s) \/ ReadRows(r, s) \/ SendChunk(r, s)
             \/ SendFails(r, s) \/ Advance(r, s) \/ AdvanceFails(r, s)
      PROVE  TypeOK'
  <2> DEFINE k == <<r, s>>
  <2>0. k \in Replicas \X Sinks /\ run[k] \in Loops
    BY LoopType
  <2>1. CASE FirstCursor(r, s)
    <3>1. PICK first \in {0} \cup (IF s \in FromStart THEN {} ELSE {MaxID}) :
             run' = [run EXCEPT ![k] = [at |-> "cursor", first |-> first]]
      BY <2>1 DEF FirstCursor
    <3>2. first \in Nat
      BY MaxIDFacts
    <3>3. [at |-> "cursor", first |-> first] \in Loops
      BY <3>2 DEF Loops
    <3> QED
      BY <1>1, <2>0, <2>1, <3>1, <3>3 DEF FirstCursor, tableVars, TypeOK
  <2>2. CASE EnsureCursor(r, s)
    <3> DEFINE at == IF cursor[s] = None THEN run[k].first ELSE cursor[s]
    <3>1. at \in Nat
      BY <2>2, LoopType DEF EnsureCursor, TypeOK
    <3>2. /\ cursor' = [cursor EXCEPT ![s] = at]
          /\ start' = IF cursor[s] = None THEN [start EXCEPT ![s] = at] ELSE start
          /\ run' = [run EXCEPT ![k] = [at |-> "wait", cursor |-> at]]
      BY <2>2 DEF EnsureCursor
    <3> HIDE DEF at
    <3>3. [at |-> "wait", cursor |-> at] \in Loops
      BY <3>1 DEF Loops
    <3> QED
      BY <1>1, <2>0, <2>2, <3>1, <3>2, <3>3 DEF EnsureCursor, tableVars, TypeOK
  <2>3. CASE ReadRows(r, s)
    <3>1. PICK page \in Page(run[k].cursor) : /\ page # <<>>
             /\ \E todo \in FirstIds(Range(page) \cap Kept(s), ReadPage) :
                  run' = [run EXCEPT ![k] = [at |-> "send", cursor |-> run[k].cursor,
                                             last |-> page[Len(page)], todo |-> todo]]
      BY <2>3 DEF ReadRows
    <3>2. page \in Seq(Ids) /\ Len(page) \in Nat
      BY <3>1, LimitsAssumption, FirstIdsFacts DEF Page, Committed
    <3>3. PICK todo \in FirstIds(Range(page) \cap Kept(s), ReadPage) :
                  run' = [run EXCEPT ![k] = [at |-> "send", cursor |-> run[k].cursor,
                                             last |-> page[Len(page)], todo |-> todo]]
      BY <3>1
    <3>4. Range(page) \cap Kept(s) \in SUBSET Ids
      BY SinksAssumption
    <3>5. todo \in Seq(Ids)
      BY <3>3, <3>4, LimitsAssumption, FirstIdsFacts
    <3>6. page[Len(page)] \in Ids
      BY <3>1, <3>2, EmptySeq, ElementOfSeq
    <3>7. [at |-> "send", cursor |-> run[k].cursor, last |-> page[Len(page)], todo |-> todo] \in Loops
      BY <2>3, <3>5, <3>6, LoopType, LoopsAre DEF ReadRows
    <3> QED
      BY <1>1, <2>0, <2>3, <3>3, <3>7 DEF ReadRows, tableVars, TypeOK
  <2>4. CASE SendChunk(r, s)
    <3> DEFINE todo == run[k].todo
               n == IF Len(todo) < MaxEvents THEN Len(todo) ELSE MaxEvents
    <3>1. run[k].at = "send" /\ todo \in Seq(Ids) /\ Len(todo) \in Nat /\ run[k].cursor \in Nat /\ run[k].last \in Ids
      BY <2>4, LoopType, LenProperties DEF SendChunk
    <3>2. n \in 0..Len(todo) /\ \A i \in 1..Len(todo) : todo[i] \in Ids
      BY <3>1, LimitsAssumption, ElementOfSeq
    <3>3. SubSeq(todo, 1, n) \in Seq(Ids) /\ SubSeq(todo, n + 1, Len(todo)) \in Seq(Ids)
      BY <3>1, <3>2, SubSeqProperties
    <3>4. Range(SubSeq(todo, 1, n)) \in SUBSET Ids
      BY <3>3, RangeOfSeq
    <3>5. run[k] = [at |-> "send", cursor |-> run[k].cursor, last |-> run[k].last, todo |-> todo]
      BY <2>0, <3>1 DEF Loops, Off, Starting
    <3> HIDE DEF n
    <3>6. [run[k] EXCEPT !.todo = SubSeq(todo, n + 1, Len(todo))] \in Loops
      BY <3>1, <3>3, <3>5 DEF Loops
    <3>7. /\ sent' = [sent EXCEPT ![s] = @ \cup Range(SubSeq(todo, 1, n))]
          /\ run' = [run EXCEPT ![k] = [run[k] EXCEPT !.todo = SubSeq(todo, n + 1, Len(todo))]]
      BY <2>0, <2>4 DEF SendChunk, n
    <3>8. run' \in [Replicas \X Sinks -> Loops]
      BY <2>0, <3>6, <3>7 DEF TypeOK
    <3>9. sent' \in [Sinks -> SUBSET Ids]
      BY <3>4, <3>7 DEF TypeOK
    <3> QED
      BY <1>1, <2>4, <3>8, <3>9 DEF SendChunk, tableVars, TypeOK
  <2>5. ASSUME NEW id \in Nat, AdvanceTo(r, s, id) PROVE cursor' \in [Sinks -> Nat \cup {None}] /\ run' \in [Replicas \X Sinks -> Loops]
    <3>1. [at |-> "wait", cursor |-> id] \in Loops
      BY <2>5 DEF Loops
    <3> QED
      BY <2>0, <2>5, <3>1 DEF AdvanceTo, TypeOK
  <2>6. CASE SendFails(r, s)
    <3> DEFINE upTo == run[k].todo[1] - 1
    <3>1. run[k].todo \in Seq(Ids) /\ run[k].todo # <<>> /\ run[k].cursor \in Nat
      BY <2>6, LoopType DEF SendFails
    <3>2. upTo \in Nat
      <4>1. Len(run[k].todo) \in Nat \ {0}
        BY <3>1, EmptySeq
      <4>2. run[k].todo[1] \in Ids
        BY <3>1, <4>1, ElementOfSeq
      <4> QED
        BY <4>2 DEF Ids
    <3>3. [at |-> "wait", cursor |-> run[k].cursor] \in Loops
      BY <3>1 DEF Loops
    <3>4. \/ AdvanceTo(r, s, upTo)
          \/ run' = [run EXCEPT ![k] = [at |-> "wait", cursor |-> run[k].cursor]] /\ UNCHANGED cursor
      BY <2>6 DEF SendFails
    <3> HIDE DEF upTo
    <3>5. cursor' \in [Sinks -> Nat \cup {None}] /\ run' \in [Replicas \X Sinks -> Loops]
      BY <2>0, <2>5, <3>2, <3>3, <3>4 DEF TypeOK
    <3> QED
      BY <1>1, <2>6, <3>5 DEF SendFails, tableVars, TypeOK
  <2>7. CASE Advance(r, s)
    <3>1. run[k].last \in Nat /\ AdvanceTo(r, s, run[k].last)
      BY <2>7, LoopType DEF Advance, Ids
    <3>2. cursor' \in [Sinks -> Nat \cup {None}] /\ run' \in [Replicas \X Sinks -> Loops]
      BY <2>5, <3>1
    <3> QED
      BY <1>1, <2>7, <3>2 DEF Advance, tableVars, TypeOK
  <2>8. CASE AdvanceFails(r, s)
    <3>1. [at |-> "wait", cursor |-> run[k].cursor] \in Loops
      BY <2>8, LoopType DEF AdvanceFails, Loops
    <3> QED
      BY <1>1, <2>0, <2>8, <3>1 DEF AdvanceFails, tableVars, TypeOK
  <2> QED
    BY <1>8, <2>1, <2>2, <2>3, <2>4, <2>6, <2>7, <2>8
<1> QED
  BY <1>2, <1>3, <1>4, <1>5, <1>6, <1>7, <1>8 DEF Next, Anchorer, Dispatcher

-----------------------------------------------------------------------------
(* The rows stay in order, and so does the chain.                          *)

\* What a step does to the table.
LEMMA TableSteps ==
    ASSUME [Next]_vars
    PROVE  \/ Tick
           \/ \E i \in Ids : CommitRecord(i) \/ AbortRecord(i)
           \/ SealBatch
           \/ \E r \in Replicas : PurgeDeletes(r)
           \/ WriteOwnRecord /\ UNCHANGED <<now, log, purged, cut>>
<1> DEFINE Rest == WriteOwnRecord /\ UNCHANGED <<now, log, purged, cut>>
<1>1. ASSUME NEW r \in Replicas, Purger(r) PROVE PurgeDeletes(r) \/ Rest
  BY <1>1 DEF Purger, PurgeReadsMinKept, PurgeReadsFloor, PurgeRecords, PurgeFails, tableVars, WriteOwnRecord
<1>2. ASSUME NEW r \in Replicas, Anchorer(r) PROVE Rest
  BY <1>2 DEF Anchorer, AnchorReadsHead, AnchorPutsObject, InsertAnchor, AnchorRecords, AnchorFails, tableVars, WriteOwnRecord
<1>3. ASSUME NEW r \in Replicas, Dispatcher(r) PROVE Rest
  BY <1>3 DEF Dispatcher, TryLock, NoticeLost, FirstCursor, EnsureCursor, ReadRows, SendChunk, SendFails,
     Advance, AdvanceFails, tableVars, WriteOwnRecord
<1>4. ASSUME NEW r \in Replicas, Restart(r) PROVE Rest
  BY <1>4 DEF Restart, tableVars, WriteOwnRecord
<1>5. LoseLock \/ UNCHANGED vars => Rest
  BY DEF LoseLock, vars, tableVars, WriteOwnRecord
<1>6. InsertRecord => Rest
  BY DEF InsertRecord, WriteOwnRecord
<1> QED
  BY <1>1, <1>2, <1>3, <1>4, <1>5, <1>6 DEF Next, Table

\* Sealing changes neither which rows there are nor when they were created.
LEMMA SealKeepsRows ==
    ASSUME TypeOK, ChainInv, NEW q, SealedBy(q)
    PROVE  /\ \A i \in Ids : (log'[i] = None <=> log[i] = None)
           /\ \A i \in Committed : log'[i].created = log[i].created
           /\ Committed' = Committed
           /\ Sealed' = Sealed \cup {q[k] : k \in 1..Len(q)}
           /\ \A i \in Sealed : log'[i] = log[i]
           /\ \A k \in 1..Len(q) : q[k] \notin Sealed /\ q[k] \in Committed /\ q[k] \in Ids
<1>1. /\ \A k \in 1..Len(q) : /\ log'[q[k]] \in Row /\ log'[q[k]].created = log[q[k]].created
                              /\ log'[q[k]].seq = ChainHead.seq + k
      /\ Len(q) \in Nat /\ ChainHead.seq \in Nat
  BY SealRowFacts, HeadFacts DEF SealedBy
<1>2. \A k \in 1..Len(q) : q[k] \in Committed /\ q[k] \notin Sealed /\ q[k] \in Ids /\ log'[q[k]].seq # 0 /\ log'[q[k]] # None
  BY <1>1, NoneAssumption DEF SealedBy, Unsealed, Committed
<1>3. \A i \in Ids : (\A k \in 1..Len(q) : q[k] # i) => log'[i] = log[i]
  BY DEF SealedBy
<1>4. \A i \in Ids : (log'[i] = None <=> log[i] = None)
  BY <1>2, <1>3 DEF Committed
<1>5. \A i \in Committed : log'[i].created = log[i].created
  BY <1>1, <1>2, <1>3 DEF Committed
<1>6. Committed' = Committed
  BY <1>4 DEF Committed
<1>7. \A i \in Sealed : i \in Ids /\ log'[i] = log[i]
  BY <1>2, <1>3 DEF Sealed, Committed
<1>8. Sealed' = Sealed \cup {q[k] : k \in 1..Len(q)}
  <2>1. ASSUME NEW i \in Committed PROVE i \in Sealed' <=> i \in Sealed \/ \E k \in 1..Len(q) : q[k] = i
    BY <1>2, <1>3, <1>6, <2>1 DEF Sealed, Committed
  <2> QED
    BY <1>2, <1>6, <2>1 DEF Sealed
<1> QED
  BY <1>2, <1>4, <1>5, <1>6, <1>7, <1>8

\* Deleting leaves the other rows as they are.
LEMMA DeleteKeepsRows ==
    ASSUME TypeOK, NEW D, Deleted(D)
    PROVE  /\ Committed' = Committed \ D /\ Sealed' = Sealed \ D
           /\ \A i \in Ids \ D : log'[i] = log[i]
           /\ \A i \in D : log'[i] = None
<1>1. /\ \A i \in Ids \ D : log'[i] = log[i]
      /\ \A i \in D : log'[i] = None /\ i \in Ids
  BY DEF Deleted, Committed
<1>2. Committed' = Committed \ D
  BY <1>1 DEF Committed
<1> QED
  BY <1>1, <1>2 DEF Sealed, Committed

\* A record that commits is not sealed yet.
LEMMA CommitKeepsRows ==
    ASSUME TypeOK, RowsInOrder, NEW i \in Ids, CommitRecord(i)
    PROVE  /\ Committed' = Committed \cup {i} /\ Sealed' = Sealed /\ i \notin Committed
           /\ open[i] \in Nat /\ log'[i].created = open[i] /\ log'[i].seq = 0 /\ log'[i] # None
           /\ \A j \in Ids \ {i} : log'[j] = log[j] /\ open'[j] = open[j]
           /\ open'[i] = None
<1>1. open[i] \in Nat /\ log[i] = None
  BY DEF CommitRecord, TypeOK, RowsInOrder
<1>2. NewRow(open[i]) \in Row /\ NewRow(open[i]).created = open[i] /\ NewRow(open[i]).seq = 0
  BY <1>1 DEF NewRow, Row, Genesis, Hash
<1>3. log'[i] = NewRow(open[i]) /\ open'[i] = None
      /\ \A j \in Ids \ {i} : log'[j] = log[j] /\ open'[j] = open[j]
  BY DEF CommitRecord, TypeOK
<1>4. log'[i].created = open[i] /\ log'[i].seq = 0 /\ log'[i] # None
  BY <1>2, <1>3, NoneAssumption
<1>5. Committed' = Committed \cup {i} /\ i \notin Committed
  BY <1>1, <1>3, <1>4 DEF Committed
<1>6. Sealed' = Sealed
  BY <1>3, <1>4, <1>5 DEF Sealed, Committed
<1> QED
  BY <1>1, <1>3, <1>4, <1>5, <1>6

\* Ids are given out in the order of time.
LEMMA RowsStep ==
    ASSUME TypeOK, RowsInOrder, ChainInv, [Next]_vars
    PROVE  RowsInOrder'
<1>0. \A i \in Ids : (open[i] # None => open[i] \in Nat) /\ (log[i] # None => log[i].created \in Nat)
  BY RowType DEF TypeOK, Committed
<1>1. CASE Tick
  <2>1. UNCHANGED <<nextId, open, log>> /\ now' = now + 1 /\ now \in Nat
        /\ \A i \in Ids : open[i] # None => now < open[i] + MaxOpen
    BY <1>1 DEF Tick, TypeOK
  <2> QED
    BY <1>0, <2>1, WindowsAssumption DEF RowsInOrder, Known, Born
<1>2. ASSUME NEW i \in Ids, CommitRecord(i) PROVE RowsInOrder'
  <2>0. /\ open[i] \in Nat /\ log'[i].created = open[i] /\ log'[i] # None /\ open'[i] = None
        /\ \A j \in Ids \ {i} : log'[j] = log[j] /\ open'[j] = open[j]
    BY <1>2, CommitKeepsRows
  <2>1. \A j \in Ids : (Known(j)' => Known(j)) /\ (Known(j) => Born(j)' = Born(j))
    <3>1. Known(i) /\ Born(i) = open[i] /\ Born(i)' = open[i]
      BY <2>0, NoneAssumption DEF Known, Born
    <3>2. \A j \in Ids \ {i} : (Known(j)' <=> Known(j)) /\ Born(j)' = Born(j)
      BY <2>0 DEF Known, Born
    <3> QED
      BY <3>1, <3>2
  <2>2. UNCHANGED <<now, nextId>> /\ \A j \in Ids : open'[j] # None => open'[j] = open[j] /\ log'[j] = log[j]
    BY <1>2, CommitKeepsRows DEF CommitRecord
  <2> QED
    BY <2>1, <2>2 DEF RowsInOrder
<1>3. ASSUME NEW i \in Ids, AbortRecord(i) PROVE RowsInOrder'
  <2>1. UNCHANGED <<now, nextId, log>> /\ \A j \in Ids : open'[j] = IF j = i THEN None ELSE open[j]
    BY <1>3 DEF AbortRecord, TypeOK
  <2>2. log[i] = None
    BY <1>3 DEF AbortRecord, RowsInOrder
  <2> QED
    BY <2>1, <2>2 DEF RowsInOrder, Known, Born
<1>4. CASE SealBatch
  <2>1. PICK q : SealedBy(q)
    BY <1>4, SealFacts
  <2>2. /\ \A i \in Ids : (log'[i] = None <=> log[i] = None)
        /\ \A i \in Committed : log'[i].created = log[i].created
    BY <2>1, SealKeepsRows
  <2>3. UNCHANGED <<now, nextId, open>>
    BY <2>1 DEF SealedBy
  <2>4. \A i \in Ids : (Known(i)' <=> Known(i)) /\ (Known(i) => Born(i)' = Born(i))
    BY <2>2, <2>3 DEF Known, Born, Committed
  <2> QED
    BY <2>2, <2>3, <2>4 DEF RowsInOrder
<1>5. ASSUME NEW r \in Replicas, PurgeDeletes(r) PROVE RowsInOrder'
  <2>1. PICK D : Deleted(D)
    BY <1>5, DeleteFacts
  <2>2. \A i \in Ids : log'[i] = None \/ log'[i] = log[i]
    BY <2>1, DeleteKeepsRows
  <2>3. UNCHANGED <<now, nextId, open>>
    BY <2>1 DEF Deleted
  <2>4. \A i \in Ids : (Known(i)' => Known(i)) /\ (Known(i)' => Born(i)' = Born(i))
    BY <2>2, <2>3 DEF Known, Born
  <2> QED
    BY <2>2, <2>3, <2>4 DEF RowsInOrder
<1>6. CASE WriteOwnRecord /\ UNCHANGED <<now, log>>
  <2>1. CASE UNCHANGED <<open, nextId>>
    BY <1>6, <2>1 DEF RowsInOrder, Known, Born
  <2>2. CASE nextId <= MaxId /\ open' = [open EXCEPT ![nextId] = now] /\ nextId' = nextId + 1
    <3>1. nextId \in Ids /\ nextId \in Nat /\ now \in Nat /\ now # None
      BY <2>2, WindowsAssumption, NoneAssumption DEF TypeOK, Ids
    <3>2. \A i \in Ids : open'[i] = IF i = nextId THEN now ELSE open[i]
      BY <2>2 DEF TypeOK
    <3>3. ~Known(nextId) /\ log[nextId] = None
      BY <3>1 DEF RowsInOrder, Known
    <3>4. \A i \in Ids : i # nextId => (Known(i)' <=> Known(i)) /\ Born(i)' = Born(i)
      BY <1>6, <3>2 DEF Known, Born
    <3>5. \A i \in Ids : i = nextId => Known(i)' /\ Born(i)' = now
      BY <1>6, <3>1, <3>2 DEF Known, Born
    <3>6. \A i \in Ids : Known(i)' => i < nextId' /\ Born(i)' <= now'
      BY <1>6, <2>2, <3>1, <3>2, <3>3, <3>4, <3>5 DEF RowsInOrder, Known, Born, Ids
    <3>7. \A i \in Ids : open'[i] # None => log'[i] = None /\ now' <= open'[i] + MaxOpen
      BY <1>6, <3>1, <3>2, <3>3, WindowsAssumption DEF RowsInOrder
    <3>8. \A i, j \in Ids : i < j /\ Known(i)' /\ Known(j)' => Born(i)' <= Born(j)'
      <4> SUFFICES ASSUME NEW i \in Ids, NEW j \in Ids, i < j, Known(i)', Known(j)' PROVE Born(i)' <= Born(j)'
        OBVIOUS
      <4>1. i # nextId
        BY <2>2, <3>1, <3>6 DEF Ids
      <4> QED
        BY <1>6, <3>1, <3>2, <3>4, <4>1 DEF RowsInOrder, Known, Born
    <3> QED
      BY <3>6, <3>7, <3>8 DEF RowsInOrder
  <2> QED
    BY <1>6, <2>1, <2>2 DEF WriteOwnRecord
<1> QED
  BY <1>1, <1>2, <1>3, <1>4, <1>5, <1>6, TableSteps

\* Fewer rows, each as it was, are a chain like before.
LEMMA ChainShrinks ==
    ASSUME ChainInv, Sealed' \subseteq Sealed, \A i \in Sealed' : log'[i] = log[i]
    PROVE  ChainInv'
<1>1. SeqsBounded'
  BY DEF ChainInv, SeqsBounded
<1>2. HashesRight'
  BY DEF ChainInv, HashesRight
<1>3. ChainLinked'
  BY DEF ChainInv, ChainLinked
<1> QED
  BY <1>1, <1>2, <1>3 DEF ChainInv

\* A batch goes onto the head of the chain.
LEMMA SealChains ==
    ASSUME TypeOK, ChainInv, NEW q, SealedBy(q)
    PROVE  ChainInv'
<1> DEFINE h == ChainHead.seq
           N == {q[k] : k \in 1..Len(q)}
<1>1. /\ Sealed' = Sealed \cup N
      /\ \A i \in Sealed : log'[i] = log[i]
  BY SealKeepsRows
<1>2. \A k \in 1..Len(q) : /\ log'[q[k]].seq = h + k
                           /\ log'[q[k]].prev = ChainHead.hash \o SubSeq(q, 1, k - 1)
                           /\ log'[q[k]].hash = ChainHead.hash \o SubSeq(q, 1, k)
                           /\ log'[q[k]].hash = Append(log'[q[k]].prev, q[k])
  BY SealRowFacts
<1>3. /\ h \in Nat /\ ChainHead.hash \in Seq(Ids)
      /\ \A i \in Sealed : log[i].seq \in Nat /\ log[i].seq <= h
      /\ \A i \in Sealed : log[i].seq = h => log[i].hash = ChainHead.hash
  BY HeadFacts, SealedType
<1>4. Len(q) \in Nat /\ \A k \in 1..Len(q) : k \in Nat \ {0} /\ k <= Len(q)
  BY DEF SealedBy
<1> HIDE DEF h
<1>0. \A k \in 1..Len(q) : log'[q[k]].seq = h + k
  BY <1>2
<1>5. SeqsBounded'
  <2>1. h + Len(q) \in Nat /\ \A i \in Sealed' : log'[i].seq <= h + Len(q)
    <3>1. \A i \in Sealed : log'[i].seq <= h + Len(q)
      BY <1>1, <1>3, <1>4
    <3>2. \A k \in 1..Len(q) : log'[q[k]].seq <= h + Len(q)
      BY <1>0, <1>3, <1>4
    <3> QED
      BY <1>1, <1>3, <1>4, <3>1, <3>2
  <2> QED
    BY <2>1 DEF SeqsBounded
<1>6. HashesRight'
  BY <1>1, <1>2, ZenonT(60) DEF ChainInv, HashesRight
<1>7. ChainLinked'
  <2> SUFFICES ASSUME NEW i \in Sealed', NEW j \in Sealed'
               PROVE  /\ log'[i].seq = log'[j].seq => i = j
                      /\ log'[j].seq = log'[i].seq + 1 => log'[j].prev = log'[i].hash
    BY DEF ChainLinked
  <2>1. CASE i \in Sealed /\ j \in Sealed
    BY <1>1, <2>1 DEF ChainInv, ChainLinked
  <2>2. ASSUME i \in Sealed, NEW k \in 1..Len(q), j = q[k]
        PROVE  /\ log'[i].seq # log'[j].seq
               /\ log'[j].seq = log'[i].seq + 1 => log'[j].prev = log'[i].hash
    <3>1. log'[i] = log[i] /\ log[i].seq \in Nat /\ log[i].seq <= h /\ log'[j].seq = h + k /\ k \in Nat \ {0}
      BY <1>0, <1>1, <1>3, <1>4, <2>2
    <3>2. ASSUME log'[j].seq = log'[i].seq + 1 PROVE log'[j].prev = log'[i].hash
      <4>1. k = 1 /\ log[i].seq = h
        BY <1>3, <3>1, <3>2
      <4>2. SubSeq(q, 1, k - 1) = <<>>
        BY <4>1, SubSeqEmpty
      <4>3. log'[j].prev = ChainHead.hash
        BY <1>2, <1>3, <2>2, <4>2, ConcatEmptySeq
      <4> QED
        BY <1>3, <2>2, <3>1, <4>1, <4>3
    <3> QED
      BY <1>3, <3>1, <3>2
  <2>3. ASSUME j \in Sealed, NEW k \in 1..Len(q), i = q[k]
        PROVE  log'[i].seq # log'[j].seq /\ log'[j].seq # log'[i].seq + 1
    <3>1. log'[j] = log[j] /\ log[j].seq \in Nat /\ log[j].seq <= h /\ log'[i].seq = h + k /\ k \in Nat \ {0}
      BY <1>0, <1>1, <1>3, <1>4, <2>3
    <3> QED
      BY <1>3, <3>1
  <2>4. ASSUME NEW k \in 1..Len(q), NEW l \in 1..Len(q), i = q[k], j = q[l]
        PROVE  /\ log'[i].seq = log'[j].seq => i = j
               /\ log'[j].seq = log'[i].seq + 1 => log'[j].prev = log'[i].hash
    <3>1. log'[i].seq = h + k /\ log'[j].seq = h + l /\ k \in Nat /\ l \in Nat
      BY <1>0, <1>4, <2>4
    <3>2. ASSUME log'[j].seq = log'[i].seq + 1 PROVE l - 1 = k
      BY <1>3, <3>1, <3>2
    <3>3. ASSUME log'[i].seq = log'[j].seq PROVE k = l
      BY <1>3, <3>1, <3>3
    <3> QED
      BY <1>2, <2>4, <3>2, <3>3
  <2> QED
    BY <1>1, <2>1, <2>2, <2>3, <2>4
<1> QED
  BY <1>5, <1>6, <1>7 DEF ChainInv

\* Every step keeps the chain linked.
LEMMA ChainStep ==
    ASSUME TypeOK, RowsInOrder, ChainInv, [Next]_vars
    PROVE  ChainInv'
<1>1. ASSUME NEW i \in Ids, CommitRecord(i) PROVE ChainInv'
  <2>1. Sealed' = Sealed /\ i \notin Sealed /\ \A j \in Ids \ {i} : log'[j] = log[j]
    BY <1>1, CommitKeepsRows DEF Sealed
  <2> QED
    BY <2>1, ChainShrinks DEF Sealed, Committed
<1>2. CASE SealBatch
  BY <1>2, SealFacts, SealChains
<1>3. ASSUME NEW r \in Replicas, PurgeDeletes(r) PROVE ChainInv'
  <2>1. PICK D : Deleted(D)
    BY <1>3, DeleteFacts
  <2>2. Sealed' = Sealed \ D /\ \A i \in Ids \ D : log'[i] = log[i]
    BY <2>1, DeleteKeepsRows
  <2> QED
    BY <2>2, ChainShrinks DEF Sealed, Committed
<1>4. CASE UNCHANGED log
  BY <1>4, ChainShrinks DEF Sealed, Committed
<1> QED
  BY <1>1, <1>2, <1>3, <1>4, RowSteps

-----------------------------------------------------------------------------
(* The anchors.                                                            *)

\* Unless a purge took the head, the head's hash covers every sealed row.
WholeChain ==
    /\ Len(ChainHead.hash) = ChainHead.seq
    /\ \A i \in Sealed : log[i].hash = SubSeq(ChainHead.hash, 1, log[i].seq)

\* The head that a call read is behind the head now, and on the same chain.
OnChain(e) == e.seq <= ChainHead.seq /\ e.hash = SubSeq(ChainHead.hash, 1, e.seq)

\* So is the head that an anchor records.
Speaks(a) == a.to <= ChainHead.seq /\ (a.rows > 0 => a.head = SubSeq(ChainHead.hash, 1, a.to))

\* An anchor to be inserted leaves nothing out: it starts at or before the
\* oldest row, or right after an anchor at the latest.
Joins(a) ==
    \/ a.from <= ChainHead.seq + 1 /\ \A i \in Sealed : log[i].seq >= a.from
    \/ \E l \in 1..Len(anchors) : a.from <= anchors[l].to + 1

AnchorsCover ==
    \A k \in 1..Len(anchors), i \in Sealed :
        log[i].seq \in anchors[1].from..anchors[k].to =>
            \E l \in 1..Len(anchors) : log[i].seq \in anchors[l].from..anchors[l].to

\* The calls under way, and the anchors they left.
CallsOnChain ==
    \A k \in Replicas \X Calls :
        /\ anchoring[k].at = "head" => OnChain(anchoring[k].head)
        /\ anchoring[k].at = "insert" => Speaks(anchoring[k].anchor) /\ Joins(anchoring[k].anchor)

AnchorsSpeak == \A l \in 1..Len(anchors) : Speaks(anchors[l])

AnchorInv == ~cut => WholeChain /\ AnchorsSpeak /\ CallsOnChain /\ AnchorsCover

\* While the head row stays, it stays the head.
LEMMA HeadSame ==
    ASSUME TypeOK, ChainInv, TypeOK', ChainInv', Sealed' \subseteq Sealed,
           \A i \in Sealed' : log'[i] = log[i],
           \A i \in Sealed : log[i].seq = ChainHead.seq => i \in Sealed'
    PROVE  ChainHead'.seq = ChainHead.seq /\ ChainHead'.hash = ChainHead.hash
<1>1. CASE Sealed = {}
  BY <1>1, HeadFacts, HeadNext
<1>2. CASE Sealed # {}
  <2>1. PICK i \in Sealed : log[i].seq = ChainHead.seq
    BY <1>2, HeadFacts
  <2>2. i \in Sealed' /\ log'[i] = log[i] /\ log[i].hash = ChainHead.hash
    BY <2>1, HeadFacts
  <2>3. PICK j \in Sealed' : log'[j].seq = ChainHead'.seq
    BY <2>2, HeadNext
  <2>4. log[j].seq <= ChainHead.seq /\ log'[i].seq <= ChainHead'.seq /\ log'[j] = log[j]
    BY <2>2, <2>3, HeadFacts, HeadNext
  <2>5. ChainHead.seq \in Nat /\ ChainHead'.seq \in Nat
    BY HeadFacts, HeadNext
  <2>6. ChainHead'.seq = ChainHead.seq
    BY <2>1, <2>2, <2>3, <2>4, <2>5
  <2> QED
    BY <2>1, <2>2, <2>6, HeadNext
<1> QED
  BY <1>1, <1>2

\* Sealing puts the batch behind the head.
LEMMA HeadAfterSeal ==
    ASSUME TypeOK, ChainInv, TypeOK', ChainInv', NEW q, SealedBy(q)
    PROVE  ChainHead'.seq = ChainHead.seq + Len(q) /\ ChainHead'.hash = ChainHead.hash \o q
<1>1. q \in Seq(Ids) /\ Len(q) \in Nat \ {0} /\ Len(q) \in 1..Len(q)
  BY DEF SealedBy
<1> DEFINE z == q[Len(q)]
           n == Len(q)
<1>2. log'[z].seq = ChainHead.seq + n /\ log'[z].hash = ChainHead.hash \o q
  <2>1. log'[z].seq = ChainHead.seq + n /\ log'[z].hash = ChainHead.hash \o SubSeq(q, 1, n)
    BY <1>1, SealRowFacts
  <2>2. SubSeq(q, 1, n) = q
    BY <1>1, SubSeqFull
  <2> QED
    BY <2>1, <2>2
<1>3. /\ Sealed' = Sealed \cup {q[k] : k \in 1..n} /\ z \in Sealed'
      /\ \A i \in Sealed : log'[i] = log[i]
  BY <1>1, SealKeepsRows
<1>4. \A k \in 1..n : log'[q[k]].seq = ChainHead.seq + k
  BY SealRowFacts
<1>5. ChainHead.seq \in Nat /\ \A i \in Sealed : log[i].seq \in Nat /\ log[i].seq <= ChainHead.seq
  BY HeadFacts, SealedType
<1> HIDE DEF z, n
<1>6. PICK j \in Sealed' : log'[j].seq = ChainHead'.seq
  BY <1>3, HeadNext
<1>7. n \in Nat \ {0} /\ \A k \in 1..n : k \in Nat /\ k <= n
  BY <1>1 DEF n
<1>8. \A i \in Sealed' : log'[i].seq <= ChainHead.seq + n
  <2>1. \A i \in Sealed : log'[i].seq <= ChainHead.seq + n
    BY <1>3, <1>5, <1>7
  <2>2. \A k \in 1..n : log'[q[k]].seq <= ChainHead.seq + n
    BY <1>4, <1>5, <1>7
  <2> QED
    BY <1>3, <2>1, <2>2
<1>9. ChainHead'.seq \in Nat /\ ChainHead'.seq >= log'[z].seq
  BY <1>3, HeadNext
<1>10. ChainHead'.seq = ChainHead.seq + n
  BY <1>2, <1>5, <1>6, <1>7, <1>8, <1>9
<1>11. ChainHead'.hash = log'[z].hash
  BY <1>2, <1>3, <1>10, HeadNext
<1> QED
  BY <1>2, <1>10, <1>11 DEF n

\* What the head's hash covered, it covers still.
Grows ==
    /\ ChainHead.seq <= ChainHead'.seq /\ ChainHead.seq \in Nat /\ ChainHead'.seq \in Nat
    /\ \A n \in 0..ChainHead.seq : SubSeq(ChainHead'.hash, 1, n) = SubSeq(ChainHead.hash, 1, n)
    /\ \A i \in Sealed' : (i \in Sealed /\ log'[i] = log[i]) \/ log'[i].seq > ChainHead.seq

LEMMA SealGrows ==
    ASSUME TypeOK, ChainInv, TypeOK', ChainInv', WholeChain, NEW q, SealedBy(q)
    PROVE  Grows /\ WholeChain'
<1> DEFINE H == ChainHead.hash
           h == ChainHead.seq
           m == Len(q)
<1>1. ChainHead'.seq = h + m /\ ChainHead'.hash = H \o q
  BY HeadAfterSeal
<1>2. H \in Seq(Ids) /\ q \in Seq(Ids) /\ h \in Nat /\ Len(H) = h /\ m \in Nat
  BY HeadFacts DEF SealedBy, WholeChain
<1>3. /\ Sealed' = Sealed \cup {q[k] : k \in 1..m}
      /\ \A i \in Sealed : log'[i] = log[i]
  BY SealKeepsRows
<1>4. \A k \in 1..m : log'[q[k]].seq = h + k /\ log'[q[k]].hash = H \o SubSeq(q, 1, k)
  BY SealRowFacts
<1>5. \A i \in Sealed : log[i].seq \in Nat \ {0} /\ log[i].seq <= h
  BY HeadFacts, SealedType
<1>6. \A i \in Sealed : log[i].hash = SubSeq(H, 1, log[i].seq)
  BY DEF WholeChain
<1> HIDE DEF H, h, m
<1>7. ASSUME NEW n \in 0..h PROVE SubSeq(H \o q, 1, n) = SubSeq(H, 1, n)
  <2>1. CASE n = 0
    BY <2>1, SubSeqEmpty
  <2>2. CASE n # 0
    <3>1. n \in 1..Len(H) /\ 1 \in 1..Len(H)
      BY <1>2, <2>2
    <3> QED
      BY <1>2, <3>1, SubSeqOfConcat1
  <2> QED
    BY <2>1, <2>2
<1>8. ASSUME NEW k \in 1..m PROVE H \o SubSeq(q, 1, k) = SubSeq(H \o q, 1, h + k)
  <2>1. SubSeq(q, 1, k) \in Seq(Ids) /\ Len(SubSeq(q, 1, k)) = k
        /\ \A i \in 1..k : SubSeq(q, 1, k)[i] = q[i]
    BY <1>2, ElementOfSeq, SubSeqProperties DEF m
  <2>2. /\ H \o SubSeq(q, 1, k) \in Seq(Ids) /\ Len(H \o SubSeq(q, 1, k)) = h + k
        /\ \A i \in 1..h + k : (H \o SubSeq(q, 1, k))[i] = IF i <= h THEN H[i] ELSE SubSeq(q, 1, k)[i - h]
    <3> DEFINE p == SubSeq(q, 1, k)
    <3>1. p \in Seq(Ids) /\ Len(p) = k
      BY <2>1
    <3> HIDE DEF p
    <3>2. /\ H \o p \in Seq(Ids) /\ Len(H \o p) = Len(H) + Len(p)
          /\ \A i \in 1..Len(H) + Len(p) : (H \o p)[i] = IF i <= Len(H) THEN H[i] ELSE p[i - Len(H)]
      BY <1>2, <3>1, ConcatProperties
    <3> QED
      BY <1>2, <3>1, <3>2 DEF p
  <2>3. /\ H \o q \in Seq(Ids) /\ Len(H \o q) = h + m
        /\ \A i \in 1..h + m : (H \o q)[i] = IF i <= h THEN H[i] ELSE q[i - h]
    BY <1>2, ConcatProperties DEF m
  <2>4. k \in Nat \ {0} /\ k <= m
    BY <1>2
  <2>5. h + k \in Int /\ \A i \in 1..h + k : i \in 1..Len(H \o q) /\ (H \o q)[i] \in Ids
    BY <1>2, <2>3, <2>4, ElementOfSeq
  <2>6. /\ SubSeq(H \o q, 1, h + k) \in Seq(Ids) /\ Len(SubSeq(H \o q, 1, h + k)) = h + k
        /\ \A i \in 1..h + k : SubSeq(H \o q, 1, h + k)[i] = (H \o q)[i]
    BY <1>2, <2>4, <2>5, SubSeqProperties
  <2>7. ASSUME NEW i \in 1..h + k PROVE (H \o SubSeq(q, 1, k))[i] = SubSeq(H \o q, 1, h + k)[i]
    <3>1. i \in 1..h + m /\ (i > h => i - h \in 1..k)
      BY <1>2, <2>4
    <3> QED
      BY <1>2, <2>1, <2>2, <2>3, <2>6, <3>1
  <2> QED
    BY <2>2, <2>6, <2>7, SeqEqual
<1>9. Grows
  <2>1. \A i \in Sealed' : (i \in Sealed /\ log'[i] = log[i]) \/ log'[i].seq > h
    BY <1>2, <1>3, <1>4
  <2>2. \A n \in 0..h : SubSeq(ChainHead'.hash, 1, n) = SubSeq(H, 1, n)
    BY <1>1, <1>7
  <2> QED
    BY <1>1, <1>2, <2>1, <2>2 DEF Grows, H, h
<1>10. WholeChain'
  <2>1. Len(H \o q) = h + m
    BY <1>2, ConcatProperties DEF m
  <2>2. ASSUME NEW i \in Sealed' PROVE log'[i].hash = SubSeq(H \o q, 1, log'[i].seq)
    <3>1. CASE i \in Sealed
      BY <1>2, <1>3, <1>5, <1>6, <1>7, <3>1
    <3>2. ASSUME NEW k \in 1..m, i = q[k] PROVE log'[i].hash = SubSeq(H \o q, 1, log'[i].seq)
      BY <1>4, <1>8, <3>2
    <3> QED
      BY <1>3, <3>1, <3>2
  <2> QED
    BY <1>1, <2>1, <2>2 DEF WholeChain
<1> QED
  BY <1>9, <1>10

\* Every step that leaves the head in place lets the chain grow.
LEMMA ChainGrows ==
    ASSUME TypeOK, RowsInOrder, ChainInv, TypeOK', ChainInv', WholeChain, ~cut', [Next]_vars
    PROVE  Grows /\ WholeChain' /\ ~cut
<1>1. ASSUME ChainHead'.seq = ChainHead.seq, ChainHead'.hash = ChainHead.hash, Sealed' \subseteq Sealed,
             \A i \in Sealed' : log'[i] = log[i]
      PROVE  Grows /\ WholeChain'
  <2>1. ChainHead.seq \in Nat
    BY HeadFacts
  <2> QED
    BY <1>1, <2>1 DEF Grows, WholeChain
<1>2. ASSUME NEW i \in Ids, CommitRecord(i) PROVE Grows /\ WholeChain' /\ ~cut
  <2>1. Sealed' = Sealed /\ \A j \in Sealed' : log'[j] = log[j]
    BY <1>2, CommitKeepsRows DEF Sealed, Committed
  <2>2. ~cut
    BY <1>2 DEF CommitRecord
  <2> QED
    BY <1>1, <2>1, <2>2, HeadSame
<1>3. CASE SealBatch
  BY <1>3, SealFacts, SealGrows DEF SealBatch
<1>4. ASSUME NEW r \in Replicas, PurgeDeletes(r) PROVE Grows /\ WholeChain' /\ ~cut
  <2>1. PICK D : Deleted(D)
    BY <1>4, DeleteFacts
  <2>2. Sealed' = Sealed \ D /\ \A i \in Sealed' : log'[i] = log[i]
    BY <2>1, DeleteKeepsRows DEF Sealed, Committed
  <2>3. ~cut /\ \A i \in D \cap Sealed : log[i].seq # MaxSeq
    BY <2>1 DEF Deleted, TypeOK
  <2>4. ChainHead.seq = MaxSeq
    BY HeadFacts
  <2> QED
    BY <1>1, <2>2, <2>3, <2>4, HeadSame
<1>5. CASE UNCHANGED <<log, purged, cut>>
  <2>1. Sealed' = Sealed /\ \A j \in Sealed' : log'[j] = log[j]
    BY <1>5 DEF Sealed, Committed
  <2> QED
    BY <1>1, <1>5, <2>1, HeadSame
<1> QED
  BY <1>2, <1>3, <1>4, <1>5, RowSteps

\* What was on the chain is on it still.
LEMMA SpeaksKept ==
    ASSUME Grows
    PROVE  /\ \A e \in ChainEnd : OnChain(e) => OnChain(e)'
           /\ \A a \in Anchor : Speaks(a) => Speaks(a)'
<1>1. ASSUME NEW e \in ChainEnd, OnChain(e) PROVE OnChain(e)'
  <2>1. e.seq \in Nat /\ e.seq \in 0..ChainHead.seq
    BY <1>1 DEF ChainEnd, OnChain, Grows
  <2> QED
    BY <1>1, <2>1 DEF OnChain, Grows
<1>2. ASSUME NEW a \in Anchor, Speaks(a) PROVE Speaks(a)'
  <2>1. a.to \in Nat /\ a.to \in 0..ChainHead.seq
    BY <1>2 DEF Anchor, Speaks, Grows
  <2> QED
    BY <1>2, <2>1 DEF Speaks, Grows
<1> QED
  BY <1>1, <1>2

\* A new anchor joins the others wherever the chain has grown to.
LEMMA JoinsKept ==
    ASSUME TypeOK, TypeOK', Grows, NEW a \in Anchor, Joins(a),
           \A l \in 1..Len(anchors) : l \in 1..Len(anchors') /\ anchors'[l] = anchors[l]
    PROVE  Joins(a)'
<1>1. CASE a.from <= ChainHead.seq + 1 /\ \A i \in Sealed : log[i].seq >= a.from
  <2>1. a.from \in Nat /\ ChainHead.seq \in Nat /\ ChainHead'.seq \in Nat /\ ChainHead.seq <= ChainHead'.seq
    BY DEF Anchor, Grows
  <2>2. \A i \in Sealed' : log'[i].seq \in Nat
    <3>1. \A i \in Sealed' : log'[i] \in Row
      BY NoneAssumption DEF Sealed, Committed, TypeOK
    <3> QED
      BY <3>1 DEF Row
  <2>3. \A i \in Sealed' : (i \in Sealed /\ log'[i] = log[i]) \/ log'[i].seq > ChainHead.seq
    BY DEF Grows
  <2>4. \A i \in Sealed' : log'[i].seq >= a.from
    BY <1>1, <2>1, <2>2, <2>3
  <2> QED
    BY <1>1, <2>1, <2>4 DEF Joins
<1>2. CASE \E l \in 1..Len(anchors) : a.from <= anchors[l].to + 1
  BY <1>2 DEF Joins
<1> QED
  BY <1>1, <1>2 DEF Joins

\* The anchors cover what they covered: new rows are behind them all.
LEMMA CoverKept ==
    ASSUME TypeOK, TypeOK', Grows, AnchorsSpeak, AnchorsCover, UNCHANGED anchors
    PROVE  AnchorsCover' /\ AnchorsSpeak'
<1>0. \A l \in 1..Len(anchors) : anchors[l] \in Anchor
  BY ElementOfSeq DEF TypeOK
<1>1. AnchorsSpeak'
  BY <1>0, SpeaksKept DEF AnchorsSpeak
<1>2. AnchorsCover'
  <2> SUFFICES ASSUME NEW k \in 1..Len(anchors), NEW i \in Sealed',
                      log'[i].seq \in anchors[1].from..anchors[k].to
               PROVE  \E l \in 1..Len(anchors) : log'[i].seq \in anchors[l].from..anchors[l].to
    BY DEF AnchorsCover
  <2>1. anchors[k].to \in Nat /\ anchors[k].to <= ChainHead.seq /\ ChainHead.seq \in Nat
    BY <1>0 DEF Anchor, AnchorsSpeak, Speaks, Grows
  <2>2. log'[i].seq <= anchors[k].to /\ log'[i].seq \in Int
    BY DEF TypeOK
  <2>3. i \in Sealed /\ log'[i] = log[i]
    BY <2>1, <2>2 DEF Grows
  <2> QED
    BY <2>3 DEF AnchorsCover
<1> QED
  BY <1>1, <1>2

\* Every step keeps the anchors on the chain.
LEMMA AnchorStep ==
    ASSUME TypeOK, RowsInOrder, ChainInv, TypeOK', ChainInv', AnchorInv, [Next]_vars
    PROVE  AnchorInv'
<1> SUFFICES ASSUME ~cut' PROVE WholeChain' /\ AnchorsSpeak' /\ CallsOnChain' /\ AnchorsCover'
  BY DEF AnchorInv
<1>1. WholeChain /\ AnchorsSpeak /\ CallsOnChain /\ AnchorsCover
  <2>1. ~cut
    <3>1. cut => cut'
      <4>1. ASSUME NEW r \in Replicas, PurgeDeletes(r) PROVE cut => cut'
        BY <4>1, DeleteFacts DEF Deleted
      <4> QED
        BY <4>1, RowSteps DEF CommitRecord, SealBatch
    <3> QED
      BY <3>1
  <2> QED
    BY <2>1 DEF AnchorInv
<1>2. Grows /\ WholeChain'
  BY <1>1, ChainGrows
<1>3. \A k \in Replicas \X Calls :
        /\ anchoring[k].at = "head" => anchoring[k].head \in ChainEnd
        /\ anchoring[k].at = "insert" => anchoring[k].anchor \in Anchor
  BY AnchoringType
<1>4. ASSUME NEW k \in Replicas \X Calls, anchoring'[k] = anchoring[k],
             \A l \in 1..Len(anchors) : l \in 1..Len(anchors') /\ anchors'[l] = anchors[l]
      PROVE  /\ anchoring'[k].at = "head" => OnChain(anchoring[k].head)'
             /\ anchoring'[k].at = "insert" => Speaks(anchoring[k].anchor)' /\ Joins(anchoring[k].anchor)'
  <2>1. ASSUME anchoring[k].at = "head" PROVE OnChain(anchoring[k].head)'
    <3> DEFINE e == anchoring[k].head
    <3>1. e \in ChainEnd /\ OnChain(e) /\ e' = e
      BY <1>1, <1>3, <1>4, <2>1 DEF CallsOnChain
    <3>2. OnChain(e)'
      BY <1>2, <3>1, SpeaksKept DEF OnChain
    <3> QED
      BY <3>2
  <2>2. ASSUME anchoring[k].at = "insert" PROVE Speaks(anchoring[k].anchor)' /\ Joins(anchoring[k].anchor)'
    <3>1. PICK a \in Anchor : a = anchoring[k].anchor
      BY <1>3, <2>2
    <3>2. Speaks(a) /\ Joins(a) /\ anchoring'[k].anchor = a
      BY <1>1, <1>4, <2>2, <3>1 DEF CallsOnChain
    <3>3. Speaks(a)' /\ Joins(a)'
      BY <1>2, <1>4, <3>2, SpeaksKept, JoinsKept
    <3> QED
      BY <3>2, <3>3 DEF Speaks, Joins
  <2> QED
    BY <1>4, <2>1, <2>2
<1>5. ASSUME UNCHANGED anchors,
             \A k \in Replicas \X Calls : anchoring'[k] = anchoring[k] \/ anchoring'[k].at \notin {"head", "insert"}
      PROVE  AnchorsSpeak' /\ CallsOnChain' /\ AnchorsCover'
  <2>1. CallsOnChain'
    BY <1>4, <1>5 DEF CallsOnChain
  <2> QED
    BY <1>1, <1>2, <1>5, <2>1, CoverKept
<1>6. ASSUME NEW k \in Replicas \X Calls, AnchorReadsHead(k) PROVE AnchorsSpeak' /\ CallsOnChain' /\ AnchorsCover'
  <2>1. UNCHANGED <<log, anchors>> /\ anchoring' = [anchoring EXCEPT ![k] = [at |-> "head", head |-> ChainHead]]
    BY <1>6 DEF AnchorReadsHead, tableVars
  <2>2. anchoring'[k] = [at |-> "head", head |-> ChainHead]
        /\ \A j \in Replicas \X Calls : j # k => anchoring'[j] = anchoring[j]
    BY <2>1 DEF TypeOK
  <2>3. ChainHead' = ChainHead
    BY <2>1 DEF ChainHead, MaxSeq, At, Sealed, Committed
  <2>4. ChainHead.hash = SubSeq(ChainHead.hash, 1, ChainHead.seq) /\ ChainHead.seq \in Nat
    BY <1>1, HeadFacts, SubSeqFull DEF WholeChain
  <2>5. CallsOnChain'
    <3> SUFFICES ASSUME NEW j \in Replicas \X Calls
                 PROVE  /\ anchoring'[j].at = "head" => OnChain(anchoring[j].head)'
                        /\ anchoring'[j].at = "insert" => Speaks(anchoring[j].anchor)' /\ Joins(anchoring[j].anchor)'
      BY DEF CallsOnChain
    <3>1. CASE j = k
      BY <2>2, <2>3, <2>4, <3>1 DEF OnChain
    <3>2. CASE j # k
      BY <1>4, <2>1, <2>2, <3>2
    <3> QED
      BY <3>1, <3>2
  <2> QED
    BY <1>1, <1>2, <2>1, <2>5, CoverKept
<1>7. ASSUME NEW k \in Replicas \X Calls, AnchorPutsObject(k) PROVE AnchorsSpeak' /\ CallsOnChain' /\ AnchorsCover'
  <2> DEFINE e == anchoring[k].head
             f == AnchorFrom
             a == AnchorOf(f, e)
  <2>1. /\ UNCHANGED <<log, anchors>> /\ anchoring[k].at = "head"
        /\ anchoring' = [anchoring EXCEPT ![k] = [at |-> "insert", anchor |-> a]]
    BY <1>7 DEF AnchorPutsObject, tableVars
  <2>2. anchoring'[k] = [at |-> "insert", anchor |-> a]
        /\ \A j \in Replicas \X Calls : j # k => anchoring'[j] = anchoring[j]
    BY <2>1 DEF TypeOK
  <2>3. ChainHead' = ChainHead /\ Sealed' = Sealed
    BY <2>1 DEF ChainHead, MaxSeq, At, Sealed, Committed
  <2>4. e \in ChainEnd /\ OnChain(e) /\ e.seq \in Nat
    BY <1>1, <1>3, <2>1 DEF CallsOnChain, ChainEnd
  <2>5. /\ f \in Nat \ {0} /\ a \in Anchor /\ a.from = f
        /\ a.to = IF e.seq + 1 < f THEN f - 1 ELSE e.seq
        /\ a.rows > 0 => a.to = e.seq
        /\ a.head = e.hash
    BY <2>4, AnchorOfFacts
  <2>6. ChainHead.seq \in Nat
    BY HeadFacts
  <2>7. f <= ChainHead.seq + 1 /\ ((\A i \in Sealed : log[i].seq >= f) \/ \E l \in 1..Len(anchors) : f <= anchors[l].to + 1)
    <3>1. CASE anchors # <<>>
      <4>1. Len(anchors) \in Nat \ {0}
        BY <3>1, EmptySeq DEF TypeOK
      <4>2. Len(anchors) \in 1..Len(anchors) /\ f = anchors[Len(anchors)].to + 1
        BY <3>1, <4>1 DEF AnchorFrom
      <4>3. anchors[Len(anchors)] \in Anchor /\ anchors[Len(anchors)].to <= ChainHead.seq
        BY <1>1, <4>2, ElementOfSeq DEF TypeOK, AnchorsSpeak, Speaks
      <4>4. anchors[Len(anchors)].to \in Nat
        BY <4>3 DEF Anchor
      <4> QED
        BY <2>6, <4>2, <4>3, <4>4
    <3>2. CASE anchors = <<>> /\ Sealed = {}
      <4>1. f = 1
        BY <3>2, MinSeqFacts DEF AnchorFrom
      <4> QED
        BY <2>6, <3>2, <4>1
    <3>3. CASE anchors = <<>> /\ Sealed # {}
      <4>1. f = MinSeq /\ f \in Nat /\ \A i \in Sealed : f <= log[i].seq
        BY <3>3, MinSeqFacts DEF AnchorFrom
      <4>2. \A i \in Sealed : log[i].seq <= ChainHead.seq /\ log[i].seq \in Nat
        BY HeadFacts, SealedType
      <4> QED
        BY <2>6, <3>3, <4>1, <4>2
    <3> QED
      BY <3>1, <3>2, <3>3
  <2> HIDE DEF a, f, e
  <2>8. Speaks(a) /\ Joins(a)
    <3>1. a.to <= ChainHead.seq
      BY <2>4, <2>5, <2>6, <2>7 DEF OnChain
    <3>2. a.rows > 0 => a.head = SubSeq(ChainHead.hash, 1, a.to)
      BY <2>4, <2>5 DEF OnChain
    <3> QED
      BY <2>5, <2>7, <3>1, <3>2 DEF Speaks, Joins
  <2>9. CallsOnChain'
    <3> SUFFICES ASSUME NEW j \in Replicas \X Calls
                 PROVE  /\ anchoring'[j].at = "head" => OnChain(anchoring[j].head)'
                        /\ anchoring'[j].at = "insert" => Speaks(anchoring[j].anchor)' /\ Joins(anchoring[j].anchor)'
      BY DEF CallsOnChain
    <3>1. CASE j = k
      BY <2>1, <2>2, <2>3, <2>8, <3>1 DEF Speaks, Joins
    <3>2. CASE j # k
      BY <1>4, <2>1, <2>2, <3>2
    <3> QED
      BY <3>1, <3>2
  <2> QED
    BY <1>1, <1>2, <2>1, <2>9, CoverKept
<1>8. ASSUME NEW k \in Replicas \X Calls, InsertAnchor(k) PROVE AnchorsSpeak' /\ CallsOnChain' /\ AnchorsCover'
  <2>1. PICK a \in Anchor : a = anchoring[k].anchor
    BY <1>3, <1>8 DEF InsertAnchor
  <2>2. Speaks(a) /\ Joins(a)
    BY <1>1, <1>8, <2>1 DEF CallsOnChain, InsertAnchor
  <2>3. UNCHANGED log /\ anchors' = Append(anchors, a) /\ anchoring' = [anchoring EXCEPT ![k] = [at |-> "record"]]
    BY <1>8, <2>1 DEF InsertAnchor, tableVars
  <2> DEFINE n == Len(anchors)
  <2>4. /\ n \in Nat /\ Len(anchors') = n + 1 /\ anchors'[n + 1] = a
        /\ \A l \in 1..n : l \in 1..n + 1 /\ anchors'[l] = anchors[l] /\ anchors[l] \in Anchor
    BY <2>3, AppendProperties, LenProperties, ElementOfSeq DEF TypeOK
  <2>5. ChainHead' = ChainHead /\ Sealed' = Sealed
    BY <2>3 DEF ChainHead, MaxSeq, At, Sealed, Committed
  <2>6. CallsOnChain'
    <3> SUFFICES ASSUME NEW j \in Replicas \X Calls
                 PROVE  /\ anchoring'[j].at = "head" => OnChain(anchoring[j].head)'
                        /\ anchoring'[j].at = "insert" => Speaks(anchoring[j].anchor)' /\ Joins(anchoring[j].anchor)'
      BY DEF CallsOnChain
    <3>1. CASE j = k
      BY <2>3, <3>1 DEF TypeOK
    <3>2. CASE j # k
      BY <1>4, <2>3, <2>4, <3>2 DEF TypeOK
    <3> QED
      BY <3>1, <3>2
  <2>7. AnchorsSpeak'
    <3> SUFFICES ASSUME NEW l \in 1..n + 1 PROVE Speaks(anchors[l])'
      BY <2>4 DEF AnchorsSpeak
    <3>1. CASE l \in 1..n
      BY <1>1, <2>4, <2>5, <3>1 DEF AnchorsSpeak, Speaks
    <3>2. CASE l = n + 1
      BY <2>2, <2>4, <2>5, <3>2 DEF Speaks
    <3> QED
      BY <2>4, <3>1, <3>2
  <2>8. AnchorsCover'
    <3> SUFFICES ASSUME NEW l \in 1..n + 1, NEW i \in Sealed,
                        log[i].seq \in anchors'[1].from..anchors'[l].to
                 PROVE  \E m \in 1..n + 1 : log[i].seq \in anchors'[m].from..anchors'[m].to
      BY <2>3, <2>4, <2>5 DEF AnchorsCover
    <3> DEFINE p == log[i].seq
    <3>1. p \in Nat /\ p >= anchors'[1].from /\ p <= anchors'[l].to
      BY SealedType
    <3>2. ASSUME NEW m \in 1..n, p <= anchors[m].to PROVE \E x \in 1..n + 1 : p \in anchors'[x].from..anchors'[x].to
      <4>1. 1 \in 1..n /\ anchors'[1] = anchors[1] /\ anchors[1].from \in Nat /\ anchors[m].to \in Nat
        BY <2>4, <3>2 DEF Anchor
      <4>2. p \in anchors[1].from..anchors[m].to
        BY <3>1, <3>2, <4>1
      <4>3. PICK x \in 1..n : p \in anchors[x].from..anchors[x].to
        BY <1>1, <4>2 DEF AnchorsCover
      <4> QED
        BY <2>4, <4>3
    <3>3. a.from \in Nat /\ a.to \in Nat /\ \A x \in 1..n : anchors[x].to \in Nat
      BY <2>4 DEF Anchor
    <3>4. CASE l = n + 1 /\ p >= a.from
      BY <2>4, <3>1, <3>3, <3>4
    <3>5. CASE l = n + 1 /\ p < a.from
      <4>1. PICK x \in 1..n : a.from <= anchors[x].to + 1
        BY <2>2, <3>1, <3>3, <3>5 DEF Joins
      <4>2. p <= anchors[x].to
        BY <3>1, <3>3, <3>5, <4>1
      <4> QED
        BY <3>2, <4>1, <4>2
    <3>6. CASE l \in 1..n
      BY <2>4, <3>1, <3>2, <3>6
    <3> QED
      BY <2>4, <3>1, <3>3, <3>4, <3>5, <3>6, SMTT(30)
  <2> QED
    BY <2>6, <2>7, <2>8
<1>9. AnchorsSpeak' /\ CallsOnChain' /\ AnchorsCover'
  <2> DEFINE Quiet == /\ UNCHANGED anchors
                      /\ \A k \in Replicas \X Calls :
                           anchoring'[k] = anchoring[k] \/ anchoring'[k].at \notin {"head", "insert"}
  <2>1. ASSUME NEW r \in Replicas, Purger(r) PROVE Quiet
    BY <2>1 DEF Purger, PurgeReadsMinKept, PurgeReadsFloor, PurgeDeletes, PurgeRecords, PurgeFails
  <2>2. ASSUME NEW r \in Replicas, Dispatcher(r) PROVE Quiet
    BY <2>2 DEF Dispatcher, TryLock, NoticeLost, FirstCursor, EnsureCursor, ReadRows, SendChunk, SendFails,
       Advance, AdvanceFails
  <2>3. ASSUME NEW r \in Replicas, Restart(r) PROVE Quiet
    BY <2>3 DEF Restart, Off
  <2>4. ASSUME NEW k \in Replicas \X Calls, AnchorRecords(k) \/ AnchorFails(k) PROVE Quiet
    BY <2>4 DEF AnchorRecords, AnchorFails, Off, TypeOK
  <2>5. Tick \/ Table \/ SealBatch \/ LoseLock \/ UNCHANGED vars => Quiet
    BY DEF Tick, Table, InsertRecord, CommitRecord, AbortRecord, SealBatch, LoseLock, vars
  <2>6. Quiet => AnchorsSpeak' /\ CallsOnChain' /\ AnchorsCover'
    BY <1>5
  <2>7. ASSUME NEW r \in Replicas, Anchorer(r) PROVE AnchorsSpeak' /\ CallsOnChain' /\ AnchorsCover'
    BY <1>6, <1>7, <1>8, <2>4, <2>6, <2>7 DEF Anchorer
  <2> HIDE DEF Quiet
  <2> QED
    BY <2>1, <2>2, <2>3, <2>5, <2>6, <2>7 DEF Next
<1> QED
  BY <1>2, <1>9

-----------------------------------------------------------------------------
(* The sinks.                                                              *)

\* Up to c every insert is decided, and the sink got what it has to get.
Settled(s, c) ==
    /\ c < nextId
    /\ \A i \in Ids : start[s] < i /\ i <= c =>
         /\ open[i] = None
         /\ i \in Kept(s) /\ i \in Committed \cup purged => i \in sent[s]

\* So it is up to the last row of a page, once the rest of the page is sent.
Pending(s, c, last, todo) ==
    /\ last < nextId
    /\ \A i \in Ids : start[s] < i /\ c < i /\ i <= last =>
         /\ open[i] = None
         /\ i \in Kept(s) /\ i \in Committed \cup purged => i \in sent[s] \cup Range(todo)
    /\ \A k \in 1..Len(todo) : todo[k] <= last
    /\ \A j, k \in 1..Len(todo) : j < k => todo[j] < todo[k]

LoopOK(s, p) ==
    /\ p.at = "cursor" => p.first < nextId
    /\ p.at \in {"wait", "send"} => cursor[s] # None /\ Settled(s, p.cursor)
    /\ p.at = "send" => Pending(s, p.cursor, p.last, p.todo)

CursorsOK == \A s \in Sinks : cursor[s] # None => Settled(s, cursor[s])

LoopsOK == \A r \in Replicas, s \in Sinks : LoopOK(s, run[<<r, s>>])

\* A purge goes no further than every sink has got.
FloorsOK ==
    \A r \in Replicas, s \in Sinks :
        purge[r].at = "delete" /\ purge[r].floor > 0 => cursor[s] # None /\ purge[r].floor <= cursor[s]

PurgedOK ==
    \A s \in Sinks :
        /\ cursor[s] = None => purged = {}
        /\ \A i \in Kept(s) \cap purged : start[s] < i => i \in sent[s]

SinkInv == CursorsOK /\ LoopsOK /\ FloorsOK /\ PurgedOK

\* A step opens new ids only, and a row that appears was open.
TableMoves ==
    /\ nextId \in Nat /\ nextId' \in Nat /\ nextId <= nextId'
    /\ \A i \in Ids : open'[i] # None => open[i] # None \/ i >= nextId
    /\ \A i \in Ids : i \in Committed' \cup purged' => i \in Committed \cup purged \/ open[i] # None

LEMMA MovesAlways ==
    ASSUME TypeOK, RowsInOrder, ChainInv, TypeOK', [Next]_vars
    PROVE  TableMoves
<1>0. nextId \in Nat /\ nextId' \in Nat
  BY DEF TypeOK
<1>1. CASE Tick
  BY <1>0, <1>1 DEF Tick, TableMoves, Committed
<1>2. ASSUME NEW i \in Ids, CommitRecord(i) PROVE TableMoves
  <2>1. Committed' = Committed \cup {i} /\ open[i] # None /\ UNCHANGED <<nextId, purged>>
        /\ \A j \in Ids : open'[j] # None => open[j] # None
    BY <1>2, CommitKeepsRows DEF CommitRecord
  <2> QED
    BY <1>0, <2>1 DEF TableMoves
<1>3. ASSUME NEW i \in Ids, AbortRecord(i) PROVE TableMoves
  BY <1>0, <1>3 DEF AbortRecord, TableMoves, Committed, TypeOK
<1>4. CASE SealBatch
  <2>1. Committed' = Committed /\ UNCHANGED <<nextId, open, purged>>
    BY <1>4, SealFacts, SealKeepsRows DEF SealBatch
  <2> QED
    BY <1>0, <2>1 DEF TableMoves
<1>5. ASSUME NEW r \in Replicas, PurgeDeletes(r) PROVE TableMoves
  <2>1. PICK D : Deleted(D)
    BY <1>5, DeleteFacts
  <2>2. Committed' = Committed \ D /\ purged' = purged \cup D /\ D \subseteq Committed /\ UNCHANGED <<nextId, open>>
    BY <2>1, DeleteKeepsRows DEF Deleted
  <2> QED
    BY <1>0, <2>2 DEF TableMoves
<1>6. CASE WriteOwnRecord /\ UNCHANGED <<now, log, purged, cut>>
  <2>1. Committed' = Committed /\ purged' = purged
    BY <1>6 DEF Committed
  <2>2. nextId <= nextId' /\ \A i \in Ids : open'[i] # None => open[i] # None \/ i >= nextId
    BY <1>0, <1>6 DEF WriteOwnRecord, TypeOK, Ids
  <2> QED
    BY <1>0, <2>1, <2>2 DEF TableMoves
<1> QED
  BY <1>1, <1>2, <1>3, <1>4, <1>5, <1>6, TableSteps

\* What is settled stays settled.
LEMMA SettledKept ==
    ASSUME TypeOK, TableMoves, NEW s \in Sinks, NEW c \in Nat, Settled(s, c),
           start'[s] = start[s], sent[s] \subseteq sent'[s]
    PROVE  Settled(s, c)'
<1>1. c < nextId' /\ \A i \in Ids : i <= c => i < nextId
  BY DEF Settled, TableMoves, Ids
<1>2. ASSUME NEW i \in Ids, start'[s] < i, i <= c
      PROVE  /\ open'[i] = None
             /\ i \in Kept(s) /\ i \in Committed' \cup purged' => i \in sent'[s]
  <2>1. open[i] = None /\ (i \in Kept(s) /\ i \in Committed \cup purged => i \in sent[s])
    BY <1>2 DEF Settled
  <2>2. ~(i >= nextId)
    BY <1>1, <1>2 DEF TableMoves, Ids
  <2> QED
    BY <2>1, <2>2 DEF TableMoves
<1> QED
  BY <1>1, <1>2 DEF Settled

LEMMA PendingKept ==
    ASSUME TypeOK, TableMoves, NEW s \in Sinks, NEW c \in Nat, NEW last \in Ids, NEW todo \in Seq(Ids),
           Pending(s, c, last, todo), start'[s] = start[s], sent[s] \subseteq sent'[s]
    PROVE  Pending(s, c, last, todo)'
<1>1. last < nextId' /\ \A i \in Ids : i <= last => i < nextId
  BY DEF Pending, TableMoves, Ids
<1>2. ASSUME NEW i \in Ids, start'[s] < i, c < i, i <= last
      PROVE  /\ open'[i] = None
             /\ i \in Kept(s) /\ i \in Committed' \cup purged' => i \in sent'[s] \cup Range(todo)
  <2>1. open[i] = None /\ (i \in Kept(s) /\ i \in Committed \cup purged => i \in sent[s] \cup Range(todo))
    BY <1>2 DEF Pending
  <2>2. ~(i >= nextId)
    BY <1>1, <1>2 DEF TableMoves, Ids
  <2> QED
    BY <2>1, <2>2 DEF TableMoves
<1> QED
  BY <1>1, <1>2 DEF Pending

\* What a step of any replica does to a sink.
SinkMoves(s) ==
    /\ sent[s] \subseteq sent'[s]
    /\ cursor[s] # None => start'[s] = start[s] /\ cursor'[s] # None /\ cursor[s] <= cursor'[s]

LEMMA LoopKept ==
    ASSUME TypeOK, TableMoves, NEW s \in Sinks, SinkMoves(s), NEW p \in Loops, LoopOK(s, p)
    PROVE  LoopOK(s, p)'
<1>1. ASSUME p.at = "cursor" PROVE p.first < nextId'
  <2>1. p.first \in Nat
    BY <1>1 DEF Loops, Off, Starting
  <2> QED
    BY <1>1, <2>1 DEF LoopOK, TableMoves
<1>2. ASSUME p.at \in {"wait", "send"} PROVE cursor'[s] # None /\ Settled(s, p.cursor)'
  <2>1. p.cursor \in Nat
    BY <1>2 DEF Loops, Off, Starting
  <2> QED
    BY <1>2, <2>1, SettledKept DEF LoopOK, SinkMoves
<1>3. ASSUME p.at = "send" PROVE Pending(s, p.cursor, p.last, p.todo)'
  <2>1. p.cursor \in Nat /\ p.last \in Ids /\ p.todo \in Seq(Ids)
    BY <1>3 DEF Loops, Off, Starting
  <2> QED
    BY <1>3, <2>1, PendingKept DEF LoopOK, SinkMoves
<1> QED
  BY <1>1, <1>2, <1>3 DEF LoopOK

\* Where the cursor of a sink is moved to.
LEMMA AdvanceMoves ==
    ASSUME TypeOK, NEW r \in Replicas, NEW s \in Sinks, NEW id \in Nat, AdvanceTo(r, s, id), cursor[s] # None
    PROVE  /\ cursor[s] \in Nat /\ cursor'[s] = (IF cursor[s] < id THEN id ELSE cursor[s])
           /\ \A t \in Sinks \ {s} : cursor'[t] = cursor[t]
           /\ run'[<<r, s>>] = [at |-> "wait", cursor |-> id]
           /\ \A k \in Replicas \X Sinks : k # <<r, s>> => run'[k] = run[k]
<1>1. cursor[s] \in Nat
  BY DEF TypeOK
<1>2. cursor' = [cursor EXCEPT ![s] = IF cursor[s] < id THEN id ELSE cursor[s]]
      /\ run' = [run EXCEPT ![<<r, s>>] = [at |-> "wait", cursor |-> id]]
  BY DEF AdvanceTo, TypeOK
<1> QED
  BY <1>1, <1>2 DEF TypeOK

\* The first event that is still to be sent.
LEMMA FirstEvent ==
    ASSUME TypeOK, NEW r \in Replicas, NEW s \in Sinks, run[<<r, s>>].at = "send", run[<<r, s>>].todo # <<>>
    PROVE  /\ Len(run[<<r, s>>].todo) \in Nat \ {0} /\ run[<<r, s>>].todo[1] \in Ids
           /\ run[<<r, s>>].todo[1] - 1 \in Nat
<1>1. run[<<r, s>>].todo \in Seq(Ids)
  BY LoopType
<1>2. Len(run[<<r, s>>].todo) \in Nat \ {0}
  BY <1>1, EmptySeq
<1>3. run[<<r, s>>].todo[1] \in Ids
  BY <1>1, <1>2, ElementOfSeq
<1> QED
  BY <1>2, <1>3 DEF Ids

\* Cursors only move forward, and what was sent stays sent.
LEMMA SinkMovesAlways ==
    ASSUME TypeOK, LoopsOK, [Next]_vars, NEW t \in Sinks
    PROVE  SinkMoves(t)
<1>0. cursor[t] # None => cursor[t] \in Nat
  BY DEF TypeOK
<1>1. CASE UNCHANGED <<cursor, sent, start>>
  BY <1>0, <1>1 DEF SinkMoves
<1>2. ASSUME NEW r \in Replicas, NEW s \in Sinks, NEW id \in Nat, run[<<r, s>>].at = "send", AdvanceTo(r, s, id),
             UNCHANGED <<sent, start>>
      PROVE  SinkMoves(t)
  <2>1. cursor[s] # None
    BY <1>2 DEF LoopsOK, LoopOK
  <2>2. /\ cursor[s] \in Nat /\ cursor'[s] = (IF cursor[s] < id THEN id ELSE cursor[s])
        /\ \A x \in Sinks \ {s} : cursor'[x] = cursor[x]
    BY <1>2, <2>1, AdvanceMoves
  <2>3. cursor[t] # None => cursor'[t] # None /\ cursor[t] <= cursor'[t]
    BY <1>0, <2>2, NoneAssumption
  <2> QED
    BY <1>2, <2>3 DEF SinkMoves
<1>3. ASSUME NEW r \in Replicas, NEW s \in Sinks, EnsureCursor(r, s) PROVE SinkMoves(t)
  BY <1>0, <1>3 DEF EnsureCursor, SinkMoves, TypeOK
<1>4. ASSUME NEW r \in Replicas, NEW s \in Sinks, SendChunk(r, s) PROVE SinkMoves(t)
  BY <1>0, <1>4 DEF SendChunk, SinkMoves, TypeOK
<1>5. ASSUME NEW r \in Replicas, NEW s \in Sinks, SendFails(r, s) PROVE SinkMoves(t)
  <2>1. run[<<r, s>>].todo[1] - 1 \in Nat
    BY <1>5, FirstEvent DEF SendFails
  <2> QED
    BY <1>1, <1>2, <1>5, <2>1 DEF SendFails
<1>6. ASSUME NEW r \in Replicas, NEW s \in Sinks, Advance(r, s) PROVE SinkMoves(t)
  <2>1. run[<<r, s>>].last \in Nat
    BY <1>6, LoopType DEF Advance, Ids
  <2> QED
    BY <1>2, <1>6, <2>1 DEF Advance
<1>7. ASSUME NEW r \in Replicas, Dispatcher(r) PROVE SinkMoves(t)
  <2>1. TryLock(r) \/ NoticeLost(r) => SinkMoves(t)
    BY <1>1 DEF TryLock, NoticeLost
  <2>2. ASSUME NEW s \in Sinks, FirstCursor(r, s) \/ ReadRows(r, s) \/ AdvanceFails(r, s) PROVE SinkMoves(t)
    BY <1>1, <2>2 DEF FirstCursor, ReadRows, AdvanceFails
  <2> QED
    BY <1>3, <1>4, <1>5, <1>6, <1>7, <2>1, <2>2 DEF Dispatcher
<1>8. ASSUME NEW r \in Replicas, Purger(r) PROVE SinkMoves(t)
  BY <1>1, <1>8 DEF Purger, PurgeReadsMinKept, PurgeReadsFloor, PurgeDeletes, PurgeRecords, PurgeFails, sinkVars
<1>9. ASSUME NEW r \in Replicas, Anchorer(r) PROVE SinkMoves(t)
  BY <1>1, <1>9 DEF Anchorer, AnchorReadsHead, AnchorPutsObject, InsertAnchor, AnchorRecords, AnchorFails, sinkVars
<1>10. ASSUME NEW r \in Replicas, Restart(r) PROVE SinkMoves(t)
  BY <1>1, <1>10 DEF Restart
<1>11. Tick \/ Table \/ SealBatch \/ LoseLock \/ UNCHANGED vars => SinkMoves(t)
  BY <1>1 DEF Tick, Table, InsertRecord, CommitRecord, AbortRecord, SealBatch, LoseLock, vars, sinkVars
<1> QED
  BY <1>7, <1>8, <1>9, <1>10, <1>11 DEF Next

\* When a page is read, every insert up to its last row is decided: it began
\* no later than that row, and the row is older than an insert can be open.
LEMMA PageSettles ==
    ASSUME MaxOpen <= Settle, TypeOK, RowsInOrder, PurgedOK, NEW s \in Sinks, NEW c \in Nat,
           NEW page \in Page(c), page # <<>>, NEW todo \in FirstIds(Range(page) \cap Kept(s), ReadPage)
    PROVE  Pending(s, c, page[Len(page)], todo) /\ page[Len(page)] \in Ids /\ todo \in Seq(Ids)
<1> DEFINE S == {i \in Committed : i > c /\ log[i].created + Settle < now}
           K == Range(page) \cap Kept(s)
<1>1. S \in SUBSET Ids /\ page \in FirstIds(S, ReadPage) /\ ReadPage \in Nat \ {0}
  BY LimitsAssumption DEF Page, Committed
<1> HIDE DEF S
<1>0. /\ page \in Seq(S) /\ page \in Seq(Ids) /\ Len(page) \in Nat /\ Len(page) <= ReadPage
      /\ DOMAIN page = 1..Len(page)
      /\ Range(page) = {page[k] : k \in 1..Len(page)} /\ Range(page) \subseteq S
      /\ \A j, k \in 1..Len(page) : j < k => page[j] < page[k]
      /\ \A i \in S \ Range(page), k \in 1..Len(page) : page[k] < i
  <2>1. page \in Seq(S) /\ page \in Seq(Ids) /\ Len(page) \in Nat /\ Len(page) <= ReadPage
    BY <1>1, FirstIdsFacts
  <2>2. DOMAIN page = 1..Len(page)
    BY <1>1, FirstIdsFacts
  <2>3. Range(page) = {page[k] : k \in 1..Len(page)} /\ Range(page) \subseteq S
    BY <1>1, FirstIdsFacts
  <2>4. \A j, k \in 1..Len(page) : j < k => page[j] < page[k]
    BY <1>1, FirstIdsFacts
  <2>5. \A i \in S \ Range(page), k \in 1..Len(page) : page[k] < i
    BY <1>1, FirstIdsFacts
  <2> QED
    BY <2>1, <2>2, <2>3, <2>4, <2>5
<1> DEFINE n == Len(page)
           last == page[n]
<1>3. n \in Nat \ {0} /\ n \in 1..n
  BY <1>0, EmptySeq
<1>2. /\ page \in Seq(S) /\ page \in Seq(Ids) /\ n \in Nat /\ n <= ReadPage /\ DOMAIN page = 1..n
      /\ Range(page) = {page[k] : k \in 1..n} /\ Range(page) \subseteq S
      /\ \A j, k \in 1..n : j < k => page[j] < page[k]
      /\ \A i \in S \ Range(page), k \in 1..n : page[k] < i
      /\ \A k \in 1..n : page[k] \in S
  BY <1>0
<1> HIDE DEF n
<1>4. last \in S /\ last \in Ids /\ last \in Committed /\ last \in Nat
  <2>1. last \in S
    BY <1>2, <1>3
  <2> QED
    BY <1>1, <2>1 DEF S, Ids
<1>5. log[last].created \in Nat /\ log[last].created + Settle < now /\ now \in Nat /\ Settle \in Nat /\ MaxOpen \in Nat
  BY <1>4, RowType, WindowsAssumption DEF S, TypeOK
<1>6. Known(last) /\ Born(last) = log[last].created /\ last < nextId /\ open[last] = None
  BY <1>4 DEF RowsInOrder, Known, Born, Committed
<1>7. \A k \in 1..n : page[k] \in Nat /\ page[k] <= last
  <2> SUFFICES ASSUME NEW k \in 1..n PROVE page[k] \in Nat /\ page[k] <= last
    OBVIOUS
  <2>1. page[k] \in Nat
    <3>1. page[k] \in S
      BY <1>2
    <3>2. page[k] \in Ids
      BY <1>1, <3>1
    <3> QED
      BY <3>2 DEF Ids
  <2>2. k < n \/ k = n
    BY <1>3
  <2> QED
    BY <1>2, <1>3, <1>4, <2>1, <2>2
<1> HIDE DEF last
<1>8. K \in SUBSET Ids /\ Range(page) \in SUBSET Ids
  BY <1>1, <1>2
<1>9. Cardinality(K) <= ReadPage
  <2>1. page \in Surjection(1..n, Range(page))
    BY <1>2 DEF Surjection
  <2>2. IsFiniteSet(1..n) /\ Cardinality(1..n) = n
    BY <1>3, FS_Interval
  <2>3. IsFiniteSet(Range(page)) /\ Cardinality(Range(page)) <= n
    BY <2>1, <2>2, FS_Surjection
  <2>4. Cardinality(K) <= Cardinality(Range(page))
    BY <2>3, FS_Subset
  <2>5. Cardinality(K) \in Nat /\ Cardinality(Range(page)) \in Nat
    BY <1>8, IdsFinite
  <2> HIDE DEF K
  <2> QED
    BY <1>1, <1>2, <2>3, <2>4, <2>5
<1> HIDE DEF K
<1>10. /\ Range(todo) = K /\ todo \in Seq(Ids) /\ Len(todo) \in Nat /\ Range(todo) = {todo[k] : k \in 1..Len(todo)}
       /\ \A j, k \in 1..Len(todo) : j < k => todo[j] < todo[k]
  <2>1. todo \in FirstIds(K, ReadPage)
    BY DEF K
  <2> QED
    BY <1>1, <1>8, <1>9, <2>1, AllIdsListed, FirstIdsFacts
<1>11. \A k \in 1..Len(todo) : todo[k] <= last
  BY <1>2, <1>7, <1>10 DEF K
<1>12. ASSUME NEW i \in Ids, start[s] < i, c < i, i <= last PROVE open[i] = None
  <2> SUFFICES ASSUME open[i] # None PROVE FALSE
    OBVIOUS
  <2>1. open[i] \in Nat /\ now <= open[i] + MaxOpen /\ Known(i) /\ Born(i) = open[i]
    BY DEF TypeOK, RowsInOrder, Known, Born
  <2>2. i < last
    BY <1>4, <1>6, <1>12 DEF Ids
  <2>3. open[i] <= log[last].created
    BY <1>4, <1>6, <2>1, <2>2 DEF RowsInOrder
  <2> QED
    BY <1>5, <2>1, <2>3
<1>13. ASSUME NEW i \in Ids, start[s] < i, c < i, i <= last, i \in Kept(s), i \in Committed \cup purged
       PROVE  i \in sent[s] \cup Range(todo)
  <2>1. CASE i \in purged
    BY <1>13, <2>1 DEF PurgedOK
  <2>2. CASE i \in Committed
    <3>1. log[i].created \in Nat /\ Known(i) /\ Born(i) = log[i].created /\ i \in Nat
      BY <1>12, <1>13, <2>2, RowType DEF Known, Born, Ids, Committed
    <3>2. log[i].created <= log[last].created
      <4>1. CASE i = last
        BY <1>5, <4>1
      <4>2. CASE i # last
        <5>1. i < last
          BY <1>4, <1>13, <3>1, <4>2
        <5> QED
          BY <1>4, <1>6, <3>1, <5>1 DEF RowsInOrder
      <4> QED
        BY <4>1, <4>2
    <3>3. i \in S
      BY <1>5, <1>13, <2>2, <3>1, <3>2 DEF S
    <3>4. i \in Range(page)
      <4> SUFFICES ASSUME i \notin Range(page) PROVE FALSE
        OBVIOUS
      <4>1. last < i
        BY <1>2, <1>3, <3>3 DEF last
      <4> QED
        BY <1>4, <1>13, <3>1, <4>1
    <3> QED
      BY <1>10, <1>13, <3>4 DEF K
  <2> QED
    BY <1>13, <2>1, <2>2
<1>14. Pending(s, c, last, todo)
  BY <1>6, <1>10, <1>11, <1>12, <1>13 DEF Pending
<1> QED
  BY <1>4, <1>10, <1>14 DEF last, n

\* A chunk that goes out moves from what is to be sent to what was sent.
LEMMA ChunkMoves ==
    ASSUME TypeOK, TableMoves, NEW s \in Sinks, NEW c \in Nat, NEW last \in Ids, NEW todo \in Seq(Ids),
           Pending(s, c, last, todo), NEW n \in 0..Len(todo), start'[s] = start[s],
           sent'[s] = sent[s] \cup Range(SubSeq(todo, 1, n))
    PROVE  Pending(s, c, last, SubSeq(todo, n + 1, Len(todo)))'
<1> DEFINE done == SubSeq(todo, 1, n)
           rest == SubSeq(todo, n + 1, Len(todo))
           m == Len(todo) - n
<1>1. Len(todo) \in Nat /\ n \in Nat /\ n <= Len(todo) /\ m \in Nat /\ \A i \in 1..Len(todo) : todo[i] \in Ids
  BY LenProperties, ElementOfSeq
<1>2. /\ done \in Seq(Ids) /\ Len(done) = n
      /\ \A i \in 1..n : done[i] = todo[i]
  BY <1>1, SubSeqProperties
<1>3. /\ rest \in Seq(Ids) /\ Len(rest) = m
      /\ \A i \in 1..m : rest[i] = todo[n + i]
  <2>1. n + 1 \in Int /\ Len(todo) \in Int /\ \A i \in n + 1..Len(todo) : todo[i] \in Ids
    BY <1>1
  <2>2. /\ rest \in Seq(Ids) /\ Len(rest) = IF n + 1 <= Len(todo) THEN Len(todo) - (n + 1) + 1 ELSE 0
        /\ \A i \in 1..Len(todo) - (n + 1) + 1 : rest[i] = todo[(n + 1) + i - 1]
    BY <2>1, SubSeqProperties
  <2>3. Len(todo) - (n + 1) + 1 = m /\ (n + 1 <= Len(todo) <=> m # 0) /\ \A i \in Int : (n + 1) + i - 1 = n + i
    BY <1>1
  <2> HIDE DEF rest, m
  <2>4. Len(rest) = m
    BY <2>2, <2>3
  <2>5. \A i \in 1..m : rest[i] = todo[n + i]
    BY <1>1, <2>2, <2>3
  <2> QED
    BY <2>2, <2>4, <2>5
<1>4. Range(todo) = {todo[i] : i \in 1..Len(todo)} /\ Range(done) = {done[i] : i \in 1..n}
      /\ Range(rest) = {rest[i] : i \in 1..m}
  <2> HIDE DEF done, rest
  <2>1. Range(todo) = {todo[i] : i \in 1..Len(todo)}
    BY RangeEquality
  <2>2. Range(done) = {done[i] : i \in 1..Len(done)}
    BY <1>2, RangeEquality
  <2>3. Range(rest) = {rest[i] : i \in 1..Len(rest)}
    BY <1>3, RangeEquality
  <2> QED
    BY <1>2, <1>3, <2>1, <2>2, <2>3
<1> HIDE DEF done, rest
<1>5. Range(todo) \subseteq Range(done) \cup Range(rest)
  <2> SUFFICES ASSUME NEW i \in 1..Len(todo) PROVE todo[i] \in Range(done) \cup Range(rest)
    BY <1>4
  <2>1. CASE i <= n
    <3>1. i \in 1..n
      BY <1>1, <2>1
    <3> QED
      BY <1>2, <1>4, <3>1
  <2>2. CASE i > n
    <3>1. i - n \in 1..m /\ n + (i - n) = i
      BY <1>1, <2>2
    <3> QED
      BY <1>3, <1>4, <3>1
  <2> QED
    BY <1>1, <2>1, <2>2
<1>6. last < nextId' /\ \A i \in Ids : i <= last => i < nextId
  BY DEF Pending, TableMoves, Ids
<1>7. ASSUME NEW i \in Ids, start'[s] < i, c < i, i <= last
      PROVE  /\ open'[i] = None
             /\ i \in Kept(s) /\ i \in Committed' \cup purged' => i \in sent'[s] \cup Range(rest)
  <2>1. open[i] = None /\ (i \in Kept(s) /\ i \in Committed \cup purged => i \in sent[s] \cup Range(todo))
    BY <1>7 DEF Pending
  <2>2. ~(i >= nextId)
    BY <1>6, <1>7 DEF TableMoves, Ids
  <2>3. sent[s] \cup Range(todo) \subseteq sent'[s] \cup Range(rest)
    BY <1>5 DEF done
  <2> QED
    BY <2>1, <2>2, <2>3 DEF TableMoves
<1>8. \A k \in 1..m : n + k \in 1..Len(todo)
  BY <1>1
<1>9. \A k \in 1..m : rest[k] <= last
  BY <1>3, <1>8 DEF Pending
<1>10. \A j, k \in 1..m : j < k => rest[j] < rest[k]
  <2> SUFFICES ASSUME NEW j \in 1..m, NEW k \in 1..m, j < k PROVE rest[j] < rest[k]
    OBVIOUS
  <2>1. n + j \in 1..Len(todo) /\ n + k \in 1..Len(todo) /\ n + j < n + k
    BY <1>1, <1>8
  <2> QED
    BY <1>3, <2>1 DEF Pending
<1>11. Pending(s, c, last, rest)'
  BY <1>3, <1>6, <1>7, <1>9, <1>10 DEF Pending
<1> QED
  BY <1>11 DEF rest

\* A sink that took everything of a page has got everything up to its end.
LEMMA PageDone ==
    ASSUME TypeOK, NEW s \in Sinks, NEW c \in Nat, NEW last \in Ids, NEW todo \in Seq(Ids), NEW d \in Nat,
           Settled(s, c), Pending(s, c, last, todo), d <= last, \A k \in 1..Len(todo) : d < todo[k]
    PROVE  Settled(s, d)
<1>1. d < nextId /\ d \in Nat /\ last \in Nat /\ nextId \in Nat
  BY DEF Pending, Ids, TypeOK
<1>2. ASSUME NEW i \in Ids, start[s] < i, i <= d
      PROVE  /\ open[i] = None
             /\ i \in Kept(s) /\ i \in Committed \cup purged => i \in sent[s]
  <2>0. i \in Nat
    BY DEF Ids
  <2>1. CASE i <= c
    BY <1>2, <2>1 DEF Settled
  <2>2. CASE c < i
    <3>1. i <= last
      BY <1>1, <1>2, <2>0
    <3>2. open[i] = None /\ (i \in Kept(s) /\ i \in Committed \cup purged => i \in sent[s] \cup Range(todo))
      BY <1>2, <2>2, <3>1 DEF Pending
    <3>3. i \notin Range(todo)
      <4>1. Range(todo) = {todo[k] : k \in 1..Len(todo)}
        BY RangeEquality
      <4>2. \A k \in 1..Len(todo) : todo[k] \in Nat
        <5>1. \A k \in 1..Len(todo) : todo[k] \in Ids
          BY ElementOfSeq
        <5> QED
          BY <5>1 DEF Ids
      <4>3. \A k \in 1..Len(todo) : todo[k] # i
        BY <1>1, <1>2, <2>0, <4>2
      <4> QED
        BY <4>1, <4>3
    <3> QED
      BY <3>2, <3>3
  <2> QED
    BY <2>0, <2>1, <2>2
<1> QED
  BY <1>1, <1>2 DEF Settled

\* Every loop stays behind what its sink has got.
LEMMA LoopsStep ==
    ASSUME MaxOpen <= Settle, TypeOK, RowsInOrder, TypeOK', SinkInv, TableMoves, [Next]_vars,
           \A t \in Sinks : SinkMoves(t)
    PROVE  LoopsOK'
<1>0. LoopsOK /\ CursorsOK /\ PurgedOK
  BY DEF SinkInv
<1>1. ASSUME NEW r \in Replicas, NEW s \in Sinks, run'[<<r, s>>] = run[<<r, s>>] PROVE LoopOK(s, run[<<r, s>>])'
  <2>1. PICK p \in Loops : p = run[<<r, s>>] /\ LoopOK(s, p)
    BY <1>0, LoopType DEF LoopsOK
  <2>2. LoopOK(s, p)'
    BY <2>1, LoopKept
  <2> QED
    BY <1>1, <2>1, <2>2 DEF LoopOK
<1>2. ASSUME NEW r \in Replicas, NEW s \in Sinks, run'[<<r, s>>] \in {Off, Starting} PROVE LoopOK(s, run[<<r, s>>])'
  BY <1>2 DEF LoopOK, Off, Starting
<1>3. ASSUME NEW r \in Replicas, NEW s \in Sinks, NEW c \in Nat, run'[<<r, s>>] = [at |-> "wait", cursor |-> c],
             Settled(s, c), cursor[s] # None
      PROVE  LoopOK(s, run[<<r, s>>])'
  <2>1. Settled(s, c)' /\ cursor'[s] # None
    BY <1>3, SettledKept DEF SinkMoves
  <2> QED
    BY <1>3, <2>1 DEF LoopOK
<1>4. ASSUME NEW r \in Replicas, NEW s \in Sinks,
             \/ FirstCursor(r, s) \/ EnsureCursor(r, s) \/ ReadRows(r, s) \/ SendChunk(r, s)
             \/ SendFails(r, s) \/ Advance(r, s) \/ AdvanceFails(r, s)
      PROVE  LoopOK(s, run[<<r, s>>])' /\ \A k \in Replicas \X Sinks : k # <<r, s>> => run'[k] = run[k]
  <2> DEFINE k == <<r, s>>
  <2>0. k \in Replicas \X Sinks /\ run[k] \in Loops /\ LoopOK(s, run[k])
    BY <1>0, LoopType DEF LoopsOK
  <2> DEFINE Others == \A j \in Replicas \X Sinks : j # <<r, s>> => run'[j] = run[j]
  <2>1. CASE FirstCursor(r, s)
    <3>1. PICK first \in {0} \cup (IF s \in FromStart THEN {} ELSE {MaxID}) :
             run' = [run EXCEPT ![k] = [at |-> "cursor", first |-> first]]
      BY <2>1 DEF FirstCursor
    <3>2. first < nextId /\ nextId' = nextId
      BY <2>1, MaxIDFacts DEF FirstCursor, tableVars, TypeOK, RowsInOrder, Known, Committed
    <3>3. run'[k] = [at |-> "cursor", first |-> first] /\ Others
      BY <2>0, <3>1 DEF TypeOK
    <3> QED
      BY <3>2, <3>3 DEF LoopOK
  <2>2. CASE EnsureCursor(r, s)
    <3> DEFINE c == IF cursor[s] = None THEN run[k].first ELSE cursor[s]
    <3>1. /\ cursor' = [cursor EXCEPT ![s] = c] /\ run[k].at = "cursor"
          /\ start' = IF cursor[s] = None THEN [start EXCEPT ![s] = c] ELSE start
          /\ run' = [run EXCEPT ![k] = [at |-> "wait", cursor |-> c]]
          /\ UNCHANGED <<tableVars, sent, purged>>
      BY <2>2 DEF EnsureCursor
    <3>2. c \in Nat
      BY <2>2, LoopType DEF EnsureCursor, TypeOK
    <3>3. CASE cursor[s] # None
      <4>1. run'[k] = [at |-> "wait", cursor |-> cursor[s]] /\ Others /\ cursor[s] \in Nat /\ Settled(s, cursor[s])
        BY <1>0, <2>0, <3>1, <3>2, <3>3 DEF TypeOK, CursorsOK
      <4> QED
        BY <1>3, <3>3, <4>1
    <3>4. CASE cursor[s] = None
      <4>2. c = run[k].first /\ c < nextId /\ nextId' = nextId
        BY <2>0, <3>1, <3>4 DEF LoopOK, tableVars
      <4> HIDE DEF c
      <4>0. PICK d \in Nat : d = c
        BY <3>2
      <4>1. run'[k] = [at |-> "wait", cursor |-> d] /\ Others /\ cursor'[s] = d /\ start'[s] = d
        BY <2>0, <3>1, <3>4, <4>0 DEF TypeOK
      <4>5. d < nextId'
        BY <4>0, <4>2
      <4>6. \A i \in Ids : ~(start'[s] < i /\ i <= d)
        BY <4>1 DEF Ids
      <4>3. Settled(s, d)'
        BY <4>5, <4>6 DEF Settled
      <4>4. cursor'[s] # None
        BY <4>1, NoneAssumption
      <4> QED
        BY <4>1, <4>3, <4>4 DEF LoopOK
    <3> QED
      BY <3>3, <3>4
  <2>3. CASE ReadRows(r, s)
    <3> DEFINE c == run[k].cursor
    <3>1. PICK page \in Page(c) : /\ page # <<>>
             /\ \E todo \in FirstIds(Range(page) \cap Kept(s), ReadPage) :
                  run' = [run EXCEPT ![k] = [at |-> "send", cursor |-> c, last |-> page[Len(page)], todo |-> todo]]
      BY <2>3 DEF ReadRows
    <3>2. PICK todo \in FirstIds(Range(page) \cap Kept(s), ReadPage) :
             run' = [run EXCEPT ![k] = [at |-> "send", cursor |-> c, last |-> page[Len(page)], todo |-> todo]]
      BY <3>1
    <3>3. run[k].at = "wait" /\ c \in Nat /\ Settled(s, c) /\ cursor[s] # None
      BY <2>0, <2>3, LoopType DEF ReadRows, LoopOK
    <3>4. PICK last \in Ids : last = page[Len(page)] /\ Pending(s, c, last, todo) /\ todo \in Seq(Ids)
      BY <1>0, <3>1, <3>2, <3>3, PageSettles
    <3>5. PICK d \in Nat : d = c
      BY <3>3
    <3>6. run'[k] = [at |-> "send", cursor |-> d, last |-> last, todo |-> todo] /\ Others
      BY <2>0, <3>2, <3>4, <3>5 DEF TypeOK
    <3> HIDE DEF c
    <3>7. Settled(s, d)' /\ cursor'[s] # None /\ Pending(s, d, last, todo)'
      <4>1. start'[s] = start[s] /\ sent[s] \subseteq sent'[s] /\ cursor'[s] # None
        BY <3>3 DEF SinkMoves
      <4> QED
        BY <3>3, <3>4, <3>5, <4>1, SettledKept, PendingKept
    <3> QED
      BY <3>6, <3>7 DEF LoopOK
  <2>4. CASE SendChunk(r, s)
    <3>1. run[k].at = "send" /\ run[k].cursor \in Nat /\ run[k].last \in Ids /\ run[k].todo \in Seq(Ids)
      BY <2>4, LoopType DEF SendChunk
    <3>2. PICK c \in Nat, last \in Ids, todo \in Seq(Ids) :
             c = run[k].cursor /\ last = run[k].last /\ todo = run[k].todo
      BY <3>1
    <3>3. run[k] = [at |-> "send", cursor |-> c, last |-> last, todo |-> todo]
      BY <2>0, <3>1, <3>2 DEF Loops, Off, Starting
    <3>4. Settled(s, c) /\ cursor[s] # None /\ Pending(s, c, last, todo)
      BY <2>0, <3>1, <3>2 DEF LoopOK
    <3>5. PICK n \in 0..Len(todo) : n = IF Len(todo) < MaxEvents THEN Len(todo) ELSE MaxEvents
      BY <3>2, LimitsAssumption, LenProperties
    <3>6. /\ sent' = [sent EXCEPT ![s] = @ \cup Range(SubSeq(todo, 1, n))]
          /\ run' = [run EXCEPT ![k] = [run[k] EXCEPT !.todo = SubSeq(todo, n + 1, Len(todo))]]
      BY <2>0, <2>4, <3>2, <3>5 DEF SendChunk
    <3>7. sent'[s] = sent[s] \cup Range(SubSeq(todo, 1, n))
      BY <3>6 DEF TypeOK
    <3>12. PICK rest : rest = SubSeq(todo, n + 1, Len(todo))
      OBVIOUS
    <3>8. run'[k] = [run[k] EXCEPT !.todo = rest] /\ Others
      BY <2>0, <3>6, <3>12 DEF TypeOK
    <3>9. start'[s] = start[s] /\ cursor'[s] # None /\ sent[s] \subseteq sent'[s]
      BY <3>4 DEF SinkMoves
    <3>10. Pending(s, c, last, rest)' /\ Settled(s, c)'
      <4>1. Pending(s, c, last, SubSeq(todo, n + 1, Len(todo)))'
        BY <3>4, <3>5, <3>7, <3>9, ChunkMoves
      <4>2. Settled(s, c)'
        BY <3>4, <3>9, SettledKept
      <4> QED
        BY <3>12, <4>1, <4>2
    <3>11. run'[k] = [at |-> "send", cursor |-> c, last |-> last, todo |-> rest]
      BY <3>3, <3>8
    <3> QED
      BY <3>8, <3>9, <3>10, <3>11 DEF LoopOK
  <2>5. ASSUME NEW d \in Nat, AdvanceTo(r, s, d), run[k].at = "send", Settled(s, d) PROVE LoopOK(s, run[k])' /\ Others
    <3>1. cursor[s] # None
      BY <2>0, <2>5 DEF LoopOK
    <3>2. run'[k] = [at |-> "wait", cursor |-> d] /\ Others
      BY <2>5, <3>1, AdvanceMoves
    <3> QED
      BY <1>3, <2>5, <3>1, <3>2
  <2>6. ASSUME run[k].at = "send", run' = [run EXCEPT ![k] = [at |-> "wait", cursor |-> run[k].cursor]]
        PROVE  LoopOK(s, run[k])' /\ Others
    <3>1. run[k].cursor \in Nat /\ Settled(s, run[k].cursor) /\ cursor[s] # None
      BY <2>0, <2>6, LoopType DEF LoopOK
    <3>2. run'[k] = [at |-> "wait", cursor |-> run[k].cursor] /\ Others
      BY <2>0, <2>6 DEF TypeOK
    <3> QED
      BY <1>3, <3>1, <3>2
  <2>7. run[k].at = "send" => /\ run[k].cursor \in Nat /\ run[k].last \in Ids /\ run[k].todo \in Seq(Ids)
                              /\ Settled(s, run[k].cursor) /\ Pending(s, run[k].cursor, run[k].last, run[k].todo)
    BY <2>0, LoopType DEF LoopOK
  <2>8. CASE SendFails(r, s)
    <3> DEFINE upTo == run[k].todo[1] - 1
               todo == run[k].todo
    <3>1. run[k].at = "send" /\ Len(todo) \in Nat \ {0} /\ todo[1] \in Ids /\ upTo \in Nat
      BY <2>8, FirstEvent DEF SendFails
    <3>2. upTo <= run[k].last /\ \A x \in 1..Len(todo) : upTo < todo[x]
      <4>1. 1 \in 1..Len(todo) /\ todo[1] <= run[k].last /\ run[k].last \in Nat /\ todo[1] \in Nat
        <5>1. 1 \in 1..Len(todo)
          BY <3>1
        <5>2. \A x \in 1..Len(todo) : todo[x] <= run[k].last
          BY <2>7, <3>1 DEF Pending
        <5>3. run[k].last \in Nat /\ todo[1] \in Nat
          BY <2>7, <3>1 DEF Ids
        <5> QED
          BY <5>1, <5>2, <5>3
      <4>2. \A x \in 1..Len(todo) : todo[x] \in Ids
        BY <2>7, <3>1, ElementOfSeq
      <4>3. \A x \in 1..Len(todo) : todo[1] <= todo[x] /\ todo[x] \in Nat
        <5> SUFFICES ASSUME NEW x \in 1..Len(todo) PROVE todo[1] <= todo[x] /\ todo[x] \in Nat
          OBVIOUS
        <5>1. todo[x] \in Nat
          BY <4>2 DEF Ids
        <5>2. x = 1 \/ 1 < x
          BY <3>1
        <5>3. 1 < x => todo[1] < todo[x]
          BY <2>7, <3>1, <4>1 DEF Pending
        <5> QED
          BY <4>1, <5>1, <5>2, <5>3
      <4> QED
        BY <4>1, <4>3
    <3>3. Settled(s, upTo)
      BY <2>7, <3>1, <3>2, PageDone
    <3>4. \/ AdvanceTo(r, s, upTo)
          \/ run' = [run EXCEPT ![k] = [at |-> "wait", cursor |-> run[k].cursor]]
      BY <2>8 DEF SendFails
    <3> HIDE DEF upTo
    <3> QED
      BY <2>5, <2>6, <3>1, <3>3, <3>4
  <2>9. CASE Advance(r, s)
    <3>1. run[k].at = "send" /\ run[k].todo = <<>> /\ AdvanceTo(r, s, run[k].last)
      BY <2>9 DEF Advance
    <3>2. run[k].last \in Nat
      BY <2>7, <3>1 DEF Ids
    <3>3. Settled(s, run[k].last)
      <4>1. PICK c \in Nat, last \in Ids, todo \in Seq(Ids) :
               c = run[k].cursor /\ last = run[k].last /\ todo = run[k].todo
        BY <2>7, <3>1
      <4>2. Settled(s, c) /\ Pending(s, c, last, todo) /\ todo = <<>>
        BY <2>7, <3>1, <4>1
      <4>3. last \in Nat /\ last <= last /\ \A x \in 1..Len(todo) : last < todo[x]
        BY <3>2, <4>1, <4>2
      <4> QED
        BY <4>1, <4>2, <4>3, PageDone
    <3> QED
      BY <2>5, <3>1, <3>2, <3>3
  <2>10. CASE AdvanceFails(r, s)
    BY <2>6, <2>10 DEF AdvanceFails
  <2> QED
    BY <1>4, <2>1, <2>2, <2>3, <2>4, <2>8, <2>9, <2>10
<1>5. ASSUME NEW r \in Replicas, TryLock(r) \/ NoticeLost(r) \/ Restart(r) PROVE LoopsOK'
  <2>1. \A q \in Replicas, s \in Sinks : run'[<<q, s>>] = run[<<q, s>>] \/ run'[<<q, s>>] \in {Off, Starting}
    BY <1>5 DEF TryLock, NoticeLost, Restart
  <2> QED
    BY <1>1, <1>2, <2>1 DEF LoopsOK
<1>6. CASE UNCHANGED run
  BY <1>1, <1>6 DEF LoopsOK
<1>7. ASSUME NEW r \in Replicas, Dispatcher(r) PROVE LoopsOK'
  <2>1. ASSUME NEW s \in Sinks,
               \/ FirstCursor(r, s) \/ EnsureCursor(r, s) \/ ReadRows(r, s) \/ SendChunk(r, s)
               \/ SendFails(r, s) \/ Advance(r, s) \/ AdvanceFails(r, s)
        PROVE  LoopsOK'
    <3>1. LoopOK(s, run[<<r, s>>])' /\ \A k \in Replicas \X Sinks : k # <<r, s>> => run'[k] = run[k]
      BY <1>4, <2>1
    <3> SUFFICES ASSUME NEW q \in Replicas, NEW t \in Sinks PROVE LoopOK(t, run[<<q, t>>])'
      BY DEF LoopsOK
    <3>2. CASE q = r /\ t = s
      BY <3>1, <3>2
    <3>3. CASE ~(q = r /\ t = s)
      <4>1. <<q, t>> # <<r, s>> /\ <<q, t>> \in Replicas \X Sinks
        BY <3>3
      <4> QED
        BY <1>1, <3>1, <4>1
    <3> QED
      BY <3>2, <3>3
  <2> QED
    BY <1>5, <1>7, <2>1 DEF Dispatcher
<1>8. ASSUME NEW r \in Replicas, Purger(r) PROVE UNCHANGED run
  BY <1>8 DEF Purger, PurgeReadsMinKept, PurgeReadsFloor, PurgeDeletes, PurgeRecords, PurgeFails, sinkVars
<1>9. ASSUME NEW r \in Replicas, Anchorer(r) PROVE UNCHANGED run
  BY <1>9 DEF Anchorer, AnchorReadsHead, AnchorPutsObject, InsertAnchor, AnchorRecords, AnchorFails, sinkVars
<1>10. Tick \/ Table \/ SealBatch \/ LoseLock \/ UNCHANGED vars => UNCHANGED run
  BY DEF Tick, Table, InsertRecord, CommitRecord, AbortRecord, SealBatch, LoseLock, vars, sinkVars
<1> QED
  BY <1>5, <1>6, <1>7, <1>8, <1>9, <1>10 DEF Next

\* A cursor is moved only to where its loop goes on from.
LEMMA CursorsStep ==
    ASSUME TypeOK, TypeOK', SinkInv, LoopsOK', TableMoves, [Next]_vars, \A t \in Sinks : SinkMoves(t)
    PROVE  CursorsOK'
<1>0. LoopsOK /\ CursorsOK
  BY DEF SinkInv
<1>1. ASSUME NEW t \in Sinks, cursor'[t] = cursor[t], cursor'[t] # None PROVE Settled(t, cursor[t])'
  <2>1. PICK c \in Nat : c = cursor[t]
    BY <1>1 DEF TypeOK
  <2>2. Settled(t, c) /\ cursor[t] # None
    BY <1>0, <1>1, <2>1 DEF CursorsOK
  <2>3. start'[t] = start[t] /\ sent[t] \subseteq sent'[t]
    BY <2>2 DEF SinkMoves
  <2>4. Settled(t, c)'
    BY <2>2, <2>3, SettledKept
  <2> QED
    BY <1>1, <2>1, <2>4
<1>2. ASSUME NEW r \in Replicas, NEW s \in Sinks, run'[<<r, s>>].at = "wait", run'[<<r, s>>].cursor = cursor'[s]
      PROVE  Settled(s, cursor[s])'
  BY <1>2 DEF LoopsOK, LoopOK
<1>3. CASE UNCHANGED cursor
  BY <1>1, <1>3 DEF CursorsOK
<1>4. ASSUME NEW r \in Replicas, NEW s \in Sinks, NEW d \in Nat, run[<<r, s>>].at = "send", AdvanceTo(r, s, d)
      PROVE  CursorsOK'
  <2>1. cursor[s] # None
    BY <1>0, <1>4 DEF LoopsOK, LoopOK
  <2>2. /\ cursor'[s] = d \/ cursor'[s] = cursor[s]
        /\ \A t \in Sinks \ {s} : cursor'[t] = cursor[t]
        /\ run'[<<r, s>>] = [at |-> "wait", cursor |-> d]
    BY <1>4, <2>1, AdvanceMoves
  <2>3. cursor'[s] = d => Settled(s, cursor[s])'
    BY <1>2, <2>2
  <2> QED
    BY <1>1, <2>2, <2>3 DEF CursorsOK
<1>5. ASSUME NEW r \in Replicas, NEW s \in Sinks, EnsureCursor(r, s) PROVE CursorsOK'
  <2>1. /\ \A t \in Sinks \ {s} : cursor'[t] = cursor[t]
        /\ run'[<<r, s>>] = [at |-> "wait", cursor |-> cursor'[s]]
    BY <1>5 DEF EnsureCursor, TypeOK
  <2>2. Settled(s, cursor[s])'
    BY <1>2, <2>1
  <2> QED
    BY <1>1, <2>1, <2>2 DEF CursorsOK
<1>6. ASSUME NEW r \in Replicas, NEW s \in Sinks, SendFails(r, s) PROVE CursorsOK'
  <2>1. run[<<r, s>>].todo[1] - 1 \in Nat
    BY <1>6, FirstEvent DEF SendFails
  <2> QED
    BY <1>3, <1>4, <1>6, <2>1 DEF SendFails
<1>7. ASSUME NEW r \in Replicas, NEW s \in Sinks, Advance(r, s) PROVE CursorsOK'
  <2>1. run[<<r, s>>].last \in Nat
    BY <1>7, LoopType DEF Advance, Ids
  <2> QED
    BY <1>4, <1>7, <2>1 DEF Advance
<1>8. ASSUME NEW r \in Replicas, Dispatcher(r) PROVE CursorsOK'
  <2>1. TryLock(r) \/ NoticeLost(r) => UNCHANGED cursor
    BY DEF TryLock, NoticeLost
  <2>2. ASSUME NEW s \in Sinks, FirstCursor(r, s) \/ ReadRows(r, s) \/ SendChunk(r, s) \/ AdvanceFails(r, s)
        PROVE  UNCHANGED cursor
    BY <2>2 DEF FirstCursor, ReadRows, SendChunk, AdvanceFails
  <2> QED
    BY <1>3, <1>5, <1>6, <1>7, <1>8, <2>1, <2>2 DEF Dispatcher
<1>9. ASSUME NEW r \in Replicas, Purger(r) PROVE UNCHANGED cursor
  BY <1>9 DEF Purger, PurgeReadsMinKept, PurgeReadsFloor, PurgeDeletes, PurgeRecords, PurgeFails, sinkVars
<1>10. ASSUME NEW r \in Replicas, Anchorer(r) PROVE UNCHANGED cursor
  BY <1>10 DEF Anchorer, AnchorReadsHead, AnchorPutsObject, InsertAnchor, AnchorRecords, AnchorFails, sinkVars
<1>11. ASSUME NEW r \in Replicas, Restart(r) PROVE UNCHANGED cursor
  BY <1>11 DEF Restart
<1>12. Tick \/ Table \/ SealBatch \/ LoseLock \/ UNCHANGED vars => UNCHANGED cursor
  BY DEF Tick, Table, InsertRecord, CommitRecord, AbortRecord, SealBatch, LoseLock, vars, sinkVars
<1> QED
  BY <1>3, <1>8, <1>9, <1>10, <1>11, <1>12 DEF Next

\* What a step does to the purge of a replica.
LEMMA PurgeMoves ==
    ASSUME TypeOK, [Next]_vars, NEW r \in Replicas
    PROVE  \/ purge'[r] = purge[r]
           \/ purge'[r].at \notin {"floor", "delete"}
           \/ PurgeReadsMinKept(r) \/ PurgeReadsFloor(r)
<1> DEFINE Goal == \/ purge'[r] = purge[r]
                   \/ purge'[r].at \notin {"floor", "delete"}
                   \/ PurgeReadsMinKept(r) \/ PurgeReadsFloor(r)
<1>1. ASSUME NEW x \in Replicas, PurgeReadsMinKept(x) \/ PurgeReadsFloor(x) PROVE Goal
  BY <1>1 DEF PurgeReadsMinKept, PurgeReadsFloor, TypeOK
<1>2. ASSUME NEW x \in Replicas, PurgeRecords(x) \/ PurgeFails(x) PROVE Goal
  BY <1>2 DEF PurgeRecords, PurgeFails, TypeOK, Off
<1>3. ASSUME NEW x \in Replicas, PurgeDeletes(x) PROVE Goal
  BY <1>3 DEF PurgeDeletes, TypeOK
<1>4. ASSUME NEW x \in Replicas, Purger(x) PROVE Goal
  BY <1>1, <1>2, <1>3, <1>4 DEF Purger
<1>5. ASSUME NEW x \in Replicas, Anchorer(x) PROVE Goal
  BY <1>5 DEF Anchorer, AnchorReadsHead, AnchorPutsObject, InsertAnchor, AnchorRecords, AnchorFails
<1>6. ASSUME NEW x \in Replicas, Dispatcher(x) PROVE Goal
  BY <1>6 DEF Dispatcher, TryLock, NoticeLost, FirstCursor, EnsureCursor, ReadRows, SendChunk, SendFails,
     Advance, AdvanceFails
<1>7. ASSUME NEW x \in Replicas, Restart(x) PROVE Goal
  BY <1>7 DEF Restart, TypeOK, Off
<1>8. Tick \/ Table \/ SealBatch \/ LoseLock \/ UNCHANGED vars => Goal
  BY DEF Tick, Table, InsertRecord, CommitRecord, AbortRecord, SealBatch, LoseLock, vars
<1> HIDE DEF Goal
<1>9. Goal
  BY <1>4, <1>5, <1>6, <1>7, <1>8 DEF Next
<1> QED
  BY <1>9 DEF Goal

LEMMA FloorsStep ==
    ASSUME TypeOK, TypeOK', FloorsOK, [Next]_vars, \A t \in Sinks : SinkMoves(t)
    PROVE  FloorsOK'
<1> SUFFICES ASSUME NEW r \in Replicas, NEW s \in Sinks, purge'[r].at = "delete", purge'[r].floor > 0
             PROVE  cursor'[s] # None /\ purge'[r].floor <= cursor'[s]
  BY DEF FloorsOK
<1>1. CASE purge'[r] = purge[r]
  <2>1. cursor[s] # None /\ purge[r].floor <= cursor[s] /\ purge[r].floor \in Nat
    BY <1>1, PurgeType DEF FloorsOK
  <2>2. cursor'[s] # None /\ cursor[s] <= cursor'[s] /\ cursor[s] \in Nat /\ cursor'[s] \in Nat
    BY <2>1 DEF SinkMoves, TypeOK
  <2> QED
    BY <1>1, <2>1, <2>2
<1>2. CASE PurgeReadsMinKept(r)
  BY <1>2 DEF PurgeReadsMinKept, TypeOK
<1>3. CASE PurgeReadsFloor(r)
  <2>1. purge'[r].floor = Floor /\ UNCHANGED cursor
    BY <1>3 DEF PurgeReadsFloor, TypeOK, sinkVars
  <2> QED
    BY <2>1, FloorFacts, NoneAssumption
<1> QED
  BY <1>1, <1>2, <1>3, PurgeMoves

\* Rows go only where every sink has passed.
LEMMA PurgedStep ==
    ASSUME TypeOK, TypeOK', RowsInOrder, ChainInv, SinkInv, [Next]_vars, \A t \in Sinks : SinkMoves(t)
    PROVE  PurgedOK'
<1> SUFFICES ASSUME NEW s \in Sinks
             PROVE  /\ cursor'[s] = None => purged' = {}
                    /\ \A i \in Kept(s) \cap purged' : start'[s] < i => i \in sent'[s]
  BY DEF PurgedOK
<1>1. /\ cursor[s] = None => purged = {}
      /\ \A i \in Kept(s) \cap purged : start[s] < i => i \in sent[s]
  BY DEF SinkInv, PurgedOK
<1>2. SinkMoves(s)
  OBVIOUS
<1>3. CASE purged' = purged
  BY <1>1, <1>2, <1>3 DEF SinkMoves
<1>4. ASSUME NEW r \in Replicas, PurgeDeletes(r)
      PROVE  /\ cursor'[s] = None => purged' = {}
             /\ \A i \in Kept(s) \cap purged' : start'[s] < i => i \in sent'[s]
  <2>1. PICK D \in SUBSET Doomed(purge[r]) : Deleted(D) /\ purge[r].at = "delete"
    BY <1>4, DeleteFacts
  <2>2. purged' = purged \cup D /\ UNCHANGED <<cursor, start, sent>>
    BY <2>1 DEF Deleted, sinkVars
  <2>3. purge[r].floor \in Nat
    BY <2>1, PurgeType
  <2>4. \A i \in D : i \in Ids /\ i \in Nat /\ i > 0 /\ i <= purge[r].floor /\ i \in Committed
    BY DEF Doomed, Committed, Ids
  <2>5. D # {} => purge[r].floor > 0
    BY <2>3, <2>4
  <2>6. D # {} => cursor[s] # None /\ cursor[s] \in Nat /\ purge[r].floor <= cursor[s]
    BY <2>1, <2>5 DEF SinkInv, FloorsOK, TypeOK
  <2>7. ASSUME NEW i \in D, i \in Kept(s), start[s] < i PROVE i \in sent[s]
    <3>1. i <= cursor[s] /\ cursor[s] # None /\ i \in Ids /\ i \in Committed
      BY <2>3, <2>4, <2>6
    <3> QED
      BY <2>7, <3>1 DEF SinkInv, CursorsOK, Settled
  <2> QED
    BY <1>1, <2>2, <2>6, <2>7
<1>5. purged' = purged \/ \E r \in Replicas : PurgeDeletes(r)
  BY TableSteps DEF Tick, CommitRecord, AbortRecord, SealBatch
<1> QED
  BY <1>3, <1>4, <1>5

\* The sinks, after any step.
LEMMA SinkStep ==
    ASSUME MaxOpen <= Settle, TypeOK, RowsInOrder, ChainInv, TypeOK', SinkInv, [Next]_vars
    PROVE  SinkInv'
<1>1. TableMoves
  BY MovesAlways
<1>2. \A t \in Sinks : SinkMoves(t)
  BY SinkMovesAlways DEF SinkInv
<1>3. LoopsOK'
  BY <1>1, <1>2, LoopsStep
<1>4. CursorsOK'
  BY <1>1, <1>2, <1>3, CursorsStep
<1>5. FloorsOK'
  BY <1>2, FloorsStep DEF SinkInv
<1>6. PurgedOK'
  BY <1>2, PurgedStep
<1> QED
  BY <1>3, <1>4, <1>5, <1>6 DEF SinkInv

-----------------------------------------------------------------------------
(* The retention window.                                                   *)

\* Nothing older than c comes after row i in the chain, and nothing can.
NoneOlder(i, c) ==
    /\ \A j \in Ids : open[j] # None => open[j] >= c
    /\ \A j \in Unsealed : log[j].created >= c
    /\ \A j \in Sealed : log[j].seq > log[i].seq => log[j].created >= c

\* A purge holds back the rows that were there when it read minKept by their
\* position; what is sealed later has only young rows behind it.
PurgesKnow ==
    \A r \in Replicas : purge[r].at \in {"floor", "delete"} =>
        /\ purge[r].cutoff <= Cutoff
        /\ \A i \in Sealed : log[i].created >= purge[r].cutoff =>
             log[i].seq >= purge[r].minKept \/ NoneOlder(i, purge[r].cutoff)

\* From a row in the window to the head, no position is empty.
WindowWhole ==
    \A i \in Sealed : log[i].created >= Cutoff =>
        \A p \in log[i].seq..MaxSeq : \E j \in Sealed : log[j].seq = p

WindowInv == PurgesKnow /\ WindowWhole

\* The window only moves forward.
LEMMA CutoffMoves ==
    ASSUME TypeOK, [Next]_vars
    PROVE  Cutoff \in Nat /\ Cutoff' \in Nat /\ Cutoff <= Cutoff'
<1>1. now' = now \/ now' = now + 1
  BY TableSteps DEF Tick, CommitRecord, AbortRecord, SealBatch, PurgeDeletes
<1>2. now \in Nat /\ AuditDays \in Nat
  BY WindowsAssumption DEF TypeOK
<1> QED
  BY <1>1, <1>2 DEF Cutoff

\* When a purge has read its cutoff, nothing that is older is inserted, and
\* nothing that is older is sealed behind a younger row.
LEMMA KnowKept ==
    ASSUME MaxOpen <= AuditDays, TypeOK, RowsInOrder, ChainInv, [Next]_vars, NEW c \in Nat, NEW m \in Nat, c <= Cutoff,
           \A i \in Sealed : log[i].created >= c => log[i].seq >= m \/ NoneOlder(i, c)
    PROVE  \A i \in Sealed' : log'[i].created >= c => log'[i].seq >= m \/ NoneOlder(i, c)'
<1> DEFINE Goal == \A i \in Sealed' : log'[i].created >= c => log'[i].seq >= m \/ NoneOlder(i, c)'
<1>0. now \in Nat /\ Cutoff \in Nat /\ Cutoff <= now /\ c <= now
  BY CutoffFacts DEF TypeOK
<1>1. CASE UNCHANGED <<open, log>>
  BY <1>1 DEF NoneOlder, Unsealed, Sealed, Committed
<1>2. ASSUME NEW i \in Ids, CommitRecord(i) PROVE Goal
  <2>1. /\ Committed' = Committed \cup {i} /\ Sealed' = Sealed /\ i \notin Committed
        /\ open[i] \in Nat /\ log'[i].created = open[i] /\ open'[i] = None
        /\ \A j \in Ids \ {i} : log'[j] = log[j] /\ open'[j] = open[j]
        /\ open[i] # None
    BY <1>2, CommitKeepsRows DEF CommitRecord
  <2>2. \A j \in Sealed : j \in Ids \ {i} /\ log'[j] = log[j]
    BY <2>1 DEF Sealed, Committed
  <2>3. \A j \in Unsealed' : j = i \/ (j \in Unsealed /\ log'[j] = log[j])
    BY <2>1 DEF Unsealed, Committed
  <2>4. ASSUME NEW j \in Sealed, NoneOlder(j, c) PROVE NoneOlder(j, c)'
    BY <2>1, <2>2, <2>3, <2>4 DEF NoneOlder
  <2> QED
    BY <2>1, <2>2, <2>4
<1>3. ASSUME NEW i \in Ids, AbortRecord(i) PROVE Goal
  <2>1. UNCHANGED log /\ \A j \in Ids : open'[j] # None => open'[j] = open[j]
    BY <1>3 DEF AbortRecord, TypeOK
  <2> QED
    BY <2>1 DEF NoneOlder, Unsealed, Sealed, Committed
<1>4. CASE WriteOwnRecord /\ UNCHANGED log
  <2>1. \A j \in Ids : open'[j] # None => open'[j] = open[j] \/ open'[j] = now
    BY <1>4 DEF WriteOwnRecord, TypeOK
  <2> QED
    BY <1>0, <1>4, <2>1 DEF NoneOlder, Unsealed, Sealed, Committed
<1>5. ASSUME NEW r \in Replicas, PurgeDeletes(r) PROVE Goal
  <2>1. PICK D : Deleted(D)
    BY <1>5, DeleteFacts
  <2>2. Committed' = Committed \ D /\ Sealed' = Sealed \ D /\ open' = open /\ \A i \in Ids \ D : log'[i] = log[i]
    BY <2>1, DeleteKeepsRows DEF Deleted
  <2>3. \A j \in Sealed' : j \in Sealed /\ log'[j] = log[j]
    BY <2>2 DEF Sealed, Committed
  <2>4. \A j \in Unsealed' : j \in Unsealed /\ log'[j] = log[j]
    BY <2>2 DEF Unsealed, Committed
  <2> QED
    BY <2>2, <2>3, <2>4 DEF NoneOlder
<1>6. CASE SealBatch
  <2>1. PICK q : SealedBy(q)
    BY <1>6, SealFacts
  <2>2. /\ \A i \in Committed : log'[i].created = log[i].created
        /\ Committed' = Committed
        /\ Sealed' = Sealed \cup {q[k] : k \in 1..Len(q)}
        /\ \A i \in Sealed : log'[i] = log[i]
        /\ \A k \in 1..Len(q) : q[k] \notin Sealed /\ q[k] \in Committed /\ q[k] \in Ids
    BY <2>1, SealKeepsRows
  <2>3. open' = open /\ Len(q) \in Nat /\ \A k \in 1..Len(q) : q[k] \in Unsealed
    BY <2>1 DEF SealedBy
  <2>4. \A j \in Unsealed' : j \in Unsealed /\ j \in Committed /\ \A k \in 1..Len(q) : q[k] # j
    BY <2>2 DEF Unsealed
  <2>5. ASSUME NEW i \in Sealed, NoneOlder(i, c) PROVE NoneOlder(i, c)'
    <3>1. \A j \in Unsealed' : log'[j].created >= c
      BY <2>2, <2>4, <2>5 DEF NoneOlder
    <3>2. \A j \in Sealed' : log'[j].seq > log'[i].seq => log'[j].created >= c
      BY <2>2, <2>3, <2>5 DEF NoneOlder
    <3> QED
      BY <2>3, <2>5, <3>1, <3>2 DEF NoneOlder
  <2>6. ASSUME NEW k \in 1..Len(q), log'[q[k]].created >= c PROVE NoneOlder(q[k], c)'
    <3>0. \A i \in Committed : i \in Ids /\ i \in Nat /\ log[i].created \in Nat /\ open[i] = None
      BY RowType DEF RowsInOrder, Committed, Ids
    <3>1. \A i, j \in Committed : i < j => log[i].created <= log[j].created
      <4> SUFFICES ASSUME NEW i \in Committed, NEW j \in Committed, i < j PROVE log[i].created <= log[j].created
        OBVIOUS
      <4>1. Known(i) /\ Known(j) /\ Born(i) = log[i].created /\ Born(j) = log[j].created /\ i \in Ids /\ j \in Ids
        BY <3>0 DEF Known, Born, Committed
      <4> QED
        BY <4>1 DEF RowsInOrder
    <3>2. q[k] \in Committed /\ log[q[k]].created >= c
      BY <2>2, <2>6
    <3>3. \A j \in Ids : open'[j] # None => open'[j] >= c
      <4> SUFFICES ASSUME NEW j \in Ids, open[j] # None PROVE open[j] >= c
        BY <2>3
      <4>1. open[j] \in Nat /\ now <= open[j] + MaxOpen
        BY DEF TypeOK, RowsInOrder
      <4>2. Cutoff # 0 => Cutoff = now - AuditDays
        BY CutoffFacts
      <4> QED
        BY <1>0, <4>1, <4>2, WindowsAssumption, SMTT(30)
    <3>4. ASSUME NEW j \in Unsealed' PROVE log'[j].created >= c
      <4>1. j \in Unsealed /\ j \in Committed /\ \A l \in 1..Len(q) : q[l] # j
        BY <2>4
      <4>2. q[k] < j
        BY <2>1, <4>1 DEF SealedBy
      <4> QED
        BY <2>2, <3>0, <3>1, <3>2, <4>1, <4>2, SMTT(30)
    <3>5. ASSUME NEW j \in Sealed', log'[j].seq > log'[q[k]].seq PROVE log'[j].created >= c
      <4>1. log'[q[k]].seq = ChainHead.seq + k /\ ChainHead.seq \in Nat /\ k \in Nat /\ k >= 1
        BY <2>1, <2>3, SealRowFacts, HeadFacts
      <4>2. j \notin Sealed
        <5> SUFFICES ASSUME j \in Sealed PROVE FALSE
          OBVIOUS
        <5>1. log'[j] = log[j] /\ log[j].seq \in Nat /\ log[j].seq <= ChainHead.seq
          BY <2>2, SealedType, HeadFacts
        <5> QED
          BY <3>5, <4>1, <5>1
      <4>3. PICK l \in 1..Len(q) : j = q[l]
        BY <2>2, <4>2
      <4>4. log'[j].seq = ChainHead.seq + l /\ l \in Nat
        BY <2>1, <2>3, <4>3, SealRowFacts
      <4>5. k < l
        BY <3>5, <4>1, <4>4
      <4>6. q[k] < q[l]
        BY <2>1, <4>5 DEF SealedBy
      <4>7. j \in Committed /\ log[q[k]].created <= log[j].created
        BY <2>2, <3>1, <3>2, <4>3, <4>6
      <4> QED
        BY <2>2, <3>0, <3>2, <4>7
    <3> QED
      BY <3>3, <3>4, <3>5 DEF NoneOlder
  <2> QED
    BY <2>2, <2>5, <2>6
<1>7. CASE Tick
  BY <1>1, <1>7 DEF Tick
<1> QED
  BY <1>2, <1>3, <1>4, <1>5, <1>6, <1>7, TableSteps

LEMMA PurgesStep ==
    ASSUME MaxOpen <= AuditDays, TypeOK, RowsInOrder, ChainInv, [Next]_vars, PurgesKnow
    PROVE  PurgesKnow'
<1> SUFFICES ASSUME NEW r \in Replicas, purge'[r].at \in {"floor", "delete"}
             PROVE  /\ purge'[r].cutoff <= Cutoff'
                    /\ \A i \in Sealed' : log'[i].created >= purge'[r].cutoff =>
                         log'[i].seq >= purge'[r].minKept \/ NoneOlder(i, purge[r].cutoff)'
  BY DEF PurgesKnow
<1>0. Cutoff \in Nat /\ Cutoff' \in Nat /\ Cutoff <= Cutoff'
  BY CutoffMoves
<1>1. CASE \/ purge'[r] = purge[r]
           \/ /\ purge[r].at = "floor" /\ purge'[r].cutoff = purge[r].cutoff /\ purge'[r].minKept = purge[r].minKept
  <2>1. purge[r].at \in {"floor", "delete"}
    BY <1>1
  <2>2. PICK c \in Nat, m \in Nat : c = purge[r].cutoff /\ m = purge[r].minKept
    BY <2>1, PurgeType
  <2>3. c <= Cutoff /\ \A i \in Sealed : log[i].created >= c => log[i].seq >= m \/ NoneOlder(i, c)
    BY <2>1, <2>2 DEF PurgesKnow
  <2>4. \A i \in Sealed' : log'[i].created >= c => log'[i].seq >= m \/ NoneOlder(i, c)'
    BY <2>3, KnowKept
  <2>5. purge'[r].cutoff = c /\ purge'[r].minKept = m
    BY <1>1, <2>2
  <2> QED
    BY <1>0, <2>3, <2>4, <2>5
<1>2. CASE PurgeReadsMinKept(r)
  <2>1. purge'[r].cutoff = Cutoff /\ purge'[r].minKept = MinKept(Cutoff) /\ UNCHANGED log
    BY <1>2 DEF PurgeReadsMinKept, tableVars, TypeOK
  <2>2. \A i \in Sealed : log[i].created >= Cutoff => log[i].seq >= MinKept(Cutoff)
    BY <1>0, MinKeptFacts
  <2>3. Sealed' = Sealed
    BY <2>1 DEF Sealed, Committed
  <2> QED
    BY <1>0, <2>1, <2>2, <2>3
<1>3. CASE PurgeReadsFloor(r)
  <2>1. purge[r].at = "floor" /\ purge'[r].cutoff = purge[r].cutoff /\ purge'[r].minKept = purge[r].minKept
    BY <1>3 DEF PurgeReadsFloor, TypeOK
  <2> QED
    BY <1>1, <2>1
<1> QED
  BY <1>1, <1>2, <1>3, PurgeMoves

\* A DELETE takes no row behind one that stays in the window.
LEMMA WindowSpared ==
    ASSUME TypeOK, ChainInv, PurgesKnow, NEW r \in Replicas, purge[r].at = "delete",
           NEW i \in Sealed, log[i].created >= Cutoff, NEW j \in Sealed \cap Doomed(purge[r])
    PROVE  log[j].seq < log[i].seq
<1> SUFFICES ASSUME ~(log[j].seq < log[i].seq) PROVE FALSE
  OBVIOUS
<1>1. PICK c \in Nat, m \in Nat : c = purge[r].cutoff /\ m = purge[r].minKept
  BY PurgeType
<1>2. log[j].created < c /\ log[j].seq < m
  BY <1>1 DEF Doomed
<1>3. /\ log[i].created \in Nat /\ log[i].seq \in Nat /\ log[j].created \in Nat /\ log[j].seq \in Nat
      /\ Cutoff \in Nat
  BY SealedType, CutoffFacts
<1>4. c <= Cutoff /\ (log[i].created >= c => log[i].seq >= m \/ NoneOlder(i, c))
  BY <1>1 DEF PurgesKnow
<1>5. log[i].created >= c
  BY <1>3, <1>4
<1>6. i # j
  BY <1>2, <1>3, <1>5
<1>7. log[j].seq > log[i].seq
  <2>1. log[i].seq # log[j].seq
    BY <1>6 DEF ChainInv, ChainLinked
  <2> QED
    BY <1>3, <2>1
<1>8. NoneOlder(i, c)
  BY <1>2, <1>3, <1>4, <1>5, <1>7
<1> QED
  BY <1>2, <1>3, <1>7, <1>8 DEF NoneOlder

LEMMA WindowStep ==
    ASSUME TypeOK, RowsInOrder, ChainInv, TypeOK', ChainInv', [Next]_vars, PurgesKnow, WindowWhole
    PROVE  WindowWhole'
<1>0. Cutoff \in Nat /\ Cutoff' \in Nat /\ Cutoff <= Cutoff'
  BY CutoffMoves
<1>1. /\ ChainHead.seq = MaxSeq /\ MaxSeq \in Nat /\ ChainHead'.seq = MaxSeq' /\ MaxSeq' \in Nat
      /\ \A i \in Sealed : log[i].seq \in Nat /\ log[i].created \in Nat /\ log[i].seq <= MaxSeq
      /\ Sealed # {} => \E i \in Sealed : log[i].seq = MaxSeq
  BY HeadFacts, HeadNext, SealedType
<1>2. CASE Sealed' = Sealed /\ \A i \in Sealed : log'[i] = log[i]
  <2>1. MaxSeq' = MaxSeq
    BY <1>1, <1>2, HeadSame
  <2>2. \A i \in Sealed : log[i].created >= Cutoff' => log[i].created >= Cutoff
    BY <1>0, <1>1
  <2> QED
    BY <1>2, <2>1, <2>2 DEF WindowWhole
<1>3. CASE SealBatch
  <2>1. PICK q : SealedBy(q)
    BY <1>3, SealFacts
  <2>2. /\ \A i \in Committed : log'[i].created = log[i].created
        /\ Sealed' = Sealed \cup {q[k] : k \in 1..Len(q)}
        /\ \A i \in Sealed : log'[i] = log[i]
    BY <2>1, SealKeepsRows
  <2>3. now' = now /\ Len(q) \in Nat
    BY <2>1 DEF SealedBy
  <2>4. Cutoff' = Cutoff
    BY <2>3 DEF Cutoff
  <2>5. \A k \in 1..Len(q) : log'[q[k]].seq = MaxSeq + k
    BY <1>1, <2>1, SealRowFacts
  <2>6. MaxSeq' = MaxSeq + Len(q)
    BY <1>1, <2>1, HeadAfterSeal
  <2>7. ASSUME NEW p \in Nat, p > MaxSeq, p <= MaxSeq' PROVE \E j \in Sealed' : log'[j].seq = p
    <3>1. p - MaxSeq \in 1..Len(q) /\ MaxSeq + (p - MaxSeq) = p
      BY <1>1, <2>3, <2>6, <2>7
    <3> QED
      BY <2>2, <2>5, <3>1
  <2> SUFFICES ASSUME NEW i \in Sealed', log'[i].created >= Cutoff', NEW p \in log'[i].seq..MaxSeq'
               PROVE  \E j \in Sealed' : log'[j].seq = p
    BY DEF WindowWhole
  <2>8. CASE i \in Sealed
    <3>1. log'[i] = log[i] /\ log[i].seq \in Nat
      BY <1>1, <2>2, <2>8
    <3>2. p \in Nat /\ p >= log[i].seq /\ p <= MaxSeq'
      BY <1>1, <3>1
    <3>3. CASE p <= MaxSeq
      <4>1. p \in log[i].seq..MaxSeq
        BY <1>1, <3>1, <3>2, <3>3
      <4>2. PICK j \in Sealed : log[j].seq = p
        BY <2>4, <2>8, <3>1, <4>1 DEF WindowWhole
      <4> QED
        BY <2>2, <4>2
    <3>4. CASE p > MaxSeq
      BY <2>7, <3>2, <3>4
    <3> QED
      BY <1>1, <3>2, <3>3, <3>4
  <2>9. CASE i \notin Sealed
    <3>1. PICK k \in 1..Len(q) : i = q[k]
      BY <2>2, <2>9
    <3>2. log'[i].seq = MaxSeq + k /\ k \in Nat /\ k >= 1
      BY <2>3, <2>5, <3>1
    <3>3. p \in Nat /\ p > MaxSeq /\ p <= MaxSeq'
      BY <1>1, <3>2
    <3> QED
      BY <2>7, <3>3
  <2> QED
    BY <2>8, <2>9
<1>4. ASSUME NEW r \in Replicas, PurgeDeletes(r) PROVE WindowWhole'
  <2>1. PICK D \in SUBSET Doomed(purge[r]) : Deleted(D) /\ purge[r].at = "delete"
    BY <1>4, DeleteFacts
  <2>2. Sealed' = Sealed \ D /\ now' = now /\ \A i \in Ids \ D : log'[i] = log[i]
    BY <2>1, DeleteKeepsRows DEF Deleted
  <2>3. \A i \in Sealed' : i \in Sealed /\ log'[i] = log[i]
    BY <2>2 DEF Sealed, Committed
  <2>4. Cutoff' = Cutoff
    BY <2>2 DEF Cutoff
  <2> SUFFICES ASSUME NEW i \in Sealed', log'[i].created >= Cutoff', NEW p \in log'[i].seq..MaxSeq'
               PROVE  \E j \in Sealed' : log'[j].seq = p
    BY DEF WindowWhole
  <2>5. i \in Sealed /\ log'[i] = log[i] /\ log[i].created >= Cutoff /\ log[i].seq \in Nat
    BY <1>1, <2>3, <2>4
  <2>6. \A j \in Sealed : log[j].seq >= log[i].seq => j \in Sealed'
    <3> SUFFICES ASSUME NEW j \in Sealed, log[j].seq >= log[i].seq, j \in D PROVE FALSE
      BY <2>2
    <3>1. log[j].seq < log[i].seq
      BY <2>1, <2>5, WindowSpared
    <3> QED
      BY <1>1, <2>5, <3>1
  <2>7. MaxSeq' = MaxSeq
    <3>1. \A j \in Sealed : log[j].seq = ChainHead.seq => j \in Sealed'
      BY <1>1, <2>5, <2>6
    <3>2. Sealed' \subseteq Sealed /\ \A j \in Sealed' : log'[j] = log[j]
      BY <2>3
    <3> QED
      BY <1>1, <3>1, <3>2, HeadSame
  <2>8. p \in log[i].seq..MaxSeq /\ p >= log[i].seq
    BY <1>1, <2>5, <2>7
  <2>9. PICK j \in Sealed : log[j].seq = p
    BY <2>5, <2>8 DEF WindowWhole
  <2> QED
    BY <2>3, <2>6, <2>8, <2>9
<1>5. ASSUME NEW i \in Ids, CommitRecord(i) PROVE WindowWhole'
  <2>1. Sealed' = Sealed /\ i \notin Committed /\ \A j \in Ids \ {i} : log'[j] = log[j]
    BY <1>5, CommitKeepsRows
  <2> QED
    BY <1>2, <2>1 DEF Sealed, Committed
<1>6. CASE UNCHANGED log
  BY <1>2, <1>6 DEF Sealed, Committed
<1> QED
  BY <1>3, <1>4, <1>5, <1>6, RowSteps

\* Such a window verifies.
LEMMA WindowFound ==
    ASSUME TypeOK, ChainInv, WindowWhole
    PROVE  WindowVerifies
<1> DEFINE fresh == {log[i].seq : i \in {j \in Sealed : log[j].created >= Cutoff}}
<1> SUFFICES ASSUME fresh # {} PROVE Verify(Min(fresh), MaxSeq) = "ok"
  BY DEF WindowVerifies
<1>0. \A i \in Sealed : log[i].seq \in Nat /\ log[i].seq <= MaxSeq
  BY HeadFacts, SealedType
<1>1. fresh \in SUBSET Nat
  BY <1>0
<1>2. Min(fresh) \in fresh
  BY <1>1, MinFacts
<1>3. PICK i \in Sealed : log[i].seq = Min(fresh) /\ log[i].created >= Cutoff
  BY <1>2
<1>4. PICK a \in Nat : a = Min(fresh)
  BY <1>1, <1>2
<1>5. PICK z \in Nat : z = MaxSeq
  BY HeadFacts
<1> HIDE DEF fresh
<1> DEFINE there == {log[x].seq : x \in {j \in Sealed : log[j].seq \in a..z}}
<1>6. \A p \in a..z : \E j \in Sealed : log[j].seq = p
  BY <1>3, <1>4, <1>5 DEF WindowWhole
<1>7. there = a..z
  BY <1>6
<1>8. a <= z
  BY <1>0, <1>3, <1>4, <1>5
<1>9. \A p \in there : At(p) \in Sealed /\ log[At(p)].seq = p
  BY <1>6, <1>7 DEF At
<1>10. \A p \in there : log[At(p)].hash = Append(log[At(p)].prev, At(p))
  BY <1>9 DEF ChainInv, HashesRight
<1>11. \A p \in there : p + 1 \in there => log[At(p + 1)].prev = log[At(p)].hash
  BY <1>9 DEF ChainInv, ChainLinked
<1>12. there = Min(there)..Max(there)
  <2>1. there \in SUBSET Nat /\ there # {} /\ \A t \in there : t <= z
    BY <1>7, <1>8
  <2>2. Min(there) \in there /\ \A t \in there : Min(there) <= t
    BY <2>1, MinFacts
  <2>3. Max(there) \in there /\ \A t \in there : Max(there) >= t
    BY <2>1, MaxFacts
  <2> HIDE DEF there
  <2>4. a \in there /\ z \in there /\ Min(there) \in a..z /\ Max(there) \in a..z
    BY <1>7, <1>8, <2>2, <2>3
  <2>5. Min(there) = a /\ Max(there) = z
    BY <2>2, <2>3, <2>4
  <2> QED
    BY <1>7, <2>5
<1>13. Verify(a, z) = "ok"
  BY <1>10, <1>11, <1>12 DEF Verify
<1> QED
  BY <1>4, <1>5, <1>13

-----------------------------------------------------------------------------
(* The theorems.                                                           *)

\* All of it; the sinks need inserts that commit within the settle delay, the
\* window needs inserts that commit within it.
AuditInv ==
    /\ TypeOK /\ RowsInOrder /\ ChainInv /\ AnchorInv
    /\ MaxOpen <= Settle => SinkInv
    /\ MaxOpen <= AuditDays => WindowInv

LEMMA AuditStarts == Init => AuditInv
<1> SUFFICES ASSUME Init PROVE AuditInv
  OBVIOUS
<1>1. TypeOK
  <2>1. Off \in Loops /\ Off \in Purges /\ Off \in Anchorings
    BY DEF Loops, Purges, Anchorings
  <2>2. now \in Nat /\ nextId \in Nat \ {0} /\ purged \in SUBSET Ids /\ anchors \in Seq(Anchor)
    BY DEF Init
  <2>6. cut \in BOOLEAN
    BY Zenon DEF Init
  <2>3. /\ open \in [Ids -> Nat \cup {None}] /\ log \in [Ids -> Row \cup {None}]
        /\ cursor \in [Sinks -> Nat \cup {None}] /\ lock \in Replicas \cup {None}
    BY DEF Init
  <2>4. run \in [Replicas \X Sinks -> Loops] /\ purge \in [Replicas -> Purges]
        /\ anchoring \in [Replicas \X Calls -> Anchorings]
    BY <2>1 DEF Init
  <2>5. sent \in [Sinks -> SUBSET Ids] /\ start \in [Sinks -> Nat]
    BY DEF Init
  <2> QED
    BY <2>2, <2>3, <2>4, <2>5, <2>6 DEF TypeOK
<1>2. Committed = {} /\ Sealed = {} /\ Unsealed = {}
  BY DEF Init, Committed, Sealed, Unsealed
<1>3. RowsInOrder
  BY DEF Init, RowsInOrder, Known, Born
<1>4. ChainInv
  BY <1>2 DEF ChainInv, SeqsBounded, HashesRight, ChainLinked
<1>5. AnchorInv
  <2>1. ChainHead.seq = 0 /\ ChainHead.hash = <<>>
    BY <1>1, <1>2, <1>4, HeadFacts
  <2>2. WholeChain
    BY <1>2, <2>1 DEF WholeChain
  <2>3. Len(anchors) = 0
    BY DEF Init
  <2>4. AnchorsSpeak /\ AnchorsCover
    BY <2>3 DEF AnchorsSpeak, AnchorsCover
  <2>5. CallsOnChain
    BY DEF Init, CallsOnChain, Off
  <2> QED
    BY <2>2, <2>4, <2>5 DEF AnchorInv
<1>6. SinkInv
  BY DEF Init, SinkInv, CursorsOK, LoopsOK, LoopOK, FloorsOK, PurgedOK, Off
<1>7. WindowInv
  BY <1>2 DEF Init, WindowInv, PurgesKnow, WindowWhole, Off
<1> QED
  BY <1>1, <1>3, <1>4, <1>5, <1>6, <1>7 DEF AuditInv

LEMMA AuditSteps == AuditInv /\ [Next]_vars => AuditInv'
<1> SUFFICES ASSUME AuditInv, [Next]_vars PROVE AuditInv'
  OBVIOUS
<1>0. TypeOK /\ RowsInOrder /\ ChainInv /\ AnchorInv
  BY DEF AuditInv
<1>1. TypeOK'
  BY <1>0, TypesStep
<1>2. RowsInOrder'
  BY <1>0, RowsStep
<1>3. ChainInv'
  BY <1>0, ChainStep
<1>4. AnchorInv'
  BY <1>0, <1>1, <1>3, AnchorStep
<1>5. ASSUME MaxOpen <= Settle PROVE SinkInv'
  BY <1>0, <1>1, <1>5, SinkStep DEF AuditInv
<1>6. ASSUME MaxOpen <= AuditDays PROVE WindowInv'
  <2>1. PurgesKnow /\ WindowWhole
    BY <1>6 DEF AuditInv, WindowInv
  <2>2. PurgesKnow'
    BY <1>0, <1>6, <2>1, PurgesStep
  <2>3. WindowWhole'
    BY <1>0, <1>1, <1>3, <2>1, WindowStep
  <2> QED
    BY <2>2, <2>3 DEF WindowInv
<1> QED
  BY <1>1, <1>2, <1>3, <1>4, <1>5, <1>6 DEF AuditInv

\* The audit log always meets its invariant: inserts, the sealer, the purge,
\* the anchorer and the dispatcher of every replica keep it, in any order.
THEOREM AuditInvariant == Spec => []AuditInv
  BY AuditStarts, AuditSteps, PTL DEF Spec

\* Tables and jobs hold values of their types.
THEOREM AuditTypes == Spec => []TypeOK
<1>1. AuditInv => TypeOK
  BY DEF AuditInv
<1> QED
  BY <1>1, AuditInvariant, PTL

\* SealBatch numbers every row once and chains it to the one before it, and the
\* purge never makes a chain break.
THEOREM ChainStaysLinked == Spec => []ChainLinked
<1>1. AuditInv => ChainLinked
  BY DEF AuditInv, ChainInv
<1> QED
  BY <1>1, AuditInvariant, PTL

\* The rows in the retention window verify, while purges, late commits and
\* seals interleave: what the minKept of purgeAudit is for.
THEOREM WindowStaysWhole == Spec => []WindowVerifies
<1>1. AuditInv => WindowVerifies
  <2> SUFFICES ASSUME AuditInv PROVE WindowVerifies
    OBVIOUS
  <2>1. CASE MaxOpen <= AuditDays
    BY <2>1, WindowFound DEF AuditInv, WindowInv
  <2>2. CASE ~(MaxOpen <= AuditDays)
    BY <2>2 DEF WindowVerifies
  <2> QED
    BY <2>1, <2>2
<1> QED
  BY <1>1, AuditInvariant, PTL

\* Anchors recorded by AnchorOnce agree with the chain and leave no kept row
\* out, however the calls of all replicas interleave, until a purge takes the
\* head.
THEOREM AnchorsAgree == Spec => []AnchorsMatch
<1>1. AuditInv => AnchorsMatch
  <2> SUFFICES ASSUME AuditInv, ~cut, NEW k \in 1..Len(anchors), NEW i \in Sealed
               PROVE  /\ anchors[k].rows > 0 /\ log[i].seq = anchors[k].to => log[i].hash = anchors[k].head
                      /\ log[i].seq \in anchors[1].from..anchors[k].to =>
                           \E l \in 1..Len(anchors) : log[i].seq \in anchors[l].from..anchors[l].to
    BY DEF AnchorsMatch
  <2>1. WholeChain /\ Speaks(anchors[k]) /\ AnchorsCover
    BY DEF AuditInv, AnchorInv, AnchorsSpeak
  <2> QED
    BY <2>1 DEF WholeChain, Speaks, AnchorsCover
<1> QED
  BY <1>1, AuditInvariant, PTL

\* No sink's cursor passes a row that the sink still has to get: the settle
\* delay of Dispatcher.After, UPDATE ... WHERE last_id < $2, and the stop before
\* the first event that failed, with any number of leaders.
THEOREM DeliveryAtLeastOnce == Spec => []CursorMeansSent
<1>1. AuditInv => CursorMeansSent
  <2> SUFFICES ASSUME AuditInv, MaxOpen <= Settle, NEW s \in Sinks, cursor[s] # None,
                      NEW i \in Kept(s), i \in Committed \cup purged, start[s] < i, i <= cursor[s]
               PROVE  i \in sent[s]
    BY DEF CursorMeansSent
  <2>1. Settled(s, cursor[s]) /\ i \in Ids
    BY SinksAssumption DEF AuditInv, SinkInv, CursorsOK
  <2> QED
    BY <2>1 DEF Settled
<1> QED
  BY <1>1, AuditInvariant, PTL

\* purgeAudit, held back by Floor, deletes no row that a sink still has to copy.
THEOREM PurgeWaitsForSinks == Spec => []PurgedWereSent
<1>1. AuditInv => PurgedWereSent
  BY DEF AuditInv, SinkInv, PurgedOK, PurgedWereSent
<1> QED
  BY <1>1, AuditInvariant, PTL
===============================================================================

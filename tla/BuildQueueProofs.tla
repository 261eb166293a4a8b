--------------------------- MODULE BuildQueueProofs ---------------------------
(***************************************************************************)
(* For every number of repositories, branches, commits and builds, and     *)
(* every setting: the indexes of the build queue, its places, and the Jobs *)
(* across restarts.                                                        *)
(***************************************************************************)
EXTENDS BuildQueue, NumberLemmas, FiniteSetTheorems, SequenceTheorems

-----------------------------------------------------------------------------
(* Lists without doubles.                                                  *)

Distinct(s) == \A i, j \in 1..Len(s) : s[i] = s[j] => i = j

\* A list that gets one more at its end.
LEMMA AppendFacts ==
    ASSUME NEW S, NEW s \in Seq(S), NEW e \in S
    PROVE  /\ Append(s, e) \in Seq(S)
           /\ Range(Append(s, e)) = Range(s) \cup {e}
           /\ Distinct(s) /\ e \notin Range(s) => Distinct(Append(s, e))
<1> DEFINE t == Append(s, e)
           n == Len(s)
<1>1. /\ t \in Seq(S) /\ n \in Nat /\ Len(t) = n + 1 /\ t[n + 1] = e
      /\ \A i \in 1..n : t[i] = s[i]
  BY AppendProperties, LenProperties
<1> HIDE DEF t, n
<1>2. Range(s) = {s[i] : i \in 1..n} /\ Range(t) = {t[i] : i \in 1..n + 1}
  BY <1>1, RangeEquality DEF n
<1>3. Range(t) = Range(s) \cup {e}
  <2>1. Range(t) \subseteq Range(s) \cup {e}
    BY <1>1, <1>2
  <2>2. \A i \in 1..n : i \in 1..n + 1
    BY <1>1
  <2>3. Range(s) \subseteq Range(t) /\ n + 1 \in 1..n + 1
    BY <1>1, <1>2, <2>2
  <2> QED
    BY <1>1, <1>2, <2>1, <2>3
<1>4. ASSUME Distinct(s), e \notin Range(s) PROVE Distinct(t)
  <2> SUFFICES ASSUME NEW i \in 1..n + 1, NEW j \in 1..n + 1, t[i] = t[j] PROVE i = j
    BY <1>1 DEF Distinct
  <2>1. CASE i \in 1..n /\ j \in 1..n
    BY <1>1, <1>4, <2>1 DEF Distinct, n
  <2>2. CASE i \in 1..n /\ j = n + 1
    BY <1>1, <1>2, <1>4, <2>2
  <2>3. CASE i = n + 1 /\ j \in 1..n
    BY <1>1, <1>2, <1>4, <2>3
  <2> QED
    BY <1>1, <2>1, <2>2, <2>3
<1> QED
  BY <1>1, <1>3, <1>4 DEF t

\* A list that loses one.
LEMMA RemoveFacts ==
    ASSUME NEW S, NEW s \in Seq(S), Distinct(s), NEW e \in Range(s)
    PROVE  /\ RemoveFirst(s, e) \in Seq(S)
           /\ Range(RemoveFirst(s, e)) = Range(s) \ {e}
           /\ Distinct(RemoveFirst(s, e))
<1> DEFINE n == Len(s)
           I == {i \in 1..n : s[i] = e}
           p == Min(I)
           a == SubSeq(s, 1, p - 1)
           z == SubSeq(s, p + 1, n)
           t == RemoveFirst(s, e)
<1>1. n \in Nat /\ Range(s) = {s[i] : i \in 1..n} /\ \A i \in 1..n : s[i] \in S
  BY RangeEquality, LenProperties, ElementOfSeq
<1>2. I \in SUBSET Nat /\ I # {}
  BY <1>1
<1>3. p \in I
  BY <1>2, MinFacts
<1>4. p \in 1..n /\ p \in Nat /\ s[p] = e /\ \A i \in 1..n : s[i] = e => i = p
  <2> HIDE DEF p
  <2>1. p \in 1..n /\ s[p] = e
    BY <1>3
  <2> QED
    BY <1>1, <2>1 DEF Distinct
<1>5. t = a \o z
  <2>1. SelectInSeq(s, LAMBDA v : v = e) = p
    BY <1>2 DEF SelectInSeq
  <2>2. \E i \in 1..Len(s) : s[i] = e
    BY <1>4
  <2> QED
    BY <2>1, <2>2 DEF RemoveFirst, RemoveAt
<1> HIDE DEF I, p, t
<1>6. a \in Seq(S) /\ Len(a) = p - 1 /\ \A i \in 1..p - 1 : a[i] = s[i]
  <2>1. 1 \in Int /\ p - 1 \in Int /\ \A i \in 1..p - 1 : s[i] \in S
    BY <1>1, <1>4
  <2>2. /\ a \in Seq(S) /\ Len(a) = IF 1 <= p - 1 THEN (p - 1) - 1 + 1 ELSE 0
        /\ \A i \in 1..(p - 1) - 1 + 1 : a[i] = s[1 + i - 1]
    BY <2>1, SubSeqProperties
  <2> HIDE DEF a
  <2> QED
    BY <1>4, <2>2
<1>7. z \in Seq(S) /\ Len(z) = n - p /\ \A i \in 1..n - p : z[i] = s[p + i]
  <2>1. p + 1 \in Int /\ n \in Int /\ \A i \in p + 1..n : s[i] \in S
    BY <1>1, <1>4
  <2>2. /\ z \in Seq(S) /\ Len(z) = IF p + 1 <= n THEN n - (p + 1) + 1 ELSE 0
        /\ \A i \in 1..n - (p + 1) + 1 : z[i] = s[(p + 1) + i - 1]
    BY <2>1, SubSeqProperties
  <2> HIDE DEF z
  <2> QED
    BY <1>1, <1>4, <2>2
<1> HIDE DEF a, z, n
<1>8. /\ t \in Seq(S) /\ Len(t) = n - 1
      /\ \A i \in 1..n - 1 : t[i] = IF i < p THEN s[i] ELSE s[i + 1]
  <2>1. t \in Seq(S) /\ Len(t) = Len(a) + Len(z)
    BY <1>5, <1>6, <1>7, ConcatProperties
  <2>2. \A i \in 1..Len(a) + Len(z) : t[i] = IF i <= Len(a) THEN a[i] ELSE z[i - Len(a)]
    BY <1>5, <1>6, <1>7, ConcatProperties
  <2>3. Len(t) = n - 1
    BY <1>1, <1>4, <1>6, <1>7, <2>1
  <2>4. ASSUME NEW i \in 1..n - 1 PROVE t[i] = IF i < p THEN s[i] ELSE s[i + 1]
    <3>0. i \in 1..Len(a) + Len(z) /\ i \in Nat
      BY <1>1, <1>4, <1>6, <1>7, <2>4
    <3>1. CASE i < p
      <4>1. i \in 1..p - 1 /\ i <= Len(a)
        BY <1>4, <1>6, <3>0, <3>1
      <4> QED
        BY <1>6, <2>2, <3>0, <3>1, <4>1
    <3>2. CASE ~(i < p)
      <4>1. i - Len(a) \in 1..n - p /\ ~(i <= Len(a)) /\ p + (i - Len(a)) = i + 1
        BY <1>1, <1>4, <1>6, <2>4, <3>0, <3>2
      <4> QED
        BY <1>7, <2>2, <3>0, <3>2, <4>1
    <3> QED
      BY <3>1, <3>2
  <2> QED
    BY <2>1, <2>3, <2>4
<1> DEFINE from(i) == IF i < p THEN i ELSE i + 1
<1>9. \A i \in 1..n - 1 : from(i) \in 1..n /\ from(i) # p /\ t[i] = s[from(i)]
  BY <1>1, <1>4, <1>8
<1>10. \A i, j \in 1..n - 1 : from(i) = from(j) => i = j
  BY <1>1, <1>4
<1>11. Distinct(t)
  BY <1>8, <1>9, <1>10 DEF Distinct, n
<1>12. Range(t) = {t[i] : i \in 1..n - 1}
  BY <1>8, RangeEquality
<1>13. Range(t) \subseteq Range(s) \ {e}
  BY <1>1, <1>4, <1>9, <1>12
<1>14. ASSUME NEW i \in 1..n, s[i] # e PROVE s[i] \in Range(t)
  <2>1. i # p
    BY <1>4, <1>14
  <2>2. CASE i < p
    <3>1. i \in 1..n - 1 /\ t[i] = s[i]
      BY <1>1, <1>4, <1>8, <2>2
    <3> QED
      BY <1>12, <3>1
  <2>3. CASE i > p
    <3>1. i - 1 \in 1..n - 1 /\ ~(i - 1 < p) /\ (i - 1) + 1 = i
      BY <1>1, <1>4, <2>3
    <3>2. t[i - 1] = s[i]
      BY <1>8, <3>1
    <3> QED
      BY <1>12, <3>1, <3>2
  <2> QED
    BY <1>4, <2>1, <2>2, <2>3
<1>15. Range(s) \ {e} \subseteq Range(t)
  BY <1>1, <1>14
<1> QED
  BY <1>8, <1>11, <1>13, <1>15 DEF t

-----------------------------------------------------------------------------
(* The fields of the queue after each method.                              *)

LEMMA BuildType ==
    ASSUME NEW b \in Build
    PROVE  b.id \in Ids /\ b.branch \in Branches /\ Repo(b) \in Repos /\ b.branch[2] \in Refs /\ b.id # None
<1>1. b.id \in Ids /\ b.branch \in Branches
  BY DEF Build
<1> QED
  BY <1>1, NoneAssumption DEF Branches, Repo

LEMMA QueueType ==
    ASSUME NEW s \in Queue
    PROVE  /\ s.running \in SUBSET Build /\ s.runningGroup \in [Branches -> Ids \cup {None}]
           /\ s.perRepo \in [Repos -> Nat] /\ s.waiting \in Seq(Build)
           /\ s.waitingGroup \in [Branches -> Ids \cup {None}]
           /\ s = [running |-> s.running, runningGroup |-> s.runningGroup, perRepo |-> s.perRepo,
                   waiting |-> s.waiting, waitingGroup |-> s.waitingGroup]
  BY DEF Queue

LEMMA PlaceFields ==
    ASSUME NEW s \in Queue, NEW b \in Build
    PROVE  /\ Place(s, b) \in Queue
           /\ Place(s, b).running = s.running \cup {b}
           /\ Place(s, b).runningGroup = [s.runningGroup EXCEPT ![b.branch] = b.id]
           /\ Place(s, b).perRepo = [s.perRepo EXCEPT ![Repo(b)] = s.perRepo[Repo(b)] + 1]
           /\ Place(s, b).waiting = s.waiting /\ Place(s, b).waitingGroup = s.waitingGroup
<1>1. b.id \in Ids /\ b.branch \in Branches /\ Repo(b) \in Repos
  BY BuildType
<1> DEFINE t == Place(s, b)
<1>2. t.running = s.running \cup {b} /\ t.waiting = s.waiting /\ t.waitingGroup = s.waitingGroup
  BY DEF Place, Queue
<1>3. t.runningGroup = [s.runningGroup EXCEPT ![b.branch] = b.id]
  BY <1>1 DEF Place, Queue
<1>4. t.perRepo = [s.perRepo EXCEPT ![Repo(b)] = s.perRepo[Repo(b)] + 1]
  BY <1>1 DEF Place, Queue
<1>5. t = [x \in {"running", "runningGroup", "perRepo", "waiting", "waitingGroup"} |-> t[x]]
  BY DEF Place, Queue
<1> HIDE DEF t
<1>6. t = [running |-> t.running, runningGroup |-> t.runningGroup, perRepo |-> t.perRepo,
           waiting |-> t.waiting, waitingGroup |-> t.waitingGroup]
  BY <1>5
<1>7. /\ t.running \in SUBSET Build /\ t.waiting \in Seq(Build) /\ t.waitingGroup \in [Branches -> Ids \cup {None}]
      /\ t.runningGroup \in [Branches -> Ids \cup {None}] /\ t.perRepo \in [Repos -> Nat]
  BY <1>1, <1>2, <1>3, <1>4, QueueType
<1>8. t \in Queue
  BY <1>6, <1>7 DEF Queue
<1> QED
  BY <1>2, <1>3, <1>4, <1>8 DEF t

LEMMA ReleaseFields ==
    ASSUME NEW s \in Queue, NEW b \in Build
    PROVE  /\ Release(s, b) \in Queue
           /\ Release(s, b).running = s.running \ {b}
           /\ Release(s, b).runningGroup = [s.runningGroup EXCEPT ![b.branch] = None]
           /\ Release(s, b).perRepo = [s.perRepo EXCEPT ![Repo(b)] = IF s.perRepo[Repo(b)] = 0 THEN 0 ELSE s.perRepo[Repo(b)] - 1]
           /\ Release(s, b).waiting = s.waiting /\ Release(s, b).waitingGroup = s.waitingGroup
<1>1. b.id \in Ids /\ b.branch \in Branches /\ Repo(b) \in Repos
  BY BuildType
<1> DEFINE t == Release(s, b)
<1>2. t.running = s.running \ {b} /\ t.waiting = s.waiting /\ t.waitingGroup = s.waitingGroup
  BY DEF Release, Queue
<1>3. t.runningGroup = [s.runningGroup EXCEPT ![b.branch] = None]
  BY <1>1 DEF Release, Queue
<1>4. t.perRepo = [s.perRepo EXCEPT ![Repo(b)] = IF s.perRepo[Repo(b)] = 0 THEN 0 ELSE s.perRepo[Repo(b)] - 1]
  BY <1>1 DEF Release, Queue
<1>5. t = [x \in {"running", "runningGroup", "perRepo", "waiting", "waitingGroup"} |-> t[x]]
  BY DEF Release, Queue
<1> HIDE DEF t
<1>6. t = [running |-> t.running, runningGroup |-> t.runningGroup, perRepo |-> t.perRepo,
           waiting |-> t.waiting, waitingGroup |-> t.waitingGroup]
  BY <1>5
<1>7. /\ t.running \in SUBSET Build /\ t.waiting \in Seq(Build) /\ t.waitingGroup \in [Branches -> Ids \cup {None}]
      /\ t.runningGroup \in [Branches -> Ids \cup {None}] /\ t.perRepo \in [Repos -> Nat]
  BY <1>1, <1>2, <1>3, <1>4, QueueType
<1>8. t \in Queue
  BY <1>6, <1>7 DEF Queue
<1> QED
  BY <1>2, <1>3, <1>4, <1>8 DEF t

-----------------------------------------------------------------------------
(* The indexes.                                                            *)

\* What is running, and the two indexes over it.
RunningOK(s) ==
    /\ IsFiniteSet(s.running)
    /\ \A b \in s.running : s.runningGroup[b.branch] = b.id
    /\ \A g \in Branches : s.runningGroup[g] # None => \E b \in s.running : b.branch = g
    /\ \A b, c \in s.running : b.id = c.id => b = c
    /\ \A r \in Repos : s.perRepo[r] = Cardinality({b \in s.running : Repo(b) = r})

\* The line, and the index over it.
LineOK(s) ==
    /\ Distinct(s.waiting)
    /\ \A b \in Range(s.waiting) : s.waitingGroup[b.branch] = b.id
    /\ \A g \in Branches : s.waitingGroup[g] # None => \E b \in Range(s.waiting) : b.branch = g
    /\ \A b, c \in Range(s.waiting) : b.id = c.id => b = c

\* No build both runs and waits.
Apart(s) == \A b \in s.running, w \in Range(s.waiting) : b.id # w.id

LineIdle(s) == \A w \in Range(s.waiting) : ~CanStart(s, w)

LEMMA PlaceOK ==
    ASSUME NEW s \in Queue, RunningOK(s), NEW b \in Build, s.runningGroup[b.branch] = None,
           \A c \in s.running : c.id # b.id
    PROVE  /\ RunningOK(Place(s, b))
           /\ Cardinality(Place(s, b).running) = Cardinality(s.running) + 1
<1> DEFINE t == Place(s, b)
<1>1. b.id \in Ids /\ b.branch \in Branches /\ Repo(b) \in Repos /\ b.id # None
  BY BuildType
<1>2. /\ t \in Queue /\ t.running = s.running \cup {b}
      /\ t.runningGroup = [s.runningGroup EXCEPT ![b.branch] = b.id]
      /\ t.perRepo = [s.perRepo EXCEPT ![Repo(b)] = s.perRepo[Repo(b)] + 1]
  BY PlaceFields
<1>3. /\ s.running \in SUBSET Build /\ s.runningGroup \in [Branches -> Ids \cup {None}]
      /\ s.perRepo \in [Repos -> Nat]
  BY QueueType
<1> HIDE DEF t
<1>4. b \notin s.running /\ \A c \in s.running : c \in Build /\ c.branch \in Branches /\ c.branch # b.branch
  <2>1. \A c \in s.running : c \in Build /\ c.branch \in Branches /\ c.id # None
    BY <1>3, BuildType
  <2> QED
    BY <2>1 DEF RunningOK
<1>5. IsFiniteSet(t.running) /\ Cardinality(t.running) = Cardinality(s.running) + 1
  BY <1>2, <1>4, FS_AddElement, SMTT(30) DEF RunningOK
<1>6. \A c \in t.running : t.runningGroup[c.branch] = c.id
  BY <1>1, <1>2, <1>3, <1>4 DEF RunningOK
<1>7. \A g \in Branches : t.runningGroup[g] # None => \E c \in t.running : c.branch = g
  BY <1>1, <1>2, <1>3 DEF RunningOK
<1>8. \A c, d \in t.running : c.id = d.id => c = d
  BY <1>2 DEF RunningOK
<1>9. ASSUME NEW r \in Repos PROVE t.perRepo[r] = Cardinality({c \in t.running : Repo(c) = r})
  <2> DEFINE S == {c \in s.running : Repo(c) = r}
  <2>1. IsFiniteSet(S) /\ s.perRepo[r] = Cardinality(S) /\ b \notin S
    BY <1>4, FS_Subset DEF RunningOK
  <2>2. CASE r = Repo(b)
    <3>1. {c \in t.running : Repo(c) = r} = S \cup {b}
      BY <1>2, <2>2
    <3>2. Cardinality(S \cup {b}) = Cardinality(S) + 1
      BY <2>1, FS_AddElement
    <3>3. t.perRepo[r] = s.perRepo[r] + 1
      BY <1>2, <1>3, <2>2
    <3> QED
      BY <2>1, <3>1, <3>2, <3>3
  <2>3. CASE r # Repo(b)
    <3>1. {c \in t.running : Repo(c) = r} = S
      BY <1>2, <2>3
    <3>2. t.perRepo[r] = s.perRepo[r]
      BY <1>2, <1>3, <2>3
    <3> QED
      BY <2>1, <3>1, <3>2
  <2> QED
    BY <2>2, <2>3
<1>10. RunningOK(t)
  BY <1>5, <1>6, <1>7, <1>8, <1>9 DEF RunningOK
<1> QED
  BY <1>5, <1>10 DEF t

LEMMA ReleaseOK ==
    ASSUME NEW s \in Queue, RunningOK(s), NEW b \in s.running
    PROVE  RunningOK(Release(s, b)) /\ Release(s, b).runningGroup[b.branch] = None
<1> DEFINE t == Release(s, b)
<1>0. s.running \in SUBSET Build /\ s.runningGroup \in [Branches -> Ids \cup {None}] /\ s.perRepo \in [Repos -> Nat]
  BY QueueType
<1>1. b \in Build /\ b.branch \in Branches /\ Repo(b) \in Repos
  BY <1>0, BuildType
<1>2. /\ t \in Queue /\ t.running = s.running \ {b}
      /\ t.runningGroup = [s.runningGroup EXCEPT ![b.branch] = None]
      /\ t.perRepo = [s.perRepo EXCEPT ![Repo(b)] = IF s.perRepo[Repo(b)] = 0 THEN 0 ELSE s.perRepo[Repo(b)] - 1]
  BY <1>1, ReleaseFields
<1> HIDE DEF t
<1>4. \A c \in t.running : c \in s.running /\ c.branch \in Branches /\ c.branch # b.branch
  <2>1. \A c \in s.running : c.branch \in Branches
    BY <1>0, BuildType
  <2>2. \A c \in s.running : c.branch = b.branch => c = b
    BY DEF RunningOK
  <2> QED
    BY <1>2, <2>1, <2>2
<1>5. IsFiniteSet(t.running)
  BY <1>2, FS_RemoveElement DEF RunningOK
<1>6. \A c \in t.running : t.runningGroup[c.branch] = c.id
  BY <1>0, <1>2, <1>4 DEF RunningOK
<1>7. \A g \in Branches : t.runningGroup[g] # None => \E c \in t.running : c.branch = g
  <2> SUFFICES ASSUME NEW g \in Branches, t.runningGroup[g] # None PROVE \E c \in t.running : c.branch = g
    OBVIOUS
  <2>1. g # b.branch /\ s.runningGroup[g] # None
    BY <1>0, <1>1, <1>2
  <2>2. PICK c \in s.running : c.branch = g
    BY <2>1 DEF RunningOK
  <2> QED
    BY <1>2, <2>1, <2>2
<1>8. \A c, d \in t.running : c.id = d.id => c = d
  BY <1>4 DEF RunningOK
<1>9. ASSUME NEW r \in Repos PROVE t.perRepo[r] = Cardinality({c \in t.running : Repo(c) = r})
  <2> DEFINE S == {c \in s.running : Repo(c) = r}
  <2>1. IsFiniteSet(S) /\ s.perRepo[r] = Cardinality(S)
    BY FS_Subset DEF RunningOK
  <2>2. CASE r = Repo(b)
    <3>1. {c \in t.running : Repo(c) = r} = S \ {b} /\ b \in S
      BY <1>2, <2>2
    <3>2. Cardinality(S \ {b}) = Cardinality(S) - 1 /\ Cardinality(S) # 0 /\ Cardinality(S) \in Nat
      BY <2>1, <3>1, FS_RemoveElement, FS_EmptySet, FS_CardinalityType
    <3>3. t.perRepo[r] = IF s.perRepo[r] = 0 THEN 0 ELSE s.perRepo[r] - 1
      BY <1>0, <1>2, <2>2
    <3> QED
      BY <2>1, <3>1, <3>2, <3>3
  <2>3. CASE r # Repo(b)
    <3>1. {c \in t.running : Repo(c) = r} = S
      BY <1>2, <2>3
    <3>2. t.perRepo[r] = s.perRepo[r]
      BY <1>0, <1>2, <2>3
    <3> QED
      BY <2>1, <3>1, <3>2
  <2> QED
    BY <2>2, <2>3
<1>10. RunningOK(t)
  BY <1>5, <1>6, <1>7, <1>8, <1>9 DEF RunningOK
<1>11. t.runningGroup[b.branch] = None
  BY <1>0, <1>1, <1>2
<1> QED
  BY <1>10, <1>11 DEF t

LEMMA WaitingFields ==
    ASSUME NEW s \in Queue, NEW w \in Seq(Build), NEW t, t = [s EXCEPT !.waiting = w]
    PROVE  /\ t \in Queue /\ t.running = s.running /\ t.runningGroup = s.runningGroup /\ t.perRepo = s.perRepo
           /\ t.waiting = w /\ t.waitingGroup = s.waitingGroup
  BY DEF Queue

\* What runs and whether a build can start does not depend on the line.
LEMMA SameRunning ==
    ASSUME NEW s, NEW t, t.running = s.running, t.runningGroup = s.runningGroup, t.perRepo = s.perRepo
    PROVE  /\ RunningOK(s) => RunningOK(t)
           /\ \A w : CanStart(t, w) <=> CanStart(s, w)
<1>1. RunningOK(s) => RunningOK(t)
  BY DEF RunningOK
<1>2. \A w : CanStart(t, w) <=> CanStart(s, w)
  BY DEF CanStart
<1> QED
  BY <1>1, <1>2

LEMMA FillStepFields ==
    ASSUME NEW s \in Queue, NEW w \in Build
    PROVE  /\ FillStep(s, w) \in Queue
           /\ CanStart(s, w) =>
                /\ FillStep(s, w).running = Place(s, w).running
                /\ FillStep(s, w).runningGroup = Place(s, w).runningGroup
                /\ FillStep(s, w).perRepo = Place(s, w).perRepo
                /\ FillStep(s, w).waiting = s.waiting
                /\ FillStep(s, w).waitingGroup = [s.waitingGroup EXCEPT ![w.branch] = None]
           /\ ~CanStart(s, w) =>
                /\ FillStep(s, w).running = s.running
                /\ FillStep(s, w).runningGroup = s.runningGroup
                /\ FillStep(s, w).perRepo = s.perRepo
                /\ FillStep(s, w).waiting = Append(s.waiting, w)
                /\ FillStep(s, w).waitingGroup = s.waitingGroup
<1>1. w.branch \in Branches /\ s.waiting \in Seq(Build)
  BY BuildType, QueueType
<1> DEFINE t == FillStep(s, w)
<1>2. CASE CanStart(s, w)
  <2> DEFINE p == Place(s, w)
  <2>1. p \in Queue /\ p.waiting = s.waiting /\ p.waitingGroup = s.waitingGroup
    BY PlaceFields
  <2>2. t = [p EXCEPT !.waitingGroup[w.branch] = None] /\ None \in Ids \cup {None}
    BY <1>2 DEF FillStep
  <2> HIDE DEF p, t
  <2>3. /\ t \in Queue /\ t.running = p.running /\ t.runningGroup = p.runningGroup /\ t.perRepo = p.perRepo
        /\ t.waiting = p.waiting /\ t.waitingGroup = [p.waitingGroup EXCEPT ![w.branch] = None]
    BY <1>1, <2>1, <2>2 DEF Queue
  <2> QED
    BY <1>2, <2>1, <2>3 DEF p, t
<1>3. CASE ~CanStart(s, w)
  <2> DEFINE a == Append(s.waiting, w)
  <2>1. t = [s EXCEPT !.waiting = a]
    BY <1>3 DEF FillStep
  <2>2. a \in Seq(Build)
    BY <1>1, AppendProperties
  <2> HIDE DEF a, t
  <2>3. /\ t \in Queue /\ t.running = s.running /\ t.runningGroup = s.runningGroup /\ t.perRepo = s.perRepo
        /\ t.waiting = a /\ t.waitingGroup = s.waitingGroup
    BY <2>1, <2>2, WaitingFields
  <2> QED
    BY <1>3, <2>3 DEF a, t
<1> QED
  BY <1>2, <1>3

-----------------------------------------------------------------------------
(* fill.                                                                   *)

\* The part of the line that was walked.
Passed(s, k) == {s.waiting[j] : j \in 1..k}

\* The queue t that fill has made of s after k builds.
Walked(s, k, t) ==
    /\ t \in Queue /\ RunningOK(t)
    /\ s.running \subseteq t.running /\ t.running \subseteq s.running \cup Passed(s, k)
    /\ Distinct(t.waiting) /\ Range(t.waiting) \subseteq Passed(s, k)
    /\ Passed(s, k) \subseteq t.running \cup Range(t.waiting)
    /\ Range(t.waiting) \cap t.running = {}
    /\ \A b \in Range(s.waiting) : t.waitingGroup[b.branch] = IF b \in t.running THEN None ELSE b.id
    /\ \A g \in Branches : t.waitingGroup[g] # None => \E b \in Range(s.waiting) : b.branch = g
    /\ LineIdle(t)
    /\ t.running # s.running => Cardinality(t.running) <= MaxRunning
    /\ \A b \in t.running \ s.running : t.perRepo[Repo(b)] <= MaxPerRepo

\* A queue as the methods leave it, but for the free places.
QueueOK(s) == s \in Queue /\ RunningOK(s) /\ LineOK(s) /\ Apart(s)

LEMMA WalkStarts ==
    ASSUME NEW s, QueueOK(s)
    PROVE  Walked(s, 0, [s EXCEPT !.waiting = <<>>])
<1> DEFINE t == [s EXCEPT !.waiting = <<>>]
<1>1. s \in Queue /\ <<>> \in Seq(Build)
  BY DEF QueueOK
<1>2. /\ t \in Queue /\ t.running = s.running /\ t.runningGroup = s.runningGroup /\ t.perRepo = s.perRepo
      /\ t.waiting = <<>> /\ t.waitingGroup = s.waitingGroup
  BY <1>1 DEF Queue
<1> HIDE DEF t
<1>3. RunningOK(t)
  BY <1>2, SameRunning DEF QueueOK
<1>4. Passed(s, 0) = {} /\ Range(t.waiting) = {} /\ Distinct(t.waiting)
  BY <1>2 DEF Passed, Range, Distinct
<1>5. \A b \in Range(s.waiting) : b \notin s.running /\ s.waitingGroup[b.branch] = b.id
  BY DEF QueueOK, Apart, LineOK
<1>6. \A g \in Branches : t.waitingGroup[g] # None => \E b \in Range(s.waiting) : b.branch = g
  BY <1>2 DEF QueueOK, LineOK
<1>7. Walked(s, 0, t)
  BY <1>2, <1>3, <1>4, <1>5, <1>6 DEF Walked, LineIdle
<1> QED
  BY <1>7 DEF t

LEMMA WalkGoesOn ==
    ASSUME NEW s, QueueOK(s), NEW k \in 1..Len(s.waiting), NEW t, Walked(s, k - 1, t)
    PROVE  Walked(s, k, FillStep(t, s.waiting[k]))
<1> DEFINE w == s.waiting[k]
           u == FillStep(t, w)
<1>0. s \in Queue /\ s.waiting \in Seq(Build) /\ Len(s.waiting) \in Nat
  BY QueueType, LenProperties DEF QueueOK
<1>1. Range(s.waiting) = {s.waiting[j] : j \in 1..Len(s.waiting)}
  BY <1>0, RangeEquality
<1>2. w \in Build /\ w \in Range(s.waiting) /\ w.branch \in Branches /\ Repo(w) \in Repos /\ w.id # None
  <2>1. w \in Build
    BY <1>0, ElementOfSeq
  <2> QED
    BY <1>1, <2>1, BuildType
<1>3. Passed(s, k) = Passed(s, k - 1) \cup {w} /\ w \notin Passed(s, k - 1) /\ Passed(s, k - 1) \subseteq Range(s.waiting)
  <2>1. k \in Nat /\ 1..k = (1..k - 1) \cup {k} /\ \A j \in 1..k - 1 : j \in 1..Len(s.waiting) /\ j # k
    BY <1>0
  <2>2. Passed(s, k) = Passed(s, k - 1) \cup {w}
    BY <2>1 DEF Passed
  <2>3. \A j \in 1..k - 1 : s.waiting[j] # w
    BY <2>1 DEF QueueOK, LineOK, Distinct
  <2> QED
    BY <1>1, <2>1, <2>2, <2>3 DEF Passed
<1>4. /\ t \in Queue /\ RunningOK(t)
      /\ t.runningGroup \in [Branches -> Ids \cup {None}] /\ t.perRepo \in [Repos -> Nat] /\ t.waiting \in Seq(Build)
      /\ t.waitingGroup \in [Branches -> Ids \cup {None}] /\ t.running \in SUBSET Build
  BY QueueType DEF Walked
<1>5. w \notin t.running /\ w \notin Range(t.waiting) /\ \A c \in t.running : c.id # w.id
  <2>1. \A c \in s.running : c.id # w.id
    BY <1>2 DEF QueueOK, Apart
  <2>2. \A c \in Passed(s, k - 1) : c.id # w.id
    BY <1>2, <1>3 DEF QueueOK, LineOK
  <2> QED
    BY <1>3, <2>1, <2>2 DEF Walked
<1>6. \A b \in Range(s.waiting) : b # w => b.branch # w.branch
  BY <1>2 DEF QueueOK, LineOK
<1>7. \A b \in Range(s.waiting) : b \in Build /\ b.branch \in Branches
  BY <1>0, RangeOfSeq, BuildType
<1>8. u \in Queue
  BY <1>2, <1>4, FillStepFields
<1> HIDE DEF w
<1>9. CASE CanStart(t, w)
  <2> DEFINE p == Place(t, w)
  <2>1. /\ u.running = p.running /\ u.runningGroup = p.runningGroup /\ u.perRepo = p.perRepo
        /\ u.waiting = t.waiting /\ u.waitingGroup = [t.waitingGroup EXCEPT ![w.branch] = None]
    BY <1>2, <1>4, <1>9, FillStepFields
  <2>2. p.running = t.running \cup {w} /\ p.perRepo = [t.perRepo EXCEPT ![Repo(w)] = t.perRepo[Repo(w)] + 1]
        /\ p.runningGroup = [t.runningGroup EXCEPT ![w.branch] = w.id]
    BY <1>2, <1>4, PlaceFields
  <2>3. RunningOK(p) /\ Cardinality(p.running) = Cardinality(t.running) + 1
    BY <1>2, <1>4, <1>5, <1>9, PlaceOK DEF CanStart
  <2> HIDE DEF p, u
  <2>4. RunningOK(u)
    BY <2>1, <2>3, SameRunning
  <2>5. s.running \subseteq u.running /\ u.running \subseteq s.running \cup Passed(s, k)
    BY <1>3, <2>1, <2>2 DEF Walked
  <2>6. Distinct(u.waiting) /\ Range(u.waiting) \subseteq Passed(s, k)
    BY <1>3, <2>1 DEF Walked
  <2>7. Passed(s, k) \subseteq u.running \cup Range(u.waiting) /\ Range(u.waiting) \cap u.running = {}
    BY <1>3, <1>5, <2>1, <2>2 DEF Walked
  <2>8. \A b \in Range(s.waiting) : u.waitingGroup[b.branch] = IF b \in u.running THEN None ELSE b.id
    <3> SUFFICES ASSUME NEW b \in Range(s.waiting)
                 PROVE  u.waitingGroup[b.branch] = IF b \in u.running THEN None ELSE b.id
      OBVIOUS
    <3>1. CASE b = w
      BY <1>2, <1>4, <2>1, <2>2, <3>1
    <3>2. CASE b # w
      <4>1. u.waitingGroup[b.branch] = t.waitingGroup[b.branch] /\ (b \in u.running <=> b \in t.running)
        BY <1>4, <1>6, <1>7, <2>1, <2>2, <3>2
      <4> QED
        BY <4>1 DEF Walked
    <3> QED
      BY <3>1, <3>2
  <2>9. \A g \in Branches : u.waitingGroup[g] # None => \E b \in Range(s.waiting) : b.branch = g
    BY <1>2, <2>1 DEF Walked
  <2>10. /\ Cardinality(t.running) \in Nat /\ Cardinality(t.running) < MaxRunning /\ t.perRepo[Repo(w)] < MaxPerRepo
         /\ MaxRunning \in Nat /\ MaxPerRepo \in Nat
    BY <1>4, <1>9, FS_CardinalityType, SettingsAssumption DEF CanStart, RunningOK
  <2>11. LineIdle(u)
    <3> SUFFICES ASSUME NEW x \in Range(u.waiting), CanStart(u, x) PROVE FALSE
      BY DEF LineIdle
    <3>1. x \in Build /\ x.branch \in Branches /\ Repo(x) \in Repos /\ x \in Range(t.waiting)
      BY <1>4, <2>1, RangeOfSeq, BuildType
    <3>2. ~CanStart(t, x)
      BY <3>1 DEF Walked, LineIdle
    <3>3. u.runningGroup[x.branch] = None => t.runningGroup[x.branch] = None
      BY <1>2, <1>4, <2>1, <2>2, <3>1
    <3>4. u.perRepo[Repo(x)] >= t.perRepo[Repo(x)] /\ u.perRepo[Repo(x)] \in Nat /\ t.perRepo[Repo(x)] \in Nat
      BY <1>2, <1>4, <2>1, <2>2, <3>1
    <3> QED
      BY <2>1, <2>3, <2>10, <3>2, <3>3, <3>4 DEF CanStart
  <2>12. Cardinality(u.running) <= MaxRunning
    BY <2>1, <2>3, <2>10
  <2>13. \A b \in u.running \ s.running : u.perRepo[Repo(b)] <= MaxPerRepo
    <3> SUFFICES ASSUME NEW b \in u.running \ s.running PROVE u.perRepo[Repo(b)] <= MaxPerRepo
      OBVIOUS
    <3>1. u.perRepo[Repo(w)] <= MaxPerRepo
      BY <1>2, <1>4, <2>1, <2>2, <2>10
    <3>2. CASE b = w
      BY <3>1, <3>2
    <3>3. CASE b # w
      <4>1. b \in t.running \ s.running /\ Repo(b) \in Repos
        BY <1>4, <2>1, <2>2, <3>3, BuildType
      <4>2. t.perRepo[Repo(b)] <= MaxPerRepo
        BY <4>1 DEF Walked
      <4>3. Repo(b) # Repo(w) => u.perRepo[Repo(b)] = t.perRepo[Repo(b)]
        BY <1>2, <1>4, <2>1, <2>2, <4>1
      <4> QED
        BY <3>1, <4>2, <4>3
    <3> QED
      BY <3>2, <3>3
  <2>14. Walked(s, k, u)
    BY <1>8, <2>4, <2>5, <2>6, <2>7, <2>8, <2>9, <2>11, <2>12, <2>13 DEF Walked, u
  <2> QED
    BY <2>14 DEF u, w
<1>10. CASE ~CanStart(t, w)
  <2>1. /\ u.running = t.running /\ u.runningGroup = t.runningGroup /\ u.perRepo = t.perRepo
        /\ u.waiting = Append(t.waiting, w) /\ u.waitingGroup = t.waitingGroup
    BY <1>2, <1>4, <1>10, FillStepFields
  <2> HIDE DEF u
  <2>2. Range(u.waiting) = Range(t.waiting) \cup {w} /\ Distinct(u.waiting)
    BY <1>2, <1>4, <1>5, <2>1, AppendFacts DEF Walked
  <2>3. RunningOK(u) /\ \A x : CanStart(u, x) <=> CanStart(t, x)
    BY <1>4, <2>1, SameRunning
  <2>4. LineIdle(u)
    BY <1>10, <2>2, <2>3 DEF Walked, LineIdle
  <2>5. s.running \subseteq u.running /\ u.running \subseteq s.running \cup Passed(s, k)
    BY <1>3, <2>1 DEF Walked
  <2>6. Range(u.waiting) \subseteq Passed(s, k) /\ Passed(s, k) \subseteq u.running \cup Range(u.waiting)
        /\ Range(u.waiting) \cap u.running = {}
    BY <1>3, <1>5, <2>1, <2>2 DEF Walked
  <2>7. /\ \A b \in Range(s.waiting) : u.waitingGroup[b.branch] = IF b \in u.running THEN None ELSE b.id
        /\ \A g \in Branches : u.waitingGroup[g] # None => \E b \in Range(s.waiting) : b.branch = g
    BY <2>1 DEF Walked
  <2>8. /\ u.running # s.running => Cardinality(u.running) <= MaxRunning
        /\ \A b \in u.running \ s.running : u.perRepo[Repo(b)] <= MaxPerRepo
    BY <2>1 DEF Walked
  <2>9. Walked(s, k, u)
    BY <1>8, <2>2, <2>3, <2>4, <2>5, <2>6, <2>7, <2>8 DEF Walked, u
  <2> QED
    BY <2>9 DEF u, w
<1> QED
  BY <1>9, <1>10

\* The walk of the whole line.
LEMMA WalkEnds ==
    ASSUME NEW s, QueueOK(s), ~(Cardinality(s.running) >= MaxRunning)
    PROVE  Walked(s, Len(s.waiting), Fill(s))
<1> DEFINE n == Len(s.waiting)
           base == [s EXCEPT !.waiting = <<>>]
           Round(f) == [k \in 0..n |-> IF k = 0 THEN base ELSE FillStep(f[k - 1], s.waiting[k])]
           walk == CHOOSE f : f = Round(f)
           step == [x \in Queue \X Build |-> FillStep(x[1], x[2])]
           G == {k \in 0..n : Walked(s, k, walk[k])}
<1>1. s \in Queue /\ s.waiting \in Seq(Build) /\ n \in Nat /\ s.waiting \in [1..n -> Build]
  BY QueueType, LenProperties DEF QueueOK
<1>2. Walked(s, 0, base) /\ base \in Queue
  <2>1. Walked(s, 0, base)
    BY WalkStarts
  <2> QED
    BY <2>1 DEF Walked
<1>3. step \in [Queue \X Build -> Queue]
  BY FillStepFields
<1>4. Fill(s) = walk[n]
  BY DEF Fill
<1> HIDE DEF n, base, step
<1>5. PICK f \in [0..n -> Queue] : f[0] = base /\ \A k \in 1..n : f[k] = step[<<f[k - 1], s.waiting[k]>>]
  <2>1. base \in Queue /\ n \in Nat /\ s.waiting \in [1..n -> Build]
    BY <1>1, <1>2
  <2>2. \E f \in [0..n -> Queue] : RunsLoop(base, step, s.waiting, n, f)
    BY <1>3, <2>1, LoopStates
  <2> QED
    BY <2>2 DEF RunsLoop
<1>6. \A k \in 1..n : k # 0 /\ k - 1 \in 0..n /\ f[k - 1] \in Queue /\ s.waiting[k] \in Build
  BY <1>1
<1>7. \A k \in 1..n : f[k] = FillStep(f[k - 1], s.waiting[k])
  BY <1>5, <1>6 DEF step
<1>8. f = Round(f)
  <2>1. \A k \in 0..n : f[k] = IF k = 0 THEN base ELSE FillStep(f[k - 1], s.waiting[k])
    BY <1>1, <1>5, <1>7
  <2> QED
    BY <2>1
<1>9. walk = Round(walk)
  <2> HIDE DEF Round
  <2> QED
    BY <1>8
<1> HIDE DEF walk
<1>10. walk[0] = base /\ \A k \in 1..n : walk[k] = FillStep(walk[k - 1], s.waiting[k])
  <2>1. \A k \in 0..n : walk[k] = IF k = 0 THEN base ELSE FillStep(walk[k - 1], s.waiting[k])
    BY <1>9
  <2>2. 0 \in 0..n /\ \A k \in 1..n : k \in 0..n /\ k # 0
    BY <1>1
  <2> QED
    BY <2>1, <2>2
<1>11. G \in SUBSET (0..n) /\ 0 \in G
  BY <1>1, <1>2, <1>10
<1>12. \A k \in 1..n : k - 1 \in G => k \in G
  <2> SUFFICES ASSUME NEW k \in 1..n, Walked(s, k - 1, walk[k - 1]) PROVE k \in G
    OBVIOUS
  <2>1. Walked(s, k, FillStep(walk[k - 1], s.waiting[k]))
    BY WalkGoesOn DEF n
  <2> QED
    BY <1>1, <1>10, <2>1
<1>13. G = 0..n
  <2> HIDE DEF G
  <2> QED
    BY <1>1, <1>11, <1>12, IndexInduction
<1>14. Walked(s, n, walk[n])
  BY <1>1, <1>13
<1> QED
  BY <1>4, <1>14 DEF n

\* fill keeps the queue as it should be, starts builds of the line only, and
\* leaves none waiting that could start.
LEMMA FillOK ==
    ASSUME NEW s, QueueOK(s)
    PROVE  /\ QueueOK(Fill(s)) /\ LineIdle(Fill(s))
           /\ s.running \subseteq Fill(s).running
           /\ Range(Fill(s).waiting) = Range(s.waiting) \ Fill(s).running
           /\ Fill(s).running \subseteq s.running \cup Range(s.waiting)
           /\ Fill(s).running # s.running => Cardinality(Fill(s).running) <= MaxRunning
           /\ \A b \in Fill(s).running \ s.running : Fill(s).perRepo[Repo(b)] <= MaxPerRepo
<1> DEFINE t == Fill(s)
<1>1. s \in Queue /\ s.waiting \in Seq(Build) /\ Len(s.waiting) \in Nat
  BY QueueType, LenProperties DEF QueueOK
<1>2. CASE Cardinality(s.running) >= MaxRunning
  <2>1. t = s
    BY <1>2 DEF Fill
  <2>2. LineIdle(s)
    <3>1. Cardinality(s.running) \in Nat /\ MaxRunning \in Nat
      BY FS_CardinalityType, SettingsAssumption DEF QueueOK, RunningOK
    <3>2. ~(Cardinality(s.running) < MaxRunning)
      BY <1>2, <3>1
    <3> QED
      BY <3>2 DEF LineIdle, CanStart
  <2>3. Range(s.waiting) \cap s.running = {}
    BY DEF QueueOK, Apart
  <2> QED
    BY <2>1, <2>2, <2>3
<1>3. CASE ~(Cardinality(s.running) >= MaxRunning)
  <2>1. Walked(s, Len(s.waiting), t)
    BY <1>3, WalkEnds
  <2>2. Passed(s, Len(s.waiting)) = Range(s.waiting)
    BY <1>1, RangeEquality DEF Passed
  <2> HIDE DEF t
  <2>3. /\ t \in Queue /\ RunningOK(t) /\ LineIdle(t) /\ s.running \subseteq t.running
        /\ t.running \subseteq s.running \cup Range(s.waiting)
        /\ t.running # s.running => Cardinality(t.running) <= MaxRunning
        /\ \A b \in t.running \ s.running : t.perRepo[Repo(b)] <= MaxPerRepo
    BY <2>1, <2>2 DEF Walked
  <2>4. Range(t.waiting) = Range(s.waiting) \ t.running
    BY <2>1, <2>2 DEF Walked
  <2>5. LineOK(t)
    <3>1. Distinct(t.waiting)
      BY <2>1 DEF Walked
    <3>2. \A b \in Range(t.waiting) : t.waitingGroup[b.branch] = b.id
      BY <2>1, <2>4 DEF Walked
    <3>3. ASSUME NEW g \in Branches, t.waitingGroup[g] # None PROVE \E b \in Range(t.waiting) : b.branch = g
      <4>1. PICK b \in Range(s.waiting) : b.branch = g
        BY <2>1, <3>3 DEF Walked
      <4>2. b \notin t.running
        BY <2>1, <3>3, <4>1 DEF Walked
      <4> QED
        BY <2>4, <4>1, <4>2
    <3>4. \A b, c \in Range(t.waiting) : b.id = c.id => b = c
      BY <2>4 DEF QueueOK, LineOK
    <3> QED
      BY <3>1, <3>2, <3>3, <3>4 DEF LineOK
  <2>6. Apart(t)
    <3> SUFFICES ASSUME NEW b \in t.running, NEW w \in Range(t.waiting), b.id = w.id PROVE FALSE
      BY DEF Apart
    <3>1. w \in Range(s.waiting) /\ w \notin t.running
      BY <2>4
    <3>2. b \notin s.running
      BY <3>1 DEF QueueOK, Apart
    <3>3. b \in Range(s.waiting)
      BY <2>3, <3>2
    <3> QED
      BY <3>1, <3>3 DEF QueueOK, LineOK
  <2> QED
    BY <2>3, <2>4, <2>5, <2>6 DEF QueueOK, t
<1> QED
  BY <1>2, <1>3

-----------------------------------------------------------------------------
(* The other methods.                                                      *)

LEMMA RemoveWaitingOK ==
    ASSUME NEW s, QueueOK(s), NEW b \in Range(s.waiting)
    PROVE  /\ QueueOK(RemoveWaiting(s, b))
           /\ RemoveWaiting(s, b).running = s.running
           /\ RemoveWaiting(s, b).runningGroup = s.runningGroup
           /\ RemoveWaiting(s, b).perRepo = s.perRepo
           /\ Range(RemoveWaiting(s, b).waiting) = Range(s.waiting) \ {b}
           /\ RemoveWaiting(s, b).waitingGroup[b.branch] = None
<1> DEFINE a == RemoveFirst(s.waiting, b)
           t == RemoveWaiting(s, b)
<1>1. /\ s \in Queue /\ s.waiting \in Seq(Build) /\ s.waitingGroup \in [Branches -> Ids \cup {None}]
      /\ Distinct(s.waiting)
  BY QueueType DEF QueueOK, LineOK
<1>2. \A c \in Range(s.waiting) : c \in Build /\ c.branch \in Branches
  BY <1>1, RangeOfSeq, BuildType
<1>3. a \in Seq(Build) /\ Range(a) = Range(s.waiting) \ {b} /\ Distinct(a)
  BY <1>1, RemoveFacts
<1>4. t = [s EXCEPT !.waiting = a, !.waitingGroup[b.branch] = None]
  BY <1>1 DEF RemoveWaiting, Queue
<1> HIDE DEF a, t
<1>5. /\ t \in Queue /\ t.running = s.running /\ t.runningGroup = s.runningGroup /\ t.perRepo = s.perRepo
      /\ t.waiting = a /\ t.waitingGroup = [s.waitingGroup EXCEPT ![b.branch] = None]
  BY <1>1, <1>2, <1>3, <1>4 DEF Queue
<1>6. RunningOK(t)
  BY <1>5, SameRunning DEF QueueOK
<1>7. LineOK(t)
  <2>1. \A c \in Range(t.waiting) : c \in Range(s.waiting) /\ c.branch # b.branch
    BY <1>3, <1>5 DEF QueueOK, LineOK
  <2>2. \A c \in Range(t.waiting) : t.waitingGroup[c.branch] = c.id
    BY <1>1, <1>2, <1>5, <2>1 DEF QueueOK, LineOK
  <2>3. ASSUME NEW g \in Branches, t.waitingGroup[g] # None PROVE \E c \in Range(t.waiting) : c.branch = g
    <3>1. g # b.branch /\ s.waitingGroup[g] # None
      BY <1>1, <1>2, <1>5, <2>3
    <3>2. PICK c \in Range(s.waiting) : c.branch = g
      BY <3>1 DEF QueueOK, LineOK
    <3> QED
      BY <1>3, <1>5, <3>1, <3>2
  <2>4. \A c, d \in Range(t.waiting) : c.id = d.id => c = d
    BY <2>1 DEF QueueOK, LineOK
  <2> QED
    BY <1>3, <1>5, <2>2, <2>3, <2>4 DEF LineOK
<1>8. Apart(t)
  BY <1>3, <1>5 DEF QueueOK, Apart
<1>9. t.waitingGroup[b.branch] = None
  BY <1>1, <1>2, <1>5
<1> QED
  BY <1>3, <1>5, <1>6, <1>7, <1>8, <1>9 DEF QueueOK, t

\* A build joins the end of the line.
Join(s, b) == [s EXCEPT !.waiting = Append(@, b), !.waitingGroup[b.branch] = b.id]

LEMMA JoinOK ==
    ASSUME NEW s, QueueOK(s), NEW b \in Build, s.waitingGroup[b.branch] = None,
           \A c \in s.running \cup Range(s.waiting) : c.id # b.id
    PROVE  QueueOK(Join(s, b)) /\ Join(s, b).running = s.running /\ Range(Join(s, b).waiting) = Range(s.waiting) \cup {b}
<1> DEFINE a == Append(s.waiting, b)
<1>1. /\ s \in Queue /\ s.waiting \in Seq(Build) /\ s.waitingGroup \in [Branches -> Ids \cup {None}]
      /\ Distinct(s.waiting)
  BY QueueType DEF QueueOK, LineOK
<1>2. b.branch \in Branches /\ b.id \in Ids /\ \A c \in Range(s.waiting) : c \in Build /\ c.branch \in Branches /\ c.id # None
  BY <1>1, RangeOfSeq, BuildType
<1>3. a \in Seq(Build) /\ Range(a) = Range(s.waiting) \cup {b} /\ Distinct(a)
  <2>1. b \notin Range(s.waiting)
    OBVIOUS
  <2> QED
    BY <1>1, <2>1, AppendFacts
<1> DEFINE t == Join(s, b)
           i == b.id
<1>4. t = [s EXCEPT !.waiting = a, !.waitingGroup[b.branch] = i] /\ i \in Ids \cup {None}
  BY <1>1, <1>2 DEF Queue, Join
<1> HIDE DEF a, t, i
<1>5. /\ t \in Queue /\ t.running = s.running /\ t.runningGroup = s.runningGroup /\ t.perRepo = s.perRepo
      /\ t.waiting = a /\ t.waitingGroup = [s.waitingGroup EXCEPT ![b.branch] = i]
  BY <1>1, <1>2, <1>3, <1>4 DEF Queue
<1>6. RunningOK(t)
  BY <1>5, SameRunning DEF QueueOK
<1>7. LineOK(t)
  <2>1. \A c \in Range(s.waiting) : c.branch # b.branch
    BY <1>2 DEF QueueOK, LineOK
  <2>2. ASSUME NEW c \in Range(t.waiting) PROVE t.waitingGroup[c.branch] = c.id
    <3>1. CASE c = b
      BY <1>1, <1>2, <1>5, <3>1 DEF i
    <3>2. CASE c \in Range(s.waiting)
      <4>1. c.branch \in Branches /\ c.branch # b.branch /\ s.waitingGroup[c.branch] = c.id
        BY <1>2, <2>1, <3>2 DEF QueueOK, LineOK
      <4> QED
        BY <1>1, <1>5, <4>1
    <3> QED
      BY <1>3, <1>5, <3>1, <3>2
  <2>3. ASSUME NEW g \in Branches, t.waitingGroup[g] # None PROVE \E c \in Range(t.waiting) : c.branch = g
    <3>1. CASE g = b.branch
      BY <1>3, <1>5, <3>1
    <3>2. CASE g # b.branch
      <4>1. s.waitingGroup[g] # None
        BY <1>1, <1>2, <1>5, <2>3, <3>2
      <4>2. PICK c \in Range(s.waiting) : c.branch = g
        BY <4>1 DEF QueueOK, LineOK
      <4> QED
        BY <1>3, <1>5, <4>2
    <3> QED
      BY <3>1, <3>2
  <2>4. \A c, d \in Range(t.waiting) : c.id = d.id => c = d
    BY <1>3, <1>5 DEF QueueOK, LineOK
  <2> QED
    BY <1>3, <1>5, <2>2, <2>3, <2>4 DEF LineOK
<1>8. Apart(t)
  BY <1>3, <1>5 DEF QueueOK, Apart
<1> QED
  BY <1>3, <1>5, <1>6, <1>7, <1>8 DEF QueueOK, t

LEMMA EnqueueOK ==
    ASSUME NEW s, QueueOK(s), NEW b \in Build, \A c \in s.running \cup Range(s.waiting) : c.id # b.id
    PROVE  /\ QueueOK(Enqueue(s, b))
           /\ Enqueue(s, b).running = s.running
           /\ Range(Enqueue(s, b).waiting) \subseteq Range(s.waiting) \cup {b}
<1> DEFINE old == {w \in Range(s.waiting) : w.id = s.waitingGroup[b.branch]}
           o == CHOOSE w \in old : TRUE
           u == IF old = {} THEN s ELSE RemoveWaiting(s, o)
           t == Enqueue(s, b)
<1>1. s \in Queue /\ s.waiting \in Seq(Build) /\ b.branch \in Branches
  BY QueueType, BuildType DEF QueueOK
<1>2. \A c \in Range(s.waiting) : c \in Build /\ c.branch \in Branches /\ c.id # None
  BY <1>1, RangeOfSeq, BuildType
<1>3. t = Join(u, b)
  BY DEF Enqueue, Join
<1>4. /\ QueueOK(u) /\ u.running = s.running /\ Range(u.waiting) \subseteq Range(s.waiting)
      /\ u.waitingGroup[b.branch] = None
  <2>1. CASE old = {}
    <3>1. s.waitingGroup[b.branch] = None
      <4> SUFFICES ASSUME s.waitingGroup[b.branch] # None PROVE FALSE
        OBVIOUS
      <4>1. PICK w \in Range(s.waiting) : w.branch = b.branch
        BY <1>1 DEF QueueOK, LineOK
      <4>2. w \in old
        BY <4>1 DEF QueueOK, LineOK
      <4> QED
        BY <2>1, <4>2
    <3> QED
      BY <2>1, <3>1
  <2>2. CASE old # {}
    <3>1. o \in Range(s.waiting) /\ o.id = s.waitingGroup[b.branch]
      BY <2>2
    <3> HIDE DEF o
    <3>2. o.branch = b.branch
      <4>1. PICK w \in Range(s.waiting) : w.branch = b.branch
        BY <1>1, <1>2, <3>1 DEF QueueOK, LineOK
      <4> QED
        BY <3>1, <4>1 DEF QueueOK, LineOK
    <3>3. u = RemoveWaiting(s, o)
      BY <2>2
    <3> HIDE DEF u
    <3>4. QueueOK(u)
      BY <3>1, <3>3, RemoveWaitingOK
    <3>5. u.running = s.running
      BY <3>1, <3>3, RemoveWaitingOK
    <3>6. Range(u.waiting) = Range(s.waiting) \ {o}
      BY <3>1, <3>3, RemoveWaitingOK
    <3>7. u.waitingGroup[o.branch] = None
      BY <3>1, <3>3, RemoveWaitingOK
    <3> QED
      BY <3>2, <3>4, <3>5, <3>6, <3>7
  <2> QED
    BY <2>1, <2>2
<1> HIDE DEF t, u
<1>5. \A c \in u.running \cup Range(u.waiting) : c.id # b.id
  BY <1>4
<1>6. QueueOK(t) /\ t.running = u.running /\ Range(t.waiting) = Range(u.waiting) \cup {b}
  BY <1>3, <1>4, <1>5, JoinOK
<1> QED
  BY <1>4, <1>6 DEF t

\* The branch and the place of a running build become free.
LEMMA ReleaseKeepsQueue ==
    ASSUME NEW s, QueueOK(s), NEW b \in s.running
    PROVE  /\ QueueOK(Release(s, b)) /\ Release(s, b).running = s.running \ {b}
           /\ Release(s, b).waiting = s.waiting
<1> DEFINE t == Release(s, b)
<1>1. s \in Queue /\ b \in Build /\ RunningOK(s)
  BY QueueType DEF QueueOK
<1>2. t \in Queue /\ t.running = s.running \ {b} /\ t.waiting = s.waiting /\ t.waitingGroup = s.waitingGroup
  BY <1>1, ReleaseFields
<1>3. RunningOK(t)
  BY <1>1, ReleaseOK
<1> HIDE DEF t
<1>4. LineOK(t)
  BY <1>2 DEF QueueOK, LineOK
<1>5. Apart(t)
  BY <1>2 DEF QueueOK, Apart
<1> QED
  BY <1>2, <1>3, <1>4, <1>5 DEF QueueOK, t

\* At most one build is cancelled.
LEMMA CancelledOne ==
    ASSUME NEW s, QueueOK(s), NEW b, Cancelled(s, b) # {}
    PROVE  Cancelled(s, b) = {CHOOSE r \in Cancelled(s, b) : TRUE}
<1> DEFINE C == Cancelled(s, b)
           r == CHOOSE x \in C : TRUE
<1>1. r \in C
  OBVIOUS
<1>2. \A x \in C : x \in s.running /\ x.id = s.runningGroup[b.branch]
  BY DEF Cancelled
<1> HIDE DEF C, r
<1>3. \A x \in C : x = r
  BY <1>1, <1>2 DEF QueueOK, RunningOK
<1>4. C = {r}
  BY <1>1, <1>3
<1> QED
  BY <1>4 DEF C, r

\* Submit: the cancelled build leaves, builds of the line and the new one start.
LEMMA SubmitOK ==
    ASSUME NEW s, QueueOK(s), NEW b \in Build, \A c \in s.running \cup Range(s.waiting) : c.id # b.id
    PROVE  /\ QueueOK(SubmitTo(s, b)) /\ LineIdle(SubmitTo(s, b))
           /\ s.running \ Cancelled(s, b) \subseteq SubmitTo(s, b).running
           /\ SubmitTo(s, b).running \subseteq (s.running \ Cancelled(s, b)) \cup Range(s.waiting) \cup {b}
           /\ Range(SubmitTo(s, b).waiting) \subseteq (Range(s.waiting) \cup {b}) \ SubmitTo(s, b).running
           /\ \A c \in SubmitTo(s, b).running \ s.running :
                /\ Cardinality(SubmitTo(s, b).running) <= MaxRunning
                /\ SubmitTo(s, b).perRepo[Repo(c)] <= MaxPerRepo
<1> DEFINE e == Enqueue(s, b)
           C == Cancelled(s, b)
           r == CHOOSE x \in C : TRUE
           u == IF C = {} THEN e ELSE Release(e, r)
           t == SubmitTo(s, b)
<1>1. t = Fill(u)
  BY DEF SubmitTo
<1>2. QueueOK(e) /\ e.running = s.running /\ Range(e.waiting) \subseteq Range(s.waiting) \cup {b}
  BY EnqueueOK
<1>3. C \subseteq s.running
  BY DEF Cancelled
<1>4. C # {} => C = {r}
  BY CancelledOne
<1> HIDE DEF e, C, r, t
<1>5. QueueOK(u) /\ u.running = s.running \ C /\ u.waiting = e.waiting
  <2>1. CASE C = {}
    BY <1>2, <2>1
  <2>2. CASE C # {}
    <3>1. u = Release(e, r) /\ r \in e.running
      BY <1>2, <1>3, <1>4, <2>2
    <3>2. QueueOK(u) /\ u.running = e.running \ {r} /\ u.waiting = e.waiting
      BY <1>2, <3>1, ReleaseKeepsQueue
    <3> QED
      BY <1>2, <1>4, <2>2, <3>2
  <2> QED
    BY <2>1, <2>2
<1> HIDE DEF u
<1>6. /\ QueueOK(t) /\ LineIdle(t) /\ u.running \subseteq t.running
      /\ Range(t.waiting) = Range(u.waiting) \ t.running
      /\ t.running \subseteq u.running \cup Range(u.waiting)
  BY <1>1, <1>5, FillOK
<1>7. /\ t.running # u.running => Cardinality(t.running) <= MaxRunning
      /\ \A c \in t.running \ u.running : t.perRepo[Repo(c)] <= MaxPerRepo
  BY <1>1, <1>5, FillOK
<1>8. \A c \in t.running \ s.running : Cardinality(t.running) <= MaxRunning /\ t.perRepo[Repo(c)] <= MaxPerRepo
  BY <1>5, <1>7
<1>9. /\ s.running \ C \subseteq t.running
      /\ t.running \subseteq (s.running \ C) \cup Range(s.waiting) \cup {b}
      /\ Range(t.waiting) \subseteq (Range(s.waiting) \cup {b}) \ t.running
  BY <1>2, <1>5, <1>6
<1> QED
  BY <1>6, <1>8, <1>9 DEF t, C

-----------------------------------------------------------------------------
(* Restore.                                                                *)

\* The queue s after the first k Jobs.
Restored(builds, k, s) ==
    /\ s \in Queue /\ RunningOK(s)
    /\ s.running \subseteq {builds[j] : j \in 1..k}
    /\ s.waiting = <<>> /\ s.waitingGroup = [g \in Branches |-> None]

LEMMA RestoreStarts ==
    ASSUME NEW builds
    PROVE  Restored(builds, 0, New)
<1>1. /\ New.running = {} /\ New.runningGroup = [g \in Branches |-> None] /\ New.perRepo = [r \in Repos |-> 0]
      /\ New.waiting = <<>> /\ New.waitingGroup = [g \in Branches |-> None]
  BY DEF New
<1>2. New \in Queue
  BY DEF New, Queue
<1>3. RunningOK(New)
  <2>1. IsFiniteSet({}) /\ Cardinality({}) = 0
    BY FS_EmptySet
  <2>2. \A r \in Repos : {b \in New.running : Repo(b) = r} = {}
    BY <1>1
  <2>3. \A r \in Repos : New.perRepo[r] = Cardinality({b \in New.running : Repo(b) = r})
    BY <1>1, <2>1, <2>2
  <2> QED
    BY <1>1, <2>1, <2>3 DEF RunningOK
<1> QED
  BY <1>1, <1>2, <1>3 DEF Restored

LEMMA RestoreGoesOn ==
    ASSUME NEW builds \in Seq(Build), \A i, j \in 1..Len(builds) : builds[i].id = builds[j].id => i = j,
           NEW k \in 1..Len(builds), NEW s, Restored(builds, k - 1, s)
    PROVE  Restored(builds, k, RestoreStep(s, builds[k]))
<1> DEFINE b == builds[k]
           old == {r \in s.running : r.id = s.runningGroup[b.branch]}
           o == CHOOSE r \in old : TRUE
           u == IF old = {} THEN s ELSE Release(s, o)
           t == RestoreStep(s, b)
<1>1. b \in Build /\ b.branch \in Branches /\ Len(builds) \in Nat
  BY LenProperties, ElementOfSeq, BuildType
<1>2. t = Place(u, b)
  BY DEF RestoreStep
<1>3. s \in Queue /\ RunningOK(s) /\ s.running \in SUBSET Build /\ \A c \in s.running : c.id # None
  <2>1. s \in Queue /\ RunningOK(s) /\ s.running \in SUBSET Build
    BY QueueType DEF Restored
  <2> QED
    BY <2>1, BuildType
<1>4. \A c \in s.running : c.id # b.id
  <2> SUFFICES ASSUME NEW c \in s.running PROVE c.id # b.id
    OBVIOUS
  <2>1. PICK j \in 1..k - 1 : c = builds[j]
    BY DEF Restored
  <2>2. j \in 1..Len(builds) /\ j # k
    BY <1>1
  <2> QED
    BY <2>1, <2>2
<1> HIDE DEF b
<1>5. /\ u \in Queue /\ RunningOK(u) /\ u.running \subseteq s.running /\ u.runningGroup[b.branch] = None
      /\ u.waiting = s.waiting /\ u.waitingGroup = s.waitingGroup
  <2>1. CASE old = {}
    <3>1. s.runningGroup[b.branch] = None
      <4> SUFFICES ASSUME s.runningGroup[b.branch] # None PROVE FALSE
        OBVIOUS
      <4>1. PICK c \in s.running : c.branch = b.branch
        BY <1>1, <1>3 DEF RunningOK
      <4>2. c \in old
        BY <1>3, <4>1 DEF RunningOK
      <4> QED
        BY <2>1, <4>2
    <3> QED
      BY <1>3, <2>1, <3>1
  <2>2. CASE old # {}
    <3>1. o \in s.running /\ o.id = s.runningGroup[b.branch]
      BY <2>2
    <3> HIDE DEF o
    <3>2. o.branch = b.branch /\ o \in Build
      <4>1. PICK c \in s.running : c.branch = b.branch
        BY <1>1, <1>3, <3>1 DEF RunningOK
      <4> QED
        BY <1>3, <3>1, <4>1 DEF RunningOK
    <3>3. u = Release(s, o)
      BY <2>2
    <3> HIDE DEF u
    <3>4. u \in Queue /\ u.running = s.running \ {o} /\ u.waiting = s.waiting /\ u.waitingGroup = s.waitingGroup
      BY <1>3, <3>2, <3>3, ReleaseFields
    <3>5. RunningOK(u) /\ u.runningGroup[o.branch] = None
      BY <1>3, <3>1, <3>3, ReleaseOK
    <3> QED
      BY <3>2, <3>4, <3>5
  <2> QED
    BY <2>1, <2>2
<1> HIDE DEF u, t
<1>6. \A c \in u.running : c.id # b.id
  BY <1>4, <1>5
<1>7. t \in Queue /\ t.running = u.running \cup {b} /\ t.waiting = u.waiting /\ t.waitingGroup = u.waitingGroup
  BY <1>1, <1>2, <1>5, PlaceFields
<1>8. RunningOK(t)
  BY <1>1, <1>2, <1>5, <1>6, PlaceOK
<1>9. t.running \subseteq {builds[j] : j \in 1..k}
  <2>1. k \in 1..k /\ 1..k - 1 \subseteq 1..k
    BY <1>1
  <2> QED
    BY <1>5, <1>7, <2>1 DEF Restored, b
<1>10. Restored(builds, k, t)
  BY <1>5, <1>7, <1>8, <1>9 DEF Restored
<1> QED
  BY <1>10 DEF t, b

LEMMA RestoreEnds ==
    ASSUME NEW builds \in Seq(Build), \A i, j \in 1..Len(builds) : builds[i].id = builds[j].id => i = j
    PROVE  Restored(builds, Len(builds), RestoreOf(builds))
<1> DEFINE n == Len(builds)
           Round(f) == [k \in 0..n |-> IF k = 0 THEN New ELSE RestoreStep(f[k - 1], builds[k])]
           walk == CHOOSE f : f = Round(f)
           step == [x \in Queue \X Build |-> RestoreStep(x[1], x[2])]
           G == {k \in 0..n : Restored(builds, k, walk[k])}
<1>1. n \in Nat /\ builds \in [1..n -> Build]
  BY LenProperties
<1>2. Restored(builds, 0, New) /\ New \in Queue
  <2>1. Restored(builds, 0, New)
    BY RestoreStarts
  <2> QED
    BY <2>1 DEF Restored
<1>3. step \in [Queue \X Build -> Queue]
  <2> SUFFICES ASSUME NEW s \in Queue, NEW b \in Build PROVE RestoreStep(s, b) \in Queue
    OBVIOUS
  <2> DEFINE old == {r \in s.running : r.id = s.runningGroup[b.branch]}
             o == CHOOSE r \in old : TRUE
             u == IF old = {} THEN s ELSE Release(s, o)
  <2>1. RestoreStep(s, b) = Place(u, b)
    BY DEF RestoreStep
  <2>2. old # {} => o \in Build
    BY QueueType
  <2> HIDE DEF o, old
  <2>3. u \in Queue
    BY <2>2, ReleaseFields
  <2> HIDE DEF u
  <2>4. Place(u, b) \in Queue
    BY <2>3, PlaceFields
  <2> QED
    BY <2>1, <2>4
<1>4. RestoreOf(builds) = walk[n]
  BY DEF RestoreOf
<1> HIDE DEF n, step
<1>5. PICK f \in [0..n -> Queue] : f[0] = New /\ \A k \in 1..n : f[k] = step[<<f[k - 1], builds[k]>>]
  <2>1. \E f \in [0..n -> Queue] : RunsLoop(New, step, builds, n, f)
    BY <1>1, <1>2, <1>3, LoopStates
  <2> QED
    BY <2>1 DEF RunsLoop
<1>6. \A k \in 1..n : k # 0 /\ k - 1 \in 0..n /\ f[k - 1] \in Queue /\ builds[k] \in Build
  BY <1>1
<1>7. \A k \in 1..n : f[k] = RestoreStep(f[k - 1], builds[k])
  BY <1>5, <1>6 DEF step
<1>8. f = Round(f)
  <2>1. \A k \in 0..n : f[k] = IF k = 0 THEN New ELSE RestoreStep(f[k - 1], builds[k])
    BY <1>1, <1>5, <1>7
  <2> QED
    BY <2>1
<1>9. walk = Round(walk)
  <2> HIDE DEF Round
  <2> QED
    BY <1>8
<1> HIDE DEF walk
<1>10. walk[0] = New /\ \A k \in 1..n : walk[k] = RestoreStep(walk[k - 1], builds[k])
  <2>1. \A k \in 0..n : walk[k] = IF k = 0 THEN New ELSE RestoreStep(walk[k - 1], builds[k])
    BY <1>9
  <2>2. 0 \in 0..n /\ \A k \in 1..n : k \in 0..n /\ k # 0
    BY <1>1
  <2> QED
    BY <2>1, <2>2
<1>11. G \in SUBSET (0..n) /\ 0 \in G
  BY <1>1, <1>2, <1>10
<1>12. \A k \in 1..n : k - 1 \in G => k \in G
  <2> SUFFICES ASSUME NEW k \in 1..n, Restored(builds, k - 1, walk[k - 1]) PROVE k \in G
    OBVIOUS
  <2>1. Restored(builds, k, RestoreStep(walk[k - 1], builds[k]))
    BY RestoreGoesOn DEF n
  <2> QED
    BY <1>1, <1>10, <2>1
<1>13. G = 0..n
  <2> HIDE DEF G
  <2> QED
    BY <1>1, <1>11, <1>12, IndexInduction
<1>14. Restored(builds, n, walk[n])
  BY <1>1, <1>13
<1> QED
  BY <1>4, <1>14 DEF n

-----------------------------------------------------------------------------
(* The inductive invariant.                                                *)

\* An id names one build, wherever it is.
IdsOnce == \A b, c \in Known : b.id = c.id => b = c

\* A waiting build has no Job and never had one.
WaitingApart == Range(q.waiting) \cap (Range(jobs) \cup toStart \cup toCancel \cup ended) = {}

\* A Job still to be created is of a running build or of one cancelled since.
StartsPending ==
    /\ toStart \cap (Range(jobs) \cup ended) = {}
    /\ toStart \subseteq q.running \cup toCancel

\* A Job is there once and has not ended; what is being cancelled no longer runs.
JobsOnce == Distinct(jobs) /\ Range(jobs) \cap ended = {} /\ q.running \cap toCancel = {}

\* A stopped controller remembers nothing.
DownIsEmpty == ~up => q = New /\ toStart = {} /\ toCancel = {} /\ ended = {}

Books == IdsOnce /\ WaitingApart /\ StartsPending /\ JobsOnce /\ DownIsEmpty /\ JobsAccountedFor

BInv == TypeOK /\ QueueOK(q) /\ LineIdle(q) /\ Books

\* The same conjuncts over the sets they speak of.
LEMMA BooksAre ==
    Books <=>
      /\ \A b, c \in q.running \cup Range(q.waiting) \cup Range(jobs) \cup toStart \cup toCancel \cup ended :
           b.id = c.id => b = c
      /\ Range(q.waiting) \cap (Range(jobs) \cup toStart \cup toCancel \cup ended) = {}
      /\ toStart \cap (Range(jobs) \cup ended) = {}
      /\ toStart \subseteq q.running \cup toCancel
      /\ Distinct(jobs) /\ Range(jobs) \cap ended = {} /\ q.running \cap toCancel = {}
      /\ ~up => q = New /\ toStart = {} /\ toCancel = {} /\ ended = {}
      /\ up => /\ Range(jobs) \subseteq q.running \cup toCancel
               /\ q.running \subseteq Range(jobs) \cup toStart \cup ended
  BY Zenon DEF Books, IdsOnce, Known, WaitingApart, StartsPending, JobsOnce, DownIsEmpty, JobsAccountedFor

\* The empty queue of a new or a stopped controller.
LEMMA NewOK ==
    QueueOK(New) /\ LineIdle(New) /\ New.running = {} /\ New.waiting = <<>> /\ Range(New.waiting) = {}
<1>1. New.running = {} /\ New.waiting = <<>> /\ New.waitingGroup = [g \in Branches |-> None]
  BY DEF New
<1>2. Range(New.waiting) = {}
  BY <1>1 DEF Range
<1>3. New \in Queue /\ RunningOK(New)
  BY RestoreStarts DEF Restored
<1>4. LineOK(New)
  BY <1>1, <1>2 DEF LineOK, Distinct
<1> QED
  BY <1>1, <1>2, <1>3, <1>4 DEF QueueOK, Apart, LineIdle

LEMMA InitInv == Init => BInv
<1> SUFFICES ASSUME Init PROVE BInv
  OBVIOUS
<1>1. q = New /\ up = TRUE /\ jobs = <<>> /\ toStart = {} /\ toCancel = {} /\ ended = {} /\ Range(jobs) = {} /\ Distinct(jobs)
  BY DEF Init, Range, Distinct
<1>2. QueueOK(q) /\ LineIdle(q) /\ q.running = {} /\ Range(q.waiting) = {}
  BY <1>1, NewOK
<1>3. TypeOK
  BY <1>1, <1>2 DEF TypeOK, QueueOK
<1>4. Books
  BY <1>1, <1>2, BooksAre
<1> QED
  BY <1>2, <1>3, <1>4 DEF BInv

LEMMA SubmitInv ==
    ASSUME BInv, NEW b \in Build, Submit(b)
    PROVE  BInv'
<1> DEFINE t == SubmitTo(q, b)
           C == Cancelled(q, b)
<1>1. \A c \in q.running \cup Range(q.waiting) \cup Range(jobs) \cup toStart \cup toCancel \cup ended : c.id # b.id
  BY DEF Submit, Known
<1>2. /\ QueueOK(t) /\ LineIdle(t) /\ q.running \ C \subseteq t.running
      /\ t.running \subseteq (q.running \ C) \cup Range(q.waiting) \cup {b}
      /\ Range(t.waiting) \subseteq (Range(q.waiting) \cup {b}) \ t.running
  BY <1>1, SubmitOK DEF BInv
<1>3. C \subseteq q.running /\ C \subseteq Build /\ Range(q.waiting) \cap q.running = {}
  BY QueueType DEF BInv, QueueOK, Cancelled, Apart
<1>4. q' = t
  BY DEF Submit
<1>5. /\ toStart' = toStart \cup (q'.running \ q.running) /\ toCancel' = toCancel \cup C
      /\ up /\ up' = up /\ jobs' = jobs /\ ended' = ended
  BY DEF Submit
<1> HIDE DEF t, C
<1>6. QueueOK(q') /\ LineIdle(q') /\ q' \in Queue /\ q'.running \in SUBSET Build
  BY <1>2, <1>4, QueueType DEF QueueOK
<1>7. TypeOK'
  BY <1>3, <1>5, <1>6 DEF BInv, TypeOK
<1>8. Books'
  <2> DEFINE R == q.running
             R2 == q'.running
             W == Range(q.waiting)
             W2 == Range(q'.waiting)
             J == Range(jobs)
  <2>1. /\ \A x, y \in R \cup W \cup J \cup toStart \cup toCancel \cup ended : x.id = y.id => x = y
        /\ W \cap (J \cup toStart \cup toCancel \cup ended) = {} /\ toStart \cap (J \cup ended) = {}
        /\ toStart \subseteq R \cup toCancel
        /\ Distinct(jobs) /\ J \cap ended = {} /\ R \cap toCancel = {}
        /\ J \subseteq R \cup toCancel /\ R \subseteq J \cup toStart \cup ended
    BY <1>5, BooksAre DEF BInv
  <2>2. R \ C \subseteq R2 /\ R2 \subseteq (R \ C) \cup W \cup {b} /\ W2 \subseteq (W \cup {b}) \ R2
    BY <1>2, <1>4
  <2>3. b \notin R \cup W \cup J \cup toStart \cup toCancel \cup ended
    BY <1>1
  <2>4. C \subseteq R /\ W \cap R = {} /\ toStart' = toStart \cup (R2 \ R) /\ toCancel' = toCancel \cup C
    BY <1>3, <1>5
  <2> HIDE DEF R, R2, W, W2, J
  <2>5. \A x, y \in R2 \cup W2 \cup J \cup toStart' \cup toCancel' \cup ended : x.id = y.id => x = y
    <3>1. R2 \cup W2 \cup J \cup toStart' \cup toCancel' \cup ended
            \subseteq (R \cup W \cup J \cup toStart \cup toCancel \cup ended) \cup {b}
      BY <2>2, <2>4
    <3> QED
      BY <1>1, <2>1, <3>1 DEF R, W, J
  <2>6. W2 \cap (J \cup toStart' \cup toCancel' \cup ended) = {}
    BY <2>1, <2>2, <2>3, <2>4
  <2>7. toStart' \cap (J \cup ended) = {} /\ toStart' \subseteq R2 \cup toCancel'
    BY <2>1, <2>2, <2>3, <2>4
  <2>8. R2 \cap toCancel' = {}
    BY <2>1, <2>2, <2>3, <2>4
  <2>9. J \subseteq R2 \cup toCancel' /\ R2 \subseteq J \cup toStart' \cup ended
    BY <2>1, <2>2, <2>3, <2>4
  <2>10. BooksAre!2' 
    BY <1>5, <2>1, <2>5, <2>6, <2>7, <2>8, <2>9 DEF R2, W2, J
  <2> QED
    BY <2>10, BooksAre, PTL
<1> QED
  BY <1>6, <1>7, <1>8 DEF BInv

LEMMA FinishInv ==
    ASSUME BInv, NEW b \in ended, Finish(b)
    PROVE  BInv'
<1> DEFINE u == IF b \in q.running THEN Release(q, b) ELSE q
           t == Fill(u)
<1>1. QueueOK(u) /\ u.running = q.running \ {b} /\ u.waiting = q.waiting
  <2>1. CASE b \in q.running
    BY <2>1, ReleaseKeepsQueue DEF BInv
  <2>2. CASE b \notin q.running
    BY <2>2 DEF BInv
  <2> QED
    BY <2>1, <2>2
<1>2. q' = t
  BY DEF Finish
<1>3. /\ toStart' = toStart \cup (q'.running \ q.running) /\ ended' = ended \ {b}
      /\ up /\ up' = up /\ jobs' = jobs /\ toCancel' = toCancel
  BY DEF Finish
<1> HIDE DEF u
<1>4. /\ QueueOK(t) /\ LineIdle(t) /\ u.running \subseteq t.running
      /\ Range(t.waiting) = Range(u.waiting) \ t.running
      /\ t.running \subseteq u.running \cup Range(u.waiting)
  BY <1>1, FillOK
<1> HIDE DEF t
<1>5. QueueOK(q') /\ LineIdle(q') /\ q' \in Queue /\ q'.running \in SUBSET Build
  BY <1>2, <1>4, QueueType DEF QueueOK
<1>6. TypeOK'
  BY <1>3, <1>5 DEF BInv, TypeOK
<1>7. Books'
  <2> DEFINE R == q.running
             R2 == q'.running
             W == Range(q.waiting)
             W2 == Range(q'.waiting)
             J == Range(jobs)
  <2>1. /\ \A x, y \in R \cup W \cup J \cup toStart \cup toCancel \cup ended : x.id = y.id => x = y
        /\ W \cap (J \cup toStart \cup toCancel \cup ended) = {} /\ toStart \cap (J \cup ended) = {}
        /\ toStart \subseteq R \cup toCancel
        /\ Distinct(jobs) /\ J \cap ended = {} /\ R \cap toCancel = {}
        /\ J \subseteq R \cup toCancel /\ R \subseteq J \cup toStart \cup ended
    BY <1>3, BooksAre DEF BInv
  <2>2. R \ {b} \subseteq R2 /\ R2 \subseteq (R \ {b}) \cup W /\ W2 \subseteq W \ R2
    BY <1>1, <1>2, <1>4
  <2>3. W \cap R = {} /\ toStart' = toStart \cup (R2 \ R)
    BY <1>3 DEF BInv, QueueOK, Apart
  <2> HIDE DEF R, R2, W, W2, J
  <2>4. \A x, y \in R2 \cup W2 \cup J \cup toStart' \cup toCancel \cup ended' : x.id = y.id => x = y
    <3>1. R2 \cup W2 \cup J \cup toStart' \cup toCancel \cup ended'
            \subseteq R \cup W \cup J \cup toStart \cup toCancel \cup ended
      BY <1>3, <2>2, <2>3
    <3> QED
      BY <2>1, <3>1
  <2>5. W2 \cap (J \cup toStart' \cup toCancel \cup ended') = {}
    BY <1>3, <2>1, <2>2, <2>3
  <2>6. toStart' \cap (J \cup ended') = {} /\ toStart' \subseteq R2 \cup toCancel
    BY <1>3, <2>1, <2>2, <2>3
  <2>7. J \cap ended' = {} /\ R2 \cap toCancel = {}
    BY <1>3, <2>1, <2>2, <2>3
  <2>8. J \subseteq R2 \cup toCancel /\ R2 \subseteq J \cup toStart' \cup ended'
    BY <1>3, <2>1, <2>2, <2>3
  <2>9. BooksAre!2'
    BY <1>3, <2>1, <2>4, <2>5, <2>6, <2>7, <2>8 DEF R2, W2, J
  <2> QED
    BY <2>9, BooksAre, PTL
<1> QED
  BY <1>5, <1>6, <1>7 DEF BInv

LEMMA RemoveBuildInv ==
    ASSUME BInv, NEW b \in Range(q.waiting), RemoveBuild(b)
    PROVE  BInv'
<1> DEFINE t == RemoveWaiting(q, b)
<1>1. /\ QueueOK(t) /\ t.running = q.running /\ t.runningGroup = q.runningGroup /\ t.perRepo = q.perRepo
      /\ Range(t.waiting) = Range(q.waiting) \ {b}
  <2>1. QueueOK(q)
    BY DEF BInv
  <2>2. QueueOK(t)
    BY <2>1, RemoveWaitingOK
  <2>3. t.running = q.running /\ t.runningGroup = q.runningGroup /\ t.perRepo = q.perRepo
    BY <2>1, RemoveWaitingOK
  <2>4. Range(t.waiting) = Range(q.waiting) \ {b}
    BY <2>1, RemoveWaitingOK
  <2> QED
    BY <2>2, <2>3, <2>4
<1>2. q' = t /\ up' = up /\ jobs' = jobs /\ toStart' = toStart /\ toCancel' = toCancel /\ ended' = ended /\ up
  BY DEF RemoveBuild
<1> HIDE DEF t
<1>3. LineIdle(t)
  <2>1. \A w : CanStart(t, w) <=> CanStart(q, w)
    BY <1>1, SameRunning
  <2> QED
    BY <1>1, <2>1 DEF BInv, LineIdle
<1>4. QueueOK(q') /\ LineIdle(q') /\ q' \in Queue
  BY <1>1, <1>2, <1>3 DEF QueueOK
<1>5. TypeOK'
  BY <1>2, <1>4 DEF BInv, TypeOK
<1>6. Books'
  <2>1. q'.running = q.running /\ Range(q'.waiting) = Range(q.waiting) \ {b}
    BY <1>1, <1>2
  <2>2. BooksAre!2'
    BY <1>2, <2>1, BooksAre DEF BInv
  <2> QED
    BY <2>2, BooksAre, PTL
<1> QED
  BY <1>4, <1>5, <1>6 DEF BInv

LEMMA CreateJobInv ==
    ASSUME BInv, NEW b \in toStart, CreateJob(b)
    PROVE  BInv'
<1>1. q' = q /\ up' = up /\ jobs' = Append(jobs, b) /\ toStart' = toStart \ {b} /\ toCancel' = toCancel /\ ended' = ended
  BY DEF CreateJob
<1>2. jobs \in Seq(Build) /\ b \in Build /\ b \notin Range(jobs) /\ Distinct(jobs)
  BY BooksAre DEF BInv, TypeOK
<1>3. jobs' \in Seq(Build) /\ Range(jobs') = Range(jobs) \cup {b} /\ Distinct(jobs')
  BY <1>1, <1>2, AppendFacts
<1>4. TypeOK'
  BY <1>1, <1>3 DEF BInv, TypeOK
<1>5. up
  BY BooksAre DEF BInv
<1>6. Books'
  <2>1. BooksAre!2'
    BY <1>1, <1>3, <1>5, BooksAre DEF BInv
  <2> QED
    BY <2>1, BooksAre, PTL
<1>7. QueueOK(q') /\ LineIdle(q')
  BY <1>1 DEF BInv
<1> QED
  BY <1>4, <1>6, <1>7 DEF BInv

\* A list that does not have what it is to lose stays.
LEMMA RemoveAbsent ==
    ASSUME NEW S, NEW s \in Seq(S), NEW e, e \notin Range(s)
    PROVE  RemoveFirst(s, e) = s
<1>1. \A i \in 1..Len(s) : s[i] # e
  BY RangeEquality
<1> QED
  BY <1>1 DEF RemoveFirst

LEMMA DeleteJobInv ==
    ASSUME BInv, NEW b \in toCancel, DeleteJob(b)
    PROVE  BInv'
<1>1. /\ q' = q /\ up' = up /\ jobs' = RemoveFirst(jobs, b) /\ toStart' = toStart /\ toCancel' = toCancel \ {b}
      /\ ended' = ended /\ b \notin toStart
  BY DEF DeleteJob
<1>2. jobs \in Seq(Build) /\ Distinct(jobs) /\ up
  BY BooksAre DEF BInv, TypeOK
<1>3. jobs' \in Seq(Build) /\ Range(jobs') = Range(jobs) \ {b} /\ Distinct(jobs')
  <2>1. CASE b \in Range(jobs)
    BY <1>1, <1>2, <2>1, RemoveFacts
  <2>2. CASE b \notin Range(jobs)
    <3>1. jobs' = jobs
      BY <1>1, <1>2, <2>2, RemoveAbsent
    <3> QED
      BY <1>2, <2>2, <3>1
  <2> QED
    BY <2>1, <2>2
<1>4. TypeOK'
  BY <1>1, <1>3 DEF BInv, TypeOK
<1>5. Books'
  <2>1. BooksAre!2'
    BY <1>1, <1>2, <1>3, BooksAre DEF BInv
  <2> QED
    BY <2>1, BooksAre, PTL
<1>6. QueueOK(q') /\ LineIdle(q')
  BY <1>1 DEF BInv
<1> QED
  BY <1>4, <1>5, <1>6 DEF BInv

LEMMA JobEndsInv ==
    ASSUME BInv, NEW b \in Range(jobs), JobEnds(b)
    PROVE  BInv'
<1>1. /\ q' = q /\ up' = up /\ jobs' = RemoveFirst(jobs, b) /\ toStart' = toStart /\ toCancel' = toCancel
      /\ ended' = IF up THEN ended \cup {b} ELSE ended
  BY DEF JobEnds
<1>2. jobs \in Seq(Build) /\ Distinct(jobs) /\ b \in Build
  BY BooksAre, RangeOfSeq DEF BInv, TypeOK
<1>3. jobs' \in Seq(Build) /\ Range(jobs') = Range(jobs) \ {b} /\ Distinct(jobs')
  BY <1>1, <1>2, RemoveFacts
<1>4. TypeOK'
  BY <1>1, <1>2, <1>3 DEF BInv, TypeOK
<1>5. Books'
  <2>1. CASE up
    <3>1. BooksAre!2'
      BY <1>1, <1>3, <2>1, BooksAre DEF BInv
    <3> QED
      BY <3>1, BooksAre, PTL
  <2>2. CASE ~up
    <3>1. BooksAre!2'
      BY <1>1, <1>3, <2>2, BooksAre DEF BInv
    <3> QED
      BY <3>1, BooksAre, PTL
  <2> QED
    BY <2>1, <2>2
<1>6. QueueOK(q') /\ LineIdle(q')
  BY <1>1 DEF BInv
<1> QED
  BY <1>4, <1>5, <1>6 DEF BInv

LEMMA CrashInv ==
    ASSUME BInv, Crash
    PROVE  BInv'
<1>1. q' = New /\ up' = FALSE /\ toStart' = {} /\ toCancel' = {} /\ ended' = {} /\ jobs' = jobs
  BY DEF Crash
<1>2. QueueOK(q') /\ LineIdle(q') /\ q' \in Queue /\ q'.running = {} /\ Range(q'.waiting) = {}
  BY <1>1, NewOK DEF QueueOK
<1>3. TypeOK'
  BY <1>1, <1>2 DEF BInv, TypeOK
<1>4. Books'
  <2>1. BooksAre!2'
    BY <1>1, <1>2, BooksAre DEF BInv
  <2> QED
    BY <2>1, BooksAre, PTL
<1> QED
  BY <1>2, <1>3, <1>4 DEF BInv

LEMMA RestoreInv ==
    ASSUME BInv, Restore
    PROVE  BInv'
<1>1. /\ q' = RestoreOf(jobs) /\ up' = TRUE /\ jobs' = jobs /\ toStart' = {} /\ ended' = {}
      /\ toCancel' = Range(jobs) \ q'.running
  BY BooksAre DEF BInv, Restore
<1>2. jobs \in Seq(Build) /\ Len(jobs) \in Nat /\ Range(jobs) = {jobs[j] : j \in 1..Len(jobs)}
  BY RangeEquality, LenProperties DEF BInv, TypeOK
<1>3. \A i, j \in 1..Len(jobs) : jobs[i].id = jobs[j].id => i = j
  <2>1. Distinct(jobs) /\ \A x, y \in Range(jobs) : x.id = y.id => x = y
    BY BooksAre DEF BInv
  <2> QED
    BY <1>2, <2>1 DEF Distinct
<1>4. Restored(jobs, Len(jobs), q')
  <2>1. Restored(jobs, Len(jobs), RestoreOf(jobs))
    BY <1>2, <1>3, RestoreEnds
  <2> QED
    BY <1>1, <2>1
<1>5. /\ q' \in Queue /\ RunningOK(q') /\ q'.running \subseteq Range(jobs)
      /\ q'.waiting = <<>> /\ q'.waitingGroup = [g \in Branches |-> None] /\ Range(q'.waiting) = {}
  BY <1>2, <1>4 DEF Restored, Range
<1>6. QueueOK(q') /\ LineIdle(q')
  <2>1. LineOK(q')
    BY <1>5 DEF LineOK, Distinct
  <2> QED
    BY <1>5, <2>1 DEF QueueOK, Apart, LineIdle
<1>7. TypeOK'
  BY <1>1, <1>2, <1>5, RangeOfSeq DEF BInv, TypeOK
<1>8. Books'
  <2>1. BooksAre!2'
    BY <1>1, <1>5, BooksAre DEF BInv
  <2> QED
    BY <2>1, BooksAre, PTL
<1> QED
  BY <1>6, <1>7, <1>8 DEF BInv

-----------------------------------------------------------------------------
(* The theorems.                                                           *)

LEMMA NextInv == BInv /\ [Next]_vars => BInv'
<1> SUFFICES ASSUME BInv, [Next]_vars PROVE BInv'
  OBVIOUS
<1>1. ASSUME NEW b \in Build, Submit(b) PROVE BInv'
  BY <1>1, SubmitInv
<1>2. ASSUME NEW b \in ended, Finish(b) PROVE BInv'
  BY <1>2, FinishInv
<1>3. ASSUME NEW b \in Range(q.waiting), RemoveBuild(b) PROVE BInv'
  BY <1>3, RemoveBuildInv
<1>4. ASSUME NEW b \in toStart, CreateJob(b) PROVE BInv'
  BY <1>4, CreateJobInv
<1>5. ASSUME NEW b \in toCancel, DeleteJob(b) PROVE BInv'
  BY <1>5, DeleteJobInv
<1>6. ASSUME NEW b \in Range(jobs), JobEnds(b) PROVE BInv'
  BY <1>6, JobEndsInv
<1>7. CASE Crash
  BY <1>7, CrashInv
<1>8. CASE Restore
  BY <1>8, RestoreInv
<1>9. CASE UNCHANGED vars
  <2>1. q' = q /\ up' = up /\ jobs' = jobs /\ toStart' = toStart /\ toCancel' = toCancel /\ ended' = ended
    BY <1>9 DEF vars
  <2>2. TypeOK'
    BY <2>1 DEF BInv, TypeOK
  <2>3. QueueOK(q') /\ LineIdle(q')
    BY <2>1 DEF BInv
  <2>4. BooksAre!2'
    BY <2>1, BooksAre DEF BInv
  <2>5. Books'
    BY <2>4, BooksAre, PTL
  <2> QED
    BY <2>2, <2>3, <2>5 DEF BInv
<1> QED
  BY <1>1, <1>2, <1>3, <1>4, <1>5, <1>6, <1>7, <1>8, <1>9 DEF Next

\* The inductive invariant: after every call of the queue, and between any two
\* steps of the controller and the cluster, its indexes agree, no place is
\* idle, and every build is in one of the places it can be in.
THEOREM QueueInvariant == Spec => []BInv
<1>1. BInv /\ [Next]_vars => BInv'
  BY NextInv
<1> QED
  BY InitInv, <1>1, PTL DEF Spec

\* Submit, Finish, Remove and Restore keep the queue's fields in their types.
THEOREM QueueTypes == Spec => []TypeOK
<1>1. BInv => TypeOK
  BY DEF BInv
<1> QED
  BY <1>1, QueueInvariant, PTL

\* The lists of the queue and its three indexes agree after every call, also
\* after Restore, so Submit finds the build it replaces where the index says.
THEOREM QueueIndexes == Spec => []IndexesAgree
<1>1. BInv => IndexesAgree
  <2> SUFFICES ASSUME BInv PROVE IndexesAgree
    OBVIOUS
  <2>1. /\ q \in Queue /\ RunningOK(q) /\ LineOK(q) /\ q.waiting \in Seq(Build) /\ q.running \in SUBSET Build
        /\ Len(q.waiting) \in Nat
    BY QueueType, LenProperties DEF BInv, QueueOK
  <2>2. /\ \A c \in q.running : c.id # None /\ c.branch \in Branches
        /\ \A k \in 1..Len(q.waiting) : q.waiting[k] \in Range(q.waiting)
        /\ \A c \in Range(q.waiting) : c.id # None /\ c.branch \in Branches
    BY <2>1, RangeOfSeq, RangeEquality, BuildType
  <2>3. ASSUME NEW g \in Branches
        PROVE  {b \in q.running : b.branch = g} = {b \in q.running : b.id = q.runningGroup[g]}
    <3>1. ASSUME NEW b \in q.running, b.branch = g PROVE b.id = q.runningGroup[g]
      BY <2>1, <3>1 DEF RunningOK
    <3>2. ASSUME NEW b \in q.running, b.id = q.runningGroup[g] PROVE b.branch = g
      <4>1. PICK c \in q.running : c.branch = g
        BY <2>1, <2>2, <3>2 DEF RunningOK
      <4> QED
        BY <2>1, <3>2, <4>1 DEF RunningOK
    <3> QED
      BY <3>1, <3>2
  <2>4. \A g \in Branches : (q.runningGroup[g] # None) = (\E b \in q.running : b.branch = g)
    <3> SUFFICES ASSUME NEW g \in Branches PROVE (q.runningGroup[g] # None) <=> (\E b \in q.running : b.branch = g)
      OBVIOUS
    <3> QED
      BY <2>1, <2>2 DEF RunningOK
  <2>5. \A g \in Branches : (q.waitingGroup[g] # None) = (\E b \in Range(q.waiting) : b.branch = g)
    <3> SUFFICES ASSUME NEW g \in Branches
                 PROVE  (q.waitingGroup[g] # None) <=> (\E b \in Range(q.waiting) : b.branch = g)
      OBVIOUS
    <3> QED
      BY <2>1, <2>2 DEF LineOK
  <2>6. ASSUME NEW g \in Branches, NEW k \in 1..Len(q.waiting), q.waiting[k].branch = g
        PROVE  /\ q.waiting[k].id = q.waitingGroup[g]
               /\ \A m \in 1..Len(q.waiting) : q.waiting[m].branch = g => m = k
    <3>1. \A m \in 1..Len(q.waiting) : q.waiting[m].branch = g => q.waiting[m].id = q.waitingGroup[g]
      BY <2>1, <2>2 DEF LineOK
    <3>2. \A m \in 1..Len(q.waiting) : q.waiting[m].branch = g => q.waiting[m] = q.waiting[k]
      BY <2>1, <2>2, <2>6, <3>1 DEF LineOK
    <3> QED
      BY <2>1, <2>6, <3>1, <3>2 DEF LineOK, Distinct
  <2>7. \A r \in Repos : q.perRepo[r] = Cardinality({b \in q.running : Repo(b) = r})
    BY <2>1 DEF RunningOK
  <2> QED
    BY <2>3, <2>4, <2>5, <2>6, <2>7 DEF IndexesAgree
<1> QED
  BY <1>1, QueueInvariant, PTL

\* After every call of Submit, Finish and Remove, a build that still waits is
\* held back by a cap or by its branch.
THEOREM PlacesAreFilled == Spec => []NoIdlePlace
<1>1. BInv => NoIdlePlace
  BY DEF BInv, LineIdle, NoIdlePlace
<1> QED
  BY <1>1, QueueInvariant, PTL

\* Between any two steps of a decision, and after a crash in the middle of
\* one, the Jobs and the running builds account for each other.
THEOREM JobsFollowBuilds == Spec => []JobsAccountedFor
<1>1. BInv => JobsAccountedFor
  BY DEF BInv, Books
<1> QED
  BY <1>1, QueueInvariant, PTL

\* No call starts a build beyond the caps, also when Restore has found more
\* Jobs than the caps allow.
THEOREM CapsHoldStarts == Spec => StartsWithinCaps
<1> DEFINE Within == up => \A b \in q'.running \ q.running :
                       /\ Cardinality(q'.running) <= MaxRunning
                       /\ Cardinality({r \in q'.running : Repo(r) = Repo(b)}) <= MaxPerRepo
<1>1. ASSUME BInv, Next PROVE Within
  <2>1. BInv'
    BY <1>1, NextInv DEF vars
  <2>2. RunningOK(q') /\ q'.running \in SUBSET Build
    BY <2>1, QueueType DEF BInv, QueueOK
  <2>3. ASSUME \A b \in q'.running \ q.running :
                 Cardinality(q'.running) <= MaxRunning /\ q'.perRepo[Repo(b)] <= MaxPerRepo
        PROVE  Within
    <3>1. \A b \in q'.running : Repo(b) \in Repos
      BY <2>2, BuildType
    <3>2. \A b \in q'.running : q'.perRepo[Repo(b)] = Cardinality({r \in q'.running : Repo(r) = Repo(b)})
      BY <2>2, <3>1 DEF RunningOK
    <3> QED
      BY <2>3, <3>2
  <2>4. CASE \E b \in Build : Submit(b)
    <3>1. PICK b \in Build : Submit(b)
      BY <2>4
    <3>2. \A c \in q.running \cup Range(q.waiting) : c.id # b.id
      BY <3>1 DEF Submit, Known
    <3>3. q' = SubmitTo(q, b)
      BY <3>1 DEF Submit
    <3>4. \A c \in SubmitTo(q, b).running \ q.running :
            Cardinality(SubmitTo(q, b).running) <= MaxRunning /\ SubmitTo(q, b).perRepo[Repo(c)] <= MaxPerRepo
      BY <1>1, <3>2, SubmitOK DEF BInv
    <3> QED
      BY <2>3, <3>3, <3>4
  <2>5. CASE \E b \in ended : Finish(b)
    <3>1. PICK b \in ended : Finish(b)
      BY <2>5
    <3> DEFINE u == IF b \in q.running THEN Release(q, b) ELSE q
    <3>2. QueueOK(u) /\ u.running = q.running \ {b} /\ u.waiting = q.waiting
      <4>1. CASE b \in q.running
        BY <1>1, <4>1, ReleaseKeepsQueue DEF BInv
      <4>2. CASE b \notin q.running
        BY <1>1, <4>2 DEF BInv
      <4> QED
        BY <4>1, <4>2
    <3>3. q' = Fill(u)
      BY <3>1 DEF Finish
    <3> HIDE DEF u
    <3>4. /\ Fill(u).running # u.running => Cardinality(Fill(u).running) <= MaxRunning
          /\ \A c \in Fill(u).running \ u.running : Fill(u).perRepo[Repo(c)] <= MaxPerRepo
      BY <3>2, FillOK
    <3> QED
      BY <2>3, <3>2, <3>3, <3>4
  <2>6. CASE q'.running = q.running
    BY <2>6
  <2>7. ASSUME NEW b \in Range(q.waiting), RemoveBuild(b) PROVE q'.running = q.running
    BY <1>1, <2>7, RemoveWaitingOK DEF BInv, RemoveBuild
  <2>8. CASE Crash
    BY <2>8, NewOK DEF Crash
  <2>9. CASE Restore
    BY <2>9 DEF Restore
  <2> QED
    BY <1>1, <2>4, <2>5, <2>6, <2>7, <2>8, <2>9 DEF Next, CreateJob, DeleteJob, JobEnds
<1>2. BInv /\ [Next]_vars => [Within]_vars
  BY <1>1
<1>3. Spec => [][Within]_vars
  BY <1>2, QueueInvariant, PTL DEF Spec
<1> QED
  BY <1>3, PTL DEF StartsWithinCaps
===============================================================================

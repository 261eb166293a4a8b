--------------------------- MODULE ChatStreamProofs ---------------------------
(***************************************************************************)
(* For every alphabet, every set of tools and conversations, and answers   *)
(* of any length: the typewriter, the tool blocks and the approval cards   *)
(* of the chat stream.                                                     *)
(***************************************************************************)
EXTENDS ChatStream, NumberLemmas, FiniteSetTheorems, SequenceTheorems

-----------------------------------------------------------------------------
(* The typewriter.                                                         *)

\* The read loop runs for an answer that streams and whose [DONE] has not come.
Typing == TypewriterRuns /\ (reading => status = "streaming" /\ ~pending)

LEMMA TypingInit == Init => Typing
  BY DEF Init, Typing, TypewriterRuns

LEMMA TypingNext == Typing /\ [Next]_vars => Typing'
<1> SUFFICES ASSUME Typing, [Next]_vars PROVE Typing'
  OBVIOUS
<1> USE DEF Typing, TypewriterRuns
<1>1. CASE Drain
  <2>1. timer /\ reading' = reading
    BY <1>1 DEF Drain
  <2>2. CASE queue # <<>>
    <3>1. timer' = timer /\ pending' = pending /\ status' = status
      BY <1>1, <2>2 DEF Drain
    <3> QED
      BY <2>1, <2>2, <3>1, Zenon
  <2>3. CASE queue = <<>>
    <3>1. queue' = <<>> /\ pending' = FALSE /\ status' = IF pending THEN "completed" ELSE status
      BY <1>1, <2>3 DEF Drain
    <3> QED
      BY <2>1, <3>1
  <2> QED
    BY <2>2, <2>3
<1>2. CASE Stop
  BY <1>2 DEF Stop, EndNow, Flush
<1>3. CASE Fail
  BY <1>3 DEF Fail, EndNow, Flush
<1>4. CASE DoneCame
  BY <1>4 DEF DoneCame, Event, _finishWhenDrained
<1>5. ASSUME NEW s \in Sessions, Start(s) PROVE Typing'
  BY <1>5 DEF Start
<1>6. ASSUME NEW chunk \in Chunks, TextCame(chunk) PROVE Typing'
  BY <1>6 DEF TextCame, Event
<1>7. ASSUME NEW f \in Tools, NEW arg \in Arguments, CallCame(f, arg) PROVE Typing'
  BY <1>7 DEF CallCame, Event, Flush
<1>8. ASSUME NEW i, ApprovalCame(i) PROVE Typing'
  BY <1>8 DEF ApprovalCame, Event, typed
<1>9. ASSUME NEW i, NEW result, NEW access, ResultCame(i, result, access) PROVE Typing'
  BY <1>9 DEF ResultCame, Event
<1>10. CASE UNCHANGED vars
  BY <1>10 DEF vars, typed
<1> QED
  BY <1>1, <1>2, <1>3, <1>4, <1>5, <1>6, <1>7, <1>8, <1>9, <1>10 DEF Next

-----------------------------------------------------------------------------
(* Cells and texts.                                                        *)

\* What tells the cells apart.
LEMMA CellFacts ==
    /\ \A l \in Letters : A!Letter(l) \in A!Cells
    /\ A!Space \in A!Cells /\ A!Placeholder \in A!Cells
    /\ \A i \in Nat : A!Summary(i) \in A!Cells /\ A!Access(i) \in A!Cells /\ A!Result(i) \in A!Cells /\ A!Foot(i) \in A!Cells
  BY DEF A!Letter, A!Space, A!Placeholder, A!Summary, A!Access, A!Result, A!Foot, A!Cells

LEMMA CellsApart ==
    /\ A!Space # A!Placeholder
    /\ \A i \in Nat \ {0} :
         /\ A!Summary(i) # A!Space /\ A!Summary(i) # A!Placeholder
         /\ A!Foot(i) # A!Space /\ A!Foot(i) # A!Placeholder
         /\ \A l : A!Summary(i) # A!Letter(l)
         /\ \A j : A!Summary(i) # A!Foot(j)
         /\ \A j : A!Summary(i) = A!Summary(j) => i = j
  BY DEF A!Letter, A!Space, A!Placeholder, A!Summary, A!Foot

\* A text of which the cells between a and b are replaced by x.
Splice(t, a, x, b) == SubSeq(t, 1, a) \o x \o SubSeq(t, b, Len(t))

\* z is t with everything from b on moved by d.
Moves(t, z, a, b, d) ==
    /\ Len(z) = Len(t) + d
    /\ \A p \in 1..a : z[p] = t[p]
    /\ \A p \in b..Len(t) : z[p + d] = t[p]

LEMMA SpliceFacts ==
    ASSUME NEW S, NEW t \in Seq(S), NEW x \in Seq(S), NEW a \in Nat, NEW b \in Nat, a < b, b <= Len(t) + 1,
           NEW d \in Int, d = a + Len(x) + 1 - b
    PROVE  Splice(t, a, x, b) \in Seq(S) /\ Moves(t, Splice(t, a, x, b), a, b, d)
<1> DEFINE n == Len(t)
           m == Len(x)
           u == SubSeq(t, 1, a)
           v == SubSeq(t, b, n)
           y == u \o x
           z == y \o v
<1>1. n \in Nat /\ m \in Nat /\ \A i \in 1..n : t[i] \in S
  BY LenProperties, ElementOfSeq
<1>2. u \in Seq(S) /\ Len(u) = a /\ \A i \in 1..a : u[i] = t[i]
  <2>1. 1 \in Int /\ a \in Int /\ \A i \in 1..a : t[i] \in S
    BY <1>1
  <2>2. /\ u \in Seq(S) /\ Len(u) = IF 1 <= a THEN a - 1 + 1 ELSE 0
        /\ \A i \in 1..a - 1 + 1 : u[i] = t[1 + i - 1]
    BY <2>1, SubSeqProperties
  <2> HIDE DEF u
  <2> QED
    BY <2>2
<1>3. v \in Seq(S) /\ Len(v) = n + 1 - b /\ \A i \in 1..n + 1 - b : v[i] = t[b + i - 1]
  <2>1. b \in Int /\ n \in Int /\ \A i \in b..n : t[i] \in S
    BY <1>1
  <2>2. /\ v \in Seq(S) /\ Len(v) = IF b <= n THEN n - b + 1 ELSE 0
        /\ \A i \in 1..n - b + 1 : v[i] = t[b + i - 1]
    BY <2>1, SubSeqProperties
  <2> HIDE DEF v
  <2> QED
    BY <1>1, <2>2
<1> HIDE DEF u, v, n, m
<1>4. y \in Seq(S) /\ Len(y) = a + m /\ \A i \in 1..a : y[i] = t[i]
  <2>1. y \in Seq(S) /\ Len(y) = Len(u) + Len(x)
    BY <1>2, ConcatProperties
  <2>2. \A i \in 1..Len(u) + Len(x) : y[i] = IF i <= Len(u) THEN u[i] ELSE x[i - Len(u)]
    BY <1>2, ConcatProperties
  <2> HIDE DEF y
  <2> QED
    BY <1>1, <1>2, <2>1, <2>2 DEF m
<1> HIDE DEF y
<1>5. /\ z \in Seq(S) /\ Len(z) = a + m + (n + 1 - b)
      /\ \A i \in 1..a : z[i] = t[i]
      /\ \A i \in 1..n + 1 - b : z[a + m + i] = t[b + i - 1]
  <2>1. z \in Seq(S) /\ Len(z) = Len(y) + Len(v)
    BY <1>3, <1>4, ConcatProperties
  <2>2. \A i \in 1..Len(y) + Len(v) : z[i] = IF i <= Len(y) THEN y[i] ELSE v[i - Len(y)]
    BY <1>3, <1>4, ConcatProperties
  <2> HIDE DEF z
  <2>3. \A i \in 1..a : z[i] = t[i]
    <3>1. \A i \in 1..a : i \in 1..Len(y) + Len(v) /\ i <= Len(y)
      BY <1>1, <1>3, <1>4
    <3> QED
      BY <1>4, <2>2, <3>1
  <2>4. ASSUME NEW i \in 1..n + 1 - b PROVE z[a + m + i] = t[b + i - 1]
    <3>0. Len(y) = a + m /\ Len(v) = n + 1 - b /\ n \in Nat /\ m \in Nat
      BY <1>1, <1>3, <1>4
    <3>1. a + m + i \in 1..Len(y) + Len(v) /\ ~(a + m + i <= Len(y)) /\ (a + m + i) - Len(y) = i
      BY <3>0
    <3>2. z[a + m + i] = v[(a + m + i) - Len(y)]
      BY <2>2, <3>1
    <3> QED
      BY <1>3, <3>1, <3>2
  <2> QED
    BY <1>3, <1>4, <2>1, <2>3, <2>4
<1>6. Splice(t, a, x, b) = z
  BY DEF Splice, z, y, u, v, n
<1> HIDE DEF z
<1>7. Len(z) = n + d
  BY <1>1, <1>5 DEF m
<1>8. ASSUME NEW p \in b..n PROVE z[p + d] = t[p]
  <2> DEFINE i == p + 1 - b
  <2>1. i \in 1..n + 1 - b /\ a + m + i = p + d /\ b + i - 1 = p
    BY <1>1 DEF m
  <2>2. \A k \in 1..n + 1 - b : z[a + m + k] = t[b + k - 1]
    BY <1>5
  <2> HIDE DEF i
  <2>3. z[a + m + i] = t[b + i - 1]
    BY <2>1, <2>2
  <2> QED
    BY <2>1, <2>3
<1> QED
  BY <1>5, <1>6, <1>7, <1>8 DEF n, Moves

\* What an outcome does to the text: everything up to the head of its block
\* stays, and everything from the foot on moves by what went in.
LEMMA OutcomeText ==
    ASSUME NEW c \in Seq(A!Cells), NEW s \in Nat \ {0}, s + 3 <= Len(c), NEW i \in Nat,
           c[s] = A!Summary(i), c[s + 2] = A!Placeholder,
           NEW result \in Seq(A!Cells), NEW access \in Seq(A!Cells), NEW at, at = s + 2, NEW t,
           t = withToolAccess(withToolResult(c, at, result), s, access),
           NEW foot, foot = s + 3, NEW by, by = Len(result) + Len(access) - 1
    PROVE  t \in Seq(A!Cells) /\ Moves(c, t, s, foot, by)
<1> DEFINE n == Len(c)
           u == withToolResult(c, s + 2, result)
           I == {k \in s..Len(u) : u[k][1] = "summary"}
           end == SelectInSubSeq(u, s, Len(u), LAMBDA d : d[1] = "summary")
<1>1. n \in Nat /\ Len(result) \in Nat /\ Len(access) \in Nat
  BY LenProperties
<1>2. u = Splice(c, s + 1, result, s + 3)
  <2>1. s + 2 \in 1..Len(c) /\ (s + 2) - 1 = s + 1 /\ (s + 2) + 1 = s + 3
    BY <1>1
  <2> QED
    BY <2>1 DEF withToolResult, Splice
<1> DEFINE d == Len(result) - 1
           a1 == s + 1
           b1 == s + 3
<1>3. /\ u \in Seq(A!Cells) /\ Len(u) = n + d /\ \A p \in 1..a1 : u[p] = c[p]
      /\ \A p \in b1..n : u[p + d] = c[p]
  <2>1. a1 \in Nat /\ b1 \in Nat /\ a1 < b1 /\ b1 <= Len(c) + 1 /\ d \in Int /\ d = a1 + Len(result) + 1 - b1
    BY <1>1
  <2>2. u = Splice(c, a1, result, b1)
    BY <1>2
  <2> HIDE DEF a1, b1, d, u
  <2>3. u \in Seq(A!Cells) /\ Moves(c, u, a1, b1, d)
    BY <2>1, <2>2, SpliceFacts
  <2> QED
    BY <2>3 DEF Moves
<1> HIDE DEF u, n
<1>4. /\ Len(u) \in Nat /\ s <= Len(u) /\ s \in 1..a1 /\ d \in Int
      /\ \A p \in s + 3..n : p + d \in s + 1..Len(u) /\ u[p + d] = c[p]
  <2>1. s + 3 <= n
    BY DEF n
  <2>2. d \in Int /\ d >= -1
    BY <1>1
  <2> HIDE DEF d
  <2> QED
    BY <1>1, <1>3, <2>1, <2>2
<1>5. end = s
  <2>1. s \in I
    BY <1>3, <1>4 DEF A!Summary
  <2>2. I \in SUBSET Nat /\ I # {} /\ \A k \in I : s <= k
    <3>1. \A k \in s..Len(u) : k \in Nat /\ s <= k
      BY <1>4
    <3> QED
      BY <2>1, <3>1
  <2> DEFINE m == Min(I)
  <2>3. m \in I /\ \A k \in I : m <= k
    BY <2>2, MinFacts
  <2>4. end = m
    BY <2>2 DEF SelectInSubSeq
  <2> HIDE DEF I, m, end
  <2>5. m <= s /\ s <= m /\ m \in Nat
    BY <2>1, <2>2, <2>3
  <2> QED
    BY <2>4, <2>5
<1>6. t = Splice(u, s, access, s + 1)
  BY <1>5 DEF withToolAccess, Splice, u
<1> HIDE DEF end, I
<1> DEFINE e == Len(access)
           b2 == s + 1
<1>7. /\ t \in Seq(A!Cells) /\ Len(t) = Len(u) + e /\ \A p \in 1..s : t[p] = u[p]
      /\ \A p \in b2..Len(u) : t[p + e] = u[p]
  <2>0. s \in Nat /\ Len(u) \in Nat /\ s <= Len(u) /\ Len(access) \in Nat
    BY <1>1, <1>4
  <2>1. s \in Nat /\ b2 \in Nat /\ s < b2 /\ b2 <= Len(u) + 1 /\ e \in Int /\ e = s + Len(access) + 1 - b2
    BY <2>0
  <2>2. t = Splice(u, s, access, b2)
    BY <1>6
  <2> HIDE DEF b2, e
  <2>3. u \in Seq(A!Cells)
    BY <1>3
  <2>4. t \in Seq(A!Cells) /\ Moves(u, t, s, b2, e)
    BY <2>1, <2>2, <2>3, SpliceFacts
  <2> QED
    BY <2>4 DEF Moves
<1>8. Len(t) = n + (Len(result) + Len(access) - 1)
  BY <1>1, <1>3, <1>7
<1>9. \A p \in 1..s : t[p] = c[p]
  BY <1>3, <1>7, SMTT(30)
<1>10. ASSUME NEW p \in s + 3..n PROVE t[p + (Len(result) + Len(access) - 1)] = c[p]
  <2>1. t[(p + d) + e] = u[p + d]
    BY <1>4, <1>7
  <2>2. (p + d) + e = p + (Len(result) + Len(access) - 1)
    BY <1>1
  <2> QED
    BY <1>4, <2>1, <2>2
<1> QED
  BY <1>7, <1>8, <1>9, <1>10 DEF n, Moves

\* A text that goes on keeps what it has.
LEMMA Longer ==
    ASSUME NEW S, NEW t \in Seq(S), NEW x \in Seq(S)
    PROVE  /\ t \o x \in Seq(S) /\ Len(t \o x) = Len(t) + Len(x)
           /\ \A p \in 1..Len(t) : (t \o x)[p] = t[p]
           /\ \A k \in 1..Len(x) : (t \o x)[Len(t) + k] = x[k]
<1> DEFINE z == t \o x
<1>1. z \in Seq(S) /\ Len(z) = Len(t) + Len(x) /\ Len(t) \in Nat /\ Len(x) \in Nat
  BY ConcatProperties, LenProperties
<1>2. \A i \in 1..Len(t) + Len(x) : z[i] = IF i <= Len(t) THEN t[i] ELSE x[i - Len(t)]
  BY ConcatProperties
<1> HIDE DEF z
<1>3. \A p \in 1..Len(t) : z[p] = t[p]
  BY <1>1, <1>2
<1>4. ASSUME NEW k \in 1..Len(x) PROVE z[Len(t) + k] = x[k]
  <2>1. Len(t) + k \in 1..Len(t) + Len(x) /\ ~(Len(t) + k <= Len(t)) /\ (Len(t) + k) - Len(t) = k
    BY <1>1
  <2> QED
    BY <1>2, <2>1
<1> QED
  BY <1>1, <1>3, <1>4 DEF z

Ends(t, block) ==
    Len(block) <= Len(t) /\ \A k \in 1..Len(block) : t[(Len(t) - Len(block)) + k] = block[k]

\* t keeps what stands before a visible cell of text, in its first m cells.
KeepsVisible(text, t, m) ==
    \A p \in 1..Len(text) : text[p] # A!Space => \A r \in 1..p : r <= m /\ t[r] = text[r]

\* appendToolBlock: nothing that stands before a visible cell is lost, and the
\* block is the end of the text.
LEMMA BlockText ==
    ASSUME NEW text \in Seq(A!Cells), NEW block \in Seq(A!Cells), NEW t, t = appendToolBlock(text, block)
    PROVE  t \in Seq(A!Cells) /\ Ends(t, block) /\ KeepsVisible(text, t, Len(t) - Len(block))
<1> DEFINE I == {k \in 1..Len(text) : text[k] # A!Space}
           last == SelectLastInSeq(text, LAMBDA c : c # A!Space)
           before == SubSeq(text, 1, last)
           n == Len(block)
<1>1. Len(text) \in Nat /\ n \in Nat /\ \A k \in 1..Len(text) : text[k] \in A!Cells
  BY LenProperties, ElementOfSeq
<1>2. last \in 0..Len(text) /\ \A p \in I : p <= last
  <2>1. CASE I = {}
    BY <1>1, <2>1 DEF SelectLastInSeq
  <2>2. CASE I # {}
    <3> DEFINE m == Max(I)
    <3>1. I \in SUBSET Nat /\ \A p \in I : p <= Len(text)
      BY <1>1
    <3>2. m \in I /\ \A p \in I : m >= p
      BY <1>1, <2>2, <3>1, MaxFacts
    <3>3. last = m
      BY <2>2 DEF SelectLastInSeq
    <3> HIDE DEF last, m
    <3> QED
      BY <1>1, <3>1, <3>2, <3>3
  <2> QED
    BY <2>1, <2>2
<1> HIDE DEF last
<1>3. before \in Seq(A!Cells) /\ Len(before) = last /\ \A p \in 1..last : before[p] = text[p]
  <2>1. 1 \in Int /\ last \in Int /\ \A i \in 1..last : text[i] \in A!Cells
    BY <1>1, <1>2
  <2>2. /\ before \in Seq(A!Cells) /\ Len(before) = IF 1 <= last THEN last - 1 + 1 ELSE 0
        /\ \A i \in 1..last - 1 + 1 : before[i] = text[1 + i - 1]
    BY <2>1, SubSeqProperties
  <2> HIDE DEF before
  <2> QED
    BY <1>1, <1>2, <2>2
<1> HIDE DEF before, n
<1>4. ASSUME NEW p \in 1..Len(text), text[p] # A!Space, NEW r \in 1..p PROVE r \in 1..last
  <2>1. p <= last
    BY <1>2, <1>4
  <2> QED
    BY <1>1, <1>2, <2>1
<1>5. CASE before = <<>>
  <2>1. t = block
    BY <1>5 DEF appendToolBlock, before, last
  <2>2. last = 0
    BY <1>3, <1>5
  <2>3. \A p \in 1..Len(text) : text[p] = A!Space
    BY <1>1, <1>4, <2>2
  <2> QED
    BY <1>1, <2>1, <2>3 DEF n, Ends, KeepsVisible
<1>6. CASE before # <<>>
  <2> DEFINE u == before \o <<A!Space>>
  <2>1. t = u \o block
    BY <1>6 DEF appendToolBlock, before, last
  <2>2. <<A!Space>> \in Seq(A!Cells)
    BY CellFacts
  <2>3. u \in Seq(A!Cells) /\ \A p \in 1..Len(before) : u[p] = before[p]
    BY <1>3, <2>2, Longer
  <2>4. Len(u) = last + 1
    BY <1>3, <2>2, Longer
  <2> HIDE DEF u
  <2>5. t \in Seq(A!Cells) /\ Len(t) = Len(u) + n
    BY <2>1, <2>3, Longer DEF n
  <2>6. \A p \in 1..Len(u) : t[p] = u[p]
    BY <2>1, <2>3, Longer
  <2>7. \A k \in 1..n : t[Len(u) + k] = block[k]
    BY <2>1, <2>3, Longer DEF n
  <2>8. Len(t) - n = Len(u) /\ n <= Len(t)
    BY <1>1, <1>2, <2>4, <2>5
  <2>9. \A r \in 1..last : r <= Len(t) - n /\ t[r] = text[r]
    <3> SUFFICES ASSUME NEW r \in 1..last PROVE r <= Len(t) - n /\ t[r] = text[r]
      OBVIOUS
    <3>1. r \in 1..Len(u) /\ r <= Len(u)
      BY <1>2, <2>4
    <3> QED
      BY <1>3, <2>3, <2>6, <2>8, <3>1
  <2> QED
    BY <1>4, <2>5, <2>7, <2>8, <2>9 DEF n, Ends, KeepsVisible
<1> QED
  BY <1>5, <1>6

\* The block of a new call: its result goes to the third cell, whatever the
\* arguments say.
LEMMA NewBlock ==
    ASSUME NEW i \in Nat, NEW arg \in Letters, NEW block, block = buildToolCallBlock(i, arg)
    PROVE  /\ block \in Seq(A!Cells) /\ Len(block) = 5
           /\ block[1] = A!Summary(i) /\ block[2] = A!Letter(arg) /\ block[3] = A!Placeholder /\ block[4] = A!Foot(i)
           /\ i # 0 => SelectLastInSeq(block, LAMBDA c : c = A!Placeholder) = 3
<1> DEFINE I == {k \in 1..5 : block[k] = A!Placeholder}
           m == Max(I)
<1>0. /\ A!Summary(i) \in A!Cells /\ A!Letter(arg) \in A!Cells /\ A!Placeholder \in A!Cells
      /\ A!Foot(i) \in A!Cells /\ A!Space \in A!Cells
  BY CellFacts
<1>1. /\ block \in Seq(A!Cells) /\ Len(block) = 5 /\ block[1] = A!Summary(i) /\ block[2] = A!Letter(arg)
      /\ block[3] = A!Placeholder /\ block[4] = A!Foot(i) /\ block[5] = A!Space
  BY <1>0 DEF buildToolCallBlock
<1>2. ASSUME i # 0 PROVE SelectLastInSeq(block, LAMBDA c : c = A!Placeholder) = 3
  <2>1. 3 \in I /\ 4 \notin I /\ 5 \notin I
    BY <1>1, <1>2, CellsApart
  <2>2. I \in SUBSET Nat /\ I # {} /\ \A k \in I : k <= 5
    BY <2>1
  <2>3. m \in I /\ \A k \in I : m >= k
    BY <2>2, MaxFacts
  <2>4. SelectLastInSeq(block, LAMBDA c : c = A!Placeholder) = m
    BY <1>1, <2>2 DEF SelectLastInSeq
  <2>5. I \subseteq 1..5
    OBVIOUS
  <2> HIDE DEF I, m
  <2>6. m = 3
    BY <2>1, <2>3, <2>5
  <2> QED
    BY <2>4, <2>6
<1> QED
  BY <1>1, <1>2

-----------------------------------------------------------------------------
(* The inductive invariant.                                                *)

\* The types, without the bounds on the positions, which follow from Home.
Types ==
    /\ status \in {"idle", "streaming", "completed", "aborted", "error"}
    /\ session \in Sessions \cup {None}
    /\ content \in Seq(A!Cells) /\ queue \in Seq(A!Cells)
    /\ failedTurns \in Seq(Seq(A!Cells))
    /\ toolCalls \in Seq([function : Tools, approval : 0 .. MaxCalls])
    /\ blocks \in Seq([start : Nat, resultAt : Nat])
    /\ Len(blocks) = Len(toolCalls) /\ Len(toolCalls) <= MaxCalls
    /\ timer \in BOOLEAN /\ pending \in BOOLEAN /\ reading \in BOOLEAN /\ over \in BOOLEAN
    /\ parked \subseteq 1 .. Len(toolCalls)
    /\ turns \in 0 .. MaxTurns /\ events \in 0 .. MaxEvents

\* Block i is in text c where b says: its head, also once its outcome is in,
\* and while it waits for one the cell of its arguments, its placeholder and
\* its foot right after it.
Home(c, i, b) ==
    /\ b.start \in 1..Len(c) /\ c[b.start] = A!Summary(i)
    /\ b.resultAt # 0 =>
         /\ b.resultAt = b.start + 2 /\ b.start + 3 <= Len(c)
         /\ \E l : c[b.start + 1] = A!Letter(l)
         /\ c[b.start + 2] = A!Placeholder /\ c[b.start + 3] = A!Foot(i)

BlocksHome == \A i \in 1..Len(blocks) : Home(content, i, blocks[i])

\* A card is of a call of the same tool that waits for approval; a call that
\* waits has one, and no two cards are of the same call.
Cards ==
    /\ \A c \in 1..Len(toolCalls) : toolCalls[c].approval # 0 =>
         toolCalls[c].approval \in parked /\ toolCalls[toolCalls[c].approval].function = toolCalls[c].function
    /\ \A c, d \in 1..Len(toolCalls) : toolCalls[c].approval # 0 /\ toolCalls[c].approval = toolCalls[d].approval => c = d
    /\ \A i \in parked : \E c \in 1..Len(toolCalls) : toolCalls[c].approval = i

CInv == Types /\ Typing /\ BlocksHome /\ Cards

\* A block stays where it is in a text that keeps the cells up to its end.
LEMMA HomeKept ==
    ASSUME NEW c, NEW t, NEW i, NEW b \in [start : Nat, resultAt : Nat], Home(c, i, b), NEW m \in Nat,
           Len(c) \in Nat, Len(t) \in Nat, m <= Len(t), \A p \in 1..m : t[p] = c[p],
           b.start <= m, b.resultAt # 0 => b.start + 3 <= m
    PROVE  Home(t, i, b)
<1>1. b.start \in Nat /\ b.resultAt \in Nat /\ b.start \in 1..Len(c) /\ c[b.start] = A!Summary(i)
  BY DEF Home
<1>2. b.start \in 1..Len(t) /\ t[b.start] = A!Summary(i)
  BY <1>1
<1>3. ASSUME b.resultAt # 0
      PROVE  /\ b.resultAt = b.start + 2 /\ b.start + 3 <= Len(t) /\ \E l : t[b.start + 1] = A!Letter(l)
             /\ t[b.start + 2] = A!Placeholder /\ t[b.start + 3] = A!Foot(i)
  <2>1. b.start + 3 <= m /\ b.start + 1 \in 1..m /\ b.start + 2 \in 1..m /\ b.start + 3 \in 1..m /\ b.start + 3 <= Len(t)
    BY <1>1, <1>3
  <2>2. t[b.start + 1] = c[b.start + 1] /\ t[b.start + 2] = c[b.start + 2] /\ t[b.start + 3] = c[b.start + 3]
    BY <2>1
  <2> QED
    BY <1>3, <2>1, <2>2 DEF Home
<1> QED
  BY <1>2, <1>3 DEF Home

LEMMA CellsOfBlock ==
    \A s, m, n, d \in Nat : m <= s /\ s + 3 <= n =>
      /\ s + 1 \in m..n /\ s + 2 \in m..n /\ s + 3 \in m..n
      /\ (s + 1) + d = (s + d) + 1 /\ (s + 2) + d = (s + d) + 2 /\ (s + 3) + d = (s + d) + 3
      /\ (s + d) + 3 <= n + d
  OBVIOUS

\* A block moves with a text that moves its cells.
LEMMA HomeMoved ==
    ASSUME NEW c, NEW t, NEW i, NEW b \in [start : Nat, resultAt : Nat], Home(c, i, b), NEW m \in Nat, NEW d \in Nat,
           Len(c) \in Nat, NEW a, Moves(c, t, a, m, d), m <= b.start,
           NEW e, e = [start |-> b.start + d, resultAt |-> IF b.resultAt = 0 THEN 0 ELSE b.resultAt + d]
    PROVE  Home(t, i, e) /\ e \in [start : Nat, resultAt : Nat]
<1>1. b.start \in Nat /\ b.resultAt \in Nat /\ b.start \in 1..Len(c) /\ c[b.start] = A!Summary(i)
  BY DEF Home
<1>2. /\ e.start = b.start + d /\ e.resultAt = IF b.resultAt = 0 THEN 0 ELSE b.resultAt + d
      /\ Len(t) = Len(c) + d /\ \A p \in m..Len(c) : t[p + d] = c[p]
  BY DEF Moves
<1>3. e \in [start : Nat, resultAt : Nat] /\ e.start \in Nat /\ e.resultAt \in Nat
  BY <1>1
<1>4. e.start \in 1..Len(t) /\ t[e.start] = A!Summary(i)
  BY <1>1, <1>2
<1>5. ASSUME e.resultAt # 0
      PROVE  /\ e.resultAt = e.start + 2 /\ e.start + 3 <= Len(t) /\ \E l : t[e.start + 1] = A!Letter(l)
             /\ t[e.start + 2] = A!Placeholder /\ t[e.start + 3] = A!Foot(i)
  <2>1. b.resultAt # 0
    BY <1>2, <1>5
  <2>2. b.resultAt = b.start + 2 /\ b.start + 3 <= Len(c)
    BY <2>1 DEF Home
  <2>3. /\ b.start + 1 \in m..Len(c) /\ b.start + 2 \in m..Len(c) /\ b.start + 3 \in m..Len(c)
        /\ (b.start + 1) + d = (b.start + d) + 1 /\ (b.start + 2) + d = (b.start + d) + 2
        /\ (b.start + 3) + d = (b.start + d) + 3 /\ (b.start + d) + 3 <= Len(c) + d
    <3> DEFINE s == b.start
               n == Len(c)
    <3>1. s \in Nat /\ m \in Nat /\ n \in Nat /\ d \in Nat /\ m <= s /\ s + 3 <= n
      BY <1>1, <2>2
    <3> HIDE DEF s, n
    <3>2. /\ s + 1 \in m..n /\ s + 2 \in m..n /\ s + 3 \in m..n
          /\ (s + 1) + d = (s + d) + 1 /\ (s + 2) + d = (s + d) + 2 /\ (s + 3) + d = (s + d) + 3
          /\ (s + d) + 3 <= n + d
      BY <3>1, CellsOfBlock
    <3> QED
      BY <3>2 DEF s, n
  <2>4. t[(b.start + 1) + d] = c[b.start + 1] /\ t[(b.start + 2) + d] = c[b.start + 2] /\ t[(b.start + 3) + d] = c[b.start + 3]
    BY <1>2, <2>3
  <2>5. /\ (b.start + 1) + d = e.start + 1 /\ (b.start + 2) + d = e.start + 2 /\ (b.start + 3) + d = e.start + 3
        /\ e.resultAt = e.start + 2 /\ e.start + 3 <= Len(t)
    BY <1>2, <2>1, <2>2, <2>3
  <2> QED
    BY <2>1, <2>4, <2>5 DEF Home
<1> QED
  BY <1>3, <1>4, <1>5 DEF Home

\* Text that is typed or flushed goes below the blocks.
LEMMA HomeBelow ==
    ASSUME Types, BlocksHome, NEW x \in Seq(A!Cells), NEW t, t = content \o x
    PROVE  t \in Seq(A!Cells) /\ \A i \in 1..Len(blocks) : Home(t, i, blocks[i])
<1>1. content \in Seq(A!Cells) /\ blocks \in Seq([start : Nat, resultAt : Nat]) /\ Len(content) \in Nat /\ Len(x) \in Nat
  BY LenProperties DEF Types
<1>2. t \in Seq(A!Cells) /\ Len(t) = Len(content) + Len(x)
  BY <1>1, Longer
<1>3. \A p \in 1..Len(content) : t[p] = content[p]
  BY <1>1, Longer
<1>4. ASSUME NEW i \in 1..Len(blocks) PROVE Home(t, i, blocks[i])
  <2> DEFINE b == blocks[i]
  <2>1. b \in [start : Nat, resultAt : Nat] /\ Home(content, i, b)
    BY <1>1, ElementOfSeq DEF BlocksHome
  <2> HIDE DEF b
  <2>2. b.start <= Len(content) /\ (b.resultAt # 0 => b.start + 3 <= Len(content))
    BY <1>1, <2>1 DEF Home
  <2>3. Len(t) \in Nat /\ Len(content) <= Len(t)
    BY <1>1, <1>2
  <2>4. Home(t, i, b)
    BY <1>1, <1>3, <2>1, <2>2, <2>3, HomeKept
  <2> QED
    BY <2>4 DEF b
<1> QED
  BY <1>2, <1>4

\* The outcome of one block leaves every block where _toolBlocks says.
LEMMA OutcomeHome ==
    ASSUME Types, BlocksHome, NEW i \in 1..Len(blocks), blocks[i].resultAt # 0,
           NEW result \in Seq(A!Cells), result # <<>>, NEW access \in Seq(A!Cells), _withToolOutcome(i, result, access)
    PROVE  /\ content' \in Seq(A!Cells) /\ blocks' \in Seq([start : Nat, resultAt : Nat]) /\ Len(blocks') = Len(blocks)
           /\ BlocksHome'
<1> DEFINE b == blocks[i]
           s == b.start
           filled == withToolAccess(withToolResult(content, b.resultAt, result), s, access)
           grew == Len(filled) - Len(content)
           Moved(o) == [start |-> o.start + grew, resultAt |-> IF o.resultAt = 0 THEN 0 ELSE o.resultAt + grew]
           n == Len(content)
           d == Len(result) + Len(access) - 1
<1>1. /\ content \in Seq(A!Cells) /\ n \in Nat /\ blocks \in Seq([start : Nat, resultAt : Nat]) /\ Len(blocks) \in Nat
      /\ DOMAIN blocks = 1..Len(blocks)
  BY LenProperties DEF Types
<1>2. \A j \in 1..Len(blocks) : blocks[j] \in [start : Nat, resultAt : Nat] /\ Home(content, j, blocks[j])
  BY <1>1, ElementOfSeq DEF BlocksHome
<1>3. content' = filled
  BY DEF _withToolOutcome
<1>4. blocks' = [j \in DOMAIN blocks |->
                   IF j = i THEN [b EXCEPT !.resultAt = 0]
                   ELSE IF blocks[j].start < s THEN blocks[j] ELSE Moved(blocks[j])]
  BY DEF _withToolOutcome
<1>5. /\ b \in [start : Nat, resultAt : Nat] /\ s \in Nat \ {0} /\ b.resultAt = s + 2 /\ s + 3 <= n
      /\ content[s] = A!Summary(i) /\ (\E l : content[s + 1] = A!Letter(l))
      /\ content[s + 2] = A!Placeholder /\ content[s + 3] = A!Foot(i)
  BY <1>2, SMTT(30) DEF Home
<1>6. d \in Nat
  <2>1. Len(result) \in Nat /\ Len(access) \in Nat /\ Len(result) # 0
    BY LenProperties, EmptySeq
  <2> QED
    BY <2>1
<1> HIDE DEF b, s, d
<1>7. /\ filled \in Seq(A!Cells) /\ Len(filled) = n + d
      /\ \A p \in 1..s : filled[p] = content[p]
      /\ \A p \in s + 3..n : filled[p + d] = content[p]
  <2> DEFINE foot == s + 3
             at == b.resultAt
  <2>1. /\ i \in Nat /\ s \in Nat \ {0} /\ s + 3 <= Len(content) /\ content \in Seq(A!Cells) /\ at = s + 2 /\ foot = s + 3
        /\ content[s] = A!Summary(i) /\ content[s + 2] = A!Placeholder
        /\ filled = withToolAccess(withToolResult(content, at, result), s, access)
    BY <1>1, <1>5
  <2> HIDE DEF filled, foot, at
  <2>2. d = Len(result) + Len(access) - 1
    BY DEF d
  <2>3. filled \in Seq(A!Cells) /\ Moves(content, filled, s, foot, d)
    BY <2>1, <2>2, OutcomeText
  <2> QED
    BY <2>3 DEF foot, Moves
<1> HIDE DEF filled
<1>8. grew = d /\ Len(filled) \in Nat
  BY <1>1, <1>6, <1>7
<1> HIDE DEF n, grew
<1>9. ASSUME NEW j \in 1..Len(blocks)
      PROVE  blocks'[j] \in [start : Nat, resultAt : Nat] /\ Home(filled, j, blocks'[j])
  <2> DEFINE o == blocks[j]
             e == blocks'[j]
  <2>0. o \in [start : Nat, resultAt : Nat] /\ Home(content, j, o) /\ j \in Nat \ {0}
    BY <1>1, <1>2
  <2>1. CASE j = i
    <3>1. e = [b EXCEPT !.resultAt = 0]
      BY <1>1, <1>4, <2>1
    <3>2. e.start = s /\ e.resultAt = 0 /\ e \in [start : Nat, resultAt : Nat]
      BY <1>5, <3>1 DEF s
    <3>3. s \in 1..Len(filled) /\ s \in 1..s
      BY <1>1, <1>5, <1>6, <1>7
    <3>4. filled[s] = A!Summary(j)
      BY <1>5, <1>7, <2>1, <3>3
    <3> HIDE DEF e
    <3>5. Home(filled, j, e)
      BY <3>2, <3>3, <3>4 DEF Home
    <3> QED
      BY <3>2, <3>5 DEF e
  <2>2. CASE j # i /\ o.start < s
    <3>1. e = o
      BY <1>1, <1>4, <2>2
    <3>2. o.resultAt # 0 => o.start + 3 <= s
      <4> SUFFICES ASSUME o.resultAt # 0 PROVE o.start + 3 <= s
        OBVIOUS
      <4> DEFINE k == o.start
      <4>1. (\E l : content[k + 1] = A!Letter(l)) /\ content[k + 2] = A!Placeholder /\ content[k + 3] = A!Foot(j) /\ k \in Nat
        BY <2>0 DEF Home
      <4> HIDE DEF k
      <4>2. s # k + 1 /\ s # k + 2
        <5>1. i \in Nat \ {0}
          BY <1>1
        <5> QED
          BY <1>5, <4>1, <5>1, CellsApart
      <4>3. k < s /\ s \in Nat
        BY <1>5, <2>2 DEF k
      <4>4. k + 3 <= s
        BY <4>1, <4>2, <4>3
      <4> QED
        BY <4>4 DEF k
    <3>3. o.start <= s /\ s \in Nat /\ s <= Len(filled) /\ Len(content) \in Nat /\ Len(filled) \in Nat
      <4>1. n \in Nat /\ s \in Nat /\ d \in Nat /\ s + 3 <= n /\ Len(filled) = n + d /\ o.start \in Nat /\ o.start < s
        BY <1>1, <1>5, <1>6, <1>7, <2>0, <2>2
      <4> QED
        BY <4>1 DEF n
    <3> HIDE DEF o
    <3>4. Home(filled, j, o)
      BY <1>7, <2>0, <3>2, <3>3, HomeKept
    <3> QED
      BY <2>0, <3>1, <3>4
  <2>3. CASE j # i /\ ~(o.start < s)
    <3>1. e = [start |-> o.start + d, resultAt |-> IF o.resultAt = 0 THEN 0 ELSE o.resultAt + d]
      BY <1>1, <1>4, <1>8, <2>3
    <3>2. s + 3 <= o.start
      <4> DEFINE k == o.start
      <4>1. k \in Nat /\ content[k] = A!Summary(j)
        BY <2>0 DEF Home
      <4> HIDE DEF k
      <4>2. k # s /\ k # s + 1 /\ k # s + 2
        BY <1>5, <2>0, <2>3, <4>1, CellsApart
      <4>3. ~(k < s) /\ s \in Nat
        BY <1>5, <2>3 DEF k
      <4>4. s + 3 <= k
        BY <4>1, <4>2, <4>3
      <4> QED
        BY <4>4 DEF k
    <3>3. s + 3 \in Nat /\ d \in Nat /\ Len(content) \in Nat /\ Len(filled) = Len(content) + d
      BY <1>1, <1>5, <1>6, <1>7 DEF n
    <3>4. \A p \in s + 3..Len(content) : filled[p + d] = content[p]
      BY <1>7 DEF n
    <3> DEFINE m == s + 3
    <3>5. m \in Nat /\ m <= o.start /\ Moves(content, filled, s, m, d)
      BY <1>7, <3>2, <3>3, <3>4 DEF Moves
    <3> HIDE DEF o, e, m
    <3>6. Home(filled, j, e) /\ e \in [start : Nat, resultAt : Nat]
      BY <2>0, <3>1, <3>3, <3>5, HomeMoved
    <3> QED
      BY <3>6 DEF e
  <2> QED
    BY <2>1, <2>2, <2>3
<1>10. blocks' \in Seq([start : Nat, resultAt : Nat]) /\ Len(blocks') = Len(blocks)
  <2>1. blocks' \in [1..Len(blocks) -> [start : Nat, resultAt : Nat]]
    BY <1>1, <1>4, <1>9
  <2> QED
    BY <1>1, <2>1, SMTT(30)
<1> QED
  BY <1>3, <1>7, <1>9, <1>10 DEF BlocksHome

\* The block of a new call is where its entry says, and the older ones stay.
LEMMA CallHome ==
    ASSUME Types, BlocksHome, NEW f \in Tools, NEW arg \in Arguments, CallCame(f, arg)
    PROVE  /\ content' \in Seq(A!Cells) /\ blocks' \in Seq([start : Nat, resultAt : Nat])
           /\ Len(blocks') = Len(blocks) + 1 /\ BlocksHome'
<1> DEFINE i == Len(toolCalls) + 1
           block == buildToolCallBlock(i, arg)
           text == Flushed
           t == appendToolBlock(text, block)
           at == Len(t) - Len(block)
           e == [start |-> at + 1, resultAt |-> at + SelectLastInSeq(block, LAMBDA c : c = A!Placeholder)]
<1>1. content' = t /\ blocks' = Append(blocks, e)
  BY DEF CallCame
<1>2. /\ i \in Nat \ {0} /\ i = Len(blocks) + 1 /\ arg \in Letters /\ blocks \in Seq([start : Nat, resultAt : Nat])
      /\ Len(blocks) \in Nat
  BY LenProperties, ChatAssumption DEF Types
<1>3. /\ block \in Seq(A!Cells) /\ Len(block) = 5 /\ block[1] = A!Summary(i) /\ block[2] = A!Letter(arg)
      /\ block[3] = A!Placeholder /\ block[4] = A!Foot(i)
  BY <1>2, NewBlock
<1>4. SelectLastInSeq(block, LAMBDA c : c = A!Placeholder) = 3
  BY <1>2, NewBlock
<1>5. e = [start |-> at + 1, resultAt |-> at + 3]
  BY <1>4
<1> HIDE DEF i, block, e
<1>6. text \in Seq(A!Cells) /\ \A j \in 1..Len(blocks) : Home(text, j, blocks[j])
  BY HomeBelow DEF Types, Flushed
<1> HIDE DEF text
<1>7. t \in Seq(A!Cells) /\ Ends(t, block) /\ KeepsVisible(text, t, Len(t) - Len(block))
  BY <1>3, <1>6, BlockText
<1>8. Len(block) <= Len(t) /\ \A k \in 1..Len(block) : t[(Len(t) - Len(block)) + k] = block[k]
  BY <1>7 DEF Ends
<1>9. \A p \in 1..Len(text) : text[p] # A!Space => \A r \in 1..p : r <= Len(t) - Len(block) /\ t[r] = text[r]
  BY <1>7 DEF KeepsVisible
<1> HIDE DEF t
<1>10. Len(t) \in Nat /\ at \in Nat /\ at + 5 = Len(t)
  <2>1. Len(t) \in Nat
    BY <1>7, LenProperties
  <2> QED
    BY <1>3, <1>8, <2>1
<1> HIDE DEF at
<1>11. t[at + 1] = A!Summary(i) /\ t[at + 2] = A!Letter(arg) /\ t[at + 3] = A!Placeholder /\ t[at + 4] = A!Foot(i)
  <2>1. 1 \in 1..Len(block) /\ 2 \in 1..Len(block) /\ 3 \in 1..Len(block) /\ 4 \in 1..Len(block)
    BY <1>3
  <2> QED
    BY <1>3, <1>8, <2>1 DEF at
<1>12. e \in [start : Nat, resultAt : Nat] /\ e.start = at + 1 /\ e.resultAt = at + 3
  BY <1>5, <1>10
<1>13. Home(t, i, e)
  <2>1. e.start \in 1..Len(t) /\ e.resultAt = e.start + 2 /\ e.start + 3 <= Len(t)
        /\ e.start + 1 = at + 2 /\ e.start + 2 = at + 3 /\ e.start + 3 = at + 4
    BY <1>10, <1>12
  <2> QED
    BY <1>11, <1>12, <2>1 DEF Home
<1>14. ASSUME NEW j \in 1..Len(blocks) PROVE Home(t, j, blocks[j])
  <2> DEFINE b == blocks[j]
  <2>1. b \in [start : Nat, resultAt : Nat] /\ Home(text, j, b) /\ j \in Nat \ {0}
    <3>1. b \in [start : Nat, resultAt : Nat]
      BY <1>2, ElementOfSeq
    <3>2. Home(text, j, b) /\ j \in Nat \ {0}
      BY <1>2, <1>6
    <3> QED
      BY <3>1, <3>2
  <2> HIDE DEF b
  <2>2. PICK m \in 1..Len(text) : text[m] # A!Space /\ b.start <= m /\ (b.resultAt # 0 => b.start + 3 <= m)
    <3>0. Len(text) \in Nat /\ b.start \in Nat
      BY <1>6, <2>1, LenProperties
    <3>1. CASE b.resultAt = 0
      <4>1. b.start \in 1..Len(text) /\ text[b.start] # A!Space /\ b.start <= b.start
        BY <2>1, <3>0, CellsApart DEF Home
      <4> QED
        BY <3>1, <4>1
    <3>2. CASE b.resultAt # 0
      <4>1. b.start + 3 <= Len(text) /\ text[b.start + 3] # A!Space
        BY <2>1, <3>2, CellsApart DEF Home
      <4>2. b.start + 3 \in 1..Len(text) /\ b.start <= b.start + 3 /\ b.start + 3 <= b.start + 3
        BY <3>0, <4>1
      <4> QED
        BY <4>1, <4>2
    <3> QED
      BY <3>1, <3>2
  <2>3. m \in Nat /\ m \in 1..m /\ Len(text) \in Nat
    BY <1>6, LenProperties
  <2>4. (\A p \in 1..m : t[p] = text[p]) /\ m <= at
    BY <1>9, <2>2, <2>3 DEF at
  <2>5. m <= Len(t)
    BY <1>10, <2>3, <2>4
  <2>6. Home(t, j, b)
    BY <1>10, <2>1, <2>2, <2>3, <2>4, <2>5, HomeKept
  <2> QED
    BY <2>6 DEF b
<1>15. /\ blocks' \in Seq([start : Nat, resultAt : Nat]) /\ Len(blocks') = Len(blocks) + 1
       /\ blocks'[Len(blocks) + 1] = e
       /\ \A j \in 1..Len(blocks) : blocks'[j] = blocks[j]
  BY <1>1, <1>2, <1>12, AppendProperties
<1>16. ASSUME NEW j \in 1..Len(blocks) + 1 PROVE Home(t, j, blocks'[j])
  <2>1. CASE j \in 1..Len(blocks)
    BY <1>14, <1>15, <2>1
  <2>2. CASE j = Len(blocks) + 1
    BY <1>2, <1>13, <1>15, <2>2
  <2> QED
    BY <1>2, <2>1, <2>2
<1>17. BlocksHome'
  BY <1>1, <1>15, <1>16 DEF BlocksHome
<1> QED
  BY <1>1, <1>7, <1>15, <1>17

-----------------------------------------------------------------------------
(* The cards.                                                              *)

\* A call of the tool is left for the card: the calls of the tool that have
\* one are as many as those that already wait, and this one does not yet.
LEMMA TargetFound ==
    ASSUME Types, Cards, NEW i \in 1..Len(toolCalls), i \notin parked, NEW t, t = ApprovalTarget(toolCalls[i].function)
    PROVE  t \in 1..Len(toolCalls) /\ toolCalls[t].function = toolCalls[i].function /\ toolCalls[t].approval = 0
<1> DEFINE n == Len(toolCalls)
           f == toolCalls[i].function
           F == {c \in 1..n : toolCalls[c].function = f}
           I == {c \in 1..n : toolCalls[c].function = f /\ toolCalls[c].approval = 0}
           m == Min(I)
<1>1. n \in Nat /\ i \in F /\ \A c \in 1..n : toolCalls[c].approval \in Nat
  <2>1. n \in Nat /\ \A c \in 1..n : toolCalls[c] \in [function : Tools, approval : 0..MaxCalls]
    BY LenProperties, ElementOfSeq DEF Types
  <2> QED
    BY <2>1
<1>2. I # {}
  <2> SUFFICES ASSUME I = {} PROVE FALSE
    OBVIOUS
  <2> DEFINE T == F \ {i}
             g == [c \in F |-> toolCalls[c].approval]
  <2>1. IsFiniteSet(F)
    <3>1. IsFiniteSet(1..n)
      BY <1>1, FS_Interval
    <3> QED
      BY <3>1, FS_Subset
  <2>2. /\ IsFiniteSet(T) /\ Cardinality(T) = Cardinality(F) - 1
        /\ Cardinality(F) \in Nat /\ Cardinality(T) \in Nat
    BY <1>1, <2>1, FS_RemoveElement, FS_CardinalityType
  <2>3. \A c \in F : g[c] \in parked /\ toolCalls[g[c]].function = f /\ g[c] # 0
    BY DEF Cards
  <2>4. parked \subseteq 1..n
    BY DEF Types
  <2>5. g \in [F -> T]
    BY <2>3, <2>4
  <2>6. Cardinality(T) < Cardinality(F)
    BY <2>2
  <2> HIDE DEF F, T, g
  <2>7. \E x, y \in F : x # y /\ g[x] = g[y]
    BY <2>1, <2>2, <2>5, <2>6, FS_PigeonHole
  <2>8. PICK x, y \in F : x # y /\ g[x] = g[y]
    BY <2>7
  <2>9. toolCalls[x].approval = toolCalls[y].approval /\ toolCalls[x].approval # 0 /\ x \in 1..n /\ y \in 1..n
    BY <2>3, <2>8 DEF g, F
  <2> QED
    BY <2>8, <2>9 DEF Cards
<1>3. m \in I
  <2>1. I \in SUBSET Nat
    OBVIOUS
  <2> QED
    BY <1>2, <2>1, MinFacts
<1>4. t = m
  BY <1>2 DEF ApprovalTarget, SelectInSeq
<1> HIDE DEF m
<1> QED
  BY <1>3, <1>4

LEMMA ApprovalCards ==
    ASSUME Types, Cards, NEW i \in 1..Len(toolCalls), ApprovalCame(i)
    PROVE  /\ Cards' /\ toolCalls' \in Seq([function : Tools, approval : 0..MaxCalls])
           /\ Len(toolCalls') = Len(toolCalls) /\ parked' \subseteq 1..Len(toolCalls)
<1> DEFINE n == Len(toolCalls)
           t == ApprovalTarget(toolCalls[i].function)
<1>1. i \notin parked /\ parked' = parked \cup {i}
  BY DEF ApprovalCame
<1>2. t \in 1..n /\ toolCalls[t].function = toolCalls[i].function /\ toolCalls[t].approval = 0
  BY <1>1, TargetFound
<1>3. n \in Nat /\ n <= MaxCalls /\ parked \subseteq 1..n /\ toolCalls \in Seq([function : Tools, approval : 0..MaxCalls]) /\ MaxCalls \in Nat
  BY LenProperties, ChatAssumption DEF Types
<1>4. \A c \in 1..n : toolCalls[c] \in [function : Tools, approval : 0..MaxCalls]
  BY <1>3, ElementOfSeq
<1>5. t # 0
  BY <1>2, <1>3
<1>6. toolCalls' = [toolCalls EXCEPT ![t].approval = i]
  BY <1>5 DEF ApprovalCame
<1> HIDE DEF t
<1>7. toolCalls \in [1..n -> [function : Tools, approval : 0..MaxCalls]] /\ DOMAIN toolCalls = 1..n
  BY <1>3, LenProperties
<1>8. i \in 0..MaxCalls /\ i # 0
  BY <1>3
<1>9. \A c \in 1..n : /\ toolCalls'[c].function = toolCalls[c].function
                      /\ toolCalls'[c].approval = IF c = t THEN i ELSE toolCalls[c].approval
                      /\ toolCalls'[c] \in [function : Tools, approval : 0..MaxCalls]
  <2> SUFFICES ASSUME NEW c \in 1..n
               PROVE  /\ toolCalls'[c].function = toolCalls[c].function
                      /\ toolCalls'[c].approval = IF c = t THEN i ELSE toolCalls[c].approval
                      /\ toolCalls'[c] \in [function : Tools, approval : 0..MaxCalls]
    OBVIOUS
  <2>1. CASE c = t
    <3>1. toolCalls'[c] = [toolCalls[c] EXCEPT !.approval = i]
      BY <1>6, <1>7, <2>1
    <3> QED
      BY <1>4, <1>8, <2>1, <3>1
  <2>2. CASE c # t
    <3>1. toolCalls'[c] = toolCalls[c]
      BY <1>6, <1>7, <2>2
    <3> QED
      BY <1>4, <2>2, <3>1
  <2> QED
    BY <2>1, <2>2
<1>10. toolCalls' \in Seq([function : Tools, approval : 0..MaxCalls]) /\ Len(toolCalls') = n
  <2>1. DOMAIN toolCalls' = 1..n /\ toolCalls' = [c \in 1..n |-> toolCalls'[c]]
    BY <1>6, <1>7
  <2>2. toolCalls' \in [1..n -> [function : Tools, approval : 0..MaxCalls]]
    BY <1>9, <2>1
  <2> QED
    BY <1>3, <2>2
<1>11. Cards'
  <2>1. ASSUME NEW c \in 1..n, toolCalls'[c].approval # 0
        PROVE  toolCalls'[c].approval \in parked' /\ toolCalls'[toolCalls'[c].approval].function = toolCalls'[c].function
    <3>1. CASE c = t
      BY <1>1, <1>2, <1>9, <3>1
    <3>2. CASE c # t
      <4>1. toolCalls[c].approval \in parked /\ toolCalls[toolCalls[c].approval].function = toolCalls[c].function
        BY <1>9, <2>1, <3>2 DEF Cards
      <4> QED
        BY <1>1, <1>3, <1>9, <3>2, <4>1
    <3> QED
      BY <3>1, <3>2
  <2>2. ASSUME NEW c \in 1..n, NEW d \in 1..n, toolCalls'[c].approval # 0, toolCalls'[c].approval = toolCalls'[d].approval
        PROVE  c = d
    <3>1. \A x \in 1..n : toolCalls[x].approval # i
      BY <1>1, <1>8 DEF Cards
    <3> QED
      BY <1>9, <2>2, <3>1 DEF Cards
  <2>3. ASSUME NEW k \in parked' PROVE \E c \in 1..n : toolCalls'[c].approval = k
    <3>1. CASE k = i
      BY <1>2, <1>9, <3>1
    <3>2. CASE k \in parked
      <4>1. PICK c \in 1..n : toolCalls[c].approval = k
        BY <3>2 DEF Cards
      <4>2. c # t
        BY <1>2, <1>3, <3>2, <4>1
      <4> QED
        BY <1>9, <4>1, <4>2
    <3> QED
      BY <1>1, <3>1, <3>2
  <2> QED
    BY <1>10, <2>1, <2>2, <2>3 DEF Cards
<1> QED
  BY <1>1, <1>3, <1>10, <1>11

-----------------------------------------------------------------------------
(* The steps.                                                              *)

LEMMA CInit == Init => CInv
<1> SUFFICES ASSUME Init PROVE CInv
  OBVIOUS
<1>1. Types
  <2>1. /\ <<>> \in Seq(A!Cells) /\ <<>> \in Seq(Seq(A!Cells)) /\ <<>> \in Seq([start : Nat, resultAt : Nat])
        /\ <<>> \in Seq([function : Tools, approval : 0..MaxCalls]) /\ Len(<<>>) = 0
    BY EmptySeq
  <2>2. 0 \in 0..MaxTurns /\ 0 \in 0..MaxEvents /\ 0 <= MaxCalls
    BY ChatAssumption
  <2> QED
    BY <2>1, <2>2 DEF Init, Types
<1>2. BlocksHome /\ Cards
  BY DEF Init, BlocksHome, Cards
<1> QED
  BY <1>1, <1>2, TypingInit DEF CInv

\* What the actions that leave the blocks, the calls and the text alone keep.
LEMMA HomeSame ==
    ASSUME BlocksHome, content' = content, blocks' = blocks
    PROVE  BlocksHome'
  BY DEF BlocksHome

LEMMA CardsSame ==
    ASSUME Cards, toolCalls' = toolCalls, parked' = parked
    PROVE  Cards'
  BY DEF Cards

LEMMA DrainInv ==
    ASSUME CInv, Drain
    PROVE  Types' /\ BlocksHome' /\ Cards'
<1>1. Types /\ BlocksHome /\ Cards /\ queue \in Seq(A!Cells) /\ content \in Seq(A!Cells)
  BY DEF CInv, Types
<1>2. /\ session' = session /\ failedTurns' = failedTurns /\ toolCalls' = toolCalls /\ blocks' = blocks /\ reading' = reading
      /\ parked' = parked /\ over' = over /\ turns' = turns /\ events' = events
  BY DEF Drain, ghosts
<1>3. CASE queue # <<>>
  <2> DEFINE n == Len(queue)
             k == Batch(n)
             x == SubSeq(queue, 1, k)
             y == SubSeq(queue, k + 1, n)
  <2>1. content' = content \o x /\ queue' = y /\ timer' = timer /\ pending' = pending /\ status' = status
    BY <1>3 DEF Drain
  <2>2. n \in Nat \ {0} /\ \A i \in 1..n : queue[i] \in A!Cells
    BY <1>1, <1>3, EmptySeq, ElementOfSeq
  <2>3. k \in 1..n
    <3> HIDE DEF n
    <3> QED
      BY <2>2 DEF Batch
  <2> HIDE DEF k, n
  <2>4. x \in Seq(A!Cells) /\ y \in Seq(A!Cells)
    <3>1. 1 \in Int /\ k \in Int /\ k + 1 \in Int /\ n \in Int
      BY <2>2, <2>3
    <3>2. (\A i \in 1..k : queue[i] \in A!Cells) /\ (\A i \in k + 1..n : queue[i] \in A!Cells)
      BY <2>2, <2>3
    <3>3. x \in Seq(A!Cells)
      BY <3>1, <3>2, SubSeqProperties
    <3>4. y \in Seq(A!Cells)
      BY <3>1, <3>2, SubSeqProperties
    <3> QED
      BY <3>3, <3>4
  <2> HIDE DEF x, y
  <2>5. content' \in Seq(A!Cells) /\ \A i \in 1..Len(blocks) : Home(content', i, blocks[i])
    BY <1>1, <2>1, <2>4, HomeBelow
  <2>6. Types'
    BY <1>1, <1>2, <2>1, <2>4, <2>5 DEF Types
  <2>7. BlocksHome'
    BY <1>2, <2>5 DEF BlocksHome
  <2> QED
    BY <1>1, <1>2, <2>6, <2>7, CardsSame
<1>4. CASE queue = <<>>
  <2>1. /\ content' = content /\ queue' = queue /\ timer' = FALSE /\ pending' = FALSE
        /\ status' = IF pending THEN "completed" ELSE status
    BY <1>4 DEF Drain
  <2>2. Types'
    BY <1>1, <1>2, <2>1 DEF Types
  <2> QED
    BY <1>1, <1>2, <2>1, <2>2, HomeSame, CardsSame
<1> QED
  BY <1>3, <1>4

LEMMA EndInv ==
    ASSUME CInv, NEW s \in {"aborted", "error"}, EndNow(s)
    PROVE  Types' /\ BlocksHome' /\ Cards'
<1>1. Types /\ BlocksHome /\ Cards /\ queue \in Seq(A!Cells)
  BY DEF CInv, Types
<1>2. /\ session' = session /\ failedTurns' = failedTurns /\ toolCalls' = toolCalls /\ blocks' = blocks
      /\ parked' = parked /\ over' = over /\ turns' = turns /\ events' = events
      /\ content' = content \o queue /\ queue' = <<>> /\ pending' = FALSE /\ reading' = FALSE /\ status' = s
  BY DEF EndNow, ghosts, Flushed, Flush
<1>3. timer' \in BOOLEAN
  BY DEF EndNow, Flush
<1>4. content' \in Seq(A!Cells) /\ \A i \in 1..Len(blocks) : Home(content', i, blocks[i])
  BY <1>1, <1>2, HomeBelow
<1>5. Types'
  <2>1. queue' \in Seq(A!Cells)
    BY <1>2, EmptySeq
  <2>2. status' \in {"idle", "streaming", "completed", "aborted", "error"}
    BY <1>2
  <2>3. pending' \in BOOLEAN /\ reading' \in BOOLEAN /\ over' \in BOOLEAN
    BY <1>1, <1>2, Zenon DEF Types
  <2> QED
    BY <1>1, <1>2, <1>3, <1>4, <2>1, <2>2, <2>3 DEF Types
<1>6. BlocksHome'
  BY <1>2, <1>4 DEF BlocksHome
<1> QED
  BY <1>1, <1>2, <1>5, <1>6, CardsSame

LEMMA StartInv ==
    ASSUME CInv, NEW s \in Sessions, Start(s)
    PROVE  Types' /\ BlocksHome' /\ Cards'
<1>1. Types
  BY DEF CInv
<1>2. /\ status' = "streaming" /\ session' = s /\ content' = <<>> /\ toolCalls' = <<>> /\ blocks' = <<>>
      /\ queue' = <<>> /\ timer' = FALSE /\ pending' = FALSE /\ reading' = TRUE /\ parked' = {} /\ over' = FALSE
      /\ events' = events /\ turns' = turns + 1 /\ turns < MaxTurns
  BY DEF Start
<1>3. failedTurns' \in Seq(Seq(A!Cells))
  <2>1. failedTurns' = FailedTurnsBefore(s) /\ failedTurns \in Seq(Seq(A!Cells)) /\ content \in Seq(A!Cells)
    BY <1>1 DEF Start, Types
  <2>2. Append(failedTurns, content) \in Seq(Seq(A!Cells)) /\ <<>> \in Seq(Seq(A!Cells))
    BY <2>1, AppendProperties, EmptySeq
  <2> QED
    BY <2>1, <2>2 DEF FailedTurnsBefore
<1>4. Types'
  <2>1. /\ <<>> \in Seq(A!Cells) /\ <<>> \in Seq([start : Nat, resultAt : Nat])
        /\ <<>> \in Seq([function : Tools, approval : 0..MaxCalls]) /\ Len(<<>>) = 0
    BY EmptySeq
  <2>2. turns' \in 0..MaxTurns /\ events' \in 0..MaxEvents /\ 0 <= MaxCalls
    BY <1>1, <1>2, ChatAssumption DEF Types
  <2> QED
    BY <1>1, <1>2, <1>3, <2>1, <2>2 DEF Types
<1>5. BlocksHome' /\ Cards'
  BY <1>2 DEF BlocksHome, Cards
<1> QED
  BY <1>4, <1>5

LEMMA TextInv ==
    ASSUME CInv, NEW chunk \in Chunks, TextCame(chunk)
    PROVE  Types' /\ BlocksHome' /\ Cards'
<1>1. Types /\ BlocksHome /\ Cards /\ queue \in Seq(A!Cells)
  BY DEF CInv, Types
<1> DEFINE x == [j \in DOMAIN chunk |-> A!Letter(chunk[j])]
<1>2. /\ session' = session /\ failedTurns' = failedTurns /\ toolCalls' = toolCalls /\ blocks' = blocks /\ reading' = reading
      /\ parked' = parked /\ over' = over /\ turns' = turns /\ events' = events + 1 /\ events < MaxEvents
      /\ content' = content /\ status' = status /\ pending' = pending /\ timer' = TRUE /\ queue' = queue \o x
  BY DEF TextCame, Event
<1>3. x \in Seq(A!Cells)
  <2>1. chunk \in Seq(Letters) /\ Len(chunk) \in Nat /\ DOMAIN chunk = 1..Len(chunk)
    BY ChatAssumption, LenProperties
  <2>2. \A j \in 1..Len(chunk) : A!Letter(chunk[j]) \in A!Cells
    BY <2>1, ElementOfSeq, CellFacts
  <2>3. x \in [1..Len(chunk) -> A!Cells]
    BY <2>1, <2>2
  <2> HIDE DEF x
  <2> QED
    BY <2>1, <2>3
<1> HIDE DEF x
<1>4. queue' \in Seq(A!Cells)
  BY <1>1, <1>2, <1>3, ConcatProperties
<1>5. events' \in 0..MaxEvents
  BY <1>1, <1>2, ChatAssumption DEF Types
<1>6. Types'
  BY <1>1, <1>2, <1>4, <1>5 DEF Types
<1> QED
  BY <1>1, <1>2, <1>6, HomeSame, CardsSame

LEMMA CallInv ==
    ASSUME CInv, NEW f \in Tools, NEW arg \in Arguments, CallCame(f, arg)
    PROVE  Types' /\ BlocksHome' /\ Cards'
<1>1. Types /\ BlocksHome /\ Cards
  BY DEF CInv
<1> DEFINE tc == [function |-> f, approval |-> 0]
           n == Len(toolCalls)
<1>2. /\ session' = session /\ failedTurns' = failedTurns /\ reading' = reading /\ parked' = parked /\ over' = over
      /\ turns' = turns /\ events' = events + 1 /\ events < MaxEvents /\ status' = status /\ pending' = pending
      /\ queue' = <<>> /\ toolCalls' = Append(toolCalls, tc) /\ n < MaxCalls
  BY DEF CallCame, Event, Flush
<1>3. timer' \in BOOLEAN
  BY DEF CallCame, Flush
<1>4. /\ content' \in Seq(A!Cells) /\ blocks' \in Seq([start : Nat, resultAt : Nat])
      /\ Len(blocks') = Len(blocks) + 1 /\ BlocksHome'
  BY <1>1, CallHome
<1>5. /\ toolCalls \in Seq([function : Tools, approval : 0..MaxCalls]) /\ n \in Nat /\ MaxCalls \in Nat /\ parked \subseteq 1..n
      /\ tc \in [function : Tools, approval : 0..MaxCalls] /\ Len(blocks) = n
  BY <1>1, LenProperties, ChatAssumption DEF Types
<1>6. /\ toolCalls' \in Seq([function : Tools, approval : 0..MaxCalls]) /\ Len(toolCalls') = n + 1
      /\ toolCalls'[n + 1] = tc
      /\ \A c \in 1..n : toolCalls'[c] = toolCalls[c]
  BY <1>2, <1>5, AppendProperties
<1>7. Types'
  <2>1. Len(toolCalls') <= MaxCalls /\ Len(blocks') = Len(toolCalls') /\ parked' \subseteq 1..Len(toolCalls')
    BY <1>2, <1>4, <1>5, <1>6
  <2>2. queue' \in Seq(A!Cells)
    BY <1>2
  <2> QED
    BY <1>1, <1>2, <1>3, <1>4, <1>6, <2>1, <2>2, ChatAssumption DEF Types
<1>8. Cards'
  <2>1. \A c \in 1..n + 1 : toolCalls'[c].approval # 0 => c \in 1..n
    BY <1>5, <1>6
  <2>2. \A c \in 1..n : toolCalls'[c].approval = toolCalls[c].approval /\ toolCalls'[c].function = toolCalls[c].function
    BY <1>6
  <2>3. ASSUME NEW c \in 1..n + 1, toolCalls'[c].approval # 0
        PROVE  toolCalls'[c].approval \in parked' /\ toolCalls'[toolCalls'[c].approval].function = toolCalls'[c].function
    <3>1. c \in 1..n /\ toolCalls[c].approval # 0 /\ toolCalls'[c].approval = toolCalls[c].approval
      BY <2>1, <2>2, <2>3
    <3>2. toolCalls[c].approval \in parked /\ toolCalls[toolCalls[c].approval].function = toolCalls[c].function
      BY <1>1, <3>1 DEF Cards
    <3> QED
      BY <1>2, <1>5, <2>2, <3>1, <3>2
  <2>4. \A c, d \in 1..n + 1 : toolCalls'[c].approval # 0 /\ toolCalls'[c].approval = toolCalls'[d].approval => c = d
    BY <1>1, <2>1, <2>2 DEF Cards
  <2>5. ASSUME NEW i \in parked' PROVE \E c \in 1..n + 1 : toolCalls'[c].approval = i
    <3>1. PICK c \in 1..n : toolCalls[c].approval = i
      BY <1>1, <1>2 DEF Cards
    <3>2. c \in 1..n + 1
      BY <1>5
    <3> QED
      BY <2>2, <3>1, <3>2
  <2> QED
    BY <1>6, <2>3, <2>4, <2>5 DEF Cards
<1> QED
  BY <1>4, <1>7, <1>8

LEMMA ApprovalInv ==
    ASSUME CInv, NEW i \in 1..Len(toolCalls), ApprovalCame(i)
    PROVE  Types' /\ BlocksHome' /\ Cards'
<1>1. Types /\ BlocksHome /\ Cards
  BY DEF CInv
<1>2. /\ session' = session /\ failedTurns' = failedTurns /\ reading' = reading /\ over' = over
      /\ turns' = turns /\ events' = events + 1 /\ events < MaxEvents /\ status' = status /\ pending' = pending
      /\ queue' = queue /\ content' = content /\ timer' = timer /\ blocks' = blocks
  BY DEF ApprovalCame, Event, typed
<1>3. Cards'
  BY <1>1, ApprovalCards
<1>4. /\ toolCalls' \in Seq([function : Tools, approval : 0..MaxCalls])
      /\ Len(toolCalls') = Len(toolCalls) /\ parked' \subseteq 1..Len(toolCalls)
  BY <1>1, ApprovalCards
<1>5. Types'
  BY <1>1, <1>2, <1>4, ChatAssumption DEF Types
<1> QED
  BY <1>1, <1>2, <1>3, <1>5, HomeSame

LEMMA ResultInv ==
    ASSUME CInv, NEW i \in 1..Len(toolCalls), NEW result \in {<<A!Result(i)>>, <<A!Result(i), A!Placeholder>>},
           NEW access \in {<<>>, <<A!Access(i)>>}, ResultCame(i, result, access)
    PROVE  Types' /\ BlocksHome' /\ Cards'
<1>1. Types /\ BlocksHome /\ Cards
  BY DEF CInv
<1>2. /\ session' = session /\ failedTurns' = failedTurns /\ toolCalls' = toolCalls /\ reading' = reading /\ parked' = parked
      /\ over' = over /\ turns' = turns /\ events' = events + 1 /\ events < MaxEvents /\ status' = status
      /\ pending' = pending /\ queue' = queue /\ timer' = timer
  BY DEF ResultCame, Event
<1>3. blocks[i].resultAt # 0 /\ _withToolOutcome(i, result, access) /\ i \in 1..Len(blocks) /\ i \in Nat
  <2>1. blocks[i].resultAt # 0 /\ _withToolOutcome(i, result, access)
    BY Zenon DEF ResultCame
  <2>2. Len(toolCalls) \in Nat /\ Len(blocks) = Len(toolCalls)
    BY <1>1, LenProperties DEF Types
  <2> QED
    BY <2>1, <2>2
<1>4. result \in Seq(A!Cells) /\ result # <<>> /\ access \in Seq(A!Cells)
  <2>1. A!Result(i) \in A!Cells /\ A!Placeholder \in A!Cells /\ A!Access(i) \in A!Cells
    BY <1>3, CellFacts
  <2>2. <<A!Result(i)>> \in Seq(A!Cells) /\ <<A!Result(i), A!Placeholder>> \in Seq(A!Cells) /\ <<A!Access(i)>> \in Seq(A!Cells)
    BY <2>1
  <2>3. <<>> \in Seq(A!Cells) /\ <<A!Result(i)>> # <<>> /\ <<A!Result(i), A!Placeholder>> # <<>>
    OBVIOUS
  <2> QED
    BY <2>2, <2>3, Zenon
<1>5. /\ content' \in Seq(A!Cells) /\ blocks' \in Seq([start : Nat, resultAt : Nat]) /\ Len(blocks') = Len(blocks)
      /\ BlocksHome'
  BY <1>1, <1>3, <1>4, OutcomeHome
<1>6. Types'
  BY <1>1, <1>2, <1>5, ChatAssumption DEF Types
<1> QED
  BY <1>1, <1>2, <1>5, <1>6, CardsSame

LEMMA DoneInv ==
    ASSUME CInv, DoneCame
    PROVE  Types' /\ BlocksHome' /\ Cards'
<1>1. Types /\ BlocksHome /\ Cards
  BY DEF CInv
<1>2. /\ session' = session /\ failedTurns' = failedTurns /\ toolCalls' = toolCalls /\ blocks' = blocks /\ reading' = FALSE
      /\ parked' = parked /\ over' = TRUE /\ turns' = turns /\ events' = events + 1 /\ events < MaxEvents
      /\ content' = content /\ queue' = queue
  BY DEF DoneCame, Event
<1>3. /\ status' \in {"completed", status} /\ timer' \in {FALSE, timer} /\ pending' \in {TRUE, pending}
  BY DEF DoneCame, _finishWhenDrained
<1>4. /\ status' \in {"idle", "streaming", "completed", "aborted", "error"} /\ events' \in 0..MaxEvents
      /\ timer' \in BOOLEAN /\ pending' \in BOOLEAN
  <2>1. /\ status \in {"idle", "streaming", "completed", "aborted", "error"} /\ events \in 0..MaxEvents
        /\ timer \in BOOLEAN /\ pending \in BOOLEAN
    BY <1>1 DEF Types
  <2>2. timer' \in BOOLEAN /\ pending' \in BOOLEAN
    BY <1>3, <2>1, Zenon
  <2>3. status' \in {"idle", "streaming", "completed", "aborted", "error"}
    BY <1>3, <2>1
  <2>4. events' \in 0..MaxEvents
    BY <1>2, <2>1, ChatAssumption
  <2> QED
    BY <2>2, <2>3, <2>4
<1>5. Types'
  BY <1>1, <1>2, <1>4 DEF Types
<1> QED
  BY <1>1, <1>2, <1>5, HomeSame, CardsSame

LEMMA CNext == CInv /\ [Next]_vars => CInv'
<1> SUFFICES ASSUME CInv, [Next]_vars PROVE CInv'
  OBVIOUS
<1>0. Typing'
  BY TypingNext DEF CInv
<1>1. CASE Drain
  BY <1>0, <1>1, DrainInv DEF CInv
<1>2. CASE Stop \/ Fail
  BY <1>0, <1>2, EndInv DEF CInv, Stop, Fail
<1>3. CASE DoneCame
  BY <1>0, <1>3, DoneInv DEF CInv
<1>4. ASSUME NEW s \in Sessions, Start(s) PROVE CInv'
  BY <1>0, <1>4, StartInv DEF CInv
<1>5. ASSUME NEW chunk \in Chunks, TextCame(chunk) PROVE CInv'
  BY <1>0, <1>5, TextInv DEF CInv
<1>6. ASSUME NEW f \in Tools, NEW arg \in Arguments, CallCame(f, arg) PROVE CInv'
  BY <1>0, <1>6, CallInv DEF CInv
<1>7. DOMAIN toolCalls = 1..Len(toolCalls)
  BY LenProperties DEF CInv, Types
<1>8. ASSUME NEW i \in DOMAIN toolCalls, ApprovalCame(i) PROVE CInv'
  BY <1>0, <1>7, <1>8, ApprovalInv DEF CInv
<1>9. ASSUME NEW i \in DOMAIN toolCalls, NEW result \in {<<A!Result(i)>>, <<A!Result(i), A!Placeholder>>},
             NEW access \in {<<>>, <<A!Access(i)>>}, ResultCame(i, result, access)
      PROVE  CInv'
  BY <1>0, <1>7, <1>9, ResultInv DEF CInv
<1>10. CASE UNCHANGED vars
  <2>1. Types /\ BlocksHome /\ Cards
    BY DEF CInv
  <2>2. Types'
    BY <1>10, <2>1 DEF Types, vars, typed, ghosts
  <2>3. content' = content /\ blocks' = blocks /\ toolCalls' = toolCalls /\ parked' = parked
    BY <1>10 DEF vars, typed, ghosts
  <2> QED
    BY <1>0, <2>1, <2>2, <2>3, HomeSame, CardsSame DEF CInv
<1> QED
  BY <1>1, <1>2, <1>3, <1>4, <1>5, <1>6, <1>8, <1>9, <1>10 DEF Next

-----------------------------------------------------------------------------
(* What the stream keeps to.                                               *)

\* The parts of the invariant hold from the first question on, through every
\* event, tick, stop and failure of the stream.
THEOREM ChatInvariant == Spec => []CInv
  BY CInit, CNext, PTL DEF Spec

\* The text, the queue, the cards and the failed turns stay in their types, and
\* no position kept in _toolBlocks is outside the text.
THEOREM ChatTypes == Spec => []TypeOK
<1>1. ASSUME CInv PROVE TypeOK
  <2>1. Types /\ BlocksHome /\ blocks \in Seq([start : Nat, resultAt : Nat])
    BY <1>1 DEF CInv, Types
  <2>2. Len(content) \in Nat /\ Len(blocks) \in Nat
    BY <2>1, LenProperties DEF Types
  <2>3. ASSUME NEW i \in 1..Len(blocks)
        PROVE  blocks[i] \in [start : 1 .. Len(content), resultAt : 0 .. Len(content)]
    <3>1. blocks[i] \in [start : Nat, resultAt : Nat] /\ Home(content, i, blocks[i])
      BY <2>1, <2>3, ElementOfSeq DEF BlocksHome
    <3>2. blocks[i].start \in 1..Len(content) /\ blocks[i].resultAt \in 0..Len(content)
      BY <2>2, <3>1 DEF Home
    <3> QED
      BY <3>1, <3>2
  <2>4. blocks \in Seq([start : 1 .. Len(content), resultAt : 0 .. Len(content)])
    <3> DEFINE S == [start : 1 .. Len(content), resultAt : 0 .. Len(content)]
    <3>1. \A i \in 1..Len(blocks) : blocks[i] \in S
      BY <2>3
    <3> HIDE DEF S
    <3>2. blocks = [i \in 1..Len(blocks) |-> blocks[i]] /\ DOMAIN blocks = 1..Len(blocks)
      BY <2>1, LenProperties
    <3>3. blocks \in [1..Len(blocks) -> S]
      BY <3>1, <3>2
    <3>4. blocks \in Seq(S)
      BY <2>2, <3>3
    <3> QED
      BY <3>4 DEF S
  <2> QED
    BY <2>1, <2>4 DEF Types, TypeOK
<1> QED
  BY <1>1, ChatInvariant, PTL

\* While letters wait in _charQueue, or [DONE] waits for them, the timer runs
\* and the answer streams: no flush, stop or new question leaves it behind.
THEOREM TypewriterGoesOn == Spec => []TypewriterRuns
<1>1. CInv => TypewriterRuns
  BY DEF CInv, Typing
<1> QED
  BY <1>1, ChatInvariant, PTL

\* However many outcomes came above and below it, a waiting block is where
\* _toolBlocks says and its result goes to its own placeholder.
THEOREM BlocksStayHome == Spec => []BlocksPointHome
<1>1. ASSUME CInv, NEW i \in DOMAIN blocks, blocks[i].resultAt # 0
      PROVE  SubSeq(content, blocks[i].start, blocks[i].resultAt + 1) =
                 <<A!Summary(i), content[blocks[i].start + 1], A!Placeholder, A!Foot(i)>>
  <2> DEFINE s == blocks[i].start
             r == blocks[i].resultAt
             got == SubSeq(content, s, r + 1)
             block == <<A!Summary(i), content[s + 1], A!Placeholder, A!Foot(i)>>
  <2>1. /\ content \in Seq(A!Cells) /\ Len(content) \in Nat
        /\ blocks \in Seq([start : Nat, resultAt : Nat]) /\ i \in 1..Len(blocks)
    BY <1>1, LenProperties DEF CInv, Types
  <2>2. s \in Nat /\ Home(content, i, blocks[i])
    <3>1. blocks[i] \in [start : Nat, resultAt : Nat]
      BY <2>1, ElementOfSeq
    <3>2. Home(content, i, blocks[i])
      BY <1>1, <2>1 DEF CInv, BlocksHome
    <3> QED
      BY <3>1, <3>2
  <2>3. /\ s \in 1..Len(content) /\ content[s] = A!Summary(i) /\ r = s + 2 /\ s + 3 <= Len(content)
        /\ content[s + 2] = A!Placeholder /\ content[s + 3] = A!Foot(i)
    BY <1>1, <2>2 DEF Home
  <2> HIDE DEF s, r
  <2>4. r + 1 = s + 3 /\ s..r + 1 \subseteq 1..Len(content)
    BY <2>1, <2>2, <2>3
  <2>5. \A p \in s..r + 1 : content[p] \in A!Cells
    BY <2>1, <2>4, ElementOfSeq
  <2>6. /\ got \in Seq(A!Cells) /\ Len(got) = 4
        /\ \A p \in 1..4 : got[p] = content[s + p - 1]
    <3> DEFINE e == r + 1
    <3>1. s \in Int /\ e \in Int /\ e - s + 1 = 4 /\ s <= e
      BY <2>2, <2>3
    <3>2. got = SubSeq(content, s, e) /\ \A p \in s..e : content[p] \in A!Cells
      BY <2>5
    <3> HIDE DEF e, got
    <3>3. /\ got \in Seq(A!Cells)
          /\ s <= e => Len(got) = e - s + 1
          /\ s <= e => \A p \in 1..e - s + 1 : got[p] = content[s + p - 1]
      BY <2>1, <3>1, <3>2, SubSeqProperties
    <3> QED
      BY <3>1, <3>3
  <2>7. got[1] = content[s] /\ got[2] = content[s + 1] /\ got[3] = content[s + 2] /\ got[4] = content[s + 3]
    <3>1. s + 1 - 1 = s /\ s + 2 - 1 = s + 1 /\ s + 3 - 1 = s + 2 /\ s + 4 - 1 = s + 3
      BY <2>2
    <3> QED
      BY <2>6, <3>1
  <2>8. \A p \in 1..4 : got[p] = block[p]
    <3>1. block[1] = got[1] /\ block[2] = got[2] /\ block[3] = got[3] /\ block[4] = got[4]
      BY <2>3, <2>7
    <3> HIDE DEF got, block
    <3> QED
      BY <3>1
  <2>9. DOMAIN got = 1..4 /\ DOMAIN block = 1..4 /\ got = [p \in 1..4 |-> got[p]] /\ block = [p \in 1..4 |-> block[p]]
    <3>1. DOMAIN got = 1..4 /\ got = [p \in 1..4 |-> got[p]]
      <4> HIDE DEF got
      <4> QED
        BY <2>6, LenProperties
    <3>2. DOMAIN block = 1..4 /\ block = [p \in 1..4 |-> block[p]]
      OBVIOUS
    <3> QED
      BY <3>1, <3>2
  <2> HIDE DEF got, block
  <2>10. got = block
    BY <2>8, <2>9
  <2> QED
    BY <2>10 DEF got, block, s, r
<1>2. CInv => BlocksPointHome
  BY <1>1 DEF BlocksPointHome
<1> QED
  BY <1>2, ChatInvariant, PTL

\* Every write that waits for approval has exactly one card, on a call of its
\* tool, although approval_required names the tool and not the call.
THEOREM CardsShown == Spec => []ApprovalsShown
<1>1. ASSUME CInv, NEW i \in parked
      PROVE  Cardinality({c \in DOMAIN toolCalls : toolCalls[c].approval = i /\ toolCalls[c].function = toolCalls[i].function}) = 1
  <2> DEFINE on == {c \in DOMAIN toolCalls : toolCalls[c].approval = i /\ toolCalls[c].function = toolCalls[i].function}
  <2>1. DOMAIN toolCalls = 1..Len(toolCalls) /\ i # 0 /\ Cards
    BY <1>1, LenProperties DEF CInv, Types
  <2>2. PICK c \in 1..Len(toolCalls) : toolCalls[c].approval = i
    BY <2>1 DEF Cards
  <2>3. toolCalls[c].function = toolCalls[i].function
    BY <2>1, <2>2 DEF Cards
  <2>4. \A d \in 1..Len(toolCalls) : toolCalls[d].approval = i => d = c
    BY <2>1, <2>2 DEF Cards
  <2>5. on = {c}
    BY <2>1, <2>2, <2>3, <2>4
  <2> QED
    BY <2>5, FS_Singleton
<1>2. CInv => ApprovalsShown
  BY <1>1 DEF ApprovalsShown
<1> QED
  BY <1>2, ChatInvariant, PTL
===============================================================================

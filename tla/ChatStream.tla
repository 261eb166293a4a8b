------------------------------- MODULE ChatStream -------------------------------
(***************************************************************************)
(* The page's end of a chat answer (ChatStreamManager): the events of the  *)
(* server's stream, the typewriter that takes the text out of a queue on a *)
(* timer, the user's stop, and the tool blocks, whose outcomes are written *)
(* into the text at positions kept beside it.  Outcomes may come in any    *)
(* order, since calls the model makes at once run at once.  An event, a    *)
(* tick and a click are one step each, as the browser's one thread runs    *)
(* them; the rejection that a stop causes runs before anything else can.   *)
(***************************************************************************)
EXTENDS Integers, FiniteSets, Sequences, SequencesExt

CONSTANTS
    Letters,        \* what text and arguments are made of
    Arguments,      \* the arguments of calls
    Chunks,         \* the texts one content event carries
    Tools,          \* the names of the tools
    Sessions,       \* the conversations
    MaxTurns,       \* bound: questions
    MaxCalls,       \* bound: tool calls of one answer
    MaxEvents,      \* bound: events of all streams
    None

ASSUME ChatAssumption ==
    /\ Chunks \subseteq Seq(Letters) \ {<<>>}
    /\ Arguments \subseteq Letters
    /\ MaxTurns \in Nat /\ MaxCalls \in Nat /\ MaxEvents \in Nat
    /\ None \notin Sessions

VARIABLES
    status,         \* state.status; isStreaming is status = "streaming"
    session,        \* state.sessionId
    content,        \* state.content
    toolCalls,      \* state.toolCalls
    failedTurns,    \* state.failedTurns
    queue,          \* _charQueue
    timer,          \* _typewriterTimer is set
    pending,        \* _streamDone and _pendingDonePatch are set
    blocks,         \* _toolBlocks; resultAt is 0 once the outcome is in
    reading,        \* startSessionChat is in its read loop
    told,           \* history: the parts of this answer that came
    parked,         \* history: the calls of this answer that wait for approval
    over,           \* history: [DONE] came
    turns, events   \* questions and events so far

typed  == <<content, queue, timer>>
ghosts == <<told, parked, over>>
vars   == <<status, session, failedTurns, toolCalls, blocks, pending, reading, typed, ghosts, turns, events>>

A == INSTANCE Answer WITH
        shown <- Len(told) - Len(queue), screen <- SelectSeq(content, LAMBDA c : c # <<"space", 0>>),
        past <- [n \in DOMAIN failedTurns |-> SelectSeq(failedTurns[n], LAMBDA c : c # <<"space", 0>>)]

TypeOK ==
    /\ status \in {"idle", "streaming", "completed", "aborted", "error"}
    /\ session \in Sessions \cup {None}
    /\ content \in Seq(A!Cells) /\ queue \in Seq(A!Cells)
    /\ failedTurns \in Seq(Seq(A!Cells))
    /\ toolCalls \in Seq([function : Tools, approval : 0 .. MaxCalls])
    /\ blocks \in Seq([start : 1 .. Len(content), resultAt : 0 .. Len(content)])
    /\ Len(blocks) = Len(toolCalls)
    /\ timer \in BOOLEAN /\ pending \in BOOLEAN /\ reading \in BOOLEAN /\ over \in BOOLEAN
    /\ parked \subseteq 1 .. Len(toolCalls)
    /\ turns \in 0 .. MaxTurns /\ events \in 0 .. MaxEvents

Init ==
    /\ status = "idle" /\ session = None /\ failedTurns = <<>>
    /\ content = <<>> /\ toolCalls = <<>> /\ blocks = <<>>
    /\ queue = <<>> /\ timer = FALSE /\ pending = FALSE /\ reading = FALSE
    /\ told = <<>> /\ parked = {} /\ over = FALSE
    /\ turns = 0 /\ events = 0

-----------------------------------------------------------------------------
(* The typewriter.                                                         *)

\* _drainQueue: how much of a queue of n one tick takes.
Batch(n) == (n + 3) \div 4

\* Mutant of Drain: the timer stops with the last letters, not a tick later.
DrainToLast ==
    /\ timer /\ queue # <<>>
    /\ content' = content \o SubSeq(queue, 1, Batch(Len(queue)))
    /\ queue' = SubSeq(queue, Batch(Len(queue)) + 1, Len(queue))
    /\ timer' = (queue' # <<>>)
    /\ UNCHANGED <<status, session, failedTurns, toolCalls, blocks, pending, reading, ghosts, turns, events>>

\* _drainQueue: the tick that finds nothing left stops the timer and completes
\* an answer whose [DONE] came.
Drain ==
    /\ timer
    /\ \/ /\ queue # <<>>
          /\ content' = content \o SubSeq(queue, 1, Batch(Len(queue)))
          /\ queue' = SubSeq(queue, Batch(Len(queue)) + 1, Len(queue))
          /\ UNCHANGED <<timer, pending, status>>
       \/ /\ queue = <<>>
          /\ timer' = FALSE /\ pending' = FALSE
          /\ status' = IF pending THEN "completed" ELSE status
          /\ UNCHANGED <<content, queue>>
    /\ UNCHANGED <<session, failedTurns, toolCalls, blocks, reading, ghosts, turns, events>>

\* _flushQueue: with an empty queue it leaves the timer running.
Flushed == content \o queue
Flush ==
    /\ queue' = <<>>
    /\ timer' = (timer /\ queue = <<>>)

-----------------------------------------------------------------------------
(* The text with its tool blocks.                                          *)

\* Trailing white space goes, and the block starts on a line of its own.
appendToolBlock(text, block) ==
    LET before == SubSeq(text, 1, SelectLastInSeq(text, LAMBDA c : c # A!Space))
    IN  IF before = <<>> THEN block ELSE before \o <<A!Space>> \o block

buildToolCallBlock(i, arg) == <<A!Summary(i), A!Letter(arg), A!Placeholder, A!Foot(i), A!Space>>

\* A result already there stays.
withToolResult(text, at, result) ==
    IF at \in 1 .. Len(text) /\ text[at] = A!Placeholder
    THEN SubSeq(text, 1, at - 1) \o result \o SubSeq(text, at + 1, Len(text))
    ELSE text

\* The access line goes under the first summary from `at` on.
withToolAccess(text, at, line) ==
    LET end == SelectInSubSeq(text, at, Len(text), LAMBDA c : c[1] = "summary")
    IN  IF end = 0 THEN text ELSE SubSeq(text, 1, end) \o line \o SubSeq(text, end + 1, Len(text))

\* Mutant of _withToolOutcome: every other block moves, those above it too.
OutcomeShiftsAll(i, result, access) ==
    LET b      == blocks[i]
        filled == withToolAccess(withToolResult(content, b.resultAt, result), b.start, access)
        grew   == Len(filled) - Len(content)
        Moved(o) == [start |-> o.start + grew, resultAt |-> IF o.resultAt = 0 THEN 0 ELSE o.resultAt + grew]
    IN  /\ content' = filled
        /\ blocks' = [j \in DOMAIN blocks |-> IF j = i THEN [b EXCEPT !.resultAt = 0] ELSE Moved(blocks[j])]

\* _withToolOutcome: once per block; the blocks after it move by what went in.
_withToolOutcome(i, result, access) ==
    LET b      == blocks[i]
        filled == withToolAccess(withToolResult(content, b.resultAt, result), b.start, access)
        grew   == Len(filled) - Len(content)
        Moved(o) == [start |-> o.start + grew, resultAt |-> IF o.resultAt = 0 THEN 0 ELSE o.resultAt + grew]
    IN  IF b.resultAt = 0 THEN UNCHANGED <<content, blocks>>
        ELSE /\ content' = filled
             /\ blocks' = [j \in DOMAIN blocks |->
                             IF j = i THEN [b EXCEPT !.resultAt = 0]
                             ELSE IF blocks[j].start < b.start THEN blocks[j] ELSE Moved(blocks[j])]

-----------------------------------------------------------------------------
(* The stream and the user.                                                *)

\* _failedTurnsBefore
FailedTurnsBefore(s) ==
    IF s # session THEN <<>>
    ELSE IF status \in {"error", "aborted"} THEN Append(failedTurns, content) ELSE failedTurns

\* Mutant of Start: the positions of the last answer's blocks stay.
StartWithBlocks(s) ==
    /\ status # "streaming" /\ turns < MaxTurns
    /\ turns' = turns + 1
    /\ status' = "streaming" /\ session' = s
    /\ failedTurns' = FailedTurnsBefore(s)
    /\ content' = <<>> /\ toolCalls' = <<>>
    /\ queue' = <<>> /\ timer' = FALSE /\ pending' = FALSE
    /\ reading' = TRUE
    /\ told' = <<>> /\ parked' = {} /\ over' = FALSE
    /\ UNCHANGED <<blocks, events>>

\* startSessionChat, up to its request: refused while an answer streams.
Start(s) ==
    /\ status # "streaming" /\ turns < MaxTurns
    /\ turns' = turns + 1
    /\ status' = "streaming" /\ session' = s
    /\ failedTurns' = FailedTurnsBefore(s)
    /\ content' = <<>> /\ toolCalls' = <<>> /\ blocks' = <<>>
    /\ queue' = <<>> /\ timer' = FALSE /\ pending' = FALSE
    /\ reading' = TRUE
    /\ told' = <<>> /\ parked' = {} /\ over' = FALSE
    /\ UNCHANGED events

\* One event of the stream.
Event ==
    /\ reading /\ events < MaxEvents
    /\ events' = events + 1
    /\ UNCHANGED <<session, failedTurns, turns>>

\* content: the letters join the queue.
TextCame(chunk) ==
    /\ Event
    /\ queue' = queue \o [j \in DOMAIN chunk |-> A!Letter(chunk[j])]
    /\ timer' = TRUE
    /\ told' = told \o [j \in DOMAIN chunk |-> A!TextPart(chunk[j])]
    /\ UNCHANGED <<status, content, toolCalls, blocks, pending, reading, parked, over>>

\* function: what was written before the call stays above its block, and the
\* result goes to the last placeholder of the block.
CallCame(f, arg) ==
    /\ Event /\ Len(toolCalls) < MaxCalls
    /\ LET i     == Len(toolCalls) + 1
           block == buildToolCallBlock(i, arg)
           at    == Len(appendToolBlock(Flushed, block)) - Len(block)
       IN  /\ content' = appendToolBlock(Flushed, block)
           /\ blocks' = Append(blocks, [start |-> at + 1,
                                        resultAt |-> at + SelectLastInSeq(block, LAMBDA c : c = A!Placeholder)])
           /\ toolCalls' = Append(toolCalls, [function |-> f, approval |-> 0])
           /\ told' = Append(told, A!ToolPart(i, arg))
    /\ Flush
    /\ UNCHANGED <<status, pending, reading, parked, over>>

\* function_result, with the number of its call: text still queued came after
\* the block and stays queued.
ResultCame(i, result, access) ==
    /\ Event
    /\ blocks[i].resultAt # 0
    /\ _withToolOutcome(i, result, access)
    /\ told' = [p \in DOMAIN told |->
                  IF told[p].kind = "tool" /\ told[p].call = i
                  THEN [told[p] EXCEPT !.result = result, !.access = access] ELSE told[p]]
    /\ UNCHANGED <<status, toolCalls, queue, timer, pending, reading, parked, over>>

\* Mutant of ApprovalTarget: the first call of the tool, with a card or not.
FirstCall(f) == SelectInSeq(toolCalls, LAMBDA tc : tc.function = f)

\* approval_required names the tool and not the call: the card goes to the
\* first call of that tool without one.
ApprovalTarget(f) == SelectInSeq(toolCalls, LAMBDA tc : tc.function = f /\ tc.approval = 0)

\* approval_required: the write of call i waits for the user.
ApprovalCame(i) ==
    /\ Event
    /\ i \notin parked /\ blocks[i].resultAt # 0
    /\ parked' = parked \cup {i}
    /\ LET t == ApprovalTarget(toolCalls[i].function)
       IN  toolCalls' = IF t = 0 THEN toolCalls ELSE [toolCalls EXCEPT ![t].approval = i]
    /\ UNCHANGED <<status, blocks, typed, pending, reading, told, over>>

\* _finishWhenDrained: at once with an empty queue, else the typewriter
\* completes the answer.
_finishWhenDrained ==
    IF queue = <<>>
    THEN status' = "completed" /\ timer' = FALSE /\ UNCHANGED pending
    ELSE pending' = TRUE /\ UNCHANGED <<status, timer>>

\* [DONE] ends the read loop.
DoneCame ==
    /\ Event
    /\ reading' = FALSE /\ over' = TRUE
    /\ _finishWhenDrained
    /\ UNCHANGED <<content, queue, toolCalls, blocks, told, parked>>

\* Mutant of EndNow: the letters in the queue are dropped.
EndWithoutFlush(s) ==
    /\ status' = s
    /\ queue' = <<>> /\ timer' = FALSE
    /\ pending' = FALSE /\ reading' = FALSE
    /\ UNCHANGED <<content, session, failedTurns, toolCalls, blocks, ghosts, turns, events>>

\* setState(..., immediate): the letters that came are shown at once.
EndNow(s) ==
    /\ status' = s
    /\ content' = Flushed /\ Flush
    /\ pending' = FALSE /\ reading' = FALSE
    /\ UNCHANGED <<session, failedTurns, toolCalls, blocks, ghosts, turns, events>>

\* stop: while the stream is read, or while its last letters are typed.
Stop == status = "streaming" /\ EndNow("aborted")

\* _fail: a refusal, an error event, a broken connection, or a stream that
\* ends without [DONE].
Fail == reading /\ status = "streaming" /\ EndNow("error")

Next ==
    \/ Drain \/ Stop \/ Fail \/ DoneCame
    \/ \E s \in Sessions : Start(s)
    \/ \E chunk \in Chunks : TextCame(chunk)
    \/ \E f \in Tools, arg \in Arguments : CallCame(f, arg)
    \/ \E i \in DOMAIN toolCalls :
         \/ ApprovalCame(i)
         \/ \E result \in {<<A!Result(i)>>, <<A!Result(i), A!Placeholder>>}, access \in {<<>>, <<A!Access(i)>>} :
              ResultCame(i, result, access)

\* The browser's interval keeps ticking.
Fairness == WF_vars(Drain)

Spec == Init /\ [][Next]_vars /\ Fairness

-----------------------------------------------------------------------------
\* The answer on screen is at every step what Answer promises: flushes, late
\* outcomes, stops and ends only ever show, in order, what the server told.
KeepsPromise == A!Spec

\* While letters wait, or [DONE] waits for them, the typewriter runs: neither
\* the flush before a tool block nor a stop leaves an answer that nothing will
\* finish.
TypewriterRuns ==
    queue # <<>> \/ pending => timer /\ status = "streaming"

\* A block that waits for its outcome is where _toolBlocks says, after any
\* number of outcomes above and below it, and the placeholder it points at is
\* its own, whatever words the arguments, the results or the text hold.
BlocksPointHome ==
    \A i \in DOMAIN blocks : blocks[i].resultAt # 0 =>
        SubSeq(content, blocks[i].start, blocks[i].resultAt + 1) =
            <<A!Summary(i), content[blocks[i].start + 1], A!Placeholder, A!Foot(i)>>

\* Every write that waits for approval has its card on some call of its tool,
\* one each: a second call of the tool takes no card away.
ApprovalsShown ==
    \A i \in parked :
        Cardinality({c \in DOMAIN toolCalls : toolCalls[c].approval = i /\ toolCalls[c].function = toolCalls[i].function}) = 1

\* An answer whose [DONE] came is completed, or stopped, and not left streaming.
AnswerEnds ==
    status = "streaming" /\ ~reading ~> status # "streaming"
=================================================================================

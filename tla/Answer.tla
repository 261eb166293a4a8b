--------------------------------- MODULE Answer ---------------------------------
(***************************************************************************)
(* What a chat promises about the answer on screen: up to blank space it   *)
(* is what the server would save of the parts shown so far, text and tool  *)
(* blocks in the order they came, each outcome in the block of its own     *)
(* call.  A tool's block is shown at once with all that came before it; an *)
(* answer that ends, in whatever way, shows everything that came; and the  *)
(* failed or stopped answers above it in its conversation still do.        *)
(***************************************************************************)
EXTENDS Integers, Sequences, SequencesExt

CONSTANTS
    Letters,        \* what text and arguments are made of
    Sessions,       \* the conversations
    None

VARIABLES
    told,           \* the parts of this answer that came
    shown,          \* how many of them are on screen
    screen,         \* the cells on screen
    over,           \* the server sent [DONE]
    status,         \* "idle", "streaming", "completed", "aborted" or "error"
    session,        \* the conversation of this answer
    past            \* the failed and stopped answers of the conversation

vars == <<told, shown, screen, over, status, session, past>>

-----------------------------------------------------------------------------
(* Cells: one of the model's letters, or a piece the page writes.  "space" *)
(* is white space and "executing" the words that stand where a result will *)
(* go, which text, arguments and results can hold as well.                 *)

Letter(l)   == <<l, 0>>
Space       == Letter("space")
Placeholder == Letter("executing")
Summary(i)  == <<"summary", i>>
Access(i)   == <<"access", i>>
Result(i)   == <<"result", i>>
Foot(i)     == <<"foot", i>>

Cells == (Letters \X {0}) \cup {Space, Placeholder} \cup ({"summary", "access", "result", "foot"} \X Nat)

\* The parts of an answer: a letter of text, or a tool call and its outcome.
TextPart(l)      == [kind |-> "text", cell |-> Letter(l)]
ToolPart(i, arg) == [kind |-> "tool", call |-> i, args |-> Letter(arg), result |-> <<Placeholder>>, access |-> <<>>]

Visible(cells) == SelectSeq(cells, LAMBDA c : c # Space)

tool_block_markdown(tc) ==
    <<Summary(tc.call)>> \o tc.access \o <<tc.args>> \o tc.result \o <<Foot(tc.call)>>

\* The saved answer: the parts in the order they came.
answer_markdown(parts) ==
    Visible(FoldLeft(LAMBDA text, part : text \o (IF part.kind = "text" THEN <<part.cell>> ELSE tool_block_markdown(part)),
                     <<>>, parts))

-----------------------------------------------------------------------------
Init ==
    /\ told = <<>> /\ shown = 0 /\ screen = <<>> /\ over = FALSE
    /\ status = "idle" /\ session = None /\ past = <<>>

\* What is on screen follows from what was told and how much of it is shown.
Redrawn == screen' = answer_markdown(SubSeq(told', 1, shown'))

\* A question: the conversation keeps what a failed or stopped answer showed.
Ask ==
    /\ status # "streaming" /\ status' = "streaming"
    /\ session' \in Sessions
    /\ past' = IF session' # session THEN <<>>
               ELSE IF status \in {"aborted", "error"} THEN Append(past, answer_markdown(told)) ELSE past
    /\ told' = <<>> /\ shown' = 0 /\ over' = FALSE

Streaming == status = "streaming" /\ UNCHANGED <<session, past>>

\* The model's text comes; it is shown later.
TellText ==
    /\ Streaming /\ ~over
    /\ IsPrefix(told, told')
    /\ \A j \in Len(told) + 1 .. Len(told') : told'[j].kind = "text"
    /\ UNCHANGED <<shown, over, status>>

Calls == SelectSeq(told, LAMBDA part : part.kind = "tool")

\* A tool call: its block is shown at once.
TellCall ==
    /\ Streaming /\ ~over
    /\ \E arg \in Letters : told' = Append(told, ToolPart(Len(Calls) + 1, arg))
    /\ shown' = Len(told')
    /\ UNCHANGED <<over, status>>

\* The outcome of one call changes the block of that call and nothing else.
TellOutcome ==
    /\ Streaming /\ ~over
    /\ \E p \in 1 .. Len(told) :
         /\ told[p].kind = "tool" /\ told[p].result = <<Placeholder>>
         /\ \E result \in {<<Result(told[p].call)>>, <<Result(told[p].call), Placeholder>>} :
              \E access \in {<<>>, <<Access(told[p].call)>>} :
                told' = [told EXCEPT ![p].result = result, ![p].access = access]
    /\ UNCHANGED <<shown, over, status>>

\* The typewriter goes on, in order.
Type ==
    /\ Streaming
    /\ shown' \in shown + 1 .. Len(told)
    /\ UNCHANGED <<told, over, status>>

\* [DONE]: the answer is completed once all of it is shown.
Over ==
    /\ Streaming /\ ~over /\ over' = TRUE
    /\ status' = IF shown = Len(told) THEN "completed" ELSE status
    /\ UNCHANGED <<told, shown>>

Complete ==
    /\ Streaming /\ over /\ shown = Len(told)
    /\ status' = "completed"
    /\ UNCHANGED <<told, shown, over>>

\* A stop or a failure shows at once what was not typed yet.
EndEarly ==
    /\ Streaming
    /\ status' \in {"aborted", "error"}
    /\ status' = "error" => ~over
    /\ shown' = Len(told)
    /\ UNCHANGED <<told, over>>

Next ==
    /\ Ask \/ TellText \/ TellCall \/ TellOutcome \/ Type \/ Over \/ Complete \/ EndEarly
    /\ Redrawn

Spec == Init /\ [][Next]_vars
=================================================================================

----------------------------- MODULE AgentStream -----------------------------
(***************************************************************************)
(* One streamed answer, from the lines of the model server to the socket of  *)
(* the app: `POST /v1/agent/stream`, and `POST /v1/models/pull`, which has    *)
(* the same shape. The handler runs two futures on one connection: the runner *)
(* pushes frames into an unbounded channel, the drain writes them to the      *)
(* socket. Neither touches anything of another connection. Lines of the model *)
(* server arrive whole here: the code keeps a partial line until the rest of   *)
(* it comes, and drops it if the stream ends first.                           *)
(***************************************************************************)
EXTENDS ModelGateway, FiniteSets, SequencesExt

CONSTANTS MaxText,    \* atoms of text the model answers with in the first turn
          MaxLater,   \* and in a later one
          MaxIters,   \* turns of the loop
          MaxCalls,   \* tool calls of one turn
          MaxFrames,  \* frames of the model's making, after which it says no more
          MaxLines    \* lines of progress a pull reports

ASSUME StreamAssumption ==
    MaxText \in Nat /\ MaxLater \in Nat /\ MaxIters \in Nat \ {0}
    /\ MaxCalls \in Nat /\ MaxFrames \in Nat /\ MaxLines \in Nat

VARIABLES
    run,        \* what the runner does: a stage of the agent loop or of a pull
    turn,       \* the current turn
    content,    \* text of the turn so far, thoughts included
    emitted,    \* bytes of the visible text that have been forwarded
    calls,      \* names of the turn's tool calls, in the order of their indices
    answer,     \* what the run ended with
    chan,       \* frames pushed and not yet taken by the drain
    drain,      \* "on", or "off" once it has stopped
    wire,       \* frames written to the socket
    client,     \* "there" or "gone"
    sent,       \* history: every frame pushed
    shown,      \* history: the text in the app's bubble once it has read them
    audited,    \* history: the run is in the audit log
    stray       \* history: the app holds text that is no part of this turn's answer

runVars == <<run, turn, content, emitted, calls, answer, audited, stray>>
vars == <<run, turn, content, emitted, calls, answer, chan, drain, wire, client,
          sent, shown, audited, stray>>

(***************************************************************************)
(* Frames                                                                  *)
(***************************************************************************)

Token(text)       == [ev |-> "token", data |-> text]
ToolFrame(name, phase) == [ev |-> "tool", data |-> <<name, phase>>]
DoneFrame(status, text) == [ev |-> "done", data |-> <<status, text>>]
Progress(line)    == [ev |-> "progress", data |-> line]
ErrorFrame        == [ev |-> "error", data |-> <<>>]
EndMark           == [ev |-> "[DONE]", data |-> <<>>]

\* Tools by how the loop treats them: calls of an unknown one, or of a synthetic
\* one beyond its budget, are answered with an error and no event; gated ones end
\* the run as pending.
ToolNames == {"read", "gated", "unknown"}

\* What texts consist of: an atom stands for a character of one byte, the wide one for
\* a character of two.
WideAtom == "wide"
Atoms == {"text", WideAtom, Space, Open[1], Open[2], Close[1], Close[2],
          "model error", "(stopped: reached max iterations)", "ok"}

\* The byte at which the first k atoms of a text end, and its length in bytes.
Offset(text, k) == k + Cardinality({i \in 1..k : text[i] = WideAtom})
ByteSize(text)  == Offset(text, Len(text))

\* How a run ends.
Results == {"final", "pending_approval", "max_iters"}

Frame ==
    [ev : {"token"}, data : Seq(Atoms)]
    \cup [ev : {"tool"}, data : ToolNames \X {"intent", "start", "done"}]
    \cup [ev : {"done"}, data : (Results \cup {"pull"}) \X Seq(Atoms)]
    \cup [ev : {"progress"}, data : {"success", "other"}]
    \cup {ErrorFrame}

\* What a frame makes of the text in the bubble: a token is put behind it, a tool
\* that is announced or starts drops it.
Bubble(text, frame) ==
    IF frame.ev = "token" THEN text \o frame.data
    ELSE IF frame.ev = "tool" /\ frame.data[2] # "done" THEN <<>> ELSE text

Push(frame) ==
    chan' = Append(chan, frame) /\ sent' = Append(sent, frame) /\ shown' = Bubble(shown, frame)
Quiet       == UNCHANGED <<chan, sent, shown>>

ModelError == <<"model error">>
Stopped    == <<"(stopped: reached max iterations)">>

\* Chunks of a model's answer: plain text, space, tags, the opening one also cut.
Chunks == {<<"text">>, <<WideAtom>>, <<Space>>, Open, <<Open[1]>>, <<Open[2]>>, Close}

Init ==
    /\ run = "requested" /\ turn = 0
    /\ content = <<>> /\ emitted = 0 /\ calls = <<>> /\ answer = <<>>
    /\ chan = <<>> /\ drain = "on" /\ wire = <<>> /\ client = "there"
    /\ sent = <<>> /\ shown = <<>> /\ audited = FALSE /\ stray = FALSE

(***************************************************************************)
(* The runner of an agent                                                  *)
(***************************************************************************)

\* A pull is recorded at once. The header is written before anything runs; a
\* client that has left already ends the connection here.
Begin(route) ==
    /\ run = "requested"
    /\ audited' = (route = "pull")
    /\ run' = IF client = "there" THEN route ELSE "never"
    /\ drain' = IF client = "there" THEN drain ELSE "off"
    /\ Quiet /\ UNCHANGED <<turn, content, emitted, calls, answer, stray, wire, client>>

\* The model is asked, with an empty accumulator; the request may be refused.
AskModel ==
    /\ run = "asking" /\ turn < MaxIters
    /\ turn' = turn + 1
    /\ content' = <<>> /\ emitted' = 0 /\ calls' = <<>> /\ stray' = (shown # <<>>)
    /\ \/ run' = "reading" /\ UNCHANGED answer
       \/ run' = "final" /\ answer' = ModelError
    /\ Quiet /\ UNCHANGED <<audited, drain, wire, client>>

OutOfIters ==
    /\ run = "asking" /\ turn = MaxIters
    /\ run' = "max_iters" /\ answer' = Stopped
    /\ Quiet /\ UNCHANGED <<turn, content, emitted, calls, audited, stray, drain, wire, client>>

ForwardAll(visible) == IF visible = <<>> THEN Quiet ELSE Push(Token(visible))

\* What is forwarded when the visible text has become `visible`: its bytes behind those
\* forwarded before. The slice panics where these end inside a character.
Cuts(visible)      == {k \in 0..Len(visible) : Offset(visible, k) = emitted}
Sliceable(visible) == ByteSize(visible) > emitted => Cuts(visible) # {}
Forward(visible) ==
    IF ByteSize(visible) > emitted
    THEN \E k \in Cuts(visible) : Push(Token(SubSeq(visible, k + 1, Len(visible)))) ELSE Quiet
NewEmitted(visible) == IF ByteSize(visible) > emitted THEN ByteSize(visible) ELSE emitted

\* The frames that lines of the model have made so far.
OfModel == {i \in DOMAIN sent : sent[i].ev = "token" \/ sent[i].data[2] = "intent"}
Speaks  == run = "reading" /\ Cardinality(OfModel) < MaxFrames

\* A line with text.
TextArrives(chunk) ==
    /\ Speaks /\ Len(content) + Len(chunk) <= (IF turn = 1 THEN MaxText ELSE MaxLater)
    /\ content' = content \o chunk
TextDelta(chunk) ==
    /\ TextArrives(chunk)
    /\ LET visible == Visible(content')
       IN  /\ Sliceable(visible) /\ Forward(visible)
           /\ emitted' = NewEmitted(visible)
           /\ stray' = (stray \/ ByteSize(visible) < emitted)
    /\ UNCHANGED <<run, turn, calls, answer, audited, drain, wire, client>>

\* ... where the slice panics, the task of the connection unwinds: runner and drain are
\* gone with what is in the channel, and the socket closes.
TextPanics(chunk) ==
    /\ TextArrives(chunk)
    /\ ~Sliceable(Visible(content'))
    /\ run' = "panicked" /\ drain' = "off"
    /\ Quiet /\ UNCHANGED <<turn, emitted, calls, answer, audited, stray, wire, client>>

\* The first line that names a tool call announces it; later fragments of the
\* same call say nothing.
ToolDelta(name) ==
    /\ Speaks /\ Len(calls) < MaxCalls
    /\ calls' = Append(calls, name)
    /\ Push(ToolFrame(name, "intent"))
    /\ UNCHANGED <<run, turn, content, emitted, answer, audited, stray, drain, wire, client>>

\* The connection to the model server breaks: what was forwarded stays
\* forwarded, the turn is an error message without tool calls.
StreamBreaks ==
    /\ run = "reading"
    /\ run' = "final" /\ answer' = ModelError
    /\ Quiet /\ UNCHANGED <<turn, content, emitted, calls, audited, stray, drain, wire, client>>

\* The stream ends; a last line without its newline has not been looked at.
TurnAnswer == Trim(Visible(content))
TurnEnds ==
    /\ run = "reading"
    /\ run' = IF calls = <<>> THEN "final" ELSE "tools"
    /\ answer' = IF calls = <<>> THEN TurnAnswer ELSE answer
    /\ Quiet /\ UNCHANGED <<turn, content, emitted, calls, audited, stray, drain, wire, client>>

NextTool ==
    /\ run = "tools" /\ calls # <<>> /\ Head(calls) # "gated"
    /\ run' = IF Head(calls) = "read" THEN "tool" ELSE run
    /\ calls' = IF Head(calls) = "read" THEN calls ELSE Tail(calls)
    /\ IF Head(calls) = "read" THEN Push(ToolFrame("read", "start")) ELSE Quiet
    /\ UNCHANGED <<turn, content, emitted, answer, audited, stray, drain, wire, client>>

\* A gated call without an approval ends the run.
Pend ==
    /\ run = "tools" /\ calls # <<>> /\ Head(calls) = "gated"
    /\ run' = "pending_approval" /\ answer' = <<>>
    /\ Quiet /\ UNCHANGED <<turn, content, emitted, calls, audited, stray, drain, wire, client>>

\* The tool returns, with a result or by a panic that the loop turns into one.
ToolReturns ==
    /\ run = "tool"
    /\ run' = "tools" /\ calls' = Tail(calls)
    /\ Push(ToolFrame(Head(calls), "done"))
    /\ UNCHANGED <<turn, content, emitted, answer, audited, stray, drain, wire, client>>

NextTurn ==
    /\ run = "tools" /\ calls = <<>>
    /\ run' = "asking"
    /\ Quiet /\ UNCHANGED <<turn, content, emitted, calls, answer, audited, stray, drain, wire, client>>

FinishUnrecorded ==
    /\ run \in Results
    /\ run' = "ended"
    /\ Push(DoneFrame(run, answer))
    /\ UNCHANGED <<turn, content, emitted, calls, answer, audited, stray, drain, wire, client>>

\* The run is recorded, then the final frame is pushed.
Finish ==
    /\ run \in Results
    /\ run' = "ended" /\ audited' = TRUE
    /\ Push(DoneFrame(run, answer))
    /\ UNCHANGED <<turn, content, emitted, calls, answer, stray, drain, wire, client>>

(***************************************************************************)
(* The runner of a pull. `turn` counts the lines, `answer` is <<"ok">> once    *)
(* one of them says so.                                                      *)
(***************************************************************************)

PullRefused ==
    /\ run = "pull" /\ turn = 0
    /\ run' = "ended" /\ Push(ErrorFrame)
    /\ UNCHANGED <<turn, content, emitted, calls, answer, audited, stray, drain, wire, client>>

PullLine(line) ==
    /\ run = "pull" /\ turn < MaxLines
    /\ turn' = turn + 1
    /\ answer' = IF line = "success" THEN <<"ok">> ELSE answer
    /\ Push(Progress(line))
    /\ UNCHANGED <<run, content, emitted, calls, audited, stray, drain, wire, client>>

\* The stream ends or breaks: both stop the loop and report what was seen.
PullEnds ==
    /\ run = "pull"
    /\ run' = "ended"
    /\ Push(DoneFrame("pull", answer))
    /\ UNCHANGED <<turn, content, emitted, calls, answer, audited, stray, drain, wire, client>>

(***************************************************************************)
(* The drain and the client                                                *)
(***************************************************************************)

EndsAtDone(frame) == frame.ev = "done"

\* The senders of the callbacks outlive the run, so the channel never closes:
\* a final frame is what stops the drain (only a pull pushes error frames).
Ends(frame) == frame.ev \in {"done", "error"}

\* One frame is written. When it is final, the end mark follows and the drain
\* stops.
DrainWrite ==
    /\ drain = "on" /\ chan # <<>> /\ client = "there"
    /\ chan' = Tail(chan)
    /\ wire' = wire \o (IF Ends(Head(chan)) THEN <<Head(chan), EndMark>> ELSE <<Head(chan)>>)
    /\ drain' = IF Ends(Head(chan)) THEN "off" ELSE "on"
    /\ UNCHANGED <<runVars, client, sent, shown>>

\* A write to a client that has left fails and stops the drain; the run goes on.
DrainFails ==
    /\ drain = "on" /\ chan # <<>> /\ client = "gone"
    /\ drain' = "off" /\ chan' = Tail(chan)
    /\ UNCHANGED <<runVars, wire, client, sent, shown>>

ClientLeaves ==
    /\ client = "there" /\ drain = "on"
    /\ client' = "gone"
    /\ UNCHANGED <<runVars, chan, drain, wire, sent, shown>>

Runner ==
    \/ \E route \in {"asking", "pull"} : Begin(route)
    \/ AskModel \/ OutOfIters
    \/ \E chunk \in Chunks : TextDelta(chunk) \/ TextPanics(chunk)
    \/ \E name \in ToolNames : ToolDelta(name)
    \/ StreamBreaks \/ TurnEnds
    \/ NextTool \/ Pend \/ ToolReturns \/ NextTurn \/ Finish
    \/ PullRefused \/ PullEnds
    \/ \E line \in {"success", "other"} : PullLine(line)
Drain == DrainWrite \/ DrainFails

\* Both futures are over: the handler returns, or has unwound, and the connection closes.
Closed == run \in {"ended", "never", "panicked"} /\ drain = "off"

Next == Runner \/ Drain \/ ClientLeaves

\* The runtime polls both futures, the model server's stream ends or breaks and
\* tools return.
Fairness == WF_vars(Runner) /\ WF_vars(Drain)
Spec == Init /\ [][Next]_vars /\ Fairness

(***************************************************************************)
(* Properties                                                              *)
(***************************************************************************)

TypeOK ==
    /\ run \in {"requested", "never", "asking", "reading", "tools", "tool", "pull", "ended",
                "panicked"} \cup Results
    /\ turn \in Nat /\ emitted \in Nat
    /\ content \in Seq(Atoms) /\ calls \in Seq(ToolNames) /\ answer \in Seq(Atoms)
    /\ drain \in {"on", "off"} /\ client \in {"there", "gone"}
    /\ audited \in BOOLEAN /\ stray \in BOOLEAN
    /\ chan \in Seq(Frame) /\ sent \in Seq(Frame) /\ shown \in Seq(Atoms)
    /\ wire \in Seq(Frame \cup {EndMark})

\* What a client reads is what the run pushed, in that order and without gaps
\* (`drain` of handle_conn against the callbacks of run_streaming); once the
\* connection closes, a client that stayed has all of it, the final frame once
\* and last before the end mark, and the run is in the audit log whether the
\* client stayed or not. Left out is a run whose slice of the visible text panicked:
\* its client gets no final frame and the audit log no entry. That may happen only
\* after text that had been forwarded was hidden again (`stray`).
FramesInOrder ==
    /\ IsPrefix(wire, sent) \/ wire = Append(sent, EndMark)
    /\ run = "panicked" => stray
    /\ Closed /\ run = "ended" => audited
    /\ Closed /\ run # "panicked" /\ client = "there" =>
          /\ wire = Append(sent, EndMark)
          /\ \A i \in DOMAIN sent : Ends(sent[i]) <=> i = Len(sent)

\* When a run ends normally, the text the app has been shown is the answer of the
\* final frame up to surrounding space (`complete_with_tools_streaming`: "matches
\* what was streamed"). Two cases are left out by `stray`: text that was hidden
\* again after it had been forwarded, for a </think> whose opening tag was cut or
\* missing; and text of an earlier turn that no tool event made the app drop, when
\* it came after the announcement of a call that is then refused as unknown.
StreamedIsAnswer ==
    run = "ended" /\ ~stray =>
        \A i \in DOMAIN sent :
            sent[i].ev = "done" /\ sent[i].data[1] = "final" /\ sent[i].data[2] # ModelError
                => Trim(shown) = sent[i].data[2]

\* The handler returns: the join of runner and drain does not wait for a channel
\* that nobody closes, and a client that leaves does not keep it open.
StreamEnds == <>[]Closed
=============================================================================

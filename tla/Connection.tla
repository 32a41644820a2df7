------------------------------ MODULE Connection ------------------------------
(***************************************************************************)
(* One call over the core's Unix socket, byte for byte where it matters:      *)
(* `UDSClient.request` and `UDSClient.stream` of the app, `read_request`,      *)
(* `write_response` and the two ends of `handle_conn`. Each direction is a     *)
(* buffer of the operating system with room for `Room` atoms; a read takes any *)
(* part of what is there and a write leaves any part that fits. An atom is a   *)
(* piece of text that the code looks at as a whole; the blank line that ends a *)
(* header is two of them, so that a read may end inside it, and so is a line   *)
(* of an event, the text and its newline.                                     *)
(*                                                                         *)
(* The core may stop at any moment (the app restarts it) and the app may quit. *)
(***************************************************************************)
EXTENDS Integers, SequencesExt

CONSTANTS Bodies,    \* lengths of the bodies of requests
          MaxBody,   \* MAX_BODY, in atoms
          Tries,     \* attempts to connect: 8 in the code
          Room,      \* atoms a socket buffer holds
          MaxPushed  \* frames of a stream, its last one apart

ASSUME ConnectionAssumption ==
    /\ Bodies \subseteq Nat /\ MaxBody \in Nat /\ MaxPushed \in Nat
    /\ Tries \in Nat \ {0} /\ Room \in Nat \ {0}

VARIABLES
    exchange,   \* "request" or "stream", and the length of the body
    caller,     \* "connect", "write", "read", "lines" of an event stream, "back", or
                \* "gone" when the app has quit
    tries,      \* attempts to connect so far
    unsent,     \* what the caller has yet to write
    got,        \* what it has read and not looked at yet: resp, raw, pending
    header,     \* header of a stream: "open", "read" by the last read, or "past"
    frame,      \* the frame being put together: curEvent and curData
    events,     \* frames handed to onEvent
    result,     \* what the call returned
    server,     \* "down", "up", "head", "body", "handle", "answer", "stream", "closed"
    buf,        \* what the core has read
    handled,    \* the body the handler was run on
    unwritten,  \* what the core has yet to write
    response,   \* history: the body of the answer, or the frames of the stream
    died,       \* history: the core stopped
    toServer, toClient   \* the two buffers

clientVars == <<exchange, caller, tries, unsent, got, header, frame, events, result>>
serverVars == <<server, buf, handled, unwritten, response, died>>
connVars == <<clientVars, serverVars, toServer, toClient>>

Blank      == <<<<"crlf">>, <<"crlf">>>>
LineFeed   == <<"nl">>
NoFrame    == [event |-> "message", data |-> <<>>]
Unhandled  == <<"unhandled">>
NoResult   == [is |-> "none", body |-> <<>>]
Success    == [is |-> "success", body |-> <<>>]
Failed(at) == [is |-> at, body |-> <<>>]

Body(n) == [i \in 1..n |-> <<"byte", ToString(i)>>]
Request == <<<<"request">>>> \o Blank \o Body(exchange.length)

\* Where the header ends, 0 if it is not complete, and what is behind it.
HeaderEnd(bytes) ==
    LET ends == {i \in 2..Len(bytes) : SubSeq(bytes, i - 1, i) = Blank}
    IN  IF ends = {} THEN 0 ELSE Min(ends)
Behind(bytes) == SubSeq(bytes, HeaderEnd(bytes) + 1, Len(bytes))

\* A frame of the stream as the core writes it, an end mark without a name.
Wire(f) ==
    (IF f.event = "message" THEN <<>> ELSE <<<<"event", f.event>>, LineFeed>>)
    \o <<<<"data", f.data[1]>>, LineFeed, LineFeed>>
EndMarkFrame == [event |-> "message", data |-> <<"[DONE]">>]

ConnInit ==
    /\ exchange \in [kind : {"request", "stream"}, length : Bodies]
    /\ caller = "connect" /\ tries = 0 /\ unsent = Request
    /\ got = <<>> /\ header = "open" /\ frame = NoFrame /\ events = <<>>
    /\ result = NoResult
    /\ server \in {"down", "up"} /\ buf = <<>> /\ handled = Unhandled /\ unwritten = <<>>
    /\ toServer = <<>> /\ toClient = <<>>
    /\ response = [body |-> <<>>, frames |-> <<>>] /\ died = FALSE

ServerGone == server \in {"down", "closed"}
ClientGone == caller \in {"back", "gone"}
ReturnWith(res) == caller' = "back" /\ result' = res

(***************************************************************************)
(* The client                                                              *)
(***************************************************************************)

\* A refused attempt is repeated after a pause, up to `Tries` times.
Connect ==
    /\ caller = "connect"
    /\ IF server = "up"
       THEN /\ caller' = "write" /\ server' = "head"
            /\ UNCHANGED <<tries, result>>
       ELSE /\ tries' = tries + 1
            /\ IF tries' = Tries THEN ReturnWith(Failed("connect"))
               ELSE UNCHANGED <<caller, result>>
            /\ UNCHANGED server
    /\ UNCHANGED <<exchange, unsent, got, header, frame, events,
                   buf, handled, unwritten, response, died, toServer, toClient>>

\* The loop around write; a write to a connection that is closed at the other end
\* fails. (The signal that comes with it would end the app.)
ClientWrite ==
    /\ caller = "write"
    /\ \/ /\ ServerGone /\ unsent # <<>>
          /\ ReturnWith(Failed("io"))
          /\ UNCHANGED <<unsent, toServer>>
       \/ \E n \in 1..Len(unsent) :
             /\ ~ServerGone /\ Len(toServer) + n <= Room
             /\ toServer' = toServer \o SubSeq(unsent, 1, n)
             /\ unsent' = SubSeq(unsent, n + 1, Len(unsent))
             /\ UNCHANGED <<caller, result>>
       \/ /\ unsent = <<>> /\ caller' = "read"
          /\ UNCHANGED <<unsent, toServer, result>>
    /\ UNCHANGED <<serverVars, exchange, tries, got, header, frame, events, toClient>>

\* What a read of `bytes` does to a stream: up to the end of the header they are
\* kept, and so is what came with it; after that the complete lines are next.
StreamReadsAfresh(bytes) ==
    IF header # "open" THEN got' = bytes /\ caller' = "lines" /\ header' = "past"
    ELSE /\ header' = IF HeaderEnd(got \o bytes) = 0 THEN "open" ELSE "read"
         /\ got' = Behind(got \o bytes)
         /\ UNCHANGED caller

StreamReads(bytes) ==
    IF header # "open" THEN got' = got \o bytes /\ caller' = "lines" /\ header' = "past"
    ELSE /\ header' = IF HeaderEnd(got \o bytes) = 0 THEN "open" ELSE "read"
         /\ got' = Behind(got \o bytes)
         /\ UNCHANGED caller

ClientReads ==
    /\ caller = "read"
    /\ \E n \in 1..Len(toClient) :
          LET bytes == SubSeq(toClient, 1, n) IN
          /\ toClient' = SubSeq(toClient, n + 1, Len(toClient))
          /\ IF exchange.kind = "stream"
             THEN StreamReads(bytes)
             ELSE got' = got \o bytes /\ UNCHANGED <<caller, header>>
    /\ UNCHANGED <<serverVars, exchange, tries, unsent, frame, events, result, toServer>>

\* One turn of the loop over the lines, until no complete one is left: a blank
\* line hands the frame over, unless it is empty.
TakeLine ==
    /\ caller = "lines"
    /\ IF LineFeed \in Range(got)
       THEN LET at   == Min({i \in DOMAIN got : got[i] = LineFeed})
                line == SubSeq(got, 1, at - 1)
            IN  /\ got' = SubSeq(got, at + 1, Len(got))
                /\ frame' = IF line = <<>> THEN NoFrame
                            ELSE IF line[1][1] = "event" THEN [frame EXCEPT !.event = line[1][2]]
                            ELSE [frame EXCEPT !.data = Append(@, line[1][2])]
                /\ events' = IF line = <<>> /\ frame # NoFrame THEN Append(events, frame)
                             ELSE events
                /\ UNCHANGED caller
       ELSE caller' = "read" /\ UNCHANGED <<got, frame, events>>
    /\ UNCHANGED <<serverVars, exchange, tries, unsent, header, result, toServer, toClient>>

\* `parse`: a header and whatever is behind it is a success.
Parsed(bytes) ==
    IF HeaderEnd(bytes) = 0 THEN Failed("parse")
    ELSE [is |-> bytes[1][1], body |-> Behind(bytes)]

\* The core has closed the connection, or the read fails because it has stopped.
ClientSeesEnd ==
    /\ caller = "read" /\ ServerGone
    /\ \/ /\ toClient = <<>>
          /\ ReturnWith(IF exchange.kind = "stream" THEN Success ELSE Parsed(got))
       \/ /\ died /\ ReturnWith(Failed("io"))
    /\ UNCHANGED <<serverVars, exchange, tries, unsent, got, header, frame, events,
                   toServer, toClient>>

AppQuits ==
    /\ caller \in {"write", "read", "lines"}
    /\ caller' = "gone"
    /\ UNCHANGED <<serverVars, exchange, tries, unsent, got, header, frame, events, result,
                   toServer, toClient>>

(***************************************************************************)
(* The core                                                                *)
(***************************************************************************)

CoreBoots ==
    /\ server = "down" /\ ~died
    /\ server' = "up"
    /\ UNCHANGED <<clientVars, buf, handled, unwritten, response, died, toServer, toClient>>

CoreStops ==
    /\ server # "closed" /\ ~died
    /\ server' = "down" /\ died' = TRUE
    /\ UNCHANGED <<clientVars, buf, handled, unwritten, response, toServer, toClient>>

\* The header is searched for in all that has been read. A body that is announced
\* as too large closes the connection without an answer.
ReadHead(bytes) ==
    /\ server = "head"
    /\ buf' = Behind(buf \o bytes)
    /\ server' = IF HeaderEnd(buf \o bytes) = 0 THEN "head"
                 ELSE IF exchange.length > MaxBody THEN "closed" ELSE "body"

ReadBody(bytes) ==
    /\ server = "body" /\ Len(buf) < exchange.length
    /\ buf' = buf \o bytes
    /\ UNCHANGED server

CoreReads ==
    /\ \E n \in 1..Len(toServer) :
          /\ ReadHead(SubSeq(toServer, 1, n)) \/ ReadBody(SubSeq(toServer, 1, n))
          /\ toServer' = SubSeq(toServer, n + 1, Len(toServer))
    /\ UNCHANGED <<clientVars, handled, unwritten, response, died, toClient>>

\* The client closes before the header is complete.
HeadCut ==
    /\ server = "head" /\ toServer = <<>> /\ ClientGone
    /\ server' = "closed"
    /\ UNCHANGED <<clientVars, buf, handled, unwritten, response, died, toServer, toClient>>

\* The body is complete, or the client has closed. What does not parse, a cut body
\* as well as none, is an empty object to the handler.
Handle ==
    /\ server = "body"
    /\ Len(buf) >= exchange.length \/ (toServer = <<>> /\ ClientGone)
    /\ server' = "handle"
    /\ handled' = IF Len(buf) < exchange.length THEN <<>> ELSE SubSeq(buf, 1, exchange.length)
    /\ UNCHANGED <<clientVars, buf, unwritten, response, died, toServer, toClient>>

\* The handler answers once, also to a stream it refuses, or opens a stream.
Answer ==
    /\ server = "handle"
    /\ \E text \in {"ok", "error"} :
          /\ response' = [response EXCEPT !.body = <<<<"json", text>>, <<"json end">>>>]
          /\ unwritten' = <<<<text>>>> \o Blank \o response'.body
    /\ server' = "answer"
    /\ UNCHANGED <<clientVars, buf, handled, died, toServer, toClient>>

OpenStream ==
    /\ server = "handle" /\ exchange.kind = "stream"
    /\ unwritten' = <<<<"ok">>>> \o Blank
    /\ server' = "stream"
    /\ UNCHANGED <<clientVars, buf, handled, response, died, toServer, toClient>>

\* The drain writes the next frame once the one before is out; the last one and
\* the end mark are followed by the end of the connection.
NextFrame ==
    /\ server = "stream" /\ unwritten = <<>>
    /\ \/ LET f == [event |-> "token", data |-> <<ToString(Len(response.frames))>>] IN
          /\ Len(response.frames) < MaxPushed
          /\ response' = [response EXCEPT !.frames = Append(@, f)]
          /\ unwritten' = Wire(f) /\ UNCHANGED server
       \/ LET f == [event |-> "done", data |-> <<"final">>] IN
          /\ response' = [response EXCEPT !.frames = @ \o <<f, EndMarkFrame>>]
          /\ unwritten' = Wire(f) \o Wire(EndMarkFrame) /\ server' = "answer"
    /\ UNCHANGED <<clientVars, buf, handled, died, toServer, toClient>>

\* write_all; a write to a client that is gone fails, and what is left of the
\* answer is dropped.
CoreWrites ==
    /\ server \in {"answer", "stream"}
    /\ \/ \E n \in 1..Len(unwritten) :
             /\ ~ClientGone /\ Len(toClient) + n <= Room
             /\ toClient' = toClient \o SubSeq(unwritten, 1, n)
             /\ unwritten' = SubSeq(unwritten, n + 1, Len(unwritten))
             /\ UNCHANGED server
       \/ /\ ClientGone \/ (server = "answer" /\ unwritten = <<>>)
          /\ server' = "closed"
          /\ UNCHANGED <<toClient, unwritten>>
    /\ UNCHANGED <<clientVars, buf, handled, response, died, toServer>>

ClientStep == Connect \/ ClientWrite \/ ClientReads \/ TakeLine \/ ClientSeesEnd
CoreStep   == CoreReads \/ HeadCut \/ Handle \/ Answer \/ OpenStream \/ NextFrame \/ CoreWrites

ConnNext == ClientStep \/ AppQuits \/ CoreBoots \/ CoreStops \/ CoreStep

\* The client's thread runs, and so do the tasks of the core while it is up.
ConnFairness == WF_connVars(ClientStep) /\ WF_connVars(CoreStep)
ConnSpec == ConnInit /\ [][ConnNext]_connVars /\ ConnFairness

(***************************************************************************)
(* Properties                                                              *)
(***************************************************************************)

\* What messages consist of, and what frames carry.
Payload == {ToString(k) : k \in 0..MaxPushed} \cup {"final", "[DONE]"}
Piece ==
    {<<"crlf">>, LineFeed, <<"request">>, <<"ok">>, <<"error">>, <<"json end">>}
    \cup {<<"json", text>> : text \in {"ok", "error"}}
    \cup {<<"byte", ToString(i)>> : i \in UNION {1..n : n \in Bodies}}
    \cup {<<"event", name>> : name \in {"token", "done"}}
    \cup {<<"data", value>> : value \in Payload}
CallFrame == [event : {"token", "done", "message"}, data : Seq(Payload)]

ConnTypeOK ==
    /\ exchange \in [kind : {"request", "stream"}, length : Bodies]
    /\ caller \in {"connect", "write", "read", "lines", "back", "gone"} /\ tries \in 0..Tries
    /\ server \in {"down", "up", "head", "body", "handle", "answer", "stream", "closed"}
    /\ died \in BOOLEAN /\ header \in {"open", "read", "past"}
    /\ {unsent, got, buf, unwritten, toServer, toClient} \subseteq Seq(Piece)
    /\ handled \in Seq(Piece) \cup {Unhandled}
    /\ frame \in CallFrame /\ events \in Seq(CallFrame)
    /\ response \in [body : Seq(Piece), frames : Seq(CallFrame)]
    /\ result.is \in {"none", "success", "connect", "io", "parse", "ok", "error"}
    /\ result.body \in Seq(Piece)
    /\ Len(toServer) <= Room /\ Len(toClient) <= Room

\* However the bytes of a call are cut into reads: the handler runs on the whole
\* body, or on an empty one if the app quit (never on a part of it); a call that
\* returns an answer returns the one the core gave, unless the core stopped; and
\* the frames handed to the app are the frames of the stream in their order, all
\* of them when the stream ends. Left out of the last is the stream that came
\* in the very read that completed the header (`FramesArrive`).
ExchangeWhole ==
    /\ handled \in {Unhandled, Body(exchange.length)} \/ (handled = <<>> /\ ClientGone)
    /\ result.is \in {"ok", "error"} /\ ~died => result.body = response.body
    /\ IsPrefix(events, response.frames)
    /\ result.is = "success" /\ ~died /\ header # "read" => events = response.frames

\* `stream` says of itself (UDSClient.swift:89-90) that it invokes onEvent "for
\* each frame as it arrives (blocks until the server closes)".
FramesArrive == result.is = "success" /\ ~died => events = response.frames

\* Every call returns: neither side waits for the other with its own buffer full,
\* and a core that is not there, refuses or stops ends the call.
CallReturns == <>[]ClientGone
===============================================================================

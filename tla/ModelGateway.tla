---------------------------- MODULE ModelGateway ----------------------------
(***************************************************************************)
(* The model gateway: which tier of the roster a request goes to, what of a *)
(* streamed answer may be shown, and how embeddings are put back in the      *)
(* order of the texts they belong to. Tiers and models are strings, text is  *)
(* a sequence of atoms. There is no state here: `AgentStream` and            *)
(* `MemoryStore` use these operators.                                        *)
(***************************************************************************)
EXTENDS Naturals, Sequences

(***************************************************************************)
(* Choosing a model                                                        *)
(***************************************************************************)

\* Task shape to tier.
Route(task, difficulty, latency) ==
    CASE task = "vision" -> "vlm"
      [] task = "embed"  -> "embed"
      [] task = "code"   -> "code"
      [] /\ task \notin {"vision", "embed", "code"}
         /\ \/ latency \/ difficulty = "low" \/ task \in {"route", "extract"} -> "fast"
      [] OTHER -> "smart"

\* "" and "auto" leave the choice to Route; any other name is taken as it is.
\* A tier that is not in the roster becomes "fast", except that an image is
\* never sent to a text model.
Select(roster, requested, task, difficulty, latency) ==
    LET tier == Route(task, difficulty, latency)
    IN  IF requested \notin {"", "auto"} THEN requested
        ELSE IF tier \notin roster /\ tier # "vlm" /\ "fast" \in roster THEN "fast"
        ELSE tier

\* What the chat, agent and stream handlers do: an image drops the explicit pick.
Chosen(roster, requested, image, task, difficulty, latency) ==
    Select(roster, IF image THEN "" ELSE requested,
           IF image THEN "vision" ELSE task, difficulty, latency)

(***************************************************************************)
(* What of an answer is shown. The tags <think> and </think> are two atoms   *)
(* each, since a chunk of the stream may end inside one.                     *)
(***************************************************************************)

Open  == <<"<th", "ink>">>
Close == <<"</th", "ink/>">>
Space == " "

\* The positions at which an occurrence of the tag ends.
EndsOf(tag, text) == {i \in 2..Len(text) : text[i - 1] = tag[1] /\ text[i] = tag[2]}

\* Everything after the last closing tag; nothing inside an unclosed one.
Visible(text) ==
    IF EndsOf(Close, text) # {}
    THEN SubSeq(text, 1 + (CHOOSE i \in EndsOf(Close, text) :
                              \A j \in EndsOf(Close, text) : j <= i), Len(text))
    ELSE IF EndsOf(Open, text) # {} THEN <<>> ELSE text

Trim(text) ==
    LET solid == {i \in 1..Len(text) : text[i] # Space}
    IN  IF solid = {} THEN <<>>
        ELSE SubSeq(text, CHOOSE i \in solid : \A j \in solid : i <= j,
                          CHOOSE i \in solid : \A j \in solid : j <= i)

(***************************************************************************)
(* Embeddings. An answer is a sequence of [index, emb]; the index is what    *)
(* the server wrote (its own position if it wrote none).                     *)
(***************************************************************************)

IsPermutation(data) ==
    /\ \A i \in 1..Len(data) : data[i].index \in 1..Len(data)
    /\ \A i, j \in 1..Len(data) : data[i].index = data[j].index => i = j

RealignByPosition(data) == [k \in 1..Len(data) |-> data[k].emb]

\* The order of the indices, or that of the answer when they are no permutation.
Realign(data) ==
    IF IsPermutation(data)
    THEN [k \in 1..Len(data) |-> data[CHOOSE i \in 1..Len(data) : data[i].index = k].emb]
    ELSE [k \in 1..Len(data) |-> data[k].emb]

\* One request for the texts of a chunk: no vectors when it fails or when the
\* answer is short.
None == <<>>
EmbedChunkSkipping(texts, reply) ==
    IF Len(reply) = Len(texts) THEN Realign(reply) ELSE <<>>
EmbedChunk(texts, reply) ==
    IF Len(reply) = Len(texts) THEN Realign(reply) ELSE [k \in 1..Len(texts) |-> None]
=============================================================================

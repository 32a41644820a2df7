----------------------------- MODULE MemoryStore -----------------------------
(***************************************************************************)
(* Long-term memory: the core blocks behind a Mutex with their file, and the *)
(* archival log with its vectors. Tool calls run on the blocking pool, so    *)
(* several are under way at once; `append_fact` and `append_facts` take no    *)
(* lock. Texts are sequences of segments (`Sanitizer`); the vector of a text  *)
(* is the text itself.                                                       *)
(***************************************************************************)
EXTENDS ModelGateway, Sanitizer, FiniteSetsExt

CONSTANTS Callers,    \* tool calls and requests that may be under way at once
          Facts,      \* what `remember` is called with
          Exports,    \* what is imported: sequences of conversations
          Blocks, Values,
          ChunkSize,  \* texts per request for embeddings (64)
          MaxFacts,   \* facts per import (5000)
          MaxOps      \* bound: calls that write, over a behaviour

ASSUME MemoryAssumption == ChunkSize \in Nat \ {0} /\ MaxFacts \in Nat /\ MaxOps \in Nat

Segment == [kind : STRING, val : Seq(STRING)]
Message == [role : STRING, size : STRING, text : Seq(Segment)]

\* An export is an array of conversations; an empty one imports nothing.
ASSUME ExportAssumption ==
    Exports \subseteq Seq([format : STRING, msgs : Seq(Message)]) \ {<<>>}

VARIABLES
    log,       \* archival.jsonl: the pieces written, facts and newlines
    core,      \* core blocks in memory
    coreFile,  \* core.json: blocks, or Torn
    holder,    \* who holds the Mutex of the core blocks
    mem,       \* what each caller is doing
    ops,       \* calls so far
    acked,     \* history: texts reported as remembered or imported
    lost,      \* history: texts that shared a line or whose write failed
    saved,     \* history: blocks as they were when last reported as set
    torn       \* history: a save of the blocks failed or was cut short

logVars  == <<log, acked, lost>>
coreVars == <<core, coreFile, holder, saved, torn>>
memVars  == <<log, core, coreFile, holder, mem, ops, acked, lost, saved, torn>>

Absent  == "absent"
Torn    == [b \in {} |-> Absent]
Nobody  == "nobody"
Idle    == [st |-> "idle"]
NoBlocks == [b \in Blocks |-> Absent]

ASSUME CallerAssumption == Nobody \notin Callers

(***************************************************************************)
(* The log                                                                 *)
(***************************************************************************)

Fact(text, emb, origin) == [text |-> text, emb |-> emb, origin |-> origin]
Newline == Fact(<<>>, None, "newline")
Part    == Fact(<<>>, None, "part")    \* a piece that was cut short
Garbled == Fact(<<>>, None, "garbled") \* one that was cut inside a character
Stumps  == {Part, Garbled}
IsFact(piece) == piece.origin \in {"trusted", "untrusted"}

\* The last newline, and the pieces of the line that is still open.
LastNewline(lg) == Max({0} \cup {i \in DOMAIN lg : lg[i] = Newline})
OpenLine(lg)    == {lg[i] : i \in (LastNewline(lg) + 1)..Len(lg)}

\* The file is read as one string, or not at all if a character of it is incomplete.
\* A line parses when it is exactly one fact.
Unreadable(lg) == \E i \in DOMAIN lg : lg[i] = Garbled
AllFacts(lg) ==
    {lg[i] : i \in {k \in DOMAIN lg :
        /\ IsFact(lg[k]) /\ ~Unreadable(lg)
        /\ k = 1 \/ lg[k - 1] = Newline
        /\ k = Len(lg) \/ lg[k + 1] = Newline}}

\* The facts a search ranks first: by vector when the query has one and any fact
\* does, by words otherwise. What else fills up the answer is left open.
Search(lg, query, embeds) ==
    LET vectors == {f \in AllFacts(lg) : f.emb # None}
    IN  IF embeds /\ vectors # {} THEN {f \in vectors : f.emb = query}
        ELSE {f \in AllFacts(lg) : f.text = query}

\* The texts a failed or overlapping write takes with it: those of the open line
\* and, if there is any, those of the new piece.
Sharing(lg, piece) ==
    IF OpenLine(lg) = {} THEN {} ELSE {p.text : p \in OpenLine(lg) \cup {piece}}

(***************************************************************************)
(* Embeddings of a batch                                                   *)
(***************************************************************************)

\* What the server may answer for a chunk: nothing or too little, any order with
\* right indices, or the order of the texts with indices that are none.
Orders(n) == {p \in [1..n -> 1..n] : \A i, j \in 1..n : p[i] = p[j] => i = j}
Answers(texts) ==
    LET n == Len(texts)
    IN  {<<>>, [k \in 1..n |-> [index |-> 1, emb |-> texts[k]]],
         [k \in 1..n |-> [index |-> n + 1, emb |-> texts[k]]]}
        \cup {[k \in 1..n |-> [index |-> p[k], emb |-> texts[p[k]]]] : p \in Orders(n)}

\* The chunks of a batch, and the vectors all their answers may come to.
Chunked(texts) ==
    [k \in 1..((Len(texts) + ChunkSize - 1) \div ChunkSize) |->
        SubSeq(texts, (k - 1) * ChunkSize + 1, Min({k * ChunkSize, Len(texts)}))]
EmbedMany(texts) ==
    LET chunks  == Chunked(texts)
        vectors == [k \in DOMAIN chunks |-> {EmbedChunk(chunks[k], a) : a \in Answers(chunks[k])}]
    IN  {FlattenSeq(v) : v \in {f \in [DOMAIN chunks -> UNION Range(vectors)] :
                                    \A k \in DOMAIN f : f[k] \in vectors[k]}}

\* The lines of a batch: texts and vectors side by side, as long as both last.
Batch(texts, embs) ==
    [k \in 1..Min({Len(texts), Len(embs)}) |-> Fact(texts[k], embs[k], "untrusted")]
Lines(facts) == FlattenSeq([k \in DOMAIN facts |-> <<facts[k], Newline>>])

(***************************************************************************)
(* Imports                                                                 *)
(***************************************************************************)

\* The format is that of the first conversation; conversations of another one
\* have no messages the reader finds.
Messages(export) ==
    FlattenSeq([k \in DOMAIN export |->
        IF export[k].format = export[1].format THEN export[k].msgs ELSE <<>>])

\* "human" is the user, except in an export of ChatGPT, which has no such role.
Role(format, msg) == IF msg.role = "human" /\ format # "chatgpt" THEN "user" ELSE msg.role
Wanted(format, msg, include) ==
    Role(format, msg) \in (IF include THEN {"user", "assistant"} ELSE {"user"})

\* A message that is empty, too long or one too many is skipped before it is
\* sanitized. `from` is the label of the fact.
PrepFact(acc, msg, sanitize) ==
    LET s == Sanitized(acc.mapping, msg.text)
        from == [kind |-> "from", val |-> <<IF msg.role = "assistant" THEN "assistant" ELSE "you">>]
    IN  IF msg.size # "fits" \/ Len(acc.texts) >= MaxFacts
        THEN acc
        ELSE [acc EXCEPT !.mapping = IF sanitize THEN s.mapping ELSE @,
                         !.raw     = Append(@, msg.text),
                         !.texts   = Append(@, <<from>> \o (IF sanitize THEN s.text ELSE msg.text))]

\* One sanitizer for the whole import.
Ingested(export, include, sanitize) ==
    LET msgs == Messages(export)
        upTo[k \in 0..Len(msgs)] ==
            IF k = 0 THEN [mapping |-> NewSanitizer, texts |-> <<>>, raw |-> <<>>]
            ELSE IF Wanted(export[1].format, msgs[k], include)
                 THEN PrepFact(upTo[k - 1], msgs[k], sanitize) ELSE upTo[k - 1]
    IN  upTo[Len(msgs)]

\* Every import a caller can ask for, with the facts it comes to.
Imports ==
    UNION {LET in == Ingested(export, include, sanitize)
           IN  {[st |-> "batch", texts |-> in.texts, raw |-> in.raw, clean |-> sanitize,
                 facts |-> Batch(in.texts, embs)] : embs \in EmbedMany(in.texts)}
           : export \in Exports, include \in BOOLEAN, sanitize \in BOOLEAN}

(***************************************************************************)
(* Appending facts                                                         *)
(***************************************************************************)

MemInit ==
    /\ log = <<>>
    /\ core = NoBlocks /\ coreFile = NoBlocks /\ holder = Nobody
    /\ mem = [c \in Callers |-> Idle] /\ ops = 0
    /\ acked = {} /\ lost = {} /\ saved = NoBlocks /\ torn = FALSE

\* An import counts as two calls towards the bound.
Start(c, stage) ==
    /\ mem[c] = Idle
    /\ ops' = ops + (IF stage.st = "batch" THEN 2 ELSE 1) /\ ops' <= MaxOps
    /\ mem' = [mem EXCEPT ![c] = stage]
    /\ UNCHANGED <<logVars, coreVars>>

\* remember: the text is embedded, or not, before the file is opened.
Remember(c) ==
    \E text \in Facts : \E emb \in {text, None} :
        Start(c, [st |-> "text", fact |-> Fact(text, emb, "trusted")])

\* One write for the text. It may fail, with a part of the line in the file, cut
\* between two characters or inside one, or nothing; the tool says "remembered" all
\* the same.
WriteText(c) ==
    /\ mem[c].st = "text"
    /\ LET f == mem[c].fact
       IN  \/ /\ log' = Append(log, f)
              /\ lost' = lost \cup Sharing(log, f)
              /\ mem' = [mem EXCEPT ![c].st = "newline"]
              /\ UNCHANGED acked
           \/ /\ log' \in {log} \cup {Append(log, p) : p \in Stumps}
              /\ lost' = lost \cup {f.text} \cup (IF log' = log THEN {} ELSE Sharing(log, f))
              /\ mem' = [mem EXCEPT ![c] = Idle]
              /\ acked' = acked \cup {f.text}
    /\ UNCHANGED <<coreVars, ops>>

\* And one for the newline.
WriteNewline(c) ==
    /\ mem[c].st = "newline"
    /\ log' \in {Append(log, Newline), log}
    /\ acked' = acked \cup {mem[c].fact.text}
    /\ mem' = [mem EXCEPT ![c] = Idle]
    /\ UNCHANGED <<coreVars, ops, lost>>

\* ingest: the export is read, filtered, sanitized and embedded in chunks.
Ingest(c) == \E batch \in Imports : Start(c, batch)

\* One write for all lines. It may fail after some of them, or be cut in one; the
\* report counts the facts collected.
WriteBatch(c) ==
    /\ mem[c].st = "batch"
    /\ LET lines == Lines(mem[c].facts)
           texts(lg) == {lg[i].text : i \in {k \in DOMAIN lg : IsFact(lg[k])}}
       IN  \/ /\ log' = log \o lines
              /\ lost' = lost \cup (IF lines = <<>> THEN {} ELSE Sharing(log, Head(lines)))
           \/ \E n \in 0..Len(mem[c].facts) - 1 :
              \E cut \in {<<>>} \cup {<<p>> : p \in Stumps} :
                 /\ log' = log \o SubSeq(lines, 1, 2 * n) \o cut
                 /\ lost' = lost \cup texts(SubSeq(lines, 2 * n + 1, Len(lines)))
                               \cup (IF log' = log THEN {} ELSE Sharing(log, Head(lines)))
    /\ acked' = acked \cup {mem[c].texts[i] : i \in DOMAIN mem[c].texts}
    /\ mem' = [mem EXCEPT ![c] = Idle]
    /\ UNCHANGED <<coreVars, ops>>

(***************************************************************************)
(* Core blocks                                                             *)
(***************************************************************************)

SetMemory(c) ==
    \E b \in Blocks, v \in Values : Start(c, [st |-> "put", block |-> b, value |-> v])

\* consolidate: facts are gathered for the prompt, the model is asked, and the block
\* the request names is set from what it answers; nothing is done if there is no
\* fact or the model fails.
Consolidate(c) ==
    /\ AllFacts(log) # {}
    /\ \E b \in Blocks, v \in Values : Start(c, [st |-> "asked", block |-> b, value |-> v])
ModelAnswers(c) ==
    /\ mem[c].st = "asked"
    /\ mem' \in {[mem EXCEPT ![c].st = "put"], [mem EXCEPT ![c] = Idle]}
    /\ UNCHANGED <<logVars, coreVars, ops>>

PutBlockUnlocked(c) ==
    /\ mem[c].st = "put"
    /\ core' = [core EXCEPT ![mem[c].block] = mem[c].value]
    /\ mem' = [mem EXCEPT ![c] = [st |-> "truncate", blocks |-> core']]
    /\ holder' = c
    /\ UNCHANGED <<logVars, ops, coreFile, saved, torn>>

\* set_block takes the Mutex, changes the map and saves it before it lets go.
PutBlock(c) ==
    /\ mem[c].st = "put" /\ holder = Nobody
    /\ core' = [core EXCEPT ![mem[c].block] = mem[c].value]
    /\ mem' = [mem EXCEPT ![c] = [st |-> "truncate", blocks |-> core']]
    /\ holder' = c
    /\ UNCHANGED <<logVars, ops, coreFile, saved, torn>>

\* fs::write opens and truncates, then writes; errors are ignored and the caller
\* is told that the block is set.
Saved(c, faulty) ==
    /\ mem' = [mem EXCEPT ![c] = Idle]
    /\ holder' = Nobody
    /\ saved' = mem[c].blocks
    /\ torn' = (torn \/ faulty)
TruncateCore(c) ==
    /\ mem[c].st = "truncate"
    /\ \/ /\ coreFile' = Torn
          /\ mem' = [mem EXCEPT ![c].st = "write"]
          /\ UNCHANGED <<holder, saved, torn>>
       \/ UNCHANGED coreFile /\ Saved(c, TRUE)
    /\ UNCHANGED <<logVars, core, ops>>
WriteCore(c) ==
    /\ mem[c].st = "write"
    /\ \/ coreFile' = mem[c].blocks /\ Saved(c, FALSE)
       \/ UNCHANGED coreFile /\ Saved(c, TRUE)
    /\ UNCHANGED <<logVars, core, ops>>

\* The core stops at any instant and comes back: blocks that do not parse open as
\* none.
MemRestart ==
    /\ core' = IF coreFile = Torn THEN NoBlocks ELSE coreFile
    /\ torn' = (torn \/ coreFile = Torn)
    /\ saved' = IF coreFile = Torn THEN saved ELSE coreFile
    /\ holder' = Nobody
    /\ mem' = [c \in Callers |-> Idle]
    /\ mem' # mem
    /\ UNCHANGED <<logVars, coreFile, ops>>

MemNext ==
    \/ \E c \in Callers :
          \/ Remember(c) \/ WriteText(c) \/ WriteNewline(c)
          \/ Ingest(c) \/ WriteBatch(c)
          \/ SetMemory(c) \/ Consolidate(c) \/ ModelAnswers(c)
          \/ PutBlock(c) \/ TruncateCore(c) \/ WriteCore(c)
    \/ MemRestart

MemSpec == MemInit /\ [][MemNext]_memVars

(***************************************************************************)
(* Properties                                                              *)
(***************************************************************************)

MemTypeOK ==
    /\ \A i \in DOMAIN log : log[i].origin \in {"trusted", "untrusted", "newline", "part", "garbled"}
    /\ core \in [Blocks -> Values \cup {Absent}]
    /\ coreFile \in [Blocks -> Values \cup {Absent}] \cup {Torn}
    /\ saved \in [Blocks -> Values \cup {Absent}]
    /\ holder \in Callers \cup {Nobody} /\ ops \in 0..MaxOps /\ torn \in BOOLEAN
    /\ \A c \in Callers : mem[c].st \in {"idle", "text", "newline", "batch", "asked", "put",
                                          "truncate", "write"}

\* What `remember` or an import reported as kept is found by a search for it,
\* however appends of other callers, failing writes and restarts fall (append_fact,
\* append_facts, search). Three cases are left out: a text whose line was shared with
\* another append or whose own write failed (`lost`); a text that was stored without a
\* vector while another fact has one, which no semantic search returns; and a log with
\* one write cut inside a character, of which no fact at all is found (all_facts).
RememberedIsFound ==
    ~Unreadable(log) =>
        \A text \in acked \ lost : \A embeds \in BOOLEAN :
            \/ \E f \in Search(log, text, embeds) : f.text = text
            \/ embeds /\ \E f \in AllFacts(log) : f.text = text /\ f.emb = None

\* The vector stored with a fact is the vector of that fact's text, whatever order
\* the embedding server answers in and whichever chunks fail (realign_embeddings,
\* embed_many, append_facts).
VectorsBelong ==
    \A i \in DOMAIN log : IsFact(log[i]) => log[i].emb \in {log[i].text, None}

\* Unless a save failed or was cut short, the file of the core blocks is what the
\* callers were told is set, whenever nobody holds the Mutex, and memory agrees with
\* both: two saves never land in the wrong order and a restart loses no block
\* (set_block, persist_core, open).
BlocksKept == ~torn /\ holder = Nobody => coreFile = saved /\ core = saved

\* What sanitizing promises of the texts of one import; the segments of a text stand
\* behind its label.
Categories(seg) == {r \in ToSet(Rules) : Matches(r, seg)}
Scrubbed(raw, texts) ==
    LET marked(i, j) == \E r \in Categories(raw[i][j]) : Reached(r, raw[i], j)
    IN  /\ \A i \in DOMAIN raw : \A j \in DOMAIN raw[i] :
              IF marked(i, j) THEN texts[i][j + 1].kind = "placeholder"
              ELSE texts[i][j + 1] = raw[i][j]
        /\ \A h, i \in DOMAIN raw : \A j \in DOMAIN raw[h], k \in DOMAIN raw[i] :
              marked(h, j) /\ marked(i, k) =>
                  (texts[h][j + 1] = texts[i][k + 1] <=>
                      raw[h][j].val = raw[i][k].val /\ Categories(raw[h][j]) = Categories(raw[i][k]))

\* In one import, across all its messages, every segment a rule matches is replaced,
\* unless this rule exceeded the limit of the engine earlier in the same message, and
\* no other segment is touched; a rule that gives up changes nothing for the others.
\* Two replaced segments get the same placeholder exactly when they are the same value
\* of the same category (replace_all_with, placeholder, one Sanitizer per ingest_value).
PlaceholdersFaithful ==
    \A c \in Callers : mem[c].st = "batch" /\ mem[c].clean => Scrubbed(mem[c].raw, mem[c].texts)
=============================================================================

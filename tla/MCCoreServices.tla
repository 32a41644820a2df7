---------------------------- MODULE MCCoreServices ----------------------------
(***************************************************************************)
(* The services of the core that share no state: a streamed answer, memory,   *)
(* the tools that leave the core, the notes, the PDF writer, one call over     *)
(* the socket. A behaviour is about one of them, `part`, and the others stay   *)
(* as they are.                                                            *)
(***************************************************************************)
EXTENDS AgentStream, MemoryStore, ToolHost, Vault, Documents, Connection

VARIABLE part

Seg(kind, val)        == [kind |-> kind, val |-> <<val>>]
Msg(role, size, text) == [role |-> role, size |-> size, text |-> text]
McFacts == {<<Seg("plain", "t1")>>, <<Seg("plain", "t2")>>}

\* Repeated values, within a message and across messages, of one category and of
\* two, and behind the limit of the engine for one of them; a message that is too
\* long; one message more than an import takes. The second export mixes formats.
McExports ==
    {<<[format |-> "chatgpt",
        msgs |-> <<Msg("user", "fits", <<Seg("EMAIL", "a"), Seg("plain", "x"), Seg("EMAIL", "b")>>),
                   Msg("assistant", "fits", <<Seg("EMAIL", "b"), Seg("digits", "9"), Seg("PHONE", "1")>>),
                   Msg("user", "long", <<Seg("plain", "y")>>),
                   Msg("user", "fits", <<Seg("card", "1"), Seg("EMAIL", "a"), Seg("hard", "EMAIL"),
                                         Seg("EMAIL", "b"), Seg("PHONE", "1")>>),
                   Msg("user", "fits", <<Seg("plain", "z")>>)>>]>>,
     <<[format |-> "claude", msgs |-> <<Msg("human", "fits", <<Seg("plain", "z")>>)>>],
       [format |-> "chatgpt", msgs |-> <<Msg("user", "fits", <<Seg("plain", "y")>>)>>]>>}

Core(name, irreversible)   == [kind |-> "core", name |-> <<name>>, irreversible |-> irreversible]
Bridge(name, irreversible) == [Core(name, irreversible) EXCEPT !.kind = "bridge"]
Skill(name, exec, auto)    == [kind |-> "skill", name |-> name, exec |-> exec, auto |-> auto]
Mcp(prefix, mute)          == [kind |-> "mcp", prefix |-> prefix, mute |-> mute]

\* Skills that take names of the core, of the bridge, of an imported tool and of
\* each other, in two orders; servers that do and do not answer.
McPlans ==
    LET own    == <<Core("read_note", FALSE), Core("write_note", TRUE)>>
        bridge == <<Bridge("system_status", FALSE), Bridge("calendar_create", TRUE)>>
        skills == <<Skill(<<"say">>, "vouched", TRUE), Skill(<<"write_note">>, "vouched", TRUE),
                    Skill(<<"calendar_create">>, "vouched", TRUE), Skill(<<"say">>, "other", TRUE)>>
    IN  {own \o <<Mcp("mcp", FALSE)>> \o skills \o bridge,
         own \o Reverse(skills) \o <<Mcp("say", TRUE)>> \o bridge,
         own \o <<Skill(<<"mcp", "x">>, "vouched", TRUE), Skill(<<"y">>, "invalid", TRUE),
                   Mcp("mcp", FALSE)>>}
McRemotes == {<<"x">>}

McPaths == {[note |-> "n1", up |-> FALSE, folder |-> "inside"],
            [note |-> "n2", up |-> FALSE, folder |-> "inside"],
            [note |-> "n1", up |-> TRUE, folder |-> "inside"],
            [note |-> "n2", up |-> FALSE, folder |-> "own"]}

\* Words of more than half a column, short ones, ones longer than the column; pages
\* that are exactly full and pages with one line too many; characters of ASCII, a mark
\* and a letter the fonts have no code for.
Blk(kind, n, w) == [kind |-> kind, words |-> [i \in 1..n |-> w]]
Wide  == [n |-> 28, em |-> 1015, sym |-> "@"]
Short == [n |-> 4, em |-> 556, sym |-> "e acute"]
Long  == [n |-> 120, em |-> 556, sym |-> "em dash"]
McInputs ==
    {Blk("title", 1, Short), Blk("h1", 2, Short), Blk("h2", 40, Short), Blk("h3", 1, Long),
     Blk("para", 39, Wide), Blk("para", 42, Wide), Blk("para", 3, Short), Blk("para", 0, Short),
     Blk("bullet", 1, Wide), Blk("numbered", 2, Long), Blk("rule", 0, Short)}

NoTools == ToolInit /\ ~mcp.mute /\ plan = CHOOSE p \in BootPlans : TRUE
NoVault == VaultInit /\ vault = [n \in Notes |-> NoNote]
NoExchange == ConnInit /\ server = "up" /\ exchange = [kind |-> "request", length |-> 0]

McInit ==
    /\ MemInit /\ DocInit /\ Init
    /\ \/ part \in {"stream", "memory", "document"} /\ NoTools /\ NoVault /\ NoExchange
       \/ part = "tools" /\ ToolInit /\ NoVault /\ NoExchange
       \/ part = "vault" /\ NoTools /\ VaultInit /\ NoExchange
       \/ part = "connection" /\ NoTools /\ NoVault /\ ConnInit

McNext ==
    /\ part' = part
    /\ \/ part = "stream" /\ Next /\ UNCHANGED <<memVars, toolVars, vaultVars, docVars, connVars>>
       \/ part = "memory" /\ MemNext /\ UNCHANGED <<vars, toolVars, vaultVars, docVars, connVars>>
       \/ part = "tools" /\ ToolNext /\ UNCHANGED <<vars, memVars, vaultVars, docVars, connVars>>
       \/ part = "vault" /\ VaultNext /\ UNCHANGED <<vars, memVars, toolVars, docVars, connVars>>
       \/ part = "document" /\ DocNext /\ UNCHANGED <<vars, memVars, toolVars, vaultVars, connVars>>
       \/ part = "connection" /\ ConnNext /\ UNCHANGED <<vars, memVars, toolVars, vaultVars, docVars>>

\* The fairness of AgentStream, ToolHost and Connection, each for its own part.
McFairness ==
    /\ WF_vars(part = "stream" /\ Runner) /\ WF_vars(part = "stream" /\ Drain)
    /\ WF_toolVars(part = "tools" /\ BootStep)
    /\ WF_toolVars(part = "tools" /\ ServerAnswers)
    /\ \A c \in Clients : WF_toolVars(part = "tools" /\ ToolSteps(c))
    /\ WF_connVars(part = "connection" /\ ClientStep) /\ WF_connVars(part = "connection" /\ CoreStep)

McSpec == McInit /\ [][McNext]_<<part, vars, memVars, toolVars, vaultVars, docVars, connVars>> /\ McFairness

\* The streamed answer ends (`StreamEnds`), and so does every call over the socket
\* (`CallReturns`).
HandlerReturns == (part = "stream" => StreamEnds) /\ (part = "connection" => CallReturns)

\* Tool calls and the boot come to an end (`CallsReturn`).
ToolsReturn == part = "tools" => CallsReturn
=============================================================================

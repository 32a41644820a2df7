-------------------------------- MODULE Vault --------------------------------
(***************************************************************************)
(* Notes as files: the vault tools (write, append) and the notes tool         *)
(* (write_note). A tool call looks at the file, then rewrites it whole with   *)
(* `fs::write`; there is no lock, neither between calls nor against the       *)
(* operator, who edits the same notes in Obsidian. A path is a set of facts    *)
(* about it, its note the file it resolves to.                                *)
(***************************************************************************)
EXTENDS Naturals, Sequences, SequencesExt

CONSTANTS Writers,   \* tool calls under way at once
          Paths,     \* what the tools are asked for: [note, up, folder]
          Additions,   \* what is written
          MaxEdits   \* bound: calls and edits of a behaviour

ASSUME VaultAssumption == MaxEdits \in Nat

VARIABLES
    vault,    \* note -> its file
    wr,       \* what each call is doing
    edits,    \* calls and edits so far
    kept,     \* history: <<note, entry>> that a call reported as written
    disturbed \* history: notes on which calls overlapped or a write was cut short

vaultVars == <<vault, wr, edits, kept, disturbed>>

NoNote   == [kind |-> "none", lines |-> <<>>]
Opaque   == [kind |-> "opaque", lines |-> <<>>]    \* bytes that are no UTF-8
Text(ls) == [kind |-> "text", lines |-> ls]
Asleep   == [st |-> "idle"]
Notes    == {p.note : p \in Paths}

\* A path with a ".." part, or whose folder is missing, outside the vault or one of
\* Obsidian's own, is refused.
SafeVaultPath(p) == ~p.up /\ p.folder = "inside"

\* What `append` joins its text to: a note that cannot be read counts as empty,
\* whether it is no text or the read of a text fails.
ReadOrEmpty(note, readable) == IF readable THEN vault[note].lines ELSE <<>>

Busy(note)  == \E w \in Writers : wr[w].st # "idle" /\ wr[w].note = note
Of(note)    == {k \in kept : k[1] = note}

VaultInit ==
    /\ vault \in [Notes -> {NoNote, Opaque}]
    /\ wr = [w \in Writers |-> Asleep] /\ edits = 0
    /\ kept = {} /\ disturbed = {}

\* `drops`: the body does without what the note holds.
Rewrite(w, note, entry, body, drops) ==
    /\ wr[w] = Asleep /\ edits < MaxEdits
    /\ edits' = edits + 1
    /\ wr' = [wr EXCEPT ![w] = [st |-> "truncate", note |-> note, entry |-> entry, body |-> body,
                                drops |-> drops]]
    /\ disturbed' = disturbed \cup (IF Busy(note) THEN {note} ELSE {})
    /\ UNCHANGED <<vault, kept>>

\* obsidian_write keeps a note that exists unless the caller wants it replaced;
\* write_note does not ask.
WriteNote(w) ==
    \E p \in Paths, entry \in Additions, overwrite \in BOOLEAN :
        /\ SafeVaultPath(p)
        /\ vault[p.note].kind = "none" \/ overwrite
        /\ Rewrite(w, p.note, entry, <<entry>>, overwrite)

AppendNoteReplacing(w) ==
    \E p \in Paths, entry \in Additions :
        SafeVaultPath(p) /\ Rewrite(w, p.note, entry, <<entry>>, FALSE)

\* obsidian_append reads the text so far and joins the new text to it.
AppendNote(w) ==
    \E p \in Paths, entry \in Additions, readable \in BOOLEAN :
        /\ SafeVaultPath(p)
        /\ Rewrite(w, p.note, entry, Append(ReadOrEmpty(p.note, readable), entry), ~readable)

\* fs::write opens and truncates, and then writes. Either may fail, and the call
\* says so; when the second does, the note has lost its text.
Truncate(w) ==
    /\ wr[w].st = "truncate"
    /\ \/ /\ vault' = [vault EXCEPT ![wr[w].note] = Text(<<>>)]
          /\ wr' = [wr EXCEPT ![w].st = "write"]
          /\ kept' = kept \ (IF wr[w].drops THEN Of(wr[w].note) ELSE {})
       \/ wr' = [wr EXCEPT ![w] = Asleep] /\ UNCHANGED <<vault, kept>>
    /\ UNCHANGED <<edits, disturbed>>
WriteBody(w) ==
    /\ wr[w].st = "write"
    /\ LET note == wr[w].note
       IN  \/ /\ vault' = [vault EXCEPT ![note] = Text(wr[w].body)]
              /\ kept' = kept \cup {<<note, wr[w].entry>>}
              /\ UNCHANGED disturbed
           \/ disturbed' = disturbed \cup {note} /\ UNCHANGED <<vault, kept>>
    /\ wr' = [wr EXCEPT ![w] = Asleep]
    /\ UNCHANGED edits

\* The operator rewrites or removes a note in Obsidian.
OperatorEdits ==
    /\ edits < MaxEdits /\ edits' = edits + 1
    /\ \E note \in Notes, now \in {NoNote, Opaque, Text(<<"own">>)} :
          /\ vault' = [vault EXCEPT ![note] = now]
          /\ kept' = kept \ Of(note)
          /\ disturbed' = disturbed \cup (IF Busy(note) THEN {note} ELSE {})
    /\ UNCHANGED wr

\* The core stops; a note that was truncated stays empty.
VaultRestart ==
    /\ wr' = [w \in Writers |-> Asleep] /\ wr' # wr
    /\ disturbed' = disturbed \cup {wr[w].note : w \in {v \in Writers : wr[v].st = "write"}}
    /\ UNCHANGED <<vault, edits, kept>>

VaultNext ==
    \/ \E w \in Writers : WriteNote(w) \/ AppendNote(w) \/ Truncate(w) \/ WriteBody(w)
    \/ OperatorEdits \/ VaultRestart
VaultSpec == VaultInit /\ [][VaultNext]_vaultVars

(***************************************************************************)
(* Properties                                                              *)
(***************************************************************************)

VaultTypeOK ==
    /\ vault \in [Notes -> [kind : {"none", "opaque", "text"}, lines : Seq(Additions \cup {"own"})]]
    /\ wr \in [Writers -> {Asleep} \cup [st : {"truncate", "write"}, note : Notes, entry : Additions,
                                          body : Seq(Additions \cup {"own"}), drops : BOOLEAN]]
    /\ edits \in 0..MaxEdits /\ kept \subseteq Notes \X Additions /\ disturbed \subseteq Notes

\* What a call reported as written to a note is still in it, over any sequence of
\* appends, failed writes and restarts, until the note is replaced: by a caller who
\* asked to, by the operator, or by an append that could not read it, which takes it
\* for empty and reports success all the same (obsidian_append, obsidian_write). Left
\* out are notes on which two calls, or a call and the operator, overlapped, and notes
\* whose rewriting was cut short: the code protects neither.
NotesKept ==
    \A k \in kept : k[1] \notin disturbed /\ ~Busy(k[1]) =>
        \E i \in DOMAIN vault[k[1]].lines : vault[k[1]].lines[i] = k[2]
=============================================================================

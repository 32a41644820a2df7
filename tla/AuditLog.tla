------------------------------ MODULE AuditLog ------------------------------
(***************************************************************************)
(* The append-only audit log (ginexus-security/audit.rs) and the boot      *)
(* sequence that checks it (ginexus-server/main.rs).                       *)
(*                                                                         *)
(* A line of audit.jsonl is an entry chained to the previous one and keyed *)
(* with the audit key of the boot that wrote it, Garbled when it is not    *)
(* one JSON text, or Torn when, besides, it ends within a character: while *)
(* such a line is in it, the file as a whole cannot be read.  A hash is a  *)
(* number no other entry has.  `record` writes the text and the newline    *)
(* with two calls of write, under one Mutex; any call may fail, and the    *)
(* process may stop between them.  Nothing is ever synced, so the end of   *)
(* the file may be lost, at any byte, while the core is down.              *)
(***************************************************************************)
EXTENDS Integers, Sequences, FiniteSets, FiniteSetsExt

CONSTANTS
    Writers,        \* tasks that record events
    Keys,           \* audit keys boots are given (GINEXUS_AUDIT_KEY)
    NoKey,
    MaxRecords,     \* bound on the entries ever hashed
    MaxBoots        \* bound on the boots of the core

ASSUME KeyAssumption == NoKey \notin Keys

ASSUME BoundAssumption == MaxRecords \in Nat /\ MaxBoots \in Nat

Genesis == 0
Unset == -1

VARIABLES
    phase,      \* where the boot sequence of the core is
    boots,      \* boots so far
    key,        \* AuditLog.key
    head,       \* AuditLog.head, Unset when the core is down
    logFile,    \* the lines of audit.jsonl
    open,       \* the last line lacks its newline
    anchor,     \* audit.head, NoAnchor when absent or cut short
    hashed,     \* entries hashed so far; the next hash is one more
    w,          \* per writer: its call of record
    recorded,   \* history: the hashes record answered Ok with
    anchored,   \* history: the hashes read in the log when anchor was written
    cuts,       \* history: lines cut short by an error, a crash or a lost end
    lost        \* history: the end of the file was lost

auditVars == <<phase, boots, key, head, logFile, open, anchor, hashed, w,
               recorded, anchored, cuts, lost>>
history == <<recorded, anchored, cuts, lost>>

Hash == Genesis..MaxRecords
Entry == [prev : Hash, hash : Hash \ {Genesis}, key : Keys]
Garbled == [prev |-> Unset, hash |-> Unset, key |-> NoKey]
Torn == [prev |-> Genesis, hash |-> Unset, key |-> NoKey]
Anchor == [head : Hash, key : Keys]
NoAnchor == [head |-> Unset, key |-> NoKey]
NotRecording == [at |-> "idle", prev |-> Genesis, hash |-> Genesis]

AuditTypeOK ==
    /\ phase \in {"down", "rejected", "anchor", "anchor_write", "start", "serving"}
    /\ boots \in 0..MaxBoots
    /\ key \in Keys \cup {NoKey}
    /\ head \in Hash \cup {Unset}
    /\ logFile \in Seq(Entry \cup {Garbled, Torn})
    /\ open \in BOOLEAN
    /\ anchor \in Anchor \cup {NoAnchor}
    /\ hashed \in 0..MaxRecords
    /\ w \in [Writers -> [at : {"idle", "line", "newline"}, prev : Hash, hash : Hash]]
    /\ recorded \in SUBSET Hash
    /\ anchored \in SUBSET Hash
    /\ cuts \in Nat
    /\ lost \in BOOLEAN

AuditInit ==
    /\ phase = "down"
    /\ boots = 0
    /\ key = NoKey
    /\ head = Unset
    /\ logFile = <<>>
    /\ open = FALSE
    /\ anchor = NoAnchor
    /\ hashed = 0
    /\ w = [c \in Writers |-> NotRecording]
    /\ recorded = {}
    /\ anchored = {}
    /\ cuts = 0
    /\ lost = FALSE

Stopped == phase \in {"down", "rejected"}
Hashes == {logFile[i].hash : i \in DOMAIN logFile} \ {Unset}


\* read_to_string takes the whole file or, for one torn character, nothing.
Readable == \A i \in DOMAIN logFile : logFile[i] # Torn
Parsed == IF Readable THEN {i \in DOMAIN logFile : logFile[i] # Garbled} ELSE {}
Read == {logFile[i].hash : i \in Parsed}

LastHashOfLastLine == IF logFile = <<>> THEN Genesis ELSE logFile[Len(logFile)].hash

\* The last line that parses; lines that do not are skipped.
LastHash == IF Parsed = {} THEN Genesis ELSE logFile[Max(Parsed)].hash

\* verify(None): each line parses, follows its predecessor and has our MAC.
\* An unreadable file is taken for one that is not there yet.
Verified(k) ==
    Readable => \A i \in DOMAIN logFile :
      /\ i \in Parsed
      /\ logFile[i].prev = IF i = 1 THEN Genesis ELSE logFile[i - 1].hash
      /\ logFile[i].key = k

ContainsHash(h) == h = Genesis \/ h \in Read

\* read_anchor: the head, if the file parses and its MAC is ours.
ReadsAnchor(k) == anchor # NoAnchor /\ anchor.key = k

-----------------------------------------------------------------------------
(* The boot sequence *)

BootCheckAtHead(k) ==
    ReadsAnchor(k) => Verified(k) /\ anchor.head = LastHash

BootCheckNoChain(k) ==
    ReadsAnchor(k) => Verified(k)

BootCheck(k) ==
    ReadsAnchor(k) => Verified(k) /\ ContainsHash(anchor.head)

\* A failed check ends the process with code 70, before it serves anything.
AuditBoot(k) ==
    /\ Stopped
    /\ boots < MaxBoots
    /\ boots' = boots + 1
    /\ key' = k
    /\ \/ /\ BootCheck(k)
          /\ phase' = "anchor"
          /\ head' = LastHash
       \/ /\ ~BootCheck(k)
          /\ phase' = "rejected"
          /\ UNCHANGED head
    /\ UNCHANGED <<logFile, open, anchor, hashed, w, history>>

\* write_anchor: fs::write truncates, then writes.  Its errors are ignored.
TruncateAnchor ==
    /\ phase = "anchor"
    /\ \/ phase' = "anchor_write" /\ anchor' = NoAnchor /\ anchored' = {}
       \/ phase' = "start" /\ UNCHANGED <<anchor, anchored>>
    /\ UNCHANGED <<boots, key, head, logFile, open, hashed, w, recorded, cuts, lost>>

WriteAnchor ==
    /\ phase = "anchor_write"
    /\ phase' = "start"
    /\ \/ anchor' = [head |-> head, key |-> key] /\ anchored' = Read
       \/ UNCHANGED <<anchor, anchored>>
    /\ UNCHANGED <<boots, key, head, logFile, open, hashed, w, recorded, cuts, lost>>

-----------------------------------------------------------------------------
(* record: the first one is server_start, the others come from handlers *)

Recording == phase \in {"start", "serving"}

RecordUnlocked(c) ==
    /\ Recording
    /\ w[c] = NotRecording
    /\ hashed < MaxRecords
    /\ hashed' = hashed + 1
    /\ w' = [w EXCEPT ![c] = [at |-> "line", prev |-> head, hash |-> hashed']]
    /\ UNCHANGED <<phase, boots, key, head, logFile, open, anchor, history>>

\* Take the Mutex and read the head, the file open for appending.
Record(c) ==
    /\ Recording
    /\ \A x \in Writers : w[x] = NotRecording
    /\ hashed < MaxRecords
    /\ hashed' = hashed + 1
    /\ w' = [w EXCEPT ![c] = [at |-> "line", prev |-> head, hash |-> hashed']]
    /\ UNCHANGED <<phase, boots, key, head, logFile, open, anchor, history>>

\* The file cannot be opened: an error, which the boot sequence ignores too.
StartUnrecorded ==
    /\ phase = "start"
    /\ \A x \in Writers : w[x] = NotRecording
    /\ phase' = "serving"
    /\ UNCHANGED <<boots, key, head, logFile, open, anchor, hashed, w, history>>

\* What appending a text does: on an unfinished line the texts run together,
\* and no text after it completes a torn character.
Appended(text) ==
    IF open THEN [logFile EXCEPT ![Len(logFile)] = IF Torn \in {@, text} THEN Torn ELSE Garbled]
    ELSE Append(logFile, text)

WriteLine(c) ==
    /\ w[c].at = "line"
    /\ logFile' = Appended([prev |-> w[c].prev, hash |-> w[c].hash, key |-> key])
    /\ open' = TRUE
    /\ w' = [w EXCEPT ![c].at = "newline"]
    /\ UNCHANGED <<phase, boots, key, head, anchor, hashed, history>>

\* The disk is full: nothing, or a part of the text, is written, and it may
\* end within a character.
WriteLineFails(c) ==
    /\ w[c].at = "line"
    /\ \/ UNCHANGED <<logFile, open, cuts>>
       \/ /\ \E part \in {Garbled, Torn} : logFile' = Appended(part)
          /\ open' = TRUE
          /\ cuts' = cuts + 1
    /\ w' = [w EXCEPT ![c] = NotRecording]
    /\ phase' = "serving"
    /\ UNCHANGED <<boots, key, head, anchor, hashed, recorded, anchored, lost>>

WriteNewlineNever(c) ==
    /\ w[c].at = "newline"
    /\ head' = w[c].hash
    /\ recorded' = recorded \cup {w[c].hash}
    /\ w' = [w EXCEPT ![c] = NotRecording]
    /\ phase' = "serving"
    /\ UNCHANGED <<boots, key, logFile, open, anchor, hashed, anchored, cuts, lost>>

\* Only now does the head advance; on an error it does not.
WriteNewline(c) ==
    /\ w[c].at = "newline"
    /\ \/ /\ open' = FALSE
          /\ head' = w[c].hash
          /\ recorded' = recorded \cup {w[c].hash}
          /\ UNCHANGED cuts
       \/ /\ cuts' = cuts + 1
          /\ UNCHANGED <<open, head, recorded>>
    /\ w' = [w EXCEPT ![c] = NotRecording]
    /\ phase' = "serving"
    /\ UNCHANGED <<boots, key, logFile, anchor, hashed, anchored, lost>>

-----------------------------------------------------------------------------
(* Faults *)

AuditCrash ==
    /\ ~Stopped
    /\ phase' = "down"
    /\ head' = Unset
    /\ w' = [c \in Writers |-> NotRecording]
    /\ cuts' = cuts + Cardinality({c \in Writers : w[c].at = "newline"})
    /\ UNCHANGED <<boots, key, logFile, open, anchor, hashed, recorded, anchored, lost>>

\* The file ends with a line, or within one: then that line is left whole but
\* without its newline, or a part of it, which may end within a character.
LoseTail ==
    /\ Stopped
    /\ \/ /\ \E n \in 0..(Len(logFile) - 1) : logFile' = SubSeq(logFile, 1, n)
          /\ open' = FALSE
          /\ UNCHANGED cuts
       \/ \E n \in DOMAIN logFile :
          /\ \E part \in {logFile[n], Garbled, Torn} : logFile' = Append(SubSeq(logFile, 1, n - 1), part)
          /\ open' = TRUE
          /\ cuts' = IF open /\ n = Len(logFile) THEN cuts ELSE cuts + 1
    /\ lost' = TRUE
    /\ UNCHANGED <<phase, boots, key, head, anchor, hashed, w, recorded, anchored>>

AuditNext ==
    \/ \E k \in Keys : AuditBoot(k)
    \/ TruncateAnchor
    \/ WriteAnchor
    \/ StartUnrecorded
    \/ \E c \in Writers : \/ Record(c)
                          \/ WriteLine(c)
                          \/ WriteLineFails(c)
                          \/ WriteNewline(c)
    \/ AuditCrash
    \/ LoseTail

AuditSpec == AuditInit /\ [][AuditNext]_auditVars

-----------------------------------------------------------------------------
(* Properties *)

\* Concurrent records never fork the chain: as long as no line was cut short
\* and one key wrote every line, the whole log verifies, also after restarts
\* and after lines at its end were lost.
ChainVerifies ==
    \A k \in Keys : cuts = 0 /\ (\A i \in DOMAIN logFile : logFile[i].key = k) => Verified(k)

\* An append cut short costs at most one entry besides its own: of the entries
\* whose record was answered Ok, all but one per cut append are in the file.
\* (After a cut within a character they are there, but nothing can read them.)
AckedStay == ~lost => Cardinality(recorded \ Hashes) <= cuts

\* A core is never refused its boot over a log that nothing happened to and
\* that was written with its own key throughout.
NoFalseAlarm ==
    phase = "rejected" => cuts > 0 \/ lost \/ \E i \in DOMAIN logFile : logFile[i].key # key

\* A boot that read an anchor and went on can read every entry that could be
\* read when that anchor was written, not only the anchored head.
AnchoredKept ==
    phase = "anchor" /\ ReadsAnchor(key) => anchored \subseteq Read

\* main.rs:157: "a prior anchor must still be an ancestor of the live chain",
\* said of every boot that goes on.
PriorAnchorIsAncestor ==
    phase = "anchor" /\ anchor # NoAnchor => ContainsHash(anchor.head)

=============================================================================

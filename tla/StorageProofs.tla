---------------------------- MODULE StorageProofs ----------------------------
(***************************************************************************)
(* Proofs about what the core keeps in files of its own: the notes of the  *)
(* vault, long-term memory and the documents it writes, for every number of *)
(* concurrent calls, notes, facts, blocks and restarts.                    *)
(***************************************************************************)
EXTENDS MemoryStore, Vault, Documents, SequenceTheorems, FiniteSetTheorems, WellFoundedInduction, TLAPS

(***************************************************************************)
(* Notes                                                                   *)
(***************************************************************************)

NoteLines == Seq(Additions \cup {"own"})
VaultNote == [kind : {"none", "opaque", "text"}, lines : NoteLines]
VaultCall == [st : {"truncate", "write"}, note : Notes, entry : Additions, body : NoteLines,
              drops : BOOLEAN]

Has(lines, entry) == \E i \in DOMAIN lines : lines[i] = entry

Awake(w, n) == wr[w].st # "idle" /\ wr[w].note = n

\* Two calls on a note disturb it.
OneAtATime ==
    \A n \in Notes \ disturbed : \A v, w \in Writers : Awake(v, n) /\ Awake(w, n) => v = w

\* What a call is about to write has its own entry.
BodyHasEntry ==
    \A w \in Writers : wr[w].st # "idle" => Has(wr[w].body, wr[w].entry)

\* What was reported is in the file, until it is truncated, and in what will be
\* written, from the moment the file was read, but for a call that drops what it finds
\* and has not truncated the file yet.
Drops(w) == wr[w].st = "truncate" /\ wr[w].drops
Untouched(n) == \A w \in Writers : Awake(w, n) => wr[w].st = "truncate"
KeptInFile ==
    \A k \in kept : k[1] \notin disturbed /\ Untouched(k[1]) => Has(vault[k[1]].lines, k[2])
KeptInBody ==
    \A k \in kept : k[1] \notin disturbed =>
        \A w \in Writers : Awake(w, k[1]) /\ ~Drops(w) => Has(wr[w].body, k[2])

\* Only a text has lines.
VaultFiles == \A n \in Notes : vault[n].kind # "text" => vault[n].lines = <<>>

VaultIInv ==
    VaultTypeOK /\ VaultFiles /\ OneAtATime /\ BodyHasEntry /\ KeptInFile /\ KeptInBody

LEMMA EmptyLines == <<>> \in NoteLines
  BY EmptySeq DEF NoteLines

LEMMA VaultCalls ==
  ASSUME VaultTypeOK, NEW w \in Writers, wr[w].st # "idle"
  PROVE  /\ wr[w].st \in {"truncate", "write"} /\ wr[w].note \in Notes
         /\ wr[w].entry \in Additions /\ wr[w].body \in NoteLines /\ wr[w].drops \in BOOLEAN
<1>1. wr[w] \in {Asleep} \cup VaultCall
  BY DEF VaultTypeOK, VaultCall, NoteLines
<1>2. wr[w] \in VaultCall
  BY <1>1 DEF Asleep
<1> QED
  BY <1>2 DEF VaultCall

\* A note is given some text, or removed.
LEMMA NoteChanged ==
  ASSUME VaultIInv, NEW n \in Notes, NEW ls \in NoteLines, NEW now \in {NoNote, Opaque, Text(ls)},
         vault' = [vault EXCEPT ![n] = now]
  PROVE  /\ VaultFiles' /\ vault' \in [Notes -> VaultNote] /\ vault'[n] = now
         /\ \A m \in Notes : m # n => vault'[m] = vault[m]
<1>1. now \in VaultNote
  <2>1. <<>> \in NoteLines
    BY EmptyLines
  <2>2. CASE now = NoNote
    BY <2>1, <2>2 DEF NoNote, VaultNote
  <2>3. CASE now = Opaque
    BY <2>1, <2>3 DEF Opaque, VaultNote
  <2>4. CASE now = Text(ls)
    BY <2>4 DEF Text, VaultNote
  <2> QED
    BY <2>2, <2>3, <2>4
<1>2. vault \in [Notes -> VaultNote]
  BY DEF VaultIInv, VaultTypeOK, VaultNote, NoteLines
<1>3. now.kind # "text" => now.lines = <<>>
  BY DEF NoNote, Opaque, Text
<1>4. \A m \in Notes : vault[m].kind # "text" => vault[m].lines = <<>>
  BY DEF VaultIInv, VaultFiles
<1> HIDE DEF VaultNote, NoteLines
<1>5. vault'[n] = now /\ \A m \in Notes : m # n => vault'[m] = vault[m]
  BY <1>2
<1>6. VaultFiles'
  BY <1>3, <1>4, <1>5 DEF VaultFiles
<1> QED
  BY <1>1, <1>2, <1>5, <1>6

LEMMA InitVaultIInv == VaultInit => VaultIInv
<1> SUFFICES ASSUME VaultInit PROVE VaultIInv
  OBVIOUS
<1>1. {NoNote, Opaque} \subseteq VaultNote
  BY EmptySeq DEF NoNote, Opaque, VaultNote, NoteLines
<1>2. VaultTypeOK
  BY <1>1, VaultAssumption DEF VaultInit, VaultTypeOK, VaultNote, NoteLines
<1>3. \A w \in Writers : wr[w].st = "idle"
  BY DEF VaultInit, Asleep
<1>4. kept = {}
  BY DEF VaultInit
<1>5. VaultFiles
  BY DEF VaultInit, VaultFiles, NoNote, Opaque
<1> QED
  BY <1>2, <1>3, <1>4, <1>5 DEF VaultIInv, OneAtATime, BodyHasEntry, KeptInFile, KeptInBody, Awake

\* A call begins: it reads the note, and its body has what was kept unless the
\* caller asked to replace the note.
LEMMA RewriteKeeps ==
  ASSUME VaultIInv, NEW w \in Writers, NEW n \in Notes, NEW e \in Additions,
         NEW body \in NoteLines, NEW drops \in BOOLEAN, Rewrite(w, n, e, body, drops),
         Has(body, e), ~drops => \A x : Has(vault[n].lines, x) => Has(body, x)
  PROVE  VaultIInv'
<1> DEFINE new == [st |-> "truncate", note |-> n, entry |-> e, body |-> body, drops |-> drops]
<1>1. /\ wr[w].st = "idle" /\ edits' = edits + 1 /\ edits < MaxEdits
      /\ vault' = vault /\ kept' = kept
      /\ disturbed' = disturbed \cup (IF Busy(n) THEN {n} ELSE {})
  BY DEF Rewrite, Asleep
<1>2. wr' = [wr EXCEPT ![w] = new]
  BY DEF Rewrite
<1>3. new \in VaultCall
  BY DEF VaultCall
<1>4. VaultTypeOK'
  <2>1. wr' \in [Writers -> {Asleep} \cup VaultCall]
    BY <1>2, <1>3 DEF VaultIInv, VaultTypeOK, VaultCall, NoteLines
  <2>2. edits' \in 0..MaxEdits
    BY <1>1, VaultAssumption DEF VaultIInv, VaultTypeOK
  <2>3. vault' \in [Notes -> VaultNote] /\ kept' \subseteq Notes \X Additions
        /\ disturbed' \subseteq Notes
    BY <1>1 DEF VaultIInv, VaultTypeOK, VaultNote, NoteLines
  <2> QED
    BY <2>1, <2>2, <2>3 DEF VaultTypeOK, VaultNote, VaultCall, NoteLines
<1>5. /\ wr'[w].st = "truncate" /\ wr'[w].note = n /\ wr'[w].entry = e /\ wr'[w].body = body
      /\ wr'[w].drops = drops
      /\ \A v \in Writers : v # w => wr'[v] = wr[v]
  BY <1>2 DEF VaultIInv, VaultTypeOK
<1>6. n \notin disturbed' => \A v \in Writers : ~Awake(v, n)
  BY <1>1 DEF Busy, Awake
<1>7. /\ Awake(w, n)' /\ \A m \in Notes : Awake(w, m)' => m = n
      /\ \A m \in Notes : ~Awake(w, m)
      /\ \A v \in Writers, m \in Notes : v # w => Awake(v, m)' = Awake(v, m)
  BY <1>1, <1>5 DEF Awake
<1>8. disturbed \subseteq disturbed'
  BY <1>1
<1>9. OneAtATime'
  BY <1>6, <1>7, <1>8 DEF VaultIInv, OneAtATime
<1>10. BodyHasEntry'
  BY <1>5 DEF VaultIInv, BodyHasEntry
<1>11. ASSUME NEW k \in kept', k[1] \notin disturbed'
       PROVE  /\ Untouched(k[1])' => Has(vault[k[1]].lines, k[2])
              /\ \A v \in Writers : Awake(v, k[1])' /\ ~Drops(v)' => Has(wr'[v].body, k[2])
  <2>1. k \in kept /\ k[1] \in Notes /\ k[1] \notin disturbed
    BY <1>1, <1>8, <1>11 DEF VaultIInv, VaultTypeOK
  <2>2. CASE k[1] = n
    <3>1. Untouched(n)
      BY <1>6, <1>11, <2>2 DEF Untouched
    <3>2. Has(vault[n].lines, k[2])
      BY <2>1, <2>2, <3>1 DEF VaultIInv, KeptInFile
    <3>3. \A v \in Writers : Awake(v, n)' => v = w
      BY <1>6, <1>7, <1>11, <2>2
    <3>4. Drops(w)' = drops
      BY <1>5 DEF Drops
    <3> QED
      BY <1>1, <1>5, <2>2, <3>2, <3>3, <3>4
  <2>3. CASE k[1] # n
    <3>1. \A v \in Writers : Awake(v, k[1])' => v # w /\ Awake(v, k[1])
      BY <1>7, <2>1, <2>3
    <3>2. \A v \in Writers : Awake(v, k[1]) => v # w
      BY <1>7, <2>1
    <3>3. Untouched(k[1])' = Untouched(k[1])
      <4>1. \A v \in Writers : Awake(v, k[1])' => wr'[v].st = wr[v].st
        BY <1>5, <3>1
      <4>2. \A v \in Writers : Awake(v, k[1]) => Awake(v, k[1])' /\ wr'[v].st = wr[v].st
        BY <1>5, <1>7, <2>1, <3>2
      <4> QED
        BY <3>1, <4>1, <4>2 DEF Untouched
    <3> QED
      BY <1>5, <2>1, <3>1, <3>3 DEF VaultIInv, KeptInFile, KeptInBody, Drops
  <2> QED
    BY <2>2, <2>3
<1>12. KeptInFile' /\ KeptInBody'
  BY <1>1, <1>11 DEF KeptInFile, KeptInBody
<1> QED
  BY <1>1, <1>4, <1>9, <1>10, <1>12 DEF VaultIInv, VaultFiles

\* Whoever calls: what is added to a text keeps what was there.
LEMMA AppendHas ==
  ASSUME NEW S, NEW q \in Seq(S), NEW e \in S
  PROVE  Append(q, e) \in Seq(S) /\ Has(Append(q, e), e) /\ \A x : Has(q, x) => Has(Append(q, e), x)
<1>1. /\ Append(q, e) \in Seq(S) /\ Len(q) \in Nat
      /\ DOMAIN q = 1..Len(q) /\ DOMAIN Append(q, e) = 1..(Len(q) + 1)
      /\ Append(q, e)[Len(q) + 1] = e /\ \A i \in 1..Len(q) : Append(q, e)[i] = q[i]
  OBVIOUS
<1> QED
  BY <1>1 DEF Has

LEMMA WriteNoteKeeps == ASSUME VaultIInv, NEW w \in Writers, WriteNote(w) PROVE VaultIInv'
<1>1. PICK p \in Paths, e \in Additions, overwrite \in BOOLEAN :
        /\ vault[p.note].kind = "none" \/ overwrite
        /\ Rewrite(w, p.note, e, <<e>>, overwrite)
  BY DEF WriteNote
<1> DEFINE n == p.note
<1>2. n \in Notes
  BY DEF Notes
<1>3. <<e>> \in NoteLines /\ Has(<<e>>, e)
  BY DEF NoteLines, Has
<1>4. ASSUME NEW x, ~overwrite, Has(vault[n].lines, x) PROVE Has(<<e>>, x)
  <2>1. vault[n].lines = <<>>
    BY <1>1, <1>2, <1>4 DEF VaultIInv, VaultFiles
  <2> QED
    BY <1>4, <2>1 DEF Has
<1> HIDE DEF n
<1> QED
  BY <1>1, <1>2, <1>3, <1>4, RewriteKeeps DEF n

LEMMA AppendNoteKeeps == ASSUME VaultIInv, NEW w \in Writers, AppendNote(w) PROVE VaultIInv'
<1>1. PICK p \in Paths, e \in Additions, readable \in BOOLEAN :
        Rewrite(w, p.note, e, Append(ReadOrEmpty(p.note, readable), e), ~readable)
  BY DEF AppendNote
<1> DEFINE n == p.note
           found == ReadOrEmpty(n, readable)
           body == Append(found, e)
<1>2. n \in Notes
  BY DEF Notes
<1>3. found \in NoteLines /\ (readable => found = vault[n].lines)
  <2>1. vault[n].lines \in NoteLines
    BY <1>2 DEF VaultIInv, VaultTypeOK, NoteLines
  <2> QED
    BY <2>1, EmptyLines DEF ReadOrEmpty
<1>4. /\ body \in NoteLines /\ Has(body, e)
      /\ \A x : Has(found, x) => Has(body, x)
  <2> HIDE DEF found
  <2> QED
    BY <1>3, AppendHas DEF NoteLines
<1>5. PICK drops \in BOOLEAN : drops = ~readable
  OBVIOUS
<1>6. Rewrite(w, n, e, body, drops)
  BY <1>1, <1>5
<1>7. ~drops => \A x : Has(vault[n].lines, x) => Has(body, x)
  BY <1>3, <1>4, <1>5
<1> HIDE DEF n, body, found
<1> QED
  BY <1>2, <1>4, <1>6, <1>7, RewriteKeeps

\* A step of a call under way on its own note.
LEMMA Undisturbed ==
  ASSUME VaultIInv, NEW w \in Writers, wr[w].st # "idle", wr[w].note \notin disturbed
  PROVE  \A v \in Writers : Awake(v, wr[w].note) => v = w
<1>1. wr[w].note \in Notes
  BY VaultCalls DEF VaultIInv
<1>2. Awake(w, wr[w].note)
  BY DEF Awake
<1> QED
  BY <1>1, <1>2 DEF VaultIInv, OneAtATime

LEMMA TruncateKeeps == ASSUME VaultIInv, NEW w \in Writers, Truncate(w) PROVE VaultIInv'
<1> DEFINE n == wr[w].note
<1>1. wr[w].st = "truncate" /\ UNCHANGED <<edits, disturbed>>
  BY DEF Truncate
<1>2. n \in Notes /\ wr[w].entry \in Additions /\ wr[w].body \in NoteLines /\ Awake(w, n)
      /\ wr[w].drops \in BOOLEAN
  BY <1>1, VaultCalls DEF VaultIInv, Awake
<1>3. CASE /\ vault' = [vault EXCEPT ![n] = Text(<<>>)] /\ wr' = [wr EXCEPT ![w].st = "write"]
           /\ kept' = kept \ (IF wr[w].drops THEN Of(n) ELSE {})
  <2>1. wr[w] \in VaultCall
    BY <1>1 DEF VaultIInv, VaultTypeOK, VaultCall, NoteLines, Asleep
  <2>2. /\ [wr[w] EXCEPT !.st = "write"] \in VaultCall
        /\ [wr[w] EXCEPT !.st = "write"] = [st |-> "write", note |-> n, entry |-> wr[w].entry,
                                            body |-> wr[w].body, drops |-> wr[w].drops]
    BY <2>1 DEF VaultCall
  <2>3. wr' = [wr EXCEPT ![w] = [wr[w] EXCEPT !.st = "write"]]
    BY <1>3
  <2>4. Text(<<>>) \in VaultNote
    BY EmptySeq DEF Text, VaultNote, NoteLines
  <2>5. VaultTypeOK'
    <3>1. kept' \subseteq kept
      BY <1>3
    <3>2. kept' \subseteq Notes \X Additions
      BY <3>1 DEF VaultIInv, VaultTypeOK
    <3> QED
      BY <1>1, <1>3, <2>2, <2>3, <2>4, <3>2 DEF VaultIInv, VaultTypeOK, VaultCall, VaultNote, NoteLines
  <2>6. /\ wr'[w].st = "write" /\ wr'[w].note = n /\ wr'[w].entry = wr[w].entry
        /\ wr'[w].body = wr[w].body /\ wr'[w].drops = wr[w].drops
        /\ \A v \in Writers : v # w => wr'[v] = wr[v]
    BY <2>2, <2>3 DEF VaultIInv, VaultTypeOK
  <2>7. \A v \in Writers, m \in Notes : Awake(v, m)' = Awake(v, m)
    BY <1>1, <2>6 DEF Awake
  <2>8. OneAtATime' /\ BodyHasEntry'
    BY <1>1, <2>6, <2>7 DEF VaultIInv, OneAtATime, BodyHasEntry
  <2>9. ASSUME NEW k \in kept', k[1] \notin disturbed'
        PROVE  /\ Untouched(k[1])' => Has(vault'[k[1]].lines, k[2])
               /\ \A v \in Writers : Awake(v, k[1])' /\ ~Drops(v)' => Has(wr'[v].body, k[2])
    <3>1. k \in kept /\ k[1] \in Notes /\ k[1] \notin disturbed /\ (k[1] = n => ~wr[w].drops)
      BY <1>1, <1>3, <2>9 DEF VaultIInv, VaultTypeOK, Of
    <3>2. ASSUME NEW v \in Writers, Awake(v, k[1])', ~Drops(v)' PROVE Has(wr'[v].body, k[2])
      <4>1. Awake(v, k[1])
        BY <2>7, <3>1, <3>2
      <4>2. ~Drops(v)
        <5>1. CASE v = w
          BY <3>1, <4>1, <5>1 DEF Awake, Drops
        <5>2. CASE v # w
          BY <2>6, <3>2, <5>2 DEF Drops
        <5> QED
          BY <5>1, <5>2
      <4>3. wr'[v].body = wr[v].body
        BY <2>6
      <4> QED
        BY <3>1, <4>1, <4>2, <4>3 DEF VaultIInv, KeptInBody
    <3>3. CASE k[1] = n
      <4>1. ~Untouched(k[1])'
        BY <1>2, <2>6, <2>7, <3>3 DEF Untouched
      <4> QED
        BY <3>2, <4>1
    <3>4. CASE k[1] # n
      <4>1. vault'[k[1]] = vault[k[1]]
        BY <1>3, <3>1, <3>4 DEF VaultIInv, VaultTypeOK
      <4>2. \A v \in Writers : Awake(v, k[1]) => v # w
        BY <3>4 DEF Awake
      <4>3. Untouched(k[1])' => Untouched(k[1])
        BY <2>6, <2>7, <3>1, <4>2 DEF Untouched
      <4> QED
        BY <3>1, <3>2, <4>1, <4>3 DEF VaultIInv, KeptInFile
    <3> QED
      BY <3>3, <3>4
  <2>10. KeptInFile' /\ KeptInBody'
    BY <2>9 DEF KeptInFile, KeptInBody
  <2>11. VaultFiles'
    BY <1>2, <1>3, EmptyLines, NoteChanged
  <2> QED
    BY <2>5, <2>8, <2>10, <2>11 DEF VaultIInv
<1>4. CASE wr' = [wr EXCEPT ![w] = Asleep] /\ UNCHANGED <<vault, kept>>
  <2>1. VaultTypeOK'
    BY <1>1, <1>4 DEF VaultIInv, VaultTypeOK
  <2>2. /\ wr'[w].st = "idle" /\ \A v \in Writers : v # w => wr'[v] = wr[v]
    BY <1>4 DEF VaultIInv, VaultTypeOK, Asleep
  <2>3. \A v \in Writers, m \in Notes : Awake(v, m)' => v # w /\ Awake(v, m)
    BY <2>2 DEF Awake
  <2>4. OneAtATime' /\ BodyHasEntry'
    BY <1>1, <2>2, <2>3 DEF VaultIInv, OneAtATime, BodyHasEntry
  <2>5. ASSUME NEW k \in kept', k[1] \notin disturbed'
        PROVE  /\ Untouched(k[1])' => Has(vault'[k[1]].lines, k[2])
               /\ \A v \in Writers : Awake(v, k[1])' /\ ~Drops(v)' => Has(wr'[v].body, k[2])
    <3>1. k \in kept /\ k[1] \in Notes /\ k[1] \notin disturbed
      BY <1>1, <1>4, <2>5 DEF VaultIInv, VaultTypeOK
    <3>2. \A v \in Writers : Awake(v, k[1])' /\ ~Drops(v)' => Has(wr'[v].body, k[2])
      BY <2>2, <2>3, <3>1 DEF VaultIInv, KeptInBody, Drops
    <3>3. Untouched(k[1])' => Untouched(k[1])
      <4>1. \A v \in Writers : v # w => Awake(v, k[1])' = Awake(v, k[1])
        BY <2>2 DEF Awake
      <4> QED
        BY <1>1, <2>2, <4>1 DEF Untouched
    <3> QED
      BY <1>4, <3>1, <3>2, <3>3 DEF VaultIInv, KeptInFile
  <2>6. KeptInFile' /\ KeptInBody'
    BY <2>5 DEF KeptInFile, KeptInBody
  <2> QED
    BY <2>1, <2>4, <2>6, <1>4 DEF VaultIInv, VaultFiles
<1> QED
  BY <1>3, <1>4 DEF Truncate

LEMMA WriteBodyKeeps == ASSUME VaultIInv, NEW w \in Writers, WriteBody(w) PROVE VaultIInv'
<1>1. wr[w].st = "write" /\ edits' = edits /\ wr' = [wr EXCEPT ![w] = Asleep]
  BY DEF WriteBody
<1>0. PICK n \in Notes : n = wr[w].note
  BY <1>1, VaultCalls DEF VaultIInv
<1>2. wr[w].entry \in Additions /\ wr[w].body \in NoteLines /\ Awake(w, n)
  BY <1>0, <1>1, VaultCalls DEF VaultIInv, Awake
<1>3. /\ wr'[w].st = "idle" /\ \A v \in Writers : v # w => wr'[v] = wr[v]
      /\ wr' \in [Writers -> {Asleep} \cup VaultCall]
  BY <1>1 DEF VaultIInv, VaultTypeOK, Asleep, VaultCall, NoteLines
<1>4. /\ \A v \in Writers, m \in Notes : Awake(v, m)' => v # w /\ Awake(v, m)
      /\ \A v \in Writers, m \in Notes : v # w => Awake(v, m)' = Awake(v, m)
  BY <1>3 DEF Awake
<1>5. disturbed \subseteq disturbed' /\ disturbed' \subseteq Notes
  BY <1>0 DEF WriteBody, VaultIInv, VaultTypeOK
<1>6. OneAtATime' /\ BodyHasEntry'
  BY <1>3, <1>4, <1>5 DEF VaultIInv, OneAtATime, BodyHasEntry
<1>7. CASE vault' = [vault EXCEPT ![n] = Text(wr[w].body)] /\ kept' = kept \cup {<<n, wr[w].entry>>}
           /\ disturbed' = disturbed
  <2>1. /\ VaultFiles' /\ vault' \in [Notes -> VaultNote] /\ vault'[n].lines = wr[w].body
        /\ \A m \in Notes : m # n => vault'[m] = vault[m]
    BY <1>2, <1>7, NoteChanged DEF Text
  <2>2. VaultTypeOK'
    <3>1. kept' \subseteq Notes \X Additions
      BY <1>2, <1>7 DEF VaultIInv, VaultTypeOK
    <3> QED
      BY <1>1, <1>3, <1>5, <2>1, <3>1 DEF VaultIInv, VaultTypeOK, VaultNote, VaultCall, NoteLines
  <2>3. Has(wr[w].body, wr[w].entry)
    BY <1>1 DEF VaultIInv, BodyHasEntry
  <2>4. n \notin disturbed => \A v \in Writers : ~Awake(v, n)'
    BY <1>2, <1>4 DEF VaultIInv, OneAtATime
  <2>5. ASSUME NEW k \in kept', k[1] \notin disturbed'
        PROVE  /\ Untouched(k[1])' => Has(vault'[k[1]].lines, k[2])
               /\ \A v \in Writers : Awake(v, k[1])' /\ ~Drops(v)' => Has(wr'[v].body, k[2])
    <3>1. CASE k[1] = n
      <4>1. k \in kept \/ k[2] = wr[w].entry
        BY <1>7
      <4>2. Has(wr[w].body, k[2])
        <5>1. ~Drops(w)
          BY <1>1 DEF Drops
        <5> QED
          BY <5>1, <1>2, <1>7, <2>3, <2>5, <3>1, <4>1 DEF VaultIInv, KeptInBody
      <4> QED
        BY <1>7, <2>1, <2>4, <2>5, <3>1, <4>2
    <3>2. CASE k[1] # n
      <4>1. k \in kept /\ k[1] \in Notes /\ k[1] \notin disturbed
        BY <1>7, <2>5, <3>2 DEF VaultIInv, VaultTypeOK
      <4>2. \A v \in Writers : Awake(v, k[1]) => v # w
        BY <1>0, <3>2 DEF Awake
      <4>3. Untouched(k[1])' => Untouched(k[1])
        BY <1>3, <1>4, <4>1, <4>2 DEF Untouched
      <4>4. \A v \in Writers : Awake(v, k[1])' /\ ~Drops(v)' => Has(wr'[v].body, k[2])
        BY <1>3, <1>4, <4>1 DEF VaultIInv, KeptInBody, Drops
      <4> QED
        BY <2>1, <3>2, <4>1, <4>3, <4>4 DEF VaultIInv, KeptInFile
    <3> QED
      BY <3>1, <3>2
  <2>6. KeptInFile' /\ KeptInBody'
    BY <2>5 DEF KeptInFile, KeptInBody
  <2> QED
    BY <1>6, <2>1, <2>2, <2>6 DEF VaultIInv
<1>8. CASE disturbed' = disturbed \cup {n} /\ UNCHANGED <<vault, kept>>
  <2>1. VaultTypeOK'
    BY <1>1, <1>3, <1>5, <1>8 DEF VaultIInv, VaultTypeOK, VaultCall, NoteLines
  <2>2. ASSUME NEW k \in kept', k[1] \notin disturbed'
        PROVE  /\ Untouched(k[1])' => Has(vault'[k[1]].lines, k[2])
               /\ \A v \in Writers : Awake(v, k[1])' /\ ~Drops(v)' => Has(wr'[v].body, k[2])
    <3>1. k \in kept /\ k[1] \in Notes /\ k[1] \notin disturbed /\ k[1] # n
      BY <1>8, <2>2 DEF VaultIInv, VaultTypeOK
    <3>2. \A v \in Writers : Awake(v, k[1]) => v # w
      BY <1>0, <3>1 DEF Awake
    <3>3. Untouched(k[1])' => Untouched(k[1])
      BY <1>3, <1>4, <3>1, <3>2 DEF Untouched
    <3>4. \A v \in Writers : Awake(v, k[1])' /\ ~Drops(v)' => Has(wr'[v].body, k[2])
      BY <1>3, <1>4, <3>1 DEF VaultIInv, KeptInBody, Drops
    <3> QED
      BY <1>8, <3>1, <3>3, <3>4 DEF VaultIInv, KeptInFile
  <2>3. KeptInFile' /\ KeptInBody'
    BY <2>2 DEF KeptInFile, KeptInBody
  <2> QED
    BY <1>6, <1>8, <2>1, <2>3 DEF VaultIInv, VaultFiles
<1> QED
  BY <1>0, <1>7, <1>8 DEF WriteBody

\* What the operator does to a note only loses what was kept in it.
LEMMA OperatorKeeps == ASSUME VaultIInv, OperatorEdits PROVE VaultIInv'
<1>1. PICK n \in Notes, now \in {NoNote, Opaque, Text(<<"own">>)} :
        /\ vault' = [vault EXCEPT ![n] = now]
        /\ kept' = kept \ Of(n)
        /\ disturbed' = disturbed \cup (IF Busy(n) THEN {n} ELSE {})
  BY DEF OperatorEdits
<1>2. edits' = edits + 1 /\ edits < MaxEdits /\ wr' = wr
  BY DEF OperatorEdits
<1>3. /\ VaultFiles' /\ vault' \in [Notes -> VaultNote]
      /\ \A m \in Notes : m # n => vault'[m] = vault[m]
  <2>1. <<"own">> \in NoteLines
    BY DEF NoteLines
  <2> QED
    BY <1>1, <2>1, NoteChanged
<1>4. VaultTypeOK'
  BY <1>1, <1>2, <1>3, VaultAssumption DEF VaultIInv, VaultTypeOK, VaultNote, NoteLines
<1>5. \A k \in kept' : k \in kept /\ k[1] \in Notes /\ k[1] # n
  BY <1>1 DEF Of, VaultIInv, VaultTypeOK
<1>6. disturbed \subseteq disturbed'
  BY <1>1
<1>7. OneAtATime' /\ BodyHasEntry' /\ KeptInFile' /\ KeptInBody'
  BY <1>2, <1>3, <1>5, <1>6
     DEF VaultIInv, OneAtATime, BodyHasEntry, KeptInFile, KeptInBody, Drops, Untouched, Awake
<1> QED
  BY <1>3, <1>4, <1>7 DEF VaultIInv

\* No call survives a restart, and a note cut short is disturbed.
LEMMA VaultRestartKeeps == ASSUME VaultIInv, VaultRestart PROVE VaultIInv'
<1>1. /\ \A w \in Writers : wr'[w] = Asleep
      /\ wr' \in [Writers -> {Asleep} \cup VaultCall]
      /\ vault' = vault /\ edits' = edits /\ kept' = kept
      /\ disturbed' = disturbed \cup {wr[w].note : w \in {v \in Writers : wr[v].st = "write"}}
  BY DEF VaultRestart
<1>2. \A w \in Writers : wr'[w].st = "idle"
  BY <1>1 DEF Asleep
<1>3. \A w \in Writers : wr[w].st = "write" => wr[w].note \in Notes
  BY VaultCalls DEF VaultIInv
<1>4. VaultTypeOK'
  <2>1. disturbed' \subseteq Notes
    BY <1>1, <1>3 DEF VaultIInv, VaultTypeOK
  <2> QED
    BY <1>1, <2>1 DEF VaultIInv, VaultTypeOK, VaultCall, NoteLines
<1>5. OneAtATime' /\ BodyHasEntry' /\ KeptInBody'
  BY <1>2 DEF OneAtATime, BodyHasEntry, KeptInBody, Awake
<1>6. ASSUME NEW k \in kept, k[1] \notin disturbed' PROVE Has(vault[k[1]].lines, k[2])
  <2>1. \A w \in Writers : Awake(w, k[1]) => wr[w].st \in {"truncate", "write"}
    BY VaultCalls DEF VaultIInv, Awake
  <2>2. Untouched(k[1])
    BY <1>1, <1>6, <2>1 DEF Untouched, Awake
  <2> QED
    BY <1>1, <1>6, <2>2 DEF VaultIInv, KeptInFile
<1>7. KeptInFile'
  BY <1>1, <1>6 DEF KeptInFile
<1> QED
  BY <1>1, <1>4, <1>5, <1>7 DEF VaultIInv, VaultFiles

LEMMA NextVaultIInv == VaultIInv /\ [VaultNext]_vaultVars => VaultIInv'
<1> SUFFICES ASSUME VaultIInv, [VaultNext]_vaultVars PROVE VaultIInv'
  OBVIOUS
<1>1. CASE UNCHANGED vaultVars
  BY <1>1 DEF vaultVars, VaultIInv, VaultTypeOK, VaultFiles, OneAtATime, BodyHasEntry, KeptInFile,
              KeptInBody, Drops, Untouched, Awake
<1>2. CASE VaultNext
  BY <1>2, WriteNoteKeeps, AppendNoteKeeps, TruncateKeeps, WriteBodyKeeps, OperatorKeeps,
     VaultRestartKeeps DEF VaultNext
<1> QED
  BY <1>1, <1>2

THEOREM VaultInductive == VaultSpec => []VaultIInv
  BY InitVaultIInv, NextVaultIInv, PTL DEF VaultSpec

\* The files, the calls under way and the history always have their types.
THEOREM VaultTypeCorrect == VaultSpec => []VaultTypeOK
<1>1. VaultIInv => VaultTypeOK
  BY DEF VaultIInv
<1> QED
  BY <1>1, VaultInductive, PTL

\* What a call reported as written to a note is still in it, whatever calls, failed
\* writes, edits and restarts come after, for every number of writers and notes:
\* until the note is replaced, also by an append that could not read it, and unless calls
\* overlapped on the note or its rewriting was cut short.
THEOREM NotesAreKept == VaultSpec => []NotesKept
<1>1. ASSUME VaultIInv PROVE NotesKept
  <2> SUFFICES ASSUME NEW k \in kept, k[1] \notin disturbed, ~Busy(k[1])
               PROVE  Has(vault[k[1]].lines, k[2])
    BY DEF NotesKept, Has
  <2>1. Untouched(k[1])
    BY DEF Untouched, Busy, Awake
  <2> QED
    BY <1>1, <2>1 DEF VaultIInv, KeptInFile
<1> QED
  BY <1>1, VaultInductive, PTL

(***************************************************************************)
(* Memory: what the invariant says                                         *)
(***************************************************************************)

AllTexts    == Facts \cup {<<>>} \cup UNION {{b.texts[i] : i \in DOMAIN b.texts} : b \in Imports}
Piece       == {p \in [text : AllTexts, emb : AllTexts,
                       origin : {"trusted", "untrusted", "newline", "part", "garbled"}] :
                  IsFact(p) => p.emb \in {p.text, None}}
CoreBlocks  == [Blocks -> Values \cup {Absent}]
TextStage   == [st : {"text", "newline"}, fact : {p \in Piece : IsFact(p)}]
PutStage    == [st : {"asked", "put"}, block : Blocks, value : Values]
SaveStage   == [st : {"truncate", "write"}, blocks : CoreBlocks]
MemStage    == {Idle} \cup TextStage \cup Imports \cup PutStage \cup SaveStage

MemTyped ==
    /\ log \in Seq(Piece)
    /\ mem \in [Callers -> MemStage]
    /\ core \in CoreBlocks /\ coreFile \in CoreBlocks \cup {Torn} /\ saved \in CoreBlocks
    /\ holder \in Callers \cup {Nobody} /\ ops \in 0..MaxOps /\ torn \in BOOLEAN

\* Whoever saves the blocks holds the Mutex.
SaverHolds == \A c \in Callers : mem[c].st \in {"truncate", "write"} <=> holder = c

\* What is being saved is what memory holds, and until the file is truncated it is
\* what was saved last.
BlocksInv ==
    ~torn => /\ holder = Nobody => coreFile = saved /\ core = saved
             /\ \A c \in Callers :
                   /\ mem[c].st \in {"truncate", "write"} => mem[c].blocks = core
                   /\ mem[c].st = "truncate" => coreFile = saved
             /\ (\A c \in Callers : mem[c].st # "write") => coreFile = saved

\* A fact that shared no line is alone on its own.
AloneAt(lg, i) ==
    /\ i = 1 \/ lg[i - 1] = Newline
    /\ i = Len(lg) \/ lg[i + 1] = Newline
FactsAlone == \A i \in DOMAIN log : IsFact(log[i]) /\ log[i].text \notin lost => AloneAt(log, i)

\* What was acknowledged, or waits for its newline only, is in the log.
Logged(lg, text) == \E i \in DOMAIN lg : IsFact(lg[i]) /\ lg[i].text = text
AckedLogged == \A text \in acked \ lost : Logged(log, text)
WrittenLogged ==
    \A c \in Callers : mem[c].st = "newline" /\ mem[c].fact.text \notin lost => Logged(log, mem[c].fact.text)

MemIInv == MemTyped /\ SaverHolds /\ BlocksInv /\ FactsAlone /\ AckedLogged /\ WrittenLogged

(***************************************************************************)
(* Sequences put together piece by piece                                   *)
(***************************************************************************)

\* z is x followed by y.
Joined(z, x, y) ==
    /\ Len(z) = Len(x) + Len(y)
    /\ \A i \in 1..Len(x) : z[i] = x[i]
    /\ \A i \in 1..Len(y) : z[Len(x) + i] = y[i]

LEMMA JoinedAt ==
  ASSUME NEW S, NEW x \in Seq(S), NEW y \in Seq(S)
  PROVE  x \o y \in Seq(S) /\ Joined(x \o y, x, y)
BY DEF Joined

LEMMA LeastOf ==
  ASSUME NEW T, T \subseteq Nat, T # {}
  PROVE  \E m \in T : \A n \in T : m <= n
<1> DEFINE R == {p \in Nat \X Nat : p[1] < p[2]}
<1>1. IsWellFoundedOn(R, Nat)
  BY NatLessThanWellFounded DEF OpToRel
<1>2. \A m, n \in Nat : n < m => <<n, m>> \in R
  OBVIOUS
<1> HIDE DEF R
<1>3. PICK m \in T : \A n \in T : ~(<<n, m>> \in R)
  BY <1>1, WFMin
<1>4. ASSUME NEW n \in T PROVE m <= n
  <2>1. m \in Nat /\ n \in Nat /\ ~(n < m)
    BY <1>2, <1>3
  <2> QED
    BY <2>1
<1> QED
  BY <1>4

LEMMA GreatestOf ==
  ASSUME NEW n \in Nat, NEW T, T \subseteq 0..n, T # {}
  PROVE  \E m \in T : \A x \in T : x <= m
<1> DEFINE U == {n - x : x \in T}
<1>1. U \subseteq Nat /\ U # {}
  <2>1. \A x \in T : n - x \in Nat
    OBVIOUS
  <2> QED
    BY <2>1
<1>2. PICK u \in U : \A y \in U : u <= y
  <2> HIDE DEF U
  <2> QED
    BY <1>1, LeastOf
<1>3. PICK m \in T : u = n - m
  OBVIOUS
<1>4. ASSUME NEW x \in T PROVE x <= m
  <2>1. n - m <= n - x /\ x \in 0..n /\ m \in 0..n
    BY <1>2, <1>3
  <2> QED
    BY <2>1
<1> QED
  BY <1>4

LEMMA IsSeq ==
  ASSUME NEW R, NEW n \in Nat, NEW g \in [1..n -> R]
  PROVE  g \in Seq(R) /\ Len(g) = n /\ DOMAIN g = 1..n
OBVIOUS

\* g joins the members of v one after the other, as FlattenSeq does.
Joins(g, v, n) == g = [k \in 1..n |-> IF k = 1 THEN v[k] ELSE g[k - 1] \o v[k]]

LEMMA JoinsExists ==
  ASSUME NEW v, NEW n \in Nat
  PROVE  \E g : Joins(g, v, n)
<1> DEFINE Bad == {m \in Nat : ~\E g : Joins(g, v, m)}
<1>1. SUFFICES ASSUME Bad # {} PROVE FALSE
  OBVIOUS
<1>2. PICK b \in Bad : \A m \in Bad : b <= m
  <2>1. Bad \subseteq Nat
    OBVIOUS
  <2> HIDE DEF Bad
  <2> QED
    BY <1>1, <2>1, LeastOf
<1>3. b # 0
  <2> DEFINE z == [k \in 1..0 |-> v[k]]
  <2>1. z = [k \in 1..0 |-> IF k = 1 THEN v[k] ELSE z[k - 1] \o v[k]]
    OBVIOUS
  <2>2. Joins(z, v, 0)
    BY <2>1 DEF Joins
  <2> QED
    BY <2>2
<1>4. b \in Nat \ {0} /\ b - 1 \in Nat /\ ~(b <= b - 1)
  BY <1>3
<1>5. PICK g : Joins(g, v, b - 1)
  BY <1>2, <1>4
<1> DEFINE h == [k \in 1..b |-> IF k = b THEN (IF b = 1 THEN v[1] ELSE g[b - 1] \o v[b]) ELSE g[k]]
<1>6. ASSUME NEW k \in 1..b
      PROVE  h[k] = IF k = 1 THEN v[k] ELSE h[k - 1] \o v[k]
  <2>1. CASE k = b
    <3>1. k # 1 => h[k - 1] = g[k - 1]
      BY <2>1, <1>4
    <3> QED
      BY <2>1, <3>1
  <2>2. CASE k # b
    <3>1. k \in 1..(b - 1)
      BY <2>2, <1>4
    <3>2. g[k] = IF k = 1 THEN v[k] ELSE g[k - 1] \o v[k]
      BY <1>5, <3>1 DEF Joins
    <3>3. h[k] = g[k] /\ (k # 1 => h[k - 1] = g[k - 1])
      BY <2>2, <3>1, <1>4
    <3> QED
      BY <3>2, <3>3
  <2> QED
    BY <2>1, <2>2
<1>7. h = [k \in 1..b |-> h[k]]
  OBVIOUS
<1> HIDE DEF h
<1>8. Joins(h, v, b)
  BY <1>6, <1>7 DEF Joins
<1> QED
  BY <1>8

LEMMA FlattenSteps ==
  ASSUME NEW S, NEW n \in Nat \ {0}, NEW v \in [1..n -> Seq(S)]
  PROVE  \E g : /\ g[1] = v[1] /\ FlattenSeq(v) = g[n]
                /\ \A k \in 2..n : g[k] = g[k - 1] \o v[k]
<1>1. Len(v) = n /\ n # 0
  BY IsSeq
<1> DEFINE g == CHOOSE f : Joins(f, v, n)
<1>2. Joins(g, v, n)
  BY JoinsExists
<1>3. FlattenSeq(v) = g[n]
  BY <1>1 DEF FlattenSeq, Joins
<1> HIDE DEF g
<1>4. \A k \in 1..n : g[k] = IF k = 1 THEN v[k] ELSE g[k - 1] \o v[k]
  BY <1>2 DEF Joins
<1>5. g[1] = v[1]
  BY <1>4
<1>6. ASSUME NEW k \in 2..n PROVE g[k] = g[k - 1] \o v[k]
  <2>1. k \in 1..n /\ k # 1
    BY <1>6
  <2> QED
    BY <1>4, <2>1
<1> QED
  BY <1>3, <1>5, <1>6

LEMMA FlattenIsSeq ==
  ASSUME NEW S, NEW n \in Nat, NEW v \in [1..n -> Seq(S)]
  PROVE  FlattenSeq(v) \in Seq(S)
<1>1. CASE n = 0
  <2>1. v \in Seq(S) /\ Len(v) = 0
    BY <1>1, IsSeq
  <2> QED
    BY <2>1 DEF FlattenSeq
<1>2. CASE n # 0
  <2>0. n \in Nat \ {0}
    BY <1>2
  <2>1. PICK g : /\ g[1] = v[1] /\ FlattenSeq(v) = g[n]
                 /\ \A k \in 2..n : g[k] = g[k - 1] \o v[k]
    BY <2>0, FlattenSteps
  <2> DEFINE Bad == {k \in 1..n : g[k] \notin Seq(S)}
  <2>2. ASSUME Bad # {} PROVE FALSE
    <3>1. Bad \subseteq Nat
      OBVIOUS
    <3>2. PICK b \in Bad : \A m \in Bad : b <= m
      <4> HIDE DEF Bad
      <4> QED
        BY <2>2, <3>1, LeastOf
    <3>3. b # 1
      BY <2>1, <1>2
    <3>4. b \in 2..n /\ b - 1 \in 1..n /\ ~(b <= b - 1)
      BY <3>3
    <3>5. g[b - 1] \in Seq(S) /\ v[b] \in Seq(S)
      BY <3>2, <3>4
    <3>6. g[b] = g[b - 1] \o v[b]
      BY <2>1, <3>4
    <3>7. g[b - 1] \o v[b] \in Seq(S)
      BY <3>5
    <3> QED
      BY <3>2, <3>6, <3>7
  <2>3. n \in 1..n
    BY <1>2
  <2> QED
    BY <2>1, <2>2, <2>3
<1> QED
  BY <1>1, <1>2

\* Member k of v fills the places up to off[k], and F says what may be at a place.
Fits(v, n, off, F) ==
    /\ off[0] = 0
    /\ \A k \in 1..n : off[k] = off[k - 1] + Len(v[k])
    /\ \A k \in 1..n : \A j \in 1..Len(v[k]) : v[k][j] \in F[off[k - 1] + j]

FitsUpTo(q, m, F) == Len(q) = m /\ \A i \in 1..m : q[i] \in F[i]

LEMMA FitsMore ==
  ASSUME NEW S, NEW p \in Seq(S), NEW q \in Seq(S), NEW m \in Nat, NEW F, FitsUpTo(p, m, F),
         \A j \in 1..Len(q) : q[j] \in F[m + j]
  PROVE  FitsUpTo(p \o q, m + Len(q), F)
<1>1. Len(p) = m /\ Len(p \o q) = m + Len(q)
  BY DEF FitsUpTo
<1>2. ASSUME NEW i \in 1..(m + Len(q)) PROVE (p \o q)[i] \in F[i]
  <2>1. CASE i \in 1..m
    BY <1>1, <2>1 DEF FitsUpTo
  <2>2. CASE i \notin 1..m
    <3>1. i - m \in 1..Len(q) /\ m + (i - m) = i /\ (p \o q)[i] = q[i - m]
      BY <1>1, <2>2
    <3>2. q[i - m] \in F[m + (i - m)]
      BY <3>1
    <3> QED
      BY <3>1, <3>2
  <2> QED
    BY <2>1, <2>2
<1> QED
  BY <1>1, <1>2 DEF FitsUpTo

LEMMA FlattenFits ==
  ASSUME NEW S, NEW n \in Nat, NEW v \in [1..n -> Seq(S)], NEW off \in [0..n -> Nat], NEW F,
         Fits(v, n, off, F)
  PROVE  FitsUpTo(FlattenSeq(v), off[n], F)
<1>1. CASE n = 0
  <2>1. v \in Seq(S) /\ Len(v) = 0
    BY <1>1, IsSeq
  <2>2. off[0] = 0
    BY DEF Fits
  <2> QED
    BY <1>1, <2>1, <2>2 DEF FlattenSeq, FitsUpTo
<1>2. CASE n # 0
  <2>0. n \in Nat \ {0}
    BY <1>2
  <2>1. PICK g : /\ g[1] = v[1] /\ FlattenSeq(v) = g[n]
                 /\ \A k \in 2..n : g[k] = g[k - 1] \o v[k]
    BY <2>0, FlattenSteps
  <2> DEFINE Bad == {k \in 1..n : ~(g[k] \in Seq(S) /\ FitsUpTo(g[k], off[k], F))}
  <2>2. ASSUME Bad # {} PROVE FALSE
    <3>1. Bad \subseteq Nat
      OBVIOUS
    <3>2. PICK b \in Bad : \A m \in Bad : b <= m
      <4> HIDE DEF Bad
      <4> QED
        BY <2>2, <3>1, LeastOf
    <3>3. b # 1
      <4>1. 1 \in 1..n /\ off[1] = Len(v[1]) /\ Len(v[1]) \in Nat
        BY <1>2 DEF Fits
      <4>2. \A j \in 1..Len(v[1]) : v[1][j] \in F[0 + j]
        BY <4>1 DEF Fits
      <4>3. FitsUpTo(v[1], off[1], F)
        BY <4>1, <4>2 DEF FitsUpTo
      <4> QED
        BY <2>1, <4>1, <4>3
    <3>4. b \in 2..n /\ b \in 1..n /\ b - 1 \in 1..n /\ ~(b <= b - 1) /\ b - 1 \in 0..n
      BY <3>3
    <3>5. g[b - 1] \in Seq(S) /\ v[b] \in Seq(S) /\ FitsUpTo(g[b - 1], off[b - 1], F)
      BY <3>2, <3>4
    <3>6. g[b] = g[b - 1] \o v[b]
      BY <2>1, <3>4
    <3>7. off[b] = off[b - 1] + Len(v[b]) /\ \A j \in 1..Len(v[b]) : v[b][j] \in F[off[b - 1] + j]
      BY <3>4 DEF Fits
    <3>8. FitsUpTo(g[b - 1] \o v[b], off[b - 1] + Len(v[b]), F)
      <4>1. off[b - 1] \in Nat
        BY <3>4
      <4> QED
        BY <3>5, <3>7, <4>1, FitsMore
    <3>9. g[b - 1] \o v[b] \in Seq(S)
      BY <3>5
    <3> QED
      BY <3>2, <3>6, <3>7, <3>8, <3>9
  <2>3. n \in 1..n
    BY <1>2
  <2> QED
    BY <2>1, <2>2, <2>3
<1> QED
  BY <1>1, <1>2

(***************************************************************************)
(* What an import writes                                                   *)
(***************************************************************************)

\* Sequences put together from pairs alternate their halves.
Paired(v, a, b, n) == v = [k \in 1..n |-> <<a[k], b[k]>>]

Alternate(q, a, b, n) == Len(q) = 2 * n /\ \A k \in 1..n : q[2 * k - 1] = a[k] /\ q[2 * k] = b[k]

LEMMA PairsAre ==
  ASSUME NEW S, NEW n \in Nat, NEW a \in [1..n -> S], NEW b \in [1..n -> S], NEW v, Paired(v, a, b, n)
  PROVE  FlattenSeq(v) \in Seq(S) /\ Alternate(FlattenSeq(v), a, b, n)
<1> DEFINE off == [k \in 0..n |-> 2 * k]
           At(i) == {x \in S : \A k \in 1..n : (i = 2 * k - 1 => x = a[k]) /\ (i = 2 * k => x = b[k])}
           F == [i \in 1..(2 * n) |-> At(i)]
<1>1. v = [k \in 1..n |-> <<a[k], b[k]>>]
  BY DEF Paired
<1>2. v \in [1..n -> Seq(S)] /\ \A k \in 1..n : Len(v[k]) = 2
  <2>1. \A k \in 1..n : <<a[k], b[k]>> \in Seq(S)
    OBVIOUS
  <2> QED
    BY <1>1, <2>1
<1>3. off \in [0..n -> Nat] /\ off[n] = 2 * n /\ off[0] = 0
  OBVIOUS
<1>4. ASSUME NEW k \in 1..n, NEW j \in 1..Len(v[k]) PROVE v[k][j] \in F[off[k - 1] + j]
  <2>1. off[k - 1] = 2 * k - 2
    OBVIOUS
  <2>2. CASE j = 1
    <3>1. v[k][j] = a[k] /\ off[k - 1] + j = 2 * k - 1 /\ 2 * k - 1 \in 1..(2 * n)
      BY <1>1, <2>1, <2>2
    <3>2. a[k] \in At(2 * k - 1)
      OBVIOUS
    <3> QED
      BY <3>1, <3>2
  <2>3. CASE j = 2
    <3>1. v[k][j] = b[k] /\ off[k - 1] + j = 2 * k /\ 2 * k \in 1..(2 * n)
      BY <1>1, <2>1, <2>3
    <3>2. b[k] \in At(2 * k)
      OBVIOUS
    <3> QED
      BY <3>1, <3>2
  <2>4. j = 1 \/ j = 2
    <3>1. j \in 1..2
      BY <1>2
    <3> QED
      BY <3>1
  <2> QED
    BY <2>2, <2>3, <2>4
<1>5. ASSUME NEW k \in 1..n PROVE off[k] = off[k - 1] + Len(v[k])
  <2>1. off[k] = 2 * k /\ off[k - 1] = 2 * (k - 1)
    OBVIOUS
  <2>2. Len(v[k]) = 2
    BY <1>2
  <2> HIDE DEF off
  <2> QED
    BY <2>1, <2>2
<1>6. ASSUME NEW i, NEW x, x \in At(i), NEW k \in 1..n
      PROVE  (i = 2 * k - 1 => x = a[k]) /\ (i = 2 * k => x = b[k])
  BY <1>6
<1>7. \A i \in 1..(2 * n) : F[i] = At(i)
  OBVIOUS
<1> HIDE DEF off, F, At
<1>9. Fits(v, n, off, F)
  BY <1>3, <1>4, <1>5 DEF Fits
<1>10. FitsUpTo(FlattenSeq(v), 2 * n, F) /\ FlattenSeq(v) \in Seq(S)
  BY <1>2, <1>3, <1>9, FlattenFits, FlattenIsSeq
<1>11. ASSUME NEW k \in 1..n
       PROVE  FlattenSeq(v)[2 * k - 1] = a[k] /\ FlattenSeq(v)[2 * k] = b[k]
  <2>1. 2 * k - 1 \in 1..(2 * n) /\ 2 * k \in 1..(2 * n)
    OBVIOUS
  <2>2. FlattenSeq(v)[2 * k - 1] \in At(2 * k - 1) /\ FlattenSeq(v)[2 * k] \in At(2 * k)
    BY <1>7, <1>10, <2>1 DEF FitsUpTo
  <2> QED
    BY <1>6, <2>2
<1> QED
  BY <1>10, <1>11 DEF FitsUpTo, Alternate

\* The lines of a batch alternate facts and newlines.
LEMMA LinesAre ==
  ASSUME NEW S, NEW facts \in Seq(S)
  PROVE  /\ Lines(facts) \in Seq(S \cup {Newline})
         /\ Len(Lines(facts)) = 2 * Len(facts)
         /\ \A k \in 1..Len(facts) : /\ Lines(facts)[2 * k - 1] = facts[k]
                                     /\ Lines(facts)[2 * k] = Newline
<1>1. PICK n \in Nat : n = Len(facts) /\ DOMAIN facts = 1..n
  OBVIOUS
<1>2. PICK R : R = S \cup {Newline}
  OBVIOUS
<1>3. PICK f \in [1..n -> R] : f = facts
  BY <1>1, <1>2
<1>4. PICK ends \in [1..n -> R] : \A k \in 1..n : ends[k] = Newline
  <2>1. [k \in 1..n |-> Newline] \in [1..n -> R]
    BY <1>2
  <2> QED
    BY <2>1
<1>5. PICK v : v = [k \in DOMAIN facts |-> <<facts[k], Newline>>]
  OBVIOUS
<1>6. Paired(v, f, ends, n)
  BY <1>1, <1>3, <1>4, <1>5 DEF Paired
<1>7. Lines(facts) = FlattenSeq(v)
  BY <1>5 DEF Lines
<1>8. FlattenSeq(v) \in Seq(R) /\ Alternate(FlattenSeq(v), f, ends, n)
  BY <1>6, PairsAre
<1> QED
  BY <1>1, <1>2, <1>3, <1>4, <1>7, <1>8 DEF Alternate

\* An order of 1..n leaves none of them out.
LEMMA OrdersFill ==
  ASSUME NEW n \in Nat, NEW p \in Orders(n)
  PROVE  \A k \in 1..n : \E i \in 1..n : p[i] = k
<1>1. p \in Injection(1..n, 1..n)
  BY DEF Orders, Injection, IsInjective
<1>2. IsFiniteSet(1..n)
  BY FS_Interval
<1>3. p \in Surjection(1..n, 1..n)
  BY <1>1, <1>2, FS_Injection
<1> QED
  BY <1>3 DEF Surjection

LEMMA RealignIs == ASSUME NEW a PROVE Realign(a) = [k \in 1..Len(a) |-> Realign(a)[k]]
<1>1. CASE IsPermutation(a)
  <2> DEFINE f == [k \in 1..Len(a) |-> a[CHOOSE i \in 1..Len(a) : a[i].index = k].emb]
  <2>1. Realign(a) = f
    BY <1>1 DEF Realign
  <2>2. f = [k \in 1..Len(a) |-> f[k]]
    OBVIOUS
  <2> QED
    BY <2>1, <2>2, Zenon
<1>2. CASE ~IsPermutation(a)
  BY <1>2 DEF Realign
<1> QED
  BY <1>1, <1>2

\* Whatever the server answers to a chunk, each text gets its own vector or none.
Aligned(embs, texts) ==
    Len(embs) = Len(texts) /\ \A k \in 1..Len(texts) : embs[k] \in {texts[k], None}

LEMMA ChunkAligned ==
  ASSUME NEW S, NEW texts \in Seq(S), NEW a \in Answers(texts)
  PROVE  /\ EmbedChunk(texts, a) \in Seq(S \cup {None})
         /\ Aligned(EmbedChunk(texts, a), texts)
<1> DEFINE n == Len(texts)
           R == S \cup {None}
<1>1. n \in Nat /\ \A k \in 1..n : texts[k] \in R
  OBVIOUS
<1>2. SUFFICES ASSUME NEW e, e = EmbedChunk(texts, a)
               PROVE  e = [k \in 1..n |-> e[k]] /\ \A k \in 1..n : e[k] \in {texts[k], None}
  <2>1. DEFINE e == EmbedChunk(texts, a)
  <2>2. e = [k \in 1..n |-> e[k]] /\ \A k \in 1..n : e[k] \in {texts[k], None}
    BY <1>2
  <2>3. e \in [1..n -> R]
    BY <1>1, <2>2
  <2>4. e \in Seq(R) /\ Len(e) = n
    BY <1>1, <2>3, IsSeq
  <2> QED
    BY <2>2, <2>4 DEF Aligned
<1>3. CASE Len(a) # n
  <2>1. e = [k \in 1..n |-> None]
    BY <1>2, <1>3 DEF EmbedChunk
  <2> QED
    BY <2>1
<1>4. CASE Len(a) = n
  <2>1. e = Realign(a)
    BY <1>2, <1>4 DEF EmbedChunk
  <2>2. e = [k \in 1..n |-> e[k]]
    BY <1>4, <2>1, RealignIs
  <2>3. CASE a = <<>>
    <3>1. n = 0
      BY <1>4, <2>3
    <3> QED
      BY <2>2, <3>1
  <2>4. CASE \E i \in {1, n + 1} : a = [k \in 1..n |-> [index |-> i, emb |-> texts[k]]]
    <3>1. PICK i \in {1, n + 1} : a = [k \in 1..n |-> [index |-> i, emb |-> texts[k]]]
      BY <2>4
    <3>2. \A k \in 1..n : a[k].index = i /\ a[k].emb = texts[k]
      BY <3>1
    <3>3. CASE IsPermutation(a)
      <4>1. ASSUME NEW k \in 1..n PROVE e[k] = texts[k]
        <5>1. \A j, l \in 1..n : j = l
          BY <1>4, <3>2, <3>3 DEF IsPermutation
        <5>2. i \in 1..n
          BY <1>4, <3>2, <3>3 DEF IsPermutation
        <5>3. \A j \in 1..n : a[j].index = k /\ j = k
          BY <3>2, <5>1, <5>2
        <5>4. (CHOOSE j \in 1..n : a[j].index = k) = k
          BY <5>3
        <5>5. e[k] = a[CHOOSE j \in 1..n : a[j].index = k].emb
          BY <1>4, <2>1, <3>3 DEF Realign
        <5> QED
          BY <3>2, <5>4, <5>5
      <4> QED
        BY <2>2, <4>1
    <3>4. CASE ~IsPermutation(a)
      <4>1. \A k \in 1..n : e[k] = a[k].emb
        BY <1>4, <2>1, <3>4 DEF Realign
      <4> QED
        BY <2>2, <3>2, <4>1
    <3> QED
      BY <3>3, <3>4
  <2>5. CASE \E p \in Orders(n) : a = [k \in 1..n |-> [index |-> p[k], emb |-> texts[p[k]]]]
    <3>1. PICK p \in Orders(n) : a = [k \in 1..n |-> [index |-> p[k], emb |-> texts[p[k]]]]
      BY <2>5
    <3>2. \A k \in 1..n : a[k].index = p[k] /\ a[k].emb = texts[p[k]] /\ p[k] \in 1..n
      BY <3>1 DEF Orders
    <3>3. IsPermutation(a)
      BY <1>4, <3>2 DEF IsPermutation, Orders
    <3>4. ASSUME NEW k \in 1..n PROVE e[k] = texts[k]
      <4>1. \E j \in 1..n : a[j].index = k
        <5>1. \E j \in 1..n : p[j] = k
          <6> HIDE DEF n
          <6> QED
            BY <1>1, OrdersFill
        <5> QED
          BY <3>2, <5>1
      <4> DEFINE j == CHOOSE j \in 1..n : a[j].index = k
      <4>2. j \in 1..n /\ a[j].index = k
        BY <4>1
      <4>3. e[k] = a[j].emb
        BY <1>4, <2>1, <3>3 DEF Realign
      <4> HIDE DEF j
      <4> QED
        BY <3>2, <4>2, <4>3
    <3> QED
      BY <2>2, <3>4
  <2> QED
    BY <2>3, <2>4, <2>5 DEF Answers
<1> QED
  BY <1>3, <1>4

LEMMA MinOf ==
  ASSUME NEW a \in Int, NEW b \in Int
  PROVE  Min({a, b}) = IF a <= b THEN a ELSE b
<1> DEFINE m == IF a <= b THEN a ELSE b
<1>1. m \in {a, b} /\ \A x \in {a, b} : m <= x
  OBVIOUS
<1>2. \A y \in {a, b} : (\A x \in {a, b} : y <= x) => y = m
  OBVIOUS
<1> HIDE DEF m
<1>3. Min({a, b}) = m
  BY <1>1, <1>2 DEF Min
<1> QED
  BY <1>3 DEF m

LEMMA Product ==
  ASSUME NEW a \in Nat, NEW b \in Nat, NEW c \in Nat, a <= b
  PROVE  a * c <= b * c /\ a * c \in Nat
<1>1. (b - a) * c \in Nat /\ b * c = a * c + (b - a) * c /\ a * c \in Nat
  OBVIOUS
<1> QED
  BY <1>1

LEMMA SubSeqIs ==
  ASSUME NEW S, NEW q \in Seq(S), NEW a \in Nat, NEW b \in Nat, a <= b, b <= Len(q)
  PROVE  /\ SubSeq(q, a + 1, b) \in Seq(S) /\ Len(SubSeq(q, a + 1, b)) = b - a
         /\ \A j \in 1..(b - a) : SubSeq(q, a + 1, b)[j] = q[a + j]
<1>1. \A i \in (a + 1)..b : q[i] \in S
  OBVIOUS
<1>2. /\ SubSeq(q, a + 1, b) \in Seq(S)
      /\ Len(SubSeq(q, a + 1, b)) = IF a + 1 <= b THEN b - (a + 1) + 1 ELSE 0
      /\ \A i \in 1..(b - (a + 1) + 1) : SubSeq(q, a + 1, b)[i] = q[(a + 1) + i - 1]
  <2>1. a + 1 \in Int /\ b \in Int
    OBVIOUS
  <2> QED
    BY <1>1, <2>1, SubSeqProperties
<1>3. ASSUME NEW j \in 1..(b - a) PROVE SubSeq(q, a + 1, b)[j] = q[a + j]
  <2>1. j \in 1..(b - (a + 1) + 1) /\ (a + 1) + j - 1 = a + j
    OBVIOUS
  <2> QED
    BY <1>2, <2>1
<1> QED
  BY <1>2, <1>3

\* So many chunks cover a batch, and none is empty.
ChunkCount(m) == (m + ChunkSize - 1) \div ChunkSize

LEMMA ChunksCover ==
  ASSUME NEW m \in Nat
  PROVE  /\ ChunkCount(m) \in Nat /\ m <= ChunkCount(m) * ChunkSize
         /\ \A k \in 1..ChunkCount(m) : (k - 1) * ChunkSize < m /\ (k - 1) * ChunkSize \in Nat
<1> DEFINE d == m + ChunkSize - 1
           q == d \div ChunkSize
<1>1. ChunkSize \in Nat /\ ChunkSize # 0 /\ d \in Nat
  BY MemoryAssumption
<1>2. q \in Nat /\ ChunkSize * q <= d /\ d < ChunkSize * q + ChunkSize
  <2> HIDE DEF d
  <2> QED
    BY <1>1
<1> HIDE DEF q
<1>3. ChunkSize * q = q * ChunkSize
  BY <1>1, <1>2
<1>4. m <= q * ChunkSize
  BY <1>1, <1>2, <1>3
<1>5. ASSUME NEW k \in 1..q PROVE (k - 1) * ChunkSize < m /\ (k - 1) * ChunkSize \in Nat
  <2>1. k - 1 \in Nat /\ q - 1 \in Nat /\ k - 1 <= q - 1
    BY <1>2
  <2>2. (k - 1) * ChunkSize <= (q - 1) * ChunkSize /\ (k - 1) * ChunkSize \in Nat
    BY <1>1, <2>1, Product
  <2>3. (q - 1) * ChunkSize = q * ChunkSize - ChunkSize
    BY <1>1, <1>2
  <2> QED
    BY <1>1, <1>2, <1>3, <2>2, <2>3
<1> QED
  BY <1>2, <1>4, <1>5 DEF ChunkCount, q

\* Whichever chunks fail, a batch has as many vectors as texts, each its own or none.
LEMMA BatchAligned ==
  ASSUME NEW S, NEW texts \in Seq(S), NEW embs \in EmbedMany(texts)
  PROVE  Aligned(embs, texts) /\ embs \in Seq(S \cup {None})
<1> DEFINE m == Len(texts)
           n == ChunkCount(m)
           chunks == Chunked(texts)
           off == [k \in 0..n |-> IF k * ChunkSize <= m THEN k * ChunkSize ELSE m]
           F == [i \in 1..m |-> {texts[i], None}]
<1>1. m \in Nat /\ ChunkSize \in Nat
  BY MemoryAssumption
<1>2. n \in Nat /\ m <= n * ChunkSize
      /\ \A k \in 1..n : (k - 1) * ChunkSize < m /\ (k - 1) * ChunkSize \in Nat
  BY <1>1, ChunksCover
<1>3. DOMAIN chunks = 1..n
  BY DEF Chunked, ChunkCount
<1>4. off \in [0..n -> Nat] /\ off[0] = 0 /\ off[n] = m
  <2>1. \A k \in 0..n : k * ChunkSize \in Nat
    BY <1>1, <1>2
  <2>2. 0 * ChunkSize = 0 /\ 0 \in 0..n /\ n \in 0..n
    BY <1>1, <1>2
  <2> HIDE DEF m, n
  <2>3. off \in [0..n -> Nat]
    BY <1>1, <2>1
  <2>4. off[0] = 0
    BY <1>1, <2>2
  <2>5. off[n] = m
    BY <1>1, <1>2, <2>1, <2>2
  <2> QED
    BY <2>3, <2>4, <2>5
<1>5. ASSUME NEW k \in 1..n
      PROVE  /\ chunks[k] \in Seq(S) /\ off[k] = off[k - 1] + Len(chunks[k])
             /\ \A j \in 1..Len(chunks[k]) : /\ chunks[k][j] = texts[off[k - 1] + j]
                                             /\ off[k - 1] + j \in 1..m
  <2>1. chunks[k] = SubSeq(texts, (k - 1) * ChunkSize + 1, Min({k * ChunkSize, m}))
    BY DEF Chunked, ChunkCount
  <2>2. k * ChunkSize \in Nat /\ (k - 1) * ChunkSize \in Nat /\ (k - 1) * ChunkSize < m
        /\ (k - 1) * ChunkSize <= k * ChunkSize /\ k \in 0..n /\ k - 1 \in 0..n
    <3>1. k \in Nat /\ k - 1 \in Nat /\ k - 1 <= k /\ k <= k
      BY <1>2
    <3> QED
      BY <1>1, <1>2, <3>1, Product
  <2> HIDE DEF m, n, chunks
  <2>3. off[k - 1] = (k - 1) * ChunkSize /\ off[k] = Min({k * ChunkSize, m})
    <3>1. Min({k * ChunkSize, m}) = IF k * ChunkSize <= m THEN k * ChunkSize ELSE m
      BY <1>1, <2>2, MinOf
    <3> QED
      BY <1>1, <2>2, <3>1
  <2> HIDE DEF off
  <2>4. off[k - 1] \in Nat /\ off[k] \in Nat /\ off[k - 1] <= off[k] /\ off[k] <= m
    <3>1. Min({k * ChunkSize, m}) = IF k * ChunkSize <= m THEN k * ChunkSize ELSE m
      BY <1>1, <2>2, MinOf
    <3> QED
      BY <1>1, <2>2, <2>3, <3>1
  <2>5. chunks[k] = SubSeq(texts, off[k - 1] + 1, off[k])
    BY <2>1, <2>3
  <2>6. /\ chunks[k] \in Seq(S) /\ Len(chunks[k]) = off[k] - off[k - 1]
        /\ \A j \in 1..(off[k] - off[k - 1]) : chunks[k][j] = texts[off[k - 1] + j]
    <3> DEFINE a == off[k - 1]
               b == off[k]
    <3>1. a \in Nat /\ b \in Nat /\ a <= b /\ b <= Len(texts)
      BY <2>4 DEF m
    <3> HIDE DEF a, b
    <3>2. /\ SubSeq(texts, a + 1, b) \in Seq(S) /\ Len(SubSeq(texts, a + 1, b)) = b - a
          /\ \A j \in 1..(b - a) : SubSeq(texts, a + 1, b)[j] = texts[a + j]
      BY <3>1, SubSeqIs
    <3>3. chunks[k] = SubSeq(texts, a + 1, b)
      BY <2>5 DEF a, b
    <3>4. /\ chunks[k] \in Seq(S) /\ Len(chunks[k]) = b - a
          /\ \A j \in 1..(b - a) : chunks[k][j] = texts[a + j]
      BY <3>2, <3>3
    <3> QED
      BY <3>4 DEF a, b
  <2> QED
    BY <1>1, <2>4, <2>6
<1>6. PICK v : /\ embs = FlattenSeq(v) /\ DOMAIN v = 1..n /\ v = [k \in 1..n |-> v[k]]
               /\ \A k \in 1..n : \E a \in Answers(chunks[k]) : v[k] = EmbedChunk(chunks[k], a)
  <2> DEFINE vectors == [k \in DOMAIN chunks |-> {EmbedChunk(chunks[k], a) : a \in Answers(chunks[k])}]
  <2>1. PICK v \in [DOMAIN chunks -> UNION Range(vectors)] :
           embs = FlattenSeq(v) /\ \A k \in DOMAIN v : v[k] \in vectors[k]
    BY DEF EmbedMany
  <2>2. DOMAIN v = DOMAIN chunks /\ v = [k \in DOMAIN chunks |-> v[k]]
    BY <2>1
  <2>3. \A k \in DOMAIN chunks : vectors[k] = {EmbedChunk(chunks[k], a) : a \in Answers(chunks[k])}
    OBVIOUS
  <2> HIDE DEF chunks, vectors, n
  <2>4. \A k \in 1..n : \E a \in Answers(chunks[k]) : v[k] = EmbedChunk(chunks[k], a)
    BY <1>3, <2>1, <2>2, <2>3
  <2> QED
    BY <1>3, <2>1, <2>2, <2>4
<1> HIDE DEF m, n, chunks, off
<1>7. ASSUME NEW k \in 1..n
      PROVE  v[k] \in Seq(S \cup {None}) /\ Aligned(v[k], chunks[k])
  <2>1. PICK a \in Answers(chunks[k]) : v[k] = EmbedChunk(chunks[k], a)
    BY <1>6
  <2>2. chunks[k] \in Seq(S)
    BY <1>5
  <2> QED
    BY <2>1, <2>2, ChunkAligned
<1>8. v \in [1..n -> Seq(S \cup {None})]
  BY <1>6, <1>7
<1>9. Fits(v, n, off, F)
  <2>1. ASSUME NEW k \in 1..n, NEW j \in 1..Len(v[k]) PROVE v[k][j] \in F[off[k - 1] + j]
    <3>1. j \in 1..Len(chunks[k]) /\ v[k][j] \in {chunks[k][j], None}
      BY <1>7 DEF Aligned
    <3>2. chunks[k][j] = texts[off[k - 1] + j] /\ off[k - 1] + j \in 1..m
      BY <1>5, <3>1
    <3> QED
      BY <3>1, <3>2
  <2>2. \A k \in 1..n : off[k] = off[k - 1] + Len(v[k])
    BY <1>5, <1>7 DEF Aligned
  <2> QED
    BY <1>4, <2>1, <2>2 DEF Fits
<1> HIDE DEF F
<1>10. FitsUpTo(embs, off[n], F) /\ embs \in Seq(S \cup {None})
  BY <1>2, <1>4, <1>6, <1>8, <1>9, FlattenFits, FlattenIsSeq
<1> QED
  BY <1>4, <1>10 DEF FitsUpTo, Aligned, F, m

\* g follows an import through the messages, as Ingested does.
Read(acc, export, msg, include, sanitize) ==
    IF Wanted(export[1].format, msg, include) THEN PrepFact(acc, msg, sanitize) ELSE acc
Nothing == [mapping |-> NewSanitizer, texts |-> <<>>, raw |-> <<>>]
Reads(g, n, export, msgs, include, sanitize) ==
    g = [k \in 0..n |-> IF k = 0 THEN Nothing ELSE Read(g[k - 1], export, msgs[k], include, sanitize)]

LEMMA ReadsExists ==
  ASSUME NEW n \in Nat, NEW export, NEW msgs, NEW include, NEW sanitize
  PROVE  \E g : Reads(g, n, export, msgs, include, sanitize)
<1> DEFINE Ok(g, m) == Reads(g, m, export, msgs, include, sanitize)
           More(acc, k) == Read(acc, export, msgs[k], include, sanitize)
           Bad == {m \in Nat : ~\E g : Ok(g, m)}
<1>0. \A g, m : Ok(g, m) <=> g = [k \in 0..m |-> IF k = 0 THEN Nothing ELSE More(g[k - 1], k)]
  BY DEF Reads
<1> HIDE DEF Ok, More
<1>1. SUFFICES ASSUME Bad # {} PROVE FALSE
  BY DEF Ok
<1>2. PICK b \in Bad : \A m \in Bad : b <= m
  <2>1. Bad \subseteq Nat
    OBVIOUS
  <2> HIDE DEF Bad
  <2> QED
    BY <1>1, <2>1, LeastOf
<1>3. b # 0
  <2> DEFINE z == [k \in 0..0 |-> Nothing]
  <2>1. z = [k \in 0..0 |-> IF k = 0 THEN Nothing ELSE More(z[k - 1], k)]
    OBVIOUS
  <2>2. Ok(z, 0)
    BY <1>0, <2>1
  <2> QED
    BY <2>2
<1>4. b \in Nat \ {0} /\ b - 1 \in Nat /\ ~(b <= b - 1)
  BY <1>3
<1>5. PICK g : Ok(g, b - 1)
  BY <1>2, <1>4
<1> DEFINE h == [k \in 0..b |-> IF k = b THEN More(g[b - 1], b) ELSE g[k]]
<1>6. ASSUME NEW k \in 0..b
      PROVE  h[k] = IF k = 0 THEN Nothing ELSE More(h[k - 1], k)
  <2>1. CASE k = b
    <3>1. h[k] = More(g[b - 1], b) /\ h[k - 1] = g[b - 1]
      BY <2>1, <1>4
    <3> QED
      BY <2>1, <1>4, <3>1
  <2>2. CASE k # b
    <3>1. k \in 0..(b - 1)
      BY <2>2, <1>4
    <3>2. g[k] = IF k = 0 THEN Nothing ELSE More(g[k - 1], k)
      BY <1>0, <1>5, <3>1
    <3>3. h[k] = g[k] /\ (k # 0 => h[k - 1] = g[k - 1])
      BY <2>2, <3>1, <1>4
    <3> QED
      BY <3>2, <3>3
  <2> QED
    BY <2>1, <2>2
<1>7. h = [k \in 0..b |-> h[k]]
  OBVIOUS
<1> HIDE DEF h
<1>8. Ok(h, b)
  BY <1>0, <1>6, <1>7
<1> QED
  BY <1>8

\* What has been collected so far is a sequence of texts.
Collected(acc) ==
    /\ acc = [mapping |-> acc.mapping, texts |-> acc.texts, raw |-> acc.raw]
    /\ \E S : acc.texts \in Seq(S)

LEMMA PrepCollects ==
  ASSUME NEW acc, Collected(acc), NEW msg, NEW sanitize
  PROVE  Collected(PrepFact(acc, msg, sanitize))
<1>1. CASE msg.size # "fits" \/ Len(acc.texts) >= MaxFacts
  BY <1>1 DEF PrepFact
<1>2. CASE ~(msg.size # "fits" \/ Len(acc.texts) >= MaxFacts)
  <2>1. PICK a, b, x : PrepFact(acc, msg, sanitize) =
                          [acc EXCEPT !.mapping = a, !.raw = b, !.texts = Append(acc.texts, x)]
    BY <1>2 DEF PrepFact
  <2>2. PICK S : acc.texts \in Seq(S)
    BY DEF Collected
  <2>3. Append(acc.texts, x) \in Seq(S \cup {x})
    BY <2>2, AppendHas DEF Has
  <2>4. acc = [mapping |-> acc.mapping, texts |-> acc.texts, raw |-> acc.raw]
    BY DEF Collected
  <2>5. PrepFact(acc, msg, sanitize) = [mapping |-> a, texts |-> Append(acc.texts, x), raw |-> b]
    BY <2>1, <2>4
  <2> QED
    BY <2>3, <2>5 DEF Collected
<1> QED
  BY <1>1, <1>2

\* The messages of the conversations of one format, one after the other.
LEMMA MessagesAre ==
  ASSUME NEW export \in Exports
  PROVE  Messages(export) \in Seq(Message)
<1>1. export \in Seq([format : STRING, msgs : Seq(Message)])
  BY ExportAssumption
<1> DEFINE v == [k \in DOMAIN export |->
                    IF export[k].format = export[1].format THEN export[k].msgs ELSE <<>>]
<1>2. DOMAIN export = 1..Len(export) /\ Len(export) \in Nat
  BY <1>1
<1>3. ASSUME NEW k \in DOMAIN export PROVE export[k].msgs \in Seq(Message)
  <2> DEFINE C == [format : STRING, msgs : Seq(Message)]
  <2>1. export \in Seq(C)
    BY <1>1
  <2>2. export[k] \in C
    <3> HIDE DEF C
    <3> QED
      BY <2>1
  <2> QED
    BY <2>2
<1>4. <<>> \in Seq(Message)
  BY EmptySeq
<1>5. v \in [1..Len(export) -> Seq(Message)]
  BY <1>2, <1>3, <1>4
<1>6. Messages(export) = FlattenSeq(v)
  BY DEF Messages
<1> HIDE DEF v
<1> QED
  BY <1>2, <1>5, <1>6, FlattenIsSeq

\* An import is the end of what is read of its messages.
IngestedAs(g, n, msgs, export, include, sanitize) ==
    /\ n = Len(msgs) /\ Ingested(export, include, sanitize) = g[n]
    /\ \A k \in 0..n : g[k] = IF k = 0 THEN Nothing
                              ELSE Read(g[k - 1], export, msgs[k], include, sanitize)

LEMMA IngestedIs ==
  ASSUME NEW export \in Exports, NEW include, NEW sanitize
  PROVE  \E g : \E n \in Nat, msgs \in Seq(Message) : IngestedAs(g, n, msgs, export, include, sanitize)
<1> DEFINE msgs == Messages(export)
           n == Len(msgs)
           g == CHOOSE f : Reads(f, n, export, msgs, include, sanitize)
<1>1. msgs \in Seq(Message)
  BY MessagesAre
<1>2. n \in Nat
  BY <1>1
<1>3. Reads(g, n, export, msgs, include, sanitize)
  <2> HIDE DEF n, msgs
  <2> QED
    BY <1>2, ReadsExists
<1>4. Ingested(export, include, sanitize) = g[n]
  BY Zenon DEF Ingested, Reads, Read, Nothing
<1>5. n = Len(msgs)
  OBVIOUS
<1> HIDE DEF g, n, msgs
<1>6. \A k \in 0..n : g[k] = IF k = 0 THEN Nothing ELSE Read(g[k - 1], export, msgs[k], include, sanitize)
  BY <1>3 DEF Reads
<1>7. IngestedAs(g, n, msgs, export, include, sanitize)
  BY <1>4, <1>5, <1>6 DEF IngestedAs
<1> QED
  BY <1>1, <1>2, <1>7

LEMMA IngestedTexts ==
  ASSUME NEW export \in Exports, NEW include, NEW sanitize
  PROVE  \E S : Ingested(export, include, sanitize).texts \in Seq(S)
<1>0. PICK g : \E n \in Nat, msgs \in Seq(Message) : IngestedAs(g, n, msgs, export, include, sanitize)
  BY IngestedIs
<1>1. PICK n \in Nat, msgs \in Seq(Message) : IngestedAs(g, n, msgs, export, include, sanitize)
  BY <1>0
<1>2. /\ n = Len(msgs) /\ Ingested(export, include, sanitize) = g[n]
      /\ \A k \in 0..n : g[k] = IF k = 0 THEN Nothing
                                ELSE Read(g[k - 1], export, msgs[k], include, sanitize)
  BY <1>1 DEF IngestedAs
<1> DEFINE Bad == {k \in 0..n : ~Collected(g[k])}
<1>3. ASSUME Bad # {} PROVE FALSE
  <2>1. Bad \subseteq Nat
    OBVIOUS
  <2>2. PICK b \in Bad : \A m \in Bad : b <= m
    <3> HIDE DEF Bad
    <3> QED
      BY <1>3, <2>1, LeastOf
  <2>3. b # 0
    <3>1. 0 \in 0..n /\ <<>> \in Seq({})
      OBVIOUS
    <3>2. Collected(Nothing)
      BY <3>1 DEF Collected, Nothing
    <3> QED
      BY <1>2, <3>1, <3>2
  <2>4. b \in 0..n /\ b - 1 \in 0..n /\ ~(b <= b - 1)
    BY <2>3
  <2>5. Collected(g[b - 1])
    BY <2>2, <2>4
  <2>6. g[b] = Read(g[b - 1], export, msgs[b], include, sanitize)
    BY <1>2, <2>3, <2>4
  <2>7. Collected(Read(g[b - 1], export, msgs[b], include, sanitize))
    BY <2>5, PrepCollects DEF Read
  <2> QED
    BY <2>2, <2>6, <2>7
<1>4. Collected(g[n])
  BY <1>3
<1> QED
  BY <1>2, <1>4 DEF Collected

\* The facts of an import are its texts, in their order, each with its own vector or
\* none.
LEMMA ImportIs ==
  ASSUME NEW b \in Imports
  PROVE  /\ b.st = "batch" /\ b.texts \in Seq(AllTexts)
         /\ b.facts \in Seq({p \in Piece : p.origin = "untrusted"})
         /\ Len(b.facts) = Len(b.texts)
         /\ \A k \in 1..Len(b.facts) : b.facts[k].text = b.texts[k]
<1>1. PICK export \in Exports, include \in BOOLEAN, sanitize \in BOOLEAN :
        LET in == Ingested(export, include, sanitize)
        IN  \E embs \in EmbedMany(in.texts) :
               b = [st |-> "batch", texts |-> in.texts, raw |-> in.raw, clean |-> sanitize,
                    facts |-> Batch(in.texts, embs)]
  BY DEF Imports
<1> DEFINE texts == Ingested(export, include, sanitize).texts
<1>2. PICK embs \in EmbedMany(texts) :
        b.st = "batch" /\ b.texts = texts /\ b.facts = Batch(texts, embs)
  BY <1>1
<1>3. PICK S : texts \in Seq(S)
  BY IngestedTexts
<1> HIDE DEF texts
<1>4. Aligned(embs, texts) /\ Len(texts) \in Nat /\ DOMAIN texts = 1..Len(texts)
  <2>1. Aligned(embs, texts)
    BY <1>3, BatchAligned
  <2> QED
    BY <1>3, <2>1
<1> DEFINE n == Len(texts)
<1>5. Min({n, Len(embs)}) = n
  BY <1>4, MinOf DEF Aligned
<1>6. b.facts = [k \in 1..n |-> Fact(texts[k], embs[k], "untrusted")]
  BY <1>2, <1>5 DEF Batch
<1>7. ASSUME NEW k \in 1..n
      PROVE  /\ texts[k] \in AllTexts /\ b.facts[k] \in {p \in Piece : p.origin = "untrusted"}
             /\ b.facts[k].text = texts[k]
  <2>1. texts[k] \in AllTexts
    <3>1. texts[k] \in {b.texts[i] : i \in DOMAIN b.texts}
      BY <1>2, <1>4
    <3> QED
      BY <3>1 DEF AllTexts
  <2>2. embs[k] \in {texts[k], None} /\ None \in AllTexts
    BY <1>4 DEF Aligned, AllTexts, None
  <2>3. b.facts[k] = [text |-> texts[k], emb |-> embs[k], origin |-> "untrusted"]
    BY <1>6 DEF Fact
  <2> QED
    BY <2>1, <2>2, <2>3 DEF Piece
<1>8. b.texts \in Seq(AllTexts)
  <2>1. texts \in [1..n -> AllTexts]
    BY <1>3, <1>4, <1>7
  <2> QED
    BY <1>2, <1>4, <2>1, IsSeq
<1>9. b.facts \in Seq({p \in Piece : p.origin = "untrusted"}) /\ Len(b.facts) = n
  <2>1. b.facts \in [1..n -> {p \in Piece : p.origin = "untrusted"}]
    BY <1>6, <1>7
  <2> QED
    BY <1>4, <2>1, IsSeq
<1> QED
  BY <1>2, <1>7, <1>8, <1>9

(***************************************************************************)
(* The sanitizer                                                           *)
(***************************************************************************)

\* The categories a rule may find.
RuleNames == {Rules[i] : i \in 1..14}

LEMMA RulesAre ==
  /\ Len(Rules) = 14 /\ DOMAIN Rules = 1..14 /\ ToSet(Rules) = RuleNames
  /\ "placeholder" \notin RuleNames /\ "hard" \notin RuleNames
  /\ "card" \notin RuleNames /\ "digits" \notin RuleNames
<1>1. Len(Rules) = 14 /\ DOMAIN Rules = 1..14
  BY DEF Rules
<1>2. ASSUME NEW i \in 1..14
      PROVE  Rules[i] \in {"USERNAME", "PEM_PRIVATE_KEY", "URL", "EMAIL", "JWT", "API_KEY", "CREDIT_CARD",
                           "SSN", "IP_ADDRESS", "IPV6_ADDRESS", "MAC_ADDRESS", "ETH_ADDRESS",
                           "BTC_ADDRESS", "PHONE"}
  BY DEF Rules
<1>3. ASSUME NEW r \in RuleNames
      PROVE  /\ r # "placeholder" /\ r # "hard" /\ r # "card" /\ r # "digits"
  <2>1. PICK i \in 1..14 : r = Rules[i]
    BY DEF RuleNames
  <2> QED
    BY <1>2, <2>1
<1>4. ToSet(Rules) = RuleNames
  BY <1>1 DEF ToSet, RuleNames
<1> QED
  BY <1>1, <1>3, <1>4

\* A segment has one category at most, a placeholder and a hard one have none.
LEMMA CategoriesAre ==
  ASSUME NEW seg, NEW r \in RuleNames, Matches(r, seg)
  PROVE  /\ seg.kind # "placeholder" /\ seg.kind # "hard"
         /\ \A q \in RuleNames : Matches(q, seg) => q = r
BY RulesAre DEF Matches

\* Numbers tell the entries of a category apart.
Numbered(M) ==
    /\ IsFiniteSet(M)
    /\ \A e \in M : e.n \in Nat /\ e.n <= Cardinality({f \in M : f.cat = e.cat})
    /\ \A e, f \in M : e.cat = f.cat => (e.val = f.val <=> e.n = f.n)

\* Looking a value up keeps the entries, and there is one for it afterwards.
LEMMA MappedKeeps ==
  ASSUME NEW M, Numbered(M), NEW cat, NEW val
  PROVE  /\ Numbered(Mapped(M, cat, val)) /\ M \subseteq Mapped(M, cat, val)
         /\ \E e \in Mapped(M, cat, val) : e.cat = cat /\ e.val = val
<1>1. CASE Entries(M, cat, val) # {}
  BY <1>1 DEF Mapped, Entries
<1>2. CASE Entries(M, cat, val) = {}
  <2> DEFINE C(N, c) == {e \in N : e.cat = c}
  <2>1. IsFiniteSet(C(M, cat)) /\ Cardinality(C(M, cat)) \in Nat
    <3>1. C(M, cat) \subseteq M /\ IsFiniteSet(M)
      BY DEF Numbered
    <3> QED
      BY <3>1, FS_Subset, FS_CardinalityType
  <2>2. PICK k \in Nat : k = Cardinality(C(M, cat))
    BY <2>1
  <2>3. PICK x : x = [cat |-> cat, val |-> val, n |-> 1 + k]
    OBVIOUS
  <2>4. x.cat = cat /\ x.val = val /\ x.n = 1 + k
    BY <2>3
  <2>5. PICK N : N = M \cup {x} /\ N = Mapped(M, cat, val)
    BY <1>2, <2>2, <2>3 DEF Mapped
  <2>6. x \notin M /\ \A e \in M : ~(e.cat = cat /\ e.val = val)
    BY <1>2, <2>4 DEF Entries
  <2>7. IsFiniteSet(N)
    BY <2>5, FS_AddElement DEF Numbered
  <2>8. Cardinality(C(N, cat)) = k + 1
    <3>1. C(N, cat) = C(M, cat) \cup {x} /\ x \notin C(M, cat)
      BY <2>4, <2>5, <2>6
    <3> HIDE DEF C
    <3> QED
      BY <2>1, <2>2, <3>1, FS_AddElement
  <2>9. ASSUME NEW e \in M PROVE e.n \in Nat /\ e.n <= Cardinality(C(N, e.cat)) /\ (e.cat = cat => e.n <= k)
    <3>1. e.n \in Nat /\ e.n <= Cardinality(C(M, e.cat))
      BY DEF Numbered
    <3>2. CASE e.cat = cat
      BY <2>2, <2>8, <3>1, <3>2
    <3>3. CASE e.cat # cat
      <4>1. C(N, e.cat) = C(M, e.cat)
        BY <2>4, <2>5, <3>3
      <4> QED
        BY <3>1, <3>3, <4>1
    <3> QED
      BY <3>2, <3>3
  <2>10. ASSUME NEW e \in N PROVE e.n \in Nat /\ e.n <= Cardinality(C(N, e.cat))
    <3>1. CASE e \in M
      BY <2>9, <3>1
    <3>2. CASE e = x
      BY <2>2, <2>4, <2>8, <3>2
    <3> QED
      BY <2>5, <3>1, <3>2
  <2>11. ASSUME NEW e \in M PROVE e.cat = x.cat => e.val # x.val /\ e.n # x.n
    <3>1. ASSUME e.cat = cat PROVE e.val # val /\ e.n # 1 + k
      <4>1. e.n \in Nat /\ e.n <= k
        BY <2>9, <3>1
      <4> QED
        BY <2>2, <2>6, <3>1, <4>1
    <3> QED
      BY <2>4, <3>1
  <2>12. ASSUME NEW e \in N, NEW f \in N, e.cat = f.cat PROVE e.val = f.val <=> e.n = f.n
    <3>1. CASE e \in M /\ f \in M
      BY <2>12, <3>1 DEF Numbered
    <3>2. CASE e = x /\ f = x
      BY <3>2
    <3>3. CASE e \in M /\ f = x
      BY <2>11, <2>12, <3>3
    <3>4. CASE e = x /\ f \in M
      BY <2>11, <2>12, <3>4
    <3> QED
      BY <2>5, <3>1, <3>2, <3>3, <3>4
  <2>13. Numbered(N)
    BY <2>7, <2>10, <2>12 DEF Numbered
  <2>14. M \subseteq N /\ x \in N
    BY <2>5
  <2> QED
    BY <2>4, <2>5, <2>13, <2>14
<1> QED
  BY <1>1, <1>2

\* x is the placeholder of a value.
Given(M, cat, val, x) ==
    \E e \in M : e.cat = cat /\ e.val = val /\ x = [kind |-> "placeholder", val |-> <<cat, e.n>>]

LEMMA GivenStays ==
  ASSUME NEW M, NEW N, M \subseteq N, NEW cat, NEW val, NEW x, Given(M, cat, val, x)
  PROVE  Given(N, cat, val, x)
BY DEF Given

LEMMA GivenBy ==
  ASSUME NEW M, NEW cat, NEW val, \E e \in M : e.cat = cat /\ e.val = val
  PROVE  Given(M, cat, val, Placeholder(M, cat, val))
<1> DEFINE e == CHOOSE f \in Entries(M, cat, val) : TRUE
<1>1. e \in M /\ e.cat = cat /\ e.val = val
  BY DEF Entries
<1>2. Placeholder(M, cat, val) = [kind |-> "placeholder", val |-> <<cat, e.n>>]
  BY DEF Placeholder
<1> HIDE DEF e
<1> QED
  BY <1>1, <1>2 DEF Given

LEMMA GivenIs == ASSUME NEW M, NEW cat, NEW val, NEW x, Given(M, cat, val, x) PROVE x.kind = "placeholder"
BY DEF Given

\* Two values have the same placeholder exactly when they are the same.
\* Two placeholders are equal only for one value of one category.
LEMMA GivenTells ==
  ASSUME NEW M, Numbered(M), NEW c, NEW v, NEW x, Given(M, c, v, x), NEW d, NEW w, NEW y, Given(M, d, w, y)
  PROVE  x = y <=> c = d /\ v = w
<1>1. PICK e \in M : e.cat = c /\ e.val = v /\ x = [kind |-> "placeholder", val |-> <<c, e.n>>]
  BY DEF Given
<1>2. PICK f \in M : f.cat = d /\ f.val = w /\ y = [kind |-> "placeholder", val |-> <<d, f.n>>]
  BY DEF Given
<1>3. x.val = <<c, e.n>> /\ y.val = <<d, f.n>>
  BY <1>1, <1>2
<1>4. c = d => (v = w <=> e.n = f.n)
  BY <1>1, <1>2 DEF Numbered
<1>5. ASSUME x = y PROVE c = d /\ v = w
  <2>1. <<c, e.n>> = <<d, f.n>>
    BY <1>3, <1>5
  <2>2. c = d /\ e.n = f.n
    BY <2>1
  <2> QED
    BY <1>4, <2>2
<1>6. ASSUME c = d, v = w PROVE x = y
  BY <1>1, <1>2, <1>4, <1>6
<1> QED
  BY <1>5, <1>6

\* What the rules passed make of a segment.
Treated(raw, j, x, M, passed) ==
    \/ x = raw[j] /\ \A r \in passed : ~(Reached(r, raw, j) /\ Matches(r, raw[j]))
    \/ \E r \in passed : Reached(r, raw, j) /\ Matches(r, raw[j]) /\ Given(M, r, raw[j].val, x)
Clean(raw, st, passed, n) ==
    /\ Numbered(st.mapping)
    /\ \E S : st.text \in Seq(S)
    /\ Len(st.text) = n
    /\ \A j \in 1..n : Treated(raw, j, st.text[j], st.mapping, passed)

LEMMA TreatedStays ==
  ASSUME NEW raw, NEW j, NEW x, NEW M, NEW N, M \subseteq N, NEW passed, Treated(raw, j, x, M, passed)
  PROVE  Treated(raw, j, x, N, passed)
BY GivenStays DEF Treated

\* A rule sees of a text only what no rule before has replaced.
LEMMA HitIs ==
  ASSUME NEW raw, NEW text, NEW n \in Nat, NEW M, NEW passed \in SUBSET RuleNames,
         NEW rule \in RuleNames, \A i \in 1..n : Treated(raw, i, text[i], M, passed), NEW j \in 1..n
  PROVE  /\ Hit(rule, text, j) => text[j] = raw[j] /\ Reached(rule, raw, j) /\ Matches(rule, raw[j])
         /\ ~Hit(rule, text, j) => Treated(raw, j, text[j], M, passed \cup {rule})
<1>1. ASSUME NEW i \in 1..n PROVE Stops(rule, text[i]) <=> Stops(rule, raw[i])
  <2>1. Treated(raw, i, text[i], M, passed)
    OBVIOUS
  <2>2. CASE text[i] = raw[i]
    BY <2>2
  <2>3. CASE \E r \in passed : Matches(r, raw[i]) /\ Given(M, r, raw[i].val, text[i])
    <3>1. PICK r \in RuleNames : Matches(r, raw[i]) /\ Given(M, r, raw[i].val, text[i])
      BY <2>3
    <3>2. raw[i].kind # "hard"
      BY <3>1, CategoriesAre
    <3>3. text[i].kind = "placeholder"
      BY <3>1, GivenIs
    <3> QED
      BY <3>2, <3>3 DEF Stops
  <2> QED
    BY <2>1, <2>2, <2>3 DEF Treated
<1>2. Reached(rule, text, j) <=> Reached(rule, raw, j)
  <2>1. \A i \in 1..j : i \in 1..n
    OBVIOUS
  <2> QED
    BY <1>1, <2>1 DEF Reached
<1>3. Treated(raw, j, text[j], M, passed)
  OBVIOUS
<1>4. CASE text[j] = raw[j] /\ \A r \in passed : ~(Reached(r, raw, j) /\ Matches(r, raw[j]))
  <2>1. Hit(rule, text, j) <=> Reached(rule, raw, j) /\ Matches(rule, raw[j])
    BY <1>2, <1>4 DEF Hit
  <2>2. ASSUME ~(Reached(rule, raw, j) /\ Matches(rule, raw[j]))
        PROVE  Treated(raw, j, text[j], M, passed \cup {rule})
    BY <1>4, <2>2 DEF Treated
  <2> QED
    BY <1>4, <2>1, <2>2
<1>5. CASE \E r \in passed : Reached(r, raw, j) /\ Matches(r, raw[j]) /\ Given(M, r, raw[j].val, text[j])
  <2>1. PICK r \in passed : Reached(r, raw, j) /\ Matches(r, raw[j]) /\ Given(M, r, raw[j].val, text[j])
    BY <1>5
  <2>2. text[j].kind = "placeholder"
    BY <2>1, GivenIs
  <2>3. ~Matches(rule, text[j])
    <3>1. ASSUME Matches(rule, text[j]) PROVE FALSE
      BY <2>2, <3>1, CategoriesAre
    <3> QED
      BY <3>1
  <2>4. Treated(raw, j, text[j], M, passed \cup {rule})
    BY <2>1 DEF Treated
  <2> QED
    BY <2>3, <2>4 DEF Hit
<1> QED
  BY <1>3, <1>4, <1>5 DEF Treated

\* g follows a rule through a text, as Pass does.
Blank(st) == [mapping |-> st.mapping, text |-> <<>>]
Move(acc, st, rule, k) ==
    IF Hit(rule, st.text, k) THEN Replaced(acc, rule, st.text[k]) ELSE Left(acc, st.text[k])
Moves(g, n, st, rule) ==
    g = [k \in 0..n |-> IF k = 0 THEN Blank(st) ELSE Move(g[k - 1], st, rule, k)]

\* Such a g exists for a text of any length.
LEMMA MovesExists ==
  ASSUME NEW n \in Nat, NEW st, NEW rule
  PROVE  \E g : Moves(g, n, st, rule)
<1> DEFINE Ok(g, m) == Moves(g, m, st, rule)
           More(acc, k) == Move(acc, st, rule, k)
           Start0 == Blank(st)
           Bad == {m \in Nat : ~\E g : Ok(g, m)}
<1>0. \A g, m : Ok(g, m) <=> g = [k \in 0..m |-> IF k = 0 THEN Start0 ELSE More(g[k - 1], k)]
  BY DEF Moves
<1> HIDE DEF Ok, More, Start0
<1>1. SUFFICES ASSUME Bad # {} PROVE FALSE
  BY DEF Ok
<1>2. PICK b \in Bad : \A m \in Bad : b <= m
  <2>1. Bad \subseteq Nat
    OBVIOUS
  <2> HIDE DEF Bad
  <2> QED
    BY <1>1, <2>1, LeastOf
<1>3. b # 0
  <2> DEFINE z == [k \in 0..0 |-> Start0]
  <2>1. z = [k \in 0..0 |-> IF k = 0 THEN Start0 ELSE More(z[k - 1], k)]
    OBVIOUS
  <2>2. Ok(z, 0)
    BY <1>0, <2>1
  <2> QED
    BY <2>2
<1>4. b \in Nat \ {0} /\ b - 1 \in Nat /\ ~(b <= b - 1)
  BY <1>3
<1>5. PICK g : Ok(g, b - 1)
  BY <1>2, <1>4
<1> DEFINE h == [k \in 0..b |-> IF k = b THEN More(g[b - 1], b) ELSE g[k]]
<1>6. ASSUME NEW k \in 0..b
      PROVE  h[k] = IF k = 0 THEN Start0 ELSE More(h[k - 1], k)
  <2>1. CASE k = b
    <3>1. h[k] = More(g[b - 1], b) /\ h[k - 1] = g[b - 1]
      BY <2>1, <1>4
    <3> QED
      BY <2>1, <1>4, <3>1
  <2>2. CASE k # b
    <3>1. k \in 0..(b - 1)
      BY <2>2, <1>4
    <3>2. g[k] = IF k = 0 THEN Start0 ELSE More(g[k - 1], k)
      BY <1>0, <1>5, <3>1
    <3>3. h[k] = g[k] /\ (k # 0 => h[k - 1] = g[k - 1])
      BY <2>2, <3>1, <1>4
    <3> QED
      BY <3>2, <3>3
  <2> QED
    BY <2>1, <2>2
<1>7. h = [k \in 0..b |-> h[k]]
  OBVIOUS
<1> HIDE DEF h
<1>8. Ok(h, b)
  BY <1>0, <1>6, <1>7
<1> QED
  BY <1>8

\* One more segment leaves those before as they are.
\* One segment of a pass: what is behind it is treated, the numbers stay apart.
LEMMA MoveKeeps ==
  ASSUME NEW raw, NEW n \in Nat, NEW passed \in SUBSET RuleNames, NEW rule \in RuleNames,
         NEW st, Clean(raw, st, passed, n), NEW acc, NEW m \in 0..n, m < n,
         st.mapping \subseteq acc.mapping, Clean(raw, acc, passed \cup {rule}, m)
  PROVE  /\ Clean(raw, Move(acc, st, rule, m + 1), passed \cup {rule}, m + 1)
         /\ st.mapping \subseteq Move(acc, st, rule, m + 1).mapping
<1>1. PICK j \in 1..n : j = m + 1
  OBVIOUS
<1>2. PICK S : acc.text \in Seq(S)
  BY DEF Clean
<1>3. PICK x, N : /\ Move(acc, st, rule, j) = [mapping |-> N, text |-> Append(acc.text, x)]
                  /\ Numbered(N) /\ acc.mapping \subseteq N /\ Treated(raw, j, x, N, passed \cup {rule})
  <2>1. /\ Hit(rule, st.text, j) => st.text[j] = raw[j] /\ Reached(rule, raw, j) /\ Matches(rule, raw[j])
        /\ ~Hit(rule, st.text, j) => Treated(raw, j, st.text[j], st.mapping, passed \cup {rule})
    BY HitIs DEF Clean
  <2>2. CASE Hit(rule, st.text, j)
    <3> DEFINE N == Mapped(acc.mapping, rule, raw[j].val)
               x == Placeholder(N, rule, raw[j].val)
    <3>1. st.text[j] = raw[j] /\ Reached(rule, raw, j) /\ Matches(rule, raw[j])
      BY <2>1, <2>2
    <3>2. Move(acc, st, rule, j) = [mapping |-> N, text |-> Append(acc.text, x)]
      BY <2>2, <3>1 DEF Move, Replaced
    <3>3. /\ Numbered(N) /\ acc.mapping \subseteq N
          /\ \E e \in N : e.cat = rule /\ e.val = raw[j].val
      BY MappedKeeps DEF Clean
    <3> HIDE DEF N
    <3>4. Given(N, rule, raw[j].val, x)
      BY <3>3, GivenBy
    <3> HIDE DEF x
    <3>5. Treated(raw, j, x, N, passed \cup {rule})
      BY <3>1, <3>4 DEF Treated
    <3> QED
      BY <3>2, <3>3, <3>5
  <2>3. CASE ~Hit(rule, st.text, j)
    <3>1. Move(acc, st, rule, j) = [mapping |-> acc.mapping, text |-> Append(acc.text, st.text[j])]
      BY <2>3 DEF Move, Left
    <3>2. Treated(raw, j, st.text[j], acc.mapping, passed \cup {rule})
      BY <2>1, <2>3, TreatedStays
    <3> QED
      BY <3>1, <3>2 DEF Clean
  <2> QED
    BY <2>2, <2>3
<1>4. PICK R, t : R = S \cup {x} /\ t = Append(acc.text, x) /\ acc.text \in Seq(R) /\ x \in R
  <2>1. PICK R : R = S \cup {x} /\ acc.text \in Seq(R) /\ x \in R
    <3>1. PICK q \in Seq(S) : q = acc.text
      BY <1>2
    <3>2. q \in Seq(S \cup {x})
      OBVIOUS
    <3> QED
      BY <3>1, <3>2
  <2> QED
    BY <2>1
<1>5. t \in Seq(R) /\ Len(t) = m + 1 /\ t[m + 1] = x /\ \A i \in 1..m : t[i] = acc.text[i]
  BY <1>4 DEF Clean
<1>6. PICK z : z = Move(acc, st, rule, j) /\ z.mapping = N /\ z.text = t
  BY <1>3, <1>4
<1>7. ASSUME NEW i \in 1..(m + 1) PROVE Treated(raw, i, t[i], N, passed \cup {rule})
  <2>1. CASE i = m + 1
    BY <1>1, <1>3, <1>5, <2>1
  <2>2. CASE i # m + 1
    <3>1. i \in 1..m
      BY <2>2
    <3>2. Treated(raw, i, acc.text[i], acc.mapping, passed \cup {rule})
      BY <3>1 DEF Clean
    <3> QED
      BY <1>3, <1>5, <3>1, <3>2, TreatedStays
  <2> QED
    BY <2>1, <2>2
<1>8. Clean(raw, z, passed \cup {rule}, m + 1)
  BY <1>3, <1>5, <1>6, <1>7 DEF Clean
<1> QED
  BY <1>1, <1>3, <1>6, <1>8

\* One pass: every segment is treated by one rule more.
LEMMA PassKeeps ==
  ASSUME NEW raw, NEW n \in Nat, NEW passed \in SUBSET RuleNames, NEW rule \in RuleNames,
         NEW st, Clean(raw, st, passed, n)
  PROVE  /\ Clean(raw, Pass(st, rule), passed \cup {rule}, n)
         /\ st.mapping \subseteq Pass(st, rule).mapping
<1> DEFINE g == CHOOSE f : Moves(f, n, st, rule)
<1>1. Moves(g, n, st, rule)
  BY MovesExists
<1>2. Len(st.text) = n
  BY DEF Clean
<1>3. Pass(st, rule) = g[n]
  BY <1>2, Zenon DEF Pass, Moves, Move, Blank
<1> HIDE DEF g
<1>4. \A k \in 0..n : g[k] = IF k = 0 THEN Blank(st) ELSE Move(g[k - 1], st, rule, k)
  BY <1>1 DEF Moves
<1> DEFINE Ok(k) == Clean(raw, g[k], passed \cup {rule}, k) /\ st.mapping \subseteq g[k].mapping
           Bad == {k \in 0..n : ~Ok(k)}
<1>5. Ok(0)
  <2>1. PICK e : e = <<>> /\ Len(e) = 0 /\ e \in Seq({})
    BY EmptySeq
  <2>2. PICK z : z = Blank(st) /\ z.mapping = st.mapping /\ z.text = e
    <3>1. PICK z : z = Blank(st)
      OBVIOUS
    <3>2. z = [mapping |-> st.mapping, text |-> e]
      BY <2>1, <3>1 DEF Blank
    <3>3. z.mapping = st.mapping /\ z.text = e
      BY <3>2
    <3> QED
      BY <3>1, <3>3
  <2>3. \A j \in 1..0 : Treated(raw, j, e[j], st.mapping, passed \cup {rule})
    OBVIOUS
  <2>4. Numbered(st.mapping)
    BY DEF Clean
  <2>5. Clean(raw, z, passed \cup {rule}, 0) /\ st.mapping \subseteq z.mapping
    BY <2>1, <2>2, <2>3, <2>4 DEF Clean
  <2>6. g[0] = z
    BY <1>4, <2>2
  <2> QED
    BY <2>5, <2>6
<1>6. ASSUME NEW m \in 0..n, m < n, Ok(m) PROVE Ok(m + 1)
  <2>1. PICK acc : acc = g[m]
    OBVIOUS
  <2>2. m + 1 \in 0..n /\ m + 1 # 0 /\ (m + 1) - 1 = m
    BY <1>6
  <2>3. g[m + 1] = Move(acc, st, rule, m + 1)
    BY <1>4, <2>1, <2>2
  <2>4. Clean(raw, acc, passed \cup {rule}, m) /\ st.mapping \subseteq acc.mapping
    BY <1>6, <2>1
  <2>5. /\ Clean(raw, Move(acc, st, rule, m + 1), passed \cup {rule}, m + 1)
        /\ st.mapping \subseteq Move(acc, st, rule, m + 1).mapping
    BY <1>6, <2>4, MoveKeeps
  <2> QED
    BY <2>3, <2>5
<1> HIDE DEF Ok
<1>7. ASSUME Bad # {} PROVE FALSE
  <2>1. Bad \subseteq Nat
    OBVIOUS
  <2>2. PICK b \in Bad : \A k \in Bad : b <= k
    <3> HIDE DEF Bad
    <3> QED
      BY <1>7, <2>1, LeastOf
  <2>3. b # 0
    BY <1>5
  <2>4. PICK m \in 0..n : m + 1 = b /\ m < n /\ ~(b <= m)
    <3>1. b - 1 \in 0..n /\ (b - 1) + 1 = b /\ b - 1 < n /\ ~(b <= b - 1)
      BY <2>3
    <3> QED
      BY <3>1
  <2>5. Ok(m)
    BY <2>2, <2>4
  <2>6. Ok(m + 1)
    BY <1>6, <2>4, <2>5
  <2> QED
    BY <2>2, <2>4, <2>6
<1>8. Ok(n)
  <2>1. n \in 0..n
    OBVIOUS
  <2> QED
    BY <1>7, <2>1
<1> QED
  BY <1>3, <1>8 DEF Ok

\* g follows the rules, as Sanitized does.
Passes(g, n, M, raw) ==
    g = [k \in 0..n |-> IF k = 0 THEN [mapping |-> M, text |-> raw] ELSE Pass(g[k - 1], Rules[k])]

LEMMA PassesExists ==
  ASSUME NEW n \in Nat, NEW M, NEW raw
  PROVE  \E g : Passes(g, n, M, raw)
<1> DEFINE Begin == [mapping |-> M, text |-> raw]
           More(acc, k) == Pass(acc, Rules[k])
           Ok(g, m) == Passes(g, m, M, raw)
           Bad == {m \in Nat : ~\E g : Ok(g, m)}
<1>0. \A g, m : Ok(g, m) <=> g = [k \in 0..m |-> IF k = 0 THEN Begin ELSE More(g[k - 1], k)]
  BY DEF Passes
<1> HIDE DEF Ok, More, Begin
<1>1. SUFFICES ASSUME Bad # {} PROVE FALSE
  BY DEF Ok
<1>2. PICK b \in Bad : \A m \in Bad : b <= m
  <2>1. Bad \subseteq Nat
    OBVIOUS
  <2> HIDE DEF Bad
  <2> QED
    BY <1>1, <2>1, LeastOf
<1>3. b # 0
  <2> DEFINE z == [k \in 0..0 |-> Begin]
  <2>1. z = [k \in 0..0 |-> IF k = 0 THEN Begin ELSE More(z[k - 1], k)]
    OBVIOUS
  <2>2. Ok(z, 0)
    BY <1>0, <2>1
  <2> QED
    BY <2>2
<1>4. b \in Nat \ {0} /\ b - 1 \in Nat /\ ~(b <= b - 1)
  BY <1>3
<1>5. PICK g : Ok(g, b - 1)
  BY <1>2, <1>4
<1> DEFINE h == [k \in 0..b |-> IF k = b THEN More(g[b - 1], b) ELSE g[k]]
<1>6. ASSUME NEW k \in 0..b
      PROVE  h[k] = IF k = 0 THEN Begin ELSE More(h[k - 1], k)
  <2>1. CASE k = b
    <3>1. h[k] = More(g[b - 1], b) /\ h[k - 1] = g[b - 1]
      BY <2>1, <1>4
    <3> QED
      BY <2>1, <1>4, <3>1
  <2>2. CASE k # b
    <3>1. k \in 0..(b - 1)
      BY <2>2, <1>4
    <3>2. g[k] = IF k = 0 THEN Begin ELSE More(g[k - 1], k)
      BY <1>0, <1>5, <3>1
    <3>3. h[k] = g[k] /\ (k # 0 => h[k - 1] = g[k - 1])
      BY <2>2, <3>1, <1>4
    <3> QED
      BY <3>2, <3>3
  <2> QED
    BY <2>1, <2>2
<1>7. h = [k \in 0..b |-> h[k]]
  OBVIOUS
<1> HIDE DEF h
<1>8. Ok(h, b)
  BY <1>0, <1>6, <1>7
<1> QED
  BY <1>8

\* All rules together treat every segment.
LEMMA SanitizedKeeps ==
  ASSUME NEW R, NEW raw \in Seq(R), NEW M, Numbered(M)
  PROVE  /\ Clean(raw, Sanitized(M, raw), RuleNames, Len(raw))
         /\ M \subseteq Sanitized(M, raw).mapping
<1>1. PICK n \in Nat : n = Len(raw)
  OBVIOUS
<1> DEFINE g == CHOOSE f : Passes(f, 14, M, raw)
<1>2. Passes(g, 14, M, raw)
  <2>1. 14 \in Nat
    OBVIOUS
  <2>2. \E f : Passes(f, 14, M, raw)
    BY <2>1, PassesExists
  <2> QED
    BY <2>2
<1>3. Sanitized(M, raw) = g[14]
  <2>1. Len(Rules) = 14
    BY RulesAre
  <2> QED
    BY <2>1, Zenon DEF Sanitized, Passes
<1> HIDE DEF g
<1>4. PICK last \in Nat : last = 14
  OBVIOUS
<1>5. \A k \in 0..last : g[k] = IF k = 0 THEN [mapping |-> M, text |-> raw] ELSE Pass(g[k - 1], Rules[k])
  BY <1>2, <1>4 DEF Passes
<1> DEFINE Passed(k) == {Rules[i] : i \in 1..k}
           Ok(k) == Clean(raw, g[k], Passed(k), n) /\ M \subseteq g[k].mapping
           Bad == {k \in 0..last : ~Ok(k)}
<1>6. Ok(0)
  <2>1. PICK z : z = g[0] /\ z.mapping = M /\ z.text = raw
    BY <1>5
  <2>2. Passed(0) = {}
    OBVIOUS
  <2>3. \A j \in 1..n : Treated(raw, j, raw[j], M, {})
    BY DEF Treated
  <2>4. Clean(raw, z, {}, n)
    BY <1>1, <2>1, <2>3 DEF Clean
  <2> QED
    BY <2>1, <2>2, <2>4
<1>7. ASSUME NEW m \in 0..last, m < last, Ok(m) PROVE Ok(m + 1)
  <2>1. PICK st, rule, passed : st = g[m] /\ rule = Rules[m + 1] /\ passed = Passed(m)
    OBVIOUS
  <2>2. m + 1 \in 0..last /\ m + 1 # 0 /\ (m + 1) - 1 = m /\ m + 1 \in 1..14 /\ \A i \in 1..m : i \in 1..14
    BY <1>4, <1>7
  <2>3. g[m + 1] = Pass(st, rule)
    BY <1>5, <2>1, <2>2
  <2>4. rule \in RuleNames /\ passed \in SUBSET RuleNames
    BY <2>1, <2>2 DEF RuleNames
  <2>5. Passed(m + 1) = passed \cup {rule}
    <3>1. \A i \in 1..(m + 1) : i = m + 1 \/ i \in 1..m
      OBVIOUS
    <3>2. \A i \in 1..m : i \in 1..(m + 1)
      OBVIOUS
    <3>3. m + 1 \in 1..(m + 1)
      OBVIOUS
    <3> QED
      BY <2>1, <3>1, <3>2, <3>3
  <2>6. Clean(raw, st, passed, n) /\ M \subseteq st.mapping
    BY <1>7, <2>1
  <2>7. Clean(raw, Pass(st, rule), passed \cup {rule}, n) /\ st.mapping \subseteq Pass(st, rule).mapping
    BY <2>4, <2>6, PassKeeps
  <2> QED
    BY <2>3, <2>5, <2>6, <2>7
<1> HIDE DEF Ok
<1>8. ASSUME Bad # {} PROVE FALSE
  <2>1. Bad \subseteq Nat
    OBVIOUS
  <2>2. PICK b \in Bad : \A k \in Bad : b <= k
    <3> HIDE DEF Bad
    <3> QED
      BY <1>8, <2>1, LeastOf
  <2>3. b # 0
    BY <1>6
  <2>4. PICK m \in 0..last : m + 1 = b /\ m < last /\ ~(b <= m)
    <3>1. b - 1 \in 0..last /\ (b - 1) + 1 = b /\ b - 1 < last /\ ~(b <= b - 1)
      BY <2>3
    <3> QED
      BY <3>1
  <2>5. Ok(m)
    BY <2>2, <2>4
  <2>6. Ok(m + 1)
    BY <1>7, <2>4, <2>5
  <2> QED
    BY <2>2, <2>4, <2>6
<1>9. Ok(last)
  <2>1. last \in 0..last
    OBVIOUS
  <2> QED
    BY <1>8, <2>1
<1>10. Passed(last) = RuleNames
  BY <1>4 DEF RuleNames
<1> QED
  BY <1>1, <1>3, <1>4, <1>9, <1>10 DEF Ok

\* What an import has collected so far is clean, with one mapping for all of it.
CleanText(raw, text, M) ==
    /\ Len(text) = Len(raw) + 1
    /\ \A j \in 1..Len(raw) : Treated(raw, j, text[j + 1], M, RuleNames)
CleanImport(acc) ==
    /\ acc = [mapping |-> acc.mapping, texts |-> acc.texts, raw |-> acc.raw]
    /\ Numbered(acc.mapping)
    /\ acc.raw \in Seq(Seq(Segment)) /\ (\E S : acc.texts \in Seq(S))
    /\ Len(acc.texts) = Len(acc.raw)
    /\ \A i \in 1..Len(acc.raw) : CleanText(acc.raw[i], acc.texts[i], acc.mapping)

LEMMA TextStaysClean ==
  ASSUME NEW raw, NEW text, NEW M, NEW N, M \subseteq N, CleanText(raw, text, M)
  PROVE  CleanText(raw, text, N)
BY TreatedStays DEF CleanText

\* The label before a text moves its segments by one.
LEMMA WithLabel ==
  ASSUME NEW x, NEW S, NEW q \in Seq(S)
  PROVE  /\ Len(<<x>> \o q) = Len(q) + 1
         /\ \A j \in 1..Len(q) : (<<x>> \o q)[j + 1] = q[j]
<1>1. PICK R : R = S \cup {x} /\ x \in R /\ q \in Seq(R)
  <2>1. q \in Seq(S \cup {x})
    OBVIOUS
  <2> QED
    BY <2>1
<1>2. PICK one \in Seq(R) : one = <<x>> /\ Len(one) = 1
  <2>1. <<x>> \in Seq(R) /\ Len(<<x>>) = 1
    BY <1>1
  <2> QED
    BY <2>1
<1>3. Len(one \o q) = 1 + Len(q) /\ \A j \in 1..Len(q) : (one \o q)[1 + j] = q[j]
  BY <1>1, <1>2, JoinedAt DEF Joined
<1>4. \A j \in 1..Len(q) : 1 + j = j + 1
  OBVIOUS
<1>5. Len(q) \in Nat
  OBVIOUS
<1> QED
  BY <1>2, <1>3, <1>4, <1>5

LEMMA LonerAppend ==
  ASSUME NEW S, NEW q \in Seq(S), NEW x
  PROVE  /\ \E R : Append(q, x) \in Seq(R)
         /\ Len(Append(q, x)) = Len(q) + 1 /\ Append(q, x)[Len(q) + 1] = x
         /\ \A i \in 1..Len(q) : Append(q, x)[i] = q[i]
<1>1. PICK R : R = S \cup {x} /\ x \in R /\ q \in Seq(R)
  <2>1. q \in Seq(S \cup {x})
    OBVIOUS
  <2> QED
    BY <2>1
<1> QED
  BY <1>1

\* One more message keeps the import clean: its entries are added to the mapping.
LEMMA PrepCleans ==
  ASSUME NEW acc, CleanImport(acc), NEW msg \in Message
  PROVE  CleanImport(PrepFact(acc, msg, TRUE))
<1>1. CASE msg.size # "fits" \/ Len(acc.texts) >= MaxFacts
  BY <1>1 DEF PrepFact
<1>2. CASE ~(msg.size # "fits" \/ Len(acc.texts) >= MaxFacts)
  <2>0. PICK raw \in Seq(Segment) : raw = msg.text
    BY DEF Message
  <2>1. PICK M : raw = msg.text /\ M = acc.mapping /\ Numbered(M)
    BY <2>0 DEF CleanImport
  <2>2. PICK s : s = Sanitized(M, raw)
    OBVIOUS
  <2>3. Clean(raw, s, RuleNames, Len(raw)) /\ M \subseteq s.mapping
    BY <2>1, <2>2, SanitizedKeeps
  <2>4. PICK N, cur, S : /\ N = s.mapping /\ cur = s.text /\ cur \in Seq(S)
                         /\ Numbered(N) /\ M \subseteq N /\ Len(cur) = Len(raw)
                         /\ \A j \in 1..Len(raw) : Treated(raw, j, cur[j], N, RuleNames)
    BY <2>3 DEF Clean
  <2>5. PICK from : PrepFact(acc, msg, TRUE) =
          [acc EXCEPT !.mapping = N, !.raw = Append(acc.raw, raw), !.texts = Append(acc.texts, <<from>> \o cur)]
    BY <1>2, <2>1, <2>2, <2>4 DEF PrepFact
  <2>6. PICK text : text = <<from>> \o cur /\ CleanText(raw, text, N)
    <3>1. Len(<<from>> \o cur) = Len(cur) + 1 /\ \A j \in 1..Len(cur) : (<<from>> \o cur)[j + 1] = cur[j]
      BY <2>4, WithLabel
    <3>2. PICK text : text = <<from>> \o cur
      OBVIOUS
    <3>3. CleanText(raw, text, N)
      BY <2>4, <3>1, <3>2 DEF CleanText
    <3> QED
      BY <3>2, <3>3
  <2>7. PICK raws, texts : raws = Append(acc.raw, raw) /\ texts = Append(acc.texts, text)
    OBVIOUS
  <2>8. acc = [mapping |-> acc.mapping, texts |-> acc.texts, raw |-> acc.raw]
    BY DEF CleanImport
  <2>9. PICK z : z = [mapping |-> N, texts |-> texts, raw |-> raws] /\ z = PrepFact(acc, msg, TRUE)
    BY <2>5, <2>6, <2>7, <2>8
  <2>10. PICK n \in Nat : n = Len(acc.raw) /\ n = Len(acc.texts)
    BY DEF CleanImport
  <2>11. /\ raws \in Seq(Seq(Segment)) /\ Len(raws) = n + 1 /\ raws[n + 1] = raw
         /\ \A i \in 1..n : raws[i] = acc.raw[i]
    BY <2>7, <2>10 DEF CleanImport
  <2>12. /\ \E R : texts \in Seq(R)
         /\ Len(texts) = n + 1 /\ texts[n + 1] = text
         /\ \A i \in 1..n : texts[i] = acc.texts[i]
    <3>1. PICK T : acc.texts \in Seq(T)
      BY DEF CleanImport
    <3>2. PICK q \in Seq(T) : q = acc.texts
      BY <3>1
    <3>3. /\ \E R : Append(q, text) \in Seq(R)
          /\ Len(Append(q, text)) = Len(q) + 1 /\ Append(q, text)[Len(q) + 1] = text
          /\ \A i \in 1..Len(q) : Append(q, text)[i] = q[i]
      BY LonerAppend
    <3> QED
      BY <2>7, <2>10, <3>2, <3>3
  <2>13. ASSUME NEW i \in 1..(n + 1) PROVE CleanText(raws[i], texts[i], N)
    <3>1. CASE i = n + 1
      BY <2>6, <2>11, <2>12, <3>1
    <3>2. CASE i # n + 1
      <4>1. i \in 1..n
        BY <3>2
      <4>2. CleanText(acc.raw[i], acc.texts[i], M)
        BY <2>1, <2>10, <4>1 DEF CleanImport
      <4>3. CleanText(acc.raw[i], acc.texts[i], N)
        BY <2>4, <4>2, TextStaysClean
      <4> QED
        BY <2>11, <2>12, <4>1, <4>3
    <3> QED
      BY <3>1, <3>2
  <2>14. z.mapping = N /\ z.texts = texts /\ z.raw = raws
    BY <2>9
  <2>15. CleanImport(z)
    BY <2>4, <2>9, <2>11, <2>12, <2>13, <2>14 DEF CleanImport
  <2> QED
    BY <2>9, <2>15
<1> QED
  BY <1>1, <1>2

\* Every import with sanitizing is clean.
LEMMA IngestedClean ==
  ASSUME NEW export \in Exports, NEW include
  PROVE  CleanImport(Ingested(export, include, TRUE))
<1>0. PICK g : \E n \in Nat, msgs \in Seq(Message) : IngestedAs(g, n, msgs, export, include, TRUE)
  BY IngestedIs
<1>1. PICK n \in Nat, msgs \in Seq(Message) : IngestedAs(g, n, msgs, export, include, TRUE)
  BY <1>0
<1>2. /\ n = Len(msgs) /\ Ingested(export, include, TRUE) = g[n]
      /\ \A k \in 0..n : g[k] = IF k = 0 THEN Nothing ELSE Read(g[k - 1], export, msgs[k], include, TRUE)
  BY <1>1 DEF IngestedAs
<1> DEFINE Bad == {k \in 0..n : ~CleanImport(g[k])}
<1>3. ASSUME Bad # {} PROVE FALSE
  <2>1. Bad \subseteq Nat
    OBVIOUS
  <2>2. PICK b \in Bad : \A m \in Bad : b <= m
    <3> HIDE DEF Bad
    <3> QED
      BY <1>3, <2>1, LeastOf
  <2>3. b # 0
    <3>1. PICK e : e = <<>> /\ e \in Seq(Seq(Segment)) /\ Len(e) = 0
      BY EmptySeq
    <3>2. PICK z : z = Nothing /\ z = [mapping |-> {}, texts |-> e, raw |-> e]
      BY <3>1 DEF Nothing, NewSanitizer
    <3>3. z.mapping = {} /\ z.texts = e /\ z.raw = e
      BY <3>2
    <3>4. Numbered({})
      BY FS_EmptySet DEF Numbered
    <3>5. CleanImport(z)
      BY <3>1, <3>2, <3>3, <3>4 DEF CleanImport
    <3> QED
      BY <1>2, <3>2, <3>5
  <2>4. b \in 0..n /\ b - 1 \in 0..n /\ ~(b <= b - 1) /\ b \in 1..n
    BY <2>3
  <2>5. PICK acc : acc = g[b - 1]
    OBVIOUS
  <2>9. PICK msg \in Message : msg = msgs[b]
    BY <1>2, <2>4
  <2>6. CleanImport(acc)
    BY <2>2, <2>4, <2>5
  <2>7. g[b] = Read(acc, export, msg, include, TRUE)
    BY <1>2, <2>3, <2>4, <2>5, <2>9
  <2>8. CleanImport(Read(acc, export, msg, include, TRUE))
    BY <2>6, PrepCleans DEF Read
  <2> QED
    BY <2>2, <2>7, <2>8
<1>4. CleanImport(g[n])
  BY <1>3
<1> QED
  BY <1>2, <1>4

\* Treated by every rule, a segment is replaced if the rule it matches reached it.
LEMMA TreatedIs ==
  ASSUME NEW raw, NEW j, NEW x, NEW M, Treated(raw, j, x, M, RuleNames)
  PROVE  IF \E r \in Categories(raw[j]) : Reached(r, raw, j)
         THEN \E r : Categories(raw[j]) = {r} /\ Given(M, r, raw[j].val, x)
         ELSE x = raw[j]
<1>1. \A r : r \in Categories(raw[j]) <=> r \in RuleNames /\ Matches(r, raw[j])
  BY RulesAre DEF Categories
<1>2. CASE x = raw[j] /\ \A r \in RuleNames : ~(Reached(r, raw, j) /\ Matches(r, raw[j]))
  BY <1>1, <1>2
<1>3. CASE \E r \in RuleNames : Reached(r, raw, j) /\ Matches(r, raw[j]) /\ Given(M, r, raw[j].val, x)
  <2>1. PICK r \in RuleNames : Reached(r, raw, j) /\ Matches(r, raw[j]) /\ Given(M, r, raw[j].val, x)
    BY <1>3
  <2>2. \A q \in RuleNames : Matches(q, raw[j]) => q = r
    BY <2>1, CategoriesAre
  <2>3. Categories(raw[j]) = {r}
    BY <1>1, <2>1, <2>2
  <2> QED
    BY <2>1, <2>3
<1> QED
  BY <1>2, <1>3 DEF Treated

\* A clean import is what the property asks for.
LEMMA CleanIsScrubbed ==
  ASSUME NEW acc, CleanImport(acc)
  PROVE  Scrubbed(acc.raw, acc.texts)
<1>0. PICK raw \in Seq(Seq(Segment)) : raw = acc.raw
  BY DEF CleanImport
<1>1. PICK texts, M : /\ texts = acc.texts /\ Numbered(M)
                      /\ \A i \in 1..Len(raw) : CleanText(raw[i], texts[i], M)
  BY <1>0 DEF CleanImport
<1>2. DOMAIN raw = 1..Len(raw) /\ \A i \in DOMAIN raw : DOMAIN raw[i] = 1..Len(raw[i])
  <2>1. DOMAIN raw = 1..Len(raw)
    OBVIOUS
  <2>2. ASSUME NEW i \in DOMAIN raw PROVE DOMAIN raw[i] = 1..Len(raw[i])
    <3>1. PICK q \in Seq(Segment) : q = raw[i]
      OBVIOUS
    <3> QED
      BY <3>1
  <2> QED
    BY <2>1, <2>2
<1> DEFINE marked(i, j) == \E r \in Categories(raw[i][j]) : Reached(r, raw[i], j)
<1>3. ASSUME NEW i \in DOMAIN raw, NEW j \in DOMAIN raw[i]
      PROVE  IF marked(i, j)
             THEN \E r : Categories(raw[i][j]) = {r} /\ Given(M, r, raw[i][j].val, texts[i][j + 1])
             ELSE texts[i][j + 1] = raw[i][j]
  <2>1. PICK q, x : q = raw[i] /\ x = texts[i][j + 1]
    OBVIOUS
  <2>2. Treated(q, j, x, M, RuleNames)
    BY <1>1, <1>2, <2>1 DEF CleanText
  <2> QED
    BY <2>1, <2>2, TreatedIs
<1> HIDE DEF marked
<1>4. ASSUME NEW i \in DOMAIN raw, NEW j \in DOMAIN raw[i]
      PROVE  IF marked(i, j)
             THEN texts[i][j + 1].kind = "placeholder" ELSE texts[i][j + 1] = raw[i][j]
  BY <1>3, GivenIs
<1>5. ASSUME NEW h \in DOMAIN raw, NEW i \in DOMAIN raw, NEW j \in DOMAIN raw[h], NEW k \in DOMAIN raw[i],
             marked(h, j), marked(i, k)
      PROVE  texts[h][j + 1] = texts[i][k + 1] <=>
                 raw[h][j].val = raw[i][k].val /\ Categories(raw[h][j]) = Categories(raw[i][k])
  <2>1. PICK r, x, v : /\ Categories(raw[h][j]) = {r} /\ Given(M, r, v, x)
                       /\ x = texts[h][j + 1] /\ v = raw[h][j].val
    BY <1>3, <1>5
  <2>2. PICK q, y, w : /\ Categories(raw[i][k]) = {q} /\ Given(M, q, w, y)
                       /\ y = texts[i][k + 1] /\ w = raw[i][k].val
    BY <1>3, <1>5
  <2>3. x = y <=> r = q /\ v = w
    BY <1>1, <2>1, <2>2, GivenTells
  <2>4. {r} = {q} <=> r = q
    OBVIOUS
  <2> QED
    BY <2>1, <2>2, <2>3, <2>4
<1>6. \A i \in DOMAIN raw : \A j \in DOMAIN raw[i] :
        IF marked(i, j) THEN texts[i][j + 1].kind = "placeholder" ELSE texts[i][j + 1] = raw[i][j]
  BY <1>4
<1>7. \A h, i \in DOMAIN raw : \A j \in DOMAIN raw[h], k \in DOMAIN raw[i] :
        marked(h, j) /\ marked(i, k) =>
            (texts[h][j + 1] = texts[i][k + 1] <=>
                raw[h][j].val = raw[i][k].val /\ Categories(raw[h][j]) = Categories(raw[i][k]))
  BY <1>5
<1>8. Scrubbed(raw, texts)
  BY <1>6, <1>7, Zenon DEF Scrubbed, marked
<1> QED
  BY <1>0, <1>1, <1>8

LEMMA ImportsScrubbed ==
  ASSUME NEW b \in Imports, b.clean
  PROVE  Scrubbed(b.raw, b.texts)
<1>1. PICK export \in Exports, include \in BOOLEAN, sanitize \in BOOLEAN :
        LET in == Ingested(export, include, sanitize)
        IN  \E embs \in EmbedMany(in.texts) :
               b = [st |-> "batch", texts |-> in.texts, raw |-> in.raw, clean |-> sanitize,
                    facts |-> Batch(in.texts, embs)]
  BY DEF Imports
<1>2. PICK in, facts : /\ in = Ingested(export, include, sanitize)
                       /\ b = [st |-> "batch", texts |-> in.texts, raw |-> in.raw, clean |-> sanitize,
                               facts |-> facts]
  BY <1>1
<1>3. b.texts = in.texts /\ b.raw = in.raw /\ b.clean = sanitize
  BY <1>2
<1>4. sanitize = TRUE
  BY <1>3
<1>5. CleanImport(in)
  BY <1>2, <1>4, IngestedClean
<1> QED
  BY <1>3, <1>5, CleanIsScrubbed

(***************************************************************************)
(* The log grows                                                           *)
(***************************************************************************)

\* A piece at the end that is no newline is on the open line.
LEMMA OpenEnd ==
  ASSUME NEW lg \in Seq(Piece), lg # <<>>, lg[Len(lg)] # Newline
  PROVE  lg[Len(lg)] \in OpenLine(lg)
<1> DEFINE n == Len(lg)
           T == {0} \cup {i \in DOMAIN lg : lg[i] = Newline}
<1>1. n \in Nat /\ n # 0 /\ DOMAIN lg = 1..n
  BY EmptySeq
<1>2. T \subseteq 0..n /\ T # {} /\ n \notin T
  BY <1>1
<1>3. PICK m \in T : \A x \in T : x <= m
  <2> HIDE DEF T, n
  <2> QED
    BY <1>1, <1>2, GreatestOf
<1>4. Max(T) \in T
  <2>1. \A x \in T : x \in Int
    BY <1>1, <1>2
  <2> HIDE DEF T
  <2>2. \A x \in T : m >= x
    BY <1>3, <2>1
  <2> QED
    BY <2>2 DEF Max
<1> HIDE DEF T
<1>5. Max(T) \in 0..n /\ Max(T) # n
  BY <1>2, <1>4
<1>6. n \in (Max(T) + 1)..n
  BY <1>1, <1>5
<1>7. LastNewline(lg) = Max(T)
  BY DEF LastNewline, T
<1> QED
  BY <1>6, <1>7 DEF OpenLine

LEMMA JoinedPieces ==
  ASSUME NEW lg \in Seq(Piece), NEW q \in Seq(Piece)
  PROVE  /\ lg \o q \in Seq(Piece) /\ Len(lg \o q) = Len(lg) + Len(q)
         /\ Len(lg) \in Nat /\ Len(q) \in Nat
         /\ \A i \in 1..Len(lg) : (lg \o q)[i] = lg[i]
         /\ \A i \in 1..Len(q) : (lg \o q)[Len(lg) + i] = q[i]
  OBVIOUS

LEMMA LoggedStays ==
  ASSUME NEW lg \in Seq(Piece), NEW q \in Seq(Piece), NEW t
  PROVE  Logged(lg, t) \/ Logged(q, t) => Logged(lg \o q, t)
<1>1. \A r \in Seq(Piece) : DOMAIN r = 1..Len(r)
  OBVIOUS
<1>2. lg \o q \in Seq(Piece)
  BY JoinedPieces
<1>3. ASSUME Logged(lg, t) PROVE Logged(lg \o q, t)
  <2>1. PICK i \in 1..Len(lg) : IsFact(lg[i]) /\ lg[i].text = t
    BY <1>1, <1>3 DEF Logged
  <2>2. (lg \o q)[i] = lg[i] /\ i \in 1..Len(lg \o q)
    BY JoinedPieces
  <2> QED
    BY <1>1, <1>2, <2>1, <2>2 DEF Logged
<1>4. ASSUME Logged(q, t) PROVE Logged(lg \o q, t)
  <2>1. PICK i \in 1..Len(q) : IsFact(q[i]) /\ q[i].text = t
    BY <1>1, <1>4 DEF Logged
  <2>2. (lg \o q)[Len(lg) + i] = q[i] /\ Len(lg) + i \in 1..Len(lg \o q)
    BY JoinedPieces
  <2> QED
    BY <1>1, <1>2, <2>1, <2>2 DEF Logged
<1> QED
  BY <1>3, <1>4

\* What is written may follow the log: it starts with a newline, or on a line of its
\* own, or the texts that share its first line are given up.
Follows(lg, q, gone) ==
    \/ q = <<>> \/ q[1] = Newline \/ OpenLine(lg) = {}
    \/ /\ \A p \in OpenLine(lg) : p.text \in gone
       /\ IsFact(q[1]) => q[1].text \in gone
AloneIn(lg, gone) == \A i \in DOMAIN lg : IsFact(lg[i]) /\ lg[i].text \notin gone => AloneAt(lg, i)

LEMMA NewlineIsNoFact == ~IsFact(Newline)
  BY DEF IsFact, Newline, Fact

LEMMA StillAlone ==
  ASSUME NEW lg \in Seq(Piece), NEW q \in Seq(Piece), NEW gone, NEW now, gone \subseteq now,
         AloneIn(lg, gone), AloneIn(q, now), Follows(lg, q, now)
  PROVE  AloneIn(lg \o q, now)
<1> DEFINE m == Len(lg)
           n == Len(q)
           r == lg \o q
<1>1. /\ r \in Seq(Piece) /\ Len(r) = m + n /\ m \in Nat /\ n \in Nat
      /\ \A i \in 1..m : r[i] = lg[i]
      /\ \A i \in 1..n : r[m + i] = q[i]
  BY JoinedPieces
<1>2. DOMAIN lg = 1..m /\ DOMAIN q = 1..n /\ DOMAIN r = 1..(m + n) /\ (q = <<>> <=> n = 0)
      /\ (lg = <<>> <=> m = 0)
  BY <1>1, EmptySeq
<1> HIDE DEF r, m, n
<1>3. ASSUME NEW i \in 1..(m + n), IsFact(r[i]), r[i].text \notin now PROVE AloneAt(r, i)
  <2>1. CASE i \in 1..m
    <3>1. IsFact(lg[i]) /\ lg[i].text \notin gone /\ r[i] = lg[i]
      BY <1>1, <1>3, <2>1
    <3>2. AloneAt(lg, i)
      BY <1>2, <2>1, <3>1 DEF AloneIn
    <3>3. i = 1 \/ r[i - 1] = Newline
      <4>1. i = 1 \/ lg[i - 1] = Newline
        BY <3>2 DEF AloneAt
      <4>2. i # 1 => i - 1 \in 1..m
        BY <1>1, <2>1
      <4> QED
        BY <1>1, <4>1, <4>2
    <3>4. i = m + n \/ r[i + 1] = Newline
      <4>1. CASE i # m
        <5>1. lg[i + 1] = Newline
          BY <3>2, <4>1 DEF AloneAt, m
        <5>2. i + 1 \in 1..m
          BY <1>1, <2>1, <4>1
        <5> QED
          BY <1>1, <5>1, <5>2
      <4>2. CASE i = m
        <5>1. lg # <<>> /\ lg[m] # Newline
          BY <1>1, <1>2, <2>1, <3>1, <4>2, NewlineIsNoFact
        <5>2. lg[m] \in OpenLine(lg)
          BY <5>1, OpenEnd DEF m
        <5>3. lg[m].text \notin now
          BY <1>3, <3>1, <4>2
        <5>4. q = <<>> \/ q[1] = Newline
          BY <5>2, <5>3 DEF Follows
        <5>5. n # 0 => r[m + 1] = q[1]
          BY <1>1
        <5> QED
          BY <1>1, <1>2, <4>2, <5>4, <5>5
      <4> QED
        BY <4>1, <4>2
    <3> QED
      BY <1>1, <3>3, <3>4 DEF AloneAt
  <2>2. CASE i \notin 1..m
    <3> DEFINE j == i - m
    <3>1. j \in 1..n /\ m + j = i
      BY <1>1, <2>2
    <3> HIDE DEF j
    <3>2. r[i] = q[j]
      BY <1>1, <3>1
    <3>3. AloneAt(q, j)
      BY <1>2, <1>3, <3>1, <3>2 DEF AloneIn
    <3>4. i = m + n \/ r[i + 1] = Newline
      <4>1. CASE j # n
        <5>1. q[j + 1] = Newline
          BY <3>3, <4>1 DEF AloneAt, n
        <5>2. j + 1 \in 1..n /\ m + (j + 1) = i + 1
          BY <1>1, <3>1, <4>1
        <5> QED
          BY <1>1, <5>1, <5>2
      <4> QED
        BY <3>1, <4>1
    <3>5. i = 1 \/ r[i - 1] = Newline
      <4>1. CASE j # 1
        <5>1. q[j - 1] = Newline
          BY <3>3, <4>1 DEF AloneAt
        <5>2. j - 1 \in 1..n /\ m + (j - 1) = i - 1
          BY <1>1, <3>1, <4>1
        <5> QED
          BY <1>1, <5>1, <5>2
      <4>2. CASE j = 1
        <5>1. IsFact(q[1]) /\ q[1].text \notin now
          BY <1>3, <3>2, <4>2
        <5>2. q # <<>> /\ q[1] # Newline
          BY <1>1, <1>2, <3>1, <5>1, NewlineIsNoFact
        <5>3. OpenLine(lg) = {}
          BY <5>1, <5>2 DEF Follows
        <5>4. lg = <<>> \/ lg[m] = Newline
          BY <5>3, OpenEnd DEF m
        <5>5. m # 0 => r[m] = lg[m]
          BY <1>1
        <5> QED
          BY <1>1, <1>2, <3>1, <4>2, <5>4, <5>5
      <4> QED
        BY <4>1, <4>2
    <3> QED
      BY <1>1, <3>4, <3>5 DEF AloneAt
  <2> QED
    BY <2>1, <2>2
<1> QED
  BY <1>2, <1>3 DEF AloneIn, r

(***************************************************************************)
(* Steps of the memory                                                     *)
(***************************************************************************)

LEMMA StageOf ==
  ASSUME MemTyped, NEW c \in Callers
  PROVE  /\ mem[c].st \in {"idle", "text", "newline", "batch", "asked", "put", "truncate", "write"}
         /\ mem[c].st \in {"text", "newline"} => mem[c] \in TextStage
         /\ mem[c].st = "batch" => mem[c] \in Imports
         /\ mem[c].st \in {"asked", "put"} => mem[c] \in PutStage
         /\ mem[c].st \in {"truncate", "write"} => mem[c] \in SaveStage
<1>1. mem[c] \in {Idle} \cup TextStage \cup Imports \cup PutStage \cup SaveStage
  BY DEF MemTyped, MemStage
<1>2. CASE mem[c] = Idle
  BY <1>2 DEF Idle
<1>3. CASE mem[c] \in TextStage
  BY <1>3 DEF TextStage
<1>4. CASE mem[c] \in Imports
  BY <1>4, ImportIs
<1>5. CASE mem[c] \in PutStage
  BY <1>5 DEF PutStage
<1>6. CASE mem[c] \in SaveStage
  BY <1>6 DEF SaveStage
<1> QED
  BY <1>1, <1>2, <1>3, <1>4, <1>5, <1>6

\* A caller goes on to a stage, the others stay where they are.
Others(c) == \A d \in Callers : d # c => mem'[d] = mem[d]

LEMMA MoveTo ==
  ASSUME MemTyped, NEW c \in Callers, NEW s \in MemStage, mem' = [mem EXCEPT ![c] = s]
  PROVE  mem' \in [Callers -> MemStage] /\ mem'[c] = s /\ Others(c)
  BY DEF MemTyped, Others

LEMMA CoreQuiet ==
  ASSUME MemIInv, UNCHANGED coreVars, NEW c \in Callers, Others(c),
         mem[c].st \notin {"truncate", "write"}, mem'[c].st \notin {"truncate", "write"}
  PROVE  SaverHolds' /\ BlocksInv'
<1>1. core' = core /\ coreFile' = coreFile /\ holder' = holder /\ saved' = saved /\ torn' = torn
  BY DEF coreVars
<1>2. \A d \in Callers : mem'[d].st \in {"truncate", "write"} => mem'[d] = mem[d]
  BY DEF Others
<1>3. \A d \in Callers : mem[d].st \in {"truncate", "write"} => mem'[d] = mem[d]
  BY DEF Others
<1>4. SaverHolds'
  BY <1>1, <1>2, <1>3 DEF MemIInv, SaverHolds
<1>5. BlocksInv'
  <2> SUFFICES ASSUME ~torn PROVE BlocksInv'
    BY <1>1 DEF BlocksInv
  <2>1. holder' = Nobody => coreFile' = saved' /\ core' = saved'
    BY <1>1 DEF MemIInv, BlocksInv
  <2>2. ASSUME NEW d \in Callers
        PROVE  /\ mem'[d].st \in {"truncate", "write"} => mem'[d].blocks = core'
               /\ mem'[d].st = "truncate" => coreFile' = saved'
    BY <1>1, <1>2 DEF MemIInv, BlocksInv
  <2>3. (\A d \in Callers : mem'[d].st # "write") => coreFile' = saved'
    BY <1>1, <1>3 DEF MemIInv, BlocksInv
  <2> QED
    BY <2>1, <2>2, <2>3 DEF BlocksInv
<1> QED
  BY <1>4, <1>5

LEMMA LogQuiet ==
  ASSUME MemIInv, UNCHANGED logVars, NEW c \in Callers, Others(c), mem'[c].st # "newline"
  PROVE  log' \in Seq(Piece) /\ FactsAlone' /\ AckedLogged' /\ WrittenLogged'
<1>1. log' = log /\ acked' = acked /\ lost' = lost
  BY DEF logVars
<1>2. FactsAlone' /\ AckedLogged'
  BY <1>1 DEF MemIInv, FactsAlone, AckedLogged
<1>3. \A d \in Callers : mem'[d].st = "newline" => mem'[d] = mem[d]
  BY DEF Others
<1>4. WrittenLogged'
  BY <1>1, <1>3 DEF MemIInv, WrittenLogged
<1> QED
  BY <1>1, <1>2, <1>4 DEF MemIInv, MemTyped

LEMMA LogStep ==
  ASSUME MemIInv, NEW c \in Callers, Others(c), NEW q \in Seq(Piece), log' = log \o q,
         lost \subseteq lost', AloneIn(q, lost'), Follows(log, q, lost'),
         mem'[c].st = "newline" /\ mem'[c].fact.text \notin lost' => Logged(log', mem'[c].fact.text),
         \A t \in acked' : t \in acked \/ t \in lost' \/ Logged(log', t)
  PROVE  log' \in Seq(Piece) /\ FactsAlone' /\ AckedLogged' /\ WrittenLogged'
<1>1. log \in Seq(Piece) /\ AloneIn(log, lost)
  BY DEF MemIInv, MemTyped, FactsAlone, AloneIn
<1>2. log' \in Seq(Piece)
  BY <1>1, JoinedPieces
<1>3. AloneIn(log', lost')
  BY <1>1, StillAlone
<1>4. FactsAlone'
  BY <1>3 DEF FactsAlone, AloneIn
<1>5. \A t : Logged(log, t) => Logged(log', t)
  BY <1>1, LoggedStays
<1>6. AckedLogged'
  BY <1>5 DEF MemIInv, AckedLogged
<1>7. WrittenLogged'
  BY <1>5 DEF MemIInv, WrittenLogged, Others
<1> QED
  BY <1>2, <1>4, <1>6, <1>7

\* A call starts: it holds nothing yet and has written nothing.
LEMMA StartKeeps ==
  ASSUME MemIInv, NEW c \in Callers, NEW s \in MemStage, Start(c, s),
         s.st \in {"text", "batch", "asked", "put"}
  PROVE  MemIInv'
<1>1. mem[c] = Idle /\ mem' = [mem EXCEPT ![c] = s] /\ ops' <= MaxOps
      /\ ops' = ops + (IF s.st = "batch" THEN 2 ELSE 1) /\ UNCHANGED logVars /\ UNCHANGED coreVars
  BY DEF Start
<1>2. mem' \in [Callers -> MemStage] /\ mem'[c] = s /\ Others(c)
  BY <1>1, MoveTo DEF MemIInv
<1>3. mem[c].st = "idle"
  BY <1>1 DEF Idle
<1>4. SaverHolds' /\ BlocksInv'
  BY <1>1, <1>2, <1>3, CoreQuiet
<1>5. log' \in Seq(Piece) /\ FactsAlone' /\ AckedLogged' /\ WrittenLogged'
  BY <1>1, <1>2, LogQuiet
<1>6. ops' \in 0..MaxOps
  BY <1>1, MemoryAssumption DEF MemIInv, MemTyped
<1>7. MemTyped'
  BY <1>1, <1>2, <1>5, <1>6 DEF MemIInv, MemTyped, coreVars
<1> QED
  BY <1>4, <1>5, <1>7 DEF MemIInv

LEMMA RememberKeeps == ASSUME MemIInv, NEW c \in Callers, Remember(c) PROVE MemIInv'
<1>0. PICK text \in Facts : \E emb \in {text, None} :
        Start(c, [st |-> "text", fact |-> Fact(text, emb, "trusted")])
  BY DEF Remember
<1>1. PICK emb \in {text, None} : Start(c, [st |-> "text", fact |-> Fact(text, emb, "trusted")])
  BY <1>0
<1> DEFINE f == Fact(text, emb, "trusted")
           s == [st |-> "text", fact |-> f]
<1>2. f \in Piece /\ IsFact(f)
  BY DEF Fact, Piece, AllTexts, IsFact, None
<1> HIDE DEF f
<1>3. s \in TextStage /\ s.st = "text"
  BY <1>2 DEF TextStage
<1>4. s \in MemStage
  BY <1>3 DEF MemStage
<1> HIDE DEF s
<1>5. Start(c, s)
  BY <1>1 DEF s, f
<1> QED
  BY <1>3, <1>4, <1>5, StartKeeps

LEMMA IngestKeeps == ASSUME MemIInv, NEW c \in Callers, Ingest(c) PROVE MemIInv'
<1>1. PICK b \in Imports : Start(c, b)
  BY DEF Ingest
<1>2. b.st = "batch" /\ b \in MemStage
  BY ImportIs DEF MemStage
<1> QED
  BY <1>1, <1>2, StartKeeps

LEMMA AskingKeeps ==
  ASSUME MemIInv, NEW c \in Callers, NEW b \in Blocks, NEW v \in Values, NEW st \in {"asked", "put"},
         Start(c, [st |-> st, block |-> b, value |-> v])
  PROVE  MemIInv'
<1> DEFINE s == [st |-> st, block |-> b, value |-> v]
<1>1. s \in PutStage /\ s.st = st
  BY DEF PutStage
<1>2. s \in MemStage
  BY <1>1 DEF MemStage
<1>3. Start(c, s)
  OBVIOUS
<1> HIDE DEF s
<1> QED
  BY <1>1, <1>2, <1>3, StartKeeps

LEMMA SetMemoryKeeps == ASSUME MemIInv, NEW c \in Callers, SetMemory(c) PROVE MemIInv'
  BY AskingKeeps DEF SetMemory

LEMMA ConsolidateKeeps == ASSUME MemIInv, NEW c \in Callers, Consolidate(c) PROVE MemIInv'
  BY AskingKeeps DEF Consolidate

\* A stage that leaves the core blocks alone comes to its end, or to the next one.
LEMMA Typed ==
  ASSUME MemIInv, UNCHANGED <<coreVars, ops>>, log' \in Seq(Piece), mem' \in [Callers -> MemStage]
  PROVE  MemTyped'
  BY DEF MemIInv, MemTyped, coreVars

LEMMA IdleIsStage == Idle \in MemStage /\ Idle.st = "idle"
  BY DEF MemStage, Idle

LEMMA ModelAnswersKeeps == ASSUME MemIInv, NEW c \in Callers, ModelAnswers(c) PROVE MemIInv'
<1>1. mem[c].st = "asked" /\ UNCHANGED logVars /\ UNCHANGED <<coreVars, ops>>
  BY DEF ModelAnswers
<1>2. mem[c] \in PutStage
  BY <1>1, StageOf DEF MemIInv
<1>3. PICK s \in MemStage : s.st \in {"put", "idle"} /\ mem' = [mem EXCEPT ![c] = s]
  <2>1. CASE mem' = [mem EXCEPT ![c].st = "put"]
    <3> DEFINE s == [mem[c] EXCEPT !.st = "put"]
    <3>1. s \in PutStage /\ s.st = "put"
      BY <1>2 DEF PutStage
    <3>2. mem' = [mem EXCEPT ![c] = s]
      BY <2>1
    <3> QED
      BY <3>1, <3>2 DEF MemStage
  <2>2. CASE mem' = [mem EXCEPT ![c] = Idle]
    BY <2>2, IdleIsStage
  <2> QED
    BY <2>1, <2>2 DEF ModelAnswers
<1>4. mem' \in [Callers -> MemStage] /\ mem'[c] = s /\ Others(c)
  BY <1>3, MoveTo DEF MemIInv
<1>5. UNCHANGED coreVars
  BY <1>1
<1>6. SaverHolds' /\ BlocksInv'
  BY <1>1, <1>3, <1>4, <1>5, CoreQuiet
<1>7. log' \in Seq(Piece) /\ FactsAlone' /\ AckedLogged' /\ WrittenLogged'
  BY <1>1, <1>3, <1>4, LogQuiet
<1> QED
  BY <1>1, <1>4, <1>6, <1>7, Typed DEF MemIInv

\* Any write to the log.
LEMMA WritesKeep ==
  ASSUME MemIInv, NEW c \in Callers, UNCHANGED <<coreVars, ops>>, NEW s \in MemStage,
         mem[c].st \in {"text", "newline", "batch"}, s.st \in {"newline", "idle"},
         mem' = [mem EXCEPT ![c] = s],
         NEW q \in Seq(Piece), log' = log \o q,
         lost \subseteq lost', AloneIn(q, lost'), Follows(log, q, lost'),
         s.st = "newline" /\ s.fact.text \notin lost' => Logged(log', s.fact.text),
         \A t \in acked' : t \in acked \/ t \in lost' \/ Logged(log', t)
  PROVE  MemIInv'
<1>1. mem' \in [Callers -> MemStage] /\ mem'[c] = s /\ Others(c)
  BY MoveTo DEF MemIInv
<1>2. UNCHANGED coreVars
  OBVIOUS
<1>3. SaverHolds' /\ BlocksInv'
  BY <1>1, <1>2, CoreQuiet
<1>4. log' \in Seq(Piece) /\ FactsAlone' /\ AckedLogged' /\ WrittenLogged'
  BY <1>1, LogStep
<1> QED
  BY <1>1, <1>3, <1>4, Typed DEF MemIInv

LEMMA OnePiece ==
  ASSUME NEW p \in Piece, NEW lg \in Seq(Piece), NEW gone
  PROVE  /\ <<p>> \in Seq(Piece) /\ AloneIn(<<p>>, gone) /\ Append(lg, p) = lg \o <<p>>
         /\ <<p>>[1] = p /\ IsFact(p) => Logged(lg \o <<p>>, p.text)
<1>1. <<p>> \in Seq(Piece) /\ DOMAIN <<p>> = {1} /\ Len(<<p>>) = 1 /\ <<p>>[1] = p
  OBVIOUS
<1>2. AloneIn(<<p>>, gone)
  BY <1>1 DEF AloneIn, AloneAt
<1>3. Append(lg, p) = lg \o <<p>>
  BY AppendIsConcat
<1>4. IsFact(p) => Logged(lg \o <<p>>, p.text)
  <2>1. IsFact(p) => Logged(<<p>>, p.text)
    BY <1>1 DEF Logged
  <2> QED
    BY <1>1, <2>1, LoggedStays
<1> QED
  BY <1>1, <1>2, <1>3, <1>4

LEMMA MarkersArePieces == Newline \in Piece /\ \A p \in Stumps : p \in Piece /\ ~IsFact(p)
<1>1. <<>> \in AllTexts /\ None \in AllTexts
  BY DEF AllTexts, None
<1> QED
  BY <1>1 DEF Newline, Stumps, Part, Garbled, Fact, Piece, IsFact

LEMMA EmptyPieces ==
  ASSUME NEW lg \in Seq(Piece), NEW gone
  PROVE  <<>> \in Seq(Piece) /\ lg \o <<>> = lg /\ AloneIn(<<>>, gone) /\ Follows(lg, <<>>, gone)
  BY EmptySeq, ConcatEmptySeq DEF AloneIn, Follows

\* What the texts of an open line are given up for.
LEMMA SharingFollows ==
  ASSUME NEW lg, NEW q, NEW gone, NEW p, IsFact(q[1]) => q[1] = p, Sharing(lg, p) \subseteq gone
  PROVE  Follows(lg, q, gone)
  BY DEF Sharing, Follows

LEMMA WriteTextKeeps == ASSUME MemIInv, NEW c \in Callers, WriteText(c) PROVE MemIInv'
<1> DEFINE f == mem[c].fact
<1>1. mem[c].st = "text" /\ UNCHANGED <<coreVars, ops>>
  BY DEF WriteText
<1>2. mem[c] \in TextStage
  BY <1>1, StageOf DEF MemIInv
<1>3. f \in Piece /\ IsFact(f) /\ log \in Seq(Piece)
  BY <1>2 DEF TextStage, MemIInv, MemTyped
<1>4. CASE /\ log' = Append(log, f) /\ lost' = lost \cup Sharing(log, f) /\ acked' = acked
           /\ mem' = [mem EXCEPT ![c].st = "newline"]
  <2> DEFINE s == [mem[c] EXCEPT !.st = "newline"]
  <2>1. s \in TextStage /\ s.st = "newline" /\ s.fact = f
    BY <1>2 DEF TextStage
  <2>2. mem' = [mem EXCEPT ![c] = s] /\ s \in MemStage
    BY <1>4, <2>1 DEF MemStage
  <2> HIDE DEF s, f
  <2>3. <<f>> \in Seq(Piece) /\ AloneIn(<<f>>, lost') /\ log' = log \o <<f>> /\ <<f>>[1] = f
        /\ Logged(log', f.text)
    BY <1>3, <1>4, OnePiece
  <2>4. Follows(log, <<f>>, lost')
    BY <1>4, <2>3, SharingFollows
  <2> QED
    BY <1>1, <1>4, <2>1, <2>2, <2>3, <2>4, WritesKeep
<1>5. CASE /\ log' \in {log} \cup {Append(log, p) : p \in Stumps} /\ acked' = acked \cup {f.text}
           /\ lost' = lost \cup {f.text} \cup (IF log' = log THEN {} ELSE Sharing(log, f))
           /\ mem' = [mem EXCEPT ![c] = Idle]
  <2> HIDE DEF f
  <2>1. \A t \in acked' : t \in acked \/ t \in lost'
    BY <1>5
  <2>2. CASE log' = log
    <3>1. /\ <<>> \in Seq(Piece) /\ log' = log \o <<>> /\ AloneIn(<<>>, lost')
          /\ Follows(log, <<>>, lost')
      BY <1>3, <2>2, EmptyPieces
    <3> QED
      BY <1>1, <1>5, <2>1, <3>1, IdleIsStage, WritesKeep
  <2>3. CASE log' # log
    <3>0. PICK p \in Stumps : log' = Append(log, p)
      BY <1>5, <2>3
    <3>1. /\ <<p>> \in Seq(Piece) /\ log' = log \o <<p>> /\ AloneIn(<<p>>, lost')
          /\ <<p>>[1] = p
      BY <1>3, <3>0, OnePiece, MarkersArePieces
    <3>2. Follows(log, <<p>>, lost')
      BY <1>5, <2>3, <3>1, MarkersArePieces, SharingFollows
    <3> QED
      BY <1>1, <1>5, <2>1, <3>1, <3>2, IdleIsStage, WritesKeep
  <2> QED
    BY <2>2, <2>3
<1> QED
  BY <1>4, <1>5 DEF WriteText

LEMMA WriteNewlineKeeps == ASSUME MemIInv, NEW c \in Callers, WriteNewline(c) PROVE MemIInv'
<1> DEFINE t == mem[c].fact.text
<1>1. /\ mem[c].st = "newline" /\ UNCHANGED <<coreVars, ops>> /\ lost' = lost
      /\ log' \in {Append(log, Newline), log} /\ acked' = acked \cup {t}
      /\ mem' = [mem EXCEPT ![c] = Idle]
  BY DEF WriteNewline
<1>2. log \in Seq(Piece) /\ (t \in lost \/ Logged(log, t))
  BY <1>1 DEF MemIInv, MemTyped, WrittenLogged
<1>3. PICK q \in Seq(Piece) : log' = log \o q /\ AloneIn(q, lost') /\ Follows(log, q, lost')
  <2>1. CASE log' = log
    BY <1>2, <2>1, EmptyPieces
  <2>2. CASE log' = Append(log, Newline)
    <3>1. /\ <<Newline>> \in Seq(Piece) /\ log' = log \o <<Newline>> /\ AloneIn(<<Newline>>, lost')
          /\ <<Newline>>[1] = Newline
      BY <1>2, <2>2, OnePiece, MarkersArePieces
    <3>2. Follows(log, <<Newline>>, lost')
      BY <3>1 DEF Follows
    <3> QED
      BY <3>1, <3>2
  <2> QED
    BY <1>1, <2>1, <2>2
<1>4. \A u : Logged(log, u) => Logged(log', u)
  BY <1>2, <1>3, LoggedStays
<1> HIDE DEF t
<1>5. \A u \in acked' : u \in acked \/ u \in lost' \/ Logged(log', u)
  BY <1>1, <1>2, <1>4
<1> QED
  BY <1>1, <1>3, <1>5, IdleIsStage, WritesKeep

\* Every second piece is a newline.
Alternates(q) == \A k \in Nat : 2 * k \in 1..Len(q) => q[2 * k] = Newline

LEMMA HalfOf == ASSUME NEW i \in Nat PROVE \E k \in Nat : i = 2 * k \/ i = 2 * k + 1
<1> DEFINE h == i \div 2
<1>1. h \in Nat /\ (i = 2 * h \/ i = 2 * h + 1)
  OBVIOUS
<1> HIDE DEF h
<1> QED
  BY <1>1, Zenon

LEMMA AlternatesAlone ==
  ASSUME NEW q \in Seq(Piece), Alternates(q), NEW gone
  PROVE  AloneIn(q, gone)
<1> SUFFICES ASSUME NEW i \in 1..Len(q), IsFact(q[i]) PROVE AloneAt(q, i)
  BY DEF AloneIn
<1>1. Len(q) \in Nat
  OBVIOUS
<1>2. PICK k \in Nat : i = 2 * k \/ i = 2 * k + 1
  <2>1. i \in Nat
    BY <1>1
  <2> QED
    BY <2>1, HalfOf
<1>3. i # 2 * k
  BY NewlineIsNoFact DEF Alternates
<1>4. i = 1 \/ q[i - 1] = Newline
  <2>1. i # 1 => 2 * k \in 1..Len(q) /\ i - 1 = 2 * k
    BY <1>1, <1>2, <1>3
  <2> QED
    BY <2>1 DEF Alternates
<1>5. i = Len(q) \/ q[i + 1] = Newline
  <2>1. k + 1 \in Nat /\ (i # Len(q) => 2 * (k + 1) \in 1..Len(q) /\ i + 1 = 2 * (k + 1))
    BY <1>1, <1>2, <1>3
  <2> QED
    BY <2>1 DEF Alternates
<1> QED
  BY <1>4, <1>5 DEF AloneAt

\* The facts of a batch that come to the file, those a failing write takes, and where
\* it may be cut.
Endings == {<<>>} \cup {<<p>> : p \in Stumps}
FirstOnes(lines, n) == SubSeq(lines, 1, 2 * n)

LEMMA FirstOnesAre ==
  ASSUME NEW facts \in Seq({p \in Piece : p.origin = "untrusted"}), NEW n \in 0..Len(facts),
         NEW cut \in Endings, NEW gone
  PROVE  LET q == FirstOnes(Lines(facts), n) \o cut
         IN  /\ q \in Seq(Piece) /\ AloneIn(q, gone)
             /\ FirstOnes(Lines(facts), n) \in Seq(Piece)
             /\ \A k \in 1..n : Logged(q, facts[k].text)
             /\ (n = 0 /\ cut = <<>> => q = <<>>)
             /\ (n = 0 /\ cut # <<>> => q[1] \in Stumps)
             /\ (n # 0 => q[1] = facts[1])
             /\ (Len(q) = 0 => n = 0 /\ cut = <<>>)
<1> DEFINE U == {p \in Piece : p.origin = "untrusted"}
           m == Len(facts)
           lines == Lines(facts)
           first == FirstOnes(lines, n)
           q == first \o cut
<1>1. m \in Nat /\ n \in Nat /\ n <= m /\ 2 * n \in Nat /\ 0 <= 2 * n /\ 2 * n <= 2 * m
  OBVIOUS
<1>2. /\ lines \in Seq(U \cup {Newline}) /\ Len(lines) = 2 * m
      /\ \A k \in 1..m : lines[2 * k - 1] = facts[k] /\ lines[2 * k] = Newline
  <2> HIDE DEF U
  <2> QED
    BY LinesAre DEF U
<1>3. lines \in Seq(Piece)
  <2>1. U \cup {Newline} \subseteq Piece
    BY MarkersArePieces
  <2>2. lines \in [1..(2 * m) -> Piece]
    <3>1. DOMAIN lines = 1..(2 * m) /\ lines = [i \in DOMAIN lines |-> lines[i]]
          /\ \A i \in DOMAIN lines : lines[i] \in U \cup {Newline}
      <4> HIDE DEF U, lines, m
      <4> QED
        BY <1>2
    <3> HIDE DEF U, lines, m
    <3> QED
      BY <2>1, <3>1
  <2> HIDE DEF lines, m
  <2> QED
    BY <1>1, <2>2, IsSeq
<1>4. \A k \in 1..m : facts[k] \in Piece /\ IsFact(facts[k])
  BY DEF IsFact
<1> HIDE DEF m, lines
<1>5. /\ first \in Seq(Piece) /\ Len(first) = 2 * n
      /\ \A j \in 1..(2 * n) : first[j] = lines[j]
  <2>1. /\ SubSeq(lines, 0 + 1, 2 * n) \in Seq(Piece) /\ Len(SubSeq(lines, 0 + 1, 2 * n)) = 2 * n - 0
        /\ \A j \in 1..(2 * n - 0) : SubSeq(lines, 0 + 1, 2 * n)[j] = lines[0 + j]
    BY <1>1, <1>2, <1>3, SubSeqIs
  <2>2. 0 + 1 = 1 /\ 2 * n - 0 = 2 * n /\ \A j \in 1..(2 * n) : 0 + j = j
    BY <1>1
  <2>3. first = SubSeq(lines, 0 + 1, 2 * n)
    BY <2>2 DEF FirstOnes
  <2> HIDE DEF first
  <2> QED
    BY <2>1, <2>2, <2>3
<1>6. cut \in Seq(Piece) /\ Len(cut) \in {0, 1} /\ (cut = <<>> => Len(cut) = 0)
      /\ (cut # <<>> => Len(cut) = 1 /\ cut[1] \in Stumps)
  <2>1. CASE cut = <<>>
    BY <2>1, EmptySeq
  <2>2. ASSUME NEW p \in Stumps, cut = <<p>>
        PROVE  cut \in Seq(Piece) /\ Len(cut) = 1 /\ cut[1] = p /\ cut # <<>>
    BY <2>2, MarkersArePieces
  <2> QED
    BY <2>1, <2>2 DEF Endings
<1> HIDE DEF first
<1>7. /\ q \in Seq(Piece) /\ Len(q) = 2 * n + Len(cut)
      /\ \A i \in 1..(2 * n) : q[i] = lines[i]
      /\ \A i \in 1..Len(cut) : q[2 * n + i] = cut[i]
  <2>1. /\ q \in Seq(Piece) /\ Len(q) = Len(first) + Len(cut)
        /\ \A i \in 1..Len(first) : q[i] = first[i]
        /\ \A i \in 1..Len(cut) : q[Len(first) + i] = cut[i]
    BY <1>5, <1>6, JoinedPieces
  <2> HIDE DEF q
  <2> QED
    BY <1>5, <2>1
<1> HIDE DEF q
<1>8. Alternates(q)
  <2> SUFFICES ASSUME NEW k \in Nat, 2 * k \in 1..Len(q) PROVE q[2 * k] = Newline
    BY DEF Alternates
  <2>1. 2 * k \in 1..(2 * n) /\ k \in 1..m
    BY <1>1, <1>6, <1>7
  <2> QED
    BY <1>2, <1>7, <2>1
<1>9. AloneIn(q, gone)
  BY <1>7, <1>8, AlternatesAlone
<1>10. ASSUME NEW k \in 1..n PROVE Logged(q, facts[k].text)
  <2>1. 2 * k - 1 \in 1..(2 * n) /\ k \in 1..m /\ 2 * k - 1 \in 1..Len(q)
    BY <1>1, <1>6, <1>7
  <2>2. q[2 * k - 1] = facts[k]
    BY <1>2, <1>7, <2>1
  <2>3. DOMAIN q = 1..Len(q)
    BY <1>7
  <2> QED
    BY <1>4, <2>1, <2>2, <2>3 DEF Logged
<1>11. n = 0 /\ cut = <<>> => q = <<>>
  BY <1>6, <1>7, EmptySeq
<1>12. n = 0 /\ cut # <<>> => q[1] \in Stumps
  BY <1>6, <1>7
<1>13. n # 0 => q[1] = facts[1]
  <2>1. n # 0 => 1 \in 1..m /\ 2 * 1 - 1 = 1 /\ 1 \in 1..(2 * n)
    BY <1>1
  <2> QED
    BY <1>2, <1>7, <2>1
<1>14. Len(q) = 0 => n = 0 /\ cut = <<>>
  <2>1. Len(q) = 0 => n = 0 /\ Len(cut) = 0
    BY <1>1, <1>6, <1>7
  <2> QED
    BY <1>6, <2>1
<1>15. q = FirstOnes(Lines(facts), n) \o cut /\ first = FirstOnes(Lines(facts), n)
  BY DEF q, first, lines
<1> QED
  BY <1>5, <1>7, <1>9, <1>10, <1>11, <1>12, <1>13, <1>14, <1>15

LEMMA PiecesJoin ==
  ASSUME NEW x \in Seq(Piece), NEW y \in Seq(Piece), NEW z \in Seq(Piece)
  PROVE  (x \o y) \o z = x \o (y \o z)
  BY ConcatAssociative

LEMMA WriteBatchKeeps == ASSUME MemIInv, NEW c \in Callers, WriteBatch(c) PROVE MemIInv'
<1> DEFINE facts == mem[c].facts
           lines == Lines(facts)
           m == Len(facts)
           texts(lg) == {lg[i].text : i \in {k \in DOMAIN lg : IsFact(lg[k])}}
           share(lg) == IF log' = log THEN {} ELSE Sharing(log, Head(lines))
<1>1. /\ mem[c].st = "batch" /\ UNCHANGED <<coreVars, ops>>
      /\ acked' = acked \cup {mem[c].texts[i] : i \in DOMAIN mem[c].texts}
      /\ mem' = [mem EXCEPT ![c] = Idle]
  BY DEF WriteBatch
<1>2. mem[c] \in Imports /\ log \in Seq(Piece)
  BY <1>1, StageOf DEF MemIInv, MemTyped
<1>3. /\ facts \in Seq({p \in Piece : p.origin = "untrusted"}) /\ m \in Nat
      /\ acked' = acked \cup {facts[k].text : k \in 1..m}
  <2>1. /\ facts \in Seq({p \in Piece : p.origin = "untrusted"})
        /\ mem[c].texts \in Seq(AllTexts) /\ Len(facts) = Len(mem[c].texts)
        /\ \A k \in 1..Len(facts) : facts[k].text = mem[c].texts[k]
    BY <1>2, ImportIs
  <2>2. DOMAIN mem[c].texts = 1..m /\ m \in Nat
    BY <2>1
  <2> QED
    BY <1>1, <2>1, <2>2
<1>4. /\ Len(lines) = 2 * m
      /\ \A k \in 1..m : lines[2 * k - 1] = facts[k] /\ lines[2 * k] = Newline
  BY <1>3, LinesAre
<1>5. m # 0 => Head(lines) = facts[1] /\ IsFact(facts[1])
  <2>1. m # 0 => lines[2 * 1 - 1] = facts[1] /\ facts[1] \in {p \in Piece : p.origin = "untrusted"}
    <3> SUFFICES ASSUME m # 0
                 PROVE  lines[2 * 1 - 1] = facts[1] /\ facts[1] \in {p \in Piece : p.origin = "untrusted"}
      OBVIOUS
    <3>1. 1 \in 1..m
      BY <1>3
    <3>2. facts[1] \in {p \in Piece : p.origin = "untrusted"}
      BY <1>3, <3>1
    <3> HIDE DEF lines, facts, m
    <3> QED
      BY <1>4, <3>1, <3>2
  <2>2. Head(lines) = lines[1] /\ 2 * 1 - 1 = 1
    <3>1. lines \in Seq({p \in Piece : p.origin = "untrusted"} \cup {Newline})
      BY <1>3, LinesAre
    <3> QED
      BY <3>1
  <2> QED
    BY <2>1, <2>2 DEF IsFact
<1>6. SUFFICES ASSUME NEW n \in 0..m, NEW cut \in Endings, n # m \/ cut = <<>>,
                      log' = log \o (FirstOnes(lines, n) \o cut), lost \subseteq lost',
                      log' # log => Sharing(log, Head(lines)) \subseteq lost',
                      \A k \in (n + 1)..m : facts[k].text \in lost'
               PROVE  MemIInv'
  <2>1. CASE /\ log' = log \o lines
             /\ lost' = lost \cup (IF lines = <<>> THEN {} ELSE Sharing(log, Head(lines)))
    <3>1. FirstOnes(lines, m) = lines /\ lines \o <<>> = lines /\ (lines = <<>> => log \o lines = log)
      <4>1. lines \in Seq({p \in Piece : p.origin = "untrusted"} \cup {Newline})
        BY <1>3, LinesAre
      <4> HIDE DEF lines
      <4>2. SubSeq(lines, 1, Len(lines)) = lines
        BY <4>1
      <4> QED
        BY <1>2, <1>4, <4>1, <4>2, ConcatEmptySeq DEF FirstOnes
    <3>2. log' = log \o (FirstOnes(lines, m) \o <<>>)
      BY <2>1, <3>1
    <3>3. log' # log => Sharing(log, Head(lines)) \subseteq lost'
      BY <2>1, <3>1
    <3>4. m \in 0..m /\ lost \subseteq lost' /\ \A k \in (m + 1)..m : facts[k].text \in lost'
      BY <1>3, <2>1
    <3>5. <<>> \in Endings
      BY DEF Endings
    <3> HIDE DEF lines, facts, m
    <3> QED
      BY <1>6, <3>2, <3>3, <3>4, <3>5
  <2>2. CASE \E n \in 0..m - 1 : \E cut \in Endings :
               /\ log' = log \o SubSeq(lines, 1, 2 * n) \o cut
               /\ lost' = lost \cup texts(SubSeq(lines, 2 * n + 1, Len(lines))) \cup share(log)
    <3>1. PICK n \in 0..m - 1, cut \in Endings :
               /\ log' = log \o SubSeq(lines, 1, 2 * n) \o cut
               /\ lost' = lost \cup texts(SubSeq(lines, 2 * n + 1, Len(lines))) \cup share(log)
      BY <2>2
    <3>2. n \in 0..m /\ n # m /\ 2 * n \in Nat /\ 2 * n <= 2 * m
      BY <1>3
    <3>3. FirstOnes(lines, n) \in Seq(Piece) /\ cut \in Seq(Piece)
      <4>1. FirstOnes(lines, n) \in Seq(Piece)
        BY <1>3, <3>2, FirstOnesAre DEF Endings
      <4>2. <<>> \in Seq(Piece) /\ \A p \in Stumps : <<p>> \in Seq(Piece)
        BY MarkersArePieces, EmptySeq
      <4> QED
        BY <4>1, <4>2 DEF Endings
    <3>4. log' = log \o (FirstOnes(lines, n) \o cut)
      <4>1. log' = (log \o FirstOnes(lines, n)) \o cut
        BY <3>1 DEF FirstOnes
      <4> DEFINE first == FirstOnes(lines, n)
      <4>2. first \in Seq(Piece)
        BY <3>3
      <4> HIDE DEF first
      <4>3. (log \o first) \o cut = log \o (first \o cut)
        BY <1>2, <3>3, <4>2, PiecesJoin, Zenon
      <4> QED
        BY <4>1, <4>3 DEF first
    <3>5. ASSUME NEW k \in (n + 1)..m PROVE facts[k].text \in lost'
      <4> DEFINE rest == SubSeq(lines, 2 * n + 1, 2 * m)
                 j == 2 * k - 1 - 2 * n
      <4>1. k \in 1..m /\ j \in 1..(2 * m - 2 * n) /\ 2 * n + j = 2 * k - 1
        BY <1>3, <3>2
      <4>2. /\ rest \in Seq({p \in Piece : p.origin = "untrusted"} \cup {Newline})
            /\ Len(rest) = 2 * m - 2 * n /\ \A i \in 1..(2 * m - 2 * n) : rest[i] = lines[2 * n + i]
        <5>1. lines \in Seq({p \in Piece : p.origin = "untrusted"} \cup {Newline})
          BY <1>3, LinesAre
        <5>2. 2 * m \in Nat /\ 2 * m <= Len(lines)
          BY <1>3, <1>4
        <5> HIDE DEF lines, m
        <5> QED
          BY <3>2, <5>1, <5>2, SubSeqIs
      <4>3. rest[j] = facts[k] /\ j \in DOMAIN rest
        <5> HIDE DEF rest, lines, facts, m, j
        <5>1. rest[j] = lines[2 * k - 1]
          BY <4>1, <4>2
        <5>2. DOMAIN rest = 1..(2 * m - 2 * n)
          BY <4>2
        <5> QED
          BY <1>4, <4>1, <5>1, <5>2
      <4> HIDE DEF rest
      <4>4. IsFact(facts[k])
        BY <1>3, <4>1 DEF IsFact
      <4>5. facts[k].text \in texts(rest)
        BY <4>3, <4>4
      <4> QED
        BY <1>4, <3>1, <4>5 DEF rest
    <3>6. lost \subseteq lost' /\ (log' # log => Sharing(log, Head(lines)) \subseteq lost')
      BY <3>1
    <3> HIDE DEF lines, facts, m
    <3> QED
      BY <1>6, <3>2, <3>4, <3>5, <3>6
  <2> QED
    BY <2>1, <2>2 DEF WriteBatch, Endings
<1> DEFINE q == FirstOnes(lines, n) \o cut
<1>7. /\ q \in Seq(Piece) /\ AloneIn(q, lost') /\ \A k \in 1..n : Logged(q, facts[k].text)
      /\ n = 0 /\ cut = <<>> => q = <<>>
      /\ n = 0 /\ cut # <<>> => q[1] \in Stumps
      /\ n # 0 => q[1] = facts[1]
  BY <1>3, FirstOnesAre
<1> HIDE DEF q, lines, facts, m
<1>8. log' = log \o q
  BY <1>6 DEF q
<1>9. \A t : Logged(q, t) => Logged(log', t)
  BY <1>2, <1>7, <1>8, LoggedStays
<1>10. Follows(log, q, lost')
  <2>1. CASE q = <<>>
    BY <2>1 DEF Follows
  <2>2. CASE q # <<>>
    <3>1. log' # log
      BY <1>2, <1>7, <1>8, <2>2, ConcatEqualIffEmpty
    <3>2. Sharing(log, Head(lines)) \subseteq lost'
      BY <1>6, <3>1
    <3>3. IsFact(q[1]) => q[1] = Head(lines)
      <4>1. CASE n = 0
        BY <1>6, <1>7, <2>2, <4>1, MarkersArePieces
      <4>2. CASE n # 0
        <5>1. m # 0
          BY <1>3, <4>2
        <5> QED
          BY <1>5, <1>7, <4>2, <5>1
      <4> QED
        BY <4>1, <4>2
    <3> QED
      BY <3>2, <3>3, SharingFollows
  <2> QED
    BY <2>1, <2>2
<1>11. ASSUME NEW t \in acked' PROVE t \in acked \/ t \in lost' \/ Logged(log', t)
  <2>1. CASE t \in {facts[k].text : k \in 1..m}
    <3>1. PICK k \in 1..m : t = facts[k].text
      BY <2>1
    <3>2. k \in 1..n \/ k \in (n + 1)..m
      BY <1>3
    <3> QED
      BY <1>6, <1>7, <1>9, <3>1, <3>2
  <2> QED
    BY <1>3, <2>1
<1> QED
  BY <1>1, <1>6, <1>7, <1>8, <1>10, <1>11, IdleIsStage, WritesKeep

(***************************************************************************)
(* The core blocks                                                         *)
(***************************************************************************)

\* While one caller saves, no other does.
LEMMA OneSaver ==
  ASSUME MemIInv, NEW c \in Callers, mem[c].st \in {"truncate", "write"}
  PROVE  holder = c /\ holder # Nobody
         /\ \A d \in Callers : d # c => mem[d].st \notin {"truncate", "write"}
<1>1. holder = c
  BY DEF MemIInv, SaverHolds
<1>2. \A d \in Callers : mem[d].st \in {"truncate", "write"} => d = c
  BY <1>1 DEF MemIInv, SaverHolds
<1> QED
  BY <1>1, <1>2, CallerAssumption

LEMMA PutBlockKeeps == ASSUME MemIInv, NEW c \in Callers, PutBlock(c) PROVE MemIInv'
<1> DEFINE s == [st |-> "truncate", blocks |-> core']
<1>1. /\ mem[c].st = "put" /\ holder = Nobody /\ holder' = c
      /\ core' = [core EXCEPT ![mem[c].block] = mem[c].value]
      /\ mem' = [mem EXCEPT ![c] = s]
      /\ UNCHANGED logVars /\ ops' = ops /\ coreFile' = coreFile /\ saved' = saved /\ torn' = torn
  BY DEF PutBlock
<1>2. mem[c] \in PutStage
  BY <1>1, StageOf DEF MemIInv
<1>3. core' \in CoreBlocks
  <2>1. core \in CoreBlocks /\ mem[c].value \in Values \cup {Absent}
    BY <1>2 DEF PutStage, MemIInv, MemTyped
  <2> QED
    BY <1>1, <2>1 DEF CoreBlocks
<1>4. s \in MemStage /\ s.st = "truncate" /\ s.blocks = core'
  <2>1. s \in SaveStage
    BY <1>3 DEF SaveStage
  <2> QED
    BY <2>1 DEF MemStage
<1> HIDE DEF s
<1>5. mem' \in [Callers -> MemStage] /\ mem'[c] = s /\ Others(c)
  BY <1>1, <1>4, MoveTo DEF MemIInv
<1>6. log' \in Seq(Piece) /\ FactsAlone' /\ AckedLogged' /\ WrittenLogged'
  BY <1>1, <1>4, <1>5, LogQuiet
<1>7. \A d \in Callers : mem[d].st \notin {"truncate", "write"}
  BY <1>1, CallerAssumption DEF MemIInv, SaverHolds
<1>8. \A d \in Callers : mem'[d].st \in {"truncate", "write"} <=> d = c
  BY <1>4, <1>5, <1>7 DEF Others
<1>9. SaverHolds'
  BY <1>1, <1>8 DEF SaverHolds
<1>10. BlocksInv'
  <2>1. c # Nobody
    BY CallerAssumption
  <2>2. ~torn => coreFile = saved
    BY <1>1 DEF MemIInv, BlocksInv
  <2> QED
    BY <1>1, <1>4, <1>5, <1>8, <2>1, <2>2 DEF BlocksInv
<1>11. MemTyped'
  BY <1>1, <1>3, <1>5, <1>6 DEF MemIInv, MemTyped
<1> QED
  BY <1>6, <1>9, <1>10, <1>11 DEF MemIInv

\* The blocks are saved, or the save failed: the Mutex is free.
LEMMA SavedKeeps ==
  ASSUME MemIInv, NEW c \in Callers, mem[c].st \in {"truncate", "write"}, NEW faulty \in BOOLEAN,
         Saved(c, faulty), UNCHANGED <<logVars, core, ops>>,
         coreFile' \in CoreBlocks \cup {Torn}, ~faulty => coreFile' = mem[c].blocks
  PROVE  MemIInv'
<1>1. /\ mem' = [mem EXCEPT ![c] = Idle] /\ holder' = Nobody /\ saved' = mem[c].blocks
      /\ torn' = (torn \/ faulty) /\ UNCHANGED logVars /\ core' = core /\ ops' = ops
  BY DEF Saved
<1>2. mem' \in [Callers -> MemStage] /\ mem'[c] = Idle /\ Others(c)
  BY <1>1, IdleIsStage, MoveTo DEF MemIInv
<1>3. log' \in Seq(Piece) /\ FactsAlone' /\ AckedLogged' /\ WrittenLogged'
  BY <1>1, <1>2, IdleIsStage, LogQuiet
<1>4. \A d \in Callers : mem'[d].st \notin {"truncate", "write"}
  BY <1>2, OneSaver, IdleIsStage DEF Others
<1>5. SaverHolds'
  BY <1>1, <1>4, CallerAssumption DEF SaverHolds
<1>6. BlocksInv'
  <2>1. ~torn => mem[c].blocks = core
    BY DEF MemIInv, BlocksInv
  <2> QED
    BY <1>1, <1>4, <2>1 DEF BlocksInv
<1>7. mem[c].blocks \in CoreBlocks
  <2>1. mem[c] \in SaveStage
    BY StageOf DEF MemIInv
  <2> QED
    BY <2>1 DEF SaveStage
<1>8. torn' \in BOOLEAN
  BY <1>1 DEF MemIInv, MemTyped
<1>9. MemTyped'
  BY <1>1, <1>2, <1>3, <1>7, <1>8 DEF MemIInv, MemTyped
<1> QED
  BY <1>3, <1>5, <1>6, <1>9 DEF MemIInv

LEMMA TruncateCoreKeeps == ASSUME MemIInv, NEW c \in Callers, TruncateCore(c) PROVE MemIInv'
<1>1. mem[c].st = "truncate" /\ UNCHANGED <<logVars, core, ops>>
  BY DEF TruncateCore
<1>2. CASE UNCHANGED coreFile /\ Saved(c, TRUE)
  <2>1. coreFile' \in CoreBlocks \cup {Torn}
    BY <1>2 DEF MemIInv, MemTyped
  <2> QED
    BY <1>1, <1>2, <2>1, SavedKeeps
<1>3. CASE coreFile' = Torn /\ mem' = [mem EXCEPT ![c].st = "write"] /\ UNCHANGED <<holder, saved, torn>>
  <2> DEFINE s == [mem[c] EXCEPT !.st = "write"]
  <2>1. mem[c] \in SaveStage
    BY <1>1, StageOf DEF MemIInv
  <2>2. s \in SaveStage /\ s.st = "write" /\ s.blocks = mem[c].blocks /\ mem' = [mem EXCEPT ![c] = s]
    BY <1>3, <2>1 DEF SaveStage
  <2>3. s \in MemStage
    BY <2>2 DEF MemStage
  <2> HIDE DEF s
  <2>4. mem' \in [Callers -> MemStage] /\ mem'[c] = s /\ Others(c)
    BY <2>2, <2>3, MoveTo DEF MemIInv
  <2>5. log' \in Seq(Piece) /\ FactsAlone' /\ AckedLogged' /\ WrittenLogged'
    BY <1>1, <2>2, <2>4, LogQuiet
  <2>6. holder = c /\ holder # Nobody
        /\ \A d \in Callers : d # c => mem[d].st \notin {"truncate", "write"}
    BY <1>1, OneSaver
  <2>7. \A d \in Callers : mem'[d].st \in {"truncate", "write"} <=> d = c
    BY <2>2, <2>4, <2>6 DEF Others
  <2>8. SaverHolds'
    BY <1>3, <2>6, <2>7 DEF SaverHolds
  <2>9. ~torn => mem[c].blocks = core
    BY <1>1 DEF MemIInv, BlocksInv
  <2>10. BlocksInv'
    BY <1>1, <1>3, <2>2, <2>4, <2>6, <2>7, <2>9 DEF BlocksInv
  <2>11. MemTyped'
    BY <1>1, <1>3, <2>4, <2>5 DEF MemIInv, MemTyped
  <2> QED
    BY <2>5, <2>8, <2>10, <2>11 DEF MemIInv
<1> QED
  BY <1>2, <1>3 DEF TruncateCore

LEMMA WriteCoreKeeps == ASSUME MemIInv, NEW c \in Callers, WriteCore(c) PROVE MemIInv'
<1>1. mem[c].st = "write" /\ UNCHANGED <<logVars, core, ops>>
  BY DEF WriteCore
<1>2. CASE UNCHANGED coreFile /\ Saved(c, TRUE)
  <2>1. coreFile' \in CoreBlocks \cup {Torn}
    BY <1>2 DEF MemIInv, MemTyped
  <2> QED
    BY <1>1, <1>2, <2>1, SavedKeeps
<1>3. CASE coreFile' = mem[c].blocks /\ Saved(c, FALSE)
  <2>1. mem[c] \in SaveStage
    BY <1>1, StageOf DEF MemIInv
  <2>2. coreFile' \in CoreBlocks \cup {Torn}
    BY <1>3, <2>1 DEF SaveStage
  <2> QED
    BY <1>1, <1>3, <2>2, SavedKeeps
<1> QED
  BY <1>2, <1>3 DEF WriteCore

\* The core comes back with the blocks of the file, if they can be read.
LEMMA MemRestartKeeps == ASSUME MemIInv, MemRestart PROVE MemIInv'
<1>1. /\ mem' = [c \in Callers |-> Idle] /\ holder' = Nobody
      /\ core' = IF coreFile = Torn THEN NoBlocks ELSE coreFile
      /\ torn' = (torn \/ coreFile = Torn)
      /\ saved' = IF coreFile = Torn THEN saved ELSE coreFile
      /\ coreFile' = coreFile /\ ops' = ops /\ log' = log /\ acked' = acked /\ lost' = lost
  BY DEF MemRestart, logVars
<1>2. \A c \in Callers : mem'[c] = Idle
  BY <1>1
<1>3. \A c \in Callers : mem'[c].st = "idle"
  BY <1>2, IdleIsStage
<1>4. mem' \in [Callers -> MemStage]
  BY <1>1, IdleIsStage
<1>5. coreFile \in CoreBlocks \cup {Torn} /\ saved \in CoreBlocks
  BY DEF MemIInv, MemTyped
<1>6. core' \in CoreBlocks /\ saved' \in CoreBlocks /\ coreFile' \in CoreBlocks \cup {Torn}
  <2>1. NoBlocks \in CoreBlocks
    BY DEF NoBlocks, CoreBlocks
  <2> HIDE DEF CoreBlocks, Torn, NoBlocks
  <2> QED
    BY <1>1, <1>5, <2>1
<1>7. torn' \in BOOLEAN
  BY <1>1 DEF MemIInv, MemTyped
<1>8. MemTyped'
  BY <1>1, <1>4, <1>6, <1>7 DEF MemIInv, MemTyped
<1>9. SaverHolds'
  BY <1>1, <1>3, CallerAssumption DEF SaverHolds
<1>10. BlocksInv'
  BY <1>1, <1>3 DEF BlocksInv
<1>11. FactsAlone' /\ AckedLogged'
  BY <1>1 DEF MemIInv, FactsAlone, AckedLogged
<1>12. WrittenLogged'
  BY <1>3 DEF WrittenLogged
<1> QED
  BY <1>8, <1>9, <1>10, <1>11, <1>12 DEF MemIInv

LEMMA InitMemIInv == MemInit => MemIInv
<1> SUFFICES ASSUME MemInit PROVE MemIInv
  OBVIOUS
<1>1. /\ log = <<>> /\ core = NoBlocks /\ coreFile = NoBlocks /\ holder = Nobody
      /\ mem = [c \in Callers |-> Idle] /\ ops = 0 /\ acked = {} /\ saved = NoBlocks /\ torn = FALSE
  BY DEF MemInit
<1>2. \A c \in Callers : mem[c].st = "idle"
  BY <1>1, IdleIsStage
<1>3. NoBlocks \in CoreBlocks
  BY DEF NoBlocks, CoreBlocks
<1>4. log \in Seq(Piece) /\ DOMAIN log = {}
  BY <1>1, EmptySeq
<1>5. ops \in 0..MaxOps
  BY <1>1, MemoryAssumption
<1>6. MemTyped
  BY <1>1, <1>3, <1>4, <1>5, IdleIsStage DEF MemTyped
<1>7. SaverHolds
  BY <1>1, <1>2, CallerAssumption DEF SaverHolds
<1>8. BlocksInv
  BY <1>1, <1>2 DEF BlocksInv
<1>9. FactsAlone /\ AckedLogged /\ WrittenLogged
  BY <1>1, <1>2, <1>4 DEF FactsAlone, AckedLogged, WrittenLogged
<1> QED
  BY <1>6, <1>7, <1>8, <1>9 DEF MemIInv

LEMMA NextMemIInv == MemIInv /\ [MemNext]_memVars => MemIInv'
<1> SUFFICES ASSUME MemIInv, [MemNext]_memVars PROVE MemIInv'
  OBVIOUS
<1>1. CASE UNCHANGED memVars
  BY <1>1 DEF memVars, MemIInv, MemTyped, SaverHolds, BlocksInv, FactsAlone, AckedLogged, WrittenLogged
<1>2. ASSUME NEW c \in Callers,
             \/ Remember(c) \/ WriteText(c) \/ WriteNewline(c)
             \/ Ingest(c) \/ WriteBatch(c)
             \/ SetMemory(c) \/ Consolidate(c) \/ ModelAnswers(c)
             \/ PutBlock(c) \/ TruncateCore(c) \/ WriteCore(c)
      PROVE  MemIInv'
  BY <1>2, RememberKeeps, WriteTextKeeps, WriteNewlineKeeps, IngestKeeps, WriteBatchKeeps,
     SetMemoryKeeps, ConsolidateKeeps, ModelAnswersKeeps, PutBlockKeeps, TruncateCoreKeeps,
     WriteCoreKeeps, Zenon
<1> QED
  BY <1>1, <1>2, MemRestartKeeps DEF MemNext

THEOREM MemInductive == MemSpec => []MemIInv
  BY InitMemIInv, NextMemIInv, PTL DEF MemSpec

\* The log, the blocks and every call under way always have their types.
THEOREM MemTypeCorrect == MemSpec => []MemTypeOK
<1>1. ASSUME MemIInv PROVE MemTypeOK
  <2>1. MemTyped
    BY <1>1 DEF MemIInv
  <2>2. \A i \in DOMAIN log : log[i].origin \in {"trusted", "untrusted", "newline", "part", "garbled"}
    <3>1. \A i \in DOMAIN log : log[i] \in Piece
      BY <2>1 DEF MemTyped
    <3> QED
      BY <3>1 DEF Piece
  <2>3. \A c \in Callers : mem[c].st \in {"idle", "text", "newline", "batch", "asked", "put",
                                          "truncate", "write"}
    BY <2>1, StageOf
  <2> QED
    BY <2>1, <2>2, <2>3 DEF MemTyped, MemTypeOK, CoreBlocks
<1> QED
  BY <1>1, MemInductive, PTL

\* The blocks in memory, in the file and as the callers know them agree whenever
\* nobody saves them, unless a save failed: for every number of callers and blocks.
THEOREM BlocksAreKept == MemSpec => []BlocksKept
<1>1. MemIInv => BlocksKept
  BY DEF MemIInv, BlocksInv, BlocksKept
<1> QED
  BY <1>1, MemInductive, PTL

\* A stored vector is that of its own text, for every export, chunk size and order
\* of the server's answers.
THEOREM VectorsAlwaysBelong == MemSpec => []VectorsBelong
<1>1. ASSUME MemIInv PROVE VectorsBelong
  <2>1. \A i \in DOMAIN log : log[i] \in Piece
    BY <1>1 DEF MemIInv, MemTyped
  <2> QED
    BY <2>1 DEF Piece, VectorsBelong
<1> QED
  BY <1>1, MemInductive, PTL

\* What was acknowledged is found by a search for it, unless its line was shared or
\* its write failed, or it has no vector while others do, or a write was cut inside a
\* character and the file is no longer readable.
THEOREM RememberedIsAlwaysFound == MemSpec => []RememberedIsFound
<1>1. ASSUME MemIInv PROVE RememberedIsFound
  <2> SUFFICES ASSUME ~Unreadable(log), NEW text \in acked \ lost, NEW embeds \in BOOLEAN
               PROVE  \/ \E f \in Search(log, text, embeds) : f.text = text
                      \/ embeds /\ \E f \in AllFacts(log) : f.text = text /\ f.emb = None
    BY DEF RememberedIsFound
  <2>1. PICK i \in DOMAIN log : IsFact(log[i]) /\ log[i].text = text
    BY <1>1 DEF MemIInv, AckedLogged, Logged
  <2> DEFINE f == log[i]
             vectors == {g \in AllFacts(log) : g.emb # None}
  <2>2. AloneAt(log, i)
    BY <1>1, <2>1 DEF MemIInv, FactsAlone
  <2>3. f \in AllFacts(log)
    BY <2>1, <2>2 DEF AllFacts, AloneAt
  <2>4. f.emb \in {text, None}
    <3>1. log[i] \in Piece
      BY <1>1 DEF MemIInv, MemTyped
    <3> QED
      BY <2>1, <3>1 DEF Piece
  <2>5. f.text = text
    BY <2>1
  <2> HIDE DEF f
  <2>6. CASE embeds /\ f.emb = None
    BY <2>3, <2>5, <2>6
  <2>7. CASE embeds /\ f.emb # None
    <3>1. f \in vectors /\ f.emb = text
      BY <2>3, <2>4, <2>7
    <3>2. Search(log, text, embeds) = {g \in vectors : g.emb = text}
      BY <2>7, <3>1 DEF Search
    <3> QED
      BY <2>5, <3>1, <3>2
  <2>8. CASE ~embeds
    <3>1. Search(log, text, embeds) = {g \in AllFacts(log) : g.text = text}
      BY <2>8 DEF Search
    <3> QED
      BY <2>3, <2>5, <3>1
  <2> QED
    BY <2>6, <2>7, <2>8
<1> QED
  BY <1>1, MemInductive, PTL

\* In every text of an import that asked for sanitizing, a segment is replaced if
\* and only if a rule matches it that did not give up earlier in the text, and two placeholders of the
\* import, of one message or of two, are equal if and only if they stand for the
\* same value of the same category: for every export, with any number of messages
\* and segments.
THEOREM PlaceholdersAlwaysFaithful == MemSpec => []PlaceholdersFaithful
<1>1. ASSUME MemIInv PROVE PlaceholdersFaithful
  <2> SUFFICES ASSUME NEW c \in Callers, mem[c].st = "batch", mem[c].clean
               PROVE  Scrubbed(mem[c].raw, mem[c].texts)
    BY DEF PlaceholdersFaithful
  <2>1. mem[c] \in Imports
    BY <1>1, StageOf DEF MemIInv
  <2>2. PICK b \in Imports : b = mem[c]
    BY <2>1
  <2> QED
    BY <2>2, ImportsScrubbed
<1> QED
  BY <1>1, MemInductive, PTL

(***************************************************************************)
(* Documents: lengths                                                      *)
(***************************************************************************)

\* The bounds of a style, which keep a column wider than any character.
Measured(s) ==
    /\ s.size \in 110..200 /\ s.indent \in {0, 180} /\ s.leading \in 155..260
    /\ s.before \in 0..120 /\ s.after \in 0..140

LEMMA Styles ==
  /\ Measured(Between) /\ Between.open = FALSE
  /\ \A kind \in STRING : Measured(StyleOf(kind)) /\ StyleOf(kind).open = TRUE
<1>1. ASSUME NEW b \in 0..120, NEW sz \in 110..200, NEW l \in 155..260, NEW a \in 0..140, NEW i \in {0, 180}
      PROVE Measured(Style(b, sz, l, a, i)) /\ Style(b, sz, l, a, i).open = TRUE
  BY DEF Measured, Style
<1>2. Measured(Between) /\ Between.open = FALSE
  BY DEF Between, Measured
<1>3. ASSUME NEW kind \in STRING PROVE Measured(StyleOf(kind)) /\ StyleOf(kind).open = TRUE
  <2>1. CASE kind = "title"
    <3>1. StyleOf(kind) = Style(0, 200, 260, 100, 0)
      BY <2>1 DEF StyleOf
    <3> QED
      BY <3>1 DEF Measured, Style
  <2>2. CASE kind = "h1"
    <3>1. StyleOf(kind) = Style(120, 160, 200, 30, 0)
      BY <2>2 DEF StyleOf
    <3> QED
      BY <3>1 DEF Measured, Style
  <2>3. CASE kind = "h2"
    <3>1. StyleOf(kind) = Style(120, 140, 180, 30, 0)
      BY <2>3 DEF StyleOf
    <3> QED
      BY <3>1 DEF Measured, Style
  <2>4. CASE kind = "h3"
    <3>1. StyleOf(kind) = Style(120, 125, 165, 30, 0)
      BY <2>4 DEF StyleOf
    <3> QED
      BY <3>1 DEF Measured, Style
  <2>5. CASE kind \in {"bullet", "numbered"}
    <3>1. StyleOf(kind) = Style(0, 110, 155, 30, 180)
      BY <2>5 DEF StyleOf
    <3> QED
      BY <3>1 DEF Measured, Style
  <2>6. CASE kind = "rule"
    <3>1. StyleOf(kind) = Style(0, 110, 155, 140, 0)
      BY <2>6 DEF StyleOf
    <3> QED
      BY <3>1 DEF Measured, Style
  <2>7. CASE kind \notin {"title", "h1", "h2", "h3", "bullet", "numbered", "rule"}
    <3>1. StyleOf(kind) = Style(0, 110, 155, 70, 0)
      BY <2>7 DEF StyleOf
    <3> QED
      BY <3>1 DEF Measured, Style
  <2> QED
    BY <2>1, <2>2, <2>3, <2>4, <2>5, <2>6, <2>7
<1> QED
  BY <1>2, <1>3

\* Integer division rounds down.
LEMMA Divided ==
  ASSUME NEW u \in Nat, u > 0, NEW m \in Nat
  PROVE  /\ (m \div u) \in Nat /\ (m \div u) * u <= m /\ m < (m \div u) * u + u
         /\ u <= m => m \div u > 0
<1>1. (m \div u) \in Nat /\ (m \div u) * u <= m /\ m < (m \div u) * u + u
  OBVIOUS
<1>2. ASSUME u <= m PROVE m \div u > 0
  BY <1>2
<1> QED
  BY <1>1, <1>2

\* Some character of the widest font is set in any column.
Wide == 1015 * 200
LEMMA UnitBounds ==
  ASSUME NEW e \in Ems, NEW size \in 110..200
  PROVE  e * size \in Nat /\ e * size > 0 /\ e * size <= Wide
<1>1. e \in Nat /\ size \in Nat /\ e <= 1015 /\ 1 <= e /\ 1015 \in Nat /\ 1 \in Nat
  BY DEF Ems
<1>2. e * size <= 1015 * size /\ e * size \in Nat
  BY <1>1, Product
<1>3. 1 * size <= e * size
  BY <1>1, Product
<1> QED
  BY <1>1, <1>2, <1>3 DEF Wide

\* Products of natural numbers associate.
LEMMA Associates == ASSUME NEW a \in Nat, NEW b \in Nat, NEW c \in Nat PROVE a * b * c = a * (b * c)
OBVIOUS

\* So many characters of a word are in piece k of it, when q fit a column.
(***************************************************************************)
(* Documents: words cut to the column                                      *)
(***************************************************************************)

\* The pieces of a word add up to it and each is narrow enough.
PieceSize(n, q, k) == IF k * q <= n THEN q ELSE n - (k - 1) * q

LEMMA PieceSizes ==
  ASSUME NEW n \in Nat, NEW q \in Nat, q > 0
  PROVE  /\ (n + q - 1) \div q \in Nat
         /\ \A k \in 1..((n + q - 1) \div q) : PieceSize(n, q, k) \in 0..q
<1>1. PICK m \in Nat : m = n + q - 1
  OBVIOUS
<1>2. PICK c \in Nat : c = m \div q /\ c * q <= m
  BY <1>1, Divided
<1>3. ASSUME NEW k \in 1..c PROVE PieceSize(n, q, k) \in 0..q
  <2>1. PICK j \in Nat : j = k /\ k <= c
    OBVIOUS
  <2>2. j * q <= c * q /\ j * q \in Nat
    BY <2>1, Product
  <2>3. PICK x \in Nat : x = j * q
    BY <2>2
  <2>4. (j - 1) * q = x - q
    BY <2>3
  <2>5. x <= m
    BY <1>2, <2>2, <2>3
  <2>6. PieceSize(n, q, k) = IF x <= n THEN q ELSE n - (x - q)
    BY <2>1, <2>3, <2>4 DEF PieceSize
  <2> QED
    BY <1>1, <2>5, <2>6
<1> QED
  BY <1>1, <1>2, <1>3

LEMMA PiecesFit ==
  ASSUME NEW w \in Word, NEW size \in 110..200, NEW max \in Nat, Wide <= max
  PROVE  /\ Pieces(w, size, max) \in Seq(Word)
         /\ \A i \in 1..Len(Pieces(w, size, max)) : Width(Pieces(w, size, max)[i], size) <= max
<1>1. PICK n \in Nat, e \in Ems, c0 \in STRING :
        w = [n |-> n, em |-> e, sym |-> c0] /\ w.n = n /\ w.em = e
  <2>1. w.n \in Nat /\ w.em \in Ems /\ w.sym \in STRING /\ w = [n |-> w.n, em |-> w.em, sym |-> w.sym]
    BY DEF Word
  <2> QED
    BY <2>1
<1>0. e \in Nat /\ size \in Nat /\ max \in Nat /\ Wide \in Nat
  BY DEF Wide, Ems
<1>2. PICK u \in Nat : u = e * size /\ u > 0 /\ u <= Wide
  BY UnitBounds
<1>3. PICK q \in Nat : q = max \div u /\ q > 0 /\ q * u <= max
  <2>1. u <= max
    BY <1>0, <1>2
  <2> QED
    BY <1>2, <2>1, Divided
<1>4. ASSUME NEW m \in Nat
      PROVE  /\ [w EXCEPT !.n = m] \in Word /\ Width([w EXCEPT !.n = m], size) = m * u
  <2>1. [w EXCEPT !.n = m] = [n |-> m, em |-> e, sym |-> c0]
    BY <1>1
  <2>2. Width([w EXCEPT !.n = m], size) = m * e * size
    BY <2>1 DEF Width
  <2>3. m * e * size = m * (e * size)
    BY <1>0, Associates
  <2> QED
    BY <1>2, <2>1, <2>2, <2>3 DEF Word
<1>5. CASE Width(w, size) <= max
  <2>1. Pieces(w, size, max) = <<w>>
    BY <1>5 DEF Pieces
  <2> QED
    BY <1>5, <2>1
<1>6. CASE ~(Width(w, size) <= max)
  <2>1. PICK c \in Nat : c = (n + q - 1) \div q /\ \A k \in 1..c : PieceSize(n, q, k) \in 0..q
    BY <1>3, PieceSizes
  <2> DEFINE g == [k \in 1..c |-> [w EXCEPT !.n = PieceSize(n, q, k)]]
  <2>2. Pieces(w, size, max) = g
    <3>1. max \div (w.em * size) = q /\ q # 0
      BY <1>1, <1>2, <1>3
    <3>2. Pieces(w, size, max) = [k \in 1..((w.n + q - 1) \div q) |->
                 [w EXCEPT !.n = IF k * q <= w.n THEN q ELSE w.n - (k - 1) * q]]
      BY <1>6, <3>1 DEF Pieces
    <3> QED
      BY <1>1, <2>1, <3>2 DEF PieceSize
  <2>3. ASSUME NEW k \in 1..c PROVE g[k] \in Word /\ Width(g[k], size) <= max
    <3>1. PICK m \in Nat : m = PieceSize(n, q, k) /\ m <= q
      BY <2>1
    <3>2. g[k] = [w EXCEPT !.n = m]
      BY <3>1
    <3>3. m * u <= q * u /\ m * u \in Nat
      BY <3>1, Product
    <3>4. PICK x \in Nat, y \in Nat : x = m * u /\ y = q * u
      BY <3>3
    <3>5. Width(g[k], size) = x /\ g[k] \in Word
      BY <1>4, <3>2, <3>4
    <3> HIDE DEF g
    <3> QED
      BY <1>3, <3>3, <3>4, <3>5
  <2>4. g \in [1..c -> Word]
    BY <2>3
  <2>5. g \in Seq(Word) /\ Len(g) = c
    BY <2>4, IsSeq
  <2> HIDE DEF g
  <2> QED
    BY <2>2, <2>3, <2>5
<1> QED
  BY <1>5, <1>6

\* g adds up the words of a line, as LineWidth does.
(***************************************************************************)
(* Documents: lines                                                        *)
(***************************************************************************)

\* The values of the recursive functions of LineWidth and WrapWords.
Sums(g, n, line, size) ==
    g = [k \in 0..n |-> IF k = 0 THEN 0 ELSE g[k - 1] + Width(line[k], size)]

LEMMA SumsExists ==
  ASSUME NEW n \in Nat, NEW line, NEW size
  PROVE  \E g : Sums(g, n, line, size)
<1> DEFINE Ok(g, m) == Sums(g, m, line, size)
           More(acc, k) == acc + Width(line[k], size)
           Bad == {m \in Nat : ~\E g : Ok(g, m)}
<1>0. \A g, m : Ok(g, m) <=> g = [k \in 0..m |-> IF k = 0 THEN 0 ELSE More(g[k - 1], k)]
  BY DEF Sums
<1> HIDE DEF Ok, More
<1>1. SUFFICES ASSUME Bad # {} PROVE FALSE
  BY DEF Ok
<1>2. PICK b \in Bad : \A m \in Bad : b <= m
  <2>1. Bad \subseteq Nat
    OBVIOUS
  <2> HIDE DEF Bad
  <2> QED
    BY <1>1, <2>1, LeastOf
<1>3. b # 0
  <2> DEFINE z == [k \in 0..0 |-> 0]
  <2>1. z = [k \in 0..0 |-> IF k = 0 THEN 0 ELSE More(z[k - 1], k)]
    OBVIOUS
  <2>2. Ok(z, 0)
    BY <1>0, <2>1
  <2> QED
    BY <2>2
<1>4. b \in Nat \ {0} /\ b - 1 \in Nat /\ ~(b <= b - 1)
  BY <1>3
<1>5. PICK g : Ok(g, b - 1)
  BY <1>2, <1>4
<1> DEFINE h == [k \in 0..b |-> IF k = b THEN More(g[b - 1], b) ELSE g[k]]
<1>6. ASSUME NEW k \in 0..b
      PROVE  h[k] = IF k = 0 THEN 0 ELSE More(h[k - 1], k)
  <2>1. CASE k = b
    <3>1. h[k] = More(g[b - 1], b) /\ h[k - 1] = g[b - 1]
      BY <2>1, <1>4
    <3> QED
      BY <2>1, <1>4, <3>1
  <2>2. CASE k # b
    <3>1. k \in 0..(b - 1)
      BY <2>2, <1>4
    <3>2. g[k] = IF k = 0 THEN 0 ELSE More(g[k - 1], k)
      BY <1>0, <1>5, <3>1
    <3>3. h[k] = g[k] /\ (k # 0 => h[k - 1] = g[k - 1])
      BY <2>2, <3>1, <1>4
    <3> QED
      BY <3>2, <3>3
  <2> QED
    BY <2>1, <2>2
<1>7. h = [k \in 0..b |-> h[k]]
  OBVIOUS
<1> HIDE DEF h
<1>8. Ok(h, b)
  BY <1>0, <1>6, <1>7
<1> QED
  BY <1>8

\* g fills lines with words, as WrapWords does.
Fills(g, n, words, size, max) ==
    g = [k \in 0..n |-> IF k = 0 THEN NoWords ELSE TakeWord(g[k - 1], words[k], size, max)]

LEMMA FillsExists ==
  ASSUME NEW n \in Nat, NEW words, NEW size, NEW max
  PROVE  \E g : Fills(g, n, words, size, max)
<1> DEFINE Ok(g, m) == Fills(g, m, words, size, max)
           More(acc, k) == TakeWord(acc, words[k], size, max)
           Bad == {m \in Nat : ~\E g : Ok(g, m)}
<1>0. \A g, m : Ok(g, m) <=> g = [k \in 0..m |-> IF k = 0 THEN NoWords ELSE More(g[k - 1], k)]
  BY DEF Fills
<1> HIDE DEF Ok, More
<1>1. SUFFICES ASSUME Bad # {} PROVE FALSE
  BY DEF Ok
<1>2. PICK b \in Bad : \A m \in Bad : b <= m
  <2>1. Bad \subseteq Nat
    OBVIOUS
  <2> HIDE DEF Bad
  <2> QED
    BY <1>1, <2>1, LeastOf
<1>3. b # 0
  <2> DEFINE z == [k \in 0..0 |-> NoWords]
  <2>1. z = [k \in 0..0 |-> IF k = 0 THEN NoWords ELSE More(z[k - 1], k)]
    OBVIOUS
  <2>2. Ok(z, 0)
    BY <1>0, <2>1
  <2> QED
    BY <2>2
<1>4. b \in Nat \ {0} /\ b - 1 \in Nat /\ ~(b <= b - 1)
  BY <1>3
<1>5. PICK g : Ok(g, b - 1)
  BY <1>2, <1>4
<1> DEFINE h == [k \in 0..b |-> IF k = b THEN More(g[b - 1], b) ELSE g[k]]
<1>6. ASSUME NEW k \in 0..b
      PROVE  h[k] = IF k = 0 THEN NoWords ELSE More(h[k - 1], k)
  <2>1. CASE k = b
    <3>1. h[k] = More(g[b - 1], b) /\ h[k - 1] = g[b - 1]
      BY <2>1, <1>4
    <3> QED
      BY <2>1, <1>4, <3>1
  <2>2. CASE k # b
    <3>1. k \in 0..(b - 1)
      BY <2>2, <1>4
    <3>2. g[k] = IF k = 0 THEN NoWords ELSE More(g[k - 1], k)
      BY <1>0, <1>5, <3>1
    <3>3. h[k] = g[k] /\ (k # 0 => h[k - 1] = g[k - 1])
      BY <2>2, <3>1, <1>4
    <3> QED
      BY <3>2, <3>3
  <2> QED
    BY <2>1, <2>2
<1>7. h = [k \in 0..b |-> h[k]]
  OBVIOUS
<1> HIDE DEF h
<1>8. Ok(h, b)
  BY <1>0, <1>6, <1>7
<1> QED
  BY <1>8

LEMMA WidthIs ==
  ASSUME NEW w \in Word, NEW size \in Nat
  PROVE  Width(w, size) \in Nat
<1>1. PICK n \in Nat, e \in Nat : n = w.n /\ e = w.em
  BY DEF Word, Ems
<1>2. n * e \in Nat /\ n * e * size \in Nat
  OBVIOUS
<1> QED
  BY <1>1, <1>2 DEF Width

LEMMA LineSums ==
  ASSUME NEW line, NEW size, Len(line) \in Nat
  PROVE  \E g : /\ Sums(g, Len(line), line, size)
                /\ LineWidth(line, size) =
                     g[Len(line)] + (IF line = <<>> THEN 0 ELSE (Len(line) - 1) * Space1 * size)
<1> DEFINE g == CHOOSE f : Sums(f, Len(line), line, size)
<1>1. Sums(g, Len(line), line, size)
  BY SumsExists
<1>2. LineWidth(line, size) =
                     g[Len(line)] + (IF line = <<>> THEN 0 ELSE (Len(line) - 1) * Space1 * size)
  BY DEF LineWidth, Sums
<1> QED
  BY <1>1, <1>2

\* Two lines that agree up to n add up to the same there.
LEMMA SumsAgree ==
  ASSUME NEW n \in Nat, NEW m \in Nat, n <= m, NEW p \in Seq(Word), NEW q \in Seq(Word),
         NEW size \in Nat, NEW g, NEW h, Sums(g, n, p, size), Sums(h, m, q, size),
         n <= Len(p), \A k \in 1..n : p[k] = q[k]
  PROVE  g[n] = h[n] /\ g[n] \in Nat
<1> DEFINE Bad == {k \in 0..n : ~(g[k] = h[k] /\ g[k] \in Nat)}
<1>1. ASSUME Bad # {} PROVE FALSE
  <2>1. Bad \subseteq Nat
    OBVIOUS
  <2>2. PICK b \in Bad : \A k \in Bad : b <= k
    <3> HIDE DEF Bad
    <3> QED
      BY <1>1, <2>1, LeastOf
  <2>3. /\ \A k \in 0..n : g[k] = IF k = 0 THEN 0 ELSE g[k - 1] + Width(p[k], size)
        /\ \A k \in 0..m : h[k] = IF k = 0 THEN 0 ELSE h[k - 1] + Width(q[k], size)
    BY DEF Sums
  <2>4. b # 0
    BY <2>3
  <2>5. b \in 1..n /\ b - 1 \in 0..n /\ ~(b <= b - 1) /\ b \in 0..m
    BY <2>4
  <2>6. g[b - 1] = h[b - 1] /\ g[b - 1] \in Nat
    BY <2>2, <2>5
  <2>7. p[b] \in Word /\ p[b] = q[b]
    BY <2>5
  <2>8. Width(p[b], size) \in Nat
    BY <2>7, WidthIs
  <2>9. g[b] = g[b - 1] + Width(p[b], size) /\ h[b] = h[b - 1] + Width(q[b], size)
    BY <2>3, <2>5
  <2> QED
    BY <2>2, <2>6, <2>7, <2>8, <2>9
<1>2. n \in 0..n
  OBVIOUS
<1> QED
  BY <1>1, <1>2

\* What a word adds to a line.
LEMMA LineWidthAppend ==
  ASSUME NEW line \in Seq(Word), NEW w \in Word, NEW size \in Nat
  PROVE  /\ LineWidth(line, size) \in Nat
         /\ line = <<>> => LineWidth(line, size) = 0
         /\ LineWidth(Append(line, w), size) =
              LineWidth(line, size) + Width(w, size) + (IF line = <<>> THEN 0 ELSE Space1 * size)
<1> DEFINE more == Append(line, w)
<1>1. PICK n \in Nat : n = Len(line)
  OBVIOUS
<1>2. more \in Seq(Word) /\ Len(more) = n + 1 /\ more[n + 1] = w /\ \A k \in 1..n : more[k] = line[k]
  BY <1>1
<1>3. PICK g : Sums(g, n, line, size)
               /\ LineWidth(line, size) = g[n] + (IF line = <<>> THEN 0 ELSE (n - 1) * Space1 * size)
  BY <1>1, LineSums
<1>4. PICK h : Sums(h, n + 1, more, size)
               /\ LineWidth(more, size) = h[n + 1] + (IF more = <<>> THEN 0 ELSE (n + 1 - 1) * Space1 * size)
  <2> HIDE DEF more
  <2>1. n + 1 \in Nat /\ Len(more) = n + 1
    BY <1>2
  <2> QED
    BY <2>1, LineSums
<1>5. more # <<>> /\ (line = <<>> <=> n = 0)
  BY <1>1, <1>2
<1> HIDE DEF more
<1>6. g[n] = h[n] /\ g[n] \in Nat
  BY <1>1, <1>2, <1>3, <1>4, SumsAgree
<1>7. h[n + 1] = h[n] + Width(w, size)
  <2>1. n + 1 \in 0..(n + 1) /\ n + 1 # 0 /\ (n + 1) - 1 = n
    OBVIOUS
  <2> QED
    BY <1>2, <1>4, <2>1 DEF Sums
<1>8. Width(w, size) \in Nat
  BY WidthIs
<1>9. n = 0 => g[n] = 0
  BY <1>3 DEF Sums
<1>10. PICK sp \in Nat : sp = Space1 * size
  BY DEF Space1
<1>11. (n + 1 - 1) * Space1 * size = n * sp /\ n * sp \in Nat
       /\ (n # 0 => /\ (n - 1) * Space1 * size = (n - 1) * sp
                     /\ (n - 1) * sp = n * sp - sp /\ (n - 1) * sp \in Nat)
  <2>1. Space1 \in Nat
    BY DEF Space1
  <2>2. n * Space1 * size = n * sp
    BY <1>10, <2>1, Associates
  <2>3. ASSUME n # 0
        PROVE  /\ (n - 1) * Space1 * size = (n - 1) * sp
               /\ (n - 1) * sp = n * sp - sp /\ (n - 1) * sp \in Nat
    <3>1. PICK j \in Nat : j = n - 1 /\ n = j + 1
      BY <2>3
    <3>2. j * Space1 * size = j * sp
      BY <1>10, <2>1, Associates
    <3>3. j * sp = n * sp - sp /\ j * sp \in Nat
      BY <3>1
    <3> QED
      BY <3>1, <3>2, <3>3
  <2>4. n * sp \in Nat /\ n + 1 - 1 = n
    OBVIOUS
  <2> QED
    BY <2>2, <2>3, <2>4
<1>12. PICK x \in Nat : x = n * sp
  BY <1>11
<1>13. CASE n = 0
  BY <1>3, <1>4, <1>5, <1>6, <1>7, <1>8, <1>9, <1>10, <1>11, <1>12, <1>13 DEF more
<1>14. CASE n # 0
  <2>1. LineWidth(line, size) = g[n] + (x - sp) /\ x - sp \in Nat
    BY <1>3, <1>5, <1>11, <1>12, <1>14
  <2>2. LineWidth(more, size) = g[n] + Width(w, size) + x
    BY <1>4, <1>5, <1>6, <1>7, <1>11, <1>12
  <2>3. LineWidth(more, size) = LineWidth(line, size) + Width(w, size) + sp
    <3>1. PICK a \in Nat, b \in Nat : a = g[n] /\ b = Width(w, size)
      BY <1>6, <1>8
    <3>2. x - sp \in Int /\ x \in Int /\ sp \in Int /\ a + b + x = (a + (x - sp)) + b + sp
      OBVIOUS
    <3>3. LineWidth(line, size) = a + (x - sp) /\ LineWidth(more, size) = a + b + x
      BY <2>1, <2>2, <3>1
    <3> QED
      BY <3>1, <3>2, <3>3
  <2>4. LineWidth(line, size) \in Nat
    BY <1>6, <2>1
  <2> QED
    BY <1>5, <1>10, <1>14, <2>3, <2>4 DEF more
<1> QED
  BY <1>13, <1>14

\* Joining the same sequences step by step gives the same sequence.
JoinSteps(g, v, n) == g[1] = v[1] /\ \A k \in 2..n : g[k] = g[k - 1] \o v[k]
SameUpTo(v, u, n)  == \A k \in 1..n : v[k] = u[k]

\* Steps that join the same members agree.
LEMMA JoinsAgree ==
  ASSUME NEW n \in Nat \ {0}, NEW v, NEW u, NEW g, NEW h, JoinSteps(g, v, n), JoinSteps(h, u, n),
         SameUpTo(v, u, n)
  PROVE  g[n] = h[n]
<1> USE DEF JoinSteps, SameUpTo
<1> DEFINE Bad == {k \in 1..n : g[k] # h[k]}
<1>1. ASSUME Bad # {} PROVE FALSE
  <2>1. Bad \subseteq Nat
    OBVIOUS
  <2>2. PICK b \in Bad : \A k \in Bad : b <= k
    <3> HIDE DEF Bad
    <3> QED
      BY <1>1, <2>1, LeastOf
  <2>3. b # 1
    <3>1. 1 \in 1..n
      OBVIOUS
    <3> QED
      BY <3>1
  <2>4. b \in 2..n /\ b - 1 \in 1..n /\ ~(b <= b - 1)
    BY <2>3
  <2>5. g[b - 1] = h[b - 1]
    BY <2>2, <2>4
  <2>6. v[b] = u[b]
    OBVIOUS
  <2>7. g[b] = g[b - 1] \o v[b] /\ h[b] = h[b - 1] \o u[b]
    BY <2>4
  <2> QED
    BY <2>5, <2>6, <2>7
<1>2. n \in 1..n
  OBVIOUS
<1> QED
  BY <1>1, <1>2

LEMMA SeqIsFunction ==
  ASSUME NEW R, NEW q \in Seq(R), NEW n \in Nat, Len(q) = n
  PROVE  q \in [1..n -> R] /\ (n = 0 => q = <<>>)
OBVIOUS

\* What joining does to a sequence of none, and when one is added.
LEMMA FlattenEmpty == FlattenSeq(<<>>) = <<>>
  BY DEF FlattenSeq

LEMMA FlattenAppend ==
  ASSUME NEW S, NEW v \in Seq(Seq(S)), NEW q \in Seq(S)
  PROVE  /\ FlattenSeq(v) \in Seq(S)
         /\ FlattenSeq(Append(v, q)) = FlattenSeq(v) \o q
<1>1. PICK n \in Nat : n = Len(v)
  OBVIOUS
<1>2. v \in [1..n -> Seq(S)]
  BY <1>1
<1>3. FlattenSeq(v) \in Seq(S)
  BY <1>2, FlattenIsSeq
<1>4. PICK more \in [1..(n + 1) -> Seq(S)] :
        more = Append(v, q) /\ more[n + 1] = q /\ \A k \in 1..n : more[k] = v[k]
  <2>0. Append(v, q) \in Seq(Seq(S)) /\ Len(Append(v, q)) = n + 1 /\ n + 1 \in Nat
    BY <1>1
  <2>1. Append(v, q) \in [1..(n + 1) -> Seq(S)]
    BY <2>0, SeqIsFunction
  <2>2. Append(v, q)[n + 1] = q /\ \A k \in 1..n : Append(v, q)[k] = v[k]
    BY <1>1
  <2> QED
    BY <2>1, <2>2
<1>5. n + 1 \in Nat \ {0}
  OBVIOUS
<1>6. PICK h : /\ h[1] = more[1] /\ FlattenSeq(more) = h[n + 1]
               /\ \A k \in 2..(n + 1) : h[k] = h[k - 1] \o more[k]
  BY <1>5, FlattenSteps
<1>7. CASE n = 0
  <2>1. FlattenSeq(more) = q
    BY <1>4, <1>6, <1>7
  <2>2. v = <<>>
    BY <1>1, <1>7, SeqIsFunction
  <2>3. <<>> \o q = q
    OBVIOUS
  <2> QED
    BY <1>3, <1>4, <2>1, <2>2, <2>3, FlattenEmpty
<1>8. CASE n # 0
  <2>1. n \in Nat \ {0}
    BY <1>8
  <2>2. PICK g : /\ g[1] = v[1] /\ FlattenSeq(v) = g[n]
                 /\ \A k \in 2..n : g[k] = g[k - 1] \o v[k]
    BY <1>2, <2>1, FlattenSteps
  <2>3. h[1] = more[1] /\ \A k \in 2..n : h[k] = h[k - 1] \o more[k]
    <3>1. \A k \in 2..n : k \in 2..(n + 1)
      OBVIOUS
    <3> QED
      BY <1>6, <3>1
  <2>4. g[n] = h[n]
    <3>1. SameUpTo(v, more, n)
      BY <1>4 DEF SameUpTo
    <3>2. JoinSteps(g, v, n) /\ JoinSteps(h, more, n)
      BY <2>2, <2>3 DEF JoinSteps
    <3> QED
      BY <2>1, <3>1, <3>2, JoinsAgree
  <2>5. n + 1 \in 2..(n + 1) /\ (n + 1) - 1 = n
    BY <1>8
  <2>6. h[n + 1] = h[n] \o q
    BY <1>4, <1>6, <2>5
  <2> QED
    BY <1>3, <1>4, <1>6, <2>2, <2>4, <2>6
<1> QED
  BY <1>7, <1>8

\* An equation of sequences the provers take as it is.
Same(x, y) == x = y

LEMMA Regroups ==
  ASSUME NEW S, NEW a \in Seq(S), NEW b \in Seq(S), NEW c \in Seq(S)
  PROVE  Same((a \o b) \o c, a \o (b \o c))
<1>1. PICK x, y : x = (a \o b) \o c /\ y = a \o (b \o c)
  OBVIOUS
<1>2. x = y
  BY <1>1, ConcatAssociative
<1> QED
  BY <1>1, <1>2 DEF Same

\* The first sequence comes first.
LEMMA FlattenHead ==
  ASSUME NEW S, NEW v \in Seq(Seq(S)), v # <<>>
  PROVE  /\ Head(v) \in Seq(S) /\ Tail(v) \in Seq(Seq(S)) /\ FlattenSeq(Tail(v)) \in Seq(S)
         /\ FlattenSeq(v) = Head(v) \o FlattenSeq(Tail(v))
<1>1. PICK n \in Nat : n + 1 = Len(v)
  <2>1. Len(v) \in Nat /\ Len(v) # 0
    OBVIOUS
  <2>2. Len(v) - 1 \in Nat /\ (Len(v) - 1) + 1 = Len(v)
    BY <2>1
  <2> QED
    BY <2>2
<1>2. v \in [1..(n + 1) -> Seq(S)] /\ n + 1 \in Nat \ {0}
  BY <1>1
<1>3. PICK tl \in [1..n -> Seq(S)] : tl = Tail(v) /\ \A k \in 1..n : tl[k] = v[k + 1]
  <2>0. Tail(v) \in Seq(Seq(S)) /\ Len(Tail(v)) = n
    BY <1>1
  <2>1. Tail(v) \in [1..n -> Seq(S)]
    BY <2>0, SeqIsFunction
  <2>2. \A k \in 1..n : Tail(v)[k] = v[k + 1]
    BY <1>1
  <2> QED
    BY <2>1, <2>2
<1>4. PICK hd \in Seq(S) : hd = Head(v) /\ hd = v[1]
  BY <1>2
<1>5. Tail(v) \in Seq(Seq(S))
  OBVIOUS
<1>6. FlattenSeq(tl) \in Seq(S)
  BY FlattenIsSeq
<1>7. PICK g : /\ g[1] = v[1] /\ FlattenSeq(v) = g[n + 1]
               /\ \A k \in 2..(n + 1) : g[k] = g[k - 1] \o v[k]
  BY <1>2, FlattenSteps
<1>8. CASE n = 0
  <2>1. FlattenSeq(v) = hd
    BY <1>4, <1>7, <1>8
  <2>2. Tail(v) = <<>>
    <3>1. Tail(v) \in Seq(Seq(S)) /\ Len(Tail(v)) = 0
      BY <1>1, <1>8
    <3> QED
      BY <3>1, SeqIsFunction
  <2>3. hd \o <<>> = hd
    OBVIOUS
  <2> QED
    BY <1>3, <1>4, <1>5, <1>6, <2>1, <2>2, <2>3, FlattenEmpty
<1>9. CASE n # 0
  <2>0. n \in Nat \ {0}
    BY <1>9
  <2>1. PICK h : /\ h[1] = tl[1] /\ FlattenSeq(tl) = h[n]
                 /\ \A k \in 2..n : h[k] = h[k - 1] \o tl[k]
    BY <2>0, FlattenSteps
  <2> DEFINE Bad == {k \in 1..n : ~(h[k] \in Seq(S) /\ g[k + 1] = hd \o h[k])}
  <2>2. ASSUME Bad # {} PROVE FALSE
    <3>1. Bad \subseteq Nat
      OBVIOUS
    <3>2. PICK b \in Bad : \A k \in Bad : b <= k
      <4> HIDE DEF Bad
      <4> QED
        BY <2>2, <3>1, LeastOf
    <3>3. b # 1
      <4>1. 1 \in 1..n /\ 2 \in 2..(n + 1) /\ 2 - 1 = 1 /\ 1 + 1 = 2
        BY <1>9
      <4>2. g[2] = g[1] \o v[2] /\ h[1] = v[2] /\ h[1] \in Seq(S)
        BY <1>3, <1>7, <2>1, <4>1
      <4> QED
        BY <1>4, <1>7, <4>1, <4>2
    <3>4. b \in 2..n /\ b - 1 \in 1..n /\ ~(b <= b - 1) /\ (b - 1) + 1 = b /\ b \in 1..n
      BY <3>3
    <3>5. PICK x \in Seq(S), y \in Seq(S) : x = h[b - 1] /\ y = tl[b] /\ g[b] = hd \o x
      BY <3>2, <3>4
    <3>6. h[b] = x \o y
      BY <2>1, <3>4, <3>5
    <3>7. g[b + 1] = g[b] \o y
      <4>1. b + 1 \in 2..(n + 1) /\ (b + 1) - 1 = b
        BY <3>4
      <4>2. tl[b] = v[b + 1]
        BY <1>3, <3>4
      <4> QED
        BY <1>7, <3>5, <4>1, <4>2
    <3>8. Same((hd \o x) \o y, hd \o (x \o y))
      BY Regroups
    <3>9. x \o y \in Seq(S)
      OBVIOUS
    <3> QED
      BY <3>2, <3>5, <3>6, <3>7, <3>8, <3>9 DEF Same
  <2>3. n \in 1..n
    BY <1>9
  <2>4. g[n + 1] = hd \o h[n]
    BY <2>2, <2>3
  <2> QED
    BY <1>3, <1>4, <1>5, <1>6, <1>7, <2>1, <2>4
<1> QED
  BY <1>8, <1>9

\* The words no wider than the column.
Narrow(size, max) == {w \in Word : Width(w, size) <= max}

\* What an accumulator of WrapWords holds after k words: those words, in order,
\* and no line wider than the column.
FitsColumn(lines, size, max) == \A i \in 1..Len(lines) : LineWidth(lines[i], size) <= max
Filled(acc, k, words, size, max) ==
    /\ acc = [lines |-> acc.lines, cur |-> acc.cur, w |-> acc.w]
    /\ acc.lines \in Seq(Seq(Word)) /\ acc.cur \in Seq(Word)
    /\ acc.w = LineWidth(acc.cur, size) /\ acc.w <= max
    /\ FitsColumn(acc.lines, size, max)
    /\ Same(FlattenSeq(acc.lines) \o acc.cur, SubSeq(words, 1, k))
    /\ acc.cur = <<>> => k = 0

\* The first words of a sequence.
LEMMA FirstIs ==
  ASSUME NEW S, NEW q \in Seq(S), NEW k \in 0..Len(q)
  PROVE  /\ SubSeq(q, 1, k) \in Seq(S) /\ Len(SubSeq(q, 1, k)) = k
         /\ \A j \in 1..k : SubSeq(q, 1, k)[j] = q[j]
<1>1. PICK one \in Nat, none \in Nat : one = 1 /\ none = 0 /\ none + 1 = one /\ k - none = k
                                     /\ \A j \in 1..k : none + j = j
  OBVIOUS
<1>2. k \in Nat /\ none <= k /\ k <= Len(q)
  BY <1>1
<1>3. /\ SubSeq(q, none + 1, k) \in Seq(S) /\ Len(SubSeq(q, none + 1, k)) = k - none
      /\ \A j \in 1..(k - none) : SubSeq(q, none + 1, k)[j] = q[none + j]
  BY <1>2, SubSeqIs
<1> QED
  BY <1>1, <1>3

LEMMA OneMore ==
  ASSUME NEW S, NEW q \in Seq(S), NEW x \in S
  PROVE  /\ <<x>> \in Seq(S) /\ Append(q, x) \in Seq(S) /\ <<x>> # <<>> /\ Append(q, x) # <<>>
         /\ Same(Append(q, x), q \o <<x>>)
<1>1. <<x>> \in Seq(S) /\ <<x>> # <<>>
  OBVIOUS
<1>2. Append(q, x) \in Seq(S) /\ Append(q, x) # <<>>
  <2>1. Append(q, x) \in Seq(S) /\ Len(Append(q, x)) = Len(q) + 1 /\ Len(q) \in Nat
    OBVIOUS
  <2>2. Len(<<>>) = 0
    OBVIOUS
  <2> QED
    BY <2>1, <2>2
<1>3. Same(Append(q, x), q \o <<x>>)
  BY AppendIsConcat DEF Same
<1> QED
  BY <1>1, <1>2, <1>3

LEMMA AloneIs == ASSUME NEW x PROVE Same(Append(<<>>, x), <<x>>)
  BY DEF Same

LEMMA FirstOf ==
  ASSUME NEW S, NEW q \in Seq(S), NEW k \in 0..Len(q)
  PROVE  /\ SubSeq(q, 1, k) \in Seq(S)
         /\ k < Len(q) => Same(SubSeq(q, 1, k + 1), SubSeq(q, 1, k) \o <<q[k + 1]>>)
<1> DEFINE a == SubSeq(q, 1, k)
<1>1. a \in Seq(S) /\ Len(a) = k /\ \A j \in 1..k : a[j] = q[j]
  BY FirstIs
<1> HIDE DEF a
<1>2. ASSUME k < Len(q) PROVE Same(SubSeq(q, 1, k + 1), a \o <<q[k + 1]>>)
  <2> DEFINE b == SubSeq(q, 1, k + 1)
  <2>1. b \in Seq(S) /\ Len(b) = k + 1 /\ \A j \in 1..(k + 1) : b[j] = q[j]
    <3>1. k + 1 \in 0..Len(q)
      BY <1>2
    <3> QED
      BY <3>1, FirstIs
  <2> HIDE DEF b
  <2>2. PICK x \in S : x = q[k + 1]
    BY <1>2
  <2> DEFINE c == Append(a, x)
  <2>3. c \in Seq(S)
    BY <1>1
  <2>4. Len(c) = k + 1 /\ c[k + 1] = x /\ \A j \in 1..k : c[j] = a[j]
    BY <1>1
  <2> HIDE DEF c
  <2>5. \A j \in 1..(k + 1) : c[j] = b[j]
    <3>1. ASSUME NEW j \in 1..(k + 1) PROVE c[j] = b[j]
      <4>1. CASE j = k + 1
        BY <2>1, <2>2, <2>4, <4>1
      <4>2. CASE j # k + 1
        <5>1. j \in 1..k
          BY <4>2
        <5> QED
          BY <1>1, <2>1, <2>4, <5>1
      <4> QED
        BY <4>1, <4>2
    <3> QED
      BY <3>1
  <2>6. b = c
    BY <2>1, <2>3, <2>4, <2>5, SeqEqual
  <2>7. Same(c, a \o <<x>>)
    BY <1>1, OneMore DEF c
  <2> QED
    BY <2>2, <2>6, <2>7 DEF Same, b
<1> QED
  BY <1>1, <1>2 DEF a

LEMMA FitsAppend ==
  ASSUME NEW ls \in Seq(Seq(Word)), NEW cur \in Seq(Word), NEW size, NEW max,
         FitsColumn(ls, size, max), LineWidth(cur, size) <= max
  PROVE  Append(ls, cur) \in Seq(Seq(Word)) /\ FitsColumn(Append(ls, cur), size, max)
<1>1. PICK n \in Nat : n = Len(ls)
  OBVIOUS
<1>2. /\ Len(Append(ls, cur)) = n + 1 /\ Append(ls, cur)[n + 1] = cur
      /\ \A i \in 1..n : Append(ls, cur)[i] = ls[i]
  BY <1>1
<1>3. \A i \in 1..(n + 1) : i = n + 1 \/ i \in 1..n
  OBVIOUS
<1>4. FitsColumn(Append(ls, cur), size, max)
  BY <1>1, <1>2, <1>3 DEF FitsColumn
<1>5. Append(ls, cur) \in Seq(Seq(Word))
  OBVIOUS
<1> QED
  BY <1>4, <1>5

\* One more word keeps the words so far in order and the lines in the column.
LEMMA TakeWordKeeps ==
  ASSUME NEW words \in Seq(Word), NEW size \in Nat, NEW max \in Nat, NEW k \in 0..Len(words), k < Len(words),
         NEW acc, Filled(acc, k, words, size, max), NEW word \in Narrow(size, max), word = words[k + 1]
  PROVE  Filled(TakeWord(acc, word, size, max), k + 1, words, size, max)
<1>1. PICK ls \in Seq(Seq(Word)), cur \in Seq(Word), wd \in Nat :
        /\ acc = [lines |-> ls, cur |-> cur, w |-> wd] /\ acc.lines = ls /\ acc.cur = cur /\ acc.w = wd
        /\ wd = LineWidth(cur, size) /\ wd <= max /\ FitsColumn(ls, size, max)
        /\ Same(FlattenSeq(ls) \o cur, SubSeq(words, 1, k))
  <2>1. LineWidth(acc.cur, size) \in Nat
    <3>1. PICK w0 \in Word, c0 \in Seq(Word) : w0 = word /\ c0 = acc.cur
      BY DEF Narrow, Filled
    <3> QED
      BY <3>1, LineWidthAppend
  <2> QED
    BY <2>1 DEF Filled
<1>2. PICK a \in Nat, sp \in Nat : a = Width(word, size) /\ a <= max /\ sp = Space1 * size /\ word \in Word
  <2>1. word \in Word /\ Width(word, size) <= max
    BY DEF Narrow
  <2>2. Width(word, size) \in Nat
    BY <2>1, WidthIs
  <2>3. Space1 * size \in Nat
    BY DEF Space1
  <2> QED
    BY <2>1, <2>2, <2>3
<1>3. Same(SubSeq(words, 1, k + 1), SubSeq(words, 1, k) \o <<word>>)
  BY FirstOf
<1>4. PICK all \in Seq(Word) : all = FlattenSeq(ls)
  <2>1. <<>> \in Seq(Word)
    OBVIOUS
  <2> QED
    BY <2>1, FlattenAppend
<1>5. LineWidth(Append(cur, word), size) = wd + a + (IF cur = <<>> THEN 0 ELSE sp)
  <2>1. LineWidth(Append(cur, word), size) =
          LineWidth(cur, size) + Width(word, size) + (IF cur = <<>> THEN 0 ELSE Space1 * size)
    BY <1>2, LineWidthAppend
  <2> QED
    BY <1>1, <1>2, <2>1
<1>6. LineWidth(<<word>>, size) = a
  <2>0. <<>> \in Seq(Word)
    BY EmptySeq
  <2>1. PICK e \in Seq(Word) : e = <<>>
    BY <2>0
  <2>2. /\ LineWidth(e, size) = 0
        /\ LineWidth(Append(e, word), size) = LineWidth(e, size) + Width(word, size) + 0
    BY <1>2, <2>1, LineWidthAppend
  <2>3. Append(e, word) = <<word>>
    BY <2>1, AloneIs DEF Same
  <2> QED
    BY <1>2, <2>2, <2>3
<1>7. <<word>> \in Seq(Word) /\ <<word>> # <<>> /\ Append(cur, word) \in Seq(Word) /\ Append(cur, word) # <<>>
      /\ Same(Append(cur, word), cur \o <<word>>)
  BY <1>2, OneMore
<1> DEFINE add == a + (IF cur = <<>> THEN 0 ELSE sp)
<1>8. CASE cur # <<>> /\ wd + add > max
  <2>1. TakeWord(acc, word, size, max) = [lines |-> Append(ls, cur), cur |-> <<word>>, w |-> a]
    BY <1>1, <1>2, <1>8 DEF TakeWord
  <2>2. PICK new : new = TakeWord(acc, word, size, max)
                   /\ new = [lines |-> Append(ls, cur), cur |-> <<word>>, w |-> a]
    BY <2>1
  <2>3. Append(ls, cur) \in Seq(Seq(Word)) /\ FitsColumn(Append(ls, cur), size, max)
    BY <1>1, FitsAppend
  <2>4. FlattenSeq(Append(ls, cur)) = all \o cur
    BY <1>4, FlattenAppend
  <2>5. Same(FlattenSeq(Append(ls, cur)) \o <<word>>, SubSeq(words, 1, k + 1))
    BY <1>1, <1>3, <1>4, <2>4 DEF Same
  <2>6. new.lines = Append(ls, cur) /\ new.cur = <<word>> /\ new.w = a
    BY <2>2
  <2> QED
    BY <1>2, <1>6, <1>7, <2>2, <2>3, <2>5, <2>6 DEF Filled
<1>9. CASE ~(cur # <<>> /\ wd + add > max)
  <2>1. TakeWord(acc, word, size, max) = [lines |-> ls, cur |-> Append(cur, word), w |-> wd + add]
    BY <1>1, <1>2, <1>9 DEF TakeWord
  <2>2. PICK new : new = TakeWord(acc, word, size, max)
                   /\ new = [lines |-> ls, cur |-> Append(cur, word), w |-> wd + add]
    BY <2>1
  <2>3. wd + add = LineWidth(Append(cur, word), size) /\ wd + add <= max
    <3>1. wd + add = wd + a + (IF cur = <<>> THEN 0 ELSE sp)
      OBVIOUS
    <3>2. cur = <<>> => wd = 0
      BY <1>1, <1>2, LineWidthAppend
    <3>3. wd + add <= max
      BY <1>2, <1>9, <3>2
    <3> QED
      BY <1>5, <3>1, <3>3
  <2>4. Same((all \o cur) \o <<word>>, all \o (cur \o <<word>>))
    BY <1>7, Regroups
  <2>5. Same(FlattenSeq(ls) \o Append(cur, word), SubSeq(words, 1, k + 1))
    BY <1>1, <1>3, <1>4, <1>7, <2>4 DEF Same
  <2>6. new.lines = ls /\ new.cur = Append(cur, word) /\ new.w = wd + add
    BY <2>2
  <2> HIDE DEF add
  <2> QED
    BY <1>1, <1>7, <2>2, <2>3, <2>5, <2>6 DEF Filled
<1> QED
  BY <1>8, <1>9

LEMMA SomeWord == \E w \in Word : TRUE
<1>1. PICK c \in STRING : c \in Ascii
  BY FontAssumption
<1>2. [n |-> 0, em |-> 1, sym |-> c] \in Word
  BY DEF Word, Ems
<1> QED
  BY <1>2

LEMMA EmptyLine == ASSUME NEW size \in Nat PROVE LineWidth(<<>>, size) = 0
<1>1. PICK e \in Seq(Word), w \in Word : e = <<>>
  <2>1. <<>> \in Seq(Word)
    BY EmptySeq
  <2> QED
    BY <2>1, SomeWord
<1> QED
  BY <1>1, LineWidthAppend

LEMMA NoWordsFill ==
  ASSUME NEW words \in Seq(Word), NEW size \in Nat, NEW max \in Nat
  PROVE  Filled(NoWords, 0, words, size, max)
<1>1. PICK e : e = <<>>
  OBVIOUS
<1>2. e \in Seq(Seq(Word)) /\ e \in Seq(Word) /\ Len(e) = 0
  BY <1>1, EmptySeq
<1>3. FlattenSeq(e) = e /\ LineWidth(e, size) = 0
  BY <1>1, FlattenEmpty, EmptyLine
<1>4. SubSeq(words, 1, 0) = e
  <2>1. SubSeq(words, 1, 0) \in Seq(Word) /\ Len(SubSeq(words, 1, 0)) = 0
    BY FirstIs
  <2> QED
    BY <1>1, <2>1, SeqIsFunction
<1>5. e \o e = e
  BY <1>1
<1>6. FitsColumn(e, size, max)
  BY <1>2 DEF FitsColumn
<1>7. PICK z : z = NoWords /\ z = [lines |-> e, cur |-> e, w |-> 0]
  BY <1>1 DEF NoWords
<1>8. z.lines = e /\ z.cur = e /\ z.w = 0
  BY <1>7
<1>9. Same(FlattenSeq(e) \o e, SubSeq(words, 1, 0))
  BY <1>3, <1>4, <1>5 DEF Same
<1> QED
  BY <1>2, <1>3, <1>6, <1>7, <1>8, <1>9 DEF Filled

\* Wrapping loses no word and repeats none, and no line is wider than the column.
LEMMA WrapFits ==
  ASSUME NEW size \in Nat, NEW max \in Nat, NEW words \in Seq(Narrow(size, max))
  PROVE  /\ WrapWords(words, size, max) \in Seq(Seq(Word))
         /\ FitsColumn(WrapWords(words, size, max), size, max)
         /\ Same(FlattenSeq(WrapWords(words, size, max)), words)
<1>1. PICK n \in Nat : n = Len(words)
  OBVIOUS
<1>2. words \in Seq(Word) /\ \A k \in 1..n : words[k] \in Narrow(size, max)
  <2>1. \A k \in 1..n : words[k] \in Narrow(size, max)
    BY <1>1
  <2>2. \A k \in 1..n : words[k] \in Word
    BY <2>1 DEF Narrow
  <2>3. words \in [1..n -> Word]
    <3>1. words \in [1..n -> Narrow(size, max)]
      BY <1>1, SeqIsFunction
    <3> QED
      BY <2>2, <3>1
  <2> QED
    BY <2>1, <2>3, IsSeq
<1> DEFINE g == CHOOSE f : Fills(f, n, words, size, max)
<1>3. Fills(g, n, words, size, max)
  BY FillsExists
<1>4. WrapWords(words, size, max) = IF g[n].cur # <<>> THEN Append(g[n].lines, g[n].cur) ELSE <<<<>>>>
  BY <1>1 DEF WrapWords, Fills
<1> HIDE DEF g
<1>5. \A k \in 0..n : g[k] = IF k = 0 THEN NoWords ELSE TakeWord(g[k - 1], words[k], size, max)
  BY <1>3 DEF Fills
<1> DEFINE Bad == {k \in 0..n : ~Filled(g[k], k, words, size, max)}
<1>6. ASSUME Bad # {} PROVE FALSE
  <2>1. Bad \subseteq Nat
    OBVIOUS
  <2>2. PICK b \in Bad : \A k \in Bad : b <= k
    <3> HIDE DEF Bad
    <3> QED
      BY <1>6, <2>1, LeastOf
  <2>3. g[0] = NoWords
    BY <1>5
  <2>4. b # 0
    BY <1>2, <2>3, NoWordsFill
  <2>5. PICK j \in 0..n : j + 1 = b /\ j < n /\ b - 1 = j /\ ~(b <= j) /\ b \in 1..n
    <3>1. b - 1 \in 0..n /\ (b - 1) + 1 = b /\ b - 1 < n /\ ~(b <= b - 1) /\ b \in 1..n
      BY <2>4
    <3> QED
      BY <3>1
  <2>6. Filled(g[j], j, words, size, max)
    BY <2>2, <2>5
  <2>7. g[b] = TakeWord(g[j], words[b], size, max) /\ words[b] \in Narrow(size, max)
    BY <1>2, <1>5, <2>4, <2>5
  <2>8. PICK word \in Narrow(size, max) : word = words[j + 1]
    BY <2>5, <2>7
  <2>0. PICK acc : acc = g[j]
    OBVIOUS
  <2>9. Filled(TakeWord(acc, word, size, max), j + 1, words, size, max)
    BY <1>1, <1>2, <2>0, <2>5, <2>6, <2>8, TakeWordKeeps
  <2> QED
    BY <2>0, <2>2, <2>5, <2>7, <2>8, <2>9
<1>7. Filled(g[n], n, words, size, max)
  <2>1. n \in 0..n
    OBVIOUS
  <2> QED
    BY <1>6, <2>1
<1>8. SubSeq(words, 1, n) = words
  <2>1. /\ SubSeq(words, 1, n) \in Seq(Word) /\ Len(SubSeq(words, 1, n)) = n
        /\ \A j \in 1..n : SubSeq(words, 1, n)[j] = words[j]
    <3>1. n \in 0..Len(words)
      BY <1>1
    <3> QED
      BY <1>2, <3>1, FirstIs
  <2> QED
    BY <1>1, <1>2, <2>1, SeqEqual
<1>9. PICK ls \in Seq(Seq(Word)), cur \in Seq(Word) : ls = g[n].lines /\ cur = g[n].cur
  BY <1>7 DEF Filled
<1>10. LineWidth(cur, size) <= max /\ FitsColumn(ls, size, max) /\ (cur = <<>> => n = 0)
       /\ Same(FlattenSeq(ls) \o cur, words)
  BY <1>7, <1>8, <1>9 DEF Filled
<1>11. CASE cur # <<>>
  <2>1. WrapWords(words, size, max) = Append(ls, cur)
    BY <1>4, <1>9, <1>11
  <2>2. FlattenSeq(Append(ls, cur)) = FlattenSeq(ls) \o cur
    BY FlattenAppend
  <2> QED
    BY <1>10, <2>1, <2>2, FitsAppend DEF Same
<1>12. CASE cur = <<>>
  <2>1. words = <<>>
    BY <1>1, <1>2, <1>10, <1>12, SeqIsFunction
  <2>2. PICK e : e = <<>> /\ e \in Seq(Seq(Word)) /\ e \in Seq(Word) /\ Len(e) = 0
    BY EmptySeq
  <2>3. WrapWords(words, size, max) = Append(e, e)
    <3>1. Append(<<>>, e) = <<e>>
      BY AloneIs DEF Same
    <3> QED
      BY <1>4, <1>9, <1>12, <2>2, <3>1
  <2>4. FlattenSeq(Append(e, e)) = FlattenSeq(e) \o e
    BY <2>2, FlattenAppend
  <2>5. FlattenSeq(e) = e /\ e \o e = e /\ LineWidth(e, size) <= max
    BY <2>2, FlattenEmpty, EmptyLine
  <2>6. FitsColumn(e, size, max)
    BY <2>2 DEF FitsColumn
  <2> QED
    BY <2>1, <2>2, <2>3, <2>4, <2>5, <2>6, FitsAppend DEF Same
<1> QED
  BY <1>11, <1>12

\* Every word of a block, cut or not, fits the column.
LEMMA WordsFit ==
  ASSUME NEW words \in Seq(Word), NEW size \in 110..200, NEW max \in Nat, Wide <= max
  PROVE  WordsOf(words, size, max) \in Seq(Narrow(size, max))
<1> DEFINE v == [i \in DOMAIN words |-> Pieces(words[i], size, max)]
<1>1. PICK n \in Nat : n = Len(words) /\ DOMAIN words = 1..n /\ \A i \in 1..n : words[i] \in Word
  OBVIOUS
<1>2. ASSUME NEW i \in 1..n PROVE Pieces(words[i], size, max) \in Seq(Narrow(size, max))
  <2>1. PICK w \in Word : w = words[i]
    BY <1>1
  <2> DEFINE ps == Pieces(w, size, max)
  <2>2. ps \in Seq(Word) /\ \A j \in 1..Len(ps) : Width(ps[j], size) <= max
    BY PiecesFit
  <2> HIDE DEF ps
  <2>3. PICK m \in Nat : m = Len(ps) /\ ps \in [1..m -> Word]
    <3>1. Len(ps) \in Nat
      BY <2>2
    <3> QED
      BY <2>2, <3>1, SeqIsFunction
  <2>4. ps \in [1..m -> Narrow(size, max)]
    BY <2>2, <2>3 DEF Narrow
  <2>5. ps \in Seq(Narrow(size, max))
    BY <2>4, IsSeq
  <2> QED
    BY <2>1, <2>5 DEF ps
<1>3. v \in [1..n -> Seq(Narrow(size, max))]
  BY <1>1, <1>2
<1>4. WordsOf(words, size, max) = FlattenSeq(v)
  BY DEF WordsOf
<1> HIDE DEF v
<1> QED
  BY <1>3, <1>4, FlattenIsSeq

(***************************************************************************)
(* Documents: characters                                                   *)
(***************************************************************************)

\* A set that holds the empty sequence, and with a sequence each longer by one
\* member, holds every sequence.
LEMMA ByAppending ==
  ASSUME NEW S, NEW q \in Seq(S), NEW P, <<>> \in P,
         \A p \in Seq(S), x \in S : p \in P => Append(p, x) \in P
  PROVE  q \in P
<1>1. PICK n \in Nat : n = Len(q)
  OBVIOUS
<1> DEFINE first(k) == SubSeq(q, 1, k)
           Bad == {k \in 0..n : first(k) \notin P}
<1>2. ASSUME NEW k \in 0..n PROVE first(k) \in Seq(S) /\ Len(first(k)) = k
  BY <1>1, FirstIs
<1>3. ASSUME NEW k \in 0..n, k < n PROVE first(k + 1) = Append(first(k), q[k + 1]) /\ q[k + 1] \in S
  <2>1. q[k + 1] \in S
    BY <1>1, <1>3
  <2>2. Same(first(k + 1), first(k) \o <<q[k + 1]>>)
    BY <1>1, <1>3, FirstOf
  <2>3. Same(Append(first(k), q[k + 1]), first(k) \o <<q[k + 1]>>)
    BY <1>2, <2>1, OneMore
  <2> QED
    BY <2>1, <2>2, <2>3 DEF Same
<1>4. first(n) = q
  <2>1. n \in 0..Len(q)
    BY <1>1
  <2>2. \A j \in 1..n : first(n)[j] = q[j]
    BY <2>1, FirstIs
  <2>3. first(n) \in Seq(S) /\ Len(first(n)) = n
    BY <2>1, FirstIs
  <2> HIDE DEF first
  <2> QED
    BY <1>1, <2>2, <2>3, SeqEqual
<1>5. first(0) = <<>>
  <2>1. first(0) \in Seq(S) /\ Len(first(0)) = 0
    BY <1>2
  <2> HIDE DEF first
  <2> QED
    BY <2>1, SeqIsFunction
<1> HIDE DEF first
<1>6. ASSUME Bad # {} PROVE FALSE
  <2>1. Bad \subseteq Nat
    OBVIOUS
  <2>2. PICK b \in Bad : \A k \in Bad : b <= k
    <3> HIDE DEF Bad
    <3> QED
      BY <1>6, <2>1, LeastOf
  <2>3. b # 0
    BY <1>5
  <2>4. PICK j \in 0..n : j + 1 = b /\ j < n /\ ~(b <= j)
    <3>1. b - 1 \in 0..n /\ (b - 1) + 1 = b /\ b - 1 < n /\ ~(b <= b - 1)
      BY <2>3
    <3> QED
      BY <3>1
  <2>5. first(j) \in P
    BY <2>2, <2>4
  <2>6. first(j) \in Seq(S) /\ first(j + 1) = Append(first(j), q[j + 1]) /\ q[j + 1] \in S
    BY <1>2, <1>3, <2>4
  <2>7. first(j + 1) \in P
    BY <2>5, <2>6
  <2> QED
    BY <2>4, <2>7
<1>7. n \in 0..n
  OBVIOUS
<1>8. first(n) \in P
  BY <1>6, <1>7
<1> QED
  BY <1>4, <1>8

\* What a function makes of each member of a sequence.
EachOf(f, q) == [i \in DOMAIN q |-> f[q[i]]]

LEMMA MapAppend ==
  ASSUME NEW S, NEW T, NEW f \in [S -> T], NEW q \in Seq(S), NEW x \in S
  PROVE  /\ EachOf(f, q) \in Seq(T) /\ Len(EachOf(f, q)) = Len(q)
         /\ Same(EachOf(f, Append(q, x)), Append(EachOf(f, q), f[x]))
<1>1. PICK n \in Nat : n = Len(q) /\ DOMAIN q = 1..n /\ \A i \in 1..n : q[i] \in S
  OBVIOUS
<1>2. PICK m \in Seq(T) : /\ m = EachOf(f, q) /\ Len(m) = n
                          /\ \A i \in 1..n : m[i] = f[q[i]]
  <2>1. EachOf(f, q) \in [1..n -> T] /\ \A i \in 1..n : EachOf(f, q)[i] = f[q[i]]
    BY <1>1 DEF EachOf
  <2> QED
    BY <2>1, IsSeq
<1>3. PICK r \in Seq(S) : /\ r = Append(q, x) /\ Len(r) = n + 1 /\ DOMAIN r = 1..(n + 1) /\ r[n + 1] = x
                          /\ \A i \in 1..n : r[i] = q[i]
  <2>1. /\ Append(q, x) \in Seq(S) /\ Len(Append(q, x)) = n + 1
        /\ DOMAIN Append(q, x) = 1..(n + 1) /\ Append(q, x)[n + 1] = x
        /\ \A i \in 1..n : Append(q, x)[i] = q[i]
    BY <1>1
  <2> QED
    BY <2>1
<1>4. PICK b \in Seq(T) : /\ b = EachOf(f, r) /\ Len(b) = n + 1
                          /\ \A i \in 1..(n + 1) : b[i] = f[r[i]]
  <2>1. \A i \in 1..(n + 1) : r[i] \in S
    BY <1>3
  <2>2. EachOf(f, r) \in [1..(n + 1) -> T] /\ \A i \in 1..(n + 1) : EachOf(f, r)[i] = f[r[i]]
    BY <1>3, <2>1 DEF EachOf
  <2>3. n + 1 \in Nat
    OBVIOUS
  <2> QED
    BY <2>2, <2>3, IsSeq
<1>5. PICK y \in T : y = f[x]
  OBVIOUS
<1>6. PICK c \in Seq(T) : c = Append(m, y) /\ Len(c) = n + 1 /\ c[n + 1] = y /\ \A i \in 1..n : c[i] = m[i]
  <2>1. /\ Append(m, y) \in Seq(T) /\ Len(Append(m, y)) = n + 1 /\ Append(m, y)[n + 1] = y
        /\ \A i \in 1..n : Append(m, y)[i] = m[i]
    BY <1>2
  <2> QED
    BY <2>1
<1>7. ASSUME NEW i \in 1..(n + 1) PROVE b[i] = c[i]
  <2>1. i = n + 1 \/ i \in 1..n
    OBVIOUS
  <2> QED
    BY <1>2, <1>3, <1>4, <1>5, <1>6, <2>1
<1>8. b = c
  BY <1>4, <1>6, <1>7, SeqEqual
<1> QED
  BY <1>1, <1>2, <1>3, <1>4, <1>5, <1>6, <1>8 DEF Same

\* One character many times.
Times(c, n) == [k \in 1..n |-> c]

LEMMA TimesIs ==
  ASSUME NEW c \in STRING, NEW n \in Nat
  PROVE  /\ Times(c, n) \in Seq(STRING) /\ Len(Times(c, n)) = n
         /\ \A k \in 1..n : Times(c, n)[k] = c
<1>1. Times(c, n) \in [1..n -> STRING] /\ \A k \in 1..n : Times(c, n)[k] = c
  BY DEF Times
<1> QED
  BY <1>1, IsSeq

LEMMA TimesAdd ==
  ASSUME NEW c \in STRING, NEW a \in Nat, NEW b \in Nat, NEW n \in Nat, n = a + b
  PROVE  Same(Times(c, a) \o Times(c, b), Times(c, n))
<1>1. PICK x \in Seq(STRING) : x = Times(c, a) /\ Len(x) = a /\ \A k \in 1..a : x[k] = c
  BY TimesIs
<1>0. PICK y \in Seq(STRING) : y = Times(c, b) /\ Len(y) = b /\ \A k \in 1..b : y[k] = c
  BY TimesIs
<1>9. PICK z \in Seq(STRING) : z = Times(c, n) /\ Len(z) = n /\ \A k \in 1..n : z[k] = c
  BY TimesIs
<1>2. PICK w \in Seq(STRING) : w = x \o y /\ Joined(w, x, y)
  BY JoinedAt
<1>3. Len(w) = n
  BY <1>0, <1>1, <1>9, <1>2 DEF Joined
<1>4. ASSUME NEW k \in 1..n PROVE w[k] = z[k]
  <2>1. CASE k \in 1..a
    BY <1>0, <1>1, <1>9, <1>2, <2>1 DEF Joined
  <2>2. CASE k \notin 1..a
    <3>1. k - a \in 1..b /\ a + (k - a) = k
      BY <2>2
    <3>2. w[a + (k - a)] = y[k - a]
      BY <1>0, <1>1, <1>9, <1>2, <3>1 DEF Joined
    <3> QED
      BY <1>0, <1>1, <1>9, <3>1, <3>2
  <2> QED
    BY <2>1, <2>2
<1>5. w = z
  BY <1>0, <1>1, <1>9, <1>3, <1>4, SeqEqual
<1> QED
  BY <1>0, <1>1, <1>9, <1>2, <1>5 DEF Same

\* What is drawn of a word, and of one word more.
LettersOf(w) == Times(Escaped(w.sym), w.n)
LettersFun   == [w \in Word |-> LettersOf(w)]

LEMMA LettersAre ==
  ASSUME NEW w \in Word
  PROVE  w.n \in Nat /\ Escaped(w.sym) \in STRING /\ LettersOf(w) \in Seq(STRING)
<1>1. w.n \in Nat /\ w.sym \in STRING
  BY DEF Word
<1>2. Escaped(w.sym) \in STRING
  BY <1>1, FontAssumption DEF Escaped
<1> QED
  BY <1>1, <1>2, TimesIs DEF LettersOf

LEMMA DrawnIs ==
  ASSUME NEW q \in Seq(Word)
  PROVE  Drawn(q) = FlattenSeq(EachOf(LettersFun, q))
<1>1. \A i \in DOMAIN q : q[i] \in Word
  OBVIOUS
<1>2. \A i \in DOMAIN q : LettersFun[q[i]] = [k \in 1..q[i].n |-> Escaped(q[i].sym)]
  BY <1>1 DEF LettersFun, LettersOf, Times
<1>3. [i \in DOMAIN q |-> [k \in 1..q[i].n |-> Escaped(q[i].sym)]] = EachOf(LettersFun, q)
  BY <1>2 DEF EachOf
<1> QED
  BY <1>3 DEF Drawn

LEMMA DrawnAppend ==
  ASSUME NEW q \in Seq(Word), NEW w \in Word
  PROVE  Drawn(q) \in Seq(STRING) /\ Same(Drawn(Append(q, w)), Drawn(q) \o LettersOf(w))
<1>1. LettersFun \in [Word -> Seq(STRING)] /\ LettersFun[w] = LettersOf(w)
  BY LettersAre DEF LettersFun
<1>2. PICK f \in [Word -> Seq(STRING)], x \in Seq(STRING) : f = LettersFun /\ x = LettersOf(w) /\ f[w] = x
  BY <1>1, LettersAre
<1>3. PICK m \in Seq(Seq(STRING)) : m = EachOf(f, q) /\ Same(EachOf(f, Append(q, w)), Append(m, x))
  BY <1>2, MapAppend
<1>4. FlattenSeq(m) \in Seq(STRING) /\ FlattenSeq(Append(m, x)) = FlattenSeq(m) \o x
  BY FlattenAppend
<1>5. Append(q, w) \in Seq(Word)
  OBVIOUS
<1>6. Drawn(q) = FlattenSeq(m) /\ Drawn(Append(q, w)) = FlattenSeq(Append(m, x))
  BY <1>2, <1>3, <1>5, DrawnIs DEF Same
<1> QED
  BY <1>2, <1>4, <1>6 DEF Same

LEMMA DrawnSeq == ASSUME NEW q \in Seq(Word) PROVE Drawn(q) \in Seq(STRING)
<1>1. PICK w \in Word : TRUE
  BY SomeWord
<1> QED
  BY DrawnAppend

LEMMA NothingDrawn == Drawn(<<>>) = <<>>
<1>0. PICK e : e = <<>> /\ DOMAIN e = 1..0
  OBVIOUS
<1>4. e \in Seq(Word)
  BY <1>0, EmptySeq
<1>1. PICK v : v = EachOf(LettersFun, e)
  OBVIOUS
<1>2. v \in Seq({}) /\ Len(v) = 0
  <2>1. v \in [1..0 -> {}]
    BY <1>0, <1>1 DEF EachOf
  <2> QED
    BY <2>1, IsSeq
<1>3. v = <<>>
  BY <1>2, SeqIsFunction
<1> QED
  BY <1>0, <1>1, <1>3, <1>4, FlattenEmpty, DrawnIs

\* Words after words are drawn after them.
LEMMA DrawnJoin ==
  ASSUME NEW a \in Seq(Word), NEW b \in Seq(Word)
  PROVE  Same(Drawn(a \o b), Drawn(a) \o Drawn(b))
<1> DEFINE P == {p \in Seq(Word) : Same(Drawn(a \o p), Drawn(a) \o Drawn(p))}
<1>1. <<>> \in P
  <2>1. PICK e \in Seq(Word) : e = <<>>
    BY EmptySeq
  <2>2. PICK d \in Seq(STRING), z \in Seq(STRING) : d = Drawn(a) /\ z = Drawn(e) /\ z = <<>>
    BY <2>1, DrawnSeq, NothingDrawn
  <2>3. a \o e = a /\ d \o z = d
    BY <2>1, <2>2
  <2>4. Same(Drawn(a \o e), Drawn(a) \o Drawn(e))
    BY <2>2, <2>3 DEF Same
  <2> QED
    BY <2>1, <2>4
<1>2. ASSUME NEW p \in Seq(Word), NEW x \in Word, p \in P PROVE Append(p, x) \in P
  <2>1. PICK d \in Seq(STRING), y \in Seq(STRING), l \in Seq(STRING) :
          d = Drawn(a) /\ y = Drawn(p) /\ l = LettersOf(x)
    BY DrawnSeq, LettersAre
  <2>2. PICK ap \in Seq(Word), more \in Seq(Word) : ap = a \o p /\ more = Append(p, x)
    <3>1. a \o p \in Seq(Word)
      OBVIOUS
    <3>2. Append(p, x) \in Seq(Word)
      OBVIOUS
    <3> QED
      BY <3>1, <3>2
  <2>3. a \o more = Append(ap, x)
    <3>1. PICK one \in Seq(Word) : one = <<x>> /\ Same(more, p \o one) /\ Same(Append(ap, x), ap \o one)
      BY <2>2, OneMore
    <3>2. Same((a \o p) \o one, a \o (p \o one))
      BY Regroups
    <3> QED
      BY <2>2, <3>1, <3>2 DEF Same
  <2>4. Drawn(ap) = d \o y
    BY <1>2, <2>1, <2>2 DEF Same
  <2>5. Drawn(Append(ap, x)) = (d \o y) \o l
    BY <2>1, <2>4, DrawnAppend DEF Same
  <2>6. Drawn(more) = y \o l
    BY <2>1, <2>2, DrawnAppend DEF Same
  <2>7. Same((d \o y) \o l, d \o (y \o l))
    BY Regroups
  <2>8. Same(Drawn(a \o more), Drawn(a) \o Drawn(more))
    BY <2>1, <2>3, <2>5, <2>6, <2>7 DEF Same
  <2> QED
    BY <2>2, <2>8
<1>3. b \in P
  <2> HIDE DEF P
  <2> QED
    BY <1>1, <1>2, ByAppending
<1> QED
  BY <1>3

\* The characters in the first j pieces of a word, when q fit a column.
CutAt(n, q, j) == IF j * q <= n THEN j * q ELSE n

LEMMA CutsAdd ==
  ASSUME NEW n \in Nat, NEW q \in Nat, q > 0, NEW c \in Nat, c = (n + q - 1) \div q
  PROVE  /\ CutAt(n, q, 0) = 0 /\ CutAt(n, q, c) = n
         /\ \A j \in Nat : j < c => /\ CutAt(n, q, j) \in Nat /\ PieceSize(n, q, j + 1) \in Nat
                                    /\ CutAt(n, q, j + 1) = CutAt(n, q, j) + PieceSize(n, q, j + 1)
<1>1. PICK m \in Nat : m = n + q - 1
  OBVIOUS
<1>2. c = m \div q /\ c * q <= m /\ m < c * q + q
  BY <1>1, Divided
<1>3. PICK z \in Nat : z = c * q
  BY Product
<1>4. n <= z
  BY <1>1, <1>2, <1>3
<1>5. CutAt(n, q, c) = n
  BY <1>3, <1>4 DEF CutAt
<1>6. CutAt(n, q, 0) = 0
  BY DEF CutAt
<1>7. ASSUME NEW j \in Nat, j < c
      PROVE  /\ CutAt(n, q, j) \in Nat /\ PieceSize(n, q, j + 1) \in Nat
             /\ CutAt(n, q, j + 1) = CutAt(n, q, j) + PieceSize(n, q, j + 1)
  <2>1. PICK k \in Nat : k = j + 1 /\ k <= c
    BY <1>7
  <2>2. PICK x \in Nat, y \in Nat : x = j * q /\ y = k * q /\ y <= z
    BY <1>3, <2>1, Product
  <2>3. y = x + q
    BY <2>1, <2>2
  <2>4. x < n
    BY <1>1, <1>2, <1>3, <2>2, <2>3
  <2>5. CutAt(n, q, j) = x
    BY <2>2, <2>4 DEF CutAt
  <2>6. CutAt(n, q, k) = IF y <= n THEN y ELSE n
    BY <2>2 DEF CutAt
  <2>7. PieceSize(n, q, k) = IF y <= n THEN q ELSE n - x
    <3>1. k - 1 = j
      BY <2>1
    <3> QED
      BY <2>2, <3>1 DEF PieceSize
  <2> QED
    BY <2>1, <2>3, <2>4, <2>5, <2>6, <2>7
<1> QED
  BY <1>5, <1>6, <1>7

\* The pieces of a word draw what the word draws.
LEMMA PiecesDraw ==
  ASSUME NEW w \in Word, NEW size \in 110..200, NEW max \in Nat, Wide <= max
  PROVE  Same(Drawn(Pieces(w, size, max)), LettersOf(w))
<1>1. CASE Width(w, size) <= max
  <2>1. PICK e \in Seq(Word) : e = <<>>
    BY EmptySeq
  <2>2. Pieces(w, size, max) = Append(e, w)
    BY <1>1, <2>1, AloneIs DEF Pieces, Same
  <2>3. Drawn(Append(e, w)) = Drawn(e) \o LettersOf(w)
    BY DrawnAppend DEF Same
  <2>4. PICK l \in Seq(STRING) : l = LettersOf(w) /\ <<>> \o l = l
    BY LettersAre
  <2> QED
    BY <2>1, <2>2, <2>3, <2>4, NothingDrawn DEF Same
<1>2. CASE ~(Width(w, size) <= max)
  <2>1. PICK n \in Nat, s \in STRING : n = w.n /\ s = Escaped(w.sym)
    BY LettersAre
  <2>2. PICK q \in Nat \ {0} : q = max \div (w.em * size)
    <3>1. w.em \in Ems
      BY DEF Word
    <3>2. PICK u \in Nat : u = w.em * size /\ u > 0 /\ u <= Wide
      BY <3>1, UnitBounds
    <3>3. u <= max
      BY <3>2 DEF Wide
    <3>4. max \div u \in Nat /\ max \div u > 0
      BY <3>2, <3>3, Divided
    <3> QED
      BY <3>2, <3>4
  <2>3. PICK c \in Nat : c = (n + q - 1) \div q
    BY PieceSizes
  <2> DEFINE cut(m) == [w EXCEPT !.n = m]
  <2>4. ASSUME NEW m \in Nat PROVE cut(m) \in Word /\ LettersOf(cut(m)) = Times(s, m)
    <3>1. cut(m) \in Word /\ cut(m).n = m /\ cut(m).sym = w.sym
      BY DEF Word
    <3> QED
      BY <2>1, <3>1 DEF LettersOf
  <2>5. PICK g \in Seq(Word) : /\ g = Pieces(w, size, max) /\ Len(g) = c
                               /\ \A k \in 1..c : g[k] = cut(PieceSize(n, q, k))
    <3>1. Pieces(w, size, max) = [k \in 1..((w.n + q - 1) \div q) |->
                 [w EXCEPT !.n = IF k * q <= w.n THEN q ELSE w.n - (k - 1) * q]]
      <4>1. max \div (w.em * size) = q /\ q # 0
        BY <2>2
      <4> QED
        BY <1>2, <4>1 DEF Pieces
    <3>2. Pieces(w, size, max) = [k \in 1..c |-> cut(PieceSize(n, q, k))]
      BY <2>1, <2>3, <3>1 DEF PieceSize
    <3>3. \A k \in 1..c : PieceSize(n, q, k) \in Nat
      BY <2>3, PieceSizes
    <3> HIDE DEF cut
    <3>4. [k \in 1..c |-> cut(PieceSize(n, q, k))] \in [1..c -> Word]
      BY <2>4, <3>3
    <3>5. Pieces(w, size, max) \in [1..c -> Word]
      BY <3>2, <3>4
    <3> QED
      BY <3>2, <3>5, IsSeq
  <2> HIDE DEF cut
  <2> DEFINE P(j) == Same(Drawn(SubSeq(g, 1, j)), Times(s, CutAt(n, q, j)))
             Bad == {j \in 0..c : ~P(j)}
  <2>6. /\ CutAt(n, q, 0) = 0 /\ CutAt(n, q, c) = n
        /\ \A j \in Nat : j < c => /\ CutAt(n, q, j) \in Nat /\ PieceSize(n, q, j + 1) \in Nat
                                   /\ CutAt(n, q, j + 1) = CutAt(n, q, j) + PieceSize(n, q, j + 1)
    <3>1. q \in Nat /\ q > 0
      OBVIOUS
    <3> QED
      BY <2>3, <3>1, CutsAdd
  <2>7. P(0)
    <3>1. SubSeq(g, 1, 0) \in Seq(Word) /\ Len(SubSeq(g, 1, 0)) = 0
      <4>1. 0 \in 0..Len(g)
        BY <2>5
      <4> QED
        BY <4>1, FirstIs
    <3>2. SubSeq(g, 1, 0) = <<>>
      BY <3>1, SeqIsFunction
    <3>3. Times(s, 0) \in Seq(STRING) /\ Len(Times(s, 0)) = 0
      BY TimesIs
    <3>4. Times(s, 0) = <<>>
      BY <3>3, SeqIsFunction
    <3> QED
      BY <2>6, <3>2, <3>4, NothingDrawn DEF Same
  <2>8. ASSUME NEW j \in 0..c, j < c, P(j) PROVE P(j + 1)
    <3>1. PICK a \in Nat, d \in Nat, e \in Nat :
            /\ a = CutAt(n, q, j) /\ d = PieceSize(n, q, j + 1) /\ e = CutAt(n, q, j + 1) /\ e = a + d
      <4>1. j \in Nat
        OBVIOUS
      <4>2. /\ CutAt(n, q, j) \in Nat /\ PieceSize(n, q, j + 1) \in Nat
            /\ CutAt(n, q, j + 1) = CutAt(n, q, j) + PieceSize(n, q, j + 1)
        BY <2>6, <2>8, <4>1
      <4> QED
        BY <4>2
    <3>2. PICK x \in Word : x = g[j + 1] /\ LettersOf(x) = Times(s, d)
      <4>1. j + 1 \in 1..c
        BY <2>8
      <4>2. g[j + 1] = cut(d)
        BY <2>5, <3>1, <4>1
      <4> QED
        BY <2>4, <4>2
    <3>3. PICK f \in Seq(Word), h \in Seq(Word) :
            f = SubSeq(g, 1, j) /\ h = SubSeq(g, 1, j + 1) /\ Same(h, f \o <<x>>)
      <4>1. j \in 0..Len(g) /\ j + 1 \in 0..Len(g) /\ j < Len(g)
        BY <2>5, <2>8
      <4>2. SubSeq(g, 1, j) \in Seq(Word) /\ Same(SubSeq(g, 1, j + 1), SubSeq(g, 1, j) \o <<g[j + 1]>>)
        BY <4>1, FirstOf
      <4>3. SubSeq(g, 1, j + 1) \in Seq(Word)
        BY <4>1, FirstIs
      <4> QED
        BY <3>2, <4>2, <4>3
    <3>4. h = Append(f, x)
      BY <3>3, OneMore DEF Same
    <3>5. Drawn(h) = Times(s, a) \o Times(s, d)
      <4>1. Drawn(f) = Times(s, a)
        BY <2>8, <3>1, <3>3 DEF Same
      <4>2. Drawn(Append(f, x)) = Drawn(f) \o LettersOf(x)
        BY DrawnAppend DEF Same
      <4> QED
        BY <3>2, <3>4, <4>1, <4>2
    <3>6. Same(Times(s, a) \o Times(s, d), Times(s, e))
      BY <3>1, TimesAdd
    <3> QED
      BY <3>1, <3>3, <3>5, <3>6 DEF Same
  <2> HIDE DEF P
  <2>9. ASSUME Bad # {} PROVE FALSE
    <3>1. Bad \subseteq Nat
      OBVIOUS
    <3>2. PICK b \in Bad : \A k \in Bad : b <= k
      <4> HIDE DEF Bad
      <4> QED
        BY <2>9, <3>1, LeastOf
    <3>3. b # 0
      BY <2>7
    <3>4. PICK j \in 0..c : j + 1 = b /\ j < c /\ ~(b <= j)
      <4>1. b - 1 \in 0..c /\ (b - 1) + 1 = b /\ b - 1 < c /\ ~(b <= b - 1)
        BY <3>3
      <4> QED
        BY <4>1
    <3>5. P(j)
      BY <3>2, <3>4
    <3>6. P(j + 1)
      BY <2>8, <3>4, <3>5
    <3> QED
      BY <3>4, <3>6
  <2>10. c \in 0..c /\ c \in 0..Len(g)
    BY <2>5
  <2>11. P(c)
    BY <2>9, <2>10
  <2>12. SubSeq(g, 1, c) = g
    <3>1. /\ SubSeq(g, 1, c) \in Seq(Word) /\ Len(SubSeq(g, 1, c)) = c
          /\ \A j \in 1..c : SubSeq(g, 1, c)[j] = g[j]
      BY <2>10, FirstIs
    <3> QED
      BY <2>5, <3>1, SeqEqual
  <2> QED
    BY <2>1, <2>5, <2>6, <2>11, <2>12 DEF P, Same, LettersOf
<1> QED
  BY <1>1, <1>2

\* Cutting words to the column loses no character.
LEMMA WordsDraw ==
  ASSUME NEW words \in Seq(Word), NEW size \in 110..200, NEW max \in Nat, Wide <= max
  PROVE  Same(Drawn(WordsOf(words, size, max)), Drawn(words))
<1> DEFINE f == [w \in Word |-> Pieces(w, size, max)]
           P == {p \in Seq(Word) : Same(Drawn(WordsOf(p, size, max)), Drawn(p))}
<1>1. f \in [Word -> Seq(Word)] /\ \A w \in Word : f[w] = Pieces(w, size, max)
  BY PiecesFit
<1> HIDE DEF f
<1>2. ASSUME NEW p \in Seq(Word) PROVE WordsOf(p, size, max) = FlattenSeq(EachOf(f, p))
  <2>1. \A i \in DOMAIN p : p[i] \in Word
    OBVIOUS
  <2>2. [i \in DOMAIN p |-> Pieces(p[i], size, max)] = EachOf(f, p)
    BY <1>1, <2>1 DEF EachOf
  <2> QED
    BY <2>2 DEF WordsOf
<1>3. <<>> \in P
  <2>0. PICK e : e = <<>> /\ DOMAIN e = 1..0
    OBVIOUS
  <2>5. e \in Seq(Word)
    BY <2>0, EmptySeq
  <2>1. PICK v : v = EachOf(f, e)
    OBVIOUS
  <2>2. v \in Seq({}) /\ Len(v) = 0
    <3>1. v \in [1..0 -> {}]
      BY <2>0, <2>1 DEF EachOf
    <3> QED
      BY <3>1, IsSeq
  <2>3. v = <<>>
    BY <2>2, SeqIsFunction
  <2>4. WordsOf(e, size, max) = e
    BY <1>2, <2>0, <2>1, <2>3, <2>5, FlattenEmpty
  <2> QED
    BY <2>0, <2>4, <2>5 DEF Same
<1>4. ASSUME NEW p \in Seq(Word), NEW x \in Word, p \in P PROVE Append(p, x) \in P
  <2>1. PICK ps \in Seq(Word) : ps = f[x] /\ ps = Pieces(x, size, max)
    BY <1>1
  <2>2. PICK m \in Seq(Seq(Word)) : m = EachOf(f, p) /\ Same(EachOf(f, Append(p, x)), Append(m, ps))
    BY <1>1, <2>1, MapAppend
  <2>11. Append(p, x) \in Seq(Word)
    OBVIOUS
  <2>0. PICK more \in Seq(Word) : more = Append(p, x)
    BY <2>11
  <2>10. PICK all \in Seq(Word) : all = FlattenSeq(m) /\ FlattenSeq(Append(m, ps)) = all \o ps
    BY FlattenAppend
  <2>3. all = FlattenSeq(m) /\ more = Append(p, x) /\ FlattenSeq(Append(m, ps)) = all \o ps
    BY <2>0, <2>10
  <2>4. WordsOf(p, size, max) = all /\ WordsOf(more, size, max) = all \o ps
    BY <1>2, <2>2, <2>3 DEF Same
  <2>5. Drawn(all \o ps) = Drawn(all) \o Drawn(ps)
    BY DrawnJoin DEF Same
  <2>6. Drawn(all) = Drawn(p)
    BY <1>4, <2>4 DEF Same
  <2>7. Drawn(ps) = LettersOf(x)
    BY <2>1, PiecesDraw DEF Same
  <2>8. Drawn(more) = Drawn(p) \o LettersOf(x)
    BY <2>3, DrawnAppend DEF Same
  <2>9. Same(Drawn(WordsOf(more, size, max)), Drawn(more))
    BY <2>4, <2>5, <2>6, <2>7, <2>8 DEF Same
  <2> QED
    BY <2>3, <2>9
<1>5. words \in P
  <2> HIDE DEF P
  <2> QED
    BY <1>3, <1>4, ByAppending
<1> QED
  BY <1>5

(***************************************************************************)
(* Documents: the objects of the file                                      *)
(***************************************************************************)

\* The objects of a file of n pages, each in its place.
Catalog      == Object(1, "catalog", {2})
TreeOf(n)    == Object(2, "tree", {FirstPage + 2 * (p - 1) : p \in 1..n})
FontAt(k)    == Object(2 + k, "font", {})
PageAt(p)    == Object(FirstPage + 2 * (p - 1), "page", {2, FirstPage + 2 * (p - 1) + 1} \cup (3..6))
ContentAt(p) == Object(FirstPage + 2 * (p - 1) + 1, "content", {})

LEMMA ObjectsAre ==
  ASSUME NEW n \in Nat, NEW f, f = Objects(n)
  PROVE  /\ Len(f) = 6 + 2 * n /\ DOMAIN f = 1..(6 + 2 * n)
         /\ f[1] = Catalog /\ f[2] = TreeOf(n) /\ \A k \in 1..4 : f[2 + k] = FontAt(k)
         /\ \A p \in 1..n : f[5 + 2 * p] = PageAt(p) /\ f[6 + 2 * p] = ContentAt(p)
<1> DEFINE v == [p \in 1..n |-> <<PageAt(p), ContentAt(p)>>]
           a == [p \in 1..n |-> PageAt(p)]
           b == [p \in 1..n |-> ContentAt(p)]
           fonts == [k \in 1..4 |-> FontAt(k)]
           first == <<Catalog, TreeOf(n)>>
           S == {Catalog, TreeOf(n)} \cup {FontAt(k) : k \in 1..4} \cup {PageAt(p) : p \in 1..n}
                  \cup {ContentAt(p) : p \in 1..n}
<1>1. a \in [1..n -> S] /\ b \in [1..n -> S] /\ fonts \in [1..4 -> S] /\ first \in Seq(S)
  OBVIOUS
<1>2. f = (first \o fonts) \o FlattenSeq(v)
  BY DEF Objects, PageAt, ContentAt, TreeOf, FontAt, Catalog
<1>3. Paired(v, a, b, n)
  BY DEF Paired
<1>4. \A k \in 1..n : a[k] = PageAt(k) /\ b[k] = ContentAt(k)
  OBVIOUS
<1>5. Len(first) = 2 /\ first[1] = Catalog /\ first[2] = TreeOf(n)
  OBVIOUS
<1>6. \A k \in 1..4 : fonts[k] = FontAt(k)
  OBVIOUS
<1> HIDE DEF v, a, b, fonts, first, S
<1>7. fonts \in Seq(S) /\ Len(fonts) = 4
  BY <1>1, IsSeq
<1>8. FlattenSeq(v) \in Seq(S) /\ Alternate(FlattenSeq(v), a, b, n)
  BY <1>1, <1>3, PairsAre
<1> DEFINE h == first \o fonts
           q == FlattenSeq(v)
<1>9. /\ h \in Seq(S) /\ Len(h) = 6
      /\ \A i \in 1..2 : h[i] = first[i]
      /\ \A k \in 1..4 : h[2 + k] = fonts[k]
  <2>1. h \in Seq(S) /\ Joined(h, first, fonts)
    BY <1>1, <1>7, JoinedAt
  <2> HIDE DEF h
  <2> QED
    BY <1>5, <1>7, <2>1 DEF Joined
<1>10. q \in Seq(S) /\ Len(q) = 2 * n /\ \A p \in 1..n : q[2 * p - 1] = PageAt(p) /\ q[2 * p] = ContentAt(p)
  <2>1. q \in Seq(S) /\ Alternate(q, a, b, n)
    BY <1>8
  <2> HIDE DEF q
  <2> QED
    BY <1>4, <2>1 DEF Alternate
<1>11. Same(f, h \o q)
  BY <1>2 DEF Same
<1> HIDE DEF h, q
<1>12. f \in Seq(S) /\ Joined(f, h, q)
  <2>1. h \o q \in Seq(S) /\ Joined(h \o q, h, q)
    BY <1>9, <1>10, JoinedAt
  <2> QED
    BY <1>11, <2>1 DEF Same
<1>13. /\ Len(f) = 6 + 2 * n /\ DOMAIN f = 1..(6 + 2 * n) /\ \A i \in 1..6 : f[i] = h[i]
       /\ \A i \in 1..(2 * n) : f[6 + i] = q[i]
  <2>1. DOMAIN f = 1..Len(f)
    BY <1>12
  <2> QED
    BY <1>9, <1>10, <1>12, <2>1 DEF Joined
<1>14. ASSUME NEW p \in 1..n PROVE f[5 + 2 * p] = PageAt(p) /\ f[6 + 2 * p] = ContentAt(p)
  <2>1. PICK i \in 1..(2 * n), j \in 1..(2 * n) :
          i = 2 * p - 1 /\ j = 2 * p /\ 6 + i = 5 + 2 * p /\ 6 + j = 6 + 2 * p
    <3>1. 2 * p - 1 \in 1..(2 * n) /\ 2 * p \in 1..(2 * n) /\ 6 + (2 * p - 1) = 5 + 2 * p
      OBVIOUS
    <3> QED
      BY <3>1
  <2>2. q[i] = PageAt(p) /\ q[j] = ContentAt(p)
    BY <1>10, <2>1
  <2>3. f[6 + i] = q[i] /\ f[6 + j] = q[j]
    BY <1>13
  <2> QED
    BY <2>1, <2>2, <2>3
<1>15. f[1] = Catalog /\ f[2] = TreeOf(n)
  BY <1>5, <1>9, <1>13
<1>16. ASSUME NEW k \in 1..4 PROVE f[2 + k] = FontAt(k)
  <2>1. 2 + k \in 1..6
    OBVIOUS
  <2> QED
    BY <1>6, <1>9, <1>13, <2>1
<1> QED
  BY <1>13, <1>14, <1>15, <1>16

NumbersOf(f, kind) == {f[i].num : i \in {j \in DOMAIN f : f[j].kind = kind}}
RefsOf(f, kind)    == UNION {f[i].refs : i \in {j \in DOMAIN f : f[j].kind = kind}}

LEMMA ObjectFields ==
  ASSUME NEW p \in Nat
  PROVE  /\ Catalog.num = 1 /\ Catalog.kind = "catalog" /\ Catalog.refs = {2}
         /\ TreeOf(p).num = 2 /\ TreeOf(p).kind = "tree"
         /\ TreeOf(p).refs = {FirstPage + 2 * (k - 1) : k \in 1..p}
         /\ FontAt(p).num = 2 + p /\ FontAt(p).kind = "font"
         /\ PageAt(p).num = 5 + 2 * p /\ PageAt(p).kind = "page"
         /\ PageAt(p).refs = {2, 6 + 2 * p} \cup (3..6)
         /\ ContentAt(p).num = 6 + 2 * p /\ ContentAt(p).kind = "content"
<1>1. FirstPage + 2 * (p - 1) = 5 + 2 * p /\ FirstPage + 2 * (p - 1) + 1 = 6 + 2 * p
  BY DEF FirstPage
<1>2. Catalog.num = 1 /\ Catalog.kind = "catalog" /\ Catalog.refs = {2}
  BY DEF Catalog, Object
<1>3. /\ TreeOf(p).num = 2 /\ TreeOf(p).kind = "tree"
      /\ TreeOf(p).refs = {FirstPage + 2 * (k - 1) : k \in 1..p}
  BY DEF TreeOf, Object
<1>4. FontAt(p).num = 2 + p /\ FontAt(p).kind = "font"
  BY DEF FontAt, Object
<1>5. /\ PageAt(p).num = FirstPage + 2 * (p - 1) /\ PageAt(p).kind = "page"
      /\ PageAt(p).refs = {2, FirstPage + 2 * (p - 1) + 1} \cup (3..6)
  BY DEF PageAt, Object
<1>6. ContentAt(p).num = FirstPage + 2 * (p - 1) + 1 /\ ContentAt(p).kind = "content"
  BY DEF ContentAt, Object
<1> QED
  BY <1>1, <1>2, <1>3, <1>4, <1>5, <1>6

\* Every object has the number of its place, and what is referred to is there.
LEMMA FileIsWhole ==
  ASSUME NEW n \in Nat \ {0}, NEW f, f = Objects(n)
  PROVE  /\ {f[i].num : i \in DOMAIN f} = 1..(6 + 2 * n) /\ Len(f) = 6 + 2 * n
         /\ RefsOf(f, "catalog") = NumbersOf(f, "tree") /\ RefsOf(f, "tree") = NumbersOf(f, "page")
         /\ RefsOf(f, "page") =
              NumbersOf(f, "tree") \cup NumbersOf(f, "content") \cup NumbersOf(f, "font")
<1>1. /\ Len(f) = 6 + 2 * n /\ DOMAIN f = 1..(6 + 2 * n)
      /\ f[1] = Catalog /\ f[2] = TreeOf(n) /\ \A k \in 1..4 : f[2 + k] = FontAt(k)
      /\ \A p \in 1..n : f[5 + 2 * p] = PageAt(p) /\ f[6 + 2 * p] = ContentAt(p)
  BY ObjectsAre
<1>2. ASSUME NEW i \in 1..(6 + 2 * n)
      PROVE  \/ i = 1 \/ i = 2 \/ \E k \in 1..4 : i = 2 + k
             \/ \E p \in 1..n : i = 5 + 2 * p
             \/ \E p \in 1..n : i = 6 + 2 * p
  <2>1. CASE i <= 6
    <3>1. i = 1 \/ i = 2 \/ (i - 2 \in 1..4 /\ i = 2 + (i - 2))
      BY <2>1
    <3> QED
      BY <3>1
  <2>2. CASE ~(i <= 6)
    <3>1. i - 7 \in Nat
      BY <2>2
    <3>2. PICK m \in Nat : i - 7 = 2 * m \/ i - 7 = 2 * m + 1
      BY <3>1, HalfOf
    <3>3. m + 1 \in 1..n /\ (i = 5 + 2 * (m + 1) \/ i = 6 + 2 * (m + 1))
      BY <3>2
    <3> QED
      BY <3>3
  <2> QED
    BY <2>1, <2>2
<1>3. /\ f[1].num = 1 /\ f[1].kind = "catalog" /\ f[1].refs = {2}
      /\ f[2].num = 2 /\ f[2].kind = "tree" /\ f[2].refs = {FirstPage + 2 * (k - 1) : k \in 1..n}
  BY <1>1, ObjectFields
<1>4. ASSUME NEW k \in 1..4 PROVE f[2 + k].num = 2 + k /\ f[2 + k].kind = "font"
  <2>1. k \in Nat /\ f[2 + k] = FontAt(k)
    BY <1>1
  <2>2. FontAt(k).num = 2 + k /\ FontAt(k).kind = "font"
    BY <2>1, ObjectFields
  <2> QED
    BY <2>1, <2>2
<1>5. ASSUME NEW p \in 1..n
      PROVE  /\ f[5 + 2 * p].num = 5 + 2 * p /\ f[5 + 2 * p].kind = "page"
             /\ f[5 + 2 * p].refs = {2, 6 + 2 * p} \cup (3..6)
             /\ f[6 + 2 * p].num = 6 + 2 * p /\ f[6 + 2 * p].kind = "content"
             /\ 5 + 2 * p \in DOMAIN f /\ 6 + 2 * p \in DOMAIN f
  <2>1. p \in Nat /\ 5 + 2 * p \in 1..(6 + 2 * n) /\ 6 + 2 * p \in 1..(6 + 2 * n)
    OBVIOUS
  <2>2. f[5 + 2 * p] = PageAt(p) /\ f[6 + 2 * p] = ContentAt(p)
    BY <1>1
  <2> QED
    BY <1>1, <2>1, <2>2, ObjectFields
<1>6. ASSUME NEW i \in DOMAIN f
      PROVE  /\ f[i].num = i
             /\ f[i].kind = "catalog" <=> i = 1
             /\ f[i].kind = "tree" <=> i = 2
             /\ f[i].kind = "font" <=> i \in 3..6
             /\ f[i].kind = "page" <=> \E p \in 1..n : i = 5 + 2 * p
             /\ f[i].kind = "content" <=> \E p \in 1..n : i = 6 + 2 * p
  <2>1. CASE i = 1
    BY <1>3, <2>1
  <2>2. CASE i = 2
    BY <1>3, <2>2
  <2>3. ASSUME NEW k \in 1..4, i = 2 + k
        PROVE  /\ f[i].num = i /\ f[i].kind = "font" /\ i \in 3..6
    BY <1>4, <2>3
  <2>4. ASSUME NEW p \in 1..n, i = 5 + 2 * p
        PROVE  /\ f[i].num = i /\ f[i].kind = "page" /\ i > 6 /\ ~\E q \in 1..n : i = 6 + 2 * q
    <3>1. \A q \in 1..n : 5 + 2 * p # 6 + 2 * q
      OBVIOUS
    <3>2. 5 + 2 * p > 6
      OBVIOUS
    <3> QED
      BY <1>5, <2>4, <3>1, <3>2
  <2>5. ASSUME NEW p \in 1..n, i = 6 + 2 * p
        PROVE  /\ f[i].num = i /\ f[i].kind = "content" /\ i > 6 /\ ~\E q \in 1..n : i = 5 + 2 * q
    BY <1>5, <2>5
  <2>6. CASE \E k \in 1..4 : i = 2 + k
    <3>1. f[i].num = i /\ f[i].kind = "font" /\ i \in 3..6
      BY <2>3, <2>6
    <3>2. ~\E q \in 1..n : i = 5 + 2 * q \/ i = 6 + 2 * q
      BY <3>1
    <3> QED
      BY <3>1, <3>2
  <2>7. CASE \E p \in 1..n : i = 5 + 2 * p
    BY <2>4, <2>7
  <2>8. CASE \E p \in 1..n : i = 6 + 2 * p
    BY <2>5, <2>8
  <2> QED
    BY <1>1, <1>2, <2>1, <2>2, <2>6, <2>7, <2>8
<1>7. {f[i].num : i \in DOMAIN f} = 1..(6 + 2 * n)
  BY <1>1, <1>6
<1>8. 1 \in DOMAIN f /\ 2 \in DOMAIN f /\ 3..6 \subseteq DOMAIN f
  BY <1>1
<1>9. RefsOf(f, "catalog") = {2} /\ NumbersOf(f, "tree") = {2}
  <2>1. {j \in DOMAIN f : f[j].kind = "catalog"} = {1} /\ {j \in DOMAIN f : f[j].kind = "tree"} = {2}
    BY <1>6, <1>8
  <2> QED
    BY <1>3, <2>1 DEF RefsOf, NumbersOf
<1>10. RefsOf(f, "tree") = {5 + 2 * p : p \in 1..n}
  <2>1. {j \in DOMAIN f : f[j].kind = "tree"} = {2}
    BY <1>6, <1>8
  <2>2. \A p \in 1..n : FirstPage + 2 * (p - 1) = 5 + 2 * p
    BY DEF FirstPage
  <2>3. f[2].refs = {5 + 2 * p : p \in 1..n}
    BY <1>3, <2>2
  <2> QED
    BY <2>1, <2>3 DEF RefsOf
<1>11. NumbersOf(f, "page") = {5 + 2 * p : p \in 1..n}
  <2>1. {j \in DOMAIN f : f[j].kind = "page"} = {5 + 2 * p : p \in 1..n}
    BY <1>5, <1>6
  <2> QED
    BY <1>5, <2>1 DEF NumbersOf
<1>12. NumbersOf(f, "content") = {6 + 2 * p : p \in 1..n}
  <2>1. {j \in DOMAIN f : f[j].kind = "content"} = {6 + 2 * p : p \in 1..n}
    BY <1>5, <1>6
  <2> QED
    BY <1>5, <2>1 DEF NumbersOf
<1>13. NumbersOf(f, "font") = 3..6
  <2>1. {j \in DOMAIN f : f[j].kind = "font"} = 3..6
    BY <1>6, <1>8
  <2>2. \A j \in 3..6 : f[j].num = j
    BY <1>6, <1>8
  <2> QED
    BY <2>1, <2>2 DEF NumbersOf
<1>14. RefsOf(f, "page") = {2} \cup {6 + 2 * p : p \in 1..n} \cup (3..6)
  <2>1. {j \in DOMAIN f : f[j].kind = "page"} = {5 + 2 * p : p \in 1..n}
    BY <1>5, <1>6
  <2>2. RefsOf(f, "page") = UNION {f[j].refs : j \in {5 + 2 * p : p \in 1..n}}
    BY <2>1 DEF RefsOf
  <2>3. \A x : x \in RefsOf(f, "page") <=> \E p \in 1..n : x \in f[5 + 2 * p].refs
    BY <2>2
  <2>4. 1 \in 1..n
    OBVIOUS
  <2> QED
    BY <1>5, <2>3, <2>4
<1> QED
  BY <1>1, <1>7, <1>9, <1>10, <1>11, <1>12, <1>13, <1>14

(***************************************************************************)
(* Documents: the invariant                                                *)
(***************************************************************************)

\* A line placed: no wider than its column.
DocLine == {l \in [y : Int, leading : Nat, size : Nat, width : Nat, words : Seq(Word), text : Seq(STRING)] :
               LineWidth(l.words, l.size) <= l.width}
DocTyped ==
    /\ todo \in Seq(Seq(Word)) /\ given \in Seq(Word) /\ blocks \in 0..MaxBlocks
    /\ page \in Seq(DocLine) /\ pages \in Seq(Seq(DocLine)) /\ baseline \in Int
    /\ Measured(style) /\ style.open \in BOOLEAN

\* Blocks begin, and the file is written, between blocks.
AtRest ==
    /\ style.open = FALSE => todo = <<>>
    /\ file # <<>> => style.open = FALSE /\ Len(pages) # 0 /\ file = Objects(Len(pages))

\* The lines of a page go down from its top to its bottom margin.
SheetOk(q) ==
    \A i \in 1..Len(q) : /\ q[i].y <= Top /\ q[i].y - q[i].leading >= Margin
                         /\ i > 1 => q[i].y <= q[i - 1].y - q[i - 1].leading

\* Only an empty page is at its top, and only the first page may be empty.
PlaceInv ==
    /\ SheetOk(page) /\ \A p \in 1..Len(pages) : SheetOk(pages[p])
    /\ page = <<>> => baseline = Top
    /\ page # <<>> => baseline <= page[Len(page)].y - page[Len(page)].leading
    /\ file = <<>> => /\ \A p \in 1..Len(pages) : pages[p] # <<>>
                      /\ page = <<>> => pages = <<>>
    /\ file # <<>> => \A p \in 1..Len(pages) : pages[p] = <<>> => Len(pages) = 1

\* What is drawn and what is still to draw is what was given, in lines that fit.
TextOn(lines) == FlattenSeq([i \in DOMAIN lines |-> lines[i].text])
TextInv ==
    /\ Same(TextOn(FlattenSeq(Sheets)) \o Drawn(FlattenSeq(todo)), Drawn(given))
    /\ FitsColumn(todo, style.size, Column(style))

DocIInv == DocTyped /\ AtRest /\ PlaceInv /\ TextInv

\* Any column is wider than any character.
LEMMA Columns ==
  ASSUME NEW s, Measured(s)
  PROVE  /\ s.size \in 110..200 /\ s.size \in Nat /\ s.leading \in 155..260 /\ s.leading \in Nat
         /\ Column(s) \in Nat /\ Wide <= Column(s)
<1>1. s.size \in 110..200 /\ s.size \in Nat /\ s.leading \in 155..260 /\ s.leading \in Nat
  BY DEF Measured
<1>2. s.indent \in 0..180
  BY DEF Measured
<1>3. Column(s) \in Nat /\ Wide <= Column(s)
  BY <1>2, SMT DEF Column, Usable, Wide
<1> QED
  BY <1>1, <1>3

\* A page has room for any line.
LEMMA Lengths == Top \in Int /\ Margin \in Int /\ Top - 260 >= Margin
  BY SMT DEF Top, Margin, PageH

\* A gap goes down, but not at the top of a page.
LEMMA SpacedIs ==
  ASSUME NEW at \in Int, NEW dy \in Nat, at <= Top
  PROVE  Spaced(at, dy) \in Int /\ Spaced(at, dy) <= at /\ (at = Top => Spaced(at, dy) = Top)
<1>1. Top \in Int
  BY Lengths
<1> QED
  BY <1>1 DEF Spaced

LEMMA BaselineBelowTop == ASSUME DocTyped, PlaceInv PROVE baseline <= Top
<1>1. CASE page = <<>>
  BY <1>1, Lengths DEF DocTyped, PlaceInv
<1>2. CASE page # <<>>
  <2>1. PICK n \in Nat : n = Len(page) /\ n # 0
    BY <1>2 DEF DocTyped
  <2>2. page[n] \in DocLine /\ n \in 1..Len(page)
    BY <2>1 DEF DocTyped
  <2>3. page[n].y \in Int /\ page[n].leading \in Nat
    BY <2>2 DEF DocLine
  <2>4. page[n].y <= Top /\ baseline <= page[n].y - page[n].leading
    BY <1>2, <2>1, <2>2 DEF PlaceInv, SheetOk
  <2> QED
    BY <2>3, <2>4, Lengths DEF DocTyped
<1> QED
  BY <1>1, <1>2

\* The text of one more line come last.
LEMMA TextOnAppend ==
  ASSUME NEW lines \in Seq(DocLine), NEW l \in DocLine
  PROVE  /\ TextOn(lines) \in Seq(STRING)
         /\ Same(TextOn(Append(lines, l)), TextOn(lines) \o l.text)
<1> DEFINE v(ls) == [i \in DOMAIN ls |-> ls[i].text]
<1>1. PICK n \in Nat : n = Len(lines) /\ DOMAIN lines = 1..n /\ \A i \in 1..n : lines[i] \in DocLine
  OBVIOUS
<1>2. l.text \in Seq(STRING) /\ \A i \in 1..n : lines[i].text \in Seq(STRING)
  BY <1>1 DEF DocLine
<1>3. v(lines) \in [1..n -> Seq(STRING)]
  BY <1>1, <1>2
<1>4. v(lines) \in Seq(Seq(STRING)) /\ Len(v(lines)) = n
  BY <1>3, IsSeq
<1>5. /\ Append(lines, l) \in Seq(DocLine) /\ Len(Append(lines, l)) = n + 1
      /\ DOMAIN Append(lines, l) = 1..(n + 1) /\ Append(lines, l)[n + 1] = l
      /\ \A i \in 1..n : Append(lines, l)[i] = lines[i]
  BY <1>1
<1>6. ASSUME NEW i \in 1..(n + 1)
      PROVE  v(Append(lines, l))[i] = IF i = n + 1 THEN l.text ELSE v(lines)[i]
  <2>1. v(Append(lines, l))[i] = Append(lines, l)[i].text
    BY <1>5
  <2>2. CASE i = n + 1
    BY <1>5, <2>1, <2>2
  <2>3. CASE i # n + 1
    <3>1. i \in 1..n
      BY <2>3
    <3>2. v(lines)[i] = lines[i].text
      BY <1>1, <3>1
    <3> QED
      BY <1>5, <2>1, <2>3, <3>1, <3>2
  <2> QED
    BY <2>2, <2>3
<1>7. v(Append(lines, l)) = [i \in 1..(n + 1) |-> v(Append(lines, l))[i]]
  BY <1>5
<1>8. TextOn(lines) = FlattenSeq(v(lines)) /\ TextOn(Append(lines, l)) = FlattenSeq(v(Append(lines, l)))
  BY DEF TextOn
<1>9. PICK a, b : a = v(lines) /\ b = v(Append(lines, l))
  OBVIOUS
<1> HIDE DEF v
<1>10. b = Append(a, l.text)
  <2>1. b \in [1..(n + 1) -> Seq(STRING)]
    <3>1. \A i \in 1..(n + 1) : b[i] \in Seq(STRING)
      <4>1. ASSUME NEW i \in 1..(n + 1) PROVE b[i] \in Seq(STRING)
        <5>1. CASE i = n + 1
          BY <1>2, <1>6, <1>9, <5>1
        <5>2. CASE i # n + 1
          <6>1. i \in 1..n
            BY <5>2
          <6> QED
            BY <1>3, <1>6, <1>9, <5>2, <6>1
        <5> QED
          BY <5>1, <5>2
      <4> QED
        BY <4>1
    <3>2. b = [i \in 1..(n + 1) |-> b[i]]
      BY <1>7, <1>9
    <3> QED
      BY <3>1, <3>2
  <2>2. b \in Seq(Seq(STRING)) /\ Len(b) = n + 1
    BY <2>1, IsSeq
  <2> DEFINE c == Append(a, l.text)
  <2>3. c \in Seq(Seq(STRING)) /\ Len(c) = n + 1 /\ c[n + 1] = l.text /\ \A i \in 1..n : c[i] = a[i]
    BY <1>2, <1>4, <1>9
  <2> HIDE DEF c
  <2>4. ASSUME NEW i \in 1..(n + 1) PROVE b[i] = c[i]
    <3>1. i = n + 1 \/ i \in 1..n
      OBVIOUS
    <3> QED
      BY <1>6, <1>9, <2>3, <3>1
  <2>5. b = c
    BY <2>2, <2>3, <2>4, SeqEqual
  <2> QED
    BY <2>5 DEF c
<1>11. FlattenSeq(a) \in Seq(STRING) /\ FlattenSeq(Append(a, l.text)) = FlattenSeq(a) \o l.text
  BY <1>2, <1>4, <1>9, FlattenAppend
<1> QED
  BY <1>8, <1>9, <1>10, <1>11 DEF Same

\* A line placed comes last, on the page or on a page of its own.
LEMMA PlacedLast ==
  ASSUME NEW S, NEW ps \in Seq(Seq(S)), NEW q \in Seq(S), NEW l \in S
  PROVE  /\ FlattenSeq(Append(ps, q)) \in Seq(S)
         /\ Same(FlattenSeq(Append(ps, Append(q, l))), Append(FlattenSeq(Append(ps, q)), l))
         /\ Same(FlattenSeq(Append(Append(ps, q), <<l>>)), Append(FlattenSeq(Append(ps, q)), l))
<1>1. PICK one \in Seq(S), more \in Seq(S), f \in Seq(S) :
        one = <<l>> /\ more = Append(q, l) /\ f = FlattenSeq(ps) /\ Same(more, q \o one)
  BY OneMore, FlattenAppend
<1>2. PICK psq \in Seq(Seq(S)), all \in Seq(S) :
        psq = Append(ps, q) /\ all = FlattenSeq(psq) /\ Same(all, f \o q)
  <2>1. Append(ps, q) \in Seq(Seq(S))
    OBVIOUS
  <2>2. FlattenSeq(Append(ps, q)) \in Seq(S) /\ FlattenSeq(Append(ps, q)) = FlattenSeq(ps) \o q
    BY <2>1, FlattenAppend
  <2> QED
    BY <1>1, <2>1, <2>2 DEF Same
<1>3. PICK end \in Seq(S) : end = Append(all, l) /\ Same(end, all \o one)
  <2>1. Append(all, l) \in Seq(S) /\ Same(Append(all, l), all \o <<l>>)
    BY OneMore
  <2> QED
    BY <1>1, <2>1
<1>4. FlattenSeq(Append(ps, more)) = f \o more
  BY <1>1, FlattenAppend
<1>5. Same((f \o q) \o one, f \o (q \o one))
  BY Regroups
<1>6. FlattenSeq(Append(ps, more)) = end
  BY <1>1, <1>2, <1>3, <1>4, <1>5 DEF Same
<1>7. FlattenSeq(Append(psq, one)) = all \o one
  BY <1>2, FlattenAppend
<1>8. FlattenSeq(Append(psq, one)) = end
  BY <1>3, <1>7 DEF Same
<1> QED
  BY <1>1, <1>2, <1>3, <1>6, <1>8 DEF Same

\* The text of a line placed was the first of what was to draw.
LEMMA TextMoves ==
  ASSUME NEW lines \in Seq(DocLine), NEW l \in DocLine, NEW t \in Seq(Seq(Word)), t # <<>>,
         l.text = Drawn(Head(t))
  PROVE  Same(TextOn(Append(lines, l)) \o Drawn(FlattenSeq(Tail(t))), TextOn(lines) \o Drawn(FlattenSeq(t)))
<1>1. PICK a \in Seq(STRING), b \in Seq(STRING), c \in Seq(STRING) :
        /\ a = TextOn(lines) /\ b = Drawn(Head(t)) /\ c = Drawn(FlattenSeq(Tail(t)))
        /\ Drawn(FlattenSeq(t)) = b \o c
  <2>1. TextOn(lines) \in Seq(STRING)
    BY TextOnAppend
  <2>2. PICK hd \in Seq(Word), tl \in Seq(Word) :
          hd = Head(t) /\ tl = FlattenSeq(Tail(t)) /\ FlattenSeq(t) = hd \o tl
    <3>1. /\ Head(t) \in Seq(Word) /\ FlattenSeq(Tail(t)) \in Seq(Word)
          /\ FlattenSeq(t) = Head(t) \o FlattenSeq(Tail(t))
      BY FlattenHead
    <3> QED
      BY <3>1
  <2>3. Drawn(hd) \in Seq(STRING) /\ Drawn(tl) \in Seq(STRING)
    BY DrawnSeq
  <2>4. Drawn(hd \o tl) = Drawn(hd) \o Drawn(tl)
    BY DrawnJoin DEF Same
  <2> QED
    BY <2>1, <2>2, <2>3, <2>4
<1>2. TextOn(Append(lines, l)) = a \o b
  BY <1>1, TextOnAppend DEF Same
<1>3. Same((a \o b) \o c, a \o (b \o c))
  BY Regroups
<1> QED
  BY <1>1, <1>2, <1>3 DEF Same

\* A line below the last keeps the lines of a page in order.
LEMMA SheetGrows ==
  ASSUME NEW q \in Seq(DocLine), SheetOk(q), NEW l \in DocLine,
         l.y <= Top, l.y - l.leading >= Margin,
         q # <<>> => l.y <= q[Len(q)].y - q[Len(q)].leading
  PROVE  SheetOk(Append(q, l))
<1>1. PICK n \in Nat : n = Len(q)
  OBVIOUS
<1>2. PICK z \in Seq(DocLine) : /\ z = Append(q, l) /\ Len(z) = n + 1 /\ z[n + 1] = l
                                /\ \A i \in 1..n : z[i] = q[i]
  <2>1. /\ Append(q, l) \in Seq(DocLine) /\ Len(Append(q, l)) = n + 1 /\ Append(q, l)[n + 1] = l
        /\ \A i \in 1..n : Append(q, l)[i] = q[i]
    BY <1>1
  <2> QED
    BY <2>1
<1>3. ASSUME NEW i \in 1..(n + 1)
      PROVE  /\ z[i].y <= Top /\ z[i].y - z[i].leading >= Margin
             /\ i > 1 => z[i].y <= z[i - 1].y - z[i - 1].leading
  <2>1. CASE i = n + 1
    <3>1. z[i] = l
      BY <1>2, <2>1
    <3>2. ASSUME i > 1 PROVE z[i].y <= z[i - 1].y - z[i - 1].leading
      <4>1. i - 1 = n /\ n \in 1..n
        BY <2>1, <3>2
      <4>2. q # <<>>
        BY <1>1, <4>1
      <4> QED
        BY <1>1, <1>2, <3>1, <4>1, <4>2
    <3> QED
      BY <3>1, <3>2
  <2>2. CASE i # n + 1
    <3>1. i \in 1..n /\ (i > 1 => i - 1 \in 1..n)
      BY <2>2
    <3>2. z[i] = q[i] /\ (i > 1 => z[i - 1] = q[i - 1])
      BY <1>2, <3>1
    <3>3. /\ q[i].y <= Top /\ q[i].y - q[i].leading >= Margin
          /\ i > 1 => q[i].y <= q[i - 1].y - q[i - 1].leading
      BY <1>1, <3>1 DEF SheetOk
    <3> QED
      BY <3>2, <3>3
  <2> QED
    BY <2>1, <2>2
<1> QED
  BY <1>2, <1>3 DEF SheetOk

\* No lines, no text.
LEMMA NothingOn == TextOn(<<>>) = <<>>
<1>1. PICK e, v : e = <<>> /\ v = [i \in DOMAIN e |-> e[i].text] /\ DOMAIN e = 1..0
  <2>1. PICK e : e = <<>> /\ DOMAIN e = 1..0
    OBVIOUS
  <2>2. PICK v : v = [i \in DOMAIN e |-> e[i].text]
    OBVIOUS
  <2> QED
    BY <2>1, <2>2
<1>2. v \in Seq({}) /\ Len(v) = 0
  <2>1. v \in [1..0 -> {}]
    BY <1>1
  <2> QED
    BY <2>1, IsSeq
<1>3. v = <<>>
  BY <1>2, SeqIsFunction
<1> QED
  BY <1>1, <1>3, FlattenEmpty DEF TextOn

\* The invariant holds at first and every step keeps it.
LEMMA DocStarts == ASSUME DocInit PROVE DocIInv
<1>1. PICK e : e = <<>> /\ e \in Seq(Seq(Word)) /\ e \in Seq(Word) /\ e \in Seq(DocLine)
              /\ e \in Seq(Seq(DocLine)) /\ Len(e) = 0
  BY EmptySeq
<1>2. /\ todo = e /\ page = e /\ pages = e /\ given = e /\ file = e
      /\ style = Between /\ baseline = Top /\ blocks = 0
  BY <1>1 DEF DocInit
<1>3. Measured(Between) /\ Between.open = FALSE
  BY Styles
<1>4. DocTyped
  <2>1. 0 \in 0..MaxBlocks
    BY DocumentAssumption
  <2> QED
    BY <1>1, <1>2, <1>3, <2>1, Lengths DEF DocTyped
<1>5. AtRest
  BY <1>1, <1>2 DEF AtRest
<1>6. PlaceInv
  <2>1. SheetOk(e)
    BY <1>1 DEF SheetOk
  <2>2. \A p \in 1..Len(e) : SheetOk(e[p]) /\ e[p] # <<>>
    BY <1>1
  <2> QED
    BY <1>1, <1>2, <2>1, <2>2 DEF PlaceInv
<1>7. TextInv
  <2>1. Sheets = Append(e, e)
    BY <1>1, <1>2 DEF Sheets
  <2>2. FlattenSeq(Append(e, e)) = e
    <3>1. FlattenSeq(Append(e, e)) = FlattenSeq(e) \o e
      BY <1>1, FlattenAppend
    <3>2. FlattenSeq(e) = e /\ e \o e = e
      BY <1>1, FlattenEmpty
    <3> QED
      BY <3>1, <3>2
  <2>3. TextOn(e) = e /\ FlattenSeq(e) = e /\ e \o e = e /\ Drawn(e) = e
    BY <1>1, NothingOn, FlattenEmpty, NothingDrawn
  <2>4. FitsColumn(todo, style.size, Column(style))
    BY <1>1, <1>2 DEF FitsColumn
  <2>5. Same(TextOn(FlattenSeq(Sheets)) \o Drawn(FlattenSeq(todo)), Drawn(given))
    BY <1>2, <2>1, <2>2, <2>3 DEF Same
  <2> QED
    BY <2>4, <2>5 DEF TextInv
<1> QED
  BY <1>4, <1>5, <1>6, <1>7 DEF DocIInv

LEMMA NarrowSeq == ASSUME NEW size, NEW max, NEW q \in Seq(Narrow(size, max)) PROVE q \in Seq(Word)
<1>1. PICK n \in Nat : n = Len(q) /\ q \in [1..n -> Narrow(size, max)]
  <2>1. Len(q) \in Nat
    OBVIOUS
  <2> QED
    BY <2>1, SeqIsFunction
<1>2. q \in [1..n -> Word]
  BY <1>1 DEF Narrow
<1> QED
  BY <1>2, IsSeq

LEMMA TextIsText == ASSUME NEW lines \in Seq(DocLine) PROVE TextOn(lines) \in Seq(STRING)
<1>1. PICK n \in Nat : n = Len(lines) /\ DOMAIN lines = 1..n /\ \A i \in 1..n : lines[i] \in DocLine
  OBVIOUS
<1>2. \A i \in 1..n : lines[i].text \in Seq(STRING)
  BY <1>1 DEF DocLine
<1>3. [i \in DOMAIN lines |-> lines[i].text] \in [1..n -> Seq(STRING)]
  BY <1>1, <1>2
<1> QED
  BY <1>3, FlattenIsSeq DEF TextOn

LEMMA Gaps == ASSUME NEW s, Measured(s) PROVE s.before \in Nat /\ s.after \in Nat
  BY DEF Measured

\* Going down keeps the baseline below the last line of the page.
LEMMA LowerStill ==
  ASSUME DocTyped, PlaceInv, page # <<>>, NEW y \in Int, y <= baseline
  PROVE  y <= page[Len(page)].y - page[Len(page)].leading
<1>1. Len(page) \in 1..Len(page)
  BY DEF DocTyped
<1>2. page[Len(page)] \in DocLine
  BY <1>1 DEF DocTyped
<1>3. page[Len(page)].y \in Int /\ page[Len(page)].leading \in Nat /\ baseline \in Int
  BY <1>2 DEF DocLine, DocTyped
<1>4. baseline <= page[Len(page)].y - page[Len(page)].leading
  BY DEF PlaceInv
<1> QED
  BY <1>3, <1>4

\* While the file is not written the last sheet is the current page.
LEMMA OpenSheets ==
  ASSUME DocIInv, file = <<>>
  PROVE  /\ Sheets = Append(pages, page) /\ FlattenSeq(Sheets) \in Seq(DocLine)
         /\ TextOn(FlattenSeq(Sheets)) \in Seq(STRING)
<1>1. PICK ps \in Seq(Seq(DocLine)), q \in Seq(DocLine) : ps = pages /\ q = page
  BY DEF DocIInv, DocTyped
<1>2. Sheets = Append(ps, q) /\ Append(ps, q) \in Seq(Seq(DocLine))
  BY <1>1 DEF Sheets
<1>3. FlattenSeq(Append(ps, q)) \in Seq(DocLine)
  <2>1. FlattenSeq(Append(ps, q)) = FlattenSeq(ps) \o q /\ FlattenSeq(ps) \in Seq(DocLine)
    BY FlattenAppend
  <2> QED
    BY <2>1
<1>4. TextOn(FlattenSeq(Append(ps, q))) \in Seq(STRING)
  BY <1>3, TextIsText
<1> QED
  BY <1>1, <1>2, <1>3, <1>4

LEMMA BeginKeeps == ASSUME DocIInv, BeginBlock PROVE DocIInv'
<1>1. PICK b \in Inputs :
        /\ style' = StyleOf(b.kind) /\ baseline' = Spaced(baseline, StyleOf(b.kind).before)
        /\ todo' = IF b.kind = "rule" THEN <<>>
                   ELSE WrapWords(WordsOf(b.words, StyleOf(b.kind).size, Column(StyleOf(b.kind))),
                                  StyleOf(b.kind).size, Column(StyleOf(b.kind)))
        /\ given' = IF b.kind = "rule" THEN given
                    ELSE given \o b.words
  BY DEF BeginBlock
<1>2. style.open # TRUE /\ file = <<>> /\ blocks < MaxBlocks /\ blocks' = blocks + 1
      /\ page' = page /\ pages' = pages /\ file' = file
  BY DEF BeginBlock
<1>3. PICK s : /\ s = StyleOf(b.kind) /\ Measured(s) /\ s.open = TRUE
               /\ style' = s /\ baseline' = Spaced(baseline, s.before)
  <2>1. b.kind \in STRING
    BY InputAssumption
  <2> QED
    BY <1>1, <2>1, Styles
<1>4. PICK size \in 110..200, max \in Nat :
        /\ size = s.size /\ max = Column(s) /\ Wide <= max /\ size \in Nat
  BY <1>3, Columns
<1>5. PICK raw \in Seq(Word), words \in Seq(Narrow(size, max)) :
        raw = b.words /\ words = WordsOf(b.words, size, max) /\ Drawn(words) = Drawn(raw)
  <2>1. PICK raw \in Seq(Word) : raw = b.words
    BY InputAssumption
  <2>2. WordsOf(raw, size, max) \in Seq(Narrow(size, max))
    BY <1>4, WordsFit
  <2>3. Drawn(WordsOf(raw, size, max)) = Drawn(raw)
    BY <1>4, WordsDraw DEF Same
  <2> QED
    BY <2>1, <2>2, <2>3
<1>6. words \in Seq(Word)
  BY NarrowSeq
<1>7. PICK e : e = <<>> /\ e \in Seq(Seq(Word)) /\ e \in Seq(Word) /\ Len(e) = 0
  BY EmptySeq
<1>8. todo = e
  BY <1>2, <1>7 DEF DocIInv, DocTyped, AtRest
<1>9. PICK t \in Seq(Seq(Word)), w \in Seq(Word) :
        /\ todo' = t /\ given' = given \o w /\ Drawn(FlattenSeq(t)) = Drawn(w) /\ FitsColumn(t, size, max)
  <2>1. CASE b.kind = "rule"
    <3>1. todo' = e /\ given' = given
      BY <1>1, <1>7, <2>1
    <3>2. Same(FlattenSeq(e), e) /\ FitsColumn(e, size, max)
      BY <1>7, FlattenEmpty DEF Same, FitsColumn
    <3>3. given \o e = given
      BY <1>7 DEF DocIInv, DocTyped
    <3> QED
      BY <1>7, <3>1, <3>2, <3>3 DEF Same
  <2>2. CASE b.kind # "rule"
    <3>1. todo' = WrapWords(words, size, max) /\ given' = given \o raw
      BY <1>1, <1>3, <1>4, <1>5, <2>2
    <3>2. /\ WrapWords(words, size, max) \in Seq(Seq(Word))
          /\ FitsColumn(WrapWords(words, size, max), size, max)
          /\ Same(FlattenSeq(WrapWords(words, size, max)), words)
      BY <1>4, WrapFits
    <3> QED
      BY <1>5, <3>1, <3>2 DEF Same
  <2> QED
    BY <2>1, <2>2
<1>10. /\ baseline' \in Int /\ baseline' <= baseline /\ (baseline = Top => baseline' = Top)
       /\ baseline \in Int
  <2>1. baseline \in Int /\ baseline <= Top /\ s.before \in Nat
    <3>1. baseline \in Int /\ DocTyped /\ PlaceInv
      BY DEF DocIInv, DocTyped
    <3>2. s.before \in Nat
      BY <1>3, Gaps
    <3> QED
      BY <3>1, <3>2, BaselineBelowTop
  <2> QED
    BY <1>3, <2>1, SpacedIs
<1>11. DocTyped'
  <2>1. blocks' \in 0..MaxBlocks
    BY <1>2, DocumentAssumption DEF DocIInv, DocTyped
  <2>2. given' \in Seq(Word)
    BY <1>9 DEF DocIInv, DocTyped
  <2>3. Measured(style') /\ style'.open \in BOOLEAN
    BY <1>3
  <2>4. page' \in Seq(DocLine) /\ pages' \in Seq(Seq(DocLine))
    BY <1>2 DEF DocIInv, DocTyped
  <2> QED
    BY <1>9, <1>10, <2>1, <2>2, <2>3, <2>4 DEF DocTyped
<1>12. AtRest'
  <2>1. style'.open # FALSE
    BY <1>3
  <2> QED
    BY <1>2, <2>1 DEF AtRest
<1>13. PlaceInv'
  <2>1. page = <<>> => baseline' = Top
    BY <1>10 DEF DocIInv, PlaceInv
  <2>2. ASSUME page # <<>> PROVE baseline' <= page[Len(page)].y - page[Len(page)].leading
    BY <1>10, <2>2, LowerStill DEF DocIInv
  <2>3. /\ SheetOk(page) /\ \A p \in 1..Len(pages) : SheetOk(pages[p])
        /\ \A p \in 1..Len(pages) : pages[p] # <<>>
        /\ page = <<>> => pages = <<>>
    BY <1>2 DEF DocIInv, PlaceInv
  <2> QED
    BY <1>2, <2>1, <2>2, <2>3 DEF PlaceInv
<1>14. TextInv'
  <2>1. PICK on \in Seq(STRING) : on = TextOn(FlattenSeq(Sheets))
    BY <1>2, OpenSheets
  <2>2. TextOn(FlattenSeq(Sheets))' = on
    <3>1. Sheets' = Sheets
      BY <1>2 DEF Sheets
    <3> QED
      BY <2>1, <3>1
  <2>3. PICK old \in Seq(Word) : old = given /\ Drawn(old) = on
    <3>1. Same(on \o Drawn(FlattenSeq(e)), Drawn(given)) /\ given \in Seq(Word)
      BY <1>8, <2>1 DEF DocIInv, DocTyped, TextInv
    <3>2. Drawn(FlattenSeq(e)) = e /\ on \o e = on
      BY <1>7, FlattenEmpty, NothingDrawn
    <3> QED
      BY <3>1, <3>2 DEF Same
  <2>4. Same(TextOn(FlattenSeq(Sheets))' \o Drawn(FlattenSeq(todo')), Drawn(given'))
    <3>1. Drawn(old \o w) = Drawn(old) \o Drawn(w)
      BY DrawnJoin DEF Same
    <3>2. given' = old \o w /\ Drawn(FlattenSeq(todo')) = Drawn(w)
      BY <1>9, <2>3
    <3> QED
      BY <2>2, <2>3, <3>1, <3>2 DEF Same
  <2>5. FitsColumn(todo', style'.size, Column(style'))
    BY <1>3, <1>4, <1>9
  <2> QED
    BY <2>4, <2>5 DEF TextInv
<1> QED
  BY <1>11, <1>12, <1>13, <1>14 DEF DocIInv

LEMMA LastIs ==
  ASSUME NEW S, NEW q \in Seq(S), NEW x \in S
  PROVE  Append(q, x) \in Seq(S) /\ Append(q, x) # <<>> /\ Append(q, x)[Len(Append(q, x))] = x
<1>1. Append(q, x) \in Seq(S) /\ Append(q, x) # <<>>
  BY OneMore
<1>2. Len(Append(q, x)) = Len(q) + 1 /\ Append(q, x)[Len(q) + 1] = x
  OBVIOUS
<1> QED
  BY <1>1, <1>2

LEMMA FitsTail ==
  ASSUME NEW t \in Seq(Seq(Word)), t # <<>>, NEW size \in Nat, NEW max \in Nat, FitsColumn(t, size, max)
  PROVE  /\ Head(t) \in Seq(Word) /\ Tail(t) \in Seq(Seq(Word)) /\ LineWidth(Head(t), size) <= max
         /\ FitsColumn(Tail(t), size, max)
<1>1. PICK n \in Nat : n + 1 = Len(t)
  <2>1. Len(t) \in Nat /\ Len(t) # 0
    OBVIOUS
  <2>2. Len(t) - 1 \in Nat /\ (Len(t) - 1) + 1 = Len(t)
    BY <2>1
  <2> QED
    BY <2>2
<1>2. PICK tl \in Seq(Seq(Word)) : tl = Tail(t) /\ Len(tl) = n /\ \A k \in 1..n : tl[k] = t[k + 1]
  <2>1. Tail(t) \in Seq(Seq(Word)) /\ Len(Tail(t)) = n
    BY <1>1
  <2>2. \A k \in 1..n : Tail(t)[k] = t[k + 1]
    BY <1>1
  <2> QED
    BY <2>1, <2>2
<1>3. \A k \in 1..n : k + 1 \in 1..(n + 1)
  OBVIOUS
<1>4. \A k \in 1..(n + 1) : LineWidth(t[k], size) <= max
  BY <1>1 DEF FitsColumn
<1>5. FitsColumn(tl, size, max)
  BY <1>2, <1>3, <1>4 DEF FitsColumn
<1>6. Head(t) = t[1] /\ Head(t) \in Seq(Word) /\ 1 \in 1..(n + 1)
  BY <1>1
<1> QED
  BY <1>2, <1>4, <1>5, <1>6

LEMMA SheetsGrow ==
  ASSUME NEW ps \in Seq(Seq(DocLine)), NEW q \in Seq(DocLine), SheetOk(q), q # <<>>,
         \A p \in 1..Len(ps) : SheetOk(ps[p]) /\ ps[p] # <<>>
  PROVE  /\ Append(ps, q) \in Seq(Seq(DocLine))
         /\ \A p \in 1..Len(Append(ps, q)) : SheetOk(Append(ps, q)[p]) /\ Append(ps, q)[p] # <<>>
<1>1. PICK n \in Nat : n = Len(ps)
  OBVIOUS
<1>2. /\ Append(ps, q) \in Seq(Seq(DocLine)) /\ Len(Append(ps, q)) = n + 1 /\ Append(ps, q)[n + 1] = q
      /\ \A p \in 1..n : Append(ps, q)[p] = ps[p]
  BY <1>1
<1> DEFINE z == Append(ps, q)
<1>3. z \in Seq(Seq(DocLine)) /\ Len(z) = n + 1 /\ z[n + 1] = q /\ \A p \in 1..n : z[p] = ps[p]
  BY <1>2
<1> HIDE DEF z
<1>4. \A p \in 1..(n + 1) : p = n + 1 \/ p \in 1..n
  OBVIOUS
<1>5. \A p \in 1..(n + 1) : SheetOk(z[p]) /\ z[p] # <<>>
  BY <1>1, <1>3, <1>4
<1> QED
  BY <1>3, <1>5 DEF z

LEMMA PlaceKeeps == ASSUME DocIInv, PlaceLine PROVE DocIInv'
<1>1. /\ todo # <<>> /\ todo' = Tail(todo) /\ style' = style /\ blocks' = blocks
      /\ given' = given /\ file' = file
  BY DEF PlaceLine
<1>2. file = <<>> /\ style.open # FALSE
  BY <1>1 DEF DocIInv, AtRest
<1>3. PICK t \in Seq(Seq(Word)), q \in Seq(DocLine), ps \in Seq(Seq(DocLine)), at \in Int, size \in Nat,
           max \in Nat, lead \in 155..260 :
        /\ t = todo /\ q = page /\ ps = pages /\ at = baseline
        /\ size = style.size /\ max = Column(style) /\ lead = style.leading /\ t # <<>>
  <2>1. todo \in Seq(Seq(Word)) /\ page \in Seq(DocLine) /\ pages \in Seq(Seq(DocLine)) /\ baseline \in Int
    BY DEF DocIInv, DocTyped
  <2>2. style.size \in Nat /\ Column(style) \in Nat /\ style.leading \in 155..260
    <3>1. Measured(style)
      BY DEF DocIInv, DocTyped
    <3> QED
      BY <3>1, Columns
  <2> QED
    BY <1>1, <2>1, <2>2
<1>4. PICK top \in Int, low \in Int : top = Top /\ low = Margin /\ top - 260 >= low
  BY Lengths
<1>5. Head(t) \in Seq(Word) /\ Tail(t) \in Seq(Seq(Word)) /\ LineWidth(Head(t), size) <= max
      /\ FitsColumn(Tail(t), size, max)
  <2>1. FitsColumn(t, size, max)
    BY <1>3 DEF DocIInv, TextInv
  <2> QED
    BY <1>3, <2>1, FitsTail
<1> DEFINE Moved(y, l) ==
        /\ l.y = y /\ l.leading = lead /\ l.text = Drawn(Head(t))
        /\ y <= top /\ y - lead >= low /\ baseline' = y - lead
        /\ \/ y = at /\ page' = Append(q, l) /\ pages' = ps
           \/ y = top /\ page' = <<l>> /\ pages' = Append(ps, q) /\ at - lead < low
<1>6. PICK y \in Int, l \in DocLine : Moved(y, l)
  <2>1. ASSUME NEW y \in Int
        PROVE  /\ Placed(y) \in DocLine /\ Placed(y).y = y /\ Placed(y).leading = lead
               /\ Placed(y).text = Drawn(Head(t))
    <3>1. PICK hd \in Seq(Word), tx \in Seq(STRING) :
            hd = Head(t) /\ tx = Drawn(hd) /\ LineWidth(hd, size) <= max
      BY <1>5, DrawnSeq
    <3>2. lead \in Nat
      OBVIOUS
    <3>3. PICK z : z = [y |-> y, leading |-> lead, size |-> size, width |-> max, words |-> hd,
                        text |-> tx]
      OBVIOUS
    <3>4. z \in [y : Int, leading : Nat, size : Nat, width : Nat, words : Seq(Word),
               text : Seq(STRING)]
      BY <3>2, <3>3
    <3>5. z.y = y /\ z.leading = lead /\ z.size = size /\ z.width = max /\ z.words = hd
          /\ z.text = tx
      BY <3>3
    <3>6. z \in DocLine
      BY <3>1, <3>4, <3>5 DEF DocLine
    <3>7. Placed(y) = z
      BY <1>3, <3>1, <3>3 DEF Placed
    <3> QED
      BY <3>1, <3>5, <3>6, <3>7
  <2>2. at <= top
    BY <1>3, <1>4, BaselineBelowTop DEF DocIInv
  <2>3. CASE at - lead >= low
    <3>1. page' = Append(q, Placed(at)) /\ pages' = ps /\ baseline' = at - lead
      BY <1>3, <1>4, <2>3 DEF PlaceLine
    <3> QED
      BY <2>1, <2>2, <2>3, <3>1
  <2>4. CASE at - lead < low
    <3>1. page' = <<Placed(top)>> /\ pages' = Append(ps, q) /\ baseline' = top - lead
      BY <1>3, <1>4, <2>4 DEF PlaceLine
    <3>2. top - lead >= low /\ top <= top
      BY <1>4
    <3>3. PICK l \in DocLine : l = Placed(top) /\ l.y = top /\ l.leading = lead
                              /\ l.text = Drawn(Head(t))
      BY <1>4, <2>1
    <3>4. page' = <<l>>
      BY <3>1, <3>3
    <3>5. Moved(top, l)
      BY <2>4, <3>1, <3>2, <3>3, <3>4
    <3>6. top \in Int /\ l \in DocLine
      BY <1>4, <3>3
    <3> HIDE DEF Moved
    <3> QED
      BY <3>5, <3>6
  <2>5. at - lead >= low \/ at - lead < low
    OBVIOUS
  <2> HIDE DEF Moved
  <2> QED
    BY <2>3, <2>4, <2>5
<1>7. l.y = y /\ l.leading = lead /\ l.text = Drawn(Head(t)) /\ y <= top /\ y - lead >= low
  BY <1>6
<1>8. /\ SheetOk(q) /\ \A p \in 1..Len(ps) : SheetOk(ps[p]) /\ ps[p] # <<>>
      /\ q = <<>> => at = top /\ ps = <<>>
      /\ q # <<>> => at <= q[Len(q)].y - q[Len(q)].leading
  BY <1>2, <1>3, <1>4 DEF DocIInv, PlaceInv
<1>9. PICK q2 \in Seq(DocLine), ps2 \in Seq(Seq(DocLine)) :
        /\ page' = q2 /\ pages' = ps2 /\ SheetOk(q2) /\ q2 # <<>> /\ q2[Len(q2)] = l
        /\ \A p \in 1..Len(ps2) : SheetOk(ps2[p]) /\ ps2[p] # <<>>
        /\ Same(FlattenSeq(Append(ps2, q2)), Append(FlattenSeq(Append(ps, q)), l))
  <2>1. CASE y = at /\ page' = Append(q, l) /\ pages' = ps
    <3>1. SheetOk(Append(q, l))
      BY <1>4, <1>7, <1>8, <2>1, SheetGrows
    <3>2. /\ Append(q, l) \in Seq(DocLine) /\ Append(q, l) # <<>>
          /\ Append(q, l)[Len(Append(q, l))] = l
      BY LastIs
    <3>3. Same(FlattenSeq(Append(ps, Append(q, l))), Append(FlattenSeq(Append(ps, q)), l))
      BY PlacedLast
    <3> QED
      BY <1>8, <2>1, <3>1, <3>2, <3>3
  <2>2. CASE y = top /\ page' = <<l>> /\ pages' = Append(ps, q) /\ at - lead < low
    <3>1. PICK e \in Seq(DocLine) : e = <<>> /\ Len(e) = 0 /\ SheetOk(e)
      <4>1. PICK e \in Seq(DocLine) : e = <<>> /\ Len(e) = 0
        BY EmptySeq
      <4>2. SheetOk(e)
        BY <4>1 DEF SheetOk
      <4> QED
        BY <4>1, <4>2
    <3>2. PICK one : one = Append(e, l) /\ one = <<l>>
      BY <3>1, AloneIs DEF Same
    <3>3. SheetOk(one)
      BY <1>4, <1>7, <3>1, <3>2, SheetGrows
    <3>4. one \in Seq(DocLine) /\ one # <<>> /\ one[Len(one)] = l
      BY <3>1, <3>2, LastIs
    <3>5. q # <<>>
      BY <1>4, <1>8, <2>2
    <3>6. PICK more \in Seq(Seq(DocLine)) : /\ more = Append(ps, q)
                                            /\ \A p \in 1..Len(more) : SheetOk(more[p]) /\ more[p] # <<>>
      BY <1>8, <3>5, SheetsGrow
    <3>7. Same(FlattenSeq(Append(more, one)), Append(FlattenSeq(Append(ps, q)), l))
      BY <3>2, <3>6, PlacedLast
    <3> QED
      BY <2>2, <3>2, <3>3, <3>4, <3>6, <3>7
  <2> QED
    BY <1>6, <2>1, <2>2
<1>10. DocTyped'
  <2>1. given' \in Seq(Word) /\ blocks' \in 0..MaxBlocks /\ Measured(style') /\ style'.open \in BOOLEAN
    BY <1>1 DEF DocIInv, DocTyped
  <2>2. baseline' \in Int
    BY <1>6
  <2>3. todo' \in Seq(Seq(Word))
    BY <1>1, <1>3, <1>5
  <2> QED
    BY <1>9, <2>1, <2>2, <2>3 DEF DocTyped
<1>11. AtRest'
  BY <1>1, <1>2 DEF AtRest
<1>12. PlaceInv'
  <2>1. baseline' <= q2[Len(q2)].y - q2[Len(q2)].leading
    <3>1. baseline' = y - lead
      BY <1>6
    <3> QED
      BY <1>7, <1>9, <3>1
  <2> QED
    BY <1>1, <1>2, <1>9, <2>1 DEF PlaceInv
<1>13. TextInv'
  <2>1. PICK all \in Seq(DocLine) : all = FlattenSeq(Append(ps, q)) /\ FlattenSeq(Sheets) = all
    BY <1>2, <1>3, OpenSheets
  <2>2. FlattenSeq(Sheets)' = Append(all, l)
    <3>1. Sheets' = Append(ps2, q2)
      BY <1>1, <1>2, <1>9 DEF Sheets
    <3> QED
      BY <1>9, <2>1, <3>1 DEF Same
  <2>3. Same(TextOn(Append(all, l)) \o Drawn(FlattenSeq(Tail(t))), TextOn(all) \o Drawn(FlattenSeq(t)))
    BY <1>3, <1>7, TextMoves
  <2>4. Same(TextOn(all) \o Drawn(FlattenSeq(t)), Drawn(given))
    BY <1>3, <2>1 DEF DocIInv, TextInv
  <2>5. TextOn(FlattenSeq(Sheets))' = TextOn(Append(all, l))
    BY <2>2
  <2>6. Same(TextOn(FlattenSeq(Sheets))' \o Drawn(FlattenSeq(todo')), Drawn(given'))
    BY <1>1, <1>3, <2>3, <2>4, <2>5 DEF Same
  <2>7. FitsColumn(todo', style'.size, Column(style'))
    BY <1>1, <1>3, <1>5
  <2> QED
    BY <2>6, <2>7 DEF TextInv
<1> QED
  BY <1>10, <1>11, <1>12, <1>13 DEF DocIInv

LEMMA EndKeeps == ASSUME DocIInv, EndBlock PROVE DocIInv'
<1>1. /\ style.open = TRUE /\ todo = <<>> /\ style' = Between /\ baseline' = Spaced(baseline, style.after)
      /\ todo' = todo /\ page' = page /\ pages' = pages /\ blocks' = blocks /\ given' = given /\ file' = file
  <2>1. style.open \in BOOLEAN
    BY DEF DocIInv, DocTyped
  <2> QED
    BY <2>1 DEF EndBlock
<1>2. file = <<>>
  BY <1>1 DEF DocIInv, AtRest
<1>3. Measured(Between) /\ Between.open = FALSE
  BY Styles
<1>4. /\ baseline' \in Int /\ baseline' <= baseline /\ (baseline = Top => baseline' = Top)
      /\ baseline \in Int
  <2>1. baseline \in Int /\ baseline <= Top /\ style.after \in Nat
    <3>1. baseline \in Int /\ DocTyped /\ PlaceInv /\ Measured(style)
      BY DEF DocIInv, DocTyped
    <3> QED
      BY <3>1, Gaps, BaselineBelowTop
  <2> QED
    BY <1>1, <2>1, SpacedIs
<1>5. DocTyped'
  BY <1>1, <1>3, <1>4 DEF DocIInv, DocTyped
<1>6. AtRest'
  BY <1>1, <1>2 DEF AtRest
<1>7. PlaceInv'
  <2>1. page = <<>> => baseline' = Top
    BY <1>4 DEF DocIInv, PlaceInv
  <2>2. ASSUME page # <<>> PROVE baseline' <= page[Len(page)].y - page[Len(page)].leading
    BY <1>4, <2>2, LowerStill DEF DocIInv
  <2>3. /\ SheetOk(page) /\ \A p \in 1..Len(pages) : SheetOk(pages[p])
        /\ \A p \in 1..Len(pages) : pages[p] # <<>>
        /\ page = <<>> => pages = <<>>
    BY <1>2 DEF DocIInv, PlaceInv
  <2> QED
    BY <1>1, <1>2, <2>1, <2>2, <2>3 DEF PlaceInv
<1>8. TextInv'
  <2>1. Sheets' = Sheets
    BY <1>1 DEF Sheets
  <2>2. Same(TextOn(FlattenSeq(Sheets))' \o Drawn(FlattenSeq(todo')), Drawn(given'))
    BY <1>1, <2>1 DEF DocIInv, TextInv
  <2>3. FitsColumn(todo', style'.size, Column(style'))
    BY <1>1, EmptySeq DEF FitsColumn
  <2> QED
    BY <2>2, <2>3 DEF TextInv
<1> QED
  BY <1>5, <1>6, <1>7, <1>8 DEF DocIInv

LEMMA FinishKeeps == ASSUME DocIInv, FinishDocument PROVE DocIInv'
<1>1. /\ style.open # TRUE /\ file = <<>> /\ pages' = Append(pages, page) /\ file' = Objects(Len(pages'))
      /\ todo' = todo /\ style' = style /\ page' = page /\ baseline' = baseline /\ blocks' = blocks
      /\ given' = given
  BY DEF FinishDocument
<1>2. PICK ps \in Seq(Seq(DocLine)), q \in Seq(DocLine) : ps = pages /\ q = page
  BY DEF DocIInv, DocTyped
<1>3. PICK n \in Nat : n = Len(ps)
  OBVIOUS
<1>4. PICK all \in Seq(Seq(DocLine)) : /\ all = Append(ps, q) /\ Len(all) = n + 1 /\ all[n + 1] = q
                                       /\ \A p \in 1..n : all[p] = ps[p]
  <2>1. /\ Append(ps, q) \in Seq(Seq(DocLine)) /\ Len(Append(ps, q)) = n + 1 /\ Append(ps, q)[n + 1] = q
        /\ \A p \in 1..n : Append(ps, q)[p] = ps[p]
    BY <1>3
  <2> QED
    BY <2>1
<1>5. pages' = all /\ file' = Objects(n + 1) /\ file' # <<>>
  <2>1. pages' = all /\ file' = Objects(n + 1)
    BY <1>1, <1>2, <1>4
  <2>2. PICK f : f = Objects(n + 1)
    OBVIOUS
  <2>3. Len(f) = 6 + 2 * (n + 1)
    BY <2>2, ObjectsAre
  <2>4. f # <<>>
    BY <2>3
  <2> QED
    BY <2>1, <2>2, <2>4
<1>6. DocTyped'
  BY <1>1, <1>5 DEF DocIInv, DocTyped
<1>7. AtRest'
  <2>1. style'.open = FALSE /\ todo' = <<>>
    <3>1. style.open = FALSE
      BY <1>1 DEF DocIInv, DocTyped
    <3> QED
      BY <1>1, <3>1 DEF DocIInv, AtRest
  <2>2. Len(pages') # 0 /\ file' = Objects(Len(pages'))
    BY <1>4, <1>5
  <2> QED
    BY <2>1, <2>2 DEF AtRest
<1>8. PlaceInv'
  <2>1. /\ SheetOk(q) /\ \A p \in 1..n : SheetOk(ps[p]) /\ ps[p] # <<>>
        /\ q = <<>> => ps = <<>>
    BY <1>1, <1>2, <1>3 DEF DocIInv, PlaceInv
  <2>2. /\ page' = q
        /\ page' = <<>> => baseline' = Top
        /\ page' # <<>> => baseline' <= page'[Len(page')].y - page'[Len(page')].leading
    BY <1>1, <1>2 DEF DocIInv, PlaceInv
  <2>3. ASSUME NEW p \in 1..(n + 1)
        PROVE  SheetOk(all[p]) /\ (all[p] = <<>> => Len(all) = 1)
    <3>1. CASE p = n + 1
      <4>1. Len(<<>>) = 0
        OBVIOUS
      <4> QED
        BY <1>3, <1>4, <2>1, <3>1, <4>1
    <3>2. CASE p # n + 1
      <4>1. p \in 1..n
        BY <3>2
      <4> QED
        BY <1>4, <2>1, <4>1
    <3> QED
      BY <3>1, <3>2
  <2>4. page' = q /\ pages' = all /\ file' # <<>>
    BY <1>5, <2>2
  <2> QED
    BY <1>4, <2>1, <2>2, <2>3, <2>4 DEF PlaceInv
<1>9. TextInv'
  <2>1. Sheets' = Sheets
    BY <1>1, <1>2, <1>4, <1>5 DEF Sheets
  <2>2. Same(TextOn(FlattenSeq(Sheets))' \o Drawn(FlattenSeq(todo')), Drawn(given'))
    BY <1>1, <2>1 DEF DocIInv, TextInv
  <2>3. FitsColumn(todo', style'.size, Column(style'))
    BY <1>1 DEF DocIInv, TextInv
  <2> QED
    BY <2>2, <2>3 DEF TextInv
<1> QED
  BY <1>6, <1>7, <1>8, <1>9 DEF DocIInv

LEMMA DocStepKeeps == ASSUME DocIInv, [DocNext]_docVars PROVE DocIInv'
<1>1. CASE BeginBlock
  BY <1>1, BeginKeeps
<1>2. CASE PlaceLine
  BY <1>2, PlaceKeeps
<1>3. CASE EndBlock
  BY <1>3, EndKeeps
<1>4. CASE FinishDocument
  BY <1>4, FinishKeeps
<1>5. CASE UNCHANGED docVars
  <2>1. /\ todo' = todo /\ style' = style /\ page' = page /\ pages' = pages /\ baseline' = baseline
        /\ blocks' = blocks /\ given' = given /\ file' = file
    BY <1>5 DEF docVars
  <2>2. Sheets' = Sheets
    BY <2>1 DEF Sheets
  <2>3. TextInv'
    <3>1. Same(TextOn(FlattenSeq(Sheets))' \o Drawn(FlattenSeq(todo')), Drawn(given'))
      BY <2>1, <2>2 DEF DocIInv, TextInv
    <3> QED
      BY <2>1, <3>1 DEF DocIInv, TextInv
  <2>4. DocTyped' /\ AtRest'
    BY <2>1 DEF DocIInv, DocTyped, AtRest
  <2>5. PlaceInv'
    BY <2>1 DEF DocIInv, PlaceInv
  <2> QED
    BY <2>3, <2>4, <2>5 DEF DocIInv
<1> QED
  BY <1>1, <1>2, <1>3, <1>4, <1>5 DEF DocNext

THEOREM DocInductive == DocSpec => []DocIInv
<1>1. DocInit => DocIInv
  BY DocStarts
<1>2. DocIInv /\ [DocNext]_docVars => DocIInv'
  BY DocStepKeeps
<1> QED
  BY <1>1, <1>2, PTL DEF DocSpec

\* The invariant gives both properties.
LEMMA MarginsHold == ASSUME DocIInv PROVE LinesInMargins
<1>1. PICK ps \in Seq(Seq(DocLine)), q \in Seq(DocLine), n \in Nat : ps = pages /\ q = page /\ n = Len(ps)
  <2>1. pages \in Seq(Seq(DocLine)) /\ page \in Seq(DocLine)
    BY DEF DocIInv, DocTyped
  <2> QED
    BY <2>1
<1>2. /\ SheetOk(q) /\ \A p \in 1..n : SheetOk(ps[p])
      /\ file = <<>> => (\A p \in 1..n : ps[p] # <<>>) /\ (q = <<>> => ps = <<>>)
      /\ file # <<>> => \A p \in 1..n : ps[p] = <<>> => n = 1
  BY <1>1 DEF DocIInv, PlaceInv
<1>3. PICK all \in Seq(Seq(DocLine)), m \in Nat :
        /\ Sheets = all /\ m = Len(all)
        /\ \A p \in 1..m : SheetOk(all[p]) /\ (all[p] = <<>> => m = 1)
  <2>1. CASE file # <<>>
    BY <1>1, <1>2, <2>1 DEF Sheets
  <2>2. CASE file = <<>>
    <3>1. PICK all \in Seq(Seq(DocLine)) : /\ all = Append(ps, q) /\ Len(all) = n + 1 /\ all[n + 1] = q
                                           /\ \A p \in 1..n : all[p] = ps[p]
      <4>1. /\ Append(ps, q) \in Seq(Seq(DocLine)) /\ Len(Append(ps, q)) = n + 1 /\ Append(ps, q)[n + 1] = q
            /\ \A p \in 1..n : Append(ps, q)[p] = ps[p]
        BY <1>1
      <4> QED
        BY <4>1
    <3>2. ASSUME NEW p \in 1..(n + 1) PROVE SheetOk(all[p]) /\ (all[p] = <<>> => n + 1 = 1)
      <4>1. CASE p = n + 1
        <5>1. Len(<<>>) = 0
          OBVIOUS
        <5> QED
          BY <1>1, <1>2, <2>2, <3>1, <4>1, <5>1
      <4>2. CASE p # n + 1
        <5>1. p \in 1..n
          BY <4>2
        <5> QED
          BY <1>2, <2>2, <3>1, <5>1
      <4> QED
        BY <4>1, <4>2
    <3>3. Sheets = all
      BY <1>1, <2>2, <3>1 DEF Sheets
    <3>4. PICK m \in Nat : m = n + 1
      OBVIOUS
    <3>5. m = Len(all) /\ \A p \in 1..m : SheetOk(all[p]) /\ (all[p] = <<>> => m = 1)
      BY <3>1, <3>2, <3>4
    <3> QED
      BY <3>3, <3>5
  <2> QED
    BY <2>1, <2>2
<1>4. DOMAIN all = 1..m /\ \A p \in 1..m : all[p] \in Seq(DocLine)
  BY <1>3
<1>5. ASSUME NEW p \in 1..m, NEW i \in DOMAIN all[p]
      PROVE  /\ all[p][i].y <= Top /\ all[p][i].y - all[p][i].leading >= Margin
             /\ i > 1 => all[p][i].y <= all[p][i - 1].y - all[p][i - 1].leading
  <2>1. i \in 1..Len(all[p])
    BY <1>4
  <2> QED
    BY <1>3, <2>1 DEF SheetOk
<1> QED
  BY <1>3, <1>4, <1>5 DEF LinesInMargins

LEMMA TextHolds == ASSUME DocIInv PROVE TextComplete
<1>1. PICK lines \in Seq(DocLine) : lines = FlattenSeq(Sheets)
  <2>1. Sheets \in Seq(Seq(DocLine))
    BY DEF DocIInv, DocTyped, Sheets
  <2> QED
    BY <2>1, FlattenAppend
<1>2. FlattenSeq([i \in DOMAIN lines |-> lines[i].text]) \o Drawn(FlattenSeq(todo)) = Drawn(given)
  BY <1>1 DEF DocIInv, TextInv, TextOn, Same
<1>3. ASSUME NEW i \in DOMAIN lines PROVE LineWidth(lines[i].words, lines[i].size) <= lines[i].width
  <2>1. lines[i] \in DocLine
    OBVIOUS
  <2> QED
    BY <2>1 DEF DocLine
<1>4. ASSUME file # <<>>
      PROVE  /\ {file[i].num : i \in DOMAIN file} = 1..(FirstPage - 1 + 2 * Len(pages))
             /\ Len(file) = FirstPage - 1 + 2 * Len(pages)
             /\ RefsOf(file, "catalog") = NumbersOf(file, "tree")
             /\ RefsOf(file, "tree") = NumbersOf(file, "page")
             /\ RefsOf(file, "page") = NumbersOf(file, "tree") \cup NumbersOf(file, "content")
                                       \cup NumbersOf(file, "font")
  <2>1. PICK n \in Nat \ {0} : n = Len(pages) /\ file = Objects(n)
    BY <1>4 DEF DocIInv, DocTyped, AtRest
  <2>0. PICK f : f = file /\ f = Objects(n)
    BY <2>1
  <2>2. PICK m : m = 6 + 2 * n /\ m = FirstPage - 1 + 2 * n
    BY DEF FirstPage
  <2>3. /\ {f[i].num : i \in DOMAIN f} = 1..m /\ Len(f) = m
        /\ RefsOf(f, "catalog") = NumbersOf(f, "tree") /\ RefsOf(f, "tree") = NumbersOf(f, "page")
        /\ RefsOf(f, "page") =
             NumbersOf(f, "tree") \cup NumbersOf(f, "content") \cup NumbersOf(f, "font")
    BY <2>0, <2>2, FileIsWhole
  <2>4. m = FirstPage - 1 + 2 * Len(pages)
    BY <2>1, <2>2
  <2> QED
    BY <2>0, <2>3, <2>4
<1> QED
  BY <1>1, <1>2, <1>3, <1>4 DEF TextComplete, RefsOf, NumbersOf

\* Every line of a document is inside the margins of its page and below the line
\* before it, and only an empty document has a page without lines.
THEOREM LinesAlwaysInMargins == DocSpec => []LinesInMargins
  BY DocInductive, MarginsHold, PTL

\* What is drawn of a document is the text of its blocks, character by character and in
\* order, with a blank for each character the fonts have no code for; no line is wider
\* than its column by the widths the code has of its characters; and the objects of the
\* file are numbered and refer to each other as its table says.
THEOREM TextAlwaysComplete == DocSpec => []TextComplete
  BY DocInductive, TextHolds, PTL
=============================================================================

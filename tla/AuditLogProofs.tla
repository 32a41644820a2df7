--------------------------- MODULE AuditLogProofs ---------------------------
(***************************************************************************)
(* Proofs about the audit log and its boot sequence, for any set of        *)
(* writers and keys and any bounds on entries and boots.                   *)
(***************************************************************************)
EXTENDS AuditLog, SequenceTheorems, FiniteSetTheorems, WellFoundedInduction, TLAPS

Line == Entry \cup {Garbled, Torn}
Busy(c) == w[c] # NotRecording

\* The Mutex: one call of record at a time, with the newest hash, and none
\* while the core is down or still at its boot sequence.
MutexInv ==
    /\ \A c, d \in Writers : Busy(c) /\ Busy(d) => c = d
    /\ \A c \in Writers : Busy(c) => /\ w[c].at # "idle"
                                     /\ w[c].hash = hashed /\ hashed # Genesis
                                     /\ Recording
    /\ Stopped => head = Unset
    /\ ~Stopped => head \in Hash /\ head <= hashed /\ key \in Keys

\* Entries come in the order in which they were hashed, and whoever is about
\* to write one has a hash of its own.
OrderInv ==
    /\ \A i \in DOMAIN logFile : logFile[i].hash <= hashed
    /\ \A i, j \in DOMAIN logFile :
         i < j /\ logFile[i].hash # Unset /\ logFile[j].hash # Unset => logFile[i].hash < logFile[j].hash
    /\ \A n \in recorded : n <= hashed
    /\ \A c \in Writers : Busy(c) =>
         /\ hashed \notin recorded
         /\ w[c].at = "line" => \A i \in DOMAIN logFile : logFile[i].hash # hashed

\* The last line belongs to a call between its two writes, or to an append
\* that was cut short, as long as the end of the file was not lost.
OpenInv ==
    /\ open => logFile # <<>>
    /\ open /\ ~lost => logFile[Len(logFile)].hash \notin recorded
    /\ \A c \in Writers : w[c].at = "newline" =>
         open /\ logFile[Len(logFile)].hash \in {Unset, hashed}

\* The entry that an open line may still cost, paid for by the append that
\* left it open.
Pledged ==
    open /\ \A c \in Writers : w[c].at = "newline" => logFile[Len(logFile)].hash = Unset

LossInv ==
    ~lost => Cardinality(recorded \ Hashes) + (IF Pledged THEN 1 ELSE 0) <= cuts

\* Without a cut line the log is one chain, and memory knows its end.
Chained ==
    \A i \in DOMAIN logFile :
      /\ logFile[i].hash # Unset
      /\ logFile[i].prev = IF i = 1 THEN Genesis ELSE logFile[i - 1].hash

EndOf(n) == IF n = 0 THEN Genesis ELSE logFile[n].hash

ChainInv ==
    cuts = 0 =>
      /\ Chained
      /\ open => \E c \in Writers : w[c].at = "newline"
      /\ ~open /\ ~Stopped => head = EndOf(Len(logFile))
      /\ open => head = EndOf(Len(logFile) - 1)
      /\ \A c \in Writers : Busy(c) => w[c].prev = head
      /\ \A c \in Writers : w[c].at = "newline" => logFile[Len(logFile)].hash = w[c].hash

\* Until the first record, the head is the hash of the last line that parses.
BootInv ==
    phase \in {"anchor", "anchor_write"} =>
      /\ \A i \in DOMAIN logFile : logFile[i].hash = head => Read \subseteq {logFile[j].hash : j \in 1..i}
      /\ head = Genesis => Read = {}
      /\ ContainsHash(head)

InFile(h) == h = Genesis \/ h \in Hashes

\* The entries that were read in the log with the anchored one are in front of
\* it.
AnchorInv ==
    anchor # NoAnchor =>
      /\ anchor.head <= hashed
      /\ \A c \in Writers : Busy(c) => anchor.head < hashed
      /\ \A i \in DOMAIN logFile :
           logFile[i].hash = anchor.head => anchored \subseteq {logFile[j].hash : j \in 1..i}
      /\ anchor.head = Genesis => anchored = {}
      /\ cuts = 0 /\ ~lost => InFile(anchor.head)

\* A boot that goes on has found the anchored entry in the log.
CheckedInv == phase = "anchor" /\ ReadsAnchor(key) => ContainsHash(anchor.head)

AuditIInv ==
    /\ AuditTypeOK
    /\ MutexInv
    /\ OrderInv
    /\ OpenInv
    /\ LossInv
    /\ ChainInv
    /\ BootInv
    /\ AnchorInv
    /\ CheckedInv
    /\ NoFalseAlarm

-----------------------------------------------------------------------------
(* The log as data *)

LEMMA GarbledIs == /\ Garbled.hash = Unset /\ Torn.hash = Unset /\ Unset \notin Hash
                   /\ {Garbled, Torn} \cap Entry = {}
                   /\ \A l \in Line : l.hash \in Hash \cup {Unset} /\ (l \in {Garbled, Torn} <=> l.hash = Unset)
                   /\ \A l \in Line : l.hash # Genesis
                   /\ NoAnchor \notin Anchor /\ NoAnchor.head = Unset
                   /\ NotRecording.at = "idle"
<1> USE DEF Garbled, Torn, Unset, Hash, Entry, Line, Genesis
<1>1. Garbled.hash = Unset /\ Torn.hash = Unset /\ Unset \notin Hash
  BY BoundAssumption
<1>2. {Garbled, Torn} \cap Entry = {}
  BY <1>1
<1>3. \A l \in Entry : l.hash \in Hash /\ l.hash # Genesis
  OBVIOUS
<1> QED
  BY <1>1, <1>2, <1>3, BoundAssumption DEF NoAnchor, Anchor, NotRecording

\* A set of numbers that is not empty has a least one.
LEMMA LeastOf ==
  ASSUME NEW T, T \subseteq Nat, T # {}
  PROVE  \E m \in T : \A n \in T : m <= n
<1> DEFINE R == {p \in Nat \X Nat : p[1] < p[2]}
<1>1. IsWellFoundedOn(R, Nat)
  BY NatLessThanWellFounded DEF OpToRel
<1>2. \A m, n \in Nat : n < m => <<n, m>> \in R
  OBVIOUS
<1> HIDE DEF R
<1>3. PICK m \in T : \A n \in T : ~(<<n, m>> \in R)
  BY <1>1, WFMin
<1>4. ASSUME NEW n \in T PROVE m <= n
  <2>1. m \in Nat /\ n \in Nat /\ ~(n < m)
    BY <1>2, <1>3
  <2> QED
    BY <2>1
<1> QED
  BY <1>4

LEMMA MaxOf ==
  ASSUME NEW n \in Nat, NEW T, T \subseteq 1..n, T # {}
  PROVE  Max(T) \in T /\ \A i \in T : i <= Max(T)
<1> DEFINE D == {n - i : i \in T}
<1>1. D \subseteq Nat
  BY T \subseteq 1..n
<1> HIDE DEF D
<1>a. D # {}
  BY DEF D
<1>2. PICK d \in D : \A e \in D : d <= e
  BY <1>1, <1>a, LeastOf
<1>3. PICK m \in T : d = n - m
  BY <1>2 DEF D
<1>4. ASSUME NEW i \in T PROVE m >= i
  <2>1. n - i \in D
    BY DEF D
  <2>2. n - m <= n - i /\ i \in Nat /\ m \in Nat
    BY <1>2, <1>3, <2>1
  <2> QED
    BY <2>2
<1>5. \E x \in T : \A y \in T : x >= y
  BY <1>4
<1>6. Max(T) \in T /\ \A y \in T : Max(T) >= y
  BY <1>5 DEF Max
<1> QED
  BY <1>6

\* What can be read of a log: all that parses, or nothing.
LEMMA ReadIs ==
  ASSUME logFile \in Seq(Line)
  PROVE  /\ Parsed \subseteq DOMAIN logFile /\ Read \subseteq Hashes
         /\ \A i \in Parsed : logFile[i].hash # Unset /\ logFile[i].hash \in Read
         /\ Readable => \A i \in DOMAIN logFile : i \in Parsed <=> logFile[i].hash # Unset
         /\ Read # {} => Readable
<1>1. \A i \in DOMAIN logFile : logFile[i] \in {Garbled, Torn} <=> logFile[i].hash = Unset
  BY GarbledIs, LenProperties, ElementOfSeq
<1>2. Readable => \A i \in DOMAIN logFile : i \in Parsed <=> logFile[i].hash # Unset
  BY <1>1 DEF Readable, Parsed
<1>3. Parsed # {} => Readable
  BY DEF Parsed
<1>4. Parsed \subseteq DOMAIN logFile
  BY DEF Parsed
<1> QED
  BY <1>2, <1>3, <1>4 DEF Read, Hashes

\* LastHash is the hash of a line behind which nothing parses, or nothing can
\* be read.
LEMMA LastHashIs ==
  ASSUME logFile \in Seq(Line)
  PROVE  \/ LastHash = Genesis /\ Read = {}
         \/ \E p \in Parsed : LastHash = logFile[p].hash /\ \A i \in Parsed : i <= p
<1>1. CASE Parsed = {}
  BY <1>1 DEF LastHash, Read
<1>2. CASE Parsed # {}
  <2>1. Len(logFile) \in Nat /\ Parsed \subseteq 1..Len(logFile)
    BY LenProperties, ReadIs
  <2>2. Max(Parsed) \in Parsed /\ \A i \in Parsed : i <= Max(Parsed)
    BY <1>2, <2>1, MaxOf
  <2>3. LastHash = logFile[Max(Parsed)].hash
    BY <1>2 DEF LastHash
  <2> QED
    BY <2>2, <2>3
<1> QED
  BY <1>1, <1>2

LEMMA AppendedIs ==
  ASSUME logFile \in Seq(Line), open \in BOOLEAN, open => logFile # <<>>, NEW text \in Line
  PROVE  LET log == Appended(text) IN
         /\ log \in Seq(Line) /\ log # <<>>
         /\ open => /\ Len(log) = Len(logFile) /\ log[Len(log)] \in {Garbled, Torn}
                    /\ \A i \in 1..(Len(log) - 1) : log[i] = logFile[i]
         /\ ~open => /\ Len(log) = Len(logFile) + 1 /\ log[Len(log)] = text
                     /\ \A i \in 1..(Len(log) - 1) : log[i] = logFile[i]
<1>1. CASE open
  <2> DEFINE rest == IF Torn \in {logFile[Len(logFile)], text} THEN Torn ELSE Garbled
  <2>1. Len(logFile) \in 1..Len(logFile) /\ rest \in Line /\ rest \in {Garbled, Torn}
    BY <1>1, EmptySeq DEF Line
  <2>2. Appended(text) = [logFile EXCEPT ![Len(logFile)] = rest]
    BY <1>1 DEF Appended
  <2> HIDE DEF rest
  <2> QED
    BY <1>1, <2>1, <2>2, ExceptSeq
<1>2. CASE ~open
  BY <1>2, AppendProperties DEF Appended
<1> QED
  BY <1>1, <1>2

-----------------------------------------------------------------------------
(* Types *)

LEMMA LineIs == logFile \in Seq(Entry \cup {Garbled, Torn}) <=> logFile \in Seq(Line)
  BY DEF Line

\* Whoever holds the Mutex is about to write an entry of its own.
LEMMA HeldEntry ==
  ASSUME AuditTypeOK, MutexInv, NEW c \in Writers, w[c].at # "idle"
  PROVE  /\ Busy(c) /\ Recording /\ ~Stopped
         /\ [prev |-> w[c].prev, hash |-> w[c].hash, key |-> key] \in Entry
         /\ w[c].hash = hashed
<1>1. Busy(c)
  BY DEF Busy, NotRecording
<1>2. Recording /\ ~Stopped /\ w[c].hash = hashed /\ hashed # Genesis /\ key \in Keys
  BY <1>1 DEF MutexInv, Recording, Stopped
<1> QED
  BY <1>1, <1>2 DEF AuditTypeOK, Entry

LEMMA NewlineCount ==
  ASSUME MutexInv, NEW N, N = {c \in Writers : w[c].at = "newline"}
  PROVE  /\ Cardinality(N) \in Nat
         /\ N = {} => Cardinality(N) = 0
         /\ N # {} => Cardinality(N) = 1
<1>1. CASE N = {}
  BY <1>1, FS_EmptySet
<1>2. CASE N # {}
  <2>1. PICK c \in N : TRUE
    BY <1>2
  <2>2. \A d \in N : d = c
    BY <2>1 DEF MutexInv, Busy, NotRecording
  <2>3. N = {c}
    BY <2>1, <2>2
  <2>4. Cardinality(N) = 1
    BY <2>3, FS_Singleton
  <2> QED
    BY <1>2, <2>4
<1> QED
  BY <1>1, <1>2

LEMMA LinesAre ==
  ASSUME AuditTypeOK
  PROVE  /\ logFile \in Seq(Line) /\ Len(logFile) \in Nat /\ DOMAIN logFile = 1..Len(logFile)
         /\ \A i \in DOMAIN logFile : logFile[i] \in Line
         /\ \A i \in DOMAIN logFile : logFile[i].hash \in Hash \cup {Unset}
         /\ \A i \in DOMAIN logFile : logFile[i] \in {Garbled, Torn} <=> logFile[i].hash = Unset
  BY LenProperties, ElementOfSeq, GarbledIs DEF AuditTypeOK, Line

\* What LoseTail leaves: a prefix, its last line whole or a piece of it.
LEMMA LogShrinks ==
  ASSUME AuditTypeOK, LoseTail
  PROVE  /\ logFile' \in Seq(Line) /\ Len(logFile') \in Nat /\ DOMAIN logFile' = 1..Len(logFile')
         /\ \A i \in DOMAIN logFile' : i \in DOMAIN logFile
         /\ \A i \in 1..(Len(logFile') - 1) : logFile'[i] = logFile[i]
         /\ \A i \in DOMAIN logFile' : logFile'[i] = logFile[i] \/ logFile'[i].hash = Unset
         /\ open' \in BOOLEAN /\ cuts' \in Nat
         /\ open' => logFile' # <<>> /\ (cuts' = 0 => open)
         /\ ~open' => cuts' = cuts /\ \A i \in DOMAIN logFile' : logFile'[i] = logFile[i]
<1>0. logFile \in Seq(Line) /\ Len(logFile) \in Nat /\ DOMAIN logFile = 1..Len(logFile) /\ cuts \in Nat
  BY LinesAre DEF AuditTypeOK
<1>1. CASE open' = FALSE /\ UNCHANGED cuts /\ \E n \in 0..(Len(logFile) - 1) : logFile' = SubSeq(logFile, 1, n)
  <2>1. PICK n \in 0..(Len(logFile) - 1) : logFile' = SubSeq(logFile, 1, n)
    BY <1>1
  <2>2. n \in Int /\ \A i \in 1..n : logFile[i] \in Line
    BY LinesAre
  <2>3. logFile' \in Seq(Line) /\ Len(logFile') = n /\ \A i \in 1..n : logFile'[i] = logFile[i]
    BY <2>1, <2>2, SubSeqProperties
  <2>4. DOMAIN logFile' = 1..n /\ \A i \in 1..n : i \in DOMAIN logFile
    BY <1>0, <2>3, LenProperties
  <2>5. n \in Nat /\ \A i \in 1..(n - 1) : i \in 1..n
    BY <1>0
  <2>6. open' \in BOOLEAN /\ ~open' /\ cuts' = cuts
    BY <1>1
  <2> QED
    BY <1>0, <2>3, <2>4, <2>5, <2>6
<1>2. ASSUME NEW n \in DOMAIN logFile, NEW part \in {logFile[n], Garbled, Torn}, open' = TRUE,
             logFile' = Append(SubSeq(logFile, 1, n - 1), part),
             cuts' = IF open /\ n = Len(logFile) THEN cuts ELSE cuts + 1
      PROVE  /\ logFile' \in Seq(Line) /\ Len(logFile') = n /\ DOMAIN logFile' = 1..n
             /\ logFile'[n] = part /\ \A i \in 1..(n - 1) : logFile'[i] = logFile[i]
             /\ cuts' \in Nat /\ (cuts' = 0 => open)
  <2>1. n \in Int /\ n - 1 \in 0..(Len(logFile) - 1) /\ \A i \in 1..(n - 1) : logFile[i] \in Line
    BY <1>0, LinesAre
  <2>2. part \in Line
    BY LinesAre DEF Line
  <2> DEFINE kept == SubSeq(logFile, 1, n - 1)
  <2>3. kept \in Seq(Line) /\ Len(kept) = n - 1 /\ \A i \in 1..(n - 1) : kept[i] = logFile[i]
    BY <1>0, <2>1, SubSeqProperties
  <2> HIDE DEF kept
  <2>4. logFile' = Append(kept, part)
    BY <1>2 DEF kept
  <2>5. /\ logFile' \in Seq(Line) /\ Len(logFile') = n /\ logFile'[n] = part
        /\ \A i \in 1..(n - 1) : logFile'[i] = kept[i]
    BY <2>1, <2>2, <2>3, <2>4, AppendProperties
  <2>6. cuts' \in Nat /\ (cuts' = 0 => open)
    BY <1>0, <1>2
  <2> QED
    BY <2>3, <2>5, <2>6, LenProperties
<1>3. CASE open' = TRUE /\ \E n \in DOMAIN logFile :
               /\ \E part \in {logFile[n], Garbled, Torn} : logFile' = Append(SubSeq(logFile, 1, n - 1), part)
               /\ cuts' = IF open /\ n = Len(logFile) THEN cuts ELSE cuts + 1
  <2>1. PICK n \in DOMAIN logFile :
          /\ \E part \in {logFile[n], Garbled, Torn} : logFile' = Append(SubSeq(logFile, 1, n - 1), part)
          /\ cuts' = IF open /\ n = Len(logFile) THEN cuts ELSE cuts + 1
    BY <1>3
  <2>2. PICK part \in {logFile[n], Garbled, Torn} : logFile' = Append(SubSeq(logFile, 1, n - 1), part)
    BY <2>1
  <2>3. /\ logFile' \in Seq(Line) /\ Len(logFile') = n /\ DOMAIN logFile' = 1..n
        /\ logFile'[n] = part /\ \A i \in 1..(n - 1) : logFile'[i] = logFile[i]
        /\ cuts' \in Nat /\ (cuts' = 0 => open)
    BY <1>2, <1>3, <2>1, <2>2
  <2>4. n \in Nat \ {0} /\ \A i \in 1..n : i \in DOMAIN logFile /\ (i = n \/ i \in 1..(n - 1))
    BY <1>0
  <2>5. part = logFile[n] \/ part.hash = Unset
    BY GarbledIs
  <2>6. logFile' # <<>>
    BY <2>3, <2>4, EmptySeq
  <2> QED
    BY <1>3, <2>3, <2>4, <2>5, <2>6
<1> QED
  BY <1>1, <1>3 DEF LoseTail

LEMMA TypeStep ==
  ASSUME AuditTypeOK, MutexInv, OpenInv, [AuditNext]_auditVars
  PROVE  AuditTypeOK'
<1> USE DEF history
<1>1. ASSUME NEW k \in Keys, AuditBoot(k) PROVE AuditTypeOK'
  <2>1. LastHash \in Hash
    <3>1. logFile \in Seq(Line) /\ \A i \in DOMAIN logFile : logFile[i] \in Line
      BY ElementOfSeq, LenProperties DEF AuditTypeOK, Line
    <3>2. Genesis \in Hash
      BY BoundAssumption DEF Genesis, Hash
    <3> QED
      BY <3>1, <3>2, LastHashIs, ReadIs, GarbledIs
  <2> QED
    BY <1>1, <2>1, BoundAssumption DEF AuditBoot, AuditTypeOK
<1>2. CASE TruncateAnchor
  BY <1>2 DEF TruncateAnchor, AuditTypeOK
<1>3. CASE WriteAnchor
  <2>1. head \in Hash /\ key \in Keys
    BY <1>3 DEF WriteAnchor, MutexInv, Stopped
  <2>2. Read \subseteq Hash
    <3>1. logFile \in Seq(Line) /\ \A i \in DOMAIN logFile : logFile[i] \in Line
      BY ElementOfSeq, LenProperties DEF AuditTypeOK, Line
    <3> QED
      BY <3>1, GarbledIs, ReadIs DEF Hashes
  <2> QED
    BY <1>3, <2>1, <2>2 DEF WriteAnchor, AuditTypeOK, Anchor
<1>4. CASE StartUnrecorded
  BY <1>4 DEF StartUnrecorded, AuditTypeOK
<1>5. ASSUME NEW c \in Writers, Record(c) PROVE AuditTypeOK'
  <2>1. head \in Hash /\ hashed + 1 \in Hash
    BY <1>5, BoundAssumption DEF Record, Recording, MutexInv, Stopped, AuditTypeOK, Hash, Genesis
  <2> QED
    BY <1>5, <2>1, BoundAssumption DEF Record, AuditTypeOK
<1>6. ASSUME NEW c \in Writers, WriteLine(c) PROVE AuditTypeOK'
  <2>1. logFile' \in Seq(Line)
    BY <1>6, HeldEntry, AppendedIs DEF WriteLine, AuditTypeOK, OpenInv, Line
  <2> QED
    BY <1>6, <2>1 DEF WriteLine, AuditTypeOK, Line
<1>7. ASSUME NEW c \in Writers, WriteLineFails(c) PROVE AuditTypeOK'
  <2>1. logFile' \in Seq(Line)
    BY <1>7, AppendedIs DEF WriteLineFails, AuditTypeOK, OpenInv, Line
  <2>2. NotRecording \in [at : {"idle", "line", "newline"}, prev : Hash, hash : Hash]
    BY BoundAssumption DEF NotRecording, Hash, Genesis
  <2>3. w' \in [Writers -> [at : {"idle", "line", "newline"}, prev : Hash, hash : Hash]]
    BY <1>7, <2>2 DEF WriteLineFails, AuditTypeOK
  <2>4. cuts' \in Nat
    BY <1>7 DEF WriteLineFails, AuditTypeOK
  <2>5. open' \in BOOLEAN
    BY <1>7, Zenon DEF WriteLineFails, AuditTypeOK
  <2> QED
    BY <1>7, <2>1, <2>3, <2>4, <2>5 DEF WriteLineFails, AuditTypeOK, Line
<1>8. ASSUME NEW c \in Writers, WriteNewline(c) PROVE AuditTypeOK'
  <2>2. NotRecording \in [at : {"idle", "line", "newline"}, prev : Hash, hash : Hash]
    BY BoundAssumption DEF NotRecording, Hash, Genesis
  <2>3. w' \in [Writers -> [at : {"idle", "line", "newline"}, prev : Hash, hash : Hash]]
    BY <1>8, <2>2 DEF WriteNewline, AuditTypeOK
  <2>4. w[c].hash \in Hash
    BY DEF AuditTypeOK
  <2>5. cuts' \in Nat /\ head' \in Hash \cup {Unset} /\ recorded' \in SUBSET Hash
    BY <1>8, <2>4 DEF WriteNewline, AuditTypeOK
  <2>6. open' \in BOOLEAN
    BY <1>8, Zenon DEF WriteNewline, AuditTypeOK
  <2> QED
    BY <1>8, <2>3, <2>5, <2>6 DEF WriteNewline, AuditTypeOK
<1>9. CASE AuditCrash
  <2>2. NotRecording \in [at : {"idle", "line", "newline"}, prev : Hash, hash : Hash]
    BY BoundAssumption DEF NotRecording, Hash, Genesis
  <2>3. Cardinality({c \in Writers : w[c].at = "newline"}) \in Nat
    BY NewlineCount
  <2> QED
    BY <1>9, <2>2, <2>3 DEF AuditCrash, AuditTypeOK
<1>10. CASE LoseTail
  <2>1. logFile' \in Seq(Line) /\ open' \in BOOLEAN /\ cuts' \in Nat
    BY <1>10, LogShrinks DEF AuditTypeOK
  <2> QED
    BY <1>10, <2>1 DEF LoseTail, AuditTypeOK, Line
<1>11. CASE UNCHANGED auditVars
  BY <1>11 DEF auditVars, AuditTypeOK
<1> QED
  BY <1>1, <1>2, <1>3, <1>4, <1>5, <1>6, <1>7, <1>8, <1>9, <1>10, <1>11 DEF AuditNext

-----------------------------------------------------------------------------
(* The invariant, one conjunct at a time *)

\* A new head is no larger than the newest hash.
LEMMA LastHashBound ==
  ASSUME AuditTypeOK, OrderInv
  PROVE  LastHash \in Hash /\ LastHash <= hashed
<1>1. Genesis \in Hash /\ Genesis <= hashed
  BY BoundAssumption DEF Genesis, Hash, AuditTypeOK
<1>2. ASSUME NEW p \in Parsed, LastHash = logFile[p].hash
      PROVE  LastHash \in Hash /\ LastHash <= hashed
  BY <1>2, LinesAre, ReadIs DEF OrderInv
<1> QED
  BY <1>1, <1>2, LastHashIs, LinesAre

LEMMA MutexStep ==
  ASSUME AuditTypeOK, MutexInv, OrderInv, OpenInv, [AuditNext]_auditVars
  PROVE  MutexInv'
<1> USE DEF history, Busy
<1>0. hashed \in Nat /\ \A c \in Writers : w[c].at # "idle" => Busy(c)
  BY DEF AuditTypeOK, NotRecording
<1>1. ASSUME NEW k \in Keys, AuditBoot(k) PROVE MutexInv'
  BY <1>1, LastHashBound DEF AuditBoot, MutexInv, Recording, Stopped
<1>2. CASE TruncateAnchor
  BY <1>2 DEF TruncateAnchor, MutexInv, Recording, Stopped
<1>3. CASE WriteAnchor
  BY <1>3 DEF WriteAnchor, MutexInv, Recording, Stopped
<1>4. CASE StartUnrecorded
  BY <1>4 DEF StartUnrecorded, MutexInv, Recording, Stopped
<1>5. ASSUME NEW c \in Writers, Record(c) PROVE MutexInv'
  <2>1. \A d \in Writers : d # c => w'[d] = NotRecording
    BY <1>5 DEF Record, AuditTypeOK
  <2>2. w'[c] = [at |-> "line", prev |-> head, hash |-> hashed'] /\ hashed' = hashed + 1
    BY <1>5 DEF Record, AuditTypeOK
  <2>3. \A a, b \in Writers : Busy(a)' /\ Busy(b)' => a = b
    BY <2>1
  <2>4. \A d \in Writers : Busy(d)' => /\ w'[d].at # "idle" /\ w'[d].hash = hashed' /\ hashed' # Genesis
                                       /\ Recording'
    BY <1>0, <1>5, <2>1, <2>2 DEF Record, Recording, Genesis
  <2>5. ~Stopped' /\ head' \in Hash /\ head' <= hashed' /\ key' \in Keys
    BY <1>0, <1>5, BoundAssumption DEF Record, Recording, Stopped, MutexInv, Hash, Genesis
  <2> QED
    BY <2>3, <2>4, <2>5 DEF MutexInv
<1>6. ASSUME NEW c \in Writers, WriteLine(c) PROVE MutexInv'
  <2>1. \A d \in Writers : Busy(d)' => d = c
    BY <1>0, <1>6 DEF WriteLine, MutexInv, AuditTypeOK
  <2>2. w'[c].at = "newline" /\ w'[c].hash = w[c].hash
    BY <1>6 DEF WriteLine, AuditTypeOK
  <2> QED
    BY <1>0, <1>6, <2>1, <2>2, HeldEntry DEF WriteLine, MutexInv, Recording, Stopped
<1>7. ASSUME NEW c \in Writers, WriteLineFails(c) \/ WriteNewline(c) PROVE MutexInv'
  <2>1. \A d \in Writers : ~Busy(d)'
    BY <1>0, <1>7 DEF WriteLineFails, WriteNewline, MutexInv, AuditTypeOK
  <2>2. Busy(c) /\ w[c].hash = hashed /\ hashed \in Hash /\ Recording
    BY <1>0, <1>7, HeldEntry DEF WriteLineFails, WriteNewline, AuditTypeOK, Hash, Genesis
  <2> QED
    BY <1>0, <1>7, <2>1, <2>2 DEF WriteLineFails, WriteNewline, MutexInv, Recording, Stopped
<1>9. CASE AuditCrash
  BY <1>9 DEF AuditCrash, MutexInv, Stopped
<1>10. CASE LoseTail
  BY <1>10 DEF LoseTail, MutexInv, Recording, Stopped
<1>11. CASE UNCHANGED auditVars
  BY <1>11 DEF auditVars, MutexInv, Recording, Stopped
<1> QED
  BY <1>1, <1>2, <1>3, <1>4, <1>5, <1>6, <1>7, <1>9, <1>10, <1>11 DEF AuditNext

\* What WriteLine and WriteLineFails do to the log: the last line is garbled
\* if it was open, and otherwise a line is added.
LEMMA LogGrows ==
  ASSUME AuditTypeOK, OpenInv, NEW text \in Line, logFile' = Appended(text)
  PROVE  /\ logFile' \in Seq(Line) /\ Len(logFile') \in Nat \ {0} /\ DOMAIN logFile' = 1..Len(logFile')
         /\ open => Len(logFile') = Len(logFile) /\ logFile'[Len(logFile')].hash = Unset
         /\ ~open => Len(logFile') = Len(logFile) + 1 /\ logFile'[Len(logFile')] = text
         /\ \A i \in 1..(Len(logFile') - 1) : i \in DOMAIN logFile /\ logFile'[i] = logFile[i]
<1>1. logFile \in Seq(Line) /\ open \in BOOLEAN /\ (open => logFile # <<>>) /\ Len(logFile) \in Nat
      /\ DOMAIN logFile = 1..Len(logFile)
  BY LinesAre DEF AuditTypeOK, OpenInv
<1>2. logFile' \in Seq(Line) /\ logFile' # <<>>
  BY <1>1, AppendedIs
<1>3. Len(logFile') \in Nat \ {0} /\ DOMAIN logFile' = 1..Len(logFile')
  BY <1>2, EmptySeq, LenProperties
<1>4. /\ open => Len(logFile') = Len(logFile) /\ logFile'[Len(logFile')].hash = Unset
      /\ ~open => Len(logFile') = Len(logFile) + 1 /\ logFile'[Len(logFile')] = text
      /\ \A i \in 1..(Len(logFile') - 1) : logFile'[i] = logFile[i]
  BY <1>1, AppendedIs, GarbledIs
<1>5. \A i \in 1..(Len(logFile') - 1) : i \in DOMAIN logFile
  <2>1. Len(logFile') = Len(logFile) \/ Len(logFile') = Len(logFile) + 1
    BY <1>4
  <2> QED
    BY <1>1, <2>1
<1> QED
  BY <1>2, <1>3, <1>4, <1>5

LEMMA OrderStep ==
  ASSUME AuditTypeOK, MutexInv, OrderInv, OpenInv, [AuditNext]_auditVars
  PROVE  OrderInv'
<1> USE DEF history, Busy
<1>0. hashed \in Nat /\ \A c \in Writers : w[c].at # "idle" => Busy(c)
  BY DEF AuditTypeOK, NotRecording
<1>1. ASSUME NEW k \in Keys, AuditBoot(k) PROVE OrderInv'
  BY <1>1 DEF AuditBoot, OrderInv
<1>2. CASE TruncateAnchor \/ WriteAnchor \/ StartUnrecorded
  BY <1>2 DEF TruncateAnchor, WriteAnchor, StartUnrecorded, OrderInv
<1>5. ASSUME NEW c \in Writers, Record(c) PROVE OrderInv'
  <2>1. hashed' = hashed + 1 /\ logFile' = logFile /\ recorded' = recorded
    BY <1>5 DEF Record
  <2>2. \A i \in DOMAIN logFile : logFile[i].hash \in Int /\ logFile[i].hash <= hashed
    BY LinesAre DEF OrderInv, Hash, Unset, Genesis
  <2>3. \A n \in recorded : n \in Int /\ n <= hashed
    BY DEF OrderInv, AuditTypeOK, Hash, Genesis
  <2> QED
    BY <1>0, <2>1, <2>2, <2>3 DEF OrderInv
<1>6. ASSUME NEW c \in Writers, WriteLine(c) PROVE OrderInv'
  <2> DEFINE text == [prev |-> w[c].prev, hash |-> w[c].hash, key |-> key]
  <2>1. text \in Line /\ Busy(c) /\ text.hash = hashed
    BY <1>6, HeldEntry DEF WriteLine, Line
  <2>2. hashed' = hashed /\ recorded' = recorded /\ logFile' = Appended(text)
    BY <1>6 DEF WriteLine
  <2>3. \A i \in DOMAIN logFile : logFile[i].hash \in Int /\ logFile[i].hash < hashed
    <3>1. \A i \in DOMAIN logFile : logFile[i].hash <= hashed /\ logFile[i].hash # hashed
      BY <1>6, <2>1 DEF WriteLine, OrderInv
    <3> QED
      BY <1>0, <3>1, LinesAre DEF Hash, Unset, Genesis
  <2> HIDE DEF text
  <2>4. /\ Len(logFile') \in Nat \ {0} /\ DOMAIN logFile' = 1..Len(logFile')
        /\ logFile'[Len(logFile')].hash \in {Unset, hashed}
        /\ \A i \in 1..(Len(logFile') - 1) : i \in DOMAIN logFile /\ logFile'[i] = logFile[i]
    BY <2>1, <2>2, LogGrows
  <2>5. \A i \in DOMAIN logFile' : logFile'[i].hash <= hashed'
    BY <1>0, <2>2, <2>3, <2>4, GarbledIs DEF Unset
  <2>6. \A i, j \in DOMAIN logFile' :
          i < j /\ logFile'[i].hash # Unset /\ logFile'[j].hash # Unset => logFile'[i].hash < logFile'[j].hash
    <3> SUFFICES ASSUME NEW i \in DOMAIN logFile', NEW j \in DOMAIN logFile', i < j,
                        logFile'[i].hash # Unset, logFile'[j].hash # Unset
                 PROVE  logFile'[i].hash < logFile'[j].hash
      OBVIOUS
    <3>1. i \in DOMAIN logFile /\ logFile'[i] = logFile[i]
      BY <2>4
    <3>2. CASE j = Len(logFile')
      BY <2>3, <2>4, <3>1, <3>2
    <3>3. CASE j # Len(logFile')
      BY <2>4, <3>1, <3>3 DEF OrderInv
    <3> QED
      BY <3>2, <3>3
  <2>7. \A d \in Writers : Busy(d)' => d = c
    BY <1>0, <1>6 DEF WriteLine, MutexInv, AuditTypeOK
  <2>8. w'[c].at = "newline"
    BY <1>6 DEF WriteLine, AuditTypeOK
  <2> QED
    BY <2>1, <2>2, <2>5, <2>6, <2>7, <2>8 DEF OrderInv
<1>7. ASSUME NEW c \in Writers, WriteLineFails(c) PROVE OrderInv'
  <2>1. \A d \in Writers : ~Busy(d)'
    BY <1>0, <1>7 DEF WriteLineFails, MutexInv, AuditTypeOK
  <2>2. CASE UNCHANGED logFile
    BY <1>7, <2>1, <2>2 DEF WriteLineFails, OrderInv
  <2>3. ASSUME NEW part \in {Garbled, Torn}, logFile' = Appended(part) PROVE OrderInv'
    <3>1. /\ Len(logFile') \in Nat \ {0} /\ DOMAIN logFile' = 1..Len(logFile')
          /\ logFile'[Len(logFile')].hash = Unset
          /\ \A i \in 1..(Len(logFile') - 1) : i \in DOMAIN logFile /\ logFile'[i] = logFile[i]
      BY <2>3, LogGrows, GarbledIs DEF Line
    <3>2. \A i \in DOMAIN logFile' : logFile'[i].hash = Unset \/ (i \in DOMAIN logFile /\ logFile'[i] = logFile[i])
      BY <3>1
    <3>3. hashed' = hashed /\ recorded' = recorded
      BY <1>7 DEF WriteLineFails
    <3> QED
      BY <1>0, <2>1, <3>2, <3>3, GarbledIs DEF OrderInv, Unset
  <2> QED
    BY <1>7, <2>2, <2>3 DEF WriteLineFails
<1>8. ASSUME NEW c \in Writers, WriteNewline(c) PROVE OrderInv'
  <2>1. \A d \in Writers : ~Busy(d)'
    BY <1>0, <1>8 DEF WriteNewline, MutexInv, AuditTypeOK
  <2>2. w[c].hash = hashed
    BY <1>8, HeldEntry DEF WriteNewline
  <2>3. \A n \in recorded' : n <= hashed
    BY <1>0, <1>8, <2>2 DEF WriteNewline, OrderInv
  <2> QED
    BY <1>8, <2>1, <2>3 DEF WriteNewline, OrderInv
<1>9. CASE AuditCrash
  BY <1>9 DEF AuditCrash, OrderInv
<1>10. CASE LoseTail
  <2>1. \A c \in Writers : ~Busy(c)
    BY <1>10 DEF LoseTail, MutexInv, Recording, Stopped
  <2>2. /\ DOMAIN logFile' \subseteq DOMAIN logFile
        /\ \A i \in DOMAIN logFile' : logFile'[i] = logFile[i] \/ logFile'[i].hash = Unset
    BY <1>10, LogShrinks
  <2>3. UNCHANGED <<hashed, recorded, w>> /\ Unset <= hashed
    BY <1>0, <1>10 DEF LoseTail, Unset
  <2> QED
    BY <2>1, <2>2, <2>3 DEF OrderInv
<1>11. CASE UNCHANGED auditVars
  BY <1>11 DEF auditVars, OrderInv
<1> QED
  BY <1>1, <1>2, <1>5, <1>6, <1>7, <1>8, <1>9, <1>10, <1>11 DEF AuditNext

LEMMA OpenStep ==
  ASSUME AuditTypeOK, MutexInv, OrderInv, OpenInv, [AuditNext]_auditVars
  PROVE  OpenInv'
<1> USE DEF history, Busy
<1>0. hashed \in Nat /\ \A c \in Writers : w[c].at # "idle" => Busy(c)
  BY DEF AuditTypeOK, NotRecording
<1>a. \A n \in recorded : n \in Hash
  BY DEF AuditTypeOK
<1>1. ASSUME NEW k \in Keys, AuditBoot(k) PROVE OpenInv'
  BY <1>1 DEF AuditBoot, OpenInv
<1>2. CASE TruncateAnchor \/ WriteAnchor \/ StartUnrecorded
  BY <1>2 DEF TruncateAnchor, WriteAnchor, StartUnrecorded, OpenInv
<1>5. ASSUME NEW c \in Writers, Record(c) PROVE OpenInv'
  <2>1. \A d \in Writers : w'[d].at # "newline"
    BY <1>5 DEF Record, AuditTypeOK, NotRecording
  <2> QED
    BY <1>5, <2>1 DEF Record, OpenInv
<1>6. ASSUME NEW c \in Writers, WriteLine(c) PROVE OpenInv'
  <2> DEFINE text == [prev |-> w[c].prev, hash |-> w[c].hash, key |-> key]
  <2>1. text \in Line /\ Busy(c) /\ text.hash = hashed
    BY <1>6, HeldEntry DEF WriteLine, Line
  <2>2. hashed' = hashed /\ recorded' = recorded /\ logFile' = Appended(text) /\ open'
    BY <1>6 DEF WriteLine
  <2> HIDE DEF text
  <2>3. /\ logFile' # <<>>
        /\ logFile'[Len(logFile')].hash \in {Unset, hashed}
    BY <2>1, <2>2, LogGrows, EmptySeq
  <2>5. hashed \notin recorded /\ Unset \notin recorded
    BY <1>a, <2>1, GarbledIs DEF OrderInv
  <2> QED
    BY <2>2, <2>3, <2>5 DEF OpenInv
<1>7. ASSUME NEW c \in Writers, WriteLineFails(c) PROVE OpenInv'
  <2>1. \A d \in Writers : w'[d].at # "newline"
    BY <1>0, <1>7 DEF WriteLineFails, MutexInv, AuditTypeOK, NotRecording
  <2>2. CASE UNCHANGED <<logFile, open>>
    BY <1>7, <2>1, <2>2 DEF WriteLineFails, OpenInv
  <2>3. ASSUME NEW part \in {Garbled, Torn}, logFile' = Appended(part) PROVE OpenInv'
    <3>1. logFile' # <<>> /\ logFile'[Len(logFile')].hash = Unset
      BY <2>3, LogGrows, EmptySeq, GarbledIs DEF Line
    <3> QED
      BY <1>7, <1>a, <2>1, <3>1, GarbledIs DEF WriteLineFails, OpenInv
  <2> QED
    BY <1>7, <2>2, <2>3 DEF WriteLineFails
<1>8. ASSUME NEW c \in Writers, WriteNewline(c) PROVE OpenInv'
  <2>1. \A d \in Writers : w'[d].at # "newline"
    BY <1>0, <1>8 DEF WriteNewline, MutexInv, AuditTypeOK, NotRecording
  <2> QED
    BY <1>8, <2>1 DEF WriteNewline, OpenInv
<1>9. CASE AuditCrash
  BY <1>9, GarbledIs DEF AuditCrash, OpenInv
<1>10. CASE LoseTail
  <2>1. \A c \in Writers : w[c].at # "newline"
    BY <1>0, <1>10 DEF LoseTail, MutexInv, Recording, Stopped
  <2>2. (open' => logFile' # <<>>) /\ lost' /\ w' = w
    BY <1>10, LogShrinks DEF LoseTail
  <2> QED
    BY <2>1, <2>2 DEF OpenInv
<1>11. CASE UNCHANGED auditVars
  BY <1>11 DEF auditVars, OpenInv
<1> QED
  BY <1>1, <1>2, <1>5, <1>6, <1>7, <1>8, <1>9, <1>10, <1>11 DEF AuditNext

LEMMA ChainStep ==
  ASSUME AuditTypeOK, MutexInv, OrderInv, OpenInv, ChainInv, [AuditNext]_auditVars
  PROVE  ChainInv'
<1> USE DEF history, Busy
<1>0. \A c \in Writers : w[c].at # "idle" <=> Busy(c)
  BY DEF AuditTypeOK, NotRecording, MutexInv
<1>c. cuts \in Nat
  BY DEF AuditTypeOK
<1> SUFFICES ASSUME cuts' = 0 PROVE ChainInv'
  BY DEF ChainInv
<1>1. ASSUME NEW k \in Keys, AuditBoot(k) PROVE ChainInv'
  <2>1. ~open
    BY <1>0, <1>1 DEF AuditBoot, ChainInv, MutexInv, Recording, Stopped
  <2>2. LastHash = EndOf(Len(logFile))
    <3>1. Chained /\ Len(logFile) \in Nat /\ DOMAIN logFile = 1..Len(logFile) /\ logFile \in Seq(Line)
      BY <1>1, LinesAre DEF AuditBoot, ChainInv
    <3>2. Parsed = DOMAIN logFile
      <4>1. \A i \in DOMAIN logFile : logFile[i].hash # Unset
        BY <3>1 DEF Chained
      <4>2. Readable
        BY <4>1, GarbledIs DEF Readable
      <4> QED
        BY <3>1, <4>1, <4>2, ReadIs
    <3>3. CASE Len(logFile) = 0
      BY <3>1, <3>2, <3>3 DEF EndOf, LastHash
    <3>4. CASE Len(logFile) # 0
      <4>1. Len(logFile) \in Parsed
        BY <3>1, <3>2, <3>4
      <4>a. Read # {}
        BY <4>1 DEF Read
      <4>2. PICK p \in Parsed : LastHash = logFile[p].hash /\ \A i \in Parsed : i <= p
        BY <3>1, <4>a, LastHashIs
      <4>3. p = Len(logFile)
        BY <3>1, <3>2, <4>1, <4>2
      <4> QED
        BY <3>4, <4>2, <4>3 DEF EndOf
    <3> QED
      BY <3>3, <3>4
  <2>3. phase' = "rejected" => Stopped'
    BY DEF Stopped
  <2> QED
    BY <1>1, <2>1, <2>2, <2>3 DEF AuditBoot, ChainInv, Chained, EndOf, MutexInv, Recording, Stopped
<1>2. CASE TruncateAnchor \/ WriteAnchor \/ StartUnrecorded
  BY <1>2 DEF TruncateAnchor, WriteAnchor, StartUnrecorded, ChainInv, Chained, EndOf, Stopped
<1>5. ASSUME NEW c \in Writers, Record(c) PROVE ChainInv'
  <2>1. \A d \in Writers : d # c => w'[d] = NotRecording
    BY <1>5 DEF Record, AuditTypeOK
  <2>2. w'[c].at = "line" /\ w'[c].prev = head
    BY <1>5 DEF Record, AuditTypeOK
  <2>3. ~open
    BY <1>5 DEF Record, ChainInv, NotRecording
  <2> QED
    BY <1>5, <2>1, <2>2, <2>3 DEF Record, ChainInv, Chained, EndOf, Stopped, NotRecording
<1>6. ASSUME NEW c \in Writers, WriteLine(c) PROVE ChainInv'
  <2> DEFINE text == [prev |-> w[c].prev, hash |-> w[c].hash, key |-> key]
  <2>1. text \in Line /\ Busy(c) /\ text.hash = w[c].hash /\ text.prev = w[c].prev /\ text.hash # Unset /\ ~Stopped
    BY <1>6, HeldEntry, GarbledIs DEF WriteLine, Line, AuditTypeOK
  <2>2. head' = head /\ logFile' = Appended(text) /\ open' /\ cuts' = cuts /\ phase' = phase
    BY <1>6 DEF WriteLine
  <2> HIDE DEF text
  <2>3. ~open
    <3>1. \A d \in Writers : w[d].at # "newline"
      BY <1>0, <1>6, <2>1 DEF WriteLine, MutexInv
    <3> QED
      BY <2>2, <3>1 DEF ChainInv
  <2>4. /\ Len(logFile') = Len(logFile) + 1 /\ DOMAIN logFile' = 1..Len(logFile')
        /\ logFile'[Len(logFile')] = text
        /\ \A i \in 1..(Len(logFile') - 1) : i \in DOMAIN logFile /\ logFile'[i] = logFile[i]
    BY <2>1, <2>2, <2>3, LogGrows
  <2>5. Len(logFile) \in Nat /\ DOMAIN logFile = 1..Len(logFile)
    BY LinesAre
  <2>6. head = EndOf(Len(logFile)) /\ w[c].prev = head /\ Chained
    BY <2>1, <2>2, <2>3 DEF ChainInv
  <2>7. head' = EndOf(Len(logFile) - 1)'
    BY <2>2, <2>4, <2>5, <2>6 DEF EndOf
  <2>8. Chained'
    <3> SUFFICES ASSUME NEW i \in DOMAIN logFile'
                 PROVE  /\ logFile'[i].hash # Unset
                        /\ logFile'[i].prev = IF i = 1 THEN Genesis ELSE logFile'[i - 1].hash
      BY DEF Chained
    <3>1. CASE i = Len(logFile')
      <4>1. text.prev = EndOf(Len(logFile))
        BY <2>1, <2>6
      <4> QED
        BY <2>1, <2>4, <2>5, <3>1, <4>1 DEF EndOf
    <3>2. CASE i # Len(logFile')
      <4>1. i \in DOMAIN logFile /\ logFile'[i] = logFile[i] /\ (i # 1 => logFile'[i - 1] = logFile[i - 1])
        BY <2>4, <2>5, <3>2
      <4> QED
        BY <2>6, <4>1 DEF Chained
    <3> QED
      BY <3>1, <3>2
  <2>9. \A d \in Writers : Busy(d)' => d = c
    BY <1>0, <1>6, <2>1 DEF WriteLine, MutexInv, AuditTypeOK
  <2>10. w'[c].at = "newline" /\ w'[c].hash = w[c].hash /\ w'[c].prev = w[c].prev
    BY <1>6 DEF WriteLine, AuditTypeOK
  <2>11. \A d \in Writers : w'[d].at = "newline" => d = c
    BY <2>9 DEF NotRecording
  <2> QED
    BY <2>1, <2>2, <2>4, <2>6, <2>7, <2>8, <2>9, <2>10, <2>11 DEF ChainInv
<1>7. ASSUME NEW c \in Writers, WriteLineFails(c) PROVE ChainInv'
  <2>1. UNCHANGED <<logFile, open, cuts, head>>
    BY <1>7, <1>c DEF WriteLineFails
  <2>2. ~open
    <3>1. \A d \in Writers : w[d].at # "newline"
      BY <1>0, <1>7 DEF WriteLineFails, MutexInv
    <3> QED
      BY <2>1, <3>1 DEF ChainInv
  <2>3. \A d \in Writers : ~Busy(d)'
    BY <1>0, <1>7 DEF WriteLineFails, MutexInv, AuditTypeOK
  <2>4. \A d \in Writers : w'[d].at # "newline"
    BY <2>3 DEF NotRecording
  <2>5. ~Stopped
    BY <1>7, HeldEntry DEF WriteLineFails
  <2> QED
    BY <2>1, <2>2, <2>3, <2>4, <2>5 DEF ChainInv, Chained, EndOf
<1>8. ASSUME NEW c \in Writers, WriteNewline(c) PROVE ChainInv'
  <2>1. /\ ~open' /\ head' = w[c].hash /\ UNCHANGED <<cuts, logFile>>
    BY <1>8, <1>c DEF WriteNewline
  <2>2. \A d \in Writers : ~Busy(d)'
    BY <1>0, <1>8 DEF WriteNewline, MutexInv, AuditTypeOK
  <2>3. \A d \in Writers : w'[d].at # "newline"
    BY <2>2 DEF NotRecording
  <2>4. Chained /\ logFile[Len(logFile)].hash = w[c].hash /\ logFile # <<>>
    BY <1>8, <2>1 DEF WriteNewline, ChainInv, OpenInv
  <2>5. Len(logFile) # 0
    BY <2>4, LinesAre, EmptySeq
  <2> QED
    BY <2>1, <2>2, <2>3, <2>4, <2>5 DEF ChainInv, Chained, EndOf
<1>9. CASE AuditCrash
  <2>1. cuts = 0 /\ \A c \in Writers : w[c].at # "newline"
    <3> DEFINE N == {c \in Writers : w[c].at = "newline"}
    <3>1. cuts' = cuts + Cardinality(N)
      BY <1>9 DEF AuditCrash
    <3>2. Cardinality(N) \in Nat /\ (N # {} => Cardinality(N) = 1)
      BY NewlineCount
    <3> HIDE DEF N
    <3>a. cuts = 0 /\ Cardinality(N) = 0
      BY <1>c, <3>1, <3>2
    <3>3. N = {} /\ cuts = 0
      BY <3>2, <3>a
    <3> QED
      BY <3>3 DEF N
  <2>2. ~open /\ Stopped'
    BY <1>9, <2>1 DEF AuditCrash, ChainInv, Stopped
  <2> QED
    BY <1>9, <2>1, <2>2 DEF AuditCrash, ChainInv, Chained, NotRecording
<1>10. CASE LoseTail
  <2>0. Stopped' /\ Stopped /\ w' = w
    BY <1>10 DEF LoseTail, Stopped
  <2>2. \A c \in Writers : ~Busy(c)
    BY <2>0 DEF MutexInv, Recording, Stopped
  <2>a. ~open'
    <3>1. CASE cuts = 0
      BY <1>0, <1>10, <2>2, <3>1, LogShrinks DEF ChainInv
    <3>2. CASE cuts # 0
      BY <1>c, <1>10, <3>2 DEF LoseTail
    <3> QED
      BY <3>1, <3>2
  <2>1. ~open' /\ Stopped' /\ Stopped /\ cuts = 0 /\ w' = w
    BY <1>10, <2>0, <2>a, LogShrinks
  <2>3. Chained'
    <3>1. Chained
      BY <2>1 DEF ChainInv
    <3>2. Len(logFile') \in Nat /\ DOMAIN logFile' = 1..Len(logFile')
      BY <1>10, LogShrinks
    <3>3. \A i \in DOMAIN logFile' : i \in DOMAIN logFile /\ logFile'[i] = logFile[i]
      BY <1>10, <2>1, LogShrinks
    <3> SUFFICES ASSUME NEW i \in DOMAIN logFile'
                 PROVE  /\ logFile'[i].hash # Unset
                        /\ logFile'[i].prev = IF i = 1 THEN Genesis ELSE logFile'[i - 1].hash
      BY DEF Chained
    <3>4. i # 1 => i - 1 \in DOMAIN logFile'
      BY <3>2
    <3> QED
      BY <3>1, <3>3, <3>4 DEF Chained
  <2> QED
    BY <1>0, <2>1, <2>2, <2>3 DEF ChainInv
<1>11. CASE UNCHANGED auditVars
  BY <1>11, Zenon DEF auditVars, ChainInv, Chained, EndOf, Stopped
<1> QED
  BY <1>1, <1>2, <1>5, <1>6, <1>7, <1>8, <1>9, <1>10, <1>11 DEF AuditNext

LEMMA Counting ==
  ASSUME NEW S, S \subseteq Hash
  PROVE  /\ Cardinality(S) \in Nat
         /\ \A T \in SUBSET S : Cardinality(T) \in Nat /\ Cardinality(T) <= Cardinality(S)
         /\ \A x : Cardinality(S \cup {x}) \in Nat /\ Cardinality(S \cup {x}) <= Cardinality(S) + 1
<1>1. IsFiniteSet(Hash)
  BY BoundAssumption, FS_Interval DEF Hash, Genesis
<1>2. IsFiniteSet(S)
  BY <1>1, FS_Subset
<1>3. ASSUME NEW T \in SUBSET S PROVE Cardinality(T) \in Nat /\ Cardinality(T) <= Cardinality(S)
  BY <1>2, FS_Subset, FS_CardinalityType
<1>4. ASSUME NEW x PROVE Cardinality(S \cup {x}) \in Nat /\ Cardinality(S \cup {x}) <= Cardinality(S) + 1
  <2>1. Cardinality(S) \in Nat
    BY <1>2, FS_CardinalityType
  <2> QED
    BY <1>2, <2>1, FS_AddElement
<1> QED
  BY <1>2, <1>3, <1>4, FS_CardinalityType

\* An append costs no recorded entry: an open line it may garble is not one.
LEMMA AppendKeeps ==
  ASSUME AuditTypeOK, OpenInv, ~lost, NEW text \in Line, logFile' = Appended(text)
  PROVE  recorded \ Hashes' \subseteq recorded \ Hashes
<1> SUFFICES ASSUME NEW n \in recorded, n \in Hashes PROVE n \in Hashes'
  OBVIOUS
<1>1. PICK i \in DOMAIN logFile : logFile[i].hash = n
  BY DEF Hashes
<1>2. Len(logFile) \in Nat /\ DOMAIN logFile = 1..Len(logFile) /\ n # Unset
  BY LinesAre DEF Hashes
<1>3. i \in DOMAIN logFile' /\ logFile'[i] = logFile[i]
  <2>1. CASE open
    <3>1. i # Len(logFile)
      BY <1>1, <2>1 DEF OpenInv
    <3> QED
      BY <1>2, <2>1, <3>1, LogGrows
  <2>2. CASE ~open
    BY <1>2, <2>2, LogGrows
  <2> QED
    BY <2>1, <2>2
<1> QED
  BY <1>1, <1>2, <1>3 DEF Hashes

LEMMA LossStep ==
  ASSUME AuditTypeOK, MutexInv, OrderInv, OpenInv, LossInv, [AuditNext]_auditVars
  PROVE  LossInv'
<1> USE DEF history, Busy
<1>0. \A c \in Writers : w[c].at # "idle" <=> Busy(c)
  BY DEF AuditTypeOK, NotRecording, MutexInv
<1> DEFINE missing == recorded \ Hashes
<1>c. cuts \in Nat /\ recorded \subseteq Hash /\ missing \subseteq Hash
  BY DEF AuditTypeOK
<1> SUFFICES ASSUME ~lost' PROVE LossInv'
  BY DEF LossInv
<1>k. /\ Cardinality(missing) \in Nat
      /\ \A T \in SUBSET missing : Cardinality(T) \in Nat /\ Cardinality(T) <= Cardinality(missing)
      /\ \A x : Cardinality(missing \cup {x}) \in Nat /\ Cardinality(missing \cup {x}) <= Cardinality(missing) + 1
  BY <1>c, Counting
<1>l. ~lost => /\ Pledged => Cardinality(missing) + 1 <= cuts
               /\ Cardinality(missing) <= cuts
  BY <1>c, <1>k DEF LossInv
<1>m. ASSUME missing' \subseteq missing, ~lost, cuts' \in Nat,
             (cuts' = cuts /\ (Pledged' => Pledged)) \/ cuts' = cuts + 1
      PROVE  LossInv'
  <2>1. Cardinality(missing') \in Nat /\ Cardinality(missing') <= Cardinality(missing)
    BY <1>k, <1>m
  <2> HIDE DEF missing
  <2>2. Cardinality(missing)' + (IF Pledged' THEN 1 ELSE 0) <= cuts'
    BY <1>c, <1>k, <1>l, <1>m, <2>1
  <2> QED
    BY <2>2 DEF LossInv, missing
<1>1. ASSUME NEW k \in Keys, AuditBoot(k) PROVE LossInv'
  <2>1. UNCHANGED <<missing, Pledged, lost, cuts>>
    BY <1>1 DEF AuditBoot, Hashes, Pledged
  <2> QED
    BY <1>c, <1>m, <2>1
<1>2. CASE TruncateAnchor \/ WriteAnchor \/ StartUnrecorded
  <2>1. UNCHANGED <<missing, Pledged, lost, cuts>>
    BY <1>2 DEF TruncateAnchor, WriteAnchor, StartUnrecorded, Hashes, Pledged
  <2> QED
    BY <1>c, <1>m, <2>1
<1>5. ASSUME NEW c \in Writers, Record(c) PROVE LossInv'
  <2>1. \A d \in Writers : w[d].at # "newline" /\ w'[d].at # "newline"
    BY <1>5 DEF Record, AuditTypeOK, NotRecording
  <2>2. UNCHANGED <<missing, Pledged, lost, cuts>>
    BY <1>5, <2>1 DEF Record, Hashes, Pledged
  <2> QED
    BY <1>c, <1>m, <2>2
<1>6. ASSUME NEW c \in Writers, WriteLine(c) PROVE LossInv'
  <2> DEFINE text == [prev |-> w[c].prev, hash |-> w[c].hash, key |-> key]
  <2>1. text \in Line /\ Busy(c) /\ text.hash = hashed /\ text.hash # Unset
    BY <1>6, HeldEntry, GarbledIs DEF WriteLine, Line, AuditTypeOK
  <2>2. UNCHANGED <<recorded, cuts, lost>> /\ logFile' = Appended(text)
    BY <1>6 DEF WriteLine
  <2> HIDE DEF text
  <2>3. missing' \subseteq missing
    BY <2>1, <2>2, AppendKeeps
  <2>4. \A d \in Writers : w[d].at # "newline"
    BY <1>0, <1>6, <2>1 DEF WriteLine, MutexInv
  <2>5. w'[c].at = "newline"
    BY <1>6 DEF WriteLine, AuditTypeOK
  <2>6. Pledged' => Pledged
    <3>1. ~open => logFile'[Len(logFile')].hash # Unset
      BY <2>1, <2>2, LogGrows
    <3> QED
      BY <2>4, <2>5, <3>1 DEF Pledged
  <2> QED
    BY <1>c, <1>m, <2>2, <2>3, <2>6
<1>7. ASSUME NEW c \in Writers, WriteLineFails(c) PROVE LossInv'
  <2>1. \A d \in Writers : w[d].at # "newline" /\ w'[d].at # "newline"
    BY <1>0, <1>7 DEF WriteLineFails, MutexInv, AuditTypeOK, NotRecording
  <2>2. CASE UNCHANGED <<logFile, open, cuts>>
    <3>1. UNCHANGED <<missing, Pledged, lost, cuts>>
      BY <1>7, <2>1, <2>2 DEF WriteLineFails, Hashes, Pledged
    <3> QED
      BY <1>c, <1>m, <3>1
  <2>3. ASSUME NEW part \in {Garbled, Torn}, logFile' = Appended(part), cuts' = cuts + 1 PROVE LossInv'
    <3>1. UNCHANGED <<recorded, lost>>
      BY <1>7 DEF WriteLineFails
    <3>2. missing' \subseteq missing
      BY <2>3, <3>1, AppendKeeps DEF Line
    <3> QED
      BY <1>c, <1>m, <2>3, <3>1, <3>2
  <2> QED
    BY <1>7, <2>2, <2>3 DEF WriteLineFails
<1>8. ASSUME NEW c \in Writers, WriteNewline(c) PROVE LossInv'
  <2>1. Hashes' = Hashes /\ lost' = lost
    BY <1>8 DEF WriteNewline, Hashes
  <2>2. CASE cuts' = cuts + 1 /\ UNCHANGED recorded
    BY <1>c, <1>m, <2>1, <2>2
  <2>3. CASE ~open' /\ recorded' = recorded \cup {w[c].hash} /\ cuts' = cuts
    <3>1. ~Pledged'
      BY <2>3 DEF Pledged
    <3>2. CASE w[c].hash \in Hashes
      <4>1. missing' \subseteq missing
        BY <2>1, <2>3, <3>2
      <4> QED
        BY <1>c, <1>m, <2>1, <2>3, <3>1, <4>1
    <3>3. CASE w[c].hash \notin Hashes
      <4>1. logFile[Len(logFile)].hash \in {Unset, w[c].hash} /\ open /\ logFile # <<>>
        BY <1>8, HeldEntry DEF WriteNewline, OpenInv
      <4>2. Len(logFile) \in DOMAIN logFile /\ w[c].hash \in Hash
        BY <4>1, LinesAre, EmptySeq DEF AuditTypeOK
      <4>3. logFile[Len(logFile)].hash = Unset
        BY <3>3, <4>1, <4>2, GarbledIs DEF Hashes
      <4>4. Pledged
        BY <4>1, <4>3 DEF Pledged
      <4>5. missing' = missing \cup {w[c].hash}
        BY <2>1, <2>3, <3>3
      <4>6. Cardinality(missing') \in Nat /\ Cardinality(missing') <= Cardinality(missing) + 1
        BY <1>k, <4>5
      <4> HIDE DEF missing
      <4>7. Cardinality(missing)' <= cuts'
        BY <1>c, <1>k, <1>l, <2>1, <2>3, <4>4, <4>6
      <4> QED
        BY <1>c, <2>3, <3>1, <4>6, <4>7 DEF LossInv, missing
    <3> QED
      BY <3>2, <3>3
  <2> QED
    BY <1>8, <2>2, <2>3 DEF WriteNewline
<1>9. CASE AuditCrash
  <2> DEFINE N == {c \in Writers : w[c].at = "newline"}
  <2>1. UNCHANGED <<missing, lost, open, logFile>> /\ cuts' = cuts + Cardinality(N)
    BY <1>9 DEF AuditCrash, Hashes
  <2>2. CASE N = {}
    <3>1. Cardinality(N) = 0
      BY <2>2, NewlineCount
    <3>2. Pledged' => Pledged
      BY <2>1, <2>2 DEF Pledged
    <3> QED
      BY <1>c, <1>m, <2>1, <3>1, <3>2
  <2>3. CASE N # {}
    <3>1. Cardinality(N) = 1
      BY <2>3, NewlineCount
    <3> QED
      BY <1>c, <1>m, <2>1, <3>1
  <2> QED
    BY <2>2, <2>3
<1>10. CASE LoseTail
  BY <1>10 DEF LoseTail
<1>11. CASE UNCHANGED auditVars
  <2>1. UNCHANGED <<missing, Pledged, lost, cuts>>
    BY <1>11 DEF auditVars, Hashes, Pledged
  <2> QED
    BY <1>c, <1>m, <2>1
<1> QED
  BY <1>1, <1>2, <1>5, <1>6, <1>7, <1>8, <1>9, <1>10, <1>11 DEF AuditNext

LEMMA BootStep ==
  ASSUME AuditTypeOK, MutexInv, OrderInv, BootInv, [AuditNext]_auditVars
  PROVE  BootInv'
<1> USE DEF history, Busy
<1>0. \A c \in Writers : w[c].at # "idle" => phase \in {"start", "serving"}
  BY DEF AuditTypeOK, NotRecording, MutexInv, Recording
<1>1. ASSUME NEW k \in Keys, AuditBoot(k) PROVE BootInv'
  <2>1. UNCHANGED logFile /\ (phase' \in {"anchor", "anchor_write"} => head' = LastHash)
    BY <1>1 DEF AuditBoot
  <2>2. logFile \in Seq(Line)
    BY LinesAre
  <2>a. UNCHANGED <<Read, Parsed, Readable>>
    BY <2>1 DEF Read, Parsed, Readable
  <2>3. CASE LastHash = Genesis /\ Read = {}
    BY <2>1, <2>3, <2>a DEF BootInv, ContainsHash
  <2>4. ASSUME NEW p \in Parsed, LastHash = logFile[p].hash, \A i \in Parsed : i <= p
        PROVE  BootInv'
    <3>1. /\ \A i \in DOMAIN logFile : i \in Nat
          /\ p \in DOMAIN logFile /\ logFile[p].hash # Unset /\ logFile[p].hash \in Read
          /\ Parsed \subseteq DOMAIN logFile
      BY <2>2, ReadIs, LinesAre
    <3>2. ASSUME NEW i \in DOMAIN logFile, logFile[i].hash = LastHash PROVE i = p
      <4>2. logFile[i].hash \in Int /\ ~(logFile[i].hash < logFile[p].hash) /\ ~(logFile[p].hash < logFile[i].hash)
        BY <2>4, <3>1, <3>2, LinesAre DEF Hash, Unset, Genesis
      <4> QED
        BY <2>4, <3>1, <3>2, <4>2 DEF OrderInv
    <3>3. Read \subseteq {logFile[j].hash : j \in 1..p}
      <4> SUFFICES ASSUME NEW j \in Parsed PROVE j \in 1..p
        BY DEF Read
      <4> QED
        BY <2>4, <3>1, LinesAre
    <3>4. LastHash # Genesis
      BY <2>4, <3>1, LinesAre, GarbledIs
    <3>5. \A i \in DOMAIN logFile : logFile[i].hash = LastHash => Read \subseteq {logFile[j].hash : j \in 1..i}
      BY <3>2, <3>3
    <3> QED
      BY <2>1, <2>4, <2>a, <3>1, <3>4, <3>5 DEF BootInv, ContainsHash
  <2> QED
    BY <2>2, <2>3, <2>4, LastHashIs
<1>2. CASE TruncateAnchor \/ WriteAnchor \/ StartUnrecorded
  <2>1. UNCHANGED <<logFile, head>> /\ (phase' = "anchor_write" => phase = "anchor") /\ phase' # "anchor"
    BY <1>2 DEF TruncateAnchor, WriteAnchor, StartUnrecorded
  <2>2. UNCHANGED <<Read, Parsed, Readable>>
    BY <2>1 DEF Read, Parsed, Readable
  <2> QED
    BY <2>1, <2>2 DEF BootInv, ContainsHash
<1>5. ASSUME NEW c \in Writers, Record(c) \/ WriteLine(c) \/ WriteLineFails(c) \/ WriteNewline(c) PROVE BootInv'
  BY <1>0, <1>5 DEF Record, Recording, WriteLine, WriteLineFails, WriteNewline, BootInv
<1>9. CASE AuditCrash \/ LoseTail
  <2>1. phase' \notin {"anchor", "anchor_write"}
    BY <1>9 DEF AuditCrash, LoseTail, Stopped
  <2> QED
    BY <2>1 DEF BootInv
<1>11. CASE UNCHANGED auditVars
  <2>1. UNCHANGED <<phase, logFile, head, Read, Parsed, Readable>>
    BY <1>11 DEF auditVars, Read, Parsed, Readable
  <2> QED
    BY <2>1 DEF BootInv, ContainsHash
<1> QED
  BY <1>1, <1>2, <1>5, <1>9, <1>11 DEF AuditNext

\* The anchored entries stay in front of the anchored head when the log
\* changes behind it.
LEMMA AnchoredStay ==
  ASSUME AuditTypeOK, AnchorInv, anchor # NoAnchor,
         \A i \in DOMAIN logFile' : logFile'[i].hash = anchor.head =>
           /\ i \in DOMAIN logFile
           /\ \A j \in 1..i : logFile'[j] = logFile[j]
  PROVE  \A i \in DOMAIN logFile' :
           logFile'[i].hash = anchor.head => anchored \subseteq {logFile'[j].hash : j \in 1..i}
<1> SUFFICES ASSUME NEW i \in DOMAIN logFile', logFile'[i].hash = anchor.head
             PROVE  anchored \subseteq {logFile'[j].hash : j \in 1..i}
  OBVIOUS
<1>1. i \in DOMAIN logFile /\ \A j \in 1..i : logFile'[j] = logFile[j]
  OBVIOUS
<1>2. logFile[i].hash = anchor.head => anchored \subseteq {logFile[j].hash : j \in 1..i}
  BY <1>1 DEF AnchorInv
<1>3. {logFile[j].hash : j \in 1..i} = {logFile'[j].hash : j \in 1..i} /\ logFile[i].hash = anchor.head
  <2>1. i \in 1..i
    BY <1>1, LinesAre
  <2> QED
    BY <1>1, <2>1
<1> QED
  BY <1>2, <1>3

LEMMA AnchorStep ==
  ASSUME AuditTypeOK, MutexInv, OrderInv, OpenInv, ChainInv, BootInv, AnchorInv, [AuditNext]_auditVars
  PROVE  AnchorInv'
<1> USE DEF history, Busy
<1>0. hashed \in Nat /\ cuts \in Nat /\ \A c \in Writers : w[c].at # "idle" <=> Busy(c)
  BY DEF AuditTypeOK, NotRecording, MutexInv
<1>a. anchor # NoAnchor => anchor.head \in Hash /\ anchor.head # Unset
  BY GarbledIs DEF AuditTypeOK, Anchor
<1>1. ASSUME NEW k \in Keys, AuditBoot(k) PROVE AnchorInv'
  BY <1>1 DEF AuditBoot, AnchorInv, InFile, Hashes
<1>2. CASE TruncateAnchor
  BY <1>2 DEF TruncateAnchor, AnchorInv, InFile, Hashes
<1>3. CASE WriteAnchor
  <2>1. CASE UNCHANGED <<anchor, anchored>>
    BY <1>3, <2>1 DEF WriteAnchor, AnchorInv, InFile, Hashes
  <2>2. CASE anchor' = [head |-> head, key |-> key] /\ anchored' = Read
    <3>1. anchor'.head = head /\ head <= hashed /\ \A c \in Writers : ~Busy(c)
      BY <1>3, <2>2 DEF WriteAnchor, MutexInv, Stopped, Recording
    <3>2. UNCHANGED <<logFile, hashed, w>>
      BY <1>3 DEF WriteAnchor
    <3>3. phase \in {"anchor", "anchor_write"}
      BY <1>3 DEF WriteAnchor
    <3>4. \A i \in DOMAIN logFile : logFile[i].hash = head => Read \subseteq {logFile[j].hash : j \in 1..i}
      BY <3>3 DEF BootInv
    <3>5. (head = Genesis => Read = {}) /\ ContainsHash(head)
      BY <3>3 DEF BootInv
    <3>6. \A i \in DOMAIN logFile' :
            logFile'[i].hash = anchor'.head => anchored' \subseteq {logFile'[j].hash : j \in 1..i}
      BY <2>2, <3>1, <3>2, <3>4
    <3>7. (anchor'.head = Genesis => anchored' = {}) /\ InFile(anchor.head)'
      BY <2>2, <3>1, <3>2, <3>5, ReadIs, LinesAre DEF ContainsHash, InFile, Hashes
    <3>8. anchor'.head <= hashed' /\ \A c \in Writers : ~Busy(c)'
      BY <3>1, <3>2
    <3> QED
      BY <3>6, <3>7, <3>8 DEF AnchorInv
  <2> QED
    BY <1>3, <2>1, <2>2 DEF WriteAnchor
<1>4. CASE StartUnrecorded
  BY <1>4 DEF StartUnrecorded, AnchorInv, InFile, Hashes
<1>5. ASSUME NEW c \in Writers, Record(c) PROVE AnchorInv'
  <2>1. UNCHANGED <<logFile, anchor, anchored, cuts, lost>> /\ hashed' = hashed + 1
    BY <1>5 DEF Record
  <2>2. anchor # NoAnchor => anchor.head \in Int /\ anchor.head < hashed'
    BY <1>0, <1>a, <2>1 DEF AnchorInv, Hash, Genesis
  <2> QED
    BY <1>0, <2>1, <2>2 DEF AnchorInv, InFile, Hashes
<1>6. ASSUME NEW c \in Writers, NEW text \in Line, logFile' = Appended(text),
             Busy(c), UNCHANGED <<anchor, anchored, hashed, lost>>, text.hash \in {Unset, hashed},
             cuts' = 0 => cuts = 0 /\ ~open, \A d \in Writers : Busy(d)' => Busy(d)
      PROVE  AnchorInv'
  <2> SUFFICES ASSUME anchor # NoAnchor PROVE AnchorInv'
    BY <1>6 DEF AnchorInv
  <2>1. anchor.head < hashed /\ anchor.head \in Int
    BY <1>6, <1>a DEF AnchorInv, Hash, Genesis
  <2>2. /\ Len(logFile') \in Nat \ {0} /\ DOMAIN logFile' = 1..Len(logFile')
        /\ logFile'[Len(logFile')].hash \in {Unset, hashed}
        /\ \A i \in 1..(Len(logFile') - 1) : i \in DOMAIN logFile /\ logFile'[i] = logFile[i]
    BY <1>6, LogGrows
  <2>3. logFile'[Len(logFile')].hash # anchor.head
    BY <1>0, <1>a, <2>1, <2>2, GarbledIs
  <2>4. ASSUME NEW i \in DOMAIN logFile', logFile'[i].hash = anchor.head
        PROVE  i \in DOMAIN logFile /\ \A j \in 1..i : logFile'[j] = logFile[j]
    <3>1. i \in 1..(Len(logFile') - 1)
      BY <2>2, <2>3, <2>4
    <3> QED
      BY <2>2, <3>1
  <2>5. \A i \in DOMAIN logFile' :
          logFile'[i].hash = anchor.head => anchored \subseteq {logFile'[j].hash : j \in 1..i}
    BY <2>4, AnchoredStay
  <2>6. cuts' = 0 /\ ~lost => InFile(anchor.head)'
    <3> SUFFICES ASSUME cuts' = 0, ~lost, anchor.head # Genesis PROVE anchor.head \in Hashes'
      BY <1>6 DEF InFile
    <3>1. anchor.head \in Hashes
      BY <1>6 DEF AnchorInv, InFile
    <3>2. PICK i \in DOMAIN logFile : logFile[i].hash = anchor.head
      BY <3>1 DEF Hashes
    <3>3. Len(logFile') = Len(logFile) + 1 /\ Len(logFile) \in Nat /\ DOMAIN logFile = 1..Len(logFile)
      BY <1>6, LogGrows, LinesAre
    <3>4. i \in DOMAIN logFile' /\ logFile'[i] = logFile[i]
      BY <2>2, <3>3
    <3> QED
      BY <1>a, <3>2, <3>4 DEF Hashes
  <2> QED
    BY <1>0, <1>6, <2>1, <2>5, <2>6 DEF AnchorInv
<1>7. ASSUME NEW c \in Writers, WriteLine(c) PROVE AnchorInv'
  <2>1. [prev |-> w[c].prev, hash |-> w[c].hash, key |-> key] \in Line /\ Busy(c) /\ w[c].hash = hashed
    BY <1>7, HeldEntry DEF WriteLine, Line
  <2>2. cuts' = 0 => cuts = 0 /\ ~open
    <3>1. \A d \in Writers : w[d].at # "newline"
      BY <1>0, <1>7, <2>1 DEF WriteLine, MutexInv
    <3> QED
      BY <1>7, <3>1 DEF WriteLine, ChainInv
  <2>3. \A d \in Writers : Busy(d)' => Busy(d)
    BY <1>7, <2>1 DEF WriteLine, AuditTypeOK
  <2> QED
    BY <1>6, <1>7, <2>1, <2>2, <2>3 DEF WriteLine
<1>8. ASSUME NEW c \in Writers, WriteLineFails(c) PROVE AnchorInv'
  <2>1. Busy(c) /\ \A d \in Writers : Busy(d)' => Busy(d)
    BY <1>0, <1>8 DEF WriteLineFails, AuditTypeOK
  <2>2. CASE UNCHANGED <<logFile, open, cuts>>
    BY <1>8, <2>1, <2>2 DEF WriteLineFails, AnchorInv, InFile, Hashes
  <2>3. ASSUME NEW part \in {Garbled, Torn}, logFile' = Appended(part), cuts' = cuts + 1 PROVE AnchorInv'
    <3>1. part \in Line /\ part.hash = Unset /\ (cuts' = 0 => cuts = 0 /\ ~open)
      BY <1>0, <2>3, GarbledIs DEF Line
    <3>2. UNCHANGED <<anchor, anchored, hashed, lost>>
      BY <1>8 DEF WriteLineFails
    <3> QED
      BY <1>6, <2>1, <2>3, <3>1, <3>2
  <2> QED
    BY <1>8, <2>2, <2>3 DEF WriteLineFails
<1>9. ASSUME NEW c \in Writers, WriteNewline(c) PROVE AnchorInv'
  <2>1. \A d \in Writers : Busy(d)' => Busy(d)
    BY <1>0, <1>9 DEF WriteNewline, AuditTypeOK
  <2>2. UNCHANGED <<logFile, anchor, anchored, hashed, lost>> /\ (cuts' = 0 => cuts = 0)
    BY <1>0, <1>9 DEF WriteNewline
  <2> QED
    BY <2>1, <2>2 DEF AnchorInv, InFile, Hashes
<1>10. CASE AuditCrash
  <2>1. cuts' = 0 => cuts = 0
    <3>1. Cardinality({c \in Writers : w[c].at = "newline"}) \in Nat
      BY NewlineCount
    <3> QED
      BY <1>0, <1>10, <3>1 DEF AuditCrash
  <2>2. \A d \in Writers : ~Busy(d)'
    BY <1>10 DEF AuditCrash
  <2>3. UNCHANGED <<logFile, anchor, anchored, hashed, lost>>
    BY <1>10 DEF AuditCrash
  <2> QED
    BY <2>1, <2>2, <2>3 DEF AnchorInv, InFile, Hashes
<1>11. CASE LoseTail
  <2> SUFFICES ASSUME anchor # NoAnchor PROVE AnchorInv'
    BY <1>11 DEF LoseTail, AnchorInv
  <2>1. UNCHANGED <<anchor, anchored, hashed, w>> /\ lost'
    BY <1>11 DEF LoseTail
  <2>2. ASSUME NEW i \in DOMAIN logFile', logFile'[i].hash = anchor.head
        PROVE  i \in DOMAIN logFile /\ \A j \in 1..i : logFile'[j] = logFile[j]
    <3>1. /\ Len(logFile') \in Nat /\ DOMAIN logFile' = 1..Len(logFile') /\ i \in DOMAIN logFile
          /\ \A j \in 1..(Len(logFile') - 1) : logFile'[j] = logFile[j]
          /\ logFile'[i] = logFile[i] \/ logFile'[i].hash = Unset
      BY <1>11, LogShrinks
    <3>2. logFile'[i] = logFile[i]
      BY <1>a, <2>2, <3>1
    <3>3. \A j \in 1..i : j = i \/ j \in 1..(Len(logFile') - 1)
      BY <3>1
    <3> QED
      BY <3>1, <3>2, <3>3
  <2>3. \A i \in DOMAIN logFile' :
          logFile'[i].hash = anchor.head => anchored \subseteq {logFile'[j].hash : j \in 1..i}
    BY <2>2, AnchoredStay
  <2> QED
    BY <2>1, <2>3 DEF AnchorInv
<1>12. CASE UNCHANGED auditVars
  BY <1>12 DEF auditVars, AnchorInv, InFile, Hashes
<1> QED
  BY <1>1, <1>2, <1>3, <1>4, <1>5, <1>7, <1>8, <1>9, <1>10, <1>11, <1>12 DEF AuditNext

LEMMA CheckedStep ==
  ASSUME AuditTypeOK, MutexInv, CheckedInv, [AuditNext]_auditVars
  PROVE  CheckedInv'
<1> USE DEF history, Busy
<1>0. \A c \in Writers : w[c].at # "idle" => phase \in {"start", "serving"}
  BY DEF AuditTypeOK, NotRecording, MutexInv, Recording
<1>1. ASSUME NEW k \in Keys, AuditBoot(k) PROVE CheckedInv'
  BY <1>1 DEF AuditBoot, BootCheck, CheckedInv, ReadsAnchor, ContainsHash, Read, Parsed, Readable
<1>2. CASE TruncateAnchor \/ WriteAnchor \/ StartUnrecorded \/ AuditCrash
  BY <1>2 DEF TruncateAnchor, WriteAnchor, StartUnrecorded, AuditCrash, CheckedInv
<1>3. ASSUME NEW c \in Writers, Record(c) \/ WriteLine(c) \/ WriteLineFails(c) \/ WriteNewline(c) PROVE CheckedInv'
  BY <1>0, <1>3 DEF Record, Recording, WriteLine, WriteLineFails, WriteNewline, CheckedInv
<1>4. CASE LoseTail
  BY <1>4 DEF LoseTail, Stopped, CheckedInv
<1>5. CASE UNCHANGED auditVars
  BY <1>5 DEF auditVars, CheckedInv, ReadsAnchor, ContainsHash, Read, Parsed, Readable
<1> QED
  BY <1>1, <1>2, <1>3, <1>4, <1>5 DEF AuditNext

LEMMA ChainIsVerified ==
  ASSUME ChainInv, NEW k, cuts = 0, \A i \in DOMAIN logFile : logFile[i].key = k
  PROVE  Verified(k)
  BY GarbledIs DEF ChainInv, Chained, Verified, Parsed

LEMMA AlarmStep ==
  ASSUME AuditTypeOK, MutexInv, ChainInv, AnchorInv, NoFalseAlarm, [AuditNext]_auditVars
  PROVE  NoFalseAlarm'
<1> USE DEF history, Busy
<1>0. cuts \in Nat /\ \A c \in Writers : w[c].at # "idle" => phase \in {"start", "serving"}
  BY DEF AuditTypeOK, NotRecording, MutexInv, Recording
<1>1. ASSUME NEW k \in Keys, AuditBoot(k) PROVE NoFalseAlarm'
  <2> SUFFICES ASSUME phase' = "rejected", cuts = 0, ~lost, \A i \in DOMAIN logFile : logFile[i].key = k
               PROVE  FALSE
    BY <1>0, <1>1 DEF AuditBoot, NoFalseAlarm
  <2>1. Verified(k)
    BY ChainIsVerified
  <2>a. Hashes \subseteq Read
    BY GarbledIs DEF ChainInv, Chained, Hashes, Read, Parsed, Readable
  <2>2. ReadsAnchor(k) => ContainsHash(anchor.head)
    BY <2>a DEF ReadsAnchor, AnchorInv, InFile, ContainsHash
  <2> QED
    BY <1>1, <2>1, <2>2 DEF AuditBoot, BootCheck
<1>2. CASE TruncateAnchor \/ WriteAnchor \/ StartUnrecorded \/ AuditCrash
  BY <1>2 DEF TruncateAnchor, WriteAnchor, StartUnrecorded, AuditCrash, NoFalseAlarm
<1>3. ASSUME NEW c \in Writers, Record(c) \/ WriteLine(c) \/ WriteLineFails(c) \/ WriteNewline(c) PROVE NoFalseAlarm'
  BY <1>0, <1>3 DEF Record, Recording, WriteLine, WriteLineFails, WriteNewline, NoFalseAlarm
<1>4. CASE LoseTail
  BY <1>4 DEF LoseTail, NoFalseAlarm
<1>5. CASE UNCHANGED auditVars
  BY <1>5 DEF auditVars, NoFalseAlarm
<1> QED
  BY <1>1, <1>2, <1>3, <1>4, <1>5 DEF AuditNext

-----------------------------------------------------------------------------
(* The theorems *)

LEMMA InitAuditIInv == AuditInit => AuditIInv
<1> SUFFICES ASSUME AuditInit PROVE AuditIInv
  OBVIOUS
<1> USE DEF AuditInit
<1>1. 0 \in Hash /\ <<>> \in Seq(Entry \cup {Garbled, Torn}) /\ NotRecording \in [at : {"idle", "line", "newline"}, prev : Hash, hash : Hash]
  BY BoundAssumption DEF Hash, Genesis, NotRecording
<1>2. AuditTypeOK
  <2>1. w \in [Writers -> [at : {"idle", "line", "newline"}, prev : Hash, hash : Hash]]
    BY <1>1
  <2>2. boots \in 0..MaxBoots /\ hashed \in 0..MaxRecords /\ cuts \in Nat
    BY BoundAssumption
  <2>3. phase \in {"down", "rejected", "anchor", "anchor_write", "start", "serving"}
    BY Zenon
  <2>4. open \in BOOLEAN /\ lost \in BOOLEAN
    BY Zenon
  <2> QED
    BY <1>1, <2>1, <2>2, <2>3, <2>4 DEF AuditTypeOK
<1>3. MutexInv /\ OpenInv /\ BootInv /\ AnchorInv /\ CheckedInv /\ NoFalseAlarm
  BY DEF MutexInv, OpenInv, BootInv, AnchorInv, CheckedInv, NoFalseAlarm, Busy, Stopped, NotRecording
<1>4. OrderInv
  BY DEF OrderInv, Busy
<1>5. LossInv
  <2>1. recorded \ Hashes = {}
    OBVIOUS
  <2>2. ~Pledged
    BY DEF Pledged
  <2> QED
    BY <2>1, <2>2, FS_EmptySet DEF LossInv
<1>6. ChainInv
  BY DEF ChainInv, Chained, EndOf, Busy, Stopped, NotRecording
<1> QED
  BY <1>2, <1>3, <1>4, <1>5, <1>6 DEF AuditIInv

LEMMA NextAuditIInv == AuditIInv /\ [AuditNext]_auditVars => AuditIInv'
  BY TypeStep, MutexStep, OrderStep, OpenStep, LossStep, ChainStep, BootStep, AnchorStep,
     CheckedStep, AlarmStep DEF AuditIInv

LEMMA AuditInvariant == AuditSpec => []AuditIInv
  BY InitAuditIInv, NextAuditIInv, PTL DEF AuditSpec

\* Every reachable state of the log and of its callers is well typed.
THEOREM AuditTypeCorrect == AuditSpec => []AuditTypeOK
<1>1. AuditIInv => AuditTypeOK
  BY DEF AuditIInv
<1> QED
  BY <1>1, AuditInvariant, PTL

\* Records of any number of tasks never fork the chain, over any number of
\* restarts: without a cut append and with one key, the log verifies.
THEOREM ChainNeverForks == AuditSpec => []ChainVerifies
<1>1. AuditIInv => ChainVerifies
  BY ChainIsVerified DEF AuditIInv, ChainVerifies
<1> QED
  BY <1>1, AuditInvariant, PTL

\* Each cut append costs at most one entry that record had answered Ok for.
THEOREM AckedRecordsStay == AuditSpec => []AckedStay
<1>1. ASSUME AuditIInv PROVE AckedStay
  <2> SUFFICES ASSUME ~lost PROVE Cardinality(recorded \ Hashes) <= cuts
    BY DEF AckedStay
  <2>1. Cardinality(recorded \ Hashes) \in Nat /\ cuts \in Nat
    <3>1. recorded \ Hashes \subseteq Hash
      BY <1>1 DEF AuditIInv, AuditTypeOK
    <3> QED
      BY <1>1, <3>1, Counting DEF AuditIInv, AuditTypeOK
  <2> QED
    BY <1>1, <2>1 DEF AuditIInv, LossInv
<1> QED
  BY <1>1, AuditInvariant, PTL

\* The boot check refuses no log that nothing happened to.
THEOREM NoAlarmIsFalse == AuditSpec => []NoFalseAlarm
<1>1. AuditIInv => NoFalseAlarm
  BY DEF AuditIInv
<1> QED
  BY <1>1, AuditInvariant, PTL

\* A boot that reads its anchor and goes on can read every entry that could be
\* read when the anchor was written.
THEOREM AnchoredEntriesKept == AuditSpec => []AnchoredKept
<1>1. ASSUME AuditIInv PROVE AnchoredKept
  <2> SUFFICES ASSUME phase = "anchor", ReadsAnchor(key) PROVE anchored \subseteq Read
    BY DEF AnchoredKept
  <2>1. anchor # NoAnchor /\ ContainsHash(anchor.head) /\ AnchorInv /\ AuditTypeOK
    BY <1>1 DEF AuditIInv, CheckedInv, ReadsAnchor
  <2>2. CASE anchor.head = Genesis
    BY <2>1, <2>2 DEF AnchorInv
  <2>3. CASE anchor.head \in Read
    <3>1. PICK i \in Parsed : logFile[i].hash = anchor.head
      BY <2>3 DEF Read
    <3>2. i \in DOMAIN logFile /\ \A j \in DOMAIN logFile : logFile[j].hash # Unset => logFile[j].hash \in Read
      BY <2>1, <2>3, LinesAre, ReadIs
    <3>3. anchored \subseteq {logFile[j].hash : j \in 1..i} /\ Unset \notin anchored
      BY <2>1, <3>1, <3>2, GarbledIs DEF AnchorInv, AuditTypeOK
    <3>4. 1..i \subseteq DOMAIN logFile
      BY <2>1, <3>2, LinesAre
    <3> QED
      BY <3>2, <3>3, <3>4
  <2> QED
    BY <2>1, <2>2, <2>3 DEF ContainsHash
<1> QED
  BY <1>1, AuditInvariant, PTL
=============================================================================

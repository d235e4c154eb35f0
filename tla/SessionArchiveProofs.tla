------------------------ MODULE SessionArchiveProofs ------------------------
(***************************************************************************)
(* Proofs about SessionArchive for every set of replies and sessions,      *)
(* every replay cap, batch limit and bound.                                *)
(***************************************************************************)
EXTENDS SessionArchive, SequenceTheorems, WellFoundedInduction, TLAPS

(* ------------------------------ Transcripts ----------------------------- *)

\* A non-empty set of positions has a last one.
LEMMA MaxIsLast ==
    ASSUME NEW n \in Nat, NEW P \in SUBSET (1 .. n), P # {}
    PROVE  Max(P) \in P /\ \A i \in P : i <= Max(P)
<1> DEFINE T == {n - i : i \in P}
<1>0. \A i \in P : i \in Nat /\ n - i \in Nat
  OBVIOUS
<1>1. T \subseteq Nat /\ T # {}
  BY <1>0
<1>2. \E x \in T : \A y \in T : ~(<<y, x>> \in OpToRel(<, Nat))
  BY <1>1, NatLessThanWellFounded, WFMin, Zenon
<1>3. \E x \in T : \A y \in T : x <= y
  <2>1. ASSUME NEW x \in Nat, NEW y \in Nat, ~(<<y, x>> \in OpToRel(<, Nat))
        PROVE  x <= y
    <3>1. OpToRel(<, Nat) = {ss \in Nat \X Nat : ss[1] < ss[2]}
      BY Zenon DEF OpToRel
    <3>2. ~(<<y, x>> \in {ss \in Nat \X Nat : ss[1] < ss[2]})
      BY <2>1, <3>1, Zenon
    <3> QED BY <3>2, SMT
  <2> QED BY <1>1, <1>2, <2>1
<1>4. \E i \in P : \A j \in P : i >= j
  <2>1. PICK x \in T : \A y \in T : x <= y
    BY <1>3
  <2>2. PICK i \in P : x = n - i
    OBVIOUS
  <2>3. \A j \in P : n - i <= n - j
    BY <2>1, <2>2
  <2> QED BY <1>0, <2>3
<1> QED BY <1>4 DEF Max

\* Where the replay of a transcript starts.
Start(h, cap) ==
    IF Markers(h) # {} THEN Max(Markers(h))
    ELSE IF Len(h) > cap THEN Len(h) - cap + 1 ELSE 1

LEMMA StartProperties ==
    ASSUME NEW h \in Seq(Rows), NEW cap \in Nat
    PROVE  /\ GetReplay(h, cap) = SubSeq(h, Start(h, cap), Len(h))
           /\ Start(h, cap) \in 1 .. Len(h) + 1
           /\ cap > 0 /\ h # <<>> => Start(h, cap) <= Len(h)
           /\ Markers(h) # {} => /\ Max(Markers(h)) \in Markers(h)
                                 /\ \A i \in Markers(h) : i <= Max(Markers(h))
           /\ Markers(h) \subseteq 1 .. Len(h)
<1>1. Len(h) \in Nat /\ Markers(h) \in SUBSET (1 .. Len(h))
  BY DEF Markers
<1>2. Markers(h) # {} => /\ Max(Markers(h)) \in Markers(h)
                         /\ \A i \in Markers(h) : i <= Max(Markers(h))
  BY <1>1, MaxIsLast
<1>3. GetReplay(h, cap) = SubSeq(h, Start(h, cap), Len(h))
  BY DEF GetReplay, Start
<1>4. h # <<>> => Len(h) > 0
  BY EmptySeq
<1>5. Start(h, cap) \in 1 .. Len(h) + 1 /\ (cap > 0 /\ h # <<>> => Start(h, cap) <= Len(h))
  BY <1>1, <1>2, <1>4 DEF Start
<1> QED BY <1>1, <1>2, <1>3, <1>5

\* The suffix of a transcript, row by row.
LEMMA Suffix ==
    ASSUME NEW h \in Seq(Rows), NEW c \in 1 .. Len(h) + 1
    PROVE  /\ SubSeq(h, c, Len(h)) \in Seq(Rows)
           /\ Len(SubSeq(h, c, Len(h))) = Len(h) - c + 1
           /\ \A i \in 1 .. Len(h) - c + 1 : SubSeq(h, c, Len(h))[i] = h[c + i - 1]
<1>1. Len(h) \in Nat /\ c \in Int /\ \A i \in c .. Len(h) : h[i] \in Rows
  BY ElementOfSeq
<1> QED BY <1>1, SubSeqProperties

\* Rows before the start of the replay do not matter: dropping some of them
\* leaves the replay as it is.
LEMMA DropKeepsReplay ==
    ASSUME NEW g \in Seq(Rows), NEW cap \in Nat \ {0}, NEW d \in Nat, d < Start(g, cap)
    PROVE  GetReplay(SubSeq(g, d + 1, Len(g)), cap) = GetReplay(g, cap)
<1> DEFINE k == SubSeq(g, d + 1, Len(g))
           b == Start(g, cap)
<1>1. /\ Len(g) \in Nat /\ b \in 1 .. Len(g) + 1 /\ d + 1 \in 1 .. Len(g) + 1
      /\ Markers(g) \subseteq 1 .. Len(g)
      /\ Markers(g) # {} => b \in Markers(g) /\ \A i \in Markers(g) : i <= b
  BY StartProperties DEF Start
<1>2. /\ k \in Seq(Rows) /\ Len(k) = Len(g) - d
      /\ \A i \in 1 .. Len(g) - d : k[i] = g[d + i]
  <2>1. /\ k \in Seq(Rows) /\ Len(k) = Len(g) - (d + 1) + 1
        /\ \A i \in 1 .. Len(g) - (d + 1) + 1 : k[i] = g[d + 1 + i - 1]
    BY <1>1, Suffix
  <2> QED BY <1>1, <2>1
<1>3. \A i \in 1 .. Len(g) - d : i \in Markers(k) <=> d + i \in Markers(g)
  <2>1. DOMAIN k = 1 .. Len(g) - d /\ DOMAIN g = 1 .. Len(g)
    BY <1>1, <1>2, LenProperties
  <2> HIDE DEF k
  <2> QED BY <1>1, <1>2, <2>1 DEF Markers
<1> HIDE DEF k
<1>4. Start(k, cap) = b - d
  <2>1. /\ Markers(k) \subseteq 1 .. Len(g) - d
        /\ Markers(k) # {} => /\ Start(k, cap) \in Markers(k)
                              /\ \A i \in Markers(k) : i <= Start(k, cap)
    BY <1>2, StartProperties DEF Start
  <2>2. CASE Markers(g) # {}
    <3>1. b - d \in Markers(k)
      BY <1>1, <1>3, <2>2
    <3>2. \A i \in Markers(k) : i <= b - d
      BY <1>1, <1>3, <2>1, <2>2
    <3> QED BY <1>1, <2>1, <3>1, <3>2
  <2>3. CASE Markers(g) = {}
    <3>1. Markers(k) = {}
      BY <1>3, <2>1, <2>3
    <3>2. b = IF Len(g) > cap THEN Len(g) - cap + 1 ELSE 1
      BY <2>3 DEF Start
    <3>3. Start(k, cap) = IF Len(g) - d > cap THEN Len(g) - d - cap + 1 ELSE 1
      BY <1>2, <3>1 DEF Start
    <3> QED BY <1>1, <3>2, <3>3
  <2> QED BY <2>2, <2>3
<1>5. /\ GetReplay(k, cap) = SubSeq(k, b - d, Len(k)) /\ GetReplay(g, cap) = SubSeq(g, b, Len(g))
  BY <1>2, <1>4, StartProperties
<1>6. b - d \in 1 .. Len(k) + 1
  BY <1>1, <1>2
<1> HIDE DEF b
<1>7. /\ SubSeq(k, b - d, Len(k)) \in Seq(Rows)
      /\ Len(SubSeq(k, b - d, Len(k))) = Len(k) - (b - d) + 1
      /\ \A i \in 1 .. Len(k) - (b - d) + 1 : SubSeq(k, b - d, Len(k))[i] = k[(b - d) + i - 1]
  BY <1>2, <1>6, Suffix
<1>8. /\ SubSeq(g, b, Len(g)) \in Seq(Rows)
      /\ Len(SubSeq(g, b, Len(g))) = Len(g) - b + 1
      /\ \A i \in 1 .. Len(g) - b + 1 : SubSeq(g, b, Len(g))[i] = g[b + i - 1]
  BY <1>1, Suffix
<1>9. \A i \in 1 .. Len(g) - b + 1 : k[(b - d) + i - 1] = g[b + i - 1]
  <2> TAKE i \in 1 .. Len(g) - b + 1
  <2>1. (b - d) + i - 1 \in 1 .. Len(g) - d /\ d + ((b - d) + i - 1) = b + i - 1
    BY <1>1, <1>2, <1>6
  <2> QED BY <1>2, <2>1
<1>10. Len(k) - (b - d) + 1 = Len(g) - b + 1
  BY <1>1, <1>2
<1>11. SubSeq(k, b - d, Len(k)) = SubSeq(g, b, Len(g))
  BY <1>7, <1>8, <1>9, <1>10, SeqEqual
<1> QED BY <1>5, <1>11 DEF k

LEMMA ReplayType ==
    ASSUME NEW h \in Seq(Rows), NEW cap \in Nat
    PROVE  GetReplay(h, cap) \in Seq(Rows)
BY StartProperties, Suffix

\* The sweep exports all a turn replays (archiveReplayCap >= historyReplayCap).
LEMMA ExportKeepsReplay ==
    ASSUME NEW h \in Seq(Rows)
    PROVE  Replay(GetReplay(h, ArchiveReplayCap)) = Replay(h)
<1> DEFINE c == Start(h, ArchiveReplayCap)
<1>0. ArchiveReplayCap \in Nat /\ HistoryReplayCap \in Nat \ {0}
      /\ ArchiveReplayCap >= HistoryReplayCap
  BY CapAssumption
<1>1. GetReplay(h, ArchiveReplayCap) = SubSeq(h, c, Len(h)) /\ c \in 1 .. Len(h) + 1
  BY <1>0, StartProperties
<1>2. Len(h) \in Nat /\ c <= Start(h, HistoryReplayCap)
      /\ Start(h, HistoryReplayCap) \in 1 .. Len(h) + 1
  BY <1>0, StartProperties DEF Start
<1> HIDE DEF c
<1>3. c - 1 \in Nat /\ c - 1 < Start(h, HistoryReplayCap) /\ (c - 1) + 1 = c
  BY <1>1, <1>2
<1>4. GetReplay(SubSeq(h, (c - 1) + 1, Len(h)), HistoryReplayCap) = GetReplay(h, HistoryReplayCap)
  BY <1>0, <1>3, DropKeepsReplay
<1> QED BY <1>1, <1>3, <1>4 DEF Replay

\* Pruning drops only rows before the last marker, however many of them.
LEMMA PruneKeepsReplay ==
    ASSUME NEW h \in Seq(Rows), NEW kept \in KeptByPrune(h)
    PROVE  kept \in Seq(Rows) /\ Replay(kept) = Replay(h)
<1> DEFINE c == Start(h, HistoryReplayCap)
<1>0. HistoryReplayCap \in Nat \ {0}
  BY CapAssumption
<1>1. PICK n \in 1 .. Len(h), i \in Markers(h) : n < i /\ kept = SubSeq(h, n + 1, Len(h))
  BY DEF KeptByPrune
<1>2. i <= c /\ i \in 1 .. Len(h) /\ c \in 1 .. Len(h) + 1 /\ Len(h) \in Nat
  <2>1. c = Max(Markers(h))
    BY <1>1 DEF Start
  <2>2. HistoryReplayCap \in Nat /\ Markers(h) # {}
    BY <1>0, <1>1
  <2>3. /\ c \in 1 .. Len(h) + 1 /\ Markers(h) \subseteq 1 .. Len(h)
        /\ \A k \in Markers(h) : k <= Max(Markers(h))
    BY <2>2, StartProperties
  <2> HIDE DEF c
  <2>4. i <= c
    BY <1>1, <2>1, <2>3
  <2> QED BY <1>1, <2>3, <2>4
<1> HIDE DEF c
<1>3. n \in Nat /\ n < c /\ n + 1 \in 1 .. Len(h) + 1
  BY <1>1, <1>2
<1>4. GetReplay(SubSeq(h, n + 1, Len(h)), HistoryReplayCap) = GetReplay(h, HistoryReplayCap)
  BY <1>0, <1>3, DropKeepsReplay DEF c
<1>5. SubSeq(h, n + 1, Len(h)) \in Seq(Rows)
  BY <1>3, Suffix
<1> QED BY <1>1, <1>4, <1>5 DEF Replay

\* New rows extend the replay of the old ones.
LEMMA AppendKeepsReplay ==
    ASSUME NEW h \in Seq(Rows), NEW rows \in Seq(Rows)
    PROVE  Replay(Replay(h) \o rows) = Replay(h \o rows)
<1> DEFINE c == Start(h, HistoryReplayCap)
           g == h \o rows
           k == SubSeq(h, c, Len(h))
<1>0. HistoryReplayCap \in Nat \ {0}
  BY CapAssumption
<1>1. /\ Replay(h) = k /\ c \in 1 .. Len(h) + 1 /\ Len(h) \in Nat /\ Len(rows) \in Nat
      /\ Markers(h) \subseteq 1 .. Len(h)
      /\ Markers(h) # {} => c \in Markers(h)
  <2>1. Replay(h) = GetReplay(h, HistoryReplayCap)
    BY DEF Replay
  <2>2. HistoryReplayCap \in Nat /\ Len(h) \in Nat /\ Len(rows) \in Nat
    BY <1>0
  <2>3. Markers(h) # {} => c = Max(Markers(h))
    BY DEF Start
  <2> HIDE DEF c
  <2> QED BY <2>1, <2>2, <2>3, StartProperties DEF c
<1>2. /\ g \in Seq(Rows) /\ Len(g) = Len(h) + Len(rows)
      /\ \A i \in 1 .. Len(h) + Len(rows) :
            g[i] = IF i <= Len(h) THEN h[i] ELSE rows[i - Len(h)]
  BY ConcatProperties
<1>3. /\ k \in Seq(Rows) /\ Len(k) = Len(h) - c + 1
      /\ \A i \in 1 .. Len(h) - c + 1 : k[i] = h[c + i - 1]
  BY <1>1, Suffix
<1> HIDE DEF k
<1>4. /\ k \o rows \in Seq(Rows) /\ Len(k \o rows) = Len(k) + Len(rows)
      /\ \A i \in 1 .. Len(k) + Len(rows) :
            (k \o rows)[i] = IF i <= Len(k) THEN k[i] ELSE rows[i - Len(k)]
  BY <1>3, ConcatProperties
<1> HIDE DEF g
<1>5. c <= Start(g, HistoryReplayCap) /\ Start(g, HistoryReplayCap) \in 1 .. Len(g) + 1
  <2>1. /\ Start(g, HistoryReplayCap) \in 1 .. Len(g) + 1
        /\ Markers(g) \subseteq 1 .. Len(g)
        /\ Markers(g) # {} => \A i \in Markers(g) : i <= Start(g, HistoryReplayCap)
    BY <1>0, <1>2, StartProperties DEF Start
  <2>2. DOMAIN h = 1 .. Len(h) /\ DOMAIN g = 1 .. Len(g)
    BY <1>1, <1>2, LenProperties
  <2>3. CASE Markers(h) # {}
    <3>1. c \in Markers(g)
      BY <1>1, <1>2, <2>2, <2>3 DEF Markers
    <3> QED BY <2>1, <3>1
  <2>4. CASE Markers(h) = {} /\ Markers(g) # {}
    <3>1. PICK j \in Markers(g) : TRUE
      BY <2>4
    <3>2. j \in 1 .. Len(g) /\ j > Len(h)
      BY <1>1, <1>2, <2>1, <2>2, <2>4, <3>1 DEF Markers
    <3>3. j <= Start(g, HistoryReplayCap)
      BY <2>1, <3>1
    <3>4. c <= Len(h) + 1
      BY <1>1
    <3> HIDE DEF c
    <3> QED BY <1>1, <2>1, <3>2, <3>3, <3>4
  <2>5. CASE Markers(h) = {} /\ Markers(g) = {}
    BY <1>0, <1>1, <1>2, <2>1, <2>5 DEF Start
  <2> QED BY <2>3, <2>4, <2>5
<1> HIDE DEF c
<1>6. c - 1 \in Nat /\ c - 1 < Start(g, HistoryReplayCap) /\ (c - 1) + 1 = c
  BY <1>1, <1>2, <1>5
<1>7. Replay(SubSeq(g, c, Len(g))) = Replay(g)
  <2>1. GetReplay(SubSeq(g, (c - 1) + 1, Len(g)), HistoryReplayCap) = GetReplay(g, HistoryReplayCap)
    BY <1>0, <1>2, <1>6, DropKeepsReplay
  <2> QED BY <1>6, <2>1 DEF Replay
<1>8. SubSeq(g, c, Len(g)) = k \o rows
  <2>1. c \in 1 .. Len(g) + 1
    BY <1>1, <1>2
  <2>2. /\ SubSeq(g, c, Len(g)) \in Seq(Rows) /\ Len(SubSeq(g, c, Len(g))) = Len(g) - c + 1
        /\ \A i \in 1 .. Len(g) - c + 1 : SubSeq(g, c, Len(g))[i] = g[c + i - 1]
    BY <1>2, <2>1, Suffix
  <2>3. Len(g) - c + 1 = Len(k) + Len(rows)
    BY <1>1, <1>2, <1>3
  <2>4. ASSUME NEW i \in 1 .. Len(k) + Len(rows) PROVE g[c + i - 1] = (k \o rows)[i]
    <3>0. c + i - 1 \in 1 .. Len(h) + Len(rows)
      BY <1>1, <1>3
    <3>1. CASE i <= Len(k)
      <4>1. i \in 1 .. Len(h) - c + 1 /\ c + i - 1 <= Len(h)
        BY <1>1, <1>3, <3>1
      <4>2. g[c + i - 1] = h[c + i - 1]
        BY <1>2, <3>0, <4>1
      <4>3. (k \o rows)[i] = h[c + i - 1]
        BY <1>3, <1>4, <3>1, <4>1
      <4> QED BY <4>2, <4>3
    <3>2. CASE i > Len(k)
      <4>1. ~(c + i - 1 <= Len(h)) /\ (c + i - 1) - Len(h) = i - Len(k) /\ ~(i <= Len(k))
        BY <1>1, <1>3, <3>2
      <4>2. g[c + i - 1] = rows[(c + i - 1) - Len(h)]
        <5> DEFINE j == c + i - 1
        <5>1. j \in 1 .. Len(h) + Len(rows) /\ ~(j <= Len(h))
          BY <3>0, <4>1
        <5> HIDE DEF j
        <5>2. g[j] = rows[j - Len(h)]
          BY <1>2, <5>1
        <5> QED BY <5>2 DEF j
      <4>3. (k \o rows)[i] = rows[i - Len(k)]
        BY <1>4, <4>1
      <4> QED BY <4>1, <4>2, <4>3
    <3>3. i \in Nat /\ Len(k) \in Nat
      BY <1>3, LenProperties
    <3> QED BY <3>1, <3>2, <3>3
  <2> QED BY <1>4, <2>2, <2>3, <2>4, SeqEqual
<1> QED BY <1>1, <1>7, <1>8 DEF g

\* A transcript with rows replays to something.
LEMMA ReplayEmptiness ==
    ASSUME NEW h \in Seq(Rows)
    PROVE  Replay(h) \in Seq(Rows) /\ (Replay(h) = <<>> <=> h = <<>>)
<1> DEFINE c == Start(h, HistoryReplayCap)
<1>0. HistoryReplayCap \in Nat \ {0}
  BY CapAssumption
<1>1. /\ Replay(h) = SubSeq(h, c, Len(h)) /\ c \in 1 .. Len(h) + 1
      /\ h # <<>> => c <= Len(h)
  <2>1. Replay(h) = GetReplay(h, HistoryReplayCap)
    BY DEF Replay
  <2>2. HistoryReplayCap \in Nat /\ HistoryReplayCap > 0
    BY <1>0
  <2> QED BY <2>1, <2>2, StartProperties
<1>2. Replay(h) \in Seq(Rows) /\ Len(Replay(h)) = Len(h) - c + 1 /\ Len(h) \in Nat
  BY <1>1, Suffix
<1> HIDE DEF c
<1>3. h = <<>> => Len(h) = 0
  BY EmptySeq
<1>4. Len(Replay(h)) = 0 <=> h = <<>>
  BY <1>1, <1>2, <1>3
<1>5. Replay(h) = <<>> <=> Len(Replay(h)) = 0
  BY <1>2, EmptySeq
<1> QED BY <1>2, <1>4, <1>5

-----------------------------------------------------------------------------
(* The invariant of the sweep and the replies                              *)

InTurn == {"turn", "answer", "finish"}
Reviving == {"restore", "wait", "commit"}
Sweeping == {"export", "insert", "delmsgs", "delsess"}

\* Every reply past its resolution has a session, and a turn has it alone.
TurnsOK ==
    /\ \A m \in Msg : pc[m] # "new" => to[m] \in Sid
    /\ \A m \in Msg : pc[m] \in InTurn => to[m] \in busy
    /\ \A m, n \in Msg : pc[m] \in InTurn /\ pc[n] \in InTurn /\ to[m] = to[n] => m = n

\* A restore has one leader, and the leader has read a payload.
FlightsOK ==
    /\ \A m, n \in Msg : pc[m] = "commit" /\ pc[n] = "commit" /\ to[m] = to[n] => m = n
    /\ \A m \in Msg : pc[m] = "commit" => load[m] \in Seq(Rows)

\* The sweep works on a live session it has taken off its list; the list of
\* the purge holds purged sessions.
TaskOK ==
    /\ IF hk \in Sweeping THEN cur \in live ELSE cur = NoSid
    /\ hk # "unindex" => todo \subseteq live \ {cur}
    /\ hk = "unindex" => todo \subseteq purged
    /\ hk = "insert" => copy \in Seq(Rows)

\* Only a purge or the age of its last answer takes a session out of the index.
IndexOK == Sid \ (purged \cup stale) \subseteq index

\* A spared session's transcript, wherever the sweep and the restore are.
Transcript(s) ==
    /\ window[s] # <<>>
    /\ IF archive[s] # NoRow THEN Replay(archive[s]) = window[s]
       ELSE s \in live /\ Replay(hist[s]) = window[s]
    /\ s \notin live => hist[s] = <<>>

\* A turn runs on a live session the sweep has not picked; a restore finds the
\* session gone, or already back and out of the sweep's reach; its leader holds
\* the payload that is still archived.
RepliesOK(s) ==
    /\ \A m \in Msg : pc[m] \in InTurn /\ to[m] = s => s \in live /\ cur # s
    /\ \A m \in Msg : pc[m] = "commit" /\ to[m] = s =>
          archive[s] # NoRow /\ load[m] = archive[s]
    /\ \A m \in Msg : pc[m] \in Reviving /\ to[m] = s =>
          \/ s \notin live
          \/ /\ archive[s] = NoRow /\ ~Cold(s) /\ cur # s
             /\ hk # "unindex" => s \notin todo

\* What the sweep holds of the session it works on.
SweepOK(s) ==
    cur = s => /\ hk = "insert" /\ archive[s] = NoRow => Replay(copy) = window[s]
               /\ hk \in {"delmsgs", "delsess"} => archive[s] # NoRow
               /\ hk = "delsess" => hist[s] = <<>>

KeptInv == \A s \in Sid \ Spared : Transcript(s) /\ RepliesOK(s) /\ SweepOK(s)

\* The inductive invariant.
ArchiveInv == TypeOK /\ TurnsOK /\ FlightsOK /\ TaskOK /\ IndexOK /\ KeptInv

\* The rows of a compaction: the marker and the tail of the transcript.
LEMMA CompactionRows ==
    ASSUME NEW h \in Seq(Rows), NEW n \in 1 .. Len(h) + 1
    PROVE  /\ <<Marker>> \o SubSeq(h, n, Len(h)) \in Seq(Rows)
           /\ Len(<<Marker>> \o SubSeq(h, n, Len(h))) > 0
<1>1. <<Marker>> \in Seq(Rows) /\ Len(<<Marker>>) = 1
  BY DEF Rows
<1>2. SubSeq(h, n, Len(h)) \in Seq(Rows) /\ Len(SubSeq(h, n, Len(h))) \in Nat
  BY Suffix
<1>3. Len(<<Marker>> \o SubSeq(h, n, Len(h))) = Len(<<Marker>>) + Len(SubSeq(h, n, Len(h)))
      /\ <<Marker>> \o SubSeq(h, n, Len(h)) \in Seq(Rows)
  BY <1>1, <1>2, ConcatProperties
<1> QED BY <1>1, <1>2, <1>3

LEMMA ArchiveInit == Init => ArchiveInv
<1> SUFFICES ASSUME Init PROVE ArchiveInv
  OBVIOUS
<1>1. <<First>> \in Seq(Rows) /\ <<First>> # <<>> /\ Len(<<First>>) = 1
  BY DEF Rows
<1>2. Replay(<<First>>) = <<First>>
  <2>1. Markers(<<First>>) = {}
    BY ValueAssumption DEF Markers
  <2>2. HistoryReplayCap \in Nat \ {0}
    BY CapAssumption
  <2>3. Replay(<<First>>) = SubSeq(<<First>>, 1, Len(<<First>>))
    BY <1>1, <2>1, <2>2 DEF Replay, GetReplay
  <2> QED BY <1>1, <2>3, SubSeqFull
<1>3. TypeOK
  BY <1>1, CapAssumption DEF Init, TypeOK, Steps, Tasks
<1>4. TurnsOK /\ FlightsOK /\ TaskOK /\ IndexOK
  BY ValueAssumption DEF Init, TurnsOK, FlightsOK, TaskOK, IndexOK, InTurn, Sweeping
<1>5. KeptInv
  BY <1>1, <1>2, ValueAssumption
     DEF Init, KeptInv, Transcript, RepliesOK, SweepOK, InTurn, Reviving
<1> QED BY <1>3, <1>4, <1>5 DEF ArchiveInv

LEMMA ArchiveTypeStep ==
    ASSUME TypeOK, TurnsOK, FlightsOK, TaskOK, [Next]_vars
    PROVE  TypeOK'
<1> USE DEF TypeOK, storeVars, timeVars, replyVars, taskVars, ghostVars
<1>c. MaxFaults \in Nat
  BY CapAssumption
<1>s. \A x, y \in Seq(Rows) : x \o y \in Seq(Rows) /\ Replay(x \o y) \in Seq(Rows)
  BY ConcatProperties, ReplayEmptiness
<1>f. Fault => faults' \in 0 .. MaxFaults
  BY <1>c DEF Fault
<1>1. ASSUME NEW m \in Msg, NEW s \in Sid, resolveBase(m, s) PROVE TypeOK'
  BY <1>1, <1>f DEF resolveBase, Go, Steps
<1>2. ASSUME NEW m \in Msg, ensureLive(m) \/ JoinRestore(m) PROVE TypeOK'
  BY <1>2, <1>f DEF ensureLive, JoinRestore, Go, Steps
<1>3. ASSUME NEW m \in Msg, ArchivedSession(m) PROVE TypeOK'
  <2>1. to[m] \in Sid
    BY <1>3 DEF ArchivedSession, TurnsOK
  <2> QED BY <1>3, <1>f, <2>1 DEF ArchivedSession, Go, Steps
<1>4. ASSUME NEW m \in Msg, RestoreTx(m) PROVE TypeOK'
  <2>1. to[m] \in Sid /\ load[m] \in Seq(Rows) /\ hist[to[m]] \in Seq(Rows)
    BY <1>4 DEF RestoreTx, TurnsOK, FlightsOK
  <2>2. hist[to[m]] \o load[m] \in Seq(Rows)
    BY <2>1, <1>s
  <2>3. pc' \in [Msg -> Steps]
    BY <1>4 DEF RestoreTx, Land, Steps
  <2>4. hist' \in [Sid -> Seq(Rows)]
    BY <1>4, <2>1, <2>2 DEF RestoreTx
  <2>5. /\ archive' \in [Sid -> Seq(Rows) \cup {NoRow}]
        /\ load' \in [Msg -> Seq(Rows) \cup {NoRow}]
        /\ live' \subseteq Sid /\ quiet' \subseteq Sid /\ expired' \subseteq Sid
        /\ faults' \in 0 .. MaxFaults
    BY <1>4, <1>f, <2>1 DEF RestoreTx
  <2> QED BY <1>4, <2>3, <2>4, <2>5 DEF RestoreTx
<1>5. ASSUME NEW m \in Msg, Claim(m) PROVE TypeOK'
  <2>1. to[m] \in Sid
    BY <1>5 DEF Claim, TurnsOK
  <2> QED BY <1>5, <2>1 DEF Claim, Go, Steps
<1>6. ASSUME NEW s \in Sid, NEW rows \in Seq(Rows), AppendRows(s, rows)
      PROVE  /\ hist' \in [Sid -> Seq(Rows)] /\ window' \in [Sid -> Seq(Rows)]
             /\ quiet' \subseteq Sid /\ stained' \subseteq Sid
  <2>1. hist[s] \o rows \in Seq(Rows) /\ Replay(window[s] \o rows) \in Seq(Rows)
    BY <1>s
  <2> QED BY <1>6, <2>1 DEF AppendRows
<1>7. ASSUME NEW m \in Msg, AppendUserMsgs(m) \/ AppendAnswer(m) PROVE TypeOK'
  <2>1. to[m] \in Sid /\ <<m>> \in Seq(Rows) /\ AppendRows(to[m], <<m>>)
    BY <1>7 DEF AppendUserMsgs, AppendAnswer, TurnsOK, Rows
  <2>2. /\ hist' \in [Sid -> Seq(Rows)] /\ window' \in [Sid -> Seq(Rows)]
        /\ quiet' \subseteq Sid /\ stained' \subseteq Sid
    BY <1>6, <2>1
  <2> QED BY <1>7, <2>1, <2>2 DEF AppendUserMsgs, AppendAnswer, Go, Steps
<1>8. ASSUME NEW m \in Msg, AppendCompactionBatch(m) PROVE TypeOK'
  <2>1. to[m] \in Sid
    BY <1>8 DEF AppendCompactionBatch, TurnsOK
  <2>2. PICK rows \in Seq(Rows) : AppendRows(to[m], rows)
    BY <1>8, <2>1, CompactionRows DEF AppendCompactionBatch
  <2>3. /\ hist' \in [Sid -> Seq(Rows)] /\ window' \in [Sid -> Seq(Rows)]
        /\ quiet' \subseteq Sid /\ stained' \subseteq Sid
    BY <1>6, <2>1, <2>2
  <2> QED BY <1>8, <2>3 DEF AppendCompactionBatch
<1>9. ASSUME NEW m \in Msg, FinishTurn(m) \/ RecordSent(m) PROVE TypeOK'
  <2>1. CASE FinishTurn(m)
    BY <2>1 DEF FinishTurn, Go, Steps
  <2>2. CASE RecordSent(m)
    <3>1. to[m] \in Sid
      BY <2>2 DEF RecordSent, TurnsOK
    <3> QED BY <2>2, <3>1 DEF RecordSent
  <2> QED BY <1>9, <2>1, <2>2
<1>10. CASE ColdSessionIDs
  BY <1>10 DEF ColdSessionIDs, Tasks
<1>11. CASE NextCold
  BY <1>11 DEF NextCold, Tasks
<1>12. CASE ExportCold
  <2>1. cur \in Sid /\ copy' \in Seq(Rows)
    BY <1>12, CapAssumption, ReplayType DEF ExportCold, Export, TaskOK, Sweeping
  <2> QED BY <1>12, <2>1 DEF ExportCold, Tasks
<1>13. CASE ArchiveRow
  <2>1. InsertArchive(cur, copy) \in Seq(Rows) \cup {NoRow}
    BY <1>13 DEF ArchiveRow, InsertArchive, TaskOK, Sweeping
  <2> QED BY <1>13, <2>1 DEF ArchiveRow, Tasks
<1>14. CASE DeleteSessionMessages
  <2>1. <<>> \in Seq(Rows)
    OBVIOUS
  <2> QED BY <1>14, <2>1 DEF DeleteSessionMessages, Tasks
<1>15. CASE DeleteSession
  BY <1>15 DEF DeleteSession, Tasks
<1>16. CASE PurgeArchivedBefore
  BY <1>16 DEF PurgeArchivedBefore, PurgedFirst, Tasks
<1>17. CASE DeleteMessageIndexForSessions
  BY <1>17 DEF DeleteMessageIndexForSessions, Tasks
<1>18. CASE PruneCompacted \/ PruneMessageIndex
  <2>1. CASE PruneCompacted
    <3>0. PICK s \in Sid : \E k \in KeptByPrune(hist[s]) : hist' = [hist EXCEPT ![s] = k]
      BY <2>1 DEF PruneCompacted
    <3>1. PICK kept \in KeptByPrune(hist[s]) : hist' = [hist EXCEPT ![s] = kept]
      BY <3>0
    <3>2. hist[s] \in Seq(Rows) /\ kept \in Seq(Rows)
      BY PruneKeepsReplay
    <3>3. hist' \in [Sid -> Seq(Rows)]
      BY <3>1, <3>2
    <3> QED BY <2>1, <3>3 DEF PruneCompacted
  <2>2. CASE PruneMessageIndex
    BY <2>2 DEF PruneMessageIndex
  <2> QED BY <1>18, <2>1, <2>2
<1>19. CASE TaskFails
  BY <1>19, <1>f DEF TaskFails, Tasks
<1>20. ASSUME NEW s \in Sid, GoCold(s) \/ Expire(s) \/ StaleIndex(s) PROVE TypeOK'
  BY <1>20 DEF GoCold, Expire, StaleIndex
<1>21. CASE Crash
  BY <1>21, <1>f DEF Crash, Steps, Tasks
<1>22. CASE UNCHANGED vars
  BY <1>22 DEF vars
<1> QED BY <1>1, <1>2, <1>3, <1>4, <1>5, <1>7, <1>8, <1>9, <1>10, <1>11, <1>12, <1>13,
           <1>14, <1>15, <1>16, <1>17, <1>18, <1>19, <1>20, <1>21, <1>22
        DEF Next, ReplyStep, TaskStep

LEMMA ControlStep ==
    ASSUME ArchiveInv, [Next]_vars
    PROVE  TurnsOK' /\ FlightsOK' /\ TaskOK' /\ IndexOK'
<1> USE DEF storeVars, timeVars, replyVars, taskVars, ghostVars
<1>i. TypeOK /\ TurnsOK /\ FlightsOK /\ TaskOK /\ IndexOK
  BY DEF ArchiveInv
<1>t. /\ pc \in [Msg -> Steps] /\ to \in [Msg -> Sid \cup {NoSid}] /\ NoSid \notin Sid
      /\ load \in [Msg -> Seq(Rows) \cup {NoRow}] /\ live \subseteq Sid
      /\ archive \in [Sid -> Seq(Rows) \cup {NoRow}]
  BY <1>i, ValueAssumption DEF TypeOK
<1>task. ASSUME UNCHANGED taskVars, live \subseteq live', purged' = purged,
                UNCHANGED <<index, stale>>
         PROVE  TaskOK' /\ IndexOK'
  BY <1>task, <1>i DEF TaskOK, IndexOK
<1>reply. ASSUME UNCHANGED replyVars PROVE TurnsOK' /\ FlightsOK'
  BY <1>reply, <1>i DEF TurnsOK, FlightsOK
<1>1. ASSUME NEW m \in Msg, NEW s \in Sid, resolveBase(m, s)
      PROVE  TurnsOK' /\ FlightsOK' /\ TaskOK' /\ IndexOK'
  <2>1. TaskOK' /\ IndexOK'
    BY <1>1, <1>task DEF resolveBase
  <2>2. /\ pc'[m] \in {"check", "claim", "fresh"} /\ to'[m] = s /\ UNCHANGED <<busy, load>>
        /\ \A n \in Msg : n # m => pc'[n] = pc[n] /\ to'[n] = to[n]
    BY <1>1, <1>t DEF resolveBase, Go
  <2> QED BY <2>1, <2>2, <1>i DEF TurnsOK, FlightsOK, InTurn
<1>2. ASSUME NEW m \in Msg,
             ensureLive(m) \/ JoinRestore(m) \/ ArchivedSession(m)
      PROVE  TurnsOK' /\ FlightsOK' /\ TaskOK' /\ IndexOK'
  <2>1. TaskOK' /\ IndexOK'
    BY <1>2, <1>task DEF ensureLive, JoinRestore, ArchivedSession
  <2>2. /\ pc[m] # "new" /\ pc'[m] \notin InTurn /\ UNCHANGED <<busy, to>>
        /\ \A n \in Msg : n # m => pc'[n] = pc[n] /\ load'[n] = load[n]
    BY <1>2, <1>t DEF ensureLive, JoinRestore, ArchivedSession, Go, InTurn
  <2>3. TurnsOK'
    BY <2>2, <1>i DEF TurnsOK
  <2>4. CASE pc'[m] # "commit"
    BY <2>1, <2>2, <2>3, <2>4, <1>i DEF FlightsOK
  <2>5. CASE pc'[m] = "commit"
    <3>1. ArchivedSession(m) /\ InFlightLeader(to[m]) = {}
      BY <1>2, <1>t, <2>5 DEF ensureLive, JoinRestore, ArchivedSession, Go
    <3>2. load'[m] \in Seq(Rows)
      <4>1. to[m] \in Sid
        BY <2>2, <1>i DEF TurnsOK
      <4> QED BY <3>1, <4>1, <1>t, <2>5 DEF ArchivedSession, Go
    <3>3. \A n \in Msg : n # m /\ pc'[n] = "commit" => to[n] # to[m]
      BY <3>1, <2>2 DEF InFlightLeader
    <3> QED BY <2>1, <2>2, <2>3, <3>2, <3>3, <1>i DEF FlightsOK
  <2> QED BY <2>4, <2>5
<1>3. ASSUME NEW m \in Msg, RestoreTx(m)
      PROVE  TurnsOK' /\ FlightsOK' /\ TaskOK' /\ IndexOK'
  <2>1. TaskOK' /\ IndexOK'
    BY <1>3, <1>task DEF RestoreTx
  <2>2. /\ UNCHANGED <<busy, to>> /\ pc[m] = "commit"
        /\ \A n \in Msg : pc'[n] = pc[n] \/ (pc[n] \in {"commit", "wait"} /\ pc'[n] \in {"claim", "fork"})
        /\ pc'[m] # "commit" /\ \A n \in Msg : n # m => load'[n] = load[n]
    BY <1>3, <1>t DEF RestoreTx, Land, Flight
  <2> QED BY <2>1, <2>2, <1>i DEF TurnsOK, FlightsOK, InTurn
<1>4. ASSUME NEW m \in Msg, Claim(m)
      PROVE  TurnsOK' /\ FlightsOK' /\ TaskOK' /\ IndexOK'
  <2>1. TaskOK' /\ IndexOK'
    BY <1>4, <1>task DEF Claim
  <2>2. /\ UNCHANGED <<to, load>> /\ pc[m] = "claim" /\ pc'[m] = "turn"
        /\ to[m] \notin busy /\ busy' = busy \cup {to[m]}
        /\ \A n \in Msg : n # m => pc'[n] = pc[n]
    BY <1>4, <1>t DEF Claim, Go
  <2> QED BY <2>1, <2>2, <1>i DEF TurnsOK, FlightsOK, InTurn
<1>5. ASSUME NEW m \in Msg, AppendUserMsgs(m) \/ AppendAnswer(m) \/ AppendCompactionBatch(m)
      PROVE  TurnsOK' /\ FlightsOK' /\ TaskOK' /\ IndexOK'
  <2>1. TaskOK' /\ IndexOK'
    BY <1>5, <1>task DEF AppendUserMsgs, AppendAnswer, AppendCompactionBatch
  <2>2. /\ UNCHANGED <<to, load, busy>> /\ pc[m] \in InTurn /\ pc'[m] \in InTurn
        /\ \A n \in Msg : n # m => pc'[n] = pc[n]
    BY <1>5, <1>t DEF AppendUserMsgs, AppendAnswer, AppendCompactionBatch, Go, InTurn
  <2> QED BY <2>1, <2>2, <1>i DEF TurnsOK, FlightsOK, InTurn
<1>6. ASSUME NEW m \in Msg, FinishTurn(m)
      PROVE  TurnsOK' /\ FlightsOK' /\ TaskOK' /\ IndexOK'
  <2>1. TaskOK' /\ IndexOK'
    BY <1>6, <1>task DEF FinishTurn
  <2>2. /\ UNCHANGED <<to, load>> /\ pc[m] \in InTurn /\ pc'[m] = "done"
        /\ busy' = busy \ {to[m]}
        /\ \A n \in Msg : n # m => pc'[n] = pc[n]
    BY <1>6, <1>t DEF FinishTurn, Go, InTurn
  <2> QED BY <2>1, <2>2, <1>i DEF TurnsOK, FlightsOK, InTurn
<1>6a. ASSUME NEW m \in Msg, RecordSent(m)
       PROVE  TurnsOK' /\ FlightsOK' /\ TaskOK' /\ IndexOK'
  <2>1. TurnsOK' /\ FlightsOK'
    BY <1>6a, <1>reply DEF RecordSent
  <2>2. TaskOK' /\ IndexOK'
    BY <1>6a, <1>i DEF RecordSent, TaskOK, IndexOK
  <2> QED BY <2>1, <2>2
<1>7. CASE ColdSessionIDs
  <2>1. TurnsOK' /\ FlightsOK' /\ IndexOK'
    BY <1>7, <1>reply, <1>i DEF ColdSessionIDs, IndexOK
  <2>2. hk = "idle" /\ hk' = "next" /\ cur' = cur /\ live' = live /\ todo' \subseteq live
    BY <1>7 DEF ColdSessionIDs, Cold
  <2> QED BY <2>1, <2>2, <1>i, <1>t DEF TaskOK, Sweeping
<1>8. CASE NextCold \/ ExportCold \/ ArchiveRow \/ DeleteSessionMessages
  <2>1. TurnsOK' /\ FlightsOK' /\ IndexOK'
    BY <1>8, <1>reply, <1>i DEF NextCold, ExportCold, ArchiveRow, DeleteSessionMessages, IndexOK
  <2>2. CASE NextCold
    BY <2>1, <2>2, <1>i, <1>t DEF NextCold, TaskOK, Sweeping
  <2>3. CASE ExportCold
    <3>1. copy' \in Seq(Rows)
      BY <2>3, <1>i, CapAssumption, ReplayType DEF ExportCold, Export, TaskOK, Sweeping, TypeOK
    <3> QED BY <2>1, <2>3, <3>1, <1>i DEF ExportCold, TaskOK, Sweeping
  <2>4. CASE ArchiveRow \/ DeleteSessionMessages
    BY <2>1, <2>4, <1>i DEF ArchiveRow, DeleteSessionMessages, TaskOK, Sweeping
  <2> QED BY <1>8, <2>2, <2>3, <2>4
<1>9. CASE DeleteSession
  <2>1. TurnsOK' /\ FlightsOK' /\ IndexOK'
    BY <1>9, <1>reply, <1>i DEF DeleteSession, IndexOK
  <2> QED BY <2>1, <1>9, <1>i, <1>t DEF DeleteSession, TaskOK, Sweeping
<1>10. CASE PurgeArchivedBefore
  <2>1. TurnsOK' /\ FlightsOK'
    BY <1>10, <1>reply DEF PurgeArchivedBefore
  <2>2. expired \subseteq Sid
    BY <1>i DEF TypeOK
  <2>3. purged' = purged \cup expired /\ todo' = expired /\ hk' = "unindex" /\ hk = "idle"
        /\ UNCHANGED <<cur, live, index, stale>>
    BY <1>10, <2>2, <1>t DEF PurgeArchivedBefore, PurgedFirst
  <2> QED BY <2>1, <2>3, <1>i DEF TaskOK, IndexOK, Sweeping
<1>11. CASE DeleteMessageIndexForSessions
  <2>1. TurnsOK' /\ FlightsOK'
    BY <1>11, <1>reply DEF DeleteMessageIndexForSessions
  <2> QED BY <2>1, <1>11, <1>i DEF DeleteMessageIndexForSessions, TaskOK, IndexOK, Sweeping
<1>12. CASE PruneCompacted \/ PruneMessageIndex
  <2>1. CASE PruneCompacted
    BY <2>1, <1>reply, <1>task DEF PruneCompacted
  <2>2. CASE PruneMessageIndex
    <3>1. TurnsOK' /\ FlightsOK'
      BY <2>2, <1>reply DEF PruneMessageIndex
    <3>2. TaskOK' /\ IndexOK'
      BY <2>2, <1>i DEF PruneMessageIndex, TaskOK, IndexOK
    <3> QED BY <3>1, <3>2
  <2> QED BY <1>12, <2>1, <2>2
<1>13. CASE TaskFails
  <2>1. TurnsOK' /\ FlightsOK'
    BY <1>13, <1>reply DEF TaskFails
  <2> QED BY <2>1, <1>13, <1>i DEF TaskFails, TaskOK, IndexOK, Sweeping
<1>14. ASSUME NEW s \in Sid, GoCold(s) \/ Expire(s) \/ StaleIndex(s)
       PROVE  TurnsOK' /\ FlightsOK' /\ TaskOK' /\ IndexOK'
  <2>1. CASE GoCold(s) \/ Expire(s)
    BY <2>1, <1>reply, <1>task DEF GoCold, Expire
  <2>2. CASE StaleIndex(s)
    <3>1. TurnsOK' /\ FlightsOK'
      BY <2>2, <1>reply DEF StaleIndex
    <3>2. TaskOK' /\ IndexOK'
      BY <2>2, <1>i DEF StaleIndex, TaskOK, IndexOK
    <3> QED BY <3>1, <3>2
  <2> QED BY <1>14, <2>1, <2>2
<1>15. CASE Crash
  <2>1. TaskOK' /\ IndexOK'
    BY <1>15, <1>i DEF Crash, TaskOK, IndexOK, Sweeping
  <2>2. /\ to' = to /\ \A m \in Msg : pc'[m] \notin InTurn \cup {"commit"}
        /\ \A m \in Msg : pc'[m] # "new" => pc[m] # "new"
    BY <1>15, <1>t DEF Crash, Active, InTurn
  <2> QED BY <2>1, <2>2, <1>i DEF TurnsOK, FlightsOK, InTurn
<1>16. CASE UNCHANGED vars
  BY <1>16, <1>reply, <1>task DEF vars
<1> QED BY <1>1, <1>2, <1>3, <1>4, <1>5, <1>6, <1>6a, <1>7, <1>8, <1>9, <1>10, <1>11, <1>12,
           <1>13, <1>14, <1>15, <1>16
        DEF Next, ReplyStep, TaskStep

\* One session's part of the invariant, in a step that leaves its rows, its
\* archive row and the sweep alone and takes no reply into a turn or a restore.
LEMMA KeptFrame ==
    ASSUME NEW s \in Sid, Transcript(s), RepliesOK(s), SweepOK(s),
           hist'[s] = hist[s], archive'[s] = archive[s], window'[s] = window[s],
           s \in live' <=> s \in live,
           Cold(s)' => Cold(s) \/ \A m \in Msg : pc[m] \in Active => to[m] # s,
           cur' = s => cur = s /\ hk' = hk /\ copy' = copy,
           cur = s => hk' # "unindex",
           hk' # "unindex" /\ s \in todo' => hk # "unindex" /\ s \in todo,
           \A m \in Msg : /\ pc'[m] \in InTurn \cup Reviving /\ to'[m] = s =>
                             /\ to[m] = s
                             /\ pc'[m] \in InTurn => pc[m] \in InTurn
                             /\ pc'[m] \in Reviving => pc[m] \in Reviving
                          /\ pc'[m] = "commit" /\ to'[m] = s => pc[m] = "commit" /\ load'[m] = load[m]
    PROVE  Transcript(s)' /\ RepliesOK(s)' /\ SweepOK(s)'
<1>1. Transcript(s)'
  BY DEF Transcript
<1>2. SweepOK(s)'
  BY DEF SweepOK
<1>3. RepliesOK(s)'
  <2>1. \A m \in Msg : pc'[m] \in InTurn /\ to'[m] = s => s \in live' /\ cur' # s
    BY DEF RepliesOK
  <2>2. \A m \in Msg : pc'[m] = "commit" /\ to'[m] = s =>
          archive'[s] # NoRow /\ load'[m] = archive'[s]
    BY DEF RepliesOK, Reviving
  <2>3. ASSUME NEW m \in Msg, pc'[m] \in Reviving, to'[m] = s
        PROVE  \/ s \notin live'
               \/ /\ archive'[s] = NoRow /\ ~Cold(s)' /\ cur' # s
                  /\ hk' # "unindex" => s \notin todo'
    <3>1. pc[m] \in Reviving /\ to[m] = s /\ pc[m] \in Active
      BY <2>3 DEF Reviving, Active
    <3>2. \/ s \notin live
          \/ /\ archive[s] = NoRow /\ ~Cold(s) /\ cur # s
             /\ hk # "unindex" => s \notin todo
      BY <3>1 DEF RepliesOK
    <3> QED BY <3>1, <3>2
  <2> QED BY <2>1, <2>2, <2>3 DEF RepliesOK
<1> QED BY <1>1, <1>2, <1>3

LEMMA KeptStep ==
    ASSUME ArchiveInv, [Next]_vars, NEW s \in Sid, s \notin Spared'
    PROVE  Transcript(s)' /\ RepliesOK(s)' /\ SweepOK(s)'
<1> DEFINE Kept == Transcript(s) /\ RepliesOK(s) /\ SweepOK(s)
<1> USE DEF storeVars, timeVars, replyVars, taskVars, ghostVars
<1>i. TypeOK /\ TurnsOK /\ FlightsOK /\ TaskOK /\ KeptInv
  BY DEF ArchiveInv
<1>t. /\ pc \in [Msg -> Steps] /\ to \in [Msg -> Sid \cup {NoSid}] /\ NoSid \notin Sid
      /\ load \in [Msg -> Seq(Rows) \cup {NoRow}] /\ live \subseteq Sid
      /\ archive \in [Sid -> Seq(Rows) \cup {NoRow}] /\ NoRow \notin Seq(Rows)
      /\ hist \in [Sid -> Seq(Rows)] /\ window \in [Sid -> Seq(Rows)]
  BY <1>i, ValueAssumption DEF TypeOK, Rows
<1>g. raced \subseteq raced' /\ stained \subseteq stained' /\ purged \subseteq purged'
  BY DEF Next, ReplyStep, TaskStep, resolveBase, ensureLive, JoinRestore, ArchivedSession,
         RestoreTx, Claim, AppendUserMsgs, AppendCompactionBatch, AppendAnswer, AppendRows,
         FinishTurn, ColdSessionIDs, NextCold, ExportCold, ArchiveRow, DeleteSessionMessages,
         DeleteSession, PurgeArchivedBefore, DeleteMessageIndexForSessions, PruneCompacted,
         PruneMessageIndex, RecordSent, StaleIndex, TaskFails, GoCold, Expire, Crash, vars
<1>k. Kept /\ s \notin Spared /\ s \notin raced' /\ s \notin stained' /\ s \notin purged'
  <2>1. s \notin Spared /\ s \notin raced' /\ s \notin stained' /\ s \notin purged'
    BY <1>g DEF Spared
  <2> QED BY <2>1, <1>i DEF KeptInv
<1>c. /\ hk \notin Sweeping => cur = NoSid
      /\ cur = s => s \in live /\ hk \in Sweeping
      /\ hk # "unindex" /\ s \in todo => s \in live /\ cur # s
  BY <1>i, <1>t DEF TaskOK
\* What a reply's step may do to its control without touching the invariant.
<1>calm. ASSUME UNCHANGED <<hist, archive, window, live, aged, quiet, taskVars>>,
                \A m \in Msg :
                   /\ pc'[m] \in InTurn \cup Reviving /\ to'[m] = s =>
                        /\ to[m] = s
                        /\ pc'[m] \in InTurn => pc[m] \in InTurn
                        /\ pc'[m] \in Reviving => pc[m] \in Reviving
                   /\ pc'[m] = "commit" /\ to'[m] = s => pc[m] = "commit" /\ load'[m] = load[m]
         PROVE  Kept'
  <2>1. Cold(s)' => Cold(s)
    BY <1>calm DEF Cold
  <2>2. cur = s => hk' # "unindex"
    BY <1>calm, <1>c DEF Sweeping
  <2> QED BY <1>calm, <1>k, <2>1, <2>2, KeptFrame
<1>1. ASSUME NEW m \in Msg, NEW x \in Sid, resolveBase(m, x) PROVE Kept'
  <2>1. /\ UNCHANGED <<hist, archive, window, live, aged, quiet, taskVars, load>>
        /\ pc'[m] \notin InTurn \cup Reviving
        /\ \A n \in Msg : n # m => pc'[n] = pc[n] /\ to'[n] = to[n]
    BY <1>1, <1>t DEF resolveBase, Go, InTurn, Reviving
  <2> QED BY <2>1, <1>calm DEF Reviving
<1>2. ASSUME NEW m \in Msg, ensureLive(m) PROVE Kept'
  <2>1. /\ UNCHANGED <<hist, archive, window, live, aged, quiet, taskVars, load, to>>
        /\ pc'[m] = "claim" \/ (pc'[m] = "restore" /\ to[m] \notin live)
        /\ \A n \in Msg : n # m => pc'[n] = pc[n]
    BY <1>2, <1>t DEF ensureLive, Go
  <2>2. Transcript(s)' /\ SweepOK(s)'
    BY <2>1, <1>k DEF Transcript, SweepOK
  <2>3. RepliesOK(s)'
    BY <2>1, <1>k DEF RepliesOK, InTurn, Reviving, Cold
  <2> QED BY <2>2, <2>3
<1>3. ASSUME NEW m \in Msg, JoinRestore(m) PROVE Kept'
  <2>1. /\ UNCHANGED <<hist, archive, window, live, aged, quiet, taskVars, load, to>>
        /\ pc[m] = "restore" /\ pc'[m] = "wait"
        /\ \A n \in Msg : n # m => pc'[n] = pc[n]
    BY <1>3, <1>t DEF JoinRestore, Go
  <2> QED BY <2>1, <1>calm DEF InTurn, Reviving
<1>4. ASSUME NEW m \in Msg, ArchivedSession(m) PROVE Kept'
  <2>1. /\ UNCHANGED <<hist, archive, window, live, aged, quiet, taskVars, to>>
        /\ pc[m] = "restore"
        /\ \/ pc'[m] = "fork"
           \/ pc'[m] = "commit" /\ archive[to[m]] # NoRow /\ load'[m] = archive[to[m]]
        /\ \A n \in Msg : n # m => pc'[n] = pc[n] /\ load'[n] = load[n]
    BY <1>4, <1>t DEF ArchivedSession, Go
  <2>2. Transcript(s)' /\ SweepOK(s)'
    BY <2>1, <1>k DEF Transcript, SweepOK
  <2>3. RepliesOK(s)'
    BY <2>1, <1>k DEF RepliesOK, InTurn, Reviving, Cold
  <2> QED BY <2>2, <2>3
<1>5. ASSUME NEW m \in Msg, RestoreTx(m) PROVE Kept'
  <2> DEFINE x == to[m]
  <2>1. /\ pc[m] = "commit" /\ x \in Sid /\ load[m] \in Seq(Rows)
        /\ UNCHANGED <<window, aged, taskVars, to>>
        /\ pc'[m] \in {"claim", "fork"}
        /\ \A n \in Msg : pc'[n] = pc[n] \/ pc'[n] \in {"claim", "fork"}
        /\ \A n \in Msg : n # m => load'[n] = load[n]
    BY <1>5, <1>t, <1>i DEF RestoreTx, Land, Flight, TurnsOK, FlightsOK
  <2>2. CASE UNCHANGED <<live, hist, archive, quiet>>
    BY <2>1, <2>2, <1>calm DEF InTurn, Reviving
  <2>3. CASE /\ live' = live \cup {x} /\ hist' = [hist EXCEPT ![x] = @ \o load[m]]
             /\ archive' = [archive EXCEPT ![x] = NoRow]
             /\ quiet' = IF load[m] = <<>> THEN quiet ELSE quiet \ {x}
    <3>1. CASE s # x
      <4>1. /\ hist'[s] = hist[s] /\ archive'[s] = archive[s] /\ (s \in live' <=> s \in live)
            /\ (s \in quiet' <=> s \in quiet)
        BY <2>1, <2>3, <3>1, <1>t
      <4>2. Cold(s)' => Cold(s)
        BY <2>1, <4>1 DEF Cold
      <4>3. cur = s => hk' # "unindex"
        BY <2>1, <1>c DEF Sweeping
      <4>4. \A n \in Msg : /\ pc'[n] \in InTurn \cup Reviving /\ to'[n] = s =>
                             /\ to[n] = s
                             /\ pc'[n] \in InTurn => pc[n] \in InTurn
                             /\ pc'[n] \in Reviving => pc[n] \in Reviving
                           /\ pc'[n] = "commit" /\ to'[n] = s =>
                                pc[n] = "commit" /\ load'[n] = load[n]
        BY <2>1 DEF InTurn, Reviving
      <4> QED BY <2>1, <4>1, <4>2, <4>3, <4>4, <1>k, KeptFrame
    <3>2. CASE s = x
      <4>1. archive[s] # NoRow /\ load[m] = archive[s]
        BY <2>1, <3>2, <1>k DEF RepliesOK
      <4>2. s \notin live
        BY <2>1, <3>2, <4>1, <1>k DEF RepliesOK, Reviving
      <4>3. hist[s] = <<>> /\ Replay(load[m]) = window[s] /\ window[s] # <<>>
        BY <4>1, <4>2, <1>k DEF Transcript
      <4>4. load[m] # <<>>
        BY <2>1, <4>3, ReplayEmptiness
      <4>5. hist'[s] = load[m] /\ archive'[s] = NoRow /\ s \in live' /\ s \notin quiet'
        BY <2>1, <2>3, <3>2, <4>3, <4>4, <1>t, ConcatEmptySeq
      <4>6. ~Cold(s)' /\ cur # s /\ (hk # "unindex" => s \notin todo)
        BY <4>2, <4>4, <4>5, <1>c DEF Cold
      <4>7. Transcript(s)'
        BY <2>1, <4>3, <4>5 DEF Transcript
      <4>8. SweepOK(s)'
        BY <2>1, <4>6 DEF SweepOK
      <4>9. \A n \in Msg : pc'[n] \in InTurn => to[n] # s
        BY <2>1, <4>2, <1>k DEF RepliesOK, InTurn
      <4>10. \A n \in Msg : pc'[n] = "commit" => to[n] # s
        BY <2>1, <3>2, <1>i DEF FlightsOK
      <4>11. RepliesOK(s)'
        BY <2>1, <4>5, <4>6, <4>9, <4>10 DEF RepliesOK
      <4> QED BY <4>7, <4>8, <4>11
    <3> QED BY <3>1, <3>2
  <2> QED BY <1>5, <2>2, <2>3 DEF RestoreTx
<1>6. ASSUME NEW m \in Msg, Claim(m) PROVE Kept'
  <2>1. /\ UNCHANGED <<hist, archive, window, live, aged, quiet, taskVars, load, to>>
        /\ pc'[m] = "turn"
        /\ \A n \in Msg : n # m => pc'[n] = pc[n]
        /\ to[m] = s => s \in live /\ cur # s
    BY <1>6, <1>t, <1>k DEF Claim, Go
  <2>2. Transcript(s)' /\ SweepOK(s)'
    BY <2>1, <1>k DEF Transcript, SweepOK
  <2>3. RepliesOK(s)'
    BY <2>1, <1>k DEF RepliesOK, InTurn, Reviving, Cold
  <2> QED BY <2>2, <2>3
<1>7. ASSUME NEW m \in Msg, NEW rows \in Seq(Rows), Len(rows) > 0, AppendRows(to[m], rows),
             pc[m] \in InTurn, pc'[m] \in InTurn, \A n \in Msg : n # m => pc'[n] = pc[n],
             UNCHANGED <<live, archive, aged, taskVars, load, to>>
      PROVE  Kept'
  <2>0. to[m] \in Sid
    BY <1>7, <1>i DEF TurnsOK, InTurn
  <2>1. CASE to[m] # s
    <3>1. hist'[s] = hist[s] /\ window'[s] = window[s] /\ (s \in quiet' <=> s \in quiet)
      BY <1>7, <2>0, <2>1, <1>t DEF AppendRows
    <3>2. Cold(s)' => Cold(s)
      BY <1>7, <3>1 DEF Cold
    <3>3. cur = s => hk' # "unindex"
      BY <1>7, <1>c DEF Sweeping
    <3>4. \A n \in Msg : /\ pc'[n] \in InTurn \cup Reviving /\ to'[n] = s =>
                             /\ to[n] = s
                             /\ pc'[n] \in InTurn => pc[n] \in InTurn
                             /\ pc'[n] \in Reviving => pc[n] \in Reviving
                         /\ pc'[n] = "commit" /\ to'[n] = s =>
                                pc[n] = "commit" /\ load'[n] = load[n]
      BY <1>7, <2>1 DEF InTurn, Reviving
    <3> QED BY <1>7, <3>1, <3>2, <3>3, <3>4, <1>k, KeptFrame
  <2>2. CASE to[m] = s
    <3>1. archive[s] = NoRow /\ s \in live /\ cur # s
      BY <1>7, <2>2, <1>k DEF AppendRows, RepliesOK
    <3>2. /\ hist'[s] = hist[s] \o rows /\ window'[s] = Replay(window[s] \o rows)
          /\ s \notin quiet'
      BY <1>7, <2>2, <1>t DEF AppendRows
    <3>3. window[s] = Replay(hist[s]) /\ hist[s] \in Seq(Rows)
      BY <3>1, <1>k, <1>t DEF Transcript
    <3>4. window'[s] = Replay(hist'[s])
      BY <3>2, <3>3, AppendKeepsReplay
    <3>5. hist'[s] \in Seq(Rows) /\ hist'[s] # <<>>
      <4>1. hist[s] \o rows \in Seq(Rows) /\ Len(hist[s] \o rows) = Len(hist[s]) + Len(rows)
        BY <3>3, ConcatProperties
      <4>2. Len(hist[s]) \in Nat /\ Len(rows) \in Nat
        BY <3>3
      <4>3. Len(hist[s] \o rows) # 0
        BY <1>7, <4>1, <4>2
      <4> QED BY <3>2, <4>1, <4>3, EmptySeq
    <3>6. window'[s] # <<>>
      BY <3>4, <3>5, ReplayEmptiness
    <3>7. Transcript(s)'
      BY <1>7, <3>1, <3>4, <3>6 DEF Transcript
    <3>8. SweepOK(s)'
      BY <1>7, <3>1 DEF SweepOK
    <3>9. ~Cold(s)'
      BY <3>2, <3>5 DEF Cold
    <3>10. RepliesOK(s)'
      BY <1>7, <3>1, <3>9, <1>k DEF RepliesOK, InTurn, Reviving
    <3> QED BY <3>7, <3>8, <3>10
  <2> QED BY <2>1, <2>2
<1>8. ASSUME NEW m \in Msg, AppendUserMsgs(m) \/ AppendAnswer(m) PROVE Kept'
  <2>1. <<m>> \in Seq(Rows) /\ Len(<<m>>) > 0
    BY DEF Rows
  <2>2. /\ AppendRows(to[m], <<m>>)
        /\ pc[m] \in InTurn /\ pc'[m] \in InTurn /\ \A n \in Msg : n # m => pc'[n] = pc[n]
        /\ UNCHANGED <<live, archive, aged, taskVars, load, to>>
    BY <1>8, <1>t DEF AppendUserMsgs, AppendAnswer, Go, InTurn
  <2> QED BY <1>7, <2>1, <2>2
<1>9. ASSUME NEW m \in Msg, AppendCompactionBatch(m) PROVE Kept'
  <2>1. /\ pc[m] \in InTurn /\ pc' = pc
        /\ UNCHANGED <<live, archive, aged, taskVars, load, to>>
    BY <1>9 DEF AppendCompactionBatch, InTurn
  <2>2. hist[to[m]] \in Seq(Rows)
    BY <2>1, <1>t, <1>i DEF TurnsOK, InTurn
  <2>3. PICK n \in 1 .. Len(hist[to[m]]) + 1 :
           AppendRows(to[m], <<Marker>> \o SubSeq(hist[to[m]], n, Len(hist[to[m]])))
    BY <1>9 DEF AppendCompactionBatch
  <2>4. PICK rows \in Seq(Rows) : Len(rows) > 0 /\ AppendRows(to[m], rows)
    BY <2>2, <2>3, CompactionRows
  <2> QED BY <1>7, <2>1, <2>4
<1>10. ASSUME NEW m \in Msg, FinishTurn(m) \/ RecordSent(m) PROVE Kept'
  <2>1. /\ UNCHANGED <<hist, archive, window, live, aged, quiet, taskVars, load, to>>
        /\ pc'[m] = "done" \/ pc'[m] = pc[m]
        /\ \A n \in Msg : n # m => pc'[n] = pc[n]
    BY <1>10, <1>t DEF FinishTurn, RecordSent, Go
  <2> QED BY <2>1, <1>calm DEF InTurn, Reviving
\* The housekeeper leaves the replies alone.
<1>11. CASE ColdSessionIDs
  <2>1. /\ UNCHANGED <<hist, archive, window, live, aged, quiet, replyVars, cur, copy>>
        /\ hk' = "next" /\ (s \in todo' => Cold(s)) /\ cur = NoSid
    BY <1>11, <1>c DEF ColdSessionIDs, Sweeping
  <2>2. Transcript(s)' /\ SweepOK(s)'
    BY <2>1, <1>k, <1>t DEF Transcript, SweepOK
  <2>3. RepliesOK(s)'
    <3>1. ASSUME NEW m \in Msg, pc[m] \in Reviving, to[m] = s
          PROVE  \/ s \notin live
                 \/ archive[s] = NoRow /\ ~Cold(s) /\ cur # s /\ s \notin todo'
      BY <2>1, <3>1, <1>k, <1>t DEF RepliesOK
    <3> QED BY <2>1, <3>1, <1>k, <1>t DEF RepliesOK, Cold
  <2> QED BY <2>2, <2>3
<1>12. CASE NextCold
  <2>1. /\ UNCHANGED <<hist, archive, window, live, aged, quiet, replyVars, copy>>
        /\ hk = "next" /\ cur = NoSid /\ hk' \in {"next", "export", "idle"} /\ todo' \subseteq todo
        /\ cur' = s => s \in todo /\ s \notin busy /\ hk' = "export"
    BY <1>12, <1>c, <1>t DEF NextCold, MayArchive, SidInFlight, Sweeping
  <2>2. CASE cur' # s
    <3>1. Cold(s)' => Cold(s)
      BY <2>1 DEF Cold
    <3> QED BY <2>1, <2>2, <3>1, <1>k, <1>t, KeptFrame
  <2>3. CASE cur' = s
    <3>1. s \in live /\ s \in todo
      BY <2>1, <2>3, <1>c
    <3>2. \A m \in Msg : to[m] = s => pc[m] \notin InTurn /\ pc[m] \notin Reviving
      BY <2>1, <2>3, <3>1, <1>k, <1>i DEF RepliesOK, TurnsOK
    <3>3. RepliesOK(s)'
      BY <2>1, <3>2 DEF RepliesOK, Reviving
    <3>4. Transcript(s)' /\ SweepOK(s)'
      BY <2>1, <2>3, <1>k DEF Transcript, SweepOK
    <3> QED BY <3>3, <3>4
  <2> QED BY <2>2, <2>3
\* A step of the sweep on another session.
<1>other. ASSUME UNCHANGED <<window, aged, quiet, replyVars, todo>>, cur # s, cur' # s,
                 hist'[s] = hist[s], archive'[s] = archive[s], s \in live' <=> s \in live,
                 hk # "unindex", hk' # "unindex"
          PROVE  Kept'
  <2>1. Cold(s)' => Cold(s)
    BY <1>other DEF Cold
  <2> QED BY <1>other, <2>1, <1>k, KeptFrame
<1>mine. cur = s => \A m \in Msg : to[m] = s => pc[m] \notin InTurn /\ pc[m] \notin Reviving
  BY <1>c, <1>k DEF RepliesOK
<1>quietmine. ASSUME cur = s, UNCHANGED replyVars PROVE RepliesOK(s)'
  BY <1>mine, <1>quietmine DEF RepliesOK, Reviving
<1>13. CASE ExportCold
  <2>1. /\ UNCHANGED <<hist, archive, window, live, aged, quiet, replyVars, todo, cur>>
        /\ hk = "export" /\ hk' = "insert" /\ copy' = Export(cur)
    BY <1>13 DEF ExportCold
  <2>2. CASE cur # s
    BY <2>1, <2>2, <1>other
  <2>3. CASE cur = s
    <3>1. Transcript(s)'
      BY <2>1, <1>k DEF Transcript
    <3>2. archive[s] = NoRow => Replay(copy') = window[s]
      BY <2>1, <2>3, <1>k, <1>t, ExportKeepsReplay DEF Transcript, Export
    <3>3. SweepOK(s)'
      BY <2>1, <3>2 DEF SweepOK
    <3> QED BY <2>1, <2>3, <3>1, <3>3, <1>quietmine
  <2> QED BY <2>2, <2>3
<1>14. CASE ArchiveRow
  <2>1. /\ UNCHANGED <<hist, window, live, aged, quiet, replyVars, todo, cur>>
        /\ hk = "insert" /\ hk' = "delmsgs"
        /\ archive' = [archive EXCEPT ![cur] = InsertArchive(cur, copy)]
    BY <1>14 DEF ArchiveRow
  <2>2. CASE cur # s
    BY <2>1, <2>2, <1>other, <1>t
  <2>3. CASE cur = s
    <3>1. archive'[s] = IF archive[s] = NoRow THEN copy ELSE archive[s]
      BY <2>1, <2>3, <1>t DEF InsertArchive
    <3>2. copy # NoRow
      BY <2>1, <1>i, <1>t DEF TaskOK
    <3>3. Transcript(s)' /\ SweepOK(s)'
      BY <2>1, <2>3, <3>1, <3>2, <1>k DEF Transcript, SweepOK
    <3> QED BY <2>1, <2>3, <3>3, <1>quietmine
  <2> QED BY <2>2, <2>3
<1>15. CASE DeleteSessionMessages
  <2>1. /\ UNCHANGED <<archive, window, live, aged, quiet, replyVars, todo, cur>>
        /\ hk = "delmsgs" /\ hk' = "delsess" /\ hist' = [hist EXCEPT ![cur] = <<>>]
    BY <1>15 DEF DeleteSessionMessages
  <2>2. CASE cur # s
    BY <2>1, <2>2, <1>other, <1>t
  <2>3. CASE cur = s
    <3>1. hist'[s] = <<>> /\ archive[s] # NoRow
      BY <2>1, <2>3, <1>t, <1>k DEF SweepOK
    <3>2. Transcript(s)' /\ SweepOK(s)'
      BY <2>1, <2>3, <3>1, <1>k DEF Transcript, SweepOK
    <3> QED BY <2>1, <2>3, <3>2, <1>quietmine
  <2> QED BY <2>2, <2>3
<1>16. CASE DeleteSession
  <2>1. /\ UNCHANGED <<hist, archive, window, aged, quiet, replyVars, todo>>
        /\ hk = "delsess" /\ hk' = "next" /\ live' = live \ {cur} /\ cur' = NoSid
    BY <1>16 DEF DeleteSession
  <2>2. CASE cur # s
    BY <2>1, <2>2, <1>other, <1>t
  <2>3. CASE cur = s
    <3>1. hist[s] = <<>> /\ archive[s] # NoRow
      BY <2>1, <2>3, <1>k DEF SweepOK
    <3>2. Transcript(s)' /\ SweepOK(s)'
      BY <2>1, <2>3, <3>1, <1>k, <1>t DEF Transcript, SweepOK
    <3> QED BY <2>1, <2>3, <3>2, <1>quietmine
  <2> QED BY <2>2, <2>3
<1>17. CASE PurgeArchivedBefore \/ DeleteMessageIndexForSessions \/ TaskFails
  <2>1. /\ UNCHANGED <<hist, window, live, aged, quiet, replyVars>>
        /\ archive'[s] = archive[s]
        /\ hk' \in {"unindex", "idle"} /\ (hk' = "idle" => todo' = {})
        /\ (hk' = "unindex" => cur = NoSid) /\ cur' = NoSid
    <3>1. CASE PurgeArchivedBefore
      <4>1. s \notin expired
        BY <3>1, <1>k, <1>t DEF PurgeArchivedBefore, PurgedFirst
      <4> QED BY <3>1, <4>1, <1>c, <1>t DEF PurgeArchivedBefore, PurgedFirst, Sweeping
    <3>2. CASE DeleteMessageIndexForSessions
      BY <3>2, <1>c DEF DeleteMessageIndexForSessions, Sweeping
    <3>3. CASE TaskFails
      BY <3>3 DEF TaskFails
    <3> QED BY <1>17, <3>1, <3>2, <3>3
  <2>2. Cold(s)' => Cold(s)
    BY <2>1 DEF Cold
  <2> QED BY <2>1, <2>2, <1>k, <1>t, KeptFrame
<1>18. CASE PruneCompacted
  <2>0. PICK x \in Sid : \E k \in KeptByPrune(hist[x]) : hist' = [hist EXCEPT ![x] = k]
    BY <1>18 DEF PruneCompacted
  <2>1. PICK kept \in KeptByPrune(hist[x]) : hist' = [hist EXCEPT ![x] = kept]
    BY <2>0
  <2>2. /\ UNCHANGED <<archive, window, live, aged, quiet, replyVars, taskVars>> /\ cur = NoSid
    BY <1>18, <1>c DEF PruneCompacted, Sweeping
  <2>3. CASE s # x
    <3>1. hist'[s] = hist[s]
      BY <2>1, <2>3, <1>t
    <3>2. Cold(s)' => Cold(s)
      BY <2>2, <3>1 DEF Cold
    <3> QED BY <2>2, <3>1, <3>2, <1>k, <1>t, KeptFrame
  <2>4. CASE s = x
    <3>1. hist'[s] = kept /\ kept \in KeptByPrune(hist[s]) /\ hist[s] \in Seq(Rows)
      BY <2>1, <2>4, <1>t
    <3>2. Replay(hist'[s]) = Replay(hist[s]) /\ hist'[s] \in Seq(Rows)
      BY <3>1, PruneKeepsReplay
    <3>3. hist'[s] = <<>> <=> hist[s] = <<>>
      BY <3>1, <3>2, ReplayEmptiness
    <3>4. Cold(s)' <=> Cold(s)
      BY <2>2, <3>3 DEF Cold
    <3>5. Transcript(s)' /\ SweepOK(s)'
      BY <2>2, <3>2, <3>3, <1>k, <1>t DEF Transcript, SweepOK
    <3>6. RepliesOK(s)'
      BY <2>2, <3>4, <1>k DEF RepliesOK
    <3> QED BY <3>5, <3>6
  <2> QED BY <2>3, <2>4
<1>18a. CASE PruneMessageIndex
  BY <1>18a, <1>calm DEF PruneMessageIndex, Reviving
<1>19. ASSUME NEW x \in Sid, GoCold(x) \/ Expire(x) \/ StaleIndex(x) PROVE Kept'
  <2>1. /\ UNCHANGED <<hist, archive, window, live, replyVars, taskVars>>
        /\ \/ x = s /\ \A m \in Msg : pc[m] \in Active => to[m] # s
           \/ (s \in aged' <=> s \in aged) /\ (s \in quiet' <=> s \in quiet)
    BY <1>19 DEF GoCold, Expire, StaleIndex, Untouched
  <2>2. Cold(s)' => Cold(s) \/ \A m \in Msg : pc[m] \in Active => to[m] # s
    BY <2>1 DEF Cold
  <2>3. cur = s => hk' # "unindex"
    BY <2>1, <1>c DEF Sweeping
  <2> QED BY <2>1, <2>2, <2>3, <1>k, KeptFrame
<1>20. CASE Crash
  <2>1. /\ UNCHANGED <<hist, archive, window, live, aged, quiet, to>>
        /\ hk' = "idle" /\ todo' = {} /\ cur' = NoSid
        /\ \A m \in Msg : pc'[m] \notin InTurn \cup Reviving
    BY <1>20, <1>t DEF Crash, Active, InTurn, Reviving
  <2>2. Transcript(s)' /\ SweepOK(s)' /\ RepliesOK(s)'
    BY <2>1, <1>k, <1>t DEF Transcript, SweepOK, RepliesOK, Reviving
  <2> QED BY <2>2
<1>21. CASE UNCHANGED vars
  BY <1>21, <1>calm DEF vars
<1> QED BY <1>1, <1>2, <1>3, <1>4, <1>5, <1>6, <1>8, <1>9, <1>10, <1>11, <1>12, <1>13,
           <1>14, <1>15, <1>16, <1>17, <1>18, <1>18a, <1>19, <1>20, <1>21
        DEF Next, ReplyStep, TaskStep

\* The inductive invariant of the archive holds throughout.
THEOREM ArchiveInvariant == Spec => []ArchiveInv
<1>1. ArchiveInv /\ [Next]_vars => ArchiveInv'
  <2> SUFFICES ASSUME ArchiveInv, [Next]_vars PROVE ArchiveInv'
    OBVIOUS
  <2>1. TypeOK'
    BY ArchiveTypeStep DEF ArchiveInv
  <2>2. TurnsOK' /\ FlightsOK' /\ TaskOK' /\ IndexOK'
    BY ControlStep
  <2>3. KeptInv'
    BY KeptStep DEF KeptInv
  <2> QED BY <2>1, <2>2, <2>3 DEF ArchiveInv
<1> QED BY <1>1, ArchiveInit, PTL DEF Spec

\* Archiving, reviving, pruning, retrying and crashing in between never lose,
\* truncate, double or reorder what a turn ought to replay, outside the windows
\* ArchiveCold's comments concede.
THEOREM TranscriptsSurvive == Spec => []TranscriptKept
<1>1. ArchiveInv => TranscriptKept
  BY DEF ArchiveInv, KeptInv, Transcript, TranscriptKept
<1> QED BY <1>1, ArchiveInvariant, PTL

\* While its archive row stands, a session leaves the index only because its
\* last answer is too old: PurgeOld deletes the archive rows first and the
\* index rows after.
THEOREM ArchivedSessionsAreFound == Spec => []ArchivedIsReachable
<1>1. ArchiveInv => ArchivedIsReachable
  BY DEF ArchiveInv, IndexOK, ArchivedIsReachable
<1> QED BY <1>1, ArchiveInvariant, PTL
=============================================================================

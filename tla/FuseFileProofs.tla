--------------------------- MODULE FuseFileProofs ---------------------------
(* Theorems about FuseFile, for any handles, contents, offsets and sizes. *)
EXTENDS FuseFile, SequenceTheorems, TLAPS

-----------------------------------------------------------------------------
(* Contents *)

LEMMA ZerosFacts ==
    ASSUME NEW n \in Nat
    PROVE  Zeros(n) \in Seq(Nat) /\ Len(Zeros(n)) = n /\ \A i \in 1 .. n : Zeros(n)[i] = 0
BY DEF Zeros

LEMMA ConcatFacts ==
    ASSUME NEW s \in Seq(Nat), NEW t \in Seq(Nat)
    PROVE  /\ s \o t \in Seq(Nat) /\ Len(s) \in Nat /\ Len(t) \in Nat
           /\ Len(s \o t) = Len(s) + Len(t)
           /\ \A i \in 1 .. Len(s) : (s \o t)[i] = s[i]
           /\ \A i \in (Len(s) + 1) .. (Len(s) + Len(t)) : (s \o t)[i] = t[i - Len(s)]
OBVIOUS

LEMMA GrownFacts ==
    ASSUME NEW s \in Seq(Nat), NEW n \in Nat
    PROVE  /\ Grown(s, n) \in Seq(Nat) /\ Len(s) \in Nat
           /\ Len(Grown(s, n)) = Larger(Len(s), n)
           /\ \A i \in 1 .. Len(s) : Grown(s, n)[i] = s[i]
           /\ \A i \in (Len(s) + 1) .. n : Grown(s, n)[i] = 0
<1>0. Len(s) \in Nat
  OBVIOUS
<1>1. CASE n > Len(s)
  <2> DEFINE z == Zeros(n - Len(s))
  <2>1. z \in Seq(Nat) /\ Len(z) = n - Len(s) /\ \A i \in 1 .. (n - Len(s)) : z[i] = 0
    <3>1. n - Len(s) \in Nat
      BY <1>0, <1>1
    <3>2. QED
      BY <3>1, ZerosFacts
  <2>2. Grown(s, n) = s \o z
    BY <1>1 DEF Grown
  <2> HIDE DEF z
  <2>3. /\ s \o z \in Seq(Nat) /\ Len(s \o z) = n
        /\ \A i \in 1 .. Len(s) : (s \o z)[i] = s[i]
        /\ \A i \in (Len(s) + 1) .. n : (s \o z)[i] = z[i - Len(s)]
    BY <1>0, <1>1, <2>1, ConcatFacts
  <2>4. \A i \in (Len(s) + 1) .. n : i - Len(s) \in 1 .. (n - Len(s))
    BY <1>0
  <2>5. QED
    BY <1>0, <1>1, <2>1, <2>2, <2>3, <2>4 DEF Larger
<1>2. CASE ~(n > Len(s))
  <2>1. Grown(s, n) = s /\ (Len(s) + 1) .. n = {}
    BY <1>0, <1>2 DEF Grown
  <2>2. QED
    BY <1>0, <1>2, <2>1 DEF Larger
<1>3. QED
  BY <1>1, <1>2

LEMMA OverwrittenFacts ==
    ASSUME NEW s \in Seq(Nat), NEW off \in Nat, NEW b \in Nat
    PROVE  /\ Overwritten(s, off, b) \in Seq(Nat) /\ Len(s) \in Nat
           /\ Len(Overwritten(s, off, b)) = Larger(Len(s), off + 1)
           /\ Overwritten(s, off, b)[off + 1] = b
           /\ \A i \in 1 .. Len(s) : i # off + 1 => Overwritten(s, off, b)[i] = s[i]
<1> DEFINE g == Grown(s, off + 1)
<1>1. /\ g \in Seq(Nat) /\ Len(s) \in Nat /\ Len(g) = Larger(Len(s), off + 1)
      /\ \A i \in 1 .. Len(s) : g[i] = s[i]
  <2>1. off + 1 \in Nat
    OBVIOUS
  <2>2. QED
    BY <2>1, GrownFacts
<1>2. Overwritten(s, off, b) = [g EXCEPT ![off + 1] = b]
  BY DEF Overwritten
<1> HIDE DEF g
<1>3. off + 1 \in 1 .. Len(g) /\ \A i \in 1 .. Len(s) : i \in 1 .. Len(g)
  BY <1>1 DEF Larger
<1>4. [g EXCEPT ![off + 1] = b] \in Seq(Nat) /\ Len([g EXCEPT ![off + 1] = b]) = Len(g)
  BY <1>1, <1>3
<1>5. [g EXCEPT ![off + 1] = b][off + 1] = b
  BY <1>1, <1>3
<1>6. \A i \in 1 .. Len(s) : i # off + 1 => [g EXCEPT ![off + 1] = b][i] = s[i]
  BY <1>1, <1>3
<1>7. QED
  BY <1>1, <1>2, <1>4, <1>5, <1>6

LEMMA SubSeqFacts ==
    ASSUME NEW s \in Seq(Nat), NEW m \in Nat, NEW n \in Nat, m <= n, n <= Len(s)
    PROVE  /\ SubSeq(s, m + 1, n) \in Seq(Nat)
           /\ Len(SubSeq(s, m + 1, n)) = n - m
           /\ \A i \in 1 .. (n - m) : SubSeq(s, m + 1, n)[i] = s[m + i]
<1>1. m + 1 \in Int /\ n \in Int /\ Len(s) \in Nat
  OBVIOUS
<1>2. \A i \in (m + 1) .. n : i \in 1 .. Len(s)
  BY <1>1
<1>3. \A i \in (m + 1) .. n : s[i] \in Nat
  BY <1>2
<1>4. /\ SubSeq(s, m + 1, n) \in Seq(Nat)
      /\ Len(SubSeq(s, m + 1, n)) = IF m + 1 <= n THEN n - (m + 1) + 1 ELSE 0
      /\ \A i \in 1 .. (n - (m + 1) + 1) : SubSeq(s, m + 1, n)[i] = s[m + 1 + i - 1]
  BY <1>1, <1>3, SubSeqProperties
<1> DEFINE q == SubSeq(s, m + 1, n)
<1> HIDE DEF q
<1>5. Len(q) = n - m
  BY <1>1, <1>4 DEF q
<1>6. ASSUME NEW i \in 1 .. (n - m) PROVE q[i] = s[m + i]
  <2>1. i \in 1 .. (n - (m + 1) + 1) /\ m + 1 + i - 1 = m + i
    BY <1>1
  <2>2. QED
    BY <1>4, <2>1 DEF q
<1>7. QED
  BY <1>4, <1>5, <1>6 DEF q

LEMMA ResizedFacts ==
    ASSUME NEW s \in Seq(Nat), NEW n \in Nat
    PROVE  /\ Resized(s, n) \in Seq(Nat) /\ Len(Resized(s, n)) = n
           /\ \A i \in 1 .. n : Resized(s, n)[i] = IF i <= Len(s) THEN s[i] ELSE 0
<1> DEFINE g == Grown(s, n)
<1>1. /\ g \in Seq(Nat) /\ Len(s) \in Nat /\ Len(g) = Larger(Len(s), n)
      /\ \A i \in 1 .. Len(s) : g[i] = s[i]
      /\ \A i \in (Len(s) + 1) .. n : g[i] = 0
  BY GrownFacts
<1>2. Resized(s, n) = SubSeq(g, 0 + 1, n)
  BY DEF Resized
<1> HIDE DEF g
<1>3. n <= Len(g)
  BY <1>1 DEF Larger
<1>4. /\ SubSeq(g, 0 + 1, n) \in Seq(Nat) /\ Len(SubSeq(g, 0 + 1, n)) = n
      /\ \A i \in 1 .. n : SubSeq(g, 0 + 1, n)[i] = g[0 + i]
  <2>1. n - 0 = n
    OBVIOUS
  <2>2. QED
    BY <1>1, <1>3, <2>1, SubSeqFacts
<1>5. \A i \in 1 .. n : g[0 + i] = IF i <= Len(s) THEN s[i] ELSE 0
  <2> SUFFICES ASSUME NEW i \in 1 .. n PROVE g[i] = IF i <= Len(s) THEN s[i] ELSE 0
    OBVIOUS
  <2>1. CASE i <= Len(s)
    BY <1>1, <2>1
  <2>2. CASE ~(i <= Len(s))
    <3>1. i \in (Len(s) + 1) .. n
      BY <1>1, <2>2
    <3>2. QED
      BY <1>1, <2>2, <3>1
  <2>3. QED
    BY <2>1, <2>2
<1>6. QED
  BY <1>2, <1>4, <1>5

\* What cachedRead returns is the entry's content, or was.
LEMMA ContentFacts ==
    ASSUME TypeOK
    PROVE  Content \in cached \union {remote} /\ Content \in Seq(Nat)
<1>1. CASE cached = {}
  BY <1>1 DEF Content, TypeOK
<1>2. CASE cached # {}
  <2>1. Content \in cached
    BY <1>2 DEF Content
  <2>2. QED
    BY <2>1 DEF TypeOK
<1>3. QED
  BY <1>1, <1>2

\* What lies after off, cut off at off + size.
LEMMA ContentReadFacts ==
    ASSUME NEW s \in Seq(Nat), NEW size \in Nat, NEW off \in Nat
    PROVE  /\ ContentRead(s, size, off).data \in Seq(Nat)
           /\ off >= Len(s) => /\ ContentRead(s, size, off).data = <<>>
                               /\ ContentRead(s, size, off).eof = TRUE
           /\ off < Len(s) =>
                 /\ Len(ContentRead(s, size, off).data) = Smaller(off + size, Len(s)) - off
                 /\ \A i \in 1 .. Len(ContentRead(s, size, off).data) :
                       ContentRead(s, size, off).data[i] = s[off + i]
                 /\ ContentRead(s, size, off).eof = (Len(s) < off + size)
<1>0. Len(s) \in Nat /\ <<>> \in Seq(Nat) /\ (off >= Len(s) \/ off < Len(s))
  OBVIOUS
<1>1. CASE off >= Len(s)
  <2>1. ContentRead(s, size, off) = [data |-> <<>>, eof |-> TRUE]
    BY <1>1 DEF ContentRead
  <2>2. ~(off < Len(s))
    BY <1>0, <1>1
  <2>3. ContentRead(s, size, off).data = <<>> /\ ContentRead(s, size, off).eof = TRUE
    BY <2>1
  <2>4. QED
    BY <1>0, <2>2, <2>3, Zenon
<1>2. CASE off < Len(s)
  <2> DEFINE n == Smaller(off + size, Len(s))
  <2>1. n \in Nat /\ off <= n /\ n <= Len(s)
    BY <1>0, <1>2 DEF Smaller
  <2>2. ContentRead(s, size, off) = [data |-> SubSeq(s, off + 1, n), eof |-> Len(s) < off + size]
    BY <1>0, <1>2 DEF ContentRead
  <2>3. ~(off >= Len(s))
    BY <1>0, <1>2
  <2> HIDE DEF n
  <2>4. /\ SubSeq(s, off + 1, n) \in Seq(Nat) /\ Len(SubSeq(s, off + 1, n)) = n - off
        /\ \A i \in 1 .. (n - off) : SubSeq(s, off + 1, n)[i] = s[off + i]
    BY <2>1, SubSeqFacts
  <2>5. QED
    BY <2>2, <2>3, <2>4 DEF n
<1>3. QED
  BY <1>0, <1>1, <1>2, Zenon

LEMMA PluginReadType ==
    ASSUME TypeOK, NEW size \in Nat, NEW off \in Nat
    PROVE  PluginRead(size, off).data \in Seq(Nat)
<1>1. Content \in Seq(Nat)
  BY ContentFacts
<1>2. ContentRead(Content, size, off).data \in Seq(Nat)
  BY <1>1, ContentReadFacts
<1>3. ContentRead(Content, entrySize, off).data \in Seq(Nat)
  <2>1. entrySize \in Nat
    BY DEF TypeOK
  <2>2. QED
    BY <1>1, <2>1, ContentReadFacts
<1>4. CASE fileLike /\ off >= entrySize
  BY <1>4 DEF PluginRead
<1>5. CASE ~(fileLike /\ off >= entrySize) /\ (fileLike /\ entrySize < size + off)
  <2>1. PluginRead(size, off) = [ContentRead(Content, entrySize, off) EXCEPT !.eof = TRUE]
    BY <1>5 DEF PluginRead
  <2>2. [ContentRead(Content, entrySize, off) EXCEPT !.eof = TRUE].data = ContentRead(Content, entrySize, off).data
    BY DEF ContentRead
  <2>3. QED
    BY <1>3, <2>1, <2>2
<1>6. CASE ~(fileLike /\ off >= entrySize) /\ ~(fileLike /\ entrySize < size + off)
  BY <1>2, <1>6 DEF PluginRead
<1>7. QED
  BY <1>4, <1>5, <1>6

LEMMA CompletedType ==
    ASSUME TypeOK
    PROVE  Completed \in Seq(Nat)
<1>1. data \in Seq(Nat) /\ readSize \in Nat /\ Len(data) \in Nat
  BY DEF TypeOK
<1>2. CASE NeedsRemainder
  <2>1. readSize - Len(data) \in Nat
    BY <1>1, <1>2 DEF NeedsRemainder
  <2>2. Remainder \in Seq(Nat)
    BY <1>1, <2>1, PluginReadType DEF Remainder
  <2>3. data \o Remainder \in Seq(Nat)
    BY <1>1, <2>2, ConcatFacts
  <2>4. QED
    BY <1>1, <1>2, <2>3, GrownFacts DEF Completed
<1>3. CASE ~NeedsRemainder
  BY <1>1, <1>3 DEF Completed
<1>4. QED
  BY <1>2, <1>3

-----------------------------------------------------------------------------
(* The type invariant *)

LEMMA InitType == Init => TypeOK
<1> SUFFICES ASSUME Init PROVE TypeOK
  OBVIOUS
<1>1. Len(Initial) \in Nat /\ Initial \in Seq(Nat) /\ <<>> \in Seq(Nat)
  BY ContentAssumption
<1>2. QED
  BY <1>1 DEF Init, TypeOK

LEMMA BaseType ==
    ASSUME TypeOK
    PROVE  Base \in Seq(Nat)
BY DEF TypeOK, Base

LEMMA RefindType ==
    ASSUME TypeOK, RefindUnlessWriting
    PROVE  listed' \subseteq Nat /\ entrySize' \in Nat
<1>1. Len(remote) \in Nat /\ listed \subseteq Nat /\ entrySize \in Nat
  BY DEF TypeOK
<1>2. CASE useLocalContent \/ ~fileLike
  BY <1>1, <1>2 DEF RefindUnlessWriting
<1>3. CASE ~(useLocalContent \/ ~fileLike)
  <2>1. listed' = (IF listed = {} THEN {Len(remote)} ELSE listed) /\ entrySize' = CHOOSE n \in listed' : TRUE
    BY <1>3 DEF RefindUnlessWriting, refind
  <2>2. listed' # {} /\ listed' \subseteq Nat
    BY <1>1, <2>1
  <2>3. (CHOOSE n \in listed' : TRUE) \in listed'
    BY <2>2
  <2>4. QED
    BY <2>1, <2>2, <2>3
<1>4. QED
  BY <1>2, <1>3

\* The parts of Flush, and of the Flush that Release calls
LEMMA FlushType ==
    ASSUME TypeOK, NEW h \in Handles,
           FlushNoop(h) \/ FlushPanic(h) \/ FlushOK(h) \/ FlushError(h)
    PROVE  /\ fileLike' \in Kinds
           /\ remote' \in Seq(Nat) /\ sent' \in Seq(Nat) /\ data' \in Seq(Nat) /\ want' \in Seq(Nat)
           /\ cached' \subseteq Seq(Nat) /\ listed' \subseteq Nat
           /\ entrySize' \in Nat /\ readSize' \in Nat
           /\ writers' \subseteq Handles
           /\ panicked' \in BOOLEAN
<1>1. Completed \in Seq(Nat) /\ Content \in Seq(Nat) /\ <<>> \in Seq(Nat)
  BY CompletedType, ContentFacts
<1>2. CachedAfterFlush \subseteq Seq(Nat)
  BY <1>1 DEF CachedAfterFlush, TypeOK
<1>3. CASE FlushNoop(h)
  BY <1>3 DEF FlushNoop, pluginVars, fileVars, TypeOK
<1>4. CASE FlushPanic(h)
  BY <1>4 DEF FlushPanic, pluginVars, fileVars, TypeOK
<1>5. CASE FlushOK(h)
  <2>1. UNCHANGED <<fileLike, entrySize, readSize, panicked>> /\ sent' = Completed
    BY <1>5 DEF FlushOK
  <2>2. remote' \in Seq(Nat) /\ data' \in Seq(Nat) /\ cached' \subseteq Seq(Nat)
    BY <1>1, <1>2, <1>5 DEF FlushOK, TypeOK
  <2>3. writers' \subseteq Handles /\ listed' \subseteq Nat /\ want' \in Seq(Nat)
    BY <1>1, <1>5 DEF FlushOK, TypeOK
  <2>4. QED
    BY <1>1, <2>1, <2>2, <2>3 DEF TypeOK
<1>6. CASE FlushError(h)
  <2>1. data' \in Seq(Nat) /\ cached' \subseteq Seq(Nat)
    BY <1>1, <1>2, <1>6 DEF FlushError, TypeOK
  <2>2. QED
    BY <1>6, <2>1 DEF FlushError, TypeOK
<1>7. QED
  BY <1>3, <1>4, <1>5, <1>6

LEMMA TypeStep == TypeOK /\ [Next]_vars => TypeOK'
<1> SUFFICES ASSUME TypeOK, [Next]_vars PROVE TypeOK'
  OBVIOUS
<1>0. /\ Content \in Seq(Nat) /\ <<>> \in Seq(Nat) /\ Base \in Seq(Nat)
      /\ data \in Seq(Nat) /\ Len(data) \in Nat /\ readSize \in Nat /\ entrySize \in Nat
      /\ Len(Content) \in Nat
  BY ContentFacts, BaseType DEF TypeOK
<1>1. CASE Attr
  BY <1>1, RefindType DEF Attr, TypeOK
<1>2. CASE Expire
  BY <1>2 DEF Expire, fileVars, TypeOK
<1>3. ASSUME NEW h \in Handles, NEW m \in {"r", "w", "rw"}, Open(h, m) PROVE TypeOK'
  <2>1. listed' \subseteq Nat /\ entrySize' \in Nat
    BY <1>3, RefindType DEF Open
  <2>2. readSize' \in Nat /\ cached' \subseteq Seq(Nat)
    BY <1>0, <1>3, <2>1 DEF Open, TypeOK
  <2>3. mode' \in [Handles -> {"closed", "r", "w", "rw"}]
    BY <1>3 DEF Open, TypeOK
  <2>4. QED
    BY <1>3, <2>1, <2>2, <2>3 DEF Open, TypeOK
<1>4. ASSUME NEW h \in Handles, NEW off \in Offsets, Read(h, off) PROVE TypeOK'
  <2>1. cached' \subseteq Seq(Nat)
    BY <1>0, <1>4 DEF Read, TypeOK
  <2>2. QED
    BY <1>4, <2>1 DEF Read, fileVars, TypeOK
<1>5. ASSUME NEW h \in Handles, NEW off \in Offsets, WriteError(h, off) PROVE TypeOK'
  <2>1. cached' \subseteq Seq(Nat) /\ want' \in Seq(Nat) /\ writers' \subseteq Handles
    BY <1>0, <1>5 DEF WriteError, TypeOK
  <2>2. QED
    BY <1>5, <2>1 DEF WriteError, TypeOK
<1>6. ASSUME NEW h \in Handles, NEW off \in Offsets, NEW b \in Bytes, WriteOK(h, off, b) PROVE TypeOK'
  <2> DEFINE gap == off - Len(data)
             loaded == IF NeedsLoad(off) THEN PluginRead(gap, Len(data)).data ELSE <<>>
  <2>1. off \in Nat /\ b \in Nat
    BY ContentAssumption
  <2>2. loaded \in Seq(Nat)
    <3>1. CASE NeedsLoad(off)
      <4>1. gap \in Nat
        BY <1>0, <2>1, <3>1 DEF NeedsLoad
      <4> HIDE DEF gap
      <4>2. PluginRead(gap, Len(data)).data \in Seq(Nat)
        BY <1>0, <4>1, PluginReadType
      <4>3. QED
        BY <3>1, <4>2
    <3>2. CASE ~NeedsLoad(off)
      BY <1>0, <3>2
    <3>3. QED
      BY <3>1, <3>2
  <2>3. data' = Overwritten(data \o loaded, off, b)
    BY <1>6 DEF WriteOK
  <2> HIDE DEF gap, loaded
  <2>4. data \o loaded \in Seq(Nat)
    BY <1>0, <2>2, ConcatFacts
  <2>5. data' \in Seq(Nat)
    BY <2>1, <2>3, <2>4, OverwrittenFacts
  <2>6. want' \in Seq(Nat)
    BY <1>0, <1>6, <2>1, OverwrittenFacts DEF WriteOK
  <2>7. readSize' \in Nat
    BY <1>0, <1>6, <2>1 DEF WriteOK, Larger
  <2>8. cached' \subseteq Seq(Nat) /\ writers' \subseteq Handles
    BY <1>0, <1>6 DEF WriteOK, TypeOK
  <2>9. UNCHANGED <<fileLike, remote, sent, listed, entrySize, mode, stage, panicked>>
    BY <1>6 DEF WriteOK
  <2>10. QED
    BY <2>5, <2>6, <2>7, <2>8, <2>9 DEF TypeOK
<1>7. ASSUME NEW h \in Handles, NEW n \in Sizes, Setattr(h, n) PROVE TypeOK'
  <2>1. n \in Nat
    BY ContentAssumption
  <2>2. data' \in Seq(Nat) /\ readSize' \in Nat
    BY <1>0, <1>7, <2>1, ResizedFacts DEF Setattr
  <2>3. want' \in Seq(Nat) /\ writers' \subseteq Handles
    BY <1>0, <1>7, <2>1, ResizedFacts DEF Setattr, TypeOK
  <2>4. QED
    BY <1>7, <2>2, <2>3 DEF Setattr, pluginVars, TypeOK
<1>8. ASSUME NEW h \in Handles, Flush(h) PROVE TypeOK'
  <2>1. mode' = mode /\ stage' \in [Handles -> {"open", "flushed", "release", "drop", "clear"}]
    BY <1>8 DEF Flush, TypeOK
  <2>2. QED
    BY <1>8, <2>1, FlushType DEF Flush, TypeOK
<1>9. ASSUME NEW h \in Handles, ReleaseFlush(h) PROVE TypeOK'
  <2>1. stage' \in [Handles -> {"open", "flushed", "release", "drop", "clear"}]
    BY <1>9 DEF ReleaseFlush, TypeOK
  <2>2. mode' \in [Handles -> {"closed", "r", "w", "rw"}]
    BY <1>9 DEF ReleaseFlush, TypeOK
  <2>3. QED
    BY <1>9, <2>1, <2>2, FlushType DEF ReleaseFlush, TypeOK
<1>10. ASSUME NEW h \in Handles, Release(h) PROVE TypeOK'
  BY <1>10 DEF Release, pluginVars, fileVars, TypeOK
<1>11. ASSUME NEW h \in Handles, ReleaseWriter(h) PROVE TypeOK'
  <2>1. stage' \in [Handles -> {"open", "flushed", "release", "drop", "clear"}]
    BY <1>11 DEF ReleaseWriter, Closed, TypeOK
  <2>2. mode' \in [Handles -> {"closed", "r", "w", "rw"}]
    BY <1>11 DEF ReleaseWriter, Closed, TypeOK
  <2>3. writers' \subseteq Handles /\ want' \in Seq(Nat)
    BY <1>0, <1>11 DEF ReleaseWriter, TypeOK
  <2>4. QED
    BY <1>11, <2>1, <2>2, <2>3 DEF ReleaseWriter, pluginVars, TypeOK
<1>12. ASSUME NEW h \in Handles, DropData(h) PROVE TypeOK'
  BY <1>0, <1>12 DEF DropData, pluginVars, TypeOK
<1>13. ASSUME NEW h \in Handles, ClearCache(h) PROVE TypeOK'
  <2>1. /\ stage' \in [Handles -> {"open", "flushed", "release", "drop", "clear"}]
        /\ mode' \in [Handles -> {"closed", "r", "w", "rw"}]
    BY <1>13 DEF ClearCache, Closed, TypeOK
  <2>2. QED
    BY <1>13, <2>1 DEF ClearCache, fileVars, TypeOK
<1>14. CASE UNCHANGED vars
  BY <1>14 DEF vars, pluginVars, fileVars, TypeOK
<1>15. QED
  BY <1>1, <1>2, <1>3, <1>4, <1>5, <1>6, <1>7, <1>8, <1>9, <1>10, <1>11, <1>12, <1>13, <1>14
     DEF Next

\* The type invariant.
THEOREM TypeCorrect == Spec => []TypeOK
BY InitType, TypeStep, PTL DEF Spec

-----------------------------------------------------------------------------
(* The buffer and the caches, whatever the handles do *)

\* Both hold between any two steps, of any handles.
CleanInv == TypeOK /\ BufferReleased /\ CachesFresh

LEMMA CleanInit == Init => CleanInv
<1> SUFFICES ASSUME Init PROVE CleanInv
  OBVIOUS
<1>1. TypeOK
  BY InitType
<1>2. QED
  BY <1>1 DEF Init, CleanInv, BufferReleased, CachesFresh

\* With fresh caches, a request that fills one does so with the content.
LEMMA FreshContent ==
    ASSUME cached \subseteq {remote}
    PROVE  Content = remote
BY DEF Content

\* A listing that is not out of date gives the size of the content.
LEMMA FreshRefind ==
    ASSUME fileLike, ~useLocalContent, listed \subseteq {Len(remote)}, RefindUnlessWriting
    PROVE  listed' = {Len(remote)} /\ entrySize' = Len(remote)
<1>1. listed' = (IF listed = {} THEN {Len(remote)} ELSE listed) /\ entrySize' = CHOOSE n \in listed' : TRUE
  BY DEF RefindUnlessWriting, refind
<1>2. listed' = {Len(remote)}
  BY <1>1
<1>3. QED
  BY <1>1, <1>2

LEMMA CleanFlush ==
    ASSUME CleanInv, NEW h \in Handles,
           FlushNoop(h) \/ FlushPanic(h) \/ FlushOK(h) \/ FlushError(h)
    PROVE  /\ writers # {} \/ UNCHANGED <<remote, data, cached, listed, writers>>
           /\ writers' = {} /\ writers # {} => data' = <<>> /\ cached' = {} /\ listed' = {}
<1>1. CASE FlushNoop(h)
  BY <1>1 DEF FlushNoop, pluginVars, fileVars
<1>2. CASE FlushPanic(h)
  BY <1>2 DEF FlushPanic, pluginVars, fileVars
<1>3. CASE FlushOK(h)
  BY <1>3 DEF FlushOK
<1>4. CASE FlushError(h)
  BY <1>4 DEF FlushError
<1>5. QED
  BY <1>1, <1>2, <1>3, <1>4

LEMMA CleanStep == CleanInv /\ [Next]_vars => CleanInv'
<1> SUFFICES ASSUME CleanInv, [Next]_vars PROVE CleanInv'
  OBVIOUS
<1>0. TypeOK'
  BY TypeStep DEF CleanInv
<1>s. stage \in [Handles -> {"open", "flushed", "release", "drop", "clear"}]
  BY DEF CleanInv, TypeOK
<1> USE DEF CleanInv, BufferReleased, CachesFresh
<1>1. CASE Attr
  <2>1. UNCHANGED <<remote, cached, writers, data, stage, fileLike>> /\ RefindUnlessWriting
    BY <1>1 DEF Attr
  <2>2. BufferReleased'
    BY <2>1
  <2>3. CachesFresh'
    <3> SUFFICES ASSUME writers = {}, \A g \in Handles : stage[g] \notin {"drop", "clear"}
                 PROVE  cached' \subseteq {remote'} /\ (fileLike' => listed' \subseteq {Len(remote')})
      BY <2>1
    <3>1. cached \subseteq {remote} /\ (fileLike => listed \subseteq {Len(remote)})
      OBVIOUS
    <3>2. QED
      BY <2>1, <3>1, FreshRefind DEF useLocalContent
  <2>4. QED
    BY <1>0, <2>2, <2>3
<1>2. CASE Expire
  BY <1>0, <1>2 DEF Expire, fileVars
<1>3. ASSUME NEW h \in Handles, NEW m \in {"r", "w", "rw"}, Open(h, m) PROVE CleanInv'
  <2>1. UNCHANGED <<remote, writers, data, stage, fileLike>> /\ RefindUnlessWriting
    BY <1>3 DEF Open
  <2>2. cached' \in {cached, {Content}}
    BY <1>3 DEF Open
  <2>3. CachesFresh'
    <3> SUFFICES ASSUME writers = {}, \A g \in Handles : stage[g] \notin {"drop", "clear"}
                 PROVE  cached' \subseteq {remote'} /\ (fileLike' => listed' \subseteq {Len(remote')})
      BY <2>1
    <3>1. cached \subseteq {remote} /\ (fileLike => listed \subseteq {Len(remote)})
      OBVIOUS
    <3>2. cached' \subseteq {remote'}
      BY <2>1, <2>2, <3>1, FreshContent
    <3>3. QED
      BY <2>1, <3>1, <3>2, FreshRefind DEF useLocalContent
  <2>4. QED
    BY <1>0, <2>1, <2>3
<1>4. ASSUME NEW h \in Handles, NEW off \in Offsets, Read(h, off) PROVE CleanInv'
  <2>1. UNCHANGED <<remote, writers, data, stage, fileLike, listed>> /\ cached' \in {cached, {Content}}
    BY <1>4 DEF Read, fileVars
  <2>2. QED
    BY <1>0, <2>1, FreshContent
<1>5. ASSUME NEW h \in Handles, NEW off \in Offsets, WriteError(h, off) PROVE CleanInv'
  BY <1>0, <1>5 DEF WriteError
<1>6. ASSUME NEW h \in Handles, NEW off \in Offsets, NEW b \in Bytes, WriteOK(h, off, b) PROVE CleanInv'
  <2>1. writers' # {}
    BY <1>6 DEF WriteOK
  <2>2. QED
    BY <1>0, <2>1
<1>7. ASSUME NEW h \in Handles, NEW n \in Sizes, Setattr(h, n) PROVE CleanInv'
  <2>1. writers' # {}
    BY <1>7 DEF Setattr
  <2>2. QED
    BY <1>0, <2>1
<1>8. ASSUME NEW h \in Handles, Flush(h) \/ ReleaseFlush(h) PROVE CleanInv'
  <2>1. /\ writers # {} \/ UNCHANGED <<remote, data, cached, listed, writers>>
        /\ writers' = {} /\ writers # {} => data' = <<>> /\ cached' = {} /\ listed' = {}
    BY <1>8, CleanFlush DEF Flush, ReleaseFlush
  <2>2. fileLike' = fileLike
    BY <1>8 DEF Flush, ReleaseFlush, FlushNoop, FlushPanic, FlushOK, FlushError
  <2>3. \A g \in Handles : stage'[g] # stage[g] => stage[g] \in {"open", "flushed"}
    BY <1>8, <1>s DEF Flush, ReleaseFlush, InUse
  <2>4. \A g \in Handles : /\ stage'[g] # "drop" => stage[g] # "drop"
                           /\ stage'[g] \notin {"drop", "clear"} => stage[g] \notin {"drop", "clear"}
    BY <2>3
  <2>5. BufferReleased'
    BY <2>1, <2>4
  <2>6. CachesFresh'
    BY <2>1, <2>2, <2>4
  <2>7. QED
    BY <1>0, <2>5, <2>6
<1>9. ASSUME NEW h \in Handles, Release(h) PROVE CleanInv'
  BY <1>0, <1>9, <1>s DEF Release, pluginVars, fileVars
<1>10. ASSUME NEW h \in Handles, ReleaseWriter(h) PROVE CleanInv'
  <2>1. UNCHANGED <<fileLike, remote, cached, listed, data>> /\ stage[h] = "release"
    BY <1>10 DEF ReleaseWriter, pluginVars
  <2>2. CASE h \in writers /\ writers' = {}
    <3>1. stage'[h] = "drop"
      BY <1>10, <1>s, <2>2 DEF ReleaseWriter
    <3>2. QED
      BY <1>0, <3>1
  <2>3. CASE ~(h \in writers /\ writers' = {})
    <3>1. \A g \in Handles : stage'[g] = IF g = h THEN "open" ELSE stage[g]
      BY <1>10, <1>s, <2>3 DEF ReleaseWriter, Closed
    <3>2. writers' = {} => writers = {}
      BY <1>10, <2>3 DEF ReleaseWriter
    <3>3. QED
      BY <1>0, <2>1, <3>1, <3>2
  <2>4. QED
    BY <2>2, <2>3
<1>11. ASSUME NEW h \in Handles, DropData(h) PROVE CleanInv'
  <2>1. data' = <<>> /\ stage'[h] = "clear"
    BY <1>11, <1>s DEF DropData
  <2>2. QED
    BY <1>0, <2>1
<1>12. ASSUME NEW h \in Handles, ClearCache(h) PROVE CleanInv'
  <2>1. cached' = {} /\ listed' = {} /\ UNCHANGED <<writers, data>>
    BY <1>12 DEF ClearCache, fileVars
  <2>2. \A g \in Handles : stage'[g] # "drop" => stage[g] # "drop"
    BY <1>12, <1>s DEF ClearCache, Closed
  <2>3. QED
    BY <1>0, <2>1, <2>2
<1>13. CASE UNCHANGED vars
  BY <1>0, <1>13 DEF vars, pluginVars, fileVars
<1>14. QED
  BY <1>1, <1>2, <1>3, <1>4, <1>5, <1>6, <1>7, <1>8, <1>9, <1>10, <1>11, <1>12, <1>13
     DEF Next

LEMMA CleanAlways == Spec => []CleanInv
BY CleanInit, CleanStep, PTL DEF Spec

\* file.go:51: with no writer, and no release about to drop it, nothing is left in the buffer,
\* although releaseWriter runs without the mutex of the other handlers.
THEOREM BufferReleasedCorrect == Spec => []BufferReleased
<1>1. CleanInv => BufferReleased
  BY DEF CleanInv
<1>2. QED
  BY <1>1, CleanAlways, PTL

\* file.go:184-187: once the last writer is gone the caches hold what was written, or nothing.
THEOREM CachesFreshCorrect == Spec => []CachesFresh
<1>1. CleanInv => CachesFresh
  BY DEF CleanInv
<1>2. QED
  BY <1>1, CleanAlways, PTL

-----------------------------------------------------------------------------
(* What a flush sends, when handles take turns *)


\* d is what is in the buffer of a file of n bytes that should have the content base; e is the
\* size the entry is believed to have, and C what a read of it may return.  The file is d,
\* followed by the entry's content, followed by nulls.
Sized(d, n, e, base, C) ==
    /\ Len(d) <= n
    /\ e <= n
    /\ Len(base) = n
    /\ \A i \in 1 .. Len(d) : base[i] = d[i]
    /\ \A c \in C : /\ Len(c) <= Larger(e, Len(d))
                    /\ \A i \in (Len(d) + 1) .. n : base[i] = IF i <= Len(c) THEN c[i] ELSE 0

\* A file that nobody has written to
LEMMA SizedFresh ==
    ASSUME NEW r \in Seq(Nat)
    PROVE  Sized(<<>>, Len(r), Len(r), r, {r})
<1>1. Len(r) \in Nat /\ Len(<<>>) = 0
  OBVIOUS
<1>2. QED
  BY <1>1 DEF Sized, Larger

LEMMA SizedFewer ==
    ASSUME NEW d, NEW n, NEW e, NEW base, NEW C, NEW D \in SUBSET C, Sized(d, n, e, base, C)
    PROVE  Sized(d, n, e, base, D)
BY DEF Sized

\* A write, after L was loaded.
LEMMA SizedWrite ==
    ASSUME NEW d \in Seq(Nat), NEW n \in Nat, NEW e \in Nat, NEW base \in Seq(Nat),
           NEW C \in SUBSET Seq(Nat), Sized(d, n, e, base, C),
           NEW L \in Seq(Nat), Len(d) <= Len(L), Len(L) <= n,
           \A i \in 1 .. Len(L) : base[i] = L[i],
           NEW off \in Nat, off <= Len(L), NEW b \in Nat
    PROVE  Sized(Overwritten(L, off, b), Larger(n, off + 1), e, Overwritten(base, off, b), C)
<1> DEFINE p == Overwritten(L, off, b)
           q == Overwritten(base, off, b)
           m == Larger(n, off + 1)
<1>1. /\ p \in Seq(Nat) /\ Len(L) \in Nat /\ Len(p) = Larger(Len(L), off + 1)
      /\ p[off + 1] = b /\ \A i \in 1 .. Len(L) : i # off + 1 => p[i] = L[i]
  BY ZenonT(40), OverwrittenFacts
<1>2. /\ q \in Seq(Nat) /\ Len(base) \in Nat /\ Len(q) = Larger(Len(base), off + 1)
      /\ q[off + 1] = b /\ \A i \in 1 .. Len(base) : i # off + 1 => q[i] = base[i]
  BY ZenonT(40), OverwrittenFacts
<1>3. Len(d) \in Nat /\ Len(base) = n /\ e <= n
  BY DEF Sized
<1>4. Len(q) = m
  BY <1>2, <1>3
<1> HIDE DEF p, q
<1>5. /\ m \in Nat /\ Len(p) <= m /\ e <= m
  BY <1>1, <1>3 DEF Larger
<1>6. \A i \in 1 .. Len(p) : q[i] = p[i]
  <2> SUFFICES ASSUME NEW i \in 1 .. Len(p) PROVE q[i] = p[i]
    OBVIOUS
  <2>1. CASE i = off + 1
    BY <1>1, <1>2, <2>1
  <2>2. CASE i # off + 1
    <3>1. i \in 1 .. Len(L) /\ i \in 1 .. Len(base)
      BY <1>1, <1>3, <2>2 DEF Larger
    <3>2. QED
      BY <1>1, <1>2, <2>2, <3>1
  <2>3. QED
    BY <2>1, <2>2
<1>7. ASSUME NEW c \in C
      PROVE  /\ Len(c) <= Larger(e, Len(p))
             /\ \A i \in (Len(p) + 1) .. m : q[i] = IF i <= Len(c) THEN c[i] ELSE 0
  <2>0. Len(c) \in Nat
    OBVIOUS
  <2>1. /\ Len(c) <= Larger(e, Len(d))
        /\ \A i \in (Len(d) + 1) .. n : base[i] = IF i <= Len(c) THEN c[i] ELSE 0
    BY DEF Sized
  <2>2. Len(c) <= Larger(e, Len(p))
    BY <1>1, <1>3, <2>0, <2>1 DEF Larger
  <2>3. ASSUME NEW i \in (Len(p) + 1) .. m PROVE q[i] = IF i <= Len(c) THEN c[i] ELSE 0
    <3>1. i \in (Len(d) + 1) .. n /\ i # off + 1 /\ i \in 1 .. Len(base)
      BY SMTT(30), <1>1, <1>3, <1>5 DEF Larger
    <3>2. q[i] = base[i]
      BY <1>2, <3>1
    <3>3. QED
      BY <2>1, <3>1, <3>2
  <2>4. QED
    BY <2>2, <2>3
<1>8. QED
  BY <1>4, <1>5, <1>6, <1>7 DEF Sized, p, q

\* A resize that does not shrink the file
LEMMA SizedResize ==
    ASSUME NEW d \in Seq(Nat), NEW n \in Nat, NEW e \in Nat, NEW base \in Seq(Nat),
           NEW C \in SUBSET Seq(Nat), Sized(d, n, e, base, C), NEW m \in Nat, m >= n
    PROVE  Sized(d, m, e, Resized(base, m), C)
<1> DEFINE q == Resized(base, m)
<1>1. q \in Seq(Nat) /\ Len(q) = m /\ \A i \in 1 .. m : q[i] = IF i <= Len(base) THEN base[i] ELSE 0
  BY ResizedFacts
<1> HIDE DEF q
<1>2. Len(d) \in Nat /\ Len(base) = n /\ e <= n /\ Len(d) <= n
  BY DEF Sized
<1>3. Len(d) <= m /\ e <= m
  BY <1>2
<1>4. \A i \in 1 .. Len(d) : q[i] = d[i]
  <2> SUFFICES ASSUME NEW i \in 1 .. Len(d) PROVE q[i] = d[i]
    OBVIOUS
  <2>1. i \in 1 .. m /\ i <= Len(base)
    BY <1>2
  <2>2. QED
    BY <1>1, <2>1 DEF Sized
<1>5. ASSUME NEW c \in C
      PROVE  /\ Len(c) <= Larger(e, Len(d))
             /\ \A i \in (Len(d) + 1) .. m : q[i] = IF i <= Len(c) THEN c[i] ELSE 0
  <2>1. /\ Len(c) <= Larger(e, Len(d)) /\ Len(c) \in Nat
        /\ \A i \in (Len(d) + 1) .. n : base[i] = IF i <= Len(c) THEN c[i] ELSE 0
    BY DEF Sized
  <2>2. ASSUME NEW i \in (Len(d) + 1) .. m PROVE q[i] = IF i <= Len(c) THEN c[i] ELSE 0
    <3>0. i \in 1 .. m
      BY <1>2
    <3>1. CASE i <= n
      <4>1. q[i] = base[i] /\ i \in (Len(d) + 1) .. n
        BY <1>1, <1>2, <3>0, <3>1
      <4>2. QED
        BY <2>1, <4>1
    <3>2. CASE i > n
      <4>1. q[i] = 0
        BY <1>1, <1>2, <3>0, <3>2
      <4>2. ~(i <= Len(c))
        BY <1>2, <2>1, <3>0, <3>2 DEF Larger
      <4>3. QED
        BY <4>1, <4>2
    <3>3. QED
      BY <3>0, <3>1, <3>2
  <2>3. QED
    BY <2>1, <2>2
<1>6. QED
  BY <1>1, <1>3, <1>4, <1>5 DEF Sized, q

\* A flush, after which all of the file is in the buffer.
LEMMA SizedFlush ==
    ASSUME NEW d \in Seq(Nat), NEW n \in Nat, NEW e \in Nat, NEW base \in Seq(Nat),
           NEW C \in SUBSET Seq(Nat), Sized(d, n, e, base, C)
    PROVE  Sized(base, n, e, base, C \union {base})
<1>1. Len(d) \in Nat /\ Len(base) = n /\ e <= n /\ Len(d) <= n
  BY DEF Sized
<1>2. (n + 1) .. n = {}
  OBVIOUS
<1>3. ASSUME NEW c \in C \union {base} PROVE Len(c) <= Larger(e, n)
  <2>1. CASE c = base
    BY <1>1, <2>1 DEF Larger
  <2>2. CASE c \in C
    <3>1. Len(c) <= Larger(e, Len(d)) /\ Len(c) \in Nat
      BY <2>2 DEF Sized
    <3>2. QED
      BY <1>1, <3>1 DEF Larger
  <2>3. QED
    BY <2>1, <2>2
<1>4. QED
  BY <1>1, <1>2, <1>3 DEF Sized

SizedInv == Sized(data, readSize, entrySize, Base, cached \union {remote})

\* What Flush loads is what the entry has beyond the buffer, all of it.
LEMMA RemainderFacts ==
    ASSUME TypeOK, fileLike, SizedInv, NeedsRemainder
    PROVE  /\ Remainder \in Seq(Nat)
           /\ Len(data) < Len(Content) => Len(Remainder) = Len(Content) - Len(data)
           /\ Len(data) >= Len(Content) => Len(Remainder) = 0
           /\ \A i \in 1 .. Len(Remainder) : Remainder[i] = Content[Len(data) + i]
<1> DEFINE c == Content
           off == Len(data)
           size == readSize - Len(data)
<1>1. /\ c \in Seq(Nat) /\ Len(c) \in Nat /\ off \in Nat /\ readSize \in Nat /\ entrySize \in Nat
      /\ off < readSize /\ size \in Nat /\ off + size = readSize
  <2>1. c \in Seq(Nat) /\ data \in Seq(Nat) /\ readSize \in Nat /\ entrySize \in Nat
    BY ContentFacts DEF TypeOK
  <2>2. off < readSize
    BY DEF NeedsRemainder
  <2> HIDE DEF c
  <2>3. Len(c) \in Nat /\ off \in Nat
    BY <2>1
  <2> HIDE DEF off
  <2>4. readSize - off \in Nat /\ off + (readSize - off) = readSize
    BY <2>1, <2>2, <2>3
  <2>5. QED
    BY <2>1, <2>2, <2>3, <2>4 DEF off
<1>2. entrySize <= readSize /\ Len(c) <= Larger(entrySize, off)
  BY ContentFacts DEF SizedInv, Sized
<1>3. Remainder = PluginRead(size, off).data
  BY DEF Remainder
<1> HIDE DEF c, off, size
<1>4. CASE off >= entrySize
  <2>1. Remainder = <<>> /\ Len(<<>>) = 0 /\ 1 .. 0 = {} /\ <<>> \in Seq(Nat)
    BY <1>3, <1>4 DEF PluginRead
  <2>2. ~(off < Len(c))
    BY <1>1, <1>2, <1>4 DEF Larger
  <2>3. QED
    BY <2>1, <2>2 DEF c, off
<1>5. CASE off < entrySize /\ entrySize < readSize
  <2> DEFINE r == ContentRead(c, entrySize, off).data
  <2>1. PluginRead(size, off) = [ContentRead(c, entrySize, off) EXCEPT !.eof = TRUE]
    BY <1>1, <1>5 DEF PluginRead, c
  <2>2. Remainder = r
    BY <1>3, <2>1 DEF ContentRead
  <2>3. /\ r \in Seq(Nat)
        /\ off >= Len(c) => r = <<>>
        /\ off < Len(c) => /\ Len(r) = Smaller(off + entrySize, Len(c)) - off
                           /\ \A i \in 1 .. Len(r) : r[i] = c[off + i]
    BY ZenonT(40), <1>1, ContentReadFacts
  <2> HIDE DEF r
  <2>4. Len(c) <= off + entrySize
    BY <1>1, <1>2, <1>5 DEF Larger
  <2>5. CASE off < Len(c)
    <3>1. Len(r) = Len(c) - off
      BY <1>1, <2>3, <2>4, <2>5 DEF Smaller
    <3>2. ~(off >= Len(c))
      BY <1>1, <2>5
    <3>3. QED
      BY <2>2, <2>3, <2>5, <3>1, <3>2 DEF c, off
  <2>6. CASE off >= Len(c)
    <3>1. r = <<>> /\ Len(r) = 0 /\ 1 .. 0 = {}
      BY <2>3, <2>6
    <3>2. ~(off < Len(c))
      BY <1>1, <2>6
    <3>3. QED
      BY <2>2, <2>3, <3>1, <3>2 DEF c, off
  <2>7. QED
    BY <1>1, <2>5, <2>6
<1>6. CASE off < entrySize /\ entrySize >= readSize
  <2> DEFINE r == ContentRead(c, size, off).data
  <2>1. Remainder = r
    BY <1>1, <1>3, <1>6 DEF PluginRead, c
  <2>3. /\ r \in Seq(Nat)
        /\ off >= Len(c) => r = <<>>
        /\ off < Len(c) => /\ Len(r) = Smaller(off + size, Len(c)) - off
                           /\ \A i \in 1 .. Len(r) : r[i] = c[off + i]
    BY ZenonT(40), <1>1, ContentReadFacts
  <2> HIDE DEF r
  <2>4. Len(c) <= off + size
    BY <1>1, <1>2, <1>6 DEF Larger
  <2>5. CASE off < Len(c)
    <3>1. Len(r) = Len(c) - off
      BY <1>1, <2>3, <2>4, <2>5 DEF Smaller
    <3>2. ~(off >= Len(c))
      BY <1>1, <2>5
    <3>3. QED
      BY <2>1, <2>3, <2>5, <3>1, <3>2 DEF c, off
  <2>6. CASE off >= Len(c)
    <3>1. r = <<>> /\ Len(r) = 0 /\ 1 .. 0 = {}
      BY <2>3, <2>6
    <3>2. ~(off < Len(c))
      BY <1>1, <2>6
    <3>3. QED
      BY <2>1, <2>3, <3>1, <3>2 DEF c, off
  <2>7. QED
    BY <1>1, <2>5, <2>6
<1>7. QED
  BY <1>1, <1>4, <1>5, <1>6

\* So what a flush sends is the file.
LEMMA CompletedIsFile ==
    ASSUME TypeOK, fileLike, SizedInv
    PROVE  Completed = Base
<1> DEFINE c == Content
           d == Len(data)
<1>1. /\ c \in Seq(Nat) /\ Len(c) \in Nat /\ d \in Nat /\ readSize \in Nat /\ entrySize \in Nat
      /\ data \in Seq(Nat) /\ Base \in Seq(Nat) /\ c \in cached \union {remote}
  <2>1. /\ c \in Seq(Nat) /\ data \in Seq(Nat) /\ readSize \in Nat /\ entrySize \in Nat
        /\ c \in cached \union {remote}
    BY ContentFacts DEF TypeOK
  <2>2. Base \in Seq(Nat)
    BY BaseType
  <2> HIDE DEF c
  <2>3. Len(c) \in Nat /\ d \in Nat
    BY <2>1
  <2>4. QED
    BY <2>1, <2>2, <2>3
<1>2. /\ d <= readSize /\ Len(Base) = readSize /\ entrySize <= readSize
      /\ \A i \in 1 .. d : Base[i] = data[i]
  BY DEF SizedInv, Sized
<1>3. /\ Len(c) <= Larger(entrySize, d)
      /\ \A i \in (d + 1) .. readSize : Base[i] = IF i <= Len(c) THEN c[i] ELSE 0
  BY <1>1 DEF SizedInv, Sized
<1> HIDE DEF c
<1>4. CASE NeedsRemainder
  <2> DEFINE r == Remainder
             s == data \o r
             t == Grown(s, readSize)
  <2>1. /\ r \in Seq(Nat) /\ Len(r) \in Nat
        /\ d < Len(c) => Len(r) = Len(c) - d
        /\ d >= Len(c) => Len(r) = 0
        /\ \A i \in 1 .. Len(r) : r[i] = c[d + i]
    BY <1>4, RemainderFacts DEF c
  <2> HIDE DEF r
  <2>2. /\ s \in Seq(Nat) /\ Len(s) = d + Len(r)
        /\ \A i \in 1 .. d : s[i] = data[i]
        /\ \A i \in (d + 1) .. (d + Len(r)) : s[i] = r[i - d]
    BY <1>1, <2>1, ConcatFacts
  <2> HIDE DEF s, d
  <2>3. /\ t \in Seq(Nat) /\ Len(t) = Larger(Len(s), readSize)
        /\ \A i \in 1 .. Len(s) : t[i] = s[i]
        /\ \A i \in (Len(s) + 1) .. readSize : t[i] = 0
    BY <1>1, <2>2, GrownFacts
  <2>4. Completed = t
    BY <1>4 DEF Completed, t, s, r
  <2> HIDE DEF t
  <2>5. Len(s) <= readSize /\ Len(t) = readSize
    <3>1. d <= readSize /\ Len(c) <= readSize
      BY <1>1, <1>2, <1>3 DEF Larger
    <3>2. Len(s) \in Nat /\ Len(s) <= readSize
      <4>1. CASE d < Len(c)
        BY <1>1, <2>1, <2>2, <3>1, <4>1
      <4>2. CASE d >= Len(c)
        BY <1>1, <2>1, <2>2, <3>1, <4>2
      <4>3. QED
        BY <1>1, <4>1, <4>2
    <3>3. QED
      BY <1>1, <2>3, <3>2 DEF Larger
  <2>6. ASSUME NEW i \in 1 .. readSize PROVE t[i] = Base[i]
    <3>1. CASE i <= d
      <4>1. i \in 1 .. d /\ i \in 1 .. Len(s)
        BY <1>1, <2>1, <2>2, <3>1
      <4>2. QED
        BY <1>2, <2>2, <2>3, <4>1
    <3>2. CASE i > d /\ i <= Len(s)
      <4>1. i \in 1 .. Len(s) /\ i \in (d + 1) .. (d + Len(r)) /\ i - d \in 1 .. Len(r) /\ d + (i - d) = i
        BY <1>1, <2>1, <2>2, <3>2
      <4>2. i \in (d + 1) .. readSize /\ i <= Len(c)
        <5>1. i \in (d + 1) .. readSize
          BY <1>1, <3>2
        <5>2. CASE d < Len(c)
          BY <1>1, <2>1, <2>2, <3>2, <5>1, <5>2
        <5>3. CASE d >= Len(c)
          BY <1>1, <2>1, <2>2, <3>2, <5>3
        <5>4. QED
          BY <1>1, <5>1, <5>2, <5>3
      <4>3. t[i] = s[i] /\ s[i] = r[i - d] /\ r[i - d] = c[i]
        BY <2>1, <2>2, <2>3, <4>1
      <4>4. QED
        BY <1>3, <4>2, <4>3
    <3>3. CASE i > d /\ i > Len(s)
      <4>1. i \in (Len(s) + 1) .. readSize /\ i \in (d + 1) .. readSize /\ ~(i <= Len(c))
        BY <1>1, <2>1, <2>2, <3>3
      <4>2. QED
        BY <1>3, <2>3, <4>1
    <3>4. i <= d \/ (i > d /\ i <= Len(s)) \/ (i > d /\ i > Len(s))
      BY <1>1, <2>1, <2>2
    <3>5. QED
      BY <3>1, <3>2, <3>3, <3>4
  <2>7. t = Base
    BY <1>1, <1>2, <2>3, <2>5, <2>6, SeqEqual
  <2>8. QED
    BY <2>4, <2>7
<1>5. CASE ~NeedsRemainder
  <2>1. Completed = data /\ Len(data) = Len(Base)
    BY <1>1, <1>2, <1>5 DEF Completed, NeedsRemainder
  <2>2. \A i \in 1 .. Len(data) : data[i] = Base[i]
    BY <1>2
  <2>3. data = Base
    BY <1>1, <2>1, <2>2, SeqEqual
  <2>4. QED
    BY <2>1, <2>3
<1>6. QED
  BY <1>4, <1>5

\* What a write past the buffer loads is what lies in between.
LEMMA LoadedFacts ==
    ASSUME TypeOK, fileLike, SizedInv, NEW off \in Nat, NeedsLoad(off),
           ~PluginRead(off - Len(data), Len(data)).eof
    PROVE  LET L == data \o PluginRead(off - Len(data), Len(data)).data
           IN  /\ L \in Seq(Nat) /\ Len(L) = off /\ off <= readSize
               /\ \A i \in 1 .. off : Base[i] = L[i]
<1> DEFINE c == Content
           d == Len(data)
           size == off - Len(data)
           r == PluginRead(size, d).data
           L == data \o r
<1>1. /\ c \in Seq(Nat) /\ Len(c) \in Nat /\ d \in Nat /\ readSize \in Nat /\ entrySize \in Nat
      /\ data \in Seq(Nat) /\ Base \in Seq(Nat) /\ c \in cached \union {remote}
      /\ size \in Nat /\ d < off /\ d + size = off
  <2>1. /\ c \in Seq(Nat) /\ data \in Seq(Nat) /\ readSize \in Nat /\ entrySize \in Nat
        /\ c \in cached \union {remote}
    BY ContentFacts DEF TypeOK
  <2>2. Base \in Seq(Nat)
    BY BaseType
  <2>3. off > d
    BY DEF NeedsLoad
  <2> HIDE DEF c
  <2>4. Len(c) \in Nat /\ d \in Nat
    BY <2>1
  <2> HIDE DEF d
  <2>5. off - d \in Nat /\ d < off /\ d + (off - d) = off
    BY <2>3, <2>4
  <2>6. QED
    BY <2>1, <2>2, <2>4, <2>5 DEF d
<1>2. /\ d <= readSize /\ Len(Base) = readSize /\ entrySize <= readSize
      /\ \A i \in 1 .. d : Base[i] = data[i]
  BY DEF SizedInv, Sized
<1>3. \A i \in (d + 1) .. readSize : Base[i] = IF i <= Len(c) THEN c[i] ELSE 0
  BY <1>1 DEF SizedInv, Sized
<1>4. ~PluginRead(size, d).eof
  OBVIOUS
<1> HIDE DEF c, d, size
<1>5. d < entrySize
  BY <1>1, <1>4 DEF PluginRead
<1>6. ~(entrySize < size + d)
  <2> SUFFICES ASSUME entrySize < size + d PROVE FALSE
    OBVIOUS
  <2>1. PluginRead(size, d) = [ContentRead(c, entrySize, d) EXCEPT !.eof = TRUE]
    BY <1>1, <1>5 DEF PluginRead, c
  <2>2. [ContentRead(c, entrySize, d) EXCEPT !.eof = TRUE].eof = TRUE
    BY DEF ContentRead
  <2>3. QED
    BY <1>4, <2>1, <2>2
<1>7. PluginRead(size, d) = ContentRead(c, size, d)
  BY <1>1, <1>5, <1>6 DEF PluginRead, c
<1> DEFINE q == ContentRead(c, size, d)
<1>a. r = q.data /\ ~q.eof
  BY <1>4, <1>7
<1>b. /\ q.data \in Seq(Nat)
      /\ d >= Len(c) => q.eof = TRUE
      /\ d < Len(c) => /\ Len(q.data) = Smaller(d + size, Len(c)) - d
                       /\ \A i \in 1 .. Len(q.data) : q.data[i] = c[d + i]
                       /\ q.eof = (Len(c) < d + size)
  BY <1>1, ContentReadFacts
<1> HIDE DEF r, q
<1>c. d < Len(c)
  <2>1. ~(d >= Len(c))
    BY <1>a, <1>b
  <2>2. QED
    BY <1>1, <2>1
<1>8. /\ r \in Seq(Nat) /\ Len(r) = Smaller(d + size, Len(c)) - d
      /\ \A i \in 1 .. Len(r) : r[i] = c[d + i]
  BY <1>a, <1>b, <1>c
<1>9. d < Len(c) /\ off <= Len(c)
  <2>1. ~(Len(c) < d + size)
    BY <1>a, <1>b, <1>c
  <2>2. QED
    BY <1>1, <1>c, <2>1
<1>10. Len(r) = off - d /\ off <= readSize
  <2>1. off <= entrySize
    BY <1>1, <1>6
  <2>2. Smaller(off, Len(c)) = off
    BY <1>1, <1>9 DEF Smaller
  <2>3. Len(r) = off - d
    BY <1>1, <1>8, <2>2, Zenon
  <2>4. off <= readSize
    BY <1>1, <1>2, <2>1
  <2>5. QED
    BY <2>3, <2>4
<1>11. /\ L \in Seq(Nat) /\ Len(L) = d + Len(r)
       /\ \A i \in 1 .. d : L[i] = data[i]
       /\ \A i \in (d + 1) .. (d + Len(r)) : L[i] = r[i - d]
  BY <1>1, <1>8, ConcatFacts DEF d
<1> HIDE DEF L
<1>12. Len(L) = off
  BY <1>1, <1>10, <1>11
<1>13. ASSUME NEW i \in 1 .. off PROVE Base[i] = L[i]
  <2>1. CASE i <= d
    <3>1. i \in 1 .. d
      BY <1>1, <2>1
    <3>2. QED
      BY <1>2, <1>11, <3>1
  <2>2. CASE i > d
    <3>1. /\ i \in (d + 1) .. (d + Len(r)) /\ i - d \in 1 .. Len(r) /\ d + (i - d) = i
          /\ i \in (d + 1) .. readSize /\ i <= Len(c)
      BY <1>1, <1>9, <1>10, <2>2
    <3>2. L[i] = r[i - d] /\ r[i - d] = c[i]
      BY <1>8, <1>9, <1>11, <3>1
    <3>3. QED
      BY <1>3, <3>1, <3>2
  <2>3. QED
    BY <1>1, <2>1, <2>2
<1>14. QED
  BY <1>10, <1>11, <1>12, <1>13 DEF L, r, d, size

\* The stages of a release are those of a handle that is open, and in the last two its writer
\* is gone.
StageInv ==
    /\ \A h \in Handles : stage[h] # "open" => mode[h] # "closed"
    /\ \A h \in Handles : stage[h] \in {"drop", "clear"} => h \notin writers

HandleInv ==
    /\ \A g, h \in Handles : mode[g] # "closed" /\ mode[h] # "closed" => g = h
    /\ ClosedNotWriting
    /\ StageInv

\* A handle is open, and its release has not removed its writer.
Session == \E h \in Handles : mode[h] # "closed" /\ stage[h] \notin {"drop", "clear"}

FileInv ==
    /\ Session /\ fileLike => SizedInv
    /\ Session /\ ~fileLike => Base = data

OrderlyInv == CleanInv /\ HandleInv /\ FileInv /\ NoPanic

LEMMA StageStep ==
    ASSUME TypeOK, StageInv, Next
    PROVE  StageInv'
<1>0. /\ stage \in [Handles -> {"open", "flushed", "release", "drop", "clear"}]
      /\ mode \in [Handles -> {"closed", "r", "w", "rw"}]
  BY DEF TypeOK
<1> USE DEF StageInv
<1>1. CASE Attr \/ Expire
  BY <1>1 DEF Attr, Expire, fileVars
<1>2. ASSUME NEW h \in Handles, NEW m \in {"r", "w", "rw"}, Open(h, m) PROVE StageInv'
  BY <1>0, <1>2 DEF Open
<1>3. ASSUME NEW h \in Handles, NEW off \in Offsets, Read(h, off) PROVE StageInv'
  BY <1>3 DEF Read, fileVars
<1>4. ASSUME NEW h \in Handles, InUse(h, {"w", "rw"}), writers' = writers \union {h}, UNCHANGED <<mode, stage>>
      PROVE  StageInv'
  BY <1>4 DEF InUse
<1>5. ASSUME NEW h \in Handles, NEW off \in Offsets, WriteError(h, off) PROVE StageInv'
  BY <1>4, <1>5 DEF WriteError
<1>6. ASSUME NEW h \in Handles, NEW off \in Offsets, NEW b \in Bytes, WriteOK(h, off, b) PROVE StageInv'
  BY <1>4, <1>6 DEF WriteOK
<1>7. ASSUME NEW h \in Handles, NEW n \in Sizes, Setattr(h, n) PROVE StageInv'
  BY <1>4, <1>7 DEF Setattr
<1>8. ASSUME NEW h \in Handles, FlushNoop(h) \/ FlushPanic(h) \/ FlushOK(h) \/ FlushError(h)
      PROVE  writers' \subseteq writers
  BY <1>8 DEF FlushNoop, FlushPanic, FlushOK, FlushError, fileVars
<1>9. ASSUME NEW h \in Handles, Flush(h) PROVE StageInv'
  <2>1. writers' \subseteq writers /\ mode' = mode /\ mode[h] # "closed" /\ stage[h] = "open"
    BY <1>8, <1>9 DEF Flush, InUse
  <2>2. \A g \in Handles : stage'[g] = stage[g] \/ (g = h /\ stage'[g] = "flushed")
    BY <1>0, <1>9 DEF Flush
  <2>3. QED
    BY <2>1, <2>2
<1>10. ASSUME NEW h \in Handles, ReleaseFlush(h) PROVE StageInv'
  <2>1. writers' \subseteq writers /\ stage[h] = "flushed"
    BY <1>8, <1>10 DEF ReleaseFlush
  <2>2. \/ mode' = mode /\ stage' = [stage EXCEPT ![h] = "release"]
        \/ mode' = [mode EXCEPT ![h] = "closed"] /\ stage' = [stage EXCEPT ![h] = "open"]
    BY <1>10 DEF ReleaseFlush
  <2>3. QED
    BY <1>0, <2>1, <2>2
<1>11. ASSUME NEW h \in Handles, Release(h) PROVE StageInv'
  BY <1>0, <1>11 DEF Release, fileVars
<1>12. ASSUME NEW h \in Handles, ReleaseWriter(h) PROVE StageInv'
  <2>1. writers' = writers \ {h} /\ stage[h] = "release"
    BY <1>12 DEF ReleaseWriter
  <2>2. \/ mode' = mode /\ stage' = [stage EXCEPT ![h] = "drop"]
        \/ mode' = [mode EXCEPT ![h] = "closed"] /\ stage' = [stage EXCEPT ![h] = "open"]
    BY <1>12 DEF ReleaseWriter, Closed
  <2>3. QED
    BY <1>0, <2>1, <2>2
<1>13. ASSUME NEW h \in Handles, DropData(h) PROVE StageInv'
  BY <1>0, <1>13 DEF DropData
<1>14. ASSUME NEW h \in Handles, ClearCache(h) PROVE StageInv'
  BY <1>0, <1>14 DEF ClearCache, Closed, fileVars
<1>15. QED
  BY <1>1, <1>2, <1>3, <1>5, <1>6, <1>7, <1>9, <1>10, <1>11, <1>12, <1>13, <1>14 DEF Next

\* During a session no release is between its writer's removal and its end.
LEMMA SessionQuiet ==
    ASSUME HandleInv, Session
    PROVE  \A h \in Handles : stage[h] \notin {"drop", "clear"}
BY DEF HandleInv, StageInv, Session

\* A handle that is open for another use than its release makes a session.
LEMMA WriterSession ==
    ASSUME HandleInv, NEW h \in Handles, h \in writers
    PROVE  Session
BY DEF HandleInv, StageInv, ClosedNotWriting, Session

\* Nobody has written in this session yet.
LEMMA SessionIdle ==
    ASSUME CleanInv, HandleInv, \A h \in Handles : stage[h] \notin {"drop", "clear"}, writers = {}
    PROVE  /\ data = <<>> /\ cached \subseteq {remote}
           /\ fileLike => listed \subseteq {Len(remote)}
           /\ fileLike => Base = remote
           /\ ~fileLike => Base = <<>>
BY DEF CleanInv, BufferReleased, CachesFresh, Base

LEMMA SizedNext ==
    SizedInv' <=> Sized(data', readSize', entrySize', Base', cached' \union {remote'})
BY DEF SizedInv, Sized

LEMMA BaseNext ==
    Base' = IF writers' # {} THEN want' ELSE IF fileLike' THEN remote' ELSE <<>>
BY DEF Base

\* What may be read is what could be read before: a new read caches the content.
LEMMA SameContents ==
    ASSUME TypeOK, SizedInv, cached' \in {cached, {Content}, {}}, UNCHANGED remote
    PROVE  Sized(data, readSize, entrySize, Base, cached' \union {remote'})
<1>1. cached' \union {remote'} \in SUBSET (cached \union {remote})
  BY ContentFacts
<1>2. QED
  BY <1>1, SizedFewer DEF SizedInv

LEMMA SameBase ==
    ASSUME UNCHANGED <<fileLike, remote, writers, want>>
    PROVE  Base' = Base
BY BaseNext DEF Base

\* A step of another kind than writing: only the caches and the listing change.
LEMMA QuietStep ==
    ASSUME CleanInv, FileInv, Session,
           cached' \in {cached, {Content}, {}}, Base' = Base,
           UNCHANGED <<fileLike, remote, entrySize, data, readSize>>
    PROVE  (fileLike' => SizedInv') /\ (~fileLike' => Base' = data')
<1>1. Base' = Base
  OBVIOUS
<1>2. CASE fileLike
  <2>1. Sized(data, readSize, entrySize, Base, cached' \union {remote'})
    BY <1>2, SameContents DEF FileInv, CleanInv
  <2>2. SizedInv'
    BY <1>1, <2>1, SizedNext
  <2>3. QED
    BY <1>2, <2>2
<1>3. CASE ~fileLike
  BY <1>1, <1>3 DEF FileInv
<1>4. QED
  BY <1>2, <1>3

\* The entry was found again while nothing was being written.
LEMMA FreshStep ==
    ASSUME CleanInv, HandleInv, \A h \in Handles : stage[h] \notin {"drop", "clear"}, writers = {},
           fileLike, RefindUnlessWriting, readSize' = Len(remote), cached' = cached,
           UNCHANGED <<fileLike, remote, writers, data>>
    PROVE  SizedInv'
<1>1. /\ data = <<>> /\ cached \subseteq {remote} /\ listed \subseteq {Len(remote)}
      /\ remote \in Seq(Nat)
  BY SessionIdle DEF CleanInv, TypeOK
<1>2. entrySize' = Len(remote)
  BY <1>1, FreshRefind DEF useLocalContent
<1>3. Base' = remote
  BY BaseNext
<1>4. cached' \union {remote'} = {remote}
  BY <1>1
<1>5. Sized(<<>>, Len(remote), Len(remote), remote, {remote})
  BY <1>1, SizedFresh
<1>6. QED
  BY <1>1, <1>2, <1>3, <1>4, <1>5, SizedNext

LEMMA AttrStep ==
    ASSUME CleanInv, HandleInv, FileInv, Attr
    PROVE  FileInv'
<1>1. /\ UNCHANGED <<fileLike, remote, cached, writers, data, readSize, mode, stage, want>>
      /\ RefindUnlessWriting
  BY DEF Attr
<1>2. Session' => Session
  BY <1>1 DEF Session
<1> SUFFICES ASSUME Session PROVE (fileLike' => SizedInv') /\ (~fileLike' => Base' = data')
  BY <1>2 DEF FileInv
<1>3. CASE useLocalContent \/ ~fileLike
  <2>1. entrySize' = entrySize
    BY <1>1, <1>3 DEF RefindUnlessWriting
  <2>2. Base' = Base
    BY <1>1, SameBase
  <2>3. QED
    BY <1>1, <2>1, <2>2, QuietStep
<1>4. CASE ~useLocalContent /\ fileLike
  <2>1. writers = {}
    BY <1>4 DEF useLocalContent
  <2>2. \A h \in Handles : stage[h] \notin {"drop", "clear"}
    BY SessionQuiet
  <2>3. readSize = Len(remote)
    <3>1. Base = remote
      BY <1>4, <2>1, <2>2, SessionIdle
    <3>2. QED
      BY <1>4, <3>1 DEF FileInv, SizedInv, Sized
  <2>4. SizedInv'
    BY <1>1, <1>4, <2>1, <2>2, <2>3, FreshStep
  <2>5. QED
    BY <1>1, <1>4, <2>4
<1>5. QED
  BY <1>3, <1>4

\* Before a handle is opened all are closed, and nothing is being written.
LEMMA OpenStep ==
    ASSUME CleanInv, HandleInv, NEW h \in Handles, NEW m \in {"r", "w", "rw"}, Open(h, m), Orderly
    PROVE  FileInv'
<1>1. /\ UNCHANGED <<fileLike, remote, writers, data>> /\ RefindUnlessWriting
      /\ mode[h] = "closed" /\ mode' = [mode EXCEPT ![h] = m] /\ mode \in [Handles -> {"closed", "r", "w", "rw"}]
  BY DEF Open, CleanInv, TypeOK
<1>2. \A g \in Handles : mode[g] = "closed"
  BY <1>1 DEF Orderly
<1>3. writers = {} /\ \A g \in Handles : stage[g] \notin {"drop", "clear"}
  BY <1>2 DEF HandleInv, StageInv, ClosedNotWriting, CleanInv, TypeOK
<1>4. CASE fileLike
  <2>1. readSize' = entrySize' /\ cached' = cached
    BY <1>4 DEF Open
  <2>2. listed \subseteq {Len(remote)} /\ ~useLocalContent
    BY <1>3, <1>4, SessionIdle DEF useLocalContent
  <2>3. entrySize' = Len(remote)
    BY <1>1, <1>4, <2>2, FreshRefind
  <2>4. SizedInv'
    BY <1>1, <1>3, <1>4, <2>1, <2>3, FreshStep
  <2>5. QED
    BY <1>1, <1>4, <2>4 DEF FileInv
<1>5. CASE ~fileLike
  <2>1. data = <<>>
    BY <1>3, SessionIdle
  <2>2. Base' = <<>>
    BY <1>1, <1>3, <1>5, BaseNext
  <2>3. QED
    BY <1>1, <1>5, <2>1, <2>2 DEF FileInv
<1>6. QED
  BY <1>4, <1>5

LEMMA WriteStep ==
    ASSUME CleanInv, FileInv, Session, NEW h \in Handles, NEW off \in Nat, NEW b \in Nat,
           WriteOK(h, off, b)
    PROVE  (fileLike' => SizedInv') /\ (~fileLike' => Base' = data')
<1>1. /\ UNCHANGED <<fileLike, remote, entrySize>> /\ writers' # {}
      /\ want' = Overwritten(Base, off, b)
      /\ readSize' = (IF fileLike THEN Larger(readSize, off + 1) ELSE readSize)
      /\ cached' \in {cached, {Content}}
  BY DEF WriteOK
<1>2. Base' = Overwritten(Base, off, b)
  BY <1>1, BaseNext
<1>3. /\ data \in Seq(Nat) /\ readSize \in Nat /\ entrySize \in Nat /\ Base \in Seq(Nat)
      /\ cached \union {remote} \in SUBSET Seq(Nat) /\ TypeOK
  BY BaseType DEF CleanInv, TypeOK
<1>4. ASSUME ~NeedsLoad(off) PROVE data' = Overwritten(data, off, b)
  <2>1. data' = Overwritten(data \o <<>>, off, b)
    BY <1>4 DEF WriteOK
  <2>2. data \o <<>> = data
    BY <1>3
  <2>3. QED
    BY <2>1, <2>2
<1>5. CASE ~fileLike
  BY <1>1, <1>2, <1>4, <1>5 DEF FileInv, NeedsLoad
<1>6. CASE fileLike
  <2>0. SizedInv
    BY <1>6 DEF FileInv
  <2>1. PICK L \in Seq(Nat) : /\ data' = Overwritten(L, off, b)
                              /\ Len(data) <= Len(L) /\ Len(L) <= readSize /\ off <= Len(L)
                              /\ \A i \in 1 .. Len(L) : Base[i] = L[i]
    <3>1. CASE NeedsLoad(off)
      <4> DEFINE r == PluginRead(off - Len(data), Len(data)).data
      <4>1. data' = Overwritten(data \o r, off, b) /\ ~PluginRead(off - Len(data), Len(data)).eof
        BY <3>1 DEF WriteOK
      <4>2. /\ data \o r \in Seq(Nat) /\ Len(data \o r) = off /\ off <= readSize
            /\ \A i \in 1 .. off : Base[i] = (data \o r)[i]
        BY <1>3, <1>6, <2>0, <3>1, <4>1, LoadedFacts
      <4> HIDE DEF r
      <4>3. Len(data) <= off /\ off <= off
        BY <1>3, <3>1 DEF NeedsLoad
      <4>4. QED
        BY <4>1, <4>2, <4>3
    <3>2. CASE ~NeedsLoad(off)
      <4>1. off <= Len(data) /\ Len(data) <= Len(data) /\ Len(data) <= readSize
        BY <1>3, <1>6, <2>0, <3>2 DEF NeedsLoad, SizedInv, Sized
      <4>2. \A i \in 1 .. Len(data) : Base[i] = data[i]
        BY <2>0 DEF SizedInv, Sized
      <4>3. QED
        BY <1>3, <1>4, <3>2, <4>1, <4>2
    <3>3. QED
      BY <3>1, <3>2
  <2>2. Sized(data', readSize', entrySize, Base', cached \union {remote})
    BY <1>1, <1>2, <1>3, <1>6, <2>0, <2>1, SizedWrite DEF SizedInv
  <2>3. cached' \union {remote'} \in SUBSET (cached \union {remote})
    BY <1>1, <1>3, ContentFacts
  <2>4. Sized(data', readSize', entrySize', Base', cached' \union {remote'})
    BY <1>1, <2>2, <2>3, SizedFewer
  <2>5. QED
    BY <1>1, <1>6, <2>4, SizedNext
<1>7. QED
  BY <1>5, <1>6

LEMMA SetattrStep ==
    ASSUME CleanInv, FileInv, Session, NEW h \in Handles, NEW n \in Sizes, Setattr(h, n), Orderly
    PROVE  (fileLike' => SizedInv') /\ (~fileLike' => Base' = data')
<1>1. /\ UNCHANGED <<fileLike, remote, cached, entrySize>> /\ writers' # {}
      /\ want' = Resized(Base, n) /\ n \in Nat
  BY ContentAssumption DEF Setattr, pluginVars
<1>2. Base' = Resized(Base, n)
  BY <1>1, BaseNext
<1>3. CASE ~fileLike
  BY <1>1, <1>2, <1>3 DEF FileInv, Setattr
<1>4. CASE fileLike
  <2>1. readSize' = n /\ data' = data /\ n >= readSize
    BY <1>4 DEF Setattr, Orderly
  <2>2. /\ data \in Seq(Nat) /\ readSize \in Nat /\ entrySize \in Nat /\ Base \in Seq(Nat)
        /\ cached \union {remote} \in SUBSET Seq(Nat)
    BY BaseType DEF CleanInv, TypeOK
  <2>3. Sized(data, n, entrySize, Resized(Base, n), cached \union {remote})
    BY <1>1, <1>4, <2>1, <2>2, SizedResize DEF FileInv, SizedInv
  <2>4. QED
    BY <1>1, <1>2, <1>4, <2>1, <2>3, SizedNext
<1>5. QED
  BY <1>3, <1>4

\* A flush, as part of Flush or of Release, by one of the writers
LEMMA FlushStep ==
    ASSUME CleanInv, FileInv, Session, NEW h \in Handles,
           FlushNoop(h) \/ FlushOK(h) \/ FlushError(h)
    PROVE  /\ fileLike' => SizedInv'
           /\ ~fileLike' => (Base' = data' \/ (writers' # {} /\ h \notin writers'))
<1>1. CASE FlushNoop(h)
  <2>1. UNCHANGED <<fileLike, remote, cached, entrySize, writers, data, readSize, want>>
    BY <1>1 DEF FlushNoop, pluginVars, fileVars
  <2>2. QED
    BY <2>1, SameBase, QuietStep
<1>2. CASE (FlushOK(h) \/ FlushError(h)) /\ fileLike
  <2>1. SizedInv /\ Completed = Base
    BY <1>2, CompletedIsFile DEF FileInv, CleanInv
  <2>2. /\ data \in Seq(Nat) /\ readSize \in Nat /\ entrySize \in Nat /\ Base \in Seq(Nat)
        /\ cached \union {remote} \in SUBSET Seq(Nat)
    BY BaseType DEF CleanInv, TypeOK
  <2>3. /\ UNCHANGED <<fileLike, entrySize, readSize, writers, want>> /\ writers # {}
        /\ \/ data' = data /\ cached' = cached /\ remote' = remote
           \/ data' = Base /\ cached' = CachedAfterFlush /\ remote' \in {remote, Base}
    BY <1>2, <2>1 DEF FlushOK, FlushError
  <2>4. Base' = Base
    BY <2>3, BaseNext DEF Base
  <2>5. CASE data' = data /\ cached' = cached /\ remote' = remote
    <3>1. cached' \union {remote'} = cached \union {remote}
      BY <2>5
    <3>2. Sized(data', readSize', entrySize', Base', cached' \union {remote'})
      <4>1. Sized(data, readSize, entrySize, Base, cached \union {remote})
        BY <2>1 DEF SizedInv
      <4>2. /\ data' = data /\ readSize' = readSize /\ entrySize' = entrySize /\ Base' = Base
        BY <2>3, <2>4, <2>5
      <4>3. QED
        BY <3>1, <4>1, <4>2
    <3>3. QED
      BY <1>2, <2>3, <3>2, SizedNext
  <2>6. CASE data' = Base /\ cached' = CachedAfterFlush /\ remote' \in {remote, Base}
    <3>1. Sized(Base, readSize, entrySize, Base, (cached \union {remote}) \union {Base})
      BY <2>1, <2>2, SizedFlush DEF SizedInv
    <3>2. cached' \union {remote'} \in SUBSET ((cached \union {remote}) \union {Base})
      BY <2>6, ContentFacts DEF CachedAfterFlush, CleanInv
    <3>3. Sized(data', readSize', entrySize', Base', cached' \union {remote'})
      BY <2>3, <2>4, <2>6, <3>1, <3>2, SizedFewer
    <3>4. QED
      BY <1>2, <2>3, <3>3, SizedNext
  <2>7. QED
    BY <1>2, <2>3, <2>5, <2>6
<1>3. CASE FlushError(h) /\ ~fileLike
  <2>1. Completed = data
    BY <1>3 DEF Completed, NeedsRemainder
  <2>2. UNCHANGED <<fileLike, remote, writers, want, data>>
    BY <1>3, <2>1 DEF FlushError
  <2>3. QED
    BY <1>3, <2>2, SameBase DEF FileInv
<1>4. CASE FlushOK(h) /\ ~fileLike
  <2>1. /\ writers' = writers \ {h} /\ fileLike' = fileLike
        /\ writers' = {} => data' = <<>>
    BY <1>4 DEF FlushOK
  <2>2. writers' = {} => Base' = <<>>
    BY <1>4, <2>1, BaseNext
  <2>3. QED
    BY <1>4, <2>1, <2>2
<1>5. QED
  BY <1>1, <1>2, <1>3, <1>4

\* A step that ends the session, or happens between two.
LEMMA NoSession ==
    ASSUME HandleInv', NEW h \in Handles, mode'[h] # "closed", stage'[h] \in {"drop", "clear"}
    PROVE  ~Session'
BY DEF HandleInv, Session

LEMMA FileStep ==
    ASSUME CleanInv, HandleInv, FileInv, Next, Orderly
    PROVE  FileInv'
<1>0. /\ stage \in [Handles -> {"open", "flushed", "release", "drop", "clear"}]
      /\ mode \in [Handles -> {"closed", "r", "w", "rw"}] /\ TypeOK
  BY DEF CleanInv, TypeOK
<1>h. HandleInv'
  BY StageStep DEF HandleInv, CleanInv, Orderly
<1>1. CASE Attr
  BY <1>1, AttrStep
<1>2. ASSUME Session' => Session, UNCHANGED <<fileLike, remote, entrySize, writers, data, readSize, want>>,
             cached' \in {cached, {Content}, {}}
      PROVE  FileInv'
  BY <1>2, SameBase, QuietStep DEF FileInv
<1>3. CASE Expire
  <2>1. UNCHANGED <<mode, stage>>
    BY <1>3 DEF Expire
  <2>2. Session' => Session
    BY <2>1 DEF Session
  <2>3. QED
    BY <1>2, <1>3, <2>2 DEF Expire, fileVars
<1>4. ASSUME NEW h \in Handles, NEW m \in {"r", "w", "rw"}, Open(h, m) PROVE FileInv'
  BY <1>4, OpenStep
<1>5. ASSUME NEW h \in Handles, NEW off \in Offsets, Read(h, off) PROVE FileInv'
  <2>1. UNCHANGED <<mode, stage>>
    BY <1>5 DEF Read
  <2>2. Session' => Session
    BY <2>1 DEF Session
  <2>3. QED
    BY <1>2, <1>5, <2>2 DEF Read, fileVars
<1>6. ASSUME NEW h \in Handles, InUse(h, {"w", "rw"}) PROVE Session
  BY <1>0, <1>6 DEF InUse, Session
<1>7. ASSUME NEW h \in Handles, NEW off \in Offsets, WriteError(h, off) PROVE FileInv'
  <2>1. Session
    BY <1>6, <1>7 DEF WriteError
  <2>2. /\ UNCHANGED <<fileLike, remote, entrySize, data, readSize>> /\ want' = Base /\ writers' # {}
        /\ cached' \in {cached, {Content}, {}}
    BY <1>7 DEF WriteError
  <2>3. Base' = Base
    BY <2>2, BaseNext
  <2>4. QED
    BY <2>1, <2>2, <2>3, QuietStep DEF FileInv
<1>8. ASSUME NEW h \in Handles, NEW off \in Offsets, NEW b \in Bytes, WriteOK(h, off, b) PROVE FileInv'
  <2>1. Session
    BY <1>6, <1>8 DEF WriteOK
  <2>2. off \in Nat /\ b \in Nat
    BY ContentAssumption
  <2>3. QED
    BY <1>8, <2>1, <2>2, WriteStep DEF FileInv
<1>9. ASSUME NEW h \in Handles, NEW n \in Sizes, Setattr(h, n) PROVE FileInv'
  <2>1. Session
    BY <1>6, <1>9 DEF Setattr
  <2>2. QED
    BY <1>9, <2>1, SetattrStep DEF FileInv
<1>10. ASSUME NEW h \in Handles, Flush(h) \/ ReleaseFlush(h) PROVE FileInv'
  <2>1. Session /\ mode[h] # "closed"
    BY <1>0, <1>10 DEF Flush, ReleaseFlush, InUse, Session, HandleInv, StageInv
  <2>2. ~FlushPanic(h)
    <3> SUFFICES ASSUME fileLike PROVE ~(Len(data) > readSize)
      BY DEF FlushPanic, Oversized
    <3>1. Len(data) <= readSize /\ Len(data) \in Nat /\ readSize \in Nat
      BY <1>0, <2>1 DEF FileInv, SizedInv, Sized, TypeOK
    <3>2. QED
      BY <3>1
  <2>3. FlushNoop(h) \/ FlushOK(h) \/ FlushError(h)
    BY <1>10, <2>2 DEF Flush, ReleaseFlush
  <2>4. writers' \subseteq writers
    BY <2>3 DEF FlushNoop, FlushOK, FlushError, fileVars
  <2>5. \A g \in writers : g = h
    BY <1>0, <2>1 DEF HandleInv, ClosedNotWriting, TypeOK
  <2>6. ~(writers' # {} /\ h \notin writers')
    BY <2>4, <2>5
  <2>7. (fileLike' => SizedInv') /\ (~fileLike' => Base' = data')
    BY <2>1, <2>3, <2>6, FlushStep
  <2>8. QED
    BY <2>7 DEF FileInv
<1>11. ASSUME NEW h \in Handles, Release(h) PROVE FileInv'
  <2>1. Session
    BY <1>11 DEF Release, Session, HandleInv, StageInv
  <2>2. QED
    BY <1>2, <1>11, <2>1 DEF Release, pluginVars, fileVars
<1>12. ASSUME NEW h \in Handles, Closed(h), stage[h] # "open" PROVE ~Session'
  <2>1. mode[h] # "closed" /\ \A g \in Handles : g # h => mode[g] = "closed"
    BY <1>12 DEF HandleInv, StageInv
  <2>2. \A g \in Handles : mode'[g] = "closed"
    BY <1>0, <1>12, <2>1 DEF Closed
  <2>3. QED
    BY <2>2 DEF Session
<1>13. ASSUME NEW h \in Handles, ReleaseWriter(h) PROVE FileInv'
  <2>1. CASE h \in writers /\ writers' = {}
    <3>1. stage'[h] = "drop" /\ mode'[h] # "closed"
      BY <1>0, <1>13, <2>1 DEF ReleaseWriter, HandleInv, StageInv
    <3>2. QED
      BY <1>h, <3>1, NoSession DEF FileInv
  <2>2. CASE ~(h \in writers /\ writers' = {})
    BY <1>12, <1>13, <2>2 DEF ReleaseWriter, FileInv
  <2>3. QED
    BY <2>1, <2>2
<1>14. ASSUME NEW h \in Handles, DropData(h) PROVE FileInv'
  <2>1. stage'[h] = "clear" /\ mode'[h] # "closed"
    BY <1>0, <1>14 DEF DropData, HandleInv, StageInv
  <2>2. QED
    BY <1>h, <2>1, NoSession DEF FileInv
<1>15. ASSUME NEW h \in Handles, ClearCache(h) PROVE FileInv'
  BY <1>12, <1>15 DEF ClearCache, FileInv
<1>16. QED
  BY <1>1, <1>3, <1>4, <1>5, <1>7, <1>8, <1>9, <1>10, <1>11, <1>13, <1>14, <1>15 DEF Next

\* The assertion in Flush holds: the buffer of a writer is not larger than the file.
LEMMA NotOversized ==
    ASSUME CleanInv, HandleInv, FileInv, NEW h \in Handles, h \in writers
    PROVE  ~Oversized
<1> SUFFICES ASSUME fileLike PROVE ~(Len(data) > readSize)
  BY DEF Oversized
<1>1. Session
  BY WriterSession
<1>2. Len(data) <= readSize /\ Len(data) \in Nat /\ readSize \in Nat
  BY <1>1 DEF FileInv, SizedInv, Sized, CleanInv, TypeOK
<1>3. QED
  BY <1>2

LEMMA OrderlyInit == Init => OrderlyInv
<1> SUFFICES ASSUME Init PROVE OrderlyInv
  OBVIOUS
<1>1. CleanInv
  BY CleanInit
<1>2. HandleInv
  BY DEF Init, HandleInv, StageInv, ClosedNotWriting
<1>3. ~Session
  BY DEF Init, Session
<1>4. QED
  BY <1>1, <1>2, <1>3 DEF Init, OrderlyInv, FileInv, NoPanic

LEMMA OrderlyStep == OrderlyInv /\ [Next /\ Orderly]_vars => OrderlyInv'
<1> SUFFICES ASSUME OrderlyInv, [Next /\ Orderly]_vars PROVE OrderlyInv'
  OBVIOUS
<1>0. CleanInv'
  BY CleanStep DEF OrderlyInv
<1>1. CASE Next /\ Orderly
  <2>1. HandleInv'
    BY <1>1, StageStep DEF OrderlyInv, HandleInv, CleanInv, Orderly
  <2>2. FileInv'
    BY <1>1, FileStep DEF OrderlyInv
  <2>3. NoPanic'
    <3>1. \A h \in Handles : ~FlushPanic(h)
      BY NotOversized DEF OrderlyInv, FlushPanic
    <3>2. panicked' = panicked
      BY <1>1, <3>1 DEF Next, Attr, Expire, Open, Read, WriteError, WriteOK, Setattr, Flush, Release,
         ReleaseFlush, ReleaseWriter, DropData, ClearCache, FlushNoop, FlushOK, FlushError
    <3>3. QED
      BY <3>2 DEF OrderlyInv, NoPanic
  <2>4. QED
    BY <1>0, <2>1, <2>2, <2>3 DEF OrderlyInv
<1>2. CASE UNCHANGED vars
  <2>1. UNCHANGED <<fileLike, remote, sent, cached, listed, entrySize, writers, data, readSize, mode,
                    stage, want, panicked>>
    BY <1>2 DEF vars, pluginVars, fileVars
  <2>2. HandleInv' /\ NoPanic' /\ (Session' => Session)
    BY <2>1 DEF OrderlyInv, HandleInv, StageInv, ClosedNotWriting, NoPanic, Session
  <2>3. FileInv'
    BY <2>1, <2>2, SameBase, QuietStep DEF OrderlyInv, FileInv
  <2>4. QED
    BY <1>0, <2>2, <2>3 DEF OrderlyInv
<1>3. QED
  BY <1>1, <1>2

LEMMA OrderlyAlways == OrderlySpec => []OrderlyInv
BY OrderlyInit, OrderlyStep, PTL DEF OrderlySpec

\* What any flush of a writer would send is the file.
LEMMA SendsFile ==
    ASSUME OrderlyInv, NEW h \in Handles, h \in writers
    PROVE  Completed = want
<1>1. Session /\ Base = want
  BY WriterSession DEF OrderlyInv, Base
<1>2. CASE fileLike
  BY <1>1, <1>2, CompletedIsFile DEF OrderlyInv, CleanInv, FileInv
<1>3. CASE ~fileLike
  BY <1>1, <1>3 DEF OrderlyInv, FileInv, Completed, NeedsRemainder
<1>4. QED
  BY <1>2, <1>3

\* file.go:305-306: the assertion in Flush holds when handles take turns, for a file of any
\* content, written at any offsets and grown to any sizes, whatever calls to the plugin fail.
THEOREM NoPanicCorrect == OrderlySpec => []NoPanic
<1>1. OrderlyInv => NoPanic
  BY DEF OrderlyInv
<1>2. QED
  BY <1>1, OrderlyAlways, PTL

\* file.go:300-330: then a flush that succeeds has sent the file as the writes and resizes left
\* it, with what was not written loaded from the entry.
THEOREM FlushCompleteCorrect == OrderlySpec => FlushComplete
<1>1. OrderlyInv /\ [Next /\ Orderly]_vars => [FlushSendsFile]_vars
  <2> SUFFICES ASSUME OrderlyInv, NEW h \in Handles, FlushOK(h) PROVE sent' = want
    BY DEF FlushSendsFile
  <2>1. QED
    BY SendsFile DEF FlushOK
<1>2. QED
  BY <1>1, OrderlyAlways, PTL DEF OrderlySpec, FlushComplete

\* file.go:310: and what it has loaded is the entry's content at those offsets.
THEOREM FillsFromEntryCorrect == OrderlySpec => FillsFromEntry
<1>1. OrderlyInv /\ [Next /\ Orderly]_vars => [FlushFillsIn]_vars
  <2> SUFFICES ASSUME OrderlyInv, NEW h \in Handles, FlushOK(h),
                      NEW i \in (Len(data) + 1) .. Smaller(Len(remote), Len(sent'))
               PROVE  sent'[i] = remote[i]
    BY DEF FlushFillsIn
  <2>0. TypeOK /\ Len(data) \in Nat /\ Len(remote) \in Nat /\ readSize \in Nat
    BY DEF OrderlyInv, CleanInv, TypeOK
  <2>1. sent' = Completed /\ Session
    BY WriterSession DEF FlushOK, OrderlyInv
  <2>2. CASE fileLike
    <3>1. SizedInv /\ sent' = Base
      BY <2>0, <2>1, <2>2, CompletedIsFile DEF OrderlyInv, FileInv
    <3>2. /\ Len(sent') = readSize
          /\ \A j \in (Len(data) + 1) .. readSize : Base[j] = IF j <= Len(remote) THEN remote[j] ELSE 0
      BY <3>1 DEF SizedInv, Sized
    <3>3. i \in (Len(data) + 1) .. readSize /\ i <= Len(remote)
      BY <2>0, <3>2 DEF Smaller
    <3>4. QED
      BY <3>1, <3>2, <3>3
  <2>3. CASE ~fileLike
    <3>1. sent' = data
      BY <2>1, <2>3 DEF Completed, NeedsRemainder
    <3>2. FALSE
      BY <2>0, <3>1 DEF Smaller
    <3>3. QED
      BY <3>2
  <2>4. QED
    BY <2>2, <2>3
<1>2. QED
  BY <1>1, OrderlyAlways, PTL DEF OrderlySpec, FillsFromEntry
=============================================================================

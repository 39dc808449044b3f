--------------------------- MODULE CollectorProofs ---------------------------
(***************************************************************************)
(* Proofs about Collector: the status table and its budget, the templates  *)
(* and their file through restarts and crashes, the verdicts on sequence   *)
(* numbers and the sampling rates, for all exporters, datagrams, sizes of  *)
(* the table, wraps of the sequence number and numbers of mishaps.         *)
(***************************************************************************)
EXTENDS Collector, TableFacts

Keys == Exporters \X Nat
Lines == {<< >>} \cup (Keys \X Bodies)

(***************************************************************************)
(* The invariant: types; the file against the cache and what the collector *)
(* was told last; lengths in the cache; the budget of the status table;    *)
(* the rates in it; the number expected of each exporter.                  *)
(***************************************************************************)
FileOK(f) ==
  /\ f \in [lines : Seq(Lines), torn : BOOLEAN]
  /\ f.torn => f.lines # << >> /\ Last(f.lines) = << >>

EntryOK(e) ==
  /\ e \in [body : Bodies, len : Nat]
  /\ Static(e.body) => e.len = Entry(e.body).len
CacheOK(c) == DOMAIN c \subseteq Keys /\ \A k \in DOMAIN c : EntryOK(c[k])

\* a line is of a template in the cache, and of its last version
LineOK(l, c, g) ==
  /\ l # << >> /\ l[1] \in DOMAIN c
  /\ l[1] \notin g.retyped => l[2] = g.latest[l[1]]

FileIsCache(c, f, g) ==
  /\ f.torn => g.garbled
  /\ ~g.garbled =>
       /\ \A i \in DOMAIN f.lines : LineOK(f.lines[i], c, g)
       /\ \A i, j \in DOMAIN f.lines :
            f.lines[i][1] = f.lines[j][1] => i = j
       /\ \A k \in DOMAIN c \ g.retyped :
            k \in DOMAIN g.latest /\ c[k].body = g.latest[k]

\* lengths that let any record of the template through
Fits(e) == ~Static(e.body) => e.len \in {0, 1}
Lengths(c, g) == ~g.lost /\ \A k \in DOMAIN c \ g.padded : Fits(c[k])

Sampler == [id : Nat, rate : Rates \cup {1}]
StatusEntry ==
  [seqno : 0 .. SeqWrap - 1, inc : Nat, good : Nat, jumps_f : Nat,
    jumps_b : Nat,
   sampling : Seq(Sampler)]
Charges(tab) == [id \in DOMAIN tab |-> 1 + Len(tab[id].sampling)]
Charge(tab) == SumFunctionOnSet(Charges(tab), DOMAIN tab)
StatusOK(s) ==
  /\ DOMAIN s = {"tab", "used"} /\ IsFiniteSet(DOMAIN s.tab)
  /\ \A id \in DOMAIN s.tab : s.tab[id] \in StatusEntry
  /\ s.used = Charge(s.tab)
  /\ s.used <= XFLOW_STATUS_TABLE_MAX_ENTRIES

\* the samplers of an entry are those announced for it, with their last rates
SamplersOK(smps, id, g) ==
  /\ \A i \in DOMAIN smps : /\ <<id, smps[i].id>> \in DOMAIN g.told
                            /\ smps[i].rate = g.told[<<id, smps[i].id>>]
  /\ \A i, j \in DOMAIN smps : smps[i].id = smps[j].id => i = j
RatesOK(s, g) ==
  /\ \A id \in DOMAIN s.tab : SamplersOK(s.tab[id].sampling, id, g)
  /\ \A id, smp : <<id, smp>> \in DOMAIN g.told \ g.refused =>
       /\ Has(s, id)
       /\ \E i \in DOMAIN s.tab[id].sampling : s.tab[id].sampling[i].id = smp

\* the number expected of an exporter is the one after its last datagram
Follows(s, x, g) ==
  Has(s, Own(x)) /\ g.whole[x] /\ s.tab[Own(x)].seqno # 0 =>
    Expected(s.tab[Own(x)]) = g.next[x] % SeqWrap

HistoryOK(g) ==
  /\ DOMAIN g = {"latest", "retyped", "garbled", "padded", "next", "whole",
                 "lost", "misjudged", "told", "refused"}
  /\ g.garbled \in BOOLEAN /\ g.lost \in BOOLEAN /\ g.misjudged \in BOOLEAN
  /\ g.next \in [Exporters -> Nat] /\ g.whole \in [Exporters -> BOOLEAN]

\* what holds after every set of a datagram
TablesOK(c, f, s, g) ==
  /\ HistoryOK(g) /\ FileOK(f) /\ CacheOK(c) /\ StatusOK(s)
  /\ FileIsCache(c, f, g) /\ Lengths(c, g) /\ RatesOK(s, g) /\ ~g.misjudged

DatagramOK(x, d) == d.real \in Nat /\ d.sets \in Seq(FlowSetType)
HeldOK ==
  \A x \in Exporters : held[x] # << >> => DatagramOK(x, held[x][1])

CollectorInv ==
  /\ TablesOK(cache, file, status, h)
  /\ \A x \in Exporters : Follows(status, x, h)
  /\ real \in [Exporters -> Nat] /\ DOMAIN held = Exporters /\ HeldOK

-----------------------------------------------------------------------------
(***************************************************************************)
(* The cache and the file                                                  *)
(***************************************************************************)
\* An entry made for a template, or over an old version of it, has its body and a
\* length that lets its records through.
LEMMA EntryIs ==
  ASSUME NEW b \in Bodies
  PROVE  EntryOK(Entry(b)) /\ Entry(b).body = b /\ Fits(Entry(b))
PROOF
  <1>1. Entry(b).len \in Nat /\ Entry(b).body = b
    <2>1. b.fix \in Nat /\ b.ext \in Nat
      BY DEF Bodies
    <2>2. Swapped(b.ext) \in Nat
      BY <2>1 DEF Swapped
    <2> QED
      BY <2>1, <2>2 DEF Entry, DataEntry, OptionsEntry
  <1>2. Entry(b) \in [body : Bodies, len : Nat]
    BY <1>1 DEF Entry, DataEntry, OptionsEntry
  <1>3. ~Static(b) => Entry(b).len = 0
    BY DEF Static, Entry, DataEntry, Bodies
  <1> QED
    BY <1>1, <1>2, <1>3 DEF EntryOK, Fits

\* A template whose length is right has the length of its records.
LEMMA CountedLength ==
  ASSUME NEW b \in Bodies, Static(b), Counted(b), NEW v \in Nat
  PROVE  RecordLen(b, v) = Entry(b).len
PROOF
  <1>1. /\ b.fix \in Nat /\ b.ext \in Nat /\ b.fix + b.ext < 65536
        /\ b.type \in {0, 1} /\ b.vlen \in BOOLEAN
    BY DEF Bodies
  <1>2. ~b.vlen /\ RecordLen(b, v) = b.fix + b.ext
    BY <1>1 DEF Static, Counted, RecordLen
  <1>3. CASE b.type = 1
    <2>1. Entry(b).len = (b.fix + b.ext + 0) % 65536
      BY <1>2, <1>3 DEF Counted, Entry, OptionsEntry
    <2> QED
      BY <1>1, <1>2, <2>1
  <1>4. CASE b.type # 1
    BY <1>2, <1>4 DEF Entry, DataEntry
  <1> QED
    BY <1>3, <1>4

\* The file after save_template(), whether or not the line was written whole.
LEMMA SavedIs ==
  ASSUME NEW f, FileOK(f), NEW k \in Keys, NEW b \in Bodies, NEW cut \in BOOLEAN
  PROVE  /\ FileOK(Saved(f, k, b, cut)) /\ Saved(f, k, b, cut).torn = cut
         /\ ~f.torn /\ ~cut
            => Saved(f, k, b, cut).lines = Append(f.lines, <<k, b>>)
PROOF
  <1> DEFINE line == IF cut THEN << >> ELSE <<k, b>>
  <1>1. line \in Lines /\ << >> \in Lines
    BY DEF Lines
  <1>2. f.lines \in Seq(Lines) /\ f.torn \in BOOLEAN
    BY DEF FileOK
  <1>3. CASE f.torn
    <2> DEFINE s == [f.lines EXCEPT ![Len(f.lines)] = << >>]
    <2>1. f.lines # << >> /\ Len(f.lines) \in 1 .. Len(f.lines)
      BY <1>2, <1>3, EmptySeq, LenProperties DEF FileOK
    <2>2. s \in Seq(Lines) /\ Len(s) = Len(f.lines) /\ s[Len(f.lines)] = << >>
      BY <1>1, <1>2, <2>1, ExceptSeq
    <2>3. s # << >> /\ Last(s) = << >>
      BY <2>1, <2>2, EmptySeq DEF Last
    <2> QED
      BY <1>3, <2>2, <2>3 DEF Saved, FileOK
  <1>4. CASE ~f.torn
    <2> DEFINE s == Append(f.lines, line)
    <2>1. /\ s \in Seq(Lines) /\ Len(s) = Len(f.lines) + 1 /\ s[Len(s)] = line
          /\ Len(f.lines) \in Nat /\ Len(<< >>) = 0
      BY <1>1, <1>2, AppendProperties, LenProperties, EmptySeq
    <2> HIDE DEF s, line
    <2>2. s # << >> /\ Last(s) = line
      BY <2>1 DEF Last
    <2> QED
      BY <1>4, <2>1, <2>2 DEF Saved, FileOK, s, line
  <1> QED
    BY <1>2, <1>3, <1>4

\* The file after delete_line_from_file(): the others, in their order.
LEMMA WithoutLineIs ==
  ASSUME NEW f, FileOK(f), NEW n \in 1 .. Len(f.lines)
  PROVE  LET u == WithoutLine(f, n)
         IN /\ FileOK(u) /\ (u.torn => f.torn)
            /\ Len(u.lines) = Len(f.lines) - 1
            /\ \A i \in 1 .. Len(u.lines) :
                 u.lines[i] = f.lines[IF i < n THEN i ELSE i + 1]
PROOF
  <1> DEFINE s == f.lines
             a == SubSeq(s, 1, n - 1)
             z == SubSeq(s, n + 1, Len(s))
             u == RemoveAt(s, n)
  <1>1. s \in Seq(Lines) /\ f.torn \in BOOLEAN /\ Len(s) \in Nat /\ n \in Nat
    BY LenProperties DEF FileOK
  <1>2. /\ a \in Seq(Lines) /\ Len(a) = n - 1
        /\ \A i \in 1 .. n - 1 : a[i] = s[i]
    BY <1>1, SubSeqProperties
  <1>3. /\ z \in Seq(Lines) /\ Len(z) = Len(s) - n
        /\ \A i \in 1 .. Len(s) - n : z[i] = s[n + i]
    BY <1>1, SubSeqProperties
  <1>4. /\ u \in Seq(Lines) /\ Len(u) = Len(s) - 1
        /\ \A i \in 1 .. Len(u) : u[i] = s[IF i < n THEN i ELSE i + 1]
    <2>1. u = a \o z
      BY DEF RemoveAt
    <2> HIDE DEF a, z, u, s
    <2>2. /\ u \in Seq(Lines) /\ Len(u) = Len(a) + Len(z)
          /\ \A i \in 1 .. Len(a) + Len(z) :
               u[i] = IF i <= Len(a) THEN a[i] ELSE z[i - Len(a)]
      BY <1>2, <1>3, <2>1, ConcatProperties
    <2>3. Len(u) = Len(s) - 1
      BY <1>1, <1>2, <1>3, <2>2
    <2>4. ASSUME NEW i \in 1 .. Len(u)
          PROVE  u[i] = s[IF i < n THEN i ELSE i + 1]
      <3>1. CASE i < n
        <4>1. i \in 1 .. n - 1 /\ i \in 1 .. Len(a) + Len(z) /\ i <= Len(a)
          BY <1>1, <1>2, <2>2, <3>1
        <4>2. u[i] = a[i]
          BY <2>2, <4>1
        <4> QED
          BY <1>2, <3>1, <4>1, <4>2
      <3>2. CASE ~(i < n)
        <4>1. i - Len(a) \in 1 .. Len(s) - n /\ n + (i - Len(a)) = i + 1
          BY <1>1, <1>2, <2>3, <3>2
        <4>2. i \in 1 .. Len(a) + Len(z) /\ ~(i <= Len(a))
          BY <1>1, <1>2, <2>2, <3>2
        <4>3. u[i] = z[i - Len(a)]
          BY <2>2, <4>2
        <4> QED
          BY <1>3, <3>2, <4>1, <4>3
      <3> QED
        BY <3>1, <3>2
    <2> QED
      BY <2>2, <2>3, <2>4
  <1>5. f.torn /\ n # Len(s) => u # << >> /\ Last(u) = << >>
    <2> SUFFICES ASSUME f.torn, n # Len(s) PROVE u # << >> /\ Last(u) = << >>
      OBVIOUS
    <2>1. s[Len(s)] = << >>
      BY DEF FileOK, Last
    <2>2. Len(u) \in 1 .. Len(u) /\ ~(Len(u) < n) /\ Len(u) + 1 = Len(s)
      BY <1>1, <1>4
    <2>3. u[Len(u)] = << >>
      BY <1>4, <2>1, <2>2
    <2> QED
      BY <1>4, <2>2, <2>3, EmptySeq DEF Last
  <1> QED
    BY <1>1, <1>4, <1>5 DEF WithoutLine, FileOK

\* The line update_template_in_file() deletes: one that is there; the one it has
\* found, if every line before it can be parsed.
LEMMA ShortenedIs ==
  ASSUME NEW f, FileOK(f), NEW k, NEW b, Known(f, k, b)
  PROVE  /\ FileOK(Shortened(f, k, b))
         /\ Shortened(f, k, b).torn => f.torn
         /\ (\A i \in DOMAIN f.lines : f.lines[i] # << >>) =>
              \E m \in DOMAIN f.lines :
                /\ f.lines[m][1] = k /\ Shortened(f, k, b) = WithoutLine(f, m)
PROOF
  <1> DEFINE T == LinesOf(f, k, b)
             m == Min(T)
             P == {j \in 1 .. m : f.lines[j] # << >>}
  <1>1. f.lines \in Seq(Lines) /\ Len(f.lines) \in Nat
        /\ DOMAIN f.lines = 1 .. Len(f.lines)
    BY LenProperties DEF FileOK
  <1>2. T \subseteq 1 .. Len(f.lines) /\ T # {} /\ T \subseteq Nat
    BY <1>1 DEF LinesOf, Known
  <1>3. m \in T /\ m \in 1 .. Len(f.lines)
    BY <1>2, MinOf
  <1>4. f.lines[m] # << >> /\ f.lines[m][1] = k
    <2> HIDE DEF m
    <2> QED
      BY <1>3, Zenon DEF LinesOf
  <1>5. /\ IsFiniteSet(1 .. m) /\ Cardinality(1 .. m) = m
    BY <1>3, FS_Interval
  <1>6. Cardinality(P) \in 1 .. m
    <2>1. P \subseteq 1 .. m /\ m \in P
      BY <1>3, <1>4
    <2>2. IsFiniteSet(P) /\ Cardinality(P) \in Nat /\ Cardinality(P) <= m
      BY <1>5, <2>1, FS_Subset, FS_CardinalityType
    <2>3. Cardinality(P) # 0
      BY <2>1, <2>2, FS_EmptySet
    <2> QED
      BY <1>3, <2>2, <2>3
  <1>7. LineNumber(f, m) = Cardinality(P)
    BY DEF LineNumber
  <1>8. Shortened(f, k, b) = WithoutLine(f, Cardinality(P))
    BY <1>7 DEF Shortened
  <1>9. Cardinality(P) \in 1 .. Len(f.lines)
    BY <1>1, <1>3, <1>6
  <1>10. (\A i \in DOMAIN f.lines : f.lines[i] # << >>) => P = 1 .. m
    BY <1>1, <1>3
  <1>11. (\A i \in DOMAIN f.lines : f.lines[i] # << >>) =>
           \E j \in DOMAIN f.lines :
                /\ f.lines[j][1] = k /\ Shortened(f, k, b) = WithoutLine(f, j)
    BY <1>1, <1>3, <1>4, <1>5, <1>8, <1>10
  <1>12. /\ FileOK(WithoutLine(f, Cardinality(P)))
         /\ WithoutLine(f, Cardinality(P)).torn => f.torn
    BY <1>9, WithoutLineIs
  <1> QED
    BY <1>8, <1>11, <1>12

\* The template the collector had under a key, if any, as Noted() compares it.
OldType(c, k) == IF k \in DOMAIN c THEN c[k].body.type ELSE 0
NotedFor(g, c, f, k, b) == Noted(g, k, b, k \in DOMAIN c, OldType(c, k), f)

\* What Noted() remembers.
LEMMA NotedIs ==
  ASSUME NEW g, HistoryOK(g), NEW c, NEW u, u.torn \in BOOLEAN, NEW k, NEW b
  PROVE  LET g2 == NotedFor(g, c, u, k, b)
         IN /\ HistoryOK(g2)
            /\ g2.latest = With(g.latest, k, b)
            /\ (g2.garbled <=> g.garbled \/ u.torn)
               /\ g2.padded = g.padded \ {k}
            /\ g2.retyped = (IF k \in DOMAIN c /\ OldType(c, k) # b.type
                             THEN g.retyped \cup {k} ELSE g.retyped)
            /\ g2.next = g.next /\ g2.whole = g.whole /\ g2.lost = g.lost
            /\ g2.misjudged = g.misjudged /\ g2.told = g.told
            /\ g2.refused = g.refused
PROOF
  BY DEF NotedFor, Noted, HistoryOK

\* A new version in the cache and lines that are either those of other templates, or
\* of one that changed type, or its own.
LEMMA NewVersion ==
  ASSUME NEW c, CacheOK(c), NEW f, FileOK(f), NEW g, HistoryOK(g),
         FileIsCache(c, f, g), NEW k \in Keys, NEW b \in Bodies, NEW u,
         FileOK(u),
         u.torn => f.torn \/ NotedFor(g, c, u, k, b).garbled,
         ~NotedFor(g, c, u, k, b).garbled =>
           /\ \A i \in DOMAIN u.lines :
                \/ u.lines[i] = <<k, b>>
                \/ \E j \in DOMAIN f.lines :
                     /\ u.lines[i] = f.lines[j]
                     /\ f.lines[j][1] # k
                        \/ k \in NotedFor(g, c, u, k, b).retyped
           /\ \A i, j \in DOMAIN u.lines :
                u.lines[i][1] = u.lines[j][1] => i = j
  PROVE  FileIsCache(With(c, k, Entry(b)), u, NotedFor(g, c, u, k, b))
PROOF
  <1> DEFINE g2 == NotedFor(g, c, u, k, b)
             c2 == With(c, k, Entry(b))
  <1>1. /\ g2.latest = With(g.latest, k, b)
        /\ (g2.garbled <=> g.garbled \/ u.torn)
        /\ g.retyped \subseteq g2.retyped
        /\ g.garbled \in BOOLEAN /\ u.torn \in BOOLEAN
    <2>1. g.garbled \in BOOLEAN /\ u.torn \in BOOLEAN
      BY DEF FileOK, HistoryOK
    <2>2. /\ g2.latest = With(g.latest, k, b)
          /\ (g2.garbled <=> g.garbled \/ u.torn)
          /\ g2.retyped = (IF k \in DOMAIN c /\ OldType(c, k) # b.type
                           THEN g.retyped \cup {k} ELSE g.retyped)
      BY <2>1 DEF NotedFor, Noted, HistoryOK
    <2>3. g.retyped \subseteq g2.retyped
      BY <2>2
    <2> QED
      BY <2>1, <2>2, <2>3
  <1>2. /\ DOMAIN c2 = DOMAIN c \cup {k} /\ c2[k].body = b
        /\ \A l \in DOMAIN c : l # k => c2[l] = c[l]
        /\ DOMAIN g2.latest = DOMAIN g.latest \cup {k} /\ g2.latest[k] = b
        /\ \A l \in DOMAIN g.latest : l # k => g2.latest[l] = g.latest[l]
    <2>1. /\ DOMAIN c2 = DOMAIN c \cup {k} /\ c2[k] = Entry(b)
          /\ \A l \in DOMAIN c : l # k => c2[l] = c[l]
      BY DEF With
    <2>2. Entry(b).body = b
      BY EntryIs
    <2>3. /\ DOMAIN g2.latest = DOMAIN g.latest \cup {k} /\ g2.latest[k] = b
          /\ \A l \in DOMAIN g.latest : l # k => g2.latest[l] = g.latest[l]
      <3> HIDE DEF g2
      <3> QED
        BY <1>1 DEF With
    <2> QED
      BY <2>1, <2>2, <2>3
  <1> HIDE DEF g2, c2
  <1>3. SUFFICES ASSUME ~g2.garbled
                 PROVE  /\ \A i \in DOMAIN u.lines : LineOK(u.lines[i], c2, g2)
                        /\ \A l \in DOMAIN c2 \ g2.retyped :
                             l \in DOMAIN g2.latest /\ c2[l].body = g2.latest[l]
    BY <1>1 DEF FileIsCache, g2, c2
  <1>4. /\ \A i \in DOMAIN f.lines : LineOK(f.lines[i], c, g)
        /\ \A l \in DOMAIN c \ g.retyped :
             l \in DOMAIN g.latest /\ c[l].body = g.latest[l]
    BY <1>1, <1>3 DEF FileIsCache
  <1>5. \A l \in DOMAIN c2 \ g2.retyped :
          l \in DOMAIN g2.latest /\ c2[l].body = g2.latest[l]
    BY <1>1, <1>2, <1>4
  <1>6. ASSUME NEW i \in DOMAIN u.lines PROVE LineOK(u.lines[i], c2, g2)
    <2>1. CASE u.lines[i] = <<k, b>>
      <3>1. u.lines[i] # << >>
        BY <2>1
      <3> QED
        BY <1>2, <2>1, <3>1 DEF LineOK
    <2>2. CASE \E j \in DOMAIN f.lines :
                 /\ u.lines[i] = f.lines[j]
                 /\ f.lines[j][1] # k \/ k \in g2.retyped
      <3>1. PICK j \in DOMAIN f.lines :
              /\ u.lines[i] = f.lines[j]
              /\ f.lines[j][1] # k \/ k \in g2.retyped
        BY <2>2
      <3>2. LineOK(f.lines[j], c, g)
        BY <1>4
      <3> DEFINE l == f.lines[j][1]
      <3>3. l \in DOMAIN c2 /\ u.lines[i] # << >>
        BY <1>2, <3>1, <3>2 DEF LineOK
      <3>4. l \notin g2.retyped => u.lines[i][2] = g2.latest[l]
        <4> SUFFICES ASSUME l \notin g2.retyped
                     PROVE u.lines[i][2] = g2.latest[l]
          OBVIOUS
        <4>1. l # k /\ l \in DOMAIN c \ g.retyped
          BY <1>1, <3>1, <3>2 DEF LineOK
        <4> QED
          BY <1>2, <1>4, <3>1, <3>2, <4>1 DEF LineOK
      <3> QED
        BY <3>1, <3>3, <3>4 DEF LineOK
    <2> QED
      BY <1>3, <2>1, <2>2 DEF g2
  <1> QED
    BY <1>5, <1>6

\* Saving or updating a template leaves well-formed files at every step, and each
\* of them, but for the one it starts from, agrees with the cache.
LEMMA StepsKeep ==
  ASSUME NEW c, CacheOK(c), NEW f, FileOK(f), NEW g, HistoryOK(g),
         FileIsCache(c, f, g), NEW k \in Keys, NEW b \in Bodies,
         NEW cut \in BOOLEAN
  PROVE  LET steps == SaveSteps(f, k, b, k \in DOMAIN c, cut)
         IN /\ steps # << >> /\ Len(steps) \in DOMAIN steps
            /\ \A i \in DOMAIN steps :
                 /\ FileOK(steps[i])
                 /\ steps[i] # f \/ i = Len(steps) =>
                      FileIsCache(With(c, k, Entry(b)), steps[i],
                                  NotedFor(g, c, steps[i], k, b))
PROOF
  <1> DEFINE known == k \in DOMAIN c
             steps == SaveSteps(f, k, b, known, cut)
             c2 == With(c, k, Entry(b))
             Good(u) == FileOK(u)
                        /\ FileIsCache(c2, u, NotedFor(g, c, u, k, b))
  <1>0. /\ f.lines \in Seq(Lines) /\ DOMAIN f.lines = 1 .. Len(f.lines)
        /\ Len(f.lines) \in Nat /\ f.torn \in BOOLEAN
    BY LenProperties DEF FileOK
  <1>n. ASSUME NEW u, FileOK(u)
        PROVE  /\ (NotedFor(g, c, u, k, b).garbled <=> g.garbled \/ u.torn)
               /\ g.retyped \subseteq NotedFor(g, c, u, k, b).retyped
               /\ known /\ OldType(c, k) # b.type
                    => k \in NotedFor(g, c, u, k, b).retyped
               /\ g.garbled \in BOOLEAN /\ u.torn \in BOOLEAN
    <2> DEFINE g2 == NotedFor(g, c, u, k, b)
    <2>1. g.garbled \in BOOLEAN /\ u.torn \in BOOLEAN
      BY <1>n DEF FileOK, HistoryOK
    <2>2. /\ (g2.garbled <=> g.garbled \/ u.torn)
          /\ g2.retyped = (IF k \in DOMAIN c /\ OldType(c, k) # b.type
                           THEN g.retyped \cup {k} ELSE g.retyped)
      BY <2>1 DEF NotedFor, Noted, HistoryOK
    <2> HIDE DEF g2
    <2>3. g.retyped \subseteq g2.retyped
          /\ (known /\ OldType(c, k) # b.type => k \in g2.retyped)
      BY <2>2
    <2> QED
      BY <2>1, <2>2, <2>3 DEF g2
  <1>1. CASE ~known
    <2> DEFINE u == Saved(f, k, b, cut)
    <2>1. steps = <<f, u>>
      BY <1>1 DEF SaveSteps
    <2>2. FileOK(u) /\ u.torn = cut
          /\ (~f.torn /\ ~cut => u.lines = Append(f.lines, <<k, b>>))
      BY SavedIs
    <2>3. Good(u)
      <3>1. ASSUME ~NotedFor(g, c, u, k, b).garbled
            PROVE  /\ \A i \in DOMAIN u.lines :
                        \/ u.lines[i] = <<k, b>>
                        \/ \E j \in DOMAIN f.lines :
                             u.lines[i] = f.lines[j] /\ f.lines[j][1] # k
                   /\ \A i, j \in DOMAIN u.lines :
                        u.lines[i][1] = u.lines[j][1] => i = j
        <4>1. ~g.garbled /\ ~cut /\ ~f.torn
          BY <1>n, <2>2, <3>1 DEF FileIsCache
        <4>2. u.lines = Append(f.lines, <<k, b>>)
          BY <2>2, <4>1
        <4>3. <<k, b>> \in Lines /\ <<k, b>>[1] = k
          BY DEF Lines
        <4>4. /\ DOMAIN u.lines = 1 .. Len(f.lines) + 1
              /\ \A i \in 1 .. Len(f.lines) : u.lines[i] = f.lines[i]
              /\ u.lines[Len(f.lines) + 1] = <<k, b>>
          <5>1. u.lines \in Seq(Lines)
            BY <2>2 DEF FileOK
          <5> QED
            BY <1>0, <4>2, <4>3, <5>1, AppendProperties, LenProperties
        <4>5. \A i \in 1 .. Len(f.lines) : f.lines[i][1] # k
          BY <1>0, <1>1, <4>1 DEF FileIsCache, LineOK
        <4>6. \A i, j \in 1 .. Len(f.lines) :
                f.lines[i][1] = f.lines[j][1] => i = j
          BY <1>0, <4>1 DEF FileIsCache
        <4> HIDE DEF u
        <4>7. \A i \in DOMAIN u.lines : i \in 1 .. Len(f.lines)
              \/ i = Len(f.lines) + 1
          BY <1>0, <4>4
        <4>8. \A i \in DOMAIN u.lines :
                \/ u.lines[i] = <<k, b>>
                \/ \E j \in DOMAIN f.lines :
                     u.lines[i] = f.lines[j] /\ f.lines[j][1] # k
          BY <1>0, <4>4, <4>5, <4>7
        <4>9. \A i, j \in DOMAIN u.lines :
                u.lines[i][1] = u.lines[j][1] => i = j
          <5>1. \A i \in 1 .. Len(f.lines) :
                  u.lines[i] = f.lines[i] /\ u.lines[i][1] # k
            BY <4>4, <4>5
          <5>2. u.lines[Len(f.lines) + 1][1] = k
            BY <4>3, <4>4
          <5> QED
            BY <4>6, <4>7, <5>1, <5>2
        <4> QED
          BY <4>8, <4>9
      <3>2. u.torn => NotedFor(g, c, u, k, b).garbled
        BY <1>n, <2>2
      <3> HIDE DEF u
      <3> QED
        BY <2>2, <3>1, <3>2, NewVersion
    <2> HIDE DEF u, steps
    <2>4. steps # << >> /\ DOMAIN steps = 1 .. 2 /\ Len(steps) = 2
      BY <2>1
    <2>5. steps[1] = f /\ steps[2] = u
      BY <2>1
    <2>6. ASSUME NEW i \in DOMAIN steps
          PROVE  /\ FileOK(steps[i])
                 /\ steps[i] # f \/ i = Len(steps) =>
                      FileIsCache(c2, steps[i], NotedFor(g, c, steps[i], k, b))
      <3>1. i = 1 \/ i = 2
        BY <2>4
      <3> QED
        BY <2>3, <2>4, <2>5, <3>1
    <2> QED
      BY <2>4, <2>6 DEF steps
  <1>2. CASE known /\ ~Known(f, k, b)
    <2>1. steps = <<f>>
      BY <1>2 DEF SaveSteps, UpdateSteps
    <2>2. FileIsCache(c2, f, NotedFor(g, c, f, k, b))
      <3> DEFINE g2 == NotedFor(g, c, f, k, b)
      <3>1. ASSUME ~g2.garbled
            PROVE  /\ \A i \in DOMAIN f.lines :
                        \E j \in DOMAIN f.lines :
                          /\ f.lines[i] = f.lines[j]
                          /\ f.lines[j][1] # k \/ k \in g2.retyped
                   /\ \A i, j \in DOMAIN f.lines :
                        f.lines[i][1] = f.lines[j][1] => i = j
        <4>1. ~g.garbled
          BY <1>n, <3>1
        <4>2. ASSUME NEW i \in DOMAIN f.lines, f.lines[i][1] = k,
                     k \notin g2.retyped
              PROVE  FALSE
          <5>1. k \notin g.retyped /\ OldType(c, k) = b.type
            BY <1>n, <1>2, <4>2
          <5>2. LineOK(f.lines[i], c, g) /\ c[k].body = g.latest[k]
            BY <1>2, <4>1, <5>1 DEF FileIsCache
          <5>3. f.lines[i] # << >> /\ f.lines[i][2].type = b.type
            BY <1>2, <4>2, <5>1, <5>2 DEF LineOK, OldType
          <5> QED
            BY <1>2, <4>2, <5>3 DEF Known, LinesOf
        <4>3. \A i, j \in DOMAIN f.lines :
                f.lines[i][1] = f.lines[j][1] => i = j
          BY <4>1 DEF FileIsCache
        <4> QED
          BY <4>2, <4>3
      <3> QED
        BY <3>1, NewVersion
    <2> HIDE DEF steps
    <2>3. steps # << >> /\ DOMAIN steps = 1 .. 1 /\ Len(steps) = 1
          /\ steps[1] = f
      BY <2>1
    <2> QED
      BY <2>2, <2>3 DEF steps
  <1>3. CASE known /\ Known(f, k, b)
    <2> DEFINE s == Shortened(f, k, b)
               u == Saved(s, k, b, cut)
    <2>1. steps = <<f, NoFile, s, u>>
      BY <1>3 DEF SaveSteps, UpdateSteps
    <2>2. FileOK(s) /\ (s.torn => f.torn)
      BY <1>3, ShortenedIs
    <2>3. /\ FileOK(u) /\ u.torn = cut
          /\ ~s.torn /\ ~cut => u.lines = Append(s.lines, <<k, b>>)
      BY <2>2, SavedIs
    <2>4. FileOK(NoFile) /\ DOMAIN NoFile.lines = {} /\ ~NoFile.torn
      BY EmptySeq DEF NoFile, FileOK
    <2>5. ASSUME ~g.garbled
          PROVE  /\ \A i \in DOMAIN s.lines : s.lines[i][1] # k
                      /\ \E j \in DOMAIN f.lines : s.lines[i] = f.lines[j]
                 /\ \A i, j \in DOMAIN s.lines :
                      s.lines[i][1] = s.lines[j][1] => i = j
      <3>1. /\ \A i \in DOMAIN f.lines : f.lines[i] # << >>
            /\ \A i, j \in DOMAIN f.lines :
                 f.lines[i][1] = f.lines[j][1] => i = j
        BY <2>5 DEF FileIsCache, LineOK
      <3>2. PICK m \in DOMAIN f.lines :
              f.lines[m][1] = k /\ s = WithoutLine(f, m)
        BY <1>3, <3>1, ShortenedIs
      <3>3. /\ Len(s.lines) = Len(f.lines) - 1
            /\ \A i \in 1 .. Len(s.lines) :
                 s.lines[i] = f.lines[IF i < m THEN i ELSE i + 1]
        <4> HIDE DEF s
        <4>1. m \in 1 .. Len(f.lines)
          BY <1>0
        <4> QED
          BY <3>2, <4>1, WithoutLineIs
      <3>4. DOMAIN s.lines = 1 .. Len(f.lines) - 1
        BY <2>2, <3>3, LenProperties DEF FileOK
      <3> DEFINE at(i) == IF i < m THEN i ELSE i + 1
      <3>5. ASSUME NEW i \in DOMAIN s.lines
            PROVE  s.lines[i] = f.lines[at(i)] /\ at(i) \in DOMAIN f.lines
                   /\ at(i) # m
        BY <1>0, <3>2, <3>3, <3>4, SMTT(30)
      <3>6. ASSUME NEW i \in DOMAIN s.lines, NEW j \in DOMAIN s.lines,
                   at(i) = at(j)
            PROVE  i = j
        BY <1>0, <3>2, <3>4, <3>6
      <3> HIDE DEF at, s
      <3> QED
        BY <3>1, <3>2, <3>5, <3>6
    <2> HIDE DEF s
    <2>6. Good(NoFile)
      BY <2>4, NewVersion
    <2>7. Good(s)
      <3>1. s.torn => f.torn \/ NotedFor(g, c, s, k, b).garbled
        BY <2>2
      <3>2. ~NotedFor(g, c, s, k, b).garbled => ~g.garbled
        BY <1>n, <2>2
      <3> QED
        BY <2>2, <2>5, <3>1, <3>2, NewVersion
    <2>8. Good(u)
      <3>1. ASSUME ~NotedFor(g, c, u, k, b).garbled
            PROVE  /\ \A i \in DOMAIN u.lines :
                        \/ u.lines[i] = <<k, b>>
                        \/ \E j \in DOMAIN f.lines :
                             u.lines[i] = f.lines[j] /\ f.lines[j][1] # k
                   /\ \A i, j \in DOMAIN u.lines :
                        u.lines[i][1] = u.lines[j][1] => i = j
        <4>1. ~g.garbled /\ ~cut /\ ~s.torn
          BY <1>n, <2>2, <2>3, <3>1 DEF FileIsCache
        <4>2. u.lines = Append(s.lines, <<k, b>>)
          BY <2>3, <4>1
        <4>3. <<k, b>> \in Lines /\ <<k, b>>[1] = k
          BY DEF Lines
        <4>4. /\ DOMAIN u.lines = 1 .. Len(s.lines) + 1 /\ Len(s.lines) \in Nat
              /\ DOMAIN s.lines = 1 .. Len(s.lines)
              /\ \A i \in 1 .. Len(s.lines) : u.lines[i] = s.lines[i]
              /\ u.lines[Len(s.lines) + 1] = <<k, b>>
          <5>1. u.lines \in Seq(Lines) /\ s.lines \in Seq(Lines)
            BY <2>2, <2>3 DEF FileOK
          <5> QED
            BY <4>2, <4>3, <5>1, AppendProperties, LenProperties
        <4>5. /\ \A i \in DOMAIN s.lines : s.lines[i][1] # k
                   /\ \E j \in DOMAIN f.lines : s.lines[i] = f.lines[j]
              /\ \A i, j \in DOMAIN s.lines :
                   s.lines[i][1] = s.lines[j][1] => i = j
          BY <2>5, <4>1
        <4> HIDE DEF u
        <4>7. \A i \in DOMAIN u.lines : i \in DOMAIN s.lines
              \/ i = Len(s.lines) + 1
          BY <4>4
        <4>8. \A i \in DOMAIN u.lines :
                \/ u.lines[i] = <<k, b>>
                \/ \E j \in DOMAIN f.lines :
                     u.lines[i] = f.lines[j] /\ f.lines[j][1] # k
          <5> SUFFICES ASSUME NEW i \in DOMAIN u.lines, i \in DOMAIN s.lines
                       PROVE  \E j \in DOMAIN f.lines :
                                u.lines[i] = f.lines[j] /\ f.lines[j][1] # k
            BY <4>4, <4>7
          <5>1. u.lines[i] = s.lines[i] /\ s.lines[i][1] # k
            BY <4>4, <4>5
          <5>2. PICK j \in DOMAIN f.lines : s.lines[i] = f.lines[j]
            BY <4>5
          <5> QED
            BY <5>1, <5>2
        <4>9. \A i, j \in DOMAIN u.lines :
                u.lines[i][1] = u.lines[j][1] => i = j
          BY <4>3, <4>4, <4>5, <4>7
        <4> QED
          BY <4>8, <4>9
      <3>2. u.torn => NotedFor(g, c, u, k, b).garbled
        BY <1>n, <2>3
      <3> HIDE DEF u
      <3> QED
        BY <2>3, <3>1, <3>2, NewVersion
    <2> HIDE DEF u, steps, Good
    <2>9. steps # << >> /\ DOMAIN steps = 1 .. 4 /\ Len(steps) = 4
      BY <2>1
    <2>10. steps[1] = f /\ steps[2] = NoFile /\ steps[3] = s /\ steps[4] = u
      BY <2>1
    <2>11. ASSUME NEW i \in DOMAIN steps
           PROVE  /\ FileOK(steps[i])
                  /\ steps[i] # f \/ i = Len(steps) =>
                       FileIsCache(c2, steps[i], NotedFor(g, c, steps[i], k, b))
      <3>1. i = 1 \/ i = 2 \/ i = 3 \/ i = 4
        BY <2>9
      <3> QED
        BY <2>6, <2>7, <2>8, <2>9, <2>10, <3>1 DEF Good
    <2> QED
      BY <2>9, <2>11 DEF steps
  <1> QED
    BY <1>1, <1>2, <1>3

\* A daemon that starts knows the templates the file has a line of.
LEMMA LoadedIs ==
  ASSUME NEW f, FileOK(f)
  PROVE  /\ CacheOK(Loaded(f))
         /\ \A k \in DOMAIN Loaded(f) :
              /\ Fits(Loaded(f)[k])
              /\ \E i \in DOMAIN f.lines :
                   /\ f.lines[i] # << >> /\ f.lines[i][1] = k
                   /\ Loaded(f)[k].body = f.lines[i][2]
         /\ \A i \in DOMAIN f.lines :
              f.lines[i] # << >> => f.lines[i][1] \in DOMAIN Loaded(f)
PROOF
  <1> DEFINE D == {i \in DOMAIN f.lines : f.lines[i] # << >>}
             K == {f.lines[i][1] : i \in D}
             T(k) == {i \in DOMAIN f.lines :
                        f.lines[i] # << >> /\ f.lines[i][1] = k}
  <1>1. Loaded(f) = [k \in K |-> Entry(f.lines[Min(T(k))][2])]
    BY DEF Loaded
  <1>2. f.lines \in Seq(Lines) /\ DOMAIN f.lines = 1 .. Len(f.lines)
        /\ Len(f.lines) \in Nat
    BY LenProperties DEF FileOK
  <1>3. ASSUME NEW i \in D
        PROVE  f.lines[i][1] \in Keys /\ f.lines[i][2] \in Bodies
    <2>1. f.lines[i] \in Lines
      BY <1>2, ElementOfSeq
    <2> QED
      BY <2>1 DEF Lines
  <1>4. ASSUME NEW k \in K
        PROVE  Min(T(k)) \in D /\ f.lines[Min(T(k))][1] = k
    <2>1. T(k) # {} /\ T(k) \subseteq Nat
      BY <1>2
    <2>2. Min(T(k)) \in T(k)
      BY <2>1, MinOf
    <2> QED
      BY <2>2
  <1>5. ASSUME NEW k \in K
        PROVE  /\ k \in Keys /\ EntryOK(Loaded(f)[k]) /\ Fits(Loaded(f)[k])
               /\ Loaded(f)[k].body = f.lines[Min(T(k))][2]
    <2>1. Loaded(f)[k] = Entry(f.lines[Min(T(k))][2])
      BY <1>1
    <2>2. k \in Keys /\ f.lines[Min(T(k))][2] \in Bodies
      BY <1>3, <1>4
    <2> QED
      BY <2>1, <2>2, EntryIs
  <1>6. DOMAIN Loaded(f) = K
    BY <1>1
  <1>7. ASSUME NEW k \in K
        PROVE  \E i \in DOMAIN f.lines :
                 /\ f.lines[i] # << >> /\ f.lines[i][1] = k
                 /\ Loaded(f)[k].body = f.lines[i][2]
    BY <1>4, <1>5
  <1> QED
    BY <1>5, <1>6, <1>7 DEF CacheOK

\* What it knows agrees with the file as well as what was known before did.
LEMMA LoadedAgrees ==
  ASSUME NEW c, NEW f, FileOK(f), NEW g, HistoryOK(g), FileIsCache(c, f, g),
         ~g.lost
  PROVE  FileIsCache(Loaded(f), f, Reset(g)) /\ Lengths(Loaded(f), Reset(g))
PROOF
  <1> DEFINE g2 == Reset(g)
  <1>1. /\ g2.latest = g.latest /\ g2.garbled = g.garbled
        /\ g2.retyped = g.retyped /\ g2.lost = g.lost
    BY DEF Reset, HistoryOK
  <1>2. Lengths(Loaded(f), g2)
    BY <1>1, LoadedIs DEF Lengths
  <1>3. ASSUME ~g.garbled
        PROVE  /\ \A i \in DOMAIN f.lines : LineOK(f.lines[i], Loaded(f), g2)
               /\ \A k \in DOMAIN Loaded(f) \ g2.retyped :
                    k \in DOMAIN g2.latest /\ Loaded(f)[k].body = g2.latest[k]
    <2>1. /\ \A i \in DOMAIN f.lines : LineOK(f.lines[i], c, g)
          /\ \A k \in DOMAIN c \ g.retyped : k \in DOMAIN g.latest
      BY <1>3 DEF FileIsCache
    <2>2. \A i \in DOMAIN f.lines : LineOK(f.lines[i], Loaded(f), g2)
      BY <1>1, <2>1, LoadedIs DEF LineOK
    <2>3. ASSUME NEW k \in DOMAIN Loaded(f) \ g2.retyped
          PROVE  k \in DOMAIN g2.latest /\ Loaded(f)[k].body = g2.latest[k]
      <3>1. PICK i \in DOMAIN f.lines :
              f.lines[i][1] = k /\ Loaded(f)[k].body = f.lines[i][2]
        BY LoadedIs
      <3>2. LineOK(f.lines[i], c, g)
        BY <2>1
      <3> QED
        BY <1>1, <2>1, <3>1, <3>2 DEF LineOK
    <2> QED
      BY <2>2, <2>3
  <1>4. FileIsCache(Loaded(f), f, g2)
    BY <1>1, <1>3 DEF FileIsCache
  <1> QED
    BY <1>2, <1>4

-----------------------------------------------------------------------------
(***************************************************************************)
(* Data sets                                                               *)
(***************************************************************************)
\* A sum is no less than as many times what each of its parts is no less than.
LEMMA SumAtLeast ==
  ASSUME NEW f, NEW S, IsFiniteSet(S), NEW m \in Nat,
         \A x \in S : f[x] \in Nat /\ f[x] >= m
  PROVE  SumFunctionOnSet(f, S) >= m * Cardinality(S)
PROOF
  <1> DEFINE Sum(T) == SumFunctionOnSet(f, T)
             F == {T \in SUBSET S : Sum(T) >= m * Cardinality(T)}
  <1>1. {} \in F
    <2>1. Sum({}) = 0 /\ Cardinality({}) = 0
      BY SumStep, FS_EmptySet
    <2> QED
      BY <2>1
  <1>2. ASSUME NEW T \in SUBSET S, NEW x \in S \ T,
               T \in F PROVE T \cup {x} \in F
    <2>1. /\ IsFiniteSet(T) /\ IsFiniteSet(T \cup {x})
          /\ Cardinality(T) \in Nat
          /\ Cardinality(T \cup {x}) = Cardinality(T) + 1
      BY FS_Subset, FS_CardinalityType, FS_AddElement
    <2>2. Sum(T \cup {x}) = f[x] + Sum((T \cup {x}) \ {x})
      BY <2>1, SumRemove
    <2>3. (T \cup {x}) \ {x} = T
      OBVIOUS
    <2>4. Sum(T) \in Nat
      BY <2>1, SumType
    <2>5. m * (Cardinality(T) + 1) = m * Cardinality(T) + m
      BY <2>1
    <2>6. m * Cardinality(T) \in Nat /\ f[x] \in Nat /\ f[x] >= m
      BY <2>1
    <2>7. Sum(T \cup {x}) >= m * Cardinality(T \cup {x})
      <3>1. Sum(T \cup {x}) = f[x] + Sum(T) /\ Sum(T) >= m * Cardinality(T)
        BY <1>2, <2>2, <2>3
      <3> HIDE DEF Sum
      <3> QED
        BY <2>1, <2>4, <2>5, <2>6, <3>1
    <2> QED
      BY <2>7
  <1> HIDE DEF F
  <1>3. S \in F
    BY <1>1, <1>2, FiniteInduction
  <1> QED
    BY <1>3 DEF F

\* So many times a number, and at least once.
LEMMA TimesAtLeast ==
  ASSUME NEW a \in Nat, NEW n \in Nat, n > 0
  PROVE  a * n >= a
PROOF
  OBVIOUS

\* The quotient of what holds m times n.
LEMMA QuotientAtLeast ==
  ASSUME NEW n \in Nat \ {0}, NEW m \in Nat, NEW a \in Nat, n * m <= a
  PROVE  a \div n \in Nat /\ a \div n >= m
PROOF
  <1> DEFINE q == a \div n
             r == a % n
  <1>1. q \in Nat /\ r \in 0 .. n - 1 /\ a = n * q + r
    OBVIOUS
  <1> HIDE DEF q, r
  <1>2. SUFFICES ASSUME q + 1 <= m PROVE FALSE
    BY <1>1 DEF q
  <1>3. n * (q + 1) = n * q + n
    BY <1>1
  <1>4. n * (q + 1) <= n * m
    BY <1>1, <1>2
  <1>5. n * q \in Nat /\ n * m \in Nat
    BY <1>1
  <1> QED
    BY <1>1, <1>3, <1>4, <1>5

DataSetType ==
  [kind : {"data"}, tid : Nat, body : Bodies, vs : Seq(Nat), pad : Nat,
   noise : Nat, smp : Nat, rate : Rates \cup {1}]

\* The length of a record.
LEMMA RecordLenType ==
  ASSUME NEW b, b.fix \in Nat, b.ext \in Nat, b.vlen \in BOOLEAN, NEW v \in Nat
  PROVE  RecordLen(b, v) \in Nat /\ (b.vlen => RecordLen(b, v) >= 1)
PROOF
  BY DEF RecordLen

\* A set takes what its records take at least.
LEMMA SetLenIs ==
  ASSUME NEW w \in DataSetType, NEW m \in Nat,
         \A v \in Nat : RecordLen(w.body, v) >= m
  PROVE  /\ SetLen(w) \in Nat /\ Len(w.vs) \in Nat
         /\ SetLen(w) >= m * Len(w.vs)
PROOF
  <1> DEFINE f == [i \in DOMAIN w.vs |-> RecordLen(w.body, w.vs[i])]
             S == DOMAIN w.vs
  <1>1. /\ w.vs \in Seq(Nat) /\ w.pad \in Nat
        /\ w.body.fix \in Nat /\ w.body.ext \in Nat /\ w.body.vlen \in BOOLEAN
    BY DEF DataSetType, Bodies
  <1>2. S = 1 .. Len(w.vs) /\ Len(w.vs) \in Nat /\ \A i \in S : w.vs[i] \in Nat
    BY <1>1, LenProperties
  <1>3. IsFiniteSet(S) /\ Cardinality(S) = Len(w.vs)
    BY <1>2, FS_Interval
  <1>4. \A i \in S : f[i] \in Nat /\ f[i] >= m
    <2>1. \A v \in Nat : RecordLen(w.body, v) \in Nat
      BY <1>1, RecordLenType
    <2> QED
      BY <1>2, <2>1
  <1>5. SetLen(w) = w.pad + SumFunctionOnSet(f, S)
    BY DEF SetLen, SumFunction
  <1> HIDE DEF f, S
  <1>6. SumFunctionOnSet(f, S) \in Nat
    BY <1>3, <1>4, SumType
  <1>7. SumFunctionOnSet(f, S) >= m * Cardinality(S)
    BY <1>3, <1>4, SumAtLeast
  <1>8. m * Len(w.vs) \in Nat
    BY <1>2
  <1> QED
    BY <1>1, <1>2, <1>3, <1>5, <1>6, <1>7, <1>8

\* What reading a set leaves in the cache, and that no record is passed over whose
\* template lets it through.
LEMMA ReadSetIs ==
  ASSUME NEW e, EntryOK(e), ~Endless(e), NEW w \in DataSetType
  PROVE  LET got == ReadSet(e, w)
         IN /\ got.n \in Nat /\ got.len \in Nat /\ Len(w.vs) \in Nat
            /\ Static(e.body) => got.len = e.len
            /\ e.body = w.body /\ Fits(e) /\ Counted(e.body) =>
                 got.n >= Len(w.vs)
            /\ e.body = w.body /\ Fits(e) /\ w.pad = 0 /\ w.vs # << >> =>
                 Static(e.body) \/ got.len = 1
PROOF
  <1> DEFINE fixed == Static(e.body)
             L == SetLen(w)
             G == Guess(e, w)
             N == Len(w.vs)
             same == e.body = w.body
             left == IF same THEN w.pad ELSE L
  <1>1. /\ e.body \in Bodies /\ e.len \in Nat
        /\ fixed => e.len = Entry(e.body).len /\ e.len > 0
        /\ w.noise \in Nat /\ w.pad \in Nat /\ w.vs \in Seq(Nat)
    BY DEF EntryOK, DataSetType, Endless
  <1>2. /\ e.body.fix \in Nat /\ e.body.ext \in Nat /\ e.body.vlen \in BOOLEAN
        /\ w.body.fix \in Nat /\ w.body.ext \in Nat /\ w.body.vlen \in BOOLEAN
    BY <1>1 DEF Bodies, DataSetType
  <1>3. \A v \in Nat : RecordLen(w.body, v) >= 0
    BY <1>2, RecordLenType
  <1>4. L \in Nat /\ N \in Nat
    BY <1>3, SetLenIs
  <1>5. ~fixed => G \in Nat \ {0} /\ (same => L >= N)
    <2> SUFFICES ASSUME ~fixed PROVE G \in Nat \ {0} /\ (same => L >= N)
      OBVIOUS
    <2>1. e.body.vlen
      BY DEF Static
    <2>2. \A v \in Nat : RecordLen(e.body, v) \in Nat /\ RecordLen(e.body, v) >= 1
      BY <1>2, <2>1, RecordLenType
    <2>3. same => L >= 1 * N
      BY <2>2, SetLenIs
    <2>4. G \in Nat \ {0}
      <3>1. G = RecordLen(e.body, w.noise)
        BY DEF Guess
      <3>2. G \in Nat /\ G >= 1
        BY <1>1, <2>2, <3>1
      <3> HIDE DEF G
      <3> QED
        BY <3>2
    <2> HIDE DEF G, L, N
    <2> QED
      BY <1>4, <2>3, <2>4
  <1>6. ASSUME same, fixed, Counted(e.body) PROVE L >= e.len * N
    <2>1. \A v \in Nat : RecordLen(w.body, v) = e.len
      BY <1>1, <1>6, CountedLength
    <2> QED
      BY <1>1, <2>1, SetLenIs
  <1>7. w.vs # << >> => N > 0
    BY <1>1, <1>4, EmptySeq
  <1>8. left \in Nat
    BY <1>1, <1>4
  <1> HIDE DEF fixed, L, G, N, left
  <1>9. ReadSet(e, w) =
          IF e.len > L THEN [n |-> 0, len |-> e.len]
          ELSE IF fixed THEN [n |-> L \div e.len, len |-> e.len]
          ELSE [n   |-> (IF same THEN N ELSE 0) + left \div G,
                len |-> IF left % G = 0 /\ L > 0 THEN 1 ELSE G]
    BY DEF ReadSet, fixed, L, G, N, left
  <1>10. CASE e.len > L
    <2>1. ReadSet(e, w) = [n |-> 0, len |-> e.len]
      BY <1>9, <1>10
    <2>2. same /\ Fits(e) /\ Counted(e.body) => N = 0
      <3>1. CASE fixed
        <4> SUFFICES ASSUME same, Counted(e.body), N > 0 PROVE FALSE
          BY <1>4
        <4>1. e.len * N >= e.len
          BY <1>1, <1>4, TimesAtLeast
        <4>2. e.len * N \in Nat
          BY <1>1, <1>4
        <4> QED
          BY <1>1, <1>4, <1>6, <1>10, <3>1, <4>1, <4>2
      <3>2. CASE ~fixed
        BY <1>1, <1>4, <1>5, <1>10, <3>2 DEF Fits, fixed
      <3> QED
        BY <3>1, <3>2
    <2>3. same /\ Fits(e) /\ w.vs # << >> => fixed
      BY <1>1, <1>4, <1>5, <1>7, <1>10 DEF Fits, fixed
    <2> QED
      BY <1>1, <1>4, <2>1, <2>2, <2>3 DEF fixed, N
  <1>11. CASE ~(e.len > L) /\ fixed
    <2>1. ReadSet(e, w) = [n |-> L \div e.len, len |-> e.len]
      BY <1>9, <1>11
    <2>2. L \div e.len \in Nat
      BY <1>1, <1>4, <1>11
    <2>3. same /\ Counted(e.body) => L \div e.len >= N
      <3>1. e.len * N \in Nat /\ e.len \in Nat \ {0}
        BY <1>1, <1>4, <1>11
      <3> QED
        BY <1>4, <1>6, <1>11, <3>1, QuotientAtLeast
    <2> QED
      BY <1>1, <1>4, <1>11, <2>1, <2>2, <2>3 DEF fixed, N
  <1>12. CASE ~(e.len > L) /\ ~fixed
    <2> DEFINE n == (IF same THEN N ELSE 0) + left \div G
               len == IF left % G = 0 /\ L > 0 THEN 1 ELSE G
    <2>1. ReadSet(e, w) = [n |-> n, len |-> len]
      BY <1>9, <1>12
    <2>2. left \div G \in Nat /\ G \in Nat \ {0}
      BY <1>5, <1>8, <1>12
    <2>3. n \in Nat /\ len \in Nat /\ (same => n >= N)
      BY <1>4, <2>2
    <2>4. same /\ w.pad = 0 /\ w.vs # << >> => len = 1
      <3> SUFFICES ASSUME same, w.pad = 0, w.vs # << >> PROVE len = 1
        OBVIOUS
      <3>1. left = 0 /\ L > 0
        BY <1>4, <1>5, <1>7, <1>12 DEF left
      <3>2. 0 % G = 0
        BY <2>2
      <3> QED
        BY <3>1, <3>2
    <2> HIDE DEF n, len
    <2> QED
      BY <1>4, <1>12, <2>1, <2>3, <2>4 DEF fixed, N
  <1> QED
    BY <1>10, <1>11, <1>12

-----------------------------------------------------------------------------
(***************************************************************************)
(* The status table                                                        *)
(***************************************************************************)
\* What the table is charged for when one entry is made or changes.
LEMMA Charged ==
  ASSUME NEW tab, IsFiniteSet(DOMAIN tab), NEW new, NEW id,
         \A i \in DOMAIN tab : Len(tab[i].sampling) \in Nat,
         DOMAIN new = DOMAIN tab \cup {id}, Len(new[id].sampling) \in Nat,
         \A i \in DOMAIN tab : i # id => new[i] = tab[i]
  PROVE  /\ IsFiniteSet(DOMAIN new) /\ Charge(tab) \in Nat
         /\ Charge(new) \in Nat
         /\ id \notin DOMAIN tab
              => Charge(new) = Charge(tab) + 1 + Len(new[id].sampling)
         /\ id \in DOMAIN tab
              => Charge(new) + Len(tab[id].sampling)
                 = Charge(tab) + Len(new[id].sampling)
PROOF
  <1> DEFINE f == Charges(tab)
             g == Charges(new)
             D == DOMAIN tab
             R == D \ {id}
             n == Len(new[id].sampling)
  <1>1. /\ \A i \in D : f[i] = 1 + Len(tab[i].sampling) /\ f[i] \in Nat
        /\ \A i \in D \cup {id} : g[i] = 1 + Len(new[i].sampling)
           /\ g[i] \in Nat
        /\ \A i \in R : g[i] = f[i]
        /\ g[id] = 1 + n /\ n \in Nat
    BY DEF Charges
  <1>2. /\ IsFiniteSet(D) /\ IsFiniteSet(D \cup {id}) /\ IsFiniteSet(R)
        /\ (D \cup {id}) \ {id} = R
    BY FS_AddElement, FS_RemoveElement
  <1> HIDE DEF f, g, D, R, n
  <1>3. SumFunctionOnSet(g, D \cup {id}) = g[id] + SumFunctionOnSet(g, R)
    BY <1>1, <1>2, SumRemove
  <1>4. SumFunctionOnSet(g, R) = SumFunctionOnSet(f, R)
    BY <1>1, <1>2, SumSame
  <1>5. /\ SumFunctionOnSet(f, R) \in Nat /\ SumFunctionOnSet(f, D) \in Nat
        /\ SumFunctionOnSet(g, D \cup {id}) \in Nat
    BY <1>1, <1>2, SumType
  <1>6. ASSUME id \in D
        PROVE  SumFunctionOnSet(g, D \cup {id}) + Len(tab[id].sampling)
               = SumFunctionOnSet(f, D) + n
    <2> DEFINE m == Len(tab[id].sampling)
    <2>1. \A i \in D : f[i] \in Int
      BY <1>1
    <2>2. SumFunctionOnSet(f, D) = f[id] + SumFunctionOnSet(f, R)
      BY <1>2, <1>6, <2>1, SumRemove DEF R
    <2>3. f[id] = 1 + m /\ m \in Nat
      BY <1>1, <1>6 DEF D
    <2> HIDE DEF m
    <2>4. SumFunctionOnSet(g, D \cup {id}) + m = SumFunctionOnSet(f, D) + n
      BY <1>1, <1>3, <1>4, <1>5, <2>2, <2>3
    <2> QED
      BY <2>4 DEF m
  <1>7. ASSUME id \notin D
        PROVE  SumFunctionOnSet(g, D \cup {id}) = SumFunctionOnSet(f, D) + 1 + n
    <2>1. R = D
      BY <1>7 DEF R
    <2> QED
      BY <1>1, <1>3, <1>4, <1>5, <2>1
  <1> QED
    BY <1>2, <1>5, <1>6, <1>7 DEF f, g, D, n, Charge

\* Entries have sequences of samplers.
LEMMA EntrySamplers ==
  ASSUME NEW s, StatusOK(s)
  PROVE  \A id \in DOMAIN s.tab :
           s.tab[id].sampling \in Seq(Sampler)
             /\ Len(s.tab[id].sampling) \in Nat
PROOF
  BY LenProperties DEF StatusOK, StatusEntry

\* An entry that is found, or made and charged, or has no room.
LEMMA SearchIs ==
  ASSUME NEW s, StatusOK(s), NEW id
  PROVE  /\ StatusOK(SearchStatus(s, id))
         /\ DOMAIN SearchStatus(s, id).tab \subseteq DOMAIN s.tab \cup {id}
         /\ \A i \in DOMAIN s.tab :
              /\ i \in DOMAIN SearchStatus(s, id).tab
              /\ SearchStatus(s, id).tab[i] = s.tab[i]
         /\ id \in DOMAIN SearchStatus(s, id).tab \ DOMAIN s.tab
              => SearchStatus(s, id).tab[id] = NewStatus
PROOF
  <1> DEFINE t == SearchStatus(s, id)
  <1>1. CASE Has(s, id) \/ ~HasRoom(s)
    BY <1>1 DEF SearchStatus
  <1>2. CASE ~Has(s, id) /\ HasRoom(s)
    <2> DEFINE new == [i \in DOMAIN s.tab \cup {id} |->
                         IF i = id THEN NewStatus ELSE s.tab[i]]
    <2>1. t = [tab |-> new, used |-> s.used + 1]
      BY <1>2 DEF SearchStatus
    <2>2. /\ DOMAIN new = DOMAIN s.tab \cup {id} /\ new[id] = NewStatus
          /\ \A i \in DOMAIN s.tab : i # id /\ new[i] = s.tab[i]
      BY <1>2 DEF Has
    <2>3. NewStatus \in StatusEntry /\ Len(NewStatus.sampling) = 0
      BY EmptySeq, StatusAssumption DEF NewStatus, StatusEntry
    <2> HIDE DEF new
    <2>4. /\ IsFiniteSet(DOMAIN new)
          /\ Charge(s.tab) \in Nat /\ Charge(new) = Charge(s.tab) + 1
      <3>1. id \notin DOMAIN s.tab /\ IsFiniteSet(DOMAIN s.tab)
        BY <1>2 DEF Has, StatusOK
      <3>2. \A i \in DOMAIN s.tab : Len(s.tab[i].sampling) \in Nat
        BY EntrySamplers
      <3>3. Len(new[id].sampling) \in Nat
        BY <2>2, <2>3
      <3>4. \A i \in DOMAIN s.tab : i # id => new[i] = s.tab[i]
        BY <2>2
      <3>5. DOMAIN new = DOMAIN s.tab \cup {id}
        BY <2>2
      <3> QED
        BY <2>2, <2>3, <3>1, <3>2, <3>3, <3>4, <3>5, Charged
    <2>5. s.used \in Nat /\ s.used + 1 <= XFLOW_STATUS_TABLE_MAX_ENTRIES
      BY <1>2, <2>4, StatusAssumption DEF HasRoom, StatusOK
    <2>6. s.used + 1 = Charge(new)
      BY <2>4 DEF StatusOK
    <2>7. \A i \in DOMAIN new : new[i] \in StatusEntry
      BY <2>2, <2>3 DEF StatusOK
    <2>8. StatusOK(t)
      BY <2>1, <2>4, <2>5, <2>6, <2>7 DEF StatusOK
    <2> QED
      BY <2>1, <2>2, <2>8
  <1> QED
    BY <1>1, <1>2

\* An entry that changes, but not the number of its samplers.
LEMMA EntryChanged ==
  ASSUME NEW s, StatusOK(s), NEW id \in DOMAIN s.tab, NEW e \in StatusEntry,
         Len(e.sampling) = Len(s.tab[id].sampling)
  PROVE  StatusOK([s EXCEPT !.tab[id] = e])
PROOF
  <1> DEFINE new == [s.tab EXCEPT ![id] = e]
             t == [s EXCEPT !.tab[id] = e]
  <1>1. /\ DOMAIN new = DOMAIN s.tab /\ DOMAIN new = DOMAIN s.tab \cup {id}
        /\ new[id] = e /\ \A i \in DOMAIN s.tab : i # id => new[i] = s.tab[i]
    OBVIOUS
  <1>2. /\ t.tab = new /\ t.used = s.used /\ DOMAIN t = {"tab", "used"}
    BY DEF StatusOK
  <1> HIDE DEF new, t
  <1>3. Len(e.sampling) \in Nat
    BY EntrySamplers
  <1>4. Charge(s.tab) \in Nat /\ Charge(new) = Charge(s.tab)
    <2>1. /\ IsFiniteSet(DOMAIN s.tab)
          /\ \A i \in DOMAIN s.tab : Len(s.tab[i].sampling) \in Nat
          /\ Len(new[id].sampling) = Len(s.tab[id].sampling)
          /\ Len(new[id].sampling) \in Nat
      BY <1>1, <1>3, EntrySamplers DEF StatusOK
    <2>2. /\ DOMAIN new = DOMAIN s.tab \cup {id}
          /\ \A i \in DOMAIN s.tab : i # id => new[i] = s.tab[i]
      BY <1>1
    <2>3. \A i \in DOMAIN s.tab : Len(s.tab[i].sampling) \in Nat
      BY <2>1
    <2> DEFINE tab == s.tab
    <2>4. /\ IsFiniteSet(DOMAIN tab) /\ id \in DOMAIN tab
          /\ \A i \in DOMAIN tab : Len(tab[i].sampling) \in Nat
          /\ Len(new[id].sampling) = Len(tab[id].sampling)
          /\ Len(new[id].sampling) \in Nat
          /\ DOMAIN new = DOMAIN tab \cup {id}
          /\ \A i \in DOMAIN tab : i # id => new[i] = tab[i]
      BY <2>1, <2>2, <2>3
    <2> HIDE DEF tab
    <2>5. /\ Charge(tab) \in Nat /\ Charge(new) \in Nat
          /\ Charge(new) + Len(tab[id].sampling)
             = Charge(tab) + Len(new[id].sampling)
      BY <2>4, Charged
    <2>6. Len(tab[id].sampling) \in Nat /\ Len(new[id].sampling) = Len(tab[id].sampling)
      BY <2>4
    <2>7. Charge(new) = Charge(tab)
      <3>1. ASSUME NEW p \in Nat, NEW y \in Nat, NEW z \in Nat, p + z = y + z
            PROVE  p = y
        BY <3>1
      <3> QED
        BY <2>5, <2>6, <3>1, Zenon
    <2> QED
      BY <2>5, <2>7 DEF tab
  <1>5. Charge(new) = s.used
    BY <1>4 DEF StatusOK
  <1>6. \A i \in DOMAIN new : new[i] \in StatusEntry
    BY <1>1 DEF StatusOK
  <1> QED
    BY <1>1, <1>2, <1>5, <1>6 DEF StatusOK, t

\* What update_status_table() does to an entry, with the increment set after it.
LEMMA UpdateIs ==
  ASSUME NEW e \in StatusEntry, NEW n \in 0 .. SeqWrap - 1
  PROVE  LET u == [UpdateStatus(e, n) EXCEPT !.inc = 1]
         IN /\ u \in StatusEntry /\ u.seqno = n /\ u.inc = 1
            /\ u.sampling = e.sampling
            /\ u.good > e.good <=> e.seqno = 0 \/ n = Expected(e)
PROOF
  <1> DEFINE u == [UpdateStatus(e, n) EXCEPT !.inc = 1]
             right == e.seqno = 0 \/ n = Expected(e)
             a == e.good + 1
             b == e.jumps_f + 1
             c == e.jumps_b + 1
  <1>1. a \in Nat /\ b \in Nat /\ c \in Nat /\ a > e.good /\ ~(e.good > e.good)
    BY DEF StatusEntry
  <1>2. \/ right /\ u = [e EXCEPT !.good = a, !.seqno = n, !.inc = 1]
        \/ ~right /\ u = [e EXCEPT !.jumps_f = b, !.seqno = n, !.inc = 1]
        \/ ~right /\ u = [e EXCEPT !.jumps_b = c, !.seqno = n, !.inc = 1]
    BY DEF UpdateStatus, StatusEntry
  <1> HIDE DEF u, right, a, b, c
  <1>3. u.seqno = n /\ u.inc = 1 /\ u.sampling = e.sampling
    BY <1>2 DEF StatusEntry
  <1>4. u.good > e.good <=> right
    BY <1>1, <1>2 DEF StatusEntry
  <1>5. u \in StatusEntry
    <2>1. CASE u = [e EXCEPT !.good = a, !.seqno = n, !.inc = 1]
      BY <1>1, <2>1 DEF StatusEntry
    <2>2. CASE u = [e EXCEPT !.jumps_f = b, !.seqno = n, !.inc = 1]
      BY <1>1, <2>2 DEF StatusEntry
    <2>3. CASE u = [e EXCEPT !.jumps_b = c, !.seqno = n, !.inc = 1]
      BY <1>1, <2>3 DEF StatusEntry
    <2> QED
      BY <1>2, <2>1, <2>2, <2>3
  <1> QED
    BY <1>3, <1>4, <1>5 DEF u, right

\* What nfv9_check_status() does to the table: the verdict on a datagram is good if
\* its number is the expected one, or there was none.
LEMMA CheckIs ==
  ASSUME NEW s, StatusOK(s), NEW id, NEW n \in 0 .. SeqWrap - 1
  PROVE  LET t == CheckStatus(s, id, n)
         IN /\ StatusOK(t) /\ DOMAIN t.tab \subseteq DOMAIN s.tab \cup {id}
            /\ \A i \in DOMAIN s.tab :
                 /\ i \in DOMAIN t.tab /\ t.tab[i].sampling = s.tab[i].sampling
                 /\ i # id => t.tab[i] = s.tab[i]
            /\ id \in DOMAIN t.tab => t.tab[id].seqno = n /\ t.tab[id].inc = 1
            /\ id \in DOMAIN t.tab \ DOMAIN s.tab => t.tab[id].sampling = << >>
            /\ id \in DOMAIN s.tab =>
                 (t.tab[id].good > s.tab[id].good
                  <=> s.tab[id].seqno = 0 \/ n = Expected(s.tab[id]))
PROOF
  <1> DEFINE f == SearchStatus(s, id)
             t == CheckStatus(s, id, n)
             u == [UpdateStatus(f.tab[id], n) EXCEPT !.inc = 1]
  <1>1. /\ StatusOK(f) /\ DOMAIN f.tab \subseteq DOMAIN s.tab \cup {id}
        /\ \A i \in DOMAIN s.tab : i \in DOMAIN f.tab /\ f.tab[i] = s.tab[i]
        /\ id \in DOMAIN f.tab \ DOMAIN s.tab => f.tab[id] = NewStatus
    BY SearchIs
  <1>2. CASE id \notin DOMAIN f.tab
    <2>1. t = f
      BY <1>2 DEF CheckStatus, Has
    <2> QED
      BY <1>1, <1>2, <2>1
  <1>3. CASE id \in DOMAIN f.tab
    <2>1. t = [f EXCEPT !.tab[id] = u]
      BY <1>3 DEF CheckStatus, Has
    <2>2. f.tab[id] \in StatusEntry
      BY <1>1, <1>3 DEF StatusOK
    <2>3. /\ u \in StatusEntry /\ u.seqno = n /\ u.inc = 1
          /\ u.sampling = f.tab[id].sampling
          /\ u.good > f.tab[id].good
             <=> f.tab[id].seqno = 0 \/ n = Expected(f.tab[id])
      BY <2>2, UpdateIs
    <2> HIDE DEF u, f, t
    <2>4. StatusOK(t)
      BY <1>1, <1>3, <2>1, <2>3, EntryChanged
    <2>5. DOMAIN f = {"tab", "used"}
      BY <1>1 DEF StatusOK
    <2>6. /\ DOMAIN t.tab = DOMAIN f.tab /\ t.tab[id] = u
          /\ \A i \in DOMAIN f.tab : i # id => t.tab[i] = f.tab[i]
      BY <1>3, <2>1, <2>5
    <2>7. NewStatus.sampling = << >>
      BY DEF NewStatus
    <2> QED
      BY <1>1, <2>3, <2>4, <2>6, <2>7 DEF t
  <1> QED
    BY <1>2, <1>3

\* The rates stay when samplers do and new entries have none.
LEMMA RatesStay ==
  ASSUME NEW s, NEW g, RatesOK(s, g), NEW t, NEW g2,
         g2.told = g.told, g2.refused = g.refused,
         \A i \in DOMAIN s.tab :
           i \in DOMAIN t.tab /\ t.tab[i].sampling = s.tab[i].sampling,
         \A i \in DOMAIN t.tab \ DOMAIN s.tab : t.tab[i].sampling = << >>
  PROVE  RatesOK(t, g2)
PROOF
  <1>1. ASSUME NEW id \in DOMAIN t.tab
        PROVE  SamplersOK(t.tab[id].sampling, id, g2)
    <2>1. CASE id \in DOMAIN s.tab
      <3>1. SamplersOK(s.tab[id].sampling, id, g)
        BY <2>1 DEF RatesOK
      <3>2. t.tab[id].sampling = s.tab[id].sampling
        BY <2>1
      <3> QED
        BY <3>1, <3>2 DEF SamplersOK
    <2>2. CASE id \notin DOMAIN s.tab
      <3>1. DOMAIN t.tab[id].sampling = {}
        BY <2>2
      <3> QED
        BY <3>1 DEF SamplersOK
    <2> QED
      BY <2>1, <2>2
  <1>2. ASSUME NEW id, NEW smp, <<id, smp>> \in DOMAIN g2.told \ g2.refused
        PROVE  /\ Has(t, id)
               /\ \E i \in DOMAIN t.tab[id].sampling :
                    t.tab[id].sampling[i].id = smp
    <2>1. /\ Has(s, id)
          /\ \E i \in DOMAIN s.tab[id].sampling :
               s.tab[id].sampling[i].id = smp
      BY <1>2 DEF RatesOK
    <2> QED
      BY <2>1 DEF Has
  <1> QED
    BY <1>1, <1>2 DEF RatesOK

\* A sampler more is charged, if there is room.
LEMMA EntryGrown ==
  ASSUME NEW s, StatusOK(s), HasRoom(s), NEW id \in DOMAIN s.tab,
         NEW e \in StatusEntry, Len(e.sampling) = Len(s.tab[id].sampling) + 1
  PROVE  StatusOK([s EXCEPT !.tab[id] = e, !.used = @ + 1])
PROOF
  <1> DEFINE tab == s.tab
             new == [tab EXCEPT ![id] = e]
             t == [s EXCEPT !.tab[id] = e, !.used = @ + 1]
  <1>1. /\ t.tab = new /\ t.used = s.used + 1 /\ DOMAIN t = {"tab", "used"}
    BY DEF StatusOK
  <1>2. /\ IsFiniteSet(DOMAIN tab) /\ id \in DOMAIN tab
        /\ \A i \in DOMAIN tab : Len(tab[i].sampling) \in Nat
        /\ \A i \in DOMAIN tab : tab[i] \in StatusEntry
        /\ Len(e.sampling) = Len(tab[id].sampling) + 1
        /\ s.used = Charge(tab) /\ s.used < XFLOW_STATUS_TABLE_MAX_ENTRIES
    BY EntrySamplers DEF StatusOK, HasRoom
  <1> HIDE DEF tab, t
  <1>3. /\ DOMAIN new = DOMAIN tab /\ DOMAIN new = DOMAIN tab \cup {id}
        /\ new[id] = e /\ \A i \in DOMAIN tab : i # id => new[i] = tab[i]
    BY <1>2
  <1>4. Len(tab[id].sampling) \in Nat /\ Len(new[id].sampling) \in Nat
    BY <1>2, <1>3
  <1> HIDE DEF new
  <1>5. /\ Charge(tab) \in Nat /\ Charge(new) \in Nat
        /\ Charge(new) + Len(tab[id].sampling)
           = Charge(tab) + Len(new[id].sampling)
    <2>1. /\ IsFiniteSet(DOMAIN tab) /\ id \in DOMAIN tab
          /\ \A i \in DOMAIN tab : Len(tab[i].sampling) \in Nat
          /\ Len(new[id].sampling) \in Nat
          /\ DOMAIN new = DOMAIN tab \cup {id}
          /\ \A i \in DOMAIN tab : i # id => new[i] = tab[i]
      BY <1>2, <1>3, <1>4
    <2> QED
      BY <2>1, Charged
  <1>6. Charge(new) + Len(tab[id].sampling)
        = Charge(tab) + (Len(tab[id].sampling) + 1)
    BY <1>2, <1>3, <1>5
  <1> DEFINE n == Len(tab[id].sampling)
  <1>7. Charge(new) = s.used + 1
    <2>1. /\ n \in Nat /\ Charge(tab) \in Nat /\ Charge(new) \in Nat
          /\ Charge(new) + n = Charge(tab) + (n + 1)
      BY <1>4, <1>5, <1>6
    <2> HIDE DEF n
    <2>2. Charge(new) = Charge(tab) + 1
      BY <2>1
    <2> QED
      BY <1>2, <2>2
  <1>8. \A i \in DOMAIN new : new[i] \in StatusEntry
    BY <1>2, <1>3
  <1>9. s.used + 1 <= XFLOW_STATUS_TABLE_MAX_ENTRIES
    BY <1>2, <1>5, StatusAssumption
  <1> QED
    BY <1>1, <1>2, <1>3, <1>7, <1>8, <1>9 DEF StatusOK, t

\* The table after an announcement: the sampler it is about has the new rate, or was
\* not there and found no room, or is added.
SamplersThen(old, new, smp, rate) ==
  \/ \E m \in DOMAIN old :
       /\ old[m].id = smp
       /\ DOMAIN new = DOMAIN old /\ new[m].id = smp /\ new[m].rate = rate
       /\ \A i \in DOMAIN old : i # m => new[i] = old[i]
  \/ new = old /\ \A i \in DOMAIN old : old[i].id # smp
  \/ \E m :
       /\ \A i \in DOMAIN old : old[i].id # smp
       /\ m \notin DOMAIN old /\ DOMAIN new = DOMAIN old \cup {m}
       /\ new[m].id = smp /\ new[m].rate = rate
       /\ \A i \in DOMAIN old : new[i] = old[i]
TableThen(s, t, id, smp, rate) ==
  /\ StatusOK(t) /\ DOMAIN t.tab = DOMAIN s.tab
  /\ \A i \in DOMAIN s.tab : i # id => t.tab[i] = s.tab[i]
  /\ t.tab[id].seqno = s.tab[id].seqno /\ t.tab[id].inc = s.tab[id].inc
  /\ SamplersThen(s.tab[id].sampling, t.tab[id].sampling, smp, rate)

\* What an announcement changes.
LEMMA AnnouncedIs ==
  ASSUME NEW s, StatusOK(s), NEW id \in DOMAIN s.tab, NEW smp \in Nat,
         NEW rate \in Rates \cup {1}
  PROVE  TableThen(s, Announced(s, id, smp, rate), id, smp, rate)
PROOF
  <1> DEFINE t == Announced(s, id, smp, rate)
             e == s.tab[id]
             old == e.sampling
             hits == SmpHits(old, smp, FALSE)
  <1>1. /\ e \in StatusEntry /\ old \in Seq(Sampler) /\ Len(old) \in Nat
        /\ DOMAIN old = 1 .. Len(old)
    BY LenProperties DEF StatusOK, StatusEntry
  <1>2. DOMAIN s = {"tab", "used"}
    BY DEF StatusOK
  <1>3. hits = {i \in DOMAIN old : old[i].id = smp}
    BY DEF SmpHits
  <1>4. CASE hits # {}
    <2> DEFINE m == Min(hits)
               new == [old EXCEPT ![m].rate = rate]
               u == [e EXCEPT !.sampling = new]
    <2>1. m \in hits
      <3> HIDE DEF old, hits
      <3>1. hits \subseteq Nat
        BY <1>1, <1>3
      <3> QED
        BY <1>4, <3>1, MinOf
    <2>2. t = [s EXCEPT !.tab[id] = u]
      BY <1>4 DEF Announced
    <2>3. m \in DOMAIN old /\ old[m].id = smp
      BY <1>3, <2>1
    <2>4. old[m] \in Sampler
      BY <1>1, <2>3, ElementOfSeq
    <2>5. [old[m] EXCEPT !.rate = rate] \in Sampler
          /\ [old[m] EXCEPT !.rate = rate].id = smp
          /\ [old[m] EXCEPT !.rate = rate].rate = rate
      BY <2>3, <2>4 DEF Sampler
    <2>6. new = [old EXCEPT ![m] = [old[m] EXCEPT !.rate = rate]]
      OBVIOUS
    <2>7. /\ new \in Seq(Sampler) /\ Len(new) = Len(old)
          /\ DOMAIN new = DOMAIN old /\ new[m].id = smp /\ new[m].rate = rate
          /\ \A i \in DOMAIN old : i # m => new[i] = old[i]
      <3> HIDE DEF m, old
      <3>1. new \in Seq(Sampler) /\ Len(new) = Len(old)
        BY <1>1, <2>3, <2>5, <2>6, ExceptSeq
      <3> QED
        BY <2>3, <2>5, <2>6, <3>1
    <2> HIDE DEF new
    <2>8. /\ u \in StatusEntry /\ u.sampling = new /\ u.seqno = e.seqno
          /\ u.inc = e.inc
      BY <1>1, <2>7 DEF StatusEntry
    <2> HIDE DEF u
    <2>9. StatusOK([s EXCEPT !.tab[id] = u])
      BY <2>7, <2>8, EntryChanged
    <2>10. /\ DOMAIN t.tab = DOMAIN s.tab /\ t.tab[id] = u
           /\ \A i \in DOMAIN s.tab : i # id => t.tab[i] = s.tab[i]
      BY <1>2, <2>2
    <2>11. SamplersThen(old, t.tab[id].sampling, smp, rate)
      <3> HIDE DEF t, old
      <3>1. t.tab[id].sampling = new
        BY <2>8, <2>10
      <3> QED
        BY <2>3, <2>7, <3>1 DEF SamplersThen
    <2>12. StatusOK(t)
      BY <2>2, <2>9
    <2>13. t.tab[id].seqno = e.seqno /\ t.tab[id].inc = e.inc
      BY <2>8, <2>10
    <2> HIDE DEF t, m
    <2> QED
      BY <2>10, <2>11, <2>12, <2>13 DEF t, TableThen
  <1>5. CASE hits = {} /\ ~HasRoom(s)
    <2>1. t = s
      BY <1>5 DEF Announced
    <2> QED
      BY <1>3, <1>5, <2>1 DEF TableThen, SamplersThen
  <1>6. CASE hits = {} /\ HasRoom(s)
    <2> DEFINE p == [id |-> smp, rate |-> rate]
               new == Append(old, p)
               u == [e EXCEPT !.sampling = new]
    <2>1. t = [s EXCEPT !.tab[id] = u, !.used = @ + 1]
      BY <1>6 DEF Announced
    <2>2. p \in Sampler
      BY DEF Sampler
    <2>3. /\ new \in Seq(Sampler) /\ Len(new) = Len(old) + 1
          /\ DOMAIN new = DOMAIN old \cup {Len(old) + 1}
          /\ Len(old) + 1 \notin DOMAIN old
          /\ new[Len(old) + 1] = p /\ \A i \in DOMAIN old : new[i] = old[i]
      <3> HIDE DEF p, old
      <3>1. /\ new \in Seq(Sampler) /\ Len(new) = Len(old) + 1
            /\ \A i \in 1 .. Len(old) : new[i] = old[i]
            /\ new[Len(old) + 1] = p
        BY <1>1, <2>2, AppendProperties
      <3>2. DOMAIN new = 1 .. Len(new)
        BY <3>1, LenProperties
      <3> QED
        BY <1>1, <3>1, <3>2
    <2> HIDE DEF new
    <2>4. /\ u \in StatusEntry /\ u.sampling = new /\ u.seqno = e.seqno
          /\ u.inc = e.inc
      BY <1>1, <2>3 DEF StatusEntry
    <2> HIDE DEF u
    <2>5. StatusOK([s EXCEPT !.tab[id] = u, !.used = @ + 1])
      BY <1>6, <2>3, <2>4, EntryGrown
    <2>6. /\ DOMAIN t.tab = DOMAIN s.tab /\ t.tab[id] = u
          /\ \A i \in DOMAIN s.tab : i # id => t.tab[i] = s.tab[i]
      BY <1>2, <2>1
    <2>7. \A i \in DOMAIN old : old[i].id # smp
      BY <1>3, <1>6
    <2>8. SamplersThen(old, t.tab[id].sampling, smp, rate)
      <3> HIDE DEF t, old
      <3>1. t.tab[id].sampling = new /\ p.id = smp /\ p.rate = rate
        BY <2>4, <2>6
      <3> QED
        BY <2>3, <2>7, <3>1 DEF SamplersThen
    <2>9. StatusOK(t)
      BY <2>1, <2>5
    <2>10. t.tab[id].seqno = e.seqno /\ t.tab[id].inc = e.inc
      BY <2>4, <2>6
    <2> HIDE DEF t
    <2> QED
      BY <2>6, <2>8, <2>9, <2>10 DEF t, TableThen
  <1> QED
    BY <1>4, <1>5, <1>6

\* The rates after an announcement: its sampler has the new rate, or was refused.
LEMMA AnnouncedRates ==
  ASSUME NEW s, StatusOK(s), NEW id \in DOMAIN s.tab, NEW smp \in Nat,
         NEW rate \in Rates \cup {1}, NEW g, RatesOK(s, g), NEW g2,
         g2.told = With(g.told, <<id, smp>>, rate),
         g2.refused =
           IF SmpHits(Announced(s, id, smp, rate).tab[id].sampling, smp, FALSE)
             = {}
           THEN g.refused \cup {<<id, smp>>} ELSE g.refused
  PROVE  RatesOK(Announced(s, id, smp, rate), g2)
PROOF
  <1> DEFINE t == Announced(s, id, smp, rate)
             old == s.tab[id].sampling
             new == t.tab[id].sampling
             hits == SmpHits(old, smp, FALSE)
             pair == <<id, smp>>
  <1>0. TableThen(s, t, id, smp, rate)
    BY AnnouncedIs
  <1>1. /\ DOMAIN t.tab = DOMAIN s.tab
        /\ \A i \in DOMAIN s.tab : i # id => t.tab[i] = s.tab[i]
        /\ SamplersThen(old, new, smp, rate)
    <2> HIDE DEF t
    <2> QED
      BY <1>0 DEF TableThen
  <1>3. /\ SamplersOK(old, id, g)
        /\ \A i \in DOMAIN s.tab : SamplersOK(s.tab[i].sampling, i, g)
        /\ \A i, p : <<i, p>> \in DOMAIN g.told \ g.refused =>
             /\ i \in DOMAIN s.tab
             /\ \E j \in DOMAIN s.tab[i].sampling : s.tab[i].sampling[j].id = p
    BY DEF RatesOK, Has
  <1>4. /\ DOMAIN g2.told = DOMAIN g.told \cup {pair} /\ g2.told[pair] = rate
        /\ \A i, p : <<i, p>> # pair /\ <<i, p>> \in DOMAIN g.told =>
                    g2.told[<<i, p>>] = g.told[<<i, p>>]
    BY DEF With
  <1>5. /\ g.refused \subseteq g2.refused
        /\ pair \notin g2.refused => \E j \in DOMAIN new : new[j].id = smp
    <2>1. g2.refused = IF SmpHits(new, smp, FALSE) = {}
                       THEN g.refused \cup {pair} ELSE g.refused
      OBVIOUS
    <2> HIDE DEF new
    <2> QED
      BY <2>1 DEF SmpHits
  <1> HIDE DEF t, new, old
  <1>6. ASSUME NEW i \in DOMAIN t.tab, i # id
        PROVE  SamplersOK(t.tab[i].sampling, i, g2)
    <2>1. t.tab[i] = s.tab[i] /\ SamplersOK(s.tab[i].sampling, i, g)
      BY <1>1, <1>3, <1>6
    <2>2. \A p : <<i, p>> # pair
      BY <1>6
    <2> QED
      BY <1>4, <2>1, <2>2 DEF SamplersOK
  <1>7. SamplersOK(new, id, g2)
    <2>1. \A p \in Nat : p # smp => <<id, p>> # pair
      OBVIOUS
    <2>2. /\ \A i \in DOMAIN old : /\ <<id, old[i].id>> \in DOMAIN g.told
                                 /\ old[i].rate = g.told[<<id, old[i].id>>]
          /\ \A i, j \in DOMAIN old : old[i].id = old[j].id => i = j
      BY <1>3 DEF SamplersOK
    <2>3. \A i \in DOMAIN old : old[i].id # smp =>
            /\ <<id, old[i].id>> \in DOMAIN g2.told
            /\ old[i].rate = g2.told[<<id, old[i].id>>]
      BY <1>4, <2>2
    <2>4. <<id, smp>> \in DOMAIN g2.told /\ g2.told[<<id, smp>>] = rate
      BY <1>4
    <2> HIDE DEF pair
    <2>5. CASE \E m \in DOMAIN old :
                 /\ old[m].id = smp
                 /\ DOMAIN new = DOMAIN old /\ new[m].id = smp
                 /\ new[m].rate = rate
                 /\ \A i \in DOMAIN old : i # m => new[i] = old[i]
      BY <2>2, <2>3, <2>4, <2>5 DEF SamplersOK
    <2>6. CASE new = old /\ \A i \in DOMAIN old : old[i].id # smp
      BY <2>2, <2>3, <2>6 DEF SamplersOK
    <2>7. CASE \E m :
                 /\ \A i \in DOMAIN old : old[i].id # smp
                 /\ m \notin DOMAIN old /\ DOMAIN new = DOMAIN old \cup {m}
                 /\ new[m].id = smp /\ new[m].rate = rate
                 /\ \A i \in DOMAIN old : new[i] = old[i]
      BY <2>2, <2>3, <2>4, <2>7 DEF SamplersOK
    <2> QED
      BY <1>1, <2>5, <2>6, <2>7 DEF SamplersThen
  <1>8. ASSUME NEW i, NEW p, <<i, p>> \in DOMAIN g2.told \ g2.refused
        PROVE  /\ i \in DOMAIN t.tab
               /\ \E j \in DOMAIN t.tab[i].sampling : t.tab[i].sampling[j].id
                  = p
    <2>1. CASE <<i, p>> = pair
      <3>1. i = id /\ p = smp
        BY <2>1
      <3> QED
        BY <1>1, <1>5, <1>8, <2>1, <3>1 DEF new
    <2>2. CASE <<i, p>> # pair
      <3>1. <<i, p>> \in DOMAIN g.told \ g.refused
        BY <1>4, <1>5, <1>8, <2>2
      <3>2. /\ i \in DOMAIN s.tab
            /\ \E j \in DOMAIN s.tab[i].sampling : s.tab[i].sampling[j].id = p
        BY <1>3, <3>1
      <3>3. CASE i # id
        BY <1>1, <3>2, <3>3
      <3>4. CASE i = id
        <4>1. p # smp
          BY <2>2, <3>4
        <4>2. PICK j \in DOMAIN old : old[j].id = p
          BY <3>2, <3>4 DEF old
        <4>3. j \in DOMAIN new /\ new[j].id = p
          BY <1>1, <4>1, <4>2 DEF SamplersThen
        <4> QED
          BY <1>1, <3>4, <4>3 DEF new
      <3> QED
        BY <3>3, <3>4
    <2> QED
      BY <2>1, <2>2
  <1>9. \A i \in DOMAIN t.tab : SamplersOK(t.tab[i].sampling, i, g2)
    BY <1>6, <1>7 DEF new
  <1> QED
    BY <1>8, <1>9 DEF RatesOK, Has, t

-----------------------------------------------------------------------------
(***************************************************************************)
(* The sets of a datagram                                                  *)
(***************************************************************************)
\* The rates are about what was announced, and nothing else.
LEMMA RatesSame ==
  ASSUME NEW s, NEW g, RatesOK(s, g), NEW g2,
         g2.told = g.told, g2.refused = g.refused
  PROVE  RatesOK(s, g2)
PROOF
  <1>1. \A id \in DOMAIN s.tab : SamplersOK(s.tab[id].sampling, id, g2)
    <2>1. \A smps, id : SamplersOK(smps, id, g) => SamplersOK(smps, id, g2)
      BY DEF SamplersOK
    <2> QED
      BY <2>1 DEF RatesOK
  <1> QED
    BY <1>1 DEF RatesOK

\* A length that is new fits, or its key was padded.
LEMMA LengthsKept ==
  ASSUME NEW c, NEW g, Lengths(c, g), NEW g2, ~g2.lost, NEW c2,
         \A k \in DOMAIN c2 \ g2.padded :
           \/ Fits(c2[k])
           \/ k \in DOMAIN c \ g.padded /\ c2[k] = c[k]
  PROVE  Lengths(c2, g2)
PROOF
  <1>1. \A k \in DOMAIN c \ g.padded : Fits(c[k])
    BY DEF Lengths
  <1>2. \A k \in DOMAIN c2 \ g2.padded : Fits(c2[k])
    BY <1>1
  <1> QED
    BY <1>2 DEF Lengths

\* What has no part in TablesOK does not matter to it.
LEMMA TablesSame ==
  ASSUME NEW c, NEW f, NEW s, NEW g, TablesOK(c, f, s, g), NEW g2,
         HistoryOK(g2),
         g2.latest = g.latest, g2.retyped = g.retyped, g2.garbled = g.garbled,
         g2.padded = g.padded, g2.lost = g.lost, g2.misjudged = g.misjudged,
         g2.told = g.told, g2.refused = g.refused
  PROVE  TablesOK(c, f, s, g2)
PROOF
  <1>1. FileIsCache(c, f, g2)
    <2>1. \A l : LineOK(l, c, g) => LineOK(l, c, g2)
      BY DEF LineOK
    <2> QED
      BY <2>1 DEF FileIsCache, TablesOK
  <1>2. Lengths(c, g2)
    <2>1. Lengths(c, g) /\ ~g.lost
      BY DEF TablesOK, Lengths
    <2>2. \A k \in DOMAIN c \ g2.padded : k \in DOMAIN c \ g.padded /\ c[k] = c[k]
      OBVIOUS
    <2> QED
      BY <2>1, <2>2, LengthsKept
  <1>3. RatesOK(s, g2)
    <2>1. RatesOK(s, g)
      BY DEF TablesOK
    <2> QED
      BY <2>1, RatesSame
  <1> QED
    BY <1>1, <1>2, <1>3 DEF TablesOK

\* What the sets of a datagram work on.
RecordOK(r) ==
  /\ DOMAIN r = {"cache", "file", "status", "inc", "go", "crashed", "h"}
  /\ r.inc \in Nat /\ r.go \in BOOLEAN /\ r.crashed \in BOOLEAN
  /\ TablesOK(r.cache, r.file, r.status, r.h)

\* the table is as it was, samplers left aside
SameNumbers(s, t) ==
  /\ DOMAIN t.tab = DOMAIN s.tab
  /\ \A i \in DOMAIN s.tab :
       t.tab[i].seqno = s.tab[i].seqno /\ t.tab[i].inc = s.tab[i].inc

\* A set of n records is read: it counts them all, or the datagram is not read entirely.
SetStep(r, r2, x, n) ==
  /\ RecordOK(r2) /\ SameNumbers(r.status, r2.status) /\ r2.h.next = r.h.next
  /\ \A y \in Exporters \ {x} : r2.h.whole[y] = r.h.whole[y]
  /\ r2.h.whole[x] => r2.go /\ r.h.whole[x]
  /\ r2.h.whole[x] /\ ~r2.crashed => ~r.crashed /\ r2.inc = r.inc + n

\* A datagram that is given up.
LEMMA AbortStep ==
  ASSUME NEW r, RecordOK(r), NEW x \in Exporters, NEW n
  PROVE  SetStep(r, Abort(r, x), x, n)
PROOF
  <1> DEFINE q == Abort(r, x)
  <1>1. HistoryOK(r.h)
    BY DEF RecordOK, TablesOK
  <1>2. /\ DOMAIN q = {"cache", "file", "status", "inc", "go", "crashed", "h"}
        /\ q.cache = r.cache /\ q.file = r.file /\ q.status = r.status
        /\ q.inc = r.inc /\ q.go = FALSE /\ q.crashed = r.crashed
        /\ q.h = [r.h EXCEPT !.whole[x] = FALSE]
    BY DEF Abort, RecordOK
  <1> HIDE DEF q
  <1>3. /\ HistoryOK(q.h) /\ q.h.whole[x] = FALSE /\ q.h.next = r.h.next
        /\ \A y \in Exporters \ {x} : q.h.whole[y] = r.h.whole[y]
        /\ q.h.latest = r.h.latest /\ q.h.retyped = r.h.retyped
        /\ q.h.garbled = r.h.garbled /\ q.h.padded = r.h.padded
        /\ q.h.lost = r.h.lost /\ q.h.misjudged = r.h.misjudged
        /\ q.h.told = r.h.told /\ q.h.refused = r.h.refused
    BY <1>1, <1>2 DEF HistoryOK
  <1>4. TablesOK(q.cache, q.file, q.status, q.h)
    BY <1>2, <1>3, TablesSame DEF RecordOK
  <1>5. RecordOK(q) /\ SameNumbers(r.status, q.status)
    BY <1>2, <1>4 DEF RecordOK, SameNumbers
  <1> QED
    BY <1>3, <1>5 DEF SetStep, q

\* A set of an unknown template is passed over, or the set after it is.
Skipped(r, x) == [r EXCEPT !.h.whole[x] = FALSE]
LEMMA PassedOver ==
  ASSUME NEW r, RecordOK(r), NEW x \in Exporters, NEW n
  PROVE  SetStep(r, Skipped(r, x), x, n)
PROOF
  <1> DEFINE q == Skipped(r, x)
  <1>1. HistoryOK(r.h)
    BY DEF RecordOK, TablesOK
  <1>2. /\ DOMAIN q = {"cache", "file", "status", "inc", "go", "crashed", "h"}
        /\ q.cache = r.cache /\ q.file = r.file /\ q.status = r.status
        /\ q.inc = r.inc /\ q.go = r.go /\ q.crashed = r.crashed
        /\ q.h = [r.h EXCEPT !.whole[x] = FALSE]
    BY DEF RecordOK, Skipped
  <1> HIDE DEF q
  <1>3. /\ HistoryOK(q.h) /\ q.h.whole[x] = FALSE /\ q.h.next = r.h.next
        /\ \A y \in Exporters \ {x} : q.h.whole[y] = r.h.whole[y]
        /\ q.h.latest = r.h.latest /\ q.h.retyped = r.h.retyped
        /\ q.h.garbled = r.h.garbled /\ q.h.padded = r.h.padded
        /\ q.h.lost = r.h.lost /\ q.h.misjudged = r.h.misjudged
        /\ q.h.told = r.h.told /\ q.h.refused = r.h.refused
    BY <1>1, <1>2 DEF HistoryOK
  <1>4. TablesOK(q.cache, q.file, q.status, q.h)
    BY <1>2, <1>3, TablesSame DEF RecordOK
  <1>5. RecordOK(q) /\ SameNumbers(r.status, q.status)
    BY <1>2, <1>4 DEF RecordOK, SameNumbers
  <1> QED
    BY <1>3, <1>5 DEF SetStep, q

TemplateSetType == [kind : {"template"}, tid : Nat, body : Bodies, ok : BOOLEAN]

\* A template is taken, and saved or updated in the file.
LEMMA TemplateStep ==
  ASSUME NEW r, RecordOK(r), r.go, NEW x \in Exporters,
         NEW w \in TemplateSetType,
         NEW cut \in BOOLEAN, ~r.crashed
  PROVE  SetStep(r, HandleTemplate(r, x, w, cut), x, 0)
PROOF
  <1> DEFINE k == Key(x, w.tid)
             b == w.body
             c == r.cache
             g == r.h
             steps == SaveSteps(r.file, k, b, k \in DOMAIN c, cut)
             f == Last(steps)
             g2 == NotedFor(g, c, f, k, b)
             c2 == With(c, k, Entry(b))
             q == [r EXCEPT !.cache = c2, !.file = f, !.h = g2]
  <1>1. CASE ~w.ok
    BY <1>1, AbortStep DEF HandleTemplate
  <1>2. CASE w.ok
    <2>1. HandleTemplate(r, x, w, cut) = q
      BY <1>2 DEF HandleTemplate, NotedFor, OldType
    <2>2. /\ HistoryOK(g) /\ FileOK(r.file) /\ CacheOK(c) /\ StatusOK(r.status)
          /\ FileIsCache(c, r.file, g) /\ Lengths(c, g) /\ RatesOK(r.status, g)
          /\ ~g.misjudged
      BY DEF RecordOK, TablesOK
    <2>3. k \in Keys /\ b \in Bodies
      BY DEF Keys, Key, TemplateSetType
    <2>4. FileOK(f) /\ FileIsCache(c2, f, g2)
      <3>1. /\ steps # << >> /\ Len(steps) \in DOMAIN steps
            /\ \A i \in DOMAIN steps :
                 /\ FileOK(steps[i])
                 /\ steps[i] # r.file \/ i = Len(steps) =>
                      FileIsCache(c2, steps[i], NotedFor(g, c, steps[i], k, b))
        <4> HIDE DEF k, b, c, g
        <4> QED
          BY <2>2, <2>3, StepsKeep
      <3>2. f = steps[Len(steps)]
        BY DEF Last
      <3> HIDE DEF steps, c2, f
      <3> QED
        BY <3>1, <3>2
    <2>5. f.torn \in BOOLEAN
      BY <2>4 DEF FileOK
    <2> HIDE DEF k, b, c, g, f
    <2>6. /\ HistoryOK(g2) /\ g2.padded = g.padded \ {k} /\ g2.next = g.next
          /\ g2.whole = g.whole /\ g2.lost = g.lost
          /\ g2.misjudged = g.misjudged
          /\ g2.told = g.told /\ g2.refused = g.refused
      BY <2>2, <2>5 DEF NotedFor, Noted, HistoryOK
    <2>7. /\ EntryOK(Entry(b)) /\ Fits(Entry(b))
      BY <2>3, EntryIs
    <2>8. /\ DOMAIN c2 = DOMAIN c \cup {k} /\ c2[k] = Entry(b)
          /\ \A l \in DOMAIN c : l # k => c2[l] = c[l]
      BY DEF With
    <2> HIDE DEF c2, g2
    <2>9. CacheOK(c2)
      BY <2>2, <2>3, <2>7, <2>8 DEF CacheOK
    <2>10. Lengths(c2, g2)
      <3>1. ~g2.lost
        BY <2>2, <2>6 DEF Lengths
      <3>2. \A l \in DOMAIN c2 \ g2.padded :
              Fits(c2[l]) \/ (l \in DOMAIN c \ g.padded /\ c2[l] = c[l])
        BY <2>6, <2>7, <2>8
      <3> QED
        BY <2>2, <3>1, <3>2, LengthsKept
    <2>11. RatesOK(r.status, g2)
      BY <2>2, <2>6, RatesSame
    <2>12. TablesOK(c2, f, r.status, g2)
      BY <2>2, <2>4, <2>6, <2>9, <2>10, <2>11 DEF TablesOK
    <2>13. /\ DOMAIN q
              = {"cache", "file", "status", "inc", "go", "crashed", "h"}
           /\ q.cache = c2 /\ q.file = f /\ q.status = r.status
           /\ q.inc = r.inc /\ q.go = r.go /\ q.crashed = r.crashed
           /\ q.h = g2 /\ r.inc \in Nat /\ r.go \in BOOLEAN
           /\ r.crashed \in BOOLEAN
      BY DEF RecordOK
    <2> HIDE DEF q
    <2>14. RecordOK(q) /\ SameNumbers(r.status, q.status)
      BY <2>12, <2>13 DEF RecordOK, SameNumbers
    <2>15. SetStep(r, q, x, 0)
      BY <2>6, <2>13, <2>14 DEF SetStep, g
    <2> QED
      BY <2>1, <2>15
  <1> QED
    BY <1>1, <1>2 DEF TemplateSetType

\* Options data about sampling: the announcement is counted and kept, or refused; with no
\* entry for the exporter the daemon is gone.
LEMMA OptionsStep ==
  ASSUME NEW r, RecordOK(r), r.go, ~r.crashed, NEW x \in Exporters,
         NEW w \in DataSetType, NEW b, NEW n \in Nat
  PROVE  SetStep(r, OptionsData(r, x, w, b, n), x, n)
PROOF
  <1> DEFINE id == IF b.system THEN Global(x) ELSE Own(x)
             s == r.status
             t == Announced(s, id, w.smp, w.rate)
             g == r.h
             told == With(g.told, <<id, w.smp>>, w.rate)
             refused == IF SmpHits(t.tab[id].sampling, w.smp, FALSE) = {}
                        THEN g.refused \cup {<<id, w.smp>>} ELSE g.refused
             g2 == [g EXCEPT !.told = told, !.refused = refused]
  <1>0. /\ r.inc \in Nat /\ r.go \in BOOLEAN /\ r.crashed \in BOOLEAN
        /\ DOMAIN r = {"cache", "file", "status", "inc", "go", "crashed", "h"}
        /\ TablesOK(r.cache, r.file, r.status, r.h)
    BY DEF RecordOK
  <1>1. CASE n = 0
    <2>1. OptionsData(r, x, w, b, n) = r
      BY <1>1 DEF OptionsData
    <2> QED
      BY <1>0, <1>1, <2>1 DEF SetStep, SameNumbers
  <1>2. CASE n # 0 /\ ~Has(s, id)
    <2> DEFINE q == [r EXCEPT !.crashed = TRUE]
    <2>1. OptionsData(r, x, w, b, n) = q
      BY <1>2 DEF OptionsData
    <2>2. /\ DOMAIN q = {"cache", "file", "status", "inc", "go", "crashed", "h"}
          /\ q.cache = r.cache /\ q.file = r.file /\ q.status = r.status
          /\ q.inc = r.inc /\ q.go = r.go /\ q.crashed = TRUE /\ q.h = r.h
      BY <1>0
    <2> HIDE DEF q
    <2>3. RecordOK(q) /\ SameNumbers(r.status, q.status)
      BY <1>0, <2>2 DEF RecordOK, SameNumbers
    <2>4. SetStep(r, q, x, n)
      <3>1. r.status = s /\ r.h = g
        OBVIOUS
      <3> HIDE DEF s, g, id, t, told, refused, g2
      <3> QED
        BY <2>2, <2>3 DEF SetStep
    <2> QED
      BY <2>1, <2>4
  <1>3. CASE n # 0 /\ Has(s, id)
    <2> DEFINE q == [r EXCEPT !.status = t, !.inc = @ + n, !.h = g2]
    <2>1. OptionsData(r, x, w, b, n) = q
      BY <1>3 DEF OptionsData
    <2>2. /\ HistoryOK(g) /\ StatusOK(s) /\ RatesOK(s, g) /\ FileOK(r.file)
          /\ CacheOK(r.cache) /\ FileIsCache(r.cache, r.file, g)
          /\ Lengths(r.cache, g) /\ ~g.misjudged
      BY <1>0 DEF TablesOK
    <2>3. id \in DOMAIN s.tab /\ w.smp \in Nat /\ w.rate \in Rates \cup {1}
      BY <1>3 DEF Has, DataSetType
    <2> HIDE DEF id, s, g
    <2>4. TableThen(s, t, id, w.smp, w.rate)
      BY <2>2, <2>3, AnnouncedIs
    <2>5. /\ HistoryOK(g2) /\ g2.told = told /\ g2.refused = refused
          /\ g2.latest = g.latest /\ g2.retyped = g.retyped
          /\ g2.garbled = g.garbled /\ g2.padded = g.padded
          /\ g2.lost = g.lost /\ g2.misjudged = g.misjudged
          /\ g2.next = g.next /\ g2.whole = g.whole
      <3> HIDE DEF told, refused
      <3> QED
        BY <2>2 DEF HistoryOK
    <2> HIDE DEF g2
    <2>6. RatesOK(t, g2)
      <3> HIDE DEF t, told, refused
      <3>1. g2.told = With(g.told, <<id, w.smp>>, w.rate)
        BY <2>5 DEF told
      <3>2. g2.refused = IF SmpHits(t.tab[id].sampling, w.smp, FALSE) = {}
                         THEN g.refused \cup {<<id, w.smp>>} ELSE g.refused
        BY <2>5 DEF refused
      <3> QED
        BY <2>2, <2>3, <3>1, <3>2, AnnouncedRates DEF t
    <2> HIDE DEF told, refused, t
    <2>7. FileIsCache(r.cache, r.file, g2) /\ Lengths(r.cache, g2)
      <3>1. \A l : LineOK(l, r.cache, g) => LineOK(l, r.cache, g2)
        BY <2>5 DEF LineOK
      <3>2. FileIsCache(r.cache, r.file, g2)
        BY <2>2, <2>5, <3>1 DEF FileIsCache
      <3>3. Lengths(r.cache, g2)
        <4>1. ~g2.lost
          BY <2>2, <2>5 DEF Lengths
        <4>2. \A l \in DOMAIN r.cache \ g2.padded :
                l \in DOMAIN r.cache \ g.padded /\ r.cache[l] = r.cache[l]
          BY <2>5
        <4> QED
          BY <2>2, <4>1, <4>2, LengthsKept
      <3> QED
        BY <3>2, <3>3
    <2>8. StatusOK(t)
      BY <2>4 DEF TableThen
    <2>9. SameNumbers(s, t)
      BY <2>4 DEF TableThen, SameNumbers
    <2>10. TablesOK(r.cache, r.file, t, g2)
      BY <2>2, <2>5, <2>6, <2>7, <2>8 DEF TablesOK
    <2>11. /\ DOMAIN q
              = {"cache", "file", "status", "inc", "go", "crashed", "h"}
           /\ q.cache = r.cache /\ q.file = r.file /\ q.status = t
           /\ q.inc = r.inc + n /\ q.go = r.go /\ q.crashed = r.crashed
           /\ q.h = g2
      BY <1>0
    <2> HIDE DEF q
    <2>12. RecordOK(q)
      BY <1>0, <2>10, <2>11 DEF RecordOK
    <2>13. SetStep(r, q, x, n)
      BY <2>5, <2>9, <2>11, <2>12 DEF SetStep, s, g
    <2> QED
      BY <2>1, <2>13
  <1> QED
    BY <1>1, <1>2, <1>3

\* A data set that is read, of a template or of options, or passed over.
LEMMA DataStep ==
  ASSUME NEW r, RecordOK(r), r.go, ~r.crashed, NEW x \in Exporters,
         NEW w \in DataSetType
  PROVE  SetStep(r, DataSet(r, x, w), x, Len(w.vs))
PROOF
  <1> DEFINE k == Key(x, w.tid)
             c == r.cache
             e == c[k]
             got == ReadSet(e, w)
             match == e.body = w.body
             g == r.h
             whole == g.whole[x] /\ match /\ got.n = Len(w.vs)
             lost == g.lost \/ (/\ match /\ Counted(e.body)
                                /\ k \notin g.padded /\ got.n < Len(w.vs))
             padded == IF w.pad > 0 \/ w.vs = << >> \/ ~match
                       THEN g.padded \cup {k} ELSE g.padded
             g2 == [g EXCEPT !.whole[x] = whole, !.lost = lost,
               !.padded = padded]
             q == [r EXCEPT !.h = g2]
             c2 == [c EXCEPT ![k].len = got.len]
             z == [q EXCEPT !.cache = c2, !.inc = @ + got.n]
  <1>0. /\ r.inc \in Nat /\ r.go \in BOOLEAN /\ r.crashed \in BOOLEAN
        /\ DOMAIN r = {"cache", "file", "status", "inc", "go", "crashed", "h"}
        /\ TablesOK(r.cache, r.file, r.status, r.h)
    BY DEF RecordOK
  <1>1. CASE k \notin DOMAIN c
    <2>1. DataSet(r, x, w) = Skipped(r, x)
      BY <1>1 DEF DataSet, Skipped
    <2> QED
      BY <2>1, PassedOver
  <1>2. CASE k \in DOMAIN c /\ Endless(e)
    <2> DEFINE p == [r EXCEPT !.crashed = TRUE]
    <2>1. DataSet(r, x, w) = p
      BY <1>2 DEF DataSet
    <2>2. /\ DOMAIN p = {"cache", "file", "status", "inc", "go", "crashed", "h"}
          /\ p.cache = r.cache /\ p.file = r.file /\ p.status = r.status
          /\ p.inc = r.inc /\ p.go = r.go /\ p.crashed = TRUE /\ p.h = r.h
      BY <1>0
    <2> HIDE DEF p
    <2>3. RecordOK(p) /\ SameNumbers(r.status, p.status)
      BY <1>0, <2>2 DEF RecordOK, SameNumbers
    <2>4. SetStep(r, p, x, Len(w.vs))
      BY <2>2, <2>3 DEF SetStep
    <2> QED
      BY <2>1, <2>4
  <1>3. CASE k \in DOMAIN c /\ ~Endless(e)
    <2>1. /\ HistoryOK(g) /\ StatusOK(r.status) /\ RatesOK(r.status, g)
          /\ FileOK(r.file) /\ CacheOK(c) /\ FileIsCache(c, r.file, g)
          /\ Lengths(c, g) /\ ~g.misjudged
      BY <1>0 DEF TablesOK
    <2>2. EntryOK(e)
      BY <1>3, <2>1 DEF CacheOK
    <2>3. DataSet(r, x, w) = IF e.body.type = 1
                             THEN OptionsData(q, x, w, e.body, got.n) ELSE z
      <3> DEFINE p == [r EXCEPT !.h.whole[x] = @ /\ match /\ got.n = Len(w.vs),
                   !.h.lost = @ \/ (/\ match /\ Counted(e.body)
                                    /\ k \notin r.h.padded
                                    /\ got.n < Len(w.vs)),
                   !.h.padded = IF w.pad > 0 \/ w.vs = << >> \/ ~match
                                THEN @ \cup {k} ELSE @]
      <3>1. DataSet(r, x, w) =
              IF e.body.type = 1 THEN OptionsData(p, x, w, e.body, got.n)
              ELSE [p EXCEPT !.cache[k].len = got.len, !.inc = @ + got.n]
        BY <1>3 DEF DataSet
      <3>2. p = q
        <4> HIDE DEF match, got, k
        <4> QED
          BY <1>0, <2>1 DEF HistoryOK
      <3>3. q.cache = c
        BY <1>0
      <3>4. [q EXCEPT !.cache[k].len = got.len, !.inc = @ + got.n] = z
        <4> HIDE DEF q, got, k, c
        <4> QED
          BY <3>3
      <3> HIDE DEF p, q, e, got, k
      <3> QED
        BY <3>1, <3>2, <3>4
    <2>4. /\ got.n \in Nat /\ got.len \in Nat /\ Len(w.vs) \in Nat
          /\ Static(e.body) => got.len = e.len
          /\ match /\ Fits(e) /\ Counted(e.body) => got.n >= Len(w.vs)
          /\ match /\ Fits(e) /\ w.pad = 0 /\ w.vs # << >> =>
               Static(e.body) \/ got.len = 1
      <3> HIDE DEF e
      <3> QED
        BY <1>3, <2>2, ReadSetIs
    <2>5. w.pad \in Nat
      BY DEF DataSetType
    <2> HIDE DEF e, k, got, match, g, c
    <2>6. lost = FALSE
      <3>1. g.lost = FALSE
        BY <2>1 DEF Lengths, HistoryOK
      <3>2. k \notin g.padded => Fits(e)
        BY <1>3, <2>1 DEF Lengths, e
      <3> QED
        BY <2>4, <3>1, <3>2
    <2>7. /\ HistoryOK(g2) /\ g2.whole[x] = whole /\ g2.lost = FALSE
          /\ g2.padded = padded /\ g2.latest = g.latest
          /\ g2.retyped = g.retyped /\ g2.garbled = g.garbled
          /\ g2.told = g.told /\ g2.refused = g.refused
          /\ g2.misjudged = g.misjudged /\ g2.next = g.next
          /\ \A y \in Exporters \ {x} : g2.whole[y] = g.whole[y]
      <3>1. whole \in BOOLEAN
        BY <2>1 DEF HistoryOK
      <3> HIDE DEF whole, lost, padded
      <3> QED
        BY <2>1, <2>6, <3>1 DEF HistoryOK
    <2>8. /\ g.padded \subseteq g2.padded
          /\ k \notin g2.padded => /\ match /\ w.pad = 0 /\ w.vs # << >>
                                   /\ k \notin g.padded
      BY <2>5, <2>7
    <2>9. whole => g.whole[x] /\ got.n = Len(w.vs)
      OBVIOUS
    <2> HIDE DEF whole, lost, padded, g2
    <2>10. Lengths(c, g2)
      <3>1. ~g2.lost
        BY <2>7
      <3>2. \A l \in DOMAIN c \ g2.padded : l \in DOMAIN c \ g.padded /\ c[l] = c[l]
        BY <2>8
      <3> QED
        BY <2>1, <3>1, <3>2, LengthsKept
    <2>11. RatesOK(r.status, g2)
      BY <2>1, <2>7, RatesSame
    <2>12. /\ DOMAIN q
              = {"cache", "file", "status", "inc", "go", "crashed", "h"}
           /\ q.cache = c /\ q.file = r.file /\ q.status = r.status
           /\ q.inc = r.inc /\ q.go = r.go /\ q.crashed = r.crashed
           /\ q.h = g2
      BY <1>0 DEF c
    <2> HIDE DEF q
    <2>13. CASE e.body.type = 1
      <3>1. FileIsCache(c, r.file, g2)
        <4>1. \A l : LineOK(l, c, g) => LineOK(l, c, g2)
          BY <2>7 DEF LineOK
        <4> QED
          BY <2>1, <2>7, <4>1 DEF FileIsCache
      <3>2. TablesOK(c, r.file, r.status, g2)
        BY <2>1, <2>7, <2>10, <2>11, <3>1 DEF TablesOK
      <3>3. RecordOK(q) /\ q.go /\ ~q.crashed
        BY <1>0, <2>12, <3>2 DEF RecordOK
      <3> DEFINE o == OptionsData(q, x, w, e.body, got.n)
      <3>4. SetStep(q, o, x, got.n)
        BY <2>4, <3>3, OptionsStep
      <3> HIDE DEF o
      <3>5. SetStep(r, o, x, Len(w.vs))
        BY <2>7, <2>9, <2>12, <3>4 DEF SetStep, SameNumbers, g
      <3> QED
        BY <2>3, <2>13, <3>5 DEF o
    <2>14. CASE e.body.type # 1
      <3>1. /\ DOMAIN c2 = DOMAIN c /\ c2[k] = [e EXCEPT !.len = got.len]
            /\ \A l \in DOMAIN c : l # k => c2[l] = c[l]
        BY <1>3 DEF e
      <3>2. /\ EntryOK(c2[k]) /\ c2[k].body = e.body /\ c2[k].len = got.len
        BY <2>2, <2>4, <3>1 DEF EntryOK
      <3> HIDE DEF c2
      <3>3. \A l \in DOMAIN c : c2[l].body = c[l].body
        BY <3>1, <3>2 DEF e
      <3>4. CacheOK(c2)
        BY <2>1, <3>1, <3>2 DEF CacheOK
      <3>5. Lengths(c2, g2)
        <4>1. k \notin g2.padded => Fits(c2[k])
          <5>1. k \notin g.padded => Fits(e)
            BY <1>3, <2>1 DEF Lengths, e
          <5> QED
            BY <2>4, <2>8, <3>2, <5>1 DEF Fits
        <4>2. \A l \in DOMAIN c : l # k /\ l \notin g2.padded => Fits(c2[l])
          BY <2>10, <3>1 DEF Lengths
        <4> QED
          BY <2>7, <3>1, <4>1, <4>2 DEF Lengths
      <3>6. FileIsCache(c2, r.file, g2)
        <4>1. \A l : LineOK(l, c, g) => LineOK(l, c2, g2)
          BY <2>7, <3>1 DEF LineOK
        <4> QED
          BY <2>1, <2>7, <3>1, <3>3, <4>1 DEF FileIsCache
      <3>7. TablesOK(c2, r.file, r.status, g2)
        BY <2>1, <2>7, <2>11, <3>4, <3>5, <3>6 DEF TablesOK
      <3>8. /\ DOMAIN z
               = {"cache", "file", "status", "inc", "go", "crashed", "h"}
            /\ z.cache = c2 /\ z.file = r.file /\ z.status = r.status
            /\ z.inc = r.inc + got.n /\ z.go = r.go /\ z.crashed = r.crashed
            /\ z.h = g2
        BY <2>12
      <3> HIDE DEF z
      <3>9. RecordOK(z) /\ SameNumbers(r.status, z.status)
        BY <1>0, <2>4, <3>7, <3>8 DEF RecordOK, SameNumbers
      <3>10. SetStep(r, z, x, Len(w.vs))
        BY <2>7, <2>9, <3>8, <3>9 DEF SetStep, g
      <3> QED
        BY <2>3, <2>14, <3>10
    <2> QED
      BY <2>13, <2>14
  <1> QED
    BY <1>1, <1>2, <1>3

\* One set, of whatever kind.
LEMMA FlowSetStep ==
  ASSUME NEW r, RecordOK(r), NEW x \in Exporters, r.h.whole[x] => r.go,
         NEW w \in FlowSetType, NEW cut \in BOOLEAN
  PROVE  /\ SetStep(r, FlowSet(r, x, w, cut), x, RecordsIn(w))
         /\ RecordsIn(w) \in Nat
PROOF
  <1> DEFINE q == FlowSet(r, x, w, cut)
  <1>1. CASE w.kind = "template"
    <2>1. w \in TemplateSetType /\ RecordsIn(w) = 0
      BY <1>1 DEF FlowSetType, TemplateSetType, RecordsIn
    <2>2. r.go /\ ~r.crashed => q = HandleTemplate(r, x, w, cut)
      BY <1>1 DEF FlowSet
    <2>3. r.go /\ ~r.crashed => SetStep(r, q, x, 0)
      BY <2>1, <2>2, TemplateStep
    <2>4. ~r.go \/ r.crashed => q = r
      BY DEF FlowSet
    <2> HIDE DEF q
    <2>5. ~r.go \/ r.crashed => SetStep(r, q, x, 0)
      BY <2>4 DEF SetStep, SameNumbers, RecordOK
    <2> QED
      BY <2>1, <2>3, <2>5 DEF q
  <1>2. CASE w.kind = "data"
    <2>1. /\ w \in DataSetType /\ RecordsIn(w) = Len(w.vs)
      BY <1>2 DEF FlowSetType, DataSetType, RecordsIn
    <2>2. Len(w.vs) \in Nat
      BY <2>1, LenProperties DEF DataSetType
    <2>3. r.go /\ ~r.crashed => q = DataSet(r, x, w)
      BY <1>2 DEF FlowSet
    <2>4. r.go /\ ~r.crashed => SetStep(r, q, x, Len(w.vs))
      BY <2>1, <2>3, DataStep
    <2>5. ~r.go \/ r.crashed => q = r
      BY DEF FlowSet
    <2> HIDE DEF q
    <2>6. ~r.go \/ r.crashed => SetStep(r, q, x, Len(w.vs))
      BY <2>5 DEF SetStep, SameNumbers, RecordOK
    <2> QED
      BY <2>1, <2>2, <2>4, <2>6 DEF q
  <1>3. CASE w.kind = "short"
    <2>1. RecordsIn(w) = 0
      BY <1>3 DEF RecordsIn
    <2>2. r.go /\ ~r.crashed => q = Abort(r, x)
      BY <1>3 DEF FlowSet
    <2>3. r.go /\ ~r.crashed => SetStep(r, q, x, 0)
      BY <2>2, AbortStep
    <2>4. ~r.go \/ r.crashed => q = r
      BY DEF FlowSet
    <2> HIDE DEF q
    <2>5. ~r.go \/ r.crashed => SetStep(r, q, x, 0)
      BY <2>4 DEF SetStep, SameNumbers, RecordOK
    <2> QED
      BY <2>1, <2>3, <2>5 DEF q
  <1>4. w.kind \in {"template", "data", "short"}
    BY DEF FlowSetType
  <1> QED
    BY <1>1, <1>2, <1>3, <1>4

\* Steps follow each other.
LEMMA StepAfterStep ==
  ASSUME NEW a, a.inc \in Nat, NEW b, NEW c, NEW x \in Exporters, NEW n \in Nat,
         NEW m \in Nat, SetStep(a, b, x, n), SetStep(b, c, x, m)
  PROVE  SetStep(a, c, x, n + m)
PROOF
  <1>1. RecordOK(c) /\ SameNumbers(a.status, c.status)
    BY DEF SetStep, SameNumbers
  <1>2. c.h.whole[x] /\ ~c.crashed => c.inc = a.inc + (n + m)
    BY DEF SetStep
  <1> QED
    BY <1>1, <1>2 DEF SetStep

\* The records r[0 .. m] AllRead() goes through.
IsReading(f, q, x, sets, cut, m) ==
  f = [n \in 0 .. m |->
         IF n = 0 THEN q ELSE FlowSet(f[n - 1], x, sets[n], cut)]

\* They exist, for any number of sets.
LEMMA ReadingExists ==
  ASSUME NEW q, NEW x, NEW sets, NEW cut
  PROVE  \A m \in Nat : \E f : IsReading(f, q, x, sets, cut, m)
PROOF
  <1> DEFINE T == {m \in Nat : \E f : IsReading(f, q, x, sets, cut, m)}
  <1>1. 0 \in T
    <2> DEFINE f == [n \in 0 .. 0 |-> q]
    <2>1. f = [n \in 0 .. 0 |->
                 IF n = 0 THEN q ELSE FlowSet(f[n - 1], x, sets[n], cut)]
      OBVIOUS
    <2>2. IsReading(f, q, x, sets, cut, 0)
      BY <2>1 DEF IsReading
    <2> QED
      BY <2>2
  <1>2. ASSUME NEW m \in Nat, m \in T PROVE m + 1 \in T
    <2>1. PICK f : IsReading(f, q, x, sets, cut, m)
      BY <1>2
    <2> DEFINE step(n, g) ==
                 IF n = 0 THEN q ELSE FlowSet(g[n - 1], x, sets[n], cut)
               g == [n \in 0 .. m + 1 |-> step(n, f)]
    <2>2. \A n \in 0 .. m : f[n] = step(n, f)
      BY <2>1 DEF IsReading
    <2>3. \A n \in 0 .. m : g[n] = f[n]
      BY <2>2
    <2>4. \A n \in 0 .. m + 1 : n = 0 \/ n - 1 \in 0 .. m
      OBVIOUS
    <2>5. \A n \in 0 .. m + 1 : step(n, g) = step(n, f)
      <3> HIDE DEF g
      <3> QED
        BY <2>3, <2>4
    <2>6. g = [n \in 0 .. m + 1 |-> step(n, g)]
      <3> HIDE DEF step
      <3> QED
        BY <2>5
    <2>7. IsReading(g, q, x, sets, cut, m + 1)
      <3> HIDE DEF g
      <3> QED
        BY <2>6 DEF IsReading
    <2> QED
      BY <2>7
  <1>3. Nat \subseteq T
    <2> HIDE DEF T
    <2> QED
      BY <1>1, <1>2, NatSetInduction
  <1> QED
    BY <1>3

\* Sets have numbers of records, and so do datagrams.
LEMMA RecordsType ==
  ASSUME NEW sets \in Seq(FlowSetType)
  PROVE  /\ \A i \in DOMAIN sets : RecordsIn(sets[i]) \in Nat
         /\ Records(sets) \in Nat
PROOF
  <1> DEFINE R == [i \in DOMAIN sets |-> RecordsIn(sets[i])]
  <1>1. \A w \in FlowSetType : w.kind = "data" => Len(w.vs) \in Nat
    BY LenProperties DEF FlowSetType
  <1>2. ASSUME NEW i \in DOMAIN sets PROVE RecordsIn(sets[i]) \in Nat
    <2>1. sets[i] \in FlowSetType
      BY ElementOfSeq, LenProperties
    <2> QED
      BY <1>1, <2>1 DEF RecordsIn
  <1>3. IsFiniteSet(DOMAIN sets)
    BY LenProperties, FS_Interval
  <1>4. DOMAIN R = DOMAIN sets /\ \A i \in DOMAIN sets : R[i] \in Nat
    BY <1>2
  <1> HIDE DEF R
  <1>5. SumFunctionOnSet(R, DOMAIN R) \in Nat
    BY <1>3, <1>4, SumType
  <1> QED
    BY <1>2, <1>5 DEF Records, SumFunction, R

\* All sets of a datagram.
LEMMA AllReadIs ==
  ASSUME NEW x \in Exporters, NEW d, d.sets \in Seq(FlowSetType),
         NEW cut \in BOOLEAN, RecordOK(Judged(x, d)), Judged(x, d).go,
         ~Judged(x, d).crashed, Judged(x, d).h.whole[x]
  PROVE  SetStep(Judged(x, d), AllRead(x, d, cut), x, Records(d.sets))
PROOF
  <1> DEFINE q == Judged(x, d)
             m == Len(d.sets)
             f == CHOOSE g : IsReading(g, q, x, d.sets, cut, m)
             R == [i \in DOMAIN d.sets |-> RecordsIn(d.sets[i])]
             Sum(n) == SumFunctionOnSet(R, 1 .. n)
  <1>1. /\ m \in Nat /\ DOMAIN d.sets = 1 .. m
        /\ \A i \in 1 .. m : d.sets[i] \in FlowSetType
    BY LenProperties, ElementOfSeq
  <1>2. IsReading(f, q, x, d.sets, cut, m)
    <2> HIDE DEF q, m
    <2>1. \E g : IsReading(g, q, x, d.sets, cut, m)
      BY <1>1, ReadingExists
    <2> QED
      BY <2>1
  <1>3. AllRead(x, d, cut) = f[m]
    BY DEF AllRead, IsReading
  <1> HIDE DEF q, f
  <1>4. /\ f[0] = q
        /\ \A n \in 1 .. m : f[n] = FlowSet(f[n - 1], x, d.sets[n], cut)
    <2> HIDE DEF m
    <2>1. f = [n \in 0 .. m |-> IF n = 0 THEN q
                               ELSE FlowSet(f[n - 1], x, d.sets[n], cut)]
      BY <1>2 DEF IsReading
    <2>2. 0 \in 0 .. m /\ \A n \in 1 .. m : n \in 0 .. m /\ n # 0
      BY <1>1
    <2> QED
      BY <2>1, <2>2
  <1>5. \A i \in 1 .. m : R[i] = RecordsIn(d.sets[i]) /\ R[i] \in Nat
    <2>1. \A i \in 1 .. m : RecordsIn(d.sets[i]) \in Nat
      BY <1>1, RecordsType
    <2> QED
      BY <1>1, <2>1
  <1> HIDE DEF R
  <1>6. /\ Sum(0) = 0
        /\ \A n \in 0 .. m : Sum(n) \in Nat
        /\ \A n \in 1 .. m : Sum(n) = R[n] + Sum(n - 1)
    <2>1. Sum(0) = 0
      <3>1. 1 .. 0 = {}
        OBVIOUS
      <3> QED
        BY <3>1, SumStep, FS_EmptySet
    <2>2. ASSUME NEW n \in 0 .. m PROVE Sum(n) \in Nat
      <3>1. IsFiniteSet(1 .. n) /\ \A i \in 1 .. n : R[i] \in Nat
        BY <1>1, <1>5, FS_Interval
      <3> QED
        BY <3>1, SumType
    <2>3. ASSUME NEW n \in 1 .. m PROVE Sum(n) = R[n] + Sum(n - 1)
      <3>0. n \in Int /\ n \in 1 .. n /\ \A i \in 1 .. n : i \in 1 .. m
        BY <1>1
      <3>1. /\ IsFiniteSet(1 .. n) /\ \A i \in 1 .. n : R[i] \in Int
            /\ n \in 1 .. n
        <4>1. IsFiniteSet(1 .. n)
          BY <3>0, FS_Interval
        <4>2. \A i \in 1 .. n : R[i] \in Int
          BY <1>5, <3>0
        <4> QED
          BY <3>0, <4>1, <4>2
      <3>2. (1 .. n) \ {n} = 1 .. n - 1
        BY <1>1
      <3>3. SumFunctionOnSet(R, 1 .. n)
            = R[n] + SumFunctionOnSet(R, (1 .. n) \ {n})
        BY <3>1, SumRemove
      <3> QED
        BY <3>2, <3>3
    <2> QED
      BY <2>1, <2>2, <2>3
  <1> HIDE DEF Sum
  <1>7. Records(d.sets) = Sum(m)
    <2>1. DOMAIN R = 1 .. m
      BY <1>1 DEF R
    <2> QED
      BY <2>1 DEF Records, SumFunction, R, Sum
  <1> HIDE DEF m
  <1>8. q.inc \in Nat /\ RecordOK(q) /\ q.go /\ ~q.crashed
    BY DEF RecordOK, q
  <1> DEFINE T == {n \in Nat : n <= m => SetStep(q, f[n], x, Sum(n))}
  <1>9. 0 \in T
    <2>1. SetStep(q, q, x, 0)
      BY <1>8 DEF SetStep, SameNumbers
    <2> QED
      BY <1>4, <1>6, <2>1
  <1>10. ASSUME NEW n \in Nat, n \in T PROVE n + 1 \in T
    <2> SUFFICES ASSUME n + 1 <= m PROVE SetStep(q, f[n + 1], x, Sum(n + 1))
      OBVIOUS
    <2>1. n \in 0 .. m /\ n + 1 \in 1 .. m /\ (n + 1) - 1 = n
      BY <1>1
    <2>2. SetStep(q, f[n], x, Sum(n))
      BY <1>10, <2>1
    <2>3. f[n + 1] = FlowSet(f[n], x, d.sets[n + 1], cut)
      BY <1>4, <2>1
    <2>4. RecordOK(f[n]) /\ (f[n].h.whole[x] => f[n].go)
      BY <2>2 DEF SetStep
    <2>5. SetStep(f[n], f[n + 1], x, R[n + 1]) /\ R[n + 1] \in Nat
      BY <1>1, <1>5, <2>1, <2>3, <2>4, FlowSetStep
    <2>6. SetStep(q, f[n + 1], x, Sum(n) + R[n + 1])
      BY <1>6, <1>8, <2>1, <2>2, <2>5, StepAfterStep
    <2>7. Sum(n + 1) = Sum(n) + R[n + 1]
      BY <1>6, <2>1, <2>5
    <2> QED
      BY <2>6, <2>7
  <1>11. m \in T
    <2> HIDE DEF T
    <2> QED
      BY <1>1, <1>9, <1>10, NatSetInduction
  <1> QED
    BY <1>1, <1>3, <1>6, <1>7, <1>11 DEF q

-----------------------------------------------------------------------------
(***************************************************************************)
(* Datagrams                                                               *)
(***************************************************************************)
\* Entries of exporters are apart, and apart from those for all sources of one.
LEMMA EntriesApart ==
  ASSUME NEW x \in Exporters, NEW y \in Exporters
  PROVE  Own(y) # Global(x) /\ (Own(y) = Own(x) => y = x)
PROOF
  <1>1. Own(y) # Global(x)
    BY DEF Own, Global
  <1>2. ASSUME Own(y) = Own(x) PROVE y = x
    <2>1. <<y.agent, y.sid>> = <<x.agent, x.sid>>
      BY <1>2 DEF Own
    <2> QED
      BY <2>1, CollectorAssumption
  <1> QED
    BY <1>1, <1>2

\* How far a datagram moves the number expected next.
LEMMA IncrementType ==
  ASSUME NEW x, NEW sets \in Seq(FlowSetType)
  PROVE  Increment(x, sets) \in Nat
PROOF
  BY RecordsType DEF Increment

\* A number less than a wrap away from the one that follows is it if it is good.
LEMMA VerdictIs ==
  ASSUME NEW p \in Nat, NEW n \in Nat, n - p \in 1 - SeqWrap .. SeqWrap - 1
  PROVE  n % SeqWrap = p % SeqWrap <=> n = p
PROOF
  <1>1. SeqWrap \in Nat \ {0}
    BY StatusAssumption
  <1>2. n % SeqWrap = p % SeqWrap => n = p
    BY <1>1, NearRemainders
  <1> QED
    BY <1>2

\* What is known when the sets of a datagram are about to be read.
JudgedOK(q, x, n, next) ==
  /\ RecordOK(q) /\ q.go /\ ~q.crashed /\ q.inc = 0
  /\ q.h.next = next /\ q.h.whole = [h.whole EXCEPT ![x] = TRUE]
  /\ Has(q.status, Own(x)) =>
       q.status.tab[Own(x)].seqno = n % SeqWrap /\ q.status.tab[Own(x)].inc = 1
  /\ \A y \in Exporters \ {x} :
       Has(q.status, Own(y)) =>
         Has(status, Own(y)) /\ q.status.tab[Own(y)] = status.tab[Own(y)]

\* A verdict that JudgedRight lets pass.
LEMMA JudgedIs ==
  ASSUME TablesOK(cache, file, status, h), NEW x \in Exporters,
         Follows(status, x, h), NEW d, DatagramOK(x, d)
  PROVE  JudgedOK(Judged(x, d), x, d.real,
                  [h.next EXCEPT ![x] = d.real + Increment(x, d.sets)])
PROOF
  <1> DEFINE n == d.real % SeqWrap
             s == CheckStatus(status, Own(x), n)
             t == SearchStatus(s, Global(x))
             good == s.tab[Own(x)].good > status.tab[Own(x)].good
             wrong == /\ Has(status, Own(x)) /\ status.tab[Own(x)].seqno # 0
                      /\ h.whole[x]
                      /\ d.real - h.next[x] \in 1 - SeqWrap .. SeqWrap - 1
                      /\ good # (d.real = h.next[x])
             next == [h.next EXCEPT ![x] = d.real + Increment(x, d.sets)]
             g == [h EXCEPT !.next = next, !.whole[x] = TRUE,
                            !.misjudged = @ \/ wrong]
             q == [cache |-> cache, file |-> file, status |-> t, inc |-> 0,
                   go |-> TRUE, crashed |-> FALSE, h |-> g]
  <1>1. /\ HistoryOK(h) /\ FileOK(file) /\ CacheOK(cache) /\ StatusOK(status)
        /\ FileIsCache(cache, file, h) /\ Lengths(cache, h)
        /\ RatesOK(status, h) /\ ~h.misjudged
    BY DEF TablesOK
  <1>2. /\ d.real \in Nat /\ Increment(x, d.sets) \in Nat
        /\ n \in 0 .. SeqWrap - 1
    BY IncrementType, StatusAssumption DEF DatagramOK
  <1>3. Judged(x, d) = q
    <2>1. [h EXCEPT !.next[x] = d.real + Increment(x, d.sets),
          !.whole[x] = TRUE,
                    !.misjudged = @ \/ wrong] = g
      OBVIOUS
    <2> QED
      BY <2>1 DEF Judged
  <1> HIDE DEF n
  <1>4. /\ StatusOK(s) /\ DOMAIN s.tab \subseteq DOMAIN status.tab \cup {Own(x)}
        /\ \A i \in DOMAIN status.tab :
             /\ i \in DOMAIN s.tab /\ s.tab[i].sampling = status.tab[i].sampling
             /\ i # Own(x) => s.tab[i] = status.tab[i]
        /\ Own(x) \in DOMAIN s.tab =>
             s.tab[Own(x)].seqno = n /\ s.tab[Own(x)].inc = 1
        /\ Own(x) \in DOMAIN s.tab \ DOMAIN status.tab =>
             s.tab[Own(x)].sampling = << >>
        /\ Own(x) \in DOMAIN status.tab =>
             (good <=> status.tab[Own(x)].seqno = 0
                       \/ n = Expected(status.tab[Own(x)]))
    BY <1>1, <1>2, CheckIs
  <1> HIDE DEF s, good
  <1>5. /\ StatusOK(t) /\ DOMAIN t.tab \subseteq DOMAIN s.tab \cup {Global(x)}
        /\ \A i \in DOMAIN s.tab : i \in DOMAIN t.tab /\ t.tab[i] = s.tab[i]
        /\ Global(x) \in DOMAIN t.tab \ DOMAIN s.tab
           => t.tab[Global(x)] = NewStatus
    BY <1>4, SearchIs
  <1> HIDE DEF t
  <1>6. ~wrong
    <2> SUFFICES ASSUME Has(status, Own(x)), status.tab[Own(x)].seqno # 0,
                        h.whole[x],
                        d.real - h.next[x] \in 1 - SeqWrap .. SeqWrap - 1
                 PROVE  good = (d.real = h.next[x])
      OBVIOUS
    <2>1. n = Expected(status.tab[Own(x)]) <=> d.real = h.next[x]
      <3> HIDE DEF next, g, q, t, n
      <3> DEFINE m == d.real
                 p == h.next[x]
      <3>1. m \in Nat /\ p \in Nat /\ m - p \in 1 - SeqWrap .. SeqWrap - 1
        BY <1>1, <1>2 DEF HistoryOK
      <3>2. Expected(status.tab[Own(x)]) = p % SeqWrap
        BY DEF Follows
      <3>3. n = m % SeqWrap
        BY DEF n
      <3> HIDE DEF m, p
      <3>4. m % SeqWrap = p % SeqWrap <=> m = p
        BY <3>1, VerdictIs
      <3> QED
        BY <3>2, <3>3, <3>4 DEF m, p
    <2>2. good <=> n = Expected(status.tab[Own(x)])
      BY <1>4 DEF Has
    <2>3. good \in BOOLEAN
      BY DEF good
    <2> QED
      BY <2>1, <2>2, <2>3
  <1> HIDE DEF wrong
  <1>7. next \in [Exporters -> Nat]
    BY <1>1, <1>2 DEF HistoryOK
  <1> HIDE DEF next
  <1>8. /\ HistoryOK(g) /\ g.next = next
        /\ g.whole = [h.whole EXCEPT ![x] = TRUE]
        /\ g.latest = h.latest /\ g.retyped = h.retyped /\ g.garbled = h.garbled
        /\ g.padded = h.padded /\ g.lost = h.lost /\ g.misjudged = h.misjudged
        /\ g.told = h.told /\ g.refused = h.refused
    BY <1>1, <1>6, <1>7 DEF HistoryOK
  <1> HIDE DEF g
  <1>9. RatesOK(t, g)
    <2>1. \A i \in DOMAIN status.tab :
            i \in DOMAIN t.tab /\ t.tab[i].sampling = status.tab[i].sampling
      BY <1>4, <1>5
    <2>2. \A i \in DOMAIN t.tab \ DOMAIN status.tab : t.tab[i].sampling = << >>
      BY <1>4, <1>5 DEF NewStatus
    <2> QED
      BY <1>1, <1>8, <2>1, <2>2, RatesStay
  <1>10. TablesOK(cache, file, t, h)
    <2>1. RatesOK(t, h)
      BY <1>8, <1>9, RatesSame
    <2> QED
      BY <1>1, <1>5, <2>1 DEF TablesOK
  <1>11. TablesOK(cache, file, t, g)
    BY <1>8, <1>10, TablesSame
  <1>12. RecordOK(q) /\ q.go /\ ~q.crashed /\ q.inc = 0 /\ q.h = g
         /\ q.status = t
    BY <1>11 DEF RecordOK
  <1>13. Has(t, Own(x)) => t.tab[Own(x)].seqno = n /\ t.tab[Own(x)].inc = 1
    BY <1>4, <1>5, EntriesApart DEF Has
  <1>14. ASSUME NEW y \in Exporters \ {x}, Has(t, Own(y))
         PROVE  Has(status, Own(y)) /\ t.tab[Own(y)] = status.tab[Own(y)]
    <2>1. Own(y) # Global(x) /\ Own(y) # Own(x)
      BY EntriesApart
    <2> QED
      BY <1>4, <1>5, <1>14, <2>1 DEF Has
  <1> HIDE DEF q
  <1>15. JudgedOK(q, x, d.real, next)
    BY <1>8, <1>12, <1>13, <1>14 DEF JudgedOK, n
  <1> QED
    BY <1>3, <1>15 DEF next

\* The increment of an IPFIX exporter that is set when its datagram was read to its end.
LEMMA FinishedIs ==
  ASSUME NEW r, RecordOK(r), NEW x \in Exporters
  PROVE  LET z == Finished(r, x)
         IN /\ RecordOK(z) /\ z.h = r.h /\ z.file = r.file
            /\ z.crashed = r.crashed
            /\ DOMAIN z.status.tab = DOMAIN r.status.tab
            /\ \A i \in DOMAIN r.status.tab :
                 /\ z.status.tab[i].seqno = r.status.tab[i].seqno
                 /\ i # Own(x) => z.status.tab[i] = r.status.tab[i]
            /\ Has(r.status, Own(x)) =>
                 z.status.tab[Own(x)].inc =
                   IF x.ver = 10 /\ r.go /\ ~r.crashed THEN r.inc
                   ELSE r.status.tab[Own(x)].inc
PROOF
  <1> DEFINE z == Finished(r, x)
             set == x.ver = 10 /\ r.go /\ ~r.crashed /\ Has(r.status, Own(x))
             s == r.status
             e == [s.tab[Own(x)] EXCEPT !.inc = r.inc]
             t == [s EXCEPT !.tab[Own(x)] = e]
  <1>0. /\ r.inc \in Nat /\ r.go \in BOOLEAN /\ r.crashed \in BOOLEAN
        /\ DOMAIN r = {"cache", "file", "status", "inc", "go", "crashed", "h"}
        /\ TablesOK(r.cache, r.file, r.status, r.h)
    BY DEF RecordOK
  <1>1. CASE ~set
    <2>1. z = r
      BY <1>1 DEF Finished
    <2>2. Has(r.status, Own(x)) => ~(x.ver = 10 /\ r.go /\ ~r.crashed)
      BY <1>1
    <2> HIDE DEF set, z
    <2> QED
      BY <2>1, <2>2 DEF z
  <1>2. CASE set
    <2>1. z = [r EXCEPT !.status = t]
      BY <1>2 DEF Finished
    <2>2. StatusOK(s) /\ RatesOK(s, r.h) /\ Own(x) \in DOMAIN s.tab
      BY <1>0, <1>2 DEF TablesOK, Has
    <2>3. s.tab[Own(x)] \in StatusEntry /\ DOMAIN s = {"tab", "used"}
      BY <2>2 DEF StatusOK
    <2>4. /\ e \in StatusEntry /\ e.sampling = s.tab[Own(x)].sampling
          /\ e.seqno = s.tab[Own(x)].seqno /\ e.inc = r.inc
      BY <1>0, <2>3 DEF StatusEntry
    <2> HIDE DEF e, s
    <2>5. StatusOK(t)
      BY <2>2, <2>4, EntryChanged
    <2>6. /\ DOMAIN t.tab = DOMAIN s.tab /\ t.tab[Own(x)] = e
          /\ \A i \in DOMAIN s.tab : i # Own(x) => t.tab[i] = s.tab[i]
      BY <2>2, <2>3
    <2> HIDE DEF t
    <2>7. RatesOK(t, r.h)
      <3>1. \A i \in DOMAIN s.tab :
              i \in DOMAIN t.tab /\ t.tab[i].sampling = s.tab[i].sampling
        BY <2>4, <2>6
      <3>2. \A i \in DOMAIN t.tab \ DOMAIN s.tab : t.tab[i].sampling = << >>
        BY <2>6
      <3> QED
        BY <2>2, <3>1, <3>2, RatesStay
    <2>8. TablesOK(r.cache, r.file, t, r.h)
      BY <1>0, <2>5, <2>7 DEF TablesOK
    <2> HIDE DEF z
    <2>9. /\ DOMAIN z = {"cache", "file", "status", "inc", "go", "crashed", "h"}
          /\ z.cache = r.cache /\ z.file = r.file /\ z.status = t
          /\ z.inc = r.inc /\ z.go = r.go /\ z.crashed = r.crashed
          /\ z.h = r.h
      BY <1>0, <2>1
    <2>10. RecordOK(z)
      BY <1>0, <2>8, <2>9 DEF RecordOK
    <2>11. \A i \in DOMAIN s.tab :
             /\ t.tab[i].seqno = s.tab[i].seqno
             /\ i # Own(x) => t.tab[i] = s.tab[i]
      BY <2>4, <2>6
    <2>12. t.tab[Own(x)].inc = r.inc
      BY <2>4, <2>6
    <2> QED
      BY <1>2, <2>6, <2>9, <2>10, <2>11, <2>12 DEF z, s
  <1> QED
    BY <1>1, <1>2

\* A daemon that starts: an empty table, the templates of the file.
LEMMA StartedIs ==
  ASSUME NEW c, NEW f, FileOK(f), NEW g, HistoryOK(g), FileIsCache(c, f, g),
         ~g.lost, ~g.misjudged
  PROVE  /\ TablesOK(Loaded(f), f, EmptyStatus, Reset(g))
         /\ \A x \in Exporters : Follows(EmptyStatus, x, Reset(g))
PROOF
  <1> DEFINE g2 == Reset(g)
  <1>1. /\ HistoryOK(g2) /\ g2.told = << >> /\ g2.refused = {}
        /\ g2.misjudged = g.misjudged
    BY DEF Reset, HistoryOK
  <1> HIDE DEF g2
  <1>2. EmptyStatus.tab = << >> /\ EmptyStatus.used = 0
        /\ DOMAIN EmptyStatus = {"tab", "used"}
    BY DEF EmptyStatus
  <1>3. DOMAIN EmptyStatus.tab = {}
    BY <1>2
  <1>4. StatusOK(EmptyStatus)
    <2>1. Charge(EmptyStatus.tab) = 0
      BY <1>3, SumStep, FS_EmptySet DEF Charge
    <2> QED
      BY <1>2, <1>3, <2>1, FS_EmptySet, StatusAssumption DEF StatusOK
  <1>5. RatesOK(EmptyStatus, g2)
    <2>1. DOMAIN g2.told = {}
      BY <1>1
    <2> QED
      BY <1>3, <2>1 DEF RatesOK
  <1>6. CacheOK(Loaded(f))
    BY LoadedIs
  <1>7. FileIsCache(Loaded(f), f, g2) /\ Lengths(Loaded(f), g2)
    BY LoadedAgrees DEF g2
  <1>8. TablesOK(Loaded(f), f, EmptyStatus, g2)
    BY <1>1, <1>4, <1>5, <1>6, <1>7 DEF TablesOK
  <1>9. \A x \in Exporters : Follows(EmptyStatus, x, g2)
    BY <1>3 DEF Follows, Has
  <1> QED
    BY <1>8, <1>9 DEF g2

\* what holds between datagrams
Between(c, f, s, g) ==
  TablesOK(c, f, s, g) /\ \A x \in Exporters : Follows(s, x, g)

\* The whole of process_v9_packet().
LEMMA ProcessKeeps ==
  ASSUME Between(cache, file, status, h), NEW x \in Exporters, NEW d,
         DatagramOK(x, d), NEW cut \in BOOLEAN, ProcessV9Packet(x, d, cut)
  PROVE  Between(cache', file', status', h')
PROOF
  <1> DEFINE q == Judged(x, d)
             r == AllRead(x, d, cut)
             z == Finished(r, x)
             next == [h.next EXCEPT ![x] = d.real + Increment(x, d.sets)]
  <1>1. /\ HistoryOK(h) /\ TablesOK(cache, file, status, h)
        /\ \A y \in Exporters : Follows(status, y, h)
        /\ d.real \in Nat /\ d.sets \in Seq(FlowSetType)
    BY DEF Between, TablesOK, DatagramOK
  <1>2. JudgedOK(q, x, d.real, next)
    BY <1>1, JudgedIs
  <1>3. SetStep(q, r, x, Records(d.sets))
    <2>1. RecordOK(q) /\ q.go /\ ~q.crashed /\ q.h.whole[x]
      BY <1>1, <1>2 DEF JudgedOK, HistoryOK
    <2> QED
      BY <1>1, <2>1, AllReadIs
  <1>4. IF z.crashed THEN Started(z.file) /\ h' = Reset(z.h)
        ELSE cache' = z.cache /\ file' = z.file /\ status' = z.status
          /\ h' = z.h
    BY DEF ProcessV9Packet
  <1>5. RecordOK(r)
    BY <1>3 DEF SetStep
  <1> HIDE DEF q, r
  <1>6. /\ RecordOK(z) /\ z.h = r.h /\ z.crashed = r.crashed
        /\ DOMAIN z.status.tab = DOMAIN r.status.tab
        /\ \A i \in DOMAIN r.status.tab :
             /\ z.status.tab[i].seqno = r.status.tab[i].seqno
             /\ i # Own(x) => z.status.tab[i] = r.status.tab[i]
        /\ Has(r.status, Own(x)) =>
             z.status.tab[Own(x)].inc =
               IF x.ver = 10 /\ r.go /\ ~r.crashed THEN r.inc
               ELSE r.status.tab[Own(x)].inc
    BY <1>5, FinishedIs
  <1> HIDE DEF z
  <1>7. TablesOK(z.cache, z.file, z.status, z.h)
    BY <1>6 DEF RecordOK
  <1>8. CASE z.crashed
    <2>1. /\ HistoryOK(z.h) /\ FileOK(z.file)
          /\ FileIsCache(z.cache, z.file, z.h)
          /\ ~z.h.lost /\ ~z.h.misjudged
      BY <1>7 DEF TablesOK, Lengths
    <2>2. /\ cache' = Loaded(z.file) /\ file' = z.file /\ status' = EmptyStatus
          /\ h' = Reset(z.h)
      BY <1>4, <1>8 DEF Started
    <2> QED
      BY <2>1, <2>2, StartedIs DEF Between
  <1>9. CASE ~z.crashed
    <2>1. SameNumbers(q.status, r.status) /\ r.h.next = next
      BY <1>2, <1>3 DEF SetStep, JudgedOK
    <2>2. ASSUME NEW y \in Exporters, y # x PROVE Follows(z.status, y, z.h)
      <3>1. z.h.next[y] = h.next[y] /\ z.h.whole[y] = h.whole[y]
        BY <1>1, <1>2, <1>3, <1>6, <2>1, <2>2 DEF SetStep, JudgedOK, HistoryOK
      <3>2. Own(y) # Own(x)
        BY <2>2, EntriesApart
      <3>3. ASSUME Has(z.status, Own(y))
            PROVE  /\ Has(status, Own(y))
                   /\ z.status.tab[Own(y)].seqno = status.tab[Own(y)].seqno
                   /\ z.status.tab[Own(y)].inc = status.tab[Own(y)].inc
        <4>1. Own(y) \in DOMAIN r.status.tab
              /\ z.status.tab[Own(y)] = r.status.tab[Own(y)]
          BY <1>6, <3>2, <3>3 DEF Has
        <4>2. /\ Own(y) \in DOMAIN q.status.tab
              /\ r.status.tab[Own(y)].seqno = q.status.tab[Own(y)].seqno
              /\ r.status.tab[Own(y)].inc = q.status.tab[Own(y)].inc
          BY <2>1, <4>1 DEF SameNumbers
        <4>3. Has(status, Own(y)) /\ q.status.tab[Own(y)] = status.tab[Own(y)]
          BY <1>2, <2>2, <4>2 DEF JudgedOK, Has
        <4> QED
          BY <4>1, <4>2, <4>3
      <3>4. Follows(status, y, h)
        BY <1>1
      <3> QED
        BY <3>1, <3>3, <3>4 DEF Follows, Expected
    <2>3. Follows(z.status, x, z.h)
      <3> SUFFICES ASSUME Has(z.status, Own(x)), z.h.whole[x]
                   PROVE  Expected(z.status.tab[Own(x)]) = z.h.next[x] % SeqWrap
        BY DEF Follows
      <3> DEFINE e == z.status.tab[Own(x)]
                 inc == Increment(x, d.sets)
      <3>1. /\ Own(x) \in DOMAIN r.status.tab
            /\ e.seqno = r.status.tab[Own(x)].seqno
            /\ e.inc = IF x.ver = 10 /\ r.go /\ ~r.crashed THEN r.inc
                       ELSE r.status.tab[Own(x)].inc
        BY <1>6 DEF Has
      <3>2. /\ Own(x) \in DOMAIN q.status.tab
            /\ r.status.tab[Own(x)].seqno = q.status.tab[Own(x)].seqno
            /\ r.status.tab[Own(x)].inc = q.status.tab[Own(x)].inc
        BY <2>1, <3>1 DEF SameNumbers
      <3>3. /\ q.status.tab[Own(x)].seqno = d.real % SeqWrap
            /\ q.status.tab[Own(x)].inc = 1 /\ q.inc = 0
        BY <1>2, <3>2 DEF JudgedOK, Has
      <3>4. r.go /\ ~r.crashed /\ r.inc = 0 + Records(d.sets)
        BY <1>3, <1>6, <1>9, <3>3 DEF SetStep
      <3>5. Records(d.sets) \in Nat /\ inc \in Nat
        BY <1>1, RecordsType, IncrementType
      <3>6. e.seqno = d.real % SeqWrap /\ e.inc = inc
        BY <3>1, <3>2, <3>3, <3>4, <3>5 DEF Increment
      <3>7. z.h.next[x] = d.real + inc
        BY <1>1, <1>6, <2>1 DEF HistoryOK
      <3> HIDE DEF e, inc
      <3>8. ((d.real % SeqWrap) + inc) % SeqWrap = (d.real + inc) % SeqWrap
        BY <1>1, <3>5, StatusAssumption, AddRemainder
      <3>9. Expected(e) = (d.real + inc) % SeqWrap
        BY <3>6, <3>8 DEF Expected
      <3> QED
        BY <3>7, <3>9 DEF e
    <2>4. Between(z.cache, z.file, z.status, z.h)
      BY <1>7, <2>2, <2>3 DEF Between
    <2> QED
      BY <1>4, <1>9, <2>4
  <1> QED
    BY <1>8, <1>9

-----------------------------------------------------------------------------
(***************************************************************************)
(* The specification                                                       *)
(***************************************************************************)
\* A daemon that starts for the first time, without a file.
LEMMA InitInv == Init => CollectorInv
PROOF
  <1> SUFFICES ASSUME Init PROVE CollectorInv
    OBVIOUS
  <1>1. /\ cache = << >> /\ file = NoFile /\ status = EmptyStatus
        /\ held = [x \in Exporters |-> << >>]
    BY DEF Init
  <1>2. real \in [Exporters -> Nat]
    BY CollectorAssumption DEF Init
  <1>3. /\ HistoryOK(h) /\ ~h.lost /\ ~h.misjudged /\ h.told = << >>
        /\ h.refused = {} /\ h.padded = {}
    BY <1>2 DEF Init, HistoryOK
  <1>4. FileOK(file) /\ DOMAIN file.lines = {} /\ ~file.torn
    BY <1>1, EmptySeq DEF NoFile, FileOK
  <1>5. DOMAIN cache = {}
    BY <1>1
  <1>6. FileIsCache(cache, file, h)
    BY <1>4, <1>5 DEF FileIsCache
  <1>7. TablesOK(Loaded(file), file, status, h)
        /\ \A x \in Exporters : Follows(status, x, h)
    <2> DEFINE g == Reset(h)
    <2>1. /\ TablesOK(Loaded(file), file, status, g)
          /\ \A x \in Exporters : Follows(status, x, g)
      BY <1>1, <1>3, <1>4, <1>6, StartedIs
    <2>2. /\ h.latest = g.latest /\ h.retyped = g.retyped
          /\ h.garbled = g.garbled
          /\ h.padded = g.padded /\ h.lost = g.lost /\ h.misjudged = g.misjudged
          /\ h.told = g.told /\ h.refused = g.refused /\ h.next = g.next
          /\ h.whole = g.whole
      BY <1>3 DEF Reset, HistoryOK
    <2> HIDE DEF g
    <2>3. TablesOK(Loaded(file), file, status, h)
      BY <1>3, <2>1, <2>2, TablesSame
    <2> QED
      BY <2>1, <2>2, <2>3 DEF Follows
  <1>8. CacheOK(cache) /\ Lengths(cache, h)
    BY <1>3, <1>5 DEF CacheOK, Lengths
  <1>9. TablesOK(cache, file, status, h)
    BY <1>6, <1>7, <1>8 DEF TablesOK
  <1>10. DOMAIN held = Exporters /\ HeldOK
    BY <1>1 DEF HeldOK
  <1> QED
    BY <1>2, <1>7, <1>9, <1>10 DEF CollectorInv

\* What an exporter may send has sets of the kinds there are.
LEMMA MaySendType ==
  ASSUME NEW x \in Exporters, NEW sets \in MaySend(x)
  PROVE  sets \in Seq(FlowSetType)
PROOF
  <1>1. sets \in Datagrams(x)
    BY DEF MaySend
  <1> QED
    BY <1>1, CollectorAssumption

\* A datagram that is sent.
LEMMA SendInv ==
  ASSUME CollectorInv, NEW x \in Exporters, NEW sets \in MaySend(x),
         NEW arrives \in BOOLEAN, NEW late \in BOOLEAN,
         Send(x, sets, arrives, late)
  PROVE  CollectorInv'
PROOF
  <1> DEFINE d == [real |-> real[x], sets |-> sets]
             inc == Increment(x, sets)
  <1>1. /\ Between(cache, file, status, h) /\ real \in [Exporters -> Nat]
        /\ DOMAIN held = Exporters /\ HeldOK
    BY DEF CollectorInv, Between
  <1>2. sets \in Seq(FlowSetType) /\ inc \in Nat
    BY MaySendType, IncrementType
  <1>3. DatagramOK(x, d)
    BY <1>1, <1>2 DEF DatagramOK
  <1>4. /\ real' = [real EXCEPT ![x] = @ + inc]
        /\ held' = [held EXCEPT ![x] = IF late THEN <<d>> ELSE @]
    BY DEF Send
  <1> HIDE DEF inc
  <1>5. real' \in [Exporters -> Nat]
    BY <1>1, <1>2, <1>4
  <1>6. DOMAIN held' = Exporters /\ HeldOK'
    <2>1. <<d>>[1] = d
      OBVIOUS
    <2> HIDE DEF d
    <2>2. DOMAIN held' = Exporters
      BY <1>1, <1>4
    <2>3. ASSUME NEW y \in Exporters, held'[y] # << >>
          PROVE  DatagramOK(y, held'[y][1])
      <3>1. CASE y = x /\ late
        BY <1>1, <1>3, <1>4, <2>1, <3>1
      <3>2. CASE ~(y = x /\ late)
        <4>1. held'[y] = held[y]
          BY <1>1, <1>4, <3>2
        <4>2. DatagramOK(y, held[y][1])
          BY <1>1, <2>3, <4>1 DEF HeldOK
        <4> QED
          BY <4>1, <4>2
      <3> QED
        BY <3>1, <3>2
    <2> QED
      BY <2>2, <2>3 DEF HeldOK, DatagramOK
  <1>7. Between(cache', file', status', h')
    <2>1. CASE arrives
      <3>1. PICK cut \in Cuts : ProcessV9Packet(x, d, cut)
        BY <2>1 DEF Send
      <3>2. cut \in BOOLEAN
        BY DEF Cuts
      <3> HIDE DEF d
      <3> QED
        BY <1>1, <1>3, <3>1, <3>2, ProcessKeeps
    <2>2. CASE ~arrives
      <3>1. cache' = cache /\ file' = file /\ status' = status /\ h' = h
        BY <2>2 DEF Send
      <3> QED
        BY <1>1, <3>1
    <2> QED
      BY <2>1, <2>2
  <1> QED
    BY <1>5, <1>6, <1>7 DEF CollectorInv, Between

\* A datagram that comes late.
LEMMA LateInv ==
  ASSUME CollectorInv, NEW x \in Exporters, Late(x)
  PROVE  CollectorInv'
PROOF
  <1> DEFINE d == held[x][1]
  <1>1. /\ Between(cache, file, status, h) /\ real \in [Exporters -> Nat]
        /\ DOMAIN held = Exporters /\ HeldOK
    BY DEF CollectorInv, Between
  <1>2. DatagramOK(x, d)
    BY <1>1 DEF Late, HeldOK
  <1>3. PICK cut \in Cuts : ProcessV9Packet(x, d, cut)
    BY DEF Late
  <1>4. cut \in BOOLEAN
    BY DEF Cuts
  <1>5. Between(cache', file', status', h')
    <2> HIDE DEF d
    <2> QED
      BY <1>1, <1>2, <1>3, <1>4, ProcessKeeps
  <1>6. held' = [held EXCEPT ![x] = << >>] /\ real' = real
    BY DEF Late
  <1>7. DOMAIN held' = Exporters /\ HeldOK'
    <2>1. \A y \in Exporters : held'[y] # << >> => held'[y] = held[y]
      BY <1>1, <1>6
    <2> QED
      BY <1>1, <1>6, <2>1 DEF HeldOK, DatagramOK
  <1> QED
    BY <1>1, <1>5, <1>6, <1>7 DEF CollectorInv, Between

\* A restart between two datagrams.
LEMMA RestartInv == CollectorInv /\ Restart => CollectorInv'
PROOF
  <1> SUFFICES ASSUME CollectorInv, Restart PROVE CollectorInv'
    OBVIOUS
  <1>1. /\ FileOK(file) /\ HistoryOK(h) /\ FileIsCache(cache, file, h)
        /\ ~h.lost /\ ~h.misjudged
    BY DEF CollectorInv, TablesOK, Lengths
  <1>2. /\ cache' = Loaded(file) /\ file' = file /\ status' = EmptyStatus
        /\ h' = Reset(h) /\ real' = real /\ held' = held
    BY DEF Restart, Started
  <1>3. TablesOK(cache', file', status', h')
        /\ \A x \in Exporters : Follows(status', x, h')
    BY <1>1, <1>2, StartedIs
  <1> QED
    BY <1>2, <1>3 DEF CollectorInv, HeldOK, DatagramOK

\* A crash while a template is saved: whatever step the file is left in.
LEMMA CrashSavingInv ==
  ASSUME CollectorInv, NEW x \in Exporters, NEW w \in FlowSetType,
         CrashSaving(x, w)
  PROVE  CollectorInv'
PROOF
  <1> DEFINE k == Key(x, w.tid)
             b == w.body
  <1>1. /\ FileOK(file) /\ HistoryOK(h) /\ FileIsCache(cache, file, h)
        /\ ~h.lost /\ ~h.misjudged /\ CacheOK(cache)
        /\ real \in [Exporters -> Nat] /\ DOMAIN held = Exporters /\ HeldOK
    BY DEF CollectorInv, TablesOK, Lengths
  <1>2. w.kind = "template" /\ w.ok
    BY DEF CrashSaving
  <1>3. k \in Keys /\ b \in Bodies
    BY <1>2 DEF FlowSetType, Keys, Key
  <1>4. /\ real' = [real EXCEPT ![x] = @ + Increment(x, <<w>>)] /\ held' = held
    BY DEF CrashSaving
  <1>5. Increment(x, <<w>>) \in Nat
    <2>1. <<w>> \in Seq(FlowSetType)
      OBVIOUS
    <2> QED
      BY <2>1, IncrementType
  <1>6. PICK cut \in Cuts :
          LET steps == SaveSteps(file, k, b, k \in DOMAIN cache, cut)
          IN \E i \in DOMAIN steps :
               /\ Started(steps[i])
               /\ h' = Reset(IF steps[i] = file THEN h
                             ELSE NotedFor(h, cache, steps[i], k, b))
    BY DEF CrashSaving, NotedFor, OldType
  <1> DEFINE steps == SaveSteps(file, k, b, k \in DOMAIN cache, cut)
  <1>7. PICK i \in DOMAIN steps :
          /\ Started(steps[i])
          /\ h' = Reset(IF steps[i] = file THEN h
                        ELSE NotedFor(h, cache, steps[i], k, b))
    BY <1>6
  <1> DEFINE f == steps[i]
             g == IF f = file THEN h ELSE NotedFor(h, cache, f, k, b)
             c == IF f = file THEN cache ELSE With(cache, k, Entry(b))
  <1>8. cut \in BOOLEAN
    BY DEF Cuts
  <1> HIDE DEF k, b
  <1>9. /\ FileOK(f)
        /\ f # file => FileIsCache(With(cache, k, Entry(b)), f,
                                   NotedFor(h, cache, f, k, b))
    BY <1>1, <1>3, <1>8, StepsKeep
  <1>10. /\ cache' = Loaded(f) /\ file' = f /\ status' = EmptyStatus
         /\ h' = Reset(g)
    BY <1>7 DEF Started
  <1> HIDE DEF f
  <1>11. /\ HistoryOK(g) /\ FileIsCache(c, f, g) /\ ~g.lost /\ ~g.misjudged
    <2>1. CASE f = file
      BY <1>1, <2>1
    <2>2. CASE f # file
      <3> DEFINE n == NotedFor(h, cache, f, k, b)
      <3>1. f.torn \in BOOLEAN
        BY <1>9 DEF FileOK
      <3>2. HistoryOK(n) /\ n.lost = h.lost /\ n.misjudged = h.misjudged
        BY <1>1, <3>1 DEF NotedFor, Noted, HistoryOK
      <3>3. g = n /\ c = With(cache, k, Entry(b))
        BY <2>2
      <3> HIDE DEF g, c, n
      <3> QED
        BY <1>1, <1>9, <2>2, <3>2, <3>3 DEF n
    <2> QED
      BY <2>1, <2>2
  <1> HIDE DEF g, c
  <1>12. TablesOK(cache', file', status', h')
         /\ \A y \in Exporters : Follows(status', y, h')
    BY <1>9, <1>10, <1>11, StartedIs
  <1>13. real' \in [Exporters -> Nat]
    BY <1>1, <1>4, <1>5
  <1> QED
    BY <1>1, <1>4, <1>12, <1>13 DEF CollectorInv, HeldOK, DatagramOK

\* No step breaks the invariant.
LEMMA NextInv == CollectorInv /\ [Next]_vars => CollectorInv'
PROOF
  <1> SUFFICES ASSUME CollectorInv, [Next]_vars PROVE CollectorInv'
    OBVIOUS
  <1>1. ASSUME NEW x \in Exporters, NEW sets \in MaySend(x),
               NEW arrives \in BOOLEAN, NEW late \in BOOLEAN,
               Send(x, sets, arrives, late)
        PROVE  CollectorInv'
    BY <1>1, SendInv
  <1>2. ASSUME NEW x \in Exporters, Late(x) PROVE CollectorInv'
    BY <1>2, LateInv
  <1>3. ASSUME NEW x \in Exporters, NEW sets \in MaySend(x), Len(sets) = 1,
               CrashSaving(x, sets[1])
        PROVE  CollectorInv'
    <2>1. sets \in Seq(FlowSetType)
      BY MaySendType
    <2>2. sets[1] \in FlowSetType
      BY <1>3, <2>1, ElementOfSeq
    <2> QED
      BY <1>3, <2>2, CrashSavingInv
  <1>4. CASE Restart
    BY <1>4, RestartInv
  <1>5. CASE UNCHANGED vars
    BY <1>5 DEF vars, CollectorInv, HeldOK, DatagramOK
  <1> QED
    BY <1>1, <1>2, <1>3, <1>4, <1>5 DEF Next

\* The invariant holds in every state.
LEMMA CollectorInvariant == Spec => []CollectorInv
PROOF
  BY InitInv, NextInv, PTL DEF Spec

-----------------------------------------------------------------------------
(***************************************************************************)
(* Theorems                                                                *)
(***************************************************************************)
\* The status table's entries are well-formed and what has been charged to its budget
\* is what is in it, never more than there may be.
THEOREM StatusIsSound == Spec => []StatusSound
PROOF
  <1>1. CollectorInv => TypeOK
    <2> SUFFICES ASSUME CollectorInv PROVE TypeOK
      OBVIOUS
    <2>1. StatusOK(status) /\ CacheOK(cache) /\ FileOK(file)
      BY DEF CollectorInv, TablesOK
    <2>2. ASSUME NEW id \in DOMAIN status.tab
          PROVE  /\ status.tab[id].seqno \in 0 .. SeqWrap - 1
                 /\ status.tab[id].inc \in Nat
                 /\ \A c \in {"good", "jumps_f", "jumps_b"} : status.tab[id][c]
                    \in Nat
      BY <2>1 DEF StatusOK, StatusEntry
    <2>3. ASSUME NEW k \in DOMAIN cache
          PROVE  IF Static(cache[k].body)
                 THEN cache[k].len = Entry(cache[k].body).len
                 ELSE cache[k].len \in Nat
      BY <2>1 DEF CacheOK, EntryOK
    <2>4. file.torn => file.lines # << >> /\ Last(file.lines) = << >>
      BY <2>1 DEF FileOK
    <2> QED
      BY <2>2, <2>3, <2>4 DEF TypeOK
  <1>2. CollectorInv => StatusAccounted
    <2> SUFFICES ASSUME CollectorInv PROVE StatusAccounted
      OBVIOUS
    <2>1. /\ status.used = Charge(status.tab)
          /\ status.used <= XFLOW_STATUS_TABLE_MAX_ENTRIES
      BY DEF CollectorInv, TablesOK, StatusOK
    <2> QED
      BY <2>1 DEF StatusAccounted, SumFunction, Charge, Charges
  <1> QED
    BY <1>1, <1>2, CollectorInvariant, PTL DEF StatusSound

\* No restart and no crash while the file is written brings an older template back, and
\* the file has one line of a template.
THEOREM TemplatesAreKept == Spec => []TemplatesKept
PROOF
  <1>1. CollectorInv => TemplatesKept
    <2> SUFFICES ASSUME CollectorInv, ~h.garbled PROVE TemplatesKept
      BY DEF TemplatesKept, FreshOrNone, OneLineEach
    <2>1. FileIsCache(cache, file, h)
      BY DEF CollectorInv, TablesOK
    <2> QED
      BY <2>1 DEF FileIsCache, TemplatesKept, FreshOrNone, OneLineEach
  <1> QED
    BY <1>1, CollectorInvariant, PTL

\* No record of a known template is passed over before a data set that is padded, empty
\* or written with another template has left its length in the cache, but for options
\* whose length insert_opt_template() gets wrong: with a field of variable length, or
\* one that is not known and whose length is not the same with its bytes swapped.
THEOREM RecordsAreRead == Spec => []LostOnlyAfterPadding
PROOF
  <1>1. CollectorInv => LostOnlyAfterPadding
    BY DEF CollectorInv, TablesOK, Lengths, LostOnlyAfterPadding
  <1> QED
    BY <1>1, CollectorInvariant, PTL

\* After a datagram read entirely, the next one of its exporter is counted good if and
\* only if it is the one that follows it.
THEOREM VerdictsAreRight == Spec => []JudgedRight
PROOF
  <1>1. CollectorInv => JudgedRight
    BY DEF CollectorInv, TablesOK, JudgedRight
  <1> QED
    BY <1>1, CollectorInvariant, PTL

\* Records are scaled by the rate announced last for their sampler, by their source or
\* else by their exporter for all of its sources.
THEOREM RatesAreLatest == Spec => []RateLatest
PROOF
  <1>1. CollectorInv => RateLatest
    <2> SUFFICES ASSUME CollectorInv, NEW x \in Exporters, NEW smp, smp # 0,
                        Has(status, Own(x)),
                        <<Own(x), smp>> \notin h.refused,
                        <<Global(x), smp>> \notin h.refused
                 PROVE  RateOf(status, Own(x), Global(x), smp) = Told(x, smp)
      BY DEF RateLatest
    <2> DEFINE own == Own(x)
               global == Global(x)
               mine == {i \in DOMAIN status.tab[own].sampling :
                          status.tab[own].sampling[i].id = smp}
               all == {i \in DOMAIN status.tab[global].sampling :
                         status.tab[global].sampling[i].id = smp}
    <2>1. RatesOK(status, h) /\ StatusOK(status)
      BY DEF CollectorInv, TablesOK
    <2> HIDE DEF own, global
    <2>2. /\ SmpHits(status.tab[own].sampling, smp, TRUE) = mine
          /\ SmpHits(status.tab[global].sampling, smp, FALSE) = all
      BY DEF SmpHits
    <2>3. ASSUME NEW id \in DOMAIN status.tab,
                 NEW T, T = {i \in DOMAIN status.tab[id].sampling :
                               status.tab[id].sampling[i].id = smp},
                 <<id, smp>> \notin h.refused
          PROVE  IF <<id, smp>> \in DOMAIN h.told
                 THEN /\ T # {}
                      /\ status.tab[id].sampling[Min(T)].rate
                         = h.told[<<id, smp>>]
                 ELSE T = {}
      <3> DEFINE smps == status.tab[id].sampling
      <3>1. SamplersOK(smps, id, h) /\ smps \in Seq(Sampler)
        BY <2>1, EntrySamplers DEF RatesOK
      <3>2. DOMAIN smps \subseteq Nat
        <4> HIDE DEF smps
        <4> QED
          BY <3>1, LenProperties
      <3>3. T # {} => Min(T) \in T
        BY <2>3, <3>2, MinOf
      <3>4. <<id, smp>> \in DOMAIN h.told => T # {}
        BY <2>1, <2>3 DEF RatesOK
      <3> HIDE DEF smps
      <3>5. T # {} => /\ <<id, smp>> \in DOMAIN h.told
                      /\ smps[Min(T)].rate = h.told[<<id, smp>>]
        BY <2>3, <3>1, <3>3 DEF SamplersOK, smps
      <3> QED
        BY <3>4, <3>5 DEF smps
    <2>4. own \in DOMAIN status.tab
      BY DEF Has, own
    <2>5. IF <<own, smp>> \in DOMAIN h.told
          THEN /\ mine # {}
               /\ status.tab[own].sampling[Min(mine)].rate
                  = h.told[<<own, smp>>]
          ELSE mine = {}
      BY <2>3, <2>4 DEF own
    <2>6. global \in DOMAIN status.tab =>
            IF <<global, smp>> \in DOMAIN h.told
            THEN /\ all # {}
                 /\ status.tab[global].sampling[Min(all)].rate
                    = h.told[<<global, smp>>]
            ELSE all = {}
      BY <2>3 DEF global
    <2>7. <<global, smp>> \in DOMAIN h.told => global \in DOMAIN status.tab
      BY <2>1 DEF RatesOK, Has, global
    <2>8. RateOf(status, own, global, smp) =
            IF mine # {} THEN status.tab[own].sampling[Min(mine)].rate
            ELSE IF global \in DOMAIN status.tab /\ all # {}
                 THEN status.tab[global].sampling[Min(all)].rate ELSE 1
      BY <2>2, <2>4 DEF RateOf, Has
    <2>9. Told(x, smp) = IF <<own, smp>> \in DOMAIN h.told
          THEN h.told[<<own, smp>>]
                         ELSE IF <<global, smp>> \in DOMAIN h.told
                              THEN h.told[<<global, smp>>] ELSE 1
      BY DEF Told, own, global
    <2> HIDE DEF mine, all
    <2>10. RateOf(status, own, global, smp) = Told(x, smp)
      BY <2>5, <2>6, <2>7, <2>8, <2>9
    <2> QED
      BY <2>10 DEF own, global
  <1> QED
    BY <1>1, CollectorInvariant, PTL
=============================================================================

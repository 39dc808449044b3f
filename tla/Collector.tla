----------------------------- MODULE Collector ------------------------------
(***************************************************************************)
(* process_v9_packet() of the NetFlow collector (nfacctd.c): datagrams of  *)
(* NetFlow v9 and IPFIX exporters, over UDP, on the template cache and its *)
(* file, and on the status table.                                          *)
(*                                                                         *)
(* An exporter is [agent, sid, ver].  A set of a datagram is a record with *)
(* a kind: "template" (with tid, body and ok: FALSE if it is malformed),   *)
(* "data" (with tid and the fields of Templates, and the sampler smp and   *)
(* the rate that are read where the template puts them, if it is one of    *)
(* options) or "short".                                                    *)
(***************************************************************************)
EXTENDS Templates, XflowStatus

CONSTANTS
  Exporters,
  StartSeqs,            \* sequence numbers exporters are found at
  Rates,                \* sampling rates
  Datagrams(_),         \* the sequences of sets an exporter may send
  DiskFills,            \* may a write to the templates file be cut short?
  MaxDatagrams,         \* bound: datagrams sent
  MaxMishaps            \* bound: losses, delays, cut writes, restarts and crashes

FlowSetType ==
  [kind : {"template"}, tid : Nat, body : Bodies, ok : BOOLEAN]
  \cup [kind : {"data"}, tid : Nat, body : Bodies, vs : Seq(Nat), pad : Nat,
        noise : Nat, smp : Nat, rate : Rates \cup {1}]
  \cup [kind : {"short"}]

\* exporters are told apart by address and source id
ASSUME CollectorAssumption ==
  /\ MaxDatagrams \in Nat /\ MaxMishaps \in Nat /\ DiskFills \in BOOLEAN
  /\ StartSeqs \subseteq Nat
  /\ \A x \in Exporters : Datagrams(x) \subseteq Seq(FlowSetType)
  /\ \A x, y \in Exporters : <<x.agent, x.sid>> = <<y.agent, y.sid>> => x = y

VARIABLES
  cache,     \* tpl_cache: the templates there are, by key
  file,      \* nfacctd_templates_file
  status,    \* xflow_status_table
  \* the exporters and the network
  real,      \* of each exporter: sequence number of its next datagram, unwrapped
  bodies,    \* of each exporter: the templates it has defined
  held,      \* of each exporter: a datagram under way, or none
  sent,      \* datagrams sent
  mishaps,   \* what went wrong so far
  \* history: what the collector was told and how it did
  h

vars == <<cache, file, status, real, bodies, held, sent, mishaps, h>>

Key(x, tid) == <<x, tid>>
Own(x) == <<x.agent, x.sid, 0>>
Global(x) == <<x.agent, 0, 1>>           \* NF9_OPT_SCOPE_SYSTEM

(***************************************************************************)
(* h.latest: the last template the collector took for a key; h.retyped:    *)
(* keys that went from data to options or back; h.garbled: a line of the   *)
(* file was cut short; h.padded: keys with data sets that had padding, no  *)
(* records, or another template; h.told: the last rate announced for an    *)
(* entry and a sampler, as it was read; h.refused: those that found no     *)
(* room; h.next: of each exporter, the unwrapped sequence number that      *)
(* follows the last datagram; h.whole: that one was read entirely, with    *)
(* the templates it was written with; h.lost: records were passed over;    *)
(* h.misjudged: a verdict on a sequence number was wrong.                  *)
(***************************************************************************)
Init ==
  /\ cache = << >> /\ file = NoFile /\ status = EmptyStatus
  /\ real \in {[x \in Exporters |-> n] : n \in StartSeqs}
  /\ bodies = [x \in Exporters |-> << >>]
  /\ held = [x \in Exporters |-> << >>]
  /\ sent = 0 /\ mishaps = 0
  /\ h = [latest |-> << >>, retyped |-> {}, garbled |-> FALSE, padded |-> {},
          next |-> real, whole |-> [x \in Exporters |-> TRUE],
          lost |-> FALSE, misjudged |-> FALSE, told |-> << >>, refused |-> {}]

With(f, k, v) == [i \in DOMAIN f \cup {k} |-> IF i = k THEN v ELSE f[i]]

-----------------------------------------------------------------------------
(***************************************************************************)
(* The sets of a datagram, one after the other, on a record r of what they *)
(* change; inc is FlowSeqInc.  go: the datagram is not given up;           *)
(* crashed: the daemon is gone, or stays in the set for ever, until it is  *)
(* started again (what is sent to one that stays is lost).                 *)
(***************************************************************************)
Abort(r, x) == [r EXCEPT !.go = FALSE, !.h.whole[x] = FALSE]

\* a template that was taken, with the file it left
Noted(hist, k, b, known, old, f) ==
  [hist EXCEPT !.latest = With(@, k, b), !.garbled = @ \/ f.torn, !.padded = @ \ {k},
               !.retyped = IF known /\ old # b.type THEN @ \cup {k} ELSE @]

\* handle_template(): a malformed one leaves the cache as it was
HandleTemplate(r, x, w, cut) ==
  LET k == Key(x, w.tid)
      known == k \in DOMAIN r.cache
      f == Last(SaveSteps(r.file, k, w.body, known, cut))
  IN IF ~w.ok THEN Abort(r, x)
     ELSE [r EXCEPT !.cache = With(@, k, Entry(w.body)), !.file = f,
                    !.h = Noted(@, k, w.body, known,
                                IF known THEN r.cache[k].body.type ELSE 0, f)]

(***************************************************************************)
(* Options data about sampling.  Without an entry, because the status      *)
(* table is full, create_smp_entry_status_table() follows a null pointer.  *)
(***************************************************************************)
OptionsData(r, x, w, b, n) ==
  LET id == IF b.system THEN Global(x) ELSE Own(x)
      t == Announced(r.status, id, w.smp, w.rate)
  IN IF n = 0 THEN r
     ELSE IF ~Has(r.status, id) THEN [r EXCEPT !.crashed = TRUE]
     ELSE [r EXCEPT !.status = t, !.inc = @ + n,
                    !.h.told = With(@, <<id, w.smp>>, w.rate),
                    !.h.refused = IF SmpHits(t.tab[id].sampling, w.smp, FALSE) = {}
                                  THEN @ \cup {<<id, w.smp>>} ELSE @]

\* mutant: options data are not counted
DataSet_OptionsUncounted(r, x, w) ==
  LET k == Key(x, w.tid)
      e == r.cache[k]
      got == ReadSet(e, w)
  IN IF k \notin DOMAIN r.cache THEN [r EXCEPT !.h.whole[x] = FALSE]
     ELSE IF Endless(e) THEN [r EXCEPT !.crashed = TRUE]
     ELSE IF e.body.type = 1
     THEN [OptionsData(r, x, w, e.body, got.n) EXCEPT !.inc = r.inc]
     ELSE [r EXCEPT !.cache[k].len = got.len, !.inc = @ + got.n]

(***************************************************************************)
(* A data set of an unknown template is passed over.  The set is read with *)
(* the template in the cache, which need not be the one it was written     *)
(* with; one of no fields reads it for ever.                               *)
(***************************************************************************)
DataSet(r, x, w) ==
  LET k == Key(x, w.tid)
      e == r.cache[k]
      got == ReadSet(e, w)
      match == e.body = w.body
      q == [r EXCEPT !.h.whole[x] = @ /\ match /\ got.n = Len(w.vs),
                     !.h.lost = @ \/ (/\ match /\ Counted(e.body) /\ k \notin r.h.padded
                                      /\ got.n < Len(w.vs)),
                     !.h.padded = IF w.pad > 0 \/ w.vs = << >> \/ ~match
                                  THEN @ \cup {k} ELSE @]
  IN IF k \notin DOMAIN r.cache THEN [r EXCEPT !.h.whole[x] = FALSE]
     ELSE IF Endless(e) THEN [r EXCEPT !.crashed = TRUE]
     ELSE IF e.body.type = 1 THEN OptionsData(q, x, w, e.body, got.n)
     ELSE [q EXCEPT !.cache[k].len = got.len, !.inc = @ + got.n]

FlowSet(r, x, w, cut) ==
  IF ~r.go \/ r.crashed THEN r
  ELSE CASE w.kind = "template" -> HandleTemplate(r, x, w, cut)
         [] w.kind = "data"     -> DataSet(r, x, w)
         [] w.kind = "short"    -> Abort(r, x)

-----------------------------------------------------------------------------
\* how far the sequence number of an exporter moves with a datagram
RecordsIn(w) == IF w.kind = "data" THEN Len(w.vs) ELSE 0
Records(sets) == SumFunction([i \in DOMAIN sets |-> RecordsIn(sets[i])])
Increment(x, sets) == IF x.ver = 10 THEN Records(sets) ELSE 1

(***************************************************************************)
(* The entries of the exporter are looked up, or made, and the sequence    *)
(* number is judged before the sets are read.  An IPFIX datagram that was  *)
(* read to its end moves the expected number by the records in it.         *)
(***************************************************************************)
Judged(x, d) ==
  LET s == CheckStatus(status, Own(x), d.real % SeqWrap)
      good == s.tab[Own(x)].good > status.tab[Own(x)].good
      wrong == /\ Has(status, Own(x)) /\ status.tab[Own(x)].seqno # 0 /\ h.whole[x]
               /\ d.real - h.next[x] \in 1 - SeqWrap .. SeqWrap - 1
               /\ good # (d.real = h.next[x])
  IN [cache |-> cache, file |-> file, status |-> SearchStatus(s, Global(x)), inc |-> 0,
      go |-> TRUE, crashed |-> FALSE,
      h |-> [h EXCEPT !.next[x] = d.real + Increment(x, d.sets), !.whole[x] = TRUE,
                      !.misjudged = @ \/ wrong]]

Finished(r, x) ==
  IF x.ver = 10 /\ r.go /\ ~r.crashed /\ Has(r.status, Own(x))
  THEN [r EXCEPT !.status.tab[Own(x)].inc = r.inc] ELSE r

\* a daemon that starts: the status table is empty, the templates are loaded
Started(f) ==
  /\ cache' = Loaded(f) /\ file' = f /\ status' = EmptyStatus

Reset(hist) == [hist EXCEPT !.padded = {}, !.told = << >>, !.refused = {}]

\* the record after all sets of the datagram
AllRead(x, d, cut) ==
  LET read[n \in 0 .. Len(d.sets)] ==
        IF n = 0 THEN Judged(x, d) ELSE FlowSet(read[n - 1], x, d.sets[n], cut)
  IN read[Len(d.sets)]

ProcessV9Packet(x, d, cut) ==
  \E r \in {Finished(AllRead(x, d, cut), x)} :
     IF r.crashed THEN Started(r.file) /\ h' = Reset(r.h)
     ELSE cache' = r.cache /\ file' = r.file /\ status' = r.status /\ h' = r.h

-----------------------------------------------------------------------------
\* a step with so many of them
Mishaps(n) == mishaps + n <= MaxMishaps /\ mishaps' = mishaps + n
Count(b) == IF b THEN 1 ELSE 0

Cuts == IF DiskFills THEN BOOLEAN ELSE {FALSE}

\* the exporter sends what it has defined before, or defines it in the datagram
DefinedBy(x, sets) ==
  FoldLeft(LAMBDA f, w : IF w.kind = "template" THEN With(f, w.tid, w.body) ELSE f,
           bodies[x], sets)

Sound(x, sets) ==
  \A i \in DOMAIN sets : sets[i].kind = "data" =>
    LET before == {j \in 1 .. i - 1 : sets[j].kind = "template" /\ sets[j].tid = sets[i].tid}
    IN IF before # {} THEN sets[Max(before)].body = sets[i].body
       ELSE sets[i].tid \in DOMAIN bodies[x] /\ bodies[x][sets[i].tid] = sets[i].body

MaySend(x) == IF sent < MaxDatagrams THEN {sets \in Datagrams(x) : Sound(x, sets)} ELSE {}

(***************************************************************************)
(* A datagram is sent; it may be lost, arrive, be late, or be doubled with *)
(* a copy that is late.                                                    *)
(***************************************************************************)
Send(x, sets, arrives, late) ==
  LET d == [real |-> real[x], sets |-> sets]
  IN /\ late => held[x] = << >>
     /\ sent' = sent + 1
     /\ real' = [real EXCEPT ![x] = @ + Increment(x, sets)]
     /\ bodies' = [bodies EXCEPT ![x] = DefinedBy(x, sets)]
     /\ held' = [held EXCEPT ![x] = IF late THEN <<d>> ELSE @]
     /\ IF arrives
        THEN \E cut \in Cuts : ProcessV9Packet(x, d, cut) /\ Mishaps(Count(late) + Count(cut))
        ELSE Mishaps(1) /\ UNCHANGED <<cache, file, status, h>>

Late(x) ==
  /\ held[x] # << >>
  /\ \E cut \in Cuts : ProcessV9Packet(x, held[x][1], cut) /\ Mishaps(Count(cut))
  /\ held' = [held EXCEPT ![x] = << >>]
  /\ UNCHANGED <<real, bodies, sent>>

\* the daemon is restarted between two datagrams
Restart ==
  /\ Mishaps(1) /\ Started(file) /\ h' = Reset(h)
  /\ UNCHANGED <<real, bodies, held, sent>>

(***************************************************************************)
(* The daemon dies while it saves a template that came alone: the file is  *)
(* left in one of the states it goes through.  The template counts as      *)
(* taken if anything was written.                                          *)
(***************************************************************************)
CrashSaving(x, w) ==
  LET k == Key(x, w.tid)
      known == k \in DOMAIN cache
  IN /\ w.kind = "template" /\ w.ok
     /\ Mishaps(1) /\ sent' = sent + 1
     /\ real' = [real EXCEPT ![x] = @ + Increment(x, <<w>>)]
     /\ bodies' = [bodies EXCEPT ![x] = DefinedBy(x, <<w>>)]
     /\ \E cut \in Cuts :
          LET steps == SaveSteps(file, k, w.body, known, cut)
          IN \E i \in DOMAIN steps :
               /\ Started(steps[i])
               /\ h' = Reset(IF steps[i] = file THEN h
                             ELSE Noted(h, k, w.body, known,
                                        IF known THEN cache[k].body.type ELSE 0, steps[i]))
     /\ UNCHANGED held

Next ==
  \/ \E x \in Exporters :
       \/ \E sets \in MaySend(x), arrives, late \in BOOLEAN : Send(x, sets, arrives, late)
       \/ Late(x)
       \/ \E sets \in MaySend(x) : Len(sets) = 1 /\ CrashSaving(x, sets[1])
  \/ Restart

Spec == Init /\ [][Next]_vars

-----------------------------------------------------------------------------
\* types: numbers in the table are numbers an exporter can send, a static template
\* keeps the length it was given, and only the last line is torn
TypeOK ==
  /\ \A id \in DOMAIN status.tab :
       /\ status.tab[id].seqno \in 0 .. SeqWrap - 1 /\ status.tab[id].inc \in Nat
       /\ \A c \in {"good", "jumps_f", "jumps_b"} : status.tab[id][c] \in Nat
  /\ \A k \in DOMAIN cache :
       IF Static(cache[k].body) THEN cache[k].len = Entry(cache[k].body).len
       ELSE cache[k].len \in Nat
  /\ file.torn => file.lines # << >> /\ Last(file.lines) = << >>

(***************************************************************************)
(* A template the collector decodes with is the last one it took for the   *)
(* key, however often it was restarted or died while it saved one: the     *)
(* file never brings an older version back.  Not so for a key that went    *)
(* from data to options or back, whose line update_template_in_file() does *)
(* not find, nor once a line was cut short, which puts the line numbers    *)
(* out of step.                                                            *)
(***************************************************************************)
FreshOrNone ==
  ~h.garbled => \A k \in DOMAIN cache \ h.retyped : cache[k].body = h.latest[k]

\* The file does not grow: with no line cut short, a template has one line at
\* most, since new ones are appended and old ones replaced.
OneLineEach ==
  ~h.garbled => \A i, j \in DOMAIN file.lines :
                  i # j => file.lines[i][1] # file.lines[j][1]

(***************************************************************************)
(* Records of a known template are only passed over after a data set that  *)
(* was padded, empty or written with another template left its length in   *)
(* the cache.  Not so for options with a field of variable length or one   *)
(* that is not known: insert_opt_template() gets the length of their       *)
(* records wrong, and they are passed over at any time.                    *)
(***************************************************************************)
LostOnlyAfterPadding == ~h.lost

(***************************************************************************)
(* After a datagram that was read entirely, with a sequence number other   *)
(* than 0, the next one is counted good exactly if it is the one that      *)
(* follows it: losses, late and doubled datagrams are seen, wrapping and   *)
(* options data raise no alarm.  A gap of all the numbers there are, or    *)
(* more, is not to be seen.                                                *)
(***************************************************************************)
JudgedRight == ~h.misjudged

\* the rate that records of the exporter with this sampler should be scaled by
Told(x, smp) ==
  IF <<Own(x), smp>> \in DOMAIN h.told THEN h.told[<<Own(x), smp>>]
  ELSE IF <<Global(x), smp>> \in DOMAIN h.told THEN h.told[<<Global(x), smp>>]
  ELSE 1

(***************************************************************************)
(* Records are scaled by the rate announced last for their sampler by      *)
(* their own source, or else by their exporter for all of its sources,     *)
(* unless an announcement found no room.                                   *)
(***************************************************************************)
RateLatest ==
  \A x \in Exporters, pair \in DOMAIN h.told :
    LET smp == pair[2]
    IN (/\ Has(status, Own(x)) /\ smp # 0
        /\ {<<Own(x), smp>>, <<Global(x), smp>>} \cap h.refused = {})
       => RateOf(status, Own(x), Global(x), smp) = Told(x, smp)

\* Every entry and every rate is charged to the budget, once, and the budget
\* holds, whichever of the two is created first.
StatusAccounted ==
  /\ status.used = SumFunction([id \in DOMAIN status.tab |-> 1 + Len(status.tab[id].sampling)])
  /\ status.used <= XFLOW_STATUS_TABLE_MAX_ENTRIES

\* The templates in use and in the file, through restarts and crashes.
TemplatesKept == FreshOrNone /\ OneLineEach

\* The types, and the accounts of the status table (xflow_status.c).
StatusSound == TypeOK /\ StatusAccounted
=============================================================================

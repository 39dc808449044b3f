----------------------------- MODULE Templates ------------------------------
(***************************************************************************)
(* The cache of NetFlow v9 and IPFIX templates (nfv9_template.c) and the   *)
(* file it is kept in across restarts (nfacctd_templates_file).            *)
(*                                                                         *)
(* A template is known by its key: exporter, source id and template id.    *)
(* Its body is a record: type (0 data, 1 options), fix (bytes of the       *)
(* fields of fixed length the collector knows), ext (bytes of a field it   *)
(* does not know, 0 without one), vlen (it has a field of variable length) *)
(* and system (an options template: its scope is the whole exporter).  A   *)
(* template of no fields, as IPFIX withdraws one, is taken like any other. *)
(***************************************************************************)
EXTENDS Integers, SequencesExt

\* bound: a record of the template fits in a datagram
Bodies ==
  {b \in [type : 0 .. 1, fix : Nat, ext : Nat, vlen : BOOLEAN, system : BOOLEAN] :
     b.fix + b.ext < 65536}

\* insert_template(): a field of variable length leaves the length open
DataEntry(b) == [body |-> b, len |-> IF b.vlen THEN 0 ELSE b.fix + b.ext]

\* ntohs() on a number of the host
Swapped(n) == (n % 256) * 256 + n \div 256

(***************************************************************************)
(* insert_opt_template(): options are read by fixed fields, one of         *)
(* variable length counts as the 65535 bytes that mark it, and the length  *)
(* of one that is not known is swapped once more before it is added.       *)
(***************************************************************************)
OptionsEntry(b) ==
  [body |-> b,
   len  |-> (b.fix + Swapped(b.ext) + (IF b.vlen THEN 65535 ELSE 0)) % 65536]

\* the template says how long a record is, and says it right
Static(b) == b.type = 1 \/ ~b.vlen
Counted(b) == b.type = 1 => ~b.vlen /\ Swapped(b.ext) = b.ext

\* refresh_template() writes the new version over the old one, by its type
Entry(b) == IF b.type = 1 THEN OptionsEntry(b) ELSE DataEntry(b)

(***************************************************************************)
(* The file.  A line is <<key, body>>, or << >> if it cannot be parsed;    *)
(* torn: the last line lacks its newline because its write was cut short.  *)
(***************************************************************************)
NoFile == [lines |-> << >>, torn |-> FALSE]

\* save_template(): cut: the disk is full before the whole line is written
Saved(f, k, b, cut) ==
  [lines |-> IF f.torn THEN [f.lines EXCEPT ![Len(f.lines)] = << >>]
             ELSE Append(f.lines, IF cut THEN << >> ELSE <<k, b>>),
   torn |-> cut]

\* the lines update_template_in_file() takes for the template: type counts
LinesOf(f, k, b) ==
  {i \in DOMAIN f.lines : f.lines[i] # << >> /\ f.lines[i][1] = k
                          /\ f.lines[i][2].type = b.type}

\* the number of the line as it is counted there: lines that cannot be parsed
\* are passed over without being counted
LineNumber(f, i) == Cardinality({j \in 1 .. i : f.lines[j] # << >>})

\* delete_line_from_file() counts all of them
WithoutLine(f, n) ==
  [lines |-> RemoveAt(f.lines, n), torn |-> f.torn /\ n # Len(f.lines)]

Known(f, k, b) == LinesOf(f, k, b) # {}
Shortened(f, k, b) == WithoutLine(f, LineNumber(f, Min(LinesOf(f, k, b))))

\* mutant: the new version is written before the old one is deleted
UpdateSteps_AppendFirst(f, k, b, cut) ==
  LET g == Saved(f, k, b, cut)
  IN IF Known(f, k, b) THEN <<f, g, Shortened(g, k, b)>> ELSE <<f>>

(***************************************************************************)
(* update_template_in_file(): what the file goes through.  The old file is *)
(* unlinked before the copy without the old line takes its place.  Without *)
(* such a line nothing is written.                                         *)
(***************************************************************************)
UpdateSteps(f, k, b, cut) ==
  IF Known(f, k, b)
  THEN <<f, NoFile, Shortened(f, k, b), Saved(Shortened(f, k, b), k, b, cut)>>
  ELSE <<f>>

\* mutant: a template that is refreshed is appended again
SaveSteps_Appends(f, k, b, cached, cut) == <<f, Saved(f, k, b, cut)>>

\* a template is saved when it is new and updated when it is refreshed
SaveSteps(f, k, b, cached, cut) ==
  IF cached THEN UpdateSteps(f, k, b, cut) ELSE <<f, Saved(f, k, b, cut)>>

\* load_templates_from_file(): the first line of a template counts
Loaded(f) ==
  [k \in {f.lines[i][1] : i \in {j \in DOMAIN f.lines : f.lines[j] # << >>}} |->
     Entry(f.lines[Min({i \in DOMAIN f.lines :
                          f.lines[i] # << >> /\ f.lines[i][1] = k})][2])]

(***************************************************************************)
(* A data set on the wire: w.body is the template its exporter wrote it    *)
(* with, w.vs the lengths of the variable field of its records, w.pad the  *)
(* bytes of padding and w.noise what is read as the length of a variable   *)
(* field where there is none.                                              *)
(***************************************************************************)
RecordLen(b, v) ==
  b.fix + b.ext + (IF ~b.vlen THEN 0 ELSE IF v < 255 THEN 1 + v ELSE 3 + v)
SetLen(w) ==
  w.pad + SumFunction([i \in DOMAIN w.vs |-> RecordLen(w.body, w.vs[i])])

\* resolve_vlen_template() on bytes that are no record of the template
Guess(e, w) == RecordLen(e.body, w.noise)

\* the loop over a set does not move on by a length of 0
Endless(e) == Static(e.body) /\ e.len = 0

\* mutant: the length of the last record stays in the cache
ReadSet_NoReset(e, w) ==
  LET bad == SetLen(w) \div Guess(e, w)
  IN IF e.len > SetLen(w) THEN [n |-> 0, len |-> e.len]
     ELSE IF Static(e.body) THEN [n |-> SetLen(w) \div e.len, len |-> e.len]
     ELSE IF e.body = w.body THEN [n |-> Len(w.vs), len |-> RecordLen(e.body, Last(w.vs))]
     ELSE [n |-> bad, len |-> Guess(e, w)]

\* mutant: the length is set to 1 for templates of fixed length too
ReadSet_AlwaysResets(e, w) ==
  IF e.len > SetLen(w) THEN [n |-> 0, len |-> e.len]
  ELSE [n |-> IF e.body = w.body THEN Len(w.vs) ELSE 1, len |-> 1]

(***************************************************************************)
(* The number of records that are read and the length left in the cache.   *)
(* A static template reads the set as records of its length, padding that  *)
(* is as long included.  Otherwise the length of each record is computed   *)
(* and set to 1 after it; padding is taken for records as well, until one  *)
(* does not fit: the loop ends and its length stays in the cache.          *)
(***************************************************************************)
ReadSet(e, w) ==
  LET same == e.body = w.body
      left == IF same THEN w.pad ELSE SetLen(w)
      step == Guess(e, w)
  IN IF e.len > SetLen(w) THEN [n |-> 0, len |-> e.len]
     ELSE IF Static(e.body) THEN [n |-> SetLen(w) \div e.len, len |-> e.len]
     ELSE [n   |-> (IF same THEN Len(w.vs) ELSE 0) + left \div step,
           len |-> IF left % step = 0 /\ SetLen(w) > 0 THEN 1 ELSE step]
=============================================================================

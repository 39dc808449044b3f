---------------------------- MODULE MCCollector -----------------------------
(***************************************************************************)
(* Two sources of one exporter.  The IPFIX one defines data templates of   *)
(* no, of fixed and of variable length, and options, under one id and      *)
(* options under another; the NetFlow v9 one only options, with and        *)
(* without a field the collector does not know.                            *)
(***************************************************************************)
EXTENDS Collector

CONSTANT Samplers

Symmetry == Permutations(Rates)

Ipfix == [agent |-> "a", sid |-> 1, ver |-> 10]
V9    == [agent |-> "a", sid |-> 2, ver |-> 9]
MCExporters == {Ipfix, V9}

Body(type, fix, ext, vlen, system) ==
  [type |-> type, fix |-> fix, ext |-> ext, vlen |-> vlen, system |-> system]
Empty    == Body(0, 0, 0, FALSE, FALSE)
Fixed    == Body(0, 1, 1, FALSE, FALSE)
Variable == Body(0, 1, 0, TRUE, FALSE)
Sampling == Body(1, 2, 0, FALSE, FALSE)
Swapping == Body(1, 2, 1, FALSE, FALSE)
System   == Body(1, 2, 0, FALSE, TRUE)

BodiesOf(x, tid) ==
  IF x = V9 THEN (IF tid = 257 THEN {Sampling, Swapping} ELSE {})
  ELSE IF tid = 257 THEN {System} ELSE {Empty, Fixed, Variable, Sampling}

TemplateSets(x, tid) ==
  {[kind |-> "template", tid |-> tid, body |-> b, ok |-> TRUE] : b \in BodiesOf(x, tid)}

Data(tid, b, vs, pad, noise, smp, rate) ==
  [kind |-> "data", tid |-> tid, body |-> b, vs |-> vs, pad |-> pad, noise |-> noise,
   smp |-> smp, rate |-> rate]

DataSets(tid, b) ==
  IF b = Swapping THEN {Data(tid, b, <<0>>, 0, 1, 0, 1)}
  ELSE IF b.type = 1 THEN {Data(tid, b, <<0>>, 0, 1, s, r) : s \in Samplers, r \in Rates}
  ELSE IF b.vlen THEN
    {Data(tid, b, v[1], v[2], 3, 0, 1) :
       v \in {<< <<0>>, 0>>, << <<0, 3>>, 0>>, << <<0, 3>>, 1>>}}
  ELSE IF b = Empty THEN {}
  ELSE {Data(tid, b, <<0>>, 0, 1, 0, 1)}

AllData(x, tid) == UNION {DataSets(tid, b) : b \in BodiesOf(x, tid)}

Malformed(tid, b) == [kind |-> "template", tid |-> tid, body |-> b, ok |-> FALSE]

DatagramsOf(x) ==
  UNION {
    {<<t>> : t \in TemplateSets(x, tid)} \cup {<<w>> : w \in AllData(x, tid)}
    \cup {<<t, w>> : t \in TemplateSets(x, tid), w \in AllData(x, tid)} : tid \in {256, 257}}

IpfixDatagrams ==
  {sets \in DatagramsOf(Ipfix) : Len(sets) = 1 \/ sets[1].body = sets[2].body}
  \cup {<<w, bad>> : w \in DataSets(256, Fixed),
                     bad \in {Malformed(256, Variable), [kind |-> "short"]}}
\* bound: this one sends its template every time
V9Datagrams == {sets \in DatagramsOf(V9) : sets[1].kind = "template"}
MCDatagrams(x) == IF x = Ipfix THEN IpfixDatagrams ELSE V9Datagrams
=============================================================================

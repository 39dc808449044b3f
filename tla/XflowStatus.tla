---------------------------- MODULE XflowStatus -----------------------------
(***************************************************************************)
(* The status table of the flow collectors (xflow_status.c): an entry per  *)
(* exporter and source id, with the sequence number expected next, the     *)
(* verdicts on the datagrams and the sampling rates its options announced; *)
(* one more entry per exporter for options about all of it.  All entries   *)
(* and all rates are charged to one budget.                                *)
(*                                                                         *)
(* tab is the table, a function from the entries there are; used is        *)
(* xflow_status_table_entries.                                             *)
(***************************************************************************)
EXTENDS Integers, SequencesExt

CONSTANTS
  XFLOW_STATUS_TABLE_MAX_ENTRIES,
  SeqWrap                           \* 2^32: sequence numbers wrap

ASSUME StatusAssumption == XFLOW_STATUS_TABLE_MAX_ENTRIES \in Nat /\ SeqWrap \in Nat \ {0}

NewStatus == [seqno |-> 0, inc |-> 0, good |-> 0, jumps_f |-> 0, jumps_b |-> 0,
              sampling |-> << >>]

EmptyStatus == [tab |-> << >>, used |-> 0]

HasRoom(s) == s.used < XFLOW_STATUS_TABLE_MAX_ENTRIES
Has(s, id) == id \in DOMAIN s.tab

\* mutant: the entry is not charged
SearchStatus_Free(s, id) ==
  IF Has(s, id) \/ ~HasRoom(s) THEN s
  ELSE [s EXCEPT !.tab = [i \in DOMAIN s.tab \cup {id} |->
                            IF i = id THEN NewStatus ELSE s.tab[i]]]

\* search_status_table(): found or created; there may be no room
SearchStatus(s, id) ==
  IF Has(s, id) \/ ~HasRoom(s) THEN s
  ELSE [tab |-> [i \in DOMAIN s.tab \cup {id} |-> IF i = id THEN NewStatus ELSE s.tab[i]],
        used |-> s.used + 1]

Expected(e) == (e.seqno + e.inc) % SeqWrap

\* mutant: a number that went backwards is not taken as the new one
UpdateStatus_KeepsHighest(e, seqno) ==
  IF e.seqno = 0 \/ seqno = Expected(e)
  THEN [e EXCEPT !.good = @ + 1, !.seqno = seqno]
  ELSE IF seqno > Expected(e) THEN [e EXCEPT !.jumps_f = @ + 1, !.seqno = seqno]
  ELSE [e EXCEPT !.jumps_b = @ + 1]

(***************************************************************************)
(* update_status_table(): a datagram is good if its number is the expected *)
(* one, or if the number before it was 0, which stands for none.           *)
(***************************************************************************)
UpdateStatus(e, seqno) ==
  IF e.seqno = 0 \/ seqno = Expected(e)
  THEN [e EXCEPT !.good = @ + 1, !.seqno = seqno]
  ELSE IF seqno > Expected(e) THEN [e EXCEPT !.jumps_f = @ + 1, !.seqno = seqno]
  ELSE [e EXCEPT !.jumps_b = @ + 1, !.seqno = seqno]

\* nfv9_check_status() for the entry of a datagram
CheckStatus(s, id, seqno) ==
  LET t == SearchStatus(s, id)
  IN IF Has(t, id) THEN [t EXCEPT !.tab[id] = [UpdateStatus(@, seqno) EXCEPT !.inc = 1]]
     ELSE t

-----------------------------------------------------------------------------
\* search_smp_id_status_table(): with unequal, the last entry stands for id 0
SmpHits(smps, smp, unequal) ==
  {i \in DOMAIN smps : smps[i].id = smp \/ (unequal /\ smp = 0 /\ i = Len(smps))}

\* mutant: an announcement is appended although its sampler has an entry
Announced_Appends(s, id, smp, rate) ==
  IF ~HasRoom(s) THEN s
  ELSE [s EXCEPT !.tab[id].sampling = Append(@, [id |-> smp, rate |-> rate]), !.used = @ + 1]

\* an announcement replaces the entry of its sampler, or makes one
Announced(s, id, smp, rate) ==
  LET hits == SmpHits(s.tab[id].sampling, smp, FALSE)
  IN IF hits # {} THEN [s EXCEPT !.tab[id].sampling[Min(hits)].rate = rate]
     ELSE IF ~HasRoom(s) THEN s
     ELSE [s EXCEPT !.tab[id].sampling = Append(@, [id |-> smp, rate |-> rate]),
                    !.used = @ + 1]

\* the rate NF_counters_renormalize_handler() multiplies by (1: none found)
RateOf(s, own, global, smp) ==
  LET mine == IF Has(s, own) THEN SmpHits(s.tab[own].sampling, smp, TRUE) ELSE {}
      all  == IF Has(s, own) /\ Has(s, global)
              THEN SmpHits(s.tab[global].sampling, smp, FALSE) ELSE {}
  IN IF mine # {} THEN s.tab[own].sampling[Min(mine)].rate
     ELSE IF all # {} THEN s.tab[global].sampling[Min(all)].rate
     ELSE 1
=============================================================================

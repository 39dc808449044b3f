----------------------------- MODULE Conntrack ------------------------------
(***************************************************************************)
(* Expectations of the connection tracking helpers (conntrack.c): a        *)
(* control connection announces a data connection, which inherits its      *)
(* class.  What the helper did not find is zero and matches anything: the  *)
(* destination port always, the source port when the message names none.   *)
(* The IPv6 table is the same code.                                        *)
(***************************************************************************)
EXTENDS Capture

CONSTANTS
  CtNodes,                     \* conntrack_total_nodes_v4 at start
  CONNTRACK_GENERIC_LIFETIME

ASSUME CtAssumption == {CtNodes, CONNTRACK_GENERIC_LIFETIME} \subseteq Nat

VARIABLES
  ct,      \* conntrack_ipv4_table, from the head
  ctLeft,  \* conntrack_total_nodes_v4
  asked,   \* history: every expectation announced, with its stamp
  granted  \* history: every expectation used, with the time of use

ctVars == <<ct, ctLeft, asked, granted>>

CtInit == ct = << >> /\ ctLeft = CtNodes /\ asked = << >> /\ granted = << >>

CtLive(e) == now < e.stamp + CONNTRACK_GENERIC_LIFETIME
CtExpired == {i \in DOMAIN ct : ~CtLive(ct[i])}

(***************************************************************************)
(* insert_conntrack_ipv4(): the first expired entry is overwritten;        *)
(* without one an entry is appended if the budget allows.  The first entry *)
(* of an empty table is not charged to the budget.                         *)
(***************************************************************************)
\* mutant: appended entries are not charged
InsertConntrack_Free(e) ==
  /\ \/ ct = << >> /\ ct' = <<e>>
     \/ CtExpired # {} /\ ct' = [ct EXCEPT ![Min(CtExpired)] = e]
     \/ ct # << >> /\ CtExpired = {} /\ ct' = Append(ct, e)
  /\ asked' = Append(asked, e)
  /\ UNCHANGED ctLeft

InsertConntrack(e) ==
  /\ \/ ct = << >> /\ ct' = <<e>> /\ UNCHANGED ctLeft
     \/ CtExpired # {} /\ ct' = [ct EXCEPT ![Min(CtExpired)] = e] /\ UNCHANGED ctLeft
     \/ /\ ct # << >> /\ CtExpired = {} /\ ctLeft > 0
        /\ ct' = Append(ct, e) /\ ctLeft' = ctLeft - 1
     \/ /\ ct # << >> /\ CtExpired = {} /\ ctLeft = 0   \* "Conntrack/4 buffer full"
        /\ UNCHANGED <<ct, ctLeft>>
  /\ asked' = Append(asked, e)

(***************************************************************************)
(* search_conntrack_ipv4(): the first live entry that matches is taken out *)
(* of the list.  Its node is freed but not given back to the budget.       *)
(***************************************************************************)
Fits(wanted, found) == wanted \in {0, found}
Expects(e, p) ==
  Fits(e.src, p.src) /\ Fits(e.dst, p.dst) /\ Fits(e.sport, p.sport) /\ e.proto = p.proto

\* mutant: aged out expectations are used as well
CtHits_Aged(p) == {i \in DOMAIN ct : Expects(ct[i], p)}

CtHits(p) == {i \in DOMAIN ct : CtLive(ct[i]) /\ Expects(ct[i], p)}

CtWithout(i) == SubSeq(ct, 1, i - 1) \o SubSeq(ct, i + 1, Len(ct))

SearchConntrack(p) ==
  LET hits == CtHits(p)
  IN IF hits = {} THEN [class |-> 0, ct |-> ct]
     ELSE [class |-> ct[Min(hits)].class, ct |-> CtWithout(Min(hits))]

-----------------------------------------------------------------------------
\* However expectations are announced, used and age out, the table never holds
\* more than its budget (and the one entry that is not charged).
CtBounded == Len(ct) + ctLeft <= CtNodes + 1

\* A data connection inherits a class only from an expectation for it that was
\* announced less than CONNTRACK_GENERIC_LIFETIME ago, and each expectation is
\* used at most once although expired entries are overwritten in place.
GrantedByControl ==
  \E f \in Injection(DOMAIN granted, DOMAIN asked) :
    \A i \in DOMAIN granted :
      LET g == granted[i] e == asked[f[i]]
      IN /\ Expects(e, g) /\ e.class = g.class
         /\ e.stamp <= g.at /\ g.at < e.stamp + CONNTRACK_GENERIC_LIFETIME
=============================================================================

----------------------------- MODULE MCBgpPeers -----------------------------
(* Instances of BgpPeers for TLC: message sets and symmetry *)
EXTENDS BgpPeers, TLC

Msg(t, path) == [type |-> t, prefix |-> "p", path |-> path]

Hello == <<Msg("OPEN", 1), Msg("ANNOUNCE", 2)>>

SessionBursts == {Hello} \cup
  {<<Msg(t, 2)>> : t \in {"WITHDRAW", "KEEPALIVE", "NOTIFICATION", "BADHDR",
                          "NOLENGTH", "BADOPEN", "BADUPDATE"}}

CleanBursts == {<<Msg("OPEN", 1)>>, <<Msg("KEEPALIVE", 1)>>}

AddrSymmetry == Permutations(Allowed)
=============================================================================

---------------------------- MODULE ChannelProofs ----------------------------
(***************************************************************************)
(* Proofs about the Core Process <-> plugin channel for every ring size,   *)
(* doorbell capacity, sequence-number range and record mix: the core, the  *)
(* plugins of the poll() loop (RingReader), the memory plugin (ImtReader). *)
(***************************************************************************)
EXTENDS RingReader, ImtReader, SequenceTheorems, TLAPS


\* A prefix of a payload is a sequence of record identifiers (CommitSeq's
\* bookkeeping of what exec_plugins() published).
LEMMA PayloadType ==
  ASSUME NEW data \in Seq(Nat), NEW n \in Nat
  PROVE  Payload(data, n) \in Seq(Nat)
PROOF
  <1> DEFINE k == IF n <= Len(data) THEN n ELSE Len(data)
  <1>1. Len(data) \in Nat
    BY LenProperties
  <1>2. k \in Nat /\ k <= Len(data)
    BY <1>1
  <1>3. \A i \in 1 .. k : data[i] \in Nat
    BY <1>1, <1>2, ElementOfSeq
  <1> QED
    BY <1>2, <1>3, SubSeqProperties DEF Payload

\* Writing record r at position k of a slot keeps the slot's payload a
\* sequence of record identifiers (the primitive handlers of exec_plugins()).
LEMMA OverlayType ==
  ASSUME NEW data \in Seq(Nat), NEW k \in Nat \ {0}, NEW r \in Nat
  PROVE  Overlay(data, k, r) \in Seq(Nat)
PROOF
  <1>1. CASE k <= Len(data)
    <2>1. [data EXCEPT ![k] = r] \in Seq(Nat)
      BY <1>1, ExceptSeq, LenProperties
    <2> QED
      BY <1>1, <2>1 DEF Overlay
  <1>2. CASE ~(k <= Len(data))
    BY <1>2, AppendProperties DEF Overlay
  <1> QED
    BY <1>1, <1>2

\* Sequence numbers stay below MAX_SEQNUM.
LEMMA SeqnumType ==
  ASSUME NEW s \in Int, s >= -1
  PROVE  (s + 1) % MAX_SEQNUM \in 0 .. MAX_SEQNUM - 1
PROOF
  <1>1. MAX_SEQNUM \in Nat /\ MAX_SEQNUM > 0
    BY RingAssumption
  <1>2. s + 1 \in Nat
    OBVIOUS
  <1>3. \A a \in Nat, n \in Nat : n > 0 => a % n \in 0 .. n - 1
    OBVIOUS
  <1> QED
    BY <1>1, <1>2, <1>3

\* Remainders below and at the modulus: where slot and sequence numbers wrap.
LEMMA NoWrap ==
  ASSUME NEW n \in Nat \ {0}
  PROVE  n % n = 0 /\ \A k \in Nat : k < n => k % n = k
PROOF
  <1>1. \A k \in Nat : k < n => k % n = k
    <2> SUFFICES ASSUME NEW k \in Nat, k < n PROVE k % n = k
      OBVIOUS
    <2>1. k \div n = 0
      OBVIOUS
    <2>2. k = n * (k \div n) + (k % n)
      OBVIOUS
    <2> QED
      BY <2>1, <2>2
  <1>2. n % n = 0
    <2>1. n \div n = 1
      OBVIOUS
    <2>2. n = n * (n \div n) + (n % n)
      OBVIOUS
    <2>3. n % n \in 0 .. n - 1
      OBVIOUS
    <2> QED
      BY <2>1, <2>2, <2>3
  <1> QED
    BY <1>1, <1>2

\* Sequence numbers count modulo MAX_SEQNUM: the successor of k's is (k + 1)'s
\* (seq++, seq %= MAX_SEQNUM on both sides).
LEMMA NextSeqnum ==
  ASSUME NEW k \in Nat
  PROVE  ((k % MAX_SEQNUM) + 1) % MAX_SEQNUM = (k + 1) % MAX_SEQNUM
PROOF
  <1> DEFINE m == MAX_SEQNUM
             q == k \div m
             r == k % m
  <1>1. m \in Nat /\ m > 0
    BY RingAssumption
  <1> HIDE DEF m
  <1>2. q \in Nat /\ r \in 0 .. m - 1 /\ k = m * q + r
    BY <1>1
  <1> HIDE DEF q, r
  <1>3. CASE r + 1 < m
    <2>1. k + 1 = m * q + (r + 1)
      BY <1>1, <1>2
    <2>2. (k + 1) % m = r + 1
      BY <1>1, <1>2, <1>3, <2>1
    <2>3. (r + 1) % m = r + 1
      BY <1>1, <1>2, <1>3
    <2> QED
      BY <2>2, <2>3 DEF m, r
  <1>4. CASE r + 1 = m
    <2>1. k + 1 = m * (q + 1) + 0
      BY <1>1, <1>2, <1>4
    <2>2. (k + 1) % m = 0
      BY <1>1, <1>2, <2>1
    <2>3. (r + 1) % m = 0
      BY <1>1, <1>4
    <2> QED
      BY <2>2, <2>3 DEF m, r
  <1> QED
    BY <1>1, <1>2, <1>3, <1>4

\* The core's next slot is a slot of the ring.
LEMMA NextSlotType ==
  ASSUME NEW s \in Slots
  PROVE  (s + 1) % NSlots \in Slots
PROOF
  <1>1. NSlots \in Nat /\ NSlots > 0
    BY RingAssumption
  <1>2. s + 1 \in Nat
    BY <1>1 DEF Slots
  <1>3. \A a \in Nat, n \in Nat : n > 0 => a % n \in 0 .. n - 1
    OBVIOUS
  <1> QED
    BY <1>1, <1>2, <1>3 DEF Slots

\* Placing a record (the fitting case of exec_plugins()) keeps the types.
LEMMA PlaceType ==
  ASSUME CoreTypeOK, NEW v \in VarSizes, NEW r \in Nat, Place(v, r)
  PROVE  /\ hdr' \in [seq : 0 .. MAX_SEQNUM - 1, num : Nat]
         /\ ring' \in [Slots -> SlotType]
         /\ bufptr' \in Nat /\ redo' \in {-1} \cup VarSizes
         /\ cpc' \in CorePCs
PROOF
  <1> DEFINE slot == [ring[wslot] EXCEPT !.data = Overlay(@, hdr.num + 1, r)]
  <1>1. ring[wslot] \in SlotType /\ hdr.num + 1 \in Nat \ {0}
    BY DEF CoreTypeOK
  <1>2. Overlay(ring[wslot].data, hdr.num + 1, r) \in Seq(Nat)
    BY <1>1, OverlayType DEF SlotType
  <1>3. slot \in SlotType
    BY <1>1, <1>2 DEF SlotType
  <1>4. ring' = [ring EXCEPT ![wslot] = slot]
    BY DEF Place
  <1>5. ring' \in [Slots -> SlotType]
    BY <1>3, <1>4 DEF CoreTypeOK
  <1>6. v \in Nat /\ FixedSize \in Nat
    BY RingAssumption
  <1>7. bufptr' \in Nat /\ redo' \in {-1} \cup VarSizes
    BY <1>6 DEF Place, CoreTypeOK
  <1>8. cpc' \in CorePCs
    BY DEF Place, SendNow, CorePCs
  <1>9. hdr' \in [seq : 0 .. MAX_SEQNUM - 1, num : Nat]
    BY <1>1 DEF Place, CoreTypeOK
  <1> QED
    BY <1>5, <1>7, <1>8, <1>9

\* Every core step keeps the channel state well typed.
LEMMA CoreStepType ==
  ASSUME CoreTypeOK, CoreNext
  PROVE  CoreTypeOK'
PROOF
  <1> USE RingAssumption DEF CoreTypeOK, CorePCs, Slots
  <1>1. ASSUME NEW v \in VarSizes, ExecPlugins(v)
        PROVE  CoreTypeOK'
    <2>1. CASE Place(v, nrec + 1)
      <3>1. nrec + 1 \in Nat /\ nrec' = nrec + 1
        <4>1. nrec' = nrec + 1
          BY <1>1, <2>1, Zenon DEF ExecPlugins, Place
        <4> QED
          BY <4>1
      <3>2. /\ hdr' \in [seq : 0 .. MAX_SEQNUM - 1, num : Nat]
            /\ ring' \in [Slots -> SlotType]
            /\ bufptr' \in Nat /\ redo' \in {-1} \cup VarSizes
            /\ cpc' \in CorePCs
        BY <2>1, <3>1, PlaceType
      <3>3. UNCHANGED <<wslot, shutdown, lastOff, wakeup, pipe, committed>>
        BY <2>1 DEF Place
      <3> QED
        BY <3>1, <3>2, <3>3
    <2>2. CASE ~Place(v, nrec + 1)
      BY <1>1, <2>2 DEF ExecPlugins
    <2> QED
      BY <2>1, <2>2
  <1>2. CASE SampledOut
    BY <1>2 DEF SampledOut
  <1>3. CASE Reprocess
    <2>1. CASE Place(redo, nrec + 1)
      <3>1. redo \in VarSizes /\ nrec + 1 \in Nat
        BY <1>3 DEF Reprocess
      <3>2. /\ hdr' \in [seq : 0 .. MAX_SEQNUM - 1, num : Nat]
            /\ ring' \in [Slots -> SlotType]
            /\ bufptr' \in Nat /\ redo' \in {-1} \cup VarSizes
            /\ cpc' \in CorePCs
        BY <2>1, <3>1, PlaceType
      <3>3. UNCHANGED <<wslot, shutdown, lastOff, wakeup, pipe, committed>>
        BY <2>1 DEF Place
      <3>4. nrec' \in Nat
        BY <1>3 DEF Reprocess
      <3> QED
        BY <3>2, <3>3, <3>4
    <2>2. CASE ~Place(redo, nrec + 1)
      BY <1>3, <2>2 DEF Reprocess
    <2> QED
      BY <2>1, <2>2
  <1>4. CASE CommitSeq
    <2>1. Payload(ring[wslot].data, hdr.num) \in Seq(Nat)
      BY PayloadType DEF SlotType
    <2>2. committed' \in Seq(Seq(Nat))
      BY <1>4, <2>1, AppendProperties DEF CommitSeq
    <2>3. (hdr.seq + 1) % MAX_SEQNUM \in 0 .. MAX_SEQNUM - 1
      BY SeqnumType
    <2>4. Len(committed) + 1 \in Nat
      BY LenProperties
    <2>5. hdr' = [seq |-> (hdr.seq + 1) % MAX_SEQNUM, num |-> hdr.num]
      BY <1>4 DEF CommitSeq
    <2>6. hdr' \in [seq : 0 .. MAX_SEQNUM - 1, num : Nat]
      BY <2>3, <2>5
    <2>7. ring' = [ring EXCEPT ![wslot] =
                     [@ EXCEPT !.seq = hdr'.seq, !.idx = Len(committed) + 1]]
      BY <1>4 DEF CommitSeq
    <2>8. [ring[wslot] EXCEPT !.seq = hdr'.seq, !.idx = Len(committed) + 1]
             \in SlotType
      <3>1. ring[wslot] \in SlotType
        OBVIOUS
      <3>2. hdr'.seq \in -1 .. MAX_SEQNUM - 1
        BY <2>6
      <3> QED
        BY <2>4, <3>1, <3>2 DEF SlotType
    <2>9. ring' \in [Slots -> SlotType]
      BY <2>7, <2>8
    <2> QED
      BY <1>4, <2>2, <2>6, <2>9 DEF CommitSeq
  <1>5. CASE CommitNum
    BY <1>5, ZenonT(30) DEF CommitNum, SlotType
  <1>6. CASE CommitPid
    BY <1>6, ZenonT(30) DEF CommitPid, SlotType
  <1>7. CASE CommitOff
    BY <1>7 DEF CommitOff
  <1>8. CASE TestWakeup
    BY <1>8 DEF TestWakeup, AfterSignal
  <1>9. CASE WritePipe
    BY <1>9, AppendProperties DEF WritePipe, AfterSignal
  <1>10. CASE ProtectSeq
    <2>1. wslot' = (wslot + 1) % NSlots
      BY <1>10 DEF ProtectSeq
    <2>2. wslot' \in Slots
      BY <2>1, NextSlotType
    <2>3. [ring[wslot'] EXCEPT !.seq = -1] \in SlotType
      <3>1. ring[wslot'] \in SlotType
        BY <2>2
      <3>2. -1 \in -1 .. MAX_SEQNUM - 1
        OBVIOUS
      <3> QED
        BY <3>1, <3>2 DEF SlotType
    <2>4. ring' = [ring EXCEPT ![wslot'] = [ring[wslot'] EXCEPT !.seq = -1]]
      BY <1>10 DEF ProtectSeq
    <2>5. ring' \in [Slots -> SlotType]
      BY <2>2, <2>3, <2>4
    <2> QED
      BY <1>10, <2>2, <2>5 DEF ProtectSeq
  <1>11. CASE ProtectNum
    BY <1>11, ZenonT(30) DEF ProtectNum, SlotType
  <1>12. CASE ProtectPid
    BY <1>12, ZenonT(30) DEF ProtectPid, SlotType
  <1>13. CASE Sigint
    BY <1>13 DEF Sigint, FillPipeBuffer
  <1>14. CASE SignalPlugins
    BY <1>14 DEF SignalPlugins
  <1> QED
    BY <1>1, <1>2, <1>3, <1>4, <1>5, <1>6, <1>7, <1>8, <1>9, <1>10, <1>11,
       <1>12, <1>13, <1>14 DEF CoreNext

\* The channel insert_pipe_channel() zeroes is well typed.
LEMMA CoreInitType ==
  ASSUME CoreInit
  PROVE  CoreTypeOK
PROOF
  <1> USE RingAssumption DEF CoreInit
  <1>1. /\ << >> \in Seq(Nat) /\ << >> \in Seq(Slots)
        /\ << >> \in Seq(Seq(Nat))
    BY EmptySeq
  <1>2. EmptySlot \in SlotType
    BY <1>1 DEF SlotType, EmptySlot
  <1>3. ring \in [Slots -> SlotType]
    BY <1>2
  <1>4. hdr \in [seq : 0 .. MAX_SEQNUM - 1, num : Nat]
    OBVIOUS
  <1>5. 0 \in Slots
    BY DEF Slots
  <1> QED
    BY <1>1, <1>3, <1>4, <1>5 DEF CoreTypeOK, CorePCs

-----------------------------------------------------------------------------
(***************************************************************************)
(* What a slot holds.  A slot is sealed from the moment its sequence       *)
(* number is published until the core comes round to protect it again.     *)
(***************************************************************************)
Sealed(s) == ring[s].seq # -1 /\ ring[s].idx > 0

\* the core is preparing, filling or about to publish slot wslot
Filling == cpc \in {"protNum", "protPid", "fill", "seq"}

\* the buffer in wslot has been committed and the core has not moved on
Committed == cpc \in {"num", "pid", "off", "wake", "signal", "protSeq"}

\* a sealed slot holds the commit it names, or announces no record yet
Contents(s) ==
  /\ ring[s].idx \in 1 .. Len(committed)
  /\ ring[s].seq = ring[s].idx % MAX_SEQNUM
  /\ \/ Payload(ring[s].data, ring[s].num) = committed[ring[s].idx]
     \/ /\ s = wslot /\ cpc = "num" /\ ring[s].num = 0
        /\ Payload(ring[s].data, hdr.num) = committed[ring[s].idx]

\* the slot the core is in, and which are still unused in the first lap
Lap ==
  /\ hdr.seq = Len(committed) % MAX_SEQNUM
  /\ Filling => ~Sealed(wslot)
     /\ (Len(committed) < NSlots => wslot = Len(committed))
  /\ Committed => /\ Sealed(wslot) /\ Len(committed) > 0
                  /\ Len(committed) <= NSlots => wslot = Len(committed) - 1
  /\ cpc \in {"protPid", "fill", "seq", "num"} => ring[wslot].num = 0
  /\ cpc = "num"
     => Payload(ring[wslot].data, hdr.num) = committed[ring[wslot].idx]
  /\ \A s \in Slots : ring[s].idx = 0 => Len(committed) <= s
     /\ ring[s].seq \in {-1, 0}

\* last_buf_off points to a sealed slot once there is one
LastSealed ==
  /\ Len(committed) = 0 => lastOff = 0
  /\ Len(committed) > 0 => Sealed(lastOff)
  /\ cpc \in {"wake", "signal", "protSeq"} /\ ~shutdown => lastOff = wslot
  /\ cpc = "protSeq" => ~shutdown
  /\ pipe # << >> => Len(committed) > 0

CoreSlots == /\ \A s \in Slots : Sealed(s) => Contents(s)
             /\ Lap /\ LastSealed

\* It holds of the zeroed ring of insert_pipe_channel().
LEMMA CoreSlotsInit ==
  ASSUME CoreInit
  PROVE  CoreSlots
PROOF
  <1>1. /\ NSlots \in Nat \ {0} /\ MAX_SEQNUM \in Nat \ {0}
        /\ 0 % MAX_SEQNUM = 0 /\ 0 \in Slots
    BY RingAssumption, NoWrap DEF Slots
  <1>2. \A s \in Slots : ring[s].seq = 0 /\ ring[s].idx = 0 /\ ring[s].num = 0
    BY DEF CoreInit, EmptySlot
  <1>3. Len(committed) = 0 /\ cpc = "fill" /\ wslot = 0 /\ hdr.seq = 0
        /\ lastOff = 0 /\ pipe = << >>
    BY DEF CoreInit
  <1>4. Lap
    BY <1>1, <1>2, <1>3 DEF Lap, Filling, Committed, Sealed, Slots
  <1>5. LastSealed
    BY <1>3 DEF LastSealed
  <1> QED
    BY <1>2, <1>4, <1>5 DEF CoreSlots, Sealed

\* What a step of the core leaves of a slot: everything, unless it is wslot; and
\* of a sealed slot that it does not protect the number, commit and payload.
LEMMA CoreFrame ==
  ASSUME SigintWindow \subseteq {"fill", "seq"}, CoreTypeOK, CoreSlots,
         CoreNext,
         NEW s \in Slots
  PROVE  /\ s # wslot' => ring'[s] = ring[s]
         /\ cpc # "protSeq" => wslot' = wslot
         /\ Sealed(s) /\ (cpc = "protSeq" => s # wslot') =>
              /\ ring'[s].seq = ring[s].seq /\ ring'[s].idx = ring[s].idx
              /\ ring'[s].data = ring[s].data
         /\ committed' = committed
            \/ committed'
               = Append(committed, Payload(ring[wslot].data, hdr.num))
PROOF
  <1> DEFINE Goal ==
         /\ s # wslot' => ring'[s] = ring[s]
         /\ cpc # "protSeq" => wslot' = wslot
         /\ Sealed(s) /\ (cpc = "protSeq" => s # wslot') =>
              /\ ring'[s].seq = ring[s].seq /\ ring'[s].idx = ring[s].idx
              /\ ring'[s].data = ring[s].data
         /\ committed' = committed
            \/ committed'
               = Append(committed, Payload(ring[wslot].data, hdr.num))
  <1>t. ring \in [Slots -> SlotType] /\ wslot \in Slots
    BY DEF CoreTypeOK
  <1>f. Filling => ~Sealed(wslot)
    BY DEF CoreSlots, Lap
  <1>1. ASSUME NEW v \in VarSizes, ExecPlugins(v) PROVE Goal
    BY <1>1, <1>t, <1>f DEF ExecPlugins, Place, Filling
  <1>2. CASE SampledOut
    BY <1>2 DEF SampledOut
  <1>3. CASE Reprocess
    BY <1>3, <1>t, <1>f DEF Reprocess, Place, Filling
  <1>4. CASE CommitSeq
    BY <1>4, <1>t, <1>f DEF CommitSeq, Filling
  <1>5. CASE CommitNum
    <2>1. ring'[s] = IF s = wslot THEN [ring[s] EXCEPT !.num = hdr.num]
          ELSE ring[s]
      BY <1>5, <1>t DEF CommitNum
    <2>2. ring[s] \in SlotType
      BY <1>t
    <2> QED
      BY <1>5, <2>1, <2>2 DEF CommitNum, SlotType
  <1>6. CASE CommitPid
    <2>1. ring'[s] = IF s = wslot THEN [ring[s] EXCEPT !.pid = CorePid]
          ELSE ring[s]
      BY <1>6, <1>t DEF CommitPid
    <2>2. ring[s] \in SlotType
      BY <1>t
    <2> QED
      BY <1>6, <2>1, <2>2 DEF CommitPid, SlotType
  <1>7. CASE CommitOff
    BY <1>7 DEF CommitOff
  <1>8. CASE TestWakeup
    BY <1>8 DEF TestWakeup
  <1>9. CASE WritePipe
    BY <1>9 DEF WritePipe
  <1>10. CASE ProtectSeq
    BY <1>10, <1>t DEF ProtectSeq
  <1>11. CASE ProtectNum
    BY <1>11, <1>t, <1>f DEF ProtectNum, Filling
  <1>12. CASE ProtectPid
    BY <1>12, <1>t, <1>f DEF ProtectPid, Filling
  <1>13. CASE Sigint
    BY <1>13 DEF Sigint, FillPipeBuffer
  <1>14. CASE SignalPlugins
    BY <1>14 DEF SignalPlugins
  <1> QED
    BY <1>1, <1>2, <1>3, <1>4, <1>5, <1>6, <1>7, <1>8, <1>9, <1>10, <1>11,
       <1>12, <1>13, <1>14 DEF CoreNext

\* A step that leaves the commits alone keeps the contents of all slots but the
\* core's own.
LEMMA ContentsKept ==
  ASSUME SigintWindow \subseteq {"fill", "seq"}, CoreTypeOK, CoreSlots,
         CoreNext,
         committed' = committed, NEW s \in Slots, s # wslot', Sealed(s)'
  PROVE  Contents(s)'
PROOF
  <1>1. ring'[s] = ring[s] /\ (cpc # "protSeq" => wslot' = wslot)
    BY CoreFrame
  <1>2. Sealed(s)
    BY <1>1 DEF Sealed
  <1>3. Contents(s)
    BY <1>2 DEF CoreSlots
  <1>4. ~(s = wslot /\ cpc = "num")
    BY <1>1
  <1> QED
    BY <1>1, <1>3, <1>4 DEF Contents

\* exec_plugins() keeps the order of slots and commits: it seals one slot after
\* the other with the next commit and unseals it before it writes into it again,
\* and last_buf_off never points to a slot being written (two slots at least).
LEMMA CoreSlotsStep ==
  ASSUME SigintWindow \subseteq {"fill", "seq"}, NSlots > 1, CoreTypeOK,
         CoreTypeOK',
         CoreSlots, CoreNext
  PROVE  CoreSlots'
PROOF
  <1>t. /\ ring \in [Slots -> SlotType] /\ wslot \in Slots /\ lastOff \in Slots
        /\ ring' \in [Slots -> SlotType] /\ wslot' \in Slots
        /\ hdr \in [seq : 0 .. MAX_SEQNUM - 1, num : Nat]
        /\ committed \in Seq(Seq(Nat)) /\ Len(committed) \in Nat
        /\ pipe \in Seq(Slots) /\ NSlots \in Nat /\ MAX_SEQNUM \in Nat \ {0}
    BY LenProperties, RingAssumption DEF CoreTypeOK
  <1>0. /\ \A s \in Slots : Sealed(s) => Contents(s)
        /\ Lap /\ LastSealed
    BY DEF CoreSlots
  <1>k. ASSUME cpc \in {"fill", "seq", "protNum", "protPid"},
               cpc' \in {"fill", "seq", "protPid", "exited"},
               UNCHANGED <<committed, wslot, lastOff, pipe>>,
               hdr'.seq = hdr.seq,
               ring'[wslot].seq = ring[wslot].seq,
               ring'[wslot].idx = ring[wslot].idx,
               ring'[wslot].num = ring[wslot].num \/ ring'[wslot].num = 0,
               cpc = "protNum" => ring'[wslot].num = 0
        PROVE  CoreSlots'
    <2>1. ~Sealed(wslot) /\ ~Sealed(wslot)'
      BY <1>0, <1>k DEF Lap, Filling, Sealed
    <2>2. \A s \in Slots : Sealed(s)' => Contents(s)'
      BY <1>k, <2>1, ContentsKept
    <2>3. \A s \in Slots : ring'[s].idx = ring[s].idx
          /\ ring'[s].seq = ring[s].seq
      BY <1>k, CoreFrame
    <2>4. Lap'
      BY <1>0, <1>k, <2>1, <2>3 DEF Lap, Filling, Committed
    <2>5. LastSealed'
      BY <1>0, <1>k, <1>t, <2>3 DEF LastSealed, Sealed
    <2> QED
      BY <2>2, <2>4, <2>5 DEF CoreSlots
  <1>p. ASSUME NEW v \in VarSizes, NEW r, cpc = "fill", Place(v, r)
        PROVE  CoreSlots'
    <2>1. ring' = [ring EXCEPT ![wslot] =
                     [ring[wslot] EXCEPT !.data = Overlay(@, hdr.num + 1, r)]]
      BY <1>p, <1>t DEF Place
    <2>2. /\ ring'[wslot].seq = ring[wslot].seq
          /\ ring'[wslot].idx = ring[wslot].idx
          /\ ring'[wslot].num = ring[wslot].num
      BY <1>t, <2>1 DEF SlotType
    <2>3. /\ cpc' \in {"fill", "seq"} /\ hdr'.seq = hdr.seq
          /\ UNCHANGED <<committed, wslot, lastOff, pipe>>
      BY <1>p, <1>t DEF Place
    <2> QED
      BY <1>k, <1>p, <2>2, <2>3
  <1>1. ASSUME NEW v \in VarSizes, ExecPlugins(v) PROVE CoreSlots'
    <2>1. CASE Place(v, nrec + 1)
      BY <1>1, <1>p, <2>1 DEF ExecPlugins
    <2>2. CASE ~Place(v, nrec + 1)
      BY <1>1, <1>k, <2>2 DEF ExecPlugins
    <2> QED
      BY <2>1, <2>2
  <1>2. CASE SampledOut
    BY <1>2, <1>k DEF SampledOut
  <1>3. CASE Reprocess
    <2>1. CASE Place(redo, nrec + 1)
      <3>1. redo \in VarSizes /\ cpc = "fill"
        BY <1>3 DEF Reprocess, CoreTypeOK
      <3> QED
        BY <1>p, <2>1, <3>1
    <2>2. CASE ~Place(redo, nrec + 1)
      BY <1>3, <1>k, <2>2 DEF Reprocess
    <2> QED
      BY <2>1, <2>2
  <1>11. CASE ProtectNum
    <2>1. ring'[wslot] = [ring[wslot] EXCEPT !.num = 0]
      BY <1>11, <1>t DEF ProtectNum
    <2>2. /\ ring'[wslot].seq = ring[wslot].seq
          /\ ring'[wslot].idx = ring[wslot].idx
          /\ ring'[wslot].num = 0
      BY <1>t, <2>1 DEF SlotType
    <2> QED
      BY <1>11, <1>k, <2>2 DEF ProtectNum
  <1>12. CASE ProtectPid
    <2>1. ring'[wslot] = [ring[wslot] EXCEPT !.pid = 0] /\ hdr'.seq = hdr.seq
      BY <1>12, <1>t DEF ProtectPid
    <2>2. /\ ring'[wslot].seq = ring[wslot].seq
          /\ ring'[wslot].idx = ring[wslot].idx
          /\ ring'[wslot].num = ring[wslot].num
      BY <1>t, <2>1 DEF SlotType
    <2> QED
      BY <1>12, <1>k, <2>1, <2>2 DEF ProtectPid
  <1>13. CASE Sigint
    BY <1>13, <1>k DEF Sigint, FillPipeBuffer
  <1>14. CASE SignalPlugins
    <2>1. cpc = "sleep" /\ cpc' = "exited"
          /\ UNCHANGED <<committed, wslot, hdr, ring, pipe, shutdown, lastOff>>
      BY <1>14 DEF SignalPlugins
    <2>2. Lap' /\ LastSealed'
      BY <1>0, <2>1 DEF Lap, LastSealed, Filling, Committed, Sealed
    <2> QED
      BY <1>0, <2>1, <2>2 DEF CoreSlots, Contents, Sealed
  <1>4. CASE CommitSeq
    <2> DEFINE n == Len(committed) + 1
    <2>1. /\ cpc = "seq" /\ cpc' = "num" /\ UNCHANGED <<wslot, lastOff, pipe>>
          /\ committed' = Append(committed, Payload(ring[wslot].data, hdr.num))
      BY <1>4 DEF CommitSeq
    <2>2. Payload(ring[wslot].data, hdr.num) \in Seq(Nat)
      BY <1>t, PayloadType DEF SlotType
    <2>3. /\ Len(committed') = n
          /\ committed'[n] = Payload(ring[wslot].data, hdr.num)
          /\ \A i \in 1 .. Len(committed) : committed'[i] = committed[i]
      BY <1>t, <2>1, <2>2, AppendProperties
    <2>4. hdr'.num = hdr.num /\ hdr'.seq = n % MAX_SEQNUM
      <3>1. hdr' = [hdr EXCEPT !.seq = (hdr.seq + 1) % MAX_SEQNUM]
        BY <1>4 DEF CommitSeq
      <3>2. hdr.seq = Len(committed) % MAX_SEQNUM
        BY <1>0 DEF Lap
      <3> QED
        BY <1>t, <3>1, <3>2, NextSeqnum
    <2>5. /\ ring'[wslot].seq = hdr'.seq /\ ring'[wslot].idx = n
          /\ ring'[wslot].data = ring[wslot].data /\ ring'[wslot].num = 0
      <3>1. ring'[wslot] = [ring[wslot] EXCEPT !.seq = hdr'.seq, !.idx = n]
        BY <1>4, <1>t DEF CommitSeq
      <3>2. ring[wslot].num = 0
        BY <1>0, <2>1 DEF Lap
      <3> QED
        BY <1>t, <3>1, <3>2 DEF SlotType
    <2>6. \A s \in Slots \ {wslot} : ring'[s] = ring[s]
      BY <2>1, CoreFrame
    <2>7. Sealed(wslot)'
      <3>1. n % MAX_SEQNUM # -1
        BY <1>t
      <3> QED
        BY <1>t, <2>1, <2>4, <2>5, <3>1 DEF Sealed
    <2>8. \A s \in Slots : Sealed(s)' => Contents(s)'
      <3> SUFFICES ASSUME NEW s \in Slots, Sealed(s)' PROVE Contents(s)'
        OBVIOUS
      <3>1. CASE s = wslot
        BY <1>t, <2>1, <2>3, <2>4, <2>5, <3>1 DEF Contents
      <3>2. CASE s # wslot
        <4>1. ring'[s] = ring[s]
          BY <2>6, <3>2
        <4>2. Contents(s)
          BY <1>0, <4>1 DEF Sealed
        <4>3. ring[s].idx \in 1 .. Len(committed)
          BY <4>2 DEF Contents
        <4>4. committed'[ring[s].idx] = committed[ring[s].idx]
              /\ ring[s].idx \in 1 .. Len(committed')
          BY <1>t, <2>3, <4>3
        <4> QED
          BY <2>1, <3>2, <4>1, <4>2, <4>4 DEF Contents
      <3> QED
        BY <3>1, <3>2
    <2>9. Lap'
      <3>1. Len(committed) < NSlots => wslot = Len(committed)
        BY <1>0, <2>1 DEF Lap, Filling
      <3>2. \A s \in Slots : ring'[s].idx = 0 =>
              Len(committed') <= s /\ ring'[s].seq \in {-1, 0}
        <4> SUFFICES ASSUME NEW s \in Slots, ring'[s].idx = 0
                     PROVE  n <= s /\ ring'[s].seq \in {-1, 0}
          BY <2>3
        <4>1. s # wslot
          BY <1>t, <2>5
        <4>2. /\ Len(committed) <= s /\ s < NSlots /\ s \in Nat
              /\ ring'[s].seq \in {-1, 0}
          BY <1>0, <1>t, <2>6, <4>1 DEF Lap, Slots
        <4> QED
          BY <1>t, <3>1, <4>1, <4>2
      <3>3. Len(committed') <= NSlots => wslot' = Len(committed') - 1
        BY <1>t, <2>1, <2>3, <3>1
      <3>4. Committed' /\ ~Filling'
        BY <2>1 DEF Committed, Filling
      <3> QED
        BY <1>t, <2>1, <2>3, <2>4, <2>5, <2>7, <3>2, <3>3, <3>4 DEF Lap
    <2>10. LastSealed'
      <3>1. CASE Len(committed) = 0
        <4>1. lastOff = wslot
          BY <1>0, <1>t, <2>1, <3>1 DEF Lap, Filling, LastSealed
        <4> QED
          BY <1>t, <2>1, <2>3, <2>7, <4>1 DEF LastSealed, Sealed
      <3>2. CASE Len(committed) > 0
        <4>1. Sealed(lastOff) /\ ~Sealed(wslot)
          BY <1>0, <2>1, <3>2 DEF LastSealed, Lap, Filling
        <4>2. ring'[lastOff] = ring[lastOff]
          BY <1>t, <2>6, <4>1
        <4> QED
          BY <1>t, <2>1, <2>3, <4>1, <4>2 DEF LastSealed, Sealed
      <3> QED
        BY <1>t, <3>1, <3>2
    <2> QED
      BY <2>8, <2>9, <2>10 DEF CoreSlots
  <1>s. ASSUME cpc \in {"num", "pid", "off", "wake", "signal"},
               cpc' \in {"pid", "off", "wake", "signal", "protSeq", "sleep"},
               UNCHANGED <<committed, wslot, hdr>>, LastSealed',
               Contents(wslot)',
               ring'[wslot].seq = ring[wslot].seq,
               ring'[wslot].idx = ring[wslot].idx
        PROVE  CoreSlots'
    <2>1. \A s \in Slots : Sealed(s)' => Contents(s)'
      BY <1>s, ContentsKept
    <2>2. \A s \in Slots : ring'[s].idx = ring[s].idx
          /\ ring'[s].seq = ring[s].seq
      BY <1>s, CoreFrame
    <2>3. Lap'
      BY <1>0, <1>s, <1>t, <2>2 DEF Lap, Filling, Committed, Sealed
    <2> QED
      BY <1>s, <2>1, <2>3 DEF CoreSlots
  <1>c. cpc \in {"num", "pid", "off", "wake", "signal"} => Sealed(wslot)
        /\ Contents(wslot)
    BY <1>0, <1>t DEF Lap, Committed
  <1>5. CASE CommitNum
    <2>1. ring'[wslot] = [ring[wslot] EXCEPT !.num = hdr.num]
      BY <1>5, <1>t DEF CommitNum
    <2>2. /\ ring'[wslot].seq = ring[wslot].seq
          /\ ring'[wslot].idx = ring[wslot].idx
          /\ ring'[wslot].num = hdr.num /\ ring'[wslot].data = ring[wslot].data
      BY <1>t, <2>1 DEF SlotType
    <2>3. /\ cpc = "num" /\ cpc' = "pid"
          /\ UNCHANGED <<committed, wslot, hdr, lastOff, pipe, shutdown>>
      BY <1>5 DEF CommitNum
    <2>4. Payload(ring[wslot].data, hdr.num) = committed[ring[wslot].idx]
          /\ Contents(wslot)
      BY <1>0, <1>c, <2>3 DEF Lap
    <2>5. Contents(wslot)'
      BY <2>2, <2>3, <2>4 DEF Contents
    <2>6. LastSealed'
      <3>1. \A s \in Slots : Sealed(s)' <=> Sealed(s)
        BY <2>2, <2>3, CoreFrame DEF Sealed
      <3> QED
        BY <1>0, <1>t, <2>3, <3>1 DEF LastSealed, Sealed
    <2> QED
      BY <1>s, <2>2, <2>3, <2>5, <2>6
  <1>6. CASE CommitPid
    <2>1. ring'[wslot] = [ring[wslot] EXCEPT !.pid = CorePid]
      BY <1>6, <1>t DEF CommitPid
    <2>2. /\ ring'[wslot].seq = ring[wslot].seq
          /\ ring'[wslot].idx = ring[wslot].idx
          /\ ring'[wslot].num = ring[wslot].num
          /\ ring'[wslot].data = ring[wslot].data
      BY <1>t, <2>1 DEF SlotType
    <2>3. /\ cpc = "pid" /\ cpc' = (IF shutdown THEN "wake" ELSE "off")
          /\ UNCHANGED <<committed, wslot, hdr, lastOff, pipe, shutdown>>
      BY <1>6 DEF CommitPid
    <2>5. Contents(wslot)'
      BY <1>c, <2>2, <2>3 DEF Contents
    <2>6. LastSealed'
      <3>1. \A s \in Slots : Sealed(s)' <=> Sealed(s)
        BY <2>2, <2>3, CoreFrame DEF Sealed
      <3> QED
        BY <1>0, <1>t, <2>3, <3>1 DEF LastSealed, Sealed
    <2> QED
      BY <1>s, <2>2, <2>3, <2>5, <2>6
  <1>7. CASE CommitOff
    <2>1. /\ cpc = "off" /\ cpc' = "wake" /\ lastOff' = wslot
          /\ UNCHANGED <<committed, wslot, hdr, ring, pipe, shutdown>>
      BY <1>7 DEF CommitOff
    <2>2. Contents(wslot)'
      BY <1>c, <2>1 DEF Contents
    <2>3. LastSealed'
      BY <1>0, <1>c, <1>t, <2>1 DEF LastSealed, Sealed, Lap, Committed
    <2> QED
      BY <1>s, <2>1, <2>2, <2>3
  <1>8. CASE TestWakeup
    <2>1. /\ cpc = "wake" /\ cpc' \in {"signal", AfterSignal}
          /\ UNCHANGED <<committed, wslot, hdr, ring, pipe, shutdown, lastOff>>
      BY <1>8 DEF TestWakeup
    <2>2. Contents(wslot)'
      BY <1>c, <2>1 DEF Contents
    <2>3. LastSealed' /\ cpc' \in {"signal", "sleep", "protSeq"}
      BY <1>0, <1>t, <2>1 DEF LastSealed, Sealed, AfterSignal
    <2> QED
      BY <1>s, <2>1, <2>2, <2>3
  <1>9. CASE WritePipe
    <2>1. /\ cpc = "signal" /\ cpc' = AfterSignal
          /\ UNCHANGED <<committed, wslot, hdr, ring, shutdown, lastOff>>
      BY <1>9 DEF WritePipe
    <2>2. Contents(wslot)'
      BY <1>c, <2>1 DEF Contents, AfterSignal
    <2>3. Len(committed) > 0
      BY <1>0, <2>1 DEF Lap, Committed
    <2>4. LastSealed' /\ cpc' \in {"sleep", "protSeq"}
      BY <1>0, <1>t, <2>1, <2>3 DEF LastSealed, Sealed, AfterSignal
    <2> QED
      BY <1>s, <2>1, <2>2, <2>4
  <1>10. CASE ProtectSeq
    <2>1. /\ cpc = "protSeq" /\ cpc' = "protNum"
          /\ wslot' = (wslot + 1) % NSlots
          /\ UNCHANGED <<committed, hdr, pipe, shutdown, lastOff>>
      BY <1>10 DEF ProtectSeq
    <2>2. ring'[wslot'] = [ring[wslot'] EXCEPT !.seq = -1]
      BY <1>10, <1>t DEF ProtectSeq
    <2>3. ring'[wslot'].seq = -1 /\ ring'[wslot'].idx = ring[wslot'].idx
      BY <1>t, <2>2 DEF SlotType
    <2>4. \A s \in Slots : ring'[s].idx = ring[s].idx
      BY <2>3, CoreFrame
    <2>5. \A s \in Slots : Sealed(s)' => Contents(s)'
      <3> SUFFICES ASSUME NEW s \in Slots, Sealed(s)' PROVE Contents(s)'
        OBVIOUS
      <3>1. s # wslot'
        BY <2>3 DEF Sealed
      <3> QED
        BY <2>1, <3>1, ContentsKept
    <2>6. Sealed(wslot) /\ Len(committed) > 0
          /\ (Len(committed) <= NSlots => wslot = Len(committed) - 1)
      BY <1>0, <2>1 DEF Lap, Committed
    <2>7. wslot' # wslot
      <3>1. wslot \in Nat /\ wslot < NSlots
        BY <1>t DEF Slots
      <3>4. NSlots % NSlots = 0 /\ \A k \in Nat : k < NSlots => k % NSlots = k
        BY RingAssumption, NoWrap
      <3>2. CASE wslot + 1 < NSlots
        <4>1. (wslot + 1) % NSlots = wslot + 1
          BY <3>1, <3>2, <3>4
        <4> QED
          BY <2>1, <3>1, <4>1
      <3>3. CASE wslot + 1 = NSlots
        <4>1. (wslot + 1) % NSlots = 0
          BY <3>3, <3>4
        <4> QED
          BY <2>1, <3>1, <3>3, <4>1
      <3> QED
        BY <1>t, <3>1, <3>2, <3>3
    <2>8. Len(committed) < NSlots => wslot' = Len(committed)
      <3> SUFFICES ASSUME Len(committed) < NSlots PROVE wslot' = Len(committed)
        OBVIOUS
      <3>1. wslot + 1 = Len(committed) /\ wslot + 1 < NSlots
        BY <1>t, <2>6
      <3>2. Len(committed) % NSlots = Len(committed)
        BY <1>t, NoWrap
      <3> QED
        BY <2>1, <3>1, <3>2
    <2>9. Lap'
      <3>1. ~Sealed(wslot)'
        BY <2>3 DEF Sealed
      <3>2. \A s \in Slots : ring'[s].seq \in {-1, ring[s].seq}
        BY <2>1, <2>3, CoreFrame
      <3> QED
        BY <1>0, <2>1, <2>4, <2>8, <3>1, <3>2 DEF Lap, Filling, Committed
    <2>10. LastSealed'
      <3>1. lastOff = wslot
        BY <1>0, <2>1 DEF LastSealed
      <3>2. ring'[lastOff] = ring[lastOff]
        BY <1>t, <2>7, <3>1, CoreFrame
      <3> QED
        BY <1>0, <2>1, <2>6, <3>1, <3>2 DEF LastSealed, Sealed
    <2> QED
      BY <2>5, <2>9, <2>10 DEF CoreSlots
  <1> QED
    BY <1>1, <1>2, <1>3, <1>4, <1>5, <1>6, <1>7, <1>8, <1>9, <1>10, <1>11,
       <1>12, <1>13, <1>14 DEF CoreNext

-----------------------------------------------------------------------------
(***************************************************************************)
(* Which commit a slot belongs to, lap after lap: the last one made in it, *)
(* whether it is sealed or not.  Commits go round the ring one by one.     *)
(***************************************************************************)
\* slot wslot is the next to be committed, or has been committed last
Open == Filling \/ (cpc = "exited" /\ ~shutdown)
Closed == Committed \/ cpc = "sleep" \/ (cpc = "exited" /\ shutdown)

\* slot s was last used for commit ring[s].idx, one of the last NSlots
Dated(s) ==
  /\ ring[s].idx <= Len(committed) /\ ring[s].idx > Len(committed) - NSlots
  /\ ring[s].idx > 0 => (ring[s].idx - 1) % NSlots = s
  /\ ring[s].idx = 0 => s >= Len(committed)
  /\ ring[s].seq # -1 => ring[s].seq = ring[s].idx % MAX_SEQNUM
  /\ ring[s].seq = -1 => s = wslot /\ Open

\* where the core is
Turning ==
  /\ hdr.seq = Len(committed) % MAX_SEQNUM
  /\ cpc \in {"protSeq", "protNum", "protPid", "fill"} => ~shutdown
  /\ cpc = "sleep" => shutdown
  /\ Open => /\ wslot = Len(committed) % NSlots
             /\ ring[wslot].idx = IF Len(committed) < NSlots THEN 0
                                  ELSE Len(committed) + 1 - NSlots
  /\ Closed => Len(committed) > 0 /\ ring[wslot].idx = Len(committed)

\* last_buf_off trails by one buffer at most
Trailing ==
  /\ Len(committed) > 0 =>
       /\ ring[lastOff].idx >= 1 /\ ring[lastOff].idx >= Len(committed) - 1
       /\ Open \/ (cpc \in {"wake", "signal", "protSeq"} /\ ~shutdown) =>
            ring[lastOff].idx = Len(committed)
  /\ Len(committed) = 0 => lastOff = 0
  /\ pipe # << >> => Len(committed) > 0

CoreLatest == Turning /\ Trailing /\ \A s \in Slots : Dated(s)

\* Slots are used in turn: the successor of k's remainder is (k + 1)'s.
LEMMA NextRemainder ==
  ASSUME NEW n \in Nat \ {0}, NEW k \in Nat
  PROVE  /\ k % n \in 0 .. n - 1
         /\ (k + 1) % n = IF (k % n) + 1 = n THEN 0 ELSE (k % n) + 1
         /\ ((k % n) + 1) % n = (k + 1) % n
PROOF
  <1> DEFINE q == k \div n
             r == k % n
  <1>2. q \in Nat /\ r \in 0 .. n - 1 /\ k = n * q + r
    OBVIOUS
  <1> HIDE DEF q, r
  <1>3. CASE r + 1 < n
    <2>1. k + 1 = n * q + (r + 1)
      BY <1>2
    <2>2. (k + 1) % n = r + 1
      BY <1>2, <1>3, <2>1
    <2>3. (r + 1) % n = r + 1
      BY <1>2, <1>3
    <2> QED
      BY <1>2, <1>3, <2>2, <2>3 DEF r
  <1>4. CASE r + 1 = n
    <2>1. k + 1 = n * (q + 1) + 0
      BY <1>2, <1>4
    <2>2. (k + 1) % n = 0
      BY <1>2, <2>1
    <2>3. (r + 1) % n = 0
      BY <1>4
    <2> QED
      BY <1>2, <1>4, <2>2, <2>3 DEF r
  <1> QED
    BY <1>2, <1>3, <1>4

\* Equal remainders are a multiple of the modulus apart.
LEMMA SameRemainder ==
  ASSUME NEW n \in Nat \ {0}, NEW a \in Nat, NEW b \in Nat, a % n = b % n,
         a <= b
  PROVE  (b - a) % n = 0 /\ (b - a < n => a = b)
PROOF
  <1> DEFINE p == a \div n
             q == b \div n
             r == a % n
  <1>1. /\ p \in Nat /\ q \in Nat /\ r \in 0 .. n - 1
        /\ a = n * p + r /\ b = n * q + r
    <2>1. b % n = r
      OBVIOUS
    <2>2. b = n * (b \div n) + (b % n)
      OBVIOUS
    <2>3. a = n * (a \div n) + (a % n)
      OBVIOUS
    <2>4. p \in Nat /\ q \in Nat /\ r \in 0 .. n - 1
      OBVIOUS
    <2> QED
      BY <2>1, <2>2, <2>3, <2>4
  <1> HIDE DEF p, q, r
  <1>2. n * q - n * p = n * (q - p)
    BY <1>1
  <1>3. q - p >= 0
    <2> SUFFICES ASSUME q - p <= -1 PROVE FALSE
      BY <1>1
    <2>1. n * (q - p) <= n * (-1)
      BY <1>1
    <2>2. n * (-1) = -n
      OBVIOUS
    <2> QED
      BY <1>1, <1>2, <2>1, <2>2
  <1>4. b - a = n * (q - p) + 0 /\ q - p \in Nat
    BY <1>1, <1>2, <1>3
  <1>5. (b - a) % n = 0
    BY <1>1, <1>4
  <1>6. ASSUME b - a < n PROVE a = b
    <2> SUFFICES ASSUME q - p >= 1 PROVE FALSE
      BY <1>1, <1>4
    <2>1. n * (q - p) >= n * 1
      BY <1>1, <1>4
    <2> QED
      BY <1>1, <1>4, <1>6, <2>1
  <1> QED
    BY <1>5, <1>6

\* A full turn leads to the same slot.
LEMMA FullTurn ==
  ASSUME NEW n \in Nat \ {0}, NEW k \in Nat
  PROVE  (k + n) % n = k % n
PROOF
  <1> DEFINE q == k \div n
             r == k % n
  <1>1. q \in Nat /\ r \in 0 .. n - 1 /\ k = n * q + r
    OBVIOUS
  <1> HIDE DEF q, r
  <1>2. k + n = n * (q + 1) + r
    BY <1>1
  <1>3. (k + n) % n = r
    BY <1>1, <1>2
  <1> QED
    BY <1>3 DEF r

\* The zeroed ring is up to date.
LEMMA CoreLatestInit ==
  ASSUME CoreInit
  PROVE  CoreLatest
PROOF
  <1>1. /\ NSlots \in Nat \ {0} /\ MAX_SEQNUM \in Nat \ {0}
        /\ 0 % MAX_SEQNUM = 0 /\ 0 % NSlots = 0
    BY RingAssumption, NoWrap
  <1>2. \A s \in Slots : ring[s].seq = 0 /\ ring[s].idx = 0 /\ s \in Nat
    BY DEF CoreInit, EmptySlot, Slots
  <1>3. /\ Len(committed) = 0 /\ cpc = "fill" /\ wslot = 0 /\ hdr.seq = 0
        /\ lastOff = 0 /\ pipe = << >> /\ ~shutdown /\ 0 \in Slots
    BY <1>1 DEF CoreInit, Slots
  <1> QED
    BY <1>1, <1>2, <1>3 DEF CoreLatest, Turning, Trailing, Dated, Open, Closed,
       Filling, Committed

\* exec_plugins() goes round the ring slot by slot, whatever the plugin does and
\* however small the ring is.
LEMMA CoreLatestStep ==
  ASSUME SigintWindow \subseteq {"fill", "seq"}, CoreTypeOK, CoreTypeOK',
         CoreLatest,
         CoreNext
  PROVE  CoreLatest'
PROOF
  <1>t. /\ ring \in [Slots -> SlotType] /\ wslot \in Slots /\ lastOff \in Slots
        /\ ring' \in [Slots -> SlotType] /\ wslot' \in Slots
        /\ hdr \in [seq : 0 .. MAX_SEQNUM - 1, num : Nat]
        /\ committed \in Seq(Seq(Nat)) /\ Len(committed) \in Nat
        /\ pipe \in Seq(Slots) /\ NSlots \in Nat \ {0}
        /\ MAX_SEQNUM \in Nat \ {0}
        /\ \A s \in Slots : s \in Nat /\ s < NSlots
    <2>1. /\ ring \in [Slots -> SlotType] /\ wslot \in Slots /\ lastOff \in Slots
          /\ ring' \in [Slots -> SlotType] /\ wslot' \in Slots
          /\ hdr \in [seq : 0 .. MAX_SEQNUM - 1, num : Nat]
          /\ committed \in Seq(Seq(Nat)) /\ pipe \in Seq(Slots)
      BY DEF CoreTypeOK
    <2>2. Len(committed) \in Nat
      BY <2>1, LenProperties
    <2>3. NSlots \in Nat \ {0} /\ MAX_SEQNUM \in Nat \ {0}
      BY RingAssumption
    <2>4. \A s \in Slots : s \in Nat /\ s < NSlots
      BY <2>3 DEF Slots
    <2> QED
      BY <2>1, <2>2, <2>3, <2>4
  <1>0. Turning /\ Trailing /\ \A s \in Slots : Dated(s)
    BY DEF CoreLatest
  \* steps that leave numbers and commits alone
  <1>k. ASSUME Open => Open', Closed => Closed', Open' => Open,
               Closed' => Closed,
               cpc' \in {"protSeq", "protNum", "protPid", "fill"} => ~shutdown',
               cpc' = "sleep" => shutdown',
               UNCHANGED <<committed, wslot>>, hdr'.seq = hdr.seq, Trailing',
               \A s \in Slots : ring'[s].seq = ring[s].seq
                 /\ ring'[s].idx = ring[s].idx
        PROVE  CoreLatest'
    <2>1. Turning'
      BY <1>0, <1>k, <1>t DEF Turning
    <2>2. \A s \in Slots : Dated(s)'
      BY <1>0, <1>k DEF Dated
    <2> QED
      BY <1>k, <2>1, <2>2 DEF CoreLatest
  \* steps of those on the slot the core is in
  <1>m. ASSUME NEW x, ring' = [ring EXCEPT ![wslot] = x],
               x.seq = ring[wslot].seq, x.idx = ring[wslot].idx
        PROVE  \A s \in Slots : ring'[s].seq = ring[s].seq
               /\ ring'[s].idx = ring[s].idx
    BY <1>m, <1>t
  <1>f. ASSUME cpc \in {"fill", "seq", "protNum", "protPid"},
               cpc' \in {"fill", "seq", "protPid", "exited"},
               cpc' = "exited" => cpc = "fill" /\ ~shutdown',
               cpc \in {"fill", "protNum", "protPid"} /\ ~shutdown
                 /\ cpc' # "seq" => ~shutdown',
               cpc = "seq" => cpc' = "seq",
               UNCHANGED <<committed, wslot, lastOff, pipe>>,
               hdr'.seq = hdr.seq,
               \A s \in Slots : ring'[s].seq = ring[s].seq
                 /\ ring'[s].idx = ring[s].idx
        PROVE  CoreLatest'
    <2>1. Open /\ Open' /\ ~Closed /\ ~Closed'
      BY <1>f DEF Open, Closed, Filling, Committed
    <2>2. Trailing'
      BY <1>0, <1>f, <1>t, <2>1 DEF Trailing
    <2>3. cpc' \in {"protSeq", "protNum", "protPid", "fill"} => ~shutdown'
      BY <1>0, <1>f DEF Turning
    <2> QED
      BY <1>f, <1>k, <2>1, <2>2, <2>3
  <1>p. ASSUME NEW v \in VarSizes, NEW r, cpc = "fill", Place(v, r)
        PROVE  CoreLatest'
    <2> DEFINE x == [ring[wslot] EXCEPT !.data = Overlay(@, hdr.num + 1, r)]
    <2>1. ring' = [ring EXCEPT ![wslot] = x]
      BY <1>p, <1>t DEF Place
    <2>2. x.seq = ring[wslot].seq /\ x.idx = ring[wslot].idx
      BY <1>t DEF SlotType
    <2> HIDE DEF x
    <2>3. \A s \in Slots : ring'[s].seq = ring[s].seq
          /\ ring'[s].idx = ring[s].idx
      BY <1>m, <2>1, <2>2
    <2>4. /\ cpc' \in {"fill", "seq"} /\ hdr'.seq = hdr.seq
          /\ UNCHANGED <<committed, wslot, lastOff, pipe, shutdown>>
      BY <1>p, <1>t DEF Place
    <2> QED
      BY <1>f, <1>p, <2>3, <2>4
  <1>1. ASSUME NEW v \in VarSizes, ExecPlugins(v) PROVE CoreLatest'
    <2>1. CASE Place(v, nrec + 1)
      BY <1>1, <1>p, <2>1 DEF ExecPlugins
    <2>2. CASE ~Place(v, nrec + 1)
      BY <1>1, <1>f, <2>2 DEF ExecPlugins
    <2> QED
      BY <2>1, <2>2
  <1>2. CASE SampledOut
    BY <1>2, <1>f DEF SampledOut
  <1>3. CASE Reprocess
    <2>1. CASE Place(redo, nrec + 1)
      <3>1. redo \in VarSizes /\ cpc = "fill"
        BY <1>3 DEF Reprocess, CoreTypeOK
      <3> QED
        BY <1>p, <2>1, <3>1
    <2>2. CASE ~Place(redo, nrec + 1)
      BY <1>0, <1>3, <1>f, <2>2 DEF Reprocess, Turning
    <2> QED
      BY <2>1, <2>2
  <1>4. CASE Sigint
    BY <1>4, <1>f DEF Sigint, FillPipeBuffer
  <1>14. CASE SignalPlugins
    <2>1. cpc = "sleep" /\ cpc' = "exited" /\ shutdown
          /\ UNCHANGED <<committed, wslot, hdr, ring, pipe, shutdown, lastOff>>
      BY <1>0, <1>14 DEF SignalPlugins, Turning
    <2>2. ~Open /\ ~Open' /\ Closed /\ Closed'
      BY <2>1 DEF Open, Closed, Filling, Committed
    <2>3. Trailing'
      BY <1>0, <2>1, <2>2 DEF Trailing
    <2> QED
      BY <1>k, <2>1, <2>2, <2>3
  <1>5. CASE ProtectNum
    <2> DEFINE x == [ring[wslot] EXCEPT !.num = 0]
    <2>1. ring' = [ring EXCEPT ![wslot] = x]
      BY <1>5, <1>t DEF ProtectNum
    <2>2. x.seq = ring[wslot].seq /\ x.idx = ring[wslot].idx
      BY <1>t DEF SlotType
    <2> HIDE DEF x
    <2>3. \A s \in Slots : ring'[s].seq = ring[s].seq
          /\ ring'[s].idx = ring[s].idx
      BY <1>m, <2>1, <2>2
    <2> QED
      BY <1>5, <1>f, <2>3 DEF ProtectNum
  <1>6. CASE ProtectPid
    <2> DEFINE x == [ring[wslot] EXCEPT !.pid = 0]
    <2>1. ring' = [ring EXCEPT ![wslot] = x] /\ hdr'.seq = hdr.seq
      BY <1>6, <1>t DEF ProtectPid
    <2>2. x.seq = ring[wslot].seq /\ x.idx = ring[wslot].idx
      BY <1>t DEF SlotType
    <2> HIDE DEF x
    <2>3. \A s \in Slots : ring'[s].seq = ring[s].seq
          /\ ring'[s].idx = ring[s].idx
      BY <1>m, <2>1, <2>2
    <2> QED
      BY <1>6, <1>f, <2>1, <2>3 DEF ProtectPid
  \* steps of a commit after its sequence number
  <1>s. ASSUME cpc \in {"num", "pid", "off", "wake", "signal"},
               cpc' \in {"pid", "off", "wake", "signal", AfterSignal},
               UNCHANGED <<committed, wslot, hdr, shutdown>>, Trailing',
               \A s \in Slots : ring'[s].seq = ring[s].seq
                 /\ ring'[s].idx = ring[s].idx
        PROVE  CoreLatest'
    <2>1. ~Open /\ ~Open' /\ Closed /\ Closed'
      BY <1>s DEF Open, Closed, Filling, Committed, AfterSignal
    <2>2. /\ cpc' \in {"protSeq", "protNum", "protPid", "fill"} => ~shutdown'
          /\ cpc' = "sleep" => shutdown'
      BY <1>s DEF AfterSignal
    <2> QED
      BY <1>k, <1>s, <2>1, <2>2
  <1>7. CASE CommitNum
    <2> DEFINE x == [ring[wslot] EXCEPT !.num = hdr.num]
    <2>1. ring' = [ring EXCEPT ![wslot] = x] /\ cpc = "num" /\ cpc' = "pid"
          /\ UNCHANGED <<committed, wslot, hdr, shutdown, lastOff, pipe>>
      BY <1>7, <1>t DEF CommitNum
    <2>2. x.seq = ring[wslot].seq /\ x.idx = ring[wslot].idx
      BY <1>t DEF SlotType
    <2> HIDE DEF x
    <2>3. \A s \in Slots : ring'[s].seq = ring[s].seq
          /\ ring'[s].idx = ring[s].idx
      BY <1>m, <2>1, <2>2
    <2>4. Trailing'
      BY <1>0, <1>t, <2>1, <2>3 DEF Trailing, Open, Filling
    <2> QED
      BY <1>s, <2>1, <2>3, <2>4
  <1>8. CASE CommitPid
    <2> DEFINE x == [ring[wslot] EXCEPT !.pid = CorePid]
    <2>1. ring' = [ring EXCEPT ![wslot] = x] /\ cpc = "pid"
          /\ cpc' = (IF shutdown THEN "wake" ELSE "off")
          /\ UNCHANGED <<committed, wslot, hdr, shutdown, lastOff, pipe>>
      BY <1>8, <1>t DEF CommitPid
    <2>2. x.seq = ring[wslot].seq /\ x.idx = ring[wslot].idx
      BY <1>t DEF SlotType
    <2> HIDE DEF x
    <2>3. \A s \in Slots : ring'[s].seq = ring[s].seq
          /\ ring'[s].idx = ring[s].idx
      BY <1>m, <2>1, <2>2
    <2>4. Trailing'
      BY <1>0, <1>t, <2>1, <2>3 DEF Trailing, Open, Filling
    <2> QED
      BY <1>s, <2>1, <2>3, <2>4
  <1>9. CASE CommitOff
    <2>1. /\ cpc = "off" /\ cpc' = "wake" /\ lastOff' = wslot
          /\ UNCHANGED <<committed, wslot, hdr, ring, pipe, shutdown>>
      BY <1>9 DEF CommitOff
    <2>2. Len(committed) > 0 /\ ring[wslot].idx = Len(committed)
      BY <1>0, <2>1 DEF Turning, Closed, Committed
    <2>3. Trailing'
      BY <1>0, <1>t, <2>1, <2>2 DEF Trailing
    <2> QED
      BY <1>s, <2>1, <2>3
  <1>10. CASE TestWakeup
    <2>1. /\ cpc = "wake" /\ cpc' \in {"signal", AfterSignal}
          /\ UNCHANGED <<committed, wslot, hdr, ring, pipe, shutdown, lastOff>>
      BY <1>10 DEF TestWakeup
    <2>2. Trailing'
      BY <1>0, <1>t, <2>1 DEF Trailing, AfterSignal, Open, Filling
    <2> QED
      BY <1>s, <2>1, <2>2
  <1>11. CASE WritePipe
    <2>1. /\ cpc = "signal" /\ cpc' = AfterSignal
          /\ UNCHANGED <<committed, wslot, hdr, ring, shutdown, lastOff>>
      BY <1>11 DEF WritePipe
    <2>2. Len(committed) > 0
      BY <1>0, <2>1 DEF Turning, Closed, Committed
    <2>3. Trailing'
      BY <1>0, <1>t, <2>1, <2>2 DEF Trailing, AfterSignal, Open, Filling
    <2> QED
      BY <1>s, <2>1, <2>3
  <1>12. CASE CommitSeq
    <2> DEFINE n == Len(committed) + 1
               x == [ring[wslot] EXCEPT !.seq = hdr'.seq, !.idx = n]
    <2>1. /\ cpc = "seq" /\ cpc' = "num"
          /\ UNCHANGED <<wslot, lastOff, pipe, shutdown>>
          /\ committed' = Append(committed, Payload(ring[wslot].data, hdr.num))
          /\ ring' = [ring EXCEPT ![wslot] = x]
      BY <1>12, <1>t DEF CommitSeq
    <2>2. Payload(ring[wslot].data, hdr.num) \in Seq(Nat)
      BY <1>t, PayloadType DEF SlotType
    <2>3. Len(committed') = n
      BY <1>t, <2>1, <2>2, AppendProperties
    <2>4. hdr'.seq = n % MAX_SEQNUM
      <3>1. hdr' = [hdr EXCEPT !.seq = (hdr.seq + 1) % MAX_SEQNUM]
        BY <1>12 DEF CommitSeq
      <3>2. hdr.seq = Len(committed) % MAX_SEQNUM
        BY <1>0 DEF Turning
      <3> QED
        BY <1>t, <3>1, <3>2, NextSeqnum
    <2>5. x.seq = n % MAX_SEQNUM /\ x.idx = n
      BY <1>t, <2>4 DEF SlotType
    <2> HIDE DEF x
    <2>6. /\ ring'[wslot].seq = n % MAX_SEQNUM /\ ring'[wslot].idx = n
          /\ \A s \in Slots : s # wslot => ring'[s] = ring[s]
      BY <1>t, <2>1, <2>5
    <2>7. Open /\ Closed' /\ ~Open'
      BY <2>1 DEF Open, Closed, Filling, Committed
    <2>8. wslot = Len(committed) % NSlots
      BY <1>0, <2>7 DEF Turning
    <2>n. n \in Nat /\ n = Len(committed) + 1
      BY <1>t
    <2> HIDE DEF n
    <2>9. n % MAX_SEQNUM \in 0 .. MAX_SEQNUM - 1
      BY <1>t, <2>n, NextRemainder
    <2>10. Turning'
      BY <1>t, <2>1, <2>3, <2>4, <2>6, <2>7, <2>n DEF Turning
    <2>11. ASSUME NEW s \in Slots PROVE Dated(s)'
      <3>1. CASE s = wslot
        <4>1. n - 1 = Len(committed)
          BY <1>t, <2>n
        <4>2. (n - 1) % NSlots = wslot
          BY <2>8, <4>1
        <4>3. ring'[s].idx = n /\ ring'[s].seq = n % MAX_SEQNUM
              /\ ring'[s].seq # -1
          BY <1>t, <2>6, <2>9, <3>1
        <4>4. n > n - NSlots /\ n > 0
          BY <1>t, <2>n
        <4>5. (ring'[s].idx - 1) % NSlots = s
          BY <3>1, <4>2, <4>3
        <4> QED
          BY <2>3, <2>n, <4>3, <4>4, <4>5 DEF Dated
      <3>2. CASE s # wslot
        <4> DEFINE j == ring[s].idx
                   m == Len(committed)
        <4>1. /\ ring'[s] = ring[s] /\ ring'[s].idx = j /\ j \in Nat
              /\ m \in Nat /\ n = m + 1
          BY <1>0, <1>t, <2>6, <2>n, <3>2 DEF SlotType
        <4>2. /\ j <= m /\ j > m - NSlots /\ (j > 0 => (j - 1) % NSlots = s)
              /\ (j = 0 => s >= m) /\ ring[s].seq = j % MAX_SEQNUM
          BY <1>0, <2>7, <3>2, <4>1 DEF Dated
        <4>4. wslot = m % NSlots
          BY <2>8
        <4> HIDE DEF j, m
        <4>3. j > n - NSlots /\ (j = 0 => s >= n)
          <5>1. CASE j = 0
            <6>1. m < NSlots /\ s \in Nat /\ s < NSlots
              BY <1>t, <4>1, <4>2, <5>1
            <6>2. m % NSlots = m
              BY <1>t, <4>1, <6>1, NoWrap
            <6>3. s # m
              BY <4>4, <3>2, <6>2
            <6> QED
              BY <1>t, <4>1, <4>2, <5>1, <6>1, <6>3
          <5>2. CASE j > 0
            <6> SUFFICES ASSUME j = n - NSlots PROVE FALSE
              BY <1>t, <4>1, <4>2, <5>2
            <6>1. j - 1 \in Nat /\ m = (j - 1) + NSlots
              BY <1>t, <4>1, <5>2
            <6>2. ((j - 1) + NSlots) % NSlots = (j - 1) % NSlots
              BY <1>t, <6>1, FullTurn
            <6> QED
              BY <4>4, <3>2, <4>2, <5>2, <6>1, <6>2
          <5> QED
            BY <4>1, <5>1, <5>2
        <4> QED
          BY <1>t, <2>3, <2>7, <4>1, <4>2, <4>3 DEF Dated
      <3> QED
        BY <3>1, <3>2
    <2>12. Trailing'
      <3>1. ring'[lastOff].idx \in Nat /\ ring'[lastOff].idx >= 1
            /\ ring'[lastOff].idx >= Len(committed)
        <4>1. CASE lastOff = wslot
          BY <1>t, <2>6, <2>n, <4>1
        <4>2. CASE lastOff # wslot
          <5>1. ring'[lastOff] = ring[lastOff]
            BY <1>t, <2>6, <4>2
          <5>2. Len(committed) > 0
            <6> SUFFICES ASSUME Len(committed) = 0 PROVE FALSE
              BY <1>t
            <6>1. lastOff = 0 /\ 0 % NSlots = 0
              BY <1>0, <1>t, NoWrap DEF Trailing
            <6> QED
              BY <2>8, <4>2, <6>1
          <5>3. ring[lastOff].idx = Len(committed)
            BY <1>0, <2>7, <5>2 DEF Trailing
          <5> QED
            BY <1>t, <5>1, <5>2, <5>3
        <4> QED
          BY <4>1, <4>2
      <3> QED
        BY <1>t, <2>1, <2>3, <2>7, <2>n, <3>1 DEF Trailing
    <2> QED
      BY <2>10, <2>11, <2>12 DEF CoreLatest
  <1>13. CASE ProtectSeq
    <2> DEFINE x == [ring[wslot'] EXCEPT !.seq = -1]
               m == Len(committed)
    <2>1. /\ cpc = "protSeq" /\ cpc' = "protNum"
          /\ wslot' = (wslot + 1) % NSlots
          /\ UNCHANGED <<committed, hdr, pipe, shutdown, lastOff>>
          /\ ring' = [ring EXCEPT ![wslot'] = x]
      BY <1>13, <1>t DEF ProtectSeq
    <2>2. x.seq = -1 /\ x.idx = ring[wslot'].idx
      BY <1>t DEF SlotType
    <2> HIDE DEF x
    <2>3. /\ ring'[wslot'].seq = -1
          /\ \A s \in Slots : /\ ring'[s].idx = ring[s].idx
                              /\ s # wslot' => ring'[s].seq = ring[s].seq
      BY <1>t, <2>1, <2>2
    <2>4. Closed /\ Open' /\ ~Open /\ ~Closed' /\ ~shutdown
      BY <1>0, <2>1 DEF Turning, Open, Closed, Filling, Committed
    <2>5. m > 0 /\ ring[wslot].idx = m /\ (m - 1) % NSlots = wslot
      <3>1. m > 0 /\ ring[wslot].idx = m
        BY <1>0, <2>4 DEF Turning
      <3> QED
        BY <1>0, <1>t, <3>1 DEF Dated
    <2>6. wslot' = m % NSlots
      <3>1. m - 1 \in Nat /\ (m - 1) + 1 = m
        BY <1>t, <2>5
      <3> QED
        BY <1>t, <2>1, <2>5, <3>1, NextRemainder
    <2>7. ring[wslot'].idx = IF m < NSlots THEN 0 ELSE m + 1 - NSlots
      <3> DEFINE j == ring[wslot'].idx
      <3>1. /\ j \in Nat /\ j <= m /\ j > m - NSlots /\ (j = 0 => wslot' >= m)
            /\ (j > 0 => (j - 1) % NSlots = wslot')
        BY <1>0, <1>t DEF Dated, SlotType
      <3>m. m \in Nat
        BY <1>t
      <3> HIDE DEF j, m
      <3>2. CASE j = 0
        <4>1. wslot' \in Nat /\ wslot' < NSlots
          BY <1>t
        <4> QED
          BY <1>t, <3>1, <3>2, <3>m, <4>1 DEF j
      <3>3. CASE j > 0
        <4> DEFINE i == j - 1
        <4>1. i \in Nat /\ i <= m /\ i % NSlots = m % NSlots
          BY <1>t, <2>6, <3>1, <3>3, <3>m
        <4> HIDE DEF i
        <4>2. m - i < NSlots => i = m
          BY <1>t, <3>m, <4>1, SameRemainder
        <4>3. j = m + 1 - NSlots /\ m >= NSlots
          <5>1. m - i >= NSlots
            <6> SUFFICES ASSUME m - i < NSlots PROVE FALSE
              BY <1>t, <3>m, <4>1
            <6>1. i = m
              BY <4>2
            <6> QED
              BY <3>1, <3>m, <6>1 DEF i
          <5> QED
            BY <1>t, <3>1, <3>3, <3>m, <5>1 DEF i
        <4> QED
          BY <1>t, <3>m, <4>3 DEF j
      <3> QED
        BY <3>1, <3>2, <3>3
    <2>8. Turning'
      BY <1>0, <1>t, <2>1, <2>3, <2>4, <2>6, <2>7 DEF Turning
    <2>9. Trailing'
      BY <1>0, <1>t, <2>1, <2>3, <2>4 DEF Trailing
    <2>10. ASSUME NEW s \in Slots PROVE Dated(s)'
      BY <1>0, <1>t, <2>1, <2>3, <2>4 DEF Dated
    <2> QED
      BY <2>8, <2>9, <2>10 DEF CoreLatest
  <1> QED
    BY <1>1, <1>2, <1>3, <1>4, <1>5, <1>6, <1>7, <1>8, <1>9, <1>10, <1>11,
       <1>12, <1>13, <1>14 DEF CoreNext

\* Commits only accumulate, and a slot only ever moves on to the newest of them.
LEMMA CommitsGrow ==
  ASSUME CoreTypeOK, CoreTypeOK', CoreNext
  PROVE  /\ Len(committed) \in Nat /\ Len(committed') \in Nat
         /\ Len(committed) <= Len(committed')
         /\ \A s \in Slots : \/ ring'[s].idx = ring[s].idx
                             \/ ring'[s].idx = Len(committed) + 1
PROOF
  <1>t. /\ ring \in [Slots -> SlotType] /\ wslot \in Slots /\ wslot' \in Slots
        /\ committed \in Seq(Seq(Nat)) /\ Len(committed) \in Nat
        /\ committed' \in Seq(Seq(Nat)) /\ Len(committed') \in Nat
    BY LenProperties DEF CoreTypeOK
  <1>1. CASE CommitSeq
    <2>1. Payload(ring[wslot].data, hdr.num) \in Seq(Nat)
      BY <1>t, PayloadType DEF CoreTypeOK, SlotType
    <2>2. committed' = Append(committed, Payload(ring[wslot].data, hdr.num))
      BY <1>1 DEF CommitSeq
    <2>3. Len(committed') = Len(committed) + 1
      BY <1>t, <2>1, <2>2, AppendProperties
    <2>4. \A s \in Slots : \/ ring'[s].idx = ring[s].idx
                           \/ ring'[s].idx = Len(committed) + 1
      BY <1>1, <1>t DEF CommitSeq, SlotType
    <2> QED
      BY <1>t, <2>3, <2>4
  <1>2. CASE ~CommitSeq
    <2>1. committed' = committed
      BY <1>2 DEF CoreNext, ExecPlugins, Place, SampledOut, Reprocess,
         CommitNum, CommitPid,
         CommitOff, TestWakeup, WritePipe, ProtectSeq, ProtectNum, ProtectPid,
         Sigint,
         FillPipeBuffer, SignalPlugins
    <2>2. ASSUME NEW r,
                 ring' = [ring EXCEPT ![wslot].data
                   = Overlay(@, hdr.num + 1, r)]
          PROVE  \A s \in Slots : ring'[s].idx = ring[s].idx
      BY <1>t, <2>2 DEF SlotType
    <2>3. \A s \in Slots : ring'[s].idx = ring[s].idx
      <3>1. CASE \E v \in VarSizes : ExecPlugins(v)
        BY <2>2, <3>1 DEF ExecPlugins, Place
      <3>2. CASE Reprocess
        BY <2>2, <3>2 DEF Reprocess, Place
      <3>3. CASE CommitNum
        BY <1>t, <3>3 DEF CommitNum, SlotType
      <3>4. CASE CommitPid
        BY <1>t, <3>4 DEF CommitPid, SlotType
      <3>5. CASE ProtectSeq
        BY <1>t, <3>5 DEF ProtectSeq, SlotType
      <3>6. CASE ProtectNum
        BY <1>t, <3>6 DEF ProtectNum, SlotType
      <3>7. CASE ProtectPid
        BY <1>t, <3>7 DEF ProtectPid, SlotType
      <3>8. CASE SampledOut \/ CommitOff \/ TestWakeup \/ WritePipe \/ Sigint
                 \/ SignalPlugins
        BY <3>8 DEF SampledOut, CommitOff, TestWakeup, WritePipe, Sigint,
           FillPipeBuffer, SignalPlugins
      <3> QED
        BY <1>2, <3>1, <3>2, <3>3, <3>4, <3>5, <3>6, <3>7, <3>8 DEF CoreNext
    <2> QED
      BY <1>t, <2>1, <2>3
  <1> QED
    BY <1>1, <1>2

\* A buffer whose number is the one after commit a's follows commit a, or is a whole
\* multiple of MAX_SEQNUM further on: slots are never more than a lap old.
LEMMA NumberTells ==
  ASSUME CoreTypeOK, NEW a \in Nat, NEW m \in Nat, a <= m, NEW j \in Nat,
         j > m - NSlots,
         j % MAX_SEQNUM = (a + 1) % MAX_SEQNUM
  PROVE  j >= a + 1 /\ (j - (a + 1)) % MAX_SEQNUM = 0
PROOF
  <1>1. MAX_SEQNUM \in Nat \ {0} /\ NSlots \in Nat /\ MAX_SEQNUM > NSlots
    BY RingAssumption
  <1> DEFINE b == a + 1
  <1>b. b \in Nat /\ b = a + 1 /\ j % MAX_SEQNUM = b % MAX_SEQNUM
    OBVIOUS
  <1> HIDE DEF b
  <1>2. j >= b
    <2> SUFFICES ASSUME j < b PROVE FALSE
      BY <1>b
    <2>1. b - j < MAX_SEQNUM /\ j <= b
      BY <1>1, <1>b
    <2>2. j = b
      BY <1>1, <1>b, <2>1, SameRemainder
    <2> QED
      BY <1>b, <2>2
  <1>3. (j - b) % MAX_SEQNUM = 0
    BY <1>1, <1>2, <1>b, SameRemainder
  <1> QED
    BY <1>2, <1>3, <1>b

-----------------------------------------------------------------------------
(***************************************************************************)
(* The plugins of the poll() loop.                                         *)
(***************************************************************************)

\* rslot is a slot of the ring at the steps that load from it: set by CheckSeq
\* or Resync, moved past the end only by CopyData.
SlotInRing ==
  rpc \in {"resync", "resyncSeq", "copyHdr", "copyData"} => rslot \in Slots

\* Every plugin step keeps the types of both sides.
LEMMA ReaderStepType ==
  ASSUME TypeOK, SlotInRing, ReaderNext
  PROVE  TypeOK' /\ SlotInRing'
PROOF
  <1> USE RingAssumption DEF TypeOK, ReaderPCs, SlotInRing, Slots
  <1>1. CASE PollAgain
    BY <1>1 DEF PollAgain, CoreTypeOK
  <1>2. CASE PollData
    BY <1>2 DEF PollData, CoreTypeOK, coreVars
  <1>3. CASE PollTimeout
    BY <1>3 DEF PollTimeout, CoreTypeOK, coreVars
  <1>4. CASE NextSeq
    <2>1. (rseq + 1) % MAX_SEQNUM \in 0 .. MAX_SEQNUM - 1
      BY SeqnumType
    <2> QED
      BY <1>4, <2>1 DEF NextSeq, CoreTypeOK, coreVars
  <1>5. CASE ReadPipe
    <2>1. pipe' \in Seq(Slots)
      BY <1>5, HeadTailProperties DEF ReadPipe, CoreTypeOK
    <2> QED
      BY <1>5, <2>1 DEF ReadPipe, CoreTypeOK
  <1>6. CASE CheckSeq
    <2>1. RingPos \in Slots
      BY DEF RingPos
    <2>2. ring[RingPos].idx \in Nat
      BY <2>1 DEF CoreTypeOK, SlotType
    <2>3. CoreTypeOK'
      BY <1>6 DEF CheckSeq, CoreTypeOK, coreVars
    <2>4. rslot' \in Slots /\ rslot' \in 0 .. NSlots
      BY <1>6, <2>1 DEF CheckSeq
    <2>5. /\ rpc' \in ReaderPCs /\ pollagain' \in BOOLEAN
          /\ errs' \in Nat /\ accepted' \in Nat
      <3>1. \/ accepted' = ring[RingPos].idx /\ rpc' = "copyHdr"
               /\ pollagain' = pollagain /\ errs' = errs
            \/ pollagain' = TRUE /\ rpc' = "poll_again"
               /\ errs' = errs /\ accepted' = accepted
            \/ errs' = errs + 1 /\ rpc' = "resync"
               /\ pollagain' = pollagain /\ accepted' = accepted
        BY <1>6, Zenon DEF CheckSeq
      <3>2. pollagain' \in BOOLEAN
        BY <3>1, Zenon
      <3> QED
        BY <2>2, <3>1, <3>2
    <2>6. UNCHANGED <<rseq, pipebuf, overrun>>
      BY <1>6 DEF CheckSeq
    <2> QED
      BY <2>3, <2>4, <2>5, <2>6
  <1>7. CASE Resync
    BY <1>7 DEF Resync, CoreTypeOK, coreVars
  <1>8. CASE ResyncSeq
    <2>1. ring[rslot] \in SlotType
      BY <1>8 DEF ResyncSeq, CoreTypeOK
    <2>2. CoreTypeOK'
      BY <1>8 DEF ResyncSeq, CoreTypeOK, coreVars
    <2> QED
      BY <1>8, <2>1, <2>2 DEF ResyncSeq, SlotType
  <1>9. CASE CopyHdr
    <2>1. ring[rslot] \in SlotType
      BY <1>9 DEF CopyHdr, CoreTypeOK
    <2>2. CoreTypeOK'
      BY <1>9 DEF CopyHdr, CoreTypeOK, coreVars
    <2>3. pipebuf' \in [num : Nat, pid : {0, CorePid}, data : Seq(Nat),
                        idx : Nat]
      BY <1>9, <2>1 DEF CopyHdr, SlotType
    <2> QED
      BY <1>9, <2>2, <2>3 DEF CopyHdr
  <1>10. CASE CopyData
    <2>1. ring[rslot].data \in Seq(Nat)
      BY <1>10 DEF CopyData, CoreTypeOK, SlotType
    <2>2. CoreTypeOK'
      BY <1>10 DEF CopyData, CoreTypeOK, coreVars
    <2>3. pipebuf' \in [num : Nat, pid : {0, CorePid}, data : Seq(Nat),
                        idx : Nat]
      BY <1>10, <2>1 DEF CopyData
    <2>4. rslot' \in 0 .. NSlots
      <3>1. rslot \in Slots /\ rslot' = rslot + 1
        BY <1>10 DEF CopyData
      <3> QED
        BY <3>1
    <2> QED
      BY <1>10, <2>2, <2>3, <2>4 DEF CopyData
  <1>11. CASE Process
    <2>1. CoreTypeOK'
      BY <1>11 DEF Process, CoreTypeOK, coreVars
    <2>2. pipebuf' \in [num : Nat, pid : {0, CorePid}, data : Seq(Nat),
                        idx : Nat]
      BY <1>11 DEF Process
    <2> QED
      BY <1>11, <2>1, <2>2 DEF Process
  <1>12. CASE ReaderExit
    BY <1>12 DEF ReaderExit, CoreTypeOK, coreVars
  <1> QED
    BY <1>1, <1>2, <1>3, <1>4, <1>5, <1>6, <1>7, <1>8, <1>9, <1>10, <1>11,
       <1>12
       DEF ReaderNext

\* Types, with what keeps them: the plugin's loads are from slots of the ring.
LEMMA ReaderTypes == Spec => [](TypeOK /\ SlotInRing)
PROOF
  <1> DEFINE Inv == TypeOK /\ SlotInRing
  <1>1. Init => Inv
    <2> SUFFICES ASSUME Init PROVE Inv
      OBVIOUS
    <2> USE RingAssumption DEF Init, CoreInit, ReaderInit
    <2>1. CoreTypeOK
      BY CoreInitType
    <2>2. rseq \in -1 .. MAX_SEQNUM - 1 /\ rslot \in 0 .. NSlots
      OBVIOUS
    <2>3. pipebuf \in [num : Nat, pid : {0, CorePid}, data : Seq(Nat),
                       idx : Nat]
      BY EmptySeq
    <2> QED
      BY <2>1, <2>2, <2>3 DEF TypeOK, SlotInRing, ReaderPCs
  <1>2. Inv /\ [Next]_vars => Inv'
    <2> SUFFICES ASSUME Inv, [Next]_vars PROVE Inv'
      OBVIOUS
    <2>1. CASE CoreStep
      <3>1. CoreTypeOK'
        BY <2>1, CoreStepType DEF CoreStep, TypeOK
      <3>2. overrun' \in BOOLEAN
        BY <2>1 DEF CoreStep, TypeOK
      <3> QED
        BY <2>1, <3>1, <3>2 DEF CoreStep, TypeOK, SlotInRing
    <2>2. CASE ReaderNext
      BY <2>2, ReaderStepType
    <2>3. CASE UNCHANGED vars
      BY <2>3 DEF vars, coreVars, readerVars, TypeOK, CoreTypeOK, SlotInRing
    <2> QED
      BY <2>1, <2>2, <2>3 DEF Next
  <1> QED
    BY <1>1, <1>2, PTL DEF Spec

\* The channel's state is always well typed: sequence numbers stay below
\* MAX_SEQNUM on both sides and the plugin never loads from outside the ring,
\* for any ring size and any interleaving of exec_plugins() with the plugin.
THEOREM ReaderTypeCorrect == Spec => []TypeOK
PROOF
  BY ReaderTypes, PTL

\* A plugin asleep in poll() with nothing to read is always armed, for any
\* ring, any doorbell capacity and any traffic, provided the SIGINT handler
\* does not run between the core lowering wakeup and ringing.
THEOREM SleepIsArmed ==
  ASSUME "signal" \notin SigintWindow
  PROVE  Spec => []SleepArmed
PROOF
  <1>1. Init => SleepArmed
    BY DEF Init, ReaderInit, SleepArmed
  <1>2. TypeOK /\ SleepArmed /\ [Next]_vars => SleepArmed'
    <2> SUFFICES ASSUME TypeOK, SleepArmed, [Next]_vars PROVE SleepArmed'
      OBVIOUS
    <2>1. CASE CoreStep
      <3>1. rpc' = rpc
        BY <2>1 DEF CoreStep
      <3>2. CASE WritePipe
        <4>1. pipe' # << >>
          <5>1. pipe \in Seq(Slots) /\ wslot \in Slots
            BY DEF TypeOK, CoreTypeOK
          <5>2. CASE Len(pipe) < PipeCap
            BY <3>2, <5>1, <5>2, AppendProperties DEF WritePipe
          <5>3. CASE ~(Len(pipe) < PipeCap)
            <6>1. Len(pipe) > 0
              BY <5>1, <5>3, LenProperties, RingAssumption
            <6>2. pipe # << >>
              BY <5>1, <6>1, EmptySeq
            <6> QED
              BY <3>2, <5>3, <6>2 DEF WritePipe
          <5> QED
            BY <5>2, <5>3
        <4> QED
          BY <4>1 DEF SleepArmed
      <3>3. CASE TestWakeup
        BY <3>1, <3>3 DEF TestWakeup, SleepArmed
      <3>4. CASE Sigint
        BY <3>1, <3>4 DEF Sigint, FillPipeBuffer, SleepArmed
      <3>5. CASE ~(WritePipe \/ TestWakeup \/ Sigint)
        <4>1. pipe' = pipe /\ wakeup' = wakeup /\ cpc # "signal"
          BY <2>1, <3>5
             DEF CoreStep, CoreNext, ExecPlugins, Place, SampledOut, Reprocess,
                 CommitSeq, CommitNum, CommitPid, CommitOff, ProtectSeq,
                 ProtectNum, ProtectPid, SignalPlugins
        <4> QED
          BY <3>1, <4>1 DEF SleepArmed
      <3> QED
        BY <3>2, <3>3, <3>4, <3>5
    <2>2. CASE ReaderNext
      <3>1. CASE PollAgain
        BY <3>1 DEF PollAgain, SleepArmed
      <3>2. CASE ~PollAgain
        <4>1. rpc' # "poll"
          BY <2>2, <3>2
             DEF ReaderNext, PollData, PollTimeout, NextSeq, ReadPipe, CheckSeq,
                 Resync, ResyncSeq, CopyHdr, CopyData, Process, ReaderExit
        <4> QED
          BY <4>1 DEF SleepArmed
      <3> QED
        BY <3>1, <3>2
    <2>3. CASE UNCHANGED vars
      BY <2>3 DEF vars, coreVars, readerVars, SleepArmed
    <2> QED
      BY <2>1, <2>2, <2>3 DEF Next
  <1> QED
    BY <1>1, <1>2, ReaderTypeCorrect, PTL DEF Spec

-----------------------------------------------------------------------------
(***************************************************************************)
(* The invariant behind WholeOrNothing.  Before the plugin takes a buffer  *)
(* it expects the number after the last one's; from then on until it has   *)
(* processed it, that buffer's own.                                        *)
(***************************************************************************)
Expecting ==
  rpc \in {"poll_again", "poll", "check", "resync", "resyncSeq"}
  \/ (rpc = "read_data" /\ pollagain)

Numbered ==
  /\ rpc # "exited" =>
       rseq = (accepted + (IF Expecting THEN 1 ELSE 0)) % MAX_SEQNUM
  /\ accepted <= Len(committed)
  /\ rpc \in {"poll_again", "poll"} => pollagain
  /\ rpc \in {"copyData", "process"} => ~pollagain
  /\ rpc \notin {"poll_again", "poll", "exited"} => Len(committed) > 0

\* the slot the plugin copies from, and its copy
Reading ==
  /\ rpc = "resyncSeq" => Sealed(rslot)
  /\ rpc \in {"copyHdr", "copyData"} => Sealed(rslot)
     /\ ring[rslot].idx = accepted
  /\ rpc = "copyData" =>
       Payload(ring[rslot].data, pipebuf.num) \in {<< >>, committed[accepted]}
  /\ rpc = "process" =>
       /\ accepted \in DOMAIN committed
       /\ Payload(pipebuf.data, pipebuf.num) \in {<< >>, committed[accepted]}

WholeInv == TypeOK /\ SlotInRing /\ CoreSlots
  /\ (~overrun => Numbered /\ Reading)

\* A slot the plugin is not past announces nothing, or what its commit holds.
LEMMA WholeSlot ==
  ASSUME TypeOK, CoreSlots, NEW s \in Slots, Sealed(s)
  PROVE  /\ ring[s].idx \in 1 .. Len(committed)
         /\ ring[s].seq = ring[s].idx % MAX_SEQNUM
         /\ Payload(ring[s].data, ring[s].num)
            \in {<< >>, committed[ring[s].idx]}
PROOF
  <1>1. Contents(s)
    BY DEF CoreSlots
  <1>2. ring[s].data \in Seq(Nat)
    BY DEF TypeOK, CoreTypeOK, SlotType
  <1>3. Payload(ring[s].data, 0) = << >>
    BY <1>2, LenProperties, SubSeqProperties, EmptySeq DEF Payload
  <1> QED
    BY <1>1, <1>3 DEF Contents

\* While nothing is overrun the core leaves alone what the plugin is about to
\* copy or has copied.
LEMMA WholeCoreStep ==
  ASSUME SigintWindow \subseteq {"fill", "seq"}, WholeInv, TypeOK', CoreStep,
         ~overrun'
  PROVE  Numbered' /\ Reading'
PROOF
  <1>0. /\ Numbered /\ Reading /\ CoreNext
        /\ UNCHANGED <<rpc, rseq, rslot, pollagain, pipebuf, accepted>>
        /\ ~(cpc = "protSeq" /\ cpc' = "protNum" /\ Unread(wslot'))
    BY DEF WholeInv, CoreStep
  <1>1. /\ committed \in Seq(Seq(Nat)) /\ Len(committed) \in Nat
        /\ accepted \in Nat
        /\ hdr.num \in Nat /\ ring[wslot].data \in Seq(Nat)
    BY LenProperties DEF WholeInv, TypeOK, CoreTypeOK, SlotType
  <1>2. Payload(ring[wslot].data, hdr.num) \in Seq(Nat)
    BY <1>1, PayloadType
  <1>3. \/ committed' = committed
        \/ committed' = Append(committed, Payload(ring[wslot].data, hdr.num))
    <2>1. 0 \in Slots
      BY RingAssumption DEF Slots
    <2> QED
      BY <1>0, <2>1, CoreFrame DEF WholeInv, TypeOK
  <1>4. /\ Len(committed') \in Nat /\ Len(committed) <= Len(committed')
        /\ \A k \in 1 .. Len(committed) : committed'[k] = committed[k]
    <2>1. CASE committed' = committed
      BY <1>1, <2>1
    <2>2. CASE committed'
               = Append(committed, Payload(ring[wslot].data, hdr.num))
      BY <1>1, <1>2, <2>2, AppendProperties
    <2> QED
      BY <1>3, <2>1, <2>2
  <1>5. Numbered'
    BY <1>0, <1>1, <1>4 DEF Numbered, Expecting
  <1>6. ASSUME rpc \in {"resyncSeq", "copyHdr", "copyData"}
        PROVE  /\ Sealed(rslot)'
               /\ ring'[rslot].idx = ring[rslot].idx
               /\ ring'[rslot].data = ring[rslot].data
    <2>1. rslot \in Slots /\ Sealed(rslot)
      BY <1>0, <1>6 DEF WholeInv, SlotInRing, Reading
    <2>2. cpc = "protSeq" => rslot # wslot'
      <3>1. cpc = "protSeq" => cpc' = "protNum"
        BY <1>0 DEF CoreNext, ExecPlugins, Place, SampledOut, Reprocess,
           CommitSeq,
             CommitNum, CommitPid, CommitOff, TestWakeup, WritePipe, ProtectSeq,
             ProtectNum, ProtectPid, Sigint, SignalPlugins
      <3> QED
        BY <1>0, <1>6, <3>1 DEF Unread
    <2>3. /\ ring'[rslot].seq = ring[rslot].seq
          /\ ring'[rslot].idx = ring[rslot].idx
          /\ ring'[rslot].data = ring[rslot].data
      BY <1>0, <2>1, <2>2, CoreFrame DEF WholeInv, TypeOK
    <2> QED
      BY <1>0, <2>1, <2>3 DEF Sealed
  <1>7. rpc \in {"copyHdr", "copyData", "process"} =>
          accepted \in 1 .. Len(committed)
            /\ committed'[accepted] = committed[accepted]
    <2>1. CASE rpc \in {"copyHdr", "copyData"}
      <3>1. rslot \in Slots /\ Sealed(rslot) /\ ring[rslot].idx = accepted
        BY <1>0, <2>1 DEF WholeInv, SlotInRing, Reading
      <3>2. accepted \in 1 .. Len(committed)
        BY <3>1, WholeSlot DEF WholeInv
      <3> QED
        BY <1>4, <3>2
    <2>2. CASE rpc = "process"
      <3>1. accepted \in 1 .. Len(committed)
        BY <1>0, <1>1, <2>2, LenProperties DEF Reading
      <3> QED
        BY <1>4, <3>1
    <2> QED
      BY <2>1, <2>2
  <1>8. Reading'
    <2>1. rpc' = "resyncSeq" => Sealed(rslot)'
      BY <1>0, <1>6
    <2>2. rpc' \in {"copyHdr", "copyData"} =>
            Sealed(rslot)' /\ ring'[rslot'].idx = accepted'
      BY <1>0, <1>6 DEF Reading
    <2>3. rpc' = "copyData" =>
            Payload(ring'[rslot'].data, pipebuf'.num)
              \in {<< >>, committed'[accepted']}
      BY <1>0, <1>6, <1>7 DEF Reading
    <2>4. rpc' = "process" =>
            /\ accepted' \in DOMAIN committed'
            /\ Payload(pipebuf'.data, pipebuf'.num)
               \in {<< >>, committed'[accepted']}
      <3>1. committed' \in Seq(Seq(Nat))
        BY DEF TypeOK, CoreTypeOK
      <3>2. DOMAIN committed' = 1 .. Len(committed')
        BY <3>1, LenProperties
      <3> QED
        BY <1>0, <1>1, <1>4, <1>7, <3>2 DEF Reading
    <2> QED
      BY <2>1, <2>2, <2>3, <2>4 DEF Reading
  <1> QED
    BY <1>5, <1>8

\* The plugin takes the slot whose number it expects, or the one last_buf_off
\* names; both are sealed, and its copy is of that commit.
LEMMA WholeReaderStep ==
  ASSUME WholeInv, TypeOK', SlotInRing', ReaderNext
  PROVE  CoreSlots' /\ (~overrun' => Numbered' /\ Reading')
PROOF
  <1>0. /\ UNCHANGED <<cpc, hdr, wslot, ring, committed, overrun, lastOff,
           shutdown>>
        /\ pipe' # << >> => pipe # << >>
    BY DEF ReaderNext, PollAgain, PollData, PollTimeout, NextSeq, ReadPipe,
           CheckSeq, Resync, ResyncSeq, CopyHdr, CopyData, Process, ReaderExit,
           coreVars
  <1>1. CoreSlots'
    BY <1>0 DEF WholeInv, CoreSlots, Contents, Sealed, Lap, Filling, Committed,
       LastSealed
  <1> SUFFICES ASSUME ~overrun' PROVE Numbered' /\ Reading'
    BY <1>1
  <1>2. Numbered /\ Reading /\ CoreSlots /\ TypeOK /\ SlotInRing
    BY <1>0 DEF WholeInv
  <1>t. /\ committed \in Seq(Seq(Nat)) /\ Len(committed) \in Nat
        /\ DOMAIN committed = 1 .. Len(committed)
        /\ accepted \in Nat /\ rseq \in Int /\ rslot \in 0 .. NSlots
        /\ ring \in [Slots -> SlotType] /\ pollagain \in BOOLEAN
        /\ MAX_SEQNUM \in Nat /\ NSlots \in Nat \ {0} /\ MAX_SEQNUM > NSlots
    BY <1>2, LenProperties, RingAssumption DEF TypeOK, CoreTypeOK
  <1>3. CASE PollAgain
    BY <1>0, <1>2, <1>3 DEF PollAgain, Numbered, Expecting, Reading
  <1>4. CASE PollData
    <2>1. Len(committed) > 0
      BY <1>2, <1>4 DEF PollData, CoreSlots, LastSealed
    <2> QED
      BY <1>0, <1>2, <1>4, <2>1 DEF PollData, Numbered, Expecting, Reading
  <1>5. CASE PollTimeout
    BY <1>0, <1>2, <1>5 DEF PollTimeout, Numbered, Expecting, Reading
  <1>6. CASE NextSeq
    <2>1. /\ rpc = "read_data" /\ ~pollagain /\ rpc' = "check"
          /\ rseq' = (rseq + 1) % MAX_SEQNUM
          /\ UNCHANGED <<pollagain, accepted>>
      BY <1>6 DEF NextSeq
    <2>2. rseq = accepted % MAX_SEQNUM
      BY <1>2, <1>t, <2>1 DEF Numbered, Expecting
    <2>3. rseq' = (accepted + 1) % MAX_SEQNUM
      BY <1>t, <2>1, <2>2, NextSeqnum
    <2> QED
      BY <1>0, <1>2, <2>1, <2>3 DEF Numbered, Expecting, Reading
  <1>7. CASE ReadPipe
    BY <1>0, <1>2, <1>7 DEF ReadPipe, Numbered, Expecting, Reading
  <1>8. CASE CheckSeq
    <2>1. rpc = "check" /\ rslot' = RingPos /\ RingPos \in Slots
          /\ UNCHANGED <<rseq, pipebuf>>
      BY <1>8, <1>t DEF CheckSeq, RingPos, Slots
    <2>2. rseq = (accepted + 1) % MAX_SEQNUM /\ accepted <= Len(committed)
          /\ Len(committed) > 0
      BY <1>2, <2>1 DEF Numbered, Expecting
    <2>3. CASE ring[RingPos].seq = rseq
      <3> DEFINE s == RingPos
      <3>1. accepted' = ring[s].idx /\ rpc' = "copyHdr"
            /\ pollagain' = pollagain
        BY <1>8, <2>3 DEF CheckSeq
      <3>2. rseq # -1
        <4>1. \A a \in Nat, n \in Nat \ {0} : a % n \in 0 .. n - 1
          OBVIOUS
        <4> QED
          BY <1>t, <2>2, <4>1
      <3>3. ring[s].idx # 0
        <4> SUFFICES ASSUME ring[s].idx = 0 PROVE FALSE
          OBVIOUS
        <4>1. Len(committed) <= s /\ rseq = 0
          BY <1>2, <2>1, <2>3, <3>2 DEF CoreSlots, Lap
        <4>2. accepted + 1 < MAX_SEQNUM
          BY <1>t, <2>1, <2>2, <4>1 DEF Slots
        <4>3. (accepted + 1) % MAX_SEQNUM = accepted + 1
          <5>1. accepted + 1 \in Nat /\ MAX_SEQNUM \in Nat \ {0}
            BY <1>t
          <5>2. \A k \in Nat : k < MAX_SEQNUM => k % MAX_SEQNUM = k
            BY <5>1, NoWrap
          <5> QED
            BY <4>2, <5>1, <5>2
        <4> QED
          BY <1>t, <2>2, <4>1, <4>3
      <3>4. Sealed(s)
        BY <1>t, <2>1, <2>3, <3>2, <3>3 DEF Sealed, SlotType
      <3>5. ring[s].idx \in 1 .. Len(committed)
            /\ ring[s].seq = ring[s].idx % MAX_SEQNUM
        BY <1>2, <2>1, <3>4, WholeSlot
      <3>6. rseq' = accepted' % MAX_SEQNUM /\ accepted' <= Len(committed)
            /\ accepted' \in Nat
        BY <1>t, <2>1, <2>3, <3>1, <3>5
      <3>7. Numbered'
        BY <1>0, <2>2, <3>1, <3>6 DEF Numbered, Expecting
      <3> QED
        BY <1>0, <2>1, <3>1, <3>4, <3>7 DEF Reading, Sealed
    <2>4. CASE ring[RingPos].seq # rseq
      <3>1. /\ accepted' = accepted
            /\ \/ pollagain' = TRUE /\ rpc' = "poll_again"
               \/ pollagain' = pollagain /\ rpc' = "resync"
        BY <1>8, <2>4 DEF CheckSeq
      <3>2. Numbered'
        BY <1>0, <2>1, <2>2, <3>1 DEF Numbered, Expecting
      <3> QED
        BY <3>1, <3>2 DEF Reading
    <2> QED
      BY <2>3, <2>4
  <1>9. CASE Resync
    <2>1. rpc = "resync" /\ rpc' = "resyncSeq" /\ rslot' = lastOff
          /\ UNCHANGED <<rseq, pollagain, accepted>>
      BY <1>9 DEF Resync
    <2>2. Len(committed) > 0 /\ Sealed(lastOff)
      BY <1>2, <2>1 DEF Numbered, CoreSlots, LastSealed
    <2> QED
      BY <1>0, <1>2, <2>1, <2>2 DEF Numbered, Expecting, Reading, Sealed
  <1>10. CASE ResyncSeq
    <2>1. /\ rpc = "resyncSeq" /\ rpc' = "copyHdr" /\ rseq' = ring[rslot].seq
          /\ accepted' = ring[rslot].idx /\ UNCHANGED <<rslot, pollagain>>
      BY <1>10 DEF ResyncSeq
    <2>2. rslot \in Slots /\ Sealed(rslot)
      BY <1>2, <2>1 DEF SlotInRing, Reading
    <2>3. ring[rslot].idx \in 1 .. Len(committed)
          /\ ring[rslot].seq = ring[rslot].idx % MAX_SEQNUM
      BY <1>2, <2>2, WholeSlot
    <2>4. rseq' = accepted' % MAX_SEQNUM /\ accepted' <= Len(committed)
          /\ accepted' \in Nat
      BY <1>t, <2>1, <2>3
    <2>5. Numbered'
      BY <1>0, <1>2, <2>1, <2>4 DEF Numbered, Expecting
    <2> QED
      BY <1>0, <2>1, <2>2, <2>5 DEF Reading, Sealed
  <1>11. CASE CopyHdr
    <2>1. /\ rpc = "copyHdr" /\ rpc' = "copyData" /\ pollagain' = FALSE
          /\ pipebuf' = [pipebuf EXCEPT !.num = ring[rslot].num,
                                        !.pid = ring[rslot].pid,
                                          !.idx = ring[rslot].idx]
          /\ UNCHANGED <<rseq, rslot, accepted>>
      BY <1>11 DEF CopyHdr
    <2>2. pipebuf'.num = ring[rslot].num
      BY <1>2, <2>1 DEF TypeOK
    <2>3. rslot \in Slots /\ Sealed(rslot) /\ ring[rslot].idx = accepted
      BY <1>2, <2>1 DEF SlotInRing, Reading
    <2>4. Payload(ring[rslot].data, ring[rslot].num)
          \in {<< >>, committed[accepted]}
      BY <1>2, <2>3, WholeSlot
    <2>5. Numbered'
      BY <1>0, <1>2, <2>1 DEF Numbered, Expecting
    <2> QED
      BY <1>0, <2>1, <2>2, <2>3, <2>4, <2>5 DEF Reading, Sealed
  <1>12. CASE CopyData
    <2>1. /\ rpc = "copyData" /\ rpc' = "process"
          /\ pipebuf' = [pipebuf EXCEPT !.data = ring[rslot].data]
          /\ UNCHANGED <<rseq, pollagain, accepted>>
      BY <1>12 DEF CopyData
    <2>2. pipebuf'.num = pipebuf.num /\ pipebuf'.data = ring[rslot].data
      BY <1>2, <2>1 DEF TypeOK
    <2>3. rslot \in Slots /\ Sealed(rslot) /\ ring[rslot].idx = accepted
      BY <1>2, <2>1 DEF SlotInRing, Reading
    <2>4. accepted \in 1 .. Len(committed)
      BY <1>2, <2>3, WholeSlot
    <2>5. Payload(ring[rslot].data, pipebuf.num)
          \in {<< >>, committed[accepted]}
      BY <1>2, <2>1 DEF Reading
    <2>6. Numbered'
      BY <1>0, <1>2, <2>1 DEF Numbered, Expecting
    <2> QED
      BY <1>0, <1>t, <2>1, <2>2, <2>4, <2>5, <2>6 DEF Reading
  <1>13. CASE Process
    <2>1. rpc = "process" /\ rpc' = "read_data" /\ ~pollagain
          /\ UNCHANGED <<rseq, pollagain, accepted>>
      BY <1>2, <1>13 DEF Process, Numbered
    <2> QED
      BY <1>0, <1>2, <2>1 DEF Numbered, Expecting, Reading
  <1>14. CASE ReaderExit
    BY <1>0, <1>2, <1>14 DEF ReaderExit, Numbered, Reading
  <1> QED
    BY <1>3, <1>4, <1>5, <1>6, <1>7, <1>8, <1>9, <1>10, <1>11, <1>12, <1>13,
       <1>14
       DEF ReaderNext

\* Whatever the two processes interleave, a plugin of the poll() loop processes a
\* buffer as exec_plugins() committed it or nothing, unless the core overran it:
\* for any ring of two slots or more.  SIGINT is taken to come between two buffers.
THEOREM BuffersAreWhole ==
  ASSUME SigintWindow \subseteq {"fill", "seq"}, NSlots > 1
  PROVE  Spec => []WholeOrNothing
PROOF
  <1>1. Init => CoreSlots /\ Numbered /\ Reading
    <2> SUFFICES ASSUME Init PROVE CoreSlots /\ Numbered /\ Reading
      OBVIOUS
    <2>1. CoreSlots
      BY CoreSlotsInit DEF Init
    <2>2. 1 % MAX_SEQNUM = 1
      BY RingAssumption, NoWrap
    <2>3. Numbered
      BY <2>2 DEF Init, CoreInit, ReaderInit, Numbered, Expecting
    <2> QED
      BY <2>1, <2>3 DEF Init, ReaderInit, Reading
  <1>2. WholeInv /\ TypeOK' /\ SlotInRing' /\ [Next]_vars => WholeInv'
    <2> SUFFICES ASSUME WholeInv, TypeOK', SlotInRing',
                        [Next]_vars PROVE WholeInv'
      OBVIOUS
    <2>1. CASE CoreStep
      <3>1. CoreSlots'
        BY <2>1, CoreSlotsStep DEF CoreStep, WholeInv, TypeOK
      <3>2. ~overrun' => Numbered' /\ Reading'
        BY <2>1, WholeCoreStep
      <3> QED
        BY <3>1, <3>2 DEF WholeInv
    <2>2. CASE ReaderNext
      BY <2>2, WholeReaderStep DEF WholeInv
    <2>3. CASE UNCHANGED vars
      BY <2>3 DEF vars, coreVars, readerVars, WholeInv, CoreSlots, Sealed,
         Contents, Lap,
             Filling, Committed, LastSealed, Numbered, Expecting, Reading
    <2> QED
      BY <2>1, <2>2, <2>3 DEF Next
  <1>3. WholeInv => WholeOrNothing
    BY DEF WholeInv, Reading, WholeOrNothing, Received
  <1>4. WholeInv <=> TypeOK /\ SlotInRing /\ CoreSlots
        /\ (~overrun => Numbered /\ Reading)
    BY DEF WholeInv
  <1> QED
    BY <1>1, <1>2, <1>3, <1>4, ReaderTypes, PTL DEF Spec

-----------------------------------------------------------------------------
(***************************************************************************)
(* The invariant behind TakesInOrder, overrun or not.  The plugin's place  *)
(* in the ring follows from the commit it took last, and so does the       *)
(* number it expects, unless its last resync caught a slot under           *)
(* protection: then the core is about a lap ahead.                         *)
(***************************************************************************)
Tracking == rseq = (accepted + (IF Expecting THEN 1 ELSE 0)) % MAX_SEQNUM

Lost ==
  /\ accepted >= 1 /\ Len(committed) >= accepted + NSlots - 1
  /\ rseq = IF Expecting THEN 0 ELSE -1

Counted ==
  /\ rpc # "exited" => Tracking \/ Lost
  /\ accepted <= Len(committed)
  /\ rpc \in {"poll_again", "poll"} => pollagain
  /\ rpc \in {"copyData", "process"} => ~pollagain
  /\ rpc \notin {"poll_again", "poll", "exited"} => Len(committed) > 0

Placed ==
  /\ rpc \in {"poll_again", "poll", "read_data", "check", "process"} =>
       RingPos = accepted % NSlots
  /\ rpc = "resyncSeq" =>
       ring[rslot].idx >= 1 /\ ring[rslot].idx >= accepted - 1
  /\ rpc \in {"copyHdr", "copyData"} =>
       accepted >= 1 /\ rslot = (accepted - 1) % NSlots

OrderInv == TypeOK /\ SlotInRing /\ CoreLatest /\ Counted /\ Placed

\* What a matching sequence number says of the slot: it holds the last buffer or a
\* later one, and for a plugin in step with the sequence the next, or one a common
\* multiple of both moduli further on.
LEMMA MatchTells ==
  ASSUME OrderInv, rpc = "check", ring[RingPos].seq = rseq, NEW j,
         j = ring[RingPos].idx
  PROVE  /\ j \in Nat /\ j >= 1 /\ j <= Len(committed) /\ j >= accepted
         /\ (j - 1) % NSlots = RingPos /\ rseq = j % MAX_SEQNUM
         /\ InStep => Unseen(j - (accepted + 1))
PROOF
  <1> DEFINE a == accepted
             m == Len(committed)
  <1>1. /\ NSlots \in Nat \ {0} /\ MAX_SEQNUM \in Nat \ {0}
        /\ MAX_SEQNUM > NSlots
        /\ a \in Nat /\ m \in Nat /\ a <= m /\ CoreTypeOK
    BY LenProperties, RingAssumption DEF OrderInv, Counted, TypeOK, CoreTypeOK
  <1>2. RingPos \in Slots /\ RingPos \in Nat /\ RingPos < NSlots
        /\ RingPos = a % NSlots
    BY <1>1 DEF OrderInv, Placed, TypeOK, RingPos, Slots
  <1>3. /\ j \in Nat /\ j <= m /\ j > m - NSlots
        /\ j > 0 => (j - 1) % NSlots = RingPos
        /\ j = 0 => RingPos >= m
        /\ rseq # -1 => rseq = j % MAX_SEQNUM
    BY <1>2 DEF OrderInv, CoreLatest, Dated, TypeOK, CoreTypeOK, SlotType
  <1>4. \/ rseq = (a + 1) % MAX_SEQNUM
        \/ a >= 1 /\ m >= a + NSlots - 1 /\ rseq = 0
    BY DEF OrderInv, Counted, Tracking, Lost, Expecting
  <1> HIDE DEF a, m
  <1>5. (a + 1) % MAX_SEQNUM \in 0 .. MAX_SEQNUM - 1
    BY <1>1, NextRemainder
  <1>6. rseq = j % MAX_SEQNUM
    BY <1>1, <1>3, <1>4, <1>5
  <1>7. ASSUME rseq = (a + 1) % MAX_SEQNUM
        PROVE  j >= a + 1 /\ (j - (a + 1)) % MAX_SEQNUM = 0
    <2>1. j > a - NSlots /\ j % MAX_SEQNUM = (a + 1) % MAX_SEQNUM
      BY <1>1, <1>3, <1>6, <1>7
    <2> QED
      BY <1>1, <1>3, <2>1, NumberTells
  <1>8. j >= a /\ j >= 1
    BY <1>1, <1>3, <1>4, <1>7
  <1>9. ASSUME InStep PROVE Unseen(j - (a + 1))
    <2>1. rseq = (a + 1) % MAX_SEQNUM
      <3>1. rseq = 0 => (a + 1) % MAX_SEQNUM = 0
        BY <1>9 DEF InStep, a
      <3> QED
        BY <1>4, <3>1
    <2>2. j >= a + 1 /\ (j - (a + 1)) % MAX_SEQNUM = 0
      BY <1>7, <2>1
    <2> DEFINE i == j - 1
    <2>3. i \in Nat /\ a <= i /\ i % NSlots = a % NSlots
      BY <1>1, <1>2, <1>3, <2>2
    <2>4. i - a = j - (a + 1)
      BY <1>1, <1>3
    <2> HIDE DEF i
    <2>5. (i - a) % NSlots = 0
      BY <1>1, <2>3, SameRemainder
    <2> QED
      BY <1>1, <1>3, <2>2, <2>4, <2>5 DEF Unseen
  <1>10. j > 0
    BY <1>3, <1>8
  <1> QED
    BY <1>3, <1>6, <1>8, <1>9, <1>10 DEF a, m

\* The core only moves ahead of a plugin that is where it was.
LEMMA OrderCoreStep ==
  ASSUME SigintWindow \subseteq {"fill", "seq"}, OrderInv, TypeOK', CoreStep
  PROVE  CoreLatest' /\ Counted' /\ Placed'
PROOF
  <1>1. /\ CoreNext /\ UNCHANGED <<rpc, rseq, rslot, pollagain, accepted>>
        /\ TypeOK /\ CoreLatest /\ Counted /\ Placed /\ SlotInRing
    BY DEF CoreStep, OrderInv
  <1>2. CoreLatest'
    BY <1>1, CoreLatestStep DEF TypeOK
  <1>3. /\ Len(committed) \in Nat /\ Len(committed') \in Nat
        /\ Len(committed) <= Len(committed')
        /\ \A s \in Slots : \/ ring'[s].idx = ring[s].idx
                            \/ ring'[s].idx = Len(committed) + 1
    BY <1>1, CommitsGrow DEF TypeOK
  <1>4. accepted \in Nat /\ NSlots \in Nat
    BY <1>1, RingAssumption DEF TypeOK
  <1>5. Counted'
    BY <1>1, <1>3, <1>4 DEF Counted, Tracking, Lost, Expecting
  <1>6. Placed'
    <2>1. ASSUME rpc = "resyncSeq"
          PROVE  ring'[rslot].idx >= 1 /\ ring'[rslot].idx >= accepted - 1
      <3>1. rslot \in Slots /\ ring[rslot].idx >= 1
            /\ ring[rslot].idx >= accepted - 1
        BY <1>1, <2>1 DEF SlotInRing, Placed
      <3>2. accepted <= Len(committed)
        BY <1>1 DEF Counted
      <3> QED
        BY <1>3, <1>4, <3>1, <3>2
    <2> QED
      BY <1>1, <2>1 DEF Placed, RingPos
  <1> QED
    BY <1>2, <1>5, <1>6

\* Each step of the plugin's loop keeps its place and its count, and a buffer it
\* takes is in order.
LEMMA OrderReaderStep ==
  ASSUME OrderInv, TypeOK', SlotInRing', ReaderNext
  PROVE  /\ CoreLatest' /\ Counted' /\ Placed'
         /\ Takes => accepted' >= accepted - 1
         /\ Takes /\ rpc = "check" /\ InStep
            => Unseen(accepted' - (accepted + 1))
PROOF
  <1>0. /\ UNCHANGED <<cpc, hdr, wslot, ring, committed, lastOff, shutdown>>
        /\ pipe' # << >> => pipe # << >>
    BY DEF ReaderNext, PollAgain, PollData, PollTimeout, NextSeq, ReadPipe,
           CheckSeq, Resync, ResyncSeq, CopyHdr, CopyData, Process, ReaderExit,
           coreVars
  <1>1. CoreLatest'
    BY <1>0 DEF OrderInv, CoreLatest, Turning, Trailing, Dated, Open, Closed,
       Filling,
       Committed
  <1>2. Counted /\ Placed /\ CoreLatest /\ TypeOK /\ SlotInRing
    BY DEF OrderInv
  <1>t. /\ Len(committed) \in Nat /\ accepted \in Nat /\ rseq \in Int
        /\ rslot \in 0 .. NSlots /\ ring \in [Slots -> SlotType]
        /\ pollagain \in BOOLEAN
        /\ MAX_SEQNUM \in Nat \ {0} /\ NSlots \in Nat \ {0}
        /\ MAX_SEQNUM > NSlots
        /\ lastOff \in Slots
    <2>1. /\ accepted \in Nat /\ rseq \in Int /\ rslot \in 0 .. NSlots
          /\ pollagain \in BOOLEAN
      BY <1>2 DEF TypeOK
    <2>2. /\ committed \in Seq(Seq(Nat)) /\ ring \in [Slots -> SlotType]
          /\ lastOff \in Slots
      BY <1>2 DEF TypeOK, CoreTypeOK
    <2>3. MAX_SEQNUM \in Nat \ {0} /\ NSlots \in Nat \ {0}
          /\ MAX_SEQNUM > NSlots
      BY RingAssumption
    <2> QED
      BY <2>1, <2>2, <2>3, LenProperties
  \* steps that leave the plugin's place and count alone
  <1>s. ASSUME UNCHANGED <<rseq, rslot, accepted>>, Expecting' = Expecting,
               rpc \in {"poll_again", "poll", "read_data", "check", "process"},
               rpc' \in {"poll_again", "poll", "read_data", "check", "process"},
               rpc' \in {"poll_again", "poll"} => pollagain',
               rpc' = "process" => ~pollagain',
               Len(committed) > 0 \/ rpc' \in {"poll_again", "poll"}
        PROVE  Counted' /\ Placed' /\ ~Takes
    <2>1. Tracking' \/ Lost'
      BY <1>0, <1>2, <1>s DEF Counted, Tracking, Lost
    <2>2. Counted'
      BY <1>0, <1>2, <1>s, <2>1 DEF Counted
    <2>3. Placed'
      BY <1>0, <1>2, <1>s DEF Placed, RingPos
    <2> QED
      BY <1>s, <2>2, <2>3 DEF Takes
  <1>3. CASE PollAgain
    BY <1>1, <1>2, <1>3, <1>s DEF PollAgain, Expecting, Counted
  <1>4. CASE PollData
    <2>1. Len(committed) > 0
      BY <1>2, <1>t, <1>4 DEF PollData, CoreLatest, Trailing
    <2>2. pollagain
      BY <1>2, <1>4 DEF PollData, Counted
    <2> QED
      BY <1>1, <1>4, <1>s, <2>1, <2>2 DEF PollData, Expecting
  <1>5. CASE PollTimeout
    BY <1>1, <1>2, <1>5, <1>s DEF PollTimeout, Expecting, Counted
  <1>6. CASE NextSeq
    <2>1. /\ rpc = "read_data" /\ ~pollagain /\ rpc' = "check"
          /\ rseq' = (rseq + 1) % MAX_SEQNUM
          /\ UNCHANGED <<pollagain, accepted, rslot>>
      BY <1>6 DEF NextSeq
    <2>2. ~Expecting /\ Expecting'
      BY <2>1 DEF Expecting
    <2>3. Tracking' \/ Lost'
      <3>1. CASE Tracking
        <4>1. rseq = accepted % MAX_SEQNUM
          BY <1>t, <2>2, <3>1 DEF Tracking
        <4>2. rseq' = (accepted + 1) % MAX_SEQNUM
          BY <1>t, <2>1, <4>1, NextSeqnum
        <4> QED
          BY <2>1, <2>2, <4>2 DEF Tracking
      <3>2. CASE Lost
        <4>1. rseq' = 0 % MAX_SEQNUM /\ 0 < MAX_SEQNUM
          BY <1>t, <2>1, <2>2, <3>2 DEF Lost
        <4>2. rseq' = 0
          BY <1>t, <4>1, NoWrap
        <4> QED
          BY <1>0, <2>1, <2>2, <3>2, <4>2 DEF Lost
      <3> QED
        BY <1>2, <2>1, <3>1, <3>2 DEF Counted
    <2>4. Counted'
      BY <1>0, <1>2, <2>1, <2>3 DEF Counted
    <2>5. Placed'
      BY <1>2, <2>1 DEF Placed, RingPos
    <2> QED
      BY <1>1, <2>1, <2>4, <2>5 DEF Takes
  <1>7. CASE ReadPipe
    BY <1>1, <1>2, <1>7, <1>s DEF ReadPipe, Expecting, Counted
  <1>8. CASE CheckSeq
    <2>1. rpc = "check" /\ rslot' = RingPos /\ RingPos \in Slots
          /\ UNCHANGED rseq
      BY <1>8, <1>t DEF CheckSeq, RingPos, Slots
    <2>2. CASE ring[RingPos].seq = rseq
      <3> DEFINE j == ring[RingPos].idx
      <3>1. accepted' = j /\ rpc' = "copyHdr"
        BY <1>8, <2>2 DEF CheckSeq
      <3>2. j = ring[RingPos].idx
        OBVIOUS
      <3> HIDE DEF j
      <3>3. /\ j \in Nat /\ j >= 1 /\ j <= Len(committed) /\ j >= accepted
            /\ (j - 1) % NSlots = RingPos /\ rseq = j % MAX_SEQNUM
            /\ InStep => Unseen(j - (accepted + 1))
        BY <2>1, <2>2, <3>2, MatchTells
      <3>4. ~Expecting' /\ j + 0 = j
        BY <3>1, <3>3 DEF Expecting
      <3>5. Counted'
        BY <1>0, <1>t, <2>1, <3>1, <3>3, <3>4 DEF Counted, Tracking
      <3>6. Placed'
        BY <2>1, <3>1, <3>3 DEF Placed
      <3> QED
        BY <1>1, <1>t, <3>1, <3>3, <3>5, <3>6
    <2>3. CASE ring[RingPos].seq # rseq
      <3>1. /\ accepted' = accepted
            /\ \/ pollagain' = TRUE /\ rpc' = "poll_again"
               \/ pollagain' = pollagain /\ rpc' = "resync"
        BY <1>8, <2>3 DEF CheckSeq
      <3>2. Expecting /\ Expecting'
        BY <2>1, <3>1 DEF Expecting
      <3>3. Tracking' \/ Lost'
        BY <1>0, <1>2, <2>1, <3>1, <3>2 DEF Counted, Tracking, Lost
      <3>4. Counted'
        BY <1>0, <1>2, <2>1, <3>1, <3>3 DEF Counted
      <3>5. RingPos' = RingPos
        BY <1>t, <2>1 DEF RingPos, Slots
      <3>6. Placed'
        BY <1>2, <2>1, <3>1, <3>5 DEF Placed
      <3> QED
        BY <1>1, <3>1, <3>4, <3>6 DEF Takes
    <2> QED
      BY <2>2, <2>3
  <1>9. CASE Resync
    <2>1. rpc = "resync" /\ rpc' = "resyncSeq" /\ rslot' = lastOff
          /\ UNCHANGED <<rseq, pollagain, accepted>>
      BY <1>9 DEF Resync
    <2>2. Len(committed) > 0 /\ accepted <= Len(committed)
      BY <1>2, <2>1 DEF Counted
    <2>3. ring[lastOff].idx >= 1 /\ ring[lastOff].idx >= Len(committed) - 1
      BY <1>2, <2>2 DEF CoreLatest, Trailing
    <2>4. ring[lastOff].idx \in Nat
      BY <1>t DEF SlotType
    <2>5. Placed'
      BY <1>0, <1>t, <2>1, <2>2, <2>3, <2>4 DEF Placed
    <2>6. Counted'
      BY <1>0, <1>2, <2>1 DEF Counted, Tracking, Lost, Expecting
    <2> QED
      BY <1>1, <2>1, <2>5, <2>6 DEF Takes
  <1>10. CASE ResyncSeq
    <2> DEFINE j == ring[rslot].idx
    <2>1. /\ rpc = "resyncSeq" /\ rpc' = "copyHdr" /\ rseq' = ring[rslot].seq
          /\ accepted' = j /\ UNCHANGED <<rslot, pollagain>>
      BY <1>10 DEF ResyncSeq
    <2>2. rslot \in Slots /\ j \in Nat /\ j >= 1 /\ j >= accepted - 1
      BY <1>2, <1>t, <2>1 DEF SlotInRing, Placed, SlotType
    <2>3. /\ j <= Len(committed) /\ (j - 1) % NSlots = rslot
          /\ ring[rslot].seq # -1 => ring[rslot].seq = j % MAX_SEQNUM
          /\ ring[rslot].seq = -1 => rslot = wslot /\ Open
      BY <1>2, <2>2 DEF CoreLatest, Dated
    <2>4. ~Expecting'
      BY <2>1 DEF Expecting
    <2>5. Tracking' \/ Lost'
      <3>1. CASE ring[rslot].seq # -1
        BY <2>1, <2>2, <2>3, <2>4, <3>1 DEF Tracking
      <3>2. CASE ring[rslot].seq = -1
        <4>1. j = IF Len(committed) < NSlots THEN 0
              ELSE Len(committed) + 1 - NSlots
          BY <1>2, <2>3, <3>2 DEF CoreLatest, Turning
        <4>2. Len(committed) >= j + NSlots - 1
          BY <1>t, <2>2, <4>1
        <4> QED
          BY <1>0, <2>1, <2>2, <2>4, <3>2, <4>2 DEF Lost
      <3> QED
        BY <3>1, <3>2
    <2>6. Counted'
      BY <1>0, <1>2, <2>1, <2>3, <2>5 DEF Counted
    <2>7. Placed'
      BY <2>1, <2>2, <2>3 DEF Placed
    <2> QED
      BY <1>1, <2>1, <2>2, <2>6, <2>7
  <1>11. CASE CopyHdr
    <2>1. /\ rpc = "copyHdr" /\ rpc' = "copyData" /\ pollagain' = FALSE
          /\ UNCHANGED <<rseq, rslot, accepted>>
      BY <1>11 DEF CopyHdr
    <2>2. Counted'
      BY <1>0, <1>2, <2>1 DEF Counted, Tracking, Lost, Expecting
    <2>3. Placed'
      BY <1>2, <2>1 DEF Placed
    <2> QED
      BY <1>1, <2>1, <2>2, <2>3 DEF Takes
  <1>12. CASE CopyData
    <2>1. /\ rpc = "copyData" /\ rpc' = "process" /\ rslot' = rslot + 1
          /\ UNCHANGED <<rseq, pollagain, accepted>>
      BY <1>12 DEF CopyData
    <2>2. Counted'
      BY <1>0, <1>2, <2>1 DEF Counted, Tracking, Lost, Expecting
    <2>3. RingPos' = accepted % NSlots
      <3> DEFINE k == accepted - 1
      <3>1. k \in Nat /\ rslot = k % NSlots /\ k + 1 = accepted
        BY <1>2, <1>t, <2>1 DEF Placed
      <3> HIDE DEF k
      <3>2. /\ k % NSlots \in 0 .. NSlots - 1
            /\ (k + 1) % NSlots = IF (k % NSlots) + 1 = NSlots THEN 0
               ELSE (k % NSlots) + 1
        BY <1>t, <3>1, NextRemainder
      <3> QED
        BY <1>t, <2>1, <3>1, <3>2 DEF RingPos
    <2>4. Placed'
      BY <2>1, <2>3 DEF Placed
    <2> QED
      BY <1>1, <2>1, <2>2, <2>4 DEF Takes
  <1>13. CASE Process
    <2>1. rpc = "process" /\ rpc' = "read_data" /\ ~pollagain
          /\ Len(committed) > 0
          /\ UNCHANGED <<rseq, rslot, pollagain, accepted>>
      BY <1>2, <1>13 DEF Process, Counted
    <2> QED
      BY <1>1, <1>s, <2>1 DEF Expecting
  <1>14. CASE ReaderExit
    BY <1>0, <1>1, <1>2, <1>14
       DEF ReaderExit, Counted, Placed, Takes
  <1> QED
    BY <1>3, <1>4, <1>5, <1>6, <1>7, <1>8, <1>9, <1>10, <1>11, <1>12, <1>13,
       <1>14
       DEF ReaderNext

\* A plugin of the poll() loop takes buffers in commit order however it and the core
\* interleave, overrun or not, in a ring of any size: by sequence number the next one
\* (or one no number can tell from it), by resync at most the one before its last.
\* SIGINT is taken to come between two buffers.
THEOREM BuffersInOrder ==
  ASSUME SigintWindow \subseteq {"fill", "seq"}
  PROVE  Spec => TakesInOrder
PROOF
  <1>1. Init => CoreLatest /\ Counted /\ Placed
    <2> SUFFICES ASSUME Init PROVE CoreLatest /\ Counted /\ Placed
      OBVIOUS
    <2>1. CoreLatest
      BY CoreLatestInit DEF Init
    <2>2. 1 % MAX_SEQNUM = 1 /\ 0 % NSlots = 0
      BY RingAssumption, NoWrap
    <2>3. Counted
      BY <2>2 DEF Init, CoreInit, ReaderInit, Counted, Tracking, Expecting
    <2>4. Placed
      BY <2>2, RingAssumption DEF Init, ReaderInit, Placed, RingPos
    <2> QED
      BY <2>1, <2>3, <2>4
  <1>2. OrderInv /\ TypeOK' /\ SlotInRing' /\ [Next]_vars =>
          CoreLatest' /\ Counted' /\ Placed'
    <2> SUFFICES ASSUME OrderInv, TypeOK', SlotInRing', [Next]_vars
                 PROVE  CoreLatest' /\ Counted' /\ Placed'
      OBVIOUS
    <2>1. CASE CoreStep
      BY <2>1, OrderCoreStep
    <2>2. CASE ReaderNext
      BY <2>2, OrderReaderStep
    <2>3. CASE UNCHANGED vars
      BY <2>3 DEF vars, coreVars, readerVars, OrderInv, CoreLatest, Turning,
         Trailing,
             Dated, Open, Closed, Filling, Committed, Counted, Tracking, Lost,
             Expecting,
             Placed, RingPos
    <2> QED
      BY <2>1, <2>2, <2>3 DEF Next
  <1>3. OrderInv /\ TypeOK' /\ SlotInRing' /\ [Next]_vars =>
          /\ [Takes => accepted' >= accepted - 1]_vars
          /\ [Takes /\ rpc = "check" /\ InStep
             => Unseen(accepted' - (accepted + 1))]_vars
    <2>1. CoreStep => ~Takes
      BY DEF CoreStep, Takes
    <2> QED
      BY <2>1, OrderReaderStep DEF Next
  <1>4. OrderInv <=> TypeOK /\ SlotInRing /\ CoreLatest /\ Counted /\ Placed
    BY DEF OrderInv
  <1> QED
    BY <1>1, <1>2, <1>3, <1>4, ReaderTypes, PTL
       DEF Spec, TakesInOrder, RewindsOneAtMost, MatchMeansNext

-----------------------------------------------------------------------------
(***************************************************************************)
(* The memory plugin.                                                      *)
(***************************************************************************)

(***************************************************************************)
(* The inductive invariant.  Commits are counted: while nothing was        *)
(* overrun and everything was rung, a commit was taken by the plugin, is   *)
(* in its hands, is in the socket, or is about to be rung, in this order.  *)
(***************************************************************************)
Clean == ~ioverrun /\ ~unrung /\ ~icut

\* the plugin has read a datagram it has not processed yet
InHand == IF ipc \in {"copyHdr", "copyData", "check", "process"} THEN 1 ELSE 0

\* commit number Len(committed) is made but not rung
Ringing == cpc \in {"num", "pid", "off", "wake", "signal"}

\* a slot or a private copy with everything of commit k in it
Whole(buf, k) ==
  /\ k \in 1 .. Len(committed)
  /\ buf.idx = k /\ buf.seq = k % MAX_SEQNUM /\ buf.pid = CorePid
  /\ Payload(buf.data, buf.num) = committed[k]

\* what was taken, with both sequence numbers in step
Paced ==
  /\ ierrs = 0
  /\ \A i \in 1 .. Len(taken) : taken[i] = i
  /\ iseq = (Len(taken) + InHand) % MAX_SEQNUM
  /\ hdr.seq = Len(committed) % MAX_SEQNUM
  /\ Len(committed) =
       Len(taken) + InHand + Len(pipe) + (IF Ringing THEN 1 ELSE 0)

\* every datagram points to a slot with the commit it was sent for
Rung == \A i \in 1 .. Len(pipe) : Whole(ring[pipe[i]], Len(taken) + InHand + i)

\* the slot the plugin copies from, and its copy
Copying ==
  /\ ipc \in {"copyHdr", "copyData"} => Whole(ring[rgptr], Len(taken) + 1)
  /\ ipc = "copyData" => /\ ibuf.seq = ring[rgptr].seq
                         /\ ibuf.num = ring[rgptr].num
                         /\ ibuf.pid = ring[rgptr].pid
                         /\ ibuf.idx = ring[rgptr].idx
  /\ ipc \in {"check", "process"} => Whole(ibuf, Len(taken) + 1)

\* the core does not touch a slot the plugin still has to copy
Protected == cpc \notin {"protSeq", "sleep", "exited"} => ~Pending(wslot)

\* how far the commit under way has come
Committing ==
  /\ Ringing =>
       /\ Len(committed) > 0
       /\ ring[wslot].idx = Len(committed) /\ ring[wslot].seq = hdr.seq
       /\ Payload(ring[wslot].data, hdr.num) = committed[Len(committed)]
  /\ Ringing /\ cpc # "num" => ring[wslot].num = hdr.num
  /\ cpc \in {"off", "wake", "signal"} => ring[wslot].pid = CorePid

\* what is left of it when the plugin has been told to exit
Ended == ierrs = 0 /\ \A i \in 1 .. Len(taken) : taken[i] = i

InPace ==
  Clean => IF ipc = "exited" THEN Ended
           ELSE Paced /\ Rung /\ Copying /\ Protected /\ Committing
ImtInv == ImtTypeOK /\ InPace

-----------------------------------------------------------------------------
\* Every step of the plugin or the core keeps the types: the plugin only loads
\* slots of the ring, and its sequence number stays below MAX_SEQNUM.
LEMMA ImtTypeStep ==
  ASSUME ImtTypeOK, [ImtChannelNext]_imtChannelVars
  PROVE  ImtTypeOK'
PROOF
  <1> USE DEF ImtTypeOK
  <1>1. CASE CoreBesideImt
    <2>1. CoreTypeOK'
      BY <1>1, CoreStepType DEF CoreBesideImt
    <2>2. UNCHANGED <<ipc, iseq, rgptr, ierrs, ibuf, taken>>
      BY <1>1 DEF CoreBesideImt
    <2>3. ioverrun' \in BOOLEAN /\ unrung' \in BOOLEAN /\ icut' \in BOOLEAN
      <3>1. icut' \in BOOLEAN
        BY <1>1, Zenon DEF CoreBesideImt
      <3> QED
        BY <1>1, <3>1 DEF CoreBesideImt
    <2> QED
      BY <2>1, <2>2, <2>3
  <1>2. CASE ImtStartup
    BY <1>2 DEF ImtStartup, CoreTypeOK
  <1>3. CASE ImtReadPipe
    <2>1. Head(pipe) \in Slots /\ pipe' \in Seq(Slots)
      BY <1>3, HeadTailProperties DEF ImtReadPipe, CoreTypeOK
    <2>2. CoreTypeOK'
      BY <1>3, <2>1 DEF ImtReadPipe, CoreTypeOK
    <2>3. iseq' \in 0 .. MAX_SEQNUM - 1
      <3>1. iseq \in Int /\ iseq >= -1
        BY RingAssumption
      <3> QED
        BY <1>3, <3>1, SeqnumType DEF ImtReadPipe
    <2> QED
      BY <1>3, <2>1, <2>2, <2>3, RingAssumption DEF ImtReadPipe
  <1>4. CASE ImtCopyHdr
    <2>1. ring[rgptr] \in SlotType /\ ibuf.data \in Seq(Nat)
      BY DEF CoreTypeOK, SlotType
    <2>2. ibuf' \in SlotType
      BY <1>4, <2>1 DEF ImtCopyHdr, SlotType
    <2>3. CoreTypeOK'
      BY <1>4 DEF ImtCopyHdr, CoreTypeOK, coreVars
    <2> QED
      BY <1>4, <2>2, <2>3 DEF ImtCopyHdr
  <1>5. CASE ImtCopyData
    <2>1. ring[rgptr].data \in Seq(Nat)
      BY DEF CoreTypeOK, SlotType
    <2>2. ibuf' \in SlotType
      BY <1>5, <2>1 DEF ImtCopyData, SlotType
    <2>3. CoreTypeOK'
      BY <1>5 DEF ImtCopyData, CoreTypeOK, coreVars
    <2> QED
      BY <1>5, <2>2, <2>3 DEF ImtCopyData
  <1>6. CASE ImtCheckSeq
    <2>1. CoreTypeOK'
      BY <1>6 DEF ImtCheckSeq, CoreTypeOK, coreVars
    <2>2. ibuf.seq \in -1 .. MAX_SEQNUM - 1
      BY DEF SlotType
    <2>3. ierrs' \in Nat /\ iseq' \in -1 .. MAX_SEQNUM - 1
      BY <1>6, <2>2 DEF ImtCheckSeq
    <2> QED
      BY <1>6, <2>1, <2>3 DEF ImtCheckSeq
  <1>7. CASE ImtProcess
    <2>1. CoreTypeOK'
      BY <1>7 DEF ImtProcess, CoreTypeOK, coreVars
    <2>2. taken' \in Seq(Nat)
      BY <1>7, AppendProperties DEF ImtProcess, SlotType
    <2> QED
      BY <1>7, <2>1, <2>2 DEF ImtProcess
  <1>8. CASE UNCHANGED imtChannelVars
    BY <1>8 DEF imtChannelVars, coreVars, imtVars, CoreTypeOK
  <1>9. CASE ImtExit
    BY <1>9 DEF ImtExit, coreVars, CoreTypeOK
  <1> QED
    BY <1>1, <1>2, <1>3, <1>4, <1>5, <1>6, <1>7, <1>8, <1>9 DEF ImtChannelNext,
       ImtNext

-----------------------------------------------------------------------------
\* A complete buffer stays complete while the core commits further ones.
LEMMA WholeKept ==
  ASSUME ImtTypeOK, NEW buf, NEW k, NEW c \in Seq(Nat), Whole(buf, k),
         committed' = committed \/ committed' = Append(committed, c)
  PROVE  Whole(buf, k)'
PROOF
  <1>1. committed \in Seq(Seq(Nat)) /\ Len(committed) \in Nat
    BY LenProperties DEF ImtTypeOK, CoreTypeOK
  <1>2. k \in 1 .. Len(committed)
    BY DEF Whole
  <1>3. CASE committed' = committed
    BY <1>3 DEF Whole
  <1>4. CASE committed' = Append(committed, c)
    <2>1. Append(committed, c)[k] = committed[k]
      BY <1>1, <1>2, AppendProperties
    <2>2. Len(committed') = Len(committed) + 1
      BY <1>1, <1>4, AppendProperties
    <2>3. k \in 1 .. Len(committed')
      BY <1>1, <1>2, <2>2
    <2> QED
      BY <1>4, <2>1, <2>3 DEF Whole
  <1> QED
    BY <1>3, <1>4

\* A step of the core that changes no slot but its own, and neither makes nor
\* rings a commit, leaves what the plugin sees as it was.
LEMMA QuietStep ==
  ASSUME ImtTypeOK, Paced, Rung, Copying, ~Pending(wslot),
         UNCHANGED <<pipe, committed, wslot, ipc, iseq, rgptr, ierrs, ibuf,
                   taken>>,
         hdr'.seq = hdr.seq, \A s \in Slots \ {wslot} : ring'[s] = ring[s],
         Ringing' <=> Ringing
  PROVE  Paced' /\ Rung' /\ Copying' /\ Protected'
PROOF
  <1>1. InHand' = InHand
    BY DEF InHand
  <1>2. Paced'
    BY <1>1 DEF Paced
  <1>3. ASSUME NEW i \in 1 .. Len(pipe)
        PROVE  ring'[pipe[i]] = ring[pipe[i]]
    <2>1. pipe[i] \in Slots
      BY ElementOfSeq DEF ImtTypeOK, CoreTypeOK
    <2>2. pipe[i] # wslot
      BY DEF Pending
    <2> QED
      BY <2>1, <2>2
  <1>4. Rung'
    BY <1>1, <1>3 DEF Rung, Whole
  <1>5. ipc \in {"copyHdr", "copyData"} => ring'[rgptr] = ring[rgptr]
    BY DEF Pending, ImtTypeOK
  <1>6. Copying'
    BY <1>5 DEF Copying, Whole
  <1>7. Protected'
    BY DEF Protected, Pending
  <1> QED
    BY <1>2, <1>4, <1>6, <1>7

\* exec_plugins() fills, commits, rings and protects without disturbing the
\* count of commits or a slot the plugin has still to copy.
LEMMA ImtCoreKeeps ==
  ASSUME ImtInv, ImtTypeOK', CoreBesideImt
  PROVE  InPace'
PROOF
  <1> USE DEF ImtInv
  <1>u. UNCHANGED <<ipc, iseq, rgptr, ierrs, ibuf, taken>>
    BY DEF CoreBesideImt
  <1>c. Clean' =>
          /\ Clean
          /\ ~(cpc = "protSeq" /\ cpc' = "protNum" /\ Pending(wslot'))
          /\ ~(cpc = "wake" /\ cpc' \notin {"seq", "signal"})
          /\ ~(cpc = "signal" /\ cpc' \notin {"seq", "signal"} /\ pipe' = pipe)
          /\ ~(shutdown' /\ ~shutdown /\ cpc \notin {"fill", "seq"})
    BY Zenon DEF Clean, CoreBesideImt
  <1>e. ipc = "exited" => InPace'
    BY <1>u, <1>c DEF InPace, Ended
  <1> SUFFICES ASSUME Clean', ipc # "exited"
               PROVE  Paced' /\ Rung' /\ Copying' /\ Protected' /\ Committing'
    BY <1>u, <1>e DEF InPace
  <1>0. /\ Paced /\ Rung /\ Copying /\ Protected /\ Committing
        /\ UNCHANGED <<ipc, iseq, rgptr, ierrs, ibuf, taken>>
        /\ ~(cpc = "protSeq" /\ cpc' = "protNum" /\ Pending(wslot'))
        /\ ~(cpc = "wake" /\ cpc' \notin {"seq", "signal"})
        /\ ~(cpc = "signal" /\ cpc' \notin {"seq", "signal"} /\ pipe' = pipe)
        /\ ~(shutdown' /\ ~shutdown /\ cpc \notin {"fill", "seq"})
    BY <1>u, <1>c DEF InPace
  <1>t. /\ ring \in [Slots -> SlotType] /\ wslot \in Slots
        /\ hdr \in [seq : 0 .. MAX_SEQNUM - 1, num : Nat]
        /\ committed \in Seq(Seq(Nat)) /\ Len(committed) \in Nat
        /\ pipe \in Seq(Slots) /\ Len(pipe) \in Nat /\ Len(taken) \in Nat
    BY LenProperties DEF ImtTypeOK, CoreTypeOK
  <1>p. ASSUME NEW v \in VarSizes, NEW r, cpc = "fill", Place(v, r)
        PROVE  Paced' /\ Rung' /\ Copying' /\ Protected' /\ Committing'
    <2>1. \A s \in Slots \ {wslot} : ring'[s] = ring[s]
      BY <1>p, <1>t DEF Place
    <2>2. hdr'.seq = hdr.seq /\ UNCHANGED <<pipe, committed, wslot>>
      BY <1>p, <1>t DEF Place
    <2>3. ~Ringing /\ ~Ringing'
      BY <1>p DEF Place, Ringing
    <2>4. Committing'
      BY <2>3 DEF Committing, Ringing
    <2> QED
      BY <1>0, <1>p, <2>1, <2>2, <2>3, <2>4, QuietStep DEF Protected
  <1>1. ASSUME NEW v \in VarSizes, ExecPlugins(v)
        PROVE  Paced' /\ Rung' /\ Copying' /\ Protected' /\ Committing'
    <2>1. CASE Place(v, nrec + 1)
      BY <1>1, <1>p, <2>1 DEF ExecPlugins
    <2>2. CASE ~Place(v, nrec + 1)
      <3>1. /\ UNCHANGED <<pipe, committed, wslot, hdr, ring>>
            /\ cpc = "fill" /\ cpc' = "seq"
        BY <1>1, <2>2 DEF ExecPlugins
      <3>2. Committing'
        BY <3>1 DEF Committing, Ringing
      <3> QED
        BY <1>0, <3>1, <3>2, QuietStep DEF Protected, Ringing
    <2> QED
      BY <2>1, <2>2
  <1>2. CASE SampledOut
    <2>1. /\ UNCHANGED <<pipe, committed, wslot, hdr, ring>>
          /\ cpc = "fill" /\ cpc' = "seq"
      BY <1>2 DEF SampledOut
    <2>2. Committing'
      BY <2>1 DEF Committing, Ringing
    <2> QED
      BY <1>0, <2>1, <2>2, QuietStep DEF Protected, Ringing
  <1>3. CASE Reprocess
    <2>1. CASE Place(redo, nrec + 1)
      <3>1. redo \in VarSizes /\ cpc = "fill"
        BY <1>3 DEF Reprocess, ImtTypeOK, CoreTypeOK
      <3> QED
        BY <1>p, <2>1, <3>1
    <2>2. CASE ~Place(redo, nrec + 1)
      <3>1. /\ UNCHANGED <<pipe, committed, wslot, hdr, ring>>
            /\ cpc = "fill" /\ cpc' \in {"exited", "seq", "fill"}
        BY <1>3, <2>2 DEF Reprocess
      <3>2. Committing'
        BY <3>1 DEF Committing, Ringing
      <3> QED
        BY <1>0, <3>1, <3>2, QuietStep DEF Protected, Ringing
    <2> QED
      BY <2>1, <2>2
  <1>5. CASE CommitNum
    <2>1. /\ UNCHANGED <<pipe, committed, wslot, hdr>>
          /\ cpc = "num" /\ cpc' = "pid"
      BY <1>5 DEF CommitNum
    <2>2. \A s \in Slots \ {wslot} : ring'[s] = ring[s]
      BY <1>5, <1>t DEF CommitNum
    <2>3. ring'[wslot] = [ring[wslot] EXCEPT !.num = hdr.num]
      BY <1>5, <1>t DEF CommitNum
    <2>4. /\ ring'[wslot].num = hdr.num /\ ring'[wslot].idx = ring[wslot].idx
          /\ ring'[wslot].seq = ring[wslot].seq
          /\ ring'[wslot].data = ring[wslot].data
      BY <1>t, <2>3 DEF SlotType
    <2>5. Committing'
      BY <1>0, <2>1, <2>4 DEF Committing, Ringing
    <2> QED
      BY <1>0, <2>1, <2>2, <2>5, QuietStep DEF Protected, Ringing
  <1>6. CASE CommitPid
    <2>1. /\ UNCHANGED <<pipe, committed, wslot, hdr>>
          /\ cpc = "pid" /\ cpc' \in {"off", "wake"}
      BY <1>6 DEF CommitPid
    <2>2. \A s \in Slots \ {wslot} : ring'[s] = ring[s]
      BY <1>6, <1>t DEF CommitPid
    <2>3. ring'[wslot] = [ring[wslot] EXCEPT !.pid = CorePid]
      BY <1>6, <1>t DEF CommitPid
    <2>4. /\ ring'[wslot].pid = CorePid /\ ring'[wslot].idx = ring[wslot].idx
          /\ ring'[wslot].seq = ring[wslot].seq
          /\ ring'[wslot].num = ring[wslot].num
          /\ ring'[wslot].data = ring[wslot].data
      BY <1>t, <2>3 DEF SlotType
    <2>5. Committing'
      BY <1>0, <2>1, <2>4 DEF Committing, Ringing
    <2> QED
      BY <1>0, <2>1, <2>2, <2>5, QuietStep DEF Protected, Ringing
  <1>7. CASE CommitOff
    <2>1. /\ UNCHANGED <<pipe, committed, wslot, hdr, ring>>
          /\ cpc = "off" /\ cpc' = "wake"
      BY <1>7 DEF CommitOff
    <2>2. Committing'
      BY <1>0, <2>1 DEF Committing, Ringing
    <2> QED
      BY <1>0, <2>1, <2>2, QuietStep DEF Protected, Ringing
  <1>8. CASE TestWakeup
    <2>1. /\ UNCHANGED <<pipe, committed, wslot, hdr, ring>>
          /\ cpc = "wake" /\ cpc' = "signal"
      BY <1>0, <1>8 DEF TestWakeup, AfterSignal
    <2>2. Committing'
      BY <1>0, <2>1 DEF Committing, Ringing
    <2> QED
      BY <1>0, <2>1, <2>2, QuietStep DEF Protected, Ringing
  <1>11. CASE ProtectNum
    <2>1. /\ UNCHANGED <<pipe, committed, wslot, hdr>>
          /\ cpc = "protNum" /\ cpc' = "protPid"
      BY <1>11 DEF ProtectNum
    <2>2. \A s \in Slots \ {wslot} : ring'[s] = ring[s]
      BY <1>11, <1>t DEF ProtectNum
    <2>3. Committing'
      BY <2>1 DEF Committing, Ringing
    <2> QED
      BY <1>0, <2>1, <2>2, <2>3, QuietStep DEF Protected, Ringing
  <1>12. CASE ProtectPid
    <2>1. /\ UNCHANGED <<pipe, committed, wslot>>
          /\ cpc = "protPid" /\ cpc' = "fill" /\ hdr'.seq = hdr.seq
      BY <1>12, <1>t DEF ProtectPid
    <2>2. \A s \in Slots \ {wslot} : ring'[s] = ring[s]
      BY <1>12, <1>t DEF ProtectPid
    <2>3. Committing'
      BY <2>1 DEF Committing, Ringing
    <2> QED
      BY <1>0, <2>1, <2>2, <2>3, QuietStep DEF Protected, Ringing
  <1>13. CASE Sigint
    <2>1. /\ UNCHANGED <<pipe, committed, wslot, hdr, ring>>
          /\ cpc \in {"fill", "seq"} /\ cpc' = "seq"
      BY <1>0, <1>13 DEF Sigint, FillPipeBuffer
    <2>2. Committing'
      BY <2>1 DEF Committing, Ringing
    <2> QED
      BY <1>0, <2>1, <2>2, QuietStep DEF Protected, Ringing
  <1>4. CASE CommitSeq
    <2> DEFINE n == Len(committed) + 1
    <2>1. /\ cpc = "seq" /\ cpc' = "num"
          /\ UNCHANGED <<pipe, wslot>>
          /\ committed' = Append(committed, Payload(ring[wslot].data, hdr.num))
      BY <1>4 DEF CommitSeq
    <2>2. Payload(ring[wslot].data, hdr.num) \in Seq(Nat)
      BY <1>t, PayloadType DEF SlotType
    <2>3. /\ Len(committed') = n
          /\ committed'[n] = Payload(ring[wslot].data, hdr.num)
      BY <1>t, <2>1, <2>2, AppendProperties
    <2>4. hdr'.num = hdr.num /\ hdr'.seq = (hdr.seq + 1) % MAX_SEQNUM
      BY <1>4, <1>t DEF CommitSeq
    <2>5. hdr'.seq = n % MAX_SEQNUM
      BY <1>0, <1>t, <2>4, NextSeqnum DEF Paced
    <2>6. /\ ring'[wslot].seq = hdr'.seq /\ ring'[wslot].idx = n
          /\ ring'[wslot].data = ring[wslot].data
      <3>1. ring'[wslot] = [ring[wslot] EXCEPT !.seq = hdr'.seq, !.idx = n]
        BY <1>4, <1>t DEF CommitSeq
      <3> QED
        BY <1>t, <3>1 DEF SlotType
    <2>7. \A s \in Slots \ {wslot} : ring'[s] = ring[s]
      BY <1>4, <1>t DEF CommitSeq
    <2>8. ~Ringing /\ Ringing' /\ InHand' = InHand /\ InHand \in {0, 1}
      BY <1>0, <2>1 DEF Ringing, InHand
    <2>9. ~Pending(wslot)
      BY <1>0, <2>1 DEF Protected
    <2>10. Paced'
      BY <1>0, <1>t, <2>1, <2>3, <2>5, <2>8 DEF Paced
    <2>11. Rung'
      <3> SUFFICES ASSUME NEW i \in 1 .. Len(pipe)
                   PROVE  Whole(ring[pipe[i]], Len(taken) + InHand + i)'
        BY <2>1 DEF Rung
      <3>1. pipe[i] \in Slots /\ pipe[i] # wslot
        BY <1>t, <2>9, ElementOfSeq DEF Pending
      <3>2. Whole(ring[pipe[i]], Len(taken) + InHand + i)
        BY <1>0 DEF Rung
      <3>3. ring'[pipe[i]] = ring[pipe[i]]
        BY <2>7, <3>1
      <3>4. Len(taken)' = Len(taken) /\ pipe' = pipe
        BY <1>0, <2>1
      <3>5. \A buf, k : Whole(buf, k) => Whole(buf, k)'
        BY <2>1, <2>2, WholeKept
      <3> QED
        BY <2>8, <3>2, <3>3, <3>4, <3>5 DEF Whole
    <2>12. Copying'
      <3>1. \A buf, k : Whole(buf, k) => Whole(buf, k)'
        BY <2>1, <2>2, WholeKept
      <3>2. ipc \in {"copyHdr", "copyData"} => ring'[rgptr] = ring[rgptr]
        BY <2>7, <2>9 DEF Pending, ImtTypeOK
      <3> QED
        BY <1>0, <3>1, <3>2 DEF Copying, Whole
    <2>13. Protected'
      BY <1>0, <2>1, <2>9 DEF Protected, Pending
    <2>14. Committing'
      BY <1>t, <2>1, <2>3, <2>4, <2>6 DEF Committing, Ringing
    <2> QED
      BY <2>10, <2>11, <2>12, <2>13, <2>14
  <1>9. CASE WritePipe
    <2>1. /\ cpc = "signal" /\ cpc' \in {"sleep", "protSeq"}
          /\ UNCHANGED <<wslot, ring, hdr, committed>>
          /\ pipe' = Append(pipe, wslot)
      BY <1>0, <1>9 DEF WritePipe, AfterSignal
    <2>2. /\ Len(pipe') = Len(pipe) + 1 /\ pipe'[Len(pipe) + 1] = wslot
          /\ \A i \in 1 .. Len(pipe) : pipe'[i] = pipe[i]
      BY <1>t, <2>1, AppendProperties
    <2>3. Ringing /\ ~Ringing' /\ InHand' = InHand /\ InHand \in {0, 1}
      BY <1>0, <2>1 DEF Ringing, InHand
    <2>4. Len(committed) = Len(taken) + InHand + Len(pipe) + 1
      BY <1>0, <2>3 DEF Paced
    <2>5. Paced'
      <3>1. Len(committed') = Len(taken') + InHand' + Len(pipe')
        BY <1>0, <1>t, <2>1, <2>2, <2>3, <2>4
      <3>2. /\ ierrs' = 0 /\ \A i \in 1 .. Len(taken') : taken'[i] = i
            /\ iseq' = (Len(taken') + InHand') % MAX_SEQNUM
            /\ hdr'.seq = Len(committed') % MAX_SEQNUM
        BY <1>0, <2>1, <2>3 DEF Paced
      <3> QED
        BY <1>t, <1>0, <2>2, <2>3, <3>1, <3>2 DEF Paced
    <2>6. Whole(ring[wslot], Len(committed))
      BY <1>0, <1>t, <2>1, <2>3 DEF Committing, Paced, Whole
    <2>7. Rung'
      <3> SUFFICES ASSUME NEW i \in 1 .. Len(pipe')
                   PROVE  Whole(ring'[pipe'[i]], Len(taken) + InHand + i)
        BY <1>0, <2>1, <2>3 DEF Rung, Whole
      <3>1. CASE i \in 1 .. Len(pipe)
        BY <1>0, <2>1, <2>2, <3>1 DEF Rung
      <3>2. CASE i = Len(pipe) + 1
        <4>1. Len(taken) + InHand + i = Len(committed)
          BY <1>t, <2>3, <2>4, <3>2
        <4> QED
          BY <2>1, <2>2, <2>6, <3>2, <4>1
      <3>3. i \in 1 .. Len(pipe) \/ i = Len(pipe) + 1
        BY <1>t, <2>2
      <3> QED
        BY <3>1, <3>2, <3>3
    <2>8. Copying'
      BY <1>0, <2>1 DEF Copying, Whole
    <2>9. Protected' /\ Committing'
      BY <2>1 DEF Protected, Committing, Ringing
    <2> QED
      BY <2>5, <2>7, <2>8, <2>9
  <1>10. CASE ProtectSeq
    <2>1. /\ cpc = "protSeq" /\ cpc' = "protNum"
          /\ UNCHANGED <<pipe, hdr, committed>>
          /\ wslot' \in Slots /\ \A s \in Slots \ {wslot'} : ring'[s] = ring[s]
      BY <1>10, <1>t, NextSlotType DEF ProtectSeq
    <2>2. ~Pending(wslot')
      BY <1>0, <2>1
    <2>3. ~Ringing /\ ~Ringing' /\ InHand' = InHand
      BY <1>0, <2>1 DEF Ringing, InHand
    <2>4. Paced'
      BY <1>0, <2>1, <2>3 DEF Paced
    <2>5. \A i \in 1 .. Len(pipe) : ring'[pipe[i]] = ring[pipe[i]]
      BY <1>t, <2>1, <2>2, ElementOfSeq DEF Pending
    <2>6. Rung'
      BY <1>0, <2>1, <2>3, <2>5 DEF Rung, Whole
    <2>7. ipc \in {"copyHdr", "copyData"} => ring'[rgptr] = ring[rgptr]
      BY <2>1, <2>2 DEF Pending, ImtTypeOK
    <2>8. Copying'
      BY <1>0, <2>1, <2>7 DEF Copying, Whole
    <2>9. Protected'
      BY <1>0, <2>1, <2>2 DEF Protected, Pending
    <2>10. Committing'
      BY <2>3, <2>1 DEF Committing, Ringing
    <2> QED
      BY <2>4, <2>6, <2>8, <2>9, <2>10
  <1>14. CASE SignalPlugins
    <2>1. /\ UNCHANGED <<pipe, committed, wslot, hdr, ring>>
          /\ cpc = "sleep" /\ cpc' = "exited"
      BY <1>14 DEF SignalPlugins
    <2>2. Committing' /\ (Ringing' <=> Ringing) /\ Protected'
      BY <2>1 DEF Committing, Ringing, Protected
    <2>3. InHand' = InHand
      BY <1>0 DEF InHand
    <2> QED
      BY <1>0, <2>1, <2>2, <2>3 DEF Paced, Rung, Copying, Whole
  <1> QED
    BY <1>1, <1>2, <1>3, <1>4, <1>5, <1>6, <1>7, <1>8, <1>9, <1>10, <1>11,
       <1>12, <1>13, <1>14 DEF CoreBesideImt, CoreNext

\* The memory plugin takes the datagrams in order, copies whole slots and finds
\* the number it expects in each.
LEMMA ImtPluginKeeps ==
  ASSUME ImtInv, ImtTypeOK', ImtNext
  PROVE  InPace'
PROOF
  <1> USE DEF ImtInv
  <1>0. /\ UNCHANGED <<cpc, hdr, wslot, ring, committed, ioverrun, unrung, icut>>
    BY DEF ImtNext, ImtStartup, ImtReadPipe, ImtCopyHdr, ImtCopyData,
       ImtCheckSeq, ImtProcess, ImtExit, coreVars
  <1>9. CASE ImtExit
    <2>1. ipc # "exited" /\ ipc' = "exited" /\ UNCHANGED <<ierrs, taken>>
      BY <1>9 DEF ImtExit
    <2> QED
      BY <1>0, <2>1 DEF InPace, Clean, Ended, Paced
  <1>e. ~ImtExit => ipc # "exited" /\ ipc' # "exited"
    BY DEF ImtNext, ImtStartup, ImtReadPipe, ImtCopyHdr, ImtCopyData,
       ImtCheckSeq, ImtProcess
  <1> SUFFICES ASSUME Clean', ~ImtExit
               PROVE  Paced' /\ Rung' /\ Copying' /\ Protected' /\ Committing'
    BY <1>9, <1>e DEF InPace
  <1>1. Paced /\ Rung /\ Copying /\ Protected /\ Committing
    BY <1>0, <1>e DEF InPace, Clean
  <1>t. /\ ring \in [Slots -> SlotType] /\ rgptr \in Slots /\ ibuf \in SlotType
        /\ pipe \in Seq(Slots) /\ Len(pipe) \in Nat
        /\ taken \in Seq(Nat) /\ Len(taken) \in Nat
    BY LenProperties DEF ImtTypeOK, CoreTypeOK
  <1>2. Committing' /\ (Ringing' <=> Ringing)
    BY <1>0, <1>1 DEF Committing, Ringing
  <1>w. \A buf, k : Whole(buf, k)' <=> Whole(buf, k)
    BY <1>0 DEF Whole
  <1>3. CASE ImtStartup
    <2>1. InHand' = InHand
          /\ UNCHANGED <<iseq, rgptr, ierrs, ibuf, taken, pipe>>
      BY <1>3 DEF ImtStartup, InHand
    <2>2. ipc \notin {"copyHdr", "copyData", "check", "process"}
          /\ ipc' \notin {"copyHdr", "copyData", "check", "process"}
      BY <1>3 DEF ImtStartup
    <2>3. Paced' /\ Rung' /\ Copying'
      BY <1>0, <1>1, <1>2, <2>1, <2>2 DEF Paced, Rung, Copying, Whole
    <2>4. Protected'
      BY <1>0, <1>1, <2>1, <2>2 DEF Protected, Pending
    <2> QED
      BY <1>2, <2>3, <2>4
  <1>4. CASE ImtReadPipe
    <2>1. /\ ipc = "poll" /\ ipc' = "copyHdr" /\ pipe # << >>
          /\ pipe' = Tail(pipe) /\ rgptr' = Head(pipe)
          /\ iseq' = (iseq + 1) % MAX_SEQNUM /\ UNCHANGED <<ierrs, ibuf, taken>>
      BY <1>4 DEF ImtReadPipe
    <2>2. InHand = 0 /\ InHand' = 1
      BY <2>1 DEF InHand
    <2>3. /\ Len(pipe) > 0 /\ Len(pipe') = Len(pipe) - 1 /\ Head(pipe) = pipe[1]
          /\ \A i \in 1 .. Len(pipe') : pipe'[i] = pipe[i + 1]
      BY <1>t, <2>1, HeadTailProperties, EmptySeq
    <2>4. Whole(ring[rgptr'], Len(taken) + 1)
      <3>1. 1 \in 1 .. Len(pipe)
        BY <1>t, <2>3
      <3> QED
        BY <1>1, <1>t, <2>1, <2>2, <2>3, <3>1 DEF Rung
    <2>5. Paced'
      <3>1. iseq' = (Len(taken) + 1) % MAX_SEQNUM
        BY <1>1, <1>t, <2>1, <2>2, NextSeqnum DEF Paced
      <3>2. Len(committed') = Len(taken') + InHand' + Len(pipe')
                              + (IF Ringing' THEN 1 ELSE 0)
        BY <1>0, <1>1, <1>t, <1>2, <2>1, <2>2, <2>3 DEF Paced
      <3>3. /\ ierrs' = 0 /\ \A i \in 1 .. Len(taken') : taken'[i] = i
            /\ hdr'.seq = Len(committed') % MAX_SEQNUM
        BY <1>0, <1>1, <2>1 DEF Paced
      <3> QED
        BY <2>1, <2>2, <3>1, <3>2, <3>3 DEF Paced
    <2>6. Rung'
      <3> SUFFICES ASSUME NEW i \in 1 .. Len(pipe')
                   PROVE  Whole(ring[pipe[i]], Len(taken) + InHand + i)'
        BY DEF Rung
      <3>1. i + 1 \in 1 .. Len(pipe) /\ pipe'[i] = pipe[i + 1]
        BY <1>t, <2>3
      <3>2. Whole(ring[pipe[i + 1]], Len(taken) + InHand + (i + 1))
        BY <1>1, <3>1 DEF Rung
      <3>3. Len(taken) + InHand + (i + 1) = Len(taken') + InHand' + i
        BY <1>t, <2>1, <2>2
      <3> QED
        BY <1>0, <3>1, <3>2, <3>3, <1>w DEF Whole
    <2>7. Copying'
      BY <1>0, <2>1, <2>4 DEF Copying, Whole
    <2>8. Protected'
      <3>1. CASE cpc \notin {"protSeq", "sleep", "exited"}
        <4>1. \A i \in 1 .. Len(pipe) : pipe[i] # wslot
          BY <1>1, <3>1 DEF Protected, Pending
        <4>2. rgptr' # wslot
          BY <1>t, <2>1, <2>3, <4>1
        <4>3. \A i \in 1 .. Len(pipe') : pipe'[i] # wslot
          <5> TAKE i \in 1 .. Len(pipe')
          <5>1. i + 1 \in 1 .. Len(pipe)
            BY <1>t, <2>3
          <5> QED
            BY <2>3, <4>1, <5>1
        <4> QED
          BY <1>0, <4>2, <4>3 DEF Protected, Pending
      <3> QED
        BY <1>0, <3>1 DEF Protected
    <2> QED
      BY <1>2, <2>5, <2>6, <2>7, <2>8
  <1>5. CASE ImtCopyHdr
    <2>1. /\ ipc = "copyHdr" /\ ipc' = "copyData"
          /\ UNCHANGED <<iseq, rgptr, ierrs, taken, pipe>>
          /\ ibuf' = [ring[rgptr] EXCEPT !.data = ibuf.data]
      BY <1>5 DEF ImtCopyHdr, coreVars
    <2>2. InHand' = InHand
      BY <2>1 DEF InHand
    <2>3. Paced' /\ Rung'
      BY <1>0, <1>1, <1>2, <2>1, <2>2 DEF Paced, Rung, Whole
    <2>4. Copying'
      <3>1. /\ ibuf'.seq = ring[rgptr].seq /\ ibuf'.num = ring[rgptr].num
            /\ ibuf'.pid = ring[rgptr].pid /\ ibuf'.idx = ring[rgptr].idx
        BY <1>t, <2>1 DEF SlotType
      <3> QED
        BY <1>0, <1>1, <2>1, <3>1 DEF Copying, Whole
    <2>5. Protected'
      BY <1>0, <1>1, <2>1 DEF Protected, Pending
    <2> QED
      BY <1>2, <2>3, <2>4, <2>5
  <1>6. CASE ImtCopyData
    <2>1. /\ ipc = "copyData" /\ ipc' = "check"
          /\ UNCHANGED <<iseq, rgptr, ierrs, taken, pipe>>
          /\ ibuf' = [ibuf EXCEPT !.data = ring[rgptr].data]
      BY <1>6 DEF ImtCopyData, coreVars
    <2>2. InHand' = InHand
      BY <2>1 DEF InHand
    <2>3. Paced' /\ Rung'
      BY <1>0, <1>1, <1>2, <2>1, <2>2 DEF Paced, Rung, Whole
    <2>4. Copying'
      <3>1. /\ ibuf'.seq = ibuf.seq /\ ibuf'.num = ibuf.num
            /\ ibuf'.pid = ibuf.pid /\ ibuf'.idx = ibuf.idx
            /\ ibuf'.data = ring[rgptr].data
        BY <1>t, <2>1 DEF SlotType
      <3> QED
        BY <1>0, <1>1, <2>1, <3>1 DEF Copying, Whole
    <2>5. Protected'
      BY <1>0, <1>1, <2>1 DEF Protected, Pending
    <2> QED
      BY <1>2, <2>3, <2>4, <2>5
  <1>7. CASE ImtCheckSeq
    <2>1. ipc = "check" /\ ipc' = "process"
          /\ UNCHANGED <<rgptr, ibuf, taken, pipe>>
      BY <1>7 DEF ImtCheckSeq, coreVars
    <2>2. InHand = 1 /\ InHand' = 1
      BY <2>1 DEF InHand
    <2>3. ibuf.seq = iseq
      BY <1>1, <2>1, <2>2 DEF Copying, Whole, Paced
    <2>4. UNCHANGED <<ierrs, iseq>>
      BY <1>7, <2>3 DEF ImtCheckSeq
    <2>5. Paced' /\ Rung'
      BY <1>0, <1>1, <1>2, <2>1, <2>2, <2>4 DEF Paced, Rung, Whole
    <2>6. Copying' /\ Protected'
      BY <1>0, <1>1, <2>1 DEF Copying, Whole, Protected, Pending
    <2> QED
      BY <1>2, <2>5, <2>6
  <1>8. CASE ImtProcess
    <2> DEFINE n == Len(taken) + 1
    <2>1. /\ ipc = "process" /\ ipc' = "poll"
          /\ taken' = Append(taken, ibuf.idx)
          /\ UNCHANGED <<iseq, rgptr, ierrs, ibuf, pipe>>
      BY <1>8 DEF ImtProcess, coreVars
    <2>2. InHand = 1 /\ InHand' = 0
      BY <2>1 DEF InHand
    <2>3. ibuf.idx = n /\ n \in Nat
      BY <1>1, <1>t, <2>1 DEF Copying, Whole
    <2>4. /\ Len(taken') = n /\ taken'[n] = n
          /\ \A i \in 1 .. Len(taken) : taken'[i] = taken[i]
      BY <1>t, <2>1, <2>3, AppendProperties
    <2>5. \A i \in 1 .. Len(taken') : taken'[i] = i
      BY <1>1, <1>t, <2>4 DEF Paced
    <2>6. Paced'
      <3>1. Len(committed') = Len(taken') + InHand' + Len(pipe')
                              + (IF Ringing' THEN 1 ELSE 0)
        BY <1>0, <1>1, <1>t, <1>2, <2>1, <2>2, <2>4 DEF Paced
      <3>2. Len(taken') + InHand' = Len(taken) + InHand
        BY <1>t, <2>2, <2>4
      <3> QED
        BY <1>0, <1>1, <2>1, <2>5, <3>1, <3>2 DEF Paced
    <2>7. Rung'
      <3>1. Len(taken') + InHand' = Len(taken) + InHand
        BY <1>t, <2>2, <2>4
      <3> QED
        BY <1>0, <1>1, <2>1, <3>1 DEF Rung, Whole
    <2>8. Copying' /\ Protected'
      BY <1>0, <1>1, <2>1 DEF Copying, Protected, Pending
    <2> QED
      BY <1>2, <2>6, <2>7, <2>8
  <1> QED
    BY <1>3, <1>4, <1>5, <1>6, <1>7, <1>8 DEF ImtNext

\* The invariant of the memory plugin's channel holds in every state, for any
\* ring and any traffic.
LEMMA ImtInvariant == ImtSpec => []ImtInv
PROOF
  <1>1. ImtChannelInit => ImtInv
    <2> SUFFICES ASSUME ImtChannelInit PROVE ImtInv
      OBVIOUS
    <2> USE DEF ImtChannelInit, ImtInit
    <2>0. /\ Len(taken) = 0 /\ Len(pipe) = 0 /\ Len(committed) = 0
          /\ taken \in Seq(Nat)
      BY EmptySeq DEF CoreInit
    <2>1. ImtTypeOK
      <3>1. CoreTypeOK
        BY CoreInitType
      <3>2. ibuf \in SlotType
        BY EmptySeq, RingAssumption DEF EmptySlot, SlotType
      <3>3. iseq \in -1 .. MAX_SEQNUM - 1 /\ rgptr \in Slots
        BY RingAssumption DEF Slots
      <3> QED
        BY <2>0, <3>1, <3>2, <3>3 DEF ImtTypeOK
    <2>2. 0 % MAX_SEQNUM = 0
      BY RingAssumption
    <2>3. ~Ringing /\ InHand = 0
      BY DEF Ringing, InHand, CoreInit
    <2>4. Paced
      BY <2>0, <2>2, <2>3 DEF Paced, CoreInit
    <2>5. Rung /\ Copying /\ Protected
      BY <2>0 DEF Rung, Copying, Protected, Pending
    <2>6. Committing
      BY <2>3 DEF Committing, Ringing, CoreInit
    <2> QED
      BY <2>1, <2>4, <2>5, <2>6 DEF ImtInv, InPace
  <1>2. ImtInv /\ [ImtChannelNext]_imtChannelVars => ImtInv'
    <2> SUFFICES ASSUME ImtInv, [ImtChannelNext]_imtChannelVars PROVE ImtInv'
      OBVIOUS
    <2>1. ImtTypeOK'
      BY ImtTypeStep DEF ImtInv
    <2>2. CASE CoreBesideImt
      BY <2>1, <2>2, ImtCoreKeeps DEF ImtInv
    <2>3. CASE ImtNext
      BY <2>1, <2>3, ImtPluginKeeps DEF ImtInv
    <2>4. CASE UNCHANGED imtChannelVars
      BY <2>1, <2>4, ZenonT(30)
         DEF ImtInv, InPace, Clean, Ended, Paced, Rung, Copying, Protected, Committing,
             Ringing, InHand, Pending, Whole, imtChannelVars, coreVars, imtVars
    <2> QED
      BY <2>2, <2>3, <2>4 DEF ImtChannelNext
  <1> QED
    BY <1>1, <1>2, PTL DEF ImtSpec

\* For any ring and any traffic: the memory plugin processes what was committed,
\* each buffer once, in order and whole, unless a commit went unrung, a slot was
\* reused under its doorbell or SIGINT cut a commit short, and "Missing data
\* detected" means that one of these happened.
THEOREM ImtChannelIsSound == ImtSpec => []ImtChannelSound
PROOF
  <1>1. ImtInv => ImtChannelSound
    <2> SUFFICES ASSUME ImtInv PROVE ImtChannelSound
      OBVIOUS
    <2>1. ImtTypeOK
      BY DEF ImtInv
    <2>2. ImtExact
      <3> SUFFICES ASSUME Clean
                   PROVE  /\ \A i \in 1 .. Len(taken) : taken[i] = i
                          /\ ipc = "process"
                             => ImtReceived(ibuf) = committed[Len(taken) + 1]
        BY DEF ImtExact, Clean
      <3>1. Ended /\ (ipc # "exited" => Copying)
        BY DEF ImtInv, InPace, Ended, Paced
      <3>2. ipc = "process" => Whole(ibuf, Len(taken) + 1)
        BY <3>1 DEF Copying
      <3>3. ipc = "process" => ImtReceived(ibuf) = committed[Len(taken) + 1]
        BY <3>2 DEF ImtReceived, Whole
      <3> QED
        BY <3>1, <3>3 DEF Ended
    <2>3. ImtAlarmIsReal
      BY DEF ImtAlarmIsReal, ImtInv, InPace, Clean, Paced, Ended
    <2> QED
      BY <2>1, <2>2, <2>3 DEF ImtChannelSound
  <1> QED
    BY <1>1, ImtInvariant, PTL

-----------------------------------------------------------------------------
(***************************************************************************)
(* The invariant behind ImtGapCounted, overrun or not.  What the plugin    *)
(* copies is less than a lap behind what it took before; the number it     *)
(* expects is the one after that buffer's, or 0 after a slot read under    *)
(* protection.                                                             *)
(***************************************************************************)
Fresh ==
  /\ ipc \in {"copyData", "check", "process"} =>
       /\ ibuf.idx <= Len(committed)
       /\ ibuf.seq \in {-1, ibuf.idx % MAX_SEQNUM}
       /\ taken # << >> => ibuf.idx > LastTaken - NSlots
  /\ ipc = "process" => iseq = ibuf.seq
  /\ ipc = "startup" => taken = << >>
  /\ taken # << >> =>
       /\ LastTaken \in Nat /\ LastTaken <= Len(committed)
       /\ ipc = "poll" => iseq \in {-1, LastTaken % MAX_SEQNUM}
       /\ ipc \in {"copyHdr", "copyData", "check"} =>
            iseq \in {0, (LastTaken + 1) % MAX_SEQNUM}

GapInv == ImtTypeOK /\ CoreLatest /\ Fresh

\* Steps of the core only add commits; steps of the plugin keep the two numbers it
\* compares less than a lap apart.
LEMMA FreshStep ==
  ASSUME GapInv, ImtTypeOK', [ImtChannelNext]_imtChannelVars
  PROVE  Fresh'
PROOF
  <1>0. ImtTypeOK /\ CoreLatest /\ Fresh
    BY DEF GapInv
  <1>t. /\ ring \in [Slots -> SlotType] /\ rgptr \in Slots /\ ibuf \in SlotType
        /\ Len(committed) \in Nat /\ NSlots \in Nat \ {0}
        /\ MAX_SEQNUM \in Nat \ {0}
        /\ taken \in Seq(Nat) /\ iseq \in Int
    <2>1. /\ ring \in [Slots -> SlotType] /\ rgptr \in Slots /\ ibuf \in SlotType
          /\ committed \in Seq(Seq(Nat)) /\ taken \in Seq(Nat) /\ iseq \in Int
      BY <1>0 DEF ImtTypeOK, CoreTypeOK
    <2>2. Len(committed) \in Nat
      BY <2>1, LenProperties
    <2>3. NSlots \in Nat \ {0} /\ MAX_SEQNUM \in Nat \ {0}
      BY RingAssumption
    <2> QED
      BY <2>1, <2>2, <2>3
  <1>1. CASE CoreBesideImt
    <2>1. Len(committed') \in Nat /\ Len(committed) <= Len(committed')
      BY <1>0, <1>1, CommitsGrow DEF CoreBesideImt, ImtTypeOK
    <2>2. UNCHANGED <<ipc, iseq, ibuf, taken>>
      BY <1>1 DEF CoreBesideImt
    <2>3. ibuf.idx \in Nat
      BY <1>t DEF SlotType
    <2> QED
      BY <1>0, <1>t, <2>1, <2>2, <2>3 DEF Fresh, LastTaken
  <1>2. CASE ImtStartup
    BY <1>0, <1>2 DEF ImtStartup, Fresh, LastTaken
  <1>3. CASE ImtReadPipe
    <2>1. /\ ipc = "poll" /\ ipc' = "copyHdr" /\ iseq' = (iseq + 1) % MAX_SEQNUM
          /\ UNCHANGED <<committed, taken>>
      BY <1>3 DEF ImtReadPipe
    <2>2. ASSUME taken # << >> PROVE iseq' \in {0, (LastTaken + 1) % MAX_SEQNUM}
      <3>1. LastTaken \in Nat /\ iseq \in {-1, LastTaken % MAX_SEQNUM}
        BY <1>0, <2>1, <2>2 DEF Fresh
      <3>2. CASE iseq = -1
        <4>1. iseq' = 0 % MAX_SEQNUM /\ 0 < MAX_SEQNUM
          BY <1>t, <2>1, <3>2
        <4>2. 0 % MAX_SEQNUM = 0
          BY <1>t, NoWrap
        <4> QED
          BY <4>1, <4>2
      <3>3. CASE iseq = LastTaken % MAX_SEQNUM
        BY <1>t, <2>1, <3>1, <3>3, NextSeqnum
      <3> QED
        BY <3>1, <3>2, <3>3
    <2> QED
      BY <1>0, <2>1, <2>2 DEF Fresh, LastTaken
  <1>4. CASE ImtCopyHdr
    <2>1. /\ ipc = "copyHdr" /\ ipc' = "copyData"
          /\ ibuf' = [ring[rgptr] EXCEPT !.data = ibuf.data]
          /\ UNCHANGED <<committed, taken, iseq>>
      BY <1>4 DEF ImtCopyHdr, coreVars
    <2>2. ibuf'.idx = ring[rgptr].idx /\ ibuf'.seq = ring[rgptr].seq
      BY <1>t, <2>1 DEF SlotType
    <2>3. /\ ring[rgptr].idx \in Nat /\ ring[rgptr].idx <= Len(committed)
          /\ ring[rgptr].idx > Len(committed) - NSlots
          /\ ring[rgptr].seq \in {-1, ring[rgptr].idx % MAX_SEQNUM}
      BY <1>0, <1>t DEF CoreLatest, Dated, SlotType
    <2>4. taken # << >> => ibuf'.idx > LastTaken - NSlots
      BY <1>0, <1>t, <2>2, <2>3 DEF Fresh
    <2> QED
      BY <1>0, <2>1, <2>2, <2>3, <2>4 DEF Fresh, LastTaken
  <1>5. CASE ImtCopyData
    <2>1. /\ ipc = "copyData" /\ ipc' = "check"
          /\ ibuf' = [ibuf EXCEPT !.data = ring[rgptr].data]
          /\ UNCHANGED <<committed, taken, iseq>>
      BY <1>5 DEF ImtCopyData, coreVars
    <2>2. ibuf'.idx = ibuf.idx /\ ibuf'.seq = ibuf.seq
      BY <1>t, <2>1 DEF SlotType
    <2> QED
      BY <1>0, <2>1, <2>2 DEF Fresh, LastTaken
  <1>6. CASE ImtCheckSeq
    <2>1. /\ ipc = "check" /\ ipc' = "process" /\ iseq' = ibuf.seq
          /\ UNCHANGED <<committed, taken, ibuf>>
      BY <1>6 DEF ImtCheckSeq, coreVars
    <2> QED
      BY <1>0, <2>1 DEF Fresh, LastTaken
  <1>7. CASE ImtProcess
    <2>1. /\ ipc = "process" /\ ipc' = "poll"
          /\ taken' = Append(taken, ibuf.idx)
          /\ UNCHANGED <<committed, iseq, ibuf>>
      BY <1>7 DEF ImtProcess, coreVars
    <2>2. ibuf.idx \in Nat
      BY <1>t DEF SlotType
    <2>3. LastTaken' = ibuf.idx
      BY <1>t, <2>1, <2>2, AppendProperties DEF LastTaken
    <2> QED
      BY <1>0, <2>1, <2>2, <2>3 DEF Fresh
  <1>8. CASE UNCHANGED imtChannelVars
    BY <1>0, <1>8 DEF imtChannelVars, coreVars, imtVars, Fresh, LastTaken
  <1>9. CASE ImtExit
    BY <1>0, <1>9 DEF ImtExit, coreVars, Fresh, LastTaken
  <1> QED
    BY <1>1, <1>2, <1>3, <1>4, <1>5, <1>6, <1>7, <1>8, <1>9 DEF ImtChannelNext,
       ImtNext

\* The memory plugin counts every gap in what it reads, however often the core has
\* overrun it and whatever doorbells were lost, but for gaps of a whole multiple of
\* MAX_SEQNUM buffers.  SIGINT is taken to come between two buffers.
THEOREM GapsAreCounted ==
  ASSUME SigintWindow \subseteq {"fill", "seq"}
  PROVE  ImtSpec => ImtGapCounted
PROOF
  <1>1. ImtChannelInit => CoreLatest /\ Fresh
    <2> SUFFICES ASSUME ImtChannelInit PROVE CoreLatest /\ Fresh
      OBVIOUS
    <2>1. CoreLatest
      BY CoreLatestInit DEF ImtChannelInit
    <2> QED
      BY <2>1 DEF ImtChannelInit, ImtInit, Fresh
  <1>2. GapInv /\ ImtTypeOK' /\ [ImtChannelNext]_imtChannelVars => CoreLatest'
        /\ Fresh'
    <2> SUFFICES ASSUME GapInv, ImtTypeOK',
                        [ImtChannelNext]_imtChannelVars PROVE CoreLatest'
                          /\ Fresh'
      OBVIOUS
    <2>1. Fresh'
      BY FreshStep
    <2>2. CASE CoreBesideImt
      BY <2>1, <2>2, CoreLatestStep DEF CoreBesideImt, GapInv, ImtTypeOK
    <2>3. CASE ImtNext \/ UNCHANGED imtChannelVars
      <3>1. /\ UNCHANGED <<cpc, hdr, wslot, ring, committed, lastOff, shutdown>>
            /\ pipe' # << >> => pipe # << >>
        BY <2>3 DEF ImtNext, ImtStartup, ImtReadPipe, ImtCopyHdr, ImtCopyData,
           ImtCheckSeq, ImtProcess, ImtExit,
           imtChannelVars, coreVars
      <3>2. CoreLatest'
        BY <3>1 DEF GapInv, CoreLatest, Turning, Trailing, Dated, Open, Closed,
           Filling,
           Committed
      <3> QED
        BY <2>1, <3>2
    <2> QED
      BY <2>2, <2>3 DEF ImtChannelNext
  <1>3. GapInv /\ [ImtChannelNext]_imtChannelVars =>
          [ipc = "check" /\ ipc' = "process" /\ taken # << >> /\ Aligned
             /\ ~icut =>
             LET gap == ibuf.idx - (LastTaken + 1)
             IN ierrs' = ierrs + 1
                \/ (gap >= 0 /\ gap % MAX_SEQNUM = 0)]_imtChannelVars
    <2> SUFFICES ASSUME GapInv, [ImtChannelNext]_imtChannelVars, ipc = "check",
                        ipc' = "process",
                        taken # << >>, Aligned, ~icut, ierrs' # ierrs + 1
                 PROVE  /\ ibuf.idx - (LastTaken + 1) >= 0
                        /\ (ibuf.idx - (LastTaken + 1)) % MAX_SEQNUM = 0
      OBVIOUS
    <2>1. ImtCheckSeq
      BY DEF ImtChannelNext, ImtNext, CoreBesideImt, ImtStartup, ImtReadPipe,
         ImtCopyHdr, ImtCopyData, ImtProcess, ImtExit,
             imtChannelVars, imtVars
    <2>2. ibuf.seq = iseq
      BY <2>1 DEF ImtCheckSeq
    <2>3. /\ LastTaken \in Nat /\ LastTaken <= Len(committed)
          /\ iseq \in {0, (LastTaken + 1) % MAX_SEQNUM}
          /\ ibuf.seq \in {-1, ibuf.idx % MAX_SEQNUM}
          /\ ibuf.idx > LastTaken - NSlots
      BY DEF GapInv, Fresh
    <2>4. ibuf.idx \in Nat /\ NSlots \in Nat /\ MAX_SEQNUM \in Nat \ {0}
      BY RingAssumption DEF GapInv, ImtTypeOK, SlotType
    <2>5. (LastTaken + 1) % MAX_SEQNUM \in 0 .. MAX_SEQNUM - 1
      <3>1. \A k \in Nat : (k + 1) % MAX_SEQNUM \in 0 .. MAX_SEQNUM - 1
        <4> TAKE k \in Nat
        <4>1. k + 1 \in Nat
          OBVIOUS
        <4> QED
          BY <2>4, <4>1, NextRemainder
      <3> QED
        BY <2>3, <3>1
    <2>6. iseq = (LastTaken + 1) % MAX_SEQNUM
      BY <2>3 DEF Aligned
    <2>7. ibuf.idx % MAX_SEQNUM = (LastTaken + 1) % MAX_SEQNUM
      BY <2>2, <2>3, <2>5, <2>6
    <2>8. CoreTypeOK
      BY DEF GapInv, ImtTypeOK
    <2> DEFINE j == ibuf.idx
               a == LastTaken
    <2>9. j \in Nat /\ a \in Nat /\ j > a - NSlots
          /\ j % MAX_SEQNUM = (a + 1) % MAX_SEQNUM
      BY <2>3, <2>4, <2>7
    <2> HIDE DEF j, a
    <2>10. j >= a + 1 /\ (j - (a + 1)) % MAX_SEQNUM = 0
      BY <2>8, <2>9, NumberTells
    <2> QED
      BY <2>9, <2>10 DEF j, a
  <1>4. GapInv <=> ImtTypeOK /\ CoreLatest /\ Fresh
    BY DEF GapInv
  <1>5. ImtInv => ImtTypeOK
    BY DEF ImtInv
  <1> QED
    BY <1>1, <1>2, <1>3, <1>4, <1>5, ImtInvariant, PTL DEF ImtSpec,
       ImtGapCounted
=============================================================================

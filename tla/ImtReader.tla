----------------------------- MODULE ImtReader ------------------------------
(***************************************************************************)
(* The memory (IMT) plugin's side of the channel.  It raises wakeup once   *)
(* and the core never lowers it (request = TRUE), so every commit rings;   *)
(* the plugin reads one datagram per round of poll() and copies the slot   *)
(* the datagram points to.  Names that RingReader has too are prefixed.    *)
(***************************************************************************)
EXTENDS CoreRing, Functions

VARIABLES
  ipc,       \* where the plugin is in its main loop
  iseq,      \* seq
  rgptr,     \* slot named by the datagram last read
  ierrs,     \* rg_err_count
  ibuf,      \* private copy of the slot
  taken,     \* history: commit numbers of the buffers processed
  ioverrun,  \* history: the core reused a slot whose doorbell was pending
  unrung,    \* history: a commit was not rung (plugin not up, socket full)
  icut       \* history: SIGINT came in the middle of a commit

imtVars == <<ipc, iseq, rgptr, ierrs, ibuf, taken, ioverrun, unrung,
                 icut>>
imtChannelVars == <<coreVars, imtVars>>

ImtInit ==
  /\ ipc = "startup" /\ iseq = 0 /\ rgptr = 0 /\ ierrs = 0
  /\ ibuf = EmptySlot
  /\ taken = << >> /\ ioverrun = FALSE /\ unrung = FALSE /\ icut = FALSE

ImtChannelInit == CoreInit /\ ImtInit

-----------------------------------------------------------------------------
\* status->wakeup = TRUE, once, before the main loop
ImtStartup ==
  /\ ipc = "startup"
  /\ wakeup' = TRUE
  /\ ipc' = "poll"
  /\ UNCHANGED <<cpc, hdr, bufptr, wslot, redo, shutdown, ring, lastOff, pipe,
                 nrec, committed, iseq, rgptr, ierrs, ibuf, taken, ioverrun,
                 unrung, icut>>

\* mutant: the plugin takes the core's latest buffer, not the one rung
ImtReadPipe_Latest ==
  /\ ipc = "poll" /\ pipe # << >>
  /\ iseq' = (iseq + 1) % MAX_SEQNUM
  /\ rgptr' = lastOff
  /\ pipe' = Tail(pipe)
  /\ ipc' = "copyHdr"
  /\ UNCHANGED <<cpc, hdr, bufptr, wslot, redo, shutdown, ring, lastOff,
                 wakeup, nrec, committed, ierrs, ibuf, taken, ioverrun,
                 unrung, icut>>

\* mutant: the expected sequence number is not reduced modulo MAX_SEQNUM
ImtReadPipe_NoWrap ==
  /\ ipc = "poll" /\ pipe # << >>
  /\ iseq' = iseq + 1
  /\ rgptr' = Head(pipe)
  /\ pipe' = Tail(pipe)
  /\ ipc' = "copyHdr"
  /\ UNCHANGED <<cpc, hdr, bufptr, wslot, redo, shutdown, ring, lastOff,
                 wakeup, nrec, committed, ierrs, ibuf, taken, ioverrun,
                 unrung, icut>>

\* poll() finds a datagram: the next sequence number is expected in its slot
ImtReadPipe ==
  /\ ipc = "poll" /\ pipe # << >>
  /\ iseq' = (iseq + 1) % MAX_SEQNUM
  /\ rgptr' = Head(pipe)
  /\ pipe' = Tail(pipe)
  /\ ipc' = "copyHdr"
  /\ UNCHANGED <<cpc, hdr, bufptr, wslot, redo, shutdown, ring, lastOff,
                 wakeup, nrec, committed, ierrs, ibuf, taken, ioverrun,
                 unrung, icut>>

ImtCopyHdr ==
  /\ ipc = "copyHdr"
  /\ ibuf' = [ring[rgptr] EXCEPT !.data = ibuf.data]
  /\ ipc' = "copyData"
  /\ UNCHANGED <<coreVars, iseq, rgptr, ierrs, taken, ioverrun, unrung,
                 icut>>

ImtCopyData ==
  /\ ipc = "copyData"
  /\ ibuf' = [ibuf EXCEPT !.data = ring[rgptr].data]
  /\ ipc' = "check"
  /\ UNCHANGED <<coreVars, iseq, rgptr, ierrs, taken, ioverrun, unrung,
                 icut>>

\* mutant: a mismatch realigns silently
ImtCheckSeq_Silent ==
  /\ ipc = "check"
  /\ iseq' = ibuf.seq
  /\ ipc' = "process"
  /\ UNCHANGED <<coreVars, rgptr, ierrs, ibuf, taken, ioverrun, unrung,
                 icut>>

\* the copy is used even when its number is not the expected one
ImtCheckSeq ==
  /\ ipc = "check"
  /\ \/ /\ ibuf.seq = iseq
        /\ UNCHANGED <<ierrs, iseq>>
     \/ /\ ibuf.seq # iseq
        /\ ierrs' = ierrs + 1                     \* "Missing data detected"
        /\ iseq' = ibuf.seq
  /\ ipc' = "process"
  /\ UNCHANGED <<coreVars, rgptr, ibuf, taken, ioverrun, unrung,
                 icut>>

ImtReceived(buf) ==
  IF CheckCorePid /\ buf.pid # CorePid THEN << >>
  ELSE Payload(buf.data, buf.num)

\* every record of the copy goes to imt_insert_func
ImtProcess ==
  /\ ipc = "process"
  /\ taken' = Append(taken, ibuf.idx)
  /\ ipc' = "poll"
  /\ UNCHANGED <<coreVars, iseq, rgptr, ierrs, ibuf, ioverrun, unrung,
                 icut>>

\* the core's SIGINT arrives, at any point: exit_now() ends the plugin at once
ImtExit ==
  /\ cpc = "exited" /\ ipc # "exited"
  /\ ipc' = "exited"
  /\ UNCHANGED <<coreVars, iseq, rgptr, ierrs, ibuf, taken, ioverrun, unrung,
                 icut>>

ImtNext ==
  \/ ImtStartup \/ ImtReadPipe \/ ImtCopyHdr \/ ImtCopyData \/ ImtCheckSeq
  \/ ImtProcess \/ ImtExit

(***************************************************************************)
(* History of what the core does to buffers the plugin has yet to copy.    *)
(***************************************************************************)
Pending(s) ==
  \/ \E i \in 1 .. Len(pipe) : pipe[i] = s
  \/ ipc \in {"copyHdr", "copyData"} /\ rgptr = s

CoreBesideImt ==
  /\ CoreNext
  /\ ioverrun' = (ioverrun \/ /\ cpc = "protSeq" /\ cpc' = "protNum"
                              /\ Pending(wslot'))
  /\ unrung' = (unrung \/ (cpc = "wake" /\ cpc' \notin {"seq", "signal"})
                       \/ (cpc = "signal" /\ cpc' \notin {"seq", "signal"}
                                          /\ pipe' = pipe))
  /\ icut' = (icut \/ (shutdown' /\ ~shutdown /\ cpc \notin {"fill", "seq"}))
  /\ UNCHANGED <<ipc, iseq, rgptr, ierrs, ibuf, taken>>

ImtChannelNext == CoreBesideImt \/ ImtNext

ImtSpec == ImtChannelInit /\ [][ImtChannelNext]_imtChannelVars

ImtTypeOK ==
  /\ CoreTypeOK
  /\ ipc \in {"startup", "poll", "copyHdr", "copyData", "check", "process",
            "exited"}
  /\ iseq \in -1 .. MAX_SEQNUM - 1 /\ rgptr \in Slots /\ ierrs \in Nat
  /\ ibuf \in SlotType
  /\ taken \in Seq(Nat) /\ ioverrun \in BOOLEAN /\ unrung \in BOOLEAN
  /\ icut \in BOOLEAN

-----------------------------------------------------------------------------
\* While every commit is rung, no slot with a pending doorbell is reused and
\* SIGINT does not come in the middle of a commit, the memory plugin processes
\* each committed buffer once, in order and whole (the doorbell follows the
\* complete header, unlike the sequence number the other plugins look at).
ImtExact ==
  ~ioverrun /\ ~unrung /\ ~icut =>
    /\ \A i \in 1 .. Len(taken) : taken[i] = i
    /\ ipc = "process" => ImtReceived(ibuf) = committed[Len(taken) + 1]

\* "Missing data detected" is logged only after a commit went unrung or a slot
\* was reused under a pending doorbell, or SIGINT cut a commit short.
ImtAlarmIsReal == ierrs > 0 => ioverrun \/ unrung \/ icut

\* A gap does not go unnoticed: a buffer that does not directly follow the previous
\* one is counted as an error when it is checked, unless a whole multiple of
\* MAX_SEQNUM buffers is missing, or the previous one was read from a slot under
\* protection, seq -1 (which was counted, and makes the plugin expect 0), or SIGINT
\* cut a commit short.
LastTaken == taken[Len(taken)]
Aligned == iseq = 0 => (LastTaken + 1) % MAX_SEQNUM = 0
ImtGapCounted ==
  [][ipc = "check" /\ ipc' = "process" /\ taken # << >> /\ Aligned /\ ~icut =>
       LET gap == ibuf.idx - (LastTaken + 1)
       IN ierrs' = ierrs + 1
          \/ (gap >= 0 /\ gap % MAX_SEQNUM = 0)]_imtChannelVars

\* where the memory plugin has a record, or can still come by it: in its table,
\* in the copy in its hands, or in a slot it has yet to copy
InSlot(s) == Range(Payload(ring[s].data, ring[s].num))
ImtCanGet(r) ==
  \/ \E i \in DOMAIN taken : r \in Range(committed[taken[i]])
  \/ ipc \in {"check", "process"} /\ r \in Range(ImtReceived(ibuf))
  \/ \E s \in Slots : Pending(s) /\ r \in InSlot(s)

\* When the core is told to stop, the two seconds it sleeps are all the plugin
\* needs to have every record placed so far in its table: from fill_pipe_buffer()
\* on, the partly filled buffer included, a record is there already, or in the
\* plugin's hands, or rung and unspoilt in the ring, until the SIGINT sent after
\* the sleep ends the plugin.  So one that is back in poll() with nothing to read
\* has missed nothing, unless commits went unrung or the core overran it.
ImtShutdownFlushed ==
  cpc \in {"sleep", "exited"} /\ shutdown /\ ipc # "exited" =>
    \/ unrung \/ ioverrun
    \/ \A r \in 1 .. nrec : ImtCanGet(r)

\* Types; what the plugin processes is what was committed; and "missing data" is
\* only reported when data are missing (imt_plugin.c, the sequence check).
ImtChannelSound == ImtTypeOK /\ ImtExact /\ ImtAlarmIsReal
=============================================================================

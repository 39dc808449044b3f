------------------------------ MODULE CoreRing ------------------------------
(***************************************************************************)
(* The Core Process side of one Core Process <-> plugin channel: a ring of *)
(* fixed-size slots in shared memory, a status block (wakeup,              *)
(* last_buf_off) and a SOCK_DGRAM socketpair used as doorbell.             *)
(*                                                                         *)
(* Every write the core makes to memory shared with the plugin is a step   *)
(* of its own (control state cpc), so that the plugin's loads interleave   *)
(* with them; work on the core's private state is folded into the step it  *)
(* precedes.  Records are identified by the order in which they were       *)
(* placed (1, 2, ...); a slot's payload is the sequence of record          *)
(* identifiers found in it, stale tail of an earlier lap included.         *)
(***************************************************************************)
EXTENDS Integers, Sequences

CONSTANTS
  NSlots,          \* plugin_pipe_size / plugin_buffer_size
  MAX_SEQNUM,      \* 65536 in plugin_hooks.h
  PipeCap,         \* datagrams the socketpair holds before EAGAIN
  FixedSize,       \* datasize of a record (fixed part)
  VarSizes,        \* possible variable-length parts of a record
  BufEnd,          \* payload bytes of a slot (bufend)
  BufferImmediate, \* plugin_buffer_immediate
  Sampling,        \* sampling_rate set: a record may be sampled out
  Request,         \* channel->request: TRUE for the memory plugin only
  CorePid,         \* getpid() of the core
  CheckCorePid,    \* plugin_pipe_check_core_pid: plugins compare it
  MaxRecords,      \* bound: records the core is fed
  MaxCommits,      \* bound: commits after which records stop
  SigintWindow     \* control states at which SIGINT may be delivered

(***************************************************************************)
(* plugin_hooks.c keeps pipe_size >= buffer_size, so there is at least one *)
(* slot.  Sequence numbers must outnumber the slots: with a ring of        *)
(* MAX_SEQNUM slots or a multiple of it a slot of the previous lap already *)
(* carries the expected number.                                            *)
(***************************************************************************)
ASSUME RingAssumption ==
  /\ NSlots \in Nat \ {0}
  /\ MAX_SEQNUM \in Nat /\ MAX_SEQNUM > NSlots
  /\ PipeCap \in Nat \ {0}
  /\ FixedSize \in Nat \ {0} /\ VarSizes \subseteq Nat
  /\ BufEnd \in Nat /\ BufEnd >= FixedSize
  /\ {BufferImmediate, Sampling, Request, CheckCorePid} \subseteq BOOLEAN
  /\ CorePid \in Nat \ {0}
  /\ MaxRecords \in Nat /\ MaxCommits \in Nat
  /\ "exited" \notin SigintWindow

VARIABLES
  cpc,       \* where the core is inside exec_plugins() / fill_pipe_buffer()
  hdr,       \* channel->hdr: seq and num of the buffer being filled
  bufptr,    \* displacement into the current slot
  wslot,     \* channel->rg.ptr, as a slot number
  redo,      \* variable size of the record to reprocess, or -1
  shutdown,  \* the commit under way is the one of fill_pipe_buffer()
  ring,      \* slot -> ch_buf_hdr fields and payload (shared)
  lastOff,   \* status->last_buf_off, as a slot number (shared)
  wakeup,    \* status->wakeup (shared)
  pipe,      \* datagrams in flight: slot numbers (rg.ptr values)
  nrec,      \* records placed so far (also the last record's identifier)
  committed  \* history: payload of every buffer committed, in commit order

coreVars == <<cpc, hdr, bufptr, wslot, redo, shutdown, ring, lastOff, wakeup,
              pipe, nrec, committed>>

Slots == 0 .. NSlots - 1

CorePCs == {"fill", "seq", "num", "pid", "off", "wake", "signal", "protSeq",
            "protNum", "protPid", "sleep", "exited"}

(***************************************************************************)
(* insert_pipe_channel() zeroes ring and status block.  idx, a history     *)
(* field, is the number of the commit that last published the slot's seq.  *)
(***************************************************************************)
EmptySlot == [seq |-> 0, num |-> 0, pid |-> 0, data |-> << >>, idx |-> 0]

CoreInit ==
  /\ cpc = "fill"
  /\ hdr = [seq |-> 0, num |-> 0]
  /\ bufptr = 0 /\ wslot = 0 /\ redo = -1 /\ shutdown = FALSE
  /\ ring = [s \in Slots |-> EmptySlot]
  /\ lastOff = 0 /\ wakeup = FALSE
  /\ pipe = << >>
  /\ nrec = 0 /\ committed = << >>

(***************************************************************************)
(* check_pipe_buffer_space(): room for the fixed and the variable part.    *)
(***************************************************************************)
HasSpace(v) == BufEnd - bufptr - FixedSize - v >= 0

Overlay(data, k, r) ==
  IF k <= Len(data) THEN [data EXCEPT ![k] = r] ELSE Append(data, r)

\* the first n records found in a payload; what lies beyond was never written
Payload(data, n) == SubSeq(data, 1, IF n <= Len(data) THEN n ELSE Len(data))

(***************************************************************************)
(* The buffer is sent when another fixed part would not fit, when it is    *)
(* full by count, or at once under plugin_buffer_immediate.                *)
(***************************************************************************)
SendNow(ptr) == ptr + FixedSize > BufEnd \/ BufferImmediate

(***************************************************************************)
(* A record that fits is written by the primitive handlers into the slot   *)
(* at bufptr and counted.                                                  *)
(***************************************************************************)
Place(v, r) ==
  /\ HasSpace(v)
  /\ ring' = [ring EXCEPT ![wslot].data = Overlay(@, hdr.num + 1, r)]
  /\ hdr' = [hdr EXCEPT !.num = @ + 1]
  /\ bufptr' = bufptr + FixedSize + v
  /\ redo' = -1
  /\ cpc' = IF SendNow(bufptr') THEN "seq" ELSE "fill"
  /\ UNCHANGED <<wslot, shutdown, lastOff, wakeup, pipe, committed>>

(***************************************************************************)
(* exec_plugins() on a new record.                                         *)
(***************************************************************************)
ExecPlugins(v) ==
  /\ cpc = "fill" /\ redo = -1
  /\ nrec < MaxRecords /\ Len(committed) <= MaxCommits
  /\ \/ /\ Place(v, nrec + 1)
        /\ nrec' = nrec + 1
     \/ /\ ~HasSpace(v)              \* reprocess: send what is there first
        /\ bufptr' = BufEnd
        /\ redo' = v
        /\ cpc' = "seq"
        /\ UNCHANGED <<hdr, wslot, shutdown, ring, lastOff, wakeup, pipe, nrec,
                       committed>>

(***************************************************************************)
(* A record that sampling leaves out gives back its count and its space;   *)
(* under plugin_buffer_immediate the buffer is sent all the same.          *)
(***************************************************************************)
SampledOut ==
  /\ cpc = "fill" /\ redo = -1
  /\ Sampling /\ BufferImmediate /\ Len(committed) < MaxCommits
  /\ cpc' = "seq"
  /\ UNCHANGED <<hdr, bufptr, wslot, redo, shutdown, ring, lastOff, wakeup,
                 pipe, nrec, committed>>

(***************************************************************************)
(* goto reprocess, in the slot after the one just sent.  All handlers run  *)
(* again: the sampling handler draws a second time and may now leave the   *)
(* record out, which is then placed nowhere.  A record that does not fit   *)
(* an empty buffer either (already_reprocessed) makes the core exit_all(). *)
(***************************************************************************)
Reprocess ==
  /\ cpc = "fill" /\ redo # -1
  /\ \/ /\ Place(redo, nrec + 1)
        /\ nrec' = nrec + 1
     \/ /\ Sampling
        /\ redo' = -1
        /\ cpc' = IF BufferImmediate THEN "seq" ELSE "fill"
        /\ UNCHANGED <<hdr, bufptr, wslot, shutdown, ring, lastOff, wakeup,
                       pipe, nrec, committed>>
     \/ /\ ~HasSpace(redo)
        /\ cpc' = "exited"
        /\ UNCHANGED <<hdr, bufptr, wslot, redo, shutdown, ring, lastOff,
                       wakeup, pipe, nrec, committed>>

(***************************************************************************)
(* The commit of a finished buffer, in program order.                      *)
(***************************************************************************)
\* mutant: the sequence number is never reduced modulo MAX_SEQNUM
CommitSeq_NoWrap ==
  /\ cpc = "seq"
  /\ hdr' = [hdr EXCEPT !.seq = @ + 1]
  /\ ring' = [ring EXCEPT ![wslot].seq = hdr'.seq,
                          ![wslot].idx = Len(committed) + 1]
  /\ committed' = Append(committed, Payload(ring[wslot].data, hdr.num))
  /\ cpc' = "num"
  /\ UNCHANGED <<bufptr, wslot, redo, shutdown, lastOff, wakeup, pipe, nrec>>

CommitSeq ==
  /\ cpc = "seq"
  /\ hdr' = [hdr EXCEPT !.seq = (@ + 1) % MAX_SEQNUM]
  /\ ring' = [ring EXCEPT ![wslot].seq = hdr'.seq,
                          ![wslot].idx = Len(committed) + 1]
  /\ committed' = Append(committed, Payload(ring[wslot].data, hdr.num))
  /\ cpc' = "num"
  /\ UNCHANGED <<bufptr, wslot, redo, shutdown, lastOff, wakeup, pipe, nrec>>

\* mutant: one record too many is announced
CommitNum_OneMore ==
  /\ cpc = "num"
  /\ ring' = [ring EXCEPT ![wslot].num = hdr.num + 1]
  /\ cpc' = "pid"
  /\ UNCHANGED <<hdr, bufptr, wslot, redo, shutdown, lastOff, wakeup, pipe,
                 nrec, committed>>

CommitNum ==
  /\ cpc = "num"
  /\ ring' = [ring EXCEPT ![wslot].num = hdr.num]
  /\ cpc' = "pid"
  /\ UNCHANGED <<hdr, bufptr, wslot, redo, shutdown, lastOff, wakeup, pipe,
                 nrec, committed>>

\* fill_pipe_buffer() does not touch last_buf_off
CommitPid ==
  /\ cpc = "pid"
  /\ ring' = [ring EXCEPT ![wslot].pid = CorePid]
  /\ cpc' = IF shutdown THEN "wake" ELSE "off"
  /\ UNCHANGED <<hdr, bufptr, wslot, redo, shutdown, lastOff, wakeup, pipe,
                 nrec, committed>>

\* mutant: last_buf_off is never maintained
CommitOff_Stale ==
  /\ cpc = "off"
  /\ cpc' = "wake"
  /\ UNCHANGED <<hdr, bufptr, wslot, redo, shutdown, ring, lastOff, wakeup,
                 pipe, nrec, committed>>

CommitOff ==
  /\ cpc = "off"
  /\ lastOff' = wslot
  /\ cpc' = "wake"
  /\ UNCHANGED <<hdr, bufptr, wslot, redo, shutdown, ring, wakeup, pipe, nrec,
                 committed>>

AfterSignal == IF shutdown THEN "sleep" ELSE "protSeq"

(***************************************************************************)
(* if (status->wakeup) { status->wakeup = request; write(pipe, ...); }     *)
(***************************************************************************)
TestWakeup ==
  /\ cpc = "wake"
  /\ \/ /\ wakeup
        /\ wakeup' = Request
        /\ cpc' = "signal"
     \/ /\ ~wakeup
        /\ cpc' = AfterSignal
        /\ UNCHANGED wakeup
  /\ UNCHANGED <<hdr, bufptr, wslot, redo, shutdown, ring, lastOff, pipe, nrec,
                 committed>>

\* mutant: the doorbell is forgotten once wakeup has been lowered
WritePipe_Forgotten ==
  /\ cpc = "signal"
  /\ cpc' = AfterSignal
  /\ UNCHANGED <<hdr, bufptr, wslot, redo, shutdown, ring, lastOff, wakeup,
                 pipe, nrec, committed>>

\* the write end is non-blocking: a full socket only costs a log line
WritePipe ==
  /\ cpc = "signal"
  /\ pipe' = IF Len(pipe) < PipeCap THEN Append(pipe, wslot) ELSE pipe
  /\ cpc' = AfterSignal
  /\ UNCHANGED <<hdr, bufptr, wslot, redo, shutdown, ring, lastOff, wakeup,
                 nrec, committed>>

(***************************************************************************)
(* Moving to the next slot and "protecting" it before writing into it.     *)
(***************************************************************************)
ProtectSeq ==
  /\ cpc = "protSeq"
  /\ wslot' = (wslot + 1) % NSlots
  /\ ring' = [ring EXCEPT ![wslot'].seq = -1]
  /\ cpc' = "protNum"
  /\ UNCHANGED <<hdr, bufptr, redo, shutdown, lastOff, wakeup, pipe, nrec,
                 committed>>

ProtectNum ==
  /\ cpc = "protNum"
  /\ ring' = [ring EXCEPT ![wslot].num = 0]
  /\ cpc' = "protPid"
  /\ UNCHANGED <<hdr, bufptr, wslot, redo, shutdown, lastOff, wakeup, pipe,
                 nrec, committed>>

ProtectPid ==
  /\ cpc = "protPid"
  /\ ring' = [ring EXCEPT ![wslot].pid = 0]
  /\ bufptr' = 0
  /\ hdr' = [hdr EXCEPT !.num = 0]
  /\ cpc' = "fill"
  /\ UNCHANGED <<wslot, redo, shutdown, lastOff, wakeup, pipe, nrec,
                 committed>>

(***************************************************************************)
(* fill_pipe_buffer() commits whatever the current buffer holds, with the  *)
(* same stores as exec_plugins() except last_buf_off, and never moves on   *)
(* to another slot.                                                        *)
(***************************************************************************)
\* mutant: the partly filled buffer is dropped
FillPipeBuffer_Dropped ==
  /\ shutdown' = TRUE
  /\ cpc' = "sleep"
  /\ UNCHANGED <<hdr, bufptr, wslot, redo, ring, lastOff, wakeup, pipe, nrec,
                 committed>>

FillPipeBuffer ==
  /\ shutdown' = TRUE
  /\ cpc' = "seq"
  /\ UNCHANGED <<hdr, bufptr, wslot, redo, ring, lastOff, wakeup, pipe, nrec,
                 committed>>

(***************************************************************************)
(* SIGINT/SIGTERM: my_sigint_handler() runs fill_pipe_buffer() on top of   *)
(* whatever exec_plugins() was doing.  (The BGP sessions it closes and the *)
(* collector's socket are no part of a channel.)                           *)
(***************************************************************************)
Sigint ==
  /\ cpc \in SigintWindow /\ ~shutdown
  /\ FillPipeBuffer

(***************************************************************************)
(* After sleep(2), whatever the plugins have managed to read by then, they *)
(* are sent SIGINT, on which each leaves its main loop for good; the core  *)
(* waits for a child and exits.  (exit_all() in Reprocess sends SIGKILL.)  *)
(***************************************************************************)
SignalPlugins ==
  /\ cpc = "sleep"
  /\ cpc' = "exited"
  /\ UNCHANGED <<hdr, bufptr, wslot, redo, shutdown, ring, lastOff, wakeup,
                 pipe, nrec, committed>>

CoreNext ==
  \/ \E v \in VarSizes : ExecPlugins(v)
  \/ SampledOut \/ Reprocess
  \/ CommitSeq \/ CommitNum \/ CommitPid \/ CommitOff
  \/ TestWakeup \/ WritePipe
  \/ ProtectSeq \/ ProtectNum \/ ProtectPid
  \/ Sigint \/ SignalPlugins

SlotType == [seq : -1 .. MAX_SEQNUM - 1, num : Nat, pid : {0, CorePid},
             data : Seq(Nat), idx : Nat]

CoreTypeOK ==
  /\ cpc \in CorePCs
  /\ hdr \in [seq : 0 .. MAX_SEQNUM - 1, num : Nat]
  /\ bufptr \in Nat /\ wslot \in Slots /\ redo \in {-1} \cup VarSizes
  /\ shutdown \in BOOLEAN
  /\ ring \in [Slots -> SlotType]
  /\ lastOff \in Slots /\ wakeup \in BOOLEAN
  /\ pipe \in Seq(Slots)
  /\ nrec \in Nat /\ committed \in Seq(Seq(Nat))
=============================================================================

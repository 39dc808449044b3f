----------------------------- MODULE RingReader -----------------------------
(***************************************************************************)
(* The plugin side of the channel, for the plugins that ask for a wakeup   *)
(* only when they are about to sleep (print, kafka, amqp, mongodb, the SQL *)
(* plugins, tee, nfprobe, sfprobe share the loop), composed with the core  *)
(* of CoreRing.  Loads from shared memory are steps of their own; memcpy() *)
(* of a slot takes two, header and payload.                                *)
(***************************************************************************)
EXTENDS CoreRing

CONSTANT PollTimeouts  \* poll() may return with no datagram (timeout, EINTR)

ASSUME ReaderAssumption == PollTimeouts \in BOOLEAN

VARIABLES
  rpc,        \* where the plugin is in its main loop
  rseq,       \* seq
  rslot,      \* rg->ptr as a slot number; NSlots: to be wrapped
  pollagain,
  errs,       \* rg_err_count
  pipebuf,    \* private copy of the slot
  accepted,   \* history: commit number of the last buffer taken
  overrun     \* history: the core reused a slot not yet copied

readerVars == <<rpc, rseq, rslot, pollagain, errs, pipebuf, accepted, overrun>>
vars == <<coreVars, readerVars>>

ReaderPCs == {"poll_again", "poll", "read_data", "check", "resync",
              "resyncSeq", "copyHdr", "copyData", "process", "exited"}

ReaderInit ==
  /\ rpc = "poll_again"
  /\ rseq = 1 /\ pollagain = TRUE
  /\ rslot = 0 /\ errs = 0
  /\ pipebuf = [num |-> 0, pid |-> 0, data |-> << >>, idx |-> 0]
  /\ accepted = 0 /\ overrun = FALSE

Init == CoreInit /\ ReaderInit

\* the ring position of the reader, wrapped
RingPos == IF rslot >= NSlots THEN 0 ELSE rslot

-----------------------------------------------------------------------------
\* mutant: the plugin goes to sleep without asking for a wakeup
PollAgain_Unarmed ==
  /\ rpc = "poll_again"
  /\ rpc' = "poll"
  /\ UNCHANGED <<coreVars, rseq, rslot, pollagain, errs, pipebuf, accepted,
                 overrun>>

\* status->wakeup = TRUE
PollAgain ==
  /\ rpc = "poll_again"
  /\ wakeup' = TRUE
  /\ rpc' = "poll"
  /\ UNCHANGED <<cpc, hdr, bufptr, wslot, redo, shutdown, ring, lastOff, pipe,
                 nrec, committed, rseq, rslot, pollagain, errs, pipebuf,
                 accepted, overrun>>

PollData ==
  /\ rpc = "poll" /\ pipe # << >>
  /\ rpc' = "read_data"
  /\ UNCHANGED <<coreVars, rseq, rslot, pollagain, errs, pipebuf, accepted,
     overrun>>

PollTimeout ==
  /\ rpc = "poll" /\ pipe = << >> /\ PollTimeouts
  /\ rpc' = "poll_again"
  /\ UNCHANGED <<coreVars, rseq, rslot, pollagain, errs, pipebuf, accepted,
     overrun>>

(***************************************************************************)
(* read_data: a plugin that did not sleep moves on to the next sequence    *)
(* number; one that did consumes the datagram that woke it.                *)
(***************************************************************************)
NextSeq ==
  /\ rpc = "read_data" /\ ~pollagain
  /\ rseq' = (rseq + 1) % MAX_SEQNUM
  /\ errs' = IF rseq' = 0 THEN 0 ELSE errs
  /\ rpc' = "check"
  /\ UNCHANGED <<coreVars, rslot, pollagain, pipebuf, accepted,
                 overrun>>

ReadPipe ==
  /\ rpc = "read_data" /\ pollagain
  /\ pipe' = IF pipe = << >> THEN pipe ELSE Tail(pipe)
  /\ rpc' = "check"
  /\ UNCHANGED <<cpc, hdr, bufptr, wslot, redo, shutdown, ring, lastOff,
                 wakeup, nrec, committed, rseq, rslot, pollagain, errs,
                 pipebuf, accepted, overrun>>

(***************************************************************************)
(* The sequence number of the slot against the expected one.               *)
(***************************************************************************)
\* mutant: a later sequence number will do
CheckSeq_AtLeast ==
  /\ rpc = "check"
  /\ rslot' = RingPos
  /\ \/ /\ ring[RingPos].seq >= rseq
        /\ accepted' = ring[RingPos].idx
        /\ rpc' = "copyHdr"
        /\ UNCHANGED <<pollagain, errs>>
     \/ /\ ring[RingPos].seq < rseq /\ ~pollagain
        /\ pollagain' = TRUE
        /\ rpc' = "poll_again"
        /\ UNCHANGED <<errs, accepted>>
     \/ /\ ring[RingPos].seq < rseq /\ pollagain
        /\ errs' = errs + 1
        /\ rpc' = "resync"
        /\ UNCHANGED <<pollagain, accepted>>
  /\ UNCHANGED <<coreVars, rseq, pipebuf, overrun>>

CheckSeq ==
  /\ rpc = "check"
  /\ rslot' = RingPos
  /\ \/ /\ ring[RingPos].seq = rseq
        /\ accepted' = ring[RingPos].idx
        /\ rpc' = "copyHdr"
        /\ UNCHANGED <<pollagain, errs>>
     \/ /\ ring[RingPos].seq # rseq /\ ~pollagain
        /\ pollagain' = TRUE
        /\ rpc' = "poll_again"
        /\ UNCHANGED <<errs, accepted>>
     \/ /\ ring[RingPos].seq # rseq /\ pollagain
        /\ errs' = errs + 1                     \* "Missing data detected"
        /\ rpc' = "resync"
        /\ UNCHANGED <<pollagain, accepted>>
  /\ UNCHANGED <<coreVars, rseq, pipebuf, overrun>>

\* rg->ptr = rg->base + status->last_buf_off
Resync ==
  /\ rpc = "resync"
  /\ rslot' = lastOff
  /\ rpc' = "resyncSeq"
  /\ UNCHANGED <<coreVars, rseq, pollagain, errs, pipebuf, accepted,
                 overrun>>

\* seq = slot's seq, whatever it is by now
ResyncSeq ==
  /\ rpc = "resyncSeq"
  /\ rseq' = ring[rslot].seq
  /\ accepted' = ring[rslot].idx
  /\ rpc' = "copyHdr"
  /\ UNCHANGED <<coreVars, rslot, pollagain, errs, pipebuf, overrun>>

CopyHdr ==
  /\ rpc = "copyHdr"
  /\ pollagain' = FALSE
  /\ pipebuf' = [pipebuf EXCEPT !.num = ring[rslot].num,
                                !.pid = ring[rslot].pid,
                                !.idx = ring[rslot].idx]
  /\ rpc' = "copyData"
  /\ UNCHANGED <<coreVars, rseq, rslot, errs, accepted, overrun>>

CopyData ==
  /\ rpc = "copyData"
  /\ pipebuf' = [pipebuf EXCEPT !.data = ring[rslot].data]
  /\ rslot' = rslot + 1
  /\ rpc' = "process"
  /\ UNCHANGED <<coreVars, rseq, pollagain, errs, accepted, overrun>>

(***************************************************************************)
(* The records of the private copy, if the sender's pid is the expected    *)
(* one; all of them are handed to insert_func.                             *)
(***************************************************************************)
Received(buf) ==
  IF CheckCorePid /\ buf.pid # CorePid THEN << >>
  ELSE Payload(buf.data, buf.num)

Process ==
  /\ rpc = "process"
  /\ pipebuf' = IF CheckCorePid /\ pipebuf.pid # CorePid THEN pipebuf
                ELSE [pipebuf EXCEPT !.num = 0]
  /\ rpc' = "read_data"
  /\ UNCHANGED <<coreVars, rseq, rslot, pollagain, errs, accepted, overrun>>

(***************************************************************************)
(* The core's signal arrives, at any point: the plugin's handler writes    *)
(* out what the plugin has put by and exits; it reads no more buffers.     *)
(***************************************************************************)
ReaderExit ==
  /\ cpc = "exited" /\ rpc # "exited"
  /\ rpc' = "exited"
  /\ UNCHANGED <<coreVars, rseq, rslot, pollagain, errs, pipebuf, accepted,
                 overrun>>

ReaderNext ==
  \/ PollAgain \/ PollData \/ PollTimeout \/ NextSeq \/ ReadPipe \/ CheckSeq
  \/ Resync \/ ResyncSeq \/ CopyHdr \/ CopyData \/ Process \/ ReaderExit

(***************************************************************************)
(* History: the core starts on a slot whose last commit the plugin has not *)
(* finished copying, or that the resync path has sent the plugin to.       *)
(***************************************************************************)
Unread(s) ==
  \/ ring[s].idx > accepted
  \/ rpc \in {"resyncSeq", "copyHdr", "copyData"} /\ rslot = s

CoreStep ==
  /\ CoreNext
  /\ overrun'
     = (overrun \/ (cpc = "protSeq" /\ cpc' = "protNum" /\ Unread(wslot')))
  /\ UNCHANGED <<rpc, rseq, rslot, pollagain, errs, pipebuf, accepted>>

Next == CoreStep \/ ReaderNext

Spec == Init /\ [][Next]_vars

(***************************************************************************)
(* The plugin is a process the operating system keeps scheduling, and the  *)
(* core finishes a commit it has begun.                                    *)
(***************************************************************************)
FairSpec == Spec /\ WF_vars(ReaderNext) /\ WF_vars(CoreStep /\ cpc # "fill")

TypeOK ==
  /\ CoreTypeOK
  /\ rpc \in ReaderPCs
  /\ rseq \in -1 .. MAX_SEQNUM - 1 /\ rslot \in 0 .. NSlots
  /\ pollagain \in BOOLEAN /\ errs \in Nat
  /\ pipebuf \in [num : Nat, pid : {0, CorePid}, data : Seq(Nat), idx : Nat]
  /\ accepted \in Nat /\ overrun \in BOOLEAN

(***************************************************************************)
(* Properties                                                              *)
(***************************************************************************)

\* No sleep without an alarm clock: a plugin blocked in poll() with an empty
\* doorbell socket has its wakeup flag raised, or the core is about to ring
\* (print_plugin.c poll_again against exec_plugins' test of status->wakeup).
SleepArmed ==
  rpc = "poll" /\ pipe = << >> => wakeup \/ cpc = "signal"

\* the plugin takes a buffer: by sequence number, or through the resync path
Takes == rpc # "copyHdr" /\ rpc' = "copyHdr"

\* The resync path (rg->ptr = last_buf_off) repeats little: it takes the plugin
\* back by one buffer at most, overrun or not, although last_buf_off trails the
\* sequence numbers and doorbells can be stale.
RewindsOneAtMost == [][Takes => accepted' >= accepted - 1]_vars

\* A plugin in step with the sequence (one whose last resync caught a slot under
\* protection, seq -1, expects 0 and is not) takes, by a matching sequence number,
\* the buffer that directly follows its previous one: a gap is only ever taken
\* through the resync path, overrun or not, unless the core is a whole common
\* multiple of NSlots and MAX_SEQNUM ahead, which no comparison of numbers can tell.
InStep == rseq = 0 => (accepted + 1) % MAX_SEQNUM = 0
Unseen(gap) == gap >= 0 /\ gap % NSlots = 0 /\ gap % MAX_SEQNUM = 0
MatchMeansNext ==
  [][Takes /\ rpc = "check" /\ InStep
    => Unseen(accepted' - (accepted + 1))]_vars

\* A buffer for which the core rang the doorbell is eventually reached by the
\* plugin, however the two race, unless the core overruns it first or tells it
\* to exit (two seconds after the last commit, signals.c).
SignalledIsRead ==
  \A k \in 1 .. MaxCommits :
    (cpc = "signal" /\ Len(committed) = k)
      ~> (accepted >= k \/ overrun \/ rpc = "exited")

\* What the plugin processes is one buffer as the core committed it, or nothing
\* at all.  The second is what exec_plugins' order of stores costs: seq, which the
\* plugin tests, is published before num, and a plugin that takes the slot in
\* between finds it empty.  What it never does is process a part of a buffer, or
\* records of two, unless the core overruns it.
WholeOrNothing ==
  rpc = "process" /\ ~overrun =>
    \/ Received(pipebuf) = << >>
    \/ accepted \in DOMAIN committed /\ Received(pipebuf) = committed[accepted]

\* Which buffer the plugin takes next, by sequence number or by resync, as the two
\* parts say: the next one, or at most one back.
TakesInOrder == RewindsOneAtMost /\ MatchMeansNext
=============================================================================

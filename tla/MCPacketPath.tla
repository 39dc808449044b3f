---------------------------- MODULE MCPacketPath ----------------------------
(* Instances of PacketPath for TLC. *)
EXTENDS PacketPath, TLC

MCHashFragment(k) == k % 2
MCHashFlow(key) == 0

Base == [src |-> 1, dst |-> 2, sport |-> 3, dport |-> 3, proto |-> "tcp",
         flags |-> {}, seq |-> 1]
Turned(h) == [h EXCEPT !.src = h.dst, !.dst = h.src, !.sport = h.dport, !.dport = h.sport]

MCHeader(k) == Base

Rest == [len |-> 1, extra |-> 0, payload |-> TRUE, reveals |-> 0,
         announces |-> NoPort]

\* a handshake with data in the second packet, a control connection of class 1 that
\* announces port 7 or one it cannot tell, the data connection, another conversation;
\* plain data comes in fragments
Syn     == [Base EXCEPT !.flags = {"SYN"}, !.seq = 0] @@ [Rest EXCEPT !.payload = FALSE]
SynAck  == [Turned(Base) EXCEPT !.flags = {"SYN", "ACK"}] @@ Rest
Control == Base @@ [Rest EXCEPT !.reveals = 1, !.announces = 7]
Blind   == [Control EXCEPT !.announces = 0]
Data    == [Base EXCEPT !.sport = 7] @@ Rest
Other   == [Base EXCEPT !.dst = 4, !.proto = "udp"] @@ Rest

MCPackets == {Syn, SynAck, Control, Blind, Data, Other}

\* bytes that complete the handshake, that do not, and that look like its end
MCFragBytes == {[seq |-> 1, flags |-> {}], [seq |-> 2, flags |-> {}],
                [seq |-> 2, flags |-> {"FIN"}]}
=============================================================================

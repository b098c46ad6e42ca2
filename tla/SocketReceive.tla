---------------------------- MODULE SocketReceive ----------------------------
(***************************************************************************)
(* The receive coroutine of a socket, co_receive_from_socket of            *)
(* src/src/net/socket_routine.cpp: it takes bytes from the socket into a   *)
(* buffer, cuts messages out of it, a header and a payload each, and moves *)
(* what is left to the beginning.                                          *)
(*                                                                         *)
(* Bytes are positions in the stream of one peer.  The buffer always holds *)
(* a contiguous piece of it: from at (data_beggins) up to recvd.  Where at *)
(* is not the start of a message the code reads payload bytes as a header, *)
(* and nothing is known of what it finds there.                            *)
(*                                                                         *)
(* Over TCP bytes arrive in pieces of any length.  The socket pair of a    *)
(* lobby is SOCK_SEQPACKET: each sendmsg arrives whole, and one recvmsg    *)
(* returns one of them.  The peer sends with send_message of the same      *)
(* file: a non-blocking TCP socket may take only the beginning of a        *)
(* message, and the rest is never sent.                                    *)
(***************************************************************************)
EXTENDS Integers, Sequences, FiniteSets

CONSTANTS
    Streams,     \* what a peer on a socket pair (TRUE) or over TCP (FALSE)
                 \* sends: payload size and whether with a socket
    HeaderSize,  \* sizeof(MessageHeader)
    BufferSize,  \* receive_buffer.size()
    MaxShort     \* bound: messages that are sent in part

ASSUME ReceiveAssumption ==
    /\ Streams \in [BOOLEAN -> Seq([size : Nat, socket : BOOLEAN])]
    /\ HeaderSize \in Nat \ {0}
    /\ BufferSize \in Nat
    /\ HeaderSize <= BufferSize
    /\ MaxShort \in Nat
    /\ \A i \in 1 .. Len(Streams[TRUE]) :
           HeaderSize + Streams[TRUE][i].size <= BufferSize
    /\ \A i \in 1 .. Len(Streams[FALSE]) : ~Streams[FALSE][i].socket

VARIABLES
    records,    \* whether the socket is one of a SOCK_SEQPACKET pair
    sent,       \* where in the stream each message ends that sendmsg has taken
    arrived,    \* kernel: bytes that have come in
    eof,        \* kernel: the peer has closed its end
    recvd,      \* bytes taken by recvmsg
    at,         \* data_beggins
    pc,         \* the point in the coroutine
    header,     \* payload_size of the header
    socket,     \* received_message.socket: the message it came with, or 0
    status,     \* socket_status_
    delivered,  \* the messages yielded: which one (0: none), which socket
    split       \* history: a header was forgotten

network == <<records, sent, arrived, eof>>
result == <<status, delivered, split>>
vars == <<network, recvd, at, pc, header, socket, result>>

Stream == Streams[records]
Indexes == 1 .. Len(Stream)

Size(i) == HeaderSize + Stream[i].size

\* Where message i starts in the stream of bytes sent, and how much of it was
\* taken.
Start(i) == IF i = 1 THEN 0 ELSE sent[i - 1]
Taken(i) == sent[i] - Start(i)
Shorts == {i \in DOMAIN sent : Taken(i) < Size(i)}

\* The bytes sent so far.
Total == Start(Len(sent) + 1)

\* The message that starts at a position, 0 if none does.
MessageAt(p) ==
    IF \E i \in DOMAIN sent : Start(i) = p
    THEN CHOOSE i \in DOMAIN sent : Start(i) = p
    ELSE 0

Init ==
    /\ records \in BOOLEAN
    /\ sent = <<>>
    /\ arrived = 0
    /\ eof = FALSE
    /\ recvd = 0
    /\ at = 0
    /\ pc = "receive"
    /\ header = 0
    /\ socket = 0
    /\ status = "ALIVE"
    /\ delivered = <<>>
    /\ split = FALSE

-----------------------------------------------------------------------------
(* The peer and the kernel                                                 *)

\* sendmsg takes the next message, or its beginning; whatever it returns,
\* send_message reports success.
send_message ==
    /\ ~eof
    /\ LET i == Len(sent) + 1
       IN  /\ i \in Indexes
           /\ \E n \in 1 .. Size(i) :
                  /\ n < Size(i) => ~records /\ Cardinality(Shorts) < MaxShort
                  /\ sent' = Append(sent, Total + n)
    /\ UNCHANGED <<records, arrived, eof, recvd, at, pc, header, socket, result>>

arrive ==
    /\ ~eof
    /\ \E n \in arrived + 1 .. Total :
           /\ records => \E i \in DOMAIN sent : Start(i) = arrived /\ sent[i] = n
           /\ arrived' = n
    /\ UNCHANGED <<records, sent, eof, recvd, at, pc, header, socket, result>>

peer_close ==
    /\ ~eof
    /\ eof' = TRUE
    /\ UNCHANGED <<records, sent, arrived, recvd, at, pc, header, socket,
                   result>>

-----------------------------------------------------------------------------
(* The coroutine                                                           *)

Buffered == recvd - at
Free == BufferSize - Buffered

\* n bytes are there and fit, and do not go past the end of a record.
CanRead(n) ==
    /\ recvd + n <= arrived
    /\ n <= Free
    /\ records => \A i \in DOMAIN sent : ~(recvd < Start(i) /\ Start(i) < recvd + n)

\* The messages whose sockets come with the next n bytes.
SocketsRead(n) ==
    {i \in DOMAIN sent : Stream[i].socket /\ recvd <= Start(i) /\ Start(i) < recvd + n}

process_control_message(n) ==
    IF SocketsRead(n) # {} THEN CHOOSE i \in SocketsRead(n) : TRUE ELSE socket

\* recvmsg returns as many bytes as it can.
receive ==
    /\ pc = "receive"
    /\ status = "ALIVE"
    /\ \E n \in 1 .. Free :
           /\ CanRead(n) /\ ~CanRead(n + 1)
           /\ recvd' = recvd + n
           /\ socket' = process_control_message(n)
    /\ pc' = "header"
    /\ UNCHANGED <<network, at, header, result>>

\* recvmsg returns 0: at the end of the stream, or for an empty buffer.
disconnected ==
    /\ pc = "receive"
    /\ status = "ALIVE"
    /\ Free = 0 \/ (eof /\ recvd = arrived)
    /\ status' = "CLOSED"
    /\ UNCHANGED <<network, recvd, at, pc, header, socket, delivered, split>>

\* Mutant: a header needs one byte more than it has.
HeaderComplete_late == Buffered > HeaderSize

\* The header is a local of the round, and NONE at its beginning and after
\* every message.
HeaderComplete == Buffered >= HeaderSize

\* What the bytes at a position say when they are read as a header.  Every
\* length that does not fit in the buffer is as good as BufferSize + 1.
HeaderValues(p) ==
    LET i == MessageAt(p)
    IN  IF i # 0 /\ Taken(i) >= HeaderSize THEN {Stream[i].size}
        ELSE 0 .. BufferSize + 1

process_message_header ==
    /\ pc = "header"
    /\ HeaderComplete
    /\ header' \in HeaderValues(at)
    /\ at' = at + HeaderSize
    /\ pc' = "payload"
    /\ UNCHANGED <<network, recvd, socket, result>>

PayloadComplete == Buffered >= header

Yielded ==
    LET i == MessageAt(at - HeaderSize)
    IN  IF i # 0 /\ Taken(i) = HeaderSize + header THEN i ELSE 0

\* co_yield of a complete message.  Moving from received_message leaves its
\* socket in place for the messages that follow in this round.
process_message_payload ==
    /\ pc = "payload"
    /\ PayloadComplete
    /\ delivered' = Append(delivered, [msg |-> Yielded, socket |-> socket])
    /\ at' = at + header
    /\ pc' = "header"
    /\ UNCHANGED <<network, recvd, header, socket, status, split>>

\* Mutant: one received_message serves all rounds.
move_leftover_same_message ==
    /\ pc = "header"
    /\ ~HeaderComplete
    /\ pc' = "receive"
    /\ UNCHANGED <<network, recvd, at, header, socket, result>>

\* Mutant: what is left of the round is dropped.
move_leftover_dropped ==
    /\ pc = "header"
    /\ ~HeaderComplete
    /\ at' = recvd
    /\ pc' = "receive"
    /\ socket' = 0
    /\ UNCHANGED <<network, recvd, header, result>>

\* The round ends before a header: what is left goes to the beginning of the
\* buffer, and the next round has a new received_message.
move_leftover ==
    /\ pc = "header"
    /\ ~HeaderComplete
    /\ pc' = "receive"
    /\ socket' = 0
    /\ UNCHANGED <<network, recvd, at, header, result>>

\* Mutant: the header is kept in the buffer with the incomplete payload.
move_leftover_payload_kept ==
    /\ pc = "payload"
    /\ ~PayloadComplete
    /\ at' = at - HeaderSize
    /\ pc' = "receive"
    /\ socket' = 0
    /\ UNCHANGED <<network, recvd, header, result>>

\* The round ends inside a payload: its header is consumed and forgotten.
move_leftover_payload ==
    /\ pc = "payload"
    /\ ~PayloadComplete
    /\ pc' = "receive"
    /\ socket' = 0
    /\ split' = TRUE
    /\ UNCHANGED <<network, recvd, at, header, status, delivered>>

Coroutine ==
    \/ receive \/ disconnected
    \/ process_message_header \/ process_message_payload
    \/ move_leftover \/ move_leftover_payload

Next == send_message \/ arrive \/ peer_close \/ Coroutine

\* The coroutine is resumed as long as there is something to read.
Spec == Init /\ [][Next]_vars /\ WF_vars(Coroutine)

-----------------------------------------------------------------------------
(* Properties                                                              *)

\* Message i and all before it were sent whole.
SentWhole(i) == i <= Len(sent) /\ \A j \in 1 .. i : Taken(j) = Size(j)

\* However the stream is cut by the network and by the buffer, the messages
\* come out whole and in order, until a round ends inside a payload
\* (socket_routine.cpp:222-239) or the peer has sent only a part of one
\* (socket_routine.cpp:325): what was sent before it is not touched.
FramesIntact ==
    ~split => \A k \in 1 .. Len(delivered) :
        SentWhole(k) => delivered[k].msg = k

\* A message is handed out with the descriptor it was sent with and with no
\* other: a client is never attached twice, and none is forgotten
\* (socket_routine.cpp:209-216).
SocketWithItsMessage ==
    records => \A k \in 1 .. Len(delivered) :
        /\ delivered[k].msg = k
        /\ delivered[k].socket = IF Stream[k].socket THEN k ELSE 0

\* A live peer is never taken for a closed one: recvmsg is never called with
\* an empty rest of the buffer, even when the framing is lost.
ClosedOnlyByPeer == status = "CLOSED" => eof

\* A message that has arrived whole, after others that were sent whole, is
\* handed out, unless a header was lost.
AllDelivered ==
    \A r \in BOOLEAN : \A i \in 1 .. Len(Streams[r]) :
        (records = r /\ SentWhole(i) /\ arrived >= sent[i]) ~>
            (Len(delivered) >= i \/ split)

=============================================================================

------------------------- MODULE SocketReceiveProofs -------------------------
(***************************************************************************)
(* For every stream, every size of the header and every buffer that holds  *)
(* a header, the receive coroutine never calls recvmsg with an empty rest  *)
(* of the buffer, so a live peer is never taken for a closed one.          *)
(*                                                                         *)
(* The argument: a round that leaves the loop before a header leaves less  *)
(* than a header in the buffer, and one that leaves it before a payload    *)
(* has consumed a header (RoomLeft).  Neither depends on what the bytes    *)
(* mean, so it holds when the framing is lost, too.                        *)
(***************************************************************************)
EXTENDS SocketReceive, SequenceTheorems, TLAPS

-----------------------------------------------------------------------------
(* A live peer is kept                                                     *)

\* The piece of the stream in the buffer.
BufferOK ==
    /\ records \in BOOLEAN
    /\ arrived \in Int /\ recvd \in Nat /\ at \in Nat /\ header \in Nat
    /\ at <= recvd
    /\ recvd - at <= BufferSize
    /\ pc \in {"receive", "header", "payload"}
    /\ status \in {"ALIVE", "CLOSED"}
    /\ sent \in Seq(Nat) /\ Len(sent) <= Len(Stream)

\* There is room for another byte whenever recvmsg is called.
RoomLeft ==
    /\ pc = "receive" => recvd - at < BufferSize
    /\ pc = "payload" => recvd - at <= BufferSize - HeaderSize

BufferInv == BufferOK /\ RoomLeft /\ ClosedOnlyByPeer

\* The messages of the stream.
LEMMA StreamTyped ==
    ASSUME records \in BOOLEAN
    PROVE  /\ Len(Stream) \in Nat /\ Indexes = 1 .. Len(Stream)
           /\ \A i \in Indexes :
                  /\ Stream[i] \in [size : Nat, socket : BOOLEAN]
                  /\ Stream[i].size \in Nat
                  /\ Size(i) \in Nat /\ Size(i) = HeaderSize + Stream[i].size
<1>1. Stream \in Seq([size : Nat, socket : BOOLEAN])
  BY ReceiveAssumption DEF Stream
<1>2. \A i \in 1 .. Len(Stream) : Stream[i] \in [size : Nat, socket : BOOLEAN]
  BY <1>1, ElementOfSeq
<1>3. \A i \in 1 .. Len(Stream) : Stream[i].size \in Nat
  BY <1>2
<1>4. \A i \in 1 .. Len(Stream) : Size(i) \in Nat
  BY <1>3, ReceiveAssumption DEF Size
<1> QED
  BY <1>1, <1>2, <1>3, <1>4 DEF Indexes, Size

\* A header read from anywhere gives a length.
LEMMA HeaderLength ==
    ASSUME NEW p \in Nat, records \in BOOLEAN,
           sent \in Seq(Nat), Len(sent) <= Len(Stream)
    PROVE  HeaderValues(p) \subseteq Nat
<1> DEFINE i == MessageAt(p)
<1>1. CASE i # 0 /\ Taken(i) >= HeaderSize
  <2>1. i \in DOMAIN sent
    BY <1>1 DEF MessageAt
  <2>2. i \in Indexes
    BY <2>1, StreamTyped
  <2>3. Stream[i].size \in Nat
    BY <2>2, StreamTyped
  <2>4. QED
    BY <1>1, <2>3 DEF HeaderValues
<1>2. CASE ~(i # 0 /\ Taken(i) >= HeaderSize)
  BY <1>2, ReceiveAssumption DEF HeaderValues
<1>3. QED
  BY <1>1, <1>2

\* The bytes sent so far are a number, and the next message ends behind them.
LEMMA SendTyped ==
    ASSUME records \in BOOLEAN, sent \in Seq(Nat), Len(sent) <= Len(Stream)
    PROVE  /\ Total \in Nat
           /\ send_message =>
                  /\ Len(sent) < Len(Stream)
                  /\ \E n \in 1 .. Size(Len(sent) + 1) :
                         /\ sent' = Append(sent, Total + n)
                         /\ Total + n \in Nat
                         /\ records => n = Size(Len(sent) + 1)
<1>1. Total \in Nat
  <2>1. CASE Len(sent) = 0
    BY <2>1 DEF Total, Start
  <2>2. CASE Len(sent) # 0
    <3>1. Total = sent[Len(sent)] /\ Len(sent) \in 1 .. Len(sent)
      BY <2>2 DEF Total, Start
    <3> QED
      BY <3>1, ElementOfSeq
  <2> QED
    BY <2>1, <2>2
<1>2. ASSUME send_message
      PROVE  /\ Len(sent) < Len(Stream)
             /\ \E n \in 1 .. Size(Len(sent) + 1) :
                    /\ sent' = Append(sent, Total + n)
                    /\ Total + n \in Nat
                    /\ records => n = Size(Len(sent) + 1)
  <2>1. Len(sent) + 1 \in Indexes /\ Size(Len(sent) + 1) \in Nat
    BY <1>2, StreamTyped DEF send_message
  <2>2. PICK n \in 1 .. Size(Len(sent) + 1) :
            /\ n < Size(Len(sent) + 1) => ~records
            /\ sent' = Append(sent, Total + n)
    BY <1>2 DEF send_message
  <2>3. n \in Nat /\ n <= Size(Len(sent) + 1) /\ Total + n \in Nat
    BY <1>1, <2>1
  <2>4. Len(sent) < Len(Stream)
    BY <2>1, StreamTyped
  <2>5. records => n = Size(Len(sent) + 1)
    BY <2>1, <2>2, <2>3
  <2> QED
    BY <2>2, <2>3, <2>4, <2>5
<1> QED
  BY <1>1, <1>2

\* Every step keeps the buffer inside its bounds.
LEMMA ReceiveStep == BufferInv /\ [Next]_vars => BufferInv'
<1> SUFFICES ASSUME BufferInv, [Next]_vars PROVE BufferInv'
  OBVIOUS
<1> USE ReceiveAssumption DEF BufferInv, BufferOK, RoomLeft, ClosedOnlyByPeer
<1>0. Stream' = Stream
  BY DEF Next, Coroutine, send_message, arrive, peer_close, receive, disconnected,
         process_message_header, process_message_payload, move_leftover,
         move_leftover_payload, vars, network, Stream
<1>1. CASE UNCHANGED vars
  BY <1>0, <1>1 DEF vars, network, result
<1>11. CASE send_message
  <2>1. PICK n : sent' = Append(sent, Total + n) /\ Total + n \in Nat
    BY <1>11, SendTyped
  <2>2. Len(sent) < Len(Stream)
    BY <1>11, SendTyped
  <2>3. sent' \in Seq(Nat) /\ Len(sent') = Len(sent) + 1
    BY <2>1
  <2>4. Stream' = Stream /\ Len(Stream) \in Nat
    BY <1>0, StreamTyped
  <2> QED
    BY <1>11, <2>2, <2>3, <2>4 DEF send_message, result
<1>2. CASE arrive
  BY <1>0, <1>2 DEF arrive, result
<1>3. CASE peer_close
  BY <1>0, <1>3 DEF peer_close, result
<1>4. CASE receive
  BY <1>0, <1>4 DEF receive, network, result, CanRead, Free, Buffered
<1>5. CASE disconnected
  BY <1>0, <1>5 DEF disconnected, network, Free, Buffered
<1>6. CASE process_message_header
  <2>1. header' \in Nat
    BY <1>6, HeaderLength DEF process_message_header
  <2>2. QED
    BY <1>0, <1>6, <2>1 DEF process_message_header, network, result, HeaderComplete, Buffered
<1>7. CASE process_message_payload
  BY <1>0, <1>7 DEF process_message_payload, network, PayloadComplete, Buffered
<1>8. CASE move_leftover
  BY <1>0, <1>8 DEF move_leftover, network, result, HeaderComplete, Buffered
<1>9. CASE move_leftover_payload
  BY <1>0, <1>9 DEF move_leftover_payload, network
<1>10. QED
  BY <1>1, <1>2, <1>3, <1>4, <1>5, <1>6, <1>7, <1>8, <1>9, <1>11
  DEF Next, Coroutine

\* The coroutine reports DISCONNECTED only for a peer that has closed its end.
THEOREM LivePeersKept == Spec => []ClosedOnlyByPeer
<1>1. Init => BufferInv
  BY ReceiveAssumption DEF Init, BufferInv, BufferOK, RoomLeft, ClosedOnlyByPeer
<1>2. BufferInv => ClosedOnlyByPeer
  BY DEF BufferInv
<1>3. QED
  BY <1>1, <1>2, ReceiveStep, PTL DEF Spec

-----------------------------------------------------------------------------
(* Frames                                                                  *)

\* The messages follow one another in the stream, and what was received is a
\* beginning of it.
StreamOK ==
    /\ \A i \in DOMAIN sent : 0 < sent[i] /\ Taken(i) <= Size(i)
    /\ \A i, j \in DOMAIN sent : i < j => sent[i] < sent[j]
    /\ recvd <= arrived /\ arrived <= Total
    /\ delivered \in Seq([msg : Nat, socket : Nat]) /\ socket \in Nat

\* The message that comes next.
Coming == Len(delivered) + 1

\* A message that was sent in part has been handed out as something.
Broken == \E j \in DOMAIN sent : j < Coming /\ Taken(j) # Size(j)

\* The coroutine is at the message that comes next, or behind its header.
OnTrack ==
    /\ SentWhole(Len(delivered))
    /\ pc # "payload" => at = Start(Coming)
    /\ pc = "payload" =>
           /\ Coming \in DOMAIN sent
           /\ at = Start(Coming) + HeaderSize
           /\ Taken(Coming) = Size(Coming) => header = Stream[Coming].size

Framing == ~split => Broken \/ OnTrack

SocketOf(k) == IF Stream[k].socket THEN k ELSE 0

\* The buffer holds the whole message that comes next, and its socket is known.
Held ==
    /\ Coming \in DOMAIN sent
    /\ recvd = sent[Coming]
    /\ socket = SocketOf(Coming)

\* On a socket pair the buffer holds one message or none.
OneRecord ==
    records =>
        /\ ~split
        /\ \A i \in DOMAIN sent : Taken(i) = Size(i)
        /\ arrived = 0 \/ \E i \in DOMAIN sent : arrived = sent[i]
        /\ pc = "receive" => recvd = at /\ socket = 0
        /\ pc = "header" => recvd = at \/ Held
        /\ pc = "payload" => Held

FrameInv ==
    /\ StreamOK
    /\ Framing /\ OneRecord
    /\ FramesIntact /\ SocketWithItsMessage

IInv == BufferInv /\ FrameInv

\* The messages lie in the stream one behind the other.
LEMMA StreamFacts ==
    ASSUME BufferInv, StreamOK
    PROVE  /\ Len(sent) \in Nat /\ DOMAIN sent = 1 .. Len(sent)
           /\ \A i \in 1 .. Len(sent) : i \in Indexes /\ sent[i] \in Nat /\ sent[i] <= Total
           /\ \A i \in 1 .. Len(sent) + 1 : Start(i) \in Nat
           /\ \A i \in 1 .. Len(sent) :
                  Start(i) < sent[i] /\ Start(i + 1) = sent[i] /\ sent[i] = Start(i) + Taken(i)
           /\ \A i, j \in 1 .. Len(sent) : i < j => sent[i] <= Start(j) /\ Start(i) < Start(j)
<1>0. records \in BOOLEAN /\ sent \in Seq(Nat) /\ Len(sent) <= Len(Stream)
  BY DEF BufferInv, BufferOK
<1>1. Len(sent) \in Nat /\ DOMAIN sent = 1 .. Len(sent)
  BY <1>0
<1>2. \A i \in 1 .. Len(sent) : sent[i] \in Nat
  BY <1>0, ElementOfSeq
<1>3. \A i \in 1 .. Len(sent) : i \in Indexes
  BY <1>0, <1>1, StreamTyped
<1>4. \A i, j \in 1 .. Len(sent) : i < j => sent[i] < sent[j]
  BY <1>1 DEF StreamOK
<1>5. \A i \in 1 .. Len(sent) : 0 < sent[i]
  BY <1>1 DEF StreamOK
<1>6. \A i \in 1 .. Len(sent) + 1 : i # 1 => i - 1 \in 1 .. Len(sent) /\ Start(i) = sent[i - 1]
  BY <1>1 DEF Start
<1>7. Start(1) = 0
  BY DEF Start
<1>8. \A i \in 1 .. Len(sent) + 1 : Start(i) \in Nat
  BY <1>2, <1>6, <1>7
<1>9. \A i \in 1 .. Len(sent) : sent[i] <= Total
  <2> TAKE i \in 1 .. Len(sent)
  <2>1. Len(sent) + 1 \in 1 .. Len(sent) + 1 /\ Len(sent) + 1 # 1 /\ (Len(sent) + 1) - 1 = Len(sent)
    BY <1>1
  <2>2. Total = sent[Len(sent)] /\ Len(sent) \in 1 .. Len(sent)
    BY <1>1, <1>6, <2>1 DEF Total
  <2>3. CASE i = Len(sent)
    BY <1>2, <2>2, <2>3
  <2>4. CASE i < Len(sent)
    BY <1>2, <1>4, <2>2, <2>4
  <2>5. i \in Nat /\ i <= Len(sent) /\ Len(sent) \in Nat
    BY <1>1
  <2>6. i = Len(sent) \/ i < Len(sent)
    BY ONLY <2>5
  <2> QED
    BY <2>3, <2>4, <2>6
<1>10. \A i \in 1 .. Len(sent) :
           Start(i) < sent[i] /\ Start(i + 1) = sent[i] /\ sent[i] = Start(i) + Taken(i)
  <2> TAKE i \in 1 .. Len(sent)
  <2>1. Start(i) < sent[i]
    <3>1. CASE i = 1
      BY <1>5, <1>7, <3>1
    <3>2. CASE i # 1
      <4>1. i - 1 \in 1 .. Len(sent) /\ Start(i) = sent[i - 1] /\ i - 1 < i
        BY <1>1, <1>6, <3>2
      <4> QED
        BY <1>4, <4>1
    <3> QED
      BY <3>1, <3>2
  <2>2. Start(i + 1) = sent[i]
    BY <1>1 DEF Start
  <2>3. sent[i] = Start(i) + Taken(i)
    BY <1>1, <1>2, <1>8 DEF Taken
  <2> QED
    BY <2>1, <2>2, <2>3
<1>11. \A i, j \in 1 .. Len(sent) : i < j => sent[i] <= Start(j) /\ Start(i) < Start(j)
  <2> TAKE i, j \in 1 .. Len(sent)
  <2> HAVE i < j
  <2>1. j # 1 /\ j - 1 \in 1 .. Len(sent) /\ Start(j) = sent[j - 1] /\ (i = j - 1 \/ i < j - 1)
    BY <1>1, <1>6
  <2>2. sent[i] <= sent[j - 1]
    BY <1>2, <1>4, <2>1
  <2>3. Start(i) < sent[i] /\ Start(i) \in Nat /\ sent[i] \in Nat /\ sent[j - 1] \in Nat
    BY <1>1, <1>2, <1>8, <1>10, <2>1
  <2> QED
    BY <2>1, <2>2, <2>3
<1> QED
  BY <1>1, <1>2, <1>3, <1>8, <1>9, <1>10, <1>11

\* Only one message starts at a place.
LEMMA MessageThere ==
    ASSUME BufferInv, StreamOK, NEW k \in 1 .. Len(sent)
    PROVE  MessageAt(Start(k)) = k
<1>1. /\ DOMAIN sent = 1 .. Len(sent) /\ Len(sent) \in Nat
      /\ \A i \in 1 .. Len(sent) : Start(i) \in Nat
      /\ \A i, j \in 1 .. Len(sent) : i < j => Start(i) < Start(j)
  BY StreamFacts
<1>2. \A i \in DOMAIN sent : Start(i) = Start(k) => i = k
  <2> TAKE i \in DOMAIN sent
  <2> HAVE Start(i) = Start(k)
  <2>1. i \in Nat /\ k \in Nat /\ i \in 1 .. Len(sent) /\ Start(i) \in Nat
    BY <1>1
  <2>2. ~(i < k) /\ ~(k < i)
    BY <1>1, <2>1
  <2> QED
    BY <2>1, <2>2
<1>3. k \in DOMAIN sent
  BY <1>1
<1> QED
  BY <1>2, <1>3 DEF MessageAt

\* What depends on the stream and on what was delivered alone.
LEMMA SameFrames ==
    ASSUME UNCHANGED <<records, sent, delivered>>
    PROVE  /\ Stream' = Stream /\ Coming' = Coming /\ Total' = Total
           /\ Broken' <=> Broken
           /\ \A i : /\ Start(i)' = Start(i) /\ Taken(i)' = Taken(i) /\ Size(i)' = Size(i)
                     /\ SentWhole(i)' <=> SentWhole(i)
                     /\ SocketOf(i)' = SocketOf(i)
           /\ SocketWithItsMessage' <=> SocketWithItsMessage
           /\ FramesIntact /\ (~split' => ~split) => FramesIntact'
<1>1. Stream' = Stream /\ Coming' = Coming
  BY DEF Stream, Coming
<1>2. \A i : Start(i)' = Start(i) /\ Taken(i)' = Taken(i) /\ Size(i)' = Size(i)
             /\ SocketOf(i)' = SocketOf(i)
  BY <1>1 DEF Start, Taken, Size, SocketOf
<1>3. \A i : SentWhole(i)' <=> SentWhole(i)
  BY <1>2 DEF SentWhole
<1>4. Total' = Total /\ (Broken' <=> Broken)
  BY <1>1, <1>2 DEF Total, Broken
<1>5. SocketWithItsMessage' <=> SocketWithItsMessage
  BY <1>1 DEF SocketWithItsMessage
<1>6. FramesIntact /\ (~split' => ~split) => FramesIntact'
  BY <1>3 DEF FramesIntact
<1> QED
  BY <1>1, <1>2, <1>3, <1>4, <1>5, <1>6

\* sendmsg takes another message: those before it stay where they are.
LEMMA SendFrames ==
    ASSUME BufferInv, StreamOK, send_message, NEW m \in Nat, m = Len(sent) + 1
    PROVE  /\ Len(sent') = m /\ DOMAIN sent' = 1 .. m
           /\ \A i \in 1 .. Len(sent) : sent'[i] = sent[i]
           /\ Start(m) = Total
           /\ \A i \in 1 .. m : Start(i)' = Start(i)
           /\ \A i \in 1 .. Len(sent) : Taken(i)' = Taken(i)
           /\ \A i : Size(i)' = Size(i)
           /\ Total' = sent'[m]
           /\ \E n \in 1 .. Size(m) :
                  /\ sent'[m] = Total + n
                  /\ Taken(m)' = n
                  /\ records => n = Size(m)
<1>1. PICK n \in 1 .. Size(m) :
          /\ sent' = Append(sent, Total + n) /\ Total + n \in Nat
          /\ records => n = Size(m)
  BY SendTyped DEF BufferInv, BufferOK
<1>2. sent \in Seq(Nat) /\ Len(sent) \in Nat /\ Total \in Nat
  BY SendTyped DEF BufferInv, BufferOK
<1>3. /\ Len(sent') = m /\ DOMAIN sent' = 1 .. m
      /\ sent'[m] = Total + n
      /\ \A i \in 1 .. Len(sent) : sent'[i] = sent[i]
  BY <1>1, <1>2
<1>4. Start(m) = Total
  BY DEF Total
<1>5. \A i \in 1 .. m : Start(i)' = Start(i)
  <2> TAKE i \in 1 .. m
  <2>1. CASE i = 1
    BY <2>1 DEF Start
  <2>2. CASE i # 1
    <3>1. i - 1 \in 1 .. Len(sent)
      BY <1>2, <2>2
    <3> QED
      BY <1>3, <2>2, <3>1 DEF Start
  <2> QED
    BY <2>1, <2>2
<1>6. \A i \in 1 .. Len(sent) : Taken(i)' = Taken(i)
  <2> TAKE i \in 1 .. Len(sent)
  <2>1. Start(i)' = Start(i) /\ sent'[i] = sent[i]
    BY <1>2, <1>3, <1>5
  <2> QED
    BY <2>1 DEF Taken
<1>7. \A i : Size(i)' = Size(i)
  BY DEF Size, Stream, send_message
<1>8. Total' = sent'[m]
  <2>1. Len(sent') + 1 # 1 /\ (Len(sent') + 1) - 1 = m
    BY <1>2, <1>3
  <2> QED
    BY <2>1 DEF Total, Start
<1>9. Taken(m)' = n
  <2>1. Size(m) \in Nat
    <3>1. m \in Indexes
      BY DEF send_message
    <3> QED
      BY <3>1, StreamTyped DEF BufferInv, BufferOK
  <2>2. n \in Nat
    BY <2>1
  <2>3. Start(m)' = Total
    BY <1>2, <1>4, <1>5
  <2>4. Taken(m)' = (Total + n) - Total
    BY <1>3, <2>3 DEF Taken
  <2> QED
    BY <1>2, <2>2, <2>4
<1> QED
  BY <1>1, <1>3, <1>4, <1>5, <1>6, <1>7, <1>8, <1>9

\* How many messages were handed out.
LEMMA ComingTyped ==
    ASSUME StreamOK
    PROVE  Len(delivered) \in Nat /\ Coming \in Nat /\ Coming = Len(delivered) + 1
BY DEF StreamOK, Coming

\* sendmsg does not disturb what the coroutine is doing.
LEMMA SendStep ==
    ASSUME IInv, send_message
    PROVE  FrameInv'
<1> DEFINE d == Len(delivered)
           l == Len(sent)
<1>0. BufferInv /\ StreamOK /\ Framing /\ OneRecord /\ FramesIntact /\ SocketWithItsMessage
  BY DEF IInv, FrameInv
<1>1. /\ UNCHANGED <<records, arrived, eof, recvd, at, pc, header, socket, split, delivered>>
      /\ Stream' = Stream /\ Coming' = Coming
  BY DEF send_message, result, Stream, Coming
<1>2. l \in Nat /\ DOMAIN sent = 1 .. l
  BY <1>0, StreamFacts
<1>3. PICK m \in Nat : m = l + 1
  BY <1>2
<1>4. /\ Len(sent') = m /\ DOMAIN sent' = 1 .. m
      /\ \A i \in 1 .. l : sent'[i] = sent[i]
      /\ \A i \in 1 .. m : Start(i)' = Start(i)
      /\ \A i \in 1 .. l : Taken(i)' = Taken(i)
      /\ \A i : Size(i)' = Size(i)
      /\ Total' = sent'[m]
  BY <1>0, <1>3, SendFrames
<1>5. PICK n \in 1 .. Size(m) :
          sent'[m] = Total + n /\ Taken(m)' = n /\ (records => n = Size(m))
  BY <1>0, <1>3, SendFrames
<1>6. /\ \A i \in 1 .. l : sent[i] \in Nat /\ sent[i] <= Total
      /\ Total \in Nat /\ Size(m) \in Nat /\ n \in Nat /\ 0 < n /\ n <= Size(m)
  <2>1. \A i \in 1 .. l : sent[i] \in Nat /\ sent[i] <= Total
    BY <1>0, StreamFacts
  <2>2. Total \in Nat
    BY <1>0, SendTyped DEF BufferInv, BufferOK
  <2>3. m \in Indexes
    BY <1>3 DEF send_message
  <2>4. Size(m) \in Nat
    BY <1>0, <2>3, StreamTyped DEF BufferInv, BufferOK
  <2> QED
    BY <1>5, <2>1, <2>2, <2>4
<1>7. d \in Nat /\ Coming = d + 1
  BY <1>0, ComingTyped
<1> HIDE DEF d, l
<1>8. \A i \in 1 .. m : i \in 1 .. l \/ i = m
  BY <1>2, <1>3
<1>9. StreamOK'
  <2>1. \A i \in 1 .. m : 0 < sent'[i] /\ Taken(i)' <= Size(i)
    <3>1. \A i \in 1 .. l : 0 < sent[i] /\ Taken(i) <= Size(i)
      BY <1>0, <1>2 DEF StreamOK
    <3>2. 0 < sent'[m] /\ Taken(m)' <= Size(m)
      BY <1>5, <1>6
    <3> QED
      BY <1>4, <1>8, <3>1, <3>2
  <2>2. \A i, j \in 1 .. m : i < j => sent'[i] < sent'[j]
    <3> TAKE i, j \in 1 .. m
    <3> HAVE i < j
    <3>1. i \in 1 .. l
      BY <1>2, <1>3
    <3>2. CASE j \in 1 .. l
      BY <1>0, <1>2, <1>4, <3>1, <3>2 DEF StreamOK
    <3>3. CASE j = m
      <4>1. sent'[i] = sent[i] /\ sent[i] \in Nat /\ sent[i] <= Total
        BY <1>4, <1>6, <3>1
      <4> QED
        BY <1>5, <1>6, <3>3, <4>1
    <3> QED
      BY <1>8, <3>2, <3>3
  <2>3. arrived \in Int /\ recvd \in Nat /\ recvd <= arrived /\ arrived <= Total
    BY <1>0 DEF StreamOK, BufferInv, BufferOK
  <2>4. recvd <= arrived /\ arrived <= Total'
    BY <1>4, <1>5, <1>6, <2>3
  <2> QED
    BY <1>0, <1>1, <1>4, <2>1, <2>2, <2>4 DEF StreamOK
<1>10. Framing'
  <2> SUFFICES ASSUME ~split
               PROVE  Broken' \/ OnTrack'
    BY <1>1 DEF Framing
  <2>1. CASE Broken
    <3>1. PICK j \in 1 .. l : j < Coming /\ Taken(j) # Size(j)
      BY <1>2, <2>1 DEF Broken
    <3>2. j \in 1 .. m /\ Taken(j)' # Size(j)'
      BY <1>2, <1>3, <1>4, <3>1
    <3> QED
      BY <1>1, <1>4, <3>1, <3>2 DEF Broken
  <2>2. CASE OnTrack
    <3>1. d <= l /\ \A j \in 1 .. d : Taken(j) = Size(j)
      BY <2>2 DEF OnTrack, SentWhole, d, l
    <3>2. \A j \in 1 .. d : j \in 1 .. l
      BY <1>2, <1>7, <3>1
    <3>3. SentWhole(d)'
      <4>1. d <= m /\ \A j \in 1 .. d : Taken(j)' = Size(j)'
        BY <1>2, <1>3, <1>4, <1>7, <3>1, <3>2
      <4> QED
        BY <1>1, <1>4, <4>1 DEF SentWhole, d
    <3>4. Start(Coming)' = Start(Coming)
      <4>1. Coming \in 1 .. m
        BY <1>2, <1>3, <1>7, <3>1
      <4> QED
        BY <1>1, <1>4, <4>1 DEF Start
    <3>5. ASSUME pc = "payload"
          PROVE  /\ Coming' \in DOMAIN sent' /\ at = Start(Coming) + HeaderSize
                 /\ Taken(Coming)' = Size(Coming)' => header = Stream[Coming].size
      <4>1. Coming \in 1 .. l
        BY <1>2, <2>2, <3>5 DEF OnTrack
      <4>2. Taken(Coming)' = Taken(Coming) /\ Size(Coming)' = Size(Coming)
        <5>1. sent'[Coming] = sent[Coming]
          BY <1>4, <4>1
        <5> QED
          BY <1>1, <3>4, <5>1 DEF Taken, Size
      <4>3. Coming \in 1 .. m
        BY <1>2, <1>3, <4>1
      <4> QED
        BY <1>1, <1>4, <2>2, <3>5, <4>2, <4>3 DEF OnTrack
    <3> QED
      BY <1>1, <2>2, <3>3, <3>4, <3>5 DEF OnTrack, d
  <2> QED
    BY <1>0, <2>1, <2>2 DEF Framing
<1>11. OneRecord'
  <2> SUFFICES ASSUME records
               PROVE  /\ ~split
                      /\ \A i \in 1 .. m : Taken(i)' = Size(i)'
                      /\ arrived = 0 \/ \E i \in 1 .. m : arrived = sent'[i]
                      /\ pc = "receive" => recvd = at /\ socket = 0
                      /\ pc = "header" => recvd = at \/ Held'
                      /\ pc = "payload" => Held'
    BY <1>1, <1>4 DEF OneRecord
  <2>1. Held => Held'
    <3> HAVE Held
    <3>1. Coming \in 1 .. l /\ recvd = sent[Coming] /\ socket = SocketOf(Coming)
      BY <1>2 DEF Held
    <3>2. Coming \in 1 .. m /\ sent'[Coming] = sent[Coming]
      BY <1>2, <1>3, <1>4, <3>1
    <3>3. SocketOf(Coming)' = SocketOf(Coming)
      BY <1>1 DEF SocketOf
    <3> QED
      BY <1>1, <1>4, <3>1, <3>2, <3>3 DEF Held
  <2>2. \A i \in 1 .. m : Taken(i)' = Size(i)'
    BY <1>0, <1>2, <1>4, <1>5, <1>8 DEF OneRecord
  <2>3. arrived = 0 \/ \E i \in 1 .. m : arrived = sent'[i]
    <3>1. \A i \in 1 .. l : i \in 1 .. m /\ sent'[i] = sent[i]
      BY <1>2, <1>3, <1>4
    <3> QED
      BY <1>0, <1>2, <3>1 DEF OneRecord
  <2> QED
    BY <1>0, <2>1, <2>2, <2>3 DEF OneRecord
<1>12. FramesIntact'
  <2> SUFFICES ASSUME ~split, NEW k \in 1 .. d, SentWhole(k)'
               PROVE  delivered[k].msg = k
    BY <1>1 DEF FramesIntact, d
  <2>1. k <= m /\ k \in Nat /\ k <= d /\ \A j \in 1 .. k : Taken(j)' = Size(j)
    BY <1>4, <1>7 DEF SentWhole
  <2>2. CASE k <= l
    <3>1. \A j \in 1 .. k : j \in 1 .. l
      BY <1>2, <2>1, <2>2
    <3>2. SentWhole(k)
      BY <1>4, <2>1, <2>2, <3>1 DEF SentWhole, l
    <3> QED
      BY <1>0, <3>2 DEF FramesIntact, d
  <2>3. CASE k = m
    <3>1. ~SentWhole(d)
      BY <1>2, <1>3, <1>7, <2>1, <2>3 DEF SentWhole, l
    <3>2. Broken
      BY <1>0, <3>1 DEF Framing, OnTrack, d
    <3>3. PICK j \in 1 .. l : Taken(j) # Size(j)
      BY <1>2, <3>2 DEF Broken
    <3>4. j \in 1 .. k
      BY <1>2, <1>3, <2>3, <3>3
    <3> QED
      BY <1>4, <2>1, <3>3, <3>4
  <2> QED
    BY <1>2, <1>3, <2>1, <2>2, <2>3
<1>13. SocketWithItsMessage'
  BY <1>0, <1>1 DEF SocketWithItsMessage
<1> QED
  BY <1>9, <1>10, <1>11, <1>12, <1>13 DEF FrameInv

\* More bytes come in; on a socket pair, one whole message.
LEMMA ArriveStep ==
    ASSUME IInv, arrive
    PROVE  FrameInv'
<1>0. BufferInv /\ StreamOK /\ Framing /\ OneRecord /\ FramesIntact /\ SocketWithItsMessage
  BY DEF IInv, FrameInv
<1>1. UNCHANGED <<records, sent, recvd, at, pc, header, socket, split, delivered>>
  BY DEF arrive, result
<1>2. PICK n \in arrived + 1 .. Total :
          /\ arrived' = n
          /\ records => \E i \in DOMAIN sent : sent[i] = n
  BY DEF arrive
<1>3. arrived \in Int /\ recvd \in Nat /\ Total \in Nat
  BY <1>0, SendTyped DEF BufferInv, BufferOK
<1>4. recvd' <= arrived' /\ arrived' <= Total'
  <2>1. recvd <= n /\ n <= Total
    BY <1>0, <1>2, <1>3 DEF StreamOK
  <2> QED
    BY <1>1, <1>2, <2>1, SameFrames
<1>5. StreamOK'
  BY <1>0, <1>1, <1>4, SameFrames DEF StreamOK
<1>6. Framing'
  BY <1>0, <1>1, SameFrames DEF Framing, OnTrack, Start, Taken, Size
<1>7. OneRecord'
  <2>1. Held' <=> Held
    BY <1>1, SameFrames DEF Held, SocketOf
  <2> QED
    BY <1>0, <1>1, <1>2, <2>1, SameFrames DEF OneRecord
<1> QED
  BY <1>0, <1>1, <1>5, <1>6, <1>7, SameFrames DEF FrameInv

\* The end of the stream, at the peer and in the coroutine.
LEMMA CloseStep ==
    ASSUME IInv, peer_close \/ disconnected \/ UNCHANGED vars
    PROVE  FrameInv'
<1>0. BufferInv /\ StreamOK /\ Framing /\ OneRecord /\ FramesIntact /\ SocketWithItsMessage
  BY DEF IInv, FrameInv
<1>1. UNCHANGED <<records, sent, arrived, recvd, at, pc, header, socket, split, delivered>>
  BY DEF peer_close, disconnected, vars, network, result
<1>2. StreamOK'
  BY <1>0, <1>1, SameFrames DEF StreamOK
<1>3. Framing'
  BY <1>0, <1>1, SameFrames DEF Framing, OnTrack, Start, Taken, Size
<1>4. OneRecord'
  <2>1. Held' <=> Held
    BY <1>1, SameFrames DEF Held, SocketOf
  <2> QED
    BY <1>0, <1>1, <2>1, SameFrames DEF OneRecord
<1> QED
  BY <1>0, <1>1, <1>2, <1>3, <1>4, SameFrames DEF FrameInv

\* A round that ends before a header.
LEMMA LeftoverStep ==
    ASSUME IInv, move_leftover
    PROVE  FrameInv'
<1>0. BufferInv /\ StreamOK /\ Framing /\ OneRecord /\ FramesIntact /\ SocketWithItsMessage
  BY DEF IInv, FrameInv
<1>1. /\ UNCHANGED <<records, sent, arrived, recvd, at, header, split, delivered>>
      /\ pc = "header" /\ pc' = "receive" /\ socket' = 0
      /\ recvd - at < HeaderSize
  <2>1. recvd \in Nat /\ at \in Nat /\ HeaderSize \in Nat
    BY <1>0, ReceiveAssumption DEF BufferInv, BufferOK
  <2> QED
    BY <2>1 DEF move_leftover, network, result, HeaderComplete, Buffered
<1>2. StreamOK'
  BY <1>0, <1>1, SameFrames DEF StreamOK
<1>3. Framing'
  BY <1>0, <1>1, SameFrames DEF Framing, OnTrack, Start
<1>4. OneRecord'
  <2> SUFFICES ASSUME records
               PROVE  recvd = at
    BY <1>0, <1>1, SameFrames DEF OneRecord
  <2> SUFFICES ASSUME Held
               PROVE  FALSE
    BY <1>0, <1>1 DEF OneRecord
  <2>1. ~split /\ Taken(Coming) = Size(Coming)
    BY <1>0 DEF OneRecord, Held
  <2>2. ~Broken
    BY <1>0 DEF OneRecord, Broken
  <2>3. at = Start(Coming) /\ recvd = sent[Coming] /\ Coming \in DOMAIN sent
    BY <1>0, <1>1, <2>1, <2>2 DEF Framing, OnTrack, Held
  <2>4. /\ sent[Coming] = Start(Coming) + Size(Coming) /\ Start(Coming) \in Nat
        /\ Coming \in Indexes
    <3>1. DOMAIN sent = 1 .. Len(sent) /\ Len(sent) \in Nat
      BY <1>0, StreamFacts
    <3>2. Coming \in 1 .. Len(sent) /\ Coming \in 1 .. Len(sent) + 1
      BY <2>3, <3>1
    <3> QED
      BY <1>0, <2>1, <3>2, StreamFacts
  <2>5. Size(Coming) = HeaderSize + Stream[Coming].size /\ Stream[Coming].size \in Nat
    BY <1>0, <2>4, StreamTyped DEF BufferInv, BufferOK
  <2> QED
    BY <1>1, <2>3, <2>4, <2>5, ReceiveAssumption
<1> QED
  BY <1>0, <1>1, <1>2, <1>3, <1>4, SameFrames DEF FrameInv

\* A round that ends inside a payload: on a socket pair this does not happen.
LEMMA SplitStep ==
    ASSUME IInv, move_leftover_payload
    PROVE  FrameInv'
<1>0. BufferInv /\ StreamOK /\ Framing /\ OneRecord /\ FramesIntact /\ SocketWithItsMessage
  BY DEF IInv, FrameInv
<1>1. /\ UNCHANGED <<records, sent, arrived, recvd, at, header, delivered>>
      /\ pc = "payload" /\ pc' = "receive" /\ socket' = 0 /\ split' = TRUE
      /\ recvd - at < header
  <2>1. recvd \in Nat /\ at \in Nat /\ header \in Nat
    BY <1>0 DEF BufferInv, BufferOK
  <2> QED
    BY <2>1 DEF move_leftover_payload, network, PayloadComplete, Buffered
<1>2. ~records
  <2> SUFFICES ASSUME records
               PROVE  FALSE
    OBVIOUS
  <2>1. ~split /\ Held
    BY <1>0, <1>1 DEF OneRecord
  <2>2. Taken(Coming) = Size(Coming) /\ ~Broken
    BY <1>0, <2>1 DEF OneRecord, Held, Broken
  <2>3. /\ at = Start(Coming) + HeaderSize /\ recvd = sent[Coming] /\ Coming \in DOMAIN sent
        /\ header = Stream[Coming].size
    BY <1>0, <1>1, <2>1, <2>2 DEF Framing, OnTrack, Held
  <2>4. /\ sent[Coming] = Start(Coming) + Size(Coming) /\ Start(Coming) \in Nat
        /\ Coming \in Indexes
    <3>1. DOMAIN sent = 1 .. Len(sent) /\ Len(sent) \in Nat
      BY <1>0, StreamFacts
    <3>2. Coming \in 1 .. Len(sent) /\ Coming \in 1 .. Len(sent) + 1
      BY <2>3, <3>1
    <3> QED
      BY <1>0, <2>2, <3>2, StreamFacts
  <2>5. Size(Coming) = HeaderSize + Stream[Coming].size /\ Stream[Coming].size \in Nat
    BY <1>0, <2>4, StreamTyped DEF BufferInv, BufferOK
  <2> QED
    BY <1>1, <2>3, <2>4, <2>5, ReceiveAssumption
<1>3. StreamOK'
  BY <1>0, <1>1, SameFrames DEF StreamOK
<1>4. Framing' /\ OneRecord' /\ FramesIntact'
  BY <1>1, <1>2 DEF Framing, OneRecord, FramesIntact
<1> QED
  BY <1>0, <1>1, <1>3, <1>4, SameFrames DEF FrameInv

\* A header is read at the beginning of the message that comes next.
LEMMA HeaderStep ==
    ASSUME IInv, process_message_header
    PROVE  FrameInv'
<1>0. BufferInv /\ StreamOK /\ Framing /\ OneRecord /\ FramesIntact /\ SocketWithItsMessage
  BY DEF IInv, FrameInv
<1>1. /\ UNCHANGED <<records, sent, arrived, recvd, socket, split, delivered>>
      /\ pc = "header" /\ pc' = "payload" /\ at' = at + HeaderSize
      /\ header' \in HeaderValues(at)
      /\ HeaderSize <= recvd - at
  <2>1. recvd \in Nat /\ at \in Nat /\ HeaderSize \in Nat
    BY <1>0, ReceiveAssumption DEF BufferInv, BufferOK
  <2> QED
    BY <2>1 DEF process_message_header, network, result, HeaderComplete, Buffered
<1>2. /\ DOMAIN sent = 1 .. Len(sent) /\ Len(sent) \in Nat
      /\ \A i \in 1 .. Len(sent) + 1 : Start(i) \in Nat
      /\ Len(delivered) \in Nat /\ Coming = Len(delivered) + 1
  BY <1>0, StreamFacts, ComingTyped
<1>3. StreamOK'
  BY <1>0, <1>1, SameFrames DEF StreamOK
<1>4. OnTrack => Coming \in 1 .. Len(sent)
  <2> HAVE OnTrack
  <2>1. at = Start(Coming) /\ Len(delivered) <= Len(sent)
    BY <1>1 DEF OnTrack, SentWhole
  <2>2. Coming # Len(sent) + 1
    <3> SUFFICES ASSUME Coming = Len(sent) + 1
                 PROVE  FALSE
      OBVIOUS
    <3>1. at = Total
      BY <2>1 DEF Total
    <3>2. /\ recvd \in Nat /\ at \in Nat /\ arrived \in Int /\ recvd <= arrived
          /\ arrived <= at
      BY <1>0, <3>1 DEF StreamOK, BufferInv, BufferOK
    <3> QED
      BY <1>1, <3>2, ReceiveAssumption
  <2> QED
    BY <1>2, <2>1, <2>2
<1>5. Framing'
  <2> SUFFICES ASSUME ~split, OnTrack
               PROVE  OnTrack'
    BY <1>0, <1>1, SameFrames DEF Framing
  <2>1. Coming \in 1 .. Len(sent) /\ Coming \in Indexes
    BY <1>0, <1>4, StreamFacts
  <2>2. at = Start(Coming)
    BY <1>1 DEF OnTrack
  <2>3. MessageAt(at) = Coming
    BY <1>0, <2>1, <2>2, MessageThere
  <2>4. Taken(Coming) = Size(Coming) => header' = Stream[Coming].size
    <3> HAVE Taken(Coming) = Size(Coming)
    <3>1. /\ Size(Coming) = HeaderSize + Stream[Coming].size /\ Stream[Coming].size \in Nat
          /\ Coming # 0
      BY <1>0, <1>2, <2>1, StreamTyped DEF BufferInv, BufferOK
    <3>2. Taken(Coming) >= HeaderSize
      BY <3>1, ReceiveAssumption
    <3> QED
      BY <1>1, <2>3, <3>1, <3>2 DEF HeaderValues
  <2>5. /\ SentWhole(Len(delivered))' /\ Coming' = Coming /\ Stream' = Stream
        /\ Start(Coming)' = Start(Coming)
        /\ Taken(Coming)' = Taken(Coming) /\ Size(Coming)' = Size(Coming)
    BY <1>1, SameFrames DEF OnTrack, SentWhole, Start, Taken, Size
  <2> QED
    BY <1>1, <1>2, <2>1, <2>2, <2>4, <2>5 DEF OnTrack
<1>6. OneRecord'
  <2> SUFFICES ASSUME records
               PROVE  Held'
    BY <1>0, <1>1, SameFrames DEF OneRecord
  <2>1. recvd # at
    <3>1. recvd \in Nat /\ at \in Nat
      BY <1>0 DEF BufferInv, BufferOK
    <3> QED
      BY <1>1, <3>1, ReceiveAssumption
  <2>2. Held
    BY <1>0, <1>1, <2>1 DEF OneRecord
  <2> QED
    BY <1>1, <2>2, SameFrames DEF Held, SocketOf
<1> QED
  BY <1>0, <1>1, <1>3, <1>5, <1>6, SameFrames DEF FrameInv

\* recvmsg on a socket pair returns the message that comes next, the whole of
\* it and nothing more.
LEMMA RecordRead ==
    ASSUME IInv, records, pc = "receive", NEW n \in 1 .. Free,
           CanRead(n), ~CanRead(n + 1)
    PROVE  /\ Coming \in DOMAIN sent
           /\ recvd + n = sent[Coming]
           /\ process_control_message(n) = SocketOf(Coming)
<1> DEFINE c == Coming
           l == Len(sent)
<1>0. BufferInv /\ StreamOK /\ Framing /\ OneRecord
  BY DEF IInv, FrameInv
<1>1. /\ records = TRUE /\ recvd \in Nat /\ at \in Nat /\ arrived \in Int
      /\ recvd <= arrived /\ arrived <= Total
      /\ recvd = at /\ socket = 0 /\ ~split
      /\ arrived = 0 \/ \E i \in DOMAIN sent : arrived = sent[i]
  BY <1>0 DEF BufferInv, BufferOK, StreamOK, OneRecord
<1>2. /\ DOMAIN sent = 1 .. l /\ l \in Nat
      /\ \A i \in 1 .. l : i \in Indexes /\ sent[i] \in Nat
      /\ \A i \in 1 .. l + 1 : Start(i) \in Nat
      /\ \A i \in 1 .. l : Start(i) < sent[i] /\ Start(i + 1) = sent[i]
      /\ \A i, j \in 1 .. l : i < j => sent[i] <= Start(j) /\ Start(i) < Start(j)
  BY <1>0, StreamFacts
<1>3. Len(delivered) \in Nat /\ c = Len(delivered) + 1
  BY <1>0, ComingTyped
<1>4. ~Broken
  BY <1>0 DEF OneRecord, Broken
<1>5. OnTrack
  BY <1>0, <1>1, <1>4 DEF Framing
<1>6. recvd = Start(c) /\ Len(delivered) <= l
  BY <1>1, <1>5 DEF OnTrack, SentWhole
<1>7. n \in Nat /\ 0 < n /\ n <= Free /\ Free = BufferSize /\ recvd + n <= arrived
  BY <1>1, ReceiveAssumption DEF Free, Buffered, CanRead
<1>8. c \in 1 .. l
  <2>1. c # l + 1
    <3> SUFFICES ASSUME c = l + 1
                 PROVE  FALSE
      OBVIOUS
    <3>1. recvd = Total
      BY <1>6 DEF Total
    <3> QED
      BY <1>1, <1>7, <3>1
  <2> QED
    BY <1>2, <1>3, <1>6, <2>1
<1>9. /\ Start(c) \in Nat /\ sent[c] \in Nat /\ Start(c) < sent[c]
      /\ c \in Indexes
  BY <1>2, <1>6, <1>8
<1>10. Size(c) \in Nat /\ sent[c] = Start(c) + Size(c) /\ Size(c) <= BufferSize
  <2>1. sent[c] = Start(c) + Taken(c) /\ Taken(c) = Size(c)
    BY <1>0, <1>2, <1>8, StreamFacts DEF OneRecord
  <2>2. Size(c) \in Nat
    BY <1>0, <1>9, StreamTyped DEF BufferInv, BufferOK
  <2>3. Size(c) <= BufferSize
    BY <1>1, <1>9, ReceiveAssumption DEF Size, Stream, Indexes
  <2> QED
    BY <2>1, <2>2, <2>3
<1> HIDE DEF c, l
<1>11. recvd + n <= sent[c]
  <2>1. CASE c = l
    <3>1. sent[c] = Total
      BY <1>2, <1>8, <2>1 DEF Total, l
    <3> QED
      BY <1>1, <1>7, <1>9, <3>1
  <2>2. CASE c # l
    <3>1. c + 1 \in 1 .. l /\ Start(c + 1) = sent[c]
      BY <1>2, <1>8, <2>2
    <3>2. ~(recvd < Start(c + 1) /\ Start(c + 1) < recvd + n)
      BY <1>2, <3>1 DEF CanRead
    <3> QED
      BY <1>1, <1>6, <1>7, <1>9, <3>1, <3>2
  <2> QED
    BY <2>1, <2>2
<1>12. sent[c] <= recvd + n
  <2>1. \/ ~(recvd + (n + 1) <= arrived)
        \/ ~(n + 1 <= Free)
        \/ \E i \in 1 .. l : recvd < Start(i) /\ Start(i) < recvd + (n + 1)
    BY <1>2 DEF CanRead
  <2>2. CASE ~(recvd + (n + 1) <= arrived)
    <3>1. arrived = recvd + n /\ arrived # 0
      BY <1>1, <1>7, <2>2
    <3>2. PICK i \in 1 .. l : arrived = sent[i]
      BY <1>1, <1>2, <3>1
    <3>3. i \in Nat /\ c \in Nat /\ sent[i] \in Nat
      BY <1>2, <1>8
    <3>4. ~(i < c)
      <4>1. i < c => sent[i] <= Start(c)
        BY <1>2, <1>8
      <4> QED
        BY <1>1, <1>6, <1>7, <3>1, <3>2, <3>3, <4>1
    <3>5. i = c \/ c < i
      BY <3>3, <3>4
    <3>6. c < i => sent[c] <= Start(i) /\ Start(i) < sent[i] /\ Start(i) \in Nat
      BY <1>2, <1>8
    <3> QED
      BY <1>9, <3>1, <3>2, <3>3, <3>5, <3>6
  <2>3. CASE ~(n + 1 <= Free)
    BY <1>6, <1>7, <1>9, <1>10, <2>3, ReceiveAssumption
  <2>4. CASE \E i \in 1 .. l : recvd < Start(i) /\ Start(i) < recvd + (n + 1)
    <3>1. PICK i \in 1 .. l : recvd < Start(i) /\ Start(i) < recvd + (n + 1)
      BY <2>4
    <3>2. i \in Nat /\ c \in Nat /\ Start(i) \in Nat
      BY <1>2, <1>8
    <3>3. ~(i < c) /\ i # c
      <4>1. i < c => Start(i) < Start(c)
        BY <1>2, <1>8
      <4> QED
        BY <1>6, <1>9, <3>1, <3>2, <4>1
    <3>4. sent[c] <= Start(i)
      BY <1>2, <1>8, <3>2, <3>3
    <3> QED
      BY <1>1, <1>7, <1>9, <3>1, <3>2, <3>4
  <2> QED
    BY <2>1, <2>2, <2>3, <2>4
<1>13. recvd + n = sent[c]
  BY <1>1, <1>7, <1>9, <1>11, <1>12
<1>14. \A i \in 1 .. l : recvd <= Start(i) /\ Start(i) < recvd + n <=> i = c
  <2> TAKE i \in 1 .. l
  <2>1. i \in Nat /\ c \in Nat /\ Start(i) \in Nat
    BY <1>2, <1>8
  <2>2. CASE i < c
    BY <1>2, <1>6, <1>8, <1>9, <2>1, <2>2
  <2>3. CASE c < i
    <3>1. sent[c] <= Start(i)
      BY <1>2, <1>8, <2>3
    <3> QED
      BY <1>9, <1>13, <2>1, <2>3, <3>1
  <2>4. CASE i = c
    BY <1>6, <1>9, <1>13, <2>4
  <2> QED
    BY <2>1, <2>2, <2>3, <2>4
<1>15. SocketsRead(n) = IF Stream[c].socket THEN {c} ELSE {}
  BY <1>2, <1>8, <1>14 DEF SocketsRead
<1>16. process_control_message(n) = SocketOf(c)
  <2>1. CASE Stream[c].socket
    <3>1. SocketsRead(n) = {c}
      BY <1>15, <2>1
    <3>2. process_control_message(n) = c
      BY <3>1 DEF process_control_message
    <3> QED
      BY <2>1, <3>2 DEF SocketOf
  <2>2. CASE ~Stream[c].socket
    BY <1>1, <1>15, <2>2 DEF process_control_message, SocketOf
  <2> QED
    BY <2>1, <2>2
<1> QED
  BY <1>2, <1>8, <1>13, <1>16 DEF c

\* recvmsg puts bytes behind those that are in the buffer.
LEMMA ReadStep ==
    ASSUME IInv, receive
    PROVE  FrameInv'
<1>0. BufferInv /\ StreamOK /\ Framing /\ OneRecord /\ FramesIntact /\ SocketWithItsMessage
  BY DEF IInv, FrameInv
<1>1. /\ UNCHANGED <<records, sent, arrived, at, header, split, delivered>>
      /\ pc = "receive" /\ pc' = "header"
  BY DEF receive, network, result
<1>2. PICK n \in 1 .. Free :
          /\ CanRead(n) /\ ~CanRead(n + 1)
          /\ recvd' = recvd + n /\ socket' = process_control_message(n)
  BY DEF receive
<1>3. recvd' <= arrived'
  BY <1>1, <1>2 DEF CanRead
<1>4. socket' \in Nat
  <2>1. CASE SocketsRead(n) # {}
    <3>1. socket' \in SocketsRead(n)
      BY <1>2, <2>1 DEF process_control_message
    <3>2. socket' \in DOMAIN sent
      BY <3>1 DEF SocketsRead
    <3>3. DOMAIN sent = 1 .. Len(sent) /\ Len(sent) \in Nat
      BY <1>0, StreamFacts
    <3> QED
      BY <3>2, <3>3
  <2>2. CASE SocketsRead(n) = {}
    BY <1>0, <1>2, <2>2 DEF process_control_message, StreamOK
  <2> QED
    BY <2>1, <2>2
<1>5. StreamOK'
  BY <1>0, <1>1, <1>3, <1>4, SameFrames DEF StreamOK
<1>6. Framing'
  BY <1>0, <1>1, SameFrames DEF Framing, OnTrack, Start
<1>7. OneRecord'
  <2> SUFFICES ASSUME records
               PROVE  Held'
    BY <1>0, <1>1, SameFrames DEF OneRecord
  <2>1. Coming \in DOMAIN sent /\ recvd' = sent[Coming] /\ socket' = SocketOf(Coming)
    BY <1>1, <1>2, RecordRead
  <2>2. Coming' = Coming /\ SocketOf(Coming)' = SocketOf(Coming)
    BY <1>1, SameFrames DEF SocketOf
  <2> QED
    BY <1>1, <2>1, <2>2 DEF Held
<1> QED
  BY <1>0, <1>1, <1>5, <1>6, <1>7, SameFrames DEF FrameInv

\* What the coroutine yields behind the header of a message sent whole is that
\* message, and the next one begins behind it.
LEMMA YieldsComing ==
    ASSUME IInv, pc = "payload", OnTrack, Taken(Coming) = Size(Coming)
    PROVE  /\ Coming \in 1 .. Len(sent)
           /\ Yielded = Coming
           /\ at + header = sent[Coming]
<1>0. BufferInv /\ StreamOK
  BY DEF IInv, FrameInv
<1>1. DOMAIN sent = 1 .. Len(sent) /\ Len(sent) \in Nat
  BY <1>0, StreamFacts
<1>2. /\ Coming \in 1 .. Len(sent) /\ Coming \in 1 .. Len(sent) + 1 /\ Coming # 0
      /\ at = Start(Coming) + HeaderSize /\ header = Stream[Coming].size
  BY <1>1 DEF OnTrack
<1>3. /\ Start(Coming) \in Nat /\ Coming \in Indexes
      /\ sent[Coming] = Start(Coming) + Size(Coming)
  BY <1>0, <1>2, StreamFacts
<1>4. Size(Coming) = HeaderSize + header /\ header \in Nat
  BY <1>0, <1>2, <1>3, StreamTyped DEF BufferInv, BufferOK
<1>5. at - HeaderSize = Start(Coming)
  BY <1>2, <1>3, ReceiveAssumption
<1>6. MessageAt(at - HeaderSize) = Coming
  BY <1>0, <1>2, <1>5, MessageThere
<1>7. Yielded = Coming
  BY <1>2, <1>4, <1>6 DEF Yielded
<1> QED
  BY <1>2, <1>3, <1>4, <1>7, ReceiveAssumption

\* A message is handed out.
LEMMA YieldStep ==
    ASSUME IInv, process_message_payload
    PROVE  FrameInv'
<1> DEFINE d == Len(delivered)
           e == [msg |-> Yielded, socket |-> socket]
<1>0. BufferInv /\ StreamOK /\ Framing /\ OneRecord /\ FramesIntact /\ SocketWithItsMessage
  BY DEF IInv, FrameInv
<1>1. /\ UNCHANGED <<records, sent, arrived, recvd, socket, split>>
      /\ delivered' = Append(delivered, e) /\ at' = at + header
      /\ pc = "payload" /\ pc' = "header"
  BY DEF process_message_payload, network
<1>2. PICK c \in Nat : c = Coming /\ c = d + 1 /\ d \in Nat
  BY <1>0, ComingTyped
<1>3. e \in [msg : Nat, socket : Nat] /\ e.msg = Yielded /\ e.socket = socket
  <2>1. DOMAIN sent = 1 .. Len(sent) /\ Len(sent) \in Nat
    BY <1>0, StreamFacts
  <2>2. MessageAt(at - HeaderSize) \in Nat
    BY <2>1 DEF MessageAt
  <2>3. Yielded \in Nat
    BY <2>2 DEF Yielded
  <2> QED
    BY <1>0, <2>3 DEF StreamOK
<1> HIDE DEF e
<1>4. /\ delivered' \in Seq([msg : Nat, socket : Nat]) /\ Len(delivered') = c
      /\ delivered'[c] = e
      /\ \A k \in 1 .. d : delivered'[k] = delivered[k]
  BY <1>0, <1>1, <1>2, <1>3 DEF StreamOK
<1>5. Coming' = c + 1
  BY <1>4 DEF Coming
<1>6. /\ Stream' = Stream /\ Total' = Total
      /\ \A i : Start(i)' = Start(i) /\ Taken(i)' = Taken(i) /\ Size(i)' = Size(i)
      /\ \A i : SentWhole(i)' <=> SentWhole(i)
  BY <1>1 DEF Stream, Total, Start, Taken, Size, SentWhole
<1>7. DOMAIN sent = 1 .. Len(sent) /\ Len(sent) \in Nat
  BY <1>0, StreamFacts
<1> HIDE DEF d
<1>8. \A k \in 1 .. c : k \in 1 .. d \/ k = c
  BY <1>2
<1>9. StreamOK'
  BY <1>0, <1>1, <1>4, <1>6 DEF StreamOK
<1>10. Broken => Broken'
  <2> HAVE Broken
  <2>1. PICK j \in DOMAIN sent : j < c /\ Taken(j) # Size(j)
    BY <1>2 DEF Broken
  <2>2. j < c + 1
    BY <1>2, <1>7, <2>1
  <2> QED
    BY <1>1, <1>5, <1>6, <2>1, <2>2 DEF Broken
<1>11. ASSUME OnTrack, Taken(c) = Size(c)
       PROVE  SentWhole(c) /\ OnTrack'
  <2>1. c \in 1 .. Len(sent) /\ at + header = sent[c]
    BY <1>1, <1>2, <1>11, YieldsComing
  <2>2. SentWhole(d)
    BY <1>11 DEF OnTrack, d
  <2>3. SentWhole(c)
    BY <1>7, <1>8, <1>11, <2>1, <2>2 DEF SentWhole
  <2>4. Start(c + 1) = sent[c]
    BY <1>0, <2>1, StreamFacts
  <2>5. at' = Start(Coming)'
    <3>1. Start(Coming)' = Start(c + 1)
      BY <1>1, <1>5 DEF Start
    <3> QED
      BY <1>1, <2>1, <2>4, <3>1
  <2>6. SentWhole(Len(delivered))'
    BY <1>4, <1>6, <2>3 DEF SentWhole, Taken, Size, Start
  <2> QED
    BY <1>1, <2>3, <2>5, <2>6 DEF OnTrack
<1>12. ASSUME OnTrack, Taken(c) # Size(c)
       PROVE  Broken'
  <2>1. c \in DOMAIN sent
    BY <1>1, <1>2, <1>12 DEF OnTrack
  <2> QED
    BY <1>1, <1>2, <1>5, <1>6, <1>12, <2>1 DEF Broken
<1>13. Framing'
  BY <1>0, <1>1, <1>10, <1>11, <1>12 DEF Framing
<1>14. FramesIntact'
  <2> SUFFICES ASSUME ~split, NEW k \in 1 .. c, SentWhole(k)
               PROVE  delivered'[k].msg = k
    BY <1>1, <1>4, <1>6 DEF FramesIntact
  <2>1. CASE k \in 1 .. d
    BY <1>0, <1>4, <2>1 DEF FramesIntact, d
  <2>2. CASE k = c
    <3>1. ~Broken
      BY <1>2, <1>7, <2>2 DEF Broken, SentWhole
    <3>2. OnTrack
      BY <1>0, <3>1 DEF Framing
    <3>3. Taken(c) = Size(c)
      BY <1>2, <2>2 DEF SentWhole
    <3>4. Yielded = c
      BY <1>1, <1>2, <3>2, <3>3, YieldsComing
    <3> QED
      BY <1>3, <1>4, <2>2, <3>4
  <2> QED
    BY <1>8, <2>1, <2>2
<1>15. ASSUME records
       PROVE  OnTrack /\ Held /\ ~split /\ Taken(c) = Size(c)
  <2>1. ~split /\ Held /\ ~Broken
    BY <1>0, <1>1, <1>15 DEF OneRecord, Broken
  <2>2. OnTrack
    BY <1>0, <2>1 DEF Framing
  <2>3. Taken(c) = Size(c)
    BY <1>0, <1>2, <1>15, <2>1 DEF OneRecord, Held
  <2> QED
    BY <2>1, <2>2, <2>3
<1>16. OneRecord'
  <2> SUFFICES ASSUME records
               PROVE  recvd' = at'
    BY <1>0, <1>1, <1>6 DEF OneRecord
  <2>1. at + header = sent[c] /\ recvd = sent[c]
    BY <1>1, <1>2, <1>15, YieldsComing DEF Held
  <2> QED
    BY <1>1, <2>1
<1>17. SocketWithItsMessage'
  <2> SUFFICES ASSUME records, NEW k \in 1 .. c
               PROVE  /\ delivered'[k].msg = k
                      /\ delivered'[k].socket = IF Stream[k].socket THEN k ELSE 0
    BY <1>1, <1>4, <1>6 DEF SocketWithItsMessage
  <2>1. CASE k \in 1 .. d
    BY <1>0, <1>4, <2>1 DEF SocketWithItsMessage, d
  <2>2. CASE k = c
    <3>1. Yielded = c
      BY <1>1, <1>2, <1>15, YieldsComing
    <3>2. socket = SocketOf(c)
      BY <1>2, <1>15 DEF Held
    <3> QED
      BY <1>3, <1>4, <2>2, <3>1, <3>2 DEF SocketOf
  <2> QED
    BY <1>8, <2>1, <2>2
<1> QED
  BY <1>9, <1>13, <1>14, <1>16, <1>17 DEF FrameInv

-----------------------------------------------------------------------------
(* The theorems                                                            *)

\* IInv is inductive.
LEMMA FrameStep == IInv /\ [Next]_vars => IInv'
<1> SUFFICES ASSUME IInv, [Next]_vars
             PROVE  IInv'
  OBVIOUS
<1>1. BufferInv'
  BY ReceiveStep DEF IInv
<1>2. FrameInv'
  BY SendStep, ArriveStep, CloseStep, ReadStep, HeaderStep, YieldStep, LeftoverStep,
     SplitStep DEF Next, Coroutine
<1> QED
  BY <1>1, <1>2 DEF IInv

\* IInv holds in every state of the connection.
LEMMA AlwaysIInv == Spec => []IInv
<1>1. Init => IInv
  <2> SUFFICES ASSUME Init
               PROVE  IInv
    OBVIOUS
  <2>1. BufferInv
    BY StreamTyped, ReceiveAssumption
    DEF Init, BufferInv, BufferOK, RoomLeft, ClosedOnlyByPeer
  <2>2. StreamOK
    BY DEF Init, StreamOK, Total, Start
  <2>3. OnTrack
    BY DEF Init, OnTrack, SentWhole, Coming, Start
  <2>4. Framing /\ OneRecord /\ FramesIntact /\ SocketWithItsMessage
    BY <2>3 DEF Init, Framing, OneRecord, FramesIntact, SocketWithItsMessage
  <2> QED
    BY <2>1, <2>2, <2>4 DEF IInv, FrameInv
<1> QED
  BY <1>1, FrameStep, PTL DEF Spec

\* However the network and the buffer cut the stream, what was sent whole comes
\* out whole and in order, until the code forgets a header
\* (socket_routine.cpp:222-239) or a message was sent in part
\* (socket_routine.cpp:325).
THEOREM FramesComeOutWhole == Spec => []FramesIntact
<1>1. IInv => FramesIntact
  BY DEF IInv, FrameInv
<1> QED
  BY <1>1, AlwaysIInv, PTL

\* On the socket pair of a lobby every message is handed out, in order, with
\* the descriptor it was sent with and with no other
\* (socket_routine.cpp:209-216).
THEOREM SocketsComeWithTheirMessages == Spec => []SocketWithItsMessage
<1>1. IInv => SocketWithItsMessage
  BY DEF IInv, FrameInv
<1> QED
  BY <1>1, AlwaysIInv, PTL

=============================================================================

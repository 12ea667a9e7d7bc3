-------------------------- MODULE TcpConnectionProofs --------------------------
(***************************************************************************)
(* The safety invariants of TcpConnection for blocks of any sizes, any     *)
(* kernel buffer and any number of connections.  StreamInOrder is not      *)
(* inductive: Chained adds that the two lists, one behind the other, are   *)
(* the stream's unwritten rest, each Buffer beginning where the one before *)
(* it ends.  OneCloseEach needs to count the close on its way (Counted).   *)
(***************************************************************************)
EXTENDS TcpConnection, TLAPS

\* Where the Buffers of a list begin, end and meet.
Contiguous(list) ==
  \A i \in 1 .. (Len(list) - 1) : list[i + 1].first = list[i].first + list[i].size

\* The first byte after a non-empty list.
End(list) == list[Len(list)].first + list[Len(list)].size

\* The first byte of m_sendBuffers, or the one the next send() will have.
SendStart == IF m_sendBuffers = <<>> THEN total + 1 ELSE m_sendBuffers[1].first

Chained ==
  /\ Contiguous(m_currSendBuffers) /\ Contiguous(m_sendBuffers)
  /\ \A i \in 1 .. Len(m_sendBuffers) :
       m_sendBuffers[i].first + m_sendBuffers[i].size <= total + 1
  /\ \A i \in 1 .. Len(m_currSendBuffers) :
       m_currSendBuffers[i].first + m_currSendBuffers[i].size <= total + 1
  /\ m_sendBuffers # <<>> => End(m_sendBuffers) = total + 1
  /\ m_currSendBuffers # <<>> =>
       /\ m_currSendSize <= m_currSendBuffers[1].size
       /\ End(m_currSendBuffers) = SendStart
       /\ Len(wire) + 1 = Start
  /\ m_currSendBuffers = <<>> => Len(wire) + 1 = SendStart

\* Every close callback, called or due, has a connection of its own; one that
\* lives or is being made needs another.
Counted ==
  LET due == IF pc \in {"hup", "onclose"} THEN 1 ELSE 0
  IN /\ closes + due <= conns
     /\ connecting => ~registered /\ closes + due + 1 <= conns
     /\ registered /\ pc # "hup" => closes + due + 1 <= conns

-----------------------------------------------------------------------------
LEMMA ElementOfList ==
  ASSUME NEW S, NEW list \in Seq(S), NEW i \in 1 .. Len(list)
  PROVE  list[i] \in S
OBVIOUS

LEMMA BuffersTyped ==
  ASSUME TypeOK
  PROVE  /\ \A i \in 1 .. Len(m_sendBuffers) :
              /\ m_sendBuffers[i] \in Buffers
              /\ m_sendBuffers[i].first \in Nat \ {0} /\ m_sendBuffers[i].size \in Nat
         /\ \A i \in 1 .. Len(m_currSendBuffers) :
              /\ m_currSendBuffers[i] \in Buffers
              /\ m_currSendBuffers[i].first \in Nat \ {0} /\ m_currSendBuffers[i].size \in Nat
         /\ Len(m_sendBuffers) \in Nat /\ Len(m_currSendBuffers) \in Nat
<1>1. m_sendBuffers \in Seq(Buffers) /\ m_currSendBuffers \in Seq(Buffers)
  BY DEF TypeOK
<1>2. \A b \in Buffers : b.first \in Nat \ {0} /\ b.size \in Nat
  <2> SUFFICES ASSUME NEW b \in Buffers PROVE b.first \in Nat \ {0} /\ b.size \in Nat
    OBVIOUS
  <2>1. b.first \in 1 .. (MaxBytes + 1) /\ b.size \in Sizes
    BY DEF Buffers
  <2>2. MaxBytes + 1 \in Nat /\ Sizes \subseteq Nat
    BY TcpAssumption
  <2>3. b.first \in Nat \ {0}
    BY <2>1, <2>2
  <2>4. QED
    BY <2>1, <2>2, <2>3
<1>3. QED
  BY <1>1, <1>2, ElementOfList

\* The first Buffer's part to be written lies within the stream.
LEMMA HeadWithin ==
  ASSUME TypeOK, Chained, m_currSendBuffers # <<>>
  PROVE  /\ Head(m_currSendBuffers) = m_currSendBuffers[1]
         /\ 1 \in 1 .. Len(m_currSendBuffers)
         /\ Left \in Nat /\ Left <= m_currSendBuffers[1].size
         /\ Start \in Nat \ {0} /\ Start + Left <= total + 1 /\ Start + Left \in Nat
         /\ Start + Left = m_currSendBuffers[1].first + m_currSendBuffers[1].size
         /\ Len(wire) + 1 = Start
<1>1. m_currSendBuffers \in Seq(Buffers) /\ m_currSendSize \in Nat /\ total \in Nat
      /\ Len(wire) \in Nat
  BY TcpAssumption DEF TypeOK
<1>2. 1 \in 1 .. Len(m_currSendBuffers) /\ Head(m_currSendBuffers) = m_currSendBuffers[1]
  BY <1>1
<1>3. m_currSendBuffers[1].first \in Nat \ {0} /\ m_currSendBuffers[1].size \in Nat
  BY <1>2, BuffersTyped
<1>4. /\ m_currSendSize <= m_currSendBuffers[1].size
      /\ m_currSendBuffers[1].first + m_currSendBuffers[1].size <= total + 1
      /\ Len(wire) + 1 = Start
  BY <1>2 DEF Chained
<1>5. Left \in Nat /\ Left <= m_currSendBuffers[1].size
  BY <1>1, <1>2, <1>3, <1>4 DEF Left
<1>6. Start = m_currSendBuffers[1].first + m_currSendBuffers[1].size - Left
  BY <1>2 DEF Start
<1>7. Start + Left = m_currSendBuffers[1].first + m_currSendBuffers[1].size
  BY <1>3, <1>5, <1>6
<1>8. Start \in Nat \ {0}
  BY <1>3, <1>5, <1>6
<1>9. QED
  BY <1>1, <1>2, <1>3, <1>4, <1>5, <1>7, <1>8

LEMMA CountedInit == Init => Counted
BY DEF Init, Counted

LEMMA CountedStep == TypeOK /\ Counted /\ [Next]_vars => Counted'
<1> SUFFICES ASSUME TypeOK, Counted, [Next]_vars PROVE Counted'
  OBVIOUS
<1>0. closes \in Nat /\ conns \in Nat
  BY TcpAssumption DEF TypeOK
<1>1. CASE \E n \in Sizes : send(n)
  BY <1>0, <1>1 DEF Counted, send, connVars
<1>2. CASE ConnectSocket
  BY <1>0, <1>2 DEF Counted, ConnectSocket
<1>3. CASE Register
  BY <1>0, <1>3 DEF Counted, Register
<1>4. CASE close
  BY <1>0, <1>4 DEF Counted, close
<1>5. CASE Handle
  <2>1. CASE poll
    BY <1>0, <2>1 DEF Counted, poll, connVars, After
  <2>2. CASE onHup
    BY <1>0, <2>2 DEF Counted, onHup
  <2>3. CASE onClose
    BY <1>0, <2>3 DEF Counted, onClose
  <2>4. CASE onRead
    BY <1>0, <2>4 DEF Counted, onRead, After
  <2>5. CASE take
    BY <1>0, <2>5 DEF Counted, take, connVars
  <2>6. CASE \E n \in 1 .. Space : write(n)
    BY <1>0, <2>6 DEF Counted, write, connVars
  <2>7. CASE skip
    BY <1>0, <2>7 DEF Counted, skip, connVars
  <2>8. CASE interrupted
    BY <1>0, <2>8 DEF Counted, interrupted, connVars
  <2>9. CASE written
    BY <1>0, <2>9 DEF Counted, written, connVars
  <2>10. QED
    BY <1>5, <2>1, <2>2, <2>3, <2>4, <2>5, <2>6, <2>7, <2>8, <2>9 DEF Handle
<1>6. CASE drain
  BY <1>0, <1>6 DEF Counted, drain, connVars
<1>7. CASE arrive
  BY <1>0, <1>7 DEF Counted, arrive
<1>8. CASE UNCHANGED vars
  BY <1>0, <1>8 DEF Counted, vars, connVars
<1>9. QED
  BY <1>1, <1>2, <1>3, <1>4, <1>5, <1>6, <1>7, <1>8 DEF Next

-----------------------------------------------------------------------------
Stream == StreamInOrder /\ Chained

streamVars == <<m_sendBuffers, m_currSendBuffers, m_currSendSize, total, wire>>

LEMMA StreamFrame ==
  ASSUME Stream, UNCHANGED streamVars
  PROVE  Stream'
BY DEF Stream, streamVars, StreamInOrder, Chained, Contiguous, End, SendStart, Start, Left

\* send() puts a Buffer where the stream ended.
LEMMA SendKeepsStream ==
  ASSUME TypeOK, TypeOK', Stream, NEW n \in Sizes, send(n)
  PROVE  Stream'
<1>1. /\ m_sendBuffers' = Append(m_sendBuffers, [first |-> total + 1, size |-> n])
      /\ total' = total + n
      /\ UNCHANGED <<m_currSendBuffers, m_currSendSize, wire>>
  BY DEF send
<1>2. total \in Nat /\ n \in Nat /\ Len(wire) \in Nat /\ m_sendBuffers \in Seq(Buffers)
      /\ Len(m_sendBuffers) \in Nat
  BY TcpAssumption DEF TypeOK
<1> DEFINE l == Len(m_sendBuffers)
<1>3. /\ Len(m_sendBuffers') = l + 1
      /\ m_sendBuffers'[l + 1] = [first |-> total + 1, size |-> n]
      /\ m_sendBuffers'[l + 1].first = total + 1 /\ m_sendBuffers'[l + 1].size = n
      /\ \A i \in 1 .. l : m_sendBuffers'[i] = m_sendBuffers[i]
      /\ m_sendBuffers' # <<>>
  BY <1>1, <1>2
<1>4. SendStart' = SendStart
  <2>1. CASE m_sendBuffers = <<>>
    BY <1>2, <1>3, <2>1 DEF SendStart
  <2>2. CASE m_sendBuffers # <<>>
    <3>1. 1 \in 1 .. l
      BY <1>2, <2>2
    <3>2. QED
      BY <1>3, <2>2, <3>1 DEF SendStart
  <2>3. QED
    BY <2>1, <2>2
<1>5. End(m_sendBuffers)' = total' + 1
  BY <1>1, <1>2, <1>3 DEF End
<1>6. Contiguous(m_sendBuffers)'
  <2> SUFFICES ASSUME NEW i \in 1 .. l
               PROVE  m_sendBuffers'[i + 1].first = m_sendBuffers'[i].first + m_sendBuffers'[i].size
    BY <1>2, <1>3 DEF Contiguous
  <2>1. CASE i < l
    <3>1. i \in 1 .. (l - 1) /\ i + 1 \in 1 .. l
      BY <1>2, <2>1
    <3>2. m_sendBuffers[i + 1].first = m_sendBuffers[i].first + m_sendBuffers[i].size
      BY <3>1 DEF Stream, Chained, Contiguous
    <3>3. QED
      BY <1>3, <3>1, <3>2
  <2>2. CASE i = l
    <3>1. m_sendBuffers # <<>>
      BY <1>2, <2>2
    <3>2. m_sendBuffers[l].first + m_sendBuffers[l].size = total + 1
      BY <3>1 DEF Stream, Chained, End
    <3>3. QED
      BY <1>3, <2>2, <3>2
  <2>3. QED
    BY <1>2, <2>1, <2>2
<1>7. \A i \in 1 .. Len(m_sendBuffers') :
        m_sendBuffers'[i].first + m_sendBuffers'[i].size <= total' + 1
  <2> SUFFICES ASSUME NEW i \in 1 .. (l + 1)
               PROVE  m_sendBuffers'[i].first + m_sendBuffers'[i].size <= total' + 1
    BY <1>3
  <2>1. CASE i \in 1 .. l
    <3>1. m_sendBuffers[i].first + m_sendBuffers[i].size <= total + 1
      BY <2>1 DEF Stream, Chained
    <3>2. m_sendBuffers[i].first \in Nat /\ m_sendBuffers[i].size \in Nat
      BY <2>1, BuffersTyped
    <3>3. QED
      BY <1>1, <1>2, <1>3, <2>1, <3>1, <3>2
  <2>2. CASE i = l + 1
    BY <1>1, <1>2, <1>3, <2>2
  <2>3. QED
    BY <1>2, <2>1, <2>2
<1>8. \A i \in 1 .. Len(m_currSendBuffers) :
        m_currSendBuffers[i].first + m_currSendBuffers[i].size <= total' + 1
  <2> SUFFICES ASSUME NEW i \in 1 .. Len(m_currSendBuffers)
               PROVE  m_currSendBuffers[i].first + m_currSendBuffers[i].size <= total' + 1
    OBVIOUS
  <2>1. m_currSendBuffers[i].first + m_currSendBuffers[i].size <= total + 1
    BY DEF Stream, Chained
  <2>2. m_currSendBuffers[i].first \in Nat /\ m_currSendBuffers[i].size \in Nat
    BY BuffersTyped
  <2>3. QED
    BY <1>1, <1>2, <2>1, <2>2
<1>9. Start' = Start /\ Left' = Left
  BY <1>1 DEF Start, Left
<1>10. Chained'
  BY <1>1, <1>3, <1>4, <1>5, <1>6, <1>7, <1>8, <1>9 DEF Stream, Chained, Contiguous, End
<1>11. StreamInOrder'
  BY <1>1, <1>3 DEF Stream, StreamInOrder
<1>12. QED
  BY <1>10, <1>11 DEF Stream

\* Taking the filled list over leaves the stream as it is.
LEMMA TakeKeepsStream ==
  ASSUME TypeOK, TypeOK', Stream, take
  PROVE  Stream'
<1>1. CASE m_currSendBuffers # <<>>
  <2>1. UNCHANGED streamVars
    BY <1>1 DEF take, streamVars
  <2>2. QED
    BY <2>1, StreamFrame
<1>2. CASE m_currSendBuffers = <<>>
  <2>1. /\ m_currSendBuffers' = m_sendBuffers /\ m_sendBuffers' = <<>> /\ m_currSendSize' = 0
        /\ total' = total /\ wire' = wire
    BY <1>2 DEF take
  <2>2. total \in Nat /\ Len(wire) \in Nat /\ Len(m_sendBuffers) \in Nat
        /\ m_sendBuffers \in Seq(Buffers)
    BY TcpAssumption DEF TypeOK
  <2>3. Contiguous(m_currSendBuffers)' /\ Contiguous(m_sendBuffers)'
    <3>1. Contiguous(m_sendBuffers)
      BY DEF Stream, Chained
    <3>2. QED
      BY <2>1, <3>1 DEF Contiguous
  <2>4. /\ \A i \in 1 .. Len(m_sendBuffers') :
             m_sendBuffers'[i].first + m_sendBuffers'[i].size <= total' + 1
        /\ \A i \in 1 .. Len(m_currSendBuffers') :
             m_currSendBuffers'[i].first + m_currSendBuffers'[i].size <= total' + 1
    BY <2>1 DEF Stream, Chained
  <2>5. SendStart' = total + 1
    BY <2>1 DEF SendStart
  <2>6. Len(wire) + 1 = SendStart
    BY <1>2 DEF Stream, Chained
  <2>7. CASE m_sendBuffers = <<>>
    <3>1. SendStart = total + 1
      BY <2>7 DEF SendStart
    <3>2. m_currSendBuffers' = <<>> /\ m_sendBuffers' = <<>>
      BY <2>1, <2>7
    <3>3. Len(wire') + 1 = SendStart'
      BY <2>1, <2>5, <2>6, <3>1
    <3>4. Chained'
      BY <2>3, <2>4, <3>2, <3>3 DEF Chained
    <3>5. StreamInOrder'
      BY <1>2, <2>1, <2>7 DEF Stream, StreamInOrder
    <3>6. QED
      BY <3>4, <3>5 DEF Stream
  <2>8. CASE m_sendBuffers # <<>>
    <3>1. 1 \in 1 .. Len(m_sendBuffers) /\ Head(m_sendBuffers) = m_sendBuffers[1]
      BY <2>2, <2>8
    <3>2. m_sendBuffers[1].first \in Nat /\ m_sendBuffers[1].size \in Nat
      BY <3>1, BuffersTyped
    <3>3. End(m_sendBuffers) = total + 1
      BY <2>8 DEF Stream, Chained
    <3>4. End(m_currSendBuffers)' = SendStart'
      BY <2>1, <2>5, <3>3 DEF End
    <3>5. Start' = m_sendBuffers[1].first
      BY <2>1, <3>1, <3>2 DEF Start, Left
    <3>6. Len(wire) + 1 = m_sendBuffers[1].first
      BY <2>6, <2>8 DEF SendStart
    <3>7. m_currSendSize' <= m_currSendBuffers'[1].size
      BY <2>1, <3>2
    <3>8. Chained'
      BY <2>1, <2>3, <2>4, <2>8, <3>4, <3>5, <3>6, <3>7 DEF Chained
    <3>9. StreamInOrder'
      BY <2>1, <2>8 DEF Stream, StreamInOrder
    <3>10. QED
      BY <3>8, <3>9 DEF Stream
  <2>9. QED
    BY <2>7, <2>8
<1>3. QED
  BY <1>1, <1>2

\* Popping a Buffer whose bytes are all written.
LEMMA PopKeepsChain ==
  ASSUME TypeOK, TypeOK', Chained, m_currSendBuffers # <<>>, Pop,
         UNCHANGED <<m_sendBuffers, total>>,
         Len(wire') + 1 = m_currSendBuffers[1].first + m_currSendBuffers[1].size
  PROVE  Chained'
<1>1. m_currSendBuffers' = Tail(m_currSendBuffers) /\ m_currSendSize' = 0
  BY DEF Pop
<1> DEFINE l == Len(m_currSendBuffers)
<1>2. /\ m_currSendBuffers \in Seq(Buffers) /\ l \in Nat \ {0} /\ total \in Nat
      /\ Len(wire') \in Nat
  BY TcpAssumption DEF TypeOK
<1>3. /\ Len(m_currSendBuffers') = l - 1
      /\ \A i \in 1 .. (l - 1) : m_currSendBuffers'[i] = m_currSendBuffers[i + 1]
  BY <1>1, <1>2
<1>4. SendStart' = SendStart
  BY DEF SendStart
<1>5. Contiguous(m_currSendBuffers)'
  <2> SUFFICES ASSUME NEW i \in 1 .. (l - 1 - 1)
               PROVE  m_currSendBuffers'[i + 1].first
                        = m_currSendBuffers'[i].first + m_currSendBuffers'[i].size
    BY <1>2, <1>3 DEF Contiguous
  <2>1. i \in 1 .. (l - 1) /\ i + 1 \in 1 .. (l - 1)
    BY <1>2
  <2>2. m_currSendBuffers[i + 1 + 1].first
          = m_currSendBuffers[i + 1].first + m_currSendBuffers[i + 1].size
    BY <2>1 DEF Chained, Contiguous
  <2>3. QED
    BY <1>3, <2>1, <2>2
<1>6. \A i \in 1 .. Len(m_currSendBuffers') :
        m_currSendBuffers'[i].first + m_currSendBuffers'[i].size <= total' + 1
  <2> SUFFICES ASSUME NEW i \in 1 .. (l - 1)
               PROVE  m_currSendBuffers'[i].first + m_currSendBuffers'[i].size <= total' + 1
    BY <1>3
  <2>1. i + 1 \in 1 .. l
    BY <1>2
  <2>2. QED
    BY <1>3, <2>1 DEF Chained
<1>7. /\ Contiguous(m_sendBuffers)' /\ (m_sendBuffers # <<>> => End(m_sendBuffers) = total + 1)'
      /\ \A i \in 1 .. Len(m_sendBuffers') :
           m_sendBuffers'[i].first + m_sendBuffers'[i].size <= total' + 1
  BY DEF Chained, Contiguous, End
<1>8. CASE l = 1
  <2>1. m_currSendBuffers' = <<>>
    BY <1>1, <1>2, <1>8
  <2>2. m_currSendBuffers[1].first + m_currSendBuffers[1].size = SendStart
    BY <1>8 DEF Chained, End
  <2>3. QED
    BY <1>4, <1>5, <1>6, <1>7, <2>1, <2>2 DEF Chained
<1>9. CASE l # 1
  <2>1. l - 1 \in 1 .. (l - 1) /\ 1 \in 1 .. (l - 1) /\ l - 1 + 1 = l /\ 1 + 1 = 2 /\ 2 \in 1 .. l
    <3>1. l \in Nat \ {0} /\ l # 1
      BY <1>2, <1>9
    <3> HIDE DEF l
    <3>2. QED
      BY <3>1
  <2>2. /\ m_currSendBuffers'[1] = m_currSendBuffers[2]
        /\ m_currSendBuffers'[l - 1] = m_currSendBuffers[l]
        /\ m_currSendBuffers' # <<>>
    <3>1. m_currSendBuffers'[1] = m_currSendBuffers[1 + 1]
          /\ m_currSendBuffers'[l - 1] = m_currSendBuffers[l - 1 + 1]
      BY <1>3, <2>1
    <3>2. m_currSendBuffers' # <<>>
      BY <1>2, <1>3, <1>9
    <3>3. QED
      BY <2>1, <3>1, <3>2
  <2>3. End(m_currSendBuffers)' = SendStart'
    <3>1. End(m_currSendBuffers)' = m_currSendBuffers'[l - 1].first + m_currSendBuffers'[l - 1].size
      BY <1>3 DEF End
    <3>2. End(m_currSendBuffers) = SendStart
      BY DEF Chained
    <3>3. QED
      BY <1>4, <2>2, <3>1, <3>2 DEF End
  <2>4. m_currSendBuffers[2].first = m_currSendBuffers[1].first + m_currSendBuffers[1].size
    <3>1. m_currSendBuffers[1 + 1].first = m_currSendBuffers[1].first + m_currSendBuffers[1].size
      BY <2>1 DEF Chained, Contiguous
    <3>2. QED
      BY <2>1, <3>1
  <2>5. m_currSendBuffers[2].first \in Nat /\ m_currSendBuffers[2].size \in Nat
    BY <2>1, BuffersTyped
  <2>6. Start' = m_currSendBuffers[2].first
    <3>1. Head(m_currSendBuffers') = m_currSendBuffers[2]
      BY <1>1, <1>2, <1>9, <2>2
    <3>2. Left' = m_currSendBuffers[2].size
      <4>1. m_currSendSize' = 0 /\ ~(0 > 0)
        BY <1>1
      <4>2. Left' = IF m_currSendSize' > 0 THEN m_currSendSize'
                    ELSE Head(m_currSendBuffers').size
        BY DEF Left
      <4>3. QED
        BY <3>1, <4>1, <4>2
    <3>3. QED
      BY <2>5, <3>1, <3>2 DEF Start
  <2>7. m_currSendSize' <= m_currSendBuffers'[1].size
    BY <1>1, <2>2, <2>5
  <2>8. QED
    BY <1>5, <1>6, <1>7, <2>2, <2>3, <2>4, <2>6, <2>7 DEF Chained
<1>10. QED
  BY <1>8, <1>9

\* The kernel takes the next bytes of the stream.
LEMMA WriteKeepsStream ==
  ASSUME TypeOK, TypeOK', Stream, NEW n \in 1 .. Space, write(n)
  PROVE  Stream'
<1>1. /\ m_currSendBuffers # <<>>
      /\ wire' = wire \o [i \in 1 .. n |-> Start + i - 1]
      /\ UNCHANGED <<m_sendBuffers, total>>
  BY DEF write
<1>2. Chained
  BY DEF Stream
<1>3. /\ Left \in Nat /\ Start \in Nat \ {0} /\ Len(wire) + 1 = Start
      /\ Left <= m_currSendBuffers[1].size
      /\ Start + Left = m_currSendBuffers[1].first + m_currSendBuffers[1].size
      /\ Head(m_currSendBuffers) = m_currSendBuffers[1] /\ 1 \in 1 .. Len(m_currSendBuffers)
  BY <1>1, <1>2, HeadWithin
<1>4. m_currSendBuffers[1].first \in Nat /\ m_currSendBuffers[1].size \in Nat
  BY <1>3, BuffersTyped
<1>5. n \in Nat \ {0} /\ n <= Left /\ Len(wire) \in Nat /\ total \in Nat
  <2>1. n \in Nat \ {0} /\ Len(wire) \in Nat /\ total \in Nat /\ room \in Nat
    BY TcpAssumption DEF TypeOK
  <2>2. n <= Smaller(Left, room)
    BY DEF write
  <2>3. QED
    BY <1>3, <2>1, <2>2 DEF Smaller
<1>6. /\ Len(wire') = Len(wire) + n
      /\ wire' = [i \in 1 .. Len(wire') |-> i]
  <2> DEFINE more == [i \in 1 .. n |-> Start + i - 1]
  <2>1. wire \in Seq(Nat) /\ more \in Seq(Nat) /\ Len(more) = n
    <3>1. wire \in Seq(1 .. MaxBytes) /\ MaxBytes \in Nat
      BY TcpAssumption DEF TypeOK
    <3>2. more \in [1 .. n -> Nat]
      BY <1>3, <1>5
    <3>3. QED
      BY <1>5, <3>1, <3>2
  <2>2. wire = [i \in 1 .. Len(wire) |-> i]
    BY DEF Stream, StreamInOrder
  <2>3. \A i \in 1 .. n : more[i] = Start + i - 1
    OBVIOUS
  <2>4. \A i \in 1 .. Len(wire) : wire[i] = i
    BY <1>5, <2>2
  <2> HIDE DEF more
  <2>5. /\ Len(wire \o more) = Len(wire) + n
        /\ wire \o more \in Seq(Nat)
        /\ \A i \in 1 .. (Len(wire) + n) :
             (wire \o more)[i] = IF i <= Len(wire) THEN wire[i] ELSE more[i - Len(wire)]
    BY <1>5, <2>1
  <2>6. \A i \in 1 .. (Len(wire) + n) : (wire \o more)[i] = i
    <3> SUFFICES ASSUME NEW i \in 1 .. (Len(wire) + n) PROVE (wire \o more)[i] = i
      OBVIOUS
    <3>1. CASE i <= Len(wire)
      <4>1. i \in 1 .. Len(wire)
        BY <1>5, <3>1
      <4>2. QED
        BY <2>4, <2>5, <3>1, <4>1
    <3>2. CASE ~(i <= Len(wire))
      <4>1. i - Len(wire) \in 1 .. n
        BY <1>5, <3>2
      <4>2. more[i - Len(wire)] = Start + (i - Len(wire)) - 1
        BY <2>3, <4>1
      <4>3. Start + (i - Len(wire)) - 1 = i
        BY <1>3, <1>5
      <4>4. QED
        BY <2>5, <3>2, <4>2, <4>3
    <3>3. QED
      BY <3>1, <3>2
  <2>7. wire' = wire \o more
    BY <1>1 DEF more
  <2>8. wire' \in Seq(Nat) /\ Len(wire') = Len(wire) + n /\ \A i \in 1 .. Len(wire') : wire'[i] = i
    BY <2>5, <2>6, <2>7
  <2>9. QED
    BY <2>8
<1>7. CASE n = Left
  <2>1. Pop
    BY <1>7 DEF write
  <2>2. Len(wire') + 1 = m_currSendBuffers[1].first + m_currSendBuffers[1].size
    BY <1>3, <1>4, <1>5, <1>6, <1>7
  <2>3. Chained'
    BY <1>1, <1>2, <2>1, <2>2, PopKeepsChain
  <2>4. m_sendBuffers' = <<>> /\ m_currSendBuffers' = <<>> => Len(wire') = total'
    <3>1. total' \in Nat /\ Len(wire') \in Nat
      BY TcpAssumption DEF TypeOK
    <3>2. QED
      BY <2>3, <3>1 DEF Chained, SendStart
  <2>5. StreamInOrder'
    BY <1>6, <2>4 DEF StreamInOrder
  <2>6. QED
    BY <2>3, <2>5 DEF Stream
<1>8. CASE n # Left
  <2>1. m_currSendSize' = Left - n /\ m_currSendBuffers' = m_currSendBuffers
    BY <1>8 DEF write
  <2>2. Left' = Left - n
    BY <1>3, <1>5, <1>8, <2>1 DEF Left
  <2>3. Start' = Start + n
    <3>1. Start' = Head(m_currSendBuffers).first + Head(m_currSendBuffers).size - (Left - n)
      BY <2>1, <2>2 DEF Start
    <3>2. Start = Head(m_currSendBuffers).first + Head(m_currSendBuffers).size - Left
      BY DEF Start
    <3>3. Head(m_currSendBuffers).first \in Nat /\ Head(m_currSendBuffers).size \in Nat
      BY <1>3, <1>4
    <3>4. PICK f \in Nat, z \in Nat, r \in Nat :
            /\ f = Head(m_currSendBuffers).first /\ z = Head(m_currSendBuffers).size
            /\ r = Left
      BY <1>3, <3>3
    <3>5. Start' = f + z - (r - n) /\ Start = f + z - r
      BY <3>1, <3>2, <3>4
    <3>6. f + z - (r - n) = f + z - r + n
      BY <1>5, <3>4
    <3>7. QED
      BY <3>5, <3>6
  <2>4. m_currSendSize' <= m_currSendBuffers'[1].size
    BY <1>3, <1>4, <1>5, <2>1
  <2>5. Len(wire') + 1 = Start'
    BY <1>3, <1>5, <1>6, <2>3
  <2>6. Chained'
    BY <1>1, <1>2, <2>1, <2>4, <2>5 DEF Chained, Contiguous, End, SendStart
  <2>7. StreamInOrder'
    BY <1>1, <1>6, <2>1 DEF StreamInOrder
  <2>8. QED
    BY <2>6, <2>7 DEF Stream
<1>9. QED
  BY <1>7, <1>8

\* An empty Buffer holds no byte of the stream.
LEMMA SkipKeepsStream ==
  ASSUME TypeOK, TypeOK', Stream, skip
  PROVE  Stream'
<1>1. /\ m_currSendBuffers # <<>> /\ Left = 0 /\ Pop
      /\ UNCHANGED <<m_sendBuffers, total, wire>>
  BY DEF skip
<1>2. Chained
  BY DEF Stream
<1>3. Len(wire') + 1 = m_currSendBuffers[1].first + m_currSendBuffers[1].size
  <2>1. /\ Start \in Nat \ {0} /\ Len(wire) + 1 = Start
        /\ Start + Left = m_currSendBuffers[1].first + m_currSendBuffers[1].size
    BY <1>1, <1>2, HeadWithin
  <2>2. Start + Left = Start
    BY <1>1, <2>1
  <2>3. QED
    BY <1>1, <2>1, <2>2
<1>4. Chained'
  BY <1>1, <1>2, <1>3, PopKeepsChain
<1>5. StreamInOrder'
  <2>1. total' \in Nat /\ Len(wire') \in Nat
    BY TcpAssumption DEF TypeOK
  <2>2. m_sendBuffers' = <<>> /\ m_currSendBuffers' = <<>> => Len(wire') = total'
    BY <1>4, <2>1 DEF Chained, SendStart
  <2>3. QED
    BY <1>1, <2>2 DEF Stream, StreamInOrder
<1>6. QED
  BY <1>4, <1>5 DEF Stream

\* Breaking off remembers what is left of the first Buffer.
LEMMA InterruptedKeepsStream ==
  ASSUME TypeOK, TypeOK', Stream, interrupted
  PROVE  Stream'
<1>1. /\ m_currSendBuffers # <<>> /\ Left > 0 /\ m_currSendSize' = Left
      /\ UNCHANGED <<m_sendBuffers, m_currSendBuffers, total, wire>>
  BY DEF interrupted
<1>2. Left \in Nat /\ Left <= m_currSendBuffers[1].size
  BY <1>1, HeadWithin DEF Stream
<1>3. Left' = Left
  BY <1>1 DEF Left
<1>4. Start' = Start
  BY <1>1, <1>3 DEF Start
<1>5. Chained'
  BY <1>1, <1>2, <1>4 DEF Stream, Chained, Contiguous, End, SendStart
<1>6. StreamInOrder'
  BY <1>1 DEF Stream, StreamInOrder
<1>7. QED
  BY <1>5, <1>6 DEF Stream

-----------------------------------------------------------------------------
\* Types.  Only write() needs more than TypeOK: its bytes are bytes of total.
LEMMA WriteTyped ==
  ASSUME TypeOK, Chained, NEW n \in 1 .. Space, write(n)
  PROVE  TypeOK'
<1>1. /\ m_currSendBuffers # <<>> /\ n <= Smaller(Left, room)
      /\ wire' = wire \o [i \in 1 .. n |-> Start + i - 1]
      /\ room' = room - n
      /\ UNCHANGED <<connVars, events, m_sendBuffers, total, sentHere, pc, todo, closes>>
  BY DEF write
<1>2. /\ Left \in Nat /\ Left <= m_currSendBuffers[1].size
      /\ Start \in Nat \ {0} /\ Start + Left <= total + 1
  BY <1>1, HeadWithin
<1>3. /\ n \in Nat \ {0} /\ room \in 0 .. Space /\ Space \in Nat
      /\ total \in 0 .. MaxBytes /\ MaxBytes \in Nat
  BY TcpAssumption DEF TypeOK
<1>4. n <= Left /\ n <= room
  BY <1>1, <1>2, <1>3 DEF Smaller
<1>5. room' \in 0 .. Space
  BY <1>1, <1>3, <1>4
<1>6. Left \in 0 .. MaxBytes /\ Left - n \in 0 .. MaxBytes
  BY <1>2, <1>3, <1>4
<1>7. wire' \in Seq(1 .. MaxBytes)
  <2>1. \A i \in 1 .. n : Start + i - 1 \in 1 .. MaxBytes
    BY <1>2, <1>3, <1>4
  <2> DEFINE more == [i \in 1 .. n |-> Start + i - 1]
  <2>2. more \in [1 .. n -> 1 .. MaxBytes]
    BY <2>1
  <2>3. more \in Seq(1 .. MaxBytes)
    BY <1>3, <2>2
  <2>4. wire \in Seq(1 .. MaxBytes)
    BY DEF TypeOK
  <2>5. wire' = wire \o more
    BY <1>1
  <2> HIDE DEF more
  <2>6. QED
    BY <2>3, <2>4, <2>5
<1>8. m_currSendBuffers' \in Seq(Buffers) /\ m_currSendSize' \in 0 .. MaxBytes
  <2>1. m_currSendBuffers \in Seq(Buffers)
    BY DEF TypeOK
  <2>2. CASE n = Left
    <3>1. m_currSendBuffers' = Tail(m_currSendBuffers) /\ m_currSendSize' = 0
      BY <2>2 DEF write, Pop
    <3>2. Tail(m_currSendBuffers) \in Seq(Buffers)
      BY <1>1, <2>1
    <3>3. QED
      BY <1>3, <3>1, <3>2
  <2>3. CASE n # Left
    BY <1>6, <2>1, <2>3 DEF write
  <2>4. QED
    BY <2>2, <2>3
<1>9. QED
  BY <1>1, <1>5, <1>7, <1>8 DEF TypeOK, connVars

LEMMA SendTyped ==
  ASSUME TypeOK, NEW n \in Sizes, send(n)
  PROVE  TypeOK'
<1>1. /\ total + n <= MaxBytes
      /\ m_sendBuffers' = Append(m_sendBuffers, [first |-> total + 1, size |-> n])
      /\ total' = total + n /\ sentHere' = registered
      /\ UNCHANGED <<connVars, room, m_currSendBuffers, m_currSendSize, wire, pc, todo, closes>>
  BY DEF send
<1>2. n \in Nat /\ total \in 0 .. MaxBytes /\ MaxBytes \in Nat
  BY TcpAssumption DEF TypeOK
<1>3. total' \in 0 .. MaxBytes /\ total + 1 \in 1 .. (MaxBytes + 1)
  BY <1>1, <1>2
<1>4. [first |-> total + 1, size |-> n] \in Buffers
  BY <1>3 DEF Buffers
<1>5. m_sendBuffers' \in Seq(Buffers)
  BY <1>1, <1>4 DEF TypeOK
<1>6. events' \subseteq {"in", "out"}
  BY DEF send, addEvents, TypeOK
<1>7. QED
  BY <1>1, <1>3, <1>5, <1>6 DEF TypeOK, connVars

LEMMA InterruptedTyped ==
  ASSUME TypeOK, Chained, interrupted
  PROVE  TypeOK'
<1>1. /\ m_currSendBuffers # <<>> /\ m_currSendSize' = Left /\ pc' = "wait" /\ todo' = {}
      /\ UNCHANGED <<connVars, room, m_sendBuffers, m_currSendBuffers, total, wire, sentHere, closes>>
  BY DEF interrupted
<1>2. Left \in Nat /\ Start \in Nat \ {0} /\ Start + Left <= total + 1
  BY <1>1, HeadWithin
<1>3. total \in 0 .. MaxBytes /\ MaxBytes \in Nat
  BY TcpAssumption DEF TypeOK
<1>4. Left \in 0 .. MaxBytes
  BY <1>2, <1>3
<1>5. events' \subseteq {"in", "out"}
  BY DEF interrupted, addEvents, TypeOK
<1>6. QED
  BY <1>1, <1>4, <1>5 DEF TypeOK, connVars

LEMMA TypeStep == TypeOK /\ Chained /\ [Next]_vars => TypeOK'
<1> SUFFICES ASSUME TypeOK, Chained, [Next]_vars PROVE TypeOK'
  OBVIOUS
<1>1. CASE \E n \in Sizes : send(n)
  BY <1>1, SendTyped
<1>2. CASE ConnectSocket
  <2>1. conns' \in 0 .. MaxConns
    BY <1>2, TcpAssumption DEF ConnectSocket, TypeOK
  <2>2. room' \in 0 .. Space
    BY <1>2, TcpAssumption DEF ConnectSocket
  <2>3. QED
    BY <1>2, <2>1, <2>2 DEF ConnectSocket, TypeOK
<1>3. CASE Register
  BY <1>3 DEF Register, TypeOK, sendVars
<1>4. CASE close
  BY <1>4 DEF close, Shut, TypeOK, sendVars
<1>5. CASE Handle
  <2>1. CASE poll
    BY <2>1 DEF poll, After, Reported, TypeOK, connVars, sendVars
  <2>2. CASE onHup
    BY <2>2 DEF onHup, TypeOK
  <2>3. CASE onClose
    BY <2>3 DEF onClose, TypeOK, sendVars
  <2>4. CASE onRead
    BY <2>4 DEF onRead, After, Shut, TypeOK, sendVars
  <2>5. CASE take
    <3>1. m_currSendSize' \in 0 .. MaxBytes
      BY <2>5, TcpAssumption DEF take, TypeOK
    <3>2. m_sendBuffers' \in Seq(Buffers) /\ m_currSendBuffers' \in Seq(Buffers)
      BY <2>5 DEF take, TypeOK
    <3>3. events' \subseteq {"in", "out"}
      BY <2>5 DEF take, delEvents, TypeOK
    <3>4. QED
      BY <2>5, <3>1, <3>2, <3>3 DEF take, TypeOK, connVars
  <2>6. CASE \E n \in 1 .. Space : write(n)
    BY <2>6, WriteTyped
  <2>7. CASE skip
    <3>1. m_currSendSize' \in 0 .. MaxBytes
      BY <2>7, TcpAssumption DEF skip, Pop
    <3>2. m_currSendBuffers' \in Seq(Buffers)
      BY <2>7 DEF skip, Pop, TypeOK
    <3>3. QED
      BY <2>7, <3>1, <3>2 DEF skip, TypeOK, connVars
  <2>8. CASE interrupted
    BY <2>8, InterruptedTyped
  <2>9. CASE written
    BY <2>9 DEF written, TypeOK, connVars, sendVars
  <2>10. QED
    BY <1>5, <2>1, <2>2, <2>3, <2>4, <2>5, <2>6, <2>7, <2>8, <2>9 DEF Handle
<1>6. CASE drain
  <2>1. room' \in 0 .. Space
    BY <1>6, TcpAssumption DEF drain
  <2>2. QED
    BY <1>6, <2>1 DEF drain, TypeOK, connVars, sendVars
<1>7. CASE arrive
  BY <1>7 DEF arrive, TypeOK, sendVars
<1>8. CASE UNCHANGED vars
  BY <1>8 DEF vars, TypeOK, connVars, sendVars
<1>9. QED
  BY <1>1, <1>2, <1>3, <1>4, <1>5, <1>6, <1>7, <1>8 DEF Next

-----------------------------------------------------------------------------
\* NothingStranded is inductive, as an entry is registered wherever sentHere
\* holds; only take() gives the event up, and only for two empty lists.
Armed == NothingStranded /\ (sentHere => registered)

LEMMA ArmedStep == TypeOK /\ Counted /\ Armed /\ [Next]_vars => Armed'
<1> SUFFICES ASSUME TypeOK, Counted, Armed, [Next]_vars PROVE Armed'
  OBVIOUS
<1> USE DEF Armed, NothingStranded
<1>1. CASE \E n \in Sizes : send(n)
  BY <1>1 DEF send, addEvents, connVars
<1>2. CASE ConnectSocket
  BY <1>2 DEF ConnectSocket
<1>3. CASE Register
  <2>1. ~sentHere
    BY <1>3 DEF Register, Counted
  <2>2. QED
    BY <1>3, <2>1 DEF Register, sendVars
<1>4. CASE close
  BY <1>4 DEF close, sendVars
<1>5. CASE Handle
  <2>1. CASE poll
    BY <2>1 DEF poll, connVars, sendVars
  <2>2. CASE onHup
    BY <2>2 DEF onHup
  <2>3. CASE onClose
    BY <2>3 DEF onClose, sendVars
  <2>4. CASE onRead
    BY <2>4 DEF onRead, sendVars
  <2>5. CASE take
    <3>1. UNCHANGED <<sentHere, registered>>
      BY <2>5 DEF take, connVars
    <3>2. CASE m_currSendBuffers # <<>>
      BY <2>5, <3>1, <3>2 DEF take
    <3>3. CASE m_currSendBuffers = <<>>
      BY <2>5, <3>1, <3>3 DEF take, delEvents
    <3>4. QED
      BY <3>2, <3>3
  <2>6. CASE \E n \in 1 .. Space : write(n)
    BY <2>6 DEF write, connVars
  <2>7. CASE skip
    BY <2>7 DEF skip, connVars
  <2>8. CASE interrupted
    BY <2>8 DEF interrupted, addEvents, connVars
  <2>9. CASE written
    BY <2>9 DEF written, connVars, sendVars
  <2>10. QED
    BY <1>5, <2>1, <2>2, <2>3, <2>4, <2>5, <2>6, <2>7, <2>8, <2>9 DEF Handle
<1>6. CASE drain
  BY <1>6 DEF drain, connVars, sendVars
<1>7. CASE arrive
  BY <1>7 DEF arrive, sendVars
<1>8. CASE UNCHANGED vars
  BY <1>8 DEF vars, connVars, sendVars
<1>9. QED
  BY <1>1, <1>2, <1>3, <1>4, <1>5, <1>6, <1>7, <1>8 DEF Next

LEMMA StreamStep == TypeOK /\ TypeOK' /\ Stream /\ [Next]_vars => Stream'
<1> SUFFICES ASSUME TypeOK, TypeOK', Stream, [Next]_vars PROVE Stream'
  OBVIOUS
<1>1. CASE \E n \in Sizes : send(n)
  BY <1>1, SendKeepsStream
<1>2. CASE ConnectSocket \/ Register \/ close \/ drain \/ arrive \/ UNCHANGED vars
  <2>1. UNCHANGED streamVars
    BY <1>2 DEF ConnectSocket, Register, close, drain, arrive, vars, sendVars, streamVars
  <2>2. QED
    BY <2>1, StreamFrame
<1>3. CASE Handle
  <2>1. CASE poll \/ onHup \/ onClose \/ onRead \/ written
    <3>1. UNCHANGED streamVars
      BY <2>1 DEF poll, onHup, onClose, onRead, written, sendVars, streamVars
    <3>2. QED
      BY <3>1, StreamFrame
  <2>2. CASE take
    BY <2>2, TakeKeepsStream
  <2>3. CASE \E n \in 1 .. Space : write(n)
    BY <2>3, WriteKeepsStream
  <2>4. CASE skip
    BY <2>4, SkipKeepsStream
  <2>5. CASE interrupted
    BY <2>5, InterruptedKeepsStream
  <2>6. QED
    BY <1>3, <2>1, <2>2, <2>3, <2>4, <2>5 DEF Handle
<1>4. QED
  BY <1>1, <1>2, <1>3 DEF Next

-----------------------------------------------------------------------------
IInv == TypeOK /\ Stream /\ Armed /\ Counted

LEMMA IInvInit == Init => IInv
<1> SUFFICES ASSUME Init PROVE IInv
  OBVIOUS
<1>1. TypeOK
  <2>1. /\ 0 \in 0 .. MaxConns /\ 0 \in 0 .. MaxBytes /\ Space \in 0 .. Space
    BY TcpAssumption
  <2>2. <<>> \in Seq(Buffers) /\ <<>> \in Seq(1 .. MaxBytes)
    OBVIOUS
  <2>3. QED
    BY <2>1, <2>2 DEF Init, TypeOK
<1>2. Stream
  <2>1. /\ m_sendBuffers = <<>> /\ m_currSendBuffers = <<>> /\ total = 0 /\ wire = <<>>
        /\ Len(wire) = 0 /\ Len(m_sendBuffers) = 0 /\ Len(m_currSendBuffers) = 0
    BY DEF Init
  <2>2. Chained
    BY <2>1 DEF Chained, Contiguous, SendStart
  <2>3. StreamInOrder
    BY <2>1 DEF StreamInOrder
  <2>4. QED
    BY <2>2, <2>3 DEF Stream
<1>3. Armed
  BY DEF Init, Armed, NothingStranded
<1>4. QED
  BY <1>1, <1>2, <1>3, CountedInit DEF IInv

LEMMA IInvStep == IInv /\ [Next]_vars => IInv'
BY TypeStep, StreamStep, ArmedStep, CountedStep DEF IInv, Stream

LEMMA Invariant == Spec => []IInv
BY IInvInit, IInvStep, PTL DEF Spec

\* Every variable keeps its type; a Buffer cut by the kernel keeps a count of
\* the rest that lies in its bounds.
THEOREM TcpTypeCorrect == Spec => []TypeOK
<1>1. IInv => TypeOK
  BY DEF IInv
<1>2. QED
  BY Invariant, <1>1, PTL

\* The kernel gets the bytes in the order of the send() calls, none lost, none
\* twice, for blocks of any sizes and any cuts.
THEOREM StreamInOrderAlways == Spec => []StreamInOrder
<1>1. IInv => StreamInOrder
  BY DEF IInv, Stream
<1>2. QED
  BY Invariant, <1>1, PTL

\* While a list is not empty the poll thread is asked for POLLOUT.
THEOREM NothingStrandedAlways == Spec => []NothingStranded
<1>1. IInv => NothingStranded
  BY DEF IInv, Armed
<1>2. QED
  BY Invariant, <1>1, PTL

\* No connection has its close callback called twice.
THEOREM OneCloseEachAlways == Spec => []OneCloseEach
<1>1. IInv => OneCloseEach
  <2> SUFFICES ASSUME IInv PROVE OneCloseEach
    OBVIOUS
  <2>1. closes \in Nat /\ conns \in Nat
    BY TcpAssumption DEF IInv, TypeOK
  <2>2. QED
    BY <2>1 DEF IInv, Counted, OneCloseEach
<1>2. QED
  BY Invariant, <1>1, PTL
=============================================================================

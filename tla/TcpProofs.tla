----------------------------- MODULE TcpProofs -----------------------------
(***************************************************************************)
(* Proofs about Tcp, for any number of programs, sockets, connections and  *)
(* bytes: its type invariant and the four safety invariants that its run   *)
(* checks.  BaseInv holds for ever; IInv, which rests on every connection  *)
(* having a port of its own, until the ports repeat.                       *)
(***************************************************************************)
EXTENDS Tcp, TLAPS

Limit == 1 .. opened

\* What the types of buffered bytes rest on.
DataOK(f) == f.kind = "data" => f.conn \in Connection /\ f.seq \in 1 .. StreamBound

DataFrames == \A i \in 1 .. Len(ring) : DataOK(ring[i])

\* The part that does not depend on the ports.
BaseInv ==
    /\ TypeOK
    /\ irq => ring # <<>>
    /\ \A s \in Socket : socks[s].active => conn[s] \in Limit
    /\ DataFrames
    /\ SocketsNotShared

\* A connection not yet opened is silent; the other end answers only what it
\* heard and sends only on a connection whose handshake is over.
PeerInv(c) ==
    /\ c > opened => peer[c] = Silent
    /\ peer[c].open => peer[c].rcv > 0
    /\ peer[c].rcv > 0 => peer[c].port = c
    /\ peer[c].acked > 0 => peer[c].open
    /\ peer[c].fin => peer[c].open

\* A socket in use agrees with the other end of its own connection.
SocketInv(s) ==
    socks[s].active =>
        /\ socks[s].port = conn[s]
        /\ socks[s].seq >= peer[conn[s]].rcv
        /\ lost[conn[s]] = 0 => socks[s].seq = peer[conn[s]].rcv
        /\ socks[s].state = "ESTABLISHED" => peer[conn[s]].open
        /\ socks[s].ack <= NumbersSent(peer[conn[s]])
        /\ \A i \in 1 .. Len(socks[s].rx) : socks[s].rx[i][1] = conn[s]

\* A frame in the ring is a segment that its connection has sent.
FrameInv(f) ==
    f.kind # "arp" =>
        /\ f.conn \in Limit
        /\ f.port = f.conn
        /\ peer[f.conn].open
        /\ f.kind = "synack" => f.seq = 0
        /\ f.kind = "data" => f.seq \in 1 .. peer[f.conn].sent
        /\ f.kind = "fin" => f.seq = peer[f.conn].sent + 1 /\ peer[f.conn].fin

Frames == \A i \in 1 .. Len(ring) : FrameInv(ring[i])

OwnConnections ==
    \A s, t \in Socket : s # t /\ socks[s].active /\ socks[t].active => conn[s] # conn[t]

\* The inductive invariant until the ports repeat.
IInv ==
    /\ BaseInv
    /\ opened < PortSpace => nextPort = opened + 1
    /\ \A c \in Connection : PeerInv(c)
    /\ \A s \in Socket : SocketInv(s)
    /\ OwnConnections
    /\ Frames

-----------------------------------------------------------------------------
(* Sending.                                                                *)

Flag == {"SYN", "ACK", "PSH", "FIN"}

LEMMA TakesFact ==
    ASSUME NEW flag \in Flag
    PROVE  Takes(flag) \in {0, 1}
BY DEF Takes

\* What the other end becomes by hearing a segment.
LEMMA HeardFact ==
    ASSUME NEW p \in PeerRecord, NEW sock \in SocketRecord, NEW flag \in Flag
    PROVE  LET q == Heard(p, sock, flag)
           IN  /\ q \in PeerRecord
               /\ q.open = p.open /\ q.sent = p.sent /\ q.fin = p.fin
               /\ q.rcv >= p.rcv
               /\ q = p \/ q.port = sock.port
               /\ q.acked = p.acked \/ q.acked = sock.ack
<1>1. CASE (p.rcv = 0) # (flag = "SYN")
  BY <1>1 DEF Heard, PeerRecord
<1>2. CASE ~((p.rcv = 0) # (flag = "SYN"))
  <2> DEFINE r == IF sock.seq = p.rcv THEN p.rcv + Takes(flag) ELSE p.rcv
             k == IF sock.ack > p.acked THEN sock.ack ELSE p.acked
  <2>1. Heard(p, sock, flag) = [p EXCEPT !.port = sock.port, !.rcv = r, !.acked = k]
    BY <1>2 DEF Heard
  <2>2. r \in Nat /\ r >= p.rcv /\ k \in Nat /\ (k = p.acked \/ k = sock.ack)
    BY TakesFact DEF PeerRecord, SocketRecord
  <2> HIDE DEF r, k
  <2>4. [p EXCEPT !.port = sock.port, !.rcv = r, !.acked = k] \in PeerRecord
    BY <2>2 DEF PeerRecord, SocketRecord
  <2> QED BY <2>1, <2>2, <2>4 DEF PeerRecord
<1> QED BY <1>1, <1>2

LEMMA SentFact ==
    ASSUME NEW sock \in SocketRecord, NEW flag \in Flag
    PROVE  LET t == Sent(sock, flag)
           IN  /\ t \in SocketRecord
               /\ t.active = sock.active /\ t.state = sock.state /\ t.port = sock.port
               /\ t.ack = sock.ack /\ t.rx = sock.rx
               /\ t.seq = IF arpResolved THEN sock.seq + Takes(flag) ELSE sock.seq
<1>1. Takes(flag) \in Nat
  BY DEF Takes
<1>2. sock.seq + Takes(flag) \in Nat
  BY <1>1 DEF SocketRecord
<1> QED BY <1>2 DEF Sent, SocketRecord

\* What a send changes.
LEMMA SendFact ==
    ASSUME TypeOK, NEW s \in Socket, NEW c \in Connection, NEW flag \in Flag,
           NEW sock \in SocketRecord, SendFrom(s, c, sock, flag)
    PROVE  /\ socks' \in [Socket -> SocketRecord]
           /\ peer' \in [Connection -> PeerRecord]
           /\ lost' \in [Connection -> 0 .. LossBound]
           /\ socks'[s] = Sent(sock, flag)
           /\ peer'[c] = peer[c] \/ peer'[c] = Heard(peer[c], sock, flag)
           /\ \A t \in Socket : t # s => socks'[t] = socks[t]
           /\ \A d \in Connection : d # c => peer'[d] = peer[d] /\ lost'[d] = lost[d]
<1>1. Sent(sock, flag) \in SocketRecord
  BY SentFact
<1>2. peer[c] \in PeerRecord
  BY DEF TypeOK
<1>3. Heard(peer[c], sock, flag) \in PeerRecord
  BY <1>2, HeardFact
<1>4. socks' = [socks EXCEPT ![s] = Sent(sock, flag)]
  BY DEF SendFrom
<1>5. /\ socks \in [Socket -> SocketRecord] /\ peer \in [Connection -> PeerRecord]
      /\ lost \in [Connection -> 0 .. LossBound]
  BY DEF TypeOK
<1>6. CASE UNCHANGED lost /\ (UNCHANGED peer \/ peer' = [peer EXCEPT ![c] = Heard(@, sock, flag)])
  BY <1>1, <1>3, <1>4, <1>5, <1>6
<1>7. CASE UNCHANGED peer /\ Loses(c, flag)
  <2>1. lost[c] + Takes(flag) \in 0 .. LossBound
    BY <1>5, <1>7, TakesFact, BoundsAssumption DEF Loses
  <2>2. lost' = [lost EXCEPT ![c] = lost[c] + Takes(flag)]
    BY <1>5, <1>7 DEF Loses
  <2> QED BY <1>1, <1>4, <1>5, <1>7, <2>1, <2>2
<1> QED BY <1>6, <1>7 DEF SendFrom

\* The two ends of a connection stay in step until it loses a number.
LEMMA InStep ==
    ASSUME TypeOK, NEW s \in Socket, NEW c \in Connection, NEW flag \in Flag,
           NEW sock \in SocketRecord, SendFrom(s, c, sock, flag),
           (peer[c].rcv = 0) <=> (flag = "SYN"),
           sock.seq >= peer[c].rcv, lost[c] = 0 => sock.seq = peer[c].rcv
    PROVE  /\ socks'[s].seq >= peer'[c].rcv
           /\ lost'[c] = 0 => socks'[s].seq = peer'[c].rcv
<1>1. /\ peer[c] \in PeerRecord /\ lost[c] \in 0 .. LossBound
      /\ peer \in [Connection -> PeerRecord] /\ lost \in [Connection -> 0 .. LossBound]
  BY DEF TypeOK
<1>2. socks'[s] = Sent(sock, flag)
  BY SendFact
<1>3. socks'[s].seq = IF arpResolved THEN sock.seq + Takes(flag) ELSE sock.seq
  BY <1>2, SentFact
<1>4. PICK n \in {0, 1} : n = Takes(flag)
  BY TakesFact
<1>5. PICK r \in Nat : r = peer[c].rcv
  BY <1>1 DEF PeerRecord
<1>6. PICK q \in Nat : q = sock.seq
  BY DEF SocketRecord
<1>7. CASE ~arpResolved /\ UNCHANGED <<peer, lost>>
  BY <1>3, <1>5, <1>6, <1>7
<1>8. CASE arpResolved /\ UNCHANGED lost /\ peer' = [peer EXCEPT ![c] = Heard(@, sock, flag)]
  <2>1. peer'[c] = Heard(peer[c], sock, flag)
    BY <1>1, <1>8
  <2>2. peer'[c].rcv = IF q = r THEN r + n ELSE r
    BY <1>1, <1>4, <1>5, <1>6, <2>1 DEF Heard, PeerRecord
  <2> QED BY <1>3, <1>4, <1>5, <1>6, <1>8, <2>2
<1>9. CASE arpResolved /\ UNCHANGED peer /\ Loses(c, flag)
  <2>1. lost'[c] = lost[c] + n
    BY <1>1, <1>4, <1>9 DEF Loses
  <2> QED BY <1>1, <1>3, <1>4, <1>5, <1>6, <1>9, <2>1
<1> QED BY <1>7, <1>8, <1>9 DEF SendFrom

\* The other ends keep what they have sent.
PeersKeep ==
    \A c \in Connection :
        /\ peer'[c].open = peer[c].open
        /\ peer'[c].sent = peer[c].sent
        /\ peer'[c].fin = peer[c].fin

\* ... or send more, but nothing new behind a FIN.
PeersGrow ==
    \A c \in Connection :
        /\ peer[c].open => peer'[c].open
        /\ peer'[c].sent \in Nat /\ peer'[c].sent >= peer[c].sent
        /\ peer[c].fin => peer'[c].fin /\ peer'[c].sent = peer[c].sent

LEMMA KeepIsGrow ==
    ASSUME TypeOK, PeersKeep
    PROVE  PeersGrow
<1>1. ASSUME NEW c \in Connection PROVE peer[c].sent \in Nat
  BY BoundsAssumption DEF TypeOK, PeerRecord
<1> QED BY <1>1 DEF PeersKeep, PeersGrow

LEMMA FramesKept ==
    ASSUME TypeOK, PeersGrow, opened' \in Nat, opened' >= opened, opened' <= Connections,
           NEW f \in FrameRecord, FrameInv(f)
    PROVE  FrameInv(f)'
<1>1. CASE f.kind = "arp"
  BY <1>1 DEF FrameInv
<1>2. CASE f.kind # "arp"
  <2>1. f.conn \in Connection /\ f.conn \in 1 .. opened'
    BY <1>2, BoundsAssumption DEF FrameInv, Limit, TypeOK, Connection
  <2>2. f.kind = "data" => f.seq \in 1 .. peer'[f.conn].sent
    BY <1>2, <2>1, BoundsAssumption DEF FrameInv, PeersGrow, TypeOK, PeerRecord, FrameRecord
  <2> QED BY <1>2, <2>1, <2>2 DEF FrameInv, Limit, PeersGrow
<1> QED BY <1>1, <1>2

\* What a send leaves of the types and the owners.
LEMMA SendBase ==
    ASSUME BaseInv, UNCHANGED <<conn, opened, fd>>,
           NEW s \in Socket, NEW c \in Connection, NEW flag \in Flag,
           NEW sock \in SocketRecord, Len(sock.rx) <= RxCap,
           socks[s].active, sock.active,
           SendFrom(s, c, sock, flag)
    PROVE  /\ socks' \in [Socket -> SocketRecord]
           /\ \A t \in Socket : Len(socks'[t].rx) <= RxCap
           /\ peer' \in [Connection -> PeerRecord]
           /\ lost' \in [Connection -> 0 .. LossBound]
           /\ \A t \in Socket : socks'[t].active => conn'[t] \in 1 .. opened'
           /\ SocketsNotShared'
<1>1. TypeOK
  BY DEF BaseInv
<1>2. /\ socks' \in [Socket -> SocketRecord]
      /\ peer' \in [Connection -> PeerRecord]
      /\ lost' \in [Connection -> 0 .. LossBound]
      /\ socks'[s] = Sent(sock, flag)
      /\ \A t \in Socket : t # s => socks'[t] = socks[t]
  BY <1>1, SendFact
<1>3. socks'[s].active = sock.active /\ socks'[s].rx = sock.rx
  <2>1. Sent(sock, flag).active = sock.active /\ Sent(sock, flag).rx = sock.rx
    BY SentFact
  <2> QED BY <1>2, <2>1
<1>4. ASSUME NEW t \in Socket PROVE Len(socks'[t].rx) <= RxCap
  BY <1>1, <1>2, <1>3 DEF TypeOK
<1>5. \A t \in Socket : socks'[t].active = socks[t].active
  BY <1>2, <1>3
<1>6. \A t \in Socket : socks'[t].active => conn'[t] \in 1 .. opened'
  BY <1>5 DEF BaseInv, Limit
<1>7. SocketsNotShared'
  <2>1. \A a \in Apps : fd[a] # NoSocket => fd[a] \in Socket
    BY <1>1 DEF TypeOK
  <2> QED BY <1>5, <2>1 DEF SocketsNotShared, BaseInv
<1> QED BY <1>2, <1>4, <1>6, <1>7

\* A segment other than a SYN, from a socket in use that stays in step.
LEMMA SendKeeps ==
    ASSUME IInv, UNCHANGED <<conn, opened>>,
           NEW s \in Socket, socks[s].active, peer[conn[s]].rcv > 0,
           NEW flag \in Flag \ {"SYN"}, NEW sock \in SocketRecord,
           sock.active, sock.port = socks[s].port, sock.seq = socks[s].seq,
           sock.state = "ESTABLISHED" => peer[conn[s]].open,
           sock.ack <= NumbersSent(peer[conn[s]]),
           \A i \in 1 .. Len(sock.rx) : sock.rx[i][1] = conn[s],
           SendFrom(s, conn[s], sock, flag)
    PROVE  /\ \A c \in Connection : PeerInv(c)'
           /\ \A t \in Socket : SocketInv(t)'
           /\ OwnConnections'
           /\ PeersKeep
<1>0. PICK c : c = conn[s]
  OBVIOUS
<1>1. TypeOK /\ SocketInv(s) /\ c \in Limit /\ c \in Connection /\ flag \in Flag
  BY <1>0, BoundsAssumption DEF IInv, BaseInv, TypeOK, Limit, Connection
<1>2. peer[c] \in PeerRecord /\ c <= opened /\ PeerInv(c)
  BY <1>1 DEF IInv, TypeOK, Limit
<1>3. UNCHANGED <<conn, opened>>
  OBVIOUS
<1>4. /\ socks' \in [Socket -> SocketRecord]
      /\ peer' \in [Connection -> PeerRecord]
      /\ socks'[s] = Sent(sock, flag)
      /\ peer'[c] = peer[c] \/ peer'[c] = Heard(peer[c], sock, flag)
      /\ \A t \in Socket : t # s => socks'[t] = socks[t]
      /\ \A d \in Connection : d # c => peer'[d] = peer[d] /\ lost'[d] = lost[d]
  BY <1>0, <1>1, SendFact
<1>5. /\ peer'[c] \in PeerRecord
      /\ peer'[c].open = peer[c].open /\ peer'[c].sent = peer[c].sent
      /\ peer'[c].fin = peer[c].fin
      /\ peer'[c].rcv >= peer[c].rcv
      /\ peer'[c] = peer[c] \/ peer'[c].port = sock.port
      /\ peer'[c].acked = peer[c].acked \/ peer'[c].acked = sock.ack
  <2>1. CASE peer'[c] = peer[c]
    BY <1>2, <2>1 DEF PeerRecord
  <2>2. CASE peer'[c] = Heard(peer[c], sock, flag)
    BY <1>1, <1>2, <2>2, HeardFact
  <2> QED BY <1>4, <2>1, <2>2
<1>6. /\ socks'[s].active = sock.active /\ socks'[s].state = sock.state
      /\ socks'[s].port = sock.port /\ socks'[s].ack = sock.ack /\ socks'[s].rx = sock.rx
  <2>1. /\ Sent(sock, flag).active = sock.active /\ Sent(sock, flag).state = sock.state
        /\ Sent(sock, flag).port = sock.port /\ Sent(sock, flag).ack = sock.ack
        /\ Sent(sock, flag).rx = sock.rx
    BY <1>1, SentFact
  <2> QED BY <1>4, <2>1
<1>7. /\ socks'[s].seq >= peer'[c].rcv
      /\ lost'[c] = 0 => socks'[s].seq = peer'[c].rcv
  <2>1. sock.seq >= peer[c].rcv /\ (lost[c] = 0 => sock.seq = peer[c].rcv)
    BY <1>0, <1>1 DEF SocketInv
  <2>2. ~(peer[c].rcv = 0) /\ flag # "SYN"
    BY <1>0, <1>2 DEF PeerRecord
  <2> QED BY <1>0, <1>1, <2>1, <2>2, InStep
<1>8. PeersKeep
  BY <1>4, <1>5 DEF PeersKeep
<1>10. peer[c].rcv > 0 /\ sock.port = c
  BY <1>0, <1>1 DEF SocketInv
<1>11. ASSUME NEW d \in Connection PROVE PeerInv(d)'
  <2>1. PeerInv(d)
    BY DEF IInv
  <2>2. CASE d # c
    BY <1>3, <1>4, <2>1, <2>2 DEF PeerInv
  <2>3. CASE d = c
    <3>1. peer'[c] \in PeerRecord /\ peer'[c].rcv > 0
      BY <1>2, <1>4, <1>5, <1>10 DEF PeerRecord
    <3>2. peer'[c].port = c
      BY <1>2, <1>4, <1>5, <1>10 DEF PeerInv
    <3>3. peer'[c].acked > 0 => peer[c].open
      <4>1. sock.ack > 0 => peer[c].open
        BY <1>0 DEF NumbersSent, SocketRecord
      <4> QED BY <1>2, <1>4, <1>5, <4>1 DEF PeerInv
    <3>4. ~(c > opened')
      BY <1>1, <1>2, <1>3 DEF TypeOK, Connection
    <3>5. peer'[c].fin => peer'[c].open
      BY <1>2, <1>5 DEF PeerInv
    <3> QED BY <1>5, <2>3, <3>1, <3>2, <3>3, <3>4, <3>5 DEF PeerInv
  <2> QED BY <2>2, <2>3
<1>12. ASSUME NEW d \in Connection PROVE NumbersSent(peer'[d]) = NumbersSent(peer[d])
  BY <1>8 DEF PeersKeep, NumbersSent
<1>13. ASSUME NEW t \in Socket PROVE SocketInv(t)'
  <2>1. CASE t # s
    <3>1. socks[t].active => conn[t] # c /\ conn[t] \in Connection /\ SocketInv(t)
      <4>1. SocketInv(t) /\ OwnConnections
        BY DEF IInv
      <4>2. socks[t].active => conn[t] # c
        BY <1>0, <2>1, <4>1 DEF OwnConnections
      <4>3. socks[t].active => conn[t] \in 1 .. opened
        BY DEF IInv, BaseInv, Limit
      <4>4. opened \in 0 .. Connections
        BY <1>1 DEF TypeOK
      <4> QED BY <4>1, <4>2, <4>3, <4>4, BoundsAssumption DEF Connection
    <3> QED BY <1>3, <1>4, <2>1, <3>1 DEF SocketInv
  <2>2. CASE t = s
    <3>1. conn'[s] = c
      BY <1>0, <1>3
    <3>2. /\ socks'[s].port = c /\ socks'[s].seq >= peer'[c].rcv
          /\ lost'[c] = 0 => socks'[s].seq = peer'[c].rcv
      BY <1>6, <1>7, <1>10
    <3>3. socks'[s].state = "ESTABLISHED" => peer'[c].open
      BY <1>0, <1>4, <1>5, <1>6
    <3>4. socks'[s].ack <= NumbersSent(peer'[c])
      BY <1>0, <1>1, <1>6, <1>12
    <3>5. \A i \in 1 .. Len(socks'[s].rx) : socks'[s].rx[i][1] = c
      BY <1>0, <1>6
    <3> QED BY <2>2, <3>1, <3>2, <3>3, <3>4, <3>5 DEF SocketInv
  <2> QED BY <2>1, <2>2
<1>14. \A t \in Socket : socks'[t].active = socks[t].active
  BY <1>4, <1>6
<1>15. OwnConnections'
  BY <1>3, <1>14 DEF OwnConnections, IInv
<1> QED BY <1>8, <1>11, <1>13, <1>15

-----------------------------------------------------------------------------
(* The ring.                                                               *)

LEMMA RingAppend ==
    ASSUME TypeOK, Frames, PeersGrow, UNCHANGED opened,
           NEW f \in FrameRecord, FrameInv(f)', ring' = Append(ring, f)
    PROVE  Frames'
<1>1. ring \in Seq(FrameRecord) /\ opened \in Nat /\ opened <= Connections
  BY BoundsAssumption DEF TypeOK
<1>2. ring' \in Seq(FrameRecord) /\ Len(ring') = Len(ring) + 1
  BY <1>1
<1>3. ASSUME NEW i \in 1 .. Len(ring') PROVE FrameInv(ring[i])'
  <2>1. CASE i = Len(ring')
    <3>1. ring'[i] = f
      BY <1>1, <1>2, <2>1
    <3> QED BY <3>1 DEF FrameInv
  <2>2. CASE i # Len(ring')
    <3>1. i \in 1 .. Len(ring)
      BY <1>1, <1>2, <2>2
    <3>2. PICK g : g = ring[i]
      OBVIOUS
    <3>3. ring'[i] = g /\ g \in FrameRecord
      BY <1>1, <3>1, <3>2
    <3>4. FrameInv(g)
      BY <3>1, <3>2 DEF Frames
    <3>5. FrameInv(g)'
      BY <1>1, <3>3, <3>4, FramesKept
    <3> QED BY <3>3, <3>5 DEF FrameInv
  <2> QED BY <2>1, <2>2
<1> QED BY <1>3 DEF Frames

LEMMA RingSame ==
    ASSUME TypeOK, Frames, PeersGrow, opened' \in Nat, opened' >= opened,
           opened' <= Connections, UNCHANGED ring
    PROVE  Frames'
<1>1. ring \in Seq(FrameRecord)
  BY DEF TypeOK
<1>2. ASSUME NEW i \in 1 .. Len(ring) PROVE FrameInv(ring[i])'
  <2>1. PICK g : g = ring[i]
    OBVIOUS
  <2>2. ring'[i] = g /\ g \in FrameRecord
    BY <1>1, <1>2, <2>1
  <2>3. FrameInv(g)
    BY <1>2, <2>1 DEF Frames
  <2>4. FrameInv(g)'
    BY <2>2, <2>3, FramesKept
  <2> QED BY <2>2, <2>4 DEF FrameInv
<1> QED BY <1>2 DEF Frames

LEMMA RingTail ==
    ASSUME TypeOK, Frames, PeersGrow, UNCHANGED opened, ring # <<>>, ring' = Tail(ring)
    PROVE  Frames'
<1>1. ring \in Seq(FrameRecord) /\ opened \in Nat /\ opened <= Connections
  BY BoundsAssumption DEF TypeOK
<1>2. ring' \in Seq(FrameRecord) /\ Len(ring') = Len(ring) - 1
  BY <1>1
<1>3. ASSUME NEW i \in 1 .. Len(ring') PROVE FrameInv(ring[i])'
  <2>1. i + 1 \in 1 .. Len(ring) /\ ring'[i] = ring[i + 1]
    BY <1>1, <1>2
  <2>2. PICK g : g = ring[i + 1]
    OBVIOUS
  <2>3. ring'[i] = g /\ g \in FrameRecord
    BY <1>1, <2>1, <2>2
  <2>4. FrameInv(g)
    BY <2>1, <2>2 DEF Frames
  <2>5. FrameInv(g)'
    BY <1>1, <2>3, <2>4, FramesKept
  <2> QED BY <2>3, <2>5 DEF FrameInv
<1> QED BY <1>3 DEF Frames

-----------------------------------------------------------------------------
(* The types and the owners.                                               *)

LEMMA ByteFramesAppend ==
    ASSUME DataFrames, ring \in Seq(FrameRecord), NEW f \in FrameRecord, DataOK(f),
           ring' = Append(ring, f)
    PROVE  ring' \in Seq(FrameRecord) /\ ring' # <<>> /\ DataFrames'
<1>1. ring' \in Seq(FrameRecord) /\ Len(ring') = Len(ring) + 1
  OBVIOUS
<1>2. ASSUME NEW i \in 1 .. Len(ring') PROVE DataOK(ring'[i])
  <2>1. CASE i = Len(ring')
    <3>1. ring'[i] = f
      BY <1>1, <2>1
    <3> QED BY <3>1 DEF DataOK
  <2>2. CASE i # Len(ring')
    <3>1. i \in 1 .. Len(ring) /\ ring'[i] = ring[i]
      BY <1>1, <2>2
    <3> QED BY <3>1 DEF DataFrames, DataOK
  <2> QED BY <2>1, <2>2
<1> QED BY <1>1, <1>2 DEF DataFrames, DataOK

LEMMA ByteFramesTail ==
    ASSUME DataFrames, ring \in Seq(FrameRecord), ring # <<>>, ring' = Tail(ring)
    PROVE  ring' \in Seq(FrameRecord) /\ DataFrames'
<1>1. ring' \in Seq(FrameRecord) /\ Len(ring') = Len(ring) - 1
  OBVIOUS
<1>2. ASSUME NEW i \in 1 .. Len(ring') PROVE DataOK(ring'[i])
  <2>1. i + 1 \in 1 .. Len(ring) /\ ring'[i] = ring[i + 1]
    BY <1>1
  <2> QED BY <2>1 DEF DataFrames, DataOK
<1> QED BY <1>1, <1>2 DEF DataFrames, DataOK

\* A descriptor leads to a socket in use.
LEMMA UsableFact ==
    ASSUME BaseInv, NEW a \in Apps, fd[a] # NoSocket
    PROVE  fd[a] \in Socket /\ socks[fd[a]].active
BY DEF BaseInv, TypeOK, SocketsNotShared

LEMMA ActiveConn ==
    ASSUME BaseInv, NEW s \in Socket, socks[s].active
    PROVE  /\ socks[s] \in SocketRecord /\ Len(socks[s].rx) <= RxCap
           /\ conn[s] \in Connection /\ conn[s] \in 1 .. opened
BY BoundsAssumption DEF BaseInv, TypeOK, Limit, Connection

LEMMA InitBase == Init => BaseInv
<1> SUFFICES ASSUME Init PROVE BaseInv
  OBVIOUS
<1>1. Silent \in PeerRecord
  BY BoundsAssumption DEF Silent, PeerRecord, Port
<1>2. TypeOK
  <2> DEFINE closed == [active |-> FALSE, state |-> "CLOSED", port |-> 0,
                        seq |-> 0, ack |-> 0, rx |-> <<>>, ready |-> FALSE]
  <2>1. closed \in SocketRecord
    <3>1. 0 \in Port /\ 0 \in Nat
      BY BoundsAssumption DEF Port
    <3>2. <<>> \in Seq(Connection \X (1 .. StreamBound))
      OBVIOUS
    <3> QED BY <3>1, <3>2 DEF SocketRecord
  <2>2. socks = [s \in Socket |-> closed]
    BY DEF Init
  <2>3. Len(closed.rx) = 0
    OBVIOUS
  <2> HIDE DEF closed
  <2>4. socks \in [Socket -> SocketRecord] /\ \A s \in Socket : Len(socks[s].rx) <= RxCap
    BY <2>1, <2>2, <2>3, BoundsAssumption
  <2>5. ring \in Seq(FrameRecord)
    BY DEF Init
  <2>6. /\ peer \in [Connection -> PeerRecord] /\ conn \in [Socket -> 0 .. Connections]
        /\ lost \in [Connection -> 0 .. LossBound]
    BY <1>1, BoundsAssumption DEF Init
  <2>7. fd \in [Apps -> Socket \cup {NoSocket}]
    BY DEF Init
  <2>8. /\ nextPort \in 1 .. PortSpace /\ opened \in 0 .. Connections
        /\ arpAsked \in BOOLEAN /\ arpResolved \in BOOLEAN /\ irq \in BOOLEAN
    <3>1. /\ nextPort = 1 /\ opened = 0
          /\ arpAsked = FALSE /\ arpResolved = FALSE /\ irq = FALSE
      BY DEF Init
    <3>2. 1 \in 1 .. PortSpace /\ 0 \in 0 .. Connections
      BY BoundsAssumption
    <3> QED BY <3>1, <3>2
  <2> QED BY <2>4, <2>5, <2>6, <2>7, <2>8 DEF TypeOK
<1>3. SocketsNotShared /\ DataFrames /\ \A s \in Socket : ~socks[s].active
  BY DEF Init, SocketsNotShared, DataFrames
<1> QED BY <1>2, <1>3 DEF Init, BaseInv

LEMMA WriteBase ==
    ASSUME BaseInv, NEW a \in Apps, Write(a)
    PROVE  BaseInv'
<1>1. PICK s : s = fd[a]
  OBVIOUS
<1>2. s \in Socket /\ socks[s].active
  BY <1>1, UsableFact DEF Write, Usable
<1>3. PICK c \in Connection : c = conn[s]
  BY <1>2, ActiveConn
<1>4. SendFrom(s, c, socks[s], "PSH") /\ UNCHANGED <<nextPort, opened, conn, fd, net>>
  BY <1>1, <1>3 DEF Write, pool
<1>5. "PSH" \in Flag
  BY DEF Flag
<1>6. /\ socks' \in [Socket -> SocketRecord]
      /\ \A t \in Socket : Len(socks'[t].rx) <= RxCap
      /\ peer' \in [Connection -> PeerRecord]
      /\ lost' \in [Connection -> 0 .. LossBound]
      /\ \A t \in Socket : socks'[t].active => conn'[t] \in 1 .. opened'
      /\ SocketsNotShared'
  <2>1. socks[s] \in SocketRecord /\ Len(socks[s].rx) <= RxCap
    BY <1>2, ActiveConn
  <2> QED BY <1>2, <1>4, <1>5, <2>1, SendBase
<1> QED BY <1>4, <1>6 DEF BaseInv, DataFrames, TypeOK, net, Limit

\* What a read leaves of the socket.
LEMMA ReadFact ==
    ASSUME BaseInv, NEW a \in Apps, Read(a)
    PROVE  \E s \in Socket, sock \in SocketRecord :
              /\ s = fd[a] /\ socks[s].active
              /\ socks' = [socks EXCEPT ![s] = sock]
              /\ sock.active /\ sock.state = socks[s].state /\ sock.port = socks[s].port
              /\ sock.seq = socks[s].seq /\ sock.ack = socks[s].ack /\ sock.rx = <<>>
<1>1. PICK s : s = fd[a]
  OBVIOUS
<1>2. s \in Socket /\ socks[s].active /\ TypeOK
  BY <1>1, UsableFact DEF Read, Usable, BaseInv
<1> DEFINE sock == [socks[s] EXCEPT !.ready = FALSE, !.rx = <<>>]
<1>3. socks[s] \in SocketRecord
  BY <1>2 DEF TypeOK
<1>4. sock \in SocketRecord /\ sock.active
  <2>1. <<>> \in Seq(Connection \X (1 .. StreamBound))
    OBVIOUS
  <2>2. sock \in SocketRecord
    BY <1>3, <2>1 DEF SocketRecord
  <2>3. sock.active
    BY <1>2, <1>3 DEF SocketRecord
  <2> QED BY <2>2, <2>3
<1>5. socks' = [socks EXCEPT ![s] = sock]
  BY <1>1, <1>2, <1>3 DEF Read, TypeOK, SocketRecord
<1> QED BY <1>1, <1>2, <1>3, <1>4, <1>5 DEF SocketRecord

LEMMA ReadBase ==
    ASSUME BaseInv, NEW a \in Apps, Read(a)
    PROVE  BaseInv'
<1>1. PICK s \in Socket, sock \in SocketRecord :
        /\ socks[s].active /\ socks' = [socks EXCEPT ![s] = sock]
        /\ sock.active /\ sock.rx = <<>>
  BY ReadFact
<1>2. UNCHANGED <<nextPort, opened, conn, fd, peer, lost, net>> /\ TypeOK
  BY DEF Read, pool, BaseInv
<1>3. socks' \in [Socket -> SocketRecord] /\ socks'[s] = sock
      /\ \A t \in Socket : t # s => socks'[t] = socks[t]
  BY <1>1, <1>2 DEF TypeOK
<1>4. \A t \in Socket : Len(socks'[t].rx) <= RxCap
  BY <1>1, <1>2, <1>3, BoundsAssumption DEF TypeOK
<1>5. \A t \in Socket : socks'[t].active = socks[t].active
  BY <1>1, <1>2, <1>3
<1>6. SocketsNotShared'
  <2>1. \A b \in Apps : fd[b] # NoSocket => fd[b] \in Socket
    BY UsableFact
  <2> QED BY <1>2, <1>5, <2>1 DEF SocketsNotShared, BaseInv
<1>7. TypeOK'
  BY <1>2, <1>3, <1>4 DEF TypeOK, net
<1> QED BY <1>2, <1>5, <1>6, <1>7 DEF BaseInv, DataFrames, Limit, net

LEMMA KillBase ==
    ASSUME BaseInv, NEW a \in Apps, Kill(a)
    PROVE  BaseInv'
<1>1. TypeOK'
  BY DEF Kill, BaseInv, TypeOK, pool, net
<1>2. SocketsNotShared'
  BY DEF Kill, BaseInv, TypeOK, SocketsNotShared
<1> QED BY <1>1, <1>2 DEF Kill, BaseInv, DataFrames, Limit, pool, net

LEMMA QuietBase ==
    ASSUME BaseInv, AskArp \/ UNCHANGED vars
    PROVE  BaseInv'
<1>1. UNCHANGED <<socks, nextPort, opened, conn, fd, peer, lost, ring, irq, arpResolved>>
      /\ arpAsked' \in BOOLEAN
  BY DEF AskArp, vars, pool, net, BaseInv, TypeOK
<1>2. TypeOK'
  BY <1>1 DEF BaseInv, TypeOK
<1> QED BY <1>1, <1>2 DEF BaseInv, DataFrames, Limit, SocketsNotShared

\* The closing socket and what it sends.
LEMMA CloseFact ==
    ASSUME BaseInv, NEW a \in Apps, Close(a)
    PROVE  \E s \in Socket, c \in Connection, sock \in SocketRecord :
              /\ s = fd[a] /\ s # NoSocket /\ c = conn[s] /\ socks[s].active
              /\ SendFrom(s, c, sock, "FIN")
              /\ ~sock.active /\ sock.port = socks[s].port /\ sock.seq = socks[s].seq
              /\ sock.ack = socks[s].ack /\ sock.rx = socks[s].rx
<1>1. PICK s : s = fd[a]
  OBVIOUS
<1>2. s \in Socket /\ socks[s].active /\ s # NoSocket
  BY <1>1, UsableFact DEF Close
<1>3. socks[s] \in SocketRecord
  BY <1>2, ActiveConn
<1>4. PICK c \in Connection : c = conn[s]
  BY <1>2, ActiveConn
<1> DEFINE sock == [socks[s] EXCEPT !.active = FALSE]
<1>5. SendFrom(s, c, sock, "FIN")
  BY <1>1, <1>2, <1>4 DEF Close, Usable
<1>6. sock \in SocketRecord /\ ~sock.active /\ sock.port = socks[s].port
      /\ sock.seq = socks[s].seq /\ sock.ack = socks[s].ack /\ sock.rx = socks[s].rx
  BY <1>3 DEF SocketRecord
<1> QED BY <1>1, <1>2, <1>4, <1>5, <1>6

LEMMA CloseBase ==
    ASSUME BaseInv, NEW a \in Apps, Close(a)
    PROVE  BaseInv'
<1>1. PICK s \in Socket, c \in Connection, sock \in SocketRecord :
        /\ s = fd[a] /\ s # NoSocket /\ socks[s].active
        /\ SendFrom(s, c, sock, "FIN") /\ ~sock.active /\ sock.rx = socks[s].rx
  BY CloseFact
<1>2. /\ UNCHANGED <<nextPort, opened, conn, net>>
      /\ fd' = [fd EXCEPT ![a] = NoSocket] /\ TypeOK
  BY DEF Close, pool, BaseInv
<1>3. "FIN" \in Flag
  BY DEF Flag
<1>4. /\ socks' \in [Socket -> SocketRecord]
      /\ peer' \in [Connection -> PeerRecord]
      /\ lost' \in [Connection -> 0 .. LossBound]
      /\ socks'[s] = Sent(sock, "FIN")
      /\ \A t \in Socket : t # s => socks'[t] = socks[t]
  BY <1>1, <1>2, <1>3, SendFact
<1>5. ~socks'[s].active /\ Len(socks'[s].rx) <= RxCap
  <2>1. Sent(sock, "FIN").active = sock.active /\ Sent(sock, "FIN").rx = sock.rx
    BY <1>3, SentFact
  <2> QED BY <1>1, <1>2, <1>4, <2>1 DEF TypeOK
<1>6. \A t \in Socket : socks'[t].active => socks[t].active
  BY <1>4, <1>5
<1>7. SocketsNotShared'
  <2>1. ASSUME NEW b \in Apps, fd'[b] # NoSocket
        PROVE  b # a /\ fd'[b] = fd[b] /\ fd[b] \in Socket /\ fd[b] # s
    <3>1. b # a /\ fd'[b] = fd[b]
      BY <1>2, <2>1 DEF TypeOK
    <3> QED BY <1>1, <2>1, <3>1, UsableFact DEF BaseInv, SocketsNotShared
  <2>2. \A b \in Apps : fd'[b] # NoSocket => socks'[fd'[b]].active
    BY <1>4, <2>1, UsableFact
  <2>3. \A b, d \in Apps : b # d /\ fd'[b] # NoSocket => fd'[b] # fd'[d]
    BY <2>1 DEF BaseInv, SocketsNotShared
  <2> QED BY <2>2, <2>3 DEF SocketsNotShared
<1>8. TypeOK'
  <2>1. \A t \in Socket : Len(socks'[t].rx) <= RxCap
    BY <1>2, <1>4, <1>5 DEF TypeOK
  <2>2. fd' \in [Apps -> Socket \cup {NoSocket}]
    BY <1>2 DEF TypeOK
  <2> QED BY <1>2, <1>4, <2>1, <2>2 DEF TypeOK, net
<1> QED BY <1>2, <1>6, <1>7, <1>8 DEF BaseInv, DataFrames, Limit, net

\* The socket of a new connection and what it sends.
LEMMA OpenFact ==
    ASSUME BaseInv, NEW a \in Apps, Open(a)
    PROVE  \E s \in Socket, c \in Connection, sock \in SocketRecord :
              /\ c = opened + 1 /\ ~socks[s].active
              /\ fd' = [fd EXCEPT ![a] = s] /\ conn' = [conn EXCEPT ![s] = c]
              /\ SendFrom(s, c, sock, "SYN") /\ arpAsked' \in BOOLEAN
              /\ sock.active /\ sock.state = "SYN_SENT" /\ sock.port = nextPort
              /\ sock.seq = 0 /\ sock.ack = 0 /\ sock.rx = <<>>
<1>1. TypeOK /\ opened < Connections
  BY DEF Open, BaseInv
<1>2. PICK c \in Connection : c = opened + 1
  BY <1>1, BoundsAssumption DEF TypeOK, Connection
<1>3. PICK s \in Socket :
        /\ ~socks[s].active
        /\ fd' = [fd EXCEPT ![a] = s]
        /\ conn' = [conn EXCEPT ![s] = c]
        /\ Connect(s, c)
  BY <1>2 DEF Open, IsFirst, FreeSockets
<1>4. PICK new : new = NewSocket(s)
  OBVIOUS
<1>5. <<>> \in Seq(Connection \X (1 .. StreamBound)) /\ nextPort \in Port
  BY <1>1, BoundsAssumption DEF TypeOK, Port
<1>6. new = [active |-> TRUE, state |-> "CLOSED", port |-> nextPort,
             seq |-> 0, ack |-> 0, rx |-> <<>>, ready |-> FALSE]
  BY <1>4 DEF NewSocket, NewPort
<1>7. /\ new \in SocketRecord /\ new.active /\ new.port = nextPort
      /\ new.seq = 0 /\ new.ack = 0 /\ new.rx = <<>>
  BY <1>5, <1>6 DEF SocketRecord
<1> DEFINE sock == [new EXCEPT !.state = "SYN_SENT"]
<1>8. SendFrom(s, c, sock, "SYN") /\ arpAsked' \in BOOLEAN
  BY <1>3, <1>4 DEF Connect
<1>9. /\ sock \in SocketRecord /\ sock.active /\ sock.state = "SYN_SENT"
      /\ sock.port = nextPort /\ sock.seq = 0 /\ sock.ack = 0 /\ sock.rx = <<>>
  BY <1>7 DEF SocketRecord
<1> QED BY <1>2, <1>3, <1>8, <1>9

LEMMA OpenBase ==
    ASSUME BaseInv, NEW a \in Apps, Open(a)
    PROVE  BaseInv'
<1>1. PICK s \in Socket, c \in Connection, sock \in SocketRecord :
        /\ c = opened + 1 /\ ~socks[s].active
        /\ fd' = [fd EXCEPT ![a] = s] /\ conn' = [conn EXCEPT ![s] = c]
        /\ SendFrom(s, c, sock, "SYN") /\ arpAsked' \in BOOLEAN
        /\ sock.active /\ sock.rx = <<>>
  BY OpenFact
<1>2. /\ TypeOK /\ nextPort' = (nextPort % PortSpace) + 1 /\ opened' = c
      /\ UNCHANGED <<arpResolved, ring, irq>>
  BY <1>1 DEF Open, BaseInv
<1>3. "SYN" \in Flag
  BY DEF Flag
<1>4. /\ socks' \in [Socket -> SocketRecord]
      /\ peer' \in [Connection -> PeerRecord]
      /\ lost' \in [Connection -> 0 .. LossBound]
      /\ socks'[s] = Sent(sock, "SYN")
      /\ \A t \in Socket : t # s => socks'[t] = socks[t]
  BY <1>1, <1>2, <1>3, SendFact
<1>5. socks'[s].active /\ socks'[s].rx = <<>>
  <2>1. Sent(sock, "SYN").active = sock.active /\ Sent(sock, "SYN").rx = sock.rx
    BY <1>3, SentFact
  <2> QED BY <1>1, <1>4, <2>1
<1>6. SocketsNotShared'
  <2>1. fd'[a] = s
    BY <1>1, <1>2 DEF TypeOK
  <2>2. ASSUME NEW b \in Apps, b # a
        PROVE  fd'[b] = fd[b] /\ (fd[b] # NoSocket =>
                    fd[b] \in Socket /\ fd[b] # s /\ socks'[fd[b]].active)
    <3>1. fd'[b] = fd[b]
      BY <1>1, <1>2, <2>2 DEF TypeOK
    <3>2. ASSUME fd[b] # NoSocket
          PROVE  fd[b] \in Socket /\ socks[fd[b]].active
      BY <3>2, UsableFact
    <3> QED BY <1>1, <1>4, <3>1, <3>2
  <2>3. s # NoSocket
    BY BoundsAssumption DEF Socket
  <2>4. \A b \in Apps : fd'[b] # NoSocket => socks'[fd'[b]].active
    BY <1>5, <2>1, <2>2
  <2>5. ASSUME NEW b \in Apps, NEW d \in Apps, b # d, fd'[b] # NoSocket
        PROVE  fd'[b] # fd'[d]
    <3>1. CASE b = a \/ d = a
      BY <2>1, <2>2, <2>3, <2>5, <3>1
    <3>2. CASE b # a /\ d # a
      BY <2>2, <2>5, <3>2 DEF BaseInv, SocketsNotShared
    <3> QED BY <3>1, <3>2
  <2> QED BY <2>4, <2>5 DEF SocketsNotShared
<1>7. TypeOK'
  <2>1. \A t \in Socket : Len(socks'[t].rx) <= RxCap
    <3>1. Len(socks'[s].rx) <= RxCap
      BY <1>5, BoundsAssumption
    <3> QED BY <1>2, <1>4, <3>1 DEF TypeOK
  <2>2. fd' \in [Apps -> Socket \cup {NoSocket}] /\ conn' \in [Socket -> 0 .. Connections]
    BY <1>1, <1>2 DEF TypeOK, Connection
  <2>3. opened' \in 0 .. Connections
    BY <1>2, BoundsAssumption DEF Connection
  <2>4. nextPort' \in 1 .. PortSpace
    <3>1. nextPort % PortSpace \in 0 .. PortSpace - 1
      BY <1>2, BoundsAssumption DEF TypeOK
    <3> QED BY <1>2, <3>1, BoundsAssumption
  <2> QED BY <1>1, <1>2, <1>4, <2>1, <2>2, <2>3, <2>4 DEF TypeOK
<1>8. ASSUME NEW t \in Socket, socks'[t].active PROVE conn'[t] \in 1 .. opened'
  <2>1. CASE t = s
    BY <1>1, <1>2, <2>1 DEF TypeOK, Connection
  <2>2. CASE t # s
    <3>1. socks[t].active
      BY <1>4, <1>8, <2>2
    <3>2. conn[t] \in 1 .. opened
      BY <3>1, ActiveConn
    <3> QED BY <1>1, <1>2, <2>2, <3>2 DEF TypeOK
  <2> QED BY <2>1, <2>2
<1> QED BY <1>2, <1>6, <1>7, <1>8 DEF BaseInv, DataFrames, Limit

\* The frame that the handler takes.
LEMMA FrameFact ==
    ASSUME BaseInv, Handler
    PROVE  /\ ring # <<>> /\ Frame = ring[1] /\ Frame \in FrameRecord /\ DataOK(Frame)
           /\ ring' = Tail(ring) /\ irq' = FALSE
           /\ UNCHANGED <<nextPort, opened, conn, fd, arpAsked>>
           /\ arpResolved' \in BOOLEAN
<1>1. ring # <<>> /\ ring \in Seq(FrameRecord)
  BY DEF Handler, BaseInv, TypeOK
<1>2. 1 \in 1 .. Len(ring) /\ Frame = ring[1] /\ ring[1] \in FrameRecord
  BY <1>1 DEF Frame
<1>3. DataOK(Frame)
  BY <1>2 DEF BaseInv, DataFrames
<1> QED BY <1>1, <1>2, <1>3 DEF Handler, OnArp, BaseInv, TypeOK, pool

\* What the socket that a frame is for becomes and sends.
LEMMA HandlerFact ==
    ASSUME BaseInv, Handler, NEW f \in FrameRecord, f = Frame
    PROVE  \/ UNCHANGED <<socks, peer, lost>>
           \/ \E s \in Socket, c \in Connection, sock \in SocketRecord,
                 flag \in Flag \ {"SYN"} :
                 /\ f.kind # "arp" /\ socks[s].active /\ socks[s].port = f.port
                 /\ c = conn[s] /\ SendFrom(s, c, sock, flag)
                 /\ sock.active /\ sock.port = socks[s].port /\ sock.seq = socks[s].seq
                 /\ sock.ack = f.seq + 1
                 /\ Len(sock.rx) <= RxCap
                 /\ \A i \in 1 .. Len(sock.rx) :
                       \/ sock.rx[i][1] = f.conn
                       \/ i \in 1 .. Len(socks[s].rx) /\ sock.rx[i] = socks[s].rx[i]
<1>1. CASE f.kind = "arp" \/ Addressees(f.port) = {}
  BY <1>1 DEF Handler, OnArp
<1>2. CASE f.kind # "arp" /\ Addressees(f.port) # {}
  <2>1. PICK s \in Addressees(f.port) : OnSynAck(s) \/ OnData(s) \/ OnFin(s)
    BY <1>2 DEF Handler, IsFirst
  <2>2. s \in Socket /\ socks[s].active /\ socks[s].port = f.port
    BY <2>1 DEF Addressees
  <2>3. socks[s] \in SocketRecord /\ Len(socks[s].rx) <= RxCap
    BY <2>2, ActiveConn
  <2>4. PICK c \in Connection : c = conn[s]
    BY <2>2, ActiveConn
  <2>5. DataOK(f) /\ f.seq \in Nat
    BY FrameFact, BoundsAssumption DEF FrameRecord
  <2> PICK next \in Nat : next = f.seq + 1
    BY <2>5
  <2>6. "ACK" \in Flag \ {"SYN"} /\ "FIN" \in Flag \ {"SYN"}
    BY DEF Flag
  <2>7. PICK sock \in SocketRecord, flag \in Flag \ {"SYN"} :
          /\ SendFrom(s, c, sock, flag)
          /\ sock.active /\ sock.port = socks[s].port /\ sock.seq = socks[s].seq
          /\ sock.ack = next
          /\ Len(sock.rx) <= RxCap
          /\ \A i \in 1 .. Len(sock.rx) :
                \/ sock.rx[i][1] = f.conn
                \/ i \in 1 .. Len(socks[s].rx) /\ sock.rx[i] = socks[s].rx[i]
    <3>1. CASE OnSynAck(s)
      <4> DEFINE sock == [socks[s] EXCEPT !.ack = next, !.state = "ESTABLISHED"]
      <4>1. SendFrom(s, c, sock, "ACK")
        BY <2>4, <3>1 DEF OnSynAck
      <4>2. /\ sock \in SocketRecord /\ sock.active = socks[s].active
            /\ sock.port = socks[s].port /\ sock.seq = socks[s].seq
            /\ sock.ack = next /\ sock.rx = socks[s].rx
        BY <2>3 DEF SocketRecord
      <4> QED BY <2>2, <2>3, <2>6, <4>1, <4>2
    <3>2. CASE OnFin(s)
      <4> DEFINE got == [socks[s] EXCEPT !.ack = next]
                 sock == [got EXCEPT !.state = "CLOSED"]
      <4>1. SendFrom(s, c, sock, "FIN")
        BY <2>4, <3>2 DEF OnFin, AfterFin
      <4>2. /\ got \in SocketRecord /\ got.active = socks[s].active
            /\ got.port = socks[s].port /\ got.seq = socks[s].seq
            /\ got.ack = next /\ got.rx = socks[s].rx
        BY <2>3 DEF SocketRecord
      <4> HIDE DEF got
      <4>3. /\ sock \in SocketRecord /\ sock.active = got.active
            /\ sock.port = got.port /\ sock.seq = got.seq
            /\ sock.ack = got.ack /\ sock.rx = got.rx
        BY <4>2 DEF SocketRecord
      <4> QED BY <2>2, <2>3, <2>6, <4>1, <4>2, <4>3
    <3>3. CASE OnData(s)
      <4> DEFINE byte == <<f.conn, f.seq>>
                 rx == IF Room(socks[s].rx) THEN Append(socks[s].rx, byte) ELSE socks[s].rx
      <4>1. SendFrom(s, c, [socks[s] EXCEPT !.ack = next, !.ready = TRUE, !.rx = rx],
                     "ACK")
        BY <2>4, <3>3 DEF OnData, AckOf
      <4>2. byte \in Connection \X (1 .. StreamBound) /\ byte[1] = f.conn
        BY <2>5, <3>3 DEF OnData, DataOK
      <4>3. /\ rx \in Seq(Connection \X (1 .. StreamBound)) /\ Len(rx) <= RxCap
            /\ \A i \in 1 .. Len(rx) :
                  rx[i][1] = f.conn \/ (i \in 1 .. Len(socks[s].rx) /\ rx[i] = socks[s].rx[i])
        <5>2. PICK old \in Seq(Connection \X (1 .. StreamBound)) : old = socks[s].rx
          BY <2>3 DEF SocketRecord
        <5> HIDE DEF byte
        <5>4. CASE Room(old)
          <6>1. rx = Append(old, byte)
            BY <5>2, <5>4
          <6>2. Len(old) + 1 <= RxCap
            BY <5>2, <5>4, BoundsAssumption DEF Room
          <6>3. /\ Append(old, byte) \in Seq(Connection \X (1 .. StreamBound))
                /\ Len(Append(old, byte)) = Len(old) + 1
                /\ \A i \in 1 .. Len(old) : Append(old, byte)[i] = old[i]
                /\ Append(old, byte)[Len(old) + 1] = byte
            BY <4>2, <5>2
          <6> HIDE DEF rx
          <6>4. \A i \in 1 .. Len(rx) : i \in 1 .. Len(old) \/ i = Len(old) + 1
            BY <5>2, <6>1, <6>3
          <6> QED BY <4>2, <5>2, <6>1, <6>2, <6>3, <6>4
        <5>5. CASE ~Room(old)
          <6>1. rx = old
            BY <5>2, <5>5
          <6> QED BY <2>3, <5>2, <6>1
        <5> QED BY <5>4, <5>5
      <4> HIDE DEF rx
      <4> DEFINE sock == [socks[s] EXCEPT !.ack = next, !.ready = TRUE, !.rx = rx]
      <4>4. /\ sock \in SocketRecord /\ sock.active = socks[s].active
            /\ sock.port = socks[s].port /\ sock.seq = socks[s].seq
            /\ sock.ack = next /\ sock.rx = rx
        BY <2>3, <4>3 DEF SocketRecord
      <4>5. SendFrom(s, c, sock, "ACK") /\ sock.active
        BY <2>2, <4>1, <4>4
      <4> HIDE DEF sock
      <4>6. \A i \in 1 .. Len(sock.rx) :
               \/ sock.rx[i][1] = f.conn
               \/ i \in 1 .. Len(socks[s].rx) /\ sock.rx[i] = socks[s].rx[i]
        BY <4>3, <4>4
      <4>7. Len(sock.rx) <= RxCap
        BY <4>3, <4>4
      <4> QED BY <2>6, <4>4, <4>5, <4>6, <4>7
    <3> QED BY <2>1, <3>1, <3>2, <3>3
  <2> QED BY <1>2, <2>2, <2>4, <2>7
<1> QED BY <1>1, <1>2

LEMMA HandlerBase ==
    ASSUME BaseInv, Handler
    PROVE  BaseInv'
<1>1. PICK f \in FrameRecord : f = Frame
  BY FrameFact
<1>2. /\ TypeOK /\ ring' = Tail(ring) /\ irq' = FALSE /\ arpResolved' \in BOOLEAN
      /\ UNCHANGED <<nextPort, opened, conn, fd, arpAsked>>
  BY FrameFact DEF BaseInv
<1>3. ring' \in Seq(FrameRecord) /\ DataFrames'
  BY <1>2, FrameFact, ByteFramesTail DEF BaseInv, TypeOK
<1>4. CASE UNCHANGED <<socks, peer, lost>>
  <2>1. TypeOK'
    BY <1>2, <1>3, <1>4 DEF TypeOK
  <2> QED BY <1>2, <1>3, <1>4, <2>1 DEF BaseInv, Limit, SocketsNotShared
<1>5. CASE \E s \in Socket, c \in Connection, sock \in SocketRecord, flag \in Flag :
             /\ socks[s].active /\ SendFrom(s, c, sock, flag)
             /\ sock.active /\ Len(sock.rx) <= RxCap
  <2>1. /\ socks' \in [Socket -> SocketRecord]
        /\ \A t \in Socket : Len(socks'[t].rx) <= RxCap
        /\ peer' \in [Connection -> PeerRecord]
        /\ lost' \in [Connection -> 0 .. LossBound]
        /\ \A t \in Socket : socks'[t].active => conn'[t] \in 1 .. opened'
        /\ SocketsNotShared'
    BY <1>2, <1>5, SendBase
  <2> QED BY <1>2, <1>3, <2>1 DEF BaseInv, TypeOK, Limit
<1> QED BY <1>1, <1>4, <1>5, HandlerFact

\* What the other end sends: it becomes p, and the frame f enters the ring.
LEMMA ArrivesBase ==
    ASSUME BaseInv, NEW f \in FrameRecord, Arrives(f), DataOK(f),
           peer' \in [Connection -> PeerRecord]
    PROVE  BaseInv'
<1>1. /\ TypeOK /\ ring' = Append(ring, f) /\ irq' = TRUE
      /\ UNCHANGED <<socks, nextPort, opened, conn, fd, lost, arpAsked, arpResolved>>
  BY DEF Arrives, pool, BaseInv
<1>2. ring' \in Seq(FrameRecord) /\ ring' # <<>> /\ DataFrames'
  BY <1>1, ByteFramesAppend DEF BaseInv, TypeOK
<1>3. TypeOK'
  BY <1>1, <1>2 DEF TypeOK
<1> QED BY <1>1, <1>2, <1>3 DEF BaseInv, Limit, SocketsNotShared

-----------------------------------------------------------------------------
(* The steps.                                                              *)

LEMMA InitInv == Init => IInv
<1> SUFFICES ASSUME Init PROVE IInv
  OBVIOUS
<1>1. BaseInv
  BY InitBase
<1>2. \A c \in Connection : PeerInv(c)
  BY DEF Init, PeerInv, Silent
<1>3. \A s \in Socket : SocketInv(s)
  BY DEF Init, SocketInv
<1>4. OwnConnections /\ Frames
  BY DEF Init, OwnConnections, Frames
<1> QED BY <1>1, <1>2, <1>3, <1>4 DEF Init, IInv

LEMMA SocketOf ==
    ASSUME IInv, NEW s \in Socket, socks[s].active
    PROVE  /\ socks[s] \in SocketRecord
           /\ conn[s] \in Connection /\ conn[s] \in 1 .. opened
           /\ peer[conn[s]] \in PeerRecord
           /\ PeerInv(conn[s]) /\ SocketInv(s)
<1>1. conn[s] \in Connection /\ conn[s] \in 1 .. opened /\ socks[s] \in SocketRecord
  BY ActiveConn DEF IInv
<1> QED BY <1>1 DEF IInv, BaseInv, TypeOK

LEMMA WriteInv ==
    ASSUME IInv, NEW a \in Apps, Write(a)
    PROVE  IInv'
<1>1. PICK s : s = fd[a]
  OBVIOUS
<1>2. s \in Socket /\ socks[s].active /\ socks[s].state = "ESTABLISHED"
  BY <1>1, UsableFact DEF Write, Usable, IInv
<1>3. socks[s] \in SocketRecord /\ PeerInv(conn[s]) /\ SocketInv(s)
  BY <1>2, SocketOf
<1>4. peer[conn[s]].rcv > 0
  BY <1>2, <1>3 DEF SocketInv, PeerInv
<1>5. /\ SendFrom(s, conn[s], socks[s], "PSH")
      /\ UNCHANGED <<nextPort, conn, opened, ring>>
  BY <1>1 DEF Write, pool, net
<1>6. "PSH" \in Flag \ {"SYN"}
  BY DEF Flag
<1>7. /\ \A c \in Connection : PeerInv(c)'
      /\ \A t \in Socket : SocketInv(t)'
      /\ OwnConnections' /\ PeersKeep
  BY <1>2, <1>3, <1>4, <1>5, <1>6, SendKeeps DEF SocketInv
<1>8. TypeOK /\ Frames /\ opened \in Nat /\ opened <= Connections
  BY BoundsAssumption DEF IInv, BaseInv, TypeOK
<1>9. Frames'
  BY <1>5, <1>7, <1>8, KeepIsGrow, RingSame
<1>10. BaseInv'
  BY WriteBase DEF IInv
<1> QED BY <1>5, <1>7, <1>9, <1>10 DEF IInv

\* A socket that changes its buffer only.
LEMMA ReadInv ==
    ASSUME IInv, NEW a \in Apps, Read(a)
    PROVE  IInv'
<1>1. PICK s \in Socket, sock \in SocketRecord :
        /\ socks[s].active /\ socks' = [socks EXCEPT ![s] = sock]
        /\ sock.active /\ sock.state = socks[s].state /\ sock.port = socks[s].port
        /\ sock.seq = socks[s].seq /\ sock.ack = socks[s].ack /\ sock.rx = <<>>
  BY ReadFact DEF IInv
<1>2. UNCHANGED <<nextPort, opened, conn, peer, lost, ring>>
  BY DEF Read, pool, net
<1>3. BaseInv' /\ TypeOK
  BY ReadBase DEF IInv, BaseInv
<1>4. socks'[s] = sock /\ \A t \in Socket : t # s => socks'[t] = socks[t]
  BY <1>1, <1>3 DEF TypeOK
<1>5. ASSUME NEW t \in Socket PROVE SocketInv(t)'
  <2>1. SocketInv(t)
    BY DEF IInv
  <2>2. CASE t # s
    BY <1>2, <1>4, <2>1, <2>2 DEF SocketInv
  <2>3. CASE t = s
    <3>1. Len(socks'[s].rx) = 0
      BY <1>1, <1>4
    <3>2. /\ socks'[s].active = socks[s].active /\ socks'[s].state = socks[s].state
          /\ socks'[s].port = socks[s].port /\ socks'[s].seq = socks[s].seq
          /\ socks'[s].ack = socks[s].ack
      <4>1. socks[s] \in SocketRecord
        BY <1>1, SocketOf
      <4> QED BY <1>1, <1>4, <4>1 DEF SocketRecord
    <3> QED BY <1>2, <2>1, <2>3, <3>1, <3>2 DEF SocketInv
  <2> QED BY <2>2, <2>3
<1>6. \A t \in Socket : socks'[t].active => socks[t].active
  BY <1>1, <1>4
<1>7. OwnConnections'
  BY <1>2, <1>6 DEF OwnConnections, IInv
<1>8. Frames' /\ \A c \in Connection : PeerInv(c)'
  BY <1>2 DEF Frames, FrameInv, PeerInv, Limit, IInv
<1> QED BY <1>2, <1>3, <1>5, <1>7, <1>8 DEF IInv

LEMMA KillInv ==
    ASSUME IInv, NEW a \in Apps, Kill(a)
    PROVE  IInv'
<1>1. BaseInv'
  BY KillBase DEF IInv
<1>2. UNCHANGED <<socks, nextPort, opened, conn, peer, lost, ring>>
  BY DEF Kill, pool, net
<1> QED BY <1>1, <1>2 DEF IInv, Frames, FrameInv, Limit, OwnConnections, PeerInv, SocketInv

LEMMA QuietInv ==
    ASSUME IInv, AskArp \/ UNCHANGED vars
    PROVE  IInv'
<1>1. BaseInv'
  BY QuietBase DEF IInv
<1>2. UNCHANGED <<socks, nextPort, opened, conn, peer, lost, ring>>
  BY DEF AskArp, vars, pool, net
<1> QED BY <1>1, <1>2 DEF IInv, Frames, FrameInv, Limit, OwnConnections, PeerInv, SocketInv

\* vfs_close: the connection keeps what it has; the socket is free again.
LEMMA CloseInv ==
    ASSUME IInv, NEW a \in Apps, Close(a)
    PROVE  IInv'
<1>1. PICK s \in Socket, c \in Connection, sock \in SocketRecord :
        /\ c = conn[s] /\ socks[s].active /\ SendFrom(s, c, sock, "FIN")
        /\ ~sock.active /\ sock.port = socks[s].port /\ sock.ack = socks[s].ack
  BY CloseFact DEF IInv
<1>2. UNCHANGED <<nextPort, opened, conn, ring>> /\ BaseInv' /\ TypeOK
  BY CloseBase DEF Close, pool, net, IInv, BaseInv
<1>3. /\ peer[c] \in PeerRecord /\ c \in 1 .. opened
      /\ PeerInv(c) /\ SocketInv(s)
  BY <1>1, SocketOf
<1>7. "FIN" \in Flag
  BY DEF Flag
<1>8. /\ socks'[s] = Sent(sock, "FIN")
      /\ peer'[c] = peer[c] \/ peer'[c] = Heard(peer[c], sock, "FIN")
      /\ \A t \in Socket : t # s => socks'[t] = socks[t]
      /\ \A d \in Connection : d # c => peer'[d] = peer[d] /\ lost'[d] = lost[d]
  BY <1>1, <1>2, <1>7, SendFact
<1>9. ~socks'[s].active
  <2>1. Sent(sock, "FIN").active = sock.active
    BY <1>7, SentFact
  <2> QED BY <1>1, <1>8, <2>1
<1>10. /\ peer'[c] \in PeerRecord
       /\ peer'[c].open = peer[c].open /\ peer'[c].sent = peer[c].sent
       /\ peer'[c].fin = peer[c].fin
       /\ peer'[c].rcv >= peer[c].rcv
       /\ peer'[c] = peer[c] \/ peer'[c].port = sock.port
       /\ peer'[c].acked = peer[c].acked \/ peer'[c].acked = sock.ack
  <2>1. CASE peer'[c] = peer[c]
    BY <1>3, <2>1 DEF PeerRecord
  <2>2. CASE peer'[c] = Heard(peer[c], sock, "FIN")
    BY <1>3, <1>7, <2>2, HeardFact
  <2> QED BY <1>8, <2>1, <2>2
<1>11. sock.port = c /\ sock.ack <= NumbersSent(peer[c])
  BY <1>1, <1>3 DEF SocketInv
<1>12. PeersKeep
  BY <1>8, <1>10 DEF PeersKeep
<1>13. ASSUME NEW d \in Connection PROVE PeerInv(d)'
  <2>1. PeerInv(d)
    BY DEF IInv
  <2>2. CASE d # c
    BY <1>2, <1>8, <2>1, <2>2 DEF PeerInv
  <2>3. CASE d = c
    <3>1. peer'[c].rcv > 0 => peer'[c].port = c
      BY <1>10, <1>11, <2>1, <2>3 DEF PeerInv
    <3>2. peer[c].open => peer'[c].rcv > 0
      BY <1>3, <1>10, <2>1, <2>3 DEF PeerInv, PeerRecord
    <3>3. peer'[c].acked > 0 => peer[c].open
      <4>1. sock.ack > 0 => peer[c].open
        BY <1>11 DEF NumbersSent, SocketRecord
      <4> QED BY <1>10, <2>1, <2>3, <4>1 DEF PeerInv
    <3>4. ~(c > opened')
      BY <1>2, <1>3 DEF TypeOK
    <3>5. peer'[c].fin => peer'[c].open
      BY <1>10, <2>1, <2>3 DEF PeerInv
    <3> QED BY <1>10, <2>3, <3>1, <3>2, <3>3, <3>4, <3>5 DEF PeerInv
  <2> QED BY <2>2, <2>3
<1>14. ASSUME NEW t \in Socket PROVE SocketInv(t)'
  <2>1. CASE t = s
    BY <1>9, <2>1 DEF SocketInv
  <2>2. CASE t # s
    <3>1. SocketInv(t) /\ OwnConnections
      BY DEF IInv
    <3>2. socks[t].active => conn[t] # c /\ conn[t] \in Connection
      BY <1>1, <2>2, <3>1, SocketOf DEF OwnConnections
    <3> QED BY <1>2, <1>8, <2>2, <3>1, <3>2 DEF SocketInv
  <2> QED BY <2>1, <2>2
<1>15. \A t \in Socket : socks'[t].active => socks[t].active
  BY <1>8, <1>9
<1>16. OwnConnections'
  BY <1>2, <1>15 DEF OwnConnections, IInv
<1>18. Frames'
  BY <1>2, <1>12, BoundsAssumption, KeepIsGrow, RingSame DEF IInv, TypeOK
<1> QED BY <1>2, <1>13, <1>14, <1>16, <1>18 DEF IInv

\* The socket of a new connection: a free one, on a port nobody has.
LEMMA OpenInv ==
    ASSUME IInv, NEW a \in Apps, Open(a), ~PortsUsedUp'
    PROVE  IInv'
<1>1. PICK s \in Socket, c \in Connection, sock \in SocketRecord :
        /\ c = opened + 1 /\ ~socks[s].active /\ conn' = [conn EXCEPT ![s] = c]
        /\ SendFrom(s, c, sock, "SYN")
        /\ sock.active /\ sock.state = "SYN_SENT" /\ sock.port = nextPort
        /\ sock.seq = 0 /\ sock.ack = 0 /\ sock.rx = <<>>
  BY OpenFact DEF IInv
<1>2. /\ TypeOK /\ nextPort' = (nextPort % PortSpace) + 1 /\ opened' = c
      /\ UNCHANGED ring
  BY <1>1 DEF Open, IInv, BaseInv
<1>3. BaseInv'
  BY OpenBase DEF IInv
<1>4. c \in Nat /\ c >= 1 /\ c <= PortSpace /\ opened \in Nat /\ opened < PortSpace
  BY <1>1, <1>2, BoundsAssumption DEF PortsUsedUp, Connection, TypeOK
<1>5. nextPort = c /\ sock.port = c
  BY <1>1, <1>4 DEF IInv
<1>6. opened' < PortSpace => nextPort' = opened' + 1
  <2>1. ASSUME c < PortSpace PROVE c % PortSpace = c
    BY <1>4, <2>1, BoundsAssumption
  <2> QED BY <1>2, <1>5, <2>1
<1>8. "SYN" \in Flag
  BY DEF Flag
<1>9. /\ socks'[s] = Sent(sock, "SYN")
      /\ peer'[c] = peer[c] \/ peer'[c] = Heard(peer[c], sock, "SYN")
      /\ \A t \in Socket : t # s => socks'[t] = socks[t]
      /\ \A d \in Connection : d # c => peer'[d] = peer[d] /\ lost'[d] = lost[d]
  BY <1>1, <1>2, <1>8, SendFact
<1>10. /\ socks'[s].active /\ socks'[s].state = "SYN_SENT" /\ socks'[s].port = c
       /\ socks'[s].ack = 0 /\ socks'[s].rx = <<>>
  <2>1. LET t == Sent(sock, "SYN")
        IN  t.active = sock.active /\ t.state = sock.state /\ t.port = sock.port
            /\ t.ack = sock.ack /\ t.rx = sock.rx
    BY <1>8, SentFact
  <2> QED BY <1>1, <1>5, <1>9, <2>1
<1>11. peer[c] = Silent /\ Silent \in PeerRecord
  BY <1>1, <1>2, <1>4 DEF IInv, PeerInv, TypeOK
<1>12. /\ socks'[s].seq >= peer'[c].rcv
       /\ lost'[c] = 0 => socks'[s].seq = peer'[c].rcv
  BY <1>1, <1>2, <1>8, <1>11, InStep DEF Silent
<1>13. /\ peer'[c] \in PeerRecord
       /\ ~peer'[c].open /\ ~peer'[c].fin /\ peer'[c].sent = 0 /\ peer'[c].acked = 0
       /\ peer'[c].rcv > 0 => peer'[c].port = c
  <2>1. /\ Silent.rcv = 0 /\ ~Silent.open /\ Silent.sent = 0 /\ ~Silent.fin
        /\ Silent.acked = 0
    BY DEF Silent
  <2>2. LET q == Heard(Silent, sock, "SYN")
        IN  /\ q \in PeerRecord
            /\ q.open = Silent.open /\ q.sent = Silent.sent /\ q.fin = Silent.fin
            /\ q = Silent \/ q.port = sock.port
            /\ q.acked = Silent.acked \/ q.acked = sock.ack
    BY <1>8, <1>11, HeardFact
  <2>3. CASE peer'[c] = peer[c]
    BY <1>11, <2>1, <2>3
  <2>4. CASE peer'[c] = Heard(peer[c], sock, "SYN")
    BY <1>1, <1>5, <1>11, <2>1, <2>2, <2>4
  <2> QED BY <1>9, <2>3, <2>4
<1>14. PeersGrow
  <2>1. ASSUME NEW d \in Connection PROVE peer[d].sent \in Nat
    BY <1>2, BoundsAssumption DEF TypeOK, PeerRecord
  <2> QED BY <1>9, <1>11, <1>13, <2>1 DEF PeersGrow, Silent
<1>15. ASSUME NEW d \in Connection PROVE PeerInv(d)'
  <2>1. CASE d = c
    BY <1>2, <1>4, <1>13, <2>1 DEF PeerInv
  <2>2. CASE d # c
    <3>1. PeerInv(d) /\ d \in Int /\ (d > c => d > opened)
      BY <1>1, <1>4 DEF IInv, Connection
    <3> QED BY <1>2, <1>9, <2>2, <3>1 DEF PeerInv
  <2> QED BY <2>1, <2>2
<1>16. ASSUME NEW t \in Socket, t # s, socks[t].active
       PROVE  SocketInv(t)' /\ conn'[t] # c
  <2>1. SocketInv(t) /\ conn[t] \in 1 .. opened /\ conn[t] \in Connection
    BY <1>16, SocketOf
  <2>2. conn[t] # c /\ conn'[t] = conn[t]
    BY <1>1, <1>2, <1>4, <1>16, <2>1 DEF TypeOK
  <2>3. /\ peer'[conn[t]] = peer[conn[t]] /\ lost'[conn[t]] = lost[conn[t]]
        /\ socks'[t] = socks[t]
    BY <1>9, <1>16, <2>1, <2>2
  <2> QED BY <2>1, <2>2, <2>3 DEF SocketInv
<1>17. conn'[s] = c
  BY <1>1, <1>2 DEF TypeOK
<1>18. SocketInv(s)'
  <2>1. NumbersSent(peer'[c]) = 0
    BY <1>13 DEF NumbersSent
  <2>2. socks'[s].state # "ESTABLISHED" /\ Len(socks'[s].rx) = 0
    BY <1>10
  <2> QED BY <1>10, <1>12, <1>17, <2>1, <2>2 DEF SocketInv
<1>19. \A t \in Socket : SocketInv(t)'
  <2>1. ASSUME NEW t \in Socket, t # s, ~socks[t].active PROVE SocketInv(t)'
    BY <1>9, <2>1 DEF SocketInv
  <2> QED BY <1>16, <1>18, <2>1
<1>20. OwnConnections'
  <2>1. \A t \in Socket : t # s /\ socks'[t].active => socks[t].active
    BY <1>9
  <2>2. \A t \in Socket : t # s => conn'[t] = conn[t]
    BY <1>1, <1>2 DEF TypeOK
  <2> QED BY <1>16, <1>17, <2>1, <2>2 DEF OwnConnections, IInv
<1>22. Frames'
  <2>1. opened' \in Nat /\ opened' >= opened /\ opened' <= Connections
    BY <1>1, <1>2, <1>4 DEF Connection
  <2> QED BY <1>2, <1>14, <2>1, RingSame DEF IInv
<1> QED BY <1>3, <1>6, <1>15, <1>19, <1>20, <1>22 DEF IInv

\* The handler, for the frame it takes.
LEMMA HandlerInv ==
    ASSUME IInv, Handler
    PROVE  IInv'
<1>1. /\ TypeOK /\ Frames /\ ring # <<>> /\ ring \in Seq(FrameRecord)
      /\ Frame = ring[1] /\ Frame \in FrameRecord
      /\ ring' = Tail(ring) /\ UNCHANGED <<nextPort, opened, conn>> /\ BaseInv'
  BY FrameFact, HandlerBase DEF IInv, BaseInv, TypeOK
<1>2. PICK f \in FrameRecord : f = Frame /\ FrameInv(f)
  <2>1. 1 \in 1 .. Len(ring)
    BY <1>1
  <2> QED BY <1>1, <2>1 DEF Frames
<1>3. CASE UNCHANGED <<socks, peer, lost>>
  <2>1. PeersGrow
    BY <1>1, <1>3, KeepIsGrow DEF PeersKeep
  <2>2. Frames'
    BY <1>1, <2>1, RingTail
  <2>3. \A c \in Connection : PeerInv(c)'
    BY <1>1, <1>3 DEF PeerInv, IInv
  <2>4. \A s \in Socket : SocketInv(s)'
    BY <1>1, <1>3 DEF SocketInv, IInv
  <2>5. OwnConnections'
    BY <1>1, <1>3 DEF OwnConnections, IInv
  <2> QED BY <1>1, <2>2, <2>3, <2>4, <2>5 DEF IInv
<1>4. ASSUME NEW s \in Socket, NEW c \in Connection, NEW sock \in SocketRecord,
             NEW flag \in Flag \ {"SYN"},
             f.kind # "arp", socks[s].active, socks[s].port = f.port,
             c = conn[s], SendFrom(s, c, sock, flag),
             sock.active, sock.port = socks[s].port, sock.seq = socks[s].seq,
             sock.ack = f.seq + 1,
             \A i \in 1 .. Len(sock.rx) :
                \/ sock.rx[i][1] = f.conn
                \/ i \in 1 .. Len(socks[s].rx) /\ sock.rx[i] = socks[s].rx[i]
      PROVE  IInv'
  <2>1. peer[c] \in PeerRecord /\ PeerInv(c) /\ SocketInv(s)
    BY <1>4, SocketOf
  <2>2. f.conn = c /\ peer[c].open /\ peer[c].rcv > 0
    BY <1>2, <1>4, <2>1 DEF FrameInv, SocketInv, PeerInv
  <2>3. sock.ack <= NumbersSent(peer[c])
    <3>1. peer[c].sent \in 0 .. StreamBound
      BY <2>1 DEF PeerRecord
    <3>2. f.kind = "synack" => f.seq = 0
      BY <1>2, <1>4 DEF FrameInv
    <3>3. f.kind = "data" => f.seq \in 1 .. peer[c].sent
      BY <1>2, <1>4, <2>2 DEF FrameInv
    <3>4. f.kind = "fin" => f.seq = peer[c].sent + 1 /\ peer[c].fin
      BY <1>2, <1>4, <2>2 DEF FrameInv
    <3>5. f.kind \in {"synack", "data", "fin"}
      BY <1>4 DEF FrameRecord
    <3> QED BY <1>4, <2>2, <3>1, <3>2, <3>3, <3>4, <3>5, BoundsAssumption DEF NumbersSent
  <2>4. \A i \in 1 .. Len(sock.rx) : sock.rx[i][1] = c
    BY <1>4, <2>1, <2>2 DEF SocketInv
  <2>5. /\ \A d \in Connection : PeerInv(d)'
        /\ \A t \in Socket : SocketInv(t)'
        /\ OwnConnections' /\ PeersKeep
    BY <1>1, <1>4, <2>2, <2>3, <2>4, SendKeeps
  <2>6. Frames'
    BY <1>1, <2>5, KeepIsGrow, RingTail
  <2> QED BY <1>1, <2>5, <2>6 DEF IInv
<1> QED BY <1>2, <1>3, <1>4, HandlerFact DEF IInv

\* What the other end sends: it becomes p, and the frame f is true of it.
LEMMA ArrivesInv ==
    ASSUME IInv, NEW c \in Connection, NEW p \in PeerRecord, NEW f \in FrameRecord,
           peer' = [peer EXCEPT ![c] = p], Arrives(f), DataOK(f),
           c \in Limit, peer[c].rcv > 0, p.open,
           p.rcv = peer[c].rcv, p.port = peer[c].port,
           p.sent >= peer[c].sent, peer[c].fin => p.fin /\ p.sent = peer[c].sent,
           FrameInv(f)'
    PROVE  IInv'
<1>1. TypeOK /\ Frames /\ peer[c] \in PeerRecord /\ opened \in Nat
  BY BoundsAssumption DEF IInv, BaseInv, TypeOK
<1>2. /\ ring' = Append(ring, f)
      /\ UNCHANGED <<socks, nextPort, opened, conn, lost>>
  BY DEF Arrives, pool
<1>3. /\ peer' \in [Connection -> PeerRecord] /\ peer'[c] = p
      /\ \A d \in Connection : d # c => peer'[d] = peer[d]
  BY <1>1 DEF TypeOK
<1>4. PeersGrow
  <2>1. \A d \in Connection : peer[d].sent \in Nat /\ peer'[d].sent \in Nat
    BY <1>1, <1>3, BoundsAssumption DEF TypeOK, PeerRecord
  <2> QED BY <1>3, <2>1 DEF PeersGrow
<1>5. Frames'
  BY <1>1, <1>2, <1>4, RingAppend
<1>6. BaseInv'
  BY <1>3, ArrivesBase DEF IInv
<1>7. ASSUME NEW d \in Connection PROVE PeerInv(d)'
  <2>1. PeerInv(d)
    BY DEF IInv
  <2>2. CASE d = c
    BY <1>1, <1>2, <1>3, <2>1, <2>2 DEF PeerInv, Limit
  <2>3. CASE d # c
    BY <1>2, <1>3, <2>1, <2>3 DEF PeerInv
  <2> QED BY <2>2, <2>3
<1>8. NumbersSent(p) >= NumbersSent(peer[c])
  BY <1>1, BoundsAssumption DEF NumbersSent, PeerRecord
<1>9. ASSUME NEW t \in Socket PROVE SocketInv(t)'
  <2>1. SocketInv(t)
    BY DEF IInv
  <2>2. CASE ~socks[t].active
    BY <1>2, <2>2 DEF SocketInv
  <2>3. CASE socks[t].active
    <3>1. conn[t] \in Connection /\ socks[t].ack \in Nat /\ peer[conn[t]] \in PeerRecord
      BY <2>3, SocketOf DEF SocketRecord
    <3>2. CASE conn[t] # c
      BY <1>2, <1>3, <2>1, <3>1, <3>2 DEF SocketInv
    <3>3. CASE conn[t] = c
      <4>1. socks[t].ack <= NumbersSent(p)
        <5>1. NumbersSent(p) \in Nat /\ NumbersSent(peer[c]) \in Nat
          BY <1>1, BoundsAssumption DEF NumbersSent, PeerRecord
        <5> QED BY <1>8, <2>1, <2>3, <3>1, <3>3, <5>1 DEF SocketInv
      <4> QED BY <1>2, <1>3, <2>1, <2>3, <3>3, <4>1 DEF SocketInv
    <3> QED BY <3>2, <3>3
  <2> QED BY <2>2, <2>3
<1>10. OwnConnections'
  BY <1>2 DEF OwnConnections, IInv
<1> QED BY <1>2, <1>5, <1>6, <1>7, <1>9, <1>10 DEF IInv

LEMMA HeardOfInv ==
    ASSUME IInv, NEW c \in Connection, peer[c].rcv > 0 \/ peer[c].acked > 0
    PROVE  /\ peer[c] \in PeerRecord /\ c \in Limit /\ peer[c].port = c /\ c \in Port
           /\ peer[c].rcv > 0
           /\ peer[c].acked > 0 => peer[c].open
<1>1. peer[c] \in PeerRecord /\ PeerInv(c) /\ opened \in Nat
  BY BoundsAssumption DEF IInv, BaseInv, TypeOK
<1>2. peer[c].rcv > 0
  BY <1>1 DEF PeerInv
<1>3. c <= opened
  BY <1>1, <1>2 DEF PeerInv, Silent, Connection
<1> QED BY <1>1, <1>2, <1>3, BoundsAssumption DEF PeerInv, Limit, Connection, Port, PeerRecord

LEMMA ArpReplyInv ==
    ASSUME IInv, ArpReply
    PROVE  IInv'
<1>1. PICK f : f = [kind |-> "arp", conn |-> 0, port |-> 0, seq |-> 0]
  OBVIOUS
<1>2. f \in FrameRecord /\ f.kind = "arp" /\ DataOK(f)
  BY <1>1, BoundsAssumption DEF FrameRecord, Port, DataOK
<1>3. /\ ring' = Append(ring, f) /\ Arrives(f)
      /\ UNCHANGED <<socks, nextPort, opened, conn, peer, lost>>
  BY <1>1 DEF ArpReply, Arrives, pool
<1>4. TypeOK /\ Frames /\ PeersGrow
  BY <1>3, KeepIsGrow DEF IInv, BaseInv, PeersKeep
<1>5. Frames'
  BY <1>2, <1>3, <1>4, RingAppend DEF FrameInv
<1>6. BaseInv'
  BY <1>2, <1>3, <1>4, ArrivesBase DEF IInv, TypeOK
<1>7. \A c \in Connection : PeerInv(c)'
  BY <1>3 DEF PeerInv, IInv
<1>8. \A s \in Socket : SocketInv(s)'
  BY <1>3 DEF SocketInv, IInv
<1>9. OwnConnections'
  BY <1>3 DEF OwnConnections, IInv
<1> QED BY <1>3, <1>5, <1>6, <1>7, <1>8, <1>9 DEF IInv

LEMMA PeerSynAckInv ==
    ASSUME IInv, NEW c \in Connection, PeerSynAck(c)
    PROVE  IInv'
<1>1. /\ peer[c] \in PeerRecord /\ c \in Limit /\ peer[c].port = c /\ c \in Port
      /\ peer[c].rcv > 0
  BY HeardOfInv DEF PeerSynAck
<1>2. PICK f : f = Segment(c, "synack", 0)
  OBVIOUS
<1>3. /\ f.kind = "synack" /\ f.conn = c /\ f.port = c /\ f.seq = 0
      /\ f \in FrameRecord /\ DataOK(f)
  BY <1>1, <1>2, BoundsAssumption DEF Segment, FrameRecord, Connection, DataOK
<1>4. PICK p \in PeerRecord :
        /\ peer' = [peer EXCEPT ![c] = p]
        /\ p.open /\ p.rcv = peer[c].rcv /\ p.port = peer[c].port
        /\ p.sent = peer[c].sent /\ p.fin = peer[c].fin
  <2> DEFINE p == [peer[c] EXCEPT !.open = TRUE]
  <2>1. p \in PeerRecord /\ p.open /\ p.rcv = peer[c].rcv /\ p.port = peer[c].port
        /\ p.sent = peer[c].sent /\ p.fin = peer[c].fin
    BY <1>1 DEF PeerRecord
  <2>2. peer' = [peer EXCEPT ![c] = p]
    BY DEF PeerSynAck
  <2> QED BY <2>1, <2>2
<1>5. Arrives(f) /\ opened' = opened
  BY <1>2 DEF PeerSynAck, Arrives, pool
<1>6. peer'[c] = p
  BY <1>4 DEF IInv, BaseInv, TypeOK
<1>7. FrameInv(f)'
  BY <1>1, <1>3, <1>4, <1>5, <1>6 DEF FrameInv, Limit
<1>8. p.sent >= peer[c].sent
  BY <1>1, <1>4, BoundsAssumption DEF PeerRecord
<1> QED BY <1>1, <1>3, <1>4, <1>5, <1>7, <1>8, ArrivesInv

LEMMA PeerDataInv ==
    ASSUME IInv, NEW c \in Connection, PeerData(c)
    PROVE  IInv'
<1>1. /\ peer[c] \in PeerRecord /\ c \in Limit /\ peer[c].port = c /\ c \in Port
      /\ peer[c].rcv > 0 /\ peer[c].acked > 0 /\ peer[c].open
  <2>1. peer[c].acked > 0
    BY DEF PeerData
  <2> QED BY <2>1, HeardOfInv
<1>2. /\ peer[c].sent \in Nat /\ peer[c].sent <= StreamBound /\ peer[c].acked \in Nat
      /\ StreamBound \in Nat
  BY <1>1, BoundsAssumption DEF PeerRecord
<1>3. PICK k \in peer[c].acked .. peer[c].sent + 1 :
        /\ k <= IF peer[c].fin THEN peer[c].sent ELSE StreamBound
        /\ Arrives(Segment(c, "data", k))
        /\ peer' = [peer EXCEPT ![c].sent = IF k > @ THEN k ELSE @]
  BY DEF PeerData
<1>4. /\ k \in Nat /\ k >= 1 /\ k <= StreamBound
      /\ peer[c].fin => k <= peer[c].sent
  BY <1>1, <1>2, <1>3
<1>5. PICK f : f = Segment(c, "data", k)
  OBVIOUS
<1>6. /\ f.kind = "data" /\ f.conn = c /\ f.port = c /\ f.seq = k
      /\ f \in FrameRecord /\ DataOK(f)
  BY <1>1, <1>2, <1>4, <1>5, BoundsAssumption DEF Segment, FrameRecord, Connection, DataOK
<1>7. PICK n : n = IF k > peer[c].sent THEN k ELSE peer[c].sent
  OBVIOUS
<1>8. /\ n \in 0 .. StreamBound /\ n >= peer[c].sent /\ k \in 1 .. n
      /\ peer[c].fin => n = peer[c].sent
  BY <1>2, <1>4, <1>7
<1>9. PICK p \in PeerRecord :
        /\ peer' = [peer EXCEPT ![c] = p]
        /\ p.open /\ p.rcv = peer[c].rcv /\ p.port = peer[c].port
        /\ p.sent = n /\ p.fin = peer[c].fin
  <2> DEFINE p == [peer[c] EXCEPT !.sent = n]
  <2>1. p \in PeerRecord /\ p.open = peer[c].open /\ p.rcv = peer[c].rcv
        /\ p.port = peer[c].port /\ p.sent = n /\ p.fin = peer[c].fin
    BY <1>1, <1>8 DEF PeerRecord
  <2>2. peer' = [peer EXCEPT ![c] = p]
    BY <1>3, <1>7
  <2> QED BY <1>1, <2>1, <2>2
<1>10. Arrives(f) /\ opened' = opened
  BY <1>3, <1>5 DEF Arrives, pool
<1>11. peer'[c] = p
  BY <1>9 DEF IInv, BaseInv, TypeOK
<1>12. FrameInv(f)'
  BY <1>1, <1>6, <1>8, <1>9, <1>10, <1>11 DEF FrameInv, Limit
<1> QED BY <1>1, <1>6, <1>8, <1>9, <1>10, <1>12, ArrivesInv

LEMMA PeerFinInv ==
    ASSUME IInv, NEW c \in Connection, PeerFin(c)
    PROVE  IInv'
<1>1. /\ peer[c] \in PeerRecord /\ c \in Limit /\ peer[c].port = c /\ c \in Port
      /\ peer[c].rcv > 0 /\ peer[c].open
  <2>1. peer[c].acked > 0
    BY BoundsAssumption DEF PeerFin, IInv, BaseInv, TypeOK, PeerRecord
  <2> QED BY <2>1, HeardOfInv
<1>2. peer[c].sent \in Nat /\ peer[c].sent + 1 \in 0 .. StreamBound + 1
  BY <1>1, BoundsAssumption DEF PeerRecord
<1>3. PICK f : f = Segment(c, "fin", peer[c].sent + 1)
  OBVIOUS
<1>4. /\ f.kind = "fin" /\ f.conn = c /\ f.port = c /\ f.seq = peer[c].sent + 1
      /\ f \in FrameRecord /\ DataOK(f)
  BY <1>1, <1>2, <1>3, BoundsAssumption DEF Segment, FrameRecord, Connection, DataOK
<1>5. PICK p \in PeerRecord :
        /\ peer' = [peer EXCEPT ![c] = p]
        /\ p.open /\ p.rcv = peer[c].rcv /\ p.port = peer[c].port
        /\ p.sent = peer[c].sent /\ p.fin
  <2> DEFINE p == [peer[c] EXCEPT !.fin = TRUE]
  <2>1. p \in PeerRecord /\ p.open = peer[c].open /\ p.rcv = peer[c].rcv
        /\ p.port = peer[c].port /\ p.sent = peer[c].sent /\ p.fin
    BY <1>1 DEF PeerRecord
  <2>2. peer' = [peer EXCEPT ![c] = p]
    BY DEF PeerFin
  <2> QED BY <1>1, <2>1, <2>2
<1>6. Arrives(f) /\ opened' = opened
  BY <1>3 DEF PeerFin, Arrives, pool
<1>7. peer'[c] = p
  BY <1>5 DEF IInv, BaseInv, TypeOK
<1>8. FrameInv(f)'
  BY <1>1, <1>4, <1>5, <1>6, <1>7 DEF FrameInv, Limit
<1>9. p.sent >= peer[c].sent
  BY <1>2, <1>5
<1> QED BY <1>1, <1>4, <1>5, <1>6, <1>8, <1>9, ArrivesInv

-----------------------------------------------------------------------------
(* The theorems.                                                           *)

LEMMA PeerBase ==
    ASSUME BaseInv, NEW c \in Connection, PeerSynAck(c) \/ PeerData(c) \/ PeerFin(c)
    PROVE  BaseInv'
<1>1. PICK p \in PeerRecord : p = peer[c]
  BY DEF BaseInv, TypeOK
<1>2. /\ p.sent \in Nat /\ p.sent <= StreamBound /\ p.port \in Port /\ p.acked \in Nat
      /\ peer \in [Connection -> PeerRecord]
      /\ c \in 0 .. Connections /\ StreamBound \in Nat
  BY <1>1, BoundsAssumption DEF PeerRecord, BaseInv, TypeOK, Connection
<1>3. CASE PeerSynAck(c)
  <2>1. PICK f : f = Segment(c, "synack", 0)
    OBVIOUS
  <2>2. f \in FrameRecord /\ DataOK(f)
    BY <1>1, <1>2, <2>1 DEF Segment, FrameRecord, DataOK
  <2>3. peer' = [peer EXCEPT ![c] = [p EXCEPT !.open = TRUE]] /\ Arrives(f)
    BY <1>1, <1>3, <2>1 DEF PeerSynAck
  <2>4. [p EXCEPT !.open = TRUE] \in PeerRecord
    BY DEF PeerRecord
  <2> QED BY <1>2, <2>2, <2>3, <2>4, ArrivesBase
<1>4. CASE PeerData(c)
  <2>1. PICK k \in p.acked .. p.sent + 1 :
          /\ p.acked > 0
          /\ k <= IF p.fin THEN p.sent ELSE StreamBound
          /\ Arrives(Segment(c, "data", k))
          /\ peer' = [peer EXCEPT ![c].sent = IF k > @ THEN k ELSE @]
    BY <1>1, <1>4 DEF PeerData
  <2>2. k \in 1 .. StreamBound
    BY <1>2, <2>1
  <2>3. PICK f : f = Segment(c, "data", k)
    OBVIOUS
  <2>4. f \in FrameRecord /\ DataOK(f) /\ Arrives(f)
    BY <1>1, <1>2, <2>1, <2>2, <2>3 DEF Segment, FrameRecord, DataOK
  <2>5. PICK n \in 0 .. StreamBound : n = IF k > p.sent THEN k ELSE p.sent
    BY <1>2, <2>2
  <2>6. peer' = [peer EXCEPT ![c] = [p EXCEPT !.sent = n]]
    BY <1>1, <2>1, <2>5
  <2>7. [p EXCEPT !.sent = n] \in PeerRecord
    BY DEF PeerRecord
  <2> QED BY <1>2, <2>4, <2>6, <2>7, ArrivesBase
<1>5. CASE PeerFin(c)
  <2>1. PICK f : f = Segment(c, "fin", p.sent + 1)
    OBVIOUS
  <2>2. f \in FrameRecord /\ DataOK(f)
    BY <1>1, <1>2, <2>1 DEF Segment, FrameRecord, DataOK
  <2>3. peer' = [peer EXCEPT ![c] = [p EXCEPT !.fin = TRUE]] /\ Arrives(f)
    BY <1>1, <1>5, <2>1 DEF PeerFin
  <2>4. [p EXCEPT !.fin = TRUE] \in PeerRecord
    BY DEF PeerRecord
  <2> QED BY <1>2, <2>2, <2>3, <2>4, ArrivesBase
<1> QED BY <1>3, <1>4, <1>5

LEMMA ArpReplyBase ==
    ASSUME BaseInv, ArpReply
    PROVE  BaseInv'
<1>1. PICK f : f = [kind |-> "arp", conn |-> 0, port |-> 0, seq |-> 0]
  OBVIOUS
<1>2. f \in FrameRecord /\ DataOK(f)
  BY <1>1, BoundsAssumption DEF FrameRecord, Port, DataOK
<1>3. Arrives(f) /\ peer' = peer
  BY <1>1 DEF ArpReply
<1> QED BY <1>2, <1>3, ArrivesBase DEF BaseInv, TypeOK

LEMMA StepBase == BaseInv /\ [Next]_vars => BaseInv'
<1> SUFFICES ASSUME BaseInv, [Next]_vars PROVE BaseInv'
  OBVIOUS
<1>1. ASSUME NEW a \in Apps, Open(a) \/ Write(a) \/ Read(a) \/ Close(a) \/ Kill(a)
      PROVE  BaseInv'
  BY <1>1, OpenBase, WriteBase, ReadBase, CloseBase, KillBase
<1>2. CASE AskArp \/ UNCHANGED vars
  BY <1>2, QuietBase
<1>3. CASE Handler
  BY <1>3, HandlerBase
<1>4. CASE ArpReply
  BY <1>4, ArpReplyBase
<1>5. ASSUME NEW c \in Connection, PeerSynAck(c) \/ PeerData(c) \/ PeerFin(c)
      PROVE  BaseInv'
  BY <1>5, PeerBase
<1> QED BY <1>1, <1>2, <1>3, <1>4, <1>5 DEF Next

LEMMA Base == Spec => []BaseInv
BY InitBase, StepBase, PTL DEF Spec

\* Until the ports repeat.
LEMMA StepInv == IInv /\ [Next]_vars => IInv' \/ PortsUsedUp'
<1> SUFFICES ASSUME IInv, [Next]_vars, ~PortsUsedUp' PROVE IInv'
  OBVIOUS
<1>1. ASSUME NEW a \in Apps, Open(a) \/ Write(a) \/ Read(a) \/ Close(a) \/ Kill(a)
      PROVE  IInv'
  BY <1>1, OpenInv, WriteInv, ReadInv, CloseInv, KillInv
<1>2. CASE AskArp \/ UNCHANGED vars
  BY <1>2, QuietInv
<1>3. CASE Handler
  BY <1>3, HandlerInv
<1>4. CASE ArpReply
  BY <1>4, ArpReplyInv
<1>5. ASSUME NEW c \in Connection, PeerSynAck(c) \/ PeerData(c) \/ PeerFin(c)
      PROVE  IInv'
  BY <1>5, PeerSynAckInv, PeerDataInv, PeerFinInv
<1> QED BY <1>1, <1>2, <1>3, <1>4, <1>5 DEF Next

LEMMA PortsStayUsedUp == BaseInv /\ PortsUsedUp /\ [Next]_vars => PortsUsedUp'
<1> SUFFICES ASSUME BaseInv, PortsUsedUp, [Next]_vars PROVE PortsUsedUp'
  OBVIOUS
<1>1. opened' = opened \/ opened' = opened + 1
  BY DEF Next, vars, pool, Open, Write, Read, Close, Kill, AskArp, Handler, ArpReply,
         PeerSynAck, PeerData, PeerFin, Arrives
<1> QED BY <1>1, BoundsAssumption DEF PortsUsedUp, BaseInv, TypeOK

LEMMA Invariant == Spec => [](PortsUsedUp \/ IInv)
<1>1. Init => PortsUsedUp \/ IInv
  BY InitInv
<1>2. BaseInv /\ (PortsUsedUp \/ IInv) /\ [Next]_vars => (PortsUsedUp \/ IInv)'
  BY StepInv, PortsStayUsedUp
<1> QED BY <1>1, <1>2, Base, PTL DEF Spec

\* Sockets, the other ends and the frames between them keep their types, and
\* no socket buffers more than its capacity, for ever.
THEOREM TypeCorrect == Spec => []TypeOK
<1>1. BaseInv => TypeOK
  BY DEF BaseInv
<1> QED BY <1>1, Base, PTL

\* Until the ports repeat, no byte of an earlier connection, however late its
\* frame, enters the buffer of the socket that took its place in the pool.
THEOREM NoForeignBytes == Spec => []OwnBytesOnly
<1>1. PortsUsedUp \/ IInv => OwnBytesOnly
  BY DEF IInv, SocketInv, OwnBytesOnly
<1> QED BY <1>1, Invariant, PTL

\* Until the ports repeat, the other end has accepted every established
\* connection and expects no number beyond its socket's next, and that very
\* number as long as the network lost no segment that carried one.
THEOREM EndsInStep == Spec => []EndsAgree
<1>1. PortsUsedUp \/ IInv => EndsAgree
  BY DEF IInv, SocketInv, EndsAgree, Established
<1> QED BY <1>1, Invariant, PTL

\* Until the ports repeat, no socket acknowledges what was not sent to it.
THEOREM AcksTrue == Spec => []AcksOnlySent
<1>1. PortsUsedUp \/ IInv => AcksOnlySent
  BY DEF IInv, SocketInv, AcksOnlySent
<1> QED BY <1>1, Invariant, PTL

\* A socket has one owner, and stays out of the pool until that owner closes
\* it, even when the ports repeat.
THEOREM OneOwner == Spec => []SocketsNotShared
<1>1. BaseInv => SocketsNotShared
  BY DEF BaseInv
<1> QED BY <1>1, Base, PTL
=============================================================================

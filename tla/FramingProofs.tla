------------------------------ MODULE FramingProofs ------------------------------
(***************************************************************************)
(* The loops of send_n and recv_n and the header make a packet channel of  *)
(* the byte stream, for every header size, limit, socket buffer, number of *)
(* packets and split of the stream into reads and writes.                  *)
(*                                                                         *)
(* What a packet is made of cannot be said by concatenating all packets,   *)
(* which would need induction; Whole says it byte by byte instead.         *)
(***************************************************************************)
EXTENDS Framing, SequenceTheorems, TLAPS

\* Where a byte lies in its packet, and how long that packet is.
Place(b)        == IF b[1] = "header" THEN b[3] ELSE HeaderSize + b[3]
Content(s, n)   == Len(s[n].payload)
PacketLen(s, n) == HeaderSize + Content(s, n)
ByteAt(n, p)    == IF p <= HeaderSize THEN HeaderByte(n, p) ELSE PayloadByte(n, p - HeaderSize)

\* Two pieces of a stream, and everything between the two callers: what is read but not
\* returned, in the socket, not yet written.
Join(s, t)   == s \o t
Over(g, w, u, p) == Join(Join(Join(g, w), u), p)
Flight       == Over(got, wire, unsent, payload)

\* Where in the stream f of the packets s the packet of its i-th byte ends.
PacketEnd(f, s, i) == i + PacketLen(s, f[i][2]) - Place(f[i])

\* From any of its bytes on a packet is there to its end, and the next one follows it.
Whole(f, s) == \A i \in 1..Len(f) :
    /\ f[i][2] \in 1..Len(s) /\ Place(f[i]) \in 1..PacketLen(s, f[i][2])
    /\ PacketEnd(f, s, i) <= Len(f)
    /\ \A j \in i..PacketEnd(f, s, i) : f[j] = ByteAt(f[i][2], Place(f[i]) + (j - i))
    /\ PacketEnd(f, s, i) = Len(f) => f[i][2] = Len(s)
    /\ PacketEnd(f, s, i) # Len(f) => f[PacketEnd(f, s, i) + 1] = ByteAt(f[i][2] + 1, 1)
    /\ \A j \in 1..Len(f) : j > PacketEnd(f, s, i) => f[j][2] > f[i][2]

\* What send_packet was given is what the number of the packet says.
Numbered == /\ Len(sent) <= calls
            /\ \A n \in 1..Len(sent) : /\ sent[n].id = n
                                       /\ \A k \in 1..Content(sent, n) : sent[n].payload[k] = k
            /\ unsent = <<>> => payload = <<>>

LastId == PC!LastId

\* The receiver stands at the beginning of a packet, or of the payload of one, and
\* all that is under way is newer than what it has returned.
AtHeader  == need = "header" =>
                 /\ Len(got) < HeaderSize
                 /\ ~recvFailed => /\ Len(Flight) = 0 => LastId = Len(sent)
                                   /\ Len(Flight) # 0 => Flight[1] = HeaderByte(LastId + 1, 1)
AtPayload == need = "payload" =>
                 /\ header \in 1..Len(sent) /\ Len(got) < Content(sent, header)
                 /\ header > LastId /\ (recvFailed \/ header = LastId + 1)
                 /\ Len(Flight) >= 1 /\ Flight[1] = PayloadByte(header, 1)
Newer     == /\ LastId \in 0..Len(sent)
             /\ \A i \in 1..Len(Flight) : Flight[i][2] > LastId

Typing    == TypeOK /\ Numbered
StreamInv == Typing /\ Whole(Flight, sent) /\ AtHeader /\ AtPayload /\ Newer

--------------------------------------------------------------------------------
(* Bytes and sequences of bytes. *)

LEMMA ByteFacts ==
    /\ HeaderSize \in Nat /\ HeaderSize >= 1 /\ MaxPayload \in Nat /\ PacketIds \subseteq Nat
    /\ \A b \in Bytes : b[2] \in PacketIds /\ b[3] \in Nat /\ Place(b) \in Nat
    /\ \A n \in PacketIds : /\ \A k \in 1..HeaderSize : HeaderByte(n, k) \in Bytes
                            /\ \A k \in 1..MaxPayload : PayloadByte(n, k) \in Bytes
    /\ \A n, p \in Nat : ByteAt(n, p)[2] = n /\ Place(ByteAt(n, p)) = p
  <1>1. HeaderSize \in Nat /\ HeaderSize >= 1 /\ MaxPayload \in Nat /\ MaxPackets \in Nat
    BY FramingAssumption
  <1>2. PacketIds \subseteq Nat  BY <1>1 DEF PacketIds
  <1>3. ASSUME NEW b \in Bytes PROVE b[2] \in PacketIds /\ b[3] \in Nat /\ Place(b) \in Nat
    <2>1. PICK kind \in {"header", "payload"}, n \in PacketIds, k \in 1..(HeaderSize + MaxPayload) :
              b = <<kind, n, k>>
      BY DEF Bytes
    <2>2. b[2] \in PacketIds /\ b[3] \in Nat  BY <1>1, <2>1
    <2> QED  BY <1>1, <2>2 DEF Place
  <1>4. ASSUME NEW n \in PacketIds
        PROVE  /\ \A k \in 1..HeaderSize : HeaderByte(n, k) \in Bytes
               /\ \A k \in 1..MaxPayload : PayloadByte(n, k) \in Bytes
    <2>1. \A k \in 1..HeaderSize : k \in 1..(HeaderSize + MaxPayload)  BY <1>1
    <2>2. \A k \in 1..MaxPayload : k \in 1..(HeaderSize + MaxPayload)  BY <1>1
    <2> QED  BY <2>1, <2>2 DEF Bytes, HeaderByte, PayloadByte
  <1>5. ASSUME NEW n \in Nat, NEW p \in Nat PROVE ByteAt(n, p)[2] = n /\ Place(ByteAt(n, p)) = p
    BY <1>1 DEF ByteAt, Place, HeaderByte, PayloadByte
  <1> QED  BY <1>1, <1>2, <1>3, <1>4, <1>5

LEMMA JoinIsSeq ==
    ASSUME NEW T, NEW s \in Seq(T), NEW t \in Seq(T)
    PROVE  Join(s, t) \in Seq(T) /\ Len(Join(s, t)) = Len(s) + Len(t)
  BY ConcatProperties DEF Join

\* The elements of s, then those of t.
Joined(s, t) == /\ \A i \in 1..Len(s) : Join(s, t)[i] = s[i]
                /\ \A i \in 1..Len(t) : Join(s, t)[Len(s) + i] = t[i]

LEMMA JoinElements ==
    ASSUME NEW T, NEW s \in Seq(T), NEW t \in Seq(T)
    PROVE  Joined(s, t)
  <1>1. PICK m \in Nat, n \in Nat : m = Len(s) /\ n = Len(t)  OBVIOUS
  <1>2. PICK r : r = s \o t  OBVIOUS
  <1>3. \A i \in 1..(m + n) : r[i] = IF i <= m THEN s[i] ELSE t[i - m]
    BY <1>1, <1>2, ConcatProperties
  <1>4. \A i \in 1..m : r[i] = s[i]  BY <1>3
  <1>5. ASSUME NEW i \in 1..n PROVE r[m + i] = t[i]
    <2>1. m + i \in 1..(m + n) /\ ~(m + i <= m) /\ (m + i) - m = i  OBVIOUS
    <2> QED  BY <1>3, <2>1
  <1> QED  BY <1>1, <1>2, <1>4, <1>5 DEF Join, Joined

LEMMA JoinEmpty ==
    ASSUME NEW T, NEW s \in Seq(T)
    PROVE  Join(s, <<>>) = s /\ Join(<<>>, s) = s
  BY ConcatEmptySeq DEF Join

LEMMA JoinAssociates ==
    ASSUME NEW T, NEW s \in Seq(T), NEW t \in Seq(T), NEW r \in Seq(T)
    PROVE  Join(Join(s, t), r) = Join(s, Join(t, r))
  BY ConcatAssociative DEF Join

\* A sequence in two parts.
CutAt(s, k, a, b) == /\ a = SubSeq(s, 1, k) /\ b = SubSeq(s, k + 1, Len(s))
                     /\ Len(a) = k /\ Len(b) = Len(s) - k
                     /\ s = Join(a, b)
                     /\ k = Len(s) => a = s

LEMMA Cut ==
    ASSUME NEW T, NEW s \in Seq(T), NEW k \in 0..Len(s)
    PROVE  \E a, b \in Seq(T) : CutAt(s, k, a, b)
  <1>1. Len(s) \in Nat /\ k \in Nat /\ k <= Len(s) /\ \A i \in 1..Len(s) : s[i] \in T  OBVIOUS
  <1>2. PICK n \in Nat : n = Len(s)  BY <1>1
  <1>3. PICK a : a = SubSeq(s, 1, k)  OBVIOUS
  <1>4. PICK b : b = SubSeq(s, k + 1, n)  OBVIOUS
  <1>5. a \in Seq(T) /\ Len(a) = k /\ \A i \in 1..k : a[i] = s[i]
    BY <1>1, <1>2, <1>3
  <1>6. b \in Seq(T) /\ Len(b) = n - k /\ \A i \in 1..(n - k) : b[i] = s[i + k]
    BY <1>1, <1>2, <1>4
  <1>7. Join(a, b) = s
    <2>1. Join(a, b) \in Seq(T) /\ Len(Join(a, b)) = n
      <3>1. Join(a, b) \in Seq(T) /\ Len(Join(a, b)) = Len(a) + Len(b)  BY <1>5, <1>6, JoinIsSeq
      <3>2. k + (n - k) = n  BY <1>1, <1>2
      <3> QED  BY <1>5, <1>6, <3>1, <3>2
    <2>2. ASSUME NEW i \in 1..n PROVE Join(a, b)[i] = s[i]
      <3>0. a \in Seq(T) /\ b \in Seq(T)  BY <1>5, <1>6
      <3>b. Joined(a, b)  BY <3>0, JoinElements
      <3>a. /\ \A j \in 1..Len(a) : Join(a, b)[j] = a[j]
            /\ \A j \in 1..Len(b) : Join(a, b)[Len(a) + j] = b[j]
        BY <3>b DEF Joined
      <3>1. CASE i <= k
        <4>1. i \in 1..Len(a)  BY <1>5, <3>1
        <4> QED  BY <1>5, <3>a, <4>1
      <3>2. CASE ~(i <= k)
        <4>1. i - k \in 1..(n - k) /\ k + (i - k) = i /\ (i - k) + k = i  BY <1>1, <1>2, <3>2
        <4>2. Join(a, b)[k + (i - k)] = b[i - k]  BY <1>5, <1>6, <3>a, <4>1
        <4> QED  BY <1>6, <4>1, <4>2
      <3> QED  BY <3>1, <3>2
    <2> QED  BY <1>2, <2>1, <2>2, SeqEqual
  <1>8. k = n => a = s  BY <1>2, <1>3, SubSeqFull
  <1>9. CutAt(s, k, a, b)  BY <1>2, <1>3, <1>4, <1>5, <1>6, <1>7, <1>8 DEF CutAt
  <1> QED  BY <1>5, <1>6, <1>9

LEMMA OverIsSeq ==
    ASSUME NEW T, NEW g \in Seq(T), NEW w \in Seq(T), NEW u \in Seq(T), NEW p \in Seq(T)
    PROVE  Over(g, w, u, p) \in Seq(T) /\ Len(Over(g, w, u, p)) = Len(g) + Len(w) + Len(u) + Len(p)
  <1>1. Join(g, w) \in Seq(T) /\ Len(Join(g, w)) = Len(g) + Len(w)  BY JoinIsSeq
  <1>2. Join(Join(g, w), u) \in Seq(T) /\ Len(Join(Join(g, w), u)) = Len(Join(g, w)) + Len(u)
    BY <1>1, JoinIsSeq
  <1>3. Over(g, w, u, p) \in Seq(T) /\ Len(Over(g, w, u, p)) = Len(Join(Join(g, w), u)) + Len(p)
    BY <1>2, JoinIsSeq DEF Over
  <1> QED  BY <1>1, <1>2, <1>3

\* Bytes move from one piece of the stream to the next: part of the third or all of it to
\* the second, part of the second to the first.
LEMMA MovesOn ==
    ASSUME NEW T, NEW g \in Seq(T), NEW w \in Seq(T), NEW a \in Seq(T), NEW b \in Seq(T), NEW p
    PROVE  Over(g, Join(w, a), b, p) = Over(g, w, Join(a, b), p)
  <1>1. Join(g, Join(w, a)) = Join(Join(g, w), a)  BY JoinAssociates
  <1>2. Join(g, w) \in Seq(T)  BY JoinIsSeq
  <1>3. Join(Join(Join(g, w), a), b) = Join(Join(g, w), Join(a, b))  BY <1>2, JoinAssociates
  <1> QED  BY <1>1, <1>3 DEF Over

LEMMA MovesAll ==
    ASSUME NEW T, NEW g \in Seq(T), NEW w \in Seq(T), NEW u \in Seq(T), NEW p \in Seq(T)
    PROVE  Over(g, Join(w, u), p, <<>>) = Over(g, w, u, p)
  <1>1. Join(g, Join(w, u)) = Join(Join(g, w), u)  BY JoinAssociates
  <1>2. Over(g, w, u, p) \in Seq(T)  BY OverIsSeq
  <1>3. Join(Over(g, w, u, p), <<>>) = Over(g, w, u, p)  BY <1>2, JoinEmpty
  <1> QED  BY <1>1, <1>3 DEF Over

LEMMA MovesIn ==
    ASSUME NEW T, NEW g \in Seq(T), NEW a \in Seq(T), NEW b \in Seq(T), NEW u, NEW p
    PROVE  Over(Join(g, a), b, u, p) = Over(g, Join(a, b), u, p)
  <1>1. Join(Join(g, a), b) = Join(g, Join(a, b))  BY JoinAssociates
  <1> QED  BY <1>1 DEF Over

\* The first piece is the beginning of the stream, the rest follows.
LEMMA Front ==
    ASSUME NEW T, NEW a \in Seq(T), NEW w \in Seq(T), NEW u \in Seq(T), NEW p \in Seq(T)
    PROVE  /\ Over(<<>>, w, u, p) \in Seq(T)
           /\ Len(Over(a, w, u, p)) = Len(a) + Len(Over(<<>>, w, u, p))
           /\ \A i \in 1..Len(a) : Over(a, w, u, p)[i] = a[i]
           /\ \A i \in 1..Len(Over(<<>>, w, u, p)) :
                 Over(a, w, u, p)[Len(a) + i] = Over(<<>>, w, u, p)[i]
  <1>1. PICK wu \in Seq(T) : wu = Join(w, u)  BY JoinIsSeq
  <1>2. PICK r \in Seq(T) : r = Join(wu, p)  BY JoinIsSeq
  <1>3. Over(<<>>, w, u, p) = r
    <2>1. Join(<<>>, w) = w  BY JoinEmpty
    <2> QED  BY <1>1, <1>2, <2>1 DEF Over
  <1>4. Over(a, w, u, p) = Join(a, r)
    <2>1. Join(Join(a, w), u) = Join(a, wu)  BY <1>1, JoinAssociates
    <2>2. Join(Join(a, wu), p) = Join(a, r)  BY <1>2, JoinAssociates
    <2> QED  BY <2>1, <2>2 DEF Over
  <1>5. Len(Join(a, r)) = Len(a) + Len(r)  BY JoinIsSeq
  <1>6. Joined(a, r)  BY JoinElements
  <1> QED  BY <1>3, <1>4, <1>5, <1>6 DEF Joined

\* h is f, followed by u and p.
Appends(h, f, u, p) == /\ Len(h) = Len(f) + Len(u) + Len(p)
                       /\ \A i \in 1..Len(f) : h[i] = f[i]
                       /\ \A i \in 1..Len(u) : h[Len(f) + i] = u[i]
                       /\ \A i \in 1..Len(p) : h[Len(f) + Len(u) + i] = p[i]

LEMMA Behind ==
    ASSUME NEW T, NEW f \in Seq(T), NEW u \in Seq(T), NEW p \in Seq(T)
    PROVE  Appends(Join(Join(f, u), p), f, u, p)
  <1>3. Joined(f, u)  BY JoinElements
  <1>h. PICK h : h = Join(Join(f, u), p)  OBVIOUS
  <1>1. PICK fu \in Seq(T) : fu = Join(f, u) /\ Len(fu) = Len(f) + Len(u)  BY JoinIsSeq
  <1>2. Len(Join(fu, p)) = Len(fu) + Len(p)  BY JoinIsSeq
  <1>0. h = Join(fu, p)  BY <1>1, <1>h
  <1>4. Joined(fu, p)  BY JoinElements
  <1>5. PICK a \in Nat, b \in Nat : a = Len(f) /\ b = Len(u) /\ Len(fu) = a + b  BY <1>1
  <1>6. ASSUME NEW i \in 1..a PROVE h[i] = f[i]
    <2>1. i \in 1..Len(fu)  BY <1>5
    <2> QED  BY <1>0, <1>1, <1>3, <1>4, <1>5, <2>1 DEF Joined
  <1>7. ASSUME NEW i \in 1..b PROVE h[a + i] = u[i]
    <2>1. a + i \in 1..Len(fu)  BY <1>5
    <2> QED  BY <1>0, <1>1, <1>3, <1>4, <1>5, <2>1 DEF Joined
  <1>8. \A i \in 1..Len(p) : h[a + b + i] = p[i]  BY <1>0, <1>4, <1>5 DEF Joined
  <1>9. Len(h) = a + b + Len(p)  BY <1>0, <1>2, <1>5
  <1> QED  BY <1>h, <1>5, <1>6, <1>7, <1>8, <1>9 DEF Appends

\* Bytes are put behind the stream.
LEMMA Back ==
    ASSUME NEW T, NEW g \in Seq(T), NEW w \in Seq(T), NEW u \in Seq(T), NEW p \in Seq(T)
    PROVE  Appends(Over(g, w, u, p), Over(g, w, <<>>, <<>>), u, p)
  <1>1. PICK f \in Seq(T) : f = Join(g, w)  BY JoinIsSeq
  <1>2. Over(g, w, <<>>, <<>>) = f
    <2>1. Join(f, <<>>) = f  BY JoinEmpty
    <2> QED  BY <1>1, <2>1 DEF Over
  <1>3. Over(g, w, u, p) = Join(Join(f, u), p)  BY <1>1 DEF Over
  <1>4. Appends(Join(Join(f, u), p), f, u, p)  BY Behind
  <1> QED  BY <1>2, <1>3, <1>4


--------------------------------------------------------------------------------
(* Streams of whole packets. *)

LEMMA PacketFacts ==
    ASSUME NEW s \in Seq(Packets), NEW n \in 1..Len(s)
    PROVE  /\ s[n] \in Packets /\ s[n].payload \in Seq(1..MaxPayload)
           /\ Content(s, n) \in Nat /\ PacketLen(s, n) \in Nat /\ PacketLen(s, n) >= HeaderSize
           /\ PacketLen(s, n) >= 1
  <1>1. s[n] \in Packets  OBVIOUS
  <1>2. s[n].payload \in Seq(1..MaxPayload)  BY <1>1 DEF Packets
  <1>3. Content(s, n) \in Nat  BY <1>2 DEF Content
  <1> QED  BY <1>1, <1>2, <1>3, ByteFacts DEF PacketLen

\* What Whole says of one byte.
LEMMA WholeAt ==
    ASSUME NEW s \in Seq(Packets), NEW f \in Seq(Bytes), Whole(f, s), NEW i \in 1..Len(f)
    PROVE  \E n \in 1..Len(s), p \in Nat, e \in Nat :
              /\ n = f[i][2] /\ p = Place(f[i]) /\ e = PacketEnd(f, s, i)
              /\ p >= 1 /\ p <= PacketLen(s, n) /\ e = i + PacketLen(s, n) - p /\ i <= e /\ e <= Len(f)
              /\ \A j \in i..e : f[j] = ByteAt(n, p + (j - i))
              /\ e = Len(f) => n = Len(s)
              /\ e # Len(f) => f[e + 1] = ByteAt(n + 1, 1)
              /\ \A j \in 1..Len(f) : j > e => f[j][2] > n
  <1>1. PICK n \in 1..Len(s) : n = f[i][2]  BY DEF Whole
  <1>2. PICK p \in 1..PacketLen(s, n) : p = Place(f[i])  BY <1>1 DEF Whole
  <1>3. PICK l \in Nat : l = PacketLen(s, n)  BY PacketFacts
  <1>4. PICK e \in Nat : e = i + l - p /\ i <= e  BY <1>3
  <1>5. e = PacketEnd(f, s, i)  BY <1>1, <1>2, <1>3, <1>4 DEF PacketEnd
  <1>6. /\ e <= Len(f)
        /\ \A j \in i..e : f[j] = ByteAt(n, p + (j - i))
        /\ e = Len(f) => n = Len(s)
        /\ e # Len(f) => f[e + 1] = ByteAt(n + 1, 1)
        /\ \A j \in 1..Len(f) : j > e => f[j][2] > n
    BY <1>1, <1>2, <1>5 DEF Whole
  <1>7. p \in Nat /\ p >= 1 /\ p <= PacketLen(s, n)  BY <1>3
  <1> QED  BY <1>1, <1>2, <1>3, <1>4, <1>5, <1>6, <1>7

\* A stream stays whole when it is read from the front.
LEMMA WholeDrops ==
    ASSUME NEW s \in Seq(Packets), NEW f \in Seq(Bytes), NEW g \in Seq(Bytes), NEW m \in Nat,
           Len(f) = m + Len(g), \A i \in 1..Len(g) : f[m + i] = g[i], Whole(f, s)
    PROVE  Whole(g, s)
  <1>1. PICK h \in Nat : h = Len(g)  OBVIOUS
  <1> SUFFICES ASSUME NEW i \in 1..Len(g)
               PROVE  /\ g[i][2] \in 1..Len(s) /\ Place(g[i]) \in 1..PacketLen(s, g[i][2])
                      /\ PacketEnd(g, s, i) <= Len(g)
                      /\ \A j \in i..PacketEnd(g, s, i) : g[j] = ByteAt(g[i][2], Place(g[i]) + (j - i))
                      /\ PacketEnd(g, s, i) = Len(g) => g[i][2] = Len(s)
                      /\ PacketEnd(g, s, i) # Len(g) => g[PacketEnd(g, s, i) + 1] = ByteAt(g[i][2] + 1, 1)
                      /\ \A j \in 1..Len(g) : j > PacketEnd(g, s, i) => g[j][2] > g[i][2]
    BY DEF Whole
  <1>2. i \in Nat /\ i >= 1 /\ i <= h /\ Len(f) = m + h  BY <1>1
  <1>3. PICK k \in 1..Len(f) : k = m + i  BY <1>2
  <1>4. PICK n \in 1..Len(s), p \in Nat, e \in Nat :
              /\ n = f[k][2] /\ p = Place(f[k]) /\ e = PacketEnd(f, s, k)
              /\ p >= 1 /\ p <= PacketLen(s, n) /\ e = k + PacketLen(s, n) - p /\ k <= e /\ e <= Len(f)
              /\ \A j \in k..e : f[j] = ByteAt(n, p + (j - k))
              /\ e = Len(f) => n = Len(s)
              /\ e # Len(f) => f[e + 1] = ByteAt(n + 1, 1)
              /\ \A j \in 1..Len(f) : j > e => f[j][2] > n
    BY WholeAt
  <1>5. g[i] = f[k]  BY <1>3
  <1>6. n = g[i][2] /\ p = Place(g[i])  BY <1>4, <1>5
  <1>7. PICK l \in Nat : l = PacketLen(s, n)  BY PacketFacts
  <1>8. PICK d \in Nat : d = i + l - p /\ e = m + d /\ i <= d /\ d <= h
    <2>1. e = k + l - p /\ k <= e /\ e <= m + h  BY <1>2, <1>4, <1>7
    <2>2. e = m + (i + l - p) /\ m + i <= e /\ e <= m + h  BY <1>2, <1>3, <2>1
    <2>3. i + l - p \in Nat /\ i <= i + l - p /\ i + l - p <= h  BY <1>1, <1>2, <2>2
    <2> QED  BY <2>2, <2>3
  <1>9. d = PacketEnd(g, s, i)  BY <1>6, <1>7, <1>8 DEF PacketEnd
  <1>10. p \in 1..PacketLen(s, n)  BY <1>4, <1>7
  <1>11. ASSUME NEW j \in i..d PROVE g[j] = ByteAt(n, p + (j - i))
    <2>1. j \in 1..h /\ m + j \in k..e /\ (m + j) - k = j - i  BY <1>2, <1>3, <1>8
    <2>2. f[m + j] = g[j]  BY <1>1, <2>1
    <2> QED  BY <1>4, <2>1, <2>2
  <1>12. d = h => n = Len(s)  BY <1>2, <1>4, <1>8
  <1>13. ASSUME d # h PROVE g[d + 1] = ByteAt(n + 1, 1)
    <2>1. d + 1 \in 1..h /\ m + (d + 1) = e + 1 /\ e # Len(f)  BY <1>2, <1>8, <1>13
    <2>2. f[m + (d + 1)] = g[d + 1]  BY <1>1, <2>1
    <2> QED  BY <1>4, <2>1, <2>2
  <1>14. ASSUME NEW j \in 1..h, j > d PROVE g[j][2] > n
    <2>1. m + j \in 1..(m + h) /\ m + j > m + d  BY <1>14
    <2>3. m + j \in 1..Len(f) /\ m + j > e  BY <1>2, <1>8, <2>1
    <2>2. f[m + j] = g[j]  BY <1>1
    <2> QED  BY <1>4, <2>2, <2>3
  <1> QED  BY <1>1, <1>6, <1>8, <1>9, <1>10, <1>11, <1>12, <1>13, <1>14

\* A stream stays whole when a packet is put behind it.
LEMMA WholeGrows ==
    ASSUME NEW s \in Seq(Packets), NEW t \in Seq(Packets), NEW f \in Seq(Bytes), NEW g \in Seq(Bytes),
           NEW n \in Nat, n = Len(s) + 1, n = Len(t), \A k \in 1..Len(s) : t[k] = s[k],
           Whole(f, s), Len(g) = Len(f) + PacketLen(t, n), \A i \in 1..Len(f) : g[i] = f[i],
           \A p \in 1..PacketLen(t, n) : g[Len(f) + p] = ByteAt(n, p)
    PROVE  Whole(g, t)
  <1>1. PICK a \in Nat, c \in Nat : a = Len(f) /\ c = Len(s)  OBVIOUS
  <1>2. n \in 1..Len(t) /\ n = c + 1  BY <1>1
  <1>3. PICK l \in Nat : l = PacketLen(t, n) /\ l >= 1  BY <1>2, PacketFacts
  <1>4. Len(g) = a + l  BY <1>1, <1>3
  <1> SUFFICES ASSUME NEW i \in 1..Len(g)
               PROVE  /\ g[i][2] \in 1..Len(t) /\ Place(g[i]) \in 1..PacketLen(t, g[i][2])
                      /\ PacketEnd(g, t, i) <= Len(g)
                      /\ \A j \in i..PacketEnd(g, t, i) : g[j] = ByteAt(g[i][2], Place(g[i]) + (j - i))
                      /\ PacketEnd(g, t, i) = Len(g) => g[i][2] = Len(t)
                      /\ PacketEnd(g, t, i) # Len(g) => g[PacketEnd(g, t, i) + 1] = ByteAt(g[i][2] + 1, 1)
                      /\ \A j \in 1..Len(g) : j > PacketEnd(g, t, i) => g[j][2] > g[i][2]
    BY DEF Whole
  <1>5. i \in Nat /\ i >= 1 /\ i <= a + l  BY <1>4
  <1>6. CASE i <= a
    <2>1. i \in 1..Len(f)  BY <1>1, <1>5, <1>6
    <2>2. PICK q \in 1..Len(s), p \in Nat, e \in Nat :
              /\ q = f[i][2] /\ p = Place(f[i]) /\ e = PacketEnd(f, s, i)
              /\ p >= 1 /\ p <= PacketLen(s, q) /\ e = i + PacketLen(s, q) - p /\ i <= e /\ e <= Len(f)
              /\ \A j \in i..e : f[j] = ByteAt(q, p + (j - i))
              /\ e = Len(f) => q = Len(s)
              /\ e # Len(f) => f[e + 1] = ByteAt(q + 1, 1)
              /\ \A j \in 1..Len(f) : j > e => f[j][2] > q
      BY <2>1, WholeAt
    <2>3. g[i] = f[i]  BY <2>1
    <2>4. q = g[i][2] /\ p = Place(g[i])  BY <2>2, <2>3
    <2>5. q \in Nat /\ q >= 1 /\ q <= c /\ q < n  BY <1>1, <1>2
    <2>6. PacketLen(t, q) = PacketLen(s, q)  BY DEF PacketLen, Content
    <2>7. e = PacketEnd(g, t, i)  BY <2>2, <2>3, <2>6 DEF PacketEnd
    <2>8. PICK m \in Nat : m = PacketLen(s, q)  BY PacketFacts
    <2>9. q \in 1..Len(t) /\ p \in 1..PacketLen(t, q) /\ e <= a /\ e < Len(g)
      <3>1. e <= a /\ p >= 1 /\ p <= m  BY <1>1, <2>2, <2>8
      <3>2. p \in 1..m /\ e < a + l /\ q \in 1..n  BY <1>2, <1>3, <2>5, <3>1
      <3> QED  BY <1>2, <1>4, <2>6, <2>8, <3>1, <3>2
    <2>10. ASSUME NEW j \in i..e PROVE g[j] = ByteAt(q, p + (j - i))
      <3>1. j \in 1..Len(f)  BY <1>1, <1>5, <2>9
      <3>2. g[j] = f[j]  BY <3>1
      <3> QED  BY <2>2, <3>2
    <2>11. g[e + 1] = ByteAt(q + 1, 1)
      <3>1. CASE e = a
        <4>1. 1 \in 1..PacketLen(t, n)  BY <1>3
        <4>2. q + 1 = n  BY <1>1, <1>2, <2>2, <3>1
        <4>3. g[Len(f) + 1] = ByteAt(n, 1)  BY <4>1
        <4> QED  BY <1>1, <3>1, <4>2, <4>3
      <3>2. CASE e # a
        <4>1. e + 1 \in 1..Len(f)  BY <1>1, <2>9, <3>2
        <4>2. g[e + 1] = f[e + 1]  BY <4>1
        <4> QED  BY <1>1, <2>2, <3>2, <4>2
      <3> QED  BY <3>1, <3>2
    <2>12. ASSUME NEW j \in 1..Len(g), j > e PROVE g[j][2] > q
      <3>1. CASE j <= a
        <4>1. j \in 1..Len(f)  BY <1>1, <3>1
        <4>2. g[j] = f[j]  BY <4>1
        <4> QED  BY <2>2, <2>12, <4>1, <4>2
      <3>2. CASE ~(j <= a)
        <4>1. PICK x \in 1..PacketLen(t, n) : j = Len(f) + x
          <5>1. j - a \in 1..l /\ j = a + (j - a)  BY <1>4, <3>2
          <5> QED  BY <1>1, <1>3, <5>1
        <4>2. g[j] = ByteAt(n, x)  BY <4>1
        <4>3. x \in Nat  BY <1>3
        <4>4. g[j][2] = n  BY <4>2, <4>3, ByteFacts
        <4> QED  BY <2>5, <4>4
      <3> QED  BY <3>1, <3>2
    <2>13. e # Len(g)  BY <1>4, <2>9
    <2> QED  BY <2>4, <2>7, <2>9, <2>10, <2>11, <2>12, <2>13
  <1>7. CASE ~(i <= a)
    <2>1. PICK p \in 1..l : i = a + p
      <3>1. i - a \in 1..l /\ i = a + (i - a)  BY <1>5, <1>7
      <3> QED  BY <3>1
    <2>2. g[i] = ByteAt(n, p)  BY <1>1, <1>3, <2>1
    <2>3. g[i][2] = n /\ Place(g[i]) = p
      <3>1. p \in Nat  OBVIOUS
      <3> QED  BY <2>2, <3>1, ByteFacts
    <2>4. PacketEnd(g, t, i) = a + l  BY <1>3, <2>1, <2>3 DEF PacketEnd
    <2>5. ASSUME NEW j \in i..(a + l) PROVE g[j] = ByteAt(n, p + (j - i))
      <3>1. PICK x \in 1..l : j = a + x /\ p + (j - i) = x
        <4>1. j - a \in 1..l /\ j = a + (j - a) /\ p + (j - i) = j - a  BY <1>5, <1>7, <2>1
        <4> QED  BY <4>1
      <3>2. g[Len(f) + x] = ByteAt(n, x)  BY <1>3
      <3> QED  BY <1>1, <3>1, <3>2
    <2>6. ASSUME NEW j \in 1..Len(g), j > a + l PROVE FALSE  BY <1>4, <2>6
    <2>7. g[i][2] \in 1..Len(t) /\ Place(g[i]) \in 1..PacketLen(t, g[i][2])  BY <1>2, <1>3, <2>3
    <2>8. PacketEnd(g, t, i) = Len(g) /\ PacketEnd(g, t, i) <= Len(g)
      <3>1. a + l <= a + l  OBVIOUS
      <3> QED  BY <1>4, <2>4, <3>1
    <2>9. g[i][2] = Len(t)  BY <2>3
    <2>10. \A j \in i..PacketEnd(g, t, i) : g[j] = ByteAt(g[i][2], Place(g[i]) + (j - i))
      BY <2>3, <2>4, <2>5
    <2> QED  BY <2>4, <2>6, <2>7, <2>8, <2>9, <2>10
  <1> QED  BY <1>1, <1>5, <1>6, <1>7

--------------------------------------------------------------------------------
(* The sender. *)

LEMMA InitStream == Init => StreamInv
  <1> SUFFICES ASSUME Init PROVE StreamInv  OBVIOUS
  <1>1. <<>> \in Seq(Bytes) /\ <<>> \in Seq(Packets) /\ Len(<<>>) = 0  OBVIOUS
  <1>2. Flight = <<>>
    <2>1. Over(<<>>, <<>>, <<>>, <<>>) = <<>>  BY <1>1, JoinEmpty DEF Over
    <2> QED  BY <2>1 DEF Init, Flight
  <1>3. Len(Flight) = 0  BY <1>1, <1>2
  <1>4. TypeOK
    <2>1. 0 \in 0..MaxPackets /\ 0 <= Buffer  BY FramingAssumption
    <2>2. recvFailed \in BOOLEAN  BY DEF Init
    <2>3. Len(wire) <= Buffer  BY <1>1, <2>1 DEF Init
    <2> QED  BY <1>1, <2>1, <2>2, <2>3 DEF Init, TypeOK
  <1>5. Numbered  BY <1>1 DEF Init, Numbered
  <1>6. LastId = 0 /\ Len(sent) = 0  BY <1>1 DEF Init, LastId, PC!LastId
  <1>7. Whole(Flight, sent)  BY <1>3 DEF Whole
  <1>8. AtHeader /\ AtPayload /\ Newer
    <2>1. need = "header" /\ Len(got) = 0 /\ HeaderSize > 0  BY <1>1, ByteFacts DEF Init
    <2> QED  BY <1>3, <1>6, <2>1 DEF AtHeader, AtPayload, Newer
  <1> QED  BY <1>4, <1>5, <1>7, <1>8 DEF StreamInv, Typing

\* A new packet and its bytes.
LEMMA NewPacket ==
    ASSUME NEW n \in PacketIds, NEW len \in Nat, len <= MaxPayload
    PROVE  /\ HeaderOf(n) \in Seq(Bytes) /\ Len(HeaderOf(n)) = HeaderSize
           /\ PayloadOf(n, len) \in Seq(Bytes) /\ Len(PayloadOf(n, len)) = len
           /\ \A p \in 1..HeaderSize : HeaderOf(n)[p] = ByteAt(n, p)
           /\ \A p \in 1..len : PayloadOf(n, len)[p] = ByteAt(n, HeaderSize + p)
           /\ Packet(n, PayloadOf(n, len)) \in Packets /\ Packet(n, PayloadOf(n, len)).id = n
           /\ Len(Packet(n, PayloadOf(n, len)).payload) = len
           /\ \A k \in 1..len : Packet(n, PayloadOf(n, len)).payload[k] = k
  <1>1. HeaderSize \in Nat /\ MaxPayload \in Nat /\ n \in Nat  BY ByteFacts
  <1>2. PICK h : h = [k \in 1..HeaderSize |-> HeaderByte(n, k)]  OBVIOUS
  <1>3. PICK q : q = [k \in 1..len |-> PayloadByte(n, k)]  OBVIOUS
  <1>4. h \in [1..HeaderSize -> Bytes] /\ q \in [1..len -> Bytes]
    <2>1. \A k \in 1..HeaderSize : HeaderByte(n, k) \in Bytes  BY ByteFacts
    <2>2. \A k \in 1..len : PayloadByte(n, k) \in Bytes
      <3>1. \A k \in 1..len : k \in 1..MaxPayload  BY <1>1
      <3> QED  BY <3>1, ByteFacts
    <2> QED  BY <1>2, <1>3, <2>1, <2>2
  <1>5. h \in Seq(Bytes) /\ Len(h) = HeaderSize /\ q \in Seq(Bytes) /\ Len(q) = len
    BY <1>1, <1>4
  <1>6. ASSUME NEW p \in 1..HeaderSize PROVE h[p] = ByteAt(n, p)
    BY <1>1, <1>2 DEF ByteAt
  <1>7. ASSUME NEW p \in 1..len PROVE q[p] = ByteAt(n, HeaderSize + p)
    <2>1. ~(HeaderSize + p <= HeaderSize) /\ (HeaderSize + p) - HeaderSize = p  BY <1>1
    <2> QED  BY <1>3, <2>1 DEF ByteAt
  <1>8. PICK c : c = [k \in 1..len |-> q[k][3]]  OBVIOUS
  <1>9. \A k \in 1..len : c[k] = k  BY <1>3, <1>8 DEF PayloadByte
  <1>10. c \in Seq(1..MaxPayload) /\ Len(c) = len
    <2>1. \A k \in 1..len : k \in 1..MaxPayload  BY <1>1
    <2>2. c \in [1..len -> 1..MaxPayload]  BY <1>8, <1>9, <2>1
    <2>3. c \in Seq(1..MaxPayload)
      <3>1. PICK M : M = 1..MaxPayload  OBVIOUS
      <3>2. c \in [1..len -> M]  BY <2>2, <3>1
      <3>3. c \in Seq(M)  BY <3>2
      <3> QED  BY <3>1, <3>3
    <2>4. Len(c) = len  BY <1>8
    <2> QED  BY <2>3, <2>4
  <1>11. Packet(n, q) = [id |-> n, payload |-> c]  BY <1>5, <1>8 DEF Packet
  <1>12. [id |-> n, payload |-> c] \in Packets  BY <1>10 DEF Packets
  <1>13. HeaderOf(n) = h /\ PayloadOf(n, len) = q  BY <1>2, <1>3 DEF HeaderOf, PayloadOf
  <1>14. Packet(n, q) \in Packets /\ Packet(n, q).id = n /\ Packet(n, q).payload = c
    BY <1>11, <1>12
  <1> QED  BY <1>5, <1>6, <1>7, <1>9, <1>10, <1>13, <1>14

\* PacketChannel takes the packet when send_packet begins.
LEMMA Sends ==
    ASSUME StreamInv, NEW len \in Nat, SendPacket(len)
    PROVE  StreamInv' /\ PC!Send
  <1>1. PICK n : n = Len(sent) + 1  OBVIOUS
  <1>2. PICK x : x = Packet(n, PayloadOf(n, len))  OBVIOUS
  <1>3. /\ calls < MaxPackets /\ unsent = <<>> /\ len <= MaxPayload /\ calls' = calls + 1
        /\ sent' = Append(sent, x) /\ unsent' = HeaderOf(n) /\ payload' = PayloadOf(n, len)
        /\ UNCHANGED <<wire, link, need, got, header, delivered, recvFailed>>
    BY <1>1, <1>2 DEF SendPacket, receiverVars
  <1>4. /\ sent \in Seq(Packets) /\ calls \in 0..MaxPackets /\ Len(sent) <= calls /\ Len(sent) \in Nat
        /\ got \in Seq(Bytes) /\ wire \in Seq(Bytes) /\ payload = <<>>
    BY <1>3 DEF StreamInv, Typing, TypeOK, Numbered
  <1>5. n \in PacketIds /\ n \in Nat /\ calls' \in 0..MaxPackets /\ n <= calls'
    BY <1>1, <1>3, <1>4, FramingAssumption DEF PacketIds
  <1>6. /\ HeaderOf(n) \in Seq(Bytes) /\ Len(HeaderOf(n)) = HeaderSize
        /\ PayloadOf(n, len) \in Seq(Bytes) /\ Len(PayloadOf(n, len)) = len
        /\ \A p \in 1..HeaderSize : HeaderOf(n)[p] = ByteAt(n, p)
        /\ \A p \in 1..len : PayloadOf(n, len)[p] = ByteAt(n, HeaderSize + p)
    BY <1>3, <1>5, NewPacket
  <1>7. x \in Packets /\ x.id = n /\ Len(x.payload) = len /\ \A k \in 1..len : x.payload[k] = k
    BY <1>2, <1>3, <1>5, NewPacket
  <1>8. PICK t \in Seq(Packets) : t = sent' /\ Len(t) = n /\ t[n] = x /\ \A k \in 1..Len(sent) : t[k] = sent[k]
    <2>1. PICK t : t = Append(sent, x)  OBVIOUS
    <2>2. t \in Seq(Packets) /\ Len(t) = Len(sent) + 1 /\ t[Len(sent) + 1] = x
          /\ \A k \in 1..Len(sent) : t[k] = sent[k]
      BY <1>4, <1>7, <2>1
    <2> QED  BY <1>1, <1>3, <2>1, <2>2
  <1>9. PC!Send
    <2>1. SubSeq(sent', 1, Len(sent)) = sent
      <3>1. PICK b : b = SubSeq(t, 1, Len(sent))  OBVIOUS
      <3>2. Len(sent) \in 0..Len(t)  BY <1>1, <1>4, <1>8
      <3>3. b \in Seq(Packets) /\ Len(b) = Len(sent) /\ \A k \in 1..Len(sent) : b[k] = t[k]
        BY <1>4, <1>8, <3>1, <3>2
      <3>4. b = sent  BY <1>4, <1>8, <3>3, SeqEqual
      <3> QED  BY <1>8, <3>1, <3>4
    <2> QED  BY <1>1, <1>3, <1>7, <1>8, <2>1 DEF PC!Send
  <1>10. PICK f \in Seq(Bytes), g \in Seq(Bytes) :
              f = Over(got, wire, <<>>, <<>>) /\ g = Over(got, wire, HeaderOf(n), PayloadOf(n, len))
    <2>0. PICK z \in Seq(Bytes) : z = <<>>
      <3>1. <<>> \in Seq(Bytes)  BY EmptySeq
      <3> QED  BY <3>1
    <2>1. PICK u \in Seq(Bytes), p \in Seq(Bytes) : u = HeaderOf(n) /\ p = PayloadOf(n, len)  BY <1>6
    <2>2. got \in Seq(Bytes) /\ wire \in Seq(Bytes)  BY <1>4
    <2>3. Over(got, wire, z, z) \in Seq(Bytes)  BY <2>2, OverIsSeq
    <2>4. Over(got, wire, u, p) \in Seq(Bytes)  BY <2>2, OverIsSeq
    <2> QED  BY <2>0, <2>1, <2>3, <2>4
  <1>11. f = Flight /\ g = Flight'
    BY <1>3, <1>4, <1>10 DEF Flight
  <1>12. /\ Len(g) = Len(f) + HeaderSize + len
         /\ \A i \in 1..Len(f) : g[i] = f[i]
         /\ \A p \in 1..HeaderSize : g[Len(f) + p] = ByteAt(n, p)
         /\ \A p \in 1..len : g[Len(f) + HeaderSize + p] = ByteAt(n, HeaderSize + p)
    <2>1. /\ got \in Seq(Bytes) /\ wire \in Seq(Bytes)
          /\ HeaderOf(n) \in Seq(Bytes) /\ PayloadOf(n, len) \in Seq(Bytes)
      BY <1>4, <1>6
    <2>2. /\ Len(g) = Len(f) + Len(HeaderOf(n)) + Len(PayloadOf(n, len))
          /\ \A i \in 1..Len(f) : g[i] = f[i]
          /\ \A i \in 1..Len(HeaderOf(n)) : g[Len(f) + i] = HeaderOf(n)[i]
          /\ \A i \in 1..Len(PayloadOf(n, len)) : g[Len(f) + Len(HeaderOf(n)) + i] = PayloadOf(n, len)[i]
      <3>1. PICK gt \in Seq(Bytes), w \in Seq(Bytes), u \in Seq(Bytes), p \in Seq(Bytes) :
                /\ gt = got /\ w = wire /\ u = HeaderOf(n) /\ p = PayloadOf(n, len)
        BY <2>1
      <3>2. f = Over(gt, w, <<>>, <<>>) /\ g = Over(gt, w, u, p)  BY <1>10, <3>1
      <3>3. Appends(Over(gt, w, u, p), Over(gt, w, <<>>, <<>>), u, p)  BY Back
      <3>4. Appends(g, f, HeaderOf(n), PayloadOf(n, len))  BY <3>1, <3>2, <3>3
      <3> QED  BY <3>4 DEF Appends
    <2> QED  BY <1>6, <2>2
  <1>13. PICK a \in Nat, hs \in Nat : a = Len(f) /\ hs = HeaderSize /\ hs >= 1  BY ByteFacts
  <1>14. PacketLen(t, n) = hs + len  BY <1>7, <1>8, <1>13 DEF PacketLen, Content
  <1>15. ASSUME NEW p \in 1..(hs + len) PROVE g[a + p] = ByteAt(n, p)
    <2>1. CASE p <= hs
      <3>1. p \in 1..HeaderSize  BY <1>13, <2>1
      <3> QED  BY <1>12, <1>13, <3>1
    <2>2. CASE ~(p <= hs)
      <3>1. PICK k \in 1..len : p = hs + k
        <4>1. p - hs \in 1..len /\ p = hs + (p - hs)  BY <2>2
        <4> QED  BY <4>1
      <3>2. g[a + hs + k] = ByteAt(n, hs + k)  BY <1>12, <1>13
      <3>3. a + p = a + hs + k  BY <3>1
      <3> QED  BY <3>1, <3>2, <3>3
    <2> QED  BY <2>1, <2>2
  <1>16. Whole(g, t)
    <2>1. Whole(f, sent)  BY <1>11 DEF StreamInv
    <2>2. Len(g) = Len(f) + PacketLen(t, n)
      <3>1. Len(g) = a + hs + len  BY <1>12, <1>13
      <3>2. a + hs + len = a + (hs + len)  OBVIOUS
      <3> QED  BY <1>13, <1>14, <3>1, <3>2
    <2>3. \A p \in 1..PacketLen(t, n) : g[Len(f) + p] = ByteAt(n, p)  BY <1>13, <1>14, <1>15
    <2>4. /\ sent \in Seq(Packets) /\ n \in Nat /\ n = Len(sent) + 1 /\ n = Len(t)
          /\ \A k \in 1..Len(sent) : t[k] = sent[k]
          /\ \A i \in 1..Len(f) : g[i] = f[i]
      BY <1>1, <1>4, <1>5, <1>8, <1>12
    <2> QED  BY <2>1, <2>2, <2>3, <2>4, WholeGrows
  <1>17. TypeOK'  BY <1>3, <1>5, <1>6, <1>8 DEF StreamInv, Typing, TypeOK
  <1>18. Numbered'
    <2>1. ASSUME NEW k \in 1..Len(t)
          PROVE  t[k].id = k /\ \A i \in 1..Content(t, k) : t[k].payload[i] = i
      <3>1. CASE k = n  BY <1>7, <1>8, <3>1 DEF Content
      <3>2. CASE k # n
        <4>1. k \in 1..Len(sent)  BY <1>1, <1>4, <1>8, <3>2
        <4>2. t[k] = sent[k]  BY <1>8, <4>1
        <4> QED  BY <4>1, <4>2 DEF StreamInv, Typing, Numbered, Content
      <3> QED  BY <3>1, <3>2
    <2>2. unsent' # <<>>
      <3>1. Len(unsent') # 0  BY <1>3, <1>6, <1>13
      <3> QED  BY <3>1
    <2> QED  BY <1>5, <1>8, <2>1, <2>2 DEF Numbered
  <1>19. LastId' = LastId /\ LastId \in 0..Len(sent)
    BY <1>3 DEF StreamInv, Newer, LastId, PC!LastId
  <1>20. AtHeader'
    <2>1. ASSUME need = "header" PROVE Len(got) < HeaderSize  BY <2>1 DEF StreamInv, AtHeader
    <2>2. ASSUME need = "header", ~recvFailed PROVE Len(g) # 0 /\ g[1] = HeaderByte(LastId + 1, 1)
      <3>1. Len(g) # 0
        <4>1. a + hs + len # 0  BY <1>13
        <4> QED  BY <1>12, <1>13, <4>1
      <3>2. CASE a = 0
        <4>1. LastId + 1 = n  BY <1>1, <1>11, <1>13, <2>2, <3>2 DEF StreamInv, AtHeader
        <4>2. g[a + 1] = ByteAt(n, 1)  BY <1>13, <1>15
        <4>3. ByteAt(n, 1) = HeaderByte(n, 1)  BY <1>13 DEF ByteAt
        <4> QED  BY <3>1, <3>2, <4>1, <4>2, <4>3
      <3>3. CASE a # 0
        <4>1. 1 \in 1..Len(f)  BY <1>13, <3>3
        <4>2. g[1] = f[1]  BY <1>12, <4>1
        <4>3. f[1] = HeaderByte(LastId + 1, 1)  BY <1>11, <1>13, <2>2, <3>3 DEF StreamInv, AtHeader
        <4> QED  BY <3>1, <4>2, <4>3
      <3> QED  BY <3>2, <3>3
    <2> QED  BY <1>3, <1>11, <1>19, <2>1, <2>2 DEF AtHeader
  <1>21. AtPayload'
    <2>1. ASSUME need = "payload"
          PROVE  /\ header \in 1..Len(t) /\ Len(got) < Content(t, header)
                 /\ header > LastId /\ (recvFailed \/ header = LastId + 1)
                 /\ Len(g) >= 1 /\ g[1] = PayloadByte(header, 1)
      <3>1. /\ header \in 1..Len(sent) /\ Len(got) < Content(sent, header)
            /\ header > LastId /\ (recvFailed \/ header = LastId + 1)
            /\ Len(f) >= 1 /\ f[1] = PayloadByte(header, 1)
        BY <1>11, <2>1 DEF StreamInv, AtPayload
      <3>2. header \in 1..Len(t)  BY <1>1, <1>4, <1>8, <3>1
      <3>3. Content(t, header) = Content(sent, header)  BY <1>8, <3>1 DEF Content
      <3>4. Len(g) >= 1
        <4>1. a + hs + len >= 1  BY <1>13
        <4> QED  BY <1>12, <1>13, <4>1
      <3>5. g[1] = f[1]
        <4>1. 1 \in 1..Len(f)  BY <3>1
        <4> QED  BY <1>12, <4>1
      <3> QED  BY <3>1, <3>2, <3>3, <3>4, <3>5
    <2> QED  BY <1>3, <1>8, <1>11, <1>19, <2>1 DEF AtPayload
  <1>22. Newer'
    <2>1. ASSUME NEW i \in 1..Len(g) PROVE g[i][2] > LastId
      <3>1. CASE i <= a
        <4>1. i \in 1..Len(f) /\ g[i] = f[i]  BY <1>12, <1>13, <3>1
        <4> QED  BY <1>11, <4>1 DEF StreamInv, Newer
      <3>2. CASE ~(i <= a)
        <4>0. Len(g) = a + hs + len  BY <1>12, <1>13
        <4>1. PICK p \in 1..(hs + len) : i = a + p
          <5>1. i - a \in 1..(hs + len) /\ i = a + (i - a)  BY <3>2, <4>0
          <5> QED  BY <5>1
        <4>2. g[i] = ByteAt(n, p)  BY <1>15, <4>1
        <4>3. g[i][2] = n
          <5>1. p \in Nat  OBVIOUS
          <5> QED  BY <1>5, <4>2, <5>1, ByteFacts
        <4> QED  BY <1>1, <1>4, <1>19, <4>3
      <3> QED  BY <3>1, <3>2
    <2>2. LastId \in 0..Len(t)  BY <1>1, <1>4, <1>8, <1>19
    <2> QED  BY <1>8, <1>11, <1>19, <2>1, <2>2 DEF Newer
  <1>23. Whole(Flight, sent)'  BY <1>8, <1>11, <1>16
  <1> QED  BY <1>9, <1>17, <1>18, <1>20, <1>21, <1>22, <1>23 DEF StreamInv, Typing

\* Neither the receiver's place nor the bytes under way have changed.
LEMMA FlightKept ==
    ASSUME StreamInv, Typing', Flight' = Flight, Len(got') < Wanted,
           UNCHANGED <<sent, need, header, delivered, recvFailed>>
    PROVE  StreamInv' /\ UNCHANGED PC!vars
  <1>1. LastId' = LastId  BY DEF LastId, PC!LastId
  <1>2. Whole(Flight, sent)'  BY DEF StreamInv
  <1>3. AtHeader'  BY <1>1 DEF StreamInv, AtHeader, Wanted
  <1>4. AtPayload'  BY <1>1 DEF StreamInv, AtPayload, Wanted, Content
  <1>5. Newer'  BY <1>1 DEF StreamInv, Newer
  <1> QED  BY <1>2, <1>3, <1>4, <1>5 DEF StreamInv, PC!vars

LEMMA StillWanted == StreamInv => Len(got) < Wanted
  <1>1. StreamInv => need \in {"header", "payload"}  BY DEF StreamInv, Typing, TypeOK
  <1> QED  BY <1>1 DEF StreamInv, AtHeader, AtPayload, Wanted, Content

\* A write of send_n changes nothing that PacketChannel sees.
LEMMA Writes ==
    ASSUME StreamInv, NEW k \in 1..Buffer, Write(k)
    PROVE  StreamInv' /\ UNCHANGED PC!vars
  <1>1. /\ k \in Nat /\ k >= 1 /\ k <= Len(unsent) /\ Len(wire) + k <= Buffer
        /\ wire' = Join(wire, SubSeq(unsent, 1, k))
        /\ k = Len(unsent) => unsent' = payload /\ payload' = <<>>
        /\ k # Len(unsent) => unsent' = SubSeq(unsent, k + 1, Len(unsent)) /\ payload' = payload
        /\ UNCHANGED <<sent, calls, link, need, got, header, delivered, recvFailed>>
    BY FramingAssumption DEF Write, Join, receiverVars
  <1>2. got \in Seq(Bytes) /\ wire \in Seq(Bytes) /\ unsent \in Seq(Bytes) /\ payload \in Seq(Bytes)
    BY DEF StreamInv, Typing, TypeOK
  <1>c. PICK a \in Seq(Bytes), b \in Seq(Bytes) : CutAt(unsent, k, a, b)
    <2>1. unsent \in Seq(Bytes) /\ k \in 0..Len(unsent)  BY <1>1, <1>2
    <2> QED  BY <2>1, Cut
  <1>3. /\ a = SubSeq(unsent, 1, k) /\ b = SubSeq(unsent, k + 1, Len(unsent))
        /\ Len(a) = k /\ Len(b) = Len(unsent) - k /\ unsent = Join(a, b)
        /\ k = Len(unsent) => a = unsent
    BY <1>c DEF CutAt
  <1>4. wire' \in Seq(Bytes) /\ Len(wire') <= Buffer
    <2>1. Join(wire, a) \in Seq(Bytes) /\ Len(Join(wire, a)) = Len(wire) + Len(a)  BY <1>2, JoinIsSeq
    <2> QED  BY <1>1, <1>3, <2>1
  <1>5. Flight' = Flight /\ unsent' \in Seq(Bytes) /\ payload' \in Seq(Bytes) /\ (unsent' = <<>> => payload' = <<>>)
    <2>1. CASE k = Len(unsent)
      <3>1. Over(got, Join(wire, unsent), payload, <<>>) = Over(got, wire, unsent, payload)  BY <1>2, MovesAll
      <3>2. wire' = Join(wire, unsent) /\ unsent' = payload /\ payload' = <<>> /\ got' = got
        BY <1>1, <1>3, <2>1
      <3>3. <<>> \in Seq(Bytes)  BY EmptySeq
      <3> QED  BY <1>2, <3>1, <3>2, <3>3 DEF Flight
    <2>2. CASE k # Len(unsent)
      <3>0. got \in Seq(Bytes) /\ wire \in Seq(Bytes)  BY <1>2
      <3>a. Over(got, Join(wire, a), b, payload) = Over(got, wire, Join(a, b), payload)  BY <3>0, MovesOn
      <3>1. Over(got, Join(wire, a), b, payload) = Over(got, wire, unsent, payload)  BY <1>3, <3>a
      <3>2. wire' = Join(wire, a) /\ unsent' = b /\ payload' = payload /\ got' = got
        BY <1>1, <1>3, <2>2
      <3>3. unsent' # <<>>
        <4>1. Len(b) # 0  BY <1>1, <1>2, <1>3, <2>2
        <4> QED  BY <3>2, <4>1
      <3> QED  BY <1>2, <3>1, <3>2, <3>3 DEF Flight
    <2> QED  BY <2>1, <2>2
  <1>6. Typing'  BY <1>1, <1>4, <1>5 DEF StreamInv, Typing, TypeOK, Numbered, Content
  <1>7. Len(got') < Wanted  BY <1>1, StillWanted
  <1> QED  BY <1>1, <1>5, <1>6, <1>7, FlightKept

--------------------------------------------------------------------------------
(* The receiver. *)

\* The stream g is f without its first m bytes.
Drops(f, g, m) == Len(f) = m + Len(g) /\ \A i \in 1..Len(g) : f[m + i] = g[i]

\* recv_packet forgets what it has read.
LEMMA Forgets ==
    ASSUME NEW r \in Seq(Bytes), NEW w \in Seq(Bytes), NEW u \in Seq(Bytes), NEW p \in Seq(Bytes)
    PROVE  /\ Over(<<>>, w, u, p) \in Seq(Bytes)
           /\ Drops(Over(r, w, u, p), Over(<<>>, w, u, p), Len(r))
  BY Front DEF Drops

\* A recv takes bytes from the socket; they are the first ones under way.
LEMMA ReadFacts ==
    ASSUME StreamInv, NEW k \in 1..Buffer, Reads(k)
    PROVE  \E r \in Seq(Bytes), g \in Seq(Bytes), m \in Nat :
              /\ r = ReadSoFar(k) /\ m = Len(r) /\ m = Len(got) + k /\ m >= 1 /\ m <= Len(Flight)
              /\ Over(r, wire', unsent, payload) = Flight
              /\ g = Over(<<>>, wire', unsent, payload) /\ Drops(Flight, g, m)
              /\ \A i \in 1..m : Flight[i] = r[i]
              /\ wire' \in Seq(Bytes) /\ Len(wire') <= Buffer /\ Flight \in Seq(Bytes)
  <1>1. k \in Nat /\ k >= 1 /\ k <= Len(wire) /\ wire' = SubSeq(wire, k + 1, Len(wire))
    BY FramingAssumption DEF Reads
  <1>2. /\ got \in Seq(Bytes) /\ wire \in Seq(Bytes) /\ unsent \in Seq(Bytes) /\ payload \in Seq(Bytes)
        /\ Len(wire) <= Buffer
    BY DEF StreamInv, Typing, TypeOK
  <1>c. PICK a \in Seq(Bytes), b \in Seq(Bytes) : CutAt(wire, k, a, b)
    <2>1. wire \in Seq(Bytes) /\ k \in 0..Len(wire)  BY <1>1, <1>2
    <2> QED  BY <2>1, Cut
  <1>3. /\ a = SubSeq(wire, 1, k) /\ b = wire'
        /\ Len(a) = k /\ Len(b) = Len(wire) - k /\ wire = Join(a, b)
    BY <1>1, <1>c DEF CutAt
  <1>4. PICK r \in Seq(Bytes) : r = Join(got, a) /\ Len(r) = Len(got) + Len(a)  BY <1>2, JoinIsSeq
  <1>5. r = ReadSoFar(k)  BY <1>3, <1>4 DEF ReadSoFar, Join
  <1>6. PICK m \in Nat : m = Len(r) /\ m = Len(got) + k /\ m >= 1
    <2>1. Len(got) \in Nat  BY <1>2
    <2>2. Len(r) = Len(got) + k  BY <1>3, <1>4
    <2> QED  BY <1>1, <2>1, <2>2
  <1>7. Over(Join(got, a), b, unsent, payload) = Flight
    <2>1. got \in Seq(Bytes)  BY <1>2
    <2>2. Over(Join(got, a), b, unsent, payload) = Over(got, Join(a, b), unsent, payload)  BY <2>1, MovesIn
    <2> QED  BY <1>3, <2>2 DEF Flight
  <1>8. PICK f : f = Over(r, b, unsent, payload)  OBVIOUS
  <1>9. PICK u \in Seq(Bytes), p \in Seq(Bytes) : u = unsent /\ p = payload  BY <1>2
  <1>10. /\ Over(<<>>, b, u, p) \in Seq(Bytes)
         /\ Len(Over(r, b, u, p)) = Len(r) + Len(Over(<<>>, b, u, p))
         /\ \A i \in 1..Len(r) : Over(r, b, u, p)[i] = r[i]
    BY Front
  <1>11. Drops(Over(r, b, u, p), Over(<<>>, b, u, p), Len(r))  BY Forgets
  <1>12. PICK g \in Seq(Bytes) : g = Over(<<>>, b, u, p)  BY <1>10
  <1>13. f = Flight  BY <1>4, <1>7, <1>8
  <1>14. Flight \in Seq(Bytes)
    <2>1. Over(r, b, u, p) \in Seq(Bytes)  BY OverIsSeq
    <2> QED  BY <1>8, <1>9, <1>13, <2>1
  <1>15. m <= Len(Flight)
    <2>1. Len(Flight) = m + Len(g)  BY <1>6, <1>8, <1>9, <1>10, <1>12, <1>13
    <2>2. Len(g) \in Nat  OBVIOUS
    <2> QED  BY <2>1, <2>2
  <1>16. Len(wire') <= Buffer
    <2>1. Len(wire) \in Nat /\ Len(wire) <= Buffer /\ Buffer \in Nat  BY <1>2, FramingAssumption
    <2>2. Len(wire') = Len(wire) - k  BY <1>3
    <2> QED  BY <1>1, <2>1, <2>2
  <1>17. Over(r, wire', unsent, payload) = Flight /\ g = Over(<<>>, wire', unsent, payload)
    BY <1>3, <1>8, <1>9, <1>12, <1>13
  <1>18. Drops(Flight, g, m) /\ \A i \in 1..m : Flight[i] = r[i]
    BY <1>6, <1>8, <1>9, <1>10, <1>11, <1>12, <1>13
  <1>19. wire' \in Seq(Bytes)  BY <1>3
  <1> QED  BY <1>5, <1>6, <1>14, <1>15, <1>16, <1>17, <1>18, <1>19

\* A byte of the stream after m bytes have been taken.
LEMMA DropsInv ==
    ASSUME NEW s \in Seq(Packets), NEW f \in Seq(Bytes), NEW g \in Seq(Bytes), NEW m \in Nat,
           Drops(f, g, m), Whole(f, s)
    PROVE  Whole(g, s) /\ \A i \in 1..Len(g) : m + i \in 1..Len(f) /\ g[i] = f[m + i]
  <1>1. Len(f) = m + Len(g) /\ \A i \in 1..Len(g) : f[m + i] = g[i]  BY DEF Drops
  <1>2. Whole(g, s)  BY <1>1, WholeDrops
  <1>3. ASSUME NEW i \in 1..Len(g) PROVE m + i \in 1..Len(f)  BY <1>1
  <1> QED  BY <1>1, <1>2, <1>3

\* recv_packet returns -1 after the first m bytes have gone.
LEMMA Failed ==
    ASSUME StreamInv, Fails, UNCHANGED <<sent, calls, unsent, payload, link>>,
           wire' \in Seq(Bytes), Len(wire') <= Buffer,
           NEW m \in Nat, Flight \in Seq(Bytes), Flight' \in Seq(Bytes), Drops(Flight, Flight', m)
    PROVE  StreamInv' /\ PC!Fail
  <1>1. /\ recvFailed' = TRUE /\ need' = "header" /\ got' = <<>> /\ header' = 0 /\ delivered' = delivered
    BY DEF Fails
  <1>2. Len(got') = 0 /\ got' \in Seq(Bytes)  BY <1>1, EmptySeq
  <1>3. LastId' = LastId  BY <1>1 DEF LastId, PC!LastId
  <1>4. Typing'
    <2>1. TypeOK'
      <3>1. header' \in 0..MaxPackets /\ recvFailed' \in BOOLEAN  BY <1>1, FramingAssumption
      <3> QED  BY <1>1, <1>2, <3>1 DEF StreamInv, Typing, TypeOK
    <2> QED  BY <2>1 DEF StreamInv, Typing, Numbered, Content
  <1>5. PICK f \in Seq(Bytes), g \in Seq(Bytes), s \in Seq(Packets) : f = Flight /\ g = Flight' /\ s = sent
    BY DEF StreamInv, Typing, TypeOK
  <1>6. Whole(g, s) /\ \A i \in 1..Len(g) : m + i \in 1..Len(f) /\ g[i] = f[m + i]
    <2>1. Drops(f, g, m) /\ Whole(f, s)  BY <1>5 DEF StreamInv
    <2> QED  BY <2>1, DropsInv
  <1>7. AtHeader'  BY <1>1, <1>2, ByteFacts DEF AtHeader
  <1>8. AtPayload'  BY <1>1 DEF AtPayload
  <1>9. Newer'
    <2>1. ASSUME NEW i \in 1..Len(g) PROVE g[i][2] > LastId
      <3>1. m + i \in 1..Len(f) /\ g[i] = f[m + i]  BY <1>6
      <3> QED  BY <1>5, <3>1 DEF StreamInv, Newer
    <2> QED  BY <1>3, <1>5, <2>1 DEF StreamInv, Newer
  <1>10. Whole(Flight, sent)'  BY <1>5, <1>6
  <1> QED  BY <1>1, <1>4, <1>7, <1>8, <1>9, <1>10 DEF StreamInv, PC!Fail

\* What recv_packet returns is what send_packet was given.
LEMMA SamePacket ==
    ASSUME NEW x \in Packets, NEW n, x.id = n, NEW bytes,
           Len(bytes) = Len(x.payload), \A k \in 1..Len(x.payload) : bytes[k][3] = x.payload[k]
    PROVE  Packet(n, bytes) = x
  <1>1. PICK q \in Seq(1..MaxPayload) : q = x.payload /\ x = [id |-> n, payload |-> q]  BY DEF Packets
  <1>2. PICK l \in Nat : l = Len(q)  BY <1>1
  <1>3. q = [k \in 1..l |-> q[k]]  BY <1>2
  <1>4. [k \in 1..l |-> bytes[k][3]] = [k \in 1..l |-> q[k]]  BY <1>1, <1>2
  <1>5. [k \in 1..Len(bytes) |-> bytes[k][3]] = q  BY <1>1, <1>2, <1>3, <1>4
  <1> QED  BY <1>1, <1>5 DEF Packet

\* recv_packet returns packet n when the stream is read to its last byte.
LEMMA Delivered ==
    ASSUME StreamInv, NEW n \in 1..Len(sent), NEW bytes, Returns(n, bytes), Packet(n, bytes) = sent[n],
           n > LastId, recvFailed \/ n = LastId + 1,
           UNCHANGED <<sent, calls, unsent, payload, link>>,
           wire' \in Seq(Bytes), Len(wire') <= Buffer,
           NEW m \in 1..Len(Flight), Flight \in Seq(Bytes), Flight' \in Seq(Bytes), Drops(Flight, Flight', m),
           Flight[m][2] = n, PacketEnd(Flight, sent, m) = m
    PROVE  StreamInv' /\ PC!Deliver(n)
  <1>1. /\ delivered' = Append(delivered, sent[n]) /\ need' = "header" /\ got' = <<>> /\ header' = 0
        /\ recvFailed' = recvFailed
    BY DEF Returns
  <1>2. PICK f \in Seq(Bytes), g \in Seq(Bytes), s \in Seq(Packets) : f = Flight /\ g = Flight' /\ s = sent
    BY DEF StreamInv, Typing, TypeOK
  <1>3. Whole(f, s) /\ Drops(f, g, m) /\ n \in 1..Len(s) /\ m \in 1..Len(f) /\ m \in Nat
        /\ f[m][2] = n /\ PacketEnd(f, s, m) = m
    BY <1>2 DEF StreamInv
  <1>4. Whole(g, s) /\ \A i \in 1..Len(g) : m + i \in 1..Len(f) /\ g[i] = f[m + i]  BY <1>3, DropsInv
  <1>5. Len(f) = m + Len(g) /\ Len(g) \in Nat  BY <1>3 DEF Drops
  <1>6. /\ m = Len(f) => n = Len(s)
        /\ m # Len(f) => f[m + 1] = ByteAt(n + 1, 1)
        /\ \A j \in 1..Len(f) : j > m => f[j][2] > n
    BY <1>3 DEF Whole
  <1>7. delivered \in Seq(Packets) /\ s[n] \in Packets /\ s[n].id = n
    <2>1. s[n].id = n  BY <1>2, <1>3 DEF StreamInv, Typing, Numbered
    <2> QED  BY <1>3, <2>1 DEF StreamInv, Typing, TypeOK
  <1>8. delivered' \in Seq(Packets) /\ LastId' = n
    <2>1. PICK d : d = Append(delivered, s[n])  OBVIOUS
    <2>2. d \in Seq(Packets) /\ Len(d) = Len(delivered) + 1 /\ d[Len(delivered) + 1] = s[n] /\ Len(d) # 0
      BY <1>7, <2>1
    <2>3. d # <<>>  BY <2>2
    <2> QED  BY <1>1, <1>2, <1>7, <2>1, <2>2, <2>3 DEF LastId, PC!LastId
  <1>9. Len(got') = 0 /\ got' \in Seq(Bytes)  BY <1>1, EmptySeq
  <1>10. Typing'
    <2>1. TypeOK'
      <3>1. header' \in 0..MaxPackets  BY <1>1, FramingAssumption
      <3> QED  BY <1>1, <1>8, <1>9, <3>1 DEF StreamInv, Typing, TypeOK
    <2> QED  BY <2>1 DEF StreamInv, Typing, Numbered, Content
  <1>11. AtHeader'
    <2>1. Len(g) = 0 => n = Len(s)  BY <1>3, <1>5, <1>6
    <2>2. ASSUME Len(g) # 0 PROVE g[1] = HeaderByte(n + 1, 1)
      <3>1. 1 \in 1..Len(g) /\ m # Len(f)  BY <1>3, <1>5, <2>2
      <3>2. g[1] = f[m + 1]  BY <1>4, <3>1
      <3>3. f[m + 1] = ByteAt(n + 1, 1)  BY <1>6, <3>1
      <3>4. ByteAt(n + 1, 1) = HeaderByte(n + 1, 1)  BY ByteFacts DEF ByteAt
      <3> QED  BY <3>2, <3>3, <3>4
    <2>3. Len(got') < HeaderSize  BY <1>9, ByteFacts
    <2> QED  BY <1>2, <1>8, <2>1, <2>2, <2>3 DEF AtHeader
  <1>12. AtPayload'  BY <1>1 DEF AtPayload
  <1>13. Newer'
    <2>1. ASSUME NEW i \in 1..Len(g) PROVE g[i][2] > n
      <3>1. m + i \in 1..Len(f) /\ g[i] = f[m + i]  BY <1>4
      <3>2. m + i > m  BY <1>3
      <3> QED  BY <1>6, <3>1, <3>2
    <2>2. n \in 0..Len(s)  BY <1>3
    <2> QED  BY <1>2, <1>8, <2>1, <2>2 DEF Newer
  <1>14. Whole(Flight, sent)'  BY <1>2, <1>4
  <1>15. PC!Deliver(n)  BY <1>1 DEF PC!Deliver, LastId
  <1> QED  BY <1>10, <1>11, <1>12, <1>13, <1>14, <1>15 DEF StreamInv

\* recv_n takes a part of what it wants.
LEMMA ReadsSome ==
    ASSUME StreamInv, NEW k \in 1..Buffer, RecvSome(k)
    PROVE  StreamInv' /\ UNCHANGED PC!vars
  <1>1. /\ Reads(k) /\ Len(got) + k < Wanted /\ got' = ReadSoFar(k)
        /\ UNCHANGED <<sent, calls, unsent, payload, link, need, header, delivered, recvFailed>>
    BY DEF RecvSome, senderVars
  <1>2. PICK r \in Seq(Bytes), g \in Seq(Bytes), m \in Nat :
              /\ r = ReadSoFar(k) /\ m = Len(r) /\ m = Len(got) + k /\ m >= 1 /\ m <= Len(Flight)
              /\ Over(r, wire', unsent, payload) = Flight
              /\ g = Over(<<>>, wire', unsent, payload) /\ Drops(Flight, g, m)
              /\ \A i \in 1..m : Flight[i] = r[i]
              /\ wire' \in Seq(Bytes) /\ Len(wire') <= Buffer /\ Flight \in Seq(Bytes)
    BY <1>1, ReadFacts
  <1>3. Flight' = Flight  BY <1>1, <1>2 DEF Flight
  <1>4. Len(got') < Wanted  BY <1>1, <1>2
  <1>5. got' \in Seq(Bytes) /\ wire' \in Seq(Bytes) /\ Len(wire') <= Buffer  BY <1>1, <1>2
  <1>6. Typing'  BY <1>1, <1>5 DEF StreamInv, Typing, TypeOK, Numbered, Content
  <1> QED  BY <1>1, <1>3, <1>4, <1>6, FlightKept

\* The rest of the header arrives.
LEMMA ReadsHeader ==
    ASSUME StreamInv, NEW k \in 1..Buffer, NEW n \in 1..Len(sent), RecvHeader(k, n)
    PROVE  StreamInv' /\ (PC!Deliver(n) \/ UNCHANGED PC!vars)
  <1>1. /\ need = "header" /\ Reads(k) /\ Len(got) + k = HeaderSize /\ ReadSoFar(k) = HeaderOf(n)
        /\ UNCHANGED <<sent, calls, unsent, payload, link>>
    BY DEF RecvHeader, Wanted, ValidHeader, senderVars
  <1>2. PICK r \in Seq(Bytes), g \in Seq(Bytes), m \in Nat :
              /\ r = ReadSoFar(k) /\ m = Len(r) /\ m = Len(got) + k /\ m >= 1 /\ m <= Len(Flight)
              /\ Over(r, wire', unsent, payload) = Flight
              /\ g = Over(<<>>, wire', unsent, payload) /\ Drops(Flight, g, m)
              /\ \A i \in 1..m : Flight[i] = r[i]
              /\ wire' \in Seq(Bytes) /\ Len(wire') <= Buffer /\ Flight \in Seq(Bytes)
    BY <1>1, ReadFacts
  <1>3. PICK f \in Seq(Bytes), s \in Seq(Packets) : f = Flight /\ s = sent
    BY <1>2 DEF StreamInv, Typing, TypeOK
  <1>4. m = HeaderSize /\ n \in 1..Len(s) /\ Whole(f, s) /\ m \in 1..Len(f) /\ Drops(f, g, m)
    BY <1>1, <1>2, <1>3 DEF StreamInv
  <1>5. \A i \in 1..m : f[i] = HeaderByte(n, i)
    <2>1. \A i \in 1..m : HeaderOf(n)[i] = HeaderByte(n, i)  BY <1>4 DEF HeaderOf
    <2> QED  BY <1>1, <1>2, <1>3, <2>1
  <1>6. f[m] = HeaderByte(n, m) /\ f[1] = HeaderByte(n, 1)
    <2>1. m \in 1..m /\ 1 \in 1..m  BY <1>2
    <2> QED  BY <1>5, <2>1
  <1>7. f[m][2] = n /\ Place(f[m]) = m /\ f[1][2] = n  BY <1>6 DEF HeaderByte, Place
  <1>8. PICK c \in Nat : c = Content(s, n)  BY <1>4, PacketFacts
  <1>9. PacketEnd(f, s, m) = m + c
    <2>1. m + (m + c) - m = m + c  OBVIOUS
    <2> QED  BY <1>4, <1>7, <1>8, <2>1 DEF PacketEnd, PacketLen
  <1>10. n > LastId
    <2>1. 1 \in 1..Len(f)  BY <1>4
    <2> QED  BY <1>3, <1>7, <2>1 DEF StreamInv, Newer
  <1>11. recvFailed \/ n = LastId + 1
    <2>1. Len(f) # 0  BY <1>4
    <2>2. ASSUME ~recvFailed PROVE f[1] = HeaderByte(LastId + 1, 1)
      BY <1>1, <1>3, <2>1, <2>2 DEF StreamInv, AtHeader
    <2>3. ASSUME ~recvFailed PROVE n = LastId + 1  BY <1>6, <2>2, <2>3 DEF HeaderByte
    <2> QED  BY <2>3
  <1>12. CASE c = 0
    <2>1. sent[n].payload = <<>>
      <3>1. s[n].payload \in Seq(1..MaxPayload) /\ Len(s[n].payload) = 0  BY <1>4, <1>8, <1>12, PacketFacts DEF Content
      <3> QED  BY <1>3, <3>1
    <2>2. Returns(n, <<>>)  BY <2>1 DEF RecvHeader
    <2>3. Packet(n, <<>>) = sent[n]
      <3>1. PICK x \in Packets : x = s[n]  BY <1>4
      <3>2. x.id = n  BY <1>3, <1>4, <3>1 DEF StreamInv, Typing, Numbered
      <3>3. Len(<<>>) = Len(x.payload) /\ \A i \in 1..Len(x.payload) : FALSE
        <4>1. Len(x.payload) = 0  BY <1>8, <1>12, <3>1 DEF Content
        <4>2. \A i \in 1..0 : FALSE  OBVIOUS
        <4>3. Len(<<>>) = 0  BY EmptySeq
        <4> QED  BY <4>1, <4>2, <4>3
      <3>4. Packet(n, <<>>) = x  BY <3>2, <3>3, SamePacket
      <3> QED  BY <1>3, <3>1, <3>4
    <2>4. got' = <<>>  BY <2>2 DEF Returns
    <2>5. Flight' = g  BY <1>1, <1>2, <2>4 DEF Flight
    <2>6. Flight[m][2] = n /\ PacketEnd(Flight, sent, m) = m
      BY <1>2, <1>3, <1>7, <1>9, <1>12
    <2>7. m \in 1..Len(Flight) /\ Flight' \in Seq(Bytes) /\ Drops(Flight, Flight', m)
      BY <1>2, <1>3, <1>4, <2>5
    <2> QED  BY <1>1, <1>2, <1>10, <1>11, <2>2, <2>3, <2>6, <2>7, Delivered
  <1>13. CASE c # 0
    <2>1. sent[n].payload # <<>>
      <3>1. Len(s[n].payload) # 0  BY <1>8, <1>13 DEF Content
      <3> QED  BY <1>3, <3>1
    <2>2. need' = "payload" /\ got' = <<>> /\ header' = n /\ UNCHANGED <<delivered, recvFailed>>
      BY <2>1 DEF RecvHeader
    <2>3. Flight' = g  BY <1>1, <1>2, <2>2 DEF Flight
    <2>4. LastId' = LastId  BY <2>2 DEF LastId, PC!LastId
    <2>5. Whole(g, s) /\ \A i \in 1..Len(g) : m + i \in 1..Len(f) /\ g[i] = f[m + i]
      BY <1>4, DropsInv
    <2>6. m + c <= Len(f) /\ \A j \in m..(m + c) : f[j] = ByteAt(n, m + (j - m))
      BY <1>4, <1>7, <1>9 DEF Whole
    <2>7. Len(g) >= 1 /\ g[1] = PayloadByte(n, 1)
      <3>1. Len(f) = m + Len(g) /\ Len(g) \in Nat  BY <1>4 DEF Drops
      <3>2. Len(g) >= 1  BY <1>13, <2>6, <3>1
      <3>3. m + 1 \in m..(m + c) /\ m + ((m + 1) - m) = m + 1 /\ ~(m + 1 <= m) /\ (m + 1) - m = 1  BY <1>13
      <3>4. f[m + 1] = ByteAt(n, m + 1)  BY <2>6, <3>3
      <3>5. ByteAt(n, m + 1) = PayloadByte(n, 1)  BY <1>4, <3>3 DEF ByteAt
      <3>6. g[1] = f[m + 1]  BY <2>5, <3>2
      <3> QED  BY <3>2, <3>4, <3>5, <3>6
    <2>8. Typing'
      <3>1. Len(sent) <= calls /\ calls \in 0..MaxPackets /\ Len(sent) \in Nat
        BY DEF StreamInv, Typing, TypeOK, Numbered
      <3>2. header' \in 0..MaxPackets  BY <2>2, <3>1, FramingAssumption
      <3>3. got' \in Seq(Bytes)  BY <2>2, EmptySeq
      <3>4. need' \in {"header", "payload"}  BY <2>2
      <3>5. TypeOK'  BY <1>1, <1>2, <2>2, <3>2, <3>3, <3>4 DEF StreamInv, Typing, TypeOK
      <3> QED  BY <1>1, <3>5 DEF StreamInv, Typing, Numbered, Content
    <2>9. AtHeader'  BY <2>2 DEF AtHeader
    <2>10. AtPayload'
      <3>1. Len(got') = 0  BY <2>2, EmptySeq
      <3>2. Content(sent', n) = c /\ 0 < c  BY <1>1, <1>3, <1>8, <1>13
      <3>3. header' \in 1..Len(sent') /\ Len(got') < Content(sent', header')  BY <1>1, <2>2, <3>1, <3>2
      <3>4. header' > LastId' /\ (recvFailed' \/ header' = LastId' + 1)  BY <1>10, <1>11, <2>2, <2>4
      <3>5. Len(Flight') >= 1 /\ Flight'[1] = PayloadByte(header', 1)  BY <2>2, <2>3, <2>7
      <3> QED  BY <3>3, <3>4, <3>5 DEF AtPayload
    <2>11. Newer'
      <3>1. ASSUME NEW i \in 1..Len(g) PROVE g[i][2] > LastId
        <4>1. m + i \in 1..Len(f) /\ g[i] = f[m + i]  BY <2>5
        <4> QED  BY <1>3, <4>1 DEF StreamInv, Newer
      <3> QED  BY <1>1, <2>3, <2>4, <3>1 DEF StreamInv, Newer
    <2>12. Whole(Flight, sent)'  BY <1>1, <1>3, <2>3, <2>5
    <2>13. UNCHANGED PC!vars  BY <1>1, <2>2 DEF PC!vars
    <2> QED  BY <2>8, <2>9, <2>10, <2>11, <2>12, <2>13 DEF StreamInv
  <1> QED  BY <1>12, <1>13

\* As long as no recv_packet has failed the next HeaderSize bytes are a header.
LEMMA HeaderFound ==
    ASSUME StreamInv, ~recvFailed, NEW k \in 1..Buffer, RecvBadHeader(k)
    PROVE  FALSE
  <1>1. /\ need = "header" /\ Reads(k) /\ Len(got) + k = HeaderSize
        /\ \A n \in 1..Len(sent) : ReadSoFar(k) # HeaderOf(n)
    BY DEF RecvBadHeader, Wanted, ValidHeader
  <1>2. PICK r \in Seq(Bytes), g \in Seq(Bytes), m \in Nat :
              /\ r = ReadSoFar(k) /\ m = Len(r) /\ m = Len(got) + k /\ m >= 1 /\ m <= Len(Flight)
              /\ Over(r, wire', unsent, payload) = Flight
              /\ g = Over(<<>>, wire', unsent, payload) /\ Drops(Flight, g, m)
              /\ \A i \in 1..m : Flight[i] = r[i]
              /\ wire' \in Seq(Bytes) /\ Len(wire') <= Buffer /\ Flight \in Seq(Bytes)
    BY <1>1, ReadFacts
  <1>3. PICK f \in Seq(Bytes), s \in Seq(Packets) : f = Flight /\ s = sent
    BY <1>2 DEF StreamInv, Typing, TypeOK
  <1>4. m = HeaderSize /\ Whole(f, s) /\ 1 \in 1..Len(f) /\ Len(f) # 0
    BY <1>1, <1>2, <1>3 DEF StreamInv
  <1>5. PICK n : n = LastId + 1  OBVIOUS
  <1>6. f[1] = HeaderByte(n, 1)  BY <1>1, <1>3, <1>4, <1>5 DEF StreamInv, AtHeader
  <1>7. f[1][2] = n /\ Place(f[1]) = 1  BY <1>6 DEF HeaderByte, Place
  <1>8. n \in 1..Len(s) /\ \A j \in 1..PacketEnd(f, s, 1) : f[j] = ByteAt(n, 1 + (j - 1))
    BY <1>4, <1>7 DEF Whole
  <1>9. PICK l \in Nat : l = PacketLen(s, n) /\ m <= l  BY <1>4, <1>8, PacketFacts
  <1>10. PacketEnd(f, s, 1) = l
    <2>1. 1 + l - 1 = l  OBVIOUS
    <2> QED  BY <1>7, <1>9, <2>1 DEF PacketEnd
  <1>11. ASSUME NEW i \in 1..m PROVE r[i] = HeaderByte(n, i)
    <2>1. i \in 1..l /\ 1 + (i - 1) = i /\ i <= m  BY <1>9
    <2>2. f[i] = ByteAt(n, i)  BY <1>8, <1>10, <2>1
    <2>3. ByteAt(n, i) = HeaderByte(n, i)  BY <1>4, <2>1 DEF ByteAt
    <2> QED  BY <1>2, <1>3, <2>2, <2>3
  <1>12. r = HeaderOf(n)
    <2>1. n \in PacketIds
      <3>1. Len(sent) <= calls /\ calls \in 0..MaxPackets /\ Len(sent) \in Nat
        BY DEF StreamInv, Typing, TypeOK, Numbered
      <3> QED  BY <1>3, <1>8, <3>1, FramingAssumption DEF PacketIds
    <2>2. HeaderOf(n) \in Seq(Bytes) /\ Len(HeaderOf(n)) = HeaderSize
      BY <2>1, NewPacket, ByteFacts
    <2>3. \A i \in 1..m : HeaderOf(n)[i] = HeaderByte(n, i)  BY <1>4 DEF HeaderOf
    <2>4. PICK h \in Seq(Bytes) : h = HeaderOf(n)  BY <2>2
    <2>5. Len(h) = Len(r) /\ \A i \in 1..Len(r) : h[i] = r[i]  BY <1>2, <1>4, <1>11, <2>2, <2>3, <2>4
    <2>6. h = r  BY <2>5, SeqEqual
    <2> QED  BY <2>4, <2>6
  <1> QED  BY <1>1, <1>2, <1>3, <1>8, <1>12

\* Bytes that are no header are forgotten.
LEMMA ReadsBadHeader ==
    ASSUME StreamInv, NEW k \in 1..Buffer, RecvBadHeader(k)
    PROVE  StreamInv' /\ PC!Fail
  <1>1. Reads(k) /\ Fails /\ UNCHANGED <<sent, calls, unsent, payload, link>>
    BY DEF RecvBadHeader, senderVars
  <1>2. PICK r \in Seq(Bytes), g \in Seq(Bytes), m \in Nat :
              /\ r = ReadSoFar(k) /\ m = Len(r) /\ m = Len(got) + k /\ m >= 1 /\ m <= Len(Flight)
              /\ Over(r, wire', unsent, payload) = Flight
              /\ g = Over(<<>>, wire', unsent, payload) /\ Drops(Flight, g, m)
              /\ \A i \in 1..m : Flight[i] = r[i]
              /\ wire' \in Seq(Bytes) /\ Len(wire') <= Buffer /\ Flight \in Seq(Bytes)
    BY <1>1, ReadFacts
  <1>3. Flight' = g  BY <1>1, <1>2 DEF Fails, Flight
  <1>4. Flight' \in Seq(Bytes) /\ Drops(Flight, Flight', m)  BY <1>2, <1>3
  <1> QED  BY <1>1, <1>2, <1>4, Failed

\* recv_packet gives up without a recv: the part it has read is gone.
LEMMA GivesUp ==
    ASSUME StreamInv, Fails, UNCHANGED <<sent, calls, unsent, payload, wire, link>>
    PROVE  StreamInv' /\ PC!Fail
  <1>1. /\ got \in Seq(Bytes) /\ wire \in Seq(Bytes) /\ unsent \in Seq(Bytes) /\ payload \in Seq(Bytes)
        /\ Len(wire) <= Buffer
    BY DEF StreamInv, Typing, TypeOK
  <1>2. Over(<<>>, wire, unsent, payload) \in Seq(Bytes)
        /\ Drops(Over(got, wire, unsent, payload), Over(<<>>, wire, unsent, payload), Len(got))
    BY <1>1, Forgets
  <1>3. Over(got, wire, unsent, payload) \in Seq(Bytes)  BY <1>1, OverIsSeq
  <1>4. Flight = Over(got, wire, unsent, payload) /\ Flight' = Over(<<>>, wire, unsent, payload)
    BY DEF Flight, Fails
  <1>5. PICK m \in Nat : m = Len(got)  BY <1>1
  <1>6. Flight \in Seq(Bytes) /\ Flight' \in Seq(Bytes) /\ Drops(Flight, Flight', m)
    BY <1>2, <1>3, <1>4, <1>5
  <1>7. wire' \in Seq(Bytes) /\ Len(wire') <= Buffer  BY <1>1
  <1> QED  BY <1>6, <1>7, Failed

\* The rest of the payload arrives.
LEMMA ReadsPayload ==
    ASSUME StreamInv, NEW k \in 1..Buffer, RecvPayload(k)
    PROVE  StreamInv' /\ PC!Deliver(header) /\ header \in 1..Len(sent)
  <1>1. /\ need = "payload" /\ Reads(k) /\ Len(got) + k = Len(sent[header].payload)
        /\ Returns(header, ReadSoFar(k))
        /\ UNCHANGED <<sent, calls, unsent, payload, link>>
    BY DEF RecvPayload, Wanted, senderVars
  <1>2. PICK r \in Seq(Bytes), g \in Seq(Bytes), m \in Nat :
              /\ r = ReadSoFar(k) /\ m = Len(r) /\ m = Len(got) + k /\ m >= 1 /\ m <= Len(Flight)
              /\ Over(r, wire', unsent, payload) = Flight
              /\ g = Over(<<>>, wire', unsent, payload) /\ Drops(Flight, g, m)
              /\ \A i \in 1..m : Flight[i] = r[i]
              /\ wire' \in Seq(Bytes) /\ Len(wire') <= Buffer /\ Flight \in Seq(Bytes)
    BY <1>1, ReadFacts
  <1>3. PICK f \in Seq(Bytes), s \in Seq(Packets), n \in 0..MaxPackets : f = Flight /\ s = sent /\ n = header
    BY <1>2 DEF StreamInv, Typing, TypeOK
  <1>4. /\ n \in 1..Len(s) /\ n > LastId /\ (recvFailed \/ n = LastId + 1)
        /\ f[1] = PayloadByte(n, 1)
    BY <1>1, <1>3 DEF StreamInv, AtPayload
  <1>5. Whole(f, s) /\ m \in 1..Len(f) /\ 1 \in 1..Len(f) /\ m = Content(s, n)
    BY <1>1, <1>2, <1>3 DEF StreamInv, Content
  <1>6. PICK hs \in Nat : hs = HeaderSize /\ hs >= 1  BY ByteFacts
  <1>7. f[1][2] = n /\ Place(f[1]) = hs + 1  BY <1>4, <1>6 DEF PayloadByte, Place
  <1>8. PacketEnd(f, s, 1) = m
    <2>1. 1 + (hs + m) - (hs + 1) = m  OBVIOUS
    <2> QED  BY <1>5, <1>6, <1>7, <2>1 DEF PacketEnd, PacketLen
  <1>9. \A j \in 1..m : f[j] = ByteAt(n, (hs + 1) + (j - 1))  BY <1>5, <1>7, <1>8 DEF Whole
  <1>10. ASSUME NEW j \in 1..m PROVE f[j] = PayloadByte(n, j)
    <2>1. (hs + 1) + (j - 1) = hs + j /\ ~(hs + j <= hs) /\ (hs + j) - hs = j  OBVIOUS
    <2>2. ByteAt(n, hs + j) = PayloadByte(n, j)  BY <1>6, <2>1 DEF ByteAt
    <2> QED  BY <1>9, <2>1, <2>2
  <1>11. f[m] = PayloadByte(n, m)
    <2>1. m \in 1..m  BY <1>2
    <2> QED  BY <1>10, <2>1
  <1>12. f[m][2] = n /\ Place(f[m]) = hs + m  BY <1>6, <1>11 DEF PayloadByte, Place
  <1>13. PacketEnd(f, s, m) = m
    <2>1. m + (hs + m) - (hs + m) = m  OBVIOUS
    <2> QED  BY <1>5, <1>6, <1>12, <2>1 DEF PacketEnd, PacketLen
  <1>14. Packet(n, r) = s[n]
    <2>1. PICK x \in Packets : x = s[n]  BY <1>4
    <2>2. x.id = n /\ \A j \in 1..m : x.payload[j] = j
      BY <1>3, <1>4, <1>5, <2>1 DEF StreamInv, Typing, Numbered
    <2>3. Len(r) = Len(x.payload) /\ Len(r) = m  BY <1>2, <1>5, <2>1 DEF Content
    <2>4. ASSUME NEW j \in 1..m PROVE r[j][3] = x.payload[j]
      <3>1. r[j] = PayloadByte(n, j)  BY <1>2, <1>3, <1>10
      <3> QED  BY <2>2, <3>1 DEF PayloadByte
    <2>5. Packet(n, r) = x  BY <2>2, <2>3, <2>4, SamePacket
    <2> QED  BY <2>1, <2>5
  <1>15. got' = <<>>  BY <1>1 DEF Returns
  <1>16. Flight' = g  BY <1>1, <1>2, <1>15 DEF Flight
  <1>17. /\ n \in 1..Len(sent) /\ Returns(n, r) /\ Packet(n, r) = sent[n]
         /\ m \in 1..Len(Flight) /\ Flight' \in Seq(Bytes) /\ Drops(Flight, Flight', m)
         /\ Flight[m][2] = n /\ PacketEnd(Flight, sent, m) = m
    BY <1>1, <1>2, <1>3, <1>4, <1>5, <1>12, <1>13, <1>14, <1>16
  <1>18. StreamInv' /\ PC!Deliver(n)  BY <1>1, <1>2, <1>4, <1>17, Delivered
  <1> QED  BY <1>3, <1>4, <1>18

--------------------------------------------------------------------------------
(* Every step. *)

\* What has changed nothing, or only calls or the connection.
LEMMA Idles ==
    ASSUME StreamInv, UNCHANGED <<sent, unsent, payload, wire, receiverVars>>,
           calls' \in calls..MaxPackets, link' \in {"up", "broken"}
    PROVE  StreamInv' /\ UNCHANGED PC!vars
  <1>1. UNCHANGED <<sent, unsent, payload, wire, need, got, header, delivered, recvFailed>>
    BY DEF receiverVars
  <1>2. Flight' = Flight  BY <1>1 DEF Flight
  <1>3. Typing'
    <2>1. calls \in 0..MaxPackets /\ Len(sent) <= calls /\ Len(sent) \in Nat
      BY DEF StreamInv, Typing, TypeOK, Numbered
    <2>2. calls' \in 0..MaxPackets /\ Len(sent) <= calls'  BY <2>1, FramingAssumption
    <2> QED  BY <1>1, <2>2 DEF StreamInv, Typing, TypeOK, Numbered, Content
  <1>4. Len(got') < Wanted  BY <1>1, StillWanted
  <1> QED  BY <1>1, <1>2, <1>3, <1>4, FlightKept

LEMMA NextStream == StreamInv /\ [Next]_vars => StreamInv' /\ [PC!Next]_(PC!vars)
  <1> SUFFICES ASSUME StreamInv, [Next]_vars PROVE StreamInv' /\ [PC!Next]_(PC!vars)  OBVIOUS
  <1>1. calls \in 0..MaxPackets /\ MaxPackets \in Nat /\ link \in {"up", "broken"}
    BY FramingAssumption DEF StreamInv, Typing, TypeOK
  <1>2. CASE UNCHANGED vars
    <2>1. calls' \in calls..MaxPackets /\ link' \in {"up", "broken"}  BY <1>1, <1>2 DEF vars, senderVars
    <2>2. UNCHANGED <<sent, unsent, payload, wire, receiverVars>>  BY <1>2 DEF vars, senderVars
    <2> QED  BY <2>1, <2>2, Idles
  <1>3. ASSUME NEW len \in Lengths, RefusePacket(len) PROVE StreamInv' /\ [PC!Next]_(PC!vars)
    <2>1. calls' \in calls..MaxPackets /\ link' \in {"up", "broken"}  BY <1>1, <1>3 DEF RefusePacket
    <2>2. UNCHANGED <<sent, unsent, payload, wire, receiverVars>>  BY <1>3 DEF RefusePacket
    <2> QED  BY <2>1, <2>2, Idles
  <1>4. ASSUME NEW len \in Lengths, SendPacket(len) PROVE StreamInv' /\ [PC!Next]_(PC!vars)
    <2>1. len \in Nat  BY FramingAssumption
    <2> QED  BY <1>4, <2>1, Sends DEF PC!Next
  <1>5. CASE Writing  BY <1>5, Writes DEF Writing
  <1>6. ASSUME NEW k \in 1..Buffer, RecvSome(k) PROVE StreamInv' /\ [PC!Next]_(PC!vars)
    BY <1>6, ReadsSome
  <1>7. ASSUME NEW k \in 1..Buffer, NEW n \in 1..Len(sent), RecvHeader(k, n)
        PROVE  StreamInv' /\ [PC!Next]_(PC!vars)
    BY <1>7, ReadsHeader DEF PC!Next
  <1>8. ASSUME NEW k \in 1..Buffer, RecvBadHeader(k) PROVE StreamInv' /\ [PC!Next]_(PC!vars)
    BY <1>8, ReadsBadHeader DEF PC!Next
  <1>9. ASSUME NEW k \in 1..Buffer, RecvPayload(k) PROVE StreamInv' /\ [PC!Next]_(PC!vars)
    BY <1>9, ReadsPayload DEF PC!Next
  <1>10. CASE AllocFails
    BY <1>10, GivesUp DEF AllocFails, senderVars, PC!Next
  <1>11. CASE RecvFails
    BY <1>11, GivesUp DEF RecvFails, senderVars, PC!Next
  <1>12. CASE LinkBreaks
    <2>1. calls' \in calls..MaxPackets /\ link' \in {"up", "broken"}
      BY <1>1, <1>12 DEF LinkBreaks, senderVars
    <2>2. UNCHANGED <<sent, unsent, payload, wire, receiverVars>>  BY <1>12 DEF LinkBreaks, senderVars
    <2> QED  BY <2>1, <2>2, Idles
  <1> QED
    BY <1>2, <1>3, <1>4, <1>5, <1>6, <1>7, <1>8, <1>9, <1>10, <1>11, <1>12 DEF Next, Receiving

\* Types, and the bytes in the socket never exceed what it holds: the loop of send_n writes
\* only what the socket takes.
THEOREM TypeCorrect == Spec => []TypeOK
  <1>1. StreamInv => TypeOK  BY DEF StreamInv, Typing
  <1> QED  BY <1>1, InitStream, NextStream, PTL DEF Spec

\* send_packet and recv_packet are a packet channel: however the stream is split into
\* writes and reads, recv_packet returns whole packets in the order of sending, and leaves
\* none out before it has failed.
THEOREM Refinement == Spec => ImplementsPacketChannel
  <1>1. Init => PC!Init  BY DEF Init, PC!Init
  <1> QED  BY <1>1, InitStream, NextStream, PTL DEF Spec, ImplementsPacketChannel, PC!Spec

\* recv_packet finds a header wherever it looks for one, until a call has failed.
THEOREM KeepsStep == Spec => InStep
  <1>1. StreamInv => [(\E k \in 1..Buffer : RecvBadHeader(k)) => recvFailed]_vars
    <2> SUFFICES ASSUME StreamInv, NEW k \in 1..Buffer, RecvBadHeader(k) PROVE recvFailed  OBVIOUS
    <2>1. CASE ~recvFailed  BY <2>1, HeaderFound
    <2>2. recvFailed \in BOOLEAN  BY DEF StreamInv, Typing, TypeOK
    <2> QED  BY <2>1, <2>2
  <1> QED  BY <1>1, InitStream, NextStream, PTL DEF Spec, InStep
================================================================================

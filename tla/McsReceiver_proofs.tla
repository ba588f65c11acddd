------------------------- MODULE McsReceiver_proofs --------------------------
(***************************************************************************)
(* Proofs about McsReceiver, for every wire that a server encodes as       *)
(* McsWire says, of any length, cut into pieces in any way.  First that    *)
(* such wires are what the client takes them for: decoding inverts         *)
(* encoding, by induction over the value, and frames lie end to end, by    *)
(* induction over their number.                                            *)
(*                                                                         *)
(* The argument: the receiver asks for at least two bytes at a time while  *)
(* it reads a size field, so it can read one byte of the body with it.     *)
(* That happens only to a field of two or more digits, whose value is at   *)
(* least Base: the byte is always inside the body, and the body is always  *)
(* incomplete when its state is entered.                                   *)
(***************************************************************************)
EXTENDS McsReceiver, Induction

(* Where the parts of a wire lie, and what its size fields hold.           *)
Layout(w) ==
  /\ w.count \in Nat
  /\ w.length \in Nat
  /\ w.bytes \in [1 .. w.length -> Nat]
  /\ w.start \in [1 .. w.count+1 -> Nat]
  /\ w.digits \in [1 .. w.count -> Nat \ {0}]
  /\ w.size \in [1 .. w.count -> Uint32]

FrameEncoded(w, k) ==
  /\ w.start[k+1] = Body(w, k) + w.size[k]
  /\ w.start[k+1] <= w.length
  /\ \A i \in SizeField(w, k)+1 .. Body(w, k)-1 : Continues(w.bytes[i])
  /\ ~Continues(w.bytes[Body(w, k)])
  /\ VarintValue(w.bytes, SizeField(w, k), Body(w, k)) = w.size[k]
  /\ w.digits[k] > 1 => w.size[k] >= Base

WellFormed(w) ==
  /\ Layout(w)
  /\ w.start[1] = 1
  /\ w.start[w.count+1] = w.length
  /\ \A k \in 1 .. w.count : FrameEncoded(w, k)

(* The frame being read.                                                   *)
Current == Len(handed) + 1

AtVersion ==
  /\ consumed = 0
  /\ received < 3
  /\ handed = <<>>
  /\ m_nSizePacketSoFar = 0

AtTag ==
  /\ consumed = wire.start[Current]
  /\ received < consumed + 2
  /\ m_nSizePacketSoFar = 0

AtSize ==
  /\ Current <= wire.count
  /\ consumed = SizeField(wire, Current)
  /\ m_nMessageTag = wire.bytes[wire.start[Current] + 1]
  /\ m_nSizePacketSoFar \in 2 .. wire.digits[Current]
  /\ received + 1 \in consumed + m_nSizePacketSoFar .. consumed + m_nSizePacketSoFar + 1

AtBody ==
  /\ Current <= wire.count
  /\ consumed = Body(wire, Current)
  /\ m_nMessageTag = wire.bytes[wire.start[Current] + 1]
  /\ m_nMessageSize = wire.size[Current]
  /\ received - consumed < m_nMessageSize
  /\ m_nSizePacketSoFar = 0

Aligned ==
  /\ m_nState = "MCS_VERSION_TAG_AND_SIZE" => AtVersion
  /\ m_nState = "MCS_TAG_AND_SIZE" => AtTag
  /\ m_nState = "MCS_SIZE" => AtSize
  /\ m_nState = "MCS_PROTO_BYTES" => AtBody

IInv ==
  /\ wire \in Wires
  /\ TypeOK
  /\ FramesIntact
  /\ status = "listening" => Aligned

-----------------------------------------------------------------------------
(* Size fields and wires.                                                  *)

(* An int holds a size below its limit, and makes the others negative.     *)
LEMMA IntLimitFacts ==
  /\ IntLimit \in Nat \ {0}
  /\ \A size \in Uint32 :
       /\ size \in Nat
       /\ AsInt(size) \in Int
       /\ size < IntLimit => AsInt(size) = size
       /\ size >= IntLimit => AsInt(size) < 0
<1>1. SizeModulus \in Nat \ {0, 1}
  BY VarintAssumption
<1>2. IntLimit \in Nat \ {0}
  BY <1>1 DEF IntLimit
<1>3. \A size \in Uint32 : size \in Nat /\ size < SizeModulus
  BY <1>1 DEF Uint32
<1> QED BY <1>1, <1>2, <1>3 DEF AsInt

(* A value of several digits: its last digit and what is left of it.       *)
LEMMA Quotient ==
  ASSUME NEW v \in Nat
  PROVE  /\ v \div Base \in Nat
         /\ v % Base \in 0 .. Base - 1
         /\ v = (v % Base) + Base * (v \div Base)
         /\ v >= Base => v \div Base < v
<1>1. Base \in Nat /\ Base >= 2
  BY VarintAssumption
<1> DEFINE q == v \div Base
<1>2. /\ q \in Int /\ v % Base \in 0 .. Base - 1
      /\ v = (v % Base) + Base * q
  BY <1>1
<1>3. q >= 0
  BY <1>1
<1> HIDE DEF q
<1>4. Base * q >= 2 * q
  BY <1>1, <1>2, <1>3
<1>5. v >= Base => q < v
  BY <1>1, <1>2, <1>3, <1>4
<1> QED BY <1>2, <1>3, <1>5 DEF q

(* Marking a digit as continued does not change it.                        *)
LEMMA DigitOfMarked ==
  ASSUME NEW r \in 0 .. Base - 1
  PROVE  (r + Base) % Base = r
<1> DEFINE x == r + Base
           d == x % Base
           q == x \div Base
<1>1. Base \in Nat /\ Base >= 2 /\ r \in Nat /\ r < Base /\ x \in Nat
  BY VarintAssumption
<1>2. q \in Nat /\ d \in 0 .. Base - 1 /\ x = d + Base * q
  BY <1>1, Quotient
<1> HIDE DEF q, d
<1>3. CASE q = 0
  BY <1>1, <1>2, <1>3
<1>4. CASE q = 1
  BY <1>1, <1>2, <1>4 DEF d
<1>5. CASE q >= 2
  <2>1. Base * q >= Base * 2
    BY <1>1, <1>2, <1>5
  <2> QED BY <1>1, <1>2, <2>1
<1> QED BY <1>2, <1>3, <1>4, <1>5

(* The code's digits, one at a time.                                       *)
LEMMA EncodeVarint32Def ==
  /\ EncodeVarint32 \in [Uint32 -> Seq(Nat)]
  /\ \A v \in Uint32 :
       /\ v < Base => EncodeVarint32[v] = <<v>>
       /\ v >= Base => EncodeVarint32[v] = <<(v % Base) + Base>> \o EncodeVarint32[v \div Base]
<1> DEFINE n == SizeModulus - 1
           S == Seq(Nat)
           first == [v \in 0 .. n |-> <<v>>]
           below == [v \in Base .. n |-> v \div Base]
           More(v) == [s \in S |-> <<(v % Base) + Base>> \o s]
           step == [v \in Base .. n |-> More(v)]
           Digits(f, v) == IF v >= Base THEN <<(v % Base) + Base>> \o f[v \div Base] ELSE <<v>>
           Encoding(f) == [v \in Uint32 |-> Digits(f, v)]
<1>1. n \in Nat /\ Base \in Nat \ {0} /\ Uint32 = 0 .. n
  BY VarintAssumption DEF Uint32
<1>2. first \in [0 .. n -> S]
  OBVIOUS
<1>3. \A v \in Uint32 : v \in Nat /\ v \div Base \in Nat /\ (v % Base) + Base \in Nat
                        /\ (v >= Base => v \div Base < v /\ v \div Base \in Uint32)
  <2> SUFFICES ASSUME NEW v \in Uint32
               PROVE  v \in Nat /\ v \div Base \in Nat /\ (v % Base) + Base \in Nat
                        /\ (v >= Base => v \div Base < v /\ v \div Base \in Uint32)
    OBVIOUS
  <2>1. v \in Nat /\ v <= n
    BY <1>1
  <2> DEFINE q == v \div Base
             r == v % Base
  <2>2. q \in Nat /\ r \in 0 .. Base - 1 /\ (v >= Base => q < v)
    BY <2>1, Quotient
  <2> HIDE DEF q, r, n
  <2> QED BY <1>1, <2>1, <2>2 DEF q, r
<1>4. \A v \in Base .. n : v \in Uint32 /\ v >= Base
  BY <1>1
<1>5. below \in [Base .. n -> Nat] /\ \A v \in Base .. n : below[v] < v
  BY <1>3, <1>4
<1>6. \A v \in Base .. n : More(v) \in [S -> S]
  BY <1>3, <1>4
<1>7. step \in [Base .. n -> [S -> S]]
  BY <1>6
<1>8. Scheme(S, n, Base, first, below, step)
  BY <1>1, <1>2, <1>5, <1>7 DEF Scheme
<1>9. PICK f \in [Uint32 -> S] : \A v \in Uint32 : f[v] = IF v < Base THEN first[v] ELSE step[v][f[below[v]]]
  <2> HIDE DEF n, S, first, below, step
  <2>1. PICK f : Solves(f, S, n, Base, first, below, step)
    BY <1>8, Recursion
  <2> QED BY <1>1, <2>1 DEF Solves
<1>10. ASSUME NEW v \in Uint32 PROVE f[v] = Digits(f, v)
  <2>1. CASE v < Base
    <3>1. f[v] = first[v]
      BY <1>9, <2>1
    <3> QED BY <1>1, <1>3, <2>1, <3>1
  <2>2. CASE v >= Base
    <3>1. v \in Base .. n /\ v \div Base \in Uint32 /\ ~(v < Base)
      BY <1>1, <1>3, <2>2
    <3>2. f[v \div Base] \in S
      BY <3>1
    <3>3. f[v] = step[v][f[below[v]]]
      BY <1>9, <3>1
    <3>4. below[v] = v \div Base /\ step[v] = More(v)
      BY <3>1
    <3>5. f[v] = More(v)[f[v \div Base]]
      BY <3>3, <3>4
    <3>6. f[v] = <<(v % Base) + Base>> \o f[v \div Base]
      BY <3>2, <3>5
    <3> QED BY <2>2, <3>6
  <2>3. v < Base \/ v >= Base
    BY <1>1, <1>3
  <2> QED BY <2>1, <2>2, <2>3
<1> HIDE DEF Digits
<1>11. f = Encoding(f)
  BY <1>10
<1>12. EncodeVarint32 = CHOOSE g : g = Encoding(g)
  BY DEF EncodeVarint32, Digits
<1>13. EncodeVarint32 = Encoding(EncodeVarint32)
  <2> HIDE DEF Encoding
  <2> QED BY <1>11, <1>12
<1>14. \A v \in Uint32 : EncodeVarint32[v] = Digits(EncodeVarint32, v)
  BY <1>13
<1> DEFINE T == {v \in Nat : v \in Uint32 => EncodeVarint32[v] \in Seq(Nat)}
<1>15. ASSUME NEW v \in Nat, \A m \in 0 .. v - 1 : m \in T, v \in Uint32
       PROVE  EncodeVarint32[v] \in Seq(Nat)
  <2>1. CASE v < Base
    <3>1. ~(v >= Base)
      BY <1>1, <1>15, <2>1
    <3>2. EncodeVarint32[v] = <<v>>
      BY <1>14, <1>15, <3>1 DEF Digits
    <3> QED BY <1>15, <3>2
  <2>2. CASE v >= Base
    <3> DEFINE q == v \div Base
               d == (v % Base) + Base
    <3>1. q \in Nat /\ q < v /\ d \in Nat /\ q \in Uint32
      BY <1>3, <1>15, <2>2
    <3>2. EncodeVarint32[v] = <<d>> \o EncodeVarint32[q]
      BY <1>14, <1>15, <2>2 DEF Digits
    <3> HIDE DEF q, d
    <3>3. q \in T
      BY <1>15, <3>1
    <3>4. EncodeVarint32[q] \in Seq(Nat)
      BY <3>1, <3>3
    <3> QED BY <3>1, <3>2, <3>4
  <2> QED BY <1>1, <2>1, <2>2
<1>16. \A v \in Nat : (\A m \in 0 .. v - 1 : m \in T) => v \in T
  BY <1>15
<1> HIDE DEF T
<1>17. \A v \in Nat : v \in T
  BY <1>16, StrongInduction
<1>18. \A v \in Uint32 : EncodeVarint32[v] \in Seq(Nat)
  BY <1>3, <1>17 DEF T
<1>19. EncodeVarint32 \in [Uint32 -> Seq(Nat)]
  BY <1>13, <1>18
<1>20. ASSUME NEW v \in Uint32, v < Base PROVE EncodeVarint32[v] = <<v>>
  <2>1. ~(v >= Base)
    BY <1>1, <1>3, <1>20
  <2> QED BY <1>14, <1>20, <2>1 DEF Digits
<1>21. ASSUME NEW v \in Uint32, v >= Base
       PROVE  EncodeVarint32[v] = <<(v % Base) + Base>> \o EncodeVarint32[v \div Base]
  BY <1>1, <1>3, <1>14, <1>21 DEF Digits
<1> QED BY <1>19, <1>20, <1>21

(* Every digit but the last is marked as continued, the last is not, and   *)
(* there are several only for a value that needs them.                     *)
LEMMA DigitFacts ==
  ASSUME NEW v \in Uint32
  PROVE  LET e == EncodeVarint32[v] IN
         /\ e \in Seq(Nat)
         /\ Len(e) >= 1
         /\ \A i \in 1 .. Len(e) - 1 : Continues(e[i])
         /\ ~Continues(e[Len(e)])
         /\ Len(e) > 1 => v >= Base
<1> DEFINE E(u) == EncodeVarint32[u]
           Good(u) == /\ Len(E(u)) >= 1
                      /\ \A i \in 1 .. Len(E(u)) - 1 : Continues(E(u)[i])
                      /\ ~Continues(E(u)[Len(E(u))])
           T == {u \in Nat : u \in Uint32 => Good(u)}
<1>1. Base \in Nat /\ Base >= 2
  BY VarintAssumption
<1>2. \A u \in Uint32 : E(u) \in Seq(Nat)
  BY EncodeVarint32Def
<1>3. \A u \in Uint32 : u \in Nat
  BY DEF Uint32
<1>4. ASSUME NEW u \in Nat, \A m \in 0 .. u - 1 : m \in T, u \in Uint32
      PROVE  Good(u)
  <2>1. CASE u < Base
    <3>1. E(u) = <<u>>
      BY <1>1, <1>4, <2>1, EncodeVarint32Def
    <3> HIDE DEF E
    <3> QED BY <1>1, <2>1, <3>1 DEF Continues
  <2>2. CASE u >= Base
    <3> DEFINE q == u \div Base
               d == (u % Base) + Base
    <3>1. q \in Nat /\ q < u /\ d \in Nat /\ d >= Base
      BY <1>1, <2>2, Quotient
    <3>2. E(u) = <<d>> \o E(q)
      BY <1>4, <2>2, EncodeVarint32Def
    <3> HIDE DEF q, d, E
    <3>3. q \in Uint32 /\ q \in T
      <4>1. q \in 0 .. u - 1
        BY <3>1
      <4> QED BY <1>4, <3>1, <4>1, VarintAssumption DEF Uint32
    <3>4. Good(q)
      BY <3>3
    <3>5. E(q) \in Seq(Nat) /\ Len(E(q)) \in Nat
      BY <1>2, <3>3
    <3>6. /\ Len(E(u)) = Len(E(q)) + 1
          /\ E(u)[1] = d
          /\ \A i \in 1 .. Len(E(q)) : E(u)[i+1] = E(q)[i]
      BY <3>1, <3>2, <3>5
    <3>7. E(u)[Len(E(u))] = E(q)[Len(E(q))]
      BY <3>4, <3>5, <3>6
    <3>8. ASSUME NEW i \in 1 .. Len(E(u)) - 1 PROVE Continues(E(u)[i])
      <4>1. CASE i = 1
        BY <1>1, <3>1, <3>6, <4>1 DEF Continues
      <4>2. CASE i > 1
        <5>1. i - 1 \in 1 .. Len(E(q)) - 1 /\ i - 1 \in 1 .. Len(E(q)) /\ (i - 1) + 1 = i
          BY <3>5, <3>6, <4>2
        <5>2. E(u)[i] = E(q)[i-1]
          BY <3>6, <5>1
        <5> QED BY <3>4, <5>1, <5>2
      <4> QED BY <4>1, <4>2
    <3> QED BY <3>4, <3>5, <3>6, <3>7, <3>8
  <2> QED BY <1>1, <2>1, <2>2
<1> HIDE DEF Good
<1>5. \A u \in Nat : (\A m \in 0 .. u - 1 : m \in T) => u \in T
  BY <1>4
<1> HIDE DEF T
<1>6. \A u \in Nat : u \in T
  BY <1>5, StrongInduction
<1>7. Good(v)
  BY <1>3, <1>6 DEF T
<1>8. Len(E(v)) > 1 => v >= Base
  <2>1. v \in Nat /\ (v >= Base \/ v < Base)
    BY <1>1, <1>3
  <2>2. CASE v < Base
    <3>1. E(v) = <<v>>
      BY <2>2, EncodeVarint32Def
    <3> QED BY <3>1
  <2> QED BY <2>1, <2>2
<1> QED BY <1>2, <1>7, <1>8 DEF Good

(* Decoding the digits of a value gives the value: _DecodeVarint32 inverts *)
(* _EncodeVarint32 for every uint32_t, wherever in a buffer the digits are. *)
THEOREM DecodeInvertsEncode ==
  ASSUME NEW v \in Uint32, NEW bytes, NEW from \in Nat,
         \A i \in 1 .. Len(EncodeVarint32[v]) : bytes[from+i] = EncodeVarint32[v][i]
  PROVE  VarintValue(bytes, from, from + Len(EncodeVarint32[v])) = v
<1> DEFINE E(u) == EncodeVarint32[u]
           n == Len(E(v))
           end == from + n
           D(i) == Digit(bytes[i+1])
           Shift(g) == [i \in from .. end |-> IF i = end THEN 0 ELSE D(i) + Base * g[i+1]]
           shifted == CHOOSE g : g = Shift(g)
<1>1. Base \in Nat /\ Base >= 2 /\ E(v) \in Seq(Nat) /\ n \in Nat
  BY VarintAssumption, DigitFacts
<1> HIDE DEF n
<1>2. \A i \in from .. end : i # end => D(i) \in Nat
  <2> SUFFICES ASSUME NEW i \in from .. end, i # end PROVE D(i) \in Nat
    OBVIOUS
  <2>1. i + 1 - from \in 1 .. n /\ from + (i + 1 - from) = i + 1
    BY <1>1
  <2>2. bytes[i+1] = E(v)[i + 1 - from]
    BY <2>1 DEF n
  <2>3. bytes[i+1] \in Nat
    <3> HIDE DEF E
    <3> QED BY <1>1, <2>1, <2>2 DEF n
  <2> QED BY <1>1, <2>3 DEF Digit
<1>3. \E g : g = Shift(g)
  <2> DEFINE first == [k \in 0 .. n |-> 0]
             below == [k \in 1 .. n |-> k - 1]
             More(k) == [s \in Nat |-> D(end - k) + Base * s]
             step == [k \in 1 .. n |-> More(k)]
  <2>1. first \in [0 .. n -> Nat] /\ below \in [1 .. n -> Nat] /\ \A k \in 1 .. n : below[k] < k
    BY <1>1
  <2>2. \A k \in 1 .. n : More(k) \in [Nat -> Nat]
    <3> SUFFICES ASSUME NEW k \in 1 .. n PROVE More(k) \in [Nat -> Nat]
      OBVIOUS
    <3>1. end - k \in from .. end /\ end - k # end
      BY <1>1
    <3> DEFINE d == D(end - k)
    <3>2. d \in Nat
      BY <1>2, <3>1
    <3> HIDE DEF d
    <3>3. \A s \in Nat : d + Base * s \in Nat
      BY <1>1, <3>2
    <3> QED BY <3>3 DEF d
  <2>3. step \in [1 .. n -> [Nat -> Nat]]
    BY <2>2
  <2>4. Scheme(Nat, n, 1, first, below, step)
    <3> HIDE DEF first, below, step
    <3>1. 1 \in Nat \ {0}
      OBVIOUS
    <3> QED BY <1>1, <2>1, <2>3, <3>1, Zenon DEF Scheme
  <2>5. PICK f : Solves(f, Nat, n, 1, first, below, step)
    <3> HIDE DEF first, below, step
    <3> QED BY <2>4, Recursion
  <2> DEFINE g == [i \in from .. end |-> f[end - i]]
  <2>6. ASSUME NEW i \in from .. end PROVE g[i] = IF i = end THEN 0 ELSE D(i) + Base * g[i+1]
    <3>1. CASE i = end
      <4>1. g[i] = f[0]
        BY <1>1, <3>1
      <4>2. f[0] = first[0]
        <5> HIDE DEF first, below, step
        <5> QED BY <1>1, <2>5 DEF Solves
      <4> QED BY <1>1, <3>1, <4>1, <4>2
    <3>2. CASE i # end
      <4> DEFINE k == end - i
      <4>1. k \in 1 .. n /\ k \in 0 .. n /\ i + 1 \in from .. end /\ end - k = i /\ end - (i + 1) = k - 1
        BY <1>1, <3>2
      <4>2. f[k] = step[k][f[below[k]]]
        <5> HIDE DEF first, below, step, k
        <5>1. ~(k < 1)
          BY <4>1
        <5> QED BY <2>5, <4>1, <5>1 DEF Solves
      <4>3. f[k - 1] \in Nat
        <5>1. k - 1 \in 0 .. n
          BY <1>1, <4>1
        <5> QED BY <2>5, <5>1 DEF Solves
      <4>4. f[k] = D(end - k) + Base * f[k - 1]
        <5> HIDE DEF k, D
        <5> QED BY <4>1, <4>2, <4>3
      <4>5. g[i] = f[k] /\ g[i + 1] = f[k - 1]
        BY <4>1
      <4> HIDE DEF g, k, D
      <4> QED BY <3>2, <4>1, <4>4, <4>5
    <3> QED BY <3>1, <3>2
  <2> HIDE DEF D
  <2>7. g = Shift(g)
    BY <2>6
  <2> QED BY <2>7
<1>4. \A i \in from .. end : shifted[i] = IF i = end THEN 0 ELSE D(i) + Base * shifted[i+1]
  <2>1. shifted = Shift(shifted)
    <3> HIDE DEF Shift
    <3> QED BY <1>3
  <2> HIDE DEF shifted, D
  <2> QED BY <2>1
<1> HIDE DEF shifted
<1> DEFINE Holds(u, i) == /\ end - i = Len(E(u))
                          /\ \A j \in 1 .. Len(E(u)) : bytes[i+j] = E(u)[j]
           T == {u \in Nat : u \in Uint32 => \A i \in from .. end : Holds(u, i) => shifted[i] = u}
<1>5. ASSUME NEW u \in Nat, \A m \in 0 .. u - 1 : m \in T, u \in Uint32,
             NEW i \in from .. end, Holds(u, i)
      PROVE  shifted[i] = u
  <2>1. CASE u < Base
    <3>1. E(u) = <<u>>
      BY <1>5, <2>1, EncodeVarint32Def
    <3> HIDE DEF E
    <3>2. end - i = 1 /\ bytes[i+1] = u
      BY <1>5, <3>1
    <3>3. i # end /\ i + 1 = end /\ end \in from .. end
      BY <1>1, <3>2
    <3>4. shifted[i + 1] = 0
      BY <1>4, <3>3
    <3>5. D(i) = u
      <4>1. u % Base = u
        BY <1>1, <2>1
      <4> QED BY <3>2, <4>1 DEF Digit
    <3> HIDE DEF D
    <3>6. shifted[i] = D(i) + Base * shifted[i+1]
      BY <1>4, <3>3
    <3> QED BY <1>1, <3>4, <3>5, <3>6
  <2>2. CASE u >= Base
    <3> DEFINE q == u \div Base
               r == u % Base
    <3>1. q \in Nat /\ q < u /\ r \in 0 .. Base - 1 /\ u = r + Base * q
      BY <2>2, Quotient
    <3>2. E(u) = <<r + Base>> \o E(q)
      BY <1>5, <2>2, EncodeVarint32Def
    <3> HIDE DEF q, r
    <3>3. q \in Uint32 /\ q \in T
      <4>1. q \in 0 .. u - 1
        BY <3>1
      <4> QED BY <1>5, <3>1, <4>1, VarintAssumption DEF Uint32
    <3>4. E(q) \in Seq(Nat) /\ Len(E(q)) \in Nat
      BY <3>3, DigitFacts
    <3> HIDE DEF E
    <3>5. /\ Len(E(u)) = Len(E(q)) + 1
          /\ E(u)[1] = r + Base
          /\ \A j \in 1 .. Len(E(q)) : E(u)[j+1] = E(q)[j]
      BY <1>1, <3>1, <3>2, <3>4
    <3>6. bytes[i+1] = r + Base
      BY <1>5, <3>4, <3>5
    <3>7. i # end /\ i + 1 \in from .. end /\ end - (i + 1) = Len(E(q))
      BY <1>1, <1>5, <3>4, <3>5
    <3>8. \A j \in 1 .. Len(E(q)) : bytes[(i+1)+j] = E(q)[j]
      <4> SUFFICES ASSUME NEW j \in 1 .. Len(E(q)) PROVE bytes[(i+1)+j] = E(q)[j]
        OBVIOUS
      <4>1. j + 1 \in 1 .. Len(E(u)) /\ i + (j + 1) = (i + 1) + j
        BY <3>4, <3>5
      <4> QED BY <1>5, <3>5, <4>1
    <3>9. shifted[i+1] = q
      BY <3>3, <3>7, <3>8
    <3>10. D(i) = r
      <4>1. (r + Base) % Base = r
        BY <1>1, <3>1, DigitOfMarked
      <4> QED BY <3>6, <4>1 DEF Digit
    <3> HIDE DEF D
    <3>11. shifted[i] = D(i) + Base * shifted[i+1]
      BY <1>4, <3>7
    <3> QED BY <3>1, <3>9, <3>10, <3>11
  <2> QED BY <1>1, <2>1, <2>2
<1>6. \A u \in Nat : (\A m \in 0 .. u - 1 : m \in T) => u \in T
  BY <1>5
<1>7. Holds(v, from) /\ from \in from .. end
  BY <1>1 DEF n
<1> HIDE DEF T, Holds
<1>8. \A u \in Nat : u \in T
  BY <1>6, StrongInduction
<1>9. v \in Nat /\ v < SizeModulus
  BY VarintAssumption DEF Uint32
<1>10. shifted[from] = v
  BY <1>7, <1>8, <1>9 DEF T
<1>11. VarintValue(bytes, from, end) = shifted[from] % SizeModulus
  BY DEF VarintValue, shifted
<1>12. v % SizeModulus = v
  BY <1>9, VarintAssumption
<1> QED BY <1>10, <1>11, <1>12 DEF n

(* The bytes sent after k frames, as WireOf defines them.                  *)
SentUpTo(upTo, version, frames) ==
  /\ upTo \in [0 .. Len(frames) -> Seq(Nat)]
  /\ upTo[0] = <<version>>
  /\ \A k \in 1 .. Len(frames) : upTo[k] = upTo[k-1] \o FrameBytes(frames[k])

(* A stream is a version and frames of a tag and a body.                   *)
LEMMA StreamFacts ==
  ASSUME NEW s \in Streams
  PROVE  /\ s.version \in Nat
         /\ Len(s.frames) \in Nat
         /\ \A k \in 1 .. Len(s.frames) : /\ s.frames[k].tag \in Nat
                                          /\ s.frames[k].body \in Seq(Nat)
                                          /\ Len(s.frames[k].body) \in Uint32
<1> DEFINE R == [tag : Nat, body : Seq(Nat)]
           frames == s.frames
<1>1. s.version \in Nat /\ frames \in Seq(R)
      /\ \A k \in DOMAIN frames : Len(frames[k].body) \in Uint32
  BY StreamsAssumption
<1>2. \A r \in R : r.tag \in Nat /\ r.body \in Seq(Nat)
  OBVIOUS
<1> HIDE DEF R, frames
<1>3. Len(frames) \in Nat /\ DOMAIN frames = 1 .. Len(frames)
      /\ \A k \in 1 .. Len(frames) : frames[k] \in R
  BY <1>1
<1> QED BY <1>1, <1>2, <1>3 DEF frames

(* One sequence after another.                                             *)
LEMMA Joined ==
  ASSUME NEW s \in Seq(Nat), NEW t \in Seq(Nat)
  PROVE  /\ s \o t \in Seq(Nat)
         /\ Len(s \o t) = Len(s) + Len(t)
         /\ \A i \in 1 .. Len(s) : (s \o t)[i] = s[i]
         /\ \A i \in 1 .. Len(t) : (s \o t)[Len(s) + i] = t[i]
  OBVIOUS

(* What one frame adds.                                                    *)
LEMMA FrameBytesFacts ==
  ASSUME NEW frame, frame.tag \in Nat, frame.body \in Seq(Nat), Len(frame.body) \in Uint32
  PROVE  LET e == EncodeVarint32[Len(frame.body)] IN
         /\ FrameBytes(frame) \in Seq(Nat)
         /\ Len(FrameBytes(frame)) = 1 + Len(e) + Len(frame.body)
         /\ \A i \in 1 .. Len(e) : FrameBytes(frame)[1+i] = e[i]
<1> DEFINE tag == frame.tag
           body == frame.body
           e == EncodeVarint32[Len(body)]
<1>1. e \in Seq(Nat)
  BY DigitFacts
<1>2. FrameBytes(frame) = <<tag>> \o e \o body
  BY DEF FrameBytes
<1> HIDE DEF e, tag, body
<1>3. /\ <<tag>> \o e \in Seq(Nat) /\ Len(<<tag>> \o e) = 1 + Len(e)
      /\ \A i \in 1 .. Len(e) : (<<tag>> \o e)[1+i] = e[i]
  BY <1>1 DEF tag
<1> DEFINE front == <<tag>> \o e
<1>4. /\ front \o body \in Seq(Nat) /\ Len(front \o body) = Len(front) + Len(body)
      /\ \A i \in 1 .. Len(front) : (front \o body)[i] = front[i]
  <2> HIDE DEF front
  <2>1. body \in Seq(Nat) /\ front \in Seq(Nat)
    BY <1>3 DEF front, body
  <2> QED BY <2>1
<1>5. \A i \in 1 .. Len(e) : 1 + i \in 1 .. Len(front)
  BY <1>1, <1>3
<1> HIDE DEF front
<1>6. Len(e) \in Nat /\ Len(body) \in Nat
  BY <1>1 DEF body
<1> QED BY <1>2, <1>3, <1>4, <1>5, <1>6 DEF e, front, body, tag

(* The definition of sent in WireOf defines such a function.               *)
LEMMA WireOfDef ==
  ASSUME NEW s \in Streams
  PROVE  \E upTo :
           LET n == Len(s.frames) IN
           /\ SentUpTo(upTo, s.version, s.frames)
           /\ WireOf(s.version, s.frames) =
                [bytes  |-> upTo[n],
                 length |-> Len(upTo[n]),
                 count  |-> n,
                 start  |-> [k \in 1 .. n+1 |-> Len(upTo[k-1])],
                 digits |-> [k \in 1 .. n |-> Len(EncodeVarint32[Len(s.frames[k].body)])],
                 size   |-> [k \in 1 .. n |-> Len(s.frames[k].body)]]
<1> DEFINE frames == s.frames
           n == Len(frames)
           S == Seq(Nat)
           Sending(g) == [k \in 0 .. n |-> IF k = 0 THEN <<s.version>> ELSE g[k-1] \o FrameBytes(frames[k])]
           upTo == CHOOSE g : g = Sending(g)
<1>1. /\ s.version \in Nat /\ n \in Nat
      /\ \A k \in 1 .. n : /\ frames[k].tag \in Nat
                           /\ frames[k].body \in Seq(Nat)
                           /\ Len(frames[k].body) \in Uint32
  BY StreamFacts
<1>2. \A k \in 1 .. n : FrameBytes(frames[k]) \in S
  BY <1>1, FrameBytesFacts
<1> HIDE DEF frames, n
<1>3. \E g : g = Sending(g)
  <2> DEFINE first == [k \in 0 .. n |-> <<s.version>>]
             below == [k \in 1 .. n |-> k - 1]
             More(k) == [t \in S |-> t \o FrameBytes(frames[k])]
             step == [k \in 1 .. n |-> More(k)]
  <2>1. below \in [1 .. n -> Nat] /\ \A k \in 1 .. n : below[k] < k
    BY <1>1
  <2>2. first \in [0 .. n -> S]
    BY <1>1
  <2>3. \A k \in 1 .. n : More(k) \in [S -> S]
    BY <1>2
  <2>4. step \in [1 .. n -> [S -> S]]
    BY <2>3
  <2>5. Scheme(S, n, 1, first, below, step)
    <3> HIDE DEF first, below, step, S
    <3> QED BY <1>1, <2>1, <2>2, <2>4 DEF Scheme
  <2>6. PICK f : Solves(f, S, n, 1, first, below, step)
    <3> HIDE DEF first, below, step, S
    <3> QED BY <2>5, Recursion
  <2>7. ASSUME NEW k \in 0 .. n PROVE f[k] = IF k = 0 THEN <<s.version>> ELSE f[k-1] \o FrameBytes(frames[k])
    <3>1. CASE k = 0
      <4>1. f[0] = first[0]
        <5> HIDE DEF first, below, step
        <5> QED BY <1>1, <2>6 DEF Solves
      <4> QED BY <1>1, <3>1, <4>1
    <3>2. CASE k # 0
      <4>1. k \in 1 .. n /\ k - 1 \in 0 .. n /\ ~(k < 1)
        BY <1>1, <3>2
      <4>2. f[k] = step[k][f[below[k]]]
        <5> HIDE DEF first, below, step
        <5> QED BY <2>6, <4>1 DEF Solves
      <4>3. f[k-1] \in S
        BY <2>6, <4>1 DEF Solves
      <4>4. f[k] = More(k)[f[k-1]]
        BY <4>1, <4>2
      <4> QED BY <3>2, <4>3, <4>4
    <3> QED BY <3>1, <3>2
  <2>8. f \in [0 .. n -> S]
    BY <2>6 DEF Solves
  <2>9. f = Sending(f)
    BY <2>7, <2>8
  <2> QED BY <2>9
<1>4. upTo = Sending(upTo)
  <2> HIDE DEF Sending
  <2> QED BY <1>3
<1>5. WireOf(s.version, s.frames) =
        [bytes  |-> upTo[n], length |-> Len(upTo[n]), count |-> n,
         start  |-> [k \in 1 .. n+1 |-> Len(upTo[k-1])],
         digits |-> [k \in 1 .. n |-> Len(EncodeVarint32[Len(frames[k].body)])],
         size   |-> [k \in 1 .. n |-> Len(frames[k].body)]]
  BY DEF WireOf, frames, n
<1> HIDE DEF upTo
<1>6. upTo[0] = <<s.version>> /\ \A k \in 1 .. n : upTo[k] = upTo[k-1] \o FrameBytes(frames[k])
  <2>1. \A k \in 1 .. n : k \in 0 .. n /\ k # 0
    OBVIOUS
  <2>2. 0 \in 0 .. n
    BY <1>1
  <2>3. \A k \in 0 .. n : upTo[k] = IF k = 0 THEN <<s.version>> ELSE upTo[k-1] \o FrameBytes(frames[k])
    BY <1>4
  <2> HIDE DEF Sending
  <2>4. upTo[0] = <<s.version>>
    BY <2>2, <2>3
  <2>5. ASSUME NEW k \in 1 .. n PROVE upTo[k] = upTo[k-1] \o FrameBytes(frames[k])
    BY <2>1, <2>3
  <2> QED BY <2>4, <2>5
<1> DEFINE T == {k \in Nat : k \in 0 .. n => upTo[k] \in S}
<1>7. 0 \in T
  <2>1. <<s.version>> \in S
    BY <1>1
  <2> QED BY <1>6, <2>1
<1>8. ASSUME NEW k \in Nat, k \in T PROVE k + 1 \in T
  <2> SUFFICES ASSUME k + 1 \in 0 .. n PROVE upTo[k+1] \in S
    OBVIOUS
  <2>1. k \in 0 .. n /\ k + 1 \in 1 .. n /\ (k + 1) - 1 = k
    BY <1>1
  <2>2. upTo[k] \in S
    BY <1>8, <2>1
  <2>3. upTo[k+1] = upTo[k] \o FrameBytes(frames[k+1])
    BY <1>6, <2>1
  <2> QED BY <1>2, <2>1, <2>2, <2>3
<1> HIDE DEF T
<1>9. \A k \in 0 .. n : upTo[k] \in S
  <2>1. \A k \in Nat : k \in T
    BY <1>7, <1>8, Induction
  <2> QED BY <1>1, <2>1 DEF T
<1>10. DOMAIN upTo = 0 .. n /\ upTo = [k \in 0 .. n |-> upTo[k]]
  BY <1>4
<1>11. SentUpTo(upTo, s.version, s.frames)
  BY <1>6, <1>9, <1>10 DEF SentUpTo, frames, n
<1> QED BY <1>5, <1>11 DEF frames, n

(* Frame k and its size field lie, in all that is sent, where they were    *)
(* when the frame was.                                                     *)
Grown(upTo, frames, k) ==
  LET all == upTo[Len(frames)]
      e == EncodeVarint32[Len(frames[k].body)]
  IN  /\ Len(upTo[k]) = Len(upTo[k-1]) + 1 + Len(e) + Len(frames[k].body)
      /\ Len(upTo[k]) <= Len(all)
      /\ \A i \in 1 .. Len(e) : all[Len(upTo[k-1]) + 1 + i] = e[i]

LEMMA SentGrows ==
  ASSUME NEW s \in Streams, NEW upTo, SentUpTo(upTo, s.version, s.frames),
         NEW k \in 1 .. Len(s.frames)
  PROVE  Grown(upTo, s.frames, k)
<1> DEFINE n == Len(s.frames)
           e == EncodeVarint32[Len(s.frames[k].body)]
           f == FrameBytes(s.frames[k])
           size == Len(s.frames[k].body)
<1>1. n \in Nat /\ \A i \in 0 .. n : upTo[i] \in Seq(Nat)
  BY StreamFacts DEF SentUpTo
<1>2. \A j \in 1 .. n : /\ s.frames[j].tag \in Nat
                        /\ s.frames[j].body \in Seq(Nat)
                        /\ Len(s.frames[j].body) \in Uint32
  BY StreamFacts
<1>3. \A j \in 1 .. n : FrameBytes(s.frames[j]) \in Seq(Nat) /\ upTo[j] = upTo[j-1] \o FrameBytes(s.frames[j])
  BY <1>2, FrameBytesFacts DEF SentUpTo
<1>4. f \in Seq(Nat) /\ Len(f) = 1 + Len(e) + size /\ \A i \in 1 .. Len(e) : f[1+i] = e[i]
  BY <1>2, FrameBytesFacts
<1>5. e \in Seq(Nat) /\ size \in Nat /\ k \in 1 .. n /\ k \in 0 .. n /\ k - 1 \in 0 .. n
  BY <1>1, <1>2, DigitFacts
<1>6. upTo[k] = upTo[k-1] \o f
  BY <1>3
<1> HIDE DEF n, e, f, size
<1>7. Len(upTo[k]) = Len(upTo[k-1]) + 1 + Len(e) + size
  <2>1. upTo[k-1] \in Seq(Nat)
    BY <1>1, <1>5
  <2>2. Len(upTo[k]) = Len(upTo[k-1]) + Len(f)
    BY <1>4, <1>6, <2>1, Joined
  <2> DEFINE l == Len(upTo[k-1])
             m == Len(e)
  <2>3. l \in Nat /\ m \in Nat
    BY <1>5, <2>1
  <2>4. Len(upTo[k]) = l + (1 + m + size)
    BY <1>4, <2>2
  <2> HIDE DEF l, m
  <2>5. l + (1 + m + size) = l + 1 + m + size
    BY <1>5, <2>3
  <2> QED BY <2>4, <2>5 DEF l, m
<1>8. \A i \in 1 .. Len(e) : upTo[k][Len(upTo[k-1]) + 1 + i] = e[i]
  <2> SUFFICES ASSUME NEW i \in 1 .. Len(e) PROVE upTo[k][Len(upTo[k-1]) + 1 + i] = e[i]
    OBVIOUS
  <2>1. upTo[k-1] \in Seq(Nat) /\ Len(upTo[k-1]) \in Nat
    BY <1>1, <1>5
  <2>2. 1 + i \in 1 .. Len(f)
    BY <1>4, <1>5
  <2>3. (upTo[k-1] \o f)[Len(upTo[k-1]) + (1 + i)] = f[1 + i]
    BY <1>4, <2>1, <2>2, Joined
  <2> DEFINE l == Len(upTo[k-1])
  <2>4. l + (1 + i) = l + 1 + i
    <3> HIDE DEF l
    <3>1. l \in Nat
      BY <2>1 DEF l
    <3> QED BY <1>5, <3>1
  <2> QED BY <1>4, <1>6, <2>3, <2>4
<1> DEFINE Kept(j) == /\ Len(upTo[k]) <= Len(upTo[j])
                      /\ \A i \in 1 .. Len(upTo[k]) : upTo[j][i] = upTo[k][i]
           T == {j \in Nat : j \in k .. n => Kept(j)}
<1>9. 0 \in T
  BY <1>5
<1>10. ASSUME NEW j \in Nat, j \in T PROVE j + 1 \in T
  <2> SUFFICES ASSUME j + 1 \in k .. n PROVE Kept(j + 1)
    OBVIOUS
  <2>1. CASE j + 1 = k
    <3>1. upTo[k] \in Seq(Nat)
      BY <1>1, <1>5
    <3> QED BY <2>1, <3>1
  <2>2. CASE j + 1 # k
    <3>1. j \in k .. n /\ j \in 0 .. n /\ j + 1 \in 1 .. n /\ (j + 1) - 1 = j
      BY <1>1, <1>5, <2>2
    <3>2. Kept(j)
      BY <1>10, <3>1
    <3> DEFINE more == FrameBytes(s.frames[j+1])
    <3>3. upTo[j+1] = upTo[j] \o more /\ more \in Seq(Nat)
      BY <1>3, <3>1
    <3> HIDE DEF more
    <3>4. upTo[j] \in Seq(Nat) /\ upTo[k] \in Seq(Nat)
      BY <1>1, <1>5, <3>1
    <3>5. /\ Len(upTo[j]) <= Len(upTo[j+1])
          /\ \A i \in 1 .. Len(upTo[j]) : upTo[j+1][i] = upTo[j][i]
      BY <3>3, <3>4
    <3>6. \A i \in 1 .. Len(upTo[k]) : i \in 1 .. Len(upTo[j])
      BY <3>2, <3>4
    <3>7. upTo[j+1] \in Seq(Nat)
      BY <3>3, <3>4
    <3> QED BY <3>2, <3>4, <3>5, <3>6, <3>7
  <2> QED BY <2>1, <2>2
<1> HIDE DEF T, Kept
<1>11. Kept(n)
  <2>1. \A j \in Nat : j \in T
    BY <1>9, <1>10, Induction
  <2> QED BY <1>1, <1>5, <2>1 DEF T
<1>12. ASSUME NEW i \in 1 .. Len(e) PROVE upTo[n][Len(upTo[k-1]) + 1 + i] = e[i]
  <2>1. upTo[k-1] \in Seq(Nat) /\ upTo[k] \in Seq(Nat)
    BY <1>1, <1>5
  <2>2. Len(upTo[k-1]) + 1 + i \in 1 .. Len(upTo[k])
    BY <1>5, <1>7, <2>1
  <2> QED BY <1>8, <1>11, <2>2 DEF Kept
<1> QED BY <1>7, <1>11, <1>12 DEF Kept, n, e, size, Grown

(* Every wire a server may send is one the client's parse is meant for:    *)
(* each size field decodes to the size of the body after it, and is as     *)
(* short as that size allows.                                              *)
THEOREM WiresAreWellFormed == \A w \in Wires : WellFormed(w)
<1> SUFFICES ASSUME NEW s \in Streams PROVE WellFormed(WireOf(s.version, s.frames))
  BY DEF Wires
<1> DEFINE w == WireOf(s.version, s.frames)
           n == Len(s.frames)
           E(k) == EncodeVarint32[Len(s.frames[k].body)]
           size(k) == Len(s.frames[k].body)
<1>1. PICK upTo : /\ SentUpTo(upTo, s.version, s.frames)
                  /\ w = [bytes  |-> upTo[n],
                          length |-> Len(upTo[n]),
                          count  |-> n,
                          start  |-> [k \in 1 .. n+1 |-> Len(upTo[k-1])],
                          digits |-> [k \in 1 .. n |-> Len(E(k))],
                          size   |-> [k \in 1 .. n |-> size(k)]]
  BY WireOfDef
<1>2. /\ n \in Nat /\ s.version \in Nat
      /\ \A k \in 1 .. n : size(k) \in Uint32 /\ size(k) \in Nat
  <2>1. n \in Nat /\ s.version \in Nat /\ \A k \in 1 .. n : size(k) \in Uint32
    BY StreamFacts
  <2>2. \A u \in Uint32 : u \in Nat
    BY DEF Uint32
  <2> HIDE DEF n, size
  <2> QED BY <2>1, <2>2
<1>3. \A k \in 1 .. n : /\ E(k) \in Seq(Nat)
                        /\ Len(E(k)) \in Nat \ {0}
                        /\ \A i \in 1 .. Len(E(k)) - 1 : Continues(E(k)[i])
                        /\ ~Continues(E(k)[Len(E(k))])
                        /\ Len(E(k)) > 1 => size(k) >= Base
  <2> SUFFICES ASSUME NEW k \in 1 .. n
               PROVE  /\ E(k) \in Seq(Nat)
                      /\ Len(E(k)) \in Nat \ {0}
                      /\ \A i \in 1 .. Len(E(k)) - 1 : Continues(E(k)[i])
                      /\ ~Continues(E(k)[Len(E(k))])
                      /\ Len(E(k)) > 1 => size(k) >= Base
    OBVIOUS
  <2>1. size(k) \in Uint32
    BY <1>2
  <2> QED BY <2>1, DigitFacts
<1>4. \A k \in 1 .. n :
        /\ Len(upTo[k]) = Len(upTo[k-1]) + 1 + Len(E(k)) + size(k)
        /\ Len(upTo[k]) <= Len(upTo[n])
        /\ \A i \in 1 .. Len(E(k)) : upTo[n][Len(upTo[k-1]) + 1 + i] = E(k)[i]
  <2> SUFFICES ASSUME NEW k \in 1 .. n
               PROVE  /\ Len(upTo[k]) = Len(upTo[k-1]) + 1 + Len(E(k)) + size(k)
                      /\ Len(upTo[k]) <= Len(upTo[n])
                      /\ \A i \in 1 .. Len(E(k)) : upTo[n][Len(upTo[k-1]) + 1 + i] = E(k)[i]
    OBVIOUS
  <2>1. SentUpTo(upTo, s.version, s.frames) /\ k \in 1 .. Len(s.frames)
    BY <1>1
  <2>2. Grown(upTo, s.frames, k)
    BY <2>1, SentGrows
  <2> QED BY <2>2 DEF Grown
<1>5. \A k \in 0 .. n : upTo[k] \in Seq(Nat) /\ Len(upTo[k]) \in Nat
  <2>1. \A k \in 0 .. n : upTo[k] \in Seq(Nat)
    BY <1>1 DEF SentUpTo
  <2> QED BY <2>1
<1>6. upTo[0] = <<s.version>> /\ Len(upTo[0]) = 1
  BY <1>1 DEF SentUpTo
<1>7. ASSUME NEW k \in 1 .. n, NEW from, from = Len(upTo[k-1]) + 1
      PROVE  VarintValue(upTo[n], from, from + Len(E(k))) = size(k)
  <2>1. k - 1 \in 0 .. n
    BY <1>2
  <2>2. from \in Nat
    BY <1>5, <1>7, <2>1
  <2>3. \A i \in 1 .. Len(E(k)) : upTo[n][from + i] = E(k)[i]
    BY <1>4, <1>7
  <2> QED BY <1>2, <2>2, <2>3, DecodeInvertsEncode
<1> HIDE DEF w, E, size
<1>8. /\ w.bytes = upTo[n] /\ w.length = Len(upTo[n]) /\ w.count = n
      /\ \A k \in 1 .. n+1 : w.start[k] = Len(upTo[k-1])
      /\ \A k \in 1 .. n : w.digits[k] = Len(E(k)) /\ w.size[k] = size(k)
  BY <1>1
<1> HIDE DEF n
<1>9. \A k \in 1 .. n+1 : Len(upTo[k-1]) \in Nat
  <2>1. \A k \in 1 .. n+1 : k - 1 \in 0 .. n
    BY <1>2
  <2> QED BY <1>5, <2>1
<1>10. Layout(w)
  <2>1. upTo[n] \in Seq(Nat) /\ Len(upTo[n]) \in Nat
    <3>1. n \in 0 .. n
      BY <1>2
    <3> QED BY <1>5, <3>1
  <2>2. w.start \in [1 .. n+1 -> Nat]
    BY <1>1, <1>9
  <2>3. w.digits \in [1 .. n -> Nat \ {0}]
    BY <1>1, <1>3
  <2>4. w.size \in [1 .. n -> Uint32]
    BY <1>1, <1>2
  <2>5. upTo[n] \in [1 .. Len(upTo[n]) -> Nat]
    BY <2>1
  <2> QED BY <1>2, <1>8, <2>1, <2>2, <2>3, <2>4, <2>5 DEF Layout
<1>11. w.start[1] = 1 /\ w.start[w.count+1] = w.length
  <2>1. 1 \in 1 .. n+1 /\ n+1 \in 1 .. n+1 /\ 1 - 1 = 0 /\ (n+1) - 1 = n
    BY <1>2
  <2> QED BY <1>6, <1>8, <2>1
<1>12. ASSUME NEW k \in 1 .. n PROVE FrameEncoded(w, k)
  <2> DEFINE from == Len(upTo[k-1]) + 1
             e == E(k)
  <2>1. k \in 1 .. n+1 /\ k + 1 \in 1 .. n+1 /\ (k + 1) - 1 = k /\ k - 1 \in 0 .. n /\ k \in 0 .. n
    BY <1>2
  <2>2. /\ w.start[k] = Len(upTo[k-1]) /\ w.start[k+1] = Len(upTo[k])
        /\ w.digits[k] = Len(e) /\ w.size[k] = size(k)
        /\ w.bytes = upTo[n] /\ w.length = Len(upTo[n])
    BY <1>8, <2>1
  <2>3. from \in Nat /\ Len(e) \in Nat /\ size(k) \in Nat
    BY <1>2, <1>3, <1>5, <2>1
  <2>4. SizeField(w, k) = from /\ Body(w, k) = from + Len(e)
    BY <2>2 DEF SizeField, Body
  <2>5. \A i \in 1 .. Len(e) : w.bytes[from + i] = e[i]
    BY <1>4, <2>2
  <2>6. /\ Len(upTo[k]) = from + Len(e) + size(k)
        /\ Len(upTo[k]) <= Len(upTo[n])
    BY <1>4
  <2>7. /\ \A i \in 1 .. Len(e) - 1 : Continues(e[i])
        /\ ~Continues(e[Len(e)])
        /\ Len(e) > 1 => size(k) >= Base
    BY <1>3
  <2>8. VarintValue(w.bytes, from, from + Len(e)) = size(k)
    BY <1>7, <2>2
  <2>9. Len(e) >= 1
    BY <1>3
  <2> HIDE DEF from, e
  <2>10. ASSUME NEW i \in SizeField(w, k) + 1 .. Body(w, k) - 1 PROVE Continues(w.bytes[i])
    <3>1. i \in from + 1 .. from + Len(e) - 1
      BY <2>3, <2>4, <2>10
    <3>2. i - from \in 1 .. Len(e) - 1 /\ i - from \in 1 .. Len(e) /\ from + (i - from) = i
      BY <2>3, <3>1
    <3> QED BY <2>5, <2>7, <3>2
  <2>11. ~Continues(w.bytes[from + Len(e)])
    BY <2>3, <2>5, <2>7, <2>9
  <2>12. w.start[k+1] = Body(w, k) + w.size[k] /\ w.start[k+1] <= w.length
    BY <2>2, <2>4, <2>6
  <2>14. ~Continues(w.bytes[Body(w, k)]) /\ VarintValue(w.bytes, SizeField(w, k), Body(w, k)) = w.size[k]
    BY <2>2, <2>4, <2>8, <2>11
  <2> QED BY <2>2, <2>7, <2>10, <2>12, <2>14 DEF FrameEncoded
<1> QED BY <1>8, <1>10, <1>11, <1>12 DEF WellFormed, w

(* One digit more holds Base times as many values.                         *)
LEMMA OneDigitMore ==
  ASSUME NEW m \in Nat \ {0}, NEW d \in Nat \ {0},
         \A u \in Uint32 : u < m => Len(EncodeVarint32[u]) <= d
  PROVE  \A u \in Uint32 : u < Base * m => Len(EncodeVarint32[u]) <= d + 1
<1> SUFFICES ASSUME NEW u \in Uint32, u < Base * m PROVE Len(EncodeVarint32[u]) <= d + 1
  OBVIOUS
<1>1. Base \in Nat /\ Base >= 2 /\ u \in Nat /\ u < SizeModulus /\ SizeModulus \in Nat
  BY VarintAssumption DEF Uint32
<1>2. CASE u < Base
  <2>1. EncodeVarint32[u] = <<u>>
    BY <1>2, EncodeVarint32Def
  <2> QED BY <2>1
<1>3. CASE u >= Base
  <2> DEFINE q == u \div Base
             r == u % Base
  <2>1. q \in Nat /\ r \in 0 .. Base - 1 /\ u = r + Base * q /\ q < u
    BY <1>1, <1>3, Quotient
  <2>2. EncodeVarint32[u] = <<r + Base>> \o EncodeVarint32[q]
    BY <1>3, EncodeVarint32Def
  <2> HIDE DEF q, r
  <2>3. q \in Uint32
    BY <1>1, <2>1 DEF Uint32
  <2>4. q < m
    <3> SUFFICES ASSUME q >= m PROVE FALSE
      BY <2>1
    <3>1. Base * q >= Base * m
      BY <1>1, <2>1
    <3>2. Base * q \in Nat /\ Base * m \in Nat
      BY <1>1, <2>1
    <3> QED BY <1>1, <2>1, <3>1, <3>2
  <2>5. EncodeVarint32[q] \in Seq(Nat) /\ Len(EncodeVarint32[q]) <= d
    BY <2>3, <2>4, DigitFacts
  <2>6. <<r + Base>> \in Seq(Nat)
    BY <1>1, <2>1
  <2> HIDE DEF r
  <2>7. Len(EncodeVarint32[u]) = 1 + Len(EncodeVarint32[q])
    BY <2>2, <2>5, <2>6, Joined
  <2>8. Len(EncodeVarint32[q]) \in Nat
    BY <2>5
  <2> QED BY <2>5, <2>7, <2>8
<1> QED BY <1>1, <1>2, <1>3

(* A value below Base to the fifth has at most five digits: no server      *)
(* sends a sixth byte of a size field, whose shift by 35 bits would be     *)
(* undefined (UtilFunction.h:112), as 128^5 = 2^35 is more than 2^32.      *)
THEOREM NoSixthSizeByte ==
  ASSUME SizeModulus <= Base * (Base * (Base * (Base * Base)))
  PROVE  \A w \in Wires : \A k \in 1 .. w.count : w.digits[k] <= 5
<1> DEFINE Few(m, d) == \A u \in Uint32 : u < m => Len(EncodeVarint32[u]) <= d
<1>1. Base \in Nat \ {0} /\ SizeModulus \in Nat /\ \A u \in Uint32 : u \in Nat /\ u < SizeModulus
  BY VarintAssumption DEF Uint32
<1>2. \A m, n \in Nat \ {0} : m * n \in Nat \ {0}
  OBVIOUS
<1>3. Few(Base, 1)
  <2> SUFFICES ASSUME NEW u \in Uint32, u < Base PROVE Len(EncodeVarint32[u]) <= 1
    OBVIOUS
  <2>1. EncodeVarint32[u] = <<u>>
    BY EncodeVarint32Def
  <2> QED BY <2>1
<1> HIDE DEF Few
<1>4. ASSUME NEW m \in Nat \ {0}, NEW d \in Nat \ {0}, Few(m, d) PROVE Few(Base * m, d + 1)
  BY <1>4, OneDigitMore DEF Few
<1>5. Few(Base * Base, 2)
  BY <1>1, <1>3, <1>4
<1> DEFINE b2 == Base * Base
           b3 == Base * b2
           b4 == Base * b3
<1>6. b2 \in Nat \ {0} /\ b3 \in Nat \ {0} /\ b4 \in Nat \ {0} /\ Base * b4 \in Nat
  BY <1>1, <1>2
<1>7. SizeModulus <= Base * b4
  OBVIOUS
<1> HIDE DEF b4
<1>8. Few(b3, 3)
  BY <1>1, <1>4, <1>5, <1>6
<1> HIDE DEF b3
<1>9. Few(b4, 4)
  BY <1>4, <1>6, <1>8 DEF b4
<1>10. Few(Base * b4, 5)
  BY <1>4, <1>6, <1>9
<1>11. \A u \in Uint32 : Len(EncodeVarint32[u]) <= 5
  <2> SUFFICES ASSUME NEW u \in Uint32 PROVE Len(EncodeVarint32[u]) <= 5
    OBVIOUS
  <2>1. u < Base * b4
    BY <1>1, <1>6, <1>7
  <2> QED BY <1>10, <2>1 DEF Few
<1> SUFFICES ASSUME NEW s \in Streams, NEW k \in 1 .. WireOf(s.version, s.frames).count
             PROVE  WireOf(s.version, s.frames).digits[k] <= 5
  BY DEF Wires
<1>12. /\ k \in 1 .. Len(s.frames)
       /\ WireOf(s.version, s.frames).digits[k] = Len(EncodeVarint32[Len(s.frames[k].body)])
  <2> DEFINE w == WireOf(s.version, s.frames)
             n == Len(s.frames)
             E(j) == EncodeVarint32[Len(s.frames[j].body)]
  <2>1. PICK upTo : w = [bytes  |-> upTo[n], length |-> Len(upTo[n]), count |-> n,
                         start  |-> [j \in 1 .. n+1 |-> Len(upTo[j-1])],
                         digits |-> [j \in 1 .. n |-> Len(E(j))],
                         size   |-> [j \in 1 .. n |-> Len(s.frames[j].body)]]
    BY WireOfDef
  <2>2. k \in 1 .. w.count
    OBVIOUS
  <2> HIDE DEF w, E, n
  <2>3. w.count = n /\ \A j \in 1 .. n : w.digits[j] = Len(E(j))
    BY <2>1
  <2> QED BY <2>2, <2>3 DEF w, n, E
<1> QED BY <1>11, <1>12, StreamFacts

-----------------------------------------------------------------------------
(* The receiver.                                                           *)

(* What WiresAreWellFormed says of one frame of the wire, in plain arithmetic. *)
LEMMA FrameFacts ==
  ASSUME NEW w \in Wires, NEW k \in 1 .. w.count
  PROVE  /\ w.count \in Nat
         /\ w.length \in Nat
         /\ w.start[k] \in Nat
         /\ w.start[k+1] \in Nat
         /\ w.digits[k] \in Nat \ {0}
         /\ w.size[k] \in Nat
         /\ w.size[k] \in Uint32
         /\ w.start[k+1] = w.start[k] + 1 + w.digits[k] + w.size[k]
         /\ w.start[k+1] <= w.length
         /\ w.digits[k] > 1 => w.size[k] >= 2
         /\ w.bytes[w.start[k] + 1] \in Nat
         /\ Frame(w, k) \in [tag : Nat, from : Nat, to : Nat]
<1>1. WellFormed(w)
  BY WiresAreWellFormed
<1>2. Layout(w) /\ FrameEncoded(w, k)
  BY <1>1 DEF WellFormed
<1>3. k \in 1 .. w.count + 1 /\ k + 1 \in 1 .. w.count + 1
  BY <1>2 DEF Layout
<1>4. /\ w.count \in Nat /\ w.length \in Nat
      /\ w.start[k] \in Nat /\ w.start[k+1] \in Nat
      /\ w.digits[k] \in Nat \ {0} /\ w.size[k] \in Uint32 /\ w.size[k] \in Nat
  BY <1>2, <1>3, IntLimitFacts DEF Layout
<1>5. /\ w.start[k+1] = w.start[k] + 1 + w.digits[k] + w.size[k]
      /\ w.start[k+1] <= w.length
      /\ w.digits[k] > 1 => w.size[k] >= Base
  BY <1>2, <1>4 DEF FrameEncoded, Body, SizeField
<1>6. w.digits[k] > 1 => w.size[k] >= 2
  BY <1>4, <1>5, VarintAssumption
<1>7. w.bytes[w.start[k] + 1] \in Nat
  <2>1. w.start[k] + 1 \in 1 .. w.length
    BY <1>4, <1>5
  <2>2. QED
    BY <2>1, <1>2 DEF Layout
<1>8. Frame(w, k) \in [tag : Nat, from : Nat, to : Nat]
  BY <1>4, <1>7 DEF Frame, Body, SizeField
<1>9. QED
  BY <1>4, <1>5, <1>6, <1>7, <1>8

(* The ends of a wire.                                                     *)
LEMMA WireFacts ==
  ASSUME NEW w \in Wires
  PROVE  /\ w.count \in Nat
         /\ w.length \in Nat
         /\ w.start[1] = 1
         /\ w.start[w.count + 1] = w.length
  BY WiresAreWellFormed DEF WellFormed, Layout

(* Decoding a buffer that starts at a frame's size field: it succeeds as   *)
(* soon as the buffer holds the whole field, and then finds its end and    *)
(* its value.                                                              *)
LEMMA SizeFieldDecodes ==
  ASSUME NEW w \in Wires, NEW k \in 1 .. w.count, NEW to \in Nat, to <= w.length
  PROVE  LET from == SizeField(w, k) IN
         /\ VarintComplete(w.bytes, from, to) <=> Body(w, k) <= to
         /\ VarintComplete(w.bytes, from, to) =>
              /\ VarintEnd(w.bytes, from, to) = Body(w, k)
              /\ VarintValue(w.bytes, from, Body(w, k)) = w.size[k]
<1> DEFINE from == SizeField(w, k)
<1> DEFINE body == Body(w, k)
<1>1. FrameEncoded(w, k)
  BY WiresAreWellFormed DEF WellFormed
<1>2. from \in Nat /\ body \in Nat /\ from < body
  BY FrameFacts DEF Body, SizeField
<1>3. /\ \A i \in from+1 .. body-1 : Continues(w.bytes[i])
      /\ ~Continues(w.bytes[body])
      /\ VarintValue(w.bytes, from, body) = w.size[k]
  BY <1>1 DEF FrameEncoded
<1>4. \A e \in from+1 .. to : ~Continues(w.bytes[e]) => body <= e
  BY <1>2, <1>3
<1>5. VarintComplete(w.bytes, from, to) => body <= to
  BY <1>2, <1>4 DEF VarintComplete
<1>6. body <= to => VarintComplete(w.bytes, from, to)
  BY <1>2, <1>3 DEF VarintComplete
<1>7. ASSUME VarintComplete(w.bytes, from, to)
      PROVE  VarintEnd(w.bytes, from, to) = body
  <2> DEFINE Ends(e) == /\ ~Continues(w.bytes[e])
                        /\ \A i \in from+1 .. e-1 : Continues(w.bytes[i])
  <2>1. body \in from+1 .. to /\ Ends(body)
    BY <1>2, <1>3, <1>5, <1>7
  <2>2. \A e \in from+1 .. to : Ends(e) => e = body
    <3>1. SUFFICES ASSUME NEW e \in from+1 .. to, Ends(e), e > body
                   PROVE  FALSE
      BY <1>2, <1>4
    <3>2. body \in from+1 .. e-1
      BY <1>2, <3>1
    <3>3. QED
      BY <3>1, <3>2, <1>3
  <2>3. VarintEnd(w.bytes, from, to) = CHOOSE e \in from+1 .. to : Ends(e)
    BY DEF VarintEnd
  <2> HIDE DEF Ends
  <2>4. QED
    BY <2>1, <2>2, <2>3
<1>8. QED
  BY <1>3, <1>5, <1>6, <1>7

-----------------------------------------------------------------------------

(* Handing over the frame being read keeps the history exact.              *)
LEMMA HandingKeepsFrames ==
  ASSUME wire \in Wires, UNCHANGED wire, TypeOK, FramesIntact, Current <= wire.count,
         handed' = Append(handed, Frame(wire, Current))
  PROVE  /\ handed' \in Seq([tag : Nat, from : Nat, to : Nat])
         /\ Len(handed') = Current
         /\ FramesIntact'
<1>1. Current \in 1 .. wire.count
  BY WireFacts DEF Current, TypeOK
<1>2. Frame(wire, Current) \in [tag : Nat, from : Nat, to : Nat]
  BY <1>1, FrameFacts
<1>3. /\ handed' \in Seq([tag : Nat, from : Nat, to : Nat])
      /\ Len(handed') = Current
      /\ \A k \in 1 .. Len(handed) : handed'[k] = handed[k]
      /\ handed'[Current] = Frame(wire, Current)
  BY <1>2 DEF TypeOK, Current
<1>4. \A k \in 1 .. Current : k \in 1 .. Len(handed) \/ k = Current
  BY DEF Current, TypeOK
<1>5. \A k \in 1 .. Current : handed'[k] = Frame(wire, k)
  BY <1>3, <1>4 DEF FramesIntact
<1>6. QED
  BY <1>1, <1>3, <1>5 DEF FramesIntact

(* The size of no frame.                                                   *)
LEMMA NoSize == 0 \in Uint32
BY VarintAssumption DEF Uint32

(* A handler call on exactly the current frame's body.                     *)
LEMMA BytesStep ==
  ASSUME wire \in Wires, TypeOK, FramesIntact, status = "listening", UNCHANGED network,
         Current <= wire.count, wire.size[Current] < IntLimit,
         NEW to \in Nat, to <= sent, to = wire.start[Current + 1],
         NEW tag, tag = wire.bytes[wire.start[Current] + 1],
         NEW size \in Uint32,
         NEW from, from = Body(wire, Current),
         m_nSizePacketSoFar' = 0,
         GotMessageBytes(tag, size, from, to)
  PROVE  IInv' /\ Delivery!HandOver
<1>1. Current \in 1 .. wire.count
  BY WireFacts DEF Current, TypeOK
<1>2. handed' = Append(handed, Frame(wire, Current)) /\ received' = to
  BY DEF GotMessageBytes, Frame
<1>3. /\ handed' \in Seq([tag : Nat, from : Nat, to : Nat])
      /\ Len(handed') = Current
      /\ FramesIntact'
  BY <1>2, HandingKeepsFrames DEF network
<1>4. from \in 0 .. to /\ tag \in Nat
  BY <1>1, FrameFacts DEF Body, SizeField
<1>5. status' \in {"listening", "threw"} => Delivery!HandOver
  BY <1>2 DEF Delivery!HandOver, Delivery!Frame, Delivery!Body, Delivery!SizeField,
              Delivery!IntLimit, IntLimit, Frame, Body, SizeField, Current, network
<1>6. CASE consumed' = to /\ GetNextMessage /\ UNCHANGED status
  <2>1. TypeOK'
    BY <1>2, <1>3, <1>6, NoSize DEF TypeOK, network, GetNextMessage, ProcessingState
  <2>2. AtTag'
    BY <1>2, <1>3, <1>6 DEF AtTag, Current, network
  <2>3. Aligned'
    BY <2>2, <1>6 DEF Aligned, GetNextMessage
  <2>4. QED
    BY <1>3, <1>5, <1>6, <2>1, <2>3 DEF IInv, network
<1>7. CASE /\ status' = "threw"
           /\ consumed' = from
           /\ m_nMessageTag' = tag
           /\ m_nMessageSize' = size
           /\ m_nState' = "MCS_PROTO_BYTES"
  <2>1. TypeOK'
    BY <1>2, <1>3, <1>4, <1>7 DEF TypeOK, network, ProcessingState
  <2>2. QED
    BY <1>3, <1>5, <1>7, <2>1 DEF IInv, network
<1>8. QED
  BY <1>6, <1>7 DEF GotMessageBytes

(* GotMessageSize on a buffer that starts at the current frame's size      *)
(* field and runs at most one byte into the body, and into the body only   *)
(* when the field has several digits.                                      *)
LEMMA SizeStep ==
  ASSUME wire \in Wires, TypeOK, FramesIntact, status = "listening", UNCHANGED network,
         Current <= wire.count,
         NEW from, from = SizeField(wire, Current),
         NEW to \in Nat, to <= sent, from < to,
         to <= from + wire.digits[Current] + 1,
         wire.digits[Current] = 1 => to = from + 1,
         NEW tag, tag = wire.bytes[wire.start[Current] + 1],
         GotMessageSize(tag, from, to)
  PROVE  IInv' /\ (Delivery!HandOver \/ UNCHANGED Delivery!vars)
<1> DEFINE digits == wire.digits[Current]
<1> DEFINE body == Body(wire, Current)
<1>1. Current \in 1 .. wire.count /\ to <= wire.length
  BY WireFacts DEF Current, TypeOK
<1>2. /\ from \in Nat
      /\ body = from + digits
      /\ digits \in Nat \ {0}
      /\ wire.size[Current] \in Nat
      /\ wire.size[Current] \in Uint32
      /\ wire.start[Current + 1] = body + wire.size[Current]
      /\ digits > 1 => wire.size[Current] >= 2
      /\ tag \in Nat
  BY <1>1, FrameFacts DEF Body, SizeField
<1>3. CASE ~VarintComplete(wire.bytes, from, to)
  <2>1. to < body
    BY <1>1, <1>2, <1>3, SizeFieldDecodes
  <2>2. /\ m_nSizePacketSoFar' = 1 + (to - from)
        /\ m_nState' = "MCS_SIZE"
        /\ m_nMessageTag' = tag
        /\ consumed' = from
        /\ received' = to
        /\ UNCHANGED <<m_nMessageSize, handed, status>>
    BY <1>3 DEF GotMessageSize
  <2>3. TypeOK'
    <3>1. 1 + (to - from) \in Nat /\ from \in 0 .. to /\ to \in 0 .. sent
      BY <1>2
    <3>2. m_nState' \in ProcessingState
      BY <2>2 DEF ProcessingState
    <3>3. QED
      BY <1>2, <2>2, <3>1, <3>2 DEF TypeOK, network
  <2>4. 1 + (to - from) \in 2 .. digits /\ to + 1 \in from + (1 + (to - from)) .. from + (1 + (to - from)) + 1
    BY <1>2, <2>1
  <2>5. wire' = wire /\ Current' = Current /\ SizeField(wire, Current)' = from
    BY <2>2 DEF Current, SizeField, network
  <2> HIDE DEF Current
  <2>6. AtSize'
    BY <2>2, <2>4, <2>5 DEF AtSize
  <2>7. FramesIntact'
    BY <2>2 DEF FramesIntact, network
  <2>8. QED
    BY <2>2, <2>3, <2>6, <2>7 DEF IInv, Aligned, network, Delivery!vars
<1>4. CASE VarintComplete(wire.bytes, from, to)
  <2>1. /\ body <= to
        /\ VarintEnd(wire.bytes, from, to) = body
        /\ VarintValue(wire.bytes, from, body) = wire.size[Current]
    BY <1>1, <1>4, SizeFieldDecodes
  <2>2. m_nSizePacketSoFar' = 0
    BY <1>4 DEF GotMessageSize
  <2>3. CASE wire.size[Current] > 0
    <3>1. /\ m_nState' = "MCS_PROTO_BYTES"
          /\ m_nMessageTag' = tag
          /\ m_nMessageSize' = wire.size[Current]
          /\ consumed' = body
          /\ received' = to
          /\ UNCHANGED <<handed, status>>
      BY <1>4, <2>1, <2>3 DEF GotMessageSize
    <3>2. TypeOK'
      BY <1>2, <2>1, <2>2, <3>1 DEF TypeOK, network, ProcessingState
    <3>3. to - body < wire.size[Current]
      BY <1>2, <2>1, <2>3
    <3>4. AtBody'
      BY <2>2, <3>1, <3>3 DEF AtBody, Current, network
    <3>5. FramesIntact'
      BY <3>1 DEF FramesIntact, network
    <3>6. QED
      BY <3>1, <3>2, <3>4, <3>5 DEF IInv, Aligned, network, Delivery!vars
  <2>4. CASE wire.size[Current] = 0
    <3>1. GotMessageBytes(tag, 0, body, to)
      BY <1>4, <2>1, <2>4 DEF GotMessageSize
    <3>2. to = wire.start[Current + 1]
      BY <1>2, <2>1, <2>4
    <3>3. QED
      BY <2>2, <2>4, <3>1, <3>2, NoSize, IntLimitFacts, BytesStep
  <2>5. QED
    BY <1>2, <2>3, <2>4
<1>5. QED
  BY <1>3, <1>4

-----------------------------------------------------------------------------

LEMMA InitEstablishes == Init => IInv
<1> SUFFICES ASSUME Init
             PROVE  IInv
  OBVIOUS
<1>1. TypeOK
  <2>1. wire.length \in Nat
    BY WireFacts DEF Init
  <2>2. handed \in Seq([tag : Nat, from : Nat, to : Nat])
    BY DEF Init
  <2>3. sent \in 0 .. wire.length /\ received \in 0 .. sent /\ consumed \in 0 .. received
    BY <2>1 DEF Init
  <2>4. m_nSizePacketSoFar \in Nat /\ m_nMessageTag \in Nat /\ m_nMessageSize \in Uint32
    BY NoSize DEF Init
  <2>5. QED
    BY <2>2, <2>3, <2>4, Zenon DEF Init, TypeOK, ProcessingState
<1>2. FramesIntact
  BY WireFacts DEF Init, FramesIntact
<1>3. Aligned
  BY DEF Init, Aligned, AtVersion
<1>4. QED
  BY <1>1, <1>2, <1>3 DEF Init, IInv

(* One iteration of the loop that reads what it asked for.                 *)
LEMMA ReadStep ==
  ASSUME IInv, ReadAndProcess
  PROVE  IInv' /\ [Delivery!Next]_(Delivery!vars)
<1> DEFINE to == received + Missing
<1> DEFINE w == wire
<1>1. /\ wire \in Wires /\ TypeOK /\ FramesIntact /\ Aligned
      /\ status = "listening" /\ UNCHANGED network
      /\ Missing > 0 /\ to <= sent /\ ProcessData(to)
  BY DEF IInv, ReadAndProcess
<1>2. /\ w.count \in Nat /\ w.length \in Nat
      /\ w.start[1] = 1
      /\ w.start[w.count + 1] = w.length
      /\ sent <= w.length
  BY <1>1, WireFacts DEF TypeOK
<1>3. to = consumed + CalculateMinBytesNeeded
  <2>1. CalculateMinBytesNeeded \in Int
    BY <1>1, IntLimitFacts DEF TypeOK, CalculateMinBytesNeeded, ProcessingState,
         kVersionPacketLen, kTagPacketLen, kSizePacketLenMin
  <2>2. received \in Nat /\ consumed \in Nat
    BY <1>1, <1>2 DEF TypeOK
  <2>3. QED
    BY <2>1, <2>2 DEF Missing
<1>4. CASE m_nState = "MCS_VERSION_TAG_AND_SIZE" /\ GotVersion(to)
  <2>1. consumed = 0 /\ to = 3 /\ handed = <<>> /\ Current = 1
    BY <1>1, <1>3, <1>4 DEF Aligned, AtVersion, Current, CalculateMinBytesNeeded,
         kVersionPacketLen, kTagPacketLen, kSizePacketLenMin
  <2>2. 1 <= w.count
    BY <1>1, <1>2, <2>1 DEF TypeOK
  <2>3. CASE GotMessageTag(1, to)
    <3>1. GotMessageSize(w.bytes[2], 2, to)
      BY <2>3 DEF GotMessageTag
    <3>2. w.digits[1] \in Nat \ {0} /\ SizeField(w, 1) = 2
      BY <1>1, <1>2, <2>2, FrameFacts DEF SizeField
    <3>3. QED
      BY <1>1, <1>2, <2>1, <2>2, <3>1, <3>2, SizeStep DEF Delivery!Next
  <2>4. CASE /\ status' = "threw"
             /\ consumed' = consumed + 1
             /\ received' = to
             /\ UNCHANGED <<parser, handed>>
    <3>1. IInv'
      BY <1>1, <2>1, <2>4 DEF IInv, TypeOK, FramesIntact, network, parser, ProcessingState
    <3>2. Delivery!GiveUp
      BY <1>1, <2>1, <2>4 DEF Delivery!GiveUp, network
    <3>3. QED
      BY <3>1, <3>2 DEF Delivery!Next
  <2>5. QED
    BY <1>4, <2>1, <2>3, <2>4 DEF GotVersion
<1>5. CASE m_nState = "MCS_TAG_AND_SIZE" /\ GotMessageTag(consumed, to)
  <2>1. consumed = w.start[Current] /\ to = consumed + 2
    BY <1>1, <1>3, <1>5 DEF Aligned, AtTag, CalculateMinBytesNeeded, kTagPacketLen, kSizePacketLenMin
  <2>2. Current <= w.count
    <3>1. Current # w.count + 1
      BY <1>1, <1>2, <2>1 DEF TypeOK
    <3>2. Len(handed) \in Nat /\ Len(handed) <= w.count
      BY <1>1 DEF FramesIntact, TypeOK
    <3>3. QED
      BY <1>2, <3>1, <3>2 DEF Current
  <2>3. GotMessageSize(w.bytes[consumed + 1], consumed + 1, to)
    BY <1>5 DEF GotMessageTag
  <2>4. Current \in 1 .. w.count
    BY <1>1, <1>2, <2>2 DEF Current, TypeOK
  <2>5. w.digits[Current] \in Nat \ {0} /\ consumed + 1 = SizeField(w, Current)
    BY <1>1, <2>1, <2>4, FrameFacts DEF SizeField
  <2>6. /\ consumed + 1 \in Nat /\ to \in Nat /\ consumed + 1 < to
        /\ to = (consumed + 1) + 1
        /\ to <= (consumed + 1) + w.digits[Current] + 1
    <3>1. consumed \in Nat
      BY <1>1, <1>2 DEF TypeOK
    <3> HIDE DEF to, w
    <3>2. QED
      BY <2>1, <2>5, <3>1
  <2>7. w.bytes[consumed + 1] = w.bytes[w.start[Current] + 1]
    BY <2>1
  <2>8. QED
    BY <1>1, <2>2, <2>3, <2>5, <2>6, <2>7, SizeStep DEF Delivery!Next
<1>6. CASE m_nState = "MCS_SIZE" /\ GotMessageSize(m_nMessageTag, consumed, to)
  <2>1. AtSize /\ to = consumed + m_nSizePacketSoFar + 1
    BY <1>1, <1>3, <1>6 DEF Aligned, CalculateMinBytesNeeded, TypeOK
  <2>2. Current \in 1 .. w.count
    BY <1>1, <1>2, <2>1 DEF Current, TypeOK, AtSize
  <2>3. w.digits[Current] \in Nat \ {0}
    BY <1>1, <2>2, FrameFacts
  <2>4. to \in Nat /\ consumed \in Nat /\ consumed < to
    BY <1>1, <2>1 DEF TypeOK
  <2>5. to <= consumed + w.digits[Current] + 1 /\ w.digits[Current] # 1
    BY <1>1, <2>1, <2>3 DEF AtSize, TypeOK
  <2>6. /\ Current <= w.count
        /\ consumed = SizeField(w, Current)
        /\ m_nMessageTag = w.bytes[w.start[Current] + 1]
    BY <2>1 DEF AtSize
  <2>7. QED
    BY <1>1, <1>6, <2>4, <2>5, <2>6, SizeStep DEF Delivery!Next
<1>7. CASE /\ m_nState = "MCS_PROTO_BYTES"
           /\ GotMessageBytes(m_nMessageTag, m_nMessageSize, consumed, to)
           /\ UNCHANGED m_nSizePacketSoFar
  <2>1. AtBody /\ to = consumed + AsInt(m_nMessageSize) /\ Missing = AsInt(m_nMessageSize) - (received - consumed)
    BY <1>1, <1>3, <1>7 DEF Aligned, CalculateMinBytesNeeded, Missing
  <2>2. AtBody /\ to = consumed + m_nMessageSize /\ m_nMessageSize < IntLimit
    <3>1. m_nMessageSize \in Uint32 /\ received \in Nat /\ consumed \in Nat /\ consumed <= received
      BY <1>1, <1>2 DEF TypeOK
    <3>2. AsInt(m_nMessageSize) >= 0
      BY <1>1, <2>1, <3>1, IntLimitFacts
    <3> QED BY <2>1, <3>1, <3>2, IntLimitFacts
  <2>3. Current \in 1 .. w.count
    BY <1>1, <1>2, <2>2 DEF Current, TypeOK, AtBody
  <2>4. to = w.start[Current + 1]
    BY <1>1, <2>2, <2>3, FrameFacts DEF AtBody, Body, SizeField
  <2>5. to \in Nat
    BY <1>1, <1>2, <2>2, IntLimitFacts DEF TypeOK
  <2>6. QED
    BY <1>1, <1>7, <2>2, <2>4, <2>5, BytesStep DEF AtBody, TypeOK, Delivery!Next
<1>8. QED
  BY <1>1, <1>4, <1>5, <1>6, <1>7 DEF ProcessData

(* Every step keeps the invariant, and is a step of the abstract delivery  *)
(* or invisible to it.                                                     *)
LEMMA StepKeeps ==
  ASSUME IInv, [Next]_vars
  PROVE  IInv' /\ [Delivery!Next]_(Delivery!vars)
<1>1. wire \in Wires /\ TypeOK /\ FramesIntact /\ (status = "listening" => Aligned)
  BY DEF IInv
<1>2. wire.length \in Nat
  BY <1>1, WireFacts
<1>3. CASE ReadAndProcess
  BY <1>3, ReadStep
<1>4. CASE ReadShort
  <2>1. /\ status = "listening" /\ sent < received + Missing
        /\ received' = sent
        /\ UNCHANGED <<network, parser, consumed, handed, status>>
    BY <1>4 DEF ReadShort
  <2>2. TypeOK'
    BY <1>1, <1>2, <2>1 DEF TypeOK, network, parser
  <2>3. FramesIntact'
    BY <1>1, <2>1 DEF FramesIntact, network
  <2>4. received \in Nat /\ consumed \in Nat /\ sent \in Nat
    BY <1>1, <1>2 DEF TypeOK
  <2>5. received' >= received
    BY <1>1, <1>2, <2>1 DEF TypeOK
  <2>6. m_nState = "MCS_VERSION_TAG_AND_SIZE" => AtVersion'
    BY <1>1, <2>1, <2>4 DEF Aligned, AtVersion, Missing, CalculateMinBytesNeeded,
         kVersionPacketLen, kTagPacketLen, kSizePacketLenMin, parser
  <2>7. m_nState = "MCS_TAG_AND_SIZE" => AtTag'
    BY <1>1, <2>1, <2>4 DEF Aligned, AtTag, Missing, CalculateMinBytesNeeded,
         kTagPacketLen, kSizePacketLenMin, parser, network, Current
  <2>8. ASSUME m_nState = "MCS_SIZE" PROVE AtSize'
    <3>1. AtSize /\ Missing = (m_nSizePacketSoFar + 1) - (received - consumed)
      BY <1>1, <2>1, <2>8 DEF Aligned, Missing, CalculateMinBytesNeeded
    <3>2. m_nSizePacketSoFar \in Nat
      BY <1>1 DEF TypeOK
    <3>3. received' + 1 \in consumed + m_nSizePacketSoFar .. consumed + m_nSizePacketSoFar + 1
      BY <2>1, <2>4, <2>5, <3>1, <3>2 DEF AtSize
    <3>4. QED
      BY <2>1, <3>1, <3>3 DEF AtSize, parser, network, Current, SizeField
  <2>9. ASSUME m_nState = "MCS_PROTO_BYTES" PROVE AtBody'
    <3>1. AtBody /\ Missing = AsInt(m_nMessageSize) - (received - consumed) /\ Missing > 0
      BY <1>1, <1>4, <2>1, <2>9 DEF Aligned, Missing, CalculateMinBytesNeeded, ReadShort
    <3>2. m_nMessageSize \in Nat /\ m_nMessageSize \in Uint32 /\ consumed <= received
      BY <1>1, IntLimitFacts DEF TypeOK
    <3>3. Missing = m_nMessageSize - (received - consumed)
      <4>1. AsInt(m_nMessageSize) >= 0
        BY <2>4, <3>1, <3>2, IntLimitFacts
      <4> QED BY <3>1, <3>2, <4>1, IntLimitFacts
    <3>4. received' - consumed < m_nMessageSize
      BY <2>1, <2>4, <3>2, <3>3
    <3>5. QED
      BY <2>1, <3>1, <3>4 DEF AtBody, parser, network, Current, Body, SizeField
  <2>10. QED
    BY <1>1, <2>1, <2>2, <2>3, <2>6, <2>7, <2>8, <2>9
       DEF IInv, Aligned, parser, network, Delivery!vars
<1>5. CASE ServerSends \/ ConnectionCloses
  <2>1. /\ UNCHANGED <<wire, parser, consumed, received, handed, status>>
        /\ sent' \in 0 .. wire.length /\ received <= sent' /\ closed' \in BOOLEAN
    <3>1. sent \in 0 .. wire.length /\ received \in 0 .. sent /\ closed \in BOOLEAN
      BY <1>1 DEF TypeOK
    <3>2. CASE ServerSends
      BY <1>2, <3>1, <3>2 DEF ServerSends
    <3>3. CASE ConnectionCloses
      BY <1>2, <3>1, <3>3 DEF ConnectionCloses
    <3>4. QED
      BY <1>5, <3>2, <3>3
  <2>2. IInv'
    BY <1>1, <1>2, <2>1 DEF IInv, TypeOK, FramesIntact, Aligned, AtVersion, AtTag, AtSize, AtBody,
         Current, SizeField, Body, parser
  <2>3. Delivery!NetworkChanges
    BY <2>1 DEF Delivery!NetworkChanges
  <2>4. QED
    BY <2>2, <2>3 DEF Delivery!Next
<1>6. CASE UNCHANGED vars
  <2>1. IInv'
    BY <1>1, <1>6 DEF IInv, TypeOK, FramesIntact, Aligned, AtVersion, AtTag, AtSize, AtBody,
         Current, SizeField, Body, vars, network, parser
  <2>2. QED
    BY <1>6, <2>1 DEF Delivery!vars, vars, network
<1>7. CASE BufferThrows
  <2>1. /\ status = "listening" /\ TooLong /\ status' = "threw"
        /\ UNCHANGED <<network, parser, consumed, received, handed>>
    BY <1>7 DEF BufferThrows
  <2>2. IInv'
    BY <1>1, <2>1 DEF IInv, TypeOK, FramesIntact, network, parser
  <2>3. m_nState = "MCS_PROTO_BYTES" /\ AsInt(m_nMessageSize) < 0
    BY <1>1, <2>1 DEF TooLong, CalculateMinBytesNeeded, TypeOK, ProcessingState,
         kVersionPacketLen, kTagPacketLen, kSizePacketLenMin
  <2>4. AtBody /\ m_nMessageSize >= IntLimit
    BY <1>1, <2>1, <2>3, IntLimitFacts DEF Aligned, TypeOK
  <2>5. Body(wire, Current) <= sent
    BY <1>1, <1>2, <2>4 DEF AtBody, TypeOK
  <2>6. Delivery!GiveUp
    BY <2>1, <2>4, <2>5 DEF Delivery!GiveUp, Delivery!Body, Delivery!SizeField, Delivery!IntLimit,
         IntLimit, AtBody, Body, SizeField, Current, network
  <2> QED
    BY <2>2, <2>6 DEF Delivery!Next
<1>8. QED
  BY <1>3, <1>4, <1>5, <1>6, <1>7 DEF Next, Ended

-----------------------------------------------------------------------------

LEMMA Inductive == Spec => []IInv
<1>1. IInv /\ [Next]_vars => IInv'
  BY StepKeeps
<1>2. QED
  BY InitEstablishes, <1>1, PTL DEF Spec

(* The state machine's variables keep their types, on every wire.          *)
THEOREM TypeCorrect == Spec => []TypeOK
<1>1. IInv => TypeOK
  BY DEF IInv
<1>2. QED
  BY Inductive, <1>1, PTL

(* Every handler call gets exactly the next frame of the wire.             *)
THEOREM HandlersGetFrames == Spec => []FramesIntact
<1>1. IInv => FramesIntact
  BY DEF IInv
<1>2. QED
  BY Inductive, <1>1, PTL

(* StartReceiver's loop never finds its buffer already full enough, which  *)
(* would leave it neither reading nor processing, nor throwing because of  *)
(* a size that no int can hold.                                            *)
THEOREM LoopNeverSpins == Spec => []NeverSpins
<1>1. ASSUME IInv PROVE NeverSpins
  <2>1. SUFFICES ASSUME status = "listening" PROVE TooLong \/ Missing > 0
    BY DEF NeverSpins
  <2>2. Aligned /\ TypeOK /\ received \in Nat /\ consumed \in Nat
    BY <1>1, <2>1, WireFacts DEF IInv, TypeOK
  <2>3. CASE m_nState = "MCS_VERSION_TAG_AND_SIZE"
    BY <2>2, <2>3 DEF Aligned, AtVersion, Missing, CalculateMinBytesNeeded,
         kVersionPacketLen, kTagPacketLen, kSizePacketLenMin
  <2>4. CASE m_nState = "MCS_TAG_AND_SIZE"
    BY <2>2, <2>4 DEF Aligned, AtTag, Missing, CalculateMinBytesNeeded,
         kTagPacketLen, kSizePacketLenMin
  <2>5. CASE m_nState = "MCS_SIZE"
    BY <2>2, <2>5 DEF Aligned, AtSize, TypeOK, Missing, CalculateMinBytesNeeded
  <2>6. CASE m_nState = "MCS_PROTO_BYTES"
    <3>1. CalculateMinBytesNeeded = AsInt(m_nMessageSize) /\ m_nMessageSize \in Uint32
      BY <2>2, <2>6 DEF TypeOK, CalculateMinBytesNeeded
    <3>2. CASE m_nMessageSize >= IntLimit
      BY <3>1, <3>2, IntLimitFacts DEF TooLong
    <3>3. CASE m_nMessageSize < IntLimit
      BY <2>2, <2>6, <3>1, <3>3, IntLimitFacts DEF Aligned, AtBody, Missing
    <3> QED
      BY <3>1, <3>2, <3>3, IntLimitFacts
  <2>7. QED
    BY <2>2, <2>3, <2>4, <2>5, <2>6 DEF TypeOK, ProcessingState
<1>2. QED
  BY Inductive, <1>1, PTL

(* No Receive call waits for a byte beyond the frame being read, so the    *)
(* buffer holds none either.                                               *)
THEOREM ReadsStayInFrame == Spec => []NeverWaitsForNextFrame
<1>1. ASSUME IInv PROVE NeverWaitsForNextFrame
  <2>1. SUFFICES ASSUME status = "listening", Len(handed) < wire.count
                 PROVE  received + Missing <= wire.start[Len(handed) + 2]
    BY DEF NeverWaitsForNextFrame
  <2>2. /\ wire \in Wires /\ Aligned /\ TypeOK
        /\ received \in Nat /\ consumed \in Nat
        /\ wire.count \in Nat /\ wire.start[1] = 1
    BY <1>1, <2>1, WireFacts DEF IInv, TypeOK
  <2>3. Current \in 1 .. wire.count /\ Current + 1 = Len(handed) + 2
    BY <2>1, <2>2 DEF Current, TypeOK
  <2>4. /\ wire.start[Current] \in Nat
        /\ wire.digits[Current] \in Nat \ {0}
        /\ wire.size[Current] \in Nat
        /\ wire.start[Current + 1] = wire.start[Current] + 1 + wire.digits[Current] + wire.size[Current]
        /\ wire.digits[Current] > 1 => wire.size[Current] >= 2
    BY <2>2, <2>3, FrameFacts
  <2>5. SUFFICES received + Missing <= wire.start[Current + 1]
    BY <2>3
  <2>6. CASE m_nState = "MCS_VERSION_TAG_AND_SIZE"
    <3>1. consumed = 0 /\ received < 3 /\ Current = 1 /\ received + Missing = 3
      BY <2>2, <2>6 DEF Aligned, AtVersion, Current, Missing, CalculateMinBytesNeeded,
           kVersionPacketLen, kTagPacketLen, kSizePacketLenMin
    <3>2. QED
      BY <2>2, <2>4, <3>1
  <2>7. CASE m_nState = "MCS_TAG_AND_SIZE"
    <3>1. AtTag /\ received + Missing = consumed + 2
      BY <2>2, <2>7 DEF Aligned, Missing, CalculateMinBytesNeeded, kTagPacketLen, kSizePacketLenMin
    <3>2. QED
      BY <2>2, <2>4, <3>1 DEF AtTag
  <2>8. CASE m_nState = "MCS_SIZE"
    <3>1. AtSize /\ received + Missing = consumed + m_nSizePacketSoFar + 1
      BY <2>2, <2>8 DEF Aligned, Missing, CalculateMinBytesNeeded, TypeOK
    <3>2. QED
      BY <2>2, <2>4, <3>1 DEF AtSize, SizeField
  <2>9. CASE m_nState = "MCS_PROTO_BYTES"
    <3>1. AtBody /\ received + Missing = consumed + AsInt(m_nMessageSize)
      BY <2>2, <2>9, IntLimitFacts DEF Aligned, Missing, CalculateMinBytesNeeded, TypeOK
    <3>2. AsInt(m_nMessageSize) <= m_nMessageSize
      BY <2>2, IntLimitFacts DEF TypeOK
    <3>3. QED
      BY <2>2, <2>4, <3>1, <3>2, IntLimitFacts DEF AtBody, Body, SizeField, TypeOK
  <2>10. m_nState \in ProcessingState
    BY <2>2 DEF TypeOK
  <2>11. QED
    BY <2>6, <2>7, <2>8, <2>9, <2>10 DEF ProcessingState
<1>2. QED
  BY Inductive, <1>1, PTL

(* The receiver implements the abstract frame delivery.                    *)
THEOREM ReceiverImplementsDelivery == Spec => ImplementsDelivery
<1>1. Init => Delivery!Init
  BY DEF Init, Delivery!Init, Wires, Delivery!Wires, WireOf, Delivery!WireOf, FrameBytes,
         Delivery!FrameBytes, EncodeVarint32, Delivery!EncodeVarint32, Uint32, Delivery!Uint32
<1>2. IInv /\ [Next]_vars => [Delivery!Next]_(Delivery!vars)
  BY StepKeeps
<1>3. QED
  BY Inductive, <1>1, <1>2, PTL DEF Spec, ImplementsDelivery, Delivery!Spec
=============================================================================

-------------------------- MODULE EceRecords_proofs -------------------------
(***************************************************************************)
(* That encryption fills its buffer exactly, and that decryption stays     *)
(* inside the client's; that a push message is shown whole or not at all,  *)
(* and is shown if it arrives as it was sent.  For records, tags and       *)
(* messages of any length.                                                 *)
(*                                                                         *)
(* For the last two, what has to be known of the text is where the sender  *)
(* cut it.  The cuts are a function that the invariant says exists: each   *)
(* step adds one, so that nothing is defined by recursion, or proved by    *)
(* induction, over the blocks.                                             *)
(***************************************************************************)
EXTENDS EceRecords, TLAPS

(* How many records len bytes are cut into.                                *)
Records(len) == len \div rsIn + (IF len % rsIn # 0 THEN 1 ELSE 0)

(* A number of bytes that does not end inside a tag.                       *)
Tagged(len) == len % rsIn \notin 1 .. ECE_TAG_LENGTH - 1

(* Every record that was decrypted left at least its tag behind.           *)
TagsLeft ==
  Len(plaintext) + ECE_TAG_LENGTH * (Records(Len(ciphertext)) - Records(Len(ciphertext) - ciphertextStart))
    <= ciphertextStart

NotStarted == written = 0 /\ ciphertextStart = 0 /\ plaintext = <<>>

(* Types, and what they rest on: the sender's blocks hold something once   *)
(* it encrypts, and the client has not begun before the message is there.  *)
TInv ==
  /\ TypeOK
  /\ stage = "encrypt" => rsOut > Overhead
  /\ stage \notin {"decrypt", "done"} => NotStarted

(* The inductive invariant.                                                *)
FInv ==
  /\ TInv
  /\ stage = "decrypt" =>
       /\ capacity > 0
       /\ ciphertextStart < Len(ciphertext)
       /\ EndsWithATag => Tagged(Len(ciphertext) - ciphertextStart) /\ TagsLeft
  /\ FitsIfTagged
-----------------------------------------------------------------------------
(* Arithmetic.                                                             *)

(* Times distributes.                                                      *)
LEMMA Distributes ==
  \A a, b, c \in Int : a * (b + c) = a * b + a * c /\ a * (b - c) = a * b - a * c
OBVIOUS

(* A product of natural numbers grows with its factors.                    *)
LEMMA Grows == \A a, b, c \in Nat : a <= b => a * c <= b * c
OBVIOUS

(* Division with remainder.                                                *)
LEMMA Division ==
  ASSUME NEW n \in Nat, NEW r \in Nat \ {0}
  PROVE  /\ n \div r \in Nat /\ n % r \in 0 .. r - 1
         /\ n = r * (n \div r) + (n % r)
OBVIOUS

(* The quotient and the remainder are unique.                              *)
LEMMA Unique ==
  ASSUME NEW r \in Nat \ {0}, NEW p \in Nat, NEW q \in Nat,
         NEW x \in 0 .. r - 1, NEW y \in 0 .. r - 1, r * p + x = r * q + y
  PROVE  p = q /\ x = y
<1>1. ASSUME p > q PROVE FALSE
  <2>1. r * (p - q) = r * p - r * q
    BY Distributes
  <2>2. r * 1 <= r * (p - q)
    BY <1>1, Grows
  <2> QED BY <2>1, <2>2
<1>2. ASSUME q > p PROVE FALSE
  <2>1. r * (q - p) = r * q - r * p
    BY Distributes
  <2>2. r * 1 <= r * (q - p)
    BY <1>2, Grows
  <2> QED BY <2>1, <2>2
<1> QED BY <1>1, <1>2

(* A multiple leaves no remainder.                                         *)
LEMMA Multiple ==
  ASSUME NEW r \in Nat \ {0}, NEW k \in Nat
  PROVE  (r * k) % r = 0
<1> DEFINE n == r * k
<1>1. n \in Nat /\ n = r * k + 0 /\ 0 \in 0 .. r - 1
  OBVIOUS
<1>2. n \div r \in Nat /\ n % r \in 0 .. r - 1 /\ n = r * (n \div r) + (n % r)
  BY <1>1, Division
<1> HIDE DEF n
<1>3. n % r = 0
  BY <1>1, <1>2, Unique
<1> QED BY <1>3 DEF n

(* A record less.                                                          *)
LEMMA OneRecordLess ==
  ASSUME NEW n \in Nat, NEW r \in Nat \ {0}, n >= r
  PROVE  (n - r) \div r = n \div r - 1 /\ (n - r) % r = n % r
<1> DEFINE q == n \div r
<1>1. q \in Nat /\ n % r \in 0 .. r - 1 /\ n = r * q + (n % r)
  BY Division
<1>2. n - r \in Nat
  OBVIOUS
<1>3. (n - r) \div r \in Nat /\ (n - r) % r \in 0 .. r - 1 /\ n - r = r * ((n - r) \div r) + ((n - r) % r)
  BY <1>2, Division
<1>4. q >= 1
  BY <1>1
<1>5. r * (q - 1) = r * q - r * 1
  BY <1>1, Distributes
<1>6. r * (q - 1) + (n % r) = r * ((n - r) \div r) + ((n - r) % r)
  BY <1>1, <1>3, <1>5
<1>7. q - 1 \in Nat
  BY <1>1, <1>4
<1> HIDE DEF q
<1>8. q - 1 = (n - r) \div r /\ n % r = (n - r) % r
  BY <1>1, <1>3, <1>6, <1>7, Unique
<1> QED BY <1>8 DEF q
(* A block of len bytes put behind k full records, of M bytes and the      *)
(* overhead O, when left bytes are to be encrypted: its record, which ends *)
(* at end, is whole, and fills the buffer if it is the last.               *)
RecordFits(M, O, k, left, len, max, have, end) ==
  /\ len = left /\ end % (M + O) # 0 => end = max /\ end - have = len + O
  /\ len >= M => /\ end - have = len + O
                 /\ end = (M + O) * (k + 1)
                 /\ max - end = left - M + O * ((left - M) \div M + 1)

(* It is if the buffer is long enough for the records to come.             *)
LEMMA OneRecordMore ==
  ASSUME NEW M \in Nat \ {0}, NEW O \in Nat \ {0}, NEW k \in Nat, NEW left \in Nat,
         NEW len \in Nat, len <= M, len <= left,
         NEW max \in Nat, NEW have, have = (M + O) * k,
         max - have = left + O * (left \div M + 1),
         NEW end, end = IF len + O >= max - have THEN max ELSE have + (len + O)
  PROVE  RecordFits(M, O, k, left, len, max, have, end)
<1> DEFINE q == left \div M
<1> PICK rs \in Nat : rs = M + O
  OBVIOUS
<1>1. q \in Nat /\ left % M \in 0 .. M - 1 /\ left = M * q + (left % M)
  BY Division
<1>2. O * (q + 1) = O * q + O /\ O * q \in Nat /\ rs \in Nat \ {0} /\ have \in Nat
  <2>1. O * (q + 1) = O * q + O * 1
    BY <1>1, Distributes
  <2> HIDE DEF q
  <2> QED BY <1>1, <2>1
<1>3. ASSUME left < M PROVE q = 0
  <2>1. left = M * 0 + left /\ left \in 0 .. M - 1
    BY <1>3
  <2> HIDE DEF q
  <2> QED BY <1>1, <2>1, Unique
<1>4. ASSUME left >= M PROVE q >= 1 /\ O * q >= O
  <2>1. q >= 1
    BY <1>1, <1>4
  <2>2. 1 * O <= q * O
    BY <1>1, <2>1, Grows
  <2> HIDE DEF q
  <2> QED BY <1>1, <2>1, <2>2
<1>5. max - have = left + O * q + O
  <2> HIDE DEF q
  <2>1. max - have = left + O * (q + 1)
    BY DEF q
  <2> QED BY <1>1, <1>2, <2>1
<1>6. ASSUME len >= M
      PROVE  /\ end - have = len + O
             /\ end = rs * (k + 1)
             /\ max - end = left - M + O * ((left - M) \div M + 1)
  <2>1. left >= M /\ len = M
    BY <1>6
  <2>2. O * q >= O
    BY <1>4, <2>1
  <2>3. end = have + (M + O)
    <3> HIDE DEF q
    <3> QED BY <1>2, <1>5, <2>1, <2>2
  <2>4. rs * (k + 1) = rs * k + rs * 1
    BY <1>2, Distributes
  <2>5. (left - M) \div M = q - 1
    BY <2>1, OneRecordLess
  <2>6. O * ((left - M) \div M + 1) = O * q
    <3>1. (left - M) \div M + 1 = q
      <4> HIDE DEF q
      <4> QED BY <1>1, <2>5
    <3> QED BY <3>1
  <2> HIDE DEF q
  <2> QED BY <1>2, <1>5, <2>1, <2>3, <2>4, <2>6
<1>7. ASSUME len = left, end % rs # 0
      PROVE  end = max /\ end - have = len + O
  <2>1. CASE len < M
    <3>1. q = 0
      BY <1>3, <1>7, <2>1
    <3>2. O * q = 0
      BY <3>1
    <3> HIDE DEF q
    <3> QED BY <1>2, <1>5, <1>7, <3>2
  <2>2. CASE len = M
    <3>1. end = rs * (k + 1) /\ k + 1 \in Nat
      BY <1>6, <2>2
    <3>2. end % rs = 0
      BY <1>2, <3>1, Multiple
    <3> QED BY <1>7, <3>2
  <2> QED BY <2>1, <2>2
<1> QED BY <1>6, <1>7 DEF RecordFits

(* The client's record size and the overhead.                              *)
LEMMA Sizes ==
  /\ ECE_TAG_LENGTH \in Nat \ {0} /\ ECE_AESGCM_PAD_SIZE \in Nat \ {0}
  /\ UINT16_MAX \in Nat /\ UINT32_MAX \in Nat /\ MaxText \in Nat /\ MaxPadding \in Nat
  /\ Overhead \in Nat
  /\ \A rs \in RecordSizes \cup {RS_LENGTH} : ece_aesgcm_rs(rs) \in Nat
  /\ rsIn \in Nat
<1>1. /\ ECE_TAG_LENGTH \in Nat \ {0} /\ ECE_AESGCM_PAD_SIZE \in Nat \ {0}
      /\ UINT16_MAX \in Nat /\ UINT32_MAX \in Nat /\ MaxText \in Nat /\ MaxPadding \in Nat
  BY EceAssumption
<1>2. \A rs \in RecordSizes \cup {RS_LENGTH} : rs \in 1 .. UINT32_MAX
  BY EceAssumption
<1> QED BY <1>1, <1>2 DEF rsIn, ece_aesgcm_rs, Overhead

(* A number of records is a natural number.                                *)
LEMMA RecordsNat ==
  ASSUME rsIn > 0, NEW n \in Nat
  PROVE  Records(n) \in Nat
<1>1. n \div rsIn \in Nat
  BY Sizes, Division
<1> QED BY <1>1 DEF Records

(* Each record that does not end inside a tag has room for one.            *)
LEMMA TagsFit ==
  ASSUME rsIn >= Overhead, NEW n \in Nat, Tagged(n)
  PROVE  ECE_TAG_LENGTH * Records(n) <= n
<1> DEFINE q == n \div rsIn
<1>0. rsIn \in Nat \ {0} /\ ECE_TAG_LENGTH \in Nat \ {0} /\ ECE_TAG_LENGTH <= rsIn
  BY EceAssumption DEF rsIn, ece_aesgcm_rs, Overhead
<1>1. q \in Nat /\ n % rsIn \in 0 .. rsIn - 1 /\ n = rsIn * q + (n % rsIn)
  BY <1>0, Division
<1>2. ECE_TAG_LENGTH * q <= rsIn * q
  BY <1>0, <1>1, Grows
<1>3. ECE_TAG_LENGTH * (q + 1) = ECE_TAG_LENGTH * q + ECE_TAG_LENGTH * 1
  BY <1>0, <1>1, Distributes
<1>4. n % rsIn # 0 => n % rsIn >= ECE_TAG_LENGTH
  BY <1>0, <1>1 DEF Tagged
<1>5. Records(n) = IF n % rsIn # 0 THEN q + 1 ELSE q
  BY <1>1 DEF Records
<1> HIDE DEF q
<1> QED BY <1>0, <1>1, <1>2, <1>3, <1>4, <1>5

(* The length the client is told to allocate.                              *)
LEMMA Capacity ==
  ASSUME ciphertext \in Seq(Nat \X Nat)
  PROVE  /\ capacity \in Nat
         /\ capacity > 0 =>
              /\ rsIn > Overhead
              /\ capacity = Len(ciphertext) - ECE_TAG_LENGTH * Records(Len(ciphertext))
<1> DEFINE n == Len(ciphertext)
           q == n \div ECE_TAG_LENGTH
<1>1. n \in Nat
  OBVIOUS
<1>2. rsIn \in Nat
  BY Sizes
<1>3. CASE rsIn = 0
  BY <1>3 DEF capacity, ece_aesgcm_plaintext_max_length, rsIn
<1>4. CASE rsIn > 0
  <2>1. capacity = IF rsIn <= Overhead \/ Records(n) > q THEN 0 ELSE n - ECE_TAG_LENGTH * Records(n)
    BY <1>4 DEF capacity, ece_aesgcm_plaintext_max_length, ece_plaintext_max_length, rsIn, Records
  <2>2. Records(n) \in Nat
    BY <1>1, <1>4, RecordsNat
  <2>3. q \in Nat /\ n = ECE_TAG_LENGTH * q + (n % ECE_TAG_LENGTH) /\ n % ECE_TAG_LENGTH >= 0
    <3>1. ECE_TAG_LENGTH \in Nat \ {0}
      BY Sizes
    <3>2. n \div ECE_TAG_LENGTH \in Nat /\ n % ECE_TAG_LENGTH \in 0 .. ECE_TAG_LENGTH - 1
          /\ n = ECE_TAG_LENGTH * (n \div ECE_TAG_LENGTH) + (n % ECE_TAG_LENGTH)
      BY <1>1, <3>1, Division
    <3>3. n % ECE_TAG_LENGTH >= 0
      BY <3>1, <3>2
    <3> QED BY <3>2, <3>3
  <2>4. ASSUME Records(n) <= q PROVE ECE_TAG_LENGTH * Records(n) <= n
    <3>1. Records(n) * ECE_TAG_LENGTH <= q * ECE_TAG_LENGTH
      BY <2>2, <2>3, <2>4, Sizes, Grows
    <3>2. Records(n) * ECE_TAG_LENGTH = ECE_TAG_LENGTH * Records(n) /\ q * ECE_TAG_LENGTH = ECE_TAG_LENGTH * q
      BY <2>2, <2>3, Sizes
    <3>3. n % ECE_TAG_LENGTH \in Nat
      BY <1>1, Sizes, Division
    <3>4. {ECE_TAG_LENGTH * Records(n), ECE_TAG_LENGTH * q} \subseteq Nat
      BY <2>2, <2>3, Sizes
    <3> HIDE DEF n, q
    <3> QED BY <3>1, <3>2, <3>3, <3>4, <2>3, <1>1
  <2>5. Overhead \in Nat
    BY EceAssumption DEF Overhead
  <2>6. ECE_TAG_LENGTH * Records(n) \in Nat
    BY <2>2, EceAssumption
  <2> HIDE DEF n, q
  <2>7. QED BY <1>1, <1>2, <2>1, <2>2, <2>3, <2>4, <2>5, <2>6 DEF n
<1> QED BY <1>2, <1>3, <1>4

(* One round of the decryption loop: what it writes, and what it leaves.   *)
LEMMA OneRound ==
  ASSUME rsIn > Overhead,
         NEW n \in Nat, NEW start \in Nat, start < n, NEW have \in Nat,
         Tagged(n - start),
         have + ECE_TAG_LENGTH * (Records(n) - Records(n - start)) <= start,
         NEW end, end = IF rsIn > n - start THEN n ELSE start + rsIn
  PROVE  /\ have + (end - start) - ECE_TAG_LENGTH <= n - ECE_TAG_LENGTH * Records(n)
         /\ Tagged(n - end)
         /\ \A more \in Nat : more <= end - start - ECE_TAG_LENGTH =>
              have + more + ECE_TAG_LENGTH * (Records(n) - Records(n - end)) <= end
<1> DEFINE T == ECE_TAG_LENGTH
           left == n - start
<1>0. rsIn \in Nat \ {0} /\ T \in Nat \ {0} /\ T <= rsIn /\ left \in Nat \ {0}
  BY EceAssumption DEF rsIn, ece_aesgcm_rs, Overhead
<1>1. \A m \in Nat : Records(m) \in Nat
  BY <1>0, RecordsNat
<1>2. \A m \in Nat : T * (Records(n) - Records(m)) = T * Records(n) - T * Records(m)
  BY <1>0, <1>1, Distributes
<1>3. CASE rsIn > left
  <2>1. end = n /\ n - end = 0
    BY <1>3
  <2>2. 0 \div rsIn = 0 /\ 0 % rsIn = 0
    BY <1>0
  <2>3. Records(0) = 0 /\ Tagged(0)
    BY <1>0, <2>2 DEF Records, Tagged
  <2>4. Records(left) = 1
    <3>1. left \div rsIn = 0 /\ left % rsIn = left
      <4>1. left = rsIn * (left \div rsIn) + (left % rsIn) /\ left = rsIn * 0 + left
        BY <1>0, Division
      <4>2. left \div rsIn \in Nat /\ left % rsIn \in 0 .. rsIn - 1 /\ left \in 0 .. rsIn - 1
        BY <1>0, <1>3, Division
      <4> HIDE DEF left
      <4> QED BY <1>0, <4>1, <4>2, Unique
    <3> QED BY <3>1, <1>0 DEF Records
  <2>5. T * (Records(n) - Records(left)) = T * Records(n) - T /\ T * (Records(n) - Records(0)) = T * Records(n)
    BY <1>0, <1>1, <1>2, <2>3, <2>4
  <2>6. T * Records(n) \in Nat
    BY <1>0, <1>1
  <2> HIDE DEF T
  <2>7. have + T * Records(n) - T <= start
    BY <2>5, <2>6, <1>0 DEF T
  <2> QED BY <1>0, <2>1, <2>3, <2>5, <2>6, <2>7 DEF T
<1>4. CASE rsIn <= left
  <2>1. end = start + rsIn /\ n - end = left - rsIn /\ left - rsIn \in Nat
    BY <1>0, <1>4
  <2>2. Records(left) = Records(left - rsIn) + 1 /\ Tagged(left - rsIn)
    <3>1. (left - rsIn) \div rsIn = left \div rsIn - 1 /\ (left - rsIn) % rsIn = left % rsIn
      BY <1>0, <1>4, OneRecordLess
    <3>2. left \div rsIn \in Nat
      BY <1>0, Division
    <3>3. Tagged(left)
      OBVIOUS
    <3> HIDE DEF left
    <3> QED BY <3>1, <3>2, <3>3 DEF Records, Tagged
  <2>3. T * Records(left - rsIn) <= left - rsIn
    BY <1>0, <2>1, <2>2, TagsFit, EceAssumption DEF Overhead, rsIn, ece_aesgcm_rs
  <2>4. T * (Records(left - rsIn) + 1) = T * Records(left - rsIn) + T * 1
    BY <1>0, <1>1, <2>1, Distributes
  <2>5. {T * Records(n), T * Records(left - rsIn)} \subseteq Nat
    BY <1>0, <1>1, <2>1
  <2>6. have + T * Records(n) - (T * Records(left - rsIn) + T) <= start
    BY <1>0, <1>1, <1>2, <2>2, <2>4
  <2>7. T * (Records(n) - Records(n - end)) = T * Records(n) - T * Records(left - rsIn)
    BY <1>2, <2>1
  <2> HIDE DEF T, left
  <2>8. have + rsIn - T <= n - T * Records(n)
    BY <1>0, <2>3, <2>5, <2>6 DEF left
  <2>9. ASSUME NEW more \in Nat, more <= end - start - T
        PROVE  have + more + T * (Records(n) - Records(n - end)) <= end
    BY <1>0, <2>1, <2>5, <2>6, <2>7, <2>9
  <2> QED BY <1>0, <2>1, <2>2, <2>8, <2>9 DEF T
<1> QED BY <1>0, <1>3, <1>4
-----------------------------------------------------------------------------
(* Types.                                                                  *)

LEMMA AppendTyped ==
  ASSUME NEW S, NEW s \in Seq(S), NEW e \in S
  PROVE  Append(s, e) \in Seq(S)
OBVIOUS

LEMMA SubSeqTyped ==
  ASSUME NEW S, NEW s \in Seq(S), NEW i \in Nat, NEW j \in 0 .. Len(s)
  PROVE  SubSeq(s, i + 1, j) \in Seq(S)
OBVIOUS

LEMMA ElementTyped ==
  ASSUME NEW S, NEW s \in Seq(S), NEW i \in 1 .. Len(s)
  PROVE  s[i] \in S
OBVIOUS

LEMMA SubSeqLength ==
  ASSUME NEW S, NEW s \in Seq(S), NEW i \in Nat, NEW j \in i .. Len(s)
  PROVE  Len(SubSeq(s, i + 1, j)) = j - i
OBVIOUS

LEMMA ConcatLength ==
  ASSUME NEW S, NEW s \in Seq(S), NEW t \in Seq(S)
  PROVE  Len(s \o t) = Len(s) + Len(t)
OBVIOUS

LEMMA ConcatTyped ==
  ASSUME NEW S, NEW s \in Seq(S), NEW t \in Seq(S)
  PROVE  s \o t \in Seq(S)
OBVIOUS

LEMMA InitTyped == Init => TInv
<1>1. Init => {maxCiphertextLen, padLen, counter, written} \subseteq Nat /\ plaintextLen \in Nat
  BY Sizes DEF Init
<1> QED BY <1>1, Sizes DEF Init, TypeOK, TInv, NotStarted

LEMMA StartEncryptingTyped == TInv /\ StartEncrypting => TInv'
<1> SUFFICES ASSUME TInv, StartEncrypting PROVE TInv'
  OBVIOUS
<1>1. UNCHANGED <<senderRs, plaintextLen, sender, ciphertext, receiver>>
  BY DEF StartEncrypting
<1>2. \/ stage' = "done" /\ result' \in {"INVALID_RS", "ZERO_PLAINTEXT"} /\ UNCHANGED maxCiphertextLen
      \/ /\ maxCiphertextLen' = ece_ciphertext_max_length(rsOut, padLen, plaintextLen)
         /\ \/ maxCiphertextLen' = 0 /\ stage' = "done" /\ result' = "INVALID_RS"
            \/ maxCiphertextLen' > 0 /\ stage' = "encrypt" /\ UNCHANGED result
  BY DEF StartEncrypting, Ends
<1>3. rsOut \in Nat /\ rsOut' = rsOut
  BY <1>1, Sizes DEF TInv, TypeOK, rsOut
<1>4. padLen \in Nat /\ plaintextLen \in Nat
  BY Sizes DEF TInv, TypeOK
<1>5. ASSUME rsOut > Overhead
      PROVE  ece_ciphertext_max_length(rsOut, padLen, plaintextLen) \in Nat
  <2>1. (plaintextLen + padLen) \div (rsOut - Overhead) \in Nat
    BY <1>3, <1>4, <1>5, Sizes, Division
  <2> DEFINE q == (plaintextLen + padLen) \div (rsOut - Overhead)
             n == q + (IF plaintextLen % rsOut # 0 \/ ece_aesgcm_needs_trailer(rsOut, plaintextLen) THEN 1 ELSE 0)
  <2>2. n \in Nat
    BY <2>1
  <2>3. ece_ciphertext_max_length(rsOut, padLen, plaintextLen) = plaintextLen + padLen + Overhead * n
    BY <1>3, <1>5, Sizes DEF ece_ciphertext_max_length
  <2> HIDE DEF n
  <2> QED BY <1>4, <2>2, <2>3, Sizes
<1>6. ~ rsOut > Overhead => ece_ciphertext_max_length(rsOut, padLen, plaintextLen) = 0
  BY <1>3, Sizes DEF ece_ciphertext_max_length
<1>7. maxCiphertextLen' \in Nat /\ (stage' = "encrypt" => rsOut > Overhead)
  BY <1>2, <1>5, <1>6, <1>3, Sizes DEF TInv, TypeOK
<1>8. stage' \in {"done", "encrypt"}
      /\ result' \in {result, "INVALID_RS", "ZERO_PLAINTEXT"}
  BY <1>2
<1>9. NotStarted'
  BY <1>1 DEF TInv, NotStarted, StartEncrypting, receiver
<1> QED BY <1>1, <1>3, <1>7, <1>8, <1>9 DEF TInv, TypeOK, sender, receiver

(* Of a record that is encrypted: the padding, the text and the bytes.     *)
LEMMA EncryptTyped == TInv /\ EncryptRecord => TInv'
<1> SUFFICES ASSUME TInv, EncryptRecord PROVE TInv'
  OBVIOUS
<1> DEFINE blockPadLen == ece_aesgcm_min_block_pad_length(padLen)
           room        == maxBlockLen - blockPadLen
           textEnd     == IF room >= plaintextLen - textStart THEN plaintextLen ELSE textStart + room
           rest        == [i \in 1 .. blockPadLen |-> 0] \o SubSeq(Text, textStart + 1, textEnd)
           recordLen   == Len(rest) + Overhead
           end         == IF recordLen >= maxCiphertextLen - Len(buffer)
                          THEN maxCiphertextLen ELSE Len(buffer) + recordLen
<1>1. padLen' = padLen - blockPadLen
  BY DEF EncryptRecord
<1>2. \/ /\ stage' = "done" /\ result' = "ENCRYPT_PADDING"
         /\ UNCHANGED <<textStart, blocks, buffer>>
      \/ /\ textStart' = textEnd
         /\ blocks' = Append(blocks, [padLen |-> blockPadLen, rest |-> rest])
         /\ buffer' = buffer \o [i \in 1 .. end - Len(buffer) |-> <<Len(blocks) + 1, i>>]
         /\ stage' \in {"sent", "encrypt"}
         /\ UNCHANGED result
  BY DEF EncryptRecord, Ends, ece_aesgcm_encrypt_block
<1>3. UNCHANGED <<message, ciphertext, receiver>>
  BY DEF EncryptRecord
<1>4. stage = "encrypt" /\ TypeOK /\ rsOut > Overhead
  BY DEF EncryptRecord, TInv
<1>5. rsOut \in Nat /\ rsOut' = rsOut
  BY <1>3, <1>4, Sizes DEF TypeOK, rsOut, message
<1>6. padLen \in Nat /\ plaintextLen \in 0 .. MaxText /\ textStart \in 0 .. plaintextLen
      /\ maxCiphertextLen \in Nat /\ MaxText \in Nat
  BY <1>4, Sizes DEF TypeOK
<1>7. maxBlockLen \in Nat \ {0}
  BY <1>4, <1>5, Sizes DEF maxBlockLen
<1>8. blockPadLen \in Nat /\ blockPadLen <= padLen /\ blockPadLen <= maxBlockLen
  BY <1>6, <1>7, Sizes DEF ece_aesgcm_min_block_pad_length, Least
<1>9. textEnd \in textStart .. plaintextLen
  <2> HIDE DEF blockPadLen
  <2> QED BY <1>6, <1>7, <1>8
<1>10. rest \in Seq(0 .. MaxText)
  <2>1. Text \in Seq(0 .. MaxText) /\ Len(Text) = plaintextLen
    BY <1>6 DEF Text
  <2>2. [i \in 1 .. blockPadLen |-> 0] \in Seq(0 .. MaxText)
    <3> HIDE DEF blockPadLen
    <3> QED BY <1>6, <1>8
  <2>3. SubSeq(Text, textStart + 1, textEnd) \in Seq(0 .. MaxText)
    <3> HIDE DEF textEnd
    <3>1. textStart \in Nat /\ textEnd \in Nat /\ textEnd <= plaintextLen
      BY <1>6, <1>9
    <3> QED BY <2>1, <3>1, <1>6
  <2> HIDE DEF blockPadLen, textEnd
  <2> QED BY <2>2, <2>3
<1>11. end - Len(buffer) \in Int
  <2>1. Len(buffer) \in Nat
    BY <1>4 DEF TypeOK
  <2> HIDE DEF rest
  <2>2. recordLen \in Nat
    BY <1>10, Sizes
  <2> QED BY <1>6, <2>1, <2>2
<1> HIDE DEF blockPadLen, room, textEnd, rest, recordLen, end
<1>12. blocks' \in Seq([padLen : Nat, rest : Seq(0 .. MaxText)])
  <2>1. [padLen |-> blockPadLen, rest |-> rest] \in [padLen : Nat, rest : Seq(0 .. MaxText)]
    BY <1>8, <1>10
  <2>2. blocks \in Seq([padLen : Nat, rest : Seq(0 .. MaxText)])
    BY <1>4 DEF TypeOK
  <2>3. Append(blocks, [padLen |-> blockPadLen, rest |-> rest]) \in Seq([padLen : Nat, rest : Seq(0 .. MaxText)])
    BY <2>1, <2>2, AppendTyped
  <2>4. blocks' \in {blocks, Append(blocks, [padLen |-> blockPadLen, rest |-> rest])}
    BY <1>2
  <2> QED BY <2>2, <2>3, <2>4
<1>13. buffer' \in Seq(Nat \X Nat)
  <2>1. Len(blocks) \in Nat
    BY <1>4 DEF TypeOK
  <2>2. PICK m \in Int : m = end - Len(buffer)
    BY <1>11
  <2>3. [i \in 1 .. m |-> <<Len(blocks) + 1, i>>] \in Seq(Nat \X Nat)
    <3>1. CASE m >= 0
      BY <2>1, <3>1
    <3>2. CASE m < 0
      <4>1. 1 .. m = {} /\ 1 .. 0 = {}
        BY <3>2
      <4>2. [i \in 1 .. m |-> <<Len(blocks) + 1, i>>] = [i \in 1 .. 0 |-> <<Len(blocks) + 1, i>>]
        BY <4>1
      <4>3. [i \in 1 .. 0 |-> <<Len(blocks) + 1, i>>] \in Seq(Nat \X Nat)
        BY <2>1
      <4> QED BY <4>2, <4>3
    <3> QED BY <3>1, <3>2
  <2>4. buffer \in Seq(Nat \X Nat)
    BY <1>4 DEF TypeOK
  <2>5. buffer \o [i \in 1 .. m |-> <<Len(blocks) + 1, i>>] \in Seq(Nat \X Nat)
    BY <2>3, <2>4, ConcatTyped
  <2>6. buffer' \in {buffer, buffer \o [i \in 1 .. m |-> <<Len(blocks) + 1, i>>]}
    BY <1>2, <2>2
  <2> QED BY <2>4, <2>5, <2>6
<1>14. padLen' \in Nat
  BY <1>1, <1>6, <1>8
<1>15. textStart' \in 0 .. plaintextLen
  BY <1>2, <1>6, <1>9
<1>16. stage' \in {"done", "sent", "encrypt"} /\ result' \in {result, "ENCRYPT_PADDING"}
  BY <1>2
<1>17. NotStarted'
  BY <1>3, <1>4 DEF TInv, NotStarted, receiver
<1> QED BY <1>3, <1>4, <1>5, <1>12, <1>13, <1>14, <1>15, <1>16, <1>17 DEF TInv, TypeOK, message, receiver

(* Pieces of the sender's bytes, put together.                             *)
LEMMA ArriveTyped == TInv /\ Arrive => TInv'
<1> SUFFICES ASSUME TInv, Arrive PROVE TInv'
  OBVIOUS
<1>1. stage' = "arrived" /\ UNCHANGED <<message, sender, receiver, result>>
  BY DEF Arrive
<1>2. buffer \in Seq(Nat \X Nat) /\ blocks \in Seq([padLen : Nat, rest : Seq(0 .. MaxText)])
  BY DEF TInv, TypeOK
<1>3. rsOut \in Nat
  BY Sizes DEF TInv, TypeOK, rsOut
<1>4. \A i, j \in 0 .. Len(buffer) : Between(i, j) \in Seq(Nat \X Nat)
  BY <1>2, SubSeqTyped DEF Between
<1>5. \A k \in 0 .. Len(blocks) : RecordEnd(k) \in 0 .. Len(buffer)
  <2>1. \A k \in 0 .. Len(blocks) : k * rsOut \in Nat
    BY <1>3
  <2> QED BY <1>2, <2>1 DEF RecordEnd, Least
<1>6. ciphertext' \in Seq(Nat \X Nat)
  <2>1. CASE ciphertext' = buffer
    BY <1>2, <2>1
  <2>2. CASE \E n \in 0 .. Len(buffer) : ciphertext' = Between(0, n)
    <3>1. PICK n \in 0 .. Len(buffer) : ciphertext' = Between(0, n)
      BY <2>2
    <3>2. 0 \in 0 .. Len(buffer)
      BY <1>2
    <3>3. Between(0, n) \in Seq(Nat \X Nat)
      BY <1>4, <3>2
    <3> QED BY <3>1, <3>3
  <2>3. CASE \E k \in 1 .. Len(blocks) :
               ciphertext' = Between(0, RecordEnd(k - 1)) \o Between(RecordEnd(k), Len(buffer))
    <3>1. PICK k \in 1 .. Len(blocks) :
            ciphertext' = Between(0, RecordEnd(k - 1)) \o Between(RecordEnd(k), Len(buffer))
      BY <2>3
    <3>2. k - 1 \in 0 .. Len(blocks) /\ k \in 0 .. Len(blocks)
      BY <1>2
    <3>3. {0, RecordEnd(k - 1), RecordEnd(k), Len(buffer)} \subseteq 0 .. Len(buffer)
      BY <1>2, <1>5, <3>2
    <3>4. Between(0, RecordEnd(k - 1)) \in Seq(Nat \X Nat) /\ Between(RecordEnd(k), Len(buffer)) \in Seq(Nat \X Nat)
      BY <1>4, <3>3
    <3> QED BY <3>1, <3>4, ConcatTyped
  <2>4. CASE \E k \in 1 .. Len(blocks) - 1 :
               ciphertext' = Between(0, RecordEnd(k - 1)) \o Between(RecordEnd(k), RecordEnd(k + 1))
                             \o Between(RecordEnd(k - 1), RecordEnd(k)) \o Between(RecordEnd(k + 1), Len(buffer))
    <3>1. PICK k \in 1 .. Len(blocks) - 1 :
            ciphertext' = Between(0, RecordEnd(k - 1)) \o Between(RecordEnd(k), RecordEnd(k + 1))
                          \o Between(RecordEnd(k - 1), RecordEnd(k)) \o Between(RecordEnd(k + 1), Len(buffer))
      BY <2>4
    <3>2. k - 1 \in 0 .. Len(blocks) /\ k \in 0 .. Len(blocks) /\ k + 1 \in 0 .. Len(blocks)
      BY <1>2
    <3>3. {0, RecordEnd(k - 1), RecordEnd(k), RecordEnd(k + 1), Len(buffer)} \subseteq 0 .. Len(buffer)
      BY <1>2, <1>5, <3>2
    <3>4. /\ Between(0, RecordEnd(k - 1)) \in Seq(Nat \X Nat)
          /\ Between(RecordEnd(k), RecordEnd(k + 1)) \in Seq(Nat \X Nat)
          /\ Between(RecordEnd(k - 1), RecordEnd(k)) \in Seq(Nat \X Nat)
          /\ Between(RecordEnd(k + 1), Len(buffer)) \in Seq(Nat \X Nat)
      BY <1>4, <3>3
    <3> QED BY <3>1, <3>4, ConcatTyped
  <2> QED BY <2>1, <2>2, <2>3, <2>4 DEF Arrive
<1>7. NotStarted /\ NotStarted'
  BY <1>1 DEF Arrive, TInv, NotStarted, receiver
<1>8. ciphertextStart' \in 0 .. Len(ciphertext')
  BY <1>6, <1>7 DEF NotStarted
<1> QED BY <1>1, <1>6, <1>7, <1>8 DEF TInv, TypeOK, message, sender, receiver

LEMMA StartDecryptingTyped == TInv /\ StartDecrypting => TInv'
<1> SUFFICES ASSUME TInv, StartDecrypting PROVE TInv'
  OBVIOUS
<1>1. /\ UNCHANGED <<message, sender, ciphertext, receiver>>
      /\ stage' \in {"decrypt", "done"}
      /\ result' \in {result, "NOT_TRIED", "DECRYPT_TRUNCATED"}
  BY DEF StartDecrypting, Ends
<1> QED BY <1>1 DEF TInv, TypeOK, message, sender, receiver

(* The lengths of one round of the decryption loop.                        *)
ciphertextEnd ==
  IF rsIn > Len(ciphertext) - ciphertextStart THEN Len(ciphertext) ELSE ciphertextStart + rsIn

recordLen == ciphertextEnd - ciphertextStart
blockEnd  == Len(plaintext) + recordLen - ECE_TAG_LENGTH

(* The round's outcomes, by what they do to the receiver's state: it ends  *)
(* before it writes; it ends after; or it takes one more block.            *)
LEMMA Rounds ==
  ASSUME TInv, DecryptRecord
  PROVE  /\ UNCHANGED <<message, sender, ciphertext>>
         /\ stage = "decrypt" /\ stage' \in {"decrypt", "done"}
         /\ result' \in {result, "SHORT_BLOCK", "DECRYPT", "DECRYPT_PADDING", "OK"}
         /\ \/ stage' = "done" /\ UNCHANGED receiver
            \/ /\ recordLen > ECE_TAG_LENGTH
               /\ written' = IF blockEnd > written THEN blockEnd ELSE written
               /\ \/ stage' = "done" /\ UNCHANGED <<counter, ciphertextStart, plaintext>>
                  \/ /\ counter < Len(blocks)
                     /\ recordLen = Len(blocks[counter + 1].rest) + Overhead
                     /\ blocks[counter + 1].padLen <= Len(blocks[counter + 1].rest)
                     /\ plaintext' = plaintext \o ece_aesgcm_unpad(blocks[counter + 1])
                     /\ counter' = counter + 1
                     /\ ciphertextStart' = ciphertextEnd
                     /\ stage' = "decrypt" => ciphertextEnd # Len(ciphertext)
<1>1. ciphertext \in Seq(Nat \X Nat) /\ ciphertextStart \in 0 .. Len(ciphertext) /\ counter \in Nat
      /\ blocks \in Seq([padLen : Nat, rest : Seq(0 .. MaxText)])
  BY DEF TInv, TypeOK
<1>2. ciphertextEnd \in ciphertextStart .. Len(ciphertext)
  BY <1>1, Sizes DEF ciphertextEnd
<1>3. ASSUME Opens(SubSeq(ciphertext, ciphertextStart + 1, ciphertextEnd))
      PROVE  counter < Len(blocks) /\ recordLen = Len(blocks[counter + 1].rest) + Overhead
  <2>1. counter < Len(blocks)
    BY <1>3 DEF Opens
  <2>2. blocks[counter + 1] \in [padLen : Nat, rest : Seq(0 .. MaxText)]
    <3>1. counter + 1 \in 1 .. Len(blocks)
      BY <1>1, <2>1
    <3> QED BY <1>1, <3>1, ElementTyped
  <2>3. Len(blocks[counter + 1].rest) + Overhead \in Nat
    BY <2>2, Sizes
  <2> DEFINE n == Len(blocks[counter + 1].rest) + Overhead
  <2>4. SubSeq(ciphertext, ciphertextStart + 1, ciphertextEnd) = [i \in 1 .. n |-> <<counter + 1, i>>]
    BY <1>3 DEF Opens
  <2>5. Len(SubSeq(ciphertext, ciphertextStart + 1, ciphertextEnd)) = ciphertextEnd - ciphertextStart
    BY <1>1, <1>2
  <2> HIDE DEF n
  <2>6. Len([i \in 1 .. n |-> <<counter + 1, i>>]) = n
    BY <2>3 DEF n
  <2> QED BY <2>1, <2>4, <2>5, <2>6 DEF n, recordLen
<1>4. UNCHANGED <<message, sender, ciphertext>> /\ stage = "decrypt"
  BY DEF DecryptRecord
<1>5. \/ /\ stage' = "done" /\ result' = "SHORT_BLOCK"
         /\ UNCHANGED receiver
      \/ /\ recordLen > ECE_TAG_LENGTH
         /\ written' = IF blockEnd > written THEN blockEnd ELSE written
         /\ \/ /\ stage' = "done" /\ result' \in {"DECRYPT", "DECRYPT_PADDING"}
               /\ UNCHANGED <<counter, ciphertextStart, plaintext>>
            \/ /\ Opens(SubSeq(ciphertext, ciphertextStart + 1, ciphertextEnd))
               /\ Padding(blocks[counter + 1])
               /\ plaintext' = plaintext \o ece_aesgcm_unpad(blocks[counter + 1])
               /\ counter' = counter + 1
               /\ ciphertextStart' = ciphertextEnd
               /\ IF ciphertextEnd = Len(ciphertext)
                  THEN stage' = "done" /\ result' = "OK" ELSE UNCHANGED <<stage, result>>
  BY DEF DecryptRecord, Ends, ciphertextEnd, recordLen, blockEnd
<1>6. CASE stage' = "done" /\ result' = "SHORT_BLOCK" /\ UNCHANGED receiver
  BY <1>4, <1>6
<1>7. CASE /\ recordLen > ECE_TAG_LENGTH
           /\ written' = IF blockEnd > written THEN blockEnd ELSE written
           /\ stage' = "done" /\ result' \in {"DECRYPT", "DECRYPT_PADDING"}
           /\ UNCHANGED <<counter, ciphertextStart, plaintext>>
  BY <1>4, <1>7
<1>8. CASE /\ recordLen > ECE_TAG_LENGTH
           /\ written' = IF blockEnd > written THEN blockEnd ELSE written
           /\ Opens(SubSeq(ciphertext, ciphertextStart + 1, ciphertextEnd))
           /\ Padding(blocks[counter + 1])
           /\ plaintext' = plaintext \o ece_aesgcm_unpad(blocks[counter + 1])
           /\ counter' = counter + 1
           /\ ciphertextStart' = ciphertextEnd
           /\ IF ciphertextEnd = Len(ciphertext)
              THEN stage' = "done" /\ result' = "OK" ELSE UNCHANGED <<stage, result>>
  <2>1. stage' \in {"decrypt", "done"} /\ result' \in {result, "OK"}
        /\ (stage' = "decrypt" => ciphertextEnd # Len(ciphertext))
    BY <1>4, <1>8
  <2>2. blocks[counter + 1].padLen <= Len(blocks[counter + 1].rest)
    BY <1>8 DEF Padding
  <2> QED BY <1>3, <1>4, <1>8, <2>1, <2>2
<1> QED BY <1>5, <1>6, <1>7, <1>8

(* What a block that was taken adds to the text.                           *)
LEMMA UnpadTyped ==
  ASSUME NEW block \in [padLen : Nat, rest : Seq(0 .. MaxText)], block.padLen <= Len(block.rest)
  PROVE  /\ ece_aesgcm_unpad(block) \in Seq(0 .. MaxText)
         /\ Len(ece_aesgcm_unpad(block)) <= Len(block.rest)
<1>1. block.rest \in Seq(0 .. MaxText) /\ block.padLen \in Nat
  OBVIOUS
<1>2. PICK s \in Seq(0 .. MaxText) : s = block.rest
  BY <1>1
<1>3. PICK n \in Nat : n = block.padLen
  BY <1>1
<1>4. n <= Len(s) /\ Len(s) \in Nat
  BY <1>2, <1>3
<1>5. SubSeq(s, n + 1, Len(s)) \in Seq(0 .. MaxText)
  <2>1. Len(s) \in 0 .. Len(s)
    BY <1>4
  <2> QED BY <2>1, SubSeqTyped
<1>6. Len(SubSeq(s, n + 1, Len(s))) = Len(s) - n
  BY <1>4
<1> QED BY <1>2, <1>3, <1>4, <1>5, <1>6 DEF ece_aesgcm_unpad

LEMMA DecryptTyped == TInv /\ DecryptRecord => TInv'
<1> SUFFICES ASSUME TInv, DecryptRecord PROVE TInv'
  OBVIOUS
<1>1. /\ UNCHANGED <<message, sender, ciphertext>>
      /\ stage = "decrypt" /\ stage' \in {"decrypt", "done"}
      /\ result' \in {result, "SHORT_BLOCK", "DECRYPT", "DECRYPT_PADDING", "OK"}
  BY Rounds
<1>2. /\ ciphertext \in Seq(Nat \X Nat) /\ ciphertextStart \in 0 .. Len(ciphertext)
      /\ plaintext \in Seq(0 .. MaxText) /\ counter \in Nat /\ written \in Nat
      /\ blocks \in Seq([padLen : Nat, rest : Seq(0 .. MaxText)])
  BY DEF TInv, TypeOK
<1>3. ciphertextEnd \in ciphertextStart .. Len(ciphertext) /\ Len(ciphertext) \in Nat
  BY <1>2, Sizes DEF ciphertextEnd
<1>4. blockEnd \in Int
  BY <1>2, <1>3, Sizes DEF blockEnd, recordLen
<1>5. written' \in Nat
  <2>1. written' \in {written, IF blockEnd > written THEN blockEnd ELSE written}
    BY Rounds DEF receiver
  <2> QED BY <1>2, <1>4, <2>1
<1>6. /\ counter' \in Nat /\ ciphertextStart' \in 0 .. Len(ciphertext)
      /\ plaintext' \in Seq(0 .. MaxText)
  <2>1. CASE UNCHANGED <<counter, ciphertextStart, plaintext>>
    BY <1>2, <2>1
  <2>2. CASE /\ counter < Len(blocks)
             /\ blocks[counter + 1].padLen <= Len(blocks[counter + 1].rest)
             /\ plaintext' = plaintext \o ece_aesgcm_unpad(blocks[counter + 1])
             /\ counter' = counter + 1
             /\ ciphertextStart' = ciphertextEnd
    <3>1. counter + 1 \in 1 .. Len(blocks)
      BY <1>2, <2>2
    <3>2. blocks[counter + 1] \in [padLen : Nat, rest : Seq(0 .. MaxText)]
      BY <1>2, <3>1, ElementTyped
    <3>3. ece_aesgcm_unpad(blocks[counter + 1]) \in Seq(0 .. MaxText)
      BY <2>2, <3>2, UnpadTyped
    <3>4. plaintext' \in Seq(0 .. MaxText)
      BY <1>2, <2>2, <3>3, ConcatTyped
    <3> QED BY <1>2, <1>3, <2>2, <3>4
  <2> QED BY Rounds, <2>1, <2>2 DEF receiver
<1> QED BY <1>1, <1>5, <1>6 DEF TInv, TypeOK, message, sender

LEMMA NextTyped == TInv /\ [Next]_vars => TInv'
<1> SUFFICES ASSUME TInv, [Next]_vars PROVE TInv'
  OBVIOUS
<1>1. CASE UNCHANGED vars
  BY <1>1 DEF TInv, TypeOK, NotStarted, rsOut, vars, message, sender, receiver
<1>2. CASE Next
  BY <1>2, StartEncryptingTyped, EncryptTyped, ArriveTyped, StartDecryptingTyped, DecryptTyped DEF Next
<1> QED BY <1>1, <1>2

-----------------------------------------------------------------------------
(* The buffer.                                                             *)

(* Before the client has begun, its buffer holds nothing.                  *)
LEMMA NothingWritten == TypeOK /\ NotStarted => FitsIfTagged
<1> SUFFICES ASSUME TypeOK, NotStarted PROVE FitsIfTagged
  OBVIOUS
<1>1. capacity \in Nat
  BY Capacity DEF TypeOK
<1> QED BY <1>1 DEF FitsIfTagged, NotStarted

LEMMA InitFits == Init => FInv
<1> SUFFICES ASSUME Init PROVE FInv
  OBVIOUS
<1>1. TInv /\ NotStarted /\ stage = "start"
  BY InitTyped DEF Init, NotStarted
<1> QED BY <1>1, NothingWritten DEF FInv, TInv

LEMMA StartDecryptingFits == FInv /\ StartDecrypting => FInv'
<1> SUFFICES ASSUME FInv, StartDecrypting PROVE FInv'
  OBVIOUS
<1>1. TInv' /\ TypeOK
  BY StartDecryptingTyped DEF FInv, TInv
<1>2. UNCHANGED <<ciphertext, written, ciphertextStart, plaintext>> /\ NotStarted
  BY DEF StartDecrypting, receiver, FInv, TInv
<1>3. capacity' = capacity /\ EndsWithATag' = EndsWithATag
  BY <1>2 DEF capacity, EndsWithATag
<1>4. FitsIfTagged'
  BY <1>2, <1>3 DEF FitsIfTagged, FInv
<1>5. ASSUME stage' = "decrypt"
      PROVE  /\ capacity > 0 /\ ciphertextStart < Len(ciphertext)
             /\ EndsWithATag => Tagged(Len(ciphertext) - ciphertextStart) /\ TagsLeft
  <2>1. ciphertext # <<>> /\ capacity > 0
    BY <1>5 DEF StartDecrypting, Ends
  <2>2. Len(ciphertext) \in Nat \ {0} /\ Len(ciphertext) - ciphertextStart = Len(ciphertext) /\ ciphertextStart = 0
    BY <1>1, <1>2, <2>1 DEF NotStarted, TypeOK
  <2>3. Len(plaintext) = 0
    BY <1>2 DEF NotStarted
  <2>4. Records(Len(ciphertext)) \in Nat
    BY <1>1, <2>1, <2>2, Capacity, Sizes, RecordsNat DEF TypeOK
  <2>5. TagsLeft
    BY <2>2, <2>3, <2>4, Sizes DEF TagsLeft
  <2>6. EndsWithATag => Tagged(Len(ciphertext) - ciphertextStart)
    BY <2>2 DEF EndsWithATag, Tagged
  <2> QED BY <2>1, <2>2, <2>5, <2>6
<1>6. TagsLeft' = TagsLeft
  BY <1>2 DEF TagsLeft
<1> QED BY <1>1, <1>2, <1>3, <1>4, <1>5, <1>6 DEF FInv

LEMMA DecryptFits == FInv /\ DecryptRecord => FInv'
<1> SUFFICES ASSUME FInv, DecryptRecord PROVE FInv'
  OBVIOUS
<1> DEFINE n == Len(ciphertext)
<1>1. TInv /\ TInv' /\ TypeOK
  BY DecryptTyped DEF FInv, TInv
<1>2. ciphertext' = ciphertext /\ stage = "decrypt"
  BY <1>1, Rounds
<1>3. capacity' = capacity /\ EndsWithATag' = EndsWithATag
  BY <1>2 DEF capacity, EndsWithATag
<1>4. /\ rsIn > Overhead /\ capacity = n - ECE_TAG_LENGTH * Records(n) /\ capacity > 0
      /\ ciphertextStart < n /\ ciphertextStart \in Nat /\ n \in Nat
      /\ plaintext \in Seq(0 .. MaxText) /\ written \in Nat
      /\ EndsWithATag => Tagged(n - ciphertextStart) /\ TagsLeft /\ written <= capacity
  BY <1>1, <1>2, Capacity DEF FInv, TypeOK, FitsIfTagged
<1>5. ASSUME EndsWithATag
      PROVE  /\ blockEnd <= capacity
             /\ Tagged(n - ciphertextEnd)
             /\ \A more \in Nat : more <= recordLen - ECE_TAG_LENGTH =>
                  Len(plaintext) + more + ECE_TAG_LENGTH * (Records(n) - Records(n - ciphertextEnd))
                    <= ciphertextEnd
  <2>1. Len(plaintext) \in Nat /\ ciphertextEnd \in Nat
    BY <1>4, Sizes DEF ciphertextEnd
  <2>2. Len(plaintext) + ECE_TAG_LENGTH * (Records(n) - Records(n - ciphertextStart)) <= ciphertextStart
    BY <1>4, <1>5 DEF TagsLeft
  <2> HIDE DEF n
  <2>3. ciphertextEnd = IF rsIn > n - ciphertextStart THEN n ELSE ciphertextStart + rsIn
    BY DEF ciphertextEnd, n
  <2>4. /\ Len(plaintext) + (ciphertextEnd - ciphertextStart) - ECE_TAG_LENGTH <= n - ECE_TAG_LENGTH * Records(n)
        /\ Tagged(n - ciphertextEnd)
        /\ \A more \in Nat : more <= ciphertextEnd - ciphertextStart - ECE_TAG_LENGTH =>
             Len(plaintext) + more + ECE_TAG_LENGTH * (Records(n) - Records(n - ciphertextEnd)) <= ciphertextEnd
    BY <1>4, <1>5, <2>1, <2>2, <2>3, OneRound
  <2> QED BY <1>4, <2>4 DEF blockEnd, recordLen
<1>6. FitsIfTagged'
  <2>1. written' \in {written, blockEnd}
    BY <1>1, Rounds DEF receiver
  <2> QED BY <1>3, <1>4, <1>5, <2>1 DEF FitsIfTagged
<1>7. ASSUME stage' = "decrypt"
      PROVE  /\ ciphertextStart' < n
             /\ EndsWithATag => Tagged(n - ciphertextStart') /\ TagsLeft'
  <2>1. /\ counter < Len(blocks)
        /\ recordLen = Len(blocks[counter + 1].rest) + Overhead
        /\ blocks[counter + 1].padLen <= Len(blocks[counter + 1].rest)
        /\ plaintext' = plaintext \o ece_aesgcm_unpad(blocks[counter + 1])
        /\ ciphertextStart' = ciphertextEnd
        /\ ciphertextEnd # n
    BY <1>1, <1>7, Rounds
  <2>2. ciphertextStart' \in 0 .. n
    BY <1>1, <1>2 DEF TInv, TypeOK
  <2>3. counter + 1 \in 1 .. Len(blocks) /\ blocks \in Seq([padLen : Nat, rest : Seq(0 .. MaxText)])
    <3>1. counter \in Nat /\ blocks \in Seq([padLen : Nat, rest : Seq(0 .. MaxText)])
      BY <1>1 DEF TypeOK
    <3> QED BY <2>1, <3>1
  <2>4. blocks[counter + 1] \in [padLen : Nat, rest : Seq(0 .. MaxText)]
    BY <2>3, ElementTyped
  <2>5. PICK more \in Seq(0 .. MaxText) :
          more = ece_aesgcm_unpad(blocks[counter + 1]) /\ Len(more) <= Len(blocks[counter + 1].rest)
    BY <2>1, <2>4, UnpadTyped
  <2>6. Len(plaintext') = Len(plaintext) + Len(more)
    BY <1>4, <2>1, <2>5
  <2>7. Len(more) \in Nat /\ Len(more) <= recordLen - ECE_TAG_LENGTH
    <3>1. Len(blocks[counter + 1].rest) \in Nat
      BY <2>4
    <3>2. Len(more) \in Nat
      BY <2>5
    <3>3. PICK m \in Nat : m = Len(blocks[counter + 1].rest)
      BY <3>1
    <3>4. recordLen = m + Overhead /\ Len(more) <= m
      BY <2>1, <2>5, <3>3
    <3> QED BY <3>2, <3>4, Sizes DEF Overhead
  <2>8. ASSUME EndsWithATag PROVE TagsLeft'
    <3>1. Len(plaintext) + Len(more) + ECE_TAG_LENGTH * (Records(n) - Records(n - ciphertextEnd)) <= ciphertextEnd
      BY <1>5, <2>7, <2>8
    <3> QED BY <1>2, <2>1, <2>6, <3>1 DEF TagsLeft, Records, rsIn
  <2> QED BY <1>4, <1>5, <2>1, <2>2, <2>8
<1> QED BY <1>1, <1>2, <1>3, <1>4, <1>6, <1>7 DEF FInv

LEMMA NextFits == FInv /\ [Next]_vars => FInv'
<1> SUFFICES ASSUME FInv, [Next]_vars PROVE FInv'
  OBVIOUS
<1>1. TInv' /\ TypeOK'
  BY NextTyped DEF FInv, TInv
<1>2. CASE UNCHANGED vars
  <2>1. UNCHANGED <<stage, ciphertext, ciphertextStart, plaintext, written>>
    BY <1>2 DEF vars, receiver
  <2> QED BY <1>1, <2>1 DEF FInv, FitsIfTagged, TagsLeft, EndsWithATag, capacity
<1>3. CASE StartEncrypting \/ EncryptRecord \/ Arrive
  <2>1. NotStarted'
    BY <1>3 DEF FInv, TInv, NotStarted, StartEncrypting, EncryptRecord, Arrive, receiver
  <2>2. FitsIfTagged'
    BY <1>1, <2>1, NothingWritten, PTL
  <2>3. stage' # "decrypt"
    BY <1>3 DEF StartEncrypting, EncryptRecord, Arrive, Ends
  <2> QED BY <1>1, <2>2, <2>3 DEF FInv
<1> QED BY <1>2, <1>3, StartDecryptingFits, DecryptFits DEF Next

-----------------------------------------------------------------------------
(* Encryption fits into its buffer.                                        *)

(* What is not encrypted yet, padding and text.                            *)
Left == padLen + plaintextLen - textStart

(* The records so far are full, and the buffer has as much room left as    *)
(* the records to come will need.                                          *)
Exact ==
  /\ Len(buffer) = rsOut * Len(blocks)
  /\ maxCiphertextLen - Len(buffer) = Left + Overhead * (Left \div maxBlockLen + 1)

EInv ==
  /\ TInv
  /\ EncryptionFits
  /\ stage = "start" => blocks = <<>> /\ buffer = <<>> /\ textStart = 0
  /\ stage = "encrypt" => Exact

(* The block of a round: how long it is.                                   *)
LEMMA BlockLength ==
  ASSUME TInv, stage = "encrypt",
         NEW pad, pad = ece_aesgcm_min_block_pad_length(padLen),
         NEW room, room = maxBlockLen - pad,
         NEW textEnd,
         textEnd = IF room >= plaintextLen - textStart THEN plaintextLen ELSE textStart + room,
         NEW rest, rest = ece_aesgcm_encrypt_block(pad, textStart, textEnd).rest
  PROVE  /\ maxBlockLen \in Nat \ {0} /\ rsOut \in Nat /\ rsOut = maxBlockLen + Overhead
         /\ pad \in 0 .. padLen /\ textEnd \in textStart .. plaintextLen
         /\ Len(rest) \in Nat
         /\ Len(rest) = pad + textEnd - textStart
         /\ Len(rest) <= maxBlockLen
<1>1. TypeOK /\ rsOut > Overhead
  BY DEF TInv
<1>2. rsOut \in Nat
  BY <1>1, Sizes DEF TypeOK, rsOut
<1>3. padLen \in Nat /\ plaintextLen \in 0 .. MaxText /\ textStart \in 0 .. plaintextLen /\ MaxText \in Nat
  BY <1>1, Sizes DEF TypeOK
<1>4. maxBlockLen \in Nat \ {0} /\ rsOut = maxBlockLen + Overhead
  BY <1>1, <1>2, Sizes DEF maxBlockLen
<1>5. pad \in Nat /\ pad <= padLen /\ pad <= maxBlockLen
  BY <1>3, <1>4, Sizes DEF ece_aesgcm_min_block_pad_length, Least
<1>6. textEnd \in textStart .. plaintextLen /\ textEnd - textStart <= room
  BY <1>3, <1>4, <1>5
<1>7. rest = [i \in 1 .. pad |-> 0] \o SubSeq(Text, textStart + 1, textEnd)
  BY DEF ece_aesgcm_encrypt_block
<1>8. Text \in Seq(0 .. MaxText) /\ Len(Text) = plaintextLen
  BY <1>3 DEF Text
<1>9. Len([i \in 1 .. pad |-> 0]) = pad /\ [i \in 1 .. pad |-> 0] \in Seq(0 .. MaxText)
  BY <1>3, <1>5
<1>10. Len(SubSeq(Text, textStart + 1, textEnd)) = textEnd - textStart
       /\ SubSeq(Text, textStart + 1, textEnd) \in Seq(0 .. MaxText)
  <2>1. textStart \in Nat /\ textEnd \in textStart .. Len(Text) /\ textEnd \in 0 .. Len(Text)
    BY <1>3, <1>6, <1>8
  <2> QED BY <1>8, <2>1, SubSeqLength, SubSeqTyped
<1>11. Len(rest) = pad + (textEnd - textStart)
  <2> DEFINE padding == [i \in 1 .. pad |-> 0]
             text    == SubSeq(Text, textStart + 1, textEnd)
  <2>1. padding \in Seq(0 .. MaxText) /\ text \in Seq(0 .. MaxText)
    BY <1>9, <1>10
  <2>2. Len(padding) = pad /\ Len(text) = textEnd - textStart
    BY <1>9, <1>10
  <2>3. rest = padding \o text
    BY <1>7
  <2> HIDE DEF padding, text
  <2>4. Len(padding \o text) = Len(padding) + Len(text)
    BY <2>1, ConcatLength
  <2> QED BY <2>2, <2>3, <2>4
<1>12. pad + (textEnd - textStart) \in Nat /\ pad + (textEnd - textStart) = pad + textEnd - textStart
       /\ pad + (textEnd - textStart) <= maxBlockLen
  BY <1>3, <1>4, <1>5, <1>6
<1>13. Len(rest) \in Nat /\ Len(rest) = pad + textEnd - textStart /\ Len(rest) <= maxBlockLen
  BY <1>11, <1>12
<1>14. pad \in 0 .. padLen
  BY <1>3, <1>5
<1> QED BY <1>2, <1>4, <1>6, <1>13, <1>14

LEMMA InitEncrypts == Init => EInv
<1> SUFFICES ASSUME Init PROVE EInv
  OBVIOUS
<1>1. TInv
  BY InitTyped
<1>2. stage = "start" /\ blocks = <<>> /\ buffer = <<>> /\ textStart = 0
  BY DEF Init
<1> QED BY <1>1, <1>2 DEF EInv, EncryptionFits

(* Room is asked for one record more than are full.                        *)
LEMMA StartEncryptingFits == EInv /\ StartEncrypting => EInv'
<1> SUFFICES ASSUME EInv, StartEncrypting PROVE EInv'
  OBVIOUS
<1>1. TInv'
  BY StartEncryptingTyped DEF EInv
<1>2. /\ blocks' = <<>> /\ buffer' = <<>> /\ textStart' = 0
      /\ UNCHANGED <<senderRs, plaintextLen, padLen>>
  BY DEF EInv, StartEncrypting, sender
<1>3. stage' \in {"done", "encrypt"}
  BY DEF StartEncrypting, Ends
<1>4. ASSUME stage' = "encrypt" PROVE Exact'
  <2>1. maxCiphertextLen' = ece_ciphertext_max_length(rsOut, padLen, plaintextLen)
    BY <1>4 DEF StartEncrypting, Ends
  <2>2. rsOut' = rsOut /\ rsOut > Overhead /\ rsOut \in Nat /\ maxBlockLen' = rsOut - Overhead
    <3>1. rsOut' = rsOut
      BY <1>2 DEF rsOut
    <3>2. rsOut \in Nat
      BY Sizes DEF EInv, TInv, TypeOK, rsOut
    <3>3. rsOut > Overhead
      BY <1>1, <1>4, <3>1 DEF TInv
    <3> QED BY <3>1, <3>2, <3>3 DEF maxBlockLen
  <2>3. padLen \in Nat /\ plaintextLen \in Nat
    BY Sizes DEF EInv, TInv, TypeOK
  <2> DEFINE n == (plaintextLen + padLen) \div (rsOut - Overhead)
  <2>4. n \in Nat
    BY <2>2, <2>3, Sizes, Division
  <2>5. maxCiphertextLen' = plaintextLen + padLen + Overhead * (n + 1)
    BY <2>1, <2>2, <2>4, Sizes DEF ece_ciphertext_max_length, ece_aesgcm_needs_trailer
  <2>6. Left' = plaintextLen + padLen
    BY <1>2, <2>3 DEF Left
  <2>7. Len(buffer') = 0 /\ Len(blocks') = 0
    BY <1>2
  <2>8. Overhead * (n + 1) \in Nat
    BY <2>4, Sizes
  <2>9. Left' \div maxBlockLen' = n
    BY <2>2, <2>6
  <2> HIDE DEF n
  <2> QED BY <2>2, <2>3, <2>5, <2>6, <2>7, <2>8, <2>9 DEF Exact
<1>5. EncryptionFits'
  BY <1>2, <1>3 DEF EncryptionFits
<1> QED BY <1>1, <1>3, <1>4, <1>5 DEF EInv

(* Bytes behind bytes: the last of them.                                   *)
LEMMA LastByte ==
  ASSUME NEW s \in Seq(Nat \X Nat), NEW k \in Nat, NEW m \in Nat \ {0},
         NEW t, t = s \o [i \in 1 .. m |-> <<k, i>>]
  PROVE  Len(t) = Len(s) + m /\ t[Len(t)] = <<k, m>>
<1>1. [i \in 1 .. m |-> <<k, i>>] \in Seq(Nat \X Nat) /\ Len([i \in 1 .. m |-> <<k, i>>]) = m
  OBVIOUS
<1> QED BY <1>1

(* A round puts all of its record into the buffer, and leaves the room     *)
(* that the records to come will need; or none behind the last, which is   *)
(* shorter.                                                                *)
RecordAdded(block, n) ==
  /\ n = Len(block.rest) + Overhead
  /\ n \in Nat \ {0} /\ rsOut \in Nat \ {0}
  /\ blocks' = Append(blocks, block)
  /\ buffer' = buffer \o [i \in 1 .. n |-> <<Len(blocks) + 1, i>>]
  /\ Len(buffer) = rsOut * Len(blocks)
  /\ \/ /\ stage' = "sent" /\ n < rsOut
        /\ Len(buffer) + n = maxCiphertextLen
     \/ /\ stage' = "encrypt" /\ n = rsOut
        /\ maxCiphertextLen - (Len(buffer) + n) = Left' + Overhead * (Left' \div maxBlockLen + 1)

LEMMA RoundAdds ==
  ASSUME EInv, EncryptRecord, stage' # "done"
  PROVE  \E block, n : RecordAdded(block, n)
<1> DEFINE pad       == ece_aesgcm_min_block_pad_length(padLen)
           room      == maxBlockLen - pad
           textEnd   == IF room >= plaintextLen - textStart THEN plaintextLen ELSE textStart + room
           block     == ece_aesgcm_encrypt_block(pad, textStart, textEnd)
           n         == Len(block.rest) + Overhead
           end       == IF n >= maxCiphertextLen - Len(buffer)
                        THEN maxCiphertextLen ELSE Len(buffer) + n
<1>1. stage = "encrypt" /\ TInv /\ TypeOK /\ Exact
  BY DEF EncryptRecord, EInv, TInv
<1>2. padLen' = padLen - pad /\ plaintextLen' = plaintextLen
  BY DEF EncryptRecord, message
<1>3. /\ LastRecord(textEnd, end) \/ Len(block.rest) >= maxBlockLen
      /\ textStart' = textEnd
      /\ blocks' = Append(blocks, block)
      /\ buffer' = buffer \o [i \in 1 .. end - Len(buffer) |-> <<Len(blocks) + 1, i>>]
      /\ stage' = IF LastRecord(textEnd, end) THEN "sent" ELSE "encrypt"
  BY DEF EncryptRecord, Ends
<1>4. /\ maxBlockLen \in Nat \ {0} /\ rsOut \in Nat /\ rsOut = maxBlockLen + Overhead
      /\ pad \in 0 .. padLen /\ textEnd \in textStart .. plaintextLen
      /\ Len(block.rest) \in Nat
      /\ Len(block.rest) = pad + textEnd - textStart
      /\ Len(block.rest) <= maxBlockLen
  BY <1>1, BlockLength
<1>5. padLen \in Nat /\ plaintextLen \in Nat /\ textStart \in 0 .. plaintextLen /\ maxCiphertextLen \in Nat
  BY <1>1, Sizes DEF TypeOK
<1>6. Len(buffer) \in Nat /\ Len(blocks) \in Nat
  BY <1>1 DEF TypeOK
<1>7. Overhead \in Nat \ {0}
  BY Sizes DEF Overhead
<1> HIDE DEF pad, room, textEnd, block
<1>8. Left \in Nat /\ Len(block.rest) <= Left /\ Left' = Left - Len(block.rest)
  BY <1>2, <1>3, <1>4, <1>5 DEF Left
<1>9. Len(buffer) = rsOut * Len(blocks)
      /\ maxCiphertextLen - Len(buffer) = Left + Overhead * (Left \div maxBlockLen + 1)
  BY <1>1 DEF Exact
<1>10. /\ Len(block.rest) = Left /\ end % rsOut # 0 =>
            end = maxCiphertextLen /\ end - Len(buffer) = n
       /\ Len(block.rest) >= maxBlockLen =>
            /\ end - Len(buffer) = n
            /\ end = rsOut * (Len(blocks) + 1)
            /\ maxCiphertextLen - end = Left - maxBlockLen + Overhead * ((Left - maxBlockLen) \div maxBlockLen + 1)
  <2>1. end = IF Len(block.rest) + Overhead >= maxCiphertextLen - Len(buffer)
              THEN maxCiphertextLen ELSE Len(buffer) + (Len(block.rest) + Overhead)
    OBVIOUS
  <2>2. Len(buffer) = (maxBlockLen + Overhead) * Len(blocks)
    BY <1>4, <1>9
  <2> HIDE DEF end
  <2>3. RecordFits(maxBlockLen, Overhead, Len(blocks), Left, Len(block.rest),
                   maxCiphertextLen, Len(buffer), end)
    BY <1>4, <1>5, <1>6, <1>7, <1>8, <1>9, <2>1, <2>2, OneRecordMore
  <2> QED BY <1>4, <2>3 DEF RecordFits
<1>11. LastRecord(textEnd, end) => Len(block.rest) = Left /\ end % rsOut # 0
  BY <1>2, <1>4, <1>5 DEF LastRecord, ece_aesgcm_needs_trailer, Left
<1>12. n \in Nat \ {0} /\ end \in Int
  BY <1>4, <1>5, <1>6, <1>7
<1> HIDE DEF end, n
<1>13. end - Len(buffer) = n /\ end = Len(buffer) + n
  BY <1>3, <1>6, <1>10, <1>11, <1>12
<1>14. buffer' = buffer \o [i \in 1 .. n |-> <<Len(blocks) + 1, i>>]
  BY <1>3, <1>13
<1>15. ASSUME LastRecord(textEnd, end) PROVE stage' = "sent" /\ n < rsOut /\ Len(buffer) + n = maxCiphertextLen
  <2>1. Len(blocks) + 1 \in Nat /\ rsOut \in Nat \ {0}
    BY <1>4, <1>6, <1>7
  <2>2. (rsOut * (Len(blocks) + 1)) % rsOut = 0
    BY <2>1, Multiple
  <2>3. Len(block.rest) < maxBlockLen
    BY <1>4, <1>10, <1>11, <1>15, <2>2
  <2>4. n < rsOut
    BY <1>4, <1>7, <2>3 DEF n
  <2> QED BY <1>3, <1>10, <1>11, <1>13, <1>15, <2>4
<1>16. ASSUME ~ LastRecord(textEnd, end)
       PROVE  /\ stage' = "encrypt" /\ n = rsOut
              /\ maxCiphertextLen - (Len(buffer) + n) = Left' + Overhead * (Left' \div maxBlockLen + 1)
  <2>1. Len(block.rest) = maxBlockLen /\ Len(block.rest) >= maxBlockLen
    BY <1>3, <1>4, <1>16
  <2>2. Left' = Left - maxBlockLen
    BY <1>8, <2>1
  <2>3. n = rsOut
    BY <1>4, <2>1 DEF n
  <2> QED BY <1>3, <1>10, <1>13, <1>16, <2>1, <2>2, <2>3
<1>17. n = Len(block.rest) + Overhead
  BY DEF n
<1>18. rsOut \in Nat \ {0}
  BY <1>4, <1>7
<1>19. RecordAdded(block, n)
  BY <1>3, <1>9, <1>12, <1>14, <1>15, <1>16, <1>17, <1>18 DEF RecordAdded
<1> QED BY <1>19

LEMMA EncryptFits == EInv /\ EncryptRecord => EInv'
<1> SUFFICES ASSUME EInv, EncryptRecord PROVE EInv'
  OBVIOUS
<1>1. TInv'
  BY EncryptTyped DEF EInv
<1>2. UNCHANGED <<senderRs, plaintextLen, maxCiphertextLen>>
  BY DEF EncryptRecord, message
<1>3. CASE stage' = "done"
  <2>1. UNCHANGED <<blocks, buffer>>
    BY <1>3 DEF EncryptRecord, Ends
  <2> QED BY <1>1, <1>3, <2>1 DEF EInv, EncryptionFits
<1>4. CASE stage' # "done"
  <2>1. PICK block, n : RecordAdded(block, n)
    BY <1>4, RoundAdds
  <2>2. /\ buffer \in Seq(Nat \X Nat) /\ Len(buffer) \in Nat /\ Len(blocks) \in Nat
        /\ blocks \in Seq([padLen : Nat, rest : Seq(0 .. MaxText)])
        /\ maxCiphertextLen \in Nat
    <3>1. TypeOK
      BY DEF EInv, TInv
    <3>2. /\ buffer \in Seq(Nat \X Nat) /\ maxCiphertextLen \in Nat
          /\ blocks \in Seq([padLen : Nat, rest : Seq(0 .. MaxText)])
      BY <3>1 DEF TypeOK
    <3> QED BY <3>2
  <2>3. n \in Nat \ {0} /\ Len(blocks) + 1 \in Nat
    <3>1. n \in Nat \ {0}
      BY <2>1 DEF RecordAdded
    <3> QED BY <2>2, <3>1
  <2>4. Len(buffer') = Len(buffer) + n /\ buffer'[Len(buffer')] = <<Len(blocks) + 1, n>>
    <3>1. buffer' = buffer \o [i \in 1 .. n |-> <<Len(blocks) + 1, i>>]
      BY <2>1 DEF RecordAdded
    <3>2. buffer \in Seq(Nat \X Nat)
      BY <2>2
    <3> QED BY <2>3, <3>1, <3>2, LastByte
  <2>5. Len(blocks') = Len(blocks) + 1 /\ blocks'[Len(blocks')] = block
    BY <2>1, <2>2 DEF RecordAdded
  <2>6. EncryptionFits'
    BY <1>2, <2>1, <2>4, <2>5 DEF EncryptionFits, RecordAdded
  <2>7. ASSUME stage' = "encrypt" PROVE Exact'
    <3>1. rsOut' = rsOut /\ maxBlockLen' = maxBlockLen
      BY <1>2 DEF rsOut, maxBlockLen
    <3>2. /\ rsOut \in Nat /\ Len(buffer) = rsOut * Len(blocks) /\ n = rsOut
          /\ maxCiphertextLen - (Len(buffer) + n) = Left' + Overhead * (Left' \div maxBlockLen + 1)
      BY <2>1, <2>7 DEF RecordAdded
    <3>3. rsOut * (Len(blocks) + 1) = rsOut * Len(blocks) + rsOut * 1
      BY <2>2, <3>2, Distributes
    <3>4. Len(buffer') = rsOut * Len(blocks')
      BY <2>2, <2>4, <2>5, <3>2, <3>3
    <3> QED BY <1>2, <2>4, <3>1, <3>2, <3>4 DEF Exact
  <2>8. stage' # "start"
    BY <2>1 DEF RecordAdded
  <2> QED BY <1>1, <2>6, <2>7, <2>8 DEF EInv
<1> QED BY <1>3, <1>4

LEMMA NextEncrypts == EInv /\ [Next]_vars => EInv'
<1> SUFFICES ASSUME EInv, [Next]_vars PROVE EInv'
  OBVIOUS
<1>1. TInv'
  BY NextTyped DEF EInv
<1>2. CASE UNCHANGED vars
  <2>1. UNCHANGED <<stage, senderRs, plaintextLen, maxCiphertextLen, padLen, textStart, blocks, buffer>>
    BY <1>2 DEF vars, message, sender
  <2> QED BY <1>1, <2>1 DEF EInv, EncryptionFits, Exact, Left, rsOut, maxBlockLen
<1>3. CASE Arrive \/ StartDecrypting \/ DecryptRecord
  <2>1. UNCHANGED <<maxCiphertextLen, blocks, buffer>>
    BY <1>3 DEF Arrive, StartDecrypting, DecryptRecord, message, sender
  <2>2. stage \in {"sent", "arrived", "decrypt"} /\ stage' \in {"arrived", "decrypt", "done"}
    BY <1>3 DEF Arrive, StartDecrypting, DecryptRecord, Ends
  <2> QED BY <1>1, <2>1, <2>2 DEF EInv, EncryptionFits
<1> QED BY <1>2, <1>3, StartEncryptingFits, EncryptFits DEF Next

-----------------------------------------------------------------------------

(* The model's variables keep their types.                                 *)
THEOREM TypeCorrect == Spec => []TypeOK
<1>1. TInv => TypeOK
  BY DEF TInv
<1> QED BY <1>1, InitTyped, NextTyped, PTL DEF Spec

(* Unless what arrived ends inside a tag, decryption stays within the      *)
(* buffer that ece_aesgcm_plaintext_max_length asked for.                  *)
THEOREM StaysInBuffer == Spec => []FitsIfTagged
<1>1. FInv => FitsIfTagged
  BY DEF FInv
<1> QED BY <1>1, InitFits, NextFits, PTL DEF Spec

(* The buffer that ece_ciphertext_max_length asks for is exact, however    *)
(* text and padding fall into records: none is cut off at its end, though  *)
(* the loop would do that without an error, and nothing is left behind the *)
(* last.                                                                   *)
THEOREM EncryptionIsExact == Spec => []EncryptionFits
<1>1. EInv => EncryptionFits
  BY DEF EInv
<1> QED BY <1>1, InitEncrypts, NextEncrypts, PTL DEF Spec

-----------------------------------------------------------------------------
(* Pieces of the text.                                                     *)

(* The text from one cut to another, and from the beginning.               *)
Piece(from, to) == [i \in 1 .. to - from |-> from + i]

(* It is a sequence of the text's numbers.                                 *)
LEMMA PieceTyped ==
  ASSUME NEW from \in Nat, NEW to \in Nat, from <= to
  PROVE  Piece(from, to) \in Seq(Nat) /\ Len(Piece(from, to)) = to - from
         /\ \A i \in 1 .. to - from : Piece(from, to)[i] = from + i
BY DEF Piece

(* An element of a concatenation, in its first part and in its second.     *)
LEMMA Before ==
  ASSUME NEW S, NEW s \in Seq(S), NEW t \in Seq(S), NEW i \in 1 .. Len(s)
  PROVE  (s \o t)[i] = s[i]
OBVIOUS

LEMMA Behind ==
  ASSUME NEW S, NEW s \in Seq(S), NEW t \in Seq(S), NEW i \in 1 .. Len(t)
  PROVE  (s \o t)[Len(s) + i] = t[i]
OBVIOUS

(* A sequence with the same elements is the same piece.                    *)
LEMMA SamePiece ==
  ASSUME NEW s \in Seq(Nat), NEW from \in Nat, NEW to \in Nat, from <= to,
         Len(s) = to - from, \A i \in 1 .. to - from : s[i] = from + i
  PROVE  s = Piece(from, to)
<1>1. s = [i \in 1 .. Len(s) |-> s[i]]
  OBVIOUS
<1> QED BY <1>1 DEF Piece

(* A piece and the next are one.                                           *)
LEMMA Joined ==
  ASSUME NEW a \in Nat, NEW b \in Nat, a <= b
  PROVE  Piece(0, a) \o Piece(a, b) = Piece(0, b)
<1> DEFINE s == Piece(0, a)
           t == Piece(a, b)
<1>1. s \in Seq(Nat) /\ t \in Seq(Nat) /\ Len(s) = a /\ Len(t) = b - a
  BY DEF Piece
<1>2. (\A i \in 1 .. a : s[i] = i) /\ (\A i \in 1 .. b - a : t[i] = a + i)
  BY DEF Piece
<1> HIDE DEF s, t
<1>3. s \o t \in Seq(Nat) /\ Len(s \o t) = b
  <2>1. s \o t \in Seq(Nat) /\ Len(s \o t) = Len(s) + Len(t)
    BY <1>1, ConcatTyped, ConcatLength
  <2> QED BY <1>1, <2>1
<1>4. \A i \in 1 .. b : (s \o t)[i] = i
  BY <1>1, <1>2
<1>5. s \o t = Piece(0, b)
  <2> DEFINE u == s \o t
  <2>1. u \in Seq(Nat) /\ Len(u) = b - 0 /\ \A i \in 1 .. b - 0 : u[i] = 0 + i
    BY <1>3, <1>4
  <2> HIDE DEF u
  <2>2. u = Piece(0, b)
    BY <2>1, SamePiece
  <2> QED BY <2>2 DEF u
<1> QED BY <1>5 DEF s, t

(* Part of the text is a piece.                                            *)
LEMMA TextPiece ==
  ASSUME plaintextLen \in Nat, NEW from \in Nat, NEW to \in from .. plaintextLen
  PROVE  SubSeq(Text, from + 1, to) = Piece(from, to)
<1>1. Text \in Seq(Nat) /\ Len(Text) = plaintextLen /\ \A i \in 1 .. plaintextLen : Text[i] = i
  BY DEF Text
<1> DEFINE s == SubSeq(Text, from + 1, to)
<1>2. s \in Seq(Nat) /\ Len(s) = to - from
  BY <1>1, SubSeqTyped, SubSeqLength
<1>3. \A i \in 1 .. to - from : s[i] = from + i
  BY <1>1
<1> HIDE DEF s
<1>4. s = Piece(from, to)
  BY <1>2, <1>3, SamePiece
<1> QED BY <1>4 DEF s

(* What is in a block can be taken out of it again.                        *)
LEMMA BlockUnpads ==
  ASSUME plaintextLen \in Nat, NEW pad \in Nat, NEW from \in Nat, NEW to \in from .. plaintextLen,
         NEW block, block = ece_aesgcm_encrypt_block(pad, from, to)
  PROVE  /\ Len(block.rest) = pad + (to - from)
         /\ Padding(block)
         /\ ece_aesgcm_unpad(block) = Piece(from, to)
<1> DEFINE zeros == [i \in 1 .. pad |-> 0]
           text  == Piece(from, to)
<1>1. zeros \in Seq(Nat) /\ Len(zeros) = pad /\ \A i \in 1 .. pad : zeros[i] = 0
  OBVIOUS
<1>2. text \in Seq(Nat) /\ Len(text) = to - from /\ \A i \in 1 .. to - from : text[i] = from + i
  <2>1. to \in Nat /\ from <= to
    OBVIOUS
  <2> QED BY <2>1, PieceTyped
<1>3. block.padLen = pad /\ block.rest = zeros \o text
  BY TextPiece DEF ece_aesgcm_encrypt_block
<1> HIDE DEF zeros, text
<1>4. block.rest \in Seq(Nat) /\ Len(block.rest) = pad + (to - from)
  BY <1>1, <1>2, <1>3
<1>5. ASSUME NEW i \in 1 .. pad PROVE block.rest[i] = 0
  BY <1>1, <1>2, <1>3, Before
<1>6. ASSUME NEW i \in 1 .. to - from PROVE block.rest[pad + i] = from + i
  <2>1. i \in 1 .. Len(text)
    BY <1>2
  <2>2. (zeros \o text)[Len(zeros) + i] = text[i]
    BY <1>1, <1>2, <2>1, Behind
  <2> QED BY <1>1, <1>2, <1>3, <2>2
<1>7. Padding(block)
  BY <1>3, <1>4, <1>5 DEF Padding
<1> DEFINE s == SubSeq(block.rest, pad + 1, Len(block.rest))
<1>8. s \in Seq(Nat) /\ Len(s) = to - from
  BY <1>4, SubSeqTyped, SubSeqLength
<1>9. \A i \in 1 .. to - from : s[i] = from + i
  BY <1>4, <1>6
<1> HIDE DEF s
<1>10. s = Piece(from, to)
  BY <1>8, <1>9, SamePiece
<1> QED BY <1>3, <1>4, <1>7, <1>10 DEF s, ece_aesgcm_unpad
-----------------------------------------------------------------------------
(* Only whole messages are shown.                                          *)

(* Where the text was cut: block k holds it from off[k - 1] to off[k].     *)
Cuts(off) ==
  /\ off \in [Nat -> Nat]
  /\ off[0] = 0 /\ off[Len(blocks)] = textStart
  /\ \A k \in 1 .. Len(blocks) :
       /\ off[k] \in off[k - 1] .. plaintextLen
       /\ blocks[k].padLen \in Nat
       /\ blocks[k] = ece_aesgcm_encrypt_block(blocks[k].padLen, off[k - 1], off[k])

(* No record but the last is short: the first n blocks are full.           *)
FullBlocks(n) == \A k \in 1 .. n : Len(blocks[k].rest) = maxBlockLen

(* What was sent holds the text to its end.                                *)
Complete == Len(blocks) > 0 /\ textStart = plaintextLen /\ FullBlocks(Len(blocks) - 1)

(* The records opened so far were of the client's size, as all but the     *)
(* last that arrived.                                                      *)
InStep ==
  /\ rsIn \in Nat \ {0}
  /\ Len(ciphertext) % rsIn # 0
  /\ counter \in 0 .. Len(blocks)
  /\ ciphertextStart = rsIn * counter
  /\ ciphertextStart < Len(ciphertext)
  /\ \A k \in 1 .. counter : Len(blocks[k].rest) + Overhead = rsIn

(* The inductive invariant: the text is cut somewhere, and what was        *)
(* decrypted is the text up to the cut behind the last record opened.      *)
WInv ==
  /\ TInv
  /\ stage \notin {"decrypt", "done"} => counter = 0
  /\ stage # "done" => result = "none"
  /\ stage = "start" => blocks = <<>> /\ textStart = 0
  /\ stage = "encrypt" => FullBlocks(Len(blocks))
  /\ stage \in {"sent", "arrived", "decrypt"} => Complete
  /\ stage = "decrypt" => InStep
  /\ stage # "done" => \E off : Cuts(off) /\ plaintext = Piece(0, off[counter])
  /\ OnlyWholeMessages

LEMMA InitWhole == Init => WInv
<1> SUFFICES ASSUME Init PROVE WInv
  OBVIOUS
<1>1. TInv
  BY InitTyped
<1>2. /\ stage = "start" /\ blocks = <<>> /\ textStart = 0 /\ counter = 0
      /\ plaintext = <<>> /\ result = "none"
  BY DEF Init
<1> DEFINE off == [k \in Nat |-> 0]
<1>3. Cuts(off)
  BY <1>2 DEF Cuts
<1>4. plaintext = Piece(0, off[counter])
  BY <1>2 DEF Piece
<1> HIDE DEF off
<1> QED BY <1>1, <1>2, <1>3, <1>4 DEF WInv, OnlyWholeMessages

(* A cut can be put behind the others.                                     *)
LEMMA OneCutMore ==
  \A off \in [Nat -> Nat], n, to \in Nat :
    \E cut \in [Nat -> Nat] : cut[n + 1] = to /\ \A k \in 0 .. n : cut[k] = off[k]
<1> SUFFICES ASSUME NEW off \in [Nat -> Nat], NEW n \in Nat, NEW to \in Nat
             PROVE  \E cut \in [Nat -> Nat] : cut[n + 1] = to /\ \A k \in 0 .. n : cut[k] = off[k]
  OBVIOUS
<1> WITNESS [off EXCEPT ![n + 1] = to] \in [Nat -> Nat]
<1> QED OBVIOUS

(* Only encryption cuts.                                                   *)
LEMMA CutsStay ==
  ASSUME NEW off, Cuts(off), UNCHANGED <<plaintextLen, textStart, blocks>>
  PROVE  Cuts(off)'
BY DEF Cuts, ece_aesgcm_encrypt_block, Text

LEMMA EarlyWhole ==
  ASSUME WInv, StartEncrypting \/ Arrive
  PROVE  WInv'
<1>1. TInv'
  BY StartEncryptingTyped, ArriveTyped DEF WInv
<1>2. UNCHANGED <<plaintextLen, senderRs, textStart, blocks, counter, plaintext>>
  BY DEF StartEncrypting, Arrive, message, sender, receiver
<1>3. \/ stage = "start" /\ stage' = "encrypt" /\ UNCHANGED result
      \/ stage = "start" /\ stage' = "done" /\ result' # "OK"
      \/ stage = "sent" /\ stage' = "arrived" /\ UNCHANGED result
  BY DEF StartEncrypting, Arrive, Ends
<1>4. \E off : Cuts(off)' /\ plaintext' = Piece(0, off[counter'])
  <2>1. PICK off : Cuts(off) /\ plaintext = Piece(0, off[counter])
    BY <1>3 DEF WInv
  <2>2. Cuts(off)'
    BY <1>2, <2>1, CutsStay
  <2> QED BY <1>2, <2>1, <2>2
<1>5. maxBlockLen' = maxBlockLen
  BY <1>2 DEF maxBlockLen, rsOut
<1>6. Complete' <=> Complete
  BY <1>2, <1>5 DEF Complete, FullBlocks
<1>7. stage = "start" => FullBlocks(Len(blocks))'
  BY <1>2 DEF WInv, FullBlocks
<1> QED BY <1>1, <1>2, <1>3, <1>4, <1>6, <1>7 DEF WInv, OnlyWholeMessages

LEMMA StartDecryptingWhole == WInv /\ StartDecrypting => WInv'
<1> SUFFICES ASSUME WInv, StartDecrypting PROVE WInv'
  OBVIOUS
<1>1. TInv'
  BY StartDecryptingTyped DEF WInv
<1>2. UNCHANGED <<plaintextLen, senderRs, textStart, blocks, ciphertext, counter, ciphertextStart, plaintext>>
  BY DEF StartDecrypting, message, sender, receiver
<1>3. stage = "arrived"
  BY DEF StartDecrypting
<1>4. CASE stage' = "done" /\ result' # "OK"
  BY <1>1, <1>4 DEF WInv, OnlyWholeMessages
<1>5. CASE /\ ciphertext # <<>> /\ capacity > 0
           /\ ~ece_aesgcm_needs_trailer(rsIn, Len(ciphertext))
           /\ stage' = "decrypt" /\ UNCHANGED result
  <2>1. PICK off : Cuts(off) /\ plaintext = Piece(0, off[counter])
    BY <1>3 DEF WInv
  <2>2. Cuts(off)' /\ plaintext' = Piece(0, off[counter'])
    BY <1>2, <2>1, CutsStay
  <2>3. Complete'
    BY <1>2, <1>3 DEF WInv, Complete, FullBlocks, maxBlockLen, rsOut
  <2>4. ciphertext \in Seq(Nat \X Nat) /\ counter = 0 /\ ciphertextStart = 0
    BY <1>3 DEF WInv, TInv, TypeOK, NotStarted
  <2>5. rsIn > Overhead /\ rsIn \in Nat /\ Overhead \in Nat
    BY <1>5, <2>4, Capacity, Sizes
  <2>6. Len(ciphertext) > 0
    BY <1>5, <2>4
  <2>7. blocks \in Seq([padLen : Nat, rest : Seq(0 .. MaxText)])
    BY DEF WInv, TInv, TypeOK
  <2>8. InStep
    BY <1>5, <2>4, <2>5, <2>6, <2>7 DEF InStep, ece_aesgcm_needs_trailer
  <2>9. InStep'
    BY <1>2, <2>8 DEF InStep, rsIn
  <2> QED BY <1>1, <1>2, <1>3, <1>5, <2>2, <2>3, <2>9 DEF WInv, OnlyWholeMessages
<1> QED BY <1>4, <1>5 DEF StartDecrypting, Ends

(* A round of encryption cuts once more; only the last record is short.    *)
LEMMA EncryptWhole == WInv /\ EncryptRecord => WInv'
<1> SUFFICES ASSUME WInv, EncryptRecord PROVE WInv'
  OBVIOUS
<1> DEFINE pad       == ece_aesgcm_min_block_pad_length(padLen)
           room      == maxBlockLen - pad
           textEnd   == IF room >= plaintextLen - textStart THEN plaintextLen ELSE textStart + room
           block     == ece_aesgcm_encrypt_block(pad, textStart, textEnd)
           size      == Len(block.rest) + Overhead
           end       == IF size >= maxCiphertextLen - Len(buffer)
                        THEN maxCiphertextLen ELSE Len(buffer) + size
<1>1. TInv'
  BY EncryptTyped DEF WInv
<1>2. stage = "encrypt" /\ TInv /\ TypeOK /\ FullBlocks(Len(blocks)) /\ result = "none" /\ counter = 0
  BY DEF EncryptRecord, WInv, TInv
<1>3. /\ UNCHANGED <<senderRs, plaintextLen, counter, plaintext>>
      /\ \/ stage' = "done" /\ result' = "ENCRYPT_PADDING"
         \/ /\ LastRecord(textEnd, end) \/ Len(block.rest) >= maxBlockLen
            /\ textStart' = textEnd
            /\ blocks' = Append(blocks, block)
            /\ stage' = IF LastRecord(textEnd, end) THEN "sent" ELSE "encrypt"
            /\ UNCHANGED result
  BY DEF EncryptRecord, Ends, message, receiver
<1>4. CASE stage' = "done" /\ result' = "ENCRYPT_PADDING"
  BY <1>1, <1>4 DEF WInv, OnlyWholeMessages
<1>5. CASE /\ LastRecord(textEnd, end) \/ Len(block.rest) >= maxBlockLen
           /\ textStart' = textEnd
           /\ blocks' = Append(blocks, block)
           /\ stage' = IF LastRecord(textEnd, end) THEN "sent" ELSE "encrypt"
           /\ UNCHANGED result
  <2>1. /\ maxBlockLen \in Nat \ {0}
        /\ pad \in 0 .. padLen /\ textEnd \in textStart .. plaintextLen
        /\ Len(block.rest) \in Nat /\ Len(block.rest) <= maxBlockLen
    BY <1>2, BlockLength
  <2>2. padLen \in Nat /\ plaintextLen \in Nat /\ textStart \in 0 .. plaintextLen
    BY <1>2, Sizes DEF TypeOK
  <2>3. Len(blocks) \in Nat /\ blocks \in Seq([padLen : Nat, rest : Seq(0 .. MaxText)])
    BY <1>2 DEF TypeOK
  <2>4. block = [padLen |-> pad, rest |-> [i \in 1 .. pad |-> 0] \o SubSeq(Text, textStart + 1, textEnd)]
    BY DEF ece_aesgcm_encrypt_block
  <2>5. LastRecord(textEnd, end) => textEnd = plaintextLen
    BY DEF LastRecord
  <2> HIDE DEF pad, room, textEnd, block, end
  <2>6. /\ Len(blocks') = Len(blocks) + 1
        /\ \A k \in 1 .. Len(blocks) : blocks'[k] = blocks[k]
        /\ blocks'[Len(blocks) + 1] = block
    BY <1>5, <2>3
  <2>7. maxBlockLen' = maxBlockLen /\ Text' = Text
    BY <1>3 DEF maxBlockLen, rsOut, Text
  <2>8. PICK off : Cuts(off) /\ plaintext = Piece(0, off[counter])
    BY <1>2 DEF WInv
  <2>9. off \in [Nat -> Nat] /\ textEnd \in Nat /\ Len(blocks) \in Nat
    <3>1. off \in [Nat -> Nat]
      BY <2>8 DEF Cuts
    <3>2. textEnd \in Nat
      BY <2>1, <2>2
    <3> QED BY <2>3, <3>1, <3>2
  <2>10. PICK cut \in [Nat -> Nat] : /\ cut[Len(blocks) + 1] = textEnd
                                    /\ \A k \in 0 .. Len(blocks) : cut[k] = off[k]
    <3> DEFINE n == Len(blocks)
    <3>1. off \in [Nat -> Nat] /\ n \in Nat /\ textEnd \in Nat
      BY <2>9
    <3> HIDE DEF n
    <3>2. \E cut \in [Nat -> Nat] : cut[n + 1] = textEnd /\ \A k \in 0 .. n : cut[k] = off[k]
      BY <3>1, OneCutMore
    <3> QED BY <3>2 DEF n
  <2>11. \A k \in 1 .. Len(blocks) : Len(blocks'[k].rest) = maxBlockLen'
    BY <1>2, <2>6, <2>7 DEF FullBlocks
  <2>12. /\ \A k \in 1 .. Len(blocks') : k \in 1 .. Len(blocks) \/ k = Len(blocks) + 1
         /\ \A k \in 1 .. Len(blocks') - 1 : k \in 1 .. Len(blocks)
    <3> DEFINE n == Len(blocks)
    <3>1. Len(blocks') = n + 1 /\ n \in Nat
      BY <2>3, <2>6
    <3> HIDE DEF n
    <3>2. (\A k \in 1 .. n + 1 : k \in 1 .. n \/ k = n + 1) /\ (\A k \in 1 .. n + 1 - 1 : k \in 1 .. n)
      BY <3>1
    <3> QED BY <3>1, <3>2 DEF n
  <2>13. Cuts(cut)'
    <3>1. cut[0] = 0 /\ cut[Len(blocks')] = textStart'
      BY <1>5, <2>3, <2>6, <2>8, <2>10 DEF Cuts
    <3>2. ASSUME NEW k \in 1 .. Len(blocks')
          PROVE  /\ cut[k] \in cut[k - 1] .. plaintextLen
                 /\ blocks'[k].padLen \in Nat
                 /\ blocks'[k] = [padLen |-> blocks'[k].padLen,
                                  rest |-> [i \in 1 .. blocks'[k].padLen |-> 0]
                                           \o SubSeq(Text, cut[k - 1] + 1, cut[k])]
      <4>1. CASE k \in 1 .. Len(blocks)
        <5>1. k \in 0 .. Len(blocks) /\ k - 1 \in 0 .. Len(blocks)
          BY <2>3, <4>1
        <5>2. cut[k] = off[k] /\ cut[k - 1] = off[k - 1] /\ blocks'[k] = blocks[k]
          BY <2>6, <2>10, <4>1, <5>1
        <5> QED BY <2>8, <4>1, <5>2 DEF Cuts, ece_aesgcm_encrypt_block
      <4>2. CASE k = Len(blocks) + 1
        <5>1. cut[k] = textEnd /\ cut[k - 1] = textStart /\ blocks'[k] = block
          BY <2>3, <2>6, <2>8, <2>10, <4>2 DEF Cuts
        <5>2. block.padLen = pad /\ pad \in Nat
          BY <2>1, <2>2, <2>4
        <5> QED BY <2>1, <2>4, <5>1, <5>2
      <4> QED BY <2>12, <4>1, <4>2
    <3> QED BY <1>3, <2>7, <2>10, <3>1, <3>2 DEF Cuts, ece_aesgcm_encrypt_block
  <2>14. plaintext' = Piece(0, cut[counter'])
    <3>1. counter = 0 /\ UNCHANGED <<counter, plaintext>> /\ 0 \in 0 .. Len(blocks)
      BY <1>2, <1>3, <2>3
    <3>2. cut[0] = off[0]
      BY <2>10, <3>1
    <3> QED BY <2>8, <3>1, <3>2
  <2>15. FullBlocks(Len(blocks))' \/ LastRecord(textEnd, end)
    <3>1. CASE Len(block.rest) >= maxBlockLen
      <4>1. Len(block.rest) = maxBlockLen'
        BY <2>1, <2>7, <3>1
      <4> QED BY <2>6, <2>11, <2>12, <4>1 DEF FullBlocks
    <3> QED BY <1>5, <3>1
  <2>16. ASSUME LastRecord(textEnd, end) PROVE Complete'
    <3>1. textStart' = plaintextLen'
      BY <1>3, <1>5, <2>5, <2>16
    <3>2. FullBlocks(Len(blocks) - 1)'
      BY <2>11, <2>12 DEF FullBlocks
    <3> QED BY <2>3, <2>6, <3>1, <3>2 DEF Complete
  <2> QED BY <1>1, <1>2, <1>3, <1>5, <2>13, <2>14, <2>15, <2>16 DEF WInv, OnlyWholeMessages
<1> QED BY <1>3, <1>4, <1>5

(* A round of decryption: the record it opens has the length of the        *)
(* client's records, unless it is the last that arrived, which is          *)
(* shorter.                                                                *)
LEMMA DecryptWhole == WInv /\ DecryptRecord => WInv'
<1> SUFFICES ASSUME WInv, DecryptRecord PROVE WInv'
  OBVIOUS
<1> DEFINE end       == IF rsIn > Len(ciphertext) - ciphertextStart
                        THEN Len(ciphertext) ELSE ciphertextStart + rsIn
           size      == end - ciphertextStart
           piece     == SubSeq(ciphertext, ciphertextStart + 1, end)
           block     == blocks[counter + 1]
<1>1. TInv'
  BY DecryptTyped DEF WInv
<1>2. stage = "decrypt" /\ TypeOK /\ InStep /\ Complete /\ result = "none"
  BY DEF DecryptRecord, WInv, TInv
<1>3. UNCHANGED <<senderRs, plaintextLen, textStart, blocks, buffer, ciphertext>>
  BY DEF DecryptRecord, message, sender
<1>4. \/ stage' = "done" /\ result' # "OK"
      \/ /\ Opens(piece)
         /\ plaintext' = plaintext \o ece_aesgcm_unpad(block)
         /\ counter' = counter + 1
         /\ ciphertextStart' = end
         /\ IF end = Len(ciphertext) THEN Ends("OK") ELSE UNCHANGED <<stage, result>>
  BY DEF DecryptRecord, Ends
<1>5. CASE stage' = "done" /\ result' # "OK"
  BY <1>1, <1>5 DEF WInv, OnlyWholeMessages
<1>6. CASE /\ Opens(piece)
           /\ plaintext' = plaintext \o ece_aesgcm_unpad(block)
           /\ counter' = counter + 1
           /\ ciphertextStart' = end
           /\ IF end = Len(ciphertext) THEN Ends("OK") ELSE UNCHANGED <<stage, result>>
  <2>1. /\ ciphertext \in Seq(Nat \X Nat) /\ Len(ciphertext) \in Nat
        /\ ciphertextStart \in 0 .. Len(ciphertext) /\ counter \in Nat
        /\ blocks \in Seq([padLen : Nat, rest : Seq(0 .. MaxText)]) /\ Len(blocks) \in Nat
        /\ plaintextLen \in Nat
    BY <1>2, Sizes DEF TypeOK
  <2>2. /\ rsIn \in Nat \ {0} /\ rsIn' = rsIn
        /\ ciphertextStart = rsIn * counter /\ ciphertextStart < Len(ciphertext)
        /\ Len(ciphertext) % rsIn # 0
    BY <1>2 DEF InStep, rsIn
  <2>3. counter + 1 \in 1 .. Len(blocks)
    BY <1>6, <2>1 DEF Opens
  <2>4. Len(block.rest) + Overhead = size
    <3>1. piece = [i \in 1 .. Len(block.rest) + Overhead |-> <<counter + 1, i>>]
      BY <1>6 DEF Opens
    <3>2. Len(block.rest) + Overhead \in Nat
      <4>1. block \in [padLen : Nat, rest : Seq(0 .. MaxText)]
        BY <2>1, <2>3, ElementTyped
      <4> QED BY <4>1, Sizes
    <3>3. Len([i \in 1 .. Len(block.rest) + Overhead |-> <<counter + 1, i>>]) = Len(block.rest) + Overhead
      BY <3>2
    <3>4. end \in ciphertextStart .. Len(ciphertext)
      BY <2>1, <2>2
    <3>5. Len(piece) = size
      <4> HIDE DEF end
      <4> QED BY <2>1, <3>4, SubSeqLength
    <3> HIDE DEF end, piece, block, size
    <3> QED BY <3>1, <3>3, <3>5
  <2>5. PICK off : Cuts(off) /\ plaintext = Piece(0, off[counter])
    BY <1>2 DEF WInv
  <2>6. plaintext' = Piece(0, off[counter + 1])
    <3>1. /\ off[counter] \in Nat /\ off[counter + 1] \in off[counter] .. plaintextLen
          /\ block.padLen \in Nat
          /\ block = ece_aesgcm_encrypt_block(block.padLen, off[counter], off[counter + 1])
      <4>1. PICK k \in 1 .. Len(blocks) : k = counter + 1
        BY <2>3
      <4>2. k - 1 = counter
        BY <2>1, <4>1
      <4>3. /\ off[k] \in off[k - 1] .. plaintextLen /\ blocks[k].padLen \in Nat
            /\ blocks[k] = ece_aesgcm_encrypt_block(blocks[k].padLen, off[k - 1], off[k])
        BY <2>5 DEF Cuts
      <4>4. off[counter] \in Nat
        BY <2>1, <2>5 DEF Cuts
      <4> QED BY <4>1, <4>2, <4>3, <4>4
    <3>2. ece_aesgcm_unpad(block) = Piece(off[counter], off[counter + 1])
      <4> DEFINE a == off[counter]
                 b == off[counter + 1]
      <4>1. plaintextLen \in Nat /\ a \in Nat /\ b \in a .. plaintextLen /\ block.padLen \in Nat
            /\ block = ece_aesgcm_encrypt_block(block.padLen, a, b)
        BY <2>1, <3>1
      <4> HIDE DEF a, b, block
      <4>2. ece_aesgcm_unpad(block) = Piece(a, b)
        BY <4>1, BlockUnpads
      <4> QED BY <4>2 DEF a, b
    <3>3. off[counter + 1] \in Nat /\ off[counter] <= off[counter + 1]
      <4> DEFINE a == off[counter]
                 b == off[counter + 1]
      <4>1. a \in Nat /\ b \in a .. plaintextLen /\ plaintextLen \in Nat
        BY <2>1, <3>1
      <4> HIDE DEF a, b
      <4>2. b \in Nat /\ a <= b
        BY <4>1
      <4> QED BY <4>2 DEF a, b
    <3> QED BY <1>6, <2>5, <3>1, <3>2, <3>3, Joined
  <2>7. end = Len(ciphertext) => size < rsIn
    <3>1. ASSUME end = Len(ciphertext), size >= rsIn PROVE FALSE
      <4>1. Len(ciphertext) = ciphertextStart + rsIn
        BY <2>1, <2>2, <3>1
      <4>2. rsIn * (counter + 1) = rsIn * counter + rsIn * 1
        BY <2>1, <2>2, Distributes
      <4>3. Len(ciphertext) = rsIn * (counter + 1) + 0
        BY <2>1, <2>2, <4>1, <4>2
      <4>4. Len(ciphertext) = rsIn * (Len(ciphertext) \div rsIn) + (Len(ciphertext) % rsIn)
            /\ Len(ciphertext) \div rsIn \in Nat /\ Len(ciphertext) % rsIn \in 0 .. rsIn - 1
        BY <2>1, <2>2, Division
      <4>5. 0 \in 0 .. rsIn - 1 /\ counter + 1 \in Nat
        BY <2>1, <2>2
      <4> QED BY <2>2, <4>3, <4>4, <4>5, Unique
    <3>2. size \in Int
      BY <2>1, <2>2
    <3> QED BY <2>2, <3>1, <3>2
  <2>8. CASE end = Len(ciphertext)
    <3>1. stage' = "done" /\ result' = "OK"
      BY <1>6, <2>8 DEF Ends
    <3>2. Text' = Text /\ rsOut' = rsOut
      BY <1>3 DEF Text, rsOut
    <3>3. CASE counter + 1 = Len(blocks)
      <4>1. off[counter + 1] = plaintextLen
        BY <1>2, <2>5, <3>3 DEF Cuts, Complete
      <4>2. Text = Piece(0, plaintextLen)
        BY <2>1 DEF Text, Piece
      <4> QED BY <1>1, <2>6, <3>1, <3>2, <4>1, <4>2 DEF WInv, OnlyWholeMessages
    <3>4. CASE counter + 1 < Len(blocks)
      <4>1. FullBlocks(Len(blocks) - 1) /\ counter + 1 \in 1 .. Len(blocks) - 1
        BY <1>2, <2>1, <3>4 DEF Complete
      <4>2. Len(block.rest) = maxBlockLen
        BY <4>1 DEF FullBlocks
      <4>3. rsOut \in Nat /\ Overhead \in Nat /\ maxBlockLen = rsOut - Overhead
        BY <1>2, Sizes DEF TypeOK, rsOut, maxBlockLen
      <4>4. rsOut = size /\ rsOut # rsIn
        <5> HIDE DEF end
        <5> QED BY <2>1, <2>2, <2>4, <2>7, <2>8, <4>2, <4>3
      <4>5. counter = 0
        <5>1. ASSUME counter # 0 PROVE FALSE
          <6>1. 1 \in 1 .. counter /\ 1 \in 1 .. Len(blocks) - 1
            BY <2>1, <4>1, <5>1
          <6>2. Len(blocks[1].rest) + Overhead = rsIn /\ Len(blocks[1].rest) = maxBlockLen
            BY <1>2, <4>1, <6>1 DEF InStep, FullBlocks
          <6> QED BY <4>3, <4>4, <6>2
        <5> QED BY <5>1
      <4> QED BY <1>1, <1>6, <2>2, <3>1, <3>2, <4>4, <4>5 DEF WInv, OnlyWholeMessages
    <3> QED BY <2>1, <2>3, <3>3, <3>4
  <2>9. CASE end # Len(ciphertext)
    <3>1. UNCHANGED <<stage, result>>
      BY <1>6, <2>9
    <3>2. end = ciphertextStart + rsIn /\ end < Len(ciphertext) /\ size = rsIn
      BY <2>1, <2>2, <2>9
    <3>3. rsIn * (counter + 1) = rsIn * counter + rsIn * 1
      BY <2>1, <2>2, Distributes
    <3>4. ciphertextStart' = rsIn * counter'
      BY <1>6, <2>1, <2>2, <3>2, <3>3
    <3>5. ASSUME NEW k \in 1 .. counter + 1 PROVE Len(blocks[k].rest) + Overhead = rsIn
      <4>1. CASE k = counter + 1
        BY <2>4, <3>2, <4>1
      <4>2. CASE k # counter + 1
        <5>1. k \in 1 .. counter
          BY <2>1, <4>2
        <5> QED BY <1>2, <5>1 DEF InStep
      <4> QED BY <4>1, <4>2
    <3>6. InStep'
      BY <1>3, <1>6, <2>1, <2>2, <2>3, <3>2, <3>4, <3>5 DEF InStep
    <3>7. Complete'
      BY <1>2, <1>3 DEF Complete, FullBlocks, maxBlockLen, rsOut
    <3>8. Cuts(off)' /\ plaintext' = Piece(0, off[counter'])
      BY <1>3, <1>6, <2>5, <2>6, CutsStay
    <3> QED BY <1>1, <1>2, <3>1, <3>6, <3>7, <3>8 DEF WInv, OnlyWholeMessages
  <2> QED BY <2>8, <2>9
<1> QED BY <1>4, <1>5, <1>6

(* Any step.                                                               *)
LEMMA NextWhole == WInv /\ [Next]_vars => WInv'
<1> SUFFICES ASSUME WInv, [Next]_vars PROVE WInv'
  OBVIOUS
<1>1. CASE UNCHANGED vars
  <2>1. UNCHANGED <<stage, senderRs, plaintextLen, textStart, blocks, ciphertext, counter,
                    ciphertextStart, plaintext, result>>
    BY <1>1 DEF vars, message, sender, receiver
  <2>2. TInv'
    BY NextTyped DEF WInv
  <2>3. \A off : Cuts(off) => Cuts(off)'
    BY <2>1, CutsStay
  <2>4. /\ FullBlocks(Len(blocks))' <=> FullBlocks(Len(blocks))
        /\ Complete' <=> Complete
        /\ InStep' <=> InStep
        /\ OnlyWholeMessages' <=> OnlyWholeMessages
    BY <2>1 DEF Complete, FullBlocks, maxBlockLen, rsOut, rsIn, InStep, OnlyWholeMessages, Text
  <2> QED BY <2>1, <2>2, <2>3, <2>4 DEF WInv
<1> QED BY <1>1, EarlyWhole, StartDecryptingWhole, EncryptWhole, DecryptWhole DEF Next

-----------------------------------------------------------------------------
(* What arrives as it was sent is decrypted.                               *)

(* The records are where they belong.                                      *)
Laid ==
  \A k \in 1 .. Len(blocks) : \A i \in 1 .. Len(blocks[k].rest) + Overhead :
    buffer[rsOut * (k - 1) + i] = <<k, i>>

(* The last record is a short one, and nothing is missing of any.          *)
LastLength == Len(blocks[Len(blocks)].rest) + Overhead

Sealed ==
  /\ Len(blocks) > 0
  /\ LastLength < rsOut
  /\ Len(buffer) = rsOut * (Len(blocks) - 1) + LastLength

(* The client cuts the ciphertext where the sender did.                    *)
SameCut == rsOut = rsIn \/ (Len(blocks) = 1 /\ Len(buffer) < rsIn)

(* The inductive invariant.                                                *)
IInv ==
  /\ WInv /\ EInv
  /\ stage \in {"start", "encrypt", "sent", "arrived", "decrypt"} => Laid
  /\ stage \in {"sent", "arrived", "decrypt"} => Sealed
  /\ IntactIsDecrypted

LEMMA InitIntact == Init => IInv
<1> SUFFICES ASSUME Init PROVE IInv
  OBVIOUS
<1>1. WInv /\ EInv
  BY InitWhole, InitEncrypts
<1>2. stage = "start" /\ blocks = <<>>
  BY DEF Init
<1> QED BY <1>1, <1>2 DEF IInv, Laid, IntactIsDecrypted

(* A byte of one of m records of r bytes.                                  *)
LEMMA InsideRecord ==
  ASSUME NEW r \in Nat \ {0}, NEW m \in Nat, NEW k \in 1 .. m, NEW i \in 1 .. r
  PROVE  r * (k - 1) + i \in 1 .. r * m
<1>1. k - 1 \in Nat /\ m - k \in Nat /\ k \in Nat
  OBVIOUS
<1>2. r * (k - 1) = r * k - r * 1 /\ r * (m - k) = r * m - r * k
  BY <1>1, Distributes
<1>3. {r * (k - 1), r * k, r * m, r * (m - k)} \subseteq Nat
  BY <1>1
<1> QED BY <1>2, <1>3

(* What a record put behind others adds to them.                           *)
LEMMA RecordLaid ==
  ASSUME NEW s \in Seq(Nat \X Nat), NEW k \in Nat, NEW n \in Nat,
         NEW t, t = s \o [i \in 1 .. n |-> <<k, i>>]
  PROVE  /\ Len(t) = Len(s) + n
         /\ \A i \in 1 .. Len(s) : t[i] = s[i]
         /\ \A i \in 1 .. n : t[Len(s) + i] = <<k, i>>
<1> DEFINE r == [i \in 1 .. n |-> <<k, i>>]
<1>1. r \in Seq(Nat \X Nat) /\ Len(r) = n /\ \A i \in 1 .. n : r[i] = <<k, i>>
  OBVIOUS
<1> HIDE DEF r
<1>2. ASSUME NEW i \in 1 .. n PROVE t[Len(s) + i] = <<k, i>>
  <2>1. i \in 1 .. Len(r)
    BY <1>1
  <2>2. (s \o r)[Len(s) + i] = r[i]
    BY <1>1, <2>1, Behind
  <2>3. t = s \o r
    BY DEF r
  <2> QED BY <1>1, <2>2, <2>3
<1>3. t = s \o r
  BY DEF r
<1> QED BY <1>1, <1>2, <1>3

(* A round of encryption lays a record.                                    *)
LEMMA EncryptIntact == IInv /\ EncryptRecord => IInv'
<1> SUFFICES ASSUME IInv, EncryptRecord PROVE IInv'
  OBVIOUS
<1>1. WInv' /\ EInv'
  BY EncryptWhole, EncryptFits DEF IInv
<1>2. CASE stage' = "done"
  <2>1. result' = "ENCRYPT_PADDING"
    BY <1>2 DEF EncryptRecord, Ends
  <2> QED BY <1>1, <1>2, <2>1 DEF IInv, IntactIsDecrypted
<1>3. CASE stage' # "done"
  <2>1. PICK block, n : RecordAdded(block, n)
    BY <1>3, RoundAdds DEF IInv
  <2>2. /\ buffer \in Seq(Nat \X Nat) /\ Len(buffer) \in Nat /\ Len(blocks) \in Nat
        /\ blocks \in Seq([padLen : Nat, rest : Seq(0 .. MaxText)])
    <3>1. TypeOK
      BY DEF IInv, EInv, TInv
    <3> QED BY <3>1 DEF TypeOK
  <2>3. /\ n = Len(block.rest) + Overhead /\ n \in Nat \ {0}
        /\ rsOut \in Nat \ {0} /\ rsOut' = rsOut
        /\ Len(buffer) = rsOut * Len(blocks)
    BY <2>1 DEF RecordAdded, EncryptRecord, message, rsOut
  <2>4. /\ Len(blocks') = Len(blocks) + 1
        /\ \A k \in 1 .. Len(blocks) : blocks'[k] = blocks[k]
        /\ blocks'[Len(blocks) + 1] = block
    BY <2>1, <2>2 DEF RecordAdded
  <2>5. /\ Len(buffer') = Len(buffer) + n
        /\ \A i \in 1 .. Len(buffer) : buffer'[i] = buffer[i]
        /\ \A i \in 1 .. n : buffer'[Len(buffer) + i] = <<Len(blocks) + 1, i>>
    <3>1. buffer' = buffer \o [i \in 1 .. n |-> <<Len(blocks) + 1, i>>]
      BY <2>1 DEF RecordAdded
    <3>2. buffer \in Seq(Nat \X Nat) /\ n \in Nat /\ Len(blocks) + 1 \in Nat
      BY <2>2, <2>3
    <3> QED BY <3>1, <3>2, RecordLaid
  <2>6. stage = "encrypt" /\ Laid /\ FullBlocks(Len(blocks)) /\ rsOut > Overhead
    BY DEF EncryptRecord, IInv, WInv, TInv
  <2>7. ASSUME NEW k \in 1 .. Len(blocks'), NEW i \in 1 .. Len(blocks'[k].rest) + Overhead
        PROVE  buffer'[rsOut * (k - 1) + i] = <<k, i>>
    <3>1. CASE k = Len(blocks) + 1
      <4>1. k - 1 = Len(blocks) /\ i \in 1 .. n
        BY <2>2, <2>3, <2>4, <2>7, <3>1
      <4> QED BY <2>3, <2>5, <3>1, <4>1
    <3>2. CASE k # Len(blocks) + 1
      <4>1. k \in 1 .. Len(blocks)
        BY <2>2, <2>4, <3>2
      <4>2. blocks'[k] = blocks[k] /\ Len(blocks[k].rest) = maxBlockLen
        BY <2>4, <2>6, <4>1 DEF FullBlocks
      <4>3. i \in 1 .. rsOut /\ i \in 1 .. Len(blocks[k].rest) + Overhead
        BY <2>3, <4>2, Sizes DEF maxBlockLen
      <4>4. buffer[rsOut * (k - 1) + i] = <<k, i>>
        BY <2>6, <4>1, <4>3 DEF Laid
      <4>5. rsOut * (k - 1) + i \in 1 .. Len(buffer)
        BY <2>2, <2>3, <4>1, <4>3, InsideRecord
      <4> QED BY <2>5, <4>4, <4>5
    <3> QED BY <3>1, <3>2
  <2>8. Laid'
    BY <2>3, <2>7 DEF Laid, Overhead
  <2>9. ASSUME stage' = "sent" PROVE Sealed'
    <3>1. n < rsOut
      BY <2>1, <2>9 DEF RecordAdded
    <3>2. LastLength' = n
      BY <2>3, <2>4 DEF LastLength, Overhead
    <3>3. Len(blocks') - 1 = Len(blocks) /\ Len(blocks') > 0
      BY <2>2, <2>4
    <3> QED BY <2>3, <2>5, <3>1, <3>2, <3>3 DEF Sealed
  <2>10. stage' \in {"sent", "encrypt"}
    BY <2>1 DEF RecordAdded
  <2> QED BY <1>1, <2>8, <2>9, <2>10 DEF IInv, IntactIsDecrypted
<1> QED BY <1>2, <1>3

(* The ciphertext as it was sent, if the client cuts it where the sender   *)
(* did: its last record is short for the client, too.                      *)
LEMMA SealedForClient ==
  ASSUME TInv, Sealed, SameCut
  PROVE  /\ LastLength \in Nat /\ LastLength >= Overhead /\ LastLength < rsIn
         /\ rsIn \in Nat \ {0} /\ Len(blocks) \in Nat \ {0}
         /\ Len(buffer) = rsIn * (Len(blocks) - 1) + LastLength
<1>1. blocks \in Seq([padLen : Nat, rest : Seq(0 .. MaxText)]) /\ Len(blocks) \in 1 .. Len(blocks)
  BY DEF TInv, TypeOK, Sealed
<1>2. blocks[Len(blocks)] \in [padLen : Nat, rest : Seq(0 .. MaxText)]
  BY <1>1, ElementTyped
<1>3. LastLength \in Nat /\ LastLength >= Overhead
  <2>1. Len(blocks[Len(blocks)].rest) \in Nat
    BY <1>2
  <2> QED BY <2>1, Sizes DEF LastLength
<1>4. rsIn \in Nat /\ rsOut \in Nat
  BY Sizes DEF TInv, TypeOK, rsOut
<1>5. CASE rsOut = rsIn
  BY <1>1, <1>3, <1>4, <1>5 DEF Sealed
<1>6. CASE Len(blocks) = 1 /\ Len(buffer) < rsIn
  <2>1. rsOut * (Len(blocks) - 1) = 0 /\ rsIn * (Len(blocks) - 1) = 0
    BY <1>4, <1>6
  <2>2. Len(buffer) = LastLength
    BY <1>3, <2>1 DEF Sealed
  <2> QED BY <1>1, <1>3, <1>4, <1>6, <2>1, <2>2
<1> QED BY <1>5, <1>6 DEF SameCut

(* k full records of r bytes and a short one of more than a tag of T bytes *)
(* are more than the tags of all of them.                                  *)
LEMMA MoreThanTags ==
  ASSUME NEW r \in Nat \ {0}, NEW T \in Nat \ {0}, NEW k \in Nat,
         NEW last \in Nat, T < last, last < r, NEW len \in Nat, len = r * k + last
  PROVE  /\ len \div r = k /\ len % r = last
         /\ T * (k + 1) \in Nat /\ T * (k + 1) < len
         /\ k + 1 <= len \div T
<1>1. len \div r = k /\ len % r = last
  <2> DEFINE q == len \div r
             x == len % r
  <2>1. q \in Nat /\ x \in 0 .. r - 1 /\ len = r * q + x
    BY Division
  <2>2. last \in 0 .. r - 1
    OBVIOUS
  <2>3. r * q + x = r * k + last
    BY <2>1
  <2> HIDE DEF q, x
  <2>4. q = k /\ x = last
    BY <2>1, <2>2, <2>3, Unique
  <2> QED BY <2>4 DEF q, x
<1>2. T * (k + 1) \in Nat /\ T * (k + 1) < len
  <2>1. T * (k + 1) = T * k + T * 1
    BY Distributes
  <2>2. T * k <= r * k
    BY Grows
  <2> QED BY <2>1, <2>2
<1>3. k + 1 <= len \div T
  <2> DEFINE q == len \div T
             x == len % T
  <2>1. q \in Nat /\ x \in 0 .. T - 1 /\ len = T * q + x
    BY Division
  <2> HIDE DEF q, x
  <2>2. ASSUME q <= k PROVE FALSE
    <3>1. q * T <= k * T
      BY <2>1, <2>2, Grows
    <3>2. T * (k + 1) = T * k + T * 1
      BY Distributes
    <3>3. q * T = T * q /\ k * T = T * k
      BY <2>1
    <3> QED BY <1>2, <2>1, <3>1, <3>2, <3>3
  <2>3. k + 1 <= q
    BY <2>1, <2>2
  <2> QED BY <2>3 DEF q
<1> QED BY <1>1, <1>2, <1>3

(* Records of overhead and more leave room for text.                       *)
LEMMA RoomForText ==
  ASSUME ciphertext \in Seq(Nat \X Nat), rsIn \in Nat \ {0},
         NEW k \in Nat, NEW last \in Nat, last >= Overhead, last < rsIn,
         Len(ciphertext) = rsIn * k + last
  PROVE  Len(ciphertext) % rsIn # 0 /\ capacity > 0
<1>1. /\ Len(ciphertext) \in Nat /\ ECE_TAG_LENGTH \in Nat \ {0}
      /\ Overhead \in Nat /\ ECE_TAG_LENGTH < Overhead
  BY Sizes DEF Overhead
<1>2. ECE_TAG_LENGTH < last /\ last # 0 /\ rsIn > Overhead
  BY <1>1
<1> DEFINE n == Len(ciphertext)
           q == n \div ECE_TAG_LENGTH
           tags == ECE_TAG_LENGTH * (k + 1)
<1>3. /\ n \div rsIn = k /\ n % rsIn = last
      /\ tags \in Nat /\ tags < n /\ k + 1 <= q
  BY <1>1, <1>2, MoreThanTags
<1>4. Records(n) = k + 1
  BY <1>2, <1>3 DEF Records
<1>5. capacity = IF rsIn <= Overhead \/ Records(n) > q THEN 0 ELSE n - ECE_TAG_LENGTH * Records(n)
  BY DEF capacity, ece_aesgcm_plaintext_max_length, ece_plaintext_max_length, rsIn, Records
<1>6. q \in Nat
  BY <1>1, Division
<1>7. capacity = IF rsIn <= Overhead \/ k + 1 > q THEN 0 ELSE n - tags
  BY <1>4, <1>5
<1>8. n \in Nat
  BY <1>1
<1> HIDE DEF n, q, tags
<1>9. capacity = n - tags
  BY <1>1, <1>2, <1>3, <1>6, <1>7
<1>10. capacity > 0
  BY <1>3, <1>8, <1>9
<1> QED BY <1>2, <1>3, <1>10 DEF n

LEMMA StartEncryptingIntact == IInv /\ StartEncrypting => IInv'
<1> SUFFICES ASSUME IInv, StartEncrypting PROVE IInv'
  OBVIOUS
<1>1. WInv' /\ EInv'
  BY EarlyWhole, StartEncryptingFits DEF IInv
<1>2. blocks' = <<>> /\ buffer' = <<>> /\ stage' \in {"encrypt", "done"}
  BY DEF StartEncrypting, sender, Ends, IInv, EInv
<1>3. Laid' /\ Len(buffer') = 0
  BY <1>2 DEF Laid
<1> QED BY <1>1, <1>2, <1>3 DEF IInv, IntactIsDecrypted

(* Encrypting over, the sender's records stay.                             *)
LEMMA SentStays ==
  ASSUME UNCHANGED <<senderRs, blocks, buffer>>
  PROVE  (Laid' <=> Laid) /\ (Sealed' <=> Sealed) /\ (SameCut' <=> SameCut)
BY DEF Laid, Sealed, SameCut, LastLength, rsOut, rsIn

LEMMA ArriveIntact == IInv /\ Arrive => IInv'
<1> SUFFICES ASSUME IInv, Arrive PROVE IInv'
  OBVIOUS
<1>1. WInv' /\ EInv'
  BY EarlyWhole, NextEncrypts DEF IInv, Next
<1>2. UNCHANGED <<senderRs, blocks, buffer>> /\ stage = "sent" /\ stage' = "arrived"
  BY DEF Arrive, message, sender
<1> QED BY <1>1, <1>2, SentStays DEF IInv, IntactIsDecrypted

(* Nothing is promised of a message that the client cuts elsewhere.        *)
LEMMA CutElsewhere ==
  ASSUME TypeOK', Len(blocks') # 0, ciphertext' = buffer' /\ SameCut' => result' = "OK"
  PROVE  IntactIsDecrypted'
<1>1. Len(blocks') \in Nat \ {0} /\ Len(buffer') \in Nat /\ rsIn' \in Nat
  <2>1. Len(blocks') \in Nat /\ Len(buffer') \in Nat
    BY DEF TypeOK
  <2>2. rsIn' = rsIn /\ rsIn \in Nat
    BY Sizes DEF rsIn
  <2> QED BY <2>1, <2>2
<1>2. CASE SameCut'
  BY <1>2 DEF IntactIsDecrypted
<1>3. CASE ~SameCut'
  <2>1. rsOut' # rsIn' /\ ~(Len(blocks') = 1 /\ Len(buffer') < rsIn')
    BY <1>3 DEF SameCut
  <2> DEFINE n == Len(blocks')
             b == Len(buffer')
             r == rsIn'
  <2>2. n > 1 \/ b >= r
    <3> HIDE DEF n, b, r
    <3>1. n \in Nat \ {0} /\ b \in Nat /\ r \in Nat /\ ~(n = 1 /\ b < r)
      BY <1>1, <2>1 DEF n, b, r
    <3> QED BY <3>1
  <2> QED BY <2>1, <2>2 DEF IntactIsDecrypted
<1> QED BY <1>2, <1>3

(* Decryption is tried, and nothing is taken for missing.                  *)
LEMMA StartDecryptingIntact == IInv /\ StartDecrypting => IInv'
<1> SUFFICES ASSUME IInv, StartDecrypting PROVE IInv'
  OBVIOUS
<1>1. WInv' /\ EInv'
  BY StartDecryptingWhole, NextEncrypts DEF IInv, Next
<1>2. UNCHANGED <<senderRs, blocks, buffer, ciphertext>> /\ stage = "arrived"
  BY DEF StartDecrypting, message, sender
<1>3. Laid /\ Sealed /\ Laid' /\ Sealed' /\ (SameCut' <=> SameCut)
  BY <1>2, SentStays DEF IInv
<1>4. CASE stage' = "decrypt"
  BY <1>1, <1>3, <1>4 DEF IInv, IntactIsDecrypted
<1>5. CASE stage' # "decrypt"
  <2>1. stage' = "done"
    BY <1>5 DEF StartDecrypting, Ends
  <2>2. ASSUME ciphertext = buffer, SameCut PROVE FALSE
    <3> DEFINE k == Len(blocks) - 1
    <3>1. TInv /\ buffer \in Seq(Nat \X Nat)
      BY DEF IInv, EInv, TInv, TypeOK
    <3>2. /\ LastLength \in Nat /\ LastLength >= Overhead /\ LastLength < rsIn
          /\ rsIn \in Nat \ {0} /\ k \in Nat
          /\ Len(ciphertext) = rsIn * k + LastLength
      BY <1>3, <2>2, <3>1, SealedForClient
    <3> HIDE DEF k
    <3>3. Len(ciphertext) % rsIn # 0 /\ capacity > 0
      BY <2>2, <3>1, <3>2, RoomForText
    <3>4. ciphertext # <<>>
      BY <3>1, <3>2, <3>3, Sizes DEF Overhead
    <3> QED BY <1>5, <2>1, <3>3, <3>4 DEF StartDecrypting, ece_aesgcm_needs_trailer
  <2>3. Len(blocks') # 0 /\ TypeOK'
    BY <1>1, <1>3 DEF Sealed, EInv, TInv
  <2>4. IntactIsDecrypted'
    BY <1>2, <1>3, <2>2, <2>3, CutElsewhere
  <2> QED BY <1>1, <2>1, <2>4 DEF IInv
<1> QED BY <1>4, <1>5

(* The next record opens, and what is in it is padding and text.           *)
LEMMA NextOpens ==
  ASSUME WInv, Laid, Sealed, SameCut, ciphertext = buffer, stage = "decrypt"
  PROVE  /\ recordLen > ECE_TAG_LENGTH
         /\ Opens(SubSeq(ciphertext, ciphertextStart + 1, ciphertextEnd))
         /\ Padding(blocks[counter + 1])
<1> DEFINE m     == Len(blocks)
           block == blocks[counter + 1]
           piece == SubSeq(ciphertext, ciphertextStart + 1, ciphertextEnd)
<1>1. TInv /\ TypeOK /\ InStep /\ Complete
  BY DEF WInv, TInv
<1>2. /\ ciphertext \in Seq(Nat \X Nat) /\ Len(ciphertext) \in Nat
      /\ counter \in Nat /\ plaintextLen \in Nat
      /\ blocks \in Seq([padLen : Nat, rest : Seq(0 .. MaxText)])
  BY <1>1, Sizes DEF TypeOK
<1>3. /\ LastLength \in Nat /\ LastLength >= Overhead /\ LastLength < rsIn
      /\ rsIn \in Nat \ {0} /\ m \in Nat \ {0}
      /\ Len(ciphertext) = rsIn * (m - 1) + LastLength
  BY <1>1, SealedForClient
<1>4. /\ counter \in 0 .. m /\ ciphertextStart = rsIn * counter
      /\ ciphertextStart < Len(ciphertext)
  BY <1>1 DEF InStep
<1>5. {rsIn * counter, rsIn * (m - 1)} \subseteq Nat
  BY <1>2, <1>3
<1>6. counter < m
  <2>1. ASSUME counter = m PROVE FALSE
    <3>1. rsIn * (m - 1) = rsIn * m - rsIn * 1
      BY <1>3, Distributes
    <3> QED BY <1>3, <1>4, <1>5, <2>1, <3>1
  <2> QED BY <1>3, <1>4, <2>1
<1>7. counter + 1 \in 1 .. m
  BY <1>2, <1>6
<1>8. block \in [padLen : Nat, rest : Seq(0 .. MaxText)] /\ Len(block.rest) \in Nat
  <2>1. block \in [padLen : Nat, rest : Seq(0 .. MaxText)]
    BY <1>2, <1>7, ElementTyped
  <2> QED BY <2>1
<1>9. recordLen = Len(block.rest) + Overhead /\ ciphertextEnd = ciphertextStart + recordLen
      /\ rsOut * counter = rsIn * counter /\ ciphertextEnd \in ciphertextStart .. Len(ciphertext)
  <2>1. CASE counter + 1 = m
    <3>1. LastLength = Len(block.rest) + Overhead /\ counter = m - 1
      BY <1>2, <1>3, <2>1 DEF LastLength
    <3>2. Len(ciphertext) - ciphertextStart = LastLength
      BY <1>3, <1>4, <1>5, <3>1
    <3>3. ciphertextEnd = Len(ciphertext)
      BY <1>3, <3>2 DEF ciphertextEnd
    <3>4. rsOut * counter = rsIn * counter
      <4>1. rsOut \in Nat
        BY <1>1, Sizes DEF TypeOK, rsOut
      <4>2. rsOut = rsIn \/ Len(blocks) = 1
        BY DEF SameCut
      <4>3. CASE Len(blocks) = 1
        <5>1. counter = 0
          BY <3>1, <4>3
        <5> QED BY <1>3, <4>1, <5>1
      <4> QED BY <4>2, <4>3
    <3>5. ciphertextStart \in Nat /\ ciphertextStart <= Len(ciphertext)
      BY <1>2, <1>4, <1>5
    <3>6. recordLen = LastLength
      BY <3>2, <3>3 DEF recordLen
    <3>7. ciphertextEnd = ciphertextStart + recordLen
      BY <1>2, <3>2, <3>3, <3>5, <3>6
    <3>8. ciphertextEnd \in ciphertextStart .. Len(ciphertext)
      BY <1>2, <3>3, <3>5
    <3> QED BY <3>1, <3>4, <3>6, <3>7, <3>8
  <2>2. CASE counter + 1 < m
    <3>1. rsOut = rsIn
      <4>1. rsOut = rsIn \/ Len(blocks) = 1
        BY DEF SameCut
      <4>2. m # 1
        <5> HIDE DEF m
        <5> QED BY <1>2, <2>2
      <4> QED BY <4>1, <4>2
    <3>2. Len(block.rest) + Overhead = rsIn
      <4>1. counter + 1 \in 1 .. Len(blocks) - 1
        BY <1>2, <1>3, <2>2
      <4>2. Len(block.rest) = rsOut - Overhead
        BY <1>1, <4>1 DEF Complete, FullBlocks, maxBlockLen
      <4> QED BY <1>3, <3>1, <4>2, Sizes
    <3>3. rsIn <= Len(ciphertext) - ciphertextStart
      <4>1. rsIn * (counter + 1) = rsIn * counter + rsIn * 1
        BY <1>2, <1>3, Distributes
      <4>2. (counter + 1) * rsIn <= (m - 1) * rsIn
        <5>1. counter + 1 \in Nat /\ m - 1 \in Nat /\ counter + 1 <= m - 1 /\ rsIn \in Nat
          BY <1>2, <1>3, <2>2
        <5> QED BY <5>1, Grows
      <4>3. (counter + 1) * rsIn = rsIn * (counter + 1) /\ (m - 1) * rsIn = rsIn * (m - 1)
        BY <1>2, <1>3
      <4> QED BY <1>3, <1>4, <1>5, <4>1, <4>2, <4>3
    <3>4. ciphertextEnd = ciphertextStart + rsIn
      BY <1>2, <1>3, <1>4, <1>5, <3>3 DEF ciphertextEnd
    <3>5. recordLen = rsIn
      BY <1>3, <1>4, <1>5, <3>4 DEF recordLen
    <3>6. ciphertextEnd \in ciphertextStart .. Len(ciphertext)
      BY <1>2, <1>3, <1>4, <1>5, <3>3, <3>4
    <3> QED BY <3>1, <3>2, <3>4, <3>5, <3>6
  <2> QED BY <1>2, <1>3, <1>6, <2>1, <2>2
<1>10. Opens(piece)
  <2> DEFINE n == Len(block.rest) + Overhead
  <2>1. n \in Nat /\ recordLen = n
    BY <1>8, <1>9, Sizes
  <2>2. ciphertextStart \in Nat /\ ciphertextEnd = ciphertextStart + n
        /\ ciphertextEnd \in ciphertextStart .. Len(ciphertext)
    BY <1>4, <1>5, <1>9
  <2>3. ASSUME NEW i \in 1 .. n PROVE ciphertext[ciphertextStart + i] = <<counter + 1, i>>
    <3>1. PICK k \in 1 .. Len(blocks) : k = counter + 1
      BY <1>7
    <3>2. k - 1 = counter /\ i \in 1 .. Len(blocks[k].rest) + Overhead
      BY <1>2, <3>1
    <3>3. buffer[rsOut * (k - 1) + i] = <<k, i>>
      BY <3>2 DEF Laid
    <3> QED BY <1>4, <1>9, <3>1, <3>2, <3>3
  <2> HIDE DEF n
  <2>4. piece \in Seq(Nat \X Nat) /\ Len(piece) = n
    BY <1>2, <2>1, <2>2, SubSeqTyped, SubSeqLength
  <2>5. \A i \in 1 .. n : piece[i] = <<counter + 1, i>>
    BY <1>2, <2>1, <2>2, <2>3
  <2>6. piece = [i \in 1 .. n |-> <<counter + 1, i>>]
    <3> HIDE DEF piece
    <3>1. piece = [i \in 1 .. Len(piece) |-> piece[i]]
      BY <2>4
    <3> QED BY <2>4, <2>5, <3>1
  <2> QED BY <1>6, <2>6 DEF Opens, n
<1>11. Padding(block)
  <2>1. PICK off : Cuts(off)
    BY DEF WInv
  <2>2. PICK k \in 1 .. Len(blocks) : k = counter + 1
    BY <1>7
  <2>3. /\ off[k - 1] \in Nat /\ off[k] \in off[k - 1] .. plaintextLen /\ blocks[k].padLen \in Nat
        /\ blocks[k] = ece_aesgcm_encrypt_block(blocks[k].padLen, off[k - 1], off[k])
    <3>1. k - 1 \in Nat
      BY <1>2, <2>2
    <3> QED BY <2>1, <3>1 DEF Cuts
  <2> QED BY <1>2, <2>2, <2>3, BlockUnpads
<1>12. recordLen > ECE_TAG_LENGTH
  <2>1. Overhead > ECE_TAG_LENGTH
    BY Sizes DEF Overhead
  <2> QED BY <1>8, <1>9, <2>1, Sizes
<1> QED BY <1>10, <1>11, <1>12

(* A round of decryption opens its record.                                 *)
LEMMA DecryptIntact == IInv /\ DecryptRecord => IInv'
<1> SUFFICES ASSUME IInv, DecryptRecord PROVE IInv'
  OBVIOUS
<1>1. WInv' /\ EInv'
  BY DecryptWhole, NextEncrypts DEF IInv, Next
<1>2. UNCHANGED <<senderRs, blocks, buffer, ciphertext>> /\ stage = "decrypt"
  BY DEF DecryptRecord, message, sender
<1>3. Laid /\ Sealed /\ Laid' /\ Sealed' /\ (SameCut' <=> SameCut)
  BY <1>2, SentStays DEF IInv
<1>4. CASE stage' = "decrypt"
  BY <1>1, <1>3, <1>4 DEF IInv, IntactIsDecrypted
<1>5. CASE stage' # "decrypt"
  <2>1. stage' = "done"
    BY <1>2, <1>5 DEF DecryptRecord, Ends
  <2>2. ASSUME ciphertext = buffer, SameCut PROVE result' = "OK"
    <3>1. /\ recordLen > ECE_TAG_LENGTH
          /\ Opens(SubSeq(ciphertext, ciphertextStart + 1, ciphertextEnd))
          /\ Padding(blocks[counter + 1])
      BY <1>2, <1>3, <2>2, NextOpens DEF IInv
    <3>2. recordLen \in Int
      <4>1. TypeOK
        BY DEF IInv, EInv, TInv
      <4> QED BY <4>1, Sizes DEF TypeOK, recordLen, ciphertextEnd
    <3>3. ~(recordLen <= ECE_TAG_LENGTH)
      BY <3>1, <3>2, Sizes
    <3> QED BY <1>2, <1>5, <3>1, <3>3 DEF DecryptRecord, Ends, ciphertextEnd, recordLen
  <2>3. Len(blocks') # 0 /\ TypeOK'
    BY <1>1, <1>3 DEF Sealed, EInv, TInv
  <2>4. IntactIsDecrypted'
    BY <1>2, <1>3, <2>2, <2>3, CutElsewhere
  <2> QED BY <1>1, <2>1, <2>4 DEF IInv
<1> QED BY <1>4, <1>5

(* Any step.                                                               *)
LEMMA NextIntact == IInv /\ [Next]_vars => IInv'
<1> SUFFICES ASSUME IInv, [Next]_vars PROVE IInv'
  OBVIOUS
<1>1. CASE UNCHANGED vars
  <2>1. WInv' /\ EInv'
    BY <1>1, NextWhole, NextEncrypts DEF IInv
  <2>2. UNCHANGED <<stage, senderRs, blocks, buffer, ciphertext, result>>
    BY <1>1 DEF vars, message, sender
  <2>3. IntactIsDecrypted' <=> IntactIsDecrypted
    BY <2>2 DEF IntactIsDecrypted, rsOut, rsIn
  <2> QED BY <2>1, <2>2, <2>3, SentStays DEF IInv
<1> QED BY <1>1, StartEncryptingIntact, EncryptIntact, ArriveIntact, StartDecryptingIntact,
           DecryptIntact DEF Next

-----------------------------------------------------------------------------

(* What the client takes for a message is all of the message: whatever was *)
(* left out or exchanged on the way, what ece_decrypt_records passes on is *)
(* never a part of the text, but for the first record of a sender with     *)
(* another record size.                                                    *)
THEOREM NothingPartial == Spec => []OnlyWholeMessages
<1>1. WInv => OnlyWholeMessages
  BY DEF WInv
<1> QED BY <1>1, InitWhole, NextWhole, PTL DEF Spec

(* A ciphertext that arrives as it was sent is decrypted: no padding, no   *)
(* full last record and no rest of the buffer makes ece_decrypt_records    *)
(* refuse what ece_encrypt_records made, if both use one record size, or   *)
(* the message is one record and short for the client.                     *)
THEOREM IntactIsShown == Spec => []IntactIsDecrypted
<1>1. IInv => IntactIsDecrypted
  BY DEF IInv
<1> QED BY <1>1, InitIntact, NextIntact, PTL DEF Spec
=============================================================================

----------------------------- MODULE EceRecords -----------------------------
(***************************************************************************)
(* A push message through the record format of Http_ece, scheme "aesgcm":  *)
(* encrypt.c cuts text and padding into records, the ciphertext travels,   *)
(* and HandleDataMessageStanzaTag decrypts it into a buffer of the length  *)
(* it was told to allocate.  The client always reads with RS_LENGTH,       *)
(* whatever record size the sender used.                                   *)
(*                                                                         *)
(* Encryption itself is ideal: a record is opened only by its own counter, *)
(* and only if it arrived byte for byte.  A byte of the ciphertext is      *)
(* therefore just <<record, position>>; bytes of the text are numbered.    *)
(***************************************************************************)
EXTENDS Integers, Sequences

CONSTANTS
  ECE_TAG_LENGTH, ECE_AESGCM_PAD_SIZE,
  UINT16_MAX, UINT32_MAX,
  RS_LENGTH,            (* the client's record size                        *)
  RecordSizes,          (* those of senders                                *)
  MaxText, MaxPadding   (* bounds: of a message                            *)

ASSUME EceAssumption ==
  /\ ECE_TAG_LENGTH \in Nat \ {0} /\ ECE_AESGCM_PAD_SIZE \in Nat \ {0}
  /\ {UINT16_MAX, UINT32_MAX, MaxText, MaxPadding} \subseteq Nat
  /\ RecordSizes \cup {RS_LENGTH} \subseteq 1 .. UINT32_MAX

VARIABLES
  stage,                                  (* where the message is          *)
  senderRs, plaintextLen, maxCiphertextLen,
  padLen, textStart, blocks, buffer,      (* the encryption loop           *)
  ciphertext,                             (* as the client got it          *)
  counter, ciphertextStart, plaintext,    (* the decryption loop           *)
  written,                                (* history: end of the last byte *)
                                          (* written to the client's buffer *)
  result                                  (* ECE_OK or the error           *)

message  == <<senderRs, plaintextLen, maxCiphertextLen>>
sender   == <<padLen, textStart, blocks, buffer>>
receiver == <<counter, ciphertextStart, plaintext, written>>
vars     == <<stage, message, sender, ciphertext, receiver, result>>

Overhead == ECE_AESGCM_PAD_SIZE + ECE_TAG_LENGTH

TypeOK ==
  /\ stage \in {"start", "encrypt", "sent", "arrived", "decrypt", "done"}
  /\ senderRs \in RecordSizes
  /\ plaintextLen \in 0 .. MaxText
  /\ {maxCiphertextLen, padLen, counter, written} \subseteq Nat
  /\ textStart \in 0 .. plaintextLen
  /\ blocks \in Seq([padLen : Nat, rest : Seq(0 .. MaxText)])
  /\ buffer \in Seq(Nat \X Nat)
  /\ ciphertext \in Seq(Nat \X Nat)
  /\ ciphertextStart \in 0 .. Len(ciphertext)
  /\ plaintext \in Seq(0 .. MaxText)
  /\ result \in {"none", "OK", "ZERO_PLAINTEXT", "INVALID_RS", "ENCRYPT_PADDING", "NOT_TRIED",
                 "DECRYPT", "DECRYPT_TRUNCATED", "DECRYPT_PADDING", "SHORT_BLOCK"}

Init ==
  /\ stage = "start"
  /\ senderRs \in RecordSizes
  /\ plaintextLen \in 0 .. MaxText
  /\ padLen \in 0 .. MaxPadding
  /\ maxCiphertextLen = 0
  /\ textStart = 0 /\ blocks = <<>> /\ buffer = <<>>
  /\ ciphertext = <<>>
  /\ counter = 0 /\ ciphertextStart = 0 /\ plaintext = <<>> /\ written = 0
  /\ result = "none"

Ends(r) == stage' = "done" /\ result' = r

-----------------------------------------------------------------------------
(* Record sizes and buffer lengths.                                        *)

ece_aesgcm_rs(rs) == IF rs > UINT32_MAX - ECE_TAG_LENGTH THEN 0 ELSE rs + ECE_TAG_LENGTH

(* (A slip: a ciphertext that ends with a full record is complete.)        *)
SlipNeedsNoTrailer(rs, len) == FALSE

(* A ciphertext that ends with a full record is incomplete.                *)
ece_aesgcm_needs_trailer(rs, len) == len % rs = 0

(* (A slip: no room for the empty record behind a last full one.)          *)
SlipNoTrailerRecord(rs, pad, len) ==
  LET numRecords == (len + pad) \div (rs - Overhead) + (IF len % rs = 0 THEN 0 ELSE 1)
  IN  IF rs <= Overhead THEN 0 ELSE len + pad + Overhead * numRecords

ece_ciphertext_max_length(rs, pad, len) ==
  LET numRecords == (len + pad) \div (rs - Overhead)
                    + (IF len % rs # 0 \/ ece_aesgcm_needs_trailer(rs, len) THEN 1 ELSE 0)
  IN  IF rs <= Overhead THEN 0 ELSE len + pad + Overhead * numRecords

(* (A slip: the padding's length is left out of every record.)             *)
SlipNoPadBytes(rs, len) ==
  LET numRecords == len \div rs + (IF len % rs # 0 THEN 1 ELSE 0)
  IN  IF rs <= Overhead \/ numRecords > len \div ECE_TAG_LENGTH
      THEN 0 ELSE len - Overhead * numRecords

ece_plaintext_max_length(rs, len) ==
  LET numRecords == len \div rs + (IF len % rs # 0 THEN 1 ELSE 0)
  IN  IF rs <= Overhead \/ numRecords > len \div ECE_TAG_LENGTH
      THEN 0 ELSE len - ECE_TAG_LENGTH * numRecords

(* What the client asks before it allocates its buffer.                    *)
ece_aesgcm_plaintext_max_length(len) ==
  LET rs == ece_aesgcm_rs(RS_LENGTH)
  IN  IF rs = 0 THEN 0 ELSE ece_plaintext_max_length(rs, len)

-----------------------------------------------------------------------------
(* Encryption.                                                             *)

rsOut       == ece_aesgcm_rs(senderRs)
maxBlockLen == rsOut - Overhead

Text == [i \in 1 .. plaintextLen |-> i]

Least(a, b) == IF a > b THEN b ELSE a

(* (A slip: the padding that is left is not looked at.)                    *)
SlipPadsAnyway(pad) == IF maxBlockLen = 1 THEN pad ELSE maxBlockLen - 1

(* One byte of text at least in every block, if it holds more than one; no *)
(* more padding than its length field can say.                             *)
ece_aesgcm_min_block_pad_length(pad) ==
  LET most == IF pad > 0 /\ maxBlockLen = 1 THEN 1 ELSE maxBlockLen - 1
  IN  Least(Least(most, pad), UINT16_MAX)

StartEncrypting ==
  /\ stage = "start"
  /\ \/ rsOut = 0 /\ Ends("INVALID_RS") /\ UNCHANGED maxCiphertextLen
     \/ rsOut > 0 /\ plaintextLen = 0 /\ Ends("ZERO_PLAINTEXT") /\ UNCHANGED maxCiphertextLen
     \/ /\ rsOut > 0 /\ plaintextLen > 0
        /\ maxCiphertextLen' = ece_ciphertext_max_length(rsOut, padLen, plaintextLen)
        /\ \/ maxCiphertextLen' = 0 /\ Ends("INVALID_RS")
           \/ maxCiphertextLen' > 0 /\ stage' = "encrypt" /\ UNCHANGED result
  /\ UNCHANGED <<senderRs, plaintextLen, sender, ciphertext, receiver>>

(* (A slip: the last record need not be shorter than the others.)          *)
SlipLastWhenExhausted(textEnd, end) == padLen' = 0 /\ textEnd = plaintextLen

LastRecord(textEnd, end) ==
  padLen' = 0 /\ textEnd = plaintextLen /\ ~ece_aesgcm_needs_trailer(rsOut, end)

(* The padding's length, the padding, the text.                            *)
ece_aesgcm_encrypt_block(pad, from, to) ==
  [padLen |-> pad, rest |-> [i \in 1 .. pad |-> 0] \o SubSeq(Text, from + 1, to)]

(* One round of the loop.  A record that would not fit is cut off at the   *)
(* end of the buffer.                                                      *)
EncryptRecord ==
  /\ stage = "encrypt"
  /\ LET blockPadLen == ece_aesgcm_min_block_pad_length(padLen)
         room        == maxBlockLen - blockPadLen
         textEnd     == IF room >= plaintextLen - textStart THEN plaintextLen ELSE textStart + room
         block       == ece_aesgcm_encrypt_block(blockPadLen, textStart, textEnd)
         recordLen   == Len(block.rest) + Overhead
         end         == IF recordLen >= maxCiphertextLen - Len(buffer)
                        THEN maxCiphertextLen ELSE Len(buffer) + recordLen
     IN  /\ padLen' = padLen - blockPadLen
         /\ \/ /\ ~LastRecord(textEnd, end) /\ Len(block.rest) < maxBlockLen
               /\ Ends("ENCRYPT_PADDING")
               /\ UNCHANGED <<textStart, blocks, buffer>>
            \/ /\ LastRecord(textEnd, end) \/ Len(block.rest) >= maxBlockLen
               /\ textStart' = textEnd
               /\ blocks' = Append(blocks, block)
               /\ buffer' = buffer \o [i \in 1 .. end - Len(buffer) |-> <<Len(blocks) + 1, i>>]
               /\ stage' = IF LastRecord(textEnd, end) THEN "sent" ELSE "encrypt"
               /\ UNCHANGED result
  /\ UNCHANGED <<message, ciphertext, receiver>>

-----------------------------------------------------------------------------
(* What arrives: the ciphertext, or its beginning, or all but one record,  *)
(* or all with two neighbours exchanged.                                   *)

Between(i, j) == SubSeq(buffer, i + 1, j)
RecordEnd(k)  == Least(k * rsOut, Len(buffer))

Arrive ==
  /\ stage = "sent"
  /\ stage' = "arrived"
  /\ \/ ciphertext' = buffer
     \/ \E n \in 0 .. Len(buffer) : ciphertext' = Between(0, n)
     \/ \E k \in 1 .. Len(blocks) :
          ciphertext' = Between(0, RecordEnd(k - 1)) \o Between(RecordEnd(k), Len(buffer))
     \/ \E k \in 1 .. Len(blocks) - 1 :
          ciphertext' = Between(0, RecordEnd(k - 1)) \o Between(RecordEnd(k), RecordEnd(k + 1))
                        \o Between(RecordEnd(k - 1), RecordEnd(k)) \o Between(RecordEnd(k + 1), Len(buffer))
  /\ UNCHANGED <<message, sender, receiver, result>>

-----------------------------------------------------------------------------
(* Decryption.                                                             *)

rsIn     == ece_aesgcm_rs(RS_LENGTH)
capacity == ece_aesgcm_plaintext_max_length(Len(ciphertext))

StartDecrypting ==
  /\ stage = "arrived"
  /\ \/ ciphertext = <<>> /\ Ends("NOT_TRIED")
     \/ ciphertext # <<>> /\ capacity = 0 /\ Ends("NOT_TRIED")
     \/ /\ ciphertext # <<>> /\ capacity > 0
        /\ \/ ece_aesgcm_needs_trailer(rsIn, Len(ciphertext)) /\ Ends("DECRYPT_TRUNCATED")
           \/ /\ ~ece_aesgcm_needs_trailer(rsIn, Len(ciphertext))
              /\ stage' = "decrypt"
              /\ UNCHANGED result
  /\ UNCHANGED <<message, sender, ciphertext, receiver>>

(* A record opens at its own place, and whole.                             *)
Opens(piece) ==
  /\ counter < Len(blocks)
  /\ piece = [i \in 1 .. Len(blocks[counter + 1].rest) + Overhead |-> <<counter + 1, i>>]

Padding(block) == block.padLen <= Len(block.rest) /\ \A i \in 1 .. block.padLen : block.rest[i] = 0

ece_aesgcm_unpad(block) == SubSeq(block.rest, block.padLen + 1, Len(block.rest))

(* One round of the loop.  The decrypted bytes are in the buffer before    *)
(* the tag is looked at.                                                   *)
DecryptRecord ==
  /\ stage = "decrypt"
  /\ LET ciphertextEnd == IF rsIn > Len(ciphertext) - ciphertextStart
                          THEN Len(ciphertext) ELSE ciphertextStart + rsIn
         recordLen == ciphertextEnd - ciphertextStart
         piece     == SubSeq(ciphertext, ciphertextStart + 1, ciphertextEnd)
         blockEnd  == Len(plaintext) + recordLen - ECE_TAG_LENGTH
     IN  \/ /\ recordLen <= ECE_TAG_LENGTH
            /\ Ends("SHORT_BLOCK")
            /\ UNCHANGED receiver
         \/ /\ recordLen > ECE_TAG_LENGTH
            /\ written' = IF blockEnd > written THEN blockEnd ELSE written
            /\ \/ /\ ~Opens(piece)
                  /\ Ends("DECRYPT")
                  /\ UNCHANGED <<counter, ciphertextStart, plaintext>>
               \/ /\ Opens(piece)
                  /\ \/ /\ ~Padding(blocks[counter + 1])
                        /\ Ends("DECRYPT_PADDING")
                        /\ UNCHANGED <<counter, ciphertextStart, plaintext>>
                     \/ /\ Padding(blocks[counter + 1])
                        /\ plaintext' = plaintext \o ece_aesgcm_unpad(blocks[counter + 1])
                        /\ counter' = counter + 1
                        /\ ciphertextStart' = ciphertextEnd
                        /\ IF ciphertextEnd = Len(ciphertext)
                           THEN Ends("OK") ELSE UNCHANGED <<stage, result>>
  /\ UNCHANGED <<message, sender, ciphertext>>

Next == StartEncrypting \/ EncryptRecord \/ Arrive \/ StartDecrypting \/ DecryptRecord

Spec == Init /\ [][Next]_vars

-----------------------------------------------------------------------------

(* The buffer encrypt.c asks for, and cuts records off at, is exact: every *)
(* record gets as many bytes as its block, its padding length and its tag  *)
(* need, and only the last leaves no room behind it.                       *)
EncryptionFits ==
  /\ Len(blocks) > 0 => buffer[Len(buffer)] =
                           <<Len(blocks), Len(blocks[Len(blocks)].rest) + Overhead>>
  /\ stage \notin {"start", "encrypt", "done"} => Len(buffer) = maxCiphertextLen

(* What the client takes for the message is the message, all of it,        *)
(* whatever was left out or exchanged on the way.  Only a sender with      *)
(* another record size can have lost all but its first record unnoticed.   *)
OnlyWholeMessages ==
  result = "OK" => plaintext = Text \/ (rsOut # rsIn /\ counter = 1)

(* A ciphertext that arrives as it was sent is decrypted, however text and *)
(* padding fell into records: always if the sender's record size is the    *)
(* client's, otherwise if it is one record shorter than the client's.      *)
IntactIsDecrypted ==
  stage = "done" /\ ciphertext = buffer /\ Len(buffer) > 0 /\ result # "ENCRYPT_PADDING" =>
    \/ result = "OK"
    \/ /\ rsOut # rsIn
       /\ Len(blocks) > 1 \/ Len(buffer) >= rsIn

(* What is left behind the last full record of what arrived is nothing, or *)
(* holds a whole tag.                                                      *)
EndsWithATag == Len(ciphertext) % rsIn \notin 1 .. ECE_TAG_LENGTH - 1

(* Decryption never writes behind the end of the client's buffer, if what  *)
(* arrived does not end inside a tag.                                      *)
FitsIfTagged == EndsWithATag => written <= capacity

(* The same whatever arrived: "Make sure the plaintext array is large      *)
(* enough to hold the full plaintext", ece_decrypt_records.                *)
PlaintextFits == written <= capacity
=============================================================================

----------------------- MODULE MessageDelivery_proofs -----------------------
(***************************************************************************)
(* That what was shown stays on record, and is shown once, for any number  *)
(* of messages, sessions, kills and broken connections.                    *)
(***************************************************************************)
EXTENDS SharedClient, TLAPS

Frames == Messages \cup {LoginResponse}

(* What this session went through of the queue.                            *)
Offered == {queued[k] : k \in 1 .. cursor}

QueuedOnce == \A i, j \in DOMAIN queued : queued[i] = queued[j] => i = j

ResponseAhead == stream # <<>> /\ stream[1] = LoginResponse

(* What the client's list stands for, by where the session is: the file as *)
(* it was loaded, until the login is answered; afterwards, whatever the    *)
(* file names besides it is acknowledged.                                  *)
ListAndFile ==
  /\ NoId \notin file
  /\ link = "login" => m_PersistentIds \ {NoId} = file
  /\ link = "open" =>
       /\ file \subseteq acked \cup m_PersistentIds
       /\ ResponseAhead => file \subseteq acked
       /\ m_PersistentIds \ {NoId} \subseteq acked \cup Offered
       /\ NoId \in m_PersistentIds => ResponseAhead \/ (stream = <<>> /\ broken)

(* What is on its way: the login response first, and then, once each,      *)
(* messages that were neither acknowledged nor received.                   *)
StreamFresh ==
  /\ link \in {"down", "login"} => stream = <<>>
  /\ link = "rejected" => \A i \in DOMAIN stream : stream[i] = LoginResponse
  /\ \A i \in DOMAIN stream : stream[i] = LoginResponse => i = 1
  /\ \A i, j \in DOMAIN stream : stream[i] = stream[j] => i = j
  /\ link = "open" =>
       \A i \in DOMAIN stream :
         stream[i] # LoginResponse =>
           stream[i] \in Offered /\ stream[i] \notin acked \cup m_PersistentIds

(* Whatever the server will be told of has been shown, or was lost.        *)
Explained ==
  \A m \in acked \cup file \cup (m_PersistentIds \ {NoId}) :
    Kind[m] = "good" => shown[m] > 0 \/ m \in lost

DInv ==
  /\ TypeOK
  /\ QueuedOnce /\ ListAndFile /\ StreamFresh /\ Explained
  /\ ShownOnRecord /\ ShownAtMostOnce

-----------------------------------------------------------------------------

LEMMA TypeFacts ==
  ASSUME TypeOK
  PROVE  /\ queued \in Seq(Messages) /\ Len(queued) \in Nat /\ DOMAIN queued = 1 .. Len(queued)
         /\ cursor \in Nat /\ cursor <= Len(queued)
         /\ stream \in Seq(Frames) /\ Len(stream) \in Nat /\ DOMAIN stream = 1 .. Len(stream)
         /\ acked \subseteq Messages /\ lost \subseteq Messages
         /\ m_PersistentIds \subseteq Messages \cup {NoId}
         /\ file \subseteq Messages \cup {NoId}
         /\ shown \in [Messages -> 0 .. 2] /\ delivered \in [Messages -> 0 .. 2]
         /\ troubles \in Nat /\ writeFaults \in Nat
         /\ LoginResponse \notin Messages /\ NoId \notin Messages
BY DeliveryAssumption DEF TypeOK, Frames

LEMMA CountUp ==
  ASSUME NEW f \in [Messages -> 0 .. 2], NEW m \in Messages
  PROVE  /\ Count(f, m) \in [Messages -> 0 .. 2]
         /\ Count(f, m)[m] > 0
         /\ \A n \in Messages : n # m => Count(f, m)[n] = f[n]
         /\ f[m] = 0 => Count(f, m)[m] = 1
BY DEF Count

LEMMA InitEstablishes == Init => DInv
<1> SUFFICES ASSUME Init PROVE DInv
  OBVIOUS
<1>1. TypeOK
  <2>1. queued \in Seq(Messages) /\ cursor \in 0 .. Len(queued)
        /\ stream \in Seq(Messages \cup {LoginResponse})
    BY DEF Init
  <2>2. shown \in [Messages -> 0 .. 2] /\ delivered \in [Messages -> 0 .. 2]
    BY DEF Init
  <2>3. troubles \in 0 .. MaxTroubles /\ writeFaults \in 0 .. MaxWriteFaults
    BY DeliveryAssumption DEF Init
  <2>4. QED
    BY <2>1, <2>2, <2>3 DEF Init, TypeOK, Links
<1>2. QueuedOnce /\ ListAndFile /\ StreamFresh /\ Explained
  BY DEF Init, QueuedOnce, ListAndFile, StreamFresh, Explained
<1>3. ShownOnRecord /\ ShownAtMostOnce
  BY DEF Init, ShownOnRecord, ShownAtMostOnce
<1>4. QED
  BY <1>1, <1>2, <1>3 DEF DInv

LEMMA PublishPreserves ==
  ASSUME DInv, NEW m \in Messages, Publish(m)
  PROVE  DInv'
<1>1. TypeOK /\ QueuedOnce /\ ListAndFile /\ StreamFresh /\ Explained
      /\ ShownOnRecord /\ ShownAtMostOnce
  BY DEF DInv
<1>2. /\ \A i \in 1 .. Len(queued) : queued[i] # m
      /\ queued' = Append(queued, m)
      /\ UNCHANGED <<acked, cursor, link, broken, stream, m_PersistentIds, file, shown,
                     delivered, lost, troubles, writeFaults>>
  BY DEF Publish, history, bounds
<1>3. /\ queued' \in Seq(Messages) /\ Len(queued') = Len(queued) + 1
      /\ DOMAIN queued' = 1 .. Len(queued) + 1
      /\ \A i \in 1 .. Len(queued) : queued'[i] = queued[i]
      /\ queued'[Len(queued) + 1] = m
      /\ Len(queued) \in Nat /\ DOMAIN queued = 1 .. Len(queued)
      /\ cursor \in Nat /\ cursor <= Len(queued)
  BY <1>1, <1>2, TypeFacts
<1>4. TypeOK'
  BY <1>1, <1>2, <1>3 DEF TypeOK
<1>5. QueuedOnce'
  <2> SUFFICES ASSUME NEW i \in DOMAIN queued', NEW j \in DOMAIN queued',
                      queued'[i] = queued'[j]
               PROVE  i = j
    BY DEF QueuedOnce
  <2>1. CASE i \in 1 .. Len(queued) /\ j \in 1 .. Len(queued)
    BY <1>1, <1>3, <2>1 DEF QueuedOnce
  <2>2. CASE i = Len(queued) + 1 \/ j = Len(queued) + 1
    BY <1>2, <1>3, <2>2
  <2>3. QED
    BY <1>3, <2>1, <2>2
<1>6. Offered' = Offered
  BY <1>2, <1>3 DEF Offered
<1>7. ListAndFile' /\ StreamFresh' /\ Explained' /\ ShownOnRecord' /\ ShownAtMostOnce'
  BY <1>1, <1>2, <1>6
     DEF ListAndFile, ResponseAhead, StreamFresh, Explained, ShownOnRecord, ShownAtMostOnce
<1>8. QED
  BY <1>4, <1>5, <1>7 DEF DInv

(* Common to accepting and rejecting.                                      *)
LEMMA AnsweredStream ==
  ASSUME Answered, broken \in BOOLEAN
  PROVE  /\ stream' \in Seq(Frames)
         /\ \A i \in DOMAIN stream' : i = 1 /\ stream'[i] = LoginResponse
         /\ stream' = <<>> \/ stream'[1] = LoginResponse
         /\ stream' = <<>> <=> broken
<1>1. CASE broken
  BY <1>1 DEF Answered
<1>2. CASE ~broken
  <2>1. stream' = <<LoginResponse>> /\ LoginResponse \in Frames
    BY <1>2 DEF Answered, Frames
  <2>2. DOMAIN stream' = {1} /\ stream'[1] = LoginResponse
    BY <2>1
  <2>3. QED
    BY <1>2, <2>1, <2>2
<1>3. QED
  BY <1>1, <1>2

LEMMA AcceptLoginPreserves == DInv /\ AcceptLogin => DInv'
<1> SUFFICES ASSUME DInv, AcceptLogin PROVE DInv'
  OBVIOUS
<1>1. TypeOK /\ QueuedOnce /\ ListAndFile /\ StreamFresh /\ Explained
      /\ ShownOnRecord /\ ShownAtMostOnce
  BY DEF DInv
<1>2. /\ link = "login" /\ link' = "open"
      /\ acked' = acked \cup (m_PersistentIds \ {NoId})
      /\ cursor' = 0 /\ Answered
      /\ UNCHANGED <<queued, broken, m_PersistentIds, file, shown, delivered, lost,
                     troubles, writeFaults>>
  BY DEF AcceptLogin, ReportedIds, history, bounds
<1>3. broken \in BOOLEAN
  BY <1>1 DEF TypeOK
<1>4. /\ stream' \in Seq(Frames)
      /\ \A i \in DOMAIN stream' : i = 1 /\ stream'[i] = LoginResponse
      /\ stream' = <<>> \/ stream'[1] = LoginResponse
      /\ stream' = <<>> <=> broken
  BY <1>2, <1>3, AnsweredStream
<1>5. m_PersistentIds \ {NoId} = file
  BY <1>1, <1>2 DEF ListAndFile
<1>6. TypeOK'
  BY <1>1, <1>2, <1>4, TypeFacts DEF TypeOK, Links, Frames
<1>7. QueuedOnce' /\ StreamFresh'
  BY <1>1, <1>2, <1>4 DEF QueuedOnce, StreamFresh
<1>8. ListAndFile'
  <2>1. NoId \notin file' /\ file' \subseteq acked'
    BY <1>1, <1>2, <1>5 DEF ListAndFile
  <2>2. m_PersistentIds' \ {NoId} \subseteq acked'
    BY <1>2
  <2>3. ResponseAhead' \/ (stream' = <<>> /\ broken')
    BY <1>2, <1>4 DEF ResponseAhead
  <2>4. QED
    BY <1>2, <2>1, <2>2, <2>3 DEF ListAndFile
<1>9. Explained' /\ ShownOnRecord' /\ ShownAtMostOnce'
  BY <1>1, <1>2 DEF Explained, ShownOnRecord, ShownAtMostOnce
<1>10. QED
  BY <1>6, <1>7, <1>8, <1>9 DEF DInv

LEMMA RejectLoginPreserves == DInv /\ RejectLogin => DInv'
<1> SUFFICES ASSUME DInv, RejectLogin PROVE DInv'
  OBVIOUS
<1>1. TypeOK /\ QueuedOnce /\ ListAndFile /\ StreamFresh /\ Explained
      /\ ShownOnRecord /\ ShownAtMostOnce
  BY DEF DInv
<1>2. /\ link' = "rejected" /\ Answered
      /\ troubles < MaxTroubles /\ troubles' = troubles + 1
      /\ UNCHANGED <<queued, acked, cursor, broken, m_PersistentIds, file, shown, delivered,
                     lost, writeFaults>>
  BY DEF RejectLogin, OneMoreTrouble, server, history
<1>3. broken \in BOOLEAN
  BY <1>1 DEF TypeOK
<1>4. /\ stream' \in Seq(Frames)
      /\ \A i \in DOMAIN stream' : i = 1 /\ stream'[i] = LoginResponse
  BY <1>2, <1>3, AnsweredStream
<1>5. troubles' \in 0 .. MaxTroubles
  BY <1>1, <1>2, DeliveryAssumption DEF TypeOK
<1>6. TypeOK'
  BY <1>1, <1>2, <1>4, <1>5 DEF TypeOK, Links, Frames
<1>7. QueuedOnce' /\ StreamFresh' /\ ListAndFile'
  BY <1>1, <1>2, <1>4 DEF QueuedOnce, StreamFresh, ListAndFile
<1>8. Explained' /\ ShownOnRecord' /\ ShownAtMostOnce'
  BY <1>1, <1>2 DEF Explained, ShownOnRecord, ShownAtMostOnce
<1>9. QED
  BY <1>6, <1>7, <1>8 DEF DInv

LEMMA SendNextPreserves == DInv /\ SendNext => DInv'
<1> SUFFICES ASSUME DInv, SendNext PROVE DInv'
  OBVIOUS
<1> DEFINE m == queued[cursor + 1]
<1>1. TypeOK /\ QueuedOnce /\ ListAndFile /\ StreamFresh /\ Explained
      /\ ShownOnRecord /\ ShownAtMostOnce
  BY DEF DInv
<1>2. /\ link = "open" /\ ~broken /\ cursor < Len(queued) /\ cursor' = cursor + 1
      /\ stream' = IF m \in acked THEN stream ELSE Append(stream, m)
      /\ UNCHANGED <<queued, acked, link, broken, m_PersistentIds, file, shown, delivered,
                     lost, troubles, writeFaults>>
  BY DEF SendNext, history, bounds
<1>3. /\ queued \in Seq(Messages) /\ DOMAIN queued = 1 .. Len(queued) /\ Len(queued) \in Nat
      /\ cursor \in Nat /\ cursor + 1 \in DOMAIN queued
      /\ m \in Messages
  BY <1>1, <1>2, TypeFacts
<1>4. m # LoginResponse /\ m # NoId
  BY <1>3, DeliveryAssumption
<1>5. Offered' = Offered \cup {m}
  BY <1>2, <1>3 DEF Offered
<1>6. m \notin Offered
  BY <1>1, <1>3 DEF Offered, QueuedOnce
<1> HIDE DEF m
<1>7. CASE m \in acked
  <2>1. stream' = stream
    BY <1>2, <1>7
  <2>2. TypeOK'
    BY <1>1, <1>2, <1>3, <2>1 DEF TypeOK
  <2>3. QueuedOnce' /\ ListAndFile' /\ StreamFresh'
    BY <1>1, <1>2, <1>5, <2>1 DEF QueuedOnce, ListAndFile, ResponseAhead, StreamFresh
  <2>4. Explained' /\ ShownOnRecord' /\ ShownAtMostOnce'
    BY <1>1, <1>2 DEF Explained, ShownOnRecord, ShownAtMostOnce
  <2>5. QED
    BY <2>2, <2>3, <2>4 DEF DInv
<1>8. CASE m \notin acked
  <2>1. stream \in Seq(Frames) /\ m \in Frames /\ stream' = Append(stream, m)
    BY <1>1, <1>2, <1>3, <1>8, TypeFacts DEF Frames
  <2>2. /\ stream' \in Seq(Frames) /\ stream' # <<>>
        /\ Len(stream) \in Nat /\ DOMAIN stream = 1 .. Len(stream)
        /\ DOMAIN stream' = 1 .. Len(stream) + 1
        /\ \A i \in 1 .. Len(stream) : stream'[i] = stream[i]
        /\ stream'[Len(stream) + 1] = m
    BY <2>1
  <2>3. TypeOK'
    BY <1>1, <1>2, <1>3, <2>2 DEF TypeOK, Frames
  <2>4. m \notin m_PersistentIds
    BY <1>1, <1>2, <1>4, <1>6, <1>8 DEF ListAndFile
  <2>5. ListAndFile'
    <3>1. ResponseAhead' <=> ResponseAhead
      <4>1. CASE stream = <<>>
        BY <1>4, <2>2, <4>1 DEF ResponseAhead
      <4>2. CASE stream # <<>>
        <5>1. 1 \in 1 .. Len(stream)
          BY <2>1, <4>2
        <5>2. QED
          BY <2>2, <4>2, <5>1 DEF ResponseAhead
      <4>3. QED
        BY <4>1, <4>2
    <3>2. QED
      BY <1>1, <1>2, <1>5, <3>1 DEF ListAndFile
  <2>6. StreamFresh'
    <3>1. \A i \in DOMAIN stream : stream[i] # m
      BY <1>1, <1>2, <1>4, <1>6 DEF StreamFresh
    <3>2. \A i \in DOMAIN stream' : stream'[i] = LoginResponse => i = 1
      BY <1>1, <1>4, <2>2 DEF StreamFresh
    <3>3. \A i, j \in DOMAIN stream' : stream'[i] = stream'[j] => i = j
      <4> SUFFICES ASSUME NEW i \in DOMAIN stream', NEW j \in DOMAIN stream',
                          stream'[i] = stream'[j]
                   PROVE  i = j
        OBVIOUS
      <4>1. CASE i \in DOMAIN stream /\ j \in DOMAIN stream
        BY <1>1, <2>2, <4>1 DEF StreamFresh
      <4>2. CASE i = Len(stream) + 1 \/ j = Len(stream) + 1
        BY <2>2, <3>1, <4>2
      <4>3. QED
        BY <2>2, <4>1, <4>2
    <3>4. \A i \in DOMAIN stream' :
            stream'[i] # LoginResponse =>
              stream'[i] \in Offered' /\ stream'[i] \notin acked' \cup m_PersistentIds'
      <4> SUFFICES ASSUME NEW i \in DOMAIN stream', stream'[i] # LoginResponse
                   PROVE  stream'[i] \in Offered' /\ stream'[i] \notin acked' \cup m_PersistentIds'
        OBVIOUS
      <4>1. CASE i \in DOMAIN stream
        BY <1>1, <1>2, <1>5, <2>2, <4>1 DEF StreamFresh
      <4>2. CASE i = Len(stream) + 1
        BY <1>2, <1>5, <1>8, <2>2, <2>4, <4>2
      <4>3. QED
        BY <2>2, <4>1, <4>2
    <3>5. QED
      BY <1>2, <3>2, <3>3, <3>4 DEF StreamFresh
  <2>7. QueuedOnce' /\ Explained' /\ ShownOnRecord' /\ ShownAtMostOnce'
    BY <1>1, <1>2 DEF QueuedOnce, Explained, ShownOnRecord, ShownAtMostOnce
  <2>8. QED
    BY <2>3, <2>5, <2>6, <2>7 DEF DInv
<1>9. QED
  BY <1>7, <1>8

LEMMA ConnectionBreaksPreserves == DInv /\ ConnectionBreaks => DInv'
<1> SUFFICES ASSUME DInv, ConnectionBreaks PROVE DInv'
  OBVIOUS
<1>1. TypeOK /\ QueuedOnce /\ ListAndFile /\ StreamFresh /\ Explained
      /\ ShownOnRecord /\ ShownAtMostOnce
  BY DEF DInv
<1>2. /\ broken' = TRUE
      /\ troubles < MaxTroubles /\ troubles' = troubles + 1
      /\ UNCHANGED <<queued, acked, cursor, link, m_PersistentIds, file, shown, delivered,
                     lost, writeFaults>>
  BY DEF ConnectionBreaks, OneMoreTrouble, server, history
<1>3. PICK n \in 0 .. Len(stream) : stream' = SubSeq(stream, 1, n)
  BY DEF ConnectionBreaks
<1>4. stream \in Seq(Frames) /\ Len(stream) \in Nat /\ DOMAIN stream = 1 .. Len(stream)
  BY <1>1, TypeFacts
<1>5. /\ stream' \in Seq(Frames)
      /\ DOMAIN stream' = 1 .. n
      /\ \A i \in 1 .. n : i \in DOMAIN stream /\ stream'[i] = stream[i]
      /\ n = 0 <=> stream' = <<>>
  BY <1>3, <1>4
<1>6. troubles' \in 0 .. MaxTroubles
  BY <1>1, <1>2, DeliveryAssumption DEF TypeOK
<1>7. TypeOK'
  BY <1>1, <1>2, <1>5, <1>6 DEF TypeOK, Frames
<1>8. Offered' = Offered
  BY <1>2 DEF Offered
<1>9. StreamFresh'
  <2>1. \A i \in DOMAIN stream' : i \in DOMAIN stream /\ stream'[i] = stream[i]
    BY <1>5
  <2>2. link \in {"down", "login"} => stream' = <<>>
    <3>1. stream = <<>> => n = 0
      BY <1>4
    <3>2. QED
      BY <1>1, <1>5, <3>1 DEF StreamFresh
  <2>3. QED
    BY <1>1, <1>2, <1>8, <2>1, <2>2 DEF StreamFresh
<1>10. ListAndFile'
  <2>1. ResponseAhead' => ResponseAhead
    <3>1. n # 0 => 1 \in 1 .. n /\ stream # <<>>
      BY <1>4
    <3>2. QED
      BY <1>5, <3>1 DEF ResponseAhead
  <2>2. ResponseAhead => ResponseAhead' \/ stream' = <<>>
    <3>1. n # 0 => 1 \in 1 .. n
      BY <1>4
    <3>2. QED
      BY <1>5, <3>1 DEF ResponseAhead
  <2>3. stream = <<>> => stream' = <<>>
    <3>1. stream = <<>> => n = 0
      BY <1>4
    <3>2. QED
      BY <1>5, <3>1
  <2>4. QED
    BY <1>1, <1>2, <1>8, <2>1, <2>2, <2>3 DEF ListAndFile
<1>11. QueuedOnce' /\ Explained' /\ ShownOnRecord' /\ ShownAtMostOnce'
  BY <1>1, <1>2 DEF QueuedOnce, Explained, ShownOnRecord, ShownAtMostOnce
<1>12. QED
  BY <1>7, <1>9, <1>10, <1>11 DEF DInv

LEMMA StartClientPreserves == DInv /\ StartClient => DInv'
<1> SUFFICES ASSUME DInv, StartClient PROVE DInv'
  OBVIOUS
<1>1. TypeOK /\ QueuedOnce /\ ListAndFile /\ StreamFresh /\ Explained
      /\ ShownOnRecord /\ ShownAtMostOnce
  BY DEF DInv
<1>2. /\ link = "down" /\ link' = "login" /\ broken' = FALSE
      /\ UNCHANGED <<queued, acked, cursor, stream, file, shown, delivered, lost, troubles,
                     writeFaults>>
  BY DEF StartClient, server, history, bounds
<1>3. m_PersistentIds' \ {NoId} = file /\ m_PersistentIds' \subseteq Messages \cup {NoId}
  BY <1>1 DEF StartClient, LoadPersistentID, ListAndFile, TypeOK
<1>4. stream = <<>>
  BY <1>1, <1>2 DEF StreamFresh
<1>5. TypeOK'
  BY <1>1, <1>2, <1>3 DEF TypeOK, Links
<1>6. QueuedOnce' /\ ListAndFile' /\ StreamFresh'
  BY <1>1, <1>2, <1>3, <1>4 DEF QueuedOnce, ListAndFile, StreamFresh
<1>7. Explained'
  BY <1>1, <1>2, <1>3 DEF Explained
<1>8. ShownOnRecord' /\ ShownAtMostOnce'
  BY <1>1, <1>2 DEF ShownOnRecord, ShownAtMostOnce
<1>9. QED
  BY <1>5, <1>6, <1>7, <1>8 DEF DInv

(* The end of the process, with what the step that ends it does besides.   *)
LEMMA ProcessEndsPreserves ==
  ASSUME DInv, ProcessEnds, UNCHANGED shown,
         NoId \notin file', file' \subseteq Messages,
         lost \subseteq lost', lost' \subseteq Messages,
         file' \subseteq file \cup (m_PersistentIds \ {NoId}) \cup lost' \cup
                           {m \in Messages : Kind[m] # "good"},
         writeFaults' = 0 => writeFaults = 0 /\ file \subseteq acked \cup file',
         delivered' \in [Messages -> 0 .. 2],
         troubles' \in 0 .. MaxTroubles, writeFaults' \in 0 .. MaxWriteFaults
  PROVE  DInv'
<1>1. TypeOK /\ QueuedOnce /\ ListAndFile /\ StreamFresh /\ Explained
      /\ ShownOnRecord /\ ShownAtMostOnce
  BY DEF DInv
<1>2. /\ link' = "down" /\ broken' = FALSE /\ stream' = <<>> /\ m_PersistentIds' = {}
      /\ UNCHANGED <<queued, cursor>>
      /\ acked \subseteq acked' /\ acked' \subseteq acked \cup (m_PersistentIds \ {NoId})
  BY DEF ProcessEnds, ReportedIds
<1>3. acked' \subseteq Messages
  BY <1>1, <1>2 DEF TypeOK
<1>4. TypeOK'
  <2>1. stream' \in Seq(Messages \cup {LoginResponse}) /\ m_PersistentIds' \subseteq Messages
    BY <1>2
  <2>2. shown' \in [Messages -> 0 .. 2] /\ queued' \in Seq(Messages) /\ cursor' \in 0 .. Len(queued')
    BY <1>1, <1>2 DEF TypeOK
  <2>3. QED
    BY <1>2, <1>3, <2>1, <2>2 DEF TypeOK, Links
<1>5. QueuedOnce' /\ ListAndFile' /\ StreamFresh'
  BY <1>1, <1>2 DEF QueuedOnce, ListAndFile, StreamFresh
<1>6. Explained'
  BY <1>1, <1>2 DEF Explained
<1>7. ShownOnRecord' /\ ShownAtMostOnce'
  BY <1>1, <1>2 DEF ShownOnRecord, ShownAtMostOnce
<1>8. QED
  BY <1>4, <1>5, <1>6, <1>7 DEF DInv

LEMMA UserStopsPreserves == DInv /\ (UserStops \/ UserStopsDeaf) => DInv'
<1> SUFFICES ASSUME DInv, UserStops \/ UserStopsDeaf PROVE DInv'
  OBVIOUS
<1>1. TypeOK /\ ListAndFile
  BY DEF DInv
<1>2. /\ ProcessEnds
      /\ UNCHANGED <<file, shown, delivered, lost, writeFaults>>
      /\ troubles' = troubles \/ (troubles < MaxTroubles /\ troubles' = troubles + 1)
  BY DEF UserStops, UserStopsDeaf, OneMoreTrouble, history, bounds
<1>3. troubles' \in 0 .. MaxTroubles
  BY <1>1, <1>2, DeliveryAssumption DEF TypeOK
<1>4. NoId \notin file /\ file \subseteq Messages
  BY <1>1 DEF ListAndFile, TypeOK
<1>5. lost \subseteq Messages /\ delivered \in [Messages -> 0 .. 2] /\ writeFaults \in 0 .. MaxWriteFaults
  BY <1>1 DEF TypeOK
<1>6. QED
  BY <1>2, <1>3, <1>4, <1>5, ProcessEndsPreserves

(* What is left on its way when the first frame is taken.                  *)
LEMMA HeadTaken ==
  ASSUME DInv, stream # <<>>, stream' = Tail(stream)
  PROVE  /\ stream' \in Seq(Frames)
         /\ Head(stream) = stream[1] /\ 1 \in DOMAIN stream
         /\ \A i \in DOMAIN stream' :
              /\ i \in Nat /\ i + 1 \in DOMAIN stream /\ stream'[i] = stream[i+1]
              /\ stream'[i] # stream[1] /\ stream'[i] # LoginResponse
         /\ \A i, j \in DOMAIN stream' : stream'[i] = stream'[j] => i = j
         /\ ~ResponseAhead'
<1>1. stream \in Seq(Frames) /\ StreamFresh
  BY TypeFacts DEF DInv
<1>2. /\ stream' \in Seq(Frames)
      /\ Head(stream) = stream[1] /\ 1 \in DOMAIN stream
      /\ \A i \in DOMAIN stream' : i \in Nat /\ i + 1 \in DOMAIN stream /\ stream'[i] = stream[i+1]
      /\ \A i \in DOMAIN stream' : i + 1 # 1
      /\ stream' # <<>> => 1 \in DOMAIN stream'
  BY <1>1
<1>3. \A i \in DOMAIN stream' : stream'[i] # stream[1] /\ stream'[i] # LoginResponse
  BY <1>1, <1>2 DEF StreamFresh
<1>4. \A i, j \in DOMAIN stream' : stream'[i] = stream'[j] => i = j
  <2> SUFFICES ASSUME NEW i \in DOMAIN stream', NEW j \in DOMAIN stream',
                      stream'[i] = stream'[j]
               PROVE  i = j
    OBVIOUS
  <2>1. i + 1 = j + 1
    BY <1>1, <1>2 DEF StreamFresh
  <2>2. QED
    BY <1>2, <2>1
<1>5. ~ResponseAhead'
  BY <1>2, <1>3 DEF ResponseAhead
<1>6. QED
  BY <1>2, <1>3, <1>4, <1>5

LEMMA HandleLoginPreserves == DInv /\ HandleLoginResponse => DInv'
<1> SUFFICES ASSUME DInv, HandleLoginResponse PROVE DInv'
  OBVIOUS
<1>1. TypeOK /\ QueuedOnce /\ ListAndFile /\ StreamFresh /\ Explained
      /\ ShownOnRecord /\ ShownAtMostOnce
  BY DEF DInv
<1>2. /\ stream # <<>> /\ Head(stream) = LoginResponse /\ stream' = Tail(stream)
      /\ m_PersistentIds' = {}
      /\ UNCHANGED <<queued, acked, cursor, link, broken, file, shown, delivered, lost,
                     troubles, writeFaults>>
  BY DEF HandleLoginResponse, server, history, bounds
<1>3. /\ stream' \in Seq(Frames)
      /\ Head(stream) = stream[1] /\ 1 \in DOMAIN stream
      /\ \A i \in DOMAIN stream' :
           /\ i \in Nat /\ i + 1 \in DOMAIN stream /\ stream'[i] = stream[i+1]
           /\ stream'[i] # LoginResponse
      /\ \A i, j \in DOMAIN stream' : stream'[i] = stream'[j] => i = j
      /\ ~ResponseAhead'
  BY <1>2, HeadTaken
<1>4. link \notin {"down", "login"}
  BY <1>1, <1>2 DEF StreamFresh
<1>5. TypeOK'
  BY <1>1, <1>2, <1>3 DEF TypeOK, Frames
<1>6. Offered' = Offered
  BY <1>2 DEF Offered
<1>7. StreamFresh'
  <2>1. link' = "rejected" => \A i \in DOMAIN stream' : stream'[i] = LoginResponse
    BY <1>1, <1>2, <1>3 DEF StreamFresh
  <2>2. link' = "open" =>
          \A i \in DOMAIN stream' :
            stream'[i] # LoginResponse =>
              stream'[i] \in Offered' /\ stream'[i] \notin acked' \cup m_PersistentIds'
    BY <1>1, <1>2, <1>3, <1>6 DEF StreamFresh
  <2>3. QED
    BY <1>2, <1>3, <1>4, <2>1, <2>2 DEF StreamFresh
<1>8. ListAndFile'
  <2>1. ResponseAhead
    BY <1>2, <1>3 DEF ResponseAhead
  <2>2. QED
    BY <1>1, <1>2, <1>3, <1>4, <2>1 DEF ListAndFile
<1>9. QueuedOnce' /\ Explained' /\ ShownOnRecord' /\ ShownAtMostOnce'
  BY <1>1, <1>2 DEF QueuedOnce, Explained, ShownOnRecord, ShownAtMostOnce
<1>10. QED
  BY <1>5, <1>7, <1>8, <1>9 DEF DInv

(* A message that is handled belongs to an open session and was neither    *)
(* acknowledged nor received, and so not shown.                            *)
LEMMA MessageAtHead ==
  ASSUME DInv, NEW m \in Messages, stream # <<>>, Head(stream) = m
  PROVE  /\ link = "open" /\ stream[1] = m
         /\ m \in Offered /\ m \notin acked \cup m_PersistentIds
         /\ file \subseteq acked \cup m_PersistentIds
         /\ NoId \notin m_PersistentIds /\ m_PersistentIds \subseteq acked \cup Offered
         /\ m \notin file
         /\ writeFaults = 0 => shown[m] = 0
<1>1. TypeOK /\ ListAndFile /\ StreamFresh /\ ShownOnRecord
  BY DEF DInv
<1>2. /\ stream \in Seq(Frames) /\ m # LoginResponse
      /\ shown \in [Messages -> 0 .. 2]
  BY <1>1, TypeFacts
<1>3. stream[1] = m /\ 1 \in DOMAIN stream
  BY <1>2
<1>4. link = "open"
  BY <1>1, <1>2, <1>3 DEF StreamFresh, TypeOK, Links
<1>5. m \in Offered /\ m \notin acked \cup m_PersistentIds
  BY <1>1, <1>2, <1>3, <1>4 DEF StreamFresh
<1>6. NoId \notin m_PersistentIds
  BY <1>1, <1>2, <1>3, <1>4 DEF ListAndFile, ResponseAhead
<1>7. file \subseteq acked \cup m_PersistentIds /\ m_PersistentIds \subseteq acked \cup Offered
  BY <1>1, <1>4, <1>6 DEF ListAndFile
<1>8. m \notin file
  BY <1>5, <1>7
<1>9. writeFaults = 0 => shown[m] = 0
  BY <1>1, <1>2, <1>5, <1>8 DEF ShownOnRecord
<1>10. QED
  BY <1>3, <1>4, <1>5, <1>6, <1>7, <1>8, <1>9

LEMMA HandleDataPreserves ==
  ASSUME DInv, NEW m \in Messages, HandleDataMessage(m)
  PROVE  DInv'
<1>1. TypeOK /\ QueuedOnce /\ ListAndFile /\ StreamFresh /\ Explained
      /\ ShownOnRecord /\ ShownAtMostOnce
  BY DEF DInv
<1>2. /\ stream # <<>> /\ Head(stream) = m
      /\ delivered' = Count(delivered, m) /\ UNCHANGED <<lost, troubles>>
  BY DEF HandleDataMessage
<1>3. /\ link = "open" /\ stream[1] = m
      /\ m \in Offered /\ m \notin acked \cup m_PersistentIds
      /\ file \subseteq acked \cup m_PersistentIds
      /\ NoId \notin m_PersistentIds /\ m_PersistentIds \subseteq acked \cup Offered
      /\ m \notin file
      /\ writeFaults = 0 => shown[m] = 0
  BY <1>2, MessageAtHead
<1>4. /\ delivered' \in [Messages -> 0 .. 2]
      /\ m # NoId /\ m # LoginResponse
      /\ NoId \notin file /\ file \subseteq Messages /\ m_PersistentIds \subseteq Messages
      /\ lost \subseteq Messages
  BY <1>1, <1>2, <1>3, CountUp, DeliveryAssumption DEF TypeOK, ListAndFile
<1>5. CASE ProcessEnds /\ UNCHANGED <<file, shown, writeFaults>>
  <2>1. troubles' \in 0 .. MaxTroubles /\ writeFaults' \in 0 .. MaxWriteFaults
    BY <1>1, <1>2, <1>5 DEF TypeOK
  <2>2. QED
    BY <1>2, <1>4, <1>5, <2>1, ProcessEndsPreserves
<1>6. ASSUME stream' = Tail(stream)
      PROVE  /\ stream' \in Seq(Frames)
             /\ \A i \in DOMAIN stream' :
                  /\ i + 1 \in DOMAIN stream /\ stream'[i] = stream[i+1]
                  /\ stream'[i] # m /\ stream'[i] # LoginResponse
             /\ \A i, j \in DOMAIN stream' : stream'[i] = stream'[j] => i = j
             /\ ~ResponseAhead'
  BY <1>2, <1>3, <1>6, HeadTaken
<1>7. CASE /\ stream' = Tail(stream)
           /\ UNCHANGED <<server, link, broken, m_PersistentIds, file, shown, writeFaults>>
  <2>1. UNCHANGED <<queued, acked, cursor>>
    BY <1>7 DEF server
  <2>2. Offered' = Offered
    BY <2>1 DEF Offered
  <2>3. TypeOK'
    BY <1>1, <1>2, <1>4, <1>6, <1>7, <2>1 DEF TypeOK, Frames
  <2>4. StreamFresh'
    BY <1>1, <1>3, <1>6, <1>7, <2>1, <2>2 DEF StreamFresh
  <2>5. ListAndFile'
    BY <1>3, <1>4, <1>6, <1>7, <2>1, <2>2 DEF ListAndFile
  <2>6. QueuedOnce' /\ Explained' /\ ShownOnRecord' /\ ShownAtMostOnce'
    BY <1>1, <1>2, <1>7, <2>1 DEF QueuedOnce, Explained, ShownOnRecord, ShownAtMostOnce
  <2>7. QED
    BY <2>3, <2>4, <2>5, <2>6 DEF DInv
<1>8. CASE /\ stream' = Tail(stream)
           /\ m_PersistentIds' = m_PersistentIds \cup {m}
           /\ WritePersistentIDToFile(m_PersistentIds')
           /\ EmitMessage(m)
           /\ UNCHANGED <<server, link, broken>>
  <2>1. UNCHANGED <<queued, acked, cursor, link, broken>>
    BY <1>8 DEF server
  <2>2. Offered' = Offered
    BY <2>1 DEF Offered
  <2>3. /\ file' \in {m_PersistentIds', file, {}}
        /\ writeFaults' \in 0 .. MaxWriteFaults
        /\ writeFaults' = 0 => writeFaults = 0 /\ file' = m_PersistentIds'
    BY <1>1, <1>8, DeliveryAssumption DEF WritePersistentIDToFile, TypeOK
  <2>4. /\ shown' \in [Messages -> 0 .. 2]
        /\ \A n \in Messages : n # m => shown'[n] = shown[n]
        /\ Kind[m] = "good" => shown'[m] > 0
        /\ writeFaults' = 0 => shown'[m] <= 1
    <3>1. shown \in [Messages -> 0 .. 2]
      BY <1>1 DEF TypeOK
    <3>2. CASE shown' = Count(shown, m)
      BY <1>3, <2>3, <3>1, <3>2, CountUp
    <3>3. CASE Kind[m] # "good" /\ shown' = shown
      BY <1>3, <2>3, <3>1, <3>3
    <3>4. QED
      BY <1>8, <3>2, <3>3 DEF EmitMessage
  <2>5. TypeOK'
    BY <1>1, <1>2, <1>4, <1>6, <1>8, <2>1, <2>3, <2>4 DEF TypeOK, Frames
  <2>6. StreamFresh'
    BY <1>1, <1>3, <1>6, <1>8, <2>1, <2>2 DEF StreamFresh
  <2>7. ListAndFile'
    <3>1. NoId \notin file' /\ file' \subseteq acked' \cup m_PersistentIds'
      BY <1>3, <1>4, <1>8, <2>1, <2>3
    <3>2. NoId \notin m_PersistentIds' /\ m_PersistentIds' \subseteq acked' \cup Offered'
      BY <1>3, <1>4, <1>8, <2>1, <2>2
    <3>3. QED
      BY <1>3, <1>6, <1>8, <2>1, <3>1, <3>2 DEF ListAndFile
  <2>8. Explained'
    <3> SUFFICES ASSUME NEW n \in acked' \cup file' \cup (m_PersistentIds' \ {NoId}),
                        Kind[n] = "good"
                 PROVE  shown'[n] > 0 \/ n \in lost'
      BY DEF Explained
    <3>1. n = m \/ n \in acked \cup file \cup (m_PersistentIds \ {NoId})
      BY <1>3, <1>8, <2>1, <2>3
    <3>2. n \in Messages
      BY <1>1, <1>4, <3>1 DEF TypeOK
    <3>3. QED
      BY <1>1, <1>2, <2>4, <3>1, <3>2 DEF Explained
  <2>9. ShownOnRecord'
    <3> SUFFICES ASSUME writeFaults' = 0, NEW n \in Messages, shown'[n] > 0
                 PROVE  n \in acked' \cup file'
      BY DEF ShownOnRecord
    <3>1. file' = m_PersistentIds \cup {m} /\ acked' = acked /\ writeFaults = 0
      BY <1>8, <2>1, <2>3
    <3>2. CASE n # m
      BY <1>1, <1>3, <2>4, <3>1, <3>2 DEF ShownOnRecord
    <3>3. QED
      BY <3>1, <3>2
  <2>10. ShownAtMostOnce'
    BY <1>1, <2>3, <2>4 DEF ShownAtMostOnce
  <2>11. QueuedOnce'
    BY <1>1, <2>1 DEF QueuedOnce
  <2>12. QED
    BY <2>5, <2>6, <2>7, <2>8, <2>9, <2>10, <2>11 DEF DInv
<1>9. QED
  BY <1>5, <1>7, <1>8 DEF HandleDataMessage

LEMMA KilledPreserves ==
  ASSUME DInv, NEW m \in Messages, KilledInHandler(m)
  PROVE  DInv'
<1>1. TypeOK /\ ListAndFile
  BY DEF DInv
<1>2. /\ stream # <<>> /\ Head(stream) = m /\ ProcessEnds
      /\ troubles < MaxTroubles /\ troubles' = troubles + 1
      /\ UNCHANGED <<shown, delivered>>
  BY DEF KilledInHandler, OneMoreTrouble
<1>3. /\ file \subseteq acked \cup m_PersistentIds
      /\ NoId \notin m_PersistentIds
  BY <1>2, MessageAtHead
<1>4. /\ delivered' \in [Messages -> 0 .. 2]
      /\ troubles' \in 0 .. MaxTroubles
      /\ lost \subseteq Messages /\ m_PersistentIds \subseteq Messages /\ m # NoId
  BY <1>1, <1>2, <1>3, DeliveryAssumption DEF TypeOK
<1>5. CASE /\ writeFaults < MaxWriteFaults /\ writeFaults' = writeFaults + 1
           /\ file' = {} /\ UNCHANGED lost
  <2>1. writeFaults' \in 0 .. MaxWriteFaults /\ writeFaults' # 0
    BY <1>1, <1>5, DeliveryAssumption DEF TypeOK
  <2>2. QED
    BY <1>2, <1>4, <1>5, <2>1, ProcessEndsPreserves
<1>6. CASE /\ file' = m_PersistentIds \cup {m} /\ lost' = lost \cup {m}
           /\ UNCHANGED writeFaults
  <2>1. writeFaults' \in 0 .. MaxWriteFaults
    BY <1>1, <1>6 DEF TypeOK
  <2>2. /\ NoId \notin file' /\ file' \subseteq Messages
        /\ file' \subseteq file \cup (m_PersistentIds \ {NoId}) \cup lost'
        /\ file \subseteq acked \cup file'
        /\ lost \subseteq lost' /\ lost' \subseteq Messages
    BY <1>3, <1>4, <1>6
  <2>3. QED
    BY <1>2, <1>4, <1>6, <2>1, <2>2, ProcessEndsPreserves
<1>7. QED
  BY <1>5, <1>6 DEF KilledInHandler

LEMMA StutterPreserves == DInv /\ UNCHANGED vars => DInv'
BY DEF vars, server, history, bounds, DInv, TypeOK, QueuedOnce, ListAndFile, StreamFresh,
       Explained, ShownOnRecord, ShownAtMostOnce, Offered, ResponseAhead

(* DInv is inductive.                                                      *)
THEOREM Inductive == Spec => []DInv
<1>1. DInv /\ [Next]_vars => DInv'
  <2> SUFFICES ASSUME DInv, [Next]_vars PROVE DInv'
    OBVIOUS
  <2>1. CASE \E m \in Messages : Publish(m)
    BY <2>1, PublishPreserves
  <2>2. CASE ServerNext
    BY <2>2, AcceptLoginPreserves, RejectLoginPreserves, SendNextPreserves DEF ServerNext
  <2>3. CASE ClientNext
    BY <2>3, HandleLoginPreserves, HandleDataPreserves DEF ClientNext
  <2>4. CASE UserNext
    BY <2>4, StartClientPreserves, UserStopsPreserves DEF UserNext
  <2>5. CASE Trouble
    BY <2>5, UserStopsPreserves, ConnectionBreaksPreserves, KilledPreserves DEF Trouble
  <2>6. CASE UNCHANGED vars
    BY <2>6, StutterPreserves
  <2>7. QED
    BY <2>1, <2>2, <2>3, <2>4, <2>5, <2>6 DEF Next
<1>2. QED
  BY <1>1, InitEstablishes, PTL DEF Spec

-----------------------------------------------------------------------------

(* Queue, file, list and stream are what they are declared to be.          *)
THEOREM TypeCorrect == Spec => []TypeOK
<1>1. DInv => TypeOK
  BY DEF DInv
<1>2. QED
  BY <1>1, Inductive, PTL

(* Without failed writes, a message that was shown is acknowledged or in   *)
(* persistent_id.txt, although HandleLoginResponseTag empties the list the *)
(* file is written from.                                                   *)
THEOREM ShownStaysOnRecord == Spec => []ShownOnRecord
<1>1. DInv => ShownOnRecord
  BY DEF DInv
<1>2. QED
  BY <1>1, Inductive, PTL

(* Without failed writes no message is shown twice, by whatever order of   *)
(* kills, broken connections and rejected logins.                          *)
THEOREM NothingShownTwice == Spec => []ShownAtMostOnce
<1>1. DInv => ShownAtMostOnce
  BY DEF DInv
<1>2. QED
  BY <1>1, Inductive, PTL

(* The server is made to forget a good message only when it was shown, or  *)
(* the program was killed between recording it and showing it.             *)
THEOREM ForgottenOnlyIfShown == Spec => []ForgottenWasShown
<1>1. DInv => ForgottenWasShown
  BY DEF DInv, Explained, ForgottenWasShown
<1>2. QED
  BY <1>1, Inductive, PTL

(* WritePersistentIDToFile drops an id only once the server has forgotten  *)
(* the message, unless a write goes wrong.                                 *)
THEOREM OnlyAckedForgotten == Spec => FileForgetsOnlyAcked
<1>1. DInv /\ [Next]_vars => [writeFaults' = writeFaults => file \ file' \subseteq acked]_vars
  <2> SUFFICES ASSUME DInv, Next, writeFaults' = writeFaults
               PROVE  file \ file' \subseteq acked
    OBVIOUS
  <2>1. CASE \E m \in Messages : HandleDataMessage(m) \/ KilledInHandler(m)
    <3>1. PICK m \in Messages : HandleDataMessage(m) \/ KilledInHandler(m)
      BY <2>1
    <3>2. stream # <<>> /\ Head(stream) = m
      BY <3>1 DEF HandleDataMessage, KilledInHandler
    <3>3. file \subseteq acked \cup m_PersistentIds
      BY <3>2, MessageAtHead
    <3>4. writeFaults' # writeFaults + 1
      BY TypeFacts DEF DInv
    <3>5. file' = file \/ file' = m_PersistentIds \cup {m}
      BY <3>1, <3>4 DEF HandleDataMessage, KilledInHandler, WritePersistentIDToFile
    <3>6. QED
      BY <3>3, <3>5
  <2>2. CASE file' = file
    BY <2>2
  <2>3. QED
    BY <2>1, <2>2 DEF Next, ServerNext, ClientNext, UserNext, Trouble, Publish, AcceptLogin,
       RejectLogin, SendNext, ConnectionBreaks, HandleLoginResponse, StartClient, UserStops,
       UserStopsDeaf
<1>2. QED
  BY <1>1, Inductive, PTL DEF Spec, FileForgetsOnlyAcked

-----------------------------------------------------------------------------
(* MessageDelivery implements Mailbox.  Whatever the server knows to be    *)
(* received, or will be told so, is settled.                               *)

AllSettled == acked \cup file \cup (m_PersistentIds \ {NoId}) \subseteq Settled

Matches == AllSettled' /\ (Box!Next \/ UNCHANGED Box!vars)

LEMMA QueuedIsPosted ==
  ASSUME TypeOK
  PROVE  /\ Offered \subseteq Posted
         /\ \A m \in Messages : m \in Posted <=> \E i \in 1 .. Len(queued) : queued[i] = m
BY TypeFacts DEF Offered, Posted, Queued

LEMMA PublishIsPost ==
  ASSUME DInv, AllSettled, NEW m \in Messages, Publish(m)
  PROVE  Matches
<1>1. /\ queued \in Seq(Messages) /\ queued' = Append(queued, m)
      /\ \A i \in 1 .. Len(queued) : queued[i] # m
      /\ UNCHANGED <<acked, file, m_PersistentIds, shown, delivered, lost>>
  BY TypeFacts DEF DInv, Publish, history
<1>2. Settled' = Settled
  BY <1>1 DEF Settled
<1>3. m \notin Posted /\ Posted' = Posted \cup {m}
  <2>1. Len(queued') = Len(queued) + 1 /\ Len(queued) \in Nat /\ queued'[Len(queued) + 1] = m
        /\ \A i \in 1 .. Len(queued) : queued'[i] = queued[i]
    BY <1>1
  <2>2. \A n \in Messages : (\E i \in 1 .. Len(queued') : queued'[i] = n)
                              <=> n = m \/ \E i \in 1 .. Len(queued) : queued[i] = n
    BY <2>1
  <2> QED
    BY <1>1, <2>2 DEF Posted, Queued
<1>4. Box!Post(m)
  BY <1>1, <1>2, <1>3 DEF Box!Post
<1> QED
  BY <1>1, <1>2, <1>4 DEF Matches, AllSettled, Box!Next

(* A login, answered or not: the server forgets what is reported.          *)
LEMMA ReportIsForget ==
  ASSUME DInv, AllSettled, acked' \in {acked, acked \cup ReportedIds},
         UNCHANGED <<queued, file, history>>, m_PersistentIds' \in {m_PersistentIds, {}}
  PROVE  Matches
<1>1. UNCHANGED <<Posted, Settled, shown>>
  BY DEF history, Posted, Queued, Settled
<1>2. ReportedIds \subseteq Settled /\ Settled \subseteq Messages
  BY DEF ReportedIds, AllSettled, Settled
<1>3. AllSettled'
  BY <1>1, <1>2 DEF AllSettled
<1>4. CASE acked' = acked
  BY <1>1, <1>3, <1>4 DEF Matches, Box!vars
<1>5. CASE acked' = acked \cup ReportedIds
  <2>1. Box!Forget(ReportedIds)
    BY <1>1, <1>2, <1>5 DEF Box!Forget
  <2> QED
    BY <1>2, <1>3, <2>1 DEF Matches, Box!Next
<1> QED
  BY <1>4, <1>5

(* What is loaded at the start is in the file. *)
LEMMA StartIsNothing ==
  ASSUME DInv, AllSettled, StartClient
  PROVE  Matches
<1>1. UNCHANGED <<queued, acked, file, shown, delivered, lost>>
  BY DEF StartClient, server, history
<1>2. UNCHANGED <<Posted, Settled, shown>>
  BY <1>1 DEF Posted, Queued, Settled
<1>3. m_PersistentIds' \ {NoId} \subseteq file
  BY DEF StartClient, LoadPersistentID
<1>4. AllSettled'
  BY <1>1, <1>2, <1>3 DEF AllSettled
<1> QED
  BY <1>1, <1>2, <1>4 DEF Matches, Box!vars

(* The message at the head of the stream waits. *)
LEMMA HeadWaits ==
  ASSUME DInv, NEW m \in Messages, stream # <<>>, Head(stream) = m
  PROVE  Box!Waits(m) /\ link = "open"
<1>1. m \in Offered /\ m \notin acked /\ link = "open"
  BY MessageAtHead
<1>2. m \in Posted
  BY <1>1, QueuedIsPosted DEF DInv
<1> QED
  BY <1>1, <1>2 DEF Box!Waits

LEMMA CountIs ==
  ASSUME NEW f \in [Messages -> 0 .. 2], NEW m \in Messages
  PROVE  Count(f, m) = [f EXCEPT ![m] = IF @ = 0 THEN 1 ELSE 2]
<1>1. f[m] \in 0 .. 2
  OBVIOUS
<1>2. (IF f[m] < 2 THEN f[m] + 1 ELSE 2) = (IF f[m] = 0 THEN 1 ELSE 2)
  BY <1>1
<1> QED
  BY <1>2 DEF Count

LEMMA HandleDataIsShow ==
  ASSUME DInv, AllSettled, NEW m \in Messages, HandleDataMessage(m)
  PROVE  Matches
<1>1. /\ TypeOK /\ NoId \notin file
      /\ shown \in [Messages -> 0 .. 2] /\ delivered \in [Messages -> 0 .. 2]
      /\ delivered' = Count(delivered, m) /\ UNCHANGED lost
      /\ Box!Waits(m) /\ link = "open"
  BY HeadWaits DEF DInv, TypeOK, ListAndFile, HandleDataMessage
<1>2. /\ \A n \in Messages : n # m => delivered'[n] = delivered[n]
      /\ delivered'[m] > 0
  BY <1>1, CountUp
<1>3. CASE Kind[m] \in {"poison", "malformed"}
  <2>1. /\ UNCHANGED <<queued, acked, file, shown>>
        /\ m_PersistentIds' \in {m_PersistentIds, {}}
    BY <1>1, <1>3 DEF HandleDataMessage, ProcessEnds, server
  <2>2. UNCHANGED <<Posted, Settled>>
    BY <1>1, <1>2, <1>3, <2>1 DEF Posted, Queued, Settled
  <2> QED
    BY <2>1, <2>2 DEF Matches, AllSettled, Box!vars
<1>4. CASE Kind[m] \in {"good", "undecryptable"}
  <2>1. /\ m_PersistentIds' = m_PersistentIds \cup {m}
        /\ file' \in {m_PersistentIds', file, {}}
        /\ EmitMessage(m) /\ UNCHANGED <<queued, acked>>
    BY <1>4 DEF HandleDataMessage, WritePersistentIDToFile, server
  <2>2. shown' = IF Kind[m] = "good" THEN [shown EXCEPT ![m] = IF @ = 0 THEN 1 ELSE 2] ELSE shown
    BY <1>1, <2>1, CountIs DEF EmitMessage
  <2>3. /\ \A n \in Messages : n # m => shown'[n] = shown[n]
        /\ Kind[m] = "good" => shown'[m] > 0
    BY <1>1, <2>2
  <2>4. Settled' = Settled \cup {m}
    BY <1>1, <1>2, <1>4, <2>3 DEF Settled
  <2>5. Posted' = Posted
    BY <2>1 DEF Posted, Queued
  <2>6. AllSettled'
    <3>1. acked \cup file \cup (m_PersistentIds \ {NoId}) \cup {m} \subseteq Settled'
      BY <2>4 DEF AllSettled
    <3>2. acked' = acked /\ m_PersistentIds' \ {NoId} \subseteq (m_PersistentIds \ {NoId}) \cup {m}
      BY <2>1
    <3>3. file' \subseteq Settled'
      <4>1. NoId \notin m_PersistentIds
        BY MessageAtHead DEF HandleDataMessage
      <4>2. m_PersistentIds' \subseteq Settled'
        BY <2>1, <3>1, <4>1
      <4> QED
        BY <2>1, <3>1, <4>2
    <3> QED
      BY <3>1, <3>2, <3>3 DEF AllSettled
  <2>7. Box!Show(m) \/ Box!GiveUp(m)
    BY <1>1, <2>1, <2>2, <2>4, <2>5 DEF Box!Show, Box!GiveUp
  <2> QED
    BY <2>6, <2>7 DEF Matches, Box!Next
<1> QED
  BY <1>3, <1>4 DEF HandleDataMessage

LEMMA KilledIsGiveUp ==
  ASSUME DInv, AllSettled, NEW m \in Messages, KilledInHandler(m)
  PROVE  Matches
<1>1. /\ Box!Waits(m) /\ link = "open" /\ ProcessEnds
      /\ UNCHANGED <<shown, delivered>>
  BY HeadWaits DEF KilledInHandler
<1>2. m_PersistentIds' = {} /\ UNCHANGED <<acked, queued>>
  BY <1>1 DEF ProcessEnds
<1>3. Posted' = Posted
  BY <1>2 DEF Posted, Queued
<1>4. CASE file' = {} /\ UNCHANGED lost
  <2>1. Settled' = Settled
    BY <1>1, <1>4 DEF Settled
  <2> QED
    BY <1>1, <1>2, <1>3, <1>4, <2>1 DEF Matches, AllSettled, Box!vars
<1>5. CASE file' = m_PersistentIds \cup {m} /\ lost' = lost \cup {m}
  <2>1. Settled' = Settled \cup {m}
    BY <1>1, <1>5 DEF Settled
  <2>2. Box!GiveUp(m)
    BY <1>1, <1>2, <1>3, <2>1 DEF Box!GiveUp
  <2>3. NoId \notin m_PersistentIds
    BY MessageAtHead DEF KilledInHandler
  <2>4. AllSettled'
    BY <1>2, <1>5, <2>1, <2>3 DEF AllSettled
  <2> QED
    BY <2>2, <2>4 DEF Matches, Box!Next
<1> QED
  BY <1>4, <1>5 DEF KilledInHandler

LEMMA StepOfMailbox ==
  ASSUME DInv, AllSettled, [Next]_vars
  PROVE  Matches
<1>1. CASE \E m \in Messages : Publish(m)
  BY <1>1, PublishIsPost
<1>2. CASE AcceptLogin \/ UserStops \/ UserStopsDeaf \/ HandleLoginResponse
  <2>1. /\ acked' \in {acked, acked \cup ReportedIds}
        /\ UNCHANGED <<queued, file, history>> /\ m_PersistentIds' \in {m_PersistentIds, {}}
    BY <1>2 DEF AcceptLogin, UserStops, UserStopsDeaf, ProcessEnds, HandleLoginResponse, server
  <2> QED
    BY <2>1, ReportIsForget
<1>3. CASE RejectLogin \/ SendNext \/ ConnectionBreaks \/ UNCHANGED vars
  <2>1. UNCHANGED <<acked, queued, file, history, m_PersistentIds>>
    BY <1>3 DEF RejectLogin, SendNext, ConnectionBreaks, server, vars
  <2> QED
    BY <2>1, ReportIsForget
<1>4. CASE StartClient
  BY <1>4, StartIsNothing
<1>5. CASE \E m \in Messages : HandleDataMessage(m) \/ KilledInHandler(m)
  BY <1>5, HandleDataIsShow, KilledIsGiveUp
<1> QED
  BY <1>1, <1>2, <1>3, <1>4, <1>5 DEF Next, ServerNext, ClientNext, UserNext, Trouble

(* Sessions of the program, killed or cut off anywhere, are a mailbox: a   *)
(* message waits until it is shown or settled, is forgotten only then, and *)
(* is never dealt with again once it is forgotten.                         *)
THEOREM MailboxImplemented == Spec => ImplementsMailbox
<1>1. Init => AllSettled /\ Box!Init
  BY DEF Init, AllSettled, Settled, Posted, Queued, Box!Init
<1>2. DInv /\ AllSettled /\ [Next]_vars => AllSettled' /\ [Box!Next]_(Box!vars)
  BY StepOfMailbox DEF Matches
<1> QED
  BY Inductive, <1>1, <1>2, PTL DEF Spec, ImplementsMailbox, Box!Spec

-----------------------------------------------------------------------------
(* What a client does to a file that others write, too: only types are     *)
(* known of the rest.  Whatever it, or the server, gets to know as         *)
(* received has been shown, or was lost, if what it found was.             *)

Honest(S) == \A m \in S \ {NoId} : Kind[m] = "good" => shown[m] > 0 \/ m \in lost

Known == acked \cup file \cup m_PersistentIds

(* The history only grows. *)
Grows == /\ \A m \in Messages : shown[m] > 0 => shown'[m] > 0
         /\ lost \subseteq lost'

LEMMA StaysHonest ==
  ASSUME NEW S \in SUBSET (Messages \cup {NoId}), Honest(S), Grows
  PROVE  Honest(S)'
BY DEF Honest, Grows

LEMMA KnowsNoMore ==
  ASSUME TypeOK, Honest(Known), Known' \subseteq Known \cup {NoId}, Grows
  PROVE  Honest(Known)'
<1>1. Known \subseteq Messages \cup {NoId}
  BY DEF Known, TypeOK
<1> QED
  BY <1>1 DEF Honest, Grows

LEMMA EndTyped ==
  ASSUME TypeOK, ProcessEnds
  PROVE  /\ stream' \in Seq(Messages \cup {LoginResponse}) /\ link' \in Links /\ broken' \in BOOLEAN
         /\ m_PersistentIds' = {} /\ acked' \in {acked, acked \cup ReportedIds}
         /\ acked' \subseteq Messages /\ UNCHANGED <<queued, cursor>>
<1>1. stream' = <<>> /\ <<>> \in Seq(Messages \cup {LoginResponse})
  BY DEF ProcessEnds
<1>2. acked' \subseteq Messages /\ acked' \in {acked, acked \cup ReportedIds}
  BY DEF ProcessEnds, ReportedIds, TypeOK
<1> QED
  BY <1>1, <1>2 DEF ProcessEnds, Links

LEMMA HandleDataIsHonest ==
  ASSUME TypeOK, Honest(Known), NEW m \in Messages, HandleDataMessage(m)
  PROVE  TypeOK' /\ Honest(Known)' /\ Grows
<1>1. /\ stream \in Seq(Messages \cup {LoginResponse}) /\ stream # <<>>
      /\ shown \in [Messages -> 0 .. 2] /\ delivered \in [Messages -> 0 .. 2]
      /\ delivered' = Count(delivered, m) /\ UNCHANGED <<lost, troubles>>
  BY DEF TypeOK, HandleDataMessage
<1>2. Tail(stream) \in Seq(Messages \cup {LoginResponse})
  BY <1>1
<1>3. delivered' \in [Messages -> 0 .. 2]
  BY <1>1, CountUp
<1>4. CASE Kind[m] \in {"poison", "malformed"}
  <2>1. /\ UNCHANGED <<queued, cursor, file, shown, writeFaults>>
        /\ stream' \in Seq(Messages \cup {LoginResponse}) /\ link' \in Links /\ broken' \in BOOLEAN
        /\ m_PersistentIds' \in {m_PersistentIds, {}}
        /\ acked' \in {acked, acked \cup ReportedIds} /\ acked' \subseteq Messages
    <3>1. CASE ProcessEnds /\ UNCHANGED <<file, shown, writeFaults>>
      BY <3>1, EndTyped
    <3>2. CASE ~ ProcessEnds
      BY <1>2, <1>4, <3>2 DEF HandleDataMessage, server, TypeOK
    <3> QED
      BY <1>4, <3>1, <3>2 DEF HandleDataMessage
  <2>2. TypeOK'
    BY <1>1, <1>3, <2>1 DEF TypeOK
  <2>3. Known' \subseteq Known \cup {NoId}
    BY <2>1 DEF Known, ReportedIds
  <2>4. Grows
    BY <1>1, <2>1 DEF Grows
  <2> QED
    BY <2>2, <2>3, <2>4, KnowsNoMore
<1>5. CASE Kind[m] \in {"good", "undecryptable"}
  <2>1. /\ stream' = Tail(stream) /\ UNCHANGED <<queued, acked, cursor, link, broken>>
        /\ m_PersistentIds' = m_PersistentIds \cup {m}
        /\ file' \in {m_PersistentIds', file, {}} /\ EmitMessage(m)
        /\ writeFaults' \in 0 .. MaxWriteFaults
    BY <1>5, DeliveryAssumption DEF HandleDataMessage, WritePersistentIDToFile, server, TypeOK
  <2>2. /\ shown' \in [Messages -> 0 .. 2]
        /\ \A n \in Messages : n # m => shown'[n] = shown[n]
        /\ shown[m] > 0 => shown'[m] > 0
        /\ Kind[m] = "good" => shown'[m] > 0
    <3>1. CASE shown' = Count(shown, m)
      BY <1>1, <3>1, CountUp
    <3>2. CASE Kind[m] # "good" /\ shown' = shown
      BY <1>1, <3>2
    <3> QED
      BY <2>1, <3>1, <3>2 DEF EmitMessage
  <2>3. TypeOK'
    BY <1>1, <1>2, <1>3, <2>1, <2>2 DEF TypeOK
  <2>4. Grows
    BY <1>1, <2>2 DEF Grows
  <2>5. Known' \subseteq Known \cup {m} /\ Known \subseteq Messages \cup {NoId}
    BY <2>1 DEF Known, TypeOK
  <2>6. Honest(Known)'
    <3> SUFFICES ASSUME NEW n \in Known' \ {NoId}, Kind[n] = "good"
                 PROVE  shown'[n] > 0 \/ n \in lost'
      BY DEF Honest
    <3>1. n = m \/ (n \in Known \ {NoId} /\ n \in Messages)
      BY <2>5
    <3> QED
      BY <1>1, <2>2, <3>1 DEF Honest
  <2> QED
    BY <2>3, <2>4, <2>6
<1> QED
  BY <1>4, <1>5 DEF HandleDataMessage

LEMMA KilledIsHonest ==
  ASSUME TypeOK, Honest(Known), NEW m \in Messages, KilledInHandler(m)
  PROVE  TypeOK' /\ Honest(Known)' /\ Grows
<1>1. /\ UNCHANGED <<queued, cursor, shown, delivered>>
      /\ stream' \in Seq(Messages \cup {LoginResponse}) /\ link' \in Links /\ broken' \in BOOLEAN
      /\ m_PersistentIds' = {} /\ acked' \subseteq Messages
      /\ acked' \in {acked, acked \cup ReportedIds}
      /\ troubles' \in 0 .. MaxTroubles /\ writeFaults' \in 0 .. MaxWriteFaults
      /\ \/ file' = {} /\ UNCHANGED lost
         \/ file' = m_PersistentIds \cup {m} /\ lost' = lost \cup {m}
  <2>1. /\ ProcessEnds /\ OneMoreTrouble /\ UNCHANGED <<shown, delivered>>
        /\ writeFaults' \in 0 .. MaxWriteFaults
        /\ \/ file' = {} /\ UNCHANGED lost
           \/ file' = m_PersistentIds \cup {m} /\ lost' = lost \cup {m}
    BY DeliveryAssumption DEF KilledInHandler, TypeOK
  <2>2. troubles' \in 0 .. MaxTroubles
    BY <2>1, DeliveryAssumption DEF OneMoreTrouble, TypeOK
  <2> QED
    BY <2>1, <2>2, EndTyped
<1>2. TypeOK'
  <2>1. file' \subseteq Messages \cup {NoId} /\ lost' \subseteq Messages
    BY <1>1 DEF TypeOK
  <2> QED
    BY <1>1, <2>1 DEF TypeOK
<1>3. Grows
  BY <1>1 DEF Grows
<1>4. Known' \subseteq Known \cup lost'
  BY <1>1 DEF Known, ReportedIds
<1>5. Known \subseteq Messages \cup {NoId}
  BY DEF Known, TypeOK
<1>6. Honest(Known)'
  <2> SUFFICES ASSUME NEW n \in Known' \ {NoId}, Kind[n] = "good"
               PROVE  shown'[n] > 0 \/ n \in lost'
    BY DEF Honest
  <2> QED
    BY <1>3, <1>4, <1>5 DEF Honest, Grows
<1> QED
  BY <1>2, <1>3, <1>6

LEMMA StepIsHonest ==
  ASSUME TypeOK, Honest(Known), [Next]_vars
  PROVE  TypeOK' /\ Honest(Known)' /\ Grows
<1>1. CASE \E m \in Messages : HandleDataMessage(m) \/ KilledInHandler(m)
  BY <1>1, HandleDataIsHonest, KilledIsHonest
<1>2. ASSUME TypeOK', Known' \subseteq Known \cup {NoId}, UNCHANGED <<shown, lost>>
      PROVE  TypeOK' /\ Honest(Known)' /\ Grows
  <2>1. Grows
    BY <1>2 DEF Grows
  <2> QED
    BY <1>2, <2>1, KnowsNoMore
<1>3. CASE \E m \in Messages : Publish(m)
  <2>1. PICK m \in Messages : Publish(m)
    BY <1>3
  <2>2. queued' \in Seq(Messages) /\ Len(queued') = Len(queued) + 1
    BY <2>1, TypeFacts DEF Publish
  <2>3. TypeOK'
    BY <2>1, <2>2, TypeFacts DEF Publish, TypeOK, history, bounds
  <2> QED
    BY <1>2, <2>1, <2>3 DEF Publish, Known, history
<1>4. CASE AcceptLogin \/ RejectLogin
  <2>1. stream' \in {<<>>, <<LoginResponse>>}
    BY <1>4 DEF AcceptLogin, RejectLogin, Answered
  <2>2. stream' \in Seq(Messages \cup {LoginResponse})
    <3>1. /\ <<>> \in Seq(Messages \cup {LoginResponse})
          /\ <<LoginResponse>> \in Seq(Messages \cup {LoginResponse})
      OBVIOUS
    <3> QED
      BY <2>1, <3>1
  <2>3. troubles' \in 0 .. MaxTroubles
    BY <1>4, DeliveryAssumption DEF AcceptLogin, RejectLogin, OneMoreTrouble, bounds, TypeOK
  <2>4. Known' = Known /\ UNCHANGED history
    BY <1>4 DEF AcceptLogin, RejectLogin, ReportedIds, Known, server
  <2>5. TypeOK'
    BY <1>4, <2>2, <2>3, <2>4, TypeFacts
    DEF AcceptLogin, RejectLogin, ReportedIds, server, history, bounds, TypeOK, Links
  <2> QED
    BY <1>2, <2>4, <2>5 DEF history
<1>5. CASE SendNext
  <2>1. queued[cursor + 1] \in Messages /\ cursor' \in 0 .. Len(queued)
    BY <1>5, TypeFacts DEF SendNext
  <2>2. stream' \in Seq(Messages \cup {LoginResponse})
    BY <1>5, <2>1 DEF SendNext, TypeOK
  <2>3. TypeOK'
    BY <1>5, <2>1, <2>2 DEF SendNext, TypeOK, history, bounds
  <2> QED
    BY <1>2, <1>5, <2>3 DEF SendNext, Known, history
<1>6. CASE ConnectionBreaks
  <2>1. stream' \in Seq(Messages \cup {LoginResponse})
    <3>1. PICK n \in 0 .. Len(stream) : stream' = SubSeq(stream, 1, n)
      BY <1>6 DEF ConnectionBreaks
    <3> QED
      BY <3>1 DEF TypeOK
  <2>2. troubles' \in 0 .. MaxTroubles
    BY <1>6, DeliveryAssumption DEF ConnectionBreaks, OneMoreTrouble, TypeOK
  <2>3. TypeOK'
    BY <1>6, <2>1, <2>2 DEF ConnectionBreaks, TypeOK, server, history
  <2> QED
    BY <1>2, <1>6, <2>3 DEF ConnectionBreaks, Known, server, history
<1>7. CASE StartClient
  <2>1. m_PersistentIds' \subseteq file \cup {NoId}
    BY <1>7 DEF StartClient, LoadPersistentID
  <2>2. TypeOK'
    BY <1>7, <2>1 DEF StartClient, TypeOK, server, history, bounds, Links
  <2> QED
    BY <1>2, <1>7, <2>1, <2>2 DEF StartClient, Known, server, history
<1>8. CASE UserStops \/ UserStopsDeaf
  <2>1. ProcessEnds /\ UNCHANGED <<file, history, writeFaults>>
    BY <1>8 DEF UserStops, UserStopsDeaf, bounds
  <2>2. troubles' \in 0 .. MaxTroubles
    BY <1>8, DeliveryAssumption DEF UserStops, UserStopsDeaf, OneMoreTrouble, bounds, TypeOK
  <2>3. TypeOK'
    BY <2>1, <2>2, EndTyped DEF TypeOK, history
  <2> QED
    BY <1>2, <2>1, <2>3, EndTyped DEF ReportedIds, Known, history
<1>9. CASE HandleLoginResponse
  <2>1. Tail(stream) \in Seq(Messages \cup {LoginResponse})
    BY <1>9 DEF HandleLoginResponse, TypeOK
  <2>2. TypeOK'
    BY <1>9, <2>1 DEF HandleLoginResponse, TypeOK, server, history, bounds
  <2> QED
    BY <1>2, <1>9, <2>2 DEF HandleLoginResponse, Known, server, history
<1>10. CASE UNCHANGED vars
  BY <1>2, <1>10 DEF vars, server, history, bounds, TypeOK, Known
<1> QED
  BY <1>1, <1>3, <1>4, <1>5, <1>6, <1>7, <1>8, <1>9, <1>10
  DEF Next, ServerNext, ClientNext, UserNext, Trouble
(* The same of a client that opens the file and writes it in two steps.    *)
SharedTypeOK == TypeOK /\ open \in {{}} \cup {{m} : m \in Messages}

LEMMA OpenIsHonest ==
  ASSUME SharedTypeOK, Honest(Known), NEW m \in Messages, OpenFile(m)
  PROVE  SharedTypeOK' /\ Honest(Known)' /\ Grows
<1>1. Tail(stream) \in Seq(Messages \cup {LoginResponse})
  BY DEF SharedTypeOK, OpenFile, TypeOK
<1>2. SharedTypeOK'
  BY <1>1 DEF SharedTypeOK, OpenFile, TypeOK, server, history, bounds
<1>3. Known' \subseteq Known \cup {NoId} /\ Grows
  BY DEF OpenFile, Known, Grows, server, history
<1> QED
  BY <1>2, <1>3, KnowsNoMore DEF SharedTypeOK

LEMMA OverlaidIsKnown ==
  ASSUME NEW ids \in SUBSET (Messages \cup {NoId}), NEW m \in Messages
  PROVE  \A text \in Overlaid(ids, m) : text \subseteq ids \cup file
BY DEF Overlaid

LEMMA WriteIsHonest ==
  ASSUME SharedTypeOK, Honest(Known), NEW m \in Messages, WriteFile(m)
  PROVE  SharedTypeOK' /\ Honest(Known)' /\ Grows
<1>1. /\ shown \in [Messages -> 0 .. 2] /\ delivered \in [Messages -> 0 .. 2]
      /\ m_PersistentIds \subseteq Messages \cup {NoId}
      /\ file \subseteq Messages \cup {NoId} /\ acked \subseteq Messages
  BY DEF SharedTypeOK, TypeOK
<1>2. /\ open' = {} /\ UNCHANGED <<queued, acked, cursor, link, broken, stream, lost, troubles>>
      /\ m_PersistentIds' = m_PersistentIds \cup {m}
      /\ file' \in Overlaid(m_PersistentIds', m) \/ file' = file
      /\ EmitMessage(m) /\ delivered' = Count(delivered, m)
  BY DEF WriteFile, server
<1>3. file' \subseteq m_PersistentIds \cup {m} \cup file
  BY <1>1, <1>2, OverlaidIsKnown
<1>4. writeFaults' \in 0 .. MaxWriteFaults
  BY DeliveryAssumption DEF WriteFile, SharedTypeOK, TypeOK
<1>5. delivered' \in [Messages -> 0 .. 2]
  BY <1>1, <1>2, CountUp
<1>6. /\ shown' \in [Messages -> 0 .. 2]
      /\ \A n \in Messages : n # m => shown'[n] = shown[n]
      /\ shown[m] > 0 => shown'[m] > 0
      /\ Kind[m] = "good" => shown'[m] > 0
  <2>1. CASE shown' = Count(shown, m)
    BY <1>1, <2>1, CountUp
  <2>2. CASE Kind[m] # "good" /\ shown' = shown
    BY <1>1, <2>2
  <2> QED
    BY <1>2, <2>1, <2>2 DEF EmitMessage
<1>7. SharedTypeOK'
  BY <1>1, <1>2, <1>3, <1>4, <1>5, <1>6 DEF SharedTypeOK, TypeOK
<1>8. Grows
  BY <1>2, <1>6 DEF Grows
<1>9. Known' \subseteq Known \cup {m} /\ Known \subseteq Messages \cup {NoId}
  BY <1>1, <1>2, <1>3 DEF Known
<1>10. Honest(Known)'
  <2> SUFFICES ASSUME NEW n \in Known' \ {NoId}, Kind[n] = "good"
               PROVE  shown'[n] > 0 \/ n \in lost'
    BY DEF Honest
  <2>1. n = m \/ (n \in Known \ {NoId} /\ n \in Messages)
    BY <1>9
  <2> QED
    BY <1>2, <1>6, <2>1 DEF Honest
<1> QED
  BY <1>7, <1>8, <1>10

LEMMA KilledOpenIsHonest ==
  ASSUME SharedTypeOK, Honest(Known), NEW m \in Messages, KilledWhileOpen(m)
  PROVE  SharedTypeOK' /\ Honest(Known)' /\ Grows
<1>1. TypeOK /\ ProcessEnds /\ OneMoreTrouble
  BY DEF SharedTypeOK, KilledWhileOpen
<1>2. /\ open' = {} /\ UNCHANGED <<shown, delivered, writeFaults>>
      /\ \/ UNCHANGED <<file, lost>>
         \/ file' \in Overlaid(m_PersistentIds \cup {m}, m) /\ lost' = lost \cup {m}
  BY DEF KilledWhileOpen
<1>3. m_PersistentIds \cup {m} \subseteq Messages \cup {NoId}
  BY <1>1 DEF TypeOK
<1>4. /\ file' \subseteq file \cup m_PersistentIds \cup lost'
      /\ file' \subseteq Messages \cup {NoId} /\ lost' \subseteq Messages
      /\ lost \subseteq lost'
  BY <1>1, <1>2, <1>3, OverlaidIsKnown DEF TypeOK
<1>5. troubles' \in 0 .. MaxTroubles
  BY <1>1, DeliveryAssumption DEF OneMoreTrouble, TypeOK
<1>6. /\ stream' \in Seq(Messages \cup {LoginResponse}) /\ link' \in Links /\ broken' \in BOOLEAN
      /\ m_PersistentIds' = {} /\ acked' \subseteq Messages
      /\ acked' \in {acked, acked \cup ReportedIds} /\ UNCHANGED <<queued, cursor>>
  BY <1>1, EndTyped
<1>7. SharedTypeOK'
  BY <1>1, <1>2, <1>4, <1>5, <1>6 DEF SharedTypeOK, TypeOK
<1>8. Grows
  BY <1>2, <1>4 DEF Grows
<1>9. Known' \subseteq Known \cup lost' /\ Known \subseteq Messages \cup {NoId}
  BY <1>1, <1>4, <1>6 DEF Known, ReportedIds, TypeOK
<1>10. Honest(Known)'
  BY <1>8, <1>9 DEF Honest, Grows
<1> QED
  BY <1>7, <1>8, <1>10

LEMMA SharedStepIsHonest ==
  ASSUME SharedTypeOK, Honest(Known),
         \/ (\E m \in Messages : Publish(m)) /\ UNCHANGED open
         \/ SharedNext
         \/ UNCHANGED <<vars, open>>
  PROVE  SharedTypeOK' /\ Honest(Known)' /\ Grows
<1>1. CASE [Next]_vars /\ UNCHANGED open
  BY <1>1, StepIsHonest DEF SharedTypeOK
<1>2. CASE \E m \in Messages : OpenFile(m) \/ WriteFile(m) \/ KilledWhileOpen(m)
  BY <1>2, OpenIsHonest, WriteIsHonest, KilledOpenIsHonest
<1> QED
  BY <1>1, <1>2 DEF SharedNext, HandleWithoutFile, Next, ServerNext, ClientNext, UserNext, Trouble
=============================================================================

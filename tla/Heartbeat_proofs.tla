-------------------------- MODULE Heartbeat_proofs --------------------------
(***************************************************************************)
(* That pings neither multiply nor come late, for all delays that leave    *)
(* the sleep its room within the server's timeout.                         *)
(***************************************************************************)
EXTENDS Heartbeat, TLAPS

PingFrames == [id : Nat, age : 0 .. MaxDelay]
Frames     == [kind : Kinds, id : Nat, age : 0 .. MaxDelay]
Calls      == [by : Threads, phase : Phases, id : Nat, timer : -MaxLate .. TIME_SEND_HEARTBEAT]

(* At most one call, ping or answer is there.                              *)
Alone ==
  /\ Len(calls) <= 1
  /\ Len(toServer) <= 1
  /\ \A i, j \in Answers : i = j
  /\ Len(calls) = 1 => Len(toServer) = 0 /\ Answers = {}
  /\ Len(toServer) = 1 => Answers = {}

(* One is, until something fails.                                          *)
Present == faults = 0 => Len(calls) = 1 \/ Len(toServer) = 1 \/ Answers # {}

(* How long the server has waited, by where the ping is.                   *)
Punctual ==
  /\ \A i \in Answers : idle <= toClient[i].age
  /\ \A i \in DOMAIN calls : idle + calls[i].timer <= MaxDelay + TIME_SEND_HEARTBEAT
  /\ \A i \in DOMAIN toServer :
       idle <= MaxDelay + TIME_SEND_HEARTBEAT + MaxLate + toServer[i].age

(* Behind every number on its way to the client, at least as many packets  *)
(* are on theirs.                                                          *)
Counted ==
  /\ serverReceived <= clientReceived + Len(toClient)
  /\ \A i \in DOMAIN toClient : toClient[i].id <= clientReceived + i

HInv == TypeOK /\ Alone /\ Present /\ Punctual /\ Counted /\ NeverOverreports

-----------------------------------------------------------------------------

LEMMA Constants ==
  /\ TIME_SEND_HEARTBEAT \in Nat \ {0}
  /\ ServerTimeout \in Nat /\ MaxDelay \in Nat /\ MaxLate \in Nat
  /\ MaxData \in Nat /\ MaxPings \in Nat /\ MaxFaults \in Nat
BY HeartbeatAssumption

LEMMA TypeFacts ==
  ASSUME TypeOK
  PROVE  /\ toServer \in Seq(PingFrames)
         /\ toClient \in Seq(Frames)
         /\ calls \in Seq(Calls)
         /\ Len(toServer) \in Nat /\ DOMAIN toServer = 1 .. Len(toServer)
         /\ Len(toClient) \in Nat /\ DOMAIN toClient = 1 .. Len(toClient)
         /\ Len(calls) \in Nat /\ DOMAIN calls = 1 .. Len(calls)
         /\ serverReceived \in Nat /\ clientReceived \in Nat /\ idle \in Nat
         /\ dataSent \in Nat /\ faults \in Nat /\ failedWrites \in Nat /\ failuresLogged \in Nat
BY Constants DEF TypeOK, PingFrames, Frames, Calls

LEMMA Fields ==
  /\ \A f \in PingFrames : f.id \in Nat /\ f.age \in Nat /\ f.age <= MaxDelay
  /\ \A f \in Frames : f.kind \in Kinds /\ f.id \in Nat /\ f.age \in Nat /\ f.age <= MaxDelay
  /\ \A c \in Calls : /\ c.by \in Threads /\ c.phase \in Phases /\ c.id \in Nat
                        /\ c.timer \in Int
                        /\ -MaxLate <= c.timer /\ c.timer <= TIME_SEND_HEARTBEAT
BY Constants DEF PingFrames, Frames, Calls

(* The only call is removed.                                               *)
LEMMA RemoveOnly ==
  ASSUME NEW S, NEW s \in Seq(S), Len(s) <= 1, NEW i \in DOMAIN s
  PROVE  Len(s) = 1 /\ i = 1 /\ RemoveAt(s, i) = <<>>
<1>1. Len(s) \in Nat /\ DOMAIN s = 1 .. Len(s)
  OBVIOUS
<1>2. Len(s) = 1 /\ i = 1
  BY <1>1
<1>3. RemoveAt(s, i) = [j \in 1 .. 0 |-> IF j < i THEN s[j] ELSE s[j+1]]
  BY <1>2 DEF RemoveAt
<1>4. RemoveAt(s, i) = <<>>
  BY <1>3
<1>5. QED
  BY <1>2, <1>4

LEMMA InitEstablishes == Init => HInv
<1> SUFFICES ASSUME Init PROVE HInv
  OBVIOUS
<1> USE Constants DEF Init
<1>1. /\ toClient \in Seq(Frames) /\ Len(toClient) = 1
      /\ toClient[1] = [kind |-> "LoginResponse", id |-> 1, age |-> 0]
      /\ DOMAIN toClient = {1}
  BY DEF Frames, Kinds
<1>2. TypeOK
  BY <1>1 DEF TypeOK, Frames
<1>3. Answers = {1}
  BY <1>1 DEF Answers
<1>4. Alone /\ Present /\ Punctual
  BY <1>1, <1>3 DEF Alone, Present, Punctual
<1>5. Counted /\ NeverOverreports
  BY <1>1 DEF Counted, NeverOverreports
<1>6. QED
  BY <1>2, <1>4, <1>5 DEF HInv

(* The two ways the frames on their way to the client change.              *)
LEMMA FrameWritten ==
  ASSUME TypeOK, NEW kind \in Kinds, NEW n \in Nat, ServerSends(kind, n)
  PROVE  /\ toClient' \in Seq(Frames)
         /\ Len(toClient') = Len(toClient) + 1
         /\ \A i \in DOMAIN toClient : toClient'[i] = toClient[i]
         /\ toClient'[Len(toClient) + 1] = [kind |-> kind, id |-> n, age |-> 0]
         /\ kind = "DataMessage" => Answers' = Answers
         /\ kind # "DataMessage" => Answers' = Answers \cup {Len(toClient) + 1}
<1> DEFINE frame == [kind |-> kind, id |-> n, age |-> 0]
<1>1. frame \in Frames
  BY Constants DEF Frames
<1>2. toClient \in Seq(Frames) /\ toClient' = Append(toClient, frame)
  BY TypeFacts DEF ServerSends
<1> HIDE DEF frame
<1>3. /\ toClient' \in Seq(Frames)
      /\ Len(toClient) \in Nat /\ Len(toClient') = Len(toClient) + 1
      /\ DOMAIN toClient = 1 .. Len(toClient)
      /\ DOMAIN toClient' = 1 .. Len(toClient) + 1
      /\ \A i \in 1 .. Len(toClient) : toClient'[i] = toClient[i]
      /\ toClient'[Len(toClient) + 1] = frame
  BY <1>1, <1>2
<1>4. frame.kind = kind
  BY DEF frame
<1>5. \A i : i \in Answers' <=>
             i \in Answers \/ (kind # "DataMessage" /\ i = Len(toClient) + 1)
  BY <1>3, <1>4 DEF Answers
<1>6. /\ kind = "DataMessage" => Answers' = Answers
      /\ kind # "DataMessage" => Answers' = Answers \cup {Len(toClient) + 1}
  BY <1>5
<1>7. QED
  BY <1>3, <1>6 DEF frame

LEMMA FrameHandled ==
  ASSUME TypeOK, NEW kind, Handling(kind)
  PROVE  /\ Len(toClient) >= 1 /\ Head(toClient) = toClient[1] /\ toClient[1] \in Frames
         /\ toClient[1].kind = kind
         /\ toClient' \in Seq(Frames)
         /\ Len(toClient') = Len(toClient) - 1
         /\ DOMAIN toClient' = 1 .. Len(toClient) - 1
         /\ \A i \in DOMAIN toClient' : toClient'[i] = toClient[i+1]
         /\ \A i \in Answers' : i \in DOMAIN toClient' /\ i + 1 \in Answers
         /\ \A i \in Answers : i = 1 \/ i - 1 \in Answers'
         /\ clientReceived' = clientReceived + 1
<1>1. toClient \in Seq(Frames) /\ Len(toClient) \in Nat
  BY TypeFacts
<1>2. toClient # <<>> /\ Head(toClient).kind = kind /\ toClient' = Tail(toClient)
  BY DEF Handling
<1>3. /\ Len(toClient) >= 1 /\ Head(toClient) = toClient[1] /\ toClient[1] \in Frames
      /\ toClient' \in Seq(Frames)
      /\ Len(toClient') = Len(toClient) - 1
      /\ DOMAIN toClient' = 1 .. Len(toClient) - 1
      /\ \A i \in DOMAIN toClient' : toClient'[i] = toClient[i+1]
  BY <1>1, <1>2
<1>4. \A i \in Answers' : i \in DOMAIN toClient' /\ i + 1 \in Answers
  BY <1>1, <1>3 DEF Answers
<1>5. \A i \in Answers : i = 1 \/ i - 1 \in Answers'
  BY <1>1, <1>3 DEF Answers
<1>6. QED
  BY <1>2, <1>3, <1>4, <1>5 DEF Handling

(* Handling an answer leaves nothing of the kind but the call it makes.    *)
LEMMA AnswerHandled ==
  ASSUME HInv, NEW kind \in Kinds, kind # "DataMessage", Handling(kind)
  PROVE  /\ Len(calls) = 0 /\ Len(toServer) = 0 /\ Answers' = {}
         /\ 1 \in Answers /\ idle <= MaxDelay
         /\ Head(toClient).id \in Nat /\ Head(toClient).id <= clientReceived'
<1>1. TypeOK /\ Alone /\ Punctual /\ Counted
  BY DEF HInv
<1>2. /\ Len(toClient) \in Nat /\ Len(toClient) >= 1 /\ DOMAIN toClient = 1 .. Len(toClient)
      /\ Head(toClient) = toClient[1] /\ toClient[1] \in Frames /\ toClient[1].kind = kind
      /\ DOMAIN toClient' = 1 .. Len(toClient) - 1
      /\ \A i \in Answers' : i \in DOMAIN toClient' /\ i + 1 \in Answers
      /\ clientReceived' = clientReceived + 1
  BY <1>1, FrameHandled, TypeFacts
<1>3. 1 \in Answers
  BY <1>2 DEF Answers
<1>4. Answers' = {}
  BY <1>1, <1>2, <1>3 DEF Alone
<1>5. Len(calls) = 0 /\ Len(toServer) = 0
  BY <1>1, <1>3, TypeFacts DEF Alone
<1>6. idle <= MaxDelay
  <2>1. idle <= toClient[1].age
    BY <1>1, <1>3 DEF Punctual
  <2>2. QED
    BY <1>1, <1>2, <2>1, Constants, TypeFacts, Fields
<1>7. Head(toClient).id \in Nat /\ Head(toClient).id <= clientReceived'
  <2>1. toClient[1].id <= clientReceived + 1
    BY <1>1, <1>2 DEF Counted
  <2>2. QED
    BY <1>2, <2>1, Fields
<1>8. QED
  BY <1>3, <1>4, <1>5, <1>6, <1>7

(* What handling leaves of Counted and of the types.                       *)
LEMMA HandledCounted ==
  ASSUME HInv, NEW kind, Handling(kind), UNCHANGED serverReceived
  PROVE  /\ Counted'
         /\ toClient' \in Seq(Frames)
         /\ clientReceived' \in Nat
<1>1. TypeOK /\ Counted
  BY DEF HInv
<1>2. /\ Len(toClient) \in Nat /\ Len(toClient') = Len(toClient) - 1
      /\ DOMAIN toClient = 1 .. Len(toClient)
      /\ DOMAIN toClient' = 1 .. Len(toClient) - 1
      /\ \A i \in DOMAIN toClient' : toClient'[i] = toClient[i+1]
      /\ toClient \in Seq(Frames)
      /\ clientReceived' = clientReceived + 1
  BY <1>1, FrameHandled, TypeFacts
<1>3. \A i \in DOMAIN toClient' : toClient'[i].id <= clientReceived' + i
  <2> SUFFICES ASSUME NEW i \in DOMAIN toClient' PROVE toClient'[i].id <= clientReceived' + i
    OBVIOUS
  <2>1. i \in Nat /\ i + 1 \in DOMAIN toClient /\ toClient[i+1] \in Frames
    BY <1>2
  <2>2. toClient[i+1].id <= clientReceived + (i + 1)
    BY <1>1, <2>1 DEF Counted
  <2>3. toClient'[i].id = toClient[i+1].id /\ toClient[i+1].id \in Nat
    BY <1>2, <2>1, Fields
  <2>4. QED
    BY <1>1, <1>2, <2>1, <2>2, <2>3, TypeFacts
<1>4. serverReceived' <= clientReceived' + Len(toClient')
  <2>1. serverReceived <= clientReceived + Len(toClient)
    BY <1>1 DEF Counted
  <2>2. serverReceived \in Nat /\ clientReceived \in Nat /\ serverReceived' = serverReceived
    BY <1>1, TypeFacts
  <2>3. QED
    BY <1>2, <2>1, <2>2
<1>5. Counted'
  BY <1>3, <1>4 DEF Counted
<1>6. toClient' \in Seq(Frames)
  BY <1>1, FrameHandled
<1>7. clientReceived' \in Nat
  BY <1>1, <1>2, TypeFacts
<1>8. QED
  BY <1>5, <1>6, <1>7

(* A call that is made when there is nothing else.                         *)
LEMMA CallMade ==
  ASSUME HInv, Len(calls) = 0, Len(toServer) = 0, Answers' = {}, idle <= MaxDelay,
         NEW call \in Calls, call.id <= clientReceived',
         calls' = Append(calls, call),
         UNCHANGED <<toServer, idle, faults>>, clientReceived' \in Nat
  PROVE  /\ calls' \in Seq(Calls)
         /\ Alone' /\ Present' /\ Punctual' /\ NeverOverreports'
<1>1. /\ calls \in Seq(Calls) /\ idle \in Nat /\ toServer' = <<>>
  BY TypeFacts DEF HInv
<1>2. calls' \in Seq(Calls) /\ Len(calls') = 1 /\ DOMAIN calls' = {1} /\ calls'[1] = call
  BY <1>1
<1>3. call.timer \in Int /\ call.timer <= TIME_SEND_HEARTBEAT
  BY Fields
<1>4. Alone' /\ Present'
  BY <1>1, <1>2 DEF Alone, Present
<1>5. Punctual'
  BY <1>1, <1>2, <1>3, Constants DEF Punctual
<1>6. NeverOverreports'
  BY <1>1, <1>2 DEF NeverOverreports
<1>7. QED
  BY <1>2, <1>4, <1>5, <1>6

-----------------------------------------------------------------------------
(* Every step preserves HInv.                                              *)

LEMMA SendDataPreserves == HInv /\ SendDataMessage => HInv'
<1> SUFFICES ASSUME HInv, SendDataMessage PROVE HInv'
  OBVIOUS
<1>1. TypeOK /\ Alone /\ Present /\ Punctual /\ Counted /\ NeverOverreports
  BY DEF HInv
<1>2. /\ dataSent < MaxData /\ dataSent' = dataSent + 1
      /\ UNCHANGED <<toServer, calls, serverReceived, clientReceived, idle, faults,
                     failedWrites, failuresLogged>>
      /\ ServerSends("DataMessage", serverReceived)
  BY DEF SendDataMessage, counts, logs
<1>3. /\ toClient' \in Seq(Frames) /\ Answers' = Answers
      /\ Len(toClient') = Len(toClient) + 1
      /\ \A i \in DOMAIN toClient : toClient'[i] = toClient[i]
      /\ toClient'[Len(toClient) + 1].id = serverReceived
  <2>1. serverReceived \in Nat /\ "DataMessage" \in Kinds
    BY <1>1, TypeFacts DEF Kinds
  <2>2. toClient'[Len(toClient) + 1] =
          [kind |-> "DataMessage", id |-> serverReceived, age |-> 0]
    BY <1>1, <1>2, <2>1, FrameWritten
  <2>3. QED
    BY <1>1, <1>2, <2>1, <2>2, FrameWritten
<1>4. /\ DOMAIN toClient = 1 .. Len(toClient) /\ DOMAIN toClient' = 1 .. Len(toClient) + 1
      /\ Len(toClient) \in Nat
  BY <1>1, <1>3, TypeFacts
<1>5. TypeOK'
  BY <1>1, <1>2, <1>3, TypeFacts, Constants DEF TypeOK, Frames
<1>6. Alone' /\ Present' /\ NeverOverreports'
  BY <1>1, <1>2, <1>3 DEF Alone, Present, NeverOverreports
<1>7. Punctual'
  <2>1. \A i \in Answers' : toClient'[i] = toClient[i]
    BY <1>3 DEF Answers
  <2>2. QED
    BY <1>1, <1>2, <1>3, <2>1 DEF Punctual
<1>8. Counted'
  <2>1. \A i \in DOMAIN toClient' : i \in DOMAIN toClient \/ i = Len(toClient) + 1
    BY <1>4
  <2>2. serverReceived <= clientReceived + Len(toClient)
    BY <1>1 DEF Counted
  <2>3. \A i \in DOMAIN toClient : toClient[i].id <= clientReceived + i
    BY <1>1 DEF Counted
  <2>4. serverReceived' <= clientReceived' + Len(toClient')
    BY <1>1, <1>2, <1>3, <1>4, <2>2, TypeFacts
  <2>5. \A i \in DOMAIN toClient' : toClient'[i].id <= clientReceived' + i
    <3>1. ASSUME NEW i \in DOMAIN toClient
          PROVE  toClient'[i].id <= clientReceived' + i
      BY <1>2, <1>3, <2>3
    <3>2. serverReceived \in Nat /\ clientReceived \in Nat /\ clientReceived' = clientReceived
      BY <1>1, <1>2, TypeFacts
    <3>3. serverReceived <= clientReceived + (Len(toClient) + 1)
      BY <1>4, <2>2, <3>2
    <3>4. toClient'[Len(toClient) + 1].id <= clientReceived' + (Len(toClient) + 1)
      BY <1>3, <3>2, <3>3
    <3>5. QED
      BY <2>1, <3>1, <3>4
  <2>6. QED
    BY <2>4, <2>5 DEF Counted
<1>9. QED
  BY <1>5, <1>6, <1>7, <1>8 DEF HInv

LEMMA AnswerPingPreserves == HInv /\ AnswerPing => HInv'
<1> SUFFICES ASSUME HInv, AnswerPing PROVE HInv'
  OBVIOUS
<1>1. TypeOK /\ Alone /\ Punctual /\ Counted /\ NeverOverreports
  BY DEF HInv
<1>2. /\ toServer # <<>> /\ toServer' = Tail(toServer)
      /\ serverReceived' = serverReceived + 1 /\ idle' = 0
      /\ UNCHANGED <<calls, clientReceived, dataSent, faults, failedWrites, failuresLogged>>
      /\ ServerSends("HeartbeatAck", serverReceived + 1)
  BY DEF AnswerPing, logs
<1>3. serverReceived + 1 \in Nat
  BY <1>1, TypeFacts
<1>4. /\ toClient' \in Seq(Frames) /\ Answers' = Answers \cup {Len(toClient) + 1}
      /\ Len(toClient') = Len(toClient) + 1
      /\ \A i \in DOMAIN toClient : toClient'[i] = toClient[i]
      /\ toClient'[Len(toClient) + 1] =
           [kind |-> "HeartbeatAck", id |-> serverReceived + 1, age |-> 0]
  BY <1>1, <1>2, <1>3, FrameWritten DEF Kinds
<1>5. /\ DOMAIN toClient = 1 .. Len(toClient) /\ DOMAIN toClient' = 1 .. Len(toClient) + 1
      /\ Len(toClient) \in Nat
  BY <1>1, <1>4, TypeFacts
<1>6. toServer \in Seq(PingFrames) /\ Len(toServer) = 1
  BY <1>1, <1>2, TypeFacts DEF Alone
<1>7. toServer' = <<>> /\ Len(calls) = 0 /\ Answers = {}
  <2>1. toServer' = <<>>
    BY <1>2, <1>6
  <2>2. Answers = {} /\ Len(calls) # 1 /\ Len(calls) <= 1
    BY <1>1, <1>6 DEF Alone
  <2>3. QED
    BY <1>1, <2>1, <2>2, TypeFacts
<1>8. Answers' = {Len(toClient) + 1}
  BY <1>4, <1>7
<1>9. TypeOK'
  BY <1>1, <1>2, <1>3, <1>4, <1>7, TypeFacts, Constants DEF TypeOK, Frames
<1>10. Alone' /\ Present'
  BY <1>2, <1>7, <1>8 DEF Alone, Present
<1>11. calls' = <<>>
  BY <1>1, <1>2, <1>7, TypeFacts
<1>12. Punctual' /\ NeverOverreports'
  BY <1>2, <1>4, <1>7, <1>8, <1>11 DEF Punctual, NeverOverreports
<1>13. Counted'
  <2>1. \A i \in DOMAIN toClient' : i \in DOMAIN toClient \/ i = Len(toClient) + 1
    BY <1>5
  <2>2. serverReceived <= clientReceived + Len(toClient)
    BY <1>1 DEF Counted
  <2>3. \A i \in DOMAIN toClient : toClient[i].id <= clientReceived + i
    BY <1>1 DEF Counted
  <2>4. serverReceived' <= clientReceived' + Len(toClient')
    BY <1>1, <1>2, <1>4, <1>5, <2>2, TypeFacts
  <2>5. \A i \in DOMAIN toClient' : toClient'[i].id <= clientReceived' + i
    <3> SUFFICES ASSUME NEW i \in DOMAIN toClient' PROVE toClient'[i].id <= clientReceived' + i
      OBVIOUS
    <3>1. CASE i \in DOMAIN toClient
      BY <1>2, <1>4, <2>3, <3>1
    <3>2. CASE i = Len(toClient) + 1
      <4>1. toClient'[i].id = serverReceived + 1
        BY <1>4, <3>2
      <4>2. QED
        BY <1>1, <1>2, <1>5, <2>2, <3>2, <4>1, TypeFacts
    <3>3. QED
      BY <2>1, <3>1, <3>2
  <2>6. QED
    BY <2>4, <2>5 DEF Counted
<1>14. QED
  BY <1>9, <1>10, <1>12, <1>13 DEF HInv

LEMMA HandleDataPreserves == HInv /\ HandleDataMessageStanzaTag => HInv'
<1> SUFFICES ASSUME HInv, HandleDataMessageStanzaTag PROVE HInv'
  OBVIOUS
<1>1. TypeOK /\ Alone /\ Present /\ Punctual /\ NeverOverreports
  BY DEF HInv
<1>2. /\ Handling("DataMessage")
      /\ UNCHANGED <<toServer, calls, serverReceived, idle, dataSent, faults,
                     failedWrites, failuresLogged>>
  BY DEF HandleDataMessageStanzaTag, logs
<1>3. Counted' /\ toClient' \in Seq(Frames) /\ clientReceived' \in Nat
  BY <1>2, HandledCounted
<1>4. /\ toClient[1].kind = "DataMessage"
      /\ \A i \in DOMAIN toClient' : toClient'[i] = toClient[i+1]
      /\ \A i \in Answers' : i \in DOMAIN toClient' /\ i + 1 \in Answers
      /\ \A i \in Answers : i = 1 \/ i - 1 \in Answers'
      /\ DOMAIN toClient' \subseteq Nat
      /\ clientReceived' = clientReceived + 1
  <2>1. DOMAIN toClient' = 1 .. Len(toClient) - 1
    BY <1>1, <1>2, FrameHandled
  <2>2. DOMAIN toClient' \subseteq Nat
    BY <2>1
  <2>3. QED
    BY <1>1, <1>2, <2>2, FrameHandled
<1>5. TypeOK'
  BY <1>1, <1>2, <1>3, TypeFacts DEF TypeOK, Frames
<1>6. 1 \notin Answers
  BY <1>4 DEF Answers
<1>7. \A i, j \in Answers' : i = j
  <2> SUFFICES ASSUME NEW i \in Answers', NEW j \in Answers' PROVE i = j
    OBVIOUS
  <2>1. i \in Nat /\ j \in Nat /\ i + 1 \in Answers /\ j + 1 \in Answers
    BY <1>4
  <2>2. i + 1 = j + 1
    BY <1>1, <2>1 DEF Alone
  <2>3. QED
    BY <2>1, <2>2
<1>8. (Answers = {}) <=> (Answers' = {})
  BY <1>4, <1>6
<1>9. Alone' /\ Present'
  BY <1>1, <1>2, <1>7, <1>8 DEF Alone, Present
<1>10. Punctual'
  BY <1>1, <1>2, <1>4 DEF Punctual
<1>11. NeverOverreports'
  <2>1. /\ \A i \in DOMAIN toServer : toServer[i] \in PingFrames
        /\ \A i \in DOMAIN calls : calls[i] \in Calls
    BY <1>1, TypeFacts
  <2>2. /\ \A i \in DOMAIN toServer : toServer[i].id \in Nat /\ toServer[i].id <= clientReceived
        /\ \A i \in DOMAIN calls : calls[i].id \in Nat /\ calls[i].id <= clientReceived
    BY <1>1, <2>1, Fields DEF NeverOverreports
  <2>3. /\ \A i \in DOMAIN toServer : toServer[i].id <= clientReceived + 1
        /\ \A i \in DOMAIN calls : calls[i].id <= clientReceived + 1
    BY <1>1, <2>2, TypeFacts
  <2>4. QED
    BY <1>2, <1>4, <2>3 DEF NeverOverreports
<1>12. QED
  BY <1>3, <1>5, <1>9, <1>10, <1>11 DEF HInv

LEMMA HandleLoginPreserves == HInv /\ HandleLoginResponseTag => HInv'
<1> SUFFICES ASSUME HInv, HandleLoginResponseTag PROVE HInv'
  OBVIOUS
<1> DEFINE call == [by |-> "main", phase |-> "writing", id |-> Head(toClient).id, timer |-> 0]
<1>1. TypeOK
  BY DEF HInv
<1>2. /\ Handling("LoginResponse") /\ calls' = Append(calls, call)
      /\ UNCHANGED <<toServer, serverReceived, idle, dataSent, faults,
                     failedWrites, failuresLogged>>
  BY DEF HandleLoginResponseTag, logs
<1>3. Counted' /\ toClient' \in Seq(Frames) /\ clientReceived' \in Nat
  BY <1>2, HandledCounted
<1>4. /\ Len(calls) = 0 /\ Len(toServer) = 0 /\ Answers' = {} /\ idle <= MaxDelay
      /\ Head(toClient).id \in Nat /\ Head(toClient).id <= clientReceived'
  BY <1>2, AnswerHandled DEF Kinds
<1>5. call \in Calls /\ call.id <= clientReceived'
  BY <1>4, Constants DEF Calls, Threads, Phases
<1> HIDE DEF call
<1>6. calls' \in Seq(Calls) /\ Alone' /\ Present' /\ Punctual' /\ NeverOverreports'
  BY <1>2, <1>3, <1>4, <1>5, CallMade
<1>7. TypeOK'
  BY <1>1, <1>2, <1>3, <1>6, TypeFacts DEF TypeOK, Frames, Calls
<1>8. QED
  BY <1>3, <1>6, <1>7 DEF HInv

LEMMA HandleAckPreserves == HInv /\ HandleHeartbeatAck => HInv'
<1> SUFFICES ASSUME HInv, HandleHeartbeatAck PROVE HInv'
  OBVIOUS
<1> DEFINE call == Sleeping(Head(toClient).id, TIME_SEND_HEARTBEAT)
<1>1. TypeOK
  BY DEF HInv
<1>2. /\ Handling("HeartbeatAck")
      /\ UNCHANGED <<toServer, serverReceived, idle, dataSent, failedWrites, failuresLogged>>
  BY DEF HandleHeartbeatAck, logs
<1>3. Counted' /\ toClient' \in Seq(Frames) /\ clientReceived' \in Nat
  BY <1>2, HandledCounted
<1>4. /\ Len(calls) = 0 /\ Len(toServer) = 0 /\ Answers' = {} /\ idle <= MaxDelay
      /\ Head(toClient).id \in Nat /\ Head(toClient).id <= clientReceived'
  BY <1>2, AnswerHandled DEF Kinds
<1>5. CASE calls' = Append(calls, call) /\ UNCHANGED faults
  <2>1. call \in Calls /\ call.id <= clientReceived'
    BY <1>4, Constants DEF Calls, Threads, Phases, Sleeping
  <2> HIDE DEF call
  <2>2. calls' \in Seq(Calls) /\ Alone' /\ Present' /\ Punctual' /\ NeverOverreports'
    BY <1>2, <1>3, <1>4, <1>5, <2>1, CallMade
  <2>3. TypeOK'
    BY <1>1, <1>2, <1>3, <1>5, <2>2, TypeFacts DEF TypeOK, Frames, Calls
  <2>4. QED
    BY <1>3, <2>2, <2>3 DEF HInv
<1>6. CASE faults < MaxFaults /\ faults' = faults + 1 /\ UNCHANGED calls
  <2>1. faults \in Nat /\ faults' # 0 /\ faults' \in 0 .. MaxFaults
    BY <1>1, <1>6, TypeFacts, Constants
  <2>2. TypeOK'
    BY <1>1, <1>2, <1>3, <1>6, <2>1, TypeFacts DEF TypeOK, Frames
  <2>3. calls' = <<>> /\ toServer' = <<>>
    BY <1>1, <1>2, <1>4, <1>6, TypeFacts
  <2>4. Alone' /\ Present' /\ Punctual' /\ NeverOverreports'
    BY <1>4, <2>1, <2>3 DEF Alone, Present, Punctual, NeverOverreports
  <2>5. QED
    BY <1>3, <2>2, <2>4 DEF HInv
<1>7. QED
  BY <1>5, <1>6 DEF HandleHeartbeatAck, StartThread

LEMMA StartWritingPreserves ==
  ASSUME HInv, NEW i \in DOMAIN calls, StartWriting(i)
  PROVE  HInv'
<1>1. TypeOK /\ Alone /\ Present /\ Punctual /\ Counted /\ NeverOverreports
  BY DEF HInv
<1>2. /\ calls' = [calls EXCEPT ![i].phase = "writing"]
      /\ UNCHANGED <<toServer, toClient, serverReceived, clientReceived, idle, dataSent,
                     faults, failedWrites, failuresLogged>>
  BY DEF StartWriting, network, counts, logs
<1>3. calls \in Seq(Calls) /\ \A j \in DOMAIN calls : calls[j] \in Calls
  BY <1>1, TypeFacts
<1>4. [calls[i] EXCEPT !.phase = "writing"] \in Calls
  BY <1>3 DEF Calls, Phases
<1>5. calls' \in Seq(Calls)
  BY <1>2, <1>3, <1>4
<1>6. /\ Len(calls') = Len(calls) /\ DOMAIN calls' = DOMAIN calls
      /\ \A j \in DOMAIN calls : /\ calls'[j].id = calls[j].id
                                 /\ calls'[j].timer = calls[j].timer
  BY <1>2, <1>3 DEF Calls
<1>7. Answers' = Answers
  BY <1>2 DEF Answers
<1>8. TypeOK'
  BY <1>1, <1>2, <1>5 DEF TypeOK, Calls
<1>9. Alone' /\ Present'
  BY <1>1, <1>2, <1>6, <1>7 DEF Alone, Present
<1>10. Punctual' /\ Counted' /\ NeverOverreports'
  BY <1>1, <1>2, <1>6, <1>7 DEF Punctual, Counted, NeverOverreports
<1>11. QED
  BY <1>8, <1>9, <1>10 DEF HInv

LEMMA EndWritingPreserves ==
  ASSUME HInv, NEW i \in DOMAIN calls, EndWriting(i)
  PROVE  HInv'
<1>1. TypeOK /\ Alone /\ Present /\ Punctual /\ Counted /\ NeverOverreports
  BY DEF HInv
<1>2. /\ calls[i].phase = "writing" /\ calls' = RemoveAt(calls, i)
      /\ UNCHANGED <<toClient, serverReceived, clientReceived, idle, dataSent>>
  BY DEF EndWriting, counts
<1>3. calls \in Seq(Calls) /\ Len(calls) <= 1
  BY <1>1, TypeFacts DEF Alone
<1>4. Len(calls) = 1 /\ i = 1 /\ calls' = <<>>
  BY <1>2, <1>3, RemoveOnly
<1>5. /\ toServer = <<>> /\ Answers = {} /\ Answers' = {}
  BY <1>1, <1>2, <1>4, TypeFacts DEF Alone, Answers
<1>6. calls[i] \in Calls
  BY <1>3
<1>7. failuresLogged' = failuresLogged
  BY <1>1, TypeFacts DEF EndWriting, SendResult, SOCKET_ERROR
<1>8. Counted'
  BY <1>1, <1>2 DEF Counted
<1>9. CASE /\ toServer' = Append(toServer, [id |-> calls[i].id, age |-> 0])
           /\ UNCHANGED <<faults, failedWrites>>
  <2> DEFINE ping == [id |-> calls[i].id, age |-> 0]
  <2>1. ping \in PingFrames /\ ping.id <= clientReceived /\ ping.age = 0
    BY <1>1, <1>6, Fields, Constants DEF PingFrames, NeverOverreports
  <2> HIDE DEF ping
  <2>2. /\ toServer' \in Seq(PingFrames) /\ Len(toServer') = 1
        /\ DOMAIN toServer' = {1} /\ toServer'[1] = ping
    BY <1>5, <1>9, <2>1 DEF ping
  <2>3. TypeOK'
    BY <1>1, <1>2, <1>4, <1>7, <1>9, <2>2 DEF TypeOK, PingFrames
  <2>4. Alone' /\ Present'
    BY <1>4, <1>5, <2>2 DEF Alone, Present
  <2>5. idle <= MaxDelay + TIME_SEND_HEARTBEAT + MaxLate
    <3>1. idle + calls[i].timer <= MaxDelay + TIME_SEND_HEARTBEAT
      BY <1>1 DEF Punctual
    <3>2. calls[i].timer \in Int /\ -MaxLate <= calls[i].timer
      BY <1>6, Fields
    <3>3. idle \in Nat
      BY <1>1, TypeFacts
    <3>4. QED
      BY <3>1, <3>2, <3>3, Constants
  <2>6. Punctual'
    BY <1>1, <1>2, <1>4, <1>5, <2>1, <2>2, <2>5, Constants, TypeFacts DEF Punctual
  <2>7. NeverOverreports'
    BY <1>2, <1>4, <2>1, <2>2 DEF NeverOverreports
  <2>8. QED
    BY <1>8, <2>3, <2>4, <2>6, <2>7 DEF HInv
<1>10. CASE /\ faults < MaxFaults /\ faults' = faults + 1
            /\ failedWrites' = failedWrites + 1
            /\ UNCHANGED toServer
  <2>1. /\ faults' \in 0 .. MaxFaults /\ faults' # 0
        /\ failedWrites' \in 0 .. faults' /\ failuresLogged' \in 0 .. failedWrites'
    BY <1>1, <1>7, <1>10, Constants DEF TypeOK
  <2>2. TypeOK'
    <3>1. calls' \in Seq(Calls)
      BY <1>4
    <3>2. QED
      BY <1>1, <1>2, <1>10, <2>1, <3>1 DEF TypeOK, Calls
  <2>3. toServer' = <<>>
    BY <1>5, <1>10
  <2>4. Alone' /\ Present' /\ Punctual' /\ NeverOverreports'
    BY <1>4, <1>5, <2>1, <2>3 DEF Alone, Present, Punctual, NeverOverreports
  <2>5. QED
    BY <1>8, <2>2, <2>4 DEF HInv
<1>11. QED
  BY <1>9, <1>10 DEF EndWriting

LEMMA TickPreserves == HInv /\ Tick => HInv'
<1> SUFFICES ASSUME HInv, Tick PROVE HInv'
  OBVIOUS
<1>1. TypeOK /\ Alone /\ Present /\ Punctual /\ Counted /\ NeverOverreports
  BY DEF HInv
<1>2. /\ idle' = idle + 1
      /\ UNCHANGED <<serverReceived, clientReceived, dataSent, faults,
                     failedWrites, failuresLogged>>
  BY DEF Tick, counts, logs
<1>3. /\ toServer \in Seq(PingFrames) /\ toClient \in Seq(Frames) /\ calls \in Seq(Calls)
  BY <1>1, TypeFacts
<1>4. /\ toServer' \in Seq(PingFrames) /\ Len(toServer') = Len(toServer)
      /\ DOMAIN toServer' = DOMAIN toServer
      /\ \A i \in DOMAIN toServer : /\ toServer'[i].id = toServer[i].id
                                    /\ toServer'[i].age = toServer[i].age + 1
  <2>1. toServer' = [i \in DOMAIN toServer |-> [toServer[i] EXCEPT !.age = @ + 1]]
    BY DEF Tick, OlderFrames
  <2>2. \A i \in DOMAIN toServer : toServer[i] \in PingFrames /\ toServer[i].age < MaxDelay
    BY <1>3 DEF Tick
  <2>3. \A i \in DOMAIN toServer : [toServer[i] EXCEPT !.age = @ + 1] \in PingFrames
    BY <2>2, Constants DEF PingFrames
  <2>4. Len(toServer) \in Nat /\ DOMAIN toServer = 1 .. Len(toServer)
    BY <1>3
  <2>5. toServer' \in [1 .. Len(toServer) -> PingFrames]
    BY <2>1, <2>3, <2>4
  <2>6. toServer' \in Seq(PingFrames) /\ Len(toServer') = Len(toServer)
    BY <2>1, <2>4, <2>5
  <2>7. QED
    BY <2>1, <2>2, <2>6 DEF PingFrames
<1>5. /\ toClient' \in Seq(Frames) /\ Len(toClient') = Len(toClient)
      /\ DOMAIN toClient' = DOMAIN toClient
      /\ \A i \in DOMAIN toClient : /\ toClient'[i].id = toClient[i].id
                                    /\ toClient'[i].kind = toClient[i].kind
                                    /\ toClient'[i].age = toClient[i].age + 1
  <2>1. toClient' = [i \in DOMAIN toClient |-> [toClient[i] EXCEPT !.age = @ + 1]]
    BY DEF Tick, OlderFrames
  <2>2. \A i \in DOMAIN toClient : toClient[i] \in Frames /\ toClient[i].age < MaxDelay
    BY <1>3 DEF Tick
  <2>3. \A i \in DOMAIN toClient : [toClient[i] EXCEPT !.age = @ + 1] \in Frames
    BY <2>2, Constants DEF Frames
  <2>4. Len(toClient) \in Nat /\ DOMAIN toClient = 1 .. Len(toClient)
    BY <1>3
  <2>5. toClient' \in [1 .. Len(toClient) -> Frames]
    BY <2>1, <2>3, <2>4
  <2>6. toClient' \in Seq(Frames) /\ Len(toClient') = Len(toClient)
    BY <2>1, <2>4, <2>5
  <2>7. QED
    BY <2>1, <2>2, <2>6 DEF Frames
<1>6. /\ calls' \in Seq(Calls) /\ Len(calls') = Len(calls)
      /\ DOMAIN calls' = DOMAIN calls
      /\ \A i \in DOMAIN calls : /\ calls'[i].id = calls[i].id
                                 /\ calls'[i].timer = calls[i].timer - 1
                                 /\ calls[i].timer \in Int
  <2>1. calls' = [i \in DOMAIN calls |-> [calls[i] EXCEPT !.timer = @ - 1]]
    BY DEF Tick
  <2>2. \A i \in DOMAIN calls : calls[i] \in Calls /\ calls[i].timer > -MaxLate
    BY <1>3 DEF Tick
  <2>3. \A i \in DOMAIN calls : [calls[i] EXCEPT !.timer = @ - 1] \in Calls
    BY <2>2, Constants DEF Calls
  <2>4. Len(calls) \in Nat /\ DOMAIN calls = 1 .. Len(calls)
    BY <1>3
  <2>5. calls' \in [1 .. Len(calls) -> Calls]
    BY <2>1, <2>3, <2>4
  <2>6. calls' \in Seq(Calls) /\ Len(calls') = Len(calls)
    BY <2>1, <2>4, <2>5
  <2>7. QED
    BY <2>1, <2>2, <2>6, Fields DEF Calls
<1>7. Answers' = Answers
  BY <1>5 DEF Answers
<1>8. TypeOK'
  BY <1>1, <1>2, <1>4, <1>5, <1>6, TypeFacts DEF TypeOK, PingFrames, Frames, Calls
<1>9. Alone' /\ Present'
  BY <1>1, <1>2, <1>4, <1>6, <1>7 DEF Alone, Present
<1>10. Counted' /\ NeverOverreports'
  BY <1>1, <1>2, <1>4, <1>5, <1>6 DEF Counted, NeverOverreports
<1>11. Punctual'
  <2>1. \A i \in Answers' : idle' <= toClient'[i].age
    <3> SUFFICES ASSUME NEW i \in Answers' PROVE idle' <= toClient'[i].age
      OBVIOUS
    <3>1. i \in Answers /\ i \in DOMAIN toClient /\ toClient[i] \in Frames
      BY <1>3, <1>7 DEF Answers
    <3>2. idle <= toClient[i].age /\ toClient[i].age \in Nat
      BY <1>1, <3>1, Fields DEF Punctual
    <3>3. idle \in Nat /\ idle' = idle + 1 /\ toClient'[i].age = toClient[i].age + 1
      BY <1>1, <1>2, <1>5, <3>1, TypeFacts
    <3>4. QED
      BY <3>2, <3>3
  <2>2. \A i \in DOMAIN calls' : idle' + calls'[i].timer <= MaxDelay + TIME_SEND_HEARTBEAT
    <3> SUFFICES ASSUME NEW i \in DOMAIN calls
                 PROVE  idle' + calls'[i].timer <= MaxDelay + TIME_SEND_HEARTBEAT
      BY <1>6
    <3>1. idle + calls[i].timer <= MaxDelay + TIME_SEND_HEARTBEAT
      BY <1>1 DEF Punctual
    <3>2. /\ idle \in Nat /\ idle' = idle + 1
          /\ calls[i].timer \in Int /\ calls'[i].timer = calls[i].timer - 1
      BY <1>1, <1>2, <1>6, TypeFacts
    <3>3. QED
      BY <3>1, <3>2, Constants
  <2>3. \A i \in DOMAIN toServer' :
          idle' <= MaxDelay + TIME_SEND_HEARTBEAT + MaxLate + toServer'[i].age
    <3> SUFFICES ASSUME NEW i \in DOMAIN toServer
                 PROVE  idle' <= MaxDelay + TIME_SEND_HEARTBEAT + MaxLate + toServer'[i].age
      BY <1>4
    <3>1. idle <= MaxDelay + TIME_SEND_HEARTBEAT + MaxLate + toServer[i].age
      BY <1>1 DEF Punctual
    <3>2. toServer[i].age \in Nat
      BY <1>3, Fields
    <3>3. idle \in Nat /\ idle' = idle + 1 /\ toServer'[i].age = toServer[i].age + 1
      BY <1>1, <1>2, <1>4, TypeFacts
    <3>4. QED
      BY <3>1, <3>2, <3>3, Constants
  <2>4. QED
    BY <2>1, <2>2, <2>3 DEF Punctual
<1>12. QED
  BY <1>8, <1>9, <1>10, <1>11 DEF HInv

LEMMA StutterPreserves == HInv /\ UNCHANGED vars => HInv'
BY DEF HInv, vars, network, counts, logs, TypeOK, Alone, Present, Punctual, Counted,
       NeverOverreports, Answers

(* HInv is inductive.                                                      *)
THEOREM Inductive == Spec => []HInv
<1>1. HInv /\ [Next]_vars => HInv'
  <2> SUFFICES ASSUME HInv, [Next]_vars PROVE HInv'
    OBVIOUS
  <2>1. CASE SendDataMessage
    BY <2>1, SendDataPreserves
  <2>2. CASE AnswerPing
    BY <2>2, AnswerPingPreserves
  <2>3. CASE HandleDataMessageStanzaTag
    BY <2>3, HandleDataPreserves
  <2>4. CASE HandleLoginResponseTag
    BY <2>4, HandleLoginPreserves
  <2>5. CASE HandleHeartbeatAck
    BY <2>5, HandleAckPreserves
  <2>6. CASE \E i \in DOMAIN calls : StartWriting(i) \/ EndWriting(i)
    BY <2>6, StartWritingPreserves, EndWritingPreserves
  <2>7. CASE Tick
    BY <2>7, TickPreserves
  <2>8. CASE UNCHANGED vars
    BY <2>8, StutterPreserves
  <2>9. QED
    BY <2>1, <2>2, <2>3, <2>4, <2>5, <2>6, <2>7, <2>8 DEF Next
<1>2. QED
  BY <1>1, InitEstablishes, PTL DEF Spec

-----------------------------------------------------------------------------

(* Frames, calls and counters are what they are declared to be.            *)
THEOREM TypeCorrect == Spec => []TypeOK
<1>1. HInv => TypeOK
  BY DEF HInv
<1>2. QED
  BY <1>1, Inductive, PTL

(* However long the session, HandleLoginResponseTag and HandleHeartbeatAck *)
(* have at most one ping, or answer to it, or call that will send it, in   *)
(* the world at any time; and without faults always one.                   *)
THEOREM PingsNeverMultiply == Spec => []OneHeartbeatAtATime
<1>1. HInv => OneHeartbeatAtATime
  <2> SUFFICES ASSUME HInv PROVE OneHeartbeatAtATime
    OBVIOUS
  <2>1. /\ DOMAIN calls = 1 .. Len(calls) /\ Len(calls) \in Nat
        /\ DOMAIN toServer = 1 .. Len(toServer) /\ Len(toServer) \in Nat
    BY TypeFacts DEF HInv
  <2>2. Alone /\ Present
    BY DEF HInv
  <2>3. /\ \A i, j \in DOMAIN calls : i = j
        /\ \A i, j \in DOMAIN toServer : i = j
        /\ \A i, j \in Answers : i = j
    BY <2>1, <2>2 DEF Alone
  <2>4. /\ DOMAIN calls # {} => DOMAIN toServer = {} /\ Answers = {}
        /\ DOMAIN toServer # {} => Answers = {}
    BY <2>1, <2>2 DEF Alone
  <2>5. \A p, q \in Pings : p = q
    BY <2>3, <2>4 DEF Pings
  <2>6. faults = 0 => DOMAIN calls # {} \/ DOMAIN toServer # {} \/ Answers # {}
    BY <2>1, <2>2 DEF Present
  <2>7. faults = 0 => Pings # {}
    <3>1. \A i \in DOMAIN calls : <<"call", i>> \in Pings
      BY DEF Pings
    <3>2. \A i \in DOMAIN toServer : <<"ping", i>> \in Pings
      BY DEF Pings
    <3>3. \A i \in Answers : <<"answer", i>> \in Pings
      BY DEF Pings
    <3>4. QED
      BY <2>6, <3>1, <3>2, <3>3
  <2>8. QED
    BY <2>5, <2>7 DEF OneHeartbeatAtATime
<1>2. QED
  BY <1>1, Inductive, PTL

(* No two threads are in the SSL_write of SendHeartbeat at once, although  *)
(* nothing locks the SSL object.                                           *)
THEOREM OneWriterAtATime == Spec => []OneWriter
<1>1. HInv => OneWriter
  <2> SUFFICES ASSUME HInv PROVE OneWriter
    OBVIOUS
  <2>1. DOMAIN calls = 1 .. Len(calls) /\ Len(calls) \in Nat /\ Len(calls) <= 1
    BY TypeFacts DEF HInv, Alone
  <2>2. QED
    BY <2>1 DEF OneWriter
<1>2. QED
  BY <1>1, Inductive, PTL

(* A sleep of TIME_SEND_HEARTBEAT after each acknowledgement is short      *)
(* enough for every server timeout that leaves room for two frames and the *)
(* thread's lateness.                                                      *)
THEOREM PingsArriveInTime == Spec => []KeptAlive
<1>1. HInv => KeptAlive
  <2> SUFFICES ASSUME HInv, faults = 0 PROVE idle <= ServerTimeout
    BY DEF KeptAlive
  <2>1. TypeOK /\ Present /\ Punctual
    BY DEF HInv
  <2>2. /\ toServer \in Seq(PingFrames) /\ toClient \in Seq(Frames) /\ calls \in Seq(Calls)
        /\ idle \in Nat
    BY <2>1, TypeFacts
  <2>3. CASE Len(calls) = 1
    <3>1. 1 \in DOMAIN calls /\ calls[1] \in Calls
      <4>1. 1 \in DOMAIN calls
        BY <2>2, <2>3, <2>1, TypeFacts
      <4>2. QED
        BY <2>2, <4>1
    <3>2. idle + calls[1].timer <= MaxDelay + TIME_SEND_HEARTBEAT
      BY <2>1, <3>1 DEF Punctual
    <3>3. QED
      BY <2>2, <3>1, <3>2, Fields, Constants, RoundTripAssumption
  <2>4. CASE Len(toServer) = 1
    <3>1. 1 \in DOMAIN toServer /\ toServer[1] \in PingFrames
      BY <2>2, <2>4
    <3>2. idle <= MaxDelay + TIME_SEND_HEARTBEAT + MaxLate + toServer[1].age
      BY <2>1, <3>1 DEF Punctual
    <3>3. QED
      BY <2>2, <3>1, <3>2, Fields, Constants, RoundTripAssumption
  <2>5. CASE Answers # {}
    <3>1. PICK i \in Answers : TRUE
      BY <2>5
    <3>2. idle <= toClient[i].age /\ toClient[i] \in Frames
      BY <2>1, <2>2, <3>1 DEF Punctual, Answers
    <3>3. QED
      BY <2>2, <3>2, Fields, Constants, RoundTripAssumption
  <2>6. QED
    BY <2>1, <2>3, <2>4, <2>5 DEF Present
<1>2. QED
  BY <1>1, Inductive, PTL

(* No SendHeartbeat reports as received more packets than the client got.  *)
THEOREM NothingOverreported == Spec => []NeverOverreports
<1>1. HInv => NeverOverreports
  BY DEF HInv
<1>2. QED
  BY <1>1, Inductive, PTL
=============================================================================

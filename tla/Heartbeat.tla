----------------------------- MODULE Heartbeat ------------------------------
(***************************************************************************)
(* How one session is kept alive.  The login response makes the main       *)
(* thread send a ping; the server acknowledges every ping; every           *)
(* acknowledgement starts a detached thread that sleeps and then sends the *)
(* next ping.  So pings follow from one another, and nothing else ever     *)
(* starts one.                                                             *)
(*                                                                         *)
(* Time is counted in steps of the clock.  It waits for nobody except as   *)
(* the constants bound: how long a frame may take from one side's writing  *)
(* it to the other's having handled it, and how much longer than its sleep *)
(* a thread may take until its ping is written.                            *)
(***************************************************************************)
EXTENDS Integers, Sequences

CONSTANTS
  TIME_SEND_HEARTBEAT, (* the sleep: 10 minutes                            *)
  ServerTimeout,       (* without a ping, the server closes: 27 minutes    *)
  MaxDelay,            (* of a frame                                       *)
  MaxLate,             (* of a thread                                      *)
  MaxData,             (* bound: data messages the server sends            *)
  MaxPings,            (* bound: pings the server answers                  *)
  MaxFaults            (* bound: writes that fail, acks that do not parse  *)

ASSUME HeartbeatAssumption ==
  /\ TIME_SEND_HEARTBEAT \in Nat \ {0}
  /\ {ServerTimeout, MaxDelay, MaxLate, MaxData, MaxPings, MaxFaults} \subseteq Nat

(* A round trip leaves room for the sleep.                                 *)
ASSUME RoundTripAssumption ==
  2 * MaxDelay + TIME_SEND_HEARTBEAT + MaxLate <= ServerTimeout

VARIABLES
  toServer,       (* pings written and not yet read by the server          *)
  toClient,       (* frames written by the server and not yet handled      *)
  calls,          (* SendHeartbeat calls, made or waited for               *)
  serverReceived, (* how many packets each side got in this session: the   *)
  clientReceived, (* numbers last_stream_id_received is about              *)
  idle,           (* history: clock steps since the server heard a ping    *)
  dataSent, faults,
  failedWrites, failuresLogged  (* history: of SendHeartbeat               *)

network == <<toServer, toClient>>
counts  == <<serverReceived, clientReceived>>
logs    == <<failedWrites, failuresLogged>>
vars    == <<network, calls, counts, idle, dataSent, faults, logs>>

Threads == {"main", "detached"}
Phases  == {"asleep", "writing"}
Kinds   == {"LoginResponse", "HeartbeatAck", "DataMessage"}

TypeOK ==
  /\ toServer \in Seq([id : Nat, age : 0 .. MaxDelay])
  /\ toClient \in Seq([kind : Kinds, id : Nat, age : 0 .. MaxDelay])
  /\ calls \in Seq([by : Threads, phase : Phases, id : Nat,
                    timer : -MaxLate .. TIME_SEND_HEARTBEAT])
  /\ serverReceived \in Nat
  /\ clientReceived \in Nat
  /\ idle \in Nat
  /\ dataSent \in 0 .. MaxData
  /\ faults \in 0 .. MaxFaults
  /\ failedWrites \in 0 .. faults
  /\ failuresLogged \in 0 .. failedWrites

RemoveAt(s, i) == [j \in 1 .. Len(s) - 1 |-> IF j < i THEN s[j] ELSE s[j+1]]

(* The server has read the login request and answered it.                  *)
Init ==
  /\ toServer = <<>>
  /\ toClient = <<[kind |-> "LoginResponse", id |-> 1, age |-> 0]>>
  /\ calls = <<>>
  /\ serverReceived = 1
  /\ clientReceived = 0
  /\ idle = 0
  /\ dataSent = 0 /\ faults = 0
  /\ failedWrites = 0 /\ failuresLogged = 0

-----------------------------------------------------------------------------
(* The server.                                                             *)

ServerSends(kind, received) ==
  toClient' = Append(toClient, [kind |-> kind, id |-> received, age |-> 0])

SendDataMessage ==
  /\ dataSent < MaxData
  /\ dataSent' = dataSent + 1
  /\ ServerSends("DataMessage", serverReceived)
  /\ UNCHANGED <<toServer, calls, counts, idle, faults, logs>>

AnswerPing ==
  /\ toServer # <<>>
  /\ serverReceived <= MaxPings
  /\ toServer' = Tail(toServer)
  /\ serverReceived' = serverReceived + 1
  /\ ServerSends("HeartbeatAck", serverReceived + 1)
  /\ idle' = 0
  /\ UNCHANGED <<calls, clientReceived, dataSent, faults, logs>>

-----------------------------------------------------------------------------
(* The client's main thread.                                               *)

MainThreadIsReading == \A i \in DOMAIN calls : calls[i].by = "detached"

Handling(kind) ==
  /\ MainThreadIsReading
  /\ toClient # <<>> /\ Head(toClient).kind = kind
  /\ toClient' = Tail(toClient)
  /\ clientReceived' = clientReceived + 1

HandleDataMessageStanzaTag ==
  /\ Handling("DataMessage")
  /\ UNCHANGED <<toServer, calls, serverReceived, idle, dataSent, faults, logs>>

(* The main thread is in SendHeartbeat until its ping is written.          *)
HandleLoginResponseTag ==
  /\ Handling("LoginResponse")
  /\ calls' = Append(calls, [by |-> "main", phase |-> "writing",
                             id |-> Head(toClient).id, timer |-> 0])
  /\ UNCHANGED <<toServer, serverReceived, idle, dataSent, faults, logs>>

Sleeping(id, timer) == [by |-> "detached", phase |-> "asleep", id |-> id, timer |-> timer]

(* (A slip: an acknowledgement starts two threads.)                        *)
SlipStartsTwo(id) ==
  calls' = calls \o <<Sleeping(id, TIME_SEND_HEARTBEAT), Sleeping(id, TIME_SEND_HEARTBEAT)>>

(* (A slip: the thread sleeps twice as long.)                              *)
SlipSleepsTwice(id) == calls' = Append(calls, Sleeping(id, 2 * TIME_SEND_HEARTBEAT))

(* (A slip: it reports the next packet it expects.)                        *)
SlipReportsNext(id) == calls' = Append(calls, Sleeping(id + 1, TIME_SEND_HEARTBEAT))

StartThread(id) == calls' = Append(calls, Sleeping(id, TIME_SEND_HEARTBEAT))

HandleHeartbeatAck ==
  /\ Handling("HeartbeatAck")
  /\ \/ StartThread(Head(toClient).id) /\ UNCHANGED faults
     \/ /\ faults < MaxFaults          \* it does not parse
        /\ faults' = faults + 1
        /\ UNCHANGED calls
  /\ UNCHANGED <<toServer, serverReceived, idle, dataSent, logs>>

-----------------------------------------------------------------------------
(* SendHeartbeat, on any thread.                                           *)

StartWriting(i) ==
  /\ calls[i].phase = "asleep"
  /\ calls[i].timer <= 0
  /\ calls' = [calls EXCEPT ![i].phase = "writing"]
  /\ UNCHANGED <<network, counts, idle, dataSent, faults, logs>>

SOCKET_ERROR == -1

(* What CTCPSSLClient::Send returns, as the int it is assigned to.         *)
SendResult(written) == IF written THEN 1 ELSE 0

EndWriting(i) ==
  /\ calls[i].phase = "writing"
  /\ calls' = RemoveAt(calls, i)
  /\ \E written \in BOOLEAN :
       /\ \/ /\ written
             /\ toServer' = Append(toServer, [id |-> calls[i].id, age |-> 0])
             /\ UNCHANGED <<faults, failedWrites>>
          \/ /\ ~written
             /\ faults < MaxFaults
             /\ faults' = faults + 1
             /\ failedWrites' = failedWrites + 1
             /\ UNCHANGED toServer
       /\ failuresLogged' =
            IF SendResult(written) = SOCKET_ERROR THEN failuresLogged + 1 ELSE failuresLogged
  /\ UNCHANGED <<toClient, counts, idle, dataSent>>

-----------------------------------------------------------------------------

OlderFrames(frames) == [i \in DOMAIN frames |-> [frames[i] EXCEPT !.age = @ + 1]]

Tick ==
  /\ \A i \in DOMAIN toServer : toServer[i].age < MaxDelay
  /\ \A i \in DOMAIN toClient : toClient[i].age < MaxDelay
  /\ \A i \in DOMAIN calls : calls[i].timer > -MaxLate
  /\ idle <= ServerTimeout
  /\ toServer' = OlderFrames(toServer)
  /\ toClient' = OlderFrames(toClient)
  /\ calls' = [i \in DOMAIN calls |-> [calls[i] EXCEPT !.timer = @ - 1]]
  /\ idle' = idle + 1
  /\ UNCHANGED <<counts, dataSent, faults, logs>>

Next ==
  \/ SendDataMessage \/ AnswerPing
  \/ HandleDataMessageStanzaTag \/ HandleLoginResponseTag \/ HandleHeartbeatAck
  \/ \E i \in DOMAIN calls : StartWriting(i) \/ EndWriting(i)
  \/ Tick

Spec == Init /\ [][Next]_vars

-----------------------------------------------------------------------------

(* Everything that is going to become, or is, or answers a ping.           *)
Answers == {i \in DOMAIN toClient : toClient[i].kind # "DataMessage"}

Pings == ({"call"} \X DOMAIN calls) \cup ({"ping"} \X DOMAIN toServer) \cup ({"answer"} \X Answers)

(* There is never more than one of these, although no step looks at more   *)
(* than its own frame or thread: pings do not multiply over a long session *)
(* (and exactly one unless a write failed or an acknowledgement did not    *)
(* parse).                                                                 *)
OneHeartbeatAtATime ==
  /\ \A p, q \in Pings : p = q
  /\ faults = 0 => Pings # {}

(* Two threads are never in SSL_write at once: the SSL object, which is    *)
(* not locked, has one writer at a time.                                   *)
OneWriter ==
  \A i, j \in DOMAIN calls : calls[i].phase = "writing" /\ calls[j].phase = "writing" => i = j

(* As long as no write fails and every acknowledgement parses, the server  *)
(* never waits for a ping so long that it would close the connection.      *)
KeptAlive == faults = 0 => idle <= ServerTimeout

(* The client reports as received the number that the server reported of   *)
(* its own receiving.  It is never larger than the number of packets the   *)
(* client did receive, so the server is never told that something arrived  *)
(* that did not.                                                           *)
NeverOverreports ==
  /\ \A i \in DOMAIN toServer : toServer[i].id <= clientReceived
  /\ \A i \in DOMAIN calls : calls[i].id <= clientReceived

(* What SendHeartbeat's error branch is for: a ping that could not be      *)
(* written is logged as a failure.                                         *)
FailedWritesLogged == failuresLogged = failedWrites

(* What the protocol says of last_stream_id_received: each side counts the *)
(* packets it received, and reports that count.                            *)
ReportsItsCount ==
  [][\A i \in DOMAIN calls : StartWriting(i) => calls[i].id = clientReceived]_vars
=============================================================================

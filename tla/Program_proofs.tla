--------------------------- MODULE Program_proofs ---------------------------
(***************************************************************************)
(* Proofs about Program, for any set of runs.  What a run holds depends on *)
(* where it is; that, and what the servers and the file know of it, is the *)
(* inductive invariant PInv.                                               *)
(***************************************************************************)
EXTENDS Program, TLAPS

Memory == [mode : {"none", "register", "listen"},
           checkin : Ids \cup {Empty}, sGcmToken : GcmStrings,
           sInstallationToken : Runs \cup {Empty},
           data : FCM_REGISTER_DATA_RETURN,
           m_eStatus : {"DISCONNECTED", "CONNECTED"},
           m_pSSL : {"none", "secure", "failed"}]

Exits == ExitCode \cup {"running", "terminated", "killed"}

Types ==
  /\ at \in [Runs -> Steps]
  /\ exit \in [Runs -> Exits]
  /\ mem \in [Runs -> Memory]
  /\ file \in [kind : FileKinds, data : FCM_REGISTER_DATA_RETURN]
  /\ subscriptions \subseteq [gcm : Ids, key : Ids]
  /\ logins \subseteq Runs \X Ids
  /\ closed \subseteq Runs

TokenOf(r) == [gcm |-> r, key |-> r]
DataOf(r)  == [acg |-> r, ece |-> r, sToken |-> TokenOf(r)]

(* What a run that registers has obtained by where it is. *)
Registering(r) ==
  /\ at[r] \in RegisterSteps => mem[r].mode = "register"
  /\ at[r] \in RegisterSteps \ {"CheckIn"} => mem[r].checkin = r
  /\ at[r] \in {"PostInstallations", "PostFcmRegistrations"} =>
       mem[r].sGcmToken \in {r, ErrorText}
  /\ at[r] = "PostFcmRegistrations" => mem[r].sInstallationToken = r
  /\ at[r] \in {"OpenOutput", "WriteOutput"} =>
       mem[r].data = DataOf(r) /\ TokenOf(r) \in subscriptions

(* What a run that listens has done by where it is. *)
Listening(r) ==
  /\ at[r] \in ConnectSteps \cup OnlineSteps \cup {"LoadInput"} => mem[r].mode = "listen"
  /\ at[r] \in ConnectSteps \cup OnlineSteps => Reachable(mem[r].data)
  /\ at[r] \in OnlineSteps \cup {"SslConnect"} => mem[r].m_eStatus = "CONNECTED"
  /\ at[r] \in OnlineSteps => mem[r].m_pSSL = "secure"

LoggedIn(r) == \E id \in Ids : <<r, id>> \in logins

(* What is true of a run that has ended. *)
Ending(r) ==
  /\ at[r] = "ended" <=> exit[r] # "running"
  /\ at[r] = "wmain" => mem[r].mode = "none"
  /\ exit[r] = "SUCCESS" => mem[r].mode # "listen"
  /\ exit[r] = "SUCCESS" /\ mem[r].mode = "register" => TokenOf(r) \in subscriptions
  /\ LoggedIn(r) => at[r] = "StartReceiver" \/ exit[r] \in {"ERROR_WHILE_LISTENING", "killed"}
  /\ exit[r] = "ERROR_WHILE_LISTENING" => LoggedIn(r)

(* The file holds the data of a run only if that run ended well. *)
FileKnown ==
  /\ file.kind = "registration" => Reachable(file.data)
  /\ \A r \in Runs : file.data.ece = r => exit[r] = "SUCCESS"

PInv ==
  /\ Types
  /\ \A r \in Runs : Registering(r) /\ Listening(r) /\ Ending(r)
  /\ FileKnown

-----------------------------------------------------------------------------
(* Initially. *)

LEMMA InitPInv == Init => PInv
<1> SUFFICES ASSUME Init PROVE PInv
  OBVIOUS
<1>1. /\ NoData \in FCM_REGISTER_DATA_RETURN /\ NoData.ece = Empty
      /\ EarlierData \in FCM_REGISTER_DATA_RETURN /\ EarlierData.ece = Earlier
      /\ EarlierData.sToken = EarlierToken
      /\ EarlierToken = [gcm |-> EarlierData.acg, key |-> EarlierData.ece]
  BY DEF FCM_REGISTER_DATA_RETURN, FcmTokens, GcmStrings, Ids, NoData, NoToken, EarlierData, EarlierToken
<1>2. /\ file \in [kind : FileKinds, data : FCM_REGISTER_DATA_RETURN]
      /\ file.data.ece \in {Empty, Earlier}
      /\ file.kind = "registration" => file.data = EarlierData
  <2>1. ASSUME NEW kind \in {"absent", "not JSON", "other JSON"},
               file = [kind |-> kind, data |-> NoData]
        PROVE  <1>2!1 /\ <1>2!2 /\ <1>2!3
    BY <2>1, <1>1 DEF FileKinds
  <2>2. ASSUME NEW kind \in {"registration"} \cup Damaged,
               file = [kind |-> kind, data |-> EarlierData]
        PROVE  <1>2!1 /\ <1>2!2 /\ <1>2!3
    BY <2>2, <1>1 DEF FileKinds, Damaged
  <2> QED
    BY <2>1, <2>2 DEF Init
<1>3. NoMemory \in Memory
  BY <1>1 DEF NoMemory, GcmStrings, Memory
<1>4. Types
  <2>1. subscriptions \subseteq [gcm : Ids, key : Ids]
    <3>1. EarlierToken \in [gcm : Ids, key : Ids]
      BY DEF EarlierToken, Ids
    <3> QED
      BY <3>1 DEF Init
  <2>2. /\ at \in [Runs -> Steps]
        /\ exit \in [Runs -> Exits]
    BY DEF Init, Steps, Exits
  <2>3. mem = [r \in Runs |-> NoMemory] /\ logins = {} /\ closed = {}
    BY DEF Init
  <2> QED
    BY <1>2, <1>3, <2>1, <2>2, <2>3 DEF Types
<1>5. ASSUME NEW r \in Runs
      PROVE  Registering(r) /\ Listening(r) /\ Ending(r)
  BY DEF Init, NoMemory, Registering, Listening, Ending, LoggedIn,
         RegisterSteps, ConnectSteps, OnlineSteps
<1>6. FileKnown
  BY <1>1, <1>2, RunsAssumption DEF Init, FileKnown, Reachable, Ids
<1> QED
  BY <1>4, <1>5, <1>6 DEF PInv

-----------------------------------------------------------------------------
(* A step of one run leaves the others as they were, whatever it adds to   *)
(* what the servers know.                                                  *)

Undisturbed(q) ==
  /\ at'[q] = at[q] /\ exit'[q] = exit[q] /\ mem'[q] = mem[q]
  /\ subscriptions \subseteq subscriptions'
  /\ \A id \in Ids : <<q, id>> \in logins <=> <<q, id>> \in logins'

LEMMA OthersKeep ==
  ASSUME NEW q \in Runs, Registering(q), Listening(q), Ending(q), Undisturbed(q)
  PROVE  Registering(q)' /\ Listening(q)' /\ Ending(q)'
<1>1. Registering(q)'
  BY DEF Undisturbed, Registering, TokenOf, DataOf
<1>2. Listening(q)'
  BY DEF Undisturbed, Listening, Reachable
<1>3. Ending(q)'
  BY DEF Undisturbed, Ending, LoggedIn, TokenOf
<1> QED
  BY <1>1, <1>2, <1>3

(* The file, when nobody touches it: a run that has ended well stays so.   *)
LEMMA FileKept ==
  ASSUME FileKnown, UNCHANGED file, subscriptions \subseteq subscriptions',
         \A r \in Runs : exit[r] = "SUCCESS" => exit'[r] = "SUCCESS"
  PROVE  FileKnown'
BY DEF FileKnown, Reachable

(* What Continue and End do to the functions. *)
LEMMA Updates ==
  ASSUME Types, NEW r \in Runs, NEW where \in Steps, NEW held, NEW code
  PROVE  /\ Continue(r, where, held) =>
              /\ at'[r] = where /\ mem'[r] = held /\ exit'[r] = exit[r]
              /\ \A q \in Runs \ {r} : at'[q] = at[q] /\ mem'[q] = mem[q] /\ exit'[q] = exit[q]
         /\ End(r, code) =>
              /\ at'[r] = "ended" /\ mem'[r] = mem[r] /\ exit'[r] = code
              /\ \A q \in Runs \ {r} : at'[q] = at[q] /\ mem'[q] = mem[q] /\ exit'[q] = exit[q]
BY DEF Types, Continue, End

LEMMA UpdatesTyped ==
  ASSUME Types, NEW r \in Runs, NEW where \in Steps, NEW held \in Memory, NEW code \in Exits
  PROVE  Continue(r, where, held) \/ End(r, code) =>
           /\ at' \in [Runs -> Steps] /\ exit' \in [Runs -> Exits] /\ mem' \in [Runs -> Memory]
BY DEF Types, Continue, End, Steps

(* The same, for a state that satisfies the invariant. *)
LEMMA Moves ==
  ASSUME PInv, NEW r \in Runs, NEW where \in Steps, NEW held, Continue(r, where, held)
  PROVE  /\ at'[r] = where /\ mem'[r] = held /\ exit'[r] = exit[r]
         /\ \A q \in Runs \ {r} : at'[q] = at[q] /\ mem'[q] = mem[q] /\ exit'[q] = exit[q]
<1>1. Types
  BY DEF PInv
<1>2. QED
  BY <1>1, Updates

LEMMA Ends ==
  ASSUME PInv, NEW r \in Runs, NEW code, End(r, code)
  PROVE  /\ at'[r] = "ended" /\ mem'[r] = mem[r] /\ exit'[r] = code
         /\ \A q \in Runs \ {r} : at'[q] = at[q] /\ mem'[q] = mem[q] /\ exit'[q] = exit[q]
<1>1. Types
  BY DEF PInv
<1>2. "ended" \in Steps
  BY DEF Steps
<1>3. QED
  BY <1>1, <1>2, Updates

(* It is enough to look at the run that takes the step.                    *)
LEMMA StepKeeps ==
  ASSUME PInv, Types', FileKnown', NEW r \in Runs,
         Registering(r)', Listening(r)', Ending(r)',
         \A q \in Runs \ {r} : Undisturbed(q)
  PROVE  PInv'
BY OthersKeep DEF PInv

(* A run that goes on without touching the file or what the servers know.  *)
LEMMA ContinueKeeps ==
  ASSUME PInv, NEW r \in Runs, NEW where \in Steps \ {"wmain", "ended"}, NEW held \in Memory,
         at[r] # "ended", Continue(r, where, held), UNCHANGED <<file, servers>>,
         Registering(r)', Listening(r)',
         LoggedIn(r) => where = "StartReceiver"
  PROVE  PInv'
<1>1. /\ at'[r] = where /\ mem'[r] = held /\ exit'[r] = exit[r]
      /\ \A q \in Runs \ {r} : at'[q] = at[q] /\ mem'[q] = mem[q] /\ exit'[q] = exit[q]
  BY Moves
<1>2. Types'
  BY UpdatesTyped DEF PInv, Types, servers, Exits
<1>3. FileKnown'
  BY <1>1, FileKept DEF PInv, servers
<1>4. Ending(r)'
  BY <1>1 DEF PInv, Ending, LoggedIn, servers
<1>5. \A q \in Runs \ {r} : Undisturbed(q)
  BY <1>1 DEF Undisturbed, servers
<1> QED
  BY <1>2, <1>3, <1>4, <1>5, StepKeeps

(* A run that ends so: the code must be true of it.                        *)
LEMMA EndKeeps ==
  ASSUME PInv, NEW r \in Runs, NEW code \in Exits \ {"running"},
         at[r] # "ended", End(r, code), UNCHANGED <<file, servers>>,
         code = "SUCCESS" => /\ mem[r].mode # "listen"
                             /\ mem[r].mode = "register" => TokenOf(r) \in subscriptions,
         code = "ERROR_WHILE_LISTENING" => LoggedIn(r),
         LoggedIn(r) => code \in {"ERROR_WHILE_LISTENING", "killed"}
  PROVE  PInv'
<1>1. /\ at'[r] = "ended" /\ mem'[r] = mem[r] /\ exit'[r] = code
      /\ \A q \in Runs \ {r} : at'[q] = at[q] /\ mem'[q] = mem[q] /\ exit'[q] = exit[q]
  BY Ends
<1>2. exit[r] = "running"
  BY DEF PInv, Ending
<1>3. Types'
  <2>1. mem[r] \in Memory /\ "ended" \in Steps
    BY DEF PInv, Types, Steps
  <2> QED
    BY <2>1, UpdatesTyped DEF PInv, Types, servers
<1>4. FileKnown'
  BY <1>1, <1>2, FileKept DEF PInv, servers
<1>5. Registering(r)' /\ Listening(r)'
  BY <1>1 DEF Registering, Listening, RegisterSteps, ConnectSteps, OnlineSteps
<1>6. Ending(r)'
  BY <1>1 DEF PInv, Ending, LoggedIn, servers, Exits
<1>7. \A q \in Runs \ {r} : Undisturbed(q)
  BY <1>1 DEF Undisturbed, servers
<1> QED
  BY <1>3, <1>4, <1>5, <1>6, <1>7, StepKeeps

-----------------------------------------------------------------------------
(* One lemma for each step. *)

(* Strings, spelled out once. *)
LEMMA CodesAndSteps ==
  /\ RegisterExits \subseteq Exits \ {"running", "SUCCESS", "ERROR_WHILE_LISTENING"}
  /\ ListenExits \subseteq Exits \ {"running", "SUCCESS"}
  /\ {"SUCCESS", "terminated", "killed"} \subseteq Exits \ {"running"}
  /\ RegisterSteps \cup ConnectSteps \cup OnlineSteps \cup {"LoadInput"} =
       Steps \ {"wmain", "ended"}
BY DEF RegisterExits, ListenExits, Exits, ExitCode, RegisterSteps, ConnectSteps, OnlineSteps, Steps

(* Only a run that listens has logged in. *)
LEMMA LoginsOnline ==
  ASSUME PInv, NEW r \in Runs, at[r] # "ended", at[r] # "StartReceiver"
  PROVE  ~ LoggedIn(r)
BY DEF PInv, Ending

LEMMA Remembered ==
  ASSUME PInv, NEW r \in Runs
  PROVE  mem[r] \in Memory
BY DEF PInv, Types

LEMMA StartInfoKeeps ==
  ASSUME PInv, NEW r \in Runs, StartInfo(r)
  PROVE  PInv'
<1>1. PICK code \in {"PARSE_ERROR", "ARGUMENT_ERROR", "SUCCESS"} : End(r, code)
  BY DEF StartInfo
<1>2. code \in Exits \ {"running", "ERROR_WHILE_LISTENING"}
  BY <1>1 DEF Exits, ExitCode, RegisterExits
<1>3. ~ LoggedIn(r) /\ mem[r].mode = "none"
  BY LoginsOnline DEF StartInfo, PInv, Ending
<1> QED
  BY <1>1, <1>2, <1>3, EndKeeps DEF StartInfo

(* A run that fails before it listens. *)
LEMMA FailureKeeps ==
  ASSUME PInv, NEW r \in Runs, at[r] \notin {"ended", "StartReceiver"},
         UNCHANGED <<file, servers>>,
         NEW code \in {"terminated", "CANT_CONNECT_FCM_SERVER", "LISTEN_INPUT_FILE_TYPE_INVALID",
                       "CANT_READ_LISTEN_INPUT_FILE", "LISTEN_INPUT_DATA_INVALID"}
                       \cup RegisterExits,
         End(r, code)
  PROVE  PInv'
<1>1. code \in Exits \ {"running", "SUCCESS", "ERROR_WHILE_LISTENING"}
  BY DEF Exits, ExitCode, RegisterExits, ListenExits
<1> QED
  BY <1>1, LoginsOnline, EndKeeps

LEMMA StartRegisterKeeps ==
  ASSUME PInv, NEW r \in Runs, StartRegister(r)
  PROVE  PInv'
<1> DEFINE held == [mem[r] EXCEPT !.mode = "register"]
<1>1. CASE Continue(r, "CheckIn", held)
  <2>1. held \in Memory /\ held.mode = "register"
    BY Remembered DEF Memory
  <2>2. at'[r] = "CheckIn" /\ mem'[r] = held
    <3>1. "CheckIn" \in Steps
      BY DEF Steps, RegisterSteps, ConnectSteps, OnlineSteps
    <3>2. QED
      BY <1>1, <3>1, Moves
  <2>3. Registering(r)' /\ Listening(r)'
    BY <2>1, <2>2 DEF Registering, Listening, RegisterSteps, ConnectSteps, OnlineSteps
  <2>4. "CheckIn" \in Steps \ {"wmain", "ended"}
    BY DEF Steps, RegisterSteps
  <2> QED
    BY <1>1, <2>1, <2>3, <2>4, LoginsOnline, ContinueKeeps DEF StartRegister
<1>2. CASE ~ Continue(r, "CheckIn", held)
  <2>1. \E code \in {"terminated"} \cup RegisterExits : End(r, code)
    BY <1>2 DEF StartRegister, Terminate, RegisterExits
  <2> QED
    BY <2>1, FailureKeeps DEF StartRegister
<1> QED
  BY <1>1, <1>2

LEMMA CheckInKeeps ==
  ASSUME PInv, NEW r \in Runs, CheckIn(r)
  PROVE  PInv'
<1> DEFINE held == [mem[r] EXCEPT !.checkin = r]
<1>1. CASE Continue(r, "DoGCMRegister", held)
  <2>1. held \in Memory /\ held.checkin = r /\ held.mode = mem[r].mode
    BY Remembered DEF Memory, Ids
  <2>2. at'[r] = "DoGCMRegister" /\ mem'[r] = held
    <3>1. "DoGCMRegister" \in Steps
      BY DEF Steps, RegisterSteps, ConnectSteps, OnlineSteps
    <3>2. QED
      BY <1>1, <3>1, Moves
  <2>3. Registering(r)' /\ Listening(r)'
    BY <2>1, <2>2 DEF PInv, CheckIn, servers, Registering, Listening, Reachable,
       RegisterSteps, ConnectSteps, OnlineSteps
  <2>4. "DoGCMRegister" \in Steps \ {"wmain", "ended"}
    BY DEF Steps, RegisterSteps, ConnectSteps, OnlineSteps
  <2> QED
    BY <1>1, <2>1, <2>3, <2>4, LoginsOnline, ContinueKeeps DEF CheckIn
<1>2. CASE ~ Continue(r, "DoGCMRegister", held)
  <2>1. \E code \in {"REGISTER_FAILED"} : End(r, code)
    BY <1>2 DEF CheckIn, Terminate
  <2> QED
    BY <2>1, FailureKeeps DEF CheckIn, RegisterExits
<1> QED
  BY <1>1, <1>2

LEMMA PostInstallationsKeeps ==
  ASSUME PInv, NEW r \in Runs, PostInstallations(r)
  PROVE  PInv'
<1> DEFINE held == [mem[r] EXCEPT !.sInstallationToken = r]
<1>1. CASE Continue(r, "PostFcmRegistrations", held)
  <2>1. /\ held \in Memory /\ held.sInstallationToken = r /\ held.mode = mem[r].mode
        /\ held.checkin = mem[r].checkin /\ held.sGcmToken = mem[r].sGcmToken
    BY Remembered DEF Memory
  <2>2. at'[r] = "PostFcmRegistrations" /\ mem'[r] = held
    <3>1. "PostFcmRegistrations" \in Steps
      BY DEF Steps, RegisterSteps, ConnectSteps, OnlineSteps
    <3>2. QED
      BY <1>1, <3>1, Moves
  <2>3. Registering(r)' /\ Listening(r)'
    BY <2>1, <2>2 DEF PInv, PostInstallations, servers, Registering, Listening, Reachable,
       RegisterSteps, ConnectSteps, OnlineSteps
  <2>4. "PostFcmRegistrations" \in Steps \ {"wmain", "ended"}
    BY DEF Steps, RegisterSteps, ConnectSteps, OnlineSteps
  <2> QED
    BY <1>1, <2>1, <2>3, <2>4, LoginsOnline, ContinueKeeps DEF PostInstallations
<1>2. CASE ~ Continue(r, "PostFcmRegistrations", held)
  <2>1. \E code \in {"REGISTER_FAILED", "terminated"} : End(r, code)
    BY <1>2 DEF PostInstallations, Terminate
  <2> QED
    BY <2>1, FailureKeeps DEF PostInstallations, RegisterExits
<1> QED
  BY <1>1, <1>2

LEMMA StartListenKeeps ==
  ASSUME PInv, NEW r \in Runs, StartListen(r)
  PROVE  PInv'
<1> DEFINE held == [mem[r] EXCEPT !.mode = "listen"]
<1>1. CASE Continue(r, "LoadInput", held)
  <2>1. held \in Memory /\ held.mode = "listen"
    BY Remembered DEF Memory
  <2>2. at'[r] = "LoadInput" /\ mem'[r] = held
    <3>1. "LoadInput" \in Steps
      BY DEF Steps, RegisterSteps, ConnectSteps, OnlineSteps
    <3>2. QED
      BY <1>1, <3>1, Moves
  <2>3. Registering(r)' /\ Listening(r)'
    BY <2>1, <2>2 DEF PInv, StartListen, servers, Registering, Listening, Reachable,
       RegisterSteps, ConnectSteps, OnlineSteps
  <2>4. "LoadInput" \in Steps \ {"wmain", "ended"}
    BY DEF Steps, RegisterSteps, ConnectSteps, OnlineSteps
  <2> QED
    BY <1>1, <2>1, <2>3, <2>4, LoginsOnline, ContinueKeeps DEF StartListen
<1>2. CASE ~ Continue(r, "LoadInput", held)
  <2>1. \E code \in {"LISTEN_INPUT_FILE_TYPE_INVALID"} : End(r, code)
    BY <1>2 DEF StartListen, Terminate
  <2> QED
    BY <2>1, FailureKeeps DEF StartListen, RegisterExits
<1> QED
  BY <1>1, <1>2

LEMMA TcpConnectKeeps ==
  ASSUME PInv, NEW r \in Runs, TcpConnect(r)
  PROVE  PInv'
<1> DEFINE held == [mem[r] EXCEPT !.m_eStatus = "CONNECTED"]
<1>1. CASE Continue(r, "SslConnect", held)
  <2>1. /\ held \in Memory /\ held.m_eStatus = "CONNECTED"
        /\ held.mode = mem[r].mode /\ held.data = mem[r].data
    BY Remembered DEF Memory
  <2>2. at'[r] = "SslConnect" /\ mem'[r] = held
    <3>1. "SslConnect" \in Steps
      BY DEF Steps, RegisterSteps, ConnectSteps, OnlineSteps
    <3>2. QED
      BY <1>1, <3>1, Moves
  <2>3. Registering(r)' /\ Listening(r)'
    BY <2>1, <2>2 DEF PInv, TcpConnect, servers, Registering, Listening, Reachable,
       RegisterSteps, ConnectSteps, OnlineSteps
  <2>4. "SslConnect" \in Steps \ {"wmain", "ended"}
    BY DEF Steps, RegisterSteps, ConnectSteps, OnlineSteps
  <2> QED
    BY <1>1, <2>1, <2>3, <2>4, LoginsOnline, ContinueKeeps DEF TcpConnect
<1>2. CASE ~ Continue(r, "SslConnect", held)
  <2>1. \E code \in {"CANT_CONNECT_FCM_SERVER"} : End(r, code)
    BY <1>2 DEF TcpConnect, Terminate
  <2> QED
    BY <2>1, FailureKeeps DEF TcpConnect, RegisterExits
<1> QED
  BY <1>1, <1>2

LEMMA DoGCMRegisterKeeps ==
  ASSUME PInv, NEW r \in Runs, DoGCMRegister(r)
  PROVE  PInv'
<1> DEFINE held(answer) == [mem[r] EXCEPT !.sGcmToken = answer]
<1>1. CASE \E answer \in {mem[r].checkin, ErrorText} : Continue(r, "PostInstallations", held(answer))
  <2>1. PICK answer \in {mem[r].checkin, ErrorText} : Continue(r, "PostInstallations", held(answer))
    BY <1>1
  <2>2. mem[r].checkin = r
    BY DEF PInv, Registering, DoGCMRegister, RegisterSteps
  <2>3. /\ held(answer) \in Memory /\ held(answer).sGcmToken = answer
        /\ held(answer).checkin = mem[r].checkin /\ held(answer).mode = mem[r].mode
    BY <2>2, Remembered DEF Memory, GcmStrings, Ids
  <2>4. at'[r] = "PostInstallations" /\ mem'[r] = held(answer)
    <3>1. "PostInstallations" \in Steps
      BY DEF Steps, RegisterSteps
    <3>2. QED
      BY <2>1, <3>1, Moves
  <2>5. Registering(r)' /\ Listening(r)'
    BY <2>2, <2>3, <2>4 DEF PInv, DoGCMRegister, Registering, Listening,
       RegisterSteps, ConnectSteps, OnlineSteps
  <2>6. "PostInstallations" \in Steps \ {"wmain", "ended"}
    BY DEF Steps, RegisterSteps
  <2> QED
    BY <2>1, <2>3, <2>5, <2>6, LoginsOnline, ContinueKeeps DEF DoGCMRegister
<1>2. CASE End(r, "REGISTER_FAILED") \/ Terminate(r)
  BY <1>2, FailureKeeps DEF DoGCMRegister, RegisterExits, Terminate
<1> QED
  BY <1>1, <1>2 DEF DoGCMRegister

LEMMA ListenCheckInKeeps ==
  ASSUME PInv, NEW r \in Runs, ListenCheckIn(r)
  PROVE  PInv'
<1>1. at'[r] = "TcpConnect" /\ mem'[r] = mem[r] /\ "TcpConnect" \in Steps \ {"wmain", "ended"}
  <2>1. "TcpConnect" \in Steps \ {"wmain", "ended"}
    BY DEF Steps, ConnectSteps
  <2>2. QED
    BY <2>1, Moves DEF ListenCheckIn
<1>2. Registering(r)' /\ Listening(r)'
  BY <1>1 DEF PInv, ListenCheckIn, servers, Registering, Listening, Reachable,
     RegisterSteps, ConnectSteps, OnlineSteps
<1> QED
  BY <1>1, <1>2, Remembered, LoginsOnline, ContinueKeeps DEF ListenCheckIn

(* The token is for the id the run checked in with: an error text is not   *)
(* an endpoint the FCM server accepts.                                     *)
LEMMA PostFcmRegistrationsKeeps ==
  ASSUME PInv, NEW r \in Runs, PostFcmRegistrations(r)
  PROVE  PInv'
<1> DEFINE asked == [gcm |-> mem[r].sGcmToken, key |-> r]
           data  == [acg |-> mem[r].checkin, ece |-> r, sToken |-> asked]
           held  == [mem[r] EXCEPT !.data = data]
<1>1. CASE UNCHANGED subscriptions /\ (End(r, "REGISTER_FAILED") \/ Terminate(r))
  BY <1>1, FailureKeeps DEF PostFcmRegistrations, RegisterExits, Terminate, servers
<1>2. CASE FcmAccepts(asked) /\ subscriptions' = subscriptions \cup {asked}
  <2>1. asked = TokenOf(r) /\ data = DataOf(r) /\ mem[r].mode = "register"
    BY <1>2, RunsAssumption
    DEF PInv, Registering, PostFcmRegistrations, FcmAccepts, TokenOf, DataOf, Ids, RegisterSteps
  <2>2. TokenOf(r) \in [gcm : Ids, key : Ids] /\ DataOf(r) \in FCM_REGISTER_DATA_RETURN
    BY DEF TokenOf, DataOf, FCM_REGISTER_DATA_RETURN, FcmTokens, GcmStrings, Ids
  <2>3. /\ held \in Memory /\ held.data = DataOf(r)
        /\ held.mode = mem[r].mode /\ held.checkin = mem[r].checkin
    BY <2>1, <2>2, Remembered DEF Memory
  <2>4. PICK code \in {"REGISTER_FAILED", "terminated"} :
                      Continue(r, "OpenOutput", held) \/ End(r, code)
    BY <1>2 DEF PostFcmRegistrations, Terminate
  <2>5. /\ {"OpenOutput", "ended"} \subseteq Steps
        /\ code \in Exits \ {"running", "SUCCESS", "ERROR_WHILE_LISTENING"}
    BY DEF Steps, RegisterSteps, Exits, ExitCode, RegisterExits
  <2>6. /\ \/ at'[r] = "OpenOutput" /\ mem'[r] = held /\ exit'[r] = exit[r]
           \/ at'[r] = "ended" /\ mem'[r] = mem[r] /\ exit'[r] = code
        /\ \A q \in Runs \ {r} : at'[q] = at[q] /\ mem'[q] = mem[q] /\ exit'[q] = exit[q]
    BY <2>4, <2>5, Moves, Ends
  <2>7. Types'
    BY <1>2, <2>1, <2>2, <2>3, <2>4, <2>5, UpdatesTyped DEF PInv, Types, PostFcmRegistrations
  <2>8. TokenOf(r) \in subscriptions' /\ subscriptions \subseteq subscriptions'
    BY <1>2, <2>1
  <2>9. exit[r] = "running" /\ ~ LoggedIn(r)
    BY LoginsOnline DEF PInv, Ending, PostFcmRegistrations
  <2>10. Registering(r)' /\ Listening(r)'
    BY <2>3, <2>6, <2>8 DEF PInv, PostFcmRegistrations, Registering, Listening,
       RegisterSteps, ConnectSteps, OnlineSteps, TokenOf, DataOf
  <2>11. Ending(r)'
    BY <2>5, <2>6, <2>9 DEF Ending, LoggedIn, PostFcmRegistrations
  <2>12. FileKnown'
    BY <2>6, <2>8, <2>9, FileKept DEF PInv, PostFcmRegistrations
  <2>13. \A q \in Runs \ {r} : Undisturbed(q)
    BY <2>6, <2>8 DEF Undisturbed, PostFcmRegistrations
  <2> QED
    BY <2>7, <2>10, <2>11, <2>12, <2>13, StepKeeps
<1> QED
  BY <1>1, <1>2 DEF PostFcmRegistrations

LEMMA OpenOutputKeeps ==
  ASSUME PInv, NEW r \in Runs, OpenOutput(r)
  PROVE  PInv'
<1>1. CASE End(r, "CANT_WRITE_REGISTER_DATA") /\ UNCHANGED file
  BY <1>1, FailureKeeps DEF OpenOutput, RegisterExits, servers
<1>2. CASE /\ Continue(r, "WriteOutput", mem[r])
           /\ file' = [kind |-> "not JSON", data |-> NoData]
  <2>1. /\ at'[r] = "WriteOutput" /\ mem'[r] = mem[r] /\ exit'[r] = exit[r]
        /\ \A q \in Runs \ {r} : at'[q] = at[q] /\ mem'[q] = mem[q] /\ exit'[q] = exit[q]
        /\ "WriteOutput" \in Steps
    <3>1. "WriteOutput" \in Steps
      BY DEF Steps, RegisterSteps
    <3>2. QED
      BY <1>2, <3>1, Moves
  <2>2. NoData \in FCM_REGISTER_DATA_RETURN /\ NoData.ece \notin Runs
    BY RunsAssumption DEF NoData, NoToken, FCM_REGISTER_DATA_RETURN, FcmTokens, GcmStrings
  <2>3. Types'
    <3>1. file' \in [kind : FileKinds, data : FCM_REGISTER_DATA_RETURN]
      BY <1>2, <2>2 DEF FileKinds
    <3> QED
      BY <1>2, <2>1, <3>1, Remembered, UpdatesTyped DEF PInv, Types, OpenOutput, servers, Exits
  <2>4. FileKnown'
    BY <1>2, <2>2 DEF FileKnown
  <2>5. Registering(r)' /\ Listening(r)' /\ Ending(r)'
    <3>1. Registering(r)' /\ Listening(r)'
      BY <2>1 DEF PInv, OpenOutput, servers, Registering, Listening,
         RegisterSteps, ConnectSteps, OnlineSteps
    <3>2. exit[r] = "running" /\ ~ LoggedIn(r)
      BY LoginsOnline DEF PInv, Ending, OpenOutput
    <3> QED
      BY <2>1, <3>1, <3>2 DEF OpenOutput, servers, Ending, LoggedIn
  <2>6. \A q \in Runs \ {r} : Undisturbed(q)
    BY <2>1 DEF Undisturbed, OpenOutput, servers
  <2> QED
    BY <2>3, <2>4, <2>5, <2>6, StepKeeps
<1> QED
  BY <1>1, <1>2 DEF OpenOutput

LEMMA WriteOutputKeeps ==
  ASSUME PInv, NEW r \in Runs, WriteOutput(r)
  PROVE  PInv'
<1>1. /\ mem[r].data = DataOf(r) /\ TokenOf(r) \in subscriptions
      /\ mem[r].mode = "register" /\ ~ LoggedIn(r) /\ exit[r] = "running"
  BY LoginsOnline DEF PInv, Registering, Ending, WriteOutput, RegisterSteps
<1>2. "SUCCESS" \in Exits \ {"running"}
  BY DEF Exits, ExitCode
<1>3. CASE UNCHANGED file
  BY <1>1, <1>2, <1>3, EndKeeps DEF WriteOutput
<1>4. CASE file' = Saved(mem[r].data)
  <2>1. /\ at'[r] = "ended" /\ mem'[r] = mem[r] /\ exit'[r] = "SUCCESS"
        /\ \A q \in Runs \ {r} : at'[q] = at[q] /\ mem'[q] = mem[q] /\ exit'[q] = exit[q]
    BY Ends DEF WriteOutput
  <2>2. file'.kind = "registration" /\ file'.data = DataOf(r)
    BY <1>1, <1>4 DEF Saved
  <2>3. Types'
    <3>1. file' \in [kind : FileKinds, data : FCM_REGISTER_DATA_RETURN]
      BY <1>4, Remembered DEF Saved, FileKinds, Memory
    <3>2. "ended" \in Steps
      BY DEF Steps
    <3> QED
      BY <1>2, <3>1, <3>2, Remembered, UpdatesTyped DEF PInv, Types, WriteOutput, servers
  <2>4. FileKnown'
    BY <1>1, <2>1, <2>2 DEF FileKnown, Reachable, DataOf, TokenOf, WriteOutput, servers
  <2>5. Registering(r)' /\ Listening(r)'
    BY <2>1 DEF Registering, Listening, RegisterSteps, ConnectSteps, OnlineSteps
  <2>6. Ending(r)'
    BY <1>1, <2>1 DEF WriteOutput, servers, Ending, LoggedIn, TokenOf
  <2>7. \A q \in Runs \ {r} : Undisturbed(q)
    BY <2>1 DEF Undisturbed, WriteOutput, servers
  <2> QED
    BY <2>3, <2>4, <2>5, <2>6, <2>7, StepKeeps
<1> QED
  BY <1>3, <1>4 DEF WriteOutput

LEMMA LoadInputKeeps ==
  ASSUME PInv, NEW r \in Runs, LoadInput(r)
  PROVE  PInv'
<1> DEFINE held == [mem[r] EXCEPT !.data = file.data]
<1>1. CASE file.kind = "registration" /\ Continue(r, "ListenCheckIn", held)
  <2>1. held \in Memory /\ held.data = file.data /\ held.mode = mem[r].mode
    BY Remembered DEF PInv, Types, Memory
  <2>2. at'[r] = "ListenCheckIn" /\ mem'[r] = held
    <3>1. "ListenCheckIn" \in Steps
      BY DEF Steps, RegisterSteps, ConnectSteps, OnlineSteps
    <3>2. QED
      BY <1>1, <3>1, Moves
  <2>3. Reachable(mem[r].data)'
    BY <1>1, <2>1, <2>2 DEF PInv, FileKnown, Reachable, LoadInput, servers
  <2>4. Registering(r)' /\ Listening(r)'
    <3>1. mem[r].mode = "listen"
      BY DEF PInv, Listening, LoadInput
    <3> QED
      BY <2>1, <2>2, <2>3, <3>1 DEF Registering, Listening, RegisterSteps, ConnectSteps, OnlineSteps
  <2>5. "ListenCheckIn" \in Steps \ {"wmain", "ended"}
    BY DEF Steps, ConnectSteps
  <2> QED
    BY <1>1, <2>1, <2>4, <2>5, LoginsOnline, ContinueKeeps DEF LoadInput
<1>2. CASE \E code \in {"CANT_READ_LISTEN_INPUT_FILE", "LISTEN_INPUT_DATA_INVALID",
                       "terminated", "CANT_CONNECT_FCM_SERVER"} : End(r, code)
  BY <1>2, FailureKeeps DEF LoadInput
<1> QED
  BY <1>1, <1>2 DEF LoadInput, Terminate

LEMMA SslConnectKeeps ==
  ASSUME PInv, NEW r \in Runs, SslConnect(r)
  PROVE  PInv'
<1> DEFINE held(ssl) == [mem[r] EXCEPT !.m_pSSL = ssl]
<1>1. CASE Continue(r, "SendLoginBuffer", held("secure"))
  <2>1. /\ held("secure") \in Memory /\ held("secure").m_pSSL = "secure"
        /\ held("secure").mode = mem[r].mode /\ held("secure").data = mem[r].data
        /\ held("secure").m_eStatus = mem[r].m_eStatus
    BY Remembered DEF Memory
  <2>2. at'[r] = "SendLoginBuffer" /\ mem'[r] = held("secure")
    <3>1. "SendLoginBuffer" \in Steps
      BY DEF Steps, RegisterSteps, ConnectSteps, OnlineSteps
    <3>2. QED
      BY <1>1, <3>1, Moves
  <2>3. Registering(r)' /\ Listening(r)'
    BY <2>1, <2>2 DEF PInv, SslConnect, servers, Registering, Listening, Reachable,
       RegisterSteps, ConnectSteps, OnlineSteps
  <2>4. "SendLoginBuffer" \in Steps \ {"wmain", "ended"}
    BY DEF Steps, OnlineSteps
  <2> QED
    BY <1>1, <2>1, <2>3, <2>4, LoginsOnline, ContinueKeeps DEF SslConnect
<1>2. CASE /\ at'   = [at EXCEPT ![r] = "ended"]
           /\ exit' = [exit EXCEPT ![r] = "CANT_CONNECT_FCM_SERVER"]
           /\ mem'  = [mem EXCEPT ![r].m_pSSL = "failed"]
  <2>1. held("failed") \in Memory /\ mem' = [mem EXCEPT ![r] = held("failed")]
    BY <1>2, Remembered DEF Memory, PInv, Types
  <2>2. /\ at'[r] = "ended" /\ exit'[r] = "CANT_CONNECT_FCM_SERVER"
        /\ \A q \in Runs \ {r} : at'[q] = at[q] /\ mem'[q] = mem[q] /\ exit'[q] = exit[q]
    BY <1>2 DEF PInv, Types
  <2>3. "ended" \in Steps /\ "CANT_CONNECT_FCM_SERVER" \in Exits
    BY DEF Steps, Exits, ExitCode, ListenExits
  <2>4. Types'
    BY <1>2, <2>1, <2>3 DEF PInv, Types, SslConnect, servers
  <2>5. exit[r] = "running" /\ ~ LoggedIn(r)
    BY LoginsOnline DEF PInv, Ending, SslConnect
  <2>6. FileKnown'
    BY <2>2, <2>5, FileKept DEF PInv, SslConnect, servers
  <2>7. Registering(r)' /\ Listening(r)' /\ Ending(r)'
    BY <2>2, <2>5 DEF Registering, Listening, Ending, LoggedIn, SslConnect, servers,
       RegisterSteps, ConnectSteps, OnlineSteps
  <2>8. \A q \in Runs \ {r} : Undisturbed(q)
    BY <2>2 DEF Undisturbed, SslConnect, servers
  <2> QED
    BY <2>4, <2>6, <2>7, <2>8, StepKeeps
<1> QED
  BY <1>1, <1>2 DEF SslConnect

(* The run is CONNECTED, so the login is written; it may get lost. *)
LEMMA SendLoginBufferKeeps ==
  ASSUME PInv, NEW r \in Runs, SendLoginBuffer(r)
  PROVE  PInv'
<1>1. mem[r].m_eStatus = "CONNECTED" /\ Reachable(mem[r].data)
  BY DEF PInv, Listening, SendLoginBuffer, OnlineSteps
<1>2. /\ Continue(r, "StartReceiver", mem[r])
      /\ UNCHANGED logins \/ logins' = logins \cup {<<r, mem[r].data.acg>>}
  BY <1>1 DEF SendLoginBuffer
<1>3. /\ at'[r] = "StartReceiver" /\ mem'[r] = mem[r] /\ exit'[r] = exit[r]
      /\ \A q \in Runs \ {r} : at'[q] = at[q] /\ mem'[q] = mem[q] /\ exit'[q] = exit[q]
      /\ "StartReceiver" \in Steps
  <2>1. "StartReceiver" \in Steps
    BY DEF Steps, OnlineSteps
  <2>2. QED
    BY <1>2, <2>1, Moves
<1>4. mem[r].data.acg \in Ids
  <2>1. mem[r].data.sToken \in [gcm : Ids, key : Ids]
    BY <1>1 DEF PInv, Types, Reachable
  <2>2. mem[r].data.acg = mem[r].data.sToken.gcm
    BY <1>1 DEF Reachable
  <2> QED
    BY <2>1, <2>2
<1>5. Types'
  BY <1>2, <1>3, <1>4, Remembered, UpdatesTyped DEF PInv, Types, SendLoginBuffer, Exits
<1>6. FileKnown'
  BY <1>3, FileKept DEF PInv, SendLoginBuffer
<1>7. Registering(r)' /\ Listening(r)' /\ Ending(r)'
  BY <1>3 DEF PInv, SendLoginBuffer, Registering, Listening, Ending, Reachable,
     RegisterSteps, ConnectSteps, OnlineSteps
<1>8. \A q \in Runs \ {r} : Undisturbed(q)
  BY <1>2, <1>3 DEF Undisturbed, SendLoginBuffer
<1> QED
  BY <1>5, <1>6, <1>7, <1>8, StepKeeps

LEMMA ReceiverThrowsKeeps ==
  ASSUME PInv, NEW r \in Runs, ReceiverThrows(r)
  PROVE  PInv'
<1>1. "ERROR_WHILE_LISTENING" \in Exits \ {"running"}
  BY DEF Exits, ExitCode, ListenExits
<1> QED
  BY <1>1, EndKeeps DEF ReceiverThrows, LoggedIn

LEMMA UserKillsKeeps ==
  ASSUME PInv, NEW r \in Runs, UserKills(r)
  PROVE  PInv'
<1>1. "killed" \in Exits \ {"running"}
  BY DEF Exits
<1> QED
  BY <1>1, EndKeeps DEF UserKills

LEMMA ServerClosesKeeps ==
  ASSUME PInv, NEW r \in Runs, ServerCloses(r)
  PROVE  PInv'
<1>1. Types'
  BY DEF PInv, Types, ServerCloses
<1>2. \A q \in Runs : Undisturbed(q)
  BY DEF Undisturbed, ServerCloses
<1>3. FileKnown'
  BY FileKept DEF PInv, ServerCloses
<1> QED
  BY <1>1, <1>2, <1>3, OthersKeep DEF PInv

LEMMA StutterKeeps ==
  ASSUME PInv, UNCHANGED vars
  PROVE  PInv'
<1>1. Types'
  BY DEF PInv, Types, vars
<1>2. \A q \in Runs : Undisturbed(q)
  BY DEF Undisturbed, vars
<1>3. FileKnown'
  BY FileKept DEF PInv, vars
<1> QED
  BY <1>1, <1>2, <1>3, OthersKeep DEF PInv

-----------------------------------------------------------------------------

THEOREM InductiveInvariant == Spec => []PInv
<1>1. PInv /\ [Next]_vars => PInv'
  <2> SUFFICES ASSUME PInv, [Next]_vars
               PROVE  PInv'
    OBVIOUS
  <2>1. ASSUME NEW r \in Runs, RegisterNext(r)
        PROVE  PInv'
    BY <2>1, StartRegisterKeeps, CheckInKeeps, DoGCMRegisterKeeps, PostInstallationsKeeps,
       PostFcmRegistrationsKeeps, OpenOutputKeeps, WriteOutputKeeps DEF RegisterNext
  <2>2. ASSUME NEW r \in Runs, ListenNext(r)
        PROVE  PInv'
    BY <2>2, StartListenKeeps, LoadInputKeeps, ListenCheckInKeeps, TcpConnectKeeps,
       SslConnectKeeps, SendLoginBufferKeeps, ReceiverThrowsKeeps, StutterKeeps
    DEF ListenNext, ReceivesNothing
  <2>3. ASSUME NEW r \in Runs, StartInfo(r) \/ ServerCloses(r) \/ UserKills(r)
        PROVE  PInv'
    BY <2>3, StartInfoKeeps, ServerClosesKeeps, UserKillsKeeps
  <2>4. CASE Finished \/ UNCHANGED vars
    BY <2>4, StutterKeeps DEF Finished
  <2> QED
    BY <2>1, <2>2, <2>3, <2>4 DEF Next
<1> QED
  BY <1>1, InitPInv, PTL DEF Spec

(* Types, and no request carries an empty token. *)
THEOREM TypeCorrect == Spec => []TypeOK
<1>1. PInv => TypeOK
  <2> SUFFICES ASSUME PInv PROVE TypeOK
    OBVIOUS
  <2>1. subscriptions \subseteq FcmTokens
    BY DEF PInv, Types, FcmTokens, GcmStrings
  <2>2. ASSUME NEW r \in Runs
        PROVE  /\ at[r] = "DoGCMRegister" => mem[r].checkin # Empty
               /\ at[r] = "PostInstallations" => mem[r].sGcmToken # Empty
               /\ at[r] = "PostFcmRegistrations" => mem[r].sInstallationToken # Empty
    BY RunsAssumption DEF PInv, Registering, RegisterSteps
  <2> QED
    BY <2>1, <2>2 DEF PInv, Types, TypeOK, Memory, Exits
<1> QED
  BY <1>1, InductiveInvariant, PTL

(* The registration in the file, and the one of each run that listens, is  *)
(* one that messages can reach: DoGCMRegister may take an error text for a *)
(* token, but no FCM token is ever made for one.                           *)
THEOREM SavedIsReachable == Spec => []RegistrationIsReachable
<1>1. PInv => RegistrationIsReachable
  BY DEF PInv, FileKnown, Listening, RegistrationIsReachable
<1> QED
  BY <1>1, InductiveInvariant, PTL

(* Exit codes say how far a run got. *)
THEOREM ExitCodesTell == Spec => []ExitTellsHowFar
<1>1. PInv => ExitTellsHowFar
  BY DEF PInv, FileKnown, Ending, LoggedIn, TokenOf, ExitTellsHowFar, RegisterExits
<1> QED
  BY <1>1, InductiveInvariant, PTL

(* Nothing is written to or read from a connection that is not secured. *)
THEOREM OnlySecuredUsed == Spec => []SecureBeforeUse
<1>1. PInv => SecureBeforeUse
  BY DEF PInv, Listening, SecureBeforeUse
<1> QED
  BY <1>1, InductiveInvariant, PTL

(* The file is touched only by a run for whose keys there is a token. *)
THEOREM OldKeptUntilNew == Spec => OldRegistrationKept
<1> DEFINE Kept == file' # file =>
             \E r \in Runs : at[r] # at'[r] /\ TokenOf(r) \in subscriptions
<1>1. PInv /\ [Next]_vars => [Kept]_vars
  <2> SUFFICES ASSUME PInv, [Next]_vars, file' # file
               PROVE  \E r \in Runs : at[r] # at'[r] /\ TokenOf(r) \in subscriptions
    BY DEF vars
  <2>1. PICK r \in Runs : OpenOutput(r) \/ WriteOutput(r)
    BY DEF Next, RegisterNext, ListenNext, Finished, vars, StartInfo, StartRegister, CheckIn,
       DoGCMRegister, PostInstallations, PostFcmRegistrations, StartListen, LoadInput,
       ListenCheckIn, TcpConnect, SslConnect, SendLoginBuffer, ReceiverThrows, ReceivesNothing,
       ServerCloses, UserKills
  <2>2. at[r] \in {"OpenOutput", "WriteOutput"} /\ TokenOf(r) \in subscriptions
    BY <2>1 DEF PInv, Registering, OpenOutput, WriteOutput
  <2>3. at[r] # at'[r]
    <3>1. file' # file /\ OpenOutput(r) => Continue(r, "WriteOutput", mem[r]) /\ at[r] = "OpenOutput"
      BY DEF OpenOutput
    <3>2. WriteOutput(r) => End(r, "SUCCESS") /\ at[r] = "WriteOutput"
      BY DEF WriteOutput
    <3> QED
      BY <2>1, <3>1, <3>2 DEF Continue, End, PInv, Types
  <2> QED
    BY <2>2, <2>3
<1>2. [Kept]_vars => [file' # file =>
         \E r \in Runs : /\ at[r] # at'[r]
                         /\ [gcm |-> r, key |-> r] \in subscriptions]_vars
  BY DEF TokenOf
<1> QED
  BY <1>1, <1>2, InductiveInvariant, PTL DEF Spec, OldRegistrationKept

-----------------------------------------------------------------------------
(* Program implements Registration.  Three more facts make the steps       *)
(* match: a run has a token only once it asked for it (so that an account  *)
(* is made once), and data only once it has loaded it (so that to load an  *)
(* account takes none away); and a token is for a device and its own keys. *)

Holding == {"OpenOutput", "WriteOutput"}

Late ==
  \A r \in Runs :
    /\ TokenOf(r) \in subscriptions => at[r] \in Holding \cup {"ended"}
    /\ at[r] \in {"wmain", "LoadInput"} => mem[r].data = NoData

OwnKeys == \A t \in subscriptions : t.gcm = t.key

Accounts == <<Made, Fresh, InFile, Taken, Online>>

Listens(r, a) == mem[r].mode = "listen" /\ mem[r].data.acg = a

Only(r) == \A q \in Runs \ {r} : at'[q] = at[q] /\ mem'[q] = mem[q]

(* A step that concerns no account.                                        *)
Quiet(r) ==
  /\ Only(r)
  /\ UNCHANGED <<file, subscriptions, logins>>
  /\ at[r] \notin Holding \cup {"ended"}
  /\ at'[r] \notin Holding \cup {"wmain"}
  /\ at'[r] = "LoadInput" => mem'[r].data = NoData
  /\ \A a \in Ids : Listens(r, a)' <=> Listens(r, a)

LEMMA QuietKeepsAccounts ==
  ASSUME NEW r \in Runs, Quiet(r)
  PROVE  UNCHANGED Accounts
<1>1. Fresh' = Fresh
  BY DEF Quiet, Only, Fresh, Holding
<1>2. Taken' = Taken
  BY DEF Quiet, Only, Taken, Listens
<1>3. UNCHANGED <<Made, InFile, Online>>
  BY DEF Quiet, Made, InFile, Online
<1> QED
  BY <1>1, <1>2, <1>3 DEF Accounts

(* What is late stays late. *)
LEMMA LateKept ==
  ASSUME Late, NEW r \in Runs, Only(r), at'[r] # "wmain",
         at'[r] = "LoadInput" => mem'[r].data = NoData,
         \A q \in Runs \ {r} : TokenOf(q) \in subscriptions' => TokenOf(q) \in subscriptions,
         TokenOf(r) \in subscriptions' => at'[r] \in Holding \cup {"ended"}
  PROVE  Late'
<1>1. ASSUME NEW q \in Runs
      PROVE  /\ TokenOf(q) \in subscriptions' => at'[q] \in Holding \cup {"ended"}
             /\ at'[q] \in {"wmain", "LoadInput"} => mem'[q].data = NoData
  <2>1. CASE q = r
    BY <2>1
  <2>2. CASE q # r
    BY <2>2 DEF Late, Only
  <2> QED
    BY <2>1, <2>2
<1> QED
  BY <1>1 DEF Late, TokenOf, Holding

LEMMA QuietKeepsLate ==
  ASSUME Late, NEW r \in Runs, Quiet(r)
  PROVE  Late'
<1>1. TokenOf(r) \notin subscriptions'
  BY DEF Late, Quiet, Holding
<1> QED
  BY <1>1, LateKept DEF Quiet, Holding

(* Going on with the same data, and ending, away from the output file.     *)
LEMMA QuietContinue ==
  ASSUME PInv, NEW r \in Runs, NEW where \in Steps \ (Holding \cup {"wmain", "LoadInput"}), NEW held,
         at[r] \notin Holding \cup {"ended"},
         UNCHANGED <<file, subscriptions, logins>>, Continue(r, where, held),
         held.mode = mem[r].mode, held.data = mem[r].data
  PROVE  Quiet(r)
<1>1. /\ at'[r] = where /\ mem'[r] = held
      /\ \A q \in Runs \ {r} : at'[q] = at[q] /\ mem'[q] = mem[q] /\ exit'[q] = exit[q]
  BY Moves
<1>2. \A a \in Ids : Listens(r, a)' <=> Listens(r, a)
  BY <1>1 DEF Listens
<1> QED
  BY <1>1, <1>2 DEF Quiet, Only

LEMMA QuietEnd ==
  ASSUME PInv, NEW r \in Runs, NEW code, at[r] \notin Holding \cup {"ended"},
         UNCHANGED <<file, subscriptions, logins>>, End(r, code)
  PROVE  Quiet(r)
<1>1. /\ at'[r] = "ended" /\ mem'[r] = mem[r]
      /\ \A q \in Runs \ {r} : at'[q] = at[q] /\ mem'[q] = mem[q] /\ exit'[q] = exit[q]
  BY Ends
<1>2. \A a \in Ids : Listens(r, a)' <=> Listens(r, a)
  BY <1>1 DEF Listens
<1> QED
  BY <1>1, <1>2 DEF Quiet, Only, Holding

LEMMA NoDataIsNobodys == NoData.acg \notin Ids
BY RunsAssumption DEF NoData, Ids

(* wmain: what a run that is asked to register, or to listen, holds is of  *)
(* no account.                                                             *)
LEMMA StartIsQuiet ==
  ASSUME PInv, Late, NEW r \in Runs, StartInfo(r) \/ StartRegister(r) \/ StartListen(r)
  PROVE  Quiet(r)
<1> DEFINE held(mode) == [mem[r] EXCEPT !.mode = mode]
<1>1. /\ at[r] = "wmain" /\ mem[r].mode = "none" /\ mem[r].data = NoData
      /\ UNCHANGED <<file, subscriptions, logins>>
  BY DEF StartInfo, StartRegister, StartListen, servers, PInv, Ending, Late
<1>2. \/ \E code \in {"terminated"} \cup ExitCode : End(r, code)
      \/ Continue(r, "CheckIn", held("register"))
      \/ Continue(r, "LoadInput", held("listen"))
  <2>1. CASE StartInfo(r)
    BY <2>1 DEF StartInfo, ExitCode, RegisterExits
  <2>2. CASE StartRegister(r)
    BY <2>2 DEF StartRegister, Terminate, ExitCode, RegisterExits
  <2>3. CASE StartListen(r)
    BY <2>3 DEF StartListen, ExitCode, ListenExits
  <2> QED
    BY <2>1, <2>2, <2>3
<1>3. CASE \E code \in {"terminated"} \cup ExitCode : End(r, code)
  BY <1>1, <1>3, QuietEnd DEF Holding
<1>4. CASE \E where \in {"CheckIn", "LoadInput"}, mode \in {"register", "listen"} :
             Continue(r, where, held(mode))
  <2>1. PICK where \in {"CheckIn", "LoadInput"}, mode \in {"register", "listen"} :
               Continue(r, where, held(mode))
    BY <1>4
  <2>2. where \in Steps
    BY DEF Steps, RegisterSteps
  <2>3. /\ at'[r] = where /\ mem'[r] = held(mode)
        /\ \A q \in Runs \ {r} : at'[q] = at[q] /\ mem'[q] = mem[q] /\ exit'[q] = exit[q]
    BY <2>1, <2>2, Moves
  <2>4. held(mode).data = NoData
    BY <1>1, Remembered DEF Memory
  <2>5. \A a \in Ids : ~ Listens(r, a) /\ ~ Listens(r, a)'
    BY <1>1, <2>3, <2>4, NoDataIsNobodys DEF Listens
  <2> QED
    BY <1>1, <2>3, <2>4, <2>5 DEF Quiet, Only, Holding
<1> QED
  BY <1>2, <1>3, <1>4

LEMMA RegisteringIsQuiet ==
  ASSUME PInv, NEW r \in Runs, CheckIn(r) \/ DoGCMRegister(r) \/ PostInstallations(r)
  PROVE  Quiet(r)
<1>1. at[r] \notin Holding \cup {"ended"} /\ UNCHANGED <<file, subscriptions, logins>>
  BY DEF CheckIn, DoGCMRegister, PostInstallations, servers, Holding
<1>2. CASE \E code \in {"REGISTER_FAILED", "terminated"} : End(r, code)
  BY <1>1, <1>2, QuietEnd
<1>3. CASE ~ \E code \in {"REGISTER_FAILED", "terminated"} : End(r, code)
  <2>1. PICK where \in {"DoGCMRegister", "PostInstallations", "PostFcmRegistrations"},
             held \in {[mem[r] EXCEPT !.checkin = r], [mem[r] EXCEPT !.sInstallationToken = r]}
                       \cup {[mem[r] EXCEPT !.sGcmToken = t] : t \in {mem[r].checkin, ErrorText}} :
               Continue(r, where, held)
    <3>1. CASE CheckIn(r)
      BY <1>3, <3>1 DEF CheckIn
    <3>2. CASE DoGCMRegister(r)
      BY <1>3, <3>2 DEF DoGCMRegister, Terminate
    <3>3. CASE PostInstallations(r)
      BY <1>3, <3>3 DEF PostInstallations, Terminate
    <3> QED
      BY <3>1, <3>2, <3>3
  <2>2. where \in Steps \ (Holding \cup {"wmain", "LoadInput"})
    BY DEF Steps, RegisterSteps, Holding
  <2>3. held.mode = mem[r].mode /\ held.data = mem[r].data
    <3>1. mem[r] \in Memory
      BY Remembered
    <3> QED
      BY <3>1 DEF Memory
  <2> QED
    BY <1>1, <2>1, <2>2, <2>3, QuietContinue
<1> QED
  BY <1>2, <1>3

LEMMA ConnectingIsQuiet ==
  ASSUME PInv, NEW r \in Runs, ListenCheckIn(r) \/ TcpConnect(r) \/ SslConnect(r)
  PROVE  Quiet(r)
<1>1. at[r] \notin Holding \cup {"ended"} /\ UNCHANGED <<file, subscriptions, logins>>
  BY DEF ListenCheckIn, TcpConnect, SslConnect, servers, Holding
<1>2. mem[r] \in Memory
  BY Remembered
<1>3. CASE End(r, "CANT_CONNECT_FCM_SERVER")
  BY <1>1, <1>3, QuietEnd
<1>4. CASE \E where \in {"TcpConnect", "SslConnect", "SendLoginBuffer"},
              held \in {mem[r], [mem[r] EXCEPT !.m_eStatus = "CONNECTED"],
                        [mem[r] EXCEPT !.m_pSSL = "secure"]} : Continue(r, where, held)
  <2>1. PICK where \in {"TcpConnect", "SslConnect", "SendLoginBuffer"},
             held \in {mem[r], [mem[r] EXCEPT !.m_eStatus = "CONNECTED"],
                       [mem[r] EXCEPT !.m_pSSL = "secure"]} : Continue(r, where, held)
    BY <1>4
  <2>2. where \in Steps \ (Holding \cup {"wmain", "LoadInput"})
    BY DEF Steps, ConnectSteps, OnlineSteps, Holding
  <2>3. held.mode = mem[r].mode /\ held.data = mem[r].data
    BY <1>2 DEF Memory
  <2> QED
    BY <1>1, <2>1, <2>2, <2>3, QuietContinue
<1>5. CASE /\ SslConnect(r)
           /\ at'   = [at EXCEPT ![r] = "ended"]
           /\ mem'  = [mem EXCEPT ![r].m_pSSL = "failed"]
  <2>1. at'[r] = "ended" /\ Only(r)
    BY <1>5 DEF Only, PInv, Types
  <2>2. mem'[r].mode = mem[r].mode /\ mem'[r].data = mem[r].data
    <3>1. mem'[r] = [mem[r] EXCEPT !.m_pSSL = "failed"]
      BY <1>5 DEF PInv, Types
    <3> QED
      BY <1>2, <3>1 DEF Memory
  <2>3. \A a \in Ids : Listens(r, a)' <=> Listens(r, a)
    BY <2>2 DEF Listens
  <2> QED
    BY <1>1, <2>1, <2>3 DEF Quiet, Holding
<1> QED
  BY <1>3, <1>4, <1>5 DEF ListenCheckIn, TcpConnect, SslConnect

LEMMA OnlineIsQuiet ==
  ASSUME PInv, NEW r \in Runs, ReceiverThrows(r) \/ ServerCloses(r)
  PROVE  Quiet(r)
<1>1. at[r] \in OnlineSteps /\ UNCHANGED <<file, subscriptions, logins>>
  BY DEF ReceiverThrows, ServerCloses, servers, OnlineSteps
<1>2. CASE End(r, "ERROR_WHILE_LISTENING")
  BY <1>1, <1>2, QuietEnd DEF OnlineSteps, Holding
<1>3. CASE UNCHANGED <<at, mem>>
  BY <1>1, <1>3 DEF Quiet, Only, Listens, OnlineSteps, Holding
<1> QED
  BY <1>2, <1>3 DEF ReceiverThrows, ServerCloses

(* The steps that are about an account.  Each keeps Late, and is a step of *)
(* Registration, or none.                                                  *)
ANext == AbstractRegistration!Next

LEMMA FreshThen ==
  ASSUME NEW r \in Runs, Only(r)
  PROVE  /\ at'[r] \in Holding => Fresh' = Fresh \cup {r}
         /\ at'[r] \notin Holding => Fresh' = Fresh \ {r}
BY DEF Only, Fresh, Holding

LEMMA TakenKept ==
  ASSUME NEW r \in Runs, Only(r), \A a \in Ids : Listens(r, a)' <=> Listens(r, a)
  PROVE  Taken' = Taken
BY DEF Only, Taken, Listens

LEMMA PostFcmIsMake ==
  ASSUME PInv, Late, NEW r \in Runs, PostFcmRegistrations(r)
  PROVE  Late' /\ (ANext \/ UNCHANGED Accounts)
<1> DEFINE asked == [gcm |-> mem[r].sGcmToken, key |-> r]
           held  == [mem[r] EXCEPT !.data = [acg |-> mem[r].checkin, ece |-> r, sToken |-> asked]]
<1>1. /\ at[r] = "PostFcmRegistrations" /\ mem[r].mode = "register"
      /\ mem[r].sGcmToken \in {r, ErrorText} /\ UNCHANGED <<file, logins>>
  BY DEF PInv, Registering, PostFcmRegistrations, RegisterSteps
<1>2. CASE UNCHANGED subscriptions /\ (End(r, "REGISTER_FAILED") \/ Terminate(r))
  <2>1. Quiet(r)
    BY <1>1, <1>2, QuietEnd DEF Terminate, Holding
  <2> QED
    BY <2>1, QuietKeepsAccounts, QuietKeepsLate
<1>3. CASE /\ FcmAccepts(asked)
           /\ subscriptions' = subscriptions \cup {asked}
           /\ Continue(r, "OpenOutput", held) \/ End(r, "REGISTER_FAILED")
  <2>1. asked = TokenOf(r) /\ r \in Ids
    BY <1>1, <1>3, RunsAssumption DEF FcmAccepts, TokenOf, Ids
  <2>2. /\ Only(r) /\ at'[r] \in {"OpenOutput", "ended"}
        /\ mem[r].mode = "register" /\ mem'[r].mode = "register"
    <3>1. CASE Continue(r, "OpenOutput", held)
      <4>1. "OpenOutput" \in Steps
        BY DEF Steps, RegisterSteps
      <4>2. held.mode = mem[r].mode
        BY Remembered DEF Memory
      <4>3. Only(r) /\ at'[r] = "OpenOutput" /\ mem'[r] = held
        BY <3>1, <4>1, Moves DEF Only
      <4> QED
        BY <1>1, <4>2, <4>3
    <3>2. CASE End(r, "REGISTER_FAILED")
      BY <1>1, <3>2, Ends DEF Only
    <3> QED
      BY <1>3, <3>1, <3>2
  <2>3. \A q \in Runs \cup {Earlier} : q # r => TokenOf(q) # asked
    BY <2>1 DEF TokenOf
  <2>4. Late'
    BY <1>3, <2>2, <2>3, LateKept DEF Holding
  <2>5. r \in Ids \ Made /\ Made' = Made \cup {r}
    <3>1. r \notin Made
      BY <1>1 DEF Late, Made, TokenOf, Holding
    <3>2. Made' = Made \cup {r}
      BY <1>3, <2>1, <2>3 DEF Made, TokenOf, Ids
    <3> QED
      BY <2>1, <3>1, <3>2
  <2>6. Fresh' \in {Fresh, Fresh \cup {r}}
    <3>1. r \notin Fresh
      BY <1>1 DEF Fresh
    <3> QED
      BY <2>2, <3>1, FreshThen
  <2>7. UNCHANGED <<InFile, Taken, Online>>
    <3>1. Taken' = Taken
      BY <2>2, TakenKept DEF Listens
    <3> QED
      BY <1>1, <3>1 DEF InFile, Online
  <2>8. AbstractRegistration!Make(r)
    BY <2>5, <2>6, <2>7 DEF AbstractRegistration!Make
  <2> QED
    BY <2>1, <2>4, <2>8 DEF ANext, AbstractRegistration!Next
<1> QED
  BY <1>2, <1>3 DEF PostFcmRegistrations

(* Ending with an account that was not saved yet. *)
LEMMA EndsUnsaved ==
  ASSUME PInv, Late, NEW r \in Runs, NEW code, at[r] \in Holding, End(r, code),
         UNCHANGED <<file, subscriptions, logins>>
  PROVE  Late' /\ AbstractRegistration!FailToSave(r)
<1>1. Only(r) /\ at'[r] = "ended" /\ mem'[r] = mem[r]
  BY Ends DEF Only
<1>2. Late'
  BY <1>1, LateKept
<1>3. r \in Fresh /\ Fresh' = Fresh \ {r}
  BY <1>1, FreshThen DEF Fresh, Holding
<1>4. Taken' = Taken
  BY <1>1, TakenKept DEF Listens
<1>5. UNCHANGED <<Made, InFile, Online>>
  BY DEF Made, InFile, Online
<1> QED
  BY <1>2, <1>3, <1>4, <1>5 DEF AbstractRegistration!FailToSave

LEMMA OpenIsGiveUp ==
  ASSUME PInv, Late, NEW r \in Runs, OpenOutput(r)
  PROVE  Late' /\ ANext
<1>1. at[r] = "OpenOutput" /\ r \in Fresh /\ r \in Ids /\ UNCHANGED <<subscriptions, logins>>
  BY DEF OpenOutput, servers, Fresh, Ids
<1>2. CASE End(r, "CANT_WRITE_REGISTER_DATA") /\ UNCHANGED file
  <2>1. Late' /\ AbstractRegistration!FailToSave(r)
    BY <1>1, <1>2, EndsUnsaved DEF Holding
  <2> QED
    BY <1>1, <2>1 DEF ANext, AbstractRegistration!Next
<1>3. CASE /\ Continue(r, "WriteOutput", mem[r])
           /\ file' = [kind |-> "not JSON", data |-> NoData]
  <2>1. Only(r) /\ at'[r] = "WriteOutput" /\ mem'[r] = mem[r]
    <3>1. "WriteOutput" \in Steps
      BY DEF Steps, RegisterSteps
    <3> QED
      BY <1>3, <3>1, Moves DEF Only
  <2>2. Late'
    BY <1>1, <2>1, LateKept DEF Holding
  <2>3. Fresh' = Fresh
    BY <1>1, <2>1, FreshThen DEF Holding
  <2>4. InFile' = Empty
    BY <1>3 DEF InFile
  <2>5. Taken' = Taken
    BY <2>1, TakenKept DEF Listens
  <2>6. UNCHANGED <<Made, Online>>
    BY <1>1 DEF Made, Online
  <2>7. AbstractRegistration!GiveUp
    BY <1>1, <2>3, <2>4, <2>5, <2>6 DEF AbstractRegistration!GiveUp
  <2> QED
    BY <2>2, <2>7 DEF ANext, AbstractRegistration!Next
<1> QED
  BY <1>2, <1>3 DEF OpenOutput

LEMMA WriteIsSave ==
  ASSUME PInv, Late, NEW r \in Runs, WriteOutput(r)
  PROVE  Late' /\ ANext
<1>1. /\ at[r] = "WriteOutput" /\ r \in Fresh /\ r \in Ids
      /\ End(r, "SUCCESS") /\ UNCHANGED <<subscriptions, logins>>
  BY DEF WriteOutput, servers, Fresh, Ids
<1>2. CASE UNCHANGED file
  <2>1. Late' /\ AbstractRegistration!FailToSave(r)
    BY <1>1, <1>2, EndsUnsaved DEF Holding
  <2> QED
    BY <1>1, <2>1 DEF ANext, AbstractRegistration!Next
<1>3. CASE file' = Saved(mem[r].data)
  <2>1. Only(r) /\ at'[r] = "ended" /\ mem'[r] = mem[r]
    BY <1>1, Ends DEF Only
  <2>2. Late'
    BY <1>1, <2>1, LateKept
  <2>3. Fresh' = Fresh \ {r}
    BY <2>1, FreshThen DEF Holding
  <2>4. InFile' = r
    <3>1. mem[r].data = DataOf(r)
      BY <1>1 DEF PInv, Registering
    <3> QED
      BY <1>3, <3>1 DEF InFile, Saved, DataOf
  <2>5. Taken' = Taken
    BY <2>1, TakenKept DEF Listens
  <2>6. UNCHANGED <<Made, Online>>
    BY <1>1 DEF Made, Online
  <2>7. AbstractRegistration!Save(r)
    BY <1>1, <2>3, <2>4, <2>5, <2>6 DEF AbstractRegistration!Save
  <2> QED
    BY <1>1, <2>2, <2>7 DEF ANext, AbstractRegistration!Next
<1> QED
  BY <1>2, <1>3 DEF WriteOutput

LEMMA LoadIsLoad ==
  ASSUME PInv, Late, OwnKeys, NEW r \in Runs, LoadInput(r)
  PROVE  Late' /\ (ANext \/ UNCHANGED Accounts)
<1> DEFINE held == [mem[r] EXCEPT !.data = file.data]
<1>1. /\ at[r] = "LoadInput" /\ mem[r].mode = "listen" /\ mem[r].data = NoData
      /\ UNCHANGED <<file, subscriptions, logins>>
  BY DEF LoadInput, servers, PInv, Listening, Late
<1>2. CASE \E code \in {"CANT_READ_LISTEN_INPUT_FILE", "LISTEN_INPUT_DATA_INVALID",
                       "terminated", "CANT_CONNECT_FCM_SERVER"} : End(r, code)
  <2>1. Quiet(r)
    BY <1>1, <1>2, QuietEnd DEF Holding
  <2> QED
    BY <2>1, QuietKeepsAccounts, QuietKeepsLate
<1>3. CASE file.kind = "registration" /\ Continue(r, "ListenCheckIn", held)
  <2>1. held.mode = "listen" /\ held.data = file.data
    BY <1>1, Remembered DEF Memory
  <2>2. Only(r) /\ at'[r] = "ListenCheckIn" /\ mem'[r] = held
    <3>1. "ListenCheckIn" \in Steps
      BY DEF Steps, ConnectSteps
    <3> QED
      BY <1>3, <3>1, Moves DEF Only
  <2>3. Late'
    <3>1. TokenOf(r) \notin subscriptions'
      BY <1>1 DEF Late, Holding
    <3> QED
      BY <1>1, <2>2, <3>1, LateKept
  <2>4. InFile \in Ids /\ InFile = file.data.acg
    <3>1. file.data.sToken \in subscriptions /\ subscriptions \subseteq [gcm : Ids, key : Ids]
      BY <1>3 DEF PInv, Types, FileKnown, Reachable
    <3>2. file.data.sToken = [gcm |-> file.data.acg, key |-> file.data.ece]
      BY <1>3 DEF PInv, FileKnown, Reachable
    <3>3. file.data.acg = file.data.ece /\ file.data.ece \in Ids
      BY <3>1, <3>2 DEF OwnKeys
    <3> QED
      BY <1>3, <3>3 DEF InFile
  <2>5. Taken' = Taken \cup {InFile}
    <3>1. \A a \in Ids : ~ Listens(r, a) /\ (Listens(r, a)' <=> a = InFile)
      BY <1>1, <2>1, <2>2, <2>4, NoDataIsNobodys DEF Listens
    <3>2. \A a \in Ids, q \in Runs \ {r} : Listens(q, a)' <=> Listens(q, a)
      BY <2>2 DEF Listens, Only
    <3>3. \A a \in Ids : a \in Taken <=> \E q \in Runs \ {r} : Listens(q, a)
      BY <3>1 DEF Taken, Listens
    <3>4. \A a \in Ids : a \in Taken' <=> Listens(r, a)' \/ \E q \in Runs \ {r} : Listens(q, a)'
      BY DEF Taken, Listens
    <3>5. \A a \in Ids : a \in Taken' <=> a \in Taken \/ a = InFile
      BY <3>1, <3>2, <3>3, <3>4
    <3> QED
      BY <2>4, <3>5 DEF Taken
  <2>6. Fresh' = Fresh
    BY <1>1, <2>2, FreshThen DEF Fresh, Holding
  <2>7. UNCHANGED <<Made, InFile, Online>>
    BY <1>1 DEF Made, InFile, Online
  <2>8. AbstractRegistration!Load
    BY <2>4, <2>5, <2>6, <2>7, RunsAssumption DEF AbstractRegistration!Load, Ids
  <2> QED
    BY <2>3, <2>8 DEF ANext, AbstractRegistration!Next
<1> QED
  BY <1>2, <1>3 DEF LoadInput, Terminate

LEMMA LoginIsLogIn ==
  ASSUME PInv, Late, NEW r \in Runs, SendLoginBuffer(r)
  PROVE  Late' /\ (ANext \/ UNCHANGED Accounts)
<1>1. /\ at[r] = "SendLoginBuffer" /\ mem[r].mode = "listen" /\ mem[r].m_eStatus = "CONNECTED"
      /\ Reachable(mem[r].data) /\ UNCHANGED <<file, subscriptions>>
  BY DEF SendLoginBuffer, PInv, Listening, OnlineSteps
<1>2. /\ Continue(r, "StartReceiver", mem[r])
      /\ UNCHANGED logins \/ logins' = logins \cup {<<r, mem[r].data.acg>>}
  BY <1>1 DEF SendLoginBuffer
<1>3. Only(r) /\ at'[r] = "StartReceiver" /\ mem'[r] = mem[r]
  <2>1. "StartReceiver" \in Steps
    BY DEF Steps, OnlineSteps
  <2> QED
    BY <1>2, <2>1, Moves DEF Only
<1>4. Late'
  <2>1. TokenOf(r) \notin subscriptions'
    BY <1>1 DEF Late, Holding
  <2> QED
    BY <1>1, <1>3, <2>1, LateKept
<1>5. Fresh' = Fresh
  BY <1>1, <1>3, FreshThen DEF Fresh, Holding
<1>6. Taken' = Taken
  BY <1>3, TakenKept DEF Listens
<1>7. UNCHANGED <<Made, InFile>>
  BY <1>1 DEF Made, InFile
<1>8. mem[r].data.acg \in Taken
  <2>1. mem[r].data.sToken \in [gcm : Ids, key : Ids]
    BY <1>1 DEF PInv, Types, Reachable
  <2>2. mem[r].data.acg = mem[r].data.sToken.gcm
    BY <1>1 DEF Reachable
  <2> QED
    BY <1>1, <2>1, <2>2 DEF Taken
<1>9. CASE UNCHANGED logins
  <2>1. Online' = Online
    BY <1>9 DEF Online
  <2> QED
    BY <1>4, <1>5, <1>6, <1>7, <2>1 DEF Accounts
<1>10. CASE logins' = logins \cup {<<r, mem[r].data.acg>>}
  <2>1. mem[r].data.acg \in Ids
    BY <1>8 DEF Taken
  <2>2. Online' = Online \cup {mem[r].data.acg}
    <3>1. \A a \in Ids : a \in Online' <=> a \in Online \/ a = mem[r].data.acg
      BY <1>10 DEF Online
    <3> QED
      BY <2>1, <3>1 DEF Online
  <2>3. AbstractRegistration!LogIn(mem[r].data.acg)
    BY <1>5, <1>6, <1>7, <1>8, <2>2 DEF AbstractRegistration!LogIn
  <2> QED
    BY <1>4, <2>1, <2>3 DEF ANext, AbstractRegistration!Next
<1> QED
  BY <1>2, <1>9, <1>10

LEMMA KillKeepsAccounts ==
  ASSUME PInv, Late, NEW r \in Runs, UserKills(r)
  PROVE  Late' /\ (ANext \/ UNCHANGED Accounts)
<1>1. End(r, "killed") /\ at[r] # "ended" /\ UNCHANGED <<file, subscriptions, logins>>
  BY DEF UserKills, servers
<1>2. CASE at[r] \in Holding
  <2>1. Late' /\ AbstractRegistration!FailToSave(r)
    BY <1>1, <1>2, EndsUnsaved
  <2> QED
    BY <2>1 DEF ANext, AbstractRegistration!Next, Ids
<1>3. CASE at[r] \notin Holding
  <2>1. Quiet(r)
    BY <1>1, <1>3, QuietEnd
  <2> QED
    BY <2>1, QuietKeepsAccounts, QuietKeepsLate
<1> QED
  BY <1>2, <1>3

LEMMA StutterKeepsAccounts ==
  ASSUME Late, UNCHANGED vars
  PROVE  Late' /\ UNCHANGED Accounts
<1>1. UNCHANGED Accounts
  BY DEF vars, Accounts, Made, Fresh, InFile, Taken, Online
<1> QED
  BY <1>1 DEF vars, Late

LEMMA OwnKeysKept ==
  ASSUME PInv, OwnKeys, [Next]_vars
  PROVE  OwnKeys'
<1>1. CASE UNCHANGED subscriptions
  BY <1>1 DEF OwnKeys
<1>2. CASE \E r \in Runs : PostFcmRegistrations(r)
  <2>1. PICK r \in Runs : PostFcmRegistrations(r)
    BY <1>2
  <2>2. mem[r].sGcmToken \in {r, ErrorText}
    BY <2>1 DEF PInv, Registering, PostFcmRegistrations
  <2>3. \/ UNCHANGED subscriptions
        \/ subscriptions' = subscriptions \cup {TokenOf(r)}
    BY <2>1, <2>2, RunsAssumption DEF PostFcmRegistrations, FcmAccepts, TokenOf, Ids
  <2> QED
    BY <2>3 DEF OwnKeys, TokenOf
<1>3. UNCHANGED subscriptions \/ \E r \in Runs : PostFcmRegistrations(r)
  BY DEF Next, RegisterNext, ListenNext, Finished, vars, servers, StartInfo, StartRegister,
     CheckIn, DoGCMRegister, PostInstallations, OpenOutput, WriteOutput, StartListen, LoadInput,
     ListenCheckIn, TcpConnect, SslConnect, SendLoginBuffer, ReceiverThrows, ReceivesNothing,
     ServerCloses, UserKills
<1> QED
  BY <1>1, <1>2, <1>3

LEMMA InitAccounts == Init => Late /\ OwnKeys /\ AbstractRegistration!Init
<1> SUFFICES ASSUME Init PROVE Late /\ OwnKeys /\ AbstractRegistration!Init
  OBVIOUS
<1>1. Late
  BY RunsAssumption DEF Init, Late, TokenOf, EarlierToken, NoMemory
<1>2. OwnKeys
  <2>1. EarlierToken.gcm = EarlierToken.key
    BY DEF EarlierToken
  <2>2. subscriptions = {EarlierToken}
    BY DEF Init
  <2> QED
    BY <2>1, <2>2 DEF OwnKeys
<1>3. Earlier \in Made /\ Made \subseteq Ids
  BY DEF Init, Made, EarlierToken, Ids
<1>4. InFile \in Made \cup {Empty}
  <2>1. ASSUME NEW kind \in {"absent", "not JSON", "other JSON"},
               file = [kind |-> kind, data |-> NoData]
        PROVE  InFile = Empty
    BY <2>1 DEF InFile
  <2>2. ASSUME NEW kind \in {"registration"} \cup Damaged,
               file = [kind |-> kind, data |-> EarlierData]
        PROVE  InFile \in {Earlier, Empty}
    BY <2>2 DEF InFile, EarlierData
  <2> QED
    BY <1>3, <2>1, <2>2 DEF Init
<1>5. Fresh = {} /\ Taken = {} /\ Online = {}
  BY DEF Init, Fresh, Taken, Online, NoMemory
<1> QED
  BY <1>1, <1>2, <1>3, <1>4, <1>5 DEF AbstractRegistration!Init

(* Every step of every run is a step of Registration, or concerns no       *)
(* account.                                                                *)
LEMMA StepOfRegistration ==
  ASSUME PInv, Late, OwnKeys, [Next]_vars
  PROVE  Late' /\ (ANext \/ UNCHANGED Accounts)
<1>1. ASSUME NEW r \in Runs, Quiet(r)
      PROVE  Late' /\ UNCHANGED Accounts
  BY <1>1, QuietKeepsAccounts, QuietKeepsLate
<1>2. ASSUME NEW r \in Runs, RegisterNext(r)
      PROVE  Late' /\ (ANext \/ UNCHANGED Accounts)
  <2>1. CASE StartRegister(r) \/ CheckIn(r) \/ DoGCMRegister(r) \/ PostInstallations(r)
    BY <1>1, <2>1, StartIsQuiet, RegisteringIsQuiet
  <2>2. CASE PostFcmRegistrations(r) \/ OpenOutput(r) \/ WriteOutput(r)
    BY <2>2, PostFcmIsMake, OpenIsGiveUp, WriteIsSave
  <2> QED
    BY <1>2, <2>1, <2>2 DEF RegisterNext
<1>3. ASSUME NEW r \in Runs, ListenNext(r)
      PROVE  Late' /\ (ANext \/ UNCHANGED Accounts)
  <2>1. CASE StartListen(r) \/ ListenCheckIn(r) \/ TcpConnect(r) \/ SslConnect(r) \/ ReceiverThrows(r)
    BY <1>1, <2>1, StartIsQuiet, ConnectingIsQuiet, OnlineIsQuiet
  <2>2. CASE LoadInput(r) \/ SendLoginBuffer(r)
    BY <2>2, LoadIsLoad, LoginIsLogIn
  <2>3. CASE ReceivesNothing(r)
    BY <2>3, StutterKeepsAccounts DEF ReceivesNothing
  <2> QED
    BY <1>3, <2>1, <2>2, <2>3 DEF ListenNext
<1>4. ASSUME NEW r \in Runs, StartInfo(r) \/ ServerCloses(r) \/ UserKills(r)
      PROVE  Late' /\ (ANext \/ UNCHANGED Accounts)
  <2>1. CASE StartInfo(r) \/ ServerCloses(r)
    BY <1>1, <2>1, StartIsQuiet, OnlineIsQuiet
  <2> QED
    BY <1>4, <2>1, KillKeepsAccounts
<1>5. CASE Finished \/ UNCHANGED vars
  BY <1>5, StutterKeepsAccounts DEF Finished
<1> QED
  BY <1>2, <1>3, <1>4, <1>5 DEF Next

(* Runs in one folder implement Registration: an account is saved once at  *)
(* most, and only after its token was made; the one before it is given up  *)
(* only by a run that has a new one; and whoever logs in does so with an   *)
(* account that was saved when it was loaded.                              *)
THEOREM RegistrationImplemented == Spec => ImplementsRegistration
<1>1. Init => Late /\ OwnKeys /\ AbstractRegistration!Init
  BY InitAccounts
<1>2. PInv /\ Late /\ OwnKeys /\ [Next]_vars =>
        Late' /\ OwnKeys' /\ [AbstractRegistration!Next]_(AbstractRegistration!vars)
  BY StepOfRegistration, OwnKeysKept DEF ANext, Accounts, AbstractRegistration!vars
<1> QED
  BY InductiveInvariant, <1>1, <1>2, PTL
  DEF Spec, ImplementsRegistration, AbstractRegistration!Spec
=============================================================================

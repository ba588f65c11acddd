------------------------------- MODULE Program ------------------------------
(***************************************************************************)
(* wmain: runs of the program that register or listen, side by side or one *)
(* after the other in one folder.  They share the registration file        *)
(* (fcm_register_data.json), which a register run writes and a listen run  *)
(* reads, and the servers.  An action is what a run does up to the next    *)
(* request, file access or connection step; between two of them another    *)
(* run may act, and the run may be killed.                                 *)
(*                                                                         *)
(* What an HTTP answer or the input file contains is abstracted to the     *)
(* ways the code can tell them apart; runs given other paths than that of  *)
(* the registration file are not considered.  What happens to messages     *)
(* once a run listens is in MessageDelivery.                               *)
(*                                                                         *)
(* An empty string of the code is Empty.  Android ids and key pairs are    *)
(* named by the run that obtained them: each run checks in as nobody and   *)
(* generates its keys once.  Earlier names the run that wrote the          *)
(* registration which may be in the file at first.                         *)
(***************************************************************************)
EXTENDS Integers

CONSTANTS
  Runs,           (* the runs of the program                               *)
  Earlier,        (* a run that registered before all of them              *)
  Empty,          (* the empty string                                      *)
  ErrorText,      (* what follows "=" in an "Error=..." of the GCM server  *)
  Asked           (* what command lines ask for (see CommandLine)          *)

ASSUME RunsAssumption ==
  /\ Earlier \notin Runs
  /\ {Empty, ErrorText} \cap (Runs \cup {Earlier}) = {}
  /\ Empty # ErrorText

VARIABLES
  at,             (* at[r]: the function run r is in                       *)
  exit,           (* exit[r]: how it ended                                 *)
  mem,            (* mem[r]: what it holds                                 *)
  file,           (* the registration file                                 *)
  subscriptions,  (* the FCM server's: endpoint and key of each token      *)
  logins,         (* <<run, id>>: logins the MCS server received           *)
  closed          (* runs whose connection the MCS server has closed       *)

vars == <<at, exit, mem, file, subscriptions, logins, closed>>
servers == <<subscriptions, logins, closed>>

Ids == Runs \cup {Earlier}

RegisterSteps == {"CheckIn", "DoGCMRegister", "PostInstallations",
                  "PostFcmRegistrations", "OpenOutput", "WriteOutput"}
ConnectSteps  == {"ListenCheckIn", "TcpConnect", "SslConnect"}
OnlineSteps   == {"SendLoginBuffer", "StartReceiver"}
Steps         == RegisterSteps \cup ConnectSteps \cup OnlineSteps
                   \cup {"wmain", "LoadInput", "ended"}

RegisterExits == {"PARSE_ERROR", "ARGUMENT_ERROR", "CANT_READ_REGISTER_INPUT_FILE",
                  "REGISTER_INPUT_FILE_TYPE_INVALID", "REGISTER_INPUT_DATA_INVALID",
                  "CANT_GENERATE_KEYS", "REGISTER_OUTPUT_FILE_TYPE_INVALID",
                  "REGISTER_FAILED", "CANT_WRITE_REGISTER_DATA"}
ListenExits   == {"LISTEN_INPUT_FILE_TYPE_INVALID", "CANT_READ_LISTEN_INPUT_FILE",
                  "LISTEN_INPUT_DATA_INVALID", "CANT_CONNECT_FCM_SERVER",
                  "ERROR_WHILE_LISTENING"}
ExitCode == {"SUCCESS"} \cup RegisterExits \cup ListenExits

(* A GCM token is named by the id it was issued to; what the code may take *)
(* for one is any string.  An FCM token is an endpoint and a public key.   *)
GcmStrings == Ids \cup {Empty, ErrorText}
FcmTokens  == [gcm : GcmStrings, key : Ids \cup {Empty}]
NoToken    == [gcm |-> Empty, key |-> Empty]

FCM_REGISTER_DATA_RETURN == [acg : Ids \cup {Empty}, ece : Ids \cup {Empty}, sToken : FcmTokens]
NoData == [acg |-> Empty, ece |-> Empty, sToken |-> NoToken]

(* The file: absent; not JSON (empty, for one); JSON without the fields of *)
(* a registration; a registration, in which somebody may have damaged a    *)
(* field: its type, the length of a key, the digits of the id.             *)
Damaged   == {"wrong type", "wrong key", "wrong id"}
FileKinds == {"absent", "not JSON", "other JSON", "registration"} \cup Damaged
Saved(d)  == [kind |-> "registration", data |-> d]

EarlierToken == [gcm |-> Earlier, key |-> Earlier]
EarlierData  == [acg |-> Earlier, ece |-> Earlier, sToken |-> EarlierToken]

NoMemory == [mode |-> "none", checkin |-> Empty, sGcmToken |-> Empty,
             sInstallationToken |-> Empty, data |-> NoData,
             m_eStatus |-> "DISCONNECTED", m_pSSL |-> "none"]

Init ==
  /\ at   = [r \in Runs |-> "wmain"]
  /\ exit = [r \in Runs |-> "running"]
  /\ mem  = [r \in Runs |-> NoMemory]
  /\ \/ \E kind \in {"absent", "not JSON", "other JSON"} :
          file = [kind |-> kind, data |-> NoData]
     \/ \E kind \in {"registration"} \cup Damaged :
          file = [kind |-> kind, data |-> EarlierData]
  /\ subscriptions = {EarlierToken}
  /\ logins = {}
  /\ closed = {}

-----------------------------------------------------------------------------
(* Going on, with what the run then holds, and ending. *)

Continue(r, where, held) ==
  /\ at'  = [at EXCEPT ![r] = where]
  /\ mem' = [mem EXCEPT ![r] = held]
  /\ UNCHANGED exit

End(r, code) ==
  /\ at'   = [at EXCEPT ![r] = "ended"]
  /\ exit' = [exit EXCEPT ![r] = code]
  /\ UNCHANGED mem

(* An exception nothing catches. *)
Terminate(r) == End(r, "terminated")

-----------------------------------------------------------------------------
(* wmain up to the first request or file access: what the command line     *)
(* asks for, and of a register run the input file and the keys.            *)

StartInfo(r) ==
  /\ at[r] = "wmain"
  /\ \E how \in Asked :
       /\ how.asks \in {"PARSE_ERROR", "ARGUMENT_ERROR", "SUCCESS"}
       /\ End(r, how.asks)
  /\ UNCHANGED <<file, servers>>

(* (A slip: the output file is opened before the registration is made.)    *)
SlipOpensFirst(r) ==
  /\ at[r] = "wmain"
  /\ Continue(r, "CheckIn", [mem[r] EXCEPT !.mode = "register"])
  /\ file' = [kind |-> "not JSON", data |-> NoData]
  /\ UNCHANGED servers

(* RegisterToFCM returns empty data when a field of the input is empty;    *)
(* a field that is not a string throws when it is read.                    *)
StartRegister(r) ==
  /\ at[r] = "wmain"
  /\ \E how \in Asked :
       /\ how.asks = "register"
       /\ \/ ~how.input /\ End(r, "REGISTER_INPUT_FILE_TYPE_INVALID")
          \/ /\ how.input
             /\ \/ \E code \in {"CANT_READ_REGISTER_INPUT_FILE", "REGISTER_INPUT_DATA_INVALID"} :
                     End(r, code)
                \/ ~how.output /\ End(r, "REGISTER_OUTPUT_FILE_TYPE_INVALID")
                \/ /\ how.output
                   /\ \/ \E code \in {"CANT_GENERATE_KEYS", "REGISTER_FAILED"} : End(r, code)
                      \/ Terminate(r)
                      \/ Continue(r, "CheckIn", [mem[r] EXCEPT !.mode = "register"])
  /\ UNCHANGED <<file, servers>>

StartListen(r) ==
  /\ at[r] = "wmain"
  /\ \E how \in Asked :
       /\ how.asks = "listen"
       /\ \/ ~how.input /\ End(r, "LISTEN_INPUT_FILE_TYPE_INVALID")
          \/ how.input /\ Continue(r, "LoadInput", [mem[r] EXCEPT !.mode = "listen"])
  /\ UNCHANGED <<file, servers>>

-----------------------------------------------------------------------------
(* RegisterToFCM.  A request may go unanswered (before or after the server *)
(* acted on it), or be answered by something other than what was asked.    *)

(* No answer, one that does not parse and an id of zero are the same here. *)
CheckIn(r) ==
  /\ at[r] = "CheckIn"
  /\ \/ Continue(r, "DoGCMRegister", [mem[r] EXCEPT !.checkin = r])
     \/ End(r, "REGISTER_FAILED")
  /\ UNCHANGED <<file, servers>>

(* (A slip: that the token is empty is not asked.)                         *)
SlipTakesEmptyToken(r) ==
  /\ at[r] = "DoGCMRegister"
  /\ \E answer \in {mem[r].checkin, ErrorText, Empty} :
       Continue(r, "PostInstallations", [mem[r] EXCEPT !.sGcmToken = answer])
  /\ UNCHANGED <<file, servers>>

(* The answer is split at "=", and its second part is the token whatever   *)
(* the first one says; without a "=" there is no second part.              *)
DoGCMRegister(r) ==
  /\ at[r] = "DoGCMRegister"
  /\ \/ \E answer \in {mem[r].checkin, ErrorText} :
          Continue(r, "PostInstallations", [mem[r] EXCEPT !.sGcmToken = answer])
     \/ End(r, "REGISTER_FAILED")
     \/ Terminate(r)
  /\ UNCHANGED <<file, servers>>

PostInstallations(r) ==
  /\ at[r] = "PostInstallations"
  /\ \/ Continue(r, "PostFcmRegistrations", [mem[r] EXCEPT !.sInstallationToken = r])
     \/ End(r, "REGISTER_FAILED")
     \/ Terminate(r)
  /\ UNCHANGED <<file, servers>>

(* The FCM server makes a token for an endpoint the GCM server knows. *)
FcmAccepts(t) == t.gcm \in Ids

(* (A slip: what an answer without a token says is taken for the token.)   *)
SlipTakesAnyAnswer(r) ==
  /\ at[r] = "PostFcmRegistrations"
  /\ LET asked == [gcm |-> mem[r].sGcmToken, key |-> r]
     IN /\ subscriptions' = subscriptions \cup {t \in {asked} : FcmAccepts(t)}
        /\ Continue(r, "OpenOutput",
             [mem[r] EXCEPT !.data = [acg |-> mem[r].checkin, ece |-> r, sToken |-> asked]])
  /\ UNCHANGED <<file, logins, closed>>

PostFcmRegistrations(r) ==
  /\ at[r] = "PostFcmRegistrations"
  /\ LET asked == [gcm |-> mem[r].sGcmToken, key |-> r]
     IN \/ /\ FcmAccepts(asked)
           /\ subscriptions' = subscriptions \cup {asked}
           /\ \/ Continue(r, "OpenOutput",
                   [mem[r] EXCEPT !.data = [acg |-> mem[r].checkin, ece |-> r, sToken |-> asked]])
              \/ End(r, "REGISTER_FAILED")
        \/ /\ UNCHANGED subscriptions
           /\ End(r, "REGISTER_FAILED") \/ Terminate(r)
  /\ UNCHANGED <<file, logins, closed>>

-----------------------------------------------------------------------------
(* WriteRegisterDataToFile.  Opening the stream empties the file; what     *)
(* becomes of the write is not asked.                                      *)

OpenOutput(r) ==
  /\ at[r] = "OpenOutput"
  /\ \/ /\ End(r, "CANT_WRITE_REGISTER_DATA")
        /\ UNCHANGED file
     \/ /\ Continue(r, "WriteOutput", mem[r])
        /\ file' = [kind |-> "not JSON", data |-> NoData]
  /\ UNCHANGED servers

WriteOutput(r) ==
  /\ at[r] = "WriteOutput"
  /\ file' \in {file, Saved(mem[r].data)}
  /\ End(r, "SUCCESS")
  /\ UNCHANGED servers

-----------------------------------------------------------------------------
(* The listen path.  wmain reads the file; the constructor of CFCMClient   *)
(* throws on keys of a wrong length, and so does a field of a wrong type;  *)
(* ConnectToServer begins by reading the id's digits.                      *)

LoadInput(r) ==
  /\ at[r] = "LoadInput"
  /\ \/ /\ file.kind \in {"absent", "not JSON"}
        /\ End(r, "CANT_READ_LISTEN_INPUT_FILE")
     \/ /\ file.kind = "other JSON"
        /\ End(r, "LISTEN_INPUT_DATA_INVALID")
     \/ /\ file.kind \in {"wrong type", "wrong key"}
        /\ Terminate(r)
     \/ /\ file.kind = "wrong id"
        /\ End(r, "CANT_CONNECT_FCM_SERVER")
     \/ /\ file.kind = "registration"
        /\ Continue(r, "ListenCheckIn", [mem[r] EXCEPT !.data = file.data])
  /\ UNCHANGED <<file, servers>>

(* A check-in that fails is logged, and no more. *)
ListenCheckIn(r) ==
  /\ at[r] = "ListenCheckIn"
  /\ Continue(r, "TcpConnect", mem[r])
  /\ UNCHANGED <<file, servers>>

TcpConnect(r) ==
  /\ at[r] = "TcpConnect"
  /\ \/ Continue(r, "SslConnect", [mem[r] EXCEPT !.m_eStatus = "CONNECTED"])
     \/ End(r, "CANT_CONNECT_FCM_SERVER")
  /\ UNCHANGED <<file, servers>>

(* (A slip: the result is whether the TCP client is connected.)            *)
SlipAsksStatus(r) ==
  /\ at[r] = "SslConnect"
  /\ \E ssl \in {"secure", "failed"} :
       Continue(r, "SendLoginBuffer", [mem[r] EXCEPT !.m_pSSL = ssl])
  /\ UNCHANGED <<file, servers>>

(* When the handshake fails the TCP client stays CONNECTED. *)
SslConnect(r) ==
  /\ at[r] = "SslConnect"
  /\ \/ Continue(r, "SendLoginBuffer", [mem[r] EXCEPT !.m_pSSL = "secure"])
     \/ /\ at'   = [at EXCEPT ![r] = "ended"]
        /\ exit' = [exit EXCEPT ![r] = "CANT_CONNECT_FCM_SERVER"]
        /\ mem'  = [mem EXCEPT ![r].m_pSSL = "failed"]
  /\ UNCHANGED <<file, servers>>

(* (A slip: a connection that closes during the login counts as one that   *)
(* was not made.)                                                          *)
SlipFailsLate(r) ==
  /\ at[r] = "SendLoginBuffer"
  /\ logins' = logins \cup {<<r, mem[r].data.acg>>}
  /\ IF r \in closed THEN End(r, "CANT_CONNECT_FCM_SERVER")
                     ELSE Continue(r, "StartReceiver", mem[r])
  /\ UNCHANGED <<file, subscriptions, closed>>

(* Send does nothing unless CONNECTED.  That the write failed is not       *)
(* noticed; StartReceiver throws unless CONNECTED.                         *)
SendLoginBuffer(r) ==
  /\ at[r] = "SendLoginBuffer"
  /\ IF mem[r].m_eStatus = "CONNECTED"
       THEN /\ Continue(r, "StartReceiver", mem[r])
            /\ \/ UNCHANGED logins
               \/ /\ r \notin closed
                  /\ logins' = logins \cup {<<r, mem[r].data.acg>>}
       ELSE /\ End(r, "ERROR_WHILE_LISTENING")
            /\ UNCHANGED logins
  /\ UNCHANGED <<file, subscriptions, closed>>

(* The server writes to those who logged in; parsing what it writes, or    *)
(* handling it, may throw.                                                 *)
ReceiverThrows(r) ==
  /\ at[r] = "StartReceiver"
  /\ \E id \in Ids : <<r, id>> \in logins
  /\ End(r, "ERROR_WHILE_LISTENING")
  /\ UNCHANGED <<file, servers>>

(* Receive returns 0 when the server has closed, and the loop goes on. *)
ReceivesNothing(r) ==
  /\ at[r] = "StartReceiver"
  /\ r \in closed
  /\ UNCHANGED vars

-----------------------------------------------------------------------------

ServerCloses(r) ==
  /\ at[r] \in OnlineSteps
  /\ r \notin closed
  /\ closed' = closed \cup {r}
  /\ UNCHANGED <<at, exit, mem, file, subscriptions, logins>>

UserKills(r) ==
  /\ at[r] \notin {"wmain", "ended"}
  /\ End(r, "killed")
  /\ UNCHANGED <<file, servers>>

Finished ==
  /\ \A r \in Runs : at[r] = "ended"
  /\ UNCHANGED vars

RegisterNext(r) ==
  \/ StartRegister(r) \/ CheckIn(r) \/ DoGCMRegister(r) \/ PostInstallations(r)
  \/ PostFcmRegistrations(r) \/ OpenOutput(r) \/ WriteOutput(r)

ListenNext(r) ==
  \/ StartListen(r) \/ LoadInput(r) \/ ListenCheckIn(r) \/ TcpConnect(r)
  \/ SslConnect(r) \/ SendLoginBuffer(r) \/ ReceiverThrows(r) \/ ReceivesNothing(r)

Next ==
  \/ \E r \in Runs : \/ StartInfo(r) \/ RegisterNext(r) \/ ListenNext(r)
                     \/ ServerCloses(r) \/ UserKills(r)
  \/ Finished

Spec == Init /\ [][Next]_vars

-----------------------------------------------------------------------------

(* Types, and what a run holds by the time it makes a request: no request  *)
(* carries an empty token.                                                 *)
TypeOK ==
  /\ at \in [Runs -> Steps]
  /\ exit \in [Runs -> ExitCode \cup {"running", "terminated", "killed"}]
  /\ mem \in [Runs -> [mode : {"none", "register", "listen"},
                       checkin : Ids \cup {Empty}, sGcmToken : GcmStrings,
                       sInstallationToken : Runs \cup {Empty},
                       data : FCM_REGISTER_DATA_RETURN,
                       m_eStatus : {"DISCONNECTED", "CONNECTED"},
                       m_pSSL : {"none", "secure", "failed"}]]
  /\ file \in [kind : FileKinds, data : FCM_REGISTER_DATA_RETURN]
  /\ subscriptions \subseteq FcmTokens
  /\ logins \subseteq Runs \X Ids
  /\ closed \subseteq Runs
  /\ \A r \in Runs :
       /\ at[r] = "DoGCMRegister" => mem[r].checkin # Empty
       /\ at[r] = "PostInstallations" => mem[r].sGcmToken # Empty
       /\ at[r] = "PostFcmRegistrations" => mem[r].sInstallationToken # Empty

(* The FCM server sends to the device, and encrypts for the key, that are  *)
(* saved with the token.                                                   *)
Reachable(d) ==
  /\ d.sToken \in subscriptions
  /\ d.sToken = [gcm |-> d.acg, key |-> d.ece]

(* Whatever runs there were, and wherever they were killed: a registration *)
(* in the file is one that messages can reach, and so is the one a client  *)
(* listens with, though another run may have replaced the file meanwhile.  *)
(* (RegisterToFCM puts together what five answers said, an error text      *)
(* taken for a GCM token possibly among them.)                             *)
RegistrationIsReachable ==
  /\ file.kind = "registration" => Reachable(file.data)
  /\ \A r \in Runs : at[r] \in ConnectSteps \cup OnlineSteps => Reachable(mem[r].data)

(* What an exit code says: after CANT_WRITE_REGISTER_DATA, or a failure    *)
(* before it, nothing of the run is in the file; SUCCESS of a register run *)
(* means there is a token for its keys (that it is in the file is          *)
(* SuccessMeansSaved); CANT_CONNECT_FCM_SERVER that the server saw no      *)
(* login, ERROR_WHILE_LISTENING that it did; and listening has no success. *)
(* A run without an exit code, because of an exception, did neither.       *)
ExitTellsHowFar ==
  \A r \in Runs :
    /\ exit[r] \in RegisterExits \cup {"terminated"} => file.data.ece # r
    /\ exit[r] = "SUCCESS" /\ mem[r].mode = "register" =>
         [gcm |-> r, key |-> r] \in subscriptions
    /\ exit[r] \in {"CANT_CONNECT_FCM_SERVER", "terminated"} =>
         \A id \in Ids : <<r, id>> \notin logins
    /\ exit[r] = "ERROR_WHILE_LISTENING" => \E id \in Ids : <<r, id>> \in logins
    /\ exit[r] = "SUCCESS" => mem[r].mode # "listen"

(* What the exit codes promise of the file: "0: Success" and "9: Can't     *)
(* write register data" (readme.md).  A register run that ends with        *)
(* SUCCESS has saved its registration, which only another run that has one *)
(* to save may have replaced since.  The code does not keep this: whether  *)
(* the write, or closing the file, failed is not asked.                    *)
SuccessMeansSaved ==
  \A r \in Runs :
    exit[r] = "SUCCESS" /\ mem[r].mode = "register" =>
      \/ file = Saved(mem[r].data)
      \/ \E q \in Runs \ {r} : mem[q].mode = "register" /\ mem[q].data # NoData

(* Send and Receive ask only whether the TCP client is CONNECTED, which it *)
(* also is after a failed handshake: still nothing is written to or read   *)
(* from a connection that is not secured.                                  *)
SecureBeforeUse ==
  \A r \in Runs :
    at[r] \in OnlineSteps => mem[r].m_eStatus = "CONNECTED" /\ mem[r].m_pSSL = "secure"

(* An old registration is given up only for a new one: the file is touched *)
(* only by a run for whose keys the FCM server has made a token.           *)
OldRegistrationKept ==
  [][file' # file =>
       \E r \in Runs : /\ at[r] # at'[r]
                       /\ [gcm |-> r, key |-> r] \in subscriptions]_vars

(* An account, seen through the servers, the file and the runs. *)
Made   == {a \in Ids : [gcm |-> a, key |-> a] \in subscriptions}
Fresh  == {r \in Runs : at[r] \in {"OpenOutput", "WriteOutput"}}
InFile == IF file.kind = "registration" THEN file.data.ece ELSE Empty
Taken  == {a \in Ids : \E r \in Runs : mem[r].mode = "listen" /\ mem[r].data.acg = a}
Online == {a \in Ids : \E r \in Runs : <<r, a>> \in logins}

AbstractRegistration == INSTANCE Registration WITH
  Accounts <- Ids, None <- Empty,
  made <- Made, fresh <- Fresh, saved <- InFile, taken <- Taken, online <- Online

(* Runs of the program in one folder, whatever becomes of them, do to it   *)
(* what Registration allows: an account is saved once at most, and only if *)
(* the server made its token; the one before it is given up only by a run  *)
(* that has a new one; and whoever logs in, be its check-in refused or the *)
(* file replaced in the meantime, does so with an account that was saved.  *)
ImplementsRegistration == AbstractRegistration!Spec
=============================================================================

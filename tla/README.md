# FCMReceiverCpp in TLA+

FCMReceiverCpp registers a fake Chrome browser with Firebase Cloud Messaging
and then listens for push messages on one TLS connection to Google's MCS server.
This directory holds its specification: modules translated from the C++ sources
(`src/FCMReceiverCpp/`), small instances for TLC, and proofs for TLAPS.
`PROJECT.json` maps every definition to the lines it stands for.

    tlc -config MCMcsReceiver.cfg MCMcsReceiver.tla     # and so for each run
    tlapm McsReceiver_proofs.tla

## The system

One process, started by hand, with one main thread. It either registers (four
HTTP requests, then a JSON file) or listens. Listening means: read the JSON file
and `persistent_id.txt`, check in, connect, send a login request, and then loop
for ever over `Receive`, a parser, and the handlers. A handler may write the id
file, print a message, send a ping, or start a detached thread that will send one.

| part | state | operations | modelled in |
|---|---|---|---|
| MCS frame receiver (`FCMClient.cpp` 143-316, 440) | the byte buffer, `m_nState`, tag, size, `m_nSizePacketSoFar` | `StartReceiver`, `ProcessData`, `Got...` | `McsReceiver`, `McsWire`, abstractly `FrameDelivery` |
| Varints (`UtilFunction.h`) | none | `_EncodeVarint32`, `_DecodeVarint32` | `Varint` |
| Message delivery (`FCMClient.cpp` 74-115, 318-418; `FCMReceiverCpp.cpp` 101-127, 323-370) | `m_PersistentIds`, `persistent_id.txt` | login request and response, data messages, the two callbacks | `MessageDelivery`, abstractly `Mailbox`; `SharedClient`, `SharedFile` |
| Heartbeat (`FCMClient.cpp` 117-141, 420-438) | sleeping threads, each with a captured number | login response, acknowledgement, `SendHeartbeat` | `Heartbeat` |
| The program (`FCMReceiverCpp.cpp` 161-376, `FCMRegister.cpp`, `FCMClient.cpp` 38-115) | exit code; keys and tokens of a run; the registration file | the register path with its four requests, the listen path up to the login | `Program`, abstractly `Registration` |
| TLS transport (`SecureSocket/`) | socket, SSL object, `m_eStatus` | `Connect`, `Send`, `Receive`, `Disconnect` | connecting in `Program`; the results of `Send` and `Receive` where they are used |
| Web push records (`Http_ece/`) | none | the record loops of scheme aesgcm | `EceRecords` |
| Command line (`ArgumentParser.cpp`; `FCMReceiverCpp.cpp` 163-262, 299-308) | how often each option was set, its value, the positional arguments | `Parse`, wmain's checks | `CommandLine` |
| Emitter (`Emitter.cpp`) | callback lists | `On`, `Once`, `Emit` | the two callbacks of a message, in `MessageDelivery` |

Not modelled, and not going to be: generated protobuf code, `json.hpp`, OpenSSL,
curl, Base64 and string helpers, the logger (its text only), cryptography, and
library code that nothing calls (`params.c`, `base64url.c`, scheme aes128gcm, the
server classes of `SecureSocket`). `encrypt.c` is not called either, but is what
`EceRecords` takes a sender to do.

What is hard here: the parser sees the stream cut anywhere and throws its whole
buffer away after each frame; the id list is emptied in memory while the file
still holds it, and the file is overwritten by what was collected since; the
process may be killed anywhere and the server redelivers; two processes may share
both files; the heartbeat lives only in a chain of detached threads; a message may
arrive cut off, and the buffer for it is sized before anything is known of it; the
argument parser moves its index from inside the functions it calls. The repository has no tests. The full list
is under "hazards" in `PROJECT.json`.

## The modules

**`McsReceiver`** - one connection. `wire` is all the server writes: bytes, with a
layout beside them that only properties look at. `m_BytesReadFromServer` grows at
its end and shrinks at its front, so it is two positions, `consumed` and
`received`. One action is one iteration of the loop of `StartReceiver`:
`ReadAndProcess` when `Receive` gets all it asked for, with the calls of
`ProcessData` nested as in the code (a version byte is followed by the tag and the
size field in the same call, an empty frame by its handler), and `ReadShort` when
the connection is gone. `ServerSends` makes any number of bytes available,
`ConnectionCloses` may drop those not read. A body's size is a `uint32_t` that passes through an
int (`AsInt`): from half its range on it is negative, as a `size_t` more than a vector can hold, and the loop's buffer
cannot be made (`BufferThrows`). Smaller buffers are taken to be allocated. Throwing (a wrong version, a handler, that
buffer) ends it. What handlers do is left to the next two modules; here a handler call is
an entry of `handed`: the tag, and the bytes it was given.

**`FrameDelivery`** - the same promise without a buffer or parser: a frame that has
been sent in full may be handed over, in order, unless no int holds its size: there the listening ends. `McsReceiver` implements it with
the identity mapping of the shared variables.

**`MessageDelivery`** - many sessions. The server keeps messages until a login
reports their ids (`acked`) and sends the others in order. Client actions are the
handlers; `WritePersistentIDToFile` and `EmitMessage` are part of the handler's
action, in its order. The list and the file are sets of ids; an empty file reads
back as one empty id, which `SendLoginBuffer` filters out. `KilledInHandler` splits the
handler where a kill matters: after the file was emptied, and between recording
and showing. A message is "good", "undecryptable" (recorded, not shown), "malformed"
(returns before recording) or "poison" (throws, program over). The server side is
external: it is what the client relies on.

**`Mailbox`** - what all that is for: a message that waits is shown or settled without being
shown, perhaps again; the server forgets only settled ones; a forgotten one is not dealt with
again. No sessions, file or list. In the mapping `settled` is what the file or the list names,
what the server forgot, and what was shown or given up (`Settled`), so a failed write or a second
delivery is a step that changes nothing.

**`Heartbeat`** - one session with a clock. A `SendHeartbeat` call is an entry of `calls`:
the main thread's, which keeps it from reading, or a detached thread's, asleep and
then writing. Starting and ending `SSL_write` are two steps, so writers can overlap in
the model if the code lets them. Frames and calls have ages; the clock does not
tick past `MaxDelay` for a frame and `MaxLate` for a thread.

**`SharedClient`** - the client of `MessageDelivery` for the case that somebody else writes the file,
too: opening it, which empties it (`OpenFile`), and the rest of the handler (`WriteFile`) are two steps, with
a kill between or after (`KilledWhileOpen`). What the other process wrote in between is overlaid, not replaced
(`Overlaid`): some of its ids stay behind the end of the new text, and where the two meet an id is garbled.

**`SharedFile`** - two registrations listened to from one folder. Two instances of
`SharedClient`, each with an account, queue and session of its own, over one
`persistent_id.txt`; every handler writes what its own process collected.

**`Program`** - any number of runs of the program in one folder, sharing the registration
file and the servers. An action is what a run does between two requests, file accesses or
connection steps, so two of them may interleave anywhere and be killed anywhere. `at` is
the function a run is in, `mem` what it holds, `exit` its exit code by the name in `ExitCode`,
or "terminated" for an exception that nothing catches. An HTTP answer is one of the
outcomes the code tells apart; a request may fail after the server acted on it. A GCM token is
named by the id it was issued to and an FCM token is the endpoint and key asked for, so that a
registration whose parts do not belong together can be told. `FcmAccepts` is the one
assumption about a server: no FCM token for an endpoint GCM never issued. What runs are asked
to do is the constant `Asked`. That the result of writing the registration is not asked is `WriteOutput`: the file may
stay empty and the exit code is SUCCESS all the same.

**`Registration`** - the promise of the folder: of the accounts a server made, one at most is
saved, given up only by someone who has a new one, and whoever logs in does so with one that
was saved. `Program` implements it: an account is made when the FCM server holds its token,
fresh while its run is at the output file, saved when the file holds it whole.

**`CommandLine`** - `Parse` as a function of an argument list, with the state it keeps (index,
`wasSet`, values, positional arguments, error) threaded through `ParseLongCommand` and
`ParseShortCommand`, and what `wmain` makes of the result (`Asks`). Its two loops, over arguments and over
letters, are recursive functions; `ParseNext` and `ReadLetter` are one round of each. `ReadAsWritten` and
`AskedAnotherWay` compare it with a reading that keeps no state: which arguments name which
options, which are values of the one before them, which is the first that is wrong. `MCProgram`
puts it in front of `Program`: `Asked` is `Askings`, all that `wmain` may make of a command line. A value behind "=" that
is empty or itself ends in "=" is refused as missing, because the last character is compared with "=".

**`EceRecords`** - one message, encrypted record by record as `encrypt.c` does, perhaps damaged
on the way (`Arrive`: cut off anywhere, a record left out, two exchanged), and decrypted by
the loop of `decrypt.c` into the buffer `HandleDataMessageStanzaTag` allocates. Bytes are pairs of
a record and a position in it; encryption is ideal (a record opens only at its own
number and whole), padding and the trailing empty record are as in the code. A sender's record
size may differ from the client's, which always uses its own. Key import and derivation succeed.

**`Varint`** and **`McsWire`** - arithmetic of size fields with the digit base as a
parameter; what a server sends (a version and frames, `Streams`), the wire that makes (`WireOf`, with its
layout), and what a well-formed wire is.

The modules do not share state: `MessageDelivery` takes over from `McsReceiver` that
frames reach handlers whole, once and in order, and lets whole frames travel.

## The runs

| run | what it asks | expected |
|---|---|---|
| `receiver` | every frame whole, once, in order; no spinning; no waiting for the next frame; the abstract delivery implemented; an arrived frame is handed over | holds |
| `delivery` | shown at most once while writes succeed; forgotten only if shown; ids leave the file only when the server knows them; good messages are shown in the end, also among others that return early or throw; the abstract mailbox implemented | holds |
| `redelivery` | "server will send only new messages" (`FCMReceiverCpp.cpp` 323-324) | violated |
| `heartbeat` | one ping at a time, one writer, never late, nothing reported that was not received | holds |
| `shared_file` | two listeners over one id file: nothing forgotten that was not shown | holds |
| `overwritten_ids` | "server will send only new messages", for two listeners without any fault but a restart | violated |
| `program` | a saved registration is one messages can reach, an old one is given up only for a new one, exit codes tell how far a run got, no unsecured connection is used; the abstract registration implemented; every command line is read as written, and neither order nor spelling of options matters, and the runs are asked exactly what the command lines ask | holds |
| `ece_records` | only whole messages are shown, an intact one always is, no write beyond the buffer unless what arrived ends inside a tag | holds |
| `exit_codes` | a register run that ends with "0: Success" has saved its registration (`readme.md` 99, 108) | violated |
| `short_end` | "large enough to hold the full plaintext" (`decrypt.c` 93) | violated |
| `failed_ping` | a failed send is logged as failed (`FCMClient.cpp` 137) | violated |
| `ping_report` | a ping reports the client's count (`proto/mcs.proto` 17-18) | violated |

*Bounds.* `receiver`: digits of base 2 and sizes of 5 bits, so bodies of 0, 1, 2, 4, 8 and 16 bytes have size
fields of 1, 1, 2, 3, 4 and 5 bytes, as those of a `uint32_t` have in digits of 7 bits, and no int holds 16; the parser's state after a frame does not depend on
the frame, so two frames show every neighbourhood. `delivery`: three messages (`MaxQueued`) of five, in any order: two good ones, so that one id
can push another out, and one of each other kind; two
troubles (kills, breaks, rejections) and one failed write; stopping a client that can
hear nothing more costs no trouble. `heartbeat`: sleep 3, delay 2, lateness 1,
timeout 8, which is the equality case of the round-trip assumption; with a timeout of
7 `KeptAlive` fails. Four pings, two data messages, one fault. `shared_file`: two messages for one account and one for
the other, two troubles, one failed write: enough for either client to push out or overlay what the
other recorded, before or after it was reported, and to write again. `program`: three runs, each free to
register or listen, over every file there may be at first: two that write and one that
reads; runs are interchangeable (symmetry). Command lines have up to three of some thirty arguments:
an option, its value and what follows it, or an option three times. `ece_records`: a tag of 3 bytes, one byte of
padding length (so at most 2 bytes of padding in a record), record sizes 1 to 5 and 7, text up to 7 and
padding up to 4 bytes: up to four records, with the last empty, full and in between.

*Deadlock.* It is not checked in `delivery` and `redelivery` (at the end the
client waits in `Receive` for ever, as the program does), `shared_file` and
`overwritten_ids` (the same), in the heartbeat runs (the server's answers are bounded) and in
`ece_records` and `short_end` (a message is encrypted and decrypted once). In `receiver`,
`program` and `exit_codes` it is: every run ends, or goes on reading.

*Fairness.* `receiver`: only the loop itself, reading or throwing. `delivery`: the loop handles what
arrives; the server answers logins and sends; and whoever runs the program starts it
again, both when it ended and when it is deaf. The last is an assumption about the
user, made explicit as `UserStopsDeaf`, because the program does not end by itself:
`Receive` returns 0, never -1, after the peer closed (`TCPSSLClient.cpp` 228-241) and the loop
goes round. `Heartbeat` needs no fairness: its clock waits for what is due. `Program` has none: a request
has no timeout, so nothing in the code makes a run end.

*Findings.* Messages with a salt or key of a wrong length are delivered in every session;
two listeners in one folder overwrite each other's ids; a failed ping is logged as sent,
because `Send` returns a bool that is compared with -1; a registration that could not be written ends
with code 0; pings echo the server's own count; the
plaintext buffer is too short for a ciphertext that ends inside a tag. Details in
`PROJECT.json`.

## What is proved

`McsReceiver_proofs`, from `VarintAssumption` and `StreamsAssumption` (a body has at most as many bytes as a
`uint32_t` can count), for any frames, any number of them: every wire is well-formed (`WiresAreWellFormed`: frames end to
end, size fields without superfluous zero digits), because decoding inverts encoding, by induction over the
value (`DecodeInvertsEncode`), and a frame more keeps a wire well-formed; no size field has a sixth byte, whose shift
would be undefined (`NoSixthSizeByte`). From that: `TypeOK`, `FramesIntact`, `NeverSpins`, `NeverWaitsForNextFrame`, and
that every step implements `FrameDelivery`, for bodies of any size: one that no int holds makes the receiver throw before it
reads any of it, which `FrameDelivery` allows for such frames only. None of these is inductive. The invariant
`IInv` adds where the parser stands in the frame it is reading, by state (`AtVersion`,
`AtTag`, `AtSize`, `AtBody`): that is what shows that reading two bytes more after an
incomplete size field stays inside the frame, because a size field of several digits
announces a body of at least two bytes.

`Heartbeat_proofs`, from `HeartbeatAssumption` and `RoundTripAssumption` (sleep, two delays and the
lateness fit into the server's timeout), for all values of them and sessions of any length:
`TypeOK`, `OneHeartbeatAtATime`, `OneWriter`, `KeptAlive`, `NeverOverreports`. The invariant `HInv` says that there
is one ping, answer or call (`Alone`, `Present`), bounds the server's clock by where it is
(`Punctual`), and counts the packets still behind each number on its way (`Counted`).

`MessageDelivery_proofs`, from `DeliveryAssumption`, for any set of messages of any kinds and any bounds: `TypeOK`, `ShownOnRecord`,
`ShownAtMostOnce`, `ForgottenWasShown`, `FileForgetsOnlyAcked`. `DInv` adds what the server has queued
(`QueuedOnce`), how the list in memory and the file differ in each phase of a session
(`ListAndFile`), that nothing in the stream is acknowledged (`StreamFresh`), and what became of
each acknowledged message (`Explained`).

`EceRecords_proofs`, from `EceAssumption`, for messages, records, padding and tags of any length:
`TypeOK`, `FitsIfTagged` and `EncryptionFits`. The client's buffer is sized by taking a tag off for each record, so `FInv` keeps account
of them: each record decrypted left its tag behind, and what remains still has one for
each record of it. The sender's buffer is sized by counting records in advance, so `EInv` says that before
each round exactly the room is left that the rest of text and padding needs (`Exact`); that one more record keeps
it so is arithmetic of quotients (`OneRecordMore`).

The same module proves `OnlyWholeMessages` and `IntactIsDecrypted`. What was shown is put together by a loop
over records, which seems to ask for an induction over them. `WInv` avoids it: it says that there is a
function that gives where the text was cut (`Cuts`), to which a step of encryption adds one cut, and that what was decrypted is
the text up to the cut behind the last record opened. A record opens only at its place, so the client
has been in step with the sender (`InStep`); the short record that must end a ciphertext is then the sender's
last, unless the record sizes differ. `IInv` adds where each byte of a record lies in what was sent (`Laid`) and
that its last record is short (`Sealed`): the client then finds each record where it looks for it (`NextOpens`).

`SharedFile_proofs`, from `AccountsAssumption`, for any messages of either account: `TypeOK` and
`ForgottenWasShown` for both. The proof takes from `MessageDelivery_proofs` what does not
depend on the file being the client's own: a message in the list, in the file or acknowledged is explained
by having been shown, lost to a kill or not shown for its kind (`StepIsHonest`, and `SharedStepIsHonest` for the
client whose opening and writing are two steps). A step of one
account keeps this for the other because all it does to the file is to take ids out of it
or put in its own, which the other's explanations do not name; overlaying does no more.

`Program_proofs`, from `RunsAssumption`, for any set of runs: `TypeOK`, `RegistrationIsReachable`, `ExitTellsHowFar`,
`SecureBeforeUse`, `OldRegistrationKept`. `PInv` says what a run holds by where it is (`Registering`, `Listening`),
what is true of one that ended (`Ending`), and that the file names a run only if it
ended well (`FileKnown`); a step of one run leaves these true of the others because the servers
only ever learn (`Undisturbed`).

`CommandLine_proofs`, from `NoValueAssumption`, for command lines of any words and any number of arguments:
`ReadAsWritten` and `AskedAnotherWay`; hence `ParseReadsAsWritten`,
`SpellingAndOrderDoNotMatter` and `AskingsAreThoseOfLines` for the lists of the run. The rounds of `Parse` have an invariant of
their own (`Between`): it is stuck at the first mistake (`Stuck`), or it is at an argument that is no value and knows what the
arguments before say (`Stands`, `Knows`), which is where moving the index from within a function is accounted
for. A reversed list names each option as often, because one counts the same over pieces in any order
(`SameCount`, `ReverseFacts`). `AskingsExact` gives a command line for each thing asked.

`Induction` is what the last and the first of these share: induction over the numbers, from the library's
theorem on least elements, with the numbers that have a property for the property; and that a definition by
recursion has a value (`Recursion`, `Iteration`).

Three refinements, each step by step: `ReceiverImplementsDelivery` (`McsReceiver` implements `FrameDelivery`),
`MailboxImplemented` (`MessageDelivery` implements `Mailbox`, from `DInv`), `RegistrationImplemented`
(`Program` implements `Registration`, from `PInv`, for any `Asked`).

## What is only model-checked

Liveness (`ArrivedFrameIsHanded`, `GoodMessageShown`): out of the prover's reach.

## Not modelled

Most of the repository's lines are vendored headers (protobuf, OpenSSL, curl),
`json.hpp` and what protoc generated; the program's own code is about two thousand
lines, and the modules stand for most of it. Of that code the following is left out:

- Emitter: `wmain` registers one callback for each event before the first event, and what they
  call neither throws nor registers, so `Emit` is what `MessageDelivery` has it be. Several callbacks
  for an event never occur; `RemoveCallback` is never called.
- TLS transport: `Disconnect` and the destructors are not reached (every path ends in
  `exit()`); nobody sets a timeout. OpenSSL's own state under a reader and a writer at once is outside the sources.
- Web push: scheme aes128gcm, key import and derivation, `params.c`, `base64url.c`: not used, or
  cryptography. The server classes of `SecureSocket` are not used.
- Help and version texts, the log and its folder, Base64 and string helpers: wording and conversions without state.
- That `readme.md` knows an exit code 14 for an error while listening, and the program does not exit once
  the server has closed (`ReceivesNothing` in `Program`), has no run of its own.

## What is left

Larger instances of `delivery` and `program`, which the proofs make less pressing. Every safety property of a
passing run is proved. Allocations of less than 2^31 bytes are taken to succeed; that one fails
earlier would end the listening in the same way, at a frame an int can hold.

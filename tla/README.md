# Secure-Cloud-Storage in TLA+

Specifications of the client and server of Secure-Cloud-Storage, the TLC
configurations that check them on small instances, and theorems about them that
TLAPS checks for every value of the constants. Paths are those of the
repository; `Client.cpp` is `src/modules/Client.cpp`, and so on.

## 1. The system

One server process accepts connections and starts a thread for each. A client
process logs one user in, shows a menu and runs one operation at a time over its
connection. Every user has a directory `../data/<user>` on the server; the
client reads and writes `../files`.

| Component | State | Operations | Talks to |
|---|---|---|---|
| `Client` (Client.cpp) | user name, `m_counter`, `m_session_key`, socket, long-term key; in an operation: the file, its size, the next chunk | `run`, `authenticationRequest`, `incrementCounter`, list, download, upload, rename, delete, logout | the server thread by messages; `../files`; for delete also `../data/<user>` |
| `Server` thread (Server.cpp) | user name, `m_counter`, `m_session_key`, socket; in a handler: the file, its size, the next chunk, the `FileManager` | `run`, `authenticationRequest`, `incrementCounter`, six handlers | the client by messages; `../data/<user>`, shared with the other threads of the same user |
| `FileManager` | mode, stream, size, number of chunks, size of the last chunk | open, read and write a chunk, close in the destructor; presence, listing | the file system |
| `SocketManager` | the descriptors | `send`, `receive` (with `MSG_WAITALL`), `accept`; closes in its destructor, which nobody calls | TCP |
| Messages (`Generic`, ...) | the fields of one message | constructors, serialize, deserialize, encrypt, decrypt | - |
| `ServerMain`, `ClientMain` | the listening socket, the thread pool | accept loop, a thread per connection, handlers of SIGINT and SIGPIPE | all threads |
| `CertificateManager` | a singleton with the X509 store | check a certificate | used by every handshake |
| `AesGcm`, `DiffieHellman`, `DigitalSignatureManager`, `Hash` | none between calls | wrappers of OpenSSL | - |

An operation is a fixed exchange of messages M1, M2, ...; both sides count every
message they send or take in `m_counter`, which is authenticated with the
message, and each rejects a message whose counter is not its own. A counter at
`MAX_COUNTER_VALUE` is not incremented: `incrementCounter` runs the whole
handshake again, in the middle of whatever operation is under way, which gives a
new key and sets the counter to 0.

What is hard about it:

* **Two programs that must count alike.** The protocol has no resynchronisation.
  `incrementCounter` is called at some thirty places, before or after the tests
  that return early; if one side misses a call on one path, all later messages
  are rejected. Re-authentication starts on each side on that side's own count,
  while the chunks of an upload are still in flight.
* **Answers that are not sent.** A handler that returns early sends nothing; the
  client cannot tell and waits.
* **Several sessions on one directory.** What a handler has looked up may be
  gone when it acts, in a delete even between two messages.
* **Partial work.** An upload is interrupted between two chunks, acknowledged
  before it is flushed, or goes on although its file could not be opened.
* **Ends of processes.** The end of the stream is reported as -2 and tested for
  as -1; sockets are never closed; a signal handler throws.

What makes each component correct: the client and the server thread never
misread each other, never wait for each other, and tell the user the truth; the
storage holds whole files, or prefixes of interrupted uploads, and loses only
what a user removed; threads end when their client is gone. `PROJECT.json` lists
the hazards line by line with the properties that watch them.

## 2. The modules

| Module | What it is |
|---|---|
| `Session` | one client and the server thread that serves it, with the channel between them, the storage and the client's directory |
| `CloudStorage` | what a session promises its user: an atomic store |
| `SessionRefinement` | `Session` implements `CloudStorage`: the refinement mapping |
| `Dialogue` | what the client, the server thread and the messages between them have to do with each other at any moment: the inductive invariant of a session |
| `Numbering` | a session with a record of the numbers its messages have carried under the present key |
| `SessionProofs` | the types of `Session` and the file of an upload, proved |
| `DialogueProofs` | the invariant of `Dialogue`, proved, with `NothingRejected` and `InStep` |
| `OperationProofs` | what a step of each side does to counters, files and messages; `NumberedInTurn`, `NoMutualWait` and what a success means, proved |
| `RefinementProofs` | every step of a session is one of `CloudStorage`, or shows nothing, proved |
| `Transfer` | the chunks of one upload or download, byte by byte |
| `TransferProofs` | what `initFileInfo` computes and how the receiver cuts the stream, for every size, proved |
| `Storage` | several sessions of one user on one directory, call by call of the file system |
| `StorageProofs` | theorems about `Storage`, for any number of sessions |
| `ServerProcess` | the accept loop, the threads, the table of descriptors and the singleton they share |
| `ServerProcessProofs` | theorems about `ServerProcess`, for any number of connections and any table |
| `Wire` | the layout of every message and the lengths used at each call |
| `WireProofs` | the invariants of `Wire`, proved for all lengths |
| `MC_Session`, `MC_SessionCrash`, `MC_Transfer`, `MC_Storage`, `MC_ServerProcess`, `MC_Wire` | the same for TLC: names of values, sets of inputs, symmetry |

`Session` is the system; the others each look closer at what it takes as one
step or leaves out, with the rest reduced to what disturbs it: `Transfer` and
`Wire` below its messages, `Storage` below its effects on the directory,
`ServerProcess` around its threads. `CloudStorage` is above it.

### Session

**Control.** `c_pc` and `s_pc` say where each program is. A location `xM2` is
where it is about to receive, or on the other side to send, message M2 of
operation `x`. What a program does between two sends or receives is one action,
with the increment of the counter that follows; where the other program or
another session can see or disturb the middle of it, it is split: `upLook`,
`upCreate`, `upWrite`, `upClose` (the upload's file), `downOpen`, `downWrite`,
`delM4` (the file is looked for only after the confirmation).

`ClientIncrement(next)` and `ServerIncrement(next)` are `incrementCounter`
followed by the code at `next`. At the maximum, the place is saved in `c_ret` or
`s_ret`, the handshake runs, and its success continues there. Since the call is
inside the operation, a failed re-authentication leaves `run()` from anywhere,
as the exception does.

| Actions | Code |
|---|---|
| `ClientAuthM1` ... `ClientAuthM5`, `ServerUnknownUser`, `ServerAuthM1` ... `ServerAuthM5` | the two `authenticationRequest` functions |
| `ClientList` ... `ClientLogout` | the menu, the local checks, the request |
| `ClientListM2` ... `ClientOutM2` | the rest of each client operation |
| `ServerRun` | the loop of `Server::run`: receive, decrypt, compare the counter, dispatch |
| `ServerListSilent` ... `ServerOutM2` | the handlers, their silent returns included |
| `ClientExit`, `ServerExit` | a process is killed: the other side may read all that was sent, or after a reset only a prefix |
| `ClientEof`, `ServerEof` | `receive` at the end of the stream, with the callers' tests as they are |
| `ClientSigpipe`, `ServerSigpipe` | `send` on a closed connection, see below |
| `OtherSession` | another thread of the same user changes one file |

**Data.** A message is a record: its type, key, counter and body. A key is the
pair of ephemeral keys it is derived from, so that decryption succeeds exactly
under the key of the encryption. A file is the number of its chunks, or
`Absent`. The four kinds of user are what `resources/` can hold for the user
name: a matching public key, another one, a file that is no key, or nothing.

**Abstractions and their reasons.**

* Channels are unbounded and deliver whole messages in order, as TCP with
  `MSG_WAITALL` does as long as both sides agree on the lengths; `Expected` in
  `NothingRejected` is this agreement, and `Transfer` checks it for the lengths.
  A thread that sends never blocks. In the code it blocks in `send` while the
  peer does not read; the peer that is sent chunks is in its receiving loop, and
  by `NothingRejected` stays there until it has them all.
* A receiver takes only a message of the type it expects. A message of another
  type would be rejected (other lengths) and is what `NothingRejected` excludes.
* Ephemeral keys are drawn in turn from a pool of `EphPool`; keys are fresh as
  long as those in flight are.
* Encryption, signing and serialisation succeed, and honest programs compute
  verifying signatures. The only failures of the handshake are those of the
  user's keys. No adversary is modelled.
* `rename` on an existing file and `remove` on an existing file succeed.
  A `remove` that fails behaves like one of an absent file: a silent return.
* `renameRequest` is a single step: other sessions act before or after it. Its own
  races are in `Storage`. `openFile` is two, as in the code: the look, and the
  `ofstream::open` that creates the file or empties one that came in between.
* A file that an upload holds open may be removed or replaced by another session, or
  opened and emptied by one that had looked for the name before. The stream is then
  `"disturbed"`: what becomes of the file is up to `OtherSession`, which may give it any
  size at any time, and `UploadPrefix` no longer speaks of it. Which chunks of two
  uploads end up in one file is in `Storage`.
* The handler for SIGPIPE throws an exception out of a library call, which is
  undefined: the model chooses between being caught by `run()` and the end of the
  process. The buffer that is decrypted after -2 was never written: decryption
  fails.
* The client process after option 6 starts a new session on a new connection
  without closing the old one: `"left"` is the end of this session for the
  client, `"exit"` the end of the process.

### Dialogue

`Session` describes what each program does; `Dialogue` what is true in between.
Its first part, `DialogueInv`, is inductive without any assumption about users or
faults. For each side that is not gone it says which messages may be on their way
to it, with the key and the counter that it will have when it takes them
(`ClientNumbers`, `ServerNumbers`), and of which type they are, in the order of the
operation it is in (`ClientTakes`, `ServerTakes`). While both are there it also
relates their places: in the handshake (`InHandshake`) and in the operation
(`InOperation`, one case per operation). `ClientAt` and `ServerAt` are the places a
program is at or returns to after its re-authentication, so that a handshake in the
middle of an operation does not multiply the cases. The second part says what the
operations know of the files: that both mean the same one (`SameFile`), that a
stream is open (`Opened`), what has arrived (`Uploaded`, `Downloaded`), which
handler gives an answer (`Heeded`).

### Numbering

`Dialogue` compares each side's counter with the messages under way. `Numbering` adds
what an observer of the connection sees: `Spoken` is the message a step sends, `sent`
counts the messages of operations that both sides have sent since the server derived
its session key (`Rekeyed`, with M3), and `used` holds the side and the number of
every message under that key, those of the handshake included. Both are history
variables: nothing depends on them. `NumberedSpec` keeps only the count, which is all
that `NumberedInTurn` needs; `RememberedSpec` keeps both.

### CloudStorage and SessionRefinement

`CloudStorage` has no messages, keys, counters, handshakes or chunks. The user
picks an operation (`Pick`), the server decides it at one moment against the
files stored (`DecideUpload`, ...), the user is told (`End`). A server that
crashes may keep a prefix of an upload that was not decided, may lose the last
chunk of one that was acknowledged but not flushed (`atRisk`), and leaves the
user without an answer; then the user is told of a failure, and a download may
leave a prefix. Nothing else may happen to a file.

`SessionRefinement` says where these are in `Session`. An upload shows in the
store when its last chunk has arrived (`StoreView`), a download at the client
when it is complete or has failed (`LocalView`); an operation is known by the
place of the client, also while it re-authenticates (`Doing`); it is decided
when the answer that ends it is on its way, or the server is about to send it
(`Decided`). The new name of a rename is in the request first and with the
server later (`NewName`). `OperationAt` is the table of places and operations,
`Final` the set of answers on their way that end one (`Ends`) and `Outcome` what
they tell the user. The definitions at the end of the module (`Truthful`,
`KeptOut`, `LocalKnown`, `Named`, `AllRead`) are what the proof of the refinement
needs besides `Dialogue`.

### Transfer

`Session` counts a file in chunks and a message as a whole. `Transfer` looks at
one transfer below that: the size in bytes, the size the receiver is told
(`Announced`: `UploadM1` replaces what it takes for too large by 0, `DownloadM2`
casts to `uint32_t`), the division into chunks that each side computes from its
own size (`ChunksNum`, `LastChunkSize`), and the stream of bytes, which the
receiver cuts by the lengths it expects (`receive` with `MSG_WAITALL`). A byte of
a message knows which message it is part of and where, so that `Whole` says
exactly when the bytes taken together are one message with the right counter.
The sender is the client of an upload or the server of a download; it blocks
while `Capacity` bytes are on their way. M1 and M2, counters at the maximum and
interruptions are left to `Session`: `Start` is the moment when both sides know
their sizes. What the server does with bytes that an upload leaves in the stream
is `RunRejects`: `run()` takes them for a request, cannot decrypt it, and the
thread ends without closing the socket.

### Storage

The handlers of `Server.cpp` as the file system sees them: `isFilePresent`,
open, write, the size, close, `rename` and `remove` are one step each, and the
threads of up to three sessions of one user interleave between them. A name
stands for an inode (`dir`), an inode holds chunks (`data`), and a chunk is
known by the upload it belongs to, so that chunks of two uploads in one file
show. A stream writes where it stands, also into a file that was emptied or
removed (`Hole` is what nobody wrote); a read past the end sends what the buffer
held (`Stale`), since `readChunk` reports success. The last chunk may stay in
the stream's buffer until `UpClose`, which runs after the answer. `Restart`
takes the process down with everything but the directory and starts it again.
Messages are left out: an operation starts when its request is taken and ends
when its answer goes.

Two history variables state the properties: `writers` (who ever opened a file)
and `steady` (the sessions whose names no other session has changed the meaning
of since their request).

### ServerProcess

What the sessions share in the process: the backlog and the accept loop, one
thread per connection, the descriptors (`open`: whose and for what), and the
pointer `m_certificate_manager_instance`. A step is a call that takes or gives
back a descriptor, or the test or assignment in `getInstance`. A file that
cannot be opened because the table is full looks as if it were absent (`Look`):
`isFilePresent` makes no difference. `Earlier` is what past sessions have left,
which is at least a socket each. Every user has a directory of its own, so that
nothing but the table makes the sessions disturb each other; the races on one
directory are in `Storage`.

`EmplaceFails` is the refusal of a thread by the system: `std::thread` throws
`system_error`, `main` does not catch it and the process ends. The race in
`getInstance` can construct two instances, one of which is lost; no thread goes
on with half of one (`InstanceComplete`), and the store inside, whose
constructor may fail, is used by a client only.

### Wire

Every class of `src/messages` as its list of fields: name, width, byte order.
`Layout` keeps what `serialize` writes, what `deserialize` reads, the buffer and
`getMessageSize` apart, as the code does. A unit on the wire is one call of
`send`: a message, how many of its bytes are sent, and whether they are
encrypted. A receiver takes as many bytes as its call says, and reads each field
at the place where its `deserialize` looks (`ReadAt`): the value if the sender
put the same field there within the bytes sent, otherwise `Garbled`. Text that
fills its field runs on into the next (`Terminated`). Who sends what in which
operation is `Exchange`, from which both programs go through their loops by the
size each one knows. The lengths are those of `Config.h` and
`Authentication.h`, but for the chunks (1000 bytes for 1,000,000).

Refusals after which nothing follows, counters and re-authentication are left to
`Session`. Keys and certificates are assumed to fit the buffers of M1 and M3,
which nothing tests (the PEM texts do with the keys that come with the
repository).

## 3. The runs

| Run | Module, configuration | Shows | Distinct states |
|---|---|---|---|
| `session` | `SessionRefinement`, `MC_Session.cfg` | without faults: types, `NothingRejected`, `InStep`, `NoMutualWait`, `UploadComplete`, `DownloadComplete`, `DeleteOnlyConfirmed`, and `ActsAtomically`, the refinement | 947,000 |
| `session_faults` | `MC_Session`, `MC_SessionFaults.cfg` | with every fault switched on: `NothingRejected`, `InStep`, `DialogueInv`, `UploadPrefix`, `ThreadEnds` | 176,000 |
| `session_crash` | `MC_SessionCrash`, `MC_SessionCrash.cfg` | the server may crash at any step: `ActsAndEnds`, the refinement with its liveness, `OperationsFinish` and `NumberedInTurn` | 163,000 |
| `requests_answered` | `MC_Session`, `MC_RequestsAnswered.cfg` | three sentences of the documentation, violated; see Findings | |
| `numbers_used_once` | `Numbering`, `MC_NumbersUsedOnce.cfg` | under one key no side sends two messages with one number, violated; see Findings | |
| `transfer` | `MC_Transfer`, `MC_Transfer.cfg` | types, `CutAlike`, `CopyIsOriginal`, `TransferEnds` for every size | 349 |
| `largest_fits` | `MC_Transfer`, `MC_LargestFits.cfg` | a file of exactly the limit, violated; see Findings | |
| `storage` | `MC_Storage`, `MC_Storage.cfg` | three sessions and restarts: types, `AloneIsWhole`, `AtomicIfSteady`, `NothingLost` | 685,000 |
| `answers_true` | `MC_Storage`, `MC_AnswersTrue.cfg` | two sessions of one user, violated; see Findings | |
| `server_process` | `MC_ServerProcess`, `MC_ServerProcess.cfg` | two connections and few descriptors: types, `NothingKept`, `InstanceComplete`, `LoginsAgree`, `LossOnlyWhenFull`, `Served` | 154,000 |
| `rename_sees_file` | `MC_ServerProcess`, `MC_RenameSeesFile.cfg` | a full table hides a file, violated; see Findings | |
| `wire` | `MC_Wire`, `MC_Wire.cfg` | every message with its real lengths: types, `ReadAsWritten`, `WithinBuffers`, `NothingLeft`, `SomeoneSends`, no deadlock | 1,170 |

The properties in words:

* `NothingRejected`: the message at the head of a channel is always the one the
  receiver expects, under its key and counter. It holds with all faults too: a
  process that dies cuts messages off the end, never out of the middle.
* `InStep`: outside the handshake both sides hold one key and their counters
  differ by exactly the messages in flight.
* `DialogueInv`: every message under way is one its receiver will accept when its
  turn comes, and both programs are at matching places of one handshake and one
  operation. It implies the two above.
* `NumberedInTurn`: between two handshakes the messages of the operations carry 0, 1,
  2, ... in the order in which they are sent, by whichever side. Each program counts
  for itself, an upload runs ahead of its receiver, and handlers return early; still
  the two counters number one sequence, without a gap and without a number twice. The
  run has crashes of the server; the theorem has all faults.
* `NumbersUsedOnce` takes the handshake's own messages under the key into account, and
  does not hold; see Findings.
* `NoMutualWait`: the two never both wait in `receive` with nothing in flight.
  It holds for known users with a directory whose files nobody else removes. The
  three ways to break it outside those bounds are the first finding.
* `UploadComplete`, `DownloadComplete`: SUCCESS means that the whole file is
  there (for an upload: but for what the open stream still buffers).
* `DeleteOnlyConfirmed`: a file disappears only by the rename or the confirmed
  delete that the user of this session is in.
* `UploadPrefix`: the file an upload has opened is exactly the chunks received, until
  another session removes, replaces or opens it too; an upload that the client or the
  server cuts short leaves a prefix.
* `OperationsFinish`: every operation and login of a user the server knows comes back to
  the user, also when the server is killed in the middle of it.
* `ThreadEnds`: the thread of a dead client ends, under all faults.
* `CutAlike`: each receive of the loop starts at the first byte of the chunk that
  is due and asks for exactly its length, and nothing of an upload is left when
  the server is back in `run()`.
* `CopyIsOriginal`: success means that the copy is the file, byte for byte.
* `TransferEnds`: a transfer ends with success or a refusal.
* `ActsAtomically`: the user of a session cannot tell the exchange, with its
  re-authentications in the middle of operations, from an atomic store.
* `ActsAndEnds`: a crash of the server costs what `CloudStorage` allows and no
  more, and every operation that was picked ends with an answer or a failure.
* `AloneIsWhole`: a file that only one upload ever opened is exactly the chunks
  received, whatever renames, removes and uploads of others do meanwhile.
* `AtomicIfSteady`: an operation whose names nobody else touched behaves as if
  its handler were atomic: true answer, right effect, whole copy.
* `NothingLost`: a stored file goes away only by a confirmed delete of its name,
  or in the window of a rename or an upload that looked before the file came.
* `NothingKept`: however a login or a handler ends, the thread keeps its socket
  and nothing else, but for the file of a download that was announced with size
  0 or cut short (Server.cpp:504-507 returns without `delete`).
* `InstanceComplete`: no thread goes on with a half-constructed singleton.
* `LoginsAgree`: nobody is logged in by a login that could not open its files.
* `LossOnlyWhenFull`: a file is replaced or emptied against its user's wish only
  by a request that found the table full.
* `Served`: a client that has connected gets a thread, unless the process has
  ended or what is never closed fills the table.
* `ReadAsWritten`: each field is read as it was written, from the same bytes and
  in the same byte order, and no text runs on.
* `WithinBuffers`: no side reads or writes past its buffer.
* `NothingLeft`, `SomeoneSends`: after an operation no byte is left in the
  connection, and at no moment do both sides wait for bytes.

**Bounds.** `MaxCounter = 3` puts the re-authentication at each message of each
operation (an operation has at most four messages and two chunks) and lets both
sides authenticate several times in one operation; with 2 it happens after
almost every other message. A handshake itself counts from 0 to 2, hence the
assumption `MaxCounter >= 2`. `EphPool = 2` is enough as at most two generations
of ephemeral keys are ever in flight. `MaxChunks = 2` distinguishes the first,
the last and a chunk that is not the last. Two names make a rename possible
that succeeds. The run with faults takes one name, `error`, so that the list
hazard is in reach: there another session may change the file to any size at any
time, so every answer to a rename but the last one, success, occurs with one name
too, and what a second file adds to the messages, success, is in `session`. The
state space of a session is finite without further constraints: the
client waits for an answer before it sends again, except for the chunks of an
upload.

`Transfer` takes chunks of 3 bytes and a limit of 12: sizes 0 to 13 are all
residues, one to four chunks, empty, the limit and above it. `Width = 14` is the
2^32 above the limit; the 294,967,296 sizes between 4 GB and 2^32 are one (13).
The size alone decides what happens, and scales with the chunk. The connection
holds 7 bytes, more than a chunk's message and less than two.

`numbers_used_once` needs one name and no faults: the shortest counterexample is a
login followed by a list.

`session_crash` takes one name and three chunks: a rename is one step that a
crash cannot tear, so that a second name adds nothing to it, and a third chunk
distinguishes a prefix from the first and from all but the last. In all runs the
user has a directory; `HasDirectory = FALSE` is covered by the proofs only.

`Storage` takes three sessions with a request each: two that disturb the third.
Its races are between two, as the traces of `answers_true` show, and the third
leaves room for a rename that moves the file of an upload out of the way of a
second one. Two names, old files of no or one chunk, uploads of one or two.
Sessions are symmetric: nothing distinguishes the threads of a user, and the run
checks safety only.

`ServerProcess` takes two connections and three descriptors, of which earlier
sessions have left none or one: enough for both sockets and one file, so that
the last descriptor is fought for, and with one left also the lack of it at
once. `MaxRequests = 2` is the backlog, `Config::MAX_REQUESTS` scaled down, and
one request per session. No symmetry, as `Served` is a liveness property.

`Wire` takes the shortest name, the longest that is allowed and one that is too
long; empty, one-character and longer lists; files of no byte, one byte, one
chunk and two and a half. What a longer file adds is in `Transfer`; that no other
length makes a difference is proved (`WireProofs`).

**Deadlock** is checked in `wire`, where a session that is over is followed by
the next login. Elsewhere it is not (`CHECK_DEADLOCK FALSE`): a session stops
when the user has left, and the states where it should not stop are what
`NoMutualWait` and the liveness properties are about.

**Fairness.** `WF_vars(ClientStep)` and `WF_vars(ServerStep)`: a program that is
not blocked in `receive` is eventually run by the operating system. The user's
choice at the menu (`UserStep`) is not fair; the answer to the delete question
is part of the operation and is. Processes need not be killed, and other
sessions need not act. In `Transfer`, `WF_vars(Sender)` and `WF_vars(Receiver)`
say the same, in `ServerProcess` `WF_vars(Accept)` and `WF_vars(Thread(c))` for
each client. `Storage` and `Wire` claim no liveness; that both ends of `Wire`
never wait for each other is a safety property there. The fairness of
`CloudStorage` is a promise, not an assumption: what was picked is decided and
told. `Numbering` has the same fairness of the two programs (`FairNumberedSpec`).

**Mutants.** The definitions with a suffix (`ServerUpMi_Uncounted`, ...) are
faulty variants of the definition that follows them: a missing increment, a
wrong rounding, an error answered but not counted. Each property of each passing
run is violated when the variant that `PROJECT.json` pairs it with replaces the
definition.

## 4. Findings

Each is a sentence of the documentation that the code does not keep, with a run
that shows a behaviour.

1. `requests_answered`: three requests that the documentation says are answered
   are not, and the client waits for ever.
   * A file that is gone, or cannot be removed, when the confirmation of a delete
     arrives: `deleteRequest` returns without M4 (Server.cpp:894-901).
     Server.cpp:804-805 promises a final response with "the overall success or
     failure".
   * `getFilesList` reports errors as the text `error`, and `listRequest` returns
     without M2 (Server.cpp:367-369). The directory of a user whose only file is
     named `error` cannot be listed.
   * A user name without a public key file gets no M2 (Server.cpp:86-90), and the
     socket is not closed. Client.cpp:39-40 and Server.cpp:48-50 describe an M2
     with the error.
2. `largest_fits`: a file of exactly 4,000,000,000 bytes passes the client's check
   (Client.cpp:646, `>`), but `UploadM1` announces it with size 0 (Upload.cpp:32,
   `<`). The server expects no chunk and acknowledges; the client sends 4000
   chunks, on the first of which the server's thread ends, and blocks in `send`.
   Upload.cpp:31 and Client.cpp:647 exclude only what is larger than 4 GB.
3. `answers_true`: two sessions of one user.
   * `renameRequest` looks for the new name at 763 and calls `rename` at 767,
     which replaces a file created in between and is answered with success.
   * `openFile` refuses a name that another session has created since M2, but only
     logs it (FileManager.cpp:65-67), and `writeChunk` tests only the mode: all
     chunks and the end are acknowledged and nothing is stored. The same happens
     to a user without a directory.
4. `rename_sees_file`: with the table of descriptors full `isFilePresent` takes a
   file for absent, and a rename replaces it.
5. `numbers_used_once`: M3, M4 and M5 of the handshake are protected under the new
   session key with the counters 0, 1 and 2; then both sides set `m_counter` to 0 and
   keep the key (Client.cpp:316, Server.cpp:331). The first list after a login sends
   M1, M2 and M3 with 0, 1 and 2, and ListM3 has the key, the direction and the counter
   of AuthenticationM5. README.md:92 describes the counter as "specifically designed to
   keep track of the messages sent". Within the operations alone the numbers are used
   once (`NumberedInTurn`, proved).

Met while modelling and visible in the models, without a run of their own:
nobody closes the connection after a logout or the end of a thread, so the table
fills with time (why `Served` has its exception, and `ThreadEnds` needs the end
of the client process); a download of a file that shrinks under it goes on with
what the buffer held (`Stale` in `Storage`, why `AtomicIfSteady` has its
premise); with the table full a download is announced with size 0 and reported
as a success.

## 5. The proofs

`SessionProofs` uses the assumptions that `Session` states about its constants
(`CounterAssumption`, `PoolAssumption`, `FilesAssumption`, `SwitchAssumption`)
and nothing else: any maximum from 2, any number of names and chunks, any users
and any faults.

* `TypeCorrect == Spec => []TypeOK`. `TypeOK` is inductive. The lemmas say what
  each helper returns (`AnswerTypes`: a handler that sends a well-typed body and
  has a well-typed effect; `RequestTypes`, `ReplyTypes`, `ServerLeaveTypes`), and
  then the actions follow in groups. That no counter passes the maximum is in
  `ClientIncrementTypes` and `ServerIncrementTypes`.
* `UploadLeavesPrefix == Spec => []UploadPrefix`, where `UploadPrefix` speaks of a
  stream whose file no other session has touched since it was opened. Not inductive by itself: a step
  at `upWrite` keeps it only if nothing is buffered, a step of another handler
  only if the stream is closed there. `UploadInv` adds where the thread is while
  its stream is open or buffers something (`StreamInUpload`, in terms of
  `ServerAt`, the place of the handler even while it re-authenticates), and
  `HandshakeOnce`: the increment in the handshake stands at 1, so it never starts
  a handshake in the handshake and the place to go on at is not lost.
  `SamePlace`, `Closed`, `Left` and `Elsewhere` dispose of all steps but those of
  the upload.

`DialogueProofs` and `OperationProofs` use the same assumptions.

* `DialogueKept == Spec => []DialogueInv`. `NothingRejected` speaks of the message
  at the head of a channel when its receiver reads; it is not inductive, since the
  second message in the channel becomes the first. So `DialogueInv` speaks of all of
  them: the k-th has the counter the receiver will have after k - 1 more. That
  cannot be kept without knowing that the sender numbers the next one right, that is
  without the equations of `InHandshake` (`c_ctr + Len(s2c)` against `s_ctr`, and so
  on), and these need to know who may send at all, which is `InOperation`. The part
  about one side alone is separate because it must survive the end of the other: a
  killed process cuts messages off the end of a channel, and the rest is still in
  order. The proof goes by side and step: the counters and the handshake first, with
  the operation forgotten, then the operation, with the counters forgotten.
* `NoneRejected == Spec => []NothingRejected`, `CountersInStep == Spec => []InStep`
  follow from it without further induction.
* `NumbersInTurn == NumberedSpec => NumberedInTurn`. The property speaks of the message
  just sent; `Counted` says what the count of all messages is for a client past its
  handshake: its own counter and what is on the way to it, since it counts what it
  sends and what it takes, and by `DialogueInv` the server's counter follows from that.
  In the handshake the client's counter means something else, so `Counted` has two
  more cases: before AuthM5 is sent nothing has been counted, and while it is under way
  the client has taken none of what follows it. `ClientWays` and `ServerWays` bring all
  steps into a few forms (says one message, takes one, answers, starts a handshake), and
  `ClientCounted` and `ServerCounted` go through these.
* `ClientOperation` and `ServerOperation` sum up all steps of a side, its handshake
  hidden: where it goes in its operation, which message it takes or sends, what
  becomes of its file (`ClientMoves`, `ServerMoves`). The proofs below use these and
  no longer the actions.
* `SameFileKept`, `DismissedKept`: for any faults both sides mean the same file
  throughout an operation, and a thread ends before its client only where it has
  said so, or at a login with a name it does not know.
* `NobodyStuck`: `Undisturbed /\ "unknown" \notin UserKinds => (Spec =>
  []NoMutualWait)`. With nothing under way, the places of `InOperation` leave only
  those where a handler has returned without an answer; `Heeded` excludes them.
  `Undisturbed` is that the user has a directory, no file has the name `error` and no
  other session acts. Each of these conditions is needed: the first finding shows
  what happens without it.
* `OnlyConfirmed`: `~OtherSessions /\ ~ClientMayExit => (Spec =>
  DeleteOnlyConfirmed)`. The property speaks of the operation the user is in; of a
  client that was killed the server may still carry out the last request.
* `UploadsComplete`: `HasDirectory /\ ~OtherSessions /\ ~ServerMayExit => (Spec =>
  UploadComplete)`, and `DownloadsComplete`: `~OtherSessions => (Spec =>
  DownloadComplete)`. Without a directory, or with another session that creates the
  file, an upload is acknowledged and stored nowhere (third finding); a server that
  is killed loses what its stream buffers after the acknowledgement.
  `UploadedKept` and `DownloadedKept` count the chunks written and those under way.

`RefinementProofs` shows the refinement, with the same assumptions on the constants.

* `Refines`: `HasDirectory /\ ~OtherSessions /\ ~ClientMayExit => (Spec =>
  ActsAtomically)`. Any kind of user, any files, any maximum of the counter, and a
  server process that may end at every step. The three conditions are those under
  which the atomic store is promised at all: without a directory, or with another
  session that takes the name, an upload is acknowledged and not stored (third
  finding), and of a client that was killed no user is left to be told anything. What
  other sessions do to an operation is in `Storage`.
* The invariant is `Known`: `TypeOK`, `DialogueInv`, `UploadInv`, the files of
  `OperationProofs` and five parts of its own. The answers on their way are true
  (`TruthfulKept`), since what the user is told must be what was decided; who is not
  registered stays in the login on both sides (`KeptOutKept`), since `Pick` is for
  registered users; the client looks at the file it sends or asks for
  (`LocalKnownKept`); a stream writes to a file that has its name (`Named`); who has
  left has read everything (`AllReadKept`).
* The mapping is first brought into a form that a step can be computed in (`Views`):
  `Decided`, defined by a search through the channel, is the first answer if it is one
  that ends an operation (`DecidedIs`, as by `DialogueInv` none follows another), and
  the new name is in the last request (`NewNameIs`).
* Then one lemma per step, in three groups: the user's (`UserActs`), the client's
  (`ClientActs`) and the server thread's (`ServerActs`). Most steps show nothing
  (`Stutters`). The others map to one action: `ServerAnswers` the moments of decision
  that are an answer, `ServerWrites` the last chunk of an upload, `ServerCloses` the
  flush, `ClientReplies` and `ClientWrites` the ends, `ClientGivesUp` the failures
  after a crash, `Crashes` the crash, which may take the answer that decided
  (`CutDecision`), the buffered chunk, or an upload that has begun (`CrashCuts`).

`TransferProofs` uses the assumptions of `Transfer` on the lengths. Nothing bounds
the sizes of chunks, messages, files and the connection.

* `ChunksAddUp`: for every positive size and chunk size, all chunks but the last are
  full, the last is neither empty nor too long, and together they are the size. It
  rests on division with remainder (`Division`) and two cases.
* `TypeCorrect == Spec => []TypeOK`: whatever the receiver was told and whatever
  comes, the copy is what belongs before the next chunk, and no longer than told.
  `CopyInv` adds what the two have told each other, and when the last message of an
  upload is under way.
* `CutsAlike == SizesFit => (Spec => []CutAlike)`. `CutAlike` looks at the first byte
  of the stream; what follows it after the next `receive` is in `Stream`: byte `j` of
  the message of chunk `r_i + k` is at `k * FullMsg + j`, and the stream ends with
  message `s_i - 1`. `StreamGrows` and `StreamShrinks` are the two ends. `SizesFit`
  says that no file has 2^32 bytes or more: a download of one would announce its size
  modulo 2^32, but files come to the server by uploads, which end below.
* `CopiesTrue == SizesFit => (Spec => []CopyIsOriginal)`: of two sides that divide the
  same size the copy is the original when all chunks have come; at the limit, where
  they do not, the counters of the last message differ.

`StorageProofs` uses `BoundsAssumption` (an upload has at least one chunk),
`NamesAssumption` (there is a name, and no name is one of the marks in the data)
and `OldSizesAssumption`: any number of sessions, names, requests and chunks, with
or without restarts.

* `TypeCorrect == Spec => []TypeOK`. `TypeOK` bounds the chunks an operation has
  moved by those announced, which no action tests where it counts. `Typed` adds
  `Places`: in which handler a session is, with which operation, that an upload
  is `<<session, request>>` and is among the writers of the file it opened, and
  that only the last chunk waits in the stream's buffer. `OneSession` and `Moves`
  reduce a step to the place and the operation of the session that makes it.
* `UploadsApart == Spec => []AloneIsWhole`. With `Places`, `AloneIsWhole` is
  inductive (`Apart`): the one step to exclude is a write of another session to
  the same file, which would have made that session a writer too (`Others`).
* `NothingIsLost == Spec => NothingLost`, an action property. It needs that a file
  has one name (`OneName`; otherwise a delete could take another's file away),
  hence that an upload which has not opened its file has none (`Unborn`), and that
  what an undisturbed session has looked for in vain is still absent when it acts
  (`Looked`).
* `SteadyIsAtomic == Spec => AtomicIfSteady`, an action property. `Follows` lists what
  a session that nobody disturbs knows at each place of its operation: the name is
  absent up to the creation, then stands for the file it writes, with the chunks
  written so far; what was read is a prefix of the content, whose length is the size;
  the answer of an upload is out before its file is closed. The steps of its own keep
  this (`FollowsCreate`, ..., `FollowsNames`), those of others by the meaning of
  `steady` (`FollowsOthers`).

`ServerProcessProofs` needs no bound on the table, the backlog or the
connections; `DirsAssumption` gives the values of a directory.

* `SingletonComplete == Spec => []InstanceComplete`: what is assigned to the
  pointer has been constructed by the thread that assigns it, and whoever goes on
  has found or assigned it (`InstanceInv`). `ApartFromInstance` disposes of all
  other steps.
* `LossNeedsFullTable == Spec => LossOnlyWhenFull`: a thread that has never failed
  to open a file that is there replaces none, since its rename and its upload go
  on only after they looked (`Sees`). That directories are apart is part of the
  model; `Storage` has the races.
* `TypeCorrect == Spec => []TypeOK`, of which the table is the part that needs care:
  `open` is finite and each step adds at most one descriptor, while one is free
  (`ThreadMoves`, `TableHolds`).
* `ThreadsKeepNothing == Spec => []NothingKept` and `LoginsTrue == Spec =>
  []LoginsAgree`, both from `KeptInv`. `NothingKept` speaks of threads at rest only,
  so `Holding` lists what a thread has open at every place between, and `Accounted`
  adds the files that this or an earlier download has lost. `Agrees` follows a login
  that could not open a file until its thread ends. That a thread is started once per
  connection is in `QueueInv`.

`WireProofs` has three assumptions on the lengths: names are texts with a length
(`NamesAssumption`); all lengths of fields are numbers, of which
`Config::MAX_PACKET_SIZE` is the length of the longest request, a code and two names,
and a number is not longer than a name (`FieldsAssumption`; `Config.h` says "Longest
packet (excluding chunks)" and 71 is 1 + 2 * 35); a chunk has at least one byte, and
files and lists have numbers for sizes (`LengthsAssumption`). Which names a user may
type is left to `isStringValid`, which the model calls.

* *Sums.* Every length is the sum of a list of fields (`Total`). What such a sum is
  takes an induction, for which the library's theorems cannot be used here; `LeastElement`
  stands in for it. If the sums went wrong anywhere there would be a least place where
  they do, and the one before it contradicts that (`SumExists`, `SumIsUnique`). From
  these come `TotalIsSum`, and that a part of a list adds up to no more than the whole
  (`TotalOfPart`): each field ends within the message, and the first message within
  the bytes of the connection.
* *Messages.* Each class reads the fields it writes, and its buffer holds them
  (`ClassShape`); each field lies within the width (`PlacesFit`); hence a message read
  from as many bytes as were sent reads back (`ReadsBack`), if no text fills its field
  (`ValueTerminates`). This is where `isStringValid` is needed, and where a list's NUL is
  counted.
* *Exchanges.* Each begins with the client and ends with the server, and is in every
  place what `AtPlace` says (`ExchangeIsProper`). There both sides use the same length,
  although some calls say `MAX_PACKET_SIZE` and others `getMessageSize`
  (`LengthsAgree`). A size is announced in one message: up to it the exchange does not
  depend on the size (`SameUntilAnnounced`), and from it on both sides have the same
  (`Agree`).
* `WireInvariant == Spec => []WireInv`. `ReadAsWritten` speaks of the message just
  read and so depends on all that are under way, and the places of both sides are tied
  together by nothing else than these. `WireInv` says that one side follows the other
  (`Following`), or the client has begun a request that `run()` has not looked at
  (`Opening`), or neither has one (`Resting`); and that the connection towards the
  follower carries just the messages from its place to the place of its peer
  (`Carries`), and the other direction nothing. Each action is one of four steps:
  the follower takes a message, the follower sends when it is level, the leader sends
  one more, or the request begins or ends. A run of TLC had checked `WireInv` on the
  instance of `MC_Wire` before it was proved.
* `WireTypes`, `EverythingIsReadAsWritten`, `BuffersHoldMessages`,
  `ConnectionIsLeftEmpty` and `NobodyWaitsInVain` follow without further induction:
  `Spec` implies `[]TypeOK`, `[]ReadAsWritten`, `[]WithinBuffers`, `[]NothingLeft` and
  `[]SomeoneSends`. The last holds because two sides that both await something would
  each have to be the follower, and a follower either is level with a peer that is to
  send, or has its next message whole in the connection (`UnitArrives`).

Every invariant and every action property of a passing run is thus the property of a
theorem. Only model-checked are the liveness properties: `ThreadEnds`,
`OperationsFinish`, `TransferEnds`, `Served`, and the fairness of `CloudStorage` in
`ActsAndEnds`. TLAPS has no fairness reasoning here; the safety part of the last is
`Refines`. `NoMutualWait`, `DeleteOnlyConfirmed`, `UploadComplete`,
`DownloadComplete` and the refinement are proved under the conditions named with
them, which are those of the runs that check them.

## 6. Not modelled

* The cryptographic wrappers and the certificate store: no state of their own
  between calls, used as perfect functions; of `AesGcm` the lengths (`Wire`), of
  `CertificateManager` the singleton and its files (`ServerProcess`).
* Failures of memory allocation, of the random generator and of encryption.
  A handler that cannot encrypt returns without its answer, like those of the
  first finding; `cleanIV` after a failed encryption frees the IV again.
* Leaks of memory, such as the plaintext buffers, which nothing bounds but the
  length of a session.
* Failures of local file I/O. A local file that cannot be opened for a download is only
  logged by `FileManager`; `downloadRequest` (Client.cpp:546) takes all chunks and
  reports SUCCESS. A chunk that cannot be written, on either side, is not noticed
  either. `DownloadComplete` and `UploadComplete` assume that an open that the model
  lets succeed and every write do.
* What the user is shown, the progress of a transfer, and the dialogue that asks
  for numbers and names until they are valid.
* `ExtractPublicKey`, a conversion tool, and the unit tests.

## 7. Plan

In this order.

1. `Session`, its runs, `TypeCorrect` and `UploadLeavesPrefix`.
2. `Transfer`, its runs and `ChunksAddUp`.
3. `Storage`: several sessions of one user.
4. `CloudStorage`, the atomic store, and the refinement by `Session`.
5. `ServerProcess`: the accept loop, threads, descriptors, the singleton; `Wire`:
   the messages in bytes.
6. Proofs: `NothingRejected` and `InStep` from an invariant that ties the two
   program counters, the counters and the contents of both channels together
   (`Dialogue`); from it `NumberedInTurn`, `NoMutualWait` and what a success means;
   `NothingKept` and `LoginsAgree` of `ServerProcess`; `CutAlike` and
   `CopyIsOriginal` of `Transfer` for all sizes.
7. Proofs: the refinement of 4, step by step (`RefinementProofs`), and
   `AtomicIfSteady` of `Storage`.
8. Proofs: `Wire` for all lengths (`WireProofs`), the sums from the least element of a
   set of numbers instead of an induction.

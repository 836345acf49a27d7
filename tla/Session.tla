------------------------------ MODULE Session ------------------------------
(***************************************************************************)
(* One client (Client.cpp) and the server thread that serves it            *)
(* (Server.cpp), joined by a TCP connection: authentication M1..M5, the     *)
(* message counter and the re-authentication it triggers, and the six       *)
(* operations of the menu, down to every send, receive and early return.    *)
(*                                                                         *)
(* c_pc and s_pc name the place each program is at: a location "xM2" is     *)
(* where the program is about to receive (or, on the other side, to send)   *)
(* message M2 of operation x.                                               *)
(***************************************************************************)
EXTENDS Integers, Sequences

CONSTANTS
    MaxCounter,    \* Config::MAX_COUNTER_VALUE
    EphPool,       \* bound: ephemeral keys are drawn in turn from 0..EphPool-1
    MaxChunks,     \* bound: files have at most this many chunks
    Names,         \* the file names the user and the storage know
    ErrorName,     \* the name "error" (in Names or not)
    UserKinds,     \* the users that may log in, see Kinds
    HasDirectory,  \* does ../data/<user> exist?
    OtherSessions, \* may other sessions of the same user change the storage?
    ClientMayExit, \* may the client process be killed?
    ServerMayExit  \* may the server process be killed?

\* What resources/ holds for the user: a public key that matches the private key
\* the client reads, one that does not, a file that is no key, or no file.
Kinds == {"registered", "mismatched", "unreadable", "unknown"}

ASSUME CounterAssumption == MaxCounter \in Nat /\ MaxCounter >= 2
ASSUME PoolAssumption == EphPool \in Nat /\ EphPool >= 2
ASSUME FilesAssumption == MaxChunks \in Nat /\ Names # {}
ASSUME UsersAssumption == UserKinds \subseteq Kinds
ASSUME SwitchAssumption ==
    {HasDirectory, OtherSessions, ClientMayExit, ServerMayExit} \subseteq BOOLEAN

VARIABLES
    user,                                \* the kind of the user who logs in
    c_pc, c_ret, c_ctr, c_key, c_eph,    \* client: place, place after authentication,
                                         \*   m_counter, m_session_key, ephemeral key
    c_file, c_size, c_i, c_res,          \* its operation: file, chunks, next chunk, result
    s_pc, s_ret, s_ctr, s_key, s_eph,    \* server thread: the same
    s_peer,                              \* the client's ephemeral key, from M1
    s_file, s_new, s_size, s_i,          \* its operation
    s_stream, s_buf,                     \* the upload's ofstream; is its last chunk buffered?
    c2s, s2c,                            \* bytes in flight, as messages
    store, local                         \* ../data/<user> and ../files: chunks per file

Absent == -1                    \* no file of this name
NoKey == <<-1, -1>>             \* m_session_key before login and after logout
Sizes == Absent .. MaxChunks

\* An ofstream goes on writing to a file that another session has removed, replaced or
\* opened as well: what becomes of the file is then among the changes of OtherSession.
Streams == {"closed", "open", "disturbed"}

cAuth == <<c_key, c_eph>>
cOp == <<c_file, c_size, c_i>>
client == <<c_pc, c_ret, c_ctr, c_key, c_eph, c_file, c_size, c_i, c_res>>
sAuth == <<s_key, s_eph, s_peer>>
sOp == <<s_file, s_new, s_size, s_i>>
sOut == <<s_stream, s_buf>>
server == <<s_pc, s_ret, s_ctr, s_key, s_eph, s_peer, s_file, s_new, s_size, s_i,
            s_stream, s_buf>>
vars == <<user, client, server, c2s, s2c, store, local>>

AuthPcs == {"auth", "authM1", "authM2", "authM3", "authM4", "authM5"}
Gone == {"left", "exit", "done", "crashed"}

\* The places where the client and the server thread sit in SocketManager::receive ...
ClientReceives == {"authM2", "authM3", "authM5", "listM2", "listM3", "downM2", "downMi",
                   "upM2", "upEnd", "renM2", "delM2", "delM4", "outM2"}
ServerReceives == {"authM1", "authM4", "run", "upMi", "delM3"}
\* ... and the places where they are about to call SocketManager::send.
ClientSends == {"auth", "authM4", "menu", "upMi", "delAsk"}
ServerSends == {"authM2", "authM3", "authM5", "listM2", "listM3", "downM2", "downMi",
                "upM2", "upEnd", "renM2", "delM2", "delM4", "outM2"}
ClientPcs == ClientReceives \cup ClientSends \cup {"downOpen", "downWrite", "left", "exit"}
ServerPcs == ServerReceives \cup ServerSends
               \cup {"upLook", "upCreate", "upWrite", "upClose", "done", "crashed"}

AnyName == CHOOSE f \in Names : TRUE
Results == {"none", "SUCCESS", "FILE_NOT_FOUND", "FILE_ALREADY_EXISTS", "WRONG_FILE_SIZE",
            "NO_DELETE_CONFIRM", "RENAME_FAILURE", "RECEIVE_FAILURE", "DECRYPTION_FAILURE",
            "WRONG_COUNTER"}
Codes == {"ACK", "NACK", "LIST_ACK", "DOWNLOAD_ACK", "FILE_NOT_FOUND",
          "FILE_ALREADY_EXISTS", "DELETE_ASK", "DELETE_CONFIRM", "NO_DELETE_CONFIRM"}

-----------------------------------------------------------------------------
(* Messages.  A Generic message is its counter (the AAD), the key it was    *)
(* encrypted with, and a body; the handshake messages use the same record.  *)

Body == [file : Names, new : Names, n : Nat, code : Codes]
Keys == (Int \X Int)
Types == {"AuthM1", "AuthM2", "AuthM3", "AuthM4", "AuthM5", "ListM1", "ListM2", "ListM3",
          "DownM1", "DownM2", "DownMi", "UpM1", "UpM2", "UpMi", "UpEnd", "RenM1", "RenM2",
          "DelM1", "DelM2", "DelM3", "DelM4", "OutM1", "OutM2"}
Message == [type : Types, key : Keys, ctr : 0..MaxCounter, body : Body]

Plain == [file |-> AnyName, new |-> AnyName, n |-> 0, code |-> "ACK"]
File(f) == [Plain EXCEPT !.file = f]
Number(n) == [Plain EXCEPT !.n = n]
Code(c) == [Plain EXCEPT !.code = c]

Msg(type, key, ctr, body) == [type |-> type, key |-> key, ctr |-> ctr, body |-> body]

\* Sending to a process that has ended reaches nobody.
ToServer(m) == c2s' = IF s_pc = "crashed" THEN c2s ELSE Append(c2s, m)
ToClient(m) == s2c' = IF c_pc = "exit" THEN s2c ELSE Append(s2c, m)

\* The receiver blocks until the message is there.
FromServer(pc, type) ==
    /\ c_pc = pc
    /\ s2c # <<>>
    /\ Head(s2c).type = type
    /\ s2c' = Tail(s2c)

FromClient(pc, type) ==
    /\ s_pc = pc
    /\ c2s # <<>>
    /\ Head(c2s).type = type
    /\ c2s' = Tail(c2s)

\* Generic::decrypt, then the comparison of the counters.
Verdict(m, key, ctr) ==
    IF m.key # key THEN "DECRYPTION_FAILURE"
    ELSE IF m.ctr # ctr THEN "WRONG_COUNTER"
    ELSE "SUCCESS"

-----------------------------------------------------------------------------
(* incrementCounter: at the maximum the caller authenticates anew before it *)
(* goes on; the place it goes on at is kept in c_ret or s_ret.              *)

\* (Faulty variants of a definition stand before it; no specification uses them, they
\* show that the properties would notice such a bug.  The test is off by one here ...)
ClientIncrement_PastMax(next) ==
    IF c_ctr > MaxCounter
    THEN c_pc' = "auth" /\ c_ret' = next /\ c_ctr' = c_ctr
    ELSE c_pc' = next /\ c_ret' = c_ret /\ c_ctr' = c_ctr + 1

\* (... and missing here, so that the uint32_t wraps around.)
ClientIncrement_Wraps(next) ==
    c_pc' = next /\ c_ret' = c_ret /\ c_ctr' = (c_ctr + 1) % (MaxCounter + 1)

ClientIncrement(next) ==
    IF c_ctr = MaxCounter
    THEN c_pc' = "auth" /\ c_ret' = next /\ c_ctr' = c_ctr
    ELSE c_pc' = next /\ c_ret' = c_ret /\ c_ctr' = c_ctr + 1

ServerIncrement_Wraps(next) ==
    s_pc' = next /\ s_ret' = s_ret /\ s_ctr' = (s_ctr + 1) % (MaxCounter + 1)

ServerIncrement(next) ==
    IF s_ctr = MaxCounter
    THEN s_pc' = "authM1" /\ s_ret' = next /\ s_ctr' = s_ctr
    ELSE s_pc' = next /\ s_ret' = s_ret /\ s_ctr' = s_ctr + 1

\* A client operation returns res to run() and the menu.
ClientReturn(res) == c_pc' = "menu" /\ c_res' = res /\ UNCHANGED <<c_ret, c_ctr>>

\* (Faulty: what the stream buffers is never flushed.)
ServerLeave_Unflushed(pc) ==
    s_pc' = pc /\ s_stream' = "closed" /\ s_buf' = FALSE /\ UNCHANGED store

\* A server handler, or run() itself, is left for pc: the destructor of the upload's
\* FileManager closes the file, which flushes what ofstream still buffers.
ServerLeave(pc) ==
    /\ s_pc' = pc
    /\ store' = IF s_stream = "open" /\ s_buf
                THEN [store EXCEPT ![s_file] = @ + 1] ELSE store
    /\ s_stream' = "closed"
    /\ s_buf' = FALSE

Init ==
    /\ user \in UserKinds
    /\ c_pc = "auth" /\ c_ret = "menu" /\ c_ctr = 0 /\ c_key = NoKey /\ c_eph = 0
    /\ c_file = AnyName /\ c_size = 0 /\ c_i = 0 /\ c_res = "none"
    /\ s_pc = "authM1" /\ s_ret = "run" /\ s_ctr = 0 /\ s_key = NoKey /\ s_eph = 0
    /\ s_peer = 0
    /\ s_file = AnyName /\ s_new = AnyName /\ s_size = 0 /\ s_i = 0
    /\ s_stream = "closed" /\ s_buf = FALSE
    /\ c2s = <<>> /\ s2c = <<>>
    /\ store \in [Names -> IF HasDirectory THEN Sizes ELSE {Absent}]
    /\ local \in [Names -> Sizes]

-----------------------------------------------------------------------------
(* Client::authenticationRequest, at login and from incrementCounter.       *)

ClientAuthM1 ==
    /\ c_pc = "auth"
    /\ c_eph' = (c_eph + 1) % EphPool
    /\ ToServer(Msg("AuthM1", NoKey, 0, Number(c_eph')))
    /\ c_pc' = "authM2"
    /\ UNCHANGED <<user, c_ret, c_ctr, c_key, cOp, c_res, server, s2c, store, local>>

\* A NACK ends run(): at login by return, later by the exception of incrementCounter.
ClientAuthM2 ==
    /\ FromServer("authM2", "AuthM2")
    /\ c_pc' = IF Head(s2c).body.code = "ACK" THEN "authM3" ELSE "left"
    /\ UNCHANGED <<user, c_ret, c_ctr, cAuth, cOp, c_res, server, c2s, store, local>>

\* m_counter is reset, checked and incremented before the key is derived.
ClientAuthM3 ==
    /\ FromServer("authM3", "AuthM3")
    /\ LET m == Head(s2c) IN
         IF m.ctr # 0
         THEN c_pc' = "left" /\ c_ctr' = 0 /\ UNCHANGED c_key
         ELSE /\ c_ctr' = 1
              /\ c_key' = <<c_eph, m.body.n>>
              /\ c_pc' = IF m.key = c_key' THEN "authM4" ELSE "left"
    /\ UNCHANGED <<user, c_ret, c_eph, cOp, c_res, server, c2s, store, local>>

ClientAuthM4 ==
    /\ c_pc = "authM4"
    /\ ToServer(Msg("AuthM4", c_key, c_ctr, Plain))
    /\ ClientIncrement("authM5")
    /\ UNCHANGED <<user, cAuth, cOp, c_res, server, s2c, store, local>>

\* A wrong counter is thrown: nothing catches it at login, run() does later.
ClientAuthM5 ==
    /\ FromServer("authM5", "AuthM5")
    /\ LET m == Head(s2c) IN
         IF Verdict(m, c_key, c_ctr) = "SUCCESS" /\ m.body.code = "ACK"
         THEN c_ctr' = 0 /\ c_pc' = c_ret /\ c_ret' = "menu"
         ELSE /\ c_pc' \in IF Verdict(m, c_key, c_ctr) = "WRONG_COUNTER"
                           THEN {"left", "exit"} ELSE {"left"}
              /\ UNCHANGED <<c_ctr, c_ret>>
    /\ UNCHANGED <<user, cAuth, cOp, c_res, server, c2s, store, local>>

-----------------------------------------------------------------------------
(* Server::authenticationRequest.  Every failure ends the thread: at login  *)
(* run() returns, later the exception of incrementCounter leaves run().     *)

\* No public-key file: the thread ends without M2.
ServerUnknownUser ==
    /\ FromClient("authM1", "AuthM1")
    /\ user = "unknown"
    /\ ServerLeave("done")
    /\ UNCHANGED <<user, client, s_ret, s_ctr, sAuth, sOp, s2c, local>>

ServerAuthM1 ==
    /\ FromClient("authM1", "AuthM1")
    /\ user # "unknown"
    /\ s_peer' = Head(c2s).body.n
    /\ s_pc' = "authM2"
    /\ UNCHANGED <<user, client, s_ret, s_ctr, s_key, s_eph, sOp, sOut, s2c, store, local>>

ServerAuthM2 ==
    /\ s_pc = "authM2"
    /\ IF user = "unreadable"
       THEN ToClient(Msg("AuthM2", NoKey, 0, Code("NACK"))) /\ ServerLeave("done")
       ELSE /\ ToClient(Msg("AuthM2", NoKey, 0, Code("ACK")))
            /\ s_pc' = "authM3"
            /\ UNCHANGED <<sOut, store>>
    /\ UNCHANGED <<user, client, s_ret, s_ctr, sAuth, sOp, c2s, local>>

\* The key is derived and m_counter is reset before M3 goes out; it is 1 afterwards.
ServerAuthM3 ==
    /\ s_pc = "authM3"
    /\ s_eph' = (s_eph + 1) % EphPool
    /\ s_key' = <<s_peer, s_eph'>>
    /\ ToClient(Msg("AuthM3", s_key', 0, Number(s_eph')))
    /\ s_ctr' = 1
    /\ s_pc' = "authM4"
    /\ UNCHANGED <<user, client, s_ret, s_peer, sOp, sOut, c2s, store, local>>

ServerAuthM4 ==
    /\ FromClient("authM4", "AuthM4")
    /\ IF Verdict(Head(c2s), s_key, s_ctr) = "SUCCESS"
       THEN ServerIncrement("authM5") /\ UNCHANGED <<sOut, store>>
       ELSE ServerLeave("done") /\ UNCHANGED <<s_ret, s_ctr>>
    /\ UNCHANGED <<user, client, sAuth, sOp, s2c, local>>

ServerAuthM5 ==
    /\ s_pc = "authM5"
    /\ s_ctr' = 0
    /\ IF user = "mismatched"
       THEN /\ ToClient(Msg("AuthM5", s_key, s_ctr, Code("NACK")))
            /\ ServerLeave("done")
            /\ UNCHANGED s_ret
       ELSE /\ ToClient(Msg("AuthM5", s_key, s_ctr, Code("ACK")))
            /\ s_pc' = s_ret /\ s_ret' = "run"
            /\ UNCHANGED <<sOut, store>>
    /\ UNCHANGED <<user, client, sAuth, sOp, c2s, local>>

-----------------------------------------------------------------------------
(* Client::run and the operations: the user picks one at the menu, its      *)
(* request goes out, and the increment may authenticate anew.               *)

Request(type, body, next) ==
    /\ c_pc = "menu"
    /\ ToServer(Msg(type, c_key, c_ctr, body))
    /\ ClientIncrement(next)
    /\ c_res' = "none"
    /\ UNCHANGED <<user, cAuth, server, s2c, store, local>>

\* The operation ends before anything is sent.
Refused(res) ==
    /\ c_pc = "menu"
    /\ c_res' = res
    /\ UNCHANGED <<user, c_pc, c_ret, c_ctr, cAuth, cOp, server, c2s, s2c, store, local>>

About(f) == c_file' = f /\ UNCHANGED <<c_size, c_i>>

ClientList == Request("ListM1", Plain, "listM2") /\ UNCHANGED cOp

ClientDownload == \E f \in Names :
    \/ local[f] # Absent /\ Refused("FILE_ALREADY_EXISTS")
    \/ local[f] = Absent /\ Request("DownM1", File(f), "downM2") /\ About(f)

ClientUpload == \E f \in Names :
    \/ local[f] = Absent /\ Refused("FILE_NOT_FOUND")
    \/ local[f] = 0 /\ Refused("WRONG_FILE_SIZE")
    \/ /\ local[f] > 0
       /\ Request("UpM1", [File(f) EXCEPT !.n = local[f]], "upM2")
       /\ c_file' = f /\ c_size' = local[f] /\ c_i' = 0

ClientRename == \E f, g \in Names :
    Request("RenM1", [File(f) EXCEPT !.new = g], "renM2") /\ About(f)

\* The client looks for the file in the server's own directory first.
ClientDelete == \E f \in Names :
    \/ store[f] = Absent /\ Refused("FILE_NOT_FOUND")
    \/ store[f] # Absent /\ Request("DelM1", File(f), "delM2") /\ About(f)

ClientLogout == Request("OutM1", Plain, "outM2") /\ UNCHANGED cOp

\* A reply is taken: rejected, it ends the operation; accepted, it is counted and the
\* client goes on at next with result res.
Reply(next, res) ==
    LET v == Verdict(Head(s2c), c_key, c_ctr) IN
    IF v = "SUCCESS" THEN ClientIncrement(next) /\ c_res' = res ELSE ClientReturn(v)

Accepted == Verdict(Head(s2c), c_key, c_ctr) = "SUCCESS"

ClientListM2 ==
    /\ FromServer("listM2", "ListM2")
    /\ IF Head(s2c).body.n = 0 THEN Reply("menu", "SUCCESS") ELSE Reply("listM3", "none")
    /\ UNCHANGED <<user, cAuth, cOp, server, c2s, store, local>>

ClientListM3 ==
    /\ FromServer("listM3", "ListM3")
    /\ Reply("menu", "SUCCESS")
    /\ UNCHANGED <<user, cAuth, cOp, server, c2s, store, local>>

ClientDownM2 ==
    /\ FromServer("downM2", "DownM2")
    /\ LET b == Head(s2c).body IN
         IF b.code = "FILE_NOT_FOUND"
         THEN Reply("menu", "FILE_NOT_FOUND") /\ UNCHANGED c_size
         ELSE Reply("downOpen", "none") /\ c_size' = IF Accepted THEN b.n ELSE c_size
    /\ UNCHANGED <<user, cAuth, c_file, c_i, server, c2s, store, local>>

\* (Faulty: chunks are awaited even if none are announced.)
ClientDownOpen_Waits ==
    /\ c_pc = "downOpen"
    /\ local' = [local EXCEPT ![c_file] = 0]
    /\ c_i' = 0 /\ c_pc' = "downMi"
    /\ UNCHANGED <<user, c_ret, c_ctr, cAuth, c_file, c_size, c_res, server, c2s, s2c,
                   store>>

\* The local file is created, and complete if it has no chunks.
ClientDownOpen ==
    /\ c_pc = "downOpen"
    /\ local' = [local EXCEPT ![c_file] = 0]
    /\ c_i' = 0
    /\ IF c_size = 0 THEN ClientReturn("SUCCESS")
       ELSE c_pc' = "downMi" /\ UNCHANGED <<c_ret, c_ctr, c_res>>
    /\ UNCHANGED <<user, cAuth, c_file, c_size, server, c2s, s2c, store>>

ClientDownMi ==
    /\ FromServer("downMi", "DownMi")
    /\ Reply("downWrite", "none")
    /\ UNCHANGED <<user, cAuth, cOp, server, c2s, store, local>>

ClientDownWrite ==
    /\ c_pc = "downWrite"
    /\ local' = [local EXCEPT ![c_file] = @ + 1]
    /\ c_i' = c_i + 1
    /\ IF c_i + 1 = c_size THEN ClientReturn("SUCCESS")
       ELSE c_pc' = "downMi" /\ UNCHANGED <<c_ret, c_ctr, c_res>>
    /\ UNCHANGED <<user, cAuth, c_file, c_size, server, c2s, s2c, store>>

ClientUpM2 ==
    /\ FromServer("upM2", "UpM2")
    /\ IF Head(s2c).body.code = "NACK"
       THEN Reply("menu", "FILE_ALREADY_EXISTS")
       ELSE Reply("upMi", "none")
    /\ UNCHANGED <<user, cAuth, cOp, server, c2s, store, local>>

\* All chunks are sent without waiting for the server.
ClientUpMi ==
    /\ c_pc = "upMi"
    /\ ToServer(Msg("UpMi", c_key, c_ctr, Number(c_i)))
    /\ c_i' = c_i + 1
    /\ ClientIncrement(IF c_i + 1 = c_size THEN "upEnd" ELSE "upMi")
    /\ UNCHANGED <<user, cAuth, c_file, c_size, c_res, server, s2c, store, local>>

ClientUpEnd ==
    /\ FromServer("upEnd", "UpEnd")
    /\ Reply("menu", "SUCCESS")
    /\ UNCHANGED <<user, cAuth, cOp, server, c2s, store, local>>

ClientRenM2 ==
    /\ FromServer("renM2", "RenM2")
    /\ LET code == Head(s2c).body.code IN
         Reply("menu", IF code = "ACK" THEN "SUCCESS"
                       ELSE IF code = "NACK" THEN "RENAME_FAILURE" ELSE code)
    /\ UNCHANGED <<user, cAuth, cOp, server, c2s, store, local>>

ClientDelM2 ==
    /\ FromServer("delM2", "DelM2")
    /\ Reply("delAsk", "none")
    /\ UNCHANGED <<user, cAuth, cOp, server, c2s, store, local>>

\* The user answers the question; only a yes is followed by M4.
ClientDelAsk ==
    /\ c_pc = "delAsk"
    /\ \/ /\ ToServer(Msg("DelM3", c_key, c_ctr, Code("DELETE_CONFIRM")))
          /\ ClientIncrement("delM4")
          /\ UNCHANGED c_res
       \/ /\ ToServer(Msg("DelM3", c_key, c_ctr, Code("NO_DELETE_CONFIRM")))
          /\ ClientIncrement("menu")
          /\ c_res' = "NO_DELETE_CONFIRM"
    /\ UNCHANGED <<user, cAuth, cOp, server, s2c, store, local>>

ClientDelM4 ==
    /\ FromServer("delM4", "DelM4")
    /\ Reply("menu", "SUCCESS")
    /\ UNCHANGED <<user, cAuth, cOp, server, c2s, store, local>>

\* Option 6 returns to main, which connects anew; option 7 ends the process if the
\* logout succeeded.  Neither side counts this message, and nobody closes the socket.
ClientOutM2 ==
    /\ FromServer("outM2", "OutM2")
    /\ c_res' = Verdict(Head(s2c), c_key, c_ctr)
    /\ c_pc' \in IF Accepted THEN {"left", "exit"} ELSE {"left"}
    /\ UNCHANGED <<user, c_ret, c_ctr, cAuth, cOp, server, c2s, store, local>>

-----------------------------------------------------------------------------
(* Server::run and the handlers.                                            *)

Handler == [ListM1 |-> "listM2", DownM1 |-> "downM2", UpM1 |-> "upM2", RenM1 |-> "renM2",
            DelM1 |-> "delM2", OutM1 |-> "outM2"]

\* A request that fails to decrypt returns from run(), a wrong counter throws out of it.
\* Bytes that are no request are read as one and fail to decrypt.
ServerRun ==
    /\ s_pc = "run"
    /\ c2s # <<>>
    /\ c2s' = Tail(c2s)
    /\ LET m == Head(c2s) IN
         IF m.type \in DOMAIN Handler /\ Verdict(m, s_key, s_ctr) = "SUCCESS"
         THEN /\ ServerIncrement(Handler[m.type])
              /\ s_file' = m.body.file /\ s_new' = m.body.new
              /\ s_size' = m.body.n /\ s_i' = 0
              /\ UNCHANGED <<sOut, store>>
         ELSE ServerLeave("done") /\ UNCHANGED <<s_ret, s_ctr, sOp>>
    /\ UNCHANGED <<user, client, sAuth, s2c, local>>

\* A handler sends its next message and counts it.
Answer(pc, type, body, next) ==
    /\ s_pc = pc
    /\ ToClient(Msg(type, s_key, s_ctr, body))
    /\ ServerIncrement(next)
    /\ UNCHANGED <<user, client, sAuth, s_file, s_new, sOut, c2s, local>>

Stored == {f \in Names : store[f] # Absent}

\* (Faulty: an error is reported, but the message is not counted.)
ServerListSilent_Uncounted ==
    /\ s_pc = "listM2"
    /\ ~HasDirectory \/ Stored = {ErrorName}
    /\ ToClient(Msg("ListM2", s_key, s_ctr, Plain))
    /\ s_pc' = "run"
    /\ UNCHANGED <<user, client, s_ret, s_ctr, sAuth, sOp, sOut, c2s, store, local>>

\* getFilesList returns "error" for a missing directory, and for one whose only file
\* has that name; either way listRequest returns without sending M2.
ServerListSilent ==
    /\ s_pc = "listM2"
    /\ ~HasDirectory \/ Stored = {ErrorName}
    /\ s_pc' = "run"
    /\ UNCHANGED <<user, client, s_ret, s_ctr, sAuth, sOp, sOut, c2s, s2c, store, local>>

\* (Faulty: an empty directory is not worth a message.)
ServerListM2_SkipsEmpty ==
    /\ HasDirectory /\ Stored # {ErrorName}
    /\ IF Stored = {}
       THEN /\ s_pc = "listM2" /\ s_pc' = "run"
            /\ UNCHANGED <<user, client, s_ret, s_ctr, sAuth, s_file, s_new, sOut, c2s,
                           s2c, local>>
       ELSE Answer("listM2", "ListM2", Number(1), "listM3")
    /\ UNCHANGED <<s_size, s_i, store>>

ServerListM2 ==
    /\ HasDirectory /\ Stored # {ErrorName}
    /\ IF Stored = {} THEN Answer("listM2", "ListM2", Plain, "run")
       ELSE Answer("listM2", "ListM2", Number(1), "listM3")
    /\ UNCHANGED <<s_size, s_i, store>>

ServerListM3 ==
    /\ Answer("listM3", "ListM3", Plain, "run")
    /\ UNCHANGED <<s_size, s_i, store>>

\* (Faulty: the number of chunks is rounded down.)
ServerDownM2_Floor ==
    /\ IF store[s_file] \in {Absent, 0}
       THEN Answer("downM2", "DownM2", Code("FILE_NOT_FOUND"), "run") /\ UNCHANGED s_size
       ELSE /\ Answer("downM2", "DownM2",
                      [Code("DOWNLOAD_ACK") EXCEPT !.n = store[s_file] - 1],
                      IF store[s_file] = 1 THEN "run" ELSE "downMi")
            /\ s_size' = store[s_file] - 1
    /\ UNCHANGED <<s_i, store>>

\* The size is announced; a file of size 0 is acknowledged but gets no chunks.
ServerDownM2 ==
    /\ IF store[s_file] = Absent
       THEN Answer("downM2", "DownM2", Code("FILE_NOT_FOUND"), "run") /\ UNCHANGED s_size
       ELSE /\ Answer("downM2", "DownM2",
                      [Code("DOWNLOAD_ACK") EXCEPT !.n = store[s_file]],
                      IF store[s_file] = 0 THEN "run" ELSE "downMi")
            /\ s_size' = store[s_file]
    /\ UNCHANGED <<s_i, store>>

ServerDownMi ==
    /\ Answer("downMi", "DownMi", Number(s_i), IF s_i + 1 = s_size THEN "run" ELSE "downMi")
    /\ s_i' = s_i + 1
    /\ UNCHANGED <<s_size, store>>

ServerUpM2 ==
    /\ IF store[s_file] # Absent
       THEN Answer("upM2", "UpM2", Code("NACK"), "run")
       ELSE Answer("upM2", "UpM2", Code("ACK"), "upLook")
    /\ UNCHANGED <<s_size, s_i, store>>

FirstChunk == IF s_size = 0 THEN "upEnd" ELSE "upMi"

\* openFile looks for the file again; if it is there by now, that is logged and the stream
\* stays closed.
ServerUpLook ==
    /\ s_pc = "upLook"
    /\ s_pc' = IF store[s_file] = Absent THEN "upCreate" ELSE FirstChunk
    /\ UNCHANGED <<user, client, s_ret, s_ctr, sAuth, sOp, sOut, c2s, s2c, store, local>>

\* (Faulty: the file is opened for appending, whatever is there.)
ServerUpCreate_Append ==
    /\ s_pc = "upCreate"
    /\ s_stream' = IF HasDirectory THEN "open" ELSE s_stream
    /\ store' = IF HasDirectory /\ store[s_file] = Absent
                THEN [store EXCEPT ![s_file] = 0] ELSE store
    /\ s_pc' = FirstChunk
    /\ UNCHANGED <<user, client, s_ret, s_ctr, sAuth, sOp, s_buf, c2s, s2c, local>>

\* It creates the file, or empties the one that another session has created meanwhile; in
\* a directory that does not exist it fails, which is logged too.
ServerUpCreate ==
    /\ s_pc = "upCreate"
    /\ s_stream' = IF HasDirectory THEN "open" ELSE s_stream
    /\ store' = IF HasDirectory THEN [store EXCEPT ![s_file] = 0] ELSE store
    /\ s_pc' = FirstChunk
    /\ UNCHANGED <<user, client, s_ret, s_ctr, sAuth, sOp, s_buf, c2s, s2c, local>>

\* (Faulty: chunks are not counted.)
ServerUpMi_Uncounted ==
    /\ FromClient("upMi", "UpMi")
    /\ IF Verdict(Head(c2s), s_key, s_ctr) = "SUCCESS"
       THEN s_pc' = "upWrite" /\ UNCHANGED <<sOut, store>>
       ELSE ServerLeave("run")
    /\ UNCHANGED <<user, client, s_ret, s_ctr, sAuth, sOp, s2c, local>>

ServerUpMi ==
    /\ FromClient("upMi", "UpMi")
    /\ IF Verdict(Head(c2s), s_key, s_ctr) = "SUCCESS"
       THEN ServerIncrement("upWrite") /\ UNCHANGED <<sOut, store>>
       ELSE ServerLeave("run") /\ UNCHANGED <<s_ret, s_ctr>>
    /\ UNCHANGED <<user, client, sAuth, sOp, s2c, local>>

\* writeChunk reports success even if the stream is closed.  A full chunk goes to the
\* file; the last one, if it is short, may stay in the stream's buffer.
ServerUpWrite ==
    /\ s_pc = "upWrite"
    /\ s_buf' \in IF s_stream = "open" /\ s_i + 1 = s_size THEN BOOLEAN ELSE {FALSE}
    /\ store' = IF s_stream = "open" /\ ~s_buf'
                THEN [store EXCEPT ![s_file] = @ + 1] ELSE store
    /\ s_i' = s_i + 1
    /\ s_pc' = IF s_i + 1 = s_size THEN "upEnd" ELSE "upMi"
    /\ UNCHANGED <<user, client, s_ret, s_ctr, sAuth, s_file, s_new, s_size, s_stream,
                   c2s, s2c, local>>

ServerUpEnd ==
    /\ Answer("upEnd", "UpEnd", Code("ACK"), "upClose")
    /\ UNCHANGED <<s_size, s_i, store>>

ServerUpClose ==
    /\ s_pc = "upClose"
    /\ ServerLeave("run")
    /\ UNCHANGED <<user, client, s_ret, s_ctr, sAuth, sOp, c2s, s2c, local>>

ServerRenM2 ==
    /\ IF store[s_file] = Absent
       THEN Answer("renM2", "RenM2", Code("FILE_NOT_FOUND"), "run") /\ UNCHANGED store
       ELSE IF store[s_new] # Absent
       THEN Answer("renM2", "RenM2", Code("FILE_ALREADY_EXISTS"), "run") /\ UNCHANGED store
       ELSE /\ Answer("renM2", "RenM2", Code("ACK"), "run")
            /\ store' = [store EXCEPT ![s_new] = store[s_file], ![s_file] = Absent]
    /\ UNCHANGED <<s_size, s_i>>

ServerDelM2 ==
    /\ Answer("delM2", "DelM2", Code("DELETE_ASK"), "delM3")
    /\ UNCHANGED <<s_size, s_i, store>>

\* (Faulty: any answer deletes the file.)
ServerDelM3_AnyAnswer ==
    /\ FromClient("delM3", "DelM3")
    /\ IF Verdict(Head(c2s), s_key, s_ctr) = "SUCCESS"
       THEN ServerIncrement("delM4")
       ELSE s_pc' = "run" /\ UNCHANGED <<s_ret, s_ctr>>
    /\ UNCHANGED <<user, client, sAuth, sOp, sOut, s2c, store, local>>

ServerDelM3 ==
    /\ FromClient("delM3", "DelM3")
    /\ LET m == Head(c2s) IN
         IF Verdict(m, s_key, s_ctr) = "SUCCESS"
         THEN ServerIncrement(IF m.body.code = "DELETE_CONFIRM" THEN "delM4" ELSE "run")
         ELSE s_pc' = "run" /\ UNCHANGED <<s_ret, s_ctr>>
    /\ UNCHANGED <<user, client, sAuth, sOp, sOut, s2c, store, local>>

\* (Faulty: the failure is reported, but the message is not counted.)
ServerDelSilent_Uncounted ==
    /\ s_pc = "delM4"
    /\ store[s_file] = Absent
    /\ ToClient(Msg("DelM4", s_key, s_ctr, Code("NACK")))
    /\ s_pc' = "run"
    /\ UNCHANGED <<user, client, s_ret, s_ctr, sAuth, sOp, sOut, c2s, store, local>>

\* The file is looked for only now; if it is gone the handler returns without M4.
ServerDelSilent ==
    /\ s_pc = "delM4"
    /\ store[s_file] = Absent
    /\ s_pc' = "run"
    /\ UNCHANGED <<user, client, s_ret, s_ctr, sAuth, sOp, sOut, c2s, s2c, store, local>>

ServerDelM4 ==
    /\ store[s_file] # Absent
    /\ store' = [store EXCEPT ![s_file] = Absent]
    /\ Answer("delM4", "DelM4", Code("ACK"), "run")
    /\ UNCHANGED <<s_size, s_i>>

\* The reply is encrypted before the key is wiped, and not counted.
ServerOutM2 ==
    /\ s_pc = "outM2"
    /\ ToClient(Msg("OutM2", s_key, s_ctr, Code("ACK")))
    /\ s_key' = NoKey
    /\ s_pc' = "run"
    /\ UNCHANGED <<user, client, s_ret, s_ctr, s_eph, s_peer, sOp, sOut, c2s, store, local>>

-----------------------------------------------------------------------------
(* Ends and failures.                                                       *)

\* A process that is killed or exits closes its socket.  The peer may still read what
\* was sent, or, if the socket is reset, only a part of it.
Prefixes(q) == {SubSeq(q, 1, k) : k \in 0 .. Len(q)}

ClientExit ==
    /\ ClientMayExit
    /\ c_pc # "exit"
    /\ c_pc' = "exit"
    /\ c2s' \in Prefixes(c2s)
    /\ s2c' = <<>>
    /\ UNCHANGED <<user, c_ret, c_ctr, cAuth, cOp, c_res, server, store, local>>

\* What an ofstream still buffers is lost with the process.
ServerExit ==
    /\ ServerMayExit
    /\ s_pc # "crashed"
    /\ s_pc' = "crashed"
    /\ s_stream' = "closed" /\ s_buf' = FALSE
    /\ s2c' \in Prefixes(s2c)
    /\ c2s' = <<>>
    /\ UNCHANGED <<user, client, s_ret, s_ctr, sAuth, sOp, store, local>>

\* (Faulty: the operations wait on after the end of the stream.)
ClientEof_OnlyAuth ==
    /\ s_pc = "crashed"
    /\ s2c = <<>>
    /\ c_pc \in ClientReceives \cap AuthPcs
    /\ c_pc' = "left"
    /\ UNCHANGED <<user, c_ret, c_ctr, cAuth, cOp, c_res, server, c2s, s2c, store, local>>

\* receive returns -2 or -1.  Authentication tests for 0, so it fails; its M2 is the
\* exception, but a buffer read as an ACK only leads to the failing receive of M3.  The
\* operations test for -1: after -2 they decrypt a buffer nobody wrote, which fails.
ClientEof ==
    /\ s_pc = "crashed"
    /\ s2c = <<>>
    /\ c_pc \in ClientReceives
    /\ IF c_pc \in AuthPcs \cup {"outM2"}
       THEN c_pc' = "left" /\ UNCHANGED <<c_ret, c_ctr, c_res>>
       ELSE \E res \in {"RECEIVE_FAILURE", "DECRYPTION_FAILURE"} : ClientReturn(res)
    /\ UNCHANGED <<user, cAuth, cOp, server, c2s, s2c, store, local>>

\* (Faulty: run() does not test for the end of the stream either.)
ServerEof_Retries ==
    /\ c_pc = "exit"
    /\ c2s = <<>>
    /\ s_pc \in ServerReceives
    /\ ServerLeave("run")
    /\ UNCHANGED <<user, client, s_ret, s_ctr, sAuth, sOp, c2s, s2c, local>>

\* The handlers go back to run(), which then sees the end of the stream itself.
ServerEof ==
    /\ c_pc = "exit"
    /\ c2s = <<>>
    /\ s_pc \in ServerReceives
    /\ ServerLeave(IF s_pc \in {"upMi", "delM3"} THEN "run" ELSE "done")
    /\ UNCHANGED <<user, client, s_ret, s_ctr, sAuth, sOp, c2s, s2c, local>>

\* Writing to a closed connection raises SIGPIPE, and the handler throws out of a C
\* call: undefined, the exception is caught by run() or the process is terminated.
ClientSigpipe ==
    /\ s_pc = "crashed"
    /\ c_pc \in ClientSends
    /\ c_pc' \in {"left", "exit"}
    /\ UNCHANGED <<user, c_ret, c_ctr, cAuth, cOp, c_res, server, c2s, s2c, store, local>>

ServerSigpipe ==
    /\ c_pc = "exit"
    /\ s_pc \in ServerSends
    /\ \/ ServerLeave("done")
       \/ s_pc' = "crashed" /\ s_stream' = "closed" /\ s_buf' = FALSE /\ UNCHANGED store
    /\ UNCHANGED <<user, client, s_ret, s_ctr, sAuth, sOp, c2s, s2c, local>>

\* Another session of the same user changes one file: it removes it, puts another one in its
\* place, or empties it and writes into it.  It may do so to the file that this thread holds
\* open for an upload: one that looked for the name before this thread created the file
\* opens the same file afterwards.
OtherSession ==
    /\ OtherSessions /\ HasDirectory
    /\ \E f \in Names, n \in Sizes :
         /\ store' = [store EXCEPT ![f] = n]
         /\ s_stream' = IF s_stream = "open" /\ f = s_file THEN "disturbed" ELSE s_stream
    /\ UNCHANGED <<user, client, s_pc, s_ret, s_ctr, sAuth, sOp, s_buf, c2s, s2c, local>>

-----------------------------------------------------------------------------
UserStep ==
    ClientList \/ ClientDownload \/ ClientUpload \/ ClientRename \/ ClientDelete
    \/ ClientLogout

ClientStep ==
    \/ ClientAuthM1 \/ ClientAuthM2 \/ ClientAuthM3 \/ ClientAuthM4 \/ ClientAuthM5
    \/ ClientListM2 \/ ClientListM3
    \/ ClientDownM2 \/ ClientDownOpen \/ ClientDownMi \/ ClientDownWrite
    \/ ClientUpM2 \/ ClientUpMi \/ ClientUpEnd
    \/ ClientRenM2
    \/ ClientDelM2 \/ ClientDelAsk \/ ClientDelM4
    \/ ClientOutM2
    \/ ClientEof \/ ClientSigpipe

ServerStep ==
    \/ ServerUnknownUser \/ ServerAuthM1 \/ ServerAuthM2 \/ ServerAuthM3 \/ ServerAuthM4
    \/ ServerAuthM5
    \/ ServerRun
    \/ ServerListSilent \/ ServerListM2 \/ ServerListM3
    \/ ServerDownM2 \/ ServerDownMi
    \/ ServerUpM2 \/ ServerUpLook \/ ServerUpCreate \/ ServerUpMi \/ ServerUpWrite
    \/ ServerUpEnd \/ ServerUpClose
    \/ ServerRenM2
    \/ ServerDelM2 \/ ServerDelM3 \/ ServerDelSilent \/ ServerDelM4
    \/ ServerOutM2
    \/ ServerEof \/ ServerSigpipe

Next == UserStep \/ ClientStep \/ ServerStep \/ ClientExit \/ ServerExit \/ OtherSession

Spec == Init /\ [][Next]_vars

\* Each program runs on by itself as long as it is not blocked in receive; the user
\* answers the delete question but need not pick another operation.
FairSpec == Spec /\ WF_vars(ClientStep) /\ WF_vars(ServerStep)


-----------------------------------------------------------------------------
(* Properties.                                                              *)

ClientOK ==
    /\ c_pc \in ClientPcs /\ c_ret \in ClientPcs /\ c_ctr \in 0..MaxCounter
    /\ c_key \in Keys /\ c_eph \in Nat
    /\ c_file \in Names /\ c_size \in Nat /\ c_i \in Nat /\ c_res \in Results \cup Codes

ServerOK ==
    /\ s_pc \in ServerPcs /\ s_ret \in ServerPcs /\ s_ctr \in 0..MaxCounter
    /\ s_key \in Keys /\ s_eph \in Nat /\ s_peer \in Nat
    /\ s_file \in Names /\ s_new \in Names /\ s_size \in Nat /\ s_i \in Nat
    /\ s_stream \in Streams /\ s_buf \in BOOLEAN

ChannelsOK == c2s \in Seq(Message) /\ s2c \in Seq(Message)

\* A stored file has a size or is absent; no write makes a negative size of it.
DisksOK == store \in [Names -> Nat \cup {Absent}] /\ local \in [Names -> Nat \cup {Absent}]

\* Every variable keeps its range; in particular no counter passes MAX_COUNTER_VALUE
\* (uint32_t in Client.h and Server.h) and no body carries a value of another field.
TypeOK == user \in UserKinds /\ ClientOK /\ ServerOK /\ ChannelsOK /\ DisksOK

\* The place of the operation the client is in, whether or not it re-authenticates, and
\* that of the handler the server thread is in.
ClientAt == IF c_pc \in AuthPcs THEN c_ret ELSE c_pc
ServerAt == IF s_pc \in AuthPcs THEN s_ret ELSE s_pc

ClientWaits == c_pc \in ClientReceives /\ s2c = <<>>
ServerWaits == s_pc \in ServerReceives \cup {"done"} /\ c2s = <<>>

\* What a receiver at pc reads next: the type of the message, and for the messages after
\* the handshake its key and counter.
Expected(pc) ==
    CASE pc = "authM1" -> "AuthM1" [] pc = "authM2" -> "AuthM2" [] pc = "authM3" -> "AuthM3"
      [] pc = "authM4" -> "AuthM4" [] pc = "authM5" -> "AuthM5"
      [] pc = "listM2" -> "ListM2" [] pc = "listM3" -> "ListM3"
      [] pc = "downM2" -> "DownM2" [] pc = "downMi" -> "DownMi"
      [] pc = "upM2" -> "UpM2" [] pc = "upMi" -> "UpMi" [] pc = "upEnd" -> "UpEnd"
      [] pc = "renM2" -> "RenM2" [] pc = "delM2" -> "DelM2" [] pc = "delM3" -> "DelM3"
      [] pc = "delM4" -> "DelM4" [] OTHER -> "OutM2"

\* No message is ever misread or rejected between two honest programs, whatever
\* operation re-authentication interrupts: the receiver expects exactly the message at
\* the head of its channel, under its own key and counter (the checks that end in
\* DECRYPTION_FAILURE, WRONG_COUNTER or a request of the wrong length).
NothingRejected ==
    /\ c_pc \in ClientReceives /\ s2c # <<>> =>
         LET m == Head(s2c) IN
         /\ m.type = Expected(c_pc)
         /\ c_pc \notin {"authM2", "authM3"} => Verdict(m, c_key, c_ctr) = "SUCCESS"
         /\ c_pc = "authM3" => m.ctr = 0 /\ m.key = <<c_eph, m.body.n>>
    /\ s_pc \in ServerReceives /\ c2s # <<>> =>
         LET m == Head(c2s) IN
         /\ IF s_pc = "run" THEN m.type \in DOMAIN Handler ELSE m.type = Expected(s_pc)
         /\ s_pc # "authM1" => Verdict(m, s_key, s_ctr) = "SUCCESS"

\* While both programs are past authentication they hold the same session key, and their
\* counters differ by exactly the messages in flight: neither incrementCounter call is
\* missing or doubled on any path of any operation, early returns included.
InStep ==
    (c_pc \notin AuthPcs \cup Gone \cup {"outM2"} /\ s_pc \notin AuthPcs \cup Gone) =>
        /\ c_key = s_key
        /\ c_ctr + Len(s2c) = s_ctr + Len(c2s)

\* Client and server thread are never both blocked in receive with nothing in flight,
\* unless the client sits at its menu: no operation waits for an answer that no path of
\* the handler sends.
NoMutualWait == ~(ClientWaits /\ ServerWaits)

\* When uploadRequest returns SUCCESS to the user, the storage holds the whole file, but
\* for a last chunk the open stream still buffers.
UploadComplete == [][
    (c_pc = "upEnd" /\ c_res' = "SUCCESS") =>
        store[c_file] + (IF s_buf THEN 1 ELSE 0) = c_size ]_vars

\* The file an upload has opened is exactly the chunks received so far, at every place of
\* the transfer and of the handshakes in it, until another session removes, replaces or
\* opens it too: whenever the client or the server cuts the upload short, what stays behind
\* is a prefix.  (What two uploads make of one file is in Storage.)
UploadPrefix == s_stream = "open" => store[s_file] + (IF s_buf THEN 1 ELSE 0) = s_i

\* When downloadRequest returns SUCCESS, the local file has as many chunks as the stored
\* file had when the server opened it.
DownloadComplete == [][
    (c_pc \in {"downOpen", "downWrite"} /\ c_res' = "SUCCESS") =>
        local'[c_file] = store[c_file] ]_vars

\* A stored file disappears under its name only when the user of this session renamed
\* it, or answered yes to the question about this very file.
DeleteOnlyConfirmed == [][
    \A f \in Names : (store[f] # Absent /\ store'[f] = Absent) =>
        c_file = f /\ <<s_pc, ClientAt>> \in {<<"renM2", "renM2">>, <<"delM4", "delM4">>} ]_vars

\* Every operation, and the login, comes back to the user.
OperationsFinish ==
    (c_pc \notin {"menu", "left", "exit"}) ~> (c_pc \in {"menu", "left", "exit"})

\* The thread of a client process that has ended ends too.
ThreadEnds == (c_pc = "exit") ~> (s_pc \in {"done", "crashed"})

-----------------------------------------------------------------------------
(* What the documentation says and the code does not do.                    *)

\* Server.cpp:804-805: "Send the final response to the client, indicating the overall
\* success or failure of the file delete".  Server.cpp:348: "Sends a response message
\* (ListM2) containing the size of the file list."  Client.cpp:39-40: "Receive and
\* deserialize an AuthenticationM2 message from the server indicating the existence of the
\* user."  A client that waits for one of these answers gets it, or learns that it will not.
RequestsAnswered == \A pc \in {"delM4", "listM2", "authM2"} : (c_pc = pc) ~> (c_pc # pc)

=============================================================================

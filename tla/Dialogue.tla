------------------------------ MODULE Dialogue ------------------------------
(***************************************************************************)
(* What the client, the server thread and the messages between them have to *)
(* do with each other at any moment: the inductive invariant behind         *)
(* NothingRejected and InStep.                                              *)
(*                                                                         *)
(* Each side alone: the messages on their way to it are those it will       *)
(* accept, in this order (ClientNumbers and ClientTakes, ServerNumbers and  *)
(* ServerTakes).  These hold without the other side, whose end can only cut *)
(* messages off.  Both together, as long as neither is gone: their places   *)
(* in the handshake (InHandshake) and in the operation (InOperation) fit.   *)
(***************************************************************************)
EXTENDS Session

Handshake == {"AuthM1", "AuthM2", "AuthM3", "AuthM4", "AuthM5"}

\* The requests and chunks on their way to the server: at most AuthM1 can follow them.
AskedIn(q) ==
    IF q # <<>> /\ q[Len(q)].type \in Handshake THEN SubSeq(q, 1, Len(q) - 1) ELSE q
Asked == AskedIn(c2s)

\* The answers on their way to the client: only AuthM5 can stand before them.
AnsweredIn(q) ==
    IF q = <<>> \/ q[1].type \notin Handshake THEN q
    ELSE IF q[1].type = "AuthM5" THEN Tail(q)
    ELSE <<>>
Answered == AnsweredIn(s2c)

ClientHere == c_pc \notin Gone
ServerHere == s_pc \notin Gone

-----------------------------------------------------------------------------
(* Keys, counters and handshake messages.                                   *)

\* Message m has the key and the counter that the receiver will have at its turn.
Fits(m, key, ctr) == m.type \notin Handshake /\ m.key = key /\ m.ctr = ctr

\* AuthM3 of a server that has the client's ephemeral key.
GoodM3(m) == m.type = "AuthM3" /\ m.ctr = 0 /\ m.key = <<c_eph, m.body.n>>

\* The client takes what is under way in this order.
ClientNumbers ==
    /\ c_pc \notin AuthPcs => \A k \in 1..Len(s2c) : Fits(s2c[k], c_key, c_ctr + k - 1)
    /\ c_pc \in {"auth", "authM4"} => s2c = <<>>
    /\ c_pc = "authM2" /\ s2c # <<>> =>
         /\ Len(s2c) <= 2 /\ s2c[1].type = "AuthM2"
         /\ Len(s2c) = 2 => s2c[1].body.code = "ACK" /\ GoodM3(s2c[2])
    /\ c_pc = "authM3" /\ s2c # <<>> => Len(s2c) = 1 /\ GoodM3(s2c[1])
    /\ c_pc = "authM4" => c_ctr = 1
    /\ c_pc = "authM5" /\ s2c # <<>> =>
         /\ s2c[1].type = "AuthM5" /\ Verdict(s2c[1], c_key, c_ctr) = "SUCCESS"
         /\ Len(s2c) > 1 => s2c[1].body.code = "ACK"
         /\ \A k \in 2..Len(s2c) : Fits(s2c[k], c_key, k - 2)

\* The client may be a handshake ahead: AuthM1 follows a message that has used up the last
\* value of the counter.
ServerNumbers ==
    /\ s_pc \notin AuthPcs => \A k \in 1..Len(c2s) :
         IF c2s[k].type = "AuthM1" THEN k = Len(c2s) /\ s_ctr + k = MaxCounter + 2
         ELSE Fits(c2s[k], s_key, s_ctr + k - 1)
    /\ s_pc \in AuthPcs /\ c2s # <<>> =>
         /\ Len(c2s) = 1
         /\ \/ s_pc = "authM1" /\ c2s[1].type = "AuthM1"
            \/ /\ s_pc = "authM4" /\ c2s[1].type = "AuthM4"
               /\ Verdict(c2s[1], s_key, s_ctr) = "SUCCESS"
    /\ s_pc = "authM4" => s_ctr = 1

\* The keys and counters of both.  Once the logout is answered the server has wiped its key.
Agree == c_key = s_key /\ c_ctr + Len(s2c) = s_ctr + Len(c2s)
LoggedOut == ClientAt = "outM2" /\ s_pc = "run" /\ c2s = <<>>

InHandshake ==
    \/ /\ c_pc \notin AuthPcs /\ s_pc \notin AuthPcs /\ (LoggedOut \/ Agree)
    \/ /\ c_pc \notin AuthPcs /\ s_pc = "authM1"
       /\ c_key = s_key /\ c_ctr + Len(s2c) = MaxCounter + 1 /\ c2s = <<>>
    \/ /\ c_pc = "auth" /\ s_pc \notin AuthPcs
       /\ c_key = s_key /\ s_ctr + Len(c2s) = MaxCounter + 1 /\ Asked = c2s
    \/ c_pc = "auth" /\ s_pc = "authM1" /\ c2s = <<>> /\ c_key = s_key
    \/ /\ c_pc = "authM2" /\ s_pc \notin AuthPcs \ {"authM1"} /\ s2c = <<>> /\ c_key = s_key
       /\ c2s # <<>> /\ c2s[Len(c2s)].type = "AuthM1" /\ c2s[Len(c2s)].body.n = c_eph
    \/ c_pc = "authM2" /\ s_pc = "authM2" /\ s2c = <<>> /\ s_peer = c_eph
    \/ /\ c_pc = "authM2" /\ s_pc = "authM3" /\ s_peer = c_eph
       /\ Len(s2c) = 1 /\ s2c[1].body.code = "ACK"
    \/ /\ c_pc = "authM2" /\ s_pc = "authM4" /\ Len(s2c) = 2 /\ s2c[2].key = s_key
       /\ c2s = <<>>
    \/ c_pc = "authM3" /\ s_pc = "authM3" /\ s2c = <<>> /\ s_peer = c_eph
    \/ /\ c_pc = "authM3" /\ s_pc = "authM4" /\ Len(s2c) = 1 /\ s2c[1].key = s_key
       /\ c2s = <<>>
    \/ c_pc = "authM4" /\ s_pc = "authM4" /\ c_key = s_key /\ c2s = <<>>
    \/ /\ c_pc = "authM5" /\ s_pc = "authM4" /\ s2c = <<>> /\ c2s # <<>>
       /\ c_key = s_key /\ c_ctr = 2
    \/ c_pc = "authM5" /\ s_pc = "authM5" /\ s2c = <<>> /\ c_key = s_key /\ c_ctr = s_ctr
    \/ /\ c_pc = "authM5" /\ s_pc \notin AuthPcs /\ c2s = <<>> /\ s2c # <<>>
       /\ s2c[1].body.code = "ACK"
       /\ LoggedOut \/ (c_key = s_key /\ s_ctr = Len(s2c) - 1)
    \/ /\ c_pc = "authM5" /\ s_pc = "authM1" /\ c2s = <<>> /\ Len(s2c) = MaxCounter + 2
       /\ s2c[1].body.code = "ACK" /\ c_key = s_key

-----------------------------------------------------------------------------
(* The operations.                                                          *)

\* The chunks that are behind the client of a download, or the server of an upload.
ClientChunks == CASE ClientAt = "downOpen" -> 0 [] ClientAt = "downWrite" -> c_i + 1
                  [] OTHER -> c_i
ServerChunks == IF ServerAt = "upWrite" THEN s_i + 1 ELSE s_i

\* The server is done, or nearly; it is in an upload it has accepted; the client is in the
\* chunks of a download.
Idle == {"run", "upClose"}
Receiving == {"upLook", "upCreate", "upMi", "upWrite"}
Downloading == {"downOpen", "downMi", "downWrite"}
FirstWaits == {"listM2", "downM2", "upM2", "renM2", "delM2", "outM2"}
SingleWaits == {"listM3", "upM2", "upEnd", "renM2", "delM2", "delM4", "outM2"}

IsRequest(m) == m.type \in DOMAIN Handler
Refuses(m) == m.body.code = "NO_DELETE_CONFIRM"

\* The client takes the answers under way where it is.
ClientTakes ==
    LET n == Len(Answered) IN
    /\ ClientAt = "listM2" =>
         /\ n <= 2
         /\ n >= 1 => Answered[1].type = "ListM2"
         /\ n = 2 => Answered[1].body.n # 0 /\ Answered[2].type = "ListM3"
    /\ ClientAt = "downM2" /\ n > 0 =>
         /\ Answered[1].type = "DownM2" /\ n - 1 <= Answered[1].body.n
         /\ n > 1 => Answered[1].body.code # "FILE_NOT_FOUND"
         /\ \A k \in 2..n : Answered[k].type = "DownMi"
    /\ ClientAt \in Downloading =>
         /\ \A k \in 1..n : Answered[k].type = "DownMi"
         /\ ClientChunks + n <= c_size
    /\ ClientAt \in SingleWaits => n = 0 \/ (n = 1 /\ Answered[1].type = Expected(ClientAt))
    /\ ClientAt \in {"menu", "upMi", "delAsk"} => n = 0
    /\ ClientAt \in {"listM2", "downM2", "menu", "upMi", "delAsk"} \cup Downloading
                      \cup SingleWaits

\* The server takes the requests, the answer to its question and the chunks where it is.
ServerTakes ==
    LET n == Len(Asked) IN
    /\ ServerAt \in Idle => n = 0 \/ (n = 1 /\ IsRequest(Asked[1]))
    /\ ServerAt = "delM3" /\ n > 0 =>
         /\ n <= 2 /\ Asked[1].type = "DelM3"
         /\ n = 2 => Refuses(Asked[1]) /\ IsRequest(Asked[2])
    /\ ServerAt \in Receiving =>
         /\ \A k \in 1..n : Asked[k].type = "UpMi"
         /\ ServerChunks + n <= s_size
    /\ ServerAt \notin Idle \cup Receiving \cup {"delM3"} => n = 0
    /\ ServerAt = "upM2" => s_i = 0
    /\ ServerAt \notin AuthPcs \cup Gone

\* Request m is what the client at its first place has sent.
IsOwnRequest(m) ==
    /\ IsRequest(m) /\ Handler[m.type] = ClientAt
    /\ ClientAt = "upM2" => m.body.n = c_size

\* The client has sent its request and has had no answer.
AwaitsHandler ==
    LET n == Len(Asked) IN
    /\ ClientAt \in FirstWaits /\ Answered = <<>>
    /\ ClientAt = "upM2" => c_i = 0 /\ c_size > 0
    /\ \/ ServerAt \in Idle /\ n = 1 /\ IsOwnRequest(Asked[1])
       \/ ServerAt = "delM3" /\ n = 2 /\ IsOwnRequest(Asked[2])
       \/ /\ ServerAt = ClientAt /\ n = 0 /\ s_i = 0
          /\ ClientAt = "upM2" => s_size = c_size

AtMenu ==
    /\ ClientAt = "menu" /\ Answered = <<>>
    /\ \/ ServerAt \in Idle /\ Asked = <<>>
       \/ ServerAt = "delM3" /\ Len(Asked) = 1 /\ Refuses(Asked[1])

InList ==
    LET m == Len(Answered) IN
    /\ Asked = <<>>
    /\ \/ /\ ClientAt = "listM2"
          /\ \/ ServerAt = "run" /\ m = 0
             \/ ServerAt = "run" /\ m = 1 /\ Answered[1].body.n = 0
             \/ ServerAt = "listM3" /\ m = 1 /\ Answered[1].body.n # 0
             \/ ServerAt = "run" /\ m = 2
       \/ /\ ClientAt = "listM3"
          /\ \/ ServerAt = "listM3" /\ m = 0
             \/ ServerAt = "run" /\ m = 1

InDownload ==
    LET m == Len(Answered) IN
    /\ Asked = <<>>
    /\ \/ /\ ClientAt = "downM2" /\ m > 0
          /\ \/ ServerAt = "run" /\ Answered[1].body.code = "FILE_NOT_FOUND"
             \/ /\ Answered[1].body.code # "FILE_NOT_FOUND"
                /\ \/ ServerAt = "run" /\ m - 1 = Answered[1].body.n
                   \/ /\ ServerAt = "downMi" /\ m - 1 = s_i /\ s_i < s_size
                      /\ Answered[1].body.n = s_size
       \/ /\ ClientAt \in Downloading
          /\ ClientAt # "downOpen" => c_i < c_size
          /\ \/ ServerAt = "run" /\ ClientChunks + m = c_size
             \/ /\ ServerAt = "downMi" /\ s_size = c_size /\ ClientChunks + m = s_i
                /\ s_i < s_size

InUpload ==
    LET n == Len(Asked)
        m == Len(Answered) IN
    \/ /\ ClientAt = "upM2" /\ n = 0 /\ m = 1 /\ c_i = 0 /\ c_size > 0
       /\ \/ ServerAt = "run" /\ Answered[1].body.code = "NACK"
          \/ /\ ServerAt \in {"upLook", "upCreate", "upMi"} /\ Answered[1].body.code # "NACK"
             /\ s_size = c_size /\ s_i = 0
    \/ /\ ClientAt \in {"upMi", "upEnd"} /\ m = 0 /\ ServerAt \in Receiving
       /\ IF ClientAt = "upMi" THEN c_i < c_size ELSE c_i = c_size
       /\ s_size = c_size /\ s_i < s_size /\ ServerChunks + n = c_i
       /\ ServerAt \in {"upLook", "upCreate"} => s_i = 0
    \/ /\ ClientAt = "upEnd" /\ n = 0
       /\ \/ ServerAt = "upEnd" /\ m = 0
          \/ ServerAt \in Idle /\ m = 1

InRename ==
    ClientAt = "renM2" /\ Asked = <<>> /\ ServerAt = "run" /\ Len(Answered) = 1

InDelete ==
    LET n == Len(Asked)
        m == Len(Answered) IN
    \/ ClientAt = "delM2" /\ n = 0 /\ ServerAt = "delM3" /\ m = 1
    \/ ClientAt = "delAsk" /\ n = 0 /\ ServerAt = "delM3"
    \/ /\ ClientAt = "delM4"
       /\ \/ ServerAt = "delM3" /\ n = 1 /\ m = 0 /\ Asked[1].body.code = "DELETE_CONFIRM"
          \/ ServerAt = "delM4" /\ n = 0 /\ m = 0
          \/ ServerAt = "run" /\ n = 0

InLogout ==
    ClientAt = "outM2" /\ Asked = <<>> /\ s_pc = "run" /\ Len(Answered) = 1

InOperation ==
    AtMenu \/ AwaitsHandler \/ InList \/ InDownload \/ InUpload \/ InRename \/ InDelete
    \/ InLogout

-----------------------------------------------------------------------------
(* The invariant.                                                           *)

\* Each side that is not gone has the key and the counters of what is under way to it, and
\* as long as both are here their places in the handshake fit.  A client leaves a server
\* that is here only after the logout.
KeysAndCounters ==
    /\ ClientHere => ClientNumbers
    /\ ServerHere => ServerNumbers
    /\ ClientHere /\ ServerHere => InHandshake
    /\ c_pc = "left" /\ ServerHere => s_pc = "run" /\ c2s = <<>>

\* Each side that is not gone takes what is under way to it, and as long as both are here
\* they are at matching places of one operation.
Operations ==
    /\ ClientHere => ClientTakes
    /\ ServerHere => ServerTakes
    /\ ClientHere /\ ServerHere => InOperation

\* Every message under way is one that its receiver will accept at its turn, although either
\* side re-authenticates on its own count in the middle of any operation: nothing that is
\* sent ahead, silently dropped or cut off puts the two out of step.
DialogueInv == KeysAndCounters /\ Operations

-----------------------------------------------------------------------------
(* The operations and the files.                                            *)

FileOps == {"downM2", "upM2", "upMi", "upEnd", "renM2", "delM2", "delAsk", "delM4"}
             \cup Downloading

\* The request under way, or the one the server thread has taken last, is about the file
\* the client means.
SameFile ==
    ClientHere /\ ServerHere /\ ClientAt \in FileOps =>
        LET n == Len(Asked) IN
        IF n > 0 /\ IsRequest(Asked[n]) THEN Asked[n].body.file = c_file ELSE s_file = c_file

\* A client that has no result yet says so.
Busy == ClientHere /\ ClientAt # "menu" => c_res = "none"

\* A thread that has ended before its client has told it so, unless it did not know the user.
Dismissed ==
    ClientHere /\ s_pc = "done" =>
        /\ c_pc \in {"authM2", "authM5"}
        /\ IF s2c = <<>> THEN c_pc = "authM2" /\ user = "unknown"
                         ELSE s2c[1].body.code = "NACK"

\* If no client is killed: one that is gone has logged out.
LeftInOrder == c_pc \in {"left", "exit"} /\ ServerHere => s_pc = "run" /\ c2s = <<>>

\* The rest holds if no other session changes the storage.

\* A file that is to be deleted is there until it is.
FileThere ==
    ClientHere /\ ServerHere /\ ClientAt \in {"delM2", "delAsk", "delM4"} =>
        store[c_file] # Absent \/ (ClientAt = "delM4" /\ ServerAt = "run")

\* If there is a directory and no file called "error": the handlers that may return
\* without an answer have given one.
Heeded ==
    ClientHere /\ ServerHere /\ ServerAt = "run" =>
        /\ ClientAt = "listM2" /\ Asked = <<>> => Answered # <<>>
        /\ ClientAt = "delM4" => Answered # <<>>

\* If there is a directory: the chunks of an upload go to a file.
Opened ==
    ServerHere =>
        /\ ServerAt \in {"upLook", "upCreate"} => store[s_file] = Absent
        /\ ServerAt \in {"upMi", "upWrite", "upEnd", "upClose"} => s_stream = "open"
        /\ ServerAt \in {"upEnd", "upClose"} => s_i = s_size

\* If in addition the server is not killed: the file is complete when that is confirmed.
Uploaded ==
    /\ ClientHere => s_pc # "crashed"
    /\ ClientHere /\ ServerHere /\ ClientAt = "upEnd" /\ ServerAt \in {"upEnd"} \cup Idle =>
         /\ s_size = c_size
         /\ ServerAt = "run" => store[c_file] = c_size

\* The stored file is as large as was announced, and the local one as what has been taken.
Downloaded ==
    ClientHere =>
        /\ ClientAt = "downM2" /\ Answered # <<>> /\ Answered[1].body.code # "FILE_NOT_FOUND" =>
             Answered[1].body.n = store[c_file]
        /\ ClientAt \in Downloading => c_size = store[c_file]
        /\ ClientAt \in {"downMi", "downWrite"} => local[c_file] = c_i

=============================================================================

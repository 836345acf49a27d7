-------------------------- MODULE OperationProofs --------------------------
(***************************************************************************)
(* What the dialogue means for the operations and their files: no operation *)
(* waits for ever for an answer, nothing is deleted unasked, what is        *)
(* reported as transferred is, and the messages are numbered in turn.  All  *)
(* of it for any maximum of the counter, any names and any sizes; what a    *)
(* theorem asks of the directory, of the users and of other processes       *)
(* stands in front of it.                                                   *)
(***************************************************************************)
EXTENDS DialogueProofs, Numbering

-----------------------------------------------------------------------------
(* Steps of one side.                                                       *)

\* A step of one program leaves the other and its files alone.
LEMMA Apart ==
    /\ UserStep \/ ClientStep => UNCHANGED <<server, store, user>>
    /\ ServerStep => UNCHANGED <<client, local, user>>
  <1>1. UserStep => UNCHANGED <<server, store, user>>
    BY DEF UserStep, ClientList, ClientDownload, ClientUpload, ClientRename, ClientDelete,
       ClientLogout, Request, Refused
  <1>2. ClientStep => UNCHANGED <<server, store, user>>
    BY DEF ClientStep, ClientAuthM1, ClientAuthM2, ClientAuthM3, ClientAuthM4, ClientAuthM5,
       ClientListM2, ClientListM3, ClientDownM2, ClientDownOpen, ClientDownMi,
       ClientDownWrite, ClientUpM2, ClientUpMi, ClientUpEnd, ClientRenM2, ClientDelM2,
       ClientDelAsk, ClientDelM4, ClientOutM2, ClientEof, ClientSigpipe
  <1>3. ServerStep => UNCHANGED <<client, local, user>>
    BY DEF ServerStep, ServerUnknownUser, ServerAuthM1, ServerAuthM2, ServerAuthM3,
       ServerAuthM4, ServerAuthM5, ServerRun, ServerListSilent, ServerListM2, ServerListM3,
       ServerDownM2, ServerDownMi, ServerUpM2, ServerUpLook, ServerUpCreate, ServerUpMi,
       ServerUpWrite, ServerUpEnd, ServerUpClose, ServerRenM2, ServerDelM2, ServerDelM3,
       ServerDelSilent, ServerDelM4, ServerOutM2, ServerEof, ServerSigpipe, Answer
  <1> QED BY <1>1, <1>2, <1>3

-----------------------------------------------------------------------------
(* What a step of the client means for its operation, as long as it is      *)
(* there.                                                                   *)

\* The user picks an operation: the request says which file is meant, and a file that is to
\* be deleted is there.
Picks ==
    /\ ClientAt = "menu" /\ ClientAt' \in FirstWaits
    /\ Answered' = <<>> /\ local' = local /\ c_res' = "none"
    /\ ServerHere => \E m \in Message :
         /\ Asked' = Append(Asked, m) /\ IsRequest(m)
         /\ ClientAt' \in FileOps => m.body.file = c_file'
    /\ ClientAt' = "delM2" => store[c_file'] # Absent

\* The client stays where it is, in the handshake or at its menu.
Stays ==
    /\ StaysInOperation /\ UNCHANGED <<c_file, c_size, c_i, local>>
    /\ c_res' = c_res \/ ClientAt = "menu"

\* It takes an answer, the last one or one that it goes on after.
TakesAnswer ==
    /\ Answered # <<>> /\ Answered' = Tail(Answered) /\ Asked' = Asked
    /\ UNCHANGED <<c_file, c_i, local>>
    /\ \/ ClientAt' = "menu"
       \/ /\ c_res' = "none"
          /\ \/ ClientAt = "listM2" /\ ClientAt' = "listM3"
             \/ ClientAt = "downM2" /\ ClientAt' = "downOpen"
             \/ ClientAt = "downMi" /\ ClientAt' = "downWrite"
             \/ ClientAt = "upM2" /\ ClientAt' = "upMi"
             \/ ClientAt = "delM2" /\ ClientAt' = "delAsk"
    /\ ClientAt' = "downOpen" =>
         c_size' = Answered[1].body.n /\ Answered[1].body.code # "FILE_NOT_FOUND"
    /\ ClientAt' # "downOpen" => c_size' = c_size

\* It creates the local file or writes a chunk of it.
Writes ==
    /\ Answered' = Answered /\ Asked' = Asked /\ UNCHANGED <<c_file, c_size>>
    /\ \/ ClientAt = "downOpen" /\ c_i' = 0 /\ local' = [local EXCEPT ![c_file] = 0]
       \/ /\ ClientAt = "downWrite" /\ c_i' = c_i + 1
          /\ local' = [local EXCEPT ![c_file] = @ + 1]
    /\ IF c_i' = c_size THEN ClientAt' = "menu" ELSE ClientAt' = "downMi" /\ c_res' = c_res

\* It sends a chunk.
SendsChunk ==
    /\ ClientAt = "upMi" /\ ClientAt' \in {"upMi", "upEnd"}
    /\ Answered' = <<>> /\ UNCHANGED <<c_file, c_size, c_res, local>>
    /\ ServerHere => \E m \in Message : Asked' = Append(Asked, m) /\ m.type = "UpMi"

\* The user answers the question.
Decides ==
    /\ ClientAt = "delAsk" /\ Answered' = <<>> /\ UNCHANGED <<c_file, c_size, local>>
    /\ ClientAt' = "menu" \/ (ClientAt' = "delM4" /\ c_res' = c_res)
    /\ ServerHere => \E m \in Message : Asked' = Append(Asked, m) /\ m.type = "DelM3"

\* It finds that the server is gone.
GivesUp == ClientAt' = "menu" /\ ~ServerHere /\ local' = local /\ Answered' = <<>>

ClientMoves == \/ Picks \/ Stays \/ TakesAnswer \/ Writes \/ SendsChunk \/ Decides \/ GivesUp

\* The user's choice.
LEMMA UserMoves ==
    ASSUME TypeOK, TypeOK', DialogueInv, UserStep
    PROVE  ClientMoves
  <1> USE HandlerIs, BodyTypes
  <1>1. ASSUME NEW type \in DOMAIN Handler, NEW b \in Body, Request(type, b, Handler[type]),
               type \notin {"ListM1", "OutM1"} => b.file = c_file',
               type = "DelM1" => store[c_file'] # Absent
        PROVE  ClientMoves
    <2> DEFINE m == Msg(type, c_key, c_ctr, b)
               next == Handler[type]
    <2>1. /\ type \in Types \ Handshake /\ next \in ClientPcs \ (AuthPcs \cup Gone)
          /\ next \in FirstWaits /\ (next = "delM2" <=> type = "DelM1")
          /\ next \in FileOps => type \notin {"ListM1", "OutM1"}
      BY <1>1 DEF Types, Handshake, ClientPcs, ClientReceives, AuthPcs, Gone, FirstWaits,
         FileOps, Downloading
    <2>2. /\ c_pc = "menu" /\ ToServer(m) /\ ClientIncrement(next) /\ c_res' = "none"
          /\ UNCHANGED <<server, s2c, cAuth, local>>
      BY <1>1 DEF Request
    <2>3. /\ ClientAt' = next /\ Answered' = <<>> /\ m \in Message
          /\ ServerHere => Asked' = Append(Asked, m)
      BY <2>1, <2>2, ClientSendsOne
    <2>4. m.type = type /\ m.body = b
      BY DEF Msg
    <2>5. ClientAt = "menu"
      BY <2>2 DEF ClientAt, AuthPcs
    <2>6. ServerHere => \E mm \in Message :
            /\ Asked' = Append(Asked, mm) /\ IsRequest(mm)
            /\ ClientAt' \in FileOps => mm.body.file = c_file'
      BY <1>1, <2>1, <2>3, <2>4 DEF IsRequest
    <2>7. Picks
      BY <1>1, <2>1, <2>2, <2>3, <2>5, <2>6 DEF Picks
    <2> QED BY <2>7 DEF ClientMoves
  <1>2. ASSUME NEW res, Refused(res)
        PROVE  ClientMoves
    <2>1. UNCHANGED <<c_pc, c_ret, s_pc, s_ret, c_file, c_size, c_i, c2s, s2c, local>>
      BY <1>2 DEF Refused, cOp, server
    <2>2. StaysInOperation
      BY <2>1 DEF StaysInOperation, ClientHere, ServerHere, ClientAt, ServerAt, Asked, Answered
    <2>3. ClientAt = "menu"
      BY <1>2 DEF Refused, ClientAt, AuthPcs
    <2> QED BY <2>1, <2>2, <2>3 DEF Stays, ClientMoves
  <1>3. /\ \A f : File(f).file = f
        /\ \A f, n : [File(f) EXCEPT !.n = n].file = f
        /\ \A f, g : [File(f) EXCEPT !.new = g].file = f
    BY DEF File, Plain
  <1>4. CASE ClientList
    BY <1>1, <1>4 DEF ClientList
  <1>5. CASE ClientDownload
    BY <1>1, <1>2, <1>3, <1>5 DEF ClientDownload, About
  <1>6. CASE ClientUpload
    <2>1. PICK f \in Names :
            \/ Refused("FILE_NOT_FOUND")
            \/ Refused("WRONG_FILE_SIZE")
            \/ /\ local[f] > 0
               /\ Request("UpM1", [File(f) EXCEPT !.n = local[f]], "upM2")
               /\ c_file' = f
      BY <1>6 DEF ClientUpload
    <2>2. CASE /\ local[f] > 0
               /\ Request("UpM1", [File(f) EXCEPT !.n = local[f]], "upM2")
               /\ c_file' = f
      <3>1. local[f] \in Nat
        BY <2>2 DEF TypeOK, DisksOK, Absent
      <3>2. [File(f) EXCEPT !.n = local[f]] \in Body
        BY <3>1 DEF Body
      <3>3. [File(f) EXCEPT !.n = local[f]].file = c_file'
        BY <1>3, <2>2
      <3> QED BY <1>1, <2>2, <3>2, <3>3
    <2> QED BY <1>2, <2>1, <2>2
  <1>7. CASE ClientRename
    <2>1. PICK f \in Names, g \in Names :
            Request("RenM1", [File(f) EXCEPT !.new = g], "renM2") /\ c_file' = f
      BY <1>7 DEF ClientRename, About
    <2>2. [File(f) EXCEPT !.new = g] \in Body
      BY DEF Body
    <2>3. [File(f) EXCEPT !.new = g].file = c_file'
      BY <1>3, <2>1
    <2> QED BY <1>1, <2>1, <2>2, <2>3
  <1>8. CASE ClientDelete
    BY <1>1, <1>2, <1>3, <1>8 DEF ClientDelete, About
  <1>9. CASE ClientLogout
    BY <1>1, <1>9 DEF ClientLogout
  <1> QED BY <1>4, <1>5, <1>6, <1>7, <1>8, <1>9 DEF UserStep

\* The answers.
LEMMA ReplyMoves ==
    ASSUME TypeOK, TypeOK', DialogueInv,
           \/ ClientListM2 \/ ClientListM3 \/ ClientDownM2 \/ ClientDownMi \/ ClientUpM2
           \/ ClientUpEnd \/ ClientRenM2 \/ ClientDelM2 \/ ClientDelM4
    PROVE  ClientMoves
  <1>1. ASSUME NEW pc \in ClientReceives \ (AuthPcs \cup {"outM2"}), NEW type, NEW next, NEW res,
               FromServer(pc, type), Reply(next, res), UNCHANGED <<server, c2s, cAuth>>,
               next \in {"menu", "listM3", "downOpen", "downWrite", "upMi", "delAsk"}
        PROVE  /\ ClientAt = pc /\ ClientAt' = next /\ c_res' = res /\ Accepted
               /\ Answered # <<>> /\ Answered' = Tail(Answered) /\ Asked' = Asked
               /\ Head(s2c) = Answered[1]
    <2>1. next \in ClientPcs \ (AuthPcs \cup Gone)
      BY <1>1 DEF ClientPcs, ClientReceives, ClientSends, AuthPcs, Gone
    <2>2. ClientAt = pc /\ ClientAt' = next /\ Accepted /\ Asked' = Asked
      BY <1>1, <2>1, ReplyDialogue
    <2>3. ClientIncrement(next) /\ c_res' = res
      BY <1>1, <2>2 DEF Reply, Accepted
    <2>4. c_pc = pc /\ s2c # <<>> /\ s2c' = Tail(s2c)
      BY <1>1 DEF FromServer
    <2>5. Answered # <<>> /\ Answered' = Tail(Answered) /\ Head(s2c) = Answered[1]
      BY <1>1, <2>1, <2>3, <2>4, ClientTakesOne
    <2> QED BY <2>2, <2>3, <2>5
  <1>2. {"listM2", "listM3", "downM2", "downMi", "upM2", "upEnd", "renM2", "delM2", "delM4"}
          \subseteq ClientReceives \ (AuthPcs \cup {"outM2"})
    BY DEF ClientReceives, AuthPcs
  <1> SUFFICES TakesAnswer
    BY DEF ClientMoves
  <1>3. CASE ClientListM2 \/ ClientListM3
    BY <1>1, <1>2, <1>3 DEF ClientListM2, ClientListM3, TakesAnswer, cOp
  <1>4. CASE ClientDownM2 \/ ClientDownMi
    <2>1. CASE ClientDownM2 /\ Head(s2c).body.code = "FILE_NOT_FOUND"
      BY <1>1, <1>2, <2>1 DEF ClientDownM2, TakesAnswer
    <2>2. CASE ClientDownM2 /\ Head(s2c).body.code # "FILE_NOT_FOUND"
      BY <1>1, <1>2, <2>2 DEF ClientDownM2, TakesAnswer
    <2>3. CASE ClientDownMi
      BY <1>1, <1>2, <2>3 DEF ClientDownMi, TakesAnswer, cOp
    <2> QED BY <1>4, <2>1, <2>2, <2>3
  <1>5. CASE ClientUpM2 \/ ClientUpEnd
    BY <1>1, <1>2, <1>5 DEF ClientUpM2, ClientUpEnd, TakesAnswer, cOp
  <1>6. CASE ClientRenM2 \/ ClientDelM2 \/ ClientDelM4
    BY <1>1, <1>2, <1>6 DEF ClientRenM2, ClientDelM2, ClientDelM4, TakesAnswer, cOp
  <1> QED BY <1>3, <1>4, <1>5, <1>6

\* The files the client writes, the chunks it sends and the question it answers.
LEMMA FileMoves ==
    ASSUME TypeOK, TypeOK', DialogueInv,
           ClientDownOpen \/ ClientDownWrite \/ ClientUpMi \/ ClientDelAsk
    PROVE  ClientMoves
  <1>1. ASSUME ClientDownOpen \/ ClientDownWrite
        PROVE  Writes
    <2>1. /\ c_pc \in {"downOpen", "downWrite"} /\ c_pc' \in {"menu", "downMi"}
          /\ UNCHANGED <<c2s, s2c, c_file, c_size>>
          /\ IF c_i' = c_size THEN c_pc' = "menu" ELSE c_pc' = "downMi" /\ c_res' = c_res
          /\ \/ c_pc = "downOpen" /\ c_i' = 0 /\ local' = [local EXCEPT ![c_file] = 0]
             \/ /\ c_pc = "downWrite" /\ c_i' = c_i + 1
                /\ local' = [local EXCEPT ![c_file] = @ + 1]
      <3>1. CASE ClientDownOpen
        BY <3>1 DEF ClientDownOpen, ClientReturn
      <3>2. CASE ClientDownWrite
        BY <3>2 DEF ClientDownWrite, ClientReturn
      <3> QED BY <1>1, <3>1, <3>2
    <2>2. ClientAt = c_pc /\ ClientAt' = c_pc' /\ Asked' = Asked /\ Answered' = Answered
      BY <2>1 DEF ClientAt, AuthPcs, Asked, Answered
    <2> QED BY <2>1, <2>2 DEF Writes
  <1>2. {"upMi", "upEnd", "delM4", "menu"} \subseteq ClientPcs \ (AuthPcs \cup Gone)
    BY DEF ClientPcs, ClientReceives, ClientSends, AuthPcs, Gone
  <1>3. {"UpMi", "DelM3"} \subseteq Types \ Handshake
    BY DEF Types, Handshake
  <1>4. ASSUME ClientUpMi
        PROVE  SendsChunk
    <2> DEFINE m == Msg("UpMi", c_key, c_ctr, Number(c_i))
    <2>1. PICK next \in {"upMi", "upEnd"} : ClientIncrement(next)
      BY <1>4 DEF ClientUpMi
    <2>2. /\ c_pc = "upMi" /\ ToServer(m) /\ UNCHANGED <<server, s2c, cAuth>>
          /\ UNCHANGED <<c_file, c_size, c_res, local>>
      BY <1>4 DEF ClientUpMi
    <2>3. Number(c_i) \in Body
      BY BodyTypes DEF TypeOK, ClientOK
    <2>4. /\ ClientAt' = next /\ Answered' = <<>> /\ m \in Message
          /\ ServerHere => Asked' = Append(Asked, m)
      BY <1>2, <1>3, <2>1, <2>2, <2>3, ClientSendsOne
    <2>5. m.type = "UpMi" /\ ClientAt = "upMi"
      BY <2>2 DEF Msg, ClientAt, AuthPcs
    <2>6. ServerHere => \E mm \in Message : Asked' = Append(Asked, mm) /\ mm.type = "UpMi"
      BY <2>4, <2>5
    <2> QED BY <2>1, <2>2, <2>4, <2>5, <2>6 DEF SendsChunk
  <1>5. ASSUME ClientDelAsk
        PROVE  Decides
    <2>1. PICK code \in {"DELETE_CONFIRM", "NO_DELETE_CONFIRM"}, next \in {"delM4", "menu"} :
            /\ ToServer(Msg("DelM3", c_key, c_ctr, Code(code))) /\ ClientIncrement(next)
            /\ next = "delM4" => c_res' = c_res
      BY <1>5 DEF ClientDelAsk
    <2> DEFINE m == Msg("DelM3", c_key, c_ctr, Code(code))
    <2>2. /\ c_pc = "delAsk" /\ ToServer(m) /\ UNCHANGED <<server, s2c, cAuth>>
          /\ UNCHANGED <<c_file, c_size, local>>
      BY <1>5, <2>1 DEF ClientDelAsk, cOp
    <2>3. Code(code) \in Body
      BY BodyTypes DEF Codes
    <2>4. /\ ClientAt' = next /\ Answered' = <<>> /\ m \in Message
          /\ ServerHere => Asked' = Append(Asked, m)
      BY <1>2, <1>3, <2>1, <2>2, <2>3, ClientSendsOne
    <2>5. m.type = "DelM3" /\ ClientAt = "delAsk"
      BY <2>2 DEF Msg, ClientAt, AuthPcs
    <2>6. ServerHere => \E mm \in Message : Asked' = Append(Asked, mm) /\ mm.type = "DelM3"
      BY <2>4, <2>5
    <2> QED BY <2>1, <2>2, <2>4, <2>5, <2>6 DEF Decides
  <1> QED BY <1>1, <1>4, <1>5 DEF ClientMoves

\* All of them.
LEMMA ClientOperation ==
    ASSUME TypeOK, TypeOK', DialogueInv, UserStep \/ ClientStep, ClientHere'
    PROVE  ClientHere /\ ClientMoves /\ UNCHANGED <<server, store, user>>
  <1>1. CASE UserStep
    <2>1. UNCHANGED <<server, store, user>> /\ c_pc = "menu"
      BY <1>1 DEF UserStep, ClientList, ClientDownload, ClientUpload, ClientRename,
         ClientDelete, ClientLogout, Request, Refused
    <2> QED BY <1>1, <2>1, UserMoves DEF ClientHere, Gone
  <1>2. CASE ClientAuthM1 \/ ClientAuthM2 \/ ClientAuthM3 \/ ClientAuthM4 \/ ClientAuthM5
    <2>1. StaysInOperation
      BY <1>2, HandshakeAsked, HandshakeAnswered, HandshakeSigned, HandshakeDone
    <2>2. UNCHANGED <<server, store, user, c_file, c_size, c_i, c_res, local>>
      BY <1>2 DEF ClientAuthM1, ClientAuthM2, ClientAuthM3, ClientAuthM4, ClientAuthM5, cOp
    <2> QED BY <2>1, <2>2 DEF StaysInOperation, Stays, ClientMoves
  <1>3. CASE \/ ClientListM2 \/ ClientListM3 \/ ClientDownM2 \/ ClientDownMi \/ ClientUpM2
             \/ ClientUpEnd \/ ClientRenM2 \/ ClientDelM2 \/ ClientDelM4
    <2>1. UNCHANGED <<server, store, user>> /\ c_pc \in ClientReceives
      BY <1>3 DEF ClientListM2, ClientListM3, ClientDownM2, ClientDownMi, ClientUpM2,
         ClientUpEnd, ClientRenM2, ClientDelM2, ClientDelM4, FromServer, ClientReceives
    <2> QED BY <1>3, <2>1, ReplyMoves DEF ClientHere, Gone, ClientReceives
  <1>4. CASE ClientDownOpen \/ ClientDownWrite \/ ClientUpMi \/ ClientDelAsk
    <2>1. /\ UNCHANGED <<server, store, user>>
          /\ c_pc \in {"downOpen", "downWrite", "upMi", "delAsk"}
      BY <1>4 DEF ClientDownOpen, ClientDownWrite, ClientUpMi, ClientDelAsk
    <2> QED BY <1>4, <2>1, FileMoves DEF ClientHere, Gone
  <1>5. CASE ClientEof
    <2>1. /\ s_pc = "crashed" /\ c_pc \in ClientReceives /\ s2c' = <<>>
          /\ UNCHANGED <<server, store, user, local>>
      BY <1>5 DEF ClientEof
    <2>2. c_pc' = "menu"
      BY <1>5 DEF ClientEof, ClientReturn, ClientHere, Gone
    <2>3. GivesUp
      BY <2>1, <2>2 DEF GivesUp, ClientAt, AuthPcs, ServerHere, Gone, Answered, AnsweredIn
    <2> QED BY <2>1, <2>3 DEF ClientMoves, ClientHere, Gone, ClientReceives
  <1>6. CASE ClientOutM2 \/ ClientSigpipe
    BY <1>6 DEF ClientOutM2, ClientSigpipe, ClientHere, Gone
  <1> QED BY <1>1, <1>2, <1>3, <1>4, <1>5, <1>6 DEF ClientStep

-----------------------------------------------------------------------------
(* What a step of the server thread means for the operation, as long as it  *)
(* goes on.                                                                 *)

\* The thread stays where it is, in the handshake.
KeepsServing ==
    StaysInOperation /\ UNCHANGED <<s_file, s_size, s_i, s_stream, s_buf, store>>

\* It takes a request and is in its handler.
TakesRequest ==
    /\ ServerAt = "run" /\ ServerAt' \in FirstWaits
    /\ Len(Asked) = 1 /\ IsRequest(Asked[1]) /\ Asked' = <<>> /\ Answered' = Answered
    /\ s_file' = Asked[1].body.file /\ UNCHANGED <<s_stream, s_buf, store>>
    /\ ClientHere => AwaitsHandler

\* It takes a chunk, or the answer to its question.
TakesFurther ==
    /\ \/ ServerAt = "upMi" /\ ServerAt' = "upWrite" /\ Asked[1].type = "UpMi"
       \/ /\ ServerAt = "delM3" /\ Asked[1].type = "DelM3"
          /\ ServerAt' = IF Asked[1].body.code = "DELETE_CONFIRM" THEN "delM4" ELSE "run"
    /\ Asked # <<>> /\ Asked' = Tail(Asked) /\ Answered' = Answered
    /\ UNCHANGED <<s_file, s_size, s_i, s_stream, s_buf, store>>

\* It answers; a rename and a delete have just been carried out.
Answers ==
    /\ ServerAt \in ServerSends /\ Asked = <<>> /\ Asked' = <<>>
    /\ UNCHANGED <<s_file, s_stream, s_buf>> /\ (ServerAt # "downM2" => s_size' = s_size)
    /\ ClientHere => \E m \in Message :
         /\ Answered' = Append(Answered, m)
         /\ ServerAt = "downM2" /\ m.body.code # "FILE_NOT_FOUND" => m.body.n = store[s_file]
    /\ ServerAt' \in {"run", "listM3", "downMi", "upLook", "upClose", "delM3"}
    /\ ServerAt' = "upLook" => ServerAt = "upM2" /\ store[s_file] = Absent /\ s_i' = s_i
    /\ ServerAt' = "upClose" <=> ServerAt = "upEnd"
    /\ ServerAt = "upEnd" => s_i' = s_i
    /\ \/ store' = store
       \/ ServerAt = "renM2" /\ ServerAt' = "run"
            /\ store' = [store EXCEPT ![s_new] = store[s_file], ![s_file] = Absent]
       \/ ServerAt = "delM4" /\ ServerAt' = "run" /\ store' = [store EXCEPT ![s_file] = Absent]

\* It goes back to run() without an answer.
StaysSilent ==
    /\ \/ ServerAt = "listM2" /\ (~HasDirectory \/ Stored = {ErrorName})
       \/ ServerAt = "delM4" /\ store[s_file] = Absent
    /\ ServerAt' = "run" /\ Asked' = Asked /\ Answered' = Answered
    /\ UNCHANGED <<s_file, s_size, s_i, s_stream, s_buf, store>>

\* It opens, writes or closes the file of an upload.
StoresFile ==
    /\ Asked' = Asked /\ Answered' = Answered /\ UNCHANGED <<s_file, s_size>>
    /\ \/ /\ ServerAt = "upLook" /\ UNCHANGED <<s_i, s_stream, store>>
          /\ ServerAt' = IF store[s_file] = Absent THEN "upCreate" ELSE FirstChunk
       \/ /\ ServerAt = "upCreate" /\ s_i' = s_i /\ ServerAt' = FirstChunk
          /\ s_stream' = IF HasDirectory THEN "open" ELSE s_stream
          /\ store' = IF HasDirectory THEN [store EXCEPT ![s_file] = 0] ELSE store
       \/ /\ ServerAt = "upWrite" /\ s_i' = s_i + 1 /\ s_stream' = s_stream
          /\ ServerAt' = IF s_i' = s_size THEN "upEnd" ELSE "upMi"
          /\ store' \in {store, [store EXCEPT ![s_file] = @ + 1]}
          /\ s_stream # "open" => store' = store
       \/ /\ ServerAt = "upClose" /\ ServerAt' = "run" /\ s_i' = s_i /\ s_stream' = "closed"
          /\ store' = IF s_stream = "open" /\ s_buf
                      THEN [store EXCEPT ![s_file] = @ + 1] ELSE store

\* It finds in the middle of an operation that the client is gone.
BreaksOff ==
    c_pc = "exit" /\ ServerAt \in {"upMi", "delM3"} /\ s_pc' = "run"

\* It answers the logout.
LogsOut ==
    /\ ServerAt = "outM2" /\ ServerAt' = "run" /\ Asked = <<>> /\ Asked' = <<>>
    /\ ClientHere => ClientAt = "outM2"
    /\ UNCHANGED <<s_file, s_size, s_i, s_stream, s_buf, store>>

ServerMoves ==
    \/ KeepsServing \/ TakesRequest \/ TakesFurther \/ Answers \/ StaysSilent \/ StoresFile
    \/ BreaksOff \/ LogsOut

\* The requests, the chunks and the answer to the question.
LEMMA TakeMoves ==
    ASSUME TypeOK, TypeOK', DialogueInv, ServerRun \/ ServerUpMi \/ ServerDelM3
    PROVE  ServerMoves
  <1>1. ASSUME ServerRun
        PROVE  TakesRequest
    <2> DEFINE m == Head(c2s)
               next == Handler[m.type]
    <2>1. /\ s_pc = "run" /\ c2s # <<>> /\ c2s' = Tail(c2s)
          /\ UNCHANGED <<client, s2c, sAuth>>
      BY <1>1 DEF ServerRun
    <2>2. m.type \in DOMAIN Handler /\ Verdict(m, s_key, s_ctr) = "SUCCESS"
      BY <2>1, ServerAccepts
    <2>3. ServerIncrement(next) /\ s_file' = m.body.file /\ UNCHANGED <<s_stream, s_buf, store>>
      BY <1>1, <2>2 DEF ServerRun, sOut
    <2>4. next \in ServerPcs \ (AuthPcs \cup Gone) /\ next \in FirstWaits
      BY <2>2, HandlerIs DEF ServerPcs, ServerSends, AuthPcs, Gone, FirstWaits
    <2>5. /\ ServerHere /\ ServerAt = "run" /\ ServerAt' = next
          /\ Len(Asked) \in Nat \ {0} /\ Asked[1] = m /\ Asked # <<>> /\ ServerTakes
          /\ Len(Asked') = Len(Asked) - 1 /\ Answered' = Answered
      BY <2>1, <2>3, <2>4, TakeDialogue
    <2>6. Len(Asked) = 1 /\ Len(Asked') = 0
      BY <2>5 DEF ServerTakes, Idle
    <2>7. Asked' = <<>>
      BY <2>6, Channels DEF TypeOK
    <2>8. ClientHere => AwaitsHandler
      BY <2>5, ServerPlaces DEF Idle
    <2> QED BY <2>2, <2>3, <2>4, <2>5, <2>6, <2>7, <2>8 DEF TakesRequest, IsRequest
  <1>2. ASSUME ServerUpMi \/ ServerDelM3
        PROVE  TakesFurther
    <2>1. /\ s_pc \in {"upMi", "delM3"} /\ c2s # <<>> /\ c2s' = Tail(c2s)
          /\ UNCHANGED <<client, s2c, sAuth, s_file, s_size, s_i>>
      BY <1>2 DEF ServerUpMi, ServerDelM3, FromClient, sOp
    <2>2. /\ Verdict(Head(c2s), s_key, s_ctr) = "SUCCESS"
          /\ s_pc = "upMi" => Head(c2s).type = "UpMi"
          /\ s_pc = "delM3" => Head(c2s).type = "DelM3"
      BY <2>1, ServerAccepts
    <2>3. PICK next \in {"upWrite", "delM4", "run"} :
            /\ ServerIncrement(next) /\ UNCHANGED <<s_stream, s_buf, store>>
            /\ next = IF s_pc = "upMi" THEN "upWrite"
                      ELSE IF Head(c2s).body.code = "DELETE_CONFIRM" THEN "delM4" ELSE "run"
      BY <1>2, <2>2 DEF ServerUpMi, ServerDelM3, FromClient, sOut
    <2>4. next \in ServerPcs \ (AuthPcs \cup Gone)
      BY HandlerTypes
    <2>5. /\ ServerAt = s_pc /\ ServerAt' = next /\ Answered' = Answered
          /\ Asked # <<>> /\ Head(c2s) = Asked[1]
      BY <2>1, <2>3, <2>4, TakeDialogue
    <2>6. Asked' = Tail(Asked)
      BY <2>1, <2>3, <2>4, ServerTakesOne
    <2> QED BY <2>1, <2>2, <2>3, <2>5, <2>6 DEF TakesFurther
  <1> QED BY <1>1, <1>2 DEF ServerMoves

\* The answers.
LEMMA AnswerMoves ==
    ASSUME TypeOK, TypeOK', DialogueInv,
           \/ ServerListM2 \/ ServerListM3 \/ ServerDownM2 \/ ServerDownMi \/ ServerUpM2
           \/ ServerUpEnd \/ ServerRenM2 \/ ServerDelM2 \/ ServerDelM4
    PROVE  ServerMoves
  <1> USE HandlerTypes, BodyTypes
  <1>1. ASSUME NEW pc \in ServerSends \ (AuthPcs \cup {"outM2"}), NEW type \in Types \ Handshake,
               NEW b \in Body, NEW next \in ServerPcs \ (AuthPcs \cup Gone),
               Answer(pc, type, b, next)
        PROVE  /\ ServerAt = pc /\ ServerAt' = next /\ Asked = <<>> /\ Asked' = <<>>
               /\ UNCHANGED <<s_file, s_stream, s_buf>>
               /\ ClientHere => \E m \in Message :
                    Answered' = Append(Answered, m) /\ m.body = b
    <2>1. ServerAt = pc /\ ServerAt' = next /\ Asked = <<>> /\ Asked' = <<>>
      BY <1>1, AnswerDialogue
    <2>2. /\ s_pc = pc /\ ToClient(Msg(type, s_key, s_ctr, b)) /\ ServerIncrement(next)
          /\ UNCHANGED <<client, c2s, sAuth, s_file, s_stream, s_buf>>
      BY <1>1 DEF Answer, sOut
    <2>3. /\ ClientHere => Answered' = Append(Answered, Msg(type, s_key, s_ctr, b))
          /\ Msg(type, s_key, s_ctr, b) \in Message
      BY <2>2, ServerSendsOne
    <2>4. Msg(type, s_key, s_ctr, b).body = b
      BY DEF Msg
    <2> QED BY <2>1, <2>2, <2>3, <2>4
  <1> SUFFICES Answers
    BY DEF ServerMoves
  <1>2. CASE ServerListM2 \/ ServerListM3
    BY <1>1, <1>2 DEF ServerListM2, ServerListM3, Answers
  <1>3. CASE ServerDownM2
    <2>1. CASE store[s_file] = Absent
      <3>1. Code("FILE_NOT_FOUND").code = "FILE_NOT_FOUND" /\ Code("FILE_NOT_FOUND") \in Body
        OBVIOUS
      <3> QED BY <1>1, <1>3, <2>1, <3>1 DEF ServerDownM2, Answers
    <2>2. CASE store[s_file] # Absent
      <3>1. store[s_file] \in Nat
        BY <2>2 DEF TypeOK, DisksOK, ServerOK, Absent
      <3>2. /\ [Code("DOWNLOAD_ACK") EXCEPT !.n = store[s_file]] \in Body
            /\ [Code("DOWNLOAD_ACK") EXCEPT !.n = store[s_file]].n = store[s_file]
        <4>1. Code("DOWNLOAD_ACK") \in Body
          BY DEF Codes
        <4> QED BY <3>1, <4>1 DEF Body
      <3> DEFINE b == [Code("DOWNLOAD_ACK") EXCEPT !.n = store[s_file]]
                 next == IF store[s_file] = 0 THEN "run" ELSE "downMi"
      <3>3. next \in ServerPcs \ (AuthPcs \cup Gone) /\ next \in {"run", "downMi"}
        OBVIOUS
      <3>4. Answer("downM2", "DownM2", b, next) /\ s_i' = s_i /\ store' = store
        BY <1>3, <2>2 DEF ServerDownM2
      <3>5. /\ ServerAt = "downM2" /\ ServerAt' = next /\ Asked = <<>> /\ Asked' = <<>>
            /\ UNCHANGED <<s_file, s_stream, s_buf>>
            /\ ClientHere => \E m \in Message : Answered' = Append(Answered, m) /\ m.body = b
        <4> HIDE DEF b, next
        <4> QED BY <1>1, <3>2, <3>3, <3>4 DEF b
      <3>6. ClientHere => \E m \in Message :
              Answered' = Append(Answered, m) /\ m.body.n = store[s_file]
        BY <3>2, <3>5
      <3> HIDE DEF b, next
      <3> QED BY <3>3, <3>4, <3>5, <3>6 DEF Answers
    <2> QED BY <2>1, <2>2
  <1>4. CASE ServerDownMi
    <2>1. Number(s_i) \in Body
      BY DEF TypeOK, ServerOK
    <2> QED BY <1>1, <1>4, <2>1 DEF ServerDownMi, Answers
  <1>5. CASE ServerUpM2 \/ ServerUpEnd
    BY <1>1, <1>5 DEF ServerUpM2, ServerUpEnd, Answers
  <1>6. CASE ServerRenM2
    BY <1>1, <1>6 DEF ServerRenM2, Answers
  <1>7. CASE ServerDelM2 \/ ServerDelM4
    BY <1>1, <1>7 DEF ServerDelM2, ServerDelM4, Answers
  <1> QED BY <1>2, <1>3, <1>4, <1>5, <1>6, <1>7

\* The steps without a message.
LEMMA QuietMoves ==
    ASSUME TypeOK, TypeOK', DialogueInv,
           \/ ServerUpLook \/ ServerUpCreate \/ ServerUpWrite \/ ServerUpClose \/ ServerListSilent
           \/ ServerDelSilent \/ ServerOutM2
    PROVE  ServerMoves
  <1>1. /\ UNCHANGED <<client, c2s>>
        /\ s_pc \in {"upLook", "upCreate", "upWrite", "upClose", "listM2", "delM4", "outM2"}
        /\ s_pc' \in {"upCreate", "upMi", "upEnd", "run"}
    BY DEF ServerUpLook, ServerUpCreate, ServerUpWrite, ServerUpClose, ServerListSilent,
       ServerDelSilent, ServerLeave, ServerOutM2, FirstChunk
  <1>2. /\ ServerHere /\ ServerAt = s_pc /\ ServerAt' = s_pc' /\ Asked' = Asked
        /\ s2c' = s2c => Answered' = Answered
    BY <1>1 DEF ServerHere, Gone, ServerAt, AuthPcs, Asked, Answered
  <1>3. ASSUME ServerListSilent \/ ServerDelSilent
        PROVE  StaysSilent
    BY <1>2, <1>3 DEF ServerListSilent, ServerDelSilent, StaysSilent, sOp, sOut
  <1>4. ASSUME ServerUpLook \/ ServerUpCreate \/ ServerUpWrite \/ ServerUpClose
        PROVE  StoresFile
    <2>1. CASE ServerUpLook
      BY <1>2, <2>1 DEF ServerUpLook, StoresFile, sOp, sOut
    <2>4. CASE ServerUpCreate
      BY <1>2, <2>4 DEF ServerUpCreate, StoresFile, sOp
    <2>2. CASE ServerUpWrite
      BY <1>2, <2>2 DEF ServerUpWrite, StoresFile
    <2>3. CASE ServerUpClose
      BY <1>2, <2>3 DEF ServerUpClose, ServerLeave, StoresFile, sOp
    <2> QED BY <1>4, <2>1, <2>2, <2>3, <2>4
  <1>5. ASSUME ServerOutM2
        PROVE  LogsOut
    <2>1. /\ s_pc = "outM2" /\ s_pc' = "run"
          /\ UNCHANGED <<s_file, s_size, s_i, s_stream, s_buf, store>>
      BY <1>5 DEF ServerOutM2, sOp, sOut
    <2>2. ServerTakes
      BY <1>2 DEF DialogueInv, Operations
    <2>3. Asked = <<>>
      BY <1>2, <2>1, <2>2, Channels DEF ServerTakes, Idle, Receiving, TypeOK
    <2>4. ClientHere => ClientAt = "outM2"
      BY <1>2, <2>1, ServerPlaces DEF FirstWaits
    <2> QED BY <1>2, <2>1, <2>3, <2>4 DEF LogsOut
  <1> QED BY <1>3, <1>4, <1>5 DEF ServerMoves

\* All of them.
LEMMA ServerOperation ==
    ASSUME TypeOK, TypeOK', DialogueInv, ServerStep, ServerHere'
    PROVE  ServerHere /\ ServerMoves /\ UNCHANGED <<client, local, user>>
  <1>1. UNCHANGED <<client, local, user>>
    BY Apart
  <1>2. CASE ServerAuthM1 \/ ServerAuthM2 \/ ServerAuthM3 \/ ServerAuthM4 \/ ServerAuthM5
    <2>1. StaysInOperation
      BY <1>2, HandshakeTaken, HandshakeKnown, HandshakeKey, HandshakeChecked, HandshakeEnds
    <2>2. UNCHANGED <<s_file, s_size, s_i, s_stream, s_buf, store>>
      <3>1. ASSUME NEW pc, ServerLeave(pc), s_pc' = "done"
            PROVE  FALSE
        BY <3>1 DEF ServerHere, Gone
      <3>2. \A pc : ServerLeave(pc) => s_pc' = pc
        BY DEF ServerLeave
      <3>3. ~ServerLeave("done")
        BY <3>1, <3>2
      <3> QED BY <1>2, <3>3 DEF ServerAuthM1, ServerAuthM2, ServerAuthM3, ServerAuthM4,
              ServerAuthM5, sOp, sOut
    <2> QED BY <1>1, <2>1, <2>2 DEF StaysInOperation, KeepsServing, ServerMoves
  <1>3. CASE ServerRun \/ ServerUpMi \/ ServerDelM3
    <2>1. s_pc \in ServerReceives
      BY <1>3 DEF ServerRun, ServerUpMi, ServerDelM3, FromClient, ServerReceives
    <2> QED BY <1>1, <1>3, <2>1, TakeMoves DEF ServerHere, Gone, ServerReceives
  <1>4. CASE \/ ServerListM2 \/ ServerListM3 \/ ServerDownM2 \/ ServerDownMi \/ ServerUpM2
             \/ ServerUpEnd \/ ServerRenM2 \/ ServerDelM2 \/ ServerDelM4
    <2>1. s_pc \in ServerSends
      BY <1>4 DEF ServerListM2, ServerListM3, ServerDownM2, ServerDownMi, ServerUpM2,
         ServerUpEnd, ServerRenM2, ServerDelM2, ServerDelM4, Answer, ServerSends
    <2> QED BY <1>1, <1>4, <2>1, AnswerMoves DEF ServerHere, Gone, ServerSends
  <1>5. CASE \/ ServerUpLook \/ ServerUpCreate \/ ServerUpWrite \/ ServerUpClose \/ ServerListSilent
             \/ ServerDelSilent \/ ServerOutM2
    <2>1. s_pc \in {"upLook", "upCreate", "upWrite", "upClose", "listM2", "delM4", "outM2"}
      BY <1>5 DEF ServerUpLook, ServerUpCreate, ServerUpWrite, ServerUpClose, ServerListSilent,
         ServerDelSilent, ServerOutM2
    <2> QED BY <1>1, <1>5, <2>1, QuietMoves DEF ServerHere, Gone
  <1>6. CASE ServerEof
    <2>1. /\ c_pc = "exit" /\ s_pc \in ServerReceives
          /\ s_pc' = IF s_pc \in {"upMi", "delM3"} THEN "run" ELSE "done"
      BY <1>6 DEF ServerEof, ServerLeave
    <2>2. s_pc \in {"upMi", "delM3"} /\ s_pc' = "run"
      BY <2>1 DEF ServerHere, Gone
    <2> QED BY <1>1, <2>1, <2>2 DEF BreaksOff, ServerMoves, ServerAt, AuthPcs, ServerHere, Gone
  <1>7. CASE ServerUnknownUser \/ ServerSigpipe
    BY <1>7 DEF ServerUnknownUser, ServerSigpipe, ServerLeave, ServerHere, Gone
  <1> QED BY <1>2, <1>3, <1>4, <1>5, <1>6, <1>7 DEF ServerStep

-----------------------------------------------------------------------------
(* Whose turn it is.                                                        *)

ClientTurn ==
    /\ ClientHere /\ ClientMoves
    /\ UNCHANGED <<ServerAt, s_pc, s_file, s_size, s_i, s_stream, s_buf, store, user>>

ServerTurn ==
    /\ ServerHere /\ ServerMoves
    /\ UNCHANGED <<ClientAt, c_pc, c_file, c_size, c_i, c_res, local, user>>

\* At most another session changes a file.
NoTurn ==
    /\ UNCHANGED <<ClientAt, c_pc, c_file, c_size, c_i, c_res, local, user, Asked, Answered>>
    /\ UNCHANGED <<ServerAt, s_pc, s_file, s_size, s_i, s_buf>>
    /\ ~OtherSessions => UNCHANGED <<store, s_stream>>

\* As long as both sides are here, each step is one of these.
LEMMA Turns ==
    ASSUME TypeOK, TypeOK', DialogueInv, [Next]_vars, ClientHere', ServerHere'
    PROVE  ClientHere /\ ServerHere /\ (ClientTurn \/ ServerTurn \/ NoTurn)
  <1>1. ASSUME UNCHANGED server
        PROVE  /\ UNCHANGED <<ServerAt, s_pc, s_file, s_size, s_i, s_stream, s_buf>>
               /\ ServerHere
    BY <1>1 DEF server, ServerAt, ServerHere
  <1>2. ASSUME UNCHANGED client
        PROVE  UNCHANGED <<ClientAt, c_pc, c_file, c_size, c_i, c_res>> /\ ClientHere
    BY <1>2 DEF client, ClientAt, ClientHere
  <1>3. CASE UserStep \/ ClientStep
    BY <1>1, <1>3, ClientOperation DEF ClientTurn
  <1>4. CASE ServerStep
    BY <1>2, <1>4, ServerOperation DEF ServerTurn
  <1>5. CASE ClientExit \/ ServerExit
    BY <1>5 DEF ClientExit, ServerExit, ClientHere, ServerHere, Gone
  <1>6. CASE OtherSession
    <2>1. /\ OtherSessions /\ UNCHANGED <<client, local, user, c2s, s2c>>
          /\ UNCHANGED <<s_pc, s_ret, s_file, s_size, s_i, s_buf>>
      BY <1>6 DEF OtherSession, sOp
    <2> QED BY <1>2, <2>1 DEF NoTurn, ServerAt, ServerHere, Asked, Answered
  <1>7. CASE UNCHANGED vars
    BY <1>1, <1>2, <1>7 DEF vars, NoTurn, Asked, Answered
  <1> QED BY <1>3, <1>4, <1>5, <1>6, <1>7 DEF Next

\* As long as the client is here, each step is its own or leaves it alone.
LEMMA ClientTurns ==
    ASSUME TypeOK, TypeOK', DialogueInv, [Next]_vars, ClientHere'
    PROVE  /\ ClientHere
           /\ \/ ClientTurn
              \/ UNCHANGED <<ClientAt, c_pc, c_file, c_size, c_i, c_res, local, user>>
  <1>1. ASSUME UNCHANGED server
        PROVE  UNCHANGED <<ServerAt, s_pc, s_file, s_size, s_i, s_stream, s_buf>>
    BY <1>1 DEF server, ServerAt
  <1>2. ASSUME UNCHANGED client
        PROVE  UNCHANGED <<ClientAt, c_pc, c_file, c_size, c_i, c_res>> /\ ClientHere
    BY <1>2 DEF client, ClientAt, ClientHere
  <1>3. CASE UserStep \/ ClientStep
    BY <1>1, <1>3, ClientOperation DEF ClientTurn
  <1>4. CASE ServerStep
    BY <1>2, <1>4, Apart
  <1>5. CASE ClientExit
    BY <1>5 DEF ClientExit, ClientHere, Gone
  <1>6. CASE ServerExit \/ OtherSession \/ UNCHANGED vars
    BY <1>2, <1>6 DEF ServerExit, OtherSession, vars
  <1> QED BY <1>3, <1>4, <1>5, <1>6 DEF Next

\* As long as the server thread is here, each step is its own or leaves it alone, except
\* for what another session does.
LEMMA ServerTurns ==
    ASSUME TypeOK, TypeOK', DialogueInv, [Next]_vars, ServerHere'
    PROVE  /\ ServerHere
           /\ \/ ServerTurn
              \/ /\ UNCHANGED <<ServerAt, s_pc, s_file, s_size, s_i, s_buf>>
                 /\ ~OtherSessions => UNCHANGED <<store, s_stream>>
  <1>1. ASSUME UNCHANGED <<server, store>>
        PROVE  /\ UNCHANGED <<ServerAt, s_pc, s_file, s_size, s_i, s_stream, s_buf, store>>
               /\ ServerHere
    BY <1>1 DEF server, ServerAt, ServerHere
  <1>2. ASSUME UNCHANGED client
        PROVE  UNCHANGED <<ClientAt, c_pc, c_file, c_size, c_i, c_res>>
    BY <1>2 DEF client, ClientAt
  <1>3. CASE UserStep \/ ClientStep
    BY <1>1, <1>3, Apart
  <1>4. CASE ServerStep
    BY <1>2, <1>4, ServerOperation DEF ServerTurn
  <1>5. CASE ServerExit
    BY <1>5 DEF ServerExit, ServerHere, Gone
  <1>6. CASE OtherSession
    <2>1. OtherSessions /\ UNCHANGED <<s_pc, s_ret, s_file, s_size, s_i, s_buf>>
      BY <1>6 DEF OtherSession, sOp
    <2> QED BY <2>1 DEF ServerAt, ServerHere
  <1>7. CASE ClientExit \/ UNCHANGED vars
    BY <1>1, <1>7 DEF ClientExit, vars
  <1> QED BY <1>3, <1>4, <1>5, <1>6, <1>7 DEF Next

-----------------------------------------------------------------------------
(* The result and the file of the operation.                                *)

\* The client has no result before it is back at its menu.
LEMMA BusyStep ==
    ASSUME TypeOK, TypeOK', DialogueInv, [Next]_vars, Busy
    PROVE  Busy'
  <1> SUFFICES ASSUME ClientHere', ClientAt' # "menu"
               PROVE  c_res' = "none"
    BY DEF Busy
  <1>1. CASE ClientTurn
    BY <1>1 DEF ClientTurn, ClientMoves, Busy, Picks, Stays, StaysInOperation, TakesAnswer,
       Writes, SendsChunk, Decides, GivesUp
  <1>2. CASE UNCHANGED <<ClientAt, c_pc, c_file, c_size, c_i, c_res, local, user>>
    BY <1>2, ClientTurns DEF Busy
  <1> QED BY <1>1, <1>2, ClientTurns

\* An operation that is under way has no result yet.
THEOREM BusyKept == Spec => []Busy
  <1>1. Init => Busy
    BY DEF Init, Busy, ClientAt, AuthPcs
  <1>2. TypeOK /\ TypeOK' /\ DialogueInv /\ [Next]_vars /\ Busy => Busy'
    BY BusyStep
  <1> QED BY <1>1, <1>2, TypeCorrect, DialogueKept, PTL DEF Spec

\* What is under way to the server in the operations on a file.
LEMMA FilePlaces ==
    ASSUME TypeOK, DialogueInv, ClientHere, ServerHere, ClientAt \in FileOps
    PROVE  /\ ServerAt \in Receiving => \A k \in 1 .. Len(Asked) : ~IsRequest(Asked[k])
           /\ ClientAt = "upMi" => ServerAt \in Receiving
           /\ ClientAt = "delAsk" => ServerAt = "delM3" /\ Asked = <<>>
           /\ ServerAt = "delM3" /\ Asked # <<>> =>
                \/ Len(Asked) = 1 /\ ~IsRequest(Asked[1])
                \/ Len(Asked) = 2 /\ IsRequest(Asked[2]) /\ ~IsRequest(Asked[1])
           /\ ServerAt # "outM2"
  <1>1. ServerTakes
    BY DEF DialogueInv, Operations
  <1>2. \A m : m.type \in {"UpMi", "DelM3"} => ~IsRequest(m)
    BY HandlerIs DEF IsRequest
  <1>3. ClientAt \in {"upMi", "delAsk"} => InUpload \/ InDelete
    BY ClientPlaces
  <1>4. /\ ClientAt = "upMi" => ServerAt \in Receiving
        /\ ClientAt = "delAsk" => ServerAt = "delM3" /\ Asked = <<>>
    BY <1>3, ClientPlaces, Channels DEF InUpload, InDelete, TypeOK
  <1>5. ServerAt # "outM2"
    BY ServerPlaces DEF FirstWaits, FileOps, Downloading
  <1>6. ServerAt = "delM3" /\ Asked # <<>> =>
          \/ Len(Asked) = 1 /\ ~IsRequest(Asked[1])
          \/ Len(Asked) = 2 /\ IsRequest(Asked[2]) /\ ~IsRequest(Asked[1])
    <2>1. PICK n \in Nat : n = Len(Asked) /\ (Asked = <<>> <=> n = 0)
      BY Channels DEF TypeOK
    <2> QED BY <1>1, <1>2, <2>1 DEF ServerTakes
  <1> QED BY <1>1, <1>2, <1>4, <1>5, <1>6 DEF ServerTakes

\* The last message that is under way after a client's step.
LEMMA LastAsked ==
    ASSUME TypeOK, NEW m \in Message, Asked' = Append(Asked, m)
    PROVE  Len(Asked') = Len(Asked) + 1 /\ Len(Asked') > 0 /\ Asked'[Len(Asked')] = m
  <1>1. Asked \in Seq(Message) /\ Len(Asked) \in Nat
    BY Channels DEF TypeOK
  <1>2. Len(Asked') = Len(Asked) + 1 /\ Asked'[Len(Asked) + 1] = m
    BY <1>1, Adding
  <1> QED BY <1>1, <1>2

\* The request is about the client's file, and so is what the server does.
LEMMA SameFileStep ==
    ASSUME TypeOK, TypeOK', DialogueInv, [Next]_vars, SameFile
    PROVE  SameFile'
  <1> SUFFICES ASSUME ClientHere', ServerHere', ClientAt' \in FileOps
               PROVE  SameFile'
    BY DEF SameFile
  <1>1. ClientHere /\ ServerHere /\ (ClientTurn \/ ServerTurn \/ NoTurn)
    BY Turns
  <1>2. CASE NoTurn
    BY <1>1, <1>2 DEF NoTurn, SameFile
  <1>3. CASE ClientTurn
    <2>1. ServerAt' = ServerAt /\ s_file' = s_file
      BY <1>3 DEF ClientTurn
    <2>2. CASE Picks
      <3>1. PICK m \in Message :
              Asked' = Append(Asked, m) /\ IsRequest(m) /\ m.body.file = c_file'
        BY <1>1, <2>2 DEF Picks
      <3> QED BY <3>1, LastAsked DEF SameFile
    <2>3. CASE Stays
      BY <1>1, <2>1, <2>3 DEF Stays, StaysInOperation, SameFile
    <2>4. CASE TakesAnswer \/ Writes
      <3>1. Asked' = Asked /\ c_file' = c_file /\ ClientAt \in FileOps
        BY <2>4 DEF TakesAnswer, Writes, FileOps, Downloading
      <3> QED BY <1>1, <2>1, <3>1 DEF SameFile
    <2>5. CASE SendsChunk \/ Decides
      <3>1. ClientAt \in {"upMi", "delAsk"} /\ ClientAt \in FileOps /\ c_file' = c_file
        BY <2>5 DEF SendsChunk, Decides, FileOps
      <3>2. PICK m \in Message : Asked' = Append(Asked, m) /\ m.type \in {"UpMi", "DelM3"}
        BY <1>1, <2>5 DEF SendsChunk, Decides
      <3>3. ~IsRequest(m)
        BY <3>2, HandlerIs DEF IsRequest
      <3>4. Len(Asked) > 0 => ~IsRequest(Asked[Len(Asked)])
        <4>1. PICK n \in Nat : n = Len(Asked) /\ (Asked = <<>> <=> n = 0)
          BY Channels DEF TypeOK
        <4> QED BY <1>1, <3>1, <4>1, FilePlaces
      <3>5. s_file = c_file
        BY <1>1, <3>1, <3>4 DEF SameFile
      <3> QED BY <2>1, <3>1, <3>2, <3>3, <3>5, LastAsked DEF SameFile
    <2>6. CASE GivesUp
      BY <2>6 DEF GivesUp, FileOps, Downloading
    <2> QED BY <1>3, <2>2, <2>3, <2>4, <2>5, <2>6 DEF ClientTurn, ClientMoves
  <1>4. CASE ServerTurn
    <2>1. ClientAt' = ClientAt /\ c_file' = c_file /\ ClientAt \in FileOps
      BY <1>4 DEF ServerTurn
    <2>2. PICK n \in Nat : n = Len(Asked) /\ (Asked = <<>> <=> n = 0)
      BY Channels DEF TypeOK
    <2>3. Len(<<>>) = 0
      BY EmptySeq
    <2>4. CASE KeepsServing
      BY <1>1, <2>1, <2>4 DEF KeepsServing, StaysInOperation, SameFile
    <2>5. CASE TakesRequest
      <3>1. s_file' = c_file
        BY <1>1, <2>1, <2>5 DEF TakesRequest, SameFile
      <3> QED BY <2>1, <2>3, <2>5, <3>1 DEF TakesRequest, SameFile
    <2>6. CASE TakesFurther
      <3>1. n # 0 /\ Asked' = Tail(Asked) /\ s_file' = s_file /\ Asked \in Seq(Message)
        BY <2>2, <2>6, Channels DEF TakesFurther, TypeOK
      <3>2. Len(Asked') = n - 1 /\ \A k \in 1 .. n - 1 : Asked'[k] = Asked[k + 1]
        BY <2>2, <3>1, Taking
      <3>3. ServerAt \in {"upMi", "delM3"}
        BY <2>6 DEF TakesFurther
      <3>4. CASE ServerAt = "upMi"
        <4>1. \A k \in 1..n : ~IsRequest(Asked[k])
          BY <1>1, <2>1, <2>2, <3>4, FilePlaces DEF Receiving
        <4>2. s_file = c_file
          BY <1>1, <2>1, <2>2, <3>1, <4>1 DEF SameFile
        <4>3. n - 1 > 0 => ~IsRequest(Asked'[n - 1])
          BY <2>2, <3>2, <4>1
        <4> QED BY <2>1, <3>1, <3>2, <4>2, <4>3 DEF SameFile
      <3>5. CASE ServerAt = "delM3"
        <4>1. CASE n = 1 /\ ~IsRequest(Asked[1])
          <5>1. s_file = c_file
            BY <1>1, <2>1, <2>2, <4>1 DEF SameFile
          <5> QED BY <2>1, <3>1, <3>2, <4>1, <5>1 DEF SameFile
        <4>2. CASE n = 2 /\ IsRequest(Asked[2])
          <5>1. Asked[2].body.file = c_file
            BY <1>1, <2>1, <2>2, <4>2 DEF SameFile
          <5>2. Len(Asked') = 1 /\ Asked'[1] = Asked[2]
            BY <3>2, <4>2
          <5> QED BY <2>1, <4>2, <5>1, <5>2 DEF SameFile
        <4> QED BY <1>1, <2>1, <2>2, <3>1, <3>5, <4>1, <4>2, FilePlaces
      <3> QED BY <3>3, <3>4, <3>5
    <2>7. CASE Answers \/ StaysSilent \/ StoresFile
      <3>1. Asked' = Asked /\ s_file' = s_file
        BY <2>7 DEF Answers, StaysSilent, StoresFile
      <3> QED BY <1>1, <2>1, <3>1 DEF SameFile
    <2>8. CASE BreaksOff \/ LogsOut
      BY <1>1, <2>1, <2>8, FilePlaces DEF BreaksOff, LogsOut, ClientHere, Gone
    <2> QED BY <1>4, <2>4, <2>5, <2>6, <2>7, <2>8 DEF ServerTurn, ServerMoves
  <1> QED BY <1>1, <1>2, <1>3, <1>4

\* Both sides mean the same file at every place of every operation.
THEOREM SameFileKept == Spec => []SameFile
  <1>1. Init => SameFile
    BY DEF Init, SameFile, ClientAt, AuthPcs, FileOps, Downloading
  <1>2. TypeOK /\ TypeOK' /\ DialogueInv /\ [Next]_vars /\ SameFile => SameFile'
    BY SameFileStep
  <1> QED BY <1>1, <1>2, TypeCorrect, DialogueKept, PTL DEF Spec

\* Nobody takes away a file that this session is about to delete.
LEMMA FileThereStep ==
    ASSUME ~OtherSessions, TypeOK, TypeOK', DialogueInv, [Next]_vars, FileThere
    PROVE  FileThere'
  <1> DEFINE Deleting == {"delM2", "delAsk", "delM4"}
  <1> SUFFICES ASSUME ClientHere', ServerHere', ClientAt' \in Deleting
               PROVE  store'[c_file'] # Absent \/ (ClientAt' = "delM4" /\ ServerAt' = "run")
    BY DEF FileThere
  <1>1. ClientHere /\ ServerHere /\ (ClientTurn \/ ServerTurn \/ NoTurn)
    BY Turns
  <1>2. CASE NoTurn
    BY <1>1, <1>2 DEF NoTurn, FileThere
  <1>3. CASE ClientTurn
    <2>1. ServerAt' = ServerAt /\ store' = store
      BY <1>3 DEF ClientTurn
    <2>2. CASE Picks
      BY <2>1, <2>2 DEF Picks, FirstWaits
    <2>3. CASE Stays
      BY <1>1, <2>1, <2>3 DEF Stays, StaysInOperation, FileThere
    <2>4. CASE TakesAnswer
      BY <1>1, <2>1, <2>4 DEF TakesAnswer, FileThere
    <2>5. CASE Decides
      BY <1>1, <2>1, <2>5 DEF Decides, FileThere
    <2>6. ~(Writes \/ SendsChunk \/ GivesUp)
      BY DEF Writes, SendsChunk, GivesUp
    <2> QED BY <1>3, <2>2, <2>3, <2>4, <2>5, <2>6 DEF ClientTurn, ClientMoves
  <1>4. CASE ServerTurn
    <2>1. ClientAt' = ClientAt /\ c_file' = c_file /\ ClientAt \in Deleting
      BY <1>4 DEF ServerTurn
    <2>2. store[c_file] # Absent \/ (ClientAt = "delM4" /\ ServerAt = "run")
      BY <1>1, <2>1 DEF FileThere
    <2>3. ClientAt = "delM4" => InDelete
      BY <1>1, ClientPlaces
    <2>4. CASE KeepsServing \/ TakesFurther
      BY <1>1, <2>1, <2>2, <2>4 DEF KeepsServing, StaysInOperation, TakesFurther
    <2>5. CASE TakesRequest
      BY <1>1, <2>1, <2>2, <2>5 DEF TakesRequest, AwaitsHandler, FirstWaits
    <2>6. CASE Answers
      <3>1. store[c_file] # Absent
        BY <2>2, <2>6 DEF Answers, ServerSends
      <3>2. ServerAt # "renM2"
        BY <1>1, <2>1, ServerPlaces DEF FirstWaits
      <3>3. ServerAt = "delM4" => ClientAt = "delM4"
        BY <1>1, ServerPlaces DEF InDelete
      <3> QED BY <2>1, <2>6, <3>1, <3>2, <3>3 DEF Answers
    <2>7. CASE StaysSilent
      <3>1. store' = store /\ ServerAt' = "run" /\ ServerAt \in {"listM2", "delM4"}
        BY <2>7 DEF StaysSilent
      <3> QED BY <2>1, <2>2, <3>1
    <2>8. CASE StoresFile
      <3>1. ServerAt \notin Receiving
        BY <1>1, <2>1, ServerPlaces DEF InUpload
      <3>2. ServerAt = "upClose"
        BY <2>8, <3>1 DEF StoresFile, FirstChunk, Receiving
      <3>3. store[c_file] \in Nat /\ store \in [Names -> Nat \cup {Absent}] /\ c_file \in Names
        BY <2>2, <3>2 DEF TypeOK, DisksOK, ClientOK
      <3>4. store'[c_file] \in {store[c_file], store[c_file] + 1}
        BY <2>8, <3>2, <3>3 DEF StoresFile, FirstChunk
      <3> QED BY <2>1, <3>3, <3>4 DEF Absent
    <2>9. CASE BreaksOff \/ LogsOut
      BY <1>1, <2>1, <2>9 DEF BreaksOff, LogsOut, ClientHere, Gone
    <2> QED BY <1>4, <2>4, <2>5, <2>6, <2>7, <2>8, <2>9 DEF ServerTurn, ServerMoves
  <1> QED BY <1>1, <1>2, <1>3, <1>4

\* If no other session interferes, a file that is to be deleted is there until it is.
THEOREM FileThereKept == ~OtherSessions => (Spec => []FileThere)
  <1> SUFFICES ASSUME ~OtherSessions
               PROVE  Spec => []FileThere
    OBVIOUS
  <1>1. Init => FileThere
    BY DEF Init, FileThere, ClientAt, AuthPcs
  <1>2. TypeOK /\ TypeOK' /\ DialogueInv /\ [Next]_vars /\ FileThere => FileThere'
    BY FileThereStep
  <1> QED BY <1>1, <1>2, TypeCorrect, DialogueKept, PTL DEF Spec

\* Where a handler may return without an answer.  getFilesList finds the directory, and in it
\* no file called "error"; nobody else may take the file that is to be deleted.
Undisturbed == HasDirectory /\ ErrorName \notin Names /\ ~OtherSessions

\* No handler leaves the client without the answer it waits for.
LEMMA HeededStep ==
    ASSUME Undisturbed, TypeOK, TypeOK', DialogueInv, SameFile, FileThere,
           [Next]_vars, Heeded
    PROVE  Heeded'
  <1> SUFFICES ASSUME ClientHere', ServerHere', ServerAt' = "run"
               PROVE  /\ ClientAt' = "listM2" /\ Asked' = <<>> => Answered' # <<>>
                      /\ ClientAt' = "delM4" => Answered' # <<>>
    BY DEF Heeded
  <1>1. ClientHere /\ ServerHere /\ (ClientTurn \/ ServerTurn \/ NoTurn)
    BY Turns
  <1>2. CASE NoTurn
    BY <1>1, <1>2 DEF NoTurn, Heeded
  <1>3. \A m \in Message : Append(Asked, m) # <<>> /\ Append(Answered, m) # <<>>
    <2>1. \A q \in Seq(Message) : \A m \in Message : Append(q, m) # <<>>
      BY AppendProperties
    <2> QED BY <2>1, Channels DEF TypeOK
  <1>4. CASE ClientTurn
    <2>1. ServerAt' = ServerAt
      BY <1>4 DEF ClientTurn
    <2>2. CASE Picks
      BY <1>1, <1>3, <2>2 DEF Picks, FirstWaits
    <2>3. CASE Stays
      BY <1>1, <2>1, <2>3 DEF Stays, StaysInOperation, Heeded
    <2>4. CASE Decides
      <3>1. ServerAt = "delM3"
        BY <1>1, <2>4, FilePlaces DEF Decides, FileOps
      <3> QED BY <2>1, <3>1
    <2>5. CASE TakesAnswer \/ Writes \/ SendsChunk \/ GivesUp
      BY <2>5 DEF TakesAnswer, Writes, SendsChunk, GivesUp
    <2> QED BY <1>4, <2>2, <2>3, <2>4, <2>5 DEF ClientTurn, ClientMoves
  <1>5. CASE ServerTurn
    <2>1. ClientAt' = ClientAt
      BY <1>5 DEF ServerTurn
    <2>2. CASE KeepsServing
      BY <1>1, <2>1, <2>2 DEF KeepsServing, StaysInOperation, Heeded
    <2>3. CASE TakesRequest
      BY <2>3 DEF TakesRequest, FirstWaits
    <2>4. CASE TakesFurther
      <3>1. ServerAt = "delM3" /\ Asked[1].body.code # "DELETE_CONFIRM" /\ Asked' = Tail(Asked)
        BY <2>4 DEF TakesFurther
      <3>2. ClientAt = "delM4" => Asked[1].body.code = "DELETE_CONFIRM"
        BY <1>1, <3>1, ClientPlaces DEF InDelete
      <3>3. ClientAt = "listM2" => Len(Asked) = 2
        BY <1>1, <3>1, ServerPlaces DEF AtMenu, AwaitsHandler, InDelete, Idle, FirstWaits
      <3>4. Len(Asked) = 2 => Asked' # <<>>
        <4>1. Asked \in Seq(Message) /\ Asked # <<>>
          BY <2>4, Channels DEF TypeOK, TakesFurther
        <4> QED BY <3>1, <4>1, Taking, EmptySeq
      <3> QED BY <2>1, <3>1, <3>2, <3>3, <3>4
    <2>5. CASE Answers
      BY <1>1, <1>3, <2>5 DEF Answers
    <2>6. CASE StaysSilent
      <3>1. ServerAt # "listM2"
        BY <2>6 DEF StaysSilent, Undisturbed, Stored
      <3>2. ServerAt = "delM4" /\ store[s_file] = Absent
        BY <2>6, <3>1 DEF StaysSilent
      <3>3. ClientAt = "delM4" /\ Asked = <<>>
        <4>1. Asked = <<>> <=> Len(Asked) = 0
          BY Channels DEF TypeOK
        <4> QED BY <1>1, <3>2, <4>1, ServerPlaces DEF InDelete
      <3>4. s_file = c_file
        <4>1. Len(Asked) = 0
          BY <3>3, EmptySeq
        <4> QED BY <1>1, <3>3, <4>1 DEF SameFile, FileOps
      <3> QED BY <1>1, <3>2, <3>3, <3>4 DEF FileThere
    <2>7. CASE StoresFile
      <3>1. ServerAt = "upClose" /\ Asked' = Asked
        BY <2>7 DEF StoresFile, FirstChunk
      <3>2. ClientAt # "delM4"
        BY <1>1, <3>1, ClientPlaces DEF InDelete
      <3>3. ClientAt = "listM2" => Len(Asked) = 1
        BY <1>1, <3>1, ServerPlaces DEF AtMenu, AwaitsHandler, InUpload, Idle, FirstWaits
      <3> QED BY <2>1, <3>1, <3>2, <3>3, EmptySeq
    <2>8. CASE BreaksOff \/ LogsOut
      BY <1>1, <2>1, <2>8 DEF BreaksOff, LogsOut, ClientHere, Gone
    <2> QED BY <1>5, <2>2, <2>3, <2>4, <2>5, <2>6, <2>7, <2>8 DEF ServerTurn, ServerMoves
  <1> QED BY <1>1, <1>2, <1>4, <1>5

\* Undisturbed, each handler that may return without an answer gives one.
THEOREM HeededKept == Undisturbed => (Spec => []Heeded)
  <1> SUFFICES ASSUME Undisturbed
               PROVE  Spec => []Heeded
    OBVIOUS
  <1>1. Init => Heeded
    BY DEF Init, Heeded, ClientAt, ServerAt, AuthPcs
  <1>2. /\ TypeOK /\ TypeOK' /\ DialogueInv /\ SameFile /\ FileThere /\ [Next]_vars /\ Heeded
        => Heeded'
    BY HeededStep
  <1>3. Spec => []FileThere
    BY FileThereKept DEF Undisturbed
  <1> QED BY <1>1, <1>2, <1>3, TypeCorrect, DialogueKept, SameFileKept, PTL DEF Spec

-----------------------------------------------------------------------------
(* Nobody waits for ever.                                                   *)

\* A thread whose client is there ends in the handshake only: it does not know the user, or
\* it cannot read or use the public key.
LEMMA Endings ==
    ASSUME TypeOK, DialogueInv, ClientHere, ServerStep, s_pc' \in Gone
    PROVE  ServerUnknownUser \/ ServerAuthM2 \/ ServerAuthM5
  <1>1. ~(ServerAuthM1 \/ ServerAuthM3)
    BY DEF ServerAuthM1, ServerAuthM3, Gone
  <1>2. \A next \in ServerPcs \ Gone : ~ServerIncrement(next)
    BY DEF ServerIncrement, Gone
  <1>3. ~ServerAuthM4
    <2>1. SUFFICES ASSUME ServerAuthM4 PROVE FALSE
      OBVIOUS
    <2>2. s_pc = "authM4" /\ c2s # <<>>
      BY <2>1 DEF ServerAuthM4, FromClient
    <2>3. Head(c2s) = c2s[1]
      BY <2>2, Taking DEF TypeOK, ChannelsOK
    <2>4. ServerNumbers
      BY <2>2 DEF DialogueInv, KeysAndCounters, ServerHere, Gone
    <2>5. Verdict(Head(c2s), s_key, s_ctr) = "SUCCESS"
      BY <2>2, <2>3, <2>4 DEF ServerNumbers, AuthPcs
    <2>6. "authM5" \in ServerPcs \ Gone
      BY DEF ServerPcs, ServerSends, Gone
    <2> QED BY <1>2, <2>1, <2>5, <2>6 DEF ServerAuthM4
  <1>4. ~(ServerRun \/ ServerUpMi \/ ServerDelM3)
    <2>1. SUFFICES ASSUME ServerRun \/ ServerUpMi \/ ServerDelM3 PROVE FALSE
      OBVIOUS
    <2>2. s_pc \in {"run", "upMi", "delM3"} /\ c2s # <<>>
      BY <2>1 DEF ServerRun, ServerUpMi, ServerDelM3, FromClient
    <2>3. /\ Verdict(Head(c2s), s_key, s_ctr) = "SUCCESS"
          /\ s_pc = "run" => Head(c2s).type \in DOMAIN Handler
      BY <2>2, ServerAccepts
    <2>4. /\ {"upWrite", "delM4", "run"} \subseteq ServerPcs \ Gone
          /\ \A t \in DOMAIN Handler : Handler[t] \in ServerPcs \ Gone
      BY HandlerIs DEF ServerPcs, ServerSends, ServerReceives, Gone
    <2> QED BY <1>2, <2>1, <2>3, <2>4 DEF ServerRun, ServerUpMi, ServerDelM3, FromClient
  <1>5. \A pc, type, b, next : Answer(pc, type, b, next) => ServerIncrement(next)
    BY DEF Answer
  <1>6. {"run", "listM3", "downMi", "upLook", "upClose", "delM3"} \subseteq ServerPcs \ Gone
    BY DEF ServerPcs, ServerSends, ServerReceives, Gone
  <1>7. ~(ServerListM2 \/ ServerListM3 \/ ServerDownM2 \/ ServerDownMi)
    BY <1>2, <1>5, <1>6 DEF ServerListM2, ServerListM3, ServerDownM2, ServerDownMi
  <1>8. ~(ServerUpM2 \/ ServerUpEnd \/ ServerRenM2 \/ ServerDelM2 \/ ServerDelM4)
    BY <1>2, <1>5, <1>6 DEF ServerUpM2, ServerUpEnd, ServerRenM2, ServerDelM2, ServerDelM4
  <1>9. ~(ServerListSilent \/ ServerUpLook \/ ServerUpCreate \/ ServerUpWrite \/ ServerUpClose
          \/ ServerDelSilent \/ ServerOutM2)
    BY DEF ServerListSilent, ServerUpLook, ServerUpCreate, ServerUpWrite, ServerUpClose,
       ServerDelSilent, ServerOutM2, ServerLeave, FirstChunk, Gone
  <1>10. ~(ServerEof \/ ServerSigpipe)
    BY DEF ServerEof, ServerSigpipe, ClientHere, Gone
  <1> QED BY <1>1, <1>3, <1>4, <1>7, <1>8, <1>9, <1>10 DEF ServerStep

\* At its start it ends without a word if it does not know the user; later it says so.
LEMMA DismissedStep ==
    ASSUME TypeOK, TypeOK', DialogueInv, [Next]_vars, Dismissed
    PROVE  Dismissed'
  <1> SUFFICES ASSUME ClientHere', s_pc' = "done"
               PROVE  /\ c_pc' \in {"authM2", "authM5"}
                      /\ IF s2c' = <<>> THEN c_pc' = "authM2" /\ user' = "unknown"
                                        ELSE s2c'[1].body.code = "NACK"
    BY DEF Dismissed
  <1>1. ClientHere
    BY ClientTurns
  <1>2. CASE UserStep \/ ClientStep
    <2>1. s_pc = "done"
      BY <1>2, Apart DEF server
    <2>2. /\ c_pc \in {"authM2", "authM5"}
          /\ s2c # <<>> => s2c[1].body.code = "NACK"
      BY <1>1, <2>1 DEF Dismissed
    <2>3. s2c # <<>> => Head(s2c) = s2c[1]
      BY Taking DEF TypeOK, ChannelsOK
    <2>4. ~UserStep
      BY <2>2 DEF UserStep, ClientList, ClientDownload, ClientUpload, ClientRename,
         ClientDelete, ClientLogout, Request, Refused
    <2>5. ~(ClientListM2 \/ ClientListM3 \/ ClientDownM2 \/ ClientDownMi \/ ClientUpM2
            \/ ClientUpEnd \/ ClientRenM2 \/ ClientDelM2 \/ ClientDelM4 \/ ClientOutM2)
      BY <2>2 DEF ClientListM2, ClientListM3, ClientDownM2, ClientDownMi, ClientUpM2,
         ClientUpEnd, ClientRenM2, ClientDelM2, ClientDelM4, ClientOutM2, FromServer
    <2>6. ~(ClientDownOpen \/ ClientDownWrite \/ ClientUpMi \/ ClientDelAsk \/ ClientAuthM1
            \/ ClientAuthM3 \/ ClientAuthM4 \/ ClientEof \/ ClientSigpipe)
      BY <2>1, <2>2 DEF ClientDownOpen, ClientDownWrite, ClientUpMi, ClientDelAsk,
         ClientAuthM1, ClientAuthM3, ClientAuthM4, ClientEof, ClientSigpipe, FromServer
    <2>7. ~ClientAuthM2
      BY <2>2, <2>3 DEF ClientAuthM2, FromServer, ClientHere, Gone
    <2>8. ~ClientAuthM5
      BY <2>2, <2>3 DEF ClientAuthM5, FromServer, ClientHere, Gone
    <2> QED BY <1>2, <2>4, <2>5, <2>6, <2>7, <2>8 DEF ClientStep
  <1>3. CASE ServerStep
    <2>1. UNCHANGED <<c_pc, user>>
      BY <1>3, Apart DEF client
    <2>2. ASSUME ServerHere
          PROVE  ServerNumbers /\ InHandshake
      BY <1>1, <2>2 DEF DialogueInv, KeysAndCounters
    <2>3. CASE ServerUnknownUser
      <3>1. s_pc = "authM1" /\ c2s # <<>> /\ user = "unknown" /\ s2c' = s2c
        BY <2>3 DEF ServerUnknownUser, FromClient
      <3>2. c_pc = "authM2" /\ s2c = <<>>
        BY <2>2, <3>1 DEF InHandshake, ServerHere, Gone, AuthPcs
      <3> QED BY <2>1, <3>1, <3>2
    <2>4. CASE ServerAuthM2
      <3>1. s_pc = "authM2" /\ ToClient(Msg("AuthM2", NoKey, 0, Code("NACK")))
        BY <2>4 DEF ServerAuthM2
      <3>2. c_pc = "authM2" /\ s2c = <<>>
        BY <2>2, <3>1 DEF InHandshake, ServerHere, Gone, AuthPcs
      <3>3. s2c' = <<Msg("AuthM2", NoKey, 0, Code("NACK"))>>
        BY <3>1, <3>2 DEF ToClient
      <3>4. s2c' # <<>> /\ s2c'[1].body.code = "NACK"
        BY <3>3, HandlerTypes DEF Msg
      <3> QED BY <2>1, <3>2, <3>4
    <2>5. CASE ServerAuthM5
      <3>1. s_pc = "authM5"
        BY <2>5 DEF ServerAuthM5
      <3>2. c_pc = "authM5" /\ s2c = <<>>
        BY <2>2, <3>1 DEF InHandshake, ServerHere, Gone, AuthPcs
      <3>3. s_pc' = s_ret => FALSE
        BY <3>1 DEF DialogueInv, Operations, ServerHere, Gone, ServerTakes, ServerAt, AuthPcs
      <3>4. ToClient(Msg("AuthM5", s_key, s_ctr, Code("NACK")))
        BY <2>5, <3>3 DEF ServerAuthM5
      <3>5. s2c' = <<Msg("AuthM5", s_key, s_ctr, Code("NACK"))>>
        BY <3>2, <3>4 DEF ToClient
      <3>6. s2c' # <<>> /\ s2c'[1].body.code = "NACK"
        BY <3>5, HandlerTypes DEF Msg
      <3> QED BY <2>1, <3>2, <3>6
    <2> QED BY <1>1, <1>3, <2>3, <2>4, <2>5, Endings DEF Gone
  <1>4. CASE ClientExit \/ ServerExit
    BY <1>4 DEF ClientExit, ServerExit, ClientHere, Gone
  <1>5. CASE OtherSession \/ UNCHANGED vars
    BY <1>1, <1>5 DEF OtherSession, vars, client, server, Dismissed
  <1> QED BY <1>2, <1>3, <1>4, <1>5 DEF Next

\* A client that waits for a thread that has ended waits for M2 of a user the server does
\* not know, whatever else happens.
THEOREM DismissedKept == Spec => []Dismissed
  <1>1. Init => Dismissed
    BY DEF Init, Dismissed
  <1>2. TypeOK /\ TypeOK' /\ DialogueInv /\ [Next]_vars /\ Dismissed => Dismissed'
    BY DismissedStep
  <1> QED BY <1>1, <1>2, TypeCorrect, DialogueKept, PTL DEF Spec

\* With nothing under way both can only wait where a handler has kept silent.
LEMMA OneMoves ==
    ASSUME TypeOK, DialogueInv, Heeded, Dismissed, "unknown" \notin UserKinds
    PROVE  NoMutualWait
  <1> SUFFICES ASSUME c_pc \in ClientReceives, s2c = <<>>,
                      s_pc \in ServerReceives \cup {"done"}, c2s = <<>>
               PROVE  FALSE
    BY DEF NoMutualWait, ClientWaits, ServerWaits
  <1>1. ClientHere
    BY DEF ClientHere, ClientReceives, Gone
  <1>2. s_pc # "done"
    BY <1>1 DEF Dismissed, TypeOK
  <1>3. ServerHere
    BY <1>2 DEF ServerHere, ServerReceives, Gone
  <1>4. Len(c2s) = 0 /\ Len(s2c) = 0
    BY EmptySeq
  <1>5. Asked = <<>> /\ Answered = <<>> /\ Len(Asked) = 0 /\ Len(Answered) = 0
    BY EmptySeq DEF Asked, AskedIn, Answered, AnsweredIn
  <1>6. InHandshake
    BY <1>1, <1>3 DEF DialogueInv, KeysAndCounters
  <1>7. c_pc \notin AuthPcs /\ s_pc \notin AuthPcs
    <2>1. MaxCounter \in Nat /\ c_ctr \in Nat /\ c_ctr <= MaxCounter
      BY CounterAssumption DEF TypeOK, ClientOK
    <2> QED BY <1>2, <1>4, <1>6, <2>1 DEF InHandshake, ClientReceives, ServerReceives, AuthPcs
  <1>8. ClientAt = c_pc /\ ServerAt = s_pc
    BY <1>7 DEF ClientAt, ServerAt
  <1>9. ServerAt \in {"run", "upMi", "delM3"}
    BY <1>2, <1>7, <1>8 DEF ServerReceives, AuthPcs
  <1>10. InOperation
    BY <1>1, <1>3 DEF DialogueInv, Operations
  <1>11. ~(AtMenu \/ AwaitsHandler \/ InRename \/ InLogout)
    BY <1>5, <1>8, <1>9 DEF AtMenu, AwaitsHandler, InRename, InLogout, ClientReceives, FirstWaits
  <1>12. ~(InList \/ InDelete)
    BY <1>1, <1>3, <1>5, <1>8, <1>9 DEF InList, InDelete, Heeded, ClientReceives
  <1>13. ~InDownload
    <2>1. c_i \in Nat /\ c_size \in Nat
      BY DEF TypeOK, ClientOK
    <2>2. ClientAt # "downOpen" /\ ClientAt # "downWrite"
      BY <1>8 DEF ClientReceives
    <2>3. ClientAt \in Downloading => ClientAt = "downMi" /\ ClientChunks = c_i
      BY <2>2 DEF Downloading, ClientChunks
    <2> QED BY <1>5, <1>9, <2>1, <2>3 DEF InDownload
  <1>14. ~InUpload
    <2>1. c_i \in Nat /\ c_size \in Nat /\ s_i \in Nat /\ s_size \in Nat
      BY DEF TypeOK, ClientOK, ServerOK
    <2>2. ClientAt # "upMi"
      BY <1>8 DEF ClientReceives
    <2>3. ServerAt = "upMi" => ServerChunks = s_i
      BY DEF ServerChunks
    <2> QED BY <1>5, <1>9, <2>1, <2>2, <2>3 DEF InUpload, Receiving, Idle
  <1> QED BY <1>10, <1>11, <1>12, <1>13, <1>14 DEF InOperation

\* Client and server thread never wait for each other: undisturbed, no handler returns
\* without its answer, and a user the server knows is answered at login.
THEOREM NobodyStuck == Undisturbed /\ "unknown" \notin UserKinds => (Spec => []NoMutualWait)
  <1> SUFFICES ASSUME Undisturbed, "unknown" \notin UserKinds
               PROVE  Spec => []NoMutualWait
    OBVIOUS
  <1>1. TypeOK /\ DialogueInv /\ Heeded /\ Dismissed => NoMutualWait
    BY OneMoves
  <1>2. Spec => []Heeded
    BY HeededKept
  <1> QED BY <1>1, <1>2, TypeCorrect, DialogueKept, DismissedKept, PTL

-----------------------------------------------------------------------------
(* Nothing is deleted unasked.                                              *)

\* A client that is not killed leaves a server that is here when its logout is answered.
LEMMA LeftInOrderStep ==
    ASSUME ~ClientMayExit, TypeOK, TypeOK', DialogueInv, DialogueInv', [Next]_vars, LeftInOrder
    PROVE  LeftInOrder'
  <1> SUFFICES ASSUME c_pc' = "exit", ServerHere'
               PROVE  s_pc' = "run" /\ c2s' = <<>>
    BY DEF LeftInOrder, DialogueInv, KeysAndCounters
  <1>1. CASE UserStep \/ ClientStep
    <2>1. s_pc' = s_pc /\ ServerHere /\ s_pc # "crashed"
      BY <1>1, Apart DEF server, ServerHere, Gone
    <2>2. ASSUME ClientHere
          PROVE  InHandshake /\ ClientNumbers /\ ServerNumbers /\ ClientTakes
      BY <2>1, <2>2 DEF DialogueInv, KeysAndCounters, Operations
    <2>3. s2c # <<>> => Head(s2c) = s2c[1]
      BY Taking DEF TypeOK, ChannelsOK
    <2>4. \A next : ClientIncrement(next) /\ next # "exit" => FALSE
      BY DEF ClientIncrement
    <2>5. \A next, res : Reply(next, res) /\ next # "exit" => FALSE
      BY <2>4 DEF Reply, ClientReturn
    <2>6. ~UserStep
      BY <2>4 DEF UserStep, ClientList, ClientDownload, ClientUpload, ClientRename,
         ClientDelete, ClientLogout, Request, Refused
    <2>7. ~(ClientAuthM1 \/ ClientAuthM2 \/ ClientAuthM3 \/ ClientAuthM4)
      BY <2>4 DEF ClientAuthM1, ClientAuthM2, ClientAuthM3, ClientAuthM4
    <2>8. ~ClientAuthM5
      <3>1. SUFFICES ASSUME ClientAuthM5 PROVE FALSE
        OBVIOUS
      <3>2. c_pc = "authM5" /\ s2c # <<>> /\ c_pc \in AuthPcs
        BY <3>1 DEF ClientAuthM5, FromServer, AuthPcs
      <3>3. ClientHere
        BY <3>2 DEF ClientHere, Gone
      <3>4. Verdict(s2c[1], c_key, c_ctr) = "SUCCESS"
        BY <2>2, <3>2, <3>3 DEF ClientNumbers
      <3>5. s2c[1].body.code = "ACK"
        BY <2>1, <2>2, <3>2, <3>3 DEF InHandshake
      <3>6. c_ret # "exit"
        BY <2>2, <3>2, <3>3 DEF ClientTakes, ClientAt, Downloading, SingleWaits
      <3> QED BY <2>3, <3>1, <3>2, <3>4, <3>5, <3>6 DEF ClientAuthM5
    <2>9. ~(ClientListM2 \/ ClientListM3 \/ ClientDownM2 \/ ClientDownMi \/ ClientUpM2
            \/ ClientUpEnd \/ ClientRenM2 \/ ClientDelM2 \/ ClientDelM4)
      BY <2>5 DEF ClientListM2, ClientListM3, ClientDownM2, ClientDownMi, ClientUpM2,
         ClientUpEnd, ClientRenM2, ClientDelM2, ClientDelM4
    <2>10. ~(ClientDownOpen \/ ClientDownWrite \/ ClientUpMi \/ ClientDelAsk \/ ClientSigpipe
             \/ ClientEof)
      BY <2>1, <2>4 DEF ClientDownOpen, ClientDownWrite, ClientUpMi, ClientDelAsk,
         ClientSigpipe, ClientEof, ClientReturn
    <2>11. CASE ClientOutM2
      <3>1. c_pc = "outM2" /\ s2c # <<>> /\ c2s' = c2s
        BY <2>11 DEF ClientOutM2, FromServer
      <3>2. ClientHere /\ ClientAt = "outM2" /\ c_pc \notin AuthPcs
        BY <3>1 DEF ClientHere, Gone, ClientAt, AuthPcs
      <3>3. Answered # <<>>
        BY <2>2, <3>1, <3>2, ClientReads
      <3>4. s_pc = "run" /\ Asked = <<>>
        BY <2>1, <3>2, <3>3, ClientPlaces DEF InLogout
      <3>5. c2s = <<>>
        BY <2>2, <3>2, <3>4, ServerReads DEF AuthPcs
      <3> QED BY <2>1, <3>1, <3>4, <3>5
    <2> QED BY <1>1, <2>6, <2>7, <2>8, <2>9, <2>10, <2>11 DEF ClientStep
  <1>2. CASE ServerStep
    <2>1. s_pc = "run" /\ c2s = <<>>
      BY <1>2, Apart, ServerOperation DEF client, LeftInOrder
    <2>2. ~ServerRun /\ ~ServerEof
      BY <2>1 DEF ServerRun, ServerEof, ServerLeave, ServerHere, Gone
    <2>3. ~(ServerUnknownUser \/ ServerAuthM1 \/ ServerAuthM2 \/ ServerAuthM3 \/ ServerAuthM4
            \/ ServerAuthM5)
      BY <2>1 DEF ServerUnknownUser, ServerAuthM1, ServerAuthM2, ServerAuthM3, ServerAuthM4,
         ServerAuthM5, FromClient
    <2>4. ~(ServerListSilent \/ ServerListM2 \/ ServerListM3 \/ ServerDownM2 \/ ServerDownMi
            \/ ServerUpM2 \/ ServerUpLook \/ ServerUpCreate \/ ServerUpMi \/ ServerUpWrite)
      BY <2>1 DEF ServerListSilent, ServerListM2, ServerListM3, ServerDownM2, ServerDownMi,
         ServerUpM2, ServerUpLook, ServerUpCreate, ServerUpMi, ServerUpWrite, Answer, FromClient
    <2>5. ~(ServerUpEnd \/ ServerUpClose \/ ServerRenM2 \/ ServerDelM2 \/ ServerDelM3
            \/ ServerDelSilent \/ ServerDelM4 \/ ServerOutM2 \/ ServerSigpipe)
      BY <2>1 DEF ServerUpEnd, ServerUpClose, ServerRenM2, ServerDelM2, ServerDelM3,
         ServerDelSilent, ServerDelM4, ServerOutM2, ServerSigpipe, Answer, FromClient,
         ServerSends
    <2> QED BY <1>2, <2>2, <2>3, <2>4, <2>5 DEF ServerStep
  <1>3. CASE ClientExit \/ ServerExit
    BY <1>3 DEF ClientExit, ServerExit, ServerHere, Gone
  <1>4. CASE OtherSession \/ UNCHANGED vars
    BY <1>4, ServerTurns DEF OtherSession, vars, client, server, LeftInOrder
  <1> QED BY <1>1, <1>2, <1>3, <1>4 DEF Next

\* A client that is not killed is gone only after its last request has been served.
THEOREM LeftInOrderKept == ~ClientMayExit => (Spec => []LeftInOrder)
  <1> SUFFICES ASSUME ~ClientMayExit
               PROVE  Spec => []LeftInOrder
    OBVIOUS
  <1>1. Init => LeftInOrder
    BY DEF Init, LeftInOrder
  <1>2. /\ TypeOK /\ TypeOK' /\ DialogueInv /\ DialogueInv' /\ [Next]_vars /\ LeftInOrder
        => LeftInOrder'
    BY LeftInOrderStep
  <1> QED BY <1>1, <1>2, TypeCorrect, DialogueKept, PTL DEF Spec

\* Only a rename and a confirmed delete take a name away.
LEMMA Removals ==
    ASSUME ~OtherSessions, TypeOK, Next, NEW f \in Names,
           store[f] # Absent, store'[f] = Absent
    PROVE  f = s_file /\ s_pc \in {"renM2", "delM4"}
  <1>1. store \in [Names -> Nat \cup {Absent}] /\ s_file \in Names /\ Absent = -1
    BY DEF TypeOK, DisksOK, ServerOK, Absent
  <1>2. store' # store
    OBVIOUS
  <1>3. \A pc : ~ServerLeave(pc)
    BY <1>1 DEF ServerLeave
  <1>4. ~(UserStep \/ ClientStep \/ ClientExit \/ ServerExit \/ OtherSession)
    BY <1>2, Apart DEF ClientExit, ServerExit, OtherSession
  <1>5. ServerStep
    BY <1>4 DEF Next
  <1>6. ~(ServerUnknownUser \/ ServerAuthM1 \/ ServerAuthM2 \/ ServerAuthM3 \/ ServerAuthM4
          \/ ServerAuthM5 \/ ServerRun)
    BY <1>2, <1>3 DEF ServerUnknownUser, ServerAuthM1, ServerAuthM2, ServerAuthM3,
       ServerAuthM4, ServerAuthM5, ServerRun
  <1>7. ~(ServerListSilent \/ ServerListM2 \/ ServerListM3 \/ ServerDownM2 \/ ServerDownMi
          \/ ServerUpM2 \/ ServerUpEnd \/ ServerDelM2 \/ ServerDelM3 \/ ServerDelSilent
          \/ ServerOutM2)
    BY <1>2 DEF ServerListSilent, ServerListM2, ServerListM3, ServerDownM2, ServerDownMi,
       ServerUpM2, ServerUpEnd, ServerDelM2, ServerDelM3, ServerDelSilent, ServerOutM2
  <1>8. ~(ServerUpMi \/ ServerUpClose \/ ServerEof \/ ServerSigpipe)
    BY <1>2, <1>3 DEF ServerUpMi, ServerUpClose, ServerEof, ServerSigpipe
  <1>9. ~(ServerUpLook \/ ServerUpCreate \/ ServerUpWrite)
    <2>1. /\ [store EXCEPT ![s_file] = 0][f] \in {store[f], 0}
          /\ [store EXCEPT ![s_file] = @ + 1][f] \in {store[f], store[f] + 1}
          /\ store[f] # -1 /\ store[f] + 1 # -1
      BY <1>1
    <2>2. ~(ServerUpLook \/ ServerUpCreate)
      BY <1>1, <1>2, <2>1 DEF ServerUpLook, ServerUpCreate
    <2>3. ~ServerUpWrite
      BY <1>1, <1>2, <2>1 DEF ServerUpWrite
    <2> QED BY <2>2, <2>3
  <1>10. CASE ServerRenM2
    <2>1. s_pc = "renM2"
      BY <1>10 DEF ServerRenM2, Answer
    <2>2. /\ store[s_file] # Absent /\ store[s_new] = Absent
          /\ store' = [store EXCEPT ![s_new] = store[s_file], ![s_file] = Absent]
      BY <1>2, <1>10 DEF ServerRenM2
    <2> QED BY <1>1, <2>1, <2>2
  <1>11. CASE ServerDelM4
    BY <1>1, <1>11 DEF ServerDelM4, Answer
  <1> QED BY <1>5, <1>6, <1>7, <1>8, <1>9, <1>10, <1>11 DEF ServerStep

\* If no other session interferes and no client is killed in between, a stored file
\* disappears under its name only when the user of this session renamed it, or answered yes
\* to the question about this very file.
THEOREM OnlyConfirmed == ~OtherSessions /\ ~ClientMayExit => (Spec => DeleteOnlyConfirmed)
  <1> SUFFICES ASSUME ~OtherSessions, ~ClientMayExit
               PROVE  Spec => DeleteOnlyConfirmed
    OBVIOUS
  <1> DEFINE Confirmed == \A f \in Names : (store[f] # Absent /\ store'[f] = Absent) =>
               c_file = f /\ <<s_pc, ClientAt>> \in {<<"renM2", "renM2">>, <<"delM4", "delM4">>}
  <1>1. TypeOK /\ DialogueInv /\ SameFile /\ LeftInOrder /\ [Next]_vars => [Confirmed]_vars
    <2> SUFFICES ASSUME TypeOK, DialogueInv, SameFile, LeftInOrder, Next,
                        NEW f \in Names, store[f] # Absent, store'[f] = Absent
                 PROVE  /\ c_file = f
                        /\ <<s_pc, ClientAt>> \in {<<"renM2", "renM2">>, <<"delM4", "delM4">>}
      BY DEF vars
    <2>1. f = s_file /\ s_pc \in {"renM2", "delM4"}
      BY Removals
    <2>2. ServerHere /\ ServerAt = s_pc
      BY <2>1 DEF ServerHere, Gone, ServerAt, AuthPcs
    <2>3. ClientHere
      BY <2>1, <2>2 DEF LeftInOrder, ClientHere, Gone, TypeOK, ClientOK, ClientPcs,
         ClientReceives, ClientSends
    <2>4. ClientAt = s_pc /\ Len(Asked) = 0
      <3>1. CASE s_pc = "renM2"
        <4>1. AwaitsHandler /\ ClientAt = "renM2"
          BY <2>2, <2>3, <3>1, ServerPlaces DEF FirstWaits
        <4> QED BY <2>2, <3>1, <4>1 DEF AwaitsHandler, Idle
      <3>2. CASE s_pc = "delM4"
        BY <2>2, <2>3, <3>2, ServerPlaces DEF InDelete
      <3> QED BY <2>1, <3>1, <3>2
    <2>5. s_file = c_file
      BY <2>1, <2>2, <2>3, <2>4 DEF SameFile, FileOps
    <2> QED BY <2>1, <2>4, <2>5
  <1>2. Spec => []LeftInOrder
    BY LeftInOrderKept
  <1> QED BY <1>1, <1>2, TypeCorrect, DialogueKept, SameFileKept, PTL
          DEF Spec, DeleteOnlyConfirmed

-----------------------------------------------------------------------------
(* What is reported as uploaded is.                                         *)

\* With a directory and no other session the chunks of an upload go to its file.
LEMMA OpenedStep ==
    ASSUME HasDirectory, ~OtherSessions, TypeOK, TypeOK', DialogueInv, UploadInv,
           [Next]_vars, Opened
    PROVE  Opened'
  <1> SUFFICES ASSUME ServerHere'
               PROVE  /\ ServerAt' \in {"upLook", "upCreate"} => store'[s_file'] = Absent
                      /\ ServerAt' \in {"upMi", "upWrite", "upEnd", "upClose"} =>
                           s_stream' = "open"
                      /\ ServerAt' \in {"upEnd", "upClose"} => s_i' = s_size'
    BY DEF Opened
  <1>1. ServerHere
    BY ServerTurns
  <1>2. CASE ServerTurn
    <2>1. CASE KeepsServing
      BY <1>1, <2>1 DEF KeepsServing, StaysInOperation, Opened
    <2>2. CASE TakesRequest
      BY <2>2 DEF TakesRequest, FirstWaits
    <2>3. CASE TakesFurther
      BY <1>1, <2>3 DEF TakesFurther, Opened
    <2>4. CASE Answers
      BY <1>1, <2>4 DEF Answers, Opened
    <2>5. CASE StaysSilent \/ BreaksOff \/ LogsOut
      <3>1. ServerAt' = "run"
        BY <2>5 DEF StaysSilent, BreaksOff, LogsOut, ServerAt, AuthPcs
      <3> QED BY <3>1
    <2>6. CASE StoresFile
      <3>1. ServerAt \in {"upLook", "upCreate"} => store[s_file] = Absent /\ s_i = 0
        BY <1>1 DEF Opened, UploadInv, StreamInUpload
      <3>2. ServerAt = "upWrite" => s_stream = "open"
        BY <1>1 DEF Opened
      <3> QED BY <2>6, <3>1, <3>2 DEF StoresFile, FirstChunk
    <2> QED BY <1>2, <2>1, <2>2, <2>3, <2>4, <2>5, <2>6 DEF ServerTurn, ServerMoves
  <1>3. CASE /\ UNCHANGED <<ServerAt, s_pc, s_file, s_size, s_i, s_buf>>
             /\ UNCHANGED <<store, s_stream>>
    BY <1>1, <1>3 DEF Opened
  <1> QED BY <1>2, <1>3, ServerTurns

\* The invariant of the uploads is kept.
LEMMA UploadKept == Spec => []UploadInv
  BY UploadInit, UploadStep, TypeCorrect, PTL DEF Spec

\* With a directory and no other session no chunk of an upload is lost in a closed stream.
THEOREM OpenedKept == HasDirectory /\ ~OtherSessions => (Spec => []Opened)
  <1> SUFFICES ASSUME HasDirectory, ~OtherSessions
               PROVE  Spec => []Opened
    OBVIOUS
  <1>1. Init => Opened
    BY DEF Init, Opened, ServerAt, AuthPcs
  <1>2. TypeOK /\ TypeOK' /\ DialogueInv /\ UploadInv /\ [Next]_vars /\ Opened => Opened'
    BY OpenedStep
  <1> QED BY <1>1, <1>2, TypeCorrect, DialogueKept, UploadKept, PTL DEF Spec

\* The server that has taken the last chunk has the whole file.
LEMMA UploadedStep ==
    ASSUME HasDirectory, ~OtherSessions, ~ServerMayExit, TypeOK, TypeOK', DialogueInv,
           SameFile, UploadInv, Opened, [Next]_vars, Uploaded
    PROVE  Uploaded'
  <1>1. ASSUME ClientHere'
        PROVE  s_pc' # "crashed"
    <2>1. ClientHere /\ s_pc # "crashed"
      BY <1>1, ClientTurns DEF Uploaded
    <2>2. CASE UserStep \/ ClientStep
      BY <2>1, <2>2, Apart DEF server
    <2>3. CASE ServerStep
      <3>1. SUFFICES ASSUME s_pc' = "crashed" PROVE FALSE
        OBVIOUS
      <3>2. ServerUnknownUser \/ ServerAuthM2 \/ ServerAuthM5
        BY <2>1, <2>3, <3>1, Endings DEF Gone
      <3>3. ServerAuthM5 => s_ret # "crashed"
        BY DEF ServerAuthM5, DialogueInv, Operations, ServerHere, Gone, ServerTakes, ServerAt,
           AuthPcs
      <3> QED BY <3>1, <3>2, <3>3 DEF ServerUnknownUser, ServerAuthM2, ServerAuthM5, ServerLeave
    <2>4. CASE ClientExit \/ ServerExit \/ OtherSession
      BY <1>1, <2>1, <2>4 DEF ClientExit, ServerExit, OtherSession, server
    <2>5. CASE UNCHANGED vars
      BY <2>1, <2>5 DEF vars, server
    <2> QED BY <2>2, <2>3, <2>4, <2>5 DEF Next
  <1>2. ASSUME ClientHere', ServerHere', ClientAt' = "upEnd",
               ServerAt' \in {"upEnd"} \cup Idle
        PROVE  s_size' = c_size' /\ (ServerAt' = "run" => store'[c_file'] = c_size')
    <2>1. ClientHere /\ ServerHere /\ (ClientTurn \/ ServerTurn \/ NoTurn)
      BY <1>2, Turns
    <2>2. CASE NoTurn
      BY <1>2, <2>1, <2>2 DEF NoTurn, Uploaded
    <2>3. CASE ClientTurn
      <3>1. UNCHANGED <<ServerAt, s_size, store>>
        BY <2>3 DEF ClientTurn
      <3>2. CASE Stays
        BY <1>2, <2>1, <3>1, <3>2 DEF Stays, StaysInOperation, Uploaded
      <3>3. CASE SendsChunk
        <4>1. ServerAt \in Receiving
          BY <2>1, <3>3, FilePlaces DEF SendsChunk, FileOps
        <4> QED BY <1>2, <3>1, <4>1 DEF Receiving, Idle
      <3>4. ~(Picks \/ TakesAnswer \/ Writes \/ Decides \/ GivesUp)
        BY <1>2 DEF Picks, FirstWaits, TakesAnswer, Writes, Decides, GivesUp
      <3> QED BY <2>3, <3>2, <3>3, <3>4 DEF ClientTurn, ClientMoves
    <2>4. CASE ServerTurn
      <3>1. UNCHANGED <<ClientAt, c_file, c_size>> /\ ClientAt = "upEnd"
        BY <1>2, <2>4 DEF ServerTurn
      <3>2. InUpload /\ Len(Asked) \in Nat /\ (Asked = <<>> <=> Len(Asked) = 0)
        BY <2>1, <3>1, ClientPlaces, Channels DEF TypeOK
      <3>3. /\ ServerAt \in Receiving \cup {"upEnd", "run", "upClose"}
            /\ ServerAt \in {"upEnd", "run", "upClose"} => Asked = <<>> /\ s_size = c_size
            /\ ServerAt \in Receiving => s_size = c_size /\ s_i < s_size
            /\ ServerAt \in {"upLook", "upCreate"} => s_i = 0
            /\ ServerAt = "run" => store[c_file] = c_size
        BY <2>1, <3>1, <3>2 DEF InUpload, Idle, Receiving, Uploaded
      <3>4. CASE KeepsServing
        BY <1>2, <2>1, <3>1, <3>3, <3>4 DEF KeepsServing, StaysInOperation, Idle, Receiving
      <3>5. CASE TakesFurther
        BY <1>2, <3>3, <3>5 DEF TakesFurther, Idle, Receiving
      <3>6. CASE Answers
        <4>1. ServerAt = "upEnd"
          BY <3>3, <3>6 DEF Answers, ServerSends, Receiving
        <4> QED BY <3>1, <3>3, <3>6, <4>1 DEF Answers
      <3>7. CASE StoresFile
        <4>1. s_size' = s_size /\ s_size = c_size
          BY <3>3, <3>7 DEF StoresFile, FirstChunk
        <4>2. ServerAt' = "run" => ServerAt = "upClose"
          BY <3>7 DEF StoresFile, FirstChunk
        <4>3. ASSUME ServerAt = "upClose"
              PROVE  store'[c_file] = c_size
          <5>1. s_stream = "open" /\ s_i = c_size
            BY <2>1, <3>3, <4>3 DEF Opened
          <5>2. s_file = c_file
            <6>1. Len(Asked) = 0
              BY <3>2, <3>3, <4>3
            <6> QED BY <2>1, <3>1, <6>1 DEF SameFile, FileOps
          <5>3. store[c_file] + (IF s_buf THEN 1 ELSE 0) = c_size
            BY <5>1, <5>2 DEF UploadInv, UploadPrefix
          <5>4. store \in [Names -> Nat \cup {Absent}] /\ c_file \in Names /\ s_buf \in BOOLEAN
            BY DEF TypeOK, DisksOK, ClientOK, ServerOK
          <5>5. store' = IF s_buf THEN [store EXCEPT ![c_file] = @ + 1] ELSE store
            BY <3>7, <4>3, <5>1, <5>2 DEF StoresFile, FirstChunk
          <5> QED BY <5>3, <5>4, <5>5 DEF Absent
        <4> QED BY <3>1, <4>1, <4>2, <4>3
      <3>8. ~TakesRequest
        BY <2>1, <3>1 DEF TakesRequest, AwaitsHandler, FirstWaits
      <3>9. ~(StaysSilent \/ BreaksOff \/ LogsOut)
        BY <2>1, <3>1, <3>3 DEF StaysSilent, BreaksOff, LogsOut, ClientHere, Gone, Receiving
      <3> QED BY <2>4, <3>4, <3>5, <3>6, <3>7, <3>8, <3>9 DEF ServerTurn, ServerMoves
    <2> QED BY <2>1, <2>2, <2>3, <2>4
  <1> QED BY <1>1, <1>2 DEF Uploaded

\* If in addition the server is not killed, the stored file is complete and flushed when
\* the server is back at run().
THEOREM UploadedKept ==
    HasDirectory /\ ~OtherSessions /\ ~ServerMayExit => (Spec => []Uploaded)
  <1> SUFFICES ASSUME HasDirectory, ~OtherSessions, ~ServerMayExit
               PROVE  Spec => []Uploaded
    OBVIOUS
  <1>1. Init => Uploaded
    BY DEF Init, Uploaded, ClientAt, AuthPcs
  <1>2. /\ TypeOK /\ TypeOK' /\ DialogueInv /\ SameFile /\ UploadInv /\ Opened /\ [Next]_vars
        /\ Uploaded
        => Uploaded'
    BY UploadedStep
  <1>3. Spec => []Opened
    BY OpenedKept
  <1> QED BY <1>1, <1>2, <1>3, TypeCorrect, DialogueKept, SameFileKept, UploadKept, PTL
          DEF Spec

\* The client takes UpEnd of an upload that the server has carried out.
LEMMA UploadEnd ==
    ASSUME TypeOK, DialogueInv, Dismissed, SameFile, UploadInv, Opened, Uploaded, ClientUpEnd
    PROVE  store[c_file] + (IF s_buf THEN 1 ELSE 0) = c_size
  <1>1. c_pc = "upEnd" /\ s2c # <<>>
    BY DEF ClientUpEnd, FromServer
  <1>2. ClientHere /\ ClientAt = "upEnd" /\ c_pc \notin AuthPcs
    BY <1>1 DEF ClientHere, Gone, ClientAt, AuthPcs
  <1>3. ServerHere
    BY <1>1, <1>2 DEF Uploaded, Dismissed, ServerHere, Gone, TypeOK, ServerOK, ServerPcs,
       ServerReceives, ServerSends
  <1>4. Answered # <<>> /\ (Answered = <<>> <=> Len(Answered) = 0) /\ Len(Asked) \in Nat
    BY <1>1, <1>2, ClientReads, Channels DEF DialogueInv, KeysAndCounters, TypeOK
  <1>5. ServerAt \in Idle /\ Len(Asked) = 0
    BY <1>2, <1>3, <1>4, ClientPlaces DEF InUpload
  <1>6. s_size = c_size /\ (ServerAt = "run" => store[c_file] = c_size) /\ s_file = c_file
    BY <1>2, <1>3, <1>5 DEF Uploaded, SameFile, FileOps
  <1>7. CASE ServerAt = "run"
    <2>1. ~s_buf
      BY <1>7 DEF UploadInv, StreamInUpload
    <2>2. c_size \in Nat
      BY DEF TypeOK, ClientOK
    <2> QED BY <1>6, <1>7, <2>1, <2>2
  <1>8. CASE ServerAt = "upClose"
    <2>1. s_stream = "open" /\ s_i = s_size
      BY <1>3, <1>8 DEF Opened
    <2> QED BY <1>6, <2>1 DEF UploadInv, UploadPrefix
  <1> QED BY <1>5, <1>7, <1>8 DEF Idle

\* If there is a directory, no other session interferes and the server is not killed: when
\* uploadRequest returns SUCCESS, the storage holds the whole file, but for a last chunk
\* that the open stream still buffers.
THEOREM UploadsComplete ==
    HasDirectory /\ ~OtherSessions /\ ~ServerMayExit => (Spec => UploadComplete)
  <1> SUFFICES ASSUME HasDirectory, ~OtherSessions, ~ServerMayExit
               PROVE  Spec => UploadComplete
    OBVIOUS
  <1> DEFINE Complete == (c_pc = "upEnd" /\ c_res' = "SUCCESS") =>
               store[c_file] + (IF s_buf THEN 1 ELSE 0) = c_size
  <1>1. /\ TypeOK /\ DialogueInv /\ Busy /\ Dismissed /\ SameFile /\ UploadInv /\ Opened
        /\ Uploaded /\ [Next]_vars
        => [Complete]_vars
    <2> SUFFICES ASSUME TypeOK, DialogueInv, Busy, Dismissed, SameFile, UploadInv, Opened,
                        Uploaded, Next, c_pc = "upEnd", c_res' = "SUCCESS"
                 PROVE  store[c_file] + (IF s_buf THEN 1 ELSE 0) = c_size
      BY DEF vars
    <2>1. ClientHere /\ c_res = "none"
      BY DEF Busy, ClientHere, Gone, ClientAt, AuthPcs
    <2>2. s_pc # "crashed"
      BY <2>1 DEF Uploaded
    <2>3. ~(ServerStep \/ ClientExit \/ ServerExit \/ OtherSession)
      BY <2>1, Apart DEF ClientExit, ServerExit, OtherSession, client
    <2>4. ~UserStep
      BY DEF UserStep, ClientList, ClientDownload, ClientUpload, ClientRename, ClientDelete,
         ClientLogout, Request, Refused
    <2>5. ~(ClientAuthM1 \/ ClientAuthM2 \/ ClientAuthM3 \/ ClientAuthM4 \/ ClientAuthM5
            \/ ClientListM2 \/ ClientListM3 \/ ClientDownM2 \/ ClientDownMi \/ ClientUpM2
            \/ ClientRenM2 \/ ClientDelM2 \/ ClientDelM4 \/ ClientOutM2)
      BY DEF ClientAuthM1, ClientAuthM2, ClientAuthM3, ClientAuthM4, ClientAuthM5,
         ClientListM2, ClientListM3, ClientDownM2, ClientDownMi, ClientUpM2, ClientRenM2,
         ClientDelM2, ClientDelM4, ClientOutM2, FromServer
    <2>6. ~(ClientDownOpen \/ ClientDownWrite \/ ClientUpMi \/ ClientDelAsk \/ ClientEof
            \/ ClientSigpipe)
      BY <2>2 DEF ClientDownOpen, ClientDownWrite, ClientUpMi, ClientDelAsk, ClientEof,
         ClientSigpipe
    <2>7. ClientUpEnd
      BY <2>3, <2>4, <2>5, <2>6 DEF Next, ClientStep
    <2> QED BY <2>7, UploadEnd
  <1>2. Spec => []Opened /\ []Uploaded
    BY OpenedKept, UploadedKept
  <1> QED BY <1>1, <1>2, TypeCorrect, DialogueKept, BusyKept, DismissedKept, SameFileKept,
             UploadKept, PTL DEF Spec, UploadComplete

-----------------------------------------------------------------------------
(* What is reported as downloaded is.                                       *)

\* The server is in the download, too.
LEMMA DownPlaces ==
    ASSUME TypeOK, DialogueInv, ClientHere, ServerHere,
           \/ ClientAt \in Downloading
           \/ ClientAt = "downM2" /\ Answered # <<>>
    PROVE  InDownload /\ ServerAt \in {"run", "downMi"}
  <1>1. InDownload
    BY ClientPlaces
  <1>2. Answered # <<>> => Len(Answered) # 0
    BY Channels DEF TypeOK
  <1> QED BY <1>1, <1>2 DEF InDownload

\* In a download the server changes no file ...
LEMMA StoreKept ==
    ASSUME TypeOK, DialogueInv, ClientHere, ServerHere, ServerMoves,
           ServerAt \in {"run", "downM2", "downMi"}
    PROVE  store' = store
  <1>1. CASE KeepsServing \/ TakesRequest \/ TakesFurther \/ StaysSilent \/ LogsOut
    BY <1>1 DEF KeepsServing, TakesRequest, TakesFurther, StaysSilent, LogsOut
  <1>2. CASE Answers
    BY <1>2 DEF Answers
  <1>3. CASE StoresFile \/ BreaksOff
    BY <1>3 DEF StoresFile, FirstChunk, BreaksOff
  <1> QED BY <1>1, <1>2, <1>3 DEF ServerMoves

\* ... and neither does a thread that ends.
LEMMA StoreLeft ==
    ASSUME TypeOK, TypeOK', DialogueInv, UploadInv, ClientHere, ServerStep, ~ServerHere'
    PROVE  /\ ServerHere /\ Answered' = Answered
           /\ ServerAt \in {"run", "downMi"} => store' = store
  <1>1. ServerUnknownUser \/ ServerAuthM2 \/ ServerAuthM5
    BY Endings DEF ServerHere
  <1>2. ServerHere
    BY <1>1 DEF ServerUnknownUser, ServerAuthM2, ServerAuthM5, FromClient, ServerHere, Gone
  <1>3. Answered' = Answered
    <2>1. ClientHere'
      BY Apart DEF client, ClientHere
    <2>2. CASE ServerUnknownUser
      BY <2>2 DEF ServerUnknownUser, Answered
    <2>3. CASE ServerAuthM2 \/ ServerAuthM5
      BY <2>1, <2>3, HandshakeKnown, HandshakeEnds DEF StaysInOperation
    <2> QED BY <1>1, <2>2, <2>3
  <1>4. ServerAt \in {"run", "downMi"} => s_stream = "closed"
    BY DEF UploadInv, StreamInUpload
  <1>5. store' = store \/ s_stream = "open"
    BY <1>1 DEF ServerUnknownUser, ServerAuthM2, ServerAuthM5, ServerLeave
  <1> QED BY <1>2, <1>3, <1>4, <1>5

\* The announced size is that of the stored file, and the local file has the chunks that
\* have been taken.
LEMMA DownloadedStep ==
    ASSUME ~OtherSessions, TypeOK, TypeOK', DialogueInv, SameFile, UploadInv, [Next]_vars,
           Downloaded
    PROVE  Downloaded'
  <1> DEFINE Announced == /\ ClientAt = "downM2" /\ Answered # <<>>
                          /\ Answered[1].body.code # "FILE_NOT_FOUND"
             Announces == ClientAt' = "downM2" /\ Answered' # <<>>
                            /\ Answered'[1].body.code # "FILE_NOT_FOUND"
  <1> SUFFICES ASSUME ClientHere'
               PROVE  /\ Announces => Answered'[1].body.n = store'[c_file']
                      /\ ClientAt' \in Downloading => c_size' = store'[c_file']
                      /\ ClientAt' \in {"downMi", "downWrite"} => local'[c_file'] = c_i'
    BY DEF Downloaded
  <1>1. /\ ClientHere
        /\ Announced => Answered[1].body.n = store[c_file]
        /\ ClientAt \in Downloading => c_size = store[c_file]
        /\ ClientAt \in {"downMi", "downWrite"} => local[c_file] = c_i
    BY ClientTurns DEF Downloaded
  <1>2. ASSUME UNCHANGED <<ClientAt, c_file, c_size, c_i, local, Answered>>,
               ClientAt \in Downloading \/ Announced => store' = store
        PROVE  Downloaded'
    BY <1>1, <1>2 DEF Downloaded, Downloading
  <1>3. CASE UserStep \/ ClientStep
    <2>1. ClientMoves /\ store' = store
      BY <1>3, ClientOperation
    <2>2. local \in [Names -> Nat \cup {Absent}] /\ c_file \in Names
      BY DEF TypeOK, DisksOK, ClientOK
    <2>3. CASE Picks
      BY <2>3 DEF Picks, FirstWaits, Downloading
    <2>4. CASE Stays
      <3>1. UNCHANGED <<ClientAt, c_file, c_size, c_i, local, Answered>>
        BY <2>4 DEF Stays, StaysInOperation
      <3> QED BY <1>2, <2>1, <3>1 DEF Downloaded
    <2>5. CASE TakesAnswer
      <3>1. ClientAt' = "downOpen" => ClientAt = "downM2" /\ Announced
        BY <2>5 DEF TakesAnswer
      <3>2. ClientAt' # "downM2" /\ ClientAt' # "downMi"
        BY <2>5 DEF TakesAnswer
      <3>3. ClientAt' = "downWrite" => ClientAt = "downMi"
        BY <2>5 DEF TakesAnswer
      <3>4. UNCHANGED <<c_file, c_i, local>>
        BY <2>5 DEF TakesAnswer
      <3>5. ClientAt' = "downOpen" => c_size' = Answered[1].body.n
        BY <2>5 DEF TakesAnswer
      <3>6. ClientAt' = "downWrite" => c_size' = c_size
        BY <2>5 DEF TakesAnswer
      <3> QED BY <1>1, <2>1, <3>1, <3>2, <3>3, <3>4, <3>5, <3>6 DEF Downloading
    <2>6. CASE Writes
      <3>1. /\ UNCHANGED <<c_file, c_size>> /\ ClientAt \in Downloading
            /\ ClientAt' \in {"menu", "downMi"}
        BY <2>6 DEF Writes, Downloading
      <3>2. local'[c_file] = c_i'
        BY <1>1, <2>2, <2>6 DEF Writes
      <3> QED BY <1>1, <2>1, <3>1, <3>2 DEF Downloading
    <2>7. CASE SendsChunk \/ Decides \/ GivesUp
      BY <2>7 DEF SendsChunk, Decides, GivesUp, Downloading
    <2> QED BY <2>1, <2>3, <2>4, <2>5, <2>6, <2>7 DEF ClientMoves
  <1>4. CASE ServerStep
    <2>1. UNCHANGED <<ClientAt, c_file, c_size, c_i, local>>
      BY <1>4, Apart DEF client, ClientAt
    <2>2. CASE ~ServerHere'
      <3>1. ServerHere /\ Answered' = Answered
        BY <1>1, <1>4, <2>2, StoreLeft
      <3>2. ClientAt \in Downloading \/ Announced => store' = store
        BY <1>1, <1>4, <2>2, <3>1, StoreLeft, DownPlaces
      <3> QED BY <1>2, <2>1, <3>1, <3>2 DEF Downloaded
    <2>3. CASE ServerHere'
      <3>1. ServerHere /\ ServerMoves
        BY <1>4, <2>3, ServerOperation
      <3>2. ClientAt \in Downloading \/ Announced => store' = store
        BY <1>1, <3>1, StoreKept, DownPlaces
      <3>3. ASSUME Announces
            PROVE  Answered'[1].body.n = store'[c_file]
        <4>1. CASE Answers
          <5>1. PICK m \in Message :
                  /\ Answered' = Append(Answered, m)
                  /\ ServerAt = "downM2" /\ m.body.code # "FILE_NOT_FOUND" =>
                       m.body.n = store[s_file]
            BY <1>1, <4>1 DEF Answers
          <5>2. Answered \in Seq(Message) /\ Len(Answered) \in Nat
                /\ (Answered = <<>> <=> Len(Answered) = 0)
            BY Channels DEF TypeOK
          <5>3. CASE Answered # <<>>
            <6>1. Answered'[1] = Answered[1]
              BY <5>1, <5>2, <5>3, Adding
            <6> QED BY <1>1, <2>1, <3>2, <3>3, <5>3, <6>1
          <5>4. CASE Answered = <<>>
            <6>1. Answered'[1] = m
              BY <5>1, <5>2, <5>4, Adding
            <6>2. AwaitsHandler \/ InList \/ InDelete
              BY <1>1, <2>1, <3>1, <3>3, <5>4, ClientPlaces DEF FirstWaits
            <6>3. ServerAt = "downM2" /\ Asked = <<>>
              BY <2>1, <3>3, <4>1, <6>2
                 DEF Answers, AwaitsHandler, InList, InDelete, Idle, ServerSends
            <6>4. store' = store
              BY <1>1, <3>1, <6>3, StoreKept
            <6>5. s_file = c_file
              <7>1. Len(Asked) = 0
                BY <6>3, EmptySeq
              <7> QED BY <1>1, <2>1, <3>1, <3>3, <7>1 DEF SameFile, FileOps
            <6> QED BY <3>3, <5>1, <6>1, <6>3, <6>4, <6>5
          <5> QED BY <5>3, <5>4
        <4>2. CASE ~Answers
          <5>1. ~BreaksOff /\ ~LogsOut
            BY <1>1, <2>1, <3>3 DEF BreaksOff, LogsOut, ClientHere, Gone
          <5>2. Answered' = Answered
            BY <2>1, <3>1, <4>2, <5>1, ClientTurns
               DEF ServerMoves, KeepsServing, StaysInOperation, TakesRequest, TakesFurther,
                   StaysSilent, StoresFile
          <5> QED BY <1>1, <2>1, <3>2, <3>3, <5>2
        <4> QED BY <4>1, <4>2
      <3> QED BY <1>1, <2>1, <3>2, <3>3 DEF Downloading
    <2> QED BY <2>2, <2>3
  <1>5. CASE ServerExit
    <2>1. UNCHANGED <<client, store, local>> /\ s2c' \in Prefixes(s2c)
      BY <1>5 DEF ServerExit
    <2>2. UNCHANGED <<ClientAt, c_file, c_size, c_i>>
      BY <2>1 DEF client, ClientAt
    <2>3. Answered' # <<>> => Answered # <<>> /\ Answered'[1] = Answered[1]
      <3>1. /\ Len(Answered') \in Nat /\ Len(Answered) \in Nat
            /\ Len(Answered') <= Len(Answered)
            /\ \A k \in 1 .. Len(Answered') : Answered'[k] = Answered[k]
        BY <2>1, AnsweredCut DEF Answered, TypeOK, ChannelsOK
      <3>2. /\ Answered' = <<>> <=> Len(Answered') = 0
            /\ Answered = <<>> <=> Len(Answered) = 0
        <4>1. Answered = <<>> <=> Len(Answered) = 0
          BY Channels DEF TypeOK
        <4>2. ChannelsOK'
          BY DEF TypeOK
        <4>3. \A q \in Seq(Message) : AnsweredIn(q) = <<>> <=> Len(AnsweredIn(q)) = 0
          BY AnsweredIs, EmptySeq, LenProperties
        <4>4. Answered' = <<>> <=> Len(Answered') = 0
          BY <4>2, <4>3 DEF Answered, ChannelsOK
        <4> QED BY <4>1, <4>4
      <3> QED BY <3>1, <3>2
    <2> QED BY <1>1, <2>1, <2>2, <2>3 DEF Downloading
  <1>6. CASE ClientExit \/ OtherSession
    BY <1>6 DEF ClientExit, OtherSession, ClientHere, Gone
  <1>7. CASE UNCHANGED vars
    <2>1. UNCHANGED <<ClientAt, c_file, c_size, c_i, local, Answered, store>>
      BY <1>7 DEF vars, client, ClientAt, Answered
    <2> QED BY <1>2, <2>1 DEF Downloaded
  <1> QED BY <1>3, <1>4, <1>5, <1>6, <1>7 DEF Next

\* If no other session interferes, the sizes of a download agree, whichever process is killed.
THEOREM DownloadedKept == ~OtherSessions => (Spec => []Downloaded)
  <1> SUFFICES ASSUME ~OtherSessions
               PROVE  Spec => []Downloaded
    OBVIOUS
  <1>1. Init => Downloaded
    BY DEF Init, Downloaded, ClientAt, AuthPcs, Downloading
  <1>2. /\ TypeOK /\ TypeOK' /\ DialogueInv /\ SameFile /\ UploadInv /\ [Next]_vars
        /\ Downloaded
        => Downloaded'
    BY DownloadedStep
  <1> QED BY <1>1, <1>2, TypeCorrect, DialogueKept, SameFileKept, UploadKept, PTL DEF Spec

\* If no other session interferes: when downloadRequest returns SUCCESS, the local file has
\* as many chunks as the stored one, be it empty or as large as it may.
THEOREM DownloadsComplete == ~OtherSessions => (Spec => DownloadComplete)
  <1> SUFFICES ASSUME ~OtherSessions
               PROVE  Spec => DownloadComplete
    OBVIOUS
  <1> DEFINE Complete == (c_pc \in {"downOpen", "downWrite"} /\ c_res' = "SUCCESS") =>
               local'[c_file] = store[c_file]
  <1>1. TypeOK /\ Busy /\ Downloaded /\ [Next]_vars => [Complete]_vars
    <2> SUFFICES ASSUME TypeOK, Busy, Downloaded, Next,
                        c_pc \in {"downOpen", "downWrite"}, c_res' = "SUCCESS"
                 PROVE  local'[c_file] = store[c_file]
      BY DEF vars
    <2>1. ClientHere /\ ClientAt = c_pc
      BY DEF ClientHere, Gone, ClientAt, AuthPcs
    <2>2. c_res = "none"
      BY <2>1 DEF Busy
    <2>3. c_size = store[c_file] /\ (c_pc = "downWrite" => local[c_file] = c_i)
      BY <2>1 DEF Downloaded, Downloading
    <2>4. ~(ServerStep \/ ClientExit \/ ServerExit \/ OtherSession)
      BY <2>2, Apart DEF ClientExit, ServerExit, OtherSession, client
    <2>5. ~UserStep
      BY DEF UserStep, ClientList, ClientDownload, ClientUpload, ClientRename, ClientDelete,
         ClientLogout, Request, Refused
    <2>6. ~(ClientAuthM1 \/ ClientAuthM2 \/ ClientAuthM3 \/ ClientAuthM4 \/ ClientAuthM5
            \/ ClientListM2 \/ ClientListM3 \/ ClientDownM2 \/ ClientDownMi \/ ClientUpM2
            \/ ClientUpEnd \/ ClientRenM2 \/ ClientDelM2 \/ ClientDelM4 \/ ClientOutM2)
      BY DEF ClientAuthM1, ClientAuthM2, ClientAuthM3, ClientAuthM4, ClientAuthM5,
         ClientListM2, ClientListM3, ClientDownM2, ClientDownMi, ClientUpM2, ClientUpEnd,
         ClientRenM2, ClientDelM2, ClientDelM4, ClientOutM2, FromServer
    <2>7. ~(ClientUpMi \/ ClientDelAsk \/ ClientEof \/ ClientSigpipe)
      BY DEF ClientUpMi, ClientDelAsk, ClientEof, ClientSigpipe, ClientReceives, ClientSends
    <2>8. local \in [Names -> Nat \cup {Absent}] /\ c_file \in Names
      BY DEF TypeOK, DisksOK, ClientOK
    <2>9. CASE ClientDownOpen
      <3>1. c_size = 0 /\ local' = [local EXCEPT ![c_file] = 0]
        BY <2>2, <2>9 DEF ClientDownOpen
      <3> QED BY <2>3, <2>8, <3>1
    <2>10. CASE ClientDownWrite
      <3>1. /\ c_i + 1 = c_size /\ local' = [local EXCEPT ![c_file] = @ + 1]
            /\ c_pc = "downWrite"
        BY <2>2, <2>10 DEF ClientDownWrite
      <3> QED BY <2>3, <2>8, <3>1
    <2> QED BY <2>4, <2>5, <2>6, <2>7, <2>9, <2>10 DEF Next, ClientStep
  <1>2. Spec => []Downloaded
    BY DownloadedKept
  <1> QED BY <1>1, <1>2, TypeCorrect, BusyKept, PTL DEF Spec, DownloadComplete

-----------------------------------------------------------------------------
(* The numbers of the messages.                                             *)

\* As long as both sides are here: a client that is past its handshake has counted all
\* messages of operations but those it has not taken yet.  A client that has yet to take
\* AuthM5 has taken none, and before AuthM5 is sent there are none.
Counted ==
    /\ sent \in Nat
    /\ ClientHere /\ ServerHere =>
         /\ c_pc \notin AuthPcs => sent = c_ctr + Len(s2c)
         /\ c_pc = "authM5" /\ s2c # <<>> => sent = Len(s2c) - 1
         /\ s_pc \in {"authM4", "authM5"} => sent = 0

\* The messages this step sends that belong to an operation have their turn's number.
InTurn == \A w \in Spoken : OfOperation(w) => w.m.ctr = sent

\* A step that only takes messages says nothing.
LEMMA NothingSpoken ==
    ASSUME TypeOK, TypeOK', Len(c2s') <= Len(c2s), Len(s2c') <= Len(s2c), Count
    PROVE  InTurn /\ sent' = IF Rekeyed THEN 0 ELSE sent
  <1>1. /\ Len(c2s) \in Nat /\ Len(c2s') \in Nat /\ Len(s2c) \in Nat /\ Len(s2c') \in Nat
    BY LenProperties DEF TypeOK, ChannelsOK
  <1>2. Spoken = {}
    BY <1>1 DEF Spoken
  <1> QED BY <1>2 DEF InTurn, Count

\* The client says m, which a server that has ended does not get.
LEMMA ClientSpeaks ==
    ASSUME TypeOK, NEW m \in Message, ToServer(m), UNCHANGED <<s2c, server>>, Count
    PROVE  /\ s_pc = "crashed" \/ m.type \in Handshake => sent' = sent /\ InTurn
           /\ s_pc # "crashed" /\ m.type \notin Handshake =>
                sent' = sent + 1 /\ (m.ctr = sent => InTurn)
  <1>1. c2s \in Seq(Message) /\ Len(c2s) \in Nat /\ Len(s2c) \in Nat
    BY LenProperties DEF TypeOK, ChannelsOK
  <1>2. ~Rekeyed
    BY DEF server, Rekeyed
  <1>3. CASE s_pc = "crashed"
    <2>1. Spoken = {}
      BY <1>1, <1>3 DEF ToServer, Spoken
    <2> QED BY <1>2, <1>3, <2>1 DEF InTurn, Count
  <1>4. CASE s_pc # "crashed"
    <2>1. c2s' = Append(c2s, m)
      BY <1>4 DEF ToServer
    <2>2. Len(c2s') = Len(c2s) + 1 /\ c2s'[Len(c2s) + 1] = m
      BY <1>1, <2>1, Adding
    <2>3. Spoken = {[by |-> "client", m |-> m]}
      BY <1>1, <2>2 DEF Spoken
    <2> QED BY <1>2, <1>4, <2>3 DEF InTurn, Count, OfOperation
  <1> QED BY <1>3, <1>4

\* The same for the server: a new key starts the count again.
LEMMA ServerSpeaks ==
    ASSUME TypeOK, NEW m \in Message, ToClient(m), UNCHANGED <<c2s, client>>, Count
    PROVE  /\ c_pc = "exit" \/ m.type \in Handshake =>
                sent' = (IF Rekeyed THEN 0 ELSE sent) /\ InTurn
           /\ c_pc # "exit" /\ m.type \notin Handshake /\ ~Rekeyed =>
                sent' = sent + 1 /\ (m.ctr = sent => InTurn)
  <1>1. s2c \in Seq(Message) /\ Len(c2s) \in Nat /\ Len(s2c) \in Nat
    BY LenProperties DEF TypeOK, ChannelsOK
  <1>2. CASE c_pc = "exit"
    <2>1. Spoken = {}
      BY <1>1, <1>2 DEF ToClient, Spoken
    <2> QED BY <1>2, <2>1 DEF InTurn, Count
  <1>3. CASE c_pc # "exit"
    <2>1. s2c' = Append(s2c, m)
      BY <1>3 DEF ToClient
    <2>2. Len(s2c') = Len(s2c) + 1 /\ s2c'[Len(s2c) + 1] = m
      BY <1>1, <2>1, Adding
    <2>3. Spoken = {[by |-> "server", m |-> m]}
      BY <1>1, <2>2 DEF Spoken
    <2> QED BY <1>3, <2>3 DEF InTurn, Count, OfOperation
  <1> QED BY <1>2, <1>3

\* The client does something by itself, after the end of the server perhaps, ...
ClientQuiet ==
    /\ UNCHANGED <<c2s, s2c, c_ctr>>
    /\ \/ s_pc = "crashed"
       \/ c_pc \notin AuthPcs /\ c_pc' \notin AuthPcs

\* ... sends a message of the handshake, ...
ClientGreets ==
    \E m \in Message :
        /\ m.type \in Handshake /\ ToServer(m) /\ s2c' = s2c
        /\ \/ c_pc' = "authM2"
           \/ c_pc = "authM4" /\ c_pc' = "authM5"

\* ... or one of an operation, ...
ClientAsks ==
    /\ c_pc \in {"menu", "upMi", "delAsk"} /\ s2c' = s2c
    /\ \E type \in Types \ Handshake, b \in Body : ToServer(Msg(type, c_key, c_ctr, b))
    /\ \/ c_pc' \notin AuthPcs /\ c_ctr' = c_ctr + 1
       \/ c_pc' = "auth"

\* ... or takes one.
ClientHears ==
    /\ c2s' = c2s /\ s2c # <<>> /\ s2c' = Tail(s2c)
    /\ \/ c_pc' \in Gone \cup {"auth"}
       \/ c_pc \notin AuthPcs /\ c_pc' \notin AuthPcs /\ c_ctr' = c_ctr + 1
       \/ c_pc' \in {"authM3", "authM4"}
       \/ c_pc = "authM5" /\ c_pc' \notin AuthPcs /\ c_ctr' = 0

\* What the user picks is a request, or refused.
LEMMA UserWays ==
    ASSUME TypeOK, UserStep
    PROVE  ClientQuiet \/ ClientAsks
  <1> USE BodyTypes
  <1>1. ASSUME NEW type \in Types \ Handshake, NEW b \in Body, NEW next \in FirstWaits,
               Request(type, b, next)
        PROVE  ClientAsks
    <2>1. next \notin AuthPcs
      BY DEF FirstWaits, AuthPcs
    <2> QED BY <1>1, <2>1 DEF Request, ClientAsks, ClientIncrement
  <1>2. ASSUME NEW res, Refused(res) PROVE ClientQuiet
    BY <1>2 DEF Refused, ClientQuiet, AuthPcs
  <1>3. /\ {"ListM1", "DownM1", "UpM1", "RenM1", "DelM1", "OutM1"} \subseteq Types \ Handshake
        /\ {"listM2", "downM2", "upM2", "renM2", "delM2", "outM2"} = FirstWaits
    BY DEF Types, Handshake, FirstWaits
  <1>4. CASE ClientList \/ ClientDownload \/ ClientDelete \/ ClientLogout
    BY <1>1, <1>2, <1>3, <1>4 DEF ClientList, ClientDownload, ClientDelete, ClientLogout
  <1>5. CASE ClientUpload
    <2>1. PICK f \in Names :
            \/ Refused("FILE_NOT_FOUND")
            \/ Refused("WRONG_FILE_SIZE")
            \/ /\ local[f] > 0
               /\ Request("UpM1", [File(f) EXCEPT !.n = local[f]], "upM2")
      BY <1>5 DEF ClientUpload
    <2>2. CASE /\ local[f] > 0
               /\ Request("UpM1", [File(f) EXCEPT !.n = local[f]], "upM2")
      <3>1. local[f] \in Nat
        BY <2>2 DEF TypeOK, DisksOK, Absent
      <3>2. [File(f) EXCEPT !.n = local[f]] \in Body
        BY <3>1 DEF Body
      <3> QED BY <1>1, <1>3, <2>2, <3>2
    <2> QED BY <1>2, <2>1, <2>2
  <1>6. CASE ClientRename
    <2>1. PICK f \in Names, g \in Names :
            Request("RenM1", [File(f) EXCEPT !.new = g], "renM2")
      BY <1>6 DEF ClientRename
    <2>2. [File(f) EXCEPT !.new = g] \in Body
      BY DEF Body
    <2> QED BY <1>1, <1>3, <2>1, <2>2
  <1> QED BY <1>4, <1>5, <1>6 DEF UserStep

\* Each step of the client is one of these.
LEMMA ClientWays ==
    ASSUME TypeOK, DialogueInv, ClientStep
    PROVE  ClientQuiet \/ ClientGreets \/ ClientAsks \/ ClientHears
  <1> USE BodyTypes
  <1>1. /\ MaxCounter \in Nat /\ MaxCounter >= 2 /\ c_ctr \in 0..MaxCounter /\ 0 \in 0..MaxCounter
        /\ c_key \in Keys /\ NoKey \in Keys /\ c_eph \in Nat /\ c_size \in Nat /\ c_i \in Nat
    BY CounterAssumption DEF TypeOK, ClientOK, NoKey, Keys
  <1>2. /\ {"AuthM1", "AuthM4"} \subseteq Types \cap Handshake
        /\ {"UpMi", "DelM3"} \subseteq Types \ Handshake
    BY DEF Types, Handshake
  <1>3. CASE ClientAuthM1
    <2>1. c_eph' \in Nat /\ Number(c_eph') \in Body
      BY <1>1, <1>3, PoolAssumption DEF ClientAuthM1
    <2>2. Msg("AuthM1", NoKey, 0, Number(c_eph')) \in Message
      BY <1>1, <1>2, <2>1, MsgTypes
    <2> QED BY <1>2, <1>3, <2>2 DEF ClientAuthM1, ClientGreets, Msg
  <1>4. CASE ClientAuthM4
    <2>1. c_ctr = 1
      BY <1>4 DEF ClientAuthM4, DialogueInv, KeysAndCounters, ClientHere, Gone, ClientNumbers
    <2>2. Msg("AuthM4", c_key, c_ctr, Plain) \in Message
      BY <1>1, <1>2, MsgTypes
    <2> QED BY <1>1, <1>2, <1>4, <2>1, <2>2 DEF ClientAuthM4, ClientGreets, ClientIncrement, Msg
  <1>5. CASE ClientAuthM2 \/ ClientAuthM3
    BY <1>5 DEF ClientAuthM2, ClientAuthM3, FromServer, ClientHears, Gone
  <1>6. CASE ClientAuthM5
    <2>1. c_ret \notin AuthPcs
      BY <1>6 DEF ClientAuthM5, FromServer, DialogueInv, Operations, ClientHere, Gone, AuthPcs,
         ClientTakes, ClientAt, Downloading, SingleWaits
    <2> QED BY <1>6, <2>1 DEF ClientAuthM5, FromServer, ClientHears, Gone
  <1>7. ASSUME NEW pc \in ClientReceives \ {"authM2", "authM3", "authM5"}, NEW type,
               FromServer(pc, type), NEW next \in ClientPcs \ AuthPcs, NEW res, Reply(next, res),
               c2s' = c2s
        PROVE  ClientHears
    <2>1. Verdict(Head(s2c), c_key, c_ctr) = "SUCCESS" /\ pc \notin AuthPcs
      BY <1>7, ClientAccepts DEF FromServer, ClientReceives, AuthPcs
    <2> QED BY <1>7, <2>1 DEF Reply, FromServer, ClientIncrement, ClientHears
  <1>8. /\ {"listM2", "listM3", "downM2", "downMi", "upM2", "upEnd", "renM2", "delM2", "delM4"}
             \subseteq ClientReceives \ {"authM2", "authM3", "authM5"}
        /\ {"menu", "listM3", "downOpen", "downWrite", "upMi", "delAsk"}
             \subseteq ClientPcs \ AuthPcs
    BY DEF ClientReceives, ClientPcs, ClientSends, AuthPcs
  <1>9. CASE ClientListM2 \/ ClientListM3
    BY <1>7, <1>8, <1>9 DEF ClientListM2, ClientListM3
  <1>10. CASE ClientDownM2 \/ ClientDownMi
    BY <1>7, <1>8, <1>10 DEF ClientDownM2, ClientDownMi
  <1>11. CASE ClientUpM2 \/ ClientUpEnd
    BY <1>7, <1>8, <1>11 DEF ClientUpM2, ClientUpEnd
  <1>12. CASE ClientRenM2 \/ ClientDelM2 \/ ClientDelM4
    BY <1>7, <1>8, <1>12 DEF ClientRenM2, ClientDelM2, ClientDelM4
  <1>13. CASE ClientDownOpen \/ ClientDownWrite
    BY <1>13 DEF ClientDownOpen, ClientDownWrite, ClientReturn, ClientQuiet, AuthPcs
  <1>14. CASE ClientUpMi
    <2>1. Number(c_i) \in Body
      BY <1>1
    <2> QED BY <1>2, <1>14, <2>1 DEF ClientUpMi, ClientIncrement, ClientAsks, AuthPcs
  <1>15. CASE ClientDelAsk
    BY <1>2, <1>15 DEF ClientDelAsk, ClientIncrement, ClientAsks, AuthPcs, Codes
  <1>16. CASE ClientOutM2
    BY <1>16 DEF ClientOutM2, FromServer, ClientHears, Gone
  <1>17. CASE ClientEof \/ ClientSigpipe
    BY <1>17 DEF ClientEof, ClientSigpipe, ClientReturn, ClientQuiet
  <1> QED BY <1>3, <1>4, <1>5, <1>6, <1>9, <1>10, <1>11, <1>12, <1>13, <1>14, <1>15, <1>16, <1>17
          DEF ClientStep

\* Whatever the client does, the messages stay numbered in turn.
LEMMA ClientCounted ==
    ASSUME TypeOK, TypeOK', DialogueInv, Dismissed, Counted, Count, UserStep \/ ClientStep
    PROVE  Counted' /\ InTurn
  <1>1. UNCHANGED server /\ s_pc' = s_pc /\ ~Rekeyed /\ (ServerHere' <=> ServerHere)
    BY Apart DEF server, Rekeyed, ServerHere
  <1>2. /\ c2s \in Seq(Message) /\ s2c \in Seq(Message) /\ Len(c2s) \in Nat /\ Len(s2c) \in Nat
        /\ Len(s2c') \in Nat /\ (s2c = <<>> <=> Len(s2c) = 0)
    BY Channels, LenProperties DEF TypeOK, ChannelsOK
  <1>3. /\ c_ctr \in Nat /\ c_ctr' \in Nat /\ sent \in Nat /\ MaxCounter \in Nat
        /\ c_ctr <= MaxCounter
    BY CounterAssumption DEF TypeOK, ClientOK, Counted
  <1>4. CASE ClientQuiet
    <2>1. c2s' = c2s /\ s2c' = s2c
      BY <1>4 DEF ClientQuiet
    <2>2. InTurn /\ sent' = sent
      BY <1>1, <1>2, <2>1, NothingSpoken
    <2>3. ServerHere' => s_pc # "crashed"
      BY <1>1 DEF ServerHere, Gone
    <2>4. ASSUME ClientHere', ServerHere'
          PROVE  ClientHere /\ c_pc \notin AuthPcs /\ c_pc' \notin AuthPcs /\ c_ctr' = c_ctr
      BY <1>4, <2>3, <2>4, ClientOperation DEF ClientQuiet
    <2> QED BY <1>1, <1>3, <2>1, <2>2, <2>4 DEF Counted, AuthPcs
  <1>5. CASE ClientGreets
    <2>1. PICK m \in Message : m.type \in Handshake /\ ToServer(m) /\ s2c' = s2c
      BY <1>5 DEF ClientGreets
    <2>2. InTurn /\ sent' = sent
      BY <1>1, <2>1, ClientSpeaks
    <2>3. c_pc' = "authM5" => s2c' = <<>>
      BY <1>5, <2>1 DEF ClientGreets, DialogueInv, KeysAndCounters, ClientHere, Gone,
         ClientNumbers
    <2>4. c_pc' \in AuthPcs
      BY <1>5 DEF ClientGreets, AuthPcs
    <2> QED BY <1>1, <1>3, <2>2, <2>3, <2>4, ClientOperation DEF Counted
  <1>6. CASE ClientAsks
    <2>1. PICK type \in Types \ Handshake, b \in Body : ToServer(Msg(type, c_key, c_ctr, b))
      BY <1>6 DEF ClientAsks
    <2> DEFINE m == Msg(type, c_key, c_ctr, b)
    <2>2. m \in Message /\ m.type = type /\ m.ctr = c_ctr
      BY MsgTypes DEF TypeOK, ClientOK, Msg
    <2>3. ClientHere /\ c_pc \notin AuthPcs /\ ClientAt = c_pc /\ s2c' = s2c
      BY <1>6 DEF ClientAsks, ClientHere, Gone, AuthPcs, ClientAt
    <2>4. ClientNumbers /\ ClientTakes
      BY <2>3 DEF DialogueInv, KeysAndCounters, Operations
    <2>5. Len(s2c) = 0
      <3>1. Answered = s2c
        BY <2>3, <2>4, ClientReads
      <3>2. Len(Answered) = 0
        BY <1>6, <2>3, <2>4 DEF ClientTakes, ClientAsks
      <3> QED BY <3>1, <3>2
    <2>6. s_pc # "done"
      BY <1>6, <2>3 DEF ClientAsks, Dismissed
    <2>7. ServerHere => s_pc \notin AuthPcs
      <3> SUFFICES ASSUME ServerHere, s_pc \in AuthPcs PROVE FALSE
        OBVIOUS
      <3>1. InHandshake
        BY <2>3 DEF DialogueInv, KeysAndCounters
      <3>2. c_ctr + Len(s2c) = MaxCounter + 1
        BY <2>3, <3>1 DEF InHandshake, AuthPcs
      <3> QED BY <1>3, <2>5, <3>2
    <2>8. CASE s_pc = "crashed"
      <3>1. InTurn /\ sent' = sent
        BY <1>1, <2>1, <2>2, <2>3, <2>8, ClientSpeaks
      <3> QED BY <1>1, <1>3, <2>8, <3>1 DEF Counted, ServerHere, Gone
    <2>9. CASE s_pc # "crashed"
      <3>1. ServerHere
        BY <2>6, <2>9 DEF ServerHere, Gone, TypeOK, ServerOK, ServerPcs, ServerReceives,
           ServerSends
      <3>2. sent = c_ctr
        BY <1>3, <2>3, <2>5, <3>1 DEF Counted
      <3>3. sent' = sent + 1 /\ InTurn
        BY <1>1, <2>1, <2>2, <2>3, <2>9, <3>2, ClientSpeaks
      <3>4. c_pc' # "authM5" /\ (c_pc' \notin AuthPcs => c_ctr' = c_ctr + 1)
        BY <1>6 DEF ClientAsks, AuthPcs
      <3>5. s_pc' \notin {"authM4", "authM5"}
        BY <1>1, <2>7, <3>1 DEF AuthPcs
      <3>6. c_pc' \notin AuthPcs => sent' = c_ctr' + Len(s2c')
        BY <1>3, <2>3, <2>5, <3>2, <3>3, <3>4
      <3>7. sent' \in Nat
        BY <1>3, <3>3
      <3> QED BY <3>3, <3>4, <3>5, <3>6, <3>7 DEF Counted
    <2> QED BY <2>8, <2>9
  <1>7. CASE ClientHears
    <2>1. c2s' = c2s /\ s2c' = Tail(s2c) /\ Len(s2c') = Len(s2c) - 1 /\ s2c # <<>>
      BY <1>2, <1>7, Taking DEF ClientHears
    <2>2. InTurn /\ sent' = sent
      BY <1>1, <1>2, <2>1, NothingSpoken
    <2> SUFFICES ASSUME ClientHere', ServerHere'
                 PROVE  /\ c_pc' \notin AuthPcs => sent' = c_ctr' + Len(s2c')
                        /\ c_pc' # "authM5"
                        /\ s_pc' \in {"authM4", "authM5"} => sent' = 0
      BY <1>3, <2>2 DEF Counted
    <2>3. ClientHere /\ ServerHere
      BY <1>1, ClientOperation
    <2>4. s_pc' \in {"authM4", "authM5"} => sent' = 0
      BY <1>1, <2>2, <2>3 DEF Counted
    <2>5. c_pc \notin AuthPcs => sent = c_ctr + Len(s2c)
      BY <2>3 DEF Counted
    <2>6. c_pc = "authM5" => sent = Len(s2c) - 1
      BY <2>1, <2>3 DEF Counted
    <2>7. CASE c_pc' \in Gone \cup {"auth", "authM3", "authM4"}
      BY <2>4, <2>7 DEF ClientHere, AuthPcs
    <2>8. CASE c_pc \notin AuthPcs /\ c_pc' \notin AuthPcs /\ c_ctr' = c_ctr + 1
      BY <1>2, <1>3, <2>1, <2>2, <2>4, <2>5, <2>8 DEF AuthPcs
    <2>9. CASE c_pc = "authM5" /\ c_pc' \notin AuthPcs /\ c_ctr' = 0
      <3>1. sent' = Len(s2c) - 1 /\ Len(s2c') = Len(s2c) - 1
        BY <2>1, <2>2, <2>6, <2>9
      <3>2. sent' = c_ctr' + Len(s2c')
        BY <1>2, <2>9, <3>1
      <3> QED BY <2>4, <2>9, <3>2 DEF AuthPcs
    <2> QED BY <1>7, <2>7, <2>8, <2>9 DEF ClientHears
  <1> QED BY <1>4, <1>5, <1>6, <1>7, UserWays, ClientWays

\* The server thread says nothing, ...
ServerQuiet ==
    /\ Len(c2s') <= Len(c2s) /\ s2c' = s2c /\ ~Rekeyed
    /\ s_pc' \in {"authM4", "authM5"} => s_pc = "authM4"

\* ... or sends a message of the handshake, ...
ServerGreets ==
    \E m \in Message :
        /\ m.type \in Handshake /\ ToClient(m) /\ c2s' = c2s
        /\ \/ s_pc = "authM2" /\ s_pc' \in {"done", "authM3"}
           \/ s_pc = "authM3" /\ s_pc' = "authM4"
           \/ s_pc = "authM5" /\ s_pc' \notin {"authM4", "authM5"}

\* ... or one of an operation.
ServerReplies ==
    /\ s_pc \in ServerSends \ AuthPcs /\ c2s' = c2s
    /\ s_pc' \notin {"authM4", "authM5"}
    /\ \E type \in Types \ Handshake, b \in Body : ToClient(Msg(type, s_key, s_ctr, b))

\* Each step of the server thread is one of these.
LEMMA ServerWays ==
    ASSUME TypeOK, DialogueInv, ServerStep
    PROVE  ServerQuiet \/ ServerGreets \/ ServerReplies
  <1> USE BodyTypes, HandlerTypes
  <1>1. /\ MaxCounter \in Nat /\ MaxCounter >= 2 /\ s_ctr \in 0..MaxCounter /\ s_key \in Keys
        /\ s_eph \in Nat /\ s_peer \in Nat /\ s_size \in Nat /\ s_i \in Nat
    BY CounterAssumption DEF TypeOK, ServerOK
  <1>2. {"AuthM2", "AuthM3", "AuthM5"} \subseteq Types \cap Handshake
    BY DEF Types, Handshake
  <1>3. /\ c2s # <<>> => Len(Tail(c2s)) <= Len(c2s)
        /\ Len(c2s) <= Len(c2s)
    BY Taking, Channels DEF TypeOK
  <1>4. CASE ServerAuthM2
    <2>1. \A c \in Codes : Msg("AuthM2", NoKey, 0, Code(c)) \in Message
      BY <1>2, MsgTypes
    <2> QED BY <1>2, <1>4, <2>1 DEF ServerAuthM2, ServerLeave, ServerGreets, Msg, Codes
  <1>5. CASE ServerAuthM3
    <2>1. s_eph' \in Nat /\ Number(s_eph') \in Body
      BY <1>1, <1>5, PoolAssumption DEF ServerAuthM3
    <2>2. s_key' \in Keys
      BY <1>1, <1>5, <2>1 DEF ServerAuthM3, Keys
    <2>3. Msg("AuthM3", s_key', 0, Number(s_eph')) \in Message
      BY <1>2, <2>1, <2>2, MsgTypes
    <2> QED BY <1>2, <1>5, <2>3 DEF ServerAuthM3, ServerGreets, Msg
  <1>6. CASE ServerAuthM5
    <2>1. s_ret \notin AuthPcs
      BY <1>6 DEF ServerAuthM5, DialogueInv, Operations, ServerHere, Gone, AuthPcs, ServerTakes,
         ServerAt
    <2>2. \A c \in Codes : Msg("AuthM5", s_key, s_ctr, Code(c)) \in Message
      BY <1>1, <1>2, MsgTypes
    <2> QED BY <1>2, <1>6, <2>1, <2>2
            DEF ServerAuthM5, ServerLeave, ServerGreets, Msg, Codes, AuthPcs
  <1>7. CASE ServerUnknownUser \/ ServerAuthM1 \/ ServerAuthM4
    BY <1>3, <1>7 DEF ServerUnknownUser, ServerAuthM1, ServerAuthM4, FromClient, ServerLeave,
       ServerIncrement, ServerQuiet, Rekeyed
  <1>8. CASE ServerRun
    <2>1. \A type \in DOMAIN Handler : Handler[type] \notin AuthPcs
      BY HandlerIs DEF FirstWaits, AuthPcs
    <2> QED BY <1>3, <1>8, <2>1
            DEF ServerRun, ServerLeave, ServerIncrement, ServerQuiet, Rekeyed, AuthPcs
  <1>9. CASE ServerUpMi \/ ServerDelM3
    BY <1>3, <1>9 DEF ServerUpMi, ServerDelM3, FromClient, ServerLeave, ServerIncrement,
       ServerQuiet, Rekeyed
  <1>10. CASE ServerListSilent \/ ServerDelSilent \/ ServerEof \/ ServerSigpipe
    BY <1>3, <1>10 DEF ServerListSilent, ServerDelSilent, ServerEof, ServerSigpipe, ServerLeave,
       ServerQuiet, Rekeyed
  <1>11. CASE ServerUpLook \/ ServerUpCreate \/ ServerUpWrite \/ ServerUpClose
    BY <1>3, <1>11 DEF ServerUpLook, ServerUpCreate, ServerUpWrite, ServerUpClose, ServerLeave,
       ServerQuiet, Rekeyed, FirstChunk
  <1>12. ASSUME NEW pc \in ServerSends \ AuthPcs, NEW type \in Types \ Handshake,
                NEW b \in Body, NEW next, next \notin AuthPcs, Answer(pc, type, b, next)
         PROVE  ServerReplies
    BY <1>12 DEF Answer, ServerIncrement, ServerReplies, AuthPcs
  <1>13. CASE ServerListM2 \/ ServerListM3
    BY <1>12, <1>13 DEF ServerListM2, ServerListM3
  <1>14. CASE ServerDownM2
    <2>1. CASE store[s_file] = Absent
      BY <1>12, <1>14, <2>1 DEF ServerDownM2, Codes
    <2>2. CASE store[s_file] # Absent
      <3>1. store[s_file] \in Nat /\ Code("DOWNLOAD_ACK") \in Body
        BY <2>2 DEF TypeOK, DisksOK, ServerOK, Absent, Codes
      <3>2. [Code("DOWNLOAD_ACK") EXCEPT !.n = store[s_file]] \in Body
        BY <3>1 DEF Body
      <3>3. PICK b \in Body, next \in {"run", "downMi"} : Answer("downM2", "DownM2", b, next)
        BY <1>14, <2>2, <3>2 DEF ServerDownM2
      <3> QED BY <1>12, <3>3
    <2> QED BY <2>1, <2>2
  <1>15. CASE ServerDownMi
    BY <1>1, <1>12, <1>15 DEF ServerDownMi
  <1>16. CASE ServerUpM2 \/ ServerUpEnd
    BY <1>12, <1>16 DEF ServerUpM2, ServerUpEnd, Codes
  <1>17. CASE ServerRenM2
    BY <1>12, <1>17 DEF ServerRenM2, Codes
  <1>18. CASE ServerDelM2 \/ ServerDelM4
    BY <1>12, <1>18 DEF ServerDelM2, ServerDelM4, Codes
  <1>19. CASE ServerOutM2
    BY <1>19 DEF ServerOutM2, ServerReplies, ServerSends, AuthPcs, Codes
  <1> QED BY <1>4, <1>5, <1>6, <1>7, <1>8, <1>9, <1>10, <1>11, <1>13, <1>14, <1>15, <1>16, <1>17,
             <1>18, <1>19 DEF ServerStep

\* Whatever the server thread does, the messages stay numbered in turn.
LEMMA ServerCounted ==
    ASSUME TypeOK, TypeOK', DialogueInv, Counted, Count, ServerStep
    PROVE  Counted' /\ InTurn
  <1>1. /\ UNCHANGED client /\ c_pc' = c_pc /\ c_ctr' = c_ctr
        /\ ClientHere' <=> ClientHere
    BY Apart DEF client, ClientHere
  <1>2. /\ c2s \in Seq(Message) /\ s2c \in Seq(Message) /\ Len(c2s) \in Nat /\ Len(s2c) \in Nat
        /\ Len(s2c') \in Nat /\ (s2c = <<>> <=> Len(s2c) = 0) /\ (c2s = <<>> <=> Len(c2s) = 0)
        /\ (s2c' = <<>> <=> Len(s2c') = 0)
    BY Channels, EmptySeq, LenProperties DEF TypeOK, ChannelsOK
  <1>3. /\ c_ctr \in Nat /\ s_ctr \in Nat /\ sent \in Nat /\ MaxCounter \in Nat
        /\ s_ctr <= MaxCounter
    BY CounterAssumption DEF TypeOK, ClientOK, ServerOK, Counted
  <1>4. ServerHere' => ServerHere
    BY ServerOperation
  <1>5. CASE ServerQuiet
    <2>1. InTurn /\ sent' = sent
      BY <1>2, <1>5, NothingSpoken DEF ServerQuiet
    <2> QED BY <1>1, <1>3, <1>4, <1>5, <2>1 DEF Counted, ServerQuiet
  <1>6. CASE ServerGreets
    <2>1. PICK m \in Message :
            /\ m.type \in Handshake /\ ToClient(m) /\ c2s' = c2s
            /\ \/ s_pc = "authM2" /\ s_pc' \in {"done", "authM3"}
               \/ s_pc = "authM3" /\ s_pc' = "authM4"
               \/ s_pc = "authM5" /\ s_pc' \notin {"authM4", "authM5"}
      BY <1>6 DEF ServerGreets
    <2>2. InTurn /\ sent' = IF Rekeyed THEN 0 ELSE sent
      BY <1>1, <2>1, ServerSpeaks
    <2>3. ServerHere
      BY <2>1 DEF ServerHere, Gone
    <2> SUFFICES ASSUME ClientHere
                 PROVE  /\ c_pc \notin AuthPcs => sent' = c_ctr + Len(s2c')
                        /\ c_pc = "authM5" /\ s2c' # <<>> => sent' = Len(s2c') - 1
                        /\ s_pc' \in {"authM4", "authM5"} => sent' = 0
      BY <1>1, <1>3, <2>2 DEF Counted
    <2>4. InHandshake
      BY <2>3 DEF DialogueInv, KeysAndCounters
    <2>5. CASE s_pc = "authM2" /\ s_pc' \in {"done", "authM3"}
      <3>1. c_pc = "authM2"
        BY <2>4, <2>5 DEF InHandshake, AuthPcs
      <3> QED BY <2>5, <3>1 DEF AuthPcs
    <2>6. CASE s_pc = "authM3" /\ s_pc' = "authM4"
      <3>1. c_pc \in {"authM2", "authM3"}
        BY <2>4, <2>6 DEF InHandshake, AuthPcs
      <3> QED BY <2>2, <2>6, <3>1 DEF AuthPcs, Rekeyed
    <2>7. CASE s_pc = "authM5" /\ s_pc' \notin {"authM4", "authM5"}
      <3>1. c_pc = "authM5" /\ s2c = <<>>
        BY <2>4, <2>7 DEF InHandshake, AuthPcs
      <3>2. s2c' = Append(s2c, m)
        BY <2>1, <3>1 DEF ToClient
      <3>3. Len(s2c') = 1
        BY <1>2, <3>1, <3>2, Adding
      <3>4. sent' = 0
        BY <2>2, <2>3, <2>7 DEF Counted, Rekeyed
      <3> QED BY <2>7, <3>1, <3>3, <3>4 DEF AuthPcs
    <2> QED BY <2>1, <2>5, <2>6, <2>7
  <1>7. CASE ServerReplies
    <2>1. PICK type \in Types \ Handshake, b \in Body : ToClient(Msg(type, s_key, s_ctr, b))
      BY <1>7 DEF ServerReplies
    <2> DEFINE m == Msg(type, s_key, s_ctr, b)
    <2>2. m \in Message /\ m.type = type /\ m.ctr = s_ctr
      BY MsgTypes DEF TypeOK, ServerOK, Msg
    <2>3. /\ s_pc \notin AuthPcs \cup Gone /\ s_pc # "run" /\ ServerHere /\ ServerAt = s_pc
          /\ c2s' = c2s /\ ~Rekeyed
      BY <1>7 DEF ServerReplies, ServerSends, AuthPcs, Gone, ServerHere, ServerAt, Rekeyed
    <2>4. c_pc # "left"
      BY <2>3 DEF DialogueInv, KeysAndCounters
    <2>5. CASE c_pc = "exit"
      <3>1. InTurn /\ sent' = sent
        BY <1>1, <2>1, <2>2, <2>3, <2>5, ServerSpeaks
      <3> QED BY <1>1, <1>3, <2>5, <3>1 DEF Counted, ClientHere, Gone
    <2>6. CASE c_pc # "exit"
      <3>1. ClientHere
        BY <2>4, <2>6 DEF ClientHere, Gone, TypeOK, ClientOK, ClientPcs, ClientReceives,
           ClientSends
      <3>2. InHandshake /\ ServerNumbers /\ ServerTakes
        BY <2>3, <3>1 DEF DialogueInv, KeysAndCounters, Operations
      <3>3. c2s = <<>>
        <4>1. s_pc \notin Idle \cup Receiving \cup {"delM3"}
          BY <1>7 DEF ServerReplies, ServerSends, Idle, Receiving
        <4>2. Len(Asked) = 0
          BY <2>3, <3>2, <4>1 DEF ServerTakes
        <4>3. Asked = <<>>
          BY <4>2, Channels DEF TypeOK
        <4> QED BY <2>3, <3>2, <4>3, ServerReads
      <3>4. Len(c2s) = 0
        BY <1>2, <3>3
      <3>5. \/ c_pc \notin AuthPcs /\ c_ctr + Len(s2c) = s_ctr + Len(c2s)
            \/ c_pc = "authM5" /\ s2c # <<>> /\ s_ctr = Len(s2c) - 1
        <4>1. ~LoggedOut
          BY <2>3 DEF LoggedOut
        <4>2. ~(c_pc = "auth" /\ s_ctr + Len(c2s) = MaxCounter + 1)
          BY <1>3, <3>4
        <4> QED BY <2>3, <3>2, <3>3, <4>1, <4>2 DEF InHandshake, Agree, AuthPcs
      <3>6. sent = s_ctr
        BY <1>2, <1>3, <2>3, <3>1, <3>4, <3>5 DEF Counted
      <3>7. sent' = sent + 1 /\ InTurn
        BY <1>1, <2>1, <2>2, <2>3, <2>6, <3>6, ServerSpeaks
      <3>8. Len(s2c') = Len(s2c) + 1
        <4>1. s2c' = Append(s2c, m)
          BY <2>1, <2>6 DEF ToClient
        <4> QED BY <1>2, <2>2, <4>1, Adding
      <3>9. s_pc' \notin {"authM4", "authM5"}
        BY <1>7 DEF ServerReplies
      <3>10. CASE c_pc \notin AuthPcs /\ c_ctr + Len(s2c) = s_ctr + Len(c2s)
        BY <1>1, <1>2, <1>3, <3>4, <3>6, <3>7, <3>8, <3>9, <3>10 DEF Counted, AuthPcs
      <3>11. CASE c_pc = "authM5" /\ s2c # <<>> /\ s_ctr = Len(s2c) - 1
        BY <1>1, <1>2, <1>3, <3>6, <3>7, <3>8, <3>9, <3>11 DEF Counted, AuthPcs
      <3> QED BY <3>5, <3>7, <3>10, <3>11
    <2> QED BY <2>5, <2>6
  <1> QED BY <1>5, <1>6, <1>7, ServerWays

\* Neither does the end of a process, or another session.
LEMMA CountedStep ==
    ASSUME TypeOK, TypeOK', DialogueInv, Dismissed, Counted, [NumberedNext]_<<vars, history>>
    PROVE  Counted' /\ [InTurn]_<<vars, history>>
  <1>1. CASE UNCHANGED <<vars, history>>
    <2>1. UNCHANGED <<client, server, c2s, s2c, sent>>
      BY <1>1 DEF vars, history
    <2> QED BY <1>1, <2>1 DEF Counted, ClientHere, ServerHere, client, server
  <1>2. CASE NumberedNext
    <2>1. Count /\ Next
      BY <1>2 DEF NumberedNext
    <2>2. CASE UserStep \/ ClientStep
      BY <2>1, <2>2, ClientCounted
    <2>3. CASE ServerStep
      BY <2>1, <2>3, ServerCounted
    <2>4. CASE ClientExit \/ ServerExit
      <3>1. Len(c2s') <= Len(c2s) /\ Len(s2c') <= Len(s2c)
        <4>1. \A q \in {c2s, s2c} : Len(<<>>) <= Len(q) /\ \A p \in Prefixes(q) : Len(p) <= Len(q)
          BY Cutting, EmptySeq, LenProperties DEF TypeOK, ChannelsOK
        <4> QED BY <2>4, <4>1 DEF ClientExit, ServerExit
      <3>2. InTurn /\ sent' = IF Rekeyed THEN 0 ELSE sent
        BY <2>1, <3>1, NothingSpoken
      <3>3. ~(ClientHere' /\ ServerHere')
        BY <2>4 DEF ClientExit, ServerExit, ClientHere, ServerHere, Gone
      <3> QED BY <3>2, <3>3 DEF Counted
    <2>5. CASE OtherSession
      <3>1. UNCHANGED <<client, s_pc, c2s, s2c>>
        BY <2>5 DEF OtherSession
      <3>2. Len(c2s') <= Len(c2s) /\ Len(s2c') <= Len(s2c)
        BY <3>1, LenProperties DEF TypeOK, ChannelsOK
      <3>3. InTurn /\ sent' = IF Rekeyed THEN 0 ELSE sent
        BY <2>1, <3>2, NothingSpoken
      <3>4. ~Rekeyed
        BY <3>1 DEF Rekeyed
      <3> QED BY <3>1, <3>3, <3>4 DEF Counted, ClientHere, ServerHere, client
    <2> QED BY <2>1, <2>2, <2>3, <2>4, <2>5 DEF Next
  <1> QED BY <1>1, <1>2

\* Between two handshakes the messages of the operations carry the numbers 0, 1, 2, ... in
\* the order in which they are sent, by whichever side: the counters that the two programs
\* keep apart number one common sequence, without a gap and without a number twice, whatever
\* the operations and whoever ends.  (The numbers of the handshake itself are others of the
\* same key; see NumbersUsedOnce.)
THEOREM NumbersInTurn == NumberedSpec => NumberedInTurn
  <1>1. NumberedSpec => Spec
    <2>1. NumberedInit => Init
      BY DEF NumberedInit
    <2>2. [NumberedNext]_<<vars, history>> => [Next]_vars
      BY DEF NumberedNext
    <2> QED BY <2>1, <2>2, PTL DEF NumberedSpec, Spec
  <1>2. NumberedInit => Counted
    BY CounterAssumption, EmptySeq DEF NumberedInit, Init, Counted, AuthPcs
  <1>3. /\ TypeOK /\ TypeOK' /\ DialogueInv /\ Dismissed /\ Counted
        /\ [NumberedNext]_<<vars, history>>
        => Counted' /\ [InTurn]_<<vars, history>>
    BY CountedStep
  <1> QED BY <1>1, <1>2, <1>3, TypeCorrect, DialogueKept, DismissedKept, PTL
          DEF NumberedSpec, NumberedInTurn, InTurn

=============================================================================

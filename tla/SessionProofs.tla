--------------------------- MODULE SessionProofs ---------------------------
(***************************************************************************)
(* Theorems about Session, for every value of its constants.               *)
(***************************************************************************)
EXTENDS Session, SequenceTheorems, TLAPS

-----------------------------------------------------------------------------
(* What the helpers return.                                                 *)

\* The bodies the programs build are bodies.
LEMMA BodyTypes ==
    /\ AnyName \in Names
    /\ Plain \in Body
    /\ \A f \in Names : File(f) \in Body
    /\ \A n \in Nat : Number(n) \in Body
    /\ \A c \in Codes : Code(c) \in Body
    /\ NoKey \in Keys /\ 0 \in 0..MaxCounter
  <1>1. AnyName \in Names
    BY FilesAssumption DEF AnyName
  <1>2. Plain \in Body
    BY <1>1 DEF Plain, Body, Codes
  <1>3. NoKey \in Keys /\ 0 \in 0..MaxCounter
    BY CounterAssumption DEF NoKey, Keys
  <1> QED BY <1>1, <1>2, <1>3 DEF File, Number, Code, Plain, Body

\* Taking the next message out of a channel gives a message and a channel.
LEMMA TakeTypes ==
    ASSUME NEW q \in Seq(Message), q # <<>>
    PROVE  Head(q) \in Message /\ Tail(q) \in Seq(Message)
  BY HeadTailProperties

\* Adding a message to a channel gives a channel, whether or not it is dropped.
LEMMA AppendTypes ==
    ASSUME NEW q \in Seq(Message), NEW m \in Message
    PROVE  Append(q, m) \in Seq(Message)
  BY AppendProperties

\* A cut-off channel is a channel.
LEMMA PrefixTypes ==
    ASSUME NEW q \in Seq(Message), NEW p \in Prefixes(q)
    PROVE  p \in Seq(Message)
  <1>1. PICK k \in 0 .. Len(q) : p = SubSeq(q, 1, k)
    BY DEF Prefixes
  <1>2. \A i \in 1..k : i \in 1 .. Len(q)
    BY LenProperties
  <1> QED BY <1>1, <1>2, SubSeqProperties

\* A message built from its parts is a message.
LEMMA MsgTypes ==
    ASSUME NEW type \in Types, NEW key \in Keys, NEW ctr \in 0..MaxCounter,
           NEW body \in Body
    PROVE  Msg(type, key, ctr, body) \in Message
  BY DEF Msg, Message

\* What a program sends leaves both channels well typed.
LEMMA SendTypes ==
    ASSUME ChannelsOK, NEW m \in Message
    PROVE  /\ ToServer(m) => c2s' \in Seq(Message)
           /\ ToClient(m) => s2c' \in Seq(Message)
  BY AppendTypes DEF ChannelsOK, ToServer, ToClient

\* incrementCounter keeps the counter in the range of the uint32_t.
LEMMA ClientIncrementTypes ==
    ASSUME ClientOK, NEW next \in ClientPcs, ClientIncrement(next)
    PROVE  c_pc' \in ClientPcs /\ c_ret' \in ClientPcs /\ c_ctr' \in 0..MaxCounter
  BY CounterAssumption DEF ClientOK, ClientIncrement, ClientPcs, ClientSends

\* The same for Server::incrementCounter.
LEMMA ServerIncrementTypes ==
    ASSUME ServerOK, NEW next \in ServerPcs, ServerIncrement(next)
    PROVE  s_pc' \in ServerPcs /\ s_ret' \in ServerPcs /\ s_ctr' \in 0..MaxCounter
  BY CounterAssumption DEF ServerOK, ServerIncrement, ServerPcs, ServerReceives

\* Taking a message leaves both channels well typed.
LEMMA FromServerTypes ==
    ASSUME ChannelsOK, NEW pc, NEW type, FromServer(pc, type), UNCHANGED c2s
    PROVE  ChannelsOK' /\ Head(s2c) \in Message
  BY TakeTypes DEF ChannelsOK, FromServer

\* The same for the message the server takes.
LEMMA FromClientTypes ==
    ASSUME ChannelsOK, NEW pc, NEW type, FromClient(pc, type), UNCHANGED s2c
    PROVE  ChannelsOK' /\ Head(c2s) \in Message
  BY TakeTypes DEF ChannelsOK, FromClient

\* A reply taken at next with result res.
LEMMA ReplyTypes ==
    ASSUME ClientOK, NEW next \in ClientPcs, NEW res \in Results \cup Codes,
           Reply(next, res)
    PROVE  /\ c_pc' \in ClientPcs /\ c_ret' \in ClientPcs /\ c_ctr' \in 0..MaxCounter
           /\ c_res' \in Results \cup Codes
  <1>1. CASE Verdict(Head(s2c), c_key, c_ctr) = "SUCCESS"
    BY <1>1, ClientIncrementTypes DEF Reply
  <1>2. CASE Verdict(Head(s2c), c_key, c_ctr) # "SUCCESS"
    BY <1>2 DEF Reply, ClientReturn, Verdict, ClientOK, ClientPcs, ClientSends, Results
  <1> QED BY <1>1, <1>2

\* Leaving a handler flushes at most one chunk.
LEMMA ServerLeaveTypes ==
    ASSUME ServerOK, DisksOK, NEW pc \in ServerPcs, ServerLeave(pc)
    PROVE  /\ s_pc' \in ServerPcs /\ s_stream' \in Streams /\ s_buf' \in BOOLEAN
           /\ store' \in [Names -> Nat \cup {Absent}]
  <1>1. s_pc' \in ServerPcs
    BY DEF ServerLeave
  <1>2. s_stream' \in Streams /\ s_buf' \in BOOLEAN
    BY DEF ServerLeave, Streams
  <1>3. CASE s_stream = "open" /\ s_buf
    <2>1. store[s_file] + 1 \in Nat \cup {Absent}
      BY DEF ServerOK, DisksOK, Absent
    <2>2. store' = [store EXCEPT ![s_file] = store[s_file] + 1]
      BY <1>3 DEF ServerLeave
    <2> QED BY <1>1, <1>2, <2>1, <2>2 DEF DisksOK
  <1>4. CASE ~(s_stream = "open" /\ s_buf)
    BY <1>1, <1>2, <1>4 DEF ServerLeave, DisksOK
  <1> QED BY <1>3, <1>4

\* A request with a well-typed body and an operation of well-typed parameters.
LEMMA RequestTypes ==
    ASSUME TypeOK, NEW type \in Types, NEW b \in Body, NEW next \in ClientPcs,
           Request(type, b, next), c_file' \in Names, c_size' \in Nat, c_i' \in Nat
    PROVE  TypeOK'
  <1>1. Msg(type, c_key, c_ctr, b) \in Message
    BY MsgTypes DEF TypeOK, ClientOK
  <1>2. ChannelsOK'
    BY <1>1, SendTypes DEF TypeOK, Request, ChannelsOK
  <1>3. ClientOK'
    BY ClientIncrementTypes DEF TypeOK, Request, ClientOK, cAuth, Results
  <1> QED BY <1>2, <1>3 DEF TypeOK, Request, ServerOK, DisksOK, server

\* A handler's message with a well-typed body, whatever well-typed effect it has.
LEMMA AnswerTypes ==
    ASSUME TypeOK, NEW pc, NEW type \in Types, NEW b \in Body, NEW next \in ServerPcs,
           Answer(pc, type, b, next), s_size' \in Nat, s_i' \in Nat,
           store' \in [Names -> Nat \cup {Absent}]
    PROVE  TypeOK'
  <1>1. Msg(type, s_key, s_ctr, b) \in Message
    BY MsgTypes DEF TypeOK, ServerOK
  <1>2. ChannelsOK'
    BY <1>1, SendTypes DEF TypeOK, Answer, ChannelsOK
  <1>3. ServerOK'
    BY ServerIncrementTypes DEF TypeOK, Answer, ServerOK, sAuth, sOut
  <1> QED BY <1>2, <1>3 DEF TypeOK, Answer, ClientOK, DisksOK, client

-----------------------------------------------------------------------------
(* Type correctness.                                                        *)

\* The initial state is well typed.
THEOREM TypeInit == Init => TypeOK
  <1> SUFFICES ASSUME Init PROVE TypeOK
    OBVIOUS
  <1>1. ClientOK
    BY BodyTypes, CounterAssumption
    DEF Init, ClientOK, ClientPcs, ClientSends, Keys, NoKey, Results
  <1>2. ServerOK
    <2>1. s_stream \in Streams /\ s_buf \in BOOLEAN
      BY DEF Init, Streams
    <2>2. s_pc \in ServerPcs /\ s_ret \in ServerPcs
      BY DEF Init, ServerPcs, ServerReceives
    <2> QED BY <2>1, <2>2, BodyTypes DEF Init, ServerOK
  <1>3. ChannelsOK
    BY DEF Init, ChannelsOK
  <1>4. DisksOK
    BY FilesAssumption DEF Init, DisksOK, Sizes, Absent
  <1> QED BY <1>1, <1>2, <1>3, <1>4 DEF Init, TypeOK

\* The client's handshake.
LEMMA TypeClientAuth ==
    ASSUME TypeOK,
           ClientAuthM1 \/ ClientAuthM2 \/ ClientAuthM3 \/ ClientAuthM4 \/ ClientAuthM5
    PROVE  TypeOK'
  <1> USE DEF TypeOK, cAuth, cOp, server
  <1>1. CASE ClientAuthM1
    <2>1. c_eph' \in Nat
      BY <1>1, PoolAssumption DEF ClientAuthM1, ClientOK
    <2>2. Msg("AuthM1", NoKey, 0, Number(c_eph')) \in Message
      BY <2>1, BodyTypes, MsgTypes DEF Types
    <2>3. ChannelsOK'
      BY <1>1, <2>2, SendTypes DEF ClientAuthM1, ChannelsOK
    <2>4. ClientOK'
      BY <1>1, <2>1 DEF ClientAuthM1, ClientOK, ClientPcs, ClientReceives
    <2> QED BY <1>1, <2>3, <2>4 DEF ClientAuthM1, ServerOK, DisksOK
  <1>2. CASE ClientAuthM2
    <2>1. ChannelsOK'
      BY <1>2, FromServerTypes DEF ClientAuthM2
    <2>2. ClientOK'
      BY <1>2 DEF ClientAuthM2, ClientOK, ClientPcs, ClientReceives
    <2> QED BY <1>2, <2>1, <2>2 DEF ClientAuthM2, ServerOK, DisksOK
  <1>3. CASE ClientAuthM3
    <2>1. ChannelsOK' /\ Head(s2c) \in Message
      BY <1>3, FromServerTypes DEF ClientAuthM3
    <2>2. <<c_eph, Head(s2c).body.n>> \in Keys
      BY <2>1 DEF ClientOK, Keys, Message, Body
    <2>3. ClientOK'
      BY <1>3, <2>2, CounterAssumption
      DEF ClientAuthM3, ClientOK, ClientPcs, ClientSends
    <2> QED BY <1>3, <2>1, <2>3 DEF ClientAuthM3, ServerOK, DisksOK
  <1>4. CASE ClientAuthM4
    <2>1. Msg("AuthM4", c_key, c_ctr, Plain) \in Message
      BY BodyTypes, MsgTypes DEF ClientOK, Types
    <2>2. ChannelsOK'
      BY <1>4, <2>1, SendTypes DEF ClientAuthM4, ChannelsOK
    <2>3. "authM5" \in ClientPcs
      BY DEF ClientPcs, ClientReceives
    <2>4. ClientOK'
      BY <1>4, <2>3, ClientIncrementTypes DEF ClientAuthM4, ClientOK
    <2> QED BY <1>4, <2>2, <2>4 DEF ClientAuthM4, ServerOK, DisksOK
  <1>5. CASE ClientAuthM5
    <2>1. ChannelsOK'
      BY <1>5, FromServerTypes DEF ClientAuthM5
    <2>2. ClientOK'
      BY <1>5, CounterAssumption DEF ClientAuthM5, ClientOK, ClientPcs, ClientSends
    <2> QED BY <1>5, <2>1, <2>2 DEF ClientAuthM5, ServerOK, DisksOK
  <1> QED BY <1>1, <1>2, <1>3, <1>4, <1>5

\* The server's handshake.
LEMMA TypeServerAuth ==
    ASSUME TypeOK,
           \/ ServerUnknownUser \/ ServerAuthM1 \/ ServerAuthM2 \/ ServerAuthM3
           \/ ServerAuthM4 \/ ServerAuthM5
    PROVE  TypeOK'
  <1> USE DEF TypeOK, sAuth, sOp, sOut, client
  <1>a. {"done", "authM2", "authM3", "authM4", "authM5", "run"} \subseteq ServerPcs
    BY DEF ServerPcs, ServerReceives, ServerSends
  <1>1. CASE ServerUnknownUser
    <2>1. ChannelsOK'
      BY <1>1, FromClientTypes DEF ServerUnknownUser
    <2>2. ServerOK' /\ DisksOK'
      BY <1>1, <1>a, ServerLeaveTypes DEF ServerUnknownUser, ServerOK, DisksOK
    <2> QED BY <1>1, <2>1, <2>2 DEF ServerUnknownUser, ClientOK
  <1>2. CASE ServerAuthM1
    <2>1. ChannelsOK' /\ Head(c2s) \in Message
      BY <1>2, FromClientTypes DEF ServerAuthM1
    <2>2. Head(c2s).body.n \in Nat
      BY <2>1 DEF Message, Body
    <2>3. ServerOK'
      BY <1>2, <1>a, <2>2 DEF ServerAuthM1, ServerOK
    <2> QED BY <1>2, <2>1, <2>3 DEF ServerAuthM1, ClientOK, DisksOK
  <1>3. CASE ServerAuthM2
    <2>1. /\ Msg("AuthM2", NoKey, 0, Code("NACK")) \in Message
          /\ Msg("AuthM2", NoKey, 0, Code("ACK")) \in Message
      BY BodyTypes, MsgTypes DEF Types, Codes
    <2>2. ChannelsOK'
      BY <1>3, <2>1, SendTypes DEF ServerAuthM2, ChannelsOK
    <2>3. ServerOK' /\ DisksOK'
      BY <1>3, <1>a, ServerLeaveTypes DEF ServerAuthM2, ServerOK, DisksOK
    <2> QED BY <1>3, <2>2, <2>3 DEF ServerAuthM2, ClientOK
  <1>4. CASE ServerAuthM3
    <2>1. s_eph' \in Nat
      BY <1>4, PoolAssumption DEF ServerAuthM3, ServerOK
    <2>2. s_key' \in Keys
      BY <1>4, <2>1 DEF ServerAuthM3, ServerOK, Keys
    <2>3. Msg("AuthM3", s_key', 0, Number(s_eph')) \in Message
      BY <2>1, <2>2, BodyTypes, MsgTypes DEF Types
    <2>4. ChannelsOK'
      BY <1>4, <2>3, SendTypes DEF ServerAuthM3, ChannelsOK
    <2>5. ServerOK'
      BY <1>4, <1>a, <2>1, <2>2, CounterAssumption DEF ServerAuthM3, ServerOK
    <2> QED BY <1>4, <2>4, <2>5 DEF ServerAuthM3, ClientOK, DisksOK
  <1>5. CASE ServerAuthM4
    <2>1. ChannelsOK'
      BY <1>5, FromClientTypes DEF ServerAuthM4
    <2>2. ServerOK' /\ DisksOK'
      BY <1>5, <1>a, ServerLeaveTypes, ServerIncrementTypes
      DEF ServerAuthM4, ServerOK, DisksOK
    <2> QED BY <1>5, <2>1, <2>2 DEF ServerAuthM4, ClientOK
  <1>6. CASE ServerAuthM5
    <2>1. /\ Msg("AuthM5", s_key, s_ctr, Code("NACK")) \in Message
          /\ Msg("AuthM5", s_key, s_ctr, Code("ACK")) \in Message
      BY BodyTypes, MsgTypes DEF ServerOK, Types, Codes
    <2>2. ChannelsOK'
      BY <1>6, <2>1, SendTypes DEF ServerAuthM5, ChannelsOK
    <2>3. ServerOK' /\ DisksOK'
      BY <1>6, <1>a, ServerLeaveTypes, CounterAssumption
      DEF ServerAuthM5, ServerOK, DisksOK
    <2> QED BY <1>6, <2>2, <2>3 DEF ServerAuthM5, ClientOK
  <1> QED BY <1>1, <1>2, <1>3, <1>4, <1>5, <1>6

\* The user's choices at the menu.
LEMMA TypeUser ==
    ASSUME TypeOK, UserStep
    PROVE  TypeOK'
  <1> USE DEF TypeOK, cOp
  <1>a. {"listM2", "downM2", "upM2", "renM2", "delM2", "outM2"} \subseteq ClientPcs
    BY DEF ClientPcs, ClientReceives
  <1>b. {"ListM1", "DownM1", "UpM1", "RenM1", "DelM1", "OutM1"} \subseteq Types
    BY DEF Types
  <1>c. ASSUME NEW res \in Results, Refused(res)
        PROVE  TypeOK'
    BY <1>c DEF Refused, ClientOK, ServerOK, ChannelsOK, DisksOK, cAuth, server
  <1>d. {"FILE_NOT_FOUND", "FILE_ALREADY_EXISTS", "WRONG_FILE_SIZE"} \subseteq Results
    BY DEF Results
  <1>1. CASE ClientList
    BY <1>1, <1>a, <1>b, BodyTypes, RequestTypes DEF ClientList, ClientOK
  <1>2. CASE ClientDownload
    <2>1. PICK f \in Names :
            Refused("FILE_ALREADY_EXISTS")
              \/ (Request("DownM1", File(f), "downM2") /\ About(f))
      BY <1>2 DEF ClientDownload
    <2>2. CASE Refused("FILE_ALREADY_EXISTS")
      BY <2>2, <1>c, <1>d
    <2>3. CASE Request("DownM1", File(f), "downM2") /\ About(f)
      BY <2>3, <1>a, <1>b, BodyTypes, RequestTypes DEF About, ClientOK
    <2> QED BY <2>1, <2>2, <2>3
  <1>3. CASE ClientUpload
    <2>1. PICK f \in Names :
            \/ Refused("FILE_NOT_FOUND")
            \/ Refused("WRONG_FILE_SIZE")
            \/ /\ local[f] > 0
               /\ Request("UpM1", [File(f) EXCEPT !.n = local[f]], "upM2")
               /\ c_file' = f /\ c_size' = local[f] /\ c_i' = 0
      BY <1>3 DEF ClientUpload
    <2>2. CASE Refused("FILE_NOT_FOUND")
      BY <2>2, <1>c, <1>d
    <2>3. CASE Refused("WRONG_FILE_SIZE")
      BY <2>3, <1>c, <1>d
    <2>4. CASE /\ local[f] > 0
               /\ Request("UpM1", [File(f) EXCEPT !.n = local[f]], "upM2")
               /\ c_file' = f /\ c_size' = local[f] /\ c_i' = 0
      <3>1. local[f] \in Nat
        BY <2>4 DEF DisksOK, Absent
      <3>2. [File(f) EXCEPT !.n = local[f]] \in Body
        BY <3>1, BodyTypes DEF Body
      <3> QED BY <2>4, <3>1, <3>2, <1>a, <1>b, RequestTypes
    <2> QED BY <2>1, <2>2, <2>3, <2>4
  <1>4. CASE ClientRename
    <2>1. PICK f \in Names, g \in Names :
            Request("RenM1", [File(f) EXCEPT !.new = g], "renM2") /\ About(f)
      BY <1>4 DEF ClientRename
    <2>2. [File(f) EXCEPT !.new = g] \in Body
      BY BodyTypes DEF Body
    <2> QED BY <2>1, <2>2, <1>a, <1>b, RequestTypes DEF About, ClientOK
  <1>5. CASE ClientDelete
    <2>1. PICK f \in Names :
            Refused("FILE_NOT_FOUND")
              \/ (Request("DelM1", File(f), "delM2") /\ About(f))
      BY <1>5 DEF ClientDelete
    <2>2. CASE Refused("FILE_NOT_FOUND")
      BY <2>2, <1>c, <1>d
    <2>3. CASE Request("DelM1", File(f), "delM2") /\ About(f)
      BY <2>3, <1>a, <1>b, BodyTypes, RequestTypes DEF About, ClientOK
    <2> QED BY <2>1, <2>2, <2>3
  <1>6. CASE ClientLogout
    BY <1>6, <1>a, <1>b, BodyTypes, RequestTypes DEF ClientLogout, ClientOK
  <1> QED BY <1>1, <1>2, <1>3, <1>4, <1>5, <1>6 DEF UserStep

\* What the client does with a reply it only counts.
LEMMA CountedReplyTypes ==
    ASSUME TypeOK, NEW pc, NEW type, NEW next \in ClientPcs,
           NEW res \in Results \cup Codes,
           FromServer(pc, type), Reply(next, res), UNCHANGED c2s
    PROVE  ChannelsOK' /\ c_pc' \in ClientPcs /\ c_ret' \in ClientPcs
             /\ c_ctr' \in 0..MaxCounter /\ c_res' \in Results \cup Codes
  BY FromServerTypes, ReplyTypes DEF TypeOK

\* The client's receiving half of the operations that only check a reply.
LEMMA TypeClientReplies ==
    ASSUME TypeOK,
           \/ ClientListM2 \/ ClientListM3 \/ ClientDownMi \/ ClientUpM2 \/ ClientUpEnd
           \/ ClientRenM2 \/ ClientDelM2 \/ ClientDelM4
    PROVE  TypeOK'
  <1>a. {"menu", "listM3", "downWrite", "upMi", "delAsk"} \subseteq ClientPcs
    BY DEF ClientPcs, ClientReceives, ClientSends
  <1>b. {"SUCCESS", "none", "FILE_ALREADY_EXISTS", "RENAME_FAILURE"} \subseteq Results
    BY DEF Results
  <1>c. \E pc, type : FromServer(pc, type)
    BY DEF ClientListM2, ClientListM3, ClientDownMi, ClientUpM2, ClientUpEnd, ClientRenM2,
           ClientDelM2, ClientDelM4
  <1>d. UNCHANGED <<user, cAuth, cOp, server, c2s, store, local>>
    BY DEF ClientListM2, ClientListM3, ClientDownMi, ClientUpM2, ClientUpEnd, ClientRenM2,
           ClientDelM2, ClientDelM4
  <1>e. Head(s2c) \in Message /\ Head(s2c).body.code \in Codes
    BY <1>c, <1>d, FromServerTypes DEF TypeOK, Message, Body
  <1>f. \E next \in ClientPcs, res \in Results \cup Codes : Reply(next, res)
    <2>1. CASE ClientListM2
      BY <2>1, <1>a, <1>b DEF ClientListM2
    <2>2. CASE ClientListM3
      BY <2>2, <1>a, <1>b DEF ClientListM3
    <2>3. CASE ClientDownMi
      BY <2>3, <1>a, <1>b DEF ClientDownMi
    <2>4. CASE ClientUpM2
      BY <2>4, <1>a, <1>b DEF ClientUpM2
    <2>5. CASE ClientUpEnd
      BY <2>5, <1>a, <1>b DEF ClientUpEnd
    <2>6. CASE ClientRenM2
      BY <2>6, <1>a, <1>b, <1>e DEF ClientRenM2
    <2>7. CASE ClientDelM2
      BY <2>7, <1>a, <1>b DEF ClientDelM2
    <2>8. CASE ClientDelM4
      BY <2>8, <1>a, <1>b DEF ClientDelM4
    <2> QED BY <2>1, <2>2, <2>3, <2>4, <2>5, <2>6, <2>7, <2>8
  <1>1. /\ ChannelsOK' /\ c_pc' \in ClientPcs /\ c_ret' \in ClientPcs
        /\ c_ctr' \in 0..MaxCounter /\ c_res' \in Results \cup Codes
    BY <1>c, <1>d, <1>f, CountedReplyTypes
  <1> QED BY <1>1, <1>d DEF TypeOK, ClientOK, ServerOK, DisksOK, cAuth, cOp, server

\* The client's other steps in an operation: the download and the chunks of an upload,
\* the answer to the delete question, the logout, and the ends of the connection.
LEMMA TypeClientOther ==
    ASSUME TypeOK,
           \/ ClientDownM2 \/ ClientDownOpen \/ ClientDownWrite \/ ClientUpMi
           \/ ClientDelAsk \/ ClientOutM2 \/ ClientEof \/ ClientSigpipe
    PROVE  TypeOK'
  <1> USE DEF TypeOK, cAuth, cOp, server
  <1>a. {"menu", "downOpen", "downMi", "upMi", "upEnd", "delM4", "left", "exit"}
          \subseteq ClientPcs
    BY DEF ClientPcs, ClientReceives, ClientSends
  <1>b. {"SUCCESS", "none", "FILE_NOT_FOUND", "NO_DELETE_CONFIRM", "RECEIVE_FAILURE",
         "DECRYPTION_FAILURE", "WRONG_COUNTER"} \subseteq Results
    BY DEF Results
  <1>1. CASE ClientDownM2
    <2>1. ChannelsOK' /\ Head(s2c) \in Message
      BY <1>1, FromServerTypes DEF ClientDownM2
    <2>2. c_size' \in Nat
      BY <1>1, <2>1 DEF ClientDownM2, ClientOK, Message, Body
    <2>3. \E next \in ClientPcs, res \in Results \cup Codes : Reply(next, res)
      BY <1>1, <1>a, <1>b DEF ClientDownM2
    <2>4. ClientOK'
      BY <1>1, <2>2, <2>3, ReplyTypes DEF ClientDownM2, ClientOK
    <2> QED BY <1>1, <2>1, <2>4 DEF ClientDownM2, ServerOK, DisksOK
  <1>2. CASE ClientDownOpen
    <2>1. ClientOK'
      BY <1>2, <1>a, <1>b DEF ClientDownOpen, ClientReturn, ClientOK
    <2>2. DisksOK'
      BY <1>2 DEF ClientDownOpen, DisksOK, Absent
    <2> QED BY <1>2, <2>1, <2>2 DEF ClientDownOpen, ServerOK, ChannelsOK
  <1>3. CASE ClientDownWrite
    <2>1. ClientOK'
      BY <1>3, <1>a, <1>b DEF ClientDownWrite, ClientReturn, ClientOK
    <2>2. DisksOK'
      BY <1>3 DEF ClientDownWrite, DisksOK, Absent, ClientOK
    <2> QED BY <1>3, <2>1, <2>2 DEF ClientDownWrite, ServerOK, ChannelsOK
  <1>4. CASE ClientUpMi
    <2>1. Msg("UpMi", c_key, c_ctr, Number(c_i)) \in Message
      BY BodyTypes, MsgTypes DEF ClientOK, Types
    <2>2. ChannelsOK'
      BY <1>4, <2>1, SendTypes DEF ClientUpMi, ChannelsOK
    <2>3. PICK next \in ClientPcs : ClientIncrement(next)
      BY <1>4, <1>a DEF ClientUpMi
    <2>4. ClientOK'
      BY <1>4, <2>3, ClientIncrementTypes DEF ClientUpMi, ClientOK
    <2> QED BY <1>4, <2>2, <2>4 DEF ClientUpMi, ServerOK, DisksOK
  <1>5. CASE ClientDelAsk
    <2>1. PICK code \in {"DELETE_CONFIRM", "NO_DELETE_CONFIRM"} :
            ToServer(Msg("DelM3", c_key, c_ctr, Code(code)))
      BY <1>5 DEF ClientDelAsk
    <2>2. Msg("DelM3", c_key, c_ctr, Code(code)) \in Message
      BY BodyTypes, MsgTypes DEF ClientOK, Types, Codes
    <2>3. ChannelsOK'
      BY <1>5, <2>1, <2>2, SendTypes DEF ClientDelAsk, ChannelsOK
    <2>4. PICK next \in ClientPcs : ClientIncrement(next)
      BY <1>5, <1>a DEF ClientDelAsk
    <2>5. c_res' \in Results \cup Codes
      BY <1>5, <1>b DEF ClientDelAsk, ClientOK
    <2>6. ClientOK'
      BY <1>5, <2>4, <2>5, ClientIncrementTypes DEF ClientDelAsk, ClientOK
    <2> QED BY <1>5, <2>3, <2>6 DEF ClientDelAsk, ServerOK, DisksOK
  <1>6. CASE ClientOutM2
    <2>1. ChannelsOK'
      BY <1>6, FromServerTypes DEF ClientOutM2
    <2>2. ClientOK'
      BY <1>6, <1>a, <1>b DEF ClientOutM2, Verdict, ClientOK
    <2> QED BY <1>6, <2>1, <2>2 DEF ClientOutM2, ServerOK, DisksOK
  <1>7. CASE ClientEof
    <2>1. ClientOK'
      BY <1>7, <1>a, <1>b DEF ClientEof, ClientReturn, ClientOK
    <2> QED BY <1>7, <2>1 DEF ClientEof, ServerOK, ChannelsOK, DisksOK
  <1>8. CASE ClientSigpipe
    <2>1. ClientOK'
      BY <1>8, <1>a DEF ClientSigpipe, ClientOK
    <2> QED BY <1>8, <2>1 DEF ClientSigpipe, ServerOK, ChannelsOK, DisksOK
  <1> QED BY <1>1, <1>2, <1>3, <1>4, <1>5, <1>6, <1>7, <1>8

\* Server::run.
LEMMA TypeServerRun ==
    ASSUME TypeOK, ServerRun
    PROVE  TypeOK'
  <1> USE DEF TypeOK, sAuth, sOp, sOut, client
  <1>a. {"done", "listM2", "downM2", "upM2", "renM2", "delM2", "outM2"} \subseteq ServerPcs
    BY DEF ServerPcs, ServerSends
  <1>1. Head(c2s) \in Message /\ Tail(c2s) \in Seq(Message)
    BY TakeTypes DEF ServerRun, ChannelsOK
  <1>2. ChannelsOK'
    BY <1>1 DEF ServerRun, ChannelsOK
  <1>3. CASE Head(c2s).type \in DOMAIN Handler /\ Verdict(Head(c2s), s_key, s_ctr) = "SUCCESS"
    <2>1. Handler[Head(c2s).type] \in ServerPcs
      BY <1>3, <1>a DEF Handler
    <2>2. s_pc' \in ServerPcs /\ s_ret' \in ServerPcs /\ s_ctr' \in 0..MaxCounter
      BY <1>3, <2>1, ServerIncrementTypes DEF ServerRun
    <2>3. s_file' \in Names /\ s_new' \in Names /\ s_size' \in Nat /\ s_i' \in Nat
      BY <1>1, <1>3 DEF ServerRun, Message, Body
    <2>4. ServerOK'
      BY <1>3, <2>2, <2>3 DEF ServerRun, ServerOK
    <2> QED BY <1>2, <1>3, <2>4 DEF ServerRun, ClientOK, DisksOK
  <1>4. CASE ~(Head(c2s).type \in DOMAIN Handler
               /\ Verdict(Head(c2s), s_key, s_ctr) = "SUCCESS")
    <2>1. ServerLeave("done") /\ UNCHANGED <<s_ret, s_ctr, sOp, sAuth, local, client, user>>
      BY <1>4 DEF ServerRun
    <2>2. ServerOK' /\ DisksOK'
      BY <1>a, <2>1, ServerLeaveTypes DEF ServerOK, DisksOK
    <2> QED BY <1>2, <2>1, <2>2 DEF ClientOK
  <1> QED BY <1>3, <1>4

\* The handlers that only answer.
LEMMA TypeServerAnswers ==
    ASSUME TypeOK,
           \/ ServerListM2 \/ ServerListM3 \/ ServerDownM2 \/ ServerDownMi \/ ServerUpM2
           \/ ServerUpEnd \/ ServerRenM2 \/ ServerDelM2 \/ ServerDelM4
    PROVE  TypeOK'
  <1> USE DEF TypeOK
  <1>a. {"run", "listM3", "downMi", "upLook", "upClose", "delM3"} \subseteq ServerPcs
    BY DEF ServerPcs, ServerReceives, ServerSends
  <1>b. {"ListM2", "ListM3", "DownM2", "DownMi", "UpM2", "UpEnd", "RenM2", "DelM2", "DelM4"}
          \subseteq Types
    BY DEF Types
  <1>c. {"ACK", "NACK", "DOWNLOAD_ACK", "FILE_NOT_FOUND", "FILE_ALREADY_EXISTS",
         "DELETE_ASK"} \subseteq Codes
    BY DEF Codes
  <1>d. s_size \in Nat /\ s_i \in Nat /\ s_i + 1 \in Nat
    BY DEF ServerOK
  <1>e. store \in [Names -> Nat \cup {Absent}] /\ s_file \in Names /\ s_new \in Names
    BY DEF DisksOK, ServerOK
  <1>1. CASE ServerListM2
    <2>1. PICK b \in Body, next \in ServerPcs : Answer("listM2", "ListM2", b, next)
      BY <1>1, <1>a, BodyTypes DEF ServerListM2
    <2> QED BY <1>1, <2>1, <1>b, <1>d, <1>e, AnswerTypes DEF ServerListM2
  <1>2. CASE ServerListM3
    BY <1>2, <1>a, <1>b, <1>d, <1>e, BodyTypes, AnswerTypes DEF ServerListM3
  <1>3. CASE ServerDownM2
    <2>1. CASE store[s_file] = Absent
      BY <1>3, <2>1, <1>a, <1>b, <1>c, <1>d, <1>e, BodyTypes, AnswerTypes DEF ServerDownM2
    <2>2. CASE store[s_file] # Absent
      <3>1. store[s_file] \in Nat
        BY <1>e, <2>2
      <3>2. [Code("DOWNLOAD_ACK") EXCEPT !.n = store[s_file]] \in Body
        BY <3>1, <1>c, BodyTypes DEF Body
      <3>3. PICK next \in ServerPcs :
              Answer("downM2", "DownM2",
                     [Code("DOWNLOAD_ACK") EXCEPT !.n = store[s_file]], next)
        BY <1>3, <2>2, <1>a DEF ServerDownM2
      <3> QED BY <1>3, <2>2, <3>1, <3>2, <3>3, <1>b, <1>d, <1>e, AnswerTypes
              DEF ServerDownM2
    <2> QED BY <2>1, <2>2
  <1>4. CASE ServerDownMi
    <2>1. PICK next \in ServerPcs : Answer("downMi", "DownMi", Number(s_i), next)
      BY <1>4, <1>a DEF ServerDownMi
    <2> QED BY <1>4, <2>1, <1>b, <1>d, <1>e, BodyTypes, AnswerTypes DEF ServerDownMi
  <1>5. CASE ServerUpM2
    <2>1. PICK code \in Codes, next \in ServerPcs :
            Answer("upM2", "UpM2", Code(code), next)
      BY <1>5, <1>a, <1>c DEF ServerUpM2
    <2> QED BY <1>5, <2>1, <1>b, <1>d, <1>e, BodyTypes, AnswerTypes DEF ServerUpM2
  <1>6. CASE ServerUpEnd
    BY <1>6, <1>a, <1>b, <1>c, <1>d, <1>e, BodyTypes, AnswerTypes DEF ServerUpEnd
  <1>7. CASE ServerRenM2
    <2>1. PICK code \in Codes : Answer("renM2", "RenM2", Code(code), "run")
      BY <1>7, <1>c DEF ServerRenM2
    <2>2. store' \in [Names -> Nat \cup {Absent}]
      BY <1>7, <1>e DEF ServerRenM2, Absent
    <2> QED BY <1>7, <2>1, <2>2, <1>a, <1>b, <1>d, BodyTypes, AnswerTypes DEF ServerRenM2
  <1>8. CASE ServerDelM2
    BY <1>8, <1>a, <1>b, <1>c, <1>d, <1>e, BodyTypes, AnswerTypes DEF ServerDelM2
  <1>9. CASE ServerDelM4
    <2>1. store' \in [Names -> Nat \cup {Absent}]
      BY <1>9, <1>e DEF ServerDelM4, Absent
    <2> QED BY <1>9, <2>1, <1>a, <1>b, <1>c, <1>d, BodyTypes, AnswerTypes DEF ServerDelM4
  <1> QED BY <1>1, <1>2, <1>3, <1>4, <1>5, <1>6, <1>7, <1>8, <1>9

\* The handlers' silent returns, the chunks of an upload, the answer to the delete
\* question, the logout, and the ends of the connection.
LEMMA TypeServerOther ==
    ASSUME TypeOK,
           \/ ServerListSilent \/ ServerUpLook \/ ServerUpCreate \/ ServerUpMi
           \/ ServerUpWrite \/ ServerUpClose \/ ServerDelM3 \/ ServerDelSilent \/ ServerOutM2
           \/ ServerEof \/ ServerSigpipe
    PROVE  TypeOK'
  <1> USE DEF TypeOK, sAuth, sOp, sOut, client
  <1>a. {"run", "upCreate", "upMi", "upEnd", "upWrite", "delM4", "done", "crashed"}
          \subseteq ServerPcs
    BY DEF ServerPcs, ServerReceives, ServerSends
  <1>1. CASE ServerListSilent
    BY <1>1, <1>a DEF ServerListSilent, ClientOK, ServerOK, ChannelsOK, DisksOK
  <1>2. CASE ServerUpLook
    BY <1>2, <1>a DEF ServerUpLook, FirstChunk, ClientOK, ServerOK, ChannelsOK, DisksOK
  <1>11. CASE ServerUpCreate
    <2>1. s_pc' \in ServerPcs
      BY <1>11, <1>a DEF ServerUpCreate, FirstChunk
    <2>2. s_stream' \in Streams
      BY <1>11 DEF ServerUpCreate, ServerOK, Streams
    <2>3. store' \in [Names -> Nat \cup {Absent}]
      BY <1>11 DEF ServerUpCreate, DisksOK, Absent
    <2>4. ServerOK' /\ DisksOK'
      BY <1>11, <2>1, <2>2, <2>3 DEF ServerUpCreate, ServerOK, DisksOK
    <2> QED BY <1>11, <2>4 DEF ServerUpCreate, ClientOK, ChannelsOK
  <1>3. CASE ServerUpMi
    <2>1. ChannelsOK'
      BY <1>3, FromClientTypes DEF ServerUpMi
    <2>2. ServerOK' /\ DisksOK'
      BY <1>3, <1>a, ServerLeaveTypes, ServerIncrementTypes DEF ServerUpMi, ServerOK, DisksOK
    <2> QED BY <1>3, <2>1, <2>2 DEF ServerUpMi, ClientOK
  <1>4. CASE ServerUpWrite
    <2>1. s_pc' \in ServerPcs
      BY <1>4, <1>a DEF ServerUpWrite
    <2>2. s_buf' \in BOOLEAN
      BY <1>4 DEF ServerUpWrite
    <2>3. store[s_file] + 1 \in Nat \cup {Absent}
      BY DEF ServerOK, DisksOK, Absent
    <2>4. \/ store' = store
          \/ store' = [store EXCEPT ![s_file] = store[s_file] + 1]
      BY <1>4 DEF ServerUpWrite
    <2>5. store' \in [Names -> Nat \cup {Absent}]
      BY <2>3, <2>4 DEF DisksOK
    <2>6. s_i' \in Nat
      BY <1>4 DEF ServerUpWrite, ServerOK
    <2>7. ServerOK' /\ DisksOK'
      BY <1>4, <2>1, <2>2, <2>5, <2>6 DEF ServerUpWrite, ServerOK, DisksOK
    <2> QED BY <1>4, <2>7 DEF ServerUpWrite, ClientOK, ChannelsOK
  <1>5. CASE ServerUpClose
    <2>1. ServerOK' /\ DisksOK'
      BY <1>5, <1>a, ServerLeaveTypes DEF ServerUpClose, ServerOK, DisksOK
    <2> QED BY <1>5, <2>1 DEF ServerUpClose, ClientOK, ChannelsOK
  <1>6. CASE ServerDelM3
    <2>1. ChannelsOK'
      BY <1>6, FromClientTypes DEF ServerDelM3
    <2>2. s_pc' \in ServerPcs /\ s_ret' \in ServerPcs /\ s_ctr' \in 0..MaxCounter
      <3>1. CASE Verdict(Head(c2s), s_key, s_ctr) = "SUCCESS"
        <4>1. PICK next \in ServerPcs : ServerIncrement(next)
          BY <1>6, <3>1, <1>a DEF ServerDelM3
        <4> QED BY <4>1, ServerIncrementTypes
      <3>2. CASE Verdict(Head(c2s), s_key, s_ctr) # "SUCCESS"
        BY <1>6, <3>2, <1>a DEF ServerDelM3, ServerOK
      <3> QED BY <3>1, <3>2
    <2> QED BY <1>6, <2>1, <2>2 DEF ServerDelM3, ServerOK, ClientOK, DisksOK
  <1>7. CASE ServerDelSilent
    BY <1>7, <1>a DEF ServerDelSilent, ClientOK, ServerOK, ChannelsOK, DisksOK
  <1>8. CASE ServerOutM2
    <2>1. Msg("OutM2", s_key, s_ctr, Code("ACK")) \in Message
      BY BodyTypes, MsgTypes DEF ServerOK, Types, Codes
    <2>2. ChannelsOK'
      BY <1>8, <2>1, SendTypes DEF ServerOutM2, ChannelsOK
    <2>3. ServerOK'
      BY <1>8, <1>a, BodyTypes DEF ServerOutM2, ServerOK
    <2> QED BY <1>8, <2>2, <2>3 DEF ServerOutM2, ClientOK, DisksOK
  <1>9. CASE ServerEof
    <2>1. PICK pc \in ServerPcs : ServerLeave(pc)
      BY <1>9, <1>a DEF ServerEof
    <2>2. ServerOK' /\ DisksOK'
      BY <1>9, <2>1, ServerLeaveTypes DEF ServerEof, ServerOK, DisksOK
    <2> QED BY <1>9, <2>2 DEF ServerEof, ClientOK, ChannelsOK
  <1>10. CASE ServerSigpipe
    <2>1. CASE ServerLeave("done")
      <3>1. ServerOK' /\ DisksOK'
        BY <1>10, <2>1, <1>a, ServerLeaveTypes DEF ServerSigpipe, ServerOK, DisksOK
      <3> QED BY <1>10, <3>1 DEF ServerSigpipe, ClientOK, ChannelsOK
    <2>2. CASE s_pc' = "crashed" /\ s_stream' = "closed" /\ s_buf' = FALSE /\ UNCHANGED store
      <3>1. s_stream' \in Streams /\ s_buf' \in BOOLEAN
        BY <2>2 DEF Streams
      <3>2. ServerOK'
        BY <1>10, <2>2, <3>1, <1>a DEF ServerSigpipe, ServerOK
      <3> QED BY <1>10, <2>2, <3>2 DEF ServerSigpipe, ClientOK, ChannelsOK, DisksOK
    <2> QED BY <1>10, <2>1, <2>2 DEF ServerSigpipe
  <1> QED BY <1>1, <1>2, <1>3, <1>4, <1>5, <1>6, <1>7, <1>8, <1>9, <1>10, <1>11

\* The ends of the processes, and other sessions.
LEMMA TypeEnvironment ==
    ASSUME TypeOK, ClientExit \/ ServerExit \/ OtherSession
    PROVE  TypeOK'
  <1> USE DEF TypeOK, cAuth, cOp, sAuth, sOp, client, server
  <1>1. CASE ClientExit
    <2>1. ChannelsOK'
      BY <1>1, PrefixTypes DEF ClientExit, ChannelsOK
    <2>2. ClientOK'
      BY <1>1 DEF ClientExit, ClientOK, ClientPcs
    <2> QED BY <1>1, <2>1, <2>2 DEF ClientExit, ServerOK, DisksOK
  <1>2. CASE ServerExit
    <2>1. ChannelsOK'
      BY <1>2, PrefixTypes DEF ServerExit, ChannelsOK
    <2>2. s_stream' \in Streams /\ s_buf' \in BOOLEAN
      BY <1>2 DEF ServerExit, Streams
    <2>3. ServerOK'
      BY <1>2, <2>2 DEF ServerExit, ServerOK, ServerPcs
    <2> QED BY <1>2, <2>1, <2>3 DEF ServerExit, ClientOK, DisksOK
  <1>3. CASE OtherSession
    <2>1. PICK f \in Names, n \in Sizes : store' = [store EXCEPT ![f] = n]
      BY <1>3 DEF OtherSession
    <2>2. n \in Nat \cup {Absent}
      BY FilesAssumption DEF Sizes, Absent
    <2>3. DisksOK'
      BY <1>3, <2>1, <2>2 DEF OtherSession, DisksOK
    <2>4. s_stream' \in Streams
      BY <1>3 DEF OtherSession, ServerOK, Streams
    <2>5. ServerOK'
      BY <1>3, <2>4 DEF OtherSession, ServerOK
    <2> QED BY <1>3, <2>3, <2>5 DEF OtherSession, ClientOK, ChannelsOK
  <1> QED BY <1>1, <1>2, <1>3

\* Every step, and stuttering, keeps the types.
THEOREM TypeStep == TypeOK /\ [Next]_vars => TypeOK'
  <1> SUFFICES ASSUME TypeOK, [Next]_vars PROVE TypeOK'
    OBVIOUS
  <1>1. CASE UserStep
    BY <1>1, TypeUser
  <1>2. CASE ClientStep
    BY <1>2, TypeClientAuth, TypeClientReplies, TypeClientOther DEF ClientStep
  <1>3. CASE ServerStep
    BY <1>3, TypeServerAuth, TypeServerRun, TypeServerAnswers, TypeServerOther
    DEF ServerStep
  <1>4. CASE ClientExit \/ ServerExit \/ OtherSession
    BY <1>4, TypeEnvironment
  <1>5. CASE UNCHANGED vars
    BY <1>5 DEF vars, client, server, TypeOK, ClientOK, ServerOK, ChannelsOK, DisksOK
  <1> QED BY <1>1, <1>2, <1>3, <1>4, <1>5 DEF Next

\* Every variable keeps its range in every behaviour: in particular m_counter of the two
\* programs never exceeds MAX_COUNTER_VALUE, whatever is lost, cut off or rejected.
THEOREM TypeCorrect == Spec => []TypeOK
  BY TypeInit, TypeStep, PTL DEF Spec

-----------------------------------------------------------------------------
(* What an upload leaves behind.  UploadPrefix is not inductive by itself:  *)
(* it needs to know where the thread is while its stream is open or buffers *)
(* something, re-authentication in between included, and that incrementing  *)
(* the counter in the handshake never starts another handshake.             *)

HandshakeOnce == s_ret \notin AuthPcs /\ (s_pc = "authM4" => s_ctr = 1)

StreamInUpload ==
    /\ s_stream # "closed" => ServerAt \in {"upMi", "upWrite", "upEnd", "upClose"}
    /\ s_buf => ServerAt \in {"upEnd", "upClose"}
    /\ ServerAt \in {"upM2", "upLook", "upCreate"} => s_i = 0

UploadInv == HandshakeOnce /\ StreamInUpload /\ UploadPrefix

\* incrementCounter goes on at next, at once or after authentication.
LEMMA IncrementAt ==
    ASSUME HandshakeOnce, NEW next, next \notin AuthPcs, ServerIncrement(next)
    PROVE  HandshakeOnce' /\ ServerAt' = next
  BY DEF HandshakeOnce, ServerIncrement, ServerAt, AuthPcs

\* A step that neither touches the upload nor changes the place keeps the invariant.
LEMMA SamePlace ==
    ASSUME UploadInv, HandshakeOnce', ServerAt' = ServerAt,
           UNCHANGED <<s_stream, s_buf, s_i, s_file, store>>
    PROVE  UploadInv'
  BY DEF UploadInv, StreamInUpload, UploadPrefix

\* So does one that ends outside an upload with the stream closed ...
LEMMA Closed ==
    ASSUME HandshakeOnce', ServerAt' \notin {"upM2", "upLook", "upCreate"},
           s_stream' = "closed", ~s_buf'
    PROVE  UploadInv'
  BY DEF UploadInv, StreamInUpload, UploadPrefix

\* ... which leaving the handler is, whatever it was doing,
LEMMA Left ==
    ASSUME UploadInv, NEW pc \in {"run", "done"}, ServerLeave(pc), UNCHANGED s_ret
    PROVE  UploadInv'
  BY Closed DEF UploadInv, HandshakeOnce, ServerLeave, ServerAt, AuthPcs

\* and so is every step of the other handlers, where the stream is closed all along.
LEMMA Elsewhere ==
    ASSUME UploadInv, ServerAt \notin {"upMi", "upWrite", "upEnd", "upClose"},
           ServerAt' \notin {"upM2", "upLook", "upCreate"}, HandshakeOnce', UNCHANGED sOut
    PROVE  UploadInv'
  BY Closed DEF UploadInv, StreamInUpload, sOut

\* The server's handshake: it is in the middle of an upload at most by s_ret.
LEMMA UploadAuth ==
    ASSUME UploadInv,
           \/ ServerUnknownUser \/ ServerAuthM1 \/ ServerAuthM2 \/ ServerAuthM3
           \/ ServerAuthM4 \/ ServerAuthM5
    PROVE  UploadInv'
  <1> USE DEF sOp, sOut
  <1>1. CASE ServerUnknownUser
    BY <1>1, Left DEF ServerUnknownUser
  <1>2. CASE ServerAuthM1
    BY <1>2, SamePlace
    DEF ServerAuthM1, FromClient, UploadInv, HandshakeOnce, ServerAt, AuthPcs
  <1>3. CASE ServerAuthM2
    <2>1. CASE user = "unreadable"
      BY <1>3, <2>1, Left DEF ServerAuthM2
    <2>2. CASE user # "unreadable"
      BY <1>3, <2>2, SamePlace
      DEF ServerAuthM2, UploadInv, HandshakeOnce, ServerAt, AuthPcs
    <2> QED BY <2>1, <2>2
  <1>4. CASE ServerAuthM3
    BY <1>4, SamePlace DEF ServerAuthM3, UploadInv, HandshakeOnce, ServerAt, AuthPcs
  <1>5. CASE ServerAuthM4
    <2>1. CASE Verdict(Head(c2s), s_key, s_ctr) = "SUCCESS"
      <3>1. s_pc = "authM4" /\ s_ctr = 1
        BY <1>5 DEF ServerAuthM4, FromClient, UploadInv, HandshakeOnce
      <3>2. s_pc' = "authM5" /\ s_ret' = s_ret
        BY <1>5, <2>1, <3>1, CounterAssumption DEF ServerAuthM4, ServerIncrement
      <3> QED BY <1>5, <2>1, <3>1, <3>2, SamePlace
              DEF ServerAuthM4, UploadInv, HandshakeOnce, ServerAt, AuthPcs
    <2>2. CASE Verdict(Head(c2s), s_key, s_ctr) # "SUCCESS"
      BY <1>5, <2>2, Left DEF ServerAuthM4
    <2> QED BY <2>1, <2>2
  <1>6. CASE ServerAuthM5
    <2>1. CASE user = "mismatched"
      BY <1>6, <2>1, Left DEF ServerAuthM5
    <2>2. CASE user # "mismatched"
      BY <1>6, <2>2, SamePlace
      DEF ServerAuthM5, UploadInv, HandshakeOnce, ServerAt, AuthPcs
    <2> QED BY <2>1, <2>2
  <1> QED BY <1>1, <1>2, <1>3, <1>4, <1>5, <1>6

\* The handlers of the other operations, and run(), which starts a handler.
LEMMA UploadElsewhere ==
    ASSUME UploadInv,
           \/ ServerListSilent \/ ServerListM2 \/ ServerListM3 \/ ServerDownM2
           \/ ServerDownMi \/ ServerRenM2 \/ ServerDelM2 \/ ServerDelM3
           \/ ServerDelSilent \/ ServerDelM4 \/ ServerOutM2
    PROVE  UploadInv'
  <1> USE DEF sOp, sOut
  <1>a. ServerAt \in {"listM2", "listM3", "downM2", "downMi", "renM2", "delM2", "delM3",
                      "delM4", "outM2"}
    BY DEF ServerListSilent, ServerListM2, ServerListM3, ServerDownM2, ServerDownMi,
           ServerRenM2, ServerDelM2, ServerDelM3, ServerDelSilent, ServerDelM4, ServerOutM2,
           Answer, FromClient, ServerAt, AuthPcs
  <1>b. UNCHANGED sOut
    BY DEF ServerListSilent, ServerListM2, ServerListM3, ServerDownM2, ServerDownMi,
           ServerRenM2, ServerDelM2, ServerDelM3, ServerDelSilent, ServerDelM4, ServerOutM2,
           Answer
  <1>c. \/ \E next \in {"listM3", "downMi", "delM3", "delM4", "run"} : ServerIncrement(next)
        \/ s_pc' = "run" /\ UNCHANGED s_ret
    BY DEF ServerListSilent, ServerListM2, ServerListM3, ServerDownM2, ServerDownMi,
           ServerRenM2, ServerDelM2, ServerDelM3, ServerDelSilent, ServerDelM4, ServerOutM2,
           Answer
  <1>1. HandshakeOnce' /\ ServerAt' \notin {"upM2", "upLook", "upCreate"}
    <2>1. CASE \E next \in {"listM3", "downMi", "delM3", "delM4", "run"} :
                 ServerIncrement(next)
      BY <2>1, IncrementAt DEF UploadInv, AuthPcs
    <2>2. CASE s_pc' = "run" /\ UNCHANGED s_ret
      BY <2>2 DEF UploadInv, HandshakeOnce, ServerAt, AuthPcs
    <2> QED BY <1>c, <2>1, <2>2
  <1> QED BY <1>a, <1>b, <1>1, Elsewhere

\* run() starts a handler only with the stream closed.
LEMMA UploadRun ==
    ASSUME UploadInv, ServerRun
    PROVE  UploadInv'
  <1>1. CASE Head(c2s).type \in DOMAIN Handler /\ Verdict(Head(c2s), s_key, s_ctr) = "SUCCESS"
    <2>1. Handler[Head(c2s).type]
            \in {"listM2", "downM2", "upM2", "renM2", "delM2", "outM2"}
      BY <1>1 DEF Handler
    <2>2. HandshakeOnce' /\ ServerAt' \notin {"upMi", "upWrite", "upEnd", "upClose"}
      BY <1>1, <2>1, IncrementAt DEF ServerRun, UploadInv, AuthPcs
    <2>3. s_stream' = "closed" /\ s_buf' = s_buf /\ ~s_buf /\ s_i' = 0
      BY <1>1 DEF ServerRun, UploadInv, StreamInUpload, ServerAt, AuthPcs, sOut
    <2> QED BY <2>2, <2>3 DEF UploadInv, StreamInUpload, UploadPrefix
  <1>2. CASE ~(Head(c2s).type \in DOMAIN Handler
               /\ Verdict(Head(c2s), s_key, s_ctr) = "SUCCESS")
    BY <1>2, Left DEF ServerRun
  <1> QED BY <1>1, <1>2

\* The upload itself.
LEMMA UploadUpload ==
    ASSUME TypeOK, UploadInv,
           \/ ServerUpM2 \/ ServerUpLook \/ ServerUpCreate \/ ServerUpMi
           \/ ServerUpWrite \/ ServerUpEnd \/ ServerUpClose
    PROVE  UploadInv'
  <1> USE DEF sOp, sOut
  <1>a. /\ store \in [Names -> Nat \cup {Absent}] /\ s_file \in Names /\ s_i \in Nat
        /\ s_file' = s_file
    BY DEF TypeOK, DisksOK, ServerOK, ServerUpM2, ServerUpLook, ServerUpCreate, ServerUpMi,
           ServerUpWrite, ServerUpEnd, ServerUpClose, Answer
  <1>1. CASE ServerUpM2
    <2>1. PICK next \in {"run", "upLook"} : ServerIncrement(next)
      BY <1>1 DEF ServerUpM2, Answer
    <2>2. HandshakeOnce' /\ ServerAt' = next
      BY <2>1, IncrementAt DEF UploadInv, AuthPcs
    <2>3. s_stream = "closed" /\ ~s_buf /\ s_i = 0
      BY <1>1 DEF ServerUpM2, Answer, UploadInv, StreamInUpload, ServerAt, AuthPcs
    <2>4. UNCHANGED <<s_stream, s_buf, s_i>>
      BY <1>1 DEF ServerUpM2, Answer
    <2> QED BY <2>2, <2>3, <2>4 DEF UploadInv, StreamInUpload, UploadPrefix
  <1>2. CASE ServerUpLook
    <2>1. s_stream = "closed" /\ ~s_buf /\ s_i = 0
      BY <1>2 DEF ServerUpLook, UploadInv, StreamInUpload, ServerAt, AuthPcs
    <2>2. HandshakeOnce' /\ ServerAt' \in {"upCreate", "upMi", "upEnd"}
      BY <1>2 DEF ServerUpLook, FirstChunk, UploadInv, HandshakeOnce, ServerAt, AuthPcs
    <2> QED BY <1>2, <2>1, <2>2 DEF ServerUpLook, UploadInv, StreamInUpload, UploadPrefix
  <1>7. CASE ServerUpCreate
    <2>1. s_stream = "closed" /\ ~s_buf /\ s_i = 0
      BY <1>7 DEF ServerUpCreate, UploadInv, StreamInUpload, ServerAt, AuthPcs
    <2>2. HandshakeOnce' /\ ServerAt' \in {"upMi", "upEnd"}
      BY <1>7 DEF ServerUpCreate, FirstChunk, UploadInv, HandshakeOnce, ServerAt, AuthPcs
    <2>3. s_stream' = "open" => store'[s_file] = 0
      BY <1>7, <1>a, <2>1 DEF ServerUpCreate
    <2> QED BY <1>7, <1>a, <2>1, <2>2, <2>3
            DEF ServerUpCreate, UploadInv, StreamInUpload, UploadPrefix
  <1>3. CASE ServerUpMi
    <2>1. CASE Verdict(Head(c2s), s_key, s_ctr) = "SUCCESS"
      <3>1. HandshakeOnce' /\ ServerAt' = "upWrite"
        BY <1>3, <2>1, IncrementAt DEF ServerUpMi, UploadInv, AuthPcs
      <3>2. ~s_buf
        BY <1>3 DEF ServerUpMi, FromClient, UploadInv, StreamInUpload, ServerAt, AuthPcs
      <3> QED BY <1>3, <2>1, <3>1, <3>2
              DEF ServerUpMi, UploadInv, StreamInUpload, UploadPrefix
    <2>2. CASE Verdict(Head(c2s), s_key, s_ctr) # "SUCCESS"
      BY <1>3, <2>2, Left DEF ServerUpMi
    <2> QED BY <2>1, <2>2
  <1>4. CASE ServerUpWrite
    <2>1. ~s_buf
      BY <1>4 DEF ServerUpWrite, UploadInv, StreamInUpload, ServerAt, AuthPcs
    <2>2. HandshakeOnce' /\ ServerAt' \in {"upMi", "upEnd"}
      BY <1>4 DEF ServerUpWrite, UploadInv, HandshakeOnce, ServerAt, AuthPcs
    <2>3. s_buf' => ServerAt' = "upEnd"
      BY <1>4 DEF ServerUpWrite, ServerAt, AuthPcs
    <2>4. s_stream = "open" => store[s_file] = s_i
      BY <1>a, <2>1 DEF UploadInv, UploadPrefix, Absent
    <2>5. s_stream' = "open" => store'[s_file] + (IF s_buf' THEN 1 ELSE 0) = s_i'
      BY <1>4, <1>a, <2>4 DEF ServerUpWrite
    <2> QED BY <1>4, <1>a, <2>2, <2>3, <2>5
            DEF ServerUpWrite, UploadInv, StreamInUpload, UploadPrefix
  <1>5. CASE ServerUpEnd
    <2>1. HandshakeOnce' /\ ServerAt' = "upClose"
      BY <1>5, IncrementAt DEF ServerUpEnd, Answer, UploadInv, AuthPcs
    <2> QED BY <1>5, <2>1 DEF ServerUpEnd, Answer, UploadInv, StreamInUpload, UploadPrefix
  <1>6. CASE ServerUpClose
    BY <1>6, Left DEF ServerUpClose
  <1> QED BY <1>1, <1>2, <1>3, <1>4, <1>5, <1>6, <1>7

\* The ends of the two programs, and other sessions.
LEMMA UploadEnds ==
    ASSUME TypeOK, UploadInv,
           ServerEof \/ ServerSigpipe \/ ServerExit \/ OtherSession
    PROVE  UploadInv'
  <1>1. CASE ServerEof
    BY <1>1, Left DEF ServerEof
  <1>2. CASE ServerSigpipe
    <2>1. CASE ServerLeave("done")
      BY <1>2, <2>1, Left DEF ServerSigpipe
    <2>2. CASE s_pc' = "crashed" /\ s_stream' = "closed" /\ s_buf' = FALSE
      BY <1>2, <2>2, Closed
      DEF ServerSigpipe, UploadInv, HandshakeOnce, ServerAt, AuthPcs
    <2> QED BY <1>2, <2>1, <2>2 DEF ServerSigpipe
  <1>3. CASE ServerExit
    BY <1>3, Closed DEF ServerExit, UploadInv, HandshakeOnce, ServerAt, AuthPcs
  <1>4. CASE OtherSession
    <2>1. PICK f \in Names, n \in Sizes :
            /\ store' = [store EXCEPT ![f] = n]
            /\ s_stream' = IF s_stream = "open" /\ f = s_file THEN "disturbed" ELSE s_stream
      BY <1>4 DEF OtherSession
    <2>2. HandshakeOnce' /\ ServerAt' = ServerAt
      BY <1>4 DEF OtherSession, UploadInv, HandshakeOnce, ServerAt, AuthPcs
    <2>3. UNCHANGED <<s_buf, s_i, s_file>>
      BY <1>4 DEF OtherSession, sOp
    <2>4. s_stream' # "closed" => s_stream # "closed"
      BY <2>1
    <2>5. s_stream' = "open" => s_stream = "open" /\ store'[s_file] = store[s_file]
      BY <2>1 DEF TypeOK, DisksOK, ServerOK
    <2> QED BY <2>2, <2>3, <2>4, <2>5 DEF UploadInv, StreamInUpload, UploadPrefix
  <1> QED BY <1>1, <1>2, <1>3, <1>4

\* The client reads the storage but never writes it.
LEMMA UploadClient ==
    ASSUME UploadInv, UserStep \/ ClientStep \/ ClientExit
    PROVE  UploadInv'
  <1>1. UNCHANGED <<server, store>>
    <2>1. CASE UserStep
      BY <2>1 DEF UserStep, ClientList, ClientDownload, ClientUpload, ClientRename,
                  ClientDelete, ClientLogout, Request, Refused
    <2>2. CASE ClientStep
      BY <2>2 DEF ClientStep, ClientAuthM1, ClientAuthM2, ClientAuthM3, ClientAuthM4,
                  ClientAuthM5, ClientListM2, ClientListM3, ClientDownM2, ClientDownOpen,
                  ClientDownMi, ClientDownWrite, ClientUpM2, ClientUpMi, ClientUpEnd,
                  ClientRenM2, ClientDelM2, ClientDelAsk, ClientDelM4, ClientOutM2,
                  ClientEof, ClientSigpipe
    <2>3. CASE ClientExit
      BY <2>3 DEF ClientExit
    <2> QED BY <2>1, <2>2, <2>3
  <1> QED BY <1>1
          DEF server, UploadInv, HandshakeOnce, StreamInUpload, UploadPrefix, ServerAt

\* The invariant holds at first, and no step falsifies it.
THEOREM UploadInit == Init => UploadInv
  BY DEF Init, UploadInv, HandshakeOnce, StreamInUpload, UploadPrefix, ServerAt, AuthPcs

\* No step of the program, of the faults or of another session breaks UploadInv.
THEOREM UploadStep == TypeOK /\ UploadInv /\ [Next]_vars => UploadInv'
  <1> SUFFICES ASSUME TypeOK, UploadInv, [Next]_vars PROVE UploadInv'
    OBVIOUS
  <1>1. CASE UserStep \/ ClientStep \/ ClientExit
    BY <1>1, UploadClient
  <1>2. CASE ServerStep
    BY <1>2, UploadAuth, UploadRun, UploadElsewhere, UploadUpload, UploadEnds DEF ServerStep
  <1>3. CASE ServerExit \/ OtherSession
    BY <1>3, UploadEnds
  <1>4. CASE UNCHANGED vars
    BY <1>4 DEF vars, server, UploadInv, HandshakeOnce, StreamInUpload, UploadPrefix, ServerAt
  <1> QED BY <1>1, <1>2, <1>3, <1>4 DEF Next

\* An interrupted upload leaves a prefix: for files of any size, any number of
\* re-authentications in the middle, and wherever a crash cuts it short, the file that an
\* upload has opened holds exactly the chunks received so far, until another session
\* removes, replaces or opens it too.
THEOREM UploadLeavesPrefix == Spec => []UploadPrefix
  <1>1. UploadInv => UploadPrefix
    BY DEF UploadInv
  <1> QED BY <1>1, TypeInit, TypeStep, UploadInit, UploadStep, PTL DEF Spec

=============================================================================

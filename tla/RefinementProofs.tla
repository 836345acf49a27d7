-------------------------- MODULE RefinementProofs --------------------------
(***************************************************************************)
(* Session implements CloudStorage, whatever the maximum of the counter,    *)
(* the names, the sizes and the users, and also if the server may crash: if *)
(* there is a directory, no other session changes it, and the client is not *)
(* killed, the user sees one atomic operation after the other.              *)
(*                                                                         *)
(* First the invariants at the end of SessionRefinement, then what each     *)
(* step of the two programs means for the store, for the operation in       *)
(* progress and for what has been decided about it.                         *)
(***************************************************************************)
EXTENDS SessionRefinement, OperationProofs

-----------------------------------------------------------------------------
(* The answers.                                                             *)

\* Nothing that is said, read or cut off makes a false answer of a true one.
LEMMA Saying ==
    ASSUME TypeOK, Truthful, user' = user, NEW m \in Message, Honest(m), ToClient(m)
    PROVE  Truthful'
  <1>1. s2c \in Seq(Message)
    BY Channels DEF TypeOK
  <1>2. CASE s2c' = s2c
    BY <1>2 DEF Truthful, Honest
  <1>3. CASE s2c' = Append(s2c, m)
    BY <1>1, <1>3, Adding DEF Truthful, Honest
  <1> QED BY <1>2, <1>3 DEF ToClient

LEMMA Reading ==
    ASSUME TypeOK, Truthful, user' = user, s2c # <<>>, s2c' = Tail(s2c)
    PROVE  Truthful'
  <1>1. s2c \in Seq(Message)
    BY Channels DEF TypeOK
  <1> QED BY <1>1, Taking DEF Truthful, Honest

\* No answer that ends an operation or a login is false.
LEMMA TruthfulStep ==
    ASSUME TypeOK, [Next]_vars, Truthful
    PROVE  Truthful'
  <1> USE HandlerTypes, BodyTypes, MsgTypes
  <1>1. ASSUME NEW type \in Types, NEW key \in Keys, NEW ctr \in 0..MaxCounter, NEW b \in Body,
               ToClient(Msg(type, key, ctr, b)), user' = user,
               type \in {"UpEnd", "DelM4"} => b.code = "ACK",
               type = "RenM2" => b.code # "NACK",
               type = "AuthM2" => b.code = IF user = "unreadable" THEN "NACK" ELSE "ACK",
               type = "AuthM5" => b.code = IF user = "mismatched" THEN "NACK" ELSE "ACK"
        PROVE  Truthful'
    <2>1. Honest(Msg(type, key, ctr, b))
      BY <1>1 DEF Honest, Msg
    <2> QED BY <1>1, <2>1, Saying
  <1>2. ASSUME NEW pc, NEW type, FromServer(pc, type), user' = user
        PROVE  Truthful'
    BY <1>2, Reading DEF FromServer
  <1>3. ASSUME UNCHANGED <<user, s2c>>
        PROVE  Truthful'
    BY <1>3 DEF Truthful, Honest
  <1>4. CASE UserStep
    BY <1>3, <1>4 DEF UserStep, ClientList, ClientDownload, ClientUpload, ClientRename,
       ClientDelete, ClientLogout, Request, Refused
  <1>5. CASE ClientStep
    <2>1. CASE ClientAuthM2 \/ ClientAuthM3 \/ ClientAuthM5 \/ ClientOutM2
      BY <1>2, <2>1 DEF ClientAuthM2, ClientAuthM3, ClientAuthM5, ClientOutM2
    <2>2. CASE \/ ClientListM2 \/ ClientListM3 \/ ClientDownM2 \/ ClientDownMi \/ ClientUpM2
               \/ ClientUpEnd \/ ClientRenM2 \/ ClientDelM2 \/ ClientDelM4
      BY <1>2, <2>2 DEF ClientListM2, ClientListM3, ClientDownM2, ClientDownMi, ClientUpM2,
         ClientUpEnd, ClientRenM2, ClientDelM2, ClientDelM4
    <2>3. CASE ~(\/ ClientAuthM2 \/ ClientAuthM3 \/ ClientAuthM5 \/ ClientOutM2
                 \/ ClientListM2 \/ ClientListM3 \/ ClientDownM2 \/ ClientDownMi \/ ClientUpM2
                 \/ ClientUpEnd \/ ClientRenM2 \/ ClientDelM2 \/ ClientDelM4)
      BY <1>3, <1>5, <2>3 DEF ClientStep, ClientAuthM1, ClientAuthM4, ClientDownOpen,
         ClientDownWrite, ClientUpMi, ClientDelAsk, ClientEof, ClientSigpipe
    <2> QED BY <2>1, <2>2, <2>3
  <1>6. CASE ServerStep
    <2>0. /\ {"AuthM2", "AuthM3", "AuthM5"} \subseteq Types /\ user' = user
          /\ s_key \in Keys /\ s_ctr \in 0..MaxCounter /\ s_i \in Nat
          /\ "NACK" \in Codes /\ "ACK" \in Codes
      BY <1>6, Apart DEF Types, TypeOK, ServerOK
    <2>1. CASE ServerAuthM2
      BY <1>1, <2>0, <2>1 DEF ServerAuthM2
    <2>2. CASE ServerAuthM3
      <3>1. s_eph' \in Nat /\ s_key' \in Keys
        BY <2>2, PoolAssumption DEF ServerAuthM3, TypeOK, ServerOK, Keys
      <3> QED BY <1>1, <2>0, <2>2, <3>1 DEF ServerAuthM3
    <2>3. CASE ServerAuthM5
      BY <1>1, <2>0, <2>3 DEF ServerAuthM5
    <2>4. CASE ServerOutM2
      BY <1>1, <2>0, <2>4 DEF ServerOutM2
    <2>5. ASSUME NEW pc, NEW type \in Types \ Handshake, NEW b \in Body, NEW next,
                 Answer(pc, type, b, next),
                 type \in {"UpEnd", "DelM4"} => b.code = "ACK",
                 type = "RenM2" => b.code # "NACK"
          PROVE  Truthful'
      BY <1>1, <2>0, <2>5 DEF Answer, Handshake
    <2>6. CASE ServerListM2 \/ ServerListM3
      BY <2>5, <2>6 DEF ServerListM2, ServerListM3
    <2>7. CASE ServerDownM2
      <3>1. CASE store[s_file] = Absent
        BY <2>5, <2>7, <3>1 DEF ServerDownM2
      <3>2. CASE store[s_file] # Absent
        <4>1. store[s_file] \in Nat
          BY <3>2 DEF TypeOK, DisksOK, ServerOK, Absent
        <4>2. [Code("DOWNLOAD_ACK") EXCEPT !.n = store[s_file]] \in Body
          BY <4>1 DEF Body
        <4> QED BY <2>5, <2>7, <3>2, <4>2 DEF ServerDownM2
      <3> QED BY <3>1, <3>2
    <2>8. CASE ServerDownMi
      BY <2>0, <2>5, <2>8 DEF ServerDownMi
    <2>9. CASE ServerUpM2 \/ ServerUpEnd
      BY <2>0, <2>5, <2>9 DEF ServerUpM2, ServerUpEnd
    <2>10. CASE ServerRenM2 \/ ServerDelM2 \/ ServerDelM4
      BY <2>0, <2>5, <2>10 DEF ServerRenM2, ServerDelM2, ServerDelM4
    <2>11. CASE \/ ServerUnknownUser \/ ServerAuthM1 \/ ServerAuthM4 \/ ServerRun
                \/ ServerListSilent \/ ServerUpLook \/ ServerUpCreate \/ ServerUpMi \/ ServerUpWrite
                \/ ServerUpClose \/ ServerDelM3 \/ ServerDelSilent \/ ServerEof
                \/ ServerSigpipe
      BY <1>3, <2>11 DEF ServerUnknownUser, ServerAuthM1, ServerAuthM4, ServerRun,
         ServerListSilent, ServerUpLook, ServerUpCreate, ServerUpMi, ServerUpWrite, ServerUpClose,
         ServerDelM3, ServerDelSilent, ServerEof, ServerSigpipe
    <2> QED BY <1>6, <2>1, <2>2, <2>3, <2>4, <2>6, <2>7, <2>8, <2>9, <2>10, <2>11
            DEF ServerStep
  <1>7. CASE ClientExit
    BY <1>7, EmptySeq DEF ClientExit, Truthful
  <1>8. CASE ServerExit
    <2>1. s2c \in Seq(Message) /\ s2c' \in Prefixes(s2c) /\ user' = user
      BY <1>8, Channels DEF ServerExit, TypeOK
    <2>2. Len(s2c') \in 0..Len(s2c) /\ \A k \in 1..Len(s2c') : s2c'[k] = s2c[k]
      BY <2>1, Cutting
    <2> QED BY <2>1, <2>2 DEF Truthful, Honest
  <1>9. CASE OtherSession \/ UNCHANGED vars
    BY <1>3, <1>9 DEF OtherSession, vars
  <1> QED BY <1>4, <1>5, <1>6, <1>7, <1>8, <1>9 DEF Next
-----------------------------------------------------------------------------
(* Users who are not registered.                                            *)

\* The steps of a client that is in the handshake, or gone.
LEMMA ClientInHandshake ==
    ASSUME UserStep \/ ClientStep, c_pc \in AuthPcs \cup Gone
    PROVE  \/ ClientAuthM1 \/ ClientAuthM2 \/ ClientAuthM3 \/ ClientAuthM4 \/ ClientAuthM5
           \/ ClientEof \/ ClientSigpipe
  <1>1. ~UserStep
    BY DEF UserStep, ClientList, ClientDownload, ClientUpload, ClientRename, ClientDelete,
       ClientLogout, Request, Refused, AuthPcs, Gone
  <1>2. ~(ClientListM2 \/ ClientListM3 \/ ClientDownM2 \/ ClientDownMi \/ ClientUpM2
          \/ ClientUpEnd \/ ClientRenM2 \/ ClientDelM2 \/ ClientDelM4 \/ ClientOutM2)
    BY DEF ClientListM2, ClientListM3, ClientDownM2, ClientDownMi, ClientUpM2, ClientUpEnd,
       ClientRenM2, ClientDelM2, ClientDelM4, ClientOutM2, FromServer, AuthPcs, Gone
  <1>3. ~(ClientDownOpen \/ ClientDownWrite \/ ClientUpMi \/ ClientDelAsk)
    BY DEF ClientDownOpen, ClientDownWrite, ClientUpMi, ClientDelAsk, AuthPcs, Gone
  <1> QED BY <1>1, <1>2, <1>3 DEF ClientStep

\* Those of a server thread.
LEMMA ServerInHandshake ==
    ASSUME ServerStep, s_pc \in AuthPcs \cup Gone
    PROVE  \/ ServerUnknownUser \/ ServerAuthM1 \/ ServerAuthM2 \/ ServerAuthM3
           \/ ServerAuthM4 \/ ServerAuthM5 \/ ServerEof \/ ServerSigpipe
  <1>1. ~(ServerListSilent \/ ServerListM2 \/ ServerListM3 \/ ServerDownM2 \/ ServerDownMi)
    BY DEF ServerListSilent, ServerListM2, ServerListM3, ServerDownM2, ServerDownMi, Answer,
       AuthPcs, Gone
  <1>2. ~(ServerUpM2 \/ ServerUpLook \/ ServerUpCreate \/ ServerUpMi \/ ServerUpWrite \/ ServerUpEnd
          \/ ServerUpClose)
    BY DEF ServerUpM2, ServerUpLook, ServerUpCreate, ServerUpMi, ServerUpWrite, ServerUpEnd,
       ServerUpClose,
       Answer, FromClient, AuthPcs, Gone
  <1>3. ~(ServerRun \/ ServerRenM2 \/ ServerDelM2 \/ ServerDelM3 \/ ServerDelSilent
          \/ ServerDelM4 \/ ServerOutM2)
    BY DEF ServerRun, ServerRenM2, ServerDelM2, ServerDelM3,
       ServerDelSilent, ServerDelM4, ServerOutM2, Answer, FromClient, AuthPcs, Gone
  <1> QED BY <1>1, <1>2, <1>3 DEF ServerStep

\* The login keeps out who is not registered, on both sides.
LEMMA KeptOutStep ==
    ASSUME TypeOK, TypeOK', DialogueInv, [Next]_vars, Truthful, KeptOut
    PROVE  KeptOut'
  <1> SUFFICES ASSUME user # "registered"
               PROVE  KeptOut'
    <2>1. user' = user
      BY Apart DEF Next, vars, ClientExit, ServerExit, OtherSession
    <2> QED BY <2>1 DEF KeptOut
  <1>1. user' = user
    BY Apart DEF Next, vars, ClientExit, ServerExit, OtherSession
  <1>2. /\ c_pc \in Gone \/ (c_pc \in AuthPcs /\ c_ret = "menu")
        /\ s_pc \in Gone \/ (s_pc \in AuthPcs /\ s_ret = "run")
        /\ c_pc \in AuthPcs \cup Gone /\ s_pc \in AuthPcs \cup Gone
    BY DEF KeptOut
  <1>3. ASSUME user # "mismatched"
        PROVE  /\ c_pc \in {"auth", "authM2"} \cup Gone
               /\ s_pc \in {"authM1", "authM2"} \cup Gone
               /\ s_pc = "authM2" => user = "unreadable"
               /\ \A k \in 1..Len(s2c) : s2c[k].type = "AuthM2" /\ s2c[k].body.code = "NACK"
    BY <1>3 DEF KeptOut
  <1>4. s2c \in Seq(Message)
    BY Channels DEF TypeOK
  <1>5. s2c # <<>> => Head(s2c) = s2c[1] /\ Len(s2c) \in Nat \ {0}
    BY <1>4, Taking
  <1> DEFINE Nacks(q) == \A k \in 1..Len(q) : q[k].type = "AuthM2" /\ q[k].body.code = "NACK"
  <1>6. CASE UserStep \/ ClientStep
    <2>0. UNCHANGED <<server, user>> /\ s_pc' = s_pc /\ s_ret' = s_ret
      BY <1>6, Apart DEF server
    <2>1. ASSUME user # "mismatched"
          PROVE  Nacks(s2c)'
      <3>1. s2c' = s2c \/ (s2c # <<>> /\ s2c' = Tail(s2c))
        BY <1>2, <1>6, ClientInHandshake DEF ClientAuthM1, ClientAuthM2, ClientAuthM3,
           ClientAuthM4, ClientAuthM5, ClientEof, ClientSigpipe, FromServer
      <3>2. CASE s2c # <<>> /\ s2c' = Tail(s2c)
        <4>1. Len(s2c') = Len(s2c) - 1 /\ \A k \in 1 .. Len(s2c) - 1 : s2c'[k] = s2c[k + 1]
          BY <1>4, <3>2, Taking
        <4>2. ASSUME NEW k \in 1 .. Len(s2c')
              PROVE  s2c'[k].type = "AuthM2" /\ s2c'[k].body.code = "NACK"
          <5>1. k + 1 \in 1 .. Len(s2c) /\ s2c'[k] = s2c[k + 1]
            BY <1>5, <3>2, <4>1
          <5> QED BY <1>3, <2>1, <5>1
        <4> QED BY <4>2
      <3>3. CASE s2c' = s2c
        BY <1>3, <2>1, <3>3
      <3> QED BY <3>1, <3>2, <3>3
    <2>2. ASSUME c_pc' \in Gone \/ (c_pc' \in AuthPcs /\ c_ret' = "menu"),
                 user # "mismatched" => c_pc' \in {"auth", "authM2"} \cup Gone
          PROVE  KeptOut'
      BY <1>1, <1>2, <1>3, <2>0, <2>1, <2>2 DEF KeptOut
    <2>3. CASE ClientAuthM1
      BY <1>2, <2>2, <2>3 DEF ClientAuthM1, AuthPcs, Gone
    <2>4. CASE ClientAuthM2
      <3>1. /\ c_pc = "authM2" /\ s2c # <<>> /\ c_ret' = c_ret
            /\ c_pc' = IF Head(s2c).body.code = "ACK" THEN "authM3" ELSE "left"
        BY <2>4 DEF ClientAuthM2, FromServer
      <3>2. user # "mismatched" => c_pc' = "left"
        BY <1>3, <1>5, <3>1
      <3> QED BY <1>2, <2>2, <3>1, <3>2 DEF AuthPcs, Gone
    <2>5. CASE ClientAuthM3
      <3>1. c_pc = "authM3" /\ c_pc' \in {"authM4", "left"} /\ c_ret' = c_ret
        BY <2>5 DEF ClientAuthM3, FromServer
      <3> QED BY <1>2, <1>3, <2>2, <3>1 DEF AuthPcs, Gone
    <2>6. CASE ClientAuthM4
      <3>1. c_pc = "authM4" /\ ClientIncrement("authM5")
        BY <2>6 DEF ClientAuthM4
      <3>2. c_ctr = 1
        BY <3>1 DEF DialogueInv, KeysAndCounters, ClientHere, ClientNumbers, Gone
      <3>3. c_pc' = "authM5" /\ c_ret' = c_ret
        BY <3>1, <3>2, CounterAssumption DEF ClientIncrement
      <3> QED BY <1>2, <1>3, <2>2, <3>1, <3>3 DEF AuthPcs, Gone
    <2>7. CASE ClientAuthM5
      <3>1. c_pc = "authM5" /\ s2c # <<>> /\ Head(s2c).type = "AuthM5"
        BY <2>7 DEF ClientAuthM5, FromServer
      <3>2. user = "mismatched"
        BY <1>3, <3>1 DEF Gone
      <3>3. Head(s2c).body.code = "NACK"
        BY <1>5, <3>1, <3>2 DEF Truthful, Honest
      <3>4. c_pc' \in Gone
        BY <2>7, <3>3 DEF ClientAuthM5, Gone
      <3> QED BY <2>2, <3>2, <3>4
    <2>8. CASE ClientEof
      <3>1. c_pc \in ClientReceives /\ c_pc \in AuthPcs
        BY <1>2, <2>8 DEF ClientEof, ClientReceives, Gone
      <3>2. c_pc' = "left"
        BY <2>8, <3>1 DEF ClientEof
      <3> QED BY <2>2, <3>2 DEF Gone
    <2>9. CASE ClientSigpipe
      <3>1. c_pc' \in Gone
        BY <2>9 DEF ClientSigpipe, Gone
      <3> QED BY <2>2, <3>1
    <2> QED BY <1>2, <1>6, <2>3, <2>4, <2>5, <2>6, <2>7, <2>8, <2>9, ClientInHandshake
  <1>7. CASE ServerStep
    <2>0. UNCHANGED <<client, user>> /\ c_pc' = c_pc /\ c_ret' = c_ret
      BY <1>7, Apart DEF client
    <2>1. ASSUME s_pc' \in Gone \/ (s_pc' \in AuthPcs /\ s_ret' = "run"),
                 user # "mismatched" =>
                   /\ s_pc' \in {"authM1", "authM2"} \cup Gone
                   /\ s_pc' = "authM2" => user = "unreadable"
                   /\ Nacks(s2c)'
          PROVE  KeptOut'
      BY <1>1, <1>2, <1>3, <2>0, <2>1 DEF KeptOut
    <2>2. CASE ServerUnknownUser
      BY <1>3, <2>1, <2>2 DEF ServerUnknownUser, ServerLeave, Gone
    <2>3. CASE ServerAuthM1
      <3>1. /\ s_pc = "authM1" /\ s_pc' = "authM2" /\ user # "unknown" /\ s2c' = s2c
            /\ s_ret' = s_ret
        BY <2>3 DEF ServerAuthM1, FromClient
      <3>2. user # "mismatched" => user = "unreadable"
        BY <3>1, UsersAssumption DEF TypeOK, Kinds
      <3> QED BY <1>2, <1>3, <2>1, <3>1, <3>2 DEF AuthPcs, Gone
    <2>4. CASE ServerAuthM2
      <3>1. CASE user = "unreadable"
        <4> DEFINE m == Msg("AuthM2", NoKey, 0, Code("NACK"))
        <4>1. ToClient(m) /\ s_pc' = "done"
          BY <2>4, <3>1 DEF ServerAuthM2, ServerLeave
        <4>2. m \in Message /\ m.type = "AuthM2" /\ m.body.code = "NACK"
          <5>1. "AuthM2" \in Types /\ "NACK" \in Codes
            BY DEF Types, Codes
          <5> QED BY <5>1, BodyTypes, MsgTypes, HandlerTypes DEF Msg
        <4>3. s2c' = s2c \/ s2c' = Append(s2c, m)
          BY <4>1 DEF ToClient
        <4> HIDE DEF m
        <4>4. Nacks(s2c)'
          BY <1>3, <1>4, <3>1, <4>2, <4>3, Adding
        <4> QED BY <2>1, <4>1, <4>4 DEF Gone
      <3>2. CASE user # "unreadable"
        <4>1. s_pc = "authM2" /\ s_pc' = "authM3" /\ s_ret' = s_ret
          BY <2>4, <3>2 DEF ServerAuthM2
        <4> QED BY <1>2, <1>3, <2>1, <3>2, <4>1 DEF AuthPcs, Gone
      <3> QED BY <3>1, <3>2
    <2>5. CASE ServerAuthM3
      <3>1. s_pc = "authM3" /\ s_pc' = "authM4" /\ s_ret' = s_ret
        BY <2>5 DEF ServerAuthM3
      <3> QED BY <1>2, <1>3, <2>1, <3>1 DEF AuthPcs, Gone
    <2>6. CASE ServerAuthM4
      <3>1. s_pc = "authM4"
        BY <2>6 DEF ServerAuthM4, FromClient
      <3>2. s_ctr = 1
        BY <3>1 DEF DialogueInv, KeysAndCounters, ServerHere, ServerNumbers, Gone
      <3>3. s_pc' = "done" \/ (s_pc' = "authM5" /\ s_ret' = s_ret)
        BY <2>6, <3>2, CounterAssumption DEF ServerAuthM4, ServerIncrement, ServerLeave
      <3> QED BY <1>2, <1>3, <2>1, <3>1, <3>3 DEF AuthPcs, Gone
    <2>7. CASE ServerAuthM5
      <3>1. s_pc = "authM5"
        BY <2>7 DEF ServerAuthM5
      <3>2. user = "mismatched"
        BY <1>3, <3>1 DEF Gone
      <3>3. s_pc' = "done"
        BY <2>7, <3>2 DEF ServerAuthM5, ServerLeave
      <3> QED BY <2>1, <3>2, <3>3 DEF Gone
    <2>8. CASE ServerEof
      <3>1. /\ s_pc \in ServerReceives /\ s2c' = s2c
            /\ s_pc' = IF s_pc \in {"upMi", "delM3"} THEN "run" ELSE "done"
        BY <2>8 DEF ServerEof, ServerLeave
      <3>2. s_pc' = "done"
        BY <1>2, <3>1 DEF AuthPcs, Gone
      <3> QED BY <1>3, <2>1, <3>1, <3>2 DEF Gone
    <2>9. CASE ServerSigpipe
      <3>1. s_pc' \in {"done", "crashed"} /\ s2c' = s2c
        BY <2>9 DEF ServerSigpipe, ServerLeave
      <3> QED BY <1>3, <2>1, <3>1 DEF Gone
    <2> QED BY <1>2, <1>7, <2>2, <2>3, <2>4, <2>5, <2>6, <2>7, <2>8, <2>9, ServerInHandshake
  <1>8. CASE ClientExit
    <2>1. /\ c_pc' = "exit" /\ s2c' = <<>> /\ UNCHANGED server
      BY <1>8 DEF ClientExit
    <2>2. Len(s2c') = 0
      BY <2>1, EmptySeq
    <2> QED BY <1>1, <1>2, <1>3, <2>1, <2>2 DEF KeptOut, Gone, server
  <1>9. CASE ServerExit
    <2>1. s_pc' = "crashed" /\ s2c' \in Prefixes(s2c) /\ UNCHANGED client
      BY <1>9 DEF ServerExit
    <2>2. Len(s2c') \in 0..Len(s2c) /\ \A k \in 1..Len(s2c') : s2c'[k] = s2c[k]
      BY <1>4, <2>1, Cutting
    <2>3. user # "mismatched" => Nacks(s2c)'
      BY <1>3, <1>5, <2>2, EmptySeq
    <2> QED BY <1>1, <1>2, <1>3, <2>1, <2>3 DEF KeptOut, Gone, client
  <1>10. CASE OtherSession \/ UNCHANGED vars
    BY <1>1, <1>2, <1>3, <1>10 DEF OtherSession, vars, client, server, KeptOut
  <1> QED BY <1>6, <1>7, <1>8, <1>9, <1>10 DEF Next


-----------------------------------------------------------------------------
(* The local files, the file of an upload, and the end of the client.       *)

\* Only the user picks an operation.
LEMMA OnlyUserPicks ==
    ASSUME TypeOK, TypeOK', DialogueInv, ClientStep, ClientHere'
    PROVE  ~Picks
  <1> SUFFICES ASSUME ClientAt = "menu", ClientAt' \in FirstWaits
               PROVE  FALSE
    BY DEF Picks
  <1>1. CASE c_pc \in AuthPcs
    <2>1. ~(ClientEof \/ ClientSigpipe)
      BY <1>1 DEF ClientEof, ClientSigpipe, ClientHere, Gone
    <2>2. ClientAuthM1 \/ ClientAuthM2 \/ ClientAuthM3 \/ ClientAuthM4 \/ ClientAuthM5
      BY <1>1, <2>1, ClientInHandshake
    <2>3. StaysInOperation
      BY <2>2, HandshakeAsked, HandshakeAnswered, HandshakeSigned, HandshakeDone
    <2> QED BY <2>3 DEF StaysInOperation, FirstWaits
  <1>2. CASE c_pc \notin AuthPcs
    <2>1. c_pc = "menu"
      BY <1>2 DEF ClientAt
    <2> QED BY <2>1 DEF ClientStep, ClientAuthM1, ClientAuthM2, ClientAuthM3, ClientAuthM4,
            ClientAuthM5, ClientListM2, ClientListM3, ClientDownM2, ClientDownOpen,
            ClientDownMi, ClientDownWrite, ClientUpM2, ClientUpMi, ClientUpEnd, ClientRenM2,
            ClientDelM2, ClientDelAsk, ClientDelM4, ClientOutM2, ClientEof, ClientSigpipe,
            FromServer, ClientReceives, ClientHere, Gone
  <1> QED BY <1>1, <1>2

\* A request leads to the first place of its operation.
LEMMA Requested ==
    ASSUME NEW type, NEW b, NEW next \in FirstWaits, Request(type, b, next)
    PROVE  c_pc = "menu" /\ ClientAt = "menu" /\ ClientAt' = next
  BY DEF Request, ClientIncrement, ClientAt, AuthPcs, FirstWaits

\* The client keeps the file that it sends, and has none of that which it asks for.
LEMMA LocalKnownStep ==
    ASSUME TypeOK, TypeOK', DialogueInv, [Next]_vars, LocalKnown
    PROVE  LocalKnown'
  <1> SUFFICES ASSUME ClientHere'
               PROVE  LocalKnown'
    BY DEF LocalKnown
  <1>1. ClientHere /\ \/ ClientTurn
                      \/ UNCHANGED <<ClientAt, c_pc, c_file, c_size, c_i, c_res, local, user>>
    BY ClientTurns
  <1>2. CASE UserStep
    <2>1. FirstWaits = {"listM2", "downM2", "upM2", "renM2", "delM2", "outM2"}
      BY DEF FirstWaits
    <2>2. ASSUME NEW res, Refused(res)
          PROVE  LocalKnown'
      BY <1>1, <2>2 DEF Refused, LocalKnown, ClientAt, cOp
    <2>3. CASE ClientList \/ ClientRename \/ ClientLogout
      BY <2>1, <2>3, Requested DEF ClientList, ClientRename, ClientLogout, LocalKnown
    <2>4. CASE ClientDownload
      <3>1. PICK f \in Names : \/ Refused("FILE_ALREADY_EXISTS")
                               \/ /\ local[f] = Absent /\ Request("DownM1", File(f), "downM2")
                                  /\ c_file' = f
        BY <2>4 DEF ClientDownload, About
      <3> QED BY <2>1, <2>2, <3>1, Requested DEF LocalKnown, Request
    <2>5. CASE ClientUpload
      <3>1. PICK f \in Names, res \in {"FILE_NOT_FOUND", "WRONG_FILE_SIZE"} :
              \/ Refused(res)
              \/ /\ Request("UpM1", [File(f) EXCEPT !.n = local[f]], "upM2")
                 /\ c_file' = f /\ c_size' = local[f]
        BY <2>5 DEF ClientUpload
      <3> QED BY <2>1, <2>2, <3>1, Requested DEF LocalKnown, Request
    <2>6. CASE ClientDelete
      BY <2>1, <2>2, <2>6, Requested DEF ClientDelete, LocalKnown
    <2> QED BY <1>2, <2>3, <2>4, <2>5, <2>6 DEF UserStep
  <1>3. CASE ClientStep
    <2>1. ClientMoves /\ ~Picks
      BY <1>3, ClientOperation, OnlyUserPicks
    <2>2. CASE Stays
      BY <1>1, <2>2 DEF Stays, StaysInOperation, LocalKnown
    <2>3. CASE TakesAnswer
      BY <1>1, <2>3 DEF TakesAnswer, LocalKnown
    <2>4. CASE Writes \/ SendsChunk \/ Decides \/ GivesUp
      BY <1>1, <2>4 DEF Writes, SendsChunk, Decides, GivesUp, LocalKnown
    <2> QED BY <2>1, <2>2, <2>3, <2>4 DEF ClientMoves
  <1>4. CASE ~(UserStep \/ ClientStep)
    <2>1. UNCHANGED <<client, local>>
      <3>1. ~ClientExit
        BY DEF ClientExit, ClientHere, Gone
      <3> QED BY <1>4, <3>1, Apart DEF Next, vars, ServerExit, OtherSession
    <2> QED BY <1>1, <2>1 DEF LocalKnown, client, ClientAt
  <1> QED BY <1>2, <1>3, <1>4

\* While an upload has its file open nothing takes the name away.
LEMMA NamedStep ==
    ASSUME ~OtherSessions, TypeOK, TypeOK', DialogueInv, UploadInv, [Next]_vars, Named
    PROVE  Named'
  <1> SUFFICES ASSUME s_stream' = "open"
               PROVE  store'[s_file'] # Absent
    BY DEF Named
  <1>1. ServerAt' \in {"upMi", "upWrite", "upEnd", "upClose"}
    BY UploadStep DEF UploadInv, StreamInUpload
  <1>2. ServerHere'
    BY <1>1 DEF ServerHere, ServerAt, AuthPcs, Gone
  <1>3. ServerHere /\ (\/ ServerTurn
                       \/ UNCHANGED <<ServerAt, s_file, store, s_stream>>)
    BY <1>2, ServerTurns
  <1>4. s_stream = "open" => ServerAt \in {"upMi", "upWrite", "upEnd", "upClose"}
    BY DEF UploadInv, StreamInUpload
  <1>5. store \in [Names -> Nat \cup {Absent}] /\ s_file \in Names /\ Absent = -1
    BY DEF TypeOK, DisksOK, ServerOK, Absent
  <1>6. CASE ServerTurn
    <2>1. CASE KeepsServing \/ StaysSilent \/ TakesFurther \/ LogsOut
      BY <2>1 DEF KeepsServing, StaysSilent, TakesFurther, LogsOut, Named
    <2>2. CASE TakesRequest
      BY <1>1, <2>2 DEF TakesRequest, FirstWaits
    <2>3. CASE Answers
      BY <1>1, <2>3 DEF Answers, Named
    <2>4. CASE StoresFile
      <3>1. CASE ServerAt = "upLook"
        BY <1>4, <2>4, <3>1 DEF StoresFile
      <3>3. CASE ServerAt = "upCreate"
        <4>1. store' = [store EXCEPT ![s_file] = 0] /\ s_file' = s_file
          BY <1>4, <2>4, <3>3 DEF StoresFile
        <4> QED BY <1>5, <4>1
      <3>2. CASE ServerAt = "upWrite"
        <4>1. /\ s_stream = "open" /\ s_file' = s_file
              /\ store' \in {store, [store EXCEPT ![s_file] = @ + 1]}
          BY <2>4, <3>2 DEF StoresFile
        <4>2. store[s_file] \in Nat
          BY <1>5, <4>1 DEF Named
        <4> QED BY <1>5, <4>1, <4>2
      <3> QED BY <1>1, <2>4, <3>1, <3>2, <3>3 DEF StoresFile
    <2>5. CASE BreaksOff
      BY <1>1, <2>5 DEF BreaksOff, ServerAt, AuthPcs
    <2> QED BY <1>6, <2>1, <2>2, <2>3, <2>4, <2>5 DEF ServerTurn, ServerMoves
  <1>7. CASE UNCHANGED <<ServerAt, s_file, store, s_stream>>
    BY <1>7 DEF Named
  <1> QED BY <1>3, <1>6, <1>7

\* The server thread sends nothing to a client that has left.
LEMMA SilentAfterwards ==
    ASSUME DialogueInv, ServerStep, c_pc \in {"left", "exit"}
    PROVE  s2c' = s2c
  <1>1. CASE c_pc = "left"
    <2>1. ServerHere
      BY <1>1 DEF ServerStep, ServerHere, Gone, ServerReceives, ServerSends,
         ServerUnknownUser, ServerAuthM1, ServerAuthM2, ServerAuthM3, ServerAuthM4,
         ServerAuthM5, ServerRun, ServerListSilent, ServerListM2, ServerListM3, ServerDownM2,
         ServerDownMi, ServerUpM2, ServerUpLook, ServerUpCreate, ServerUpMi, ServerUpWrite,
         ServerUpEnd, ServerUpClose, ServerRenM2, ServerDelM2, ServerDelM3,
         ServerDelSilent, ServerDelM4, ServerOutM2, ServerEof, ServerSigpipe, Answer, FromClient
    <2>2. s_pc = "run" /\ c2s = <<>>
      BY <1>1, <2>1 DEF DialogueInv, KeysAndCounters
    <2> QED BY <1>1, <2>2 DEF ServerStep, ServerUnknownUser, ServerAuthM1, ServerAuthM2,
            ServerAuthM3, ServerAuthM4, ServerAuthM5, ServerRun, ServerListSilent,
            ServerListM2, ServerListM3, ServerDownM2, ServerDownMi, ServerUpM2, ServerUpLook,
            ServerUpCreate,
            ServerUpMi, ServerUpWrite, ServerUpEnd, ServerUpClose, ServerRenM2, ServerDelM2,
            ServerDelM3, ServerDelSilent, ServerDelM4, ServerOutM2, ServerEof, ServerSigpipe,
            Answer, FromClient
  <1>2. CASE c_pc = "exit"
    <2>1. \A m : ToClient(m) => s2c' = s2c
      BY <1>2 DEF ToClient
    <2>2. \A pc, type, b, next : Answer(pc, type, b, next) => s2c' = s2c
      BY <2>1 DEF Answer
    <2>3. CASE \/ ServerUnknownUser \/ ServerAuthM1 \/ ServerAuthM2 \/ ServerAuthM3
               \/ ServerAuthM4 \/ ServerAuthM5 \/ ServerOutM2
      BY <2>1, <2>3 DEF ServerUnknownUser, ServerAuthM1, ServerAuthM2, ServerAuthM3,
         ServerAuthM4, ServerAuthM5, ServerOutM2
    <2>4. CASE \/ ServerListM2 \/ ServerListM3 \/ ServerDownM2 \/ ServerDownMi \/ ServerUpM2
               \/ ServerUpEnd \/ ServerRenM2 \/ ServerDelM2 \/ ServerDelM4
      BY <2>2, <2>4 DEF ServerListM2, ServerListM3, ServerDownM2, ServerDownMi, ServerUpM2,
         ServerUpEnd, ServerRenM2, ServerDelM2, ServerDelM4
    <2>5. CASE \/ ServerRun \/ ServerListSilent \/ ServerUpLook \/ ServerUpCreate \/ ServerUpMi
               \/ ServerUpWrite \/ ServerUpClose \/ ServerDelM3 \/ ServerDelSilent
               \/ ServerEof \/ ServerSigpipe
      BY <2>5 DEF ServerRun, ServerListSilent, ServerUpLook, ServerUpCreate, ServerUpMi,
         ServerUpWrite,
         ServerUpClose, ServerDelM3, ServerDelSilent, ServerEof, ServerSigpipe
    <2> QED BY <2>3, <2>4, <2>5 DEF ServerStep
  <1> QED BY <1>1, <1>2

\* A client does not leave before it has read what was sent to it.
LEMMA AllReadStep ==
    ASSUME TypeOK, TypeOK', DialogueInv, [Next]_vars, AllRead
    PROVE  AllRead'
  <1> SUFFICES ASSUME c_pc' \in {"left", "exit"}
               PROVE  s2c' = <<>>
    BY DEF AllRead
  <1>0. /\ s2c \in Seq(Message) /\ Len(s2c) \in Nat /\ (s2c = <<>> <=> Len(s2c) = 0)
        /\ s2c' \in Seq(Message) /\ Len(s2c') \in Nat /\ (s2c' = <<>> <=> Len(s2c') = 0)
    BY EmptySeq, LenProperties DEF TypeOK, ChannelsOK
  <1>1. ASSUME s2c # <<>>, s2c' = Tail(s2c), Len(s2c) <= 1
        PROVE  s2c' = <<>>
    <2>1. Len(s2c') = Len(s2c) - 1
      BY <1>0, <1>1, Taking
    <2> QED BY <1>0, <1>1, <2>1
  <1>2. CASE UserStep \/ ClientStep
    <2>1. ClientHere
      BY <1>2, <1>0 DEF UserStep, ClientList, ClientDownload, ClientUpload, ClientRename, ClientDelete,
         ClientLogout, Request, Refused, ClientStep, ClientAuthM1, ClientAuthM2, ClientAuthM3,
         ClientAuthM4, ClientAuthM5, ClientListM2, ClientListM3, ClientDownM2, ClientDownOpen,
         ClientDownMi, ClientDownWrite, ClientUpM2, ClientUpMi, ClientUpEnd, ClientRenM2,
         ClientDelM2, ClientDelAsk, ClientDelM4, ClientOutM2, ClientEof, ClientSigpipe,
         FromServer, ClientReceives, ClientSends, ClientHere, Gone
    <2>2. ClientNumbers /\ ClientTakes
      BY <2>1 DEF DialogueInv, KeysAndCounters, Operations
    <2>3. \A next \in FirstWaits \cup {"listM3", "downOpen", "downWrite", "upMi", "upEnd",
                       "delAsk", "delM4", "menu", "authM5"} : ~ClientIncrement(next)
      BY DEF ClientIncrement, FirstWaits
    <2>4. \A res : ~ClientReturn(res)
      BY DEF ClientReturn
    <2>5. \A next \in {"menu", "listM3", "downOpen", "downWrite", "upMi", "delAsk"} :
            \A res : ~Reply(next, res)
      BY <2>3, <2>4 DEF Reply
    <2>6. FirstWaits = {"listM2", "downM2", "upM2", "renM2", "delM2", "outM2"}
      BY DEF FirstWaits
    <2>7. ~UserStep
      <3>1. \A next \in FirstWaits : \A type, b : ~Request(type, b, next)
        BY <2>3 DEF Request
      <3>2. \A res : ~Refused(res)
        BY DEF Refused
      <3>3. ~(ClientList \/ ClientLogout)
        BY <2>6, <3>1 DEF ClientList, ClientLogout
      <3>4. ~(ClientDownload \/ ClientUpload)
        BY <2>6, <3>1, <3>2 DEF ClientDownload, ClientUpload
      <3>5. ~(ClientRename \/ ClientDelete)
        BY <2>6, <3>1, <3>2 DEF ClientRename, ClientDelete
      <3> QED BY <3>3, <3>4, <3>5 DEF UserStep
    <2>8. ~(\/ ClientListM2 \/ ClientListM3 \/ ClientDownM2 \/ ClientDownMi \/ ClientUpM2
            \/ ClientUpEnd \/ ClientRenM2 \/ ClientDelM2 \/ ClientDelM4)
      BY <2>5 DEF ClientListM2, ClientListM3, ClientDownM2, ClientDownMi, ClientUpM2,
         ClientUpEnd, ClientRenM2, ClientDelM2, ClientDelM4
    <2>9. ~(\/ ClientAuthM1 \/ ClientAuthM4 \/ ClientDownOpen \/ ClientDownWrite
            \/ ClientUpMi \/ ClientDelAsk)
      BY <2>3, <2>4 DEF ClientAuthM1, ClientAuthM4, ClientDownOpen, ClientDownWrite,
         ClientUpMi, ClientDelAsk
    <2>10. CASE ClientAuthM2
      <3>1. /\ c_pc = "authM2" /\ s2c # <<>> /\ s2c' = Tail(s2c)
            /\ Head(s2c).body.code # "ACK"
        BY <2>10 DEF ClientAuthM2, FromServer
      <3>2. Head(s2c) = s2c[1]
        BY <1>0, <3>1, Taking
      <3>3. Len(s2c) <= 2 /\ (Len(s2c) = 2 => s2c[1].body.code = "ACK")
        BY <2>2, <3>1 DEF ClientNumbers
      <3>4. Len(s2c) \in Nat /\ Len(s2c) # 2
        BY <1>0, <3>1, <3>2, <3>3
      <3>5. Len(s2c) <= 1
        <4>1. \A n \in Nat : n <= 2 /\ n # 2 => n <= 1
          OBVIOUS
        <4> QED BY <3>3, <3>4, <4>1
      <3> QED BY <1>1, <3>1, <3>5
    <2>11. CASE ClientAuthM3
      <3>1. c_pc = "authM3" /\ s2c # <<>> /\ s2c' = Tail(s2c)
        BY <2>11 DEF ClientAuthM3, FromServer
      <3> QED BY <1>0, <1>1, <2>2, <3>1 DEF ClientNumbers
    <2>12. CASE ClientAuthM5
      <3>1. c_pc = "authM5" /\ s2c # <<>> /\ s2c' = Tail(s2c)
        BY <2>12 DEF ClientAuthM5, FromServer
      <3>2. Head(s2c) = s2c[1]
        BY <1>0, <3>1, Taking
      <3>3. s2c[1].body.code # "ACK"
        <4>1. Verdict(s2c[1], c_key, c_ctr) = "SUCCESS"
          BY <2>2, <3>1 DEF ClientNumbers
        <4>2. SUFFICES ASSUME s2c[1].body.code = "ACK" PROVE FALSE
          OBVIOUS
        <4>3. c_pc' = c_ret
          BY <2>12, <3>2, <4>1, <4>2 DEF ClientAuthM5
        <4>4. ClientAt = c_ret
          BY <3>1 DEF ClientAt, AuthPcs
        <4> QED BY <2>2, <4>3, <4>4 DEF ClientTakes, Downloading, SingleWaits
      <3> QED BY <1>0, <1>1, <2>2, <3>1, <3>3 DEF ClientNumbers
    <2>13. CASE ClientOutM2
      <3>1. c_pc = "outM2" /\ s2c # <<>> /\ s2c' = Tail(s2c)
        BY <2>13 DEF ClientOutM2, FromServer
      <3>2. ClientAt = "outM2" /\ Answered = s2c
        BY <2>2, <3>1, ClientReads DEF ClientAt, AuthPcs
      <3> QED BY <1>0, <1>1, <2>2, <3>1, <3>2 DEF ClientTakes, SingleWaits
    <2>14. CASE ClientEof
      BY <2>14 DEF ClientEof
    <2>15. CASE ClientSigpipe
      <3>1. c_pc \in {"auth", "authM4", "menu", "upMi", "delAsk"} /\ s2c' = s2c
        BY <2>15 DEF ClientSigpipe, ClientSends
      <3>2. CASE c_pc \in {"auth", "authM4"}
        BY <2>2, <3>1, <3>2 DEF ClientNumbers
      <3>3. CASE c_pc \in {"menu", "upMi", "delAsk"}
        <4>1. ClientAt = c_pc /\ Answered = s2c
          BY <2>2, <3>3, ClientReads DEF ClientAt, AuthPcs
        <4> QED BY <1>0, <2>2, <3>1, <3>3, <4>1 DEF ClientTakes
      <3> QED BY <3>1, <3>2, <3>3
    <2> QED BY <1>2, <2>7, <2>8, <2>9, <2>10, <2>11, <2>12, <2>13, <2>14, <2>15
            DEF ClientStep
  <1>3. CASE ServerStep
    <2>1. c_pc' = c_pc
      BY <1>3, Apart DEF client
    <2> QED BY <1>3, <2>1, SilentAfterwards DEF AllRead
  <1>4. CASE ClientExit
    BY <1>4 DEF ClientExit
  <1>5. CASE ServerExit
    <2>1. c_pc' = c_pc /\ s2c' \in Prefixes(s2c)
      BY <1>5 DEF ServerExit, client
    <2>2. Len(s2c') \in 0 .. Len(s2c)
      BY <1>0, <2>1, Cutting
    <2> QED BY <1>0, <2>1, <2>2 DEF AllRead
  <1>6. CASE OtherSession \/ UNCHANGED vars
    BY <1>6 DEF OtherSession, vars, client, AllRead
  <1> QED BY <1>2, <1>3, <1>4, <1>5, <1>6 DEF Next

-----------------------------------------------------------------------------
(* All of it.                                                               *)

\* One session by itself, in a storage that is there.
Alone == HasDirectory /\ ~OtherSessions /\ ~ClientMayExit

\* What is known in every state of it.
Known ==
    /\ TypeOK /\ DialogueInv /\ UploadInv /\ Busy
    /\ SameFile /\ Dismissed /\ LeftInOrder /\ Opened /\ Downloaded
    /\ Truthful /\ KeptOut /\ LocalKnown /\ Named /\ AllRead

\* The codes under way from the handlers and from authenticationRequest say what the server
\* has found, whatever process ends in between.
THEOREM TruthfulKept == Spec => []Truthful
  <1>1. Init => Truthful
    BY EmptySeq DEF Init, Truthful
  <1>2. TypeOK /\ [Next]_vars /\ Truthful => Truthful'
    BY TruthfulStep
  <1> QED BY <1>1, <1>2, TypeCorrect, PTL DEF Spec

\* A user whose keys do not fit never gets past authenticationRequest, on either side, and
\* one whose key cannot be read gets no answer but the NACK.
THEOREM KeptOutKept == Spec => []KeptOut
  <1>1. Init => KeptOut
    BY EmptySeq DEF Init, KeptOut, AuthPcs, Gone
  <1>2. TypeOK /\ TypeOK' /\ DialogueInv /\ [Next]_vars /\ Truthful /\ KeptOut => KeptOut'
    BY KeptOutStep
  <1> QED BY <1>1, <1>2, TypeCorrect, DialogueKept, TruthfulKept, PTL DEF Spec

\* uploadRequest sends the size of the local file it has opened, and downloadRequest asks only
\* for a file that is not there.
THEOREM LocalKnownKept == Spec => []LocalKnown
  <1>1. Init => LocalKnown
    BY DEF Init, LocalKnown, ClientAt, AuthPcs
  <1>2. TypeOK /\ TypeOK' /\ DialogueInv /\ [Next]_vars /\ LocalKnown => LocalKnown'
    BY LocalKnownStep
  <1> QED BY <1>1, <1>2, TypeCorrect, DialogueKept, PTL DEF Spec

\* A client that has left, or was killed, has nothing on its way to it.
THEOREM AllReadKept == Spec => []AllRead
  <1>1. Init => AllRead
    BY DEF Init, AllRead
  <1>2. TypeOK /\ TypeOK' /\ DialogueInv /\ [Next]_vars /\ AllRead => AllRead'
    BY AllReadStep
  <1> QED BY <1>1, <1>2, TypeCorrect, DialogueKept, PTL DEF Spec

LEMMA KnownKept ==
    ASSUME Alone
    PROVE  Spec => []Known
  <1> USE DEF Alone
  <1>1. Init => Named
    BY DEF Init, Named
  <1>2. TypeOK /\ TypeOK' /\ DialogueInv /\ UploadInv /\ [Next]_vars /\ Named => Named'
    BY NamedStep
  <1>3. Spec => []LeftInOrder
    BY LeftInOrderKept
  <1>4. Spec => []Opened
    BY OpenedKept
  <1>5. Spec => []Downloaded
    BY DownloadedKept
  <1>6. Spec => []Named
    BY <1>1, <1>2, TypeCorrect, DialogueKept, UploadKept, PTL DEF Spec
  <1> QED BY <1>3, <1>4, <1>5, <1>6, TypeCorrect, DialogueKept, UploadKept, BusyKept,
          SameFileKept, DismissedKept, TruthfulKept, KeptOutKept, LocalKnownKept, AllReadKept, PTL
          DEF Known

\* An operation by its place.
LEMMA OperationIs ==
    ASSUME NEW f, NEW g
    PROVE  /\ OperationAt("menu", f, g) = [kind |-> "idle"]
           /\ \A at \in {"left", "exit"} : OperationAt(at, f, g) = [kind |-> "left"]
           /\ \A at \in {"listM2", "listM3"} : OperationAt(at, f, g) = [kind |-> "list"]
           /\ \A at \in {"downM2", "downOpen", "downMi", "downWrite"} :
                OperationAt(at, f, g) = [kind |-> "download", name |-> f]
           /\ \A at \in {"upM2", "upMi", "upEnd"} :
                OperationAt(at, f, g) = [kind |-> "upload", name |-> f]
           /\ OperationAt("renM2", f, g) = [kind |-> "rename", name |-> f, new |-> g]
           /\ \A at \in {"delM2", "delAsk", "delM4"} :
                OperationAt(at, f, g) = [kind |-> "delete", name |-> f]
           /\ OperationAt("outM2", f, g) = [kind |-> "logout"]
  BY DEF OperationAt

\* Only the name of a rename matters besides the place and the file.
LEMMA OnlyRename ==
    ASSUME NEW at, at # "renM2", NEW f, NEW g, NEW h
    PROVE  OperationAt(at, f, g) = OperationAt(at, f, h)
  BY DEF OperationAt

\* The answers that end an operation.
LEMMA EndsIs ==
    ASSUME NEW m \in Message
    PROVE  Ends(m) <=> \/ m.type = "UpM2" /\ m.body.code = "NACK"
                       \/ m.type = "UpEnd" /\ m.body.code = "ACK"
                       \/ m.type = "DownM2" /\ m.body.code = "FILE_NOT_FOUND"
                       \/ m.type \in {"RenM2", "DelM4"}
  <1>1. m.body.code \in Codes
    BY DEF Message, Body
  <1>2. /\ DOMAIN Decisions = {"UpM2", "UpEnd", "DownM2", "RenM2", "DelM4"}
        /\ Decisions["UpM2"] = {"NACK"} /\ Decisions["UpEnd"] = {"ACK"}
        /\ Decisions["DownM2"] = {"FILE_NOT_FOUND"} /\ Decisions["RenM2"] = Codes
        /\ Decisions["DelM4"] = Codes
    BY DEF Decisions
  <1> QED BY <1>1, <1>2 DEF Ends

\* A thread does not end before a client that is in an operation.
LEMMA Accompanied ==
    ASSUME TypeOK, DialogueInv, Dismissed, Truthful, KeptOut, ClientHere,
           ClientAt # "menu" \/ user = "registered"
    PROVE  s_pc # "done"
  <1> SUFFICES ASSUME s_pc = "done" PROVE FALSE
    OBVIOUS
  <1>1. c_pc \in {"authM2", "authM5"} /\ (s2c = <<>> => user = "unknown")
        /\ (s2c # <<>> => s2c[1].body.code = "NACK")
    BY DEF Dismissed
  <1>2. user = "registered"
    BY <1>1 DEF KeptOut, ClientAt, AuthPcs, Gone
  <1>3. s2c # <<>> /\ 1 \in 1 .. Len(s2c)
    BY <1>1, <1>2, Channels DEF TypeOK
  <1>4. s2c[1].type \in {"AuthM2", "AuthM5"}
    BY <1>1, <1>3 DEF DialogueInv, KeysAndCounters, ClientNumbers
  <1> QED BY <1>1, <1>2, <1>3, <1>4 DEF Truthful, Honest

\* The answers under way are messages under way.
LEMMA AnsweredFrom ==
    ASSUME NEW q \in Seq(Message), NEW j \in 1 .. Len(AnsweredIn(q))
    PROVE  \E k \in 1 .. Len(q) : AnsweredIn(q)[j] = q[k]
  <1>1. q # <<>> /\ q[1].type \notin Handshake \ {"AuthM5"}
    BY AnsweredIs, EmptySeq
  <1>2. CASE q[1].type \notin Handshake
    BY <1>1, <1>2, AnsweredIs
  <1>3. CASE q[1].type = "AuthM5"
    <2>1. AnsweredIn(q) = Tail(q) /\ Len(AnsweredIn(q)) = Len(q) - 1
      BY <1>1, <1>3, AnsweredIs
    <2>2. Len(q) \in Nat /\ Tail(q)[j] = q[j + 1]
      BY <1>1, <2>1, Taking
    <2>3. j + 1 \in 1 .. Len(q)
      BY <2>1, <2>2
    <2> QED BY <2>1, <2>2, <2>3
  <1> QED BY <1>1, <1>2, <1>3

\* A message under way to the client that is not of a handshake is an answer.
LEMMA IsAnswered ==
    ASSUME TypeOK, DialogueInv, ClientHere, NEW k \in 1 .. Len(s2c), s2c[k].type \notin Handshake
    PROVE  \E j \in 1 .. Len(Answered) : s2c[k] = Answered[j]
  <1>1. s2c \in Seq(Message) /\ s2c # <<>> /\ Len(s2c) \in Nat \ {0}
    BY Channels, EmptySeq DEF TypeOK
  <1>2. ClientNumbers
    BY DEF DialogueInv, KeysAndCounters
  <1>3. CASE s2c[1].type \notin Handshake
    BY <1>1, <1>3, AnsweredIs DEF Answered
  <1>4. CASE s2c[1].type = "AuthM5"
    <2>1. Answered = Tail(s2c) /\ Len(Answered) = Len(s2c) - 1
      BY <1>1, <1>4, AnsweredIs DEF Answered
    <2>2. k # 1
      BY <1>4 DEF Handshake
    <2>3. k - 1 \in 1 .. Len(Answered) /\ Answered[k - 1] = s2c[(k - 1) + 1]
      BY <1>1, <2>1, <2>2, Taking
    <2>4. (k - 1) + 1 = k
      OBVIOUS
    <2> QED BY <2>3, <2>4
  <1>5. CASE s2c[1].type \in Handshake \ {"AuthM5"}
    <2>1. c_pc \in AuthPcs
      <3>1. SUFFICES ASSUME c_pc \notin AuthPcs PROVE FALSE
        OBVIOUS
      <3>2. 1 \in 1 .. Len(s2c)
        BY <1>1
      <3>3. Fits(s2c[1], c_key, c_ctr + 1 - 1)
        BY <1>2, <3>1, <3>2 DEF ClientNumbers
      <3> QED BY <1>5, <3>3 DEF Fits
    <2>2. c_pc \in {"authM2", "authM3"}
      BY <1>1, <1>2, <1>5, <2>1 DEF ClientNumbers, TypeOK, ClientOK, ClientPcs,
         ClientReceives, ClientSends, AuthPcs
    <2>3. CASE c_pc = "authM3"
      <3>1. Len(s2c) = 1 /\ GoodM3(s2c[1])
        BY <1>1, <1>2, <2>3 DEF ClientNumbers
      <3> QED BY <3>1 DEF GoodM3, Handshake
    <2>4. CASE c_pc = "authM2"
      <3>1. Len(s2c) <= 2 /\ s2c[1].type = "AuthM2" /\ (Len(s2c) = 2 => GoodM3(s2c[2]))
        BY <1>1, <1>2, <2>4 DEF ClientNumbers
      <3>2. k = 1 \/ (k = 2 /\ Len(s2c) = 2)
        <4>1. \A n \in Nat : \A i \in 1..n : n <= 2 => i = 1 \/ (i = 2 /\ n = 2)
          OBVIOUS
        <4> QED BY <1>1, <3>1, <4>1
      <3> QED BY <3>1, <3>2 DEF GoodM3, Handshake
    <2> QED BY <2>2, <2>3, <2>4
  <1> QED BY <1>3, <1>4, <1>5

\* Only the first of the answers can be the last one of its operation.
LEMMA FirstEnds ==
    ASSUME TypeOK, DialogueInv, ClientHere, NEW j \in 1 .. Len(Answered), Ends(Answered[j])
    PROVE  j = 1
  <1>1. Len(Answered) \in Nat /\ Answered[j] \in Message
    BY Channels, ElementOfSeq DEF TypeOK
  <1>2. ClientTakes
    BY DEF DialogueInv, Operations
  <1>3. Answered[j].type \in {"UpM2", "UpEnd", "DownM2", "RenM2", "DelM4"}
    BY <1>1, EndsIs
  <1> SUFFICES ASSUME j # 1 PROVE FALSE
    OBVIOUS
  <1>4. j \in 2 .. Len(Answered) /\ Len(Answered) >= 2
    BY <1>1
  <1>5. CASE ClientAt = "listM2"
    <2>1. Len(Answered) <= 2
      BY <1>2, <1>5 DEF ClientTakes
    <2>2. \A n \in Nat : \A i \in 2..n : n <= 2 => i = 2 /\ n = 2
      OBVIOUS
    <2>3. Len(Answered) = 2 /\ j = 2
      BY <1>1, <1>4, <2>1, <2>2
    <2> QED BY <1>2, <1>3, <1>5, <2>3 DEF ClientTakes
  <1>6. CASE ClientAt = "downM2"
    <2>1. Answered[j].type = "DownMi"
      BY <1>1, <1>2, <1>4, <1>6 DEF ClientTakes
    <2> QED BY <1>3, <2>1
  <1>7. CASE ClientAt \in Downloading
    <2>1. Answered[j].type = "DownMi"
      BY <1>2, <1>7 DEF ClientTakes
    <2> QED BY <1>3, <2>1
  <1>8. CASE ClientAt \in {"menu", "upMi", "delAsk"} \cup SingleWaits
    <2>1. Len(Answered) = 0 \/ Len(Answered) = 1
      BY <1>2, <1>8 DEF ClientTakes
    <2> QED BY <1>4, <2>1
  <1> QED BY <1>2, <1>5, <1>6, <1>7, <1>8 DEF ClientTakes

\* What has been decided, from the first answer and from the place of the server thread.
LEMMA DecidedIs ==
    ASSUME TypeOK, DialogueInv, LeftInOrder, AllRead
    PROVE  /\ ~ClientHere => Decided = "none"
           /\ ClientHere =>
                Decided = IF Answered # <<>> /\ Ends(Answered[1])
                          THEN Outcome(Answered[1].body.code)
                          ELSE IF ServerAt = "upEnd" THEN "SUCCESS" ELSE "none"
  <1>1. s2c \in Seq(Message) /\ Len(s2c) \in Nat /\ (s2c = <<>> <=> Len(s2c) = 0)
        /\ Answered \in Seq(Message) /\ Len(Answered) \in Nat
        /\ (Answered = <<>> <=> Len(Answered) = 0)
        /\ \A k \in 1 .. Len(s2c) : s2c[k] \in Message
    BY Channels DEF TypeOK
  <1>2. CASE ~ClientHere
    <2>1. c_pc \in {"left", "exit"}
      BY <1>2 DEF ClientHere, Gone, TypeOK, ClientOK, ClientPcs, ClientReceives, ClientSends
    <2>2. Len(s2c) = 0
      BY <1>1, <2>1 DEF AllRead
    <2>3. Final = {}
      BY <2>2 DEF Final
    <2>4. ServerAt # "upEnd"
      BY <2>1 DEF LeftInOrder, ServerHere, ServerAt, Gone, AuthPcs
    <2> QED BY <1>2, <2>3, <2>4 DEF Decided
  <1>3. CASE ClientHere
    <2>1. ASSUME NEW m \in Final
          PROVE  Answered # <<>> /\ m = Answered[1]
      <3>1. PICK k \in 1 .. Len(s2c) : m = s2c[k] /\ Ends(s2c[k])
        BY DEF Final
      <3>2. s2c[k].type \notin Handshake
        BY <1>1, <3>1, EndsIs DEF Handshake
      <3>3. PICK j \in 1 .. Len(Answered) : s2c[k] = Answered[j]
        BY <1>3, <3>2, IsAnswered
      <3>4. j = 1
        BY <1>3, <3>1, <3>3, FirstEnds
      <3> QED BY <1>1, <3>1, <3>3, <3>4
    <2>2. ASSUME Answered # <<>>, Ends(Answered[1])
          PROVE  Answered[1] \in Final
      <3>1. 1 \in 1 .. Len(Answered)
        BY <1>1, <2>2
      <3>2. PICK k \in 1 .. Len(s2c) : Answered[1] = s2c[k]
        BY <1>1, <3>1, AnsweredFrom DEF Answered
      <3> QED BY <2>2, <3>2 DEF Final
    <2>3. CASE Answered # <<>> /\ Ends(Answered[1])
      <3>1. Final = {Answered[1]}
        BY <2>1, <2>2, <2>3
      <3>2. (CHOOSE m \in Final : TRUE) = Answered[1]
        BY <3>1
      <3> QED BY <1>3, <2>3, <3>1, <3>2 DEF Decided
    <2>4. CASE ~(Answered # <<>> /\ Ends(Answered[1]))
      <3>1. ASSUME NEW m \in Final PROVE FALSE
        <4>1. Ends(m)
          BY DEF Final
        <4> QED BY <2>1, <2>4, <4>1
      <3> QED BY <1>3, <2>4, <3>1 DEF Decided
    <2> QED BY <2>3, <2>4
  <1> QED BY <1>2, <1>3

\* A message under way to the server that is not of a handshake is a request or a chunk.
LEMMA IsAsked ==
    ASSUME TypeOK, NEW k \in 1 .. Len(c2s), c2s[k].type \notin Handshake
    PROVE  k \in 1 .. Len(Asked) /\ c2s[k] = Asked[k]
  <1>1. c2s \in Seq(Message) /\ c2s # <<>> /\ Len(c2s) \in Nat \ {0} /\ Len(Asked) \in Nat
    BY Channels, EmptySeq DEF TypeOK
  <1>2. CASE c2s[Len(c2s)].type \notin Handshake
    BY <1>1, <1>2, AskedIs DEF Asked
  <1>3. CASE c2s[Len(c2s)].type \in Handshake
    <2>1. Len(Asked) = Len(c2s) - 1 /\ \A j \in 1 .. Len(Asked) : Asked[j] = c2s[j]
      BY <1>1, <1>3, AskedIs DEF Asked
    <2>2. k # Len(c2s)
      BY <1>3
    <2> QED BY <1>1, <2>1, <2>2
  <1> QED BY <1>2, <1>3

\* The new name of a rename is the one of the last request, or of the one being served.
LEMMA NewNameIs ==
    ASSUME TypeOK, DialogueInv, Dismissed, Truthful, KeptOut, ClientHere, ClientAt = "renM2"
    PROVE  NewName = IF s_pc = "crashed" THEN c_file
                     ELSE IF Asked = <<>> THEN s_new ELSE Asked[Len(Asked)].body.new
  <1>1. CASE s_pc = "crashed"
    BY <1>1 DEF NewName
  <1>2. CASE s_pc # "crashed"
    <2>1. ServerHere
      <3>1. s_pc # "done"
        BY Accompanied
      <3> QED BY <1>2, <3>1 DEF ServerHere, Gone, TypeOK, ServerOK, ServerPcs,
              ServerReceives, ServerSends
    <2>2. /\ c2s \in Seq(Message) /\ Asked \in Seq(Message) /\ Len(Asked) \in Nat
          /\ (Asked = <<>> <=> Len(Asked) = 0)
      BY Channels DEF TypeOK
    <2>3. ASSUME NEW k \in 1 .. Len(c2s), c2s[k].type = "RenM1"
          PROVE  k \in 1 .. Len(Asked) /\ c2s[k] = Asked[k]
      BY <2>3, IsAsked DEF Handshake
    <2>4. CASE Asked = <<>>
      <3>1. ~\E k \in 1 .. Len(c2s) : c2s[k].type = "RenM1"
        BY <2>2, <2>3, <2>4
      <3> QED BY <1>2, <2>4, <3>1 DEF NewName
    <2>5. CASE Asked # <<>>
      <3> DEFINE n == Len(Asked)
      <3>1. AwaitsHandler
        BY <2>1, <2>5, ClientPlaces DEF FirstWaits, InRename, InList, InDelete
      <3>2. /\ n = 1 \/ (n = 2 /\ ServerAt = "delM3")
            /\ IsOwnRequest(Asked[n])
        BY <2>2, <2>5, <3>1 DEF AwaitsHandler
      <3>3. Asked[n].type = "RenM1"
        BY <3>2, HandlerIs DEF IsOwnRequest, IsRequest
      <3>4. n = 2 => Asked[1].type # "RenM1"
        <4>1. n = 2 => Asked[1].type = "DelM3"
          BY <2>1, <3>2 DEF DialogueInv, Operations, ServerTakes
        <4> QED BY <4>1
      <3>5. n \in 1 .. Len(c2s) /\ c2s[n] = Asked[n]
        <4>1. Asked = c2s \/ Len(Asked) = Len(c2s) - 1
          BY <2>2, AskedIs DEF Asked, AskedIn
        <4>2. Len(c2s) \in Nat /\ n \in Nat \ {0}
          BY <2>2, <2>5, Channels DEF TypeOK
        <4>3. n \in 1..n /\ n \in 1 .. Len(c2s)
          BY <4>1, <4>2
        <4> QED BY <2>2, <4>3, AskedIs DEF Asked
      <3>6. \A k \in 1 .. Len(c2s) : c2s[k].type = "RenM1" => c2s[k] = Asked[n]
        <4>1. SUFFICES ASSUME NEW k \in 1 .. Len(c2s), c2s[k].type = "RenM1"
                       PROVE  c2s[k] = Asked[n]
          OBVIOUS
        <4>2. k \in 1..n /\ c2s[k] = Asked[k]
          BY <2>3, <4>1
        <4>3. k = n \/ (n = 2 /\ k = 1)
          BY <3>2, <4>2
        <4> QED BY <3>4, <4>1, <4>2, <4>3
      <3> DEFINE S == {c2s[k] : k \in 1 .. Len(c2s)}
      <3>7. \A m \in S : m.type = "RenM1" => m = Asked[n]
        BY <3>6
      <3>8. Asked[n] \in S
        BY <3>5
      <3>9. (CHOOSE m \in S : m.type = "RenM1") = Asked[n]
        BY <3>3, <3>7, <3>8
      <3>10. \E k \in 1 .. Len(c2s) : c2s[k].type = "RenM1"
        BY <3>3, <3>5
      <3> QED BY <1>2, <2>5, <3>9, <3>10 DEF NewName
    <2> QED BY <2>4, <2>5
  <1> QED BY <1>1, <1>2

-----------------------------------------------------------------------------
(* What the user sees.                                                      *)

\* The views, where they are plain.
Views ==
    /\ ClientHere =>
         Decided = IF Answered # <<>> /\ Ends(Answered[1])
                   THEN Outcome(Answered[1].body.code)
                   ELSE IF ServerAt = "upEnd" THEN "SUCCESS" ELSE "none"
    /\ ~ClientHere => Decided = "none"
    /\ ClientHere /\ ServerAt = "upEnd" => ClientAt = "upEnd" /\ Answered = <<>>
    /\ ClientHere /\ (ClientAt # "menu" \/ user = "registered") => s_pc # "done"
    /\ ClientHere /\ ClientAt = "renM2" =>
         NewName = IF s_pc = "crashed" THEN c_file
                   ELSE IF Asked = <<>> THEN s_new ELSE Asked[Len(Asked)].body.new
    /\ ClientAt \notin {"downMi", "downWrite"} => LocalView = local
    /\ s_stream # "open" => StoreView = store /\ AtRisk = {}
    /\ ServerAt \notin {"upMi", "upWrite", "upEnd", "upClose"} => s_stream = "closed"

LEMMA ViewsAre == (Known => Views) /\ (Known' => Views')
  <1>1. ASSUME Known PROVE Views
    <2> USE <1>1 DEF Known
    <2>1. ClientHere /\ ServerAt = "upEnd" => ClientAt = "upEnd" /\ Answered = <<>>
      <3>1. SUFFICES ASSUME ClientHere, ServerAt = "upEnd"
                     PROVE  ClientAt = "upEnd" /\ Answered = <<>>
        OBVIOUS
      <3>2. ServerHere
        BY <3>1 DEF ServerHere, ServerAt, AuthPcs, Gone
      <3>3. InOperation
        BY <3>1, <3>2 DEF DialogueInv, Operations
      <3>4. InUpload
        BY <3>1, <3>3 DEF InOperation, AtMenu, AwaitsHandler, InList, InDownload, InRename,
           InDelete, InLogout, Idle, FirstWaits, ServerAt, AuthPcs
      <3> QED BY <3>1, <3>4, Channels DEF InUpload, Receiving, Idle, TypeOK
    <2>2. ClientAt \notin {"downMi", "downWrite"} => LocalView = local
      BY DEF LocalView, TypeOK, DisksOK
    <2>3. s_stream # "open" => StoreView = store /\ AtRisk = {}
      BY DEF StoreView, AtRisk, TypeOK, DisksOK
    <2>4. ServerAt \notin {"upMi", "upWrite", "upEnd", "upClose"} => s_stream = "closed"
      BY DEF UploadInv, StreamInUpload
    <2> QED BY <2>1, <2>2, <2>3, <2>4, DecidedIs, Accompanied, NewNameIs DEF Views
  <1>2. Known => Views
    BY <1>1
  <1> QED BY <1>2, PTL

\* A step that shows nothing.
LEMMA Stutters ==
    ASSUME UNCHANGED <<user, StoreView, AtRisk, Doing, Decided, LocalView, c_res>>,
           s_pc' = "crashed" <=> s_pc = "crashed"
    PROVE  [Cloud!Next]_Cloud!vars
  BY DEF Cloud!vars

\* What the client does leaves the server as it is.
LEMMA ServerSame ==
    ASSUME UserStep \/ ClientStep
    PROVE  UNCHANGED <<user, StoreView, AtRisk, ServerAt, ServerHere, s_pc, s_file, s_new,
                       s_size, s_i, s_stream, s_buf, store>>
  BY Apart DEF server, StoreView, AtRisk, ServerAt, ServerHere

\* The user is told what was decided.
LEMMA Ended ==
    ASSUME c_res' = Decided, Decided # "none", Decided' = "none", Doing' = [kind |-> "idle"],
           UNCHANGED <<user, StoreView, AtRisk, LocalView, s_pc>>
    PROVE  Cloud!Next
  <1>1. Cloud!Tell(Decided, LocalView)
    BY DEF Cloud!Tell, Cloud!Idle
  <1> QED BY <1>1 DEF Cloud!Next, Cloud!End

\* The client takes an answer; what it may have decided is out of the way then.
LEMMA Replied ==
    ASSUME Known, Known', NEW pc \in ClientReceives \ (AuthPcs \cup {"outM2"}),
           NEW type, FromServer(pc, type), NEW next \in ClientPcs \ (AuthPcs \cup Gone), NEW res,
           Reply(next, res), UNCHANGED <<server, c2s, cAuth>>
    PROVE  /\ ClientHere /\ ClientAt = pc /\ ClientHere' /\ ClientAt' = next /\ c_res' = res
           /\ Accepted /\ Head(s2c) = Answered[1]
           /\ Answered[1] \in Message /\ Answered[1].type = type /\ Honest(Answered[1])
           /\ Decided = IF Ends(Answered[1]) THEN Outcome(Answered[1].body.code) ELSE "none"
           /\ Decided' = "none"
           /\ Len(Answered) \in Nat \ {0} /\ ClientTakes /\ (ServerHere => InOperation)
  <1> USE DEF Known
  <1>1. /\ ClientHere /\ ClientHere' /\ ClientAt = pc /\ ClientAt' = next /\ ServerAt' = ServerAt
        /\ Len(Answered) \in Nat \ {0} /\ Answered[1] = Head(s2c) /\ Answered # <<>>
        /\ Len(Answered') = Len(Answered) - 1 /\ (Answered' = <<>> <=> Len(Answered') = 0)
        /\ \A k \in 1 .. Len(Answered) - 1 : Answered'[k] = Answered[k + 1]
        /\ Accepted /\ ClientTakes /\ (ServerHere => InOperation)
    BY ReplyDialogue
  <1>2. c_res' = res
    BY <1>1 DEF Reply, Accepted
  <1>3. s2c \in Seq(Message) /\ s2c # <<>> /\ Head(s2c).type = type
    BY DEF FromServer, TypeOK, ChannelsOK
  <1>4. Head(s2c) = s2c[1] /\ s2c[1] \in Message /\ 1 \in 1 .. Len(s2c)
    BY <1>3, Taking
  <1>5. Honest(s2c[1])
    BY <1>4 DEF Truthful
  <1>6. Views /\ Views'
    BY ViewsAre
  <1>7. ServerAt # "upEnd"
    BY <1>1, <1>6 DEF Views
  <1>8. Decided = IF Ends(Answered[1]) THEN Outcome(Answered[1].body.code) ELSE "none"
    BY <1>1, <1>6, <1>7 DEF Views
  <1>9. Answered' # <<>> => ~Ends(Answered'[1])
    <2>1. SUFFICES ASSUME Answered' # <<>>, Ends(Answered'[1]) PROVE FALSE
      OBVIOUS
    <2>2. 2 \in 1 .. Len(Answered) /\ Answered'[1] = Answered[2]
      BY <1>1, <2>1
    <2> QED BY <1>1, <2>1, <2>2, FirstEnds
  <1>10. Decided' = "none"
    BY <1>1, <1>6, <1>7, <1>9 DEF Views
  <1> QED BY <1>1, <1>2, <1>3, <1>4, <1>5, <1>8, <1>10

-----------------------------------------------------------------------------
(* The steps of the client.                                                 *)

\* A request goes out: the operation of that name begins.
LEMMA Begun ==
    ASSUME Known, Known', NEW type \in DOMAIN Handler, NEW b \in Body,
           Request(type, b, Handler[type])
    PROVE  \E g \in Names :
             /\ Cloud!Begin(OperationAt(Handler[type], c_file', g))
             /\ type = "RenM1" => g = IF s_pc = "crashed" THEN c_file' ELSE b.new
  <1> USE DEF Known
  <1> DEFINE next == Handler[type]
             m == Msg(type, c_key, c_ctr, b)
  <1>1. /\ next \in FirstWaits /\ type \in Types \ Handshake
        /\ (next = "renM2" <=> type = "RenM1")
    BY HandlerIs DEF FirstWaits, Types, Handshake
  <1>2. next \in ClientPcs \ (AuthPcs \cup Gone)
    BY <1>1 DEF FirstWaits, ClientPcs, ClientReceives, AuthPcs, Gone
  <1>3. /\ c_pc = "menu" /\ ToServer(m) /\ ClientIncrement(next) /\ c_res' = "none"
        /\ UNCHANGED <<user, cAuth, server, s2c, store, local>>
    BY DEF Request
  <1>4. /\ ClientAt' = next /\ ClientHere' /\ Answered' = <<>> /\ Answered = <<>>
        /\ (ServerHere => Asked' = Append(Asked, m)) /\ m \in Message
    BY <1>1, <1>2, <1>3, ClientSendsOne
  <1>5. ClientHere /\ ClientAt = "menu" /\ user = "registered"
    BY <1>3 DEF ClientHere, ClientAt, KeptOut, AuthPcs, Gone
  <1>6. Views /\ Views'
    BY ViewsAre
  <1>7. ServerAt # "upEnd" /\ ServerAt' # "upEnd"
    BY <1>1, <1>4, <1>5, <1>6 DEF Views, FirstWaits
  <1>8. Decided = "none" /\ Decided' = "none"
    BY <1>4, <1>5, <1>6, <1>7 DEF Views
  <1>9. LocalView = local /\ LocalView' = local
    BY <1>1, <1>3, <1>4, <1>5, <1>6 DEF Views, FirstWaits
  <1>10. UNCHANGED <<StoreView, AtRisk, s_pc>>
    BY <1>3 DEF server, StoreView, AtRisk
  <1>11. Doing = Cloud!Idle
    BY <1>5, OperationIs DEF Doing, Cloud!Idle
  <1>12. ASSUME NEW g, Doing' = OperationAt(next, c_file', g)
         PROVE  Cloud!Begin(OperationAt(next, c_file', g))
    BY <1>3, <1>5, <1>8, <1>9, <1>10, <1>11, <1>12 DEF Cloud!Begin
  <1>13. Doing' = OperationAt(next, c_file', NewName')
    BY <1>4 DEF Doing
  <1>14. CASE type # "RenM1"
    <2>1. OperationAt(next, c_file', NewName') = OperationAt(next, c_file', AnyName)
      BY <1>1, <1>14, OnlyRename
    <2> QED BY <1>12, <1>13, <1>14, <2>1, BodyTypes
  <1>15. CASE type = "RenM1"
    <2>1. NewName' = IF s_pc = "crashed" THEN c_file' ELSE b.new
      <3>1. s_pc' = s_pc /\ ServerHere' = ServerHere
        BY <1>3 DEF server, ServerHere
      <3>2. NewName' = IF s_pc' = "crashed" THEN c_file'
                       ELSE IF Asked' = <<>> THEN s_new' ELSE Asked'[Len(Asked')].body.new
        BY <1>1, <1>4, <1>6, <1>15 DEF Views
      <3>3. CASE s_pc # "crashed"
        <4>1. s_pc # "done"
          BY <1>5, <1>6 DEF Views
        <4>2. ServerHere
          BY <3>3, <4>1 DEF ServerHere, Gone, TypeOK, ServerOK, ServerPcs, ServerReceives,
             ServerSends
        <4>3. Asked' # <<>> /\ Asked'[Len(Asked')] = m
          BY <1>4, <4>2, LastAsked, Channels DEF TypeOK
        <4> QED BY <3>1, <3>2, <3>3, <4>3 DEF Msg
      <3> QED BY <3>1, <3>2, <3>3
    <2>2. NewName' \in Names
      BY <2>1 DEF TypeOK, ClientOK, Body
    <2> QED BY <1>12, <1>13, <1>15, <2>1, <2>2
  <1> QED BY <1>14, <1>15

\* The operation is turned down at once.
LEMMA TurnedDown ==
    ASSUME Known, Known', NEW res, Refused(res)
    PROVE  Cloud!Refuse(res)
  <1> USE DEF Known
  <1>1. /\ c_pc = "menu" /\ c_res' = res
        /\ UNCHANGED <<user, c_pc, c_ret, c_file, server, c2s, s2c, store, local>>
    BY DEF Refused, cOp
  <1>2. ClientAt = "menu" /\ user = "registered"
    BY <1>1 DEF ClientAt, KeptOut, AuthPcs, Gone
  <1>3. Doing = Cloud!Idle
    BY <1>2, OperationIs DEF Doing, Cloud!Idle
  <1>4. UNCHANGED <<StoreView, AtRisk, s_pc, Decided, LocalView, Doing>>
    BY <1>1 DEF server, StoreView, AtRisk, Decided, Final, ServerAt, LocalView, ClientAt, Doing,
       NewName
  <1> QED BY <1>1, <1>2, <1>3, <1>4 DEF Cloud!Refuse

\* The file the client looks for in the server's directory shows as it is.
LEMMA StoreShows ==
    ASSUME Known, ClientHere, ClientAt = "menu", NEW f \in Names
    PROVE  StoreView[f] = Absent <=> store[f] = Absent
  <1> USE DEF Known
  <1>1. CASE s_stream = "open" /\ f = s_file
    <2>1. ServerAt \in {"upMi", "upWrite", "upEnd", "upClose"} /\ ServerHere
      BY <1>1 DEF UploadInv, StreamInUpload, ServerHere, ServerAt, AuthPcs, Gone
    <2>2. ServerAt \in Idle
      BY <2>1, ClientPlaces DEF AtMenu
    <2>3. s_i = s_size
      BY <2>1, <2>2 DEF Opened, Idle
    <2>4. store[f] \in Nat
      BY <1>1 DEF Named, TypeOK, DisksOK, Absent
    <2>5. StoreView[f] = store[f] + (IF s_buf THEN 1 ELSE 0)
      BY <1>1, <2>3 DEF StoreView, TypeOK, ServerOK
    <2> QED BY <2>4, <2>5 DEF Absent
  <1>2. CASE ~(s_stream = "open" /\ f = s_file)
    BY <1>2 DEF StoreView
  <1> QED BY <1>1, <1>2


\* The user picks an operation.
LEMMA UserActs ==
    ASSUME Known, Known', UserStep
    PROVE  Cloud!Next
  <1> USE DEF Known
  <1>0. Cloud!Absent = Absent /\ AnyName \in Names
    BY BodyTypes DEF Cloud!Absent, Absent
  <1>1. c_pc = "menu"
    BY DEF UserStep, ClientList, ClientDownload, ClientUpload, ClientRename, ClientDelete,
       ClientLogout, Request, Refused
  <1>2. ClientHere /\ ClientAt = "menu" /\ LocalView = local
    <2>1. ClientHere /\ ClientAt = "menu"
      BY <1>1 DEF ClientHere, ClientAt, AuthPcs, Gone
    <2> QED BY <2>1, ViewsAre DEF Views
  <1>3. SUFFICES Cloud!Pick
    BY DEF Cloud!Next
  <1>4. CASE ClientList \/ ClientLogout
    <2>1. CASE ClientList
      BY <1>0, <2>1, Begun, HandlerIs, BodyTypes, OperationIs DEF ClientList, Cloud!Pick
    <2>2. CASE ClientLogout
      BY <1>0, <2>2, Begun, HandlerIs, BodyTypes, OperationIs DEF ClientLogout, Cloud!Pick
    <2> QED BY <1>4, <2>1, <2>2
  <1>5. CASE ClientDownload
    <2>1. PICK f \in Names : \/ local[f] # Absent /\ Refused("FILE_ALREADY_EXISTS")
                             \/ /\ local[f] = Absent /\ Request("DownM1", File(f), "downM2")
                                /\ c_file' = f
      BY <1>5 DEF ClientDownload, About
    <2>2. CASE Refused("FILE_ALREADY_EXISTS")
      BY <1>0, <1>2, <2>1, <2>2, TurnedDown DEF Cloud!Pick, Request, Refused
    <2>3. CASE Request("DownM1", File(f), "downM2")
      <3>1. Cloud!Begin([kind |-> "download", name |-> f])
        BY <2>1, <2>3, Begun, HandlerIs, BodyTypes, OperationIs DEF Request, Refused
      <3>2. local[f] = Absent
        BY <2>1, <2>3 DEF Request, Refused
      <3> QED BY <1>0, <1>2, <3>1, <3>2 DEF Cloud!Pick
    <2> QED BY <2>1, <2>2, <2>3
  <1>6. CASE ClientUpload
    <2>1. PICK f \in Names :
            \/ local[f] = Absent /\ Refused("FILE_NOT_FOUND")
            \/ local[f] = 0 /\ Refused("WRONG_FILE_SIZE")
            \/ /\ local[f] > 0 /\ Request("UpM1", [File(f) EXCEPT !.n = local[f]], "upM2")
               /\ c_file' = f
      BY <1>6 DEF ClientUpload
    <2>2. CASE local[f] = Absent /\ Refused("FILE_NOT_FOUND")
      BY <1>0, <1>2, <2>2, TurnedDown DEF Cloud!Pick
    <2>3. CASE local[f] = 0 /\ Refused("WRONG_FILE_SIZE")
      BY <1>0, <1>2, <2>3, TurnedDown DEF Cloud!Pick
    <2>4. CASE /\ local[f] > 0 /\ Request("UpM1", [File(f) EXCEPT !.n = local[f]], "upM2")
               /\ c_file' = f
      <3>1. local[f] \in Nat
        BY <2>4 DEF TypeOK, DisksOK, Absent
      <3>2. [File(f) EXCEPT !.n = local[f]] \in Body
        BY <3>1, BodyTypes DEF Body
      <3>3. Cloud!Begin([kind |-> "upload", name |-> f])
        BY <2>4, <3>2, Begun, HandlerIs, OperationIs
      <3> QED BY <1>0, <1>2, <2>4, <3>3 DEF Cloud!Pick
    <2> QED BY <2>1, <2>2, <2>3, <2>4
  <1>7. CASE ClientRename
    <2>1. PICK f \in Names, g \in Names :
            Request("RenM1", [File(f) EXCEPT !.new = g], "renM2") /\ c_file' = f
      BY <1>7 DEF ClientRename, About
    <2>2. [File(f) EXCEPT !.new = g] \in Body
      BY BodyTypes DEF Body
    <2>3. PICK h \in Names : Cloud!Begin([kind |-> "rename", name |-> f, new |-> h])
      BY <2>1, <2>2, Begun, HandlerIs, OperationIs
    <2> QED BY <2>3 DEF Cloud!Pick
  <1>8. CASE ClientDelete
    <2>1. PICK f \in Names :
            \/ store[f] = Absent /\ Refused("FILE_NOT_FOUND")
            \/ store[f] # Absent /\ Request("DelM1", File(f), "delM2") /\ c_file' = f
      BY <1>8 DEF ClientDelete, About
    <2>2. CASE store[f] = Absent /\ Refused("FILE_NOT_FOUND")
      BY <1>0, <1>2, <2>2, TurnedDown, StoreShows DEF Cloud!Pick
    <2>3. CASE store[f] # Absent /\ Request("DelM1", File(f), "delM2") /\ c_file' = f
      <3>1. Cloud!Begin([kind |-> "delete", name |-> f])
        BY <2>3, Begun, HandlerIs, BodyTypes, OperationIs
      <3> QED BY <1>0, <1>2, <2>3, <3>1, StoreShows DEF Cloud!Pick
    <2> QED BY <2>1, <2>2, <2>3
  <1> QED BY <1>4, <1>5, <1>6, <1>7, <1>8 DEF UserStep

\* The handshake of the client shows only when a login fails.
LEMMA ClientHandshakes ==
    ASSUME Known, Known',
           ClientAuthM1 \/ ClientAuthM2 \/ ClientAuthM3 \/ ClientAuthM4 \/ ClientAuthM5
    PROVE  [Cloud!Next]_Cloud!vars
  <1> USE DEF Known
  <1>1. /\ c_pc \in AuthPcs /\ ClientStep
        /\ UNCHANGED <<c_file, c_size, c_i, c_res, server, store, local, user>>
    BY DEF ClientStep, ClientAuthM1, ClientAuthM2, ClientAuthM3, ClientAuthM4, ClientAuthM5,
       FromServer, AuthPcs, cOp
  <1>2. ClientHere
    BY <1>1 DEF ClientHere, AuthPcs, Gone
  <1>3. StaysInOperation
    BY HandshakeAsked, HandshakeAnswered, HandshakeSigned, HandshakeDone
  <1>4. /\ UNCHANGED <<StoreView, AtRisk, s_pc, ServerAt, ServerHere, s_new>>
        /\ Views /\ Views'
    BY <1>1, ViewsAre, ServerSame
  <1>5. CASE ClientHere'
    <2>1. UNCHANGED <<ClientAt, Answered>> /\ (ServerHere => Asked' = Asked)
      BY <1>4, <1>5, <1>3 DEF StaysInOperation
    <2>2. Decided' = Decided
      BY <1>2, <1>4, <1>5, <2>1 DEF Views
    <2>3. LocalView' = LocalView
      BY <1>1, <2>1 DEF LocalView
    <2>4. Doing' = Doing
      <3>1. CASE ClientAt = "renM2"
        <4>1. s_pc = "crashed" \/ ServerHere
          BY <1>2, <1>4, <3>1 DEF Views, ServerHere, Gone, TypeOK, ServerOK, ServerPcs,
             ServerReceives, ServerSends
        <4>2. NewName' = NewName
          BY <1>1, <1>2, <1>4, <1>5, <2>1, <3>1, <4>1 DEF Views
        <4> QED BY <1>1, <2>1, <4>2 DEF Doing
      <3>2. CASE ClientAt # "renM2"
        BY <1>1, <2>1, <3>2, OnlyRename DEF Doing
      <3> QED BY <3>1, <3>2
    <2> QED BY <1>1, <1>4, <2>2, <2>3, <2>4, Stutters
  <1>6. CASE ~ClientHere'
    <2>0. c_pc' \in Gone
      BY <1>6 DEF ClientHere
    <2>1. user # "registered"
      <3>1. ASSUME s2c # <<>>
            PROVE  Honest(Head(s2c))
        <4>1. Head(s2c) = s2c[1] /\ 1 \in 1 .. Len(s2c)
          BY <3>1, Taking DEF TypeOK, ChannelsOK
        <4> QED BY <4>1 DEF Truthful
      <3>2. CASE ClientAuthM1 \/ ClientAuthM4
        BY <2>0, <3>2 DEF ClientAuthM1, ClientAuthM4, ClientIncrement, Gone
      <3>3. CASE ClientAuthM2
        <4>1. s2c # <<>> /\ Head(s2c).type = "AuthM2" /\ Head(s2c).body.code # "ACK"
          BY <2>0, <3>3 DEF ClientAuthM2, FromServer, Gone
        <4> QED BY <3>1, <4>1 DEF Honest
      <3>4. CASE ClientAuthM3
        <4>1. c_pc = "authM3" /\ s2c # <<>>
          BY <3>4 DEF ClientAuthM3, FromServer
        <4>2. Head(s2c).ctr = 0 /\ Head(s2c).key = <<c_eph, Head(s2c).body.n>>
          BY <4>1, ClientAccepts DEF ClientReceives
        <4> QED BY <2>0, <3>4, <4>2 DEF ClientAuthM3, Gone
      <3>5. CASE ClientAuthM5
        <4>1. c_pc = "authM5" /\ s2c # <<>> /\ Head(s2c).type = "AuthM5"
          BY <3>5 DEF ClientAuthM5, FromServer
        <4>2. Verdict(Head(s2c), c_key, c_ctr) = "SUCCESS"
          BY <4>1, ClientAccepts DEF ClientReceives
        <4>3. c_ret \notin Gone
          BY <1>2, <4>1 DEF DialogueInv, Operations, ClientTakes, ClientAt, AuthPcs, Gone,
             Downloading, SingleWaits
        <4>4. Head(s2c).body.code # "ACK"
          BY <2>0, <3>5, <4>2, <4>3 DEF ClientAuthM5
        <4> QED BY <3>1, <4>1, <4>4 DEF Honest
      <3> QED BY <3>2, <3>3, <3>4, <3>5
    <2>2. ClientAt = "menu"
      BY <1>1, <2>1 DEF KeptOut, ClientAt, Gone, AuthPcs
    <2>3. c_pc' \in {"left", "exit"} /\ ClientAt' = c_pc'
      BY <2>0 DEF Gone, TypeOK, ClientOK, ClientPcs, ClientReceives, ClientSends, ClientAt,
         AuthPcs
    <2>4. Decided = "none" /\ Decided' = "none"
      <3>1. Answered = <<>>
        BY <1>2, <2>2, Channels DEF DialogueInv, Operations, ClientTakes, TypeOK
      <3>2. ServerAt # "upEnd"
        BY <1>2, <1>4, <2>2 DEF Views
      <3> QED BY <1>2, <1>4, <1>6, <3>1, <3>2 DEF Views
    <2>5. Doing = Cloud!Idle /\ Doing' = Cloud!Left
      BY <2>2, <2>3, OperationIs DEF Doing, Cloud!Idle, Cloud!Left
    <2>6. LocalView' = LocalView
      BY <1>1, <1>4, <2>2, <2>3 DEF Views
    <2>7. Cloud!LoginFails
      BY <1>1, <1>4, <2>1, <2>4, <2>5, <2>6 DEF Cloud!LoginFails
    <2> QED BY <2>7 DEF Cloud!Next
  <1> QED BY <1>5, <1>6

\* After an answer that is not the last the operation goes on.
LEMMA GoesOn ==
    ASSUME Known, Known', NEW pc \in ClientReceives \ (AuthPcs \cup {"outM2"}),
           NEW type, FromServer(pc, type), NEW next \in ClientPcs \ (AuthPcs \cup Gone),
           Reply(next, "none"), UNCHANGED <<server, c2s, cAuth, user, store, local, c_file>>,
           ~Ends(Head(s2c)),
           <<pc, next>> \in {<<"listM2", "listM3">>, <<"downM2", "downOpen">>,
                             <<"downMi", "downWrite">>, <<"upM2", "upMi">>,
                             <<"delM2", "delAsk">>}
    PROVE  [Cloud!Next]_Cloud!vars
  <1> USE DEF Known
  <1>1. /\ ClientHere /\ ClientAt = pc /\ ClientAt' = next /\ c_res' = "none"
        /\ Head(s2c) = Answered[1] /\ Decided' = "none"
        /\ Decided = IF Ends(Answered[1]) THEN Outcome(Answered[1].body.code) ELSE "none"
    BY Replied
  <1>2. pc # "menu" /\ c_res = "none"
    BY <1>1 DEF Busy
  <1>3. Decided' = Decided
    BY <1>1
  <1>4. UNCHANGED <<StoreView, AtRisk, s_pc>>
    BY DEF server, StoreView, AtRisk
  <1>5. LocalView' = LocalView
    BY <1>1 DEF LocalView
  <1>6. Doing' = Doing
    BY <1>1, OperationIs DEF Doing
  <1> QED BY <1>1, <1>2, <1>3, <1>4, <1>5, <1>6, Stutters

\* After the last answer the user is told.
LEMMA ComesBack ==
    ASSUME Known, Known', NEW pc \in ClientReceives \ (AuthPcs \cup {"outM2"}),
           NEW type, FromServer(pc, type), NEW res,
           Reply("menu", res), UNCHANGED <<server, c2s, cAuth, user, store, local>>,
           pc # "downMi"
    PROVE  /\ Ends(Head(s2c)) /\ res = Outcome(Head(s2c).body.code) => Cloud!Next
           /\ pc \in {"listM2", "listM3"} /\ res = "SUCCESS" => Cloud!Next
  <1> USE DEF Known
  <1>0. "menu" \in ClientPcs \ (AuthPcs \cup Gone)
    BY DEF ClientPcs, ClientSends, AuthPcs, Gone
  <1>1. /\ ClientAt = pc /\ ClientAt' = "menu" /\ c_res' = res
        /\ Head(s2c) = Answered[1] /\ Decided' = "none" /\ Answered[1] \in Message
        /\ Decided = IF Ends(Answered[1]) THEN Outcome(Answered[1].body.code) ELSE "none"
    BY <1>0, Replied
  <1>2. UNCHANGED <<StoreView, AtRisk, s_pc>>
    BY DEF server, StoreView, AtRisk
  <1>3. LocalView' = LocalView
    BY <1>1 DEF LocalView, ClientReceives
  <1>4. Doing' = [kind |-> "idle"]
    BY <1>1, OperationIs DEF Doing
  <1>5. ASSUME Ends(Head(s2c)), res = Outcome(Head(s2c).body.code)
        PROVE  Cloud!Next
    <2>1. Head(s2c).body.code \in Codes
      BY <1>1 DEF Message, Body
    <2>2. res # "none"
      BY <1>5, <2>1 DEF Outcome, Codes
    <2> QED BY <1>1, <1>2, <1>3, <1>4, <1>5, <2>2, Ended
  <1>6. ASSUME pc \in {"listM2", "listM3"}, res = "SUCCESS"
        PROVE  Cloud!Next
    <2>1. Doing = [kind |-> "list"]
      BY <1>1, <1>6, OperationIs DEF Doing
    <2>2. Cloud!Tell("SUCCESS", LocalView)
      BY <1>1, <1>2, <1>3, <1>4, <1>6 DEF Cloud!Tell, Cloud!Idle
    <2> QED BY <2>1, <2>2 DEF Cloud!Next, Cloud!End
  <1> QED BY <1>5, <1>6

\* The client takes an answer.
LEMMA ClientReplies ==
    ASSUME Known, Known',
           \/ ClientListM2 \/ ClientListM3 \/ ClientDownM2 \/ ClientDownMi \/ ClientUpM2
           \/ ClientUpEnd \/ ClientRenM2 \/ ClientDelM2 \/ ClientDelM4
    PROVE  [Cloud!Next]_Cloud!vars
  <1> DEFINE m == Head(s2c)
  <1>1. /\ {"listM2", "listM3", "downM2", "downMi", "upM2", "upEnd", "renM2", "delM2", "delM4"}
             \subseteq ClientReceives \ (AuthPcs \cup {"outM2"})
        /\ {"listM3", "downOpen", "downWrite", "upMi", "delAsk"}
             \subseteq ClientPcs \ (AuthPcs \cup Gone)
    BY DEF ClientReceives, ClientPcs, ClientSends, AuthPcs, Gone
  <1>2. ASSUME NEW pc, NEW type, FromServer(pc, type)
        PROVE  m \in Message /\ m.type = type /\ Honest(m)
    <2>1. m = s2c[1] /\ 1 \in 1 .. Len(s2c) /\ m \in Message
      BY <1>2, Taking DEF FromServer, Known, TypeOK, ChannelsOK
    <2> QED BY <1>2, <2>1 DEF Known, Truthful, FromServer
  <1>3. CASE ClientListM2
    <2>1. ~Ends(m)
      BY <1>2, <1>3, EndsIs DEF ClientListM2
    <2> QED BY <1>1, <1>3, <2>1, GoesOn, ComesBack DEF ClientListM2, cOp
  <1>4. CASE ClientListM3
    BY <1>1, <1>4, ComesBack DEF ClientListM3
  <1>5. CASE ClientDownM2
    <2>1. FromServer("downM2", "DownM2") /\ m \in Message /\ m.type = "DownM2"
      BY <1>2, <1>5 DEF ClientDownM2
    <2>2. CASE m.body.code = "FILE_NOT_FOUND"
      <3>1. Ends(m) /\ Outcome(m.body.code) = "FILE_NOT_FOUND"
        BY <2>1, <2>2, EndsIs DEF Outcome
      <3> QED BY <1>1, <1>5, <2>1, <2>2, <3>1, ComesBack DEF ClientDownM2
    <2>3. CASE m.body.code # "FILE_NOT_FOUND"
      <3>1. ~Ends(m)
        BY <2>1, <2>3, EndsIs
      <3> QED BY <1>1, <1>5, <2>1, <2>3, <3>1, GoesOn DEF ClientDownM2
    <2> QED BY <2>2, <2>3
  <1>6. CASE ClientDownMi
    <2>1. ~Ends(m)
      BY <1>2, <1>6, EndsIs DEF ClientDownMi
    <2> QED BY <1>1, <1>6, <2>1, GoesOn DEF ClientDownMi, cOp
  <1>7. CASE ClientUpM2
    <2>1. FromServer("upM2", "UpM2") /\ m \in Message /\ m.type = "UpM2"
      BY <1>2, <1>7 DEF ClientUpM2
    <2>2. CASE m.body.code = "NACK"
      <3>1. Ends(m) /\ Outcome(m.body.code) = "FILE_ALREADY_EXISTS"
        BY <2>1, <2>2, EndsIs DEF Outcome
      <3> QED BY <1>1, <1>7, <2>1, <2>2, <3>1, ComesBack DEF ClientUpM2, cOp
    <2>3. CASE m.body.code # "NACK"
      <3>1. ~Ends(m)
        BY <2>1, <2>3, EndsIs
      <3> QED BY <1>1, <1>7, <2>1, <2>3, <3>1, GoesOn DEF ClientUpM2, cOp
    <2> QED BY <2>2, <2>3
  <1>8. CASE ClientUpEnd \/ ClientDelM4
    <2>1. m \in Message /\ m.type \in {"UpEnd", "DelM4"} /\ m.body.code = "ACK"
      BY <1>2, <1>8 DEF ClientUpEnd, ClientDelM4, Honest
    <2>2. Ends(m) /\ Outcome(m.body.code) = "SUCCESS"
      BY <2>1, EndsIs DEF Outcome
    <2> QED BY <1>1, <1>8, <2>2, ComesBack DEF ClientUpEnd, ClientDelM4, cOp
  <1>9. CASE ClientRenM2
    <2>1. m \in Message /\ m.type = "RenM2" /\ m.body.code # "NACK"
      BY <1>2, <1>9 DEF ClientRenM2, Honest
    <2>2. /\ Ends(m)
          /\ Outcome(m.body.code) = IF m.body.code = "ACK" THEN "SUCCESS"
                                    ELSE IF m.body.code = "NACK" THEN "RENAME_FAILURE"
                                    ELSE m.body.code
      BY <2>1, EndsIs DEF Outcome
    <2> QED BY <1>1, <1>9, <2>2, ComesBack DEF ClientRenM2, cOp
  <1>10. CASE ClientDelM2
    <2>1. ~Ends(m)
      BY <1>2, <1>10, EndsIs DEF ClientDelM2
    <2> QED BY <1>1, <1>10, <2>1, GoesOn DEF ClientDelM2, cOp
  <1> QED BY <1>3, <1>4, <1>5, <1>6, <1>7, <1>8, <1>9, <1>10

\* At these places nothing has been decided.
Undecided ==
    ClientHere /\ ClientAt \in {"menu", "upMi", "delAsk", "listM2", "listM3", "delM2", "outM2"}
                                 \cup Downloading => Decided = "none"

LEMMA NotDecided == (Known => Undecided) /\ (Known' => Undecided')
  <1>1. ASSUME Known, ClientHere,
               ClientAt \in {"menu", "upMi", "delAsk", "listM2", "listM3", "delM2", "outM2"}
                              \cup Downloading
        PROVE  Decided = "none"
    <2> USE <1>1 DEF Known
    <2>1. Views
      BY ViewsAre
    <2>2. ServerAt # "upEnd"
      BY <1>1, <2>1 DEF Views, Downloading
    <2>3. ASSUME Answered # <<>>
          PROVE  ~Ends(Answered[1])
      <3>1. /\ Len(Answered) \in Nat /\ Len(Answered) # 0 /\ 1 \in 1 .. Len(Answered)
            /\ Len(Answered) >= 1 /\ Answered[1] \in Message
        <4>1. Len(Answered) \in Nat /\ Len(Answered) # 0 /\ Answered \in Seq(Message)
          BY <2>3, Channels DEF TypeOK
        <4>2. 1 \in 1 .. Len(Answered) /\ Len(Answered) >= 1
          BY <4>1
        <4> QED BY <4>1, <4>2, ElementOfSeq
      <3>2. ClientTakes
        BY <1>1 DEF DialogueInv, Operations
      <3>3. Answered[1].type \in {"ListM2", "DownMi", "ListM3", "DelM2", "OutM2"}
        BY <1>1, <3>1, <3>2 DEF ClientTakes, SingleWaits, Expected, Downloading
      <3> QED BY <3>1, <3>3, EndsIs
    <2> QED BY <1>1, <2>1, <2>2, <2>3 DEF Views
  <1>2. Known => Undecided
    BY <1>1 DEF Undecided
  <1> QED BY <1>2, PTL

\* During a download the storage shows as it is.
LEMMA StoreStill ==
    ASSUME Known, ClientHere, ClientAt \in Downloading
    PROVE  StoreView = store /\ AtRisk = {} /\ s_stream # "open"
  <1> USE DEF Known
  <1>1. SUFFICES ASSUME s_stream = "open" PROVE FALSE
    BY ViewsAre DEF Views
  <1>2. ServerAt \in {"upMi", "upWrite", "upEnd", "upClose"} /\ ServerHere
    BY <1>1 DEF UploadInv, StreamInUpload, ServerHere, ServerAt, AuthPcs, Gone
  <1> QED BY <1>2, DownPlaces

\* The client writes what it has downloaded.
LEMMA ClientWrites ==
    ASSUME Known, Known', ClientDownOpen \/ ClientDownWrite
    PROVE  [Cloud!Next]_Cloud!vars
  <1> USE DEF Known
  <1> DEFINE n == IF c_pc = "downOpen" THEN 0 ELSE local[c_file] + 1
  <1>1. /\ c_pc \in {"downOpen", "downWrite"} /\ local' = [local EXCEPT ![c_file] = n]
        /\ UNCHANGED <<user, server, store, s2c, c_file>>
        /\ \/ c_pc' = "menu" /\ c_res' = "SUCCESS"
                /\ c_size = IF c_pc = "downOpen" THEN 0 ELSE c_i + 1
           \/ c_pc' = "downMi" /\ c_res' = c_res
    BY DEF ClientDownOpen, ClientDownWrite, ClientReturn
  <1>2. ClientHere /\ ClientAt = c_pc /\ ClientHere' /\ ClientAt' = c_pc'
    BY <1>1 DEF ClientHere, ClientAt, AuthPcs, Gone
  <1>3. Decided = "none" /\ Decided' = "none"
    BY <1>1, <1>2, NotDecided DEF Undecided, Downloading
  <1>4. StoreView = store /\ UNCHANGED <<StoreView, AtRisk, s_pc>>
    BY <1>1, <1>2, StoreStill DEF server, StoreView, AtRisk, Downloading
  <1>5. Doing = [kind |-> "download", name |-> c_file]
    BY <1>1, <1>2, OperationIs DEF Doing
  <1>6. c_file \in Names /\ local \in [Names -> Nat \cup {Absent}] /\ c_size = store[c_file]
    BY <1>1, <1>2 DEF TypeOK, ClientOK, DisksOK, Downloaded, Downloading
  <1>7. CASE c_pc' = "menu"
    <2>1. n = StoreView[c_file]
      BY <1>1, <1>2, <1>4, <1>6, <1>7 DEF Downloaded
    <2>2. LocalView' = local'
      BY <1>2, <1>7, ViewsAre DEF Views
    <2>3. LocalView' = [LocalView EXCEPT ![c_file] = StoreView[c_file]]
      BY <1>1, <1>6, <2>1, <2>2 DEF LocalView
    <2>4. Doing' = [kind |-> "idle"]
      BY <1>2, <1>7, OperationIs DEF Doing
    <2>5. Cloud!Tell("SUCCESS", [LocalView EXCEPT ![c_file] = StoreView[c_file]])
      BY <1>1, <1>3, <1>4, <1>7, <2>3, <2>4 DEF Cloud!Tell, Cloud!Idle
    <2>6. StoreView[c_file] # Cloud!Absent
      BY <1>1, <1>2, <1>6, <2>1 DEF Downloaded, Cloud!Absent, TypeOK, ClientOK
    <2> QED BY <1>5, <2>5, <2>6 DEF Cloud!Next, Cloud!End
  <1>8. CASE c_pc' = "downMi"
    <2>1. LocalView' = [local EXCEPT ![c_file] = Absent]
      BY <1>1, <1>2, <1>6, <1>8 DEF LocalView
    <2>2. LocalView = [local EXCEPT ![c_file] = Absent]
      <3>1. CASE c_pc = "downOpen"
        <4>1. local[c_file] = Absent /\ LocalView = local
          BY <1>2, <3>1, ViewsAre DEF Views, LocalKnown
        <4> QED BY <1>6, <4>1
      <3>2. CASE c_pc = "downWrite"
        BY <1>2, <1>6, <3>2 DEF LocalView
      <3> QED BY <1>1, <3>1, <3>2
    <2>3. Doing' = Doing
      BY <1>1, <1>2, <1>5, <1>8, OperationIs DEF Doing
    <2> QED BY <1>1, <1>3, <1>4, <1>8, <2>1, <2>2, <2>3, Stutters
  <1> QED BY <1>1, <1>7, <1>8

\* The client sends a chunk, or the answer to the question.
LEMMA ClientSays ==
    ASSUME Known, Known', ClientUpMi \/ ClientDelAsk
    PROVE  [Cloud!Next]_Cloud!vars
  <1> USE DEF Known
  <1>1. PICK type \in {"UpMi", "DelM3"}, b \in Body, next \in {"upMi", "upEnd", "delM4", "menu"} :
          /\ ToServer(Msg(type, c_key, c_ctr, b)) /\ ClientIncrement(next)
          /\ \/ c_pc = "upMi" /\ next \in {"upMi", "upEnd"} /\ c_res' = c_res
             \/ c_pc = "delAsk" /\ next = "delM4" /\ c_res' = c_res
             \/ c_pc = "delAsk" /\ next = "menu" /\ c_res' = "NO_DELETE_CONFIRM"
    <2>1. CASE ClientUpMi
      <3>1. Number(c_i) \in Body
        BY BodyTypes DEF TypeOK, ClientOK
      <3> QED BY <2>1, <3>1 DEF ClientUpMi
    <2>2. CASE ClientDelAsk
      <3>1. Code("DELETE_CONFIRM") \in Body /\ Code("NO_DELETE_CONFIRM") \in Body
        BY BodyTypes, HandlerTypes
      <3> QED BY <2>2, <3>1 DEF ClientDelAsk
    <2> QED BY <2>1, <2>2
  <1>2. UNCHANGED <<user, cAuth, c_file, server, s2c, store, local>>
    BY DEF ClientUpMi, ClientDelAsk, cOp
  <1>3. ClientHere /\ ClientAt = c_pc
    BY <1>1 DEF ClientHere, ClientAt, AuthPcs, Gone
  <1>4. ClientAt' = next /\ ClientHere' /\ Answered' = <<>>
    <2>1. next \in ClientPcs \ (AuthPcs \cup Gone) /\ type \in Types \ Handshake
      BY DEF ClientPcs, ClientReceives, ClientSends, AuthPcs, Gone, Types, Handshake
    <2> QED BY <1>1, <1>2, <2>1, ClientSendsOne
  <1>5. Decided = "none" /\ Decided' = "none"
    <2>1. Views /\ Views'
      BY ViewsAre
    <2>2. ServerAt # "upEnd" /\ ServerAt' = ServerAt
      BY <1>1, <1>2, <1>3, <2>1 DEF Views, server, ServerAt
    <2> QED BY <1>1, <1>3, <1>4, <2>1, <2>2, NotDecided DEF Undecided, Views
  <1>6. UNCHANGED <<StoreView, AtRisk, s_pc>>
    BY <1>2 DEF server, StoreView, AtRisk
  <1>7. LocalView' = LocalView
    BY <1>1, <1>2, <1>3, <1>4 DEF LocalView
  <1>8. CASE next = "menu"
    <2>1. /\ Doing = [kind |-> "delete", name |-> c_file] /\ Doing' = [kind |-> "idle"]
          /\ c_res' = "NO_DELETE_CONFIRM"
      BY <1>1, <1>3, <1>4, <1>8, OperationIs DEF Doing
    <2>2. Cloud!Tell("NO_DELETE_CONFIRM", LocalView)
      BY <1>2, <1>5, <1>6, <1>7, <2>1 DEF Cloud!Tell, Cloud!Idle
    <2> QED BY <1>5, <2>1, <2>2 DEF Cloud!Next, Cloud!End
  <1>9. CASE next # "menu"
    <2>1. Doing' = Doing /\ c_res' = c_res
      BY <1>1, <1>2, <1>3, <1>4, <1>9, OperationIs DEF Doing
    <2> QED BY <1>2, <1>5, <1>6, <1>7, <2>1, Stutters
  <1> QED BY <1>8, <1>9

\* The client takes the answer to the logout.
LEMMA ClientLogsOut ==
    ASSUME Known, Known', ClientOutM2
    PROVE  Cloud!Next
  <1> USE DEF Known
  <1>1. /\ c_pc = "outM2" /\ s2c # <<>> /\ UNCHANGED <<user, c_file, server, store, local>>
        /\ c_pc' \in {"left", "exit"} /\ c_res' = Verdict(Head(s2c), c_key, c_ctr)
    BY DEF ClientOutM2, FromServer, cOp
  <1>2. c_res' = "SUCCESS"
    BY <1>1, ClientAccepts DEF ClientReceives
  <1>3. /\ ClientHere /\ ClientAt = "outM2" /\ ~ClientHere' /\ ClientAt' \in {"left", "exit"}
    BY <1>1 DEF ClientHere, ClientAt, AuthPcs, Gone
  <1>4. Decided = "none" /\ Decided' = "none" /\ LocalView = local /\ LocalView' = local'
    BY <1>3, NotDecided, ViewsAre DEF Undecided, Views
  <1>5. Doing = [kind |-> "logout"] /\ Doing' = [kind |-> "left"]
    BY <1>3, OperationIs DEF Doing
  <1>6. UNCHANGED <<StoreView, AtRisk, s_pc>>
    BY <1>1 DEF server, StoreView, AtRisk
  <1>7. Cloud!Logout
    BY <1>1, <1>2, <1>4, <1>5, <1>6 DEF Cloud!Logout, Cloud!Left
  <1> QED BY <1>7 DEF Cloud!Next

\* What a download that was cut off has left behind.
LEMMA LeftBehind ==
    ASSUME Known, Known', ClientHere, s_pc = "crashed", local' = local,
           ClientAt' \notin {"downMi", "downWrite"}
    PROVE  LocalView' \in Cloud!Remains
  <1> USE DEF Known
  <1>1. LocalView' = local
    BY ViewsAre DEF Views
  <1>2. CASE ClientAt \notin {"downMi", "downWrite"}
    BY <1>1, <1>2, ViewsAre DEF Views, Cloud!Remains
  <1>3. CASE ClientAt \in {"downMi", "downWrite"}
    <2>1. ClientAt \in Downloading
      BY <1>3 DEF Downloading
    <2>2. StoreView = store
      BY <2>1, StoreStill
    <2>3. c_size = store[c_file] /\ local[c_file] = c_i /\ c_i \in Nat /\ c_size \in Nat
      BY <1>3, <2>1 DEF Downloaded, TypeOK, ClientOK
    <2>4. Len(Answered) \in Nat /\ ClientChunks + Len(Answered) <= c_size
      BY <2>1, Channels DEF DialogueInv, Operations, ClientTakes, TypeOK
    <2>5. ClientChunks \in {c_i, c_i + 1}
      BY <1>3 DEF ClientChunks
    <2>6. c_i \in 0 .. store[c_file]
      <3>1. \A i, k, s \in Nat : i + k <= s \/ (i + 1) + k <= s => i \in 0..s
        OBVIOUS
      <3> QED BY <2>3, <2>4, <2>5, <3>1
    <2>7. LocalView' = [LocalView EXCEPT ![c_file] = c_i]
      BY <1>1, <1>3, <2>3 DEF LocalView, TypeOK, ClientOK, DisksOK
    <2>8. Doing = [kind |-> "download", name |-> c_file]
      BY <1>3, OperationIs DEF Doing
    <2>9. StoreView[c_file] # Cloud!Absent /\ c_i \in 0 .. StoreView[c_file]
      BY <2>2, <2>3, <2>6 DEF Cloud!Absent
    <2> QED BY <2>7, <2>8, <2>9 DEF Cloud!Remains
  <1> QED BY <1>2, <1>3

\* Every operation has its kind.
LEMMA Kind ==
    ASSUME Known, ClientHere
    PROVE  /\ Doing # Cloud!Left
           /\ ClientAt # "menu" => Doing # Cloud!Idle
  <1>1. ClientAt \in {"listM2", "listM3", "downM2", "menu", "upMi", "delAsk", "downOpen", "downMi",
                      "downWrite", "upM2", "upEnd", "renM2", "delM2", "delM4", "outM2"}
    BY DEF Known, DialogueInv, Operations, ClientTakes, Downloading, SingleWaits
  <1>2. /\ ClientAt = "menu" => Doing.kind = "idle"
        /\ ClientAt # "menu" => Doing.kind \notin {"idle", "left"}
    BY <1>1, OperationIs DEF Doing
  <1> QED BY <1>2 DEF Cloud!Idle, Cloud!Left

\* A client that leaves after the crash of the server loses its operation.
LEMMA LosesAll ==
    ASSUME Known, Known', ClientHere, s_pc = "crashed", c_pc' \in {"left", "exit"},
           UNCHANGED <<user, server, store, local, c_res>>
    PROVE  Cloud!Next
  <1>1. ~ClientHere' /\ ClientAt' = c_pc'
    BY DEF ClientHere, ClientAt, AuthPcs, Gone
  <1>2. LocalView' \in Cloud!Remains
    BY <1>1, LeftBehind
  <1>3. Decided' = "none"
    BY <1>1, ViewsAre DEF Views
  <1>4. Doing' = Cloud!Left
    BY <1>1, OperationIs DEF Doing, Cloud!Left
  <1>5. UNCHANGED <<StoreView, AtRisk, s_pc>>
    BY DEF server, StoreView, AtRisk
  <1>6. Cloud!Lose
    BY <1>2, <1>3, <1>4, <1>5, Kind DEF Cloud!Lose
  <1> QED BY <1>6 DEF Cloud!Next

\* The client finds that the server has crashed.
LEMMA ClientGivesUp ==
    ASSUME Known, Known', ClientEof \/ ClientSigpipe
    PROVE  Cloud!Next
  <1> USE DEF Known
  <1>1. s_pc = "crashed" /\ UNCHANGED <<user, server, store, local>>
    BY DEF ClientEof, ClientSigpipe
  <1>2. CASE ClientSigpipe
    BY <1>1, <1>2, LosesAll DEF ClientSigpipe, ClientSends, ClientHere, Gone
  <1>3. CASE ClientEof /\ c_pc \in AuthPcs \cup {"outM2"}
    BY <1>1, <1>3, LosesAll DEF ClientEof, ClientHere, Gone, AuthPcs
  <1>4. CASE ClientEof /\ c_pc \notin AuthPcs \cup {"outM2"}
    <2>1. PICK res \in Cloud!Failures : c_pc' = "menu" /\ c_res' = res
      BY <1>4 DEF ClientEof, ClientReturn, Cloud!Failures
    <2>2. /\ ClientHere /\ ClientAt # "menu" /\ ClientHere' /\ ClientAt' = "menu"
      BY <1>4, <2>1 DEF ClientEof, ClientReceives, ClientHere, ClientAt, AuthPcs, Gone
    <2>3. LocalView' \in Cloud!Remains
      BY <1>1, <2>2, LeftBehind
    <2>4. Decided' = "none"
      BY <2>2, NotDecided DEF Undecided
    <2>5. Doing' = Cloud!Idle
      BY <2>2, OperationIs DEF Doing, Cloud!Idle
    <2>6. UNCHANGED <<StoreView, AtRisk, s_pc>>
      BY <1>1 DEF server, StoreView, AtRisk
    <2>7. Cloud!Tell(res, LocalView')
      BY <1>1, <2>1, <2>4, <2>5, <2>6 DEF Cloud!Tell
    <2>8. Cloud!Fail
      BY <1>1, <2>1, <2>2, <2>3, <2>7, Kind DEF Cloud!Fail
    <2> QED BY <2>8 DEF Cloud!Next
  <1> QED BY <1>2, <1>3, <1>4

\* All steps of the client.
LEMMA ClientActs ==
    ASSUME Known, Known', ClientStep
    PROVE  [Cloud!Next]_Cloud!vars
  <1>1. CASE ClientAuthM1 \/ ClientAuthM2 \/ ClientAuthM3 \/ ClientAuthM4 \/ ClientAuthM5
    BY <1>1, ClientHandshakes
  <1>2. CASE \/ ClientListM2 \/ ClientListM3 \/ ClientDownM2 \/ ClientDownMi \/ ClientUpM2
             \/ ClientUpEnd \/ ClientRenM2 \/ ClientDelM2 \/ ClientDelM4
    BY <1>2, ClientReplies
  <1>3. CASE ClientDownOpen \/ ClientDownWrite
    BY <1>3, ClientWrites
  <1>4. CASE ClientUpMi \/ ClientDelAsk
    BY <1>4, ClientSays
  <1>5. CASE ClientOutM2 \/ ClientEof \/ ClientSigpipe
    BY <1>5, ClientLogsOut, ClientGivesUp
  <1> QED BY <1>1, <1>2, <1>3, <1>4, <1>5 DEF ClientStep

-----------------------------------------------------------------------------
(* The steps of the server thread.                                          *)

\* What the server thread does leaves the client as it is.
LEMMA ClientSame ==
    ASSUME ServerStep \/ ServerExit
    PROVE  UNCHANGED <<user, ClientHere, ClientAt, c_pc, c_file, c_size, c_i, c_res, local,
                       LocalView>>
  <1>1. UNCHANGED <<client, local, user>>
    BY Apart DEF ServerExit
  <1> QED BY <1>1 DEF client, ClientHere, ClientAt, LocalView

\* A step that neither answers nor touches the files shows nothing.
LEMMA Aside ==
    ASSUME Known, Known', ServerStep, ClientHere, UNCHANGED <<StoreView, AtRisk, Decided>>,
           s_pc # "crashed", s_pc' # "crashed", ClientAt = "renM2" => NewName' = NewName
    PROVE  [Cloud!Next]_Cloud!vars
  <1>1. UNCHANGED <<user, ClientAt, c_file, c_res, LocalView>>
    BY ClientSame
  <1>2. Doing' = Doing
    <2>1. CASE ClientAt = "renM2"
      BY <1>1, <2>1 DEF Doing
    <2>2. CASE ClientAt # "renM2"
      BY <1>1, <2>2, OnlyRename DEF Doing
    <2> QED BY <2>1, <2>2
  <1> QED BY <1>1, <1>2, Stutters

\* The new name stays, and what has been decided.
LEMMA SameName ==
    ASSUME Known, Known', ServerStep, ServerHere, ServerHere', ClientHere,
           UNCHANGED <<Asked, s_new>>
    PROVE  ClientAt = "renM2" => NewName' = NewName
  <1>1. Views /\ Views' /\ UNCHANGED <<ClientAt, ClientHere>>
    BY ViewsAre, ClientSame
  <1>2. s_pc # "crashed" /\ s_pc' # "crashed"
    BY DEF ServerHere, Gone
  <1> QED BY <1>1, <1>2 DEF Views

LEMMA SameDecision ==
    ASSUME Known, Known', ServerStep, ClientHere, Answered' = Answered,
           ServerAt' = "upEnd" <=> ServerAt = "upEnd"
    PROVE  Decided' = Decided
  <1>1. Views /\ Views' /\ UNCHANGED <<ClientAt, ClientHere>>
    BY ViewsAre, ClientSame
  <1> QED BY <1>1 DEF Views

\* An answer decides the operation if it is one of those that end it.
LEMMA AnswerShows ==
    ASSUME Known, Known', NEW pc \in ServerSends \ (AuthPcs \cup {"outM2"}),
           NEW type \in Types \ Handshake, NEW b \in Body,
           NEW next \in ServerPcs \ (AuthPcs \cup Gone), Answer(pc, type, b, next),
           ServerStep, ClientHere, next # "upEnd"
    PROVE  /\ ServerHere /\ ServerHere' /\ ServerAt = pc /\ ServerAt' = next /\ Asked = <<>>
           /\ InOperation
           /\ ~Ends(Msg(type, s_key, s_ctr, b)) /\ pc # "upEnd" => Decided' = Decided
           /\ Answered = <<>> /\ Ends(Msg(type, s_key, s_ctr, b)) =>
                /\ Decided = IF pc = "upEnd" THEN "SUCCESS" ELSE "none"
                /\ Decided' = Outcome(b.code)
           /\ UNCHANGED <<user, s_file, s_new, s_stream, s_buf>> /\ s_pc = pc
           /\ s_pc # "crashed" /\ s_pc' # "crashed"
           /\ ClientAt = "renM2" => NewName' = NewName
  <1> USE DEF Known
  <1> DEFINE m == Msg(type, s_key, s_ctr, b)
  <1>1. /\ ServerHere /\ ServerHere' /\ ServerAt = pc /\ ServerAt' = next /\ s_pc = pc
        /\ Asked = <<>> /\ Asked' = <<>> /\ InOperation
        /\ Len(Answered) \in Nat /\ (Answered = <<>> <=> Len(Answered) = 0)
        /\ Answered' # <<>>
        /\ Answered'[Len(Answered) + 1].type = type
        /\ Answered'[Len(Answered) + 1].body = b
        /\ \A k \in 1 .. Len(Answered) : Answered'[k] = Answered[k]
    BY AnswerDialogue
  <1>2. Views /\ Views' /\ UNCHANGED <<user, ClientAt, ClientHere>>
    BY ViewsAre, ClientSame
  <1>3. CASE Answered = <<>>
    <2>1. Ends(Answered'[1]) <=> Ends(m)
      BY <1>1, <1>3 DEF Ends, Msg
    <2>2. Answered'[1].body = b
      BY <1>1, <1>3
    <2>3. /\ Decided = IF pc = "upEnd" THEN "SUCCESS" ELSE "none"
          /\ Decided' = IF Ends(m) THEN Outcome(b.code) ELSE "none"
      BY <1>1, <1>2, <1>3, <2>1, <2>2 DEF Views
    <2> QED BY <1>1, <1>2, <2>3, SameName DEF Answer, sOut, ServerHere, Gone
  <1>4. CASE Answered # <<>>
    <2>1. Answered'[1] = Answered[1]
      BY <1>1, <1>4
    <2>2. pc # "upEnd" => Decided' = Decided
      BY <1>1, <1>2, <1>4, <2>1 DEF Views
    <2> QED BY <1>1, <1>2, <1>4, <2>2, SameName DEF Answer, sOut, ServerHere, Gone
  <1> QED BY <1>3, <1>4

\* An answer that ends no operation.
LEMMA AnswersOnly ==
    ASSUME Known, Known', ClientHere, ServerStep,
           NEW pc \in ServerSends \ (AuthPcs \cup {"outM2", "upEnd"}),
           NEW type \in Types \ Handshake, NEW b \in Body,
           NEW next \in {"run", "listM3", "downMi", "delM3", "upLook"},
           Answer(pc, type, b, next), store' = store, ~Ends(Msg(type, s_key, s_ctr, b))
    PROVE  [Cloud!Next]_Cloud!vars
  <1>0. next \in ServerPcs \ (AuthPcs \cup Gone)
    BY DEF ServerPcs, ServerReceives, ServerSends, AuthPcs, Gone
  <1>1. /\ ServerAt = pc /\ ServerAt' = next /\ Decided' = Decided
        /\ s_pc # "crashed" /\ s_pc' # "crashed" /\ (ClientAt = "renM2" => NewName' = NewName)
    BY <1>0, AnswerShows
  <1>2. pc \notin {"upMi", "upWrite", "upEnd", "upClose"}
    BY DEF ServerSends
  <1>3. UNCHANGED <<StoreView, AtRisk>>
    BY <1>1, <1>2, ViewsAre DEF Views
  <1> QED BY <1>1, <1>3, Aside

\* An answer that decides its operation, and what becomes of the files.
LEMMA AnswersLast ==
    ASSUME Known, Known', ClientHere, ServerStep,
           NEW pc \in {"downM2", "upM2", "renM2", "delM4"},
           NEW type \in Types \ Handshake, NEW b \in Body, Answer(pc, type, b, "run"),
           Ends(Msg(type, s_key, s_ctr, b))
    PROVE  /\ Cloud!Decide(Outcome(b.code))
           /\ StoreView = store /\ StoreView' = store' /\ AtRisk = {} /\ AtRisk' = {}
           /\ ClientAt = pc /\ s_file = c_file
           /\ pc = "renM2" => NewName = s_new /\ s_new \in Names
           /\ store \in [Names -> Nat \cup {Absent}] /\ c_file \in Names
  <1> USE DEF Known
  <1>1. /\ pc \in ServerSends \ (AuthPcs \cup {"outM2"})
        /\ "run" \in ServerPcs \ (AuthPcs \cup Gone)
    BY DEF ServerSends, ServerPcs, ServerReceives, AuthPcs, Gone
  <1>2. /\ ServerHere /\ ServerAt = pc /\ ServerAt' = "run" /\ Asked = <<>>
        /\ UNCHANGED <<user, s_file, s_new>> /\ s_pc # "crashed" /\ s_pc' # "crashed"
        /\ (ClientAt = "renM2" => NewName' = NewName)
        /\ (Answered = <<>> => Decided = "none" /\ Decided' = Outcome(b.code))
    BY <1>1, AnswerShows
  <1>3. ClientAt = pc /\ Answered = <<>>
    <2>1. CASE pc = "delM4"
      <3>1. InDelete
        BY <1>2, <2>1, ServerPlaces
      <3> QED BY <1>2, <2>1, <3>1, Channels DEF InDelete, TypeOK
    <2>2. CASE pc # "delM4"
      BY <1>2, <2>2, ServerPlaces DEF FirstWaits, AwaitsHandler
    <2> QED BY <2>1, <2>2
  <1>4. s_file = c_file
    <2>1. Len(Asked) = 0
      BY <1>2, Channels DEF TypeOK
    <2> QED BY <1>2, <1>3, <2>1 DEF SameFile, FileOps
  <1>5. /\ Views /\ Views'
        /\ UNCHANGED <<user, ClientHere, ClientAt, c_file, c_res, LocalView>>
    BY ViewsAre, ClientSame
  <1>6. StoreView = store /\ StoreView' = store' /\ AtRisk = {} /\ AtRisk' = {}
    BY <1>2, <1>5 DEF Views
  <1>7. Doing' = Doing
    <2>1. CASE ClientAt = "renM2"
      BY <1>2, <1>5, <2>1 DEF Doing
    <2>2. CASE ClientAt # "renM2"
      BY <1>5, <2>2, OnlyRename DEF Doing
    <2> QED BY <2>1, <2>2
  <1>8. Cloud!Decide(Outcome(b.code))
    BY <1>2, <1>3, <1>5, <1>7 DEF Cloud!Decide
  <1>9. pc = "renM2" => NewName = s_new
    BY <1>2, <1>3, <1>5 DEF Views
  <1> QED BY <1>3, <1>4, <1>6, <1>8, <1>9 DEF TypeOK, ServerOK, ClientOK, DisksOK

\* The server thread answers.
LEMMA ServerAnswers ==
    ASSUME Known, Known', ClientHere, ServerStep,
           \/ ServerListM2 \/ ServerListM3 \/ ServerDownM2 \/ ServerDownMi \/ ServerUpM2
           \/ ServerUpEnd \/ ServerRenM2 \/ ServerDelM2 \/ ServerDelM4
    PROVE  [Cloud!Next]_Cloud!vars
  <1> USE HandlerTypes, BodyTypes
  <1>0. Cloud!Absent = Absent /\ s_i \in Nat /\ s_key \in Keys /\ s_ctr \in 0..MaxCounter
    BY DEF Cloud!Absent, Absent, Known, TypeOK, ServerOK
  <1>1. \A type \in Types, b \in Body :
          LET m == Msg(type, s_key, s_ctr, b) IN
          Ends(m) <=> \/ type = "UpM2" /\ b.code = "NACK"
                      \/ type = "UpEnd" /\ b.code = "ACK"
                      \/ type = "DownM2" /\ b.code = "FILE_NOT_FOUND"
                      \/ type \in {"RenM2", "DelM4"}
    <2>1. SUFFICES ASSUME NEW type \in Types, NEW b \in Body
                   PROVE  Ends(Msg(type, s_key, s_ctr, b))
                            <=> \/ type = "UpM2" /\ b.code = "NACK"
                                \/ type = "UpEnd" /\ b.code = "ACK"
                                \/ type = "DownM2" /\ b.code = "FILE_NOT_FOUND"
                                \/ type \in {"RenM2", "DelM4"}
      OBVIOUS
    <2>2. Msg(type, s_key, s_ctr, b) \in Message
      BY <1>0, MsgTypes
    <2> QED BY <2>2, EndsIs DEF Msg
  <1>2. Plain.code = "ACK" /\ \A n : Number(n).code = "ACK"
    BY DEF Plain, Number
  <1>3. CASE ServerListM2 \/ ServerListM3 \/ ServerDownMi \/ ServerDelM2
    <2>1. \A n \in Nat : Number(n) \in Body
      OBVIOUS
    <2>2. CASE ServerListM2
      BY <1>0, <1>1, <1>2, <2>2, AnswersOnly DEF ServerListM2
    <2>3. CASE ServerListM3
      BY <1>0, <1>1, <1>2, <2>3, AnswersOnly DEF ServerListM3
    <2>4. CASE ServerDownMi
      BY <1>0, <1>1, <1>2, <2>4, AnswersOnly DEF ServerDownMi
    <2>5. CASE ServerDelM2
      BY <1>0, <1>1, <1>2, <2>5, AnswersOnly DEF ServerDelM2
    <2> QED BY <1>3, <2>2, <2>3, <2>4, <2>5
  <1>4. CASE ServerDownM2
    <2>1. CASE store[s_file] = Absent
      <3>1. Answer("downM2", "DownM2", Code("FILE_NOT_FOUND"), "run") /\ store' = store
        BY <1>4, <2>1 DEF ServerDownM2
      <3>2. Ends(Msg("DownM2", s_key, s_ctr, Code("FILE_NOT_FOUND")))
        BY <1>1
      <3>3. /\ Cloud!Decide(Outcome(Code("FILE_NOT_FOUND").code))
            /\ StoreView = store /\ StoreView' = store' /\ AtRisk = {} /\ AtRisk' = {}
            /\ ClientAt = "downM2" /\ s_file = c_file
        BY <3>1, <3>2, AnswersLast
      <3>4. Doing = [kind |-> "download", name |-> c_file]
        BY <3>3, OperationIs DEF Doing
      <3>5. Cloud!DecideDownload
        BY <1>0, <2>1, <3>1, <3>3, <3>4 DEF Cloud!DecideDownload, Outcome
      <3> QED BY <3>5 DEF Cloud!Next
    <2>2. CASE store[s_file] # Absent
      <3>1. store[s_file] \in Nat
        BY <2>2 DEF Known, TypeOK, DisksOK, ServerOK, Absent
      <3> DEFINE b == [Code("DOWNLOAD_ACK") EXCEPT !.n = store[s_file]]
      <3>2. b \in Body /\ b.code = "DOWNLOAD_ACK"
        BY <3>1 DEF Body
      <3>3. PICK next \in {"run", "downMi"} : Answer("downM2", "DownM2", b, next)
        BY <1>4, <2>2 DEF ServerDownM2
      <3>4. store' = store
        BY <1>4 DEF ServerDownM2
      <3> HIDE DEF b
      <3> QED BY <1>1, <3>2, <3>3, <3>4, AnswersOnly
    <2> QED BY <2>1, <2>2
  <1>5. CASE ServerUpM2
    <2>1. CASE store[s_file] # Absent
      <3>1. Answer("upM2", "UpM2", Code("NACK"), "run") /\ store' = store
        BY <1>5, <2>1 DEF ServerUpM2
      <3>2. Ends(Msg("UpM2", s_key, s_ctr, Code("NACK")))
        BY <1>1
      <3>3. /\ Cloud!Decide(Outcome(Code("NACK").code))
            /\ StoreView = store /\ StoreView' = store' /\ AtRisk = {} /\ AtRisk' = {}
            /\ ClientAt = "upM2" /\ s_file = c_file
        BY <3>1, <3>2, AnswersLast
      <3>4. Doing = [kind |-> "upload", name |-> c_file]
        BY <3>3, OperationIs DEF Doing
      <3>5. Cloud!DecideUpload
        BY <1>0, <2>1, <3>1, <3>3, <3>4 DEF Cloud!DecideUpload, Outcome
      <3> QED BY <3>5 DEF Cloud!Next
    <2>2. CASE store[s_file] = Absent
      BY <1>1, <1>5, <2>2, AnswersOnly DEF ServerUpM2
    <2> QED BY <2>1, <2>2
  <1>6. CASE ServerUpEnd
    <2>1. Answer("upEnd", "UpEnd", Code("ACK"), "upClose") /\ UNCHANGED <<s_size, s_i, store>>
      BY <1>6 DEF ServerUpEnd
    <2>2. /\ ServerHere /\ ServerAt = "upEnd" /\ UNCHANGED <<s_file, s_stream, s_buf>>
          /\ s_pc # "crashed" /\ s_pc' # "crashed" /\ (ClientAt = "renM2" => NewName' = NewName)
          /\ (Answered = <<>> => Decided = "SUCCESS" /\ Decided' = Outcome("ACK"))
      BY <1>1, <2>1, AnswerShows
    <2>3. Answered = <<>>
      BY <2>2, ViewsAre DEF Views
    <2>4. Decided' = Decided
      BY <2>2, <2>3 DEF Outcome
    <2>5. UNCHANGED <<StoreView, AtRisk>>
      BY <2>1, <2>2 DEF StoreView, AtRisk
    <2> QED BY <2>2, <2>4, <2>5, Aside
  <1>7. CASE ServerRenM2
    <2>1. PICK code \in {"FILE_NOT_FOUND", "FILE_ALREADY_EXISTS", "ACK"} :
            /\ Answer("renM2", "RenM2", Code(code), "run")
            /\ \/ code = "FILE_NOT_FOUND" /\ store[s_file] = Absent /\ store' = store
               \/ /\ code = "FILE_ALREADY_EXISTS" /\ store[s_file] # Absent
                  /\ store[s_new] # Absent /\ store' = store
               \/ /\ code = "ACK" /\ store[s_file] # Absent /\ store[s_new] = Absent
                  /\ store' = [store EXCEPT ![s_new] = store[s_file], ![s_file] = Absent]
      BY <1>7 DEF ServerRenM2
    <2>2. Code(code) \in Body /\ Ends(Msg("RenM2", s_key, s_ctr, Code(code)))
      BY <1>1
    <2>3. /\ Cloud!Decide(Outcome(Code(code).code))
          /\ StoreView = store /\ StoreView' = store' /\ AtRisk = {} /\ AtRisk' = {}
          /\ ClientAt = "renM2" /\ s_file = c_file /\ NewName = s_new /\ s_new \in Names
          /\ store \in [Names -> Nat \cup {Absent}] /\ c_file \in Names
      BY <2>1, <2>2, AnswersLast
    <2>4. Doing = [kind |-> "rename", name |-> c_file, new |-> s_new]
      BY <2>3, OperationIs DEF Doing
    <2>5. /\ Cloud!Decide(Outcome(code)) /\ Doing.kind = "rename"
          /\ Doing.name = c_file /\ Doing.new = s_new
      BY <2>3, <2>4
    <2>6. CASE code = "FILE_NOT_FOUND"
      <3>1. Cloud!DecideRename
        BY <1>0, <2>1, <2>3, <2>5, <2>6 DEF Cloud!DecideRename, Outcome
      <3> QED BY <3>1 DEF Cloud!Next
    <2>7. CASE code = "FILE_ALREADY_EXISTS"
      <3>1. Cloud!DecideRename
        BY <1>0, <2>1, <2>3, <2>5, <2>7 DEF Cloud!DecideRename, Outcome
      <3> QED BY <3>1 DEF Cloud!Next
    <2>8. CASE code = "ACK"
      <3>1. /\ store[c_file] # Absent /\ store[s_new] = Absent
            /\ store' = [store EXCEPT ![s_new] = store[c_file], ![c_file] = Absent]
        BY <2>1, <2>3, <2>8
      <3>2. store' = [store EXCEPT ![c_file] = Absent, ![s_new] = store[c_file]]
        BY <2>3, <3>1
      <3>3. Cloud!Stores([store EXCEPT ![c_file] = Absent, ![s_new] = store[c_file]], AtRisk)
        BY <2>3, <3>2 DEF Cloud!Stores
      <3>4. Cloud!Decide("SUCCESS")
        BY <2>5, <2>8 DEF Outcome
      <3>5. Cloud!DecideRename
        BY <1>0, <2>3, <2>5, <3>1, <3>3, <3>4 DEF Cloud!DecideRename
      <3> QED BY <3>5 DEF Cloud!Next
    <2> QED BY <2>1, <2>6, <2>7, <2>8
  <1>8. CASE ServerDelM4
    <2>1. /\ store[s_file] # Absent /\ store' = [store EXCEPT ![s_file] = Absent]
          /\ Answer("delM4", "DelM4", Code("ACK"), "run")
      BY <1>8 DEF ServerDelM4
    <2>2. Ends(Msg("DelM4", s_key, s_ctr, Code("ACK")))
      BY <1>1
    <2>3. /\ Cloud!Decide(Outcome(Code("ACK").code))
          /\ StoreView = store /\ StoreView' = store' /\ AtRisk = {} /\ AtRisk' = {}
          /\ ClientAt = "delM4" /\ s_file = c_file
      BY <2>1, <2>2, AnswersLast
    <2>4. Doing = [kind |-> "delete", name |-> c_file]
      BY <2>3, OperationIs DEF Doing
    <2>5. Cloud!DecideDelete
      BY <1>0, <2>1, <2>3, <2>4 DEF Cloud!DecideDelete, Cloud!Stores, Outcome
    <2> QED BY <2>5 DEF Cloud!Next
  <1> QED BY <1>3, <1>4, <1>5, <1>6, <1>7, <1>8

\* The server thread takes a request, a chunk or the answer to its question.
LEMMA ServerListens ==
    ASSUME Known, Known', ClientHere, ServerStep, ServerRun \/ ServerUpMi \/ ServerDelM3
    PROVE  [Cloud!Next]_Cloud!vars
  <1> USE DEF Known
  <1>1. s_pc \in {"run", "upMi", "delM3"} /\ c2s # <<>> /\ c2s' = Tail(c2s)
        /\ UNCHANGED <<client, s2c, sAuth>>
    BY DEF ServerRun, ServerUpMi, ServerDelM3, FromClient
  <1>2. PICK next \in {"listM2", "downM2", "upM2", "renM2", "delM2", "outM2", "upWrite", "delM4",
                       "run"} :
          /\ ServerIncrement(next)
          /\ UNCHANGED <<sOut, store>>
          /\ s_pc # "run" => UNCHANGED sOp
          /\ s_pc = "run" => s_new' = Head(c2s).body.new /\ next # "run"
    <2>1. Verdict(Head(c2s), s_key, s_ctr) = "SUCCESS"
          /\ (s_pc = "run" => Head(c2s).type \in DOMAIN Handler)
      BY <1>1, ServerAccepts
    <2>2. CASE ServerRun
      <3>1. s_pc = "run" /\ ServerIncrement(Handler[Head(c2s).type])
            /\ s_new' = Head(c2s).body.new /\ UNCHANGED <<sOut, store>>
        BY <2>1, <2>2 DEF ServerRun
      <3> QED BY <2>1, <3>1, HandlerIs
    <2>3. CASE ServerUpMi
      BY <2>1, <2>3 DEF ServerUpMi, FromClient
    <2>4. CASE ServerDelM3
      BY <2>1, <2>4 DEF ServerDelM3, FromClient
    <2> QED BY <2>2, <2>3, <2>4
  <1>3. next \in ServerPcs \ (AuthPcs \cup Gone) /\ next # "upEnd"
    BY DEF ServerPcs, ServerReceives, ServerSends, AuthPcs, Gone
  <1>4. /\ ServerHere /\ ServerHere' /\ ServerTakes /\ ServerAt = s_pc /\ ServerAt' = next
        /\ Len(Asked) \in Nat \ {0} /\ Asked[1] = Head(c2s)
        /\ Len(Asked') = Len(Asked) - 1
        /\ \A k \in 1 .. Len(Asked) - 1 : Asked'[k] = Asked[k + 1]
        /\ Answered' = Answered
    BY <1>1, <1>2, <1>3, TakeDialogue
  <1>5. Decided' = Decided
    BY <1>1, <1>3, <1>4, SameDecision
  <1>6. UNCHANGED <<StoreView, AtRisk>>
    <2>1. CASE s_pc = "upMi"
      BY <1>2, <2>1 DEF sOut, sOp, StoreView, AtRisk
    <2>2. CASE s_pc # "upMi"
      <3>1. s_stream # "open"
        BY <1>1, <1>4, <2>2, ViewsAre DEF Views
      <3> QED BY <1>2, <3>1, ViewsAre DEF Views, sOut
    <2> QED BY <2>1, <2>2
  <1>7. ASSUME ClientAt = "renM2"
        PROVE  NewName' = NewName
    <2>1. Views /\ Views' /\ UNCHANGED <<ClientHere, ClientAt>>
          /\ s_pc # "crashed" /\ s_pc' # "crashed"
      BY <1>4, ViewsAre, ClientSame DEF ServerHere, Gone
    <2>2. /\ Asked # <<>> /\ (Asked' = <<>> <=> Len(Asked') = 0)
      <3>1. c2s' \in Seq(Message) /\ Asked' = AskedIn(c2s')
        BY DEF TypeOK, ChannelsOK, Asked
      <3>2. Asked' \in Seq(Message)
        BY <3>1, AskedIs
      <3>3. Asked' = <<>> <=> Len(Asked') = 0
        BY <3>2, EmptySeq
      <3>4. Asked # <<>>
        BY <1>4, Channels DEF TypeOK
      <3> QED BY <3>3, <3>4
    <2>3. CASE s_pc = "run"
      <3>1. Len(Asked) = 1
        BY <1>4, <2>3 DEF ServerTakes, Idle
      <3> QED BY <1>2, <1>4, <1>7, <2>1, <2>2, <2>3, <3>1 DEF Views
    <2>4. CASE s_pc = "delM3"
      <3>1. Len(Asked) = 2
        BY <1>4, <1>7, <2>4, ServerPlaces DEF AtMenu, AwaitsHandler, InDelete, FirstWaits, Idle
      <3>2. Len(Asked') = 1 /\ Asked'[1] = Asked[2]
        BY <1>4, <3>1
      <3> QED BY <1>2, <1>7, <2>1, <2>2, <3>1, <3>2 DEF Views
    <2>5. CASE s_pc = "upMi"
      <3>1. InUpload
        BY <1>4, <2>5, ServerPlaces DEF Receiving
      <3> QED BY <1>7, <3>1 DEF InUpload
    <2> QED BY <1>1, <2>3, <2>4, <2>5
  <1>8. s_pc # "crashed" /\ s_pc' # "crashed"
    BY <1>4 DEF ServerHere, Gone
  <1> QED BY <1>5, <1>6, <1>7, <1>8, Aside

\* It goes back to run() without an answer, or answers the logout.
LEMMA ServerSilent ==
    ASSUME Known, Known', ClientHere, ServerStep,
           ServerListSilent \/ ServerDelSilent \/ ServerOutM2
    PROVE  [Cloud!Next]_Cloud!vars
  <1> USE DEF Known
  <1>1. /\ s_pc \in {"listM2", "delM4", "outM2"} /\ s_pc' = "run"
        /\ UNCHANGED <<s_new, s_stream, store, c2s>>
    BY DEF ServerListSilent, ServerDelSilent, ServerOutM2, sOp, sOut
  <1>2. /\ ServerHere /\ ServerHere' /\ ServerAt = s_pc /\ ServerAt' = "run" /\ Asked' = Asked
        /\ s_pc # "crashed" /\ s_pc' # "crashed"
    BY <1>1 DEF ServerHere, ServerAt, Asked, AuthPcs, Gone
  <1>3. UNCHANGED <<StoreView, AtRisk>>
    BY <1>1, <1>2, ViewsAre DEF Views
  <1>4. Decided' = Decided
    <2>1. CASE ServerOutM2
      <3>1. ClientAt = "outM2" /\ ClientHere' /\ ClientAt' = ClientAt
        BY <1>1, <1>2, <2>1, ServerPlaces, ClientSame DEF ServerOutM2, FirstWaits
      <3> QED BY <3>1, NotDecided DEF Undecided
    <2>2. CASE ~ServerOutM2
      <3>1. Answered' = Answered
        BY <2>2 DEF ServerListSilent, ServerDelSilent, Answered
      <3> QED BY <1>1, <1>2, <3>1, SameDecision
    <2> QED BY <2>1, <2>2
  <1> QED BY <1>1, <1>2, <1>3, <1>4, SameName, Aside

\* The handshake of the server shows nothing.
LEMMA ServerHandshakes ==
    ASSUME Known, Known', ClientHere, ServerStep,
           \/ ServerUnknownUser \/ ServerAuthM1 \/ ServerAuthM2 \/ ServerAuthM3 \/ ServerAuthM4
           \/ ServerAuthM5
    PROVE  [Cloud!Next]_Cloud!vars
  <1> USE DEF Known
  <1>1. s_pc \in AuthPcs /\ ServerHere
    BY DEF ServerUnknownUser, ServerAuthM1, ServerAuthM2, ServerAuthM3, ServerAuthM4,
       ServerAuthM5, FromClient, ServerHere, AuthPcs, Gone
  <1>2. UNCHANGED <<ClientHere, ClientAt, c_file>>
    BY ClientSame
  <1>3. CASE ServerHere'
    <2>1. /\ UNCHANGED <<s_file, s_new, s_size, s_i, s_stream, s_buf, store>>
      <3>1. ~ServerLeave("done")
        BY <1>3 DEF ServerLeave, ServerHere, Gone
      <3> QED BY <3>1 DEF ServerUnknownUser, ServerAuthM1, ServerAuthM2, ServerAuthM3,
              ServerAuthM4, ServerAuthM5, sOp, sOut
    <2>2. ~ServerUnknownUser
      BY <1>3 DEF ServerUnknownUser, ServerLeave, ServerHere, Gone
    <2>3. StaysInOperation
      BY <2>2, HandshakeTaken, HandshakeKnown, HandshakeKey, HandshakeChecked, HandshakeEnds
    <2>4. UNCHANGED <<ServerAt, Asked, Answered>>
      BY <1>2, <1>3, <2>3 DEF StaysInOperation
    <2>5. Decided' = Decided
      BY <2>4, SameDecision
    <2>6. UNCHANGED <<StoreView, AtRisk>>
      BY <2>1 DEF StoreView, AtRisk
    <2>7. s_pc # "crashed" /\ s_pc' # "crashed"
      BY <1>1, <1>3 DEF ServerHere, Gone
    <2> QED BY <1>1, <1>3, <2>1, <2>4, <2>5, <2>6, <2>7, SameName, Aside
  <1>4. CASE ~ServerHere'
    <2>1. s_pc' = "done" /\ ServerLeave("done")
      <3>1. s_ret \notin Gone
        BY <1>1 DEF DialogueInv, Operations, ServerTakes, ServerAt
      <3>2. s_pc' \in Gone
        BY <1>4 DEF ServerHere
      <3>3. ServerUnknownUser \/ ServerAuthM2 \/ ServerAuthM5
        BY <3>2, Endings
      <3> QED BY <3>1, <3>2, <3>3 DEF ServerUnknownUser, ServerAuthM2, ServerAuthM5,
              ServerLeave, Gone
    <2>2. ClientAt = "menu" /\ user # "registered"
      <3>1. ClientAt' = "menu" /\ user' # "registered"
        BY <1>2, <2>1, ViewsAre DEF Views
      <3> QED BY <1>2, <3>1, ClientSame
    <2>3. ServerAt = "run"
      BY <1>1, <2>2 DEF KeptOut, ServerAt, AuthPcs, Gone
    <2>4. s_stream = "closed" /\ s_stream' = "closed" /\ store' = store
      BY <2>1, <2>3, ViewsAre DEF Views, ServerLeave
    <2>5. UNCHANGED <<StoreView, AtRisk>>
      BY <2>4, ViewsAre DEF Views
    <2>6. Decided' = Decided
      BY <1>2, <2>2, NotDecided DEF Undecided
    <2>7. s_pc # "crashed"
      BY <1>1 DEF AuthPcs
    <2> QED BY <2>1, <2>2, <2>5, <2>6, <2>7, Aside
  <1> QED BY <1>3, <1>4

\* The file of an upload is looked for and created: it does not show.
LEMMA ServerOpens ==
    ASSUME Alone, Known, Known', ClientHere, ServerStep, ServerUpLook \/ ServerUpCreate
    PROVE  [Cloud!Next]_Cloud!vars
  <1> USE DEF Known
  <1>1. /\ s_pc \in {"upLook", "upCreate"}
        /\ UNCHANGED <<s_file, s_new, s_size, s_i, s_buf, c2s, s2c>>
    BY DEF ServerUpLook, ServerUpCreate, sOp, sOut
  <1>2. /\ ServerHere /\ ServerAt \in {"upLook", "upCreate"} /\ Asked' = Asked
        /\ Answered' = Answered /\ s_pc # "crashed"
    BY <1>1 DEF ServerHere, ServerAt, Asked, Answered, AuthPcs, Gone
  <1>3. InUpload
    BY <1>2, ServerPlaces DEF Receiving
  <1>4. s_size > 0 /\ s_size \in Nat /\ s_i = 0
    <2>1. s_i = 0 /\ s_size \in Nat
      BY <1>2 DEF TypeOK, ServerOK, UploadInv, StreamInUpload
    <2>2. \/ s_size = c_size /\ c_size > 0
          \/ s_i < s_size
      BY <1>2, <1>3 DEF InUpload, Idle
    <2> QED BY <2>1, <2>2
  <1>5. /\ store[s_file] = Absent /\ StoreView = store /\ AtRisk = {} /\ ~s_buf
        /\ s_stream = "closed"
    BY <1>2, ViewsAre DEF Views, Opened, UploadInv, StreamInUpload
  <1>6. \/ s_pc' = "upCreate" /\ s_stream' = "closed" /\ store' = store
        \/ s_pc' = "upMi" /\ s_stream' = "open" /\ store' = [store EXCEPT ![s_file] = 0]
    BY <1>4, <1>5 DEF ServerUpLook, ServerUpCreate, FirstChunk, sOut, Alone
  <1>7. ServerHere' /\ ServerAt' = s_pc' /\ s_pc' # "crashed" /\ ServerAt' # "upEnd"
    BY <1>6 DEF ServerHere, ServerAt, AuthPcs, Gone
  <1>8. Decided' = Decided
    BY <1>2, <1>7, SameDecision
  <1>9. StoreView' = StoreView
    BY <1>1, <1>4, <1>5, <1>6 DEF StoreView, TypeOK, DisksOK, ServerOK
  <1>10. AtRisk' = AtRisk
    BY <1>1, <1>5 DEF AtRisk
  <1> QED BY <1>1, <1>2, <1>7, <1>8, <1>9, <1>10, SameName, Aside

\* A chunk is written: the file shows, and the upload is decided, when it is the last.
LEMMA ServerWrites ==
    ASSUME Alone, Known, Known', ClientHere, ServerStep, ServerUpWrite
    PROVE  [Cloud!Next]_Cloud!vars
  <1> USE DEF Known
  <1>1. /\ s_pc = "upWrite" /\ UNCHANGED <<s_file, s_new, s_size, s_stream, c2s, s2c>>
        /\ s_i' = s_i + 1
        /\ s_buf' \in (IF s_stream = "open" /\ s_i + 1 = s_size THEN BOOLEAN ELSE {FALSE})
        /\ store' = IF s_stream = "open" /\ ~s_buf'
                    THEN [store EXCEPT ![s_file] = @ + 1] ELSE store
        /\ s_pc' = IF s_i + 1 = s_size THEN "upEnd" ELSE "upMi"
    BY DEF ServerUpWrite
  <1>2. /\ ServerHere /\ ServerAt = "upWrite" /\ ServerHere' /\ ServerAt' = s_pc'
        /\ Asked' = Asked /\ Answered' = Answered /\ s_pc # "crashed" /\ s_pc' # "crashed"
    BY <1>1 DEF ServerHere, ServerAt, Asked, Answered, AuthPcs, Gone
  <1>3. InUpload
    BY <1>2, ServerPlaces DEF Receiving
  <1>4. /\ s_stream = "open" /\ ~s_buf /\ s_file = c_file /\ AtRisk = {}
        /\ s_i < s_size /\ s_size = c_size /\ s_i \in Nat /\ s_size \in Nat
        /\ ClientAt \in {"upMi", "upEnd"} /\ Len(Answered) = 0
    <2>1. s_stream = "open" /\ ~s_buf
      BY <1>2 DEF Opened, UploadInv, StreamInUpload
    <2>2. /\ s_i < s_size /\ s_size = c_size /\ ClientAt \in {"upMi", "upEnd"}
          /\ Len(Answered) = 0
      BY <1>2, <1>3 DEF InUpload, Idle
    <2>3. ~\E k \in 1 .. Len(Asked) : IsRequest(Asked[k])
      BY <1>2, <2>2, FilePlaces DEF FileOps, Receiving
    <2>4. Len(Asked) > 0 => Len(Asked) \in 1 .. Len(Asked)
      BY Channels DEF TypeOK
    <2>5. s_file = c_file
      BY <1>2, <2>2, <2>3, <2>4 DEF SameFile, FileOps
    <2> QED BY <2>1, <2>2, <2>5 DEF AtRisk, TypeOK, ServerOK
  <1>5. StoreView = [store EXCEPT ![c_file] = Absent]
    BY <1>4 DEF StoreView, TypeOK, DisksOK, ClientOK
  <1>6. CASE s_i + 1 # s_size
    <2>1. s_pc' = "upMi" /\ ~s_buf' /\ s_i' < s_size' /\ s_stream' = "open"
          /\ store' = [store EXCEPT ![s_file] = @ + 1]
      BY <1>1, <1>4, <1>6
    <2>2. Decided' = Decided
      BY <1>2, <2>1, SameDecision
    <2>3. StoreView' = StoreView
      BY <1>1, <1>4, <1>5, <2>1 DEF StoreView, TypeOK, DisksOK, ClientOK
    <2>4. AtRisk' = AtRisk
      BY <1>4, <2>1 DEF AtRisk
    <2> QED BY <1>1, <1>2, <2>2, <2>3, <2>4, SameName, Aside
  <1>7. CASE s_i + 1 = s_size
    <2>1. s_pc' = "upEnd" /\ ~(s_i' < s_size') /\ s_stream' = "open" /\ s_buf' \in BOOLEAN
          /\ s_i' = s_size
      BY <1>1, <1>4, <1>7
    <2>2. UNCHANGED <<user, ClientHere, ClientAt, c_file, c_size, c_res, local, LocalView>>
      BY ClientSame
    <2>3. ClientAt = "upEnd"
      BY <1>2, <2>1, <2>2, ViewsAre DEF Views
    <2>4. Decided = "none" /\ Decided' = "SUCCESS"
      <3>1. Answered = <<>>
        BY <1>4, Channels DEF TypeOK
      <3> QED BY <1>2, <2>1, <2>2, <3>1, ViewsAre DEF Views
    <2>5. Doing = [kind |-> "upload", name |-> c_file] /\ Doing' = Doing
      BY <2>2, <2>3, OperationIs DEF Doing
    <2>6. LocalView = local /\ c_size = local[c_file]
      BY <2>3, ViewsAre DEF Views, LocalKnown
    <2>7. store'[c_file] + (IF s_buf' THEN 1 ELSE 0) = c_size
      <3>1. UploadPrefix'
        BY DEF UploadInv
      <3> QED BY <1>1, <1>4, <2>1, <3>1 DEF UploadPrefix
    <2>8. StoreView' = [StoreView EXCEPT ![c_file] = LocalView[c_file]]
      <3>1. \A f \in Names \ {c_file} : store'[f] = store[f]
        BY <1>1, <1>4 DEF TypeOK, DisksOK
      <3>2. StoreView' = [f \in Names |-> IF f = c_file THEN c_size ELSE store'[f]]
        BY <1>1, <1>4, <2>1, <2>7 DEF StoreView
      <3> QED BY <1>5, <2>6, <3>1, <3>2 DEF TypeOK, DisksOK, ClientOK
    <2>9. AtRisk' \in {{c_file}, {}}
      BY <1>1, <1>4, <2>1 DEF AtRisk
    <2>10. StoreView[c_file] = Cloud!Absent
      BY <1>5 DEF Cloud!Absent, Absent, TypeOK, DisksOK, ClientOK
    <2>11. Cloud!Decide("SUCCESS")
      BY <1>2, <2>2, <2>4, <2>5 DEF Cloud!Decide
    <2>12. Cloud!DecideUpload
      BY <2>5, <2>8, <2>9, <2>10, <2>11 DEF Cloud!DecideUpload, Cloud!Stores
    <2> QED BY <2>12 DEF Cloud!Next
  <1> QED BY <1>6, <1>7

\* The file is closed, and its last chunk written out if it is still in the buffer.
LEMMA ServerCloses ==
    ASSUME Alone, Known, Known', ClientHere, ServerStep, ServerUpClose
    PROVE  [Cloud!Next]_Cloud!vars
  <1> USE DEF Known
  <1>1. /\ s_pc = "upClose" /\ s_pc' = "run" /\ UNCHANGED <<s_file, s_new, s_size, s_i, c2s, s2c>>
        /\ s_stream' = "closed" /\ ~s_buf'
        /\ store' = IF s_stream = "open" /\ s_buf
                    THEN [store EXCEPT ![s_file] = @ + 1] ELSE store
    BY DEF ServerUpClose, ServerLeave, sOp
  <1>2. /\ ServerHere /\ ServerAt = "upClose" /\ ServerHere' /\ ServerAt' = "run"
        /\ Asked' = Asked /\ Answered' = Answered /\ s_pc # "crashed" /\ s_pc' # "crashed"
    BY <1>1 DEF ServerHere, ServerAt, Asked, Answered, AuthPcs, Gone
  <1>3. s_stream = "open" /\ s_i = s_size /\ s_size \in Nat
    BY <1>2 DEF Opened, TypeOK, ServerOK
  <1>4. StoreView' = store' /\ AtRisk' = {}
    BY <1>1, ViewsAre DEF Views
  <1>5. StoreView' = StoreView
    <2>1. store \in [Names -> Nat \cup {-1}] /\ s_file \in Names /\ s_buf \in BOOLEAN
      BY DEF TypeOK, DisksOK, ServerOK, Absent
    <2>2. ~(s_i < s_size)
      BY <1>3
    <2>3. StoreView = [f \in Names |->
                         IF f = s_file THEN store[f] + (IF s_buf THEN 1 ELSE 0) ELSE store[f]]
      BY <1>3, <2>2 DEF StoreView
    <2>4. CASE s_buf
      BY <1>1, <1>3, <1>4, <2>1, <2>3, <2>4
    <2>5. CASE ~s_buf
      <3>1. \A f \in Names : store[f] + 0 = store[f]
        BY <2>1
      <3>2. StoreView = [f \in Names |-> store[f]] /\ store' = store
        BY <1>1, <2>3, <2>5, <3>1
      <3> QED BY <1>4, <2>1, <3>2
    <2> QED BY <2>4, <2>5
  <1>6. Decided' = Decided
    BY <1>2, SameDecision
  <1>7. CASE ~s_buf
    <2>1. AtRisk = {}
      BY <1>7 DEF AtRisk
    <2> QED BY <1>1, <1>2, <1>4, <1>5, <1>6, <2>1, SameName, Aside
  <1>8. CASE s_buf
    <2>1. AtRisk # {}
      BY <1>3, <1>8 DEF AtRisk
    <2>2. UNCHANGED <<user, ClientAt, c_file, c_res, LocalView>>
      BY ClientSame
    <2>3. Doing' = Doing
      <3>1. CASE ClientAt = "renM2"
        BY <1>1, <1>2, <2>2, <3>1, SameName DEF Doing
      <3>2. CASE ClientAt # "renM2"
        BY <2>2, <3>2, OnlyRename DEF Doing
      <3> QED BY <3>1, <3>2
    <2>4. Cloud!Flush
      BY <1>2, <1>4, <1>5, <1>6, <2>1, <2>2, <2>3 DEF Cloud!Flush
    <2> QED BY <2>4 DEF Cloud!Next
  <1> QED BY <1>7, <1>8

\* After the client has left nothing shows any more.
LEMMA ServerAfterwards ==
    ASSUME Known, Known', ~ClientHere, ServerStep
    PROVE  [Cloud!Next]_Cloud!vars
  <1> USE DEF Known
  <1>1. c_pc \in {"left", "exit"} /\ ClientAt = c_pc
    BY DEF ClientHere, Gone, TypeOK, ClientOK, ClientPcs, ClientReceives, ClientSends, ClientAt,
       AuthPcs
  <1>2. ServerHere
    BY DEF ServerStep, ServerHere, Gone, ServerReceives, ServerSends,
       ServerUnknownUser, ServerAuthM1, ServerAuthM2, ServerAuthM3, ServerAuthM4,
       ServerAuthM5, ServerRun, ServerListSilent, ServerListM2, ServerListM3, ServerDownM2,
       ServerDownMi, ServerUpM2, ServerUpLook, ServerUpCreate, ServerUpMi, ServerUpWrite,
       ServerUpEnd, ServerUpClose, ServerRenM2, ServerDelM2, ServerDelM3,
       ServerDelSilent, ServerDelM4, ServerOutM2, ServerEof, ServerSigpipe, Answer, FromClient
  <1>3. s_pc = "run" /\ c2s = <<>> /\ ServerAt = "run"
    BY <1>1, <1>2 DEF LeftInOrder, ServerAt, AuthPcs
  <1>4. ServerEof
    BY <1>3 DEF ServerStep, ServerUnknownUser, ServerAuthM1, ServerAuthM2, ServerAuthM3,
       ServerAuthM4, ServerAuthM5, ServerRun, ServerListSilent, ServerListM2, ServerListM3,
       ServerDownM2, ServerDownMi, ServerUpM2, ServerUpLook, ServerUpCreate, ServerUpMi,
       ServerUpWrite,
       ServerUpEnd, ServerUpClose, ServerRenM2, ServerDelM2, ServerDelM3, ServerDelSilent,
       ServerDelM4, ServerOutM2, ServerSigpipe, ServerSends, Answer, FromClient
  <1>5. s_stream = "closed" /\ s_stream' = "closed" /\ store' = store /\ s_pc' = "done"
    BY <1>3, <1>4, ViewsAre DEF Views, ServerEof, ServerLeave
  <1>6. UNCHANGED <<user, ClientHere, ClientAt, c_file, c_res, LocalView>>
    BY ClientSame
  <1>7. Decided = "none" /\ Decided' = "none" /\ UNCHANGED <<StoreView, AtRisk>>
    BY <1>5, <1>6, ViewsAre DEF Views
  <1>8. Doing' = Doing
    BY <1>1, <1>6, OperationIs DEF Doing
  <1> QED BY <1>3, <1>5, <1>6, <1>7, <1>8, Stutters

\* All steps of the server thread.
LEMMA ServerActs ==
    ASSUME Alone, Known, Known', ServerStep
    PROVE  [Cloud!Next]_Cloud!vars
  <1>1. CASE ~ClientHere
    BY <1>1, ServerAfterwards
  <1>2. CASE ClientHere
    <2>1. CASE \/ ServerListM2 \/ ServerListM3 \/ ServerDownM2 \/ ServerDownMi \/ ServerUpM2
               \/ ServerUpEnd \/ ServerRenM2 \/ ServerDelM2 \/ ServerDelM4
      BY <1>2, <2>1, ServerAnswers
    <2>2. CASE ServerRun \/ ServerUpMi \/ ServerDelM3
      BY <1>2, <2>2, ServerListens
    <2>3. CASE ServerListSilent \/ ServerDelSilent \/ ServerOutM2
      BY <1>2, <2>3, ServerSilent
    <2>4. CASE \/ ServerUnknownUser \/ ServerAuthM1 \/ ServerAuthM2 \/ ServerAuthM3
               \/ ServerAuthM4 \/ ServerAuthM5
      BY <1>2, <2>4, ServerHandshakes
    <2>5. CASE ServerUpLook \/ ServerUpCreate \/ ServerUpWrite \/ ServerUpClose
      BY <1>2, <2>5, ServerOpens, ServerWrites, ServerCloses
    <2>6. CASE ServerEof \/ ServerSigpipe
      BY <1>2, <2>6 DEF ServerEof, ServerSigpipe, ClientHere, Gone
    <2> QED BY <2>1, <2>2, <2>3, <2>4, <2>5, <2>6 DEF ServerStep
  <1> QED BY <1>1, <1>2

-----------------------------------------------------------------------------
(* The crash of the server process.                                         *)

\* A rename is under way at one place of the client, an upload at three.
LEMMA Places ==
    ASSUME Known
    PROVE  /\ Doing.kind = "rename" => ClientAt = "renM2" /\ ClientHere
           /\ Doing.kind = "upload" => ClientAt \in {"upM2", "upMi", "upEnd"} /\ ClientHere
           /\ ~ClientHere => ClientAt \in {"left", "exit"} /\ c_pc \in {"left", "exit"}
  <1> USE DEF Known
  <1>1. CASE ClientHere
    <2>1. ClientAt \in {"listM2", "listM3", "downM2", "menu", "upMi", "delAsk", "downOpen",
                        "downMi", "downWrite", "upM2", "upEnd", "renM2", "delM2", "delM4",
                        "outM2"}
      BY <1>1 DEF DialogueInv, Operations, ClientTakes, Downloading, SingleWaits
    <2>2. ClientAt \notin {"renM2", "upM2", "upMi", "upEnd"} =>
            Doing.kind \notin {"rename", "upload"}
      BY <2>1, OperationIs DEF Doing
    <2>3. /\ ClientAt = "renM2" => Doing.kind = "rename"
          /\ ClientAt \in {"upM2", "upMi", "upEnd"} => Doing.kind = "upload"
      BY OperationIs DEF Doing
    <2> QED BY <1>1, <2>2, <2>3
  <1>2. CASE ~ClientHere
    <2>1. c_pc \in {"left", "exit"} /\ ClientAt = c_pc
      BY <1>2 DEF ClientHere, Gone, TypeOK, ClientOK, ClientPcs, ClientReceives, ClientSends,
         ClientAt, AuthPcs
    <2>2. Doing.kind = "left"
      BY <2>1, OperationIs DEF Doing
    <2> QED BY <1>2, <2>1, <2>2
  <1> QED BY <1>1, <1>2

\* An answer that is cut off may have been the one that decided.
LEMMA CutDecision ==
    ASSUME Known, Known', ServerExit
    PROVE  Decided' \in {Decided, "none"}
  <1> USE DEF Known
  <1>1. s_pc' = "crashed" /\ s2c' \in Prefixes(s2c)
    BY DEF ServerExit
  <1>2. ServerAt' # "upEnd"
    BY <1>1 DEF ServerAt, AuthPcs
  <1>3. UNCHANGED <<ClientHere, ClientAt>> /\ Views /\ Views'
    BY ClientSame, ViewsAre
  <1>4. CASE ~ClientHere
    BY <1>3, <1>4 DEF Views
  <1>5. CASE ClientHere /\ Answered' # <<>> /\ Ends(Answered'[1])
    <2>1. /\ Len(Answered') \in Nat /\ Len(Answered) \in Nat /\ Len(Answered') <= Len(Answered)
          /\ \A k \in 1 .. Len(Answered') : Answered'[k] = Answered[k]
      BY <1>1, AnsweredCut DEF Answered, TypeOK, ChannelsOK
    <2>2. Answered' \in Seq(Message) /\ Answered \in Seq(Message)
      BY AnsweredIs DEF Answered, TypeOK, ChannelsOK
    <2>3. Len(Answered') # 0
      BY <1>5, <2>2, EmptySeq
    <2>4. 1 \in 1 .. Len(Answered') /\ Len(Answered) # 0
      BY <2>1, <2>3
    <2>5. Answered'[1] = Answered[1] /\ Answered # <<>>
      BY <2>1, <2>2, <2>4, EmptySeq
    <2> QED BY <1>3, <1>5, <2>5 DEF Views
  <1>6. CASE ClientHere /\ ~(Answered' # <<>> /\ Ends(Answered'[1]))
    BY <1>2, <1>3, <1>6 DEF Views
  <1> QED BY <1>4, <1>5, <1>6

\* What the crash leaves of the files, if the storage shows as it is ...
LEMMA CrashKeeps ==
    ASSUME Known, AtRisk = {}, StoreView = store
    PROVE  IF Doing.kind = "upload" /\ Decided = "none"
              /\ StoreView[Doing.name] = Cloud!Absent
           THEN \E k \in Cloud!Absent .. LocalView[Doing.name] - 1 :
                  store = [StoreView EXCEPT ![Doing.name] = k]
           ELSE store = StoreView
  <1>1. SUFFICES ASSUME Doing.kind = "upload", StoreView[Doing.name] = Cloud!Absent
                 PROVE  \E k \in Cloud!Absent .. LocalView[Doing.name] - 1 :
                          store = [StoreView EXCEPT ![Doing.name] = k]
    OBVIOUS
  <1>2. ClientAt \in {"upM2", "upMi", "upEnd"} /\ ClientHere
    BY <1>1, Places
  <1>3. Doing.name = c_file /\ LocalView = local /\ local[c_file] = c_size /\ c_size \in Nat
    BY <1>2, OperationIs, ViewsAre DEF Doing, Views, Known, LocalKnown, TypeOK, ClientOK
  <1>4. Cloud!Absent \in Cloud!Absent .. LocalView[Doing.name] - 1
    BY <1>3 DEF Cloud!Absent
  <1>5. store = [store EXCEPT ![c_file] = store[c_file]]
    BY DEF Known, TypeOK, DisksOK
  <1> QED BY <1>1, <1>3, <1>4, <1>5

\* ... and if an upload is under way.
LEMMA CrashCuts ==
    ASSUME Known, AtRisk = {}, s_stream = "open", s_i < s_size
    PROVE  /\ Doing.kind = "upload" /\ Decided = "none"
           /\ StoreView[Doing.name] = Cloud!Absent
           /\ \E k \in Cloud!Absent .. LocalView[Doing.name] - 1 :
                store = [StoreView EXCEPT ![Doing.name] = k]
  <1> USE DEF Known
  <1>1. ServerAt \in {"upMi", "upWrite", "upEnd", "upClose"} /\ ServerHere
    BY DEF UploadInv, StreamInUpload, ServerHere, ServerAt, AuthPcs, Gone
  <1>2. ServerAt \in {"upMi", "upWrite"} /\ s_size \in Nat /\ s_i \in Nat /\ ~s_buf
    BY <1>1 DEF Opened, TypeOK, ServerOK, AtRisk
  <1>3. ClientHere
    BY <1>1, <1>2, Places DEF LeftInOrder, ServerAt, AuthPcs
  <1>4. InUpload
    BY <1>1, <1>2, <1>3, ServerPlaces DEF Receiving
  <1>5. /\ ClientAt \in {"upM2", "upMi", "upEnd"} /\ s_size = c_size
        /\ \/ ClientAt = "upM2" /\ Len(Answered) = 1 /\ Answered[1].body.code # "NACK"
           \/ Len(Answered) = 0
    BY <1>2, <1>4 DEF InUpload, Idle, Receiving
  <1>6. Decided = "none"
    <2>1. CASE Len(Answered) = 0
      <3>1. Answered = <<>>
        BY <2>1, Channels DEF TypeOK
      <3> QED BY <1>2, <1>3, <3>1, ViewsAre DEF Views
    <2>2. CASE ClientAt = "upM2" /\ Len(Answered) = 1 /\ Answered[1].body.code # "NACK"
      <3>1. Answered[1].type = "UpM2"
        BY <1>3, <2>2 DEF DialogueInv, Operations, ClientTakes, SingleWaits, Expected
      <3>2. ~Ends(Answered[1])
        BY <2>2, <3>1 DEF Ends, Decisions
      <3> QED BY <1>2, <1>3, <3>2, ViewsAre DEF Views
    <2> QED BY <1>5, <2>1, <2>2
  <1>7. s_file = c_file
    <2>1. \A k \in 1 .. Len(Asked) : ~IsRequest(Asked[k])
      BY <1>1, <1>2, <1>3, <1>5, FilePlaces DEF FileOps, Receiving
    <2>2. Len(Asked) > 0 => Len(Asked) \in 1 .. Len(Asked)
      BY Channels DEF TypeOK
    <2> QED BY <1>1, <1>3, <1>5, <2>1, <2>2 DEF SameFile, FileOps
  <1>8. store[c_file] = s_i
    <2>1. store[c_file] + 0 = store[c_file]
      BY DEF TypeOK, DisksOK, ClientOK, Absent
    <2> QED BY <1>2, <1>7, <2>1 DEF UploadInv, UploadPrefix
  <1>9. StoreView = [store EXCEPT ![c_file] = Absent]
    BY <1>7 DEF StoreView, TypeOK, DisksOK, ClientOK
  <1>10. LocalView[c_file] = c_size
    BY <1>3, <1>5, ViewsAre DEF Views, LocalKnown
  <1>11. Doing = [kind |-> "upload", name |-> c_file]
    BY <1>5, OperationIs DEF Doing
  <1>12. StoreView[c_file] = Absent /\ store = [StoreView EXCEPT ![c_file] = s_i]
    BY <1>8, <1>9 DEF TypeOK, DisksOK, ClientOK
  <1>13. s_i \in Cloud!Absent .. LocalView[c_file] - 1
    BY <1>2, <1>5, <1>10 DEF Cloud!Absent
  <1> QED BY <1>6, <1>11, <1>12, <1>13 DEF Cloud!Absent, Absent

\* The server process ends at any moment.
LEMMA Crashes ==
    ASSUME Known, Known', ServerExit
    PROVE  Cloud!Next
  <1> USE DEF Known
  <1>1. /\ ServerMayExit /\ s_pc # "crashed" /\ s_pc' = "crashed" /\ s_stream' = "closed"
        /\ UNCHANGED <<user, store, s_ret>>
    BY DEF ServerExit
  <1>2. UNCHANGED <<ClientHere, ClientAt, c_file, c_res, LocalView>>
    BY ClientSame
  <1>3. StoreView' = store /\ AtRisk' = {}
    BY <1>1, ViewsAre DEF Views
  <1>4. Doing' = IF Doing.kind = "rename" THEN [Doing EXCEPT !.new = Doing.name] ELSE Doing
    <2>1. CASE ClientAt = "renM2"
      <3>1. ClientHere'
        BY <1>2, <2>1 DEF ClientHere, ClientAt, AuthPcs, Gone
      <3>2. NewName' = c_file
        BY <1>1, <1>2, <2>1, <3>1, ViewsAre DEF Views
      <3>3. /\ Doing = [kind |-> "rename", name |-> c_file, new |-> NewName]
            /\ Doing' = [kind |-> "rename", name |-> c_file, new |-> c_file]
        BY <1>2, <2>1, <3>2, OperationIs DEF Doing
      <3> QED BY <3>3
    <2>2. CASE ClientAt # "renM2"
      BY <1>2, <2>2, OnlyRename, Places DEF Doing
    <2> QED BY <2>1, <2>2
  <1>5. CASE AtRisk # {}
    <2>1. s_stream = "open" /\ s_buf /\ AtRisk = {s_file}
      BY <1>5 DEF AtRisk
    <2>2. ServerAt \in {"upEnd", "upClose"} /\ ServerHere
      BY <2>1 DEF UploadInv, StreamInUpload, ServerHere, ServerAt, AuthPcs, Gone
    <2>3. ~(s_i < s_size)
      BY <2>2 DEF Opened, TypeOK, ServerOK
    <2>4. store \in [Names -> Nat \cup {-1}]
      BY DEF TypeOK, DisksOK, Absent
    <2>5. StoreView = [f \in Names |-> IF f = s_file THEN store[f] + 1 ELSE store[f]]
      BY <2>1, <2>3 DEF StoreView
    <2>6. store = [f \in Names |->
                     IF f \in AtRisk THEN StoreView[f] - 1 ELSE StoreView[f]]
      BY <2>1, <2>4, <2>5
    <2>7. Cloud!Crash
      BY <1>1, <1>2, <1>3, <1>4, <1>5, <2>6, CutDecision DEF Cloud!Crash
    <2> QED BY <2>7 DEF Cloud!Next
  <1>6. CASE AtRisk = {}
    <2>1. IF Doing.kind = "upload" /\ Decided = "none"
             /\ StoreView[Doing.name] = Cloud!Absent
          THEN \E k \in Cloud!Absent .. LocalView[Doing.name] - 1 :
                 store = [StoreView EXCEPT ![Doing.name] = k]
          ELSE store = StoreView
      <3>1. CASE s_stream = "open" /\ s_i < s_size
        BY <1>6, <3>1, CrashCuts
      <3>2. CASE ~(s_stream = "open" /\ s_i < s_size)
        <4>1. StoreView = store
          <5>1. CASE s_stream # "open"
            BY <5>1, ViewsAre DEF Views
          <5>2. CASE s_stream = "open"
            <6>1. ~s_buf
              BY <1>6, <5>2 DEF AtRisk
            <6>2. \A f \in Names : store[f] + 0 = store[f]
              BY DEF TypeOK, DisksOK, Absent
            <6> QED BY <3>2, <5>2, <6>1, <6>2 DEF StoreView, TypeOK, DisksOK
          <5> QED BY <5>1, <5>2
        <4> QED BY <1>6, <4>1, CrashKeeps
      <3> QED BY <3>1, <3>2
    <2>2. Cloud!Crash
      BY <1>1, <1>2, <1>3, <1>4, <1>6, <2>1, CutDecision DEF Cloud!Crash
    <2> QED BY <2>2 DEF Cloud!Next
  <1> QED BY <1>5, <1>6

-----------------------------------------------------------------------------
(* The whole.                                                               *)

\* It starts as promised.
LEMMA StartsAsPromised ==
    ASSUME Init, Known
    PROVE  Cloud!Init
  <1>1. ClientAt = "menu" /\ ClientHere /\ ServerAt # "upEnd" /\ s_pc # "crashed"
    BY DEF Init, ClientAt, ClientHere, ServerAt, AuthPcs, Gone
  <1>2. StoreView = store /\ AtRisk = {} /\ LocalView = local
    BY <1>1, ViewsAre DEF Init, Views
  <1>3. Doing = Cloud!Idle
    BY <1>1, OperationIs DEF Doing, Cloud!Idle
  <1>4. Decided = "none"
    BY <1>1, NotDecided DEF Undecided
  <1>5. store \in [Names -> Cloud!Sizes] /\ local \in [Names -> Cloud!Sizes]
    <2>1. Cloud!Sizes = Sizes /\ Absent \in Sizes
      BY FilesAssumption DEF Cloud!Sizes, Cloud!Absent, Sizes, Absent
    <2> QED BY <2>1 DEF Init
  <1>6. user \in {"registered", "mismatched", "unreadable", "unknown"}
    BY UsersAssumption DEF Init, Kinds
  <1> QED BY <1>1, <1>2, <1>3, <1>4, <1>5, <1>6 DEF Init, Cloud!Init

\* Every step is one of the promised steps, or shows nothing.
LEMMA StepsAsPromised ==
    ASSUME Alone, Known, Known', [Next]_vars
    PROVE  [Cloud!Next]_Cloud!vars
  <1>1. CASE UserStep
    BY <1>1, UserActs
  <1>2. CASE ClientStep
    BY <1>2, ClientActs
  <1>3. CASE ServerStep
    BY <1>3, ServerActs
  <1>4. CASE ServerExit
    BY <1>4, Crashes
  <1>5. CASE ClientExit \/ OtherSession
    BY <1>5 DEF Alone, ClientExit, OtherSession
  <1>6. CASE UNCHANGED vars
    <2>1. UNCHANGED <<user, StoreView, AtRisk, ClientAt, c_file, NewName, LocalView, c_res, s_pc>>
      BY <1>6 DEF vars, client, server, StoreView, AtRisk, ClientAt, NewName, LocalView
    <2>2. UNCHANGED <<Decided, Doing>>
      BY <1>6, <2>1 DEF vars, server, Decided, Doing, Final, ServerAt
    <2> QED BY <2>1, <2>2, Stutters
  <1> QED BY <1>1, <1>2, <1>3, <1>4, <1>5, <1>6 DEF Next

\* One session by itself is an atomic store for its user, for any number of files, chunks
\* and messages per key, whether or not the user is registered and wherever the server
\* process ends: the messages, keys and counters of Client.cpp and Server.cpp implement
\* operations that each take effect at one moment, and whose result the user is told.
THEOREM Refines ==
    ASSUME Alone
    PROVE  Spec => ActsAtomically
  <1>1. Init /\ Known => Cloud!Init
    BY StartsAsPromised
  <1>2. Known /\ Known' /\ [Next]_vars => [Cloud!Next]_Cloud!vars
    BY StepsAsPromised
  <1> QED BY <1>1, <1>2, KnownKept, PTL DEF Spec, ActsAtomically, Cloud!Spec

=============================================================================

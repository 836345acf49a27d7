--------------------------- MODULE DialogueProofs ---------------------------
(***************************************************************************)
(* Neither side ever rejects a message, and both count alike: the proof     *)
(* that DialogueInv is an invariant of Session, for any maximum of the      *)
(* counter, any files, any users and any faults.                            *)
(***************************************************************************)
EXTENDS Dialogue, SessionProofs

-----------------------------------------------------------------------------
(* The channels.                                                            *)

\* What taking the first message does to the others.
LEMMA Taking ==
    ASSUME NEW q \in Seq(Message), q # <<>>
    PROVE  /\ Len(q) \in Nat \ {0} /\ Head(q) = q[1] /\ q[1] \in Message
           /\ Tail(q) \in Seq(Message) /\ Len(Tail(q)) = Len(q) - 1
           /\ \A k \in 1 .. Len(q) - 1 : Tail(q)[k] = q[k + 1]
           /\ Tail(q) = <<>> <=> Len(q) = 1
  <1>1. Len(q) \in Nat \ {0}
    BY EmptySeq
  <1>2. Tail(q) \in Seq(Message) /\ Len(Tail(q)) = Len(q) - 1
    BY HeadTailProperties
  <1>3. Tail(q) = <<>> <=> Len(Tail(q)) = 0
    BY <1>2, EmptySeq
  <1>4. q[1] \in Message
    BY <1>1, ElementOfSeq
  <1> QED BY <1>1, <1>2, <1>3, <1>4, HeadTailProperties

\* What adding a message does to the others.
LEMMA Adding ==
    ASSUME NEW q \in Seq(Message), NEW m \in Message
    PROVE  /\ Len(q) \in Nat /\ Append(q, m) \in Seq(Message) /\ Append(q, m) # <<>>
           /\ Len(Append(q, m)) = Len(q) + 1 /\ Append(q, m)[Len(q) + 1] = m
           /\ \A k \in 1 .. Len(q) : Append(q, m)[k] = q[k]
           /\ q = <<>> <=> Len(q) = 0
           /\ q # <<>> => Tail(Append(q, m)) = Append(Tail(q), m)
           /\ q = <<>> => Append(q, m)[1] = m /\ Tail(Append(q, m)) = <<>>
  <1>1. Len(q) \in Nat /\ (q = <<>> <=> Len(q) = 0)
    BY EmptySeq, LenProperties
  <1> QED BY <1>1, AppendProperties, HeadTailAppend

\* What the end of the other side leaves.
LEMMA Cutting ==
    ASSUME NEW q \in Seq(Message), NEW p \in Prefixes(q)
    PROVE  /\ p \in Seq(Message) /\ Len(p) \in 0 .. Len(q)
           /\ \A k \in 1 .. Len(p) : p[k] = q[k]
  <1>1. PICK k \in 0 .. Len(q) : p = SubSeq(q, 1, k)
    BY DEF Prefixes
  <1>2. Len(q) \in Nat
    BY LenProperties
  <1>3. \A i \in 1..k : q[i] \in Message
    BY <1>2, ElementOfSeq
  <1> QED BY <1>1, <1>2, <1>3, SubSeqProperties

\* The requests and chunks in a channel are all of it, or all but the last.
LEMMA AskedIs ==
    ASSUME NEW q \in Seq(Message)
    PROVE  /\ AskedIn(q) \in Seq(Message)
           /\ q = <<>> => AskedIn(q) = <<>>
           /\ q # <<>> /\ q[Len(q)].type \notin Handshake => AskedIn(q) = q
           /\ q # <<>> /\ q[Len(q)].type \in Handshake => Len(AskedIn(q)) = Len(q) - 1
           /\ \A k \in 1 .. Len(AskedIn(q)) : AskedIn(q)[k] = q[k]
  <1>1. CASE q = <<>> \/ q[Len(q)].type \notin Handshake
    BY <1>1 DEF AskedIn
  <1>2. CASE q # <<>> /\ q[Len(q)].type \in Handshake
    <2>1. PICK n \in Nat : n = Len(q) - 1
      BY <1>2, EmptySeq
    <2>2. \A k \in 1..n : q[k] \in Message
      BY <2>1, ElementOfSeq
    <2>3. /\ SubSeq(q, 1, n) \in Seq(Message) /\ Len(SubSeq(q, 1, n)) = n
          /\ \A k \in 1..n : SubSeq(q, 1, n)[k] = q[k]
      BY <2>2, SubSeqProperties
    <2>4. AskedIn(q) = SubSeq(q, 1, n)
      BY <1>2, <2>1 DEF AskedIn
    <2> QED BY <1>2, <2>1, <2>3, <2>4
  <1> QED BY <1>1, <1>2

\* The server takes a request or a chunk.
LEMMA AskedTail ==
    ASSUME NEW q \in Seq(Message), q # <<>>, q[1].type \notin Handshake
    PROVE  /\ AskedIn(q) # <<>> /\ AskedIn(q)[1] = q[1]
           /\ AskedIn(Tail(q)) = Tail(AskedIn(q))
  <1> DEFINE a == AskedIn(q)
             t == AskedIn(Tail(q))
  <1>1. /\ Len(q) \in Nat \ {0} /\ Tail(q) \in Seq(Message) /\ Len(Tail(q)) = Len(q) - 1
        /\ \A k \in 1 .. Len(q) - 1 : Tail(q)[k] = q[k + 1]
    BY Taking
  <1>2. /\ a \in Seq(Message) /\ \A k \in 1 .. Len(a) : a[k] = q[k]
        /\ t \in Seq(Message) /\ \A k \in 1 .. Len(t) : t[k] = Tail(q)[k]
    BY <1>1, AskedIs
  <1>3. CASE q[Len(q)].type \notin Handshake
    <2>1. a = q
      BY <1>3, AskedIs
    <2>2. t = Tail(q)
      <3>1. CASE Tail(q) = <<>>
        BY <3>1 DEF AskedIn
      <3>2. CASE Tail(q) # <<>>
        <4>1. Len(Tail(q)) \in Nat \ {0}
          BY <1>1, <3>2, EmptySeq
        <4>2. Tail(q)[Len(Tail(q))] = q[Len(q)]
          BY <1>1, <4>1
        <4> QED BY <1>1, <1>3, <3>2, <4>2, AskedIs
      <3> QED BY <3>1, <3>2
    <2> QED BY <2>1, <2>2
  <1>4. CASE q[Len(q)].type \in Handshake
    <2>1. PICK n \in Nat : Len(q) = n + 1
      <3>1. Len(q) - 1 \in Nat /\ Len(q) = (Len(q) - 1) + 1
        BY <1>1
      <3> QED BY <3>1
    <2>2. n # 0
      BY <1>4, <2>1
    <2>3. Len(a) = n /\ a # <<>>
      <3>1. Len(a) = n
        BY <1>4, <2>1, AskedIs
      <3> QED BY <2>2, <3>1, EmptySeq
    <2>4. Len(Tail(q)) = n /\ Tail(q) # <<>> /\ Tail(q)[n] = q[n + 1]
      <3>1. Len(Tail(q)) = n /\ n \in 1 .. Len(q) - 1
        BY <1>1, <2>1, <2>2
      <3> QED BY <1>1, <2>2, <3>1, EmptySeq
    <2>5. Len(t) = n - 1
      <3>1. Tail(q)[Len(Tail(q))].type \in Handshake
        BY <1>4, <2>1, <2>4
      <3> QED BY <1>1, <2>4, <3>1, AskedIs
    <2>6. /\ Tail(a) \in Seq(Message) /\ Len(Tail(a)) = n - 1
          /\ \A k \in 1 .. n - 1 : Tail(a)[k] = a[k + 1]
      BY <1>2, <2>3, Taking
    <2>7. \A k \in 1 .. n - 1 : t[k] = Tail(a)[k]
      <3>1. SUFFICES ASSUME NEW k \in 1 .. n - 1 PROVE t[k] = Tail(a)[k]
        OBVIOUS
      <3>2. k \in 1 .. Len(t) /\ k \in 1 .. Len(q) - 1 /\ k + 1 \in 1 .. Len(a)
        BY <2>1, <2>2, <2>3, <2>5
      <3>3. t[k] = q[k + 1]
        BY <1>1, <1>2, <3>2
      <3>4. Tail(a)[k] = q[k + 1]
        BY <1>2, <2>6, <3>2
      <3> QED BY <3>3, <3>4
    <2>8. t = Tail(a)
      BY <1>2, <2>5, <2>6, <2>7, SeqEqual
    <2>9. a[1] = q[1]
      <3>1. 1 \in 1 .. Len(a)
        BY <2>2, <2>3
      <3> QED BY <1>2, <3>1
    <2> QED BY <2>3, <2>8, <2>9
  <1> QED BY <1>3, <1>4

\* The client adds a request or a chunk, or AuthM1.
LEMMA AskedAppend ==
    ASSUME NEW q \in Seq(Message), NEW m \in Message, AskedIn(q) = q
    PROVE  /\ m.type \notin Handshake => AskedIn(Append(q, m)) = Append(q, m)
           /\ m.type \in Handshake => AskedIn(Append(q, m)) = q
  <1> DEFINE a == Append(q, m)
  <1>1. /\ a \in Seq(Message) /\ Len(q) \in Nat /\ a # <<>> /\ Len(a) = Len(q) + 1
        /\ a[Len(a)] = m /\ \A k \in 1 .. Len(q) : a[k] = q[k]
    BY Adding
  <1>2. CASE m.type \notin Handshake
    BY <1>1, <1>2, AskedIs
  <1>3. CASE m.type \in Handshake
    <2>1. /\ AskedIn(a) \in Seq(Message) /\ Len(AskedIn(a)) = Len(q)
          /\ \A k \in 1 .. Len(q) : AskedIn(a)[k] = q[k]
      <3>1. a[Len(a)].type \in Handshake
        BY <1>1, <1>3
      <3>2. /\ AskedIn(a) \in Seq(Message) /\ Len(AskedIn(a)) = Len(a) - 1
            /\ \A k \in 1 .. Len(AskedIn(a)) : AskedIn(a)[k] = a[k]
        BY <1>1, <3>1, AskedIs
      <3>3. Len(a) - 1 = Len(q)
        BY <1>1
      <3> QED BY <1>1, <3>2, <3>3
    <2>2. AskedIn(a) = q
      BY <2>1, SeqEqual
    <2> QED BY <1>3, <2>2
  <1> QED BY <1>2, <1>3

\* The answers in a channel are all of it, all but AuthM5, or none of it.
LEMMA AnsweredIs ==
    ASSUME NEW q \in Seq(Message)
    PROVE  /\ AnsweredIn(q) \in Seq(Message)
           /\ q = <<>> => AnsweredIn(q) = <<>>
           /\ q # <<>> /\ q[1].type \notin Handshake => AnsweredIn(q) = q
           /\ q # <<>> /\ q[1].type = "AuthM5" =>
                AnsweredIn(q) = Tail(q) /\ Len(AnsweredIn(q)) = Len(q) - 1
           /\ q # <<>> /\ q[1].type \in Handshake \ {"AuthM5"} => AnsweredIn(q) = <<>>
  BY Taking DEF AnsweredIn, Handshake

\* The server adds an answer.
LEMMA AnsweredAppend ==
    ASSUME NEW q \in Seq(Message), NEW m \in Message, m.type \notin Handshake,
           q = <<>> \/ q[1].type \notin Handshake \/ q[1].type = "AuthM5"
    PROVE  AnsweredIn(Append(q, m)) = Append(AnsweredIn(q), m)
  <1> DEFINE a == Append(q, m)
  <1>1. a \in Seq(Message) /\ a # <<>>
    BY Adding
  <1>2. CASE q = <<>>
    <2>1. a[1] = m /\ AnsweredIn(q) = q
      BY <1>2, Adding, AnsweredIs
    <2> QED BY <1>1, <2>1, AnsweredIs
  <1>3. CASE q # <<>>
    <2>1. Len(q) \in Nat \ {0}
      BY <1>3, EmptySeq
    <2>2. a[1] = q[1] /\ Tail(a) = Append(Tail(q), m)
      BY <1>3, <2>1, Adding
    <2> QED BY <1>1, <1>3, <2>2, AnsweredIs
  <1> QED BY <1>2, <1>3

-----------------------------------------------------------------------------
(* What both sides know of a channel.                                       *)

\* The channels and what is under way in them are sequences of messages.
LEMMA Channels ==
    ASSUME ChannelsOK
    PROVE  /\ c2s \in Seq(Message) /\ Len(c2s) \in Nat /\ (c2s = <<>> <=> Len(c2s) = 0)
           /\ s2c \in Seq(Message) /\ Len(s2c) \in Nat /\ (s2c = <<>> <=> Len(s2c) = 0)
           /\ Asked \in Seq(Message) /\ Len(Asked) \in Nat
           /\ (Asked = <<>> <=> Len(Asked) = 0)
           /\ Answered \in Seq(Message) /\ Len(Answered) \in Nat
           /\ (Answered = <<>> <=> Len(Answered) = 0)
           /\ \A k \in 1 .. Len(c2s) : c2s[k] \in Message
           /\ \A k \in 1 .. Len(s2c) : s2c[k] \in Message
  <1>1. c2s \in Seq(Message) /\ s2c \in Seq(Message)
    BY DEF ChannelsOK
  <1>2. Asked \in Seq(Message) /\ Answered \in Seq(Message)
    BY <1>1, AskedIs, AnsweredIs DEF Asked, Answered
  <1>3. \A q \in Seq(Message) : Len(q) \in Nat /\ (q = <<>> <=> Len(q) = 0)
    BY EmptySeq, LenProperties
  <1> QED BY <1>1, <1>2, <1>3, ElementOfSeq

\* The server past its handshake: AuthM1 can only be last, the rest it will accept.
LEMMA ServerReads ==
    ASSUME TypeOK, ServerNumbers, s_pc \notin AuthPcs
    PROVE  /\ Asked = <<>> <=> c2s = <<>>
           /\ Asked # c2s => /\ c2s # <<>> /\ c2s[Len(c2s)].type = "AuthM1"
                             /\ s_ctr + Len(c2s) = MaxCounter + 2
           /\ c2s # <<>> => /\ Head(c2s) = Asked[1] /\ Fits(Head(c2s), s_key, s_ctr)
                            /\ Verdict(Head(c2s), s_key, s_ctr) = "SUCCESS"
           /\ s_ctr + Len(Asked) <= MaxCounter + 1
  <1> DEFINE n == Len(c2s)
  <1>1. /\ c2s \in Seq(Message) /\ n \in Nat /\ (c2s = <<>> <=> n = 0)
        /\ \A k \in 1..n : c2s[k] \in Message
    BY Channels DEF TypeOK
  <1>2. s_ctr \in Nat /\ s_ctr <= MaxCounter /\ MaxCounter \in Nat
    BY CounterAssumption DEF TypeOK, ServerOK
  <1>3. ASSUME NEW k \in 1..n
        PROVE  \/ c2s[k].type = "AuthM1" /\ k = n /\ s_ctr + k = MaxCounter + 2
               \/ Fits(c2s[k], s_key, s_ctr + k - 1) /\ s_ctr + k <= MaxCounter + 1
    <2>1. CASE c2s[k].type = "AuthM1"
      BY <2>1 DEF ServerNumbers
    <2>2. CASE c2s[k].type # "AuthM1"
      <3>1. Fits(c2s[k], s_key, s_ctr + k - 1)
        BY <2>2 DEF ServerNumbers
      <3>2. c2s[k].ctr \in 0 .. MaxCounter
        BY <1>1 DEF Message
      <3> QED BY <1>2, <3>1, <3>2 DEF Fits
    <2> QED BY <2>1, <2>2
  <1>4. CASE c2s = <<>>
    <2>1. Asked = <<>>
      BY <1>1, <1>4, AskedIs DEF Asked
    <2>2. Len(Asked) = 0
      BY <1>1, <1>4, <2>1
    <2> QED BY <1>2, <1>4, <2>1, <2>2
  <1>5. CASE c2s # <<>>
    <2>1. n \in 1..n /\ 1 \in 1..n
      BY <1>1, <1>5
    <2>2. ~(c2s[1].type = "AuthM1" /\ 1 = n /\ s_ctr + 1 = MaxCounter + 2)
      BY <1>2
    <2>3. Fits(c2s[1], s_key, s_ctr)
      BY <1>2, <1>3, <2>1, <2>2
    <2>4. Head(c2s) = c2s[1]
      BY <1>1, <1>5, Taking
    <2>5. Asked # <<>> /\ Asked[1] = c2s[1]
      BY <1>1, <1>5, <2>3, AskedTail DEF Asked, Fits
    <2>6. CASE c2s[n].type = "AuthM1"
      <3>1. Len(Asked) = n - 1 /\ s_ctr + n = MaxCounter + 2
        BY <1>1, <1>3, <1>5, <2>1, <2>6, AskedIs DEF Asked, Handshake, Fits
      <3> QED BY <1>1, <1>2, <1>5, <2>3, <2>4, <2>5, <2>6, <3>1 DEF Verdict, Fits
    <2>7. CASE c2s[n].type # "AuthM1"
      <3>1. Fits(c2s[n], s_key, s_ctr + n - 1) /\ s_ctr + n <= MaxCounter + 1
        BY <1>3, <2>1, <2>7
      <3>2. Asked = c2s
        BY <1>1, <1>5, <3>1, AskedIs DEF Asked, Fits
      <3> QED BY <1>1, <1>2, <1>5, <2>3, <2>4, <2>5, <3>1, <3>2 DEF Verdict, Fits
    <2> QED BY <2>6, <2>7
  <1> QED BY <1>4, <1>5

\* The client past its handshake accepts everything.
LEMMA ClientReads ==
    ASSUME TypeOK, ClientNumbers, c_pc \notin AuthPcs
    PROVE  /\ Answered = s2c
           /\ s2c # <<>> => /\ Head(s2c) = Answered[1] /\ Fits(Head(s2c), c_key, c_ctr)
                            /\ Verdict(Head(s2c), c_key, c_ctr) = "SUCCESS"
           /\ c_ctr + Len(s2c) <= MaxCounter + 1
  <1> DEFINE n == Len(s2c)
  <1>1. /\ s2c \in Seq(Message) /\ n \in Nat /\ (s2c = <<>> <=> n = 0)
        /\ \A k \in 1..n : s2c[k] \in Message
    BY Channels DEF TypeOK
  <1>2. c_ctr \in Nat /\ c_ctr <= MaxCounter /\ MaxCounter \in Nat
    BY CounterAssumption DEF TypeOK, ClientOK
  <1>3. ASSUME NEW k \in 1..n
        PROVE  Fits(s2c[k], c_key, c_ctr + k - 1) /\ c_ctr + k <= MaxCounter + 1
    <2>1. Fits(s2c[k], c_key, c_ctr + k - 1)
      BY DEF ClientNumbers
    <2>2. s2c[k].ctr \in 0 .. MaxCounter
      BY <1>1 DEF Message
    <2> QED BY <1>2, <2>1, <2>2 DEF Fits
  <1>4. CASE s2c = <<>>
    <2>1. Answered = <<>>
      BY <1>1, <1>4, AnsweredIs DEF Answered
    <2> QED BY <1>1, <1>2, <1>4, <2>1
  <1>5. CASE s2c # <<>>
    <2>1. n \in 1..n /\ 1 \in 1..n
      BY <1>1, <1>5
    <2>2. Fits(s2c[1], c_key, c_ctr) /\ c_ctr + n <= MaxCounter + 1
      BY <1>2, <1>3, <2>1
    <2>3. Head(s2c) = s2c[1]
      BY <1>1, <1>5, Taking
    <2>4. Answered = s2c
      BY <1>1, <1>5, <2>2, AnsweredIs DEF Answered, Fits
    <2> QED BY <2>2, <2>3, <2>4 DEF Verdict, Fits
  <1> QED BY <1>4, <1>5

-----------------------------------------------------------------------------
(* What the steps outside the handshake do to the channels, the keys and    *)
(* the counters.                                                            *)

\* The client sends a request, its answer to the question or a chunk.
LEMMA ClientSendsOne ==
    ASSUME TypeOK, TypeOK', DialogueInv, c_pc \in {"menu", "upMi", "delAsk"},
           NEW type \in Types \ Handshake, NEW b \in Body,
           NEW next \in ClientPcs \ (AuthPcs \cup Gone),
           ToServer(Msg(type, c_key, c_ctr, b)), ClientIncrement(next),
           UNCHANGED <<server, s2c, cAuth>>
    PROVE  /\ KeysAndCounters' /\ ClientAt' = next /\ ClientHere'
           /\ Answered = <<>> /\ Answered' = <<>>
           /\ ServerHere => Asked' = Append(Asked, Msg(type, c_key, c_ctr, b))
           /\ Msg(type, c_key, c_ctr, b) \in Message
           /\ ServerHere => s_pc \notin AuthPcs
  <1> DEFINE m == Msg(type, c_key, c_ctr, b)
  <1>1. m \in Message /\ m.type = type /\ m.key = c_key /\ m.ctr = c_ctr
    BY MsgTypes DEF TypeOK, ClientOK, Msg
  <1>2. c_ctr \in Nat /\ c_ctr <= MaxCounter /\ MaxCounter \in Nat
    BY CounterAssumption DEF TypeOK, ClientOK
  <1>3. ClientHere /\ c_pc \notin AuthPcs /\ ClientAt = c_pc
    BY DEF ClientHere, Gone, AuthPcs, ClientAt
  <1>4. ClientNumbers /\ ClientTakes
    BY <1>3 DEF DialogueInv, KeysAndCounters, Operations
  <1>5. s2c = <<>> /\ Answered = <<>> /\ s2c' = <<>>
    <2>1. Len(Answered) = 0
      BY <1>3, <1>4 DEF ClientTakes
    <2> QED BY <1>3, <1>4, <2>1, ClientReads, Channels DEF TypeOK
  <1>6. Answered' = <<>>
    BY <1>5, EmptySeq DEF Answered, AnsweredIn
  <1>7. \/ c_ctr # MaxCounter /\ c_pc' = next /\ c_ctr' = c_ctr + 1
        \/ c_ctr = MaxCounter /\ c_pc' = "auth" /\ c_ret' = next /\ c_ctr' = c_ctr
    BY DEF ClientIncrement
  <1>8. ClientAt' = next /\ ClientHere' /\ c_pc' # "left" /\ c_pc' # "authM4"
    BY <1>7 DEF ClientAt, ClientHere, AuthPcs, Gone
  <1>9. ClientNumbers'
    <2>1. Len(s2c') = 0
      BY <1>5, EmptySeq
    <2> QED BY <1>5, <1>8, <2>1 DEF ClientNumbers
  <1>10. /\ c_key' = c_key /\ s_pc' = s_pc /\ s_key' = s_key /\ s_ctr' = s_ctr
         /\ s_ret' = s_ret
    BY DEF server, cAuth
  <1>11. CASE ~ServerHere
    <2>1. ~ServerHere'
      BY <1>10, <1>11 DEF ServerHere
    <2> QED BY <1>1, <1>5, <1>6, <1>8, <1>9, <1>11, <2>1 DEF KeysAndCounters
  <1>12. CASE ServerHere
    <2> DEFINE n == Len(c2s)
    <2>1. ServerHere' /\ c2s' = Append(c2s, m)
      BY <1>10, <1>12 DEF ServerHere, Gone, ToServer
    <2>2. InHandshake /\ ServerNumbers
      BY <1>3, <1>12 DEF DialogueInv, KeysAndCounters
    <2>3. Len(s2c) = 0 /\ n \in Nat /\ s_ctr \in Nat
      BY <1>5, EmptySeq, Channels DEF TypeOK, ServerOK
    <2>4. s_pc \notin AuthPcs /\ c_key = s_key /\ c_ctr = s_ctr + n
      BY <1>2, <1>3, <2>2, <2>3 DEF InHandshake, LoggedOut, Agree, AuthPcs
    <2>5. Asked = c2s
      BY <1>2, <2>2, <2>3, <2>4, ServerReads
    <2>6. Asked' = Append(Asked, m) /\ Asked' = c2s'
      BY <1>1, <2>1, <2>5, AskedAppend DEF Asked, TypeOK, ChannelsOK
    <2>7. /\ Len(c2s') = n + 1 /\ c2s'[n + 1] = m
          /\ \A k \in 1..n : c2s'[k] = c2s[k]
      BY <1>1, <2>1, Adding DEF TypeOK, ChannelsOK
    <2>8. \A k \in 1..n : Fits(c2s[k], s_key, s_ctr + k - 1)
      <3>1. TAKE k \in 1..n
      <3>2. c2s[k].type # "AuthM1"
        BY <1>2, <2>2, <2>3, <2>4 DEF ServerNumbers
      <3> QED BY <2>2, <2>4, <3>2 DEF ServerNumbers
    <2>9. \A k \in 1 .. n + 1 : Fits(c2s'[k], s_key, s_ctr + k - 1)
      <3>1. TAKE k \in 1 .. n + 1
      <3>2. CASE k = n + 1
        BY <1>1, <2>3, <2>4, <2>7, <3>2 DEF Fits
      <3>3. CASE k # n + 1
        BY <2>3, <2>7, <2>8, <3>3
      <3> QED BY <3>2, <3>3
    <2>10. ServerNumbers'
      <3>1. \A k \in 1 .. Len(c2s') : c2s'[k].type # "AuthM1"
        BY <2>7, <2>9 DEF Fits, Handshake
      <3>2. s_pc' \notin AuthPcs /\ s_pc' # "authM4"
        BY <1>10, <2>4 DEF AuthPcs
      <3> QED BY <1>10, <2>7, <2>9, <3>1, <3>2 DEF ServerNumbers
    <2>11. InHandshake'
      <3>1. Len(s2c') = 0
        BY <1>5, EmptySeq
      <3>2. CASE c_ctr # MaxCounter
        <4>1. c_pc' \notin AuthPcs
          BY <1>7, <3>2
        <4>2. Agree'
          BY <1>7, <1>10, <2>3, <2>4, <2>7, <3>1, <3>2 DEF Agree
        <4> QED BY <1>10, <2>4, <4>1, <4>2 DEF InHandshake
      <3>3. CASE c_ctr = MaxCounter
        <4>1. s_ctr' + Len(c2s') = MaxCounter + 1
          BY <1>10, <2>3, <2>4, <2>7, <3>3
        <4> QED BY <1>7, <1>10, <2>4, <2>6, <3>3, <4>1 DEF InHandshake
      <3> QED BY <3>2, <3>3
    <2> QED BY <1>1, <1>5, <1>6, <1>8, <1>9, <2>1, <2>4, <2>6, <2>10, <2>11 DEF KeysAndCounters
  <1> QED BY <1>11, <1>12

\* The client takes the next answer.
LEMMA ClientTakesOne ==
    ASSUME TypeOK, TypeOK', DialogueInv, c_pc \in ClientReceives \ (AuthPcs \cup {"outM2"}),
           s2c # <<>>, s2c' = Tail(s2c), NEW next \in ClientPcs \ (AuthPcs \cup Gone),
           ClientIncrement(next), UNCHANGED <<server, c2s, cAuth>>
    PROVE  /\ KeysAndCounters' /\ ClientAt' = next /\ ClientHere'
           /\ Answered # <<>> /\ Head(s2c) = Answered[1] /\ Answered' = Tail(Answered)
  <1> DEFINE n == Len(s2c)
  <1>1. /\ n \in Nat \ {0} /\ s2c' \in Seq(Message) /\ Len(s2c') = n - 1
        /\ \A k \in 1 .. n - 1 : s2c'[k] = s2c[k + 1]
        /\ s2c' = <<>> <=> n = 1
    BY Taking DEF TypeOK, ChannelsOK
  <1>2. c_ctr \in Nat /\ c_ctr <= MaxCounter /\ MaxCounter \in Nat
    BY CounterAssumption DEF TypeOK, ClientOK
  <1>3. ClientHere /\ c_pc \notin AuthPcs /\ ClientAt = c_pc /\ ClientAt # "outM2"
    BY DEF ClientHere, Gone, ClientReceives, ClientAt
  <1>4. ClientNumbers
    BY <1>3 DEF DialogueInv, KeysAndCounters
  <1>5. /\ Answered = s2c /\ Head(s2c) = Answered[1] /\ Answered # <<>>
        /\ c_ctr + n <= MaxCounter + 1
    BY <1>3, <1>4, ClientReads
  <1>6. \/ c_ctr # MaxCounter /\ c_pc' = next /\ c_ctr' = c_ctr + 1
        \/ c_ctr = MaxCounter /\ c_pc' = "auth" /\ c_ret' = next /\ c_ctr' = c_ctr
    BY DEF ClientIncrement
  <1>7. ClientAt' = next /\ ClientHere' /\ c_pc' # "left" /\ c_pc' # "authM4"
    BY <1>6 DEF ClientAt, ClientHere, AuthPcs, Gone
  <1>8. /\ c_key' = c_key /\ s_pc' = s_pc /\ s_key' = s_key /\ s_ctr' = s_ctr
        /\ s_ret' = s_ret
    BY DEF server, cAuth
  <1>9. \A k \in 1 .. n - 1 : Fits(s2c'[k], c_key, c_ctr + 1 + k - 1)
    <2>1. TAKE k \in 1 .. n - 1
    <2>2. k + 1 \in 1..n /\ s2c'[k] = s2c[k + 1] /\ c_ctr + (k + 1) - 1 = c_ctr + 1 + k - 1
      BY <1>1, <1>2
    <2> QED BY <1>3, <1>4, <2>2 DEF ClientNumbers
  <1>10. c_ctr = MaxCounter => n = 1 /\ s2c' = <<>>
    BY <1>1, <1>2, <1>5
  <1>11. ClientNumbers'
    BY <1>1, <1>6, <1>7, <1>8, <1>9, <1>10 DEF ClientNumbers, AuthPcs
  <1>12. Answered' = Tail(Answered)
    <2>1. CASE s2c' = <<>>
      BY <1>5, <2>1, AnsweredIs, EmptySeq DEF Answered, AnsweredIn
    <2>2. CASE s2c' # <<>>
      <3>1. 1 \in 1 .. n - 1
        BY <1>1, <2>2
      <3>2. s2c'[1].type \notin Handshake
        BY <1>9, <3>1 DEF Fits
      <3> QED BY <1>1, <1>5, <2>2, <3>2 DEF Answered, AnsweredIn
    <2> QED BY <2>1, <2>2
  <1>13. CASE ~ServerHere
    <2>1. ~ServerHere'
      BY <1>8, <1>13 DEF ServerHere
    <2> QED BY <1>5, <1>7, <1>11, <1>12, <2>1 DEF KeysAndCounters
  <1>14. CASE ServerHere
    <2>1. InHandshake /\ ServerNumbers
      BY <1>3, <1>14 DEF DialogueInv, KeysAndCounters
    <2>2. ServerNumbers'
      BY <1>8, <2>1 DEF ServerNumbers
    <2>3. Len(c2s) \in Nat /\ s_ctr \in Nat
      BY Channels DEF TypeOK, ServerOK
    <2>4. InHandshake'
      <3>1. CASE s_pc \notin AuthPcs /\ Agree
        <4>1. CASE c_ctr # MaxCounter
          <5>1. c_pc' \notin AuthPcs /\ Agree'
            BY <1>1, <1>2, <1>6, <1>8, <2>3, <3>1, <4>1 DEF Agree
          <5> QED BY <1>8, <3>1, <5>1 DEF InHandshake
        <4>2. CASE c_ctr = MaxCounter
          <5>1. s_ctr + Len(c2s) = MaxCounter + 1 /\ c_key = s_key
            BY <1>2, <1>10, <3>1, <4>2 DEF Agree
          <5>2. Asked = c2s
            BY <1>2, <2>1, <2>3, <3>1, <5>1, ServerReads
          <5>3. Asked' = c2s'
            BY <5>2 DEF Asked
          <5> QED BY <1>6, <1>8, <3>1, <4>2, <5>1, <5>3 DEF InHandshake
        <4> QED BY <4>1, <4>2
      <3>2. CASE /\ s_pc = "authM1" /\ c_key = s_key /\ c_ctr + n = MaxCounter + 1
                 /\ c2s = <<>>
        <4>1. CASE c_ctr # MaxCounter
          <5>1. c_pc' \notin AuthPcs /\ c_ctr' + Len(s2c') = MaxCounter + 1
            BY <1>1, <1>2, <1>6, <3>2, <4>1
          <5> QED BY <1>8, <3>2, <5>1 DEF InHandshake
        <4>2. CASE c_ctr = MaxCounter
          BY <1>6, <1>8, <3>2, <4>2 DEF InHandshake
        <4> QED BY <4>1, <4>2
      <3> QED BY <1>3, <2>1, <3>1, <3>2 DEF InHandshake, LoggedOut, AuthPcs
    <2> QED BY <1>5, <1>7, <1>11, <1>12, <2>2, <2>4 DEF KeysAndCounters
  <1> QED BY <1>13, <1>14

\* The server sends an answer or a chunk.
LEMMA ServerSendsOne ==
    ASSUME TypeOK, TypeOK', DialogueInv, s_pc \in ServerSends \ (AuthPcs \cup {"outM2"}),
           NEW type \in Types \ Handshake, NEW b \in Body,
           NEW next \in ServerPcs \ (AuthPcs \cup Gone),
           ToClient(Msg(type, s_key, s_ctr, b)), ServerIncrement(next),
           UNCHANGED <<client, c2s, sAuth>>
    PROVE  /\ KeysAndCounters' /\ ServerAt' = next /\ ServerHere'
           /\ Asked = <<>> /\ Asked' = <<>>
           /\ ClientHere => Answered' = Append(Answered, Msg(type, s_key, s_ctr, b))
           /\ Msg(type, s_key, s_ctr, b) \in Message
  <1> DEFINE m == Msg(type, s_key, s_ctr, b)
             n == Len(s2c)
  <1>1. m \in Message /\ m.type = type /\ m.key = s_key /\ m.ctr = s_ctr
    BY MsgTypes DEF TypeOK, ServerOK, Msg
  <1>2. s_ctr \in Nat /\ s_ctr <= MaxCounter /\ MaxCounter \in Nat
    BY CounterAssumption DEF TypeOK, ServerOK
  <1>3. ServerHere /\ s_pc \notin AuthPcs /\ ServerAt = s_pc /\ s_pc # "run" /\ c_pc # "left"
    <2>1. ServerHere /\ s_pc \notin AuthPcs /\ ServerAt = s_pc /\ s_pc # "run"
      BY DEF ServerHere, Gone, ServerSends, ServerAt
    <2> QED BY <2>1 DEF DialogueInv, KeysAndCounters
  <1>4. ServerNumbers /\ ServerTakes
    BY <1>3 DEF DialogueInv, KeysAndCounters, Operations
  <1>5. Asked = <<>> /\ c2s = <<>> /\ c2s' = <<>> /\ Len(c2s) = 0
    <2>1. Len(Asked) = 0
      BY <1>3, <1>4 DEF ServerTakes, ServerSends, Idle, Receiving
    <2> QED BY <1>3, <1>4, <2>1, ServerReads, Channels DEF TypeOK
  <1>6. Asked' = <<>>
    BY <1>5 DEF Asked
  <1>7. \/ s_ctr # MaxCounter /\ s_pc' = next /\ s_ctr' = s_ctr + 1
        \/ s_ctr = MaxCounter /\ s_pc' = "authM1" /\ s_ret' = next /\ s_ctr' = s_ctr
    BY DEF ServerIncrement
  <1>8. ServerAt' = next /\ ServerHere' /\ s_pc' # "authM4"
    BY <1>7 DEF ServerAt, ServerHere, AuthPcs, Gone
  <1>9. ServerNumbers'
    <2>1. Len(c2s') = 0
      BY <1>5
    <2> QED BY <1>5, <1>8, <2>1 DEF ServerNumbers
  <1>10. /\ s_key' = s_key /\ c_pc' = c_pc /\ c_key' = c_key /\ c_ctr' = c_ctr
         /\ c_ret' = c_ret /\ c_eph' = c_eph
    BY DEF client, sAuth
  <1>11. CASE ~ClientHere
    <2>1. ~ClientHere' /\ c_pc' # "left"
      BY <1>3, <1>10, <1>11 DEF ClientHere
    <2> QED BY <1>1, <1>5, <1>6, <1>8, <1>9, <1>11, <2>1 DEF KeysAndCounters
  <1>12. CASE ClientHere
    <2>1. ClientHere' /\ c_pc' # "left" /\ s2c' = Append(s2c, m)
      BY <1>10, <1>12 DEF ClientHere, Gone, ToClient
    <2>2. InHandshake /\ ClientNumbers
      BY <1>3, <1>12 DEF DialogueInv, KeysAndCounters
    <2>3. /\ n \in Nat /\ Len(s2c') = n + 1 /\ s2c'[n + 1] = m /\ s2c' # <<>>
          /\ \A k \in 1..n : s2c'[k] = s2c[k]
      BY <1>1, <2>1, Adding DEF TypeOK, ChannelsOK
    <2>4. c_ctr \in Nat
      BY DEF TypeOK, ClientOK
    <2>5. CASE c_pc \notin AuthPcs
      <3>1. c_key = s_key /\ c_ctr + n = s_ctr
        BY <1>2, <1>3, <1>5, <2>2, <2>3, <2>4, <2>5
        DEF InHandshake, LoggedOut, Agree, AuthPcs
      <3>2. \A k \in 1 .. n + 1 : Fits(s2c'[k], c_key, c_ctr + k - 1)
        <4>1. TAKE k \in 1 .. n + 1
        <4>2. CASE k = n + 1
          BY <1>1, <2>3, <2>4, <3>1, <4>2 DEF Fits
        <4>3. CASE k # n + 1
          BY <2>2, <2>3, <2>5, <4>3 DEF ClientNumbers
        <4> QED BY <4>2, <4>3
      <3>3. ClientNumbers'
        BY <1>10, <2>3, <2>5, <3>2 DEF ClientNumbers, AuthPcs
      <3>4. InHandshake'
        <4>1. CASE s_ctr # MaxCounter
          <5>1. Agree'
            BY <1>2, <1>5, <1>7, <1>10, <2>3, <2>4, <3>1, <4>1 DEF Agree
          <5> QED BY <1>7, <1>10, <2>5, <4>1, <5>1 DEF InHandshake
        <4>2. CASE s_ctr = MaxCounter
          <5>1. c_ctr' + Len(s2c') = MaxCounter + 1
            BY <1>2, <1>10, <2>3, <2>4, <3>1, <4>2
          <5> QED BY <1>5, <1>7, <1>10, <2>5, <3>1, <4>2, <5>1 DEF InHandshake
        <4> QED BY <4>1, <4>2
      <3>5. Answered' = Append(Answered, m)
        <4>1. s2c = <<>> \/ s2c[1].type \notin Handshake
          <5>1. s2c # <<>> => 1 \in 1..n
            BY <2>3, Channels DEF TypeOK
          <5> QED BY <2>2, <2>5, <5>1 DEF ClientNumbers, Fits
        <4> QED BY <1>1, <2>1, <4>1, AnsweredAppend DEF Answered, TypeOK, ChannelsOK
      <3> QED BY <1>1, <1>5, <1>6, <1>8, <1>9, <2>1, <3>3, <3>4, <3>5 DEF KeysAndCounters
    <2>6. CASE c_pc \in AuthPcs
      <3>1. /\ c_pc = "authM5" /\ s2c # <<>> /\ s2c[1].body.code = "ACK"
            /\ c_key = s_key /\ s_ctr = n - 1
        BY <1>2, <1>3, <1>5, <2>2, <2>6 DEF InHandshake, LoggedOut, AuthPcs
      <3>2. n > 0 /\ s2c'[1] = s2c[1]
        BY <2>3, <3>1, Channels DEF TypeOK
      <3>3. /\ s2c[1].type = "AuthM5" /\ Verdict(s2c[1], c_key, c_ctr) = "SUCCESS"
            /\ \A k \in 2..n : Fits(s2c[k], c_key, k - 2)
        BY <2>2, <3>1 DEF ClientNumbers
      <3>4. \A k \in 2 .. n + 1 : Fits(s2c'[k], c_key, k - 2)
        <4>1. TAKE k \in 2 .. n + 1
        <4>2. CASE k = n + 1
          BY <1>1, <2>3, <3>1, <4>2 DEF Fits
        <4>3. CASE k # n + 1
          BY <2>3, <3>3, <4>3
        <4> QED BY <4>2, <4>3
      <3>5. ClientNumbers'
        BY <1>10, <2>3, <3>1, <3>2, <3>3, <3>4 DEF ClientNumbers, AuthPcs
      <3>6. InHandshake'
        <4>1. CASE s_ctr # MaxCounter
          <5>1. s_ctr' = Len(s2c') - 1 /\ s_pc' \notin AuthPcs
            BY <1>2, <1>7, <2>3, <3>1, <4>1
          <5> QED BY <1>5, <1>10, <2>3, <3>1, <3>2, <5>1 DEF InHandshake
        <4>2. CASE s_ctr = MaxCounter
          <5>1. Len(s2c') = MaxCounter + 2 /\ s_pc' = "authM1"
            BY <1>2, <1>7, <2>3, <3>1, <4>2
          <5> QED BY <1>5, <1>10, <3>1, <3>2, <5>1 DEF InHandshake
        <4> QED BY <4>1, <4>2
      <3>7. Answered' = Append(Answered, m)
        BY <1>1, <2>1, <3>3, AnsweredAppend DEF Answered, TypeOK, ChannelsOK
      <3> QED BY <1>1, <1>5, <1>6, <1>8, <1>9, <2>1, <3>5, <3>6, <3>7 DEF KeysAndCounters
    <2> QED BY <2>5, <2>6
  <1> QED BY <1>11, <1>12

\* The server takes the next request, answer to its question or chunk.
LEMMA ServerTakesOne ==
    ASSUME TypeOK, TypeOK', DialogueInv, s_pc \in {"run", "upMi", "delM3"},
           c2s # <<>>, c2s' = Tail(c2s), NEW next \in ServerPcs \ (AuthPcs \cup Gone),
           ServerIncrement(next), UNCHANGED <<client, s2c, sAuth>>
    PROVE  /\ KeysAndCounters' /\ ServerAt' = next /\ ServerHere'
           /\ Asked # <<>> /\ Head(c2s) = Asked[1] /\ Asked' = Tail(Asked)
  <1> DEFINE n == Len(c2s)
  <1>1. /\ n \in Nat \ {0} /\ c2s' \in Seq(Message) /\ Len(c2s') = n - 1
        /\ \A k \in 1 .. n - 1 : c2s'[k] = c2s[k + 1]
        /\ c2s' = <<>> <=> n = 1
        /\ c2s \in Seq(Message) /\ Head(c2s) = c2s[1]
    BY Taking DEF TypeOK, ChannelsOK
  <1>2. s_ctr \in Nat /\ s_ctr <= MaxCounter /\ MaxCounter \in Nat
    BY CounterAssumption DEF TypeOK, ServerOK
  <1>3. ServerHere /\ s_pc \notin AuthPcs /\ c_pc # "left"
    <2>1. ServerHere /\ s_pc \notin AuthPcs
      BY DEF ServerHere, Gone, AuthPcs
    <2> QED BY <2>1 DEF DialogueInv, KeysAndCounters
  <1>4. ServerNumbers
    BY <1>3 DEF DialogueInv, KeysAndCounters
  <1>5. /\ Asked # <<>> /\ Head(c2s) = Asked[1] /\ Fits(Head(c2s), s_key, s_ctr)
        /\ Asked # c2s => c2s[n].type = "AuthM1" /\ s_ctr + n = MaxCounter + 2
        /\ s_ctr + Len(Asked) <= MaxCounter + 1
    BY <1>3, <1>4, ServerReads
  <1>6. Asked' = Tail(Asked)
    BY <1>1, <1>5, AskedTail DEF Asked, Fits
  <1>7. \/ s_ctr # MaxCounter /\ s_pc' = next /\ s_ctr' = s_ctr + 1
        \/ s_ctr = MaxCounter /\ s_pc' = "authM1" /\ s_ret' = next /\ s_ctr' = s_ctr
    BY DEF ServerIncrement
  <1>8. ServerAt' = next /\ ServerHere' /\ s_pc' # "authM4"
    BY <1>7 DEF ServerAt, ServerHere, AuthPcs, Gone
  <1>9. /\ s_key' = s_key /\ c_pc' = c_pc /\ c_key' = c_key /\ c_ctr' = c_ctr
        /\ c_ret' = c_ret /\ c_eph' = c_eph
    BY DEF client, sAuth
  <1>a. ClientHere' => ClientHere /\ ClientNumbers'
    BY <1>9 DEF DialogueInv, KeysAndCounters, ClientHere, ClientNumbers, GoodM3
  <1>10. ASSUME NEW k \in 1 .. n - 1
         PROVE  IF c2s'[k].type = "AuthM1"
                THEN k = n - 1 /\ s_ctr + 1 + k = MaxCounter + 2
                ELSE Fits(c2s'[k], s_key, s_ctr + 1 + k - 1)
    <2>1. /\ k + 1 \in 1..n /\ c2s'[k] = c2s[k + 1]
          /\ s_ctr + (k + 1) - 1 = s_ctr + 1 + k - 1
      BY <1>1, <1>2
    <2>2. IF c2s[k + 1].type = "AuthM1"
          THEN k + 1 = n /\ s_ctr + (k + 1) = MaxCounter + 2
          ELSE Fits(c2s[k + 1], s_key, s_ctr + (k + 1) - 1)
      BY <1>3, <1>4, <2>1 DEF ServerNumbers
    <2>3. CASE c2s[k + 1].type = "AuthM1"
      <3>1. k + 1 = n /\ s_ctr + (k + 1) = MaxCounter + 2
        BY <2>2, <2>3
      <3>2. k \in Int /\ n \in Int /\ s_ctr \in Int /\ MaxCounter \in Int
        BY <1>1, <1>2
      <3>3. k = n - 1 /\ s_ctr + 1 + k = MaxCounter + 2
        <4> HIDE DEF n
        <4> QED BY <3>1, <3>2
      <3> QED BY <2>1, <2>3, <3>3
    <2>4. CASE c2s[k + 1].type # "AuthM1"
      <3>1. Fits(c2s[k + 1], s_key, s_ctr + 1 + k - 1)
        BY <2>1, <2>2, <2>4
      <3> QED BY <2>1, <2>4, <3>1
    <2> QED BY <2>3, <2>4
  <1>11. CASE s_ctr # MaxCounter
    <2>1. s_pc' \notin AuthPcs /\ s_ctr' = s_ctr + 1
      BY <1>7, <1>11
    <2>2. ServerNumbers'
      BY <1>1, <1>8, <1>9, <1>10, <2>1 DEF ServerNumbers
    <2>3. ASSUME ClientHere
          PROVE  InHandshake'
      <3>1. InHandshake
        BY <1>3, <2>3 DEF DialogueInv, KeysAndCounters
      <3>2. CASE c_pc \notin AuthPcs /\ Agree
        <4>1. Len(s2c) \in Nat /\ c_ctr \in Nat
          BY Channels DEF TypeOK, ClientOK
        <4>2. Agree'
          BY <1>1, <1>2, <1>9, <2>1, <3>2, <4>1 DEF Agree
        <4> QED BY <1>9, <2>1, <3>2, <4>2 DEF InHandshake
      <3>3. CASE c_pc = "auth" /\ c_key = s_key /\ s_ctr + n = MaxCounter + 1 /\ Asked = c2s
        <4>1. s_ctr' + Len(c2s') = MaxCounter + 1 /\ Asked' = c2s'
          BY <1>1, <1>2, <1>6, <2>1, <3>3
        <4> QED BY <1>9, <2>1, <3>3, <4>1 DEF InHandshake
      <3>4. CASE /\ c_pc = "authM2" /\ s2c = <<>> /\ c_key = s_key
                 /\ c2s[n].type = "AuthM1" /\ c2s[n].body.n = c_eph
        <4>1. n # 1
          BY <1>1, <1>5, <3>4 DEF Fits, Handshake
        <4>2. c2s' # <<>> /\ c2s'[Len(c2s')] = c2s[n]
          <5>1. n - 1 \in 1 .. n - 1 /\ (n - 1) + 1 = n
            BY <1>1, <4>1
          <5> QED BY <1>1, <4>1, <5>1
        <4> QED BY <1>9, <2>1, <3>4, <4>2 DEF InHandshake
      <3> QED BY <1>3, <1>5, <3>1, <3>2, <3>3, <3>4, AskedIs
              DEF InHandshake, LoggedOut, AuthPcs, Asked
    <2> QED BY <1>3, <1>5, <1>6, <1>8, <1>9, <1>a, <2>2, <2>3 DEF KeysAndCounters
  <1>12. CASE s_ctr = MaxCounter
    <2>1. s_pc' = "authM1" /\ s_ctr' = s_ctr /\ n <= 2
      BY <1>1, <1>2, <1>5, <1>7, <1>12
    <2>2. n = 2 => c2s'[1].type = "AuthM1"
      BY <1>1, <1>2, <1>5, <1>12
    <2>3. ServerNumbers'
      <3>1. n = 1 \/ n = 2
        BY <1>1, <2>1
      <3>2. c2s' # <<>> => Len(c2s') = 1 /\ c2s'[1].type = "AuthM1"
        BY <1>1, <2>2, <3>1
      <3> QED BY <2>1, <3>2 DEF ServerNumbers, AuthPcs
    <2>4. ASSUME ClientHere
          PROVE  InHandshake'
      <3>1. InHandshake /\ ClientNumbers
        BY <1>3, <2>4 DEF DialogueInv, KeysAndCounters
      <3>2. CASE c_pc \notin AuthPcs /\ Agree
        <4>1. Len(s2c) \in Nat /\ c_ctr \in Nat
          BY Channels DEF TypeOK, ClientOK
        <4>2. c_ctr + Len(s2c) <= MaxCounter + 1
          BY <3>1, <3>2, ClientReads
        <4>3. n = 1 /\ c_ctr + Len(s2c) = MaxCounter + 1
          BY <1>1, <1>2, <1>12, <2>1, <3>2, <4>1, <4>2 DEF Agree
        <4> QED BY <1>1, <1>9, <2>1, <3>2, <4>3 DEF InHandshake, Agree
      <3>3. CASE c_pc = "auth" /\ c_key = s_key /\ s_ctr + n = MaxCounter + 1
        <4>1. n = 1
          BY <1>1, <1>2, <1>12, <3>3
        <4> QED BY <1>1, <1>9, <2>1, <3>3, <4>1 DEF InHandshake
      <3>4. CASE /\ c_pc = "authM2" /\ s2c = <<>> /\ c_key = s_key
                 /\ c2s[n].type = "AuthM1" /\ c2s[n].body.n = c_eph
        <4>1. n # 1
          BY <1>1, <1>5, <3>4 DEF Fits, Handshake
        <4>2. c2s' # <<>> /\ c2s'[Len(c2s')] = c2s[n]
          <5>1. n - 1 \in 1 .. n - 1 /\ (n - 1) + 1 = n
            BY <1>1, <4>1
          <5> QED BY <1>1, <4>1, <5>1
        <4> QED BY <1>9, <2>1, <3>4, <4>2 DEF InHandshake
      <3> QED BY <1>3, <1>5, <3>1, <3>2, <3>3, <3>4 DEF InHandshake, LoggedOut, AuthPcs
    <2> QED BY <1>3, <1>5, <1>6, <1>8, <1>9, <1>a, <2>3, <2>4 DEF KeysAndCounters
  <1> QED BY <1>11, <1>12

\* A step of one side inside its operation, without a message.
LEMMA QuietSteps ==
    ASSUME TypeOK, DialogueInv, UNCHANGED <<c2s, s2c, c_ctr, s_ctr, cAuth, sAuth>>,
           \/ /\ c_pc \notin AuthPcs \cup Gone \cup {"outM2"} /\ c_pc' \notin AuthPcs \cup Gone
              /\ UNCHANGED server
           \/ /\ s_pc \notin AuthPcs \cup Gone \cup {"run"} /\ s_pc' \notin AuthPcs \cup Gone
              /\ UNCHANGED client
    PROVE  KeysAndCounters' /\ Asked' = Asked /\ Answered' = Answered
  <1>1. Asked' = Asked /\ Answered' = Answered
    BY DEF Asked, Answered
  <1>2. /\ c2s' = c2s /\ s2c' = s2c /\ c_ctr' = c_ctr /\ s_ctr' = s_ctr /\ c_key' = c_key
        /\ c_eph' = c_eph /\ s_key' = s_key /\ s_eph' = s_eph /\ s_peer' = s_peer
    BY DEF cAuth, sAuth
  <1>3. CASE /\ c_pc \notin AuthPcs \cup Gone \cup {"outM2"} /\ c_pc' \notin AuthPcs \cup Gone
             /\ UNCHANGED server
    <2>1. s_pc' = s_pc /\ s_ret' = s_ret
      BY <1>3 DEF server
    <2>2. ClientNumbers'
      <3>1. ClientNumbers
        BY <1>3 DEF DialogueInv, KeysAndCounters, ClientHere
      <3>2. c_pc' \notin {"auth", "authM2", "authM3", "authM4", "authM5"}
        BY <1>3 DEF AuthPcs
      <3> QED BY <1>2, <1>3, <3>1, <3>2 DEF ClientNumbers
    <2>3. ServerHere => ServerNumbers'
      BY <1>2, <2>1 DEF DialogueInv, KeysAndCounters, ServerNumbers
    <2>4. ServerHere => InHandshake'
      <3>1. SUFFICES ASSUME ServerHere PROVE InHandshake'
        OBVIOUS
      <3>2. InHandshake
        BY <1>3, <3>1 DEF DialogueInv, KeysAndCounters, ClientHere
      <3>3. \/ s_pc \notin AuthPcs /\ Agree
            \/ /\ s_pc = "authM1" /\ c_key = s_key /\ c_ctr + Len(s2c) = MaxCounter + 1
               /\ c2s = <<>>
        BY <1>3, <3>2 DEF InHandshake, LoggedOut, ClientAt, AuthPcs
      <3> QED BY <1>2, <1>3, <2>1, <3>3 DEF InHandshake, Agree
    <2> QED BY <1>1, <1>3, <2>1, <2>2, <2>3, <2>4 DEF KeysAndCounters, ServerHere, Gone
  <1>4. CASE /\ s_pc \notin AuthPcs \cup Gone \cup {"run"} /\ s_pc' \notin AuthPcs \cup Gone
             /\ UNCHANGED client
    <2>1. c_pc' = c_pc /\ c_ret' = c_ret /\ c_pc # "left"
      BY <1>4 DEF client, DialogueInv, KeysAndCounters, ServerHere
    <2>2. ServerNumbers'
      <3>1. ServerNumbers
        BY <1>4 DEF DialogueInv, KeysAndCounters, ServerHere
      <3>2. s_pc' # "authM4"
        BY <1>4 DEF AuthPcs
      <3> QED BY <1>2, <1>4, <3>1, <3>2 DEF ServerNumbers
    <2>3. ClientHere => ClientNumbers'
      BY <1>2, <2>1 DEF DialogueInv, KeysAndCounters, ClientNumbers, GoodM3
    <2>4. ClientHere => InHandshake'
      <3>1. SUFFICES ASSUME ClientHere PROVE InHandshake'
        OBVIOUS
      <3>2. InHandshake
        BY <1>4, <3>1 DEF DialogueInv, KeysAndCounters, ServerHere
      <3>3. CASE c_pc \notin AuthPcs /\ Agree
        BY <1>2, <1>4, <2>1, <3>3 DEF InHandshake, Agree
      <3>4. CASE /\ c_pc = "auth" /\ c_key = s_key
                 /\ s_ctr + Len(c2s) = MaxCounter + 1 /\ Asked = c2s
        BY <1>1, <1>2, <1>4, <2>1, <3>4 DEF InHandshake
      <3>5. CASE /\ c_pc = "authM2" /\ s2c = <<>> /\ c_key = s_key
                 /\ c2s # <<>> /\ c2s[Len(c2s)].type = "AuthM1"
                 /\ c2s[Len(c2s)].body.n = c_eph
        BY <1>2, <1>4, <2>1, <3>5 DEF InHandshake
      <3>6. CASE /\ c_pc = "authM5" /\ c2s = <<>> /\ s2c # <<>>
                 /\ s2c[1].body.code = "ACK" /\ c_key = s_key /\ s_ctr = Len(s2c) - 1
        BY <1>2, <1>4, <2>1, <3>6 DEF InHandshake
      <3> QED BY <1>4, <3>2, <3>3, <3>4, <3>5, <3>6 DEF InHandshake, LoggedOut, AuthPcs
    <2> QED BY <1>1, <1>4, <2>1, <2>2, <2>3, <2>4 DEF KeysAndCounters, ClientHere, Gone
  <1> QED BY <1>3, <1>4

-----------------------------------------------------------------------------
(* The operations.                                                          *)

\* The dispatcher of Server::run.
LEMMA HandlerIs ==
    /\ DOMAIN Handler = {"ListM1", "DownM1", "UpM1", "RenM1", "DelM1", "OutM1"}
    /\ Handler["ListM1"] = "listM2" /\ Handler["DownM1"] = "downM2"
    /\ Handler["UpM1"] = "upM2" /\ Handler["RenM1"] = "renM2"
    /\ Handler["DelM1"] = "delM2" /\ Handler["OutM1"] = "outM2"
  BY DEF Handler

\* At its menu the client has had all answers, and the server is done or is about to learn
\* that the file is to stay.
LEMMA WhileAtMenu ==
    ASSUME DialogueInv, ClientHere, ServerHere, ClientAt = "menu"
    PROVE  AtMenu
  BY DEF DialogueInv, Operations, InOperation, AwaitsHandler, InList, InDownload, InUpload,
         InRename, InDelete, InLogout, FirstWaits, Downloading

\* The user picks an operation.
LEMMA RequestDialogue ==
    ASSUME TypeOK, TypeOK', DialogueInv, NEW type \in DOMAIN Handler, NEW b \in Body,
           Request(type, b, Handler[type]),
           type = "UpM1" => b.n = c_size' /\ c_size' > 0 /\ c_i' = 0
    PROVE  DialogueInv'
  <1> DEFINE m == Msg(type, c_key, c_ctr, b)
             next == Handler[type]
  <1>1. /\ type \in Types \ Handshake /\ next \in ClientPcs \ (AuthPcs \cup Gone)
        /\ next \in FirstWaits /\ (next = "upM2" <=> type = "UpM1")
    BY HandlerIs DEF Types, Handshake, ClientPcs, ClientReceives, AuthPcs, Gone, FirstWaits
  <1>2. /\ c_pc = "menu" /\ ToServer(m) /\ ClientIncrement(next)
        /\ UNCHANGED <<server, s2c, cAuth>>
    BY DEF Request
  <1>3. /\ KeysAndCounters' /\ ClientAt' = next /\ ClientHere'
        /\ Answered = <<>> /\ Answered' = <<>>
        /\ ServerHere => Asked' = Append(Asked, m)
        /\ m \in Message
    BY <1>1, <1>2, ClientSendsOne
  <1>4. Len(Answered') = 0
    BY <1>3, EmptySeq
  <1>5. ClientTakes'
    BY <1>1, <1>3, <1>4 DEF ClientTakes, FirstWaits, SingleWaits, Downloading
  <1>6. s_pc' = s_pc /\ s_ret' = s_ret /\ s_i' = s_i /\ s_size' = s_size
    BY <1>2 DEF server
  <1>7. ASSUME ServerHere
        PROVE  ServerTakes' /\ InOperation'
    <2>1. AtMenu /\ ServerTakes
      <3>1. ClientHere /\ ClientAt = "menu"
        BY <1>2 DEF ClientHere, ClientAt, Gone, AuthPcs
      <3> QED BY <1>7, <3>1, WhileAtMenu DEF DialogueInv, Operations
    <2>2. /\ Asked \in Seq(Message) /\ Len(Asked) \in Nat /\ (Asked = <<>> <=> Len(Asked) = 0)
          /\ Asked' = Append(Asked, m)
      BY <1>3, <1>7, Channels DEF TypeOK
    <2>3. /\ Len(Asked') = Len(Asked) + 1 /\ Asked'[Len(Asked) + 1] = m
          /\ \A k \in 1 .. Len(Asked) : Asked'[k] = Asked[k]
      BY <1>3, <2>2, Adding
    <2>4. ServerAt' = ServerAt
      BY <1>6 DEF ServerAt
    <2>5. IsRequest(m) /\ Handler[m.type] = ClientAt' /\ m.body = b
      BY <1>3 DEF IsRequest, Msg
    <2>6. ClientAt' = "upM2" => m.body.n = c_size' /\ c_size' > 0 /\ c_i' = 0
      BY <1>1, <1>3, <2>5
    <2>7. CASE ServerAt \in Idle /\ Asked = <<>>
      <3>1. Len(Asked') = 1 /\ Asked'[1] = m
        BY <2>2, <2>3, <2>7
      <3>2. ServerTakes'
        BY <2>1, <2>4, <2>5, <2>7, <3>1 DEF ServerTakes, Idle, Receiving
      <3>3. AwaitsHandler'
        BY <1>1, <1>3, <1>4, <2>4, <2>5, <2>6, <2>7, <3>1 DEF AwaitsHandler, IsOwnRequest
      <3> QED BY <3>2, <3>3 DEF InOperation
    <2>8. CASE ServerAt = "delM3" /\ Len(Asked) = 1 /\ Refuses(Asked[1])
      <3>1. Len(Asked') = 2 /\ Asked'[2] = m /\ Asked'[1] = Asked[1]
        BY <2>2, <2>3, <2>8
      <3>2. ServerTakes'
        BY <2>1, <2>4, <2>5, <2>8, <3>1 DEF ServerTakes, Idle, Receiving
      <3>3. AwaitsHandler'
        BY <1>1, <1>3, <1>4, <2>4, <2>5, <2>6, <2>8, <3>1 DEF AwaitsHandler, IsOwnRequest
      <3> QED BY <3>2, <3>3 DEF InOperation
    <2> QED BY <2>1, <2>7, <2>8 DEF AtMenu
  <1>8. ServerHere' => ServerHere
    BY <1>6 DEF ServerHere
  <1> QED BY <1>3, <1>5, <1>7, <1>8 DEF DialogueInv, Operations

\* What else a step may change is no matter of the dialogue.
LEMMA Unseen ==
    ASSUME DialogueInv,
           UNCHANGED <<c_pc, c_ret, c_ctr, c_key, c_eph, c_size, c_i, s_pc, s_ret, s_ctr, s_key,
                       s_eph, s_peer, s_size, s_i, c2s, s2c>>
    PROVE  DialogueInv'
  <1>1. Asked' = Asked /\ Answered' = Answered
    BY DEF Asked, Answered
  <1>2. ClientAt' = ClientAt /\ ServerAt' = ServerAt
    BY DEF ClientAt, ServerAt
  <1>3. KeysAndCounters'
    BY <1>1, <1>2 DEF DialogueInv, KeysAndCounters, ClientHere, ServerHere, ClientNumbers,
         ServerNumbers, InHandshake, LoggedOut, Agree, GoodM3
  <1>4. ClientTakes' <=> ClientTakes
    BY <1>1, <1>2 DEF ClientTakes, ClientChunks
  <1>5. ServerTakes' <=> ServerTakes
    BY <1>1, <1>2 DEF ServerTakes, ServerChunks
  <1>6. InOperation' <=> InOperation
    BY <1>1, <1>2 DEF InOperation, AtMenu, AwaitsHandler, IsOwnRequest, InList, InDownload,
         InUpload, InRename, InDelete, InLogout, ClientChunks, ServerChunks
  <1> QED BY <1>3, <1>4, <1>5, <1>6 DEF DialogueInv, Operations, ClientHere, ServerHere

\* The user picks an operation at the menu.
LEMMA UserDialogue ==
    ASSUME TypeOK, TypeOK', DialogueInv, UserStep
    PROVE  DialogueInv'
  <1> USE HandlerIs, BodyTypes
  <1>a. ASSUME NEW res, Refused(res)
        PROVE  DialogueInv'
    BY <1>a, Unseen DEF Refused, cAuth, cOp, server
  <1>1. CASE ClientList
    BY <1>1, RequestDialogue DEF ClientList
  <1>2. CASE ClientDownload
    BY <1>2, <1>a, RequestDialogue DEF ClientDownload
  <1>3. CASE ClientUpload
    <2>1. PICK f \in Names :
            \/ Refused("FILE_NOT_FOUND")
            \/ Refused("WRONG_FILE_SIZE")
            \/ /\ local[f] > 0
               /\ Request("UpM1", [File(f) EXCEPT !.n = local[f]], "upM2")
               /\ c_file' = f /\ c_size' = local[f] /\ c_i' = 0
      BY <1>3 DEF ClientUpload
    <2>2. CASE /\ local[f] > 0
               /\ Request("UpM1", [File(f) EXCEPT !.n = local[f]], "upM2")
               /\ c_file' = f /\ c_size' = local[f] /\ c_i' = 0
      <3>1. local[f] \in Nat
        BY <2>2 DEF TypeOK, DisksOK, Absent
      <3>2. /\ [File(f) EXCEPT !.n = local[f]] \in Body
            /\ [File(f) EXCEPT !.n = local[f]].n = local[f]
        BY <3>1 DEF Body
      <3> QED BY <2>2, <3>2, RequestDialogue
    <2> QED BY <2>1, <2>2, <1>a
  <1>4. CASE ClientRename
    <2>1. PICK f \in Names, g \in Names :
            Request("RenM1", [File(f) EXCEPT !.new = g], "renM2")
      BY <1>4 DEF ClientRename
    <2>2. [File(f) EXCEPT !.new = g] \in Body
      BY DEF Body
    <2> QED BY <2>1, <2>2, RequestDialogue
  <1>5. CASE ClientDelete
    BY <1>5, <1>a, RequestDialogue DEF ClientDelete
  <1>6. CASE ClientLogout
    BY <1>6, RequestDialogue DEF ClientLogout
  <1> QED BY <1>1, <1>2, <1>3, <1>4, <1>5, <1>6 DEF UserStep

\* The client takes an answer and goes on at next.
LEMMA ReplyDialogue ==
    ASSUME TypeOK, TypeOK', DialogueInv, NEW pc \in ClientReceives \ (AuthPcs \cup {"outM2"}),
           NEW type, FromServer(pc, type), NEW next \in ClientPcs \ (AuthPcs \cup Gone), NEW res,
           Reply(next, res), UNCHANGED <<server, c2s, cAuth>>
    PROVE  /\ KeysAndCounters' /\ ClientHere /\ ClientHere' /\ ClientTakes
           /\ ClientAt = pc /\ ClientAt' = next /\ ServerAt' = ServerAt
           /\ Len(Answered) \in Nat \ {0} /\ Answered[1] = Head(s2c) /\ Answered # <<>>
           /\ Len(Answered') = Len(Answered) - 1 /\ (Answered' = <<>> <=> Len(Answered') = 0)
           /\ \A k \in 1 .. Len(Answered) - 1 : Answered'[k] = Answered[k + 1]
           /\ Asked' = Asked /\ Len(Asked) \in Nat /\ (Asked = <<>> <=> Len(Asked) = 0)
           /\ s_pc' = s_pc /\ s_i' = s_i /\ s_size' = s_size /\ ServerChunks' = ServerChunks
           /\ ServerHere' <=> ServerHere
           /\ ServerHere => ServerTakes /\ ServerTakes' /\ InOperation
           /\ Accepted
  <1>1. c_pc = pc /\ s2c # <<>> /\ s2c' = Tail(s2c)
    BY DEF FromServer
  <1>2. c_pc \notin AuthPcs /\ ClientHere /\ ClientAt = pc
    BY <1>1 DEF ClientHere, Gone, ClientReceives, ClientAt
  <1>3. ClientNumbers /\ ClientTakes
    BY <1>2 DEF DialogueInv, KeysAndCounters, Operations
  <1>4. Accepted
    BY <1>1, <1>2, <1>3, ClientReads DEF Accepted
  <1>5. ClientIncrement(next)
    BY <1>4 DEF Accepted, Reply
  <1>6. /\ KeysAndCounters' /\ ClientAt' = next /\ ClientHere'
        /\ Answered # <<>> /\ Head(s2c) = Answered[1] /\ Answered' = Tail(Answered)
    BY <1>1, <1>5, ClientTakesOne
  <1>7. Answered \in Seq(Message) /\ Len(Asked) \in Nat /\ (Asked = <<>> <=> Len(Asked) = 0)
    BY Channels DEF TypeOK
  <1>8. /\ Len(Answered) \in Nat \ {0} /\ Len(Answered') = Len(Answered) - 1
        /\ \A k \in 1 .. Len(Answered) - 1 : Answered'[k] = Answered[k + 1]
        /\ (Answered' = <<>> <=> Len(Answered') = 0)
    <2>1. Tail(Answered) = <<>> <=> Len(Tail(Answered)) = 0
      BY <1>6, <1>7, Taking, EmptySeq
    <2> QED BY <1>6, <1>7, <2>1, Taking
  <1>9. /\ s_pc' = s_pc /\ s_ret' = s_ret /\ s_i' = s_i /\ s_size' = s_size /\ Asked' = Asked
        /\ ServerAt' = ServerAt /\ ServerChunks' = ServerChunks
    BY DEF server, Asked, ServerAt, ServerChunks
  <1>10. ServerHere' <=> ServerHere
    BY <1>9 DEF ServerHere
  <1>11. ServerHere => ServerTakes /\ InOperation
    BY <1>2 DEF DialogueInv, Operations
  <1>12. ServerTakes' <=> ServerTakes
    BY <1>9 DEF ServerTakes
  <1> QED BY <1>2, <1>3, <1>4, <1>6, <1>7, <1>8, <1>9, <1>10, <1>11, <1>12

\* Which operation the client is in, from its place.
LEMMA ClientPlaces ==
    ASSUME DialogueInv, ClientHere, ServerHere
    PROVE  /\ ClientAt = "menu" => AtMenu
           /\ ClientAt \in FirstWaits /\ Answered = <<>> => AwaitsHandler \/ InList \/ InDelete
           /\ ClientAt = "listM2" /\ Answered # <<>> => InList
           /\ ClientAt = "listM3" => InList
           /\ ClientAt = "downM2" /\ Answered # <<>> => InDownload
           /\ ClientAt \in Downloading => InDownload
           /\ ClientAt = "upM2" /\ Answered # <<>> => InUpload
           /\ ClientAt \in {"upMi", "upEnd"} => InUpload
           /\ ClientAt = "renM2" /\ Answered # <<>> => InRename
           /\ ClientAt = "delM2" /\ Answered # <<>> => InDelete
           /\ ClientAt \in {"delAsk", "delM4"} => InDelete
           /\ ClientAt = "outM2" /\ Answered # <<>> => InLogout
  <1>1. InOperation
    BY DEF DialogueInv, Operations
  <1>2. AtMenu => ClientAt = "menu"
    BY DEF AtMenu
  <1>3. AwaitsHandler => ClientAt \in FirstWaits /\ Answered = <<>>
    BY DEF AwaitsHandler
  <1>4. InList => ClientAt \in {"listM2", "listM3"}
    BY DEF InList
  <1>5. InDownload => ClientAt \in {"downM2"} \cup Downloading
                      /\ (ClientAt = "downM2" => Answered # <<>>)
    <2>1. InDownload => ClientAt \in {"downM2"} \cup Downloading
                        /\ (ClientAt = "downM2" => Len(Answered) > 0)
      BY DEF InDownload, Downloading
    <2> QED BY <2>1, EmptySeq
  <1>6. InUpload => ClientAt \in {"upM2", "upMi", "upEnd"}
                    /\ (ClientAt = "upM2" => Answered # <<>>)
    BY EmptySeq DEF InUpload
  <1>7. InRename => ClientAt = "renM2" /\ Answered # <<>>
    BY EmptySeq DEF InRename
  <1>8. InDelete => ClientAt \in {"delM2", "delAsk", "delM4"}
    BY DEF InDelete
  <1>9. InLogout => ClientAt = "outM2" /\ Answered # <<>>
    BY EmptySeq DEF InLogout
  <1> QED BY <1>1, <1>2, <1>3, <1>4, <1>5, <1>6, <1>7, <1>8, <1>9
          DEF InOperation, FirstWaits, Downloading

\* The last answer of an operation brings the client back to its menu.
LEMMA LastReply ==
    ASSUME TypeOK, TypeOK', DialogueInv, NEW pc \in ClientReceives \ (AuthPcs \cup {"outM2"}),
           NEW type, FromServer(pc, type), NEW res, Reply("menu", res),
           UNCHANGED <<server, c2s, cAuth>>, Len(Answered) = 1,
           ServerHere => Asked = <<>> /\ ServerAt \in Idle
    PROVE  DialogueInv'
  <1>1. "menu" \in ClientPcs \ (AuthPcs \cup Gone)
    BY DEF ClientPcs, ClientSends, AuthPcs, Gone
  <1>2. Answered' = <<>> /\ Len(Answered') = 0 /\ ClientAt' = "menu"
    BY <1>1, ReplyDialogue
  <1>3. ClientTakes'
    BY <1>2 DEF ClientTakes, Downloading, SingleWaits
  <1>4. ServerHere => InOperation'
    <2>1. ServerHere => AtMenu'
      BY <1>1, <1>2, ReplyDialogue DEF AtMenu
    <2> QED BY <2>1 DEF InOperation
  <1> QED BY <1>1, <1>3, <1>4, ReplyDialogue DEF DialogueInv, Operations

\* The client takes the answers to a list request.
LEMMA ListReplies ==
    ASSUME TypeOK, TypeOK', DialogueInv, ClientListM2 \/ ClientListM3
    PROVE  DialogueInv'
  <1> DEFINE n == Len(Answered)
  <1>a. {"listM2", "listM3"} \subseteq ClientReceives \ (AuthPcs \cup {"outM2"})
    BY DEF ClientReceives, AuthPcs
  <1>b. {"menu", "listM3"} \subseteq ClientPcs \ (AuthPcs \cup Gone)
    BY DEF ClientPcs, ClientReceives, ClientSends, AuthPcs, Gone
  <1>1. CASE ClientListM2 /\ Head(s2c).body.n = 0
    <2>1. /\ FromServer("listM2", "ListM2") /\ Reply("menu", "SUCCESS")
          /\ UNCHANGED <<server, c2s, cAuth>>
      BY <1>1 DEF ClientListM2
    <2>2. /\ ClientTakes /\ ClientHere /\ ClientAt = "listM2" /\ Answered[1] = Head(s2c)
          /\ n \in Nat \ {0} /\ Answered # <<>>
      BY <1>a, <1>b, <2>1, ReplyDialogue
    <2>3. n <= 2 /\ (n = 2 => Answered[1].body.n # 0)
      BY <2>2 DEF ClientTakes
    <2>4. n = 1
      <3>1. PICK k \in Nat : k = n
        BY <2>2
      <3>2. Answered[1].body.n = 0
        BY <1>1, <2>2
      <3>3. k # 0 /\ k <= 2 /\ k # 2
        BY <2>2, <2>3, <3>1, <3>2
      <3> QED BY <3>1, <3>3
    <2>5. ServerHere => Asked = <<>> /\ ServerAt = "run"
      <3>1. ServerHere => InList
        BY <2>2, ClientPlaces
      <3> QED BY <1>1, <2>2, <2>4, <3>1 DEF InList
    <2> QED BY <1>a, <2>1, <2>4, <2>5, LastReply DEF Idle
  <1>2. CASE ClientListM2 /\ Head(s2c).body.n # 0
    <2>1. /\ FromServer("listM2", "ListM2") /\ Reply("listM3", "none")
          /\ UNCHANGED <<server, c2s, cAuth>>
      BY <1>2 DEF ClientListM2
    <2>2. /\ ClientTakes /\ ClientHere /\ ClientAt = "listM2" /\ Answered[1] = Head(s2c)
          /\ n \in Nat \ {0} /\ Answered # <<>>
      BY <1>a, <1>b, <2>1, ReplyDialogue
    <2>3. n <= 2 /\ (n = 2 => Answered[2].type = "ListM3")
      BY <2>2 DEF ClientTakes
    <2>4. /\ ClientAt' = "listM3" /\ Len(Answered') = n - 1
          /\ n = 2 => Answered'[1].type = "ListM3"
      BY <1>a, <1>b, <2>1, <2>2, <2>3, ReplyDialogue
    <2>5. ClientTakes'
      BY <2>2, <2>3, <2>4 DEF ClientTakes, Downloading, SingleWaits, Expected
    <2>6. ServerHere => InOperation'
      <3>1. ServerHere => InList
        BY <2>2, ClientPlaces
      <3>2. Answered[1].body.n # 0
        BY <1>2, <2>2
      <3>3. ServerHere => Asked = <<>>
        BY <3>1 DEF InList
      <3>4. ServerHere => (ServerAt = "listM3" /\ n = 1) \/ (ServerAt = "run" /\ n = 2)
        <4>1. ServerHere => InList /\ ClientAt = "listM2" /\ n # 0 /\ Answered[1].body.n # 0
          BY <2>2, <3>1, <3>2
        <4> QED BY <4>1 DEF InList
      <3>5. Asked' = Asked /\ ServerAt' = ServerAt
        BY <1>a, <1>b, <2>1, ReplyDialogue
      <3>6. ServerHere => InList'
        BY <2>4, <3>3, <3>4, <3>5 DEF InList
      <3> QED BY <3>6 DEF InOperation
    <2> QED BY <1>a, <1>b, <2>1, <2>5, <2>6, ReplyDialogue DEF DialogueInv, Operations
  <1>3. CASE ClientListM3
    <2>1. /\ FromServer("listM3", "ListM3") /\ Reply("menu", "SUCCESS")
          /\ UNCHANGED <<server, c2s, cAuth>>
      BY <1>3 DEF ClientListM3
    <2>2. ClientTakes /\ ClientHere /\ ClientAt = "listM3" /\ n \in Nat \ {0}
      BY <1>a, <1>b, <2>1, ReplyDialogue
    <2>3. n = 1
      BY <2>2 DEF ClientTakes, SingleWaits
    <2>4. ServerHere => Asked = <<>> /\ ServerAt = "run"
      BY <2>2, <2>3, ClientPlaces DEF InList
    <2> QED BY <1>a, <2>1, <2>3, <2>4, LastReply DEF Idle
  <1> QED BY <1>1, <1>2, <1>3

\* The client takes the answer to a download request and the chunks.
LEMMA DownReplies ==
    ASSUME TypeOK, TypeOK', DialogueInv, ClientDownM2 \/ ClientDownMi
    PROVE  DialogueInv'
  <1>a. {"downM2", "downMi"} \subseteq ClientReceives \ (AuthPcs \cup {"outM2"})
    BY DEF ClientReceives, AuthPcs
  <1>b. {"menu", "downOpen", "downWrite"} \subseteq ClientPcs \ (AuthPcs \cup Gone)
    BY DEF ClientPcs, ClientSends, AuthPcs, Gone
  <1>c. c_i \in Nat /\ c_size \in Nat /\ s_i \in Nat /\ s_size \in Nat /\ c_size' \in Nat
    BY DEF TypeOK, ClientOK, ServerOK
  <1>1. CASE ClientDownM2 /\ Head(s2c).body.code = "FILE_NOT_FOUND"
    <2>1. /\ FromServer("downM2", "DownM2") /\ Reply("menu", "FILE_NOT_FOUND")
          /\ UNCHANGED <<server, c2s, cAuth>>
      BY <1>1 DEF ClientDownM2
    <2>2. /\ ClientTakes /\ ClientHere /\ ClientAt = "downM2" /\ Answered # <<>>
          /\ Answered[1].body.code = "FILE_NOT_FOUND" /\ Len(Answered) \in Nat \ {0}
      BY <1>1, <1>a, <1>b, <2>1, ReplyDialogue
    <2>3. PICK n \in Nat : n = Len(Answered)
      BY <2>2
    <2>4. n = 1
      BY <2>2, <2>3 DEF ClientTakes
    <2>5. ServerHere => Asked = <<>> /\ ServerAt = "run"
      <3>1. ServerHere => InDownload
        BY <2>2, ClientPlaces
      <3> QED BY <2>2, <3>1 DEF InDownload, Downloading
    <2> QED BY <1>a, <2>1, <2>3, <2>4, <2>5, LastReply DEF Idle
  <1>2. CASE ClientDownM2 /\ Head(s2c).body.code # "FILE_NOT_FOUND"
    <2>1. /\ FromServer("downM2", "DownM2") /\ Reply("downOpen", "none")
          /\ UNCHANGED <<server, c2s, cAuth>>
      BY <1>2 DEF ClientDownM2
    <2>2. /\ ClientTakes /\ ClientHere /\ ClientAt = "downM2" /\ Answered # <<>>
          /\ Answered[1] = Head(s2c) /\ Len(Answered) \in Nat \ {0}
          /\ ClientAt' = "downOpen" /\ Accepted
          /\ Len(Answered') = Len(Answered) - 1
          /\ \A k \in 1 .. Len(Answered) - 1 : Answered'[k] = Answered[k + 1]
      BY <1>a, <1>b, <2>1, ReplyDialogue
    <2>3. PICK n \in Nat : n = Len(Answered)
      BY <2>2
    <2>4. PICK size \in Nat : size = c_size' /\ Answered[1].body.n = size
      BY <1>2, <1>c, <2>2 DEF ClientDownM2
    <2>5. n # 0 /\ n - 1 <= size /\ \A k \in 2..n : Answered[k].type = "DownMi"
      BY <2>2, <2>3, <2>4 DEF ClientTakes
    <2>6. Len(Answered') = n - 1 /\ \A k \in 1 .. n - 1 : Answered'[k].type = "DownMi"
      <3>1. \A k \in 1 .. n - 1 : k + 1 \in 2..n
        BY <2>5
      <3> QED BY <2>2, <2>3, <2>5, <3>1
    <2>7. ClientChunks' = 0
      BY <2>2 DEF ClientChunks
    <2>8. ClientTakes'
      BY <2>2, <2>4, <2>5, <2>6, <2>7 DEF ClientTakes, Downloading, SingleWaits
    <2>9. ASSUME ServerHere
          PROVE  InOperation'
      <3>1. InDownload
        BY <2>2, <2>9, ClientPlaces
      <3>2. Asked = <<>>
        BY <3>1 DEF InDownload
      <3>3. \/ ServerAt = "run" /\ n - 1 = size
            \/ ServerAt = "downMi" /\ n - 1 = s_i /\ s_i < s_size /\ size = s_size
        BY <1>2, <2>2, <2>3, <2>4, <3>1 DEF InDownload, Downloading
      <3>4. /\ Asked' = <<>> /\ ServerAt' = ServerAt /\ s_i' = s_i /\ s_size' = s_size
        BY <1>a, <1>b, <2>1, <3>2, ReplyDialogue
      <3>5. ClientChunks' + Len(Answered') = n - 1
        BY <2>5, <2>6, <2>7
      <3>6. InDownload'
        BY <2>2, <2>4, <3>3, <3>4, <3>5 DEF InDownload, Downloading
      <3> QED BY <3>6 DEF InOperation
    <2> QED BY <1>a, <1>b, <2>1, <2>8, <2>9, ReplyDialogue DEF DialogueInv, Operations
  <1>3. CASE ClientDownMi
    <2>1. /\ FromServer("downMi", "DownMi") /\ Reply("downWrite", "none")
          /\ UNCHANGED <<server, c2s, cAuth>> /\ c_i' = c_i /\ c_size' = c_size
      BY <1>3 DEF ClientDownMi, cOp
    <2>2. /\ ClientTakes /\ ClientHere /\ ClientAt = "downMi" /\ Len(Answered) \in Nat \ {0}
          /\ ClientAt' = "downWrite" /\ Len(Answered') = Len(Answered) - 1
          /\ \A k \in 1 .. Len(Answered) - 1 : Answered'[k] = Answered[k + 1]
      BY <1>a, <1>b, <2>1, ReplyDialogue
    <2>3. PICK n \in Nat : n = Len(Answered)
      BY <2>2
    <2>4. ClientChunks = c_i /\ ClientChunks' = c_i + 1
      BY <2>1, <2>2 DEF ClientChunks
    <2>5. n # 0 /\ c_i + n <= c_size /\ \A k \in 1..n : Answered[k].type = "DownMi"
      BY <2>2, <2>3, <2>4 DEF ClientTakes, Downloading
    <2>6. Len(Answered') = n - 1 /\ \A k \in 1 .. n - 1 : Answered'[k].type = "DownMi"
      <3>1. \A k \in 1 .. n - 1 : k + 1 \in 1..n
        BY <2>5
      <3> QED BY <2>2, <2>3, <2>5, <3>1
    <2>7. ClientChunks' + Len(Answered') = c_i + n
      BY <1>c, <2>4, <2>5, <2>6
    <2>8. ClientTakes'
      BY <2>1, <2>2, <2>5, <2>6, <2>7 DEF ClientTakes, Downloading, SingleWaits
    <2>9. ASSUME ServerHere
          PROVE  InOperation'
      <3>1. InDownload
        BY <2>2, <2>9, ClientPlaces DEF Downloading
      <3>2. Asked = <<>> /\ c_i < c_size
        BY <2>2, <3>1 DEF InDownload
      <3>3. \/ ServerAt = "run" /\ c_i + n = c_size
            \/ ServerAt = "downMi" /\ s_size = c_size /\ c_i + n = s_i /\ s_i < s_size
        BY <2>2, <2>3, <2>4, <3>1 DEF InDownload, Downloading
      <3>4. /\ Asked' = <<>> /\ ServerAt' = ServerAt /\ s_i' = s_i /\ s_size' = s_size
        BY <1>a, <1>b, <2>1, <3>2, ReplyDialogue
      <3>5. InDownload'
        BY <2>1, <2>2, <2>7, <3>2, <3>3, <3>4 DEF InDownload, Downloading
      <3> QED BY <3>5 DEF InOperation
    <2> QED BY <1>a, <1>b, <2>1, <2>8, <2>9, ReplyDialogue DEF DialogueInv, Operations
  <1> QED BY <1>1, <1>2, <1>3

\* The client opens the local file and writes the chunks.
LEMMA DownSteps ==
    ASSUME TypeOK, TypeOK', DialogueInv, ClientDownOpen \/ ClientDownWrite
    PROVE  DialogueInv'
  <1>1. /\ c_i \in Nat /\ c_size \in Nat /\ s_i \in Nat /\ s_size \in Nat
        /\ Len(Answered) \in Nat /\ (Answered = <<>> <=> Len(Answered) = 0)
    BY Channels DEF TypeOK, ClientOK, ServerOK
  <1>2. /\ UNCHANGED <<c2s, s2c, cAuth, server, c_ctr, c_ret, c_size>>
        /\ c_pc \in {"downOpen", "downWrite"} /\ c_pc' \in {"downMi", "menu"}
    BY DEF ClientDownOpen, ClientDownWrite, ClientReturn
  <1>3. /\ c_pc \notin AuthPcs \cup Gone \cup {"outM2"} /\ c_pc' \notin AuthPcs \cup Gone
        /\ s_ctr' = s_ctr /\ UNCHANGED sAuth /\ s_pc' = s_pc /\ s_ret' = s_ret
        /\ s_i' = s_i /\ s_size' = s_size
    BY <1>2 DEF AuthPcs, Gone, server, sAuth
  <1>4. KeysAndCounters' /\ Asked' = Asked /\ Answered' = Answered
    BY <1>2, <1>3, QuietSteps
  <1>5. /\ ClientHere /\ ClientHere' /\ ServerHere' = ServerHere /\ ServerAt' = ServerAt
        /\ ClientAt = c_pc /\ ClientAt' = c_pc' /\ ServerChunks' = ServerChunks
    BY <1>2, <1>3 DEF ClientHere, ServerHere, ClientAt, ServerAt, ServerChunks
  <1>6. ClientTakes /\ (ServerHere => ServerTakes /\ InDownload)
    BY <1>2, <1>5, ClientPlaces DEF DialogueInv, Operations, Downloading
  <1>7. PICK n \in Nat : n = Len(Answered)
    BY <1>1
  <1>8. /\ \A k \in 1..n : Answered[k].type = "DownMi"
        /\ ClientChunks + n <= c_size
    BY <1>2, <1>5, <1>6, <1>7 DEF ClientTakes, Downloading
  <1>9. \/ c_pc' = "menu" /\ ClientChunks = c_size
        \/ /\ c_pc' = "downMi" /\ ClientChunks # c_size /\ c_i' = ClientChunks
           /\ ClientChunks \in Nat
    BY <1>1, <1>5, <1>2 DEF ClientDownOpen, ClientDownWrite, ClientReturn, ClientChunks
  <1>10. CASE c_pc' = "menu" /\ ClientChunks = c_size
    <2>1. n = 0
      BY <1>1, <1>8, <1>10
    <2>2. ClientTakes'
      BY <1>4, <1>5, <1>7, <1>10, <2>1 DEF ClientTakes, Downloading, SingleWaits
    <2>3. ServerHere => AtMenu'
      BY <1>1, <1>2, <1>4, <1>5, <1>6, <1>7, <1>10, <2>1 DEF InDownload, AtMenu, Idle
    <2> QED BY <1>3, <1>4, <1>5, <1>6, <2>2, <2>3
            DEF DialogueInv, Operations, ServerTakes, InOperation
  <1>11. CASE /\ c_pc' = "downMi" /\ ClientChunks # c_size /\ c_i' = ClientChunks
              /\ ClientChunks \in Nat
    <2>1. ClientChunks' = ClientChunks /\ c_i' < c_size
      <3>1. ClientChunks' = c_i'
        BY <1>5, <1>11 DEF ClientChunks
      <3> QED BY <1>1, <1>8, <1>11, <3>1
    <2>2. ClientTakes'
      BY <1>2, <1>4, <1>5, <1>7, <1>8, <1>11, <2>1 DEF ClientTakes, Downloading, SingleWaits
    <2>3. ServerHere => InDownload'
      BY <1>2, <1>3, <1>4, <1>5, <1>6, <1>11, <2>1 DEF InDownload, Downloading
    <2> QED BY <1>3, <1>4, <1>5, <1>6, <2>2, <2>3
            DEF DialogueInv, Operations, ServerTakes, InOperation
  <1> QED BY <1>9, <1>10, <1>11

\* The client takes the answer to an upload request and the last message of the upload.
LEMMA UpReplies ==
    ASSUME TypeOK, TypeOK', DialogueInv, ClientUpM2 \/ ClientUpEnd
    PROVE  DialogueInv'
  <1>a. {"upM2", "upEnd"} \subseteq ClientReceives \ (AuthPcs \cup {"outM2"})
    BY DEF ClientReceives, AuthPcs
  <1>b. {"menu", "upMi"} \subseteq ClientPcs \ (AuthPcs \cup Gone)
    BY DEF ClientPcs, ClientSends, AuthPcs, Gone
  <1>c. c_i \in Nat /\ c_size \in Nat /\ s_i \in Nat /\ s_size \in Nat
    BY DEF TypeOK, ClientOK, ServerOK
  <1>1. CASE ClientUpM2 /\ Head(s2c).body.code = "NACK"
    <2>1. /\ FromServer("upM2", "UpM2") /\ Reply("menu", "FILE_ALREADY_EXISTS")
          /\ UNCHANGED <<server, c2s, cAuth>>
      BY <1>1 DEF ClientUpM2
    <2>2. /\ ClientTakes /\ ClientHere /\ ClientAt = "upM2" /\ Answered # <<>>
          /\ Answered[1].body.code = "NACK" /\ Len(Answered) \in Nat \ {0}
          /\ Len(Asked) \in Nat /\ (Asked = <<>> <=> Len(Asked) = 0)
      BY <1>1, <1>a, <1>b, <2>1, ReplyDialogue
    <2>3. Len(Answered) = 1
      BY <2>2 DEF ClientTakes, SingleWaits
    <2>4. ServerHere => Asked = <<>> /\ ServerAt = "run"
      <3>1. ServerHere => InUpload
        BY <2>2, ClientPlaces
      <3> QED BY <2>2, <3>1 DEF InUpload
    <2> QED BY <1>a, <2>1, <2>3, <2>4, LastReply DEF Idle
  <1>2. CASE ClientUpM2 /\ Head(s2c).body.code # "NACK"
    <2>1. /\ FromServer("upM2", "UpM2") /\ Reply("upMi", "none")
          /\ UNCHANGED <<server, c2s, cAuth>> /\ c_i' = c_i /\ c_size' = c_size
      BY <1>2 DEF ClientUpM2, cOp
    <2>2. /\ ClientTakes /\ ClientHere /\ ClientAt = "upM2" /\ Answered # <<>>
          /\ Answered[1].body.code # "NACK" /\ Len(Answered) \in Nat \ {0}
          /\ ClientAt' = "upMi" /\ Len(Answered') = Len(Answered) - 1
          /\ (Asked = <<>> <=> Len(Asked) = 0)
      BY <1>2, <1>a, <1>b, <2>1, ReplyDialogue
    <2>3. Len(Answered') = 0
      BY <2>2 DEF ClientTakes, SingleWaits
    <2>4. ClientTakes'
      BY <2>2, <2>3 DEF ClientTakes, Downloading, SingleWaits
    <2>5. ASSUME ServerHere
          PROVE  InOperation'
      <3>1. InUpload
        BY <2>2, <2>5, ClientPlaces
      <3>2. /\ Len(Asked) = 0 /\ ServerAt \in {"upLook", "upCreate", "upMi"}
            /\ s_size = c_size /\ s_i = 0 /\ c_i = 0 /\ c_size > 0
        BY <2>2, <3>1 DEF InUpload
      <3>3. /\ Asked' = Asked /\ ServerAt' = ServerAt /\ s_i' = s_i /\ s_size' = s_size
            /\ ServerChunks' = ServerChunks
        BY <1>a, <1>b, <2>1, ReplyDialogue
      <3>4. ServerChunks = 0
        BY <3>2 DEF ServerChunks
      <3>5. InUpload'
        BY <1>c, <2>1, <2>2, <2>3, <3>2, <3>3, <3>4 DEF InUpload, Receiving
      <3> QED BY <3>5 DEF InOperation
    <2> QED BY <1>a, <1>b, <2>1, <2>4, <2>5, ReplyDialogue DEF DialogueInv, Operations
  <1>3. CASE ClientUpEnd
    <2>1. /\ FromServer("upEnd", "UpEnd") /\ Reply("menu", "SUCCESS")
          /\ UNCHANGED <<server, c2s, cAuth>>
      BY <1>3 DEF ClientUpEnd
    <2>2. /\ ClientTakes /\ ClientHere /\ ClientAt = "upEnd" /\ Len(Answered) \in Nat \ {0}
          /\ (Asked = <<>> <=> Len(Asked) = 0)
      BY <1>a, <1>b, <2>1, ReplyDialogue
    <2>3. Len(Answered) = 1
      BY <2>2 DEF ClientTakes, SingleWaits
    <2>4. ServerHere => Asked = <<>> /\ ServerAt \in Idle
      BY <2>2, <2>3, ClientPlaces DEF InUpload
    <2> QED BY <1>a, <2>1, <2>3, <2>4, LastReply
  <1> QED BY <1>1, <1>2, <1>3

\* The client sends a chunk.
LEMMA UpChunks ==
    ASSUME TypeOK, TypeOK', DialogueInv, ClientUpMi
    PROVE  DialogueInv'
  <1> DEFINE m == Msg("UpMi", c_key, c_ctr, Number(c_i))
             next == IF c_i + 1 = c_size THEN "upEnd" ELSE "upMi"
  <1>1. /\ "UpMi" \in Types \ Handshake /\ Number(c_i) \in Body
        /\ next \in ClientPcs \ (AuthPcs \cup Gone)
        /\ c_i \in Nat /\ c_size \in Nat /\ s_i \in Nat /\ s_size \in Nat
    BY BodyTypes DEF TypeOK, ClientOK, ServerOK, Types, Handshake, ClientPcs, ClientReceives,
       ClientSends, AuthPcs, Gone
  <1>2. /\ c_pc = "upMi" /\ ToServer(m) /\ ClientIncrement(next)
        /\ UNCHANGED <<server, s2c, cAuth, c_size>> /\ c_i' = c_i + 1
    BY DEF ClientUpMi, ToServer
  <1>3. /\ KeysAndCounters' /\ ClientAt' = next /\ ClientHere' /\ Answered' = <<>>
        /\ ServerHere => Asked' = Append(Asked, m)
        /\ m \in Message
    BY <1>1, <1>2, ClientSendsOne
  <1>4. Len(Answered') = 0
    BY <1>3, EmptySeq
  <1>5. ClientTakes'
    BY <1>3, <1>4 DEF ClientTakes, SingleWaits, Downloading
  <1>6. /\ s_i' = s_i /\ s_size' = s_size /\ ServerAt' = ServerAt /\ ServerHere' = ServerHere
        /\ ServerChunks' = ServerChunks
    BY <1>2 DEF server, ServerAt, ServerHere, ServerChunks
  <1>7. ASSUME ServerHere
        PROVE  ServerTakes' /\ InOperation'
    <2>1. InUpload /\ ServerTakes /\ ClientAt = "upMi"
      <3>1. ClientHere /\ ClientAt = "upMi"
        BY <1>2 DEF ClientHere, ClientAt, Gone, AuthPcs
      <3> QED BY <1>7, <3>1, ClientPlaces DEF DialogueInv, Operations
    <2>2. Asked \in Seq(Message) /\ Len(Asked) \in Nat /\ ServerChunks \in Nat
      BY <1>1, Channels DEF TypeOK, ServerChunks
    <2>3. PICK n \in Nat : n = Len(Asked)
      BY <2>2
    <2>4. /\ Len(Asked') = n + 1 /\ Asked'[n + 1] = m
          /\ \A k \in 1..n : Asked'[k] = Asked[k]
      BY <1>3, <1>7, <2>2, <2>3, Adding
    <2>5. /\ ServerAt \in Receiving /\ c_i < c_size /\ s_size = c_size /\ s_i < s_size
          /\ ServerChunks + n = c_i /\ (ServerAt \in {"upLook", "upCreate"} => s_i = 0)
      BY <2>1, <2>3 DEF InUpload
    <2>6. \A k \in 1 .. n + 1 : Asked'[k].type = "UpMi"
      <3>1. \A k \in 1..n : Asked[k].type = "UpMi"
        BY <2>1, <2>3, <2>5 DEF ServerTakes
      <3>2. m.type = "UpMi"
        BY DEF Msg
      <3> QED BY <2>4, <3>1, <3>2
    <2>7. ServerChunks' + Len(Asked') = c_i'
      BY <1>1, <1>2, <1>6, <2>2, <2>4, <2>5
    <2>8. ServerTakes'
      <3>1. ServerChunks' + Len(Asked') <= s_size'
        BY <1>1, <1>2, <1>6, <2>5, <2>7
      <3> QED BY <1>6, <2>4, <2>5, <2>6, <3>1
              DEF ServerTakes, Idle, Receiving, AuthPcs, Gone
    <2>9. InUpload'
      <3>1. IF next = "upMi" THEN c_i' < c_size' ELSE c_i' = c_size'
        BY <1>1, <1>2, <2>5
      <3> QED BY <1>2, <1>3, <1>4, <1>6, <2>5, <2>7, <3>1 DEF InUpload
    <2> QED BY <2>8, <2>9 DEF InOperation
  <1> QED BY <1>3, <1>5, <1>6, <1>7 DEF DialogueInv, Operations

\* The client takes the answers to a rename and a delete request.
LEMMA FileReplies ==
    ASSUME TypeOK, TypeOK', DialogueInv, ClientRenM2 \/ ClientDelM2 \/ ClientDelM4
    PROVE  DialogueInv'
  <1>a. {"renM2", "delM2", "delM4"} \subseteq ClientReceives \ (AuthPcs \cup {"outM2"})
    BY DEF ClientReceives, AuthPcs
  <1>b. {"menu", "delAsk"} \subseteq ClientPcs \ (AuthPcs \cup Gone)
    BY DEF ClientPcs, ClientSends, AuthPcs, Gone
  <1>1. CASE ClientRenM2
    <2>1. PICK res : /\ FromServer("renM2", "RenM2") /\ Reply("menu", res)
                     /\ UNCHANGED <<server, c2s, cAuth>>
      BY <1>1 DEF ClientRenM2
    <2>2. /\ ClientTakes /\ ClientHere /\ ClientAt = "renM2" /\ Answered # <<>>
          /\ Len(Answered) \in Nat \ {0}
      BY <1>a, <1>b, <2>1, ReplyDialogue
    <2>3. Len(Answered) = 1
      BY <2>2 DEF ClientTakes, SingleWaits
    <2>4. ServerHere => Asked = <<>> /\ ServerAt = "run"
      BY <2>2, ClientPlaces DEF InRename
    <2> QED BY <1>a, <2>1, <2>3, <2>4, LastReply DEF Idle
  <1>2. CASE ClientDelM2
    <2>1. /\ FromServer("delM2", "DelM2") /\ Reply("delAsk", "none")
          /\ UNCHANGED <<server, c2s, cAuth>>
      BY <1>2 DEF ClientDelM2
    <2>2. /\ ClientTakes /\ ClientHere /\ ClientAt = "delM2" /\ Answered # <<>>
          /\ Len(Answered) \in Nat \ {0}
          /\ ClientAt' = "delAsk" /\ Len(Answered') = Len(Answered) - 1
          /\ Asked' = Asked /\ ServerAt' = ServerAt
      BY <1>a, <1>b, <2>1, ReplyDialogue
    <2>3. Len(Answered') = 0
      BY <2>2 DEF ClientTakes, SingleWaits
    <2>4. ClientTakes'
      BY <2>2, <2>3 DEF ClientTakes, Downloading, SingleWaits
    <2>5. ServerHere => InOperation'
      <3>1. ServerHere => InDelete
        BY <2>2, ClientPlaces
      <3>2. ServerHere => InDelete'
        BY <2>2, <3>1 DEF InDelete
      <3> QED BY <3>2 DEF InOperation
    <2> QED BY <1>a, <1>b, <2>1, <2>4, <2>5, ReplyDialogue DEF DialogueInv, Operations
  <1>3. CASE ClientDelM4
    <2>1. /\ FromServer("delM4", "DelM4") /\ Reply("menu", "SUCCESS")
          /\ UNCHANGED <<server, c2s, cAuth>>
      BY <1>3 DEF ClientDelM4
    <2>2. /\ ClientTakes /\ ClientHere /\ ClientAt = "delM4" /\ Answered # <<>>
          /\ Len(Answered) \in Nat \ {0} /\ (Asked = <<>> <=> Len(Asked) = 0)
      BY <1>a, <1>b, <2>1, ReplyDialogue
    <2>3. Len(Answered) = 1
      BY <2>2 DEF ClientTakes, SingleWaits
    <2>4. ServerHere => Asked = <<>> /\ ServerAt = "run"
      BY <2>2, <2>3, ClientPlaces DEF InDelete
    <2> QED BY <1>a, <2>1, <2>3, <2>4, LastReply DEF Idle
  <1> QED BY <1>1, <1>2, <1>3

\* The user answers the question whether the file is to be deleted.
LEMMA DeleteAnswer ==
    ASSUME TypeOK, TypeOK', DialogueInv, ClientDelAsk
    PROVE  DialogueInv'
  <1>1. PICK code \in {"DELETE_CONFIRM", "NO_DELETE_CONFIRM"}, next \in {"delM4", "menu"} :
          /\ code = "DELETE_CONFIRM" <=> next = "delM4"
          /\ ToServer(Msg("DelM3", c_key, c_ctr, Code(code))) /\ ClientIncrement(next)
    BY DEF ClientDelAsk
  <1> DEFINE m == Msg("DelM3", c_key, c_ctr, Code(code))
  <1>2. /\ "DelM3" \in Types \ Handshake /\ Code(code) \in Body
        /\ next \in ClientPcs \ (AuthPcs \cup Gone)
    BY BodyTypes DEF Types, Handshake, Codes, ClientPcs, ClientReceives, ClientSends, AuthPcs,
       Gone
  <1>3. c_pc = "delAsk" /\ UNCHANGED <<server, s2c, cAuth>>
    BY DEF ClientDelAsk
  <1>4. /\ KeysAndCounters' /\ ClientAt' = next /\ ClientHere' /\ Answered' = <<>>
        /\ ServerHere => Asked' = Append(Asked, m)
        /\ m \in Message
    BY <1>1, <1>2, <1>3, ClientSendsOne
  <1>5. Len(Answered') = 0
    BY <1>4, EmptySeq
  <1>6. ClientTakes'
    BY <1>4, <1>5 DEF ClientTakes, SingleWaits, Downloading
  <1>7. ServerAt' = ServerAt /\ ServerHere' = ServerHere
    BY <1>3 DEF server, ServerAt, ServerHere
  <1>8. ASSUME ServerHere
        PROVE  ServerTakes' /\ InOperation'
    <2>1. ServerTakes /\ Len(Asked) = 0 /\ ServerAt = "delM3"
      <3>1. ClientHere /\ ClientAt = "delAsk"
        BY <1>3 DEF ClientHere, ClientAt, Gone, AuthPcs
      <3> QED BY <1>8, <3>1, ClientPlaces DEF DialogueInv, Operations, InDelete
    <2>2. Len(Asked') = 1 /\ Asked'[1] = m
      <3>1. Len(Asked') = 0 + 1 /\ Asked'[0 + 1] = m
        BY <1>4, <1>8, <2>1, Channels, Adding DEF TypeOK
      <3> QED BY <3>1
    <2>3. m.type = "DelM3" /\ m.body.code = code
      BY <1>1, BodyTypes DEF Msg, Code, Plain
    <2>4. ServerTakes'
      BY <1>7, <2>1, <2>2, <2>3 DEF ServerTakes, Idle, Receiving, AuthPcs, Gone
    <2>5. AtMenu' \/ InDelete'
      BY <1>1, <1>4, <1>5, <1>7, <2>1, <2>2, <2>3 DEF AtMenu, Refuses, InDelete
    <2> QED BY <2>4, <2>5 DEF InOperation
  <1> QED BY <1>4, <1>6, <1>7, <1>8 DEF DialogueInv, Operations

\* The client takes the answer to its logout and leaves.
LEMMA LogoutReply ==
    ASSUME TypeOK, TypeOK', DialogueInv, ClientOutM2
    PROVE  DialogueInv'
  <1>1. /\ c_pc = "outM2" /\ s2c # <<>> /\ c_pc' \in {"left", "exit"}
        /\ UNCHANGED <<server, c2s>>
    BY DEF ClientOutM2, FromServer
  <1>2. ClientHere /\ c_pc \notin AuthPcs /\ ClientAt = "outM2" /\ ~ClientHere'
    BY <1>1 DEF ClientHere, Gone, AuthPcs, ClientAt
  <1>3. /\ s_pc' = s_pc /\ s_ret' = s_ret /\ s_i' = s_i /\ s_size' = s_size
        /\ s_key' = s_key /\ s_ctr' = s_ctr /\ c2s' = c2s
    BY <1>1 DEF server
  <1>4. /\ ServerHere' = ServerHere /\ ServerAt' = ServerAt /\ ServerChunks' = ServerChunks
        /\ Asked' = Asked
    BY <1>3 DEF ServerHere, ServerAt, ServerChunks, Asked
  <1>5. ServerHere => ServerNumbers' /\ ServerTakes'
    BY <1>3, <1>4 DEF DialogueInv, KeysAndCounters, Operations, ServerNumbers, ServerTakes
  <1>6. ServerHere => s_pc = "run" /\ c2s = <<>>
    <2>1. SUFFICES ASSUME ServerHere PROVE s_pc = "run" /\ c2s = <<>>
      OBVIOUS
    <2>2. Answered # <<>>
      BY <1>1, <1>2, ClientReads DEF DialogueInv, KeysAndCounters
    <2>3. s_pc = "run" /\ Asked = <<>>
      BY <1>2, <2>1, <2>2, ClientPlaces DEF InLogout
    <2>4. s_pc \notin AuthPcs /\ ServerNumbers
      BY <2>1, <2>3 DEF AuthPcs, DialogueInv, KeysAndCounters
    <2> QED BY <2>3, <2>4, ServerReads
  <1> QED BY <1>2, <1>3, <1>4, <1>5, <1>6 DEF DialogueInv, KeysAndCounters, Operations

\* Which operation the client is in, from the place of the server.
LEMMA ServerPlaces ==
    ASSUME DialogueInv, ClientHere, ServerHere
    PROVE  /\ ServerAt \in Idle /\ Asked # <<>> => AwaitsHandler
           /\ ServerAt \in FirstWaits => AwaitsHandler /\ ClientAt = ServerAt
           /\ ServerAt = "listM3" => InList
           /\ ServerAt = "downMi" => InDownload
           /\ ServerAt \in Receiving \cup {"upEnd"} => InUpload
           /\ ServerAt = "upClose" => AtMenu \/ AwaitsHandler \/ InUpload
           /\ ServerAt = "delM3" => AtMenu \/ AwaitsHandler \/ InDelete
           /\ ServerAt = "delM4" => InDelete
  <1>1. InOperation
    BY DEF DialogueInv, Operations
  <1>2. AtMenu => ServerAt \in Idle \cup {"delM3"} /\ (ServerAt \in Idle => Asked = <<>>)
    BY DEF AtMenu, Idle
  <1>3. AwaitsHandler => /\ ServerAt \in Idle \cup FirstWaits \cup {"delM3"}
                         /\ ServerAt \in FirstWaits => ClientAt = ServerAt
    BY DEF AwaitsHandler, Idle, FirstWaits
  <1>4. InList => ServerAt \in {"run", "listM3"} /\ Asked = <<>>
    BY DEF InList
  <1>5. InDownload => ServerAt \in {"run", "downMi"} /\ Asked = <<>>
    BY DEF InDownload
  <1>6. InUpload => /\ ServerAt \in Idle \cup Receiving \cup {"upEnd"}
                    /\ ServerAt \in Idle => Asked = <<>>
    <2>1. InUpload => /\ ServerAt \in Idle \cup Receiving \cup {"upEnd"}
                      /\ ServerAt \in Idle => Len(Asked) = 0
      BY DEF InUpload, Receiving, Idle
    <2>2. Asked # <<>> => Len(Asked) # 0
      BY EmptySeq
    <2> QED BY <2>1, <2>2
  <1>7. InRename => ServerAt = "run" /\ Asked = <<>>
    BY DEF InRename
  <1>8. InDelete => ServerAt \in {"run", "delM3", "delM4"} /\ (ServerAt = "run" => Asked = <<>>)
    BY EmptySeq DEF InDelete
  <1>9. InLogout => ServerAt = "run" /\ Asked = <<>>
    BY DEF InLogout, ServerAt, AuthPcs
  <1> QED BY <1>1, <1>2, <1>3, <1>4, <1>5, <1>6, <1>7, <1>8, <1>9
          DEF InOperation, FirstWaits, Receiving, Idle

\* The server sends an answer and goes on at next.
LEMMA AnswerDialogue ==
    ASSUME TypeOK, TypeOK', DialogueInv, NEW pc \in ServerSends \ (AuthPcs \cup {"outM2"}),
           NEW type \in Types \ Handshake, NEW b \in Body,
           NEW next \in ServerPcs \ (AuthPcs \cup Gone), Answer(pc, type, b, next)
    PROVE  /\ KeysAndCounters' /\ ServerHere /\ ServerHere'
           /\ ServerAt = pc /\ ServerAt' = next /\ ClientAt' = ClientAt /\ s_pc = pc
           /\ Asked = <<>> /\ Asked' = <<>> /\ Len(Asked') = 0
           /\ c_i' = c_i /\ c_size' = c_size /\ ClientChunks' = ClientChunks
           /\ ClientHere' <=> ClientHere
           /\ Len(Answered) \in Nat /\ (Answered = <<>> <=> Len(Answered) = 0)
           /\ ServerTakes
           /\ next \notin Receiving \cup {"upM2"} => ServerTakes'
           /\ ClientHere =>
                /\ ClientTakes /\ InOperation
                /\ Len(Answered') = Len(Answered) + 1 /\ Answered' # <<>>
                /\ Answered'[Len(Answered) + 1].type = type
                /\ Answered'[Len(Answered) + 1].body = b
                /\ \A k \in 1 .. Len(Answered) : Answered'[k] = Answered[k]
  <1> DEFINE m == Msg(type, s_key, s_ctr, b)
  <1>1. /\ s_pc = pc /\ ToClient(m) /\ ServerIncrement(next)
        /\ UNCHANGED <<client, c2s, sAuth>>
    BY DEF Answer
  <1>2. /\ KeysAndCounters' /\ ServerAt' = next /\ ServerHere'
        /\ Asked = <<>> /\ Asked' = <<>> /\ m \in Message
        /\ ClientHere => Answered' = Append(Answered, m)
    BY <1>1, ServerSendsOne
  <1>3. ServerHere /\ ServerAt = pc
    BY <1>1 DEF ServerHere, Gone, ServerSends, ServerAt
  <1>4. /\ ClientAt' = ClientAt /\ ClientChunks' = ClientChunks /\ c_i' = c_i
        /\ c_size' = c_size /\ (ClientHere' <=> ClientHere)
    BY <1>1 DEF client, ClientAt, ClientChunks, ClientHere
  <1>5. /\ Answered \in Seq(Message) /\ Len(Answered) \in Nat
        /\ (Answered = <<>> <=> Len(Answered) = 0) /\ Len(Asked') = 0
    BY <1>2, Channels, EmptySeq DEF TypeOK
  <1>6. next \notin Receiving \cup {"upM2"} => ServerTakes'
    BY <1>2, <1>5 DEF ServerTakes
  <1>7. ServerTakes /\ (ClientHere => ClientTakes /\ InOperation)
    BY <1>3 DEF DialogueInv, Operations
  <1>8. ClientHere => /\ Len(Answered') = Len(Answered) + 1 /\ Answered' # <<>>
                      /\ Answered'[Len(Answered) + 1] = m
                      /\ \A k \in 1 .. Len(Answered) : Answered'[k] = Answered[k]
    BY <1>2, <1>5, Adding
  <1>9. m.type = type /\ m.body = b
    BY DEF Msg
  <1> QED BY <1>1, <1>2, <1>3, <1>4, <1>5, <1>6, <1>7, <1>8, <1>9

\* The first answer of a handler.
LEMMA FirstAnswer ==
    ASSUME TypeOK, TypeOK', DialogueInv, NEW pc \in FirstWaits \ {"outM2"},
           NEW type \in Types \ Handshake, NEW b \in Body,
           NEW next \in ServerPcs \ (AuthPcs \cup Gone), Answer(pc, type, b, next), ClientHere
    PROVE  /\ ClientAt = pc /\ ClientAt' = pc /\ Len(Answered') = 1 /\ s_i = 0
           /\ Answered'[1].type = type /\ Answered'[1].body = b
           /\ pc = "upM2" => c_i = 0 /\ c_size > 0 /\ s_size = c_size
  <1>1. pc \in ServerSends \ (AuthPcs \cup {"outM2"})
    BY DEF FirstWaits, ServerSends, AuthPcs
  <1>2. /\ AwaitsHandler /\ ClientAt = pc /\ ServerAt = pc /\ ClientAt' = pc
        /\ pc \notin Idle \cup {"delM3"}
    BY <1>1, AnswerDialogue, ServerPlaces DEF FirstWaits, Idle
  <1>3. Len(Answered) = 0 /\ s_i = 0
        /\ (pc = "upM2" => c_i = 0 /\ c_size > 0 /\ s_size = c_size)
    BY <1>1, <1>2, AnswerDialogue DEF AwaitsHandler
  <1>4. Len(Answered') = 0 + 1 /\ Answered'[0 + 1].type = type /\ Answered'[0 + 1].body = b
    BY <1>1, <1>3, AnswerDialogue
  <1> QED BY <1>2, <1>3, <1>4

\* The messages, places and codes of the handlers.
LEMMA HandlerTypes ==
    /\ {"ListM2", "ListM3", "DownM2", "DownMi", "UpM2", "UpEnd", "RenM2", "DelM2", "DelM4",
        "OutM2"} \subseteq Types \ Handshake
    /\ {"run", "listM3", "downMi", "upLook", "upCreate", "upMi", "upWrite", "upEnd",
        "upClose", "delM3", "delM4"} \subseteq ServerPcs \ (AuthPcs \cup Gone)
    /\ {"listM2", "listM3", "downM2", "downMi", "upM2", "upEnd", "renM2", "delM2", "delM4"}
         \subseteq ServerSends \ (AuthPcs \cup {"outM2"})
    /\ Codes = {"ACK", "NACK", "LIST_ACK", "DOWNLOAD_ACK", "FILE_NOT_FOUND",
                "FILE_ALREADY_EXISTS", "DELETE_ASK", "DELETE_CONFIRM", "NO_DELETE_CONFIRM"}
    /\ Plain.n = 0 /\ \A n : Number(n).n = n
    /\ \A c : Code(c).code = c
  <1>1. /\ {"ListM2", "ListM3", "DownM2", "DownMi", "UpM2", "UpEnd", "RenM2", "DelM2", "DelM4",
            "OutM2"} \subseteq Types \ Handshake
        /\ {"run", "listM3", "downMi", "upLook", "upCreate", "upMi", "upWrite", "upEnd",
            "upClose", "delM3", "delM4"} \subseteq ServerPcs \ (AuthPcs \cup Gone)
    BY DEF Types, Handshake, ServerPcs, ServerReceives, ServerSends, AuthPcs, Gone
  <1>2. {"listM2", "listM3", "downM2", "downMi", "upM2", "upEnd", "renM2", "delM2", "delM4"}
           \subseteq ServerSends \ (AuthPcs \cup {"outM2"})
    BY DEF ServerSends, AuthPcs
  <1>3. Plain.n = 0 /\ (\A n : Number(n).n = n) /\ \A c : Code(c).code = c
    BY DEF Plain, Number, Code
  <1> QED BY <1>1, <1>2, <1>3 DEF Codes

\* The server answers a list request.
LEMMA ListAnswers ==
    ASSUME TypeOK, TypeOK', DialogueInv, ServerListM2 \/ ServerListM3
    PROVE  DialogueInv'
  <1> USE HandlerTypes, BodyTypes
  <1>1. CASE ServerListM2
    <2>1. PICK n \in {0, 1}, next \in {"run", "listM3"} :
            /\ n = 0 <=> next = "run"
            /\ \E b \in Body : b.n = n /\ Answer("listM2", "ListM2", b, next)
      BY <1>1 DEF ServerListM2
    <2>2. PICK b \in Body : b.n = n /\ Answer("listM2", "ListM2", b, next)
      BY <2>1
    <2>3. /\ KeysAndCounters' /\ ServerHere /\ ServerHere' /\ ServerAt' = next
          /\ Asked' = <<>> /\ (ClientHere' <=> ClientHere) /\ ServerTakes'
      BY <2>2, AnswerDialogue DEF Receiving
    <2>4. ASSUME ClientHere
          PROVE  ClientTakes' /\ InOperation'
      <3>1. /\ ClientAt' = "listM2" /\ Len(Answered') = 1
            /\ Answered'[1].type = "ListM2" /\ Answered'[1].body = b
        BY <2>2, <2>4, FirstAnswer DEF FirstWaits
      <3>2. ClientTakes'
        BY <3>1 DEF ClientTakes, Downloading, SingleWaits
      <3>3. InList'
        BY <2>1, <2>2, <2>3, <3>1 DEF InList
      <3> QED BY <3>2, <3>3 DEF InOperation
    <2> QED BY <2>3, <2>4 DEF DialogueInv, Operations
  <1>2. CASE ServerListM3
    <2>1. Answer("listM3", "ListM3", Plain, "run")
      BY <1>2 DEF ServerListM3
    <2>2. /\ KeysAndCounters' /\ ServerHere /\ ServerHere' /\ ServerAt' = "run"
          /\ ClientAt' = ClientAt /\ ServerAt = "listM3"
          /\ Asked' = <<>> /\ (ClientHere' <=> ClientHere) /\ ServerTakes'
      BY <2>1, AnswerDialogue, SMTT(30) DEF Receiving
    <2>3. ASSUME ClientHere
          PROVE  ClientTakes' /\ InOperation'
      <3>1. InList /\ ClientTakes /\ Len(Answered) \in Nat
        BY <2>1, <2>2, <2>3, ServerPlaces, AnswerDialogue
      <3>2. PICK n \in Nat : n = Len(Answered)
        BY <3>1
      <3>3. /\ Len(Answered') = n + 1 /\ Answered'[n + 1].type = "ListM3"
            /\ \A k \in 1..n : Answered'[k] = Answered[k]
        BY <2>1, <2>3, <3>2, AnswerDialogue
      <3>4. CASE ClientAt = "listM2" /\ n = 1 /\ Answered[1].body.n # 0
        <4>1. /\ Len(Answered') = 2 /\ Answered'[2].type = "ListM3"
              /\ Answered'[1] = Answered[1]
          BY <3>3, <3>4
        <4>2. Answered[1].type = "ListM2"
          BY <3>1, <3>2, <3>4 DEF ClientTakes
        <4>3. ClientTakes'
          BY <2>2, <3>4, <4>1, <4>2 DEF ClientTakes, Downloading, SingleWaits
        <4>4. InList'
          BY <2>2, <3>4, <4>1 DEF InList
        <4> QED BY <4>3, <4>4 DEF InOperation
      <3>5. CASE ClientAt = "listM3" /\ n = 0
        <4>1. Len(Answered') = 1 /\ Answered'[1].type = "ListM3"
          BY <3>3, <3>5
        <4>2. ClientTakes'
          BY <2>2, <3>5, <4>1 DEF ClientTakes, Downloading, SingleWaits, Expected
        <4>3. InList'
          BY <2>2, <3>5, <4>1 DEF InList
        <4> QED BY <4>2, <4>3 DEF InOperation
      <3> QED BY <2>2, <3>1, <3>2, <3>4, <3>5 DEF InList
    <2> QED BY <2>2, <2>3 DEF DialogueInv, Operations
  <1> QED BY <1>1, <1>2

\* The server announces the size of a download.
LEMMA DownAnswer ==
    ASSUME TypeOK, TypeOK', DialogueInv, ServerDownM2
    PROVE  DialogueInv'
  <1> USE HandlerTypes, BodyTypes
  <1>1. PICK b \in Body, next \in {"run", "downMi"} :
          /\ Answer("downM2", "DownM2", b, next) /\ s_i' = s_i
          /\ \/ next = "run" /\ b.code = "FILE_NOT_FOUND"
             \/ next = "run" /\ b.code # "FILE_NOT_FOUND" /\ b.n = 0
             \/ next = "downMi" /\ b.code # "FILE_NOT_FOUND" /\ b.n = s_size' /\ b.n # 0
    <2>1. CASE store[s_file] = Absent
      BY <2>1 DEF ServerDownM2
    <2>2. CASE store[s_file] # Absent
      <3> DEFINE b == [Code("DOWNLOAD_ACK") EXCEPT !.n = store[s_file]]
                 next == IF store[s_file] = 0 THEN "run" ELSE "downMi"
      <3>1. store[s_file] \in Nat
        BY <2>2 DEF TypeOK, DisksOK, ServerOK
      <3>2. b \in Body /\ b.n = store[s_file] /\ b.code = "DOWNLOAD_ACK"
        <4>1. Code("DOWNLOAD_ACK") \in Body /\ Code("DOWNLOAD_ACK").code = "DOWNLOAD_ACK"
          OBVIOUS
        <4> QED BY <3>1, <4>1 DEF Body
      <3>3. Answer("downM2", "DownM2", b, next) /\ s_i' = s_i /\ s_size' = store[s_file]
        BY <2>2 DEF ServerDownM2
      <3> QED BY <3>2, <3>3
    <2> QED BY <2>1, <2>2
  <1>2. /\ KeysAndCounters' /\ ServerHere /\ ServerHere' /\ ServerAt' = next
        /\ Asked' = <<>> /\ (ClientHere' <=> ClientHere) /\ ServerTakes'
    BY <1>1, AnswerDialogue DEF Receiving
  <1>3. ASSUME ClientHere
        PROVE  ClientTakes' /\ InOperation'
    <2>1. /\ ClientAt' = "downM2" /\ Len(Answered') = 1 /\ s_i = 0
          /\ Answered'[1].type = "DownM2" /\ Answered'[1].body = b
      BY <1>1, <1>3, FirstAnswer DEF FirstWaits
    <2>2. b.n \in Nat /\ s_i' = 0
      BY <1>1, <2>1 DEF Body
    <2>3. ClientTakes'
      BY <2>1, <2>2 DEF ClientTakes, Downloading, SingleWaits
    <2>4. InDownload'
      BY <1>1, <1>2, <2>1, <2>2 DEF InDownload, Downloading
    <2> QED BY <2>3, <2>4 DEF InOperation
  <1> QED BY <1>2, <1>3 DEF DialogueInv, Operations

\* The server sends a chunk of a download.
LEMMA DownChunks ==
    ASSUME TypeOK, TypeOK', DialogueInv, ServerDownMi
    PROVE  DialogueInv'
  <1> USE HandlerTypes, BodyTypes
  <1>1. PICK next \in {"run", "downMi"} :
          /\ Answer("downMi", "DownMi", Number(s_i), next)
          /\ s_i' = s_i + 1 /\ s_size' = s_size /\ (next = "run" <=> s_i + 1 = s_size)
    BY DEF ServerDownMi
  <1>2. /\ Number(s_i) \in Body /\ s_i \in Nat /\ s_size \in Nat /\ c_i \in Nat /\ c_size \in Nat
        /\ ClientChunks \in Nat
    BY DEF TypeOK, ServerOK, ClientOK, ClientChunks
  <1>3. /\ KeysAndCounters' /\ ServerHere /\ ServerHere' /\ ServerAt' = next
        /\ ServerAt = "downMi" /\ ClientAt' = ClientAt /\ ClientChunks' = ClientChunks
        /\ c_i' = c_i /\ c_size' = c_size
        /\ Asked' = <<>> /\ (ClientHere' <=> ClientHere) /\ ServerTakes'
    BY <1>1, <1>2, AnswerDialogue DEF Receiving
  <1>4. ASSUME ClientHere
        PROVE  ClientTakes' /\ InOperation'
    <2>1. InDownload /\ ClientTakes /\ Len(Answered) \in Nat
      BY <1>1, <1>2, <1>3, <1>4, ServerPlaces, AnswerDialogue
    <2>2. PICK n \in Nat : n = Len(Answered)
      BY <2>1
    <2>3. /\ Len(Answered') = n + 1 /\ Answered'[n + 1].type = "DownMi"
          /\ \A k \in 1..n : Answered'[k] = Answered[k]
      BY <1>1, <1>2, <1>4, <2>2, AnswerDialogue, SMTT(30)
    <2>4. CASE ClientAt = "downM2"
      <3>1. /\ n > 0 /\ Answered[1].body.code # "FILE_NOT_FOUND" /\ n - 1 = s_i
            /\ s_i < s_size /\ Answered[1].body.n = s_size
        BY <1>3, <2>1, <2>2, <2>4 DEF InDownload, Downloading
      <3>2. Answered[1].type = "DownM2" /\ \A k \in 2..n : Answered[k].type = "DownMi"
        BY <2>1, <2>2, <2>4, <3>1 DEF ClientTakes
      <3>3. Answered'[1] = Answered[1]
        BY <2>3, <3>1
      <3>4. \A k \in 2 .. n + 1 : Answered'[k].type = "DownMi"
        BY <2>3, <3>1, <3>2
      <3>5. ClientTakes'
        BY <1>2, <1>3, <2>3, <2>4, <3>1, <3>2, <3>3, <3>4
        DEF ClientTakes, Downloading, SingleWaits
      <3>6. InDownload'
        BY <1>1, <1>2, <1>3, <2>3, <2>4, <3>1, <3>3 DEF InDownload
      <3> QED BY <3>5, <3>6 DEF InOperation
    <2>5. CASE ClientAt # "downM2"
      <3>1. /\ ClientAt \in Downloading /\ (ClientAt # "downOpen" => c_i < c_size)
            /\ s_size = c_size /\ ClientChunks + n = s_i /\ s_i < s_size
        BY <1>3, <2>1, <2>2, <2>5 DEF InDownload
      <3>2. \A k \in 1 .. n + 1 : Answered'[k].type = "DownMi"
        <4>1. \A k \in 1..n : Answered[k].type = "DownMi"
          BY <2>1, <2>2, <3>1 DEF ClientTakes
        <4> QED BY <2>3, <4>1
      <3>3. ClientChunks' + Len(Answered') = s_i + 1
        BY <1>2, <1>3, <2>3, <3>1
      <3>4. ClientTakes'
        BY <1>2, <1>3, <2>3, <3>1, <3>2, <3>3 DEF ClientTakes, Downloading, SingleWaits
      <3>5. InDownload'
        BY <1>1, <1>2, <1>3, <3>1, <3>3 DEF InDownload
      <3> QED BY <3>4, <3>5 DEF InOperation
    <2> QED BY <2>4, <2>5
  <1> QED BY <1>3, <1>4 DEF DialogueInv, Operations

\* The server answers an upload request, and the last chunk.
LEMMA UpAnswers ==
    ASSUME TypeOK, TypeOK', DialogueInv, ServerUpM2 \/ ServerUpEnd
    PROVE  DialogueInv'
  <1> USE HandlerTypes, BodyTypes
  <1>c. s_i \in Nat /\ s_size \in Nat /\ c_i \in Nat /\ c_size \in Nat
    BY DEF TypeOK, ServerOK, ClientOK
  <1>1. CASE ServerUpM2
    <2>1. PICK code \in {"ACK", "NACK"}, next \in {"run", "upLook"} :
            /\ Answer("upM2", "UpM2", Code(code), next) /\ s_i' = s_i /\ s_size' = s_size
            /\ code = "NACK" <=> next = "run"
      BY <1>1 DEF ServerUpM2
    <2>2. /\ KeysAndCounters' /\ ServerHere /\ ServerHere' /\ ServerAt' = next
          /\ ServerAt = "upM2" /\ Asked' = <<>> /\ Len(Asked') = 0 /\ ServerTakes
          /\ c_i' = c_i /\ c_size' = c_size /\ (ClientHere' <=> ClientHere)
      BY <2>1, AnswerDialogue
    <2>3. s_i = 0 /\ ServerChunks' = 0
      BY <2>1, <2>2 DEF ServerTakes, ServerChunks
    <2>4. ServerTakes'
      BY <1>c, <2>1, <2>2, <2>3 DEF ServerTakes, AuthPcs, Gone
    <2>5. ASSUME ClientHere
          PROVE  ClientTakes' /\ InOperation'
      <3>1. /\ ClientAt' = "upM2" /\ Len(Answered') = 1
            /\ c_i = 0 /\ c_size > 0 /\ s_size = c_size
            /\ Answered'[1].type = "UpM2" /\ Answered'[1].body.code = code
        BY <2>1, <2>5, FirstAnswer DEF FirstWaits
      <3>2. ClientTakes'
        BY <3>1 DEF ClientTakes, Downloading, SingleWaits, Expected
      <3>3. InUpload'
        BY <2>1, <2>2, <2>3, <3>1 DEF InUpload
      <3> QED BY <3>2, <3>3 DEF InOperation
    <2> QED BY <2>2, <2>4, <2>5 DEF DialogueInv, Operations
  <1>2. CASE ServerUpEnd
    <2>1. Answer("upEnd", "UpEnd", Code("ACK"), "upClose")
      BY <1>2 DEF ServerUpEnd
    <2>2. /\ KeysAndCounters' /\ ServerHere /\ ServerHere' /\ ServerAt' = "upClose"
          /\ ServerAt = "upEnd" /\ ClientAt' = ClientAt /\ Len(Asked') = 0
          /\ (ClientHere' <=> ClientHere) /\ ServerTakes'
      BY <2>1, AnswerDialogue, SMTT(30) DEF Receiving
    <2>3. ASSUME ClientHere
          PROVE  ClientTakes' /\ InOperation'
      <3>1. ClientAt = "upEnd" /\ Len(Answered) = 0
        BY <2>2, <2>3, ServerPlaces DEF InUpload, Receiving, Idle
      <3>2. Len(Answered') = 0 + 1 /\ Answered'[0 + 1].type = "UpEnd"
        BY <2>1, <2>3, <3>1, AnswerDialogue
      <3>3. ClientTakes'
        BY <2>2, <3>1, <3>2 DEF ClientTakes, Downloading, SingleWaits, Expected
      <3>4. InUpload'
        BY <2>2, <3>1, <3>2 DEF InUpload, Idle
      <3> QED BY <3>3, <3>4 DEF InOperation
    <2> QED BY <2>2, <2>3 DEF DialogueInv, Operations
  <1> QED BY <1>1, <1>2

\* The server answers a rename and a delete request, and deletes the file.
LEMMA FileAnswers ==
    ASSUME TypeOK, TypeOK', DialogueInv, ServerRenM2 \/ ServerDelM2 \/ ServerDelM4
    PROVE  DialogueInv'
  <1> USE HandlerTypes, BodyTypes
  <1>1. CASE ServerRenM2
    <2>1. PICK code \in Codes : Answer("renM2", "RenM2", Code(code), "run")
      BY <1>1 DEF ServerRenM2
    <2>2. /\ KeysAndCounters' /\ ServerHere /\ ServerHere' /\ ServerAt' = "run"
          /\ Asked' = <<>> /\ (ClientHere' <=> ClientHere) /\ ServerTakes'
      BY <2>1, AnswerDialogue DEF Receiving
    <2>3. ASSUME ClientHere
          PROVE  ClientTakes' /\ InOperation'
      <3>1. ClientAt' = "renM2" /\ Len(Answered') = 1 /\ Answered'[1].type = "RenM2"
        BY <2>1, <2>3, FirstAnswer DEF FirstWaits
      <3>2. ClientTakes'
        BY <3>1 DEF ClientTakes, Downloading, SingleWaits, Expected
      <3>3. InRename'
        BY <2>2, <3>1 DEF InRename
      <3> QED BY <3>2, <3>3 DEF InOperation
    <2> QED BY <2>2, <2>3 DEF DialogueInv, Operations
  <1>2. CASE ServerDelM2
    <2>1. Answer("delM2", "DelM2", Code("DELETE_ASK"), "delM3")
      BY <1>2 DEF ServerDelM2
    <2>2. /\ KeysAndCounters' /\ ServerHere /\ ServerHere' /\ ServerAt' = "delM3"
          /\ Len(Asked') = 0 /\ (ClientHere' <=> ClientHere) /\ ServerTakes'
      BY <2>1, AnswerDialogue, SMTT(30) DEF Receiving
    <2>3. ASSUME ClientHere
          PROVE  ClientTakes' /\ InOperation'
      <3>1. ClientAt' = "delM2" /\ Len(Answered') = 1 /\ Answered'[1].type = "DelM2"
        BY <2>1, <2>3, FirstAnswer DEF FirstWaits
      <3>2. ClientTakes'
        BY <3>1 DEF ClientTakes, Downloading, SingleWaits, Expected
      <3>3. InDelete'
        BY <2>2, <3>1 DEF InDelete
      <3> QED BY <3>2, <3>3 DEF InOperation
    <2> QED BY <2>2, <2>3 DEF DialogueInv, Operations
  <1>3. CASE ServerDelM4
    <2>1. Answer("delM4", "DelM4", Code("ACK"), "run")
      BY <1>3 DEF ServerDelM4
    <2>2. /\ KeysAndCounters' /\ ServerHere /\ ServerHere' /\ ServerAt' = "run"
          /\ ServerAt = "delM4" /\ ClientAt' = ClientAt /\ Len(Asked') = 0
          /\ (ClientHere' <=> ClientHere) /\ ServerTakes'
      BY <2>1, AnswerDialogue, SMTT(30) DEF Receiving
    <2>3. ASSUME ClientHere
          PROVE  ClientTakes' /\ InOperation'
      <3>1. ClientAt = "delM4" /\ Len(Answered) = 0
        BY <2>2, <2>3, ServerPlaces DEF InDelete
      <3>2. Len(Answered') = 0 + 1 /\ Answered'[0 + 1].type = "DelM4"
        BY <2>1, <2>3, <3>1, AnswerDialogue
      <3>3. ClientTakes'
        BY <2>2, <3>1, <3>2 DEF ClientTakes, Downloading, SingleWaits, Expected
      <3>4. InDelete'
        BY <2>2, <3>1 DEF InDelete
      <3> QED BY <3>3, <3>4 DEF InOperation
    <2> QED BY <2>2, <2>3 DEF DialogueInv, Operations
  <1> QED BY <1>1, <1>2, <1>3

\* The steps of a handler that send and take nothing: an upload is opened, written and
\* closed, and two handlers return without an answer.
LEMMA QuietHandlers ==
    ASSUME TypeOK, TypeOK', DialogueInv,
           \/ ServerUpLook \/ ServerUpCreate \/ ServerUpWrite \/ ServerUpClose \/ ServerListSilent
           \/ ServerDelSilent
    PROVE  DialogueInv'
  <1>1. /\ s_i \in Nat /\ s_size \in Nat /\ c_i \in Nat /\ c_size \in Nat
        /\ Len(Asked) \in Nat /\ (Asked = <<>> <=> Len(Asked) = 0)
        /\ Len(Answered) \in Nat /\ (Answered = <<>> <=> Len(Answered) = 0)
    BY Channels DEF TypeOK, ServerOK, ClientOK
  <1>2. /\ UNCHANGED <<client, c2s, s2c, s_ret, s_ctr, sAuth, s_size>>
        /\ s_pc \in {"upLook", "upCreate", "upWrite", "upClose", "listM2", "delM4"}
        /\ s_pc' \in {"upCreate", "upMi", "upEnd", "run"}
    BY DEF ServerUpLook, ServerUpCreate, ServerUpWrite, ServerUpClose, ServerListSilent,
       ServerDelSilent,
       ServerLeave, FirstChunk, sOp
  <1>3. /\ s_pc \notin AuthPcs \cup Gone \cup {"run"} /\ s_pc' \notin AuthPcs \cup Gone
        /\ c_ctr' = c_ctr /\ UNCHANGED cAuth /\ c_pc' = c_pc /\ c_ret' = c_ret
        /\ c_i' = c_i /\ c_size' = c_size
    BY <1>2 DEF AuthPcs, Gone, client, cAuth
  <1>4. KeysAndCounters' /\ Asked' = Asked /\ Answered' = Answered
    BY <1>2, <1>3, QuietSteps
  <1>5. /\ ServerHere /\ ServerHere' /\ ClientHere' = ClientHere /\ ClientAt' = ClientAt
        /\ ServerAt = s_pc /\ ServerAt' = s_pc' /\ ClientChunks' = ClientChunks
    BY <1>2, <1>3 DEF ServerHere, ClientHere, ServerAt, ClientAt, ClientChunks
  <1>6. ServerTakes /\ (ClientHere => ClientTakes /\ ClientTakes')
    BY <1>3, <1>4, <1>5 DEF DialogueInv, Operations, ClientTakes
  <1>7. PICK n \in Nat : n = Len(Asked)
    BY <1>1
  <1>8. CASE s_pc \in {"upLook", "upCreate"}
    <2>1. /\ s_i' = s_i
          /\ s_pc' = "upCreate" \/ s_pc' = IF s_size = 0 THEN "upEnd" ELSE "upMi"
      BY <1>8 DEF FirstChunk, ServerUpLook, ServerUpCreate, ServerUpWrite, ServerUpClose,
         ServerListSilent,
         ServerDelSilent, sOp
    <2>2. ServerChunks = s_i /\ ServerChunks' = s_i
      BY <1>5, <1>8, <2>1 DEF ServerChunks
    <2>3. s_i + n <= s_size /\ \A k \in 1..n : Asked[k].type = "UpMi"
      BY <1>5, <1>6, <1>7, <1>8, <2>2 DEF ServerTakes, Receiving
    <2>4. ServerTakes'
      <3>3. CASE s_pc' = "upCreate"
        BY <1>2, <1>4, <1>5, <1>7, <2>1, <2>2, <2>3, <3>3
        DEF ServerTakes, Idle, Receiving, AuthPcs, Gone
      <3>1. CASE s_pc' # "upCreate" /\ s_size = 0
        <4>1. n = 0
          BY <1>1, <2>3, <3>1
        <4> QED BY <1>4, <1>5, <1>7, <2>1, <3>1, <4>1
                DEF ServerTakes, Idle, Receiving, AuthPcs, Gone
      <3>2. CASE s_pc' # "upCreate" /\ s_size # 0
        BY <1>2, <1>4, <1>5, <1>7, <2>1, <2>2, <2>3, <3>2
        DEF ServerTakes, Idle, Receiving, AuthPcs, Gone
      <3> QED BY <3>1, <3>2, <3>3
    <2>5. ClientHere => InOperation'
      <3>1. ClientHere => InUpload
        BY <1>5, <1>8, ServerPlaces DEF Receiving
      <3>2. ClientHere => s_size # 0 /\ InUpload'
        BY <1>1, <1>2, <1>3, <1>4, <1>5, <1>8, <2>1, <2>2, <3>1
        DEF InUpload, Receiving, Idle
      <3> QED BY <3>2 DEF InOperation
    <2> QED BY <1>4, <1>5, <1>6, <2>4, <2>5 DEF DialogueInv, Operations
  <1>9. CASE s_pc = "upWrite"
    <2>1. s_i' = s_i + 1 /\ s_pc' = IF s_i + 1 = s_size THEN "upEnd" ELSE "upMi"
      BY <1>9 DEF ServerUpLook, ServerUpCreate, ServerUpWrite, ServerUpClose, ServerListSilent,
         ServerDelSilent, sOp
    <2>2. ServerChunks = s_i + 1 /\ ServerChunks' = s_i + 1
      BY <1>5, <1>9, <2>1 DEF ServerChunks
    <2>3. s_i + 1 + n <= s_size /\ \A k \in 1..n : Asked[k].type = "UpMi"
      BY <1>5, <1>6, <1>7, <1>9, <2>2 DEF ServerTakes, Receiving
    <2>4. ServerTakes'
      <3>1. CASE s_i + 1 = s_size
        <4>1. n = 0
          BY <1>1, <2>3, <3>1
        <4> QED BY <1>4, <1>5, <1>7, <2>1, <3>1, <4>1
                DEF ServerTakes, Idle, Receiving, AuthPcs, Gone
      <3>2. CASE s_i + 1 # s_size
        BY <1>2, <1>4, <1>5, <1>7, <2>1, <2>2, <2>3, <3>2
        DEF ServerTakes, Idle, Receiving, AuthPcs, Gone
      <3> QED BY <3>1, <3>2
    <2>5. ASSUME ClientHere
          PROVE  InOperation'
      <3>1. InUpload
        BY <1>5, <1>9, <2>5, ServerPlaces DEF Receiving
      <3>2. /\ ClientAt \in {"upMi", "upEnd"} /\ Len(Answered) = 0
            /\ IF ClientAt = "upMi" THEN c_i < c_size ELSE c_i = c_size
            /\ s_size = c_size /\ s_i < s_size /\ s_i + 1 + n = c_i
        BY <1>5, <1>7, <1>9, <2>2, <3>1 DEF InUpload, Idle
      <3>3. CASE s_i + 1 = s_size
        <4>1. n = 0 /\ ClientAt = "upEnd"
          BY <1>1, <2>3, <3>2, <3>3
        <4>2. InUpload'
          BY <1>4, <1>5, <1>7, <2>1, <3>2, <3>3, <4>1 DEF InUpload
        <4> QED BY <4>2 DEF InOperation
      <3>4. CASE s_i + 1 # s_size
        <4>1. s_i' < s_size
          BY <1>1, <2>1, <3>2, <3>4
        <4>2. ServerChunks' + Len(Asked') = c_i
          BY <1>1, <1>4, <1>7, <2>2, <3>2
        <4>3. ServerAt' = "upMi"
          BY <1>5, <2>1, <3>4
        <4>4. InUpload'
          BY <1>2, <1>3, <1>4, <1>5, <3>2, <4>1, <4>2, <4>3 DEF InUpload, Receiving
        <4> QED BY <4>4 DEF InOperation
      <3> QED BY <3>3, <3>4
    <2> QED BY <1>4, <1>5, <1>6, <2>4, <2>5 DEF DialogueInv, Operations
  <1>10. CASE s_pc \in {"upClose", "listM2", "delM4"}
    <2>1. s_pc' = "run" /\ s_i' = s_i
      BY <1>10 DEF ServerUpLook, ServerUpCreate, ServerUpWrite, ServerUpClose, ServerListSilent,
         ServerDelSilent, ServerLeave, sOp
    <2>2. ServerTakes'
      BY <1>4, <1>5, <1>6, <1>10, <2>1 DEF ServerTakes, Idle, Receiving, AuthPcs, Gone
    <2>3. ASSUME ClientHere, s_pc = "upClose"
          PROVE  InOperation'
      <3>1. AtMenu \/ AwaitsHandler \/ InUpload
        BY <1>5, <2>3, ServerPlaces
      <3>2. AtMenu => AtMenu'
        BY <1>4, <1>5, <2>1, <2>3 DEF AtMenu, Idle
      <3>3. AwaitsHandler => AwaitsHandler'
        BY <1>2, <1>3, <1>4, <1>5, <2>1, <2>3
        DEF AwaitsHandler, Idle, IsOwnRequest, FirstWaits
      <3>4. InUpload => InUpload'
        BY <1>2, <1>3, <1>4, <1>5, <2>1, <2>3 DEF InUpload, Idle, Receiving
      <3> QED BY <3>1, <3>2, <3>3, <3>4 DEF InOperation
    <2>4. ASSUME ClientHere, s_pc = "listM2"
          PROVE  InOperation'
      <3>1. ClientAt = "listM2" /\ Len(Answered) = 0 /\ Len(Asked) = 0
        BY <1>5, <2>4, ServerPlaces DEF FirstWaits, AwaitsHandler, Idle
      <3>2. InList'
        BY <1>1, <1>4, <1>5, <2>1, <3>1 DEF InList
      <3> QED BY <3>2 DEF InOperation
    <2>5. ASSUME ClientHere, s_pc = "delM4"
          PROVE  InOperation'
      <3>1. ClientAt = "delM4" /\ Len(Asked) = 0
        BY <1>5, <2>5, ServerPlaces DEF InDelete
      <3>2. InDelete'
        BY <1>4, <1>5, <2>1, <3>1 DEF InDelete
      <3> QED BY <3>2 DEF InOperation
    <2> QED BY <1>4, <1>5, <1>6, <1>10, <2>2, <2>3, <2>4, <2>5 DEF DialogueInv, Operations
  <1> QED BY <1>2, <1>8, <1>9, <1>10

\* What the server is about to take.
LEMMA ServerAccepts ==
    ASSUME TypeOK, DialogueInv, s_pc \in {"run", "upMi", "delM3"}, c2s # <<>>
    PROVE  /\ Verdict(Head(c2s), s_key, s_ctr) = "SUCCESS"
           /\ s_pc = "run" => Head(c2s).type \in DOMAIN Handler
           /\ s_pc = "upMi" => Head(c2s).type = "UpMi"
           /\ s_pc = "delM3" => Head(c2s).type = "DelM3"
  <1>1. ServerHere /\ s_pc \notin AuthPcs /\ ServerAt = s_pc
    BY DEF ServerHere, Gone, AuthPcs, ServerAt
  <1>2. ServerNumbers /\ ServerTakes
    BY <1>1 DEF DialogueInv, KeysAndCounters, Operations
  <1>3. /\ Verdict(Head(c2s), s_key, s_ctr) = "SUCCESS" /\ Head(c2s) = Asked[1]
        /\ Asked # <<>>
    BY <1>1, <1>2, ServerReads
  <1>4. Len(Asked) \in Nat /\ Len(Asked) # 0
    BY <1>3, Channels DEF TypeOK
  <1>5. PICK n \in Nat : n = Len(Asked)
    BY <1>4
  <1>6. n > 0 /\ 1 \in 1..n
    BY <1>4, <1>5
  <1>7. s_pc = "run" => IsRequest(Asked[1])
    BY <1>1, <1>2, <1>5, <1>6 DEF ServerTakes, Idle
  <1>8. s_pc = "upMi" => Asked[1].type = "UpMi"
    BY <1>1, <1>2, <1>5, <1>6 DEF ServerTakes, Receiving
  <1>9. s_pc = "delM3" => Asked[1].type = "DelM3"
    BY <1>1, <1>2, <1>5, <1>6 DEF ServerTakes
  <1> QED BY <1>3, <1>7, <1>8, <1>9 DEF IsRequest

\* The server takes a message and goes on at next.
LEMMA TakeDialogue ==
    ASSUME TypeOK, TypeOK', DialogueInv, s_pc \in {"run", "upMi", "delM3"},
           c2s # <<>>, c2s' = Tail(c2s), NEW next \in ServerPcs \ (AuthPcs \cup Gone),
           ServerIncrement(next), UNCHANGED <<client, s2c, sAuth>>
    PROVE  /\ KeysAndCounters' /\ ServerHere /\ ServerHere' /\ ServerTakes
           /\ ServerAt = s_pc /\ ServerAt' = next /\ ClientAt' = ClientAt
           /\ Len(Asked) \in Nat \ {0} /\ Asked[1] = Head(c2s) /\ Asked # <<>>
           /\ Len(Asked') = Len(Asked) - 1
           /\ \A k \in 1 .. Len(Asked) - 1 : Asked'[k] = Asked[k + 1]
           /\ Answered' = Answered /\ Len(Answered) \in Nat
           /\ (Answered = <<>> <=> Len(Answered) = 0)
           /\ c_i' = c_i /\ c_size' = c_size
           /\ ClientHere' <=> ClientHere
           /\ ClientHere => ClientTakes' /\ InOperation
  <1>1. /\ KeysAndCounters' /\ ServerAt' = next /\ ServerHere'
        /\ Asked # <<>> /\ Head(c2s) = Asked[1] /\ Asked' = Tail(Asked)
    BY ServerTakesOne
  <1>2. ServerHere /\ ServerAt = s_pc
    BY DEF ServerHere, Gone, AuthPcs, ServerAt
  <1>3. /\ ClientAt' = ClientAt /\ ClientChunks' = ClientChunks /\ c_i' = c_i
        /\ c_size' = c_size /\ (ClientHere' <=> ClientHere) /\ Answered' = Answered
    BY DEF client, ClientAt, ClientChunks, ClientHere, Answered
  <1>4. ServerTakes /\ (ClientHere => ClientTakes /\ InOperation)
    BY <1>2 DEF DialogueInv, Operations
  <1>5. ClientHere => ClientTakes'
    BY <1>3, <1>4 DEF ClientTakes
  <1>6. /\ Asked \in Seq(Message) /\ Len(Answered) \in Nat
        /\ (Answered = <<>> <=> Len(Answered) = 0)
    BY Channels DEF TypeOK
  <1>7. /\ Len(Asked) \in Nat \ {0} /\ Len(Asked') = Len(Asked) - 1
        /\ \A k \in 1 .. Len(Asked) - 1 : Asked'[k] = Asked[k + 1]
    BY <1>1, <1>6, Taking
  <1> QED BY <1>1, <1>2, <1>3, <1>4, <1>5, <1>6, <1>7

\* The server takes a request and calls its handler.
LEMMA RunDialogue ==
    ASSUME TypeOK, TypeOK', DialogueInv, ServerRun
    PROVE  DialogueInv'
  <1> DEFINE m == Head(c2s)
             next == Handler[m.type]
  <1>1. /\ s_pc = "run" /\ c2s # <<>> /\ c2s' = Tail(c2s)
        /\ UNCHANGED <<client, s2c, sAuth>>
    BY DEF ServerRun
  <1>2. m.type \in DOMAIN Handler /\ Verdict(m, s_key, s_ctr) = "SUCCESS"
    BY <1>1, ServerAccepts
  <1>3. ServerIncrement(next) /\ s_size' = m.body.n /\ s_i' = 0
    BY <1>2 DEF ServerRun
  <1>4. /\ next \in ServerPcs \ (AuthPcs \cup Gone)
        /\ next \notin Idle \cup Receiving \cup {"delM3"} /\ next \in FirstWaits
    BY <1>2, HandlerIs
    DEF ServerPcs, ServerSends, AuthPcs, Gone, Idle, Receiving, FirstWaits
  <1>5. /\ KeysAndCounters' /\ ServerHere /\ ServerHere' /\ ServerAt = "run"
        /\ ServerAt' = next /\ ClientAt' = ClientAt /\ c_i' = c_i /\ c_size' = c_size
        /\ Len(Asked) \in Nat \ {0} /\ Asked[1] = m /\ Asked # <<>> /\ ServerTakes
        /\ Len(Asked') = Len(Asked) - 1 /\ Answered' = Answered
        /\ ClientHere' <=> ClientHere
        /\ ClientHere => ClientTakes'
    BY <1>1, <1>3, <1>4, TakeDialogue
  <1>6. Len(Asked) = 1 /\ Len(Asked') = 0
    BY <1>5 DEF ServerTakes, Idle
  <1>7. ServerTakes'
    BY <1>3, <1>4, <1>5, <1>6 DEF ServerTakes, AuthPcs, Gone
  <1>8. ASSUME ClientHere
        PROVE  InOperation'
    <2>1. AwaitsHandler
      BY <1>5, <1>8, ServerPlaces DEF Idle
    <2>2. /\ ClientAt \in FirstWaits /\ Answered = <<>> /\ ClientAt = next
          /\ ClientAt = "upM2" => c_i = 0 /\ c_size > 0 /\ m.body.n = c_size
      BY <1>5, <1>6, <2>1 DEF AwaitsHandler, IsOwnRequest, Idle, FirstWaits
    <2>3. AwaitsHandler'
      BY <1>3, <1>5, <1>6, <2>2 DEF AwaitsHandler
    <2> QED BY <2>3 DEF InOperation
  <1> QED BY <1>5, <1>7, <1>8 DEF DialogueInv, Operations

\* The server takes a chunk.
LEMMA UpChunkTaken ==
    ASSUME TypeOK, TypeOK', DialogueInv, ServerUpMi
    PROVE  DialogueInv'
  <1>1. /\ s_pc = "upMi" /\ c2s # <<>> /\ c2s' = Tail(c2s)
        /\ UNCHANGED <<client, s2c, sAuth>> /\ s_i' = s_i /\ s_size' = s_size
    BY DEF ServerUpMi, FromClient, sOp
  <1>2. ServerIncrement("upWrite")
    BY <1>1, ServerAccepts DEF ServerUpMi
  <1>3. s_i \in Nat /\ s_size \in Nat /\ c_i \in Nat /\ c_size \in Nat
    BY DEF TypeOK, ServerOK, ClientOK
  <1>4. /\ KeysAndCounters' /\ ServerHere /\ ServerHere' /\ ServerAt = "upMi"
        /\ ServerAt' = "upWrite" /\ ClientAt' = ClientAt /\ c_i' = c_i /\ c_size' = c_size
        /\ Len(Asked) \in Nat \ {0} /\ ServerTakes
        /\ Len(Asked') = Len(Asked) - 1 /\ Answered' = Answered
        /\ \A k \in 1 .. Len(Asked) - 1 : Asked'[k] = Asked[k + 1]
        /\ ClientHere' <=> ClientHere
        /\ ClientHere => ClientTakes'
    BY <1>1, <1>2, HandlerTypes, TakeDialogue
  <1>5. PICK n \in Nat : n = Len(Asked)
    BY <1>4
  <1>6. n # 0 /\ Len(Asked') = n - 1
    BY <1>4, <1>5
  <1>7. ServerChunks = s_i /\ ServerChunks' = s_i + 1
    BY <1>1, <1>4 DEF ServerChunks
  <1>8. s_i + n <= s_size /\ \A k \in 1..n : Asked[k].type = "UpMi"
    BY <1>4, <1>5, <1>7 DEF ServerTakes, Receiving
  <1>9. ServerTakes'
    <2>1. \A k \in 1 .. n - 1 : Asked'[k].type = "UpMi"
      <3>1. \A k \in 1 .. n - 1 : k + 1 \in 1..n
        BY <1>6
      <3> QED BY <1>4, <1>5, <1>8, <3>1
    <2>2. ServerChunks' + Len(Asked') <= s_size'
      BY <1>1, <1>3, <1>6, <1>7, <1>8
    <2> QED BY <1>4, <1>6, <2>1, <2>2 DEF ServerTakes, Idle, Receiving, AuthPcs, Gone
  <1>10. ASSUME ClientHere
         PROVE  InOperation'
    <2>1. InUpload
      BY <1>4, <1>10, ServerPlaces DEF Receiving
    <2>2. /\ ClientAt \in {"upMi", "upEnd"} /\ Len(Answered) = 0
          /\ IF ClientAt = "upMi" THEN c_i < c_size ELSE c_i = c_size
          /\ s_size = c_size /\ s_i < s_size /\ s_i + n = c_i
      BY <1>4, <1>5, <1>6, <1>7, <2>1 DEF InUpload, Idle
    <2>3. ServerChunks' + Len(Asked') = c_i
      BY <1>3, <1>6, <1>7, <2>2
    <2>4. InUpload'
      BY <1>1, <1>4, <2>2, <2>3 DEF InUpload, Receiving
    <2> QED BY <2>4 DEF InOperation
  <1> QED BY <1>4, <1>9, <1>10 DEF DialogueInv, Operations

\* The server learns whether the file is to be deleted.
LEMMA DeleteAnswerTaken ==
    ASSUME TypeOK, TypeOK', DialogueInv, ServerDelM3
    PROVE  DialogueInv'
  <1> DEFINE yes == Head(c2s).body.code = "DELETE_CONFIRM"
             next == IF yes THEN "delM4" ELSE "run"
  <1>1. /\ s_pc = "delM3" /\ c2s # <<>> /\ c2s' = Tail(c2s)
        /\ UNCHANGED <<client, s2c, sAuth>> /\ s_i' = s_i /\ s_size' = s_size
    BY DEF ServerDelM3, FromClient, sOp
  <1>2. ServerIncrement(next)
    BY <1>1, ServerAccepts DEF ServerDelM3
  <1>3. next \in ServerPcs \ (AuthPcs \cup Gone)
    BY HandlerTypes
  <1>4. /\ KeysAndCounters' /\ ServerHere /\ ServerHere' /\ ServerAt = "delM3"
        /\ ServerAt' = next /\ ClientAt' = ClientAt /\ c_i' = c_i /\ c_size' = c_size
        /\ Len(Asked) \in Nat \ {0} /\ Asked[1] = Head(c2s) /\ ServerTakes
        /\ Len(Asked') = Len(Asked) - 1 /\ Answered' = Answered
        /\ \A k \in 1 .. Len(Asked) - 1 : Asked'[k] = Asked[k + 1]
        /\ ClientHere' <=> ClientHere
        /\ ClientHere => ClientTakes'
        /\ Answered = <<>> <=> Len(Answered) = 0
    BY <1>1, <1>2, <1>3, TakeDialogue
  <1>5. PICK n \in Nat : n = Len(Asked)
    BY <1>4
  <1>6. /\ n = 1 \/ n = 2
        /\ n = 2 => ~yes /\ IsRequest(Asked[2]) /\ Asked'[1] = Asked[2]
        /\ n = 1 => Len(Asked') = 0
        /\ n = 2 => Len(Asked') = 1
    <2>1. /\ n # 0 /\ n <= 2 /\ Len(Asked') = n - 1
          /\ n = 2 => Refuses(Asked[1]) /\ IsRequest(Asked[2])
      BY <1>4, <1>5 DEF ServerTakes
    <2>2. n = 2 => Asked'[1] = Asked[2]
      BY <1>4, <1>5
    <2>3. Refuses(Asked[1]) => ~yes
      BY <1>4 DEF Refuses
    <2>4. n = 1 \/ n = 2
      BY <2>1
    <2>5. (n = 1 => n - 1 = 0) /\ (n = 2 => n - 1 = 1)
      OBVIOUS
    <2>6. (n = 1 => Len(Asked') = 0) /\ (n = 2 => Len(Asked') = 1)
      BY <2>1, <2>5
    <2> QED BY <2>1, <2>2, <2>3, <2>4, <2>6
  <1>7. ServerTakes'
    <2>1. CASE n = 1
      BY <1>4, <1>6, <2>1 DEF ServerTakes, Idle, Receiving, AuthPcs, Gone
    <2>2. CASE n = 2
      <3>1. ServerAt' = "run" /\ Len(Asked') = 1 /\ IsRequest(Asked'[1])
        BY <1>4, <1>6, <2>2
      <3> QED BY <3>1 DEF ServerTakes, Idle, Receiving, AuthPcs, Gone
    <2> QED BY <1>6, <2>1, <2>2
  <1>8. ASSUME ClientHere
        PROVE  InOperation'
    <2>1. AtMenu \/ AwaitsHandler \/ InDelete
      BY <1>4, <1>8, ServerPlaces
    <2>2. CASE AtMenu
      <3>1. ClientAt = "menu" /\ Answered = <<>> /\ n = 1 /\ ~yes
        BY <1>4, <1>5, <2>2 DEF AtMenu, Idle, Refuses
      <3>2. Asked' = <<>>
        <4>1. Len(Asked') = 0
          BY <1>6, <3>1
        <4> QED BY <4>1, Channels DEF TypeOK
      <3>3. AtMenu'
        BY <1>4, <3>1, <3>2 DEF AtMenu, Idle
      <3> QED BY <3>3 DEF InOperation
    <2>3. CASE AwaitsHandler
      <3>1. /\ ClientAt \in FirstWaits /\ Answered = <<>> /\ n = 2 /\ IsOwnRequest(Asked[2])
            /\ ClientAt = "upM2" => c_i = 0 /\ c_size > 0
        BY <1>4, <1>5, <2>3 DEF AwaitsHandler, Idle, FirstWaits
      <3>2. ServerAt' = "run" /\ Len(Asked') = 1 /\ Asked'[1] = Asked[2]
        BY <1>4, <1>6, <3>1
      <3>3. AwaitsHandler'
        BY <1>4, <3>1, <3>2 DEF AwaitsHandler, IsOwnRequest, Idle
      <3> QED BY <3>3 DEF InOperation
    <2>4. CASE InDelete
      <3>1. ClientAt = "delM4" /\ n = 1 /\ Len(Answered) = 0 /\ yes
        BY <1>4, <1>5, <1>6, <2>4 DEF InDelete
      <3>2. ServerAt' = "delM4" /\ Len(Asked') = 0
        BY <1>4, <1>6, <3>1
      <3>3. InDelete'
        BY <1>4, <3>1, <3>2 DEF InDelete
      <3> QED BY <3>3 DEF InOperation
    <2> QED BY <2>1, <2>2, <2>3, <2>4
  <1> QED BY <1>4, <1>7, <1>8 DEF DialogueInv, Operations

\* The server answers a logout, the last message of the session.
LEMMA LogoutAnswer ==
    ASSUME TypeOK, TypeOK', DialogueInv, ServerOutM2
    PROVE  DialogueInv'
  <1> DEFINE m == Msg("OutM2", s_key, s_ctr, Code("ACK"))
             n == Len(s2c)
  <1>1. /\ s_pc = "outM2" /\ s_pc' = "run" /\ ToClient(m) /\ c2s' = c2s
        /\ UNCHANGED client
    BY DEF ServerOutM2
  <1>2. /\ c_pc' = c_pc /\ c_key' = c_key /\ c_ctr' = c_ctr /\ c_ret' = c_ret
        /\ c_eph' = c_eph /\ c_i' = c_i /\ c_size' = c_size
    BY <1>1 DEF client
  <1>3. /\ ServerHere /\ ServerHere' /\ ServerAt = "outM2" /\ ServerAt' = "run"
        /\ s_pc \notin AuthPcs /\ s_pc' \notin AuthPcs /\ s_pc' # "authM4"
        /\ ClientAt' = ClientAt /\ ClientHere' = ClientHere /\ c_pc # "left"
    BY <1>1, <1>2 DEF ServerHere, Gone, AuthPcs, ServerAt, ClientAt, ClientHere, DialogueInv,
       KeysAndCounters
  <1>4. ServerNumbers /\ ServerTakes
    BY <1>3 DEF DialogueInv, KeysAndCounters, Operations
  <1>5. /\ Asked = <<>> /\ c2s = <<>> /\ c2s' = <<>> /\ Asked' = <<>>
        /\ Len(c2s') = 0 /\ Len(Asked') = 0
    <2>1. Len(Asked) = 0
      BY <1>3, <1>4 DEF ServerTakes, Idle, Receiving
    <2>2. Asked = <<>> /\ c2s = <<>>
      BY <1>3, <1>4, <2>1, ServerReads, Channels DEF TypeOK
    <2> QED BY <1>1, <2>1, <2>2 DEF Asked
  <1>6. ServerNumbers' /\ ServerTakes'
    BY <1>3, <1>5 DEF ServerNumbers, ServerTakes, Idle, Receiving, AuthPcs, Gone
  <1>7. /\ m \in Message /\ m.type = "OutM2" /\ m.key = s_key /\ m.ctr = s_ctr
        /\ "OutM2" \notin Handshake
    BY MsgTypes, HandlerTypes, BodyTypes DEF TypeOK, ServerOK, Msg
  <1>8. ASSUME AwaitsHandler, ClientAt = "outM2", Answered' = Append(Answered, m)
        PROVE  ClientTakes' /\ InOperation'
    <2>1. Answered = <<>> /\ <<>> \in Seq(Message)
      BY <1>8, EmptySeq DEF AwaitsHandler
    <2>2. Len(Answered') = 1 /\ Answered'[1] = m
      <3>1. Len(<<>>) = 0
        BY EmptySeq
      <3> QED BY <1>7, <1>8, <2>1, <3>1, Adding
    <2>3. ClientAt' = "outM2" /\ Expected("outM2") = "OutM2"
      BY <1>3, <1>8 DEF Expected
    <2>4. ClientTakes'
      BY <1>7, <2>2, <2>3 DEF ClientTakes, SingleWaits, Downloading
    <2>5. InLogout'
      BY <1>1, <1>5, <2>2, <2>3 DEF InLogout
    <2> QED BY <2>4, <2>5 DEF InOperation
  <1>9. ASSUME ClientHere
        PROVE  ClientNumbers' /\ InHandshake' /\ ClientTakes' /\ InOperation'
    <2>1. InHandshake /\ ClientNumbers /\ AwaitsHandler /\ ClientAt = "outM2"
      BY <1>3, <1>9, ServerPlaces DEF DialogueInv, KeysAndCounters, FirstWaits
    <2>2. LoggedOut'
      BY <1>1, <1>3, <1>5, <2>1 DEF LoggedOut
    <2>3. s2c' = Append(s2c, m) /\ s2c \in Seq(Message)
      BY <1>1, <1>9 DEF ToClient, ClientHere, Gone, TypeOK, ChannelsOK
    <2>4. /\ n \in Nat /\ Len(s2c') = n + 1 /\ s2c'[n + 1] = m /\ s2c' # <<>>
          /\ \A k \in 1..n : s2c'[k] = s2c[k]
      BY <1>7, <2>3, Adding
    <2>5. c_ctr \in Nat /\ s_ctr \in Nat /\ s_ctr <= MaxCounter /\ MaxCounter \in Nat
      BY CounterAssumption DEF TypeOK, ClientOK, ServerOK
    <2>6. CASE c_pc \notin AuthPcs
      <3>1. c_key = s_key /\ c_ctr + n = s_ctr
        BY <1>1, <1>3, <1>5, <2>1, <2>4, <2>5, <2>6 DEF InHandshake, LoggedOut, Agree, AuthPcs
      <3>2. \A k \in 1 .. n + 1 : Fits(s2c'[k], c_key, c_ctr + k - 1)
        <4>1. TAKE k \in 1 .. n + 1
        <4>2. CASE k = n + 1
          BY <1>7, <2>4, <2>5, <3>1, <4>2 DEF Fits
        <4>3. CASE k # n + 1
          BY <2>1, <2>4, <2>6, <4>3 DEF ClientNumbers
        <4> QED BY <4>2, <4>3
      <3>3. ClientNumbers'
        BY <1>2, <2>4, <2>6, <3>2 DEF ClientNumbers, AuthPcs
      <3>4. InHandshake'
        BY <1>2, <1>3, <2>2, <2>6 DEF InHandshake
      <3>5. s2c = <<>> \/ s2c[1].type \notin Handshake
        BY <2>1, <2>3, <2>4, <2>6, EmptySeq DEF ClientNumbers, Fits
      <3>6. Answered' = Append(Answered, m)
        BY <1>7, <2>3, <3>5, AnsweredAppend DEF Answered
      <3> QED BY <2>1, <2>3, <3>3, <3>4, <3>6, <1>8
    <2>7. CASE c_pc \in AuthPcs
      <3>1. /\ c_pc = "authM5" /\ s2c # <<>> /\ s2c[1].body.code = "ACK"
            /\ c_key = s_key /\ s_ctr = n - 1
        BY <1>1, <1>3, <1>5, <2>1, <2>4, <2>5, <2>7 DEF InHandshake, LoggedOut, AuthPcs
      <3>2. n > 0 /\ s2c'[1] = s2c[1]
        BY <2>3, <2>4, <3>1, EmptySeq
      <3>3. /\ s2c[1].type = "AuthM5" /\ Verdict(s2c[1], c_key, c_ctr) = "SUCCESS"
            /\ \A k \in 2..n : Fits(s2c[k], c_key, k - 2)
        BY <2>1, <3>1 DEF ClientNumbers
      <3>4. \A k \in 2 .. n + 1 : Fits(s2c'[k], c_key, k - 2)
        <4>1. TAKE k \in 2 .. n + 1
        <4>2. CASE k = n + 1
          BY <1>7, <2>4, <3>1, <4>2 DEF Fits
        <4>3. CASE k # n + 1
          BY <2>4, <3>3, <4>3
        <4> QED BY <4>2, <4>3
      <3>5. ClientNumbers'
        BY <1>2, <2>4, <3>1, <3>2, <3>3, <3>4 DEF ClientNumbers, AuthPcs
      <3>6. InHandshake'
        BY <1>2, <1>3, <1>5, <2>2, <2>4, <3>1, <3>2 DEF InHandshake
      <3>7. Answered' = Append(Answered, m)
        BY <1>7, <2>3, <3>3, AnsweredAppend DEF Answered
      <3> QED BY <2>1, <2>3, <3>5, <3>6, <3>7, <1>8
    <2> QED BY <2>6, <2>7
  <1> QED BY <1>1, <1>2, <1>3, <1>6, <1>9 DEF DialogueInv, KeysAndCounters, Operations

-----------------------------------------------------------------------------
(* The handshake.  It interrupts an operation and changes none of it.       *)

\* A step that leaves each side that is not gone at its place of the operation, with the same
\* answers and requests under way.
StaysInOperation ==
    /\ ClientHere' => ClientHere /\ UNCHANGED <<ClientAt, Answered>>
    /\ ServerHere' => ServerHere /\ UNCHANGED <<ServerAt, Asked>>

\* Such a step keeps the operation, unless it changes its counts.
LEMMA SameOperation ==
    ASSUME Operations, ClientHere' => ClientHere, ServerHere' => ServerHere,
           ClientHere' => UNCHANGED <<ClientAt, c_i, c_size, Answered>>,
           ServerHere' => UNCHANGED <<ServerAt, s_i, s_size, Asked>>,
           ClientHere' /\ ServerHere' /\ s_pc = "run" => s_pc' = "run"
    PROVE  Operations'
  <1>1. ASSUME ClientHere'
        PROVE  ClientTakes'
    <2>1. ClientTakes
      BY <1>1 DEF Operations
    <2>2. UNCHANGED <<ClientAt, ClientChunks, c_size, Answered>>
      BY <1>1 DEF ClientChunks
    <2> QED BY <2>1, <2>2 DEF ClientTakes
  <1>2. ASSUME ServerHere'
        PROVE  ServerTakes'
    <2>1. ServerTakes
      BY <1>2 DEF Operations
    <2>2. UNCHANGED <<ServerAt, ServerChunks, s_i, s_size, Asked>>
      BY <1>2 DEF ServerChunks
    <2> QED BY <2>1, <2>2 DEF ServerTakes
  <1>3. ASSUME ClientHere', ServerHere'
        PROVE  InOperation'
    <2>1. InOperation
      BY <1>3 DEF Operations
    <2>2. /\ UNCHANGED <<ClientAt, ClientChunks, c_i, c_size, Answered>>
          /\ UNCHANGED <<ServerAt, ServerChunks, s_i, s_size, Asked>>
      BY <1>3 DEF ClientChunks, ServerChunks
    <2>3. InLogout => InLogout'
      BY <1>3, <2>2 DEF InLogout
    <2> QED BY <2>1, <2>2, <2>3 DEF InOperation, AtMenu, AwaitsHandler, IsOwnRequest, InList,
            InDownload, InUpload, InRename, InDelete
  <1> QED BY <1>1, <1>2, <1>3 DEF Operations

\* The client asks for a new session key.
LEMMA HandshakeAsked ==
    ASSUME TypeOK, TypeOK', DialogueInv, ClientAuthM1
    PROVE  DialogueInv' /\ StaysInOperation
  <1> DEFINE m == Msg("AuthM1", NoKey, 0, Number(c_eph'))
             n == Len(c2s)
  <1>1. /\ c_pc = "auth" /\ c_pc' = "authM2" /\ ToServer(m)
        /\ c_ret' = c_ret /\ c_ctr' = c_ctr /\ c_key' = c_key /\ s2c' = s2c
        /\ c_i' = c_i /\ c_size' = c_size
    BY DEF ClientAuthM1, cOp
  <1>2. /\ s_pc' = s_pc /\ s_ret' = s_ret /\ s_ctr' = s_ctr /\ s_key' = s_key
        /\ s_i' = s_i /\ s_size' = s_size
    BY DEF ClientAuthM1, server
  <1>3. /\ ClientHere /\ ClientHere' /\ ServerHere' = ServerHere
        /\ ClientAt' = ClientAt /\ ServerAt' = ServerAt /\ Answered' = Answered
    BY <1>1, <1>2 DEF ClientHere, ServerHere, ClientAt, ServerAt, Answered, AuthPcs, Gone
  <1>4. s2c = <<>>
    BY <1>1, <1>3 DEF DialogueInv, KeysAndCounters, ClientNumbers
  <1>5. ClientNumbers'
    BY <1>1, <1>4 DEF ClientNumbers, AuthPcs
  <1>6. m \in Message /\ m.type = "AuthM1" /\ m.body.n = c_eph'
    <2>1. c_eph' \in Nat
      BY DEF TypeOK, ClientOK
    <2>2. Number(c_eph') \in Body /\ NoKey \in Keys /\ 0 \in 0 .. MaxCounter
      BY <2>1, BodyTypes
    <2> QED BY <2>2, MsgTypes DEF Msg, Types, Number, Plain
  <1>7. ASSUME ServerHere
        PROVE  ServerNumbers' /\ InHandshake' /\ Asked' = Asked
    <2>1. InHandshake /\ ServerNumbers /\ c2s' = Append(c2s, m)
      BY <1>1, <1>3, <1>7 DEF DialogueInv, KeysAndCounters, ServerHere, Gone, ToServer
    <2>2. /\ c2s \in Seq(Message) /\ n \in Nat /\ Len(c2s') = n + 1 /\ c2s'[n + 1] = m
          /\ c2s' # <<>> /\ \A k \in 1..n : c2s'[k] = c2s[k]
          /\ c2s = <<>> <=> n = 0
      BY <1>6, <2>1, Adding DEF TypeOK, ChannelsOK
    <2>3. \/ s_pc \notin AuthPcs /\ s_ctr + n = MaxCounter + 1 /\ Asked = c2s
          \/ s_pc = "authM1" /\ c2s = <<>>
      BY <1>1, <2>1 DEF InHandshake, AuthPcs
    <2>4. c_key = s_key
      BY <1>1, <2>1 DEF InHandshake, AuthPcs
    <2>5. Asked' = c2s /\ Asked = c2s
      <3>1. Asked = c2s
        BY <2>2, <2>3, AskedIs DEF Asked
      <3> QED BY <1>6, <2>1, <2>2, <3>1, AskedAppend DEF Asked, Handshake
    <2>6. ServerNumbers'
      <3>1. CASE s_pc \notin AuthPcs /\ s_ctr + n = MaxCounter + 1
        <4>1. s_ctr \in Nat /\ MaxCounter \in Nat
          BY CounterAssumption DEF TypeOK, ServerOK
        <4>2. ASSUME NEW k \in 1 .. n + 1
              PROVE  IF c2s'[k].type = "AuthM1"
                     THEN k = n + 1 /\ s_ctr + k = MaxCounter + 2
                     ELSE Fits(c2s'[k], s_key, s_ctr + k - 1)
          <5>1. CASE k = n + 1
            BY <1>6, <2>2, <3>1, <4>1, <5>1
          <5>2. CASE k # n + 1
            <6>1. k \in 1..n /\ c2s'[k] = c2s[k] /\ s_ctr + k # MaxCounter + 2
              BY <2>2, <3>1, <4>1, <5>2
            <6> QED BY <2>1, <3>1, <6>1 DEF ServerNumbers
          <5> QED BY <5>1, <5>2
        <4> QED BY <1>2, <2>2, <3>1, <4>2 DEF ServerNumbers, AuthPcs
      <3>2. CASE s_pc = "authM1" /\ c2s = <<>>
        BY <1>2, <1>6, <2>2, <3>2 DEF ServerNumbers, AuthPcs
      <3> QED BY <2>3, <3>1, <3>2
    <2>7. InHandshake'
      <3>1. c2s'[Len(c2s')] = m /\ s_pc' \notin AuthPcs \ {"authM1"}
        BY <1>2, <2>2, <2>3
      <3> QED BY <1>1, <1>2, <1>4, <1>6, <2>2, <2>4, <3>1 DEF InHandshake
    <2> QED BY <2>5, <2>6, <2>7
  <1>8. Operations'
    BY <1>1, <1>2, <1>3, <1>7, SameOperation DEF DialogueInv
  <1> QED BY <1>1, <1>3, <1>5, <1>7, <1>8 DEF DialogueInv, KeysAndCounters, StaysInOperation

\* One message that belongs to the handshake is no request and no answer.
LEMMA HandshakeOnly ==
    ASSUME NEW q \in Seq(Message), Len(q) = 1 \/ q = <<>>,
           q # <<>> => q[1].type \in Handshake
    PROVE  AskedIn(q) = <<>> /\ AnsweredIn(q) = <<>>
  <1>1. CASE q = <<>>
    BY <1>1, AskedIs, AnsweredIs
  <1>2. CASE q # <<>> /\ Len(q) = 1
    <2>1. AskedIn(q) \in Seq(Message) /\ Len(AskedIn(q)) = 0
      BY <1>2, AskedIs
    <2>2. Tail(q) = <<>>
      BY <1>2, Taking
    <2> QED BY <1>2, <2>1, <2>2, AnsweredIs, EmptySeq
  <1> QED BY <1>1, <1>2, EmptySeq

\* The client learns whether the server knows its user, and takes the server's half of the
\* key.
LEMMA HandshakeAnswered ==
    ASSUME TypeOK, TypeOK', DialogueInv, ClientAuthM2 \/ ClientAuthM3
    PROVE  DialogueInv' /\ StaysInOperation
  <1> DEFINE n == Len(s2c)
  <1>1. /\ c_pc \in {"authM2", "authM3"} /\ s2c # <<>> /\ s2c' = Tail(s2c) /\ c2s' = c2s
        /\ c_ret' = c_ret /\ c_eph' = c_eph /\ c_i' = c_i /\ c_size' = c_size
    BY DEF ClientAuthM2, ClientAuthM3, FromServer, cAuth, cOp
  <1>2. /\ s_pc' = s_pc /\ s_ret' = s_ret /\ s_ctr' = s_ctr /\ s_key' = s_key
        /\ s_i' = s_i /\ s_size' = s_size /\ s_peer' = s_peer
    BY DEF ClientAuthM2, ClientAuthM3, server
  <1>3. ClientHere /\ c_pc \in AuthPcs /\ ClientAt = c_ret
    BY <1>1 DEF ClientHere, AuthPcs, Gone, ClientAt
  <1>4. ClientNumbers /\ (ServerHere => InHandshake /\ ServerNumbers)
    BY <1>3 DEF DialogueInv, KeysAndCounters
  <1>5. /\ s2c \in Seq(Message) /\ n \in Nat \ {0} /\ Head(s2c) = s2c[1] /\ Len(s2c') = n - 1
        /\ \A k \in 1 .. n - 1 : s2c'[k] = s2c[k + 1]
        /\ s2c' = <<>> <=> n = 1
        /\ s2c' \in Seq(Message)
    BY <1>1, Taking DEF TypeOK, ChannelsOK
  <1>6. ServerHere' = ServerHere /\ ServerAt' = ServerAt /\ Asked' = Asked
    BY <1>1, <1>2 DEF ServerHere, ServerAt, Asked
  <1>7. ServerHere => ServerNumbers'
    BY <1>1, <1>2, <1>4 DEF ServerNumbers
  <1>8. Answered = <<>>
    <2>1. s2c[1].type \in {"AuthM2", "AuthM3"}
      BY <1>1, <1>4 DEF ClientNumbers, GoodM3
    <2> QED BY <1>1, <1>5, <2>1, AnsweredIs DEF Answered, Handshake
  <1>9. CASE ClientAuthM2
    <2>1. /\ c_pc = "authM2" /\ c_pc' = IF s2c[1].body.code = "ACK" THEN "authM3" ELSE "left"
          /\ c_key' = c_key /\ c_ctr' = c_ctr
      BY <1>5, <1>9 DEF ClientAuthM2, FromServer, cAuth
    <2>2. /\ n <= 2 /\ s2c[1].type = "AuthM2"
          /\ n = 2 => s2c[1].body.code = "ACK" /\ GoodM3(s2c[2])
      BY <1>1, <1>4, <2>1 DEF ClientNumbers
    <2>3. n = 1 \/ n = 2
      BY <1>5, <2>2
    <2>4. s2c' # <<>> => n = 2 /\ Len(s2c') = 1 /\ s2c'[1] = s2c[2]
      BY <1>5, <2>3
    <2>5. ServerHere => \/ s_pc = "authM3" /\ s_peer = c_eph /\ n = 1 /\ c_pc' = "authM3"
                        \/ /\ s_pc = "authM4" /\ n = 2 /\ s2c[2].key = s_key /\ c2s = <<>>
                           /\ c_pc' = "authM3"
      BY <1>1, <1>4, <2>1, <2>2 DEF InHandshake, AuthPcs
    <2>6. ServerHere => InHandshake'
      BY <1>1, <1>2, <1>5, <2>4, <2>5 DEF InHandshake
    <2>7. ClientHere' => ClientNumbers'
      BY <1>1, <2>1, <2>2, <2>4 DEF ClientNumbers, ClientHere, Gone, AuthPcs, GoodM3
    <2>8. Answered' = <<>>
      BY <1>5, <2>2, <2>4, HandshakeOnly DEF Answered, GoodM3, Handshake
    <2>9. ClientHere' => ClientAt' = ClientAt
      BY <1>1, <1>3, <2>1 DEF ClientHere, Gone, ClientAt, AuthPcs
    <2>10. Operations'
      BY <1>1, <1>2, <1>3, <1>6, <1>8, <2>8, <2>9, SameOperation DEF DialogueInv
    <2>11. StaysInOperation
      BY <1>3, <1>6, <1>8, <2>8, <2>9 DEF StaysInOperation
    <2> QED BY <1>6, <1>7, <2>1, <2>5, <2>6, <2>7, <2>10, <2>11 DEF DialogueInv, KeysAndCounters
  <1>10. CASE ClientAuthM3
    <2>1. c_pc = "authM3"
      BY <1>10 DEF ClientAuthM3, FromServer
    <2>2. n = 1 /\ GoodM3(s2c[1]) /\ s2c' = <<>>
      BY <1>1, <1>4, <1>5, <2>1 DEF ClientNumbers
    <2>3. c_ctr' = 1 /\ c_key' = s2c[1].key /\ c_pc' = "authM4"
      BY <1>5, <1>10, <2>2 DEF ClientAuthM3, GoodM3
    <2>4. ClientNumbers'
      BY <2>2, <2>3 DEF ClientNumbers, AuthPcs
    <2>5. ServerHere => InHandshake'
      <3>1. SUFFICES ASSUME ServerHere PROVE InHandshake'
        OBVIOUS
      <3>2. s_pc = "authM4" /\ s2c[1].key = s_key /\ c2s = <<>>
        BY <1>1, <1>4, <2>1, <3>1 DEF InHandshake, AuthPcs
      <3> QED BY <1>1, <1>2, <2>2, <2>3, <3>2 DEF InHandshake
    <2>6. Answered' = <<>>
      BY <1>5, <2>2, HandshakeOnly DEF Answered
    <2>7. ClientAt' = ClientAt /\ ClientHere'
      BY <1>1, <1>3, <2>3 DEF ClientHere, Gone, ClientAt, AuthPcs
    <2>8. Operations'
      BY <1>1, <1>2, <1>3, <1>6, <1>8, <2>6, <2>7, SameOperation DEF DialogueInv
    <2>9. StaysInOperation
      BY <1>3, <1>6, <1>8, <2>6, <2>7 DEF StaysInOperation
    <2> QED BY <1>6, <1>7, <2>3, <2>4, <2>5, <2>8, <2>9 DEF DialogueInv, KeysAndCounters
  <1> QED BY <1>9, <1>10

\* The client proves that it has the key.
LEMMA HandshakeSigned ==
    ASSUME TypeOK, TypeOK', DialogueInv, ClientAuthM4
    PROVE  DialogueInv' /\ StaysInOperation
  <1> DEFINE m == Msg("AuthM4", c_key, c_ctr, Plain)
  <1>1. /\ c_pc = "authM4" /\ ToServer(m) /\ ClientIncrement("authM5") /\ s2c' = s2c
        /\ c_key' = c_key /\ c_eph' = c_eph /\ c_i' = c_i /\ c_size' = c_size
    BY DEF ClientAuthM4, cAuth, cOp
  <1>2. /\ s_pc' = s_pc /\ s_ret' = s_ret /\ s_ctr' = s_ctr /\ s_key' = s_key
        /\ s_i' = s_i /\ s_size' = s_size
    BY DEF ClientAuthM4, server
  <1>3. ClientHere /\ c_pc \in AuthPcs
    BY <1>1 DEF ClientHere, AuthPcs, Gone
  <1>4. c_ctr = 1 /\ s2c = <<>>
    BY <1>1, <1>3 DEF DialogueInv, KeysAndCounters, ClientNumbers
  <1>5. c_pc' = "authM5" /\ c_ret' = c_ret /\ c_ctr' = 2
    <2>1. c_ctr # MaxCounter /\ c_ctr + 1 = 2
      BY <1>4, CounterAssumption
    <2> QED BY <1>1, <2>1 DEF ClientIncrement
  <1>6. /\ ClientHere' /\ ServerHere' = ServerHere
        /\ ClientAt' = ClientAt /\ ServerAt' = ServerAt /\ Answered' = Answered
    BY <1>1, <1>2, <1>5 DEF ClientHere, ServerHere, ClientAt, ServerAt, Answered, AuthPcs, Gone
  <1>7. ClientNumbers'
    BY <1>1, <1>4, <1>5 DEF ClientNumbers, AuthPcs
  <1>8. /\ m \in Message /\ m.type = "AuthM4"
        /\ \A key \in Keys : key = c_key => Verdict(m, key, 1) = "SUCCESS"
    <2>1. m \in Message
      BY MsgTypes, BodyTypes DEF TypeOK, ClientOK, Types
    <2> QED BY <1>4, <2>1 DEF Msg, Verdict
  <1>9. ASSUME ServerHere
        PROVE  ServerNumbers' /\ InHandshake' /\ Asked' = Asked
    <2>1. InHandshake /\ ServerNumbers /\ c2s' = Append(c2s, m)
      BY <1>1, <1>3, <1>9 DEF DialogueInv, KeysAndCounters, ServerHere, Gone, ToServer
    <2>2. s_pc = "authM4" /\ c_key = s_key /\ c2s = <<>>
      BY <1>1, <2>1 DEF InHandshake, AuthPcs
    <2>3. s_ctr = 1
      BY <2>1, <2>2 DEF ServerNumbers
    <2>4. c2s' \in Seq(Message) /\ Len(c2s') = 1 /\ c2s'[1] = m /\ c2s' # <<>>
      <3>1. c2s \in Seq(Message) /\ Len(c2s) = 0
        BY <2>2, EmptySeq DEF TypeOK, ChannelsOK
      <3> QED BY <1>8, <2>1, <3>1, Adding
    <2>5. ServerNumbers'
      <3>1. Verdict(m, s_key, s_ctr) = "SUCCESS"
        BY <1>8, <2>2, <2>3 DEF TypeOK, ServerOK
      <3> QED BY <1>2, <1>8, <2>2, <2>3, <2>4, <3>1 DEF ServerNumbers, AuthPcs
    <2>6. InHandshake'
      BY <1>1, <1>2, <1>4, <1>5, <2>2, <2>4 DEF InHandshake
    <2>7. Asked' = Asked
      <3>1. AskedIn(c2s') = <<>>
        BY <1>8, <2>4, HandshakeOnly DEF Handshake
      <3>2. AskedIn(c2s) = <<>>
        BY <2>2, AskedIs DEF TypeOK, ChannelsOK
      <3> QED BY <3>1, <3>2 DEF Asked
    <2> QED BY <2>5, <2>6, <2>7
  <1>10. Operations'
    BY <1>1, <1>2, <1>3, <1>6, <1>9, SameOperation DEF DialogueInv
  <1>11. StaysInOperation
    BY <1>3, <1>6, <1>9 DEF StaysInOperation
  <1> QED BY <1>5, <1>6, <1>7, <1>9, <1>10, <1>11 DEF DialogueInv, KeysAndCounters

\* The client is let in, and goes on where the handshake interrupted it.
LEMMA HandshakeDone ==
    ASSUME TypeOK, TypeOK', DialogueInv, ClientAuthM5
    PROVE  DialogueInv' /\ StaysInOperation
  <1> DEFINE n == Len(s2c)
  <1>1. /\ c_pc = "authM5" /\ s2c # <<>> /\ s2c' = Tail(s2c) /\ c2s' = c2s
        /\ c_key' = c_key /\ c_eph' = c_eph /\ c_i' = c_i /\ c_size' = c_size
    BY DEF ClientAuthM5, FromServer, cAuth, cOp
  <1>2. /\ s_pc' = s_pc /\ s_ret' = s_ret /\ s_ctr' = s_ctr /\ s_key' = s_key
        /\ s_i' = s_i /\ s_size' = s_size
    BY DEF ClientAuthM5, server
  <1>3. ClientHere /\ c_pc \in AuthPcs /\ ClientAt = c_ret
    BY <1>1 DEF ClientHere, AuthPcs, Gone, ClientAt
  <1>4. ClientNumbers /\ ClientTakes /\ (ServerHere => InHandshake /\ ServerNumbers)
    BY <1>3 DEF DialogueInv, KeysAndCounters, Operations
  <1>5. /\ s2c \in Seq(Message) /\ n \in Nat \ {0} /\ Head(s2c) = s2c[1] /\ Len(s2c') = n - 1
        /\ \A k \in 1 .. n - 1 : s2c'[k] = s2c[k + 1]
        /\ s2c' = <<>> <=> n = 1
        /\ s2c' \in Seq(Message)
    BY <1>1, Taking DEF TypeOK, ChannelsOK
  <1>6. /\ s2c[1].type = "AuthM5" /\ Verdict(s2c[1], c_key, c_ctr) = "SUCCESS"
        /\ n > 1 => s2c[1].body.code = "ACK"
        /\ \A k \in 2..n : Fits(s2c[k], c_key, k - 2)
    BY <1>1, <1>4 DEF ClientNumbers
  <1>7. ServerHere' = ServerHere /\ ServerAt' = ServerAt /\ Asked' = Asked
    BY <1>1, <1>2 DEF ServerHere, ServerAt, Asked
  <1>8. ServerHere => ServerNumbers'
    BY <1>1, <1>2, <1>4 DEF ServerNumbers
  <1>9. ServerHere => /\ s2c[1].body.code = "ACK"
                      /\ \/ /\ s_pc \notin AuthPcs /\ c2s = <<>>
                            /\ LoggedOut \/ (c_key = s_key /\ s_ctr = n - 1)
                         \/ /\ s_pc = "authM1" /\ c2s = <<>> /\ n = MaxCounter + 2
                            /\ c_key = s_key
    BY <1>1, <1>4 DEF InHandshake, AuthPcs
  <1>10. CASE s2c[1].body.code = "ACK"
    <2>1. c_ctr' = 0 /\ c_pc' = c_ret /\ c_ret' = "menu"
      BY <1>5, <1>6, <1>10 DEF ClientAuthM5
    <2>2. c_pc' \notin AuthPcs \cup Gone
      BY <1>3, <1>4, <2>1 DEF ClientTakes, AuthPcs, Gone, Downloading, SingleWaits
    <2>3. ClientHere' /\ ClientAt' = ClientAt /\ c_pc' # "left"
      BY <1>3, <2>1, <2>2 DEF ClientHere, ClientAt, Gone
    <2>4. \A k \in 1 .. n - 1 : Fits(s2c'[k], c_key, 0 + k - 1)
      <3>1. TAKE k \in 1 .. n - 1
      <3>2. k + 1 \in 2..n /\ (k + 1) - 2 = 0 + k - 1 /\ s2c'[k] = s2c[k + 1]
        BY <1>5
      <3> QED BY <1>6, <3>2
    <2>5. ClientNumbers'
      BY <1>1, <1>5, <2>1, <2>2, <2>4 DEF ClientNumbers, AuthPcs
    <2>6. Answered' = Answered
      <3>1. Answered = s2c'
        BY <1>1, <1>5, <1>6, AnsweredIs DEF Answered
      <3>2. s2c' # <<>> => s2c'[1].type \notin Handshake
        <4>1. s2c' # <<>> => 1 \in 1 .. n - 1
          BY <1>5
        <4> QED BY <2>4, <4>1 DEF Fits
      <3> QED BY <1>5, <3>1, <3>2, AnsweredIs DEF Answered
    <2>7. ServerHere => InHandshake'
      <3>1. SUFFICES ASSUME ServerHere PROVE InHandshake'
        OBVIOUS
      <3>2. CASE /\ s_pc \notin AuthPcs /\ c2s = <<>>
                 /\ LoggedOut \/ (c_key = s_key /\ s_ctr = n - 1)
        <4>1. LoggedOut => LoggedOut'
          BY <1>1, <1>2, <2>3 DEF LoggedOut
        <4>2. Len(c2s') = 0
          BY <1>1, <3>2, EmptySeq
        <4>3. c_key = s_key /\ s_ctr = n - 1 => Agree'
          BY <1>1, <1>2, <1>5, <2>1, <4>2 DEF Agree
        <4> QED BY <1>2, <2>2, <3>2, <4>1, <4>3 DEF InHandshake
      <3>3. CASE s_pc = "authM1" /\ c2s = <<>> /\ n = MaxCounter + 2 /\ c_key = s_key
        <4>1. c_ctr' + Len(s2c') = MaxCounter + 1
          BY <1>5, <2>1, <3>3, CounterAssumption
        <4> QED BY <1>1, <1>2, <2>2, <3>3, <4>1 DEF InHandshake
      <3> QED BY <1>9, <3>1, <3>2, <3>3
    <2>8. Operations'
      BY <1>1, <1>2, <1>3, <1>7, <2>3, <2>6, SameOperation DEF DialogueInv
    <2>9. StaysInOperation
      BY <1>3, <1>7, <2>3, <2>6 DEF StaysInOperation
    <2> QED BY <1>7, <1>8, <2>3, <2>5, <2>7, <2>8, <2>9 DEF DialogueInv, KeysAndCounters
  <1>11. CASE s2c[1].body.code # "ACK"
    <2>1. ~ServerHere /\ ~ServerHere'
      BY <1>7, <1>9, <1>11
    <2>2. ~ClientHere'
      BY <1>5, <1>6, <1>11 DEF ClientAuthM5, ClientHere, Gone
    <2> QED BY <2>1, <2>2 DEF DialogueInv, KeysAndCounters, Operations, StaysInOperation
  <1> QED BY <1>10, <1>11

\* The thread ends: what it has sent is still under way.
LEMMA ServerLeaves ==
    ASSUME DialogueInv, s_pc' \in Gone, UNCHANGED <<client, s2c>>
    PROVE  DialogueInv'
  <1>1. /\ c_pc' = c_pc /\ c_ret' = c_ret /\ c_ctr' = c_ctr /\ c_key' = c_key
        /\ c_eph' = c_eph /\ c_size' = c_size /\ c_i' = c_i /\ s2c' = s2c /\ ~ServerHere'
    BY DEF client, ServerHere
  <1>2. ClientHere' = ClientHere /\ UNCHANGED <<ClientAt, c_i, c_size, Answered>>
    BY <1>1 DEF ClientHere, ClientAt, Answered
  <1>3. ClientHere' => ClientNumbers'
    BY <1>1, <1>2 DEF DialogueInv, KeysAndCounters, ClientNumbers, GoodM3
  <1>4. Operations'
    BY <1>1, <1>2, SameOperation DEF DialogueInv
  <1> QED BY <1>1, <1>3, <1>4 DEF DialogueInv, KeysAndCounters

\* The server has looked for the key of the user.
LEMMA HandshakeTaken ==
    ASSUME TypeOK, TypeOK', DialogueInv, ServerAuthM1
    PROVE  DialogueInv' /\ StaysInOperation
  <1>1. /\ s_pc = "authM1" /\ c2s # <<>> /\ c2s' = Tail(c2s) /\ s_pc' = "authM2"
        /\ s_peer' = Head(c2s).body.n /\ s2c' = s2c
        /\ s_ret' = s_ret /\ s_i' = s_i /\ s_size' = s_size
    BY DEF ServerAuthM1, FromClient, sOp
  <1>2. /\ c_pc' = c_pc /\ c_ret' = c_ret /\ c_ctr' = c_ctr /\ c_key' = c_key
        /\ c_eph' = c_eph /\ c_size' = c_size /\ c_i' = c_i
    BY DEF ServerAuthM1, client
  <1>3. /\ ServerHere /\ ServerHere' /\ ClientHere' = ClientHere /\ c_pc # "left"
        /\ ServerAt' = ServerAt /\ ClientAt' = ClientAt /\ Answered' = Answered
    BY <1>1, <1>2 DEF ServerHere, ClientHere, ServerAt, ClientAt, Answered, AuthPcs, Gone,
       DialogueInv, KeysAndCounters
  <1>4. Len(c2s) = 1 /\ c2s[1].type = "AuthM1"
    BY <1>1, <1>3 DEF DialogueInv, KeysAndCounters, ServerNumbers, AuthPcs
  <1>5. c2s \in Seq(Message) /\ c2s' = <<>> /\ Head(c2s) = c2s[1]
    BY <1>1, <1>4, Taking DEF TypeOK, ChannelsOK
  <1>6. Asked' = Asked
    BY <1>4, <1>5, HandshakeOnly DEF Asked, AskedIn, Handshake
  <1>7. ServerNumbers'
    BY <1>1, <1>5 DEF ServerNumbers, AuthPcs
  <1>8. ClientHere' => ClientNumbers'
    BY <1>1, <1>2, <1>3 DEF DialogueInv, KeysAndCounters, ClientNumbers, GoodM3
  <1>9. ASSUME ClientHere
        PROVE  InHandshake'
    <2>1. InHandshake
      BY <1>3, <1>9 DEF DialogueInv, KeysAndCounters
    <2>2. c_pc = "authM2" /\ s2c = <<>> /\ c2s[1].body.n = c_eph
      BY <1>1, <1>4, <2>1 DEF InHandshake, AuthPcs
    <2> QED BY <1>1, <1>2, <1>5, <2>2 DEF InHandshake
  <1>10. Operations'
    BY <1>1, <1>2, <1>3, <1>6, SameOperation DEF DialogueInv
  <1>11. StaysInOperation
    BY <1>3, <1>6 DEF StaysInOperation
  <1> QED BY <1>2, <1>3, <1>7, <1>8, <1>9, <1>10, <1>11 DEF DialogueInv, KeysAndCounters

\* The server says whether it could read the key.
LEMMA HandshakeKnown ==
    ASSUME TypeOK, TypeOK', DialogueInv, ServerAuthM2
    PROVE  DialogueInv' /\ StaysInOperation
  <1>1. /\ s_pc = "authM2" /\ c2s' = c2s /\ s_peer' = s_peer
        /\ s_ret' = s_ret /\ s_i' = s_i /\ s_size' = s_size
    BY DEF ServerAuthM2, sAuth, sOp
  <1>2. /\ c_pc' = c_pc /\ c_ret' = c_ret /\ c_ctr' = c_ctr /\ c_key' = c_key
        /\ c_eph' = c_eph /\ c_size' = c_size /\ c_i' = c_i
    BY DEF ServerAuthM2, client
  <1>3. PICK code \in {"ACK", "NACK"} :
            /\ ToClient(Msg("AuthM2", NoKey, 0, Code(code)))
            /\ s_pc' = IF code = "ACK" THEN "authM3" ELSE "done"
    BY DEF ServerAuthM2, ServerLeave
  <1> DEFINE m == Msg("AuthM2", NoKey, 0, Code(code))
  <1>4. /\ ServerHere /\ ClientHere' = ClientHere /\ c_pc # "left"
        /\ ClientAt' = ClientAt /\ Asked' = Asked
        /\ ServerHere' => s_pc' = "authM3" /\ ServerAt' = ServerAt /\ code = "ACK"
    BY <1>1, <1>2, <1>3 DEF ServerHere, ClientHere, ServerAt, ClientAt, Asked, AuthPcs, Gone,
       DialogueInv, KeysAndCounters
  <1>5. m \in Message /\ m.type = "AuthM2" /\ m.body.code = code
    <2>1. m \in Message
      BY MsgTypes, BodyTypes DEF Types, Codes
    <2> QED BY <2>1 DEF Msg, Code, Plain
  <1>6. c2s = <<>>
    BY <1>1, <1>4 DEF DialogueInv, KeysAndCounters, ServerNumbers, AuthPcs
  <1>7. ServerHere' => ServerNumbers'
    BY <1>1, <1>4, <1>6 DEF ServerNumbers, AuthPcs
  <1>8. ASSUME ClientHere
        PROVE  ClientNumbers' /\ (ServerHere' => InHandshake') /\ Answered' = Answered
    <2>1. InHandshake /\ s2c' = Append(s2c, m)
      BY <1>3, <1>4, <1>8 DEF DialogueInv, KeysAndCounters, ClientHere, Gone, ToClient
    <2>2. c_pc = "authM2" /\ s2c = <<>> /\ s_peer = c_eph
      BY <1>1, <1>6, <2>1 DEF InHandshake, AuthPcs
    <2>3. s2c' \in Seq(Message) /\ Len(s2c') = 1 /\ s2c'[1] = m /\ s2c' # <<>>
      <3>1. s2c \in Seq(Message) /\ Len(s2c) = 0
        BY <2>2, EmptySeq DEF TypeOK, ChannelsOK
      <3> QED BY <1>5, <2>1, <3>1, Adding
    <2>4. ClientNumbers'
      BY <1>2, <1>5, <2>2, <2>3 DEF ClientNumbers, AuthPcs
    <2>5. ServerHere' => InHandshake'
      BY <1>1, <1>2, <1>4, <1>5, <2>2, <2>3 DEF InHandshake
    <2>6. Answered' = Answered
      <3>1. AnsweredIn(s2c') = <<>>
        BY <1>5, <2>3, HandshakeOnly DEF Handshake
      <3>2. AnsweredIn(s2c) = <<>>
        BY <2>2, AnsweredIs DEF TypeOK, ChannelsOK
      <3> QED BY <3>1, <3>2 DEF Answered
    <2> QED BY <2>4, <2>5, <2>6
  <1>9. Operations'
    BY <1>1, <1>2, <1>4, <1>8, SameOperation DEF DialogueInv
  <1>10. StaysInOperation
    BY <1>4, <1>8 DEF StaysInOperation
  <1> QED BY <1>2, <1>4, <1>7, <1>8, <1>9, <1>10 DEF DialogueInv, KeysAndCounters

\* The server sends its half of the key.
LEMMA HandshakeKey ==
    ASSUME TypeOK, TypeOK', DialogueInv, ServerAuthM3
    PROVE  DialogueInv' /\ StaysInOperation
  <1> DEFINE m == Msg("AuthM3", s_key', 0, Number(s_eph'))
  <1>1. /\ s_pc = "authM3" /\ s_pc' = "authM4" /\ s_key' = <<s_peer, s_eph'>> /\ ToClient(m)
        /\ s_ctr' = 1 /\ c2s' = c2s /\ s_peer' = s_peer
        /\ s_ret' = s_ret /\ s_i' = s_i /\ s_size' = s_size
    BY DEF ServerAuthM3, sOp
  <1>2. /\ c_pc' = c_pc /\ c_ret' = c_ret /\ c_ctr' = c_ctr /\ c_key' = c_key
        /\ c_eph' = c_eph /\ c_size' = c_size /\ c_i' = c_i
    BY DEF ServerAuthM3, client
  <1>3. /\ ServerHere /\ ServerHere' /\ ClientHere' = ClientHere /\ c_pc # "left"
        /\ ClientAt' = ClientAt /\ Asked' = Asked /\ ServerAt' = ServerAt
    BY <1>1, <1>2 DEF ServerHere, ClientHere, ServerAt, ClientAt, Asked, AuthPcs, Gone,
       DialogueInv, KeysAndCounters
  <1>4. /\ m \in Message /\ m.type = "AuthM3" /\ m.ctr = 0 /\ m.key = s_key'
        /\ m.body.n = s_eph'
    <2>1. s_key' \in Keys /\ s_eph' \in Nat
      BY DEF TypeOK, ServerOK
    <2>2. Number(s_eph') \in Body /\ 0 \in 0 .. MaxCounter
      BY <2>1, BodyTypes
    <2> QED BY <2>1, <2>2, MsgTypes DEF Msg, Types, Number, Plain
  <1>5. c2s = <<>>
    BY <1>1, <1>3 DEF DialogueInv, KeysAndCounters, ServerNumbers, AuthPcs
  <1>6. ServerNumbers'
    BY <1>1, <1>5 DEF ServerNumbers, AuthPcs
  <1>7. ASSUME ClientHere
        PROVE  ClientNumbers' /\ InHandshake' /\ Answered' = Answered
    <2>1. InHandshake /\ ClientNumbers /\ s2c' = Append(s2c, m) /\ s2c \in Seq(Message)
      BY <1>1, <1>3, <1>7 DEF DialogueInv, KeysAndCounters, ClientHere, Gone, ToClient,
         TypeOK, ChannelsOK
    <2>2. /\ s_peer = c_eph
          /\ \/ c_pc = "authM2" /\ Len(s2c) = 1 /\ s2c[1].body.code = "ACK"
             \/ c_pc = "authM3" /\ s2c = <<>>
      BY <1>1, <1>5, <2>1 DEF InHandshake, AuthPcs
    <2>4. CASE c_pc = "authM2" /\ Len(s2c) = 1 /\ s2c[1].body.code = "ACK"
      <3>1. s2c # <<>>
        BY <2>4, EmptySeq
      <3>2. s2c[1].type = "AuthM2"
        BY <2>1, <2>4, <3>1 DEF ClientNumbers
      <3>3. /\ s2c' \in Seq(Message) /\ Len(s2c') = 2 /\ s2c'[2] = m /\ s2c'[1] = s2c[1]
            /\ s2c' # <<>>
        BY <1>4, <2>1, <2>4, Adding
      <3>4. ClientNumbers'
        <4>1. s2c'[2].type = "AuthM3" /\ s2c'[2].ctr = 0
              /\ s2c'[2].key = <<c_eph', s2c'[2].body.n>>
          BY <1>1, <1>2, <1>4, <2>2, <3>3
        <4>2. s2c'[1].type = "AuthM2" /\ s2c'[1].body.code = "ACK"
          BY <2>4, <3>2, <3>3
        <4>3. c_pc' = "authM2"
          BY <1>2, <2>4
        <4> QED BY <3>3, <4>1, <4>2, <4>3 DEF ClientNumbers, AuthPcs, GoodM3
      <3>5. InHandshake'
        BY <1>1, <1>2, <1>4, <1>5, <2>4, <3>3 DEF InHandshake
      <3>6. Answered' = Answered
        BY <2>1, <3>1, <3>2, <3>3, AnsweredIs DEF Answered, Handshake
      <3> QED BY <3>4, <3>5, <3>6
    <2>5. CASE c_pc = "authM3" /\ s2c = <<>>
      <3>1. s2c' \in Seq(Message) /\ Len(s2c') = 1 /\ s2c'[1] = m /\ s2c' # <<>>
        <4>1. Len(s2c) = 0
          BY <2>5, EmptySeq
        <4> QED BY <1>4, <2>1, <4>1, Adding
      <3>2. ClientNumbers'
        BY <1>1, <1>2, <1>4, <2>2, <2>5, <3>1 DEF ClientNumbers, AuthPcs, GoodM3
      <3>3. InHandshake'
        BY <1>1, <1>2, <1>4, <1>5, <2>5, <3>1 DEF InHandshake
      <3>4. Answered' = Answered
        <4>1. AnsweredIn(s2c') = <<>>
          BY <1>4, <3>1, HandshakeOnly DEF Handshake
        <4>2. AnsweredIn(s2c) = <<>>
          BY <2>1, <2>5, AnsweredIs
        <4> QED BY <4>1, <4>2 DEF Answered
      <3> QED BY <3>2, <3>3, <3>4
    <2> QED BY <2>2, <2>4, <2>5
  <1>8. Operations'
    BY <1>1, <1>2, <1>3, <1>7, SameOperation DEF DialogueInv
  <1>9. StaysInOperation
    BY <1>3, <1>7 DEF StaysInOperation
  <1> QED BY <1>2, <1>3, <1>6, <1>7, <1>8, <1>9 DEF DialogueInv, KeysAndCounters

\* The server has checked the proof.
LEMMA HandshakeChecked ==
    ASSUME TypeOK, TypeOK', DialogueInv, ServerAuthM4
    PROVE  DialogueInv' /\ StaysInOperation
  <1>1. /\ s_pc = "authM4" /\ c2s # <<>> /\ c2s' = Tail(c2s) /\ s2c' = s2c
        /\ s_key' = s_key /\ s_i' = s_i /\ s_size' = s_size
    BY DEF ServerAuthM4, FromClient, sAuth, sOp
  <1>2. /\ c_pc' = c_pc /\ c_ret' = c_ret /\ c_ctr' = c_ctr /\ c_key' = c_key
        /\ c_eph' = c_eph /\ c_size' = c_size /\ c_i' = c_i
    BY DEF ServerAuthM4, client
  <1>3. ServerHere /\ c_pc # "left" /\ ServerNumbers
    BY <1>1 DEF ServerHere, AuthPcs, Gone, DialogueInv, KeysAndCounters
  <1>4. /\ Len(c2s) = 1 /\ c2s[1].type = "AuthM4" /\ s_ctr = 1
        /\ Verdict(c2s[1], s_key, s_ctr) = "SUCCESS"
    BY <1>1, <1>3 DEF ServerNumbers, AuthPcs
  <1>5. c2s \in Seq(Message) /\ c2s' = <<>> /\ Head(c2s) = c2s[1]
    BY <1>1, <1>4, Taking DEF TypeOK, ChannelsOK
  <1>6. s_pc' = "authM5" /\ s_ret' = s_ret /\ s_ctr' = 2
    <2>1. ServerIncrement("authM5")
      BY <1>4, <1>5 DEF ServerAuthM4
    <2>2. s_ctr # MaxCounter /\ s_ctr + 1 = 2
      BY <1>4, CounterAssumption
    <2> QED BY <2>1, <2>2 DEF ServerIncrement
  <1>7. /\ ServerHere' /\ ClientHere' = ClientHere /\ ServerAt' = ServerAt
        /\ ClientAt' = ClientAt /\ Answered' = Answered
    BY <1>1, <1>2, <1>6 DEF ServerHere, ClientHere, ServerAt, ClientAt, Answered, AuthPcs, Gone
  <1>8. Asked' = Asked
    BY <1>4, <1>5, HandshakeOnly DEF Asked, AskedIn, Handshake
  <1>9. ServerNumbers'
    BY <1>5, <1>6 DEF ServerNumbers, AuthPcs
  <1>10. ClientHere' => ClientNumbers'
    BY <1>1, <1>2, <1>7 DEF DialogueInv, KeysAndCounters, ClientNumbers, GoodM3
  <1>11. ASSUME ClientHere
         PROVE  InHandshake'
    <2>1. InHandshake
      BY <1>3, <1>11 DEF DialogueInv, KeysAndCounters
    <2>2. c_pc = "authM5" /\ s2c = <<>> /\ c_key = s_key /\ c_ctr = 2
      BY <1>1, <2>1 DEF InHandshake, AuthPcs
    <2> QED BY <1>1, <1>2, <1>6, <2>2 DEF InHandshake
  <1>12. Operations'
    BY <1>1, <1>2, <1>3, <1>7, <1>8, SameOperation DEF DialogueInv
  <1>13. StaysInOperation
    BY <1>3, <1>7, <1>8 DEF StaysInOperation
  <1> QED BY <1>2, <1>3, <1>7, <1>9, <1>10, <1>11, <1>12, <1>13 DEF DialogueInv, KeysAndCounters

\* The server lets the client in, and goes on where the handshake interrupted it.
LEMMA HandshakeEnds ==
    ASSUME TypeOK, TypeOK', DialogueInv, ServerAuthM5
    PROVE  DialogueInv' /\ StaysInOperation
  <1>1. /\ s_pc = "authM5" /\ s_ctr' = 0 /\ c2s' = c2s /\ s_key' = s_key
        /\ s_i' = s_i /\ s_size' = s_size
    BY DEF ServerAuthM5, sAuth, sOp
  <1>2. /\ c_pc' = c_pc /\ c_ret' = c_ret /\ c_ctr' = c_ctr /\ c_key' = c_key
        /\ c_eph' = c_eph /\ c_size' = c_size /\ c_i' = c_i
    BY DEF ServerAuthM5, client
  <1>3. PICK code \in {"ACK", "NACK"} :
            /\ ToClient(Msg("AuthM5", s_key, s_ctr, Code(code)))
            /\ IF code = "ACK" THEN s_pc' = s_ret /\ s_ret' = "run" ELSE s_pc' = "done"
    BY DEF ServerAuthM5, ServerLeave
  <1> DEFINE m == Msg("AuthM5", s_key, s_ctr, Code(code))
  <1>4. /\ ServerHere /\ ClientHere' = ClientHere /\ c_pc # "left" /\ ServerAt = s_ret
        /\ ClientAt' = ClientAt /\ Asked' = Asked
    BY <1>1, <1>2 DEF ServerHere, ClientHere, ServerAt, ClientAt, Asked, AuthPcs, Gone,
       DialogueInv, KeysAndCounters
  <1>5. s_ret \notin AuthPcs \cup Gone
    BY <1>4 DEF DialogueInv, Operations, ServerTakes
  <1>6. ServerHere' => /\ code = "ACK" /\ ServerAt' = ServerAt
                       /\ s_pc' \notin AuthPcs
    BY <1>3, <1>4, <1>5 DEF ServerHere, ServerAt, Gone
  <1>7. /\ m \in Message /\ m.type = "AuthM5" /\ m.body.code = code
        /\ \A key \in Keys : key = s_key => Verdict(m, key, s_ctr) = "SUCCESS"
    <2>1. m \in Message
      BY MsgTypes, BodyTypes DEF Types, Codes, TypeOK, ServerOK
    <2> QED BY <2>1 DEF Msg, Code, Plain, Verdict
  <1>8. c2s = <<>>
    BY <1>1, <1>4 DEF DialogueInv, KeysAndCounters, ServerNumbers, AuthPcs
  <1>9. ServerHere' => ServerNumbers'
    <2>1. Len(c2s') = 0
      BY <1>1, <1>8, EmptySeq
    <2> QED BY <1>1, <1>6, <1>8, <2>1 DEF ServerNumbers, AuthPcs
  <1>10. ASSUME ClientHere
         PROVE  ClientNumbers' /\ (ServerHere' => InHandshake') /\ Answered' = Answered
    <2>1. InHandshake /\ s2c' = Append(s2c, m)
      BY <1>3, <1>4, <1>10 DEF DialogueInv, KeysAndCounters, ClientHere, Gone, ToClient
    <2>2. c_pc = "authM5" /\ s2c = <<>> /\ c_key = s_key /\ c_ctr = s_ctr
      BY <1>1, <1>8, <2>1 DEF InHandshake, AuthPcs
    <2>3. s2c' \in Seq(Message) /\ Len(s2c') = 1 /\ s2c'[1] = m /\ s2c' # <<>>
      <3>1. s2c \in Seq(Message) /\ Len(s2c) = 0
        BY <2>2, EmptySeq DEF TypeOK, ChannelsOK
      <3> QED BY <1>7, <2>1, <3>1, Adding
    <2>4. ClientNumbers'
      <3>1. Verdict(m, c_key, c_ctr) = "SUCCESS"
        BY <1>7, <2>2 DEF TypeOK, ClientOK
      <3> QED BY <1>2, <1>7, <2>2, <2>3, <3>1 DEF ClientNumbers, AuthPcs
    <2>5. ServerHere' => InHandshake'
      <3>1. s_ctr' = Len(s2c') - 1
        BY <1>1, <2>3
      <3> QED BY <1>1, <1>2, <1>6, <1>7, <1>8, <2>2, <2>3, <3>1 DEF InHandshake
    <2>6. Answered' = Answered
      <3>1. AnsweredIn(s2c') = <<>>
        BY <1>7, <2>3, HandshakeOnly DEF Handshake
      <3>2. AnsweredIn(s2c) = <<>>
        BY <2>2, AnsweredIs DEF TypeOK, ChannelsOK
      <3> QED BY <3>1, <3>2 DEF Answered
    <2> QED BY <2>4, <2>5, <2>6
  <1>11. Operations'
    BY <1>1, <1>2, <1>4, <1>6, <1>10, SameOperation DEF DialogueInv
  <1>12. StaysInOperation
    BY <1>4, <1>6, <1>10 DEF StaysInOperation
  <1> QED BY <1>2, <1>4, <1>9, <1>10, <1>11, <1>12 DEF DialogueInv, KeysAndCounters

-----------------------------------------------------------------------------
(* The ends.  A side that is gone can only have cut off what it had sent.   *)

\* What is left of the requests and chunks when the client ends.
LEMMA AskedCut ==
    ASSUME NEW q \in Seq(Message), NEW p \in Prefixes(q)
    PROVE  /\ Len(AskedIn(p)) \in Nat /\ Len(AskedIn(q)) \in Nat
           /\ Len(AskedIn(p)) <= Len(AskedIn(q))
           /\ \A k \in 1 .. Len(AskedIn(p)) : AskedIn(p)[k] = AskedIn(q)[k]
  <1>1. /\ p \in Seq(Message) /\ Len(p) \in Nat /\ Len(q) \in Nat /\ Len(p) <= Len(q)
        /\ \A k \in 1 .. Len(p) : p[k] = q[k]
    BY Cutting, LenProperties
  <1>2. /\ AskedIn(p) \in Seq(Message) /\ AskedIn(q) \in Seq(Message)
        /\ \A k \in 1 .. Len(AskedIn(p)) : AskedIn(p)[k] = p[k]
        /\ \A k \in 1 .. Len(AskedIn(q)) : AskedIn(q)[k] = q[k]
    BY <1>1, AskedIs
  <1>3. PICK a \in Nat, b \in Nat, n \in Nat, k \in Nat :
            a = Len(AskedIn(p)) /\ b = Len(AskedIn(q)) /\ n = Len(q) /\ k = Len(p)
    BY <1>1, <1>2, LenProperties
  <1>4. a <= k /\ (k # 0 /\ p[k].type \in Handshake => a = k - 1)
    <2>1. CASE p = <<>>
      <3>1. AskedIn(p) = <<>>
        BY <1>1, <2>1, AskedIs
      <3>2. a = 0 /\ k = 0
        BY <1>3, <2>1, <3>1, EmptySeq
      <3> QED BY <3>2
    <2>2. CASE p # <<>> /\ p[Len(p)].type \notin Handshake
      BY <1>1, <1>3, <2>2, AskedIs
    <2>3. CASE p # <<>> /\ p[Len(p)].type \in Handshake
      <3>1. a = k - 1
        BY <1>1, <1>3, <2>3, AskedIs
      <3> QED BY <3>1
    <2> QED BY <2>1, <2>2, <2>3
  <1>5. b = n \/ (n # 0 /\ q[n].type \in Handshake /\ b = n - 1)
    BY <1>3, AskedIs, EmptySeq
  <1>6. a <= b
    <2>1. k = n /\ n # 0 => p[k] = q[n]
      BY <1>1, <1>3
    <2> QED BY <1>1, <1>3, <1>4, <1>5, <2>1
  <1>7. \A i \in 1..a : AskedIn(p)[i] = AskedIn(q)[i]
    <2>1. \A i \in 1..a : i \in 1..k /\ i \in 1..b
      BY <1>4, <1>6
    <2> QED BY <1>1, <1>2, <1>3, <2>1
  <1> QED BY <1>3, <1>6, <1>7

\* What is left of the answers when the server ends.
LEMMA AnsweredCut ==
    ASSUME NEW q \in Seq(Message), NEW p \in Prefixes(q)
    PROVE  /\ Len(AnsweredIn(p)) \in Nat /\ Len(AnsweredIn(q)) \in Nat
           /\ Len(AnsweredIn(p)) <= Len(AnsweredIn(q))
           /\ \A k \in 1 .. Len(AnsweredIn(p)) : AnsweredIn(p)[k] = AnsweredIn(q)[k]
  <1>1. /\ p \in Seq(Message) /\ Len(p) \in Nat /\ Len(q) \in Nat /\ Len(p) <= Len(q)
        /\ \A k \in 1 .. Len(p) : p[k] = q[k]
    BY Cutting, LenProperties
  <1>2. Len(AnsweredIn(q)) \in Nat
    BY AnsweredIs, LenProperties
  <1>3. CASE p = <<>> \/ AnsweredIn(p) = <<>>
    <2>1. AnsweredIn(p) = <<>>
      BY <1>1, <1>3, AnsweredIs
    <2>2. Len(AnsweredIn(p)) = 0
      BY <2>1, EmptySeq
    <2> QED BY <1>2, <2>2
  <1>4. CASE p # <<>> /\ AnsweredIn(p) # <<>>
    <2>1. q # <<>> /\ p[1] = q[1]
      BY <1>1, <1>4, EmptySeq
    <2>2. CASE p[1].type \notin Handshake
      BY <1>1, <1>4, <2>1, <2>2, AnsweredIs
    <2>3. CASE p[1].type = "AuthM5"
      <3>1. AnsweredIn(p) = Tail(p) /\ AnsweredIn(q) = Tail(q)
        BY <1>1, <1>4, <2>1, <2>3, AnsweredIs
      <3>2. PICK k \in Nat, n \in Nat : k + 1 = Len(p) /\ n + 1 = Len(q)
        <4>1. /\ Len(p) - 1 \in Nat /\ Len(q) - 1 \in Nat
              /\ (Len(p) - 1) + 1 = Len(p) /\ (Len(q) - 1) + 1 = Len(q)
          BY <1>1, <1>4, <2>1, EmptySeq
        <4> QED BY <4>1
      <3>3. /\ Len(Tail(p)) = k /\ Len(Tail(q)) = n /\ k <= n
            /\ \A i \in 1..k : Tail(p)[i] = p[i + 1]
            /\ \A i \in 1..n : Tail(q)[i] = q[i + 1]
        BY <1>1, <1>4, <2>1, <3>2, Taking
      <3>4. \A i \in 1..k : Tail(p)[i] = Tail(q)[i]
        <4>1. \A i \in 1..k : i \in 1..n /\ i + 1 \in 1 .. Len(p)
          BY <3>2, <3>3
        <4> QED BY <1>1, <3>3, <4>1
      <3> QED BY <3>1, <3>3, <3>4
    <2>4. p[1].type \in Handshake => p[1].type = "AuthM5"
      BY <1>1, <1>4, AnsweredIs
    <2> QED BY <2>2, <2>3, <2>4
  <1> QED BY <1>3, <1>4

\* The process of the client ends: the server takes what is left.
LEMMA ClientKilled ==
    ASSUME TypeOK, TypeOK', DialogueInv, ClientExit
    PROVE  DialogueInv'
  <1>1. /\ c_pc' = "exit" /\ c2s' \in Prefixes(c2s) /\ ~ClientHere'
        /\ s_pc' = s_pc /\ s_ret' = s_ret /\ s_i' = s_i /\ s_size' = s_size
        /\ s_key' = s_key /\ s_ctr' = s_ctr
    BY DEF ClientExit, server, ClientHere, Gone
  <1>2. ServerHere' = ServerHere /\ UNCHANGED <<ServerAt, ServerChunks, s_size>>
    BY <1>1 DEF ServerHere, ServerAt, ServerChunks
  <1>3. ASSUME ServerHere
        PROVE  ServerNumbers'
    <2>1. ServerNumbers
      BY <1>3 DEF DialogueInv, KeysAndCounters
    <2>2. PICK k \in Nat, n \in Nat : k = Len(c2s') /\ n = Len(c2s) /\ k <= n
      <3>1. Len(c2s) \in Nat /\ Len(c2s') \in 0 .. Len(c2s)
        BY <1>1, Cutting, Channels DEF TypeOK
      <3> QED BY <3>1
    <2>3. \A i \in 1..k : i \in 1..n /\ c2s'[i] = c2s[i] /\ (i = n => k = n)
      <3>1. \A i \in 1..k : c2s'[i] = c2s[i]
        BY <1>1, <2>2, Cutting DEF TypeOK, ChannelsOK
      <3>2. \A i \in 1..k : i \in 1..n /\ (i = n => k = n)
        BY <2>2
      <3> QED BY <3>1, <3>2
    <2>4. /\ c2s = <<>> <=> n = 0
          /\ c2s' = <<>> <=> k = 0
      BY <2>2, Channels, EmptySeq DEF TypeOK, ChannelsOK
    <2>5. CASE s_pc \notin AuthPcs
      <3>1. ASSUME NEW i \in 1..k
            PROVE  IF c2s'[i].type = "AuthM1" THEN i = k /\ s_ctr + i = MaxCounter + 2
                   ELSE Fits(c2s'[i], s_key, s_ctr + i - 1)
        <4>1. IF c2s[i].type = "AuthM1" THEN i = n /\ s_ctr + i = MaxCounter + 2
              ELSE Fits(c2s[i], s_key, s_ctr + i - 1)
          BY <2>1, <2>2, <2>3, <2>5 DEF ServerNumbers
        <4>2. i = n => i = k
          BY <2>2, <2>3
        <4> QED BY <2>3, <4>1, <4>2
      <3> QED BY <1>1, <2>2, <2>5, <3>1 DEF ServerNumbers, AuthPcs
    <2>6. CASE s_pc \in AuthPcs
      <3>1. k # 0 => k = 1 /\ n = 1 /\ c2s'[1] = c2s[1]
        <4>1. n # 0 => n = 1
          BY <2>1, <2>2, <2>4, <2>6 DEF ServerNumbers
        <4> QED BY <2>2, <2>3, <4>1
      <3> QED BY <1>1, <2>1, <2>2, <2>4, <2>6, <3>1 DEF ServerNumbers
    <2> QED BY <2>5, <2>6
  <1>4. ASSUME ServerHere
        PROVE  ServerTakes'
    <2>1. ServerTakes
      BY <1>3, <1>4 DEF DialogueInv, Operations
    <2>2. PICK k \in Nat, n \in Nat : k = Len(Asked') /\ n = Len(Asked) /\ k <= n
      BY <1>1, AskedCut DEF Asked, TypeOK, ChannelsOK
    <2>3. \A i \in 1..k : i \in 1..n /\ Asked'[i] = Asked[i]
      BY <1>1, <2>2, AskedCut DEF Asked, TypeOK, ChannelsOK
    <2>4. \/ k = 0 \/ k = 1 \/ k > 1
      BY <2>2
    <2>5. ServerAt \in Idle => k = 0 \/ (k = 1 /\ IsRequest(Asked'[1]))
      <3>1. ServerAt \in Idle => n = 0 \/ (n = 1 /\ IsRequest(Asked[1]))
        BY <2>1, <2>2 DEF ServerTakes
      <3> QED BY <2>2, <2>3, <3>1
    <2>6. ServerAt = "delM3" /\ k > 0 =>
            /\ k <= 2 /\ Asked'[1].type = "DelM3"
            /\ k = 2 => Refuses(Asked'[1]) /\ IsRequest(Asked'[2])
      <3>1. ServerAt = "delM3" /\ n > 0 =>
              /\ n <= 2 /\ Asked[1].type = "DelM3"
              /\ n = 2 => Refuses(Asked[1]) /\ IsRequest(Asked[2])
        BY <2>1, <2>2 DEF ServerTakes
      <3>2. /\ k > 0 => n > 0 /\ Asked'[1] = Asked[1] /\ (n <= 2 => k <= 2)
            /\ k = 2 /\ n <= 2 => n = 2 /\ Asked'[2] = Asked[2]
        BY <2>2, <2>3
      <3> QED BY <3>1, <3>2
    <2>7. ServerAt \in Receiving =>
            (\A i \in 1..k : Asked'[i].type = "UpMi") /\ ServerChunks + k <= s_size
      <3>1. ServerAt \in Receiving =>
              (\A i \in 1..n : Asked[i].type = "UpMi") /\ ServerChunks + n <= s_size
        BY <2>1, <2>2 DEF ServerTakes
      <3>2. ServerChunks \in Nat /\ s_size \in Nat
        BY DEF ServerChunks, TypeOK, ServerOK
      <3> QED BY <2>2, <2>3, <3>1, <3>2
    <2>8. ServerAt \notin Idle \cup Receiving \cup {"delM3"} => k = 0
      <3>1. ServerAt \notin Idle \cup Receiving \cup {"delM3"} => n = 0
        BY <2>1, <2>2 DEF ServerTakes
      <3> QED BY <2>2, <3>1
    <2>9. ServerAt = "upM2" => s_i = 0
      BY <2>1 DEF ServerTakes
    <2>10. ServerAt \notin AuthPcs \cup Gone
      BY <2>1 DEF ServerTakes
    <2> QED BY <1>1, <1>2, <2>2, <2>5, <2>6, <2>7, <2>8, <2>9, <2>10 DEF ServerTakes
  <1> QED BY <1>1, <1>2, <1>3, <1>4 DEF DialogueInv, KeysAndCounters, Operations

\* The process of the server ends: the client takes what is left.
LEMMA ServerKilled ==
    ASSUME TypeOK, TypeOK', DialogueInv, ServerExit
    PROVE  DialogueInv'
  <1>1. /\ s_pc' = "crashed" /\ s2c' \in Prefixes(s2c) /\ ~ServerHere'
        /\ c_pc' = c_pc /\ c_ret' = c_ret /\ c_i' = c_i /\ c_size' = c_size
        /\ c_key' = c_key /\ c_ctr' = c_ctr /\ c_eph' = c_eph
    BY DEF ServerExit, client, ServerHere, Gone
  <1>2. ClientHere' = ClientHere /\ UNCHANGED <<ClientAt, ClientChunks, c_size>>
    BY <1>1 DEF ClientHere, ClientAt, ClientChunks
  <1>3. ASSUME ClientHere
        PROVE  ClientNumbers'
    <2>1. ClientNumbers
      BY <1>3 DEF DialogueInv, KeysAndCounters
    <2>2. PICK k \in Nat, n \in Nat : k = Len(s2c') /\ n = Len(s2c) /\ k <= n
      <3>1. Len(s2c) \in Nat /\ Len(s2c') \in 0 .. Len(s2c)
        BY <1>1, Cutting, Channels DEF TypeOK
      <3> QED BY <3>1
    <2>3. \A i \in 1..k : i \in 1..n /\ s2c'[i] = s2c[i]
      BY <1>1, <2>2, Cutting DEF TypeOK, ChannelsOK
    <2>4. /\ s2c = <<>> <=> n = 0
          /\ s2c' = <<>> <=> k = 0
      BY <2>2, Channels, EmptySeq DEF TypeOK, ChannelsOK
    <2>5. k # 0 => n # 0 /\ s2c'[1] = s2c[1]
      BY <2>2, <2>3
    <2>6. c_pc \notin AuthPcs => \A i \in 1..k : Fits(s2c'[i], c_key, c_ctr + i - 1)
      BY <2>1, <2>2, <2>3 DEF ClientNumbers
    <2>7. c_pc \in {"auth", "authM4"} => k = 0
      <3>1. c_pc \in {"auth", "authM4"} => n = 0
        BY <2>1, <2>4 DEF ClientNumbers
      <3> QED BY <2>2, <3>1
    <2>8. c_pc = "authM2" /\ k # 0 =>
            /\ k <= 2 /\ s2c'[1].type = "AuthM2"
            /\ k = 2 => s2c'[1].body.code = "ACK" /\ GoodM3(s2c'[2])
      <3>1. c_pc = "authM2" /\ n # 0 =>
              /\ n <= 2 /\ s2c[1].type = "AuthM2"
              /\ n = 2 => s2c[1].body.code = "ACK" /\ GoodM3(s2c[2])
        BY <2>1, <2>2, <2>4 DEF ClientNumbers
      <3>2. n <= 2 => k <= 2 /\ (k = 2 => n = 2 /\ s2c'[2] = s2c[2])
        BY <2>2, <2>3
      <3> QED BY <2>5, <3>1, <3>2
    <2>9. c_pc = "authM3" /\ k # 0 => k = 1 /\ GoodM3(s2c'[1])
      <3>1. c_pc = "authM3" /\ n # 0 => n = 1 /\ GoodM3(s2c[1])
        BY <2>1, <2>2, <2>4 DEF ClientNumbers
      <3>2. n = 1 /\ k # 0 => k = 1
        BY <2>2
      <3> QED BY <2>5, <3>1, <3>2
    <2>10. c_pc = "authM5" /\ k # 0 =>
            /\ s2c'[1].type = "AuthM5" /\ Verdict(s2c'[1], c_key, c_ctr) = "SUCCESS"
            /\ k > 1 => s2c'[1].body.code = "ACK"
            /\ \A i \in 2..k : Fits(s2c'[i], c_key, i - 2)
      <3>1. c_pc = "authM5" /\ n # 0 =>
              /\ s2c[1].type = "AuthM5" /\ Verdict(s2c[1], c_key, c_ctr) = "SUCCESS"
              /\ n > 1 => s2c[1].body.code = "ACK"
              /\ \A i \in 2..n : Fits(s2c[i], c_key, i - 2)
        BY <2>1, <2>2, <2>4 DEF ClientNumbers
      <3>2. (k > 1 => n > 1) /\ \A i \in 2..k : i \in 2..n /\ s2c'[i] = s2c[i]
        BY <2>2, <2>3
      <3> QED BY <2>5, <3>1, <3>2
    <2>11. \A m : GoodM3(m) => m.type = "AuthM3" /\ m.ctr = 0 /\ m.key = <<c_eph', m.body.n>>
      BY <1>1 DEF GoodM3
    <2>12. c_pc = "authM4" => c_ctr = 1
      BY <2>1 DEF ClientNumbers
    <2> QED BY <1>1, <2>2, <2>4, <2>6, <2>7, <2>8, <2>9, <2>10, <2>11, <2>12
            DEF ClientNumbers, GoodM3
  <1>4. ASSUME ClientHere
        PROVE  ClientTakes'
    <2>1. ClientTakes
      BY <1>4 DEF DialogueInv, Operations
    <2>2. PICK k \in Nat, n \in Nat : k = Len(Answered') /\ n = Len(Answered) /\ k <= n
      BY <1>1, AnsweredCut DEF Answered, TypeOK, ChannelsOK
    <2>3. \A i \in 1..k : i \in 1..n /\ Answered'[i] = Answered[i]
      BY <1>1, <2>2, AnsweredCut DEF Answered, TypeOK, ChannelsOK
    <2>4. k > 0 => n > 0 /\ Answered'[1] = Answered[1]
      BY <2>2, <2>3
    <2>5. ClientAt = "listM2" =>
            /\ k <= 2
            /\ k >= 1 => Answered'[1].type = "ListM2"
            /\ k = 2 => Answered'[1].body.n # 0 /\ Answered'[2].type = "ListM3"
      <3>1. ClientAt = "listM2" =>
              /\ n <= 2
              /\ n >= 1 => Answered[1].type = "ListM2"
              /\ n = 2 => Answered[1].body.n # 0 /\ Answered[2].type = "ListM3"
        BY <2>1, <2>2 DEF ClientTakes
      <3>2. n <= 2 => k <= 2 /\ (k >= 1 => n >= 1 /\ Answered'[1] = Answered[1])
                             /\ (k = 2 => n = 2 /\ Answered'[2] = Answered[2])
        BY <2>2, <2>3
      <3> QED BY <2>2, <3>1, <3>2
    <2>6. ClientAt = "downM2" /\ k > 0 =>
            /\ Answered'[1].type = "DownM2" /\ k - 1 <= Answered'[1].body.n
            /\ k > 1 => Answered'[1].body.code # "FILE_NOT_FOUND"
            /\ \A i \in 2..k : Answered'[i].type = "DownMi"
      <3>1. ClientAt = "downM2" /\ n > 0 =>
              /\ Answered[1].type = "DownM2" /\ n - 1 <= Answered[1].body.n
              /\ n > 1 => Answered[1].body.code # "FILE_NOT_FOUND"
              /\ \A i \in 2..n : Answered[i].type = "DownMi"
        BY <2>1, <2>2 DEF ClientTakes
      <3>2. k > 0 => Answered[1].body.n \in Nat
        <4>1. Answered \in Seq(Message)
          BY Channels DEF TypeOK
        <4>2. k > 0 => Answered[1] \in Message
          BY <2>2, <4>1, ElementOfSeq
        <4> QED BY <4>2 DEF Message, Body
      <3>3. (k > 1 => n > 1) /\ \A i \in 2..k : i \in 2..n /\ Answered'[i] = Answered[i]
        BY <2>2, <2>3
      <3> QED BY <2>2, <2>4, <3>1, <3>2, <3>3
    <2>7. ClientAt \in Downloading =>
            (\A i \in 1..k : Answered'[i].type = "DownMi") /\ ClientChunks + k <= c_size
      <3>1. ClientAt \in Downloading =>
              (\A i \in 1..n : Answered[i].type = "DownMi") /\ ClientChunks + n <= c_size
        BY <2>1, <2>2 DEF ClientTakes
      <3>2. ClientChunks \in Nat /\ c_size \in Nat
        BY DEF ClientChunks, TypeOK, ClientOK
      <3> QED BY <2>2, <2>3, <3>1, <3>2
    <2>8. ClientAt \in SingleWaits =>
            k = 0 \/ (k = 1 /\ Answered'[1].type = Expected(ClientAt))
      <3>1. ClientAt \in SingleWaits =>
              n = 0 \/ (n = 1 /\ Answered[1].type = Expected(ClientAt))
        BY <2>1, <2>2 DEF ClientTakes
      <3>2. n = 1 => k = 0 \/ k = 1
        BY <2>2
      <3>3. n = 0 => k = 0
        BY <2>2
      <3> QED BY <2>4, <3>1, <3>2, <3>3
    <2>9. ClientAt \in {"menu", "upMi", "delAsk"} => k = 0
      <3>1. ClientAt \in {"menu", "upMi", "delAsk"} => n = 0
        BY <2>1, <2>2 DEF ClientTakes
      <3> QED BY <2>2, <3>1
    <2>10. ClientAt \in {"listM2", "downM2", "menu", "upMi", "delAsk"} \cup Downloading
                        \cup SingleWaits
      BY <2>1 DEF ClientTakes
    <2> QED BY <1>1, <1>2, <2>2, <2>5, <2>6, <2>7, <2>8, <2>9, <2>10 DEF ClientTakes
  <1> QED BY <1>1, <1>2, <1>3, <1>4 DEF DialogueInv, KeysAndCounters, Operations

\* The client ends, or leaves a server that is not there any more.
LEMMA ClientLeaves ==
    ASSUME DialogueInv, c_pc' \in Gone, UNCHANGED <<server, c2s>>, ~ServerHere
    PROVE  DialogueInv'
  BY DEF DialogueInv, KeysAndCounters, Operations, ClientHere, ServerHere, server

\* One side finds out that the other is gone.
LEMMA EndsSeen ==
    ASSUME TypeOK, TypeOK', DialogueInv,
           ClientEof \/ ClientSigpipe \/ ServerEof \/ ServerSigpipe
    PROVE  DialogueInv'
  <1>1. CASE ClientEof
    <2>1. /\ s_pc = "crashed" /\ s2c = <<>> /\ s2c' = <<>> /\ c_pc \in ClientReceives
          /\ UNCHANGED <<server, c2s>>
      BY <1>1 DEF ClientEof
    <2>2. ~ServerHere /\ ~ServerHere'
      BY <2>1 DEF ServerHere, Gone, server
    <2>3. CASE c_pc' = "left"
      BY <2>1, <2>2, <2>3, ClientLeaves DEF Gone
    <2>4. CASE c_pc' # "left"
      <3>1. c_pc' = "menu" /\ ClientAt' = "menu"
        BY <1>1, <2>4 DEF ClientEof, ClientReturn, ClientAt, AuthPcs
      <3>2. Len(s2c') = 0 /\ Len(Answered') = 0
        BY <2>1, EmptySeq DEF Answered, AnsweredIn
      <3>3. ClientNumbers'
        BY <3>1, <3>2 DEF ClientNumbers
      <3>4. ClientTakes'
        BY <3>1, <3>2 DEF ClientTakes, Downloading, SingleWaits
      <3> QED BY <2>2, <3>1, <3>3, <3>4 DEF DialogueInv, KeysAndCounters, Operations
    <2> QED BY <2>3, <2>4
  <1>2. CASE ClientSigpipe
    BY <1>2, ClientLeaves DEF ClientSigpipe, ServerHere, Gone
  <1>3. CASE ServerEof
    <2>1. /\ c_pc = "exit" /\ c2s = <<>> /\ c2s' = <<>> /\ s_pc \in ServerReceives
          /\ UNCHANGED <<client, s2c>> /\ s_ret' = s_ret
          /\ s_pc' = IF s_pc \in {"upMi", "delM3"} THEN "run" ELSE "done"
      BY <1>3 DEF ServerEof, ServerLeave
    <2>2. ~ClientHere' /\ c_pc' # "left"
      BY <2>1 DEF ClientHere, Gone, client
    <2>3. CASE s_pc' = "done"
      BY <2>1, <2>3, ServerLeaves DEF Gone
    <2>4. CASE s_pc' = "run"
      <3>1. ServerAt' = "run"
        BY <2>4 DEF ServerAt, AuthPcs
      <3>2. Len(c2s') = 0 /\ Len(Asked') = 0
        BY <2>1, EmptySeq DEF Asked, AskedIn
      <3>3. ServerNumbers'
        BY <2>4, <3>2 DEF ServerNumbers, AuthPcs
      <3>4. ServerTakes'
        BY <3>1, <3>2 DEF ServerTakes, Idle, Receiving, AuthPcs, Gone
      <3> QED BY <2>2, <3>3, <3>4 DEF DialogueInv, KeysAndCounters, Operations
    <2> QED BY <2>1, <2>3, <2>4
  <1>4. CASE ServerSigpipe
    BY <1>4, ServerLeaves DEF ServerSigpipe, ServerLeave, Gone
  <1> QED BY <1>1, <1>2, <1>3, <1>4

-----------------------------------------------------------------------------
(* The theorems.                                                            *)

\* At the start the client is about to ask for the first session key.
THEOREM DialogueInit == Init => DialogueInv
  <1> SUFFICES ASSUME Init PROVE DialogueInv
    OBVIOUS
  <1>1. /\ c_pc = "auth" /\ s_pc = "authM1" /\ c2s = <<>> /\ s2c = <<>> /\ c_key = s_key
        /\ c_ret = "menu" /\ s_ret = "run"
    BY DEF Init
  <1>2. ClientHere /\ ServerHere /\ ClientAt = "menu" /\ ServerAt = "run" /\ c_pc # "left"
    BY <1>1 DEF ClientHere, ServerHere, ClientAt, ServerAt, AuthPcs, Gone
  <1>3. Asked = <<>> /\ Answered = <<>> /\ Len(Asked) = 0 /\ Len(Answered) = 0
    BY <1>1, EmptySeq DEF Asked, AskedIn, Answered, AnsweredIn
  <1>4. ClientNumbers /\ ServerNumbers /\ InHandshake
    BY <1>1 DEF ClientNumbers, ServerNumbers, InHandshake, AuthPcs
  <1>5. ClientTakes /\ ServerTakes
    BY <1>2, <1>3 DEF ClientTakes, ServerTakes, Downloading, SingleWaits, Idle, Receiving,
       AuthPcs, Gone
  <1>6. InOperation
    BY <1>2, <1>3 DEF InOperation, AtMenu, Idle
  <1> QED BY <1>2, <1>4, <1>5, <1>6 DEF DialogueInv, KeysAndCounters, Operations

\* Every step of the client, of the server thread and of their environment keeps the two in
\* one dialogue.
THEOREM DialogueStep == TypeOK /\ TypeOK' /\ DialogueInv /\ [Next]_vars => DialogueInv'
  <1> SUFFICES ASSUME TypeOK, TypeOK', DialogueInv, [Next]_vars PROVE DialogueInv'
    OBVIOUS
  <1>1. CASE UserStep
    BY <1>1, UserDialogue
  <1>2. CASE ClientStep
    <2>1. CASE ClientAuthM1 \/ ClientAuthM2 \/ ClientAuthM3 \/ ClientAuthM4 \/ ClientAuthM5
      BY <2>1, HandshakeAsked, HandshakeAnswered, HandshakeSigned, HandshakeDone
    <2>2. CASE ClientListM2 \/ ClientListM3
      BY <2>2, ListReplies
    <2>3. CASE ClientDownM2 \/ ClientDownOpen \/ ClientDownMi \/ ClientDownWrite
      BY <2>3, DownReplies, DownSteps
    <2>4. CASE ClientUpM2 \/ ClientUpMi \/ ClientUpEnd
      BY <2>4, UpReplies, UpChunks
    <2>5. CASE ClientRenM2 \/ ClientDelM2 \/ ClientDelAsk \/ ClientDelM4
      BY <2>5, FileReplies, DeleteAnswer
    <2>6. CASE ClientOutM2
      BY <2>6, LogoutReply
    <2>7. CASE ClientEof \/ ClientSigpipe
      BY <2>7, EndsSeen
    <2> QED BY <1>2, <2>1, <2>2, <2>3, <2>4, <2>5, <2>6, <2>7 DEF ClientStep
  <1>3. CASE ServerStep
    <2>1. CASE ServerUnknownUser
      BY <2>1, ServerLeaves DEF ServerUnknownUser, ServerLeave, Gone
    <2>2. CASE ServerAuthM1 \/ ServerAuthM2 \/ ServerAuthM3 \/ ServerAuthM4 \/ ServerAuthM5
      BY <2>2, HandshakeTaken, HandshakeKnown, HandshakeKey, HandshakeChecked, HandshakeEnds
    <2>3. CASE ServerRun
      BY <2>3, RunDialogue
    <2>4. CASE ServerListSilent \/ ServerListM2 \/ ServerListM3
      BY <2>4, ListAnswers, QuietHandlers
    <2>5. CASE ServerDownM2 \/ ServerDownMi
      BY <2>5, DownAnswer, DownChunks
    <2>6. CASE \/ ServerUpM2 \/ ServerUpLook \/ ServerUpCreate \/ ServerUpMi
               \/ ServerUpWrite \/ ServerUpEnd
               \/ ServerUpClose
      BY <2>6, UpAnswers, UpChunkTaken, QuietHandlers
    <2>7. CASE ServerRenM2 \/ ServerDelM2 \/ ServerDelM3 \/ ServerDelSilent \/ ServerDelM4
      BY <2>7, FileAnswers, DeleteAnswerTaken, QuietHandlers
    <2>8. CASE ServerOutM2
      BY <2>8, LogoutAnswer
    <2>9. CASE ServerEof \/ ServerSigpipe
      BY <2>9, EndsSeen
    <2> QED BY <1>3, <2>1, <2>2, <2>3, <2>4, <2>5, <2>6, <2>7, <2>8, <2>9 DEF ServerStep
  <1>4. CASE ClientExit
    BY <1>4, ClientKilled
  <1>5. CASE ServerExit
    BY <1>5, ServerKilled
  <1>6. CASE OtherSession
    BY <1>6, Unseen DEF OtherSession, client, sAuth, sOp
  <1>7. CASE UNCHANGED vars
    BY <1>7, Unseen DEF vars, client, server
  <1> QED BY <1>1, <1>2, <1>3, <1>4, <1>5, <1>6, <1>7 DEF Next

\* Whatever the programs do and whatever happens to them, they stay in one dialogue.
THEOREM DialogueKept == Spec => []DialogueInv
  <1>1. TypeOK /\ [Next]_vars => TypeOK'
    BY TypeStep
  <1> QED BY TypeInit, DialogueInit, DialogueStep, <1>1, PTL DEF Spec

\* What the client is about to take is of the type it expects.
LEMMA ClientAccepts ==
    ASSUME TypeOK, DialogueInv, c_pc \in ClientReceives, s2c # <<>>
    PROVE  /\ Head(s2c).type = Expected(c_pc)
           /\ c_pc \notin {"authM2", "authM3"} => Verdict(Head(s2c), c_key, c_ctr) = "SUCCESS"
           /\ c_pc = "authM3" => Head(s2c).ctr = 0 /\ Head(s2c).key = <<c_eph, Head(s2c).body.n>>
  <1>1. ClientHere
    BY DEF ClientHere, ClientReceives, Gone
  <1>2. ClientNumbers /\ ClientTakes
    BY <1>1 DEF DialogueInv, KeysAndCounters, Operations
  <1>3. Head(s2c) = s2c[1]
    BY Taking DEF TypeOK, ChannelsOK
  <1>4. CASE c_pc \in AuthPcs
    <2>1. c_pc \in {"authM2", "authM3", "authM5"}
      BY <1>4 DEF ClientReceives, AuthPcs
    <2> QED BY <1>2, <1>3, <2>1 DEF ClientNumbers, GoodM3, Expected
  <1>5. CASE c_pc \notin AuthPcs
    <2>1. /\ Verdict(Head(s2c), c_key, c_ctr) = "SUCCESS" /\ Head(s2c) = Answered[1]
          /\ Answered = s2c
      BY <1>2, <1>5, ClientReads
    <2>2. PICK n \in Nat : n = Len(Answered) /\ n # 0
      BY <2>1, Channels DEF TypeOK
    <2>3. n > 0 /\ n >= 1 /\ 1 \in 1..n
      BY <2>2
    <2>4. ClientAt = c_pc
      BY <1>5 DEF ClientAt
    <2>5. c_pc = "listM2" => Answered[1].type = "ListM2"
      BY <1>2, <2>2, <2>3, <2>4 DEF ClientTakes
    <2>6. c_pc = "downM2" => Answered[1].type = "DownM2"
      BY <1>2, <2>2, <2>3, <2>4 DEF ClientTakes
    <2>7. c_pc = "downMi" => Answered[1].type = "DownMi"
      BY <1>2, <2>2, <2>3, <2>4 DEF ClientTakes, Downloading
    <2>8. c_pc \in SingleWaits => Answered[1].type = Expected(c_pc)
      BY <1>2, <2>2, <2>3, <2>4 DEF ClientTakes
    <2>9. c_pc \in {"listM2", "downM2", "downMi"} \cup SingleWaits
      BY <1>5 DEF ClientReceives, AuthPcs, SingleWaits
    <2>10. Head(s2c).type = Expected(c_pc)
      <3>1. /\ Expected("listM2") = "ListM2" /\ Expected("downM2") = "DownM2"
            /\ Expected("downMi") = "DownMi"
        BY DEF Expected
      <3> QED BY <2>1, <2>5, <2>6, <2>7, <2>8, <2>9, <3>1
    <2> QED BY <1>5, <2>1, <2>10 DEF AuthPcs
  <1> QED BY <1>4, <1>5

\* Whatever the programs do and whatever happens to them, neither rejects or misreads a
\* message of the other: each message they take has the type they expect there, their own
\* session key and the value of their own counter.
THEOREM NoneRejected == Spec => []NothingRejected
  <1>1. TypeOK /\ DialogueInv => NothingRejected
    <2> SUFFICES ASSUME TypeOK, DialogueInv PROVE NothingRejected
      OBVIOUS
    <2>1. ASSUME s_pc \in {"authM1", "authM4"}, c2s # <<>>
          PROVE  /\ Head(c2s).type = Expected(s_pc)
                 /\ s_pc # "authM1" => Verdict(Head(c2s), s_key, s_ctr) = "SUCCESS"
      <3>1. ServerNumbers
        BY <2>1 DEF DialogueInv, KeysAndCounters, ServerHere, Gone
      <3>2. Head(c2s) = c2s[1]
        BY <2>1, Taking DEF TypeOK, ChannelsOK
      <3> QED BY <2>1, <3>1, <3>2 DEF ServerNumbers, AuthPcs, Expected
    <2>2. s_pc \in ServerReceives => s_pc \in {"authM1", "authM4"} \cup {"run", "upMi", "delM3"}
      BY DEF ServerReceives
    <2>3. ASSUME s_pc \in {"run", "upMi", "delM3"}, c2s # <<>>
          PROVE  /\ IF s_pc = "run" THEN Head(c2s).type \in DOMAIN Handler
                    ELSE Head(c2s).type = Expected(s_pc)
                 /\ Verdict(Head(c2s), s_key, s_ctr) = "SUCCESS"
      BY <2>3, ServerAccepts DEF Expected
    <2> QED BY <2>1, <2>2, <2>3, ClientAccepts DEF NothingRejected
  <1> QED BY <1>1, TypeCorrect, DialogueKept, PTL

\* While both are past authentication they hold the same key, and their counters differ by
\* the messages under way.
THEOREM CountersInStep == Spec => []InStep
  <1>1. DialogueInv => InStep
    <2> SUFFICES ASSUME DialogueInv, c_pc \notin AuthPcs \cup Gone \cup {"outM2"},
                        s_pc \notin AuthPcs \cup Gone
                 PROVE  c_key = s_key /\ c_ctr + Len(s2c) = s_ctr + Len(c2s)
      BY DEF InStep
    <2>1. InHandshake
      BY DEF DialogueInv, KeysAndCounters, ClientHere, ServerHere
    <2> QED BY <2>1 DEF InHandshake, LoggedOut, Agree, ClientAt, AuthPcs
  <1> QED BY <1>1, DialogueKept, PTL

=============================================================================

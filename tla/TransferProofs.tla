--------------------------- MODULE TransferProofs ---------------------------
(***************************************************************************)
(* What FileManager::initFileInfo computes, for every chunk size and every  *)
(* size of a file.                                                          *)
(***************************************************************************)
EXTENDS Transfer, SequenceTheorems, TLAPS

\* Division with remainder, for the divisor of this module.
LEMMA Division ==
    ASSUME NEW n \in Nat
    PROVE  /\ n \div ChunkSize \in Nat /\ n % ChunkSize \in 0 .. ChunkSize - 1
           /\ n = ChunkSize * (n \div ChunkSize) + (n % ChunkSize)
BY ChunkAssumption

\* The chunks of initFileInfo add up to the file: all but the last are full, the last is
\* neither empty nor longer than CHUNK_SIZE, so both loops neither skip a byte nor read
\* beyond the end of the file.
THEOREM ChunksAddUp ==
    ASSUME NEW n \in Nat \ {0}
    PROVE  /\ ChunksNum(n) \in Nat \ {0}
           /\ LastChunkSize(n) \in 1..ChunkSize
           /\ ChunkSize * (ChunksNum(n) - 1) + LastChunkSize(n) = n
<1>1. ChunkSize \in Nat \ {0} /\ n \in Nat
      BY ChunkAssumption
<1>2. PICK q \in Nat, r \in 0 .. ChunkSize - 1 :
           q = n \div ChunkSize /\ r = n % ChunkSize /\ n = ChunkSize * q + r
      BY <1>1, Division
<1>3. CASE r = 0
      <2>1. ChunksNum(n) = q /\ LastChunkSize(n) = ChunkSize
            BY <1>2, <1>3 DEF ChunksNum, LastChunkSize
      <2>2. q # 0
            BY <1>1, <1>2, <1>3
      <2>3. ChunkSize * (q - 1) + ChunkSize = ChunkSize * q
            BY <1>1
      <2> QED BY <1>1, <1>2, <1>3, <2>1, <2>2, <2>3
<1>4. CASE r # 0
      <2>1. ChunksNum(n) = q + 1 /\ LastChunkSize(n) = r
            BY <1>2, <1>4 DEF ChunksNum, LastChunkSize
      <2>2. (q + 1) - 1 = q /\ q + 1 \in Nat \ {0} /\ r \in 1..ChunkSize
            BY <1>1, <1>2, <1>4
      <2>3. ChunkSize * (ChunksNum(n) - 1) + LastChunkSize(n) = n
            BY <1>2, <2>1, <2>2
      <2> QED BY <2>1, <2>2, <2>3
<1> QED BY <1>3, <1>4

\* An empty file has no chunk, so nothing follows the answer to its download.
LEMMA NothingToSend == ChunksNum(0) = 0
BY ChunkAssumption DEF ChunksNum

\* What a chunk measures: full but for the last, and within the file.
LEMMA ChunkLengths ==
    ASSUME NEW n \in Nat, NEW i \in 0 .. ChunksNum(n) - 1
    PROVE  /\ ChunksNum(n) \in Nat /\ ChunkLen(n, i) \in 1..ChunkSize
           /\ i # ChunksNum(n) - 1 => ChunkLen(n, i) = ChunkSize /\ ChunkSize * (i + 1) < n
           /\ i = ChunksNum(n) - 1 => ChunkSize * i + ChunkLen(n, i) = n
<1>1. n # 0
      BY NothingToSend
<1>2. /\ ChunksNum(n) \in Nat \ {0} /\ LastChunkSize(n) \in 1..ChunkSize
      /\ ChunkSize * (ChunksNum(n) - 1) + LastChunkSize(n) = n
      BY <1>1, ChunksAddUp
<1>3. CASE i = ChunksNum(n) - 1
      BY <1>2, <1>3, ChunkAssumption DEF ChunkLen
<1>4. CASE i # ChunksNum(n) - 1
      <2>1. i + 1 <= ChunksNum(n) - 1 /\ ChunkLen(n, i) = ChunkSize
            BY <1>2, <1>4 DEF ChunkLen
      <2>2. ChunkSize * (i + 1) <= ChunkSize * (ChunksNum(n) - 1)
            BY <1>2, <2>1, ChunkAssumption
      <2>3. ChunkSize * (i + 1) \in Nat /\ ChunkSize * (ChunksNum(n) - 1) \in Nat
            BY <1>2, <2>1, ChunkAssumption
      <2> QED BY <1>2, <1>4, <2>1, <2>2, <2>3, ChunkAssumption
<1> QED BY <1>3, <1>4

\* Only an empty file has no chunk.
LEMMA SomeChunks ==
    ASSUME NEW n \in Nat
    PROVE  ChunksNum(n) \in Nat /\ (ChunksNum(n) = 0 <=> n = 0)
BY ChunksAddUp, NothingToSend

-----------------------------------------------------------------------------
(* The copy and the types.                                                  *)

Byte == [msg : Nat, at : Nat, of : Nat]

\* How much has been written when the next chunk is r_i.
CopyLen == IF r_i = ChunksNum(told) THEN told ELSE ChunkSize * r_i

\* What the two sides have told each other, and that the copy is a part of the original.
CopyInv ==
    /\ op \in {"upload", "download"} /\ size \in FileSizes
    /\ s_pc \in {"start", "chunks", "end", "run", "menu"} /\ s_i \in 0..ChunksNum(size)
    /\ s_res \in {"none", "SUCCESS", "WRONG_FILE_SIZE", "WRONG_COUNTER"}
    /\ told \in 0 .. Width - 1
    /\ r_pc \in {"start", "chunks", "run", "menu", "failed", "done"}
    /\ r_i \in 0..ChunksNum(told) /\ copy = [j \in 1..CopyLen |-> j]
    /\ bytes \in Seq(Byte) /\ back \in {<<>>, <<r_i>>}
    /\ s_pc = "start" => r_pc = "start"
    /\ s_pc = "end" => op = "upload" /\ s_i = ChunksNum(size)
    /\ r_pc = "start" => /\ s_pc \in {"start", "menu"} /\ told = 0 /\ r_i = 0 /\ s_i = 0
                         /\ bytes = <<>>
    /\ r_pc # "start" => /\ told = Announced(op, size)
                         /\ op = "upload" => size # 0 /\ size <= MaxFileSize
    /\ r_pc = "menu" => op = "download" /\ r_i = ChunksNum(told)
    /\ back # <<>> => op = "upload" /\ r_pc \in {"run", "done"} /\ r_i = ChunksNum(told)
    /\ s_res = "SUCCESS" => /\ op = "upload" /\ r_pc \in {"run", "done"}
                            /\ r_i = ChunksNum(told) /\ r_i = ChunksNum(size)

\* All these are numbers, and no more is written than was told.
LEMMA Numbers ==
    ASSUME CopyInv
    PROVE  /\ size \in Nat /\ told \in Nat /\ s_i \in Nat /\ r_i \in Nat
           /\ ChunksNum(size) \in Nat /\ ChunksNum(told) \in Nat /\ Width \in Nat \ {0}
           /\ MaxFileSize \in Nat /\ MaxFileSize < Width
           /\ CopyLen \in Nat /\ CopyLen <= told
<1>1. /\ size \in Nat /\ told \in Nat /\ Width \in Nat \ {0} /\ MaxFileSize \in Nat
      /\ MaxFileSize < Width
      BY SizesAssumption, LimitAssumption DEF CopyInv
<1>2. ChunksNum(size) \in Nat /\ ChunksNum(told) \in Nat
      BY <1>1, SomeChunks
<1>3. s_i \in Nat /\ r_i \in Nat
      BY <1>2 DEF CopyInv
<1>4. CASE r_i = ChunksNum(told)
      BY <1>1, <1>2, <1>3, <1>4 DEF CopyLen
<1>5. CASE r_i # ChunksNum(told)
      <2>1. r_i \in 0 .. ChunksNum(told) - 1
            BY <1>2, <1>3, <1>5 DEF CopyInv
      <2>2. ChunkSize * r_i \in Nat
            BY <1>3, ChunkAssumption
      <2>3. ChunkSize * r_i <= told
            <3>1. /\ ChunkLen(told, r_i) \in 1..ChunkSize
                  /\ \/ ChunkSize * (r_i + 1) < told
                     \/ ChunkSize * r_i + ChunkLen(told, r_i) = told
                  BY <1>1, <2>1, ChunkLengths
            <3>2. ChunkSize * (r_i + 1) = ChunkSize * r_i + ChunkSize
                  BY <1>3, ChunkAssumption
            <3> QED BY <1>1, <2>2, <3>1, <3>2, ChunkAssumption
      <2> QED BY <1>1, <1>2, <1>3, <1>5, <2>2, <2>3 DEF CopyLen
<1> QED BY <1>1, <1>2, <1>3, <1>4, <1>5

\* The message of a chunk is made of bytes.
LEMMA BytesType ==
    ASSUME NEW msg \in Nat, NEW n \in Nat
    PROVE  Bytes(msg, n) \in Seq(Byte) /\ Len(Bytes(msg, n)) = n
BY DEF Bytes, Byte

\* What is left of a sequence without its first n elements.
LEMMA Cut ==
    ASSUME NEW S, NEW s \in Seq(S), NEW n \in 0..Len(s)
    PROVE  /\ SubSeq(s, n + 1, Len(s)) \in Seq(S) /\ Len(SubSeq(s, n + 1, Len(s))) = Len(s) - n
           /\ \A j \in 1 .. Len(s) - n : SubSeq(s, n + 1, Len(s))[j] = s[n + j]
<1>1. Len(s) \in Nat /\ n \in Nat /\ \A i \in n + 1 .. Len(s) : s[i] \in S
      OBVIOUS
<1>2. /\ SubSeq(s, n + 1, Len(s)) \in Seq(S)
      /\ Len(SubSeq(s, n + 1, Len(s))) = IF n + 1 <= Len(s) THEN Len(s) - (n + 1) + 1 ELSE 0
      /\ \A i \in 1 .. Len(s) - (n + 1) + 1 : SubSeq(s, n + 1, Len(s))[i] = s[(n + 1) + i - 1]
      BY <1>1, SubSeqProperties
<1> QED BY <1>1, <1>2

\* It holds at the start.
LEMMA CopyInit == Init => CopyInv
<1> SUFFICES ASSUME Init PROVE CopyInv
    OBVIOUS
<1>1. ChunksNum(0) = 0 /\ ChunksNum(size) \in Nat /\ Width \in Nat \ {0}
      BY NothingToSend, SomeChunks, SizesAssumption, LimitAssumption DEF Init
<1>2. CopyLen = 0 /\ copy = [j \in 1..0 |-> j]
      BY <1>1 DEF Init, CopyLen
<1> QED BY <1>1, <1>2 DEF Init, CopyInv

\* Every step keeps it.
LEMMA CopyStep == CopyInv /\ [Next]_vars => CopyInv'
<1> SUFFICES ASSUME CopyInv, [Next]_vars PROVE CopyInv'
    OBVIOUS
<1>0. /\ size \in Nat /\ told \in Nat /\ s_i \in Nat /\ r_i \in Nat
      /\ ChunksNum(size) \in Nat /\ ChunksNum(told) \in Nat /\ Width \in Nat \ {0}
      /\ MaxFileSize \in Nat /\ MaxFileSize < Width /\ CopyLen \in Nat
      BY Numbers
<1>1. CASE Refuse
      BY <1>1 DEF Refuse, CopyInv, CopyLen
<1>2. CASE Start
      <2>1. told' = Announced(op, size) /\ told' \in 0 .. Width - 1
            BY <1>0, <1>2 DEF Start, Announced, CopyInv
      <2>2. r_i = 0 /\ told = 0 /\ copy = <<>> /\ bytes = <<>> /\ back = <<>> /\ s_res # "SUCCESS"
            BY <1>0, <1>2, NothingToSend DEF Start, CopyInv, CopyLen
      <2>3. ChunksNum(told') \in Nat /\ (ChunksNum(told') = 0 <=> told' = 0)
            BY <2>1, SomeChunks
      <2>4. CopyLen' = 0
            <3>1. told' \in Nat /\ r_i' = 0 /\ ChunkSize * 0 = 0
                  BY <1>2, <2>1, <2>2, ChunkAssumption, LimitAssumption DEF Start
            <3> QED BY <2>3, <3>1 DEF CopyLen
      <2> QED BY <1>0, <1>2, <2>1, <2>2, <2>3, <2>4 DEF Start, CopyInv
<1>3. CASE SendChunk
      <2>1. ChunkLen(size, s_i) \in Nat
            BY <1>0, <1>3, ChunkLengths DEF SendChunk
      <2>2. Bytes(s_i, Overhead + ChunkLen(size, s_i)) \in Seq(Byte)
            BY <1>0, <2>1, BytesType, WireAssumption
      <2>3. bytes' \in Seq(Byte)
            BY <1>3, <2>2 DEF SendChunk, CopyInv
      <2> QED BY <1>0, <1>3, <2>3 DEF SendChunk, CopyInv, CopyLen
<1>4. CASE SenderEnds
      BY <1>4 DEF SenderEnds, CopyInv, CopyLen
<1>5. CASE ReceiveChunk
      <2> DEFINE len == ChunkLen(told, r_i)
      <2>1. /\ r_i \in 0 .. ChunksNum(told) - 1 /\ len \in 1..ChunkSize
            /\ r_i # ChunksNum(told) - 1 => len = ChunkSize
            /\ r_i = ChunksNum(told) - 1 => ChunkSize * r_i + len = told
            BY <1>0, <1>5, ChunkLengths DEF ReceiveChunk, Expects
      <2>2. bytes' \in Seq(Byte)
            <3>1. Overhead + len \in 0..Len(bytes) /\ bytes \in Seq(Byte)
                  BY <1>5, <2>1, WireAssumption, ChunkAssumption DEF ReceiveChunk, CopyInv
            <3>2. bytes' = SubSeq(bytes, (Overhead + len) + 1, Len(bytes))
                  BY <1>5 DEF ReceiveChunk
            <3> HIDE DEF len
            <3> QED BY <3>1, <3>2, Cut
      <2>3. back = <<>> /\ r_pc = "chunks" /\ s_res # "SUCCESS"
            BY <1>5 DEF ReceiveChunk, CopyInv
      <2>4. CASE Whole(Overhead + len, r_i)
            <3>1. /\ copy' = copy \o [j \in 1..len |-> r_i * ChunkSize + j]
                  /\ r_i' = r_i + 1 /\ UNCHANGED <<r_pc, told>>
                  BY <1>5, <2>4 DEF ReceiveChunk
            <3>2. /\ CopyLen = ChunkSize * r_i /\ ChunkSize * r_i \in Nat
                  /\ r_i * ChunkSize = ChunkSize * r_i
                  BY <1>0, <2>1, ChunkAssumption DEF CopyLen
            <3>3. CopyLen' = ChunkSize * r_i + len
                  <4>1. ChunkSize * (r_i + 1) = ChunkSize * r_i + ChunkSize
                        BY <1>0, ChunkAssumption
                  <4> QED BY <1>0, <2>1, <3>1, <4>1, SMTT(30) DEF CopyLen
            <3>4. copy = [j \in 1 .. ChunkSize * r_i |-> j]
                  BY <3>2 DEF CopyInv
            <3> DEFINE k == ChunkSize * r_i
            <3> HIDE DEF k, len
            <3>5. copy' = [j \in 1 .. k + len |-> j]
                  <4>1. k \in Nat /\ len \in Nat
                        BY <2>1, <3>2, ChunkAssumption DEF k
                  <4>2. /\ copy \in Seq(Nat) /\ Len(copy) = k /\ \A j \in 1..k : copy[j] = j
                        BY <3>4, <4>1 DEF k
                  <4> DEFINE rest == [j \in 1..len |-> k + j]
                  <4>3. rest \in Seq(Nat) /\ Len(rest) = len /\ \A j \in 1..len : rest[j] = k + j
                        BY <4>1
                  <4>4. copy' = copy \o rest
                        BY <3>1, <3>2 DEF k
                  <4> HIDE DEF rest
                  <4>5. /\ copy' \in Seq(Nat) /\ Len(copy') = k + len
                        /\ \A j \in 1 .. k + len : copy'[j] = j
                        <5>1. /\ copy' \in Seq(Nat) /\ Len(copy') = Len(copy) + Len(rest)
                              /\ \A i \in 1 .. Len(copy) + Len(rest) : copy'[i] =
                                   IF i <= Len(copy) THEN copy[i] ELSE rest[i - Len(copy)]
                              BY <4>2, <4>3, <4>4, ConcatProperties
                        <5> QED BY <4>1, <4>2, <4>3, <5>1
                  <4> QED BY <4>1, <4>5
            <3>6. copy' = [j \in 1..CopyLen' |-> j]
                  BY <3>3, <3>5 DEF k
            <3>7. r_i' \in 0..ChunksNum(told')
                  BY <1>0, <2>1, <3>1
            <3>8. UNCHANGED <<op, size, s_pc, s_i, s_res, told, r_pc, back>>
                  BY <1>5, <3>1 DEF ReceiveChunk
            <3> QED BY <2>2, <2>3, <3>6, <3>7, <3>8 DEF CopyInv
      <2>5. CASE ~Whole(Overhead + len, r_i)
            BY <1>5, <2>2, <2>3, <2>5 DEF ReceiveChunk, CopyInv, CopyLen
      <2> QED BY <2>4, <2>5
<1>6. CASE ReceiverEnds
      BY <1>0, <1>6 DEF ReceiverEnds, Expects, CopyInv, CopyLen
<1>7. CASE RunRejects
      <2>1. bytes' \in Seq(Byte)
            <3>1. PacketSize \in 0..Len(bytes) /\ bytes \in Seq(Byte)
                  BY <1>7, WireAssumption DEF RunRejects, CopyInv
            <3> QED BY <1>7, <3>1, Cut DEF RunRejects
      <2> QED BY <1>7, <2>1 DEF RunRejects, CopyInv, CopyLen
<1>8. CASE UploadEnds
      <2>1. back = <<r_i>> /\ Tail(back) = <<>> /\ Head(back) = r_i
            <3>1. back = <<r_i>>
                  BY <1>8 DEF UploadEnds, CopyInv
            <3> QED BY <3>1
      <2> QED BY <1>8, <2>1 DEF UploadEnds, CopyInv, CopyLen
<1>9. CASE UNCHANGED vars
      BY <1>9 DEF vars, CopyInv, CopyLen
<1> QED BY <1>1, <1>2, <1>3, <1>4, <1>5, <1>6, <1>7, <1>8, <1>9 DEF Next, Sender, Receiver

\* The receiver never writes or counts more than it was told, whatever it was told and
\* whatever comes, and every other variable keeps its range.
THEOREM TypeCorrect == Spec => []TypeOK
<1>1. CopyInv => TypeOK
      <2> SUFFICES ASSUME CopyInv PROVE TypeOK
          OBVIOUS
      <2>1. CopyLen \in Nat /\ CopyLen <= told /\ r_i \in Nat /\ told \in Nat
            BY Numbers
      <2>2. copy \in Seq(1..told)
            BY <2>1 DEF CopyInv
      <2>3. back \in Seq(0..r_i)
            <3>1. back = <<>> \/ back = <<r_i>>
                  BY DEF CopyInv
            <3>2. r_i \in 0..r_i
                  BY <2>1
            <3>3. \A S : <<>> \in Seq(S) /\ (\A e \in S : <<e>> \in Seq(S))
                  OBVIOUS
            <3> QED BY <3>1, <3>2, <3>3
      <2>4. \A b \in 1..Len(bytes) : bytes[b] \in [msg : Nat, at : Nat, of : Nat]
            <3>1. bytes \in Seq(Byte)
                  BY DEF CopyInv
            <3>2. \A b \in 1..Len(bytes) : bytes[b] \in Byte
                  BY <3>1
            <3> QED BY <3>2 DEF Byte
      <2> QED BY <2>2, <2>3, <2>4 DEF CopyInv, TypeOK
<1> QED BY <1>1, CopyInit, CopyStep, PTL DEF Spec

-----------------------------------------------------------------------------
(* The stream between the two loops.                                        *)

\* The files of the server have come from uploads, and none of them fills a uint32_t.
SizesFit == FileSizes \subseteq 0 .. Width - 1

FullMsg == Overhead + ChunkSize
MsgLen(i) == Overhead + ChunkLen(size, i)

\* The stream is the messages of the chunks r_i .. s_i - 1, one after the other, all but the
\* last of them full.
Stream ==
    /\ Len(bytes) = IF s_i = r_i THEN 0 ELSE (s_i - r_i - 1) * FullMsg + MsgLen(s_i - 1)
    /\ \A k \in 0 .. s_i - r_i - 1 : \A j \in 1..MsgLen(r_i + k) :
           bytes[k * FullMsg + j] = [msg |-> r_i + k, at |-> j, of |-> MsgLen(r_i + k)]

\* Both sides go by the same size, and the receiver is somewhere behind the sender.
StreamInv == ~AtTheLimit /\ r_pc # "start" =>
    /\ told = size /\ r_i <= s_i /\ Stream
    /\ r_pc \in {"chunks", "run", "menu"} /\ (r_pc # "chunks" => r_i = ChunksNum(told))

\* What is announced is the size, but for a file at the limit.
LEMMA SameSize ==
    ASSUME SizesFit, NEW n \in FileSizes, NEW o \in {"upload", "download"},
           o = "upload" => n < MaxFileSize
    PROVE  Announced(o, n) = n
<1>1. n \in 0 .. Width - 1 /\ Width \in Nat /\ MaxFileSize \in Nat
      BY LimitAssumption DEF SizesFit
<1> QED BY <1>1 DEF Announced

\* The lengths of the messages.
LEMMA Lengths ==
    ASSUME CopyInv, NEW i \in 0 .. ChunksNum(size) - 1
    PROVE  /\ FullMsg \in Nat \ {0} /\ MsgLen(i) \in 1..FullMsg
           /\ i # ChunksNum(size) - 1 => MsgLen(i) = FullMsg
<1>1. size \in Nat /\ ChunkLen(size, i) \in 1..ChunkSize
      /\ (i # ChunksNum(size) - 1 => ChunkLen(size, i) = ChunkSize)
      BY Numbers, ChunkLengths
<1> QED BY <1>1, ChunkAssumption, WireAssumption DEF FullMsg, MsgLen

\* Multiples of a message's length.
LEMMA Multiples ==
    ASSUME NEW F \in Nat \ {0}, NEW a \in Nat, NEW b \in Nat, a < b
    PROVE  a * F \in Nat /\ b * F \in Nat /\ a * F + F <= b * F /\ (a + 1) * F = a * F + F
<1>1. b = a + 1 + (b - a - 1) /\ b - a - 1 \in Nat
      OBVIOUS
<1>2. (b - a - 1) * F \in Nat /\ a * F \in Nat /\ (a + 1) * F = a * F + F
      BY <1>1
<1>3. b * F = (a + 1) * F + (b - a - 1) * F
      BY <1>1
<1> QED BY <1>2, <1>3

\* The sender appends the next message.
LEMMA StreamGrows ==
    ASSUME CopyInv, r_i <= s_i, Stream, SendChunk
    PROVE  Stream'
<1>1. /\ s_i \in 0 .. ChunksNum(size) - 1 /\ s_i \in Nat /\ r_i \in Nat /\ ChunksNum(size) \in Nat
      /\ s_i' = s_i + 1 /\ bytes' = bytes \o Bytes(s_i, MsgLen(s_i)) /\ UNCHANGED <<size, r_i>>
      BY Numbers DEF SendChunk, MsgLen
<1>2. /\ FullMsg \in Nat \ {0} /\ MsgLen(s_i) \in 1..FullMsg
      /\ \A i \in 0 .. s_i - 1 : MsgLen(i) = FullMsg
      BY <1>1, Lengths
<1> DEFINE m == s_i - r_i
<1>3. m \in Nat
      BY <1>1
<1>4. Len(bytes) = m * FullMsg
      <2>1. CASE m = 0
            BY <1>1, <1>2, <2>1 DEF Stream
      <2>2. CASE m # 0
            <3>1. m - 1 \in Nat /\ s_i - 1 \in 0 .. s_i - 1 /\ m - 1 < m
                  BY <1>1, <1>3, <2>2
            <3>2. m * FullMsg = (m - 1) * FullMsg + FullMsg
                  <4>1. ((m - 1) + 1) * FullMsg = (m - 1) * FullMsg + FullMsg /\ (m - 1) + 1 = m
                        BY <1>2, <1>3, <3>1, Multiples
                  <4> QED BY <4>1
            <3>3. Len(bytes) = (m - 1) * FullMsg + MsgLen(s_i - 1)
                  BY <1>1, <2>2 DEF Stream
            <3> QED BY <1>2, <3>1, <3>2, <3>3
      <2> QED BY <2>1, <2>2
<1> DEFINE next == Bytes(s_i, MsgLen(s_i))
<1>5. /\ next \in Seq(Byte) /\ Len(next) = MsgLen(s_i) /\ bytes \in Seq(Byte)
      /\ \A j \in 1..MsgLen(s_i) : next[j] = [msg |-> s_i, at |-> j, of |-> MsgLen(s_i)]
      <2>1. MsgLen(s_i) \in Nat
            BY <1>2
      <2> QED BY <1>1, <2>1, BytesType DEF Bytes, CopyInv
<1> HIDE DEF next
<1>6. /\ Len(bytes') = Len(bytes) + Len(next)
      /\ \A i \in 1 .. Len(bytes) + Len(next) :
           bytes'[i] = IF i <= Len(bytes) THEN bytes[i] ELSE next[i - Len(bytes)]
      BY <1>1, <1>5, ConcatProperties DEF next
<1>7. \A i : MsgLen(i)' = MsgLen(i)
      BY <1>1 DEF MsgLen
<1>8. FullMsg' = FullMsg
      BY DEF FullMsg
<1>9. Len(bytes') = (s_i' - r_i' - 1) * FullMsg + MsgLen(s_i' - 1)
      BY <1>1, <1>4, <1>5, <1>6
<1>10. ASSUME NEW k \in 0 .. s_i' - r_i' - 1, NEW j \in 1..MsgLen(r_i' + k)
       PROVE  bytes'[k * FullMsg + j] = [msg |-> r_i' + k, at |-> j, of |-> MsgLen(r_i' + k)]
      <2>1. CASE k = m
            <3>1. r_i' + k = s_i /\ j \in 1..MsgLen(s_i) /\ k * FullMsg \in Nat
                  BY <1>1, <1>2, <1>3, <1>10, <2>1, Multiples
            <3>2. /\ Len(bytes) + j \in 1 .. Len(bytes) + Len(next)
                  /\ (Len(bytes) + j) - Len(bytes) = j /\ ~(Len(bytes) + j <= Len(bytes))
                  <4>1. /\ Len(bytes) \in Nat /\ Len(next) = MsgLen(s_i) /\ MsgLen(s_i) \in Nat
                              /\ j \in 1..MsgLen(s_i)
                        BY <1>2, <1>5, <3>1
                  <4> QED BY <4>1
            <3>3. bytes'[Len(bytes) + j] = next[j]
                  BY <1>6, <3>2
            <3> QED BY <1>4, <1>5, <2>1, <3>1, <3>3
      <2>2. CASE k # m
            <3>1. k \in 0 .. s_i - r_i - 1 /\ k < m /\ j \in 1..MsgLen(r_i + k) /\ k \in Nat
                  /\ r_i + k \in 0 .. s_i - 1
                  BY <1>1, <1>3, <1>10, <2>2
            <3>2. MsgLen(r_i + k) = FullMsg
                  BY <1>2, <3>1
            <3>3. k * FullMsg \in Nat /\ k * FullMsg + FullMsg <= m * FullMsg
                  BY <1>2, <1>3, <3>1, Multiples
            <3>4. k * FullMsg + j \in 1 .. Len(bytes) + Len(next) /\ k * FullMsg + j <= Len(bytes)
                  <4> DEFINE p == k * FullMsg
                  <4>1. /\ p \in Nat /\ p + FullMsg <= Len(bytes) /\ j \in 1..FullMsg
                        /\ FullMsg \in Nat /\ Len(bytes) \in Nat /\ Len(next) \in Nat
                        BY <1>2, <1>4, <1>5, <3>1, <3>2, <3>3
                  <4> HIDE DEF p
                  <4>2. p + j \in 1 .. Len(bytes) + Len(next) /\ p + j <= Len(bytes)
                        BY <4>1
                  <4> QED BY <4>2 DEF p
            <3>5. bytes'[k * FullMsg + j] = bytes[k * FullMsg + j]
                  BY <1>6, <3>4
            <3> QED BY <1>1, <3>1, <3>5 DEF Stream
      <2> QED BY <2>1, <2>2
<1>11. s_i' # r_i'
      BY <1>1, <1>3
<1> QED BY <1>7, <1>8, <1>9, <1>10, <1>11 DEF Stream

\* Every byte of the messages between r_i and s_i is in the stream.
LEMMA InStream ==
    ASSUME CopyInv, r_i <= s_i, Stream,
           NEW k \in 0 .. s_i - r_i - 1, NEW j \in 1..MsgLen(r_i + k)
    PROVE  k * FullMsg + j \in 1..Len(bytes)
<1>1. /\ s_i \in Nat /\ r_i \in Nat /\ ChunksNum(size) \in Nat /\ s_i <= ChunksNum(size)
      /\ r_i + k \in 0 .. ChunksNum(size) - 1 /\ s_i - 1 \in 0 .. ChunksNum(size) - 1 /\ k \in Nat
      BY Numbers DEF CopyInv
<1>2. /\ FullMsg \in Nat \ {0} /\ MsgLen(r_i + k) \in 1..FullMsg /\ MsgLen(s_i - 1) \in 1..FullMsg
      BY <1>1, Lengths
<1>3. Len(bytes) = (s_i - r_i - 1) * FullMsg + MsgLen(s_i - 1)
      BY <1>1 DEF Stream
<1>4. CASE k = s_i - r_i - 1
      <2>1. r_i + k = s_i - 1 /\ k * FullMsg \in Nat /\ Len(bytes) = k * FullMsg + MsgLen(r_i + k)
            BY <1>1, <1>2, <1>3, <1>4, Multiples
      <2> DEFINE p == k * FullMsg
      <2>2. p \in Nat /\ Len(bytes) = p + MsgLen(r_i + k) /\ MsgLen(r_i + k) \in Nat
            BY <1>2, <2>1
      <2> HIDE DEF p
      <2>3. p + j \in 1..Len(bytes)
            BY <2>2
      <2> QED BY <2>3 DEF p
<1>5. CASE k # s_i - r_i - 1
      <2> DEFINE p == k * FullMsg  q == (s_i - r_i - 1) * FullMsg
      <2>1. s_i - r_i - 1 \in Nat /\ k < s_i - r_i - 1
            BY <1>1, <1>5
      <2>2. p \in Nat /\ q \in Nat /\ p + FullMsg <= q
            BY <1>1, <1>2, <2>1, Multiples
      <2>3. /\ Len(bytes) = q + MsgLen(s_i - 1) /\ MsgLen(s_i - 1) \in Nat
            /\ j \in 1..FullMsg /\ FullMsg \in Nat
            BY <1>2, <1>3
      <2> HIDE DEF p, q
      <2>4. p + j \in 1..Len(bytes)
            BY <2>2, <2>3
      <2> QED BY <2>4 DEF p
<1> QED BY <1>4, <1>5

\* The receiver takes exactly the first message.
LEMMA StreamShrinks ==
    ASSUME CopyInv, told = size, r_i <= s_i, Stream, ReceiveChunk
    PROVE  r_i' <= s_i' /\ Stream' /\ UNCHANGED r_pc
<1> DEFINE n == MsgLen(r_i)
<1>1. /\ s_i \in Nat /\ r_i \in Nat /\ ChunksNum(size) \in Nat /\ s_i <= ChunksNum(size)
      /\ r_i \in 0 .. ChunksNum(size) - 1 /\ Len(bytes) >= n
      /\ bytes' = SubSeq(bytes, n + 1, Len(bytes)) /\ UNCHANGED <<size, s_i>>
      BY Numbers DEF ReceiveChunk, Expects, CopyInv, MsgLen
<1>2. /\ FullMsg \in Nat \ {0} /\ n \in 1..FullMsg
      /\ r_i # ChunksNum(size) - 1 => n = FullMsg
      BY <1>1, Lengths
<1>3. bytes \in Seq(Byte) /\ Len(bytes) \in Nat /\ Len(bytes) # 0
      BY <1>1, <1>2 DEF CopyInv
<1>4. r_i < s_i
      BY <1>1, <1>3 DEF Stream
<1>5. \A j \in 1..n : bytes[j] = [msg |-> r_i, at |-> j, of |-> n]
      <2> SUFFICES ASSUME NEW j \in 1..n PROVE bytes[j] = [msg |-> r_i, at |-> j, of |-> n]
          OBVIOUS
      <2>1. 0 \in 0 .. s_i - r_i - 1 /\ r_i + 0 = r_i /\ 0 * FullMsg + j = j
            BY <1>1, <1>2, <1>4
      <2>2. j \in 1..MsgLen(r_i + 0)
            BY <2>1
      <2>3. bytes[0 * FullMsg + j] = [msg |-> r_i + 0, at |-> j, of |-> MsgLen(r_i + 0)]
            BY <2>1, <2>2 DEF Stream
      <2> QED BY <2>1, <2>3
<1>6. Whole(n, r_i)
      <2>1. \A i \in 1..n : bytes[i] \in Byte
            BY <1>1, <1>2, <1>3
      <2>2. /\ SubSeq(bytes, 1, n) \in Seq(Byte) /\ Len(SubSeq(bytes, 1, n)) = n
            /\ \A j \in 1..n : SubSeq(bytes, 1, n)[j] = bytes[j]
            <3>1. /\ SubSeq(bytes, 1, n) \in Seq(Byte)
                  /\ Len(SubSeq(bytes, 1, n)) = IF 1 <= n THEN n - 1 + 1 ELSE 0
                  /\ \A j \in 1 .. n - 1 + 1 : SubSeq(bytes, 1, n)[j] = bytes[1 + j - 1]
                  BY <1>2, <2>1, SubSeqProperties
            <3> QED BY <1>2, <3>1
      <2>3. /\ Bytes(r_i, n) \in Seq(Byte) /\ Len(Bytes(r_i, n)) = n
            /\ \A j \in 1..n : Bytes(r_i, n)[j] = [msg |-> r_i, at |-> j, of |-> n]
            BY <1>1, <1>2, BytesType DEF Bytes
      <2>4. SubSeq(bytes, 1, n) = Bytes(r_i, n)
            BY <1>5, <2>2, <2>3, SeqEqual
      <2> QED BY <2>4 DEF Whole
<1>7. r_i' = r_i + 1 /\ UNCHANGED r_pc
      BY <1>6 DEF ReceiveChunk, MsgLen
<1>8. /\ Len(bytes') = Len(bytes) - n
      /\ \A i \in 1 .. Len(bytes) - n : bytes'[i] = bytes[n + i]
      <2>1. n \in 0..Len(bytes)
            BY <1>1, <1>2, <1>3
      <2> HIDE DEF n
      <2> QED BY <1>1, <1>3, <2>1, Cut
<1>9. (\A i : MsgLen(i)' = MsgLen(i)) /\ FullMsg' = FullMsg
      BY <1>1 DEF MsgLen, FullMsg
<1>10. Len(bytes) = (s_i - r_i - 1) * FullMsg + MsgLen(s_i - 1)
      BY <1>4, <1>1 DEF Stream
<1>11. CASE s_i = r_i + 1
      <2>1. Len(bytes) = n
            <3>1. s_i - r_i - 1 = 0 /\ s_i - 1 = r_i
                  BY <1>1, <1>11
            <3> QED BY <1>2, <1>10, <3>1
      <2>2. Len(bytes') = 0 /\ s_i' = r_i' /\ s_i' \in Nat
            BY <1>1, <1>2, <1>7, <1>8, <1>11, <2>1
      <2> QED BY <1>7, <2>2 DEF Stream
<1>12. CASE s_i # r_i + 1
      <2>1. /\ r_i # ChunksNum(size) - 1 /\ s_i - r_i - 1 \in Nat \ {0} /\ s_i - r_i - 2 \in Nat
            /\ s_i' - r_i' - 1 = s_i - r_i - 2
            BY <1>1, <1>4, <1>7, <1>12
      <2>2. n = FullMsg
            BY <1>2, <2>1
      <2> HIDE DEF n
      <2>3. Len(bytes') = (s_i' - r_i' - 1) * FullMsg + MsgLen(s_i' - 1)
            <3>1. ((s_i - r_i - 2) + 1) * FullMsg = (s_i - r_i - 2) * FullMsg + FullMsg
                  BY <1>2, <2>1, Multiples
            <3>2. (s_i - r_i - 2) + 1 = s_i - r_i - 1
                  BY <1>1
            <3> DEFINE p == (s_i - r_i - 2) * FullMsg
            <3>3. p \in Nat /\ MsgLen(s_i - 1) \in Nat /\ FullMsg \in Nat
                  <4>1. s_i - 1 \in 0 .. ChunksNum(size) - 1
                        BY <1>1, <1>4
                  <4> QED BY <1>2, <2>1, <4>1, Multiples, Lengths
            <3>4. Len(bytes) = p + FullMsg + MsgLen(s_i - 1)
                  BY <1>10, <3>1, <3>2
            <3>5. s_i' - r_i' - 1 = s_i - r_i - 2 /\ s_i' - 1 = s_i - 1
                  BY <1>1, <2>1
            <3> HIDE DEF p
            <3>6. Len(bytes') = p + MsgLen(s_i - 1)
                  BY <1>8, <2>2, <3>3, <3>4
            <3> QED BY <3>5, <3>6 DEF p
      <2>4. ASSUME NEW k \in 0 .. s_i' - r_i' - 1, NEW j \in 1..MsgLen(r_i' + k)
            PROVE  bytes'[k * FullMsg + j] = [msg |-> r_i' + k, at |-> j, of |-> MsgLen(r_i' + k)]
            <3>1. /\ k \in Nat /\ k + 1 \in 0 .. s_i - r_i - 1 /\ r_i' + k = r_i + (k + 1)
                  /\ j \in 1..MsgLen(r_i + (k + 1))
                  BY <1>1, <1>7, <2>1, <2>4
            <3> DEFINE p == k * FullMsg
            <3>2. p \in Nat /\ (k + 1) * FullMsg = p + FullMsg /\ FullMsg \in Nat \ {0}
                  BY <1>2, <3>1, Multiples
            <3>3. (k + 1) * FullMsg + j \in 1..Len(bytes)
                  BY <3>1, InStream
            <3>4. bytes[(k + 1) * FullMsg + j] =
                    [msg |-> r_i + (k + 1), at |-> j, of |-> MsgLen(r_i + (k + 1))]
                  BY <3>1 DEF Stream
            <3>5. j \in Nat \ {0}
                  <4>1. r_i + (k + 1) \in 0 .. ChunksNum(size) - 1
                        BY <1>1, <3>1
                  <4> QED BY <3>1, <4>1, Lengths
            <3> HIDE DEF p
            <3>6. p + j \in 1 .. Len(bytes) - n /\ n + (p + j) = (p + FullMsg) + j
                  BY <1>3, <2>2, <3>2, <3>3, <3>5
            <3>7. bytes'[p + j] = bytes[(p + FullMsg) + j]
                  BY <1>8, <3>6
            <3> QED BY <3>1, <3>2, <3>4, <3>7 DEF p
      <2>5. s_i' # r_i'
            BY <1>1, <1>7, <1>12
      <2>6. Stream'
            BY <1>9, <2>3, <2>4, <2>5 DEF Stream
      <2>7. r_i' <= s_i'
            BY <1>1, <1>4, <1>7
      <2> QED BY <1>7, <2>6, <2>7
<1> QED BY <1>11, <1>12

\* The stream stays in order, and nothing is left in it for run().
LEMMA StreamStep == SizesFit /\ CopyInv /\ StreamInv /\ [Next]_vars => StreamInv'
<1> SUFFICES ASSUME SizesFit, CopyInv, StreamInv, [Next]_vars, ~AtTheLimit', r_pc' # "start"
             PROVE  /\ told' = size' /\ r_i' <= s_i' /\ Stream'
                    /\ r_pc' \in {"chunks", "run", "menu"}
                    /\ r_pc' # "chunks" => r_i' = ChunksNum(told')
    BY DEF StreamInv
<1>1. CopyInv'
      BY CopyStep
<1>2. UNCHANGED <<op, size>> /\ ~AtTheLimit
      BY DEF Next, Sender, Receiver, Refuse, Start, SendChunk, SenderEnds, ReceiveChunk,
             ReceiverEnds, RunRejects, UploadEnds, vars, AtTheLimit
<1>3. told' = size'
      <2>1. /\ told' = Announced(op', size') /\ op' \in {"upload", "download"}
            /\ op' = "upload" => size' <= MaxFileSize /\ size' # MaxFileSize
            /\ size' \in FileSizes /\ size' \in Nat /\ MaxFileSize \in Nat
            BY <1>1, SizesAssumption, LimitAssumption DEF CopyInv, AtTheLimit
      <2> QED BY <2>1, SameSize
<1>4. /\ s_i \in Nat /\ r_i \in Nat /\ ChunksNum(size) \in Nat /\ s_i <= ChunksNum(size)
      BY Numbers DEF CopyInv
<1>5. CASE Start
      <2>1. r_i' = 0 /\ s_i' = 0 /\ bytes' = <<>> /\ r_pc' = "chunks"
            BY <1>5 DEF Start, CopyInv
      <2> QED BY <1>3, <2>1 DEF Stream
<1>6. CASE SendChunk
      <2>1. r_pc # "start" /\ UNCHANGED <<told, r_i, r_pc>> /\ s_i' = s_i + 1
            BY <1>6 DEF SendChunk
      <2>2. Stream'
            BY <1>2, <1>6, <2>1, StreamGrows DEF StreamInv
      <2> QED BY <1>2, <1>3, <1>4, <2>1, <2>2 DEF StreamInv
<1>7. CASE ReceiveChunk
      <2>1. r_pc = "chunks" /\ told = size /\ r_i <= s_i /\ Stream
            BY <1>2, <1>7 DEF ReceiveChunk, StreamInv
      <2> QED BY <1>3, <1>7, <2>1, StreamShrinks
<1>8. CASE ReceiverEnds
      <2>1. /\ r_pc = "chunks" /\ r_pc' \in {"run", "menu"} /\ r_i = ChunksNum(told)
            /\ UNCHANGED <<told, s_i, r_i, bytes>>
            BY <1>2, <1>4, <1>8 DEF ReceiverEnds, Expects, CopyInv, StreamInv
      <2>2. told = size /\ r_i <= s_i /\ Stream
            BY <1>2, <2>1 DEF StreamInv
      <2>3. Stream'
            BY <1>2, <2>1, <2>2 DEF Stream, MsgLen, FullMsg
      <2> QED BY <1>2, <2>1, <2>2, <2>3
<1>9. ~RunRejects
      <2> SUFFICES ASSUME RunRejects PROVE FALSE
          OBVIOUS
      <2>1. r_pc = "run" /\ Len(bytes) >= PacketSize
            BY DEF RunRejects
      <2>2. r_i = ChunksNum(size) /\ r_i <= s_i /\ Stream
            BY <1>2, <2>1 DEF StreamInv
      <2>3. Len(bytes) = 0
            BY <1>4, <2>2 DEF Stream
      <2> QED BY <2>1, <2>3, WireAssumption
<1>10. CASE Refuse \/ SenderEnds \/ UploadEnds \/ UNCHANGED vars
      <2>1. UNCHANGED <<told, s_i, r_i, r_pc, bytes>>
            BY <1>10 DEF Refuse, SenderEnds, UploadEnds, vars
      <2>2. told = size /\ r_i <= s_i /\ Stream
            BY <1>2, <2>1 DEF StreamInv
      <2>3. Stream'
            BY <1>2, <2>1, <2>2 DEF Stream, MsgLen, FullMsg
      <2> QED BY <1>2, <2>1, <2>2, <2>3 DEF StreamInv
<1> QED BY <1>5, <1>6, <1>7, <1>8, <1>9, <1>10 DEF Next, Sender, Receiver

\* There is no stream yet.
LEMMA StreamInit == Init => StreamInv
BY DEF Init, StreamInv

\* However the connection divides and delays the bytes: but for the file at the limit, every
\* receive of the loop starts at the first byte of the chunk that is due and asks for exactly its
\* length, and nothing of an upload is left when the server is back in run().
THEOREM CutsAlike == SizesFit => (Spec => []CutAlike)
<1> SUFFICES ASSUME SizesFit PROVE Spec => []CutAlike
    OBVIOUS
<1>1. CopyInv /\ StreamInv => CutAlike
      <2> SUFFICES ASSUME CopyInv, StreamInv, ~AtTheLimit
                   PROVE  /\ r_pc = "chunks" /\ bytes # <<>> => Head(bytes) =
                               [msg |-> r_i, at |-> 1, of |-> Overhead + ChunkLen(told, r_i)]
                          /\ r_pc \in {"run", "menu"} => bytes = <<>>
          BY DEF CutAlike
      <2>1. /\ s_i \in Nat /\ r_i \in Nat /\ ChunksNum(size) \in Nat /\ s_i <= ChunksNum(size)
            /\ bytes \in Seq(Byte)
            BY Numbers DEF CopyInv
      <2>2. CASE r_pc = "chunks" /\ bytes # <<>>
            <3>1. told = size /\ r_i <= s_i /\ Stream
                  BY <2>2 DEF StreamInv
            <3>2. r_i < s_i
                  BY <2>1, <2>2, <3>1 DEF Stream
            <3>3. /\ r_i \in 0 .. ChunksNum(size) - 1 /\ 0 \in 0 .. s_i - r_i - 1 /\ r_i + 0 = r_i
                  BY <2>1, <3>2
            <3>4. FullMsg \in Nat \ {0} /\ 1 \in 1..MsgLen(r_i + 0) /\ 0 * FullMsg + 1 = 1
                  BY <3>3, Lengths
            <3>5. bytes[0 * FullMsg + 1] = [msg |-> r_i + 0, at |-> 1, of |-> MsgLen(r_i + 0)]
                  BY <3>1, <3>3, <3>4 DEF Stream
            <3> QED BY <2>1, <2>2, <3>1, <3>3, <3>4, <3>5 DEF MsgLen
      <2>3. CASE r_pc \in {"run", "menu"}
            <3>1. r_i = ChunksNum(size) /\ r_i <= s_i /\ Stream
                  BY <2>3 DEF StreamInv
            <3>2. Len(bytes) = 0
                  BY <2>1, <3>1 DEF Stream
            <3> QED BY <2>1, <2>3, <3>2
      <2> QED BY <2>2, <2>3
<1>2. CopyInv /\ StreamInv /\ [Next]_vars => CopyInv' /\ StreamInv'
      BY CopyStep, StreamStep
<1>3. Init => CopyInv /\ StreamInv
      BY CopyInit, StreamInit
<1> QED BY <1>1, <1>2, <1>3, PTL DEF Spec

\* For a file of any size that the server can have, also at the limit, and chunks of any size:
\* when uploadRequest or downloadRequest reports success, the copy is the original.
THEOREM CopiesTrue == SizesFit => (Spec => []CopyIsOriginal)
<1> SUFFICES ASSUME SizesFit PROVE Spec => []CopyIsOriginal
    OBVIOUS
<1>1. CopyInv => CopyIsOriginal
      <2> SUFFICES ASSUME CopyInv, s_res = "SUCCESS" \/ (op = "download" /\ r_pc = "menu")
                   PROVE  copy = [j \in 1..size |-> j]
          BY DEF CopyIsOriginal
      <2>1. r_i = ChunksNum(told) /\ copy = [j \in 1..told |-> j]
            BY DEF CopyInv, CopyLen
      <2>2. told = size
            <3>1. r_pc # "start"
                  BY DEF CopyInv
            <3>2. CASE AtTheLimit
                  <4>1. told = 0 /\ size # 0 /\ ChunksNum(size) = ChunksNum(told)
                        BY <3>1, <3>2, LimitAssumption DEF CopyInv, AtTheLimit, Announced
                  <4> QED BY <4>1, Numbers, SomeChunks
            <3>3. CASE ~AtTheLimit
                  <4>1. /\ told = Announced(op, size) /\ op \in {"upload", "download"}
                        /\ op = "upload" => size < MaxFileSize
                        /\ size \in FileSizes
                        BY <3>1, <3>3, Numbers DEF CopyInv, AtTheLimit
                  <4> QED BY <4>1, SameSize
            <3> QED BY <3>2, <3>3
      <2> QED BY <2>1, <2>2
<1> QED BY <1>1, CopyInit, CopyStep, PTL DEF Spec

=============================================================================

------------------------------ MODULE Transfer ------------------------------
(***************************************************************************)
(* The chunks of one upload or download, byte by byte: how both sides       *)
(* divide the file (FileManager::initFileInfo), which size the receiver is  *)
(* told (UploadM1, DownloadM2), and how it cuts the stream of bytes back    *)
(* into messages (SocketManager::receive with MSG_WAITALL).                 *)
(*                                                                         *)
(* The sender is the client of an upload and the server of a download.  The *)
(* exchange of M1 and M2 and what may interrupt a transfer are in Session.  *)
(***************************************************************************)
EXTENDS Naturals, Sequences

CONSTANTS
    ChunkSize,     \* Config::CHUNK_SIZE
    MaxFileSize,   \* Config::MAX_FILE_SIZE
    Width,         \* 2^32: sizes are announced as uint32_t
    Overhead,      \* bytes of a chunk's message beyond the chunk
    PacketSize,    \* bytes of a message of Config::MAX_PACKET_SIZE
    Capacity,      \* bytes the connection holds before send blocks
    FileSizes      \* bound: the sizes of the files to transfer

ASSUME ChunkAssumption == ChunkSize \in Nat \ {0}
ASSUME LimitAssumption ==
    MaxFileSize \in Nat /\ MaxFileSize % ChunkSize = 0 /\ Width \in Nat /\ Width > MaxFileSize
ASSUME WireAssumption ==
    Overhead \in Nat \ {0} /\ PacketSize \in Nat \ {0} /\ Capacity \in Nat \ {0}
ASSUME SizesAssumption == FileSizes \subseteq Nat

VARIABLES
    op,                   \* which transfer this is
    size,                 \* m_file_size of the sender
    s_pc, s_i, s_res,     \* sender: place, next chunk, what an upload returns
    told,                 \* m_file_size of the receiver
    r_pc, r_i, copy,      \* receiver: place, next chunk, the bytes written
    bytes,                \* the stream of bytes from the sender to the receiver
    back                  \* the last message of an upload, as its counter

vars == <<op, size, s_pc, s_i, s_res, told, r_pc, r_i, copy, bytes, back>>

\* (Faulty: a file that ends with a full chunk gets an empty one.)
LastChunkSize_Remainder(n) == n % ChunkSize

\* initFileInfo: the number of chunks is rounded up, and only the last is shorter.
ChunksNum(n) == IF n % ChunkSize = 0 THEN n \div ChunkSize ELSE n \div ChunkSize + 1

LastChunkSize(n) == IF n % ChunkSize # 0 THEN n % ChunkSize ELSE ChunkSize

\* The size of chunk i of a file of n bytes, as each loop computes it.
ChunkLen(n, i) == IF i = ChunksNum(n) - 1 THEN LastChunkSize(n) ELSE ChunkSize

\* (Faulty: the limit of the message is below the limit of the client.)
Announced_Half(o, n) == IF o = "upload" /\ n * 2 >= MaxFileSize THEN 0 ELSE n % Width

\* UploadM1 says 0 for what it takes for too large; DownloadM2 casts.
Announced(o, n) ==
    IF o = "upload" THEN (IF n < MaxFileSize THEN n ELSE 0) ELSE n % Width

\* A message's bytes; each knows which it is, of how many, of which message.
Bytes(msg, n) == [j \in 1..n |-> [msg |-> msg, at |-> j, of |-> n]]

Init ==
    /\ op \in {"upload", "download"} /\ size \in FileSizes
    /\ s_pc = "start" /\ s_i = 0 /\ s_res = "none"
    /\ told = 0 /\ r_pc = "start" /\ r_i = 0 /\ copy = <<>>
    /\ bytes = <<>> /\ back = <<>>

\* uploadRequest turns down files that are empty or too large.
Refuse ==
    /\ s_pc = "start" /\ op = "upload" /\ (size = 0 \/ size > MaxFileSize)
    /\ s_pc' = "menu" /\ s_res' = "WRONG_FILE_SIZE"
    /\ UNCHANGED <<op, size, s_i, told, r_pc, r_i, copy, bytes, back>>

\* The receiver has been told the size and opened its file.  The server of a download
\* goes by the size it announced, and sends nothing for 0.
Start ==
    /\ s_pc = "start"
    /\ op = "upload" => size # 0 /\ size <= MaxFileSize
    /\ told' = Announced(op, size)
    /\ r_pc' = "chunks"
    /\ s_pc' = IF op = "download" /\ told' = 0 THEN "run" ELSE "chunks"
    /\ UNCHANGED <<op, size, s_i, s_res, r_i, copy, bytes, back>>

\* send blocks while the connection is full; of the last chunk in bytes, what exceeds
\* Capacity is still with the sender.
SendChunk ==
    /\ s_pc = "chunks" /\ s_i < ChunksNum(size)
    /\ Len(bytes) < Capacity
    /\ bytes' = bytes \o Bytes(s_i, Overhead + ChunkLen(size, s_i))
    /\ s_i' = s_i + 1
    /\ UNCHANGED <<op, size, s_pc, s_res, told, r_pc, r_i, copy, back>>

SenderEnds ==
    /\ s_pc = "chunks" /\ s_i = ChunksNum(size)
    /\ s_pc' = IF op = "upload" THEN "end" ELSE "run"
    /\ UNCHANGED <<op, size, s_i, s_res, told, r_pc, r_i, copy, bytes, back>>

\* What receive returns for n bytes decrypts only if it is one message, which must have
\* the receiver's counter.
Whole(n, msg) == SubSeq(bytes, 1, n) = Bytes(msg, n)

\* (Faulty: one chunk too many is awaited.)
Expects_OneMore == r_i <= ChunksNum(told)

Expects == r_i < ChunksNum(told)

\* A chunk that is rejected ends the operation: the client is back at its menu, the
\* server in run().
ReceiveChunk ==
    /\ r_pc = "chunks" /\ Expects
    /\ LET len == ChunkLen(told, r_i)
           n == Overhead + len
       IN  /\ Len(bytes) >= n
           /\ bytes' = SubSeq(bytes, n + 1, Len(bytes))
           /\ IF Whole(n, r_i)
              THEN /\ copy' = copy \o [j \in 1..len |-> r_i * ChunkSize + j]
                   /\ r_i' = r_i + 1
                   /\ UNCHANGED r_pc
              ELSE /\ r_pc' = IF op = "upload" THEN "run" ELSE "failed"
                   /\ UNCHANGED <<copy, r_i>>
    /\ UNCHANGED <<op, size, s_pc, s_i, s_res, told, back>>

\* downloadRequest returns SUCCESS; the handler of an upload sends the last message.
ReceiverEnds ==
    /\ r_pc = "chunks" /\ ~Expects
    /\ IF op = "upload" THEN r_pc' = "run" /\ back' = <<r_i>>
                        ELSE r_pc' = "menu" /\ back' = back
    /\ UNCHANGED <<op, size, s_pc, s_i, s_res, told, r_i, copy, bytes>>

\* Server::run takes what is left for a request, which it is not.
RunRejects ==
    /\ op = "upload" /\ r_pc = "run" /\ Len(bytes) >= PacketSize
    /\ bytes' = SubSeq(bytes, PacketSize + 1, Len(bytes))
    /\ r_pc' = "done"
    /\ UNCHANGED <<op, size, s_pc, s_i, s_res, told, r_i, copy, back>>

UploadEnds ==
    /\ s_pc = "end" /\ back # <<>>
    /\ s_pc' = "menu"
    /\ s_res' = IF Head(back) = s_i THEN "SUCCESS" ELSE "WRONG_COUNTER"
    /\ back' = Tail(back)
    /\ UNCHANGED <<op, size, s_i, told, r_pc, r_i, copy, bytes>>

Sender == Refuse \/ Start \/ SendChunk \/ SenderEnds \/ UploadEnds
Receiver == ReceiveChunk \/ ReceiverEnds \/ RunRejects
Next == Sender \/ Receiver

Spec == Init /\ [][Next]_vars

\* Neither side waits but in send and receive.
FairSpec == Spec /\ WF_vars(Sender) /\ WF_vars(Receiver)

-----------------------------------------------------------------------------
(* Properties.                                                              *)

\* Every variable keeps its range; the receiver never writes or counts more than it was
\* told, which fits a uint32_t.
TypeOK ==
    /\ op \in {"upload", "download"} /\ size \in FileSizes
    /\ s_pc \in {"start", "chunks", "end", "run", "menu"} /\ s_i \in 0..ChunksNum(size)
    /\ s_res \in {"none", "SUCCESS", "WRONG_FILE_SIZE", "WRONG_COUNTER"}
    /\ told \in 0 .. Width - 1
    /\ r_pc \in {"start", "chunks", "run", "menu", "failed", "done"}
    /\ r_i \in 0..ChunksNum(told) /\ copy \in Seq(1..told)
    /\ \A b \in 1..Len(bytes) : bytes[b] \in [msg : Nat, at : Nat, of : Nat]
    /\ back \in Seq(0..r_i)

\* The one upload the two sides do not agree about, see LargestFits.
AtTheLimit == op = "upload" /\ size = MaxFileSize

\* But for that one, both sides cut the stream at the same places: each receive of the loop starts with the
\* first byte of the chunk that is due and asks for exactly its length, and the server is
\* back in run() only when nothing of the upload is left in the stream.
CutAlike == ~AtTheLimit =>
    /\ r_pc = "chunks" /\ bytes # <<>> =>
         Head(bytes) = [msg |-> r_i, at |-> 1, of |-> Overhead + ChunkLen(told, r_i)]
    /\ r_pc \in {"run", "menu"} => bytes = <<>>

\* Whoever reports success has transferred the file: the copy is the original, byte for
\* byte, when uploadRequest or downloadRequest returns SUCCESS.
CopyIsOriginal ==
    s_res = "SUCCESS" \/ (op = "download" /\ r_pc = "menu") => copy = [j \in 1..size |-> j]

\* Every other transfer ends, whatever the connection can hold, with success or a refusal.
TransferEnds ==
    ~AtTheLimit ~> (s_res \in {"SUCCESS", "WRONG_FILE_SIZE"} \/ (op = "download" /\ r_pc = "menu"))

\* Client.cpp:645 and 647 turn down a file that is "Empty or larger than 4GB": one that is
\* neither can be uploaded.
LargestFits == (op = "upload" /\ size \in 1..MaxFileSize) ~> (s_res = "SUCCESS")

=============================================================================

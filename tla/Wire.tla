-------------------------------- MODULE Wire --------------------------------
(***************************************************************************)
(* The messages of a session byte by byte: which fields serialize writes,   *)
(* how many bytes of its buffer are encrypted and sent, how many bytes the  *)
(* peer asks its socket for, and which fields deserialize reads out of them *)
(* (src/messages, Generic, AesGcm, and the lengths used at each call in     *)
(* Client and Server).  A stream of bytes has no messages: two ends that    *)
(* disagree on one length disagree on everything that follows.              *)
(*                                                                         *)
(* Requests run to their end here; refusals, faults and counters are in     *)
(* Session, files of many chunks in Transfer.                               *)
(***************************************************************************)
EXTENDS Naturals, Sequences, Functions

CONSTANTS
    CodeLen, NumLen,       \* sizeof(uint8_t), sizeof(uint32_t)
    NameLen,               \* Config::FILE_NAME_LEN and USERNAME_LEN
    PacketSize,            \* Config::MAX_PACKET_SIZE
    IvLen, AadLen, TagLen, \* Config::IV_LEN, AAD_LEN, AES_TAG_LEN
    KeyLen, SigLen, CertLen, \* the buffers of Authentication.h
    ChunkSize,             \* Config::CHUNK_SIZE
    Names,                 \* bound: what a user may type, as <<"text", name, length>>
    FileSizes,             \* bound: sizes of files
    ListLens               \* bound: lengths of what getFilesList returns

ASSUME NamesAssumption == \A nm \in Names : nm[1] = "text" /\ nm[3] \in Nat
\* "Longest packet (excluding chunks)": the request for a rename (Config.h).
ASSUME FieldsAssumption ==
    /\ {CodeLen, NumLen, NameLen, IvLen, AadLen, TagLen, KeyLen, SigLen, CertLen} \subseteq Nat
    /\ PacketSize = CodeLen + 2 * NameLen /\ NumLen <= NameLen
ASSUME LengthsAssumption == FileSizes \cup ListLens \subseteq Nat /\ ChunkSize \in Nat \ {0}

VARIABLES
    op, step,     \* of each side: its request and its place in it
    size,         \* of each side: the file or list size it goes by
    names,        \* what the user typed for the request in progress
    wire,         \* of each side: what it sent and the peer has not taken
    heard         \* the last message taken: what was meant and what was read

vars == <<op, step, size, names, wire, heard>>

Sides == {"client", "server"}
Peer(x) == IF x = "client" THEN "server" ELSE "client"

-----------------------------------------------------------------------------
(* The classes of messages.  serialize and deserialize of every class go    *)
(* through the same fields, <<field, bytes, byte order>>, in the same       *)
(* order, and getMessageSize is their sum; buffer is what serialize         *)
(* allocates, and fills up with random bytes.                               *)

F(f, n) == <<f, n, "host">>
N(f) == <<f, NumLen, "net">>     \* htonl when written, ntohl when read

Total(ns) == LET sum[i \in 0..Len(ns)] == IF i = 0 THEN 0 ELSE sum[i - 1] + ns[i]
             IN  sum[Len(ns)]

Width(fields) == Total([i \in DOMAIN fields |-> fields[i][2]])

Layout(fields, buffer) ==
    [written |-> fields, read |-> fields, buffer |-> buffer, size |-> Width(fields)]

Sum(fields) == Layout(fields, Width(fields))
Packet(fields) == Layout(fields, PacketSize)

AuthenticationM1 ==
    Sum(<<F("code", CodeLen), F("key", KeyLen), N("key_len"), F("username", NameLen)>>)

SignatureFields == <<F("iv", IvLen), F("aad", AadLen), F("tag", TagLen), F("signature", SigLen)>>

\* (Faulty: the receiver takes the signature first, as in M4.)
AuthenticationM3_SignatureFirst ==
    [Sum(<<F("key", KeyLen), N("key_len")>> \o SignatureFields
         \o <<F("certificate", CertLen), N("certificate_len")>>)
     EXCEPT !.read = SignatureFields \o <<F("key", KeyLen), N("key_len"),
                         F("certificate", CertLen), N("certificate_len")>>]

AuthenticationM3 ==
    Sum(<<F("key", KeyLen), N("key_len")>> \o SignatureFields
        \o <<F("certificate", CertLen), N("certificate_len")>>)

AuthenticationM4 == Sum(SignatureFields)

\* A code in a packet as long as the longest request.
SimpleMessage == [Packet(<<F("code", CodeLen)>>) EXCEPT !.size = PacketSize]

ListM2 == Packet(<<F("code", CodeLen), F("list_size", NumLen)>>)
ListM3(n) == Sum(<<F("code", CodeLen), F("file_list", n)>>)

DownloadM1 == Packet(<<F("code", CodeLen), F("filename", NameLen)>>)
DownloadM2 == Sum(<<F("code", CodeLen), F("file_size", NumLen)>>)
DownloadMi(n) == Sum(<<F("code", CodeLen), F("chunk", n)>>)

UploadM1 == Packet(<<F("code", CodeLen), F("filename", NameLen), F("file_size", NumLen)>>)
UploadMi(n) == Sum(<<F("code", CodeLen), F("chunk", n)>>)

\* (Faulty: a buffer for one name, as in Delete.)
Rename_ShortBuffer ==
    Layout(<<F("code", CodeLen), F("old", NameLen), F("new", NameLen)>>, CodeLen + NameLen)

Rename == Packet(<<F("code", CodeLen), F("old", NameLen), F("new", NameLen)>>)
Delete == Packet(<<F("code", CodeLen), F("filename", NameLen)>>)

Class(kind, n) ==
    CASE kind = "AuthenticationM1" -> AuthenticationM1
      [] kind = "AuthenticationM3" -> AuthenticationM3
      [] kind = "AuthenticationM4" -> AuthenticationM4
      [] kind = "SimpleMessage" -> SimpleMessage
      [] kind = "ListM2" -> ListM2
      [] kind = "ListM3" -> ListM3(n)
      [] kind = "DownloadM1" -> DownloadM1
      [] kind = "DownloadM2" -> DownloadM2
      [] kind = "DownloadMi" -> DownloadMi(n)
      [] kind = "UploadM1" -> UploadM1
      [] kind = "UploadMi" -> UploadMi(n)
      [] kind = "Rename" -> Rename
      [] kind = "Delete" -> Delete

-----------------------------------------------------------------------------
(* A message m is [kind, n, val]: its class, the size of its last field and *)
(* the value of each field.  A unit [m, len, sealed] is one call of send:   *)
(* the first len bytes of serialize(m), as they are or encrypted.           *)

Garbled == <<"garbled">>

\* The bytes that a sequence of fields takes up.
Places(fields) ==
    {[field |-> fields[i][1], order |-> fields[i][3], bytes |-> fields[i][2],
      at |-> Width(SubSeq(fields, 1, i - 1))] : i \in DOMAIN fields}

\* Generic::serialize and deserialize.
Generic(len) ==
    Sum(<<F("iv", IvLen), <<"aad", AadLen, "net">>, F("tag", TagLen), F("ciphertext", len)>>)

UnitSize(len, sealed) == IF sealed THEN Generic(len).size ELSE len

\* Text ends at a NUL: one that fills its field runs on into what follows.
Terminated(v, n) == v[1] = "text" => v[3] < n

\* What the bytes at place p of the first len bytes of m say.
ReadAt(m, len, p) ==
    IF /\ p \in Places(Class(m.kind, m.n).written) /\ p.at + p.bytes <= len
       /\ Terminated(m.val[p.field], p.bytes)
    THEN m.val[p.field] ELSE Garbled

\* deserialize of len bytes taken out of unit u.  Encrypted bytes are read only if iv, aad,
\* tag and ciphertext are those of encrypt, whole and in place (AesGcm::decrypt).
Deserialize(kind, n, u, len, sealed) ==
    LET places == Places(Class(kind, n).read)
        opens == u.sealed = sealed /\ u.len = len
                 /\ (sealed => Places(Generic(len).read) = Places(Generic(len).written))
    IN  [f \in {p.field : p \in places} |->
            IF opens THEN ReadAt(u.m, len, CHOOSE p \in places : p.field = f) ELSE Garbled]

-----------------------------------------------------------------------------
(* The exchanges: who sends which class with which code, and whether it is  *)
(* encrypted.                                                               *)

Turn(by, kind, n, codes) == [by |-> by, kind |-> kind, n |-> n, codes |-> codes, sealed |-> TRUE]
Plain(turn) == [turn EXCEPT !.sealed = FALSE]

Chunks(by, kind, code, n) ==
    [i \in 1..((n + ChunkSize - 1) \div ChunkSize) |->
        Turn(by, kind, IF i * ChunkSize <= n THEN ChunkSize ELSE n % ChunkSize, {code})]

Login ==
    << Plain(Turn("client", "AuthenticationM1", 0, {"AUTHENTICATION_REQUEST"})),
       Plain(Turn("server", "SimpleMessage", 0, {"ACK"})),
       Plain(Turn("server", "AuthenticationM3", 0, {"none"})),
       Plain(Turn("client", "AuthenticationM4", 0, {"none"})),
       Turn("server", "SimpleMessage", 0, {"AUTHENTICATION_SUCCESS"}) >>

\* The exchange o, as a side sees it that goes by size n.
Exchange(o, n) ==
    CASE o = "AUTHENTICATION_REQUEST" -> Login
      [] o = "LIST_REQUEST" ->
            << Turn("client", "SimpleMessage", 0, {o}), Turn("server", "ListM2", 0, {"LIST_ACK"}) >>
            \o (IF n = 0 THEN <<>> ELSE << Turn("server", "ListM3", n, {"LIST_RESPONSE"}) >>)
      [] o = "DOWNLOAD_REQUEST" ->
            << Turn("client", "DownloadM1", 0, {o}),
               Turn("server", "DownloadM2", 0, {"DOWNLOAD_ACK", "FILE_NOT_FOUND"}) >>
            \o Chunks("server", "DownloadMi", "DOWNLOAD_CHUNK", n)
      [] o = "UPLOAD_REQUEST" ->
            << Turn("client", "UploadM1", 0, {o}), Turn("server", "SimpleMessage", 0, {"ACK"}) >>
            \o Chunks("client", "UploadMi", "UPLOAD_CHUNK", n)
            \o << Turn("server", "SimpleMessage", 0, {"ACK"}) >>
      [] o = "RENAME_REQUEST" ->
            << Turn("client", "Rename", 0, {o}), Turn("server", "SimpleMessage", 0, {"ACK", "NACK"}) >>
      [] o = "DELETE_REQUEST" ->
            << Turn("client", "Delete", 0, {o}), Turn("server", "SimpleMessage", 0, {"DELETE_ASK"}),
               Turn("client", "SimpleMessage", 0, {"DELETE_CONFIRM"}),
               Turn("server", "SimpleMessage", 0, {"ACK"}) >>
      [] o = "LOGOUT_REQUEST" ->
            << Turn("client", "SimpleMessage", 0, {o}), Turn("server", "SimpleMessage", 0, {"ACK"}) >>

Requests == {"LIST_REQUEST", "DOWNLOAD_REQUEST", "UPLOAD_REQUEST", "RENAME_REQUEST",
             "DELETE_REQUEST", "LOGOUT_REQUEST"}

\* (Faulty: every call says getMessageSize.)
EncryptedLen_Size(kind, n) == Class(kind, n).size

\* (Faulty: every call says MAX_PACKET_SIZE, also for what is shorter.)
EncryptedLen_Packet(kind, n) ==
    IF kind \in {"DownloadMi", "UploadMi", "ListM3"} THEN Class(kind, n).size ELSE PacketSize

\* The bytes a sender encrypts: some calls say MAX_PACKET_SIZE, others getMessageSize.
EncryptedLen(kind, n) ==
    IF kind \in {"DownloadM1", "UploadM1", "Delete"} THEN PacketSize ELSE Class(kind, n).size

\* The bytes a receiver awaits: run() and the client's M5 go by MAX_PACKET_SIZE.
AwaitedLen(o, i, turn) ==
    IF turn.sealed /\ (i = 1 \/ o = "AUTHENTICATION_REQUEST") THEN PacketSize
    ELSE Class(turn.kind, turn.n).size

-----------------------------------------------------------------------------

\* (Faulty: names may fill the field.)
IsStringValid_Full(nm) == nm[3] # 0 /\ nm[3] <= NameLen

\* FileManager::isStringValid, as to the length.
IsStringValid(nm) == nm[3] # 0 /\ nm[3] < NameLen

Init ==
    /\ op = [x \in Sides |-> "AUTHENTICATION_REQUEST"] /\ step = [x \in Sides |-> 1]
    /\ \E user \in Names : IsStringValid(user) /\ names = <<user, user>>
    /\ size = [x \in Sides |-> 0]
    /\ wire = [x \in Sides |-> <<>>]
    /\ heard = << <<>>, <<>> >>

\* The user chooses a request and types its names.
Begin ==
    /\ op["client"] = "idle"
    /\ \E o \in Requests, old, new \in Names :
        /\ IsStringValid(old) /\ IsStringValid(new)
        /\ op' = [op EXCEPT !["client"] = o]
        /\ names' = <<old, new>>
        /\ IF o = "UPLOAD_REQUEST"
           THEN \E n \in FileSizes \ {0} : size' = [size EXCEPT !["client"] = n]
           ELSE size' = [size EXCEPT !["client"] = 0]
        /\ o # "RENAME_REQUEST" => old = new
    /\ UNCHANGED <<step, wire, heard>>

\* Side x has done its part of place step[x] of exchange o.
Advance(x, o, n) ==
    LET ends == step[x] = Len(Exchange(o, n))
    IN  /\ op' = [op EXCEPT ![x] = IF ~ends THEN o
                                   ELSE IF o = "LOGOUT_REQUEST" THEN "ended" ELSE "idle"]
        /\ step' = [step EXCEPT ![x] = IF ends THEN 1 ELSE @ + 1]
        /\ size' = [size EXCEPT ![x] = n]

\* (Faulty: the NUL that ends a list is not counted.)
ListSize_NoNul(len) == len

\* listRequest counts the NUL of a list that is not empty.
ListSize(len) == IF len = 0 THEN 0 ELSE len + 1

\* The sizes a side may go by once it has sent this message.
SizesAfter(x, kind, code) ==
    CASE kind = "ListM2" -> {ListSize(len) : len \in ListLens}
      [] kind = "DownloadM2" -> IF code = "DOWNLOAD_ACK" THEN FileSizes ELSE {0}
      [] OTHER -> {size[x]}

Value(f, code, n) ==
    CASE f = "code" -> <<"code", code>>
      [] f \in {"username", "filename", "old"} -> names[1]
      [] f = "new" -> names[2]
      [] f \in {"list_size", "file_size"} -> <<"number", n>>
      [] f = "file_list" -> <<"text", "list", CHOOSE len \in ListLens : ListSize(len) = n>>
      [] OTHER -> <<"bytes", f>>

\* The fields of m as its constructor sets them.
Message(turn, code, n) ==
    [kind |-> turn.kind, n |-> turn.n,
     val |-> [f \in {g[1] : g \in Range(Class(turn.kind, turn.n).written)} |-> Value(f, code, n)]]

SentLen(turn) == IF turn.sealed THEN EncryptedLen(turn.kind, turn.n)
                 ELSE Class(turn.kind, turn.n).size

Busy(x) == op[x] \notin {"idle", "ended"}
Here(x) == Exchange(op[x], size[x])[step[x]]

Send(x) ==
    /\ Busy(x) /\ Here(x).by = x
    /\ \E code \in Here(x).codes : \E n \in SizesAfter(x, Here(x).kind, code) :
        LET u == [m |-> Message(Here(x), code, n), len |-> SentLen(Here(x)),
                  sealed |-> Here(x).sealed]
        IN  wire' = [wire EXCEPT ![x] = Append(@, u)] /\ Advance(x, op[x], n)
    /\ UNCHANGED <<names, heard>>

\* The bytes that are in the connection from x.
Bytes(x) == Total([i \in DOMAIN wire[x] |-> UnitSize(wire[x][i].len, wire[x][i].sealed)])

\* The size a side goes by once it has read this message.
SizeRead(x, read) ==
    IF "list_size" \in DOMAIN read THEN read["list_size"][2]
    ELSE IF "file_size" \in DOMAIN read THEN read["file_size"][2] ELSE size[x]

\* Side x takes len bytes of payload as a message of turn in exchange o: the next unit, or
\* parts of some, and then nothing that follows is a message any more.  A side gives up
\* when bytes do not decrypt; here also when a field makes no sense.
Take(x, o, turn, len) ==
    LET p == Peer(x)
        k == UnitSize(len, turn.sealed)
        u == Head(wire[p])
        read == Deserialize(turn.kind, turn.n, u, len, turn.sealed)
    IN  /\ heard' = <<u.m.val, read>>
        /\ wire' = [wire EXCEPT ![p] =
                IF k = UnitSize(u.len, u.sealed) THEN Tail(@)
                ELSE << [u EXCEPT !.len = Bytes(p) - k, !.sealed = FALSE] >>]
        /\ IF \E f \in DOMAIN read : read[f] = Garbled
           THEN op' = [op EXCEPT ![x] = "ended"] /\ UNCHANGED <<step, size>>
           ELSE Advance(x, o, SizeRead(x, read))
        /\ UNCHANGED names

\* The bytes side x is about to await; nothing while it sends or is at its menu.
Asked(x) ==
    IF x = "server" /\ op[x] = "idle" THEN UnitSize(PacketSize, TRUE)
    ELSE IF Busy(x) /\ Here(x).by = Peer(x)
    THEN UnitSize(AwaitedLen(op[x], step[x], Here(x)), Here(x).sealed)
    ELSE 0

\* recv waits for all of them (MSG_WAITALL).
Arrived(x) == Asked(x) # 0 /\ Bytes(Peer(x)) >= Asked(x)

Receive(x) ==
    /\ Busy(x) /\ Arrived(x)
    /\ Take(x, op[x], Here(x), AwaitedLen(op[x], step[x], Here(x)))

\* run() takes a packet and goes by the first byte of the plaintext.
Dispatch ==
    /\ op["server"] = "idle" /\ Arrived("server")
    /\ LET code == Deserialize("SimpleMessage", 0, Head(wire["client"]), PacketSize, TRUE)["code"]
           o == IF code = Garbled THEN "LOGOUT_REQUEST" ELSE code[2]
       IN  Take("server", o, Exchange(o, 0)[1], PacketSize)

\* A user logs in over a new connection.
Connect ==
    /\ \A x \in Sides : op[x] = "ended"
    /\ op' = [x \in Sides |-> "AUTHENTICATION_REQUEST"] /\ step' = [x \in Sides |-> 1]
    /\ \E user \in Names : IsStringValid(user) /\ names' = <<user, user>>
    /\ size' = [x \in Sides |-> 0] /\ wire' = [x \in Sides |-> <<>>]
    /\ UNCHANGED heard

Next == Begin \/ Dispatch \/ Connect \/ \E x \in Sides : Send(x) \/ Receive(x)

Spec == Init /\ [][Next]_vars

-----------------------------------------------------------------------------

Codes == Requests \cup {"AUTHENTICATION_REQUEST", "ACK", "NACK", "AUTHENTICATION_SUCCESS",
    "LIST_ACK", "LIST_RESPONSE", "DOWNLOAD_ACK", "DOWNLOAD_CHUNK", "FILE_NOT_FOUND", "UPLOAD_CHUNK",
    "DELETE_ASK", "DELETE_CONFIRM", "none"}

ListSizes == {ListSize(len) : len \in ListLens}
Sizes == FileSizes \cup {0} \cup ListSizes

Values == {<<"code", c>> : c \in Codes} \cup {<<"number", n>> : n \in Sizes}
    \cup {<<"text", "list", len>> : len \in ListLens} \cup Names
    \cup {<<"bytes", f>> : f \in {"key", "key_len", "iv", "aad", "tag", "signature",
                                  "certificate", "certificate_len", "chunk"}}

\* Every variable has a value of its type; nothing read is garbled, and the sizes both sides
\* go by are sizes of files or lists.
TypeOK ==
    /\ op \in [Sides -> Requests \cup {"AUTHENTICATION_REQUEST", "idle", "ended"}]
    /\ step \in [Sides -> Nat \ {0}]
    /\ size \in [Sides -> Sizes]
    /\ \A x \in Sides : Busy(x) => step[x] <= Len(Exchange(op[x], size[x]))
    /\ \A i \in 1..2 : names[i] \in Names /\ \A f \in DOMAIN heard[i] : heard[i][f] \in Values

\* What a side reads out of the stream is what its peer put into it, field by field: both
\* agree on where each message begins and ends, on the place, width and byte order of each
\* field, and no text runs on into what follows it.
ReadAsWritten == heard[2] = heard[1]

\* Neither side computes with bytes that are not there: what serialize writes fits into its
\* buffer, the bytes encrypted or sent are in the buffer, and the bytes deserialize reads
\* are among those awaited.
WithinBuffers ==
    \A x \in Sides : Busy(x) =>
        LET class == Class(Here(x).kind, Here(x).n)
        IN  IF Here(x).by = x
            THEN Width(class.written) <= class.buffer /\ SentLen(Here(x)) <= class.buffer
            ELSE Width(class.read) <= AwaitedLen(op[x], step[x], Here(x))

\* Between two requests no byte is left in the connection for the next one to begin with.
NothingLeft ==
    (\A x \in Sides : op[x] \in {"idle", "ended"}) => \A x \in Sides : wire[x] = <<>>

\* The two sides never both wait for bytes: what one still awaits the other still has to
\* send, to the last byte.
SomeoneSends == ~ \A x \in Sides : Asked(x) # 0 /\ ~Arrived(x)

=============================================================================

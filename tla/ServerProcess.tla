--------------------------- MODULE ServerProcess ---------------------------
(***************************************************************************)
(* The server process around the sessions: the accept loop of ServerMain,   *)
(* a thread for every connection, the table of descriptors they all share,  *)
(* and the singleton of CertificateManager.                                 *)
(*                                                                         *)
(* A file that cannot be opened because the table is full looks like one    *)
(* that is not there (FileManager::isFilePresent).  Every user here has one *)
(* session and a directory of its own, so that nothing but the table makes  *)
(* the sessions disturb each other.  Messages and counters are in Session.  *)
(***************************************************************************)
EXTENDS Integers, Sequences, FiniteSets

CONSTANTS
    Clients,       \* bound: the connections
    Names,         \* file names
    Dirs,          \* bound: the directories the users may have
    Table,         \* descriptors the process may open, the listening socket not counted
    Earlier,       \* bound: how many descriptors sessions of the past may have left
    MaxRequests,   \* Config::MAX_REQUESTS, the backlog of listen()
    MaxOps         \* bound: requests per session

ASSUME TableAssumption == Table \in Nat /\ Earlier \subseteq 0..Table /\ MaxRequests \in Nat /\ MaxOps \in Nat
ASSUME DirsAssumption == Names # {} /\ Dirs \subseteq [Names -> {"none", "empty", "old"}]

VARIABLES
    up,        \* does the process run?
    queue,     \* connections not yet accepted
    pc,        \* client -> where its thread is
    earlier,   \* the descriptors that sessions of the past have left
    open,      \* the descriptors in use: whose, and for what
    told,      \* client -> what it knows
    op,        \* client -> its request in progress, or the last one
    count,     \* client -> requests so far
    dir,       \* client -> its directory
    instance,  \* m_certificate_manager_instance: the thread that made it, or "null"
    made,      \* the threads that have completed a CertificateManager
    blind      \* history: the clients whose thread failed to open a file that is there

threads == <<pc, told, op, count, dir>>
vars == <<up, queue, earlier, open, instance, made, blind, threads>>

Idle == [kind |-> "none", name |-> CHOOSE f \in Names : TRUE,
         new |-> CHOOSE f \in Names : TRUE]

Init ==
    /\ earlier \in Earlier
    /\ up = TRUE /\ queue = <<>> /\ open = {} /\ instance = "null" /\ made = {}
    /\ pc = [c \in Clients |-> "none"] /\ told = [c \in Clients |-> "out"]
    /\ op = [c \in Clients |-> Idle] /\ count = [c \in Clients |-> 0]
    /\ dir \in [Clients -> Dirs]
    /\ blind = {}

InUse == earlier + Cardinality(open)

\* (Faulty: one descriptor too many.)
Free_OneMore == InUse <= Table

Free == InUse < Table

-----------------------------------------------------------------------------
(* The accept loop.                                                         *)

\* connect() completes as long as the backlog has room.
Connect(c) ==
    /\ up /\ told[c] = "out" /\ Len(queue) < MaxRequests
    /\ told' = [told EXCEPT ![c] = "waiting"] /\ queue' = Append(queue, c)
    /\ UNCHANGED <<up, earlier, pc, open, op, count, dir, instance, made, blind>>

\* accept and emplaceThread.  While the table is full accept returns -1 and the loop
\* goes on.
Accept ==
    /\ up /\ queue # <<>> /\ Free
    /\ open' = open \cup {<<Head(queue), "socket", 0>>}
    /\ pc' = [pc EXCEPT ![Head(queue)] = "pubKey"] /\ queue' = Tail(queue)
    /\ UNCHANGED <<up, earlier, told, op, count, dir, instance, made, blind>>

\* The system refuses the thread: a system_error, which main does not catch.
EmplaceFails ==
    /\ up /\ queue # <<>> /\ Free
    /\ up' = FALSE
    /\ UNCHANGED <<queue, earlier, open, instance, made, blind, threads>>

-----------------------------------------------------------------------------
(* What the steps of a thread have in common.                               *)

Goto(c, from, to) == up /\ pc[c] = from /\ pc' = [pc EXCEPT ![c] = to]
Tell(c, what) == told' = [told EXCEPT ![c] = what]
Stay(c) == UNCHANGED <<up, queue, earlier, op, count>>

\* A descriptor is known by its thread, its use and the request it belongs to.
Opens(c, use) == Free /\ open' = open \cup {<<c, use, count[c]>>} /\ UNCHANGED blind
Closes(c, use) == open' = open \ {<<c, use, count[c]>>} /\ UNCHANGED blind
OpensNothing == UNCHANGED <<open, blind>>

\* A file that is there is not opened.
Misses(c) == ~Free /\ blind' = blind \cup {c} /\ UNCHANGED open

NoInstance == UNCHANGED <<instance, made>>
NoFile == UNCHANGED dir

-----------------------------------------------------------------------------
(* authenticationRequest, as far as it opens files.                         *)

\* The public key: without it the thread ends and the client hears nothing.
PubKey(c) ==
    /\ \/ Opens(c, "pubKey") /\ Goto(c, "pubKey", "m2") /\ UNCHANGED told
       \/ Misses(c) /\ Goto(c, "pubKey", "done") /\ UNCHANGED told
    /\ Stay(c) /\ NoInstance /\ NoFile

\* (Faulty: the public key is not closed.)
M2_Kept(c) ==
    /\ Goto(c, "m2", "privKey") /\ OpensNothing
    /\ Stay(c) /\ NoInstance /\ NoFile /\ UNCHANGED told

M2(c) ==
    /\ Goto(c, "m2", "privKey") /\ Closes(c, "pubKey")
    /\ Stay(c) /\ NoInstance /\ NoFile /\ UNCHANGED told

\* The private key of the server: the client has had M2 and waits for M3.
PrivKey(c) ==
    /\ \/ Opens(c, "privKey") /\ Goto(c, "privKey", "sign")
       \/ Misses(c) /\ Goto(c, "privKey", "done")
    /\ Stay(c) /\ NoInstance /\ NoFile /\ UNCHANGED told

Sign(c) ==
    /\ Goto(c, "sign", "getInstance") /\ Closes(c, "privKey")
    /\ Stay(c) /\ NoInstance /\ NoFile /\ UNCHANGED told

\* (Faulty: the instance is known before it is complete.)
GetInstance_Early(c) ==
    /\ Goto(c, "getInstance", IF instance = "null" THEN "construct" ELSE "cert")
    /\ instance' = IF instance = "null" THEN c ELSE instance
    /\ OpensNothing /\ Stay(c) /\ NoFile /\ UNCHANGED <<told, made>>

\* getInstance: the test and the assignment are not one step, so that two threads may
\* each construct an instance and one is lost.  The constructor is code of another file,
\* so the assignment is not moved before it.
GetInstance(c) ==
    /\ Goto(c, "getInstance", IF instance = "null" THEN "construct" ELSE "cert")
    /\ OpensNothing /\ Stay(c) /\ NoInstance /\ NoFile /\ UNCHANGED told

\* The constructor returns, with or without a store, which only a client uses.
Construct(c) ==
    /\ Goto(c, "construct", "assign") /\ made' = made \cup {c}
    /\ OpensNothing /\ Stay(c) /\ NoFile /\ UNCHANGED <<told, instance>>

Assign(c) ==
    /\ Goto(c, "assign", "cert") /\ instance' = c
    /\ OpensNothing /\ Stay(c) /\ NoFile /\ UNCHANGED <<told, made>>

\* (Faulty: a client would take an M3 without a certificate.)
Cert_Accepted(c) ==
    /\ \/ Opens(c, "cert") /\ Goto(c, "cert", "m3") /\ UNCHANGED told
       \/ Misses(c) /\ Goto(c, "cert", "m4") /\ UNCHANGED told
    /\ Stay(c) /\ NoInstance /\ NoFile

\* loadCertificate: if it fails, serializeCertificate fails too, which nobody tests, and M3
\* goes out without a certificate.  The client turns it down and keeps its connection.
Cert(c) ==
    /\ \/ Opens(c, "cert") /\ Goto(c, "cert", "m3") /\ UNCHANGED told
       \/ Misses(c) /\ Goto(c, "cert", "m4") /\ Tell(c, "rejected")
    /\ Stay(c) /\ NoInstance /\ NoFile

M3(c) ==
    /\ Goto(c, "m3", "m4") /\ Closes(c, "cert")
    /\ Stay(c) /\ NoInstance /\ NoFile /\ UNCHANGED told

\* M4 comes and M5 goes.
M5(c) ==
    /\ told[c] = "waiting" /\ Goto(c, "m4", "run") /\ Tell(c, "in")
    /\ OpensNothing /\ Stay(c) /\ NoInstance /\ NoFile

Login(c) ==
    \/ PubKey(c) \/ M2(c) \/ PrivKey(c) \/ Sign(c)
    \/ GetInstance(c) \/ Construct(c) \/ Assign(c) \/ Cert(c) \/ M3(c) \/ M5(c)

-----------------------------------------------------------------------------
(* The handlers, as far as they open files.                                 *)

Exists(c, f) == dir[c][f] # "none"

\* isFilePresent: true while it holds the file open, false if it is not there or cannot be
\* opened.
Look(c, f, found, absent) ==
    \/ Exists(c, f) /\ Opens(c, "look") /\ found
    \/ Exists(c, f) /\ Misses(c) /\ absent
    \/ ~Exists(c, f) /\ OpensNothing /\ absent

\* The handler answers and returns to run().
Answer(c, from) == Goto(c, from, "run") /\ Tell(c, "in")
Goes(c, from, to) == Goto(c, from, to) /\ UNCHANGED told
Within(c) == Stay(c) /\ NoInstance

Request(c, o, to) ==
    /\ told[c] = "in" /\ count[c] < MaxOps
    /\ Goto(c, "run", to) /\ Tell(c, "waiting")
    /\ op' = [op EXCEPT ![c] = o] /\ count' = [count EXCEPT ![c] = @ + 1]
    /\ OpensNothing /\ NoInstance /\ NoFile /\ UNCHANGED <<up, queue, earlier>>

\* The client looks for the file before it asks for a delete.
Requests(c) == \E f, g \in Names :
    \/ Request(c, [kind |-> "rename", name |-> f, new |-> g], "renOld")
    \/ Request(c, [kind |-> "upload", name |-> f, new |-> f], "upM2")
    \/ Request(c, [kind |-> "download", name |-> f, new |-> f], "downM2")
    \/ Request(c, [kind |-> "list", name |-> f, new |-> f], "list")
    \/ Exists(c, f) /\ Request(c, [kind |-> "delete", name |-> f, new |-> f], "delM3")

\* A name that is taken is reported, by a rename and by an upload.
Taken(c) == Answer(c, "taken") /\ Closes(c, "look") /\ Within(c) /\ NoFile

RenOld(c) ==
    /\ Look(c, op[c].name, Goes(c, "renOld", "renFound"), Answer(c, "renOld"))
    /\ Within(c) /\ NoFile

RenFound(c) == Goes(c, "renFound", "renNew") /\ Closes(c, "look") /\ Within(c) /\ NoFile

\* (Faulty: the new name is not looked for.)
RenNew_Unchecked(c) ==
    /\ Goes(c, "renNew", "renMove") /\ OpensNothing
    /\ Within(c) /\ NoFile

RenNew(c) ==
    /\ Look(c, op[c].new, Goes(c, "renNew", "taken"), Goes(c, "renNew", "renMove"))
    /\ Within(c) /\ NoFile

\* rename needs no descriptor.
RenMove(c) ==
    LET f == op[c].name g == op[c].new IN
    /\ Answer(c, "renMove") /\ OpensNothing
    /\ dir' = [dir EXCEPT ![c] = [@ EXCEPT ![f] = "none", ![g] = dir[c][f]]]
    /\ Within(c)

UpM2(c) ==
    /\ Look(c, op[c].name, Goes(c, "upM2", "taken"), Goes(c, "upM2", "upLook"))
    /\ Within(c) /\ NoFile

\* openFile looks again, and only logs that the file is there.
UpLook(c) ==
    /\ Look(c, op[c].name, Goes(c, "upLook", "upThere"), Goes(c, "upLook", "upCreate"))
    /\ Within(c) /\ NoFile

UpThere(c) == Goes(c, "upThere", "upMi") /\ Closes(c, "look") /\ Within(c) /\ NoFile

\* The stream is opened and the file emptied, or a failure is logged.
UpCreate(c) ==
    /\ Goes(c, "upCreate", "upMi")
    /\ \/ Opens(c, "file") /\ dir' = [dir EXCEPT ![c][op[c].name] = "empty"]
       \/ ~Free /\ OpensNothing /\ NoFile
    /\ Within(c)

Holds(c, use) == <<c, use, count[c]>> \in open

\* All chunks and the end are acknowledged, whether or not there is a stream.
UpMi(c) ==
    /\ Goto(c, "upMi", "upClose") /\ Tell(c, "in") /\ OpensNothing
    /\ dir' = IF Holds(c, "file") THEN [dir EXCEPT ![c][op[c].name] = "new"] ELSE dir
    /\ Within(c)

UpClose(c) == Goes(c, "upClose", "run") /\ Closes(c, "file") /\ Within(c) /\ NoFile

DownM2(c) ==
    /\ Look(c, op[c].name, Goes(c, "downM2", "downFound"), Answer(c, "downM2"))
    /\ Within(c) /\ NoFile

DownFound(c) == Goes(c, "downFound", "downOpen") /\ Closes(c, "look") /\ Within(c) /\ NoFile

\* A file that cannot be opened now is announced with size 0.
DownOpen(c) ==
    /\ \/ Opens(c, "file") /\ Goes(c, "downOpen", "downSize")
       \/ Misses(c) /\ Answer(c, "downOpen")
    /\ Within(c) /\ NoFile

\* computeFileSize opens the file once more, and the size is 0 if it cannot.  The handler
\* returns after an announced 0 and does not delete its FileManager.
DownSize(c) ==
    /\ \/ Opens(c, "look") /\ Goes(c, "downSize", "downSized")
       \/ Misses(c) /\ Answer(c, "downSize")
    /\ Within(c) /\ NoFile

DownSized(c) ==
    /\ Closes(c, "look")
    /\ IF dir[c][op[c].name] = "empty" THEN Answer(c, "downSized")
       ELSE Goes(c, "downSized", "downMi")
    /\ Within(c) /\ NoFile

\* (Faulty: the FileManager is not deleted after the last chunk.)
DownMi_Kept(c) == Answer(c, "downMi") /\ OpensNothing /\ Within(c) /\ NoFile

DownMi(c) == Answer(c, "downMi") /\ Closes(c, "file") /\ Within(c) /\ NoFile

\* getFilesList opens the directory; if that fails the request is not answered.
List(c) ==
    /\ \/ Opens(c, "look") /\ Goes(c, "list", "listed")
       \/ Misses(c) /\ Goes(c, "list", "run")
    /\ Within(c) /\ NoFile

Listed(c) == Answer(c, "listed") /\ Closes(c, "look") /\ Within(c) /\ NoFile

\* Nor is a delete whose file is not found.
DelM3(c) ==
    /\ Look(c, op[c].name, Goes(c, "delM3", "delFound"), Goes(c, "delM3", "run"))
    /\ Within(c) /\ NoFile

DelFound(c) ==
    /\ Answer(c, "delFound") /\ Closes(c, "look")
    /\ dir' = [dir EXCEPT ![c][op[c].name] = "none"]
    /\ Within(c)

\* The client process ends, and then the thread, where it receives or sends; its socket
\* stays open, and so does the file of a download that is cut short.
Vanish(c) ==
    /\ \/ \E from \in {"m4", "run", "downMi"} : Goto(c, from, "done") /\ OpensNothing
       \/ Goto(c, "upMi", "done") /\ Closes(c, "file")
    /\ Tell(c, "gone")
    /\ Within(c) /\ NoFile

Handle(c) ==
    \/ Taken(c) \/ RenOld(c) \/ RenFound(c) \/ RenNew(c) \/ RenMove(c)
    \/ UpM2(c) \/ UpLook(c) \/ UpThere(c) \/ UpCreate(c) \/ UpMi(c) \/ UpClose(c)
    \/ DownM2(c) \/ DownFound(c) \/ DownOpen(c) \/ DownSize(c) \/ DownSized(c) \/ DownMi(c)
    \/ List(c) \/ Listed(c) \/ DelM3(c) \/ DelFound(c)

Thread(c) == Login(c) \/ Handle(c)

Next ==
    \/ Accept \/ EmplaceFails
    \/ \E c \in Clients : Connect(c) \/ Thread(c) \/ Requests(c) \/ Vanish(c)

Spec == Init /\ [][Next]_vars

\* The accept loop and the threads are run; clients need neither connect nor ask nor end.
FairSpec == Spec /\ WF_vars(Accept) /\ \A c \in Clients : WF_vars(Thread(c))

-----------------------------------------------------------------------------
(* Properties.                                                              *)

Pcs == {"none", "pubKey", "m2", "privKey", "sign", "getInstance", "construct", "assign",
        "cert", "m3", "m4", "run", "done", "taken", "renOld", "renFound", "renNew",
        "renMove", "upM2", "upLook", "upThere", "upCreate", "upMi", "upClose", "downM2",
        "downFound", "downOpen", "downSize", "downSized", "downMi", "list", "listed",
        "delM3", "delFound"}
Uses == {"socket", "pubKey", "privKey", "cert", "look", "file"}
Operations == [kind : {"none", "rename", "upload", "download", "list", "delete"},
               name : Names, new : Names]

\* Every variable keeps its range, and the process never holds more than the table.
TypeOK ==
    /\ up \in BOOLEAN /\ queue \in Seq(Clients) /\ Len(queue) <= MaxRequests
    /\ pc \in [Clients -> Pcs]
    /\ told \in [Clients -> {"out", "waiting", "in", "rejected", "gone"}]
    /\ op \in [Clients -> Operations] /\ count \in [Clients -> 0..MaxOps]
    /\ dir \in [Clients -> [Names -> {"none", "empty", "old", "new"}]]
    /\ open \subseteq Clients \X Uses \X (0..MaxOps) /\ earlier \in Earlier /\ InUse <= Table
    /\ instance \in Clients \cup {"null"} /\ made \subseteq Clients /\ blind \subseteq Clients

\* Where a thread waits for its client, or has ended.
AtRest == {"m4", "run", "done"}

\* A download that was announced with size 0, or was cut short, never deletes its
\* FileManager (Server.cpp:504-507); op is its request as long as no other has come.
LosesFile(c) ==
    /\ op[c].kind = "download"
    /\ dir[c][op[c].name] = "empty" \/ c \in blind \/ told[c] = "gone"

\* However a login or a handler ends, and whatever it could not open, the thread keeps no
\* descriptor but its socket and the files of such downloads.
NothingKept == \A d \in open :
    LET c == d[1] IN
    pc[c] \in AtRest => \/ d[2] = "socket"
                        \/ d[2] = "file" /\ (d[3] = count[c] => LosesFile(c))

\* Whatever the threads do in getInstance at the same time, none goes on with an instance
\* that is not completely constructed.
InstanceComplete == \A c \in Clients : pc[c] \in {"cert", "m3"} => instance \in made

\* Nobody is logged in by a login that could not open one of its files, and who is told
\* so has a thread in run().
LoginsAgree == \A c \in Clients :
    told[c] = "in" /\ count[c] = 0 => pc[c] = "run" /\ c \notin blind

\* A stored file is moved or removed only as its user asked, and replaced or emptied only by
\* a request for which the table was full when it looked for the file.
LossOnlyWhenFull == [][
    \A c \in Clients, f \in Names : Exists(c, f) /\ dir'[c][f] # dir[c][f] =>
        \/ c \in blind
        \/ op[c].kind = "delete" /\ op[c].name = f
        \/ op[c].kind = "rename" /\ op[c].name = f /\ dir'[c][op[c].new] = dir[c][f]
        \/ op[c].kind = "upload" /\ op[c].name = f /\ Holds(c, "file") ]_vars

\* What nobody closes any more.
Lasting == {d \in open : d[2] = "socket" \/ (d[2] = "file" /\ pc[d[1]] \in AtRest)}

\* A client that has connected is served, unless the process has ended or the sockets and
\* lost files of earlier sessions fill the table for ever.
Served == \A c \in Clients :
    (\E i \in 1..Len(queue) : queue[i] = c) ~>
        (pc[c] # "none" \/ ~up \/ earlier + Cardinality(Lasting) = Table)

-----------------------------------------------------------------------------
(* What the documentation says and the code does not do.                    *)

\* Server.cpp:764: "If the file is already present create the message with
\* FILE_ALREADY_EXISTS".
RenameSeesFile == [][
    \A c \in Clients : pc[c] = "renMove" /\ pc'[c] # "renMove" =>
        ~Exists(c, op[c].new) \/ op[c].new = op[c].name ]_vars

=============================================================================

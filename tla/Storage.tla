------------------------------ MODULE Storage ------------------------------
(***************************************************************************)
(* Several sessions of one user on one directory ../data/<user>: the part   *)
(* of the handlers of Server.cpp that touches the file system, at the       *)
(* granularity of its calls.  isFilePresent, open, write, close, rename and *)
(* remove are one step each, and the threads of the sessions interleave     *)
(* between them.  The exchange of messages around them is in Session.       *)
(***************************************************************************)
EXTENDS Integers, Sequences, FiniteSets

CONSTANTS
    Sessions,      \* the server threads of this user
    Names,         \* file names
    MaxChunks,     \* bound: uploads have at most this many chunks
    OldSizes,      \* bound: chunks of the files that were there before, 0 for none
    MaxOps,        \* bound: requests per session
    MayRestart     \* may the server process end and start again?

ASSUME BoundsAssumption == MaxChunks \in Nat \ {0} /\ MaxOps \in Nat
ASSUME RestartAssumption == MayRestart \in BOOLEAN
ASSUME NamesAssumption == Names # {} /\ Names \cap {"none", "hole", "stale"} = {}
ASSUME OldSizesAssumption == OldSizes \subseteq Nat

VARIABLES
    dir,      \* name -> the file (inode) it stands for
    data,     \* file -> the chunks it holds
    pc,       \* session -> the next file system call, or where it receives
    op,       \* session -> its operation in progress, or the last one
    res,      \* session -> what its client was answered
    count,    \* session -> requests so far
    writers,  \* history: file -> the uploads that opened it
    steady    \* history: the sessions whose names no other session has changed the
              \*   meaning of, in entry or in content, since their request

vars == <<dir, data, pc, op, res, count, writers, steady>>

\* An upload is known by its session and number; it gives its name to the file it
\* creates and to the chunks it writes.  Files that were there before are "old".
Uploads == Sessions \X (1..MaxOps)
Old(f) == <<f, 0>>
Files == Uploads \cup {Old(f) : f \in Names}
None == <<"none", 0>>
Hole == <<"hole", 0>>      \* zeros that nobody wrote
Stale == <<"stale", 0>>    \* whatever the buffer of a read past the end held
Chunks == Files \cup {Hole, Stale}

Idle == [kind |-> "none", name |-> CHOOSE f \in Names : TRUE,
         new |-> CHOOSE f \in Names : TRUE, id |-> None, node |-> None,
         size |-> 0, next |-> 0, buf |-> FALSE, got |-> <<>>]

Init ==
    /\ \E old \in [Names -> OldSizes] :
         /\ dir = [f \in Names |-> IF old[f] = 0 THEN None ELSE Old(f)]
         /\ data = [i \in Files |-> IF i \in Uploads THEN <<>>
                                    ELSE [k \in 1..old[i[1]] |-> i]]
    /\ pc = [s \in Sessions |-> "run"] /\ op = [s \in Sessions |-> Idle]
    /\ res = [s \in Sessions |-> "none"] /\ count = [s \in Sessions |-> 0]
    /\ writers = [i \in Files |-> {i}]
    /\ steady = {}

\* FileManager::isFilePresent.
Present(f) == dir[f] # None
Content(f) == IF Present(f) THEN data[dir[f]] ELSE <<>>

Goto(s, from, to) == pc[s] = from /\ pc' = [pc EXCEPT ![s] = to]

\* The handler answers and returns to run().
Answer(s, from, code) == Goto(s, from, "run") /\ res' = [res EXCEPT ![s] = code]

With(s, o) == op' = [op EXCEPT ![s] = o]

files == <<dir, data, writers>>

-----------------------------------------------------------------------------
(* Server::run takes a request; what happens before the first look at the   *)
(* directory is part of this step.                                          *)

Request(s, o, to) ==
    /\ count[s] < MaxOps
    /\ Goto(s, "run", to)
    /\ With(s, o)
    /\ count' = [count EXCEPT ![s] = @ + 1]
    /\ res' = [res EXCEPT ![s] = "none"]
    /\ UNCHANGED files

\* deleteRequest asks for the confirmation without a look.
Requests(s) == \E f, g \in Names, n \in 1..MaxChunks :
    \/ Request(s, [Idle EXCEPT !.kind = "upload", !.name = f, !.new = f, !.size = n,
                               !.id = <<s, count[s] + 1>>], "upM2")
    \/ Request(s, [Idle EXCEPT !.kind = "download", !.name = f, !.new = f], "downM2")
    \/ Request(s, [Idle EXCEPT !.kind = "rename", !.name = f, !.new = g], "renOld")
    \/ Request(s, [Idle EXCEPT !.kind = "delete", !.name = f, !.new = f], "delM3")

-----------------------------------------------------------------------------
(* uploadRequest.                                                           *)

\* (Faulty: every upload is accepted.)
UpM2_Unchecked(s) ==
    /\ Goto(s, "upM2", "upLook")
    /\ UNCHANGED <<files, op, res, count>>

UpM2(s) ==
    /\ IF Present(op[s].name) THEN Answer(s, "upM2", "NACK")
       ELSE Goto(s, "upM2", "upLook") /\ UNCHANGED res
    /\ UNCHANGED <<files, op, count>>

\* openFile looks again; if the file is there now, the failure is only logged.
UpLook(s) ==
    /\ Goto(s, "upLook", IF Present(op[s].name) THEN "upMi" ELSE "upCreate")
    /\ UNCHANGED <<files, op, res, count>>

\* ofstream::open creates the file or truncates the one that is there by now.
UpCreate(s) ==
    LET f == op[s].name
        i == IF Present(f) THEN dir[f] ELSE op[s].id
    IN  /\ Goto(s, "upCreate", "upMi")
        /\ dir' = [dir EXCEPT ![f] = i]
        /\ data' = [data EXCEPT ![i] = <<>>]
        /\ writers' = [writers EXCEPT ![i] = @ \cup {op[s].id}]
        /\ With(s, [op[s] EXCEPT !.node = i])
        /\ UNCHANGED <<res, count>>

Larger(m, n) == IF m > n THEN m ELSE n

\* A chunk goes where the stream stands, whatever another stream did to the file.
Written(q, k, chunk) ==
    [j \in 1..Larger(k, Len(q)) |->
        IF j = k THEN chunk ELSE IF j <= Len(q) THEN q[j] ELSE Hole]

\* A chunk arrives and is written.  The last one, if it is short, may stay in the
\* stream's buffer; nothing is written if the stream is not open.
UpMi(s) ==
    LET o == op[s] last == o.next + 1 = o.size IN
    /\ Goto(s, "upMi", IF last THEN "upEnd" ELSE "upMi")
    /\ \E b \in IF last /\ o.node # None THEN BOOLEAN ELSE {FALSE} :
         /\ With(s, [o EXCEPT !.next = @ + 1, !.buf = b])
         /\ data' = IF b \/ o.node = None THEN data
                    ELSE [data EXCEPT ![o.node] = Written(@, o.next + 1, o.id)]
    /\ UNCHANGED <<dir, writers, res, count>>

UpEnd(s) ==
    /\ Goto(s, "upEnd", "upClose")
    /\ res' = [res EXCEPT ![s] = "ACK"]
    /\ UNCHANGED <<files, op, count>>

\* (Faulty: what the stream buffers is lost.)
UpClose_Unflushed(s) ==
    /\ Goto(s, "upClose", "run")
    /\ With(s, [op[s] EXCEPT !.buf = FALSE])
    /\ UNCHANGED <<files, res, count>>

\* The destructor of the FileManager, after the answer.
UpClose(s) ==
    LET o == op[s] IN
    /\ Goto(s, "upClose", "run")
    /\ With(s, [o EXCEPT !.buf = FALSE])
    /\ data' = IF o.buf THEN [data EXCEPT ![o.node] = Written(@, o.next, o.id)] ELSE data
    /\ UNCHANGED <<dir, writers, res, count>>

-----------------------------------------------------------------------------
(* downloadRequest.                                                         *)

DownM2(s) ==
    /\ IF Present(op[s].name) THEN Goto(s, "downM2", "downOpen") /\ UNCHANGED res
       ELSE Answer(s, "downM2", "FILE_NOT_FOUND")
    /\ UNCHANGED <<files, op, count>>

\* If the file cannot be opened any more its size stays 0, which is acknowledged.
DownOpen(s) ==
    /\ IF Present(op[s].name) THEN Goto(s, "downOpen", "downSize") /\ UNCHANGED res
       ELSE Answer(s, "downOpen", "ACK")
    /\ With(s, [op[s] EXCEPT !.node = dir[op[s].name]])
    /\ UNCHANGED <<files, count>>

\* computeFileSize opens the path once more, by its name; the size of a file that is
\* gone is -1 - -1.
DownSize(s) ==
    LET n == Len(Content(op[s].name)) IN
    /\ IF n = 0 THEN Answer(s, "downSize", "ACK")
       ELSE Goto(s, "downSize", "downMi") /\ UNCHANGED res
    /\ With(s, [op[s] EXCEPT !.size = n])
    /\ UNCHANGED <<files, count>>

\* (Faulty: the loop runs once too often.)
DownMi_OneMore(s) ==
    LET o == op[s] k == Len(o.got) + 1 IN
    /\ IF k = o.size + 1 THEN Answer(s, "downMi", "ACK")
       ELSE Goto(s, "downMi", "downMi") /\ UNCHANGED res
    /\ With(s, [o EXCEPT !.got =
                  Append(@, IF k <= Len(data[o.node]) THEN data[o.node][k] ELSE Stale)])
    /\ UNCHANGED <<files, count>>

\* readChunk reports success past the end too; a stream that has failed once reads no
\* more.  What the buffer holds is sent.
DownMi(s) ==
    LET o == op[s]
        k == Len(o.got) + 1
        failed == k > Len(data[o.node]) \/ \E j \in 1..Len(o.got) : o.got[j] = Stale
    IN  /\ IF k = o.size THEN Answer(s, "downMi", "ACK")
           ELSE Goto(s, "downMi", "downMi") /\ UNCHANGED res
        /\ With(s, [o EXCEPT !.got = Append(@, IF failed THEN Stale ELSE data[o.node][k])])
        /\ UNCHANGED <<files, count>>

-----------------------------------------------------------------------------
(* renameRequest.                                                           *)

RenOld(s) ==
    /\ IF Present(op[s].name) THEN Goto(s, "renOld", "renNew") /\ UNCHANGED res
       ELSE Answer(s, "renOld", "FILE_NOT_FOUND")
    /\ UNCHANGED <<files, op, count>>

\* (Faulty: the new name is not looked for.)
RenNew_Unchecked(s) ==
    /\ Goto(s, "renNew", "renMove")
    /\ UNCHANGED <<files, op, res, count>>

RenNew(s) ==
    /\ IF Present(op[s].new) THEN Answer(s, "renNew", "FILE_ALREADY_EXISTS")
       ELSE Goto(s, "renNew", "renMove") /\ UNCHANGED res
    /\ UNCHANGED <<files, op, count>>

\* rename(2) fails if the old name is gone and replaces the new one if it is there.
RenMove(s) ==
    LET o == op[s] IN
    /\ Answer(s, "renMove", IF Present(o.name) THEN "ACK" ELSE "NACK")
    /\ dir' = IF Present(o.name)
              THEN [dir EXCEPT ![o.name] = None, ![o.new] = dir[o.name]] ELSE dir
    /\ UNCHANGED <<data, writers, op, count>>

-----------------------------------------------------------------------------
(* deleteRequest.                                                           *)

DelM3(s) ==
    /\ \/ Goto(s, "delM3", "delLook") /\ UNCHANGED res
       \/ Answer(s, "delM3", "NO_DELETE_CONFIRM")
    /\ UNCHANGED <<files, op, count>>

\* Without an answer the client never asks again: its session has come to its end.
DelLook(s) ==
    /\ Goto(s, "delLook", IF Present(op[s].name) THEN "delRemove" ELSE "silent")
    /\ UNCHANGED <<files, op, res, count>>

DelRemove(s) ==
    /\ IF Present(op[s].name) THEN Answer(s, "delRemove", "ACK")
       ELSE Goto(s, "delRemove", "silent") /\ UNCHANGED res
    /\ dir' = [dir EXCEPT ![op[s].name] = None]
    /\ UNCHANGED <<data, writers, op, count>>

-----------------------------------------------------------------------------
\* The client is gone when the handler receives; an upload's file stays as it is.
Vanish(s) ==
    /\ \E from \in {"upMi", "delM3"} : Goto(s, from, "gone")
    /\ UNCHANGED <<files, op, res, count>>

Step(s) ==
    \/ Requests(s)
    \/ UpM2(s) \/ UpLook(s) \/ UpCreate(s) \/ UpMi(s) \/ UpEnd(s) \/ UpClose(s)
    \/ DownM2(s) \/ DownOpen(s) \/ DownSize(s) \/ DownMi(s)
    \/ RenOld(s) \/ RenNew(s) \/ RenMove(s)
    \/ DelM3(s) \/ DelLook(s) \/ DelRemove(s)
    \/ Vanish(s)

\* The process ends and is started again; what streams buffer is lost.
Restart ==
    /\ MayRestart
    /\ \E s \in Sessions : pc[s] # "run"
    /\ pc' = [s \in Sessions |-> "run"] /\ op' = [s \in Sessions |-> Idle]
    /\ steady' = {}
    /\ UNCHANGED <<files, res, count>>

\* What the names of session t's operation stand for.
View(t) == [f \in {op[t].name, op[t].new} |-> <<dir[f], Content(f)>>]

Undisturbed(s) ==
    steady' = {t \in steady : t # s => View(t)' = View(t)}
                \cup IF pc[s] = "run" THEN {s} ELSE {}

Next == (\E s \in Sessions : Step(s) /\ Undisturbed(s)) \/ Restart

Spec == Init /\ [][Next]_vars

-----------------------------------------------------------------------------
(* Properties.                                                              *)

Kinds == {"none", "upload", "download", "rename", "delete"}
Pcs == {"run", "upM2", "upLook", "upCreate", "upMi", "upEnd", "upClose", "downM2",
        "downOpen", "downSize", "downMi", "renOld", "renNew", "renMove", "delM3", "delLook",
        "delRemove", "silent", "gone"}
Operations ==
    [kind : Kinds, name : Names, new : Names, id : Uploads \cup {None},
     node : Files \cup {None}, size : Nat, next : Nat, buf : BOOLEAN, got : Seq(Chunks)]
Answers == {"none", "ACK", "NACK", "FILE_NOT_FOUND", "FILE_ALREADY_EXISTS",
            "NO_DELETE_CONFIRM"}

\* Every variable keeps its range, and no transfer moves more chunks than were announced,
\* also when the file changes under the loops of uploadRequest and downloadRequest.
TypeOK ==
    /\ dir \in [Names -> Files \cup {None}] /\ data \in [Files -> Seq(Chunks \ {Stale})]
    /\ pc \in [Sessions -> Pcs] /\ op \in [Sessions -> Operations]
    /\ \A s \in Sessions : op[s].next <= op[s].size /\ Len(op[s].got) <= op[s].size
    /\ res \in [Sessions -> Answers] /\ count \in [Sessions -> 0..MaxOps]
    /\ writers \in [Files -> SUBSET Files] /\ steady \subseteq Sessions

Whole(u, n) == [k \in 1..n |-> u]

\* As long as an upload is the only one that ever opened its file, the file is exactly
\* the chunks received so far (but for what the stream buffers), and after the upload all
\* of them: no rename, remove or second upload of the name by another session, and no
\* upload that goes on without an open stream, puts a chunk into it or takes one away.
AloneIsWhole == \A s \in Sessions :
    LET o == op[s] IN
    o.kind = "upload" /\ o.node # None /\ writers[o.node] = {o.id} =>
        /\ o.buf => pc[s] \in {"upEnd", "upClose"}
        /\ data[o.node] = Whole(o.id, IF o.buf THEN o.next - 1 ELSE o.next)

\* What an atomic operation would have answered and done in this step.
Atomic(s) ==
    LET o == op'[s] f == o.name code == res'[s] IN
    CASE o.kind = "upload" ->
           IF code = "ACK" THEN dir'[f] # None /\ data'[dir'[f]] = Whole(o.id, o.size)
                           ELSE Present(f) /\ dir' = dir
      [] o.kind = "download" ->
           IF code = "ACK" THEN Present(f) /\ o.got = Content(f) ELSE ~Present(f)
      [] o.kind = "rename" ->
           IF code = "ACK"
           THEN /\ Present(f) /\ ~Present(o.new)
                /\ dir' = [dir EXCEPT ![f] = None, ![o.new] = dir[f]]
           ELSE \/ code = "FILE_NOT_FOUND" /\ ~Present(f)
                \/ code = "FILE_ALREADY_EXISTS" /\ Present(f) /\ Present(o.new)
      [] o.kind = "delete" ->
           IF pc'[s] = "silent" THEN ~Present(f)
           ELSE code = "ACK" => Present(f) /\ dir' = [dir EXCEPT ![f] = None]
      [] OTHER -> TRUE

\* An operation that no other session disturbed, by changing what its names stand for
\* since the request, behaves as if its handler were one atomic step: its answer is true
\* of the directory, a download is the file, an acknowledged upload is stored whole.
AtomicIfSteady == [][
    \A s \in steady \cap steady' :
        pc[s] # "run" /\ pc'[s] \in {"run", "silent"} => Atomic(s) ]_vars

\* A stored file loses its name or its content only to a confirmed delete of that name, or
\* to a rename or an upload that looked for the name in vain before another session gave
\* it to the file: what has been there unchanged since a request came in is never replaced
\* or emptied by it.
NothingLost == [][
    \A f \in Names :
        LET i == dir[f]
            unnamed == \A g \in Names : dir'[g] # i
            emptied == data[i] # <<>> /\ data'[i] = <<>>
        IN  i # None /\ (unnamed \/ emptied) =>
              \E s \in Sessions :
                  \/ pc[s] = "delRemove" /\ op[s].name = f
                  \/ s \notin steady /\ pc[s] = "renMove" /\ op[s].new = f
                  \/ s \notin steady /\ pc[s] = "upCreate" /\ op[s].name = f ]_vars

-----------------------------------------------------------------------------
(* What the documentation says and the code does not do.                    *)

\* Client.cpp:904: "A file with the new file name already exists in the storage!"; a
\* rename does not replace a file.  README.md:71-72: "The server saves the uploaded file
\* with the filename specified by the user."; when the handler of an acknowledged upload
\* returns, it has opened the file and what the file holds is the upload.
AnswersTrue == [][
    \A s \in Sessions : LET o == op[s] IN
        /\ pc[s] = "renMove" /\ dir' # dir => ~Present(o.new) \/ o.new = o.name
        /\ pc[s] = "upClose" /\ pc'[s] = "run" =>
             o.node # None /\ data'[o.node] = Whole(o.id, o.size) ]_vars

=============================================================================

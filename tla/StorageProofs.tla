--------------------------- MODULE StorageProofs ---------------------------
(***************************************************************************)
(* Theorems about Storage, for any number of sessions, names, chunks and   *)
(* requests, with and without restarts of the server.                      *)
(***************************************************************************)
EXTENDS Storage, SequenceTheorems, TLAPS

-----------------------------------------------------------------------------
(* What the definitions of data return.                                     *)

\* The marks that are no upload's and no file's.
LEMMA Marks ==
    /\ None \notin Uploads /\ Hole \notin Uploads /\ Stale \notin Uploads
    /\ \A f \in Names : Old(f) \notin {None, Hole, Stale} /\ Old(f) \notin Uploads
    /\ Hole # Stale
  BY NamesAssumption, BoundsAssumption DEF None, Hole, Stale, Old, Uploads

\* Idle is an operation.
LEMMA IdleTypes ==
    /\ Idle \in Operations /\ Idle.kind = "none" /\ Idle.node = None
    /\ Idle.size = 0 /\ Idle.next = 0 /\ Idle.buf = FALSE /\ Idle.got = <<>>
  <1>1. (CHOOSE f \in Names : TRUE) \in Names
    BY NamesAssumption
  <1>2. <<>> \in Seq(Chunks)
    OBVIOUS
  <1> QED BY <1>1, <1>2 DEF Idle, Operations, Kinds

\* An upload that is written chunk by chunk is a sequence of its own chunks.
LEMMA WholeTypes ==
    ASSUME NEW u, NEW n \in Nat
    PROVE  Whole(u, n) \in Seq({u}) /\ Len(Whole(u, n)) = n
  BY DEF Whole

\* Writing where a stream stands leaves a file, and never an empty one.
LEMMA WrittenTypes ==
    ASSUME NEW S, NEW q \in Seq(S), NEW k \in Nat \ {0}, NEW c \in S, Hole \in S
    PROVE  Written(q, k, c) \in Seq(S) /\ Written(q, k, c) # <<>>
  <1>1. Larger(k, Len(q)) \in Nat \ {0}
    BY DEF Larger
  <1>2. \A j \in 1..Larger(k, Len(q)) :
            (IF j = k THEN c ELSE IF j <= Len(q) THEN q[j] ELSE Hole) \in S
    BY <1>1
  <1>3. Written(q, k, c) \in [1..Larger(k, Len(q)) -> S]
    BY <1>2 DEF Written
  <1>4. Written(q, k, c) \in Seq(S) /\ Len(Written(q, k, c)) = Larger(k, Len(q))
    BY <1>1, <1>3
  <1> QED BY <1>1, <1>4

\* The next chunk after n chunks of an upload makes n + 1 of them.
LEMMA WrittenWhole ==
    ASSUME NEW u, NEW n \in Nat
    PROVE  Written(Whole(u, n), n + 1, u) = Whole(u, n + 1)
  <1>1. Len(Whole(u, n)) = n
    BY WholeTypes
  <1>2. Larger(n + 1, n) = n + 1
    BY DEF Larger
  <1>3. \A j \in 1..(n + 1) : j # n + 1 => j <= n /\ Whole(u, n)[j] = u
    BY DEF Whole
  <1> QED BY <1>1, <1>2, <1>3 DEF Written, Whole

-----------------------------------------------------------------------------
(* Where a session is in its operation, and what it knows there.            *)

\* Session s at place p of its request number n, with the operation o and writers w.
Place(s, p, o, n, w) ==
    /\ o.kind = "upload" => o.id = <<s, n>> /\ o.id \in Uploads
    /\ o.kind # "upload" => o.next = 0
    /\ o.kind = "upload" /\ o.node # None => o.id \in w[o.node]
    /\ o.buf => p \in {"upEnd", "upClose"} /\ o.node # None
    /\ p \in {"upM2", "upLook", "upCreate"} =>
         o.kind = "upload" /\ o.node = None /\ o.next = 0 /\ o.size # 0
    /\ p = "upMi" => o.kind = "upload" /\ o.next < o.size
    /\ p \in {"upEnd", "upClose"} => o.kind = "upload" /\ o.next = o.size /\ o.size # 0
    /\ p \in {"downM2", "downOpen", "downSize"} => o.kind # "upload" /\ o.got = <<>>
    /\ p \in {"downSize", "downMi"} => o.node # None
    /\ p = "downMi" => o.kind # "upload" /\ Len(o.got) < o.size

Places == \A s \in Sessions : Place(s, pc[s], op[s], count[s], writers)

\* The part of TypeOK about the sessions, and the part about the files.
SessionsOK ==
    /\ pc \in [Sessions -> Pcs] /\ op \in [Sessions -> Operations]
    /\ \A s \in Sessions : op[s].next <= op[s].size /\ Len(op[s].got) <= op[s].size
    /\ count \in [Sessions -> 0..MaxOps]

FilesOK ==
    /\ dir \in [Names -> Files \cup {None}] /\ data \in [Files -> Seq(Chunks \ {Stale})]
    /\ writers \in [Files -> SUBSET Files]

RestOK == res \in [Sessions -> Answers] /\ steady \subseteq Sessions

Typed == SessionsOK /\ FilesOK /\ RestOK /\ Places

\* A step of session s that takes it to place p with operation o as its request n, where
\* that is in order, leaves all sessions in order.
LEMMA OneSession ==
    ASSUME SessionsOK, FilesOK, Places, NEW s \in Sessions,
           NEW p \in Pcs, NEW o \in Operations, NEW n \in 0..MaxOps,
           pc' = [pc EXCEPT ![s] = p], op' = [op EXCEPT ![s] = o],
           count' = [count EXCEPT ![s] = n],
           o.next <= o.size, Len(o.got) <= o.size,
           \A i \in Files : writers[i] \subseteq writers'[i],
           Place(s, p, o, n, writers')
    PROVE  SessionsOK' /\ Places'
  <1>1. SessionsOK'
    BY DEF SessionsOK
  <1>2. ASSUME NEW t \in Sessions
        PROVE  Place(t, pc'[t], op'[t], count'[t], writers')
    <2>1. CASE t = s
      BY <2>1 DEF SessionsOK
    <2>2. CASE t # s
      <3>1. pc'[t] = pc[t] /\ op'[t] = op[t] /\ count'[t] = count[t]
        BY <2>2 DEF SessionsOK
      <3>2. Place(t, pc[t], op[t], count[t], writers)
        BY DEF Places
      <3>3. op[t] \in Operations
        BY DEF SessionsOK
      <3>4. op[t].node # None => writers[op[t].node] \subseteq writers'[op[t].node]
        BY <3>3 DEF Operations
      <3> QED BY <3>1, <3>2, <3>4 DEF Place
    <2> QED BY <2>1, <2>2
  <1> QED BY <1>1, <1>2 DEF Places

\* A handler at place p that goes on at q with operation o, or answers, and leaves the
\* files alone.
LEMMA Moves ==
    ASSUME Typed, NEW s \in Sessions, NEW q \in Pcs, NEW o \in Operations,
           pc' = [pc EXCEPT ![s] = q], op' = [op EXCEPT ![s] = o],
           UNCHANGED <<files, count>>,
           o.next <= o.size, Len(o.got) <= o.size,
           Place(s, q, o, count[s], writers),
           res' \in [Sessions -> Answers]
    PROVE  SessionsOK' /\ Places' /\ FilesOK' /\ res' \in [Sessions -> Answers]
  <1>1. count' = [count EXCEPT ![s] = count[s]] /\ count[s] \in 0..MaxOps
    BY DEF Typed, SessionsOK
  <1>2. writers' = writers /\ FilesOK'
    BY DEF files, Typed, FilesOK
  <1>3. \A i \in Files : writers[i] \subseteq writers'[i]
    BY <1>2
  <1>4. Place(s, q, o, count[s], writers')
    BY <1>2
  <1>5. SessionsOK' /\ Places'
    BY <1>1, <1>3, <1>4, OneSession DEF Typed
  <1> QED BY <1>2, <1>5

\* A request is taken by a session in run().
LEMMA RequestTyped ==
    ASSUME Typed, NEW s \in Sessions, Requests(s)
    PROVE  SessionsOK' /\ Places' /\ FilesOK' /\ res' \in [Sessions -> Answers]
  <1>1. PICK f \in Names, g \in Names, n \in 1..MaxChunks :
      \/ Request(s, [Idle EXCEPT !.kind = "upload", !.name = f, !.new = f, !.size = n,
                                 !.id = <<s, count[s] + 1>>], "upM2")
      \/ Request(s, [Idle EXCEPT !.kind = "download", !.name = f, !.new = f], "downM2")
      \/ Request(s, [Idle EXCEPT !.kind = "rename", !.name = f, !.new = g], "renOld")
      \/ Request(s, [Idle EXCEPT !.kind = "delete", !.name = f, !.new = f], "delM3")
    BY DEF Requests
  <1>2. PICK o, to : Request(s, o, to) /\
      \/ o = [Idle EXCEPT !.kind = "upload", !.name = f, !.new = f, !.size = n,
                          !.id = <<s, count[s] + 1>>] /\ to = "upM2"
      \/ o = [Idle EXCEPT !.kind = "download", !.name = f, !.new = f] /\ to = "downM2"
      \/ o = [Idle EXCEPT !.kind = "rename", !.name = f, !.new = g] /\ to = "renOld"
      \/ o = [Idle EXCEPT !.kind = "delete", !.name = f, !.new = f] /\ to = "delM3"
    BY <1>1
  <1>3. count[s] + 1 \in 1..MaxOps
    BY <1>2, BoundsAssumption DEF Request, Typed, SessionsOK
  <1>4. <<s, count[s] + 1>> \in Uploads /\ n \in Nat \ {0}
    BY <1>3, BoundsAssumption DEF Uploads
  <1>5. o \in Operations /\ to \in Pcs /\ o.next = 0 /\ o.got = <<>>
    <2>1. to \in Pcs
      BY <1>2 DEF Pcs
    <2>2. o.next = 0 /\ o.got = <<>>
      BY <1>2, IdleTypes DEF Operations
    <2>3. {"upload", "download", "rename", "delete"} \subseteq Kinds
      BY DEF Kinds
    <2>4. o \in Operations
      <3>1. [Idle EXCEPT !.kind = "upload", !.name = f, !.new = f, !.size = n,
                         !.id = <<s, count[s] + 1>>] \in Operations
        BY <1>4, <2>3, IdleTypes DEF Operations
      <3>2. /\ [Idle EXCEPT !.kind = "download", !.name = f, !.new = f] \in Operations
            /\ [Idle EXCEPT !.kind = "rename", !.name = f, !.new = g] \in Operations
            /\ [Idle EXCEPT !.kind = "delete", !.name = f, !.new = f] \in Operations
        BY <2>3, IdleTypes DEF Operations
      <3> QED BY <1>2, <3>1, <3>2
    <2> QED BY <2>1, <2>2, <2>4
  <1>6. o.next <= o.size /\ Len(o.got) <= o.size
    BY <1>5 DEF Operations
  <1>7. Place(s, to, o, count[s] + 1, writers)
    <2>1. CASE to = "upM2"
      <3>1. o.kind = "upload" /\ o.id = <<s, count[s] + 1>> /\ o.size = n
        BY <1>2, <2>1, IdleTypes DEF Operations
      <3>2. o.node = None /\ o.next = 0 /\ o.buf = FALSE
        BY <1>2, <2>1, IdleTypes DEF Operations
      <3> QED BY <1>4, <2>1, <3>1, <3>2 DEF Place
    <2>2. CASE to # "upM2"
      <3>1. o.kind # "upload" /\ o.node = None /\ o.next = 0 /\ o.buf = FALSE /\ o.got = <<>>
        BY <1>2, <2>2, IdleTypes DEF Operations
      <3>2. to \in {"downM2", "renOld", "delM3"}
        BY <1>2, <2>2
      <3> QED BY <3>1, <3>2 DEF Place
    <2> QED BY <2>1, <2>2
  <1>8. /\ pc' = [pc EXCEPT ![s] = to] /\ op' = [op EXCEPT ![s] = o]
        /\ count' = [count EXCEPT ![s] = count[s] + 1] /\ UNCHANGED files
    BY <1>2 DEF Request, Goto, With, Typed, SessionsOK
  <1>9. writers' = writers /\ FilesOK'
    BY <1>8 DEF files, Typed, FilesOK
  <1>10. SessionsOK' /\ Places'
    <2>1. /\ Place(s, to, o, count[s] + 1, writers')
          /\ \A i \in Files : writers[i] \subseteq writers'[i]
      BY <1>7, <1>9
    <2>2. count[s] + 1 \in 0..MaxOps
      BY <1>3
    <2> QED BY <1>5, <1>6, <1>8, <2>1, <2>2, OneSession DEF Typed
  <1>11. res' \in [Sessions -> Answers]
    BY <1>2 DEF Request, Typed, RestOK, Answers
  <1> QED BY <1>9, <1>10, <1>11

\* Where a session is, what it does is an operation, and so are its successors.
LEMMA Here ==
    ASSUME Typed, NEW s \in Sessions
    PROVE  /\ op[s] \in Operations /\ pc[s] \in Pcs
           /\ op[s].next <= op[s].size /\ Len(op[s].got) <= op[s].size
           /\ Place(s, pc[s], op[s], count[s], writers)
           /\ op = [op EXCEPT ![s] = op[s]]
  BY DEF Typed, SessionsOK, Places

\* Renaming a field of an operation gives an operation.
LEMMA OperationTypes ==
    ASSUME NEW o \in Operations
    PROVE  /\ \A i \in Files \cup {None} : [o EXCEPT !.node = i] \in Operations
           /\ \A n \in Nat : [o EXCEPT !.size = n] \in Operations
           /\ \A b \in BOOLEAN : [o EXCEPT !.buf = b] \in Operations
           /\ \A b \in BOOLEAN : [o EXCEPT !.next = @ + 1, !.buf = b] \in Operations
           /\ \A c \in Chunks : [o EXCEPT !.got = Append(@, c)] \in Operations
  <1>1. \A i \in Files \cup {None} : [o EXCEPT !.node = i] \in Operations
    BY DEF Operations
  <1>2. \A n \in Nat : [o EXCEPT !.size = n] \in Operations
    BY DEF Operations
  <1>3. \A b \in BOOLEAN : [o EXCEPT !.buf = b] \in Operations
    BY DEF Operations
  <1>4. \A b \in BOOLEAN : [o EXCEPT !.next = @ + 1, !.buf = b] \in Operations
    <2>1. [o EXCEPT !.next = @ + 1] \in Operations
      BY DEF Operations
    <2>2. \A b \in BOOLEAN : [[o EXCEPT !.next = @ + 1] EXCEPT !.buf = b] \in Operations
      BY <2>1 DEF Operations
    <2> QED BY <2>2
  <1>5. \A c \in Chunks : [o EXCEPT !.got = Append(@, c)] \in Operations
    <2>1. \A c \in Chunks : Append(o.got, c) \in Seq(Chunks)
      BY DEF Operations
    <2> QED BY <2>1 DEF Operations
  <1> QED BY <1>1, <1>2, <1>3, <1>4, <1>5

\* The steps of a handler that only look and answer.
LEMMA LooksTyped ==
    ASSUME Typed, NEW s \in Sessions,
           \/ UpM2(s) \/ UpLook(s) \/ UpEnd(s) \/ DownM2(s)
           \/ RenOld(s) \/ RenNew(s) \/ DelM3(s) \/ DelLook(s) \/ Vanish(s)
    PROVE  SessionsOK' /\ Places' /\ FilesOK' /\ res' \in [Sessions -> Answers]
  <1>1. PICK q : pc' = [pc EXCEPT ![s] = q] /\ UNCHANGED <<files, op, count>>
             /\ \/ pc[s] = "upM2" /\ q \in {"run", "upLook"}
                \/ pc[s] = "upLook" /\ q \in {"upMi", "upCreate"}
                \/ pc[s] = "upEnd" /\ q = "upClose"
                \/ pc[s] = "downM2" /\ q \in {"run", "downOpen"}
                \/ pc[s] = "renOld" /\ q \in {"run", "renNew"}
                \/ pc[s] = "renNew" /\ q \in {"run", "renMove"}
                \/ pc[s] = "delM3" /\ q \in {"run", "delLook", "gone"}
                \/ pc[s] = "delLook" /\ q \in {"delRemove", "silent"}
                \/ pc[s] = "upMi" /\ q = "gone"
    BY DEF UpM2, UpLook, UpEnd, DownM2, RenOld, RenNew, DelM3, DelLook, Vanish, Goto, Answer
  <1>2. q \in Pcs
    BY <1>1 DEF Pcs
  <1>3. Place(s, q, op[s], count[s], writers)
    BY <1>1, Here DEF Place, Operations
  <1>4. res' \in [Sessions -> Answers]
    BY DEF UpM2, UpLook, UpEnd, DownM2, RenOld, RenNew, DelM3, DelLook, Vanish, Answer,
           Typed, RestOK, Answers
  <1>5. op' = [op EXCEPT ![s] = op[s]] /\ UNCHANGED <<files, count>>
    BY <1>1, Here
  <1> QED BY <1>1, <1>2, <1>3, <1>4, <1>5, Here, Moves

\* The size and the chunks of a download.
LEMMA DownloadTyped ==
    ASSUME Typed, NEW s \in Sessions, DownOpen(s) \/ DownSize(s) \/ DownMi(s)
    PROVE  SessionsOK' /\ Places' /\ FilesOK' /\ res' \in [Sessions -> Answers]
  <1>1. res' \in [Sessions -> Answers]
    BY DEF DownOpen, DownSize, DownMi, Answer, Typed, RestOK, Answers
  <1>2. CASE DownOpen(s)
    <2> DEFINE o == [op[s] EXCEPT !.node = dir[op[s].name]]
               q == IF Present(op[s].name) THEN "downSize" ELSE "run"
    <2>1. dir[op[s].name] \in Files \cup {None}
      BY Here DEF Typed, FilesOK, Operations
    <2>2. o \in Operations
      BY <2>1, Here, OperationTypes
    <2>3. pc[s] = "downOpen" /\ pc' = [pc EXCEPT ![s] = q] /\ op' = [op EXCEPT ![s] = o]
          /\ UNCHANGED <<files, count>>
      BY <1>2 DEF DownOpen, Answer, Goto, With
    <2>4. Place(s, q, o, count[s], writers) /\ o.next <= o.size /\ Len(o.got) <= o.size
      BY <2>3, Here DEF Place, Operations, Present
    <2>5. q \in Pcs
      BY DEF Pcs
    <2> HIDE DEF o, q
    <2> QED BY <1>1, <2>2, <2>3, <2>4, <2>5, Moves
  <1>3. CASE DownSize(s)
    <2> DEFINE n == Len(Content(op[s].name))
               o == [op[s] EXCEPT !.size = n]
               q == IF n = 0 THEN "run" ELSE "downMi"
    <2>1. n \in Nat
      <3>1. Content(op[s].name) \in Seq(Chunks \ {Stale})
        <4>1. op[s].name \in Names
          BY Here DEF Operations
        <4>2. CASE Present(op[s].name)
          BY <4>1, <4>2 DEF Typed, FilesOK, Content, Present
        <4>3. CASE ~Present(op[s].name)
          BY <4>3 DEF Content
        <4> QED BY <4>2, <4>3
      <3> QED BY <3>1
    <2>2. o \in Operations
      BY <2>1, Here, OperationTypes
    <2>3. pc[s] = "downSize" /\ pc' = [pc EXCEPT ![s] = q] /\ op' = [op EXCEPT ![s] = o]
          /\ UNCHANGED <<files, count>>
      BY <1>3 DEF DownSize, Answer, Goto, With
    <2>4. op[s].kind # "upload" /\ op[s].got = <<>> /\ ~op[s].buf /\ op[s].node # None
      BY <2>3, Here DEF Place, Operations
    <2>6. Place(s, q, o, count[s], writers) /\ Len(o.got) <= o.size
      BY <2>1, <2>3, <2>4, Here DEF Place, Operations
    <2>7. q \in Pcs
      BY DEF Pcs
    <2>8. o.next <= o.size
      BY <2>1, <2>4, Here DEF Place, Operations
    <2> HIDE DEF o, q
    <2> QED BY <1>1, <2>2, <2>3, <2>6, <2>7, <2>8, Moves
  <1>4. CASE DownMi(s)
    <2> DEFINE k == Len(op[s].got) + 1
               failed == k > Len(data[op[s].node])
                         \/ \E j \in 1..Len(op[s].got) : op[s].got[j] = Stale
               c == IF failed THEN Stale ELSE data[op[s].node][k]
    <2>1. /\ pc[s] = "downMi" /\ UNCHANGED <<files, count>>
          /\ op' = [op EXCEPT ![s] = [op[s] EXCEPT !.got = Append(@, c)]]
      BY <1>4 DEF DownMi, Goto, Answer, With
    <2>2. c \in Chunks
      <3>1. op[s].node \in Files /\ Len(op[s].got) + 1 \in Nat \ {0}
        BY <2>1, Here DEF Operations, Place
      <3>2. data[op[s].node] \in Seq(Chunks \ {Stale})
        BY <3>1 DEF Typed, FilesOK
      <3>3. Len(data[op[s].node]) \in Nat
        BY <3>2
      <3>4. ~failed => data[op[s].node][k] \in Chunks
        BY <3>1, <3>2, <3>3
      <3> QED BY <3>4 DEF Chunks
    <2> HIDE DEF c
    <2> DEFINE o == [op[s] EXCEPT !.got = Append(@, c)]
               q == IF Len(op[s].got) + 1 = op[s].size THEN "run" ELSE "downMi"
    <2>3. o \in Operations
      BY <2>2, Here, OperationTypes
    <2>4. pc' = [pc EXCEPT ![s] = q]
      BY <1>4, <2>1 DEF DownMi, Answer, Goto
    <2>5. Len(op[s].got) < op[s].size /\ op[s].kind # "upload" /\ op[s].next = 0
          /\ ~op[s].buf /\ op[s].node # None
      BY <2>1, Here DEF Place, Operations
    <2>6. Len(o.got) = Len(op[s].got) + 1
      BY <2>2, Here DEF Operations
    <2>7. o.next <= o.size /\ Len(o.got) <= o.size /\ (q = "downMi" => Len(o.got) < o.size)
      BY <2>3, <2>5, <2>6, Here DEF Operations
    <2>8. Place(s, q, o, count[s], writers)
      BY <2>1, <2>5, <2>7, Here DEF Place, Operations
    <2>9. q \in Pcs
      BY DEF Pcs
    <2> HIDE DEF o, q
    <2> QED BY <1>1, <2>1, <2>3, <2>4, <2>7, <2>8, <2>9, Moves DEF o
  <1> QED BY <1>2, <1>3, <1>4

\* A chunk of an upload may be in a file.
LEMMA ChunkTypes ==
    ASSUME NEW u \in Uploads, NEW q \in Seq(Chunks \ {Stale}), NEW k \in Nat \ {0}
    PROVE  Written(q, k, u) \in Seq(Chunks \ {Stale}) /\ Written(q, k, u) # <<>>
  <1>1. u \in Chunks \ {Stale} /\ Hole \in Chunks \ {Stale}
    BY Marks DEF Chunks, Files
  <1> QED BY <1>1, WrittenTypes

\* The file of an upload is opened.
LEMMA CreateTyped ==
    ASSUME Typed, NEW s \in Sessions, UpCreate(s)
    PROVE  SessionsOK' /\ Places' /\ FilesOK' /\ res' \in [Sessions -> Answers]
  <1> DEFINE f == op[s].name
             i == IF Present(f) THEN dir[f] ELSE op[s].id
             o == [op[s] EXCEPT !.node = i]
  <1>1. /\ pc[s] = "upCreate" /\ pc' = [pc EXCEPT ![s] = "upMi"]
        /\ dir' = [dir EXCEPT ![f] = i] /\ data' = [data EXCEPT ![i] = <<>>]
        /\ writers' = [writers EXCEPT ![i] = @ \cup {op[s].id}]
        /\ op' = [op EXCEPT ![s] = o] /\ UNCHANGED <<res, count>>
    BY DEF UpCreate, Goto, With
  <1>2. /\ op[s].kind = "upload" /\ op[s].next = 0 /\ op[s].size # 0 /\ ~op[s].buf
        /\ op[s].id = <<s, count[s]>> /\ op[s].id \in Uploads
    BY <1>1, Here DEF Place, Operations
  <1>3. f \in Names /\ i \in Files /\ i # None
    <2>1. f \in Names
      BY Here DEF Operations
    <2>2. op[s].id \in Files /\ op[s].id # None
      BY <1>2, Marks DEF Files
    <2> QED BY <2>1, <2>2 DEF Present, Typed, FilesOK
  <1>4. o \in Operations
    BY <1>3, Here, OperationTypes
  <1>5. FilesOK'
    <2>1. <<>> \in Seq(Chunks \ {Stale}) /\ op[s].id \in Files
      BY <1>2 DEF Files
    <2> QED BY <1>1, <1>3, <2>1 DEF Typed, FilesOK
  <1>6. (\A j \in Files : writers[j] \subseteq writers'[j]) /\ op[s].id \in writers'[i]
    BY <1>1, <1>3 DEF Typed, FilesOK
  <1>7. o.next <= o.size /\ Len(o.got) <= o.size /\ o.next < o.size
    BY <1>2, Here DEF Operations
  <1>8. Place(s, "upMi", o, count[s], writers')
    BY <1>2, <1>3, <1>6, <1>7, Here DEF Place, Operations
  <1>9. count' = [count EXCEPT ![s] = count[s]] /\ count[s] \in 0..MaxOps /\ "upMi" \in Pcs
    BY <1>1 DEF Typed, SessionsOK, Pcs
  <1> HIDE DEF f, i, o
  <1>10. SessionsOK' /\ Places'
    BY <1>1, <1>4, <1>6, <1>7, <1>8, <1>9, OneSession DEF Typed
  <1> QED BY <1>1, <1>5, <1>10 DEF Typed, RestOK

\* A chunk is written, now or when the stream is closed.
LEMMA DataTyped ==
    ASSUME Typed, NEW s \in Sessions, NEW k \in Nat \ {0}, op[s].kind = "upload",
           \/ data' = data
           \/ op[s].node # None
                /\ data' = [data EXCEPT ![op[s].node] = Written(data[op[s].node], k, op[s].id)]
    PROVE  data' \in [Files -> Seq(Chunks \ {Stale})]
  <1>1. op[s].id \in Uploads /\ (op[s].node # None => op[s].node \in Files)
    BY Here DEF Place, Operations
  <1>2. data \in [Files -> Seq(Chunks \ {Stale})]
    BY DEF Typed, FilesOK
  <1>3. op[s].node # None =>
          Written(data[op[s].node], k, op[s].id) \in Seq(Chunks \ {Stale})
    <2>1. op[s].node # None => data[op[s].node] \in Seq(Chunks \ {Stale})
      BY <1>1, <1>2
    <2> QED BY <1>1, <2>1, ChunkTypes
  <1> QED BY <1>1, <1>2, <1>3

\* The session goes on at q with its next chunk n, and buffers the last one or not.
LEMMA Writes ==
    ASSUME Typed, NEW s \in Sessions, op[s].kind = "upload",
           NEW q \in {"upMi", "upEnd", "run"}, NEW n \in Nat, NEW b \in BOOLEAN,
           pc' = [pc EXCEPT ![s] = q],
           op' = [op EXCEPT ![s] = [op[s] EXCEPT !.next = n, !.buf = b]],
           UNCHANGED <<dir, writers, count>>,
           data' \in [Files -> Seq(Chunks \ {Stale})], n <= op[s].size,
           b => q = "upEnd" /\ op[s].node # None,
           q = "upMi" => n < op[s].size,
           q = "upEnd" => n = op[s].size /\ n # 0
    PROVE  SessionsOK' /\ Places' /\ FilesOK'
  <1> DEFINE o == [op[s] EXCEPT !.next = n, !.buf = b]
  <1>1. o \in Operations
    BY Here DEF Operations
  <1>2. o.next <= o.size /\ Len(o.got) <= o.size
    BY Here DEF Operations
  <1>3. Place(s, q, o, count[s], writers')
    BY Here DEF Place, Operations
  <1>4. FilesOK'
    BY DEF Typed, FilesOK
  <1>5. count' = [count EXCEPT ![s] = count[s]] /\ count[s] \in 0..MaxOps /\ q \in Pcs
        /\ \A i \in Files : writers[i] \subseteq writers'[i]
    BY DEF Typed, SessionsOK, Pcs
  <1>6. op' = [op EXCEPT ![s] = o]
    OBVIOUS
  <1> HIDE DEF o
  <1>7. SessionsOK' /\ Places'
    BY <1>1, <1>2, <1>3, <1>5, <1>6, OneSession DEF Typed
  <1> QED BY <1>4, <1>7

LEMMA ChunkTyped ==
    ASSUME Typed, NEW s \in Sessions, UpMi(s)
    PROVE  SessionsOK' /\ Places' /\ FilesOK' /\ res' \in [Sessions -> Answers]
  <1> DEFINE n == op[s].next + 1
             q == IF n = op[s].size THEN "upEnd" ELSE "upMi"
  <1>1. op[s].kind = "upload" /\ op[s].next < op[s].size /\ op[s].next \in Nat
        /\ op[s].size \in Nat
    <2>1. pc[s] = "upMi"
      BY DEF UpMi, Goto
    <2> QED BY <2>1, Here DEF Place, Operations
  <1>2. pc' = [pc EXCEPT ![s] = q] /\ UNCHANGED <<dir, writers, res, count>>
    BY DEF UpMi, Goto
  <1>3. PICK b \in (IF n = op[s].size /\ op[s].node # None THEN BOOLEAN ELSE {FALSE}) :
            /\ op' = [op EXCEPT ![s] = [op[s] EXCEPT !.next = n, !.buf = b]]
            /\ data' = IF b \/ op[s].node = None THEN data
                       ELSE [data EXCEPT ![op[s].node] = Written(@, n, op[s].id)]
    BY DEF UpMi, With
  <1>4. b \in BOOLEAN /\ (b => n = op[s].size /\ op[s].node # None)
    BY <1>3
  <1>5. n \in Nat \ {0} /\ n <= op[s].size /\ (n # op[s].size => n < op[s].size)
    BY <1>1
  <1>6. data' \in [Files -> Seq(Chunks \ {Stale})]
    <2>1. \/ data' = data
          \/ op[s].node # None
               /\ data' = [data EXCEPT ![op[s].node] = Written(data[op[s].node], n, op[s].id)]
      BY <1>3
    <2> QED BY <1>1, <1>5, <2>1, DataTyped
  <1>7. q \in {"upMi", "upEnd", "run"} /\ (b => q = "upEnd" /\ op[s].node # None)
        /\ (q = "upMi" => n < op[s].size) /\ (q = "upEnd" => n = op[s].size /\ n # 0)
    BY <1>4, <1>5
  <1> HIDE DEF n, q
  <1>8. SessionsOK' /\ Places' /\ FilesOK'
    BY <1>1, <1>2, <1>3, <1>4, <1>5, <1>6, <1>7, Writes
  <1> QED BY <1>2, <1>8 DEF Typed, RestOK

LEMMA CloseTyped ==
    ASSUME Typed, NEW s \in Sessions, UpClose(s)
    PROVE  SessionsOK' /\ Places' /\ FilesOK' /\ res' \in [Sessions -> Answers]
  <1>1. pc[s] = "upClose" /\ pc' = [pc EXCEPT ![s] = "run"]
        /\ UNCHANGED <<dir, writers, res, count>>
    BY DEF UpClose, Goto
  <1>2. op[s].kind = "upload" /\ op[s].next \in Nat \ {0} /\ op[s].next <= op[s].size
        /\ (op[s].buf => op[s].node # None)
    BY <1>1, Here DEF Place, Operations
  <1>3. op' = [op EXCEPT ![s] = [op[s] EXCEPT !.next = op[s].next, !.buf = FALSE]]
    BY Here DEF UpClose, With, Operations
  <1>4. \/ data' = data
        \/ op[s].node # None
             /\ data' = [data EXCEPT ![op[s].node] =
                           Written(data[op[s].node], op[s].next, op[s].id)]
    BY <1>2 DEF UpClose
  <1>5. data' \in [Files -> Seq(Chunks \ {Stale})]
    BY <1>2, <1>4, DataTyped
  <1>6. SessionsOK' /\ Places' /\ FilesOK'
    BY <1>1, <1>2, <1>3, <1>5, Writes
  <1> QED BY <1>1, <1>6 DEF Typed, RestOK

\* A name is moved or removed.
LEMMA NamesTyped ==
    ASSUME Typed, NEW s \in Sessions, RenMove(s) \/ DelRemove(s)
    PROVE  SessionsOK' /\ Places' /\ FilesOK' /\ res' \in [Sessions -> Answers]
  <1>1. PICK q \in {"run", "silent"} :
            pc[s] \in {"renMove", "delRemove"} /\ pc' = [pc EXCEPT ![s] = q]
    BY DEF RenMove, DelRemove, Answer, Goto
  <1>2. UNCHANGED <<data, writers, op, count>>
    BY DEF RenMove, DelRemove
  <1>3. op[s].name \in Names /\ op[s].new \in Names
    BY Here DEF Operations
  <1>4. dir' \in [Names -> Files \cup {None}]
    BY <1>3 DEF RenMove, DelRemove, Typed, FilesOK
  <1>5. Place(s, q, op[s], count[s], writers')
    BY <1>1, <1>2, Here DEF Place, Operations
  <1>6. count' = [count EXCEPT ![s] = count[s]] /\ count[s] \in 0..MaxOps /\ q \in Pcs
        /\ (\A i \in Files : writers[i] \subseteq writers'[i])
        /\ op' = [op EXCEPT ![s] = op[s]]
    BY <1>2, Here DEF Typed, SessionsOK, Pcs
  <1>7. SessionsOK' /\ Places'
    BY <1>1, <1>5, <1>6, Here, OneSession DEF Typed
  <1>8. res' \in [Sessions -> Answers]
    BY DEF RenMove, DelRemove, Answer, Typed, RestOK, Answers
  <1> QED BY <1>2, <1>4, <1>7, <1>8 DEF Typed, FilesOK

-----------------------------------------------------------------------------
(* Type correctness.                                                        *)

\* Initially everything has its type, and nobody is in an operation.
LEMMA TypeInit == Init => Typed
  <1> SUFFICES ASSUME Init PROVE Typed
    OBVIOUS
  <1>1. PICK old \in [Names -> OldSizes] :
          /\ dir = [f \in Names |-> IF old[f] = 0 THEN None ELSE Old(f)]
          /\ data = [i \in Files |-> IF i \in Uploads THEN <<>>
                                     ELSE [k \in 1..old[i[1]] |-> i]]
    BY DEF Init
  <1>2. dir \in [Names -> Files \cup {None}]
    BY <1>1 DEF Files
  <1>3. data \in [Files -> Seq(Chunks \ {Stale})]
    <2>1. ASSUME NEW i \in Files, i \notin Uploads
          PROVE  [k \in 1..old[i[1]] |-> i] \in Seq(Chunks \ {Stale})
      <3>1. PICK f \in Names : i = Old(f)
        BY <2>1 DEF Files
      <3>2. i[1] = f /\ old[f] \in Nat
        BY <3>1, OldSizesAssumption DEF Old
      <3>3. i \in Chunks \ {Stale}
        BY <3>1, Marks DEF Chunks
      <3> QED BY <3>2, <3>3
    <2>2. <<>> \in Seq(Chunks \ {Stale})
      OBVIOUS
    <2> QED BY <1>1, <2>1, <2>2
  <1>4. writers \in [Files -> SUBSET Files] /\ steady \subseteq Sessions
        /\ res \in [Sessions -> Answers]
    BY DEF Init, Answers
  <1>5. SessionsOK
    BY IdleTypes, BoundsAssumption DEF Init, SessionsOK, Pcs
  <1>6. Places
    BY IdleTypes DEF Init, Places, Place
  <1> QED BY <1>2, <1>3, <1>4, <1>5, <1>6 DEF Typed, FilesOK, RestOK

\* No step leaves the types.
LEMMA TypeStep == Typed /\ [Next]_vars => Typed'
  <1> SUFFICES ASSUME Typed, [Next]_vars PROVE Typed'
    OBVIOUS
  <1>1. ASSUME NEW s \in Sessions, Step(s), Undisturbed(s) PROVE Typed'
    <2>1. SessionsOK' /\ Places' /\ FilesOK' /\ res' \in [Sessions -> Answers]
      BY <1>1, RequestTyped, LooksTyped, DownloadTyped, CreateTyped, ChunkTyped, CloseTyped,
         NamesTyped DEF Step
    <2>2. steady' \subseteq Sessions
      BY <1>1 DEF Undisturbed, Typed, RestOK
    <2> QED BY <2>1, <2>2 DEF Typed, RestOK
  <1>2. CASE Restart
    <2>1. SessionsOK' /\ Places'
      BY <1>2, IdleTypes DEF Restart, Typed, SessionsOK, Places, Place, Pcs
    <2>2. FilesOK' /\ RestOK'
      BY <1>2 DEF Restart, files, Typed, FilesOK, RestOK
    <2> QED BY <2>1, <2>2 DEF Typed
  <1>3. CASE UNCHANGED vars
    BY <1>3 DEF vars, Typed, SessionsOK, FilesOK, RestOK, Places, Place
  <1> QED BY <1>1, <1>2, <1>3 DEF Next

\* Every variable keeps its range, and neither an upload nor a download moves more chunks
\* than were announced, whatever other sessions do to the file under the loops of
\* uploadRequest and downloadRequest.
THEOREM TypeCorrect == Spec => []TypeOK
  <1>1. Typed => TypeOK
    BY DEF Typed, SessionsOK, FilesOK, RestOK, TypeOK
  <1> QED BY <1>1, TypeInit, TypeStep, PTL DEF Spec

-----------------------------------------------------------------------------
(* Uploads are whole.                                                       *)

\* The file belongs to the upload of session s, with operation o, and nobody else ever
\* opened it.
Alone(o, w) == o.kind = "upload" /\ o.node # None /\ w[o.node] = {o.id}

\* The chunks an upload has written.
Flushed(o) == IF o.buf THEN o.next - 1 ELSE o.next

Stored(o, w, d) == Alone(o, w) => d[o.node] = Whole(o.id, Flushed(o))

\* AloneIsWhole is inductive, given where each session is.
Apart == \A s \in Sessions : Stored(op[s], writers, data)

LEMMA ApartIsAlone == Typed /\ Apart => AloneIsWhole
  <1> SUFFICES ASSUME Typed, Apart, NEW s \in Sessions,
                      op[s].kind = "upload", op[s].node # None,
                      writers[op[s].node] = {op[s].id}
               PROVE  /\ op[s].buf => pc[s] \in {"upEnd", "upClose"}
                      /\ data[op[s].node] =
                           Whole(op[s].id, IF op[s].buf THEN op[s].next - 1 ELSE op[s].next)
    BY DEF AloneIsWhole
  <1> QED BY Here DEF Apart, Stored, Alone, Flushed, Place

\* Two sessions never write to a file that one of them has for itself.
LEMMA Others ==
    ASSUME Typed, NEW s \in Sessions, NEW t \in Sessions, t # s,
           op[s].kind = "upload", op[s].node # None, Alone(op[t], writers)
    PROVE  op[t].node # op[s].node
  <1>1. op[s].id \in writers[op[s].node] /\ op[s].id = <<s, count[s]>>
    BY Here DEF Place
  <1>2. op[t].id = <<t, count[t]>>
    BY Here DEF Place, Alone
  <1> QED BY <1>1, <1>2 DEF Alone

\* A step that leaves the files alone, and of an operation at most what it has read.
LEMMA ApartSame ==
    ASSUME Apart, NEW s \in Sessions,
           \A t \in Sessions : t # s => op'[t] = op[t],
           UNCHANGED <<data, writers>>,
           op'[s].kind = "upload" => op'[s] = op[s] \/ op'[s].node = None
    PROVE  Apart'
  <1> SUFFICES ASSUME NEW t \in Sessions PROVE Stored(op'[t], writers', data')
    BY DEF Apart
  <1>1. Stored(op[t], writers, data)
    BY DEF Apart
  <1> QED BY <1>1 DEF Stored, Alone

\* A step of an upload that writes its chunk n, or leaves it in the buffer.
LEMMA ApartWrites ==
    ASSUME Typed, Apart, NEW s \in Sessions, op[s].kind = "upload",
           NEW n \in Nat \ {0}, NEW b \in BOOLEAN,
           op' = [op EXCEPT ![s] = [op[s] EXCEPT !.next = n, !.buf = b]],
           writers' = writers, Flushed(op[s]) = n - 1,
           data' = IF b \/ op[s].node = None THEN data
                   ELSE [data EXCEPT ![op[s].node] = Written(@, n, op[s].id)]
    PROVE  Apart'
  <1> DEFINE o == [op[s] EXCEPT !.next = n, !.buf = b]
  <1> SUFFICES ASSUME NEW t \in Sessions, Alone(op'[t], writers)
               PROVE  data'[op'[t].node] = Whole(op'[t].id, Flushed(op'[t]))
    BY DEF Apart, Stored
  <1>1. CASE t = s
    <2>1. /\ op'[t] = o /\ o.node = op[s].node /\ o.id = op[s].id /\ o.next = n /\ o.buf = b
          /\ o.kind = "upload"
      BY <1>1, Here DEF Typed, SessionsOK, Operations
    <2>2. Alone(op[s], writers) /\ op[s].node \in Files
      BY <2>1, Here DEF Alone, Operations
    <2>3. data[op[s].node] = Whole(op[s].id, n - 1)
      BY <2>2 DEF Apart, Stored
    <2>4. CASE b
      <3>1. Flushed(o) = n - 1 /\ data' = data
        BY <2>1, <2>4 DEF Flushed
      <3> QED BY <2>1, <2>3, <3>1
    <2>5. CASE ~b
      <3>1. Flushed(o) = n
        BY <2>1, <2>5 DEF Flushed
      <3>2. data'[op[s].node] = Written(data[op[s].node], n, op[s].id)
        BY <2>2, <2>5 DEF Alone, Typed, FilesOK
      <3>3. Written(Whole(op[s].id, n - 1), n, op[s].id) = Whole(op[s].id, n)
        <4>1. n - 1 \in Nat /\ (n - 1) + 1 = n
          OBVIOUS
        <4> QED BY <4>1, WrittenWhole
      <3> QED BY <2>1, <2>3, <3>1, <3>2, <3>3
    <2> QED BY <2>4, <2>5
  <1>2. CASE t # s
    <2>1. op'[t] = op[t]
      BY <1>2 DEF Typed, SessionsOK
    <2>2. op[s].node # None => op[t].node # op[s].node
      BY <1>2, <2>1, Others
    <2>3. op[t].node \in Files
      BY <2>1, Here DEF Alone, Operations
    <2>4. data'[op[t].node] = data[op[t].node]
      BY <2>2, <2>3 DEF Typed, FilesOK
    <2>5. data[op[t].node] = Whole(op[t].id, Flushed(op[t]))
      BY <2>1 DEF Apart, Stored
    <2> QED BY <2>1, <2>4, <2>5
  <1> QED BY <1>1, <1>2

\* Opening a file: another upload that had it is not alone any more.
LEMMA ApartCreate ==
    ASSUME Typed, Apart, NEW s \in Sessions, UpCreate(s)
    PROVE  Apart'
  <1> DEFINE f == op[s].name
             i == IF Present(f) THEN dir[f] ELSE op[s].id
             o == [op[s] EXCEPT !.node = i]
  <1>1. /\ pc[s] = "upCreate" /\ data' = [data EXCEPT ![i] = <<>>]
        /\ writers' = [writers EXCEPT ![i] = @ \cup {op[s].id}]
        /\ op' = [op EXCEPT ![s] = o]
    BY DEF UpCreate, Goto, With
  <1>2. /\ op[s].kind = "upload" /\ op[s].next = 0 /\ ~op[s].buf
        /\ op[s].id = <<s, count[s]>> /\ op[s].id \in Uploads
    BY <1>1, Here DEF Place, Operations
  <1>3. i \in Files
    <2>1. f \in Names /\ op[s].id \in Files
      BY <1>2, Here DEF Operations, Files
    <2> QED BY <2>1 DEF Present, Typed, FilesOK
  <1> SUFFICES ASSUME NEW t \in Sessions, Alone(op'[t], writers')
               PROVE  data'[op'[t].node] = Whole(op'[t].id, Flushed(op'[t]))
    BY DEF Apart, Stored
  <1>4. CASE t = s
    <2>1. op'[t] = o /\ o.node = i /\ o.next = 0 /\ ~o.buf
      BY <1>1, <1>2, <1>4, Here DEF Typed, SessionsOK, Operations
    <2>2. data'[i] = <<>> /\ Flushed(o) = 0
      BY <1>1, <1>3, <2>1 DEF Flushed, Typed, FilesOK
    <2>3. Whole(o.id, 0) = <<>>
      <3>1. Whole(o.id, 0) \in Seq({o.id}) /\ Len(Whole(o.id, 0)) = 0
        BY WholeTypes
      <3> QED BY <3>1
    <2> QED BY <2>1, <2>2, <2>3
  <1>5. CASE t # s
    <2>1. op'[t] = op[t] /\ op[t].kind = "upload" /\ op[t].node \in Files
          /\ op[t].id = <<t, count[t]>>
      <3>1. op'[t] = op[t]
        BY <1>1, <1>5 DEF Typed, SessionsOK
      <3> QED BY <3>1, Here DEF Alone, Place, Operations
    <2>2. op[t].node # i
      <3>1. op[s].id \in writers'[i]
        BY <1>1, <1>3 DEF Typed, FilesOK
      <3>2. writers'[op[t].node] = {op[t].id}
        BY <2>1 DEF Alone
      <3>3. op[s].id # op[t].id
        BY <1>2, <1>5, <2>1
      <3> QED BY <3>1, <3>2, <3>3
    <2>3. data'[op[t].node] = data[op[t].node] /\ writers'[op[t].node] = writers[op[t].node]
      BY <1>1, <2>1, <2>2 DEF Typed, FilesOK
    <2>4. data[op[t].node] = Whole(op[t].id, Flushed(op[t]))
      BY <2>1, <2>3 DEF Apart, Stored, Alone
    <2> QED BY <2>1, <2>3, <2>4
  <1> QED BY <1>4, <1>5

LEMMA ApartInit == Init => Apart
  <1> SUFFICES ASSUME Init, NEW s \in Sessions PROVE Stored(op[s], writers, data)
    BY DEF Apart
  <1> QED BY IdleTypes DEF Init, Stored, Alone

\* No handler, of this session or another, and no restart takes a chunk away from an upload
\* that is alone or puts one in.
LEMMA ApartStep == Typed /\ Apart /\ [Next]_vars => Apart'
  <1> SUFFICES ASSUME Typed, Apart, [Next]_vars PROVE Apart'
    OBVIOUS
  <1>1. ASSUME NEW s \in Sessions, Step(s) PROVE Apart'
    <2>1. CASE Requests(s)
      <3>1. (\A t \in Sessions : t # s => op'[t] = op[t]) /\ op'[s].node = None
        <4>1. ASSUME NEW o, NEW to, Request(s, o, to)
              PROVE  op'[s] = o /\ \A t \in Sessions : t # s => op'[t] = op[t]
          BY <4>1 DEF Request, With, Typed, SessionsOK
        <4>2. PICK f \in Names, g \in Names, n \in 1..MaxChunks :
            \/ Request(s, [Idle EXCEPT !.kind = "upload", !.name = f, !.new = f, !.size = n,
                                       !.id = <<s, count[s] + 1>>], "upM2")
            \/ Request(s, [Idle EXCEPT !.kind = "download", !.name = f, !.new = f], "downM2")
            \/ Request(s, [Idle EXCEPT !.kind = "rename", !.name = f, !.new = g], "renOld")
            \/ Request(s, [Idle EXCEPT !.kind = "delete", !.name = f, !.new = f], "delM3")
          BY <2>1 DEF Requests
        <4>3. /\ [Idle EXCEPT !.kind = "upload", !.name = f, !.new = f, !.size = n,
                              !.id = <<s, count[s] + 1>>].node = None
              /\ [Idle EXCEPT !.kind = "download", !.name = f, !.new = f].node = None
              /\ [Idle EXCEPT !.kind = "rename", !.name = f, !.new = g].node = None
              /\ [Idle EXCEPT !.kind = "delete", !.name = f, !.new = f].node = None
          BY IdleTypes DEF Operations
        <4> QED BY <4>1, <4>2, <4>3
      <3>2. UNCHANGED <<data, writers>>
        BY <2>1 DEF Requests, Request, files
      <3> QED BY <3>1, <3>2, ApartSame
    <2>2. CASE \/ UpM2(s) \/ UpLook(s) \/ UpEnd(s) \/ DownM2(s) \/ RenOld(s) \/ RenNew(s)
               \/ DelM3(s) \/ DelLook(s) \/ Vanish(s) \/ RenMove(s) \/ DelRemove(s)
      <3>1. UNCHANGED <<data, writers, op>>
        BY <2>2 DEF UpM2, UpLook, UpEnd, DownM2, RenOld, RenNew, DelM3, DelLook, Vanish,
                    RenMove, DelRemove, files
      <3> QED BY <3>1 DEF Apart
    <2>3. CASE DownOpen(s) \/ DownSize(s) \/ DownMi(s)
      <3>1. (\A t \in Sessions : t # s => op'[t] = op[t]) /\ op'[s].kind = op[s].kind
        <4>1. CASE DownOpen(s)
          BY <4>1, Here DEF DownOpen, With, Operations, Typed, SessionsOK
        <4>2. CASE DownSize(s)
          BY <4>2, Here DEF DownSize, With, Operations, Typed, SessionsOK
        <4>3. CASE DownMi(s)
          BY <4>3, Here DEF DownMi, With, Operations, Typed, SessionsOK
        <4> QED BY <2>3, <4>1, <4>2, <4>3
      <3>2. UNCHANGED <<data, writers>>
        BY <2>3 DEF DownOpen, DownSize, DownMi, files
      <3>3. op[s].kind # "upload"
        <4>1. pc[s] \in {"downOpen", "downSize", "downMi"}
          BY <2>3 DEF DownOpen, DownSize, DownMi, Goto, Answer
        <4> QED BY <4>1, Here DEF Place
      <3> QED BY <3>1, <3>2, <3>3, ApartSame
    <2>4. CASE UpCreate(s)
      BY <2>4, ApartCreate
    <2>5. CASE UpMi(s)
      <3>1. op[s].kind = "upload" /\ op[s].next \in Nat /\ ~op[s].buf
        <4>1. pc[s] = "upMi"
          BY <2>5 DEF UpMi, Goto
        <4> QED BY <4>1, Here DEF Place, Operations
      <3>2. PICK b \in (IF op[s].next + 1 = op[s].size /\ op[s].node # None
                        THEN BOOLEAN ELSE {FALSE}) :
                /\ op' = [op EXCEPT ![s] = [op[s] EXCEPT !.next = op[s].next + 1, !.buf = b]]
                /\ data' = IF b \/ op[s].node = None THEN data
                           ELSE [data EXCEPT ![op[s].node] = Written(@, op[s].next + 1, op[s].id)]
        BY <2>5 DEF UpMi, With
      <3>3. b \in BOOLEAN /\ writers' = writers
        BY <2>5, <3>2 DEF UpMi
      <3>4. op[s].next + 1 \in Nat \ {0} /\ Flushed(op[s]) = (op[s].next + 1) - 1
        BY <3>1 DEF Flushed
      <3> QED BY <3>1, <3>2, <3>3, <3>4, ApartWrites
    <2>6. CASE UpClose(s)
      <3>1. op[s].kind = "upload" /\ op[s].next \in Nat \ {0}
            /\ (op[s].buf => op[s].node # None) /\ op[s].buf \in BOOLEAN
        <4>1. pc[s] = "upClose"
          BY <2>6 DEF UpClose, Goto
        <4> QED BY <4>1, Here DEF Place, Operations
      <3>2. op' = [op EXCEPT ![s] = [op[s] EXCEPT !.buf = FALSE]] /\ writers' = writers
        BY <2>6 DEF UpClose, With
      <3>3. CASE op[s].buf
        <4>1. op' = [op EXCEPT ![s] = [op[s] EXCEPT !.next = op[s].next, !.buf = FALSE]]
          BY <3>2, Here DEF Operations
        <4>2. data' = IF FALSE \/ op[s].node = None THEN data
                      ELSE [data EXCEPT ![op[s].node] = Written(@, op[s].next, op[s].id)]
          BY <2>6, <3>1, <3>3 DEF UpClose
        <4>3. Flushed(op[s]) = op[s].next - 1
          BY <3>3 DEF Flushed
        <4> QED BY <3>1, <3>2, <4>1, <4>2, <4>3, ApartWrites
      <3>4. CASE ~op[s].buf
        <4>1. op' = op /\ data' = data
          BY <2>6, <3>1, <3>2, <3>4, Here DEF UpClose, Operations
        <4> QED BY <3>2, <4>1, ApartSame
      <3> QED BY <3>3, <3>4
    <2> QED BY <1>1, <2>1, <2>2, <2>3, <2>4, <2>5, <2>6 DEF Step
  <1>2. CASE Restart
    BY <1>2, IdleTypes DEF Restart, Apart, Stored, Alone
  <1>3. CASE UNCHANGED vars
    BY <1>3 DEF vars, Apart
  <1> QED BY <1>1, <1>2, <1>3 DEF Next

\* As long as an upload is the only one that ever opened its file, the file is exactly the
\* chunks received, for any number of sessions that rename, remove, download and upload
\* around it.
THEOREM UploadsApart == Spec => []AloneIsWhole
  <1> QED BY TypeInit, TypeStep, ApartInit, ApartStep, ApartIsAlone, PTL DEF Spec

-----------------------------------------------------------------------------
(* Nothing is lost but by request.                                          *)

\* A file has one name, and an upload that has not opened its file has given no name to one.
OneName == \A f, g \in Names : dir[f] # None /\ dir[f] = dir[g] => f = g

Unborn == \A s \in Sessions, k \in Nat \ {0}, f \in Names :
    k > count[s] \/ (k = count[s] /\ pc[s] \in {"upM2", "upLook", "upCreate"})
        => dir[f] # <<s, k>>

\* What a session that nobody disturbed has looked for in vain is still absent when it acts.
Looked == \A s \in steady :
    /\ pc[s] \in {"upLook", "upCreate"} => ~Present(op[s].name)
    /\ pc[s] = "renMove" => ~Present(op[s].new)

\* Who changes the directory.
LEMMA DirChanges ==
    ASSUME NEW s \in Sessions, Step(s)
    PROVE  dir' = dir \/ UpCreate(s) \/ RenMove(s) \/ DelRemove(s)
  BY DEF Step, Requests, Request, UpM2, UpLook, UpMi, UpEnd, UpClose, DownM2, DownOpen,
         DownSize, DownMi, RenOld, RenNew, DelM3, DelLook, Vanish, files

\* The others stay where they are.
LEMMA StepIsOwn ==
    ASSUME Typed, NEW s \in Sessions, Step(s), NEW t \in Sessions, t # s
    PROVE  pc'[t] = pc[t] /\ op'[t] = op[t] /\ count'[t] = count[t]
  <1>1. CASE Requests(s)
    <2>1. ASSUME NEW o, NEW to, Request(s, o, to)
          PROVE  pc'[t] = pc[t] /\ op'[t] = op[t] /\ count'[t] = count[t]
      BY <2>1 DEF Request, Goto, With, Typed, SessionsOK
    <2> QED BY <1>1, <2>1 DEF Requests
  <1>2. CASE ~Requests(s)
    <2>1. pc'[t] = pc[t]
      BY <1>2 DEF Step, UpM2, UpLook, UpCreate, UpMi, UpEnd, UpClose, DownM2, DownOpen,
                  DownSize, DownMi, RenOld, RenNew, RenMove, DelM3, DelLook, DelRemove,
                  Vanish, Goto, Answer, Typed, SessionsOK
    <2>2. op'[t] = op[t] /\ count' = count
      BY <1>2 DEF Step, UpM2, UpLook, UpCreate, UpMi, UpEnd, UpClose, DownM2, DownOpen,
                  DownSize, DownMi, RenOld, RenNew, RenMove, DelM3, DelLook, DelRemove,
                  Vanish, With, Typed, SessionsOK
    <2> QED BY <2>1, <2>2
  <1> QED BY <1>1, <1>2

\* Where a step can bring its session.
LEMMA StepMoves ==
    ASSUME Typed, NEW s \in Sessions, Step(s)
    PROVE  /\ pc'[s] = "upM2" => count'[s] = count[s] + 1
           /\ pc'[s] \in {"upLook", "upCreate"} =>
                /\ pc[s] \in {"upM2", "upLook"} /\ ~Present(op[s].name)
                /\ op' = op /\ dir' = dir /\ count' = count
           /\ pc'[s] = "renMove" => ~Present(op[s].new) /\ op' = op /\ dir' = dir
           /\ count'[s] \in {count[s], count[s] + 1}
  <1>1. CASE Requests(s)
    <2>1. ASSUME NEW o, NEW to \in {"upM2", "downM2", "renOld", "delM3"}, Request(s, o, to)
          PROVE  pc'[s] = to /\ count'[s] = count[s] + 1
      BY <2>1 DEF Request, Goto, Typed, SessionsOK
    <2>2. pc'[s] \in {"upM2", "downM2", "renOld", "delM3"} /\ count'[s] = count[s] + 1
      BY <1>1, <2>1 DEF Requests
    <2> QED BY <2>2
  <1>2. CASE UpM2(s)
    BY <1>2 DEF UpM2, Goto, Answer, files, Typed, SessionsOK
  <1>3. CASE UpLook(s)
    BY <1>3 DEF UpLook, Goto, files, Typed, SessionsOK
  <1>4. CASE RenNew(s)
    BY <1>4 DEF RenNew, Goto, Answer, files, Typed, SessionsOK
  <1>5. CASE ~(Requests(s) \/ UpM2(s) \/ UpLook(s) \/ RenNew(s))
    <2>1. pc'[s] \notin {"upM2", "upLook", "upCreate", "renMove"}
      BY <1>5 DEF Step, UpCreate, UpMi, UpEnd, UpClose, DownM2, DownOpen,
                  DownSize, DownMi, RenOld, RenMove, DelM3, DelLook, DelRemove,
                  Vanish, Goto, Answer, Typed, SessionsOK
    <2>2. count' = count
      BY <1>5 DEF Step, UpCreate, UpMi, UpEnd, UpClose, DownM2, DownOpen,
                  DownSize, DownMi, RenOld, RenMove, DelM3, DelLook, DelRemove, Vanish
    <2> QED BY <2>1, <2>2
  <1> QED BY <1>1, <1>2, <1>3, <1>4, <1>5

\* What the opening of an upload's file does to the directory.
LEMMA Creates ==
    ASSUME Typed, Unborn, NEW s \in Sessions, UpCreate(s)
    PROVE  /\ op[s].name \in Names
           /\ \/ Present(op[s].name) /\ dir' = dir
              \/ /\ ~Present(op[s].name) /\ dir' = [dir EXCEPT ![op[s].name] = op[s].id]
                 /\ op[s].id # None /\ \A f \in Names : dir[f] # op[s].id
           /\ op[s].id = <<s, count[s]>> /\ pc'[s] = "upMi" /\ count' = count
  <1>1. pc[s] = "upCreate" /\ pc'[s] = "upMi" /\ count' = count
    BY DEF UpCreate, Goto, Typed, SessionsOK
  <1>2. op[s].id = <<s, count[s]>> /\ op[s].id \in Uploads /\ op[s].name \in Names
    BY <1>1, Here DEF Place, Operations
  <1>3. op[s].id # None
    BY <1>2, Marks
  <1>4. count[s] \in Nat \ {0}
    <2>1. count[s] \in 1..MaxOps
      BY <1>2 DEF Uploads
    <2> QED BY <2>1, BoundsAssumption
  <1>5. \A f \in Names : dir[f] # op[s].id
    BY <1>1, <1>2, <1>4 DEF Unborn
  <1>6. Present(op[s].name) => dir' = dir
    BY <1>2 DEF UpCreate, Present, Typed, FilesOK
  <1>7. ~Present(op[s].name) => dir' = [dir EXCEPT ![op[s].name] = op[s].id]
    BY DEF UpCreate
  <1> QED BY <1>1, <1>2, <1>3, <1>5, <1>6, <1>7

LEMMA NamesInit == Init => OneName /\ Unborn /\ Looked
  <1> SUFFICES ASSUME Init PROVE OneName /\ Unborn /\ Looked
    OBVIOUS
  <1>1. \A f \in Names : dir[f] \in {None, Old(f)}
    BY DEF Init
  <1>2. OneName
    BY <1>1 DEF OneName, Old
  <1>3. Unborn
    BY <1>1 DEF Unborn, Init, Old, None
  <1> QED BY <1>2, <1>3 DEF Init, Looked

LEMMA OneNameStep ==
    ASSUME Typed, OneName, Unborn, NEW s \in Sessions, Step(s)
    PROVE  OneName'
  <1>1. CASE dir' = dir
    BY <1>1 DEF OneName
  <1>2. CASE UpCreate(s)
    BY <1>2, Creates DEF OneName, Typed, FilesOK
  <1>3. CASE RenMove(s) \/ DelRemove(s)
    <2>1. op[s].name \in Names /\ op[s].new \in Names
      BY Here DEF Operations
    <2> QED BY <1>3, <2>1 DEF RenMove, DelRemove, OneName, Typed, FilesOK
  <1> QED BY <1>1, <1>2, <1>3, DirChanges

LEMMA UnbornStep ==
    ASSUME Typed, OneName, Unborn, NEW s \in Sessions, Step(s)
    PROVE  Unborn'
  <1> SUFFICES ASSUME NEW t \in Sessions, NEW k \in Nat \ {0}, NEW f \in Names,
                      k > count'[t] \/
                        (k = count'[t] /\ pc'[t] \in {"upM2", "upLook", "upCreate"})
               PROVE  dir'[f] # <<t, k>>
    BY DEF Unborn
  <1>1. k > count[t] \/ (k = count[t] /\ pc[t] \in {"upM2", "upLook", "upCreate"})
    <2>1. count[t] \in Nat
      BY BoundsAssumption DEF Typed, SessionsOK
    <2>2. CASE t = s
      BY <2>1, <2>2, StepMoves
    <2>3. CASE t # s
      BY <2>3, StepIsOwn
    <2> QED BY <2>2, <2>3
  <1>2. \A g \in Names : dir[g] # <<t, k>>
    BY <1>1 DEF Unborn
  <1>3. CASE dir' = dir
    BY <1>2, <1>3
  <1>4. CASE UpCreate(s)
    <2>1. <<s, count[s]>> # <<t, k>>
      <3>1. count[s] \in Nat
        BY BoundsAssumption DEF Typed, SessionsOK
      <3> QED BY <1>4, <3>1, Creates
    <2> QED BY <1>2, <1>4, <2>1, Creates DEF Typed, FilesOK
  <1>5. CASE RenMove(s) \/ DelRemove(s)
    <2>1. op[s].name \in Names /\ op[s].new \in Names
      BY Here DEF Operations
    <2>2. None # <<t, k>>
      BY DEF None
    <2> QED BY <1>2, <1>5, <2>1, <2>2 DEF RenMove, DelRemove, Typed, FilesOK
  <1> QED BY <1>3, <1>4, <1>5, DirChanges

LEMMA LookedStep ==
    ASSUME Typed, Looked, NEW s \in Sessions, Step(s), Undisturbed(s)
    PROVE  Looked'
  <1> SUFFICES ASSUME NEW t \in steady'
               PROVE  /\ pc'[t] \in {"upLook", "upCreate"} => dir'[op'[t].name] = None
                      /\ pc'[t] = "renMove" => dir'[op'[t].new] = None
    BY DEF Looked, Present
  <1>1. CASE t = s
    BY <1>1, StepMoves DEF Present
  <1>2. CASE t # s
    <2>1. t \in steady /\ View(t)' = View(t) /\ t \in Sessions
      BY <1>2 DEF Undisturbed, Typed, RestOK
    <2>2. pc'[t] = pc[t] /\ op'[t] = op[t]
      BY <1>2, <2>1, StepIsOwn
    <2>3. dir'[op[t].name] = dir[op[t].name] /\ dir'[op[t].new] = dir[op[t].new]
      <3>1. View(t) = [f \in {op[t].name, op[t].new} |-> <<dir[f], Content(f)>>]
        BY DEF View
      <3>2. View(t)' = [f \in {op[t].name, op[t].new} |-> <<dir'[f], Content(f)'>>]
        BY <2>2 DEF View
      <3>3. ASSUME NEW f \in {op[t].name, op[t].new}
            PROVE  <<dir'[f], Content(f)'>> = <<dir[f], Content(f)>>
        BY <2>1, <3>1, <3>2
      <3> QED BY <3>3
    <2>4. /\ pc[t] \in {"upLook", "upCreate"} => dir[op[t].name] = None
          /\ pc[t] = "renMove" => dir[op[t].new] = None
      BY <2>1 DEF Looked, Present
    <2> QED BY <2>2, <2>3, <2>4
  <1> QED BY <1>1, <1>2

LEMMA NamesStep == Typed /\ OneName /\ Unborn /\ Looked /\ [Next]_vars
                      => OneName' /\ Unborn' /\ Looked'
  <1> SUFFICES ASSUME Typed, OneName, Unborn, Looked, [Next]_vars
               PROVE  OneName' /\ Unborn' /\ Looked'
    OBVIOUS
  <1>1. ASSUME NEW s \in Sessions, Step(s), Undisturbed(s)
        PROVE  OneName' /\ Unborn' /\ Looked'
    BY <1>1, OneNameStep, UnbornStep, LookedStep
  <1>2. CASE Restart
    BY <1>2 DEF Restart, files, OneName, Unborn, Looked
  <1>3. CASE UNCHANGED vars
    BY <1>3 DEF vars, OneName, Unborn, Looked, Present
  <1> QED BY <1>1, <1>2, <1>3 DEF Next

\* A write never empties a file, only its opening for an upload does.
LEMMA DataChanges ==
    ASSUME Typed, NEW s \in Sessions, Step(s), NEW i \in Files, data[i] # <<>>, data'[i] = <<>>
    PROVE  UpCreate(s) /\ i = (IF Present(op[s].name) THEN dir[op[s].name] ELSE op[s].id)
  <1>1. CASE UpCreate(s)
    BY <1>1 DEF UpCreate, Typed, FilesOK
  <1>2. ASSUME NEW k \in Nat \ {0}, op[s].kind = "upload",
               \/ data' = data
               \/ /\ op[s].node # None
                  /\ data' = [data EXCEPT ![op[s].node] = Written(data[op[s].node], k, op[s].id)]
        PROVE  FALSE
    <2>1. op[s].id \in Uploads /\ (op[s].node # None => op[s].node \in Files)
      BY <1>2, Here DEF Place, Operations
    <2>2. op[s].node # None => Written(data[op[s].node], k, op[s].id) # <<>>
      <3>1. op[s].node # None => data[op[s].node] \in Seq(Chunks \ {Stale})
        BY <2>1 DEF Typed, FilesOK
      <3> QED BY <2>1, <3>1, ChunkTypes
    <2> QED BY <1>2, <2>1, <2>2 DEF Typed, FilesOK
  <1>3. CASE UpMi(s)
    <2>1. op[s].kind = "upload" /\ op[s].next + 1 \in Nat \ {0}
      <3>1. pc[s] = "upMi"
        BY <1>3 DEF UpMi, Goto
      <3> QED BY <3>1, Here DEF Place, Operations
    <2>2. \/ data' = data
          \/ /\ op[s].node # None
             /\ data' = [data EXCEPT ![op[s].node] =
                           Written(data[op[s].node], op[s].next + 1, op[s].id)]
      BY <1>3 DEF UpMi
    <2> QED BY <1>2, <2>1, <2>2
  <1>4. CASE UpClose(s)
    <2>1. op[s].kind = "upload" /\ op[s].next \in Nat \ {0} /\ (op[s].buf => op[s].node # None)
      <3>1. pc[s] = "upClose"
        BY <1>4 DEF UpClose, Goto
      <3> QED BY <3>1, Here DEF Place, Operations
    <2>2. \/ data' = data
          \/ /\ op[s].node # None
             /\ data' = [data EXCEPT ![op[s].node] =
                           Written(data[op[s].node], op[s].next, op[s].id)]
      BY <1>4, <2>1 DEF UpClose
    <2> QED BY <1>2, <2>1, <2>2
  <1>5. CASE ~(UpCreate(s) \/ UpMi(s) \/ UpClose(s))
    <2>1. data' = data
      BY <1>5 DEF Step, Requests, Request, UpM2, UpLook, UpEnd, DownM2, DownOpen,
         DownSize, DownMi, RenOld, RenNew, RenMove, DelM3, DelLook, DelRemove, Vanish, files
    <2> QED BY <2>1
  <1> QED BY <1>1, <1>3, <1>4, <1>5

\* One step loses a file only in the ways NothingLost names.
LEMMA LossStep ==
    ASSUME Typed, OneName, Unborn, Looked, NEW s \in Sessions, Step(s),
           NEW f \in Names, dir[f] # None,
           \/ \A g \in Names : dir'[g] # dir[f]
           \/ data[dir[f]] # <<>> /\ data'[dir[f]] = <<>>
    PROVE  \/ pc[s] = "delRemove" /\ op[s].name = f
           \/ s \notin steady /\ pc[s] = "renMove" /\ op[s].new = f
           \/ s \notin steady /\ pc[s] = "upCreate" /\ op[s].name = f
  <1>1. op[s].name \in Names /\ op[s].new \in Names
    BY Here DEF Operations
  <1>2. CASE \A g \in Names : dir'[g] # dir[f]
    <2>1. CASE UpCreate(s)
      BY <1>2, <2>1, Creates DEF Present, Typed, FilesOK
    <2>2. CASE RenMove(s)
      <3>1. pc[s] = "renMove" /\ Present(op[s].name)
            /\ dir' = [dir EXCEPT ![op[s].name] = None, ![op[s].new] = dir[op[s].name]]
        BY <1>2, <2>2 DEF RenMove, Answer, Goto
      <3>2. f = op[s].new
        BY <1>1, <1>2, <3>1 DEF Typed, FilesOK
      <3> QED BY <3>1, <3>2 DEF Looked, Present
    <2>3. CASE DelRemove(s)
      <3>1. pc[s] = "delRemove" /\ dir' = [dir EXCEPT ![op[s].name] = None]
        BY <2>3 DEF DelRemove, Answer, Goto
      <3> QED BY <1>1, <1>2, <3>1 DEF Typed, FilesOK
    <2>4. CASE dir' = dir
      BY <1>2, <2>4
    <2> QED BY <2>1, <2>2, <2>3, <2>4, DirChanges
  <1>3. CASE data[dir[f]] # <<>> /\ data'[dir[f]] = <<>>
    <2>1. dir[f] \in Files
      BY DEF Typed, FilesOK
    <2>2. UpCreate(s) /\ dir[f] = (IF Present(op[s].name) THEN dir[op[s].name] ELSE op[s].id)
      BY <1>3, <2>1, DataChanges
    <2>3. Present(op[s].name) /\ f = op[s].name
      BY <1>1, <2>2, Creates DEF OneName
    <2>4. pc[s] = "upCreate"
      BY <2>2 DEF UpCreate, Goto
    <2> QED BY <2>3, <2>4 DEF Looked
  <1> QED BY <1>2, <1>3

\* A stored file disappears or is emptied only by a confirmed delete of its name, or by a
\* rename or an upload in whose window another session gave the name to it: for any number
\* of sessions, the look for the name protects every file that was there before.
THEOREM NothingIsLost == Spec => NothingLost
  <1> DEFINE Loss == \A f \in Names :
                 LET i == dir[f]
                     unnamed == \A g \in Names : dir'[g] # i
                     emptied == data[i] # <<>> /\ data'[i] = <<>>
                 IN  i # None /\ (unnamed \/ emptied) =>
                       \E s \in Sessions :
                           \/ pc[s] = "delRemove" /\ op[s].name = f
                           \/ s \notin steady /\ pc[s] = "renMove" /\ op[s].new = f
                           \/ s \notin steady /\ pc[s] = "upCreate" /\ op[s].name = f
  <1>1. Typed /\ OneName /\ Unborn /\ Looked /\ [Next]_vars => [Loss]_vars
    <2> SUFFICES ASSUME Typed, OneName, Unborn, Looked, Next PROVE Loss
      OBVIOUS
    <2>1. CASE \E s \in Sessions : Step(s)
      <3>1. PICK s \in Sessions : Step(s)
        BY <2>1
      <3> QED BY <3>1, LossStep
    <2>2. CASE Restart
      BY <2>2 DEF Restart, files
    <2> QED BY <2>1, <2>2 DEF Next
  <1>2. NothingLost <=> [][Loss]_vars
    BY DEF NothingLost
  <1> HIDE DEF Loss
  <1> QED BY <1>1, <1>2, TypeInit, TypeStep, NamesInit, NamesStep, PTL DEF Spec

-----------------------------------------------------------------------------
(* A session that nobody disturbs.                                          *)

\* What such a session knows at place p of operation o, answered r, if the name of the
\* operation stands for file i with content c and the new name for file j.
Follows(p, o, r, i, c, j) ==
    /\ p \in {"upM2", "upLook", "upCreate", "upMi", "upEnd", "upClose"} => o.kind = "upload"
    /\ p \in {"upLook", "upCreate"} => i = None
    /\ p \in {"upMi", "upEnd", "upClose"} =>
         i # None /\ o.node = i /\ c = Whole(o.id, Flushed(o))
    /\ p = "upClose" => r = "ACK"
    /\ p \in {"downM2", "downOpen", "downSize", "downMi"} => o.kind = "download"
    /\ p \in {"downOpen", "downSize", "downMi"} => i # None
    /\ p \in {"downSize", "downMi"} => o.node = i
    /\ p = "downMi" => o.size = Len(c) /\ \A k \in 1..Len(o.got) : o.got[k] = c[k]
    /\ p \in {"renOld", "renNew", "renMove"} => o.kind = "rename"
    /\ p \in {"renNew", "renMove"} => i # None
    /\ p = "renMove" => j = None
    /\ p \in {"delM3", "delLook", "delRemove", "silent"} => o.kind = "delete"
    /\ p = "delRemove" => i # None
    /\ p = "silent" => i = None

Follow(s) ==
    Follows(pc[s], op[s], res[s], dir[op[s].name], Content(op[s].name), dir[op[s].new])

Followed == \A s \in steady : Follow(s)

\* The step of session s, and what it answers, is that of an atomic operation.
Answered(s) == pc'[s] \in {"run", "silent"} => Atomic(s)

\* What a step of a session does to its place and to its answer.
LEMMA Goes ==
    ASSUME Typed, NEW s \in Sessions, NEW p, NEW q, Goto(s, p, q)
    PROVE  pc[s] = p /\ pc'[s] = q
  BY DEF Goto, Typed, SessionsOK

LEMMA GivesAnswer ==
    ASSUME Typed, NEW s \in Sessions, NEW p, NEW code, Answer(s, p, code)
    PROVE  pc[s] = p /\ pc'[s] = "run" /\ res'[s] = code
  BY DEF Answer, Goto, Typed, SessionsOK, RestOK

\* The content of a name is a file.
LEMMA Contents ==
    ASSUME Typed, NEW f \in Names
    PROVE  Content(f) \in Seq(Chunks \ {Stale}) /\ Len(Content(f)) \in Nat
  <1>1. CASE Present(f)
    BY <1>1 DEF Content, Present, Typed, FilesOK
  <1>2. CASE ~Present(f)
    BY <1>2 DEF Content
  <1> QED BY <1>1, <1>2

\* A session that takes a request is followed from there on.
LEMMA FollowsRequest ==
    ASSUME Typed, NEW s \in Sessions, Requests(s)
    PROVE  Follow(s)' /\ pc[s] = "run"
  <1>1. ASSUME NEW o, NEW to, Request(s, o, to)
        PROVE  pc[s] = "run" /\ pc'[s] = to /\ op'[s] = o
    BY <1>1 DEF Request, With, Goto, Typed, SessionsOK
  <1>2. /\ pc[s] = "run"
        /\ \/ pc'[s] = "upM2" /\ op'[s].kind = "upload"
           \/ pc'[s] = "downM2" /\ op'[s].kind = "download"
           \/ pc'[s] = "renOld" /\ op'[s].kind = "rename"
           \/ pc'[s] = "delM3" /\ op'[s].kind = "delete"
    <2>1. PICK f \in Names, g \in Names, n \in 1..MaxChunks :
             \/ Request(s, [Idle EXCEPT !.kind = "upload", !.name = f, !.new = f, !.size = n,
                                        !.id = <<s, count[s] + 1>>], "upM2")
             \/ Request(s, [Idle EXCEPT !.kind = "download", !.name = f, !.new = f], "downM2")
             \/ Request(s, [Idle EXCEPT !.kind = "rename", !.name = f, !.new = g], "renOld")
             \/ Request(s, [Idle EXCEPT !.kind = "delete", !.name = f, !.new = f], "delM3")
      BY DEF Requests
    <2>2. CASE Request(s, [Idle EXCEPT !.kind = "upload", !.name = f, !.new = f, !.size = n,
                                       !.id = <<s, count[s] + 1>>], "upM2")
      <3> DEFINE o == [Idle EXCEPT !.kind = "upload", !.name = f, !.new = f, !.size = n,
                                   !.id = <<s, count[s] + 1>>]
      <3>1. o.kind = "upload" /\ Request(s, o, "upM2")
        BY <2>2 DEF Idle
      <3> HIDE DEF o
      <3> QED BY <1>1, <3>1
    <2>3. CASE Request(s, [Idle EXCEPT !.kind = "download", !.name = f, !.new = f], "downM2")
      <3> DEFINE o == [Idle EXCEPT !.kind = "download", !.name = f, !.new = f]
      <3>1. o.kind = "download" /\ Request(s, o, "downM2")
        BY <2>3 DEF Idle
      <3> HIDE DEF o
      <3> QED BY <1>1, <3>1
    <2>4. CASE Request(s, [Idle EXCEPT !.kind = "rename", !.name = f, !.new = g], "renOld")
      <3> DEFINE o == [Idle EXCEPT !.kind = "rename", !.name = f, !.new = g]
      <3>1. o.kind = "rename" /\ Request(s, o, "renOld")
        BY <2>4 DEF Idle
      <3> HIDE DEF o
      <3> QED BY <1>1, <3>1
    <2>5. CASE Request(s, [Idle EXCEPT !.kind = "delete", !.name = f, !.new = f], "delM3")
      <3> DEFINE o == [Idle EXCEPT !.kind = "delete", !.name = f, !.new = f]
      <3>1. o.kind = "delete" /\ Request(s, o, "delM3")
        BY <2>5 DEF Idle
      <3> HIDE DEF o
      <3> QED BY <1>1, <3>1
    <2> QED BY <2>1, <2>2, <2>3, <2>4, <2>5
  <1> QED BY <1>2 DEF Follow, Follows

\* The steps that only look and answer.
LEMMA FollowsLooks ==
    ASSUME Typed, NEW s \in Sessions, Follow(s),
           \/ UpM2(s) \/ UpLook(s) \/ UpEnd(s) \/ DownM2(s)
           \/ RenOld(s) \/ RenNew(s) \/ DelM3(s) \/ DelLook(s) \/ Vanish(s)
    PROVE  Follow(s)' /\ Answered(s)
  <1> DEFINE f == op[s].name
  <1>1. /\ op' = op /\ dir' = dir /\ data' = data
        /\ \/ pc[s] = "upM2" /\ pc'[s] = "run" /\ res'[s] = "NACK" /\ Present(f)
           \/ pc[s] = "upM2" /\ pc'[s] = "upLook" /\ ~Present(f)
           \/ pc[s] = "upLook" /\ pc'[s] = (IF Present(f) THEN "upMi" ELSE "upCreate")
           \/ pc[s] = "upEnd" /\ pc'[s] = "upClose" /\ res'[s] = "ACK"
           \/ pc[s] = "downM2" /\ pc'[s] = "run" /\ res'[s] = "FILE_NOT_FOUND" /\ ~Present(f)
           \/ pc[s] = "downM2" /\ pc'[s] = "downOpen" /\ Present(f)
           \/ pc[s] = "renOld" /\ pc'[s] = "run" /\ res'[s] = "FILE_NOT_FOUND" /\ ~Present(f)
           \/ pc[s] = "renOld" /\ pc'[s] = "renNew" /\ Present(f)
           \/ /\ pc[s] = "renNew" /\ pc'[s] = "run" /\ res'[s] = "FILE_ALREADY_EXISTS"
              /\ Present(op[s].new)
           \/ pc[s] = "renNew" /\ pc'[s] = "renMove" /\ ~Present(op[s].new)
           \/ pc[s] = "delM3" /\ pc'[s] = "delLook"
           \/ pc[s] = "delM3" /\ pc'[s] = "run" /\ res'[s] = "NO_DELETE_CONFIRM"
           \/ pc[s] = "delLook" /\ pc'[s] = "delRemove" /\ Present(f)
           \/ pc[s] = "delLook" /\ pc'[s] = "silent" /\ ~Present(f)
           \/ pc'[s] = "gone"
    BY DEF UpM2, UpLook, UpEnd, DownM2, RenOld, RenNew, DelM3, DelLook, Vanish, Goto, Answer,
       files, Typed, SessionsOK, RestOK
  <1>2. UNCHANGED <<Content(f), op[s]>>
    BY <1>1 DEF Content, Present
  <1>3. Follow(s)'
    BY <1>1, <1>2 DEF Follow, Follows, Present
  <1>4. Answered(s)
    BY <1>1, <1>2 DEF Follow, Follows, Answered, Atomic, Present
  <1> QED BY <1>3, <1>4

\* The opening of an upload's file gives the name to the file.
LEMMA FollowsCreate ==
    ASSUME Typed, Unborn, NEW s \in Sessions, Follow(s), UpCreate(s)
    PROVE  Follow(s)' /\ Answered(s)
  <1> DEFINE f == op[s].name
             i == op[s].id
             o == [op[s] EXCEPT !.node = i]
  <1>1. pc[s] = "upCreate" /\ pc'[s] = "upMi"
    BY Goes DEF UpCreate
  <1>2. ~Present(f) /\ op[s].kind = "upload" /\ op[s].next = 0 /\ ~op[s].buf
        /\ i \in Uploads /\ f \in Names
    BY <1>1, Here DEF Follow, Follows, Present, Place, Operations
  <1>3. i \in Files /\ i # None
    BY <1>2, Marks DEF Files
  <1>4. /\ dir' = [dir EXCEPT ![f] = i] /\ data' = [data EXCEPT ![i] = <<>>]
        /\ op' = [op EXCEPT ![s] = o]
    BY <1>2 DEF UpCreate, With
  <1>5. /\ op'[s] = o /\ o.node = i /\ o.id = i /\ o.name = f /\ o.kind = "upload"
        /\ Flushed(o) = 0
    BY <1>2, <1>4, Here DEF Typed, SessionsOK, Operations, Flushed
  <1>6. dir'[f] = i /\ data'[i] = <<>> /\ Content(f)' = <<>>
    BY <1>2, <1>3, <1>4 DEF Content, Present, Typed, FilesOK
  <1>7. Whole(i, 0) = <<>>
    <2>1. Whole(i, 0) \in Seq({i}) /\ Len(Whole(i, 0)) = 0
      BY WholeTypes
    <2> QED BY <2>1, EmptySeq
  <1> QED BY <1>1, <1>3, <1>5, <1>6, <1>7 DEF Follow, Follows, Answered

\* A chunk that is written, or left in the buffer, is the next of the upload.
LEMMA FollowsChunk ==
    ASSUME Typed, NEW s \in Sessions, Follow(s), UpMi(s)
    PROVE  Follow(s)' /\ Answered(s)
  <1> DEFINE f == op[s].name
             i == op[s].node
  <1>1. pc[s] = "upMi" /\ pc'[s] \in {"upMi", "upEnd"}
    BY Goes DEF UpMi
  <1>2. /\ dir[f] = i /\ i # None /\ op[s].kind = "upload" /\ ~op[s].buf /\ op[s].next \in Nat
        /\ i \in Files /\ f \in Names /\ Content(f) = data[i]
        /\ data[i] = Whole(op[s].id, op[s].next)
    BY <1>1, Here DEF Follow, Follows, Flushed, Place, Operations, Content, Present
  <1>3. PICK b \in BOOLEAN :
           /\ op' = [op EXCEPT ![s] = [op[s] EXCEPT !.next = @ + 1, !.buf = b]]
           /\ data' = IF b THEN data
                      ELSE [data EXCEPT ![i] = Written(@, op[s].next + 1, op[s].id)]
           /\ dir' = dir
    BY <1>2 DEF UpMi, With
  <1> DEFINE o == [op[s] EXCEPT !.next = @ + 1, !.buf = b]
  <1>4. /\ op'[s] = o /\ o.node = i /\ o.id = op[s].id /\ o.name = f /\ o.new = op[s].new
        /\ o.kind = "upload" /\ o.next = op[s].next + 1 /\ o.buf = b
    BY <1>2, <1>3, Here DEF Typed, SessionsOK, Operations
  <1>5. data'[i] = Whole(o.id, Flushed(o))
    <2>1. CASE b
      BY <1>2, <1>3, <1>4, <2>1 DEF Flushed
    <2>2. CASE ~b
      <3>1. Flushed(o) = op[s].next + 1
        BY <1>4, <2>2 DEF Flushed
      <3>2. data'[i] = Written(Whole(op[s].id, op[s].next), op[s].next + 1, op[s].id)
        BY <1>2, <1>3, <2>2 DEF Typed, FilesOK
      <3> QED BY <1>2, <1>4, <3>1, <3>2, WrittenWhole
    <2> QED BY <2>1, <2>2
  <1>6. dir'[f] = i /\ Content(f)' = data'[i]
    BY <1>2, <1>3 DEF Content, Present
  <1> HIDE DEF o
  <1> QED BY <1>1, <1>2, <1>4, <1>5, <1>6 DEF Follow, Follows, Answered

\* An upload that has been acknowledged is stored when it is closed.
LEMMA FollowsClose ==
    ASSUME Typed, NEW s \in Sessions, Follow(s), UpClose(s)
    PROVE  Follow(s)' /\ Answered(s)
  <1> DEFINE f == op[s].name
             i == op[s].node
             o == [op[s] EXCEPT !.buf = FALSE]
  <1>1. pc[s] = "upClose" /\ pc'[s] = "run" /\ res' = res
    BY Goes DEF UpClose
  <1>2. /\ dir[f] = i /\ i # None /\ op[s].kind = "upload" /\ res[s] = "ACK"
        /\ op[s].next \in Nat \ {0} /\ op[s].next = op[s].size /\ op[s].buf \in BOOLEAN
        /\ i \in Files /\ f \in Names /\ Content(f) = data[i]
        /\ data[i] = Whole(op[s].id, Flushed(op[s]))
    BY <1>1, Here DEF Follow, Follows, Place, Operations, Content, Present
  <1>3. /\ op' = [op EXCEPT ![s] = o] /\ dir' = dir
        /\ data' = IF op[s].buf THEN [data EXCEPT ![i] = Written(@, op[s].next, op[s].id)]
                   ELSE data
    BY DEF UpClose, With
  <1>4. /\ op'[s] = o /\ o.id = op[s].id /\ o.name = f /\ o.kind = "upload"
        /\ o.size = op[s].size
    BY <1>2, <1>3, Here DEF Typed, SessionsOK, Operations
  <1>5. data'[i] = Whole(o.id, o.size)
    <2>1. CASE op[s].buf
      <3>1. data'[i] = Written(Whole(op[s].id, op[s].next - 1), op[s].next, op[s].id)
        BY <1>2, <1>3, <2>1 DEF Typed, FilesOK, Flushed
      <3>2. op[s].next - 1 \in Nat /\ (op[s].next - 1) + 1 = op[s].next
        BY <1>2
      <3>3. Written(Whole(op[s].id, op[s].next - 1), op[s].next, op[s].id)
              = Whole(op[s].id, op[s].next)
        BY <3>2, WrittenWhole
      <3> QED BY <1>2, <1>4, <3>1, <3>3
    <2>2. CASE ~op[s].buf
      BY <1>2, <1>3, <1>4, <2>2 DEF Flushed
    <2> QED BY <1>2, <2>1, <2>2
  <1>6. dir'[f] = i
    BY <1>2, <1>3
  <1>7. Atomic(s)
    BY <1>1, <1>2, <1>4, <1>5, <1>6 DEF Atomic
  <1> QED BY <1>1, <1>7 DEF Follow, Follows, Answered

\* A download is opened and measured ...
LEMMA FollowsOpen ==
    ASSUME Typed, NEW s \in Sessions, Follow(s), DownOpen(s) \/ DownSize(s)
    PROVE  Follow(s)' /\ Answered(s)
  <1> DEFINE f == op[s].name
  <1>1. pc[s] \in {"downOpen", "downSize"} /\ dir' = dir /\ data' = data
    BY Goes DEF DownOpen, DownSize, Goto, Answer, files
  <1>2. /\ op[s].kind = "download" /\ Present(f) /\ op[s].got = <<>> /\ f \in Names
        /\ op[s].new \in Names
    BY <1>1, Here DEF Follow, Follows, Place, Operations, Present
  <1>3. \A g \in Names : Content(g)' = Content(g)
    BY <1>1 DEF Content, Present
  <1>4. CASE DownOpen(s)
    <2> DEFINE o == [op[s] EXCEPT !.node = dir[f]]
    <2>1. pc'[s] = "downSize" /\ op' = [op EXCEPT ![s] = o]
      BY <1>2, <1>4, Goes DEF DownOpen, With
    <2>2. /\ op'[s] = o /\ o.node = dir[f] /\ o.name = f /\ o.new = op[s].new
          /\ o.kind = "download"
      BY <1>2, <2>1, Here DEF Typed, SessionsOK, Operations
    <2> HIDE DEF o
    <2> QED BY <1>1, <1>2, <1>3, <2>1, <2>2 DEF Follow, Follows, Answered, Present
  <1>5. CASE DownSize(s)
    <2> DEFINE n == Len(Content(f))
               o == [op[s] EXCEPT !.size = n]
    <2>1. /\ pc[s] = "downSize" /\ op' = [op EXCEPT ![s] = o]
          /\ IF n = 0 THEN pc'[s] = "run" /\ res'[s] = "ACK" ELSE pc'[s] = "downMi"
      BY <1>5, Goes, GivesAnswer DEF DownSize, With
    <2>2. /\ op'[s] = o /\ o.node = op[s].node /\ o.name = f /\ o.new = op[s].new
          /\ o.kind = "download" /\ o.got = <<>> /\ o.size = n
      BY <1>2, <2>1, Here DEF Typed, SessionsOK, Operations
    <2>3. op[s].node = dir[f]
      BY <2>1 DEF Follow, Follows
    <2>4. n = 0 => Content(f) = <<>>
      BY <1>2, Contents
    <2>5. Len(<<>>) = 0
      OBVIOUS
    <2> HIDE DEF o, n
    <2>6. Follow(s)'
      BY <1>1, <1>2, <1>3, <2>1, <2>2, <2>3, <2>5 DEF Follow, Follows, Present, n
    <2>7. Answered(s)
      BY <1>2, <2>1, <2>2, <2>4 DEF Answered, Atomic
    <2> QED BY <2>6, <2>7
  <1> QED BY <1>4, <1>5

\* ... and read chunk by chunk.
LEMMA FollowsRead ==
    ASSUME Typed, NEW s \in Sessions, Follow(s), DownMi(s)
    PROVE  Follow(s)' /\ Answered(s)
  <1> DEFINE f == op[s].name
             c == Content(f)
             k == Len(op[s].got) + 1
             o == [op[s] EXCEPT !.got = Append(@, c[k])]
  <1>1. pc[s] = "downMi" /\ dir' = dir /\ data' = data
    BY Goes DEF DownMi, Goto, Answer, files
  <1>2. /\ op[s].kind = "download" /\ Present(f) /\ op[s].node = dir[f] /\ f \in Names
        /\ op[s].size = Len(c) /\ \A j \in 1 .. Len(op[s].got) : op[s].got[j] = c[j]
        /\ op[s].got \in Seq(Chunks) /\ Len(op[s].got) \in Nat /\ Len(op[s].got) < Len(c)
    BY <1>1, Here DEF Follow, Follows, Place, Operations, Present
  <1>3. c \in Seq(Chunks \ {Stale}) /\ Len(c) \in Nat /\ c = data[op[s].node]
    BY <1>2, Contents DEF Content
  <1>4. k \in 1 .. Len(c) /\ \A j \in 1 .. Len(c) : c[j] \in Chunks /\ c[j] # Stale
    BY <1>2, <1>3
  <1>5. \A j \in 1 .. Len(op[s].got) : op[s].got[j] # Stale
    BY <1>2, <1>3, <1>4
  <1>6. /\ op' = [op EXCEPT ![s] = o]
        /\ IF k = Len(c) THEN pc'[s] = "run" /\ res'[s] = "ACK" ELSE pc'[s] = "downMi"
    <2>1. ~(k > Len(data[op[s].node]) \/ \E j \in 1 .. Len(op[s].got) : op[s].got[j] = Stale)
      BY <1>3, <1>4, <1>5
    <2>2. op' = [op EXCEPT ![s] = o]
      BY <1>3, <2>1 DEF DownMi, With
    <2> QED BY <1>2, <2>2, Goes, GivesAnswer DEF DownMi
  <1>7. /\ op'[s] = o /\ o.node = op[s].node /\ o.name = f /\ o.new = op[s].new
        /\ o.kind = "download" /\ o.size = Len(c) /\ o.got = Append(op[s].got, c[k])
    BY <1>2, <1>6, Here DEF Typed, SessionsOK, Operations
  <1>8. /\ o.got \in Seq(Chunks) /\ Len(o.got) = k
        /\ \A j \in 1 .. k : o.got[j] = c[j]
    BY <1>2, <1>4, <1>7
  <1>9. \A g \in Names : Content(g)' = Content(g)
    BY <1>1 DEF Content, Present
  <1>10. k = Len(c) => o.got = c
    BY <1>3, <1>8, SeqEqual
  <1> HIDE DEF o, k
  <1>11. Follow(s)'
    <2>1. CASE pc'[s] = "run"
      BY <2>1 DEF Follow, Follows
    <2>2. CASE pc'[s] = "downMi"
      <3>1. op'[s].name = f /\ Content(op[s].name)' = c /\ dir'[f] = dir[f] /\ dir[f] # None
        BY <1>1, <1>2, <1>6, <1>7, <1>9 DEF Present
      <3> QED BY <1>2, <1>7, <1>8, <2>2, <3>1 DEF Follow, Follows
    <2> QED BY <1>6, <2>1, <2>2
  <1>12. Answered(s)
    BY <1>2, <1>6, <1>7, <1>10 DEF Answered, Atomic
  <1> QED BY <1>11, <1>12

\* The steps that change the directory of an undisturbed session are what it answers.
LEMMA FollowsNames ==
    ASSUME Typed, NEW s \in Sessions, Follow(s), RenMove(s) \/ DelRemove(s)
    PROVE  Follow(s)' /\ Answered(s)
  <1>1. op' = op
    BY DEF RenMove, DelRemove
  <1>2. CASE RenMove(s)
    <2>1. pc[s] = "renMove"
      BY <1>2 DEF RenMove, Answer, Goto
    <2>2. op[s].kind = "rename" /\ Present(op[s].name) /\ ~Present(op[s].new)
      BY <2>1 DEF Follow, Follows, Present
    <2>3. /\ pc'[s] = "run" /\ res'[s] = "ACK"
          /\ dir' = [dir EXCEPT ![op[s].name] = None, ![op[s].new] = dir[op[s].name]]
      BY <1>2, <2>2, GivesAnswer DEF RenMove
    <2> QED BY <1>1, <2>2, <2>3 DEF Follow, Follows, Answered, Atomic
  <1>3. CASE DelRemove(s)
    <2>1. pc[s] = "delRemove"
      BY <1>3 DEF DelRemove, Answer, Goto
    <2>2. op[s].kind = "delete" /\ Present(op[s].name)
      BY <2>1 DEF Follow, Follows, Present
    <2>3. /\ pc'[s] = "run" /\ res'[s] = "ACK" /\ dir' = [dir EXCEPT ![op[s].name] = None]
      BY <1>3, <2>2, GivesAnswer DEF DelRemove
    <2> QED BY <1>1, <2>2, <2>3 DEF Follow, Follows, Answered, Atomic
  <1> QED BY <1>2, <1>3

\* What another session does to the rest changes nothing for a session it does not disturb.
LEMMA FollowsOthers ==
    ASSUME Typed, NEW s \in Sessions, Step(s), NEW t \in Sessions, t # s,
           View(t)' = View(t), Follow(t)
    PROVE  Follow(t)' /\ (pc[t] # "run" => Answered(t))
  <1>1. pc'[t] = pc[t] /\ op'[t] = op[t]
    BY StepIsOwn
  <1>2. res'[t] = res[t]
    <2>1. CASE Requests(s)
      <3>1. ASSUME NEW o, NEW to, Request(s, o, to)
            PROVE  res'[t] = res[t]
        BY <3>1 DEF Request, Typed, RestOK
      <3> QED BY <2>1, <3>1 DEF Requests
    <2>2. CASE ~Requests(s)
      BY <2>2 DEF Step, UpM2, UpLook, UpCreate, UpMi, UpEnd, UpClose, DownM2, DownOpen, DownSize,
         DownMi, RenOld, RenNew, RenMove, DelM3, DelLook, DelRemove, Vanish, Answer, Typed, RestOK
    <2> QED BY <2>1, <2>2
  <1>3. /\ dir'[op[t].name] = dir[op[t].name] /\ dir'[op[t].new] = dir[op[t].new]
        /\ Content(op[t].name)' = Content(op[t].name)
    <2>1. View(t) = [f \in {op[t].name, op[t].new} |-> <<dir[f], Content(f)>>]
      BY DEF View
    <2>2. View(t)' = [f \in {op[t].name, op[t].new} |-> <<dir'[f], Content(f)'>>]
      BY <1>1 DEF View
    <2>3. ASSUME NEW f \in {op[t].name, op[t].new}
          PROVE  <<dir'[f], Content(f)'>> = <<dir[f], Content(f)>>
      BY <2>1, <2>2
    <2>4. op'[t].name = op[t].name
      BY <1>1
    <2> QED BY <2>3, <2>4 DEF Content, Present
  <1>5. Follow(t)'
    BY <1>1, <1>2, <1>3 DEF Follow
  <1>6. pc[t] # "run" => Answered(t)
    <2>1. SUFFICES ASSUME pc[t] = "silent" PROVE Atomic(t)
      BY <1>1 DEF Answered
    <2>2. op'[t] = op[t] /\ pc'[t] = "silent" /\ op[t].kind = "delete" /\ ~Present(op[t].name)
      BY <1>1, <2>1 DEF Follow, Follows, Present
    <2> QED BY <2>2 DEF Atomic
  <1> QED BY <1>5, <1>6

\* All steps.
LEMMA FollowedStep ==
    ASSUME Typed, Unborn, Followed, NEW s \in Sessions, Step(s), Undisturbed(s)
    PROVE  /\ Followed'
           /\ \A t \in steady \cap steady' : pc[t] # "run" => Answered(t)
  <1>1. ASSUME NEW t \in steady'
        PROVE  Follow(t)' /\ (t \in steady /\ pc[t] # "run" => Answered(t))
    <2>1. CASE t # s
      <3>1. t \in steady /\ View(t)' = View(t) /\ t \in Sessions /\ Follow(t)
        BY <2>1 DEF Undisturbed, Typed, RestOK, Followed
      <3> QED BY <2>1, <3>1, FollowsOthers
    <2>2. CASE t = s /\ pc[s] = "run"
      <3>1. Requests(s)
        BY <2>2 DEF Step, UpM2, UpLook, UpCreate, UpMi, UpEnd, UpClose, DownM2, DownOpen, DownSize,
           DownMi, RenOld, RenNew, RenMove, DelM3, DelLook, DelRemove, Vanish, Goto, Answer
      <3> QED BY <2>2, <3>1, FollowsRequest
    <2>3. CASE t = s /\ pc[s] # "run"
      <3>1. Follow(s)
        BY <2>3 DEF Undisturbed, Followed
      <3>2. ~Requests(s)
        BY <2>3, FollowsRequest
      <3>3. Follow(s)' /\ Answered(s)
        BY <3>1, <3>2, FollowsLooks, FollowsCreate, FollowsChunk, FollowsClose, FollowsOpen,
           FollowsRead, FollowsNames DEF Step
      <3> QED BY <2>3, <3>3
    <2> QED BY <2>1, <2>2, <2>3
  <1> QED BY <1>1 DEF Followed

\* An operation whose names keep their meaning from its request to its answer behaves as if
\* its handler were one atomic step between the calls of any number of other sessions, with or
\* without restarts: what the handler has looked up is still so when it acts on it.
THEOREM SteadyIsAtomic == Spec => AtomicIfSteady
  <1> DEFINE AsOne == \A s \in steady \cap steady' :
                 pc[s] # "run" /\ pc'[s] \in {"run", "silent"} => Atomic(s)
  <1>1. Init => Followed
    BY DEF Init, Followed
  <1>2. Typed /\ Unborn /\ Followed /\ [Next]_vars => Followed' /\ [AsOne]_vars
    <2> SUFFICES ASSUME Typed, Unborn, Followed, [Next]_vars
                 PROVE  Followed' /\ [AsOne]_vars
      OBVIOUS
    <2>1. ASSUME NEW s \in Sessions, Step(s), Undisturbed(s)
          PROVE  Followed' /\ AsOne
      BY <2>1, FollowedStep DEF Answered
    <2>2. CASE Restart
      BY <2>2 DEF Restart, Followed
    <2>3. CASE UNCHANGED vars
      BY <2>3 DEF vars, Followed, Follow, Content, Present
    <2> QED BY <2>1, <2>2, <2>3 DEF Next
  <1>3. AtomicIfSteady <=> [][AsOne]_vars
    BY DEF AtomicIfSteady
  <1> HIDE DEF AsOne
  <1> QED BY <1>1, <1>2, <1>3, TypeInit, TypeStep, NamesInit, NamesStep, PTL DEF Spec

=============================================================================
